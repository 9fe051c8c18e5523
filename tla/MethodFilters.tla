---------------------------- MODULE MethodFilters ----------------------------
(***************************************************************************)
(* How a method's names are taken from the CLR's metadata and matched      *)
(* against the filter rules: MethodCache.cpp and SimpleGlobMatch.          *)
(*                                                                         *)
(* A name is a sequence of symbols; only "*", ".", "/" and the symbols of  *)
(* compiler-made names matter, any other symbol stands for a piece of an   *)
(* identifier.  A rule list is a set of rules: the code asks only whether  *)
(* some rule of the list matches.                                          *)
(***************************************************************************)
EXTENDS Integers, Sequences, SequencesExt, FiniteSets

Levels == {"assembly", "namespace", "class", "method"}
MoveNext == <<"MoveNext">>

\* std::string::rfind of one character: its last position, 0 if absent.
LastIndexOf(s, symbol) == SelectLastInSeq(s, LAMBDA c : c = symbol)

-----------------------------------------------------------------------------
(* The code's matching.                                                    *)

HasTrailingWildcard(pattern) == Len(pattern) >= 2 /\ Last(pattern) = "*"
HasLeadingWildcard(pattern)  == Len(pattern) >= 2 /\ pattern[1] = "*" /\ pattern[2] = "."

\* Mutation: a leading wildcard is compared as a prefix.
GlobSuffixAsPrefix(pattern, value) ==
  \/ pattern = <<"*">>
  \/ HasTrailingWildcard(pattern) /\ IsPrefix(Front(pattern), value)
  \/ HasLeadingWildcard(pattern) /\ IsPrefix(Tail(pattern), value)
  \/ pattern = value

SimpleGlobMatch(pattern, value) ==
  \/ pattern = <<"*">>
  \/ HasTrailingWildcard(pattern) /\ IsPrefix(Front(pattern), value)
  \/ /\ ~HasTrailingWildcard(pattern)
     /\ IF HasLeadingWildcard(pattern)
        THEN IsSuffix(Tail(pattern), value)
        ELSE pattern = value

\* An unknown level matches nothing.
MatchesRule(rule, names) ==
  rule.level \in Levels /\ SimpleGlobMatch(rule.pattern, names[rule.level])

EvaluateFilters(filters, names) ==
  /\ \/ filters.includes = {}
     \/ \E rule \in filters.includes : MatchesRule(rule, names)
  /\ ~ \E rule \in filters.excludes : MatchesRule(rule, names)

-----------------------------------------------------------------------------
(* The code's parsing of names.                                            *)

\* A type name is split at its last dot.
NamespaceOf(typeName) == SubSeq(typeName, 1, LastIndexOf(typeName, ".") - 1)
ClassOf(typeName) == SubSeq(typeName, LastIndexOf(typeName, ".") + 1, Len(typeName))

\* Mutation: the extension is taken to start at the first dot.
AssemblyToFirstDot(path) ==
  LET fileName == SubSeq(path, LastIndexOf(path, "/") + 1, Len(path))
      dotPos   == SelectInSeq(fileName, LAMBDA c : c = ".")
  IN  IF dotPos = 0 THEN fileName ELSE SubSeq(fileName, 1, dotPos - 1)

\* The file name of the module's path, without its extension.
AssemblyOf(path) ==
  LET fileName == SubSeq(path, LastIndexOf(path, "/") + 1, Len(path))
      dotPos   == LastIndexOf(fileName, ".")
  IN  IF dotPos = 0 THEN fileName ELSE SubSeq(fileName, 1, dotPos - 1)

\* "<Name>d__N": the state machine class of the async method Name.
IsAsyncStateMachine(className, methodName) ==
  /\ methodName = MoveNext
  /\ Len(className) > 0 /\ className[1] = "<"
  /\ \E i \in 1..Len(className) - 1 : className[i] = ">" /\ className[i + 1] = "d__"

ExtractOriginalMethodName(className) ==
  LET closeBracket == SelectInSeq(className, LAMBDA c : c = ">")
  IN  IF className # <<>> /\ className[1] = "<" /\ closeBracket > 2
      THEN SubSeq(className, 2, closeBracket - 1)
      ELSE <<>>

-----------------------------------------------------------------------------
(* What the CLR reports of a method whose author wrote `names'.            *)

TypeName(names) ==
  IF names.namespace = <<>> THEN names.class ELSE names.namespace \o <<".">> \o names.class

ModulePath(names) == <<"bin", "/">> \o names.assembly \o <<".", "dll">>

\* Names are sequences, a class's name has no dot and an assembly's no slash.
\* The class that the compiler makes for an async method or an iterator has the
\* author's name in it; any other method is known by its own.
WellNamed(names) ==
  /\ \A level \in Levels : names[level] \in Seq(STRING)
  /\ \A i \in DOMAIN names.class : names.class[i] # "."
  /\ \A i \in DOMAIN names.assembly : names.assembly[i] # "/"
  /\ IF IsAsyncStateMachine(names.class, names.method)
     THEN /\ names.author \in Seq(STRING) /\ names.author # <<>>
          /\ \A i \in DOMAIN names.author : names.author[i] # ">"
          /\ IsPrefix(<<"<">> \o names.author \o <<">">>, names.class)
     ELSE names.author = names.method

-----------------------------------------------------------------------------
(* The documented meaning (Tool/README.md, How Filters Work): `*' stands   *)
(* for any text.                                                           *)

\* The places at which the text of each symbol of the pattern begins: there is
\* a way to cut the value so that every symbol but the stars stands for itself.
GlobMatch(pattern, value) ==
  \E cut \in [1..Len(pattern) + 1 -> 1..Len(value) + 1] :
    /\ cut[1] = 1 /\ cut[Len(pattern) + 1] = Len(value) + 1
    /\ \A i \in 1..Len(pattern) :
         IF pattern[i] = "*"
         THEN cut[i] <= cut[i + 1]
         ELSE cut[i + 1] = cut[i] + 1 /\ value[cut[i]] = pattern[i]

DocumentedDecision(filters, names) ==
  LET Matches(rule) == rule.level \in Levels /\ GlobMatch(rule.pattern, names[rule.level])
  IN  /\ filters.includes # {} => \E rule \in filters.includes : Matches(rule)
      /\ \A rule \in filters.excludes : ~Matches(rule)

\* The patterns the comments of SimpleGlobMatch describe: no `*', or one
\* that is the last symbol or starts with "*.".
Wildcards(pattern) == {i \in DOMAIN pattern : pattern[i] = "*"}
SimplePattern(pattern) ==
  \/ Wildcards(pattern) = {}
  \/ pattern # <<>> /\ Wildcards(pattern) = {Len(pattern)}
  \/ Wildcards(pattern) = {1} /\ HasLeadingWildcard(pattern)
=============================================================================
