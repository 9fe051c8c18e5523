--------------------------- MODULE RunMergeProofs ---------------------------
(***************************************************************************)
(* Theorems about RunMerge, for any templates, pids, processes and lines,  *)
(* on any platform.                                                        *)
(***************************************************************************)
EXTENDS RunMerge, FiniteSetTheorems, SequenceTheorems, TLAPS

-----------------------------------------------------------------------------
(* Bags of lines.                                                          *)

AllLines == Nat \X Nat \X Nat
Traces == UNION {[S -> Nat] : S \in SUBSET AllLines}

LEMMA TraceIs ==
  ASSUME NEW t
  PROVE  t \in Traces <=> t \in [BagToSet(t) -> Nat] /\ BagToSet(t) \subseteq AllLines
<1>1. ASSUME NEW S \in SUBSET AllLines, t \in [S -> Nat]
      PROVE  t \in [BagToSet(t) -> Nat] /\ BagToSet(t) \subseteq AllLines
  BY <1>1 DEF BagToSet
<1>2. ASSUME t \in [BagToSet(t) -> Nat], BagToSet(t) \subseteq AllLines
      PROVE  \E S \in SUBSET AllLines : t \in [S -> Nat]
  BY <1>2
<1> QED BY <1>1, <1>2 DEF Traces

LEMMA BagSum ==
  ASSUME NEW a \in Traces, NEW b \in Traces
  PROVE  /\ a (+) b \in Traces
         /\ BagToSet(a (+) b) = BagToSet(a) \cup BagToSet(b)
         /\ \A e \in BagToSet(a) \ BagToSet(b) : (a (+) b)[e] = a[e]
         /\ \A e \in BagToSet(b) \ BagToSet(a) : (a (+) b)[e] = b[e]
<1> DEFINE c == a (+) b
<1>1. /\ a \in [BagToSet(a) -> Nat] /\ BagToSet(a) \subseteq AllLines
      /\ b \in [BagToSet(b) -> Nat] /\ BagToSet(b) \subseteq AllLines
  BY TraceIs
<1>2. /\ BagToSet(c) = BagToSet(a) \cup BagToSet(b)
      /\ c = [e \in BagToSet(a) \cup BagToSet(b) |->
                (IF e \in BagToSet(a) THEN a[e] ELSE 0) + (IF e \in BagToSet(b) THEN b[e] ELSE 0)]
  BY DEF BagToSet, (+)
<1>3. \A e \in BagToSet(a) \cup BagToSet(b) :
        c[e] = (IF e \in BagToSet(a) THEN a[e] ELSE 0) + (IF e \in BagToSet(b) THEN b[e] ELSE 0)
  BY <1>2
<1>4. c \in [BagToSet(c) -> Nat] /\ BagToSet(c) \subseteq AllLines
  <2> HIDE DEF c
  <2> QED BY <1>1, <1>2
<1>5. c \in Traces
  BY <1>4, TraceIs
<1>6. /\ \A e \in BagToSet(a) \ BagToSet(b) : c[e] = a[e]
      /\ \A e \in BagToSet(b) \ BagToSet(a) : c[e] = b[e]
  <2> HIDE DEF c
  <2> QED BY <1>1, <1>3
<1> QED BY <1>2, <1>5, <1>6

LEMMA OneLine ==
  ASSUME NEW l \in AllLines
  PROVE  SetToBag({l}) \in Traces /\ BagToSet(SetToBag({l})) = {l} /\ SetToBag({l})[l] = 1
<1> DEFINE b == SetToBag({l})
<1>1. b = [e \in {l} |-> 1] /\ BagToSet(b) = {l}
  BY DEF BagToSet, SetToBag
<1>2. b \in [BagToSet(b) -> Nat] /\ BagToSet(b) \subseteq AllLines /\ b[l] = 1
  <2> HIDE DEF b
  <2> QED BY <1>1
<1> QED BY <1>1, <1>2, TraceIs

LEMMA NoLines == EmptyBag \in Traces /\ BagToSet(EmptyBag) = {}
<1>1. BagToSet(EmptyBag) = {} /\ EmptyBag \in [{} -> Nat]
  BY DEF BagToSet, SetToBag, EmptyBag
<1> QED BY <1>1, TraceIs

-----------------------------------------------------------------------------
(* Names.                                                                  *)

\* The provers do not know of the last eight that they are strings.
Tokens ==
  STRING \cup Pids
    \cup {".metreja", "/", "output", SessionToken, "_", PidToken, ".ndjson", "*"}
Paths == Seq(Tokens)

LEMMA ReplaceIs ==
  ASSUME NEW p \in Paths, NEW token, NEW value \in Tokens
  PROVE  /\ Replace(p, token, value) \in Paths
         /\ Len(Replace(p, token, value)) = Len(p)
         /\ \A i \in 1..Len(p) : Replace(p, token, value)[i] = IF p[i] = token THEN value ELSE p[i]
<1> DEFINE r == Replace(p, token, value)
<1>1. Len(p) \in Nat /\ DOMAIN p = 1..Len(p) /\ \A i \in 1..Len(p) : p[i] \in Tokens
  BY DEF Paths
<1>2. r = [i \in 1..Len(p) |-> IF p[i] = token THEN value ELSE p[i]]
  BY <1>1 DEF Replace
<1>3. \A i \in 1..Len(p) : (IF p[i] = token THEN value ELSE p[i]) \in Tokens
  BY <1>1
<1>4. r \in [1..Len(p) -> Tokens]
  BY <1>2, <1>3
<1>5. r \in Paths /\ Len(r) = Len(p)
  <2> HIDE DEF r
  <2> QED BY <1>1, <1>4 DEF Paths
<1> QED BY <1>2, <1>5

\* The first place of a token that a path has at most once.
LEMMA PlaceIs ==
  ASSUME NEW p \in Paths, NEW a, NEW at,
         at = SelectInSeq(p, LAMBDA token : token = a),
         \A i, j \in 1..Len(p) : p[i] = a /\ p[j] = a => i = j
  PROVE  \/ at = 0 /\ \A i \in 1..Len(p) : p[i] # a
         \/ at \in 1..Len(p) /\ p[at] = a
<1> DEFINE I == {i \in 1..Len(p) : p[i] = a}
<1>1. at = IF I = {} THEN 0 ELSE Min(I)
  BY DEF SelectInSeq
<1>2. ASSUME NEW x \in I PROVE at = x
  <2>1. I = {x}
    OBVIOUS
  <2>2. Min({x}) = x
    <3>1. x \in Nat
      BY DEF Paths
    <3>2. x \in {x} /\ \A y \in {x} : x =< y
      BY <3>1
    <3>3. Min({x}) \in {x}
      BY <3>2 DEF Min
    <3> QED BY <3>3
  <2> QED BY <1>1, <2>1, <2>2
<1> QED BY <1>1, <1>2

LEMMA OutputPathIs ==
  ASSUME NEW i
  PROVE  OutputPath(i) = IF procs[i].file = "parsed"
                         THEN ExpandPlaceholders(template, Session, procs[i].pid)
                         ELSE Defaults.outputPath
  BY DEF OutputPath, Load, ExpandPlaceholders, GetEnvVar, Parse, Present, Defaults

HasPid == PidToken \in Range(template)

Setting == setting \in [template : Templates, platform : Platforms]

\* Names for strings: the provers mix up strings and other values.
Star == "*"
Slash == "/"
Separators == {"_", "-"}

\* The template with the session's id in it.
Named == Replace(template, SessionToken, Session)

LEMMA NamedIs ==
  ASSUME Setting
  PROVE  /\ template \in Paths /\ Named \in Paths /\ Len(Named) = Len(template)
         /\ Len(template) \in Nat
         /\ \A i \in 1..Len(template) :
              /\ template[i] # Star
              /\ Named[i] = IF template[i] = SessionToken THEN Session ELSE template[i]
              /\ Named[i] # Star /\ Named[i] # SessionToken
              /\ Named[i] = PidToken => template[i] = PidToken
              /\ template[i] = PidToken => Named[i] = PidToken
              /\ Named[i] = Slash => template[i] = Slash
              /\ template[i] = Slash => Named[i] = Slash
         /\ \E i \in 1..Len(template) : template[i] = Slash
         /\ \A i, j \in 1..Len(template) : template[i] = PidToken /\ template[j] = PidToken => i = j
         /\ \E i \in 1..Len(template) : Named[i] \notin {PidToken} \cup Separators
         /\ HasPid <=> (\E i \in 1..Len(template) : template[i] = PidToken)
<1>1. template \in Templates /\ template \in Seq(STRING \ {"*"})
  BY RunMergeAssumption DEF Setting, template
<1>2. template \in Paths /\ Len(template) \in Nat /\ DOMAIN template = 1..Len(template)
  <2>1. STRING \ {"*"} \subseteq Tokens
    BY DEF Tokens
  <2>2. template \in Paths
    BY <1>1, <2>1, SeqMonotonic DEF Paths
  <2> QED BY <2>2 DEF Paths
<1>3. Named \in Paths /\ Len(Named) = Len(template)
      /\ \A i \in 1..Len(template) :
           Named[i] = IF template[i] = SessionToken THEN Session ELSE template[i]
  <2>1. Session \in Tokens
    BY RunMergeAssumption DEF Tokens
  <2>2. /\ Replace(template, SessionToken, Session) \in Paths
        /\ Len(Replace(template, SessionToken, Session)) = Len(template)
        /\ \A i \in 1..Len(template) :
             Replace(template, SessionToken, Session)[i] =
               IF template[i] = SessionToken THEN Session ELSE template[i]
    <3>1. template \in Paths
      BY <1>2
    <3> QED BY <2>1, <3>1, ReplaceIs
  <2> QED BY <2>2 DEF Named
<1>4. \A i \in 1..Len(template) : template[i] # Star
  BY <1>1 DEF Star
<1>5. SessionToken # PidToken /\ SessionToken # Slash
  BY DEF SessionToken, PidToken, Slash
<1>6. Session # Star /\ Session # Slash /\ Session # SessionToken /\ Session # PidToken
  BY RunMergeAssumption DEF Star, Slash
<1>7. \A i, j \in 1..Len(template) : template[i] = PidToken /\ template[j] = PidToken => i = j
  BY <1>1, <1>2, RunMergeAssumption
<1>8. PICK k \in 1..Len(template) : template[k] \notin {PidToken} \cup Separators
  BY <1>1, <1>2, RunMergeAssumption DEF Separators
<1>9. Named[k] \notin {PidToken} \cup Separators
  <2>1. Session \notin {PidToken} \cup Separators
    BY RunMergeAssumption DEF Separators
  <2> QED BY <1>3, <1>8, <2>1
<1>10. HasPid <=> (\E i \in 1..Len(template) : template[i] = PidToken)
  BY <1>2 DEF HasPid, Range
<1>11. \E i \in 1..Len(template) : Named[i] \notin {PidToken} \cup Separators
  BY <1>9
<1>12. ASSUME NEW i \in 1..Len(template)
       PROVE  /\ template[i] # Star
              /\ Named[i] = IF template[i] = SessionToken THEN Session ELSE template[i]
              /\ Named[i] # Star /\ Named[i] # SessionToken
              /\ Named[i] = PidToken => template[i] = PidToken
              /\ template[i] = PidToken => Named[i] = PidToken
              /\ Named[i] = Slash => template[i] = Slash
              /\ template[i] = Slash => Named[i] = Slash
  BY <1>3, <1>4, <1>5, <1>6
<1>13. \E i \in 1..Len(template) : template[i] = Slash
  BY <1>1, <1>2, RunMergeAssumption DEF Range, Slash
<1> QED BY <1>2, <1>3, <1>7, <1>10, <1>11, <1>12, <1>13


\* The pid goes with one separator; more than that is left.
LEMMA WithoutPidIs ==
  ASSUME NEW p \in Paths, \A i, j \in 1..Len(p) : p[i] = PidToken /\ p[j] = PidToken => i = j,
         NEW k \in 1..Len(p), p[k] \notin {PidToken} \cup Separators
  PROVE  /\ WithoutPid(p) \in Paths /\ Len(WithoutPid(p)) \in Nat /\ Len(WithoutPid(p)) # 0
         /\ (\A i \in 1..Len(p) : p[i] # PidToken) => WithoutPid(p) = p
         /\ (\E i \in 1..Len(p) : p[i] = PidToken) => Len(WithoutPid(p)) < Len(p)
         /\ \A i \in 1..Len(WithoutPid(p)) : \E j \in 1..Len(p) : WithoutPid(p)[i] = p[j]
<1> DEFINE at == SelectInSeq(p, LAMBDA token : token = PidToken)
           separates(i) == i \in DOMAIN p /\ p[i] \in Separators
           from == IF separates(at - 1) THEN at - 1 ELSE at
           to == IF separates(at + 1) /\ from = at THEN at + 1 ELSE at
           n == Len(p)
           left == SubSeq(p, 1, from - 1)
           right == SubSeq(p, to + 1, n)
<1>1. WithoutPid(p) = IF at = 0 THEN p ELSE left \o right
  BY DEF WithoutPid, Separators
<1>2. n \in Nat /\ DOMAIN p = 1..n
  BY DEF Paths
<1>3. \/ at = 0 /\ \A i \in 1..n : p[i] # PidToken
      \/ at \in 1..n /\ p[at] = PidToken
  BY PlaceIs
<1>4. CASE at = 0
  BY <1>1, <1>2, <1>3, <1>4
<1>5. CASE at # 0
  <2>1. at \in 1..n /\ p[at] = PidToken
    BY <1>3, <1>5
  <2>2. /\ from \in {at - 1, at} /\ to \in {at, at + 1}
        /\ from \in 1..n /\ to \in 1..n
        /\ from = at - 1 => to = at /\ p[at - 1] \in Separators
        /\ to = at + 1 => p[at + 1] \in Separators
    <3> HIDE DEF at
    <3> QED BY <1>2, <2>1
  <2> HIDE DEF at, from, to
  <2>3. k < from \/ k > to
    BY <1>2, <2>1, <2>2
  <2>4. /\ left \in Paths /\ Len(left) = from - 1
        /\ \A i \in 1..from - 1 : left[i] = p[i]
    <3>1. 1..from - 1 \subseteq 1..n
      BY <1>2, <2>1, <2>2
    <3> QED BY <1>2, <2>2, <3>1, SubSeqProperties DEF Paths
  <2>5. /\ right \in Paths /\ Len(right) = n - to
        /\ \A i \in 1..n - to : right[i] = p[to + i]
    <3> DEFINE m == to + 1
    <3>1. m \in 1..n + 1 /\ n \in m - 1..n /\ n - m + 1 = n - to
      BY <1>2, <2>2
    <3>2. (IF m <= n THEN n - m + 1 ELSE 0) = n - to
      <4> HIDE DEF n
      <4>1. CASE m <= n
        BY <1>2, <2>2, <4>1
      <4>2. CASE ~(m <= n)
        BY <1>2, <2>2, <4>2
      <4> QED BY <4>1, <4>2
    <3> HIDE DEF m
    <3>3. /\ SubSeq(p, m, n) \in Paths
          /\ Len(SubSeq(p, m, n)) = IF m <= n THEN n - m + 1 ELSE 0
          /\ \A i \in 1..n - m + 1 : SubSeq(p, m, n)[i] = p[m + i - 1]
      BY <1>2, <3>1, SubSeqProperties DEF Paths
    <3>4. \A i \in 1..n - to : m + i - 1 = to + i
      BY <2>2, <1>2 DEF m
    <3> QED BY <3>1, <3>2, <3>3, <3>4 DEF m
  <2> DEFINE w == left \o right
  <2>6. /\ w \in Paths /\ Len(w) = Len(left) + Len(right)
        /\ \A i \in 1..Len(left) + Len(right) :
             w[i] = IF i <= Len(left) THEN left[i] ELSE right[i - Len(left)]
    <3> HIDE DEF left, right
    <3> DEFINE S == Tokens
    <3>1. left \in Seq(S) /\ right \in Seq(S)
      BY <2>4, <2>5 DEF Paths
    <3> HIDE DEF S
    <3>2. /\ left \o right \in Seq(S) /\ Len(left \o right) = Len(left) + Len(right)
          /\ \A i \in 1..Len(left) + Len(right) :
               (left \o right)[i] = IF i <= Len(left) THEN left[i] ELSE right[i - Len(left)]
      BY <3>1, ConcatProperties, SMTT(30)
    <3> QED BY <3>2 DEF Paths, S
  <2> HIDE DEF left, right
  <2>7. WithoutPid(p) = w
    BY <1>1, <1>5
  <2> HIDE DEF w
  <2>8. Len(w) \in Nat /\ Len(w) # 0 /\ Len(w) < n
    BY <1>2, <2>1, <2>2, <2>3, <2>4, <2>5, <2>6
  <2>9. ASSUME NEW i \in 1..Len(w)
        PROVE  \E j \in 1..n : w[i] = p[j]
    <3>1. CASE i <= Len(left)
      BY <1>2, <2>2, <2>4, <2>5, <2>6, <3>1
    <3>2. CASE i > Len(left)
      <4>1. to + (i - Len(left)) \in 1..n /\ i - Len(left) \in 1..n - to
        BY <1>2, <2>2, <2>4, <2>5, <2>6, <3>2
      <4>2. w[i] = right[i - Len(left)]
        BY <1>2, <2>2, <2>4, <2>5, <2>6, <3>2
      <4> QED BY <2>5, <4>1, <4>2
    <3> QED BY <1>2, <2>2, <2>4, <2>6, <3>1, <3>2
  <2> QED BY <2>1, <2>6, <2>7, <2>8, <2>9
<1> QED BY <1>4, <1>5

LEMMA MergedIs ==
  ASSUME Setting
  PROVE  /\ ComputeMergedPath \in Paths /\ ComputeMergedPath # <<>>
         /\ ~HasPid => ComputeMergedPath = Named
         /\ HasPid => Len(ComputeMergedPath) < Len(template)
         /\ \A i \in 1..Len(ComputeMergedPath) : ComputeMergedPath[i] # SessionToken
<1>1. PICK k \in 1..Len(Named) : Named[k] \notin {PidToken} \cup Separators
  BY NamedIs
<1>2. \A i, j \in 1..Len(Named) : Named[i] = PidToken /\ Named[j] = PidToken => i = j
  BY NamedIs
<1>3. Named \in Paths /\ Len(Named) = Len(template)
  BY NamedIs
<1>4. ComputeMergedPath = WithoutPid(Named)
  BY DEF ComputeMergedPath, Named
<1>5. /\ WithoutPid(Named) \in Paths
      /\ Len(WithoutPid(Named)) \in Nat /\ Len(WithoutPid(Named)) # 0
      /\ (\A i \in 1..Len(Named) : Named[i] # PidToken) => WithoutPid(Named) = Named
      /\ (\E i \in 1..Len(Named) : Named[i] = PidToken) => Len(WithoutPid(Named)) < Len(Named)
      /\ \A i \in 1..Len(WithoutPid(Named)) : \E j \in 1..Len(Named) : WithoutPid(Named)[i] = Named[j]
  BY <1>1, <1>2, <1>3, WithoutPidIs
<1>6. ComputeMergedPath # <<>>
  BY <1>4, <1>5
<1>7. HasPid <=> (\E i \in 1..Len(Named) : Named[i] = PidToken)
  BY <1>3, NamedIs
<1>8. \A i \in 1..Len(Named) : Named[i] # SessionToken
  BY <1>3, NamedIs
<1> QED BY <1>3, <1>4, <1>5, <1>6, <1>7, <1>8

LEMMA DefaultIs ==
  /\ Defaults.outputPath \in Paths /\ Len(Defaults.outputPath) = 8
  /\ Defaults.outputPath[5] = SessionToken /\ Defaults.outputPath[7] = PidToken
<1>1. Defaults.outputPath =
        <<".metreja", "/", "output", "/", SessionToken, "_", PidToken, ".ndjson">>
  BY DEF Defaults
<1> DEFINE a == ".metreja"
           b == "/"
           c == "output"
           d == "_"
           e == ".ndjson"
<1>2. {a, b, c, SessionToken, d, PidToken, e} \subseteq Tokens
  BY DEF Tokens
<1> HIDE DEF a, b, c, d, e
<1>3. Defaults.outputPath = <<a, b, c, b, SessionToken, d, PidToken, e>>
  BY <1>1 DEF a, b, c, d, e
<1> QED BY <1>2, <1>3 DEF Paths

\* The path of a process that has read the session file.
LEMMA ExpandedIs ==
  ASSUME Setting, NEW i, procs[i].pid \in Pids, procs[i].file = "parsed"
  PROVE  /\ OutputPath(i) \in Paths /\ Len(OutputPath(i)) = Len(template)
         /\ \A k \in 1..Len(template) :
              OutputPath(i)[k] = IF Named[k] = PidToken THEN procs[i].pid ELSE Named[k]
<1>1. OutputPath(i) = Replace(Named, PidToken, procs[i].pid)
  BY OutputPathIs DEF ExpandPlaceholders, Named
<1>2. Named \in Paths /\ Len(Named) = Len(template)
  BY NamedIs
<1>3. procs[i].pid \in Tokens
  BY DEF Tokens
<1>4. /\ Replace(Named, PidToken, procs[i].pid) \in Paths
      /\ Len(Replace(Named, PidToken, procs[i].pid)) = Len(Named)
      /\ \A k \in 1..Len(Named) :
           Replace(Named, PidToken, procs[i].pid)[k] =
             IF Named[k] = PidToken THEN procs[i].pid ELSE Named[k]
  BY <1>2, <1>3, ReplaceIs
<1> QED BY <1>1, <1>2, <1>4

LEMMA OutputIs ==
  ASSUME Setting, NEW i, procs[i].pid \in Pids
  PROVE  /\ OutputPath(i) \in Paths /\ OutputPath(i) # <<>>
         /\ HasPid => OutputPath(i) # ComputeMergedPath
         /\ procs[i].file # "parsed" => OutputPath(i) # ComputeMergedPath
         /\ procs[i].file = "parsed" /\ ~HasPid => OutputPath(i) = ComputeMergedPath
<1>1. CASE procs[i].file # "parsed"
  <2>1. OutputPath(i) = Defaults.outputPath
    BY <1>1, OutputPathIs
  <2>2. ASSUME Defaults.outputPath = ComputeMergedPath PROVE FALSE
    <3>1. 5 \in 1..Len(ComputeMergedPath)
      BY <2>2, DefaultIs
    <3>2. ComputeMergedPath[5] # SessionToken
      BY <3>1, MergedIs
    <3> QED BY <2>2, <3>2, DefaultIs
  <2>3. Defaults.outputPath # <<>>
    BY DefaultIs
  <2> QED BY <1>1, <2>1, <2>2, <2>3, DefaultIs
<1>2. CASE procs[i].file = "parsed"
  <2>1. OutputPath(i) \in Paths /\ Len(OutputPath(i)) = Len(template) /\ Len(template) \in Nat
    BY <1>2, ExpandedIs, NamedIs
  <2>2. Len(template) # 0
    BY <2>1, NamedIs
  <2>3. OutputPath(i) # <<>>
    BY <2>1, <2>2
  <2>4. ASSUME HasPid, OutputPath(i) = ComputeMergedPath PROVE FALSE
    <3>1. Len(ComputeMergedPath) < Len(template)
      BY <2>4, MergedIs
    <3> QED BY <2>1, <2>4, <3>1
  <2>5. ASSUME ~HasPid PROVE OutputPath(i) = ComputeMergedPath
    <3>1. ComputeMergedPath = Named
      BY <2>5, MergedIs
    <3>2. \A k \in 1..Len(template) : Named[k] # PidToken
      BY <2>5, NamedIs
    <3>3. \A k \in 1..Len(template) : OutputPath(i)[k] = Named[k]
      BY <1>2, <3>2, ExpandedIs
    <3>4. Named \in Paths /\ Len(Named) = Len(template)
      BY NamedIs
    <3>5. OutputPath(i) = Named
      BY <2>1, <3>3, <3>4, SeqEqual DEF Paths
    <3> QED BY <3>1, <3>5
  <2> QED BY <1>2, <2>1, <2>3, <2>4, <2>5
<1> QED BY <1>1, <1>2

\* Where paths have a pid, other pids have other paths.
LEMMA OwnPath ==
  ASSUME Setting, HasPid, NEW i, NEW j, procs[i].pid \in Pids, procs[j].pid \in Pids,
         procs[i].file = "parsed", procs[i].pid # procs[j].pid
  PROVE  OutputPath(i) # OutputPath(j)
<1>1. CASE procs[j].file # "parsed"
  <2>1. OutputPath(j) = Defaults.outputPath
    BY <1>1, OutputPathIs
  <2>2. ASSUME OutputPath(i) = Defaults.outputPath PROVE FALSE
    <3>1. 7 \in 1..Len(template)
      BY <2>2, ExpandedIs, DefaultIs
    <3>2. OutputPath(i)[7] # PidToken
      <4>1. procs[i].pid # PidToken
        BY RunMergeAssumption
      <4> QED BY <3>1, <4>1, ExpandedIs
    <3> QED BY <2>2, <3>2, DefaultIs
  <2> QED BY <2>1, <2>2
<1>2. CASE procs[j].file = "parsed"
  <2>1. PICK k \in 1..Len(template) : Named[k] = PidToken
    BY NamedIs
  <2>2. OutputPath(i)[k] = procs[i].pid /\ OutputPath(j)[k] = procs[j].pid
    BY <1>2, <2>1, ExpandedIs
  <2> QED BY <2>2
<1> QED BY <1>1, <1>2

LEMMA GlobIs ==
  ASSUME Setting
  PROVE  /\ Glob \in Paths /\ Len(Glob) = Len(template)
         /\ \A k \in 1..Len(template) : Glob[k] = IF Named[k] = PidToken THEN Star ELSE Named[k]
<1>1. Glob = Replace(Named, PidToken, Star)
  BY DEF Glob, Named, Star
<1>2. Named \in Paths /\ Len(Named) = Len(template)
  BY NamedIs
<1>3. Star \in Tokens
  BY DEF Star, Tokens
<1>4. /\ Replace(Named, PidToken, Star) \in Paths
      /\ Len(Replace(Named, PidToken, Star)) = Len(Named)
      /\ \A k \in 1..Len(Named) :
           Replace(Named, PidToken, Star)[k] = IF Named[k] = PidToken THEN Star ELSE Named[k]
  BY <1>2, <1>3, ReplaceIs
<1> QED BY <1>1, <1>2, <1>4

-----------------------------------------------------------------------------
(* Directories and file names.                                             *)

\* A set of naturals has a least element; the library's induction rules take
\* an operator, its theorem on finite sets does not.
LEMMA LeastNat ==
  ASSUME NEW T \in SUBSET Nat, T # {}
  PROVE  \E x \in T : \A y \in T : x <= y
<1> DEFINE U == {1..n : n \in T}
<1>1. U \subseteq FiniteSubsetsOf(Nat) /\ U # {}
  <2>1. \A n \in T : IsFiniteSet(1..n) /\ 1..n \in SUBSET Nat
    BY FS_Interval
  <2> QED BY <2>1 DEF FiniteSubsetsOf
<1>2. \E u \in U : \A v \in U : ~ (<<v, u>> \in StrictSubsetOrdering(Nat))
  <2> HIDE DEF U
  <2> QED BY <1>1, FS_StrictSubsetOrderingWellFounded, WFMin, Zenon
<1>3. PICK x \in T : \A v \in U : ~ (<<v, 1..x>> \in StrictSubsetOrdering(Nat))
  BY <1>2
<1>4. ASSUME NEW y \in T, y < x PROVE FALSE
  <2>1. 1..y \subseteq 1..x /\ x \in 1..x /\ x \notin 1..y
    BY <1>4
  <2>2. <<1..y, 1..x>> \in StrictSubsetOrdering(Nat)
    BY <1>1, <2>1 DEF StrictSubsetOrdering, FiniteSubsetsOf
  <2> QED BY <1>3, <2>2
<1> QED BY <1>4

\* Where the name of the directory ends.
LastSlash(p) == Filters!LastIndexOf(p, Slash)
Slashes(p) == {i \in 1..Len(p) : p[i] = Slash}

LEMMA LastSlashIs ==
  ASSUME NEW p
  PROVE  LastSlash(p) = IF Slashes(p) # {} THEN Max(Slashes(p)) ELSE 0
BY DEF LastSlash, Slashes, Filters!LastIndexOf, Filters!SelectLastInSeq, Filters!Max, Max

LEMMA SlashIs ==
  ASSUME NEW p \in Paths
  PROVE  LastSlash(p) \in 0..Len(p) /\ (Slashes(p) # {} => LastSlash(p) # 0)
<1> DEFINE n == Len(p)
           T == Slashes(p)
           U == {i \in Nat : n - i \in T}
<1>1. n \in Nat /\ T \in SUBSET (1..n)
  BY DEF Paths, Slashes
<1> HIDE DEF n, T
<1>2. CASE T # {}
  <2>1. U \in SUBSET Nat /\ U # {}
    <3>1. PICK i \in T : TRUE
      BY <1>2
    <3>2. n - i \in U
      BY <1>1, <3>1
    <3> QED BY <3>2
  <2>2. PICK x \in U : \A y \in U : x <= y
    BY <2>1, LeastNat
  <2>3. ASSUME NEW y \in T PROVE n - x >= y
    <3>1. n - y \in U
      BY <1>1
    <3>2. x <= n - y /\ x \in Int /\ y \in Int /\ n \in Int
      BY <1>1, <2>2, <3>1
    <3> HIDE DEF U
    <3> QED BY <3>2
  <2>4. n - x \in T
    OBVIOUS
  <2>5. Max(T) \in T
    BY <2>3, <2>4 DEF Max
  <2>6. LastSlash(p) = Max(T)
    BY <1>2, LastSlashIs DEF T
  <2>7. LastSlash(p) \in 1..n
    BY <1>1, <2>5, <2>6
  <2> QED BY <1>1, <2>7 DEF n, T
<1>3. CASE T = {}
  <2>1. LastSlash(p) = 0
    BY <1>3, LastSlashIs DEF T
  <2> QED BY <1>1, <1>3, <2>1 DEF n, T
<1> QED BY <1>2, <1>3

LEMMA PathParts ==
  ASSUME NEW p \in Paths
  PROVE  /\ DirectoryOf(p) \in Paths /\ Len(DirectoryOf(p)) = LastSlash(p)
         /\ \A k \in 1..LastSlash(p) : DirectoryOf(p)[k] = p[k]
         /\ FileNameOf(p) \in Paths /\ Len(FileNameOf(p)) = Len(p) - LastSlash(p)
         /\ \A k \in 1..Len(p) - LastSlash(p) : FileNameOf(p)[k] = p[LastSlash(p) + k]
<1> DEFINE n == Len(p)
           l == LastSlash(p)
           b == l + 1
<1>1. /\ n \in Nat /\ l \in 0..n /\ \A k \in 1..n : p[k] \in Tokens
      /\ DirectoryOf(p) = SubSeq(p, 1, l) /\ FileNameOf(p) = SubSeq(p, b, n)
  BY SlashIs DEF Paths, DirectoryOf, FileNameOf, LastSlash, Slash
<1> HIDE DEF n, l
<1>2. /\ l \in Int /\ 1 \in Int /\ (IF 1 <= l THEN l - 1 + 1 ELSE 0) = l
      /\ l - 1 + 1 = l /\ \A k \in 1..l : 1 + k - 1 = k
      /\ \A k \in 1..l : p[k] \in Tokens
  BY <1>1
<1>3. /\ b \in Int /\ n \in Int /\ (IF b <= n THEN n - b + 1 ELSE 0) = n - l
      /\ n - b + 1 = n - l /\ \A k \in 1..n - l : b + k - 1 = l + k
      /\ \A k \in b..n : p[k] \in Tokens
  BY <1>1
<1> HIDE DEF b
<1>4. /\ SubSeq(p, 1, l) \in Seq(Tokens)
      /\ Len(SubSeq(p, 1, l)) = IF 1 <= l THEN l - 1 + 1 ELSE 0
      /\ \A k \in 1..l - 1 + 1 : SubSeq(p, 1, l)[k] = p[1 + k - 1]
  BY <1>2, SubSeqProperties
<1>5. /\ SubSeq(p, b, n) \in Seq(Tokens)
      /\ Len(SubSeq(p, b, n)) = IF b <= n THEN n - b + 1 ELSE 0
      /\ \A k \in 1..n - b + 1 : SubSeq(p, b, n)[k] = p[b + k - 1]
  BY <1>3, SubSeqProperties
<1>6. /\ DirectoryOf(p) \in Paths /\ Len(DirectoryOf(p)) = l
      /\ \A k \in 1..l : DirectoryOf(p)[k] = p[k]
  BY <1>1, <1>2, <1>4 DEF Paths
<1>7. /\ FileNameOf(p) \in Paths /\ Len(FileNameOf(p)) = n - l
      /\ \A k \in 1..n - l : FileNameOf(p)[k] = p[l + k]
  BY <1>1, <1>3, <1>5 DEF Paths
<1> QED BY <1>6, <1>7 DEF n, l

\* The same, for a path whose length and last separator are known.
LEMMA PartsAt ==
  ASSUME NEW p \in Paths, NEW n, NEW l, Len(p) = n, LastSlash(p) = l
  PROVE  /\ DirectoryOf(p) \in Paths /\ Len(DirectoryOf(p)) = l
         /\ \A k \in 1..l : DirectoryOf(p)[k] = p[k]
         /\ FileNameOf(p) \in Paths /\ Len(FileNameOf(p)) = n - l
         /\ \A k \in 1..n - l : FileNameOf(p)[k] = p[l + k]
BY PathParts

LEMMA PartsGivePath ==
  ASSUME NEW p \in Paths, NEW q \in Paths,
         DirectoryOf(p) = DirectoryOf(q), FileNameOf(p) = FileNameOf(q)
  PROVE  p = q
<1> DEFINE n == Len(p)
           l == LastSlash(p)
<1>1. n \in Nat /\ l \in 0..n /\ Len(q) \in Nat /\ LastSlash(q) \in 0..Len(q)
  BY SlashIs DEF Paths
<1>2. l = LastSlash(q)
  BY PathParts
<1>3. n - l = Len(q) - LastSlash(q)
  BY PathParts
<1>4. Len(q) = n
  BY <1>1, <1>2, <1>3
<1>5. /\ p \in Paths /\ Len(p) = n /\ LastSlash(p) = l
      /\ q \in Paths /\ Len(q) = n /\ LastSlash(q) = l
  BY <1>2, <1>4
<1> HIDE DEF n, l
<1>7. /\ DirectoryOf(p) \in Paths /\ Len(DirectoryOf(p)) = l
      /\ \A k \in 1..l : DirectoryOf(p)[k] = p[k]
      /\ FileNameOf(p) \in Paths /\ Len(FileNameOf(p)) = n - l
      /\ \A k \in 1..n - l : FileNameOf(p)[k] = p[l + k]
  BY <1>5, PartsAt
<1>8. /\ DirectoryOf(q) \in Paths /\ Len(DirectoryOf(q)) = l
      /\ \A k \in 1..l : DirectoryOf(q)[k] = q[k]
      /\ FileNameOf(q) \in Paths /\ Len(FileNameOf(q)) = n - l
      /\ \A k \in 1..n - l : FileNameOf(q)[k] = q[l + k]
  BY <1>5, PartsAt
<1>6. ASSUME NEW k \in 1..n PROVE p[k] = q[k]
  <2>1. CASE k \in 1..l
    BY <1>7, <1>8, <2>1
  <2>2. CASE k \notin 1..l
    <3>1. k - l \in 1..n - l /\ l + (k - l) = k
      BY <1>1, <2>2
    <3> QED BY <1>7, <1>8, <3>1
  <2> QED BY <2>1, <2>2
<1> QED BY <1>5, <1>6, SeqEqual DEF Paths

-----------------------------------------------------------------------------
(* Patterns.                                                               *)

\* A pattern without a star matches itself alone: each place in a cut is one
\* after the one before.
LEMMA StarFree ==
  ASSUME NEW p \in Paths, NEW v \in Paths, \A i \in 1..Len(p) : p[i] # Star,
         Filters!GlobMatch(p, v)
  PROVE  p = v
<1> DEFINE n == Len(p)
           m == Len(v)
<1>1. n \in Nat /\ m \in Nat
  BY DEF Paths
<1>2. PICK cut \in [1..n + 1 -> 1..m + 1] :
        /\ cut[1] = 1 /\ cut[n + 1] = m + 1
        /\ \A i \in 1..n : cut[i + 1] = cut[i] + 1 /\ v[cut[i]] = p[i]
  BY DEF Filters!GlobMatch, Star
<1> DEFINE T == {i \in 1..n + 1 : cut[i] # i}
<1> HIDE DEF n, m
<1>3. T = {}
  <2> SUFFICES ASSUME T # {} PROVE FALSE
    OBVIOUS
  <2>1. T \in SUBSET Nat
    OBVIOUS
  <2>2. PICK x \in T : \A y \in T : x <= y
    BY <2>1, LeastNat
  <2>3. x \in 1..n + 1 /\ x # 1 /\ cut[x] # x
    BY <1>2, <2>2
  <2>4. x - 1 \in 1..n /\ x - 1 \in 1..n + 1 /\ x - 1 \notin T /\ (x - 1) + 1 = x
    BY <1>1, <2>2, <2>3
  <2>5. cut[x - 1] = x - 1
    BY <2>4
  <2>6. cut[x] = cut[x - 1] + 1
    BY <1>2, <2>4
  <2> QED BY <2>3, <2>4, <2>5, <2>6
<1>4. \A i \in 1..n + 1 : cut[i] = i
  BY <1>3
<1>5. n + 1 \in 1..n + 1 /\ \A i \in 1..n : i \in 1..n + 1
  BY <1>1
<1>6. n = m
  BY <1>1, <1>2, <1>4, <1>5
<1>7. \A i \in 1..n : p[i] = v[i]
  BY <1>2, <1>4, <1>5
<1> QED BY <1>6, <1>7, SeqEqual DEF Paths, n, m

\* One token for every star.
LEMMA SameLength ==
  ASSUME NEW p \in Paths, NEW v \in Paths, Len(p) = Len(v),
         \A i \in 1..Len(p) : p[i] # Star => v[i] = p[i]
  PROVE  Filters!GlobMatch(p, v)
<1> DEFINE n == Len(p)
           cut == [i \in 1..n + 1 |-> i]
<1>1. n \in Nat
  BY DEF Paths
<1> HIDE DEF n
<1>2. /\ cut \in [1..n + 1 -> 1..n + 1] /\ cut[1] = 1 /\ cut[n + 1] = n + 1
      /\ \A i \in 1..n : cut[i] = i /\ cut[i + 1] = i + 1
  BY <1>1
<1> HIDE DEF cut
<1>3. \A i \in 1..n :
        /\ p[i] = "*" => cut[i] <= cut[i + 1]
        /\ p[i] # "*" => cut[i + 1] = cut[i] + 1 /\ v[cut[i]] = p[i]
  BY <1>1, <1>2 DEF n, Star
<1> QED BY <1>2, <1>3 DEF Filters!GlobMatch, n

\* Where paths have a pid, only they have a pattern that other files match.
LEMMA FoundHasPid ==
  ASSUME Setting, DOMAIN files \subseteq Paths, NEW path \in FindSessionOutputFiles
  PROVE  HasPid
<1>1. /\ path \in Paths /\ path # ComputeMergedPath
      /\ DirectoryOf(path) = DirectoryOf(Glob)
      /\ Filters!GlobMatch(FileNameOf(Glob), FileNameOf(path))
  BY DEF FindSessionOutputFiles
<1> SUFFICES ASSUME ~HasPid PROVE FALSE
  OBVIOUS
<1>2. Glob = Named
  <2>1. \A k \in 1..Len(template) : Glob[k] = Named[k]
    BY GlobIs, NamedIs
  <2>2. Glob \in Paths /\ Named \in Paths /\ Len(Glob) = Len(template) /\ Len(Named) = Len(template)
    BY GlobIs, NamedIs
  <2> QED BY <2>1, <2>2, SeqEqual DEF Paths
<1>3. Glob \in Paths /\ \A k \in 1..Len(Glob) : Glob[k] # Star
  BY <1>2, NamedIs
<1> DEFINE l == LastSlash(Glob)
           n == Len(Glob)
<1>4. /\ FileNameOf(Glob) \in Paths /\ Len(FileNameOf(Glob)) = n - l
      /\ \A k \in 1..n - l : FileNameOf(Glob)[k] = Glob[l + k]
      /\ FileNameOf(path) \in Paths
  BY <1>1, <1>3, PathParts
<1>5. l \in 0..n /\ n \in Nat
  BY <1>3, SlashIs DEF Paths
<1> HIDE DEF l
<1>6. \A k \in 1..n - l : l + k \in 1..n
  <2> HIDE DEF n
  <2> QED BY <1>5
<1>7. \A k \in 1..Len(FileNameOf(Glob)) : FileNameOf(Glob)[k] # Star
  BY <1>3, <1>4, <1>6
<1>8. FileNameOf(Glob) = FileNameOf(path)
  BY <1>1, <1>4, <1>7, StarFree
<1>9. path = Glob
  BY <1>1, <1>3, <1>8, PartsGivePath
<1>10. ComputeMergedPath = Named
  BY MergedIs
<1> QED BY <1>1, <1>2, <1>9, <1>10

\* The session's output path has {pid} in the name of the file, if at all.
PidInFileName == PidToken \notin Range(DirectoryOf(template))

\* The trace of a process that has read the session file is found there.
LEMMA OwnTraceFound ==
  ASSUME Setting, HasPid, PidInFileName, NEW i, procs[i].pid \in Pids,
         procs[i].file = "parsed", OutputPath(i) \in DOMAIN files
  PROVE  OutputPath(i) \in FindSessionOutputFiles
<1> DEFINE n == Len(template)
           l == LastSlash(template)
           own == OutputPath(i)
<1>1. /\ n \in Nat /\ template \in Paths /\ Slashes(template) # {}
      /\ Glob \in Paths /\ Len(Glob) = n /\ own \in Paths /\ Len(own) = n
  BY NamedIs, GlobIs, ExpandedIs DEF Slashes
<1>2. l \in 1..n
  <2>1. l \in 0..n /\ l # 0
    BY <1>1, SlashIs
  <2> HIDE DEF l, n
  <2> QED BY <1>1, <2>1
<1>3. ASSUME NEW k \in 1..n
      PROVE  /\ Glob[k] = IF template[k] = PidToken THEN Star ELSE Named[k]
             /\ own[k] = IF template[k] = PidToken THEN procs[i].pid ELSE Named[k]
             /\ Named[k] = Slash => template[k] = Slash
             /\ template[k] = Slash => Named[k] = Slash
  BY NamedIs, GlobIs, ExpandedIs
<1>4. procs[i].pid # Slash /\ Star # Slash /\ PidToken # Slash
  BY RunMergeAssumption DEF Star, Slash, PidToken
<1>5. LastSlash(Glob) = l /\ LastSlash(own) = l
  <2>1. Slashes(Glob) = Slashes(template)
    BY <1>1, <1>3, <1>4 DEF Slashes
  <2>2. Slashes(own) = Slashes(template)
    BY <1>1, <1>3, <1>4 DEF Slashes
  <2> QED BY <2>1, <2>2, LastSlashIs
<1>6. \A k \in 1..l : template[k] # PidToken
  <2>1. /\ DirectoryOf(template) \in Paths /\ Len(DirectoryOf(template)) = l
        /\ \A k \in 1..l : DirectoryOf(template)[k] = template[k]
    BY <1>1, PathParts
  <2>2. DOMAIN DirectoryOf(template) = 1..l
    BY <2>1 DEF Paths
  <2> QED BY <2>1, <2>2 DEF PidInFileName, Range
<1>9. own # ComputeMergedPath /\ own \in DOMAIN files
  BY OutputIs
<1> HIDE DEF n, l, own
<1>7. /\ DirectoryOf(Glob) \in Paths /\ Len(DirectoryOf(Glob)) = l
      /\ \A k \in 1..l : DirectoryOf(Glob)[k] = Glob[k]
      /\ FileNameOf(Glob) \in Paths /\ Len(FileNameOf(Glob)) = n - l
      /\ \A k \in 1..n - l : FileNameOf(Glob)[k] = Glob[l + k]
  BY <1>1, <1>5, PartsAt
<1>8. /\ DirectoryOf(own) \in Paths /\ Len(DirectoryOf(own)) = l
      /\ \A k \in 1..l : DirectoryOf(own)[k] = own[k]
      /\ FileNameOf(own) \in Paths /\ Len(FileNameOf(own)) = n - l
      /\ \A k \in 1..n - l : FileNameOf(own)[k] = own[l + k]
  BY <1>1, <1>5, PartsAt
<1>10. DirectoryOf(own) = DirectoryOf(Glob) /\ DirectoryOf(Glob) # <<>>
  <2>1. \A k \in 1..l : k \in 1..n
    BY <1>1, <1>2
  <2>2. \A k \in 1..l : own[k] = Glob[k]
    BY <1>3, <1>6, <2>1
  <2>3. \A k \in 1..l : DirectoryOf(own)[k] = DirectoryOf(Glob)[k]
    BY <1>7, <1>8, <2>2
  <2>4. DirectoryOf(own) = DirectoryOf(Glob)
    BY <1>7, <1>8, <2>3, SeqEqual DEF Paths
  <2>5. l # 0
    BY <1>2
  <2> QED BY <1>7, <2>4, <2>5
<1>11. Filters!GlobMatch(FileNameOf(Glob), FileNameOf(own))
  <2>1. \A k \in 1..n - l : l + k \in 1..n
    BY <1>1, <1>2
  <2>2. \A k \in 1..n - l : Glob[l + k] # Star => own[l + k] = Glob[l + k]
    BY <1>3, <2>1
  <2>3. \A k \in 1..n - l : FileNameOf(Glob)[k] # Star => FileNameOf(own)[k] = FileNameOf(Glob)[k]
    BY <1>7, <1>8, <2>2
  <2> QED BY <1>7, <1>8, <2>3, SameLength
<1> QED BY <1>9, <1>10, <1>11 DEF FindSessionOutputFiles, own

-----------------------------------------------------------------------------
(* The state.                                                              *)

States == {"started", "writing", "ended"}
Processes ==
  [pid : Pids, file : SessionFile, state : States, path : Paths, linked : BOOLEAN,
   lines : Nat, outlives : BOOLEAN]

Phases == {"idle", "detached", "waiting", "reading", "writing", "deleting", "done", "failed"}
Merging == {"reading", "writing", "deleting"}
Tools ==
  [phase : Phases, listed : BOOLEAN, unread : SUBSET Paths, originals : SUBSET Paths,
   events : Traces]

Shape ==
  /\ Setting /\ run \in Nat /\ run <= MaxRuns
  /\ DOMAIN files \subseteq Paths /\ files \in [DOMAIN files -> Traces]
  /\ procs \in Seq(Processes)
  /\ tool \in Tools

LEMMA ProcessesAre ==
  ASSUME procs \in Seq(Processes)
  PROVE  /\ Len(procs) \in Nat /\ DOMAIN procs = 1..Len(procs)
         /\ \A i \in DOMAIN procs :
              /\ procs[i] \in Processes /\ i \in Nat
              /\ procs[i].pid \in Pids /\ procs[i].file \in SessionFile
              /\ procs[i].state \in States /\ procs[i].path \in Paths
              /\ procs[i].linked \in BOOLEAN /\ procs[i].lines \in Nat
              /\ procs[i].outlives \in BOOLEAN
<1>1. Len(procs) \in Nat /\ DOMAIN procs = 1..Len(procs)
  OBVIOUS
<1>2. ASSUME NEW i \in 1..Len(procs)
      PROVE  i \in Nat /\ procs[i] \in Processes
  BY <1>1
<1>3. ASSUME NEW p \in Processes
      PROVE  /\ p.pid \in Pids /\ p.file \in SessionFile /\ p.state \in States
             /\ p.path \in Paths /\ p.linked \in BOOLEAN /\ p.lines \in Nat
             /\ p.outlives \in BOOLEAN
  BY DEF Processes
<1> QED BY <1>1, <1>2, <1>3

LEMMA IdleIs ==
  ASSUME NEW phase \in Phases
  PROVE  /\ Idle(phase) \in Tools
         /\ Idle(phase).phase = phase /\ Idle(phase).unread = {} /\ Idle(phase).originals = {}
         /\ Idle(phase).events = EmptyBag
         /\ phase \in {"waiting", "detached"} => ~Idle(phase).listed
         /\ phase \notin {"waiting", "detached"} => Idle(phase).listed
<1>1. Idle(phase) = [phase |-> phase, listed |-> phase \notin {"waiting", "detached"},
                     unread |-> {}, originals |-> {}, events |-> EmptyBag]
  BY DEF Idle
<1>2. EmptyBag \in Traces
  BY NoLines
<1>3. (phase \notin {"waiting", "detached"}) \in BOOLEAN
  OBVIOUS
<1> DEFINE listed == phase \notin {"waiting", "detached"}
<1>4. [phase |-> phase, listed |-> listed, unread |-> {}, originals |-> {}, events |-> EmptyBag]
        \in Tools
  <2> HIDE DEF listed
  <2>1. listed \in BOOLEAN
    BY <1>3 DEF listed
  <2> QED BY <1>2, <2>1 DEF Tools
<1>5. Idle(phase).listed = listed
  <2> HIDE DEF listed
  <2> QED BY <1>1 DEF listed
<1>6. CASE phase \in {"waiting", "detached"}
  <2>1. listed = FALSE
    BY <1>6
  <2> HIDE DEF listed
  <2> QED BY <1>1, <1>4, <1>5, <1>6, <2>1
<1>7. CASE phase \notin {"waiting", "detached"}
  <2>1. listed = TRUE
    BY <1>7
  <2> HIDE DEF listed
  <2>2. Idle(phase).listed
    BY <1>5, <2>1
  <2>3. Idle(phase) \in Tools /\ Idle(phase).phase = phase /\ Idle(phase).unread = {}
        /\ Idle(phase).originals = {} /\ Idle(phase).events = EmptyBag
    <3>1. Idle(phase) = [phase |-> phase, listed |-> listed, unread |-> {}, originals |-> {},
                         events |-> EmptyBag]
      BY <1>1 DEF listed
    <3> QED BY <1>4, <3>1
  <2> QED BY <1>7, <2>2, <2>3
<1> QED BY <1>6, <1>7

LEMMA TruncateIs ==
  ASSUME Shape, NEW path \in Paths, Truncate(path)
  PROVE  /\ DOMAIN files' = DOMAIN files \cup {path}
         /\ files'[path] = EmptyBag
         /\ \A p \in DOMAIN files : p # path => files'[p] = files[p]
         /\ DOMAIN files' \subseteq Paths /\ files' \in [DOMAIN files' -> Traces]
<1>1. files' = [p \in DOMAIN files \cup {path} |-> IF p = path THEN EmptyBag ELSE files[p]]
  BY DEF Truncate
<1>2. \A p \in DOMAIN files \cup {path} : (IF p = path THEN EmptyBag ELSE files[p]) \in Traces
  BY NoLines DEF Shape
<1> QED BY <1>1, <1>2 DEF Shape

\* Some of the traces, as they are or under other names.
LEMMA FilesKept ==
  ASSUME Shape, NEW S \in SUBSET Paths, NEW e,
         \A p \in S : e[p] \in DOMAIN files,
         files' = [p \in S |-> files[e[p]]]
  PROVE  DOMAIN files' \subseteq Paths /\ files' \in [DOMAIN files' -> Traces]
  BY DEF Shape

\* What remains of a process when some of its fields change.
SameProcess(q, p) ==
  q.pid = p.pid /\ q.file = p.file /\ q.state = p.state /\ q.path = p.path
    /\ q.linked = p.linked /\ q.lines = p.lines

LEMMA OutlivesSet ==
  ASSUME NEW p \in Processes, NEW b \in BOOLEAN
  PROVE  LET q == [p EXCEPT !.outlives = b]
         IN  q \in Processes /\ SameProcess(q, p) /\ q.outlives = b
  BY DEF Processes, SameProcess

\* The process starts: it has no trace yet.
StartsAs(p, listed) ==
  /\ p \in Processes /\ p.state = "started" /\ p.path = <<>> /\ p.linked = FALSE
  /\ p.lines = 0 /\ p.outlives = listed

LEMMA NewProcessIs ==
  ASSUME Shape, NEW pid \in Pids, NEW file \in SessionFile
  PROVE  StartsAs(NewProcess(pid, file), tool.listed)
<1>1. tool.listed \in BOOLEAN
  BY DEF Shape, Tools
<1>2. <<>> \in Paths
  BY DEF Paths
<1>3. "started" \in States
  BY DEF States
<1> DEFINE p(b) == [pid |-> pid, file |-> file, state |-> "started", path |-> <<>>, linked |-> FALSE,
                    lines |-> 0, outlives |-> b]
<1>4. \A b \in BOOLEAN : p(b) \in Processes
  BY <1>2, <1>3 DEF Processes
<1>5. \A b \in BOOLEAN : StartsAs(p(b), b)
  BY <1>4 DEF StartsAs
<1>6. NewProcess(pid, file) = p(tool.listed)
  BY DEF NewProcess
<1> HIDE DEF p
<1> QED BY <1>1, <1>5, <1>6

LEMMA Starts ==
  ASSUME Shape, NEW pid \in Pids, NEW file \in SessionFile
  PROVE  /\ StartsAs(NewProcess(pid, file), tool.listed)
         /\ StartsAs([NewProcess(pid, file) EXCEPT !.outlives = FALSE], FALSE)
<1> DEFINE p == NewProcess(pid, file)
<1>1. StartsAs(p, tool.listed)
  BY NewProcessIs
<1> HIDE DEF p
<1> DEFINE q == [p EXCEPT !.outlives = FALSE]
<1>2. p \in Processes
  BY <1>1 DEF StartsAs
<1>3. q \in Processes /\ SameProcess(q, p) /\ q.outlives = FALSE
  BY <1>2, OutlivesSet
<1> HIDE DEF q
<1>4. StartsAs(q, FALSE)
  BY <1>1, <1>3 DEF StartsAs, SameProcess
<1> QED BY <1>1, <1>4 DEF p, q

-----------------------------------------------------------------------------
(* What each step does.                                                    *)

\* A process keeps everything but, maybe, its state, and that only if it ends.
Stays(j) ==
  /\ procs'[j].pid = procs[j].pid /\ procs'[j].file = procs[j].file
  /\ procs'[j].path = procs[j].path /\ procs'[j].linked = procs[j].linked
  /\ procs'[j].lines = procs[j].lines
  /\ procs'[j].state = procs[j].state \/ procs'[j].state = "ended"

StaysAs(j) == Stays(j) /\ procs'[j].outlives = procs[j].outlives

LEMMA LaunchIs ==
  ASSUME Shape, NEW detach \in BOOLEAN, Launch(detach)
  PROVE  /\ Shape' /\ run' = run + 1 /\ UNCHANGED <<setting, files>>
         /\ DOMAIN procs' = {1} /\ StartsAs(procs'[1], FALSE)
         /\ tool'.phase \in {"waiting", "detached"} /\ ~tool'.listed
         /\ tool'.unread = {} /\ tool'.originals = {} /\ tool'.events = EmptyBag
<1>1. PICK pid \in Pids, file \in SessionFile :
        procs' = <<[NewProcess(pid, file) EXCEPT !.outlives = FALSE]>>
  BY DEF Launch
<1> DEFINE p == [NewProcess(pid, file) EXCEPT !.outlives = FALSE]
<1>2. StartsAs(p, FALSE)
  BY Starts
<1>3. procs' = <<p>>
  BY <1>1
<1> HIDE DEF p
<1>4. procs' \in Seq(Processes) /\ DOMAIN procs' = {1} /\ procs'[1] = p
  BY <1>2, <1>3 DEF StartsAs
<1> DEFINE phase == IF detach THEN "detached" ELSE "waiting"
<1>5. phase \in Phases /\ phase \in {"waiting", "detached"}
  BY DEF Phases
<1>6. tool' = Idle(phase)
  BY DEF Launch
<1> HIDE DEF phase
<1>7. /\ tool' \in Tools /\ tool'.phase = phase /\ ~tool'.listed
      /\ tool'.unread = {} /\ tool'.originals = {} /\ tool'.events = EmptyBag
  BY <1>5, <1>6, IdleIs
<1>8. run' = run + 1 /\ run < MaxRuns /\ UNCHANGED <<setting, files>>
  BY DEF Launch
<1>9. run' \in Nat /\ run' <= MaxRuns
  <2>1. MaxRuns \in Nat
    BY RunMergeAssumption
  <2>2. run \in Nat
    BY DEF Shape
  <2> QED BY <1>8, <2>1, <2>2
<1>10. setting' \in [template : Templates, platform : Platforms]
  BY <1>8 DEF Shape, Setting
<1> QED BY <1>2, <1>4, <1>5, <1>7, <1>8, <1>9, <1>10 DEF Shape, Setting

LEMMA SpawnIs ==
  ASSUME Shape, SpawnChild
  PROVE  /\ Shape' /\ UNCHANGED <<setting, files, run, tool>>
         /\ LET n == Len(procs) + 1
            IN  /\ DOMAIN procs' = DOMAIN procs \cup {n} /\ n \notin DOMAIN procs
                /\ StartsAs(procs'[n], tool.listed)
         /\ \A j \in DOMAIN procs : procs'[j] = procs[j]
<1>1. PICK pid \in FreePids, file \in SessionFile : procs' = Append(procs, NewProcess(pid, file))
  BY DEF SpawnChild
<1> DEFINE p == NewProcess(pid, file)
           n == Len(procs) + 1
<1>2. pid \in Pids
  BY DEF FreePids
<1>3. StartsAs(p, tool.listed)
  BY <1>2, Starts
<1>4. procs' = Append(procs, p)
  BY <1>1
<1> HIDE DEF p
<1>5. procs \in Seq(Processes) /\ p \in Processes
  BY <1>3 DEF Shape, StartsAs
<1>6. /\ procs' \in Seq(Processes) /\ Len(procs') = n /\ procs'[n] = p
      /\ \A j \in 1..Len(procs) : procs'[j] = procs[j]
  BY <1>4, <1>5, AppendProperties
<1>7. DOMAIN procs = 1..Len(procs) /\ DOMAIN procs' = 1..n /\ Len(procs) \in Nat
  BY <1>5, <1>6
<1>8. UNCHANGED <<setting, files, run, tool>>
  BY DEF SpawnChild
<1>9. DOMAIN procs' = DOMAIN procs \cup {n} /\ n \notin DOMAIN procs
  BY <1>7
<1> QED BY <1>3, <1>6, <1>7, <1>8, <1>9 DEF Shape, Setting

LEMMA OpenIs ==
  ASSUME Shape, NEW i \in DOMAIN procs, OpenTrace(i)
  PROVE  /\ Shape' /\ UNCHANGED <<setting, run, tool>>
         /\ DOMAIN procs' = DOMAIN procs
         /\ \A j \in DOMAIN procs \ {i} : procs'[j] = procs[j]
         /\ procs[i].state = "started"
         /\ procs'[i].pid = procs[i].pid /\ procs'[i].file = procs[i].file
         /\ procs'[i].state = "writing" /\ procs'[i].path = OutputPath(i)
         /\ procs'[i].linked = TRUE /\ procs'[i].lines = procs[i].lines
         /\ procs'[i].outlives = procs[i].outlives
         /\ DOMAIN files' = DOMAIN files \cup {OutputPath(i)}
         /\ files'[OutputPath(i)] = EmptyBag
         /\ \A p \in DOMAIN files : p # OutputPath(i) => files'[p] = files[p]
<1> DEFINE o == OutputPath(i)
<1>1. procs[i] \in Processes /\ procs[i].pid \in Pids
  BY ProcessesAre DEF Shape
<1>2. o \in Paths
  BY <1>1, OutputIs DEF Shape
<1>3. procs' = [procs EXCEPT ![i].state = "writing", ![i].path = o, ![i].linked = TRUE]
  BY DEF OpenTrace
<1>4. Truncate(o) /\ UNCHANGED <<setting, run, tool>> /\ procs[i].state = "started"
  BY DEF OpenTrace
<1> HIDE DEF o
<1> DEFINE q == [procs[i] EXCEPT !.state = "writing", !.path = o, !.linked = TRUE]
<1>5. /\ q \in Processes
      /\ q.pid = procs[i].pid /\ q.file = procs[i].file /\ q.state = "writing" /\ q.path = o
      /\ q.linked = TRUE /\ q.lines = procs[i].lines /\ q.outlives = procs[i].outlives
  <2>1. "writing" \in States
    BY DEF States
  <2> QED BY <1>1, <1>2, <2>1 DEF Processes
<1>6. procs' = [procs EXCEPT ![i] = q]
  BY <1>3
<1> HIDE DEF q
<1>7. /\ procs' \in Seq(Processes) /\ DOMAIN procs' = DOMAIN procs /\ procs'[i] = q
      /\ \A j \in DOMAIN procs \ {i} : procs'[j] = procs[j]
  <2>1. procs \in Seq(Processes) /\ i \in 1..Len(procs) /\ DOMAIN procs = 1..Len(procs)
    BY DEF Shape
  <2> QED BY <1>5, <1>6, <2>1, ExceptSeq
<1>8. /\ DOMAIN files' = DOMAIN files \cup {o} /\ files'[o] = EmptyBag
      /\ \A p \in DOMAIN files : p # o => files'[p] = files[p]
      /\ DOMAIN files' \subseteq Paths /\ files' \in [DOMAIN files' -> Traces]
  BY <1>2, <1>4, TruncateIs
<1>9. Shape'
  BY <1>4, <1>7, <1>8 DEF Shape, Setting
<1> QED BY <1>4, <1>5, <1>7, <1>8, <1>9 DEF o

NewLine(i) == <<run, i, procs[i].lines + 1>>

LEMMA LineWritten ==
  ASSUME NEW t \in Traces, NEW l \in AllLines
  PROVE  /\ t (+) SetToBag({l}) \in Traces
         /\ BagToSet(t (+) SetToBag({l})) = BagToSet(t) \cup {l}
         /\ \A e \in BagToSet(t) : e # l => (t (+) SetToBag({l}))[e] = t[e]
         /\ l \notin BagToSet(t) => (t (+) SetToBag({l}))[l] = 1
<1> DEFINE b == SetToBag({l})
<1>1. b \in Traces /\ BagToSet(b) = {l} /\ b[l] = 1
  BY OneLine
<1> HIDE DEF b
<1>2. /\ t (+) b \in Traces
      /\ BagToSet(t (+) b) = BagToSet(t) \cup BagToSet(b)
      /\ \A e \in BagToSet(t) \ BagToSet(b) : (t (+) b)[e] = t[e]
      /\ \A e \in BagToSet(b) \ BagToSet(t) : (t (+) b)[e] = b[e]
  BY <1>1, BagSum
<1> QED BY <1>1, <1>2 DEF b

LEMMA WriteLineIs ==
  ASSUME Shape, NEW i \in DOMAIN procs, WriteLine(i)
  PROVE  /\ Shape' /\ UNCHANGED <<setting, run, tool>>
         /\ DOMAIN procs' = DOMAIN procs
         /\ \A j \in DOMAIN procs \ {i} : procs'[j] = procs[j]
         /\ procs[i].state = "writing"
         /\ procs'[i].pid = procs[i].pid /\ procs'[i].file = procs[i].file
         /\ procs'[i].state = "writing" /\ procs'[i].path = procs[i].path
         /\ procs'[i].linked = procs[i].linked /\ procs'[i].lines = procs[i].lines + 1
         /\ procs'[i].outlives = procs[i].outlives
         /\ NewLine(i) \in AllLines
         /\ DOMAIN files' = DOMAIN files
         /\ \A p \in DOMAIN files : ~(procs[i].linked /\ p = procs[i].path) => files'[p] = files[p]
         /\ \A p \in DOMAIN files : procs[i].linked /\ p = procs[i].path =>
              /\ BagToSet(files'[p]) = BagToSet(files[p]) \cup {NewLine(i)}
              /\ \A e \in BagToSet(files[p]) : e # NewLine(i) => files'[p][e] = files[p][e]
              /\ NewLine(i) \notin BagToSet(files[p]) => files'[p][NewLine(i)] = 1
<1> DEFINE n == procs[i].lines + 1
           l == NewLine(i)
           q == [procs[i] EXCEPT !.lines = n]
<1>1. procs[i] \in Processes /\ procs[i].lines \in Nat /\ i \in Nat /\ n \in Nat
  BY ProcessesAre DEF Shape
<1>2. procs' = [procs EXCEPT ![i].lines = n]
  BY DEF WriteLine
<1>3. UNCHANGED <<setting, run, tool>> /\ procs[i].state = "writing"
  BY DEF WriteLine
<1>4. l \in AllLines
  BY <1>1 DEF NewLine, AllLines, Shape
<1> HIDE DEF n
<1>5. /\ q \in Processes
      /\ q.pid = procs[i].pid /\ q.file = procs[i].file /\ q.state = procs[i].state
      /\ q.path = procs[i].path /\ q.linked = procs[i].linked /\ q.lines = n
      /\ q.outlives = procs[i].outlives
  BY <1>1 DEF Processes
<1>6. procs' = [procs EXCEPT ![i] = q]
  BY <1>2
<1> HIDE DEF q
<1>7. /\ procs' \in Seq(Processes) /\ DOMAIN procs' = DOMAIN procs /\ procs'[i] = q
      /\ \A j \in DOMAIN procs \ {i} : procs'[j] = procs[j]
  <2>1. procs \in Seq(Processes) /\ i \in 1..Len(procs) /\ DOMAIN procs = 1..Len(procs)
    BY DEF Shape
  <2> QED BY <1>5, <1>6, <2>1, ExceptSeq
<1>8. files' = IF procs[i].linked
               THEN [files EXCEPT ![procs[i].path] = @ (+) SetToBag({l})] ELSE files
  BY DEF WriteLine, NewLine
<1> HIDE DEF l
<1>9. ASSUME NEW p \in DOMAIN files
      PROVE  /\ files[p] (+) SetToBag({l}) \in Traces
             /\ BagToSet(files[p] (+) SetToBag({l})) = BagToSet(files[p]) \cup {l}
             /\ \A e \in BagToSet(files[p]) : e # l => (files[p] (+) SetToBag({l}))[e] = files[p][e]
             /\ l \notin BagToSet(files[p]) => (files[p] (+) SetToBag({l}))[l] = 1
  <2>1. files[p] \in Traces
    BY DEF Shape
  <2> QED BY <1>4, <2>1, LineWritten
<1>10. DOMAIN files' = DOMAIN files
  BY <1>8
<1>11. ASSUME NEW p \in DOMAIN files
       PROVE  files'[p] = IF procs[i].linked /\ p = procs[i].path
                          THEN files[p] (+) SetToBag({l}) ELSE files[p]
  BY <1>8
<1>12. DOMAIN files' \subseteq Paths /\ files' \in [DOMAIN files' -> Traces]
  <2>1. \A p \in DOMAIN files : files'[p] \in Traces
    BY <1>9, <1>11 DEF Shape
  <2>2. files' = [p \in DOMAIN files |-> files'[p]]
    BY <1>8 DEF Shape
  <2> QED BY <1>10, <2>1, <2>2 DEF Shape
<1>13. Shape'
  BY <1>3, <1>7, <1>12 DEF Shape, Setting
<1>14. /\ procs'[i].pid = procs[i].pid /\ procs'[i].file = procs[i].file
       /\ procs'[i].state = "writing" /\ procs'[i].path = procs[i].path
       /\ procs'[i].linked = procs[i].linked /\ procs'[i].lines = n
       /\ procs'[i].outlives = procs[i].outlives
  BY <1>3, <1>5, <1>7
<1>15. ASSUME NEW p \in DOMAIN files, procs[i].linked, p = procs[i].path
       PROVE  /\ BagToSet(files'[p]) = BagToSet(files[p]) \cup {l}
              /\ \A e \in BagToSet(files[p]) : e # l => files'[p][e] = files[p][e]
              /\ l \notin BagToSet(files[p]) => files'[p][l] = 1
  <2>1. files'[p] = files[p] (+) SetToBag({l})
    BY <1>11, <1>15
  <2> QED BY <1>9, <2>1
<1>16. \A p \in DOMAIN files : ~(procs[i].linked /\ p = procs[i].path) => files'[p] = files[p]
  BY <1>11
<1> QED BY <1>3, <1>4, <1>7, <1>10, <1>13, <1>14, <1>15, <1>16 DEF l, n

LEMMA EndIs ==
  ASSUME Shape, NEW i \in DOMAIN procs, End(i)
  PROVE  /\ Shape' /\ UNCHANGED <<setting, files, run, tool>>
         /\ DOMAIN procs' = DOMAIN procs
         /\ \A j \in DOMAIN procs : StaysAs(j)
         /\ \A j \in DOMAIN procs \ {i} : procs'[j] = procs[j]
         /\ procs'[i].state = "ended"
<1> DEFINE q == [procs[i] EXCEPT !.state = "ended"]
<1>1. procs[i] \in Processes
  BY ProcessesAre DEF Shape
<1>2. /\ q \in Processes
      /\ q.pid = procs[i].pid /\ q.file = procs[i].file /\ q.state = "ended"
      /\ q.path = procs[i].path /\ q.linked = procs[i].linked /\ q.lines = procs[i].lines
      /\ q.outlives = procs[i].outlives
  <2>1. "ended" \in States
    BY DEF States
  <2> QED BY <1>1, <2>1 DEF Processes
<1>3. procs' = [procs EXCEPT ![i] = q] /\ UNCHANGED <<setting, files, run, tool>>
  BY DEF End
<1> HIDE DEF q
<1>4. /\ procs' \in Seq(Processes) /\ DOMAIN procs' = DOMAIN procs /\ procs'[i] = q
      /\ \A j \in DOMAIN procs \ {i} : procs'[j] = procs[j]
  <2>1. procs \in Seq(Processes) /\ i \in 1..Len(procs) /\ DOMAIN procs = 1..Len(procs)
    BY DEF Shape
  <2> QED BY <1>2, <1>3, <2>1, ExceptSeq
<1>5. Shape'
  BY <1>3, <1>4 DEF Shape, Setting
<1>6. ASSUME NEW j \in DOMAIN procs PROVE StaysAs(j)
  BY <1>2, <1>4 DEF StaysAs, Stays
<1> QED BY <1>2, <1>3, <1>4, <1>5, <1>6

\* The tool has looked for traces: it knows who is not over.
Surveyed(j) ==
  /\ procs'[j].pid = procs[j].pid /\ procs'[j].file = procs[j].file
  /\ procs'[j].state = procs[j].state /\ procs'[j].linked = procs[j].linked
  /\ procs'[j].lines = procs[j].lines
  /\ ~procs'[j].outlives => procs[j].state = "ended"

SeveralFound ==
  /\ tool'.phase = "reading" /\ tool'.listed /\ tool'.events = EmptyBag
  /\ tool'.unread = FindSessionOutputFiles /\ tool'.originals = FindSessionOutputFiles
  /\ FindSessionOutputFiles # {}
  /\ UNCHANGED files /\ \A j \in DOMAIN procs : procs'[j].path = procs[j].path

Over ==
  /\ tool'.phase = "done" /\ tool'.listed /\ tool'.events = EmptyBag
  /\ tool'.unread = {} /\ tool'.originals = {}

NoneFound ==
  /\ Over /\ FindSessionOutputFiles = {}
  /\ UNCHANGED files /\ \A j \in DOMAIN procs : procs'[j].path = procs[j].path

OneFound(path) ==
  /\ Over /\ FindSessionOutputFiles = {path}
  /\ DOMAIN files' = (DOMAIN files \ {path}) \cup {ComputeMergedPath}
  /\ files'[ComputeMergedPath] = files[path]
  /\ \A p \in DOMAIN files \ {path, ComputeMergedPath} : files'[p] = files[p]
  /\ \A j \in DOMAIN procs :
       /\ procs[j].path = path => procs'[j].path = ComputeMergedPath
       /\ procs[j].path # path => procs'[j].path = procs[j].path

LEMMA FoundAre ==
  FindSessionOutputFiles \subseteq DOMAIN files \ {ComputeMergedPath}
BY DEF FindSessionOutputFiles

\* A process with all but its path and whether it is over.
Surveying(j, path) == [[procs[j] EXCEPT !.outlives = j \in Live] EXCEPT !.path = path]

LEMMA SurveyingIs ==
  ASSUME NEW j, procs[j] \in Processes, NEW path \in Paths
  PROVE  LET q == Surveying(j, path)
         IN  /\ q \in Processes /\ q.path = path
             /\ q.pid = procs[j].pid /\ q.file = procs[j].file /\ q.state = procs[j].state
             /\ q.linked = procs[j].linked /\ q.lines = procs[j].lines
             /\ j \in DOMAIN procs /\ ~q.outlives => procs[j].state = "ended"
<1> DEFINE b == j \in Live
           q == [[procs[j] EXCEPT !.outlives = b] EXCEPT !.path = path]
<1>1. b \in BOOLEAN
  OBVIOUS
<1>2. j \in DOMAIN procs /\ ~b => procs[j].state = "ended"
  BY Zenon DEF Live
<1>3. Surveying(j, path) = q
  BY DEF Surveying
<1> HIDE DEF b
<1>4. /\ q \in Processes /\ q.path = path /\ q.outlives = b
      /\ q.pid = procs[j].pid /\ q.file = procs[j].file /\ q.state = procs[j].state
      /\ q.linked = procs[j].linked /\ q.lines = procs[j].lines
  BY <1>1 DEF Processes
<1> HIDE DEF q
<1> QED BY <1>2, <1>3, <1>4

LEMMA ProcessesSurveyed ==
  ASSUME Shape, NEW e, \A j \in DOMAIN procs : e[j] \in Paths,
         procs' = [j \in DOMAIN procs |-> Surveying(j, e[j])]
  PROVE  /\ procs' \in Seq(Processes) /\ DOMAIN procs' = DOMAIN procs
         /\ \A j \in DOMAIN procs : Surveyed(j) /\ procs'[j].path = e[j]
<1>1. ASSUME NEW j \in DOMAIN procs
      PROVE  /\ procs'[j] \in Processes /\ Surveyed(j) /\ procs'[j].path = e[j]
  <2>1. procs'[j] = Surveying(j, e[j])
    OBVIOUS
  <2>2. procs[j] \in Processes /\ e[j] \in Paths
    BY <1>1, ProcessesAre DEF Shape
  <2> DEFINE q == Surveying(j, e[j])
  <2>3. /\ q \in Processes /\ q.path = e[j]
        /\ q.pid = procs[j].pid /\ q.file = procs[j].file /\ q.state = procs[j].state
        /\ q.linked = procs[j].linked /\ q.lines = procs[j].lines
        /\ j \in DOMAIN procs /\ ~q.outlives => procs[j].state = "ended"
    BY <2>2, SurveyingIs
  <2> QED BY <2>1, <2>3 DEF Surveyed
<1>2. DOMAIN procs' = DOMAIN procs /\ procs' = [j \in DOMAIN procs |-> procs'[j]]
  OBVIOUS
<1>3. DOMAIN procs = 1..Len(procs) /\ Len(procs) \in Nat
  BY DEF Shape
<1> DEFINE n == Len(procs)
           r == procs'
<1>4. r = [j \in 1..n |-> r[j]] /\ \A j \in 1..n : r[j] \in Processes
  BY <1>1, <1>2, <1>3
<1>5. n \in Nat
  BY <1>3
<1> HIDE DEF r, n
<1>6. r \in [1..n -> Processes]
  BY <1>4
<1>7. r \in Seq(Processes)
  BY <1>5, <1>6
<1>8. procs' \in Seq(Processes)
  BY <1>7 DEF r
<1> QED BY <1>1, <1>2, <1>8

\* A process that is told that it keeps its path.
LEMMA SamePath ==
  ASSUME NEW p \in Processes, NEW b \in BOOLEAN
  PROVE  [p EXCEPT !.outlives = b] = [[p EXCEPT !.outlives = b] EXCEPT !.path = p.path]
BY DEF Processes

LEMMA MergeTracesIs ==
  ASSUME Shape, MergeTraces
  PROVE  /\ Shape' /\ UNCHANGED <<setting, run>> /\ tool.phase = "waiting"
         /\ DOMAIN procs' = DOMAIN procs
         /\ \A j \in DOMAIN procs : Surveyed(j)
         /\ SeveralFound \/ NoneFound \/ (\E path \in Paths : OneFound(path))
<1> DEFINE found == FindSessionOutputFiles
           merged == ComputeMergedPath
           outliving == [i \in DOMAIN procs |-> [procs[i] EXCEPT !.outlives = i \in Live]]
           same == [i \in DOMAIN procs |-> procs[i].path]
           Asis == /\ procs' \in Seq(Processes) /\ DOMAIN procs' = DOMAIN procs
                   /\ \A j \in DOMAIN procs : Surveyed(j) /\ procs'[j].path = procs[j].path
<1>1. tool.phase = "waiting" /\ UNCHANGED <<setting, run>>
  BY DEF MergeTraces
<1>2. \A j \in DOMAIN procs : procs[j] \in Processes /\ procs[j].path \in Paths
  BY ProcessesAre DEF Shape
<1>3. found \subseteq DOMAIN files \ {merged} /\ DOMAIN files \subseteq Paths
  BY FoundAre DEF Shape
<1>4. merged \in Paths
  BY MergedIs DEF Shape
<1>5. ASSUME procs' = outliving PROVE Asis
  <2>1. \A j \in DOMAIN procs :
          [procs[j] EXCEPT !.outlives = j \in Live] = Surveying(j, same[j])
    <3> TAKE j \in DOMAIN procs
    <3> DEFINE b == j \in Live
    <3>1. b \in BOOLEAN
      OBVIOUS
    <3> HIDE DEF b
    <3>2. [procs[j] EXCEPT !.outlives = b]
            = [[procs[j] EXCEPT !.outlives = b] EXCEPT !.path = procs[j].path]
      BY <1>2, <3>1, SamePath
    <3> QED BY <3>2 DEF b, Surveying
  <2>2. procs' = [j \in DOMAIN procs |-> Surveying(j, same[j])]
    BY <1>5, <2>1
  <2>3. \A j \in DOMAIN procs : same[j] \in Paths /\ same[j] = procs[j].path
    BY <1>2
  <2>4. \A j \in DOMAIN procs : same[j] \in Paths
    BY <1>2
  <2> HIDE DEF same
  <2>5. /\ procs' \in Seq(Processes) /\ DOMAIN procs' = DOMAIN procs
        /\ \A j \in DOMAIN procs : Surveyed(j) /\ procs'[j].path = same[j]
    BY <2>2, <2>4, ProcessesSurveyed
  <2> QED BY <2>3, <2>5
<1> HIDE DEF outliving
<1>6. CASE /\ Cardinality(found) > 1
           /\ tool' = [Idle("reading") EXCEPT !.unread = found, !.originals = found]
           /\ procs' = outliving
           /\ UNCHANGED files
  <2>1. Asis
    BY <1>5, <1>6
  <2>2. "reading" \in Phases /\ "reading" \notin {"waiting", "detached"}
    BY DEF Phases
  <2>3. Idle("reading") \in Tools /\ Idle("reading").phase = "reading" /\ Idle("reading").listed
        /\ Idle("reading").events = EmptyBag
    BY <2>2, IdleIs
  <2>4. found \in SUBSET Paths
    BY <1>3
  <2>5. /\ tool' \in Tools /\ tool'.phase = "reading" /\ tool'.listed /\ tool'.events = EmptyBag
        /\ tool'.unread = found /\ tool'.originals = found
    <3> DEFINE o == Idle("reading")
    <3>1. tool' = [o EXCEPT !.unread = found, !.originals = found]
      BY <1>6
    <3>2. o \in Tools /\ o.phase = "reading" /\ o.listed /\ o.events = EmptyBag
      BY <2>3
    <3> HIDE DEF o, found
    <3> QED BY <2>4, <3>1, <3>2 DEF Tools
  <2>6. found # {}
    BY <1>6, FS_EmptySet
  <2>7. SeveralFound
    BY <1>6, <2>1, <2>5, <2>6 DEF SeveralFound
  <2>8. Shape'
    BY <1>1, <1>6, <2>1, <2>5 DEF Shape, Setting
  <2> QED BY <1>1, <2>1, <2>7, <2>8
<1>7. ASSUME tool' = Idle("done") PROVE Over /\ tool' \in Tools
  <2>1. "done" \in Phases /\ "done" \notin {"waiting", "detached"}
    BY DEF Phases
  <2> QED BY <1>7, <2>1, IdleIs DEF Over
<1>8. CASE found = {} /\ tool' = Idle("done") /\ procs' = outliving /\ UNCHANGED files
  <2>1. Asis
    BY <1>5, <1>8
  <2>2. NoneFound
    BY <1>7, <1>8, <2>1 DEF NoneFound
  <2>3. Shape'
    BY <1>1, <1>7, <1>8, <2>1 DEF Shape, Setting
  <2> QED BY <1>1, <2>1, <2>2, <2>3
<1>9. ASSUME NEW path \in found,
             found = {path}, tool' = Idle("done"),
             files' = [p \in (DOMAIN files \ {path}) \cup {merged} |->
                         files[IF p = merged THEN path ELSE p]],
             procs' = [i \in DOMAIN procs |->
                         IF procs[i].path = path THEN [outliving[i] EXCEPT !.path = merged]
                         ELSE outliving[i]]
      PROVE  /\ Shape' /\ DOMAIN procs' = DOMAIN procs
             /\ \A j \in DOMAIN procs : Surveyed(j)
             /\ \E p \in Paths : OneFound(p)
  <2> DEFINE e == [i \in DOMAIN procs |-> IF procs[i].path = path THEN merged ELSE procs[i].path]
             g == [p \in Paths |-> IF p = merged THEN path ELSE p]
             S == (DOMAIN files \ {path}) \cup {merged}
  <2>1. path \in DOMAIN files /\ path # merged /\ path \in Paths
    BY <1>3
  <2>2. ASSUME NEW j \in DOMAIN procs
        PROVE  (IF procs[j].path = path THEN [outliving[j] EXCEPT !.path = merged] ELSE outliving[j])
                 = Surveying(j, e[j])
    <3> DEFINE b == j \in Live
    <3>1. b \in BOOLEAN
      OBVIOUS
    <3>2. outliving[j] = [procs[j] EXCEPT !.outlives = b]
      BY DEF outliving
    <3> HIDE DEF b
    <3>3. [procs[j] EXCEPT !.outlives = b]
            = [[procs[j] EXCEPT !.outlives = b] EXCEPT !.path = procs[j].path]
      BY <1>2, <3>1, SamePath
    <3>4. CASE procs[j].path = path
      <4>1. e[j] = merged
        BY <3>4
      <4> HIDE DEF e
      <4> QED BY <3>2, <3>4, <4>1 DEF b, Surveying
    <3>5. CASE procs[j].path # path
      <4>1. e[j] = procs[j].path
        BY <3>5
      <4> HIDE DEF e
      <4> QED BY <3>2, <3>3, <3>5, <4>1 DEF b, Surveying
    <3> QED BY <3>4, <3>5
  <2>3. procs' = [j \in DOMAIN procs |-> Surveying(j, e[j])]
    <3> HIDE DEF e
    <3> QED BY <1>9, <2>2
  <2>4. \A j \in DOMAIN procs : e[j] \in Paths /\ (procs[j].path = path => e[j] = merged)
                                /\ (procs[j].path # path => e[j] = procs[j].path)
    <3> HIDE DEF merged
    <3> QED BY <1>2, <1>4
  <2> HIDE DEF e
  <2>5. /\ procs' \in Seq(Processes) /\ DOMAIN procs' = DOMAIN procs
        /\ \A j \in DOMAIN procs : Surveyed(j) /\ procs'[j].path = e[j]
    BY <2>3, <2>4, ProcessesSurveyed
  <2>6. S \in SUBSET Paths /\ (\A p \in S : g[p] \in DOMAIN files)
        /\ files' = [p \in S |-> files[g[p]]]
    <3> HIDE DEF merged
    <3> QED BY <1>3, <1>4, <1>9, <2>1
  <2>7. DOMAIN files' \subseteq Paths /\ files' \in [DOMAIN files' -> Traces]
    <3> HIDE DEF S, g
    <3> QED BY <2>6, FilesKept
  <2>8. /\ DOMAIN files' = S /\ files'[merged] = files[path]
        /\ \A p \in DOMAIN files \ {path, merged} : files'[p] = files[p]
    <3> HIDE DEF merged
    <3> QED BY <1>9
  <2>9. Over /\ tool' \in Tools
    BY <1>7, <1>9
  <2>10. OneFound(path)
    BY <1>9, <2>4, <2>5, <2>8, <2>9 DEF OneFound
  <2>11. Shape'
    BY <1>1, <2>5, <2>7, <2>9 DEF Shape, Setting
  <2> QED BY <2>1, <2>5, <2>10, <2>11
<1> HIDE DEF Asis
<1>10. \/ /\ Cardinality(found) > 1
          /\ tool' = [Idle("reading") EXCEPT !.unread = found, !.originals = found]
          /\ procs' = outliving
          /\ UNCHANGED files
       \/ found = {} /\ tool' = Idle("done") /\ procs' = outliving /\ UNCHANGED files
       \/ \E path \in found :
            /\ found = {path} /\ tool' = Idle("done")
            /\ files' = [p \in (DOMAIN files \ {path}) \cup {merged} |->
                           files[IF p = merged THEN path ELSE p]]
            /\ procs' = [i \in DOMAIN procs |->
                           IF procs[i].path = path THEN [outliving[i] EXCEPT !.path = merged]
                           ELSE outliving[i]]
  BY DEF MergeTraces, outliving
<1> HIDE DEF found, merged
<1> QED BY <1>1, <1>6, <1>8, <1>9, <1>10

LEMMA ToolIs ==
  ASSUME tool \in Tools
  PROVE  /\ tool.phase \in Phases /\ tool.listed \in BOOLEAN /\ tool.unread \in SUBSET Paths
         /\ tool.originals \in SUBSET Paths /\ tool.events \in Traces
BY DEF Tools

LEMMA MergeCommandIs ==
  ASSUME Shape, MergeCommand
  PROVE  /\ Shape' /\ UNCHANGED <<setting, files, run, procs>>
         /\ tool.phase = "detached" /\ tool'.phase = "reading" /\ ~tool'.listed
         /\ tool'.unread = FindSessionOutputFiles /\ FindSessionOutputFiles # {}
         /\ tool'.originals = {} /\ tool'.events = EmptyBag
<1> DEFINE found == FindSessionOutputFiles
           o == Idle("detached")
<1>1. "detached" \in Phases /\ "detached" \in {"waiting", "detached"} /\ "reading" \in Phases
  BY DEF Phases
<1>2. o \in Tools /\ ~o.listed /\ o.originals = {} /\ o.events = EmptyBag
  BY <1>1, IdleIs
<1>3. found \in SUBSET Paths
  BY FoundAre DEF Shape
<1>4. /\ tool.phase = "detached" /\ found # {} /\ UNCHANGED <<setting, files, run, procs>>
      /\ tool' = [o EXCEPT !.phase = "reading", !.unread = found]
  BY DEF MergeCommand
<1> HIDE DEF o, found
<1>5. /\ tool' \in Tools /\ tool'.phase = "reading" /\ tool'.unread = found
      /\ tool'.listed = o.listed /\ tool'.originals = {} /\ tool'.events = EmptyBag
  BY <1>1, <1>2, <1>3, <1>4 DEF Tools
<1>6. Shape'
  BY <1>4, <1>5 DEF Shape, Setting
<1> QED BY <1>2, <1>4, <1>5, <1>6 DEF found

LEMMA ReadTraceIs ==
  ASSUME Shape, ReadTrace, tool.unread \subseteq DOMAIN files
  PROVE  /\ Shape' /\ UNCHANGED <<setting, files, run, procs>>
         /\ tool.phase = "reading" /\ tool'.phase = "reading" /\ tool'.listed = tool.listed
         /\ tool'.originals = tool.originals
         /\ \E path \in tool.unread :
              /\ path \in DOMAIN files /\ files[path] \in Traces /\ tool.events \in Traces
              /\ tool'.unread = tool.unread \ {path}
              /\ tool'.events = tool.events (+) files[path]
<1>1. PICK path \in tool.unread :
        tool' = [tool EXCEPT !.unread = @ \ {path}, !.events = @ (+) files[path]]
  BY DEF ReadTrace
<1> DEFINE e == tool.events (+) files[path]
           u == tool.unread \ {path}
<1>2. tool \in Tools /\ tool.events \in Traces /\ tool.unread \in SUBSET Paths
  BY ToolIs DEF Shape
<1>3. path \in DOMAIN files /\ files[path] \in Traces
  BY DEF Shape
<1>4. e \in Traces /\ u \in SUBSET Paths
  BY <1>2, <1>3, BagSum
<1>5. tool' = [tool EXCEPT !.unread = u, !.events = e]
  BY <1>1
<1> HIDE DEF e, u
<1>6. /\ tool' \in Tools /\ tool'.unread = u /\ tool'.events = e /\ tool'.phase = tool.phase
      /\ tool'.listed = tool.listed /\ tool'.originals = tool.originals
  BY <1>2, <1>4, <1>5 DEF Tools
<1>7. tool.phase = "reading" /\ UNCHANGED <<setting, files, run, procs>>
  BY DEF ReadTrace
<1>8. Shape'
  BY <1>6, <1>7 DEF Shape, Setting
<1> QED BY <1>2, <1>3, <1>6, <1>7, <1>8 DEF e, u

LEMMA TruncateMergedIs ==
  ASSUME Shape, TruncateMerged
  PROVE  /\ Shape' /\ UNCHANGED <<setting, run, procs>>
         /\ tool.phase = "reading" /\ tool.unread = {}
         /\ tool'.phase = "writing" /\ tool'.listed = tool.listed /\ tool'.unread = {}
         /\ tool'.originals = tool.originals /\ tool'.events = tool.events
         /\ DOMAIN files' = DOMAIN files \cup {ComputeMergedPath}
         /\ files'[ComputeMergedPath] = EmptyBag
         /\ \A p \in DOMAIN files : p # ComputeMergedPath => files'[p] = files[p]
<1>1. /\ tool.phase = "reading" /\ tool.unread = {} /\ UNCHANGED <<setting, run, procs>>
      /\ tool' = [tool EXCEPT !.phase = "writing"] /\ Truncate(ComputeMergedPath)
  BY DEF TruncateMerged
<1>2. tool \in Tools /\ "writing" \in Phases
  BY DEF Shape, Phases
<1>3. /\ tool' \in Tools /\ tool'.phase = "writing" /\ tool'.unread = tool.unread
      /\ tool'.listed = tool.listed /\ tool'.originals = tool.originals
      /\ tool'.events = tool.events
  BY <1>1, <1>2 DEF Tools
<1>4. ComputeMergedPath \in Paths
  BY MergedIs DEF Shape
<1>5. /\ DOMAIN files' = DOMAIN files \cup {ComputeMergedPath}
      /\ files'[ComputeMergedPath] = EmptyBag
      /\ \A p \in DOMAIN files : p # ComputeMergedPath => files'[p] = files[p]
      /\ DOMAIN files' \subseteq Paths /\ files' \in [DOMAIN files' -> Traces]
  BY <1>1, <1>4, TruncateIs
<1>6. Shape'
  BY <1>1, <1>3, <1>5 DEF Shape, Setting
<1> QED BY <1>1, <1>3, <1>5, <1>6

LEMMA WriteMergedIs ==
  ASSUME Shape, WriteMerged, ComputeMergedPath \in DOMAIN files, tool.unread = {}
  PROVE  /\ Shape' /\ UNCHANGED <<setting, run, procs>>
         /\ tool.phase = "writing" /\ tool'.unread = {} /\ tool'.events = EmptyBag
         /\ tool.originals = {} =>
              tool'.phase = "detached" /\ ~tool'.listed /\ tool'.originals = {}
         /\ tool.originals # {} =>
              /\ tool'.phase = "deleting" /\ tool'.listed = tool.listed
              /\ tool'.originals = tool.originals
         /\ DOMAIN files' = DOMAIN files
         /\ files'[ComputeMergedPath] = tool.events
         /\ \A p \in DOMAIN files : p # ComputeMergedPath => files'[p] = files[p]
<1> DEFINE m == ComputeMergedPath
           o == Idle("detached")
<1>1. /\ tool.phase = "writing" /\ UNCHANGED <<setting, run, procs>>
      /\ tool' = IF tool.originals = {} THEN o
                 ELSE [tool EXCEPT !.phase = "deleting", !.events = EmptyBag]
      /\ files' = [files EXCEPT ![m] = tool.events]
  BY DEF WriteMerged
<1>2. tool \in Tools /\ tool.events \in Traces /\ "deleting" \in Phases
  BY ToolIs DEF Shape, Phases
<1>3. CASE tool.originals = {}
  <2>1. "detached" \in Phases /\ "detached" \in {"waiting", "detached"}
    BY DEF Phases
  <2>2. o \in Tools /\ o.phase = "detached" /\ ~o.listed /\ o.originals = {} /\ o.unread = {}
        /\ o.events = EmptyBag
    BY <2>1, IdleIs
  <2>3. tool' = o
    BY <1>1, <1>3
  <2> HIDE DEF o, m
  <2>4. tool' \in Tools /\ tool'.phase = "detached" /\ ~tool'.listed /\ tool'.originals = {}
        /\ tool'.unread = {} /\ tool'.events = EmptyBag
    BY <2>2, <2>3
  <2>5. /\ DOMAIN files' = DOMAIN files /\ files'[m] = tool.events
        /\ \A p \in DOMAIN files : p # m => files'[p] = files[p]
        /\ DOMAIN files' \subseteq Paths /\ files' \in [DOMAIN files' -> Traces]
    BY <1>1, <1>2 DEF Shape, m
  <2>6. Shape'
    BY <1>1, <2>4, <2>5 DEF Shape, Setting
  <2> QED BY <1>1, <1>3, <2>4, <2>5, <2>6 DEF m
<1>4. CASE tool.originals # {}
  <2>1. tool' = [tool EXCEPT !.phase = "deleting", !.events = EmptyBag]
    BY <1>1, <1>4
  <2>2. EmptyBag \in Traces
    BY NoLines
  <2>3. /\ tool' \in Tools /\ tool'.phase = "deleting" /\ tool'.unread = {}
        /\ tool'.listed = tool.listed /\ tool'.originals = tool.originals
        /\ tool'.events = EmptyBag
    BY <1>2, <2>1, <2>2 DEF Tools
  <2> HIDE DEF m, o
  <2>4. /\ DOMAIN files' = DOMAIN files /\ files'[m] = tool.events
        /\ \A p \in DOMAIN files : p # m => files'[p] = files[p]
        /\ DOMAIN files' \subseteq Paths /\ files' \in [DOMAIN files' -> Traces]
    BY <1>1, <1>2 DEF Shape, m
  <2>5. Shape'
    BY <1>1, <2>3, <2>4 DEF Shape, Setting
  <2> QED BY <1>1, <1>4, <2>3, <2>4, <2>5 DEF m
<1> QED BY <1>3, <1>4

\* A process keeps everything but, maybe, the name of its trace.
Kept(j) ==
  /\ procs'[j].pid = procs[j].pid /\ procs'[j].file = procs[j].file
  /\ procs'[j].state = procs[j].state /\ procs'[j].path = procs[j].path
  /\ procs'[j].lines = procs[j].lines /\ procs'[j].outlives = procs[j].outlives

Deleted(path) ==
  /\ DOMAIN files' = DOMAIN files \ {path}
  /\ \A p \in DOMAIN files \ {path} : files'[p] = files[p]
  /\ \A j \in DOMAIN procs :
       /\ procs[j].path = path => ~procs'[j].linked
       /\ procs[j].path # path => procs'[j].linked = procs[j].linked

Left == files' = files /\ procs' = procs

LEMMA UnlinkIs ==
  ASSUME Shape, NEW path, Unlink(path)
  PROVE  /\ DOMAIN files' \subseteq Paths /\ files' \in [DOMAIN files' -> Traces]
         /\ procs' \in Seq(Processes) /\ DOMAIN procs' = DOMAIN procs
         /\ \A j \in DOMAIN procs : Kept(j)
         /\ Deleted(path)
<1> DEFINE e == [p \in Paths |-> p]
           S == DOMAIN files \ {path}
           c == [j \in DOMAIN procs |-> IF procs[j].path = path
                                        THEN [procs[j] EXCEPT !.linked = FALSE] ELSE procs[j]]
<1>1. files' = [p \in S |-> files[p]] /\ procs' = c
  BY DEF Unlink
<1>2. DOMAIN files' \subseteq Paths /\ files' \in [DOMAIN files' -> Traces]
  BY <1>1 DEF Shape
<1>3. DOMAIN files' = S /\ \A p \in S : files'[p] = files[p]
  BY <1>1
<1>4. ASSUME NEW j \in DOMAIN procs
      PROVE  /\ c[j] \in Processes /\ c[j].pid = procs[j].pid /\ c[j].file = procs[j].file
             /\ c[j].state = procs[j].state /\ c[j].path = procs[j].path
             /\ c[j].lines = procs[j].lines /\ c[j].outlives = procs[j].outlives
             /\ procs[j].path = path => ~c[j].linked
             /\ procs[j].path # path => c[j].linked = procs[j].linked
  <2>1. procs[j] \in Processes
    BY ProcessesAre DEF Shape
  <2>2. CASE procs[j].path = path
    <3>1. c[j] = [procs[j] EXCEPT !.linked = FALSE]
      BY <2>2
    <3> HIDE DEF c
    <3> QED BY <2>1, <2>2, <3>1 DEF Processes
  <2>3. CASE procs[j].path # path
    <3>1. c[j] = procs[j]
      BY <2>3
    <3> HIDE DEF c
    <3> QED BY <2>1, <2>3, <3>1
  <2> QED BY <2>2, <2>3
<1>5. DOMAIN procs = 1..Len(procs) /\ Len(procs) \in Nat
  BY DEF Shape
<1>6. c = [j \in DOMAIN procs |-> c[j]] /\ DOMAIN c = DOMAIN procs
  OBVIOUS
<1> HIDE DEF c
<1> DEFINE n == Len(procs)
<1>7. c \in [1..n -> Processes] /\ n \in Nat
  BY <1>4, <1>5, <1>6
<1> HIDE DEF n
<1>8. c \in Seq(Processes)
  BY <1>7
<1>9. Deleted(path)
  BY <1>1, <1>3, <1>4 DEF Deleted
<1>10. \A j \in DOMAIN procs : Kept(j)
  BY <1>1, <1>4 DEF Kept
<1> QED BY <1>1, <1>2, <1>6, <1>8, <1>9, <1>10

LEMMA DeleteTraceIs ==
  ASSUME Shape, DeleteTrace, tool.unread = {}
  PROVE  /\ Shape' /\ UNCHANGED <<setting, run>> /\ DOMAIN procs' = DOMAIN procs
         /\ tool.phase = "deleting"
         /\ \A j \in DOMAIN procs : Kept(j)
         /\ \E path \in tool.originals :
              /\ Deleted(path) \/ Left
              /\ tool.originals = {path} => Over
              /\ tool.originals # {path} =>
                   /\ tool'.phase = "deleting" /\ tool'.listed = tool.listed
                   /\ tool'.unread = {} /\ tool'.originals = tool.originals \ {path}
                   /\ tool'.events = tool.events
<1>1. PICK path \in tool.originals :
        /\ Unlink(path) \/ UNCHANGED <<files, procs>>
        /\ tool' = IF tool.originals = {path} THEN Idle("done")
                   ELSE [tool EXCEPT !.originals = @ \ {path}]
  BY DEF DeleteTrace
<1>2. tool.phase = "deleting" /\ UNCHANGED <<setting, run>>
  BY DEF DeleteTrace
<1>3. /\ DOMAIN files' \subseteq Paths /\ files' \in [DOMAIN files' -> Traces]
      /\ procs' \in Seq(Processes) /\ DOMAIN procs' = DOMAIN procs
      /\ \A j \in DOMAIN procs : Kept(j)
      /\ Deleted(path) \/ Left
  <2>1. CASE Unlink(path)
    BY <2>1, UnlinkIs
  <2>2. CASE UNCHANGED <<files, procs>>
    <3>1. files' = files /\ procs' = procs
      BY <2>2
    <3>2. \A j \in DOMAIN procs : Kept(j)
      BY <3>1 DEF Kept
    <3> QED BY <3>1, <3>2 DEF Left, Shape
  <2> QED BY <1>1, <2>1, <2>2
<1>4. tool \in Tools
  BY DEF Shape
<1>5. CASE tool.originals = {path}
  <2>1. "done" \in Phases /\ "done" \notin {"waiting", "detached"}
    BY DEF Phases
  <2>2. Over /\ tool' \in Tools
    BY <1>1, <1>5, <2>1, IdleIs DEF Over
  <2>3. Shape'
    BY <1>2, <1>3, <2>2 DEF Shape, Setting
  <2> QED BY <1>2, <1>3, <1>5, <2>2, <2>3
<1>6. CASE tool.originals # {path}
  <2> DEFINE o == tool.originals \ {path}
  <2>1. tool' = [tool EXCEPT !.originals = o]
    BY <1>1, <1>6
  <2>2. o \in SUBSET Paths
    BY <1>4, ToolIs
  <2> HIDE DEF o
  <2>3. /\ tool' \in Tools /\ tool'.phase = tool.phase /\ tool'.listed = tool.listed
        /\ tool'.unread = tool.unread /\ tool'.originals = o /\ tool'.events = tool.events
    BY <1>4, <2>1, <2>2 DEF Tools
  <2>4. Shape'
    BY <1>2, <1>3, <2>3 DEF Shape, Setting
  <2> QED BY <1>2, <1>3, <1>6, <2>3, <2>4 DEF o
<1> QED BY <1>5, <1>6

LEMMA InterruptIs ==
  ASSUME Shape, Interrupt
  PROVE  /\ Shape' /\ UNCHANGED <<setting, files, run, procs>>
         /\ tool.phase \notin {"idle", "detached", "done", "failed"}
         /\ tool'.phase = "failed" /\ tool'.listed = tool.listed
         /\ tool'.unread = {} /\ tool'.originals = {} /\ tool'.events = EmptyBag
<1> DEFINE o == Idle("failed")
<1>1. "failed" \in Phases
  BY DEF Phases
<1>2. o \in Tools /\ o.phase = "failed" /\ o.unread = {} /\ o.originals = {}
      /\ o.events = EmptyBag
  BY <1>1, IdleIs
<1>3. /\ tool' = [o EXCEPT !.listed = tool.listed] /\ UNCHANGED <<setting, files, run, procs>>
      /\ tool.phase \notin {"idle", "detached", "done", "failed"}
  BY DEF Interrupt
<1>4. tool.listed \in BOOLEAN
  BY ToolIs DEF Shape
<1> HIDE DEF o
<1>5. /\ tool' \in Tools /\ tool'.phase = "failed" /\ tool'.listed = tool.listed
      /\ tool'.unread = {} /\ tool'.originals = {} /\ tool'.events = EmptyBag
  BY <1>2, <1>3, <1>4 DEF Tools
<1>6. Shape'
  BY <1>3, <1>5 DEF Shape, Setting
<1> QED BY <1>3, <1>5, <1>6

-----------------------------------------------------------------------------
(* The inductive invariant.                                                *)

\* What the tool works on exists, and it merges only where paths have a pid.
ToolInv ==
  /\ \A path \in tool.unread \cup tool.originals :
       path \in DOMAIN files /\ path # ComputeMergedPath
  /\ tool.unread # {} => tool.phase = "reading"
  /\ tool.originals # {} => tool.phase \in Merging /\ tool.listed
  /\ tool.phase \in Merging => HasPid
  /\ tool.phase \in {"waiting", "detached"} => ~tool.listed
  /\ tool.phase \in {"reading", "writing"} /\ tool.originals = {} => ~tool.listed
  /\ tool.phase \in {"deleting", "done"} => tool.listed
  /\ tool.phase \in {"writing", "deleting"} => ComputeMergedPath \in DOMAIN files

\* A process's trace has the name it was given until it is renamed or deleted.
ProcessInv(i) ==
  /\ procs[i].state = "started" => procs[i].path = <<>>
  /\ procs[i].path = <<>> => procs[i].lines = 0 /\ procs[i].state # "writing"
  /\ procs[i].path # <<>> =>
       \/ procs[i].path = OutputPath(i)
       \/ procs[i].path = ComputeMergedPath /\ tool.phase = "done"
  /\ procs[i].linked => procs[i].path # <<>> /\ procs[i].path \in DOMAIN files
  /\ procs[i].path # <<>> /\ ~procs[i].linked =>
       tool.listed /\ tool.phase \in {"deleting", "done", "failed"}
  /\ tool.listed /\ ~procs[i].outlives => procs[i].state = "ended"
  /\ ~tool.listed => ~procs[i].outlives

AllProcessesInv == \A i \in DOMAIN procs : ProcessInv(i)

Written(line) ==
  \/ line[1] < run
  \/ line[1] = run /\ line[2] \in DOMAIN procs /\ line[3] <= procs[line[2]].lines

WrittenInv == \A line \in OnDisk \cup BagToSet(tool.events) : Written(line)

TypeInv == Shape /\ ToolInv /\ AllProcessesInv /\ WrittenInv

LEMMA SettingKept ==
  ASSUME setting' = setting
  PROVE  ComputeMergedPath' = ComputeMergedPath /\ HasPid' = HasPid
BY DEF ComputeMergedPath, HasPid, template

LEMMA OutputKept ==
  ASSUME setting' = setting, NEW j,
         procs'[j].pid = procs[j].pid, procs'[j].file = procs[j].file
  PROVE  OutputPath(j)' = OutputPath(j)
BY DEF OutputPath, template

LEMMA ToolInvInit ==
  ASSUME Init
  PROVE  Shape /\ ToolInv /\ AllProcessesInv /\ WrittenInv /\ files = << >> /\ procs = <<>>
<1>1. /\ setting \in [template : Templates, platform : Platforms]
      /\ files = << >> /\ run = 0 /\ procs = <<>> /\ tool = Idle("idle")
  BY DEF Init
<1>2. "idle" \in Phases /\ "idle" \notin {"waiting", "detached"}
  BY DEF Phases
<1>3. /\ tool \in Tools /\ tool.phase = "idle" /\ tool.unread = {} /\ tool.originals = {}
      /\ tool.events = EmptyBag /\ tool.listed
  BY <1>1, <1>2, IdleIs
<1>4. 0 \in Nat /\ 0 <= MaxRuns
  <2>1. MaxRuns \in Nat
    BY RunMergeAssumption
  <2> QED BY <2>1
<1>5. DOMAIN files = {} /\ DOMAIN procs = {}
  BY <1>1
<1>6. procs \in Seq(Processes)
  BY <1>1
<1>7. DOMAIN files \subseteq Paths /\ files \in [DOMAIN files -> Traces]
  BY <1>1, <1>5
<1>8. Shape
  BY <1>1, <1>3, <1>4, <1>6, <1>7 DEF Shape, Setting
<1>9. ToolInv
  BY <1>3 DEF ToolInv, Merging
<1>10. AllProcessesInv
  BY <1>5 DEF AllProcessesInv
<1>11. OnDisk \cup BagToSet(tool.events) = {}
  BY <1>3, <1>5, NoLines DEF OnDisk
<1>12. WrittenInv
  BY <1>11 DEF WrittenInv
<1> QED BY <1>1, <1>8, <1>9, <1>10, <1>12

-----------------------------------------------------------------------------
(* Shape and ToolInv are kept.                                             *)

LEMMA ToolInvStep ==
  ASSUME Shape, ToolInv, [Next]_vars
  PROVE  Shape' /\ ToolInv'
<1> USE DEF ToolInv, Merging
<1> DEFINE m == ComputeMergedPath
<1>1. tool.unread \subseteq DOMAIN files
  OBVIOUS
<1>2. ASSUME NEW detach \in BOOLEAN, Launch(detach) PROVE Shape' /\ ToolInv'
  <2>1. /\ Shape' /\ tool'.phase \in {"waiting", "detached"} /\ ~tool'.listed
        /\ tool'.unread = {} /\ tool'.originals = {}
    BY <1>2, LaunchIs
  <2> QED BY <2>1
<1>3. CASE MergeCommand
  <2>1. /\ Shape' /\ UNCHANGED <<setting, files>>
        /\ tool'.phase = "reading" /\ ~tool'.listed /\ tool'.unread = FindSessionOutputFiles
        /\ FindSessionOutputFiles # {} /\ tool'.originals = {}
    BY <1>3, MergeCommandIs
  <2>2. HasPid
    BY <2>1, FoundHasPid DEF Shape
  <2>3. FindSessionOutputFiles \subseteq DOMAIN files \ {m}
    BY FoundAre
  <2>4. m' = m /\ HasPid'
    BY <2>1, <2>2, SettingKept
  <2> QED BY <2>1, <2>3, <2>4
<1>4. CASE MergeTraces
  <2>1. /\ Shape' /\ setting' = setting
        /\ SeveralFound \/ NoneFound \/ (\E path \in Paths : OneFound(path))
    BY <1>4, MergeTracesIs
  <2>2. CASE SeveralFound
    <3>1. HasPid
      BY <2>2, FoundHasPid DEF Shape, SeveralFound
    <3>2. FindSessionOutputFiles \subseteq DOMAIN files \ {m}
      BY FoundAre
    <3>3. m' = m /\ HasPid'
      BY <2>1, <3>1, SettingKept
    <3> QED BY <2>1, <2>2, <3>2, <3>3 DEF SeveralFound
  <2>3. CASE Over
    BY <2>1, <2>3 DEF Over
  <2> QED BY <2>1, <2>2, <2>3 DEF NoneFound, OneFound
<1>5. CASE ReadTrace
  <2>1. /\ Shape' /\ UNCHANGED <<setting, files>> /\ tool.phase = "reading"
        /\ tool'.phase = "reading" /\ tool'.listed = tool.listed
        /\ tool'.originals = tool.originals /\ tool'.unread \subseteq tool.unread
    BY <1>1, <1>5, ReadTraceIs
  <2>2. m' = m /\ HasPid' = HasPid
    BY <2>1, SettingKept
  <2> QED BY <2>1, <2>2
<1>6. CASE TruncateMerged
  <2>1. /\ Shape' /\ setting' = setting /\ tool.phase = "reading"
        /\ tool'.phase = "writing" /\ tool'.listed = tool.listed
        /\ tool'.originals = tool.originals /\ tool'.unread = {}
        /\ DOMAIN files' = DOMAIN files \cup {m}
    BY <1>6, TruncateMergedIs
  <2>2. m' = m /\ HasPid' = HasPid
    BY <2>1, SettingKept
  <2> QED BY <2>1, <2>2
<1>7. CASE WriteMerged
  <2>1. tool.phase = "writing" /\ m \in DOMAIN files /\ tool.unread = {}
    BY <1>7 DEF WriteMerged
  <2>2. /\ Shape' /\ setting' = setting /\ tool'.unread = {}
        /\ tool.originals = {} =>
             tool'.phase = "detached" /\ ~tool'.listed /\ tool'.originals = {}
        /\ tool.originals # {} =>
             /\ tool'.phase = "deleting" /\ tool'.listed = tool.listed
             /\ tool'.originals = tool.originals
        /\ DOMAIN files' = DOMAIN files
    BY <1>7, <2>1, WriteMergedIs
  <2>3. m' = m /\ HasPid' = HasPid
    BY <2>2, SettingKept
  <2> QED BY <2>1, <2>2, <2>3
<1>8. CASE DeleteTrace
  <2>1. tool.phase = "deleting" /\ tool.unread = {} /\ m \in DOMAIN files
    BY <1>8 DEF DeleteTrace
  <2>2. /\ Shape' /\ setting' = setting
        /\ \E path \in tool.originals :
             /\ Deleted(path) \/ Left
             /\ tool.originals = {path} => Over
             /\ tool.originals # {path} =>
                  /\ tool'.phase = "deleting" /\ tool'.listed = tool.listed
                  /\ tool'.unread = {} /\ tool'.originals = tool.originals \ {path}
    BY <1>8, <2>1, DeleteTraceIs
  <2>3. PICK path \in tool.originals :
          /\ Deleted(path) \/ Left
          /\ tool.originals = {path} => Over
          /\ tool.originals # {path} =>
               /\ tool'.phase = "deleting" /\ tool'.listed = tool.listed
               /\ tool'.unread = {} /\ tool'.originals = tool.originals \ {path}
    BY <2>2
  <2>4. m' = m /\ HasPid' = HasPid
    BY <2>2, SettingKept
  <2>5. DOMAIN files' = DOMAIN files \/ DOMAIN files' = DOMAIN files \ {path}
    BY <2>3 DEF Deleted, Left
  <2>6. CASE tool.originals = {path}
    BY <2>2, <2>3, <2>6 DEF Over
  <2>7. CASE tool.originals # {path}
    <3>1. /\ tool'.phase = "deleting" /\ tool'.listed = tool.listed
          /\ tool'.unread = {} /\ tool'.originals = tool.originals \ {path}
      BY <2>3, <2>7
    <3>2. path # m /\ path \in DOMAIN files
      OBVIOUS
    <3> QED BY <2>1, <2>2, <2>4, <2>5, <3>1, <3>2
  <2> QED BY <2>6, <2>7
<1>9. CASE Interrupt
  <2>1. /\ Shape' /\ tool'.phase = "failed" /\ tool'.unread = {} /\ tool'.originals = {}
    BY <1>9, InterruptIs
  <2> QED BY <2>1
<1>10. ASSUME Shape', setting' = setting, tool' = tool, DOMAIN files \subseteq DOMAIN files'
       PROVE  ToolInv'
  <2>1. m' = m /\ HasPid' = HasPid
    BY <1>10, SettingKept
  <2> QED BY <1>10, <2>1
<1>11. CASE SpawnChild
  BY <1>10, <1>11, SpawnIs
<1>12. ASSUME NEW i \in DOMAIN procs, OpenTrace(i) PROVE Shape' /\ ToolInv'
  BY <1>10, <1>12, OpenIs
<1>13. ASSUME NEW i \in DOMAIN procs, WriteLine(i) PROVE Shape' /\ ToolInv'
  <2>1. Shape' /\ UNCHANGED <<setting, run, tool>> /\ DOMAIN files' = DOMAIN files
    BY <1>13, WriteLineIs
  <2> QED BY <1>10, <2>1
<1>14. ASSUME NEW i \in DOMAIN procs, End(i) PROVE Shape' /\ ToolInv'
  BY <1>10, <1>14, EndIs
<1>15. CASE UNCHANGED vars
  BY <1>10, <1>15 DEF vars, Shape, Setting
<1> QED BY <1>2, <1>3, <1>4, <1>5, <1>6, <1>7, <1>8, <1>9, <1>11, <1>12, <1>13, <1>14, <1>15 DEF Next

-----------------------------------------------------------------------------
(* Every process's part of the invariant is kept.                          *)

LEMMA FoundNotEmpty ==
  ASSUME NEW path \in FindSessionOutputFiles
  PROVE  path # <<>>
<1>1. DirectoryOf(Glob) # <<>> /\ DirectoryOf(path) = DirectoryOf(Glob)
  BY DEF FindSessionOutputFiles
<1>2. <<>> \in Paths /\ Len(<<>>) = 0
  BY DEF Paths
<1>3. LastSlash(<<>>) = 0
  BY <1>2, SlashIs
<1>4. DirectoryOf(<<>>) \in Paths /\ Len(DirectoryOf(<<>>)) = 0
  BY <1>2, <1>3, PathParts
<1>5. DirectoryOf(<<>>) = <<>>
  BY <1>4 DEF Paths
<1> QED BY <1>1, <1>5

LEMMA NewProcessInv ==
  ASSUME NEW n, StartsAs(procs'[n], tool'.listed)
  PROVE  ProcessInv(n)'
<1>1. /\ procs'[n].state = "started" /\ procs'[n].path = <<>> /\ procs'[n].linked = FALSE
      /\ procs'[n].lines = 0 /\ procs'[n].outlives = tool'.listed
  BY DEF StartsAs
<1> QED BY <1>1 DEF ProcessInv

\* A process with another state, if it is over now, under a tool that goes on.
LEMMA StayingInv ==
  ASSUME Shape, NEW j \in DOMAIN procs, ProcessInv(j), StaysAs(j), setting' = setting,
         DOMAIN files \subseteq DOMAIN files', tool'.listed = tool.listed,
         tool.phase # "done",
         procs[j].path # <<>> /\ ~procs[j].linked => tool'.phase \in {"deleting", "done", "failed"}
  PROVE  ProcessInv(j)'
<1>1. OutputPath(j)' = OutputPath(j)
  BY OutputKept DEF StaysAs, Stays
<1>2. /\ procs'[j].path = procs[j].path /\ procs'[j].linked = procs[j].linked
      /\ procs'[j].lines = procs[j].lines /\ procs'[j].outlives = procs[j].outlives
      /\ procs'[j].state = procs[j].state \/ procs'[j].state = "ended"
  BY DEF StaysAs, Stays
<1> QED BY <1>1, <1>2 DEF ProcessInv

\* And under a tool that does nothing.
LEMMA UntouchedInv ==
  ASSUME Shape, NEW j \in DOMAIN procs, ProcessInv(j), StaysAs(j), setting' = setting,
         tool' = tool, DOMAIN files \subseteq DOMAIN files'
  PROVE  ProcessInv(j)'
<1>1. OutputPath(j)' = OutputPath(j) /\ ComputeMergedPath' = ComputeMergedPath
  BY OutputKept, SettingKept DEF StaysAs, Stays
<1>2. /\ procs'[j].path = procs[j].path /\ procs'[j].linked = procs[j].linked
      /\ procs'[j].lines = procs[j].lines /\ procs'[j].outlives = procs[j].outlives
      /\ procs'[j].state = procs[j].state \/ procs'[j].state = "ended"
  BY DEF StaysAs, Stays
<1> QED BY <1>1, <1>2 DEF ProcessInv

LEMMA SameStays ==
  ASSUME NEW j, procs'[j] = procs[j]
  PROVE  StaysAs(j)
BY DEF StaysAs, Stays

\* Before it deletes anything, every process that has a trace holds its name,
\* and the name is the one it was given.
LEMMA NamesHeld ==
  ASSUME AllProcessesInv, NEW j \in DOMAIN procs, procs[j].path # <<>>,
         tool.phase \notin {"deleting", "done", "failed"}
  PROVE  procs[j].linked /\ procs[j].path = OutputPath(j) /\ procs[j].path \in DOMAIN files
BY DEF AllProcessesInv, ProcessInv

LEMMA ProcessesInvLaunch ==
  ASSUME Shape, NEW detach \in BOOLEAN, Launch(detach)
  PROVE  AllProcessesInv'
<1>1. DOMAIN procs' = {1} /\ StartsAs(procs'[1], FALSE) /\ ~tool'.listed /\ Shape'
  BY LaunchIs
<1>2. tool'.listed = FALSE
  <2>1. tool'.listed \in BOOLEAN
    BY <1>1 DEF Shape, Tools
  <2> QED BY <1>1, <2>1
<1>3. ProcessInv(1)'
  BY <1>1, <1>2, NewProcessInv
<1> QED BY <1>1, <1>3 DEF AllProcessesInv

LEMMA ProcessesInvMergeTraces ==
  ASSUME Shape, ToolInv, AllProcessesInv, MergeTraces
  PROVE  AllProcessesInv'
<1> DEFINE m == ComputeMergedPath
<1>1. /\ setting' = setting /\ tool.phase = "waiting" /\ DOMAIN procs' = DOMAIN procs
      /\ \A j \in DOMAIN procs : Surveyed(j)
      /\ SeveralFound \/ NoneFound \/ (\E path \in Paths : OneFound(path))
  BY MergeTracesIs
<1>2. m' = m /\ m # <<>>
  BY <1>1, SettingKept, MergedIs DEF Shape
<1>3. tool'.listed /\ tool'.phase \in {"reading", "done"}
  BY <1>1 DEF SeveralFound, NoneFound, OneFound, Over
<1> SUFFICES ASSUME NEW j \in DOMAIN procs PROVE ProcessInv(j)'
  BY <1>1 DEF AllProcessesInv
<1>4. /\ procs'[j].pid = procs[j].pid /\ procs'[j].file = procs[j].file
      /\ procs'[j].state = procs[j].state /\ procs'[j].linked = procs[j].linked
      /\ procs'[j].lines = procs[j].lines
      /\ ~procs'[j].outlives => procs[j].state = "ended"
  BY <1>1 DEF Surveyed
<1>5. OutputPath(j)' = OutputPath(j)
  BY <1>1, <1>4, OutputKept
<1>6. /\ procs[j].state = "started" => procs[j].path = <<>>
      /\ procs[j].path = <<>> => procs[j].lines = 0 /\ procs[j].state # "writing"
      /\ procs[j].linked => procs[j].path # <<>>
  BY DEF AllProcessesInv, ProcessInv
<1>7. procs[j].path # <<>> =>
        procs[j].linked /\ procs[j].path = OutputPath(j) /\ procs[j].path \in DOMAIN files
  BY <1>1, NamesHeld
<1>8. CASE /\ files' = files /\ procs'[j].path = procs[j].path
  BY <1>3, <1>4, <1>5, <1>6, <1>7, <1>8 DEF ProcessInv
<1>9. ASSUME NEW path, OneFound(path) PROVE ProcessInv(j)'
  <2>1. /\ tool'.phase = "done"
        /\ DOMAIN files' = (DOMAIN files \ {path}) \cup {m}
        /\ procs[j].path = path => procs'[j].path = m
        /\ procs[j].path # path => procs'[j].path = procs[j].path
    BY <1>9 DEF OneFound, Over
  <2>2. CASE procs[j].path = path
    <3>1. path # <<>>
      BY <1>9, FoundNotEmpty DEF OneFound
    <3> QED BY <1>2, <1>3, <1>4, <1>6, <1>7, <2>1, <2>2, <3>1 DEF ProcessInv
  <2>3. CASE procs[j].path # path
    BY <1>3, <1>4, <1>5, <1>6, <1>7, <2>1, <2>3 DEF ProcessInv
  <2> QED BY <2>2, <2>3
<1> QED BY <1>1, <1>8, <1>9 DEF SeveralFound, NoneFound

\* The steps of the merge, but for those that rename or delete.
LEMMA ProcessesInvMerge ==
  ASSUME Shape, ToolInv, AllProcessesInv,
         MergeCommand \/ ReadTrace \/ TruncateMerged \/ WriteMerged \/ Interrupt
  PROVE  AllProcessesInv'
<1>1. /\ setting' = setting /\ procs' = procs /\ DOMAIN files \subseteq DOMAIN files'
      /\ tool'.listed = tool.listed /\ tool.phase # "done"
      /\ tool.phase \in {"detached", "reading", "writing"} \/ tool'.phase = "failed"
  <2>1. tool.listed \in BOOLEAN /\ tool.unread \subseteq DOMAIN files
    BY ToolIs DEF Shape, ToolInv
  <2>2. CASE MergeCommand
    <3>1. /\ UNCHANGED <<setting, files, run, procs>>
          /\ tool.phase = "detached" /\ ~tool'.listed /\ Shape'
      BY <2>2, MergeCommandIs
    <3>2. ~tool.listed /\ tool'.listed \in BOOLEAN
      BY <3>1 DEF ToolInv, Shape, Tools
    <3> QED BY <2>1, <3>1, <3>2
  <2>3. CASE ReadTrace
    BY <2>1, <2>3, ReadTraceIs
  <2>4. CASE TruncateMerged
    BY <2>4, TruncateMergedIs
  <2>5. CASE WriteMerged
    <3>1. tool.phase = "writing" /\ ComputeMergedPath \in DOMAIN files /\ tool.unread = {}
      BY <2>5 DEF WriteMerged, ToolInv
    <3>2. /\ Shape' /\ UNCHANGED <<setting, run, procs>>
          /\ tool.originals = {} => ~tool'.listed
          /\ tool.originals # {} => tool'.listed = tool.listed
          /\ DOMAIN files' = DOMAIN files
      BY <2>5, <3>1, WriteMergedIs
    <3>3. tool.originals = {} => ~tool.listed
      BY <3>1 DEF ToolInv
    <3>4. tool'.listed \in BOOLEAN
      BY <3>2 DEF Shape, Tools
    <3> QED BY <2>1, <3>1, <3>2, <3>3, <3>4
  <2>6. CASE Interrupt
    BY <2>6, InterruptIs
  <2> QED BY <2>2, <2>3, <2>4, <2>5, <2>6
<1> SUFFICES ASSUME NEW j \in DOMAIN procs PROVE ProcessInv(j)'
  BY <1>1 DEF AllProcessesInv
<1>2. procs[j].path # <<>> /\ ~procs[j].linked => tool'.phase \in {"deleting", "done", "failed"}
  BY <1>1, NamesHeld
<1>3. ProcessInv(j)
  BY DEF AllProcessesInv
<1>4. StaysAs(j)
  BY <1>1, SameStays
<1> QED BY <1>1, <1>2, <1>3, <1>4, StayingInv

LEMMA ProcessesInvDelete ==
  ASSUME Shape, ToolInv, AllProcessesInv, DeleteTrace
  PROVE  AllProcessesInv'
<1>1. tool.phase = "deleting" /\ tool.unread = {}
  BY DEF DeleteTrace, ToolInv
<1>2. /\ UNCHANGED <<setting, run>> /\ DOMAIN procs' = DOMAIN procs
      /\ \A j \in DOMAIN procs : Kept(j)
      /\ \E path \in tool.originals :
           /\ Deleted(path) \/ Left
           /\ tool.originals = {path} => Over
           /\ tool.originals # {path} => tool'.phase = "deleting" /\ tool'.listed = tool.listed
  BY <1>1, DeleteTraceIs
<1>3. PICK path \in tool.originals :
        /\ Deleted(path) \/ Left
        /\ tool.originals = {path} => Over
        /\ tool.originals # {path} => tool'.phase = "deleting" /\ tool'.listed = tool.listed
  BY <1>2
<1>4. tool.listed
  BY DEF ToolInv
<1>5. tool'.listed /\ tool'.phase \in {"deleting", "done"}
  BY <1>3, <1>4 DEF Over
<1> SUFFICES ASSUME NEW j \in DOMAIN procs PROVE ProcessInv(j)'
  BY <1>2 DEF AllProcessesInv
<1>6. /\ procs'[j].pid = procs[j].pid /\ procs'[j].file = procs[j].file
      /\ procs'[j].state = procs[j].state /\ procs'[j].path = procs[j].path
      /\ procs'[j].lines = procs[j].lines /\ procs'[j].outlives = procs[j].outlives
  BY <1>2 DEF Kept
<1>7. OutputPath(j)' = OutputPath(j)
  BY <1>2, <1>6, OutputKept
<1>8. procs'[j].linked => procs[j].linked /\ procs[j].path \in DOMAIN files'
  <2>1. procs[j].linked => procs[j].path \in DOMAIN files
    BY DEF AllProcessesInv, ProcessInv
  <2>2. CASE Left
    BY <2>1, <2>2 DEF Left
  <2>3. CASE Deleted(path)
    BY <2>1, <2>3 DEF Deleted
  <2> QED BY <1>3, <2>2, <2>3
<1>9. /\ procs[j].state = "started" => procs[j].path = <<>>
      /\ procs[j].path = <<>> => procs[j].lines = 0 /\ procs[j].state # "writing"
      /\ procs[j].path # <<>> => procs[j].path = OutputPath(j)
      /\ procs[j].linked => procs[j].path # <<>>
      /\ ~procs[j].outlives => procs[j].state = "ended"
  BY <1>1, <1>4 DEF AllProcessesInv, ProcessInv
<1> QED BY <1>5, <1>6, <1>7, <1>8, <1>9 DEF ProcessInv

LEMMA ProcessesInvOpen ==
  ASSUME Shape, ToolInv, AllProcessesInv, NEW i \in DOMAIN procs, OpenTrace(i)
  PROVE  AllProcessesInv'
<1>1. /\ UNCHANGED <<setting, run, tool>> /\ DOMAIN procs' = DOMAIN procs
      /\ \A j \in DOMAIN procs \ {i} : procs'[j] = procs[j]
      /\ procs[i].state = "started"
      /\ procs'[i].pid = procs[i].pid /\ procs'[i].file = procs[i].file
      /\ procs'[i].state = "writing" /\ procs'[i].path = OutputPath(i)
      /\ procs'[i].linked = TRUE /\ procs'[i].outlives = procs[i].outlives
      /\ DOMAIN files' = DOMAIN files \cup {OutputPath(i)}
  BY OpenIs
<1>2. ASSUME NEW j \in DOMAIN procs, j # i PROVE ProcessInv(j)'
  <2>1. StaysAs(j) /\ ProcessInv(j)
    BY <1>1, <1>2, SameStays DEF AllProcessesInv
  <2>2. DOMAIN files \subseteq DOMAIN files' /\ setting' = setting /\ tool' = tool
    BY <1>1
  <2> QED BY <2>1, <2>2, UntouchedInv
<1>3. ProcessInv(i)'
  <2>1. procs[i].pid \in Pids
    BY ProcessesAre DEF Shape
  <2>2. OutputPath(i) # <<>> /\ OutputPath(i)' = OutputPath(i)
    BY <1>1, <2>1, OutputIs, OutputKept DEF Shape
  <2>3. /\ tool.listed /\ ~procs[i].outlives => procs[i].state = "ended"
        /\ ~tool.listed => ~procs[i].outlives
    BY DEF AllProcessesInv, ProcessInv
  <2> QED BY <1>1, <2>2, <2>3 DEF ProcessInv
<1> QED BY <1>1, <1>2, <1>3 DEF AllProcessesInv

LEMMA ProcessesInvWrite ==
  ASSUME Shape, ToolInv, AllProcessesInv, NEW i \in DOMAIN procs, WriteLine(i)
  PROVE  AllProcessesInv'
<1>1. /\ UNCHANGED <<setting, run, tool>> /\ DOMAIN procs' = DOMAIN procs
      /\ \A j \in DOMAIN procs \ {i} : procs'[j] = procs[j]
      /\ procs[i].state = "writing"
      /\ procs'[i].pid = procs[i].pid /\ procs'[i].file = procs[i].file
      /\ procs'[i].state = "writing" /\ procs'[i].path = procs[i].path
      /\ procs'[i].linked = procs[i].linked
      /\ procs'[i].outlives = procs[i].outlives
      /\ DOMAIN files' = DOMAIN files
  BY WriteLineIs
<1>2. ASSUME NEW j \in DOMAIN procs, j # i PROVE ProcessInv(j)'
  <2>1. StaysAs(j) /\ ProcessInv(j)
    BY <1>1, <1>2, SameStays DEF AllProcessesInv
  <2>2. DOMAIN files \subseteq DOMAIN files' /\ setting' = setting /\ tool' = tool
    BY <1>1
  <2> QED BY <2>1, <2>2, UntouchedInv
<1>3. ProcessInv(i)'
  <2>1. OutputPath(i)' = OutputPath(i) /\ ComputeMergedPath' = ComputeMergedPath
    BY <1>1, OutputKept, SettingKept
  <2>2. ProcessInv(i)
    BY DEF AllProcessesInv
  <2> QED BY <1>1, <2>1, <2>2 DEF ProcessInv
<1> QED BY <1>1, <1>2, <1>3 DEF AllProcessesInv

LEMMA ProcessesInvStep ==
  ASSUME Shape, ToolInv, AllProcessesInv, [Next]_vars
  PROVE  AllProcessesInv'
<1>1. CASE SpawnChild
  <2>1. PICK n :
          /\ UNCHANGED <<setting, files, run, tool>>
          /\ DOMAIN procs' = DOMAIN procs \cup {n} /\ StartsAs(procs'[n], tool.listed)
          /\ \A j \in DOMAIN procs : procs'[j] = procs[j]
    BY <1>1, SpawnIs
  <2>2. ProcessInv(n)'
    <3>1. StartsAs(procs'[n], tool'.listed)
      BY <2>1
    <3> QED BY <3>1, NewProcessInv
  <2>3. ASSUME NEW j \in DOMAIN procs PROVE ProcessInv(j)'
    <3>1. StaysAs(j) /\ ProcessInv(j)
      BY <2>1, SameStays DEF AllProcessesInv
    <3>2. DOMAIN files \subseteq DOMAIN files' /\ setting' = setting /\ tool' = tool
      BY <2>1
    <3> QED BY <3>1, <3>2, UntouchedInv
  <2> QED BY <2>1, <2>2, <2>3 DEF AllProcessesInv
<1>2. ASSUME NEW i \in DOMAIN procs, End(i) PROVE AllProcessesInv'
  <2>1. /\ UNCHANGED <<setting, files, run, tool>> /\ DOMAIN procs' = DOMAIN procs
        /\ \A j \in DOMAIN procs : StaysAs(j)
    BY <1>2, EndIs
  <2>2. ASSUME NEW j \in DOMAIN procs PROVE ProcessInv(j)'
    <3>1. ProcessInv(j) /\ StaysAs(j) /\ DOMAIN files \subseteq DOMAIN files'
          /\ setting' = setting /\ tool' = tool
      BY <2>1 DEF AllProcessesInv
    <3> QED BY <3>1, UntouchedInv
  <2> QED BY <2>1, <2>2 DEF AllProcessesInv
<1>3. CASE UNCHANGED vars
  <2>1. setting' = setting /\ files' = files /\ run' = run /\ procs' = procs /\ tool' = tool
    BY <1>3 DEF vars
  <2>2. ASSUME NEW j \in DOMAIN procs PROVE ProcessInv(j)'
    <3>1. StaysAs(j) /\ ProcessInv(j)
      BY <2>1, SameStays DEF AllProcessesInv
    <3>2. DOMAIN files \subseteq DOMAIN files'
      BY <2>1
    <3> QED BY <2>1, <3>1, <3>2, UntouchedInv
  <2> QED BY <2>1, <2>2 DEF AllProcessesInv
<1> QED BY <1>1, <1>2, <1>3, ProcessesInvLaunch, ProcessesInvMergeTraces, ProcessesInvMerge,
        ProcessesInvDelete, ProcessesInvOpen, ProcessesInvWrite DEF Next

-----------------------------------------------------------------------------
(* Every line was written.                                                 *)

\* No step takes back what a process of this run has written.
LEMMA WrittenKept ==
  ASSUME Shape, WrittenInv, run' = run, DOMAIN procs \subseteq DOMAIN procs',
         \A j \in DOMAIN procs : procs'[j].lines = procs[j].lines,
         \A p \in DOMAIN files' :
           BagToSet(files'[p]) \subseteq OnDisk \cup BagToSet(tool.events),
         BagToSet(tool'.events) \subseteq OnDisk \cup BagToSet(tool.events)
  PROVE  WrittenInv'
<1> SUFFICES ASSUME NEW line, line \in OnDisk' \cup BagToSet(tool'.events)
             PROVE  Written(line)'
  BY DEF WrittenInv, BagToSet
<1>1. line \in OnDisk \cup BagToSet(tool.events)
  <2>1. OnDisk' = UNION {BagToSet(files'[p]) : p \in DOMAIN files'}
    BY DEF OnDisk, BagToSet
  <2> QED BY <2>1
<1>2. Written(line)
  BY <1>1 DEF WrittenInv
<1> QED BY <1>2 DEF Written

LEMMA TraceOnDisk ==
  ASSUME NEW p \in DOMAIN files
  PROVE  BagToSet(files[p]) \subseteq OnDisk
BY DEF OnDisk

LEMMA DiskLines ==
  ASSUME Shape
  PROVE  OnDisk \subseteq AllLines /\ BagToSet(tool.events) \subseteq AllLines
<1>1. ASSUME NEW p \in DOMAIN files PROVE BagToSet(files[p]) \subseteq AllLines
  <2>1. files[p] \in Traces
    BY DEF Shape
  <2> QED BY <2>1, TraceIs
<1>2. BagToSet(tool.events) \subseteq AllLines
  <2>1. tool.events \in Traces
    BY ToolIs DEF Shape
  <2> QED BY <2>1, TraceIs
<1> QED BY <1>1, <1>2 DEF OnDisk

\* The line a process is about to write is new.
LEMMA NewLineIsNew ==
  ASSUME Shape, WrittenInv, NEW i \in DOMAIN procs
  PROVE  NewLine(i) \notin OnDisk \cup BagToSet(tool.events)
<1>1. /\ NewLine(i)[1] = run /\ NewLine(i)[2] = i /\ NewLine(i)[3] = procs[i].lines + 1
  BY DEF NewLine
<1>2. run \in Nat /\ procs[i].lines \in Nat
  BY ProcessesAre DEF Shape
<1>3. ~Written(NewLine(i))
  BY <1>1, <1>2 DEF Written
<1> QED BY <1>3 DEF WrittenInv

LEMMA WrittenInvLaunch ==
  ASSUME Shape, WrittenInv, NEW detach \in BOOLEAN, Launch(detach)
  PROVE  WrittenInv'
<1>1. run' = run + 1 /\ UNCHANGED <<setting, files>> /\ tool'.events = EmptyBag
  BY LaunchIs
<1>2. OnDisk' = OnDisk /\ BagToSet(tool'.events) = {}
  BY <1>1, NoLines DEF OnDisk
<1> SUFFICES ASSUME NEW line \in OnDisk PROVE Written(line)'
  BY <1>2 DEF WrittenInv, BagToSet
<1>3. line \in AllLines /\ run \in Nat
  BY DiskLines DEF Shape
<1>4. Written(line)
  BY DEF WrittenInv
<1>5. line[1] \in Nat
  BY <1>3 DEF AllLines
<1> QED BY <1>1, <1>3, <1>4, <1>5 DEF Written

LEMMA WrittenInvMerge ==
  ASSUME Shape, ToolInv, WrittenInv,
         MergeCommand \/ ReadTrace \/ TruncateMerged \/ WriteMerged \/ Interrupt
  PROVE  WrittenInv'
<1> DEFINE all == OnDisk \cup BagToSet(tool.events)
<1>1. ASSUME procs' = procs, run' = run,
             \A p \in DOMAIN files' : BagToSet(files'[p]) \subseteq all,
             BagToSet(tool'.events) \subseteq all
      PROVE  WrittenInv'
  BY <1>1, WrittenKept
<1>2. \A p \in DOMAIN files : BagToSet(files[p]) \subseteq all
  BY TraceOnDisk
<1>3. BagToSet(EmptyBag) \subseteq all /\ BagToSet(tool.events) \subseteq all
  BY NoLines
<1> HIDE DEF all
<1>4. CASE MergeCommand
  BY <1>1, <1>2, <1>3, <1>4, MergeCommandIs
<1>5. CASE Interrupt
  BY <1>1, <1>2, <1>3, <1>5, InterruptIs
<1>6. CASE ReadTrace
  <2>1. tool.unread \subseteq DOMAIN files
    BY DEF ToolInv
  <2>2. /\ UNCHANGED <<setting, files, run, procs>>
        /\ \E path \in tool.unread :
             /\ path \in DOMAIN files /\ files[path] \in Traces /\ tool.events \in Traces
             /\ tool'.events = tool.events (+) files[path]
    BY <1>6, <2>1, ReadTraceIs
  <2>3. PICK path \in DOMAIN files :
          /\ files[path] \in Traces /\ tool.events \in Traces
          /\ tool'.events = tool.events (+) files[path]
    BY <2>2
  <2>4. BagToSet(tool'.events) = BagToSet(tool.events) \cup BagToSet(files[path])
    BY <2>3, BagSum
  <2>5. BagToSet(tool'.events) \subseteq all
    BY <1>2, <1>3, <2>4
  <2>6. procs' = procs /\ run' = run /\ files' = files
    BY <2>2
  <2> QED BY <1>1, <1>2, <2>5, <2>6
<1>7. CASE TruncateMerged
  <2>1. /\ UNCHANGED <<setting, run, procs>> /\ tool'.events = tool.events
        /\ DOMAIN files' = DOMAIN files \cup {ComputeMergedPath}
        /\ files'[ComputeMergedPath] = EmptyBag
        /\ \A p \in DOMAIN files : p # ComputeMergedPath => files'[p] = files[p]
    BY <1>7, TruncateMergedIs
  <2>2. \A p \in DOMAIN files' : BagToSet(files'[p]) \subseteq all
    <3> TAKE p \in DOMAIN files'
    <3>1. files'[p] = EmptyBag \/ (p \in DOMAIN files /\ files'[p] = files[p])
      BY <2>1
    <3> QED BY <1>2, <1>3, <3>1
  <2>3. procs' = procs /\ run' = run
    BY <2>1
  <2> QED BY <1>1, <1>3, <2>1, <2>2, <2>3
<1>8. CASE WriteMerged
  <2>1. ComputeMergedPath \in DOMAIN files /\ tool.unread = {}
    BY <1>8 DEF WriteMerged, ToolInv
  <2>2. /\ UNCHANGED <<setting, run, procs>> /\ tool'.events = EmptyBag
        /\ DOMAIN files' = DOMAIN files /\ files'[ComputeMergedPath] = tool.events
        /\ \A p \in DOMAIN files : p # ComputeMergedPath => files'[p] = files[p]
    BY <1>8, <2>1, WriteMergedIs
  <2>3. \A p \in DOMAIN files' : BagToSet(files'[p]) \subseteq all
    <3> TAKE p \in DOMAIN files'
    <3>1. files'[p] = tool.events \/ (p \in DOMAIN files /\ files'[p] = files[p])
      BY <2>2
    <3> QED BY <1>2, <1>3, <3>1
  <2>4. procs' = procs /\ run' = run
    BY <2>2
  <2> QED BY <1>1, <1>3, <2>2, <2>3, <2>4
<1> QED BY <1>4, <1>5, <1>6, <1>7, <1>8

LEMMA WrittenInvNames ==
  ASSUME Shape, ToolInv, WrittenInv, MergeTraces \/ DeleteTrace
  PROVE  WrittenInv'
<1> DEFINE all == OnDisk \cup BagToSet(tool.events)
           m == ComputeMergedPath
<1>1. \A p \in DOMAIN files : BagToSet(files[p]) \subseteq all
  BY TraceOnDisk
<1>2. BagToSet(EmptyBag) \subseteq all /\ BagToSet(tool.events) \subseteq all
  BY NoLines
<1>3. CASE MergeTraces
  <2>1. /\ run' = run /\ DOMAIN procs' = DOMAIN procs
        /\ \A j \in DOMAIN procs : Surveyed(j)
        /\ SeveralFound \/ NoneFound \/ (\E path \in Paths : OneFound(path))
    BY <1>3, MergeTracesIs
  <2>2. \A j \in DOMAIN procs : procs'[j].lines = procs[j].lines
    BY <2>1 DEF Surveyed
  <2>3. tool'.events = EmptyBag
    BY <2>1 DEF SeveralFound, NoneFound, OneFound, Over
  <2>4. ASSUME NEW p \in DOMAIN files' PROVE BagToSet(files'[p]) \subseteq all
    <3>1. CASE files' = files
      BY <1>1, <3>1
    <3>2. ASSUME NEW path, OneFound(path) PROVE BagToSet(files'[p]) \subseteq all
      <4>1. path \in DOMAIN files
        BY <3>2, FoundAre DEF OneFound
      <4>2. files'[p] = files[path] \/ (p \in DOMAIN files /\ files'[p] = files[p])
        BY <3>2 DEF OneFound
      <4> QED BY <1>1, <4>1, <4>2
    <3> QED BY <2>1, <3>1, <3>2 DEF SeveralFound, NoneFound
  <2>5. BagToSet(tool'.events) \subseteq all
    BY <1>2, <2>3
  <2> QED BY <2>1, <2>2, <2>4, <2>5, WrittenKept
<1>4. CASE DeleteTrace
  <2>1. tool.unread = {}
    BY <1>4 DEF DeleteTrace, ToolInv
  <2>2. /\ run' = run /\ DOMAIN procs' = DOMAIN procs
        /\ \A j \in DOMAIN procs : Kept(j)
        /\ \E path \in tool.originals :
             /\ Deleted(path) \/ Left
             /\ tool.originals = {path} => Over
             /\ tool.originals # {path} => tool'.events = tool.events
    BY <1>4, <2>1, DeleteTraceIs
  <2>3. \A j \in DOMAIN procs : procs'[j].lines = procs[j].lines
    BY <2>2 DEF Kept
  <2>4. BagToSet(tool'.events) \subseteq all
    BY <1>2, <2>2 DEF Over
  <2>5. ASSUME NEW p \in DOMAIN files' PROVE BagToSet(files'[p]) \subseteq all
    <3>1. p \in DOMAIN files /\ files'[p] = files[p]
      BY <2>2 DEF Deleted, Left
    <3> QED BY <1>1, <3>1
  <2> QED BY <2>2, <2>3, <2>4, <2>5, WrittenKept
<1> QED BY <1>3, <1>4

LEMMA WrittenInvWrite ==
  ASSUME Shape, WrittenInv, NEW i \in DOMAIN procs, WriteLine(i)
  PROVE  WrittenInv'
<1>1. /\ UNCHANGED <<setting, run, tool>> /\ DOMAIN procs' = DOMAIN procs
      /\ \A j \in DOMAIN procs \ {i} : procs'[j] = procs[j]
      /\ procs'[i].lines = procs[i].lines + 1
      /\ DOMAIN files' = DOMAIN files
      /\ \A p \in DOMAIN files : ~(procs[i].linked /\ p = procs[i].path) => files'[p] = files[p]
      /\ \A p \in DOMAIN files : procs[i].linked /\ p = procs[i].path =>
           BagToSet(files'[p]) = BagToSet(files[p]) \cup {NewLine(i)}
  BY WriteLineIs
<1>2. ASSUME NEW p \in DOMAIN files'
      PROVE  BagToSet(files'[p]) \subseteq OnDisk \cup {NewLine(i)}
  BY <1>1, TraceOnDisk
<1>3. OnDisk' \subseteq OnDisk \cup {NewLine(i)}
  <2>1. OnDisk' = UNION {BagToSet(files'[p]) : p \in DOMAIN files'}
    BY DEF OnDisk, BagToSet
  <2> QED BY <1>2, <2>1
<1>4. OnDisk' \cup BagToSet(tool'.events)
        \subseteq OnDisk \cup BagToSet(tool.events) \cup {NewLine(i)}
  BY <1>1, <1>3
<1>5. run \in Nat /\ procs[i].lines \in Nat
  BY ProcessesAre DEF Shape
<1> SUFFICES ASSUME NEW line \in OnDisk \cup BagToSet(tool.events) \cup {NewLine(i)}
             PROVE  Written(line)'
  <2>1. (OnDisk \cup BagToSet(tool.events))' = OnDisk' \cup BagToSet(tool'.events)
    BY DEF BagToSet
  <2> QED BY <1>4, <2>1 DEF WrittenInv
<1>6. CASE line = NewLine(i)
  <2>1. line[1] = run /\ line[2] = i /\ line[3] = procs[i].lines + 1
    BY <1>6 DEF NewLine
  <2> QED BY <1>1, <1>5, <2>1 DEF Written
<1>7. CASE line \in OnDisk \cup BagToSet(tool.events)
  <2>1. line \in AllLines /\ Written(line)
    BY <1>7, DiskLines DEF WrittenInv
  <2>2. line[3] \in Nat
    BY <2>1 DEF AllLines
  <2>3. CASE line[1] < run
    BY <1>1, <2>3 DEF Written
  <2>4. CASE line[1] = run /\ line[2] \in DOMAIN procs /\ line[3] <= procs[line[2]].lines
    <3>1. CASE line[2] = i
      BY <1>1, <1>5, <2>2, <2>4, <3>1 DEF Written
    <3>2. CASE line[2] # i
      BY <1>1, <2>4, <3>2 DEF Written
    <3> QED BY <3>1, <3>2
  <2> QED BY <2>1, <2>3, <2>4 DEF Written
<1> QED BY <1>6, <1>7

LEMMA WrittenInvStep ==
  ASSUME Shape, ToolInv, WrittenInv, [Next]_vars
  PROVE  WrittenInv'
<1> DEFINE all == OnDisk \cup BagToSet(tool.events)
<1>1. \A p \in DOMAIN files : BagToSet(files[p]) \subseteq all
  BY TraceOnDisk
<1>2. BagToSet(EmptyBag) \subseteq all /\ BagToSet(tool.events) \subseteq all
  BY NoLines
<1>3. ASSUME UNCHANGED <<files, run, tool>>, DOMAIN procs \subseteq DOMAIN procs',
             \A j \in DOMAIN procs : procs'[j].lines = procs[j].lines
      PROVE  WrittenInv'
  <2>1. run' = run /\ BagToSet(tool'.events) \subseteq all
        /\ \A p \in DOMAIN files' : BagToSet(files'[p]) \subseteq all
    BY <1>1, <1>2, <1>3
  <2> QED BY <1>3, <2>1, WrittenKept
<1>4. CASE SpawnChild
  BY <1>3, <1>4, SpawnIs
<1>5. ASSUME NEW i \in DOMAIN procs, End(i) PROVE WrittenInv'
  <2>1. /\ UNCHANGED <<files, run, tool>> /\ DOMAIN procs' = DOMAIN procs
        /\ \A j \in DOMAIN procs : StaysAs(j)
    BY <1>5, EndIs
  <2> QED BY <1>3, <2>1 DEF StaysAs, Stays
<1>6. CASE UNCHANGED vars
  BY <1>3, <1>6 DEF vars
<1>7. ASSUME NEW i \in DOMAIN procs, OpenTrace(i) PROVE WrittenInv'
  <2>1. /\ UNCHANGED <<run, tool>> /\ DOMAIN procs' = DOMAIN procs
        /\ \A j \in DOMAIN procs \ {i} : procs'[j] = procs[j]
        /\ procs'[i].lines = procs[i].lines
        /\ DOMAIN files' = DOMAIN files \cup {OutputPath(i)}
        /\ files'[OutputPath(i)] = EmptyBag
        /\ \A p \in DOMAIN files : p # OutputPath(i) => files'[p] = files[p]
    BY <1>7, OpenIs
  <2>2. \A j \in DOMAIN procs : procs'[j].lines = procs[j].lines
    BY <2>1
  <2>3. ASSUME NEW p \in DOMAIN files' PROVE BagToSet(files'[p]) \subseteq all
    <3>1. files'[p] = EmptyBag \/ (p \in DOMAIN files /\ files'[p] = files[p])
      BY <2>1
    <3> QED BY <1>1, <1>2, <3>1
  <2>4. run' = run /\ BagToSet(tool'.events) \subseteq all
    BY <1>2, <2>1
  <2> QED BY <2>1, <2>2, <2>3, <2>4, WrittenKept
<1> QED BY <1>4, <1>5, <1>6, <1>7, WrittenInvLaunch, WrittenInvMerge, WrittenInvNames,
        WrittenInvWrite DEF Next

-----------------------------------------------------------------------------
(* Type correctness.                                                       *)

LEMMA TypeInvStep ==
  ASSUME TypeInv, [Next]_vars
  PROVE  TypeInv'
BY ToolInvStep, ProcessesInvStep, WrittenInvStep DEF TypeInv

LEMMA TypeInvIsInvariant == Spec => []TypeInv
<1>1. Init => TypeInv
  BY ToolInvInit DEF TypeInv
<1>2. TypeInv /\ [Next]_vars => TypeInv'
  BY TypeInvStep
<1> QED BY <1>1, <1>2, PTL DEF Spec

LEMMA TypeInvImplies == TypeInv => TypeOK
<1> SUFFICES ASSUME TypeInv PROVE TypeOK
  OBVIOUS
<1>1. Shape /\ ToolInv /\ AllProcessesInv /\ WrittenInv
  BY DEF TypeInv
<1>2. setting \in [template : Templates, platform : Platforms]
  BY <1>1 DEF Shape, Setting
<1>3. run \in 0..MaxRuns
  <2>1. MaxRuns \in Nat
    BY RunMergeAssumption
  <2> QED BY <1>1, <2>1 DEF Shape
<1>4. tool.phase \in Phases
  BY <1>1, ToolIs DEF Shape
<1>5. \A path \in tool.unread \cup tool.originals : path \in DOMAIN files /\ path # ComputeMergedPath
  BY <1>1 DEF ToolInv
<1>6. \A i \in Opened : procs[i].linked => procs[i].path \in DOMAIN files
  BY <1>1 DEF AllProcessesInv, ProcessInv, Opened
<1>7. \A line \in OnDisk :
        \/ line[1] < run
        \/ line[1] = run /\ line[2] \in DOMAIN procs /\ line[3] <= procs[line[2]].lines
  BY <1>1 DEF WrittenInv, Written
<1> QED BY <1>2, <1>3, <1>4, <1>5, <1>6, <1>7 DEF TypeOK, Phases

(* A process holds the name of its trace until the trace is deleted, the    *)
(* tool reads and deletes traces that exist and are not the merged one, and *)
(* every line on disk was written by a process of this or an earlier run    *)
(* (NdjsonMerger.cs 38-93, RunCommand.cs 140-175, NdjsonWriter.cpp).        *)
THEOREM TypeInvariant == Spec => []TypeOK
BY TypeInvIsInvariant, TypeInvImplies, PTL

-----------------------------------------------------------------------------
(* No line is twice in the merged trace.                                   *)

Plain(trace) == \A line \in BagToSet(trace) : trace[line] = 1
Apart(trace, other) == BagToSet(trace) \cap BagToSet(other) = {}

\* No line is twice in a trace, and only the merged one shares lines with others:
\* with traces that have been read.
OnceInv ==
  /\ \A path \in DOMAIN files : Plain(files[path])
  /\ \A path, other \in DOMAIN files \ {ComputeMergedPath} :
       path # other => Apart(files[path], files[other])
  /\ Plain(tool.events)
  /\ \A path \in tool.unread : Apart(files[path], tool.events)

LEMMA PlainSum ==
  ASSUME NEW a \in Traces, NEW b \in Traces, Plain(a), Plain(b), Apart(a, b)
  PROVE  Plain(a (+) b)
<1>1. /\ BagToSet(a (+) b) = BagToSet(a) \cup BagToSet(b)
      /\ \A e \in BagToSet(a) \ BagToSet(b) : (a (+) b)[e] = a[e]
      /\ \A e \in BagToSet(b) \ BagToSet(a) : (a (+) b)[e] = b[e]
  BY BagSum
<1> QED BY <1>1 DEF Plain, Apart

LEMMA NothingIsPlain == Plain(EmptyBag) /\ \A t : Apart(t, EmptyBag) /\ Apart(EmptyBag, t)
BY NoLines DEF Plain, Apart

\* Files that go, are emptied or stay, while the tool reads nothing new.
LEMMA OnceKept ==
  ASSUME Shape, ToolInv, OnceInv, setting' = setting,
         \A p \in DOMAIN files' \ {ComputeMergedPath} :
           files'[p] = EmptyBag \/ (p \in DOMAIN files /\ files'[p] = files[p]),
         ComputeMergedPath \in DOMAIN files' => Plain(files'[ComputeMergedPath]),
         tool'.unread \subseteq DOMAIN files' \ {ComputeMergedPath},
         tool'.events = EmptyBag \/ (tool'.events = tool.events /\ tool'.unread \subseteq tool.unread)
  PROVE  OnceInv'
<1>1. ComputeMergedPath' = ComputeMergedPath
  BY SettingKept
<1>2. \A p \in DOMAIN files' : Plain(files'[p])
  BY NothingIsPlain DEF OnceInv
<1>3. ASSUME NEW p \in DOMAIN files' \ {ComputeMergedPath},
             NEW o \in DOMAIN files' \ {ComputeMergedPath}, p # o
      PROVE  Apart(files'[p], files'[o])
  BY <1>3, NothingIsPlain DEF OnceInv
<1>4. Plain(tool'.events)
  BY NothingIsPlain DEF OnceInv
<1>5. ASSUME NEW p \in tool'.unread
      PROVE  Apart(files'[p], tool'.events)
  BY <1>5, NothingIsPlain DEF OnceInv
<1> QED BY <1>1, <1>2, <1>3, <1>4, <1>5 DEF OnceInv, Plain, Apart, BagToSet

LEMMA OnceInvMerge ==
  ASSUME Shape, ToolInv, OnceInv, MergeCommand \/ ReadTrace \/ TruncateMerged \/ WriteMerged \/ Interrupt
  PROVE  OnceInv'
<1> DEFINE m == ComputeMergedPath
<1>1. /\ tool.unread \subseteq DOMAIN files \ {m}
      /\ m \in DOMAIN files => Plain(files[m])
      /\ Plain(tool.events)
  BY DEF ToolInv, OnceInv
<1>2. CASE MergeCommand
  <2>1. /\ UNCHANGED <<setting, files, run, procs>>
        /\ tool'.unread = FindSessionOutputFiles /\ tool'.events = EmptyBag
    BY <1>2, MergeCommandIs
  <2>2. FindSessionOutputFiles \subseteq DOMAIN files \ {m}
    BY FoundAre
  <2> HIDE DEF m
  <2>3. setting' = setting /\ files' = files /\ tool'.unread \subseteq DOMAIN files' \ {m}
    BY <2>1, <2>2
  <2> QED BY <1>1, <2>1, <2>3, OnceKept DEF m
<1>3. CASE Interrupt
  BY <1>1, <1>3, InterruptIs, OnceKept
<1>4. CASE ReadTrace
  <2>1. /\ UNCHANGED <<setting, files, run, procs>>
        /\ \E path \in tool.unread :
             /\ path \in DOMAIN files /\ files[path] \in Traces /\ tool.events \in Traces
             /\ tool'.unread = tool.unread \ {path}
             /\ tool'.events = tool.events (+) files[path]
    BY <1>1, <1>4, ReadTraceIs
  <2>2. PICK path \in tool.unread :
          /\ path \in DOMAIN files /\ files[path] \in Traces /\ tool.events \in Traces
          /\ tool'.unread = tool.unread \ {path}
          /\ tool'.events = tool.events (+) files[path]
    BY <2>1
  <2>3. m' = m /\ files' = files
    BY <2>1, SettingKept
  <2>4. Plain(files[path]) /\ Apart(files[path], tool.events)
    BY <2>2 DEF OnceInv
  <2>5. Apart(tool.events, files[path])
    BY <2>4 DEF Apart
  <2>6. Plain(tool'.events)
    BY <1>1, <2>2, <2>4, <2>5, PlainSum
  <2>7. ASSUME NEW p \in tool'.unread PROVE Apart(files'[p], tool'.events)
    <3>1. p \in tool.unread /\ p # path
      BY <2>2
    <3>2. Apart(files[p], tool.events) /\ Apart(files[p], files[path])
      <4>1. Apart(files[p], tool.events)
        BY <3>1 DEF OnceInv
      <4>2. p \in DOMAIN files \ {m} /\ path \in DOMAIN files \ {m}
        BY <1>1, <3>1
      <4>3. Apart(files[p], files[path])
        BY <3>1, <4>2 DEF OnceInv
      <4> QED BY <4>1, <4>3
    <3>3. BagToSet(tool'.events) = BagToSet(tool.events) \cup BagToSet(files[path])
      BY <2>2, BagSum
    <3> QED BY <2>3, <3>2, <3>3 DEF Apart
  <2> QED BY <2>3, <2>6, <2>7 DEF OnceInv, Plain, Apart, BagToSet
<1>5. CASE TruncateMerged
  <2>1. /\ UNCHANGED <<setting, run, procs>> /\ tool'.events = tool.events /\ tool'.unread = {}
        /\ DOMAIN files' = DOMAIN files \cup {m} /\ files'[m] = EmptyBag
        /\ \A p \in DOMAIN files : p # m => files'[p] = files[p]
    BY <1>5, TruncateMergedIs
  <2>2. \A p \in DOMAIN files' \ {m} : p \in DOMAIN files /\ files'[p] = files[p]
    BY <2>1
  <2> QED BY <2>1, <2>2, NothingIsPlain, OnceKept
<1>6. CASE WriteMerged
  <2>1. m \in DOMAIN files /\ tool.unread = {}
    BY <1>6 DEF WriteMerged, ToolInv
  <2>2. /\ UNCHANGED <<setting, run, procs>> /\ tool'.events = EmptyBag /\ tool'.unread = {}
        /\ DOMAIN files' = DOMAIN files /\ files'[m] = tool.events
        /\ \A p \in DOMAIN files : p # m => files'[p] = files[p]
    BY <1>6, <2>1, WriteMergedIs
  <2> QED BY <1>1, <2>2, OnceKept
<1> QED BY <1>2, <1>3, <1>4, <1>5, <1>6

LEMMA OnceInvNames ==
  ASSUME Shape, ToolInv, OnceInv, MergeTraces \/ DeleteTrace
  PROVE  OnceInv'
<1> DEFINE m == ComputeMergedPath
<1>1. m \in DOMAIN files => Plain(files[m])
  BY DEF OnceInv
<1>2. CASE MergeTraces
  <2>1. /\ setting' = setting
        /\ SeveralFound \/ NoneFound \/ (\E path \in Paths : OneFound(path))
    BY <1>2, MergeTracesIs
  <2>2. CASE SeveralFound \/ NoneFound
    <3>1. files' = files /\ tool'.events = EmptyBag
          /\ tool'.unread \subseteq FindSessionOutputFiles
      BY <2>2 DEF SeveralFound, NoneFound, Over
    <3>2. FindSessionOutputFiles \subseteq DOMAIN files \ {m}
      BY FoundAre
    <3>3. tool'.unread \subseteq DOMAIN files' \ {m}
      BY <3>1, <3>2
    <3> QED BY <1>1, <2>1, <3>1, <3>3, OnceKept
  <2>3. ASSUME NEW path, OneFound(path) PROVE OnceInv'
    <3>1. /\ tool'.events = EmptyBag /\ tool'.unread = {}
          /\ DOMAIN files' = (DOMAIN files \ {path}) \cup {m}
          /\ files'[m] = files[path]
          /\ \A p \in DOMAIN files \ {path, m} : files'[p] = files[p]
      BY <2>3 DEF OneFound, Over
    <3>2. path \in DOMAIN files
      BY <2>3, FoundAre DEF OneFound
    <3>3. Plain(files'[m])
      BY <3>1, <3>2 DEF OnceInv
    <3>4. \A p \in DOMAIN files' \ {m} : p \in DOMAIN files /\ files'[p] = files[p]
      BY <3>1
    <3> QED BY <2>1, <3>1, <3>3, <3>4, OnceKept
  <2> QED BY <2>1, <2>2, <2>3
<1>3. CASE DeleteTrace
  <2>1. tool.unread = {}
    BY <1>3 DEF DeleteTrace, ToolInv
  <2>2. /\ setting' = setting
        /\ \E path \in tool.originals :
             /\ Deleted(path) \/ Left
             /\ tool.originals = {path} => Over
             /\ tool.originals # {path} => tool'.unread = {} /\ tool'.events = tool.events
    BY <1>3, <2>1, DeleteTraceIs
  <2>3. PICK path \in tool.originals :
             /\ Deleted(path) \/ Left
             /\ tool.originals = {path} => Over
             /\ tool.originals # {path} => tool'.unread = {} /\ tool'.events = tool.events
    BY <2>2
  <2>4. \A p \in DOMAIN files' : p \in DOMAIN files /\ files'[p] = files[p]
    BY <2>3 DEF Deleted, Left
  <2>5. tool'.unread = {} /\ (tool'.events = EmptyBag \/ tool'.events = tool.events)
    BY <2>3 DEF Over
  <2> QED BY <1>1, <2>2, <2>4, <2>5, OnceKept
<1> QED BY <1>2, <1>3

LEMMA OnceInvWrite ==
  ASSUME Shape, ToolInv, WrittenInv, OnceInv, NEW i \in DOMAIN procs, WriteLine(i)
  PROVE  OnceInv'
<1> DEFINE m == ComputeMergedPath
           l == NewLine(i)
           Grown(p) == procs[i].linked /\ p = procs[i].path
<1>1. /\ setting' = setting /\ tool' = tool /\ DOMAIN files' = DOMAIN files
      /\ \A p \in DOMAIN files : ~Grown(p) => files'[p] = files[p]
      /\ \A p \in DOMAIN files : Grown(p) =>
           /\ BagToSet(files'[p]) = BagToSet(files[p]) \cup {l}
           /\ \A e \in BagToSet(files[p]) : e # l => files'[p][e] = files[p][e]
           /\ l \notin BagToSet(files[p]) => files'[p][l] = 1
  BY WriteLineIs
<1>2. l \notin OnDisk \cup BagToSet(tool.events)
  BY NewLineIsNew
<1>3. \A p \in DOMAIN files : l \notin BagToSet(files[p])
  BY <1>2, TraceOnDisk
<1>4. m' = m
  BY <1>1, SettingKept
<1>5. \A p, o \in DOMAIN files : Grown(p) /\ Grown(o) => p = o
  OBVIOUS
<1> HIDE DEF Grown, l
<1>6. ASSUME NEW p \in DOMAIN files' PROVE Plain(files'[p])
  <2>1. Plain(files[p])
    BY <1>1 DEF OnceInv
  <2>2. CASE Grown(p)
    BY <1>1, <1>3, <2>1, <2>2 DEF Plain
  <2>3. CASE ~Grown(p)
    BY <1>1, <2>1, <2>3
  <2> QED BY <2>2, <2>3
<1>7. ASSUME NEW p \in DOMAIN files' \ {m}, NEW o \in DOMAIN files' \ {m}, p # o
      PROVE  Apart(files'[p], files'[o])
  <2>1. Apart(files[p], files[o])
    BY <1>1, <1>7 DEF OnceInv
  <2>2. p \in DOMAIN files /\ o \in DOMAIN files /\ ~(Grown(p) /\ Grown(o))
    BY <1>1, <1>5, <1>7
  <2>3. CASE Grown(p)
    BY <1>1, <1>3, <2>1, <2>2, <2>3 DEF Apart
  <2>4. CASE Grown(o)
    BY <1>1, <1>3, <2>1, <2>2, <2>4 DEF Apart
  <2>5. CASE ~Grown(p) /\ ~Grown(o)
    BY <1>1, <2>1, <2>2, <2>5
  <2> QED BY <2>3, <2>4, <2>5
<1>8. ASSUME NEW p \in tool'.unread PROVE Apart(files'[p], tool'.events)
  <2>1. p \in DOMAIN files /\ Apart(files[p], tool.events)
    BY <1>1, <1>8 DEF OnceInv, ToolInv
  <2>2. CASE Grown(p)
    BY <1>1, <1>2, <2>1, <2>2 DEF Apart
  <2>3. CASE ~Grown(p)
    BY <1>1, <2>1, <2>3
  <2> QED BY <2>2, <2>3
<1>9. Plain(tool'.events)
  BY <1>1 DEF OnceInv
<1> QED BY <1>4, <1>6, <1>7, <1>8, <1>9 DEF OnceInv, Plain, Apart, BagToSet

LEMMA OnceInvStep ==
  ASSUME Shape, ToolInv, WrittenInv, OnceInv, [Next]_vars
  PROVE  OnceInv'
<1> DEFINE m == ComputeMergedPath
<1>1. /\ tool.unread \subseteq DOMAIN files \ {m}
      /\ m \in DOMAIN files => Plain(files[m])
  BY DEF ToolInv, OnceInv
<1>2. ASSUME setting' = setting, files' = files, tool' = tool PROVE OnceInv'
  BY <1>1, <1>2, OnceKept
<1>3. ASSUME NEW detach \in BOOLEAN, Launch(detach) PROVE OnceInv'
  <2>1. /\ UNCHANGED <<setting, files>> /\ tool'.unread = {} /\ tool'.events = EmptyBag
    BY <1>3, LaunchIs
  <2> QED BY <1>1, <2>1, OnceKept
<1>4. CASE SpawnChild
  BY <1>2, <1>4, SpawnIs
<1>5. ASSUME NEW i \in DOMAIN procs, End(i) PROVE OnceInv'
  BY <1>2, <1>5, EndIs
<1>6. CASE UNCHANGED vars
  BY <1>2, <1>6 DEF vars
<1>7. ASSUME NEW i \in DOMAIN procs, OpenTrace(i) PROVE OnceInv'
  <2>1. /\ UNCHANGED <<setting, run, tool>>
        /\ DOMAIN files' = DOMAIN files \cup {OutputPath(i)}
        /\ files'[OutputPath(i)] = EmptyBag
        /\ \A p \in DOMAIN files : p # OutputPath(i) => files'[p] = files[p]
    BY <1>7, OpenIs
  <2>2. \A p \in DOMAIN files' : files'[p] = EmptyBag \/ (p \in DOMAIN files /\ files'[p] = files[p])
    BY <2>1
  <2>3. m \in DOMAIN files' => Plain(files'[m])
    BY <1>1, <2>2, NothingIsPlain
  <2>4. tool'.unread \subseteq DOMAIN files' \ {m}
    BY <1>1, <2>1
  <2> QED BY <2>1, <2>2, <2>3, <2>4, OnceKept
<1> QED BY <1>3, <1>4, <1>5, <1>6, <1>7, OnceInvMerge, OnceInvNames, OnceInvWrite DEF Next

(* No line is twice in the merged trace, however many runs leave their      *)
(* traces beside it (NdjsonMerger.cs 84-92): the merged trace is never one  *)
(* of those it is merged from, and no two of these share a line.            *)
THEOREM MergedLinesOnce == Spec => []MergedOnce
<1>1. Init => TypeInv /\ OnceInv
  <2> SUFFICES ASSUME Init PROVE TypeInv /\ OnceInv
    OBVIOUS
  <2>1. TypeInv /\ files = << >>
    BY ToolInvInit DEF TypeInv
  <2>2. DOMAIN files = {}
    BY <2>1
  <2>3. "idle" \in Phases
    BY DEF Phases
  <2>4. tool.unread = {} /\ tool.events = EmptyBag
    BY <2>3, IdleIs DEF Init
  <2> QED BY <2>1, <2>2, <2>4, NothingIsPlain DEF OnceInv
<1>2. TypeInv /\ OnceInv /\ [Next]_vars => (TypeInv /\ OnceInv)'
  BY TypeInvStep, OnceInvStep DEF TypeInv
<1>3. OnceInv => MergedOnce
  BY DEF OnceInv, Plain, MergedOnce
<1> QED BY <1>1, <1>2, <1>3, PTL DEF Spec

-----------------------------------------------------------------------------
(* No line is lost.                                                        *)

\* The lines under a name.
Held(fs, path) == IF path \in DOMAIN fs THEN BagToSet(fs[path]) ELSE {}

\* Where a process's lines are at least.
Where(i) == IF procs[i].linked THEN procs[i].path ELSE ComputeMergedPath

\* A trace that has been read is safe with what the tool read, then in the merged one.
Safe(i) ==
  /\ Lines(i) \subseteq Held(files, Where(i))
  /\ procs[i].path \in tool.originals \ tool.unread =>
       Lines(i) \subseteq IF tool.phase = "deleting" THEN Held(files, ComputeMergedPath)
                         ELSE BagToSet(tool.events)

SafeInv == \A i \in Opened : HasOwnTrace(i) /\ ~procs[i].outlives => Safe(i)

LEMMA OwnKept ==
  ASSUME setting' = setting, NEW i \in DOMAIN procs, DOMAIN procs \subseteq DOMAIN procs',
         \A j \in DOMAIN procs :
           /\ procs'[j].pid = procs[j].pid /\ procs'[j].file = procs[j].file
           /\ procs[j].path # <<>> => procs'[j].path # <<>>,
         HasOwnTrace(i)'
  PROVE  HasOwnTrace(i)
<1> SUFFICES ASSUME NEW j \in Opened \ {i}
             PROVE  /\ procs[i].file = "parsed" /\ PidToken \in Range(template)
                    /\ procs[j].pid # procs[i].pid
  BY DEF HasOwnTrace
<1>1. j \in DOMAIN procs' /\ procs'[j].path # <<>> /\ j # i
  BY DEF Opened
<1>2. j \in Opened' \ {i}
  BY <1>1 DEF Opened
<1>3. /\ procs'[i].file = "parsed" /\ PidToken \in Range(template')
      /\ procs'[j].pid # procs'[i].pid
  BY <1>2 DEF HasOwnTrace, Range
<1>4. template' = template
  BY DEF template
<1> QED BY <1>1, <1>3, <1>4 DEF Opened

\* While the tool merges, no process writes to the merged trace.
LEMMA MergingPath ==
  ASSUME Shape, ToolInv, AllProcessesInv, tool.phase \in Merging,
         NEW j \in DOMAIN procs, procs[j].path # <<>>
  PROVE  procs[j].path # ComputeMergedPath
<1>1. HasPid /\ Setting /\ procs[j].pid \in Pids
  BY ProcessesAre DEF ToolInv, Shape
<1>2. procs[j].path = OutputPath(j)
  BY DEF AllProcessesInv, ProcessInv, Merging
<1> QED BY <1>1, <1>2, OutputIs

\* The traces that a process opens are no others' and not the merged one.
LEMMA OtherPath ==
  ASSUME Shape, AllProcessesInv, NEW i \in DOMAIN procs, NEW k \in DOMAIN procs, HasPid,
         procs[i].path # <<>>, procs[i].file = "parsed", procs[k].pid # procs[i].pid
  PROVE  procs[i].path # OutputPath(k) /\ ComputeMergedPath # OutputPath(k)
<1>1. Setting /\ procs[i].pid \in Pids /\ procs[k].pid \in Pids
  BY ProcessesAre DEF Shape
<1>2. OutputPath(i) # OutputPath(k) /\ ComputeMergedPath # OutputPath(k)
  BY <1>1, OwnPath, OutputIs
<1> QED BY <1>2 DEF AllProcessesInv, ProcessInv

LEMMA SafeKept ==
  ASSUME NEW i, Safe(i), run' = run, setting' = setting, tool' = tool,
         procs'[i].path = procs[i].path, procs'[i].linked = procs[i].linked,
         procs'[i].lines = procs[i].lines,
         Held(files, Where(i)) \subseteq Held(files', Where(i)),
         Held(files, ComputeMergedPath) \subseteq Held(files', ComputeMergedPath)
  PROVE  Safe(i)'
<1>1. ComputeMergedPath' = ComputeMergedPath
  BY SettingKept
<1>2. Where(i)' = Where(i) /\ Lines(i)' = Lines(i)
  BY <1>1 DEF Where, Lines
<1>3. Held(files, Where(i))' = Held(files', Where(i))
  BY <1>2 DEF Held, BagToSet
<1>4. Held(files, ComputeMergedPath)' = Held(files', ComputeMergedPath)
  BY <1>1 DEF Held, BagToSet
<1>5. BagToSet(tool.events)' = BagToSet(tool.events)
  BY DEF BagToSet
<1>6. Lines(i) \subseteq Held(files', Where(i))
  BY DEF Safe
<1>7. procs[i].path \in tool.originals \ tool.unread =>
        Lines(i) \subseteq IF tool.phase = "deleting" THEN Held(files', ComputeMergedPath)
                          ELSE BagToSet(tool.events)
  BY DEF Safe
<1> QED BY <1>2, <1>3, <1>4, <1>5, <1>6, <1>7 DEF Safe

\* A step of the tool's, from what it does to files, names and the tool.
LEMMA SafeMoved ==
  ASSUME NEW i, run' = run, setting' = setting, procs'[i].lines = procs[i].lines,
         Lines(i) \subseteq Held(files', IF procs'[i].linked THEN procs'[i].path
                                        ELSE ComputeMergedPath),
         procs'[i].path \in tool'.originals \ tool'.unread =>
           Lines(i) \subseteq IF tool'.phase = "deleting" THEN Held(files', ComputeMergedPath)
                             ELSE BagToSet(tool'.events)
  PROVE  Safe(i)'
<1>1. ComputeMergedPath' = ComputeMergedPath
  BY SettingKept
<1>2. Lines(i)' = Lines(i)
  BY DEF Lines
<1>3. Where(i)' = IF procs'[i].linked THEN procs'[i].path ELSE ComputeMergedPath
  BY <1>1 DEF Where
<1>4. Held(files, Where(i))' =
        Held(files', IF procs'[i].linked THEN procs'[i].path ELSE ComputeMergedPath)
  BY <1>3 DEF Held, BagToSet
<1>5. Held(files, ComputeMergedPath)' = Held(files', ComputeMergedPath)
  BY <1>1 DEF Held, BagToSet
<1>6. BagToSet(tool.events)' = BagToSet(tool'.events)
  BY DEF BagToSet
<1> HIDE DEF Held, BagToSet, Lines
<1> QED BY <1>2, <1>4, <1>5, <1>6 DEF Safe

LEMMA SafeInvMergeTraces ==
  ASSUME Shape, ToolInv, AllProcessesInv, SafeInv, MergeTraces
  PROVE  SafeInv'
<1> DEFINE m == ComputeMergedPath
<1>1. /\ UNCHANGED <<setting, run>> /\ tool.phase = "waiting" /\ DOMAIN procs' = DOMAIN procs
      /\ \A j \in DOMAIN procs : Surveyed(j)
      /\ SeveralFound \/ NoneFound \/ (\E path \in Paths : OneFound(path))
  BY MergeTracesIs
<1>2. m # <<>> /\ Setting
  BY MergedIs DEF Shape
<1>3. \A j \in DOMAIN procs : procs[j].path # <<>> <=> procs'[j].path # <<>>
  <2>1. CASE SeveralFound \/ NoneFound
    BY <2>1 DEF SeveralFound, NoneFound
  <2>2. ASSUME NEW path, OneFound(path)
        PROVE  \A j \in DOMAIN procs : procs[j].path # <<>> <=> procs'[j].path # <<>>
    <3>1. path # <<>>
      BY <2>2, FoundNotEmpty DEF OneFound
    <3>2. \A j \in DOMAIN procs :
            /\ procs[j].path = path => procs'[j].path = m
            /\ procs[j].path # path => procs'[j].path = procs[j].path
      BY <2>2 DEF OneFound
    <3> QED BY <1>2, <3>1, <3>2
  <2> QED BY <1>1, <2>1, <2>2
<1> SUFFICES ASSUME NEW i \in Opened', HasOwnTrace(i)', ~procs'[i].outlives PROVE Safe(i)'
  BY DEF SafeInv
<1>4. /\ i \in DOMAIN procs /\ procs[i].path # <<>>
      /\ procs'[i].linked = procs[i].linked /\ procs'[i].lines = procs[i].lines
  BY <1>1, <1>3 DEF Opened, Surveyed
<1>5. \A j \in DOMAIN procs : procs'[j].pid = procs[j].pid /\ procs'[j].file = procs[j].file
  BY <1>1 DEF Surveyed
<1>6. HasOwnTrace(i)
  BY <1>1, <1>3, <1>4, <1>5, OwnKept
<1>7. ~procs[i].outlives
  BY <1>1, <1>4 DEF AllProcessesInv, ProcessInv, ToolInv
<1>8. Safe(i)
  BY <1>4, <1>6, <1>7 DEF SafeInv, Opened
<1>9. procs[i].linked /\ procs[i].path = OutputPath(i) /\ procs[i].path \in DOMAIN files
  BY <1>1, <1>4, NamesHeld
<1>10. Lines(i) \subseteq Held(files, procs[i].path)
  BY <1>8, <1>9 DEF Safe, Where
<1>11. ASSUME files' = files, procs'[i].path = procs[i].path,
              tool'.originals \subseteq tool'.unread
       PROVE  Safe(i)'
  BY <1>1, <1>4, <1>9, <1>10, <1>11, SafeMoved
<1>12. ASSUME NEW path, OneFound(path) PROVE Safe(i)'
  <2>1. /\ tool'.originals = {}
        /\ DOMAIN files' = (DOMAIN files \ {path}) \cup {m}
        /\ files'[m] = files[path]
        /\ \A p \in DOMAIN files \ {path, m} : files'[p] = files[p]
        /\ procs[i].path = path => procs'[i].path = m
        /\ procs[i].path # path => procs'[i].path = procs[i].path
    BY <1>4, <1>12 DEF OneFound, Over
  <2>2. HasPid
    BY <1>2, <1>12, FoundHasPid DEF Shape, OneFound
  <2>3. procs[i].path # m
    <3>1. procs[i].pid \in Pids
      BY <1>4, ProcessesAre DEF Shape
    <3> QED BY <1>2, <1>9, <2>2, <3>1, OutputIs
  <2>4. Lines(i) \subseteq Held(files', procs'[i].path)
    <3>1. CASE procs[i].path = path
      BY <1>9, <1>10, <2>1, <3>1 DEF Held
    <3>2. CASE procs[i].path # path
      BY <1>9, <1>10, <2>1, <2>3, <3>2 DEF Held
    <3> QED BY <3>1, <3>2
  <2> QED BY <1>1, <1>4, <1>9, <2>1, <2>4, SafeMoved
<1>13. CASE SeveralFound \/ NoneFound
  <2>1. /\ files' = files /\ procs'[i].path = procs[i].path
        /\ tool'.originals \subseteq tool'.unread
    BY <1>4, <1>13 DEF SeveralFound, NoneFound, Over
  <2> QED BY <1>11, <2>1
<1> QED BY <1>1, <1>12, <1>13

LEMMA SafeInvMerge ==
  ASSUME Shape, ToolInv, AllProcessesInv, SafeInv,
         MergeCommand \/ ReadTrace \/ TruncateMerged \/ WriteMerged \/ Interrupt
  PROVE  SafeInv'
<1> DEFINE m == ComputeMergedPath
<1>1. tool.unread \subseteq DOMAIN files
  BY DEF ToolInv
<1>2. UNCHANGED <<setting, run, procs>>
  <2>1. CASE WriteMerged
    <3>1. m \in DOMAIN files /\ tool.unread = {}
      BY <2>1 DEF WriteMerged, ToolInv
    <3> QED BY <2>1, <3>1, WriteMergedIs
  <2> QED BY <1>1, <2>1, MergeCommandIs, ReadTraceIs, TruncateMergedIs, InterruptIs
<1> SUFFICES ASSUME NEW i \in Opened', HasOwnTrace(i)', ~procs'[i].outlives PROVE Safe(i)'
  BY DEF SafeInv
<1>3. i \in DOMAIN procs /\ procs[i].path # <<>> /\ ~procs[i].outlives
  BY <1>2 DEF Opened
<1>4. HasOwnTrace(i)
  BY <1>2, <1>3, OwnKept
<1>5. Safe(i)
  BY <1>3, <1>4 DEF SafeInv, Opened
<1>6. Lines(i) \subseteq Held(files, IF procs'[i].linked THEN procs'[i].path ELSE m)
  BY <1>2, <1>5 DEF Safe, Where
<1>7. ASSUME files' = files, tool'.originals = {} PROVE Safe(i)'
  BY <1>2, <1>6, <1>7, SafeMoved
<1>8. CASE MergeCommand
  BY <1>7, <1>8, MergeCommandIs
<1>9. CASE Interrupt
  BY <1>7, <1>9, InterruptIs
<1>10. ASSUME tool.phase \in {"reading", "writing"}
       PROVE  /\ procs[i].linked /\ procs[i].path # m /\ procs[i].path \in DOMAIN files
              /\ Lines(i) \subseteq Held(files, procs[i].path)
  <2>1. procs[i].linked /\ procs[i].path \in DOMAIN files
    BY <1>3, <1>10, NamesHeld
  <2>2. procs[i].path # m
    BY <1>3, <1>10, MergingPath DEF Merging
  <2> QED BY <1>5, <2>1, <2>2 DEF Safe, Where
<1>11. tool.phase # "deleting" /\ procs[i].path \in tool.originals \ tool.unread =>
         Lines(i) \subseteq BagToSet(tool.events)
  BY <1>5 DEF Safe
<1>12. CASE ReadTrace
  <2>1. /\ files' = files /\ tool.phase = "reading" /\ tool'.phase = "reading"
        /\ tool'.originals = tool.originals
        /\ \E path \in tool.unread :
             /\ path \in DOMAIN files /\ files[path] \in Traces /\ tool.events \in Traces
             /\ tool'.unread = tool.unread \ {path}
             /\ tool'.events = tool.events (+) files[path]
    BY <1>1, <1>12, ReadTraceIs
  <2>2. PICK path \in tool.unread :
             /\ path \in DOMAIN files /\ files[path] \in Traces /\ tool.events \in Traces
             /\ tool'.unread = tool.unread \ {path}
             /\ tool'.events = tool.events (+) files[path]
    BY <2>1
  <2>3. BagToSet(tool'.events) = BagToSet(tool.events) \cup BagToSet(files[path])
    BY <2>2, BagSum
  <2>4. procs'[i].path \in tool'.originals \ tool'.unread => Lines(i) \subseteq BagToSet(tool'.events)
    <3>1. CASE procs[i].path = path
      <4>1. Held(files, path) = BagToSet(files[path])
        BY <2>2 DEF Held
      <4> QED BY <1>10, <2>1, <2>3, <3>1, <4>1
    <3>2. CASE procs[i].path # path
      BY <1>2, <1>11, <2>1, <2>2, <2>3, <3>2
    <3> QED BY <3>1, <3>2
  <2> QED BY <1>2, <1>6, <2>1, <2>4, SafeMoved
<1>13. CASE TruncateMerged
  <2>1. /\ tool.phase = "reading" /\ tool.unread = {} /\ tool'.phase = "writing" /\ tool'.unread = {}
        /\ tool'.originals = tool.originals /\ tool'.events = tool.events
        /\ DOMAIN files' = DOMAIN files \cup {m}
        /\ \A p \in DOMAIN files : p # m => files'[p] = files[p]
    BY <1>13, TruncateMergedIs
  <2>2. procs[i].linked /\ procs[i].path # m /\ procs[i].path \in DOMAIN files
        /\ Lines(i) \subseteq Held(files, procs[i].path)
    BY <1>10, <2>1
  <2>3. Lines(i) \subseteq Held(files', procs[i].path)
    BY <2>1, <2>2 DEF Held
  <2>4. procs'[i].path \in tool'.originals \ tool'.unread => Lines(i) \subseteq BagToSet(tool'.events)
    BY <1>2, <1>11, <2>1
  <2> QED BY <1>2, <2>1, <2>2, <2>3, <2>4, SafeMoved
<1>14. CASE WriteMerged
  <2>1. tool.phase = "writing" /\ m \in DOMAIN files /\ tool.unread = {}
    BY <1>14 DEF WriteMerged, ToolInv
  <2>2. /\ tool'.unread = {}
        /\ tool.originals = {} => tool'.originals = {}
        /\ tool.originals # {} => tool'.phase = "deleting" /\ tool'.originals = tool.originals
        /\ DOMAIN files' = DOMAIN files /\ files'[m] = tool.events
        /\ \A p \in DOMAIN files : p # m => files'[p] = files[p]
    BY <1>14, <2>1, WriteMergedIs
  <2>3. procs[i].linked /\ procs[i].path # m /\ procs[i].path \in DOMAIN files
        /\ Lines(i) \subseteq Held(files, procs[i].path)
    BY <1>10, <2>1
  <2>4. Lines(i) \subseteq Held(files', procs[i].path)
    BY <2>2, <2>3 DEF Held
  <2>5. Held(files', m) = BagToSet(tool.events)
    BY <2>1, <2>2 DEF Held
  <2>6. procs'[i].path \in tool'.originals \ tool'.unread =>
          tool'.phase = "deleting" /\ Lines(i) \subseteq Held(files', m)
    BY <1>2, <1>11, <2>1, <2>2, <2>5
  <2> QED BY <1>2, <2>3, <2>4, <2>6, SafeMoved
<1> QED BY <1>8, <1>9, <1>12, <1>13, <1>14

LEMMA SafeInvDelete ==
  ASSUME Shape, ToolInv, AllProcessesInv, SafeInv, DeleteTrace
  PROVE  SafeInv'
<1> DEFINE m == ComputeMergedPath
<1>1. tool.phase = "deleting" /\ tool.unread = {} /\ m \in DOMAIN files
  BY DEF DeleteTrace, ToolInv
<1>2. /\ UNCHANGED <<setting, run>> /\ DOMAIN procs' = DOMAIN procs
      /\ \A j \in DOMAIN procs : Kept(j)
      /\ \E path \in tool.originals :
           /\ Deleted(path) \/ Left
           /\ tool.originals = {path} => Over
           /\ tool.originals # {path} =>
                tool'.phase = "deleting" /\ tool'.originals = tool.originals \ {path}
  BY <1>1, DeleteTraceIs
<1>3. PICK path \in tool.originals :
        /\ Deleted(path) \/ Left
        /\ tool.originals = {path} => Over
        /\ tool.originals # {path} =>
             tool'.phase = "deleting" /\ tool'.originals = tool.originals \ {path}
  BY <1>2
<1>4. path # m /\ path \in DOMAIN files
  BY DEF ToolInv
<1> SUFFICES ASSUME NEW i \in Opened', HasOwnTrace(i)', ~procs'[i].outlives PROVE Safe(i)'
  BY DEF SafeInv
<1>5. i \in DOMAIN procs /\ procs[i].path # <<>> /\ ~procs[i].outlives
      /\ procs'[i].path = procs[i].path /\ procs'[i].lines = procs[i].lines
  BY <1>2 DEF Opened, Kept
<1>6. HasOwnTrace(i)
  BY <1>2, <1>5, OwnKept DEF Kept
<1>7. Safe(i)
  BY <1>5, <1>6 DEF SafeInv, Opened
<1>8. Held(files', m) = Held(files, m)
  BY <1>1, <1>3, <1>4 DEF Deleted, Left, Held
<1>9. tool'.originals = {}
      \/ (tool'.originals \subseteq tool.originals /\ tool'.phase = "deleting")
  BY <1>3 DEF Over
<1>10. procs[i].path \in tool.originals => Lines(i) \subseteq Held(files, m)
  BY <1>1, <1>7 DEF Safe
<1>11. procs'[i].path \in tool'.originals \ tool'.unread =>
         tool'.phase = "deleting" /\ Lines(i) \subseteq Held(files', m)
  BY <1>5, <1>8, <1>9, <1>10
<1>12. Lines(i) \subseteq Held(files, IF procs[i].linked THEN procs[i].path ELSE m)
  BY <1>7 DEF Safe, Where
<1>13. Lines(i) \subseteq Held(files', IF procs'[i].linked THEN procs'[i].path ELSE m)
  <2>1. CASE Left
    <3>1. files' = files /\ procs'[i] = procs[i]
      BY <2>1 DEF Left
    <3> QED BY <1>12, <3>1
  <2>2. CASE Deleted(path)
    <3>1. CASE procs[i].path = path
      <4>1. ~procs'[i].linked
        BY <1>5, <2>2, <3>1 DEF Deleted
      <4> QED BY <1>8, <1>10, <3>1, <4>1
    <3>2. CASE procs[i].path # path
      <4>1. procs'[i].linked = procs[i].linked
        BY <1>5, <2>2, <3>2 DEF Deleted
      <4>2. Held(files', procs[i].path) = Held(files, procs[i].path)
        BY <2>2, <3>2 DEF Deleted, Held
      <4> QED BY <1>5, <1>8, <1>12, <4>1, <4>2
    <3> QED BY <3>1, <3>2
  <2> QED BY <1>3, <2>1, <2>2
<1> QED BY <1>2, <1>5, <1>11, <1>13, SafeMoved

LEMMA SafeInvOpen ==
  ASSUME Shape, ToolInv, AllProcessesInv, SafeInv, NEW k \in DOMAIN procs, OpenTrace(k)
  PROVE  SafeInv'
<1> DEFINE m == ComputeMergedPath
           o == OutputPath(k)
<1>1. /\ UNCHANGED <<setting, run, tool>> /\ DOMAIN procs' = DOMAIN procs
      /\ \A j \in DOMAIN procs \ {k} : procs'[j] = procs[j]
      /\ procs[k].state = "started"
      /\ procs'[k].pid = procs[k].pid /\ procs'[k].file = procs[k].file
      /\ procs'[k].path = o /\ procs'[k].lines = procs[k].lines
      /\ procs'[k].outlives = procs[k].outlives
      /\ DOMAIN files' = DOMAIN files \cup {o}
      /\ \A p \in DOMAIN files : p # o => files'[p] = files[p]
  BY OpenIs
<1>2. Setting /\ procs[k].pid \in Pids
  BY ProcessesAre DEF Shape
<1>3. o # <<>>
  BY <1>2, OutputIs
<1>4. procs[k].path = <<>> /\ procs[k].lines = 0
  BY <1>1 DEF AllProcessesInv, ProcessInv
<1> SUFFICES ASSUME NEW i \in Opened', HasOwnTrace(i)', ~procs'[i].outlives PROVE Safe(i)'
  BY DEF SafeInv
<1>5. i \in DOMAIN procs
  BY <1>1 DEF Opened
<1>6. CASE i = k
  <2>1. Lines(i) = {}
    BY <1>4, <1>6 DEF Lines
  <2>2. procs'[i].lines = procs[i].lines
    BY <1>1, <1>6
  <2> QED BY <1>1, <2>1, <2>2, SafeMoved
<1>7. CASE i # k
  <2>1. procs'[i] = procs[i] /\ procs[i].path # <<>>
    BY <1>1, <1>5, <1>7 DEF Opened
  <2>2. HasOwnTrace(i)
    <3>1. \A j \in DOMAIN procs :
           /\ procs'[j].pid = procs[j].pid /\ procs'[j].file = procs[j].file
           /\ procs[j].path # <<>> => procs'[j].path # <<>>
      BY <1>1, <1>3
    <3> QED BY <1>1, <1>5, <3>1, OwnKept
  <2>3. Safe(i)
    BY <1>5, <2>1, <2>2 DEF SafeInv, Opened
  <2>4. procs[i].file = "parsed" /\ HasPid /\ procs[k].pid # procs[i].pid
    <3>1. k \in Opened' \ {i}
      BY <1>1, <1>3, <1>7 DEF Opened
    <3>2. /\ procs'[i].file = "parsed" /\ PidToken \in Range(template')
          /\ procs'[k].pid # procs'[i].pid
      BY <3>1 DEF HasOwnTrace, Range
    <3>3. template' = template
      BY <1>1 DEF template
    <3> QED BY <1>1, <2>1, <3>2, <3>3 DEF HasPid
  <2>5. procs[i].path # o /\ m # o
    BY <1>5, <2>1, <2>4, OtherPath
  <2>6. \A p : p # o => Held(files', p) = Held(files, p)
    BY <1>1 DEF Held
  <2>7. Held(files', m) = Held(files, m) /\ Held(files', Where(i)) = Held(files, Where(i))
    <3>1. Where(i) # o
      BY <2>5 DEF Where
    <3> QED BY <2>5, <2>6, <3>1
  <2> QED BY <1>1, <2>1, <2>3, <2>7, SafeKept
<1> QED BY <1>6, <1>7

LEMMA SafeInvWrite ==
  ASSUME Shape, ToolInv, AllProcessesInv, SafeInv, NEW k \in DOMAIN procs, WriteLine(k)
  PROVE  SafeInv'
<1> DEFINE m == ComputeMergedPath
           l == NewLine(k)
<1>1. /\ UNCHANGED <<setting, run, tool>> /\ DOMAIN procs' = DOMAIN procs
      /\ \A j \in DOMAIN procs \ {k} : procs'[j] = procs[j]
      /\ procs[k].state = "writing"
      /\ procs'[k].pid = procs[k].pid /\ procs'[k].file = procs[k].file
      /\ procs'[k].path = procs[k].path
      /\ procs'[k].linked = procs[k].linked /\ procs'[k].lines = procs[k].lines + 1
      /\ procs'[k].outlives = procs[k].outlives
      /\ DOMAIN files' = DOMAIN files
      /\ \A p \in DOMAIN files : ~(procs[k].linked /\ p = procs[k].path) => files'[p] = files[p]
      /\ \A p \in DOMAIN files : procs[k].linked /\ p = procs[k].path =>
           BagToSet(files'[p]) = BagToSet(files[p]) \cup {l}
  BY WriteLineIs
<1>2. \A p : Held(files, p) \subseteq Held(files', p)
  BY <1>1 DEF Held
<1> SUFFICES ASSUME NEW i \in Opened', HasOwnTrace(i)', ~procs'[i].outlives PROVE Safe(i)'
  BY DEF SafeInv
<1>3. /\ i \in DOMAIN procs /\ procs[i].path # <<>> /\ ~procs[i].outlives
      /\ procs'[i].path = procs[i].path /\ procs'[i].linked = procs[i].linked
  BY <1>1 DEF Opened
<1>4. HasOwnTrace(i)
  <2>1. \A j \in DOMAIN procs :
         /\ procs'[j].pid = procs[j].pid /\ procs'[j].file = procs[j].file
         /\ procs[j].path # <<>> => procs'[j].path # <<>>
    BY <1>1
  <2> QED BY <1>1, <1>3, <2>1, OwnKept
<1>5. Safe(i)
  BY <1>3, <1>4 DEF SafeInv, Opened
<1>6. CASE i # k
  <2>1. procs'[i].lines = procs[i].lines
    BY <1>1, <1>3, <1>6
  <2> QED BY <1>1, <1>2, <1>3, <1>5, <2>1, SafeKept
<1>7. CASE i = k
  <2>1. ~tool.listed
    BY <1>1, <1>3, <1>7 DEF AllProcessesInv, ProcessInv
  <2>2. tool.originals = {}
    BY <2>1 DEF ToolInv
  <2>3. procs[i].linked /\ procs[i].path \in DOMAIN files
    BY <1>3, <2>1 DEF AllProcessesInv, ProcessInv
  <2>4. Lines(i)' \subseteq Lines(i) \cup {l}
    <3>1. procs[i].lines \in Nat
      BY <1>3, ProcessesAre DEF Shape
    <3>2. 1..procs'[i].lines \subseteq 1..procs[i].lines \cup {procs[i].lines + 1}
      BY <1>1, <1>7, <3>1
    <3>3. Lines(i)' = {<<run, i, n>> : n \in 1..procs'[i].lines}
      BY <1>1 DEF Lines
    <3> QED BY <1>7, <3>2, <3>3 DEF Lines, NewLine
  <2>5. Held(files', procs[i].path) = Held(files, procs[i].path) \cup {l}
    BY <1>1, <1>7, <2>3 DEF Held
  <2>6. Lines(i) \subseteq Held(files, procs[i].path)
    BY <1>5, <2>3 DEF Safe, Where
  <2>7. Lines(i)' \subseteq Held(files', procs[i].path)
    BY <2>4, <2>5, <2>6
  <2>8. Where(i)' = procs[i].path
    BY <1>3, <2>3 DEF Where
  <2>9. Held(files, Where(i))' = Held(files', procs[i].path)
    BY <2>8 DEF Held, BagToSet
  <2>10. tool'.originals = {}
    BY <1>1, <2>2
  <2> QED BY <2>7, <2>9, <2>10 DEF Safe
<1> QED BY <1>6, <1>7

LEMMA SafeInvStep ==
  ASSUME Shape, ToolInv, AllProcessesInv, SafeInv, [Next]_vars
  PROVE  SafeInv'
<1>1. ASSUME NEW detach \in BOOLEAN, Launch(detach) PROVE SafeInv'
  <2>1. DOMAIN procs' = {1} /\ procs'[1].path = <<>>
    BY <1>1, LaunchIs DEF StartsAs
  <2>2. Opened' = {}
    BY <2>1 DEF Opened
  <2> QED BY <2>2 DEF SafeInv
<1>2. ASSUME UNCHANGED <<setting, files, run, tool>>, DOMAIN procs \subseteq DOMAIN procs',
             \A j \in DOMAIN procs : StaysAs(j),
             \A j \in DOMAIN procs' : procs'[j].path # <<>> => j \in DOMAIN procs
      PROVE  SafeInv'
  <2> SUFFICES ASSUME NEW i \in Opened', HasOwnTrace(i)', ~procs'[i].outlives PROVE Safe(i)'
    BY DEF SafeInv
  <2>1. i \in DOMAIN procs
    BY <1>2 DEF Opened
  <2>2. /\ \A j \in DOMAIN procs :
             /\ procs'[j].pid = procs[j].pid /\ procs'[j].file = procs[j].file
             /\ procs[j].path # <<>> => procs'[j].path # <<>>
        /\ procs'[i].path = procs[i].path /\ procs'[i].linked = procs[i].linked
        /\ procs'[i].lines = procs[i].lines /\ procs'[i].outlives = procs[i].outlives
    BY <1>2, <2>1 DEF StaysAs, Stays
  <2>3. HasOwnTrace(i)
    BY <1>2, <2>1, <2>2, OwnKept
  <2>4. i \in Opened /\ ~procs[i].outlives
    BY <2>1, <2>2 DEF Opened
  <2>5. Safe(i)
    BY <2>3, <2>4 DEF SafeInv
  <2> QED BY <1>2, <2>2, <2>5, SafeKept
<1>3. CASE SpawnChild
  <2>1. PICK n :
          /\ UNCHANGED <<setting, files, run, tool>>
          /\ DOMAIN procs' = DOMAIN procs \cup {n} /\ StartsAs(procs'[n], tool.listed)
          /\ \A j \in DOMAIN procs : procs'[j] = procs[j]
    BY <1>3, SpawnIs
  <2>2. \A j \in DOMAIN procs : StaysAs(j)
    BY <2>1, SameStays
  <2>3. \A j \in DOMAIN procs' : procs'[j].path # <<>> => j \in DOMAIN procs
    BY <2>1 DEF StartsAs
  <2> QED BY <1>2, <2>1, <2>2, <2>3
<1>4. ASSUME NEW i \in DOMAIN procs, End(i) PROVE SafeInv'
  BY <1>2, <1>4, EndIs
<1>5. CASE UNCHANGED vars
  <2>1. UNCHANGED <<setting, files, run, tool>> /\ procs' = procs
    BY <1>5 DEF vars
  <2>2. \A j \in DOMAIN procs : StaysAs(j)
    BY <2>1, SameStays
  <2> QED BY <1>2, <2>1, <2>2
<1> QED BY <1>1, <1>3, <1>4, <1>5, SafeInvMergeTraces, SafeInvMerge, SafeInvDelete,
        SafeInvOpen, SafeInvWrite DEF Next

LEMMA SafeImplies == SafeInv => TracesSafe
<1> SUFFICES ASSUME SafeInv, NEW i \in Opened, HasOwnTrace(i), ~procs[i].outlives
             PROVE  Lines(i) \subseteq OnDisk
  BY DEF TracesSafe
<1>1. Lines(i) \subseteq Held(files, Where(i))
  BY DEF SafeInv, Safe
<1>2. Held(files, Where(i)) \subseteq OnDisk
  BY TraceOnDisk DEF Held
<1> QED BY <1>1, <1>2

(* Whatever is interrupted and whatever an earlier run left: no line of a   *)
(* process that was over when the tool looked for traces is lost, if no     *)
(* other process was given its path (RunCommand.cs 140-175,                 *)
(* NdjsonMerger.cs 38-93).                                                  *)
THEOREM TracesKept == Spec => []TracesSafe
<1>1. Init => TypeInv /\ SafeInv
  <2> SUFFICES ASSUME Init PROVE TypeInv /\ SafeInv
    OBVIOUS
  <2>1. TypeInv /\ procs = <<>>
    BY ToolInvInit DEF TypeInv
  <2>2. Opened = {}
    BY <2>1 DEF Opened
  <2> QED BY <2>1, <2>2 DEF SafeInv
<1>2. TypeInv /\ SafeInv /\ [Next]_vars => (TypeInv /\ SafeInv)'
  BY TypeInvStep, SafeInvStep DEF TypeInv
<1> QED BY <1>1, <1>2, SafeImplies, PTL DEF Spec

-----------------------------------------------------------------------------
(* Every line that is not lost is in the merged trace.                     *)

\* The trace is among those the tool merges; then its lines are merged.
Complete(i) ==
  /\ tool.phase \in {"reading", "writing"} /\ tool.originals # {} =>
       procs[i].path \in tool.originals
  /\ tool.phase \in {"deleting", "done"} => Lines(i) \subseteq Held(files, ComputeMergedPath)

CompleteInv ==
  \A i \in Opened :
    HasOwnTrace(i) /\ ~procs[i].outlives /\ procs[i].file = "parsed" => Complete(i)

\* A step that leaves the merged trace at least the lines it has.
LEMMA CompleteMoved ==
  ASSUME NEW i, run' = run, setting' = setting, procs'[i].lines = procs[i].lines,
         tool'.phase \in {"reading", "writing"} /\ tool'.originals # {} =>
           procs'[i].path \in tool'.originals,
         tool'.phase \in {"deleting", "done"} =>
           Lines(i) \subseteq Held(files', ComputeMergedPath)
  PROVE  Complete(i)'
<1>1. Lines(i)' = Lines(i)
  BY DEF Lines
<1>2. Held(files, ComputeMergedPath)' = Held(files', ComputeMergedPath)
  BY SettingKept DEF Held, BagToSet
<1> HIDE DEF Held, BagToSet, Lines
<1> QED BY <1>1, <1>2 DEF Complete

LEMMA CompleteInvMergeTraces ==
  ASSUME Shape, PidInFileName, ToolInv, AllProcessesInv, SafeInv, MergeTraces
  PROVE  CompleteInv'
<1> DEFINE m == ComputeMergedPath
<1>1. /\ UNCHANGED <<setting, run>> /\ tool.phase = "waiting" /\ DOMAIN procs' = DOMAIN procs
      /\ \A j \in DOMAIN procs : Surveyed(j)
      /\ SeveralFound \/ NoneFound \/ (\E path \in Paths : OneFound(path))
  BY MergeTracesIs
<1>2. m # <<>> /\ Setting
  BY MergedIs DEF Shape
<1>3. \A j \in DOMAIN procs : procs[j].path # <<>> <=> procs'[j].path # <<>>
  <2>1. CASE SeveralFound \/ NoneFound
    BY <2>1 DEF SeveralFound, NoneFound
  <2>2. ASSUME NEW path, OneFound(path)
        PROVE  \A j \in DOMAIN procs : procs[j].path # <<>> <=> procs'[j].path # <<>>
    <3>1. path # <<>>
      BY <2>2, FoundNotEmpty DEF OneFound
    <3>2. \A j \in DOMAIN procs :
            /\ procs[j].path = path => procs'[j].path = m
            /\ procs[j].path # path => procs'[j].path = procs[j].path
      BY <2>2 DEF OneFound
    <3> QED BY <1>2, <3>1, <3>2
  <2> QED BY <1>1, <2>1, <2>2
<1> SUFFICES ASSUME NEW i \in Opened', HasOwnTrace(i)', ~procs'[i].outlives,
                    procs'[i].file = "parsed"
             PROVE  Complete(i)'
  BY DEF CompleteInv
<1>4. /\ i \in DOMAIN procs /\ procs[i].path # <<>> /\ procs[i].file = "parsed"
      /\ procs'[i].linked = procs[i].linked /\ procs'[i].lines = procs[i].lines
  BY <1>1, <1>3 DEF Opened, Surveyed
<1>5. \A j \in DOMAIN procs : procs'[j].pid = procs[j].pid /\ procs'[j].file = procs[j].file
  BY <1>1 DEF Surveyed
<1>6. HasOwnTrace(i)
  BY <1>1, <1>3, <1>4, <1>5, OwnKept
<1>7. ~procs[i].outlives
  BY <1>1, <1>4 DEF AllProcessesInv, ProcessInv, ToolInv
<1>8. Safe(i)
  BY <1>4, <1>6, <1>7 DEF SafeInv, Opened
<1>9. procs[i].linked /\ procs[i].path = OutputPath(i) /\ procs[i].path \in DOMAIN files
  BY <1>1, <1>4, NamesHeld
<1>10. Lines(i) \subseteq Held(files, procs[i].path)
  BY <1>8, <1>9 DEF Safe, Where
<1>11. procs[i].pid \in Pids
  BY <1>4, ProcessesAre DEF Shape
<1>12. ASSUME HasPid PROVE procs[i].path \in FindSessionOutputFiles
  BY <1>2, <1>4, <1>9, <1>11, <1>12, OwnTraceFound
<1>13. CASE SeveralFound
  <2>1. HasPid
    BY <1>2, <1>13, FoundHasPid DEF Shape, SeveralFound
  <2>2. tool'.phase = "reading" /\ procs'[i].path \in tool'.originals
    BY <1>4, <1>12, <1>13, <2>1 DEF SeveralFound
  <2> QED BY <1>1, <1>4, <2>2, CompleteMoved
<1>14. CASE NoneFound
  <2>1. files' = files /\ FindSessionOutputFiles = {} /\ tool'.phase = "done"
    BY <1>14 DEF NoneFound, Over
  <2>2. ~HasPid
    BY <1>12, <2>1
  <2>3. procs[i].path = m
    BY <1>2, <1>4, <1>9, <1>11, <2>2, OutputIs
  <2>4. Lines(i) \subseteq Held(files', m)
    BY <1>10, <2>1, <2>3
  <2> QED BY <1>1, <1>4, <2>1, <2>4, CompleteMoved
<1>15. ASSUME NEW path, OneFound(path) PROVE Complete(i)'
  <2>1. /\ tool'.phase = "done" /\ FindSessionOutputFiles = {path}
        /\ m \in DOMAIN files' /\ files'[m] = files[path]
    BY <1>15 DEF OneFound, Over
  <2>2. HasPid
    BY <1>2, <2>1, FoundHasPid DEF Shape
  <2>3. procs[i].path = path
    BY <1>12, <2>1, <2>2
  <2>4. Lines(i) \subseteq Held(files', m)
    BY <1>9, <1>10, <2>1, <2>3 DEF Held
  <2> QED BY <1>1, <1>4, <2>1, <2>4, CompleteMoved
<1> QED BY <1>1, <1>13, <1>14, <1>15

LEMMA CompleteInvTool ==
  ASSUME Shape, ToolInv, AllProcessesInv, SafeInv, CompleteInv,
         MergeCommand \/ ReadTrace \/ TruncateMerged \/ WriteMerged \/ DeleteTrace \/ Interrupt
  PROVE  CompleteInv'
<1> DEFINE m == ComputeMergedPath
<1>1. tool.unread \subseteq DOMAIN files
  BY DEF ToolInv
<1>2. CASE DeleteTrace
  <2>1. tool.phase = "deleting" /\ tool.unread = {} /\ m \in DOMAIN files
    BY <1>2 DEF DeleteTrace, ToolInv
  <2>2. /\ UNCHANGED <<setting, run>> /\ DOMAIN procs' = DOMAIN procs
        /\ \A j \in DOMAIN procs : Kept(j)
        /\ \E path \in tool.originals :
             /\ Deleted(path) \/ Left
             /\ tool.originals = {path} => Over
             /\ tool.originals # {path} => tool'.phase = "deleting"
    BY <1>2, <2>1, DeleteTraceIs
  <2>3. PICK path \in tool.originals :
             /\ Deleted(path) \/ Left
             /\ tool.originals = {path} => Over
             /\ tool.originals # {path} => tool'.phase = "deleting"
    BY <2>2
  <2>4. path # m
    BY DEF ToolInv
  <2>5. Held(files', m) = Held(files, m)
    BY <2>1, <2>3, <2>4 DEF Deleted, Left, Held
  <2>6. tool'.phase \in {"deleting", "done"}
    BY <2>3 DEF Over
  <2> SUFFICES ASSUME NEW i \in Opened', HasOwnTrace(i)', ~procs'[i].outlives,
                      procs'[i].file = "parsed"
               PROVE  Complete(i)'
    BY DEF CompleteInv
  <2>7. /\ i \in DOMAIN procs /\ procs[i].path # <<>> /\ ~procs[i].outlives
        /\ procs[i].file = "parsed" /\ procs'[i].lines = procs[i].lines
    BY <2>2 DEF Opened, Kept
  <2>8. HasOwnTrace(i)
    BY <2>2, <2>7, OwnKept DEF Kept
  <2>9. Lines(i) \subseteq Held(files, m)
    BY <2>1, <2>7, <2>8 DEF CompleteInv, Complete, Opened
  <2> QED BY <2>2, <2>5, <2>6, <2>7, <2>9, CompleteMoved
<1>3. ASSUME MergeCommand \/ ReadTrace \/ TruncateMerged \/ WriteMerged \/ Interrupt
      PROVE  CompleteInv'
  <2>1. UNCHANGED <<setting, run, procs>>
    <3>1. CASE WriteMerged
      <4>1. m \in DOMAIN files /\ tool.unread = {}
        BY <3>1 DEF WriteMerged, ToolInv
      <4> QED BY <3>1, <4>1, WriteMergedIs
    <3> QED BY <1>1, <1>3, <3>1, MergeCommandIs, ReadTraceIs, TruncateMergedIs, InterruptIs
  <2> SUFFICES ASSUME NEW i \in Opened', HasOwnTrace(i)', ~procs'[i].outlives,
                      procs'[i].file = "parsed"
               PROVE  Complete(i)'
    BY DEF CompleteInv
  <2>2. i \in DOMAIN procs /\ procs[i].path # <<>> /\ ~procs[i].outlives /\ procs[i].file = "parsed"
    BY <2>1 DEF Opened
  <2>3. HasOwnTrace(i)
    BY <2>1, <2>2, OwnKept
  <2>4. Safe(i) /\ Complete(i)
    BY <2>2, <2>3 DEF SafeInv, CompleteInv, Opened
  <2>5. CASE MergeCommand \/ Interrupt
    <3>1. tool'.phase \in {"reading", "failed"} /\ tool'.originals = {}
      BY <2>5, MergeCommandIs, InterruptIs
    <3> QED BY <2>1, <3>1, CompleteMoved
  <2>6. CASE ReadTrace \/ TruncateMerged
    <3>1. /\ tool.phase = "reading" /\ tool'.phase \in {"reading", "writing"}
          /\ tool'.originals = tool.originals
      BY <1>1, <2>6, ReadTraceIs, TruncateMergedIs
    <3>2. tool'.originals # {} => procs'[i].path \in tool'.originals
      BY <2>1, <2>4, <3>1 DEF Complete
    <3> QED BY <2>1, <3>1, <3>2, CompleteMoved
  <2>7. CASE WriteMerged
    <3>1. tool.phase = "writing" /\ m \in DOMAIN files /\ tool.unread = {}
      BY <2>7 DEF WriteMerged, ToolInv
    <3>2. /\ tool.originals = {} => tool'.phase = "detached"
          /\ tool.originals # {} => tool'.phase = "deleting"
          /\ DOMAIN files' = DOMAIN files /\ files'[m] = tool.events
      BY <2>7, <3>1, WriteMergedIs
    <3>3. CASE tool.originals = {}
      BY <2>1, <3>2, <3>3, CompleteMoved
    <3>4. CASE tool.originals # {}
      <4>1. procs[i].path \in tool.originals \ tool.unread
        BY <2>4, <3>1, <3>4 DEF Complete
      <4>2. Lines(i) \subseteq BagToSet(tool.events)
        BY <2>4, <3>1, <4>1 DEF Safe
      <4>3. Held(files', m) = BagToSet(tool.events)
        BY <3>1, <3>2 DEF Held
      <4>4. tool'.phase = "deleting" /\ Lines(i) \subseteq Held(files', m)
        BY <3>2, <3>4, <4>2, <4>3
      <4> QED BY <2>1, <4>4, CompleteMoved
    <3> QED BY <3>3, <3>4
  <2> QED BY <1>3, <2>5, <2>6, <2>7
<1> QED BY <1>2, <1>3

LEMMA CompleteInvOpen ==
  ASSUME Shape, ToolInv, AllProcessesInv, CompleteInv, NEW k \in DOMAIN procs, OpenTrace(k)
  PROVE  CompleteInv'
<1> DEFINE m == ComputeMergedPath
           o == OutputPath(k)
<1>1. /\ UNCHANGED <<setting, run, tool>> /\ DOMAIN procs' = DOMAIN procs
      /\ \A j \in DOMAIN procs \ {k} : procs'[j] = procs[j]
      /\ procs[k].state = "started"
      /\ procs'[k].pid = procs[k].pid /\ procs'[k].file = procs[k].file
      /\ procs'[k].path = o /\ procs'[k].lines = procs[k].lines
      /\ procs'[k].outlives = procs[k].outlives
      /\ DOMAIN files' = DOMAIN files \cup {o}
      /\ \A p \in DOMAIN files : p # o => files'[p] = files[p]
  BY OpenIs
<1>2. Setting /\ procs[k].pid \in Pids
  BY ProcessesAre DEF Shape
<1>3. o # <<>>
  BY <1>2, OutputIs
<1>4. procs[k].path = <<>> /\ procs[k].lines = 0
  BY <1>1 DEF AllProcessesInv, ProcessInv
<1> SUFFICES ASSUME NEW i \in Opened', HasOwnTrace(i)', ~procs'[i].outlives,
                    procs'[i].file = "parsed"
             PROVE  Complete(i)'
  BY DEF CompleteInv
<1>5. i \in DOMAIN procs
  BY <1>1 DEF Opened
<1>6. CASE i = k
  <2>1. Lines(i) = {}
    BY <1>4, <1>6 DEF Lines
  <2>2. procs'[i].lines = procs[i].lines
    BY <1>1, <1>6
  <2>3. ~tool.listed
    BY <1>1, <1>6 DEF AllProcessesInv, ProcessInv
  <2>4. tool'.originals = {}
    BY <1>1, <2>3 DEF ToolInv
  <2> QED BY <1>1, <2>1, <2>2, <2>4, CompleteMoved
<1>7. CASE i # k
  <2>1. procs'[i] = procs[i] /\ procs[i].path # <<>>
    BY <1>1, <1>5, <1>7 DEF Opened
  <2>2. HasOwnTrace(i)
    <3>1. \A j \in DOMAIN procs :
           /\ procs'[j].pid = procs[j].pid /\ procs'[j].file = procs[j].file
           /\ procs[j].path # <<>> => procs'[j].path # <<>>
      BY <1>1, <1>3
    <3> QED BY <1>1, <1>5, <3>1, OwnKept
  <2>3. Complete(i)
    BY <1>5, <2>1, <2>2 DEF CompleteInv, Opened
  <2>4. HasPid
    <3>1. k \in Opened' \ {i}
      BY <1>1, <1>3, <1>7 DEF Opened
    <3>2. PidToken \in Range(template')
      BY <3>1 DEF HasOwnTrace, Range
    <3>3. template' = template
      BY <1>1 DEF template
    <3> QED BY <3>2, <3>3 DEF HasPid
  <2>5. m # o
    BY <1>2, <2>4, OutputIs
  <2>6. Held(files', m) = Held(files, m)
    BY <1>1, <2>5 DEF Held
  <2>7. tool'.phase \in {"deleting", "done"} => Lines(i) \subseteq Held(files', m)
    BY <1>1, <2>3, <2>6 DEF Complete
  <2>8. tool'.phase \in {"reading", "writing"} /\ tool'.originals # {} =>
          procs'[i].path \in tool'.originals
    BY <1>1, <2>1, <2>3 DEF Complete
  <2> QED BY <1>1, <2>1, <2>7, <2>8, CompleteMoved
<1> QED BY <1>6, <1>7

LEMMA CompleteInvWrite ==
  ASSUME Shape, ToolInv, AllProcessesInv, CompleteInv, NEW k \in DOMAIN procs, WriteLine(k)
  PROVE  CompleteInv'
<1> DEFINE m == ComputeMergedPath
<1>1. /\ UNCHANGED <<setting, run, tool>> /\ DOMAIN procs' = DOMAIN procs
      /\ \A j \in DOMAIN procs \ {k} : procs'[j] = procs[j]
      /\ procs[k].state = "writing"
      /\ procs'[k].pid = procs[k].pid /\ procs'[k].file = procs[k].file
      /\ procs'[k].path = procs[k].path
      /\ procs'[k].outlives = procs[k].outlives
      /\ DOMAIN files' = DOMAIN files
      /\ \A p \in DOMAIN files : ~(procs[k].linked /\ p = procs[k].path) => files'[p] = files[p]
      /\ \A p \in DOMAIN files : procs[k].linked /\ p = procs[k].path =>
           BagToSet(files'[p]) = BagToSet(files[p]) \cup {NewLine(k)}
  BY WriteLineIs
<1>2. Held(files, m) \subseteq Held(files', m)
  BY <1>1 DEF Held
<1> SUFFICES ASSUME NEW i \in Opened', HasOwnTrace(i)', ~procs'[i].outlives,
                    procs'[i].file = "parsed"
             PROVE  Complete(i)'
  BY DEF CompleteInv
<1>3. /\ i \in DOMAIN procs /\ procs[i].path # <<>> /\ ~procs[i].outlives
      /\ procs[i].file = "parsed" /\ procs'[i].path = procs[i].path
  BY <1>1 DEF Opened
<1>4. HasOwnTrace(i)
  <2>1. \A j \in DOMAIN procs :
         /\ procs'[j].pid = procs[j].pid /\ procs'[j].file = procs[j].file
         /\ procs[j].path # <<>> => procs'[j].path # <<>>
    BY <1>1
  <2> QED BY <1>1, <1>3, <2>1, OwnKept
<1>5. Complete(i)
  BY <1>3, <1>4 DEF CompleteInv, Opened
<1>6. CASE i # k
  <2>1. procs'[i].lines = procs[i].lines
    BY <1>1, <1>3, <1>6
  <2>2. tool'.phase \in {"deleting", "done"} => Lines(i) \subseteq Held(files', m)
    BY <1>1, <1>2, <1>5 DEF Complete
  <2>3. tool'.phase \in {"reading", "writing"} /\ tool'.originals # {} =>
          procs'[i].path \in tool'.originals
    BY <1>1, <1>3, <1>5 DEF Complete
  <2> QED BY <1>1, <2>1, <2>2, <2>3, CompleteMoved
<1>7. CASE i = k
  <2>1. ~tool.listed
    BY <1>1, <1>3, <1>7 DEF AllProcessesInv, ProcessInv
  <2>2. tool'.originals = {} /\ tool'.phase \notin {"deleting", "done"}
    BY <1>1, <2>1 DEF ToolInv
  <2> QED BY <2>2 DEF Complete
<1> QED BY <1>6, <1>7

LEMMA CompleteInvStep ==
  ASSUME Shape, PidInFileName, ToolInv, AllProcessesInv, SafeInv, CompleteInv, [Next]_vars
  PROVE  CompleteInv'
<1>1. ASSUME NEW detach \in BOOLEAN, Launch(detach) PROVE CompleteInv'
  <2>1. DOMAIN procs' = {1} /\ procs'[1].path = <<>>
    BY <1>1, LaunchIs DEF StartsAs
  <2>2. Opened' = {}
    BY <2>1 DEF Opened
  <2> QED BY <2>2 DEF CompleteInv
<1>2. ASSUME UNCHANGED <<setting, files, run, tool>>, DOMAIN procs \subseteq DOMAIN procs',
             \A j \in DOMAIN procs : StaysAs(j),
             \A j \in DOMAIN procs' : procs'[j].path # <<>> => j \in DOMAIN procs
      PROVE  CompleteInv'
  <2> SUFFICES ASSUME NEW i \in Opened', HasOwnTrace(i)', ~procs'[i].outlives,
                      procs'[i].file = "parsed"
               PROVE  Complete(i)'
    BY DEF CompleteInv
  <2>1. i \in DOMAIN procs
    BY <1>2 DEF Opened
  <2>2. /\ \A j \in DOMAIN procs :
             /\ procs'[j].pid = procs[j].pid /\ procs'[j].file = procs[j].file
             /\ procs[j].path # <<>> => procs'[j].path # <<>>
        /\ procs'[i].path = procs[i].path /\ procs'[i].lines = procs[i].lines
        /\ procs'[i].outlives = procs[i].outlives /\ procs'[i].file = procs[i].file
    BY <1>2, <2>1 DEF StaysAs, Stays
  <2>3. HasOwnTrace(i)
    BY <1>2, <2>1, <2>2, OwnKept
  <2>4. i \in Opened /\ ~procs[i].outlives /\ procs[i].file = "parsed"
    BY <2>1, <2>2 DEF Opened
  <2>5. Complete(i)
    BY <2>3, <2>4 DEF CompleteInv
  <2>6. tool'.phase \in {"deleting", "done"} =>
          Lines(i) \subseteq Held(files', ComputeMergedPath)
    BY <1>2, <2>5 DEF Complete
  <2>7. tool'.phase \in {"reading", "writing"} /\ tool'.originals # {} =>
          procs'[i].path \in tool'.originals
    BY <1>2, <2>2, <2>5 DEF Complete
  <2> QED BY <1>2, <2>2, <2>6, <2>7, CompleteMoved
<1>3. CASE SpawnChild
  <2>1. PICK n :
          /\ UNCHANGED <<setting, files, run, tool>>
          /\ DOMAIN procs' = DOMAIN procs \cup {n} /\ StartsAs(procs'[n], tool.listed)
          /\ \A j \in DOMAIN procs : procs'[j] = procs[j]
    BY <1>3, SpawnIs
  <2>2. \A j \in DOMAIN procs : StaysAs(j)
    BY <2>1, SameStays
  <2>3. \A j \in DOMAIN procs' : procs'[j].path # <<>> => j \in DOMAIN procs
    BY <2>1 DEF StartsAs
  <2> QED BY <1>2, <2>1, <2>2, <2>3
<1>4. ASSUME NEW i \in DOMAIN procs, End(i) PROVE CompleteInv'
  BY <1>2, <1>4, EndIs
<1>5. CASE UNCHANGED vars
  <2>1. UNCHANGED <<setting, files, run, tool>> /\ procs' = procs
    BY <1>5 DEF vars
  <2>2. \A j \in DOMAIN procs : StaysAs(j)
    BY <2>1, SameStays
  <2> QED BY <1>2, <2>1, <2>2
<1> QED BY <1>1, <1>3, <1>4, <1>5, CompleteInvMergeTraces, CompleteInvTool, CompleteInvOpen,
        CompleteInvWrite DEF Next

LEMMA SettingStays ==
  ASSUME [Next]_vars
  PROVE  setting' = setting /\ PidInFileName' = PidInFileName
<1>1. setting' = setting
  BY DEF Next, vars, Launch, MergeCommand, MergeTraces, ReadTrace, TruncateMerged, WriteMerged,
         DeleteTrace, Interrupt, SpawnChild, OpenTrace, WriteLine, End
<1> QED BY <1>1 DEF PidInFileName, template

(* A run that was not interrupted has all its ended processes' lines in the *)
(* one merged trace, if their traces are theirs alone and {pid} is in the   *)
(* name of the file: the names that the profiler gives the traces are those *)
(* the tool looks for, and what is deleted has been merged                  *)
(* (ConfigReader.cpp 11-33 and 159-161, NdjsonMerger.cs 38-93,              *)
(* RunCommand.cs 140-175).                                                  *)
THEOREM MergeComplete == Spec => []MergedComplete
<1> DEFINE Inv == TypeInv /\ SafeInv /\ (PidInFileName => CompleteInv)
<1>1. Init => Inv
  <2> SUFFICES ASSUME Init PROVE Inv
    OBVIOUS
  <2>1. TypeInv /\ procs = <<>>
    BY ToolInvInit DEF TypeInv
  <2>2. Opened = {}
    BY <2>1 DEF Opened
  <2> QED BY <2>1, <2>2 DEF SafeInv, CompleteInv
<1>2. Inv /\ [Next]_vars => Inv'
  <2> SUFFICES ASSUME Inv, [Next]_vars PROVE Inv'
    OBVIOUS
  <2>1. TypeInv' /\ SafeInv'
    BY TypeInvStep, SafeInvStep DEF TypeInv
  <2>2. ASSUME PidInFileName' PROVE CompleteInv'
    BY <2>2, SettingStays, CompleteInvStep DEF TypeInv
  <2> QED BY <2>1, <2>2
<1>3. Inv => MergedComplete
  BY DEF PidInFileName, CompleteInv, Complete, Held, MergedComplete
<1> QED BY <1>1, <1>2, <1>3, PTL DEF Spec
=============================================================================
