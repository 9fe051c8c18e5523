---------------------------- MODULE MCMethodCache ----------------------------
(***************************************************************************)
(* Small instances of MethodCache: an ordinary method, an async method's   *)
(* state machine (a nested class: no namespace of its own) and a method    *)
(* of a generated class in another assembly.                               *)
(***************************************************************************)
EXTENDS MethodCache

CONSTANTS t1, t2, f1, f2

MCThreads == {t1, t2}
MCFunctions == {f1, f2}

Method(assembly, namespace, class, method, author) ==
  [assembly |-> assembly, namespace |-> namespace, class |-> class, method |-> method,
   author |-> author]

Plain == Method(<<"App", ".", "Core">>, <<"App", ".", "Core">>, <<"Cart">>, <<"Add">>, <<"Add">>)
Async == Method(<<"App", ".", "Core">>, <<>>, <<"<", "Pay", ">", "d__", "1">>, MoveNext, <<"Pay">>)
Generated ==
  Method(<<"Lib">>, <<"Lib">>, <<"My", "Generated", "Api">>, <<"Get">>, <<"Get">>)

MCIdentities == {Plain, Async}
MCAllIdentities == {Plain, Async, Generated}

Rule(level, pattern) == [level |-> level, pattern |-> pattern]
MCFilters ==
  {[includes |-> {}, excludes |-> {}],
   [includes |-> {Rule("assembly", <<"App", "*">>)},
    excludes |-> {Rule("assembly", <<"App">>), Rule("method", <<"Add">>)}],
   [includes |-> {Rule("namespace", <<"*", ".", "Core">>), Rule("class", <<"<", "*">>)},
    excludes |-> {Rule("klass", <<"*">>)}]}
MCDocumentedFilters ==
  {[includes |-> {}, excludes |-> {Rule("class", <<"*", "Generated", "*">>)}]}

MCFailures == {"none", "function", "type"}
MCNoFailures == {"none"}
Symmetry == Permutations(MCThreads) \cup Permutations(MCFunctions)
=============================================================================
