----------------------------- MODULE MethodCache -----------------------------
(***************************************************************************)
(* MethodCache.cpp under concurrent callbacks: JITCompilationStarted fills *)
(* the cache, FunctionMapper fills and asks it, and the enter, leave and   *)
(* unwind callbacks look functions up.                                     *)
(*                                                                         *)
(* The CLR is external: threads compile functions (several may compile one *)
(* at the same time), run them, and code may be unloaded and its FunctionID*)
(* given to other code.  Its metadata calls may fail.                      *)
(***************************************************************************)
EXTENDS MethodFilters

CONSTANTS
  Threads,
  Functions,     \* FunctionIDs
  Identities,    \* the methods of the program, by the names their author wrote
  NoFunction,
  NoInfo,        \* the cache has no entry
  Filters,       \* configurations [includes, excludes] to choose from
  Failures,      \* metadata calls that may fail, a subset of FailureKinds
  MaxDepth,      \* bound: activations per thread
  MaxUnloads     \* bound: how often code is unloaded

\* "function": GetFunctionInfo or the module's metadata; "method": without the
\* method's properties the type is unknown too; "type"; "module": its name.
FailureKinds == {"none", "function", "method", "type", "module"}

ASSUME MethodCacheAssumption ==
  /\ NoFunction \notin Functions
  /\ Failures \subseteq FailureKinds /\ "none" \in Failures
  /\ MaxDepth \in Nat /\ MaxUnloads \in Nat

ASSUME NamesAssumption ==
  /\ \A id \in Identities : WellNamed(id)
  /\ \A rules \in Filters : \A rule \in rules.includes \cup rules.excludes :
       rule.pattern \in Seq(STRING)

VARIABLES
  filters,   \* ProfilerConfig's rules
  cache,     \* m_cache: FunctionID -> MethodInfo, NoInfo when absent
  call,      \* what each thread does inside ResolveAndCache or ShouldHook
  code,      \* CLR: the method a FunctionID stands for
  hooked,    \* CLR: FunctionMapper's answer for the function's code
  frames,    \* CLR: each thread's activations [f, depth], depth being the shadow's
             \* at entry, as EnterStub reads it
  shadow,    \* each thread's shadow stack: FunctionIDs
  unloads    \* how often code was unloaded

vars == <<filters, cache, call, code, hooked, frames, shadow, unloads>>
runtimeVars == <<code, hooked, frames, shadow, unloads>>

NoCall == [pc |-> "idle", f |-> NoFunction, kind |-> "jit", info |-> NoInfo]

-----------------------------------------------------------------------------
(* ResolveAndCache: the names of a method, and the decision about it.      *)

ResolvedNames(id, failed) ==
  [assembly  |-> IF failed = "module" THEN <<>> ELSE AssemblyOf(ModulePath(id)),
   namespace |-> IF failed \in {"method", "type"} THEN <<>> ELSE NamespaceOf(TypeName(id)),
   class     |-> IF failed \in {"method", "type"} THEN <<>> ELSE ClassOf(TypeName(id)),
   method    |-> IF failed = "method" THEN <<>> ELSE id.method]

NoNames == [level \in Levels |-> <<>>]

\* `of' and `failed' are history: which method was resolved, and what failed.
Resolved(rules, id, failed) ==
  IF failed = "function"
  THEN [names |-> NoNames, isIncluded |-> FALSE, isAsync |-> FALSE, original |-> <<>>,
        of |-> id, failed |-> failed]
  ELSE LET names == ResolvedNames(id, failed)
           async == IsAsyncStateMachine(names.class, names.method)
       IN  [names |-> names,
            isIncluded |-> EvaluateFilters(rules, names),
            isAsync |-> async,
            original |-> IF async THEN ExtractOriginalMethodName(names.class) ELSE <<>>,
            of |-> id, failed |-> failed]

\* The entries that resolution can make.
MethodInfos ==
  {Resolved(rules, id, failed) : rules \in Filters, id \in Identities, failed \in Failures}

ASSUME NoInfoAssumption == NoInfo \notin MethodInfos

\* MethodInfo::GetDisplayName.
DisplayName(info) ==
  IF info.isAsync /\ info.original # <<>> THEN info.original ELSE info.names.method

\* Lookup: what the callbacks act on.
Included(f) == IF cache[f] = NoInfo THEN FALSE ELSE cache[f].isIncluded

\* After ResolveAndCache, ShouldHook goes on to look the function up.
AfterResolve(c) == IF c.kind = "map" THEN [c EXCEPT !.pc = "lookup", !.info = NoInfo] ELSE NoCall

\* The CLR reports the compilation of f, then asks about its hooks.  The fast
\* path, under the shared lock.
Begin(t, f, kind) ==
  /\ call[t].pc = "idle" /\ hooked[f] = "unasked"
  /\ LET c == [pc |-> "resolve", f |-> f, kind |-> kind, info |-> NoInfo]
     IN  call' = [call EXCEPT ![t] = IF cache[f] # NoInfo THEN AfterResolve(c) ELSE c]
  /\ UNCHANGED <<filters, cache, runtimeVars>>

\* The metadata calls, outside the lock.
Resolve(t) ==
  /\ call[t].pc = "resolve"
  /\ \E failed \in Failures :
       call' = [call EXCEPT ![t] =
                  [@ EXCEPT !.pc = "insert", !.info = Resolved(filters, code[call[t].f], failed)]]
  /\ UNCHANGED <<filters, cache, runtimeVars>>

\* Mutation: the later thread's entry replaces the earlier one's.
InsertOverwrites(t) ==
  /\ call[t].pc = "insert"
  /\ cache' = [cache EXCEPT ![call[t].f] = call[t].info]
  /\ call' = [call EXCEPT ![t] = AfterResolve(@)]
  /\ UNCHANGED <<filters, runtimeVars>>

\* Mutation: a method whose metadata could not be read gets no entry.
InsertSkipsFailed(t) ==
  /\ call[t].pc = "insert"
  /\ cache' = [cache EXCEPT ![call[t].f] =
                 IF @ = NoInfo /\ call[t].info.failed # "function" THEN call[t].info ELSE @]
  /\ call' = [call EXCEPT ![t] = AfterResolve(@)]
  /\ UNCHANGED <<filters, runtimeVars>>

\* try_emplace under the exclusive lock: the first thread's entry stays.
Insert(t) ==
  /\ call[t].pc = "insert"
  /\ cache' = [cache EXCEPT ![call[t].f] = IF @ = NoInfo THEN call[t].info ELSE @]
  /\ call' = [call EXCEPT ![t] = AfterResolve(@)]
  /\ UNCHANGED <<filters, runtimeVars>>

\* ShouldHook's Lookup and FunctionMapper's answer to the CLR.
Answer(t) ==
  /\ call[t].pc = "lookup"
  /\ hooked' = [hooked EXCEPT ![call[t].f] = IF Included(call[t].f) THEN "yes" ELSE "no"]
  /\ call' = [call EXCEPT ![t] = NoCall]
  /\ UNCHANGED <<filters, cache, code, frames, shadow, unloads>>

-----------------------------------------------------------------------------
(* Running code: the callbacks' lookups.                                   *)

PopShadow(t) == [shadow EXCEPT ![t] = IF @ = <<>> THEN @ ELSE Front(@)]

\* The enter hook is there only if the mapper said so; EnterStub looks again.
Enter(t, f) ==
  /\ call[t].pc = "idle" /\ hooked[f] # "unasked"
  /\ Len(frames[t]) < MaxDepth
  /\ frames' = [frames EXCEPT ![t] = Append(@, [f |-> f, depth |-> Len(shadow[t])])]
  /\ shadow' = IF hooked[f] = "yes" /\ Included(f)
               THEN [shadow EXCEPT ![t] = Append(@, f)] ELSE shadow
  /\ UNCHANGED <<filters, cache, call, code, hooked, unloads>>

Leave(t) ==
  /\ call[t].pc = "idle" /\ frames[t] # <<>>
  /\ frames' = [frames EXCEPT ![t] = Front(@)]
  /\ shadow' = IF hooked[Last(frames[t]).f] = "yes" /\ Included(Last(frames[t]).f)
               THEN PopShadow(t) ELSE shadow
  /\ UNCHANGED <<filters, cache, call, code, hooked, unloads>>

\* Mutation: an unwound frame is popped whatever the filters said.
UnwindPopsAll(t) ==
  /\ call[t].pc = "idle" /\ frames[t] # <<>>
  /\ frames' = [frames EXCEPT ![t] = Front(@)]
  /\ shadow' = PopShadow(t)
  /\ UNCHANGED <<filters, cache, call, code, hooked, unloads>>

\* The CLR reports the unwinding of every frame, hooked or not.
Unwind(t) ==
  /\ call[t].pc = "idle" /\ frames[t] # <<>>
  /\ frames' = [frames EXCEPT ![t] = Front(@)]
  /\ shadow' = IF Included(Last(frames[t]).f) THEN PopShadow(t) ELSE shadow
  /\ UNCHANGED <<filters, cache, call, code, hooked, unloads>>

\* Code nobody runs or compiles is unloaded and its FunctionID is used again:
\* FunctionUnloadStarted does nothing in the profiler.
Unload(f, id) ==
  /\ unloads < MaxUnloads
  /\ \A t \in Threads : call[t].f # f /\ \A i \in DOMAIN frames[t] : frames[t][i].f # f
  /\ code' = [code EXCEPT ![f] = id]
  /\ hooked' = [hooked EXCEPT ![f] = "unasked"]
  /\ unloads' = unloads + 1
  /\ UNCHANGED <<filters, cache, call, frames, shadow>>

-----------------------------------------------------------------------------
Init ==
  /\ filters \in Filters
  /\ cache = [f \in Functions |-> NoInfo]
  /\ call = [t \in Threads |-> NoCall]
  /\ code \in [Functions -> Identities]
  /\ hooked = [f \in Functions |-> "unasked"]
  /\ frames = [t \in Threads |-> <<>>]
  /\ shadow = [t \in Threads |-> <<>>]
  /\ unloads = 0

Next ==
  \/ \E t \in Threads, f \in Functions, kind \in {"jit", "map"} : Begin(t, f, kind)
  \/ \E t \in Threads : Resolve(t)
  \/ \E t \in Threads : Insert(t)
  \/ \E t \in Threads : Answer(t)
  \/ \E t \in Threads, f \in Functions : Enter(t, f)
  \/ \E t \in Threads : Leave(t)
  \/ \E t \in Threads : Unwind(t)
  \/ \E f \in Functions, id \in Identities : Unload(f, id)

Spec == Init /\ [][Next]_vars

-----------------------------------------------------------------------------
(* Properties.                                                             *)

(* Type invariant; also, a call past its resolution holds an entry to       *)
(* insert, and a thread about to answer finds one in the cache, so that     *)
(* ShouldHook's null check never decides.                                   *)
TypeOK ==
  /\ filters \in Filters
  /\ cache \in [Functions -> MethodInfos \cup {NoInfo}]
  /\ code \in [Functions -> Identities]
  /\ hooked \in [Functions -> {"unasked", "yes", "no"}]
  /\ frames \in [Threads -> Seq([f : Functions, depth : Nat])]
  /\ shadow \in [Threads -> Seq(Functions)]
  /\ unloads \in 0..MaxUnloads
  /\ call \in [Threads -> [pc : {"idle", "resolve", "insert", "lookup"},
                           f : Functions \cup {NoFunction},
                           kind : {"jit", "map"},
                           info : MethodInfos \cup {NoInfo}]]
  /\ \A t \in Threads :
       /\ call[t].pc # "idle" => call[t].f \in Functions
       /\ call[t].pc = "insert" => call[t].info # NoInfo
       /\ call[t].pc = "lookup" => cache[call[t].f] # NoInfo

\* The shadow's depth when activation i was entered, or now.
DepthAt(t, i) == IF i \in DOMAIN frames[t] THEN frames[t][i].depth ELSE Len(shadow[t])

(* A shadow stack holds exactly the hooked activations, in order, and a     *)
(* call leaves at the depth it was entered at: what enter pushed, leave or  *)
(* unwind pops, although two threads may have resolved the function         *)
(* differently and code may have taken over the FunctionID of unloaded code *)
(* (EnterStub, ProcessLeave, ExceptionUnwindFunctionEnter over Lookup).     *)
ShadowAligned ==
  \A t \in Threads :
    /\ DepthAt(t, 1) = 0
    /\ \A i \in DOMAIN frames[t] :
         LET f == frames[t][i].f
         IN  IF hooked[f] = "yes"
             THEN /\ DepthAt(t, i + 1) = DepthAt(t, i) + 1
                  /\ shadow[t][DepthAt(t, i) + 1] = f
             ELSE DepthAt(t, i + 1) = DepthAt(t, i)

\* Entries whose metadata calls all succeeded.
Complete(f) == cache[f] # NoInfo /\ cache[f].failed = "none"

SimpleFilters ==
  \A rule \in filters.includes \cup filters.excludes : SimplePattern(rule.pattern)

(* A complete entry's decision is the documented one about the method it was *)
(* made for, when no pattern has a wildcard elsewhere than SimpleGlobMatch's *)
(* comments allow: parsing names out of paths and type names and matching    *)
(* them gives what matching the author's names against globs would.          *)
DecisionExact ==
  SimpleFilters =>
    \A f \in Functions :
      Complete(f) => (cache[f].isIncluded <=> DocumentedDecision(filters, cache[f].of))

(* A complete entry has the names its author gave the method, and an async   *)
(* method is shown by its own name, not by its state machine's.              *)
NamesExact ==
  \A f \in Functions :
    Complete(f) =>
      /\ \A level \in Levels : cache[f].names[level] = cache[f].of[level]
      /\ DisplayName(cache[f]) = cache[f].of.author

(* Tool/README.md 184 and 198: filter rules support wildcards (`*'), as in   *)
(* --class "*Generated*".                                                    *)
WildcardsDocumented ==
  \A f \in Functions :
    Complete(f) => (cache[f].isIncluded <=> DocumentedDecision(filters, cache[f].of))

\* The cache is a map of decisions that are taken once.
Decisions ==
  INSTANCE MethodDecisions WITH
    FunctionIDs <- Functions,
    Undecided <- NoInfo,
    Info <- MethodInfos,
    decision <- cache

(* ResolveAndCache implements the write-once map: whatever the interleaving, *)
(* an entry that was looked up is never replaced.                            *)
ImplementsDecisions == Decisions!Spec
=============================================================================
