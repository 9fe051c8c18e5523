-------------------------- MODULE MethodCacheProofs --------------------------
(***************************************************************************)
(* Theorems about MethodCache, for any threads, functions, methods, filter *)
(* rules and metadata failures.                                            *)
(***************************************************************************)
EXTENDS MethodCache, FiniteSetTheorems, SequenceTheorems, TLAPS

-----------------------------------------------------------------------------
(* Entries and stacks.                                                     *)

\* Every entry carries a decision.
LEMMA DecisionIsBoolean ==
  ASSUME NEW info \in MethodInfos
  PROVE  info.isIncluded \in BOOLEAN
<1>1. PICK rules \in Filters, id \in Identities, failed \in Failures :
        info = Resolved(rules, id, failed)
  BY DEF MethodInfos
<1>2. \A names : EvaluateFilters(rules, names) \in BOOLEAN
  BY DEF EvaluateFilters
<1>3. CASE failed = "function"
  BY <1>1, <1>3 DEF Resolved
<1>4. CASE failed # "function"
  BY <1>1, <1>2, <1>4 DEF Resolved
<1> QED BY <1>3, <1>4

\* Dropping the last element keeps the others.
LEMMA FrontElements ==
  ASSUME NEW S, NEW s \in Seq(S), s # <<>>
  PROVE  /\ Front(s) \in Seq(S)
         /\ Len(Front(s)) = Len(s) - 1
         /\ Len(s) \in Nat \ {0}
         /\ Last(s) \in S
         /\ Last(s) = s[Len(s)]
         /\ \A i \in 1..Len(s) - 1 : Front(s)[i] = s[i]
<1>1. Len(s) \in Nat /\ Len(s) # 0 /\ DOMAIN s = 1..Len(s)
  OBVIOUS
<1>2. Len(s) \in 1..Len(s) /\ Last(s) = s[Len(s)]
  BY <1>1 DEF Last
<1>3. Last(s) \in S
  BY <1>1, <1>2
<1>4. /\ Front(s) \in Seq(S)
      /\ Len(Front(s)) = Len(s) - 1
      /\ \A i \in 1..Len(s) - 1 : Front(s)[i] = s[i]
  BY <1>1 DEF Front
<1> QED BY <1>1, <1>2, <1>3, <1>4

-----------------------------------------------------------------------------
(* Type correctness.                                                       *)

LEMMA TypeInit == Init => TypeOK
<1> SUFFICES ASSUME Init PROVE TypeOK
  OBVIOUS
<1> QED BY MethodCacheAssumption DEF Init, TypeOK, NoCall

LEMMA TypeStep == TypeOK /\ [Next]_vars => TypeOK'
<1> SUFFICES ASSUME TypeOK, [Next]_vars PROVE TypeOK'
  OBVIOUS
<1> USE MethodCacheAssumption, NoInfoAssumption
<1>1. ASSUME NEW t \in Threads, NEW f \in Functions, NEW kind \in {"jit", "map"},
             Begin(t, f, kind)
      PROVE  TypeOK'
  BY <1>1 DEF TypeOK, Begin, AfterResolve, NoCall, runtimeVars
<1>2. ASSUME NEW t \in Threads, Resolve(t) PROVE TypeOK'
  <2>1. PICK failed \in Failures :
          call' = [call EXCEPT ![t] =
                     [call[t] EXCEPT !.pc = "insert",
                                     !.info = Resolved(filters, code[call[t].f], failed)]]
    BY <1>2 DEF Resolve
  <2> DEFINE info == Resolved(filters, code[call[t].f], failed)
  <2>2. info \in MethodInfos
    <3>1. filters \in Filters /\ code[call[t].f] \in Identities
      BY <1>2 DEF TypeOK, Resolve
    <3> QED BY <3>1 DEF MethodInfos
  <2>3. call' = [call EXCEPT ![t] = [call[t] EXCEPT !.pc = "insert", !.info = info]]
    BY <2>1
  <2>4. UNCHANGED <<filters, cache, code, hooked, frames, shadow, unloads>>
    BY <1>2 DEF Resolve, runtimeVars
  <2>5. call[t].f \in Functions
    BY <1>2 DEF TypeOK, Resolve
  <2> HIDE DEF info
  <2> QED BY <2>2, <2>3, <2>4, <2>5 DEF TypeOK
<1>3. ASSUME NEW t \in Threads, Insert(t) PROVE TypeOK'
  <2>1. UNCHANGED <<filters, code, hooked, frames, shadow, unloads>>
    BY <1>3 DEF Insert, runtimeVars
  <2>2. /\ call[t].f \in Functions /\ call[t].info \in MethodInfos
    BY <1>3 DEF TypeOK, Insert
  <2>3. /\ cache' \in [Functions -> MethodInfos \cup {NoInfo}]
        /\ cache'[call[t].f] # NoInfo
        /\ \A f \in Functions : cache[f] # NoInfo => cache'[f] # NoInfo
    BY <1>3, <2>2 DEF TypeOK, Insert
  <2>4. call' = [call EXCEPT ![t] = AfterResolve(call[t])]
    BY <1>3 DEF Insert
  <2>5. /\ AfterResolve(call[t]) \in [pc : {"idle", "resolve", "insert", "lookup"},
                                      f : Functions \cup {NoFunction},
                                      kind : {"jit", "map"},
                                      info : MethodInfos \cup {NoInfo}]
        /\ AfterResolve(call[t]).pc \in {"idle", "lookup"}
        /\ AfterResolve(call[t]).pc = "lookup" => AfterResolve(call[t]).f = call[t].f
    <3>1. call[t] \in [pc : {"idle", "resolve", "insert", "lookup"},
                      f : Functions \cup {NoFunction},
                      kind : {"jit", "map"},
                      info : MethodInfos \cup {NoInfo}]
      BY DEF TypeOK
    <3> QED BY <3>1 DEF AfterResolve, NoCall
  <2> QED BY <2>1, <2>2, <2>3, <2>4, <2>5 DEF TypeOK
<1>4. ASSUME NEW t \in Threads, Answer(t) PROVE TypeOK'
  <2>1. /\ call' = [call EXCEPT ![t] = NoCall]
        /\ hooked' \in [Functions -> {"unasked", "yes", "no"}]
        /\ UNCHANGED <<filters, cache, code, frames, shadow, unloads>>
    BY <1>4 DEF TypeOK, Answer
  <2> QED BY <2>1 DEF TypeOK, NoCall
<1>5. ASSUME NEW t \in Threads, NEW f \in Functions, Enter(t, f) PROVE TypeOK'
  <2>1. frames[t] \in Seq([f : Functions, depth : Nat]) /\ shadow[t] \in Seq(Functions)
    BY DEF TypeOK
  <2>2. [f |-> f, depth |-> Len(shadow[t])] \in [f : Functions, depth : Nat]
    BY <2>1
  <2>3. /\ Append(frames[t], [f |-> f, depth |-> Len(shadow[t])]) \in Seq([f : Functions, depth : Nat])
        /\ Append(shadow[t], f) \in Seq(Functions)
    BY <2>1, <2>2
  <2>4. frames' = [frames EXCEPT ![t] = Append(frames[t], [f |-> f, depth |-> Len(shadow[t])])]
    BY <1>5 DEF Enter
  <2>5. \/ shadow' = [shadow EXCEPT ![t] = Append(shadow[t], f)]
        \/ shadow' = shadow
    BY <1>5 DEF Enter
  <2>6. UNCHANGED <<filters, cache, call, code, hooked, unloads>>
    BY <1>5 DEF Enter
  <2> QED BY <2>3, <2>4, <2>5, <2>6 DEF TypeOK
<1>6. ASSUME NEW t \in Threads, Leave(t) PROVE TypeOK'
  BY <1>6, FrontElements DEF TypeOK, Leave, PopShadow
<1>7. ASSUME NEW t \in Threads, Unwind(t) PROVE TypeOK'
  BY <1>7, FrontElements DEF TypeOK, Unwind, PopShadow
<1>8. ASSUME NEW f \in Functions, NEW id \in Identities, Unload(f, id) PROVE TypeOK'
  BY <1>8 DEF TypeOK, Unload
<1>9. CASE UNCHANGED vars
  BY <1>9 DEF TypeOK, vars
<1> QED BY <1>1, <1>2, <1>3, <1>4, <1>5, <1>6, <1>7, <1>8, <1>9 DEF Next

\* Entries and stacks stay well formed, and the mapper answers from an entry.
THEOREM TypeInvariant == Spec => []TypeOK
BY TypeInit, TypeStep, PTL DEF Spec

-----------------------------------------------------------------------------
(* The write-once map.                                                     *)

\* Only Insert touches the cache, and it touches only a missing entry.
THEOREM RefinesDecisions == Spec => ImplementsDecisions
<1>1. Init => Decisions!Init
  BY DEF Init, Decisions!Init
<1>2. TypeOK /\ [Next]_vars => [Decisions!Next]_cache
  <2> SUFFICES ASSUME TypeOK, [Next]_vars, cache' # cache
               PROVE  Decisions!Next
    OBVIOUS
  <2>1. PICK t \in Threads : Insert(t)
    BY DEF Next, vars, runtimeVars, Begin, Resolve, Answer, Enter, Leave, Unwind, Unload
  <2>2. /\ call[t].f \in Functions
        /\ call[t].info \in MethodInfos
        /\ cache \in [Functions -> MethodInfos \cup {NoInfo}]
    BY <2>1 DEF TypeOK, Insert
  <2>3. cache' = [cache EXCEPT ![call[t].f] =
                    IF cache[call[t].f] = NoInfo THEN call[t].info ELSE cache[call[t].f]]
    BY <2>1 DEF Insert
  <2>4. cache[call[t].f] = NoInfo
    BY <2>2, <2>3
  <2>5. Decisions!Decide(call[t].f)
    BY <2>2, <2>3, <2>4 DEF Decisions!Decide
  <2> QED BY <2>2, <2>5 DEF Decisions!Next
<1> QED BY <1>1, <1>2, TypeInvariant, PTL DEF Spec, ImplementsDecisions, Decisions!Spec

-----------------------------------------------------------------------------
(* The shadow stacks.                                                      *)

\* The mapper answered according to the entry that every lookup still finds.
HookInv ==
  \A f \in Functions :
    hooked[f] # "unasked" =>
      /\ cache[f] # NoInfo
      /\ hooked[f] = "yes" <=> cache[f].isIncluded

\* Code runs only after the mapper was asked about it.
RunInv ==
  \A t \in Threads : \A i \in DOMAIN frames[t] : hooked[frames[t][i].f] # "unasked"

\* One thread's activations fr and shadow stack sh, under the mapper's answers h.
Share(fr, h, i) == IF h[fr[i].f] = "yes" THEN 1 ELSE 0
Depth(fr, sh, i) == IF i \in DOMAIN fr THEN fr[i].depth ELSE Len(sh)

\* Depths grow along the stack, so that pushing and popping at its end leaves
\* the entries of the activations below alone.
Growing(fr, sh, h) ==
  /\ \A i \in DOMAIN fr : fr[i].depth + Share(fr, h, i) <= Len(sh)
  /\ \A i, j \in DOMAIN fr : i < j => fr[i].depth + Share(fr, h, i) <= fr[j].depth

Aligned(fr, sh, h) ==
  /\ Depth(fr, sh, 1) = 0
  /\ \A i \in DOMAIN fr :
       IF h[fr[i].f] = "yes"
       THEN /\ Depth(fr, sh, i + 1) = Depth(fr, sh, i) + 1
            /\ sh[Depth(fr, sh, i) + 1] = fr[i].f
       ELSE Depth(fr, sh, i + 1) = Depth(fr, sh, i)

StackInv ==
  /\ TypeOK /\ HookInv /\ RunInv
  /\ \A t \in Threads : /\ Growing(frames[t], shadow[t], hooked)
                        /\ Aligned(frames[t], shadow[t], hooked)

Activation == [f : Functions, depth : Nat]

\* Entering a function keeps the stacks aligned.
LEMMA PushAligned ==
  ASSUME NEW fr \in Seq(Activation), NEW sh \in Seq(Functions), NEW h, NEW f \in Functions,
         Growing(fr, sh, h), Aligned(fr, sh, h),
         NEW fr2, fr2 = Append(fr, [f |-> f, depth |-> Len(sh)]),
         NEW sh2, sh2 = IF h[f] = "yes" THEN Append(sh, f) ELSE sh
  PROVE  Growing(fr2, sh2, h) /\ Aligned(fr2, sh2, h)
<1> DEFINE n == Len(fr) + 1
<1>1. /\ Len(fr) \in Nat /\ Len(sh) \in Nat /\ n \in Nat
      /\ DOMAIN fr = 1..Len(fr) /\ DOMAIN sh = 1..Len(sh)
  OBVIOUS
<1>2. /\ DOMAIN fr2 = 1..n
      /\ \A i \in DOMAIN fr : fr2[i] = fr[i]
      /\ fr2[n] = [f |-> f, depth |-> Len(sh)]
  BY <1>1 DEF Activation
<1>3. /\ Len(sh2) = Len(sh) + Share(fr2, h, n)
      /\ \A i \in 1..Len(sh) : sh2[i] = sh[i]
      /\ h[f] = "yes" => sh2[Len(sh) + 1] = f
  BY <1>1, <1>2 DEF Share
<1>4. \A i \in DOMAIN fr : fr[i] \in Activation /\ fr[i].depth \in Nat
  <2>1. \A i \in DOMAIN fr : fr[i] \in Activation
    OBVIOUS
  <2> QED BY <2>1 DEF Activation
<1>5. \A i \in DOMAIN fr : Share(fr2, h, i) = Share(fr, h, i) /\ Share(fr, h, i) \in {0, 1}
  BY <1>2 DEF Share
<1>6. fr2[n].depth = Len(sh) /\ fr2[n].f = f /\ Share(fr2, h, n) \in {0, 1}
  BY <1>2 DEF Share
<1> HIDE DEF n
<1>7. n = Len(fr) + 1
  BY DEF n
<1>8. Growing(fr2, sh2, h)
  <2>1. \A i \in DOMAIN fr2 : fr2[i].depth + Share(fr2, h, i) <= Len(sh2)
    BY <1>1, <1>2, <1>3, <1>4, <1>5, <1>6, <1>7 DEF Growing
  <2>2. \A i, j \in DOMAIN fr2 : i < j => fr2[i].depth + Share(fr2, h, i) <= fr2[j].depth
    BY <1>1, <1>2, <1>3, <1>4, <1>5, <1>6, <1>7 DEF Growing
  <2> QED BY <2>1, <2>2 DEF Growing
<1>9. \A i \in 1..n : Depth(fr2, sh2, i) = Depth(fr, sh, i)
  BY <1>1, <1>2, <1>6, <1>7 DEF Depth
<1>10. Depth(fr2, sh2, n + 1) = Len(sh) + Share(fr2, h, n)
  BY <1>1, <1>2, <1>3, <1>7 DEF Depth
<1>11. ASSUME NEW i \in DOMAIN fr
       PROVE  IF h[fr2[i].f] = "yes"
              THEN /\ Depth(fr2, sh2, i + 1) = Depth(fr2, sh2, i) + 1
                   /\ sh2[Depth(fr2, sh2, i) + 1] = fr2[i].f
              ELSE Depth(fr2, sh2, i + 1) = Depth(fr2, sh2, i)
  <2>1. i \in 1..n /\ i + 1 \in 1..n /\ fr2[i] = fr[i]
    BY <1>1, <1>2, <1>7
  <2>2. Depth(fr2, sh2, i) = Depth(fr, sh, i) /\ Depth(fr2, sh2, i + 1) = Depth(fr, sh, i + 1)
    BY <2>1, <1>9
  <2>3. h[fr[i].f] = "yes" => Depth(fr, sh, i) + 1 \in 1..Len(sh)
    BY <1>1, <1>4 DEF Growing, Depth, Share
  <2> QED BY <2>1, <2>2, <2>3, <1>3 DEF Aligned
<1>12. IF h[fr2[n].f] = "yes"
       THEN /\ Depth(fr2, sh2, n + 1) = Depth(fr2, sh2, n) + 1
            /\ sh2[Depth(fr2, sh2, n) + 1] = fr2[n].f
       ELSE Depth(fr2, sh2, n + 1) = Depth(fr2, sh2, n)
  BY <1>1, <1>2, <1>3, <1>6, <1>7, <1>10 DEF Depth, Share
<1>13. Depth(fr2, sh2, 1) = 0
  BY <1>1, <1>7, <1>9 DEF Aligned
<1>14. \A i \in DOMAIN fr2 : i \in DOMAIN fr \/ i = n
  BY <1>1, <1>2, <1>7
<1> QED BY <1>8, <1>11, <1>12, <1>13, <1>14 DEF Aligned

\* Leaving or unwinding the innermost activation keeps the stacks aligned.
LEMMA PopAligned ==
  ASSUME NEW fr \in Seq(Activation), NEW sh \in Seq(Functions), NEW h, fr # <<>>,
         Growing(fr, sh, h), Aligned(fr, sh, h),
         NEW fr2, fr2 = Front(fr),
         NEW sh2, sh2 = IF h[Last(fr).f] = "yes" THEN (IF sh = <<>> THEN sh ELSE Front(sh)) ELSE sh
  PROVE  Growing(fr2, sh2, h) /\ Aligned(fr2, sh2, h)
<1> DEFINE n == Len(fr)
<1>1. /\ n \in Nat \ {0} /\ Len(sh) \in Nat
      /\ DOMAIN fr = 1..n /\ DOMAIN sh = 1..Len(sh)
      /\ DOMAIN fr2 = 1..n - 1 /\ Len(fr2) = n - 1
      /\ \A i \in 1..n - 1 : fr2[i] = fr[i]
      /\ Last(fr) = fr[n]
  BY FrontElements DEF Front
<1>2. \A i \in DOMAIN fr : fr[i] \in Activation /\ fr[i].depth \in Nat
  <2>1. \A i \in DOMAIN fr : fr[i] \in Activation
    OBVIOUS
  <2> QED BY <2>1 DEF Activation
<1>3. Share(fr, h, n) \in {0, 1} /\ (h[fr[n].f] = "yes" <=> Share(fr, h, n) = 1)
  BY DEF Share
<1> HIDE DEF n
<1>4. fr[n].depth + Share(fr, h, n) = Len(sh)
  <2>1. n \in DOMAIN fr /\ n + 1 \notin DOMAIN fr
    BY <1>1
  <2>2. Depth(fr, sh, n + 1) = Len(sh) /\ Depth(fr, sh, n) = fr[n].depth
    BY <2>1 DEF Depth
  <2> QED BY <1>1, <1>2, <2>1, <2>2 DEF Aligned, Share
<1>5. /\ Len(sh2) = fr[n].depth
      /\ \A i \in 1..Len(sh2) : sh2[i] = sh[i]
  <2>1. CASE h[fr[n].f] = "yes"
    <3>1. Len(sh) = fr[n].depth + 1 /\ fr[n].depth \in Nat
      BY <1>1, <1>2, <1>3, <1>4, <2>1
    <3>2. sh # <<>>
      BY <3>1
    <3>3. sh2 = Front(sh)
      BY <1>1, <2>1, <3>2
    <3>4. Len(Front(sh)) = Len(sh) - 1 /\ \A i \in 1..Len(sh) - 1 : Front(sh)[i] = sh[i]
      BY <3>2, FrontElements
    <3> QED BY <3>1, <3>3, <3>4
  <2>2. CASE h[fr[n].f] # "yes"
    BY <1>1, <1>2, <1>3, <1>4, <2>2
  <2> QED BY <2>1, <2>2
<1>6. \A i \in 1..n - 1 : Share(fr2, h, i) = Share(fr, h, i) /\ Share(fr, h, i) \in {0, 1}
  BY <1>1 DEF Share
<1>7. Growing(fr2, sh2, h)
  <2>1. \A i \in DOMAIN fr2 : fr2[i].depth + Share(fr2, h, i) <= Len(sh2)
    BY <1>1, <1>2, <1>5, <1>6 DEF Growing
  <2>2. \A i, j \in DOMAIN fr2 : i < j => fr2[i].depth + Share(fr2, h, i) <= fr2[j].depth
    BY <1>1, <1>2, <1>5, <1>6 DEF Growing
  <2> QED BY <2>1, <2>2 DEF Growing
<1>8. \A i \in 1..n : Depth(fr2, sh2, i) = Depth(fr, sh, i)
  BY <1>1, <1>5 DEF Depth
<1>9. ASSUME NEW i \in DOMAIN fr2
      PROVE  IF h[fr2[i].f] = "yes"
             THEN /\ Depth(fr2, sh2, i + 1) = Depth(fr2, sh2, i) + 1
                  /\ sh2[Depth(fr2, sh2, i) + 1] = fr2[i].f
             ELSE Depth(fr2, sh2, i + 1) = Depth(fr2, sh2, i)
  <2>1. i \in 1..n - 1 /\ i \in 1..n /\ i + 1 \in 1..n /\ i \in DOMAIN fr /\ fr2[i] = fr[i]
    BY <1>1
  <2>2. Depth(fr2, sh2, i) = Depth(fr, sh, i) /\ Depth(fr2, sh2, i + 1) = Depth(fr, sh, i + 1)
    BY <2>1, <1>8
  <2>3. Depth(fr, sh, i) = fr[i].depth
    BY <2>1 DEF Depth
  <2>4. h[fr[i].f] = "yes" => Depth(fr, sh, i) + 1 \in 1..Len(sh2)
    BY <1>1, <1>2, <1>5, <2>1, <2>3 DEF Growing, Share
  <2> QED BY <2>1, <2>2, <2>4, <1>5 DEF Aligned
<1>10. Depth(fr2, sh2, 1) = 0
  BY <1>1, <1>8 DEF Aligned
<1> QED BY <1>7, <1>9, <1>10 DEF Aligned

\* Answers that agree on the functions of the activations align alike.
LEMMA SameAligned ==
  ASSUME NEW fr, NEW sh, NEW h, NEW h2,
         Growing(fr, sh, h), Aligned(fr, sh, h),
         \A i \in DOMAIN fr : h2[fr[i].f] = h[fr[i].f]
  PROVE  Growing(fr, sh, h2) /\ Aligned(fr, sh, h2)
<1>1. \A i \in DOMAIN fr : Share(fr, h2, i) = Share(fr, h, i)
  BY DEF Share
<1> QED BY <1>1 DEF Growing, Aligned

LEMMA StackInit == Init => StackInv
<1> SUFFICES ASSUME Init PROVE StackInv
  OBVIOUS
<1>1. TypeOK
  BY TypeInit
<1>2. HookInv /\ RunInv
  BY DEF Init, HookInv, RunInv
<1>3. ASSUME NEW t \in Threads
      PROVE  Growing(frames[t], shadow[t], hooked) /\ Aligned(frames[t], shadow[t], hooked)
  <2>1. frames[t] = <<>> /\ shadow[t] = <<>>
    BY DEF Init
  <2> QED BY <2>1 DEF Growing, Aligned, Depth
<1> QED BY <1>1, <1>2, <1>3 DEF StackInv

LEMMA StackStep == StackInv /\ [Next]_vars => StackInv'
<1> SUFFICES ASSUME StackInv, [Next]_vars PROVE StackInv'
  OBVIOUS
<1>1. TypeOK /\ TypeOK'
  BY TypeStep DEF StackInv
<1>2. /\ frames \in [Threads -> Seq(Activation)] /\ shadow \in [Threads -> Seq(Functions)]
      /\ HookInv /\ RunInv
      /\ \A t \in Threads : /\ Growing(frames[t], shadow[t], hooked)
                            /\ Aligned(frames[t], shadow[t], hooked)
  BY DEF StackInv, TypeOK, Activation
<1>a. ASSUME NEW u \in Threads, NEW i \in DOMAIN frames[u]
      PROVE  frames[u][i].f \in Functions /\ hooked[frames[u][i].f] # "unasked"
  <2>1. frames[u] \in Seq(Activation)
    BY <1>2
  <2>2. frames[u][i] \in Activation
    BY <2>1
  <2> QED BY <1>2, <2>2 DEF Activation, RunInv
\* Steps that only fill the cache.
<1>3. ASSUME UNCHANGED <<hooked, frames, shadow>>,
             \A f \in Functions : cache[f] # NoInfo => cache'[f] = cache[f]
      PROVE  StackInv'
  <2>1. HookInv'
    BY <1>2, <1>3 DEF HookInv
  <2>2. RunInv'
    BY <1>2, <1>3 DEF RunInv
  <2> QED BY <1>1, <1>2, <1>3, <2>1, <2>2 DEF StackInv
<1>4. ASSUME NEW t \in Threads, NEW f \in Functions, NEW kind \in {"jit", "map"},
             Begin(t, f, kind)
      PROVE  StackInv'
  BY <1>3, <1>4 DEF Begin, runtimeVars
<1>5. ASSUME NEW t \in Threads, Resolve(t) PROVE StackInv'
  BY <1>3, <1>5 DEF Resolve, runtimeVars
<1>6. ASSUME NEW t \in Threads, Insert(t) PROVE StackInv'
  <2>1. \A f \in Functions : cache[f] # NoInfo => cache'[f] = cache[f]
    BY <1>1, <1>6 DEF Insert, TypeOK
  <2> QED BY <1>3, <1>6, <2>1 DEF Insert, runtimeVars
<1>7. ASSUME NEW t \in Threads, Answer(t) PROVE StackInv'
  <2>1. PICK g \in Functions : g = call[t].f
    BY <1>1, <1>7 DEF Answer, TypeOK
  <2>2. cache[g] # NoInfo /\ cache[g] \in MethodInfos
    BY <1>1, <1>7, <2>1 DEF Answer, TypeOK
  <2>3. cache[g].isIncluded \in BOOLEAN
    BY <2>2, DecisionIsBoolean
  <2>4. /\ hooked' = [hooked EXCEPT ![g] = IF Included(g) THEN "yes" ELSE "no"]
        /\ UNCHANGED <<cache, frames, shadow>>
    BY <1>7, <2>1 DEF Answer
  <2>5. Included(g) <=> cache[g].isIncluded
    BY <2>2 DEF Included
  <2>6. \A f \in Functions : hooked[f] # "unasked" => hooked'[f] = hooked[f]
    BY <1>1, <1>2, <2>3, <2>4, <2>5 DEF HookInv, TypeOK
  <2>7. HookInv'
    BY <1>1, <1>2, <2>2, <2>3, <2>4, <2>5 DEF HookInv, TypeOK
  <2>8. \A u \in Threads : \A i \in DOMAIN frames[u] :
          frames[u][i].f \in Functions /\ hooked[frames[u][i].f] # "unasked"
    BY <1>a
  <2>9. RunInv'
    BY <2>4, <2>6, <2>8 DEF RunInv
  <2>10. \A u \in Threads : /\ Growing(frames[u], shadow[u], hooked')
                           /\ Aligned(frames[u], shadow[u], hooked')
    BY <1>2, <2>6, <2>8, SameAligned
  <2> QED BY <1>1, <2>4, <2>7, <2>9, <2>10 DEF StackInv
<1>8. ASSUME NEW t \in Threads, NEW f \in Functions, Enter(t, f) PROVE StackInv'
  <2> DEFINE fr2 == Append(frames[t], [f |-> f, depth |-> Len(shadow[t])])
             sh2 == IF hooked[f] = "yes" THEN Append(shadow[t], f) ELSE shadow[t]
  <2>1. hooked[f] = "yes" => Included(f)
    BY <1>2, <1>8 DEF HookInv, Included
  <2>2. /\ frames' = [frames EXCEPT ![t] = fr2]
        /\ shadow' = [shadow EXCEPT ![t] = sh2]
        /\ UNCHANGED <<cache, hooked>>
    BY <1>2, <1>8, <2>1 DEF Enter
  <2>3. Growing(fr2, sh2, hooked) /\ Aligned(fr2, sh2, hooked)
    BY <1>2, PushAligned
  <2>4. hooked[f] # "unasked"
    BY <1>8 DEF Enter
  <2>5. \A i \in DOMAIN fr2 : fr2[i].f = f \/ (i \in DOMAIN frames[t] /\ fr2[i] = frames[t][i])
    BY <1>2 DEF Activation
  <2> HIDE DEF fr2, sh2
  <2>6. RunInv'
    BY <1>2, <2>2, <2>4, <2>5 DEF RunInv
  <2>7. HookInv'
    BY <1>2, <2>2 DEF HookInv
  <2>8. \A u \in Threads : /\ Growing(frames'[u], shadow'[u], hooked')
                          /\ Aligned(frames'[u], shadow'[u], hooked')
    BY <1>2, <2>2, <2>3
  <2> QED BY <1>1, <2>6, <2>7, <2>8 DEF StackInv
\* Leaving and unwinding pop exactly the hooked activations.
<1>9. ASSUME NEW t \in Threads, frames[t] # <<>>,
             frames' = [frames EXCEPT ![t] = Front(@)],
             shadow' = IF hooked[Last(frames[t]).f] = "yes" THEN PopShadow(t) ELSE shadow,
             UNCHANGED <<cache, hooked>>
      PROVE  StackInv'
  <2> DEFINE fr2 == Front(frames[t])
             sh2 == IF hooked[Last(frames[t]).f] = "yes"
                    THEN (IF shadow[t] = <<>> THEN shadow[t] ELSE Front(shadow[t]))
                    ELSE shadow[t]
  <2>1. Growing(fr2, sh2, hooked) /\ Aligned(fr2, sh2, hooked)
    BY <1>2, <1>9, PopAligned
  <2>2. /\ frames' = [frames EXCEPT ![t] = fr2]
        /\ shadow' = [shadow EXCEPT ![t] = sh2]
    BY <1>2, <1>9 DEF PopShadow
  <2>3. \A i \in DOMAIN fr2 : i \in DOMAIN frames[t] /\ fr2[i] = frames[t][i]
    BY <1>2, <1>9, FrontElements DEF Front
  <2> HIDE DEF fr2, sh2
  <2>4. RunInv'
    BY <1>2, <1>9, <2>2, <2>3 DEF RunInv
  <2>5. HookInv'
    BY <1>2, <1>9 DEF HookInv
  <2>6. \A u \in Threads : /\ Growing(frames'[u], shadow'[u], hooked')
                          /\ Aligned(frames'[u], shadow'[u], hooked')
    BY <1>2, <1>9, <2>1, <2>2
  <2> QED BY <1>1, <2>4, <2>5, <2>6 DEF StackInv
<1>10. ASSUME NEW t \in Threads, frames[t] # <<>>
       PROVE  /\ Last(frames[t]).f \in Functions
              /\ hooked[Last(frames[t]).f] = "yes" <=> Included(Last(frames[t]).f)
  <2>1. Last(frames[t]) \in Activation /\ Last(frames[t]) = frames[t][Len(frames[t])]
        /\ Len(frames[t]) \in DOMAIN frames[t]
    <3>1. frames[t] \in Seq(Activation)
      BY <1>2
    <3>2. /\ Last(frames[t]) \in Activation /\ Last(frames[t]) = frames[t][Len(frames[t])]
          /\ Len(frames[t]) \in Nat \ {0}
      BY <1>10, <3>1, FrontElements
    <3> QED BY <3>1, <3>2
  <2>2. Last(frames[t]).f \in Functions /\ hooked[Last(frames[t]).f] # "unasked"
    BY <1>2, <2>1 DEF RunInv, Activation
  <2>3. /\ cache[Last(frames[t]).f] # NoInfo
        /\ hooked[Last(frames[t]).f] = "yes" <=> cache[Last(frames[t]).f].isIncluded
    BY <1>2, <2>2 DEF HookInv
  <2> QED BY <2>2, <2>3 DEF Included
<1>11. ASSUME NEW t \in Threads, Leave(t) PROVE StackInv'
  BY <1>9, <1>10, <1>11 DEF Leave
<1>12. ASSUME NEW t \in Threads, Unwind(t) PROVE StackInv'
  BY <1>9, <1>10, <1>12 DEF Unwind
<1>13. ASSUME NEW f \in Functions, NEW id \in Identities, Unload(f, id) PROVE StackInv'
  <2>1. /\ hooked' = [hooked EXCEPT ![f] = "unasked"]
        /\ UNCHANGED <<cache, frames, shadow>>
    BY <1>13 DEF Unload
  <2>2. \A u \in Threads : \A i \in DOMAIN frames[u] :
          frames[u][i].f # f /\ frames[u][i].f \in Functions
    BY <1>a, <1>13 DEF Unload
  <2>3. \A u \in Threads : \A i \in DOMAIN frames[u] :
          hooked'[frames[u][i].f] = hooked[frames[u][i].f]
    BY <2>1, <2>2
  <2>4. HookInv'
    BY <1>1, <1>2, <2>1 DEF HookInv, TypeOK
  <2>5. RunInv'
    BY <1>2, <2>1, <2>3 DEF RunInv
  <2>6. \A u \in Threads : /\ Growing(frames[u], shadow[u], hooked')
                          /\ Aligned(frames[u], shadow[u], hooked')
    BY <1>2, <2>3, SameAligned
  <2> QED BY <1>1, <2>1, <2>4, <2>5, <2>6 DEF StackInv
<1>14. CASE UNCHANGED vars
  BY <1>3, <1>14 DEF vars
<1> QED BY <1>4, <1>5, <1>6, <1>7, <1>8, <1>11, <1>12, <1>13, <1>14 DEF Next

\* The invariant is stronger than what the run checks.
LEMMA StackInvAligned == StackInv => ShadowAligned
BY DEF StackInv, ShadowAligned, Aligned, Depth, DepthAt

\* A shadow stack holds exactly the hooked activations, whatever the races.
THEOREM StacksAligned == Spec => []ShadowAligned
BY StackInit, StackStep, StackInvAligned, PTL DEF Spec

-----------------------------------------------------------------------------
(* Patterns.                                                               *)

\* A set of naturals has a least element; the library's induction rules take
\* an operator, its theorem on finite sets does not.
LEMMA LeastNat ==
  ASSUME NEW T \in SUBSET Nat, T # {}
  PROVE  \E x \in T : \A y \in T : x <= y
<1> DEFINE U == {1..n : n \in T}
<1>1. U \subseteq FiniteSubsetsOf(Nat) /\ U # {}
  <2>1. \A n \in T : IsFiniteSet(1..n) /\ 1..n \in SUBSET Nat
    BY FS_Interval
  <2> QED BY <2>1 DEF FiniteSubsetsOf
<1>2. \E u \in U : \A v \in U : ~ (<<v, u>> \in StrictSubsetOrdering(Nat))
  <2> HIDE DEF U
  <2> QED BY <1>1, FS_StrictSubsetOrderingWellFounded, WFMin, Zenon
<1>3. PICK x \in T : \A v \in U : ~ (<<v, 1..x>> \in StrictSubsetOrdering(Nat))
  BY <1>2
<1>4. ASSUME NEW y \in T, y < x PROVE FALSE
  <2>1. 1..y \subseteq 1..x /\ x \in 1..x /\ x \notin 1..y
    BY <1>4
  <2>2. <<1..y, 1..x>> \in StrictSubsetOrdering(Nat)
    BY <1>1, <2>1 DEF StrictSubsetOrdering, FiniteSubsetsOf
  <2> QED BY <1>3, <2>2
<1> QED BY <1>4

\* Places that advance by one.
LEMMA Steps ==
  ASSUME NEW cut, NEW a \in Nat, NEW b \in Nat, cut[a] \in Nat,
         \A i \in a..b - 1 : cut[i + 1] = cut[i] + 1
  PROVE  \A i \in a..b : cut[i] = cut[a] + (i - a)
<1> DEFINE T == {i \in a..b : cut[i] # cut[a] + (i - a)}
<1> SUFFICES ASSUME T # {} PROVE FALSE
  OBVIOUS
<1>1. T \in SUBSET Nat
  OBVIOUS
<1>2. PICK x \in T : \A y \in T : x <= y
  BY <1>1, LeastNat
<1>3. x \in a..b /\ cut[x] # cut[a] + (x - a) /\ x # a
  BY <1>2
<1>4. x - 1 \in a..b - 1 /\ x - 1 \in a..b /\ x - 1 \notin T /\ (x - 1) + 1 = x
  BY <1>2, <1>3
<1>5. cut[x - 1] = cut[a] + ((x - 1) - a)
  BY <1>4
<1>6. cut[x] = cut[x - 1] + 1
  BY <1>4
<1> QED BY <1>3, <1>5, <1>6

\* Prefixes, reversed sequences and suffixes, element by element.
LEMMA PrefixIs ==
  ASSUME NEW S, NEW s \in Seq(S), NEW t \in Seq(S)
  PROVE  IsPrefix(s, t) <=> Len(s) <= Len(t) /\ \A i \in 1..Len(s) : s[i] = t[i]
<1>1. Len(s) \in Nat /\ Len(t) \in Nat
  OBVIOUS
<1>2. SubSeq(s, 1, Len(s)) = [i \in 1..Len(s) |-> s[i]]
  BY <1>1
<1>3. ASSUME Len(s) <= Len(t)
      PROVE  SubSeq(t, 1, Len(s)) = [i \in 1..Len(s) |-> t[i]]
  BY <1>1, <1>3
<1> QED BY <1>2, <1>3 DEF IsPrefix

LEMMA ReverseIs ==
  ASSUME NEW S, NEW s \in Seq(S)
  PROVE  /\ Reverse(s) \in Seq(S) /\ Len(Reverse(s)) = Len(s) /\ Len(s) \in Nat
         /\ \A i \in 1..Len(s) : Reverse(s)[i] = s[Len(s) - i + 1]
<1>1. Len(s) \in Nat /\ \A i \in 1..Len(s) : Len(s) - i + 1 \in 1..Len(s)
  OBVIOUS
<1>2. \A i \in 1..Len(s) : s[Len(s) - i + 1] \in S
  BY <1>1
<1>3. Reverse(s) \in [1..Len(s) -> S]
  BY <1>2 DEF Reverse
<1> QED BY <1>1, <1>3 DEF Reverse

LEMMA SuffixIs ==
  ASSUME NEW S, NEW s \in Seq(S), NEW t \in Seq(S)
  PROVE  IsSuffix(s, t) <=>
           Len(s) <= Len(t) /\ \A i \in 1..Len(s) : s[i] = t[(Len(t) - Len(s)) + i]
<1> DEFINE n == Len(s)
           k == Len(t)
<1>1. n \in Nat /\ k \in Nat
  OBVIOUS
<1>2. IsSuffix(s, t) <=> n <= k /\ \A i \in 1..n : Reverse(s)[i] = Reverse(t)[i]
  <2>1. /\ Reverse(s) \in Seq(S) /\ Len(Reverse(s)) = n
        /\ Reverse(t) \in Seq(S) /\ Len(Reverse(t)) = k
    BY ReverseIs
  <2>2. IsPrefix(Reverse(s), Reverse(t)) <=>
          /\ Len(Reverse(s)) <= Len(Reverse(t))
          /\ \A i \in 1..Len(Reverse(s)) : Reverse(s)[i] = Reverse(t)[i]
    <3>1. Reverse(s) \in Seq(S) /\ Reverse(t) \in Seq(S)
      BY <2>1
    <3> QED BY ONLY <3>1, PrefixIs
  <2> HIDE DEF n, k
  <2> QED BY <2>1, <2>2 DEF IsSuffix
<1>3. \A i \in 1..n : Reverse(s)[i] = s[n - i + 1]
  BY ReverseIs
<1>4. \A i \in 1..k : Reverse(t)[i] = t[k - i + 1]
  BY ReverseIs
<1> HIDE DEF n, k
<1>5. ASSUME n <= k, \A i \in 1..n : Reverse(s)[i] = Reverse(t)[i], NEW i \in 1..n
      PROVE  s[i] = t[(k - n) + i]
  <2> DEFINE j == n - i + 1
  <2>1. j \in 1..n /\ j \in 1..k /\ n - j + 1 = i /\ k - j + 1 = (k - n) + i
    BY <1>1, <1>5
  <2> HIDE DEF j
  <2> QED BY <1>3, <1>4, <1>5, <2>1
<1>6. ASSUME n <= k, \A i \in 1..n : s[i] = t[(k - n) + i], NEW i \in 1..n
      PROVE  Reverse(s)[i] = Reverse(t)[i]
  <2> DEFINE j == n - i + 1
  <2>1. j \in 1..n /\ i \in 1..k /\ (k - n) + j = k - i + 1
    BY <1>1, <1>6
  <2>2. s[j] = t[(k - n) + j]
    BY <1>6, <2>1
  <2> QED BY <1>3, <1>4, <2>1, <2>2
<1> QED BY <1>2, <1>5, <1>6 DEF n, k

\* The patterns without a star, with one at the end, and with one at the front.
Begins(p, v) == Len(v) >= Len(p) - 1 /\ \A i \in 1..Len(p) - 1 : v[i] = p[i]
Ends(p, v) == Len(v) >= Len(p) - 1 /\ \A i \in 2..Len(p) : v[(Len(v) - Len(p)) + i] = p[i]

\* What SimpleGlobMatch accepts, on the patterns its comments describe.
LEMMA CodeMatches ==
  ASSUME NEW S, NEW p \in Seq(S), NEW v \in Seq(S)
  PROVE  /\ Wildcards(p) = {} => (SimpleGlobMatch(p, v) <=> p = v)
         /\ p # <<>> /\ Wildcards(p) = {Len(p)} => (SimpleGlobMatch(p, v) <=> Begins(p, v))
         /\ Wildcards(p) = {1} /\ HasLeadingWildcard(p) => (SimpleGlobMatch(p, v) <=> Ends(p, v))
<1> DEFINE n == Len(p)
<1>1. n \in Nat /\ Len(v) \in Nat /\ DOMAIN p = 1..n
  OBVIOUS
<1>2. HasTrailingWildcard(p) <=> n >= 2 /\ p[n] = "*"
  BY DEF HasTrailingWildcard, Last
<1>3. HasLeadingWildcard(p) <=> n >= 2 /\ p[1] = "*" /\ p[2] = "."
  BY DEF HasLeadingWildcard
<1>4. p = <<"*">> => n = 1 /\ p[1] = "*"
  OBVIOUS
<1>5. \A i \in 1..n : i \in Wildcards(p) <=> p[i] = "*"
  BY <1>1 DEF Wildcards
<1>6. ASSUME Wildcards(p) = {} PROVE SimpleGlobMatch(p, v) <=> p = v
  <2>1. \A i \in 1..n : p[i] # "*"
    BY <1>5, <1>6
  <2>2. ~HasTrailingWildcard(p) /\ ~HasLeadingWildcard(p) /\ p # <<"*">>
    <3> HIDE DEF n
    <3> QED BY <1>1, <1>2, <1>3, <1>4, <2>1
  <2> QED BY <2>2 DEF SimpleGlobMatch
<1>7. ASSUME p # <<>>, Wildcards(p) = {n} PROVE SimpleGlobMatch(p, v) <=> Begins(p, v)
  <2>1. n >= 1 /\ p[n] = "*"
    <3>1. n # 0
      BY <1>7
    <3> HIDE DEF n
    <3> QED BY <1>1, <1>5, <1>7, <3>1
  <2>2. IsPrefix(Front(p), v) <=> Begins(p, v)
    <3>1. Front(p) \in Seq(S) /\ Len(Front(p)) = n - 1 /\ \A i \in 1..n - 1 : Front(p)[i] = p[i]
      BY <1>7, FrontElements
    <3>2. IsPrefix(Front(p), v) <=> n - 1 <= Len(v) /\ \A i \in 1..n - 1 : Front(p)[i] = v[i]
      <4> HIDE DEF n
      <4> QED BY <3>1, PrefixIs
    <3> QED BY <1>1, <3>1, <3>2 DEF Begins
  <2>3. CASE n >= 2
    <3>1. HasTrailingWildcard(p) /\ p # <<"*">>
      BY <1>2, <1>4, <2>1, <2>3
    <3> QED BY <2>2, <3>1 DEF SimpleGlobMatch
  <2>4. CASE n = 1
    <3>1. p = <<"*">>
      BY <2>1, <2>4
    <3>2. Begins(p, v)
      BY <1>1, <2>4 DEF Begins
    <3> QED BY <3>1, <3>2 DEF SimpleGlobMatch
  <2> QED BY <1>1, <2>1, <2>3, <2>4
<1>8. ASSUME Wildcards(p) = {1}, HasLeadingWildcard(p) PROVE SimpleGlobMatch(p, v) <=> Ends(p, v)
  <2>1. n >= 2 /\ p # <<"*">> /\ n \in 1..n /\ n # 1
    <3> HIDE DEF n
    <3> QED BY <1>1, <1>3, <1>4, <1>8
  <2>2. ~HasTrailingWildcard(p)
    <3> HIDE DEF n
    <3> QED BY <1>2, <1>5, <1>8, <2>1
  <2>3. /\ Tail(p) \in Seq(S) /\ Len(Tail(p)) = n - 1
        /\ \A i \in 1..n - 1 : Tail(p)[i] = p[i + 1]
    <3>1. p # <<>>
      BY <2>1
    <3> QED BY <2>1, <3>1
  <2>4. IsSuffix(Tail(p), v) <=>
          n - 1 <= Len(v) /\ \A i \in 1..n - 1 : Tail(p)[i] = v[(Len(v) - (n - 1)) + i]
    <3>1. IsSuffix(Tail(p), v) <=>
            /\ Len(Tail(p)) <= Len(v)
            /\ \A i \in 1..Len(Tail(p)) : Tail(p)[i] = v[(Len(v) - Len(Tail(p))) + i]
      <4>1. Tail(p) \in Seq(S) /\ v \in Seq(S)
        BY <2>3
      <4> QED BY ONLY <4>1, SuffixIs
    <3> HIDE DEF n
    <3> QED BY <2>3, <3>1
  <2>5. IsSuffix(Tail(p), v) <=> Ends(p, v)
    <3> HIDE DEF n
    <3>1. ASSUME n - 1 <= Len(v), \A i \in 1..n - 1 : Tail(p)[i] = v[(Len(v) - (n - 1)) + i],
                 NEW i \in 2..n
          PROVE  v[(Len(v) - n) + i] = p[i]
      <4>1. i - 1 \in 1..n - 1 /\ (i - 1) + 1 = i /\ (Len(v) - (n - 1)) + (i - 1) = (Len(v) - n) + i
        BY <1>1, <3>1
      <4> QED BY <2>3, <3>1, <4>1
    <3>2. ASSUME n - 1 <= Len(v), \A i \in 2..n : v[(Len(v) - n) + i] = p[i], NEW i \in 1..n - 1
          PROVE  Tail(p)[i] = v[(Len(v) - (n - 1)) + i]
      <4>1. i + 1 \in 2..n /\ (Len(v) - (n - 1)) + i = (Len(v) - n) + (i + 1)
        BY <1>1, <3>2
      <4> QED BY <2>3, <3>2, <4>1
    <3>3. n - 1 <= Len(v) <=> Len(v) >= n - 1
      BY <1>1
    <3> QED BY <2>4, <3>1, <3>2, <3>3 DEF Ends, n
  <2> QED BY <1>8, <2>1, <2>2, <2>5 DEF SimpleGlobMatch
<1> QED BY <1>6, <1>7, <1>8

\* A cut of the value v for the pattern p.
Cut(cut, p, v) ==
  /\ cut \in [1..Len(p) + 1 -> 1..Len(v) + 1]
  /\ cut[1] = 1 /\ cut[Len(p) + 1] = Len(v) + 1
  /\ \A i \in 1..Len(p) :
       IF p[i] = "*"
       THEN cut[i] <= cut[i + 1]
       ELSE cut[i + 1] = cut[i] + 1 /\ v[cut[i]] = p[i]

\* What the documented meaning accepts, on the same patterns: the symbols that
\* are not stars advance the cut by one, which fixes it (Steps).
LEMMA DocMatches ==
  ASSUME NEW S, NEW p \in Seq(S), NEW v \in Seq(S)
  PROVE  /\ Wildcards(p) = {} => (GlobMatch(p, v) <=> p = v)
         /\ p # <<>> /\ Wildcards(p) = {Len(p)} => (GlobMatch(p, v) <=> Begins(p, v))
         /\ Wildcards(p) = {1} /\ HasLeadingWildcard(p) => (GlobMatch(p, v) <=> Ends(p, v))
<1> DEFINE n == Len(p)
           k == Len(v)
<1>1. n \in Nat /\ k \in Nat /\ DOMAIN p = 1..n /\ DOMAIN v = 1..k
  OBVIOUS
<1>2. \A i \in 1..n : i \in Wildcards(p) <=> p[i] = "*"
  BY <1>1 DEF Wildcards
<1>3. GlobMatch(p, v) <=> \E cut : Cut(cut, p, v)
  BY DEF GlobMatch, Cut
<1>4. \A cut : Cut(cut, p, v) =>
        /\ \A i \in 1..n + 1 : cut[i] \in Nat /\ cut[i] >= 1
        /\ cut[1] = 1 /\ cut[n + 1] = k + 1
        /\ \A i \in 1..n : p[i] = "*" => cut[i] <= cut[i + 1]
        /\ \A i \in 1..n : p[i] # "*" => cut[i + 1] = cut[i] + 1 /\ v[cut[i]] = p[i]
  <2> SUFFICES ASSUME NEW cut, Cut(cut, p, v)
               PROVE  /\ \A i \in 1..n + 1 : cut[i] \in Nat /\ cut[i] >= 1
                      /\ cut[1] = 1 /\ cut[n + 1] = k + 1
                      /\ \A i \in 1..n : p[i] = "*" => cut[i] <= cut[i + 1]
                      /\ \A i \in 1..n : p[i] # "*" => cut[i + 1] = cut[i] + 1 /\ v[cut[i]] = p[i]
    OBVIOUS
  <2>1. cut \in [1..n + 1 -> 1..k + 1]
    BY DEF Cut
  <2>2. \A i \in 1..n + 1 : cut[i] \in Nat /\ cut[i] >= 1
    <3> HIDE DEF n, k
    <3> QED BY <1>1, <2>1
  <2> QED BY <2>2 DEF Cut
<1>5. ASSUME NEW cut \in [1..n + 1 -> 1..k + 1], cut[1] = 1, cut[n + 1] = k + 1,
             \A i \in 1..n : p[i] = "*" => cut[i] <= cut[i + 1],
             \A i \in 1..n : p[i] # "*" => cut[i + 1] = cut[i] + 1 /\ v[cut[i]] = p[i]
      PROVE  GlobMatch(p, v)
  BY <1>3, <1>5 DEF Cut
<1>6. p # <<>> => n # 0
  OBVIOUS
<1>7. p = v <=> n = k /\ \A i \in 1..n : p[i] = v[i]
  OBVIOUS
<1>8. /\ Begins(p, v) <=> k >= n - 1 /\ \A i \in 1..n - 1 : v[i] = p[i]
      /\ Ends(p, v) <=> k >= n - 1 /\ \A i \in 2..n : v[(k - n) + i] = p[i]
      /\ HasLeadingWildcard(p) => n >= 2
  BY DEF Begins, Ends, HasLeadingWildcard
<1> HIDE DEF n, k
<1>9. ASSUME Wildcards(p) = {} PROVE GlobMatch(p, v) <=> p = v
  <2>1. \A i \in 1..n : p[i] # "*"
    BY <1>2, <1>9
  <2>2. ASSUME NEW cut, Cut(cut, p, v) PROVE p = v
    <3>1. \A i \in 1..n + 1 : cut[i] = 1 + (i - 1)
      <4>1. cut[1] \in Nat /\ n + 1 \in Nat /\ \A i \in 1..(n + 1) - 1 : cut[i + 1] = cut[i] + 1
        BY <1>1, <1>4, <2>1, <2>2
      <4>2. \A i \in 1..n + 1 : cut[i] = cut[1] + (i - 1)
        BY ONLY <4>1, Steps
      <4> QED BY <1>4, <2>2, <4>2
    <3>2. n = k
      <4>1. n + 1 \in 1..n + 1 /\ cut[n + 1] = k + 1
        BY <1>1, <1>4, <2>2
      <4> QED BY <1>1, <3>1, <4>1
    <3>3. \A i \in 1..n : cut[i] = i
      BY <1>1, <3>1
    <3>4. \A i \in 1..n : v[cut[i]] = p[i]
      BY <1>4, <2>1, <2>2
    <3> QED BY <1>7, <3>2, <3>3, <3>4
  <2>3. ASSUME p = v PROVE GlobMatch(p, v)
    <3> DEFINE cut == [i \in 1..n + 1 |-> i]
    <3>1. \A i \in 1..n : i \in 1..n + 1 /\ i + 1 \in 1..n + 1
      BY <1>1
    <3>2. n = k /\ \A i \in 1..n : p[i] = v[i]
      BY <1>7, <2>3
    <3>3. cut \in [1..n + 1 -> 1..k + 1] /\ cut[1] = 1 /\ cut[n + 1] = k + 1
      BY <1>1, <3>2
    <3>4. \A i \in 1..n : cut[i] = i /\ cut[i + 1] = i + 1
      BY <3>1
    <3> HIDE DEF cut
    <3>5. \A i \in 1..n : cut[i + 1] = cut[i] + 1 /\ v[cut[i]] = p[i]
      BY <3>2, <3>4
    <3> QED BY <1>5, <2>1, <3>3, <3>5
  <2> QED BY <1>3, <2>2, <2>3
<1>10. ASSUME p # <<>>, Wildcards(p) = {n} PROVE GlobMatch(p, v) <=> Begins(p, v)
  <2>1. n >= 1 /\ p[n] = "*" /\ \A i \in 1..n - 1 : p[i] # "*"
    BY <1>1, <1>2, <1>6, <1>10
  <2>2. ASSUME NEW cut, Cut(cut, p, v) PROVE Begins(p, v)
    <3>1. \A i \in 1..n : cut[i] = 1 + (i - 1)
      <4>1. cut[1] \in Nat /\ \A i \in 1..n - 1 : cut[i + 1] = cut[i] + 1
        BY <1>1, <1>4, <2>1, <2>2
      <4>2. \A i \in 1..n : cut[i] = cut[1] + (i - 1)
        BY ONLY <1>1, <4>1, Steps
      <4> QED BY <1>4, <2>2, <4>2
    <3>2. n <= k + 1
      <4>1. cut[n] <= cut[n + 1] /\ cut[n] = n
        BY <1>1, <1>4, <2>1, <2>2, <3>1
      <4> QED BY <1>4, <2>2, <4>1
    <3> QED BY <1>1, <1>4, <1>8, <2>1, <2>2, <3>1, <3>2
  <2>3. ASSUME Begins(p, v) PROVE GlobMatch(p, v)
    <3> DEFINE cut == [i \in 1..n + 1 |-> IF i <= n THEN i ELSE k + 1]
    <3>1. k >= n - 1 /\ \A i \in 1..n - 1 : v[i] = p[i]
      BY <1>8, <2>3
    <3>2. cut \in [1..n + 1 -> 1..k + 1] /\ cut[1] = 1 /\ cut[n + 1] = k + 1
      BY <1>1, <2>1, <3>1
    <3>3. \A i \in 1..n : cut[i] = i
      BY <1>1
    <3> HIDE DEF cut
    <3>4. \A i \in 1..n - 1 : cut[i + 1] = cut[i] + 1 /\ v[cut[i]] = p[i]
      BY <1>1, <3>1, <3>3
    <3>5. cut[n] <= cut[n + 1]
      BY <1>1, <2>1, <3>1, <3>2, <3>3
    <3>6. \A i \in 1..n : i = n \/ i \in 1..n - 1
      BY <1>1
    <3> QED BY <1>5, <2>1, <3>2, <3>4, <3>5, <3>6
  <2> QED BY <1>3, <2>2, <2>3
<1>11. ASSUME Wildcards(p) = {1}, HasLeadingWildcard(p) PROVE GlobMatch(p, v) <=> Ends(p, v)
  <2>1. n >= 2 /\ p[1] = "*" /\ \A i \in 2..n : p[i] # "*"
    BY <1>1, <1>2, <1>8, <1>11
  <2>2. ASSUME NEW cut, Cut(cut, p, v) PROVE Ends(p, v)
    <3>1. \A i \in 2..n + 1 : cut[i] = cut[2] + (i - 2)
      <4>1. cut[2] \in Nat /\ n + 1 \in Nat /\ \A i \in 2..(n + 1) - 1 : cut[i + 1] = cut[i] + 1
        BY <1>1, <1>4, <2>1, <2>2
      <4> QED BY ONLY <4>1, Steps
    <3>2. cut[2] \in Nat /\ cut[2] >= 1 /\ k + 1 = cut[2] + ((n + 1) - 2)
      BY <1>1, <1>4, <2>1, <2>2, <3>1
    <3>3. cut[2] = (k - n) + 2 /\ k >= n - 1
      BY <1>1, <3>2
    <3>4. ASSUME NEW i \in 2..n PROVE v[(k - n) + i] = p[i]
      <4>1. i \in 1..n /\ i \in 2..n + 1 /\ p[i] # "*"
        BY <1>1, <2>1
      <4>2. cut[i] = (k - n) + i
        BY <1>1, <3>1, <3>3, <4>1
      <4> QED BY <1>4, <2>2, <4>1, <4>2
    <3> QED BY <1>8, <3>3, <3>4
  <2>3. ASSUME Ends(p, v) PROVE GlobMatch(p, v)
    <3> DEFINE cut == [i \in 1..n + 1 |-> IF i = 1 THEN 1 ELSE (k - n) + i]
    <3>1. k >= n - 1 /\ \A i \in 2..n : v[(k - n) + i] = p[i]
      BY <1>8, <2>3
    <3>2. cut \in [1..n + 1 -> 1..k + 1] /\ cut[1] = 1 /\ cut[n + 1] = k + 1
      BY <1>1, <2>1, <3>1
    <3>3. \A i \in 2..n + 1 : cut[i] = (k - n) + i
      BY <1>1
    <3> HIDE DEF cut
    <3>4. \A i \in 2..n : cut[i + 1] = cut[i] + 1 /\ v[cut[i]] = p[i]
      BY <1>1, <3>1, <3>3
    <3>5. cut[1] <= cut[2]
      BY <1>1, <2>1, <3>1, <3>2, <3>3
    <3>6. \A i \in 1..n : i = 1 \/ i \in 2..n
      BY <1>1
    <3>7. \A i \in 1..n : p[i] = "*" => cut[i] <= cut[i + 1]
      BY <2>1, <3>5, <3>6
    <3>8. \A i \in 1..n : p[i] # "*" => cut[i + 1] = cut[i] + 1 /\ v[cut[i]] = p[i]
      BY <2>1, <3>4, <3>6
    <3> QED BY <1>5, <3>2, <3>7, <3>8
  <2> QED BY <1>3, <2>2, <2>3
<1> QED BY <1>9, <1>10, <1>11 DEF n

\* On the patterns its comments describe, the code's matching is the
\* documented one.
LEMMA GlobSimple ==
  ASSUME NEW S, NEW p \in Seq(S), NEW v \in Seq(S), SimplePattern(p)
  PROVE  SimpleGlobMatch(p, v) <=> GlobMatch(p, v)
BY CodeMatches, DocMatches DEF SimplePattern

-----------------------------------------------------------------------------
(* Names.                                                                  *)

\* The greatest position is the one the search for the last returns.
LEMMA LastAt ==
  ASSUME NEW s, NEW c, Len(s) \in Nat, NEW k \in 1..Len(s), s[k] = c,
         \A i \in k + 1..Len(s) : s[i] # c
  PROVE  LastIndexOf(s, c) = k
<1> DEFINE I == {i \in 1..Len(s) : s[i] = c}
<1>1. k \in I /\ \A i \in I : k >= i
  OBVIOUS
<1>2. Max(I) = k
  <2>1. \A x \in I : (\A y \in I : x >= y) => x = k
    BY <1>1
  <2> HIDE DEF I
  <2> QED BY <1>1, <2>1 DEF Max
<1>3. LastIndexOf(s, c) = IF I # {} THEN Max(I) ELSE 0
  BY DEF LastIndexOf, SelectLastInSeq
<1> HIDE DEF I
<1> QED BY <1>1, <1>2, <1>3

\* And 0 if there is none.
LEMMA LastNone ==
  ASSUME NEW s, NEW c, \A i \in 1..Len(s) : s[i] # c
  PROVE  LastIndexOf(s, c) = 0
BY DEF LastIndexOf, SelectLastInSeq

\* The least one.
LEMMA FirstAt ==
  ASSUME NEW s, NEW c, Len(s) \in Nat, NEW k \in 1..Len(s), s[k] = c,
         \A i \in 1..k - 1 : s[i] # c
  PROVE  SelectInSeq(s, LAMBDA x : x = c) = k
<1> DEFINE I == {i \in 1..Len(s) : s[i] = c}
<1>1. k \in I /\ \A i \in I : k <= i
  OBVIOUS
<1>2. Min(I) = k
  <2>1. \A x \in I : (\A y \in I : x <= y) => x = k
    BY <1>1
  <2> HIDE DEF I
  <2> QED BY <1>1, <2>1 DEF Min
<1>3. SelectInSeq(s, LAMBDA x : x = c) = IF I # {} THEN Min(I) ELSE 0
  BY DEF SelectInSeq
<1> HIDE DEF I
<1> QED BY <1>1, <1>2, <1>3

\* A sequence is the stretch of another that has its elements.
LEMMA StretchIs ==
  ASSUME NEW S, NEW s \in Seq(S), NEW t \in Seq(S), NEW m \in Nat, NEW n \in Nat,
         n = m + Len(s), n <= Len(t),
         \A i \in 1..Len(s) : t[m + i] = s[i]
  PROVE  SubSeq(t, m + 1, n) = s
<1>1. Len(s) \in Nat /\ Len(t) \in Nat /\ s = [i \in 1..Len(s) |-> s[i]]
  OBVIOUS
<1>2. SubSeq(t, m + 1, n) = [i \in 1..Len(s) |-> t[m + i]]
  BY <1>1
<1> QED BY <1>1, <1>2

\* Two sequences with a symbol between them.
Joined(s, a, c, b) ==
  /\ Len(s) = Len(a) + 1 + Len(b)
  /\ \A i \in 1..Len(a) : s[i] = a[i]
  /\ s[Len(a) + 1] = c
  /\ \A i \in 1..Len(b) : s[Len(a) + 1 + i] = b[i]

\* Concatenation joins.
LEMMA JoinedIs ==
  ASSUME NEW S, NEW a \in Seq(S), NEW c \in S, NEW b \in Seq(S)
  PROVE  a \o <<c>> \o b \in Seq(S) /\ Joined(a \o <<c>> \o b, a, c, b)
<1>1. /\ a \o <<c>> \in Seq(S) /\ Len(a \o <<c>>) = Len(a) + 1
      /\ \A i \in 1..Len(a) : (a \o <<c>>)[i] = a[i]
      /\ (a \o <<c>>)[Len(a) + 1] = c
      /\ Len(a) \in Nat /\ Len(b) \in Nat
  OBVIOUS
<1> DEFINE h == a \o <<c>>
<1> HIDE DEF h
<1>2. /\ h \in Seq(S) /\ Len(h) = Len(a) + 1
      /\ \A i \in 1..Len(a) : h[i] = a[i]
      /\ h[Len(a) + 1] = c
  BY <1>1 DEF h
<1>3. /\ h \o b \in Seq(S) /\ Len(h \o b) = Len(h) + Len(b)
      /\ \A i \in 1..Len(h) : (h \o b)[i] = h[i]
      /\ \A i \in 1..Len(b) : (h \o b)[Len(h) + i] = b[i]
  BY <1>2
<1>4. \A i \in 1..Len(a) : i \in 1..Len(h)
  BY <1>1, <1>2
<1>5. Len(a) + 1 \in 1..Len(h)
  BY <1>1, <1>2
<1>6. Joined(h \o b, a, c, b)
  BY <1>1, <1>2, <1>3, <1>4, <1>5 DEF Joined
<1> QED BY <1>3, <1>6 DEF h

\* Cutting at the last separator gives the two sequences back.
LEMMA Parted ==
  ASSUME NEW S, NEW a \in Seq(S), NEW c \in S, NEW b \in Seq(S), NEW s \in Seq(S),
         Joined(s, a, c, b), \A i \in 1..Len(b) : b[i] # c
  PROVE  /\ SubSeq(s, 1, Len(a)) = a
         /\ SubSeq(s, Len(a) + 2, Len(s)) = b
         /\ LastIndexOf(s, c) = Len(a) + 1
<1>1. Len(a) \in Nat /\ Len(b) \in Nat /\ Len(s) \in Nat
  OBVIOUS
<1>2. /\ Len(s) = Len(a) + 1 + Len(b)
      /\ \A i \in 1..Len(a) : s[i] = a[i]
      /\ s[Len(a) + 1] = c
      /\ \A i \in 1..Len(b) : s[Len(a) + 1 + i] = b[i]
  BY DEF Joined
<1>3. SubSeq(s, 0 + 1, Len(a)) = a
  <2>1. /\ 0 \in Nat /\ Len(a) = 0 + Len(a) /\ Len(a) <= Len(s)
        /\ \A i \in 1..Len(a) : s[0 + i] = a[i]
    BY <1>1, <1>2
  <2> QED BY ONLY <1>1, <2>1, a \in Seq(S), s \in Seq(S), StretchIs
<1>4. SubSeq(s, (Len(a) + 1) + 1, Len(s)) = b
  <2>1. /\ Len(a) + 1 \in Nat /\ Len(s) = (Len(a) + 1) + Len(b) /\ Len(s) <= Len(s)
        /\ \A i \in 1..Len(b) : s[(Len(a) + 1) + i] = b[i]
    BY <1>1, <1>2
  <2> QED BY ONLY <1>1, <2>1, b \in Seq(S), s \in Seq(S), StretchIs
<1>5. Len(a) + 1 \in 1..Len(s)
  BY <1>1, <1>2
<1>6. LastIndexOf(s, c) = Len(a) + 1
  <2>1. \A i \in (Len(a) + 1) + 1..Len(s) : s[i] # c
    <3> SUFFICES ASSUME NEW i \in (Len(a) + 1) + 1..Len(s) PROVE s[i] # c
      OBVIOUS
    <3>1. i - (Len(a) + 1) \in 1..Len(b) /\ Len(a) + 1 + (i - (Len(a) + 1)) = i
      BY <1>1, <1>2
    <3>2. s[i] = b[i - (Len(a) + 1)]
      BY <1>2, <3>1
    <3> QED BY <3>1, <3>2
  <2> QED BY ONLY <1>1, <1>2, <1>5, <2>1, LastAt
<1>7. 0 + 1 = 1 /\ (Len(a) + 1) + 1 = Len(a) + 2
  BY <1>1
<1> QED BY <1>3, <1>4, <1>6, <1>7

\* Any sequence of symbols, strings or not.
LEMMA Widened ==
  ASSUME NEW S, NEW T, S \subseteq T, NEW s \in Seq(S)
  PROVE  s \in Seq(T)
OBVIOUS

\* The namespace and the class that the author wrote.
LEMMA TypeNames ==
  ASSUME NEW id, WellNamed(id)
  PROVE  NamespaceOf(TypeName(id)) = id.namespace /\ ClassOf(TypeName(id)) = id.class
<1> DEFINE T == STRING \cup {"."}
           a == id.namespace
           b == id.class
           s == a \o <<".">> \o b
<1>1. a \in Seq(STRING) /\ b \in Seq(STRING)
  <2>1. "namespace" \in Levels /\ "class" \in Levels
    BY DEF Levels
  <2> QED BY <2>1 DEF WellNamed
<1>2. a \in Seq(T) /\ b \in Seq(T) /\ "." \in T
  <2>1. STRING \subseteq T /\ "." \in T
    OBVIOUS
  <2> HIDE DEF T, a, b
  <2> QED BY ONLY <1>1, <2>1, Widened
<1>3. \A i \in 1..Len(b) : b[i] # "."
  <2>1. DOMAIN b = 1..Len(b)
    BY <1>1
  <2> QED BY <2>1 DEF WellNamed
<1>4. Len(a) \in Nat /\ Len(b) \in Nat /\ SubSeq(b, 1, Len(b)) = b
  BY <1>2
<1>5. TypeName(id) = IF a = <<>> THEN b ELSE s
  BY DEF TypeName
<1> HIDE DEF T, a, b
<1>6. CASE a = <<>>
  <2>1. LastIndexOf(b, ".") = 0
    BY <1>3, LastNone
  <2>2. SubSeq(b, 1, 0 - 1) = <<>> /\ SubSeq(b, 0 + 1, Len(b)) = b
    BY <1>2, <1>4
  <2>3. TypeName(id) = b
    BY <1>5, <1>6
  <2> QED BY <1>6, <2>1, <2>2, <2>3 DEF NamespaceOf, ClassOf, a, b
<1>7. CASE a # <<>>
  <2>1. s \in Seq(T) /\ Joined(s, a, ".", b)
    BY <1>2, JoinedIs
  <2>2. TypeName(id) = s
    BY <1>5, <1>7
  <2> HIDE DEF s
  <2>3. /\ SubSeq(s, 1, Len(a)) = a /\ SubSeq(s, Len(a) + 2, Len(s)) = b
        /\ LastIndexOf(s, ".") = Len(a) + 1
    BY <1>2, <1>3, <2>1, Parted
  <2>4. (Len(a) + 1) - 1 = Len(a) /\ (Len(a) + 1) + 1 = Len(a) + 2
    BY <1>4
  <2>5. NamespaceOf(s) = a /\ ClassOf(s) = b
    BY <2>3, <2>4 DEF NamespaceOf, ClassOf
  <2> QED BY <2>2, <2>5 DEF a, b
<1> QED BY <1>6, <1>7

\* The assembly's name out of the path of its module.
LEMMA AssemblyNames ==
  ASSUME NEW id, WellNamed(id)
  PROVE  AssemblyOf(ModulePath(id)) = id.assembly
<1> DEFINE T == STRING \cup {".", "/", "bin", "dll"}
           a == id.assembly
           bin == <<"bin">>
           dll == <<"dll">>
           file == a \o <<".">> \o dll
           path == bin \o <<"/">> \o file
<1>1. a \in Seq(T)
  <2>1. a \in Seq(STRING)
    <3>1. "assembly" \in Levels
      BY DEF Levels
    <3> QED BY <3>1 DEF WellNamed
  <2>2. STRING \subseteq T
    OBVIOUS
  <2> HIDE DEF T, a
  <2> QED BY ONLY <2>1, <2>2, Widened
<1>2. "." \in T /\ "/" \in T /\ bin \in Seq(T) /\ dll \in Seq(T)
  <2>1. "." \in T /\ "/" \in T /\ "bin" \in T /\ "dll" \in T
    OBVIOUS
  <2> HIDE DEF T
  <2> QED BY <2>1
<1>3. \A i \in 1..Len(a) : a[i] # "/"
  <2>1. DOMAIN a = 1..Len(a)
    BY <1>1
  <2> QED BY <2>1 DEF WellNamed
<1>4. /\ Len(bin) = 1 /\ Len(dll) = 1
      /\ \A i \in 1..Len(dll) : dll[i] # "." /\ dll[i] # "/"
      /\ "." # "/"
  OBVIOUS
<1>5. ModulePath(id) = <<"bin", "/">> \o a \o <<".", "dll">>
  BY DEF ModulePath
<1>6. <<"bin", "/">> = bin \o <<"/">> /\ <<".", "dll">> = <<".">> \o dll
  OBVIOUS
<1> HIDE DEF T, a, bin, dll
<1>7. file \in Seq(T) /\ Joined(file, a, ".", dll)
  BY <1>1, <1>2, JoinedIs
<1>8. path \in Seq(T) /\ Joined(path, bin, "/", file)
  <2> HIDE DEF file
  <2> QED BY <1>2, <1>7, JoinedIs
<1>9. ModulePath(id) = path
  <2>1. <<".">> \in Seq(T) /\ <<"/">> \in Seq(T)
    BY <1>2
  <2>2. a \o (<<".">> \o dll) = file
    BY <1>1, <1>2, <2>1, ConcatAssociative
  <2>3. (bin \o <<"/">>) \o a \o (<<".">> \o dll) = (bin \o <<"/">>) \o (a \o (<<".">> \o dll))
    <3>1. bin \o <<"/">> \in Seq(T) /\ <<".">> \o dll \in Seq(T)
      BY <1>2, <2>1
    <3> QED BY <1>1, <3>1, ConcatAssociative
  <2> QED BY <1>5, <1>6, <2>2, <2>3
<1> HIDE DEF file, path
<1>10. Len(file) \in Nat /\ Len(a) \in Nat /\ Len(file) = Len(a) + 1 + Len(dll)
  BY <1>1, <1>7 DEF Joined
<1>11. LastIndexOf(path, "/") = 2 /\ SubSeq(path, 3, Len(path)) = file
  <2>1. \A i \in 1..Len(file) : file[i] # "/"
    <3> SUFFICES ASSUME NEW i \in 1..Len(file) PROVE file[i] # "/"
      OBVIOUS
    <3>1. i \in 1..Len(a) \/ i = Len(a) + 1 \/ (i = Len(a) + 1 + 1 /\ 1 \in 1..Len(dll))
      BY <1>4, <1>10
    <3> QED BY <1>3, <1>4, <1>7, <3>1 DEF Joined
  <2>2. Len(bin) + 1 = 2 /\ Len(bin) + 2 = 3
    BY <1>4
  <2>3. /\ SubSeq(path, Len(bin) + 2, Len(path)) = file
        /\ LastIndexOf(path, "/") = Len(bin) + 1
    BY <1>2, <1>7, <1>8, <2>1, Parted
  <2> QED BY <2>2, <2>3
<1>12. SubSeq(file, 1, Len(a)) = a /\ LastIndexOf(file, ".") = Len(a) + 1
  BY <1>1, <1>2, <1>4, <1>7, Parted
<1>13. 2 + 1 = 3 /\ Len(a) + 1 # 0 /\ (Len(a) + 1) - 1 = Len(a)
  BY <1>10
<1> QED BY <1>9, <1>11, <1>12, <1>13 DEF AssemblyOf, a

\* The name of an async method out of the name of its state machine.
LEMMA AuthorNames ==
  ASSUME NEW id, WellNamed(id), IsAsyncStateMachine(id.class, id.method)
  PROVE  ExtractOriginalMethodName(id.class) = id.author /\ id.author # <<>>
<1> DEFINE T == STRING \cup {"<", ">"}
           a == id.author
           b == id.class
           h == <<"<">> \o a \o <<">">>
<1>1. /\ a \in Seq(STRING) /\ a # <<>> /\ b \in Seq(STRING)
      /\ \A i \in DOMAIN a : a[i] # ">"
      /\ IsPrefix(h, b)
  <2>1. "class" \in Levels
    BY DEF Levels
  <2> QED BY <2>1 DEF WellNamed
<1> HIDE DEF a, b
<1>2. a \in Seq(T) /\ b \in Seq(T) /\ <<"<">> \in Seq(T) /\ <<">">> \in Seq(T)
  <2>1. STRING \subseteq T /\ "<" \in T /\ ">" \in T
    OBVIOUS
  <2> HIDE DEF T
  <2>2. a \in Seq(T) /\ b \in Seq(T)
    BY ONLY <1>1, <2>1, Widened
  <2> QED BY <2>1, <2>2
<1>3. "<" # ">"
  OBVIOUS
<1> HIDE DEF T
<1>4. Len(a) \in Nat /\ Len(a) # 0 /\ Len(b) \in Nat
  BY <1>1, <1>2
<1>5. /\ h \in Seq(T) /\ Len(h) = Len(a) + 2 /\ h[1] = "<" /\ h[Len(a) + 2] = ">"
      /\ \A i \in 1..Len(a) : h[i + 1] = a[i]
  BY <1>2
<1> HIDE DEF h
<1>6. Len(h) <= Len(b) /\ \A i \in 1..Len(h) : h[i] = b[i]
  BY <1>1, <1>2, <1>5, PrefixIs
<1>7. /\ b[1] = "<" /\ b[Len(a) + 2] = ">" /\ Len(a) + 2 \in 1..Len(b)
      /\ \A i \in 1..Len(a) : b[1 + i] = a[i]
  <2>1. /\ 1 \in 1..Len(h) /\ Len(a) + 2 \in 1..Len(h)
        /\ \A i \in 1..Len(a) : i + 1 \in 1..Len(h) /\ 1 + i = i + 1
    BY <1>4, <1>5
  <2> QED BY <1>4, <1>5, <1>6, <2>1
<1>8. SelectInSeq(b, LAMBDA x : x = ">") = Len(a) + 2
  <2> DEFINE k == Len(a) + 2
  <2>1. \A i \in 1..k - 1 : b[i] # ">"
    <3> SUFFICES ASSUME NEW i \in 1..k - 1 PROVE b[i] # ">"
      OBVIOUS
    <3>1. DOMAIN a = 1..Len(a)
      BY <1>2
    <3>2. i = 1 \/ (i - 1 \in 1..Len(a) /\ 1 + (i - 1) = i)
      BY <1>4
    <3> QED BY <1>1, <1>3, <1>7, <3>1, <3>2
  <2>2. k \in 1..Len(b) /\ b[k] = ">"
    BY <1>7
  <2> HIDE DEF k
  <2>3. SelectInSeq(b, LAMBDA x : x = ">") = k
    BY ONLY <1>4, <2>1, <2>2, FirstAt
  <2> QED BY <2>3 DEF k
<1>9. SubSeq(b, 2, Len(a) + 1) = a
  <2>1. /\ 1 \in Nat /\ Len(a) + 1 \in Nat /\ Len(a) + 1 = 1 + Len(a) /\ Len(a) + 1 <= Len(b)
        /\ \A i \in 1..Len(a) : b[1 + i] = a[i]
    BY <1>4, <1>7
  <2>2. SubSeq(b, 1 + 1, Len(a) + 1) = a
    BY ONLY <1>2, <2>1, StretchIs
  <2> QED BY <2>2
<1>10. b # <<>> /\ Len(a) + 2 > 2 /\ (Len(a) + 2) - 1 = Len(a) + 1
  <2>1. Len(b) # 0
    BY <1>4, <1>7
  <2> QED BY <1>4, <2>1
<1>11. ExtractOriginalMethodName(b) = a
  BY <1>7, <1>8, <1>9, <1>10 DEF ExtractOriginalMethodName
<1> QED BY <1>1, <1>11 DEF a, b

\* A resolution whose metadata calls all succeed has the author's names.
LEMMA NamesKept ==
  ASSUME NEW id, WellNamed(id)
  PROVE  \A level \in Levels : ResolvedNames(id, "none")[level] = id[level]
<1> DEFINE names == ResolvedNames(id, "none")
<1>1. /\ names.assembly = AssemblyOf(ModulePath(id))
      /\ names.namespace = NamespaceOf(TypeName(id))
      /\ names.class = ClassOf(TypeName(id))
      /\ names.method = id.method
  BY DEF ResolvedNames
<1> HIDE DEF names
<1>2. /\ names.assembly = id.assembly /\ names.namespace = id.namespace
      /\ names.class = id.class /\ names.method = id.method
  BY <1>1, AssemblyNames, TypeNames
<1>3. \A level \in Levels : level \in {"assembly", "namespace", "class", "method"}
  BY DEF Levels
<1>4. \A level \in Levels : names[level] = id[level]
  BY <1>2, <1>3
<1> QED BY <1>4 DEF names

-----------------------------------------------------------------------------
(* The entries.                                                            *)

\* An entry is what resolving some method under the configured filters gave.
Made(info) ==
  \E id \in Identities, failed \in Failures : info = Resolved(filters, id, failed)

\* Every entry, in the cache or about to be inserted, was made so.
MadeInv ==
  /\ TypeOK
  /\ \A f \in Functions : cache[f] # NoInfo => Made(cache[f])
  /\ \A t \in Threads : call[t].pc = "insert" => Made(call[t].info)

LEMMA MadeInit == Init => MadeInv
BY TypeInit DEF Init, MadeInv, NoCall

\* Resolving makes an entry, inserting moves it into the cache.
LEMMA MadeStep == MadeInv /\ [Next]_vars => MadeInv'
<1> SUFFICES ASSUME MadeInv, [Next]_vars PROVE MadeInv'
  OBVIOUS
<1>1. TypeOK /\ TypeOK'
  BY TypeStep DEF MadeInv
<1>2. filters' = filters
  BY DEF Next, vars, runtimeVars, Begin, Resolve, Insert, Answer, Enter, Leave, Unwind, Unload
<1>3. \A info : Made(info) => Made(info)'
  BY <1>2 DEF Made
\* Steps that neither fill the cache nor have a thread ready to.
<1>4. ASSUME UNCHANGED cache,
             \A t \in Threads : call'[t].pc = "insert" => call'[t] = call[t]
      PROVE  MadeInv'
  BY <1>1, <1>2, <1>4 DEF MadeInv, Made
<1>5. ASSUME NEW t \in Threads, NEW c, c.pc # "insert", call' = [call EXCEPT ![t] = c]
      PROVE  \A u \in Threads : call'[u].pc = "insert" => call'[u] = call[u]
  BY <1>1, <1>5 DEF TypeOK
<1>6. \A t \in Threads : AfterResolve(call[t]).pc # "insert" /\ NoCall.pc # "insert"
  BY <1>1 DEF TypeOK, AfterResolve, NoCall
<1>7. ASSUME NEW t \in Threads, NEW f \in Functions, NEW kind \in {"jit", "map"},
             Begin(t, f, kind)
      PROVE  MadeInv'
  <2> DEFINE c == [pc |-> "resolve", f |-> f, kind |-> kind, info |-> NoInfo]
             d == IF cache[f] # NoInfo THEN AfterResolve(c) ELSE c
  <2>1. d.pc # "insert"
    BY DEF AfterResolve, NoCall
  <2>2. call' = [call EXCEPT ![t] = d] /\ UNCHANGED cache
    BY <1>7 DEF Begin
  <2> HIDE DEF d
  <2> QED BY <1>4, <1>5, <2>1, <2>2
<1>8. ASSUME NEW t \in Threads, Resolve(t) PROVE MadeInv'
  <2>1. PICK failed \in Failures :
          call' = [call EXCEPT ![t] =
                     [call[t] EXCEPT !.pc = "insert",
                                     !.info = Resolved(filters, code[call[t].f], failed)]]
    BY <1>8 DEF Resolve
  <2> DEFINE info == Resolved(filters, code[call[t].f], failed)
  <2>2. Made(info)
    <3>1. code[call[t].f] \in Identities
      BY <1>1, <1>8 DEF TypeOK, Resolve
    <3> QED BY <3>1 DEF Made
  <2>3. call' = [call EXCEPT ![t] = [call[t] EXCEPT !.pc = "insert", !.info = info]]
    BY <2>1
  <2>4. UNCHANGED cache
    BY <1>8 DEF Resolve
  <2> HIDE DEF info
  <2>5. ASSUME NEW u \in Threads, call'[u].pc = "insert"
        PROVE  Made(call'[u].info)
    <3>1. CASE u = t
      <4>1. call'[u].info = info
        BY <1>1, <2>3, <3>1 DEF TypeOK
      <4> QED BY <2>2, <4>1
    <3>2. CASE u # t
      <4>1. call'[u] = call[u]
        BY <1>1, <2>3, <3>2 DEF TypeOK
      <4> QED BY <2>5, <4>1 DEF MadeInv
    <3> QED BY <3>1, <3>2
  <2>6. \A f \in Functions : cache'[f] # NoInfo => Made(cache'[f])
    BY <2>4 DEF MadeInv
  <2> QED BY <1>1, <1>2, <2>5, <2>6 DEF MadeInv, Made
<1>9. ASSUME NEW t \in Threads, Insert(t) PROVE MadeInv'
  <2>1. /\ cache' = [cache EXCEPT ![call[t].f] =
                       IF cache[call[t].f] = NoInfo THEN call[t].info ELSE cache[call[t].f]]
        /\ call' = [call EXCEPT ![t] = AfterResolve(call[t])]
        /\ Made(call[t].info)
    BY <1>9 DEF Insert, MadeInv
  <2>2. \A u \in Threads : call'[u].pc = "insert" => call'[u] = call[u]
    BY <1>5, <1>6, <2>1
  <2>3. \A u \in Threads : call'[u].pc = "insert" => Made(call'[u].info)
    BY <2>2 DEF MadeInv
  <2>4. \A f \in Functions : cache'[f] # NoInfo => Made(cache'[f])
    <3> SUFFICES ASSUME NEW f \in Functions, cache'[f] # NoInfo PROVE Made(cache'[f])
      OBVIOUS
    <3>1. (cache'[f] = cache[f] /\ cache[f] # NoInfo) \/ cache'[f] = call[t].info
      BY <1>1, <2>1 DEF TypeOK
    <3> QED BY <2>1, <3>1 DEF MadeInv
  <2> QED BY <1>1, <1>2, <2>3, <2>4 DEF MadeInv, Made
<1>10. ASSUME NEW t \in Threads, Answer(t) PROVE MadeInv'
  BY <1>4, <1>5, <1>6, <1>10 DEF Answer
<1>11. ASSUME NEW t \in Threads, NEW f \in Functions, Enter(t, f) PROVE MadeInv'
  BY <1>4, <1>11 DEF Enter
<1>12. ASSUME NEW t \in Threads, Leave(t) PROVE MadeInv'
  BY <1>4, <1>12 DEF Leave
<1>13. ASSUME NEW t \in Threads, Unwind(t) PROVE MadeInv'
  BY <1>4, <1>13 DEF Unwind
<1>14. ASSUME NEW f \in Functions, NEW id \in Identities, Unload(f, id) PROVE MadeInv'
  BY <1>4, <1>14 DEF Unload
<1>15. CASE UNCHANGED vars
  BY <1>4, <1>15 DEF vars
<1> QED BY <1>7, <1>8, <1>9, <1>10, <1>11, <1>12, <1>13, <1>14, <1>15 DEF Next

\* What a complete entry of the cache is.
LEMMA CompleteEntry ==
  ASSUME MadeInv, NEW f \in Functions, Complete(f)
  PROVE  /\ cache[f].of \in Identities /\ WellNamed(cache[f].of)
         /\ cache[f] = Resolved(filters, cache[f].of, "none")
<1>1. cache[f] # NoInfo /\ cache[f].failed = "none"
  BY DEF Complete
<1>2. PICK id \in Identities, failed \in Failures : cache[f] = Resolved(filters, id, failed)
  BY <1>1 DEF MadeInv, Made
<1>3. \A rules : /\ Resolved(rules, id, failed).of = id
                 /\ Resolved(rules, id, failed).failed = failed
  <2>1. CASE failed = "function"
    BY <2>1 DEF Resolved
  <2>2. CASE failed # "function"
    BY <2>2 DEF Resolved
  <2> QED BY <2>1, <2>2
<1>4. cache[f].of = id /\ failed = "none"
  BY <1>1, <1>2, <1>3
<1> QED BY <1>2, <1>4, NamesAssumption

\* The fields of an entry whose metadata calls all succeeded.
LEMMA CompleteResolved ==
  ASSUME NEW rules, NEW id, NEW info, info = Resolved(rules, id, "none")
  PROVE  LET names == ResolvedNames(id, "none")
             async == IsAsyncStateMachine(names.class, names.method)
         IN  /\ info.names = names
             /\ info.isIncluded = EvaluateFilters(rules, names)
             /\ info.isAsync = async
             /\ info.original = IF async THEN ExtractOriginalMethodName(names.class) ELSE <<>>
<1>1. "none" # "function"
  OBVIOUS
<1> QED BY <1>1 DEF Resolved

\* So the names are the author's.
LEMMA MadeNames == MadeInv => NamesExact
<1> SUFFICES ASSUME MadeInv, NEW f \in Functions, Complete(f)
             PROVE  /\ \A level \in Levels : cache[f].names[level] = cache[f].of[level]
                    /\ DisplayName(cache[f]) = cache[f].of.author
  BY DEF NamesExact
<1> DEFINE info == cache[f]
           id == cache[f].of
           names == ResolvedNames(id, "none")
           async == IsAsyncStateMachine(names.class, names.method)
<1>1. WellNamed(id) /\ info = Resolved(filters, id, "none")
  BY CompleteEntry
<1>2. /\ info.names = names /\ info.isAsync = async
      /\ info.original = IF async THEN ExtractOriginalMethodName(names.class) ELSE <<>>
  <2> HIDE DEF info, id
  <2> QED BY <1>1, CompleteResolved
<1>3. \A level \in Levels : names[level] = id[level]
  <2> HIDE DEF id
  <2> QED BY <1>1, NamesKept
<1>4. names.class = id.class /\ names.method = id.method
  <2>1. "class" \in Levels /\ "method" \in Levels
    BY DEF Levels
  <2> HIDE DEF names, id
  <2> QED BY <1>3, <2>1
<1> HIDE DEF info, id, names
<1>5. DisplayName(info) = id.author
  <2>1. CASE async
    <3>1. ExtractOriginalMethodName(id.class) = id.author /\ id.author # <<>>
      BY <1>1, <1>4, <2>1, AuthorNames
    <3> QED BY <1>2, <1>4, <2>1, <3>1 DEF DisplayName
  <2>2. CASE ~async
    <3>1. id.author = id.method
      BY <1>1, <1>4, <2>2 DEF WellNamed
    <3> QED BY <1>2, <1>4, <2>2, <3>1 DEF DisplayName
  <2> QED BY <2>1, <2>2
<1> QED BY <1>2, <1>3, <1>5 DEF info, id

\* And the decision, rule by rule, is the documented one.
LEMMA MadeDecisions == MadeInv => DecisionExact
<1> SUFFICES ASSUME MadeInv, SimpleFilters, NEW f \in Functions, Complete(f)
             PROVE  cache[f].isIncluded <=> DocumentedDecision(filters, cache[f].of)
  BY DEF DecisionExact
<1> DEFINE info == cache[f]
           id == cache[f].of
           names == ResolvedNames(id, "none")
           Matches(rule) == rule.level \in Levels /\ GlobMatch(rule.pattern, id[rule.level])
<1>1. WellNamed(id) /\ info = Resolved(filters, id, "none")
  BY CompleteEntry
<1>2. info.isIncluded = EvaluateFilters(filters, names)
  <2> HIDE DEF info, id
  <2> QED BY <1>1, CompleteResolved
<1>3. \A level \in Levels : names[level] = id[level]
  <2> HIDE DEF id
  <2> QED BY <1>1, NamesKept
<1> HIDE DEF info, id, names
<1>4. ASSUME NEW rule \in filters.includes \cup filters.excludes
      PROVE  MatchesRule(rule, names) <=> Matches(rule)
  <2>1. filters \in Filters
    BY DEF MadeInv, TypeOK
  <2>2. rule.pattern \in Seq(STRING)
    BY <2>1, NamesAssumption
  <2>3. SimplePattern(rule.pattern)
    BY DEF SimpleFilters
  <2>4. CASE rule.level \in Levels
    <3>1. id[rule.level] \in Seq(STRING) /\ names[rule.level] = id[rule.level]
      BY <1>1, <1>3, <2>4 DEF WellNamed
    <3>2. SimpleGlobMatch(rule.pattern, id[rule.level]) <=> GlobMatch(rule.pattern, id[rule.level])
      BY ONLY <2>2, <2>3, <3>1, GlobSimple
    <3> QED BY <2>4, <3>1, <3>2 DEF MatchesRule
  <2>5. CASE rule.level \notin Levels
    BY <2>5 DEF MatchesRule
  <2> QED BY <2>4, <2>5
<1> HIDE DEF Matches
<1>5. EvaluateFilters(filters, names) <=>
        /\ filters.includes # {} => \E rule \in filters.includes : Matches(rule)
        /\ \A rule \in filters.excludes : ~Matches(rule)
  BY <1>4 DEF EvaluateFilters
<1>6. DocumentedDecision(filters, id) <=>
        /\ filters.includes # {} => \E rule \in filters.includes : Matches(rule)
        /\ \A rule \in filters.excludes : ~Matches(rule)
  BY DEF DocumentedDecision, Matches
<1> QED BY <1>2, <1>5, <1>6 DEF info, id

\* A complete entry has the names its author gave the method, whatever the
\* races and the reuse of FunctionIDs.
THEOREM NamesCorrect == Spec => []NamesExact
BY MadeInit, MadeStep, MadeNames, PTL DEF Spec

\* A complete entry's decision is the documented one about the method it was
\* made for, for all filters without wildcards in unsupported places.
THEOREM DecisionsDocumented == Spec => []DecisionExact
BY MadeInit, MadeStep, MadeDecisions, PTL DEF Spec
=============================================================================
