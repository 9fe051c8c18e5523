------------------------ MODULE StatsAggregatorProofs ------------------------
(***************************************************************************)
(* What holds of the statistics for any number of threads, methods, calls  *)
(* and signals, with or without timer, semaphore and failures.             *)
(***************************************************************************)
EXTENDS StatsAggregator, SequenceTheorems, TLAPS

-----------------------------------------------------------------------------
(* The type invariant.                                                     *)

\* A recorded call gets the next number; the keys of the others stay.
LEMMA RecordedCall ==
  ASSUME NEW k \in Keys, keyOf \in Seq(Keys), keyOf' = Append(keyOf, k)
  PROVE  /\ keyOf' \in Seq(Keys)
         /\ Calls' = Calls \cup {Len(keyOf) + 1}
         /\ Len(keyOf) + 1 \notin Calls
         /\ \A x \in Calls : keyOf'[x] = keyOf[x]
<1>1. Len(keyOf) \in Nat
  BY LenProperties
<1>2. /\ keyOf' \in Seq(Keys)
      /\ Len(keyOf') = Len(keyOf) + 1
      /\ \A i \in 1..Len(keyOf) : keyOf'[i] = keyOf[i]
  BY AppendProperties
<1> QED BY <1>1, <1>2 DEF Calls

LEMMA InitTypeOK == Init => TypeOK
<1> SUFFICES ASSUME Init PROVE TypeOK
  OBVIOUS
<1>1. keyOf \in Seq(Keys) /\ registry \in Seq(Threads)
  BY EmptySeq DEF Init
<1>2. \A t \in Threads : statsLock[t] # t
  BY NamesAssumption DEF Init
<1>3. /\ statsLock \in [Threads -> Threads \cup {None}]
      /\ pend \in [Threads -> SUBSET Calls]
  BY DEF Init
<1>4. /\ cpc \in [Collectors -> {"idle", "lock", "collect", "write", "sync"}]
      /\ pos \in [Collectors -> Nat \ {0}]
      /\ merged \in [Collectors -> SUBSET Calls]
      /\ snapshot \in [Collectors -> SUBSET Calls]
  BY DEF Init
<1> QED BY <1>1, <1>2, <1>3, <1>4 DEF Init, TypeOK

LEMMA NextTypeOK == TypeOK /\ [Next]_vars => TypeOK'
<1> SUFFICES ASSUME TypeOK, [Next]_vars PROVE TypeOK'
  OBVIOUS
<1> USE DEF recordVars, flushVars, collectVars, outVars, endVars
<1>1. ASSUME NEW t \in Threads, EnterCallback(t) PROVE TypeOK'
  BY <1>1 DEF EnterCallback, TypeOK, Calls
<1>2. ASSUME NEW t \in Threads, Register(t) PROVE TypeOK'
  <2>1. registry' \in Seq(Threads)
    BY <1>2, AppendProperties DEF Register, TypeOK
  <2> QED BY <1>2, <2>1 DEF Register, TypeOK, Calls
<1>3. ASSUME NEW t \in Threads, NEW k \in Keys, BeginRecord(t, k) PROVE TypeOK'
  <2>1. loaded'[t] \in Keys \X SUBSET Calls
    <3>1. {x \in pend[t] : keyOf[x] = k} \subseteq Calls
      BY DEF TypeOK
    <3>2. loaded'[t] = <<k, {x \in pend[t] : keyOf[x] = k}>>
      BY <1>3 DEF BeginRecord, TypeOK
    <3> QED BY <3>1, <3>2
  <2>2. \A u \in Threads \ {t} : loaded'[u] = loaded[u] /\ statsLock'[u] = statsLock[u]
    BY <1>3 DEF BeginRecord, TypeOK
  <2>3. DOMAIN loaded' = Threads /\ statsLock' \in [Threads -> Threads \cup {None}]
    BY <1>3 DEF BeginRecord, TypeOK
  <2>4. UNCHANGED <<inside, keyOf, registry, pend, registryLock, flushVars, collectVars, outVars,
                    endVars>>
    BY <1>3 DEF BeginRecord
  <2> QED BY <2>1, <2>2, <2>3, <2>4 DEF TypeOK, Calls
<1>4. ASSUME NEW t \in Threads, EndRecord(t) PROVE TypeOK'
  <2>1. loaded[t] \in Keys \X SUBSET Calls
    BY <1>4 DEF EndRecord, TypeOK
  <2>2. keyOf' = Append(keyOf, loaded[t][1])
    BY <1>4 DEF EndRecord
  <2>3. /\ keyOf' \in Seq(Keys)
        /\ Calls' = Calls \cup {Len(keyOf) + 1}
    BY <2>1, <2>2, RecordedCall DEF TypeOK
  <2>4. pend' \in [Threads -> SUBSET Calls']
    <3>1. pend' = [pend EXCEPT ![t] = {x \in pend[t] : keyOf[x] # loaded[t][1]}
                                        \cup loaded[t][2] \cup {Len(keyOf) + 1}]
      BY <1>4 DEF EndRecord
    <3> QED BY <2>1, <2>3, <3>1 DEF TypeOK
  <2>5. \A u \in Threads : statsLock'[u] = u => loaded'[u] \in Keys \X SUBSET Calls'
    <3> SUFFICES ASSUME NEW u \in Threads, statsLock'[u] = u
                 PROVE  loaded'[u] \in Keys \X SUBSET Calls'
      OBVIOUS
    <3>1. u # t
      BY <1>4, NamesAssumption DEF EndRecord, TypeOK
    <3>2. loaded'[u] = loaded[u] /\ statsLock[u] = u
      BY <1>4, <3>1 DEF EndRecord, TypeOK
    <3> QED BY <2>3, <3>2 DEF TypeOK
  <2> QED BY <1>4, <2>3, <2>4, <2>5 DEF EndRecord, TypeOK
<1>5. CASE StartPeriodicFlush
  BY <1>5, StatsAssumption DEF StartPeriodicFlush, TypeOK, Calls
<1>6. CASE SignalFlush
  BY <1>6 DEF SignalFlush, TypeOK, Calls
<1>7. CASE Poll
  BY <1>7 DEF Poll, TypeOK, Calls, Collectors
<1>8. CASE WaitShutdown \/ WaitError
  BY <1>8 DEF WaitShutdown, WaitError, TypeOK, Calls
<1>9. CASE WaitTimeout
  BY <1>9 DEF WaitTimeout, TypeOK, Calls, Collectors
<1>10. ASSUME NEW c \in Collectors, BeginCollect(c) PROVE TypeOK'
  BY <1>10 DEF BeginCollect, TypeOK, Calls
<1>11. ASSUME NEW c \in Collectors, SwapThread(c) PROVE TypeOK'
  <2>1. pos[c] \in Nat \ {0} /\ pos[c] <= Len(registry)
    BY <1>11 DEF SwapThread, TypeOK
  <2>2. registry[pos[c]] \in Threads
    BY <2>1, ElementOfSeq, LenProperties DEF TypeOK
  <2>3. merged' \in [Collectors -> SUBSET Calls]
    BY <1>11, <2>2 DEF SwapThread, TypeOK
  <2>4. pend' \in [Threads -> SUBSET Calls]
    BY <1>11, <2>2 DEF SwapThread, TypeOK
  <2>5. pos' \in [Collectors -> Nat \ {0}]
    BY <1>11, <2>1 DEF SwapThread, TypeOK
  <2> QED BY <1>11, <2>3, <2>4, <2>5 DEF SwapThread, TypeOK, Calls
<1>12. ASSUME NEW c \in Collectors, EndCollect(c) PROVE TypeOK'
  BY <1>12 DEF EndCollect, TypeOK, Calls
<1>13. ASSUME NEW c \in Collectors, NEW k \in Keys, WriteLine(c, k) PROVE TypeOK'
  BY <1>13 DEF WriteLine, TypeOK, Calls
<1>14. ASSUME NEW c \in Collectors, EndWrite(c) PROVE TypeOK'
  BY <1>14 DEF EndWrite, TypeOK, Calls
<1>15. ASSUME NEW c \in Collectors, Sync(c) PROVE TypeOK'
  BY <1>15 DEF Sync, TypeOK, Calls
<1>16. CASE StopSignal \/ StopJoin
  BY <1>16 DEF StopSignal, StopJoin, TypeOK, Calls, Collectors
<1>17. CASE Drain \/ Kill
  BY <1>17 DEF Drain, Kill, TypeOK, Calls
<1>18. CASE UNCHANGED vars
  BY <1>18 DEF vars, TypeOK, Calls
<1> QED
  BY <1>1, <1>2, <1>3, <1>4, <1>5, <1>6, <1>7, <1>8, <1>9, <1>10, <1>11, <1>12, <1>13,
     <1>14, <1>15, <1>16, <1>17, <1>18
  DEF Next, FlushThread, ShutdownThread, Collect, Collectors, Terminated

(* Whatever threads, timers and failures do, statistics stay well formed;   *)
(* in particular no signal is taken that was not sent (FlushThreadProc).    *)
THEOREM TypeInvariant == Spec => []TypeOK
<1>1. Init => TypeOK
  BY InitTypeOK
<1>2. TypeOK /\ [Next]_vars => TypeOK'
  BY NextTypeOK
<1> QED BY <1>1, <1>2, PTL DEF Spec

-----------------------------------------------------------------------------
(* Who collects when.                                                      *)

\* Inductive: the flush thread collects from its decision to flush to its next
\* poll, Shutdown from the join on, and the join waits for the flush thread.
ControlInv ==
  /\ cpc[Flusher] # "idle" <=> fpc = "flush"
  /\ cpc[Finalizer] # "idle" <=> spc = "final"
  /\ spc # "running" => fpc # "new"
  /\ spc \in {"final", "closed"} => fpc \in {"none", "exit"}
  /\ \A c \in Collectors : cpc[c] = "collect" <=> registryLock = c

LEMMA NextControl == TypeOK /\ ControlInv /\ [Next]_vars => ControlInv'
<1> SUFFICES ASSUME TypeOK, ControlInv, [Next]_vars PROVE ControlInv'
  OBVIOUS
<1> USE DEF recordVars, flushVars, collectVars, outVars, endVars
<1>0. ASSUME UNCHANGED <<cpc, fpc, spc, registryLock>> PROVE ControlInv'
  BY <1>0 DEF ControlInv
<1>1. ASSUME NEW t \in Threads, EnterCallback(t) \/ Register(t) \/ EndRecord(t) PROVE ControlInv'
  BY <1>0, <1>1 DEF EnterCallback, Register, EndRecord
<1>2. ASSUME NEW t \in Threads, NEW k \in Keys, BeginRecord(t, k) PROVE ControlInv'
  BY <1>0, <1>2 DEF BeginRecord
<1>3. CASE SignalFlush \/ Drain \/ Kill \/ UNCHANGED vars
  BY <1>0, <1>3 DEF SignalFlush, Drain, Kill, vars
<1>4. CASE StartPeriodicFlush
  BY <1>4 DEF StartPeriodicFlush, ControlInv
<1>5. CASE Poll
  BY <1>5 DEF Poll, ControlInv, TypeOK, Collectors, Flusher, Finalizer
<1>6. CASE WaitShutdown \/ WaitError
  BY <1>6 DEF WaitShutdown, WaitError, ControlInv
<1>7. CASE WaitTimeout
  BY <1>7 DEF WaitTimeout, ControlInv, TypeOK, Collectors, Flusher, Finalizer
<1>8. ASSUME NEW c \in Collectors, BeginCollect(c) PROVE ControlInv'
  BY <1>8 DEF BeginCollect, ControlInv, TypeOK, Collectors, Flusher, Finalizer, None
<1>9. ASSUME NEW c \in Collectors, SwapThread(c) PROVE ControlInv'
  BY <1>0, <1>9 DEF SwapThread
<1>10. ASSUME NEW c \in Collectors, EndCollect(c) PROVE ControlInv'
  BY <1>10 DEF EndCollect, ControlInv, TypeOK, Collectors, Flusher, Finalizer, None
<1>11. ASSUME NEW c \in Collectors, NEW k \in Keys, WriteLine(c, k) PROVE ControlInv'
  BY <1>0, <1>11 DEF WriteLine
<1>12. ASSUME NEW c \in Collectors, EndWrite(c) PROVE ControlInv'
  BY <1>12 DEF EndWrite, ControlInv, TypeOK, Collectors, Flusher, Finalizer
<1>13. ASSUME NEW c \in Collectors, Sync(c) PROVE ControlInv'
  BY <1>13 DEF Sync, ControlInv, TypeOK, Collectors, Flusher, Finalizer
<1>14. CASE StopSignal
  BY <1>14 DEF StopSignal, ControlInv
<1>15. CASE StopJoin
  BY <1>15 DEF StopJoin, ControlInv, TypeOK, Collectors, Flusher, Finalizer
<1> QED
  BY <1>1, <1>2, <1>3, <1>4, <1>5, <1>6, <1>7, <1>8, <1>9, <1>10, <1>11, <1>12, <1>13,
     <1>14, <1>15
  DEF Next, FlushThread, ShutdownThread, Collect, Collectors, Terminated

LEMMA Control == Spec => []ControlInv
<1>1. Init => ControlInv
  BY DEF Init, ControlInv, Collectors, Flusher, Finalizer, None
<1>2. TypeOK /\ ControlInv /\ [Next]_vars => ControlInv'
  BY NextControl
<1> QED BY <1>1, <1>2, TypeInvariant, PTL DEF Spec

(* Shutdown's final flush never overlaps the flush thread's, and a          *)
(* collection holds the registry (StatsAggregator.cpp 67, 163-179).         *)
THEOREM CollectionsExclude == Spec => []CollectorsExclude
<1>1. ControlInv => CollectorsExclude
  BY DEF ControlInv, CollectorsExclude
<1> QED BY <1>1, Control, PTL

-----------------------------------------------------------------------------
(* Calls are neither lost nor summed up twice.                             *)

\* Inductive: while a thread records it holds its own lock, is registered, and
\* the accumulator it read is still the one in its map.
RecordInv ==
  \A t \in Threads :
    /\ statsLock[t] \in {None, t}
    /\ statsLock[t] = t =>
         /\ IsRegistered(t)
         /\ loaded[t][2] = {x \in pend[t] : keyOf[x] = loaded[t][1]}
    /\ pend[t] # {} => IsRegistered(t)

\* Inductive: a collector has calls in its hands only from its collection to
\* its last line.
HandsInv == \A c \in Collectors : cpc[c] \in {"idle", "lock", "sync"} => merged[c] = {}

\* What EndRecord does: the new call joins the thread's others.
LEMMA EndRecordAdds ==
  ASSUME TypeOK, RecordInv, NEW t \in Threads, EndRecord(t)
  PROVE  /\ pend' = [pend EXCEPT ![t] = @ \cup {Len(keyOf) + 1}]
         /\ Calls' = Calls \cup {Len(keyOf) + 1}
         /\ Len(keyOf) + 1 \notin Calls
         /\ \A x \in Calls : keyOf'[x] = keyOf[x]
<1>1. /\ statsLock[t] = t
      /\ keyOf' = Append(keyOf, loaded[t][1])
      /\ pend' = [pend EXCEPT ![t] = {x \in pend[t] : keyOf[x] # loaded[t][1]}
                                        \cup loaded[t][2] \cup {Len(keyOf) + 1}]
  BY DEF EndRecord
<1>2. loaded[t][1] \in Keys /\ loaded[t][2] = {x \in pend[t] : keyOf[x] = loaded[t][1]}
  BY <1>1 DEF TypeOK, RecordInv
<1>3. {x \in pend[t] : keyOf[x] # loaded[t][1]} \cup loaded[t][2] = pend[t]
  BY <1>2
<1>4. pend' = [pend EXCEPT ![t] = @ \cup {Len(keyOf) + 1}]
  BY <1>1, <1>3 DEF TypeOK
<1> QED BY <1>1, <1>2, <1>4, RecordedCall DEF TypeOK

\* Registering a thread keeps the others registered.
LEMMA RegistryGrows ==
  ASSUME TypeOK, NEW t \in Threads, registry' = Append(registry, t)
  PROVE  /\ \A u \in Threads : IsRegistered(u) => IsRegistered(u)'
         /\ \A i \in 1..Len(registry) : registry'[i] = registry[i]
         /\ Len(registry') = Len(registry) + 1
<1>1. /\ Len(registry') = Len(registry) + 1
      /\ \A i \in 1..Len(registry) : registry'[i] = registry[i]
      /\ DOMAIN registry = 1..Len(registry) /\ DOMAIN registry' = 1..Len(registry')
      /\ Len(registry) \in Nat
  BY AppendProperties, LenProperties DEF TypeOK
<1> QED BY <1>1 DEF IsRegistered

\* The thread a collector has come to is a registered one.
LEMMA CollectedThread ==
  ASSUME TypeOK, NEW c \in Collectors, pos[c] <= Len(registry)
  PROVE  /\ pos[c] \in 1..Len(registry)
         /\ registry[pos[c]] \in Threads
<1>1. pos[c] \in Nat \ {0}
  BY DEF TypeOK
<1> QED BY <1>1, ElementOfSeq, LenProperties DEF TypeOK

LEMMA NextRecord == TypeOK /\ RecordInv /\ [Next]_vars => RecordInv'
<1> SUFFICES ASSUME TypeOK, RecordInv, [Next]_vars PROVE RecordInv'
  OBVIOUS
<1> USE DEF recordVars, flushVars, collectVars, outVars, endVars
<1>0. ASSUME UNCHANGED <<statsLock, loaded, pend, keyOf, registry>> PROVE RecordInv'
  BY <1>0 DEF RecordInv, IsRegistered
<1>1. ASSUME NEW t \in Threads, EnterCallback(t) PROVE RecordInv'
  BY <1>0, <1>1 DEF EnterCallback
<1>2. ASSUME NEW t \in Threads, Register(t) PROVE RecordInv'
  BY <1>2, RegistryGrows DEF Register, RecordInv
<1>3. ASSUME NEW t \in Threads, NEW k \in Keys, BeginRecord(t, k) PROVE RecordInv'
  <2>1. /\ IsRegistered(t)
        /\ statsLock' = [statsLock EXCEPT ![t] = t]
        /\ loaded' = [loaded EXCEPT ![t] = <<k, {x \in pend[t] : keyOf[x] = k}>>]
        /\ UNCHANGED <<keyOf, registry, pend>>
    BY <1>3 DEF BeginRecord
  <2>2. statsLock'[t] = t /\ loaded'[t] = <<k, {x \in pend[t] : keyOf[x] = k}>>
    BY <2>1 DEF TypeOK
  <2>3. \A u \in Threads \ {t} : statsLock'[u] = statsLock[u] /\ loaded'[u] = loaded[u]
    BY <2>1 DEF TypeOK
  <2> QED BY <2>1, <2>2, <2>3 DEF RecordInv, IsRegistered
<1>4. ASSUME NEW t \in Threads, EndRecord(t) PROVE RecordInv'
  <2>1. /\ statsLock[t] = t
        /\ statsLock' = [statsLock EXCEPT ![t] = None]
        /\ loaded' = [loaded EXCEPT ![t] = <<>>]
        /\ registry' = registry
    BY <1>4 DEF EndRecord
  <2>2. statsLock'[t] = None /\ t # None /\ IsRegistered(t)
    BY <2>1, NamesAssumption DEF TypeOK, RecordInv
  <2>3. ASSUME NEW u \in Threads \ {t}
        PROVE  /\ statsLock'[u] = statsLock[u] /\ loaded'[u] = loaded[u] /\ pend'[u] = pend[u]
               /\ \A x \in pend[u] : keyOf'[x] = keyOf[x]
    BY <1>4, <2>1, EndRecordAdds DEF TypeOK
  <2>4. \A u \in Threads : IsRegistered(u)' = IsRegistered(u)
    BY <2>1 DEF IsRegistered
  <2>5. ASSUME NEW u \in Threads \ {t}, statsLock'[u] = u
        PROVE  loaded'[u][2] = {x \in pend'[u] : keyOf'[x] = loaded'[u][1]}
    BY <2>3, <2>5 DEF RecordInv
  <2> QED BY <2>2, <2>3, <2>4, <2>5 DEF RecordInv
<1>5. CASE StartPeriodicFlush \/ SignalFlush \/ StopSignal \/ StopJoin \/ Drain \/ Kill
  BY <1>0, <1>5 DEF StartPeriodicFlush, SignalFlush, StopSignal, StopJoin, Drain, Kill
<1>6. CASE Poll \/ WaitShutdown \/ WaitError \/ WaitTimeout
  BY <1>0, <1>6 DEF Poll, WaitShutdown, WaitError, WaitTimeout
<1>7. ASSUME NEW c \in Collectors, BeginCollect(c) \/ EndCollect(c) \/ EndWrite(c) \/ Sync(c)
      PROVE  RecordInv'
  BY <1>0, <1>7 DEF BeginCollect, EndCollect, EndWrite, Sync
<1>8. ASSUME NEW c \in Collectors, SwapThread(c) PROVE RecordInv'
  <2> DEFINE s == registry[pos[c]]
  <2>1. s \in Threads /\ statsLock[s] = None /\ s # None
    BY <1>8, CollectedThread, NamesAssumption DEF SwapThread
  <2>2. pend' = [pend EXCEPT ![s] = {}] /\ UNCHANGED <<statsLock, loaded, keyOf, registry>>
    BY <1>8 DEF SwapThread
  <2> QED BY <2>1, <2>2 DEF RecordInv, IsRegistered, TypeOK
<1>9. ASSUME NEW c \in Collectors, NEW k \in Keys, WriteLine(c, k) PROVE RecordInv'
  BY <1>0, <1>9 DEF WriteLine
<1>10. CASE UNCHANGED vars
  BY <1>0, <1>10 DEF vars
<1> QED
  BY <1>1, <1>2, <1>3, <1>4, <1>5, <1>6, <1>7, <1>8, <1>9, <1>10
  DEF Next, FlushThread, ShutdownThread, Collect, Collectors, Terminated

LEMMA NextHands == TypeOK /\ ControlInv /\ HandsInv /\ [Next]_vars => HandsInv'
<1> SUFFICES ASSUME TypeOK, ControlInv, HandsInv, [Next]_vars PROVE HandsInv'
  OBVIOUS
<1> USE DEF recordVars, flushVars, collectVars, outVars, endVars
<1>0. ASSUME UNCHANGED <<cpc, merged>> PROVE HandsInv'
  BY <1>0 DEF HandsInv
<1>1. ASSUME NEW t \in Threads, EnterCallback(t) \/ Register(t) \/ EndRecord(t) PROVE HandsInv'
  BY <1>0, <1>1 DEF EnterCallback, Register, EndRecord
<1>2. ASSUME NEW t \in Threads, NEW k \in Keys, BeginRecord(t, k) PROVE HandsInv'
  BY <1>0, <1>2 DEF BeginRecord
<1>3. CASE StartPeriodicFlush \/ SignalFlush \/ StopSignal \/ Drain \/ Kill \/ UNCHANGED vars
  BY <1>0, <1>3 DEF StartPeriodicFlush, SignalFlush, StopSignal, Drain, Kill, vars
<1>4. CASE WaitShutdown \/ WaitError
  BY <1>0, <1>4 DEF WaitShutdown, WaitError
<1>5. CASE Poll
  BY <1>5 DEF Poll, HandsInv, ControlInv, TypeOK
<1>6. CASE WaitTimeout
  BY <1>6 DEF WaitTimeout, HandsInv, ControlInv, TypeOK
<1>7. CASE StopJoin
  BY <1>7 DEF StopJoin, HandsInv, ControlInv, TypeOK
<1>8. ASSUME NEW c \in Collectors, BeginCollect(c) PROVE HandsInv'
  BY <1>8 DEF BeginCollect, HandsInv, TypeOK
<1>9. ASSUME NEW c \in Collectors, SwapThread(c) PROVE HandsInv'
  BY <1>9 DEF SwapThread, HandsInv, TypeOK
<1>10. ASSUME NEW c \in Collectors, EndCollect(c) PROVE HandsInv'
  BY <1>10 DEF EndCollect, HandsInv, TypeOK
<1>11. ASSUME NEW c \in Collectors, NEW k \in Keys, WriteLine(c, k) PROVE HandsInv'
  BY <1>11 DEF WriteLine, HandsInv, TypeOK
<1>12. ASSUME NEW c \in Collectors, EndWrite(c) PROVE HandsInv'
  BY <1>12 DEF EndWrite, HandsInv, TypeOK
<1>13. ASSUME NEW c \in Collectors, Sync(c) PROVE HandsInv'
  BY <1>13 DEF Sync, HandsInv, TypeOK
<1> QED
  BY <1>1, <1>2, <1>3, <1>4, <1>5, <1>6, <1>7, <1>8, <1>9, <1>10, <1>11, <1>12, <1>13
  DEF Next, FlushThread, ShutdownThread, Collect, Collectors, Terminated

LEMMA RecordAndHands == Spec => [](RecordInv /\ HandsInv)
<1>1. Init => RecordInv /\ HandsInv
  BY NamesAssumption DEF Init, RecordInv, HandsInv
<1>2. TypeOK /\ ControlInv /\ RecordInv /\ HandsInv /\ [Next]_vars => (RecordInv /\ HandsInv)'
  BY NextRecord, NextHands
<1> QED BY <1>1, <1>2, TypeInvariant, Control, PTL DEF Spec

\* The steps that move no call and number no call.
Still == UNCHANGED <<keyOf, pend, merged, buffered, file, dropped>>

LEMMA NextStill ==
  ASSUME [Next]_vars
  PROVE  \/ Still
         \/ \E t \in Threads : EndRecord(t)
         \/ \E c \in Collectors : BeginCollect(c) \/ SwapThread(c) \/ Sync(c)
         \/ \E c \in Collectors, k \in Keys : WriteLine(c, k)
         \/ Drain
<1> USE DEF recordVars, flushVars, collectVars, outVars, endVars, Still
<1>1. ASSUME NEW t \in Threads, EnterCallback(t) \/ Register(t) PROVE Still
  BY <1>1 DEF EnterCallback, Register
<1>2. ASSUME NEW t \in Threads, NEW k \in Keys, BeginRecord(t, k) PROVE Still
  BY <1>2 DEF BeginRecord
<1>3. CASE StartPeriodicFlush \/ SignalFlush \/ StopSignal \/ StopJoin \/ Kill \/ UNCHANGED vars
  BY <1>3 DEF StartPeriodicFlush, SignalFlush, StopSignal, StopJoin, Kill, vars
<1>4. CASE Poll \/ WaitShutdown \/ WaitError \/ WaitTimeout
  BY <1>4 DEF Poll, WaitShutdown, WaitError, WaitTimeout
<1>5. ASSUME NEW c \in Collectors, EndCollect(c) \/ EndWrite(c) PROVE Still
  BY <1>5 DEF EndCollect, EndWrite
<1> QED
  BY <1>1, <1>2, <1>3, <1>4, <1>5
  DEF Next, FlushThread, ShutdownThread, Collect, Collectors, Terminated

LEMMA NextLost ==
  TypeOK /\ RecordInv /\ HandsInv /\ NoCallLost /\ [Next]_vars => NoCallLost'
<1> SUFFICES ASSUME TypeOK, RecordInv, HandsInv, NoCallLost, [Next]_vars PROVE NoCallLost'
  OBVIOUS
<1> USE DEF recordVars, flushVars, collectVars, outVars, endVars
<1>1. CASE Still
  BY <1>1 DEF Still, NoCallLost, InPend, InMerged, InOutput, Calls
<1>2. ASSUME NEW t \in Threads, EndRecord(t) PROVE NoCallLost'
  <2>1. /\ pend' = [pend EXCEPT ![t] = @ \cup {Len(keyOf) + 1}]
        /\ Calls' = Calls \cup {Len(keyOf) + 1}
    BY <1>2, EndRecordAdds
  <2>2. UNCHANGED <<merged, buffered, file, dropped>>
    BY <1>2 DEF EndRecord
  <2>3. Len(keyOf) + 1 \in pend'[t] /\ \A u \in Threads : pend[u] \subseteq pend'[u]
    BY <2>1 DEF TypeOK
  <2> QED BY <2>1, <2>2, <2>3 DEF NoCallLost, InPend, InMerged, InOutput
<1>3. ASSUME NEW c \in Collectors, BeginCollect(c) PROVE NoCallLost'
  <2>1. merged' = merged
    BY <1>3 DEF BeginCollect, HandsInv, TypeOK
  <2> QED BY <1>3, <2>1 DEF BeginCollect, NoCallLost, InPend, InMerged, InOutput, Calls
<1>4. ASSUME NEW c \in Collectors, SwapThread(c) PROVE NoCallLost'
  <2> DEFINE s == registry[pos[c]]
  <2>1. /\ s \in Threads
        /\ merged' = [merged EXCEPT ![c] = @ \cup pend[s]]
        /\ pend' = [pend EXCEPT ![s] = {}]
        /\ UNCHANGED <<keyOf, buffered, file, dropped>>
    BY <1>4, CollectedThread DEF SwapThread
  <2> HIDE DEF s
  <2>2. /\ pend[s] \subseteq merged'[c]
        /\ \A d \in Collectors : merged[d] \subseteq merged'[d]
        /\ \A u \in Threads \ {s} : pend'[u] = pend[u]
    BY <2>1 DEF TypeOK
  <2> QED BY <2>1, <2>2 DEF NoCallLost, InPend, InMerged, InOutput, Calls
<1>5. ASSUME NEW c \in Collectors, NEW k \in Keys, WriteLine(c, k) PROVE NoCallLost'
  <2> DEFINE line == {x \in merged[c] : keyOf[x] = k}
  <2>1. /\ merged' = [merged EXCEPT ![c] = @ \ line]
        /\ line \subseteq buffered' \cup dropped'
        /\ buffered \subseteq buffered' /\ dropped \subseteq dropped'
        /\ UNCHANGED <<keyOf, pend, file>>
    BY <1>5 DEF WriteLine
  <2> HIDE DEF line
  <2>2. /\ merged'[c] = merged[c] \ line
        /\ \A d \in Collectors \ {c} : merged'[d] = merged[d]
    BY <2>1 DEF TypeOK
  <2> QED BY <2>1, <2>2 DEF NoCallLost, InPend, InMerged, InOutput, Calls
<1>6. ASSUME NEW c \in Collectors, Sync(c) PROVE NoCallLost'
  BY <1>6 DEF Sync, NoCallLost, InPend, InMerged, InOutput, Calls
<1>7. CASE Drain
  BY <1>7 DEF Drain, NoCallLost, InPend, InMerged, InOutput, Calls
<1> QED BY <1>1, <1>2, <1>3, <1>4, <1>5, <1>6, <1>7, NextStill

(* Collecting, writing, flushing and stopping never lose a recorded call,   *)
(* however they interleave with the threads that record (CollectDeltaStats).*)
THEOREM CallsKept == Spec => []NoCallLost
<1>1. Init => NoCallLost
  <2>1. ASSUME Init PROVE Calls = {}
    BY <2>1, EmptySeq DEF Init, Calls
  <2> QED BY <2>1 DEF NoCallLost
<1>2. TypeOK /\ RecordInv /\ HandsInv /\ NoCallLost /\ [Next]_vars => NoCallLost'
  BY NextLost
<1> QED BY <1>1, <1>2, TypeInvariant, RecordAndHands, PTL DEF Spec

LEMMA NextTwice ==
  TypeOK /\ RecordInv /\ HandsInv /\ NoCallTwice /\ [Next]_vars => NoCallTwice'
<1> SUFFICES ASSUME TypeOK, RecordInv, HandsInv, NoCallTwice, [Next]_vars PROVE NoCallTwice'
  OBVIOUS
<1> USE DEF recordVars, flushVars, collectVars, outVars, endVars
<1>1. CASE Still
  BY <1>1 DEF Still, NoCallTwice, InPend, InMerged, InOutput, Calls
<1>2. ASSUME NEW t \in Threads, EndRecord(t) PROVE NoCallTwice'
  <2> DEFINE n == Len(keyOf) + 1
  <2>1. /\ pend' = [pend EXCEPT ![t] = @ \cup {n}]
        /\ Calls' = Calls \cup {n}
        /\ n \notin Calls
    BY <1>2, EndRecordAdds
  <2> HIDE DEF n
  <2>2. UNCHANGED <<merged, buffered, file, dropped>>
    BY <1>2 DEF EndRecord
  <2>3. /\ pend'[t] = pend[t] \cup {n}
        /\ \A u \in Threads \ {t} : pend'[u] = pend[u]
    BY <2>1 DEF TypeOK
  <2>4. /\ \A u \in Threads : n \notin pend[u]
        /\ \A c \in Collectors : n \notin merged[c]
        /\ n \notin buffered \cup file \cup dropped
    BY <2>1 DEF TypeOK
  <2> QED BY <2>1, <2>2, <2>3, <2>4 DEF NoCallTwice, InPend, InMerged, InOutput
<1>3. ASSUME NEW c \in Collectors, BeginCollect(c) PROVE NoCallTwice'
  <2>1. merged' = merged
    BY <1>3 DEF BeginCollect, HandsInv, TypeOK
  <2> QED BY <1>3, <2>1 DEF BeginCollect, NoCallTwice, InPend, InMerged, InOutput, Calls
<1>4. ASSUME NEW c \in Collectors, SwapThread(c) PROVE NoCallTwice'
  <2> DEFINE s == registry[pos[c]]
  <2>1. /\ s \in Threads
        /\ merged' = [merged EXCEPT ![c] = @ \cup pend[s]]
        /\ pend' = [pend EXCEPT ![s] = {}]
        /\ UNCHANGED <<keyOf, buffered, file, dropped>>
    BY <1>4, CollectedThread DEF SwapThread
  <2> HIDE DEF s
  <2>2. /\ merged'[c] = merged[c] \cup pend[s]
        /\ \A d \in Collectors \ {c} : merged'[d] = merged[d]
        /\ pend'[s] = {}
        /\ \A u \in Threads \ {s} : pend'[u] = pend[u]
    BY <2>1 DEF TypeOK
  <2>3. pend[s] \subseteq Calls
    BY <2>1 DEF TypeOK
  <2> QED BY <2>1, <2>2, <2>3 DEF NoCallTwice, InPend, InMerged, InOutput, Calls
<1>5. ASSUME NEW c \in Collectors, NEW k \in Keys, WriteLine(c, k) PROVE NoCallTwice'
  <2> DEFINE line == {x \in merged[c] : keyOf[x] = k}
  <2>1. /\ merged' = [merged EXCEPT ![c] = @ \ line]
        /\ line \subseteq merged[c]
        /\ \/ dropped' = dropped \cup line /\ buffered' = buffered
           \/ dropped' = dropped /\ buffered' = buffered \cup line
        /\ UNCHANGED <<keyOf, pend, file>>
    BY <1>5 DEF WriteLine
  <2> HIDE DEF line
  <2>2. /\ merged'[c] = merged[c] \ line
        /\ \A d \in Collectors \ {c} : merged'[d] = merged[d]
        /\ merged[c] \subseteq Calls
    BY <2>1 DEF TypeOK
  <2> QED BY <2>1, <2>2 DEF NoCallTwice, InPend, InMerged, InOutput, Calls
<1>6. ASSUME NEW c \in Collectors, Sync(c) PROVE NoCallTwice'
  BY <1>6 DEF Sync, NoCallTwice, InPend, InMerged, InOutput, Calls
<1>7. CASE Drain
  BY <1>7 DEF Drain, NoCallTwice, InPend, InMerged, InOutput, Calls
<1> QED BY <1>1, <1>2, <1>3, <1>4, <1>5, <1>6, <1>7, NextStill

(* No recorded call is summed up twice: the swap under the thread's lock    *)
(* takes the whole map, and the recording thread never writes a map back    *)
(* that was taken (CollectDeltaStats, RecordMethod).                        *)
THEOREM CallsNotRepeated == Spec => []NoCallTwice
<1>1. Init => NoCallTwice
  <2>1. ASSUME Init PROVE Calls = {}
    BY <2>1, EmptySeq DEF Init, Calls
  <2> QED BY <2>1 DEF Init, NoCallTwice
<1>2. TypeOK /\ RecordInv /\ HandsInv /\ NoCallTwice /\ [Next]_vars => NoCallTwice'
  BY NextTwice
<1> QED BY <1>1, <1>2, TypeInvariant, RecordAndHands, PTL DEF Spec

-----------------------------------------------------------------------------
(* What a flush has made durable.                                          *)

\* Inductive: how far the calls recorded before a collection began have come.
\* Between flushes they are in the file, unless their method is unknown.
InRest(x, c) == \E i \in pos[c]..Len(registry) : x \in pend[registry[i]]

CollectingInv ==
  \A c \in Collectors : cpc[c] = "collect" =>
    \A x \in snapshot[c] : InMerged(x, c) \/ InOutput(x) \/ InRest(x, c)

WritingInv ==
  \A c \in Collectors : cpc[c] \in {"write", "sync"} =>
    \A x \in snapshot[c] : InMerged(x, c) \/ InOutput(x)

DurableInv ==
  \A c \in Collectors : cpc[c] \in {"idle", "lock"} =>
    \A x \in snapshot[c] : keyOf[x] \notin Unresolved => x \in file

BufferInv == buffered # {} => \E c \in Collectors : cpc[c] \in {"write", "sync"}

DroppedInv == \A x \in dropped : keyOf[x] \in Unresolved

FlushInv == CollectingInv /\ WritingInv /\ DurableInv /\ BufferInv /\ DroppedInv

\* While one collector works the other is idle.
LEMMA OtherIsIdle ==
  ASSUME ControlInv, NEW c \in Collectors, cpc[c] # "idle", NEW d \in Collectors \ {c}
  PROVE  cpc[d] = "idle"
BY DEF ControlInv, Collectors

\* A step of c keeps what the flush invariant says of the other collector.
LEMMA FlushInvOfOne ==
  ASSUME NEW c \in Collectors,
         \A d \in Collectors \ {c} :
           cpc'[d] = "idle" /\ \A x \in snapshot'[d] : keyOf'[x] \notin Unresolved => x \in file',
         cpc'[c] = "collect" =>
           \A x \in snapshot'[c] : InMerged(x, c)' \/ InOutput(x)' \/ InRest(x, c)',
         cpc'[c] \in {"write", "sync"} =>
           \A x \in snapshot'[c] : InMerged(x, c)' \/ InOutput(x)',
         cpc'[c] \in {"idle", "lock"} =>
           \A x \in snapshot'[c] : keyOf'[x] \notin Unresolved => x \in file',
         BufferInv', DroppedInv'
  PROVE  FlushInv'
BY DEF FlushInv, CollectingInv, WritingInv, DurableInv

LEMMA BeginCollectFlush ==
  ASSUME TypeOK, ControlInv, RecordInv, HandsInv, NoCallLost, FlushInv,
         NEW c \in Collectors, BeginCollect(c)
  PROVE  FlushInv'
<1> USE DEF recordVars, flushVars, outVars, endVars
<1>1. /\ cpc[c] = "lock"
      /\ cpc' = [cpc EXCEPT ![c] = "collect"]
      /\ pos' = [pos EXCEPT ![c] = 1]
      /\ snapshot' = [snapshot EXCEPT ![c] = Calls]
      /\ UNCHANGED <<keyOf, registry, pend, buffered, file, dropped>>
  BY DEF BeginCollect
<1>2. merged' = merged
  BY DEF BeginCollect, HandsInv, TypeOK
<1>3. \A d \in Collectors \ {c} : cpc[d] = "idle" /\ merged[d] = {}
  BY <1>1, OtherIsIdle DEF HandsInv
<1>4. merged[c] = {}
  BY <1>1 DEF HandsInv
<1>5. cpc'[c] = "collect" /\ pos'[c] = 1 /\ snapshot'[c] = Calls
  BY <1>1 DEF TypeOK
<1>6. \A d \in Collectors \ {c} : cpc'[d] = cpc[d] /\ snapshot'[d] = snapshot[d]
  BY <1>1 DEF TypeOK
<1>7. ASSUME NEW x \in Calls PROVE InOutput(x)' \/ InRest(x, c)'
  <2>1. CASE InOutput(x)
    BY <1>1, <2>1 DEF InOutput
  <2>2. ASSUME NEW t \in Threads, InPend(x, t) PROVE InRest(x, c)'
    <3>1. IsRegistered(t)
      BY <2>2 DEF RecordInv, InPend
    <3>2. PICK i \in DOMAIN registry : registry[i] = t
      BY <3>1 DEF IsRegistered
    <3>3. i \in 1..Len(registry)
      BY <3>2, LenProperties DEF TypeOK
    <3>4. i \in pos'[c]..Len(registry') /\ x \in pend'[registry'[i]]
      BY <1>1, <1>5, <2>2, <3>2, <3>3 DEF InPend
    <3> QED BY <3>4 DEF InRest
  <2>3. ~\E d \in Collectors : InMerged(x, d)
    BY <1>3, <1>4 DEF InMerged
  <2> QED BY <2>1, <2>2, <2>3 DEF NoCallLost
<1>8. BufferInv'
  BY <1>1, <1>3 DEF BufferInv, FlushInv
<1>9. DroppedInv'
  BY <1>1 DEF DroppedInv, FlushInv
<1>10. \A d \in Collectors \ {c} :
         cpc'[d] = "idle" /\ \A x \in snapshot'[d] : keyOf'[x] \notin Unresolved => x \in file'
  BY <1>1, <1>3, <1>6 DEF FlushInv, DurableInv
<1> QED BY <1>5, <1>7, <1>8, <1>9, <1>10, FlushInvOfOne

LEMMA SwapThreadFlush ==
  ASSUME TypeOK, ControlInv, FlushInv, NEW c \in Collectors, SwapThread(c)
  PROVE  FlushInv'
<1> USE DEF recordVars, flushVars, outVars, endVars
<1> DEFINE s == registry[pos[c]]
<1>1. /\ cpc[c] = "collect"
      /\ s \in Threads
      /\ pos[c] \in 1..Len(registry)
      /\ merged' = [merged EXCEPT ![c] = @ \cup pend[s]]
      /\ pend' = [pend EXCEPT ![s] = {}]
      /\ pos' = [pos EXCEPT ![c] = @ + 1]
      /\ UNCHANGED <<keyOf, registry, cpc, snapshot, buffered, file, dropped>>
  BY CollectedThread DEF SwapThread
<1>2. \A d \in Collectors \ {c} : cpc[d] = "idle"
  BY <1>1, OtherIsIdle
<1>3. merged'[c] = merged[c] \cup pend[s] /\ pos'[c] = pos[c] + 1 /\ pos[c] \in Nat
  BY <1>1 DEF TypeOK
<1>4. \A i \in 1..Len(registry) :
        registry[i] \in Threads /\ (registry[i] # s => pend'[registry[i]] = pend[registry[i]])
  <2>1. \A i \in 1..Len(registry) : registry[i] \in Threads
    BY ElementOfSeq DEF TypeOK
  <2> QED BY <1>1, <2>1 DEF TypeOK
<1>5. ASSUME NEW x \in snapshot'[c] PROVE InMerged(x, c)' \/ InOutput(x)' \/ InRest(x, c)'
  <2>1. InMerged(x, c) \/ InOutput(x) \/ InRest(x, c)
    BY <1>1, <1>5 DEF FlushInv, CollectingInv
  <2>2. CASE InMerged(x, c)
    BY <1>3, <2>2 DEF InMerged
  <2>3. CASE InOutput(x)
    BY <1>1, <2>3 DEF InOutput
  <2>4. ASSUME NEW i \in pos[c]..Len(registry), x \in pend[registry[i]]
        PROVE  InMerged(x, c)' \/ InRest(x, c)'
    <3>1. i \in 1..Len(registry) /\ Len(registry) \in Nat
      BY <1>1, LenProperties DEF TypeOK
    <3>2. CASE registry[i] = s
      BY <1>3, <2>4, <3>2 DEF InMerged
    <3>3. CASE registry[i] # s
      <4>1. i # pos[c]
        BY <3>3
      <4>2. i \in pos'[c]..Len(registry')
        BY <1>1, <1>3, <3>1, <4>1
      <4>3. x \in pend'[registry'[i]]
        BY <1>1, <1>4, <2>4, <3>1, <3>3
      <4> QED BY <4>2, <4>3 DEF InRest
    <3> QED BY <3>2, <3>3
  <2> QED BY <2>1, <2>2, <2>3, <2>4 DEF InRest
<1>6. BufferInv' /\ DroppedInv'
  BY <1>1 DEF BufferInv, DroppedInv, FlushInv
<1>7. \A d \in Collectors \ {c} :
        cpc'[d] = "idle" /\ \A x \in snapshot'[d] : keyOf'[x] \notin Unresolved => x \in file'
  BY <1>1, <1>2 DEF FlushInv, DurableInv
<1> QED BY <1>1, <1>5, <1>6, <1>7, FlushInvOfOne

LEMMA EndCollectFlush ==
  ASSUME TypeOK, ControlInv, FlushInv, NEW c \in Collectors, EndCollect(c)
  PROVE  FlushInv'
<1> USE DEF recordVars, flushVars, outVars, endVars
<1>1. /\ cpc[c] = "collect"
      /\ pos[c] > Len(registry)
      /\ \/ cpc' = [cpc EXCEPT ![c] = "idle"] /\ merged[c] = {}
         \/ cpc' = [cpc EXCEPT ![c] = "write"]
      /\ UNCHANGED <<keyOf, registry, pend, pos, merged, snapshot, buffered, file, dropped>>
  BY DEF EndCollect
<1>2. \A d \in Collectors \ {c} : cpc[d] = "idle" /\ cpc'[d] = "idle"
  BY <1>1, OtherIsIdle DEF TypeOK
<1>3. ASSUME NEW x \in snapshot[c] PROVE InMerged(x, c) \/ InOutput(x)
  <2>1. ~InRest(x, c)
    <3>1. Len(registry) \in Nat /\ pos[c] \in Nat
      BY LenProperties DEF TypeOK
    <3> QED BY <1>1, <3>1 DEF InRest
  <2> QED BY <1>1, <2>1 DEF FlushInv, CollectingInv
<1>4. buffered = {}
  BY <1>1, <1>2 DEF FlushInv, BufferInv
<1>5. cpc'[c] \in {"write", "sync"} => \A x \in snapshot'[c] : InMerged(x, c)' \/ InOutput(x)'
  BY <1>1, <1>3 DEF InMerged, InOutput
<1>6. cpc'[c] \in {"idle", "lock"} =>
        \A x \in snapshot'[c] : keyOf'[x] \notin Unresolved => x \in file'
  <2> SUFFICES ASSUME cpc'[c] \in {"idle", "lock"}, NEW x \in snapshot[c],
                      keyOf[x] \notin Unresolved
               PROVE  x \in file
    BY <1>1
  <2>1. merged[c] = {}
    BY <1>1 DEF TypeOK
  <2>2. x \notin dropped
    BY DEF FlushInv, DroppedInv
  <2> QED BY <1>3, <1>4, <2>1, <2>2 DEF InMerged, InOutput
<1>7. BufferInv' /\ DroppedInv'
  BY <1>1, <1>4 DEF BufferInv, DroppedInv, FlushInv
<1>8. \A d \in Collectors \ {c} :
        cpc'[d] = "idle" /\ \A x \in snapshot'[d] : keyOf'[x] \notin Unresolved => x \in file'
  BY <1>1, <1>2 DEF FlushInv, DurableInv
<1>9. cpc'[c] # "collect"
  BY <1>1 DEF TypeOK
<1> QED BY <1>5, <1>6, <1>7, <1>8, <1>9, FlushInvOfOne

LEMMA WriteLineFlush ==
  ASSUME TypeOK, ControlInv, FlushInv, NEW c \in Collectors, NEW k \in Keys, WriteLine(c, k)
  PROVE  FlushInv'
<1> USE DEF recordVars, flushVars, outVars, endVars
<1> DEFINE line == {x \in merged[c] : keyOf[x] = k}
<1>1. /\ cpc[c] = "write"
      /\ merged' = [merged EXCEPT ![c] = @ \ line]
      /\ \/ k \in Unresolved /\ dropped' = dropped \cup line /\ buffered' = buffered
         \/ dropped' = dropped /\ buffered' = buffered \cup line
      /\ UNCHANGED <<keyOf, cpc, snapshot, file>>
  BY DEF WriteLine
<1>2. \A d \in Collectors \ {c} : cpc[d] = "idle"
  BY <1>1, OtherIsIdle
<1>3. merged'[c] = merged[c] \ line
  BY <1>1 DEF TypeOK
<1>4. \A x \in snapshot'[c] : InMerged(x, c)' \/ InOutput(x)'
  <2>1. \A x \in snapshot[c] : InMerged(x, c) \/ InOutput(x)
    BY <1>1 DEF FlushInv, WritingInv
  <2> HIDE DEF line
  <2> QED BY <1>1, <1>3, <2>1 DEF InMerged, InOutput
<1>5. BufferInv'
  BY <1>1 DEF BufferInv
<1>6. DroppedInv'
  BY <1>1 DEF DroppedInv, FlushInv
<1>7. \A d \in Collectors \ {c} :
        cpc'[d] = "idle" /\ \A x \in snapshot'[d] : keyOf'[x] \notin Unresolved => x \in file'
  BY <1>1, <1>2 DEF FlushInv, DurableInv
<1> QED BY <1>1, <1>4, <1>5, <1>6, <1>7, FlushInvOfOne

LEMMA EndWriteFlush ==
  ASSUME TypeOK, ControlInv, FlushInv, NEW c \in Collectors, EndWrite(c)
  PROVE  FlushInv'
<1> USE DEF recordVars, flushVars, outVars, endVars
<1>1. /\ cpc[c] = "write"
      /\ cpc' = [cpc EXCEPT ![c] = "sync"]
      /\ UNCHANGED <<keyOf, merged, snapshot, buffered, file, dropped>>
  BY DEF EndWrite
<1>2. cpc'[c] = "sync" /\ \A d \in Collectors \ {c} : cpc'[d] = "idle" /\ cpc[d] = "idle"
  BY <1>1, OtherIsIdle DEF TypeOK
<1>3. \A x \in snapshot'[c] : InMerged(x, c)' \/ InOutput(x)'
  BY <1>1 DEF FlushInv, WritingInv, InMerged, InOutput
<1>4. BufferInv' /\ DroppedInv'
  BY <1>1, <1>2 DEF BufferInv, DroppedInv, FlushInv
<1>5. \A d \in Collectors \ {c} :
        cpc'[d] = "idle" /\ \A x \in snapshot'[d] : keyOf'[x] \notin Unresolved => x \in file'
  BY <1>1, <1>2 DEF FlushInv, DurableInv
<1> QED BY <1>2, <1>3, <1>4, <1>5, FlushInvOfOne

LEMMA SyncFlush ==
  ASSUME TypeOK, ControlInv, HandsInv, FlushInv, NEW c \in Collectors, Sync(c)
  PROVE  FlushInv'
<1> USE DEF recordVars, flushVars, outVars, endVars
<1>1. /\ cpc[c] = "sync"
      /\ cpc' = [cpc EXCEPT ![c] = "idle"]
      /\ file' = file \cup buffered
      /\ buffered' = {}
      /\ UNCHANGED <<keyOf, merged, snapshot, dropped>>
  BY DEF Sync
<1>2. cpc'[c] = "idle" /\ \A d \in Collectors \ {c} : cpc'[d] = "idle" /\ cpc[d] = "idle"
  BY <1>1, OtherIsIdle DEF TypeOK
<1>3. \A x \in snapshot'[c] : keyOf'[x] \notin Unresolved => x \in file'
  <2>1. merged[c] = {}
    BY <1>1 DEF HandsInv
  <2>2. \A x \in snapshot[c] : InOutput(x)
    BY <1>1, <2>1 DEF FlushInv, WritingInv, InMerged
  <2>3. \A x \in dropped : keyOf[x] \in Unresolved
    BY DEF FlushInv, DroppedInv
  <2> QED BY <1>1, <2>2, <2>3 DEF InOutput
<1>4. BufferInv' /\ DroppedInv'
  BY <1>1 DEF BufferInv, DroppedInv, FlushInv
<1>5. \A d \in Collectors \ {c} :
        cpc'[d] = "idle" /\ \A x \in snapshot'[d] : keyOf'[x] \notin Unresolved => x \in file'
  BY <1>1, <1>2 DEF FlushInv, DurableInv
<1> QED BY <1>2, <1>3, <1>4, <1>5, FlushInvOfOne

\* Recording and registering only add calls and threads behind the collector.
LEMMA RecordingFlush ==
  ASSUME TypeOK, RecordInv, FlushInv, NEW t \in Threads, EndRecord(t) \/ Register(t)
  PROVE  FlushInv'
<1> USE DEF recordVars, flushVars, collectVars, outVars, endVars
<1>1. UNCHANGED <<cpc, pos, merged, snapshot, buffered, file, dropped>>
  BY DEF EndRecord, Register
<1>2. \A u \in Threads : pend[u] \subseteq pend'[u]
  <2>1. CASE EndRecord(t)
    BY <2>1, EndRecordAdds DEF TypeOK
  <2>2. CASE Register(t)
    BY <2>2 DEF Register
  <2> QED BY <2>1, <2>2
<1>3. \A x \in Calls : keyOf'[x] = keyOf[x]
  <2>1. CASE EndRecord(t)
    BY <2>1, EndRecordAdds
  <2>2. CASE Register(t)
    BY <2>2 DEF Register
  <2> QED BY <2>1, <2>2
<1>4. /\ \A i \in 1..Len(registry) : registry'[i] = registry[i]
      /\ Len(registry) <= Len(registry')
      /\ Len(registry) \in Nat /\ Len(registry') \in Nat
  <2>1. CASE EndRecord(t)
    BY <2>1, LenProperties DEF EndRecord, TypeOK
  <2>2. CASE Register(t)
    <3>1. registry' = Append(registry, t)
      BY <2>2 DEF Register
    <3> QED BY <3>1, RegistryGrows, LenProperties DEF TypeOK
  <2> QED BY <2>1, <2>2
<1>5. ASSUME NEW c \in Collectors, NEW x, InRest(x, c) PROVE InRest(x, c)'
  <2>1. PICK i \in pos[c]..Len(registry) : x \in pend[registry[i]]
    BY <1>5 DEF InRest
  <2>2. i \in 1..Len(registry) /\ i \in pos'[c]..Len(registry')
    BY <1>1, <1>4, <2>1 DEF TypeOK
  <2>3. registry[i] \in Threads /\ registry'[i] = registry[i]
    BY <1>4, <2>2, ElementOfSeq DEF TypeOK
  <2>4. x \in pend'[registry'[i]]
    BY <1>2, <2>1, <2>3
  <2> QED BY <2>2, <2>4 DEF InRest
<1>6. CollectingInv'
  BY <1>1, <1>5 DEF FlushInv, CollectingInv, InMerged, InOutput
<1>7. WritingInv' /\ BufferInv'
  BY <1>1 DEF FlushInv, WritingInv, BufferInv, InMerged, InOutput
<1>8. DurableInv'
  <2>1. \A c \in Collectors : snapshot[c] \subseteq Calls
    BY DEF TypeOK
  <2> QED BY <1>1, <1>3, <2>1 DEF FlushInv, DurableInv
<1>9. DroppedInv'
  BY <1>1, <1>3 DEF FlushInv, DroppedInv, TypeOK
<1> QED BY <1>6, <1>7, <1>8, <1>9 DEF FlushInv

\* A collector is sent to work: nothing has moved yet.
LEMMA DecisionFlush ==
  ASSUME TypeOK, ControlInv, FlushInv, Poll \/ WaitTimeout \/ StopJoin
  PROVE  FlushInv'
<1> USE DEF recordVars, flushVars, collectVars, outVars, endVars
<1>1. UNCHANGED <<keyOf, registry, pend, pos, merged, snapshot, buffered, file, dropped>>
  BY DEF Poll, WaitTimeout, StopJoin
<1>2. \A c \in Collectors :
        cpc'[c] = cpc[c] \/ (cpc[c] = "idle" /\ cpc'[c] = "lock")
  BY DEF Poll, WaitTimeout, StopJoin, ControlInv, TypeOK, Collectors, Flusher, Finalizer
<1>3. CollectingInv' /\ WritingInv'
  BY <1>1, <1>2 DEF FlushInv, CollectingInv, WritingInv, InMerged, InOutput, InRest
<1>4. DurableInv' /\ DroppedInv'
  BY <1>1, <1>2 DEF FlushInv, DurableInv, DroppedInv
<1>5. BufferInv'
  BY <1>1, <1>2 DEF FlushInv, BufferInv
<1> QED BY <1>3, <1>4, <1>5 DEF FlushInv

LEMMA NextFlush ==
  /\ TypeOK /\ ControlInv /\ RecordInv /\ HandsInv /\ NoCallLost /\ FlushInv
  /\ [Next]_vars
  => FlushInv'
<1> SUFFICES ASSUME TypeOK, ControlInv, RecordInv, HandsInv, NoCallLost, FlushInv, [Next]_vars
             PROVE  FlushInv'
  OBVIOUS
<1> USE DEF recordVars, flushVars, collectVars, outVars, endVars
<1>0. ASSUME UNCHANGED <<keyOf, registry, pend, cpc, pos, merged, snapshot, buffered, file,
                         dropped>>
      PROVE  FlushInv'
  BY <1>0 DEF FlushInv, CollectingInv, WritingInv, DurableInv, BufferInv, DroppedInv,
              InMerged, InOutput, InRest
<1>1. ASSUME NEW t \in Threads, EnterCallback(t) PROVE FlushInv'
  BY <1>0, <1>1 DEF EnterCallback
<1>2. ASSUME NEW t \in Threads, NEW k \in Keys, BeginRecord(t, k) PROVE FlushInv'
  BY <1>0, <1>2 DEF BeginRecord
<1>3. CASE StartPeriodicFlush \/ SignalFlush \/ StopSignal \/ Kill \/ UNCHANGED vars
  BY <1>0, <1>3 DEF StartPeriodicFlush, SignalFlush, StopSignal, Kill, vars
<1>4. CASE WaitShutdown \/ WaitError
  BY <1>0, <1>4 DEF WaitShutdown, WaitError
<1>5. CASE Drain
  <2>1. /\ file' = file \cup buffered /\ buffered' = {}
        /\ UNCHANGED <<keyOf, registry, pend, cpc, pos, merged, snapshot, dropped>>
    BY <1>5 DEF Drain
  <2>2. CollectingInv' /\ WritingInv'
    BY <2>1 DEF FlushInv, CollectingInv, WritingInv, InMerged, InOutput, InRest
  <2>3. DurableInv' /\ BufferInv' /\ DroppedInv'
    BY <2>1 DEF FlushInv, DurableInv, BufferInv, DroppedInv
  <2> QED BY <2>2, <2>3 DEF FlushInv
<1> QED
  BY <1>1, <1>2, <1>3, <1>4, <1>5, BeginCollectFlush, SwapThreadFlush, EndCollectFlush,
     WriteLineFlush, EndWriteFlush, SyncFlush, RecordingFlush, DecisionFlush
  DEF Next, FlushThread, ShutdownThread, Collect, Collectors, Terminated

LEMMA FlushInvariant == Spec => []FlushInv
<1>1. Init => FlushInv
  BY DEF Init, FlushInv, CollectingInv, WritingInv, DurableInv, BufferInv, DroppedInv
<1>2. /\ TypeOK /\ ControlInv /\ RecordInv /\ HandsInv /\ NoCallLost /\ FlushInv
      /\ [Next]_vars
      => FlushInv'
  BY NextFlush
<1> QED BY <1>1, <1>2, TypeInvariant, Control, RecordAndHands, CallsKept, PTL DEF Spec

(* A force-kill loses nothing that was recorded before the last completed   *)
(* flush began (Tool README 592, FlushThreadProc).                          *)
THEOREM FlushDurable == Spec => []FlushIsDurable
<1>1. TypeOK /\ ControlInv /\ FlushInv => FlushIsDurable
  BY DEF ControlInv, FlushInv, DurableInv, FlushIsDurable, Resolved, Collectors
<1> QED BY <1>1, TypeInvariant, Control, FlushInvariant, PTL

(* An orderly Shutdown leaves nothing behind that was recorded before its   *)
(* own collection began (Profiler.cpp 133-146).                             *)
THEOREM ShutdownComplete == Spec => []ShutdownIsComplete
<1>1. TypeOK /\ ControlInv /\ FlushInv => ShutdownIsComplete
  BY DEF ControlInv, FlushInv, DurableInv, ShutdownIsComplete, Resolved, Collectors
<1> QED BY <1>1, TypeInvariant, Control, FlushInvariant, PTL
=============================================================================
