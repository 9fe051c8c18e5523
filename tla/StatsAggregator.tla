---------------------------- MODULE StatsAggregator ----------------------------
(***************************************************************************)
(* StatsAggregator.cpp: per-thread statistics that the profiled threads    *)
(* update under a lock of their own, collected as deltas by the flush      *)
(* thread (timer or manual signal) and once more by Shutdown.              *)
(*                                                                         *)
(* An accumulator is abstracted to the set of calls it sums up: callCount  *)
(* is its size, += is union, swapping with an empty map empties it.  A map *)
(* from keys to accumulators is then a set of calls, `keyOf' telling the   *)
(* FunctionID (or exception key) of each.  The event writer is external:   *)
(* a line is first buffered, and the buffer may be written out at any      *)
(* moment because any thread may fill it.  Its writes are taken to succeed *)
(* here; NdjsonWriter says what is left of the file when they do not.      *)
(***************************************************************************)
EXTENDS Integers, Sequences, FiniteSets

CONSTANTS
  Threads,       \* profiled threads
  Keys,          \* FunctionIDs and exception keys
  Unresolved,    \* FunctionIDs that MethodCache::Lookup does not know
  Intervals,     \* possible flush intervals, in 250 ms polls; 0: no periodic flush
  SemChoices,    \* whether the manual-flush semaphore exists: subset of BOOLEAN
  Coalesce,      \* TRUE: Windows auto-reset event; FALSE: POSIX semaphore
  WaitMayFail,   \* TRUE: PalWaitMultiple may return Error
  StartMayFail,  \* TRUE: the event or the thread may fail to be created
  MayBeKilled,   \* TRUE: the process may be force-killed
  MaxCalls,      \* bound: calls recorded
  MaxSignals     \* bound: manual flush signals

ASSUME StatsAssumption ==
  /\ Threads # {}
  /\ Unresolved \subseteq Keys
  /\ Intervals \subseteq Nat
  /\ SemChoices \subseteq BOOLEAN
  /\ {Coalesce, WaitMayFail, StartMayFail, MayBeKilled} \subseteq BOOLEAN
  /\ MaxCalls \in Nat /\ MaxSignals \in Nat

None == "none"
Flusher == "flusher"       \* the flush thread
Finalizer == "finalizer"   \* the thread that runs Shutdown
Collectors == {Flusher, Finalizer}

ASSUME NamesAssumption == Threads \cap {None, Flusher, Finalizer} = {}

VARIABLES
  inside,        \* threads in a callback, past its test of g_ctx
  keyOf,         \* history: the key of each recorded call, by call number
  registry,      \* m_allThreadStats: registered threads, in order
  registryLock,  \* who holds m_registryMutex
  statsLock,     \* thread -> who holds its ThreadStats mutex
  pend,          \* thread -> calls in its maps
  loaded,        \* thread -> <<key, accumulator read>> while it records
  fpc,           \* flush thread: new, none, poll, wait, flush, exit
  kind,          \* why it flushes: manual or timer
  elapsed,       \* elapsedPollMs, in polls
  interval,      \* m_flushIntervalSeconds, in polls
  hasSem,        \* m_manualFlushEvent is valid
  sem,           \* pending manual-flush signals
  signals,       \* how many were ever sent
  cpc,           \* collector -> idle, lock, collect, write, sync
  pos,           \* collector -> next registry index
  merged,        \* collector -> calls collected and not yet written
  snapshot,      \* history: collector -> calls recorded when its last collection began
  buffered,      \* calls on lines in the writer's buffer
  file,          \* calls on lines in the output file
  dropped,       \* calls whose method could not be resolved when written
  spc,           \* Shutdown: running, joining, final, closed
  shutdown,      \* m_shutdownEvent is signalled
  alive          \* the process was not killed

recordVars == <<inside, keyOf, registry, statsLock, pend, loaded>>
flushVars == <<fpc, kind, elapsed, interval, hasSem, sem, signals>>
collectVars == <<cpc, pos, merged, snapshot>>
outVars == <<buffered, file, dropped>>
endVars == <<spc, shutdown, alive>>
vars == <<recordVars, registryLock, flushVars, collectVars, outVars, endVars>>

Calls == 1..Len(keyOf)

Init ==
  /\ inside = {} /\ keyOf = <<>> /\ registry = <<>> /\ registryLock = None
  /\ statsLock = [t \in Threads |-> None]
  /\ pend = [t \in Threads |-> {}]
  /\ loaded = [t \in Threads |-> <<>>]
  /\ fpc = "new" /\ kind = "timer" /\ elapsed = 0 /\ interval = 0
  /\ hasSem = FALSE /\ sem = 0 /\ signals = 0
  /\ cpc = [c \in Collectors |-> "idle"]
  /\ pos = [c \in Collectors |-> 1]
  /\ merged = [c \in Collectors |-> {}]
  /\ snapshot = [c \in Collectors |-> {}]
  /\ buffered = {} /\ file = {} /\ dropped = {}
  /\ spc = "running" /\ shutdown = FALSE /\ alive = TRUE

-----------------------------------------------------------------------------
(* Profiled threads: a callback that ends in RecordMethod or               *)
(* RecordException.  Once Shutdown has deleted the context nothing that    *)
(* such a callback does is defined: it is not followed any further.        *)

IsRegistered(t) == \E i \in DOMAIN registry : registry[i] = t

\* PrepareStubContext: g_ctx is set until Shutdown begins.
EnterCallback(t) ==
  /\ alive /\ spc = "running"
  /\ t \notin inside
  /\ Len(keyOf) + Cardinality(inside) < MaxCalls
  /\ inside' = inside \cup {t}
  /\ UNCHANGED <<keyOf, registry, statsLock, pend, loaded, registryLock, flushVars, collectVars,
                 outVars, endVars>>

\* GetOrCreateThreadStats for a thread without statistics.
Register(t) ==
  /\ alive /\ spc # "closed"
  /\ t \in inside /\ ~IsRegistered(t)
  /\ registryLock = None
  /\ registry' = Append(registry, t)
  /\ UNCHANGED <<inside, keyOf, statsLock, pend, loaded, registryLock, flushVars, collectVars,
                 outVars, endVars>>

\* Takes the thread's lock and looks up the accumulator of k.
BeginRecord(t, k) ==
  /\ alive /\ spc # "closed"
  /\ t \in inside /\ IsRegistered(t)
  /\ statsLock[t] = None
  /\ statsLock' = [statsLock EXCEPT ![t] = t]
  /\ loaded' = [loaded EXCEPT ![t] = <<k, {x \in pend[t] : keyOf[x] = k}>>]
  /\ UNCHANGED <<inside, keyOf, registry, pend, registryLock, flushVars, collectVars, outVars,
                 endVars>>

\* Adds the call to the accumulator, releases the lock and returns.
EndRecord(t) ==
  /\ alive /\ spc # "closed"
  /\ statsLock[t] = t
  /\ LET k == loaded[t][1]
         rest == {x \in pend[t] : keyOf[x] # k}
     IN  /\ pend' = [pend EXCEPT ![t] = rest \cup loaded[t][2] \cup {Len(keyOf) + 1}]
         /\ keyOf' = Append(keyOf, k)
  /\ loaded' = [loaded EXCEPT ![t] = <<>>]
  /\ statsLock' = [statsLock EXCEPT ![t] = None]
  /\ inside' = inside \ {t}
  /\ UNCHANGED <<registry, registryLock, flushVars, collectVars, outVars, endVars>>

-----------------------------------------------------------------------------
(* CollectDeltaStats and WriteMergedStats, by the flush thread or Shutdown.*)

\* Takes m_registryMutex.
BeginCollect(c) ==
  /\ alive
  /\ cpc[c] = "lock"
  /\ registryLock = None
  /\ registryLock' = c
  /\ cpc' = [cpc EXCEPT ![c] = "collect"]
  /\ pos' = [pos EXCEPT ![c] = 1]
  /\ merged' = [merged EXCEPT ![c] = {}]
  /\ snapshot' = [snapshot EXCEPT ![c] = Calls]
  /\ UNCHANGED <<recordVars, flushVars, outVars, endVars>>

\* Mutation: a thread's maps replace what was merged before them.
SwapReplaces(c) ==
  /\ alive
  /\ cpc[c] = "collect" /\ pos[c] <= Len(registry)
  /\ LET t == registry[pos[c]]
     IN  /\ statsLock[t] = None
         /\ merged' = [merged EXCEPT ![c] = pend[t]]
         /\ pend' = [pend EXCEPT ![t] = {}]
  /\ pos' = [pos EXCEPT ![c] = @ + 1]
  /\ UNCHANGED <<inside, keyOf, registry, statsLock, loaded, registryLock, flushVars, cpc,
                 snapshot, outVars, endVars>>

\* Mutation: the thread's lock is not taken.
SwapUnlocked(c) ==
  /\ alive
  /\ cpc[c] = "collect" /\ pos[c] <= Len(registry)
  /\ LET t == registry[pos[c]]
     IN  /\ merged' = [merged EXCEPT ![c] = @ \cup pend[t]]
         /\ pend' = [pend EXCEPT ![t] = {}]
  /\ pos' = [pos EXCEPT ![c] = @ + 1]
  /\ UNCHANGED <<inside, keyOf, registry, statsLock, loaded, registryLock, flushVars, cpc,
                 snapshot, outVars, endVars>>

\* Swaps one thread's maps out under its lock and merges them.
SwapThread(c) ==
  /\ alive
  /\ cpc[c] = "collect" /\ pos[c] <= Len(registry)
  /\ LET t == registry[pos[c]]
     IN  /\ statsLock[t] = None
         /\ merged' = [merged EXCEPT ![c] = @ \cup pend[t]]
         /\ pend' = [pend EXCEPT ![t] = {}]
  /\ pos' = [pos EXCEPT ![c] = @ + 1]
  /\ UNCHANGED <<inside, keyOf, registry, statsLock, loaded, registryLock, flushVars, cpc,
                 snapshot, outVars, endVars>>

\* Releases the registry.  A timer flush of nothing writes nothing.
EndCollect(c) ==
  /\ alive
  /\ cpc[c] = "collect" /\ pos[c] > Len(registry)
  /\ registryLock' = None
  /\ IF c = Flusher /\ kind = "timer" /\ merged[c] = {}
     THEN /\ cpc' = [cpc EXCEPT ![c] = "idle"]
          /\ fpc' = "poll"
     ELSE /\ cpc' = [cpc EXCEPT ![c] = "write"]
          /\ UNCHANGED fpc
  /\ UNCHANGED <<recordVars, kind, elapsed, interval, hasSem, sem, signals, pos, merged,
                 snapshot, outVars, endVars>>

\* One method_stats or exception_stats line, or none when Lookup fails.
WriteLine(c, k) ==
  /\ alive
  /\ cpc[c] = "write"
  /\ LET line == {x \in merged[c] : keyOf[x] = k}
     IN  /\ line # {}
         /\ merged' = [merged EXCEPT ![c] = @ \ line]
         /\ IF k \in Unresolved
            THEN dropped' = dropped \cup line /\ UNCHANGED buffered
            ELSE buffered' = buffered \cup line /\ UNCHANGED dropped
  /\ UNCHANGED <<recordVars, registryLock, flushVars, cpc, pos, snapshot, file, endVars>>

EndWrite(c) ==
  /\ alive
  /\ cpc[c] = "write" /\ merged[c] = {}
  /\ cpc' = [cpc EXCEPT ![c] = "sync"]
  /\ UNCHANGED <<recordVars, registryLock, flushVars, pos, merged, snapshot, outVars, endVars>>

\* Mutation: the flush thread writes its lines but does not flush the writer.
SyncSkipped(c) ==
  /\ alive
  /\ cpc[c] = "sync"
  /\ cpc' = [cpc EXCEPT ![c] = "idle"]
  /\ IF c = Flusher
     THEN fpc' = "poll" /\ UNCHANGED spc
     ELSE spc' = "closed" /\ UNCHANGED fpc
  /\ UNCHANGED <<recordVars, registryLock, kind, elapsed, interval, hasSem, sem, signals, pos,
                 merged, snapshot, dropped, file, buffered, shutdown, alive>>

\* NdjsonWriter::Flush, whose write succeeds, after which the flush thread polls
\* again and Shutdown deletes the context.
Sync(c) ==
  /\ alive
  /\ cpc[c] = "sync"
  /\ file' = file \cup buffered
  /\ buffered' = {}
  /\ cpc' = [cpc EXCEPT ![c] = "idle"]
  /\ IF c = Flusher
     THEN fpc' = "poll" /\ UNCHANGED spc
     ELSE spc' = "closed" /\ UNCHANGED fpc
  /\ UNCHANGED <<recordVars, registryLock, kind, elapsed, interval, hasSem, sem, signals, pos,
                 merged, snapshot, dropped, shutdown, alive>>

-----------------------------------------------------------------------------
(* The flush thread: StartPeriodicFlush, FlushThreadProc.                  *)

\* No thread without a timer and without a semaphore; its event or the
\* thread itself may fail to be created.
StartPeriodicFlush ==
  /\ alive
  /\ fpc = "new"
  /\ interval' \in Intervals
  /\ hasSem' \in SemChoices
  /\ \/ fpc' = "poll" /\ (interval' > 0 \/ hasSem')
     \/ fpc' = "none" /\ (StartMayFail \/ (interval' = 0 /\ ~hasSem'))
  /\ UNCHANGED <<recordVars, registryLock, kind, elapsed, sem, signals, collectVars, outVars,
                 endVars>>

\* metreja flush, from another process.
SignalFlush ==
  /\ alive
  /\ hasSem /\ signals < MaxSignals
  /\ signals' = signals + 1
  /\ sem' = IF Coalesce THEN 1 ELSE sem + 1
  /\ UNCHANGED <<recordVars, registryLock, fpc, kind, elapsed, interval, hasSem, collectVars,
                 outVars, endVars>>

\* Mutation: the loop goes on to wait without looking at the semaphore.
PollIgnoresSignal ==
  /\ alive
  /\ fpc = "poll"
  /\ fpc' = "wait"
  /\ UNCHANGED <<recordVars, registryLock, kind, elapsed, interval, hasSem, sem, signals,
                 collectVars, outVars, endVars>>

\* Mutation: the semaphore is decremented without being tested.
PollBlindly ==
  /\ alive
  /\ fpc = "poll"
  /\ IF hasSem
     THEN /\ sem' = sem - 1
          /\ fpc' = "flush" /\ kind' = "manual" /\ elapsed' = 0
          /\ cpc' = [cpc EXCEPT ![Flusher] = "lock"]
     ELSE /\ fpc' = "wait"
          /\ UNCHANGED <<sem, kind, elapsed, cpc>>
  /\ UNCHANGED <<recordVars, registryLock, interval, hasSem, signals, pos, merged, snapshot,
                 outVars, endVars>>

\* The head of the loop: a manual signal is served before anything else.
Poll ==
  /\ alive
  /\ fpc = "poll"
  /\ IF hasSem /\ sem > 0
     THEN /\ sem' = sem - 1
          /\ fpc' = "flush" /\ kind' = "manual" /\ elapsed' = 0
          /\ cpc' = [cpc EXCEPT ![Flusher] = "lock"]
     ELSE /\ fpc' = "wait"
          /\ UNCHANGED <<sem, kind, elapsed, cpc>>
  /\ UNCHANGED <<recordVars, registryLock, interval, hasSem, signals, pos, merged, snapshot,
                 outVars, endVars>>

\* Mutation: the shutdown event is not looked at.
WaitIgnoresShutdown == FALSE /\ UNCHANGED vars

WaitShutdown ==
  /\ alive
  /\ fpc = "wait"
  /\ shutdown
  /\ fpc' = "exit"
  /\ UNCHANGED <<recordVars, registryLock, kind, elapsed, interval, hasSem, sem, signals,
                 collectVars, outVars, endVars>>

WaitError ==
  /\ alive
  /\ fpc = "wait"
  /\ WaitMayFail
  /\ fpc' = "exit"
  /\ UNCHANGED <<recordVars, registryLock, kind, elapsed, interval, hasSem, sem, signals,
                 collectVars, outVars, endVars>>

\* A full interval has passed: without a semaphore the wait is the interval,
\* with one it is a poll and the polls are added up.
IntervalOver == interval > 0 /\ (~hasSem \/ elapsed + 1 >= interval)

\* Mutation: the polls are never added up.
WaitTimeoutForgetful ==
  /\ alive
  /\ fpc = "wait"
  /\ ~shutdown
  /\ IF interval > 0 /\ ~hasSem
     THEN /\ fpc' = "flush" /\ kind' = "timer" /\ elapsed' = 0
          /\ cpc' = [cpc EXCEPT ![Flusher] = "lock"]
     ELSE /\ fpc' = "poll"
          /\ UNCHANGED <<elapsed, kind, cpc>>
  /\ UNCHANGED <<recordVars, registryLock, interval, hasSem, sem, signals, pos, merged,
                 snapshot, outVars, endVars>>

WaitTimeout ==
  /\ alive
  /\ fpc = "wait"
  /\ ~shutdown
  /\ IF IntervalOver
     THEN /\ fpc' = "flush" /\ kind' = "timer" /\ elapsed' = 0
          /\ cpc' = [cpc EXCEPT ![Flusher] = "lock"]
     ELSE /\ fpc' = "poll"
          /\ elapsed' = IF interval = 0 THEN elapsed ELSE elapsed + 1
          /\ UNCHANGED <<kind, cpc>>
  /\ UNCHANGED <<recordVars, registryLock, interval, hasSem, sem, signals, pos, merged,
                 snapshot, outVars, endVars>>

-----------------------------------------------------------------------------
(* Shutdown: StopPeriodicFlush, then a last flush; and the outside world.  *)

\* Sets the event, which exists exactly when the thread was started.
StopSignal ==
  /\ alive
  /\ spc = "running" /\ fpc # "new"
  /\ shutdown' = (fpc # "none")
  /\ spc' = "joining"
  /\ UNCHANGED <<recordVars, registryLock, flushVars, collectVars, outVars, alive>>

\* Mutation: the final flush does not wait for the flush thread.
StopWithoutJoin ==
  /\ alive
  /\ spc = "joining"
  /\ spc' = "final"
  /\ cpc' = [cpc EXCEPT ![Finalizer] = "lock"]
  /\ UNCHANGED <<recordVars, registryLock, flushVars, pos, merged, snapshot, outVars, shutdown,
                 alive>>

StopJoin ==
  /\ alive
  /\ spc = "joining"
  /\ fpc \in {"none", "exit"}
  /\ spc' = "final"
  /\ cpc' = [cpc EXCEPT ![Finalizer] = "lock"]
  /\ UNCHANGED <<recordVars, registryLock, flushVars, pos, merged, snapshot, outVars, shutdown,
                 alive>>

\* The writer drains its buffer at 80%, whoever filled it.
Drain ==
  /\ alive
  /\ buffered # {}
  /\ file' = file \cup buffered
  /\ buffered' = {}
  /\ UNCHANGED <<recordVars, registryLock, flushVars, collectVars, dropped, endVars>>

Kill ==
  /\ alive /\ MayBeKilled
  /\ alive' = FALSE
  /\ UNCHANGED <<recordVars, registryLock, flushVars, collectVars, outVars, spc, shutdown>>

Terminated ==
  /\ ~alive \/ spc = "closed"
  /\ UNCHANGED vars

Collect(c) ==
  \/ BeginCollect(c)
  \/ SwapThread(c)
  \/ EndCollect(c)
  \/ \E k \in Keys : WriteLine(c, k)
  \/ EndWrite(c)
  \/ Sync(c)

FlushThread == Poll \/ WaitShutdown \/ WaitError \/ WaitTimeout \/ Collect(Flusher)
ShutdownThread == StopJoin \/ Collect(Finalizer)

Next ==
  \/ \E t \in Threads : EnterCallback(t)
  \/ \E t \in Threads : Register(t)
  \/ \E t \in Threads, k \in Keys : BeginRecord(t, k)
  \/ \E t \in Threads : EndRecord(t)
  \/ StartPeriodicFlush
  \/ SignalFlush
  \/ FlushThread
  \/ StopSignal
  \/ ShutdownThread
  \/ Drain
  \/ Kill
  \/ Terminated

Spec == Init /\ [][Next]_vars

\* The operating system schedules the flush thread, the thread that runs
\* Shutdown once it has begun, and a thread inside its short critical section.
Fairness ==
  /\ WF_vars(FlushThread)
  /\ WF_vars(ShutdownThread)
  /\ \A t \in Threads : WF_vars(EndRecord(t))

FairSpec == Spec /\ Fairness

-----------------------------------------------------------------------------
(* Properties.                                                             *)

(* Type invariant.                                                          *)
TypeOK ==
  /\ inside \subseteq Threads
  /\ keyOf \in Seq(Keys)
  /\ registry \in Seq(Threads)
  /\ registryLock \in Collectors \cup {None}
  /\ statsLock \in [Threads -> Threads \cup {None}]
  /\ pend \in [Threads -> SUBSET Calls]
  /\ fpc \in {"new", "none", "poll", "wait", "flush", "exit"}
  /\ kind \in {"manual", "timer"}
  /\ elapsed \in Nat /\ interval \in Nat /\ sem \in Nat /\ signals \in Nat
  /\ hasSem \in BOOLEAN
  /\ cpc \in [Collectors -> {"idle", "lock", "collect", "write", "sync"}]
  /\ pos \in [Collectors -> Nat \ {0}]
  /\ merged \in [Collectors -> SUBSET Calls]
  /\ snapshot \in [Collectors -> SUBSET Calls]
  /\ buffered \subseteq Calls /\ file \subseteq Calls /\ dropped \subseteq Calls
  /\ spc \in {"running", "joining", "final", "closed"}
  /\ shutdown \in BOOLEAN /\ alive \in BOOLEAN
  /\ DOMAIN loaded = Threads
  /\ \A t \in Threads : statsLock[t] = t =>
       loaded[t] \in Keys \X SUBSET Calls

\* The places a recorded call can be in.
InPend(x, t) == x \in pend[t]
InMerged(x, c) == x \in merged[c]
InOutput(x) == x \in buffered \cup file \cup dropped

(* No recorded call is lost: it is in a thread's maps, in a collector's     *)
(* hands, on a line, or was dropped because its method is unknown.          *)
NoCallLost ==
  \A x \in Calls :
    \/ \E t \in Threads : InPend(x, t)
    \/ \E c \in Collectors : InMerged(x, c)
    \/ InOutput(x)

(* No recorded call is summed up twice: it is in one of those places only.  *)
NoCallTwice ==
  /\ \A x \in Calls, t \in Threads :
       InPend(x, t) =>
         /\ \A u \in Threads \ {t} : ~InPend(x, u)
         /\ \A c \in Collectors : ~InMerged(x, c)
         /\ ~InOutput(x)
  /\ \A x \in Calls, c \in Collectors :
       InMerged(x, c) => /\ \A d \in Collectors \ {c} : ~InMerged(x, d)
                         /\ ~InOutput(x)
  /\ buffered \cap file = {} /\ (buffered \cup file) \cap dropped = {}

Resolved(S) == {x \in S : keyOf[x] \notin Unresolved}

(* README 592, "protects against data loss when the profiled process is     *)
(* force-killed": between two flushes of the flush thread, every call that  *)
(* was recorded before the last one began is already in the file, as long   *)
(* as the writer's writes succeed (NdjsonWriter.cpp 340-348 ignores it).    *)
FlushIsDurable == fpc \in {"poll", "wait", "exit"} => Resolved(snapshot[Flusher]) \subseteq file

(* Shutdown leaves no statistics behind: what was recorded before its last  *)
(* collection began is in the file, as long as the writer's writes succeed. *)
ShutdownIsComplete == spc = "closed" => Resolved(snapshot[Finalizer]) \subseteq file

(* Collections never overlap: the flush thread has ended before Shutdown    *)
(* collects, and whoever collects holds the registry.                       *)
CollectorsExclude ==
  /\ ~(cpc[Flusher] # "idle" /\ cpc[Finalizer] # "idle")
  /\ \A c \in Collectors : cpc[c] = "collect" <=> registryLock = c

(* What Profiler.cpp 124, "Stop callbacks first", says of Shutdown: when    *)
(* the context is deleted no callback is still using it.                    *)
ContextOutlivesCallbacks == spc = "closed" => inside = {}

(* StopPeriodicFlush returns: the join waits for a thread that does stop.   *)
StopReturns == (spc = "joining") ~> (spc \in {"final", "closed"} \/ ~alive)

(* Every manual flush request is taken up, unless the flush thread ends or  *)
(* the process is killed first: none is starved by the timer.               *)
ManualFlushServed ==
  \A n \in 1..MaxSignals :
    (signals >= n /\ fpc # "none") ~> (signals - sem >= n \/ fpc = "exit" \/ ~alive)

(* With a periodic flush every resolved call reaches the file, unless the   *)
(* flush thread is stopped or the process killed first.                     *)
EventuallyDurable ==
  \A x \in 1..MaxCalls :
    (x \in Calls /\ keyOf[x] \notin Unresolved /\ interval > 0 /\ fpc \notin {"new", "none"})
      ~> (x \in file \/ fpc = "exit" \/ ~alive)
=============================================================================
