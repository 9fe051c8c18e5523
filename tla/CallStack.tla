------------------------------ MODULE CallStack ------------------------------
(***************************************************************************)
(* One managed thread's shadow call stack: EnterStub, LeaveStub and the    *)
(* exception callbacks of Profiler.cpp over the ThreadCallStack of         *)
(* CallStack.h.  The stack is thread-local, so threads do not interact and *)
(* one thread is enough.                                                   *)
(*                                                                         *)
(* The CLR is external: `frames' is the real stack of activations and      *)
(* `exc' the exception dispatches in progress, innermost last.  A dispatch *)
(* searches for a catcher (first pass: filters may run), then unwinds from *)
(* the top (second pass: each frame gets UnwindFunctionEnter, then its     *)
(* finally block may run), and ends when the catcher's handler is entered. *)
(*                                                                         *)
(* ProfilerConfig::computeDeltas is on: with it off every deltaNs is 0.    *)
(***************************************************************************)
EXTENDS Integers, Sequences, SequencesExt, FiniteSets

CONSTANTS
  Methods,        \* FunctionIDs the program calls
  NoMethod,       \* the FunctionID 0
  Included,       \* methods the filters include (MethodInfo::isIncluded)
  AsyncMethods,   \* included methods that are an async state machine's MoveNext
  Events,         \* enabled events, a non-empty subset of EventTypes
  Ticks,          \* how far the clock may move between two timestamps
  HandlerCalls,   \* TRUE: filters and finally blocks may call methods
  NestedThrows,   \* TRUE: a method called by a handler may throw and catch
  MaxDepth,       \* bound: activations at once
  MaxTime         \* bound: no call and no throw starts later than this

EventTypes == {"enter", "leave", "method_stats", "exception", "exception_stats"}

\* COR_PRF_MONITOR_EXCEPTIONS is requested for the exception events only;
\* without it the CLR makes none of the Exception... callbacks.
MonitorExceptions == Events \cap {"exception", "exception_stats"} # {}

ASSUME CallStackAssumption ==
  /\ Events \subseteq EventTypes /\ Events # {}
  /\ NoMethod \notin Methods
  /\ Included \subseteq Methods
  /\ AsyncMethods \subseteq Included
  /\ Ticks \subseteq Nat
  /\ HandlerCalls \in BOOLEAN /\ NestedThrows \in BOOLEAN
  /\ MaxDepth \in Nat /\ MaxTime \in Nat

VARIABLES
  now,        \* the clock, in ns; starts at 1: enterTsNs = 0 means "no entry"
  frames,     \* CLR: live activations [m, enter, kids], outermost first
  exc,        \* CLR: dispatches [catcher, at, phase], innermost last
  truth,      \* what an exact profile of `frames' would have tallied
  irregular,  \* history: an unwind step the exactness claims exclude happened
  thread,     \* the ThreadCallStack of CallStack.h
  stats,      \* method -> what RecordMethod accumulated for this thread
  event       \* the last enter, leave or exception event written; seq: its line

runtimeVars == <<now, frames, exc, truth, irregular>>
vars == <<now, frames, exc, truth, irregular, thread, stats, event>>

-----------------------------------------------------------------------------
(* CallStack.h and CallStack.cpp: the stack operations.                    *)

NoEntry == [functionId |-> NoMethod, enterTsNs |-> 0, childrenTimeNs |-> 0]
NoDeferred == [has |-> FALSE, entry |-> NoEntry, functionId |-> NoMethod, tsNs |-> 0]

NewThread ==
  [stack      |-> <<>>,
   catcher    |-> NoMethod,                       \* exceptionCatcherFunctionId
   deferred   |-> NoDeferred,                     \* m_deferredUnwind...
   nesting    |-> [m \in AsyncMethods |-> 0],     \* m_asyncNestingCount
   firstEnter |-> [m \in AsyncMethods |-> 0]]     \* m_asyncFirstEnterNs, 0: absent

Push(th, m, t) ==
  [th EXCEPT !.stack = Append(@, [functionId |-> m, enterTsNs |-> t, childrenTimeNs |-> 0])]

\* Pop() returns {0, 0, 0} and changes nothing when the stack is empty.
Top(th) == IF th.stack = <<>> THEN NoEntry ELSE Last(th.stack)
Pop(th) == IF th.stack = <<>> THEN th ELSE [th EXCEPT !.stack = Front(@)]

\* Mutation: the parent is never credited.
CreditParentNever(th, inclusiveNs) == th

CreditParent(th, inclusiveNs) ==
  IF th.stack # <<>> /\ inclusiveNs > 0
  THEN [th EXCEPT !.stack[Len(th.stack)].childrenTimeNs = @ + inclusiveNs]
  ELSE th

GetDepth(th) == Len(th.stack)

-----------------------------------------------------------------------------
(* Profiler.cpp: timing of an entry, async nesting, tallies, events.       *)

InclusiveNs(entry, t) == IF entry.enterTsNs > 0 THEN t - entry.enterTsNs ELSE 0
SelfNs(entry, t) == Max({0, InclusiveNs(entry, t) - entry.childrenTimeNs})

\* Mutation: the nesting count is decremented without looking the entry up.
DecrementAsyncUnchecked(th, m) ==
  IF m \in AsyncMethods
  THEN [th EXCEPT !.nesting[m] = @ - 1, !.firstEnter[m] = IF th.nesting[m] = 1 THEN 0 ELSE @]
  ELSE th

DecrementAsyncNesting(th, m) ==
  IF m \in AsyncMethods /\ th.nesting[m] > 0
  THEN [th EXCEPT !.nesting[m] = @ - 1, !.firstEnter[m] = IF th.nesting[m] = 1 THEN 0 ELSE @]
  ELSE th

\* What DecrementAsyncNesting returns: only the last decrement measures.
WallTimeNs(th, m, t) ==
  IF m \in AsyncMethods /\ th.nesting[m] = 1 THEN t - th.firstEnter[m] ELSE 0

\* StatsAggregator::RecordMethod on this thread's map.
Tally(tab, m, inclusiveNs, selfNs) ==
  [tab EXCEPT ![m] = [callCount |-> @.callCount + 1,
                      totalInclusiveNs |-> @.totalInclusiveNs + inclusiveNs,
                      totalSelfNs |-> @.totalSelfNs + selfNs]]

RecordMethod(st, m, inclusiveNs, selfNs) ==
  IF "method_stats" \in Events THEN Tally(st, m, inclusiveNs, selfNs) ELSE st

WriteLeave(ev, m, t, depth, deltaNs, wallTimeNs) ==
  IF "leave" \in Events
  THEN [type |-> "leave", m |-> m, tsNs |-> t, depth |-> depth, deltaNs |-> deltaNs,
        wallTimeNs |-> wallTimeNs, seq |-> ev.seq + 1]
  ELSE ev

WriteEnter(ev, m, t, depth) ==
  IF "enter" \in Events
  THEN [type |-> "enter", m |-> m, tsNs |-> t, depth |-> depth, deltaNs |-> 0, wallTimeNs |-> 0,
        seq |-> ev.seq + 1]
  ELSE ev

\* ExceptionThrown: the throw is attributed to the top of the shadow stack.  That
\* the CLR may not give the exception's class, and the callback then ends without
\* a line, is left to ProfilerLifecycle: no property here is about these lines.
WriteException(ev, m, t) ==
  IF "exception" \in Events
  THEN [type |-> "exception", m |-> m, tsNs |-> t, depth |-> 0, deltaNs |-> 0, wallTimeNs |-> 0,
        seq |-> ev.seq + 1]
  ELSE ev

\* FinalizeDeferredUnwind: the thread, the tallies and the event it leaves.
Finalized(th) ==
  LET d == th.deferred
  IN  [DecrementAsyncNesting(CreditParent(th, InclusiveNs(d.entry, d.tsNs)), d.functionId)
         EXCEPT !.deferred = NoDeferred]

\* Mutation: the time of finalization instead of the time of deferral.
FinalizedStatsLate(th, st) ==
  LET d == th.deferred
  IN  RecordMethod(st, d.functionId, InclusiveNs(d.entry, now + 1), SelfNs(d.entry, now + 1))

FinalizedStats(th, st) ==
  LET d == th.deferred
  IN  RecordMethod(st, d.functionId, InclusiveNs(d.entry, d.tsNs), SelfNs(d.entry, d.tsNs))

FinalizedEvent(th, ev) ==
  LET d == th.deferred
      inclusive == InclusiveNs(d.entry, d.tsNs)
  IN  WriteLeave(ev, d.functionId, d.tsNs, GetDepth(th), inclusive, 0)

-----------------------------------------------------------------------------
(* Profiler.cpp: the callbacks.  t is the timestamp the handler reads.     *)

EnterStub(m, t) ==
  /\ LET pushed == Push(thread, m, t)
     IN  thread' = IF m \in AsyncMethods
                   THEN [pushed EXCEPT !.nesting[m] = @ + 1,
                                       !.firstEnter[m] = IF thread.nesting[m] = 0 THEN t ELSE @]
                   ELSE pushed
  /\ event' = WriteEnter(event, m, t, GetDepth(thread))
  /\ UNCHANGED stats

ProcessLeave(m, t) ==
  LET entry == Top(thread)
      rest  == CreditParent(Pop(thread), InclusiveNs(entry, t))
  IN  /\ thread' = DecrementAsyncNesting(rest, m)
      /\ stats'  = RecordMethod(stats, m, InclusiveNs(entry, t), SelfNs(entry, t))
      /\ event'  = WriteLeave(event, m, t, GetDepth(rest), InclusiveNs(entry, t),
                              WallTimeNs(rest, m, t))

\* Profiler.cpp 536: a stale deferred entry is finalized first.
ExceptionSearchCatcherFound(m) ==
  IF thread.deferred.has
  THEN /\ thread' = [Finalized(thread) EXCEPT !.catcher = m]
       /\ stats'  = FinalizedStats(thread, stats)
       /\ event'  = FinalizedEvent(thread, event)
  ELSE /\ thread' = [thread EXCEPT !.catcher = m]
       /\ UNCHANGED <<stats, event>>

\* The frame may be the catcher's: pop it and hold it back.
DeferUnwind(m, t) ==
  LET base == IF thread.deferred.has THEN Finalized(thread) ELSE thread
  IN  /\ thread' = [DecrementAsyncNesting(Pop(base), m) EXCEPT
                      !.deferred = [has |-> TRUE, entry |-> Top(base), functionId |-> m, tsNs |-> t]]
      /\ stats' = IF thread.deferred.has THEN FinalizedStats(thread, stats) ELSE stats
      /\ event' = IF thread.deferred.has THEN FinalizedEvent(thread, event) ELSE event

\* The frame is not the catcher's: it ends here.
FinishUnwound(m, t) ==
  LET entry == Top(thread)
      rest  == CreditParent(Pop(thread), InclusiveNs(entry, t))
  IN  /\ thread' = DecrementAsyncNesting(rest, m)
      /\ stats'  = RecordMethod(stats, entry.functionId, InclusiveNs(entry, t), SelfNs(entry, t))
      /\ event'  = WriteLeave(event, m, t, GetDepth(rest), InclusiveNs(entry, t), 0)

\* Mutation: excluded methods are popped too.
UnwindPopsExcluded(m, t) ==
  IF thread.catcher = m THEN DeferUnwind(m, t) ELSE FinishUnwound(m, t)

\* Mutation: an earlier deferred entry is overwritten, not finalized.
UnwindDropsDeferred(m, t) ==
  IF m \in Included
  THEN IF thread.catcher = m
       THEN /\ thread' = [DecrementAsyncNesting(Pop(thread), m) EXCEPT
                           !.deferred = [has |-> TRUE, entry |-> Top(thread), functionId |-> m, tsNs |-> t]]
            /\ UNCHANGED <<stats, event>>
       ELSE FinishUnwound(m, t)
  ELSE UNCHANGED <<thread, stats, event>>

\* Mutation: unwinding a frame forgets its async nesting.
UnwindKeepsAsync(m, t) ==
  IF m \in Included /\ thread.catcher # m
  THEN LET entry == Top(thread)
       IN  /\ thread' = CreditParent(Pop(thread), InclusiveNs(entry, t))
           /\ stats'  = RecordMethod(stats, entry.functionId, InclusiveNs(entry, t), SelfNs(entry, t))
           /\ UNCHANGED event
  ELSE UNCHANGED <<thread, stats, event>>

ExceptionUnwindFunctionEnter(m, t) ==
  IF m \in Included
  THEN IF thread.catcher = m THEN DeferUnwind(m, t) ELSE FinishUnwound(m, t)
  ELSE UNCHANGED <<thread, stats, event>>

\* Mutation: the entry held back is not put back on the stack.
CatcherNotRestored ==
  /\ thread' = [thread EXCEPT !.deferred = NoDeferred, !.catcher = NoMethod]
  /\ UNCHANGED <<stats, event>>

ExceptionCatcherEnter ==
  /\ thread' = [thread EXCEPT
                  !.stack = IF thread.deferred.has THEN Append(@, thread.deferred.entry) ELSE @,
                  !.deferred = NoDeferred,
                  !.catcher = NoMethod]
  /\ UNCHANGED <<stats, event>>

-----------------------------------------------------------------------------
(* The CLR: what it does to the real stack, and the callback it makes.     *)

Zero == [callCount |-> 0, totalInclusiveNs |-> 0, totalSelfNs |-> 0]

\* The included activation that the top frame's time counts as children time of.
IncludedBelow == {i \in 1..Len(frames) - 1 : frames[i].m \in Included}

\* The innermost activation ends at time t.
EndTopFrame(t) ==
  LET f == Last(frames)
      inclusive == t - f.enter
      rest == Front(frames)
  IN  IF f.m \in Included
      THEN /\ truth' = Tally(truth, f.m, inclusive, inclusive - f.kids)
           /\ frames' = IF IncludedBelow = {} THEN rest
                        ELSE [rest EXCEPT ![Max(IncludedBelow)].kids = @ + inclusive]
      ELSE /\ frames' = rest
           /\ UNCHANGED truth

Dispatching == exc # <<>>
HandlerRuns == Dispatching /\ Last(exc).phase \in {"search", "finally"}

\* Managed code can return when it is not inside a dispatch that has control.
TopReturns == ~Dispatching \/ (HandlerRuns /\ Len(frames) > Last(exc).at)

Init ==
  /\ now = 1
  /\ frames = <<>> /\ exc = <<>> /\ irregular = FALSE
  /\ truth = [m \in Methods \cup {NoMethod} |-> Zero]
  /\ thread = NewThread
  /\ stats = [m \in Methods \cup {NoMethod} |-> Zero]
  /\ event = [type |-> "none", m |-> NoMethod, tsNs |-> 0, depth |-> 0, deltaNs |-> 0, wallTimeNs |-> 0,
              seq |-> 0]

Call(m) ==
  /\ ~Dispatching \/ (HandlerCalls /\ HandlerRuns)
  /\ Len(frames) < MaxDepth
  /\ \E d \in Ticks :
       /\ now + d <= MaxTime
       /\ now' = now + d
       /\ frames' = Append(frames, [m |-> m, enter |-> now + d, kids |-> 0])
       /\ IF m \in Included THEN EnterStub(m, now + d) ELSE UNCHANGED <<thread, stats, event>>
  /\ irregular' = (irregular \/ (Dispatching /\ Last(exc).phase = "finally"))
  /\ UNCHANGED <<exc, truth>>

\* LeaveStub and TailcallStub: a tailcall leaves before its callee enters.
Return ==
  /\ frames # <<>>
  /\ TopReturns
  /\ \E d \in Ticks :
       /\ now' = now + d
       /\ EndTopFrame(now + d)
       /\ IF Last(frames).m \in Included
          THEN ProcessLeave(Last(frames).m, now + d)
          ELSE UNCHANGED <<thread, stats, event>>
  /\ UNCHANGED <<exc, irregular>>

\* The top activation throws; `catcher' is the position of the frame that will
\* catch, 0 if only native code below the stack will (no CatcherFound then).
Throw(catcher) ==
  /\ frames # <<>>
  /\ now < MaxTime
  /\ IF Dispatching
     THEN NestedThrows /\ HandlerRuns /\ catcher > Last(exc).at
     ELSE TRUE
  /\ exc' = Append(exc, [catcher |-> catcher, at |-> Len(frames), phase |-> "search"])
  /\ event' = WriteException(event, Top(thread).functionId, now)
  /\ UNCHANGED <<now, frames, truth, irregular, thread, stats>>

CatcherFound ==
  /\ Dispatching
  /\ Last(exc).phase = "search" /\ Len(frames) = Last(exc).at
  /\ exc' = [exc EXCEPT ![Len(exc)].phase = "unwind"]
  /\ IF MonitorExceptions /\ Last(exc).catcher # 0
     THEN ExceptionSearchCatcherFound(frames[Last(exc).catcher].m)
     ELSE UNCHANGED <<thread, stats, event>>
  /\ UNCHANGED <<now, frames, truth, irregular>>

UnwindFrame ==
  /\ Dispatching
  /\ Last(exc).phase = "unwind"
  /\ LET m == Last(frames).m
     IN  /\ exc' = [exc EXCEPT ![Len(exc)].phase = "finally"]
         /\ \E d \in Ticks : /\ now' = now + d
                             /\ IF MonitorExceptions
                                THEN ExceptionUnwindFunctionEnter(m, now + d)
                                ELSE UNCHANGED <<thread, stats, event>>
         /\ irregular' = (irregular \/ (m \in Included /\ m # thread.catcher /\ thread.deferred.has))
  /\ UNCHANGED <<frames, truth>>

\* The unwound frame is gone (UnwindFunctionLeave does nothing in the profiler).
FrameUnwound ==
  /\ Dispatching
  /\ Last(exc).phase = "finally"
  /\ Len(frames) = Last(exc).at /\ Last(exc).at # Last(exc).catcher
  /\ EndTopFrame(now)
  /\ exc' = IF Last(exc).at = 1
            THEN Front(exc)
            ELSE [exc EXCEPT ![Len(exc)].at = @ - 1, ![Len(exc)].phase = "unwind"]
  /\ UNCHANGED <<now, irregular, thread, stats, event>>

CatcherEntered ==
  /\ Dispatching
  /\ Last(exc).phase = "finally"
  /\ Len(frames) = Last(exc).at /\ Last(exc).at = Last(exc).catcher
  /\ IF MonitorExceptions THEN ExceptionCatcherEnter ELSE UNCHANGED <<thread, stats, event>>
  /\ exc' = Front(exc)
  /\ UNCHANGED <<now, frames, truth, irregular>>

Next ==
  \/ \E m \in Methods : Call(m)
  \/ Return
  \/ \E catcher \in 0..Len(frames) : Throw(catcher)
  \/ CatcherFound
  \/ UnwindFrame
  \/ FrameUnwound
  \/ CatcherEntered

Spec == Init /\ [][Next]_vars

-----------------------------------------------------------------------------
(* Properties.                                                             *)

MethodIds == Methods \cup {NoMethod}
Entries == [functionId : MethodIds, enterTsNs : Nat, childrenTimeNs : Nat]
Tallies == [callCount : Nat, totalInclusiveNs : Nat, totalSelfNs : Nat]

(* Type invariant of the profiler's state; in particular a nesting count    *)
(* that was never incremented is never decremented, and times are not       *)
(* negative.                                                                *)
TypeOK ==
  /\ now \in Nat
  /\ thread.stack \in Seq(Entries)
  /\ thread.catcher \in MethodIds
  /\ thread.deferred \in [has : BOOLEAN, entry : Entries, functionId : MethodIds, tsNs : Nat]
  /\ thread.nesting \in [AsyncMethods -> Nat]
  /\ thread.firstEnter \in [AsyncMethods -> Nat]
  /\ stats \in [MethodIds -> Tallies]
  /\ event.depth \in Nat /\ event.deltaNs \in Nat /\ event.wallTimeNs \in Nat

\* Frames whose UnwindFunctionEnter was delivered while they still exist.
BeingUnwound == {exc[i].at : i \in {j \in DOMAIN exc : exc[j].phase = "finally"}}

Visible == {i \in DOMAIN frames : frames[i].m \in Included /\ i \notin BeingUnwound}

\* The position of i among the elements of S.
Rank(S, i) == Cardinality({j \in S : j <= i})

(* The shadow stack is the real stack, restricted to included methods that  *)
(* are not being unwound, activation by activation; while the catcher's     *)
(* frame is being unwound the entry held back is that activation's.         *)
ShadowMirrorsRuntime ==
  /\ Len(thread.stack) = Cardinality(Visible)
  /\ \A i \in Visible :
       LET entry == thread.stack[Rank(Visible, i)]
       IN  entry.functionId = frames[i].m /\ entry.enterTsNs = frames[i].enter
  /\ \A i \in DOMAIN exc :
       (/\ exc[i].phase = "finally"
        /\ exc[i].at = exc[i].catcher
        /\ frames[exc[i].at].m \in Included) =>
          /\ thread.deferred.has
          /\ thread.deferred.entry.enterTsNs = frames[exc[i].at].enter

\* Live activations of m, and the shadow's share of them.
Live(m) == Cardinality({i \in DOMAIN frames : frames[i].m = m})
Shadowed(m) ==
  Cardinality({k \in DOMAIN thread.stack : thread.stack[k].functionId = m})
    + (IF thread.deferred.has /\ thread.deferred.functionId = m THEN 1 ELSE 0)

(* No call is lost and none is counted twice, at any moment of an unwind:   *)
(* what was recorded plus what the shadow stack still holds is every call   *)
(* of the method ever made (Profiler.cpp: the recursive-catch deferral).    *)
CallsConserved ==
  "method_stats" \in Events =>
    \A m \in Included : stats[m].callCount + Shadowed(m) = truth[m].callCount + Live(m)

(* Between exceptions the recorded call counts and inclusive times are      *)
(* those of an exact profile, unless something irregular happened: a        *)
(* finally block made a call, or, in a mutual recursion, a frame of another *)
(* method was unwound while an activation of the catcher's was held back.   *)
InclusiveTimeExact ==
  (~Dispatching /\ ~irregular /\ "method_stats" \in Events) =>
    \A m \in Included : /\ stats[m].callCount = truth[m].callCount
                        /\ stats[m].totalInclusiveNs = truth[m].totalInclusiveNs

(* The same of self times, which also depend on which entry the time of a   *)
(* deferred activation is credited to (Profiler.cpp 509-512).               *)
RegularSelfTimeExact ==
  (~Dispatching /\ ~irregular /\ "method_stats" \in Events) =>
    \A m \in Included : stats[m].totalSelfNs = truth[m].totalSelfNs

(* Async nesting counts never exceed the live activations, and the recorded *)
(* first-enter time is that of a live activation: a wall time never spans a *)
(* period in which the method was not running.                              *)
AsyncNestingBounded ==
  \A m \in AsyncMethods :
    /\ thread.nesting[m] <= Live(m)
    /\ (thread.nesting[m] = 0) <=> (thread.firstEnter[m] = 0)
    /\ thread.nesting[m] > 0 =>
         \E i \in DOMAIN frames : frames[i].m = m /\ frames[i].enter = thread.firstEnter[m]

(* Every call that returns normally is reported with its own duration,      *)
(* whatever was thrown, unwound and caught above it before: the pop on      *)
(* leave never finds another activation's entry (ProcessLeave, 951-986).    *)
DeltaTimeExact ==
  [][ (/\ "leave" \in Events
       /\ exc' = exc /\ Len(frames') < Len(frames)
       /\ Last(frames).m \in Included)
      => event'.deltaNs = now' - Last(frames).enter ]_vars

=============================================================================
