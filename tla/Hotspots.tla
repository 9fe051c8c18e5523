------------------------------ MODULE Hotspots ------------------------------
(***************************************************************************)
(* The hotspots analysis of the command-line tool over the enter and leave *)
(* lines the profiler writes: HotspotsAnalyzer.AggregateAsync replays the  *)
(* lines of a thread on a stack of its own.  The analysis runs after the   *)
(* program has ended; here it reads each line as it is written, which      *)
(* comes to the same for one thread, as lines of a thread keep their order *)
(* (NdjsonWriter).  The trace has enter and leave lines and no filter is   *)
(* given; method_stats lines are not read.                                 *)
(***************************************************************************)
EXTENDS CallStack

VARIABLE replay   \* the analyzer: its stack of frames and its table

hotVars == <<now, frames, exc, truth, irregular, thread, stats, event, replay>>

ReplayEnter(r, line) ==
  [r EXCEPT !.stack = Append(@, [key |-> line.m, childrenNs |-> 0])]

\* Mutation: the parent frame is not told about its child's time.
ReplayLeaveNoCredit(r, line) ==
  IF r.stack = <<>>
  THEN r
  ELSE [stack |-> Front(r.stack),
        table |-> Tally(r.table, line.m, line.deltaNs, line.deltaNs - Last(r.stack).childrenNs)]

\* The popped frame gives the children's time; the key is the line's own.  A
\* leave without a frame is skipped.
ReplayLeave(r, line) ==
  IF r.stack = <<>>
  THEN r
  ELSE LET rest == Front(r.stack)
       IN  [stack |-> IF rest = <<>> THEN rest
                      ELSE [rest EXCEPT ![Len(rest)].childrenNs = @ + line.deltaNs],
            table |-> Tally(r.table, line.m, line.deltaNs,
                            line.deltaNs - Last(r.stack).childrenNs)]

\* The line the step wrote, if it wrote one.
ReadLine ==
  replay' = IF event'.seq = event.seq THEN replay
            ELSE CASE event'.type = "enter" -> ReplayEnter(replay, event')
                   [] event'.type = "leave" -> ReplayLeave(replay, event')
                   [] OTHER -> replay

HotInit ==
  /\ Init
  /\ replay = [stack |-> <<>>, table |-> [m \in Methods \cup {NoMethod} |-> Zero]]

HotNext ==
  \/ \E m \in Methods : Call(m) /\ ReadLine
  \/ Return /\ ReadLine
  \/ \E catcher \in 0..Len(frames) : Throw(catcher) /\ ReadLine
  \/ CatcherFound /\ ReadLine
  \/ UnwindFrame /\ ReadLine
  \/ FrameUnwound /\ ReadLine
  \/ CatcherEntered /\ ReadLine

HotSpec == HotInit /\ [][HotNext]_hotVars

-----------------------------------------------------------------------------
Deferred == IF thread.deferred.has THEN 1 ELSE 0

(* The analyzer's stack has a frame for every entry of the shadow stack and  *)
(* for the one held back, at every moment of an unwind: no leave line finds  *)
(* it empty and is skipped, and no frame is left over (HotspotsAnalyzer.cs   *)
(* 112 against FinalizeDeferredUnwind and ExceptionCatcherEnter).            *)
ReplayDepth ==
  {"enter", "leave"} \subseteq Events =>
    Len(replay.stack) = Len(thread.stack) + Deferred

(* Between exceptions the table has every call of every method, whatever was *)
(* unwound and in whatever order the leave lines came.                       *)
HotspotsCountExact ==
  ({"enter", "leave"} \subseteq Events /\ ~Dispatching) =>
    \A m \in Included :
      replay.table[m].callCount + Shadowed(m) = truth[m].callCount + Live(m)

(* Where the profiler's own tallies are exact (RegularSelfTimeExact), so is   *)
(* the analyzer's table, which recomputes self times from the lines alone and *)
(* does not clamp them at 0.                                                  *)
HotspotsExact ==
  ({"enter", "leave"} \subseteq Events /\ ~Dispatching /\ ~irregular) =>
    \A m \in Included : replay.table[m] = truth[m]
=============================================================================
