--------------------------- MODULE HotspotsProofs ---------------------------
(***************************************************************************)
(* The hotspots analysis counts and measures what an exact profile of the  *)
(* program would, for any methods, filters, clock and depth, where the     *)
(* trace has enter and leave lines, the CLR reports exceptions and no      *)
(* method called by a handler throws.  The table is a function of the      *)
(* lines alone; that it follows the shadow stack that wrote them is shown  *)
(* with the lemmas on counts and times of CallStackShadowProofs, which are *)
(* stated of any table of calls.                                           *)
(***************************************************************************)
EXTENDS Hotspots, CallStackShadowProofs

ReplayFrames == [key : MethodIds, childrenNs : Nat]
ReplayRows == [callCount : Nat, totalInclusiveNs : Nat, totalSelfNs : Int]
ReplayTypes == replay \in [stack : Seq(ReplayFrames), table : [MethodIds -> ReplayRows]]

Both == {"enter", "leave"} \subseteq Events

\* The frames of the analyzer have the children times of the entries they stand
\* for; that of the entry held back is on top, and has not run for less than
\* its children.
Aligned(re, st) == \A j \in 1..Len(st) : re[j].childrenNs = st[j].childrenTimeNs
OnTop(re, k, x) == re[k + 1].childrenNs = x
InStep ==
  /\ Aligned(replay.stack, thread.stack)
  /\ thread.deferred.has =>
       /\ OnTop(replay.stack, Len(thread.stack), thread.deferred.entry.childrenTimeNs)
       /\ thread.deferred.entry.childrenTimeNs <= Late

\* The analyzer follows the shadow stack.
Follows ==
  /\ Len(replay.stack) = Len(thread.stack) + Deferred
  /\ Accounts(replay.table)
  /\ ~irregular => InStep
  /\ Level(TRUE, replay.table)

ReplayInv == ReplayTypes /\ (Both => Follows)

-----------------------------------------------------------------------------
(* The lines, and what becomes of them.                                    *)

\* The step wrote an enter line of m, or a leave line of m with duration x.
WroteEnter(m) == event'.type = "enter" /\ event'.m = m /\ event'.seq = event.seq + 1
WroteLeave(m, x) ==
  event'.type = "leave" /\ event'.m = m /\ event'.deltaNs = x /\ event'.seq = event.seq + 1
\* It wrote none of them.
WroteNeither == event' = event \/ event'.type = "exception"

LEMMA LineFields ==
  ASSUME TypeInv
  PROVE  event.seq \in Nat /\ event \in Lines /\ event.deltaNs \in Nat /\ event.m \in MethodIds
BY DEF TypeInv, ProfilerInv, Output, Lines

LEMMA LinesNext ==
  ASSUME TypeInv'
  PROVE  event'.deltaNs \in Nat /\ event'.m \in MethodIds
BY DEF TypeInv, ProfilerInv, Output, Lines

LEMMA NotRead ==
  ASSUME ReadLine, WroteNeither
  PROVE  replay' = replay
BY DEF ReadLine, WroteNeither

LEMMA EnterRead ==
  ASSUME TypeInv, ReadLine, NEW m, WroteEnter(m)
  PROVE  replay' = [replay EXCEPT !.stack = Append(@, [key |-> m, childrenNs |-> 0])]
<1>1. event.seq \in Nat
  BY LineFields
<1>2. event'.seq # event.seq /\ event'.type = "enter" /\ event'.m = m
  BY <1>1 DEF WroteEnter
<1>3. replay' = ReplayEnter(replay, event')
  BY <1>2 DEF ReadLine
<1> QED BY <1>2, <1>3 DEF ReplayEnter

LEMMA LeaveRead ==
  ASSUME TypeInv, ReadLine, NEW m, NEW x, WroteLeave(m, x)
  PROVE  replay' = ReplayLeave(replay, event') /\ event'.m = m /\ event'.deltaNs = x
<1>1. event.seq \in Nat
  BY LineFields
<1>2. event'.seq # event.seq /\ event'.type = "leave" /\ event'.m = m /\ event'.deltaNs = x
  BY <1>1 DEF WroteLeave
<1> QED BY <1>2 DEF ReadLine

\* A frame more, without children.
Opened ==
  LET k == Len(replay.stack)
  IN  /\ k \in Nat /\ Len(replay'.stack) = k + 1
      /\ \A j \in 1..k : replay'.stack[j] = replay.stack[j]
      /\ OnTop(replay'.stack, k, 0)
      /\ replay'.table = replay.table

LEMMA EnterTypes ==
  ASSUME ReplayTypes, NEW m \in MethodIds,
         replay' = [replay EXCEPT !.stack = Append(@, [key |-> m, childrenNs |-> 0])]
  PROVE  ReplayTypes' /\ Opened
<1> DEFINE f == [key |-> m, childrenNs |-> 0]
           st == replay.stack
<1>1. f \in ReplayFrames /\ f.childrenNs = 0
  BY DEF ReplayFrames
<1>2. replay' = [replay EXCEPT !.stack = Append(@, f)]
  OBVIOUS
<1> HIDE DEF f
<1>3. st \in Seq(ReplayFrames)
  BY DEF ReplayTypes
<1>4. /\ replay'.stack = Append(st, f) /\ replay'.table = replay.table
      /\ replay' \in [stack : Seq(ReplayFrames), table : [MethodIds -> ReplayRows]]
  <2>1. Append(st, f) \in Seq(ReplayFrames)
    BY <1>1, <1>3
  <2>2. /\ replay'.stack = Append(st, f) /\ replay'.table = replay.table
        /\ replay' = [stack |-> Append(st, f), table |-> replay.table]
    BY <1>2 DEF ReplayTypes
  <2> QED BY <2>1, <2>2 DEF ReplayTypes
<1> HIDE DEF st
<1>5. /\ Len(st) \in Nat /\ Len(Append(st, f)) = Len(st) + 1
      /\ \A j \in 1..Len(st) : Append(st, f)[j] = st[j]
      /\ Append(st, f)[Len(st) + 1] = f
  BY <1>1, <1>3
<1>6. Opened
  BY <1>1, <1>4, <1>5 DEF Opened, OnTop, st
<1> QED BY <1>4, <1>6 DEF ReplayTypes

LEMMA EnterOpens ==
  ASSUME TypeInv, ReplayTypes, ReadLine, NEW m \in MethodIds, WroteEnter(m)
  PROVE  Opened
BY EnterRead, EnterTypes

\* The frame on top is gone, its time is its parent's children time, and its
\* row has one more call.
Closed(m, x) ==
  LET k == Len(replay.stack)
  IN  /\ k \in Nat /\ k \in 1..k /\ Len(replay'.stack) = k - 1
      /\ replay.stack[k].childrenNs \in Nat
      /\ \A j \in 1..k - 1 :
           replay'.stack[j].childrenNs =
             IF j = k - 1 THEN replay.stack[j].childrenNs + x ELSE replay.stack[j].childrenNs
      /\ replay'.table = Tally(replay.table, m, x, x - replay.stack[k].childrenNs)

\* A row with one more call is a row.
LEMMA RowsType ==
  ASSUME NEW tab \in [MethodIds -> ReplayRows], NEW m \in MethodIds, NEW x \in Nat, NEW y \in Int
  PROVE  Tally(tab, m, x, y) \in [MethodIds -> ReplayRows]
<1>1. tab[m] \in ReplayRows
  OBVIOUS
<1>2. /\ tab[m].callCount + 1 \in Nat /\ tab[m].totalInclusiveNs + x \in Nat
      /\ tab[m].totalSelfNs + y \in Int
  BY <1>1 DEF ReplayRows
<1> QED BY <1>2 DEF Tally, ReplayRows

LEMMA ClosesTypes ==
  ASSUME ReplayTypes, replay.stack # <<>>, event'.m \in MethodIds, event'.deltaNs \in Nat,
         replay' = ReplayLeave(replay, event')
  PROVE  ReplayTypes' /\ Closed(event'.m, event'.deltaNs)
<1>0. PICK m \in MethodIds, x \in Nat : m = event'.m /\ x = event'.deltaNs
  OBVIOUS
<1> DEFINE st == replay.stack
           k == Len(st)
           rest == Front(st)
           tab == replay.table
           st2 == IF rest = <<>> THEN rest ELSE [rest EXCEPT ![Len(rest)].childrenNs = @ + x]
           tab2 == Tally(tab, m, x, x - Last(st).childrenNs)
<1>1. st \in Seq(ReplayFrames) /\ tab \in [MethodIds -> ReplayRows]
  BY DEF ReplayTypes
<1>2. k \in Nat /\ st # <<>>
  BY <1>1, EmptyIffLen
<1>3. replay' = [stack |-> st2, table |-> tab2]
  BY <1>0, <1>2 DEF ReplayLeave
<1> HIDE DEF st2, tab2
<1>4. replay'.stack = st2 /\ replay'.table = tab2
  BY <1>3
<1> HIDE DEF st, tab
<1>5. /\ k >= 1 /\ k \in 1..k /\ Last(st) = st[k] /\ Last(st) \in ReplayFrames
      /\ rest \in Seq(ReplayFrames) /\ Len(rest) = k - 1
      /\ \A j \in 1..k - 1 : rest[j] = st[j]
  BY <1>1, <1>2, FrontLast
<1>6. Last(st).childrenNs \in Nat /\ \A j \in 1..k - 1 : rest[j].childrenNs = st[j].childrenNs
  BY <1>5 DEF ReplayFrames
<1>7. tab2 \in [MethodIds -> ReplayRows]
  BY <1>1, <1>6, RowsType DEF tab2
<1> HIDE DEF rest, k
<1>8. /\ st2 \in Seq(ReplayFrames) /\ Len(st2) = k - 1
      /\ \A j \in 1..k - 1 :
           st2[j].childrenNs = IF j = k - 1 THEN rest[j].childrenNs + x ELSE rest[j].childrenNs
  <2>1. rest = <<>> <=> Len(rest) = 0
    BY <1>5, EmptyIffLen
  <2>2. CASE rest = <<>>
    BY <1>2, <1>5, <2>1, <2>2 DEF st2
  <2>3. CASE rest # <<>>
    <3> DEFINE n == Len(rest)
               r == [rest EXCEPT ![n].childrenNs = @ + x]
    <3>1. n \in Nat /\ n \in 1..n /\ n = k - 1
      BY <1>2, <1>5, <2>1, <2>3
    <3>2. \A j \in 1..n : rest[j] \in ReplayFrames /\ rest[j].childrenNs \in Nat
      <4>1. \A j \in 1..n : rest[j] \in ReplayFrames
        BY <1>5
      <4> QED BY <4>1 DEF ReplayFrames
    <3>3. [rest[n] EXCEPT !.childrenNs = @ + x] \in ReplayFrames
      BY <3>1, <3>2 DEF ReplayFrames
    <3>4. /\ r \in Seq(ReplayFrames) /\ Len(r) = n
          /\ \A j \in 1..n : r[j] = IF j = n THEN [rest[n] EXCEPT !.childrenNs = @ + x] ELSE rest[j]
      BY <1>5, <3>1, <3>3
    <3>5. [rest[n] EXCEPT !.childrenNs = @ + x].childrenNs = rest[n].childrenNs + x
      BY <3>1, <3>2 DEF ReplayFrames
    <3>6. st2 = r
      BY <2>3 DEF st2
    <3> HIDE DEF r, n
    <3> QED BY <3>1, <3>4, <3>5, <3>6
  <2> QED BY <2>2, <2>3
<1>9. ReplayTypes'
  BY <1>3, <1>7, <1>8 DEF ReplayTypes
<1>10. \A j \in 1..k - 1 :
         st2[j].childrenNs = IF j = k - 1 THEN st[j].childrenNs + x ELSE st[j].childrenNs
  BY <1>6, <1>8
<1>11. Closed(m, x)
  BY <1>2, <1>4, <1>5, <1>6, <1>8, <1>10 DEF Closed, st, tab, k, tab2
<1> QED BY <1>0, <1>9, <1>11

LEMMA LeaveCloses ==
  ASSUME TypeInv, ReplayTypes, ReadLine, Len(replay.stack) # 0,
         NEW m \in MethodIds, NEW x \in Nat, WroteLeave(m, x)
  PROVE  Closed(m, x)
<1>1. replay.stack # <<>>
  BY EmptyIffLen DEF ReplayTypes
<1>2. replay' = ReplayLeave(replay, event') /\ event'.m = m /\ event'.deltaNs = x
  BY LeaveRead
<1> QED BY <1>1, <1>2, ClosesTypes

-----------------------------------------------------------------------------
(* The lines the profiler writes.                                          *)

LEMMA LeaveWritten ==
  ASSUME TypeInv, Both, NEW m, NEW t, NEW depth, NEW x, NEW wall,
         event' = WriteLeave(event, m, t, depth, x, wall)
  PROVE  WroteLeave(m, x)
<1>1. "leave" \in Events
  BY DEF Both
<1>2. event' = [type |-> "leave", m |-> m, tsNs |-> t, depth |-> depth, deltaNs |-> x,
                wallTimeNs |-> wall, seq |-> event.seq + 1]
  BY <1>1 DEF WriteLeave
<1> QED BY <1>2 DEF WroteLeave

LEMMA CallLine ==
  ASSUME TypeInv, ShadowInv, Both, NEW m \in Methods, Call(m)
  PROVE  /\ m \in Included => WroteEnter(m)
         /\ m \notin Included => event' = event
<1>1. IF m \in Included THEN EnterStub(m, now') ELSE UNCHANGED <<thread, stats, event>>
  BY CallShown DEF TypeInv, ShadowInv
<1>2. "enter" \in Events
  BY DEF Both
<1>3. CASE m \in Included
  <2>1. event' = WriteEnter(event, m, now', GetDepth(thread))
    BY <1>1, <1>3 DEF EnterStub
  <2>2. event' = [type |-> "enter", m |-> m, tsNs |-> now', depth |-> GetDepth(thread), deltaNs |-> 0,
                  wallTimeNs |-> 0, seq |-> event.seq + 1]
    BY <1>2, <2>1 DEF WriteEnter
  <2> QED BY <1>3, <2>2 DEF WroteEnter
<1> QED BY <1>1, <1>3

\* The top frame, when it is shown, and the top entry.
LEMMA TopIs ==
  ASSUME TypeInv, ShadowInv, Len(frames) \in Shown
  PROVE  /\ Top(thread) = thread.stack[Len(thread.stack)] /\ Len(thread.stack) # 0
         /\ thread.stack[Len(thread.stack)].functionId = frames[Len(frames)].m
<1>1. thread \in Thread /\ RuntimeInv
  BY TimeTypes
<1>2. Len(thread.stack) # 0 /\ thread.stack[Len(thread.stack)].functionId = frames[Len(frames)].m
  BY <1>1, TopShown
<1> QED BY <1>1, <1>2, TopPopIs

LEMMA ReturnLine ==
  ASSUME TypeInv, ShadowInv, Both, Return
  PROVE  LET m == frames[Len(frames)].m
             e == thread.stack[Len(thread.stack)]
         IN  /\ m \in Included => WroteLeave(m, InclusiveNs(e, now')) /\ Popped(m, now')
             /\ m \notin Included => UNCHANGED <<thread, stats, event>>
<1> DEFINE m == frames[Len(frames)].m
           e == thread.stack[Len(thread.stack)]
<1>1. /\ Len(frames) \in Shown <=> m \in Included
      /\ IF m \in Included THEN ProcessLeave(m, now') ELSE UNCHANGED <<thread, stats, event>>
      /\ now' \in Nat /\ now' >= now
  BY ReturnShown DEF TypeInv, ShadowInv
<1>2. CASE m \in Included
  <2>1. Top(thread) = e
    BY <1>1, <1>2, TopIs
  <2>2. PICK depth, wall : event' = WriteLeave(event, m, now', depth, InclusiveNs(e, now'), wall)
    BY <1>1, <1>2, <2>1 DEF ProcessLeave
  <2>3. Timely(thread, now')
    BY <1>1, TimeTypes, TimelyLater
  <2>4. Popped(m, now')
    BY <1>1, <1>2, <2>3, TopIs, LeaveIs
  <2> QED BY <1>2, <2>2, <2>4, LeaveWritten
<1> QED BY <1>1, <1>2

LEMMA UnwindLine ==
  ASSUME TypeInv, ShadowInv, MonitorExceptions, Both, UnwindFrame
  PROVE  LET m == frames[Len(frames)].m
             e == thread.stack[Len(thread.stack)]
         IN  /\ m \notin Included => UNCHANGED <<thread, stats, event>>
             /\ m \in Included /\ m # thread.catcher =>
                  WroteLeave(m, InclusiveNs(e, now')) /\ Popped(m, now')
             /\ m \in Included /\ m = thread.catcher =>
                  /\ HoldsBack(m, now')
                  /\ thread.deferred.has => WroteLeave(m, Late)
                  /\ ~thread.deferred.has => event' = event
<1> DEFINE m == frames[Len(frames)].m
           e == thread.stack[Len(thread.stack)]
<1>1. /\ Len(frames) \in Shown <=> m \in Included
      /\ ExceptionUnwindFunctionEnter(m, now')
      /\ now' \in Nat /\ now' >= now
  BY UnwindShown DEF TypeInv, ShadowInv
<1>2. now \in Nat /\ Timely(thread, now)
  BY TimeTypes
<1>3. Timely(thread, now')
  BY <1>1, <1>2, TimelyLater
<1>4. CASE m \notin Included
  BY <1>1, <1>4 DEF ExceptionUnwindFunctionEnter
<1>5. CASE m \in Included /\ m # thread.catcher
  <2>1. Top(thread) = e /\ Len(thread.stack) # 0
    BY <1>1, <1>5, TopIs
  <2>2. FinishUnwound(m, now')
    BY <1>1, <1>5 DEF ExceptionUnwindFunctionEnter
  <2>3. PICK depth : event' = WriteLeave(event, m, now', depth, InclusiveNs(e, now'), 0)
    BY <2>1, <2>2 DEF FinishUnwound
  <2>4. WroteLeave(m, InclusiveNs(e, now'))
    BY <2>3, LeaveWritten
  <2>5. Popped(m, now')
    BY <1>1, <1>3, <2>1, <2>2, FinishIs
  <2> QED BY <1>5, <2>4, <2>5
<1>6. CASE m \in Included /\ m = thread.catcher
  <2>1. Len(thread.stack) # 0
    BY <1>1, <1>6, TopIs
  <2>2. DeferUnwind(m, now')
    BY <1>1, <1>6 DEF ExceptionUnwindFunctionEnter
  <2>3. HoldsBack(m, now')
    BY <1>1, <1>3, <2>1, <2>2, DeferIs
  <2>4. ~thread.deferred.has => event' = event
    BY <2>2 DEF DeferUnwind
  <2>5. ASSUME thread.deferred.has PROVE WroteLeave(m, Late)
    <3>1. thread.deferred.functionId = m
      BY <1>6, <2>5 DEF ShadowInv, DeferredInv
    <3>2. event' = FinalizedEvent(thread, event)
      BY <2>2, <2>5 DEF DeferUnwind
    <3>3. PICK t, depth : event' = WriteLeave(event, m, t, depth, Late, 0)
      BY <3>1, <3>2 DEF FinalizedEvent, Late
    <3> QED BY <3>3, LeaveWritten
  <2> QED BY <1>6, <2>3, <2>4, <2>5
<1> HIDE DEF m, e
<1> QED BY <1>4, <1>5, <1>6 DEF m, e

\* The other steps write no enter and no leave line.
LEMMA OtherLine ==
  ASSUME TypeInv, ShadowInv, Faithful,
         \/ \E c \in 0..Len(frames) : Throw(c)
         \/ CatcherFound \/ FrameUnwound \/ CatcherEntered \/ UNCHANGED vars
  PROVE  WroteNeither
<1>1. MonitorExceptions
  BY DEF Faithful
<1>2. ASSUME NEW c \in 0..Len(frames), Throw(c) PROVE WroteNeither
  <2>1. event' = WriteException(event, Top(thread).functionId, now)
    BY <1>2 DEF Throw
  <2> QED BY <2>1 DEF WriteException, WroteNeither
<1>3. CASE CatcherFound \/ FrameUnwound \/ CatcherEntered \/ UNCHANGED vars
  <2>1. event' = event
    BY <1>1, <1>3, FoundShadow, CaughtShadow DEF FrameUnwound, vars
  <2> QED BY <2>1 DEF WroteNeither
<1> QED BY <1>2, <1>3

-----------------------------------------------------------------------------
(* The table.                                                              *)

\* A step that reports no call leaves the table level.
LEMMA QuietTable ==
  ASSUME TypeInv, ShadowInv, Faithful, Accounts(replay.table), Level(TRUE, replay.table),
         replay'.table = replay.table, ReplayTypes,
         \/ \E m \in Methods : Call(m)
         \/ \E c \in 0..Len(frames) : Throw(c)
         \/ CatcherFound \/ FrameUnwound \/ CatcherEntered \/ UNCHANGED vars
  PROVE  Accounts(replay.table)' /\ Level(TRUE, replay.table)'
<1>1. PICK tab : tab = replay.table
  OBVIOUS
<1>2. tab = replay'.table /\ tab \in [MethodIds -> ReplayRows] /\ MonitorExceptions
  BY <1>1 DEF ReplayTypes, Faithful
<1>3. Level(TRUE, tab)'
  <2>1. Level(TRUE, tab)
    BY <1>1 DEF Level, Settled
  <2>2. TRUE \in BOOLEAN
    OBVIOUS
  <2> QED BY <2>1, <2>2, QuietExact
<1>4. ASSUME NEW m \in Included PROVE tab[m].callCount + Pending(m)' = Happened(m)'
  <2>1. tab[m].callCount + Pending(m) = Happened(m)
    BY <1>1 DEF Accounts
  <2>2. tab[m].callCount \in Nat /\ Pending(m) \in Nat
    <3>1. m \in MethodIds /\ Pending(m) \in Nat
      BY CountTypes
    <3>2. tab[m] \in ReplayRows
      BY <1>2, <3>1
    <3> QED BY <3>1, <3>2 DEF ReplayRows
  <2>3. CASE \E c \in Methods : Call(c)
    BY <2>1, <2>2, <2>3, CallCount
  <2>4. CASE (\E c \in 0..Len(frames) : Throw(c)) \/ CatcherFound \/ FrameUnwound \/ UNCHANGED vars
    BY <2>1, <2>4, OtherCount
  <2>5. CASE CatcherEntered
    BY <1>2, <2>1, <2>5, CaughtCount
  <2> QED BY <2>3, <2>4, <2>5
<1> QED BY <1>2, <1>3, <1>4 DEF Accounts, Level, Settled

\* One call more in the table, and one fewer pending.
LEMMA OneReported ==
  ASSUME TypeInv, NEW tab \in [MethodIds -> ReplayRows], Accounts(tab), NEW tab2, NEW m \in Included,
         NEW reported \in BOOLEAN,
         tab2[m].callCount = tab[m].callCount + (IF reported THEN 1 ELSE 0),
         Happened(m)' = Happened(m), Pending(m)' \in Nat,
         Pending(m) = Pending(m)' + (IF reported THEN 1 ELSE 0)
  PROVE  tab2[m].callCount + Pending(m)' = Happened(m)'
<1>1. tab[m].callCount + Pending(m) = Happened(m)
  BY DEF Accounts
<1>2. tab[m].callCount \in Nat
  <2>1. m \in MethodIds
    BY CountTypes
  <2>2. tab[m] \in ReplayRows
    BY <2>1
  <2> QED BY <2>2 DEF ReplayRows
<1> QED BY <1>1, <1>2

LEMMA RowTallied ==
  ASSUME NEW tab \in [MethodIds -> ReplayRows], NEW m \in MethodIds, NEW a \in MethodIds, NEW x, NEW y
  PROVE  Tally(tab, m, x, y)[a].callCount = tab[a].callCount + (IF m = a THEN 1 ELSE 0)
<1>1. tab[a] \in ReplayRows
  OBVIOUS
<1>2. tab[a].callCount \in Nat
  BY <1>1 DEF ReplayRows
<1> QED BY <1>2, OneTallied

LEMMA ReturnCounted ==
  ASSUME TypeInv, ShadowInv, NEW tab \in [MethodIds -> ReplayRows], Accounts(tab), NEW tab2, Return,
         LET m == frames[Len(frames)].m
         IN  /\ m \in Included => \E x, y : tab2 = Tally(tab, m, x, y)
             /\ m \notin Included => tab2 = tab
  PROVE  Accounts(tab2)'
<1> SUFFICES ASSUME NEW a \in Included PROVE tab2[a].callCount + Pending(a)' = Happened(a)'
  BY DEF Accounts
<1> DEFINE m == frames[Len(frames)].m
<1>1. /\ Happened(a)' = Happened(a) /\ Pending(a)' \in Nat
      /\ Pending(a) = Pending(a)' + (IF ReturnReported(a) THEN 1 ELSE 0)
  BY ReturnCount
<1>2. a \in MethodIds /\ Included \subseteq MethodIds /\ tab[a].callCount \in Nat
  <2>1. a \in MethodIds /\ Included \subseteq MethodIds
    BY CountTypes
  <2>2. tab[a] \in ReplayRows
    BY <2>1
  <2> QED BY <2>1, <2>2 DEF ReplayRows
<1>3. (m = a) \in BOOLEAN /\ (ReturnReported(a) <=> m = a)
  BY DEF ReturnReported
<1>4. tab2[a].callCount = tab[a].callCount + (IF m = a THEN 1 ELSE 0)
  <2>1. CASE m \in Included
    BY <1>2, <2>1, RowTallied
  <2>2. CASE m \notin Included
    <3>1. m # a /\ tab2 = tab
      BY <2>2
    <3> HIDE DEF m
    <3> QED BY <1>2, <3>1
  <2> QED BY <2>1, <2>2
<1>5. Pending(a) = Pending(a)' + (IF m = a THEN 1 ELSE 0)
  BY <1>1, <1>3
<1> HIDE DEF m
<1> QED BY <1>1, <1>3, <1>4, <1>5, OneReported

LEMMA UnwindCounted ==
  ASSUME TypeInv, ShadowInv, MonitorExceptions, NEW tab \in [MethodIds -> ReplayRows], Accounts(tab),
         NEW tab2, UnwindFrame,
         LET m == frames[Len(frames)].m
         IN  IF m \in Included /\ (m # thread.catcher \/ thread.deferred.has)
             THEN \E x, y : tab2 = Tally(tab, m, x, y)
             ELSE tab2 = tab
  PROVE  Accounts(tab2)'
<1> SUFFICES ASSUME NEW a \in Included PROVE tab2[a].callCount + Pending(a)' = Happened(a)'
  BY DEF Accounts
<1> DEFINE m == frames[Len(frames)].m
           yes == m = a /\ (m # thread.catcher \/ thread.deferred.has)
<1>1. /\ Happened(a)' = Happened(a) /\ Pending(a)' \in Nat
      /\ Pending(a) = Pending(a)' + (IF UnwindReported(a) THEN 1 ELSE 0)
  BY UnwindCount
<1>2. a \in MethodIds /\ Included \subseteq MethodIds /\ tab[a].callCount \in Nat
  <2>1. a \in MethodIds /\ Included \subseteq MethodIds
    BY CountTypes
  <2>2. tab[a] \in ReplayRows
    BY <2>1
  <2> QED BY <2>1, <2>2 DEF ReplayRows
<1>3. yes \in BOOLEAN /\ (UnwindReported(a) <=> yes)
  BY DEF UnwindReported
<1>4. tab2[a].callCount = tab[a].callCount + (IF yes THEN 1 ELSE 0)
  <2>1. CASE m \in Included /\ (m # thread.catcher \/ thread.deferred.has)
    <3>1. PICK x, y : tab2 = Tally(tab, m, x, y)
      BY <2>1
    <3>2. tab2[a].callCount = tab[a].callCount + (IF m = a THEN 1 ELSE 0)
      BY <1>2, <2>1, <3>1, RowTallied
    <3>3. yes <=> m = a
      BY <2>1
    <3> HIDE DEF m, yes
    <3> QED BY <3>2, <3>3
  <2>2. CASE ~(m \in Included /\ (m # thread.catcher \/ thread.deferred.has))
    <3>1. ~yes /\ tab2 = tab
      BY <2>2
    <3> HIDE DEF m, yes
    <3> QED BY <1>2, <3>1
  <2> QED BY <2>1, <2>2
<1>5. Pending(a) = Pending(a)' + (IF yes THEN 1 ELSE 0)
  BY <1>1, <1>3
<1> HIDE DEF m, yes
<1> QED BY <1>1, <1>3, <1>4, <1>5, OneReported

-----------------------------------------------------------------------------
(* The times.                                                              *)

\* The top entries are gone from both, and the ones below got the same.
LEMMA AlignedPop ==
  ASSUME NEW re, NEW st, NEW re2, NEW st2, NEW x, Aligned(re, st),
         Len(st) \in Nat, Len(st2) = Len(st) - 1,
         \A j \in 1..Len(st) - 1 :
           /\ st2[j].childrenTimeNs = IF j = Len(st) - 1 THEN st[j].childrenTimeNs + x
                                      ELSE st[j].childrenTimeNs
           /\ re2[j].childrenNs = IF j = Len(st) - 1 THEN re[j].childrenNs + x ELSE re[j].childrenNs
  PROVE  Aligned(re2, st2)
<1> DEFINE k == Len(st)
<1>1. k \in Nat /\ Len(st2) = k - 1 /\ \A j \in 1..k - 1 : j \in 1..k
  OBVIOUS
<1>2. \A j \in 1..k - 1 : re[j].childrenNs = st[j].childrenTimeNs
  BY <1>1 DEF Aligned
<1> HIDE DEF k
<1> QED BY <1>1, <1>2 DEF Aligned, k

\* A call that returns or is unwound in step is measured without a clamp.
LEMMA Measured ==
  ASSUME TypeInv, ShadowInv, NEW tab, Level(TRUE, tab), ~irregular, Len(frames) \in Shown,
         Left = 0, ~thread.deferred.has, now' \in Nat, now' >= now
  PROVE  LET e == thread.stack[Len(thread.stack)]
         IN  SelfNs(e, now') = InclusiveNs(e, now') - e.childrenTimeNs
<1> DEFINE e == thread.stack[Len(thread.stack)]
           f == frames[Len(frames)]
<1>1. Lag = 0 /\ Times(thread.stack, frames, Shown, Lag)
  BY QuietIs DEF Level, Regular
<1>2. /\ e.childrenTimeNs = f.kids + 0
      /\ now' - f.enter \in Nat
      /\ InclusiveNs(e, now') = now' - f.enter
      /\ SelfNs(e, now') = (now' - f.enter) - f.kids
  BY <1>1, TopTimes
<1>3. f.kids \in Nat
  BY TopShown DEF TypeInv
<1> HIDE DEF e, f
<1> QED BY <1>2, <1>3 DEF e

\* The parts of InStep, one step on.
LEMMA InStepNext ==
  ASSUME NEW re, NEW st, re = replay'.stack, st = thread'.stack, Aligned(re, st),
         thread'.deferred.has =>
           /\ OnTop(re, Len(st), thread'.deferred.entry.childrenTimeNs)
           /\ thread'.deferred.entry.childrenTimeNs <= Late'
  PROVE  InStep'
BY DEF InStep

-----------------------------------------------------------------------------
(* The analyzer follows, step by step.                                     *)

LEMMA FollowTypes ==
  ASSUME TypeInv, ShadowInv, ReplayTypes, Follows
  PROVE  /\ Len(thread.stack) \in Nat /\ Len(replay.stack) \in Nat
         /\ thread.deferred.has => Len(replay.stack) = Len(thread.stack) + 1
         /\ ~thread.deferred.has => Len(replay.stack) = Len(thread.stack)
         /\ replay.table \in [MethodIds -> ReplayRows] /\ Accounts(replay.table)
         /\ Level(TRUE, replay.table) /\ (~irregular => InStep)
         /\ Faithful => MonitorExceptions
<1>1. Len(thread.stack) \in Nat
  BY TimeTypes
<1>2. Len(replay.stack) = Len(thread.stack) + Deferred
  BY DEF Follows
<1>3. thread.deferred.has => Len(replay.stack) = Len(thread.stack) + 1
  BY <1>2 DEF Deferred
<1>4. ~thread.deferred.has => Len(replay.stack) = Len(thread.stack)
  BY <1>1, <1>2 DEF Deferred
<1>5. Len(replay.stack) \in Nat
  BY <1>1, <1>3, <1>4
<1> QED BY <1>1, <1>3, <1>4, <1>5 DEF Follows, ReplayTypes, Faithful

\* Follows', from its parts.
LEMMA FollowsNext ==
  ASSUME NEW n, n = Len(thread'.stack), n \in Nat,
         Len(replay'.stack) = IF thread'.deferred.has THEN n + 1 ELSE n,
         Accounts(replay.table)', Level(TRUE, replay.table)', ~irregular' => InStep'
  PROVE  Follows'
<1>1. Len(replay'.stack) = Len(thread'.stack) + Deferred'
  <2>1. CASE thread'.deferred.has
    <3>1. Deferred' = 1
      BY <2>1 DEF Deferred
    <3> QED BY <2>1, <3>1
  <2>2. CASE ~thread'.deferred.has
    <3>1. Deferred' = 0 /\ n + 0 = n
      BY <2>2 DEF Deferred
    <3> QED BY <2>2, <3>1
  <2> QED BY <2>1, <2>2
<1> QED BY <1>1 DEF Follows

LEMMA CallFollows ==
  ASSUME TypeInv, TypeInv', ShadowInv, Faithful, ReplayTypes, Follows, Both, ReadLine,
         NEW m \in Methods, Call(m)
  PROVE  Follows'
<1> DEFINE k == Len(thread.stack)
<1>1. /\ RuntimeInv /\ Single /\ thread \in Thread /\ m \in MethodIds
  BY DEF TypeInv, ShadowInv, ProfilerInv, Timely, MethodIds
<1>2. /\ k \in Nat /\ Len(replay.stack) \in Nat
      /\ thread.deferred.has => Len(replay.stack) = k + 1
      /\ ~thread.deferred.has => Len(replay.stack) = k
      /\ Accounts(replay.table) /\ Level(TRUE, replay.table)
      /\ ~irregular => InStep
  BY FollowTypes
<1>3. /\ IF m \in Included THEN EnterStub(m, now') ELSE UNCHANGED <<thread, stats, event>>
      /\ Left # 0 => irregular' = TRUE
      /\ Unwinding => Left # 0
      /\ now' \in Nat
  BY <1>1, CallShown
<1>4. ~irregular' => ~irregular /\ ~thread.deferred.has
  <2>1. irregular => irregular'
    BY DEF Call
  <2> QED BY <1>3, <2>1, Quiet
<1>5. CASE m \in Included
  <2>1. Opened
    BY <1>1, <1>5, CallLine, EnterOpens
  <2>2. /\ Len(thread'.stack) = k + 1
        /\ \A j \in 1..k : thread'.stack[j] = thread.stack[j]
        /\ thread'.stack[k + 1] = [functionId |-> m, enterTsNs |-> now', childrenTimeNs |-> 0]
        /\ thread'.deferred = thread.deferred
    BY <1>1, <1>3, <1>5, EnterIs
  <2>3. thread'.stack[k + 1].childrenTimeNs = 0
    BY <2>2
  <2>4. /\ Len(replay'.stack) = Len(replay.stack) + 1 /\ replay'.table = replay.table
        /\ \A j \in 1..Len(replay.stack) : replay'.stack[j] = replay.stack[j]
        /\ OnTop(replay'.stack, Len(replay.stack), 0)
    BY <2>1 DEF Opened
  <2> HIDE DEF k
  <2>5. Accounts(replay.table)' /\ Level(TRUE, replay.table)'
    BY <1>2, <2>4, QuietTable
  <2>6. ASSUME ~irregular' PROVE InStep'
    <3>1. Len(replay.stack) = k /\ ~thread'.deferred.has /\ InStep
      BY <1>2, <1>4, <2>2, <2>6
    <3>2. \A j \in 1..k : replay'.stack[j].childrenNs = thread'.stack[j].childrenTimeNs
      BY <2>2, <2>4, <3>1 DEF InStep, Aligned, k
    <3>3. replay'.stack[k + 1].childrenNs = thread'.stack[k + 1].childrenTimeNs
      BY <2>3, <2>4, <3>1 DEF OnTop
    <3>4. Aligned(replay'.stack, thread'.stack)
      BY <1>2, <2>2, <3>2, <3>3 DEF Aligned
    <3> QED BY <3>1, <3>4, InStepNext
  <2>7. Len(replay'.stack) = IF thread'.deferred.has THEN (k + 1) + 1 ELSE k + 1
    <3>1. Len(replay'.stack) = Len(replay.stack) + 1
      BY <2>4
    <3>2. thread'.deferred.has = thread.deferred.has
      BY <2>2
    <3> QED BY <1>2, <3>1, <3>2
  <2>8. k + 1 \in Nat /\ k + 1 = Len(thread'.stack)
    BY <1>2, <2>2
  <2> QED BY <2>5, <2>6, <2>7, <2>8, FollowsNext
<1>6. CASE m \notin Included
  <2>1. thread' = thread /\ replay' = replay
    BY <1>3, <1>6, CallLine, NotRead DEF WroteNeither
  <2>2. Accounts(replay.table)' /\ Level(TRUE, replay.table)'
    BY <1>2, <2>1, QuietTable
  <2>3. ~irregular' => InStep'
    BY <1>2, <1>4, <2>1 DEF InStep, Late
  <2>4. Len(replay'.stack) = IF thread'.deferred.has THEN k + 1 ELSE k
    BY <1>2, <2>1
  <2> QED BY <1>2, <2>1, <2>2, <2>3, <2>4, FollowsNext
<1> QED BY <1>5, <1>6

\* The top entry is reported: it and its frame of the analyzer go.
LEMMA ClosedInStep ==
  ASSUME TypeInv, ShadowInv, ReplayTypes, Follows, NEW m, NEW t,
         LET x == InclusiveNs(thread.stack[Len(thread.stack)], t) IN Closed(m, x),
         Popped(m, t), ~thread.deferred.has, InStep
  PROVE  InStep'
<1> DEFINE k == Len(thread.stack)
           x == InclusiveNs(thread.stack[k], t)
           st == thread.stack
           re == replay.stack
<1>1. Len(re) = k /\ k \in Nat
  BY FollowTypes
<1>2. /\ Len(thread'.stack) = k - 1 /\ thread'.deferred = thread.deferred
      /\ \A j \in 1..k - 1 :
           thread'.stack[j].childrenTimeNs = IF j = k - 1 THEN st[j].childrenTimeNs + x
                                             ELSE st[j].childrenTimeNs
  BY DEF Popped
<1>3. \A j \in 1..Len(re) - 1 :
        replay'.stack[j].childrenNs =
          IF j = Len(re) - 1 THEN re[j].childrenNs + x ELSE re[j].childrenNs
  BY DEF Closed
<1>4. Aligned(re, st)
  BY DEF InStep
<1>5. PICK st2, re2 : st2 = thread'.stack /\ re2 = replay'.stack
  OBVIOUS
<1> HIDE DEF x, re, st
<1>6. /\ Len(st) \in Nat /\ Len(st2) = Len(st) - 1
      /\ \A j \in 1..Len(st) - 1 :
           /\ st2[j].childrenTimeNs = IF j = Len(st) - 1 THEN st[j].childrenTimeNs + x
                                      ELSE st[j].childrenTimeNs
           /\ re2[j].childrenNs = IF j = Len(st) - 1 THEN re[j].childrenNs + x ELSE re[j].childrenNs
  BY <1>1, <1>2, <1>3, <1>5 DEF st
<1>7. Aligned(re2, st2)
  BY <1>4, <1>6, AlignedPop
<1>8. ~thread'.deferred.has
  BY <1>2
<1> QED BY <1>5, <1>7, <1>8, InStepNext

LEMMA ReturnFollows ==
  ASSUME TypeInv, TypeInv', ShadowInv, ReplayTypes, Follows, Both, ReadLine, Return
  PROVE  Follows'
<1> DEFINE k == Len(thread.stack)
           n == Len(frames)
           m == frames[n].m
           e == thread.stack[k]
           x == InclusiveNs(e, now')
<1>1. /\ RuntimeInv /\ Single /\ n \in Nat
      /\ TRUE \in BOOLEAN
  BY TimeTypes
<1>2. /\ k \in Nat /\ Len(replay.stack) \in Nat
      /\ thread.deferred.has => Len(replay.stack) = k + 1
      /\ ~thread.deferred.has => Len(replay.stack) = k
      /\ replay.table \in [MethodIds -> ReplayRows]
      /\ Accounts(replay.table) /\ Level(TRUE, replay.table)
      /\ ~irregular => InStep
  BY FollowTypes
<1>3. PICK tab, tab2 : tab = replay.table /\ tab2 = replay'.table
  OBVIOUS
<1>4. Accounts(tab) /\ Level(TRUE, tab)
  BY <1>2, <1>3 DEF Accounts, Level, Settled
<1>5. ASSUME Accounts(tab2)', Level(TRUE, tab2)'
      PROVE  Accounts(replay.table)' /\ Level(TRUE, replay.table)'
  BY <1>3, <1>5 DEF Accounts, Level, Settled
<1>6. /\ now' \in Nat /\ now' >= now /\ irregular' = irregular
      /\ Left < n /\ (Unwinding => Left # 0)
      /\ n \in Shown <=> m \in Included
  BY <1>1, ReturnShown
<1>7. ~irregular => Left = 0 /\ ~thread.deferred.has
  <2>1. ~irregular /\ Left # 0 => Left = n
    BY <1>4 DEF Level, Regular
  <2>2. Left = 0 => ~Unwinding
    BY <1>6
  <2> QED BY <1>1, <1>6, <2>1, <2>2, Quiet
<1>8. CASE m \in Included
  <2>1. WroteLeave(m, x) /\ Popped(m, now')
    BY <1>8, ReturnLine
  <2>2. /\ x \in Nat /\ k # 0 /\ Len(thread'.stack) = k - 1 /\ thread'.deferred = thread.deferred
    BY <2>1 DEF Popped
  <2>3. Len(replay.stack) # 0
    BY <1>2, <2>2
  <2>4. m \in MethodIds
    BY <1>8, CountTypes
  <2>5. Closed(m, x)
    BY <2>1, <2>2, <2>3, <2>4, LeaveCloses
  <2>6. /\ Len(replay'.stack) = Len(replay.stack) - 1
        /\ tab2 = Tally(tab, m, x, x - replay.stack[Len(replay.stack)].childrenNs)
    BY <1>3, <2>5 DEF Closed
  <2>7. Accounts(tab2)'
    BY <1>2, <1>3, <1>4, <1>8, <2>6, ReturnCounted
  <2>8. ~irregular => ReturnAdds(tab2, tab)
    <3>1. SUFFICES ASSUME ~irregular PROVE ReturnAdds(tab2, tab)
      OBVIOUS
    <3>2. Left = 0 /\ ~thread.deferred.has /\ InStep /\ Len(replay.stack) = k
      BY <1>2, <1>7, <3>1
    <3>3. SelfNs(e, now') = x - e.childrenTimeNs
      BY <1>4, <1>6, <1>8, <3>1, <3>2, Measured
    <3>4. replay.stack[k].childrenNs = e.childrenTimeNs
      <4>1. k \in 1..k
        BY <1>2, <2>2
      <4> QED BY <3>2, <4>1 DEF InStep, Aligned
    <3>5. tab2 = Tally(tab, m, x, SelfNs(e, now'))
      BY <2>6, <3>2, <3>3, <3>4
    <3> QED BY <1>8, <3>5 DEF ReturnAdds
  <2>9. Level(TRUE, tab2)'
    <3>1. TRUE /\ ~irregular' => ReturnAdds(tab2, tab)
      BY <1>6, <2>8
    <3> HIDE DEF k, n, m, e, x
    <3> QED BY <1>1, <1>4, <3>1, ReturnExact
  <2>10. ~irregular' => InStep'
    BY <1>2, <1>6, <1>7, <2>1, <2>5, ClosedInStep
  <2>11. k - 1 \in Nat /\ k - 1 = Len(thread'.stack)
    BY <1>2, <2>2
  <2>12. Len(replay'.stack) = IF thread'.deferred.has THEN (k - 1) + 1 ELSE k - 1
    <3>1. thread'.deferred.has = thread.deferred.has
      BY <2>2
    <3> QED BY <1>2, <2>6, <3>1
  <2>13. Accounts(replay.table)' /\ Level(TRUE, replay.table)'
    BY <1>5, <2>7, <2>9
  <2> HIDE DEF k
  <2> QED BY <2>10, <2>11, <2>12, <2>13, FollowsNext
<1>9. CASE m \notin Included
  <2>1. thread' = thread /\ event' = event
    BY <1>9, ReturnLine
  <2>2. replay' = replay
    BY <2>1, NotRead DEF WroteNeither
  <2>3. tab2 = tab
    BY <1>3, <2>2
  <2>4. Accounts(tab2)'
    BY <1>2, <1>3, <1>4, <1>9, <2>3, ReturnCounted
  <2>5. Level(TRUE, tab2)'
    <3>1. TRUE /\ ~irregular' => ReturnAdds(tab2, tab)
      BY <1>9, <2>3 DEF ReturnAdds
    <3> HIDE DEF k, n, m, e, x
    <3> QED BY <1>1, <1>4, <3>1, ReturnExact
  <2>6. Accounts(replay.table)' /\ Level(TRUE, replay.table)'
    BY <1>5, <2>4, <2>5
  <2>7. ~irregular' => InStep'
    BY <1>2, <1>6, <2>1, <2>2 DEF InStep, Late
  <2>8. Len(replay'.stack) = IF thread'.deferred.has THEN k + 1 ELSE k
    BY <1>2, <2>1, <2>2
  <2>9. k \in Nat /\ k = Len(thread'.stack)
    BY <1>2, <2>1
  <2> HIDE DEF k
  <2> QED BY <2>6, <2>7, <2>8, <2>9, FollowsNext
<1> QED BY <1>8, <1>9

\* An entry that is held back has run for as long as its children at least.
LEMMA HeldFits ==
  ASSUME TypeInv, ShadowInv, UnwindFrame, Len(frames) \in Shown,
         HoldsBack(frames[Len(frames)].m, now'),
         NEW tab, Level(TRUE, tab)', ~irregular', Held'
  PROVE  thread'.deferred.entry.childrenTimeNs <= Late'
<1> DEFINE n == Len(frames)
           f == frames[n]
           k == Len(thread.stack)
<1>1. /\ RuntimeInv /\ Single
      /\ f.enter \in Nat /\ f.kids \in Nat /\ f.enter >= 1
      /\ f.enter + f.kids <= now /\ now \in Nat
      /\ thread.stack[k].enterTsNs = f.enter
  BY TimeTypes, TopShown
<1>2. now' \in Nat /\ now' >= now /\ frames' = frames /\ Left' = n
  BY <1>1, UnwindShown
<1>3. thread'.deferred.entry.childrenTimeNs = frames'[Left'].kids
  BY DEF Level, Regular
<1>4. thread'.deferred.tsNs = now' /\ thread'.deferred.entry.enterTsNs = thread.stack[k].enterTsNs
  BY DEF HoldsBack
<1>5. thread'.deferred.entry.childrenTimeNs = f.kids
  BY <1>2, <1>3
<1>6. Late' = now' - f.enter
  BY <1>1, <1>4 DEF Late, InclusiveNs
<1> HIDE DEF f, n, k
<1> QED BY <1>1, <1>2, <1>5, <1>6

\* The entry held back before, if any, is reported; the frame of the new one
\* stays on top, with the children time it has there.
LEMMA HeldInStep ==
  ASSUME TypeInv, ShadowInv, ReplayTypes, Follows, NEW m, NEW t, HoldsBack(m, t), InStep,
         thread.deferred.has => Closed(m, Late),
         ~thread.deferred.has => replay' = replay,
         thread'.deferred.entry.childrenTimeNs <= Late'
  PROVE  InStep'
<1> DEFINE k == Len(thread.stack)
           e == thread.stack[k]
           st == thread.stack
           re == replay.stack
           x == thread'.deferred.entry.childrenTimeNs
<1>1. /\ k \in Nat
      /\ thread.deferred.has => Len(re) = k + 1
  BY FollowTypes
<1>2. /\ k \in 1..k /\ Len(thread'.stack) = k - 1
      /\ \A j \in 1..k - 1 : thread'.stack[j].childrenTimeNs = st[j].childrenTimeNs
      /\ x = e.childrenTimeNs + (IF thread.deferred.has THEN Late ELSE 0)
      /\ e.childrenTimeNs \in Nat
  <2>1. e.childrenTimeNs \in Nat
    BY <1>1, TimeTypes, ThreadFields DEF HoldsBack
  <2>2. x = e.childrenTimeNs + (IF thread.deferred.has THEN Late ELSE 0)
    BY DEF HoldsBack, Late
  <2> QED BY <2>1, <2>2 DEF HoldsBack
<1>3. PICK st2, re2 : st2 = thread'.stack /\ re2 = replay'.stack
  OBVIOUS
<1>4. \A j \in 1..k : re[j].childrenNs = st[j].childrenTimeNs
  BY DEF InStep, Aligned
<1>5. /\ \A j \in 1..k - 1 : re2[j].childrenNs = re[j].childrenNs
      /\ re2[k].childrenNs = x
  <2>1. CASE thread.deferred.has
    <3>1. \A j \in 1..Len(re) - 1 :
            re2[j].childrenNs = IF j = Len(re) - 1 THEN re[j].childrenNs + Late ELSE re[j].childrenNs
      BY <1>3, <2>1 DEF Closed
    <3>2. Len(re) - 1 = k /\ \A j \in 1..k - 1 : j \in 1..k /\ j # k
      BY <1>1, <2>1
    <3>3. \A j \in 1..k :
            re2[j].childrenNs = IF j = k THEN re[j].childrenNs + Late ELSE re[j].childrenNs
      BY <3>1, <3>2
    <3>4. x = e.childrenTimeNs + Late /\ re[k].childrenNs = e.childrenTimeNs
      BY <1>2, <1>4, <2>1
    <3> HIDE DEF k, e, st, re, x
    <3> QED BY <1>2, <3>2, <3>3, <3>4
  <2>2. CASE ~thread.deferred.has
    <3>1. re2 = re /\ x = e.childrenTimeNs + 0 /\ re[k].childrenNs = e.childrenTimeNs
      BY <1>2, <1>3, <1>4, <2>2
    <3> HIDE DEF k, e, st, re, x
    <3> QED BY <1>2, <3>1
  <2> QED BY <2>1, <2>2
<1> HIDE DEF e, re, x
<1>6. Aligned(re2, st2)
  <2>1. Len(st2) = k - 1 /\ \A j \in 1..k - 1 : j \in 1..k /\ st2[j].childrenTimeNs = st[j].childrenTimeNs
    BY <1>1, <1>2, <1>3
  <2> HIDE DEF k, st
  <2> QED BY <1>4, <1>5, <2>1 DEF Aligned
<1>7. OnTop(re2, Len(st2), x)
  <2>1. Len(st2) + 1 = k
    BY <1>1, <1>2, <1>3
  <2> HIDE DEF k
  <2> QED BY <1>5, <2>1 DEF OnTop
<1> QED BY <1>3, <1>6, <1>7, InStepNext DEF x

LEMMA UnwindFollows ==
  ASSUME TypeInv, TypeInv', ShadowInv, Faithful, ReplayTypes, Follows, Both, ReadLine, UnwindFrame
  PROVE  Follows'
<1> DEFINE k == Len(thread.stack)
           n == Len(frames)
           m == frames[n].m
           e == thread.stack[k]
           has == thread.deferred.has
           top == replay.stack[Len(replay.stack)].childrenNs
<1>1. /\ RuntimeInv /\ Single /\ n \in Nat /\ MonitorExceptions
      /\ TRUE \in BOOLEAN
  BY TimeTypes DEF Faithful
<1>2. /\ k \in Nat /\ Len(replay.stack) \in Nat
      /\ has => Len(replay.stack) = k + 1
      /\ ~has => Len(replay.stack) = k
      /\ replay.table \in [MethodIds -> ReplayRows]
      /\ Accounts(replay.table) /\ Level(TRUE, replay.table)
      /\ ~irregular => InStep
  BY FollowTypes
<1>3. PICK tab, tab2 : tab = replay.table /\ tab2 = replay'.table
  OBVIOUS
<1>4. Accounts(tab) /\ Level(TRUE, tab)
  BY <1>2, <1>3 DEF Accounts, Level, Settled
<1>5. ASSUME Accounts(tab2)', Level(TRUE, tab2)'
      PROVE  Accounts(replay.table)' /\ Level(TRUE, replay.table)'
  BY <1>3, <1>5 DEF Accounts, Level, Settled
<1>6. /\ now' \in Nat /\ now' >= now /\ Left = 0 /\ Left' = n /\ n \in 1..n /\ frames' = frames
      /\ irregular' = (irregular \/ (m \in Included /\ m # thread.catcher /\ has))
      /\ n \in Shown <=> m \in Included
  BY <1>1, UnwindShown
<1>7. ~irregular' => ~irregular
  BY <1>6
\* What is left to show of each case.
<1>8. ASSUME Accounts(tab2)', ~irregular' => UnwindAdds(tab2, tab), ~irregular' => InStep',
             NEW j, j = Len(thread'.stack), j \in Nat,
             Len(replay'.stack) = IF thread'.deferred.has THEN j + 1 ELSE j
      PROVE  Follows'
  <2>1. TRUE /\ ~irregular' => UnwindAdds(tab2, tab)
    BY <1>8
  <2> HIDE DEF k, n, m, e, has, top
  <2>2. Level(TRUE, tab2)'
    BY <1>1, <1>4, <2>1, UnwindExact
  <2>3. Accounts(replay.table)' /\ Level(TRUE, replay.table)'
    BY <1>5, <1>8, <2>2
  <2> QED BY <1>8, <2>3, FollowsNext
<1>9. CASE m \notin Included
  <2>1. thread' = thread /\ event' = event
    BY <1>1, <1>9, UnwindLine
  <2>2. replay' = replay
    BY <2>1, NotRead DEF WroteNeither
  <2>3. tab2 = tab
    BY <1>3, <2>2
  <2>4. Accounts(tab2)'
    BY <1>1, <1>2, <1>3, <1>4, <1>9, <2>3, UnwindCounted
  <2>5. UnwindAdds(tab2, tab)
    BY <1>9, <2>3 DEF UnwindAdds
  <2>6. ~irregular' => InStep'
    BY <1>2, <1>7, <2>1, <2>2 DEF InStep, Late
  <2>7. Len(replay'.stack) = IF thread'.deferred.has THEN k + 1 ELSE k
    BY <1>2, <2>1, <2>2
  <2>8. k \in Nat /\ k = Len(thread'.stack)
    BY <1>2, <2>1
  <2> HIDE DEF k
  <2> QED BY <1>8, <2>4, <2>5, <2>6, <2>7, <2>8
<1>10. CASE m \in Included /\ m # thread.catcher
  <2> DEFINE x == InclusiveNs(e, now')
  <2>1. WroteLeave(m, x) /\ Popped(m, now')
    BY <1>1, <1>10, UnwindLine
  <2>2. /\ x \in Nat /\ k # 0 /\ Len(thread'.stack) = k - 1 /\ thread'.deferred = thread.deferred
    BY <2>1 DEF Popped
  <2>3. Len(replay.stack) # 0
    BY <1>2, <2>2
  <2>4. m \in MethodIds
    BY <1>10, CountTypes
  <2>5. Closed(m, x)
    BY <2>1, <2>2, <2>3, <2>4, LeaveCloses
  <2>6. /\ Len(replay'.stack) = Len(replay.stack) - 1
        /\ tab2 = Tally(tab, m, x, x - top)
    BY <1>3, <2>5 DEF Closed
  <2>7. Accounts(tab2)'
    BY <1>1, <1>2, <1>3, <1>4, <1>10, <2>6, UnwindCounted
  <2>8. ~irregular' => UnwindAdds(tab2, tab)
    <3>1. SUFFICES ASSUME ~irregular' PROVE UnwindAdds(tab2, tab)
      OBVIOUS
    <3>2. ~irregular /\ ~thread.deferred.has /\ InStep /\ Len(replay.stack) = k
      BY <1>2, <1>6, <1>10, <3>1
    <3>3. SelfNs(e, now') = x - e.childrenTimeNs
      BY <1>4, <1>6, <1>10, <3>2, Measured
    <3>4. top = e.childrenTimeNs
      <4>1. k \in 1..k
        BY <1>2, <2>2
      <4> QED BY <3>2, <4>1 DEF InStep, Aligned
    <3>5. tab2 = Tally(tab, m, x, SelfNs(e, now'))
      BY <2>6, <3>3, <3>4
    <3> QED BY <1>10, <3>5 DEF UnwindAdds
  <2>9. ~irregular' => InStep'
    BY <1>2, <1>6, <1>10, <2>1, <2>5, ClosedInStep
  <2>10. k - 1 \in Nat /\ k - 1 = Len(thread'.stack)
    BY <1>2, <2>2
  <2>11. Len(replay'.stack) = IF thread'.deferred.has THEN (k - 1) + 1 ELSE k - 1
    <3>1. thread'.deferred.has = has
      BY <2>2
    <3> QED BY <1>2, <2>6, <3>1
  <2> HIDE DEF k
  <2> QED BY <1>8, <2>7, <2>8, <2>9, <2>10, <2>11
<1>11. CASE m \in Included /\ m = thread.catcher
  <2>1. /\ HoldsBack(m, now')
        /\ has => WroteLeave(m, Late)
        /\ ~has => event' = event
    BY <1>1, <1>11, UnwindLine
  <2>2. k # 0 /\ Len(thread'.stack) = k - 1 /\ thread'.deferred.has = TRUE /\ (has => Late \in Nat)
        /\ thread'.catcher = thread.catcher
    BY <2>1 DEF HoldsBack, Late
  <2>3. m \in MethodIds
    BY <1>11, CountTypes
  <2>4. has => Closed(m, Late)
    <3>1. has => Len(replay.stack) # 0
      BY <1>2
    <3> QED BY <2>1, <2>2, <2>3, <3>1, LeaveCloses
  <2>5. ~has => replay' = replay
    BY <2>1, NotRead DEF WroteNeither
  <2>6. /\ Len(replay'.stack) = k
        /\ has => tab2 = Tally(tab, m, Late, Late - top)
        /\ ~has => tab2 = tab
    <3>1. CASE has
      <4>1. Len(replay'.stack) = Len(replay.stack) - 1 /\ tab2 = Tally(tab, m, Late, Late - top)
        BY <1>3, <2>4, <3>1 DEF Closed
      <4> QED BY <1>2, <3>1, <4>1
    <3>2. CASE ~has
      BY <1>2, <1>3, <2>5, <3>2
    <3> QED BY <3>1, <3>2
  <2>7. Accounts(tab2)'
    BY <1>1, <1>2, <1>3, <1>4, <1>11, <2>6, UnwindCounted
  <2>8. ~irregular' => UnwindAdds(tab2, tab)
    <3>1. SUFFICES ASSUME ~irregular' PROVE UnwindAdds(tab2, tab)
      OBVIOUS
    <3>2. ASSUME has PROVE tab2 = Tally(tab, m, Late, LateSelf)
      <4> DEFINE d == thread.deferred
      <4>1. InStep /\ Len(replay.stack) = k + 1
        BY <1>2, <1>7, <3>1, <3>2
      <4>2. top = d.entry.childrenTimeNs /\ d.entry.childrenTimeNs <= Late
        BY <3>2, <4>1 DEF InStep, OnTop
      <4>3. /\ d.entry \in Entries /\ d.tsNs \in Nat /\ d.entry.enterTsNs <= d.tsNs
        BY TimeTypes, ThreadFields DEF Timely
      <4>4. LateSelf = Late - d.entry.childrenTimeNs
        BY <4>2, <4>3, TimesAreNat DEF Late, LateSelf
      <4> QED BY <2>6, <3>2, <4>2, <4>4
    <3> QED BY <1>11, <2>6, <3>2 DEF UnwindAdds
  <2>9. ~irregular' => InStep'
    <3>1. SUFFICES ASSUME ~irregular' PROVE InStep'
      OBVIOUS
    <3>2. Held'
      <4>1. frames'[Left'].m = m /\ Left' # 0
        BY <1>6
      <4> QED BY <1>11, <2>2, <4>1 DEF Held
    <3>3. Level(TRUE, tab2)'
      BY <1>1, <1>4, <2>8, UnwindExact
    <3>4. thread'.deferred.entry.childrenTimeNs <= Late'
      BY <1>6, <1>11, <2>1, <3>1, <3>2, <3>3, HeldFits
    <3> QED BY <1>2, <1>7, <2>1, <2>4, <2>5, <3>1, <3>4, HeldInStep
  <2>10. k - 1 \in Nat /\ k - 1 = Len(thread'.stack)
    BY <1>2, <2>2
  <2>11. Len(replay'.stack) = IF thread'.deferred.has THEN (k - 1) + 1 ELSE k - 1
    BY <1>2, <2>2, <2>6
  <2> HIDE DEF k
  <2> QED BY <1>8, <2>7, <2>8, <2>9, <2>10, <2>11
<1> QED BY <1>9, <1>10, <1>11

\* A step that leaves the stack and the deferral alone.
LEMMA OtherFollows ==
  ASSUME TypeInv, TypeInv', ShadowInv, Faithful, ReplayTypes, Follows, ReadLine,
         (\E c \in 0..Len(frames) : Throw(c)) \/ CatcherFound \/ FrameUnwound \/ UNCHANGED vars
  PROVE  Follows'
<1> DEFINE k == Len(thread.stack)
<1>1. /\ RuntimeInv /\ Single /\ MonitorExceptions
      /\ k \in Nat /\ Accounts(replay.table) /\ Level(TRUE, replay.table)
      /\ thread.deferred.has => Len(replay.stack) = k + 1
      /\ ~thread.deferred.has => Len(replay.stack) = k
      /\ ~irregular => InStep
  BY TimeTypes, FollowTypes DEF Faithful
<1>2. replay' = replay
  BY OtherLine, NotRead
<1>3. thread'.stack = thread.stack /\ thread'.deferred = thread.deferred /\ irregular' = irregular
  BY <1>1, FoundShadow DEF Throw, CatcherFound, FrameUnwound, vars
<1>4. Accounts(replay.table)' /\ Level(TRUE, replay.table)'
  BY <1>1, <1>2, QuietTable
<1>5. ~irregular' => InStep'
  BY <1>1, <1>2, <1>3 DEF InStep, Late
<1>6. Len(replay'.stack) = IF thread'.deferred.has THEN k + 1 ELSE k
  BY <1>1, <1>2, <1>3
<1>7. k \in Nat /\ k = Len(thread'.stack)
  BY <1>1, <1>3
<1> HIDE DEF k
<1> QED BY <1>4, <1>5, <1>6, <1>7, FollowsNext

LEMMA CaughtFollows ==
  ASSUME TypeInv, TypeInv', ShadowInv, Faithful, ReplayTypes, Follows, ReadLine, CatcherEntered
  PROVE  Follows'
<1> DEFINE k == Len(thread.stack)
           has == thread.deferred.has
<1>1. /\ RuntimeInv /\ Single /\ MonitorExceptions
      /\ k \in Nat /\ Accounts(replay.table) /\ Level(TRUE, replay.table)
      /\ has => Len(replay.stack) = k + 1
      /\ ~has => Len(replay.stack) = k
      /\ ~irregular => InStep
  BY TimeTypes, FollowTypes DEF Faithful
<1>2. replay' = replay
  BY OtherLine, NotRead
<1>3. /\ irregular' = irregular /\ ~thread'.deferred.has
      /\ ~has => thread'.stack = thread.stack
      /\ has => /\ Len(thread'.stack) = k + 1
                /\ \A j \in 1..k : thread'.stack[j] = thread.stack[j]
                /\ thread'.stack[k + 1] = thread.deferred.entry
  BY <1>1, CaughtShown, CaughtShadow
<1>4. Accounts(replay.table)' /\ Level(TRUE, replay.table)'
  BY <1>1, <1>2, QuietTable
<1>5. ASSUME ~irregular' PROVE InStep'
  <2>1. InStep /\ replay'.stack = replay.stack
    BY <1>1, <1>2, <1>3, <1>5
  <2>2. CASE has
    <3>1. \A j \in 1..k : replay'.stack[j].childrenNs = thread'.stack[j].childrenTimeNs
      BY <1>3, <2>1, <2>2 DEF InStep, Aligned
    <3>2. replay'.stack[k + 1].childrenNs = thread'.stack[k + 1].childrenTimeNs
      BY <1>3, <2>1, <2>2 DEF InStep, OnTop
    <3>3. Len(thread'.stack) = k + 1
      BY <1>3, <2>2
    <3> HIDE DEF k, has
    <3>4. Aligned(replay'.stack, thread'.stack)
      BY <1>1, <3>1, <3>2, <3>3 DEF Aligned
    <3> QED BY <1>3, <3>4, InStepNext
  <2>3. CASE ~has
    <3>1. Aligned(replay'.stack, thread'.stack)
      BY <1>3, <2>1, <2>3 DEF InStep, Aligned
    <3> QED BY <1>3, <3>1, InStepNext
  <2> QED BY <2>2, <2>3
<1>6. CASE has
  <2>1. k + 1 \in Nat /\ k + 1 = Len(thread'.stack) /\ Len(replay'.stack) = k + 1
    BY <1>1, <1>2, <1>3, <1>6
  <2>2. Len(replay'.stack) = IF thread'.deferred.has THEN (k + 1) + 1 ELSE k + 1
    BY <1>3, <2>1
  <2> HIDE DEF k, has
  <2> QED BY <1>4, <1>5, <2>1, <2>2, FollowsNext
<1>7. CASE ~has
  <2>1. k \in Nat /\ k = Len(thread'.stack) /\ Len(replay'.stack) = k
    BY <1>1, <1>2, <1>3, <1>7
  <2>2. Len(replay'.stack) = IF thread'.deferred.has THEN k + 1 ELSE k
    BY <1>3, <2>1
  <2> HIDE DEF k, has
  <2> QED BY <1>4, <1>5, <2>1, <2>2, FollowsNext
<1> QED BY <1>6, <1>7

-----------------------------------------------------------------------------
(* The invariant.                                                          *)

\* Whatever the lines are, the analyzer's state stays well formed; a leave line
\* that finds no frame changes nothing.
LEMMA TypesStep ==
  ASSUME TypeInv, TypeInv', ReplayTypes, ReadLine
  PROVE  ReplayTypes'
<1>1. event'.deltaNs \in Nat /\ event'.m \in MethodIds
  BY LinesNext
<1>2. CASE event'.seq = event.seq \/ event'.type \notin {"enter", "leave"}
  <2>1. replay' = replay
    BY <1>2 DEF ReadLine
  <2> QED BY <2>1 DEF ReplayTypes
<1>3. CASE event'.seq # event.seq /\ event'.type = "enter"
  <2>1. replay' = [replay EXCEPT !.stack = Append(@, [key |-> event'.m, childrenNs |-> 0])]
    BY <1>3 DEF ReadLine, ReplayEnter
  <2> QED BY <1>1, <2>1, EnterTypes
<1>4. CASE event'.seq # event.seq /\ event'.type = "leave"
  <2>1. replay' = ReplayLeave(replay, event')
    BY <1>4 DEF ReadLine
  <2>2. CASE replay.stack = <<>>
    <3>1. replay' = replay
      BY <2>1, <2>2 DEF ReplayLeave
    <3> QED BY <3>1 DEF ReplayTypes
  <2>3. CASE replay.stack # <<>>
    BY <1>1, <2>1, <2>3, ClosesTypes
  <2> QED BY <2>2, <2>3
<1> QED BY <1>2, <1>3, <1>4

LEMMA HotStep ==
  Faithful /\ TypeInv /\ TypeInv' /\ ShadowInv /\ ReplayInv /\ [HotNext]_hotVars => ReplayInv'
<1> SUFFICES ASSUME Faithful, TypeInv, TypeInv', ShadowInv, ReplayInv, [HotNext]_hotVars
             PROVE  ReplayInv'
  OBVIOUS
<1>1. [Next]_vars /\ ReadLine
  BY DEF HotNext, Next, hotVars, vars, ReadLine
<1>2. ReplayTypes'
  BY <1>1, TypesStep DEF ReplayInv
<1>3. ASSUME Both PROVE Follows'
  <2>1. ReplayTypes /\ Follows /\ MonitorExceptions
    BY <1>3 DEF ReplayInv, Faithful
  <2>2. ASSUME NEW m \in Methods, Call(m) PROVE Follows'
    BY <1>1, <1>3, <2>1, <2>2, CallFollows
  <2>3. CASE Return
    BY <1>1, <1>3, <2>1, <2>3, ReturnFollows
  <2>4. CASE UnwindFrame
    BY <1>1, <1>3, <2>1, <2>4, UnwindFollows
  <2>5. CASE CatcherEntered
    BY <1>1, <2>1, <2>5, CaughtFollows
  <2>6. CASE (\E c \in 0..Len(frames) : Throw(c)) \/ CatcherFound \/ FrameUnwound \/ UNCHANGED vars
    BY <1>1, <2>1, <2>6, OtherFollows
  <2> QED BY <1>1, <2>2, <2>3, <2>4, <2>5, <2>6 DEF Next
<1> QED BY <1>2, <1>3 DEF ReplayInv, Both

LEMMA InitReplay == HotInit => ReplayInv
<1> SUFFICES ASSUME HotInit PROVE ReplayInv
  OBVIOUS
<1>1. /\ Init /\ replay.stack = <<>>
      /\ replay.table = [m \in MethodIds |-> Zero]
      /\ replay = [stack |-> <<>>, table |-> [m \in MethodIds |-> Zero]]
  BY DEF HotInit, MethodIds
<1>2. thread.stack = <<>> /\ ~thread.deferred.has /\ truth = replay.table
  BY <1>1 DEF Init, NewThread, NoDeferred, MethodIds
<1>3. ReplayTypes
  <2>1. Zero \in ReplayRows
    BY DEF Zero, ReplayRows
  <2>2. [m \in MethodIds |-> Zero] \in [MethodIds -> ReplayRows]
    BY <2>1
  <2>3. <<>> \in Seq(ReplayFrames)
    OBVIOUS
  <2> QED BY <1>1, <2>2, <2>3 DEF ReplayTypes
<1>4. Len(replay.stack) = Len(thread.stack) + Deferred
  <2>1. Len(thread.stack) = 0 /\ Len(replay.stack) = 0
    BY <1>1, <1>2, EmptySeq
  <2>2. Deferred = 0
    BY <1>2 DEF Deferred
  <2> QED BY <2>1, <2>2
<1>5. Accounts(replay.table)
  <2>1. SUFFICES ASSUME NEW m \in Included
                 PROVE  replay.table[m].callCount + Pending(m) = Happened(m)
    BY DEF Accounts
  <2>2. Pending(m) = 0 /\ Happened(m) = 0 /\ m \in MethodIds
    BY <1>1, InitPending
  <2>3. replay.table[m].callCount = 0
    BY <1>1, <2>2 DEF Zero
  <2> QED BY <2>2, <2>3
<1>6. InStep
  <2>1. \A j \in 1..Len(thread.stack) : FALSE
    BY <1>2, EmptySeq
  <2> QED BY <1>2, <2>1 DEF InStep, Aligned
<1>7. Level(TRUE, replay.table)
  <2>1. PICK tab : tab = truth
    OBVIOUS
  <2>2. TRUE \in BOOLEAN
    OBVIOUS
  <2>3. Level(TRUE, tab)
    BY <1>1, <2>1, <2>2, InitLevel
  <2> QED BY <1>2, <2>1, <2>3 DEF Level, Settled
<1> QED BY <1>3, <1>4, <1>5, <1>6, <1>7 DEF ReplayInv, Follows

LEMMA ReplayInvHolds ==
  ASSUME Faithful
  PROVE  HotSpec => [](TypeInv /\ ShadowInv /\ ReplayInv)
<1>1. HotSpec => Spec
  <2>1. HotInit => Init
    BY DEF HotInit
  <2>2. [HotNext]_hotVars => [Next]_vars
    BY DEF HotNext, Next, hotVars, vars
  <2> QED BY <2>1, <2>2, PTL DEF HotSpec, Spec
<1>2. TypeInv /\ TypeInv' /\ ShadowInv /\ ReplayInv /\ [HotNext]_hotVars => ReplayInv'
  BY HotStep
<1> QED BY <1>1, <1>2, InitReplay, ShadowInvHolds, PTL DEF HotSpec

(* Where the CLR reports exceptions and no handler throws, the analyzer has  *)
(* a frame for every entry of the shadow stack and for the one held back, at *)
(* every moment of an unwind: HotspotsAnalyzer skips no leave line for want  *)
(* of a frame, and no frame is left over.                                    *)
THEOREM ReplayDepths ==
  ASSUME MonitorExceptions, ~NestedThrows
  PROVE  HotSpec => []ReplayDepth
<1>1. ReplayInv => ReplayDepth
  BY DEF ReplayInv, Follows, ReplayDepth, Both
<1> QED BY <1>1, ReplayInvHolds, PTL DEF Faithful

(* Under the same conditions the analyzer's table has every call of every    *)
(* method that has ended, however it ended and in whatever order the leave   *)
(* lines were written.                                                       *)
THEOREM ReplayCounts ==
  ASSUME MonitorExceptions, ~NestedThrows
  PROVE  HotSpec => []HotspotsCountExact
<1>1. ASSUME TypeInv, ReplayInv PROVE HotspotsCountExact
  <2>1. SUFFICES ASSUME Both, NEW m \in Included
                 PROVE  replay.table[m].callCount + Shadowed(m) = truth[m].callCount + Live(m)
    BY DEF HotspotsCountExact, Both
  <2>2. replay.table[m].callCount + Pending(m) = Happened(m)
    BY <1>1, <2>1 DEF ReplayInv, Follows, Accounts
  <2> QED BY <1>1, <2>2, AccountsIs
<1> QED BY <1>1, ReplayInvHolds, PTL DEF Faithful

(* Between exceptions the times the analyzer recomputes from the lines are    *)
(* those of an exact profile, self times included although it does not clamp  *)
(* them at 0, as long as no finally block made a call and no frame of another *)
(* method was unwound while the catcher's entry was held back.                *)
THEOREM ReplayTimes ==
  ASSUME MonitorExceptions, ~NestedThrows
  PROVE  HotSpec => []HotspotsExact
<1>1. ASSUME ShadowInv, ReplayInv PROVE HotspotsExact
  <2>1. SUFFICES ASSUME Both, ~Dispatching, ~irregular, NEW m \in Included
                 PROVE  replay.table[m] = truth[m]
    BY DEF HotspotsExact, Both
  <2>2. PICK tab : tab = replay.table
    OBVIOUS
  <2>3. Level(TRUE, tab)
    BY <1>1, <2>1, <2>2 DEF ReplayInv, Follows, Level, Settled
  <2>4. tab = truth
    BY <1>1, <2>1, <2>3, LevelWhenQuiet
  <2> QED BY <2>2, <2>4
<1> QED BY <1>1, ReplayInvHolds, PTL DEF Faithful
=============================================================================
