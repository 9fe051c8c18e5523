----------------------- MODULE CallStackShadowProofs -----------------------
(***************************************************************************)
(* What the shadow stack, the async nesting and the tallies say of the     *)
(* real stack, for any methods, filters, clock and depth, where the CLR    *)
(* reports exceptions and no method called by a handler throws: the two    *)
(* cases left out are those in which the claims are known to fail.         *)
(***************************************************************************)
EXTENDS CallStackProofs

-----------------------------------------------------------------------------
(* Ranks: the shadow stack against a set of frames.                        *)

LEMMA RankTop ==
  ASSUME NEW n \in Nat, NEW S \in SUBSET (1..n), NEW p \in S, \A y \in S : y <= p
  PROVE  /\ Cardinality(S) \in Nat /\ Cardinality(S) >= 1
         /\ Rank(S, p) = Cardinality(S)
         /\ Cardinality(S \ {p}) = Cardinality(S) - 1
         /\ \A i \in S \ {p} : /\ Rank(S, i) = Rank(S \ {p}, i)
                               /\ Rank(S, i) \in 1..Cardinality(S) - 1
<1>1. IsFiniteSet(S) /\ Cardinality(S) \in Nat
  <2>1. IsFiniteSet(1..n)
    BY FS_Interval
  <2>2. IsFiniteSet(S)
    BY <2>1, FS_Subset
  <2> QED BY <2>2, FS_CardinalityType
<1>2. Cardinality(S \ {p}) = Cardinality(S) - 1 /\ IsFiniteSet(S \ {p})
  BY <1>1, FS_RemoveElement
<1>3. Cardinality(S \ {p}) \in Nat
  BY <1>2, FS_CardinalityType
<1>4. Rank(S, p) = Cardinality(S)
  <2>1. {j \in S : j <= p} = S
    OBVIOUS
  <2> QED BY <2>1 DEF Rank
<1>5. ASSUME NEW i \in S \ {p}
      PROVE  Rank(S, i) = Rank(S \ {p}, i) /\ Rank(S, i) \in 1..Cardinality(S) - 1
  <2> DEFINE T == {j \in S : j <= i}
  <2>1. i < p /\ i <= i
    OBVIOUS
  <2>2. T = {j \in S \ {p} : j <= i}
    BY <2>1
  <2>3. T \in SUBSET (S \ {p}) /\ i \in T
    BY <2>1
  <2> HIDE DEF T
  <2>4. IsFiniteSet(T) /\ Cardinality(T) <= Cardinality(S \ {p})
    BY <1>2, <2>3, FS_Subset
  <2>5. Cardinality(T) \in Nat /\ Cardinality(T) # 0
    BY <2>3, <2>4, FS_CardinalityType, FS_EmptySet
  <2>6. Rank(S, i) = Cardinality(T) /\ Rank(S \ {p}, i) = Cardinality(T)
    BY <2>2 DEF Rank, T
  <2> QED BY <1>1, <1>2, <2>4, <2>5, <2>6
<1> QED BY <1>1, <1>2, <1>3, <1>4, <1>5

LEMMA RankIn ==
  ASSUME NEW n \in Nat, NEW S \in SUBSET (1..n), NEW i \in S
  PROVE  Cardinality(S) \in Nat /\ Rank(S, i) \in 1..Cardinality(S)
<1>1. Max(S) \in S /\ \A y \in S : y <= Max(S)
  BY MaxProperties
<1>2. /\ Cardinality(S) \in Nat /\ Cardinality(S) >= 1 /\ Rank(S, Max(S)) = Cardinality(S)
      /\ \A j \in S \ {Max(S)} : Rank(S, j) \in 1..Cardinality(S) - 1
  BY <1>1, RankTop
<1>3. CASE i = Max(S)
  BY <1>2, <1>3
<1>4. CASE i # Max(S)
  BY <1>2, <1>4
<1> QED BY <1>2, <1>3, <1>4

\* The entry of st at k is that of frame i of fr; two entries, and two frames,
\* that are the same but for the time of their children.
Shows(st, k, fr, i) == st[k].functionId = fr[i].m /\ st[k].enterTsNs = fr[i].enter
SameEntry(st2, st, k) == st2[k].functionId = st[k].functionId /\ st2[k].enterTsNs = st[k].enterTsNs
SameFrame(fr2, fr, i) == fr2[i].m = fr[i].m /\ fr2[i].enter = fr[i].enter

\* The stack st shows the frames fr in S, in their order.
Mirrors(st, fr, S) ==
  /\ Len(st) = Cardinality(S)
  /\ \A i \in S : Shows(st, Rank(S, i), fr, i)

LEMMA ShowsSame ==
  ASSUME NEW st, NEW st2, NEW fr, NEW fr2, NEW k, NEW i,
         Shows(st, k, fr, i), SameEntry(st2, st, k), SameFrame(fr2, fr, i)
  PROVE  Shows(st2, k, fr2, i)
BY DEF Shows, SameEntry, SameFrame

LEMMA MirrorsTop ==
  ASSUME NEW n \in Nat, NEW S \in SUBSET (1..n), NEW p \in S, \A y \in S : y <= p,
         NEW st, NEW fr, Mirrors(st, fr, S)
  PROVE  Len(st) \in Nat /\ Len(st) >= 1 /\ Shows(st, Len(st), fr, p)
<1>1. /\ Cardinality(S) \in Nat /\ Cardinality(S) >= 1 /\ Rank(S, p) = Cardinality(S)
  BY RankTop
<1>2. Len(st) = Cardinality(S) /\ Shows(st, Rank(S, p), fr, p)
  BY DEF Mirrors
<1> QED BY <1>1, <1>2

LEMMA MirrorsPop ==
  ASSUME NEW n \in Nat, NEW S \in SUBSET (1..n), NEW p \in S, \A y \in S : y <= p,
         NEW st, NEW fr, Mirrors(st, fr, S), NEW fr2, NEW st2,
         \A i \in S \ {p} : SameFrame(fr2, fr, i),
         Len(st2) = Len(st) - 1,
         \A k \in 1..Len(st2) : SameEntry(st2, st, k)
  PROVE  Mirrors(st2, fr2, S \ {p})
<1>1. /\ Cardinality(S) \in Nat /\ Cardinality(S) >= 1 /\ Rank(S, p) = Cardinality(S)
      /\ Cardinality(S \ {p}) = Cardinality(S) - 1
      /\ \A i \in S \ {p} : Rank(S, i) = Rank(S \ {p}, i) /\ Rank(S, i) \in 1..Cardinality(S) - 1
  BY RankTop
<1>2. Len(st2) = Cardinality(S \ {p})
  BY <1>1 DEF Mirrors
<1>3. ASSUME NEW i \in S \ {p}
      PROVE  Shows(st2, Rank(S \ {p}, i), fr2, i)
  <2>1. Rank(S \ {p}, i) \in 1..Len(st2) /\ Rank(S \ {p}, i) = Rank(S, i)
    BY <1>1, <1>2
  <2>2. Shows(st, Rank(S, i), fr, i)
    BY DEF Mirrors
  <2>3. SameEntry(st2, st, Rank(S, i)) /\ SameFrame(fr2, fr, i)
    BY <2>1
  <2> QED BY <2>1, <2>2, <2>3, ShowsSame
<1> QED BY <1>2, <1>3 DEF Mirrors

LEMMA MirrorsPush ==
  ASSUME NEW n \in Nat, NEW S \in SUBSET (1..n), NEW p \in 1..n, \A y \in S : y < p,
         NEW st, NEW fr, Mirrors(st, fr, S), NEW fr2, NEW st2,
         \A i \in S : SameFrame(fr2, fr, i),
         Len(st2) = Len(st) + 1,
         \A k \in 1..Len(st) : SameEntry(st2, st, k),
         Shows(st2, Len(st) + 1, fr2, p)
  PROVE  Mirrors(st2, fr2, S \cup {p})
<1> DEFINE T == S \cup {p}
<1>1. T \in SUBSET (1..n) /\ p \in T /\ p \notin S /\ T \ {p} = S /\ \A y \in T : y <= p
  OBVIOUS
<1> HIDE DEF T
<1>2. /\ Cardinality(T) \in Nat /\ Rank(T, p) = Cardinality(T)
      /\ Cardinality(S) = Cardinality(T) - 1
      /\ \A i \in S : Rank(T, i) = Rank(S, i) /\ Rank(T, i) \in 1..Cardinality(T) - 1
  <2>1. /\ Cardinality(T) \in Nat /\ Rank(T, p) = Cardinality(T)
        /\ Cardinality(T \ {p}) = Cardinality(T) - 1
        /\ \A i \in T \ {p} : Rank(T, i) = Rank(T \ {p}, i) /\ Rank(T, i) \in 1..Cardinality(T) - 1
    BY <1>1, RankTop
  <2> QED BY <1>1, <2>1
<1>3. Len(st) = Cardinality(S) /\ Len(st2) = Cardinality(T) /\ Len(st) + 1 = Cardinality(T)
  BY <1>2 DEF Mirrors
<1>4. ASSUME NEW i \in S
      PROVE  Shows(st2, Rank(T, i), fr2, i)
  <2>1. Rank(T, i) \in 1..Len(st) /\ Rank(T, i) = Rank(S, i)
    BY <1>2, <1>3
  <2>2. Shows(st, Rank(S, i), fr, i)
    BY DEF Mirrors
  <2>3. SameEntry(st2, st, Rank(S, i)) /\ SameFrame(fr2, fr, i)
    BY <2>1
  <2> QED BY <2>1, <2>2, <2>3, ShowsSame
<1>5. Shows(st2, Rank(T, p), fr2, p)
  BY <1>2, <1>3
<1>6. \A i \in T : i \in S \/ i = p
  BY DEF T
<1>7. \A i \in T : Shows(st2, Rank(T, i), fr2, i)
  BY <1>4, <1>5, <1>6
<1> QED BY <1>3, <1>7 DEF Mirrors, T

-----------------------------------------------------------------------------
(* The frames the shadow stack shows, step by step.                        *)

\* The frame being unwound, 0 if there is none, when dispatches do not nest.
Left == IF exc # <<>> /\ exc[1].phase = "finally" THEN exc[1].at ELSE 0
Unwinding == exc # <<>> /\ exc[1].phase # "search"
Shown == {i \in 1..Len(frames) : frames[i].m \in Included /\ i # Left}

Single == Len(exc) <= 1

LEMMA OneIsNotEmpty ==
  ASSUME NEW s, Len(s) = 1
  PROVE  s # <<>>
<1>1. Len(<<>>) = 0
  BY EmptySeq
<1> QED BY <1>1

LEMMA ShownIsVisible ==
  ASSUME RuntimeInv, Single
  PROVE  Visible = Shown
<1>1. /\ exc \in Seq(Dispatch) /\ Len(exc) \in Nat /\ (exc = <<>> <=> Len(exc) = 0)
      /\ DOMAIN exc = 1..Len(exc) /\ DOMAIN frames = 1..Len(frames)
  BY EmptyIffLen, LenProperties DEF RuntimeInv
<1>2. \A i \in 1..Len(frames) : i \in BeingUnwound <=> i = Left
  <2>1. CASE exc = <<>>
    BY <1>1, <2>1 DEF BeingUnwound, Left
  <2>2. CASE exc # <<>>
    <3>1. DOMAIN exc = {1}
      BY <1>1, <2>2 DEF Single
    <3>2. BeingUnwound = IF exc[1].phase = "finally" THEN {exc[1].at} ELSE {}
      BY <3>1 DEF BeingUnwound
    <3> QED BY <2>2, <3>2 DEF Left
  <2> QED BY <2>1, <2>2
<1> QED BY <1>1, <1>2 DEF Visible, Shown

\* The dispatch, when there is at most one.
LEMMA DispatchIs ==
  ASSUME RuntimeInv, Single
  PROVE  /\ Len(frames) \in Nat /\ (frames = <<>> <=> Len(frames) = 0)
         /\ Left \in 0..Len(frames) /\ Shown \in SUBSET (1..Len(frames))
         /\ exc = <<>> => Left = 0 /\ ~Unwinding
         /\ Dispatching =>
              /\ exc # <<>> /\ Len(exc) = 1 /\ Last(exc) = exc[1] /\ exc[1] \in Dispatch
              /\ exc[1].at \in 1..Len(frames) /\ exc[1].catcher \in 0..exc[1].at
              /\ exc[1].phase \in Phases
              /\ frames # <<>> /\ Len(frames) \in 1..Len(frames)
              /\ Last(frames) = frames[Len(frames)]
<1>1. Len(frames) \in Nat /\ (frames = <<>> <=> Len(frames) = 0) /\ Len(exc) \in Nat
  BY EmptyIffLen DEF RuntimeInv
<1>2. Dispatching =>
        /\ exc # <<>> /\ Len(exc) = 1 /\ Last(exc) = exc[1] /\ exc[1] \in Dispatch
        /\ exc[1].at \in 1..Len(frames) /\ exc[1].catcher \in 0..exc[1].at
        /\ exc[1].phase \in Phases
        /\ frames # <<>> /\ Len(frames) \in 1..Len(frames)
        /\ Last(frames) = frames[Len(frames)]
  <2> SUFFICES ASSUME Dispatching
               PROVE  /\ exc # <<>> /\ Len(exc) = 1 /\ Last(exc) = exc[1] /\ exc[1] \in Dispatch
                      /\ exc[1].at \in 1..Len(frames) /\ exc[1].catcher \in 0..exc[1].at
                      /\ exc[1].phase \in Phases
                      /\ frames # <<>> /\ Len(frames) \in 1..Len(frames)
                      /\ Last(frames) = frames[Len(frames)]
    OBVIOUS
  <2> DEFINE k == Len(exc)
  <2>1. k \in Nat /\ k >= 1 /\ k <= 1
    BY InnermostIs DEF Single
  <2>2. k = 1
    <3> HIDE DEF k
    <3> QED BY <2>1
  <2> QED BY <1>1, <2>2, InnermostIs DEF Dispatching
<1>3. Left \in 0..Len(frames)
  BY <1>1, <1>2 DEF Left, Dispatching
<1> QED BY <1>1, <1>2, <1>3 DEF Left, Unwinding, Shown

LEMMA CallShown ==
  ASSUME RuntimeInv, Single, NEW m \in Methods, Call(m)
  PROVE  LET n == Len(frames)
         IN  /\ now' \in Nat /\ now' >= now /\ exc' = exc
             /\ Len(frames') = n + 1
             /\ \A i \in 1..n : frames'[i] = frames[i]
             /\ frames'[n + 1].m = m /\ frames'[n + 1].enter = now' /\ frames'[n + 1].kids = 0
             /\ Left' = Left /\ Left <= n /\ Unwinding' = Unwinding
             /\ Left # 0 => irregular' = TRUE
             /\ Unwinding => Left # 0
             /\ Shown' = IF m \in Included THEN Shown \cup {n + 1} ELSE Shown
             /\ IF m \in Included THEN EnterStub(m, now') ELSE UNCHANGED <<thread, stats, event>>
<1> DEFINE n == Len(frames)
<1>1. PICK d \in Ticks :
        /\ now' = now + d /\ frames' = Append(frames, [m |-> m, enter |-> now + d, kids |-> 0])
        /\ IF m \in Included THEN EnterStub(m, now + d) ELSE UNCHANGED <<thread, stats, event>>
  BY DEF Call
<1>2. now' \in Nat /\ now' >= now
  BY <1>1, CallStackAssumption DEF RuntimeInv
<1> DEFINE f == [m |-> m, enter |-> now', kids |-> 0]
<1>3. f \in Frame /\ frames' = Append(frames, f)
  BY <1>1, <1>2 DEF Frame
<1> HIDE DEF f
<1>4. n \in Nat /\ Len(frames') = n + 1 /\ frames'[n + 1] = f /\ \A i \in 1..n : frames'[i] = frames[i]
  BY <1>3, AppendProperties, EmptyIffLen DEF RuntimeInv
<1>5. exc' = exc /\ irregular' = (irregular \/ (Dispatching /\ Last(exc).phase = "finally"))
      /\ (~Dispatching \/ HandlerRuns)
  BY DEF Call
<1>6. Left' = Left /\ Unwinding' = Unwinding /\ Left \in 0..n
  BY <1>5, DispatchIs DEF Left, Unwinding
<1>7. Left # 0 => irregular' = TRUE
  BY <1>5, DispatchIs DEF Left, Dispatching
<1>8. Unwinding => Left # 0
  <2>1. Unwinding => Dispatching /\ exc[1].phase = "finally" /\ exc[1].at # 0
    BY <1>5, DispatchIs DEF Unwinding, Dispatching, HandlerRuns
  <2> QED BY <2>1 DEF Left, Dispatching
<1>9. Shown' = IF m \in Included THEN Shown \cup {n + 1} ELSE Shown
  <2>1. \A i \in 1..n + 1 : i \in 1..n \/ i = n + 1
    BY <1>4
  <2>2. Left # n + 1 /\ n + 1 \notin 1..n /\ n + 1 \in 1..n + 1 /\ \A i \in 1..n : i \in 1..n + 1
    BY <1>4, <1>6
  <2>3. f.m = m
    BY DEF f
  <2> QED BY <1>4, <1>6, <2>1, <2>2, <2>3 DEF Shown
<1> QED BY <1>1, <1>2, <1>4, <1>5, <1>6, <1>7, <1>8, <1>9 DEF f

LEMMA ReturnShown ==
  ASSUME RuntimeInv, Single, Return
  PROVE  LET n == Len(frames)
         IN  /\ now' \in Nat /\ now' >= now /\ exc' = exc /\ irregular' = irregular
             /\ EndTopFrame(now') /\ frames # <<>> /\ n \in Nat /\ n >= 1 /\ Last(frames) = frames[n]
             /\ Left' = Left /\ Left < n /\ Unwinding' = Unwinding
             /\ Unwinding => Left # 0
             /\ Shown' = Shown \ {n}
             /\ n \in Shown <=> frames[n].m \in Included
             /\ IF frames[n].m \in Included
                THEN ProcessLeave(frames[n].m, now') ELSE UNCHANGED <<thread, stats, event>>
<1> DEFINE n == Len(frames)
<1>1. PICK d \in Ticks :
        /\ now' = now + d /\ EndTopFrame(now + d)
        /\ IF Last(frames).m \in Included
           THEN ProcessLeave(Last(frames).m, now + d) ELSE UNCHANGED <<thread, stats, event>>
  BY DEF Return
<1>2. now' \in Nat /\ now' >= now /\ EndTopFrame(now')
  BY <1>1, CallStackAssumption DEF RuntimeInv
<1>3. frames # <<>> /\ TopReturns /\ exc' = exc /\ irregular' = irregular
  BY DEF Return
<1>4. /\ n \in Nat /\ n >= 1 /\ n \in 1..n /\ Last(frames) = frames[n]
  BY <1>3, FrontLast DEF RuntimeInv
<1>5. /\ Len(frames') = n - 1 /\ \A i \in 1..n - 1 : frames'[i].m = frames[i].m
  BY <1>2, <1>3, EndTopFrameIs
<1>6. Left' = Left /\ Unwinding' = Unwinding
  BY <1>3 DEF Left, Unwinding
<1>7. Left < n /\ (Unwinding => Left # 0)
  <2>1. CASE ~Dispatching
    BY <1>4, <2>1, DispatchIs DEF Dispatching
  <2>2. CASE Dispatching
    <3>1. exc[1].phase \in {"search", "finally"} /\ n > exc[1].at /\ exc[1].at \in 1..n
      BY <1>3, <2>2, DispatchIs DEF TopReturns, HandlerRuns
    <3> QED BY <1>4, <3>1 DEF Left, Unwinding
  <2> QED BY <2>1, <2>2
<1>8. Shown' = Shown \ {n} /\ (n \in Shown <=> frames[n].m \in Included)
  <2>1. \A i \in 1..n : i # n <=> i \in 1..n - 1
    BY <1>4
  <2>2. \A i \in 1..n - 1 : i \in 1..n
    BY <1>4
  <2>3. n \in Shown <=> frames[n].m \in Included
    BY <1>4, <1>7 DEF Shown
  <2> QED BY <1>5, <1>6, <2>1, <2>2, <2>3 DEF Shown
<1> QED BY <1>1, <1>2, <1>3, <1>4, <1>6, <1>7, <1>8

LEMMA ThrowShown ==
  ASSUME RuntimeInv, Single, ~NestedThrows, NEW c \in 0..Len(frames), Throw(c)
  PROVE  /\ UNCHANGED <<now, frames, truth, irregular, thread, stats>>
         /\ exc = <<>> /\ exc' # exc /\ Single' /\ Left = 0 /\ Left' = 0 /\ ~Unwinding /\ ~Unwinding'
         /\ Shown' = Shown
<1>1. /\ UNCHANGED <<now, frames, truth, irregular, thread, stats>> /\ exc = <<>>
      /\ exc' = Append(exc, [catcher |-> c, at |-> Len(frames), phase |-> "search"])
  BY DEF Throw, Dispatching
<1>2. exc' = <<[catcher |-> c, at |-> Len(frames), phase |-> "search"]>>
  BY <1>1
<1>3. Len(exc') = 1 /\ exc'[1].phase = "search"
  BY <1>2
<1>4. exc' # exc
  BY <1>1, <1>3
<1>5. Left = 0 /\ Left' = 0 /\ ~Unwinding /\ ~Unwinding'
  BY <1>1, <1>3 DEF Left, Unwinding
<1> QED BY <1>1, <1>3, <1>4, <1>5 DEF Single, Shown

LEMMA FoundShown ==
  ASSUME RuntimeInv, Single, CatcherFound
  PROVE  /\ UNCHANGED <<now, frames, truth, irregular>> /\ exc' # <<>> /\ Single'
         /\ Left = 0 /\ Left' = 0 /\ ~Unwinding /\ Unwinding'
         /\ exc[1].catcher \in 0..Len(frames) /\ exc'[1].catcher = exc[1].catcher
         /\ Shown' = Shown
         /\ IF MonitorExceptions /\ exc[1].catcher # 0
            THEN ExceptionSearchCatcherFound(frames[exc[1].catcher].m)
            ELSE UNCHANGED <<thread, stats, event>>
<1>1. /\ Dispatching /\ Last(exc).phase = "search"
      /\ exc' = [exc EXCEPT ![Len(exc)].phase = "unwind"]
      /\ UNCHANGED <<now, frames, truth, irregular>>
      /\ IF MonitorExceptions /\ Last(exc).catcher # 0
         THEN ExceptionSearchCatcherFound(frames[Last(exc).catcher].m)
         ELSE UNCHANGED <<thread, stats, event>>
  BY DEF CatcherFound
<1>2. /\ Len(exc) = 1 /\ Last(exc) = exc[1] /\ exc # <<>> /\ exc[1].at \in 1..Len(frames)
      /\ exc[1].catcher \in 0..exc[1].at /\ Len(frames) \in Nat
  BY <1>1, DispatchIs
<1>3. /\ exc' \in Seq(Dispatch) /\ Len(exc') = 1
      /\ exc'[1].catcher = exc[1].catcher /\ exc'[1].phase = "unwind"
  <2>1. "unwind" \in Phases /\ Last(exc).at >= 1
    BY <1>2 DEF Phases
  <2> QED BY <1>1, <1>2, <2>1, PhaseChangesOnly DEF RuntimeInv
<1>4. exc' # <<>>
  BY <1>3, OneIsNotEmpty
<1>5. Left = 0 /\ Left' = 0 /\ ~Unwinding /\ Unwinding'
  BY <1>1, <1>2, <1>3, <1>4 DEF Left, Unwinding
<1>6. Shown' = Shown
  <2>1. frames' = frames /\ Left' = Left
    BY <1>1, <1>5
  <2> QED BY <2>1 DEF Shown
<1>7. exc[1].catcher \in 0..Len(frames) /\ Single'
  BY <1>2, <1>3 DEF Single
<1> QED BY <1>1, <1>2, <1>3, <1>4, <1>5, <1>6, <1>7

LEMMA UnwindShown ==
  ASSUME RuntimeInv, Single, UnwindFrame
  PROVE  LET n == Len(frames)
             m == frames[n].m
         IN  /\ now' \in Nat /\ now' >= now /\ UNCHANGED <<frames, truth>>
             /\ n \in Nat /\ n \in 1..n /\ exc' # <<>> /\ Single' /\ Dispatching
             /\ exc[1].catcher \in 0..n /\ exc'[1].catcher = exc[1].catcher
             /\ Left = 0 /\ Left' = n /\ Unwinding /\ Unwinding'
             /\ Shown' = Shown \ {n}
             /\ n \in Shown <=> m \in Included
             /\ irregular' = (irregular \/ (m \in Included /\ m # thread.catcher /\ thread.deferred.has))
             /\ IF MonitorExceptions
                THEN ExceptionUnwindFunctionEnter(m, now') ELSE UNCHANGED <<thread, stats, event>>
<1> DEFINE n == Len(frames)
<1>1. /\ Dispatching /\ Last(exc).phase = "unwind"
      /\ exc' = [exc EXCEPT ![Len(exc)].phase = "finally"]
      /\ UNCHANGED <<frames, truth>>
      /\ irregular' = (irregular \/ (/\ Last(frames).m \in Included
                                     /\ Last(frames).m # thread.catcher
                                     /\ thread.deferred.has))
  BY DEF UnwindFrame
<1>2. PICK d \in Ticks :
        /\ now' = now + d
        /\ IF MonitorExceptions THEN ExceptionUnwindFunctionEnter(Last(frames).m, now + d)
                                ELSE UNCHANGED <<thread, stats, event>>
  BY DEF UnwindFrame
<1>3. now' \in Nat /\ now' >= now
  BY <1>2, CallStackAssumption DEF RuntimeInv
<1>4. /\ Len(exc) = 1 /\ Last(exc) = exc[1] /\ exc # <<>> /\ exc[1].at \in 1..n /\ n \in Nat /\ n \in 1..n
      /\ exc[1].catcher \in 0..exc[1].at /\ Last(frames) = frames[n]
  BY <1>1, DispatchIs
<1>5. /\ exc' \in Seq(Dispatch) /\ Len(exc') = 1
      /\ exc'[1].catcher = exc[1].catcher /\ exc'[1].phase = "finally" /\ exc'[1].at = exc[1].at
  <2>1. "finally" \in Phases /\ Last(exc).at >= 1
    BY <1>4 DEF Phases
  <2> QED BY <1>1, <1>4, <2>1, PhaseChangesOnly DEF RuntimeInv
<1>6. exc[1].at = n
  <2>1. 1 \in 1..Len(exc) /\ exc[1].phase = "unwind"
    BY <1>1, <1>4
  <2> QED BY <2>1 DEF RuntimeInv, DispatchInv
<1>7. exc' # <<>>
  BY <1>5, OneIsNotEmpty
<1>8. Left = 0 /\ Left' = n /\ Unwinding /\ Unwinding'
  BY <1>1, <1>4, <1>5, <1>6, <1>7 DEF Left, Unwinding
<1>9. Shown' = Shown \ {n} /\ (n \in Shown <=> frames[n].m \in Included)
  <2>1. \A i \in 1..n : i # 0
    OBVIOUS
  <2> QED BY <1>1, <1>4, <1>8, <2>1 DEF Shown
<1> QED BY <1>1, <1>2, <1>3, <1>4, <1>5, <1>6, <1>7, <1>8, <1>9 DEF Single

LEMMA UnwoundShown ==
  ASSUME RuntimeInv, Single, FrameUnwound
  PROVE  LET n == Len(frames)
         IN  /\ UNCHANGED <<now, irregular, thread, stats, event>> /\ now \in Nat
             /\ EndTopFrame(now) /\ frames # <<>> /\ n \in Nat /\ n >= 1
             /\ exc' # exc /\ Single' /\ exc # <<>>
             /\ Left = n /\ Left' = 0 /\ Unwinding
             /\ exc[1].catcher \in 0..n - 1
             /\ \/ exc' = <<>> /\ ~Unwinding' /\ exc[1].catcher = 0
                \/ exc' # <<>> /\ Unwinding' /\ exc'[1].catcher = exc[1].catcher
             /\ Shown' = Shown /\ Shown = IncludedBelow
<1> DEFINE n == Len(frames)
<1>1. /\ Dispatching /\ Last(exc).phase = "finally" /\ n = Last(exc).at
      /\ Last(exc).at # Last(exc).catcher /\ EndTopFrame(now)
      /\ exc' = IF Last(exc).at = 1
                THEN Front(exc)
                ELSE [exc EXCEPT ![Len(exc)].at = @ - 1, ![Len(exc)].phase = "unwind"]
      /\ UNCHANGED <<now, irregular, thread, stats, event>>
  BY DEF FrameUnwound
<1>2. /\ Len(exc) = 1 /\ Last(exc) = exc[1] /\ exc # <<>> /\ exc[1].at \in 1..n /\ n \in Nat /\ n \in 1..n
      /\ exc[1].catcher \in 0..exc[1].at /\ frames # <<>> /\ exc[1] \in Dispatch
  BY <1>1, DispatchIs
<1>3. n = exc[1].at /\ exc[1].catcher \in 0..n - 1 /\ n >= 1 /\ now \in Nat
  BY <1>1, <1>2 DEF RuntimeInv
<1>4. /\ Len(frames') = n - 1 /\ \A i \in 1..n - 1 : frames'[i].m = frames[i].m
  BY <1>1, <1>2, <1>3, EndTopFrameIs
<1>5. /\ Len(exc') <= 1 /\ exc' # exc
      /\ \/ exc' = <<>> /\ exc[1].catcher = 0
         \/ exc' # <<>> /\ exc'[1].catcher = exc[1].catcher /\ exc'[1].phase = "unwind"
  <2>1. CASE n = 1
    <3>1. exc' \in Seq(Dispatch) /\ Len(exc') = 0
      BY <1>1, <1>2, <1>3, <2>1, DispatchEnds
    <3>2. exc' = <<>>
      BY <3>1, EmptyIffLen
    <3> QED BY <1>2, <1>3, <2>1, <3>1, <3>2
  <2>2. CASE n # 1
    <3>1. /\ exc' \in Seq(Dispatch) /\ Len(exc') = 1
          /\ exc'[1].at = exc[1].at - 1 /\ exc'[1].catcher = exc[1].catcher /\ exc'[1].phase = "unwind"
      <4>1. "unwind" \in Phases /\ Last(exc).at >= 1 /\ 1 \in {0, 1}
        BY <1>2 DEF Phases
      <4>2. exc' = [exc EXCEPT ![Len(exc)].at = @ - 1, ![Len(exc)].phase = "unwind"]
        BY <1>1, <1>3, <2>2
      <4> QED BY <1>2, <4>1, <4>2, PhaseChanges DEF RuntimeInv
    <3>2. exc' # <<>>
      BY <3>1, OneIsNotEmpty
    <3>3. exc' # exc
      BY <1>2, <3>1
    <3> QED BY <3>1, <3>2, <3>3
  <2> QED BY <2>1, <2>2
<1>6. Left = n /\ Left' = 0 /\ Unwinding
  BY <1>1, <1>2, <1>3, <1>5 DEF Left, Unwinding
<1>7. \/ exc' = <<>> /\ ~Unwinding' /\ exc[1].catcher = 0
      \/ exc' # <<>> /\ Unwinding' /\ exc'[1].catcher = exc[1].catcher
  BY <1>5 DEF Unwinding
<1>8. Shown' = Shown /\ Shown = IncludedBelow
  <2>1. \A i \in 1..n : i # n <=> i \in 1..n - 1
    BY <1>2
  <2>2. \A i \in 1..n - 1 : i \in 1..n /\ i # 0
    BY <1>2
  <2> QED BY <1>4, <1>6, <2>1, <2>2 DEF Shown, IncludedBelow
<1> QED BY <1>1, <1>2, <1>3, <1>5, <1>6, <1>7, <1>8 DEF Single

LEMMA CaughtShown ==
  ASSUME RuntimeInv, Single, CatcherEntered
  PROVE  LET n == Len(frames)
         IN  /\ UNCHANGED <<now, frames, truth, irregular>> /\ n \in Nat /\ n \in 1..n
             /\ exc # <<>> /\ exc' = <<>> /\ Single'
             /\ exc[1].catcher = n /\ Left = n /\ Left' = 0 /\ Unwinding /\ ~Unwinding'
             /\ Shown \subseteq 1..n - 1
             /\ Shown' = IF frames[n].m \in Included THEN Shown \cup {n} ELSE Shown
             /\ IF MonitorExceptions THEN ExceptionCatcherEnter ELSE UNCHANGED <<thread, stats, event>>
<1> DEFINE n == Len(frames)
<1>1. /\ Dispatching /\ Last(exc).phase = "finally" /\ n = Last(exc).at
      /\ Last(exc).at = Last(exc).catcher /\ exc' = Front(exc)
      /\ UNCHANGED <<now, frames, truth, irregular>>
      /\ IF MonitorExceptions THEN ExceptionCatcherEnter ELSE UNCHANGED <<thread, stats, event>>
  BY DEF CatcherEntered
<1>2. /\ Len(exc) = 1 /\ Last(exc) = exc[1] /\ exc # <<>> /\ n \in Nat /\ n \in 1..n
  BY <1>1, DispatchIs
<1>3. exc' \in Seq(Dispatch) /\ Len(exc') = 0
  BY <1>1, <1>2, DispatchEnds
<1>4. exc' = <<>>
  BY <1>3, EmptyIffLen
<1>5. exc[1].catcher = n /\ Left = n /\ Left' = 0 /\ Unwinding /\ ~Unwinding'
  BY <1>1, <1>2, <1>4 DEF Left, Unwinding
<1>6. \A i \in 1..n : i # 0 /\ (i # n <=> i \in 1..n - 1)
  BY <1>2
<1>7. Shown \subseteq 1..n - 1 /\ Shown' = IF frames[n].m \in Included THEN Shown \cup {n} ELSE Shown
  BY <1>1, <1>2, <1>5, <1>6 DEF Shown
<1> QED BY <1>1, <1>2, <1>3, <1>4, <1>5, <1>7 DEF Single

-----------------------------------------------------------------------------
(* What the handlers do to the shadow stack.                               *)

LEMMA PoppedIs ==
  ASSUME NEW th \in Thread, Len(th.stack) # 0, NEW x \in Nat, NEW m
  PROVE  LET r == DecrementAsyncNesting(CreditParent(Pop(th), x), m)
             k == Len(th.stack)
         IN  /\ k \in Nat /\ k \in 1..k /\ Top(th) = th.stack[k] /\ Top(th) \in Entries
             /\ r \in Thread /\ Len(r.stack) = k - 1
             /\ \A j \in 1..k - 1 :
                  /\ r.stack[j].functionId = th.stack[j].functionId
                  /\ r.stack[j].enterTsNs = th.stack[j].enterTsNs
                  /\ r.stack[j].childrenTimeNs = IF j = k - 1 THEN th.stack[j].childrenTimeNs + x
                                                 ELSE th.stack[j].childrenTimeNs
             /\ r.catcher = th.catcher /\ r.deferred = th.deferred
             /\ \A a \in AsyncMethods :
                  /\ r.nesting[a] = IF a = m /\ th.nesting[a] > 0 THEN th.nesting[a] - 1
                                    ELSE th.nesting[a]
                  /\ r.firstEnter[a] = IF a = m /\ th.nesting[a] = 1 THEN 0 ELSE th.firstEnter[a]
<1> DEFINE p == Pop(th)
           c == CreditParent(p, x)
           r == DecrementAsyncNesting(c, m)
           k == Len(th.stack)
<1>1. /\ p \in Thread /\ Top(th) = th.stack[k] /\ Top(th) \in Entries /\ k \in 1..k /\ Len(p.stack) = k - 1
      /\ \A j \in 1..k - 1 : p.stack[j] = th.stack[j]
      /\ p.catcher = th.catcher /\ p.deferred = th.deferred
      /\ p.nesting = th.nesting /\ p.firstEnter = th.firstEnter
  BY TopPopIs
<1>2. k \in Nat
  BY ThreadFields
<1> HIDE DEF p, k
<1>3. /\ c \in Thread /\ Len(c.stack) = k - 1
      /\ \A j \in 1..k - 1 :
           /\ c.stack[j].functionId = p.stack[j].functionId
           /\ c.stack[j].enterTsNs = p.stack[j].enterTsNs
           /\ c.stack[j].childrenTimeNs = IF j = k - 1 THEN p.stack[j].childrenTimeNs + x
                                          ELSE p.stack[j].childrenTimeNs
      /\ c.catcher = p.catcher /\ c.deferred = p.deferred
      /\ c.nesting = p.nesting /\ c.firstEnter = p.firstEnter
  BY <1>1, CreditIs
<1> HIDE DEF c
<1>4. /\ r \in Thread /\ r.stack = c.stack
      /\ r.catcher = c.catcher /\ r.deferred = c.deferred
      /\ \A a \in AsyncMethods :
           /\ r.nesting[a] = IF a = m /\ c.nesting[a] > 0 THEN c.nesting[a] - 1 ELSE c.nesting[a]
           /\ r.firstEnter[a] = IF a = m /\ c.nesting[a] = 1 THEN 0 ELSE c.firstEnter[a]
  BY <1>3, DecrementIs
<1> HIDE DEF r
<1>5. \A j \in 1..k - 1 :
        /\ r.stack[j].functionId = th.stack[j].functionId
        /\ r.stack[j].enterTsNs = th.stack[j].enterTsNs
        /\ r.stack[j].childrenTimeNs = IF j = k - 1 THEN th.stack[j].childrenTimeNs + x
                                       ELSE th.stack[j].childrenTimeNs
  BY <1>1, <1>3, <1>4
<1> QED BY <1>1, <1>2, <1>3, <1>4, <1>5 DEF p, c, r, k

\* The entry on top is done for, and its time goes to the one below.
Popped(m, t) ==
  LET k == Len(thread.stack)
      x == InclusiveNs(thread.stack[k], t)
  IN  /\ k \in Nat /\ k \in 1..k /\ thread.stack[k] \in Entries /\ x \in Nat
      /\ SelfNs(thread.stack[k], t) \in Nat
      /\ Len(thread'.stack) = k - 1
      /\ \A j \in 1..k - 1 :
           /\ thread'.stack[j].functionId = thread.stack[j].functionId
           /\ thread'.stack[j].enterTsNs = thread.stack[j].enterTsNs
           /\ thread'.stack[j].childrenTimeNs = IF j = k - 1 THEN thread.stack[j].childrenTimeNs + x
                                                ELSE thread.stack[j].childrenTimeNs
      /\ thread'.catcher = thread.catcher /\ thread'.deferred = thread.deferred
      /\ \A a \in AsyncMethods :
           /\ thread'.nesting[a] = IF a = m /\ thread.nesting[a] > 0 THEN thread.nesting[a] - 1
                                   ELSE thread.nesting[a]
           /\ thread'.firstEnter[a] = IF a = m /\ thread.nesting[a] = 1 THEN 0
                                      ELSE thread.firstEnter[a]

LEMMA PoppedStep ==
  ASSUME NEW t \in Nat, Timely(thread, t), Len(thread.stack) # 0, NEW m,
         thread' = DecrementAsyncNesting(CreditParent(Pop(thread), InclusiveNs(Top(thread), t)), m)
  PROVE  Popped(m, t) /\ Top(thread) = thread.stack[Len(thread.stack)]
<1> DEFINE e == thread.stack[Len(thread.stack)]
           x == InclusiveNs(e, t)
<1>1. thread \in Thread
  BY DEF Timely
<1>2. Top(thread) = e /\ e \in Entries /\ e.enterTsNs <= t
  BY <1>1, TopPopIs, PopTimely
<1>3. x \in Nat /\ SelfNs(e, t) \in Nat
  BY <1>2, TimesAreNat
<1>4. thread' = DecrementAsyncNesting(CreditParent(Pop(thread), x), m)
  BY <1>2
<1> HIDE DEF x
<1>5. LET k == Len(thread.stack)
      IN  /\ k \in Nat /\ k \in 1..k /\ thread.stack[k] \in Entries
          /\ Len(thread'.stack) = k - 1
          /\ \A j \in 1..k - 1 :
               /\ thread'.stack[j].functionId = thread.stack[j].functionId
               /\ thread'.stack[j].enterTsNs = thread.stack[j].enterTsNs
               /\ thread'.stack[j].childrenTimeNs = IF j = k - 1 THEN thread.stack[j].childrenTimeNs + x
                                                    ELSE thread.stack[j].childrenTimeNs
          /\ thread'.catcher = thread.catcher /\ thread'.deferred = thread.deferred
          /\ \A a \in AsyncMethods :
               /\ thread'.nesting[a] = IF a = m /\ thread.nesting[a] > 0 THEN thread.nesting[a] - 1
                                       ELSE thread.nesting[a]
               /\ thread'.firstEnter[a] = IF a = m /\ thread.nesting[a] = 1 THEN 0
                                          ELSE thread.firstEnter[a]
  BY <1>1, <1>2, <1>3, <1>4, PoppedIs
<1> QED BY <1>2, <1>3, <1>5 DEF Popped, x

LEMMA LeaveIs ==
  ASSUME NEW t \in Nat, Timely(thread, t), Len(thread.stack) # 0, NEW m, ProcessLeave(m, t)
  PROVE  LET e == thread.stack[Len(thread.stack)]
         IN  /\ Popped(m, t)
             /\ stats' = RecordMethod(stats, m, InclusiveNs(e, t), SelfNs(e, t))
             /\ "leave" \in Events => event'.deltaNs = InclusiveNs(e, t)
<1> DEFINE x == InclusiveNs(Top(thread), t)
           rest == CreditParent(Pop(thread), x)
<1>1. /\ thread' = DecrementAsyncNesting(rest, m)
      /\ stats' = RecordMethod(stats, m, x, SelfNs(Top(thread), t))
      /\ event' = WriteLeave(event, m, t, GetDepth(rest), x, WallTimeNs(rest, m, t))
  BY DEF ProcessLeave
<1>2. "leave" \in Events => event'.deltaNs = x
  BY <1>1 DEF WriteLeave
<1>3. Popped(m, t) /\ Top(thread) = thread.stack[Len(thread.stack)]
  BY <1>1, PoppedStep
<1> QED BY <1>1, <1>2, <1>3

LEMMA FinishIs ==
  ASSUME NEW t \in Nat, Timely(thread, t), Len(thread.stack) # 0, NEW m, FinishUnwound(m, t)
  PROVE  LET e == thread.stack[Len(thread.stack)]
         IN  /\ Popped(m, t)
             /\ stats' = RecordMethod(stats, e.functionId, InclusiveNs(e, t), SelfNs(e, t))
<1>1. /\ thread' = DecrementAsyncNesting(CreditParent(Pop(thread), InclusiveNs(Top(thread), t)), m)
      /\ stats' = RecordMethod(stats, Top(thread).functionId, InclusiveNs(Top(thread), t),
                               SelfNs(Top(thread), t))
  BY DEF FinishUnwound
<1>2. Popped(m, t) /\ Top(thread) = thread.stack[Len(thread.stack)]
  BY <1>1, PoppedStep
<1> QED BY <1>1, <1>2

LEMMA EnterIs ==
  ASSUME thread \in Thread, NEW m \in Included, NEW t \in Nat, EnterStub(m, t)
  PROVE  LET k == Len(thread.stack)
         IN  /\ k \in Nat /\ Len(thread'.stack) = k + 1
             /\ \A j \in 1..k : thread'.stack[j] = thread.stack[j]
             /\ thread'.stack[k + 1] = [functionId |-> m, enterTsNs |-> t, childrenTimeNs |-> 0]
             /\ thread'.catcher = thread.catcher /\ thread'.deferred = thread.deferred
             /\ \A a \in AsyncMethods :
                  /\ thread'.nesting[a] = IF a = m THEN thread.nesting[a] + 1 ELSE thread.nesting[a]
                  /\ thread'.firstEnter[a] = IF a = m /\ thread.nesting[a] = 0 THEN t
                                             ELSE thread.firstEnter[a]
             /\ stats' = stats
<1> DEFINE p == Push(thread, m, t)
           k == Len(thread.stack)
<1>1. m \in MethodIds
  BY CallStackAssumption DEF MethodIds
<1>2. /\ p \in Thread /\ Len(p.stack) = k + 1
      /\ \A j \in 1..k : p.stack[j] = thread.stack[j]
      /\ p.stack[k + 1] = [functionId |-> m, enterTsNs |-> t, childrenTimeNs |-> 0]
      /\ p.catcher = thread.catcher /\ p.deferred = thread.deferred
      /\ p.nesting = thread.nesting /\ p.firstEnter = thread.firstEnter
  BY <1>1, PushIs
<1>3. k \in Nat /\ stats' = stats
  BY ThreadFields DEF EnterStub
<1>4. thread' = IF m \in AsyncMethods
                THEN [p EXCEPT !.nesting = [p.nesting EXCEPT ![m] = @ + 1],
                               !.firstEnter = [p.firstEnter EXCEPT ![m] = IF thread.nesting[m] = 0 THEN t ELSE @]]
                ELSE p
  BY <1>2 DEF EnterStub, Thread
<1> HIDE DEF p
<1>5. CASE m \in AsyncMethods
  <2> DEFINE ne == [p.nesting EXCEPT ![m] = @ + 1]
             fe == [p.firstEnter EXCEPT ![m] = IF thread.nesting[m] = 0 THEN t ELSE @]
  <2>1. p.nesting \in [AsyncMethods -> Nat] /\ p.firstEnter \in [AsyncMethods -> Nat]
    BY <1>2, ThreadFields
  <2>2. \A a \in AsyncMethods :
          /\ ne[a] = IF a = m THEN thread.nesting[a] + 1 ELSE thread.nesting[a]
          /\ fe[a] = IF a = m /\ thread.nesting[a] = 0 THEN t ELSE thread.firstEnter[a]
    BY <1>2, <1>5, <2>1
  <2>3. thread' = [p EXCEPT !.nesting = ne, !.firstEnter = fe]
    BY <1>4, <1>5
  <2> HIDE DEF ne, fe
  <2>4. /\ thread'.stack = p.stack /\ thread'.catcher = p.catcher /\ thread'.deferred = p.deferred
        /\ thread'.nesting = ne /\ thread'.firstEnter = fe
    BY <1>2, <2>3 DEF Thread
  <2> QED BY <1>2, <1>3, <2>2, <2>4
<1>6. CASE m \notin AsyncMethods
  BY <1>2, <1>3, <1>4, <1>6
<1> QED BY <1>5, <1>6

\* Nothing is held back yet when the first pass has found the catcher.
LEMMA FoundIs ==
  ASSUME thread \in Thread, ~thread.deferred.has, NEW m, ExceptionSearchCatcherFound(m)
  PROVE  /\ thread'.stack = thread.stack /\ thread'.deferred = thread.deferred
         /\ thread'.nesting = thread.nesting /\ thread'.firstEnter = thread.firstEnter
         /\ thread'.catcher = m /\ UNCHANGED <<stats, event>>
<1>1. thread' = [thread EXCEPT !.catcher = m] /\ UNCHANGED <<stats, event>>
  BY DEF ExceptionSearchCatcherFound
<1> QED BY <1>1 DEF Thread

\* The entry on top is held back; one that was held back is finalized first.
HoldsBack(m, t) ==
  LET k == Len(thread.stack)
      d == thread.deferred
      e == thread.stack[k]
      c == IF d.has THEN InclusiveNs(d.entry, d.tsNs) ELSE 0
  IN  /\ k \in Nat /\ k \in 1..k /\ Len(thread'.stack) = k - 1 /\ c \in Nat
      /\ \A j \in 1..k - 1 :
           /\ thread'.stack[j].functionId = thread.stack[j].functionId
           /\ thread'.stack[j].enterTsNs = thread.stack[j].enterTsNs
           /\ thread'.stack[j].childrenTimeNs = thread.stack[j].childrenTimeNs
      /\ thread'.catcher = thread.catcher
      /\ thread'.deferred.has = TRUE /\ thread'.deferred.functionId = m
      /\ thread'.deferred.tsNs = t
      /\ thread'.deferred.entry.functionId = e.functionId
      /\ thread'.deferred.entry.enterTsNs = e.enterTsNs
      /\ thread'.deferred.entry.childrenTimeNs = e.childrenTimeNs + c
      /\ \E base \in Thread :
           /\ \A a \in AsyncMethods :
                \/ base.nesting[a] = thread.nesting[a] /\ base.firstEnter[a] = thread.firstEnter[a]
                \/ /\ d.has /\ thread.nesting[a] > 0
                   /\ base.nesting[a] = thread.nesting[a] - 1
                   /\ base.firstEnter[a] = IF thread.nesting[a] = 1 THEN 0 ELSE thread.firstEnter[a]
           /\ \A a \in AsyncMethods :
                /\ thread'.nesting[a] = IF a = m /\ base.nesting[a] > 0 THEN base.nesting[a] - 1
                                        ELSE base.nesting[a]
                /\ thread'.firstEnter[a] = IF a = m /\ base.nesting[a] = 1 THEN 0
                                           ELSE base.firstEnter[a]
      /\ stats' = IF d.has THEN FinalizedStats(thread, stats) ELSE stats

LEMMA DeferIs ==
  ASSUME NEW t \in Nat, Timely(thread, t), Len(thread.stack) # 0, NEW m, DeferUnwind(m, t)
  PROVE  HoldsBack(m, t)
<1> DEFINE k == Len(thread.stack)
           d == thread.deferred
           e == thread.stack[k]
           c == IF d.has THEN InclusiveNs(d.entry, d.tsNs) ELSE 0
           base == IF d.has THEN Finalized(thread) ELSE thread
           g == DecrementAsyncNesting(Pop(base), m)
           nd == [has |-> TRUE, entry |-> Top(base), functionId |-> m, tsNs |-> t]
<1>1. thread \in Thread
  BY DEF Timely
<1>2. /\ c \in Nat /\ base \in Thread /\ Len(base.stack) = k /\ base.catcher = thread.catcher
      /\ \A j \in 1..k :
           /\ base.stack[j].functionId = thread.stack[j].functionId
           /\ base.stack[j].enterTsNs = thread.stack[j].enterTsNs
           /\ base.stack[j].childrenTimeNs = IF j = k THEN thread.stack[j].childrenTimeNs + c
                                             ELSE thread.stack[j].childrenTimeNs
      /\ \A a \in AsyncMethods :
           \/ base.nesting[a] = thread.nesting[a] /\ base.firstEnter[a] = thread.firstEnter[a]
           \/ /\ d.has /\ thread.nesting[a] > 0
              /\ base.nesting[a] = thread.nesting[a] - 1
              /\ base.firstEnter[a] = IF thread.nesting[a] = 1 THEN 0 ELSE thread.firstEnter[a]
  <2>1. CASE d.has
    <3> DEFINE r == Finalized(thread)
               x == InclusiveNs(d.entry, d.tsNs)
    <3>1. /\ x \in Nat /\ r \in Thread /\ Len(r.stack) = k
          /\ \A j \in 1..k :
               /\ r.stack[j].functionId = thread.stack[j].functionId
               /\ r.stack[j].enterTsNs = thread.stack[j].enterTsNs
               /\ r.stack[j].childrenTimeNs = IF j = k THEN thread.stack[j].childrenTimeNs + x
                                              ELSE thread.stack[j].childrenTimeNs
          /\ r.catcher = thread.catcher
          /\ \A a \in AsyncMethods :
               /\ r.nesting[a] = IF a = d.functionId /\ thread.nesting[a] > 0 THEN thread.nesting[a] - 1
                                 ELSE thread.nesting[a]
               /\ r.firstEnter[a] = IF a = d.functionId /\ thread.nesting[a] = 1 THEN 0
                                    ELSE thread.firstEnter[a]
      BY FinalizedIs
    <3>2. base = r /\ c = x
      BY <2>1
    <3>3. \A a \in AsyncMethods : thread.nesting[a] \in Nat
      BY <1>1, ThreadFields
    <3> HIDE DEF base, c, r, x
    <3>4. \A a \in AsyncMethods :
           \/ r.nesting[a] = thread.nesting[a] /\ r.firstEnter[a] = thread.firstEnter[a]
           \/ /\ d.has /\ thread.nesting[a] > 0
              /\ r.nesting[a] = thread.nesting[a] - 1
              /\ r.firstEnter[a] = IF thread.nesting[a] = 1 THEN 0 ELSE thread.firstEnter[a]
      BY <2>1, <3>1, <3>3
    <3> QED BY <3>1, <3>2, <3>4
  <2>2. CASE ~d.has
    <3>1. base = thread /\ c = 0 /\ \A j \in 1..k : thread.stack[j].childrenTimeNs \in Nat
      BY <1>1, <2>2, ThreadFields
    <3> HIDE DEF base, c
    <3> QED BY <1>1, <3>1
  <2> QED BY <2>1, <2>2
<1>3. thread' = [g EXCEPT !.deferred = nd] /\ stats' = IF d.has THEN FinalizedStats(thread, stats) ELSE stats
  BY DEF DeferUnwind
<1>4. k \in Nat /\ k \in 1..k /\ \A j \in 1..k - 1 : j \in 1..k /\ j # k
  <2>1. k \in Nat
    BY <1>1, ThreadFields
  <2> HIDE DEF k
  <2>2. k # 0
    BY DEF k
  <2> QED BY <2>1, <2>2
<1> HIDE DEF base, c, d
<1> DEFINE p == Pop(base)
<1>5. /\ Top(base) = base.stack[k] /\ p \in Thread /\ Len(p.stack) = k - 1
      /\ \A j \in 1..k - 1 : p.stack[j] = base.stack[j]
      /\ p.catcher = base.catcher /\ p.nesting = base.nesting /\ p.firstEnter = base.firstEnter
  <2>1. Len(base.stack) # 0
    BY <1>2, <1>4
  <2> QED BY <1>2, <2>1, TopPopIs
<1>6. /\ g \in Thread /\ g.stack = p.stack /\ g.catcher = p.catcher
      /\ \A a \in AsyncMethods :
           /\ g.nesting[a] = IF a = m /\ p.nesting[a] > 0 THEN p.nesting[a] - 1 ELSE p.nesting[a]
           /\ g.firstEnter[a] = IF a = m /\ p.nesting[a] = 1 THEN 0 ELSE p.firstEnter[a]
  BY <1>5, DecrementIs
<1> HIDE DEF g
<1>7. /\ thread'.stack = g.stack /\ thread'.catcher = g.catcher /\ thread'.nesting = g.nesting
      /\ thread'.firstEnter = g.firstEnter /\ thread'.deferred = nd
  BY <1>3, <1>6 DEF Thread
<1>8. /\ nd.has = TRUE /\ nd.functionId = m /\ nd.tsNs = t /\ nd.entry = base.stack[k]
  BY <1>5
<1> HIDE DEF nd, p
<1>9. \A j \in 1..k - 1 :
        /\ thread'.stack[j].functionId = thread.stack[j].functionId
        /\ thread'.stack[j].enterTsNs = thread.stack[j].enterTsNs
        /\ thread'.stack[j].childrenTimeNs = thread.stack[j].childrenTimeNs
  <2> SUFFICES ASSUME NEW j \in 1..k - 1
               PROVE  /\ thread'.stack[j].functionId = thread.stack[j].functionId
                      /\ thread'.stack[j].enterTsNs = thread.stack[j].enterTsNs
                      /\ thread'.stack[j].childrenTimeNs = thread.stack[j].childrenTimeNs
    OBVIOUS
  <2>1. thread'.stack[j] = base.stack[j]
    BY <1>5, <1>6, <1>7
  <2>2. j \in 1..k /\ j # k
    BY <1>4
  <2> QED BY <1>2, <2>1, <2>2
<1>10. \A a \in AsyncMethods :
         /\ thread'.nesting[a] = IF a = m /\ base.nesting[a] > 0 THEN base.nesting[a] - 1
                                 ELSE base.nesting[a]
         /\ thread'.firstEnter[a] = IF a = m /\ base.nesting[a] = 1 THEN 0
                                    ELSE base.firstEnter[a]
  BY <1>5, <1>6, <1>7
<1>11. /\ thread'.deferred.has = TRUE /\ thread'.deferred.functionId = m /\ thread'.deferred.tsNs = t
       /\ thread'.deferred.entry.functionId = thread.stack[k].functionId
       /\ thread'.deferred.entry.enterTsNs = thread.stack[k].enterTsNs
       /\ thread'.deferred.entry.childrenTimeNs = thread.stack[k].childrenTimeNs + c
       /\ thread'.catcher = thread.catcher
       /\ Len(thread'.stack) = k - 1
  <2>1. /\ thread'.deferred.entry = base.stack[k] /\ thread'.deferred.has = TRUE
        /\ thread'.deferred.functionId = m /\ thread'.deferred.tsNs = t
    BY <1>7, <1>8
  <2>2. /\ base.stack[k].functionId = thread.stack[k].functionId
        /\ base.stack[k].enterTsNs = thread.stack[k].enterTsNs
        /\ base.stack[k].childrenTimeNs = thread.stack[k].childrenTimeNs + c
    BY <1>2, <1>4
  <2>3. thread'.catcher = thread.catcher /\ Len(thread'.stack) = k - 1
    BY <1>2, <1>5, <1>6, <1>7
  <2> QED BY <2>1, <2>2, <2>3
<1> QED BY <1>2, <1>3, <1>4, <1>9, <1>10, <1>11 DEF c, d, HoldsBack

LEMMA CatcherEnterIs ==
  ASSUME thread \in Thread, ExceptionCatcherEnter
  PROVE  LET k == Len(thread.stack)
         IN  /\ k \in Nat
             /\ thread.deferred.has =>
                  /\ Len(thread'.stack) = k + 1
                  /\ \A j \in 1..k : thread'.stack[j] = thread.stack[j]
                  /\ thread'.stack[k + 1] = thread.deferred.entry
             /\ ~thread.deferred.has => thread'.stack = thread.stack
             /\ thread'.catcher = NoMethod /\ thread'.deferred.has = FALSE
             /\ thread'.nesting = thread.nesting /\ thread'.firstEnter = thread.firstEnter
             /\ UNCHANGED <<stats, event>>
<1> DEFINE s == IF thread.deferred.has THEN Append(thread.stack, thread.deferred.entry) ELSE thread.stack
           k == Len(thread.stack)
<1>1. thread.stack \in Seq(Entries) /\ k \in Nat /\ thread.deferred.entry \in Entries
  BY ThreadFields
<1>2. thread.deferred.has =>
        /\ Len(s) = k + 1 /\ \A j \in 1..k : s[j] = thread.stack[j]
        /\ s[k + 1] = thread.deferred.entry
  BY <1>1, AppendProperties
<1>3. ~thread.deferred.has => s = thread.stack
  OBVIOUS
<1>4. /\ thread' = [thread EXCEPT !.stack = s, !.deferred = NoDeferred, !.catcher = NoMethod]
      /\ UNCHANGED <<stats, event>>
  BY DEF ExceptionCatcherEnter, Thread
<1> HIDE DEF s
<1>5. /\ thread'.stack = s /\ thread'.deferred = NoDeferred /\ thread'.catcher = NoMethod
      /\ thread'.nesting = thread.nesting /\ thread'.firstEnter = thread.firstEnter
  BY <1>4 DEF Thread
<1>6. thread'.deferred.has = FALSE
  BY <1>5 DEF NoDeferred
<1> QED BY <1>1, <1>2, <1>3, <1>4, <1>5, <1>6

-----------------------------------------------------------------------------
(* The shadow stack is the real one.                                       *)

CatcherInv ==
  thread.catcher = IF Unwinding /\ exc[1].catcher # 0 THEN frames[exc[1].catcher].m ELSE NoMethod

\* The entry held back is that of the frame being unwound.
Held == Left # 0 /\ frames[Left].m = thread.catcher /\ frames[Left].m \in Included

DeferredInv ==
  /\ thread.deferred.has =>
       /\ Unwinding /\ thread.catcher \in Included
       /\ thread.deferred.functionId = thread.catcher
       /\ thread.deferred.entry.functionId = thread.catcher
       /\ thread.deferred.entry.enterTsNs >= 1
  /\ Held => thread.deferred.has /\ thread.deferred.entry.enterTsNs = frames[Left].enter

ShadowInv ==
  /\ Single /\ CatcherInv /\ DeferredInv
  /\ Mirrors(thread.stack, frames, Shown)

\* The top frame, when it is shown, is the top entry.
LEMMA TopShown ==
  ASSUME RuntimeInv, ShadowInv, Len(frames) \in Shown
  PROVE  LET n == Len(frames)
             k == Len(thread.stack)
         IN  /\ n \in Nat /\ n \in 1..n /\ Shown \in SUBSET (1..n) /\ \A y \in Shown : y <= n
             /\ k \in Nat /\ k >= 1 /\ k # 0
             /\ thread.stack[k].functionId = frames[n].m
             /\ thread.stack[k].enterTsNs = frames[n].enter
             /\ frames[n].enter \in Nat /\ frames[n].kids \in Nat /\ frames[n].enter >= 1
             /\ frames[n].enter + frames[n].kids <= now /\ now \in Nat
<1> DEFINE n == Len(frames)
<1>1. n \in Nat /\ Shown \in SUBSET (1..n)
  BY DispatchIs DEF ShadowInv
<1>2. n \in 1..n /\ \A y \in Shown : y <= n
  BY <1>1
<1>3. /\ frames[n].enter \in Nat /\ frames[n].kids \in Nat /\ frames[n].enter >= 1
      /\ frames[n].enter + frames[n].kids <= now /\ now \in Nat
  BY <1>2, RuntimeTypes DEF RuntimeInv, FramesInv
<1>4. Mirrors(thread.stack, frames, Shown) /\ n \in Shown
  BY DEF ShadowInv
<1> HIDE DEF n
<1>5. LET k == Len(thread.stack)
      IN  k \in Nat /\ k >= 1 /\ Shows(thread.stack, k, frames, n)
  BY <1>1, <1>2, <1>4, MirrorsTop
<1> QED BY <1>1, <1>2, <1>3, <1>5 DEF n, Shows

LEMMA CallShadow ==
  ASSUME TypeInv, ShadowInv, NEW m \in Methods, Call(m)
  PROVE  ShadowInv'
<1> DEFINE n == Len(frames)
<1>1. RuntimeInv /\ Single /\ thread \in Thread
  BY DEF TypeInv, ProfilerInv, Timely, ShadowInv
<1>2. /\ now' \in Nat /\ exc' = exc
      /\ Len(frames') = n + 1
      /\ \A i \in 1..n : frames'[i] = frames[i]
      /\ frames'[n + 1].m = m /\ frames'[n + 1].enter = now'
      /\ Left' = Left /\ Unwinding' = Unwinding
      /\ Shown' = IF m \in Included THEN Shown \cup {n + 1} ELSE Shown
      /\ IF m \in Included THEN EnterStub(m, now') ELSE UNCHANGED <<thread, stats, event>>
  BY <1>1, CallShown
<1>3. /\ n \in Nat /\ Left \in 0..n /\ Shown \in SUBSET (1..n)
      /\ Dispatching => exc[1].catcher \in 0..n
  BY <1>1, DispatchIs
<1>4. thread'.catcher = thread.catcher /\ thread'.deferred = thread.deferred
  BY <1>1, <1>2, EnterIs
<1>5. Single' /\ CatcherInv'
  <2>1. Unwinding /\ exc[1].catcher # 0 => exc[1].catcher \in 1..n
    BY <1>3 DEF Unwinding, Dispatching
  <2> QED BY <1>2, <1>4, <2>1 DEF ShadowInv, Single, CatcherInv
<1>6. DeferredInv'
  <2>1. Left # 0 => Left \in 1..n
    BY <1>3
  <2>2. Held' <=> Held
    BY <1>2, <1>4, <2>1 DEF Held
  <2>3. Held => frames'[Left'].enter = frames[Left].enter
    BY <1>2, <2>1 DEF Held
  <2> QED BY <1>2, <1>4, <2>2, <2>3 DEF ShadowInv, DeferredInv
<1>7. Mirrors(thread'.stack, frames', Shown')
  <2>1. CASE m \in Included
    <3>1. LET k == Len(thread.stack)
          IN  /\ k \in Nat /\ Len(thread'.stack) = k + 1
              /\ \A j \in 1..k : thread'.stack[j] = thread.stack[j]
              /\ thread'.stack[k + 1] = [functionId |-> m, enterTsNs |-> now', childrenTimeNs |-> 0]
      BY <1>1, <1>2, <2>1, EnterIs
    <3>2. /\ n + 1 \in Nat /\ Shown \in SUBSET (1..n + 1) /\ n + 1 \in 1..n + 1 /\ \A y \in Shown : y < n + 1
          /\ \A i \in Shown : frames'[i] = frames[i]
      BY <1>2, <1>3
    <3>3. Mirrors(thread.stack, frames, Shown)
      BY DEF ShadowInv
    <3>4. Mirrors(thread'.stack, frames', Shown \cup {n + 1})
      <4>1. /\ Len(thread'.stack) = Len(thread.stack) + 1
            /\ \A j \in 1..Len(thread.stack) : SameEntry(thread'.stack, thread.stack, j)
            /\ Shows(thread'.stack, Len(thread.stack) + 1, frames', n + 1)
        BY <1>2, <3>1 DEF SameEntry, Shows
      <4>2. \A i \in Shown : SameFrame(frames', frames, i)
        BY <3>2 DEF SameFrame
      <4> HIDE DEF n
      <4> QED BY <3>2, <3>3, <4>1, <4>2, MirrorsPush
    <3> QED BY <1>2, <2>1, <3>4
  <2>2. CASE m \notin Included
    <3>1. thread' = thread /\ Shown' = Shown /\ \A i \in Shown : frames'[i] = frames[i]
      BY <1>2, <1>3, <2>2
    <3> QED BY <3>1 DEF ShadowInv, Mirrors, Shows
  <2> QED BY <2>1, <2>2
<1> QED BY <1>5, <1>6, <1>7 DEF ShadowInv

LEMMA ReturnShadow ==
  ASSUME TypeInv, ShadowInv, Return
  PROVE  ShadowInv'
<1> DEFINE n == Len(frames)
<1>1. RuntimeInv /\ Single /\ thread \in Thread /\ Timely(thread, now) /\ now \in Nat
  BY DEF TypeInv, ProfilerInv, Timely, ShadowInv, RuntimeInv
<1>2. /\ now' \in Nat /\ now' >= now /\ exc' = exc
      /\ EndTopFrame(now') /\ frames # <<>> /\ n \in Nat /\ n >= 1
      /\ Left' = Left /\ Left < n /\ Unwinding' = Unwinding /\ (Unwinding => Left # 0)
      /\ Shown' = Shown \ {n}
      /\ n \in Shown <=> frames[n].m \in Included
      /\ IF frames[n].m \in Included
         THEN ProcessLeave(frames[n].m, now') ELSE UNCHANGED <<thread, stats, event>>
  BY <1>1, ReturnShown
<1>3. /\ Left \in 0..n /\ Shown \in SUBSET (1..n)
      /\ Dispatching => exc[1].catcher \in 0..exc[1].at /\ exc[1].at \in 1..n
  BY <1>1, DispatchIs
<1>4. \A i \in 1..n - 1 : frames'[i].m = frames[i].m /\ frames'[i].enter = frames[i].enter
  BY <1>1, <1>2, EndTopFrameIs
<1>5. Timely(thread, now')
  BY <1>1, <1>2, TimelyLater
<1>6. frames[n].m \in Included =>
        /\ Len(thread.stack) \in Nat /\ Len(thread.stack) >= 1
        /\ Popped(frames[n].m, now')
  <2> SUFFICES ASSUME frames[n].m \in Included
               PROVE  /\ Len(thread.stack) \in Nat /\ Len(thread.stack) >= 1
                      /\ Popped(frames[n].m, now')
    OBVIOUS
  <2>1. n \in Shown
    BY <1>2
  <2>2. Len(thread.stack) \in Nat /\ Len(thread.stack) >= 1 /\ Len(thread.stack) # 0
    BY <1>1, <2>1, TopShown
  <2>3. ProcessLeave(frames[n].m, now')
    BY <1>2
  <2>4. Popped(frames[n].m, now')
    BY <1>2, <1>5, <2>2, <2>3, LeaveIs
  <2> QED BY <2>2, <2>4
<1>7. thread'.catcher = thread.catcher /\ thread'.deferred = thread.deferred
  BY <1>2, <1>6 DEF Popped
<1>8. Single' /\ CatcherInv'
  <2>1. Unwinding => exc[1].catcher \in 0..n - 1
    <3>1. Unwinding => Dispatching /\ Left = exc[1].at
      BY <1>2 DEF Unwinding, Left, Dispatching
    <3> QED BY <1>2, <1>3, <3>1
  <2>2. Unwinding /\ exc[1].catcher # 0 => exc[1].catcher \in 1..n - 1
    BY <2>1
  <2> QED BY <1>2, <1>4, <1>7, <2>2 DEF ShadowInv, Single, CatcherInv
<1>9. DeferredInv'
  <2>1. Left # 0 => Left \in 1..n - 1
    BY <1>2, <1>3
  <2>2. Held' <=> Held
    BY <1>2, <1>4, <1>7, <2>1 DEF Held
  <2>3. Held => frames'[Left'].enter = frames[Left].enter
    BY <1>2, <1>4, <2>1 DEF Held
  <2> QED BY <1>2, <1>7, <2>2, <2>3 DEF ShadowInv, DeferredInv
<1>10. Mirrors(thread'.stack, frames', Shown')
  <2>1. \A i \in Shown \ {n} : SameFrame(frames', frames, i)
    <3>1. \A i \in 1..n : i # n => i \in 1..n - 1
      BY <1>2
    <3>2. \A i \in Shown \ {n} : i \in 1..n - 1
      BY <1>3, <3>1
    <3> QED BY <1>4, <3>2 DEF SameFrame
  <2>2. Mirrors(thread.stack, frames, Shown)
    BY DEF ShadowInv
  <2>3. CASE frames[n].m \in Included
    <3>1. n \in Shown /\ \A y \in Shown : y <= n
      BY <1>2, <1>3, <2>3
    <3>2. /\ Len(thread'.stack) = Len(thread.stack) - 1
          /\ \A k \in 1..Len(thread'.stack) : SameEntry(thread'.stack, thread.stack, k)
      BY <1>6, <2>3 DEF Popped, SameEntry
    <3> HIDE DEF n
    <3>3. Mirrors(thread'.stack, frames', Shown \ {n})
      BY <1>2, <1>3, <2>1, <2>2, <3>1, <3>2, MirrorsPop
    <3> QED BY <1>2, <3>3
  <2>4. CASE frames[n].m \notin Included
    <3>1. thread' = thread /\ Shown' = Shown /\ Shown \ {n} = Shown
      BY <1>2, <2>4
    <3> QED BY <2>1, <2>2, <3>1 DEF Mirrors, Shows, SameFrame
  <2> QED BY <2>3, <2>4
<1> QED BY <1>8, <1>9, <1>10 DEF ShadowInv

LEMMA ThrowShadow ==
  ASSUME TypeInv, ShadowInv, ~NestedThrows, NEW c \in 0..Len(frames), Throw(c)
  PROVE  ShadowInv'
<1>1. RuntimeInv /\ Single
  BY DEF TypeInv, ShadowInv
<1>2. /\ frames' = frames /\ thread' = thread
      /\ Single' /\ Left = 0 /\ Left' = 0 /\ ~Unwinding /\ ~Unwinding' /\ Shown' = Shown
  BY <1>1, ThrowShown
<1>3. CatcherInv' /\ DeferredInv'
  BY <1>2 DEF ShadowInv, CatcherInv, DeferredInv, Held
<1>4. Mirrors(thread'.stack, frames', Shown')
  BY <1>2 DEF ShadowInv
<1> QED BY <1>2, <1>3, <1>4 DEF ShadowInv

LEMMA FoundShadow ==
  ASSUME TypeInv, ShadowInv, MonitorExceptions, CatcherFound
  PROVE  /\ ShadowInv'
         /\ ~thread.deferred.has /\ thread'.stack = thread.stack /\ thread'.deferred = thread.deferred
         /\ thread'.nesting = thread.nesting /\ thread'.firstEnter = thread.firstEnter
         /\ UNCHANGED <<stats, event>>
<1>1. RuntimeInv /\ Single /\ thread \in Thread
  BY DEF TypeInv, ProfilerInv, Timely, ShadowInv
<1>2. /\ frames' = frames /\ Single' /\ Left = 0 /\ Left' = 0 /\ ~Unwinding /\ Unwinding'
      /\ exc'[1].catcher = exc[1].catcher /\ Shown' = Shown
      /\ IF exc[1].catcher # 0
         THEN ExceptionSearchCatcherFound(frames[exc[1].catcher].m)
         ELSE UNCHANGED <<thread, stats, event>>
  BY <1>1, FoundShown
<1>3. ~thread.deferred.has /\ thread.catcher = NoMethod
  BY <1>2 DEF ShadowInv, DeferredInv, CatcherInv
<1>4. /\ thread'.stack = thread.stack /\ thread'.deferred = thread.deferred
      /\ thread'.nesting = thread.nesting /\ thread'.firstEnter = thread.firstEnter
      /\ thread'.catcher = IF exc[1].catcher # 0 THEN frames[exc[1].catcher].m ELSE NoMethod
      /\ UNCHANGED <<stats, event>>
  BY <1>1, <1>2, <1>3, FoundIs
<1>5. CatcherInv' /\ DeferredInv'
  BY <1>2, <1>3, <1>4 DEF CatcherInv, DeferredInv, Held
<1>6. Mirrors(thread'.stack, frames', Shown')
  BY <1>2, <1>4 DEF ShadowInv
<1> QED BY <1>2, <1>3, <1>4, <1>5, <1>6 DEF ShadowInv

LEMMA UnwindShadow ==
  ASSUME TypeInv, ShadowInv, MonitorExceptions, UnwindFrame
  PROVE  ShadowInv'
<1> DEFINE n == Len(frames)
           m == frames[n].m
<1>1. RuntimeInv /\ Single /\ thread \in Thread /\ Timely(thread, now) /\ now \in Nat
  BY DEF TypeInv, ProfilerInv, Timely, ShadowInv, RuntimeInv
<1>2. /\ now' \in Nat /\ now' >= now /\ frames' = frames
      /\ n \in Nat /\ n \in 1..n /\ Single'
      /\ exc'[1].catcher = exc[1].catcher
      /\ Left = 0 /\ Left' = n /\ Unwinding /\ Unwinding'
      /\ Shown' = Shown \ {n}
      /\ n \in Shown <=> m \in Included
      /\ ExceptionUnwindFunctionEnter(m, now')
  BY <1>1, UnwindShown
<1>3. Shown \in SUBSET (1..n)
  BY <1>1, DispatchIs
<1>4. Timely(thread, now')
  BY <1>1, <1>2, TimelyLater
<1>5. m \in Included =>
        /\ Len(thread.stack) # 0 /\ Len(thread.stack) \in Nat
        /\ thread.stack[Len(thread.stack)].functionId = m
        /\ thread.stack[Len(thread.stack)].enterTsNs = frames[n].enter
        /\ frames[n].enter >= 1
  BY <1>1, <1>2, TopShown
<1> HIDE DEF m, n
<1>6. CASE m \notin Included
  <2>1. thread' = thread
    BY <1>2, <1>6 DEF ExceptionUnwindFunctionEnter
  <2>2. Shown' = Shown
    BY <1>2, <1>6
  <2>3. CatcherInv'
    BY <1>2, <2>1 DEF ShadowInv, CatcherInv
  <2>4. DeferredInv'
    BY <1>2, <1>6, <2>1 DEF ShadowInv, DeferredInv, Held, m
  <2>5. Mirrors(thread'.stack, frames', Shown')
    BY <1>2, <2>1, <2>2 DEF ShadowInv
  <2> QED BY <1>2, <2>3, <2>4, <2>5 DEF ShadowInv
<1>7. ASSUME m \in Included, Len(thread'.stack) = Len(thread.stack) - 1,
             \A k \in 1..Len(thread'.stack) : SameEntry(thread'.stack, thread.stack, k)
      PROVE  Mirrors(thread'.stack, frames', Shown')
  <2>1. n \in Shown /\ \A y \in Shown : y <= n
    BY <1>2, <1>3, <1>7
  <2>2. Mirrors(thread.stack, frames, Shown)
    BY DEF ShadowInv
  <2>3. \A i \in Shown \ {n} : SameFrame(frames', frames, i)
    BY <1>2 DEF SameFrame
  <2>4. Mirrors(thread'.stack, frames', Shown \ {n})
    BY <1>2, <1>3, <1>7, <2>1, <2>2, <2>3, MirrorsPop
  <2> QED BY <1>2, <2>4
<1>8. CASE m \in Included /\ thread.catcher = m
  <2>1. DeferUnwind(m, now')
    BY <1>2, <1>8 DEF ExceptionUnwindFunctionEnter
  <2>2. LET k == Len(thread.stack)
            e == thread.stack[k]
        IN  /\ k \in Nat /\ Len(thread'.stack) = k - 1
            /\ \A j \in 1..k - 1 :
                 /\ thread'.stack[j].functionId = thread.stack[j].functionId
                 /\ thread'.stack[j].enterTsNs = thread.stack[j].enterTsNs
            /\ thread'.catcher = thread.catcher
            /\ thread'.deferred.has = TRUE /\ thread'.deferred.functionId = m
            /\ thread'.deferred.entry.functionId = e.functionId
            /\ thread'.deferred.entry.enterTsNs = e.enterTsNs
    <3>1. Len(thread.stack) # 0
      BY <1>5, <1>8
    <3>2. HoldsBack(m, now')
      BY <1>2, <1>4, <2>1, <3>1, DeferIs
    <3> QED BY <3>2 DEF HoldsBack
  <2>3. CatcherInv'
    BY <1>2, <2>2 DEF ShadowInv, CatcherInv
  <2>4. DeferredInv'
    BY <1>2, <1>5, <1>8, <2>2 DEF DeferredInv
  <2>5. Mirrors(thread'.stack, frames', Shown')
    BY <1>7, <1>8, <2>2 DEF SameEntry
  <2> QED BY <1>2, <2>3, <2>4, <2>5 DEF ShadowInv
<1>9. CASE m \in Included /\ thread.catcher # m
  <2>1. FinishUnwound(m, now')
    BY <1>2, <1>9 DEF ExceptionUnwindFunctionEnter
  <2>2. Popped(m, now')
    BY <1>2, <1>4, <1>5, <1>9, <2>1, FinishIs
  <2>3. LET k == Len(thread.stack)
        IN  /\ k \in Nat /\ Len(thread'.stack) = k - 1
            /\ \A j \in 1..k - 1 :
                 /\ thread'.stack[j].functionId = thread.stack[j].functionId
                 /\ thread'.stack[j].enterTsNs = thread.stack[j].enterTsNs
            /\ thread'.catcher = thread.catcher /\ thread'.deferred = thread.deferred
    BY <2>2 DEF Popped
  <2>4. CatcherInv'
    BY <1>2, <2>3 DEF ShadowInv, CatcherInv
  <2>5. DeferredInv'
    BY <1>2, <1>9, <2>3 DEF ShadowInv, DeferredInv, Held, m
  <2>6. Mirrors(thread'.stack, frames', Shown')
    BY <1>7, <1>9, <2>3 DEF SameEntry
  <2> QED BY <1>2, <2>4, <2>5, <2>6 DEF ShadowInv
<1> QED BY <1>6, <1>8, <1>9

LEMMA UnwoundShadow ==
  ASSUME TypeInv, ShadowInv, FrameUnwound
  PROVE  ShadowInv'
<1> DEFINE n == Len(frames)
<1>1. RuntimeInv /\ Single
  BY DEF TypeInv, ShadowInv
<1>2. /\ thread' = thread /\ now \in Nat /\ now' = now
      /\ EndTopFrame(now) /\ frames # <<>> /\ n \in Nat /\ n >= 1
      /\ Single' /\ Left = n /\ Left' = 0 /\ Unwinding
      /\ exc[1].catcher \in 0..n - 1
      /\ \/ exc' = <<>> /\ ~Unwinding' /\ exc[1].catcher = 0
         \/ exc' # <<>> /\ Unwinding' /\ exc'[1].catcher = exc[1].catcher
      /\ Shown' = Shown /\ Shown = IncludedBelow
  BY <1>1, UnwoundShown
<1>3. \A i \in 1..n - 1 : frames'[i].m = frames[i].m /\ frames'[i].enter = frames[i].enter
  BY <1>1, <1>2, EndTopFrameIs
<1>4. exc[1].catcher # 0 => exc[1].catcher \in 1..n - 1
  BY <1>2
<1>5. CatcherInv'
  BY <1>2, <1>3, <1>4 DEF ShadowInv, CatcherInv
<1>6. DeferredInv'
  <2>1. ~Held'
    BY <1>2 DEF Held
  <2>2. thread.deferred.has => Unwinding'
    <3> SUFFICES ASSUME thread.deferred.has, exc[1].catcher = 0 PROVE FALSE
      BY <1>2
    <3>1. thread.catcher = NoMethod /\ thread.catcher \in Included
      BY DEF ShadowInv, CatcherInv, DeferredInv
    <3> QED BY <3>1, CallStackAssumption
  <2> QED BY <1>2, <2>1, <2>2 DEF ShadowInv, DeferredInv
<1>7. Mirrors(thread'.stack, frames', Shown')
  <2>1. \A i \in Shown : i \in 1..n - 1
    BY <1>2 DEF IncludedBelow
  <2> QED BY <1>2, <1>3, <2>1 DEF ShadowInv, Mirrors, Shows
<1> QED BY <1>2, <1>5, <1>6, <1>7 DEF ShadowInv

\* When the catcher's handler is entered its frame has its entry back.
LEMMA CaughtShadow ==
  ASSUME TypeInv, ShadowInv, MonitorExceptions, CatcherEntered
  PROVE  LET n == Len(frames)
             k == Len(thread.stack)
         IN  /\ ShadowInv'
             /\ thread.deferred.has <=> Held
             /\ Held <=> frames[n].m \in Included
             /\ thread.catcher = frames[n].m
             /\ k \in Nat
             /\ Held =>
                  /\ Len(thread'.stack) = k + 1
                  /\ \A j \in 1..k : thread'.stack[j] = thread.stack[j]
                  /\ thread'.stack[k + 1] = thread.deferred.entry
             /\ ~Held => thread'.stack = thread.stack
             /\ thread'.deferred.has = FALSE
             /\ thread'.nesting = thread.nesting /\ thread'.firstEnter = thread.firstEnter
             /\ UNCHANGED <<stats, event>>
<1> DEFINE n == Len(frames)
           k == Len(thread.stack)
<1>1. RuntimeInv /\ Single /\ thread \in Thread
  BY DEF TypeInv, ProfilerInv, Timely, ShadowInv
<1>2. /\ frames' = frames /\ n \in Nat /\ n \in 1..n /\ Single'
      /\ exc[1].catcher = n /\ Left = n /\ Left' = 0 /\ Unwinding /\ ~Unwinding'
      /\ Shown \subseteq 1..n - 1
      /\ Shown' = IF frames[n].m \in Included THEN Shown \cup {n} ELSE Shown
      /\ ExceptionCatcherEnter
  BY <1>1, CaughtShown
<1>3. thread.catcher = frames[n].m
  BY <1>2 DEF ShadowInv, CatcherInv
<1>4. (thread.deferred.has <=> Held) /\ (Held <=> frames[n].m \in Included)
  <2>1. Held <=> frames[n].m \in Included
    BY <1>2, <1>3 DEF Held
  <2>2. thread.deferred.has => frames[n].m \in Included
    BY <1>3 DEF ShadowInv, DeferredInv
  <2>3. Held => thread.deferred.has
    BY DEF ShadowInv, DeferredInv
  <2> QED BY <2>1, <2>2, <2>3
<1>5. /\ k \in Nat
      /\ thread.deferred.has =>
           /\ Len(thread'.stack) = k + 1
           /\ \A j \in 1..k : thread'.stack[j] = thread.stack[j]
           /\ thread'.stack[k + 1] = thread.deferred.entry
      /\ ~thread.deferred.has => thread'.stack = thread.stack
      /\ thread'.catcher = NoMethod /\ thread'.deferred.has = FALSE
      /\ thread'.nesting = thread.nesting /\ thread'.firstEnter = thread.firstEnter
      /\ UNCHANGED <<stats, event>>
  BY <1>1, <1>2, CatcherEnterIs
<1>6. CatcherInv' /\ DeferredInv'
  BY <1>2, <1>5 DEF CatcherInv, DeferredInv, Held
<1>7. Mirrors(thread'.stack, frames', Shown')
  <2>1. Mirrors(thread.stack, frames, Shown)
    BY DEF ShadowInv
  <2>2. CASE Held
    <3>1. /\ thread.deferred.entry.functionId = frames[n].m
          /\ thread.deferred.entry.enterTsNs = frames[n].enter
      BY <1>2, <1>3, <2>2 DEF ShadowInv, DeferredInv
    <3>2. Shown \in SUBSET (1..n) /\ \A y \in Shown : y < n
      BY <1>2
    <3>3. /\ Len(thread'.stack) = Len(thread.stack) + 1
          /\ \A j \in 1..Len(thread.stack) : SameEntry(thread'.stack, thread.stack, j)
          /\ Shows(thread'.stack, Len(thread.stack) + 1, frames', n)
      BY <1>2, <1>4, <1>5, <2>2, <3>1 DEF SameEntry, Shows
    <3>4. \A i \in Shown : SameFrame(frames', frames, i)
      BY <1>2 DEF SameFrame
    <3>5. Shown' = Shown \cup {n}
      BY <1>2, <1>4, <2>2
    <3> HIDE DEF n, k
    <3>6. Mirrors(thread'.stack, frames', Shown \cup {n})
      BY <1>2, <2>1, <3>2, <3>3, <3>4, MirrorsPush
    <3> QED BY <3>5, <3>6
  <2>3. CASE ~Held
    <3>1. thread'.stack = thread.stack /\ frames' = frames /\ Shown' = Shown
      BY <1>2, <1>4, <1>5, <2>3
    <3> QED BY <2>1, <3>1
  <2> QED BY <2>2, <2>3
<1> QED BY <1>2, <1>3, <1>4, <1>5, <1>6, <1>7 DEF ShadowInv

Faithful == MonitorExceptions /\ ~NestedThrows

LEMMA ShadowStep == Faithful /\ TypeInv /\ ShadowInv /\ [Next]_vars => ShadowInv'
<1> SUFFICES ASSUME Faithful, TypeInv, ShadowInv, [Next]_vars PROVE ShadowInv'
  OBVIOUS
<1>1. CASE UNCHANGED vars
  BY <1>1 DEF vars, ShadowInv, Single, CatcherInv, DeferredInv, Held, Left, Unwinding, Shown
<1> QED BY <1>1, CallShadow, ReturnShadow, ThrowShadow, FoundShadow, UnwindShadow, UnwoundShadow,
           CaughtShadow DEF Next, Faithful

LEMMA InitShadow == Init => ShadowInv
<1> SUFFICES ASSUME Init PROVE ShadowInv
  OBVIOUS
<1>1. /\ frames = <<>> /\ exc = <<>> /\ thread.stack = <<>> /\ thread.catcher = NoMethod
      /\ thread.deferred.has = FALSE
  BY DEF Init, NewThread, NoDeferred
<1>2. Len(exc) = 0 /\ Len(frames) = 0 /\ Len(thread.stack) = 0
  BY <1>1, EmptySeq
<1>3. Shown = {} /\ Left = 0 /\ ~Unwinding
  BY <1>1, <1>2 DEF Shown, Left, Unwinding
<1>4. Cardinality(Shown) = 0
  BY <1>3, FS_EmptySet
<1> QED BY <1>1, <1>2, <1>3, <1>4 DEF ShadowInv, Single, CatcherInv, DeferredInv, Held, Mirrors

LEMMA ShadowInvHolds ==
  ASSUME Faithful
  PROVE  Spec => [](TypeInv /\ ShadowInv)
<1>1. TypeInv /\ ShadowInv /\ [Next]_vars => (TypeInv /\ ShadowInv)'
  BY ShadowStep, RuntimeStep, ProfilerStep DEF TypeInv
<1> QED BY <1>1, InitShadow, InitTypeInv, PTL DEF Spec

(* Where the CLR reports exceptions and no handler throws, the shadow stack *)
(* is the stack of the included activations that are not being unwound,     *)
(* entry by entry, with the times at which they began; while the catcher's  *)
(* frame is being unwound, the entry held back is that frame's.             *)
THEOREM ShadowMirrors ==
  ASSUME MonitorExceptions, ~NestedThrows
  PROVE  Spec => []ShadowMirrorsRuntime
<1>1. Faithful
  BY DEF Faithful
<1>2. TypeInv /\ ShadowInv => ShadowMirrorsRuntime
  <2> SUFFICES ASSUME TypeInv, ShadowInv PROVE ShadowMirrorsRuntime
    OBVIOUS
  <2>1. RuntimeInv /\ Single /\ Mirrors(thread.stack, frames, Shown)
    BY DEF TypeInv, ShadowInv
  <2>2. Visible = Shown
    BY <2>1, ShownIsVisible
  <2>3. ASSUME NEW i \in DOMAIN exc,
               exc[i].phase = "finally", exc[i].at = exc[i].catcher, frames[exc[i].at].m \in Included
        PROVE  thread.deferred.has /\ thread.deferred.entry.enterTsNs = frames[exc[i].at].enter
    <3>1. DOMAIN exc = 1..Len(exc) /\ Len(exc) \in Nat /\ (exc = <<>> <=> Len(exc) = 0)
      BY <2>1, EmptyIffLen, LenProperties DEF RuntimeInv
    <3>2. Dispatching
      BY <2>3, <3>1 DEF Dispatching
    <3>3. Len(exc) = 1 /\ exc # <<>> /\ exc[1].at \in 1..Len(frames)
      BY <2>1, <3>2, DispatchIs
    <3>4. i = 1
      BY <3>1, <3>3
    <3>5. Left = exc[1].at /\ Left # 0 /\ Unwinding /\ exc[1].catcher # 0
      BY <2>3, <3>3, <3>4 DEF Left, Unwinding
    <3>6. Held
      BY <2>3, <3>4, <3>5 DEF ShadowInv, CatcherInv, Held
    <3> QED BY <3>4, <3>5, <3>6 DEF ShadowInv, DeferredInv
  <2> QED BY <2>1, <2>2, <2>3 DEF ShadowMirrorsRuntime, Mirrors, Shows
<1> QED BY <1>1, <1>2, ShadowInvHolds, PTL

(* Under the same conditions every call that returns normally is reported   *)
(* with its own duration, whatever was thrown, unwound and caught above it.  *)
THEOREM DeltaTimes ==
  ASSUME MonitorExceptions, ~NestedThrows
  PROVE  Spec => DeltaTimeExact
<1> DEFINE Exact ==
      (/\ "leave" \in Events
       /\ exc' = exc /\ Len(frames') < Len(frames)
       /\ Last(frames).m \in Included)
      => event'.deltaNs = now' - Last(frames).enter
<1>1. Faithful
  BY DEF Faithful
<1>2. TypeInv /\ ShadowInv /\ [Next]_vars => [Exact]_vars
  <2> SUFFICES ASSUME TypeInv, ShadowInv, Next, "leave" \in Events,
                      exc' = exc, Len(frames') < Len(frames), Last(frames).m \in Included
               PROVE  event'.deltaNs = now' - Last(frames).enter
    OBVIOUS
  <2>0. RuntimeInv /\ Single /\ Len(frames) \in Nat /\ ~NestedThrows
    BY DispatchIs DEF TypeInv, ShadowInv
  <2>1. ~ \E m \in Methods : Call(m)
    <3> DEFINE n == Len(frames)
               p == Len(frames')
    <3>1. ASSUME NEW m \in Methods, Call(m) PROVE p = n + 1
      BY <2>0, <3>1, CallShown
    <3>2. n \in Nat /\ p < n
      BY <2>0
    <3> HIDE DEF n, p
    <3> QED BY <3>1, <3>2
  <2>2. ~ \E c \in 0..Len(frames) : Throw(c)
    <3>1. ASSUME NEW c \in 0..Len(frames), Throw(c) PROVE exc' # exc
      BY <2>0, <3>1, ThrowShown
    <3> QED BY <3>1
  <2>3. ~CatcherFound
    BY <2>0 DEF CatcherFound
  <2>4. ~UnwindFrame
    BY <2>0 DEF UnwindFrame
  <2>5. ~FrameUnwound
    BY <2>0, UnwoundShown
  <2>6. ~CatcherEntered
    BY <2>0 DEF CatcherEntered
  <2>7. Return
    BY <2>1, <2>2, <2>3, <2>4, <2>5, <2>6 DEF Next
  <2>8. /\ now' \in Nat /\ now' >= now /\ Last(frames) = frames[Len(frames)]
        /\ Len(frames) \in Shown <=> frames[Len(frames)].m \in Included
        /\ IF frames[Len(frames)].m \in Included
           THEN ProcessLeave(frames[Len(frames)].m, now') ELSE UNCHANGED <<thread, stats, event>>
    BY <2>0, <2>7, ReturnShown
  <2> DEFINE f == frames[Len(frames)]
             k == Len(thread.stack)
  <2>9. /\ Len(frames) \in Shown /\ ProcessLeave(f.m, now')
    BY <2>8
  <2>10. k # 0 /\ thread.stack[k].enterTsNs = f.enter /\ f.enter >= 1 /\ f.enter \in Nat
    BY <2>0, <2>9, TopShown
  <2>11. Timely(thread, now') /\ thread \in Thread
    BY <2>0, <2>8, TimelyLater DEF TypeInv, ProfilerInv, Timely, RuntimeInv
  <2>12. event'.deltaNs = InclusiveNs(thread.stack[k], now')
    BY <2>8, <2>9, <2>10, <2>11, LeaveIs
  <2> QED BY <2>8, <2>10, <2>12 DEF InclusiveNs
<1> QED BY <1>1, <1>2, ShadowInvHolds, PTL DEF Spec, DeltaTimeExact

-----------------------------------------------------------------------------
(* No call is lost and none is counted twice.                              *)

\* The entries of m on the stack st, the activations of m in fr.
EntriesOf(st, m) == {k \in 1..Len(st) : st[k].functionId = m}
FramesOf(fr, m) == {i \in 1..Len(fr) : fr[i].m = m}

LEMMA OneMore ==
  ASSUME NEW n \in Nat, NEW A \in SUBSET (1..n)
  PROVE  /\ IsFiniteSet(A) /\ Cardinality(A) \in Nat
         /\ Cardinality(A \cup {n + 1}) = Cardinality(A) + 1
<1>1. IsFiniteSet(1..n)
  BY FS_Interval
<1>2. IsFiniteSet(A)
  BY <1>1, FS_Subset
<1>3. n + 1 \notin A
  OBVIOUS
<1> QED BY <1>2, <1>3, FS_CardinalityType, FS_AddElement

AtTop(st, m) == st[Len(st)].functionId = m

\* How many entries of m there are when one is pushed; read backwards, popped.
LEMMA EntriesGrow ==
  ASSUME NEW st, NEW st2, Len(st) \in Nat, Len(st2) = Len(st) + 1,
         \A j \in 1..Len(st) : SameEntry(st2, st, j), NEW m
  PROVE  /\ Cardinality(EntriesOf(st, m)) \in Nat
         /\ Cardinality(EntriesOf(st2, m)) =
              Cardinality(EntriesOf(st, m)) + (IF AtTop(st2, m) THEN 1 ELSE 0)
<1> DEFINE A == EntriesOf(st, m)
           B == EntriesOf(st2, m)
           k == Len(st)
<1>1. A \in SUBSET (1..k) /\ k \in Nat
  BY DEF EntriesOf
<1>2. \A j \in 1..k + 1 : j \in 1..k \/ j = k + 1
  BY <1>1
<1>3. k + 1 \in 1..k + 1 /\ \A j \in 1..k : j \in 1..k + 1
  BY <1>1
<1>4. B = IF AtTop(st2, m) THEN A \cup {k + 1} ELSE A
  <2>1. A = {j \in 1..k : st[j].functionId = m} /\ B = {j \in 1..k + 1 : st2[j].functionId = m}
    BY DEF EntriesOf
  <2>2. \A j \in 1..k : st2[j].functionId = st[j].functionId
    BY DEF SameEntry
  <2>3. AtTop(st2, m) <=> st2[k + 1].functionId = m
    BY DEF AtTop
  <2> HIDE DEF A, B, k
  <2> QED BY <1>2, <1>3, <2>1, <2>2, <2>3
<1> HIDE DEF A, B, k
<1>5. Cardinality(A) \in Nat /\ Cardinality(A \cup {k + 1}) = Cardinality(A) + 1
  BY <1>1, OneMore
<1>6. CASE AtTop(st2, m)
  BY <1>4, <1>5, <1>6 DEF A, B
<1>7. CASE ~AtTop(st2, m)
  BY <1>4, <1>5, <1>7 DEF A, B
<1> QED BY <1>6, <1>7

LEMMA FramesGrow ==
  ASSUME NEW k \in Nat, NEW fr, Len(fr) = k, NEW fr2, Len(fr2) = k + 1,
         \A j \in 1..k : fr2[j].m = fr[j].m, NEW m
  PROVE  /\ Cardinality(FramesOf(fr, m)) \in Nat
         /\ Cardinality(FramesOf(fr2, m)) =
              Cardinality(FramesOf(fr, m)) + (IF fr2[k + 1].m = m THEN 1 ELSE 0)
<1> DEFINE A == FramesOf(fr, m)
           B == FramesOf(fr2, m)
<1>1. A \in SUBSET (1..k)
  BY DEF FramesOf
<1>2. \A j \in 1..k + 1 : j \in 1..k \/ j = k + 1
  OBVIOUS
<1>3. k + 1 \in 1..k + 1 /\ \A j \in 1..k : j \in 1..k + 1
  OBVIOUS
<1>4. B = IF fr2[k + 1].m = m THEN A \cup {k + 1} ELSE A
  BY <1>2, <1>3 DEF FramesOf
<1> HIDE DEF A, B
<1>5. Cardinality(A) \in Nat /\ Cardinality(A \cup {k + 1}) = Cardinality(A) + 1
  BY <1>1, OneMore
<1>6. CASE fr2[k + 1].m = m
  BY <1>4, <1>5, <1>6 DEF A, B
<1>7. CASE fr2[k + 1].m # m
  BY <1>4, <1>5, <1>7 DEF A, B
<1> QED BY <1>6, <1>7

LEMMA TallyIs ==
  ASSUME NEW tab \in [MethodIds -> Tallies], NEW m \in MethodIds, NEW x, NEW y, NEW a \in MethodIds
  PROVE  LET new == Tally(tab, m, x, y)
         IN  /\ a = m => /\ new[a].callCount = tab[a].callCount + 1
                         /\ new[a].totalInclusiveNs = tab[a].totalInclusiveNs + x
                         /\ new[a].totalSelfNs = tab[a].totalSelfNs + y
             /\ a # m => new[a] = tab[a]
             /\ tab[a].callCount \in Nat /\ tab[a].totalInclusiveNs \in Nat /\ tab[a].totalSelfNs \in Nat
BY DEF Tally, Tallies

\* A table with one more call of m: for `a' it counts one more if `a' is m.
LEMMA OneTallied ==
  ASSUME NEW tab, DOMAIN tab = MethodIds, NEW m \in MethodIds, NEW a \in MethodIds,
         tab[a].callCount \in Nat, NEW x, NEW y
  PROVE  Tally(tab, m, x, y)[a].callCount = tab[a].callCount + (IF m = a THEN 1 ELSE 0)
<1>1. CASE m = a
  BY <1>1 DEF Tally
<1>2. CASE m # a
  <2>1. Tally(tab, m, x, y)[a] = tab[a]
    BY <1>2 DEF Tally
  <2> QED BY <1>2, <2>1
<1> QED BY <1>1, <1>2

\* The calls of m that are still to be reported, and those that have happened.
Pending(m) ==
  Cardinality(EntriesOf(thread.stack, m))
    + (IF thread.deferred.has /\ thread.deferred.functionId = m THEN 1 ELSE 0)
Happened(m) == truth[m].callCount + Cardinality(FramesOf(frames, m))

\* The table `tab' has the calls that are not pending.
Accounts(tab) == \A m \in Included : tab[m].callCount + Pending(m) = Happened(m)

CountInv == "method_stats" \in Events => Accounts(stats)

\* Counts are numbers.
LEMMA CountTypes ==
  ASSUME TypeInv, NEW m \in Included
  PROVE  /\ m \in MethodIds /\ m \in Methods /\ m # NoMethod
         /\ DOMAIN stats = MethodIds
         /\ stats[m].callCount \in Nat /\ truth[m].callCount \in Nat
         /\ Cardinality(EntriesOf(thread.stack, m)) \in Nat /\ Pending(m) \in Nat
         /\ Cardinality(FramesOf(frames, m)) \in Nat
<1>1. m \in MethodIds /\ m \in Methods /\ m # NoMethod
  BY CallStackAssumption DEF MethodIds
<1>2. DOMAIN stats = MethodIds /\ stats[m].callCount \in Nat /\ truth[m].callCount \in Nat
  BY <1>1 DEF TypeInv, RuntimeInv, ProfilerInv, Output, Tallies
<1>3. Len(thread.stack) \in Nat /\ EntriesOf(thread.stack, m) \in SUBSET (1..Len(thread.stack))
  BY ThreadFields DEF TypeInv, ProfilerInv, Timely, EntriesOf
<1>4. Len(frames) \in Nat /\ FramesOf(frames, m) \in SUBSET (1..Len(frames))
  BY RuntimeTypes DEF TypeInv, FramesOf
<1>5. /\ Cardinality(EntriesOf(thread.stack, m)) \in Nat
      /\ Cardinality(FramesOf(frames, m)) \in Nat
  BY <1>3, <1>4, OneMore
<1>6. Pending(m) \in Nat
  BY <1>5 DEF Pending
<1> QED BY <1>1, <1>2, <1>5, <1>6

LEMMA CallCount ==
  ASSUME TypeInv, ShadowInv, NEW c \in Methods, Call(c), NEW m \in Included
  PROVE  /\ Pending(m)' = Pending(m) + (IF c = m THEN 1 ELSE 0)
         /\ Happened(m)' = Happened(m) + (IF c = m THEN 1 ELSE 0)
<1> DEFINE n == Len(frames)
<1>1. RuntimeInv /\ Single /\ thread \in Thread /\ n \in Nat
  BY RuntimeTypes DEF TypeInv, ProfilerInv, Timely, ShadowInv
<1>2. /\ now' \in Nat
      /\ Len(frames') = n + 1
      /\ \A i \in 1..n : frames'[i] = frames[i]
      /\ frames'[n + 1].m = c
      /\ IF c \in Included THEN EnterStub(c, now') ELSE UNCHANGED <<thread, stats, event>>
  BY <1>1, CallShown
<1>3. truth' = truth
  BY DEF Call
<1>4. Cardinality(FramesOf(frames', m)) = Cardinality(FramesOf(frames, m)) + (IF c = m THEN 1 ELSE 0)
  BY <1>1, <1>2, FramesGrow, SMTT(30)
<1>5. Happened(m)' = Happened(m) + (IF c = m THEN 1 ELSE 0)
  BY <1>3, <1>4, CountTypes DEF Happened
<1>6. CASE c \in Included
  <2>1. LET k == Len(thread.stack)
        IN  /\ k \in Nat /\ Len(thread'.stack) = k + 1
            /\ \A j \in 1..k : thread'.stack[j] = thread.stack[j]
            /\ thread'.stack[k + 1] = [functionId |-> c, enterTsNs |-> now', childrenTimeNs |-> 0]
            /\ thread'.deferred = thread.deferred
    BY <1>1, <1>2, <1>6, EnterIs
  <2>2. Cardinality(EntriesOf(thread'.stack, m)) =
          Cardinality(EntriesOf(thread.stack, m)) + (IF c = m THEN 1 ELSE 0)
    <3>1. /\ Len(thread.stack) \in Nat /\ Len(thread'.stack) = Len(thread.stack) + 1
          /\ \A j \in 1..Len(thread.stack) : SameEntry(thread'.stack, thread.stack, j)
          /\ AtTop(thread'.stack, m) <=> c = m
      BY <2>1 DEF SameEntry, AtTop
    <3>2. Cardinality(EntriesOf(thread'.stack, m)) =
            Cardinality(EntriesOf(thread.stack, m)) + (IF AtTop(thread'.stack, m) THEN 1 ELSE 0)
      BY <3>1, EntriesGrow
    <3> QED BY <3>1, <3>2
  <2> QED BY <1>5, <2>1, <2>2, CountTypes, SMTT(30) DEF Pending
<1>7. CASE c \notin Included
  <2>1. thread' = thread /\ c # m
    BY <1>2, <1>7
  <2>2. Pending(m)' = Pending(m)
    BY <2>1 DEF Pending
  <2> QED BY <1>5, <2>1, <2>2, CountTypes
<1> QED BY <1>6, <1>7

\* The top entry leaves the stack.
LEMMA PoppedCount ==
  ASSUME NEW f, NEW t, Popped(f, t), NEW m
  PROVE  Cardinality(EntriesOf(thread.stack, m)) =
           Cardinality(EntriesOf(thread'.stack, m))
             + (IF AtTop(thread.stack, m) THEN 1 ELSE 0)
         /\ Cardinality(EntriesOf(thread'.stack, m)) \in Nat
<1>1. /\ Len(thread'.stack) \in Nat /\ Len(thread.stack) = Len(thread'.stack) + 1
      /\ \A j \in 1..Len(thread'.stack) : SameEntry(thread.stack, thread'.stack, j)
  <2> DEFINE k == Len(thread.stack)
             p == Len(thread'.stack)
  <2>1. k \in Nat /\ k \in 1..k /\ p = k - 1
    BY DEF Popped
  <2>2. \A j \in 1..k - 1 : SameEntry(thread.stack, thread'.stack, j)
    BY DEF Popped, SameEntry
  <2> HIDE DEF k, p
  <2>3. p \in Nat /\ k = p + 1 /\ \A j \in 1..p : SameEntry(thread.stack, thread'.stack, j)
    BY <2>1, <2>2
  <2> QED BY <2>3 DEF k, p
<1> QED BY <1>1, EntriesGrow, ZenonT(60)

\* The top frame ends.
LEMMA EndedCount ==
  ASSUME RuntimeInv, frames # <<>>, NEW t \in Nat, t >= now, EndTopFrame(t), NEW m \in Included
  PROVE  Happened(m)' = Happened(m)
<1> DEFINE k == Len(frames) - 1
           f == frames[k + 1]
<1>1. /\ k \in Nat /\ k + 1 = Len(frames) /\ Len(frames') = k /\ f \in Frame
      /\ \A i \in 1..k : frames[i].m = frames'[i].m
      /\ truth' = IF f.m \in Included
                  THEN Tally(truth, f.m, t - f.enter, (t - f.enter) - f.kids)
                  ELSE truth
  BY EndTopFrameIs
<1>2. Cardinality(FramesOf(frames, m)) = Cardinality(FramesOf(frames', m)) + (IF f.m = m THEN 1 ELSE 0)
      /\ Cardinality(FramesOf(frames', m)) \in Nat
  <2> HIDE DEF k
  <2> QED BY <1>1, FramesGrow
<1>3. m \in MethodIds /\ f.m \in MethodIds /\ truth \in [MethodIds -> Tallies]
  BY <1>1, CallStackAssumption DEF MethodIds, Frame, RuntimeInv
<1> HIDE DEF f, k
<1>4. truth[m].callCount \in Nat
  BY <1>3 DEF Tallies
<1>5. truth'[m].callCount = truth[m].callCount + (IF f.m = m THEN 1 ELSE 0)
  <2>1. CASE f.m = m
    BY <1>1, <1>3, <2>1, TallyIs
  <2>2. CASE f.m # m
    BY <1>1, <1>3, <1>4, <2>2, TallyIs
  <2> QED BY <2>1, <2>2
<1> QED BY <1>2, <1>4, <1>5 DEF Happened

\* The call that returns is reported.
ReturnReported(m) == frames[Len(frames)].m = m

LEMMA ReturnCount ==
  ASSUME TypeInv, ShadowInv, Return, NEW m \in Included
  PROVE  /\ Happened(m)' = Happened(m)
         /\ Pending(m) = Pending(m)' + (IF ReturnReported(m) THEN 1 ELSE 0)
         /\ Pending(m)' \in Nat
<1> DEFINE f == frames[Len(frames)]
           k == Len(thread.stack)
<1>1. RuntimeInv /\ Single /\ Timely(thread, now) /\ now \in Nat
  BY DEF TypeInv, ProfilerInv, ShadowInv, RuntimeInv
<1>2. /\ now' \in Nat /\ now' >= now /\ EndTopFrame(now') /\ frames # <<>>
      /\ Len(frames) \in Shown <=> f.m \in Included
      /\ IF f.m \in Included THEN ProcessLeave(f.m, now') ELSE UNCHANGED <<thread, stats, event>>
  BY <1>1, ReturnShown
<1>3. Happened(m)' = Happened(m)
  BY <1>1, <1>2, EndedCount
<1>4. CASE f.m \in Included
  <2>1. k # 0 /\ thread.stack[k].functionId = f.m
    BY <1>1, <1>2, <1>4, TopShown
  <2>2. Timely(thread, now')
    BY <1>1, <1>2, TimelyLater
  <2>3. Popped(f.m, now')
    BY <1>2, <1>4, <2>1, <2>2, LeaveIs
  <2>4. /\ Cardinality(EntriesOf(thread.stack, m)) =
             Cardinality(EntriesOf(thread'.stack, m)) + (IF f.m = m THEN 1 ELSE 0)
        /\ Cardinality(EntriesOf(thread'.stack, m)) \in Nat
    BY <2>1, <2>3, PoppedCount DEF AtTop
  <2>5. thread'.deferred = thread.deferred
    BY <2>3 DEF Popped
  <2>6. ReturnReported(m) <=> f.m = m
    BY DEF ReturnReported
  <2> HIDE DEF f, k
  <2> QED BY <1>3, <2>4, <2>5, <2>6 DEF Pending
<1>5. CASE f.m \notin Included
  <2>1. thread' = thread /\ ~ReturnReported(m)
    BY <1>2, <1>5 DEF ReturnReported
  <2>2. Pending(m)' = Pending(m)
    BY <2>1 DEF Pending
  <2> QED BY <1>3, <2>1, <2>2, CountTypes
<1> QED BY <1>4, <1>5

\* The frame to be unwound is reported, unless it is held back; then the one
\* that was held back is, and it is of the same method.
UnwindReported(m) ==
  frames[Len(frames)].m = m /\ (m # thread.catcher \/ thread.deferred.has)

LEMMA UnwindCount ==
  ASSUME TypeInv, ShadowInv, MonitorExceptions, UnwindFrame, NEW m \in Included
  PROVE  /\ Happened(m)' = Happened(m)
         /\ Pending(m) = Pending(m)' + (IF UnwindReported(m) THEN 1 ELSE 0)
         /\ Pending(m)' \in Nat
<1> DEFINE c == frames[Len(frames)].m
           k == Len(thread.stack)
           d == thread.deferred
<1>1. /\ RuntimeInv /\ Single /\ Timely(thread, now) /\ now \in Nat /\ thread \in Thread
  BY DEF TypeInv, ProfilerInv, ShadowInv, RuntimeInv, Timely
<1>2. /\ now' \in Nat /\ now' >= now /\ UNCHANGED <<frames, truth>>
      /\ Len(frames) \in Shown <=> c \in Included
      /\ ExceptionUnwindFunctionEnter(c, now')
  BY <1>1, UnwindShown
<1>3. Happened(m)' = Happened(m)
  BY <1>2 DEF Happened
<1>4. Timely(thread, now')
  BY <1>1, <1>2, TimelyLater
<1>5. c \in Included => k # 0 /\ thread.stack[k].functionId = c
  BY <1>1, <1>2, TopShown
<1>6. UnwindReported(m) <=> c = m /\ (m # thread.catcher \/ d.has)
  BY DEF UnwindReported
<1>7. CASE c \notin Included
  <2>1. thread' = thread /\ ~UnwindReported(m)
    BY <1>2, <1>6, <1>7 DEF ExceptionUnwindFunctionEnter
  <2>2. Pending(m)' = Pending(m)
    BY <2>1 DEF Pending
  <2> QED BY <1>3, <2>1, <2>2, CountTypes
<1>8. CASE c \in Included /\ thread.catcher = c
  <2>1. DeferUnwind(c, now')
    BY <1>2, <1>8 DEF ExceptionUnwindFunctionEnter
  <2>2. HoldsBack(c, now')
    BY <1>2, <1>4, <1>5, <1>8, <2>1, DeferIs
  <2>3. thread'.deferred.has /\ thread'.deferred.functionId = c
    BY <2>2 DEF HoldsBack
  <2>4. /\ Cardinality(EntriesOf(thread.stack, m)) =
             Cardinality(EntriesOf(thread'.stack, m)) + (IF c = m THEN 1 ELSE 0)
        /\ Cardinality(EntriesOf(thread'.stack, m)) \in Nat
    <3>1. /\ Len(thread'.stack) \in Nat /\ Len(thread.stack) = Len(thread'.stack) + 1
          /\ \A j \in 1..Len(thread'.stack) : SameEntry(thread.stack, thread'.stack, j)
      <4> DEFINE p == Len(thread'.stack)
      <4>1. k \in Nat /\ k \in 1..k /\ p = k - 1
        BY <2>2 DEF HoldsBack
      <4>2. \A j \in 1..k - 1 : SameEntry(thread.stack, thread'.stack, j)
        BY <2>2 DEF HoldsBack, SameEntry
      <4> HIDE DEF k, p
      <4>3. p \in Nat /\ k = p + 1 /\ \A j \in 1..p : SameEntry(thread.stack, thread'.stack, j)
        BY <4>1, <4>2
      <4> QED BY <4>3 DEF k, p
    <3>2. AtTop(thread.stack, m) <=> c = m
      BY <1>5, <1>8 DEF AtTop
    <3> QED BY <3>1, <3>2, EntriesGrow, ZenonT(60)
  <2>5. d.has => d.functionId = c
    BY <1>8 DEF ShadowInv, DeferredInv
  <2>6. UnwindReported(m) <=> c = m /\ d.has
    BY <1>6, <1>8
  <2> HIDE DEF c, k
  <2> QED BY <1>3, <2>3, <2>4, <2>5, <2>6 DEF Pending
<1>9. CASE c \in Included /\ thread.catcher # c
  <2>1. FinishUnwound(c, now')
    BY <1>2, <1>9 DEF ExceptionUnwindFunctionEnter
  <2>2. Popped(c, now')
    BY <1>2, <1>4, <1>5, <1>9, <2>1, FinishIs
  <2>3. /\ Cardinality(EntriesOf(thread.stack, m)) =
             Cardinality(EntriesOf(thread'.stack, m)) + (IF c = m THEN 1 ELSE 0)
        /\ Cardinality(EntriesOf(thread'.stack, m)) \in Nat
    BY <1>5, <1>9, <2>2, PoppedCount DEF AtTop
  <2>4. thread'.deferred = thread.deferred
    BY <2>2 DEF Popped
  <2>5. UnwindReported(m) <=> c = m
    BY <1>6, <1>9
  <2> HIDE DEF c, k
  <2> QED BY <1>3, <2>3, <2>4, <2>5 DEF Pending
<1> QED BY <1>7, <1>8, <1>9

LEMMA CaughtCount ==
  ASSUME TypeInv, ShadowInv, MonitorExceptions, CatcherEntered, NEW m \in Included
  PROVE  Pending(m)' = Pending(m) /\ Happened(m)' = Happened(m)
<1> DEFINE d == thread.deferred
<1>1. UNCHANGED <<frames, truth>>
  BY DEF CatcherEntered
<1>2. /\ d.has <=> Held
      /\ Len(thread.stack) \in Nat
      /\ Held =>
           /\ Len(thread'.stack) = Len(thread.stack) + 1
           /\ \A j \in 1..Len(thread.stack) : thread'.stack[j] = thread.stack[j]
           /\ thread'.stack[Len(thread.stack) + 1] = d.entry
      /\ ~Held => thread'.stack = thread.stack
      /\ thread'.deferred.has = FALSE
  BY CaughtShadow
<1>3. Happened(m)' = Happened(m)
  BY <1>1 DEF Happened
<1>4. CASE Held
  <2>1. /\ Len(thread'.stack) = Len(thread.stack) + 1
        /\ \A j \in 1..Len(thread.stack) : SameEntry(thread'.stack, thread.stack, j)
        /\ AtTop(thread'.stack, m) <=> d.entry.functionId = m
    BY <1>2, <1>4 DEF SameEntry, AtTop
  <2>2. Cardinality(EntriesOf(thread'.stack, m)) =
          Cardinality(EntriesOf(thread.stack, m)) + (IF AtTop(thread'.stack, m) THEN 1 ELSE 0)
    BY <1>2, <2>1, EntriesGrow
  <2>3. d.functionId = d.entry.functionId
    BY <1>2, <1>4 DEF ShadowInv, DeferredInv
  <2>4. Cardinality(EntriesOf(thread.stack, m)) \in Nat
    BY CountTypes
  <2> QED BY <1>2, <1>3, <1>4, <2>1, <2>2, <2>3, <2>4 DEF Pending
<1>5. CASE ~Held
  BY <1>2, <1>3, <1>5 DEF Pending
<1> QED BY <1>4, <1>5

\* The other steps report nothing, and nothing is called or held back.
LEMMA OtherCount ==
  ASSUME TypeInv, ShadowInv, Faithful,
         (\E c \in 0..Len(frames) : Throw(c)) \/ CatcherFound \/ FrameUnwound \/ UNCHANGED vars,
         NEW m \in Included
  PROVE  Pending(m)' = Pending(m) /\ Happened(m)' = Happened(m)
<1>1. RuntimeInv /\ Single
  BY DEF TypeInv, ShadowInv
<1>2. CASE \E c \in 0..Len(frames) : Throw(c)
  BY <1>2 DEF Throw, Pending, Happened
<1>3. CASE CatcherFound
  <2>1. UNCHANGED <<frames, truth>>
    BY <1>3 DEF CatcherFound
  <2>2. thread'.stack = thread.stack /\ thread'.deferred = thread.deferred
    BY <1>3, FoundShadow DEF Faithful
  <2> QED BY <2>1, <2>2 DEF Pending, Happened
<1>4. CASE FrameUnwound
  <2>1. EndTopFrame(now) /\ frames # <<>> /\ now \in Nat /\ thread' = thread
    BY <1>1, <1>4, UnwoundShown
  <2>2. Happened(m)' = Happened(m)
    BY <1>1, <2>1, EndedCount
  <2> QED BY <2>1, <2>2 DEF Pending
<1>5. CASE UNCHANGED vars
  BY <1>5 DEF vars, Pending, Happened
<1> QED BY <1>2, <1>3, <1>4, <1>5

\* What the tallies get from a return, and from an unwind callback.
LEMMA ReturnTallied ==
  ASSUME TypeInv, ShadowInv, Return, "method_stats" \in Events, NEW m \in Included
  PROVE  stats'[m].callCount = stats[m].callCount + (IF ReturnReported(m) THEN 1 ELSE 0)
<1> DEFINE f == frames[Len(frames)]
           e == thread.stack[Len(thread.stack)]
<1>1. RuntimeInv /\ Single /\ Timely(thread, now) /\ now \in Nat
  BY DEF TypeInv, ProfilerInv, ShadowInv, RuntimeInv
<1>2. /\ now' \in Nat /\ now' >= now
      /\ Len(frames) \in Shown <=> f.m \in Included
      /\ IF f.m \in Included THEN ProcessLeave(f.m, now') ELSE UNCHANGED <<thread, stats, event>>
  BY <1>1, ReturnShown
<1>3. ReturnReported(m) <=> f.m = m
  BY DEF ReturnReported
<1>4. DOMAIN stats = MethodIds /\ m \in MethodIds /\ stats[m].callCount \in Nat
  BY CountTypes
<1>5. CASE f.m \in Included
  <2>1. Len(thread.stack) # 0
    BY <1>1, <1>2, <1>5, TopShown
  <2>2. Timely(thread, now')
    BY <1>1, <1>2, TimelyLater
  <2>3. stats' = RecordMethod(stats, f.m, InclusiveNs(e, now'), SelfNs(e, now'))
    BY <1>2, <1>5, <2>1, <2>2, LeaveIs
  <2>4. stats' = Tally(stats, f.m, InclusiveNs(e, now'), SelfNs(e, now')) /\ f.m \in MethodIds
    BY <1>5, <2>3, CallStackAssumption DEF RecordMethod, MethodIds
  <2> HIDE DEF f, e
  <2> QED BY <1>3, <1>4, <2>4, OneTallied
<1>6. CASE f.m \notin Included
  BY <1>2, <1>3, <1>4, <1>6
<1> QED BY <1>5, <1>6

LEMMA UnwindTallied ==
  ASSUME TypeInv, ShadowInv, MonitorExceptions, UnwindFrame, "method_stats" \in Events,
         NEW m \in Included
  PROVE  stats'[m].callCount = stats[m].callCount + (IF UnwindReported(m) THEN 1 ELSE 0)
<1> DEFINE c == frames[Len(frames)].m
           e == thread.stack[Len(thread.stack)]
           d == thread.deferred
<1>1. RuntimeInv /\ Single /\ Timely(thread, now) /\ now \in Nat
  BY DEF TypeInv, ProfilerInv, ShadowInv, RuntimeInv
<1>2. /\ now' \in Nat /\ now' >= now
      /\ Len(frames) \in Shown <=> c \in Included
      /\ ExceptionUnwindFunctionEnter(c, now')
  BY <1>1, UnwindShown
<1>3. UnwindReported(m) <=> c = m /\ (m # thread.catcher \/ d.has)
  BY DEF UnwindReported
<1>4. DOMAIN stats = MethodIds /\ m \in MethodIds /\ stats[m].callCount \in Nat
  BY CountTypes
<1>5. /\ c \in Included => c \in MethodIds
      /\ c \in Included => Len(thread.stack) # 0 /\ e.functionId = c
  BY <1>1, <1>2, TopShown, CallStackAssumption DEF MethodIds
<1>6. Timely(thread, now')
  BY <1>1, <1>2, TimelyLater
<1>7. CASE c \notin Included
  BY <1>2, <1>3, <1>4, <1>7 DEF ExceptionUnwindFunctionEnter
<1>8. CASE c \in Included /\ thread.catcher = c
  <2>1. DeferUnwind(c, now')
    BY <1>2, <1>8 DEF ExceptionUnwindFunctionEnter
  <2>2. HoldsBack(c, now')
    BY <1>2, <1>5, <1>6, <1>8, <2>1, DeferIs
  <2>3. stats' = IF d.has THEN FinalizedStats(thread, stats) ELSE stats
    BY <2>2 DEF HoldsBack
  <2>4. d.has => d.functionId = c
    BY <1>8 DEF ShadowInv, DeferredInv
  <2>5. CASE d.has
    <3>1. stats' = Tally(stats, c, InclusiveNs(d.entry, d.tsNs), SelfNs(d.entry, d.tsNs))
      BY <2>3, <2>4, <2>5 DEF FinalizedStats, RecordMethod
    <3>2. UnwindReported(m) <=> c = m
      BY <1>3, <2>5
    <3> HIDE DEF c, d
    <3> QED BY <1>4, <1>5, <1>8, <3>1, <3>2, OneTallied
  <2>6. CASE ~d.has
    BY <1>3, <1>4, <1>8, <2>3, <2>6
  <2> QED BY <2>5, <2>6
<1>9. CASE c \in Included /\ thread.catcher # c
  <2>1. FinishUnwound(c, now')
    BY <1>2, <1>9 DEF ExceptionUnwindFunctionEnter
  <2>2. stats' = RecordMethod(stats, c, InclusiveNs(e, now'), SelfNs(e, now'))
    BY <1>2, <1>5, <1>6, <1>9, <2>1, FinishIs
  <2>3. stats' = Tally(stats, c, InclusiveNs(e, now'), SelfNs(e, now'))
    BY <2>2 DEF RecordMethod
  <2>4. UnwindReported(m) <=> c = m
    BY <1>3, <1>9
  <2> HIDE DEF c, e
  <2> QED BY <1>4, <1>5, <1>9, <2>3, <2>4, OneTallied
<1> QED BY <1>7, <1>8, <1>9

LEMMA CountStep == Faithful /\ TypeInv /\ ShadowInv /\ CountInv /\ [Next]_vars => CountInv'
<1> SUFFICES ASSUME Faithful, TypeInv, ShadowInv, CountInv, [Next]_vars, "method_stats" \in Events,
                    NEW m \in Included
             PROVE  stats'[m].callCount + Pending(m)' = Happened(m)'
  BY DEF CountInv, Accounts
<1>1. /\ stats[m].callCount + Pending(m) = Happened(m)
      /\ RuntimeInv /\ Single /\ MonitorExceptions /\ ~NestedThrows
      /\ stats[m].callCount \in Nat /\ Pending(m) \in Nat
  BY CountTypes DEF CountInv, Accounts, TypeInv, ShadowInv, Faithful
<1> DEFINE Kept == stats'[m].callCount + Pending(m)' = Happened(m)'
<1>2. ASSUME NEW c \in Methods, Call(c) PROVE Kept
  <2>1. stats' = stats
    BY <1>2 DEF Call, EnterStub
  <2> QED BY <1>1, <1>2, <2>1, CallCount
<1>3. CASE Return
  BY <1>1, <1>3, ReturnCount, ReturnTallied
<1>4. CASE (\E c \in 0..Len(frames) : Throw(c)) \/ CatcherFound \/ FrameUnwound \/ UNCHANGED vars
  <2>1. stats' = stats
    BY <1>1, <1>4, FoundShadow DEF Throw, FrameUnwound, vars
  <2> QED BY <1>1, <1>4, <2>1, OtherCount
<1>5. CASE UnwindFrame
  BY <1>1, <1>5, UnwindCount, UnwindTallied
<1>6. CASE CatcherEntered
  <2>1. stats' = stats
    BY <1>1, <1>6, CaughtShadow
  <2> QED BY <1>1, <1>6, <2>1, CaughtCount
<1> QED BY <1>2, <1>3, <1>4, <1>5, <1>6 DEF Next

\* At the start nothing has happened.
LEMMA InitPending ==
  ASSUME Init, NEW m \in Included
  PROVE  Pending(m) = 0 /\ Happened(m) = 0 /\ m \in MethodIds
<1>1. /\ frames = <<>> /\ thread.stack = <<>> /\ thread.deferred.has = FALSE
      /\ m \in MethodIds
  BY CallStackAssumption DEF Init, NewThread, NoDeferred, MethodIds
<1>2. EntriesOf(thread.stack, m) = {} /\ FramesOf(frames, m) = {}
  <2>1. Len(<<>>) = 0
    BY EmptySeq
  <2> QED BY <1>1, <2>1 DEF EntriesOf, FramesOf
<1>3. truth[m].callCount = 0
  BY <1>1 DEF Init, Zero, MethodIds
<1>4. Cardinality(EntriesOf(thread.stack, m)) = 0 /\ Cardinality(FramesOf(frames, m)) = 0
  BY <1>2, FS_EmptySet
<1>5. Pending(m) = 0
  BY <1>1, <1>4 DEF Pending
<1>6. Happened(m) = 0
  BY <1>3, <1>4 DEF Happened
<1> QED BY <1>1, <1>5, <1>6

LEMMA InitCount == Init => CountInv
<1> SUFFICES ASSUME Init, NEW m \in Included PROVE stats[m].callCount + Pending(m) = Happened(m)
  BY DEF CountInv, Accounts
<1>1. Pending(m) = 0 /\ Happened(m) = 0 /\ m \in MethodIds
  BY InitPending
<1>2. stats[m].callCount = 0
  BY <1>1 DEF Init, Zero, MethodIds
<1> QED BY <1>1, <1>2

\* The accounts in the terms of the properties.
LEMMA AccountsIs ==
  ASSUME TypeInv, NEW m \in Included
  PROVE  /\ Shadowed(m) = Pending(m) /\ truth[m].callCount + Live(m) = Happened(m)
         /\ Pending(m) \in Nat
<1>1. DOMAIN thread.stack = 1..Len(thread.stack) /\ DOMAIN frames = 1..Len(frames)
  <2>1. thread.stack \in Seq(Entries) /\ frames \in Seq(Frame)
    BY ThreadFields DEF TypeInv, RuntimeInv, ProfilerInv, Timely
  <2> QED BY <2>1, LenProperties
<1>2. Live(m) = Cardinality(FramesOf(frames, m))
  BY <1>1 DEF Live, FramesOf
<1>3. Shadowed(m) = Cardinality(EntriesOf(thread.stack, m))
                      + (IF thread.deferred.has /\ thread.deferred.functionId = m THEN 1 ELSE 0)
  BY <1>1 DEF Shadowed, EntriesOf
<1>4. Pending(m) \in Nat
  BY CountTypes
<1> QED BY <1>2, <1>3, <1>4 DEF Pending, Happened

(* Under the same conditions no call is lost and none is counted twice, at   *)
(* any moment of an unwind: what has been recorded of a method, plus what    *)
(* the shadow stack and the deferral still hold, is every call made to it.   *)
THEOREM CountsConserved ==
  ASSUME MonitorExceptions, ~NestedThrows
  PROVE  Spec => []CallsConserved
<1>1. Faithful
  BY DEF Faithful
<1>2. TypeInv /\ ShadowInv /\ CountInv /\ [Next]_vars => CountInv'
  BY <1>1, CountStep
<1>3. TypeInv /\ CountInv => CallsConserved
  <2> SUFFICES ASSUME TypeInv, CountInv, "method_stats" \in Events, NEW m \in Included
               PROVE  stats[m].callCount + Shadowed(m) = truth[m].callCount + Live(m)
    BY DEF CallsConserved
  <2>1. stats[m].callCount + Pending(m) = Happened(m)
    BY DEF CountInv, Accounts
  <2> QED BY <2>1, AccountsIs
<1> QED BY <1>1, <1>2, <1>3, InitCount, ShadowInvHolds, PTL DEF Spec

-----------------------------------------------------------------------------
(* Async nesting.                                                          *)

From(fr, S, f, m) == {i \in S : i >= f /\ fr[i].m = m}
BeganAt(fr, f, m, t) == fr[f].m = m /\ fr[f].enter = t

\* A count c of nested activations of m, the first of which began at t, fits
\* the frames fr in S: it does not exceed those from the first one on.
Nested(c, t, fr, S, m) ==
  /\ (c = 0) <=> (t = 0)
  /\ c > 0 => \E f \in S : BeganAt(fr, f, m, t) /\ c <= Cardinality(From(fr, S, f, m))

NestingInv ==
  \A m \in AsyncMethods : Nested(thread.nesting[m], thread.firstEnter[m], frames, Shown, m)

LEMMA FromFinite ==
  ASSUME NEW n \in Nat, NEW S \in SUBSET (1..n), NEW fr, NEW f, NEW m
  PROVE  IsFiniteSet(From(fr, S, f, m)) /\ Cardinality(From(fr, S, f, m)) \in Nat
<1>1. From(fr, S, f, m) \in SUBSET (1..n)
  BY DEF From
<1> QED BY <1>1, OneMore

LEMMA NestedSame ==
  ASSUME NEW n \in Nat, NEW S \in SUBSET (1..n), NEW fr, NEW fr2, NEW m, NEW c, NEW t,
         Nested(c, t, fr, S, m), \A i \in S : SameFrame(fr2, fr, i)
  PROVE  Nested(c, t, fr2, S, m)
<1>1. \A f \in S : BeganAt(fr2, f, m, t) <=> BeganAt(fr, f, m, t)
  BY DEF SameFrame, BeganAt
<1>2. \A f \in S : From(fr2, S, f, m) = From(fr, S, f, m)
  BY DEF SameFrame, From
<1> QED BY <1>1, <1>2 DEF Nested

\* A decrement without a frame that goes: the deferral was finalized.
LEMMA NestedFewer ==
  ASSUME NEW n \in Nat, NEW S \in SUBSET (1..n), NEW fr, NEW m, NEW c \in Nat, NEW t,
         Nested(c, t, fr, S, m), c > 0
  PROVE  Nested(c - 1, IF c = 1 THEN 0 ELSE t, fr, S, m)
<1>1. PICK f \in S : BeganAt(fr, f, m, t) /\ c <= Cardinality(From(fr, S, f, m))
  BY DEF Nested
<1>2. t # 0
  BY DEF Nested
<1>3. Cardinality(From(fr, S, f, m)) \in Nat
  BY FromFinite
<1>4. CASE c = 1
  BY <1>4 DEF Nested
<1>5. CASE c # 1
  <2>1. c - 1 > 0 /\ c - 1 # 0 /\ c - 1 <= Cardinality(From(fr, S, f, m))
    BY <1>1, <1>3, <1>5
  <2> QED BY <1>1, <1>2, <1>5, <2>1 DEF Nested
<1> QED BY <1>4, <1>5

\* More frames at the top.
LEMMA NestedGrows ==
  ASSUME NEW n \in Nat, NEW S \in SUBSET (1..n), NEW p \in 1..n, NEW fr, NEW m, NEW c \in Nat, NEW t,
         Nested(c, t, fr, S, m)
  PROVE  Nested(c, t, fr, S \cup {p}, m)
<1> SUFFICES ASSUME c > 0
             PROVE  \E f \in S \cup {p} :
                      BeganAt(fr, f, m, t) /\ c <= Cardinality(From(fr, S \cup {p}, f, m))
  BY DEF Nested
<1>1. PICK f \in S : BeganAt(fr, f, m, t) /\ c <= Cardinality(From(fr, S, f, m))
  BY DEF Nested
<1>2. From(fr, S, f, m) \subseteq From(fr, S \cup {p}, f, m)
  BY DEF From
<1>3. S \cup {p} \in SUBSET (1..n)
  OBVIOUS
<1>4. /\ IsFiniteSet(From(fr, S \cup {p}, f, m)) /\ Cardinality(From(fr, S \cup {p}, f, m)) \in Nat
      /\ Cardinality(From(fr, S, f, m)) \in Nat
  BY <1>3, FromFinite
<1>5. Cardinality(From(fr, S, f, m)) <= Cardinality(From(fr, S \cup {p}, f, m))
  BY <1>2, <1>4, FS_Subset
<1>6. c <= Cardinality(From(fr, S \cup {p}, f, m))
  BY <1>1, <1>4, <1>5
<1> QED BY <1>1, <1>6

\* An activation of m begins.
LEMMA NestedEnter ==
  ASSUME NEW n \in Nat, NEW S \in SUBSET (1..n), NEW p \in 1..n, \A y \in S : y < p,
         NEW fr, NEW m, NEW c \in Nat, NEW t, NEW u, BeganAt(fr, p, m, u), u # 0,
         Nested(c, t, fr, S, m)
  PROVE  Nested(c + 1, IF c = 0 THEN u ELSE t, fr, S \cup {p}, m)
<1> DEFINE T == S \cup {p}
<1>1. T \in SUBSET (1..n) /\ p \in T /\ p \notin S
  OBVIOUS
<1>2. fr[p].m = m
  BY DEF BeganAt
<1>3. CASE c = 0
  <2>1. p >= p /\ p \in From(fr, T, p, m)
    BY <1>1, <1>2 DEF From
  <2>2. Cardinality(From(fr, T, p, m)) \in Nat /\ IsFiniteSet(From(fr, T, p, m))
    BY <1>1, FromFinite
  <2>3. Cardinality(From(fr, T, p, m)) # 0
    BY <2>1, <2>2, FS_EmptySet
  <2>4. c + 1 <= Cardinality(From(fr, T, p, m)) /\ c + 1 # 0
    BY <1>3, <2>2, <2>3
  <2> QED BY <1>1, <1>3, <2>4 DEF Nested
<1>4. CASE c # 0
  <2>1. PICK f \in S : BeganAt(fr, f, m, t) /\ c <= Cardinality(From(fr, S, f, m))
    BY <1>4 DEF Nested
  <2>2. From(fr, T, f, m) = From(fr, S, f, m) \cup {p} /\ p \notin From(fr, S, f, m)
    <3>1. p >= f
      OBVIOUS
    <3> QED BY <1>1, <1>2, <3>1 DEF From
  <2>3. Cardinality(From(fr, S, f, m)) \in Nat /\ IsFiniteSet(From(fr, S, f, m))
    BY FromFinite
  <2>4. Cardinality(From(fr, T, f, m)) = Cardinality(From(fr, S, f, m)) + 1
    BY <2>2, <2>3, FS_AddElement
  <2>5. c + 1 <= Cardinality(From(fr, T, f, m)) /\ c + 1 # 0
    BY <2>1, <2>3, <2>4
  <2>6. t # 0 /\ f \in T
    BY <1>4 DEF Nested
  <2> QED BY <1>4, <2>1, <2>5, <2>6 DEF Nested
<1> QED BY <1>3, <1>4

\* The top frame goes: another method's, or one of m itself.
LEMMA NestedPop ==
  ASSUME NEW n \in Nat, NEW S \in SUBSET (1..n), NEW p \in S, \A y \in S : y <= p,
         NEW fr, NEW m, NEW c \in Nat, NEW t, Nested(c, t, fr, S, m)
  PROVE  /\ fr[p].m # m => Nested(c, t, fr, S \ {p}, m)
         /\ fr[p].m = m => Nested(IF c > 0 THEN c - 1 ELSE c, IF c = 1 THEN 0 ELSE t, fr, S \ {p}, m)
<1> DEFINE T == S \ {p}
<1>0. T \in SUBSET (1..n)
  OBVIOUS
<1>1. CASE fr[p].m # m
  <2>1. \A f \in S : BeganAt(fr, f, m, t) => f \in T
    BY <1>1 DEF BeganAt
  <2>2. \A f \in S : From(fr, T, f, m) = From(fr, S, f, m)
    BY <1>1 DEF From
  <2> HIDE DEF T
  <2>3. Nested(c, t, fr, T, m)
    BY <2>1, <2>2 DEF Nested
  <2> QED BY <1>1, <2>3 DEF T
<1>2. CASE fr[p].m = m
  <2>1. CASE c = 0 \/ c = 1
    BY <1>2, <2>1 DEF Nested
  <2>2. CASE c > 1
    <3>1. PICK f \in S : BeganAt(fr, f, m, t) /\ c <= Cardinality(From(fr, S, f, m))
      BY <2>2 DEF Nested
    <3>2. From(fr, T, f, m) = From(fr, S, f, m) \ {p} /\ p \in From(fr, S, f, m)
      <4>1. p >= f
        OBVIOUS
      <4> QED BY <1>2, <4>1 DEF From
    <3>3. Cardinality(From(fr, S, f, m)) \in Nat /\ IsFiniteSet(From(fr, S, f, m))
      BY FromFinite
    <3>4. Cardinality(From(fr, T, f, m)) = Cardinality(From(fr, S, f, m)) - 1
      BY <3>2, <3>3, FS_RemoveElement
    <3>5. f # p
      <4> SUFFICES ASSUME f = p PROVE FALSE
        OBVIOUS
      <4>1. \A i \in S : i >= p => i = p
        OBVIOUS
      <4>2. From(fr, T, f, m) = {}
        BY <4>1 DEF From
      <4>3. Cardinality(From(fr, T, f, m)) = 0
        BY <4>2, FS_EmptySet
      <4> QED BY <2>2, <3>1, <3>3, <3>4, <4>3
    <3>6. c - 1 > 0 /\ c - 1 # 0 /\ c - 1 <= Cardinality(From(fr, T, f, m)) /\ f \in T /\ c # 1 /\ c > 0
      BY <2>2, <3>1, <3>3, <3>4, <3>5
    <3>7. t # 0
      BY <2>2 DEF Nested
    <3> HIDE DEF T
    <3>8. Nested(c - 1, t, fr, T, m)
      BY <3>1, <3>6, <3>7 DEF Nested
    <3> QED BY <1>2, <3>6, <3>8 DEF T
  <2> QED BY <2>1, <2>2
<1> QED BY <1>1, <1>2


\* The nesting counts and first-enter times, and what becomes of them.
Fits(a, fr, S) == Nested(thread.nesting[a], thread.firstEnter[a], fr, S, a)

LEMMA NestingTypes ==
  ASSUME TypeInv, NEW a \in AsyncMethods
  PROVE  a \in Included /\ a \in Methods /\ thread.nesting[a] \in Nat /\ thread.firstEnter[a] \in Nat
BY ThreadFields, CallStackAssumption DEF TypeInv, ProfilerInv, Timely

LEMMA CallNesting ==
  ASSUME TypeInv, ShadowInv, NestingInv, NEW m \in Methods, Call(m)
  PROVE  NestingInv'
<1> DEFINE n == Len(frames)
<1> SUFFICES ASSUME NEW a \in AsyncMethods PROVE Fits(a, frames, Shown)'
  BY DEF NestingInv, Fits
<1>1. RuntimeInv /\ Single /\ thread \in Thread /\ n \in Nat /\ Shown \in SUBSET (1..n)
  BY DispatchIs DEF TypeInv, ProfilerInv, Timely, ShadowInv
<1>2. /\ now' \in Nat /\ now' # 0
      /\ \A i \in 1..n : frames'[i] = frames[i]
      /\ frames'[n + 1].m = m /\ frames'[n + 1].enter = now'
      /\ Shown' = IF m \in Included THEN Shown \cup {n + 1} ELSE Shown
      /\ IF m \in Included THEN EnterStub(m, now') ELSE UNCHANGED <<thread, stats, event>>
  <2>1. now \in Nat /\ now >= 1
    BY <1>1 DEF RuntimeInv
  <2>2. /\ now' \in Nat /\ now' >= now
        /\ \A i \in 1..n : frames'[i] = frames[i]
        /\ frames'[n + 1].m = m /\ frames'[n + 1].enter = now'
        /\ Shown' = IF m \in Included THEN Shown \cup {n + 1} ELSE Shown
        /\ IF m \in Included THEN EnterStub(m, now') ELSE UNCHANGED <<thread, stats, event>>
    BY <1>1, CallShown
  <2>3. now' # 0
    BY <2>1, <2>2
  <2> QED BY <2>2, <2>3
<1>3. Fits(a, frames', Shown)
  <2>1. \A i \in Shown : SameFrame(frames', frames, i)
    BY <1>1, <1>2 DEF SameFrame
  <2>2. Fits(a, frames, Shown)
    BY DEF NestingInv, Fits
  <2> QED BY <1>1, <2>1, <2>2, NestedSame DEF Fits
<1>4. thread.nesting[a] \in Nat
  BY NestingTypes
<1>5. CASE m \in Included
  <2>1. /\ thread'.nesting[a] = IF a = m THEN thread.nesting[a] + 1 ELSE thread.nesting[a]
        /\ thread'.firstEnter[a] = IF a = m /\ thread.nesting[a] = 0 THEN now'
                                   ELSE thread.firstEnter[a]
    <3>1. thread \in Thread /\ now' \in Nat /\ EnterStub(m, now')
      BY <1>1, <1>2, <1>5
    <3>2. \A b \in AsyncMethods :
            /\ thread'.nesting[b] = IF b = m THEN thread.nesting[b] + 1 ELSE thread.nesting[b]
            /\ thread'.firstEnter[b] = IF b = m /\ thread.nesting[b] = 0 THEN now'
                                       ELSE thread.firstEnter[b]
      BY <1>5, <3>1, EnterIs, ZenonT(60)
    <3> QED BY <3>2
  <2>2. n + 1 \in Nat /\ n + 1 \in 1..n + 1 /\ Shown \in SUBSET (1..n + 1) /\ \A y \in Shown : y < n + 1
    BY <1>1
  <2>3. Shown' = Shown \cup {n + 1}
    BY <1>2, <1>5
  <2>4. CASE a = m
    <3>1. BeganAt(frames', n + 1, a, now')
      BY <1>2, <2>4 DEF BeganAt
    <3>2. Nested(thread.nesting[a], thread.firstEnter[a], frames', Shown, a)
      BY <1>3 DEF Fits
    <3> HIDE DEF n
    <3>3. Nested(thread.nesting[a] + 1, IF thread.nesting[a] = 0 THEN now' ELSE thread.firstEnter[a],
                 frames', Shown \cup {n + 1}, a)
      BY <1>2, <1>4, <2>2, <3>1, <3>2, NestedEnter
    <3> QED BY <2>1, <2>3, <2>4, <3>3 DEF Fits
  <2>5. CASE a # m
    <3>1. Nested(thread.nesting[a], thread.firstEnter[a], frames', Shown, a)
      BY <1>3 DEF Fits
    <3> HIDE DEF n
    <3>2. Nested(thread.nesting[a], thread.firstEnter[a], frames', Shown \cup {n + 1}, a)
      BY <1>4, <2>2, <3>1, NestedGrows
    <3> QED BY <2>1, <2>3, <2>5, <3>2 DEF Fits
  <2> QED BY <2>4, <2>5
<1>6. CASE m \notin Included
  <2>1. thread' = thread /\ Shown' = Shown
    BY <1>2, <1>6
  <2> QED BY <1>3, <2>1 DEF Fits
<1> QED BY <1>5, <1>6

\* The top frame, of method m, leaves the shown ones, and m is decremented.
LEMMA FitsPopped ==
  ASSUME NEW n \in Nat, NEW S \in SUBSET (1..n), NEW p \in S, \A y \in S : y <= p, NEW fr,
         NEW a, NEW c \in Nat, NEW t, Nested(c, t, fr, S, a), NEW m, fr[p].m = m, NEW c2, NEW t2,
         c2 = (IF a = m /\ c > 0 THEN c - 1 ELSE c), t2 = (IF a = m /\ c = 1 THEN 0 ELSE t)
  PROVE  Nested(c2, t2, fr, S \ {p}, a)
<1>1. /\ fr[p].m # a => Nested(c, t, fr, S \ {p}, a)
      /\ fr[p].m = a => Nested(IF c > 0 THEN c - 1 ELSE c, IF c = 1 THEN 0 ELSE t, fr, S \ {p}, a)
  BY NestedPop
<1>2. CASE a = m
  BY <1>1, <1>2
<1>3. CASE a # m
  <2>1. c2 = c /\ t2 = t
    BY <1>3
  <2> QED BY <1>1, <1>3, <2>1
<1> QED BY <1>2, <1>3

LEMMA ReturnNesting ==
  ASSUME TypeInv, ShadowInv, NestingInv, Return
  PROVE  NestingInv'
<1> DEFINE n == Len(frames)
           m == frames[n].m
<1> SUFFICES ASSUME NEW a \in AsyncMethods PROVE Fits(a, frames, Shown)'
  BY DEF NestingInv, Fits
<1>1. RuntimeInv /\ Single /\ Timely(thread, now) /\ now \in Nat /\ n \in Nat /\ Shown \in SUBSET (1..n)
  BY DispatchIs DEF TypeInv, ProfilerInv, ShadowInv, RuntimeInv
<1>2. /\ now' \in Nat /\ now' >= now /\ EndTopFrame(now') /\ frames # <<>>
      /\ Shown' = Shown \ {n}
      /\ n \in Shown <=> m \in Included
      /\ IF m \in Included THEN ProcessLeave(m, now') ELSE UNCHANGED <<thread, stats, event>>
  BY <1>1, ReturnShown
<1>3. Fits(a, frames, Shown) /\ thread.nesting[a] \in Nat
  BY NestingTypes DEF NestingInv, Fits
<1>5. Nested(thread'.nesting[a], thread'.firstEnter[a], frames, Shown \ {n}, a)
  <2>1. CASE m \in Included
    <3>1. Len(thread.stack) # 0 /\ n \in Shown /\ \A y \in Shown : y <= n
      BY <1>1, <1>2, <2>1, TopShown
    <3>2. Timely(thread, now')
      BY <1>1, <1>2, TimelyLater
    <3>3. Popped(m, now')
      BY <1>2, <2>1, <3>1, <3>2, LeaveIs
    <3>4. /\ thread'.nesting[a] = IF a = m /\ thread.nesting[a] > 0 THEN thread.nesting[a] - 1
                                  ELSE thread.nesting[a]
          /\ thread'.firstEnter[a] = IF a = m /\ thread.nesting[a] = 1 THEN 0 ELSE thread.firstEnter[a]
      BY <3>3 DEF Popped
    <3>5. frames[n].m = m /\ Nested(thread.nesting[a], thread.firstEnter[a], frames, Shown, a)
      BY <1>3 DEF Fits
    <3> HIDE DEF n, m
    <3> QED BY <1>1, <1>3, <3>1, <3>4, <3>5, FitsPopped, ZenonT(60)
  <2>2. CASE m \notin Included
    <3>1. thread' = thread /\ Shown \ {n} = Shown
      BY <1>2, <2>2
    <3> QED BY <1>3, <3>1 DEF Fits
  <2> QED BY <2>1, <2>2
<1>6. \A i \in Shown \ {n} : SameFrame(frames', frames, i)
  <2>1. \A i \in 1..n : i # n => i \in 1..n - 1
    BY <1>1
  <2>2. \A i \in 1..n - 1 : frames'[i].m = frames[i].m /\ frames'[i].enter = frames[i].enter
    BY <1>1, <1>2, EndTopFrameIs
  <2> QED BY <1>1, <2>1, <2>2 DEF SameFrame
<1>7. Shown \ {n} \in SUBSET (1..n)
  BY <1>1
<1> HIDE DEF n
<1>8. Nested(thread'.nesting[a], thread'.firstEnter[a], frames', Shown \ {n}, a)
  BY <1>1, <1>5, <1>6, <1>7, NestedSame
<1> QED BY <1>2, <1>8 DEF Fits

LEMMA UnwindNesting ==
  ASSUME TypeInv, ShadowInv, NestingInv, MonitorExceptions, UnwindFrame
  PROVE  NestingInv'
<1> DEFINE n == Len(frames)
           m == frames[n].m
<1> SUFFICES ASSUME NEW a \in AsyncMethods PROVE Fits(a, frames, Shown)'
  BY DEF NestingInv, Fits
<1>1. RuntimeInv /\ Single /\ Timely(thread, now) /\ now \in Nat /\ n \in Nat /\ Shown \in SUBSET (1..n)
  BY DispatchIs DEF TypeInv, ProfilerInv, ShadowInv, RuntimeInv
<1>2. /\ now' \in Nat /\ now' >= now /\ frames' = frames
      /\ Shown' = Shown \ {n}
      /\ n \in Shown <=> m \in Included
      /\ ExceptionUnwindFunctionEnter(m, now')
  BY <1>1, UnwindShown
<1>3. Nested(thread.nesting[a], thread.firstEnter[a], frames, Shown, a) /\ thread.nesting[a] \in Nat
  BY NestingTypes DEF NestingInv
<1>4. Timely(thread, now') /\ (m \in Included => Len(thread.stack) # 0)
  BY <1>1, <1>2, TimelyLater, TopShown
<1>5. Nested(thread'.nesting[a], thread'.firstEnter[a], frames, Shown \ {n}, a)
  <2>1. CASE m \notin Included
    <3>1. thread' = thread /\ Shown \ {n} = Shown
      BY <1>2, <2>1 DEF ExceptionUnwindFunctionEnter
    <3> QED BY <1>3, <3>1
  <2>2. CASE m \in Included /\ thread.catcher = m
    <3>1. DeferUnwind(m, now')
      BY <1>2, <2>2 DEF ExceptionUnwindFunctionEnter
    <3>2. HoldsBack(m, now')
      BY <1>2, <1>4, <2>2, <3>1, DeferIs
    <3>3. PICK base \in Thread :
            /\ \A b \in AsyncMethods :
                 \/ base.nesting[b] = thread.nesting[b] /\ base.firstEnter[b] = thread.firstEnter[b]
                 \/ /\ thread.deferred.has /\ thread.nesting[b] > 0
                    /\ base.nesting[b] = thread.nesting[b] - 1
                    /\ base.firstEnter[b] = IF thread.nesting[b] = 1 THEN 0 ELSE thread.firstEnter[b]
            /\ \A b \in AsyncMethods :
                 /\ thread'.nesting[b] = IF b = m /\ base.nesting[b] > 0 THEN base.nesting[b] - 1
                                         ELSE base.nesting[b]
                 /\ thread'.firstEnter[b] = IF b = m /\ base.nesting[b] = 1 THEN 0
                                            ELSE base.firstEnter[b]
      BY <3>2 DEF HoldsBack
    <3>4. Nested(base.nesting[a], base.firstEnter[a], frames, Shown, a) /\ base.nesting[a] \in Nat
      <4>1. CASE base.nesting[a] = thread.nesting[a] /\ base.firstEnter[a] = thread.firstEnter[a]
        BY <1>3, <4>1
      <4>2. CASE /\ thread.nesting[a] > 0
                 /\ base.nesting[a] = thread.nesting[a] - 1
                 /\ base.firstEnter[a] = IF thread.nesting[a] = 1 THEN 0 ELSE thread.firstEnter[a]
        <5> HIDE DEF n, m
        <5>1. Nested(thread.nesting[a] - 1, IF thread.nesting[a] = 1 THEN 0 ELSE thread.firstEnter[a],
                     frames, Shown, a)
          BY <1>1, <1>3, <4>2, NestedFewer
        <5> QED BY <1>3, <4>2, <5>1
      <4> QED BY <3>3, <4>1, <4>2
    <3>5. n \in Shown /\ \A y \in Shown : y <= n
      BY <1>1, <1>2, <2>2
    <3>6. frames[n].m = m
      OBVIOUS
    <3>7. /\ thread'.nesting[a] = IF a = m /\ base.nesting[a] > 0 THEN base.nesting[a] - 1
                                  ELSE base.nesting[a]
          /\ thread'.firstEnter[a] = IF a = m /\ base.nesting[a] = 1 THEN 0 ELSE base.firstEnter[a]
      BY <3>3
    <3> HIDE DEF n, m
    <3> QED BY <1>1, <3>4, <3>5, <3>6, <3>7, FitsPopped
  <2>3. CASE m \in Included /\ thread.catcher # m
    <3>1. FinishUnwound(m, now')
      BY <1>2, <2>3 DEF ExceptionUnwindFunctionEnter
    <3>2. Popped(m, now')
      BY <1>2, <1>4, <2>3, <3>1, FinishIs
    <3>3. /\ thread'.nesting[a] = IF a = m /\ thread.nesting[a] > 0 THEN thread.nesting[a] - 1
                                  ELSE thread.nesting[a]
          /\ thread'.firstEnter[a] = IF a = m /\ thread.nesting[a] = 1 THEN 0 ELSE thread.firstEnter[a]
      BY <3>2 DEF Popped
    <3>4. n \in Shown /\ \A y \in Shown : y <= n
      BY <1>1, <1>2, <2>3
    <3>5. frames[n].m = m
      OBVIOUS
    <3> HIDE DEF n, m
    <3> QED BY <1>1, <1>3, <3>3, <3>4, <3>5, FitsPopped
  <2> QED BY <2>1, <2>2, <2>3
<1> QED BY <1>2, <1>5 DEF Fits

LEMMA UnwoundNesting ==
  ASSUME TypeInv, ShadowInv, NestingInv, FrameUnwound
  PROVE  NestingInv'
<1> SUFFICES ASSUME NEW a \in AsyncMethods PROVE Fits(a, frames, Shown)'
  BY DEF NestingInv, Fits
<1> DEFINE n == Len(frames)
<1>1. RuntimeInv /\ Single /\ n \in Nat /\ Shown \in SUBSET (1..n)
  BY DispatchIs DEF TypeInv, ShadowInv
<1>2. /\ thread' = thread /\ now \in Nat /\ EndTopFrame(now) /\ frames # <<>>
      /\ Shown' = Shown /\ Shown = IncludedBelow
  BY <1>1, UnwoundShown
<1>3. \A i \in Shown : SameFrame(frames', frames, i)
  <2>1. now >= now /\ \A i \in Shown : i \in 1..n - 1
    BY <1>2 DEF IncludedBelow
  <2>2. \A i \in 1..n - 1 : frames'[i].m = frames[i].m /\ frames'[i].enter = frames[i].enter
    BY <1>1, <1>2, <2>1, EndTopFrameIs
  <2> QED BY <2>1, <2>2 DEF SameFrame
<1>4. Nested(thread.nesting[a], thread.firstEnter[a], frames, Shown, a)
  BY DEF NestingInv
<1>5. Nested(thread.nesting[a], thread.firstEnter[a], frames', Shown, a)
  BY <1>1, <1>3, <1>4, NestedSame
<1> QED BY <1>2, <1>5 DEF Fits

LEMMA CaughtNesting ==
  ASSUME TypeInv, ShadowInv, NestingInv, MonitorExceptions, CatcherEntered
  PROVE  NestingInv'
<1> SUFFICES ASSUME NEW a \in AsyncMethods PROVE Fits(a, frames, Shown)'
  BY DEF NestingInv, Fits
<1> DEFINE n == Len(frames)
<1>1. RuntimeInv /\ Single /\ n \in Nat /\ Shown \in SUBSET (1..n)
  BY DispatchIs DEF TypeInv, ShadowInv
<1>2. /\ frames' = frames /\ n \in 1..n
      /\ Shown' = IF frames[n].m \in Included THEN Shown \cup {n} ELSE Shown
  BY <1>1, CaughtShown
<1>3. thread'.nesting = thread.nesting /\ thread'.firstEnter = thread.firstEnter
  BY CaughtShadow
<1>4. Nested(thread.nesting[a], thread.firstEnter[a], frames, Shown, a) /\ thread.nesting[a] \in Nat
  BY NestingTypes DEF NestingInv
<1> HIDE DEF n
<1>5. Nested(thread.nesting[a], thread.firstEnter[a], frames, Shown \cup {n}, a)
  BY <1>1, <1>2, <1>4, NestedGrows
<1> QED BY <1>2, <1>3, <1>4, <1>5 DEF Fits

LEMMA NestingStep == Faithful /\ TypeInv /\ ShadowInv /\ NestingInv /\ [Next]_vars => NestingInv'
<1> SUFFICES ASSUME Faithful, TypeInv, ShadowInv, NestingInv, [Next]_vars PROVE NestingInv'
  OBVIOUS
<1>1. MonitorExceptions /\ ~NestedThrows /\ RuntimeInv /\ Single
  BY DEF Faithful, TypeInv, ShadowInv
<1>2. ASSUME frames' = frames, Shown' = Shown,
             thread'.nesting = thread.nesting, thread'.firstEnter = thread.firstEnter
      PROVE  NestingInv'
  BY <1>2 DEF NestingInv
<1>3. ASSUME NEW m \in Methods, Call(m) PROVE NestingInv'
  BY <1>3, CallNesting
<1>4. CASE Return
  BY <1>4, ReturnNesting
<1>5. ASSUME NEW c \in 0..Len(frames), Throw(c) PROVE NestingInv'
  BY <1>1, <1>2, <1>5, ThrowShown
<1>6. CASE CatcherFound
  BY <1>1, <1>2, <1>6, FoundShown, FoundShadow
<1>7. CASE UnwindFrame
  BY <1>1, <1>7, UnwindNesting
<1>8. CASE FrameUnwound
  BY <1>8, UnwoundNesting
<1>9. CASE CatcherEntered
  BY <1>1, <1>9, CaughtNesting
<1>10. CASE UNCHANGED vars
  BY <1>2, <1>10 DEF vars, Shown, Left
<1> QED BY <1>3, <1>4, <1>5, <1>6, <1>7, <1>8, <1>9, <1>10 DEF Next

LEMMA InitNesting == Init => NestingInv
<1> SUFFICES ASSUME Init, NEW a \in AsyncMethods
             PROVE  Nested(thread.nesting[a], thread.firstEnter[a], frames, Shown, a)
  BY DEF NestingInv
<1>1. thread.nesting[a] = 0 /\ thread.firstEnter[a] = 0
  BY DEF Init, NewThread
<1> QED BY <1>1 DEF Nested

(* Under the same conditions the nesting count of an async method never     *)
(* exceeds its live activations, it is positive exactly while a first-enter *)
(* time is kept, and that time is the enter time of a live activation: a    *)
(* wall time spans no period in which the method was not running.           *)
THEOREM NestingBounded ==
  ASSUME MonitorExceptions, ~NestedThrows
  PROVE  Spec => []AsyncNestingBounded
<1>1. Faithful
  BY DEF Faithful
<1>2. TypeInv /\ ShadowInv /\ NestingInv /\ [Next]_vars => NestingInv'
  BY <1>1, NestingStep
<1>3. TypeInv /\ ShadowInv /\ NestingInv => AsyncNestingBounded
  <2> SUFFICES ASSUME TypeInv, ShadowInv, NestingInv, NEW m \in AsyncMethods
               PROVE  /\ thread.nesting[m] <= Live(m)
                      /\ (thread.nesting[m] = 0) <=> (thread.firstEnter[m] = 0)
                      /\ thread.nesting[m] > 0 =>
                           \E i \in DOMAIN frames : frames[i].m = m /\ frames[i].enter = thread.firstEnter[m]
    BY DEF AsyncNestingBounded
  <2>1. RuntimeInv /\ Len(frames) \in Nat /\ Shown \in SUBSET (1..Len(frames)) /\ DOMAIN frames = 1..Len(frames)
    <3>1. frames \in Seq(Frame) /\ RuntimeInv /\ Single
      BY DEF TypeInv, RuntimeInv, ShadowInv
    <3> QED BY <3>1, DispatchIs, LenProperties
  <2>2. thread.nesting[m] \in Nat /\ Nested(thread.nesting[m], thread.firstEnter[m], frames, Shown, m)
    BY NestingTypes DEF NestingInv
  <2>3. Live(m) = Cardinality(FramesOf(frames, m)) /\ Live(m) \in Nat /\ IsFiniteSet(FramesOf(frames, m))
    <3>1. FramesOf(frames, m) \in SUBSET (1..Len(frames)) /\ Live(m) = Cardinality(FramesOf(frames, m))
      BY <2>1 DEF Live, FramesOf
    <3> QED BY <2>1, <3>1, OneMore
  <2>4. CASE thread.nesting[m] = 0
    BY <2>2, <2>3, <2>4 DEF Nested
  <2>5. CASE thread.nesting[m] # 0
    <3>1. PICK f \in Shown : /\ BeganAt(frames, f, m, thread.firstEnter[m])
                             /\ thread.nesting[m] <= Cardinality(From(frames, Shown, f, m))
      BY <2>2, <2>5 DEF Nested
    <3>2. From(frames, Shown, f, m) \subseteq FramesOf(frames, m)
      BY <2>1 DEF From, FramesOf
    <3>3. Cardinality(From(frames, Shown, f, m)) <= Live(m) /\ Cardinality(From(frames, Shown, f, m)) \in Nat
      BY <2>1, <2>3, <3>2, FS_Subset, FromFinite
    <3>4. thread.nesting[m] <= Live(m)
      BY <2>2, <2>3, <3>1, <3>3
    <3>5. f \in DOMAIN frames /\ frames[f].m = m /\ frames[f].enter = thread.firstEnter[m]
      BY <2>1, <3>1 DEF BeganAt
    <3>6. (thread.nesting[m] = 0) <=> (thread.firstEnter[m] = 0)
      BY <2>2 DEF Nested
    <3> QED BY <3>4, <3>5, <3>6
  <2> QED BY <2>4, <2>5
<1> QED BY <1>1, <1>2, <1>3, InitNesting, ShadowInvHolds, PTL DEF Spec

-----------------------------------------------------------------------------
(* Times.                                                                  *)

IsTop(S, i) == \A y \in S : y <= i

\* The entries of st have the children times of the frames fr in S; the one on
\* top is ahead of its frame by lag.
Times(st, fr, S, lag) ==
  \A i \in S : st[Rank(S, i)].childrenTimeNs = fr[i].kids + (IF IsTop(S, i) THEN lag ELSE 0)

\* The children times are numbers; and what they grow by.
Timed(st, fr, S) ==
  /\ \A k \in 1..Len(st) : st[k].childrenTimeNs \in Nat
  /\ \A i \in S : fr[i].kids \in Nat
KidsGrow(fr2, fr, S, y) ==
  \A i \in S : fr2[i].kids = fr[i].kids + (IF IsTop(S, i) THEN y ELSE 0)
TopGrows(st2, st, x) ==
  \A k \in 1..Len(st2) :
    st2[k].childrenTimeNs = st[k].childrenTimeNs + (IF k = Len(st2) THEN x ELSE 0)

LEMMA TimesShift ==
  ASSUME NEW n \in Nat, NEW S \in SUBSET (1..n), NEW st, NEW fr, NEW fr2, Timed(st, fr, S),
         NEW lag \in Int, NEW y \in Int, Times(st, fr, S, lag), KidsGrow(fr2, fr, S, y)
  PROVE  Times(st, fr2, S, lag - y)
<1> SUFFICES ASSUME NEW i \in S
             PROVE  st[Rank(S, i)].childrenTimeNs = fr2[i].kids + (IF IsTop(S, i) THEN lag - y ELSE 0)
  BY DEF Times
<1>1. /\ st[Rank(S, i)].childrenTimeNs = fr[i].kids + (IF IsTop(S, i) THEN lag ELSE 0)
      /\ fr2[i].kids = fr[i].kids + (IF IsTop(S, i) THEN y ELSE 0)
      /\ fr[i].kids \in Nat
  BY DEF Times, KidsGrow, Timed
<1>2. CASE IsTop(S, i)
  BY <1>1, <1>2
<1>3. CASE ~IsTop(S, i)
  BY <1>1, <1>3
<1> QED BY <1>2, <1>3

TopTime(st, fr, p, lag) == st[Len(st)].childrenTimeNs = fr[p].kids + lag

LEMMA TimesTop ==
  ASSUME NEW n \in Nat, NEW S \in SUBSET (1..n), NEW p \in S, \A y \in S : y <= p,
         NEW st, Len(st) = Cardinality(S), NEW fr, NEW lag, Times(st, fr, S, lag)
  PROVE  TopTime(st, fr, p, lag)
<1>1. Rank(S, p) = Cardinality(S)
  BY RankTop
<1>2. IsTop(S, p)
  BY DEF IsTop
<1>3. st[Rank(S, p)].childrenTimeNs = fr[p].kids + (IF IsTop(S, p) THEN lag ELSE 0)
  BY DEF Times
<1> QED BY <1>1, <1>2, <1>3 DEF TopTime

LEMMA TimesPop ==
  ASSUME NEW n \in Nat, NEW S \in SUBSET (1..n), NEW p \in S, \A y \in S : y <= p,
         NEW st, Len(st) = Cardinality(S), NEW fr, Timed(st, fr, S),
         NEW lag \in Int, Times(st, fr, S, lag), NEW x \in Int,
         NEW st2, Len(st2) = Len(st) - 1, TopGrows(st2, st, x)
  PROVE  Times(st2, fr, S \ {p}, x)
<1> DEFINE T == S \ {p}
<1>1. /\ Cardinality(S) \in Nat /\ Cardinality(S) >= 1
      /\ Cardinality(T) = Cardinality(S) - 1
      /\ \A i \in T : Rank(S, i) = Rank(T, i) /\ Rank(S, i) \in 1..Cardinality(S) - 1
  BY RankTop
<1>2. T \in SUBSET (1..n)
  OBVIOUS
<1> SUFFICES ASSUME NEW i \in T
             PROVE  st2[Rank(T, i)].childrenTimeNs = fr[i].kids + (IF IsTop(T, i) THEN x ELSE 0)
  BY DEF Times
<1> DEFINE r == Rank(T, i)
<1>3. ~IsTop(S, i)
  <2>1. i # p /\ i <= p /\ ~ (p <= i)
    OBVIOUS
  <2> QED BY <2>1 DEF IsTop
<1>4. i \in S /\ st[r].childrenTimeNs = fr[i].kids + (IF IsTop(S, i) THEN lag ELSE 0) /\ fr[i].kids \in Nat
  BY <1>1 DEF Times, Timed
<1>5. r \in 1..Len(st2) /\ Len(st2) = Cardinality(T)
  BY <1>1
<1>6. st2[r].childrenTimeNs = st[r].childrenTimeNs + (IF r = Len(st2) THEN x ELSE 0)
  BY <1>5 DEF TopGrows
<1>7. r = Len(st2) <=> IsTop(T, i)
  <2>1. ASSUME IsTop(T, i) PROVE r = Cardinality(T)
    <3>1. \A y \in T : y <= i
      BY <2>1 DEF IsTop
    <3> HIDE DEF T
    <3> QED BY <1>2, <3>1, RankTop DEF T
  <2>2. ASSUME ~IsTop(T, i) PROVE r # Cardinality(T)
    <3> HIDE DEF T
    <3>1. Max(T) \in T /\ \A y \in T : y <= Max(T)
      BY <1>2, MaxProperties
    <3>2. i # Max(T)
      BY <2>2, <3>1 DEF IsTop
    <3>3. /\ Cardinality(T) \in Nat
          /\ \A j \in T \ {Max(T)} : Rank(T, j) \in 1..Cardinality(T) - 1
      BY <1>2, <3>1, RankTop
    <3>4. Rank(T, i) \in 1..Cardinality(T) - 1
      BY <3>2, <3>3
    <3> QED BY <3>3, <3>4
  <2> QED BY <1>5, <2>1, <2>2
<1> HIDE DEF T, r
<1> QED BY <1>3, <1>4, <1>6, <1>7 DEF r

LEMMA TimesPush ==
  ASSUME NEW n \in Nat, NEW S \in SUBSET (1..n), NEW p \in 1..n, \A y \in S : y < p,
         NEW st, Len(st) = Cardinality(S), NEW fr, Timed(st, fr, S), Times(st, fr, S, 0),
         NEW st2, \A k \in 1..Len(st) : st2[k].childrenTimeNs = st[k].childrenTimeNs,
         NEW fr2, \A i \in S : fr2[i].kids = fr[i].kids,
         fr2[p].kids \in Nat, st2[Len(st) + 1].childrenTimeNs = fr2[p].kids
  PROVE  Times(st2, fr2, S \cup {p}, 0)
<1> DEFINE T == S \cup {p}
<1>1. T \in SUBSET (1..n) /\ p \in T /\ p \notin S /\ T \ {p} = S /\ \A y \in T : y <= p
  OBVIOUS
<1> HIDE DEF T
<1>2. /\ Rank(T, p) = Cardinality(T) /\ Cardinality(T) \in Nat
      /\ Cardinality(T \ {p}) = Cardinality(T) - 1
      /\ \A i \in T \ {p} : Rank(T, i) = Rank(T \ {p}, i) /\ Rank(T, i) \in 1..Cardinality(T) - 1
  BY <1>1, RankTop
<1>3. Rank(T, p) = Len(st) + 1 /\ \A i \in S : Rank(T, i) = Rank(S, i) /\ Rank(T, i) \in 1..Len(st)
  <2>1. Cardinality(S) = Cardinality(T) - 1 /\ Cardinality(T) \in Nat
    BY <1>1, <1>2
  <2>2. Len(st) + 1 = Cardinality(T) /\ Len(st) = Cardinality(T) - 1
    BY <2>1
  <2>3. \A i \in S : Rank(T, i) = Rank(S, i) /\ Rank(T, i) \in 1..Cardinality(T) - 1
    BY <1>1, <1>2
  <2> QED BY <1>2, <2>2, <2>3
<1>4. ASSUME NEW i \in S PROVE st2[Rank(T, i)].childrenTimeNs = fr2[i].kids
  <2>1. st[Rank(S, i)].childrenTimeNs = fr[i].kids + (IF IsTop(S, i) THEN 0 ELSE 0) /\ fr[i].kids \in Nat
    BY DEF Times, Timed
  <2>2. st2[Rank(T, i)].childrenTimeNs = st[Rank(S, i)].childrenTimeNs
    BY <1>3
  <2> QED BY <2>1, <2>2
<1>5. ASSUME NEW i \in T PROVE st2[Rank(T, i)].childrenTimeNs = fr2[i].kids /\ fr2[i].kids \in Nat
  <2>1. CASE i \in S
    BY <1>4, <2>1 DEF Timed
  <2>2. CASE i = p
    BY <1>3, <2>2
  <2> QED BY <2>1, <2>2 DEF T
<1>6. \A i \in T : st2[Rank(T, i)].childrenTimeNs = fr2[i].kids + (IF IsTop(T, i) THEN 0 ELSE 0)
  BY <1>5
<1> QED BY <1>6 DEF Times, T

\* The frame being unwound has been reported; its end is still to come.
Ahead == Left # 0 /\ frames[Left].m \in Included /\ frames[Left].m # thread.catcher
Early == now - frames[Left].enter
\* The frame whose entry is held back is gone; its report is still to come.
Behind == thread.deferred.has /\ ~Held
Late == InclusiveNs(thread.deferred.entry, thread.deferred.tsNs)
LateSelf == SelfNs(thread.deferred.entry, thread.deferred.tsNs)

Lag == (IF Ahead THEN Early ELSE 0) - (IF Behind THEN Late ELSE 0)

\* The two profiles, once what is outstanding in each has come.
Settled(tab) == IF Behind THEN Tally(tab, thread.catcher, Late, LateSelf) ELSE tab
Foreseen == IF Ahead THEN Tally(truth, frames[Left].m, Early, Early - frames[Left].kids) ELSE truth

\* What a return adds to a table, and what an unwind callback adds: the call
\* that ends, or the one that was held back.
ReturnAdds(tab2, tab) ==
  LET m == frames[Len(frames)].m
      e == thread.stack[Len(thread.stack)]
  IN  tab2 = IF m \in Included THEN Tally(tab, m, InclusiveNs(e, now'), SelfNs(e, now')) ELSE tab
UnwindAdds(tab2, tab) ==
  LET m == frames[Len(frames)].m
      e == thread.stack[Len(thread.stack)]
  IN  /\ m \notin Included => tab2 = tab
      /\ m \in Included /\ m # thread.catcher =>
           tab2 = Tally(tab, m, InclusiveNs(e, now'), SelfNs(e, now'))
      /\ m \in Included /\ m = thread.catcher =>
           tab2 = IF thread.deferred.has THEN Tally(tab, m, Late, LateSelf) ELSE tab

Regular ==
  /\ Left # 0 => Left = Len(frames)
  /\ Ahead => ~thread.deferred.has
  /\ Held => /\ thread.deferred.entry.childrenTimeNs = frames[Left].kids
             /\ thread.deferred.tsNs = now
  /\ Times(thread.stack, frames, Shown, Lag)

\* Where the unwinding is regular, the table `tab', kept if `on', is level with
\* the truth.
Level(on, tab) == ~irregular => Regular /\ (on => Settled(tab) = Foreseen)

ExactInv == Level("method_stats" \in Events, stats)

\* Nothing is outstanding outside an unwind.
LEMMA Quiet ==
  ASSUME ShadowInv, ~Unwinding
  PROVE  Left = 0 /\ ~thread.deferred.has
BY DEF ShadowInv, DeferredInv, Left, Unwinding

LEMMA QuietIs ==
  ASSUME Left = 0, ~thread.deferred.has, NEW tab
  PROVE  ~Held /\ ~Ahead /\ ~Behind /\ Lag = 0 /\ Settled(tab) = tab /\ Foreseen = truth
<1>1. ~Held /\ ~Ahead /\ ~Behind
  BY DEF Held, Ahead, Behind
<1> QED BY <1>1 DEF Lag, Settled, Foreseen

LEMMA QuietNext ==
  ASSUME Left' = 0, ~thread'.deferred.has, NEW tab
  PROVE  ~Held' /\ ~Ahead' /\ ~Behind' /\ Lag' = 0 /\ Settled(tab)' = tab /\ Foreseen' = truth'
<1>1. ~Held' /\ ~Ahead' /\ ~Behind'
  BY DEF Held, Ahead, Behind
<1> QED BY <1>1 DEF Lag, Settled, Foreseen

\* The types the times need.
LEMMA TimeTypes ==
  ASSUME TypeInv, ShadowInv
  PROVE  /\ RuntimeInv /\ Single /\ thread \in Thread /\ Timely(thread, now) /\ now \in Nat
         /\ Len(frames) \in Nat /\ Shown \in SUBSET (1..Len(frames))
         /\ Timed(thread.stack, frames, Shown)
         /\ Len(thread.stack) \in Nat /\ Len(thread.stack) = Cardinality(Shown)
         /\ thread.deferred.entry \in Entries
<1>1. /\ RuntimeInv /\ Single /\ thread \in Thread /\ Timely(thread, now) /\ now \in Nat
  BY DEF TypeInv, ProfilerInv, Timely, RuntimeInv, ShadowInv
<1>2. /\ Len(frames) \in Nat /\ Shown \in SUBSET (1..Len(frames))
  BY <1>1, DispatchIs
<1>3. Timed(thread.stack, frames, Shown)
  <2>1. \A k \in 1..Len(thread.stack) : thread.stack[k].childrenTimeNs \in Nat
    BY <1>1, ThreadFields
  <2>2. \A i \in Shown : frames[i].kids \in Nat
    BY <1>1, <1>2, RuntimeTypes
  <2> QED BY <2>1, <2>2 DEF Timed
<1>4. Len(thread.stack) \in Nat /\ thread.deferred.entry \in Entries
  BY <1>1, ThreadFields
<1>5. Len(thread.stack) = Cardinality(Shown)
  BY DEF ShadowInv, Mirrors
<1> QED BY <1>1, <1>2, <1>3, <1>4, <1>5

\* The top entry against the top frame, when the two profiles are level.
LEMMA TopTimes ==
  ASSUME TypeInv, ShadowInv, Len(frames) \in Shown,
         NEW lag, Times(thread.stack, frames, Shown, lag)
  PROVE  LET f == frames[Len(frames)]
             e == thread.stack[Len(thread.stack)]
         IN  /\ Len(thread.stack) # 0 /\ e.functionId = f.m /\ f.m \in Included
             /\ e.childrenTimeNs = f.kids + lag
             /\ lag = 0 =>
                  \A t \in Nat : t >= now =>
                    /\ t - f.enter \in Nat
                    /\ InclusiveNs(e, t) = t - f.enter
                    /\ SelfNs(e, t) = (t - f.enter) - f.kids
<1> DEFINE n == Len(frames)
           k == Len(thread.stack)
           f == frames[n]
           e == thread.stack[k]
<1>1. /\ n \in Nat /\ Shown \in SUBSET (1..n) /\ \A y \in Shown : y <= n
      /\ k \in Nat /\ k >= 1 /\ k # 0
      /\ e.functionId = f.m /\ e.enterTsNs = f.enter
      /\ f.enter \in Nat /\ f.kids \in Nat /\ f.enter >= 1
      /\ f.enter + f.kids <= now /\ now \in Nat
  BY TopShown DEF TypeInv
<1>2. Len(thread.stack) = Cardinality(Shown) /\ thread \in Thread
  BY TimeTypes
<1>3. e.childrenTimeNs = f.kids + lag
  <2>1. n \in Nat /\ n \in Shown /\ Shown \in SUBSET (1..n) /\ \A y \in Shown : y <= n
    BY <1>1
  <2> HIDE DEF n, k, e, f
  <2>2. TopTime(thread.stack, frames, n, lag)
    BY <1>2, <2>1, TimesTop
  <2> QED BY <2>2 DEF e, f, k, TopTime
<1>4. f.m \in Included
  BY DEF Shown
<1>5. e \in Entries
  BY <1>1, <1>2, ThreadFields
<1> HIDE DEF e, f, k, n
<1>6. ASSUME lag = 0, NEW t \in Nat, t >= now
      PROVE  /\ t - f.enter \in Nat
             /\ InclusiveNs(e, t) = t - f.enter
             /\ SelfNs(e, t) = (t - f.enter) - f.kids
  <2>1. e.enterTsNs <= t /\ e.enterTsNs >= 1 /\ t - f.enter \in Nat
    BY <1>1, <1>6
  <2>2. InclusiveNs(e, t) = t - f.enter
    BY <1>1, <1>5, <2>1, TimesAreNat
  <2>3. e.childrenTimeNs <= InclusiveNs(e, t)
    BY <1>1, <1>3, <1>6, <2>2
  <2>4. SelfNs(e, t) = InclusiveNs(e, t) - e.childrenTimeNs
    BY <1>5, <2>1, <2>3, TimesAreNat
  <2>5. e.childrenTimeNs = f.kids
    BY <1>1, <1>3, <1>6
  <2> QED BY <2>1, <2>2, <2>4, <2>5
<1> QED BY <1>1, <1>3, <1>4, <1>6 DEF e, f, k, n

LEMMA CallExact ==
  ASSUME TypeInv, ShadowInv, NEW on \in BOOLEAN, NEW tab, Level(on, tab),
         NEW m \in Methods, Call(m)
  PROVE  Level(on, tab)'
<1> SUFFICES ASSUME ~irregular'
             PROVE  Regular' /\ (on => Settled(tab)' = Foreseen')
  BY DEF Level
<1> DEFINE n == Len(frames)
<1>1. /\ RuntimeInv /\ Single /\ thread \in Thread /\ n \in Nat /\ Shown \in SUBSET (1..n)
      /\ Timed(thread.stack, frames, Shown) /\ Len(thread.stack) \in Nat
      /\ Len(thread.stack) = Cardinality(Shown)
  BY TimeTypes
<1>2. /\ now' \in Nat
      /\ \A i \in 1..n : frames'[i] = frames[i]
      /\ frames'[n + 1].kids = 0
      /\ Left' = Left /\ (Left # 0 => irregular' = TRUE) /\ (Unwinding => Left # 0)
      /\ Shown' = IF m \in Included THEN Shown \cup {n + 1} ELSE Shown
      /\ IF m \in Included THEN EnterStub(m, now') ELSE UNCHANGED <<thread, stats, event>>
  BY <1>1, CallShown
<1>3. truth' = truth /\ ~irregular
  BY DEF Call
<1>4. Left = 0 /\ Left' = 0 /\ ~thread.deferred.has
  BY <1>2, Quiet
<1>5. Lag = 0 /\ Settled(tab) = tab /\ Foreseen = truth
  BY <1>4, QuietIs
<1>6. /\ Times(thread.stack, frames, Shown, 0)
      /\ on => tab = truth
  BY <1>3, <1>5 DEF Level, Regular
<1>7. \A i \in Shown : frames'[i] = frames[i]
  BY <1>1, <1>2
<1>8. /\ ~thread'.deferred.has
      /\ Times(thread'.stack, frames', Shown', 0)
  <2>1. CASE m \in Included
    <3>1. thread \in Thread /\ now' \in Nat /\ EnterStub(m, now')
      BY <1>1, <1>2, <2>1
    <3>2. LET k == Len(thread.stack)
          IN  /\ \A j \in 1..k : thread'.stack[j] = thread.stack[j]
              /\ thread'.stack[k + 1] = [functionId |-> m, enterTsNs |-> now', childrenTimeNs |-> 0]
              /\ thread'.deferred = thread.deferred
      BY <2>1, <3>1, EnterIs
    <3>3. /\ \A j \in 1..Len(thread.stack) : thread'.stack[j].childrenTimeNs = thread.stack[j].childrenTimeNs
          /\ thread'.stack[Len(thread.stack) + 1].childrenTimeNs = frames'[n + 1].kids
          /\ frames'[n + 1].kids \in Nat
      BY <1>2, <3>2
    <3>4. n + 1 \in Nat /\ n + 1 \in 1..n + 1 /\ Shown \in SUBSET (1..n + 1) /\ \A y \in Shown : y < n + 1
      BY <1>1
    <3>5. \A i \in Shown : frames'[i].kids = frames[i].kids
      BY <1>7
    <3>6. Shown' = Shown \cup {n + 1}
      BY <1>2, <2>1
    <3> HIDE DEF n
    <3>7. Times(thread'.stack, frames', Shown \cup {n + 1}, 0)
      BY <1>1, <1>6, <3>3, <3>4, <3>5, TimesPush
    <3> QED BY <1>4, <3>2, <3>6, <3>7
  <2>2. CASE m \notin Included
    <3>1. thread' = thread /\ Shown' = Shown
      BY <1>2, <2>2
    <3>2. Times(thread.stack, frames', Shown, 0)
      BY <1>6, <1>7 DEF Times
    <3> QED BY <1>4, <3>1, <3>2
  <2> QED BY <2>1, <2>2
<1>9. ~Held' /\ ~Ahead' /\ Lag' = 0 /\ Settled(tab)' = tab /\ Foreseen' = truth'
  BY <1>4, <1>8, QuietNext
<1>10. Regular'
  BY <1>4, <1>8, <1>9 DEF Regular
<1> QED BY <1>3, <1>6, <1>8, <1>9, <1>10

\* The entry on top is done for: what the one below it is given.
LEMMA PoppedTimes ==
  ASSUME thread \in Thread, NEW m, NEW t, Popped(m, t)
  PROVE  /\ TopGrows(thread'.stack, thread.stack, InclusiveNs(thread.stack[Len(thread.stack)], t))
         /\ Len(thread'.stack) = Len(thread.stack) - 1
         /\ InclusiveNs(thread.stack[Len(thread.stack)], t) \in Int
<1> DEFINE k == Len(thread.stack)
           x == InclusiveNs(thread.stack[k], t)
           p == Len(thread'.stack)
<1>1. /\ k \in Nat /\ x \in Nat /\ p = k - 1
      /\ \A j \in 1..k - 1 :
           thread'.stack[j].childrenTimeNs = IF j = k - 1 THEN thread.stack[j].childrenTimeNs + x
                                             ELSE thread.stack[j].childrenTimeNs
  BY DEF Popped
<1>2. \A j \in 1..k : thread.stack[j].childrenTimeNs \in Nat
  BY ThreadFields
<1> HIDE DEF k, x, p
<1>3. \A j \in 1..p :
        thread'.stack[j].childrenTimeNs = thread.stack[j].childrenTimeNs + (IF j = p THEN x ELSE 0)
  <2> SUFFICES ASSUME NEW j \in 1..p
               PROVE  thread'.stack[j].childrenTimeNs =
                        thread.stack[j].childrenTimeNs + (IF j = p THEN x ELSE 0)
    OBVIOUS
  <2>1. j \in 1..k - 1 /\ j \in 1..k /\ p = k - 1
    BY <1>1
  <2> QED BY <1>1, <1>2, <2>1
<1>4. x \in Int /\ p = k - 1
  BY <1>1
<1> QED BY <1>3, <1>4 DEF k, x, p, TopGrows

\* The truth, and the kids of the frames, when the top frame has ended.
LEMMA EndedTimes ==
  ASSUME TypeInv, NEW t \in Nat, t >= now, EndTopFrame(t), frames # <<>>
  PROVE  LET f == frames[Len(frames)]
         IN  /\ f.m \in Included =>
                  /\ t - f.enter \in Nat
                  /\ KidsGrow(frames', frames, IncludedBelow, t - f.enter)
                  /\ truth' = Tally(truth, f.m, t - f.enter, (t - f.enter) - f.kids)
             /\ f.m \notin Included =>
                  /\ KidsGrow(frames', frames, IncludedBelow, 0)
                  /\ truth' = truth
<1> DEFINE n == Len(frames)
           f == frames[n]
           parent == Max(IncludedBelow)
<1>1. /\ n \in Nat
      /\ \A i \in 1..n - 1 :
           frames'[i].kids = IF f.m \in Included /\ IncludedBelow # {} /\ i = parent
                             THEN frames[i].kids + (t - f.enter)
                             ELSE frames[i].kids
      /\ t - f.enter \in Nat
      /\ truth' = IF f.m \in Included
                  THEN Tally(truth, f.m, t - f.enter, (t - f.enter) - f.kids)
                  ELSE truth
  BY EndTopFrameIs DEF TypeInv
<1>2. \A i \in IncludedBelow : i \in 1..n - 1 /\ frames[i].kids \in Nat /\ i \in Nat
  <2>1. \A i \in 1..n : frames[i].kids \in Nat
    BY RuntimeTypes DEF TypeInv
  <2>2. \A i \in 1..n - 1 : i \in 1..n
    BY <1>1
  <2> QED BY <2>1, <2>2 DEF IncludedBelow
<1>3. ASSUME NEW i \in IncludedBelow PROVE i = parent <=> IsTop(IncludedBelow, i)
  <2>1. n - 1 \in Nat /\ IncludedBelow \in SUBSET (1..n - 1) /\ IncludedBelow # {}
    BY <1>1, <1>2
  <2> HIDE DEF n
  <2>2. parent \in IncludedBelow /\ \A y \in IncludedBelow : y <= parent
    BY <2>1, MaxProperties
  <2> HIDE DEF parent
  <2>3. parent \in Nat /\ i \in Nat
    BY <1>2, <2>2
  <2> QED BY <2>2, <2>3 DEF IsTop
<1> HIDE DEF parent
<1>4. CASE f.m \in Included
  <2>1. \A i \in IncludedBelow :
          frames'[i].kids = frames[i].kids + (IF IsTop(IncludedBelow, i) THEN t - f.enter ELSE 0)
    <3> SUFFICES ASSUME NEW i \in IncludedBelow
                 PROVE  frames'[i].kids = frames[i].kids + (IF IsTop(IncludedBelow, i) THEN t - f.enter ELSE 0)
      OBVIOUS
    <3>1. /\ frames'[i].kids = IF i = parent THEN frames[i].kids + (t - f.enter) ELSE frames[i].kids
          /\ frames[i].kids \in Nat
      BY <1>1, <1>2, <1>4
    <3>2. CASE i = parent
      BY <1>3, <3>1, <3>2
    <3>3. CASE i # parent
      BY <1>3, <3>1, <3>3
    <3> QED BY <3>2, <3>3
  <2> QED BY <1>1, <1>4, <2>1 DEF KidsGrow
<1>5. CASE f.m \notin Included
  <2>1. \A i \in IncludedBelow :
          frames'[i].kids = frames[i].kids + (IF IsTop(IncludedBelow, i) THEN 0 ELSE 0)
    BY <1>1, <1>2, <1>5
  <2> QED BY <1>1, <1>5, <2>1 DEF KidsGrow
<1> QED BY <1>4, <1>5

LEMMA ReturnExact ==
  ASSUME TypeInv, ShadowInv, NEW on \in BOOLEAN, NEW tab, Level(on, tab), NEW tab2,
         Return,
         on /\ ~irregular' => ReturnAdds(tab2, tab)
  PROVE  Level(on, tab2)'
<1> SUFFICES ASSUME ~irregular'
             PROVE  Regular' /\ (on => Settled(tab2)' = Foreseen')
  BY DEF Level
<1> DEFINE n == Len(frames)
           k == Len(thread.stack)
           f == frames[n]
           x == now' - f.enter
<1>1. /\ RuntimeInv /\ Single /\ Timely(thread, now) /\ now \in Nat /\ thread \in Thread /\ n \in Nat /\ Shown \in SUBSET (1..n)
      /\ Timed(thread.stack, frames, Shown)
      /\ Len(thread.stack) = Cardinality(Shown)
  BY TimeTypes
<1>2. /\ now' \in Nat /\ now' >= now /\ irregular' = irregular
      /\ EndTopFrame(now') /\ frames # <<>>
      /\ Left' = Left /\ Left < n /\ (Unwinding => Left # 0)
      /\ Shown' = Shown \ {n}
      /\ n \in Shown <=> f.m \in Included
      /\ IF f.m \in Included THEN ProcessLeave(f.m, now') ELSE UNCHANGED <<thread, stats, event>>
  BY <1>1, ReturnShown
<1>3. Left = 0 /\ Left' = 0
  <2>1. Left # 0 => Left = n
    BY <1>2 DEF Level, Regular
  <2> QED BY <1>1, <1>2, <2>1
<1>4. ~thread.deferred.has
  BY <1>2, <1>3, Quiet
<1>5. Lag = 0 /\ Settled(tab) = tab /\ Foreseen = truth
  BY <1>3, <1>4, QuietIs
<1>6. /\ Times(thread.stack, frames, Shown, 0)
      /\ on => tab = truth
  BY <1>2, <1>5 DEF Level, Regular
<1>7. Shown \ {n} = IncludedBelow
  <2>1. \A i \in 1..n : i # 0 /\ (i # n <=> i \in 1..n - 1)
    BY <1>1
  <2>2. \A i \in 1..n - 1 : i \in 1..n
    BY <1>1
  <2> QED BY <1>3, <2>1, <2>2 DEF Shown, IncludedBelow
<1>8. /\ f.m \in Included =>
           /\ KidsGrow(frames', frames, Shown \ {n}, x)
           /\ truth' = Tally(truth, f.m, x, x - f.kids)
      /\ f.m \notin Included =>
           /\ KidsGrow(frames', frames, Shown \ {n}, 0)
           /\ truth' = truth
  BY <1>2, <1>7, EndedTimes
<1>9. /\ ~thread'.deferred.has
      /\ Times(thread'.stack, frames', Shown \ {n}, 0)
      /\ on => tab2 = truth'
  <2>1. CASE f.m \in Included
    <3>1. n \in Shown /\ \A y \in Shown : y <= n
      BY <1>1, <1>2, <2>1
    <3>2. /\ k # 0 /\ x \in Nat
          /\ InclusiveNs(thread.stack[k], now') = x /\ SelfNs(thread.stack[k], now') = x - f.kids
      BY <1>2, <1>6, <3>1, TopTimes
    <3>3. Timely(thread, now') /\ ProcessLeave(f.m, now')
      BY <1>1, <1>2, <2>1, TimelyLater
    <3>4. Popped(f.m, now')
      BY <1>2, <3>2, <3>3, LeaveIs
    <3>12. on => tab2 = Tally(tab, f.m, x, x - f.kids)
      BY <2>1, <3>2 DEF ReturnAdds
    <3>5. thread'.deferred = thread.deferred
      BY <3>4 DEF Popped
    <3>6. TopGrows(thread'.stack, thread.stack, x) /\ Len(thread'.stack) = Len(thread.stack) - 1
      BY <1>1, <3>2, <3>4, PoppedTimes
    <3>7. x \in Int /\ 0 \in Int
      BY <3>2
    <3> HIDE DEF n, k, f, x
    <3>8. Times(thread'.stack, frames, Shown \ {n}, x)
      BY <1>1, <1>6, <3>1, <3>6, <3>7, TimesPop
    <3>9. Times(thread'.stack, frames', Shown \ {n}, x - x)
      <4>1. Timed(thread'.stack, frames, Shown \ {n})
        <5>1. TypeInv' => \A j \in 1..Len(thread'.stack) : thread'.stack[j].childrenTimeNs \in Nat
          BY ThreadFields DEF TypeInv, ProfilerInv, Timely
        <5>2. TypeInv'
          BY RuntimeStep, ProfilerStep DEF TypeInv, Next
        <5> QED BY <1>1, <5>1, <5>2 DEF Timed
      <4>2. Shown \ {n} \in SUBSET (1..n)
        BY <1>1
      <4>3. KidsGrow(frames', frames, Shown \ {n}, x)
        BY <1>8, <2>1
      <4> QED BY <1>1, <3>7, <3>8, <4>1, <4>2, <4>3, TimesShift
    <3>10. x - x = 0
      BY <3>7
    <3>11. on => tab2 = truth'
      BY <1>6, <1>8, <2>1, <3>12
    <3> QED BY <1>4, <3>5, <3>9, <3>10, <3>11
  <2>2. CASE f.m \notin Included
    <3>1. thread' = thread /\ (on => tab2 = tab) /\ Shown \ {n} = Shown
      BY <1>2, <2>2 DEF ReturnAdds
    <3>2. KidsGrow(frames', frames, Shown, 0) /\ truth' = truth /\ 0 \in Int
      <4>1. KidsGrow(frames', frames, Shown \ {n}, 0) /\ truth' = truth
        BY <1>8, <2>2
      <4> HIDE DEF n
      <4> QED BY <3>1, <4>1
    <3>3. Times(thread.stack, frames', Shown, 0 - 0)
      <4> HIDE DEF n
      <4> QED BY <1>1, <1>6, <3>2, TimesShift
    <3>4. 0 - 0 = 0
      OBVIOUS
    <3>5. Times(thread'.stack, frames', Shown \ {n}, 0)
      BY <3>1, <3>3, <3>4
    <3>6. on => tab2 = truth'
      BY <1>6, <3>1, <3>2
    <3>7. ~thread'.deferred.has
      BY <1>4, <3>1
    <3> QED BY <3>5, <3>6, <3>7
  <2> QED BY <2>1, <2>2
<1>10. ~Held' /\ ~Ahead' /\ Lag' = 0 /\ Settled(tab2)' = tab2 /\ Foreseen' = truth'
  BY <1>3, <1>9, QuietNext
<1>11. Regular'
  BY <1>2, <1>3, <1>9, <1>10 DEF Regular
<1> QED BY <1>9, <1>10, <1>11

\* Nothing moves but the phase of the dispatch.
LEMMA PhaseExact ==
  ASSUME NEW on \in BOOLEAN, NEW tab, Level(on, tab),
         Left = 0, Left' = 0, ~thread.deferred.has, ~thread'.deferred.has,
         UNCHANGED <<now, frames, truth, irregular>>, thread'.stack = thread.stack,
         Shown' = Shown
  PROVE  Level(on, tab)'
<1> SUFFICES ASSUME ~irregular'
             PROVE  Regular' /\ (on => Settled(tab)' = Foreseen')
  BY DEF Level
<1>1. Lag = 0 /\ Settled(tab) = tab /\ Foreseen = truth
  BY QuietIs
<1>2. ~Held' /\ ~Ahead' /\ Lag' = 0 /\ Settled(tab)' = tab /\ Foreseen' = truth'
  BY QuietNext
<1>3. /\ Times(thread.stack, frames, Shown, 0)
      /\ on => tab = truth
  BY <1>1 DEF Level, Regular
<1>4. Times(thread'.stack, frames', Shown', 0)
  BY <1>3
<1> QED BY <1>2, <1>3, <1>4 DEF Regular

LEMMA UnwindExact ==
  ASSUME TypeInv, ShadowInv, NEW on \in BOOLEAN, NEW tab, Level(on, tab), NEW tab2,
         MonitorExceptions, UnwindFrame,
         on /\ ~irregular' => UnwindAdds(tab2, tab)
  PROVE  Level(on, tab2)'
<1> SUFFICES ASSUME ~irregular'
             PROVE  Regular' /\ (on => Settled(tab2)' = Foreseen')
  BY DEF Level
<1> DEFINE n == Len(frames)
           f == frames[n]
           k == Len(thread.stack)
           x == now' - f.enter
           d == thread.deferred
<1>1. /\ RuntimeInv /\ Single /\ Timely(thread, now) /\ now \in Nat /\ thread \in Thread
      /\ n \in Nat /\ Shown \in SUBSET (1..n)
      /\ Timed(thread.stack, frames, Shown)
      /\ Len(thread.stack) = Cardinality(Shown)
  BY TimeTypes
<1>2. /\ now' \in Nat /\ now' >= now /\ frames' = frames /\ truth' = truth /\ n \in 1..n
      /\ Left = 0 /\ Left' = n
      /\ Shown' = Shown \ {n}
      /\ n \in Shown <=> f.m \in Included
      /\ irregular' = (irregular \/ (f.m \in Included /\ f.m # thread.catcher /\ d.has))
      /\ ExceptionUnwindFunctionEnter(f.m, now')
  BY <1>1, UnwindShown
<1>3. ~irregular /\ (f.m \in Included /\ d.has => f.m = thread.catcher)
  BY <1>2
<1>4. /\ ~Held /\ ~Ahead /\ Foreseen = truth
      /\ Lag = 0 - (IF d.has THEN Late ELSE 0)
      /\ Settled(tab) = IF d.has THEN Tally(tab, thread.catcher, Late, LateSelf) ELSE tab
  BY <1>2 DEF Held, Ahead, Behind, Lag, Settled, Foreseen
<1>5. /\ Times(thread.stack, frames, Shown, Lag)
      /\ on => Settled(tab) = truth
  BY <1>3, <1>4 DEF Level, Regular
<1>6. Left' = Len(frames') /\ frames'[Left'] = f /\ Left' # 0
  BY <1>2
<1>7. CASE f.m \notin Included
  <2>1. thread' = thread /\ (on => tab2 = tab) /\ Shown' = Shown
    BY <1>2, <1>7 DEF ExceptionUnwindFunctionEnter, UnwindAdds
  <2>2. ~Held' /\ ~Ahead'
    BY <1>6, <1>7 DEF Held, Ahead
  <2>3. Lag' = Lag /\ (on => Settled(tab2)' = Settled(tab)) /\ Foreseen' = truth'
    BY <1>4, <2>1, <2>2 DEF Behind, Lag, Settled, Foreseen, Late, LateSelf
  <2>4. Times(thread'.stack, frames', Shown', Lag')
    BY <1>2, <1>5, <2>1, <2>3
  <2>5. Regular'
    BY <1>6, <2>2, <2>4 DEF Regular
  <2> QED BY <1>2, <1>5, <2>3, <2>5
<1>8. ASSUME f.m \in Included
      PROVE  /\ n \in Shown /\ (\A y \in Shown : y <= n) /\ Timely(thread, now')
             /\ k # 0 /\ thread.stack[k].functionId = f.m
             /\ thread.stack[k].childrenTimeNs = f.kids + Lag
             /\ f.kids \in Nat
             /\ Lag = 0 => /\ x \in Nat /\ InclusiveNs(thread.stack[k], now') = x
                           /\ SelfNs(thread.stack[k], now') = x - f.kids
  <2>1. n \in Shown /\ (\A y \in Shown : y <= n) /\ Timely(thread, now')
    BY <1>1, <1>2, <1>8, TimelyLater
  <2>2. f.kids \in Nat
    BY <1>1, <1>2, RuntimeTypes
  <2>3. /\ k # 0 /\ thread.stack[k].functionId = f.m
        /\ thread.stack[k].childrenTimeNs = f.kids + Lag
        /\ Lag = 0 => /\ x \in Nat /\ InclusiveNs(thread.stack[k], now') = x
                      /\ SelfNs(thread.stack[k], now') = x - f.kids
    BY <1>2, <1>5, <2>1, TopTimes
  <2> QED BY <2>1, <2>2, <2>3
<1>9. CASE f.m \in Included /\ thread.catcher = f.m
  <2> DEFINE c == IF d.has THEN Late ELSE 0
  <2>1. DeferUnwind(f.m, now')
    BY <1>2, <1>9 DEF ExceptionUnwindFunctionEnter
  <2>2. HoldsBack(f.m, now')
    BY <1>2, <1>8, <1>9, <2>1, DeferIs
  <2>3. /\ k \in Nat /\ Len(thread'.stack) = k - 1 /\ c \in Nat
        /\ \A j \in 1..k - 1 : thread'.stack[j].childrenTimeNs = thread.stack[j].childrenTimeNs
        /\ thread'.catcher = thread.catcher
        /\ thread'.deferred.has = TRUE /\ thread'.deferred.tsNs = now'
        /\ thread'.deferred.entry.childrenTimeNs = thread.stack[k].childrenTimeNs + c
    BY <2>2 DEF HoldsBack, Late
  <2>4. Held' /\ ~Ahead' /\ ~Behind'
    BY <1>6, <1>9, <2>3 DEF Held, Ahead, Behind
  <2>5. Lag' = 0 /\ Settled(tab2)' = tab2 /\ Foreseen' = truth'
    BY <2>4 DEF Lag, Settled, Foreseen
  <2>6. thread'.deferred.entry.childrenTimeNs = f.kids
    <3>1. Lag = 0 - c
      BY <1>4
    <3>2. thread.stack[k].childrenTimeNs = f.kids + Lag /\ f.kids \in Nat
      BY <1>8, <1>9
    <3> HIDE DEF c, f, k
    <3> QED BY <2>3, <3>1, <3>2
  <2>7. Times(thread'.stack, frames, Shown \ {n}, 0)
    <3>1. TopGrows(thread'.stack, thread.stack, 0)
      <4>1. \A j \in 1..k : thread.stack[j].childrenTimeNs \in Nat
        BY <1>1, ThreadFields
      <4> DEFINE p == Len(thread'.stack)
      <4>2. p = k - 1 /\ k \in Nat
        BY <2>3
      <4> HIDE DEF k, p
      <4>3. \A j \in 1..p : j \in 1..k - 1 /\ j \in 1..k
        BY <4>2
      <4>4. \A j \in 1..p : thread'.stack[j].childrenTimeNs
                              = thread.stack[j].childrenTimeNs + (IF j = p THEN 0 ELSE 0)
        BY <2>3, <4>1, <4>3
      <4> QED BY <4>4 DEF TopGrows, p
    <3>2. Lag \in Int /\ 0 \in Int
      BY <1>4, <2>3
    <3>3. n \in Shown /\ (\A y \in Shown : y <= n) /\ Len(thread'.stack) = Len(thread.stack) - 1
      BY <1>8, <1>9, <2>3
    <3> HIDE DEF n, k, f, c, d
    <3> QED BY <1>1, <1>5, <3>1, <3>2, <3>3, TimesPop
  <2>8. Regular'
    <3>1. Times(thread'.stack, frames', Shown', Lag')
      BY <1>2, <2>5, <2>7
    <3>2. thread'.deferred.entry.childrenTimeNs = frames'[Left'].kids
      BY <1>6, <2>6
    <3> HIDE DEF n, k, f, c, d
    <3> QED BY <1>6, <2>3, <2>4, <3>1, <3>2 DEF Regular
  <2>9. on => tab2 = Settled(tab)
    BY <1>4, <1>9 DEF UnwindAdds
  <2> QED BY <1>2, <1>5, <2>5, <2>8, <2>9
<1>10. CASE f.m \in Included /\ thread.catcher # f.m
  <2>1. FinishUnwound(f.m, now') /\ ~d.has /\ Lag = 0
    BY <1>2, <1>3, <1>4, <1>10 DEF ExceptionUnwindFunctionEnter
  <2>2. /\ x \in Nat /\ InclusiveNs(thread.stack[k], now') = x
        /\ SelfNs(thread.stack[k], now') = x - f.kids
        /\ thread.stack[k].functionId = f.m
    BY <1>8, <1>10, <2>1
  <2>3. Popped(f.m, now')
    BY <1>2, <1>8, <1>10, <2>1, FinishIs
  <2>4. thread'.catcher = thread.catcher /\ thread'.deferred = thread.deferred
    BY <2>3 DEF Popped
  <2>5. ~Held' /\ Ahead' /\ ~Behind' /\ Early' = x
    BY <1>6, <1>10, <2>1, <2>4 DEF Held, Ahead, Behind, Early
  <2>6. Lag' = x /\ Settled(tab2)' = tab2 /\ Foreseen' = Tally(truth', f.m, x, x - f.kids)
    BY <1>6, <2>2, <2>5 DEF Lag, Settled, Foreseen
  <2>7. Times(thread'.stack, frames, Shown \ {n}, x)
    <3>1. TopGrows(thread'.stack, thread.stack, x) /\ Len(thread'.stack) = Len(thread.stack) - 1
      BY <1>1, <2>2, <2>3, PoppedTimes
    <3>2. Lag \in Int /\ x \in Int /\ n \in Shown /\ \A y \in Shown : y <= n
      BY <1>8, <1>10, <2>1, <2>2
    <3> HIDE DEF n, k, f, x, d
    <3> QED BY <1>1, <1>5, <3>1, <3>2, TimesPop
  <2>8. Regular'
    <3>1. Times(thread'.stack, frames', Shown', Lag')
      BY <1>2, <2>6, <2>7
    <3>2. ~thread'.deferred.has
      BY <2>1, <2>4
    <3> HIDE DEF n, k, f, x, d
    <3> QED BY <1>6, <2>5, <3>1, <3>2 DEF Regular
  <2>9. on => tab2 = Tally(truth', f.m, x, x - f.kids)
    <3>1. on => tab = truth
      BY <1>4, <1>5, <2>1
    <3>2. on => tab2 = Tally(tab, f.m, x, x - f.kids)
      BY <1>10, <2>2 DEF UnwindAdds
    <3> HIDE DEF f, x
    <3> QED BY <1>2, <3>1, <3>2
  <2> QED BY <2>6, <2>8, <2>9
<1> QED BY <1>7, <1>9, <1>10

LEMMA UnwoundExact ==
  ASSUME TypeInv, ShadowInv, NEW on \in BOOLEAN, NEW tab, Level(on, tab), FrameUnwound
  PROVE  Level(on, tab)'
<1> SUFFICES ASSUME ~irregular'
             PROVE  Regular' /\ (on => Settled(tab)' = Foreseen')
  BY DEF Level
<1> DEFINE n == Len(frames)
           f == frames[n]
           x == now - f.enter
           d == thread.deferred
<1>1. /\ RuntimeInv /\ Single /\ now \in Nat /\ n \in Nat /\ Shown \in SUBSET (1..n)
      /\ Timed(thread.stack, frames, Shown) /\ d.entry \in Entries
  BY TimeTypes
<1>2. /\ UNCHANGED <<now, irregular, thread>>
      /\ EndTopFrame(now) /\ frames # <<>> /\ n >= 1
      /\ Left = n /\ Left' = 0
      /\ Shown' = Shown /\ Shown = IncludedBelow
  BY <1>1, UnwoundShown
<1>3. /\ f.enter \in Nat /\ f.kids \in Nat /\ f.enter >= 1 /\ f.enter + f.kids <= now
  <2>1. n \in 1..n
    BY <1>1, <1>2
  <2> QED BY <1>1, <2>1, RuntimeTypes DEF RuntimeInv, FramesInv
<1>4. Regular /\ (on => Settled(tab) = Foreseen)
  BY <1>2 DEF Level
<1>5. /\ f.m \in Included =>
           /\ x \in Nat
           /\ KidsGrow(frames', frames, Shown, x)
           /\ truth' = Tally(truth, f.m, x, x - f.kids)
      /\ f.m \notin Included =>
           /\ KidsGrow(frames', frames, Shown, 0)
           /\ truth' = truth
  <2>1. now >= now
    BY <1>1
  <2> QED BY <1>1, <1>2, <2>1, EndedTimes DEF TypeInv
<1>6. ~Held' /\ ~Ahead' /\ Foreseen' = truth' /\ (Behind' <=> d.has)
      /\ Lag' = 0 - (IF d.has THEN Late ELSE 0)
      /\ Settled(tab)' = IF d.has THEN Tally(tab, thread.catcher, Late, LateSelf) ELSE tab
  <2>1. ~Held' /\ ~Ahead'
    BY <1>2 DEF Held, Ahead
  <2> QED BY <1>2, <2>1 DEF Behind, Lag, Settled, Foreseen, Late, LateSelf
<1>7. frames[Left] = f /\ Left # 0
  BY <1>1, <1>2
<1>8. d.has => Late \in Nat
  <2>1. d.entry.enterTsNs <= d.tsNs /\ d.tsNs \in Nat
    BY ThreadFields DEF TypeInv, ProfilerInv, Timely
  <2> QED BY <1>1, <2>1, TimesAreNat DEF Late
<1>9. ASSUME NEW lag \in Int, NEW y \in Int, Times(thread.stack, frames, Shown, lag),
             KidsGrow(frames', frames, Shown, y), Lag' = lag - y
      PROVE  Regular'
  <2>1. Times(thread.stack, frames', Shown, lag - y)
    <3> HIDE DEF n
    <3> QED BY <1>1, <1>9, TimesShift
  <2>2. Times(thread'.stack, frames', Shown', Lag')
    BY <1>2, <1>9, <2>1
  <2> QED BY <1>2, <1>6, <2>2 DEF Regular
<1>10. CASE f.m \notin Included
  <2>1. ~Held /\ ~Ahead
    BY <1>7, <1>10 DEF Held, Ahead
  <2>2. Lag = Lag' /\ Settled(tab) = Settled(tab)' /\ Foreseen = truth
    BY <1>6, <2>1 DEF Behind, Lag, Settled, Foreseen
  <2>3. Lag' = Lag - 0 /\ Lag \in Int /\ 0 \in Int
    BY <1>6, <1>8, <2>2
  <2>4. Regular'
    BY <1>4, <1>5, <1>9, <1>10, <2>3 DEF Regular
  <2> QED BY <1>4, <1>5, <1>6, <1>10, <2>2, <2>4
<1>11. CASE Held
  <2>1. f.m = thread.catcher /\ f.m \in Included /\ ~Ahead /\ ~Behind
    BY <1>7, <1>11 DEF Held, Ahead, Behind
  <2>2. Lag = 0 /\ Settled(tab) = tab /\ Foreseen = truth
    BY <2>1 DEF Lag, Settled, Foreseen
  <2>3. /\ d.has /\ d.entry.enterTsNs = f.enter /\ d.entry.childrenTimeNs = f.kids /\ d.tsNs = now
    BY <1>4, <1>7, <1>11 DEF ShadowInv, DeferredInv, Regular
  <2>4. x \in Nat /\ Late = x /\ LateSelf = x - f.kids
    <3>1. Late = x
      <4>1. d.entry.enterTsNs <= now /\ d.entry.enterTsNs >= 1
        BY <1>1, <1>3, <2>3
      <4>2. InclusiveNs(d.entry, now) = now - d.entry.enterTsNs
        BY <1>1, <4>1, TimesAreNat
      <4> QED BY <2>3, <4>2 DEF Late
    <3>2. d.entry.childrenTimeNs <= InclusiveNs(d.entry, now) /\ x \in Nat
      BY <1>1, <1>3, <2>3, <3>1 DEF Late
    <3>3. d.entry.enterTsNs <= now
      BY <1>1, <1>3, <2>3
    <3>4. SelfNs(d.entry, now) = InclusiveNs(d.entry, now) - d.entry.childrenTimeNs
      BY <1>1, <3>2, <3>3, TimesAreNat
    <3> QED BY <2>3, <3>1, <3>2, <3>4 DEF Late, LateSelf
  <2> HIDE DEF f, x, d
  <2>5. Lag' = 0 - x /\ x \in Int /\ 0 \in Int
    BY <1>6, <2>3, <2>4
  <2>6. Regular'
    BY <1>4, <1>5, <1>9, <2>1, <2>2, <2>5 DEF Regular
  <2>7. Settled(tab)' = Tally(tab, f.m, x, x - f.kids)
    BY <1>6, <2>1, <2>3, <2>4
  <2> QED BY <1>4, <1>5, <1>6, <2>1, <2>2, <2>6, <2>7
<1>12. CASE Ahead
  <2>1. f.m \in Included /\ ~Held /\ Early = x
    BY <1>7, <1>12 DEF Ahead, Held, Early
  <2>2. ~d.has /\ ~Behind
    BY <1>4, <1>12 DEF Regular, Behind
  <2>3. Lag = x - 0 /\ Settled(tab) = tab /\ Foreseen = Tally(truth, f.m, x, x - f.kids)
    BY <1>7, <1>12, <2>1, <2>2 DEF Lag, Settled, Foreseen
  <2> HIDE DEF f, x, d
  <2>4. x \in Int /\ Lag = x /\ Lag' = x - x
    BY <1>5, <1>6, <2>1, <2>2, <2>3
  <2>5. Regular'
    BY <1>4, <1>5, <1>9, <2>1, <2>4 DEF Regular
  <2>6. Settled(tab)' = tab
    BY <1>6, <2>2
  <2> QED BY <1>4, <1>5, <1>6, <2>1, <2>3, <2>5, <2>6
<1>13. f.m \notin Included \/ Held \/ Ahead
  BY <1>7 DEF Held, Ahead
<1> QED BY <1>10, <1>11, <1>12, <1>13

LEMMA CaughtExact ==
  ASSUME TypeInv, ShadowInv, NEW on \in BOOLEAN, NEW tab, Level(on, tab),
         MonitorExceptions, CatcherEntered
  PROVE  Level(on, tab)'
<1> SUFFICES ASSUME ~irregular'
             PROVE  Regular' /\ (on => Settled(tab)' = Foreseen')
  BY DEF Level
<1> DEFINE n == Len(frames)
<1>1. /\ RuntimeInv /\ Single /\ n \in Nat /\ Shown \in SUBSET (1..n)
      /\ Timed(thread.stack, frames, Shown)
      /\ Len(thread.stack) = Cardinality(Shown)
  BY TimeTypes
<1>2. /\ UNCHANGED <<now, frames, truth, irregular>> /\ n \in 1..n
      /\ Left = n /\ Left' = 0 /\ Left # 0
      /\ Shown \subseteq 1..n - 1
      /\ Shown' = IF frames[n].m \in Included THEN Shown \cup {n} ELSE Shown
  BY <1>1, CaughtShown
<1>3. /\ thread.deferred.has <=> Held
      /\ Held <=> frames[n].m \in Included
      /\ thread.catcher = frames[n].m
      /\ Held =>
           /\ \A j \in 1..Len(thread.stack) : thread'.stack[j] = thread.stack[j]
           /\ thread'.stack[Len(thread.stack) + 1] = thread.deferred.entry
      /\ ~Held => thread'.stack = thread.stack
      /\ thread'.deferred.has = FALSE
  BY CaughtShadow
<1>4. ~Ahead /\ ~Behind
  BY <1>2, <1>3 DEF Ahead, Behind
<1>5. Lag = 0 /\ Settled(tab) = tab /\ Foreseen = truth
  BY <1>4 DEF Lag, Settled, Foreseen
<1>6. Regular /\ Times(thread.stack, frames, Shown, 0) /\ (on => tab = truth)
  BY <1>2, <1>5 DEF Level, Regular
<1>7. ~Held' /\ ~Ahead' /\ Lag' = 0 /\ Settled(tab)' = tab /\ Foreseen' = truth'
  BY <1>2, <1>3, QuietNext
<1>8. Times(thread'.stack, frames', Shown', 0)
  <2>1. CASE Held
    <3>1. thread.deferred.entry.childrenTimeNs = frames[n].kids
      BY <1>2, <1>6, <2>1 DEF Regular
    <3>2. \A y \in Shown : y < n
      BY <1>2
    <3>3. /\ \A j \in 1..Len(thread.stack) : thread'.stack[j].childrenTimeNs = thread.stack[j].childrenTimeNs
          /\ thread'.stack[Len(thread.stack) + 1].childrenTimeNs = frames'[n].kids
          /\ \A i \in Shown : frames'[i].kids = frames[i].kids
          /\ Shown' = Shown \cup {n}
      BY <1>2, <1>3, <2>1, <3>1
    <3>4. frames'[n].kids \in Nat
      BY <1>1, <1>2, RuntimeTypes
    <3> HIDE DEF n
    <3>5. Times(thread'.stack, frames', Shown \cup {n}, 0)
      BY <1>1, <1>2, <1>6, <3>2, <3>3, <3>4, TimesPush
    <3> QED BY <3>3, <3>5
  <2>2. CASE ~Held
    <3>1. thread'.stack = thread.stack /\ Shown' = Shown /\ frames' = frames
      BY <1>2, <1>3, <2>2
    <3> QED BY <1>6, <3>1
  <2> QED BY <2>1, <2>2
<1>9. Regular'
  BY <1>2, <1>7, <1>8 DEF Regular
<1> QED BY <1>2, <1>3, <1>6, <1>7, <1>9

\* The tallies of the profiler are such a table.
LEMMA ReturnStats ==
  ASSUME TypeInv, ShadowInv, Return, "method_stats" \in Events
  PROVE  ReturnAdds(stats', stats)
<1> DEFINE f == frames[Len(frames)]
           e == thread.stack[Len(thread.stack)]
<1>1. RuntimeInv /\ Single /\ Timely(thread, now) /\ now \in Nat
  BY TimeTypes
<1>2. /\ now' \in Nat /\ now' >= now
      /\ Len(frames) \in Shown <=> f.m \in Included
      /\ IF f.m \in Included THEN ProcessLeave(f.m, now') ELSE UNCHANGED <<thread, stats, event>>
  BY <1>1, ReturnShown
<1>3. CASE f.m \in Included
  <2>1. Len(thread.stack) # 0 /\ Timely(thread, now')
    BY <1>1, <1>2, <1>3, TopShown, TimelyLater
  <2>2. stats' = RecordMethod(stats, f.m, InclusiveNs(e, now'), SelfNs(e, now'))
    BY <1>2, <1>3, <2>1, LeaveIs
  <2> QED BY <1>3, <2>2 DEF RecordMethod, ReturnAdds
<1>4. CASE f.m \notin Included
  BY <1>2, <1>4 DEF ReturnAdds
<1> QED BY <1>3, <1>4

LEMMA UnwindStats ==
  ASSUME TypeInv, ShadowInv, MonitorExceptions, UnwindFrame, "method_stats" \in Events
  PROVE  UnwindAdds(stats', stats)
<1> DEFINE f == frames[Len(frames)]
           e == thread.stack[Len(thread.stack)]
           d == thread.deferred
<1>1. RuntimeInv /\ Single /\ Timely(thread, now) /\ now \in Nat
  BY TimeTypes
<1>2. /\ now' \in Nat /\ now' >= now
      /\ Len(frames) \in Shown <=> f.m \in Included
      /\ ExceptionUnwindFunctionEnter(f.m, now')
  BY <1>1, UnwindShown
<1>3. f.m \in Included => Len(thread.stack) # 0 /\ e.functionId = f.m /\ Timely(thread, now')
  BY <1>1, <1>2, TopShown, TimelyLater
<1>4. CASE f.m \notin Included
  BY <1>2, <1>4 DEF ExceptionUnwindFunctionEnter, UnwindAdds
<1>5. CASE f.m \in Included /\ thread.catcher = f.m
  <2>1. DeferUnwind(f.m, now')
    BY <1>2, <1>5 DEF ExceptionUnwindFunctionEnter
  <2>2. HoldsBack(f.m, now')
    BY <1>2, <1>3, <1>5, <2>1, DeferIs
  <2>3. stats' = IF d.has THEN FinalizedStats(thread, stats) ELSE stats
    BY <2>2 DEF HoldsBack
  <2>4. d.has => d.functionId = f.m
    BY <1>5 DEF ShadowInv, DeferredInv
  <2> QED BY <1>5, <2>3, <2>4 DEF FinalizedStats, RecordMethod, Late, LateSelf, UnwindAdds
<1>6. CASE f.m \in Included /\ thread.catcher # f.m
  <2>1. FinishUnwound(f.m, now')
    BY <1>2, <1>6 DEF ExceptionUnwindFunctionEnter
  <2>2. stats' = RecordMethod(stats, f.m, InclusiveNs(e, now'), SelfNs(e, now'))
    BY <1>2, <1>3, <1>6, <2>1, FinishIs
  <2> QED BY <1>6, <2>2 DEF RecordMethod, UnwindAdds
<1> QED BY <1>4, <1>5, <1>6

\* A step in which no call is reported.
LEMMA QuietExact ==
  ASSUME TypeInv, ShadowInv, Faithful, NEW on \in BOOLEAN, NEW tab, Level(on, tab),
         \/ \E m \in Methods : Call(m)
         \/ \E c \in 0..Len(frames) : Throw(c)
         \/ CatcherFound \/ FrameUnwound \/ CatcherEntered \/ UNCHANGED vars
  PROVE  Level(on, tab)'
<1>1. MonitorExceptions /\ ~NestedThrows /\ RuntimeInv /\ Single
  BY DEF Faithful, TypeInv, ShadowInv
<1>2. ASSUME NEW m \in Methods, Call(m) PROVE Level(on, tab)'
  BY <1>2, CallExact
<1>3. ASSUME NEW c \in 0..Len(frames), Throw(c) PROVE Level(on, tab)'
  <2>1. /\ UNCHANGED <<now, frames, truth, irregular, thread, stats>>
        /\ Left = 0 /\ Left' = 0 /\ ~Unwinding /\ Shown' = Shown
    BY <1>1, <1>3, ThrowShown
  <2>2. ~thread.deferred.has
    BY <2>1, Quiet
  <2> QED BY <2>1, <2>2, PhaseExact
<1>4. CASE CatcherFound
  <2>1. /\ UNCHANGED <<now, frames, truth, irregular>>
        /\ Left = 0 /\ Left' = 0 /\ Shown' = Shown
    BY <1>1, <1>4, FoundShown
  <2>2. /\ ~thread.deferred.has /\ thread'.stack = thread.stack /\ thread'.deferred = thread.deferred
    BY <1>1, <1>4, FoundShadow
  <2> QED BY <2>1, <2>2, PhaseExact
<1>5. CASE FrameUnwound
  BY <1>5, UnwoundExact
<1>6. CASE CatcherEntered
  BY <1>1, <1>6, CaughtExact
<1>7. CASE UNCHANGED vars
  BY <1>7 DEF vars, Level, Regular, Settled, Foreseen, Lag, Ahead, Early, Behind, Late, LateSelf,
              Held, Left, Shown
<1> QED BY <1>2, <1>3, <1>4, <1>5, <1>6, <1>7

LEMMA ExactStep == Faithful /\ TypeInv /\ ShadowInv /\ ExactInv /\ [Next]_vars => ExactInv'
<1> SUFFICES ASSUME Faithful, TypeInv, ShadowInv, ExactInv, [Next]_vars PROVE ExactInv'
  OBVIOUS
<1> DEFINE on == "method_stats" \in Events
<1>1. MonitorExceptions /\ on \in BOOLEAN /\ RuntimeInv /\ Single
  BY DEF Faithful, TypeInv, ShadowInv
<1>2. PICK tab, tab2 : tab = stats /\ tab2 = stats'
  OBVIOUS
<1>3. Level(on, tab)
  BY <1>2 DEF ExactInv, Level, Settled
<1>4. ASSUME Level(on, tab2)' PROVE ExactInv'
  BY <1>2, <1>4 DEF ExactInv, Level, Settled
<1> HIDE DEF on
<1>5. CASE Return
  <2>1. on => ReturnAdds(tab2, tab)
    BY <1>2, <1>5, ReturnStats DEF on
  <2> QED BY <1>1, <1>3, <1>4, <1>5, <2>1, ReturnExact
<1>6. CASE UnwindFrame
  <2>1. on => UnwindAdds(tab2, tab)
    BY <1>1, <1>2, <1>6, UnwindStats DEF on
  <2> QED BY <1>1, <1>3, <1>4, <1>6, <2>1, UnwindExact
<1>7. CASE \/ \E m \in Methods : Call(m)
           \/ \E c \in 0..Len(frames) : Throw(c)
           \/ CatcherFound \/ FrameUnwound \/ CatcherEntered \/ UNCHANGED vars
  <2>1. tab2 = tab
    BY <1>1, <1>2, <1>7, FoundShadow, CaughtShadow DEF Call, EnterStub, Throw, FrameUnwound, vars
  <2> QED BY <1>1, <1>3, <1>4, <1>7, <2>1, QuietExact
<1> QED BY <1>5, <1>6, <1>7 DEF Next

\* At the start every table of zeroes is level.
LEMMA InitLevel ==
  ASSUME Init, NEW on \in BOOLEAN, NEW tab, tab = truth
  PROVE  Level(on, tab)
<1> SUFFICES Regular /\ Settled(tab) = Foreseen
  BY DEF Level
<1>1. /\ frames = <<>> /\ exc = <<>> /\ thread.deferred.has = FALSE
  BY DEF Init, NewThread, NoDeferred
<1>2. Left = 0 /\ Len(frames) = 0
  BY <1>1, EmptySeq DEF Left
<1>3. Shown = {}
  BY <1>2 DEF Shown
<1>4. ~Held /\ ~Ahead /\ Settled(tab) = tab /\ Foreseen = truth
  BY <1>1, <1>2, QuietIs
<1>5. Times(thread.stack, frames, Shown, Lag)
  BY <1>3 DEF Times
<1> QED BY <1>1, <1>2, <1>4, <1>5 DEF Regular

LEMMA InitExact == Init => ExactInv
<1> SUFFICES ASSUME Init PROVE ExactInv
  OBVIOUS
<1>1. PICK tab : tab = truth
  OBVIOUS
<1>2. Level("method_stats" \in Events, tab)
  <2> DEFINE on == "method_stats" \in Events
  <2>1. on \in BOOLEAN
    OBVIOUS
  <2> HIDE DEF on
  <2>2. Level(on, tab)
    BY <1>1, <2>1, InitLevel
  <2> QED BY <2>2 DEF on
<1>3. stats = tab
  BY <1>1 DEF Init
<1> QED BY <1>2, <1>3 DEF ExactInv, Level, Settled

LEMMA ExactInvHolds ==
  ASSUME Faithful
  PROVE  Spec => [](TypeInv /\ ShadowInv /\ ExactInv)
<1>1. TypeInv /\ ShadowInv /\ ExactInv /\ [Next]_vars => ExactInv'
  BY ExactStep
<1> QED BY <1>1, InitExact, ShadowInvHolds, PTL DEF Spec

LEMMA LevelWhenQuiet ==
  ASSUME ShadowInv, NEW tab, Level(TRUE, tab), ~Dispatching, ~irregular
  PROVE  tab = truth
<1>1. ~Unwinding
  BY DEF Dispatching, Unwinding
<1>2. Settled(tab) = tab /\ Foreseen = truth
  BY <1>1, Quiet, QuietIs
<1> QED BY <1>2 DEF Level

LEMMA StatsWhenQuiet ==
  ASSUME TypeInv, ShadowInv, ExactInv, ~Dispatching, ~irregular, "method_stats" \in Events
  PROVE  stats = truth
<1>1. PICK tab : tab = stats
  OBVIOUS
<1>2. Level(TRUE, tab)
  BY <1>1 DEF ExactInv, Level, Settled
<1> QED BY <1>1, <1>2, LevelWhenQuiet

(* Under the same conditions, between exceptions, the call counts and       *)
(* inclusive times recorded are those of an exact profile of the program,   *)
(* as long as no finally block made a call and no frame of another method   *)
(* was unwound while the catcher's entry was held back.                     *)
THEOREM InclusiveTimes ==
  ASSUME MonitorExceptions, ~NestedThrows
  PROVE  Spec => []InclusiveTimeExact
<1>1. Faithful
  BY DEF Faithful
<1>2. TypeInv /\ ShadowInv /\ ExactInv => InclusiveTimeExact
  BY StatsWhenQuiet DEF InclusiveTimeExact
<1> QED BY <1>1, <1>2, ExactInvHolds, PTL

(* The same of self times: a caller is charged for no time that its callees *)
(* spent, and for all that it spent itself.                                 *)
THEOREM SelfTimes ==
  ASSUME MonitorExceptions, ~NestedThrows
  PROVE  Spec => []RegularSelfTimeExact
<1>1. Faithful
  BY DEF Faithful
<1>2. TypeInv /\ ShadowInv /\ ExactInv => RegularSelfTimeExact
  BY StatsWhenQuiet DEF RegularSelfTimeExact
<1> QED BY <1>1, <1>2, ExactInvHolds, PTL

=============================================================================
