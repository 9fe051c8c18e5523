--------------------------- MODULE CallStackProofs ---------------------------
(***************************************************************************)
(* The type invariant of CallStack, for any methods, filters, clock and    *)
(* depth, and the lemmas on its operators.  It holds of every program,     *)
(* also where exceptions are not reported or handlers throw; what the      *)
(* shadow stack says of the real one is in CallStackShadowProofs.          *)
(***************************************************************************)
EXTENDS CallStack, FiniteSetTheorems, SequenceTheorems, TLAPS

(***************************************************************************)
(* Numbers and sequences.                                                  *)
(***************************************************************************)

\* A set of naturals has a least element; the library's induction rules take
\* an operator, its theorem on finite sets does not.
LEMMA LeastNat ==
  ASSUME NEW T \in SUBSET Nat, T # {}
  PROVE  \E x \in T : \A y \in T : x <= y
<1> DEFINE U == {1..n : n \in T}
<1>1. U \subseteq FiniteSubsetsOf(Nat) /\ U # {}
  <2>1. \A n \in T : IsFiniteSet(1..n) /\ 1..n \in SUBSET Nat
    BY FS_Interval
  <2> QED BY <2>1 DEF FiniteSubsetsOf
<1>2. \E u \in U : \A v \in U : ~ (<<v, u>> \in StrictSubsetOrdering(Nat))
  <2> HIDE DEF U
  <2> QED BY <1>1, FS_StrictSubsetOrderingWellFounded, WFMin, Zenon
<1>3. PICK x \in T : \A v \in U : ~ (<<v, 1..x>> \in StrictSubsetOrdering(Nat))
  BY <1>2
<1>4. ASSUME NEW y \in T, y < x PROVE FALSE
  <2>1. 1..y \subseteq 1..x /\ x \in 1..x /\ x \notin 1..y
    BY <1>4
  <2>2. <<1..y, 1..x>> \in StrictSubsetOrdering(Nat)
    BY <1>1, <2>1 DEF StrictSubsetOrdering, FiniteSubsetsOf
  <2> QED BY <1>3, <2>2
<1> QED BY <1>4

LEMMA MaxProperties ==
  ASSUME NEW n \in Nat, NEW T \in SUBSET (1..n), T # {}
  PROVE  Max(T) \in T /\ \A y \in T : y <= Max(T)
<1> DEFINE U == {i \in Nat : n - i \in T}
<1>1. U \in SUBSET Nat /\ U # {}
  <2>1. PICK i \in T : TRUE
    OBVIOUS
  <2>2. n - i \in U
    BY <2>1
  <2> QED BY <2>2
<1>2. PICK x \in U : \A y \in U : x <= y
  BY <1>1, LeastNat
<1>3. ASSUME NEW y \in T PROVE n - x >= y
  <2>1. n - y \in U
    OBVIOUS
  <2> QED BY <1>2, <2>1
<1> QED BY <1>3 DEF Max

LEMMA MaxOfZeroAnd ==
  ASSUME NEW x \in Int
  PROVE  Max({0, x}) = IF x > 0 THEN x ELSE 0
BY DEF Max

LEMMA FrontLast ==
  ASSUME NEW S, NEW s \in Seq(S), s # <<>>
  PROVE  /\ Len(s) \in Nat /\ Len(s) >= 1 /\ Len(s) \in 1..Len(s)
         /\ Last(s) = s[Len(s)] /\ Last(s) \in S
         /\ Front(s) \in Seq(S) /\ Len(Front(s)) = Len(s) - 1
         /\ \A i \in 1..Len(s) - 1 : Front(s)[i] = s[i]
<1>1. Len(s) \in Nat /\ Len(s) >= 1 /\ \A i \in 1..Len(s) : s[i] \in S
  BY EmptySeq, LenProperties, ElementOfSeq
<1> DEFINE k == Len(s) - 1
<1>2. k \in Nat /\ \A i \in 1..k : s[i] \in S
  BY <1>1
<1> HIDE DEF k
<1>3. /\ SubSeq(s, 1, k) \in Seq(S) /\ Len(SubSeq(s, 1, k)) = k
      /\ \A i \in 1..k : SubSeq(s, 1, k)[i] = s[i]
  BY <1>2, SubSeqProperties
<1> QED BY <1>1, <1>3 DEF Front, Last, k

LEMMA EmptyIffLen ==
  ASSUME NEW S, NEW s \in Seq(S)
  PROVE  Len(s) \in Nat /\ (s = <<>> <=> Len(s) = 0)
BY EmptySeq, LenProperties

-----------------------------------------------------------------------------
(* The runtime.                                                            *)

Phases == {"search", "unwind", "finally"}
Frame == [m : Methods, enter : Nat, kids : Nat]
Dispatch == [catcher : Nat, at : Nat, phase : Phases]

\* Frames do not start in the future, and an included frame has been running
\* for longer than the included calls it has made.
FramesInv ==
  /\ \A i \in 1..Len(frames) : frames[i].enter >= 1 /\ frames[i].enter + frames[i].kids <= now
  /\ \A i, j \in 1..Len(frames) :
       (i < j /\ frames[i].m \in Included /\ frames[j].m \in Included) =>
         frames[i].enter + frames[i].kids <= frames[j].enter

\* Dispatches are nested: an inner one is caught above the frame at which the
\* outer one is.
DispatchInv ==
  /\ \A i \in 1..Len(exc) :
       /\ exc[i].at >= 1 /\ exc[i].at <= Len(frames) /\ exc[i].catcher <= exc[i].at
       /\ exc[i].phase = "unwind" => i = Len(exc) /\ exc[i].at = Len(frames)
  /\ \A i, j \in 1..Len(exc) : i < j => exc[i].at < exc[j].catcher

RuntimeInv ==
  /\ now \in Nat /\ now >= 1
  /\ frames \in Seq(Frame) /\ exc \in Seq(Dispatch)
  /\ truth \in [MethodIds -> Tallies] /\ irregular \in BOOLEAN
  /\ FramesInv /\ DispatchInv

LEMMA RuntimeTypes ==
  ASSUME RuntimeInv
  PROVE  /\ Len(frames) \in Nat /\ Len(exc) \in Nat
         /\ \A i \in 1..Len(frames) :
              /\ frames[i] \in Frame /\ frames[i].m \in Methods
              /\ frames[i].enter \in Nat /\ frames[i].kids \in Nat
         /\ \A i \in 1..Len(exc) :
              /\ exc[i] \in Dispatch /\ exc[i].at \in Nat /\ exc[i].catcher \in Nat
              /\ exc[i].phase \in Phases
<1>1. Len(frames) \in Nat /\ \A i \in 1..Len(frames) : frames[i] \in Frame
  BY EmptyIffLen, ElementOfSeq DEF RuntimeInv
<1>2. Len(exc) \in Nat /\ \A i \in 1..Len(exc) : exc[i] \in Dispatch
  BY EmptyIffLen, ElementOfSeq DEF RuntimeInv
<1> QED BY <1>1, <1>2 DEF Frame, Dispatch

LEMMA TallyType ==
  ASSUME NEW tab \in [MethodIds -> Tallies], NEW m \in MethodIds,
         NEW inclusive \in Nat, NEW self \in Nat
  PROVE  Tally(tab, m, inclusive, self) \in [MethodIds -> Tallies]
<1>1. tab[m] \in Tallies
  OBVIOUS
<1>2. [callCount |-> tab[m].callCount + 1,
       totalInclusiveNs |-> tab[m].totalInclusiveNs + inclusive,
       totalSelfNs |-> tab[m].totalSelfNs + self] \in Tallies
  BY <1>1 DEF Tallies
<1> QED BY <1>2 DEF Tally

\* What the CLR's stack is after its top frame has ended.
LEMMA EndTopFrameIs ==
  ASSUME RuntimeInv, frames # <<>>, NEW t \in Nat, t >= now, EndTopFrame(t)
  PROVE  LET n == Len(frames)
             f == frames[n]
             parent == Max(IncludedBelow)
         IN  /\ n \in Nat /\ n >= 1 /\ f \in Frame
             /\ frames' \in Seq(Frame) /\ Len(frames') = n - 1
             /\ \A i \in 1..n - 1 :
                  /\ frames'[i].m = frames[i].m /\ frames'[i].enter = frames[i].enter
                  /\ frames'[i].kids = IF f.m \in Included /\ IncludedBelow # {} /\ i = parent
                                       THEN frames[i].kids + (t - f.enter)
                                       ELSE frames[i].kids
             /\ t - f.enter \in Nat /\ (t - f.enter) - f.kids \in Nat
             /\ truth' = IF f.m \in Included
                         THEN Tally(truth, f.m, t - f.enter, (t - f.enter) - f.kids)
                         ELSE truth
             /\ IncludedBelow # {} =>
                  /\ parent \in 1..n - 1 /\ frames[parent].m \in Included
                  /\ \A i \in 1..n - 1 : frames[i].m \in Included => i <= parent
<1> DEFINE n == Len(frames)
           f == frames[n]
           parent == Max(IncludedBelow)
           rest == Front(frames)
<1>1. /\ n \in Nat /\ n >= 1 /\ Last(frames) = f /\ f \in Frame
      /\ rest \in Seq(Frame) /\ Len(rest) = n - 1
      /\ \A i \in 1..n - 1 : rest[i] = frames[i]
  BY FrontLast DEF RuntimeInv
<1>2. t - f.enter \in Nat /\ (t - f.enter) - f.kids \in Nat
  <2>1. f.enter \in Nat /\ f.kids \in Nat /\ f.enter + f.kids <= now /\ now \in Nat
    BY <1>1 DEF RuntimeInv, FramesInv, Frame
  <2> QED BY <2>1
<1>3. IncludedBelow # {} =>
        /\ parent \in 1..n - 1 /\ frames[parent].m \in Included
        /\ \A i \in 1..n - 1 : frames[i].m \in Included => i <= parent
  <2>1. n - 1 \in Nat /\ IncludedBelow \in SUBSET (1..n - 1)
    BY <1>1 DEF IncludedBelow
  <2>2. IncludedBelow # {} => parent \in IncludedBelow /\ \A y \in IncludedBelow : y <= parent
    BY <2>1, MaxProperties
  <2> QED BY <2>2 DEF IncludedBelow
<1>4. \A i \in 1..n - 1 : rest[i] \in Frame
  BY <1>1, ElementOfSeq
<1> HIDE DEF n, f, parent, rest
<1>5. /\ f.m \in Included /\ IncludedBelow # {} => frames' = [rest EXCEPT ![parent].kids = @ + (t - f.enter)]
      /\ ~(f.m \in Included /\ IncludedBelow # {}) => frames' = rest
      /\ truth' = IF f.m \in Included
                  THEN Tally(truth, f.m, t - f.enter, (t - f.enter) - f.kids)
                  ELSE truth
  BY <1>1 DEF EndTopFrame, rest, parent
<1>6. CASE f.m \in Included /\ IncludedBelow # {}
  <2> DEFINE e == [rest[parent] EXCEPT !.kids = @ + (t - f.enter)]
  <2>1. parent \in 1..Len(rest) /\ rest[parent] \in Frame
    BY <1>1, <1>3, <1>4, <1>6
  <2>2. e \in Frame /\ e.m = rest[parent].m /\ e.enter = rest[parent].enter
        /\ e.kids = rest[parent].kids + (t - f.enter)
    BY <1>2, <2>1 DEF Frame
  <2>3. frames' = [rest EXCEPT ![parent] = e]
    BY <1>5, <1>6
  <2> HIDE DEF e
  <2>4. /\ frames' \in Seq(Frame) /\ Len(frames') = n - 1
        /\ \A i \in 1..n - 1 : frames'[i] = IF i = parent THEN e ELSE rest[i]
    BY <1>1, <2>1, <2>2, <2>3, ExceptSeq
  <2> QED BY <1>1, <1>2, <1>3, <1>5, <1>6, <2>2, <2>4 DEF n, f, parent
<1>7. CASE ~(f.m \in Included /\ IncludedBelow # {})
  BY <1>1, <1>2, <1>3, <1>5, <1>7 DEF n, f, parent
<1> QED BY <1>6, <1>7

LEMMA EndTopFrameInv ==
  ASSUME RuntimeInv, frames # <<>>, now' \in Nat, now' >= now, EndTopFrame(now')
  PROVE  /\ frames' \in Seq(Frame) /\ truth' \in [MethodIds -> Tallies]
         /\ FramesInv'
<1> DEFINE n == Len(frames)
           f == frames[n]
           parent == Max(IncludedBelow)
           t == now'
<1>1. /\ n \in Nat /\ n >= 1 /\ f \in Frame
      /\ frames' \in Seq(Frame) /\ Len(frames') = n - 1
      /\ \A i \in 1..n - 1 :
           /\ frames'[i].m = frames[i].m /\ frames'[i].enter = frames[i].enter
           /\ frames'[i].kids = IF f.m \in Included /\ IncludedBelow # {} /\ i = parent
                                THEN frames[i].kids + (t - f.enter)
                                ELSE frames[i].kids
      /\ t - f.enter \in Nat /\ (t - f.enter) - f.kids \in Nat
      /\ truth' = IF f.m \in Included
                  THEN Tally(truth, f.m, t - f.enter, (t - f.enter) - f.kids)
                  ELSE truth
      /\ IncludedBelow # {} =>
           /\ parent \in 1..n - 1 /\ frames[parent].m \in Included
           /\ \A i \in 1..n - 1 : frames[i].m \in Included => i <= parent
  BY EndTopFrameIs
<1> HIDE DEF n, f, parent, t
<1>2. truth' \in [MethodIds -> Tallies]
  <2>1. f.m \in MethodIds
    BY <1>1 DEF Frame, MethodIds
  <2> QED BY <1>1, <2>1, TallyType DEF RuntimeInv
<1>3. /\ \A i \in 1..n : frames[i] \in Frame
      /\ now \in Nat /\ t \in Nat /\ t >= now
  BY ElementOfSeq DEF RuntimeInv, n, t
<1>4. /\ \A i \in 1..n : frames[i].enter >= 1 /\ frames[i].enter + frames[i].kids <= now
      /\ \A i, j \in 1..n :
           (i < j /\ frames[i].m \in Included /\ frames[j].m \in Included) =>
             frames[i].enter + frames[i].kids <= frames[j].enter
      /\ \A i \in 1..n : frames[i].enter \in Nat /\ frames[i].kids \in Nat
  BY <1>3 DEF RuntimeInv, FramesInv, n, Frame
<1>5. n \in 1..n /\ \A i \in 1..n - 1 : i \in 1..n /\ i < n
  BY <1>1
<1>0. f = frames[n]
  BY DEF f
<1>6. \A i \in 1..n - 1 : frames'[i].enter >= 1 /\ frames'[i].enter + frames'[i].kids <= t
  <2> SUFFICES ASSUME NEW i \in 1..n - 1
               PROVE  frames'[i].enter >= 1 /\ frames'[i].enter + frames'[i].kids <= t
    OBVIOUS
  <2>1. CASE f.m \in Included /\ IncludedBelow # {} /\ i = parent
    <3>1. frames[i].enter + frames[i].kids <= f.enter
      <4>1. frames[i].m \in Included /\ frames[n].m \in Included /\ i \in 1..n /\ i < n
        BY <1>0, <1>1, <1>5, <2>1
      <4> QED BY <1>0, <1>4, <1>5, <4>1
    <3>2. frames'[i].enter = frames[i].enter /\ frames'[i].kids = frames[i].kids + (t - f.enter)
      BY <1>1, <2>1
    <3>3. f.enter \in Nat /\ frames[i].enter \in Nat /\ frames[i].kids \in Nat /\ frames[i].enter >= 1
      BY <1>0, <1>4, <1>5
    <3> QED BY <1>3, <3>1, <3>2, <3>3
  <2>2. CASE ~(f.m \in Included /\ IncludedBelow # {} /\ i = parent)
    <3>1. frames'[i].enter = frames[i].enter /\ frames'[i].kids = frames[i].kids
      BY <1>1, <2>2
    <3>2. i \in 1..n /\ frames[i].enter \in Nat /\ frames[i].kids \in Nat
      BY <1>4, <1>5
    <3> QED BY <1>3, <1>4, <3>1, <3>2
  <2> QED BY <2>1, <2>2
<1>7. ASSUME NEW i \in 1..n - 1, NEW j \in 1..n - 1,
             i < j, frames'[i].m \in Included, frames'[j].m \in Included
      PROVE  frames'[i].enter + frames'[i].kids <= frames'[j].enter
  <2>1. ~(IncludedBelow # {} /\ i = parent)
    BY <1>1, <1>7
  <2> QED BY <1>1, <1>4, <1>5, <1>7, <2>1
<1> QED BY <1>1, <1>2, <1>6, <1>7 DEF FramesInv, t

\* The innermost dispatch moves on.
LEMMA PhaseChanges ==
  ASSUME exc \in Seq(Dispatch), exc # <<>>, NEW p \in Phases, NEW d \in {0, 1},
         Last(exc).at >= 1,
         exc' = [exc EXCEPT ![Len(exc)].at = @ - d, ![Len(exc)].phase = p]
  PROVE  /\ exc' \in Seq(Dispatch) /\ Len(exc') = Len(exc) /\ Len(exc) \in Nat /\ Len(exc) >= 1
         /\ \A i \in 1..Len(exc) : i # Len(exc) => exc'[i] = exc[i]
         /\ exc'[Len(exc)].at = exc[Len(exc)].at - d
         /\ exc'[Len(exc)].catcher = exc[Len(exc)].catcher
         /\ exc'[Len(exc)].phase = p
<1> DEFINE n == Len(exc)
           e == [exc[n] EXCEPT !.at = @ - d, !.phase = p]
<1>1. n \in Nat /\ n >= 1 /\ n \in 1..n /\ Last(exc) = exc[n] /\ exc[n] \in Dispatch
  BY FrontLast
<1>2. e \in Dispatch /\ e.at = exc[n].at - d /\ e.catcher = exc[n].catcher /\ e.phase = p
  <2>1. exc[n].at \in Nat /\ exc[n].at >= 1 /\ d \in Nat /\ d <= 1
    BY <1>1 DEF Dispatch
  <2>2. exc[n].at - d \in Nat
    BY <2>1
  <2> QED BY <1>1, <2>2 DEF Dispatch
<1>3. exc' = [exc EXCEPT ![n] = e]
  OBVIOUS
<1> HIDE DEF n, e
<1>4. exc' \in Seq(Dispatch) /\ Len(exc') = Len(exc)
      /\ \A i \in 1..Len(exc) : exc'[i] = IF i = n THEN e ELSE exc[i]
  BY <1>1, <1>2, <1>3, ExceptSeq, SMTT(30) DEF n
<1> QED BY <1>1, <1>2, <1>4 DEF n

LEMMA PhaseChangesOnly ==
  ASSUME exc \in Seq(Dispatch), exc # <<>>, NEW p \in Phases, Last(exc).at >= 1,
         exc' = [exc EXCEPT ![Len(exc)].phase = p]
  PROVE  /\ exc' \in Seq(Dispatch) /\ Len(exc') = Len(exc) /\ Len(exc) \in Nat /\ Len(exc) >= 1
         /\ \A i \in 1..Len(exc) : i # Len(exc) => exc'[i] = exc[i]
         /\ exc'[Len(exc)].at = exc[Len(exc)].at
         /\ exc'[Len(exc)].catcher = exc[Len(exc)].catcher
         /\ exc'[Len(exc)].phase = p
<1> DEFINE n == Len(exc)
           e == [exc[n] EXCEPT !.phase = p]
<1>1. n \in Nat /\ n >= 1 /\ n \in 1..n /\ Last(exc) = exc[n] /\ exc[n] \in Dispatch
  BY FrontLast
<1>2. e \in Dispatch /\ e.at = exc[n].at /\ e.catcher = exc[n].catcher /\ e.phase = p
  BY <1>1 DEF Dispatch
<1>3. exc' = [exc EXCEPT ![n] = e]
  OBVIOUS
<1> HIDE DEF n, e
<1>4. exc' \in Seq(Dispatch) /\ Len(exc') = Len(exc)
      /\ \A i \in 1..Len(exc) : exc'[i] = IF i = n THEN e ELSE exc[i]
  BY <1>1, <1>2, <1>3, ExceptSeq, SMTT(30) DEF n
<1> QED BY <1>1, <1>2, <1>4 DEF n

\* What is known of the innermost dispatch.
LEMMA InnermostIs ==
  ASSUME RuntimeInv, Dispatching
  PROVE  LET n == Len(exc)
         IN  /\ n \in Nat /\ n >= 1 /\ n \in 1..n /\ Last(exc) = exc[n] /\ exc[n] \in Dispatch
             /\ exc[n].at \in Nat /\ exc[n].catcher \in Nat /\ exc[n].phase \in Phases
             /\ exc[n].at >= 1 /\ exc[n].at <= Len(frames) /\ exc[n].catcher <= exc[n].at
             /\ frames # <<>> /\ Len(frames) \in Nat /\ Len(frames) >= 1
             /\ Last(frames) = frames[Len(frames)] /\ Last(frames) \in Frame
<1>1. /\ Len(exc) \in Nat /\ Len(exc) >= 1 /\ Len(exc) \in 1..Len(exc)
      /\ Last(exc) = exc[Len(exc)] /\ exc[Len(exc)] \in Dispatch
  BY FrontLast DEF RuntimeInv, Dispatching
<1>2. /\ exc[Len(exc)].at \in Nat /\ exc[Len(exc)].catcher \in Nat /\ exc[Len(exc)].phase \in Phases
      /\ exc[Len(exc)].at >= 1 /\ exc[Len(exc)].at <= Len(frames)
      /\ exc[Len(exc)].catcher <= exc[Len(exc)].at
  BY <1>1 DEF RuntimeInv, DispatchInv, Dispatch
<1>3. Len(frames) \in Nat /\ frames # <<>>
  BY <1>2, EmptyIffLen DEF RuntimeInv
<1>4. Len(frames) >= 1 /\ Last(frames) = frames[Len(frames)] /\ Last(frames) \in Frame
  BY <1>3, FrontLast DEF RuntimeInv
<1> QED BY <1>1, <1>2, <1>3, <1>4

\* A dispatch that is replaced, is gone or goes one frame down stays nested.
LEMMA CallRuntime ==
  ASSUME RuntimeInv, NEW m \in Methods, Call(m)
  PROVE  RuntimeInv'
<1> DEFINE n == Len(frames)
<1>1. PICK d \in Ticks : now' = now + d /\ frames' = Append(frames, [m |-> m, enter |-> now + d, kids |-> 0])
  BY DEF Call
<1> DEFINE f == [m |-> m, enter |-> now + d, kids |-> 0]
<1>2. d \in Nat /\ now' \in Nat /\ now' >= now /\ now \in Nat /\ now >= 1
  BY <1>1, CallStackAssumption DEF RuntimeInv
<1>3. f \in Frame /\ f.enter = now' /\ f.kids = 0
  BY <1>1, <1>2 DEF Frame
<1> HIDE DEF f
<1>4. /\ frames' \in Seq(Frame) /\ n \in Nat /\ Len(frames') = n + 1 /\ frames'[n + 1] = f
      /\ \A i \in 1..n : frames'[i] = frames[i] /\ frames[i] \in Frame
  BY <1>1, <1>3, AppendProperties, EmptyIffLen, ElementOfSeq DEF RuntimeInv, f
<1>5. exc' = exc /\ truth' = truth /\ irregular' \in BOOLEAN
  BY DEF Call, RuntimeInv
<1>6. ~(Dispatching /\ Last(exc).phase = "unwind")
  BY DEF Call, HandlerRuns
<1>7. \A i \in 1..n + 1 : i \in 1..n \/ i = n + 1
  BY <1>4
<1>8. \A i \in 1..n : frames[i].enter \in Nat /\ frames[i].kids \in Nat
                     /\ frames[i].enter >= 1 /\ frames[i].enter + frames[i].kids <= now
  BY <1>4 DEF RuntimeInv, FramesInv, Frame
<1>9. FramesInv'
  <2>1. \A i \in 1..n + 1 : frames'[i].enter >= 1 /\ frames'[i].enter + frames'[i].kids <= now'
    <3> SUFFICES ASSUME NEW i \in 1..n + 1
                 PROVE  frames'[i].enter >= 1 /\ frames'[i].enter + frames'[i].kids <= now'
      OBVIOUS
    <3>1. CASE i = n + 1
      BY <1>2, <1>3, <1>4, <3>1
    <3>2. CASE i \in 1..n
      BY <1>2, <1>4, <1>8, <3>2
    <3> QED BY <1>7, <3>1, <3>2
  <2>2. ASSUME NEW i \in 1..n + 1, NEW j \in 1..n + 1, i < j,
               frames'[i].m \in Included, frames'[j].m \in Included
        PROVE  frames'[i].enter + frames'[i].kids <= frames'[j].enter
    <3>1. i \in 1..n
      BY <1>4, <2>2
    <3>2. CASE j = n + 1
      BY <1>2, <1>3, <1>4, <1>8, <3>1, <3>2, SMTT(30)
    <3>3. CASE j \in 1..n
      BY <1>4, <2>2, <3>1, <3>3 DEF RuntimeInv, FramesInv
    <3> QED BY <1>7, <3>2, <3>3
  <2> QED BY <1>4, <2>1, <2>2 DEF FramesInv
<1>10. DispatchInv'
  <2>1. \A i \in 1..Len(exc) : exc[i].phase # "unwind"
    <3> SUFFICES ASSUME NEW i \in 1..Len(exc), exc[i].phase = "unwind" PROVE FALSE
      OBVIOUS
    <3>1. i = Len(exc)
      BY DEF RuntimeInv, DispatchInv
    <3>2. Dispatching
      BY EmptyIffLen DEF RuntimeInv, Dispatching
    <3> QED BY <1>6, <3>1, <3>2, InnermostIs
  <2>2. \A i \in 1..Len(exc) : exc[i].at \in Nat
    BY RuntimeTypes
  <2> QED BY <1>4, <1>5, <2>1, <2>2 DEF RuntimeInv, DispatchInv
<1> QED BY <1>2, <1>4, <1>5, <1>9, <1>10 DEF RuntimeInv

LEMMA ReturnRuntime ==
  ASSUME RuntimeInv, Return
  PROVE  RuntimeInv'
<1>1. PICK d \in Ticks : now' = now + d /\ EndTopFrame(now + d)
  BY DEF Return
<1>2. d \in Nat /\ now' \in Nat /\ now' >= now /\ now \in Nat /\ now' >= 1 /\ EndTopFrame(now')
  BY <1>1, CallStackAssumption DEF RuntimeInv
<1>3. frames # <<>> /\ exc' = exc /\ irregular' = irregular /\ TopReturns
  BY DEF Return
<1>4. /\ frames' \in Seq(Frame) /\ truth' \in [MethodIds -> Tallies] /\ FramesInv'
  BY <1>2, <1>3, EndTopFrameInv
<1>5. Len(frames') = Len(frames) - 1 /\ Len(frames) \in Nat
  BY <1>2, <1>3, EndTopFrameIs
<1>6. DispatchInv'
  <2>1. \A i \in 1..Len(exc) : exc[i].at \in Nat /\ exc[i].catcher \in Nat
    BY RuntimeTypes
  <2>2. \A i \in 1..Len(exc) : exc[i].phase # "unwind" /\ exc[i].at < Len(frames)
    <3> SUFFICES ASSUME NEW i \in 1..Len(exc)
                 PROVE  exc[i].phase # "unwind" /\ exc[i].at < Len(frames)
      OBVIOUS
    <3>1. Dispatching
      BY EmptyIffLen DEF RuntimeInv, Dispatching
    <3>2. Len(exc) \in 1..Len(exc) /\ Len(exc) \in Nat /\ Last(exc) = exc[Len(exc)]
      BY <3>1, InnermostIs
    <3>3. exc[Len(exc)].phase \in {"search", "finally"} /\ exc[Len(exc)].at < Len(frames)
      BY <1>3, <1>5, <2>1, <3>1, <3>2 DEF TopReturns, HandlerRuns
    <3>4. CASE i = Len(exc)
      BY <3>3, <3>4
    <3>5. CASE i < Len(exc)
      <4>1. exc[i].at < exc[Len(exc)].catcher /\ exc[Len(exc)].catcher <= exc[Len(exc)].at
        BY <3>2, <3>5 DEF RuntimeInv, DispatchInv
      <4>2. exc[i].phase # "unwind"
        BY <3>5 DEF RuntimeInv, DispatchInv
      <4> QED BY <1>5, <2>1, <3>2, <3>3, <4>1, <4>2
    <3> QED BY <3>2, <3>4, <3>5
  <2> QED BY <1>3, <1>5, <2>1, <2>2 DEF RuntimeInv, DispatchInv
<1> QED BY <1>2, <1>3, <1>4, <1>6 DEF RuntimeInv

LEMMA FramesLater ==
  ASSUME RuntimeInv, frames' = frames, now' \in Nat, now' >= now
  PROVE  FramesInv'
<1>1. \A i \in 1..Len(frames) :
        /\ frames[i].enter \in Nat /\ frames[i].kids \in Nat
        /\ frames[i].enter >= 1 /\ frames[i].enter + frames[i].kids <= now /\ now \in Nat
  BY RuntimeTypes DEF RuntimeInv, FramesInv
<1>2. \A i \in 1..Len(frames) : frames[i].enter >= 1 /\ frames[i].enter + frames[i].kids <= now'
  BY <1>1
<1> QED BY <1>2 DEF RuntimeInv, FramesInv

LEMMA ThrowRuntime ==
  ASSUME RuntimeInv, NEW c \in 0..Len(frames), Throw(c)
  PROVE  RuntimeInv'
<1> DEFINE n == Len(exc)
           e == [catcher |-> c, at |-> Len(frames), phase |-> "search"]
<1>1. UNCHANGED <<now, frames, truth, irregular>> /\ exc' = Append(exc, e) /\ frames # <<>>
  BY DEF Throw
<1>2. Len(frames) \in Nat /\ Len(frames) >= 1 /\ c \in Nat /\ c <= Len(frames)
  BY <1>1, FrontLast DEF RuntimeInv
<1>3. e \in Dispatch /\ e.catcher = c /\ e.at = Len(frames) /\ e.phase = "search"
  BY <1>2 DEF Dispatch, Phases
<1> HIDE DEF e
<1>4. /\ exc' \in Seq(Dispatch) /\ n \in Nat /\ Len(exc') = n + 1 /\ exc'[n + 1] = e
      /\ \A i \in 1..n : exc'[i] = exc[i]
  BY <1>1, <1>3, AppendProperties, EmptyIffLen DEF RuntimeInv
<1>5. \A i \in 1..n + 1 : i \in 1..n \/ i = n + 1
  BY <1>4
<1>6. \A i \in 1..n : exc[i].phase # "unwind" /\ exc[i].at < c
  <2> SUFFICES ASSUME NEW i \in 1..n PROVE exc[i].phase # "unwind" /\ exc[i].at < c
    OBVIOUS
  <2>1. Dispatching
    BY EmptyIffLen DEF RuntimeInv, Dispatching
  <2>2. n \in 1..n /\ n \in Nat /\ Last(exc) = exc[n] /\ exc[n].at \in Nat /\ exc[n].catcher \in Nat
    BY <2>1, InnermostIs
  <2>3. exc[n].phase # "unwind" /\ exc[n].at < c
    BY <1>2, <2>1, <2>2 DEF Throw, HandlerRuns
  <2>4. CASE i < n
    <3>1. exc[i].at < exc[n].catcher /\ exc[n].catcher <= exc[n].at /\ exc[i].phase # "unwind"
      BY <2>2, <2>4 DEF RuntimeInv, DispatchInv
    <3> QED BY <1>2, <2>2, <2>3, <3>1, RuntimeTypes
  <2> QED BY <2>2, <2>3, <2>4
<1>7. DispatchInv'
  <2>1. \A i \in 1..n + 1 :
          /\ exc'[i].at >= 1 /\ exc'[i].at <= Len(frames') /\ exc'[i].catcher <= exc'[i].at
          /\ exc'[i].phase # "unwind"
    BY <1>1, <1>2, <1>3, <1>4, <1>5, <1>6 DEF RuntimeInv, DispatchInv
  <2>2. ASSUME NEW i \in 1..n + 1, NEW j \in 1..n + 1, i < j
        PROVE  exc'[i].at < exc'[j].catcher
    <3>1. i \in 1..n
      BY <1>4, <2>2
    <3>2. CASE j = n + 1
      BY <1>3, <1>4, <1>6, <3>1, <3>2
    <3>3. CASE j \in 1..n
      BY <1>4, <2>2, <3>1, <3>3 DEF RuntimeInv, DispatchInv
    <3> QED BY <1>5, <3>2, <3>3
  <2> QED BY <1>4, <2>1, <2>2 DEF DispatchInv
<1> QED BY <1>1, <1>4, <1>7 DEF RuntimeInv, FramesInv

\* A change of phase alone.
LEMMA PhaseRuntime ==
  ASSUME RuntimeInv, Dispatching, NEW p \in Phases \ {"unwind"},
         exc' = [exc EXCEPT ![Len(exc)].phase = p], frames' = frames
  PROVE  exc' \in Seq(Dispatch) /\ DispatchInv'
<1>1. /\ exc' \in Seq(Dispatch) /\ Len(exc') = Len(exc) /\ Len(exc) \in Nat /\ Len(exc) >= 1
      /\ \A i \in 1..Len(exc) : i # Len(exc) => exc'[i] = exc[i]
      /\ exc'[Len(exc)].at = exc[Len(exc)].at
      /\ exc'[Len(exc)].catcher = exc[Len(exc)].catcher
      /\ exc'[Len(exc)].phase = p
  BY InnermostIs, PhaseChangesOnly DEF RuntimeInv, Dispatching
<1>2. \A i \in 1..Len(exc) : exc'[i].at = exc[i].at /\ exc'[i].catcher = exc[i].catcher
  BY <1>1
<1>3. \A i \in 1..Len(exc) : exc'[i].phase # "unwind"
  BY <1>1 DEF RuntimeInv, DispatchInv
<1> QED BY <1>1, <1>2, <1>3 DEF RuntimeInv, DispatchInv

LEMMA CatcherFoundRuntime ==
  ASSUME RuntimeInv, CatcherFound
  PROVE  RuntimeInv'
<1>1. /\ Dispatching /\ Len(frames) = Last(exc).at
      /\ exc' = [exc EXCEPT ![Len(exc)].phase = "unwind"]
      /\ UNCHANGED <<now, frames, truth, irregular>>
  BY DEF CatcherFound
<1>2. /\ exc' \in Seq(Dispatch) /\ Len(exc') = Len(exc) /\ Len(exc) \in Nat /\ Len(exc) >= 1
      /\ \A i \in 1..Len(exc) : i # Len(exc) => exc'[i] = exc[i]
      /\ exc'[Len(exc)].at = exc[Len(exc)].at
      /\ exc'[Len(exc)].catcher = exc[Len(exc)].catcher
      /\ exc'[Len(exc)].phase = "unwind"
  BY <1>1, InnermostIs, PhaseChangesOnly DEF RuntimeInv, Dispatching, Phases
<1>3. exc[Len(exc)].at = Len(frames)
  BY <1>1, InnermostIs
<1>4. \A i \in 1..Len(exc) : exc'[i].at = exc[i].at /\ exc'[i].catcher = exc[i].catcher
  BY <1>2
<1>5. DispatchInv'
  BY <1>1, <1>2, <1>3, <1>4 DEF RuntimeInv, DispatchInv
<1> QED BY <1>1, <1>2, <1>5 DEF RuntimeInv, FramesInv

LEMMA UnwindFrameRuntime ==
  ASSUME RuntimeInv, UnwindFrame
  PROVE  RuntimeInv'
<1>1. /\ Dispatching
      /\ exc' = [exc EXCEPT ![Len(exc)].phase = "finally"]
      /\ UNCHANGED <<frames, truth>>
  BY DEF UnwindFrame
<1>2. PICK d \in Ticks : now' = now + d
  BY DEF UnwindFrame
<1>3. now' \in Nat /\ now' >= now /\ now' >= 1 /\ irregular' \in BOOLEAN
  <2>1. irregular' \in BOOLEAN
    BY DEF UnwindFrame
  <2> QED BY <1>2, <2>1, CallStackAssumption DEF RuntimeInv
<1>4. exc' \in Seq(Dispatch) /\ DispatchInv'
  <2>1. "finally" \in Phases \ {"unwind"}
    BY DEF Phases
  <2> QED BY <1>1, <2>1, PhaseRuntime
<1>5. FramesInv'
  BY <1>1, <1>3, FramesLater
<1> QED BY <1>1, <1>3, <1>4, <1>5 DEF RuntimeInv

\* What is left when the innermost dispatch is over.
LEMMA DispatchEnds ==
  ASSUME RuntimeInv, Dispatching, exc' = Front(exc)
  PROVE  /\ exc' \in Seq(Dispatch) /\ Len(exc') = Len(exc) - 1
         /\ \A i \in 1..Len(exc') : exc'[i] = exc[i] /\ i \in 1..Len(exc) /\ i < Len(exc)
<1>1. /\ Len(exc) \in Nat /\ exc' \in Seq(Dispatch) /\ Len(exc') = Len(exc) - 1
      /\ \A i \in 1..Len(exc) - 1 : exc'[i] = exc[i]
  BY FrontLast DEF RuntimeInv, Dispatching
<1> QED BY <1>1

LEMMA FrameUnwoundRuntime ==
  ASSUME RuntimeInv, FrameUnwound
  PROVE  RuntimeInv'
<1> DEFINE n == Len(exc)
<1>1. /\ Dispatching /\ Len(frames) = Last(exc).at /\ Last(exc).at # Last(exc).catcher
      /\ EndTopFrame(now') /\ now' = now /\ irregular' = irregular
      /\ exc' = IF Last(exc).at = 1
                THEN Front(exc)
                ELSE [exc EXCEPT ![Len(exc)].at = @ - 1, ![Len(exc)].phase = "unwind"]
  BY DEF FrameUnwound
<1>2. /\ n \in Nat /\ n >= 1 /\ n \in 1..n /\ Last(exc) = exc[n]
      /\ exc[n].at \in Nat /\ exc[n].catcher \in Nat /\ exc[n].at >= 1 /\ exc[n].catcher <= exc[n].at
      /\ frames # <<>>
  BY <1>1, InnermostIs
<1>3. now \in Nat /\ now' \in Nat /\ now' >= now /\ now' >= 1
  BY <1>1 DEF RuntimeInv
<1>4. /\ frames' \in Seq(Frame) /\ truth' \in [MethodIds -> Tallies] /\ FramesInv'
  BY <1>1, <1>2, <1>3, EndTopFrameInv
<1>5. Len(frames') = Len(frames) - 1 /\ Len(frames) \in Nat /\ Len(frames) = exc[n].at
  BY <1>1, <1>2, <1>3, EndTopFrameIs
<1>6. \A i \in 1..n : i < n => /\ exc[i].at \in Nat /\ exc[i].at < exc[n].catcher
                              /\ exc[i].phase # "unwind" /\ exc[i].catcher <= exc[i].at
                              /\ exc[i].at >= 1
  BY <1>2, RuntimeTypes DEF RuntimeInv, DispatchInv
<1>7. CASE Last(exc).at = 1
  <2>1. /\ exc' \in Seq(Dispatch) /\ Len(exc') = n - 1
        /\ \A i \in 1..Len(exc') : exc'[i] = exc[i] /\ i \in 1..n /\ i < n
    BY <1>1, <1>7, DispatchEnds
  <2>2. exc[n].catcher = 0
    BY <1>1, <1>2, <1>7
  <2>3. ~ \E i \in 1..n : i < n
    BY <1>6, <2>2
  <2>4. DispatchInv'
    BY <2>1, <2>3 DEF DispatchInv
  <2> QED BY <1>1, <1>3, <1>4, <2>1, <2>4 DEF RuntimeInv
<1>8. CASE Last(exc).at # 1
  <2>1. /\ exc' \in Seq(Dispatch) /\ Len(exc') = n
        /\ \A i \in 1..n : i # n => exc'[i] = exc[i]
        /\ exc'[n].at = exc[n].at - 1
        /\ exc'[n].catcher = exc[n].catcher
        /\ exc'[n].phase = "unwind"
    BY <1>1, <1>2, <1>8, PhaseChanges DEF RuntimeInv, Dispatching, Phases
  <2>2. exc'[n].at >= 1 /\ exc'[n].at = Len(frames') /\ exc'[n].catcher <= exc'[n].at
    BY <1>1, <1>2, <1>5, <1>8, <2>1
  <2>3. \A i \in 1..n : i # n => i < n
    BY <1>2
  <2>4. \A i \in 1..n : i # n => exc'[i].at <= Len(frames')
    BY <1>2, <1>5, <1>6, <2>1, <2>2, <2>3
  <2>5. DispatchInv'
    <3>1. \A i \in 1..n :
            /\ exc'[i].at >= 1 /\ exc'[i].at <= Len(frames') /\ exc'[i].catcher <= exc'[i].at
            /\ exc'[i].phase = "unwind" => i = n /\ exc'[i].at = Len(frames')
      <4> SUFFICES ASSUME NEW i \in 1..n
                   PROVE  /\ exc'[i].at >= 1 /\ exc'[i].at <= Len(frames') /\ exc'[i].catcher <= exc'[i].at
                          /\ exc'[i].phase = "unwind" => i = n /\ exc'[i].at = Len(frames')
        OBVIOUS
      <4>1. CASE i = n
        BY <1>5, <2>2, <4>1
      <4>2. CASE i # n
        BY <1>6, <2>1, <2>3, <2>4, <4>2
      <4> QED BY <4>1, <4>2
    <3>2. \A i, j \in 1..n : i < j => exc'[i].at < exc'[j].catcher
      <4> SUFFICES ASSUME NEW i \in 1..n, NEW j \in 1..n, i < j
                   PROVE  exc'[i].at < exc'[j].catcher
        OBVIOUS
      <4>1. i # n /\ exc'[i] = exc[i]
        BY <1>2, <2>1
      <4>2. exc[i].at < exc[j].catcher
        BY DEF RuntimeInv, DispatchInv
      <4> QED BY <2>1, <4>1, <4>2
    <3> QED BY <2>1, <3>1, <3>2 DEF DispatchInv
  <2> QED BY <1>1, <1>3, <1>4, <2>1, <2>5 DEF RuntimeInv
<1> QED BY <1>7, <1>8

LEMMA CatcherEnteredRuntime ==
  ASSUME RuntimeInv, CatcherEntered
  PROVE  RuntimeInv'
<1>1. /\ Dispatching /\ exc' = Front(exc) /\ UNCHANGED <<now, frames, truth, irregular>>
  BY DEF CatcherEntered
<1>2. /\ exc' \in Seq(Dispatch)
      /\ \A i \in 1..Len(exc') : exc'[i] = exc[i] /\ i \in 1..Len(exc) /\ i < Len(exc)
  BY <1>1, DispatchEnds
<1>3. \A i \in 1..Len(exc') : exc'[i].phase # "unwind"
  BY <1>2, RuntimeTypes DEF RuntimeInv, DispatchInv
<1>4. DispatchInv'
  BY <1>1, <1>2, <1>3 DEF RuntimeInv, DispatchInv
<1> QED BY <1>1, <1>2, <1>4 DEF RuntimeInv, FramesInv

LEMMA RuntimeStep == RuntimeInv /\ [Next]_vars => RuntimeInv'
<1> SUFFICES ASSUME RuntimeInv, [Next]_vars PROVE RuntimeInv'
  OBVIOUS
<1>1. CASE UNCHANGED vars
  BY <1>1 DEF vars, RuntimeInv, FramesInv, DispatchInv
<1> QED BY <1>1, CallRuntime, ReturnRuntime, ThrowRuntime, CatcherFoundRuntime,
           UnwindFrameRuntime, FrameUnwoundRuntime, CatcherEnteredRuntime DEF Next

-----------------------------------------------------------------------------
(* The operations on the shadow stack.                                     *)

Deferral == [has : BOOLEAN, entry : Entries, functionId : MethodIds, tsNs : Nat]
Thread ==
  [stack : Seq(Entries), catcher : MethodIds, deferred : Deferral,
   nesting : [AsyncMethods -> Nat], firstEnter : [AsyncMethods -> Nat]]

\* All timestamps a thread holds have been read by time t.
Timely(th, t) ==
  /\ th \in Thread
  /\ \A k \in 1..Len(th.stack) : th.stack[k].enterTsNs <= t
  /\ th.deferred.entry.enterTsNs <= th.deferred.tsNs
  /\ th.deferred.tsNs <= t
  /\ \A m \in AsyncMethods : th.firstEnter[m] <= t

LEMMA ThreadFields ==
  ASSUME NEW th \in Thread
  PROVE  /\ th.stack \in Seq(Entries) /\ Len(th.stack) \in Nat
         /\ \A k \in 1..Len(th.stack) :
              /\ th.stack[k] \in Entries /\ th.stack[k].functionId \in MethodIds
              /\ th.stack[k].enterTsNs \in Nat /\ th.stack[k].childrenTimeNs \in Nat
         /\ th.deferred \in Deferral /\ th.deferred.entry \in Entries
         /\ th.deferred.entry.enterTsNs \in Nat /\ th.deferred.entry.childrenTimeNs \in Nat
         /\ th.deferred.entry.functionId \in MethodIds
         /\ th.deferred.functionId \in MethodIds /\ th.deferred.tsNs \in Nat
         /\ th.catcher \in MethodIds
         /\ th.nesting \in [AsyncMethods -> Nat] /\ th.firstEnter \in [AsyncMethods -> Nat]
<1>1. th.stack \in Seq(Entries) /\ th.deferred \in Deferral /\ th.deferred.entry \in Entries
  BY DEF Thread, Deferral
<1>2. Len(th.stack) \in Nat /\ \A k \in 1..Len(th.stack) : th.stack[k] \in Entries
  BY <1>1, EmptyIffLen, ElementOfSeq
<1> QED BY <1>1, <1>2 DEF Thread, Deferral, Entries

LEMMA NoEntryType == NoEntry \in Entries /\ NoDeferred \in Deferral
BY DEF NoEntry, NoDeferred, Entries, Deferral, MethodIds

LEMMA PushIs ==
  ASSUME NEW th \in Thread, NEW m \in MethodIds, NEW t \in Nat
  PROVE  LET r == Push(th, m, t)
             n == Len(th.stack)
         IN  /\ r \in Thread /\ Len(r.stack) = n + 1
             /\ \A k \in 1..n : r.stack[k] = th.stack[k]
             /\ r.stack[n + 1] = [functionId |-> m, enterTsNs |-> t, childrenTimeNs |-> 0]
             /\ r.catcher = th.catcher /\ r.deferred = th.deferred
             /\ r.nesting = th.nesting /\ r.firstEnter = th.firstEnter
<1> DEFINE e == [functionId |-> m, enterTsNs |-> t, childrenTimeNs |-> 0]
           r == Push(th, m, t)
<1>1. e \in Entries
  BY DEF Entries
<1>2. /\ Append(th.stack, e) \in Seq(Entries) /\ Len(Append(th.stack, e)) = Len(th.stack) + 1
      /\ \A k \in 1..Len(th.stack) : Append(th.stack, e)[k] = th.stack[k]
      /\ Append(th.stack, e)[Len(th.stack) + 1] = e
  BY <1>1, ThreadFields, AppendProperties
<1>3. r = [th EXCEPT !.stack = Append(th.stack, e)]
  BY DEF Push
<1> HIDE DEF e, r
<1>4. r \in Thread /\ r.stack = Append(th.stack, e)
      /\ r.catcher = th.catcher /\ r.deferred = th.deferred
      /\ r.nesting = th.nesting /\ r.firstEnter = th.firstEnter
  BY <1>2, <1>3 DEF Thread
<1> QED BY <1>2, <1>4 DEF r, e

LEMMA TopPopIs ==
  ASSUME NEW th \in Thread
  PROVE  LET r == Pop(th)
             n == Len(th.stack)
         IN  /\ Top(th) \in Entries
             /\ n = 0 => Top(th) = NoEntry /\ r = th
             /\ n # 0 => Top(th) = th.stack[n] /\ n \in 1..n /\ Len(r.stack) = n - 1
             /\ r \in Thread
             /\ \A k \in 1..Len(r.stack) : k \in 1..n /\ r.stack[k] = th.stack[k]
             /\ r.catcher = th.catcher /\ r.deferred = th.deferred
             /\ r.nesting = th.nesting /\ r.firstEnter = th.firstEnter
<1>1. CASE th.stack = <<>>
  BY <1>1, ThreadFields, EmptyIffLen, NoEntryType DEF Top, Pop
<1>2. CASE th.stack # <<>>
  <2> DEFINE s == th.stack
             n == Len(s)
             r == Pop(th)
  <2>1. /\ n \in Nat /\ n # 0 /\ n \in 1..n /\ Last(s) = s[n] /\ Last(s) \in Entries
        /\ Front(s) \in Seq(Entries) /\ Len(Front(s)) = n - 1
        /\ \A k \in 1..n - 1 : Front(s)[k] = s[k]
    <3>1. s \in Seq(Entries)
      BY ThreadFields
    <3> QED BY <1>2, <3>1, FrontLast
  <2>2. r = [th EXCEPT !.stack = Front(s)] /\ Top(th) = Last(s)
    BY <1>2 DEF Pop, Top
  <2> HIDE DEF r
  <2>3. /\ r \in Thread /\ r.stack = Front(s)
        /\ r.catcher = th.catcher /\ r.deferred = th.deferred
        /\ r.nesting = th.nesting /\ r.firstEnter = th.firstEnter
    BY <2>1, <2>2 DEF Thread
  <2> QED BY <2>1, <2>2, <2>3 DEF r
<1> QED BY <1>1, <1>2

LEMMA CreditIs ==
  ASSUME NEW th \in Thread, NEW x \in Nat
  PROVE  LET r == CreditParent(th, x)
             n == Len(th.stack)
         IN  /\ r \in Thread /\ Len(r.stack) = n
             /\ \A k \in 1..n :
                  /\ r.stack[k].functionId = th.stack[k].functionId
                  /\ r.stack[k].enterTsNs = th.stack[k].enterTsNs
                  /\ r.stack[k].childrenTimeNs = IF k = n THEN th.stack[k].childrenTimeNs + x
                                                 ELSE th.stack[k].childrenTimeNs
             /\ r.catcher = th.catcher /\ r.deferred = th.deferred
             /\ r.nesting = th.nesting /\ r.firstEnter = th.firstEnter
<1> DEFINE s == th.stack
           n == Len(s)
           r == CreditParent(th, x)
           e == [s[n] EXCEPT !.childrenTimeNs = @ + x]
<1>1. CASE s # <<>> /\ x > 0
  <2>1. n \in 1..n /\ s[n] \in Entries /\ s \in Seq(Entries)
    BY <1>1, ThreadFields, FrontLast
  <2>2. /\ e \in Entries /\ e.functionId = s[n].functionId /\ e.enterTsNs = s[n].enterTsNs
        /\ e.childrenTimeNs = s[n].childrenTimeNs + x
    BY <2>1, SMTT(30) DEF Entries
  <2>3. r = [th EXCEPT !.stack = [s EXCEPT ![n] = e]]
    BY <1>1 DEF CreditParent, Thread
  <2> HIDE DEF e, r, n
  <2>4. /\ [s EXCEPT ![n] = e] \in Seq(Entries) /\ Len([s EXCEPT ![n] = e]) = Len(s)
        /\ \A k \in 1..Len(s) : [s EXCEPT ![n] = e][k] = IF k = n THEN e ELSE s[k]
    BY <2>1, <2>2, ExceptSeq DEF n
  <2>5. /\ r \in Thread /\ r.stack = [s EXCEPT ![n] = e]
        /\ r.catcher = th.catcher /\ r.deferred = th.deferred
        /\ r.nesting = th.nesting /\ r.firstEnter = th.firstEnter
    BY <2>3, <2>4 DEF Thread
  <2> QED BY <2>2, <2>4, <2>5 DEF r, n
<1>2. CASE s = <<>>
  BY <1>2, ThreadFields, EmptyIffLen DEF CreditParent
<1>3. CASE x = 0
  BY <1>3, ThreadFields DEF CreditParent
<1> QED BY <1>1, <1>2, <1>3

LEMMA DecrementIs ==
  ASSUME NEW th \in Thread, NEW m
  PROVE  LET r == DecrementAsyncNesting(th, m)
         IN  /\ r \in Thread /\ r.stack = th.stack
             /\ r.catcher = th.catcher /\ r.deferred = th.deferred
             /\ \A a \in AsyncMethods :
                  /\ r.nesting[a] = IF a = m /\ th.nesting[a] > 0 THEN th.nesting[a] - 1
                                    ELSE th.nesting[a]
                  /\ r.firstEnter[a] = IF a = m /\ th.nesting[a] = 1 THEN 0 ELSE th.firstEnter[a]
<1> DEFINE r == DecrementAsyncNesting(th, m)
<1>1. CASE m \in AsyncMethods /\ th.nesting[m] > 0
  <2> DEFINE ne == [th.nesting EXCEPT ![m] = th.nesting[m] - 1]
             fe == [th.firstEnter EXCEPT ![m] = IF th.nesting[m] = 1 THEN 0 ELSE th.firstEnter[m]]
  <2>1. th.nesting \in [AsyncMethods -> Nat] /\ th.firstEnter \in [AsyncMethods -> Nat]
    BY ThreadFields
  <2>2. th.nesting[m] - 1 \in Nat
    BY <1>1, <2>1
  <2>3. ne \in [AsyncMethods -> Nat] /\ fe \in [AsyncMethods -> Nat]
    BY <1>1, <2>1, <2>2
  <2>4. r = [th EXCEPT !.nesting = ne, !.firstEnter = fe]
    BY <1>1 DEF DecrementAsyncNesting, Thread
  <2>5. \A a \in AsyncMethods :
          /\ ne[a] = IF a = m /\ th.nesting[a] > 0 THEN th.nesting[a] - 1 ELSE th.nesting[a]
          /\ fe[a] = IF a = m /\ th.nesting[a] = 1 THEN 0 ELSE th.firstEnter[a]
    BY <1>1, <2>1
  <2> HIDE DEF ne, fe, r
  <2>6. /\ r \in Thread /\ r.stack = th.stack /\ r.catcher = th.catcher /\ r.deferred = th.deferred
        /\ r.nesting = ne /\ r.firstEnter = fe
    BY <2>3, <2>4 DEF Thread
  <2> QED BY <2>5, <2>6 DEF r
<1>2. CASE ~(m \in AsyncMethods /\ th.nesting[m] > 0)
  <2>1. r = th
    BY <1>2 DEF DecrementAsyncNesting
  <2>2. \A a \in AsyncMethods : a = m => ~(th.nesting[a] > 0) /\ th.nesting[a] \in Nat
    BY <1>2, ThreadFields
  <2> QED BY <2>1, <2>2
<1> QED BY <1>1, <1>2

LEMMA TimesAreNat ==
  ASSUME NEW entry \in Entries, NEW t \in Nat, entry.enterTsNs <= t
  PROVE  /\ InclusiveNs(entry, t) \in Nat /\ SelfNs(entry, t) \in Nat
         /\ entry.enterTsNs >= 1 => InclusiveNs(entry, t) = t - entry.enterTsNs
         /\ entry.childrenTimeNs <= InclusiveNs(entry, t) =>
              SelfNs(entry, t) = InclusiveNs(entry, t) - entry.childrenTimeNs
<1>1. entry.enterTsNs \in Nat /\ entry.childrenTimeNs \in Nat
  BY DEF Entries
<1>2. entry.enterTsNs >= 1 => InclusiveNs(entry, t) = t - entry.enterTsNs
  BY <1>1 DEF InclusiveNs
<1> DEFINE x == InclusiveNs(entry, t) - entry.childrenTimeNs
<1>3. InclusiveNs(entry, t) \in Nat /\ x \in Int
  BY <1>1, <1>2 DEF InclusiveNs
<1>4. SelfNs(entry, t) = IF x > 0 THEN x ELSE 0
  BY <1>3, MaxOfZeroAnd DEF SelfNs
<1>5. SelfNs(entry, t) \in Nat
  BY <1>3, <1>4
<1>6. entry.childrenTimeNs <= InclusiveNs(entry, t) => SelfNs(entry, t) = x
  BY <1>1, <1>3, <1>4
<1> QED BY <1>2, <1>3, <1>5, <1>6

LEMMA TimelyLater ==
  ASSUME NEW th, NEW t \in Nat, NEW u \in Nat, Timely(th, t), t <= u
  PROVE  Timely(th, u)
<1>1. th \in Thread
  BY DEF Timely
<1>2. /\ \A k \in 1..Len(th.stack) : th.stack[k].enterTsNs \in Nat
      /\ th.deferred.tsNs \in Nat /\ \A m \in AsyncMethods : th.firstEnter[m] \in Nat
  BY <1>1, ThreadFields
<1> QED BY <1>2 DEF Timely

LEMMA PopTimely ==
  ASSUME NEW th, NEW t \in Nat, Timely(th, t)
  PROVE  Timely(Pop(th), t) /\ Top(th).enterTsNs <= t
<1>1. th \in Thread
  BY DEF Timely
<1>2. NoEntry.enterTsNs = 0
  BY DEF NoEntry
<1>3. Len(th.stack) \in Nat
  BY <1>1, ThreadFields
<1>4. Top(th).enterTsNs <= t
  BY <1>1, <1>2, <1>3, TopPopIs DEF Timely
<1>5. Timely(Pop(th), t)
  BY <1>1, TopPopIs DEF Timely
<1> QED BY <1>4, <1>5

LEMMA CreditTimely ==
  ASSUME NEW th, NEW t \in Nat, Timely(th, t), NEW x \in Nat
  PROVE  Timely(CreditParent(th, x), t)
<1>1. th \in Thread
  BY DEF Timely
<1> QED BY <1>1, CreditIs DEF Timely

LEMMA DecrementTimely ==
  ASSUME NEW th, NEW t \in Nat, Timely(th, t), NEW m
  PROVE  Timely(DecrementAsyncNesting(th, m), t)
<1>1. th \in Thread
  BY DEF Timely
<1>2. \A a \in AsyncMethods : DecrementAsyncNesting(th, m).firstEnter[a] <= t
  BY <1>1, DecrementIs DEF Timely
<1> QED BY <1>1, <1>2, DecrementIs DEF Timely

LEMMA FinalizedIs ==
  ASSUME NEW th, NEW t \in Nat, Timely(th, t)
  PROVE  LET d == th.deferred
             x == InclusiveNs(d.entry, d.tsNs)
             n == Len(th.stack)
             r == Finalized(th)
         IN  /\ x \in Nat /\ SelfNs(d.entry, d.tsNs) \in Nat
             /\ r \in Thread /\ Timely(r, t) /\ Len(r.stack) = n
             /\ \A k \in 1..n :
                  /\ r.stack[k].functionId = th.stack[k].functionId
                  /\ r.stack[k].enterTsNs = th.stack[k].enterTsNs
                  /\ r.stack[k].childrenTimeNs = IF k = n THEN th.stack[k].childrenTimeNs + x
                                                 ELSE th.stack[k].childrenTimeNs
             /\ r.catcher = th.catcher /\ r.deferred = NoDeferred
             /\ \A a \in AsyncMethods :
                  /\ r.nesting[a] = IF a = d.functionId /\ th.nesting[a] > 0 THEN th.nesting[a] - 1
                                    ELSE th.nesting[a]
                  /\ r.firstEnter[a] = IF a = d.functionId /\ th.nesting[a] = 1 THEN 0
                                       ELSE th.firstEnter[a]
<1> DEFINE d == th.deferred
           x == InclusiveNs(d.entry, d.tsNs)
           c == CreditParent(th, x)
           g == DecrementAsyncNesting(c, d.functionId)
           r == Finalized(th)
<1>1. th \in Thread
  BY DEF Timely
<1>2. x \in Nat /\ SelfNs(d.entry, d.tsNs) \in Nat
  BY <1>1, ThreadFields, TimesAreNat DEF Timely
<1>3. r = [g EXCEPT !.deferred = NoDeferred]
  BY DEF Finalized
<1> HIDE DEF x
<1>4. /\ c \in Thread /\ Timely(c, t) /\ Len(c.stack) = Len(th.stack)
      /\ c.catcher = th.catcher /\ c.nesting = th.nesting /\ c.firstEnter = th.firstEnter
      /\ \A k \in 1..Len(th.stack) :
           /\ c.stack[k].functionId = th.stack[k].functionId
           /\ c.stack[k].enterTsNs = th.stack[k].enterTsNs
           /\ c.stack[k].childrenTimeNs = IF k = Len(th.stack) THEN th.stack[k].childrenTimeNs + x
                                          ELSE th.stack[k].childrenTimeNs
  BY <1>1, <1>2, CreditIs, CreditTimely
<1> HIDE DEF c
<1>5. /\ g \in Thread /\ Timely(g, t) /\ g.stack = c.stack /\ g.catcher = c.catcher
      /\ \A a \in AsyncMethods :
           /\ g.nesting[a] = IF a = d.functionId /\ c.nesting[a] > 0 THEN c.nesting[a] - 1
                             ELSE c.nesting[a]
           /\ g.firstEnter[a] = IF a = d.functionId /\ c.nesting[a] = 1 THEN 0 ELSE c.firstEnter[a]
  BY <1>4, DecrementIs, DecrementTimely
<1> HIDE DEF g, r
<1>6. /\ r \in Thread /\ r.stack = g.stack /\ r.catcher = g.catcher /\ r.deferred = NoDeferred
      /\ r.nesting = g.nesting /\ r.firstEnter = g.firstEnter
  BY <1>3, <1>5, NoEntryType DEF Thread
<1>7. Timely(r, t)
  BY <1>5, <1>6 DEF Timely, NoDeferred, NoEntry
<1> HIDE DEF d
<1>8. \A a \in AsyncMethods :
        /\ r.nesting[a] = IF a = d.functionId /\ th.nesting[a] > 0 THEN th.nesting[a] - 1
                          ELSE th.nesting[a]
        /\ r.firstEnter[a] = IF a = d.functionId /\ th.nesting[a] = 1 THEN 0 ELSE th.firstEnter[a]
  BY <1>4, <1>5, <1>6
<1> QED BY <1>2, <1>4, <1>5, <1>6, <1>7, <1>8 DEF r, d, x

-----------------------------------------------------------------------------
(* Type correctness.                                                       *)

Lines ==
  [type : {"none", "enter", "leave", "exception"}, m : MethodIds, tsNs : Nat, depth : Nat,
   deltaNs : Nat, wallTimeNs : Nat, seq : Nat]

Output == stats \in [MethodIds -> Tallies] /\ event \in Lines

ProfilerInv == Timely(thread, now) /\ Output

LEMMA LineTypes ==
  ASSUME NEW ev \in Lines, NEW m \in MethodIds, NEW t \in Nat, NEW depth \in Nat,
         NEW delta \in Nat, NEW wall \in Nat
  PROVE  /\ WriteLeave(ev, m, t, depth, delta, wall) \in Lines
         /\ WriteEnter(ev, m, t, depth) \in Lines
         /\ WriteException(ev, m, t) \in Lines
BY DEF Lines, WriteLeave, WriteEnter, WriteException

LEMMA RecordType ==
  ASSUME NEW tab \in [MethodIds -> Tallies], NEW m \in MethodIds,
         NEW inclusive \in Nat, NEW self \in Nat
  PROVE  RecordMethod(tab, m, inclusive, self) \in [MethodIds -> Tallies]
BY TallyType DEF RecordMethod

\* Finalizing what is held back.
LEMMA FinalizedOutput ==
  ASSUME NEW t \in Nat, Timely(thread, t), Output
  PROVE  /\ FinalizedStats(thread, stats) \in [MethodIds -> Tallies]
         /\ FinalizedEvent(thread, event) \in Lines
<1> DEFINE d == thread.deferred
<1>1. thread \in Thread
  BY DEF Timely
<1>2. /\ InclusiveNs(d.entry, d.tsNs) \in Nat /\ SelfNs(d.entry, d.tsNs) \in Nat
      /\ d.functionId \in MethodIds /\ d.tsNs \in Nat /\ GetDepth(thread) \in Nat
  BY <1>1, FinalizedIs, ThreadFields DEF GetDepth
<1>3. FinalizedStats(thread, stats) \in [MethodIds -> Tallies]
  BY <1>2, RecordType DEF FinalizedStats, Output
<1>4. FinalizedEvent(thread, event) \in Lines
  BY <1>2, LineTypes DEF FinalizedEvent, Output
<1> QED BY <1>3, <1>4

LEMMA EnterOutput ==
  ASSUME NEW m \in Methods, NEW t \in Nat, Timely(thread, t), Output, EnterStub(m, t)
  PROVE  Timely(thread', t) /\ Output'
<1> DEFINE p == Push(thread, m, t)
<1>1. thread \in Thread /\ m \in MethodIds
  BY DEF Timely, MethodIds
<1>2. /\ p \in Thread /\ Len(p.stack) = Len(thread.stack) + 1
      /\ \A k \in 1..Len(thread.stack) : p.stack[k] = thread.stack[k]
      /\ p.stack[Len(thread.stack) + 1].enterTsNs = t
      /\ p.deferred = thread.deferred /\ p.firstEnter = thread.firstEnter
      /\ p.nesting = thread.nesting
  <2>1. /\ p \in Thread /\ Len(p.stack) = Len(thread.stack) + 1
        /\ \A k \in 1..Len(thread.stack) : p.stack[k] = thread.stack[k]
        /\ p.stack[Len(thread.stack) + 1] = [functionId |-> m, enterTsNs |-> t, childrenTimeNs |-> 0]
        /\ p.deferred = thread.deferred /\ p.firstEnter = thread.firstEnter
        /\ p.nesting = thread.nesting
    <3> HIDE DEF p
    <3> QED BY <1>1, PushIs DEF p
  <2> HIDE DEF p
  <2> QED BY <2>1
<1>3. Len(thread.stack) \in Nat
  BY <1>1, ThreadFields
<1> HIDE DEF p
<1>4. Timely(p, t)
  <2>1. \A k \in 1..Len(p.stack) : k \in 1..Len(thread.stack) \/ k = Len(thread.stack) + 1
    BY <1>2, <1>3
  <2>2. \A k \in 1..Len(p.stack) : p.stack[k].enterTsNs <= t
    BY <1>2, <2>1, SMTT(30) DEF Timely
  <2> QED BY <1>2, <2>2 DEF Timely
<1>5. Timely(thread', t)
  <2>1. CASE m \in AsyncMethods
    <3> DEFINE ne == [p.nesting EXCEPT ![m] = p.nesting[m] + 1]
               fe == [p.firstEnter EXCEPT ![m] = IF thread.nesting[m] = 0 THEN t ELSE p.firstEnter[m]]
    <3>1. p.nesting \in [AsyncMethods -> Nat] /\ p.firstEnter \in [AsyncMethods -> Nat]
      BY <1>2, ThreadFields
    <3>2. (IF thread.nesting[m] = 0 THEN t ELSE p.firstEnter[m]) \in Nat /\ p.nesting[m] + 1 \in Nat
      BY <2>1, <3>1
    <3>3. ne \in [AsyncMethods -> Nat] /\ fe \in [AsyncMethods -> Nat]
      BY <3>2, <3>1
    <3>4. \A a \in AsyncMethods : fe[a] <= t
      BY <1>4, <3>1 DEF Timely
    <3>5. thread' = [p EXCEPT !.nesting = ne, !.firstEnter = fe]
      BY <1>2, <2>1 DEF EnterStub, p, Thread
    <3> HIDE DEF ne, fe
    <3>6. /\ thread' \in Thread /\ thread'.stack = p.stack /\ thread'.deferred = p.deferred
          /\ thread'.firstEnter = fe
      BY <1>2, <3>3, <3>5 DEF Thread
    <3> QED BY <1>4, <3>4, <3>6 DEF Timely
  <2>2. CASE m \notin AsyncMethods
    BY <1>4, <2>2 DEF EnterStub, p
  <2> QED BY <2>1, <2>2
<1>6. Output'
  <2>1. GetDepth(thread) \in Nat
    BY <1>3 DEF GetDepth
  <2>2. event' = WriteEnter(event, m, t, GetDepth(thread)) /\ stats' = stats
    BY DEF EnterStub
  <2> QED BY <1>1, <2>1, <2>2, LineTypes DEF Output
<1> QED BY <1>5, <1>6

LEMMA LeaveOutput ==
  ASSUME NEW m \in Methods, NEW t \in Nat, Timely(thread, t), Output, ProcessLeave(m, t)
  PROVE  Timely(thread', t) /\ Output'
<1> DEFINE entry == Top(thread)
           x == InclusiveNs(entry, t)
           rest == CreditParent(Pop(thread), x)
<1>1. thread \in Thread /\ m \in MethodIds
  BY DEF Timely, MethodIds
<1>2. entry \in Entries /\ entry.enterTsNs <= t /\ Timely(Pop(thread), t)
  BY <1>1, TopPopIs, PopTimely
<1>3. x \in Nat /\ SelfNs(entry, t) \in Nat
  BY <1>2, TimesAreNat
<1>4. /\ thread' = DecrementAsyncNesting(rest, m)
      /\ stats' = RecordMethod(stats, m, x, SelfNs(entry, t))
      /\ event' = WriteLeave(event, m, t, GetDepth(rest), x, WallTimeNs(rest, m, t))
  BY DEF ProcessLeave
<1> HIDE DEF x, entry
<1>5. Timely(rest, t) /\ rest \in Thread
  BY <1>2, <1>3, CreditTimely DEF Timely
<1> HIDE DEF rest
<1>6. Timely(thread', t)
  BY <1>4, <1>5, DecrementTimely
<1>7. GetDepth(rest) \in Nat /\ WallTimeNs(rest, m, t) \in Nat
  <2>1. Len(rest.stack) \in Nat /\ \A a \in AsyncMethods : rest.firstEnter[a] \in Nat /\ rest.firstEnter[a] <= t
    BY <1>5, ThreadFields DEF Timely
  <2> QED BY <2>1 DEF GetDepth, WallTimeNs
<1>8. stats' \in [MethodIds -> Tallies] /\ event' \in Lines
  BY <1>1, <1>3, <1>4, <1>7, RecordType, LineTypes, Zenon DEF Output
<1> QED BY <1>6, <1>8 DEF Output

LEMMA FoundOutput ==
  ASSUME NEW m \in Methods, NEW t \in Nat, Timely(thread, t), Output,
         ExceptionSearchCatcherFound(m)
  PROVE  Timely(thread', t) /\ Output'
<1>1. thread \in Thread /\ m \in MethodIds
  BY DEF Timely, MethodIds
<1>2. CASE thread.deferred.has
  <2> DEFINE r == Finalized(thread)
  <2>1. r \in Thread /\ Timely(r, t)
    BY FinalizedIs
  <2>2. thread' = [r EXCEPT !.catcher = m]
    BY <1>2 DEF ExceptionSearchCatcherFound
  <2> HIDE DEF r
  <2>3. /\ thread' \in Thread /\ thread'.stack = r.stack /\ thread'.deferred = r.deferred
        /\ thread'.firstEnter = r.firstEnter
    BY <1>1, <2>1, <2>2 DEF Thread
  <2>4. Timely(thread', t)
    BY <2>1, <2>3 DEF Timely
  <2>5. stats' = FinalizedStats(thread, stats) /\ event' = FinalizedEvent(thread, event)
    BY <1>2 DEF ExceptionSearchCatcherFound
  <2> QED BY <2>4, <2>5, FinalizedOutput DEF Output
<1>3. CASE ~thread.deferred.has
  <2>1. thread' = [thread EXCEPT !.catcher = m] /\ UNCHANGED <<stats, event>>
    BY <1>3 DEF ExceptionSearchCatcherFound
  <2>2. /\ thread' \in Thread /\ thread'.stack = thread.stack /\ thread'.deferred = thread.deferred
        /\ thread'.firstEnter = thread.firstEnter
    BY <1>1, <2>1 DEF Thread
  <2> QED BY <2>1, <2>2 DEF Timely, Output
<1> QED BY <1>2, <1>3

LEMMA DeferOutput ==
  ASSUME NEW m \in Methods, NEW t \in Nat, Timely(thread, t), Output, DeferUnwind(m, t)
  PROVE  Timely(thread', t) /\ Output'
<1> DEFINE base == IF thread.deferred.has THEN Finalized(thread) ELSE thread
           g == DecrementAsyncNesting(Pop(base), m)
           d == [has |-> TRUE, entry |-> Top(base), functionId |-> m, tsNs |-> t]
<1>1. base \in Thread /\ Timely(base, t)
  BY FinalizedIs DEF Timely
<1>2. thread' = [g EXCEPT !.deferred = d]
  BY DEF DeferUnwind
<1> HIDE DEF base
<1>3. Timely(g, t) /\ g \in Thread
  BY <1>1, PopTimely, DecrementTimely DEF Timely
<1>4. /\ d \in Deferral /\ d.entry = Top(base) /\ d.tsNs = t /\ Top(base).enterTsNs <= t
      /\ t <= t
  BY <1>1, TopPopIs, PopTimely DEF Deferral, MethodIds
<1> HIDE DEF d, g
<1>5. /\ thread' \in Thread /\ thread'.stack = g.stack /\ thread'.deferred = d
      /\ thread'.firstEnter = g.firstEnter
  BY <1>2, <1>3, <1>4 DEF Thread
<1>6. Timely(thread', t)
  BY <1>3, <1>4, <1>5 DEF Timely
<1>7. Output'
  <2>1. /\ stats' = IF thread.deferred.has THEN FinalizedStats(thread, stats) ELSE stats
        /\ event' = IF thread.deferred.has THEN FinalizedEvent(thread, event) ELSE event
    BY DEF DeferUnwind
  <2> QED BY <2>1, FinalizedOutput DEF Output
<1> QED BY <1>6, <1>7

LEMMA FinishOutput ==
  ASSUME NEW m \in Methods, NEW t \in Nat, Timely(thread, t), Output, FinishUnwound(m, t)
  PROVE  Timely(thread', t) /\ Output'
<1> DEFINE entry == Top(thread)
           x == InclusiveNs(entry, t)
           rest == CreditParent(Pop(thread), x)
<1>1. thread \in Thread /\ m \in MethodIds
  BY DEF Timely, MethodIds
<1>2. /\ entry \in Entries /\ entry.functionId \in MethodIds /\ entry.enterTsNs <= t
      /\ Timely(Pop(thread), t)
  BY <1>1, TopPopIs, PopTimely DEF Entries
<1>3. x \in Nat /\ SelfNs(entry, t) \in Nat
  BY <1>2, TimesAreNat
<1>4. /\ thread' = DecrementAsyncNesting(rest, m)
      /\ stats' = RecordMethod(stats, entry.functionId, x, SelfNs(entry, t))
      /\ event' = WriteLeave(event, m, t, GetDepth(rest), x, 0)
  BY DEF FinishUnwound
<1> HIDE DEF x, entry
<1>5. Timely(rest, t) /\ rest \in Thread
  BY <1>2, <1>3, CreditTimely DEF Timely
<1> HIDE DEF rest
<1>6. Timely(thread', t)
  BY <1>4, <1>5, DecrementTimely
<1>7. GetDepth(rest) \in Nat /\ 0 \in Nat
  BY <1>5, ThreadFields DEF GetDepth
<1>8. stats' \in [MethodIds -> Tallies] /\ event' \in Lines
  BY <1>1, <1>2, <1>3, <1>4, <1>7, RecordType, LineTypes, Zenon DEF Output
<1> QED BY <1>6, <1>8 DEF Output

LEMMA CatcherEnterOutput ==
  ASSUME NEW t \in Nat, Timely(thread, t), Output, ExceptionCatcherEnter
  PROVE  Timely(thread', t) /\ Output'
<1> DEFINE s == IF thread.deferred.has THEN Append(thread.stack, thread.deferred.entry) ELSE thread.stack
<1>1. thread \in Thread
  BY DEF Timely
<1>2. /\ thread.stack \in Seq(Entries) /\ Len(thread.stack) \in Nat
      /\ thread.deferred.entry \in Entries
      /\ thread.deferred.entry.enterTsNs \in Nat /\ thread.deferred.tsNs \in Nat
  BY <1>1, ThreadFields
<1>3. thread.deferred.entry.enterTsNs <= t
  BY <1>2 DEF Timely
<1>4. s \in Seq(Entries) /\ \A k \in 1..Len(s) : s[k].enterTsNs <= t
  <2>1. CASE thread.deferred.has
    <3>1. /\ s \in Seq(Entries) /\ Len(s) = Len(thread.stack) + 1
          /\ \A k \in 1..Len(thread.stack) : s[k] = thread.stack[k]
          /\ s[Len(thread.stack) + 1] = thread.deferred.entry
      BY <1>2, <2>1, AppendProperties
    <3>2. \A k \in 1..Len(s) : k \in 1..Len(thread.stack) \/ k = Len(thread.stack) + 1
      BY <1>2, <3>1
    <3> HIDE DEF s
    <3> QED BY <1>3, <3>1, <3>2 DEF Timely
  <2>2. CASE ~thread.deferred.has
    BY <1>2, <2>2 DEF Timely
  <2> QED BY <2>1, <2>2
<1>5. thread' = [thread EXCEPT !.stack = s, !.deferred = NoDeferred, !.catcher = NoMethod]
  BY <1>1 DEF ExceptionCatcherEnter, Thread
<1> HIDE DEF s
<1>6. /\ thread' \in Thread /\ thread'.stack = s /\ thread'.deferred = NoDeferred
      /\ thread'.firstEnter = thread.firstEnter
  BY <1>1, <1>4, <1>5, NoEntryType DEF Thread, MethodIds
<1>7. Timely(thread', t)
  BY <1>4, <1>6 DEF Timely, NoDeferred, NoEntry
<1> QED BY <1>7 DEF ExceptionCatcherEnter, Output

LEMMA ProfilerStep == RuntimeInv /\ ProfilerInv /\ [Next]_vars => ProfilerInv'
<1> SUFFICES ASSUME RuntimeInv, ProfilerInv, [Next]_vars PROVE ProfilerInv'
  OBVIOUS
<1>0. now \in Nat /\ Timely(thread, now) /\ Output
  BY DEF RuntimeInv, ProfilerInv
<1>1. ASSUME NEW m \in Methods, Call(m) PROVE ProfilerInv'
  <2>1. PICK d \in Ticks : /\ now' = now + d
                           /\ IF m \in Included THEN EnterStub(m, now + d)
                                                ELSE UNCHANGED <<thread, stats, event>>
    BY <1>1 DEF Call
  <2>2. now' \in Nat /\ now' >= now /\ Timely(thread, now')
    BY <1>0, <2>1, TimelyLater, CallStackAssumption
  <2>3. CASE m \in Included
    BY <1>0, <2>1, <2>2, <2>3, EnterOutput DEF ProfilerInv
  <2>4. CASE m \notin Included
    BY <1>0, <2>1, <2>2, <2>4 DEF ProfilerInv, Output
  <2> QED BY <2>3, <2>4
<1>2. CASE Return
  <2>1. PICK d \in Ticks : /\ now' = now + d
                           /\ IF Last(frames).m \in Included
                              THEN ProcessLeave(Last(frames).m, now + d)
                              ELSE UNCHANGED <<thread, stats, event>>
    BY <1>2 DEF Return
  <2>2. now' \in Nat /\ now' >= now /\ Timely(thread, now')
    BY <1>0, <2>1, TimelyLater, CallStackAssumption
  <2>3. CASE Last(frames).m \in Included
    <3>1. Last(frames).m \in Methods
      BY <2>3, CallStackAssumption
    <3> QED BY <1>0, <2>1, <2>2, <2>3, <3>1, LeaveOutput DEF ProfilerInv
  <2>4. CASE Last(frames).m \notin Included
    BY <1>0, <2>1, <2>2, <2>4 DEF ProfilerInv, Output
  <2> QED BY <2>3, <2>4
<1>3. ASSUME NEW c \in 0..Len(frames), Throw(c) PROVE ProfilerInv'
  <2>1. /\ UNCHANGED <<now, thread, stats>>
        /\ event' = WriteException(event, Top(thread).functionId, now)
    BY <1>3 DEF Throw
  <2>2. Top(thread).functionId \in MethodIds
    BY <1>0, TopPopIs DEF Timely, Entries
  <2>3. event' \in Lines
    BY <1>0, <2>1, <2>2, LineTypes DEF Output
  <2> QED BY <1>0, <2>1, <2>3 DEF ProfilerInv, Output
<1>4. CASE CatcherFound
  <2>1. /\ Dispatching /\ now' = now
        /\ IF MonitorExceptions /\ Last(exc).catcher # 0
           THEN ExceptionSearchCatcherFound(frames[Last(exc).catcher].m)
           ELSE UNCHANGED <<thread, stats, event>>
    BY <1>4 DEF CatcherFound
  <2>2. CASE MonitorExceptions /\ Last(exc).catcher # 0
    <3>1. Last(exc).catcher \in 1..Len(frames)
      BY <2>1, <2>2, InnermostIs
    <3>2. frames[Last(exc).catcher].m \in Methods
      BY <3>1, RuntimeTypes
    <3> QED BY <1>0, <2>1, <2>2, <3>2, FoundOutput DEF ProfilerInv
  <2>3. CASE ~(MonitorExceptions /\ Last(exc).catcher # 0)
    BY <1>0, <2>1, <2>3 DEF ProfilerInv, Output
  <2> QED BY <2>2, <2>3
<1>5. CASE UnwindFrame
  <2> DEFINE m == Last(frames).m
  <2>1. PICK d \in Ticks : /\ now' = now + d
                           /\ IF MonitorExceptions
                              THEN ExceptionUnwindFunctionEnter(m, now + d)
                              ELSE UNCHANGED <<thread, stats, event>>
    BY <1>5 DEF UnwindFrame
  <2>2. now' \in Nat /\ now' >= now /\ Timely(thread, now')
    BY <1>0, <2>1, TimelyLater, CallStackAssumption
  <2>3. m \in Included => m \in Methods
    BY CallStackAssumption
  <2> HIDE DEF m
  <2>4. CASE MonitorExceptions /\ m \in Included /\ thread.catcher = m
    <3>1. DeferUnwind(m, now')
      BY <2>1, <2>4 DEF ExceptionUnwindFunctionEnter
    <3> QED BY <1>0, <2>2, <2>3, <2>4, <3>1, DeferOutput DEF ProfilerInv
  <2>5. CASE MonitorExceptions /\ m \in Included /\ thread.catcher # m
    <3>1. FinishUnwound(m, now')
      BY <2>1, <2>5 DEF ExceptionUnwindFunctionEnter
    <3> QED BY <1>0, <2>2, <2>3, <2>5, <3>1, FinishOutput DEF ProfilerInv
  <2>6. CASE ~(MonitorExceptions /\ m \in Included)
    <3>1. UNCHANGED <<thread, stats, event>>
      BY <2>1, <2>6 DEF ExceptionUnwindFunctionEnter
    <3> QED BY <1>0, <2>2, <3>1 DEF ProfilerInv, Output
  <2> QED BY <2>4, <2>5, <2>6
<1>6. CASE FrameUnwound
  <2>1. UNCHANGED <<now, thread, stats, event>>
    BY <1>6 DEF FrameUnwound
  <2> QED BY <1>0, <2>1 DEF ProfilerInv, Output
<1>7. CASE CatcherEntered
  <2>1. /\ now' = now
        /\ IF MonitorExceptions THEN ExceptionCatcherEnter ELSE UNCHANGED <<thread, stats, event>>
    BY <1>7 DEF CatcherEntered
  <2>2. CASE MonitorExceptions
    BY <1>0, <2>1, <2>2, CatcherEnterOutput DEF ProfilerInv
  <2>3. CASE ~MonitorExceptions
    BY <1>0, <2>1, <2>3 DEF ProfilerInv, Output
  <2> QED BY <2>2, <2>3
<1>8. CASE UNCHANGED vars
  BY <1>0, <1>8 DEF vars, ProfilerInv, Output
<1> QED BY <1>1, <1>2, <1>3, <1>4, <1>5, <1>6, <1>7, <1>8 DEF Next

TypeInv == RuntimeInv /\ ProfilerInv

LEMMA InitTypeInv == Init => TypeInv
<1> SUFFICES ASSUME Init PROVE TypeInv
  OBVIOUS
<1>1. Zero \in Tallies
  BY DEF Zero, Tallies
<1>2. /\ now = 1 /\ frames = <<>> /\ exc = <<>> /\ irregular = FALSE
      /\ truth = [m \in MethodIds |-> Zero] /\ stats = [m \in MethodIds |-> Zero]
      /\ thread = NewThread /\ event \in Lines
  BY DEF Init, MethodIds, Lines
<1>3. RuntimeInv
  <2>1. /\ frames \in Seq(Frame) /\ exc \in Seq(Dispatch) /\ Len(frames) = 0 /\ Len(exc) = 0
    BY <1>2, EmptySeq
  <2>2. FramesInv /\ DispatchInv
    BY <2>1 DEF FramesInv, DispatchInv
  <2>3. truth \in [MethodIds -> Tallies] /\ irregular \in BOOLEAN
    BY <1>1, <1>2
  <2> QED BY <1>2, <2>1, <2>2, <2>3 DEF RuntimeInv
<1>4. Timely(thread, now)
  <2>1. <<>> \in Seq(Entries) /\ Len(<<>>) = 0
    BY EmptySeq
  <2>2. /\ thread \in Thread /\ thread.stack = <<>> /\ thread.deferred = NoDeferred
        /\ \A m \in AsyncMethods : thread.firstEnter[m] = 0
    BY <1>2, <2>1, NoEntryType DEF NewThread, Thread, MethodIds
  <2> QED BY <1>2, <2>1, <2>2 DEF Timely, NoDeferred, NoEntry
<1> QED BY <1>1, <1>2, <1>3, <1>4 DEF TypeInv, ProfilerInv, Output

LEMMA TypeInvHolds == Spec => []TypeInv
<1>1. TypeInv /\ [Next]_vars => TypeInv'
  BY RuntimeStep, ProfilerStep DEF TypeInv
<1> QED BY <1>1, InitTypeInv, PTL DEF Spec

(* The profiler's state stays well formed for any program, exceptions thrown *)
(* by handlers included, and whatever events are enabled: no nesting count,   *)
(* no duration and no self time ever goes below zero.                         *)
THEOREM TypeInvariant == Spec => []TypeOK
<1>1. TypeInv => TypeOK
  BY ThreadFields DEF TypeInv, RuntimeInv, ProfilerInv, Output, Timely, TypeOK, Deferral, Lines
<1> QED BY <1>1, TypeInvHolds, PTL

=============================================================================
