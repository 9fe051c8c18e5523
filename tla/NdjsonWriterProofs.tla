-------------------------- MODULE NdjsonWriterProofs --------------------------
(***************************************************************************)
(* What holds of the event writer for any number of threads, any buffer,   *)
(* any line lengths and any limit.                                         *)
(***************************************************************************)
EXTENDS NdjsonWriter, FiniteSetTheorems, SequenceTheorems, TLAPS

-----------------------------------------------------------------------------
(* Writing the buffer to the file and appending to the buffer.             *)

\* A write leaves complete lines in the file, all of the buffer's or the
\* first few.
LEMMA WriteFileType ==
  ASSUME TypeOK, WriteFile
  PROVE  /\ file' \in Seq(Rendered)
         /\ fragments' \subseteq Nat
         /\ ioFailed' \in BOOLEAN
<1>1. CASE file' = file \o buffer /\ UNCHANGED <<fragments, ioFailed>>
  BY <1>1, ConcatProperties DEF TypeOK
<1>2. ASSUME NEW k \in 0..Len(buffer) - 1, NEW torn \in BOOLEAN,
             file' = file \o SubSeq(buffer, 1, k),
             fragments' = IF torn THEN fragments \cup {Len(file) + k} ELSE fragments,
             ioFailed' = TRUE
      PROVE  /\ file' \in Seq(Rendered)
             /\ fragments' \subseteq Nat
             /\ ioFailed' \in BOOLEAN
  <2>1. Len(buffer) \in Nat /\ Len(file) \in Nat /\ k \in Nat
    BY LenProperties DEF TypeOK
  <2>2. \A i \in 1..k : buffer[i] \in Rendered
    BY <2>1, ElementOfSeq DEF TypeOK
  <2>3. SubSeq(buffer, 1, k) \in Seq(Rendered)
    BY <2>1, <2>2, SubSeqProperties
  <2>4. file' \in Seq(Rendered)
    BY <1>2, <2>3, ConcatProperties DEF TypeOK
  <2>5. fragments' \subseteq Nat
    <3>1. Len(file) + k \in Nat /\ fragments \subseteq Nat
      BY <2>1 DEF TypeOK
    <3>2. fragments' = fragments \cup {Len(file) + k} \/ fragments' = fragments
      BY <1>2, Zenon
    <3> QED BY <3>1, <3>2
  <2> QED BY <1>2, <2>4, <2>5
<1> QED BY <1>1, <1>2 DEF WriteFile

\* Appending a rendered line keeps the types of all it touches.
LEMMA AppendToBufferType ==
  ASSUME TypeOK, NEW line \in Rendered, AppendToBuffer(line)
  PROVE  /\ buffer' \in Seq(Rendered) /\ file' \in Seq(Rendered) /\ accepted' \in Seq(Rendered)
         /\ bufferPos' \in Nat
         /\ fragments' \subseteq Nat
         /\ ioFailed' \in BOOLEAN
<1>1. line.len \in Nat
  BY WriterAssumption DEF Rendered, Line
<1>2. accepted' \in Seq(Rendered)
  BY AppendProperties DEF AppendToBuffer, TypeOK
<1>3. CASE WriteFile /\ buffer' = <<line>> /\ bufferPos' = line.len
  BY <1>1, <1>2, <1>3, WriteFileType
<1>4. CASE /\ buffer' = Append(buffer, line)
           /\ bufferPos' = bufferPos + line.len
           /\ UNCHANGED <<file, fragments, ioFailed>>
  BY <1>1, <1>2, <1>4, AppendProperties DEF TypeOK
<1> QED BY <1>3, <1>4 DEF AppendToBuffer

\* A line between its check and its append, if it fits, is a rendered line.
LEMMA PendingIsRendered ==
  ASSUME TypeOK, NEW t \in Threads, pending[t] # NoLine, pending[t].len < LineMax
  PROVE  pending[t] \in Rendered
BY DEF TypeOK, Rendered

-----------------------------------------------------------------------------
(* The type invariant.                                                     *)

LEMMA InitTypeOK == Init => TypeOK
<1> SUFFICES ASSUME Init PROVE TypeOK
  OBVIOUS
<1>1. <<>> \in Seq(Rendered)
  BY EmptySeq
<1>2. fileOpen \in BOOLEAN
  BY WriterAssumption DEF Init
<1>3. pending \in [Threads -> Line \cup {NoLine}]
  BY DEF Init
<1> QED BY <1>1, <1>2, <1>3 DEF Init, TypeOK

LEMMA NextTypeOK == TypeOK /\ [Next]_vars => TypeOK'
<1> SUFFICES ASSUME TypeOK, [Next]_vars PROVE TypeOK'
  OBVIOUS
<1>1. ASSUME NEW t \in Threads, NEW len \in Lens, BeginCounted(t, len) PROVE TypeOK'
  <2>1. issued + 1 \in 1..MaxLines
    BY <1>1, WriterAssumption DEF BeginCounted, TypeOK
  <2>2. [id |-> issued + 1, counted |-> TRUE, len |-> len] \in Line
    BY <2>1 DEF Line
  <2>3. pending' \in [Threads -> Line \cup {NoLine}] /\ issued' \in Nat
    BY <1>1, <2>1, <2>2 DEF BeginCounted, TypeOK
  <2> QED BY <1>1, <2>3 DEF BeginCounted, TypeOK, Rendered, Line
<1>2. ASSUME NEW t \in Threads, FinishCounted(t) PROVE TypeOK'
  <2>1. pending' \in [Threads -> Line \cup {NoLine}]
    BY <1>2 DEF FinishCounted, TypeOK
  <2>2. CASE pending[t].len < LineMax
    <3>1. AppendToBuffer(pending[t]) /\ eventCount' \in Nat
      BY <1>2, <2>2 DEF FinishCounted, TypeOK
    <3>2. pending[t] \in Rendered
      BY <1>2, <2>2, PendingIsRendered DEF FinishCounted
    <3> QED BY <1>2, <2>1, <3>1, <3>2, AppendToBufferType DEF FinishCounted, TypeOK
  <2>3. CASE ~(pending[t].len < LineMax)
    BY <1>2, <2>1, <2>3 DEF FinishCounted, TypeOK, Rendered, Line
  <2> QED BY <2>2, <2>3
<1>3. ASSUME NEW t \in Threads, NEW len \in Lens, WriteBypassing(t, len) PROVE TypeOK'
  <2> DEFINE line == [id |-> issued + 1, counted |-> FALSE, len |-> len]
  <2>1. issued + 1 \in 1..MaxLines
    BY <1>3, WriterAssumption DEF WriteBypassing, TypeOK
  <2>2. line \in Rendered
    BY <1>3, <2>1 DEF WriteBypassing, Rendered, Line
  <2>3. AppendToBuffer(line)
    BY <1>3 DEF WriteBypassing
  <2> HIDE DEF line
  <2> QED BY <1>3, <2>1, <2>2, <2>3, AppendToBufferType DEF WriteBypassing, TypeOK
<1>4. CASE Flush
  BY <1>4, WriteFileType, EmptySeq DEF Flush, TypeOK
<1>5. CASE UNCHANGED vars
  BY <1>5 DEF vars, TypeOK, Rendered, Line
<1> QED BY <1>1, <1>2, <1>3, <1>4, <1>5 DEF Next

(* The writer's state always has its type: only complete lines are in the   *)
(* buffer and, whatever writes fail, between the newlines of the file       *)
(* (NdjsonWriter.cpp's truncation test before every append).                *)
THEOREM TypeInvariant == Spec => []TypeOK
BY InitTypeOK, NextTypeOK, PTL DEF Spec

-----------------------------------------------------------------------------
(* The buffer.                                                             *)

LEMMA AppendBounded ==
  ASSUME TypeOK, BufferBounded, NEW line \in Rendered, AppendToBuffer(line),
         UNCHANGED fileOpen
  PROVE  BufferBounded'
<1>1. line.len \in Nat /\ line.len < LineMax
  BY WriterAssumption DEF Rendered, Line
<1>2. Threshold \in Nat /\ LineMax \in Nat /\ LineMax <= Threshold
  BY WriterAssumption DEF Threshold
<1>3. bufferPos = 0 => bufferPos + line.len <= Threshold
  BY <1>1, <1>2
<1> QED BY <1>1, <1>2, <1>3 DEF AppendToBuffer, BufferBounded, TypeOK

(* With a valid handle the buffer stays below its 80% mark, however lines   *)
(* and flushes interleave: AppendToBuffer never copies past m_buffer.       *)
THEOREM BufferSafe == Spec => []BufferBounded
<1>1. Init => BufferBounded
  BY WriterAssumption DEF Init, BufferBounded, Threshold
<1>2. TypeOK /\ BufferBounded /\ [Next]_vars => BufferBounded'
  <2> SUFFICES ASSUME TypeOK, BufferBounded, [Next]_vars PROVE BufferBounded'
    OBVIOUS
  <2>1. ASSUME NEW t \in Threads, NEW len \in Lens, BeginCounted(t, len)
        PROVE  BufferBounded'
    BY <2>1 DEF BeginCounted, BufferBounded
  <2>2. ASSUME NEW t \in Threads, FinishCounted(t) PROVE BufferBounded'
    <3>1. CASE pending[t].len < LineMax
      BY <2>2, <3>1, PendingIsRendered, AppendBounded DEF FinishCounted
    <3>2. CASE ~(pending[t].len < LineMax)
      BY <2>2, <3>2 DEF FinishCounted, BufferBounded
    <3> QED BY <3>1, <3>2
  <2>3. ASSUME NEW t \in Threads, NEW len \in Lens, WriteBypassing(t, len)
        PROVE  BufferBounded'
    <3> DEFINE line == [id |-> issued + 1, counted |-> FALSE, len |-> len]
    <3>1. line \in Rendered
      BY <2>3, WriterAssumption DEF WriteBypassing, Rendered, Line, TypeOK
    <3>2. AppendToBuffer(line) /\ UNCHANGED fileOpen
      BY <2>3 DEF WriteBypassing
    <3> HIDE DEF line
    <3> QED BY <3>1, <3>2, AppendBounded
  <2>4. CASE Flush
    BY <2>4, WriterAssumption DEF Flush, BufferBounded, Threshold
  <2>5. CASE UNCHANGED vars
    BY <2>5 DEF vars, BufferBounded
  <2> QED BY <2>1, <2>2, <2>3, <2>4, <2>5 DEF Next
<1> QED BY <1>1, <1>2, TypeInvariant, PTL DEF Spec

-----------------------------------------------------------------------------
(* The event limit.                                                        *)

\* Inductive: the events counted and those already past the check.
LimitInv ==
  MaxEvents > 0 =>
    eventCount + Cardinality(InFlight) <= MaxEvents - 1 + Cardinality(Threads)

LEMMA InFlightFinite ==
  /\ IsFiniteSet(InFlight)
  /\ Cardinality(InFlight) \in Nat /\ Cardinality(Threads) \in Nat
  /\ Cardinality(InFlight) <= Cardinality(Threads)
BY WriterAssumption, FS_Subset, FS_CardinalityType DEF InFlight

(* Threads race past the unlocked check, but with n threads the limit is    *)
(* overshot by at most n - 1 events (NdjsonWriter.cpp 63-73).               *)
THEOREM OvershootSafe == Spec => []OvershootBounded
<1> USE DEF LimitInv
<1>1. Init => LimitInv
  <2> SUFFICES ASSUME Init PROVE LimitInv
    OBVIOUS
  <2>1. InFlight = {}
    BY DEF Init, InFlight
  <2>2. Cardinality(InFlight) = 0
    BY <2>1, FS_EmptySet
  <2>3. Cardinality(Threads) # 0
    BY WriterAssumption, FS_EmptySet
  <2> QED BY <2>2, <2>3, InFlightFinite, WriterAssumption DEF Init
<1>2. TypeOK /\ TypeOK' /\ LimitInv /\ [Next]_vars => LimitInv'
  <2> SUFFICES ASSUME TypeOK, TypeOK', LimitInv, [Next]_vars PROVE LimitInv'
    OBVIOUS
  <2>0. /\ Cardinality(InFlight)' \in Nat
        /\ Cardinality(InFlight)' <= Cardinality(Threads)
        /\ IsFiniteSet(InFlight')
    <3>1. InFlight' \in SUBSET Threads
      BY DEF InFlight
    <3> QED BY <3>1, WriterAssumption, FS_Subset, FS_CardinalityType
  <2>1. ASSUME NEW t \in Threads, NEW len \in Lens, BeginCounted(t, len) PROVE LimitInv'
    BY <2>0, <2>1, InFlightFinite, WriterAssumption DEF BeginCounted, CheckEventLimit, TypeOK
  <2>2. ASSUME NEW t \in Threads, FinishCounted(t) PROVE LimitInv'
    <3>1. InFlight' = InFlight \ {t} /\ t \in InFlight
      BY <2>2 DEF FinishCounted, InFlight, TypeOK
    <3>2. Cardinality(InFlight') = Cardinality(InFlight) - 1
      BY <3>1, InFlightFinite, FS_RemoveElement
    <3>3. eventCount' \in {eventCount, eventCount + 1}
      BY <2>2 DEF FinishCounted
    <3> QED BY <3>2, <3>3, InFlightFinite, WriterAssumption DEF TypeOK
  <2>3. ASSUME NEW t \in Threads, NEW len \in Lens, WriteBypassing(t, len) PROVE LimitInv'
    BY <2>3 DEF WriteBypassing, InFlight
  <2>4. CASE Flush
    BY <2>4 DEF Flush, InFlight
  <2>5. CASE UNCHANGED vars
    BY <2>5 DEF vars, InFlight
  <2> QED BY <2>1, <2>2, <2>3, <2>4, <2>5 DEF Next
<1>3. TypeOK /\ LimitInv => OvershootBounded
  BY InFlightFinite, WriterAssumption DEF OvershootBounded, TypeOK
<1> QED BY <1>1, <1>2, <1>3, TypeInvariant, PTL DEF Spec

-----------------------------------------------------------------------------
(* The lines that were accepted.                                           *)

CountedIn(s) == {i \in DOMAIN s : s[i].counted}

\* Appending a line adds it to the counted ones exactly if it is counted.
LEMMA CountedOfAppend ==
  ASSUME NEW s \in Seq(Rendered), NEW line \in Rendered
  PROVE  /\ Cardinality(CountedIn(s)) \in Nat
         /\ Cardinality(CountedIn(Append(s, line))) =
              Cardinality(CountedIn(s)) + (IF line.counted THEN 1 ELSE 0)
<1> DEFINE n == Len(s) + 1
           longer == Append(s, line)
<1>1. /\ DOMAIN s = 1..Len(s) /\ Len(s) \in Nat
      /\ longer \in Seq(Rendered) /\ Len(longer) = n
      /\ \A i \in 1..Len(s) : longer[i] = s[i]
      /\ longer[n] = line
  BY LenProperties, AppendProperties
<1>2. DOMAIN longer = 1..n
  BY <1>1, LenProperties
<1> HIDE DEF longer
<1>3. IsFiniteSet(CountedIn(s)) /\ Cardinality(CountedIn(s)) \in Nat
  <2>1. IsFiniteSet(1..Len(s)) /\ CountedIn(s) \in SUBSET (1..Len(s))
    BY <1>1, FS_Interval DEF CountedIn
  <2> QED BY <2>1, FS_Subset, FS_CardinalityType
<1>4. n \notin CountedIn(s)
  BY <1>1 DEF CountedIn
<1>5. CASE line.counted
  <2>1. CountedIn(longer) = CountedIn(s) \cup {n}
    BY <1>1, <1>2, <1>5 DEF CountedIn
  <2>2. Cardinality(CountedIn(longer)) = Cardinality(CountedIn(s)) + 1
    BY <2>1, <1>3, <1>4, FS_AddElement
  <2> QED BY <1>3, <1>5, <2>2 DEF longer
<1>6. CASE ~line.counted
  <2>1. CountedIn(longer) = CountedIn(s)
    BY <1>1, <1>2, <1>6 DEF CountedIn
  <2> QED BY <1>3, <1>6, <2>1 DEF longer
<1> QED BY <1>5, <1>6

\* What is pending was counted when it was checked.
PendingCounted == \A t \in Threads : pending[t] # NoLine => pending[t].counted

CountInv == PendingCounted /\ eventCount = Cardinality(CountedIn(accepted))

(* The counter compared with the limit is exactly the number of limited     *)
(* lines accepted: GC, session and statistics lines use none of it, nor do  *)
(* lines dropped as too long (WriteLockedEvent, 68-73).                     *)
THEOREM CountSafe == Spec => []CountExact
<1>1. Init => CountInv
  <2> SUFFICES ASSUME Init PROVE CountInv
    OBVIOUS
  <2>1. CountedIn(accepted) = {}
    BY DEF Init, CountedIn
  <2> QED BY <2>1, FS_EmptySet DEF Init, CountInv, PendingCounted
<1>2. TypeOK /\ CountInv /\ [Next]_vars => CountInv'
  <2> SUFFICES ASSUME TypeOK, CountInv, [Next]_vars PROVE CountInv'
    OBVIOUS
  <2> USE DEF CountInv
  <2>1. ASSUME NEW t \in Threads, NEW len \in Lens, BeginCounted(t, len) PROVE CountInv'
    BY <2>1 DEF BeginCounted, PendingCounted, CountedIn, TypeOK
  <2>2. ASSUME NEW t \in Threads, FinishCounted(t) PROVE CountInv'
    <3>1. PendingCounted'
      BY <2>2 DEF FinishCounted, PendingCounted, TypeOK
    <3>2. CASE pending[t].len < LineMax
      <4>1. pending[t] \in Rendered /\ pending[t].counted
        BY <2>2, <3>2, PendingIsRendered DEF FinishCounted, PendingCounted
      <4>2. accepted' = Append(accepted, pending[t]) /\ eventCount' = eventCount + 1
        BY <2>2, <3>2 DEF FinishCounted, AppendToBuffer
      <4>3. Cardinality(CountedIn(accepted')) = Cardinality(CountedIn(accepted)) + 1
        BY <4>1, <4>2, CountedOfAppend DEF TypeOK
      <4> QED BY <3>1, <4>2, <4>3 DEF CountedIn
    <3>3. CASE ~(pending[t].len < LineMax)
      BY <2>2, <3>1, <3>3 DEF FinishCounted, CountedIn
    <3> QED BY <3>2, <3>3
  <2>3. ASSUME NEW t \in Threads, NEW len \in Lens, WriteBypassing(t, len) PROVE CountInv'
    <3> DEFINE line == [id |-> issued + 1, counted |-> FALSE, len |-> len]
    <3>1. line \in Rendered /\ ~line.counted
      BY <2>3, WriterAssumption DEF WriteBypassing, Rendered, Line, TypeOK
    <3>2. accepted' = Append(accepted, line) /\ UNCHANGED <<eventCount, pending>>
      BY <2>3 DEF WriteBypassing, AppendToBuffer
    <3> HIDE DEF line
    <3>3. Cardinality(CountedIn(accepted')) = Cardinality(CountedIn(accepted))
      BY <3>1, <3>2, CountedOfAppend DEF TypeOK
    <3> QED BY <3>2, <3>3 DEF PendingCounted, CountedIn
  <2>4. CASE Flush
    BY <2>4 DEF Flush, PendingCounted, CountedIn
  <2>5. CASE UNCHANGED vars
    BY <2>5 DEF vars, PendingCounted, CountedIn
  <2> QED BY <2>1, <2>2, <2>3, <2>4, <2>5 DEF Next
<1>3. CountInv => CountExact
  BY DEF CountInv, CountExact, CountedIn
<1> QED BY <1>1, <1>2, <1>3, TypeInvariant, PTL DEF Spec

-----------------------------------------------------------------------------
(* The lines that reach the file.                                          *)

\* Appending a line appends it to file and buffer together, unless a write
\* fails.
LEMMA AppendKeepsAll ==
  ASSUME TypeOK, NothingLost, NEW line \in Rendered, AppendToBuffer(line)
  PROVE  NothingLost'
<1> SUFFICES ASSUME ~ioFailed' PROVE file' \o buffer' = accepted'
  BY DEF NothingLost
<1>1. <<line>> \in Seq(Rendered) /\ buffer \in Seq(Rendered) /\ file \in Seq(Rendered)
  BY DEF TypeOK
<1>2. accepted' = Append(accepted, line)
  BY DEF AppendToBuffer
<1>3. CASE WriteFile /\ buffer' = <<line>>
  <2>1. file' = file \o buffer /\ ~ioFailed
    BY <1>3 DEF WriteFile
  <2>2. accepted = file \o buffer /\ accepted \in Seq(Rendered)
    BY <2>1 DEF NothingLost, TypeOK
  <2>3. Append(accepted, line) = accepted \o <<line>>
    BY <2>2, AppendIsConcat
  <2> QED BY <1>2, <1>3, <2>1, <2>2, <2>3
<1>4. CASE buffer' = Append(buffer, line) /\ UNCHANGED <<file, ioFailed>>
  <2>1. accepted = file \o buffer /\ accepted \in Seq(Rendered)
    BY <1>4 DEF NothingLost, TypeOK
  <2>2. buffer' = buffer \o <<line>> /\ accepted' = accepted \o <<line>>
    BY <1>1, <1>2, <1>4, <2>1, AppendIsConcat
  <2>3. (file \o buffer) \o <<line>> = file \o (buffer \o <<line>>)
    BY <1>1, ConcatAssociative
  <2> QED BY <1>4, <2>1, <2>2, <2>3
<1> QED BY <1>3, <1>4 DEF AppendToBuffer

(* As long as no write failed the file followed by the buffer is every      *)
(* accepted line, once, in the order of the lock, for any interleaving of   *)
(* any number of threads (AppendToBuffer 350-378, Flush 340-348).           *)
THEOREM WriterComplete == Spec => []NothingLost
<1>1. Init => NothingLost
  <2>1. <<>> \o <<>> = <<>>
    BY EmptySeq, ConcatEmptySeq
  <2> QED BY <2>1 DEF Init, NothingLost
<1>2. TypeOK /\ NothingLost /\ [Next]_vars => NothingLost'
  <2> SUFFICES ASSUME TypeOK, NothingLost, [Next]_vars PROVE NothingLost'
    OBVIOUS
  <2>1. ASSUME NEW t \in Threads, NEW len \in Lens, BeginCounted(t, len) PROVE NothingLost'
    BY <2>1 DEF BeginCounted, NothingLost
  <2>2. ASSUME NEW t \in Threads, FinishCounted(t) PROVE NothingLost'
    <3>1. CASE pending[t].len < LineMax
      BY <2>2, <3>1, PendingIsRendered, AppendKeepsAll DEF FinishCounted
    <3>2. CASE ~(pending[t].len < LineMax)
      BY <2>2, <3>2 DEF FinishCounted, NothingLost
    <3> QED BY <3>1, <3>2
  <2>3. ASSUME NEW t \in Threads, NEW len \in Lens, WriteBypassing(t, len) PROVE NothingLost'
    <3> DEFINE line == [id |-> issued + 1, counted |-> FALSE, len |-> len]
    <3>1. line \in Rendered
      BY <2>3, WriterAssumption DEF WriteBypassing, Rendered, Line, TypeOK
    <3>2. AppendToBuffer(line)
      BY <2>3 DEF WriteBypassing
    <3> HIDE DEF line
    <3> QED BY <3>1, <3>2, AppendKeepsAll
  <2>4. CASE Flush
    <3> SUFFICES ASSUME ~ioFailed' PROVE file' \o buffer' = accepted'
      BY DEF NothingLost
    <3>1. file' = file \o buffer /\ ~ioFailed /\ buffer' = <<>> /\ accepted' = accepted
      BY <2>4 DEF Flush, WriteFile
    <3>2. file' \o <<>> = file'
      BY <3>1, ConcatProperties, ConcatEmptySeq DEF TypeOK
    <3> QED BY <3>1, <3>2 DEF NothingLost
  <2>5. CASE UNCHANGED vars
    BY <2>5 DEF vars, NothingLost
  <2> QED BY <2>1, <2>2, <2>3, <2>4, <2>5 DEF Next
<1> QED BY <1>1, <1>2, TypeInvariant, PTL DEF Spec

-----------------------------------------------------------------------------
(* The writer implements EventLog.                                         *)

\* The first lines of a concatenation that include all of the first part.
LEMMA PrefixOfConcat ==
  ASSUME NEW S, NEW s \in Seq(S), NEW t \in Seq(S), NEW k \in 0..Len(t)
  PROVE  /\ SubSeq(s \o t, 1, Len(s) + k) = s \o SubSeq(t, 1, k)
         /\ SubSeq(t, 1, k) \in Seq(S)
         /\ Len(s \o SubSeq(t, 1, k)) = Len(s) + k
<1> DEFINE st == s \o t
           front == SubSeq(t, 1, k)
           left == SubSeq(st, 1, Len(s) + k)
           right == s \o front
<1>1. Len(s) \in Nat /\ Len(t) \in Nat /\ k \in Nat
  BY LenProperties
<1>2. /\ st \in Seq(S) /\ Len(st) = Len(s) + Len(t)
      /\ \A i \in 1..Len(s) + Len(t) : st[i] = IF i <= Len(s) THEN s[i] ELSE t[i - Len(s)]
  BY ConcatProperties
<1>3. /\ front \in Seq(S) /\ Len(front) = k
      /\ \A i \in 1..k : front[i] = t[i]
  <2>1. \A i \in 1..k : t[i] \in S
    BY <1>1, ElementOfSeq
  <2> QED BY <1>1, <2>1, SubSeqProperties
<1>4. /\ right \in Seq(S) /\ Len(right) = Len(s) + k
      /\ \A i \in 1..Len(s) + k : right[i] = IF i <= Len(s) THEN s[i] ELSE front[i - Len(s)]
  BY <1>3, ConcatProperties
<1>5. /\ left \in Seq(S) /\ Len(left) = Len(s) + k
      /\ \A i \in 1..Len(s) + k : left[i] = st[i]
  <2> HIDE DEF st
  <2>1. \A i \in 1..Len(s) + k : st[i] \in S
    BY <1>1, <1>2, ElementOfSeq
  <2> QED BY <1>1, <2>1, SubSeqProperties
<1> HIDE DEF st, front, left, right
<1>6. ASSUME NEW i \in 1..Len(left) PROVE left[i] = right[i]
  <2>1. i \in 1..Len(s) + k /\ i \in 1..Len(s) + Len(t)
    BY <1>1, <1>5
  <2>2. left[i] = IF i <= Len(s) THEN s[i] ELSE t[i - Len(s)]
    BY <1>2, <1>5, <2>1
  <2>3. i > Len(s) => i - Len(s) \in 1..k
    BY <1>1, <2>1
  <2>4. CASE i <= Len(s)
    BY <1>4, <2>1, <2>2, <2>4
  <2>5. CASE ~(i <= Len(s))
    <3>1. i - Len(s) \in 1..k
      BY <1>1, <2>1, <2>3, <2>5
    <3>2. right[i] = front[i - Len(s)] /\ left[i] = t[i - Len(s)]
      BY <1>4, <2>1, <2>2, <2>5
    <3> QED BY <1>3, <3>1, <3>2
  <2> QED BY <2>4, <2>5
<1>7. left = right
  BY <1>4, <1>5, <1>6, SeqEqual
<1> QED BY <1>3, <1>4, <1>7 DEF st, front, left, right

\* What WriteFile does to the file: all of the buffer, or some of it.
LEMMA WriteFilePrefix ==
  ASSUME TypeOK, WriteFile
  PROVE  \/ file' = file \o buffer
         \/ \E k \in Len(file)..Len(file \o buffer) :
              /\ file' = SubSeq(file \o buffer, 1, k)
              /\ Len(file') = k
<1>1. CASE file' = file \o buffer
  BY <1>1
<1>2. ASSUME NEW k \in 0..Len(buffer) - 1, file' = file \o SubSeq(buffer, 1, k)
      PROVE  \E j \in Len(file)..Len(file \o buffer) :
               /\ file' = SubSeq(file \o buffer, 1, j)
               /\ Len(file') = j
  <2>1. /\ Len(file) \in Nat /\ Len(buffer) \in Nat
        /\ Len(file \o buffer) = Len(file) + Len(buffer)
    BY LenProperties, ConcatProperties DEF TypeOK
  <2>2. k \in 0..Len(buffer) /\ Len(file) + k \in Len(file)..Len(file \o buffer)
    BY <2>1
  <2>3. file' = SubSeq(file \o buffer, 1, Len(file) + k) /\ Len(file') = Len(file) + k
    BY <1>2, <2>2, PrefixOfConcat DEF TypeOK
  <2> QED BY <2>2, <2>3
<1> QED BY <1>1, <1>2 DEF WriteFile

\* An append is an Accept, or a Fail that takes the new line along.
LEMMA AppendRefines ==
  ASSUME TypeOK, NEW line \in Rendered, AppendToBuffer(line)
  PROVE  Log!Next
<1>1. /\ file \in Seq(Rendered) /\ buffer \in Seq(Rendered) /\ <<line>> \in Seq(Rendered)
      /\ file \o buffer \in Seq(Rendered) /\ line \in Line
  BY ConcatProperties DEF TypeOK, Rendered
<1>2. Append(file \o buffer, line) = (file \o buffer) \o <<line>>
  BY <1>1, AppendIsConcat
<1>3. CASE WriteFile /\ buffer' = <<line>>
  <2>1. CASE file' = file \o buffer
    BY <1>1, <1>2, <1>3, <2>1 DEF Log!Next, Log!Accept
  <2>2. ASSUME NEW k \in Len(file)..Len(file \o buffer),
               file' = SubSeq(file \o buffer, 1, k), Len(file') = k
        PROVE  Log!Next
    <3>1. file' \in Seq(Rendered)
      BY <1>3, WriteFileType
    <3>2. file' \o buffer' = Append(SubSeq(file \o buffer, 1, k), line)
      BY <1>3, <2>2, <3>1, AppendIsConcat
    <3> QED BY <1>1, <2>2, <3>2 DEF Log!Next, Log!Fail
  <2> QED BY <1>3, <2>1, <2>2, WriteFilePrefix
<1>4. CASE buffer' = Append(buffer, line) /\ UNCHANGED file
  <2>1. file' \o buffer' = Append(file \o buffer, line)
    BY <1>1, <1>2, <1>4, AppendIsConcat, ConcatAssociative
  <2> QED BY <1>1, <1>4, <2>1 DEF Log!Next, Log!Accept
<1> QED BY <1>3, <1>4 DEF AppendToBuffer

\* A flush is a Persist or a Fail.
LEMMA FlushRefines ==
  ASSUME TypeOK, Flush
  PROVE  Log!Next
<1>1. WriteFile /\ buffer' = <<>>
  BY DEF Flush
<1>2. file' \in Seq(Rendered)
  BY <1>1, WriteFileType
<1>3. file' \o buffer' = file'
  BY <1>1, <1>2, ConcatEmptySeq
<1>4. CASE file' = file \o buffer
  BY <1>3, <1>4 DEF Log!Next, Log!Persist
<1>5. ASSUME NEW k \in Len(file)..Len(file \o buffer),
             file' = SubSeq(file \o buffer, 1, k), Len(file') = k
      PROVE  Log!Next
  BY <1>3, <1>5 DEF Log!Next, Log!Fail
<1> QED BY <1>1, <1>4, <1>5, WriteFilePrefix

(* The writer implements the append-only log: the file only grows, what is  *)
(* in it is never rewritten or reordered, and a failing write loses a tail  *)
(* of what was not yet in the file, never anything else.                    *)
THEOREM WriterImplementsLog == Spec => ImplementsEventLog
<1>1. Init => Log!Init
  <2>1. <<>> \o <<>> = <<>> /\ Len(<<>>) = 0
    BY EmptySeq, ConcatEmptySeq
  <2> QED BY <2>1 DEF Init, Log!Init
<1>2. TypeOK /\ [Next]_vars => [Log!Next]_(Log!logVars)
  <2> SUFFICES ASSUME TypeOK, [Next]_vars PROVE Log!Next \/ UNCHANGED Log!logVars
    OBVIOUS
  <2>1. ASSUME NEW t \in Threads, NEW len \in Lens, BeginCounted(t, len)
        PROVE  UNCHANGED Log!logVars
    BY <2>1 DEF BeginCounted, Log!logVars
  <2>2. ASSUME NEW t \in Threads, FinishCounted(t)
        PROVE  Log!Next \/ UNCHANGED Log!logVars
    <3>1. CASE pending[t].len < LineMax
      BY <2>2, <3>1, PendingIsRendered, AppendRefines DEF FinishCounted
    <3>2. CASE ~(pending[t].len < LineMax)
      BY <2>2, <3>2 DEF FinishCounted, Log!logVars
    <3> QED BY <3>1, <3>2
  <2>3. ASSUME NEW t \in Threads, NEW len \in Lens, WriteBypassing(t, len) PROVE Log!Next
    <3> DEFINE line == [id |-> issued + 1, counted |-> FALSE, len |-> len]
    <3>1. line \in Rendered
      BY <2>3, WriterAssumption DEF WriteBypassing, Rendered, Line, TypeOK
    <3>2. AppendToBuffer(line)
      BY <2>3 DEF WriteBypassing
    <3> HIDE DEF line
    <3> QED BY <3>1, <3>2, AppendRefines
  <2>4. CASE Flush
    BY <2>4, FlushRefines
  <2>5. CASE UNCHANGED vars
    BY <2>5 DEF vars, Log!logVars
  <2> QED BY <2>1, <2>2, <2>3, <2>4, <2>5 DEF Next
<1> QED BY <1>1, <1>2, TypeInvariant, PTL DEF Spec, ImplementsEventLog, Log!Spec

-----------------------------------------------------------------------------
(* The order of the file.                                                  *)

\* The lines of s are lines of log, in its order.
InOrder(s, log) ==
  /\ \A i \in 1..Len(s) : \E j \in 1..Len(log) : log[j] = s[i]
  /\ \A i1, i2 \in 1..Len(s) : \A j1, j2 \in 1..Len(log) :
       (i1 < i2 /\ log[j1] = s[i1] /\ log[j2] = s[i2]) => j1 < j2

\* A prefix stays in order.
LEMMA PrefixInOrder ==
  ASSUME NEW S, NEW s \in Seq(S), NEW log \in Seq(S), InOrder(s, log), NEW k \in 0..Len(s)
  PROVE  SubSeq(s, 1, k) \in Seq(S) /\ InOrder(SubSeq(s, 1, k), log)
<1> DEFINE front == SubSeq(s, 1, k)
<1>1. Len(s) \in Nat /\ k \in Nat /\ k <= Len(s)
  BY LenProperties
<1>2. \A i \in 1..k : s[i] \in S
  BY <1>1, ElementOfSeq
<1>3. front \in Seq(S) /\ Len(front) = k /\ \A i \in 1..k : front[i] = s[i]
  BY <1>1, <1>2, SubSeqProperties
<1> HIDE DEF front
<1>4. \A i \in 1..k : i \in 1..Len(s)
  BY <1>1
<1>5. InOrder(front, log)
  BY <1>3, <1>4 DEF InOrder
<1> QED BY <1>3, <1>5 DEF front

\* A line that is new to the log may be appended to both.
LEMMA AppendInOrder ==
  ASSUME NEW S, NEW s \in Seq(S), NEW log \in Seq(S), InOrder(s, log),
         NEW line \in S, \A j \in 1..Len(log) : log[j] # line
  PROVE  InOrder(Append(s, line), Append(log, line))
<1> DEFINE s2 == Append(s, line)
           log2 == Append(log, line)
           m == Len(s)
           n == Len(log)
<1>1. /\ m \in Nat /\ Len(s2) = m + 1 /\ s2[m + 1] = line
      /\ \A i \in 1..m : s2[i] = s[i]
  BY LenProperties, AppendProperties
<1>2. /\ n \in Nat /\ Len(log2) = n + 1 /\ log2[n + 1] = line
      /\ \A j \in 1..n : log2[j] = log[j]
  BY LenProperties, AppendProperties
<1> HIDE DEF s2, log2
<1>3. ASSUME NEW i \in 1..Len(s2) PROVE \E j \in 1..Len(log2) : log2[j] = s2[i]
  <2>1. CASE i = m + 1
    <3>1. n + 1 \in 1..Len(log2)
      BY <1>2
    <3> QED BY <1>1, <1>2, <2>1, <3>1
  <2>2. CASE i # m + 1
    <3>1. i \in 1..m
      BY <1>1, <2>2
    <3>2. PICK j \in 1..n : log[j] = s[i]
      BY <3>1 DEF InOrder
    <3>3. j \in 1..Len(log2)
      BY <1>2
    <3> QED BY <1>1, <1>2, <3>1, <3>2, <3>3
  <2> QED BY <2>1, <2>2
<1>4. \A i \in 1..m : s[i] # line
  BY DEF InOrder
<1>5. ASSUME NEW i1 \in 1..Len(s2), NEW i2 \in 1..Len(s2),
             NEW j1 \in 1..Len(log2), NEW j2 \in 1..Len(log2),
             i1 < i2, log2[j1] = s2[i1], log2[j2] = s2[i2]
      PROVE  j1 < j2
  <2>1. i1 \in 1..m
    BY <1>1, <1>5
  <2>2. s2[i1] = s[i1] /\ s2[i1] # line
    BY <1>1, <1>4, <2>1
  <2>3. j1 \in 1..n
    <3>1. j1 # n + 1
      BY <1>2, <1>5, <2>2
    <3> QED BY <1>2, <3>1
  <2>4. CASE i2 = m + 1
    <3>1. log2[j2] = line
      BY <1>1, <1>5, <2>4
    <3>2. j2 = n + 1
      BY <1>2, <3>1
    <3> QED BY <1>2, <2>3, <3>2
  <2>5. CASE i2 # m + 1
    <3>1. i2 \in 1..m
      BY <1>1, <2>5
    <3>2. s2[i2] = s[i2] /\ s[i2] # line
      BY <1>1, <1>4, <3>1
    <3>3. j2 \in 1..n
      <4>1. j2 # n + 1
        BY <1>2, <1>5, <3>2
      <4> QED BY <1>2, <4>1
    <3>4. log[j1] = s[i1] /\ log[j2] = s[i2]
      BY <1>2, <1>5, <2>2, <2>3, <3>2, <3>3
    <3> QED BY <1>5, <2>1, <2>3, <3>1, <3>3, <3>4 DEF InOrder
  <2> QED BY <2>4, <2>5
<1> QED BY <1>3, <1>5 DEF InOrder, s2, log2

\* Lines are told apart by their ids, in the log and on their way to it.
IdInv ==
  /\ \A i \in 1..Len(accepted) : accepted[i].id <= issued
  /\ \A i, j \in 1..Len(accepted) : accepted[i] = accepted[j] => i = j
  /\ \A t \in Threads : pending[t] # NoLine =>
       /\ pending[t].id <= issued
       /\ \A i \in 1..Len(accepted) : accepted[i].id # pending[t].id
       /\ \A u \in Threads : (u # t /\ pending[u] # NoLine) => pending[u].id # pending[t].id

OrderInv == IdInv /\ InOrder(file \o buffer, accepted)

\* An append puts the line after some prefix of file and buffer.
LEMMA AppendShape ==
  ASSUME TypeOK, NEW line \in Rendered, AppendToBuffer(line)
  PROVE  /\ accepted' = Append(accepted, line)
         /\ \/ file' \o buffer' = Append(file \o buffer, line)
            \/ \E k \in 0..Len(file \o buffer) :
                 file' \o buffer' = Append(SubSeq(file \o buffer, 1, k), line)
<1>1. /\ file \in Seq(Rendered) /\ buffer \in Seq(Rendered) /\ <<line>> \in Seq(Rendered)
      /\ file \o buffer \in Seq(Rendered) /\ Len(file) \in Nat
  BY ConcatProperties, LenProperties DEF TypeOK
<1>2. Append(file \o buffer, line) = (file \o buffer) \o <<line>>
  BY <1>1, AppendIsConcat
<1>3. CASE WriteFile /\ buffer' = <<line>>
  <2>1. CASE file' = file \o buffer
    BY <1>2, <1>3, <2>1 DEF AppendToBuffer
  <2>2. ASSUME NEW k \in Len(file)..Len(file \o buffer), file' = SubSeq(file \o buffer, 1, k)
        PROVE  \E j \in 0..Len(file \o buffer) :
                 file' \o buffer' = Append(SubSeq(file \o buffer, 1, j), line)
    <3>1. file' \in Seq(Rendered) /\ k \in 0..Len(file \o buffer)
      BY <1>1, <1>3, WriteFileType
    <3>2. file' \o buffer' = Append(SubSeq(file \o buffer, 1, k), line)
      BY <1>3, <2>2, <3>1, AppendIsConcat
    <3> QED BY <3>1, <3>2
  <2> QED BY <1>3, <2>1, <2>2, WriteFilePrefix DEF AppendToBuffer
<1>4. CASE buffer' = Append(buffer, line) /\ UNCHANGED file
  <2>1. file' \o buffer' = Append(file \o buffer, line)
    BY <1>1, <1>2, <1>4, AppendIsConcat, ConcatAssociative
  <2> QED BY <2>1 DEF AppendToBuffer
<1> QED BY <1>3, <1>4 DEF AppendToBuffer

\* An append of a line that is new keeps the order.
LEMMA AppendKeepsOrder ==
  ASSUME TypeOK, InOrder(file \o buffer, accepted), NEW line \in Rendered, AppendToBuffer(line),
         \A j \in 1..Len(accepted) : accepted[j].id # line.id
  PROVE  InOrder(file \o buffer, accepted)'
<1>1. file \o buffer \in Seq(Rendered) /\ accepted \in Seq(Rendered)
  BY ConcatProperties DEF TypeOK
<1>2. \A j \in 1..Len(accepted) : accepted[j] # line
  OBVIOUS
<1>3. CASE file' \o buffer' = Append(file \o buffer, line)
  BY <1>1, <1>2, <1>3, AppendShape, AppendInOrder
<1>4. ASSUME NEW k \in 0..Len(file \o buffer),
             file' \o buffer' = Append(SubSeq(file \o buffer, 1, k), line)
      PROVE  InOrder(file \o buffer, accepted)'
  <2>1. /\ SubSeq(file \o buffer, 1, k) \in Seq(Rendered)
        /\ InOrder(SubSeq(file \o buffer, 1, k), accepted)
    BY <1>1, PrefixInOrder
  <2>2. accepted' = Append(accepted, line)
    BY AppendShape
  <2> QED BY <1>1, <1>2, <1>4, <2>1, <2>2, AppendInOrder
<1> QED BY <1>3, <1>4, AppendShape

\* Ids stay apart when a line is appended whose id no other line has.
LEMMA AppendKeepsIds ==
  ASSUME TypeOK, IdInv, NEW line \in Rendered, accepted' = Append(accepted, line),
         line.id <= issued', issued <= issued', issued' \in Nat,
         \A i \in 1..Len(accepted) : accepted[i].id # line.id,
         \A t \in Threads : pending'[t] # NoLine =>
           pending[t] = pending'[t] /\ pending[t].id # line.id
  PROVE  IdInv'
<1> DEFINE n == Len(accepted)
<1>1. /\ n \in Nat /\ Len(accepted') = n + 1 /\ accepted'[n + 1] = line
      /\ \A i \in 1..n : accepted'[i] = accepted[i]
  BY LenProperties, AppendProperties DEF TypeOK
<1>2. \A i \in 1..n + 1 : i \in 1..n \/ i = n + 1
  BY <1>1
<1>3. /\ issued \in Nat /\ line.id \in Nat
      /\ \A i \in 1..n : accepted[i].id \in Nat
      /\ \A t \in Threads : pending[t] # NoLine => pending[t].id \in Nat
  <2>1. \A l \in Line : l.id \in Nat
    BY WriterAssumption DEF Line
  <2>2. \A i \in 1..n : accepted[i] \in Line
    BY <1>1, ElementOfSeq DEF TypeOK, Rendered
  <2>3. \A t \in Threads : pending[t] # NoLine => pending[t] \in Line
    BY DEF TypeOK
  <2> QED BY <2>1, <2>2, <2>3 DEF TypeOK, Rendered
<1>4. \A i \in 1..Len(accepted') : accepted'[i].id <= issued'
  BY <1>1, <1>2, <1>3 DEF IdInv
<1>5. \A i, j \in 1..Len(accepted') : accepted'[i] = accepted'[j] => i = j
  BY <1>1, <1>2 DEF IdInv
<1>6. ASSUME NEW t \in Threads, pending'[t] # NoLine
      PROVE  /\ pending'[t].id <= issued'
             /\ \A i \in 1..Len(accepted') : accepted'[i].id # pending'[t].id
             /\ \A u \in Threads : (u # t /\ pending'[u] # NoLine) =>
                  pending'[u].id # pending'[t].id
  <2>1. pending[t] = pending'[t] /\ pending[t].id # line.id
    BY <1>6
  <2>2. pending'[t].id <= issued'
    BY <1>3, <1>6, <2>1 DEF IdInv
  <2>3. \A i \in 1..Len(accepted') : accepted'[i].id # pending'[t].id
    BY <1>1, <1>2, <1>6, <2>1 DEF IdInv
  <2>4. \A u \in Threads : (u # t /\ pending'[u] # NoLine) => pending'[u].id # pending'[t].id
    BY <1>6, <2>1 DEF IdInv
  <2> QED BY <2>2, <2>3, <2>4
<1> QED BY <1>4, <1>5, <1>6 DEF IdInv

LEMMA OrderStep == TypeOK /\ OrderInv /\ [Next]_vars => OrderInv'
<1> SUFFICES ASSUME TypeOK, OrderInv, [Next]_vars PROVE OrderInv'
  OBVIOUS
<1>0. /\ issued \in Nat
      /\ \A i \in 1..Len(accepted) : accepted[i].id \in Nat
      /\ \A t \in Threads : pending[t] # NoLine => pending[t].id \in Nat
  <2>1. \A l \in Line : l.id \in Nat
    BY WriterAssumption DEF Line
  <2>2. \A i \in 1..Len(accepted) : accepted[i] \in Line
    BY LenProperties, ElementOfSeq DEF TypeOK, Rendered
  <2>3. \A t \in Threads : pending[t] # NoLine => pending[t] \in Line
    BY DEF TypeOK
  <2> QED BY <2>1, <2>2, <2>3 DEF TypeOK
<1>1. ASSUME NEW t \in Threads, NEW len \in Lens, BeginCounted(t, len) PROVE OrderInv'
  <2>1. UNCHANGED <<buffer, file, accepted>> /\ issued' = issued + 1
    BY <1>1 DEF BeginCounted
  <2>2. pending' = [pending EXCEPT ![t] = [id |-> issued + 1, counted |-> TRUE, len |-> len]]
    BY <1>1 DEF BeginCounted
  <2>3. /\ pending'[t].id = issued + 1
        /\ \A u \in Threads : u # t => pending'[u] = pending[u]
    BY <2>2 DEF TypeOK
  <2>4. \A i \in 1..Len(accepted) : accepted[i].id <= issued /\ accepted[i].id # issued + 1
    BY <1>0 DEF OrderInv, IdInv
  <2>5. \A u \in Threads : pending[u] # NoLine => pending[u].id # issued + 1
    BY <1>0 DEF OrderInv, IdInv
  <2>6. IdInv'
    BY <1>0, <2>1, <2>3, <2>4, <2>5 DEF OrderInv, IdInv
  <2> QED BY <2>1, <2>6 DEF OrderInv
<1>2. ASSUME NEW t \in Threads, FinishCounted(t) PROVE OrderInv'
  <2>1. /\ pending[t] # NoLine /\ pending'[t] = NoLine /\ issued' = issued
        /\ \A u \in Threads : u # t => pending'[u] = pending[u]
    BY <1>2 DEF FinishCounted, TypeOK
  <2>2. CASE pending[t].len < LineMax
    <3>1. pending[t] \in Rendered /\ AppendToBuffer(pending[t])
      BY <1>2, <2>2, PendingIsRendered DEF FinishCounted
    <3>2. /\ pending[t].id <= issued
          /\ \A i \in 1..Len(accepted) : accepted[i].id # pending[t].id
      BY <2>1 DEF OrderInv, IdInv
    <3>3. \A u \in Threads : pending'[u] # NoLine =>
            pending[u] = pending'[u] /\ pending[u].id # pending[t].id
      BY <2>1 DEF OrderInv, IdInv
    <3>4. InOrder(file \o buffer, accepted)'
      BY <3>1, <3>2, AppendKeepsOrder DEF OrderInv
    <3>5. IdInv'
      BY <1>0, <2>1, <3>1, <3>2, <3>3, AppendShape, AppendKeepsIds DEF OrderInv
    <3> QED BY <3>4, <3>5 DEF OrderInv
  <2>3. CASE ~(pending[t].len < LineMax)
    BY <1>2, <2>1, <2>3 DEF FinishCounted, OrderInv, IdInv
  <2> QED BY <2>2, <2>3
<1>3. ASSUME NEW t \in Threads, NEW len \in Lens, WriteBypassing(t, len) PROVE OrderInv'
  <2> DEFINE line == [id |-> issued + 1, counted |-> FALSE, len |-> len]
  <2>1. line \in Rendered /\ line.id = issued + 1
    BY <1>3, WriterAssumption DEF WriteBypassing, Rendered, Line, TypeOK
  <2>2. AppendToBuffer(line) /\ issued' = issued + 1 /\ pending' = pending
    BY <1>3 DEF WriteBypassing
  <2> HIDE DEF line
  <2>3. \A i \in 1..Len(accepted) : accepted[i].id # line.id
    BY <1>0, <2>1 DEF OrderInv, IdInv
  <2>4. \A u \in Threads : pending[u] # NoLine => pending[u].id # line.id
    BY <1>0, <2>1 DEF OrderInv, IdInv
  <2>5. InOrder(file \o buffer, accepted)'
    BY <2>1, <2>2, <2>3, AppendKeepsOrder DEF OrderInv
  <2>6. IdInv'
    BY <1>0, <2>1, <2>2, <2>3, <2>4, AppendShape, AppendKeepsIds DEF OrderInv
  <2> QED BY <2>5, <2>6 DEF OrderInv
<1>4. CASE Flush
  <2>1. /\ WriteFile /\ buffer' = <<>>
        /\ UNCHANGED <<pending, issued, accepted>>
    BY <1>4 DEF Flush
  <2>2. file' \in Seq(Rendered) /\ file' \o buffer' = file'
    BY <2>1, WriteFileType, ConcatEmptySeq
  <2>3. file \o buffer \in Seq(Rendered) /\ Len(file) \in Nat /\ accepted \in Seq(Rendered)
    BY ConcatProperties, LenProperties DEF TypeOK
  <2>4. CASE file' = file \o buffer
    BY <2>1, <2>2, <2>4 DEF OrderInv, IdInv
  <2>5. ASSUME NEW k \in Len(file)..Len(file \o buffer), file' = SubSeq(file \o buffer, 1, k)
        PROVE  OrderInv'
    <3>1. k \in 0..Len(file \o buffer)
      BY <2>3
    <3>2. InOrder(file', accepted)
      BY <2>3, <2>5, <3>1, PrefixInOrder DEF OrderInv
    <3> QED BY <2>1, <2>2, <3>2 DEF OrderInv, IdInv
  <2> QED BY <2>1, <2>4, <2>5, WriteFilePrefix
<1>5. CASE UNCHANGED vars
  BY <1>5 DEF vars, OrderInv, IdInv
<1> QED BY <1>1, <1>2, <1>3, <1>4, <1>5 DEF Next

(* Whatever writes fail and however the threads interleave, the file has     *)
(* accepted lines only, each at most once, in the order the lock admitted    *)
(* them (AppendToBuffer 350-378, Flush 340-348).                             *)
THEOREM FileOrdered == Spec => []FileInOrder
<1>1. Init => OrderInv
  <2> SUFFICES ASSUME Init PROVE OrderInv
    OBVIOUS
  <2>1. /\ file \o buffer = <<>> /\ Len(<<>>) = 0
        /\ accepted = <<>> /\ \A t \in Threads : pending[t] = NoLine
    BY EmptySeq, ConcatEmptySeq DEF Init
  <2> QED BY <2>1 DEF OrderInv, IdInv, InOrder
<1>2. TypeOK /\ OrderInv => FileInOrder
  <2> SUFFICES ASSUME TypeOK, OrderInv PROVE FileInOrder
    OBVIOUS
  <2> DEFINE all == file \o buffer
  <2>1. /\ DOMAIN file = 1..Len(file) /\ DOMAIN accepted = 1..Len(accepted)
        /\ Len(file) \in Nat /\ Len(buffer) \in Nat
        /\ Len(all) = Len(file) + Len(buffer)
        /\ \A i \in 1..Len(file) : i \in 1..Len(all) /\ all[i] = file[i]
    BY LenProperties, ConcatProperties DEF TypeOK
  <2> HIDE DEF all
  <2>2. InOrder(all, accepted)
    BY DEF OrderInv, all
  <2>3. \A i \in DOMAIN file : \E j \in DOMAIN accepted : accepted[j] = file[i]
    BY <2>1, <2>2 DEF InOrder
  <2>4. \A i \in DOMAIN file :
          Position(file[i]) \in DOMAIN accepted /\ accepted[Position(file[i])] = file[i]
    BY <2>3 DEF Position
  <2>5. \A i, j \in DOMAIN file : i < j => Position(file[i]) < Position(file[j])
    BY <2>1, <2>2, <2>4 DEF InOrder
  <2> QED BY <2>3, <2>5 DEF FileInOrder
<1> QED BY <1>1, <1>2, OrderStep, TypeInvariant, PTL DEF Spec
=============================================================================
