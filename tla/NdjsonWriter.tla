----------------------------- MODULE NdjsonWriter -----------------------------
(***************************************************************************)
(* NdjsonWriter.cpp: the buffered event file shared by every thread of the *)
(* profiled process.  A per-call event is checked against maxEvents        *)
(* without the lock, rendered, and only then appended and counted under    *)
(* the lock; statistics, GC and session lines bypass the limit.  Lines are *)
(* abstracted to a length and a flag; `id' is the order in which the       *)
(* writing calls began.                                                    *)
(***************************************************************************)
EXTENDS Integers, Sequences, FiniteSets

CONSTANTS
  Threads,      \* threads that write events
  NoLine,       \* a thread that is not between its check and its append
  Lens,         \* lengths a rendered line may have
  LineMax,      \* sizeof(line): a line this long or longer is dropped
  BufferSize,   \* BUFFER_SIZE
  MaxEvents,    \* m_maxEvents; 0 is unlimited
  Opens,        \* whether the output file may fail to open: subset of BOOLEAN
  IoMayFail,    \* whether a write to the file may fail
  MaxLines      \* bound: writing calls in a behaviour

\* Flush at 80% capacity.
Threshold == (BufferSize * 80) \div 100

\* 2048-byte line buffers against a 64 KiB buffer: every rendered line fits
\* below the threshold (so AppendToBuffer's direct write, 366-374, is dead).
ASSUME WriterAssumption ==
  /\ IsFiniteSet(Threads) /\ Threads # {}
  /\ Lens \subseteq Nat \ {0}
  /\ LineMax \in Nat /\ BufferSize \in Nat
  /\ LineMax <= (BufferSize * 80) \div 100
  /\ MaxEvents \in Nat
  /\ Opens \subseteq BOOLEAN
  /\ IoMayFail \in BOOLEAN
  /\ MaxLines \in Nat

Line == [id : 1..MaxLines, counted : BOOLEAN, len : Lens]

ASSUME NoLineAssumption == NoLine \notin Line

VARIABLES
  buffer,      \* m_buffer, as lines
  bufferPos,   \* m_bufferPos, in bytes
  eventCount,  \* m_eventCount
  fileOpen,    \* m_fileHandle is valid
  file,        \* the complete lines in the output file
  fragments,   \* after how many complete lines a partial line was left behind
  pending,     \* thread -> its rendered line, checked but not yet appended
  issued,      \* writing calls begun so far
  accepted,    \* history: every line appended, in the order of the lock
  ioFailed     \* history: some write failed

vars == <<buffer, bufferPos, eventCount, fileOpen, file, fragments, pending, issued,
          accepted, ioFailed>>

Init ==
  /\ buffer = <<>> /\ bufferPos = 0 /\ eventCount = 0
  /\ fileOpen \in Opens
  /\ file = <<>> /\ fragments = {}
  /\ pending = [t \in Threads |-> NoLine]
  /\ issued = 0
  /\ accepted = <<>>
  /\ ioFailed = FALSE

-----------------------------------------------------------------------------
(* The file.  PalWriteFile's result is ignored: after a failure the buffer *)
(* is reset all the same, with some prefix of it in the file.              *)

WriteFile ==
  \/ /\ file' = file \o buffer
     /\ UNCHANGED <<fragments, ioFailed>>
  \/ /\ IoMayFail
     /\ \E k \in 0..Len(buffer) - 1, torn \in BOOLEAN :
          /\ file' = file \o SubSeq(buffer, 1, k)
          /\ fragments' = IF torn THEN fragments \cup {Len(file) + k} ELSE fragments
     /\ ioFailed' = TRUE

\* Mutation: the new line goes to the file before what is buffered.
AppendOvertaking(line) ==
  /\ IF bufferPos + line.len > Threshold /\ fileOpen /\ bufferPos > 0
     THEN /\ file' = Append(file, line)
          /\ UNCHANGED <<buffer, bufferPos>>
     ELSE /\ buffer' = Append(buffer, line)
          /\ bufferPos' = bufferPos + line.len
          /\ UNCHANGED file
  /\ UNCHANGED <<fragments, ioFailed>>
  /\ accepted' = Append(accepted, line)

\* Mutation: the test for room comes after the copy.
AppendThenTest(line) ==
  /\ IF bufferPos > Threshold /\ fileOpen
     THEN /\ WriteFile
          /\ buffer' = <<line>>
          /\ bufferPos' = line.len
     ELSE /\ buffer' = Append(buffer, line)
          /\ bufferPos' = bufferPos + line.len
          /\ UNCHANGED <<file, fragments, ioFailed>>
  /\ accepted' = Append(accepted, line)

\* Mutation: a full buffer is thrown away instead of written.
AppendDiscarding(line) ==
  /\ IF bufferPos + line.len > Threshold /\ fileOpen /\ bufferPos > 0
     THEN /\ buffer' = <<line>>
          /\ bufferPos' = line.len
     ELSE /\ buffer' = Append(buffer, line)
          /\ bufferPos' = bufferPos + line.len
  /\ UNCHANGED <<file, fragments, ioFailed>>
  /\ accepted' = Append(accepted, line)

AppendToBuffer(line) ==
  /\ IF bufferPos + line.len > Threshold /\ fileOpen /\ bufferPos > 0
     THEN /\ WriteFile
          /\ buffer' = <<line>>
          /\ bufferPos' = line.len
     ELSE /\ buffer' = Append(buffer, line)
          /\ bufferPos' = bufferPos + line.len
          /\ UNCHANGED <<file, fragments, ioFailed>>
  /\ accepted' = Append(accepted, line)

\* Past its end the copy into m_buffer has no defined effect: nothing follows.
Defined == bufferPos <= BufferSize

-----------------------------------------------------------------------------
(* The operations.                                                         *)

CheckEventLimit == MaxEvents > 0 /\ eventCount >= MaxEvents

\* Mutation: the limit is compared with > instead of >=.
BeginCountedOffByOne(t, len) ==
  /\ Defined
  /\ pending[t] = NoLine
  /\ issued < MaxLines
  /\ ~(MaxEvents > 0 /\ eventCount > MaxEvents)
  /\ issued' = issued + 1
  /\ pending' = [pending EXCEPT ![t] = [id |-> issued + 1, counted |-> TRUE, len |-> len]]
  /\ UNCHANGED <<buffer, bufferPos, eventCount, fileOpen, file, fragments, accepted, ioFailed>>

\* WriteEnter, WriteLeave, WriteException, WriteAllocByClass[Detailed] and
\* WriteContentionStart/End up to the lock.  (At the limit they return at once.)
BeginCounted(t, len) ==
  /\ Defined
  /\ pending[t] = NoLine
  /\ issued < MaxLines
  /\ ~CheckEventLimit
  /\ issued' = issued + 1
  /\ pending' = [pending EXCEPT ![t] = [id |-> issued + 1, counted |-> TRUE, len |-> len]]
  /\ UNCHANGED <<buffer, bufferPos, eventCount, fileOpen, file, fragments, accepted, ioFailed>>

\* Mutation: a dropped line is counted too.
FinishCountedAlways(t) ==
  /\ Defined
  /\ pending[t] # NoLine
  /\ pending' = [pending EXCEPT ![t] = NoLine]
  /\ eventCount' = eventCount + 1
  /\ IF pending[t].len < LineMax
     THEN AppendToBuffer(pending[t])
     ELSE UNCHANGED <<buffer, bufferPos, file, fragments, accepted, ioFailed>>
  /\ UNCHANGED <<fileOpen, issued>>

\* Mutation: a line cut short by snprintf is appended all the same.
FinishCountedCut(t) ==
  /\ Defined
  /\ pending[t] # NoLine
  /\ pending' = [pending EXCEPT ![t] = NoLine]
  /\ AppendToBuffer(pending[t])
  /\ eventCount' = eventCount + 1
  /\ UNCHANGED <<fileOpen, issued>>

\* The rest of them: WriteLockedEvent, unless the line did not fit.
FinishCounted(t) ==
  /\ Defined
  /\ pending[t] # NoLine
  /\ pending' = [pending EXCEPT ![t] = NoLine]
  /\ IF pending[t].len < LineMax
     THEN /\ AppendToBuffer(pending[t])
          /\ eventCount' = eventCount + 1
     ELSE UNCHANGED <<buffer, bufferPos, file, fragments, accepted, ioFailed, eventCount>>
  /\ UNCHANGED <<fileOpen, issued>>

\* WriteSessionMetadata, WriteGcStart/End, WriteGcHeapStats, WriteMethodStats,
\* WriteExceptionStats: no limit, not counted.
WriteBypassing(t, len) ==
  /\ Defined
  /\ pending[t] = NoLine
  /\ issued < MaxLines
  /\ len < LineMax
  /\ issued' = issued + 1
  /\ AppendToBuffer([id |-> issued + 1, counted |-> FALSE, len |-> len])
  /\ UNCHANGED <<eventCount, fileOpen, pending>>

\* Mutation: Flush does not reset the buffer.
FlushKeepsBuffer ==
  /\ Defined
  /\ bufferPos > 0 /\ fileOpen
  /\ WriteFile
  /\ UNCHANGED <<buffer, bufferPos, eventCount, fileOpen, pending, issued, accepted>>

Flush ==
  /\ Defined
  /\ bufferPos > 0 /\ fileOpen
  /\ WriteFile
  /\ buffer' = <<>>
  /\ bufferPos' = 0
  /\ UNCHANGED <<eventCount, fileOpen, pending, issued, accepted>>

Next ==
  \/ \E t \in Threads, len \in Lens : BeginCounted(t, len)
  \/ \E t \in Threads : FinishCounted(t)
  \/ \E t \in Threads, len \in Lens : WriteBypassing(t, len)
  \/ Flush

Spec == Init /\ [][Next]_vars

-----------------------------------------------------------------------------
(* Properties.                                                             *)

\* Lines that snprintf rendered in full.
Rendered == {line \in Line : line.len < LineMax}

(* Type invariant: in particular only complete lines are ever appended.     *)
TypeOK ==
  /\ buffer \in Seq(Rendered) /\ file \in Seq(Rendered) /\ accepted \in Seq(Rendered)
  /\ bufferPos \in Nat /\ eventCount \in Nat /\ issued \in Nat
  /\ fileOpen \in BOOLEAN /\ ioFailed \in BOOLEAN
  /\ fragments \subseteq Nat
  /\ pending \in [Threads -> Line \cup {NoLine}]

(* With a valid handle the buffer never holds more than its 80% mark, so    *)
(* the copy in AppendToBuffer stays inside m_buffer.                        *)
BufferBounded == fileOpen => bufferPos <= Threshold

InFlight == {t \in Threads : pending[t] # NoLine}

(* The limit is checked outside the lock, so threads race past it; but the  *)
(* overshoot is at most one event per other thread.                         *)
OvershootBounded ==
  MaxEvents > 0 => eventCount <= MaxEvents + Cardinality(Threads) - 1

(* The counter is exactly the number of limited lines ever appended: lines  *)
(* that bypass the limit, and lines dropped as too long, use none of it.    *)
CountExact == eventCount = Cardinality({i \in DOMAIN accepted : accepted[i].counted})

(* Until a write fails, the file followed by the buffer is every accepted   *)
(* line, once, in the order the lock admitted them.                         *)
NothingLost == ~ioFailed => file \o buffer = accepted

Position(line) == CHOOSE i \in DOMAIN accepted : accepted[i] = line

(* Even after failed writes the file holds accepted lines only, without a   *)
(* repetition and in the order of acceptance.                               *)
FileInOrder ==
  \A i \in DOMAIN file :
    /\ \E j \in DOMAIN accepted : accepted[j] = file[i]
    /\ \A j \in DOMAIN file : i < j => Position(file[i]) < Position(file[j])

(* The writer implements the append-only log with a durable prefix.         *)
Log == INSTANCE EventLog WITH log <- file \o buffer, durable <- Len(file)
ImplementsEventLog == Log!Spec
=============================================================================
