------------------------------- MODULE EventLog -------------------------------
(***************************************************************************)
(* What the event writer promises its callers, seen from outside: an       *)
(* append-only log of lines of which a prefix is durable (in the output    *)
(* file).  The durable prefix is never rewritten.  A failing write may     *)
(* lose lines, but only lines that were not durable, and it loses the      *)
(* whole tail from some line on.                                           *)
(***************************************************************************)
EXTENDS Naturals, Sequences

CONSTANT Line

VARIABLES
  log,      \* the accepted lines that were not lost, in order
  durable   \* how many of them are in the file

logVars == <<log, durable>>

Init ==
  /\ log = <<>>
  /\ durable = 0

\* A line is accepted; making room for it may persist what came before.
Accept(line) ==
  /\ log' = Append(log, line)
  /\ durable' \in {durable, Len(log)}

Persist ==
  /\ durable' = Len(log)
  /\ log' = log

\* A write of the tail fails after k lines reached the file.
Fail(k) ==
  /\ durable' = k
  /\ \/ log' = SubSeq(log, 1, k)
     \/ \E line \in Line : log' = Append(SubSeq(log, 1, k), line)

Next ==
  \/ \E line \in Line : Accept(line)
  \/ Persist
  \/ \E k \in durable..Len(log) : Fail(k)

Spec == Init /\ [][Next]_logVars
=============================================================================
