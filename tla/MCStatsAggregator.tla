-------------------------- MODULE MCStatsAggregator --------------------------
(***************************************************************************)
(* Small instances of StatsAggregator: a method, and an id that the method *)
(* cache does not know.                                                    *)
(***************************************************************************)
EXTENDS StatsAggregator, TLC

CONSTANTS t1, t2, f, u

MCThreads == {t1, t2}
\* Profiled threads are interchangeable (safety run only).
ThreadSymmetry == Permutations(MCThreads)

MCOneThread == {t1}
MCKeys == {f, u}
MCUnresolved == {u}
MCIntervals == {0, 2}
MCSemChoices == BOOLEAN
=============================================================================
