----------------------------- MODULE MCCallStack -----------------------------
(***************************************************************************)
(* Small instances of Hotspots: an async method, an included method and   *)
(* an excluded one.                                                        *)
(***************************************************************************)
EXTENDS Hotspots

CONSTANTS a, b, x

MCMethods == {a, b, x}
MCIncluded == {a, b}
MCAsync == {a}
MCEvents == {"enter", "leave", "method_stats", "exception_stats"}
MCEventsOfReadme == {"enter", "leave", "method_stats"}
MCTicks == {1}
=============================================================================
