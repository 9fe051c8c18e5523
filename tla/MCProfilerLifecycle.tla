------------------------- MODULE MCProfilerLifecycle -------------------------
(***************************************************************************)
(* Small instances of ProfilerLifecycle: sets of events enabled together.  *)
(***************************************************************************)
EXTENDS ProfilerLifecycle

MCSession(events) ==
  [file |-> "parsed", session |-> Unset, output |-> Unset,
   doc |-> [sessionId |-> "a1b2c3", events |-> events]]

MCEvents ==
  {EventType, {}, {"enter", "leave"}, {"alloc_by_class"}, {"gc_end", "gc_start"},
   {"gc_end", "contention_end"}, {"gc_heap_stats", "exception"},
   {"method_stats", "exception_stats", "contention_start"}, {"leave", "unknown", "alloc_by_class", "gc_end"}}

MCEnvironments ==
  {MCSession(events) : events \in MCEvents}
  \cup {[MCSession({"method_stats", "gc_heap_stats"}) EXCEPT
           !.doc = [events |-> @.events, statsFlushIntervalSeconds |-> 0]]}
  \cup {[MCSession(EventType) EXCEPT !.file = f] : f \in {"unset", "unopened", "malformed"}}
=============================================================================
