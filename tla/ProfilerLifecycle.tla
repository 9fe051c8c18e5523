-------------------------- MODULE ProfilerLifecycle --------------------------
(***************************************************************************)
(* The profiler in one process from Initialize to Shutdown: what it asks   *)
(* of the CLR for the events its configuration enables, and which lines    *)
(* the callbacks then write.  The CLR and the program are external: they   *)
(* deliver an event only when its source was turned on.  Method filters,   *)
(* exception unwinding, the writer's buffer and limit, and callbacks that  *)
(* are still running when Shutdown starts have modules of their own        *)
(* (MethodCache, CallStack, NdjsonWriter, StatsAggregator).                *)
(***************************************************************************)
EXTENDS ConfigReader, FiniteSets

CONSTANTS
  Environments,   \* the environments the process may start in
  Pid,
  MaxTime         \* bound on the number of happenings

VARIABLES
  env, offered,   \* the environment; the ICorProfilerInfo versions the CLR has
  phase,          \* where Initialize or Shutdown is
  published,      \* g_ctx # nullptr
  ctx,            \* the ProfilerContext
  asked,          \* what the CLR was asked for: event masks and hooks
  program,        \* the program: time, inside a method or not, running GCs
  trace           \* lines written and saved, and what they ought to be

vars == <<env, offered, phase, published, ctx, asked, program, trace>>

ProfilerLifecycleAssumption == MaxTime \in Nat
ASSUME ProfilerLifecycleAssumption

-----------------------------------------------------------------------------
(* The context.  session is the set of keywords of the EventPipe session,   *)
(* empty when there is none; pending counts what the statistics hold; slots *)
(* tells which thread-local slots there were for the two that need one.     *)

Enabled(kind) == kind \in ctx.config.events
Wants(kinds) == kinds \cap ctx.config.events # {}

StatsEvents == {"method_stats", "exception_stats"}
HasAggregator == Wants(StatsEvents)

NewContext(config, slots) ==
  [config |-> config, slots |-> slots, shadow |-> 0, gcStartNs |-> 0, session |-> {},
   semaphore |-> FALSE, flusher |-> FALSE, pending |-> [k \in StatsEvents |-> 0]]

LineKinds == EventType \cup {"session_metadata"}
NoLines == [k \in LineKinds |-> 0]
Add(counts, kinds) ==
  [k \in DOMAIN counts |-> IF k \in kinds THEN counts[k] + 1 ELSE counts[k]]

Init ==
  /\ env \in Environments
  /\ offered \in {{}, {3}, {3, 5}, {3, 5, 12}}
  /\ phase = "loaded"
  /\ published = FALSE
  /\ ctx = NewContext(Defaults, {})
  /\ asked = [mask |-> {}, high |-> {}, hooked |-> FALSE, keywords |-> {}]
  /\ program = [now |-> 1, depth |-> 0, gcs |-> <<>>]
  /\ trace = [written |-> NoLines, saved |-> NoLines, due |-> NoLines,
              unattributed |-> 0, gcEnd |-> [reported |-> 0, actual |-> 0, alone |-> TRUE]]

-----------------------------------------------------------------------------
(* Initialize and SetupEventMonitoring.                                    *)

\* Up to the publication of g_ctx.  Without ICorProfilerInfo3 there is no
\* context at all.  The process may be out of thread-local slots: then no thread
\* has a shadow stack, or none has statistics.
Initialize ==
  /\ phase = "loaded"
  /\ IF 3 \in offered
     THEN /\ phase' = "published"
          /\ published' = TRUE
          /\ \E slots \in SUBSET {"stack", "stats"} : ctx' = NewContext(Load(env, Pid), slots)
          /\ trace' = [trace EXCEPT !.written = Add(@, {"session_metadata"})]
     ELSE /\ phase' = "failed"
          /\ UNCHANGED <<published, ctx, trace>>
  /\ UNCHANGED <<env, offered, asked, program>>

\* Mutation: allocations alone do not need the hooks.
NeedEltForCalls == Wants({"enter", "leave", "method_stats", "exception_stats", "exception"})

NeedElt == Wants({"enter", "leave", "method_stats", "exception_stats", "exception",
                  "alloc_by_class"})
NeedGcCallbacks == Wants({"gc_start", "gc_end"})
NeedFullGc == Enabled("alloc_by_class") \/ (NeedGcCallbacks /\ 5 \notin offered)

EventMask ==
  {"JIT_COMPILATION"}
  \cup (IF NeedElt THEN {"ENTERLEAVE", "FRAME_INFO"} ELSE {})
  \cup (IF Wants({"exception", "exception_stats"}) THEN {"EXCEPTIONS"} ELSE {})
  \cup (IF NeedFullGc THEN {"GC"} ELSE {})
  \cup (IF ctx.config.disableInlining THEN {"DISABLE_INLINING"} ELSE {})
  \cup (IF ctx.config.disableOptimizations THEN {"DISABLE_OPTIMIZATIONS"} ELSE {})

Keywords ==
  (IF Wants({"contention_start", "contention_end"}) THEN {"contention"} ELSE {})
  \cup (IF Enabled("gc_heap_stats") /\ 12 \in offered THEN {"gc"} ELSE {})

NeedSession == 12 \in offered /\ Keywords # {}

HighFlags ==
  (IF NeedGcCallbacks /\ ~NeedFullGc THEN {"BASIC_GC"} ELSE {})
  \cup (IF NeedSession THEN {"EVENT_PIPE"} ELSE {})

\* Mutation: the session is started before the calls that may fail.
SetupSessionFirst ==
  /\ phase = "published"
  /\ \E maskSet, hooksSet, mapperSet, started \in BOOLEAN :
       LET hooked == maskSet /\ NeedElt /\ hooksSet
           ready == maskSet /\ (NeedElt => hooksSet /\ mapperSet)
           session == IF NeedSession /\ started THEN Keywords ELSE {}
       IN  /\ asked' = [mask |-> IF maskSet THEN EventMask ELSE {},
                        high |-> IF maskSet /\ 5 \in offered THEN HighFlags ELSE {},
                        hooked |-> hooked,
                        keywords |-> session]
           /\ ctx' = [ctx EXCEPT !.session = session]
           /\ phase' = IF ready THEN "monitoring" ELSE "failed"
  /\ UNCHANGED <<env, offered, published, program, trace>>

\* SetEventMask2 where there is one and it is needed, SetEventMask otherwise;
\* then the hooks and the function mapper; the session last, whose failure is
\* ignored.  Each earlier call may fail and ends Initialize.
SetupEventMonitoring ==
  /\ phase = "published"
  /\ \E maskSet, hooksSet, mapperSet, started \in BOOLEAN :
       LET hooked == maskSet /\ NeedElt /\ hooksSet
           ready == maskSet /\ (NeedElt => hooksSet /\ mapperSet)
           session == IF ready /\ NeedSession /\ started THEN Keywords ELSE {}
       IN  /\ asked' = [mask |-> IF maskSet THEN EventMask ELSE {},
                        high |-> IF maskSet /\ 5 \in offered THEN HighFlags ELSE {},
                        hooked |-> hooked,
                        keywords |-> session]
           /\ ctx' = [ctx EXCEPT !.session = session]
           /\ phase' = IF ready THEN "monitoring" ELSE "failed"
  /\ UNCHANGED <<env, offered, published, program, trace>>

\* The rest of Initialize: the semaphore and the flush thread, either of which
\* may not come into being.
StartFlushing ==
  /\ phase = "monitoring"
  /\ phase' = "running"
  /\ \E created, started \in BOOLEAN :
       ctx' = [ctx EXCEPT !.semaphore = HasAggregator /\ created,
                          !.flusher = /\ HasAggregator /\ started
                                      /\ created \/ ctx.config.statsFlushIntervalSeconds > 0]
  /\ UNCHANGED <<env, offered, published, asked, program, trace>>

-----------------------------------------------------------------------------
(* Happenings in the program and the callbacks they lead to.  Every callback *)
(* gives up when g_ctx is null, so one that the CLR makes while Shutdown is  *)
(* under way writes nothing.                                                 *)

ProgramRuns ==
  /\ phase \in {"running", "stopping", "quiet"}
  /\ program.now < MaxTime

\* The callback runs if its source is on, and writes the enabled ones of kinds.
Line(source, kinds) ==
  IF published /\ source THEN kinds \cap ctx.config.events ELSE {}

Due(kinds) == IF published THEN kinds ELSE {}

\* A thread without a place for its statistics keeps none.
Recorded(source, kinds) == IF "stats" \in ctx.slots THEN Line(source, kinds) ELSE {}

Hooks == asked.hooked /\ "ENTERLEAVE" \in asked.mask
Exceptions == "EXCEPTIONS" \in asked.mask
Collections == "GC" \in asked.mask \/ "BASIC_GC" \in asked.high
Pipe(keyword) == "EVENT_PIPE" \in asked.high /\ keyword \in ctx.session

EnterMethod ==
  /\ ProgramRuns /\ program.depth = 0
  /\ program' = [program EXCEPT !.now = @ + 1, !.depth = 1]
  /\ ctx' = [ctx EXCEPT !.shadow = IF published /\ Hooks /\ "stack" \in ctx.slots THEN 1 ELSE @]
  /\ trace' = [trace EXCEPT !.written = Add(@, Line(Hooks, {"enter"})),
                            !.due = Add(@, Due({"enter"}))]
  /\ UNCHANGED <<env, offered, phase, published, asked>>

LeaveMethod ==
  /\ ProgramRuns /\ program.depth = 1
  /\ program' = [program EXCEPT !.now = @ + 1, !.depth = 0]
  /\ ctx' = [ctx EXCEPT !.shadow = IF published /\ Hooks THEN 0 ELSE @,
                        !.pending = Add(@, Recorded(Hooks, {"method_stats"}))]
  /\ trace' = [trace EXCEPT !.written = Add(@, Line(Hooks, {"leave"})),
                            !.due = Add(@, Due({"leave", "method_stats"}))]
  /\ UNCHANGED <<env, offered, phase, published, asked>>

\* The site of an exception or an allocation is the top of the shadow stack.
Unattributed(lines) == IF lines # {} /\ program.depth > ctx.shadow THEN 1 ELSE 0

\* GetClassFromObject may fail: the callback then ends with no line and no count.
ExceptionThrown ==
  /\ ProgramRuns
  /\ program' = [program EXCEPT !.now = @ + 1]
  /\ \E named \in BOOLEAN :
       LET source == Exceptions /\ named
           lines == Line(source, {"exception", "exception_stats"})
       IN  /\ ctx' = [ctx EXCEPT !.pending = Add(@, Recorded(source, {"exception_stats"}))]
           /\ trace' = [trace EXCEPT
                !.written = Add(@, Line(source, {"exception"})),
                !.due = Add(@, IF named THEN Due({"exception", "exception_stats"}) ELSE {}),
                !.unattributed = @ + Unattributed(lines)]
  /\ UNCHANGED <<env, offered, phase, published, asked>>

\* One class with objects, or none: each such class would be a line of its own.
ObjectsAllocatedByClass ==
  /\ ProgramRuns
  /\ program' = [program EXCEPT !.now = @ + 1]
  /\ \E allocated \in BOOLEAN :
       LET lines == Line("GC" \in asked.mask /\ allocated, {"alloc_by_class"})
       IN  trace' = [trace EXCEPT
             !.written = Add(@, lines),
             !.due = Add(@, IF allocated THEN Due({"alloc_by_class"}) ELSE {}),
             !.unattributed = @ + Unattributed(lines)]
  /\ UNCHANGED <<env, offered, phase, published, ctx, asked>>

\* What the CLR's provider sends: an event id with a payload, whose size is that
\* of one of the event's versions or, of heap statistics, too short for any.
RuntimeEvents == [id : {81}, size : {3}] \cup [id : {91}, size : {3, 11}]
                 \cup [id : {4}, size : {91, 92, 94, 110}]
Whole(e) == e.id = 4 => e.size \in {92, 94, 110}

KindOf(id) == CASE id = 81 -> "contention_start"
                [] id = 91 -> "contention_end"
                [] id = 4 -> "gc_heap_stats"

\* A contention_end without a duration in its payload is written all the same.
EventPipeLine(e) ==
  Line(Pipe(IF e.id = 4 THEN "gc" ELSE "contention"),
       IF e.id = 4 /\ e.size < 92 THEN {} ELSE {KindOf(e.id)})

\* A session that was started delivers before Initialize has returned.
EventPipeEventDelivered ==
  /\ ProgramRuns \/ (phase = "monitoring" /\ program.now < MaxTime)
  /\ program' = [program EXCEPT !.now = @ + 1]
  /\ \E e \in RuntimeEvents :
       trace' = [trace EXCEPT !.written = Add(@, EventPipeLine(e)),
                              !.due = Add(@, IF Whole(e) THEN Due({KindOf(e.id)}) ELSE {})]
  /\ UNCHANGED <<env, offered, phase, published, ctx, asked>>

\* Mutation: the start is noted only when gc_start is wanted.
NotedStartIfWanted ==
  IF Line(Collections, {"gc_start"}) # {} THEN program.now ELSE ctx.gcStartNs

\* The start is noted even when only gc_end is enabled.
NotedStart == IF published /\ Collections THEN program.now ELSE ctx.gcStartNs

\* A collection may run inside a concurrent one, which the full GC monitoring
\* rules out.
GarbageCollectionStarted ==
  /\ ProgramRuns
  /\ \/ program.gcs = <<>>
     \/ Len(program.gcs) = 1 /\ "GC" \notin asked.mask
  /\ program' = [program EXCEPT
       !.now = @ + 1,
       !.gcs = Append([i \in DOMAIN @ |-> [@[i] EXCEPT !.alone = FALSE]],
                      [start |-> program.now, alone |-> TRUE])]
  /\ ctx' = [ctx EXCEPT !.gcStartNs = NotedStart]
  /\ trace' = [trace EXCEPT !.written = Add(@, Line(Collections, {"gc_start"})),
                            !.due = Add(@, Due({"gc_start"}))]
  /\ UNCHANGED <<env, offered, phase, published, asked>>

GarbageCollectionFinished ==
  /\ ProgramRuns /\ program.gcs # <<>>
  /\ LET gc == program.gcs[Len(program.gcs)]
         start == ctx.gcStartNs
         lines == Line(Collections, {"gc_end"})
     IN  /\ program' = [program EXCEPT !.now = @ + 1,
                                       !.gcs = SubSeq(@, 1, Len(@) - 1)]
         /\ trace' = [trace EXCEPT
              !.written = Add(@, lines),
              !.due = Add(@, Due({"gc_end"})),
              !.gcEnd = IF lines = {} THEN @
                        ELSE [reported |-> IF start > 0 THEN program.now - start ELSE 0,
                              actual |-> program.now - gc.start,
                              alone |-> gc.alone]]
  /\ UNCHANGED <<env, offered, phase, published, ctx, asked>>

-----------------------------------------------------------------------------
(* Statistics flushes and Shutdown.                                        *)

\* One line per method and exception, counted here by the calls it reports.
AddAll(counts, pending) ==
  [k \in DOMAIN counts |-> counts[k] + IF k \in DOMAIN pending THEN pending[k] ELSE 0]

FlushAll ==
  /\ trace' = [trace EXCEPT !.written = AddAll(@, ctx.pending),
                            !.saved = AddAll(trace.written, ctx.pending)]

\* The flush thread, on a manual signal or when a period has passed.
FlushPeriodic ==
  /\ ctx.flusher
  /\ \/ ctx.semaphore
     \/ /\ ctx.config.statsFlushIntervalSeconds > 0
        /\ \E k \in StatsEvents : ctx.pending[k] > 0
  /\ FlushAll
  /\ ctx' = [ctx EXCEPT !.pending = [k \in StatsEvents |-> 0]]
  /\ UNCHANGED <<env, offered, phase, published, asked, program>>

\* Shutdown, first step: no callback finds the context any more.
StopCallbacks ==
  /\ phase = "running"
  /\ phase' = "stopping"
  /\ published' = FALSE
  /\ UNCHANGED <<env, offered, ctx, asked, program, trace>>

StopSession ==
  /\ phase = "stopping"
  /\ phase' = "quiet"
  /\ ctx' = [ctx EXCEPT !.session = {}]
  /\ UNCHANGED <<env, offered, published, asked, program, trace>>

\* Mutation: the statistics are written after the writer's last flush.
TeardownFlushesFirst ==
  /\ phase = "quiet"
  /\ phase' = "stopped"
  /\ trace' = [trace EXCEPT !.saved = trace.written, !.written = AddAll(@, ctx.pending)]
  /\ ctx' = [ctx EXCEPT !.flusher = FALSE, !.semaphore = FALSE,
                        !.pending = [k \in StatsEvents |-> 0]]
  /\ UNCHANGED <<env, offered, published, asked, program>>

\* The flush thread is joined, the remaining statistics are written, the
\* writer is flushed, the semaphore closed and the context deleted.
Teardown ==
  /\ phase = "quiet"
  /\ phase' = "stopped"
  /\ FlushAll
  /\ ctx' = [ctx EXCEPT !.flusher = FALSE, !.semaphore = FALSE,
                        !.pending = [k \in StatsEvents |-> 0]]
  /\ UNCHANGED <<env, offered, published, asked, program>>

Happening ==
  \/ EnterMethod \/ LeaveMethod \/ ExceptionThrown \/ ObjectsAllocatedByClass
  \/ EventPipeEventDelivered \/ GarbageCollectionStarted \/ GarbageCollectionFinished

Next ==
  \/ Initialize \/ SetupEventMonitoring \/ StartFlushing
  \/ Happening \/ FlushPeriodic
  \/ StopCallbacks \/ StopSession \/ Teardown

Spec == Init /\ [][Next]_vars

-----------------------------------------------------------------------------
(* Properties.                                                             *)

\* Types; event names the profiler does not know never reach the context.
TypeOK ==
  /\ env \in Environments
  /\ offered \subseteq {3, 5, 12}
  /\ phase \in {"loaded", "published", "monitoring", "running", "stopping", "quiet",
               "stopped", "failed"}
  /\ published \in BOOLEAN
  /\ ctx.config.events \subseteq EventType
  /\ ctx.session \subseteq {"contention", "gc"} /\ ctx.slots \subseteq {"stack", "stats"}
  /\ ctx.shadow \in {0, 1} /\ program.depth \in {0, 1}
  /\ ctx.gcStartNs \in 0..MaxTime /\ program.now \in 1..(MaxTime + 1)
  /\ ctx.semaphore \in BOOLEAN /\ ctx.flusher \in BOOLEAN
  /\ ctx.pending \in [StatsEvents -> Nat]
  /\ trace.written \in [LineKinds -> Nat]
  /\ trace.saved \in [LineKinds -> Nat]
  /\ trace.due \in [LineKinds -> Nat]
  /\ Len(program.gcs) <= 2

Reported(k) == trace.written[k] + IF k \in StatsEvents THEN ctx.pending[k] ELSE 0

\* Contention and heap statistics come through the session, which an old
\* runtime does not have and the CLR may refuse.
Served(k) ==
  /\ k \in {"contention_start", "contention_end", "gc_heap_stats"} => asked.keywords # {}
  /\ k \in StatsEvents => "stats" \in ctx.slots

(* Whatever events are enabled together and whatever the runtime offers:     *)
(* every occurrence of an enabled event that is due is reported exactly      *)
(* once, none of a disabled one is, and, where there is a shadow stack, each *)
(* exception and allocation inside a method names it.  Due is what happens   *)
(* while g_ctx is set and the CLR can describe: not an exception whose class *)
(* it does not give, a callback with no objects, or heap statistics cut      *)
(* short.  The masks, hooks and keywords of SetupEventMonitoring must suit   *)
(* what each handler tests for and needs (Profiler.cpp 169-275 and the       *)
(* handlers).                                                                *)
EventsServed ==
  phase \notin {"loaded", "failed"} =>
    /\ \A k \in EventType :
         Reported(k) = IF Enabled(k) /\ Served(k) THEN trace.due[k] ELSE 0
    /\ "stack" \in ctx.slots => trace.unattributed = 0

(* A start that fails leaves no session, semaphore or thread behind in the   *)
(* process ("resources aren't leaked on early return", Profiler.cpp 103).    *)
FailedStartQuiet ==
  phase = "failed" =>
    /\ asked.keywords = {} /\ ctx.session = {}
    /\ ~ctx.semaphore /\ ~ctx.flusher

(* A gc_end reports its own collection's duration unless another collection  *)
(* ran inside it: there is one start time for all of them (Profiler.cpp 679  *)
(* and 711).  It does so when gc_start is disabled, too.                     *)
GcDurationExact == trace.gcEnd.alone => trace.gcEnd.reported = trace.gcEnd.actual

(* After Shutdown the file has all that was due until g_ctx was cleared,     *)
(* the statistics included, and nothing is left on (Profiler.cpp 122-147).    *)
StoppedComplete ==
  phase = "stopped" =>
    /\ ctx.session = {} /\ ~ctx.semaphore /\ ~ctx.flusher
    /\ trace.saved["session_metadata"] = 1
    /\ \A k \in EventType :
         trace.saved[k] = IF Enabled(k) /\ Served(k) THEN trace.due[k] ELSE 0
=============================================================================
