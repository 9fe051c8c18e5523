----------------------- MODULE ProfilerLifecycleProofs -----------------------
(***************************************************************************)
(* Theorems about ProfilerLifecycle, for every set of environments and     *)
(* however long the program runs.                                          *)
(***************************************************************************)
EXTENDS ProfilerLifecycle, SequenceTheorems, TLAPS

-----------------------------------------------------------------------------
(* The helpers.                                                            *)

(* Adding to counters: their type, and what each of them becomes. *)
LEMMA AddFacts ==
  ASSUME NEW S, NEW counts \in [S -> Nat], NEW kinds
  PROVE  /\ Add(counts, kinds) \in [S -> Nat]
         /\ \A k \in S : Add(counts, kinds)[k] =
                           IF k \in kinds THEN counts[k] + 1 ELSE counts[k]
BY DEF Add

(* The same for a flush of the statistics. *)
LEMMA AddAllFacts ==
  ASSUME NEW S, NEW counts \in [S -> Nat], NEW pending \in [StatsEvents -> Nat]
  PROVE  /\ AddAll(counts, pending) \in [S -> Nat]
         /\ \A k \in S : AddAll(counts, pending)[k] =
              counts[k] + (IF k \in StatsEvents THEN pending[k] ELSE 0)
BY DEF AddAll

(* What the configuration reader accepts are event types, whatever the file *)
(* and the environment say.                                                 *)
LEMMA LoadEvents ==
  /\ Defaults.events \subseteq EventType
  /\ \A e : Load(e, Pid).events \subseteq EventType
<1>1. Defaults.events \subseteq EventType
  BY DEF Defaults
<1>2. ASSUME NEW doc PROVE Parse(doc).events \subseteq EventType
  BY DEF Parse, Present, Defaults
<1>3. ASSUME NEW e, e.file = "parsed" PROVE Load(e, Pid).events = Parse(e.doc).events
  BY <1>3 DEF Load, Parse, Present, Defaults
<1> QED
  BY <1>1, <1>2, <1>3 DEF Load

-----------------------------------------------------------------------------
(* Types.                                                                  *)

Configs == {Defaults} \cup {Load(e, Pid) : e \in Environments}

Counts == [LineKinds -> Nat]
Pendings == [StatsEvents -> Nat]
NonePending == [k \in StatsEvents |-> 0]
KeywordSets == SUBSET {"contention", "gc"}
SlotSets == SUBSET {"stack", "stats"}
Ends == [reported : Int, actual : Int, alone : BOOLEAN]

Contexts ==
  [config : Configs, slots : SlotSets, shadow : {0, 1}, gcStartNs : 0..MaxTime,
   session : KeywordSets, semaphore : BOOLEAN, flusher : BOOLEAN, pending : Pendings]

Running == [start : Nat \ {0}, alone : BOOLEAN]
Programs == [now : 1..(MaxTime + 1), depth : {0, 1}, gcs : Seq(Running)]

Traces ==
  [written : Counts, saved : Counts, due : Counts, unattributed : Nat, gcEnd : Ends]

(* The members of these sets that the actions build. *)
LEMMA Members ==
  /\ \A c \in Counts : \A w : Add(c, w) \in Counts
  /\ \A p \in Pendings : \A w : Add(p, w) \in Pendings
  /\ \A c \in Counts : \A p \in Pendings : AddAll(c, p) \in Counts
  /\ NonePending \in Pendings
  /\ {} \in KeywordSets /\ {} \in SlotSets
  /\ Defaults \in Configs
  /\ \A e \in Environments : Load(e, Pid) \in Configs
  /\ MaxTime \in Nat
BY AddFacts, AddAllFacts, ProfilerLifecycleAssumption
   DEF Counts, Pendings, NonePending, KeywordSets, SlotSets, Configs, ProfilerLifecycleAssumption

Phases ==
  {"loaded", "published", "monitoring", "running", "stopping", "quiet", "stopped", "failed"}

Shape ==
  /\ env \in Environments /\ offered \in {{}, {3}, {3, 5}, {3, 5, 12}}
  /\ phase \in Phases /\ published \in BOOLEAN
  /\ ctx \in Contexts /\ asked.keywords \in KeywordSets /\ program \in Programs /\ trace \in Traces
  /\ Len(program.gcs) <= 2

LEMMA ShapeTypes == Shape => TypeOK
<1> SUFFICES ASSUME Shape PROVE TypeOK
  OBVIOUS
<1>1. ctx.config \in Configs
  BY DEF Shape, Contexts
<1>2. ctx.config.events \subseteq EventType
  <2>1. CASE ctx.config = Defaults
    BY <2>1, LoadEvents
  <2>2. ASSUME NEW e \in Environments, ctx.config = Load(e, Pid)
        PROVE  ctx.config.events \subseteq EventType
    BY <2>2, LoadEvents
  <2> QED BY <1>1, <2>1, <2>2 DEF Configs
<1>3. offered \subseteq {3, 5, 12}
  BY DEF Shape
<1>4. ctx \in Contexts /\ program \in Programs /\ trace \in Traces
  BY DEF Shape
<1>5. /\ ctx.session \subseteq {"contention", "gc"}
      /\ ctx.shadow \in {0, 1} /\ ctx.gcStartNs \in 0..MaxTime
      /\ ctx.semaphore \in BOOLEAN /\ ctx.flusher \in BOOLEAN
      /\ ctx.pending \in [StatsEvents -> Nat] /\ ctx.slots \subseteq {"stack", "stats"}
  BY <1>4 DEF Contexts, KeywordSets, SlotSets, Pendings
<1>6. program.depth \in {0, 1} /\ program.now \in 1..(MaxTime + 1)
  BY <1>4 DEF Programs
<1>7. /\ trace.written \in [LineKinds -> Nat] /\ trace.saved \in [LineKinds -> Nat]
      /\ trace.due \in [LineKinds -> Nat]
  BY <1>4 DEF Traces, Counts
<1>8. /\ env \in Environments /\ phase \in Phases /\ published \in BOOLEAN
      /\ Len(program.gcs) <= 2
  BY DEF Shape
<1> QED
  BY <1>2, <1>3, <1>5, <1>6, <1>7, <1>8 DEF TypeOK, Phases

LEMMA ShapeInit == Init => Shape
<1> SUFFICES ASSUME Init PROVE Shape
  OBVIOUS
<1>2. ctx \in Contexts
  BY Members DEF Init, NewContext, Contexts, NonePending
<1>3. asked.keywords \in KeywordSets
  BY Members DEF Init
<1>4. program \in Programs /\ Len(program.gcs) <= 2
  BY Members DEF Init, Programs
<1>5. NoLines \in Counts /\ [reported |-> 0, actual |-> 0, alone |-> TRUE] \in Ends
  BY DEF NoLines, Counts, Ends
<1>6. trace \in Traces
  BY <1>5 DEF Init, Traces
<1> QED
  BY <1>2, <1>3, <1>4, <1>6 DEF Init, Shape, Phases

(* A happening adds to the lines and to what is due. *)
LEMMA TraceStep ==
  ASSUME trace \in Traces, NEW w, NEW d
  PROVE  /\ [trace EXCEPT !.written = Add(@, w), !.due = Add(@, d)] \in Traces
         /\ \A u \in Nat : [trace EXCEPT !.written = Add(@, w), !.due = Add(@, d),
                                         !.unattributed = u] \in Traces
         /\ \A g \in Ends : [trace EXCEPT !.written = Add(@, w), !.due = Add(@, d),
                                          !.gcEnd = g] \in Traces
<1>1. trace.written \in Counts /\ trace.due \in Counts
  BY DEF Traces
<1>2. Add(trace.written, w) \in Counts /\ Add(trace.due, d) \in Counts
  BY <1>1, Members
<1> QED
  BY <1>2 DEF Traces

(* A happening takes time. *)
LEMMA ProgramStep ==
  ASSUME program \in Programs, ProgramRuns \/ program.now < MaxTime
  PROVE  /\ [program EXCEPT !.now = @ + 1] \in Programs
         /\ \A d \in {0, 1} : [program EXCEPT !.now = @ + 1, !.depth = d] \in Programs
         /\ \A g \in Seq(Running) : [program EXCEPT !.now = @ + 1, !.gcs = g] \in Programs
<1>1. program.now \in 1..(MaxTime + 1) /\ program.now < MaxTime
  BY DEF Programs, ProgramRuns
<1>2. program.now + 1 \in 1..(MaxTime + 1)
  BY <1>1, Members
<1> DEFINE Times == 1..(MaxTime + 1)
<1>3. program.now + 1 \in Times /\ Programs = [now : Times, depth : {0, 1}, gcs : Seq(Running)]
  BY <1>2 DEF Programs
<1> HIDE DEF Times
<1> QED
  BY <1>3

(* The changes that steps make to the context. *)
LEMMA ContextStep ==
  ASSUME ctx \in Contexts
  PROVE  /\ \A s \in {0, 1} : [ctx EXCEPT !.shadow = s] \in Contexts
         /\ \A s \in {0, 1} : \A w : [ctx EXCEPT !.shadow = s, !.pending = Add(@, w)] \in Contexts
         /\ \A w : [ctx EXCEPT !.pending = Add(@, w)] \in Contexts
         /\ \A s \in KeywordSets : [ctx EXCEPT !.session = s] \in Contexts
         /\ \A a, b \in BOOLEAN : [ctx EXCEPT !.semaphore = a, !.flusher = b] \in Contexts
         /\ \A n \in 0..MaxTime : [ctx EXCEPT !.gcStartNs = n] \in Contexts
         /\ [ctx EXCEPT !.pending = NonePending] \in Contexts
         /\ [ctx EXCEPT !.flusher = FALSE, !.semaphore = FALSE, !.pending = NonePending]
              \in Contexts
         /\ ctx.shadow \in {0, 1} /\ ctx.gcStartNs \in 0..MaxTime /\ ctx.pending \in Pendings
<1>1. ctx.pending \in Pendings /\ ctx.shadow \in {0, 1} /\ ctx.gcStartNs \in 0..MaxTime
  BY DEF Contexts
<1>2. (\A w : Add(ctx.pending, w) \in Pendings) /\ NonePending \in Pendings
  BY <1>1, Members
<1> DEFINE Times == 0..MaxTime
<1>3. Contexts = [config : Configs, slots : SlotSets, shadow : {0, 1}, gcStartNs : Times, session : KeywordSets,
                  semaphore : BOOLEAN, flusher : BOOLEAN, pending : Pendings]
  BY DEF Contexts
<1> HIDE DEF Times
<1>4. \A n \in Times : [ctx EXCEPT !.gcStartNs = n] \in Contexts
  BY <1>3
<1>5. /\ \A s \in {0, 1} : [ctx EXCEPT !.shadow = s] \in Contexts
      /\ \A s \in {0, 1} : \A p \in Pendings : [ctx EXCEPT !.shadow = s, !.pending = p] \in Contexts
      /\ \A p \in Pendings : [ctx EXCEPT !.pending = p] \in Contexts
      /\ \A s \in KeywordSets : [ctx EXCEPT !.session = s] \in Contexts
      /\ \A a, b \in BOOLEAN : [ctx EXCEPT !.semaphore = a, !.flusher = b] \in Contexts
      /\ \A p \in Pendings : [ctx EXCEPT !.flusher = FALSE, !.semaphore = FALSE, !.pending = p]
           \in Contexts
  BY <1>3
<1> QED
  BY <1>1, <1>2, <1>4, <1>5 DEF Times

(* What a flush does to the trace. *)
LEMMA FlushStep ==
  ASSUME trace \in Traces, ctx \in Contexts, FlushAll
  PROVE  trace' \in Traces
<1>1. AddAll(trace.written, ctx.pending) \in Counts
  BY Members DEF Traces, Contexts
<1> QED
  BY <1>1 DEF FlushAll, Traces

(* Every step keeps the types. *)
LEMMA ShapeStep == Shape /\ [Next]_vars => Shape'
<1> SUFFICES ASSUME Shape, [Next]_vars PROVE Shape'
  OBVIOUS
<1> USE DEF Phases
<1>0. /\ ctx \in Contexts /\ program \in Programs /\ trace \in Traces
      /\ env \in Environments /\ Len(program.gcs) <= 2
  BY DEF Shape
<1>1. CASE Initialize
  <2>1. ctx' \in Contexts
    <3>1. Load(env, Pid) \in Configs /\ 0 \in 0..MaxTime /\ {} \in KeywordSets
          /\ [k \in StatsEvents |-> 0] \in Pendings
      BY <1>0, Members DEF NonePending
    <3>2. \A slots \in SlotSets : NewContext(Load(env, Pid), slots) \in Contexts
      BY <3>1 DEF NewContext, Contexts
    <3> QED BY <1>0, <1>1, <3>2 DEF Initialize, SlotSets
  <2>2. trace' \in Traces
    <3>1. Add(trace.written, {"session_metadata"}) \in Counts
      BY <1>0, Members DEF Traces
    <3> QED BY <1>0, <1>1, <3>1 DEF Initialize, Traces
  <2> QED
    BY <1>1, <2>1, <2>2 DEF Shape, Initialize
<1>2. CASE SetupEventMonitoring
  <2>1. Keywords \in KeywordSets /\ {} \in KeywordSets
    BY DEF Keywords, KeywordSets
  <2>2. PICK session \in {Keywords, {}} :
          /\ ctx' = [ctx EXCEPT !.session = session]
          /\ asked'.keywords = session
          /\ phase' \in {"monitoring", "failed"}
    BY <1>2 DEF SetupEventMonitoring
  <2>3. ctx' \in Contexts
    BY <1>0, <2>1, <2>2, ContextStep
  <2> QED
    BY <1>2, <2>1, <2>2, <2>3 DEF Shape, SetupEventMonitoring
<1>3. CASE StartFlushing
  <2>1. PICK a, b \in BOOLEAN : ctx' = [ctx EXCEPT !.semaphore = a, !.flusher = b]
    BY <1>3 DEF StartFlushing, HasAggregator, Wants
  <2>2. ctx' \in Contexts
    BY <1>0, <2>1, ContextStep
  <2> QED
    BY <1>3, <2>2 DEF Shape, StartFlushing
<1>4. CASE EnterMethod
  <2>1. ctx' \in Contexts
    BY <1>0, <1>4, ContextStep DEF EnterMethod
  <2>2. program' \in Programs /\ program'.gcs = program.gcs
    BY <1>0, <1>4, ProgramStep DEF EnterMethod, Programs
  <2>3. trace' \in Traces
    BY <1>0, <1>4, TraceStep DEF EnterMethod
  <2> QED
    BY <1>4, <2>1, <2>2, <2>3 DEF Shape, EnterMethod
<1>5. CASE LeaveMethod
  <2>1. ctx' \in Contexts
    BY <1>0, <1>5, ContextStep DEF LeaveMethod
  <2>2. program' \in Programs /\ program'.gcs = program.gcs
    BY <1>0, <1>5, ProgramStep DEF LeaveMethod, Programs
  <2>3. trace' \in Traces
    BY <1>0, <1>5, TraceStep DEF LeaveMethod
  <2> QED
    BY <1>5, <2>1, <2>2, <2>3 DEF Shape, LeaveMethod
<1>6. CASE ExceptionThrown
  <2>1. ctx' \in Contexts
    <3>1. PICK w : ctx' = [ctx EXCEPT !.pending = Add(@, w)]
      BY <1>6 DEF ExceptionThrown
    <3> QED BY <1>0, <3>1, ContextStep
  <2>2. program' \in Programs /\ program'.gcs = program.gcs
    BY <1>0, <1>6, ProgramStep DEF ExceptionThrown, Programs
  <2>3. \A lines : trace.unattributed + Unattributed(lines) \in Nat
    BY <1>0 DEF Traces, Unattributed
  <2>4. PICK named \in BOOLEAN :
          trace' = [trace EXCEPT
            !.written = Add(@, Line(Exceptions /\ named, {"exception"})),
            !.due = Add(@, IF named THEN Due({"exception", "exception_stats"}) ELSE {}),
            !.unattributed =
              @ + Unattributed(Line(Exceptions /\ named, {"exception", "exception_stats"}))]
    BY <1>6 DEF ExceptionThrown
  <2>5. trace' \in Traces
    BY <1>0, <2>3, <2>4, TraceStep
  <2> QED
    BY <1>6, <2>1, <2>2, <2>5 DEF Shape, ExceptionThrown
<1>7. CASE ObjectsAllocatedByClass
  <2>1. program' \in Programs /\ program'.gcs = program.gcs
    BY <1>0, <1>7, ProgramStep DEF ObjectsAllocatedByClass, Programs
  <2>2. \A lines : trace.unattributed + Unattributed(lines) \in Nat
    BY <1>0 DEF Traces, Unattributed
  <2>3. PICK allocated \in BOOLEAN :
          trace' = [trace EXCEPT
            !.written = Add(@, Line("GC" \in asked.mask /\ allocated, {"alloc_by_class"})),
            !.due = Add(@, IF allocated THEN Due({"alloc_by_class"}) ELSE {}),
            !.unattributed =
              @ + Unattributed(Line("GC" \in asked.mask /\ allocated, {"alloc_by_class"}))]
    BY <1>7 DEF ObjectsAllocatedByClass
  <2>4. trace' \in Traces
    BY <1>0, <2>2, <2>3, TraceStep
  <2> QED
    BY <1>7, <2>1, <2>4 DEF Shape, ObjectsAllocatedByClass
<1>8. CASE EventPipeEventDelivered
  <2>1. program' \in Programs /\ program'.gcs = program.gcs
    BY <1>0, <1>8, ProgramStep DEF EventPipeEventDelivered, Programs
  <2>2. PICK w, d : trace' = [trace EXCEPT !.written = Add(@, w), !.due = Add(@, d)]
    BY <1>8 DEF EventPipeEventDelivered
  <2>3. trace' \in Traces
    BY <1>0, <2>2, TraceStep
  <2> QED
    BY <1>8, <2>1, <2>3 DEF Shape, EventPipeEventDelivered
<1>9. CASE GarbageCollectionStarted
  <2> DEFINE marked == [i \in DOMAIN program.gcs |-> [program.gcs[i] EXCEPT !.alone = FALSE]]
             new == [start |-> program.now, alone |-> TRUE]
  <2>1. program.gcs \in Seq(Running) /\ program.now \in 1..(MaxTime + 1) /\ MaxTime \in Nat
        /\ program.now < MaxTime
    BY <1>0, <1>9, Members DEF Programs, GarbageCollectionStarted, ProgramRuns
  <2>2. NotedStart \in 0..MaxTime
    <3>1. ctx.gcStartNs \in 0..MaxTime /\ program.now \in 0..MaxTime
      BY <1>0, <2>1 DEF Contexts
    <3> QED BY <3>1 DEF NotedStart
  <2>3. \A i \in DOMAIN program.gcs : [program.gcs[i] EXCEPT !.alone = FALSE] \in Running
    <3>1. \A i \in DOMAIN program.gcs : program.gcs[i] \in Running
      BY <2>1
    <3>2. \A r \in Running : [r EXCEPT !.alone = FALSE] \in Running
      BY DEF Running
    <3> QED BY <3>1, <3>2
  <2>4. marked \in Seq(Running) /\ Len(marked) = Len(program.gcs) /\ new \in Running
    <3>1. DOMAIN program.gcs = 1..Len(program.gcs) /\ Len(program.gcs) \in Nat
      BY <2>1
    <3>2. new \in Running
      BY <2>1 DEF Running
    <3> QED BY <2>3, <3>1, <3>2
  <2>5. Len(program.gcs) \in {0, 1}
    <3>1. program.gcs = <<>> \/ Len(program.gcs) = 1
      BY <1>9 DEF GarbageCollectionStarted
    <3> QED BY <2>1, <3>1, EmptySeq
  <2> HIDE DEF marked, new
  <2>6. Append(marked, new) \in Seq(Running) /\ Len(Append(marked, new)) <= 2
    <3>1. Append(marked, new) \in Seq(Running) /\ Len(Append(marked, new)) = Len(program.gcs) + 1
      BY <2>4
    <3>2. \A n \in {0, 1} : n + 1 <= 2
      OBVIOUS
    <3> QED BY <2>5, <3>1, <3>2
  <2>7. program' = [program EXCEPT !.now = @ + 1, !.gcs = Append(marked, new)]
    BY <1>9 DEF GarbageCollectionStarted, marked, new
  <2>8. program' \in Programs /\ Len(program'.gcs) <= 2
    <3>1. program' \in Programs
      BY <1>0, <2>1, <2>6, <2>7, ProgramStep
    <3>2. program'.gcs = Append(marked, new)
      BY <1>0, <2>7 DEF Programs
    <3> QED BY <2>6, <3>1, <3>2
  <2>9. trace' \in Traces /\ ctx' \in Contexts
    BY <1>0, <1>9, <2>2, TraceStep, ContextStep DEF GarbageCollectionStarted
  <2> QED
    BY <1>9, <2>8, <2>9 DEF Shape, GarbageCollectionStarted
<1>10. CASE GarbageCollectionFinished
  <2> DEFINE rest == SubSeq(program.gcs, 1, Len(program.gcs) - 1)
             gc == program.gcs[Len(program.gcs)]
  <2>1. program.gcs \in Seq(Running) /\ program.gcs # <<>>
    BY <1>0, <1>10 DEF Programs, GarbageCollectionFinished
  <2>2. rest \in Seq(Running) /\ Len(rest) = Len(program.gcs) - 1 /\ gc \in Running
    BY <2>1
  <2>3. program' = [program EXCEPT !.now = @ + 1, !.gcs = rest]
    BY <1>10 DEF GarbageCollectionFinished
  <2> HIDE DEF rest
  <2>4. program' \in Programs /\ program'.gcs = rest
    <3>1. program' \in Programs
      BY <1>0, <1>10, <2>2, <2>3, ProgramStep DEF GarbageCollectionFinished
    <3> QED BY <1>0, <2>3, <3>1 DEF Programs
  <2>5. Len(program'.gcs) <= 2
    BY <1>0, <2>1, <2>2, <2>4
  <2>6. trace' \in Traces
    <3> DEFINE end == [reported |-> IF ctx.gcStartNs > 0 THEN program.now - ctx.gcStartNs ELSE 0,
                       actual |-> program.now - gc.start, alone |-> gc.alone]
    <3>1. program.now \in Int /\ ctx.gcStartNs \in Int /\ gc.start \in Int /\ gc.alone \in BOOLEAN
      <4>1. program.now \in 1..(MaxTime + 1) /\ ctx.gcStartNs \in 0..MaxTime
        BY <1>0 DEF Programs, Contexts
      <4>2. gc.start \in Nat /\ gc.alone \in BOOLEAN
        BY <2>2 DEF Running
      <4> QED BY <4>1, <4>2, Members
    <3>2. end \in Ends
      BY <3>1 DEF Ends
    <3>3. trace.gcEnd \in Ends
      BY <1>0 DEF Traces
    <3>4. PICK g \in {end, trace.gcEnd} :
            trace' = [trace EXCEPT !.written = Add(@, Line(Collections, {"gc_end"})),
                                   !.due = Add(@, Due({"gc_end"})), !.gcEnd = g]
      BY <1>10 DEF GarbageCollectionFinished
    <3> HIDE DEF end
    <3> QED BY <1>0, <3>2, <3>3, <3>4, TraceStep
  <2> QED
    BY <1>10, <2>4, <2>5, <2>6 DEF Shape, GarbageCollectionFinished
<1>12. CASE FlushPeriodic
  BY <1>0, <1>12, FlushStep, ContextStep DEF FlushPeriodic, Shape, NonePending
<1>13. CASE StopCallbacks
  BY <1>13 DEF StopCallbacks, Shape
<1>14. CASE StopSession
  BY <1>0, <1>14, Members, ContextStep DEF StopSession, Shape
<1>15. CASE Teardown
  BY <1>0, <1>15, FlushStep, ContextStep DEF Teardown, Shape, NonePending
<1>16. CASE UNCHANGED vars
  BY <1>16 DEF vars, Shape
<1> QED
  BY <1>1, <1>2, <1>3, <1>4, <1>5, <1>6, <1>7, <1>8, <1>9, <1>10, <1>12, <1>13, <1>14, <1>15,
     <1>16 DEF Next, Happening

(* Types, and that no unknown event name reaches the context. *)
THEOREM TypeInvariant == Spec => []TypeOK
<1>1. Spec => []Shape
  BY ShapeInit, ShapeStep, PTL DEF Spec
<1> QED
  BY <1>1, ShapeTypes, PTL

-----------------------------------------------------------------------------
(* What was asked of the CLR, and the phases of Initialize and Shutdown.   *)

Monitored == {"monitoring", "running", "stopping", "quiet", "stopped"}

AskedInv ==
  phase \in Monitored =>
    /\ asked.mask = EventMask
    /\ asked.high = IF 5 \in offered THEN HighFlags ELSE {}
    /\ asked.hooked = NeedElt
    /\ asked.keywords = {} \/ (NeedSession /\ asked.keywords = Keywords)

PhaseInv ==
  /\ phase \in {"published", "monitoring", "running"} => published
  /\ phase \in {"loaded", "stopping", "quiet", "stopped"} => ~published
  /\ phase \in {"loaded", "published", "failed"} => asked.keywords = {} /\ ctx.session = {}
  /\ phase \in {"loaded", "published", "monitoring", "failed"} =>
       /\ ~ctx.semaphore /\ ~ctx.flusher
       /\ program.gcs = <<>> /\ program.depth = 0 /\ ctx.shadow = 0
  /\ phase \in {"monitoring", "running"} => ctx.session = asked.keywords
  /\ phase \in {"quiet", "stopped"} => ctx.session = {}
  /\ phase = "stopped" => ~ctx.semaphore /\ ~ctx.flusher

ControlInv == Shape /\ AskedInv /\ PhaseInv

LEMMA ControlInit == Init => ControlInv
<1> SUFFICES ASSUME Init PROVE ControlInv
  OBVIOUS
<1>1. Shape
  BY ShapeInit
<1> QED
  BY <1>1 DEF ControlInv, Init, AskedInv, PhaseInv, Monitored, NewContext

(* A happening leaves what is configured and asked for as it was. *)
LEMMA HappeningFrame ==
  ASSUME Shape, Happening
  PROVE  /\ UNCHANGED <<env, offered, phase, published, asked>>
         /\ ctx'.config = ctx.config /\ ctx'.session = ctx.session /\ ctx'.slots = ctx.slots
         /\ ctx'.semaphore = ctx.semaphore /\ ctx'.flusher = ctx.flusher
         /\ trace'.saved = trace.saved
         /\ phase \in {"monitoring", "running", "stopping", "quiet"}
         /\ phase = "monitoring" => /\ program'.gcs = program.gcs
                                    /\ program'.depth = program.depth
                                    /\ ctx'.shadow = ctx.shadow
<1>0. ctx \in Contexts /\ program \in Programs /\ trace \in Traces
  BY DEF Shape
<1>1. UNCHANGED <<env, offered, phase, published, asked>>
  BY DEF Happening, EnterMethod, LeaveMethod, ExceptionThrown, ObjectsAllocatedByClass,
         EventPipeEventDelivered, GarbageCollectionStarted, GarbageCollectionFinished
<1>2. /\ ctx'.config = ctx.config /\ ctx'.session = ctx.session /\ ctx'.slots = ctx.slots
      /\ ctx'.semaphore = ctx.semaphore /\ ctx'.flusher = ctx.flusher
  BY <1>0 DEF Happening, EnterMethod, LeaveMethod, ExceptionThrown, ObjectsAllocatedByClass,
         EventPipeEventDelivered, GarbageCollectionStarted, GarbageCollectionFinished, Contexts
<1>3. trace'.saved = trace.saved
  BY <1>0 DEF Happening, EnterMethod, LeaveMethod, ExceptionThrown, ObjectsAllocatedByClass,
         EventPipeEventDelivered, GarbageCollectionStarted, GarbageCollectionFinished, Traces
<1>4. ProgramRuns \/ (EventPipeEventDelivered /\ phase = "monitoring")
  BY DEF Happening, EnterMethod, LeaveMethod, ExceptionThrown, ObjectsAllocatedByClass,
         EventPipeEventDelivered, GarbageCollectionStarted, GarbageCollectionFinished
<1>5. EventPipeEventDelivered => /\ program'.gcs = program.gcs
                                 /\ program'.depth = program.depth
                                 /\ ctx' = ctx
  BY <1>0 DEF EventPipeEventDelivered, Programs
<1> QED
  BY <1>1, <1>2, <1>3, <1>4, <1>5 DEF ProgramRuns

LEMMA ControlStep == ControlInv /\ [Next]_vars => ControlInv'
<1> SUFFICES ASSUME ControlInv, [Next]_vars PROVE ControlInv'
  OBVIOUS
<1>0. Shape /\ Shape' /\ ctx \in Contexts
  BY ShapeStep DEF ControlInv, Shape
<1>1. ASSUME UNCHANGED <<offered, asked>>, ctx'.config = ctx.config,
             phase \in Monitored \/ phase' \notin Monitored
      PROVE  AskedInv'
  BY <1>1 DEF ControlInv, AskedInv, EventMask, HighFlags, Keywords, NeedSession, NeedElt,
              NeedGcCallbacks, NeedFullGc, Wants, Enabled
<1>2. CASE Initialize
  <2>1. phase' \in {"published", "failed"} /\ UNCHANGED <<asked, program>> /\ phase = "loaded"
    BY <1>2 DEF Initialize
  <2>2. AskedInv'
    BY <2>1 DEF AskedInv, Monitored
  <2>3. PhaseInv'
    BY <1>2, <2>1 DEF ControlInv, PhaseInv, Initialize, NewContext
  <2> QED BY <1>0, <2>2, <2>3 DEF ControlInv
<1>3. CASE SetupEventMonitoring
  <2>1. PICK maskSet, hooksSet, mapperSet, started \in BOOLEAN :
          LET hooked == maskSet /\ NeedElt /\ hooksSet
              ready == maskSet /\ (NeedElt => hooksSet /\ mapperSet)
              session == IF ready /\ NeedSession /\ started THEN Keywords ELSE {}
          IN  /\ asked' = [mask |-> IF maskSet THEN EventMask ELSE {},
                           high |-> IF maskSet /\ 5 \in offered THEN HighFlags ELSE {},
                           hooked |-> hooked, keywords |-> session]
              /\ ctx' = [ctx EXCEPT !.session = session]
              /\ phase' = IF ready THEN "monitoring" ELSE "failed"
    BY <1>3 DEF SetupEventMonitoring
  <2>2. /\ ctx'.config = ctx.config /\ ctx'.semaphore = ctx.semaphore
        /\ ctx'.flusher = ctx.flusher /\ ctx'.shadow = ctx.shadow
        /\ ctx'.session = asked'.keywords
    BY <1>0, <2>1 DEF Contexts
  <2>3. UNCHANGED <<offered, published, program>> /\ phase = "published"
    BY <1>3 DEF SetupEventMonitoring
  <2>4. /\ EventMask' = EventMask /\ HighFlags' = HighFlags /\ Keywords' = Keywords
        /\ NeedElt' = NeedElt /\ NeedSession' = NeedSession
    BY <2>2, <2>3 DEF EventMask, HighFlags, Keywords, NeedSession, NeedElt, NeedGcCallbacks,
                      NeedFullGc, Wants, Enabled
  <2>5. NeedElt \in BOOLEAN
    BY DEF NeedElt, Wants
  <2>6. AskedInv'
    BY <2>1, <2>3, <2>4, <2>5 DEF AskedInv, Monitored
  <2>7. PhaseInv'
    BY <2>1, <2>2, <2>3 DEF ControlInv, PhaseInv
  <2> QED BY <1>0, <2>6, <2>7 DEF ControlInv
<1>4. CASE StartFlushing
  <2>1. /\ ctx'.config = ctx.config /\ ctx'.session = ctx.session /\ ctx'.shadow = ctx.shadow
        /\ UNCHANGED <<offered, asked, published, program>>
        /\ phase = "monitoring" /\ phase' = "running"
    BY <1>0, <1>4 DEF StartFlushing, Contexts
  <2>2. AskedInv'
    BY <1>1, <2>1 DEF Monitored
  <2>3. PhaseInv'
    BY <2>1 DEF ControlInv, PhaseInv
  <2> QED BY <1>0, <2>2, <2>3 DEF ControlInv
<1>5. CASE Happening
  <2>1. AskedInv'
    BY <1>0, <1>1, <1>5, HappeningFrame DEF Monitored
  <2>2. PhaseInv'
    BY <1>0, <1>5, HappeningFrame DEF ControlInv, PhaseInv
  <2> QED BY <1>0, <2>1, <2>2 DEF ControlInv
<1>6. CASE FlushPeriodic
  <2>1. /\ ctx.flusher /\ UNCHANGED <<offered, phase, published, asked, program>>
        /\ ctx'.config = ctx.config /\ ctx'.session = ctx.session /\ ctx'.shadow = ctx.shadow
        /\ ctx'.semaphore = ctx.semaphore /\ ctx'.flusher = ctx.flusher
    BY <1>0, <1>6 DEF FlushPeriodic, Contexts
  <2>2. AskedInv'
    BY <1>1, <2>1
  <2>3. PhaseInv'
    BY <2>1 DEF ControlInv, PhaseInv
  <2> QED BY <1>0, <2>2, <2>3 DEF ControlInv
<1>7. CASE StopCallbacks
  <2>1. AskedInv'
    BY <1>1, <1>7 DEF StopCallbacks, Monitored
  <2>2. PhaseInv'
    BY <1>7 DEF ControlInv, PhaseInv, StopCallbacks
  <2> QED BY <1>0, <2>1, <2>2 DEF ControlInv
<1>8. CASE StopSession
  <2>1. /\ ctx'.config = ctx.config /\ phase = "stopping" /\ phase' = "quiet"
        /\ UNCHANGED <<offered, published, asked, program>> /\ ctx'.session = {}
    BY <1>0, <1>8 DEF StopSession, Contexts
  <2>2. AskedInv'
    BY <1>1, <2>1 DEF Monitored
  <2>3. PhaseInv'
    BY <2>1 DEF ControlInv, PhaseInv
  <2> QED BY <1>0, <2>2, <2>3 DEF ControlInv
<1>9. CASE Teardown
  <2>1. /\ ctx'.config = ctx.config /\ phase = "quiet" /\ phase' = "stopped"
        /\ UNCHANGED <<offered, published, asked, program>>
        /\ ctx'.session = ctx.session /\ ~ctx'.semaphore /\ ~ctx'.flusher
    BY <1>0, <1>9 DEF Teardown, Contexts
  <2>2. AskedInv'
    BY <1>1, <2>1 DEF Monitored
  <2>3. PhaseInv'
    BY <2>1 DEF ControlInv, PhaseInv
  <2> QED BY <1>0, <2>2, <2>3 DEF ControlInv
<1>10. CASE UNCHANGED vars
  <2>1. UNCHANGED <<env, offered, phase, published, ctx, asked, program, trace>>
    BY <1>10 DEF vars
  <2>2. AskedInv'
    BY <1>1, <2>1
  <2>3. PhaseInv'
    BY <2>1 DEF ControlInv, PhaseInv
  <2> QED BY <1>0, <2>2, <2>3 DEF ControlInv
<1> QED
  BY <1>2, <1>3, <1>4, <1>5, <1>6, <1>7, <1>8, <1>9, <1>10 DEF Next

(* A start that fails leaves nothing on. *)
THEOREM FailedStartSafe == Spec => []FailedStartQuiet
<1>1. Spec => []ControlInv
  BY ControlInit, ControlStep, PTL DEF Spec
<1>2. ControlInv => FailedStartQuiet
  BY DEF ControlInv, PhaseInv, FailedStartQuiet
<1> QED
  BY <1>1, <1>2, PTL

-----------------------------------------------------------------------------
(* Durations of collections.  The start time the profiler keeps is that of   *)
(* the innermost collection as long as no other one ran inside it.           *)

GcInv ==
  /\ Len(program.gcs) = 2 => ~program.gcs[1].alone
  /\ (program.gcs # <<>> /\ program.gcs[Len(program.gcs)].alone /\ published /\ Collections)
       => ctx.gcStartNs = program.gcs[Len(program.gcs)].start
  /\ GcDurationExact

LEMMA GcStarted ==
  ASSUME Shape, GcInv, GarbageCollectionStarted
  PROVE  GcInv'
<1> DEFINE marked == [i \in DOMAIN program.gcs |-> [program.gcs[i] EXCEPT !.alone = FALSE]]
           new == [start |-> program.now, alone |-> TRUE]
<1>0. /\ ctx \in Contexts /\ program \in Programs /\ trace \in Traces
      /\ program.gcs \in Seq(Running)
  BY DEF Shape, Programs
<1>1. /\ published' = published /\ asked' = asked
      /\ program'.gcs = Append(marked, new)
  BY <1>0 DEF GarbageCollectionStarted, Programs
<1>2. trace'.gcEnd = trace.gcEnd
  BY <1>0 DEF GarbageCollectionStarted, Traces
<1>3. ctx'.gcStartNs = NotedStart
  BY <1>0 DEF GarbageCollectionStarted, Contexts
<1>4. Len(program.gcs) = 0 \/ Len(program.gcs) = 1
  BY <1>0, EmptySeq DEF GarbageCollectionStarted
<1>5. /\ \A i \in DOMAIN program.gcs : [program.gcs[i] EXCEPT !.alone = FALSE] \in Running
      /\ \A i \in DOMAIN program.gcs : ~[program.gcs[i] EXCEPT !.alone = FALSE].alone
  <2>1. \A i \in DOMAIN program.gcs : program.gcs[i] \in Running
    BY <1>0
  <2>2. \A r \in Running : /\ [r EXCEPT !.alone = FALSE] \in Running
                           /\ ~[r EXCEPT !.alone = FALSE].alone
    BY DEF Running
  <2> QED BY <2>1, <2>2
<1>6. /\ marked \in Seq(Running) /\ Len(marked) = Len(program.gcs)
      /\ \A i \in 1..Len(marked) : ~marked[i].alone
  <2>1. DOMAIN program.gcs = 1..Len(program.gcs) /\ Len(program.gcs) \in Nat
    BY <1>0
  <2> QED BY <1>5, <2>1
<1>7. new.start = program.now /\ new.alone
  OBVIOUS
<1> HIDE DEF marked
<1>8. program.now \in Nat
  BY <1>0, Members DEF Programs
<1>9. new \in Running
  BY <1>0, Members DEF Programs, Running
<1> HIDE DEF new
<1>10. /\ Len(Append(marked, new)) = Len(marked) + 1
       /\ Append(marked, new)[Len(marked) + 1] = new
       /\ \A i \in 1..Len(marked) : Append(marked, new)[i] = marked[i]
  BY <1>6, <1>9
<1>11. Len(program'.gcs) = 2 => ~program'.gcs[1].alone
  <2>1. CASE Len(program.gcs) = 0
    BY <1>1, <1>6, <1>10, <2>1
  <2>2. CASE Len(program.gcs) = 1
    BY <1>1, <1>6, <1>10, <2>2
  <2> QED BY <1>4, <2>1, <2>2
<1>12. program'.gcs[Len(program'.gcs)] = new
  BY <1>1, <1>10
<1>13. published' /\ Collections' => ctx'.gcStartNs = new.start
  BY <1>1, <1>3, <1>7 DEF NotedStart, Collections
<1>14. GcDurationExact'
  BY <1>2 DEF GcInv, GcDurationExact
<1> QED
  BY <1>11, <1>12, <1>13, <1>14 DEF GcInv

LEMMA GcFinished ==
  ASSUME Shape, GcInv, GarbageCollectionFinished
  PROVE  GcInv'
<1> DEFINE rest == SubSeq(program.gcs, 1, Len(program.gcs) - 1)
           gc == program.gcs[Len(program.gcs)]
           lines == Line(Collections, {"gc_end"})
<1>0. /\ ctx \in Contexts /\ program \in Programs /\ trace \in Traces
      /\ program.gcs \in Seq(Running) /\ program.gcs # <<>> /\ Len(program.gcs) <= 2
  BY DEF Shape, Programs, GarbageCollectionFinished
<1>1. /\ UNCHANGED <<published, asked, ctx>> /\ program'.gcs = rest
  BY <1>0 DEF GarbageCollectionFinished, Programs
<1>2. Len(program.gcs) \in {1, 2}
  <2>1. Len(program.gcs) # 0
    BY <1>0, EmptySeq
  <2>2. Len(program.gcs) \in Nat
    BY <1>0
  <2>3. \A n \in Nat : n # 0 /\ n <= 2 => n = 1 \/ n = 2
    OBVIOUS
  <2> QED BY <1>0, <2>1, <2>2, <2>3
<1>3. /\ Len(rest) = Len(program.gcs) - 1
      /\ Len(program.gcs) = 2 => rest[1] = program.gcs[1]
      /\ gc \in Running
  BY <1>0, <1>2
<1>4. trace'.gcEnd = IF lines = {} THEN trace.gcEnd
                     ELSE [reported |-> IF ctx.gcStartNs > 0
                                        THEN program.now - ctx.gcStartNs ELSE 0,
                           actual |-> program.now - gc.start, alone |-> gc.alone]
  BY <1>0 DEF GarbageCollectionFinished, Traces
<1> HIDE DEF rest
<1>5. GcDurationExact'
  <2>1. CASE lines = {}
    BY <1>4, <2>1 DEF GcInv, GcDurationExact
  <2>2. CASE lines # {} /\ gc.alone
    <3>1. published /\ Collections
      BY <2>2 DEF Line
    <3>2. ctx.gcStartNs = gc.start
      BY <1>0, <2>2, <3>1 DEF GcInv
    <3>3. gc.start \in Nat \ {0}
      BY <1>3 DEF Running
    <3>4. gc.start > 0
      BY <3>3
    <3>5. trace'.gcEnd.reported = program.now - gc.start
          /\ trace'.gcEnd.actual = program.now - gc.start
      BY <1>4, <2>2, <3>2, <3>4
    <3> QED BY <3>5 DEF GcDurationExact
  <2>3. CASE lines # {} /\ ~gc.alone
    <3>1. ~trace'.gcEnd.alone
      BY <1>4, <2>3
    <3> QED BY <3>1 DEF GcDurationExact
  <2> QED BY <2>1, <2>2, <2>3
<1>6. CASE Len(program.gcs) = 1
  <2>1. Len(rest) = 0 /\ rest = <<>>
    BY <1>0, <1>3, <1>6, EmptySeq DEF rest
  <2>2. program'.gcs = <<>> /\ Len(program'.gcs) # 2
    BY <1>1, <2>1
  <2> QED BY <1>5, <2>2 DEF GcInv
<1>7. CASE Len(program.gcs) = 2
  <2>1. Len(rest) = 1 /\ ~rest[1].alone
    BY <1>3, <1>7 DEF GcInv
  <2> QED BY <1>1, <1>5, <2>1 DEF GcInv
<1> QED
  BY <1>2, <1>6, <1>7

LEMMA GcStep == ControlInv /\ GcInv /\ [Next]_vars => GcInv'
<1> SUFFICES ASSUME ControlInv, GcInv, [Next]_vars PROVE GcInv'
  OBVIOUS
<1>0. Shape /\ ctx \in Contexts /\ program \in Programs /\ trace \in Traces
  BY DEF ControlInv, Shape
<1>1. ASSUME program'.gcs = program.gcs, trace'.gcEnd = trace.gcEnd,
             \/ program.gcs = <<>>
             \/ /\ ctx'.gcStartNs = ctx.gcStartNs /\ asked' = asked
                /\ published' => published
      PROVE  GcInv'
  BY <1>1 DEF GcInv, GcDurationExact, Collections
<1>2. CASE Initialize
  <2>1. program'.gcs = program.gcs /\ trace'.gcEnd = trace.gcEnd
    BY <1>0, <1>2 DEF Initialize, Traces
  <2>2. program.gcs = <<>>
    BY <1>2 DEF Initialize, ControlInv, PhaseInv
  <2> QED BY <1>1, <2>1, <2>2
<1>3. CASE SetupEventMonitoring
  <2>1. program'.gcs = program.gcs /\ trace'.gcEnd = trace.gcEnd
    BY <1>3 DEF SetupEventMonitoring
  <2>2. program.gcs = <<>>
    BY <1>3 DEF SetupEventMonitoring, ControlInv, PhaseInv
  <2> QED BY <1>1, <2>1, <2>2
<1>4. CASE StartFlushing
  <2>1. program'.gcs = program.gcs /\ trace'.gcEnd = trace.gcEnd
    BY <1>4 DEF StartFlushing
  <2>2. program.gcs = <<>>
    BY <1>4 DEF StartFlushing, ControlInv, PhaseInv
  <2> QED BY <1>1, <2>1, <2>2
<1>5. CASE EnterMethod \/ LeaveMethod \/ ExceptionThrown \/ ObjectsAllocatedByClass
           \/ EventPipeEventDelivered
  <2>1. program'.gcs = program.gcs
    BY <1>0, <1>5 DEF EnterMethod, LeaveMethod, ExceptionThrown, ObjectsAllocatedByClass,
                      EventPipeEventDelivered, Programs
  <2>2. trace'.gcEnd = trace.gcEnd
    BY <1>0, <1>5 DEF EnterMethod, LeaveMethod, ExceptionThrown, ObjectsAllocatedByClass,
                      EventPipeEventDelivered, Traces
  <2>3. ctx'.gcStartNs = ctx.gcStartNs
    BY <1>0, <1>5 DEF EnterMethod, LeaveMethod, ExceptionThrown, ObjectsAllocatedByClass,
                      EventPipeEventDelivered, Contexts
  <2>4. asked' = asked /\ published' = published
    BY <1>5 DEF EnterMethod, LeaveMethod, ExceptionThrown, ObjectsAllocatedByClass,
                EventPipeEventDelivered
  <2> QED BY <1>1, <2>1, <2>2, <2>3, <2>4
<1>6. CASE GarbageCollectionStarted
  BY <1>0, <1>6, GcStarted
<1>7. CASE GarbageCollectionFinished
  BY <1>0, <1>7, GcFinished
<1>8. CASE FlushPeriodic \/ StopCallbacks \/ StopSession \/ Teardown \/ UNCHANGED vars
  <2>2. trace'.gcEnd = trace.gcEnd
    BY <1>0, <1>8 DEF FlushPeriodic, StopCallbacks, StopSession, Teardown, vars, FlushAll, Traces
  <2>3. ctx'.gcStartNs = ctx.gcStartNs
    BY <1>0, <1>8 DEF FlushPeriodic, StopCallbacks, StopSession, Teardown, vars, Contexts
  <2>4. program'.gcs = program.gcs /\ asked' = asked /\ (published' => published)
    BY <1>8 DEF FlushPeriodic, StopCallbacks, StopSession, Teardown, vars
  <2> QED BY <1>1, <2>2, <2>3, <2>4
<1> QED
  BY <1>2, <1>3, <1>4, <1>5, <1>6, <1>7, <1>8 DEF Next, Happening

(* A collection's reported duration is its own. *)
THEOREM GcDurationsExact == Spec => []GcDurationExact
<1>1. Init => GcInv
  BY EmptySeq DEF Init, GcInv, GcDurationExact
<1>2. GcInv => GcDurationExact
  BY DEF GcInv
<1>3. Spec => []ControlInv
  BY ControlInit, ControlStep, PTL DEF Spec
<1> QED
  BY <1>1, <1>2, <1>3, GcStep, PTL DEF Spec

-----------------------------------------------------------------------------
(* Which events are reported.  Every source of callbacks is on exactly when *)
(* one of the events that need it is enabled, so that a happening that      *)
(* writes a line owes it, and the other way round.                          *)

Started == {"monitoring", "running"}

LEMMA Sources ==
  ASSUME ControlInv, phase \in Started
  PROVE  /\ Hooks <=> NeedElt
         /\ Exceptions <=> Wants({"exception", "exception_stats"})
         /\ "GC" \in asked.mask <=> NeedFullGc
         /\ Collections <=> NeedGcCallbacks \/ NeedFullGc
         /\ \A keyword \in {"contention", "gc"} :
              Pipe(keyword) <=> asked.keywords # {} /\ keyword \in Keywords
<1>1. /\ asked.mask = EventMask /\ asked.high = (IF 5 \in offered THEN HighFlags ELSE {})
      /\ asked.hooked = NeedElt
      /\ asked.keywords = {} \/ (NeedSession /\ asked.keywords = Keywords)
      /\ ctx.session = asked.keywords
      /\ offered \in {{}, {3}, {3, 5}, {3, 5, 12}}
  BY DEF ControlInv, AskedInv, PhaseInv, Shape, Monitored, Started
<1>2. /\ "ENTERLEAVE" \in EventMask <=> NeedElt
      /\ "EXCEPTIONS" \in EventMask <=> Wants({"exception", "exception_stats"})
      /\ "GC" \in EventMask <=> NeedFullGc
  BY DEF EventMask
<1>3. /\ "BASIC_GC" \in HighFlags <=> NeedGcCallbacks /\ ~NeedFullGc
      /\ "EVENT_PIPE" \in HighFlags <=> NeedSession
  BY DEF HighFlags
<1>4. /\ (NeedGcCallbacks /\ ~NeedFullGc) => 5 \in offered
      /\ NeedSession => 5 \in offered
  BY <1>1 DEF NeedFullGc, NeedSession
<1>5. NeedElt \in BOOLEAN
  BY DEF NeedElt, Wants
<1> QED
  BY <1>1, <1>2, <1>3, <1>4, <1>5 DEF Hooks, Exceptions, Collections, Pipe

(* The lines a callback writes, and those it owes. *)
LEMMA LineFacts ==
  ASSUME NEW source, NEW kinds, NEW k
  PROVE  /\ k \in Line(source, kinds) <=> published /\ source /\ k \in kinds /\ Enabled(k)
         /\ k \in Due(kinds) <=> published /\ k \in kinds
BY DEF Line, Due, Enabled

Balanced ==
  \A k \in EventType :
    Reported(k) = IF Enabled(k) /\ Served(k) THEN trace.due[k] ELSE 0

(* A happening that reports the events w at once, adds the events p to the   *)
(* statistics, and owes the events d, keeps reports and happenings balanced  *)
(* if w and p are the enabled and served ones of d.                          *)
LEMMA Balance ==
  ASSUME Shape, Balanced, UNCHANGED asked, ctx'.config = ctx.config, ctx'.slots = ctx.slots,
         NEW w, NEW p, NEW d,
         trace'.written = Add(trace.written, w), trace'.due = Add(trace.due, d),
         ctx'.pending = Add(ctx.pending, p), w \cap StatsEvents = {}, p \subseteq StatsEvents,
         \A k \in EventType : (k \in w \/ k \in p) <=> (k \in d /\ Enabled(k) /\ Served(k))
  PROVE  Balanced'
<1>1. trace.written \in Counts /\ trace.due \in Counts /\ ctx.pending \in Pendings
  BY DEF Shape, Traces, Contexts
<1>2. ASSUME NEW k \in EventType
      PROVE  /\ Reported(k)' = Reported(k) + (IF k \in w \/ k \in p THEN 1 ELSE 0)
             /\ trace'.due[k] = trace.due[k] + (IF k \in d THEN 1 ELSE 0)
             /\ trace.due[k] \in Nat /\ Reported(k) \in Nat
  <2>1. k \in LineKinds
    BY DEF LineKinds
  <2>2. /\ trace'.written[k] = IF k \in w THEN trace.written[k] + 1 ELSE trace.written[k]
        /\ trace'.due[k] = IF k \in d THEN trace.due[k] + 1 ELSE trace.due[k]
        /\ trace.written[k] \in Nat /\ trace.due[k] \in Nat
    BY <1>1, <2>1, AddFacts DEF Counts
  <2>3. k \in StatsEvents =>
          /\ ctx'.pending[k] = IF k \in p THEN ctx.pending[k] + 1 ELSE ctx.pending[k]
          /\ ctx.pending[k] \in Nat
    BY <1>1, AddFacts DEF Pendings
  <2> QED BY <2>2, <2>3 DEF Reported
<1>3. \A k : (Enabled(k)' <=> Enabled(k)) /\ (Served(k)' <=> Served(k))
  BY DEF Enabled, Served
<1> QED
  BY <1>2, <1>3 DEF Balanced

\* The threads have shadow stacks.
HasStacks == "stack" \in ctx.slots

(* Before the CLR is asked for anything there is nothing to report. *)
Fresh ==
  /\ \A k \in EventType : trace.written[k] = 0 /\ trace.due[k] = 0
  /\ ctx.pending = NonePending /\ trace.unattributed = 0

ServeInv ==
  /\ phase \in {"loaded", "published"} => Fresh
  /\ phase \in Monitored => Balanced /\ (HasStacks => trace.unattributed = 0)
  /\ (phase \in Started /\ NeedElt /\ HasStacks) => ctx.shadow = program.depth
  /\ phase = "loaded" => trace.written["session_metadata"] = 0
  /\ phase \in {"published"} \cup Monitored => trace.written["session_metadata"] = 1
  /\ phase = "stopped" => trace.saved = trace.written /\ ctx.pending = NonePending

LEMMA ServeInit == Init => ServeInv
BY DEF Init, ServeInv, Fresh, NoLines, LineKinds, NewContext, NonePending, Monitored, Started

(* A happening that reports what it owes and attributes it keeps ServeInv. *)
LEMMA ServeHappening ==
  ASSUME ControlInv, ServeInv, Happening,
         NEW w, NEW p, NEW d,
         trace'.written = Add(trace.written, w), trace'.due = Add(trace.due, d),
         ctx'.pending = Add(ctx.pending, p), w \subseteq EventType \ StatsEvents,
         p \subseteq StatsEvents,
         phase \in Started => \A k \in EventType :
           (k \in w \/ k \in p) <=> (k \in d /\ Enabled(k) /\ Served(k)),
         phase \notin Started => w = {} /\ p = {} /\ d = {},
         HasStacks => trace'.unattributed = trace.unattributed,
         (phase \in Started /\ NeedElt /\ HasStacks) => ctx'.shadow = program'.depth
  PROVE  ServeInv'
<1>1. /\ UNCHANGED <<offered, phase, published, asked>>
      /\ ctx'.config = ctx.config /\ ctx'.slots = ctx.slots
      /\ phase \in {"monitoring", "running", "stopping", "quiet"} /\ Shape
  BY HappeningFrame DEF ControlInv
<1>2. trace.written \in Counts
  BY <1>1 DEF Shape, Traces
<1>3. \A k \in EventType : (k \in w \/ k \in p) <=> (k \in d /\ Enabled(k) /\ Served(k))
  OBVIOUS
<1>4. Balanced'
  BY <1>1, <1>3, Balance DEF ServeInv, Monitored
<1>5. trace'.written["session_metadata"] = trace.written["session_metadata"]
  BY <1>2, AddFacts DEF Counts, LineKinds, EventType
<1>6. NeedElt' = NeedElt
  BY <1>1 DEF NeedElt, Wants
<1> QED
  BY <1>1, <1>4, <1>5, <1>6 DEF ServeInv, HasStacks, Monitored, Started

(* Nothing to add. *)
LEMMA AddNothing ==
  ASSUME NEW S, NEW counts \in [S -> Nat]
  PROVE  Add(counts, {}) = counts
BY DEF Add

(* The enabled events that need no session are served. *)
LEMMA Needs ==
  ASSUME ControlInv, phase \in Started, NEW k \in EventType, Enabled(k)
  PROVE  /\ k \in {"enter", "leave", "method_stats", "exception", "exception_stats",
                   "alloc_by_class"} => NeedElt
         /\ k \in {"exception", "exception_stats"} => Exceptions
         /\ k = "alloc_by_class" => "GC" \in asked.mask
         /\ k \in {"gc_start", "gc_end"} => Collections
         /\ k \in {"enter", "leave", "method_stats"} => Hooks
         /\ (k \in {"contention_start", "contention_end"} /\ Served(k)) => Pipe("contention")
         /\ (k = "gc_heap_stats" /\ Served(k)) => Pipe("gc")
<1>1. \A kinds : k \in kinds => Wants(kinds)
  BY DEF Wants, Enabled
<1>2. k \in {"enter", "leave", "method_stats", "exception", "exception_stats",
             "alloc_by_class"} => NeedElt
  BY <1>1 DEF NeedElt
<1>3. k = "alloc_by_class" => NeedFullGc
  BY DEF NeedFullGc
<1>4. k \in {"gc_start", "gc_end"} => NeedGcCallbacks
  BY <1>1 DEF NeedGcCallbacks
<1>5. k \in {"contention_start", "contention_end"} => "contention" \in Keywords
  BY <1>1 DEF Keywords
<1>6. (k = "gc_heap_stats" /\ asked.keywords # {}) => "gc" \in Keywords
  BY DEF Keywords, ControlInv, AskedInv, NeedSession, Monitored, Started
<1> QED
  BY <1>1, <1>2, <1>3, <1>4, <1>5, <1>6, Sources DEF Served

(* A site is named whenever there is something to report about it. *)
LEMMA Attributed ==
  ASSUME ControlInv, ServeInv, phase \in Started \/ ~published, HasStacks,
         NEW source, NEW kinds,
         kinds \subseteq {"exception", "exception_stats", "alloc_by_class"}
  PROVE  Unattributed(Line(source, kinds)) = 0
<1>1. Line(source, kinds) # {} => published /\ \E k \in kinds : Enabled(k)
  BY DEF Line, Enabled
<1>2. (\E k \in kinds : Enabled(k)) => NeedElt
  BY DEF NeedElt, Wants, Enabled
<1>3. ctx.shadow \in {0, 1}
  BY DEF ControlInv, Shape, Contexts
<1> QED
  BY <1>1, <1>2, <1>3 DEF ServeInv, Unattributed

LEMMA ServeHappenings ==
  ASSUME ControlInv, ServeInv, Happening
  PROVE  ServeInv'
<1>0. /\ Shape /\ ctx \in Contexts /\ program \in Programs /\ trace \in Traces
      /\ trace.written \in Counts /\ trace.due \in Counts /\ ctx.pending \in Pendings
      /\ trace.unattributed \in Nat
  BY DEF ControlInv, Shape, Contexts, Traces
<1>1. /\ phase \in {"monitoring", "running", "stopping", "quiet"}
      /\ phase \in Started <=> published
  BY <1>0, HappeningFrame DEF ControlInv, PhaseInv, Started
<1>2. Add(ctx.pending, {}) = ctx.pending
  BY <1>0, AddNothing DEF Pendings
<1>3. CASE EnterMethod
  <2> DEFINE w == Line(Hooks, {"enter"})
             d == Due({"enter"})
  <2>1. trace'.written = Add(trace.written, w) /\ trace'.due = Add(trace.due, d)
        /\ trace'.unattributed = trace.unattributed
    BY <1>0, <1>3 DEF EnterMethod, Traces
  <2>2. ctx'.pending = Add(ctx.pending, {}) /\ program'.depth = 1
        /\ ctx'.shadow = IF published /\ Hooks /\ "stack" \in ctx.slots THEN 1 ELSE ctx.shadow
    BY <1>0, <1>2, <1>3 DEF EnterMethod, Contexts, Programs
  <2>3. w \subseteq EventType \ StatsEvents
    BY DEF Line, EventType, StatsEvents
  <2>4. phase \in Started => \A k \in EventType : k \in w <=> k \in d /\ Enabled(k) /\ Served(k)
    BY <1>1, Needs, LineFacts DEF Served, StatsEvents
  <2>5. phase \notin Started => w = {} /\ d = {}
    BY <1>1 DEF Line, Due
  <2>6. (phase \in Started /\ NeedElt /\ HasStacks) => ctx'.shadow = program'.depth
    BY <1>1, <2>2, Sources DEF HasStacks
  <2> QED BY <2>1, <2>2, <2>3, <2>4, <2>5, <2>6, ServeHappening
<1>4. CASE LeaveMethod
  <2> DEFINE w == Line(Hooks, {"leave"})
             p == Recorded(Hooks, {"method_stats"})
             d == Due({"leave", "method_stats"})
  <2>1. trace'.written = Add(trace.written, w) /\ trace'.due = Add(trace.due, d)
        /\ trace'.unattributed = trace.unattributed
    BY <1>0, <1>4 DEF LeaveMethod, Traces
  <2>2. ctx'.pending = Add(ctx.pending, p) /\ program'.depth = 0
        /\ ctx'.shadow = IF published /\ Hooks THEN 0 ELSE ctx.shadow
    BY <1>0, <1>4 DEF LeaveMethod, Contexts, Programs
  <2>3. w \subseteq EventType \ StatsEvents /\ p \subseteq StatsEvents
    BY DEF Line, Recorded, EventType, StatsEvents
  <2>4. ASSUME phase \in Started, NEW k \in EventType
        PROVE  (k \in w \/ k \in p) <=> (k \in d /\ Enabled(k) /\ Served(k))
    <3>1. /\ k \in w <=> published /\ Hooks /\ k = "leave" /\ Enabled(k)
          /\ k \in p <=> /\ published /\ Hooks /\ k = "method_stats" /\ Enabled(k)
                         /\ "stats" \in ctx.slots
          /\ k \in d <=> published /\ k \in {"leave", "method_stats"}
      BY LineFacts DEF Recorded
    <3> QED BY <1>1, <2>4, <3>1, Needs DEF Served, StatsEvents
  <2>5. phase \notin Started => w = {} /\ p = {} /\ d = {}
    BY <1>1 DEF Line, Recorded, Due
  <2>6. (phase \in Started /\ NeedElt /\ HasStacks) => ctx'.shadow = program'.depth
    BY <1>1, <2>2, Sources
  <2> QED BY <2>1, <2>2, <2>3, <2>4, <2>5, <2>6, ServeHappening
<1>5. CASE ExceptionThrown
  <2>1. PICK named \in BOOLEAN :
          /\ ctx' = [ctx EXCEPT
               !.pending = Add(@, Recorded(Exceptions /\ named, {"exception_stats"}))]
          /\ trace' = [trace EXCEPT
               !.written = Add(@, Line(Exceptions /\ named, {"exception"})),
               !.due = Add(@, IF named THEN Due({"exception", "exception_stats"}) ELSE {}),
               !.unattributed =
                 @ + Unattributed(Line(Exceptions /\ named, {"exception", "exception_stats"}))]
    BY <1>5 DEF ExceptionThrown
  <2> DEFINE source == Exceptions /\ named
             w == Line(source, {"exception"})
             p == Recorded(source, {"exception_stats"})
             d == IF named THEN Due({"exception", "exception_stats"}) ELSE {}
  <2>2. trace'.written = Add(trace.written, w) /\ trace'.due = Add(trace.due, d)
        /\ trace'.unattributed =
             trace.unattributed + Unattributed(Line(source, {"exception", "exception_stats"}))
    BY <1>0, <2>1 DEF Traces
  <2>3. HasStacks => trace'.unattributed = trace.unattributed
    BY <1>0, <1>1, <2>2, Attributed
  <2>4. ctx'.pending = Add(ctx.pending, p) /\ program'.depth = program.depth
        /\ ctx'.shadow = ctx.shadow
    BY <1>0, <1>5, <2>1 DEF ExceptionThrown, Contexts, Programs
  <2>5. w \subseteq EventType \ StatsEvents /\ p \subseteq StatsEvents
    BY DEF Line, Recorded, EventType, StatsEvents
  <2>6. ASSUME phase \in Started, NEW k \in EventType
        PROVE  (k \in w \/ k \in p) <=> (k \in d /\ Enabled(k) /\ Served(k))
    <3>1. /\ k \in w <=> published /\ source /\ k = "exception" /\ Enabled(k)
          /\ k \in p <=> /\ published /\ source /\ k = "exception_stats" /\ Enabled(k)
                         /\ "stats" \in ctx.slots
          /\ k \in d <=> published /\ named /\ k \in {"exception", "exception_stats"}
      BY LineFacts DEF Recorded
    <3> QED BY <1>1, <2>6, <3>1, Needs DEF Served, StatsEvents
  <2>7. phase \notin Started => w = {} /\ p = {} /\ d = {}
    BY <1>1 DEF Line, Recorded, Due
  <2>8. (phase \in Started /\ NeedElt /\ HasStacks) => ctx'.shadow = program'.depth
    BY <2>4 DEF ServeInv
  <2> QED BY <2>2, <2>3, <2>4, <2>5, <2>6, <2>7, <2>8, ServeHappening
<1>6. CASE ObjectsAllocatedByClass
  <2>1. PICK allocated \in BOOLEAN :
          trace' = [trace EXCEPT
            !.written = Add(@, Line("GC" \in asked.mask /\ allocated, {"alloc_by_class"})),
            !.due = Add(@, IF allocated THEN Due({"alloc_by_class"}) ELSE {}),
            !.unattributed =
              @ + Unattributed(Line("GC" \in asked.mask /\ allocated, {"alloc_by_class"}))]
    BY <1>6 DEF ObjectsAllocatedByClass
  <2> DEFINE source == "GC" \in asked.mask /\ allocated
             w == Line(source, {"alloc_by_class"})
             d == IF allocated THEN Due({"alloc_by_class"}) ELSE {}
  <2>2. trace'.written = Add(trace.written, w) /\ trace'.due = Add(trace.due, d)
        /\ trace'.unattributed = trace.unattributed + Unattributed(w)
    BY <1>0, <2>1 DEF Traces
  <2>3. HasStacks => trace'.unattributed = trace.unattributed
    BY <1>0, <1>1, <2>2, Attributed
  <2>4. ctx'.pending = Add(ctx.pending, {}) /\ program'.depth = program.depth
        /\ ctx'.shadow = ctx.shadow
    BY <1>0, <1>2, <1>6 DEF ObjectsAllocatedByClass, Programs
  <2>5. w \subseteq EventType \ StatsEvents
    BY DEF Line, EventType, StatsEvents
  <2>6. ASSUME phase \in Started, NEW k \in EventType
        PROVE  k \in w <=> k \in d /\ Enabled(k) /\ Served(k)
    <3>1. /\ k \in w <=> published /\ source /\ k = "alloc_by_class" /\ Enabled(k)
          /\ k \in d <=> published /\ allocated /\ k = "alloc_by_class"
      BY DEF Line, Due, Enabled
    <3> QED BY <1>1, <2>6, <3>1, Needs DEF Served, StatsEvents
  <2>7. phase \notin Started => w = {} /\ d = {}
    BY <1>1 DEF Line, Due
  <2>8. (phase \in Started /\ NeedElt /\ HasStacks) => ctx'.shadow = program'.depth
    BY <2>4 DEF ServeInv
  <2> QED BY <2>2, <2>3, <2>4, <2>5, <2>6, <2>7, <2>8, ServeHappening
<1>7. CASE EventPipeEventDelivered
  <2>1. PICK e \in RuntimeEvents :
          trace' = [trace EXCEPT !.written = Add(@, EventPipeLine(e)),
                                 !.due = Add(@, IF Whole(e) THEN Due({KindOf(e.id)}) ELSE {})]
    BY <1>7 DEF EventPipeEventDelivered
  <2> DEFINE kind == KindOf(e.id)
             w == EventPipeLine(e)
             d == IF Whole(e) THEN Due({kind}) ELSE {}
  <2>2. trace'.written = Add(trace.written, w) /\ trace'.due = Add(trace.due, d)
        /\ trace'.unattributed = trace.unattributed
    BY <1>0, <2>1 DEF Traces
  <2>3. ctx'.pending = Add(ctx.pending, {}) /\ program'.depth = program.depth
        /\ ctx'.shadow = ctx.shadow
    BY <1>0, <1>2, <1>7 DEF EventPipeEventDelivered, Programs
  <2>4. \/ /\ kind \in {"contention_start", "contention_end"} /\ Whole(e)
           /\ w = Line(Pipe("contention"), {kind})
        \/ kind = "gc_heap_stats" /\ Whole(e) /\ w = Line(Pipe("gc"), {kind})
        \/ ~Whole(e) /\ w = Line(Pipe("gc"), {})
    BY DEF RuntimeEvents, Whole, KindOf, EventPipeLine
  <2>5. w \subseteq EventType \ StatsEvents
    BY <2>4 DEF Line, EventType, StatsEvents
  <2>6. phase \in Started => \A k \in EventType : k \in w <=> k \in d /\ Enabled(k) /\ Served(k)
    BY <1>1, <2>4, Needs, Sources, LineFacts DEF Served, StatsEvents
  <2>7. phase \notin Started => w = {} /\ d = {}
    BY <1>1, <2>4 DEF Line, Due
  <2>8. (phase \in Started /\ NeedElt /\ HasStacks) => ctx'.shadow = program'.depth
    BY <2>3 DEF ServeInv
  <2> QED BY <2>2, <2>3, <2>5, <2>6, <2>7, <2>8, ServeHappening
<1>8. CASE GarbageCollectionStarted
  <2> DEFINE w == Line(Collections, {"gc_start"})
             d == Due({"gc_start"})
  <2>1. trace'.written = Add(trace.written, w) /\ trace'.due = Add(trace.due, d)
        /\ trace'.unattributed = trace.unattributed
    BY <1>0, <1>8 DEF GarbageCollectionStarted, Traces
  <2>2. ctx'.pending = Add(ctx.pending, {}) /\ program'.depth = program.depth
        /\ ctx'.shadow = ctx.shadow
    BY <1>0, <1>2, <1>8 DEF GarbageCollectionStarted, Contexts, Programs
  <2>3. w \subseteq EventType \ StatsEvents
    BY DEF Line, EventType, StatsEvents
  <2>4. phase \in Started => \A k \in EventType : k \in w <=> k \in d /\ Enabled(k) /\ Served(k)
    BY <1>1, Needs, LineFacts DEF Served, StatsEvents
  <2>5. phase \notin Started => w = {} /\ d = {}
    BY <1>1 DEF Line, Due
  <2>6. (phase \in Started /\ NeedElt /\ HasStacks) => ctx'.shadow = program'.depth
    BY <2>2 DEF ServeInv
  <2> QED BY <2>1, <2>2, <2>3, <2>4, <2>5, <2>6, ServeHappening
<1>9. CASE GarbageCollectionFinished
  <2> DEFINE w == Line(Collections, {"gc_end"})
             d == Due({"gc_end"})
  <2>1. trace'.written = Add(trace.written, w) /\ trace'.due = Add(trace.due, d)
        /\ trace'.unattributed = trace.unattributed
    BY <1>0, <1>9 DEF GarbageCollectionFinished, Traces
  <2>2. ctx'.pending = Add(ctx.pending, {}) /\ program'.depth = program.depth
        /\ ctx'.shadow = ctx.shadow
    BY <1>0, <1>2, <1>9 DEF GarbageCollectionFinished, Programs
  <2>3. w \subseteq EventType \ StatsEvents
    BY DEF Line, EventType, StatsEvents
  <2>4. phase \in Started => \A k \in EventType : k \in w <=> k \in d /\ Enabled(k) /\ Served(k)
    BY <1>1, Needs, LineFacts DEF Served, StatsEvents
  <2>5. phase \notin Started => w = {} /\ d = {}
    BY <1>1 DEF Line, Due
  <2>6. (phase \in Started /\ NeedElt /\ HasStacks) => ctx'.shadow = program'.depth
    BY <2>2 DEF ServeInv
  <2> QED BY <2>1, <2>2, <2>3, <2>4, <2>5, <2>6, ServeHappening
<1> QED
  BY <1>3, <1>4, <1>5, <1>6, <1>7, <1>8, <1>9 DEF Happening

LEMMA ServeStep == ControlInv /\ ServeInv /\ [Next]_vars => ServeInv'
<1> SUFFICES ASSUME ControlInv, ServeInv, [Next]_vars PROVE ServeInv'
  OBVIOUS
<1>0. /\ Shape /\ ctx \in Contexts /\ program \in Programs /\ trace \in Traces
      /\ trace.written \in Counts /\ trace.due \in Counts /\ ctx.pending \in Pendings
  BY DEF ControlInv, Shape, Contexts, Traces
<1>1. ASSUME UNCHANGED <<asked, trace>>, ctx'.config = ctx.config, ctx'.pending = ctx.pending,
             ctx'.slots = ctx.slots, Balanced
      PROVE  Balanced'
  BY <1>1 DEF Balanced, Reported, Enabled, Served
<1>2. CASE Initialize
  <2>1. CASE 3 \in offered
    <3>1. /\ phase = "loaded" /\ phase' = "published"
          /\ ctx'.pending = NonePending
          /\ trace'.written = Add(trace.written, {"session_metadata"})
          /\ trace'.due = trace.due /\ trace'.unattributed = trace.unattributed
      BY <1>0, <1>2, <2>1 DEF Initialize, NewContext, NonePending, Traces
    <3>2. \A k \in LineKinds : trace'.written[k] =
            IF k = "session_metadata" THEN trace.written[k] + 1 ELSE trace.written[k]
      BY <1>0, <3>1, AddFacts DEF Counts
    <3>3. "session_metadata" \in LineKinds /\ "session_metadata" \notin EventType
          /\ EventType \subseteq LineKinds
      BY DEF LineKinds, EventType
    <3> QED BY <3>1, <3>2, <3>3 DEF ServeInv, Fresh, Monitored, Started
  <2>2. CASE 3 \notin offered
    BY <1>2, <2>2 DEF Initialize, ServeInv, Monitored, Started
  <2> QED BY <2>1, <2>2
<1>3. CASE SetupEventMonitoring
  <2>1. /\ phase = "published" /\ phase' \in {"monitoring", "failed"}
        /\ UNCHANGED <<program, trace>>
        /\ ctx'.shadow = ctx.shadow /\ ctx'.pending = ctx.pending
    BY <1>0, <1>3 DEF SetupEventMonitoring, Contexts
  <2>2. ctx'.shadow = program'.depth
    BY <2>1 DEF ControlInv, PhaseInv
  <2>3. Fresh'
    BY <2>1 DEF ServeInv, Fresh
  <2>4. Balanced'
    BY <2>3 DEF Fresh, Balanced, Reported, NonePending, StatsEvents
  <2> QED BY <2>1, <2>2, <2>3, <2>4 DEF ServeInv, Fresh, Monitored
<1>4. CASE StartFlushing
  <2>1. /\ phase = "monitoring" /\ phase' = "running" /\ UNCHANGED <<asked, program, trace>>
        /\ ctx'.config = ctx.config /\ ctx'.shadow = ctx.shadow /\ ctx'.pending = ctx.pending
        /\ ctx'.slots = ctx.slots
    BY <1>0, <1>4 DEF StartFlushing, Contexts
  <2>2. NeedElt' = NeedElt
    BY <2>1 DEF NeedElt, Wants
  <2> QED BY <1>1, <2>1, <2>2 DEF ServeInv, HasStacks, Monitored, Started
<1>5. CASE Happening
  BY <1>5, ServeHappenings
<1>6. CASE FlushPeriodic \/ Teardown
  <2>1. /\ trace'.written = AddAll(trace.written, ctx.pending)
        /\ trace'.saved = trace'.written
        /\ trace'.due = trace.due /\ trace'.unattributed = trace.unattributed
    BY <1>0, <1>6 DEF FlushPeriodic, Teardown, FlushAll, Traces
  <2>2. /\ ctx'.pending = NonePending /\ ctx'.config = ctx.config /\ ctx'.shadow = ctx.shadow
        /\ ctx'.slots = ctx.slots /\ UNCHANGED <<asked, program>>
    BY <1>0, <1>6 DEF FlushPeriodic, Teardown, Contexts, NonePending
  <2>3. phase \in Monitored /\ phase' \in Monitored
        /\ (phase' \in Started => phase \in Started)
    <3>1. CASE FlushPeriodic
      <4>1. ctx.flusher /\ phase' = phase
        BY <3>1 DEF FlushPeriodic
      <4>2. phase \notin {"loaded", "published", "monitoring", "failed", "stopped"}
        BY <4>1 DEF ControlInv, PhaseInv
      <4> QED BY <1>0, <4>1, <4>2 DEF Shape, Phases, Monitored
    <3>2. CASE Teardown
      BY <3>2 DEF Teardown, Monitored, Started
    <3> QED BY <1>6, <3>1, <3>2
  <2>4. \A k \in LineKinds : trace'.written[k] =
          trace.written[k] + (IF k \in StatsEvents THEN ctx.pending[k] ELSE 0)
    <3>1. trace.written \in [LineKinds -> Nat] /\ ctx.pending \in [StatsEvents -> Nat]
      BY <1>0 DEF Counts, Pendings
    <3>2. \A k \in LineKinds : AddAll(trace.written, ctx.pending)[k] =
            trace.written[k] + (IF k \in StatsEvents THEN ctx.pending[k] ELSE 0)
      BY <3>1, AddAllFacts
    <3> QED BY <2>1, <3>2
  <2>5. ASSUME NEW k \in EventType PROVE Reported(k)' = Reported(k)
    <3>1. k \in LineKinds /\ trace.written[k] \in Nat /\ (k \in StatsEvents => ctx.pending[k] \in Nat)
      BY <1>0 DEF LineKinds, Counts, Pendings
    <3> QED BY <2>2, <2>4, <3>1 DEF Reported, NonePending
  <2>6. Balanced'
    BY <2>1, <2>2, <2>3, <2>5 DEF ServeInv, Balanced, Enabled, Served
  <2>7. trace'.written["session_metadata"] = trace.written["session_metadata"]
    BY <1>0, <2>4 DEF LineKinds, StatsEvents, Counts
  <2>8. NeedElt' = NeedElt
    BY <2>2 DEF NeedElt, Wants
  <2> QED BY <2>1, <2>2, <2>3, <2>6, <2>7, <2>8 DEF ServeInv, HasStacks, Monitored
<1>7. CASE StopCallbacks \/ StopSession
  <2>1. /\ phase \in Monitored /\ phase' \in {"stopping", "quiet"} /\ UNCHANGED <<asked, trace>>
        /\ ctx'.config = ctx.config /\ ctx'.pending = ctx.pending /\ ctx'.slots = ctx.slots
    BY <1>0, <1>7 DEF StopCallbacks, StopSession, Contexts, Monitored
  <2> QED BY <1>1, <2>1 DEF ServeInv, HasStacks, Monitored, Started
<1>8. CASE UNCHANGED vars
  <2>1. UNCHANGED <<env, offered, phase, published, ctx, asked, program, trace>>
    BY <1>8 DEF vars
  <2>2. NeedElt' = NeedElt
    BY <2>1 DEF NeedElt, Wants
  <2> QED BY <1>1, <2>1, <2>2 DEF ServeInv, HasStacks, Fresh
<1> QED
  BY <1>2, <1>3, <1>4, <1>5, <1>6, <1>7, <1>8 DEF Next

LEMMA ServeAlways == Spec => [](ControlInv /\ ServeInv)
<1>1. ControlInv /\ ServeInv /\ [Next]_vars => (ControlInv /\ ServeInv)'
  BY ControlStep, ServeStep
<1> QED
  BY <1>1, ControlInit, ServeInit, PTL DEF Spec

(* Whatever is enabled and whatever the runtime offers, each occurrence of an *)
(* enabled event that is due is reported once, none of a disabled one is, and *)
(* exceptions and allocations name their method where there is a shadow stack. *)
THEOREM EventsAllServed == Spec => []EventsServed
<1>1. ControlInv /\ ServeInv => EventsServed
  <2> SUFFICES ASSUME ControlInv, ServeInv PROVE EventsServed
    OBVIOUS
  <2>1. CASE phase \in Monitored
    BY <2>1 DEF ServeInv, HasStacks, Balanced, EventsServed
  <2>2. CASE phase = "published"
    BY <2>2 DEF ServeInv, Fresh, EventsServed, Reported, NonePending, StatsEvents
  <2> QED
    BY <2>1, <2>2 DEF ControlInv, Shape, Phases, Monitored, EventsServed
<1> QED
  BY <1>1, ServeAlways, PTL

(* After Shutdown the file has all that was due, and nothing is left on. *)
THEOREM StoppedSafe == Spec => []StoppedComplete
<1>1. ControlInv /\ ServeInv => StoppedComplete
  <2> SUFFICES ASSUME ControlInv, ServeInv, phase = "stopped" PROVE StoppedComplete
    BY DEF StoppedComplete
  <2>1. ctx.session = {} /\ ~ctx.semaphore /\ ~ctx.flusher
    BY DEF ControlInv, PhaseInv
  <2>2. /\ Balanced /\ trace.saved = trace.written /\ ctx.pending = NonePending
        /\ trace.saved["session_metadata"] = 1
    BY DEF ServeInv, Monitored
  <2>3. trace.written \in Counts
    BY DEF ControlInv, Shape, Traces
  <2>4. \A k \in EventType : Reported(k) = trace.saved[k]
    BY <2>2, <2>3 DEF Reported, NonePending, StatsEvents, Counts, LineKinds
  <2> QED
    BY <2>1, <2>2, <2>4 DEF StoppedComplete, Balanced
<1> QED
  BY <1>1, ServeAlways, PTL
=============================================================================
