# Metreja: a TLA+ verification project

Metreja is a call-path profiler for .NET. A native profiler (C++, loaded by the CLR into the
profiled process) turns method enter/leave hooks and exception, GC and contention callbacks into
NDJSON event lines and per-method statistics; a command-line tool (C#) configures sessions, runs
processes under the profiler, merges their traces and analyses them. This directory models the
profiler and the tool's run and hotspots commands, checks them with TLC, and proves what matters
most of the call stack, the event writer, the statistics, the method cache and the lifecycle with TLAPS.

Paths below are relative to the repository; `Profiler/` stands for `src/Metreja.Profiler/` and
`Tool/` for `src/Metreja.Tool/`.

## 1. Inventory

| Component | State | Operations | Correct when |
|---|---|---|---|
| **Shadow call stack** `Profiler/CallStack.*`, callbacks in `Profiler/Profiler.cpp` | per thread: stack of `(functionId, enterTsNs, childrenTimeNs)`, the pending catcher, one deferred unwind entry, async nesting counts and first-enter times | `EnterStub`, `LeaveStub`/`TailcallStub`, `ExceptionThrown`, `ExceptionSearchCatcherFound`, `ExceptionUnwindFunctionEnter`, `ExceptionCatcherEnter` | the stack is the CLR's stack restricted to included methods; every call is tallied once, with its own duration; wall time of async methods is right |
| **Event writer** `Profiler/NdjsonWriter.*` | 64 KiB buffer and position, file handle, event count and limit, one mutex | fourteen `Write...` functions, `Flush`, destructor | no overrun, order kept, lines neither lost nor repeated while writes succeed, limit respected |
| **Statistics aggregator** `Profiler/StatsAggregator.*` | per-thread maps under a mutex each, registry under its mutex, flush thread, shutdown event, manual-flush semaphore | `RecordMethod`, `RecordException`, `CollectDeltaStats`, `WriteMergedStats`, `Start/StopPeriodicFlush`, `FlushThreadProc`, `Flush` | every recorded call is summed up once; what was flushed is in the file; stopping terminates |
| **Profiler lifecycle** `Profiler/Profiler.cpp`, `ProfilerContext.h` | global `g_ctx`, the COM interfaces, the EventPipe session | `Initialize`, `SetupEventMonitoring`, `Shutdown` | what is enabled is reported, once; a failed start leaves nothing on; nothing uses a context that is gone |
| **Method cache and filters** `Profiler/MethodCache.*` | `FunctionID -> MethodInfo` under a shared mutex | `ResolveAndCache`, `Lookup`, `ShouldHook` | one decision per method, kept while anyone runs it; the decision is the rules' |
| **Configuration** `Profiler/ConfigReader.*` | none kept | `Load`, environment overrides | a missing or malformed file leaves the defaults; unknown events are skipped |
| **GC and EventPipe events** `Profiler/Profiler.cpp` | GC start time | `GarbageCollectionStarted/Finished`, `EventPipeEventDelivered` | a duration is its own collection's |
| **Sessions** `Tool/Config/*`, session commands | one JSON file per session | `init`, `set`, `add`, `remove`, `clear`... | no command's change is lost |
| **Run and merge** `Tool/Commands/RunCommand.cs`, `Tool/Analysis/NdjsonMerger.cs` | trace files on disk | launch, wait, find, merge or rename, delete | no line is lost or repeated, whatever is interrupted |
| **Trace analysis and export** `Tool/Analysis/*`, `Tool/Export/*` | per-thread stacks while one trace is read | hotspots, call tree, callers, diff, trend, ... | figures agree with the trace, also with unbalanced stacks |
| **Telemetry, update check, COM boilerplate, platform layer, vendored JSON parser** | - | - | not modelled: I/O, wrappers, third-party code |

How they interact. `Initialize` loads the configuration, builds the context (writer, cache, call
stacks, aggregator), publishes it in the global `g_ctx`, requests callbacks, creates the
manual-flush semaphore and starts the flush thread. From then on the CLR calls the stubs on the
program's threads: a stub reads `g_ctx`, looks the method up in the cache, pushes or pops the
thread's own shadow stack, writes a line through the shared writer, and adds to the thread's
statistics. The flush thread swaps the threads' maps out under their locks, merges them, and
writes them through the same writer. `metreja flush` in another process signals the semaphore;
`metreja run` reads the trace files after the process has ended. `Shutdown` clears `g_ctx`, stops
the flush thread, flushes once more itself, and deletes the context.

What is hard here:

* the order of exception callbacks: a recursive catcher, catchers with filters, finally blocks
  that call methods or throw, all sharing one catcher slot and one deferred entry per thread;
* lock-free reads next to locked updates (the event limit, `g_ctx`);
* the flush thread against recording threads, a shutdown, a manual signal and its own timer;
* failures that are ignored: a write's result, a file that does not open, a wait that errs;
* force-kill between collecting statistics and getting them to the file.

`PROJECT.json` lists each hazard at its line with the properties that cover it.

## 2. Modules

| Module | Models |
|---|---|
| `CallStack` | one thread's shadow stack, driven by a model of the CLR |
| `Hotspots` | the hotspots analysis, reading the lines `CallStack` writes; composes the two (`HotSpec`) |
| `EventLog` | abstract: an append-only log with a durable prefix |
| `NdjsonWriter` | the event writer; implements `EventLog` |
| `StatsAggregator` | recording threads, flush thread, Shutdown, manual flush |
| `MethodFilters` | names out of metadata, `SimpleGlobMatch`, filter rules; and what the documentation says of them |
| `MethodDecisions` | abstract: decisions that are taken once |
| `MethodCache` | threads compiling, running and unwinding functions over the cache; extends `MethodFilters`, implements `MethodDecisions` |
| `ConfigReader` | `ConfigReader::Load` as an operator |
| `ProfilerLifecycle` | one process from `Initialize` to `Shutdown`; extends `ConfigReader` |
| `RunMerge` | `metreja run` and `merge`, the processes and their trace files; extends `ConfigReader`, takes `GlobMatch` from `MethodFilters` |
| `CallStackProofs`, `CallStackShadowProofs`, `HotspotsProofs`, `NdjsonWriterProofs`, `StatsAggregatorProofs`, `MethodCacheProofs`, `ProfilerLifecycleProofs`, `RunMergeProofs` | theorems |
| `MC...` | small instances for TLC |

Operators whose comment starts with "Mutation:" are deliberately wrong variants of the definition
after them. No specification uses them; each shows that one property notices the corresponding
bug when it takes the definition's place.

### CallStack

`thread` is `ThreadCallStack`: `stack` the vector of entries, `catcher` the
`exceptionCatcherFunctionId`, `deferred` the four `m_deferredUnwind...` fields, `nesting` and
`firstEnter` the two async maps. `stats` is what `RecordMethod` accumulates for the thread and
`event` the last enter, leave or exception line, with a running number that tells equal lines apart. Each callback of `Profiler.cpp` is an operator of the same
name that gives the next `thread`, `stats` and `event`; each is called by the CLR action that
triggers it:

| CLR action | callback |
|---|---|
| `Call` | `EnterStub` (included methods) |
| `Return` | `ProcessLeave` (return or tailcall) |
| `Throw` | `ExceptionThrown` (the exception line) |
| `CatcherFound` | `ExceptionSearchCatcherFound` |
| `UnwindFrame` | `ExceptionUnwindFunctionEnter` |
| `FrameUnwound` | none that does anything |
| `CatcherEntered` | `ExceptionCatcherEnter` |

The CLR is external: `frames` is its stack and `exc` its stack of dispatches (two passes; filters
run in the first, finally blocks in the second). Frames carry the exact enter time and children
time, so `truth` is what a perfect profile would have tallied; the properties compare the two.
Whether the CLR makes exception callbacks at all depends on the enabled events, as
`SetupEventMonitoring` requests them (`MonitorExceptions`). `computeDeltas` is taken to be on.
An exception that no managed frame catches unwinds the whole stack with no catcher. That
`ExceptionThrown` writes nothing when the CLR does not give the exception's class
(`Profiler.cpp:300`) is in `ProfilerLifecycle`; no property here is about exception lines.
Threads have separate stacks and do not interact here, so one thread is the whole of it.

### Hotspots

`replay` is what `HotspotsAnalyzer.AggregateAsync` keeps of one thread: its stack of frames with
the children's time, and the table. Every action of `CallStack` is conjoined with `ReadLine`, which
hands the line the action wrote, if it wrote one, to `ReplayEnter` or `ReplayLeave`. The tool reads
the trace later; as the lines of a thread keep their order, that makes no difference. The trace
has no `method_stats` lines and no lines cut off by `maxEvents`.

### NdjsonWriter and EventLog

A per-call event has two steps, because that is where the code can be interrupted: `BeginCounted`
(the limit check and the rendering, without the lock) and `FinishCounted` (the locked append and
count). Lines that bypass the limit have one step: nothing before their lock reads shared state.
`AppendToBuffer` includes the drain at 80%; `WriteFile` includes the failure, ignored by the
code, that leaves some prefix of the buffer in the file, possibly with a torn line at its end
(`fragments`). A line is an id, a length and whether it counts. The direct write of a line longer
than the buffer cannot happen with 2 KiB line buffers and is left out; the assumption
`LineMax <= 80% of BufferSize` says so.

A file that does not open leaves an invalid handle; then the buffer is never drained, and the copy
past its end has no defined effect: the model stops there (`Defined`), and the buffer bound is
claimed for an open file only.

`EventLog` is what callers may rely on: lines are appended, a prefix is durable and stays, and a
failing write loses a tail that was not durable. The refinement maps `log` to file and buffer
together and `durable` to the length of the file.

### StatsAggregator

An accumulator is a set of calls: its count is the size, merging is union, swapping with an empty
map empties it; "lost" and "counted twice" become statements about sets. `pend[t]` is thread
`t`'s two maps together and `keyOf` tells which entry a call belongs to; recording reads the
entry (`BeginRecord`, which takes the lock) and stores it back (`EndRecord`, which releases it),
so a swap that did not take the lock would show. `Collect(c)` is the code shared by the flush
thread and Shutdown: take the registry lock, swap each thread's maps under its lock, release,
write one line per key (none for a method the cache does not know), flush the writer. The flush
thread's program counter follows `FlushThreadProc`: poll the semaphore, wait, decide whether a
whole interval has passed, flush. `hasSem`, `interval` and `StartPeriodicFlush` cover the
configurations with and without a timer and a semaphore. The writer is external here: its buffer
may be drained at any moment, because any thread may fill it, and its writes succeed. What a
failing write, whose result the writer ignores, leaves in the file is the subject of `NdjsonWriter`;
"in the file" is claimed here under that condition.

`inside` is the set of threads in a callback that has read `g_ctx`. `StopSignal` both clears
`g_ctx` and sets the shutdown event; a callback that is already inside goes on, and after the
context is deleted its steps have no defined meaning and are not modelled.

### MethodFilters, MethodDecisions and MethodCache

A name is a sequence of symbols: the ones the code looks at (`*`, `.`, `/`, `<`, `>`, `d__`) and
pieces of identifiers. `SimpleGlobMatch`, `MatchesRule`, `EvaluateFilters`, the splitting of
paths and type names and the recognition of async state machines are operators. Beside them stand
the documented meaning of a rule (`GlobMatch`, `DocumentedDecision`) and what the CLR reports of a
method whose author wrote certain names (`TypeName`, `ModulePath`); the properties compare the two.
`GlobMatch` says nothing of how to match: a value fits a pattern if it can be cut into stretches, one
for each symbol of the pattern, any stretch for a star. `WellNamed` says what the names are that the
code can take apart: no dot in a class's name, no slash in an assembly's, and a compiler-made class
`<Name>d__N` has the author's method name in it. Every other `MoveNext`, an async lambda's
`<<Main>b__0>d` among them, is known by that name only.

In `MethodCache` a thread's `call` is where it is inside `ResolveAndCache`, called by
`JITCompilationStarted` (`kind = "jit"`) or by `FunctionMapper` through `ShouldHook` (`"map"`):
`Begin` is the fast path under the shared lock, `Resolve` the metadata calls outside it, any of
which may fail, `Insert` the `try_emplace` under the exclusive lock, `Answer` the mapper's
`Lookup`. `Enter`, `Leave` and `Unwind` run code and look the function up as the callbacks do.
The CLR is external: functions compiled by several threads at the same time, hooks only where the
mapper agreed, unwinding reported for every frame, unloading and reuse of a `FunctionID`
(`Unload`: `FunctionUnloadStarted` does nothing). An entry keeps, as history, the method it was
made for and what failed.

### ConfigReader and ProfilerLifecycle

`Load` gives the configuration for an environment: what became of the file, its members, any of
which may be missing, and the two override variables. The early returns skip overrides and
placeholders, as the code does.

`ProfilerLifecycle` has one action per step of `Initialize` (`Initialize` up to the publication of
`g_ctx`, `SetupEventMonitoring`, `StartFlushing`), of `Shutdown` (`StopCallbacks`, `StopSession`,
`Teardown`), one per callback, and `FlushPeriodic` for the flush thread. `asked` is what the CLR was
asked for: event masks, hooks, keywords of the EventPipe session. A happening in the program
reaches a callback only if its source was turned on; then the callback writes a line if its event is
enabled. `trace` counts the lines of each kind that were written, reached the file, and were `due`:
what happened while `g_ctx` was published and the CLR can describe. Three things are not due, since
the handlers give up on them: an exception whose class `GetClassFromObject` does not give, an
allocation callback without objects, and heap statistics of fewer than 92 bytes. The properties
compare the counts. `slots` says which thread-local slots there were: without one of them no thread
has a shadow stack, and sites have no name, or none has statistics, which are then not `Served`. Every call of
`SetupEventMonitoring` may fail, and the runtime may offer any of four generations of
`ICorProfilerInfo`. The shadow stack is one frame deep: enough to name the site of an exception or
an allocation.

### RunMerge

`files` maps paths to the bags of whole lines in them; a line torn by a kill is no JSON and the merge
skips it. `procs` are the processes of the latest run: each loads the configuration
(`OutputPath` calls `Load`), opens its trace, writes and ends when it likes; the first is the one the
tool waits for. `tool` is where `metreja run` is: waiting, reading the traces found one after the
other, writing the merged one, deleting the originals one by one; it may be interrupted at every
step. `merge` runs on the traces of a detached run. On POSIX systems open files can be renamed and deleted,
after which the process writes to a file without a name (`linked`); on Windows such a step fails.
A process that starts while another command rewrites the session file finds it malformed.
A path is a sequence of tokens, the separator `/` among them. `FindSessionOutputFiles` splits the
pattern as the code does: the directory must be the pattern's own, and the file's name must fit its
last part, in which every star stands for anything (`MethodFilters`' `GlobMatch`). So a template with
`{pid}` in a directory makes traces the tool never finds; they stay, and `MergedComplete` is about
the other templates.
`HasOwnTrace` sets aside processes that share a path: the same pid again, a template without
`{pid}`, or two that fell back to the default path.

## 3. Runs

Bounds are named constants, given in the `.cfg` files and in the MC modules.

| Run | Cfg | Result |
|---|---|---|
| `call_stack` | `CallStack.cfg` | passes, 161 612 states |
| `ndjson_writer` | `NdjsonWriter.cfg` | passes, 312 667 states |
| `stats_aggregator` | `StatsAggregator.cfg` | passes, 1 801 632 states |
| `stats_liveness` | `StatsAggregatorLive.cfg` | passes, 70 226 states |
| `method_cache` | `MethodCache.cfg` | passes, 225 486 states |
| `lifecycle` | `ProfilerLifecycle.cfg` | passes, 2 297 289 states |
| `run_merge` | `RunMerge.cfg` | passes, 1 391 002 states |
| `nested_catch`, `unmonitored` | `CallStackNested.cfg`, `CallStackUnmonitored.cfg` | violated, see findings |
| `shutdown_in_flight` | `StatsAggregatorInFlight.cfg` | violated, see findings |
| `wildcards` | `MethodCacheWildcards.cfg` | violated, see findings |
| `live_child` | `RunMergeLive.cfg` | violated, see findings |

**call_stack.** Three methods: an included async one, an included one and an excluded one. Depth 4
is enough for a catcher with two inner activations and a frame of another method between them;
time 7 leaves room for a second exception after the first was caught. Filters and finally blocks
may call methods but not throw (`NestedThrows = FALSE`). It shows that the shadow stack is the
CLR's stack at every step of an unwind (`ShadowMirrorsRuntime`), that calls are neither lost nor
repeated in the deferral of recursive catchers (`CallsConserved`), that counts, inclusive and
self times are those of an exact profile (`InclusiveTimeExact`, `RegularSelfTimeExact`) and each
leave line carries its own call's duration (`DeltaTimeExact`), and that async nesting never
outlives the calls (`AsyncNestingBounded`). The exactness claims exclude what `irregular`
records: calls made by a finally block, and a frame of another method unwound while an activation
of the catcher's method is held back (see the known deviations below). The analyzer, which sees the
lines only, keeps its stack as deep as the shadow stack at every moment (`ReplayDepth`), so that no
leave line finds it empty; its counts are exact after whatever was unwound
(`HotspotsCountExact`), and its times where the profiler's are (`HotspotsExact`).

**ndjson_writer.** Three threads and a limit of one line, so that two threads can be past the check
when a third one reaches the limit; four writing calls over a 10-byte buffer, so that drains,
flushes and failed writes happen in every order; line lengths that fill the buffer to the mark,
pass it, and are too long to be rendered. The file may not open.

**stats_aggregator.** Two threads, one known and one unknown method, three calls, two signals, an
interval of two polls or none, with and without semaphore; waits, starts and the process may fail.
Windows' coalescing event. Three calls are enough for one to be in a thread's maps, one in a
collector's hands and one on a line at the same time. Threads are interchangeable (symmetry).

**stats_liveness.** The POSIX semaphore, waits that do not fail, one thread, two calls, no symmetry.

**method_cache.** Two threads and two functions: both may resolve one function at the same time
while the other function runs. Two methods, an ordinary one and an async state machine, whose
class is nested and thus reported without a namespace; three rule sets, with no rules, with rules
of both kinds on two levels, and with an unknown level; depth 2, so that a frame lies below another
one when it leaves or is unwound; one unload. Metadata calls fail as a whole or for the type only; the
proofs cover every kind of failure. Threads and functions are interchangeable (symmetry).

**lifecycle.** Twelve environments: sets of events that share a source, miss one, or need another's,
one with an unknown name, one with no flush interval, and three without a usable file. Time 5 allows
an enter, a collection inside a collection with both ends, or an allocation, an exception and a
leave inside a method. Exceptions come with and without a class, allocation callbacks with and
without objects, heap statistics in each size and one byte short, and either thread-local slot may be
missing. `EventsServed` shows that the masks, hooks and keywords asked for suit what the handlers test
for, in every combination, and that what was recorded is reported once across flushes and Shutdown.
`FailedStartQuiet` is about sessions, semaphores and threads: `g_ctx` does stay published after
a failed start, and the masks stay set; the CLR unloads a profiler whose `Initialize` fails.

**run_merge.** Five templates: the default one; one without a separator, whose merged trace the
pattern for traces matches as well; one with the pid first; one without a pid; one with the pid in
a directory, which is never merged. `TracesSafe` is about the latest run: a later run replaces the
merged trace of an earlier one. Two runs of two
processes with one line each and three pids: the second run meets what an interrupted or detached
first one left. One line per process suffices as a trace is read and deleted as a whole; two lines
matter only for a process that outlives the root, which `live_child` shows. All runs of a session
use one template, a template has at most one `{pid}`, and a run starts after the processes of the
one before it have ended. Pids are interchangeable (symmetry).

*Fairness.* `WF(FlushThread)`: an operating-system thread that is never blocked for ever; all its
waits have a finite timeout or an event that Shutdown sets. `WF(ShutdownThread)`: the CLR thread
inside `Shutdown` keeps running. `WF(EndRecord(t))`: a thread inside its short critical section
leaves it. Nothing is assumed of program threads outside it, of the sender of signals or of the
CLR ever calling `Shutdown`. A sender that signals without end would keep the flush thread from
looking at the shutdown event (`continue` at StatsAggregator.cpp:207); `MaxSignals` excludes it,
so `StopReturns` says that the join returns once the signals cease.

### Findings

1. `unmonitored`: `set events ... enter leave method_stats`, an example of `Tool/README.md:259`,
   requests no exception callbacks (`Profiler.cpp:184`); a caught exception leaves stale entries
   on the shadow stack, and the next leave reports another call's duration.
2. `nested_catch`: a finally block that throws and catches finalizes the outer catcher's entry
   and clears its slot; the outer catcher is then missing from the stack.
3. `shutdown_in_flight`: `Shutdown` deletes the context while callbacks may be inside it.
4. `wildcards`: `--class "*Generated*"`, an example of `Tool/README.md:198`, matches nothing:
   `SimpleGlobMatch` knows a star at the end and `*.` at the beginning only.
5. `live_child`: a child that outlives the process the tool waits for loses the lines it writes
   after its trace was merged and deleted.

### Known deviations

What the properties set aside, or the models leave out, where the code's result differs from the ideal:

* In a mutual recursion the held-back activation's time is credited to the wrong parent, which
  moves self time from one method to another (the second half of `irregular`).
* An async method that catches an exception in its own body leaves with wall time 0.
* `maxEvents` may be exceeded by as many lines as there are other threads (`OvershootBounded`).
* A collection inside a concurrent one overwrites its start: the outer one's duration is then the
  time since the inner one's start (`GcDurationExact` is about the others).
* A nested class is reported without a namespace, so namespace rules do not see async state
  machines, and method rules see `MoveNext`.
* A missing or malformed configuration leaves the overrides unread: the trace goes to the default
  path with its placeholders as they stand.
* A reused `FunctionID` keeps the name and the decision of the unloaded method.
* Merged lines are sorted by `tsNs` with a sort that is not stable; statistics lines have no `tsNs`
  and come first.
* An exception whose class the CLR does not give is neither written nor counted, and heap statistics
  shorter than 92 bytes are dropped.
* In a process without a free thread-local slot there is no shadow stack, or there are no statistics.
* A template with `{pid}` in a directory is not merged: the profiler creates the directories, the
  tool looks for one called `*`. The traces stay.
* A run replaces the merged trace of the session's previous run.
* A template without `{sessionId}` lets the run of one session find and merge another's traces.
* A trace with leave lines and `method_stats` lines counts every call twice in hotspots.

## 4. Proofs

`CallStackProofs`, for any methods, filters, events and clock, any handlers, throwing ones
included, and any depth. It assumes `CallStackAssumption` (the constants' types).

| Theorem | Argument |
|---|---|
| `TypeInvariant` | `TypeInv` is inductive. Its half about the CLR, `RuntimeInv`, orders activations and dispatches and says that an activation's children did not run longer than itself; its half about the profiler, `ProfilerInv`, says that no time on the shadow stack lies in the future, also while an entry is held back, so that no reported duration is negative |

`CallStackShadowProofs`, for any methods, filters, events, clock and depth, where the CLR reports
exceptions (`MonitorExceptions`) and no method called by a handler throws (`~NestedThrows`). The two
hypotheses leave out exactly the cases that the runs `unmonitored` and `nested_catch` show to break
the claims; `HandlerCalls` is free, so filters and finally blocks do call methods.

| Theorem | Argument |
|---|---|
| `ShadowMirrors` | `ShadowMirrorsRuntime` is not inductive: it does not say why the next unwind callback pops the right entry. `ShadowInv` adds that there is at most one dispatch, that the catcher's slot names the method at the catcher's position from the first pass to the end, and what the deferral can hold: the entry of the frame being unwound, or one of the same method above the catcher. The lemmas on `Rank` say how positions move when the topmost visible frame appears or goes |
| `DeltaTimes` | from `ShadowInv`: the entry on top is the top frame's, so its enter time is the right one |
| `CountsConserved` | `CountInv`: what is recorded of a method, is on the shadow stack or is held back, is every call made to it. Every handler moves one call from one summand to another, a deferral and its finalization included |
| `NestingBounded` | `AsyncNestingBounded` says nothing of the frame that is being unwound and has been taken off the count. `NestingInv` counts the visible activations only, and says which of them the first-enter time belongs to: none that began earlier is still counted |
| `InclusiveTimes`, `SelfTimes` | they speak of the moments between exceptions only. `ExactInv` says for every moment, as long as nothing irregular happened, what the tallies will be once what is held back is recorded (`Settled`), what the truth will be once the frame being unwound is gone (`Foreseen`), and that the two are equal; and that every entry's children time is its frame's, except for the time that one of the two sides has yet to credit (`Lag`) |

The lemmas behind the last three speak of any table of calls, with what a return and an unwind callback
have to add to it; the profiler's tallies are one such table, the analyzer's is the other.

`HotspotsProofs`, for any methods, filters, events, clock and depth, under the same two hypotheses.

| Theorem | Argument |
|---|---|
| `ReplayDepths` | `Follows` is inductive: an enter line is written exactly where an entry is pushed, a leave line where one is popped for good or the one held back is finalized. So the analyzer's stack is the shadow stack with what is held back on top |
| `ReplayCounts` | the leave lines report the calls that `CountInv` moves to the tallies, each under its own method: when the one held back is reported, it is of the catcher's method, which the line names |
| `ReplayTimes` | the analyzer computes self times from its own frames' children times. `InStep` says that these are the children times of the shadow's entries, for what is held back too, as long as nothing irregular happened; and `Measured` and `HeldFits` that there the profiler's clamp at 0 never acts, so that a difference without a clamp is the same. What the analyzer adds is then what the tallies would get |

`NdjsonWriterProofs`, for any set of threads, line lengths, buffer, limit and number of lines. It
assumes `WriterAssumption` (finitely many threads; lines of positive length; a rendered line fits
below the 80% mark) and `NoLineAssumption` (the marker for "no line" is not a line).

| Theorem | Argument |
|---|---|
| `TypeInvariant` | inductive; the lemmas on `WriteFile` and `AppendToBuffer` say what a failed write leaves |
| `BufferSafe` | each append either stays below the mark or starts a new buffer with one line |
| `OvershootSafe` | `OvershootBounded` is not inductive: when a thread appends, nothing in it says how many others are past the check. `LimitInv` adds that the count plus the lines in flight is at most the limit plus n - 1: a line is started only while the count is below the limit and at most n are in flight, appending one moves it from one summand to the other, dropping one only lowers the sum |
| `CountSafe` | `CountInv` adds that every line in flight is a counted one |
| `WriterComplete` | appending and flushing keep `file \o buffer = accepted` unless a write fails |
| `WriterImplementsLog` | step by step: `BeginCounted` stutters, an append is `Accept` or, when its drain fails, `Fail`, `Flush` is `Persist` or `Fail` |
| `FileOrdered` | `FileInOrder` speaks of the file only, which says nothing about the buffer it is written from. `OrderInv` adds that file and buffer together are in the order of acceptance, and `IdInv` that ids tell lines apart, in flight or accepted: a failed write then keeps a prefix, and an append adds a line that is new on both sides |

`StatsAggregatorProofs`, for any set of threads and keys, any intervals, with or without a
semaphore, failures and kills, and for any bounds on calls and signals. It assumes
`StatsAssumption` (the constants' types; every unresolved key is a key) and `NamesAssumption` (the
names of the two collectors and of "no one" are not threads).

| Theorem | Argument |
|---|---|
| `TypeInvariant` | inductive |
| `CollectionsExclude` | `ControlInv` ties the program counters together: the flush thread is collecting exactly in its flush phase, Shutdown exactly between its join and its last flush, and the join waits for the flush thread to end |
| `CallsKept`, `CallsNotRepeated` | neither is inductive. `RecordInv` adds that a thread in the middle of recording holds its lock and that the accumulator it read is still the one in its map, so that storing it back neither revives calls swapped out nor forgets one; `HandsInv` adds that a collector starts with empty hands. Then each step moves calls from one place to the next |
| `FlushDurable`, `ShutdownComplete` | `FlushInv` says how far the calls recorded before a collection began have come: while collecting they are merged, on a line, or in the maps of a thread the collector has yet to visit (every thread with calls is registered); while writing they are merged or on a line; afterwards they are in the file. It also needs that no line of a flush is buffered when the next collection begins, which is why a timer flush that finds nothing may skip the writer's flush |

`MethodCacheProofs`, for any threads, functions, methods, rules, failures and bounds. It assumes
`MethodCacheAssumption` (no function is `NoFunction`, the failures are known ones and resolution may
succeed), `NoInfoAssumption` (the mark of an absent entry is not an entry) and `NamesAssumption`
(every method is `WellNamed`, patterns are sequences of symbols).

| Theorem | Argument |
|---|---|
| `TypeInvariant` | inductive; every entry carries a decision (`DecisionIsBoolean`) |
| `RefinesDecisions` | only `Insert` changes the cache, and only where there is no entry: that is `Decide`; all else stutters |
| `StacksAligned` | `ShadowAligned` is not inductive: it does not say why the lookup on leave agrees with the one on enter. `HookInv` adds that the mapper answered by the entry that every later lookup finds, `RunInv` that code runs only after the mapper answered, so that unloading, which makes the answer void, meets no frame; `Growing` adds that depths grow along the stack, so that a push or a pop leaves the entries below alone. `PushAligned` and `PopAligned` are the two steps on one thread's pair of stacks |
| `NamesCorrect` | `MadeInv`: every entry, in the cache or about to be inserted, is what resolving some method under the configured rules gave. The rest is about names of any length: `TypeNames` and `AssemblyNames` say that cutting at the last separator undoes what joined the names, `AuthorNames` that the first `>` ends the author's name |
| `DecisionsDocumented` | from `MadeInv` and the lemmas on names; `GlobSimple` says that on the patterns `SimpleGlobMatch`'s comments describe its cases (`CodeMatches`) and the cuts of `GlobMatch` (`DocMatches`) come to the same: equal, a beginning, or an end |

`ProfilerLifecycleProofs`, for any set of environments and however long the program runs. It assumes
`ProfilerLifecycleAssumption` (`MaxTime` is a number).

| Theorem | Argument |
|---|---|
| `TypeInvariant` | `Shape`, which says more of the records than `TypeOK` does, is inductive |
| `FailedStartSafe` | `PhaseInv` says what is on in each phase: no session before `SetupEventMonitoring` has succeeded, no semaphore or thread before `StartFlushing` |
| `GcDurationsExact` | `GcInv` adds that the start kept is the innermost collection's as long as no other one ran inside it, and that an outer collection is known not to be alone |
| `EventsAllServed` | `AskedInv` says that what was asked for is what the configuration calls for; from it, `Sources` and `Needs` say that a callback runs exactly when an event that needs it is enabled. `Balance`: a happening adds to reports and to what is due alike. `ServeInv` adds that nothing is due before the CLR was asked, and that the shadow is as deep as the program while hooks are wanted and there is a slot for it (`HasStacks`), so that every site has a name |
| `StoppedSafe` | from `ServeInv`: the last flush moves what is pending to the file, and nothing is written after it |

`RunMergeProofs`, for any templates, pids and platforms and any numbers of runs, processes and lines.
It assumes `RunMergeAssumption`: no path has a star in it; a template has a directory, as a launch
makes it absolute, `{pid}` at most once, and in the file's name something beside it and separators
(a file called `{pid}` alone would be merged into one without a name); a session's id, six hexadecimal
digits in the code, and the pids are none of the marks.

| Theorem | Argument |
|---|---|
| `TypeInvariant` | the lemmas on names come first: with `{pid}` in the template, the merged path is shorter than every trace's and other pids give other paths; if it is in the file's name (`PidInFileName`), the pattern the tool searches with has the directory of every path the profiler makes of the template and matches its file's name (`OwnTraceFound`). One lemma per step then says what it does to files, processes and tool. `ProcessInv` says that a trace has the name its process was given until the tool, done, has renamed it, and that the name is gone only once the tool deletes |
| `TracesKept` | `TracesSafe` does not say where the lines are. `SafeInv` does: under the trace's own name as long as that exists, then in the merged trace; and if the trace has been read, in what the tool holds until it has written them. A process that opens its trace later truncates neither |
| `MergeComplete` | `CompleteInv` adds that while several traces are merged, those of all processes concerned are among them, by `OwnTraceFound`, where `{pid}` is not in a directory; with a template without `{pid}` the trace is the merged one already |
| `MergedLinesOnce` | `OnceInv`: traces other than the merged one share no line, and those not yet read none with what was read. A new line is on no file (`WrittenInv`) |

Every invariant that a passing run checks, the action properties and the refinements of
abstract specifications are stated by a theorem. Only model-checked: all liveness (temporal
reasoning with fairness is beyond the prover), and that the runs which expect a violation find one.
The library's induction rules take an operator, which the provers cannot instantiate: where an
induction over numbers was needed, `LeastNat` takes the least element of a set instead.

## 5. Not modelled, and the plan

* *Sessions.* Two commands that change one session file at the same time: the later save drops the
  earlier change, as each command loads and writes the whole file. Nothing in the documentation
  promises otherwise. What a half-written file does to a process that starts is in `RunMerge`.
* *Order of merged lines*, and the rewriting of the session's output path to an absolute one before
  a launch, which is taken as done.
* *Trace analysis* beyond hotspots: call tree, callers and the Speedscope export replay the same
  enter and leave lines on a stack; diff, trend, check, threads, memory, exceptions, summary and
  timeline count and format in one pass.
* *32-bit overflow* of the flush interval (above 49 days) and configuration members of the wrong
  JSON type, which throw out of `Initialize`.
* *POSIX semaphores that outlive a killed process*: the next process with its pid starts with
  signals pending, which cost one extra flush each.

Outside the project: telemetry and the update check (best-effort network I/O), exporters and the
remaining analyzers (one pass, formatting), COM activation, the platform wrappers beyond the waits
and semaphores the aggregator uses, generated and vendored code.
