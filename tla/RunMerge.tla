------------------------------- MODULE RunMerge -------------------------------
(***************************************************************************)
(* `metreja run`: it launches a program, whose processes each write a      *)
(* trace to the path their profiler reads from the session file, waits for *)
(* the first of them, merges the traces it then finds and deletes them.    *)
(* Detached, it does not wait; the traces may be merged by `metreja merge'.*)
(* Runs of one session follow each other in one directory.  The processes  *)
(* and the file system are external.  A trace is the bag of its whole      *)
(* lines: a line torn by a kill is no JSON, which the merge skips.  A path *)
(* is a sequence of tokens, as in ConfigReader; a star in it stands for    *)
(* any tokens, as in MethodFilters' GlobMatch.                             *)
(***************************************************************************)
EXTENDS ConfigReader, SequencesExt, Bags

Filters == INSTANCE MethodFilters

CONSTANTS
  Templates,      \* output paths a session may have
  Session,        \* its id
  Pids,
  Platforms,      \* "posix": open files can be read, renamed and deleted by others
  MaxRuns, MaxProcesses, MaxLines   \* bounds; the last two within a run

VARIABLES
  setting,        \* the session's output path and the platform
  files,          \* the traces on disk: path -> bag of lines
  run,            \* number of runs started
  procs,          \* the processes of the latest run, the first one its root
  tool            \* where the tool is in it

vars == <<setting, files, run, procs, tool>>

\* A launch makes the output path absolute (RunCommand.cs 59).  It has no star,
\* at most one {pid}, and a file name with something beside {pid} and separators.
ASSUME RunMergeAssumption ==
  /\ MaxRuns \in Nat /\ MaxProcesses \in Nat /\ MaxLines \in Nat
  /\ Platforms \subseteq {"posix", "windows"}
  /\ Templates \subseteq Seq(STRING \ {"*"})
  /\ \A path \in Templates :
       /\ \A i, j \in DOMAIN path : path[i] = PidToken /\ path[j] = PidToken => i = j
       /\ "/" \in Range(path)
       /\ \E i \in DOMAIN path :
            /\ path[i] \notin {PidToken, "_", "-", "/"}
            /\ \A j \in DOMAIN path : path[j] = "/" => j < i
  /\ Session \in STRING \ {"*", "/", "_", "-", SessionToken, PidToken}
  /\ PidToken \notin Pids /\ "/" \notin Pids

template == setting.template
Posix == setting.platform = "posix"

-----------------------------------------------------------------------------
(* NdjsonMerger: names.                                                    *)

\* {pid} goes, with a separator before it or else one after it.
WithoutPid(path) ==
  LET at == SelectInSeq(path, LAMBDA token : token = PidToken)
      separates(i) == i \in DOMAIN path /\ path[i] \in {"_", "-"}
      from == IF separates(at - 1) THEN at - 1 ELSE at
      to == IF separates(at + 1) /\ from = at THEN at + 1 ELSE at
  IN  IF at = 0 THEN path
      ELSE SubSeq(path, 1, from - 1) \o SubSeq(path, to + 1, Len(path))

ComputeMergedPath == WithoutPid(Replace(template, SessionToken, Session))

\* Mutation: the session's placeholder stays.
GlobUnexpanded == Replace(template, PidToken, "*")

Glob == Replace(Replace(template, SessionToken, Session), PidToken, "*")

DirectoryOf(path) == SubSeq(path, 1, Filters!LastIndexOf(path, "/"))
FileNameOf(path) == SubSeq(path, Filters!LastIndexOf(path, "/") + 1, Len(path))

\* Mutation: an earlier merged trace is taken for one of the traces.
FindMergedToo ==
  LET directory == DirectoryOf(Glob)
      filePattern == FileNameOf(Glob)
  IN  {path \in DOMAIN files :
         /\ directory # <<>> /\ DirectoryOf(path) = directory
         /\ Filters!GlobMatch(filePattern, FileNameOf(path))}

\* Only the name of the file is a pattern: no directory is called "*".  A
\* directory that does not exist has no files.
FindSessionOutputFiles ==
  LET directory == DirectoryOf(Glob)
      filePattern == FileNameOf(Glob)
      mergedPath == ComputeMergedPath
  IN  {path \in DOMAIN files :
         /\ directory # <<>> /\ DirectoryOf(path) = directory
         /\ path # mergedPath
         /\ Filters!GlobMatch(filePattern, FileNameOf(path))}

-----------------------------------------------------------------------------
(* The processes and their profilers.                                      *)

Live == {i \in DOMAIN procs : procs[i].state # "ended"}
Opened == {i \in DOMAIN procs : procs[i].path # <<>>}
IsOpen(path) == \E i \in Live : procs[i].path = path /\ procs[i].linked

\* outlives: the process is not over when the tool looks for traces.
NewProcess(pid, file) ==
  [pid |-> pid, file |-> file, state |-> "started", path |-> <<>>, linked |-> FALSE,
   lines |-> 0, outlives |-> tool.listed]

FreePids == Pids \ {procs[i].pid : i \in Live}

\* A session file that another command is rewriting is malformed.
SessionFile == {"parsed", "malformed"}

SpawnChild ==
  /\ Live # {} /\ Len(procs) < MaxProcesses
  /\ \E pid \in FreePids, file \in SessionFile :
       procs' = Append(procs, NewProcess(pid, file))
  /\ UNCHANGED <<setting, files, run, tool>>

\* The profiler loads its configuration and creates or truncates its trace.
OutputPath(i) ==
  Load([file |-> procs[i].file, session |-> Unset, output |-> Unset,
        doc |-> [sessionId |-> Session, outputPath |-> template]], procs[i].pid).outputPath

Truncate(path) ==
  files' = [p \in DOMAIN files \cup {path} |-> IF p = path THEN EmptyBag ELSE files[p]]

OpenTrace(i) ==
  /\ procs[i].state = "started"
  /\ Posix \/ ~IsOpen(OutputPath(i))
  /\ procs' = [procs EXCEPT ![i].state = "writing", ![i].path = OutputPath(i),
                            ![i].linked = TRUE]
  /\ Truncate(OutputPath(i))
  /\ UNCHANGED <<setting, run, tool>>

\* A line of a trace whose name is gone is nobody's.
WriteLine(i) ==
  /\ procs[i].state = "writing" /\ procs[i].lines < MaxLines
  /\ procs' = [procs EXCEPT ![i].lines = @ + 1]
  /\ files' = IF procs[i].linked
              THEN [files EXCEPT ![procs[i].path] =
                      @ (+) SetToBag({<<run, i, procs[i].lines + 1>>})]
              ELSE files
  /\ UNCHANGED <<setting, run, tool>>

End(i) ==
  /\ procs[i].state # "ended"
  /\ procs' = [procs EXCEPT ![i].state = "ended"]
  /\ UNCHANGED <<setting, files, run, tool>>

-----------------------------------------------------------------------------
(* RunCommand.                                                             *)

\* In a phase in which RunCommand holds no names of traces and no lines of them.
Idle(phase) ==
  [phase |-> phase, listed |-> phase \notin {"waiting", "detached"}, unread |-> {}, originals |-> {},
   events |-> EmptyBag]

\* Bound: the processes of the last run are over.
Launch(detach) ==
  /\ tool.phase \in {"idle", "detached", "done", "failed"}
  /\ run < MaxRuns /\ Live = {}
  /\ run' = run + 1
  /\ tool' = Idle(IF detach THEN "detached" ELSE "waiting")
  /\ \E pid \in Pids, file \in SessionFile :
       procs' = <<[NewProcess(pid, file) EXCEPT !.outlives = FALSE]>>
  /\ UNCHANGED <<setting, files>>

\* The root has exited, the other processes need not have: those traces that
\* exist by now are merged if there are several, and a single one is renamed.
MergeTraces ==
  /\ tool.phase = "waiting" /\ 1 \notin Live
  /\ LET found == FindSessionOutputFiles
         merged == ComputeMergedPath
         outliving == [i \in DOMAIN procs |-> [procs[i] EXCEPT !.outlives = i \in Live]]
     IN  \/ /\ Cardinality(found) > 1
            /\ tool' = [Idle("reading") EXCEPT !.unread = found, !.originals = found]
            /\ procs' = outliving
            /\ UNCHANGED files
         \/ /\ found = {}
            /\ tool' = Idle("done")
            /\ procs' = outliving
            /\ UNCHANGED files
         \/ \E path \in found :
              /\ found = {path}
              /\ Posix \/ ~IsOpen(path)
              /\ tool' = Idle("done")
              /\ files' = [p \in (DOMAIN files \ {path}) \cup {merged} |->
                             files[IF p = merged THEN path ELSE p]]
              /\ procs' = [i \in DOMAIN procs |->
                             IF procs[i].path = path
                             THEN [outliving[i] EXCEPT !.path = merged]
                             ELSE outliving[i]]
  /\ UNCHANGED <<setting, run>>

\* `metreja merge' of the traces a detached run has so far, under the name that
\* a run would give the merged one; the traces stay.
MergeCommand ==
  /\ tool.phase = "detached"
  /\ LET found == FindSessionOutputFiles
     IN  /\ found # {}
         /\ tool' = [Idle("detached") EXCEPT !.phase = "reading", !.unread = found]
  /\ UNCHANGED <<setting, files, run, procs>>

\* MergeFilesAsync: the traces are read one after the other.
ReadTrace ==
  /\ tool.phase = "reading"
  /\ \E path \in tool.unread :
       /\ Posix \/ ~IsOpen(path)
       /\ tool' = [tool EXCEPT !.unread = @ \ {path}, !.events = @ (+) files[path]]
  /\ UNCHANGED <<setting, files, run, procs>>

\* Mutation: the traces are deleted before the merged one is written.
TruncateMergedDeletesTraces ==
  /\ tool.phase = "reading" /\ tool.unread = {}
  /\ tool' = [tool EXCEPT !.phase = "writing"]
  /\ files' = [path \in (DOMAIN files \ tool.originals) \cup {ComputeMergedPath} |->
                 IF path = ComputeMergedPath THEN EmptyBag ELSE files[path]]
  /\ UNCHANGED <<setting, run, procs>>

\* WriteAllLinesAsync replaces what an earlier run merged.
TruncateMerged ==
  /\ tool.phase = "reading" /\ tool.unread = {}
  /\ tool' = [tool EXCEPT !.phase = "writing"]
  /\ Truncate(ComputeMergedPath)
  /\ UNCHANGED <<setting, run, procs>>

WriteMerged ==
  /\ tool.phase = "writing"
  /\ tool' = IF tool.originals = {} THEN Idle("detached")
             ELSE [tool EXCEPT !.phase = "deleting", !.events = EmptyBag]
  /\ files' = [files EXCEPT ![ComputeMergedPath] = tool.events]
  /\ UNCHANGED <<setting, run, procs>>

\* Mutation: processes keep a name that is gone.
UnlinkKeepsName(path) ==
  /\ files' = [p \in DOMAIN files \ {path} |-> files[p]]
  /\ UNCHANGED procs

Unlink(path) ==
  /\ files' = [p \in DOMAIN files \ {path} |-> files[p]]
  /\ procs' = [i \in DOMAIN procs |->
                 IF procs[i].path = path THEN [procs[i] EXCEPT !.linked = FALSE]
                 ELSE procs[i]]

\* A trace that cannot be deleted is left.
DeleteTrace ==
  /\ tool.phase = "deleting"
  /\ \E path \in tool.originals :
       /\ \/ (Posix \/ ~IsOpen(path)) /\ Unlink(path)
          \/ UNCHANGED <<files, procs>>
       /\ tool' = IF tool.originals = {path} THEN Idle("done")
                  ELSE [tool EXCEPT !.originals = @ \ {path}]
  /\ UNCHANGED <<setting, run>>

\* A cancellation, a kill or, once it merges, an exception, which is a warning.
Interrupt ==
  /\ tool.phase \notin {"idle", "detached", "done", "failed"}
  /\ tool' = [Idle("failed") EXCEPT !.listed = tool.listed]
  /\ UNCHANGED <<setting, files, run, procs>>

-----------------------------------------------------------------------------
Init ==
  /\ setting \in [template : Templates, platform : Platforms]
  /\ files = << >>
  /\ run = 0
  /\ procs = <<>>
  /\ tool = Idle("idle")

Next ==
  \/ \E detach \in BOOLEAN : Launch(detach)
  \/ MergeCommand \/ MergeTraces \/ ReadTrace \/ TruncateMerged \/ WriteMerged
  \/ DeleteTrace \/ Interrupt
  \/ SpawnChild
  \/ \E i \in DOMAIN procs : OpenTrace(i) \/ WriteLine(i) \/ End(i)

Spec == Init /\ [][Next]_vars

-----------------------------------------------------------------------------
(* Properties.                                                             *)

Lines(i) == {<<run, i, n>> : n \in 1..procs[i].lines}
OnDisk == UNION {BagToSet(files[path]) : path \in DOMAIN files}

\* No other process of the run was given the same pid, a path without {pid}
\* or, through a malformed session file, the default path as it stands.
HasOwnTrace(i) ==
  \A j \in Opened \ {i} :
    /\ procs[i].file = "parsed" /\ PidToken \in Range(template)
    /\ procs[j].pid # procs[i].pid

\* A process holds the name of its trace until the trace is deleted, and every
\* line on disk was written by a process of this or an earlier run.
TypeOK ==
  /\ setting \in [template : Templates, platform : Platforms] /\ run \in 0..MaxRuns
  /\ tool.phase \in {"idle", "detached", "waiting", "reading", "writing", "deleting", "done", "failed"}
  /\ \A path \in tool.unread \cup tool.originals :
       path \in DOMAIN files /\ path # ComputeMergedPath
  /\ \A i \in Opened : procs[i].linked => procs[i].path \in DOMAIN files
  /\ \A line \in OnDisk :
       \/ line[1] < run
       \/ line[1] = run /\ line[2] \in DOMAIN procs /\ line[3] <= procs[line[2]].lines

(* Whatever is interrupted and whatever an earlier run left: no line of a    *)
(* process of the latest run that was over when the tool looked for traces  *)
(* is lost (RunCommand.cs 140-175).  An earlier run's merged trace may be:  *)
(* a later one replaces it.                                                 *)
TracesSafe ==
  \A i \in Opened :
    HasOwnTrace(i) /\ ~procs[i].outlives => Lines(i) \subseteq OnDisk

(* A run that was not interrupted has all its ended processes' lines in the  *)
(* one merged trace: the names the profiler gives the traces are those the   *)
(* tool looks for (ConfigReader.cpp 11-33 and 159-161, NdjsonMerger.cs       *)
(* 48-93), where {pid} is in the file's name.  Where it names a directory,   *)
(* the profiler creates that directory and the tool looks for one called     *)
(* "*": it finds nothing, and the traces stay as they are.                   *)
MergedComplete ==
  tool.phase = "done" /\ PidToken \notin Range(DirectoryOf(template)) =>
    \A i \in Opened :
      HasOwnTrace(i) /\ ~procs[i].outlives /\ procs[i].file = "parsed" =>
        Lines(i) \subseteq IF ComputeMergedPath \in DOMAIN files
                          THEN BagToSet(files[ComputeMergedPath]) ELSE {}

(* No line is twice in the merged trace, although an interrupted run leaves  *)
(* its traces beside the merged one for the next (NdjsonMerger.cs 84-92).    *)
MergedOnce ==
  ComputeMergedPath \in DOMAIN files =>
    LET merged == files[ComputeMergedPath]
    IN  \A line \in BagToSet(merged) : merged[line] = 1

(* "they are automatically merged into a single file sorted by timestamp and *)
(* the per-PID files are deleted" (src/Metreja.Tool/README.md 307): no line  *)
(* of a run's processes is lost.                                             *)
NoLineDropped == \A i \in Opened : HasOwnTrace(i) => Lines(i) \subseteq OnDisk
=============================================================================
