---------------------------- MODULE ConfigReader ----------------------------
(***************************************************************************)
(* ConfigReader::Load: what the profiler reads from its environment and    *)
(* from the session file METREJA_CONFIG names.  A path is a sequence of    *)
(* tokens: two are placeholders, "/" is the separator of directories.  An  *)
(* environment is a record:                                                *)
(*   file    what opening and parsing METREJA_CONFIG comes to: "unset",    *)
(*           "unopened", "malformed" or "parsed";                          *)
(*   doc     the members of a parsed document, any of which may be missing;*)
(*   session, output   METREJA_SESSION_ID and METREJA_OUTPUT.              *)
(* A member of the wrong JSON type throws out of Load and is left out.     *)
(***************************************************************************)
EXTENDS Naturals, Sequences

CONSTANTS Unset, TooLong   \* variables not set, and longer than the buffer

EventType ==
  {"enter", "leave", "exception", "gc_start", "gc_end", "alloc_by_class",
   "method_stats", "exception_stats", "contention_start", "contention_end",
   "gc_heap_stats"}

SessionToken == "{sessionId}"
PidToken == "{pid}"

\* struct ProfilerConfig's initializers.
Defaults ==
  [sessionId |-> "", scenario |-> "",
   outputPath |-> <<".metreja", "/", "output", "/", SessionToken, "_", PidToken, ".ndjson">>,
   maxEvents |-> 0, computeDeltas |-> TRUE, disableInlining |-> FALSE,
   disableOptimizations |-> FALSE, events |-> {}, statsFlushIntervalSeconds |-> 30,
   includes |-> <<>>, excludes |-> <<>>]

RuleDefaults == [level |-> "assembly", pattern |-> <<"*">>]

Present(doc, defaults) ==
  [f \in DOMAIN defaults |-> IF f \in DOMAIN doc THEN doc[f] ELSE defaults[f]]

parseRules(items) == [i \in DOMAIN items |-> Present(items[i], RuleDefaults)]

\* Mutation: names that are no event type are kept.
ParseKeepsUnknown(doc) ==
  LET read == Present(doc, Defaults)
  IN  [read EXCEPT !.includes = parseRules(@), !.excludes = parseRules(@)]

\* Entries of "events" that name no event type are skipped.
Parse(doc) ==
  LET read == Present(doc, Defaults)
  IN  [read EXCEPT !.events = @ \cap EventType,
                   !.includes = parseRules(@),
                   !.excludes = parseRules(@)]

Replace(path, token, value) ==
  [i \in DOMAIN path |-> IF path[i] = token THEN value ELSE path[i]]

ExpandPlaceholders(path, sessionId, pid) ==
  Replace(Replace(path, SessionToken, sessionId), PidToken, pid)

GetEnvVar(value, otherwise) == IF value \in {Unset, TooLong} THEN otherwise ELSE value

\* The early returns leave every default as it is: no override is looked at
\* and no placeholder is expanded.
Load(env, pid) ==
  IF env.file # "parsed"
  THEN Defaults
  ELSE LET config == Parse(env.doc)
           sessionId == GetEnvVar(env.session, config.sessionId)
           output == GetEnvVar(env.output, config.outputPath)
       IN  [config EXCEPT !.sessionId = sessionId,
                          !.outputPath = ExpandPlaceholders(output, sessionId, pid)]
=============================================================================
