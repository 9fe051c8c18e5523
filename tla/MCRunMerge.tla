------------------------------ MODULE MCRunMerge ------------------------------
(***************************************************************************)
(* Small instances of RunMerge.  The templates: the default one, one with  *)
(* no separator, whose merged trace the pattern matches as well, one with  *)
(* the pid first, one without it, and one with a directory for each pid.   *)
(***************************************************************************)
EXTENDS RunMerge, TLC

MCTemplates ==
  {Defaults.outputPath,
   <<"traces", "/", SessionToken, PidToken>>,
   <<"traces", "/", PidToken, "-", SessionToken>>,
   <<"traces", "/", SessionToken, ".ndjson">>,
   <<"traces", "/", PidToken, "/", SessionToken, ".ndjson">>}

Symmetry == Permutations(Pids)

MCTemplate == {Defaults.outputPath}
=============================================================================
