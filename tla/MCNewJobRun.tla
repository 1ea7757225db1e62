---------------------------- MODULE MCNewJobRun ----------------------------
(* NewJobRun with a harmless streamed job and a destructive remote one,    *)
(* two runs, so that what a cancelled run leaves behind meets the next     *)
(* one, and two submissions, so that an answer may be lost and retried.    *)
EXTENDS NewJobRun
=============================================================================
