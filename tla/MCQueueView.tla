---------------------------- MODULE MCQueueView ----------------------------
(* QueueView on two or three jobs, a cap of at most two and one stop: jobs *)
(* start together, one is left behind, a refused one makes pump() nest,    *)
(* and a queue is restored, possibly with other path verdicts than the     *)
(* ones it was saved under.                                                *)
EXTENDS QueueView

MCMaxParallelJobs == 2
=============================================================================
