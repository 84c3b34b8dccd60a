---------------------------- MODULE MCJobManager ----------------------------
(* Instances of JobManager for TLC. *)
EXTENDS JobManager

MCBatch == <<2>>          \* one job of two items
MCTwoJobs == <<2, 1>>     \* a batch, then a chat turn
MCChat == <<1>>
MCThree == <<3>>
MCTwoBatches == <<2, 2>>

=============================================================================
