---------------------------- MODULE MCWorkerRuntime ----------------------------
(* Instances of WorkerRuntime for TLC. *)
EXTENDS WorkerRuntime, TLC

CONSTANTS t1, t2, r1, r2, r3, small, split, large

\* Two configurations of one model, over different peers, and one of another model.
ModelOf == (small :> "one") @@ (split :> "one") @@ (large :> "two")

=============================================================================
