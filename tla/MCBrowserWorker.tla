---------------------------- MODULE MCBrowserWorker ----------------------------
(* Instances of BrowserWorker for TLC. *)
EXTENDS BrowserWorker, TLC

CONSTANTS r1, r2, r3, t1, t2, small, large

\* The first task is assigned twice; the second names another model.
Task == (r1 :> t1) @@ (r2 :> t1) @@ (r3 :> t2)
Named == (r1 :> small) @@ (r2 :> small) @@ (r3 :> large)

=============================================================================
