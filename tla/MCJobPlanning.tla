----------------------------- MODULE MCJobPlanning -----------------------------
(* Instances of JobPlanning for TLC. *)
EXTENDS JobPlanning, TLC

Desktop ==
  [online |-> TRUE, kind |-> "desktop-worker", paused |-> FALSE, busy |-> FALSE, ready |-> TRUE,
   supports |-> TRUE, loaded |-> TRUE, memory |-> 150, spare |-> 100, throughput |-> 40, latency |-> 5,
   rpc |-> TRUE, offered |-> 61, canHead |-> TRUE]

\* A strong desktop, a laptop too small for the model, a tablet that serves part
\* of it from afar, a slow browser, a cold desktop and one whose owner has paused.
ReadingSet ==
  {Desktop,
   [Desktop EXCEPT !.memory = 80, !.offered = 54, !.latency = 5, !.canHead = FALSE],
   [Desktop EXCEPT !.ready = FALSE, !.offered = 38, !.latency = 80],
   [Desktop EXCEPT !.kind = "browser-contributor", !.throughput = 5, !.latency = 60, !.rpc = FALSE],
   [Desktop EXCEPT !.loaded = FALSE, !.busy = TRUE, !.spare = 60, !.offered = 77],
   [Desktop EXCEPT !.paused = TRUE]}

NodeSet == 1..3
RequestSet ==
  [kind : {"batch"}, items : {1, 2, 5}, policy : Policies]
    \cup [kind : {"chat"}, items : {0}, policy : {"adaptive", "round-robin"}]
=============================================================================
