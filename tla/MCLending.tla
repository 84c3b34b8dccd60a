------------------------------- MODULE MCLending -------------------------------
(* Instances of Lending for TLC. *)
EXTENDS Lending, TLC

Idle == [ready |-> TRUE, owner |-> "idle", memory |-> "free", heat |-> "cool", power |-> "mains"]

\* The owner is away, or works on a warm machine.
Readings ==
  {Idle, [Idle EXCEPT !.owner = "working", !.heat = "warm"]}

=============================================================================
