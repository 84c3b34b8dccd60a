----------------------------- MODULE MCClientView -----------------------------
(* Instances of ClientView for TLC. *)
EXTENDS ClientView, TLC

CONSTANTS lan, local, adaptive, fastest

HostSet == {lan, local}
SettingSet == {adaptive, fastest}
=============================================================================
