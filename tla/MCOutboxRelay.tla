---------------------------- MODULE MCOutboxRelay ----------------------------
(***************************************************************************)
(* Model of OutboxRelay for TLC: two relays and a row only the second can  *)
(* prepare, since a newer deploy wrote it.                                 *)
(***************************************************************************)
EXTENDS OutboxRelay, TLC

CONSTANTS good, ahead, old, new

OldAndNew == (old :> {good}) @@ (new :> {good, ahead})
=============================================================================
