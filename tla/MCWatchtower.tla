----------------------------- MODULE MCWatchtower -----------------------------
(* Small instances of Watchtower for TLC. *)
EXTENDS Watchtower

==============================================================================
