------------------------------- MODULE MCServer -------------------------------
(* An instance of Server for TLC: one connection that is used twice, with    *)
(* bodies, and kept or not; and a second one, always kept, that competes     *)
(* with it for the thread.                                                   *)
EXTENDS Server

MCRequests == [c1 |-> 2, c2 |-> 1]
MCBody     == [c1 |-> 1, c2 |-> 0]
MCKeeps    == [c1 |-> BOOLEAN, c2 |-> {TRUE}]

=============================================================================
