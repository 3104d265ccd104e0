---------------------------- MODULE MCRequestSteps ----------------------------
(* Instances of RequestSteps for TLC; steps.cfg gives the bounds. *)
EXTENDS RequestSteps

=============================================================================
