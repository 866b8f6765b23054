---------------------------- MODULE HttpsSwitch ----------------------------
(***************************************************************************)
(* What enabling and disabling HTTPS look like to a request: whether HTTPS *)
(* counts as on (e.httpsOn) and whether 443 is listened on (e.tlsSrv).     *)
(* Https implements it; Routing uses it.                                   *)
(***************************************************************************)
VARIABLES on, listening

vars == <<on, listening>>

Init == on = FALSE /\ listening = FALSE

\* startHTTPS, at the end of enabling or of a start with a CA, listens first.
Listen == ~on /\ ~listening /\ listening' = TRUE /\ UNCHANGED on

SwitchOn == ~on /\ listening /\ on' = TRUE /\ UNCHANGED listening

\* Disabling closes the listener first.  It may end there, with an error.
Close == on /\ listening /\ listening' = FALSE /\ UNCHANGED on

SwitchOff == on /\ ~listening /\ on' = FALSE /\ UNCHANGED listening

Kill == on' = FALSE /\ listening' = FALSE

Next == Listen \/ SwitchOn \/ Close \/ SwitchOff \/ Kill

Spec == Init /\ [][Next]_vars

=============================================================================
