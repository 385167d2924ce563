---------------------------- MODULE MCMemorySync ----------------------------
(***************************************************************************)
(* Winpc tries its peer and then the relay; the peer has only the relay    *)
(* configured, the other candidates are absent there.                      *)
(***************************************************************************)
EXTENDS MemorySync

CONSTANT Mac

MCCandidates == (Winpc :> <<Mac, Relay>>) @@ (Mac :> <<Relay>>)
=============================================================================
