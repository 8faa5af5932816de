----------------------------- MODULE MCRunStream ----------------------------
(* Finite instances of RunStream for TLC.                                  *)
EXTENDS RunStream

CONSTANTS api, w1, w2

OneWorker  == {w1}
NoFaults   == {}
Refusals   == {"refused"}
LostReply  == {"refused", "lostReply", "resent"}
=============================================================================
