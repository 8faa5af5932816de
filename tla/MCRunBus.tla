------------------------------ MODULE MCRunBus ------------------------------
(* Finite instances of RunBus for TLC.                                     *)
EXTENDS RunBus, TLC

CONSTANTS api, w1, w2

TwoWorkers == {w1, w2}
Refusals   == {"refused"}
Exceptions == {"refused", "lostReply", "republished"}

(* For invariants only.                                                     *)
EitherSlot == Permutations(TwoWorkers)
=============================================================================
