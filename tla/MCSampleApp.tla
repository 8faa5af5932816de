----------------------------- MODULE MCSampleApp -----------------------------
(* Finite instances of SampleApp for TLC.                                  *)
EXTENDS SampleApp, TLC

CONSTANTS r1, r2, pom, controller, service

OneRun   == {r1}
TwoRuns  == {r1, r2}
TwoFiles   == {pom, controller}
ThreeFiles == {pom, controller, service}
OneFile    == {controller}
OneTemplate == {pom}
NoTemplate  == {}

GoodOrFlawed == {"good", "flawed"}

(* For invariants only.                                                     *)
EitherRun == Permutations(TwoRuns)
=============================================================================
