------------------------- MODULE BoundedRepairProofs -------------------------
(***************************************************************************)
(* What BoundedRepair itself guarantees, and so whatever implements it: a  *)
(* run makes at most 3 * MaxRepairs + 3 moves, whatever its judges say,    *)
(* and what was delivered was approved by the step before.                 *)
(***************************************************************************)
EXTENDS BoundedRepair, Integers, TLAPS

Stages == {"draft", "approved", "rejected"} \union Final

(* How far a stage is from the end of its round.                           *)
Distance == [s \in Stages |-> CASE s = "draft"    -> 3
                                [] s = "approved" -> 2
                                [] s = "rejected" -> 1
                                [] OTHER          -> 0]

(* The moves run r has left: 3 for each round it may still take, and those *)
(* of the round it is in.  A final stage leaves none.                      *)
MovesLeft(r) ==
  IF stage[r] \in Final THEN 0
  ELSE 3 * (MaxRepairs - rounds[r]) + Distance[stage[r]]

(* Nobody rejects a draft there is no round left for.                      *)
RoundsInv ==
  /\ stage \in [Runs -> Stages]
  /\ rounds \in [Runs -> 0..MaxRepairs]
  /\ \A r \in Runs : stage[r] = "rejected" => rounds[r] < MaxRepairs

LEMMA RoundsInit == MaxRepairs \in Nat /\ Init => RoundsInv
BY DEF Init, RoundsInv, Stages

LEMMA RoundsStep ==
  ASSUME MaxRepairs \in Nat, RoundsInv, [Next]_vars
  PROVE  RoundsInv'
<1> USE DEF RoundsInv, Stages, Final, Move
<1>1. CASE UNCHANGED vars
  BY <1>1 DEF vars
<1>2. ASSUME NEW r \in Runs, Step(r) PROVE RoundsInv'
  <2>1. CASE Skip(r)
    BY <2>1 DEF Skip
  <2>2. CASE Approve(r)
    BY <2>2 DEF Approve
  <2>3. CASE Reject(r)
    BY <2>3 DEF Reject
  <2>4. CASE Revise(r)
    BY <2>4 DEF Revise
  <2>5. CASE Deliver(r)
    BY <2>5 DEF Deliver
  <2>6. CASE Fail(r)
    BY <2>6 DEF Fail
  <2> QED
    BY <1>2, <2>1, <2>2, <2>3, <2>4, <2>5, <2>6 DEF Step
<1> QED
  BY <1>1, <1>2 DEF Next

(* Every round a caller pays for is one the budget allows.                 *)
THEOREM RoundsBounded == MaxRepairs \in Nat => (Safety => []RoundsInv)
<1> SUFFICES ASSUME MaxRepairs \in Nat
             PROVE  Safety => []RoundsInv
  OBVIOUS
<1> QED
  BY RoundsInit, RoundsStep, PTL DEF Safety

------------------------------------------------------------------------------
(* The end is near.                                                        *)

LEMMA MovesAreCounted ==
  ASSUME MaxRepairs \in Nat, RoundsInv, NEW r \in Runs
  PROVE  MovesLeft(r) \in 0..(3 * MaxRepairs + 3)
<1>1. stage[r] \in Stages /\ rounds[r] \in 0..MaxRepairs
  BY DEF RoundsInv
<1>2. Distance[stage[r]] \in 0..3
  BY <1>1 DEF Distance, Stages, Final
<1> QED
  BY <1>1, <1>2 DEF MovesLeft

(* A step takes one move at least from the run that makes it, and nothing  *)
(* from the others.                                                        *)
Progress ==
  \A r \in Runs : \/ UNCHANGED <<stage[r], rounds[r]>>
                  \/ MovesLeft(r)' < MovesLeft(r)

LEMMA OthersRest ==
  ASSUME RoundsInv, NEW r \in Runs, NEW from, NEW to, Move(r, from, to),
         rounds' = rounds \/ rounds' = [rounds EXCEPT ![r] = @ + 1],
         NEW q \in Runs \ {r}
  PROVE  UNCHANGED <<stage[q], rounds[q]>>
BY DEF RoundsInv, Move

LEMMA StepProgress ==
  ASSUME MaxRepairs \in Nat, RoundsInv, NEW r \in Runs, Step(r)
  PROVE  Progress
<1>1. ASSUME NEW q \in Runs \ {r} PROVE UNCHANGED <<stage[q], rounds[q]>>
  BY OthersRest DEF Step, Skip, Approve, Reject, Revise, Deliver, Fail
<1> DEFINE s == stage[r]
           n == rounds[r]
<1>2. s \in Stages /\ n \in 0..MaxRepairs
  BY DEF RoundsInv
<1>3. /\ stage' = [stage EXCEPT ![r] = stage'[r]]
      /\ rounds' = [rounds EXCEPT ![r] = rounds'[r]]
  BY DEF RoundsInv, Step, Skip, Approve, Reject, Revise, Deliver, Fail, Move
<1>4. /\ Distance["draft"] = 3
      /\ Distance["approved"] = 2
      /\ Distance["rejected"] = 1
  BY DEF Distance, Stages
<1>5. MovesLeft(r)' < MovesLeft(r)
  <2> USE DEF RoundsInv, MovesLeft, Move, Final
  <2>1. CASE Skip(r)
    BY <1>2, <1>4, <2>1 DEF Skip
  <2>2. CASE Approve(r)
    BY <1>2, <1>4, <2>2 DEF Approve
  <2>3. CASE Reject(r)
    BY <1>2, <1>4, <2>3 DEF Reject
  <2>4. CASE Revise(r)
    BY <1>2, <1>4, <2>4 DEF Revise
  <2>5. CASE Deliver(r)
    BY <1>2, <1>4, <2>5 DEF Deliver
  <2>6. CASE Fail(r)
    BY <1>2, <1>4, <2>6 DEF Fail
  <2> QED
    BY <2>1, <2>2, <2>3, <2>4, <2>5, <2>6 DEF Step
<1> QED
  BY <1>1, <1>5 DEF Progress

(* The repair loop of a run ends: MovesLeft is a natural number, at most   *)
(* 3 * MaxRepairs + 3, that every move of the run lowers.  Fairness only   *)
(* has to say that the run moves.                                          *)
THEOREM RepairsRunOut ==
  MaxRepairs \in Nat =>
    (Safety => [][/\ \A r \in Runs : MovesLeft(r) \in 0..(3 * MaxRepairs + 3)
                  /\ Progress]_<<stage, rounds>>)
<1> SUFFICES ASSUME MaxRepairs \in Nat
             PROVE  Safety => [][/\ \A r \in Runs :
                                      MovesLeft(r) \in 0..(3 * MaxRepairs + 3)
                                 /\ Progress]_<<stage, rounds>>
  OBVIOUS
<1>1. RoundsInv /\ [Next]_vars =>
        [/\ \A r \in Runs : MovesLeft(r) \in 0..(3 * MaxRepairs + 3)
         /\ Progress]_<<stage, rounds>>
  BY MovesAreCounted, StepProgress DEF Next, vars
<1> QED
  BY <1>1, RoundsBounded, PTL DEF Safety

------------------------------------------------------------------------------
(* How a run may end.                                                      *)

(* A stage once final stays, and only an approved draft is delivered.      *)
Verdicts ==
  \A r \in Runs :
    /\ stage[r] \in Final => UNCHANGED <<stage[r], rounds[r]>>
    /\ stage'[r] = "delivered" => stage[r] \in {"approved", "delivered"}
    /\ rounds'[r] # rounds[r] => stage[r] = "rejected"

(* What was delivered, given up or skipped is never taken up again; what   *)
(* is delivered was approved last, and what is revised was rejected.       *)
THEOREM VerdictsHold == MaxRepairs \in Nat => (Safety => [][Verdicts]_vars)
<1> SUFFICES ASSUME MaxRepairs \in Nat
             PROVE  Safety => [][Verdicts]_vars
  OBVIOUS
<1>1. RoundsInv /\ [Next]_vars => [Verdicts]_vars
  <2> SUFFICES ASSUME RoundsInv, NEW r \in Runs, Step(r)
               PROVE  Verdicts
    BY DEF Next
  <2>1. ASSUME NEW q \in Runs \ {r} PROVE UNCHANGED <<stage[q], rounds[q]>>
    BY OthersRest DEF Step, Skip, Approve, Reject, Revise, Deliver, Fail
  <2>2. /\ stage[r] \notin Final
        /\ stage'[r] = "delivered" => stage[r] \in {"approved", "delivered"}
        /\ rounds'[r] # rounds[r] => stage[r] = "rejected"
    BY DEF RoundsInv, Step, Skip, Approve, Reject, Revise, Deliver, Fail, Move, Final
  <2> QED
    BY <2>1, <2>2 DEF Verdicts
<1> QED
  BY <1>1, RoundsBounded, PTL DEF Safety
=============================================================================
