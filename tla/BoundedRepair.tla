---------------------------- MODULE BoundedRepair ----------------------------
(***************************************************************************)
(* What a generator of sources promises each of its callers: a draft is    *)
(* judged before it is delivered, it is revised at most MaxRepairs times   *)
(* and only after it was rejected, and the work ends.  SampleApp and       *)
(* FilePlan (the sources of an application) and InfraApply (an install     *)
(* script) are shown to implement it.                                      *)
(***************************************************************************)
EXTENDS Naturals

CONSTANTS Runs, MaxRepairs

VARIABLES
  stage,    \* where the draft of each run stands
  rounds    \* its revisions so far

vars == <<stage, rounds>>

Final == {"delivered", "failed", "skipped"}

Init == stage = [r \in Runs |-> "draft"] /\ rounds = [r \in Runs |-> 0]

Move(r, from, to) ==
  /\ stage[r] \in from
  /\ stage' = [stage EXCEPT ![r] = to]

(* Nothing was asked for.                                                  *)
Skip(r) == rounds[r] = 0 /\ Move(r, {"draft"}, "skipped") /\ UNCHANGED rounds

Approve(r) == Move(r, {"draft"}, "approved") /\ UNCHANGED rounds

(* A draft may be rejected by its judge, and an approved one by the tools  *)
(* that build it.                                                          *)
Reject(r) ==
  /\ rounds[r] < MaxRepairs
  /\ Move(r, {"draft", "approved"}, "rejected")
  /\ UNCHANGED rounds

Revise(r) ==
  /\ Move(r, {"rejected"}, "draft")
  /\ rounds' = [rounds EXCEPT ![r] = @ + 1]

Deliver(r) == Move(r, {"approved"}, "delivered") /\ UNCHANGED rounds

Fail(r) == Move(r, {"draft", "approved", "rejected"}, "failed") /\ UNCHANGED rounds

Step(r) == \/ Skip(r) \/ Approve(r) \/ Reject(r) \/ Revise(r) \/ Deliver(r)
           \/ Fail(r)

Next == \E r \in Runs : Step(r)

Safety == Init /\ [][Next]_vars

Spec == Safety /\ \A r \in Runs : WF_vars(Step(r))
=============================================================================
