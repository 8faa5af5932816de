---------------------------- MODULE RunLifecycle ----------------------------
(***************************************************************************)
(* What one asynchronous run promises to whoever watches it: a status that *)
(* only moves forward, and an event log that only grows, in the order of   *)
(* its ids, and is frozen from the moment the status is terminal.  RunBus  *)
(* is shown to implement this specification.                               *)
(***************************************************************************)
EXTENDS Naturals, Sequences

CONSTANT Calls  \* the places that record an event; "fail" explains a failure

VARIABLES
  status,       \* what the run's record says of it; "absent" before it exists
  log           \* the events recorded so far: [id, call] records

vars == <<status, log>>

Terminal == {"succeeded", "failed"}
Live     == {"queued", "running"}
Status   == {"absent"} \union Live \union Terminal

(* An event may follow those of log s when its id is above all of theirs.  *)
Follows(e, s) == \A i \in 1..Len(s) : s[i].id < e.id

Explained(s) == Len(s) > 0 /\ s[Len(s)].call = "fail"

Init == status = "absent" /\ log = <<>>

Accept == status = "absent" /\ status' = "queued" /\ UNCHANGED log

Begin == status = "queued" /\ status' = "running" /\ UNCHANGED log

(* The log gains one event, above all the others.                          *)
Record ==
  /\ status \in Live
  /\ LET last == Len(log) + 1
     IN  /\ Len(log') = last
         /\ log' = Append(log, log'[last])
         /\ log'[last] \in [id : Nat, call : Calls]
         /\ Follows(log'[last], log)
  /\ UNCHANGED status

End ==
  /\ status = "running"
  /\ status' \in Terminal
  /\ status' = "failed" => Explained(log)
  /\ UNCHANGED log

Next == Accept \/ Begin \/ Record \/ End

Spec == Init /\ [][Next]_vars
=============================================================================
