------------------------------- MODULE RunBus -------------------------------
(***************************************************************************)
(* One asynchronous run of the supervisor, from POST /v1/supervisor/run-async *)
(* to its terminal status: the API handler (apps/supervisor_api.py), the    *)
(* Celery broker and workers (apps/celery_app.py, apps/supervisor_tasks.py) *)
(* and the run's keys in Redis (runtime_bus.py, written through             *)
(* eventing.py).  Every key holds the run's id, so runs do not interact.    *)
(*                                                                         *)
(* Redis executes one command at a time: a command is one step.  What the   *)
(* client sees of a command is an outcome of its own: an answer, or an      *)
(* exception, which may come after the command took effect (FaultKinds).    *)
(***************************************************************************)
EXTENDS Integers, Sequences, FiniteSets

CONSTANTS
  API,              \* the process of the HTTP handler
  Workers,          \* task slots of the Celery workers
  MaxEvents,        \* bound: no progress event once event_seq reached it
  FaultKinds,       \* what may happen to a Redis command, see Fault
  MaxFaults,        \* bound on commands that meet a fault
  MaxCrashes,       \* bound on worker crashes
  MaxRedeliveries   \* bound on tasks the broker hands out a second time

(* "refused":     the command did not reach Redis, the client raises;      *)
(* "lostReply":   it took effect, its reply is lost, the client raises;    *)
(* "resent":      it took effect, its reply is lost, and redis-py, which   *)
(*                retries by default, sends it again;                      *)
(* "republished": the same for the task message, which kombu publishes     *)
(*                again: the queue then holds it twice.                    *)
Fault == {"refused", "lostReply", "resent", "republished"}

ASSUME ProcAssumption  == API \notin Workers
ASSUME FaultAssumption == FaultKinds \subseteq Fault
ASSUME BoundAssumption == /\ MaxEvents \in Nat
                          /\ MaxFaults \in Nat
                          /\ MaxCrashes \in Nat
                          /\ MaxRedeliveries \in Nat

Procs == {API} \union Workers

VARIABLES
  job,          \* the hash supervisor:run:<id>
  log,          \* the list supervisor:run:<id>:events
  channel,      \* all that was published to supervisor:run:<id>:channel
  broker,       \* copies of the task message waiting in the Celery queue
  pc,           \* control point of each process
  call,         \* the call of append_event a process is in, or was in last
  eid,          \* event_id, the local variable of append_event
  faults, crashes, redeliveries       \* used up so far

store == <<job, log, channel>>
vars  == <<job, log, channel, broker, pc, call, eid, faults, crashes,
           redeliveries>>

Terminal == {"succeeded", "failed"}
Status   == {"absent", "queued", "running"} \union Terminal

(* append_event is called by the handler ("queue"), by the supervisor's    *)
(* event callback ("emit") and by the task's except branches ("fail").     *)
Calls  == {"queue", "emit", "fail"}
Events == [id : Nat, call : Calls]

Appending == {"incr", "push", "publish"}
Commands  == {"initialize", "delay", "start", "set_result", "set_failed"}
             \union Appending
Points    == Commands \union {"returned", "http500"}              \* handler
             \union {"idle", "reserved", "work", "except", "ended", "dead"}

Init ==
  /\ job = [status |-> "absent", event_seq |-> 0, result |-> FALSE,
            error |-> FALSE]
  /\ log = <<>>
  /\ channel = <<>>
  /\ broker = 0
  /\ pc = [p \in Procs |-> IF p = API THEN "initialize" ELSE "idle"]
  /\ call = [p \in Procs |-> IF p = API THEN "queue" ELSE "emit"]
  /\ eid = [p \in Procs |-> 0]
  /\ faults = 0
  /\ crashes = 0
  /\ redeliveries = 0

-----------------------------------------------------------------------------
(* Control.                                                                *)

At(p, point) == pc[p] = point
Goto(p, point) == pc' = [pc EXCEPT ![p] = point]

(* Mutant: the task ends after it logged its failure.                      *)
AfterAppend_NoVerdict(c) == CASE c = "queue" -> "delay"
                              [] c = "emit"  -> "work"
                              [] c = "fail"  -> "ended"

AfterAppend(c) == CASE c = "queue" -> "delay"
                    [] c = "emit"  -> "work"
                    [] c = "fail"  -> "set_failed"

(* Where an exception raised by the command p is at takes p.  emit_event   *)
(* swallows what the callback raises; the except branches of the task do   *)
(* not protect their own commands; the handler answers HTTP 500.           *)
AppendRaises(c) == CASE c = "queue" -> "http500"
                     [] c = "emit"  -> "work"
                     [] c = "fail"  -> "dead"

(* Mutant: the failure is logged for a run whose start could not be noted. *)
HandlerOf_StartProtected(p) ==
  CASE pc[p] \in {"initialize", "delay"} -> "http500"
    [] pc[p] \in Appending               -> AppendRaises(call[p])
    [] pc[p] \in {"start", "set_result"} -> "except"
    [] pc[p] = "set_failed"              -> "dead"

(* Mutant: a run whose failure could not be noted is tried again.          *)
HandlerOf_Retries(p) ==
  CASE pc[p] \in {"initialize", "delay"} -> "http500"
    [] pc[p] \in Appending               -> AppendRaises(call[p])
    [] pc[p] = "set_result"              -> "except"
    [] pc[p] = "start"                   -> "dead"
    [] pc[p] = "set_failed"              -> "work"

(* Mutant: append_event carries on when the list could not be written.     *)
HandlerOf_PublishAnyway(p) ==
  CASE pc[p] \in {"initialize", "delay"} -> "http500"
    [] pc[p] = "push"                    -> "publish"
    [] pc[p] \in {"incr", "publish"}     -> AppendRaises(call[p])
    [] pc[p] = "set_result"              -> "except"
    [] pc[p] \in {"start", "set_failed"} -> "dead"

HandlerOf(p) == CASE pc[p] \in {"initialize", "delay"} -> "http500"
                  [] pc[p] \in Appending               -> AppendRaises(call[p])
                  [] pc[p] = "set_result"              -> "except"
                  [] pc[p] \in {"start", "set_failed"} -> "dead"

Raise(p) == Goto(p, HandlerOf(p))

FaultOf(kind) ==
  /\ kind \in FaultKinds
  /\ faults < MaxFaults
  /\ faults' = faults + 1

(* The outcomes of a command that took effect.                             *)
Outcome(p, next) ==
  \/ Goto(p, next) /\ UNCHANGED faults
  \/ Raise(p) /\ FaultOf("lostReply")
  \/ UNCHANGED pc /\ FaultOf(IF At(p, "delay") THEN "republished" ELSE "resent")

Refused(p) ==
  /\ pc[p] \in Commands
  /\ Raise(p)
  /\ FaultOf("refused")
  /\ UNCHANGED <<store, broker, call, eid, crashes, redeliveries>>

-----------------------------------------------------------------------------
(* RunEventStore.                                                          *)

(* Mutant: the record is created without its counter.                      *)
InitializeRun_NoCounter(p) ==
  /\ At(p, "initialize")
  /\ job' = [status |-> "queued", result |-> FALSE, error |-> FALSE]
  /\ Outcome(p, "incr")
  /\ UNCHANGED <<log, channel, broker, call, eid, crashes, redeliveries>>

InitializeRun(p) ==
  /\ At(p, "initialize")
  /\ job' = [status |-> "queued", event_seq |-> 0, result |-> FALSE,
             error |-> FALSE]
  /\ Outcome(p, "incr")
  /\ UNCHANGED <<log, channel, broker, call, eid, crashes, redeliveries>>

(* Mutant: the id is the counter before the increment.                     *)
Incr_OldValue(p) ==
  /\ At(p, "incr")
  /\ job' = [job EXCEPT !.event_seq = @ + 1]
  /\ eid' = [eid EXCEPT ![p] = job.event_seq]
  /\ Outcome(p, "push")
  /\ UNCHANGED <<log, channel, broker, call, crashes, redeliveries>>

(* Mutant: the id is taken from the length of the list.                    *)
Incr_ByLength(p) ==
  /\ At(p, "incr")
  /\ eid' = [eid EXCEPT ![p] = Len(log) + 1]
  /\ Outcome(p, "push")
  /\ UNCHANGED <<store, broker, call, crashes, redeliveries>>

(* Mutant: an event is published without being stored.                     *)
Incr_SkipsList(p) ==
  /\ At(p, "incr")
  /\ job' = [job EXCEPT !.event_seq = @ + 1]
  /\ eid' = [eid EXCEPT ![p] = job.event_seq + 1]
  /\ Outcome(p, "publish")
  /\ UNCHANGED <<log, channel, broker, call, crashes, redeliveries>>

(* append_event: HINCRBY, then RPUSH, then PUBLISH.                        *)
Incr(p) ==
  /\ At(p, "incr")
  /\ job' = [job EXCEPT !.event_seq = @ + 1]
  /\ eid' = [eid EXCEPT ![p] = job.event_seq + 1]
  /\ Outcome(p, "push")
  /\ UNCHANGED <<log, channel, broker, call, crashes, redeliveries>>

EventOf(p) == [id |-> eid[p], call |-> call[p]]

Push(p) ==
  /\ At(p, "push")
  /\ log' = Append(log, EventOf(p))
  /\ Outcome(p, "publish")
  /\ UNCHANGED <<job, channel, broker, call, eid, crashes, redeliveries>>

Publish(p) ==
  /\ At(p, "publish")
  /\ channel' = Append(channel, EventOf(p))
  /\ Outcome(p, AfterAppend(call[p]))
  /\ UNCHANGED <<job, log, broker, call, eid, crashes, redeliveries>>

-----------------------------------------------------------------------------
(* The handler hands the task to the broker; a worker slot takes it.       *)

Delay(p) ==
  /\ At(p, "delay")
  /\ broker' = broker + 1
  /\ Outcome(p, "returned")
  /\ UNCHANGED <<store, call, eid, crashes, redeliveries>>

Local == <<store, call, eid, faults, crashes, redeliveries>>

(* A slot takes the next message when it has none: also after a task that   *)
(* ended, or that an exception took; a process that died is replaced.      *)
Free(w) == pc[w] \in {"idle", "ended", "dead"}

Reserve(w) ==
  /\ Free(w)
  /\ broker > 0
  /\ broker' = broker - 1
  /\ Goto(w, "reserved")
  /\ UNCHANGED Local

(* The message is acknowledged just before the task runs.                  *)
Acknowledge(w) ==
  /\ At(w, "reserved")
  /\ Goto(w, "start")
  /\ UNCHANGED <<Local, broker>>

(* Reserved longer than the broker's visibility timeout: handed out again. *)
Redeliver(w) ==
  /\ At(w, "reserved")
  /\ redeliveries < MaxRedeliveries
  /\ redeliveries' = redeliveries + 1
  /\ broker' = broker + 1
  /\ UNCHANGED <<store, pc, call, eid, faults, crashes>>

(* A slot that dies before the acknowledgement gives the message back; a   *)
(* task that was acknowledged is gone with it.                             *)
Crash(w) ==
  /\ ~Free(w)
  /\ crashes < MaxCrashes
  /\ crashes' = crashes + 1
  /\ IF At(w, "reserved")
     THEN Goto(w, "idle") /\ broker' = broker + 1
     ELSE Goto(w, "dead") /\ UNCHANGED broker
  /\ UNCHANGED <<store, call, eid, faults, redeliveries>>

-----------------------------------------------------------------------------
(* run_supervisor_task.                                                    *)

(* Mutant: the task initializes the record again.                          *)
Start_Reinitializes(w) ==
  /\ At(w, "start")
  /\ job' = [job EXCEPT !.status = "running", !.event_seq = 0]
  /\ Outcome(w, "work")
  /\ UNCHANGED <<log, channel, broker, call, eid, crashes, redeliveries>>

Start(w) ==
  /\ At(w, "start")
  /\ job' = [job EXCEPT !.status = "running"]
  /\ Outcome(w, "work")
  /\ UNCHANGED <<log, channel, broker, call, eid, crashes, redeliveries>>

Emit(w) ==
  /\ At(w, "work")
  /\ job.event_seq < MaxEvents
  /\ Goto(w, "incr")
  /\ call' = [call EXCEPT ![w] = "emit"]
  /\ UNCHANGED <<store, broker, eid, faults, crashes, redeliveries>>

AgentReturns(w) ==
  /\ At(w, "work")
  /\ Goto(w, "set_result")
  /\ UNCHANGED <<Local, broker>>

(* MissingInfoError or any other exception: both branches log first.       *)
AgentRaises(w) ==
  /\ At(w, "work")
  /\ Goto(w, "except")
  /\ UNCHANGED <<Local, broker>>

(* Mutant: the failure is noted without an event.                          *)
LogFailure_Silent(w) ==
  /\ At(w, "except")
  /\ Goto(w, "set_failed")
  /\ UNCHANGED <<Local, broker>>

LogFailure(w) ==
  /\ At(w, "except")
  /\ Goto(w, "incr")
  /\ call' = [call EXCEPT ![w] = "fail"]
  /\ UNCHANGED <<store, broker, eid, faults, crashes, redeliveries>>

(* Mutant: no return after the result is stored.                           *)
SetResult_FallsThrough(w) ==
  /\ At(w, "set_result")
  /\ job' = [job EXCEPT !.status = "succeeded", !.result = TRUE]
  /\ Outcome(w, "except")
  /\ UNCHANGED <<log, channel, broker, call, eid, crashes, redeliveries>>

SetResult(w) ==
  /\ At(w, "set_result")
  /\ job' = [job EXCEPT !.status = "succeeded", !.result = TRUE]
  /\ Outcome(w, "ended")
  /\ UNCHANGED <<log, channel, broker, call, eid, crashes, redeliveries>>

SetFailed(w) ==
  /\ At(w, "set_failed")
  /\ job' = [job EXCEPT !.status = "failed", !.error = TRUE]
  /\ Outcome(w, "ended")
  /\ UNCHANGED <<log, channel, broker, call, eid, crashes, redeliveries>>

-----------------------------------------------------------------------------
AppendEvent(p) == Incr(p) \/ Push(p) \/ Publish(p)

HandlerStep == InitializeRun(API) \/ AppendEvent(API) \/ Delay(API)

WorkerStep(w) ==
  \/ Reserve(w) \/ Acknowledge(w) \/ Start(w)
  \/ Emit(w) \/ AgentReturns(w) \/ AgentRaises(w)
  \/ LogFailure(w) \/ AppendEvent(w)
  \/ SetResult(w) \/ SetFailed(w)

Environment ==
  \/ \E p \in Procs : Refused(p)
  \/ \E w \in Workers : Redeliver(w) \/ Crash(w)

Next == HandlerStep \/ (\E w \in Workers : WorkerStep(w)) \/ Environment

Spec == Init /\ [][Next]_vars

(* A process goes on with the statement it is at; nothing makes a slot     *)
(* crash, a command fail or the broker hand a task out again.              *)
Fairness == WF_vars(HandlerStep) /\ \A w \in Workers : WF_vars(WorkerStep(w))

FairSpec == Spec /\ Fairness

-----------------------------------------------------------------------------
TypeOK ==
  /\ job \in [status : Status, event_seq : Nat, result : BOOLEAN,
              error : BOOLEAN]
  /\ log \in Seq(Events)
  /\ channel \in Seq(Events)
  /\ broker \in Nat
  /\ pc \in [Procs -> Points]
  /\ call \in [Procs -> Calls]
  /\ eid \in [Procs -> Nat]
  /\ faults \in 0..MaxFaults
  /\ crashes \in 0..MaxCrashes
  /\ redeliveries \in 0..MaxRedeliveries

(* The ids of the stored events grow along the list although append_event  *)
(* numbers an event and stores it in two commands (runtime_bus.py:61-65).  *)
(* LRANGE by event id and the filter behind it rely on that order.         *)
LogOrdered ==
  \A i, j \in 1..Len(log) : i < j => log[i].id < log[j].id

(* The id of an event is never below its place in the list: a replay that  *)
(* starts at list index after_event_id (runtime_bus.py:96,132) never goes  *)
(* back over an event the reader has, whatever appends failed.             *)
NeverBehindPosition == \A i \in 1..Len(log) : i <= log[i].id

(* Without a failed append the id of an event is its place in the list: a  *)
(* replay from after_event_id skips nothing (runtime_bus.py:96,132).       *)
IdIsPosition ==
  faults = 0 => \A i \in 1..Len(log) : log[i].id = i

(* No two stored events share an id, even while two slots run the same task *)
(* (runtime_bus.py:61).                                                    *)
UniqueIds ==
  \A i, j \in 1..Len(log) : i # j => log[i].id # log[j].id

(* Nothing is published that is not stored: a reader that comes back can   *)
(* find again whatever it was shown (runtime_bus.py:65-66).                *)
PublishedIsStored ==
  \A i \in 1..Len(channel) : \E j \in 1..Len(log) : log[j] = channel[i]

(* While the task is in the queue once: a run that is marked failed ends   *)
(* its log with the event that says why; readers that stop at the terminal *)
(* status have not missed it (supervisor_tasks.py:38-49,51-62).  A second  *)
(* execution adds its events behind it.                                    *)
FailureIsExplained ==
  job.status = "failed" => Len(log) > 0 /\ log[Len(log)].call = "fail"

(* A terminal record says one thing: a result if the run succeeded, an     *)
(* error if it failed, never both (runtime_bus.py:69-78).                  *)
VerdictIsConsistent ==
  /\ job.status = "succeeded" => job.result /\ ~job.error
  /\ job.status = "failed" => job.error /\ ~job.result

(* Once the status is terminal nothing about the run changes any more: no  *)
(* event follows, and the verdict stands (supervisor_tasks.py:29-62).  It  *)
(* is what lets stream_events stop at the status (runtime_bus.py:178-180). *)
TerminalIsFinal == [][job.status \in Terminal => UNCHANGED store]_store

(* With lost replies a success may still be recalled, once, as a failure:  *)
(* set_result raises after it took effect and the except branch marks the  *)
(* run failed.  A failure is never recalled (supervisor_tasks.py:31,50-62), *)
(* unless the task is in the queue twice: the second execution starts with *)
(* the status running, whatever the first came to (line 24).               *)
FailureStands == [][job.status = "failed" => job'.status = "failed"]_store

(* An accepted run reaches a terminal status unless its task died without  *)
(* a verdict: there is no retry and no late acknowledgement                *)
(* (celery_app.py:11).                                                     *)
EndsUnlessWorkerDied ==
  pc[API] = "returned" ~>
     job.status \in Terminal \/ \E w \in Workers : pc[w] = "dead"

(* RunLifecycle, what a watcher may rely on, seen in the hash and the list. *)
Lifecycle == INSTANCE RunLifecycle WITH status <- job.status
ImplementsLifecycle == Lifecycle!Spec
=============================================================================
