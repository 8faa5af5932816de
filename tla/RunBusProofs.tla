---------------------------- MODULE RunBusProofs ----------------------------
(* Theorems about RunBus, for every set of worker slots and every bound.   *)
EXTENDS RunBus, TLAPS

USE ProcAssumption, FaultAssumption, BoundAssumption

-----------------------------------------------------------------------------
(* Type correctness.                                                       *)

(* A command leaves its process at a control point: where it goes on, or   *)
(* the handler of its exception.                                           *)
LEMMA OutcomeType ==
  ASSUME TypeOK, NEW p \in Procs, pc[p] \in Commands, NEW next \in Points,
         Outcome(p, next)
  PROVE  /\ pc' \in [Procs -> Points]
         /\ faults' \in 0..MaxFaults
<1>1. HandlerOf(p) \in Points
  <2>1. call[p] \in Calls
    BY DEF TypeOK
  <2>2. AppendRaises(call[p]) \in Points
    BY <2>1 DEF AppendRaises, Calls, Points
  <2> QED
    BY <2>2 DEF HandlerOf, Commands, Appending, Points
<1>2. pc \in [Procs -> Points] /\ faults \in 0..MaxFaults
  BY DEF TypeOK
<1> QED
  BY <1>1, <1>2 DEF Outcome, Goto, Raise, FaultOf

LEMMA RefusedType ==
  ASSUME TypeOK, NEW p \in Procs, Refused(p)
  PROVE  TypeOK'
<1>1. HandlerOf(p) \in Points
  <2>1. call[p] \in Calls
    BY DEF TypeOK
  <2>2. AppendRaises(call[p]) \in Points
    BY <2>1 DEF AppendRaises, Calls, Points
  <2> QED
    BY <2>2 DEF HandlerOf, Refused, Commands, Appending, Points
<1> QED
  BY <1>1 DEF TypeOK, Refused, Raise, Goto, FaultOf, store

LEMMA TypeStep == TypeOK /\ [Next]_vars => TypeOK'
<1> SUFFICES ASSUME TypeOK, [Next]_vars
             PROVE  TypeOK'
  OBVIOUS
<1>1. API \in Procs /\ Workers \subseteq Procs
  BY DEF Procs
<1>2. CASE InitializeRun(API)
  <2>1. pc' \in [Procs -> Points] /\ faults' \in 0..MaxFaults
    BY <1>1, <1>2, OutcomeType DEF InitializeRun, At, Commands, Points, Appending
  <2> QED
    BY <1>2, <2>1 DEF InitializeRun, TypeOK, Status
<1>3. ASSUME NEW p \in Procs, Incr(p)
      PROVE  TypeOK'
  <2>1. pc' \in [Procs -> Points] /\ faults' \in 0..MaxFaults
    BY <1>3, OutcomeType DEF Incr, At, Commands, Points, Appending
  <2>2. job' \in [status : Status, event_seq : Nat, result : BOOLEAN, error : BOOLEAN]
    <3>1. job.event_seq \in Nat
      BY DEF TypeOK
    <3>2. job.event_seq + 1 \in Nat
      BY <3>1
    <3>3. job' = [job EXCEPT !.event_seq = job.event_seq + 1]
      BY <1>3 DEF Incr
    <3> QED
      BY <3>2, <3>3 DEF TypeOK
  <2>3. eid' \in [Procs -> Nat]
    BY <1>3 DEF Incr, TypeOK
  <2> QED
    BY <1>3, <2>1, <2>2, <2>3 DEF Incr, TypeOK
<1>4. ASSUME NEW p \in Procs, Push(p)
      PROVE  TypeOK'
  <2>1. pc' \in [Procs -> Points] /\ faults' \in 0..MaxFaults
    BY <1>4, OutcomeType DEF Push, At, Commands, Points, Appending
  <2>2. EventOf(p) \in Events
    BY DEF EventOf, Events, TypeOK
  <2>3. log' \in Seq(Events)
    BY <1>4, <2>2 DEF Push, TypeOK
  <2> QED
    BY <1>4, <2>1, <2>3 DEF Push, TypeOK
<1>5. ASSUME NEW p \in Procs, Publish(p)
      PROVE  TypeOK'
  <2>1. AfterAppend(call[p]) \in Points
    BY DEF TypeOK, AfterAppend, Calls, Points, Commands
  <2>2. pc' \in [Procs -> Points] /\ faults' \in 0..MaxFaults
    BY <1>5, <2>1, OutcomeType DEF Publish, At, Commands, Appending
  <2>3. EventOf(p) \in Events
    BY DEF EventOf, Events, TypeOK
  <2>4. channel' \in Seq(Events)
    BY <1>5, <2>3 DEF Publish, TypeOK
  <2> QED
    BY <1>5, <2>2, <2>4 DEF Publish, TypeOK
<1>6. CASE Delay(API)
  <2>1. pc' \in [Procs -> Points] /\ faults' \in 0..MaxFaults
    BY <1>1, <1>6, OutcomeType DEF Delay, At, Commands, Points
  <2> QED
    BY <1>6, <2>1 DEF Delay, TypeOK, store
<1>7. ASSUME NEW w \in Workers, Start(w) \/ SetResult(w) \/ SetFailed(w)
      PROVE  TypeOK'
  <2>1. w \in Procs
    BY <1>1
  <2>2. pc' \in [Procs -> Points] /\ faults' \in 0..MaxFaults
    <3>1. CASE Start(w)
      BY <2>1, <3>1, OutcomeType DEF Start, At, Commands, Points
    <3>2. CASE SetResult(w)
      BY <2>1, <3>2, OutcomeType DEF SetResult, At, Commands, Points
    <3>3. CASE SetFailed(w)
      BY <2>1, <3>3, OutcomeType DEF SetFailed, At, Commands, Points
    <3> QED
      BY <1>7, <3>1, <3>2, <3>3
  <2>3. job' \in [status : Status, event_seq : Nat, result : BOOLEAN, error : BOOLEAN]
    BY <1>7 DEF Start, SetResult, SetFailed, TypeOK, Status, Terminal
  <2> QED
    BY <1>7, <2>2, <2>3 DEF Start, SetResult, SetFailed, TypeOK
<1>8. ASSUME NEW w \in Workers,
             \/ Acknowledge(w) \/ Emit(w) \/ AgentReturns(w)
             \/ AgentRaises(w) \/ LogFailure(w)
      PROVE  TypeOK'
  <2>1. pc' \in [Procs -> Points]
    BY <1>8 DEF Acknowledge, Emit, AgentReturns, AgentRaises,
                LogFailure, Goto, TypeOK, Points, Commands, Appending
  <2>2. call' \in [Procs -> Calls]
    BY <1>8 DEF Acknowledge, Emit, AgentReturns, AgentRaises,
                LogFailure, Local, TypeOK, Calls
  <2> QED
    BY <1>8, <2>1, <2>2 DEF Acknowledge, Emit, AgentReturns,
       AgentRaises, LogFailure, Local, store, TypeOK
<1>9. ASSUME NEW w \in Workers, Reserve(w) \/ Redeliver(w) \/ Crash(w)
      PROVE  TypeOK'
  <2>1. pc' \in [Procs -> Points]
    BY <1>9 DEF Reserve, Redeliver, Crash, At, Goto, TypeOK, Points
  <2>2. broker' \in Nat
    <3>1. broker \in Nat
      BY DEF TypeOK
    <3> QED
      BY <1>9, <3>1 DEF Reserve, Redeliver, Crash
  <2> QED
    BY <1>9, <2>1, <2>2 DEF Reserve, Redeliver, Crash, Local, store, TypeOK
<1>10. ASSUME NEW p \in Procs, Refused(p)
       PROVE  TypeOK'
  BY <1>10, RefusedType
<1>11. CASE UNCHANGED vars
  BY <1>11 DEF vars, TypeOK
<1> QED
  BY <1>1, <1>2, <1>3, <1>4, <1>5, <1>6, <1>7, <1>8, <1>9, <1>10, <1>11
     DEF Next, HandlerStep, WorkerStep, Environment, AppendEvent

(* The types of RunBus, with any fault and any number of slots.            *)
THEOREM TypeCorrect == Spec => []TypeOK
<1>1. Init => TypeOK
  BY DEF Init, TypeOK, Status, Calls, Points, Commands, Events
<1> QED
  BY <1>1, TypeStep, PTL DEF Spec

-----------------------------------------------------------------------------
(* Where a command may leave its process.                                  *)

Caught == {"http500", "work", "except", "dead"}

LEMMA OutcomePoint ==
  ASSUME TypeOK, NEW p \in Procs, pc[p] \in Commands, NEW next \in Points,
         Outcome(p, next)
  PROVE  \E x \in {next, pc[p]} \union Caught : pc' = [pc EXCEPT ![p] = x]
<1>1. HandlerOf(p) \in Caught
  BY DEF TypeOK, HandlerOf, AppendRaises, Calls, Commands, Appending, Caught
<1>2. UNCHANGED pc => pc' = [pc EXCEPT ![p] = pc[p]]
  BY DEF TypeOK
<1> QED
  BY <1>1, <1>2 DEF Outcome, Goto, Raise, Caught

LEMMA RefusedPoint ==
  ASSUME TypeOK, NEW p \in Procs, Refused(p)
  PROVE  \E x \in Caught : pc' = [pc EXCEPT ![p] = x]
<1>1. HandlerOf(p) \in Caught
  BY DEF Refused, TypeOK, HandlerOf, AppendRaises, Calls, Commands, Appending,
         Caught
<1> QED
  BY <1>1 DEF Refused, Raise, Goto

-----------------------------------------------------------------------------
(* What is published is stored: true of every run, with any faults, any    *)
(* redelivery and any number of slots.                                     *)

Stored(e) == \E j \in 1..Len(log) : log[j] = e

PublishInv ==
  /\ PublishedIsStored
  /\ \A p \in Procs : At(p, "publish") => Stored(EventOf(p))

(* Steps that leave list and channel alone and bring no process to its     *)
(* PUBLISH.                                                                *)
LEMMA PublishQuiet ==
  ASSUME PublishInv, UNCHANGED <<log, channel>>,
         \A p \in Procs : At(p, "publish")' =>
            At(p, "publish") /\ UNCHANGED <<eid[p], call[p]>>
  PROVE  PublishInv'
BY DEF PublishInv, PublishedIsStored, Stored, EventOf

LEMMA PublishStep == TypeOK /\ PublishInv /\ [Next]_vars => PublishInv'
<1> SUFFICES ASSUME TypeOK, PublishInv, [Next]_vars
             PROVE  PublishInv'
  OBVIOUS
<1> USE DEF At
<1>1. API \in Procs /\ Workers \subseteq Procs
  BY DEF Procs
<1>2. CASE InitializeRun(API)
  <2>1. \E x \in {"incr", pc[API]} \union Caught : pc' = [pc EXCEPT ![API] = x]
    BY <1>1, <1>2, OutcomePoint DEF InitializeRun, Commands, Points, Appending
  <2> QED
    BY <1>2, <2>1, PublishQuiet DEF InitializeRun, Caught, TypeOK
<1>3. ASSUME NEW p \in Procs, Incr(p)
      PROVE  PublishInv'
  <2>1. \E x \in {"push", pc[p]} \union Caught : pc' = [pc EXCEPT ![p] = x]
    BY <1>3, OutcomePoint DEF Incr, Commands, Points, Appending
  <2>2. \A q \in Procs : pc'[q] = "publish" =>
          pc[q] = "publish" /\ eid'[q] = eid[q]
    BY <1>3, <2>1 DEF Incr, Caught, TypeOK
  <2> QED
    BY <1>3, <2>2, PublishQuiet DEF Incr
<1>4. ASSUME NEW p \in Procs, Push(p)
      PROVE  PublishInv'
  <2>1. \E x \in {"publish", pc[p]} \union Caught : pc' = [pc EXCEPT ![p] = x]
    BY <1>4, OutcomePoint DEF Push, Commands, Points, Appending
  <2>2. EventOf(p) \in Events
    BY DEF EventOf, Events, TypeOK
  <2>3. /\ Len(log') = Len(log) + 1
        /\ \A j \in 1..Len(log) : log'[j] = log[j]
        /\ log'[Len(log) + 1] = EventOf(p)
        /\ Len(log) \in Nat
    BY <1>4, <2>2 DEF Push, TypeOK
  <2>4. PublishedIsStored'
    BY <1>4, <2>3 DEF PublishInv, PublishedIsStored, Push
  <2>5. \A q \in Procs : EventOf(q)' = EventOf(q)
    BY <1>4 DEF Push, EventOf
  <2>6. ASSUME NEW q \in Procs, pc'[q] = "publish"
        PROVE  Stored(EventOf(q))'
    <3>1. CASE q = p
      BY <2>3, <2>5, <3>1 DEF Stored
    <3>2. CASE q # p
      <4>1. pc[q] = "publish"
        BY <2>1, <2>6, <3>2 DEF TypeOK
      <4>2. Stored(EventOf(q))
        BY <4>1 DEF PublishInv
      <4> QED
        BY <2>3, <2>5, <4>2 DEF Stored
    <3> QED
      BY <3>1, <3>2
  <2> QED
    BY <2>4, <2>6 DEF PublishInv
<1>5. ASSUME NEW p \in Procs, Publish(p)
      PROVE  PublishInv'
  <2>1. AfterAppend(call[p]) \in {"delay", "work", "set_failed"}
    BY DEF TypeOK, AfterAppend, Calls
  <2>2. \E x \in {AfterAppend(call[p]), pc[p]} \union Caught :
           pc' = [pc EXCEPT ![p] = x]
    BY <1>5, <2>1, OutcomePoint DEF Publish, Commands, Points, Appending
  <2>3. \A q \in Procs : pc'[q] = "publish" => pc[q] = "publish"
    BY <1>5, <2>1, <2>2 DEF Publish, Caught, TypeOK
  <2>4. Stored(EventOf(p))
    BY <1>5 DEF Publish, PublishInv
  <2>5. EventOf(p) \in Events
    BY DEF EventOf, Events, TypeOK
  <2>6. /\ Len(channel') = Len(channel) + 1
        /\ \A j \in 1..Len(channel) : channel'[j] = channel[j]
        /\ channel'[Len(channel) + 1] = EventOf(p)
        /\ Len(channel) \in Nat
    BY <1>5, <2>5 DEF Publish, TypeOK
  <2>7. PublishedIsStored'
    <3> SUFFICES ASSUME NEW i \in 1..Len(channel')
                 PROVE  \E j \in 1..Len(log') : log'[j] = channel'[i]
      BY DEF PublishedIsStored
    <3>1. CASE i \in 1..Len(channel)
      BY <1>5, <2>6, <3>1 DEF PublishInv, PublishedIsStored, Publish
    <3>2. CASE i = Len(channel) + 1
      BY <1>5, <2>4, <2>6, <3>2 DEF Publish, Stored
    <3> QED
      BY <2>6, <3>1, <3>2
  <2> QED
    BY <1>5, <2>3, <2>7 DEF Publish, PublishInv, Stored, EventOf
<1>6. CASE Delay(API)
  <2>1. \E x \in {"returned", pc[API]} \union Caught :
           pc' = [pc EXCEPT ![API] = x]
    BY <1>1, <1>6, OutcomePoint DEF Delay, Commands, Points
  <2> QED
    BY <1>6, <2>1, PublishQuiet DEF Delay, Caught, TypeOK, store
<1>7. ASSUME NEW w \in Workers, Start(w) \/ SetResult(w) \/ SetFailed(w)
      PROVE  PublishInv'
  <2>1. w \in Procs
    BY <1>1
  <2>2. \E x \in {"work", "ended", pc[w]} \union Caught :
           pc' = [pc EXCEPT ![w] = x]
    <3>1. CASE Start(w)
      <4>1. Outcome(w, "work") /\ pc[w] \in Commands /\ "work" \in Points
        BY <3>1 DEF Start, Commands, Points
      <4>2. \E x \in {"work", pc[w]} \union Caught : pc' = [pc EXCEPT ![w] = x]
        BY <2>1, <4>1, OutcomePoint
      <4> QED
        BY <4>2
    <3>2. CASE SetResult(w)
      <4>1. Outcome(w, "ended") /\ pc[w] \in Commands /\ "ended" \in Points
        BY <3>2 DEF SetResult, Commands, Points
      <4>2. \E x \in {"ended", pc[w]} \union Caught : pc' = [pc EXCEPT ![w] = x]
        BY <2>1, <4>1, OutcomePoint
      <4> QED
        BY <4>2
    <3>3. CASE SetFailed(w)
      <4>1. Outcome(w, "ended") /\ pc[w] \in Commands /\ "ended" \in Points
        BY <3>3 DEF SetFailed, Commands, Points
      <4>2. \E x \in {"ended", pc[w]} \union Caught : pc' = [pc EXCEPT ![w] = x]
        BY <2>1, <4>1, OutcomePoint
      <4> QED
        BY <4>2
    <3> QED
      BY <1>7, <3>1, <3>2, <3>3
  <2> QED
    BY <1>7, <2>2, PublishQuiet
       DEF Start, SetResult, SetFailed, Caught, TypeOK
<1>8. ASSUME NEW w \in Workers,
             \/ Acknowledge(w) \/ Emit(w) \/ AgentReturns(w)
             \/ AgentRaises(w) \/ LogFailure(w)
             \/ Reserve(w) \/ Redeliver(w) \/ Crash(w)
      PROVE  PublishInv'
  <2>1. UNCHANGED <<log, channel, eid>>
    BY <1>8 DEF Acknowledge, Emit, AgentReturns, AgentRaises, LogFailure,
                Reserve, Redeliver, Crash, Local, store
  <2>2. \A q \in Procs : pc'[q] = "publish" =>
          pc[q] = "publish" /\ call'[q] = call[q]
    BY <1>8 DEF Acknowledge, Emit, AgentReturns, AgentRaises, LogFailure,
                Reserve, Redeliver, Crash, Local, store, Goto, TypeOK
  <2> QED
    BY <2>1, <2>2, PublishQuiet
<1>9. ASSUME NEW p \in Procs, Refused(p)
      PROVE  PublishInv'
  <2>1. \E x \in Caught : pc' = [pc EXCEPT ![p] = x]
    BY <1>9, RefusedPoint
  <2> QED
    BY <1>9, <2>1, PublishQuiet DEF Refused, Caught, TypeOK, store
<1>10. CASE UNCHANGED vars
  BY <1>10, PublishQuiet DEF vars
<1> QED
  BY <1>1, <1>2, <1>3, <1>4, <1>5, <1>6, <1>7, <1>8, <1>9, <1>10
     DEF Next, HandlerStep, WorkerStep, Environment, AppendEvent

(* A reader that was told of an event finds it in the list, whatever        *)
(* commands fail and however many slots run the task (runtime_bus.py:65-66). *)
THEOREM PublishedStored == Spec => []PublishedIsStored
<1>1. Init => PublishInv
  BY DEF Init, PublishInv, PublishedIsStored, At
<1>2. PublishInv => PublishedIsStored
  BY DEF PublishInv
<1> QED
  BY <1>1, <1>2, PublishStep, TypeCorrect, PTL DEF Spec

-----------------------------------------------------------------------------
(* No id is given twice, however many slots run the task, as long as no     *)
(* command is sent again.                                                  *)

NoResend == "resent" \notin FaultKinds

(* An id that is drawn is above all that are stored and belongs to one     *)
(* process until it is stored; the counter is only set to zero before      *)
(* anything was drawn.                                                     *)
UniqueInv ==
  /\ UniqueIds
  /\ \A i \in 1..Len(log) : log[i].id <= job.event_seq
  /\ \A p \in Procs : At(p, "push") =>
       /\ eid[p] <= job.event_seq
       /\ \A i \in 1..Len(log) : log[i].id # eid[p]
       /\ \A q \in Procs \ {p} : At(q, "push") => eid[p] # eid[q]
  /\ At(API, "initialize") =>
       log = <<>> /\ broker = 0 /\ \A w \in Workers : At(w, "idle")

LEMMA SentOnce ==
  ASSUME NoResend, TypeOK, NEW p \in Procs, pc[p] \in Commands \ {"delay"},
         NEW next, Outcome(p, next)
  PROVE  \E x \in {next} \union Caught : pc' = [pc EXCEPT ![p] = x]
<1>1. HandlerOf(p) \in Caught
  BY DEF TypeOK, HandlerOf, AppendRaises, Calls, Commands, Appending, Caught
<1> QED
  BY <1>1 DEF Outcome, Goto, Raise, FaultOf, NoResend, At

(* Steps that neither draw a number nor store an event.                    *)
LEMMA UniqueQuiet ==
  ASSUME UniqueInv, UNCHANGED log, job'.event_seq = job.event_seq,
         \A p \in Procs : At(p, "push")' => At(p, "push") /\ eid'[p] = eid[p],
         ~At(API, "initialize")' \/ UNCHANGED <<pc, broker>>
  PROVE  UniqueInv'
BY DEF UniqueInv, UniqueIds, At

(* While the record is still to be made, only the handler moves.           *)
LEMMA HandlerFirst ==
  ASSUME UniqueInv, NEW p \in Procs, pc[p] # "idle",
         p # API \/ pc[p] # "initialize"
  PROVE  ~At(API, "initialize")
BY DEF UniqueInv, At, Procs

LEMMA UniqueIncr ==
  ASSUME NoResend, TypeOK, UniqueInv, NEW p \in Procs, Incr(p)
  PROVE  UniqueInv'
<1>1. \E x \in {"push"} \union Caught : pc' = [pc EXCEPT ![p] = x]
  BY SentOnce DEF Incr, At, Commands, Appending
<1>2. /\ log' = log /\ job'.event_seq = job.event_seq + 1
      /\ eid' = [eid EXCEPT ![p] = job.event_seq + 1]
      /\ job.event_seq \in Nat
  BY DEF Incr, TypeOK
<1>3. \A i \in 1..Len(log) : log[i].id \in Nat
  <2>1. \A i \in 1..Len(log) : log[i] \in Events
    BY DEF TypeOK
  <2> QED
    BY <2>1 DEF Events
<1>4. \A q \in Procs : eid[q] \in Nat
  BY DEF TypeOK
<1>5. ~At(API, "initialize")'
  <2>1. ~At(API, "initialize")
    BY HandlerFirst DEF Incr, At
  <2> QED
    BY <1>1, <2>1 DEF At, Caught, TypeOK, Procs
<1>6. \A q \in Procs \ {p} : At(q, "push")' => At(q, "push") /\ eid'[q] = eid[q]
  BY <1>1, <1>2 DEF At, TypeOK
<1>7. eid'[p] = job.event_seq + 1
  BY <1>2 DEF TypeOK
<1>8. \A q \in Procs : At(q, "push")' =>
        /\ eid'[q] <= job'.event_seq
        /\ \A i \in 1..Len(log') : log'[i].id # eid'[q]
        /\ \A r \in Procs \ {q} : At(r, "push")' => eid'[q] # eid'[r]
  BY <1>2, <1>3, <1>4, <1>6, <1>7 DEF UniqueInv
<1>9. UniqueIds' /\ \A i \in 1..Len(log') : log'[i].id <= job'.event_seq
  BY <1>2, <1>3 DEF UniqueInv, UniqueIds
<1> QED
  BY <1>5, <1>8, <1>9 DEF UniqueInv

LEMMA UniquePush ==
  ASSUME NoResend, TypeOK, UniqueInv, NEW p \in Procs, Push(p)
  PROVE  UniqueInv'
<1>1. \E x \in {"publish"} \union Caught : pc' = [pc EXCEPT ![p] = x]
  BY SentOnce DEF Push, At, Commands, Appending
<1>2. EventOf(p) \in Events /\ EventOf(p).id = eid[p]
  BY DEF EventOf, Events, TypeOK
<1>3. /\ Len(log') = Len(log) + 1 /\ Len(log) \in Nat
      /\ \A i \in 1..Len(log) : log'[i] = log[i]
      /\ log'[Len(log) + 1].id = eid[p]
  BY <1>2 DEF Push, TypeOK
<1>4. eid' = eid /\ job' = job
  BY DEF Push
<1>5. At(p, "push")
  BY DEF Push
<1>6. \A q \in Procs : At(q, "push")' => q # p /\ At(q, "push")
  BY <1>1 DEF At, Caught, TypeOK
<1>7. ~At(API, "initialize")'
  <2>1. ~At(API, "initialize")
    BY <1>5, HandlerFirst DEF At
  <2> QED
    BY <1>1, <2>1 DEF At, Caught, TypeOK, Procs
<1>8. UniqueIds' /\ \A i \in 1..Len(log') : log'[i].id <= job'.event_seq
  <2>1. \A i \in 1..Len(log') : i \in 1..Len(log) \/ i = Len(log) + 1
    BY <1>3
  <2> QED
    BY <1>3, <1>4, <1>5, <2>1 DEF UniqueInv, UniqueIds
<1>9. \A q \in Procs : At(q, "push")' =>
        /\ eid'[q] <= job'.event_seq
        /\ \A i \in 1..Len(log') : log'[i].id # eid'[q]
        /\ \A r \in Procs \ {q} : At(r, "push")' => eid'[q] # eid'[r]
  <2>1. \A i \in 1..Len(log') : i \in 1..Len(log) \/ i = Len(log) + 1
    BY <1>3
  <2> QED
    BY <1>3, <1>4, <1>5, <1>6, <2>1 DEF UniqueInv
<1> QED
  BY <1>7, <1>8, <1>9 DEF UniqueInv

LEMMA UniqueStep == NoResend /\ TypeOK /\ UniqueInv /\ [Next]_vars => UniqueInv'
<1> SUFFICES ASSUME NoResend, TypeOK, UniqueInv, [Next]_vars
             PROVE  UniqueInv'
  OBVIOUS
<1> DEFINE Leads(p, points) == \E x \in points : pc' = [pc EXCEPT ![p] = x]
<1>1. API \in Procs /\ Workers \subseteq Procs
  BY DEF Procs
<1>2. ASSUME NEW p \in Procs, NEW points, Leads(p, points),
             "push" \notin points, "initialize" \notin points,
             \/ pc[p] # "idle" /\ (p # API \/ pc[p] # "initialize")
             \/ broker > 0,
             log' = log, job'.event_seq = job.event_seq, eid' = eid
      PROVE  UniqueInv'
  <2>1. ~At(API, "initialize")
    BY <1>2, HandlerFirst DEF UniqueInv
  <2>2. ~At(API, "initialize")'
    BY <1>1, <1>2, <2>1 DEF At, TypeOK
  <2>3. \A q \in Procs : At(q, "push")' => At(q, "push")
    BY <1>2 DEF At, TypeOK
  <2> QED
    BY <1>2, <2>2, <2>3, UniqueQuiet
<1>3. CASE InitializeRun(API)
  <2>1. \E x \in {"incr"} \union Caught : pc' = [pc EXCEPT ![API] = x]
    BY <1>1, <1>3, SentOnce DEF InitializeRun, At, Commands
  <2>2. ~At(API, "initialize")' /\ \A q \in Procs : ~At(q, "push")'
    BY <1>1, <1>3, <2>1 DEF InitializeRun, UniqueInv, At, Caught, TypeOK, Procs
  <2>3. log' = <<>>
    BY <1>3 DEF InitializeRun, UniqueInv
  <2> QED
    BY <2>2, <2>3 DEF UniqueInv, UniqueIds
<1>4. ASSUME NEW p \in Procs, Publish(p)
      PROVE  UniqueInv'
  <2>1. AfterAppend(call[p]) \in {"delay", "work", "set_failed"}
    BY DEF TypeOK, AfterAppend, Calls
  <2>2. Leads(p, {AfterAppend(call[p])} \union Caught)
    BY <1>4, SentOnce DEF Publish, At, Commands, Appending
  <2> HIDE DEF Leads
  <2> QED
    BY <1>2, <1>4, <2>1, <2>2 DEF Publish, At, Caught
<1>5. CASE Delay(API)
  <2>1. Leads(API, {"returned", "delay"} \union Caught)
    <3>1. pc[API] = "delay" /\ "returned" \in Points /\ Outcome(API, "returned")
      BY <1>5 DEF Delay, At, Points
    <3> QED
      BY <1>1, <3>1, OutcomePoint DEF Commands
  <2> HIDE DEF Leads
  <2> QED
    BY <1>1, <1>2, <1>5, <2>1 DEF Delay, At, Caught, store
<1>6. ASSUME NEW w \in Workers, Start(w) \/ SetResult(w) \/ SetFailed(w)
      PROVE  UniqueInv'
  <2>1. Leads(w, {"work", "ended"} \union Caught)
    BY <1>1, <1>6, SentOnce DEF Start, SetResult, SetFailed, At, Commands
  <2>2. log' = log /\ job'.event_seq = job.event_seq /\ eid' = eid
    BY <1>6 DEF Start, SetResult, SetFailed, TypeOK
  <2> HIDE DEF Leads
  <2> QED
    BY <1>1, <1>2, <1>6, <2>1, <2>2 DEF Start, SetResult, SetFailed, At, Caught
<1>7. ASSUME NEW w \in Workers, Emit(w) \/ LogFailure(w)
      PROVE  UniqueInv'
  <2>1. Leads(w, {"incr"})
    BY <1>7 DEF Emit, LogFailure, Goto
  <2> HIDE DEF Leads
  <2> QED
    BY <1>1, <1>2, <1>7, <2>1 DEF Emit, LogFailure, At, store
<1>8. ASSUME NEW w \in Workers, AgentReturns(w) \/ AgentRaises(w) \/ Acknowledge(w)
      PROVE  UniqueInv'
  <2>1. Leads(w, {"set_result", "except", "start"})
    BY <1>8 DEF AgentReturns, AgentRaises, Acknowledge, Goto
  <2> HIDE DEF Leads
  <2> QED
    BY <1>1, <1>2, <1>8, <2>1
       DEF AgentReturns, AgentRaises, Acknowledge, At, Local, store
<1>9. ASSUME NEW w \in Workers, Reserve(w)
      PROVE  UniqueInv'
  <2>1. Leads(w, {"reserved"})
    BY <1>9 DEF Reserve, Goto
  <2> HIDE DEF Leads
  <2> QED
    BY <1>1, <1>2, <1>9, <2>1, ProcAssumption DEF Reserve, Local, store
<1>10. ASSUME NEW p \in Procs, Refused(p)
       PROVE  UniqueInv'
  <2>1. \E x \in Caught : pc' = [pc EXCEPT ![p] = x]
    BY <1>10, RefusedPoint
  <2>2. ~At(API, "initialize")'
    <3>1. CASE p = API
      BY <2>1, <3>1 DEF At, Caught, TypeOK
    <3>2. CASE p # API
      <4>1. pc[p] # "idle"
        BY <1>10 DEF Refused, Commands, Appending
      <4>2. ~At(API, "initialize")
        BY <3>2, <4>1 DEF UniqueInv, At, Procs
      <4> QED
        BY <1>1, <2>1, <3>2, <4>2 DEF At, TypeOK
    <3> QED
      BY <3>1, <3>2
  <2>3. \A q \in Procs : At(q, "push")' => At(q, "push")
    BY <2>1 DEF At, Caught, TypeOK
  <2> QED
    BY <1>10, <2>2, <2>3, UniqueQuiet DEF Refused, store
<1>11. ASSUME NEW w \in Workers, Crash(w)
       PROVE  UniqueInv'
  <2>1. Leads(w, {"idle", "dead"})
    BY <1>11 DEF Crash, Goto
  <2>2. w # API
    BY ProcAssumption
  <2> HIDE DEF Leads
  <2> QED
    BY <1>1, <1>2, <1>11, <2>1, <2>2 DEF Crash, Free, store
<1>12. ASSUME NEW w \in Workers, Redeliver(w)
       PROVE  UniqueInv'
  <2>1. ~At(API, "initialize")
    BY <1>1, <1>12, HandlerFirst DEF Redeliver, At
  <2> QED
    BY <1>12, <2>1, UniqueQuiet DEF Redeliver, At, store
<1>13. CASE UNCHANGED vars
  BY <1>13, UniqueQuiet DEF vars, At
<1> QED
  BY <1>1, <1>3, <1>4, <1>5, <1>6, <1>7, <1>8, <1>9, <1>10, <1>11, <1>12, <1>13,
     UniqueIncr, UniquePush
     DEF Next, HandlerStep, WorkerStep, Environment, AppendEvent

(* Two slots that run the same task never give one id to two events: the    *)
(* number is drawn in one command (runtime_bus.py:61).                      *)
THEOREM IdsUnique == NoResend => (Spec => []UniqueIds)
<1> SUFFICES ASSUME NoResend
             PROVE  Spec => []UniqueIds
  OBVIOUS
<1>1. Init => UniqueInv
  BY DEF Init, UniqueInv, UniqueIds, At, Procs
<1>2. UniqueInv => UniqueIds
  BY DEF UniqueInv
<1>3. TypeOK /\ UniqueInv /\ [Next]_vars => UniqueInv'
  BY UniqueStep
<1> QED
  BY <1>1, <1>2, <1>3, TypeCorrect, PTL DEF Spec

-----------------------------------------------------------------------------
(* One task, one execution: the broker hands the message out once and the  *)
(* client does not publish it twice.  Commands may still fail, even after  *)
(* they took effect.                                                       *)

SingleTask == /\ FaultKinds \intersect {"resent", "republished"} = {}
              /\ MaxRedeliveries = 0

Handing == {"initialize", "incr", "push", "publish", "delay"}

(* The right to write to the run is with the handler, with the message in  *)
(* the broker, or with the one slot that took it.                          *)
Token ==
  /\ pc[API] \in Handing \union {"returned", "http500"}
  /\ \A w \in Workers :
       /\ pc[w] \notin {"initialize", "delay", "returned", "http500"}
       /\ call[w] \in {"emit", "fail"}
  /\ call[API] = "queue"
  /\ broker \in {0, 1}
  /\ pc[API] \in Handing => broker = 0
  /\ pc[API] \in Handing \/ broker = 1 => \A w \in Workers : pc[w] = "idle"
  /\ \A v, w \in Workers : pc[v] # "idle" /\ pc[w] # "idle" => v = w

(* The ids in the list are below the counter and, while its holder has yet  *)
(* to store it, below the number that was drawn last.                      *)
Numbered ==
  /\ LogOrdered
  /\ NeverBehindPosition
  /\ \A i \in 1..Len(log) : log[i].id <= job.event_seq
  /\ Len(log) <= job.event_seq
  /\ pc[API] = "initialize" => log = <<>> /\ job.event_seq = 0
  /\ \A p \in Procs :
       pc[p] = "push" => /\ eid[p] = job.event_seq
                         /\ Len(log) < eid[p]
                         /\ \A i \in 1..Len(log) : log[i].id < eid[p]

LastIs(c) == Len(log) > 0 /\ log[Len(log)].call = c

(* The event that explains a failure is stored before the failure is.      *)
Explaining ==
  /\ \A p \in Procs : pc[p] = "publish" => LastIs(call[p])
  /\ \A w \in Workers : pc[w] = "set_failed" => LastIs("fail")
  /\ job.status = "failed" =>
       LastIs("fail") /\ \E w \in Workers : pc[w] \in {"ended", "dead"}

SingleInv == Token /\ Numbered /\ Explaining

(* No command takes effect and is reported as failed.                      *)
CleanFaults == FaultKinds \subseteq {"refused"} /\ MaxRedeliveries = 0

(* Where the run is and what its record says go together.                  *)
Recorded ==
  /\ pc[API] = "initialize" => job.status = "absent"
  /\ pc[API] \in Handing \ {"initialize"} \/ broker = 1 =>
       job.status = "queued"
  /\ \A w \in Workers :
       /\ pc[w] \in {"reserved", "start"} => job.status = "queued"
       /\ pc[w] \in {"work", "except", "set_result", "set_failed"}
                   \union Appending => job.status = "running"
       /\ pc[w] = "dead" => job.status \notin Terminal
  /\ job.status \in Terminal => \E w \in Workers : pc[w] = "ended"
  /\ job.status \notin Terminal => ~job.result /\ ~job.error
  /\ VerdictIsConsistent

-----------------------------------------------------------------------------
(* The token.                                                              *)

CaughtBy(p) == IF p = API THEN {"http500"} ELSE {"work", "except", "dead"}

LEMMA SingleOutcome ==
  ASSUME SingleTask, TypeOK, Token, NEW p \in Procs, pc[p] \in Commands,
         NEW next, Outcome(p, next)
  PROVE  \E x \in {next} \union CaughtBy(p) : pc' = [pc EXCEPT ![p] = x]
<1>1. HandlerOf(p) \in CaughtBy(p)
  BY DEF Token, HandlerOf, AppendRaises, CaughtBy, Procs, Commands, Handing,
         Appending
<1> QED
  BY <1>1 DEF Outcome, Goto, Raise, FaultOf, SingleTask, At

(* The slot that takes the message never had one before.                   *)
LEMMA FirstReserve ==
  ASSUME Token, NEW w \in Workers, Reserve(w)
  PROVE  pc[w] = "idle"
BY DEF Token, Reserve

LEMMA SingleRefused ==
  ASSUME TypeOK, Token, NEW p \in Procs, Refused(p)
  PROVE  \E x \in CaughtBy(p) : pc' = [pc EXCEPT ![p] = x]
<1>1. HandlerOf(p) \in CaughtBy(p)
  BY DEF Refused, Token, HandlerOf, AppendRaises, CaughtBy, Procs, Commands,
         Handing, Appending
<1> QED
  BY <1>1 DEF Refused, Raise, Goto

Active == Handing \union
          {"reserved", "start", "work", "except", "set_result", "set_failed"}

LEMMA OneHolder ==
  ASSUME Token, NEW p \in Procs, NEW q \in Procs,
         pc[p] \in Active, pc[q] \in Active
  PROVE  p = q
BY DEF Token, Procs, Active, Handing

(* The holder moves on and keeps the token.                                *)
LEMMA TokenKept ==
  ASSUME TypeOK, Token, NEW p \in Procs, pc[p] \in Active,
         NEW x, pc' = [pc EXCEPT ![p] = x],
         UNCHANGED broker,
         p = API => UNCHANGED call,
         p # API => \E c \in {"emit", "fail"} : call' = [call EXCEPT ![p] = c],
         p = API => x \in Handing \union {"returned", "http500"},
         p # API => x \notin {"initialize", "delay", "returned", "http500"}
  PROVE  Token'
<1>1. CASE p = API
  BY <1>1 DEF Token, TypeOK, Procs, Active, Handing
<1>2. CASE p # API
  <2>1. p \in Workers /\ pc[API] \notin Handing /\ broker = 0
    BY <1>2 DEF Token, Procs, Active, Handing
  <2>2. \A w \in Workers : w # p => pc[w] = "idle"
    BY <2>1 DEF Token, Active, Handing
  <2>3. pc'[API] = pc[API] /\ call'[API] = call[API]
    BY <1>2 DEF TypeOK, Procs
  <2>4. \A w \in Workers : w # p => pc'[w] = pc[w] /\ call'[w] = call[w]
    BY <1>2 DEF TypeOK, Procs
  <2>5. pc'[p] = x /\ call'[p] \in {"emit", "fail"}
    BY <1>2 DEF TypeOK
  <2> QED
    BY <1>2, <2>1, <2>2, <2>3, <2>4, <2>5 DEF Token
<1> QED
  BY <1>1, <1>2

LEMMA TokenStep == SingleTask /\ TypeOK /\ Token /\ [Next]_vars => Token'
<1> SUFFICES ASSUME SingleTask, TypeOK, Token, [Next]_vars
             PROVE  Token'
  OBVIOUS
<1> USE DEF At
<1>1. API \in Procs /\ Workers \subseteq Procs /\ API \notin Workers
  BY DEF Procs
<1>2. \A w \in Workers : call[w] \in {"emit", "fail"} /\ call = [call EXCEPT ![w] = call[w]]
  BY <1>1 DEF Token, TypeOK
<1>3. ASSUME NEW p \in Procs,
             (InitializeRun(p) /\ p = API) \/ Incr(p) \/ Push(p) \/ Publish(p)
      PROVE  Token'
  <2>1. PICK next \in {"incr", "push", "publish", AfterAppend(call[p])} :
          Outcome(p, next)
    BY <1>3 DEF InitializeRun, Incr, Push, Publish
  <2>2. pc[p] \in Commands /\ pc[p] \in Active
    BY <1>3 DEF InitializeRun, Incr, Push, Publish, Commands, Appending,
                Active, Handing
  <2>3. PICK x \in {next} \union CaughtBy(p) : pc' = [pc EXCEPT ![p] = x]
    BY <2>1, <2>2, SingleOutcome
  <2>4. UNCHANGED <<broker, call>>
    BY <1>3 DEF InitializeRun, Incr, Push, Publish
  <2>5. p = API => AfterAppend(call[p]) = "delay"
    BY DEF Token, AfterAppend
  <2>6. p # API => AfterAppend(call[p]) \in {"work", "set_failed"}
    BY <1>1 DEF Token, AfterAppend, Procs
  <2>7. p = API => x \in Handing \union {"returned", "http500"}
    BY <2>3, <2>5 DEF CaughtBy, Handing
  <2>8. p # API => x \notin {"initialize", "delay", "returned", "http500"}
    BY <2>3, <2>6 DEF CaughtBy
  <2>9. p # API => \E c \in {"emit", "fail"} : call' = [call EXCEPT ![p] = c]
    BY <1>2, <2>4 DEF Procs
  <2> QED
    BY <2>2, <2>3, <2>4, <2>7, <2>8, <2>9, TokenKept
<1>4. CASE Delay(API)
  <2>1. PICK x \in {"returned", "http500"} : pc' = [pc EXCEPT ![API] = x]
    BY <1>1, <1>4, SingleOutcome DEF Delay, Commands, CaughtBy
  <2>2. pc'[API] = x /\ \A w \in Workers : pc'[w] = pc[w]
    BY <1>1, <2>1 DEF TypeOK
  <2>3. broker' = 1 /\ \A w \in Workers : pc[w] = "idle"
    BY <1>4 DEF Delay, Token, Handing
  <2> QED
    BY <1>4, <2>1, <2>2, <2>3 DEF Delay, Token, Handing
<1>5. ASSUME NEW w \in Workers, Reserve(w)
      PROVE  Token'
  <2>1. broker = 1 /\ broker' = 0
    BY <1>5 DEF Reserve, Token
  <2>2. \A v \in Workers : pc[v] = "idle"
    BY <2>1 DEF Token
  <2>3. pc'[w] = "reserved" /\ \A p \in Procs : p # w => pc'[p] = pc[p]
    BY <1>1, <1>5 DEF Reserve, Goto, TypeOK
  <2>4. pc[API] \notin Handing
    BY <2>1 DEF Token
  <2> QED
    BY <1>1, <1>5, <2>1, <2>2, <2>3, <2>4 DEF Reserve, Local, Token
<1>6. ASSUME NEW w \in Workers, Crash(w)
      PROVE  Token'
  <2>1. pc[w] # "idle" /\ broker = 0 /\ pc[API] \notin Handing
    BY <1>6 DEF Crash, Free, Token
  <2>2. \A v \in Workers : v # w => pc[v] = "idle"
    BY <2>1 DEF Token
  <2>3. \A p \in Procs : p # w => pc'[p] = pc[p]
    BY <1>1, <1>6 DEF Crash, Goto, TypeOK
  <2>4. \/ pc'[w] = "idle" /\ broker' = 1
        \/ pc'[w] = "dead" /\ broker' = 0
    BY <1>1, <1>6, <2>1 DEF Crash, Goto, TypeOK
  <2> QED
    BY <1>1, <1>6, <2>1, <2>2, <2>3, <2>4 DEF Crash, Token
<1>7. ASSUME NEW w \in Workers, Redeliver(w)
      PROVE  Token'
  BY <1>7 DEF Redeliver, SingleTask, TypeOK
<1>8. ASSUME NEW w \in Workers, Start(w) \/ SetResult(w) \/ SetFailed(w)
      PROVE  Token'
  <2>1. PICK next \in {"work", "ended"} : Outcome(w, next)
    BY <1>8 DEF Start, SetResult, SetFailed
  <2>2. w \in Procs /\ w # API /\ pc[w] \in Commands /\ pc[w] \in Active
    BY <1>1, <1>8 DEF Start, SetResult, SetFailed, Commands, Active
  <2>3. PICK x \in {next} \union CaughtBy(w) : pc' = [pc EXCEPT ![w] = x]
    BY <2>1, <2>2, SingleOutcome
  <2>4. UNCHANGED <<broker, call>>
    BY <1>8 DEF Start, SetResult, SetFailed
  <2>5. \E c \in {"emit", "fail"} : call' = [call EXCEPT ![w] = c]
    BY <1>2, <2>4
  <2>6. x \notin {"initialize", "delay", "returned", "http500"}
    BY <2>2, <2>3 DEF CaughtBy
  <2> QED
    BY <2>2, <2>3, <2>4, <2>5, <2>6, TokenKept
<1>9. ASSUME NEW w \in Workers,
             \/ Acknowledge(w) \/ Emit(w) \/ AgentReturns(w)
             \/ AgentRaises(w) \/ LogFailure(w)
      PROVE  Token'
  <2>1. w \in Procs /\ w # API /\ pc[w] \in Active
    BY <1>1, <1>9 DEF Acknowledge, Emit, AgentReturns, AgentRaises,
                      LogFailure, Active
  <2>2. PICK x \in {"start", "incr", "set_result", "except"} :
          pc' = [pc EXCEPT ![w] = x]
    BY <1>9 DEF Acknowledge, Emit, AgentReturns, AgentRaises, LogFailure, Goto
  <2>3. \E c \in {"emit", "fail"} : call' = [call EXCEPT ![w] = c]
    BY <1>2, <1>9 DEF Acknowledge, Emit, AgentReturns, AgentRaises,
                      LogFailure, Local
  <2>4. UNCHANGED broker
    BY <1>9 DEF Acknowledge, Emit, AgentReturns, AgentRaises, LogFailure
  <2> QED
    BY <2>1, <2>2, <2>3, <2>4, TokenKept
<1>10. ASSUME NEW p \in Procs, Refused(p)
       PROVE  Token'
  <2>1. PICK x \in CaughtBy(p) : pc' = [pc EXCEPT ![p] = x]
    BY <1>10, SingleRefused
  <2>2. pc[p] \in Active
    BY <1>10 DEF Refused, Commands, Appending, Active, Handing
  <2>3. UNCHANGED <<broker, call>>
    BY <1>10 DEF Refused
  <2>4. p # API => \E c \in {"emit", "fail"} : call' = [call EXCEPT ![p] = c]
    BY <1>2, <2>3 DEF Procs
  <2> QED
    BY <2>1, <2>2, <2>3, <2>4, TokenKept DEF CaughtBy
<1>11. CASE UNCHANGED vars
  BY <1>11 DEF vars, Token
<1> QED
  BY <1>1, <1>3, <1>4, <1>5, <1>6, <1>7, <1>8, <1>9, <1>10, <1>11
     DEF Next, HandlerStep, WorkerStep, Environment, AppendEvent

-----------------------------------------------------------------------------
(* The numbering of the events.                                            *)

LEMMA IdsAreNumbers ==
  ASSUME TypeOK
  PROVE  \A i \in 1..Len(log) : log[i].id \in Nat
<1> SUFFICES ASSUME NEW i \in 1..Len(log)
             PROVE  log[i].id \in Nat
  OBVIOUS
<1>1. log \in Seq(Events)
  BY DEF TypeOK
<1>2. log[i] \in Events
  BY <1>1
<1> QED
  BY <1>2 DEF Events

(* Steps that number and store nothing.                                    *)
LEMMA NumberedQuiet ==
  ASSUME Numbered, UNCHANGED <<log, job.event_seq, eid>>,
         pc'[API] = "initialize" => pc[API] = "initialize",
         \A p \in Procs : pc'[p] = "push" => pc[p] = "push"
  PROVE  Numbered'
BY DEF Numbered, LogOrdered, NeverBehindPosition

LEMMA NumberedStep ==
  SingleTask /\ TypeOK /\ Token /\ Numbered /\ [Next]_vars => Numbered'
<1> SUFFICES ASSUME SingleTask, TypeOK, Token, Numbered, [Next]_vars
             PROVE  Numbered'
  OBVIOUS
<1> USE DEF At
<1>1. API \in Procs /\ Workers \subseteq Procs /\ API \notin Workers
  BY DEF Procs
<1>2. CASE InitializeRun(API)
  <2>1. PICK x \in {"incr"} \union CaughtBy(API) : pc' = [pc EXCEPT ![API] = x]
    BY <1>1, <1>2, SingleOutcome DEF InitializeRun, Commands
  <2>2. /\ pc'[API] # "initialize"
        /\ \A p \in Procs : pc'[p] = "push" => pc[p] = "push"
    BY <1>1, <2>1 DEF CaughtBy, TypeOK
  <2>3. job.event_seq = 0 /\ job'.event_seq = 0
    BY <1>2 DEF InitializeRun, Numbered
  <2> QED
    BY <1>2, <2>2, <2>3, NumberedQuiet DEF InitializeRun
<1>3. ASSUME NEW p \in Procs, Incr(p)
      PROVE  Numbered'
  <2>1. PICK x \in {"push"} \union CaughtBy(p) : pc' = [pc EXCEPT ![p] = x]
    BY <1>3, SingleOutcome DEF Incr, Commands, Appending
  <2>2. \A q \in Procs : pc[q] = "push" => q = p
    BY <1>3, OneHolder DEF Incr, Active, Handing
  <2>3. \A q \in Procs : pc'[q] = "push" => q = p
    BY <2>1, <2>2 DEF TypeOK
  <2>4. pc[API] # "initialize" /\ pc'[API] # "initialize"
    <3>1. pc[API] = "initialize" => p = API
      BY <1>1, <1>3, OneHolder DEF Incr, Active, Handing
    <3> QED
      BY <1>1, <1>3, <2>1, <3>1 DEF Incr, CaughtBy, TypeOK
  <2>5. /\ job.event_seq \in Nat /\ job'.event_seq = job.event_seq + 1
        /\ eid'[p] = job.event_seq + 1
        /\ log' = log
    BY <1>3 DEF Incr, TypeOK
  <2>6. \A i \in 1..Len(log) : log[i].id \in Nat
    BY IdsAreNumbers
  <2>7. Len(log) \in Nat
    BY DEF TypeOK
  <2>8. LogOrdered' /\ NeverBehindPosition'
    BY <2>5 DEF Numbered, LogOrdered, NeverBehindPosition
  <2>9. /\ \A i \in 1..Len(log) : log[i].id <= job.event_seq
        /\ Len(log) <= job.event_seq
    BY DEF Numbered
  <2>10. /\ \A i \in 1..Len(log') : log'[i].id < job'.event_seq
         /\ Len(log') < job'.event_seq
    BY <2>5, <2>6, <2>7, <2>9
  <2>11. \A i \in 1..Len(log') : log'[i].id <= job'.event_seq
    BY <2>5, <2>6, <2>10
  <2>12. Len(log') <= job'.event_seq
    BY <2>5, <2>7, <2>10
  <2> QED
    BY <2>3, <2>4, <2>5, <2>8, <2>10, <2>11, <2>12 DEF Numbered
<1>4. ASSUME NEW p \in Procs, Push(p)
      PROVE  Numbered'
  <2>1. PICK x \in {"publish"} \union CaughtBy(p) : pc' = [pc EXCEPT ![p] = x]
    BY <1>4, SingleOutcome DEF Push, Commands, Appending
  <2>2. \A q \in Procs : pc[q] = "push" => q = p
    BY <1>4, OneHolder DEF Push, Active, Handing
  <2>3. \A q \in Procs : pc'[q] # "push"
    BY <1>4, <2>1, <2>2 DEF CaughtBy, TypeOK
  <2>4. pc'[API] # "initialize"
    <3>1. pc[API] = "initialize" => p = API
      BY <1>1, <1>4, OneHolder DEF Push, Active, Handing
    <3> QED
      BY <1>1, <1>4, <2>1, <3>1 DEF Push, CaughtBy, TypeOK
  <2>5. EventOf(p) \in Events /\ EventOf(p).id = eid[p]
    BY DEF EventOf, Events, TypeOK
  <2>6. /\ Len(log) \in Nat
        /\ Len(log') = Len(log) + 1
        /\ \A i \in 1..Len(log) : log'[i] = log[i]
        /\ log'[Len(log) + 1] = EventOf(p)
    BY <1>4, <2>5 DEF Push, TypeOK
  <2>7. /\ eid[p] = job.event_seq
        /\ Len(log) < eid[p]
        /\ \A i \in 1..Len(log) : log[i].id < eid[p]
        /\ job' = job
        /\ eid[p] \in Nat
    BY <1>4 DEF Push, Numbered, TypeOK
  <2>8. \A i \in 1..Len(log) : log[i].id \in Nat
    BY IdsAreNumbers
  <2>9. LogOrdered'
    <3> SUFFICES ASSUME NEW i \in 1..Len(log'), NEW j \in 1..Len(log'), i < j
                 PROVE  log'[i].id < log'[j].id
      BY DEF LogOrdered
    <3>1. i \in 1..Len(log)
      BY <2>6
    <3>2. CASE j \in 1..Len(log)
      BY <2>6, <3>1, <3>2 DEF Numbered, LogOrdered
    <3>3. CASE j = Len(log) + 1
      BY <2>5, <2>6, <2>7, <3>1, <3>3
    <3> QED
      BY <2>6, <3>2, <3>3
  <2>10. NeverBehindPosition'
    BY <2>5, <2>6, <2>7, <2>8 DEF Numbered, NeverBehindPosition
  <2>11. \A i \in 1..Len(log') : log'[i].id <= job'.event_seq
    BY <2>5, <2>6, <2>7, <2>8
  <2> QED
    BY <2>3, <2>4, <2>6, <2>7, <2>9, <2>10, <2>11 DEF Numbered
<1>5. ASSUME NEW p \in Procs, Publish(p)
      PROVE  Numbered'
  <2>1. PICK x \in {AfterAppend(call[p])} \union CaughtBy(p) :
          pc' = [pc EXCEPT ![p] = x]
    BY <1>5, SingleOutcome DEF Publish, Commands, Appending
  <2>2. x \notin {"push", "initialize"}
    BY <2>1 DEF AfterAppend, CaughtBy, TypeOK, Calls
  <2> QED
    BY <1>5, <2>1, <2>2, NumberedQuiet DEF Publish, TypeOK
<1>6. CASE Delay(API)
  <2>1. PICK x \in {"returned"} \union CaughtBy(API) : pc' = [pc EXCEPT ![API] = x]
    BY <1>1, <1>6, SingleOutcome DEF Delay, Commands
  <2> QED
    BY <1>6, <2>1, NumberedQuiet DEF Delay, store, CaughtBy, TypeOK
<1>7. ASSUME NEW w \in Workers, Start(w) \/ SetResult(w) \/ SetFailed(w)
      PROVE  Numbered'
  <2>1. PICK next \in {"work", "ended"} : Outcome(w, next)
    BY <1>7 DEF Start, SetResult, SetFailed
  <2>2. w \in Procs /\ pc[w] \in Commands
    BY <1>1, <1>7 DEF Start, SetResult, SetFailed, Commands
  <2>3. PICK x \in {next} \union CaughtBy(w) : pc' = [pc EXCEPT ![w] = x]
    BY <2>1, <2>2, SingleOutcome
  <2>4. UNCHANGED <<log, eid>> /\ job'.event_seq = job.event_seq
    BY <1>7 DEF Start, SetResult, SetFailed, TypeOK
  <2> QED
    BY <2>3, <2>4, NumberedQuiet DEF CaughtBy, TypeOK
<1>8. ASSUME NEW w \in Workers,
             \/ Acknowledge(w) \/ Emit(w) \/ AgentReturns(w)
             \/ AgentRaises(w) \/ LogFailure(w)
             \/ Reserve(w) \/ Redeliver(w) \/ Crash(w)
      PROVE  Numbered'
  <2>1. UNCHANGED <<job, log, eid>>
    BY <1>8 DEF Acknowledge, Emit, AgentReturns, AgentRaises, LogFailure,
                Reserve, Redeliver, Crash, Local, store
  <2>2. \A q \in Procs : pc'[q] \in {"push", "initialize"} => pc'[q] = pc[q]
    BY <1>8 DEF Acknowledge, Emit, AgentReturns, AgentRaises, LogFailure,
                Reserve, Redeliver, Crash, Goto, TypeOK
  <2> QED
    BY <1>1, <2>1, <2>2, NumberedQuiet
<1>9. ASSUME NEW p \in Procs, Refused(p)
      PROVE  Numbered'
  <2>1. PICK x \in CaughtBy(p) : pc' = [pc EXCEPT ![p] = x]
    BY <1>9, SingleRefused
  <2> QED
    BY <1>9, <2>1, NumberedQuiet DEF Refused, store, CaughtBy, TypeOK
<1>10. CASE UNCHANGED vars
  BY <1>10, NumberedQuiet DEF vars
<1> QED
  BY <1>1, <1>2, <1>3, <1>4, <1>5, <1>6, <1>7, <1>8, <1>9, <1>10
     DEF Next, HandlerStep, WorkerStep, Environment, AppendEvent

-----------------------------------------------------------------------------
(* Failures are explained.                                                 *)

Over(p) == pc[p] \in {"ended", "dead"}

(* Steps that store nothing, bring no process to a point where something   *)
(* must have been stored, and fail no run.                                 *)
LEMMA ExplainingQuiet ==
  ASSUME Explaining, UNCHANGED log,
         \A p \in Procs : pc'[p] = "publish" =>
            pc[p] = "publish" /\ UNCHANGED call[p],
         \A w \in Workers : pc'[w] = "set_failed" => pc[w] = "set_failed",
         \A w \in Workers : Over(w) => Over(w)',
         job'.status = "failed" => job.status = "failed"
  PROVE  Explaining'
BY DEF Explaining, LastIs, Over

LEMMA ExplainingStep ==
  SingleTask /\ TypeOK /\ Token /\ Explaining /\ [Next]_vars => Explaining'
<1> SUFFICES ASSUME SingleTask, TypeOK, Token, Explaining, [Next]_vars
             PROVE  Explaining'
  OBVIOUS
<1> USE DEF At
<1>1. API \in Procs /\ Workers \subseteq Procs /\ API \notin Workers
  BY DEF Procs
<1>2. ASSUME NEW p \in Procs, NEW x, pc' = [pc EXCEPT ![p] = x],
             pc[p] \in Active
      PROVE  /\ pc'[p] = x
             /\ \A q \in Procs : q # p => pc'[q] = pc[q]
             /\ \A w \in Workers : Over(w) => Over(w)'
  BY <1>1, <1>2 DEF TypeOK, Over, Active, Handing
<1>3. ASSUME NEW p \in Procs, (InitializeRun(p) /\ p = API) \/ Incr(p)
      PROVE  Explaining'
  <2>1. PICK next \in {"incr", "push"} : Outcome(p, next)
    BY <1>3 DEF InitializeRun, Incr
  <2>2. pc[p] \in Commands /\ pc[p] \in Active
    BY <1>3 DEF InitializeRun, Incr, Commands, Appending, Active, Handing
  <2>3. PICK x \in {next} \union CaughtBy(p) : pc' = [pc EXCEPT ![p] = x]
    BY <2>1, <2>2, SingleOutcome
  <2>4. x \notin {"publish", "set_failed"}
    BY <2>3 DEF CaughtBy
  <2>5. UNCHANGED <<log, call>> /\ (job'.status = "failed" => job.status = "failed")
    BY <1>3 DEF InitializeRun, Incr, TypeOK
  <2> QED
    BY <1>1, <1>2, <2>2, <2>3, <2>4, <2>5, ExplainingQuiet
<1>4. ASSUME NEW p \in Procs, Push(p)
      PROVE  Explaining'
  <2>1. PICK x \in {"publish"} \union CaughtBy(p) : pc' = [pc EXCEPT ![p] = x]
    BY <1>4, SingleOutcome DEF Push, Commands, Appending
  <2>2. EventOf(p) \in Events /\ EventOf(p).call = call[p]
    BY DEF EventOf, Events, TypeOK
  <2>3. LastIs(call[p])' /\ UNCHANGED <<job, call>>
    BY <1>4, <2>2 DEF Push, LastIs, TypeOK
  <2>4. \A q \in Procs : pc[q] \in Active => q = p
    BY <1>4, OneHolder DEF Push, Active, Handing
  <2>5. \A q \in Procs : pc'[q] = "publish" => q = p
    BY <2>1, <2>4 DEF Active, Handing, TypeOK
  <2>6. \A w \in Workers : pc'[w] # "set_failed"
    BY <1>1, <1>4, <2>1, <2>4 DEF Push, Active, CaughtBy, TypeOK
  <2>7. job.status # "failed"
    <3>1. ASSUME NEW w \in Workers, Over(w)
          PROVE  FALSE
      BY <1>1, <1>4, <3>1 DEF Push, Over, Token, Procs, Handing
    <3> QED
      BY <3>1 DEF Explaining, Over
  <2>8. \A q \in Procs : pc'[q] = "publish" => LastIs(call[q])'
    BY <2>3, <2>5
  <2> QED
    BY <2>3, <2>6, <2>7, <2>8 DEF Explaining
<1>5. ASSUME NEW p \in Procs, Publish(p)
      PROVE  Explaining'
  <2>1. PICK x \in {AfterAppend(call[p])} \union CaughtBy(p) :
          pc' = [pc EXCEPT ![p] = x]
    BY <1>5, SingleOutcome DEF Publish, Commands, Appending
  <2>2. x # "publish" /\ (x = "set_failed" => call[p] = "fail")
    BY <2>1 DEF AfterAppend, CaughtBy, TypeOK, Calls
  <2>3. LastIs(call[p]) /\ UNCHANGED <<log, job, call>>
    BY <1>5 DEF Publish, Explaining
  <2>4. pc[p] \in Active
    BY <1>5 DEF Publish, Active, Handing
  <2>5. /\ pc'[p] = x
        /\ \A q \in Procs : q # p => pc'[q] = pc[q]
        /\ \A w \in Workers : Over(w) => Over(w)'
    BY <1>2, <2>1, <2>4
  <2>6. \A w \in Workers : pc'[w] = "set_failed" => LastIs("fail")
    BY <1>1, <2>2, <2>3, <2>5 DEF Explaining
  <2> QED
    BY <1>1, <2>2, <2>3, <2>5, <2>6 DEF Explaining, LastIs, Over
<1>6. CASE Delay(API)
  <2>1. PICK x \in {"returned"} \union CaughtBy(API) : pc' = [pc EXCEPT ![API] = x]
    BY <1>1, <1>6, SingleOutcome DEF Delay, Commands
  <2>2. pc[API] \in Active
    BY <1>6 DEF Delay, Active, Handing
  <2> QED
    BY <1>1, <1>2, <1>6, <2>1, <2>2, ExplainingQuiet DEF Delay, store, CaughtBy
<1>7. ASSUME NEW w \in Workers, Start(w) \/ SetResult(w)
      PROVE  Explaining'
  <2>1. PICK next \in {"work", "ended"} : Outcome(w, next)
    BY <1>7 DEF Start, SetResult
  <2>2. w \in Procs /\ pc[w] \in Commands /\ pc[w] \in Active
    BY <1>1, <1>7 DEF Start, SetResult, Commands, Active
  <2>3. PICK x \in {next} \union CaughtBy(w) : pc' = [pc EXCEPT ![w] = x]
    BY <2>1, <2>2, SingleOutcome
  <2>4. x \notin {"publish", "set_failed"}
    BY <2>3 DEF CaughtBy
  <2>5. UNCHANGED <<log, call>> /\ job'.status # "failed"
    BY <1>7 DEF Start, SetResult, TypeOK
  <2> QED
    BY <1>1, <1>2, <2>2, <2>3, <2>4, <2>5, ExplainingQuiet
<1>8. ASSUME NEW w \in Workers, SetFailed(w)
      PROVE  Explaining'
  <2>1. w \in Procs /\ pc[w] \in Commands /\ pc[w] \in Active
    BY <1>1, <1>8 DEF SetFailed, Commands, Active
  <2>2. HandlerOf(w) = "dead"
    BY <1>8 DEF SetFailed, HandlerOf, Appending
  <2>3. PICK x \in {"ended", "dead"} : pc' = [pc EXCEPT ![w] = x]
    BY <1>8, <2>2 DEF SetFailed, Outcome, Goto, Raise, FaultOf, SingleTask
  <2>4. LastIs("fail") /\ UNCHANGED <<log, call>>
    BY <1>8 DEF SetFailed, Explaining
  <2>5. pc'[w] = x /\ \A q \in Procs : q # w => pc'[q] = pc[q]
    BY <1>2, <2>1, <2>3
  <2>6. \E v \in Workers : pc'[v] \in {"ended", "dead"}
    BY <2>3, <2>5
  <2>7. /\ \A p \in Procs : pc'[p] = "publish" => pc[p] = "publish"
        /\ \A v \in Workers : pc'[v] = "set_failed" => pc[v] = "set_failed"
    BY <1>1, <2>3, <2>5
  <2> QED
    BY <2>4, <2>6, <2>7 DEF Explaining, LastIs
<1>9. ASSUME NEW w \in Workers,
             \/ Acknowledge(w) \/ Emit(w) \/ AgentReturns(w)
             \/ AgentRaises(w) \/ LogFailure(w)
             \/ Reserve(w) \/ Redeliver(w) \/ Crash(w)
      PROVE  Explaining'
  <2>1. UNCHANGED <<job, log>>
    BY <1>9 DEF Acknowledge, Emit, AgentReturns, AgentRaises, LogFailure,
                Reserve, Redeliver, Crash, Local, store
  <2>2. \A q \in Procs : pc'[q] \in {"publish", "set_failed"} => pc'[q] = pc[q]
    BY <1>9 DEF Acknowledge, Emit, AgentReturns, AgentRaises, LogFailure,
                Reserve, Redeliver, Crash, Goto, TypeOK
  <2>3. \A q \in Procs : pc'[q] = "publish" => call'[q] = call[q]
    BY <1>9 DEF Acknowledge, Emit, AgentReturns, AgentRaises, LogFailure,
                Reserve, Redeliver, Crash, Local, Goto, TypeOK
  <2>4. \A v \in Workers : Over(v) => Over(v)'
    BY <1>1, <1>9, FirstReserve
       DEF Acknowledge, Emit, AgentReturns, AgentRaises, LogFailure,
           Reserve, Redeliver, Crash, Free, Goto, TypeOK, Over
  <2> QED
    BY <1>1, <2>1, <2>2, <2>3, <2>4, ExplainingQuiet
<1>10. ASSUME NEW p \in Procs, Refused(p)
       PROVE  Explaining'
  <2>1. PICK x \in CaughtBy(p) : pc' = [pc EXCEPT ![p] = x]
    BY <1>10, SingleRefused
  <2>2. pc[p] \in Active
    BY <1>10 DEF Refused, Commands, Appending, Active, Handing
  <2> QED
    BY <1>1, <1>2, <1>10, <2>1, <2>2, ExplainingQuiet DEF Refused, store, CaughtBy
<1>11. CASE UNCHANGED vars
  BY <1>11, ExplainingQuiet DEF vars, Over
<1> QED
  BY <1>1, <1>3, <1>4, <1>5, <1>6, <1>7, <1>8, <1>9, <1>10, <1>11
     DEF Next, HandlerStep, WorkerStep, Environment, AppendEvent

-----------------------------------------------------------------------------
LEMMA SingleInit == Init => SingleInv
<1> SUFFICES ASSUME Init
             PROVE  SingleInv
  OBVIOUS
<1>1. \A p \in Procs : pc[p] = IF p = API THEN "initialize" ELSE "idle"
  BY DEF Init
<1>2. \A p \in Procs : call[p] = IF p = API THEN "queue" ELSE "emit"
  BY DEF Init
<1>3. log = <<>> /\ job.event_seq = 0 /\ job.status = "absent" /\ broker = 0
  BY DEF Init
<1>4. Token
  BY <1>1, <1>2, <1>3 DEF Token, Procs, Handing
<1>5. Numbered
  BY <1>1, <1>3 DEF Numbered, LogOrdered, NeverBehindPosition, Procs
<1>6. Explaining
  BY <1>1, <1>3 DEF Explaining, Procs
<1> QED
  BY <1>4, <1>5, <1>6 DEF SingleInv

THEOREM SingleCorrect == SingleTask => (Spec => []SingleInv)
<1> SUFFICES ASSUME SingleTask
             PROVE  Spec => []SingleInv
  OBVIOUS
<1>1. TypeOK /\ SingleInv /\ [Next]_vars => SingleInv'
  BY TokenStep, NumberedStep, ExplainingStep DEF SingleInv
<1> QED
  BY <1>1, SingleInit, TypeCorrect, PTL DEF Spec

(* As long as the task runs once, the stored ids grow along the list and no *)
(* event is stored at a place beyond its id, whatever commands fail and     *)
(* wherever slots crash (runtime_bus.py:61-65).                            *)
THEOREM IdsInOrder == SingleTask => (Spec => []LogOrdered)
<1>1. SingleInv => LogOrdered
  BY DEF SingleInv, Numbered
<1> QED
  BY <1>1, SingleCorrect, PTL

THEOREM ReplayNeverRepeats == SingleTask => (Spec => []NeverBehindPosition)
<1>1. SingleInv => NeverBehindPosition
  BY DEF SingleInv, Numbered
<1> QED
  BY <1>1, SingleCorrect, PTL

(* Until a command meets a fault the ids are the places in the list.  A     *)
(* slot that dies between the two commands leaves a gap in the numbers, but *)
(* nobody is left to store another event behind it.                        *)
Positions == faults = 0 =>
  /\ \A i \in 1..Len(log) : log[i].id = i
  /\ \A p \in Procs : pc[p] = "push" => eid[p] = Len(log) + 1
  /\ (\A p \in Procs : pc[p] \notin {"push", "dead"}) => job.event_seq = Len(log)

LEMMA Faultless ==
  ASSUME TypeOK, NEW p, NEW next, Outcome(p, next), faults' = 0
  PROVE  faults = 0 /\ Goto(p, next)
BY DEF Outcome, FaultOf, TypeOK

LEMMA PositionsQuiet ==
  ASSUME Positions, faults' = 0 => faults = 0,
         UNCHANGED <<log, eid>>, job'.event_seq = job.event_seq,
         \A p \in Procs : /\ pc'[p] = "push" => pc[p] = "push"
                          /\ pc[p] \in {"push", "dead"} => pc'[p] \in {"push", "dead"}
  PROVE  Positions'
BY DEF Positions

LEMMA PositionsStep ==
  SingleTask /\ TypeOK /\ SingleInv /\ Positions /\ [Next]_vars => Positions'
<1> SUFFICES ASSUME SingleTask, TypeOK, Token, Numbered, Positions, [Next]_vars,
                    faults' = 0
             PROVE  Positions'
  BY DEF Positions, SingleInv
<1> USE DEF At
<1>1. API \in Procs /\ Workers \subseteq Procs /\ API \notin Workers
  BY DEF Procs
<1>2. Len(log) \in Nat /\ job.event_seq \in Nat
  BY DEF TypeOK
<1>3. CASE InitializeRun(API)
  <2>1. faults = 0 /\ Goto(API, "incr")
    BY <1>3, Faultless DEF InitializeRun
  <2>2. job'.event_seq = job.event_seq
    BY <1>3 DEF InitializeRun, Numbered
  <2> QED
    BY <1>3, <2>1, <2>2, PositionsQuiet DEF InitializeRun, Goto, TypeOK
<1>4. ASSUME NEW p \in Procs, Incr(p)
      PROVE  Positions'
  <2>1. faults = 0 /\ Goto(p, "push")
    BY <1>4, Faultless DEF Incr
  <2>2. \A q \in Procs : pc[q] \notin {"push", "dead"}
    <3>1. \A q \in Procs : pc[q] = "push" => q = p
      BY <1>4, OneHolder DEF Incr, Active, Handing
    <3>2. \A w \in Workers : pc[w] = "dead" => w = p
      BY <1>1, <1>4 DEF Incr, Token, Handing, Procs
    <3> QED
      BY <1>4, <3>1, <3>2 DEF Incr, Token, Procs, Handing
  <2>3. job.event_seq = Len(log) /\ log' = log
    BY <1>4, <2>1, <2>2 DEF Positions, Incr
  <2>4. eid'[p] = Len(log) + 1 /\ pc'[p] = "push"
    BY <1>4, <2>1, <2>3 DEF Incr, Goto, TypeOK
  <2>5. \A q \in Procs : pc'[q] = "push" => q = p
    BY <2>1, <2>2 DEF Goto, TypeOK
  <2> QED
    BY <2>1, <2>3, <2>4, <2>5 DEF Positions
<1>5. ASSUME NEW p \in Procs, Push(p)
      PROVE  Positions'
  <2>1. faults = 0 /\ Goto(p, "publish")
    BY <1>5, Faultless DEF Push
  <2>2. \A q \in Procs : pc[q] = "push" => q = p
    BY <1>5, OneHolder DEF Push, Active, Handing
  <2>3. \A q \in Procs : pc'[q] # "push"
    BY <2>1, <2>2 DEF Goto, TypeOK
  <2>4. EventOf(p) \in Events /\ EventOf(p).id = eid[p]
    BY DEF EventOf, Events, TypeOK
  <2>5. /\ Len(log') = Len(log) + 1
        /\ \A i \in 1..Len(log) : log'[i] = log[i]
        /\ log'[Len(log) + 1] = EventOf(p)
    BY <1>5, <2>4 DEF Push, TypeOK
  <2>6. eid[p] = Len(log) + 1 /\ job' = job /\ job.event_seq = eid[p]
    BY <1>5, <2>1 DEF Push, Positions, Numbered
  <2>7. \A i \in 1..Len(log') : log'[i].id = i
    BY <1>2, <2>1, <2>4, <2>5, <2>6 DEF Positions
  <2> QED
    BY <2>3, <2>5, <2>6, <2>7 DEF Positions
<1>6. ASSUME NEW p \in Procs, NEW next \in {"delay", "work", "set_failed", "returned", "ended"},
             Outcome(p, next), pc[p] \notin {"push", "dead"},
             UNCHANGED <<log, eid>>, job'.event_seq = job.event_seq
      PROVE  Positions'
  <2>1. faults = 0 /\ Goto(p, next)
    BY <1>6, Faultless
  <2> QED
    BY <1>6, <2>1, PositionsQuiet DEF Goto, TypeOK
<1>7. ASSUME NEW p \in Procs, Publish(p)
      PROVE  Positions'
  <2>1. AfterAppend(call[p]) \in {"delay", "work", "set_failed"}
    BY DEF TypeOK, AfterAppend, Calls
  <2> QED
    BY <1>6, <1>7, <2>1 DEF Publish
<1>8. CASE Delay(API)
  BY <1>1, <1>6, <1>8 DEF Delay, store
<1>9. ASSUME NEW w \in Workers, Start(w) \/ SetResult(w) \/ SetFailed(w)
      PROVE  Positions'
  <2>1. UNCHANGED <<log, eid>> /\ job'.event_seq = job.event_seq
    BY <1>9 DEF Start, SetResult, SetFailed, TypeOK
  <2> QED
    BY <1>1, <1>6, <1>9, <2>1 DEF Start, SetResult, SetFailed
<1>10. ASSUME NEW w \in Workers,
              \/ Acknowledge(w) \/ Emit(w) \/ AgentReturns(w)
              \/ AgentRaises(w) \/ LogFailure(w)
              \/ Reserve(w) \/ Redeliver(w) \/ Crash(w)
       PROVE  Positions'
  <2>1. UNCHANGED <<job, log, eid, faults>>
    BY <1>10 DEF Acknowledge, Emit, AgentReturns, AgentRaises, LogFailure,
                 Reserve, Redeliver, Crash, Local, store
  <2>2. \A q \in Procs :
          /\ pc'[q] = "push" => pc[q] = "push"
          /\ pc[q] \in {"push", "dead"} => pc'[q] \in {"push", "dead"}
    BY <1>1, <1>10, FirstReserve
       DEF Acknowledge, Emit, AgentReturns, AgentRaises, LogFailure,
           Reserve, Redeliver, Crash, Free, Goto, TypeOK
  <2> QED
    BY <2>1, <2>2, PositionsQuiet
<1>11. ASSUME NEW p \in Procs, Refused(p)
       PROVE  FALSE
  BY <1>11 DEF Refused, FaultOf, TypeOK
<1>12. CASE UNCHANGED vars
  BY <1>12, PositionsQuiet DEF vars
<1> QED
  BY <1>1, <1>3, <1>4, <1>5, <1>7, <1>8, <1>9, <1>10, <1>11, <1>12
     DEF Next, HandlerStep, WorkerStep, Environment, AppendEvent

(* While no command met a fault, an id is a place in the list, which is     *)
(* what replay_events takes it for (runtime_bus.py:96,132).                *)
THEOREM IdsArePositions == SingleTask => (Spec => []IdIsPosition)
<1> SUFFICES ASSUME SingleTask
             PROVE  Spec => []IdIsPosition
  OBVIOUS
<1>1. Init => Positions
  BY DEF Init, Positions, Procs
<1>2. TypeOK /\ SingleInv /\ Positions /\ [Next]_vars => Positions'
  BY PositionsStep
<1>3. Positions => IdIsPosition
  BY DEF Positions, IdIsPosition
<1> QED
  BY <1>1, <1>2, <1>3, SingleCorrect, TypeCorrect, PTL DEF Spec

(* A failed run ends its log with the event that explains it, even when     *)
(* replies of Redis are lost (supervisor_tasks.py:38-49,51-62).            *)
THEOREM FailuresExplained == SingleTask => (Spec => []FailureIsExplained)
<1>1. SingleInv => FailureIsExplained
  BY DEF SingleInv, Explaining, LastIs, FailureIsExplained
<1> QED
  BY <1>1, SingleCorrect, PTL

-----------------------------------------------------------------------------
(* The record follows the run when no command fails after it took effect.  *)

LEMMA CleanIsSingle == CleanFaults => SingleTask
BY DEF CleanFaults, SingleTask

LEMMA CleanOutcome ==
  ASSUME CleanFaults, NEW p, NEW next, Outcome(p, next)
  PROVE  pc' = [pc EXCEPT ![p] = next]
BY DEF CleanFaults, Outcome, Goto, FaultOf

Running == {"work", "except", "set_result", "set_failed"} \union Appending

(* A step of the holder within the same status.                            *)
LEMMA RecordedKept ==
  ASSUME TypeOK, Token, Recorded, NEW p \in Procs, pc[p] \in Active,
         NEW x, pc' = [pc EXCEPT ![p] = x],
         UNCHANGED <<broker, job.status, job.result, job.error>>,
         p = API => \/ x \in {"returned", "http500"}
                    \/ x \in Handing \ {"initialize"} /\ job.status = "queued",
         p # API => \/ x = "start" /\ job.status = "queued"
                    \/ x \in Running /\ job.status = "running"
                    \/ x = "dead" /\ job.status \notin Terminal
  PROVE  Recorded'
<1>1. VerdictIsConsistent'
  BY DEF Recorded, VerdictIsConsistent
<1>2. \A q \in Procs : q # p => pc'[q] = pc[q]
  BY DEF TypeOK
<1>3. pc'[p] = x
  BY DEF TypeOK
<1>4. \A w \in Workers : pc[w] = "ended" => pc'[w] = "ended"
  BY <1>2 DEF Active, Handing, Procs
<1>5. CASE p = API
  BY <1>1, <1>2, <1>3, <1>4, <1>5, ProcAssumption
     DEF Recorded, Procs, Handing, Appending
<1>6. CASE p # API
  <2>1. p \in Workers /\ pc'[API] = pc[API]
    BY <1>2, <1>6 DEF Procs
  <2> QED
    BY <1>1, <1>2, <1>3, <1>4, <1>6, <2>1, ProcAssumption
       DEF Recorded, Procs, Running, Appending
<1> QED
  BY <1>5, <1>6

LEMMA RecordedStep ==
  CleanFaults /\ TypeOK /\ Token /\ Recorded /\ [Next]_vars => Recorded'
<1> SUFFICES ASSUME CleanFaults, TypeOK, Token, Recorded, [Next]_vars
             PROVE  Recorded'
  OBVIOUS
<1> USE DEF At
<1>1. API \in Procs /\ Workers \subseteq Procs /\ API \notin Workers
  BY DEF Procs
<1>2. CASE InitializeRun(API)
  <2>1. pc' = [pc EXCEPT ![API] = "incr"]
    BY <1>2, CleanOutcome DEF InitializeRun
  <2>2. /\ pc'[API] = "incr"
        /\ \A w \in Workers : pc'[w] = "idle"
    BY <1>1, <1>2, <2>1 DEF InitializeRun, Token, Handing, TypeOK
  <2>3. job'.status = "queued" /\ ~job'.result /\ ~job'.error
    BY <1>2 DEF InitializeRun
  <2> QED
    BY <2>2, <2>3 DEF Recorded, VerdictIsConsistent, Terminal, Appending
<1>3. ASSUME NEW p \in Procs, Incr(p) \/ Push(p) \/ Publish(p)
      PROVE  Recorded'
  <2>1. PICK x \in {"push", "publish", AfterAppend(call[p])} :
          pc' = [pc EXCEPT ![p] = x]
    BY <1>3, CleanOutcome DEF Incr, Push, Publish
  <2>2. /\ pc[p] \in Appending /\ pc[p] \in Active
        /\ UNCHANGED <<broker, job.status, job.result, job.error>>
    BY <1>3 DEF Incr, Push, Publish, Appending, Active, Handing, TypeOK
  <2>3. CASE p = API
    <3>1. x \in {"push", "publish", "delay"}
      BY <2>1, <2>3 DEF AfterAppend, Token
    <3>2. job.status = "queued"
      BY <2>2, <2>3 DEF Recorded, Handing, Appending
    <3> QED
      BY <2>1, <2>2, <2>3, <3>1, <3>2, RecordedKept DEF Handing
  <2>4. CASE p # API
    <3>1. x \in {"push", "publish", "work", "set_failed"}
      BY <2>1, <2>4 DEF AfterAppend, Token, Procs
    <3>2. job.status = "running"
      BY <2>2, <2>4 DEF Recorded, Procs
    <3> QED
      BY <2>1, <2>2, <2>4, <3>1, <3>2, RecordedKept DEF Running, Appending
  <2> QED
    BY <2>3, <2>4
<1>4. CASE Delay(API)
  <2>1. pc' = [pc EXCEPT ![API] = "returned"]
    BY <1>4, CleanOutcome DEF Delay
  <2>2. /\ pc'[API] = "returned"
        /\ \A w \in Workers : pc'[w] = pc[w]
    BY <1>1, <2>1 DEF TypeOK
  <2>3. job.status = "queued" /\ job' = job
    BY <1>4 DEF Delay, Recorded, Handing, store
  <2> QED
    BY <2>2, <2>3 DEF Recorded, VerdictIsConsistent, Handing, Terminal
<1>5. ASSUME NEW w \in Workers, Reserve(w)
      PROVE  Recorded'
  <2>1. job.status = "queued" /\ job' = job /\ broker' = 0
    BY <1>5 DEF Reserve, Recorded, Token, Local, store
  <2>2. pc'[w] = "reserved" /\ \A q \in Procs : q # w => pc'[q] = pc[q]
    BY <1>1, <1>5 DEF Reserve, Goto, TypeOK
  <2>3. pc'[API] = pc[API] /\ \A v \in Workers : v # w => pc'[v] = pc[v]
    BY <1>1, <2>2
  <2> QED
    BY <2>1, <2>2, <2>3
       DEF Recorded, VerdictIsConsistent, Terminal, Appending
<1>6. ASSUME NEW w \in Workers, Crash(w), pc[w] = "reserved"
      PROVE  Recorded'
  <2>1. job.status = "queued" /\ job' = job
    BY <1>6 DEF Crash, Recorded, store
  <2>2. pc'[w] = "idle" /\ \A q \in Procs : q # w => pc'[q] = pc[q]
    BY <1>1, <1>6 DEF Crash, Goto, TypeOK
  <2>3. pc'[API] = pc[API] /\ \A v \in Workers : v # w => pc'[v] = pc[v]
    BY <1>1, <2>2
  <2> QED
    BY <2>1, <2>2, <2>3
       DEF Recorded, VerdictIsConsistent, Terminal, Appending
<1>7. ASSUME NEW w \in Workers, Crash(w), pc[w] # "reserved"
      PROVE  Recorded'
  <2>1. /\ pc' = [pc EXCEPT ![w] = "dead"]
        /\ UNCHANGED <<broker, job.status, job.result, job.error>>
    BY <1>7 DEF Crash, Goto, store
  <2>2. w \in Procs /\ w # API /\ pc[w] \in Active
    BY <1>1, <1>7 DEF Crash, Free, TypeOK, Token, Active, Handing, Points,
                      Commands, Appending
  <2>3. job.status \notin Terminal
    BY <1>7, <2>2 DEF Crash, Token, Recorded, Active, Handing, Appending, Terminal
  <2> QED
    BY <2>1, <2>2, <2>3, RecordedKept
<1>8. ASSUME NEW w \in Workers, Redeliver(w)
      PROVE  Recorded'
  BY <1>8 DEF Redeliver, CleanFaults, TypeOK
<1>9. ASSUME NEW w \in Workers, Start(w)
      PROVE  Recorded'
  <2>1. pc' = [pc EXCEPT ![w] = "work"]
    BY <1>9, CleanOutcome DEF Start
  <2>2. pc'[w] = "work" /\ \A q \in Procs : q # w => pc'[q] = pc[q]
    BY <1>1, <2>1 DEF TypeOK
  <2>3. /\ pc'[API] = pc[API] /\ pc[API] \notin Handing /\ broker' = 0
        /\ \A v \in Workers : v # w => pc'[v] = "idle"
    BY <1>1, <1>9, <2>2 DEF Start, Token
  <2>4. job.status = "queued" /\ job'.status = "running" /\ ~job'.result /\ ~job'.error
    BY <1>9 DEF Start, Recorded, Terminal, TypeOK
  <2> QED
    BY <2>2, <2>3, <2>4
       DEF Recorded, VerdictIsConsistent, Terminal, Appending, Handing
<1>10. ASSUME NEW w \in Workers, SetResult(w) \/ SetFailed(w)
       PROVE  Recorded'
  <2>1. pc' = [pc EXCEPT ![w] = "ended"]
    BY <1>10, CleanOutcome DEF SetResult, SetFailed
  <2>2. pc'[w] = "ended" /\ \A q \in Procs : q # w => pc'[q] = pc[q]
    BY <1>1, <2>1 DEF TypeOK
  <2>3. /\ pc'[API] = pc[API] /\ pc[API] \notin Handing /\ broker' = 0
        /\ \A v \in Workers : v # w => pc'[v] = "idle"
    BY <1>1, <1>10, <2>2 DEF SetResult, SetFailed, Token
  <2>4. job.status = "running" /\ ~job.result /\ ~job.error
    BY <1>10 DEF SetResult, SetFailed, Recorded, Terminal
  <2>5. CASE SetResult(w)
    <3>1. job' = [job EXCEPT !.status = "succeeded", !.result = TRUE]
      BY <2>5 DEF SetResult
    <3>2. /\ job'.status = "succeeded" /\ job'.result
          /\ job'.error = job.error
      BY <3>1 DEF TypeOK
    <3> QED
      BY <2>2, <2>3, <2>4, <3>2
      DEF VerdictIsConsistent, Terminal, Recorded, Appending, Handing
  <2>6. CASE SetFailed(w)
    <3>1. job' = [job EXCEPT !.status = "failed", !.error = TRUE]
      BY <2>6 DEF SetFailed
    <3>2. /\ job'.status = "failed" /\ job'.error
          /\ job'.result = job.result
      BY <3>1 DEF TypeOK
    <3> QED
      BY <2>2, <2>3, <2>4, <3>2
      DEF VerdictIsConsistent, Terminal, Recorded, Appending, Handing
  <2> QED
    BY <1>10, <2>5, <2>6
<1>11. ASSUME NEW w \in Workers,
              \/ Acknowledge(w) \/ Emit(w) \/ AgentReturns(w)
              \/ AgentRaises(w) \/ LogFailure(w)
       PROVE  Recorded'
  <2>1. PICK x \in {"start", "incr", "set_result", "except"} :
          /\ pc' = [pc EXCEPT ![w] = x]
          /\ x = "start" => pc[w] = "reserved"
          /\ x # "start" => pc[w] \in {"work", "except"}
    BY <1>11 DEF Acknowledge, Emit, AgentReturns, AgentRaises, LogFailure, Goto
  <2>2. /\ w \in Procs /\ w # API /\ pc[w] \in Active
        /\ UNCHANGED <<broker, job>>
    BY <1>1, <1>11 DEF Acknowledge, Emit, AgentReturns, AgentRaises,
                       LogFailure, Active, Local, store
  <2>3. \/ x = "start" /\ job.status = "queued"
        \/ x \in Running /\ job.status = "running"
    BY <2>1 DEF Recorded, Running, Appending
  <2> QED
    BY <2>1, <2>2, <2>3, RecordedKept
<1>12. ASSUME NEW p \in Procs, Refused(p)
       PROVE  Recorded'
  <2>1. PICK x \in CaughtBy(p) :
          pc' = [pc EXCEPT ![p] = x] /\ x = HandlerOf(p)
    <3>1. HandlerOf(p) \in CaughtBy(p)
      BY <1>12 DEF Refused, Token, HandlerOf, AppendRaises, CaughtBy, Procs,
                   Commands, Handing, Appending
    <3> QED
      BY <1>12, <3>1 DEF Refused, Raise, Goto
  <2>2. pc[p] \in Active /\ UNCHANGED <<broker, job>>
    BY <1>12 DEF Refused, Commands, Appending, Active, Handing, store
  <2>3. CASE p = API
    BY <2>1, <2>2, <2>3, RecordedKept DEF CaughtBy
  <2>4. CASE p # API
    <3>1. p \in Workers /\ pc[p] \in Commands \ {"initialize", "delay"}
      BY <1>12, <2>4 DEF Refused, Procs, Token
    <3>2. job.status \notin Terminal
      BY <3>1 DEF Recorded, Commands, Appending, Terminal
    <3>3. x \in {"work", "except"} => job.status = "running"
      BY <2>1, <3>1 DEF HandlerOf, Recorded, Commands, Appending
    <3>4. x \in {"work", "except", "dead"}
      BY <2>1, <2>4 DEF CaughtBy
    <3> QED
      BY <2>1, <2>2, <2>4, <3>2, <3>3, <3>4, RecordedKept DEF Running
  <2> QED
    BY <2>3, <2>4
<1>13. CASE UNCHANGED vars
  BY <1>13 DEF vars, Recorded, VerdictIsConsistent
<1> QED
  BY <1>1, <1>2, <1>3, <1>4, <1>5, <1>6, <1>7, <1>8, <1>9, <1>10, <1>11,
     <1>12, <1>13 DEF Next, HandlerStep, WorkerStep, Environment, AppendEvent

LEMMA RecordedInit == Init => Recorded
<1> SUFFICES ASSUME Init
             PROVE  Recorded
  OBVIOUS
<1>1. \A p \in Procs : pc[p] = IF p = API THEN "initialize" ELSE "idle"
  BY DEF Init
<1> QED
  BY <1>1 DEF Init, Recorded, VerdictIsConsistent, Terminal, Procs, Handing, Appending

CleanInv == TypeOK /\ SingleInv /\ Recorded

THEOREM CleanCorrect == CleanFaults => (Spec => []CleanInv)
<1> SUFFICES ASSUME CleanFaults
             PROVE  Spec => []CleanInv
  OBVIOUS
<1>1. SingleTask
  BY CleanIsSingle
<1>2. TypeOK /\ SingleInv /\ Recorded /\ [Next]_vars => Recorded'
  BY RecordedStep DEF SingleInv
<1>3. Spec => []SingleInv
  BY <1>1, SingleCorrect
<1>4. TypeOK /\ SingleInv /\ Recorded => CleanInv
  BY DEF CleanInv
<1> QED
  BY <1>2, <1>3, <1>4, RecordedInit, TypeCorrect, PTL DEF Spec

(* The record holds a result exactly for a success and an error exactly for *)
(* a failure, unless replies of Redis are lost (runtime_bus.py:69-78).     *)
THEOREM VerdictsConsistent == CleanFaults => (Spec => []VerdictIsConsistent)
<1>1. CleanInv => VerdictIsConsistent
  BY DEF CleanInv, Recorded
<1> QED
  BY <1>1, CleanCorrect, PTL

-----------------------------------------------------------------------------
(* Nothing follows a terminal status.                                      *)

LEMMA OverIsQuiet ==
  ASSUME TypeOK, Token, [Next]_vars, NEW w \in Workers, Over(w)
  PROVE  UNCHANGED store
<1>1. \A p \in Procs : pc[p] \notin Active
  BY DEF Over, Token, Procs, Active, Handing
<1>2. \A p \in Procs : pc[p] \notin Commands
  BY <1>1 DEF Active, Commands, Handing, Appending, Token, Procs
<1> QED
  BY <1>2 DEF Next, HandlerStep, WorkerStep, Environment, AppendEvent, vars,
     InitializeRun, Incr, Push, Publish, Delay, Reserve, Acknowledge, Redeliver,
     Crash, Start, Emit, AgentReturns, AgentRaises, LogFailure, SetResult,
     SetFailed, Refused, At, Local, store, Commands, Appending, Procs

(* Once a run succeeded or failed, its hash, its list and its channel stay  *)
(* as they are, unless replies of Redis are lost (supervisor_tasks.py:29-62). *)
THEOREM Finality == CleanFaults => (Spec => TerminalIsFinal)
<1>1. CleanInv /\ [Next]_vars => [job.status \in Terminal => UNCHANGED store]_store
  BY OverIsQuiet DEF CleanInv, SingleInv, Recorded, Over
<1> QED
  BY <1>1, CleanCorrect, PTL DEF Spec, TerminalIsFinal

(* A failure is never recalled while the task runs once, even when replies  *)
(* of Redis are lost (supervisor_tasks.py:49,62).                          *)
THEOREM FailuresStand == SingleTask => (Spec => FailureStands)
<1>1. /\ TypeOK /\ SingleInv /\ [Next]_vars
      => [job.status = "failed" => job'.status = "failed"]_store
  <2> SUFFICES ASSUME TypeOK, SingleInv, [Next]_vars, job.status = "failed"
               PROVE  job'.status = "failed"
    OBVIOUS
  <2>1. PICK w \in Workers : Over(w)
    BY DEF SingleInv, Explaining, Over
  <2> QED
    BY <2>1, OverIsQuiet DEF SingleInv, store
<1> QED
  BY <1>1, SingleCorrect, TypeCorrect, PTL DEF Spec, FailureStands

-----------------------------------------------------------------------------
(* RunBus implements RunLifecycle.                                         *)

LEMMA LifecycleStep ==
  ASSUME CleanFaults, CleanInv, [Next]_vars
  PROVE  [Lifecycle!Next]_(Lifecycle!vars)
<1> USE DEF At
<1>1. API \in Procs /\ Workers \subseteq Procs /\ API \notin Workers
  BY DEF Procs
<1>2. TypeOK /\ Token /\ Numbered /\ Explaining /\ Recorded
  BY DEF CleanInv, SingleInv
<1>3. CASE InitializeRun(API)
  BY <1>2, <1>3 DEF InitializeRun, Recorded, Lifecycle!Next, Lifecycle!Accept
<1>4. ASSUME NEW p \in Procs, Push(p)
      PROVE  Lifecycle!Next
  <2>1. job.status \in {"queued", "running"} /\ job' = job
    BY <1>2, <1>4 DEF Push, Recorded, Procs, Handing, Appending
  <2>2. EventOf(p) \in [id : Nat, call : Calls] /\ EventOf(p).id = eid[p]
    BY <1>2 DEF EventOf, TypeOK
  <2>3. log \in Seq(Events) /\ EventOf(p) \in Events
    BY <1>2, <2>2 DEF TypeOK, Events
  <2>4. /\ log' = Append(log, EventOf(p))
        /\ Len(log') = Len(log) + 1
        /\ log'[Len(log) + 1] = EventOf(p)
    BY <1>4, <2>3 DEF Push
  <2>5. \A i \in 1..Len(log) : log[i].id < EventOf(p).id
    BY <1>2, <1>4, <2>2 DEF Push, Numbered
  <2>6. Lifecycle!Record
    BY <2>1, <2>2, <2>4, <2>5
       DEF Lifecycle!Record, Lifecycle!Live, Lifecycle!Follows
  <2> QED
    BY <2>6 DEF Lifecycle!Next
<1>5. ASSUME NEW w \in Workers, Start(w)
      PROVE  Lifecycle!Next
  <2>1. job.status = "queued" /\ job'.status = "running" /\ log' = log
    BY <1>2, <1>5 DEF Start, Recorded, TypeOK
  <2> QED
    BY <2>1 DEF Lifecycle!Next, Lifecycle!Begin
<1>6. ASSUME NEW w \in Workers, SetResult(w)
      PROVE  Lifecycle!Next
  <2>1. job.status = "running" /\ job'.status = "succeeded" /\ log' = log
    BY <1>2, <1>6 DEF SetResult, Recorded, TypeOK
  <2> QED
    BY <2>1 DEF Lifecycle!Next, Lifecycle!End, Lifecycle!Terminal
<1>7. ASSUME NEW w \in Workers, SetFailed(w)
      PROVE  Lifecycle!Next
  <2>1. job.status = "running" /\ job'.status = "failed" /\ log' = log
    BY <1>2, <1>7 DEF SetFailed, Recorded, TypeOK
  <2>2. Lifecycle!Explained(log)
    BY <1>2, <1>7 DEF SetFailed, Explaining, LastIs, Lifecycle!Explained
  <2> QED
    BY <2>1, <2>2 DEF Lifecycle!Next, Lifecycle!End, Lifecycle!Terminal
<1>8. ASSUME \/ \E p \in Procs : Incr(p) \/ Publish(p) \/ Refused(p)
             \/ Delay(API)
             \/ \E w \in Workers :
                  \/ Acknowledge(w) \/ Emit(w) \/ AgentReturns(w)
                  \/ AgentRaises(w) \/ LogFailure(w)
                  \/ Reserve(w) \/ Redeliver(w) \/ Crash(w)
             \/ UNCHANGED vars
      PROVE  UNCHANGED Lifecycle!vars
  <2>1. log' = log /\ job'.status = job.status
    BY <1>2, <1>8 DEF Incr, Publish, Refused, Delay, Acknowledge, Emit,
       AgentReturns, AgentRaises, LogFailure, Reserve, Redeliver, Crash,
       Local, store, vars, TypeOK
  <2> QED
    BY <2>1 DEF Lifecycle!vars
<1> QED
  BY <1>1, <1>3, <1>4, <1>5, <1>6, <1>7, <1>8
     DEF Next, HandlerStep, WorkerStep, Environment, AppendEvent

(* Seen through the status in its hash and its event list, a run does what  *)
(* RunLifecycle allows, unless replies of Redis are lost.                  *)
THEOREM Implementation == CleanFaults => (Spec => ImplementsLifecycle)
<1>1. Init => Lifecycle!Init
  BY DEF Init, Lifecycle!Init
<1> SUFFICES ASSUME CleanFaults
             PROVE  Spec => ImplementsLifecycle
  OBVIOUS
<1>2. CleanInv /\ [Next]_vars => [Lifecycle!Next]_(Lifecycle!vars)
  BY LifecycleStep
<1>3. Spec => []CleanInv
  BY CleanCorrect
<1> QED
  BY <1>1, <1>2, <1>3, PTL DEF Spec, ImplementsLifecycle, Lifecycle!Spec
-----------------------------------------------------------------------------
(* An accepted run is not forgotten.                                       *)

AtWork(w) == pc[w] \notin {"idle", "ended"}

Known == job.status \in Terminal \/ broker > 0 \/ \E w \in Workers : AtWork(w)

Accepted == pc[API] = "returned"

Held == Accepted => Known

(* An exception brings no process to rest, and answers no request.         *)
LEMMA HandlersGoOn ==
  ASSUME TypeOK, NEW p \in Procs, pc[p] \in Commands
  PROVE  HandlerOf(p) \in Points \ {"idle", "ended", "returned"}
<1>1. call[p] \in Calls
  BY DEF TypeOK
<1>2. AppendRaises(call[p]) \in {"http500", "work", "dead"}
  BY <1>1 DEF AppendRaises, Calls
<1> QED
  BY <1>2 DEF HandlerOf, Commands, Appending, Points

LEMMA OutcomesGoOn ==
  ASSUME TypeOK, NEW p \in Procs, pc[p] \in Commands, NEW next \in Points,
         Outcome(p, next)
  PROVE  /\ pc'[p] \in {next, pc[p], HandlerOf(p)}
         /\ \A q \in Procs \ {p} : pc'[q] = pc[q]
BY DEF TypeOK, Outcome, Goto, Raise

LEMMA AppendsGoOn ==
  ASSUME TypeOK, NEW p \in Procs, AppendEvent(p)
  PROVE  /\ pc'[p] \notin {"idle", "ended", "returned"}
         /\ \A q \in Procs \ {p} : pc'[q] = pc[q]
<1>1. AfterAppend(call[p]) \in {"delay", "work", "set_failed"}
  BY DEF TypeOK, AfterAppend, Calls
<1>2. PICK next \in {"push", "publish", "delay", "work", "set_failed"} :
        pc[p] \in Appending /\ Outcome(p, next)
  BY <1>1 DEF AppendEvent, Incr, Push, Publish, At, Appending
<1>3. next \in Points /\ pc[p] \in Commands
  BY <1>2 DEF Points, Commands, Appending
<1> QED
  BY <1>2, <1>3, OutcomesGoOn, HandlersGoOn DEF Appending

(* The handler returns only after the broker has the task.                 *)
LEMMA AcceptedIsQueued ==
  ASSUME TypeOK, HandlerStep, Accepted'
  PROVE  broker' > 0
<1>1. API \in Procs /\ broker \in Nat
  BY DEF Procs, TypeOK
<1>2. CASE InitializeRun(API)
  <2>1. pc[API] \in Commands /\ "incr" \in Points /\ Outcome(API, "incr")
    BY <1>2 DEF InitializeRun, At, Commands, Points, Appending
  <2> QED
    BY <1>1, <1>2, <2>1, OutcomesGoOn, HandlersGoOn DEF Accepted, InitializeRun, At
<1>3. CASE AppendEvent(API)
  BY <1>1, <1>3, AppendsGoOn DEF Accepted
<1>4. CASE Delay(API)
  BY <1>1, <1>4 DEF Delay
<1> QED
  BY <1>2, <1>3, <1>4 DEF HandlerStep

(* Whatever a slot does with the task, it, the broker or the record still  *)
(* knows of it afterwards.                                                 *)
LEMMA SlotsKeep ==
  ASSUME TypeOK, NEW w \in Workers, WorkerStep(w) \/ Redeliver(w) \/ Crash(w)
  PROVE  Known' /\ pc'[API] = pc[API]
<1>1. w \in Procs /\ API \in Procs \ {w} /\ broker \in Nat /\ pc \in [Procs -> Points]
  BY DEF Procs, TypeOK
<1>2. CASE Reserve(w) \/ Acknowledge(w) \/ Emit(w) \/ AgentReturns(w) \/ AgentRaises(w)
           \/ LogFailure(w)
  BY <1>1, <1>2 DEF Reserve, Acknowledge, Emit, AgentReturns, AgentRaises, LogFailure,
                    Goto, Known, AtWork
<1>3. CASE Start(w)
  <2>1. pc[w] \in Commands /\ "work" \in Points /\ Outcome(w, "work")
    BY <1>3 DEF Start, At, Commands, Points
  <2>2. AtWork(w)'
    BY <1>1, <1>3, <2>1, OutcomesGoOn, HandlersGoOn DEF Start, At, AtWork
  <2> QED
    BY <1>1, <2>1, <2>2, OutcomesGoOn DEF Known
<1>4. CASE AppendEvent(w)
  BY <1>1, <1>4, AppendsGoOn DEF Known, AtWork
<1>5. CASE SetResult(w) \/ SetFailed(w)
  <2>1. pc[w] \in Commands /\ "ended" \in Points /\ Outcome(w, "ended")
    BY <1>5 DEF SetResult, SetFailed, At, Commands, Points
  <2>2. job'.status \in Terminal
    BY <1>5 DEF SetResult, SetFailed, TypeOK, Terminal
  <2> QED
    BY <1>1, <2>1, <2>2, OutcomesGoOn DEF Known
<1>6. CASE Redeliver(w) \/ Crash(w)
  BY <1>1, <1>6 DEF Redeliver, Crash, Goto, Known, AtWork
<1> QED
  BY <1>2, <1>3, <1>4, <1>5, <1>6 DEF WorkerStep

LEMMA HeldStep == TypeOK /\ Held /\ [Next]_vars => Held'
<1> SUFFICES ASSUME TypeOK, Held, [Next]_vars, Accepted'
             PROVE  Known'
  BY DEF Held
<1>1. CASE HandlerStep
  BY <1>1, AcceptedIsQueued DEF Known
<1>2. ASSUME NEW w \in Workers, WorkerStep(w) \/ Redeliver(w) \/ Crash(w)
      PROVE  Known'
  BY <1>2, SlotsKeep
<1>3. ASSUME NEW p \in Procs, Refused(p) PROVE Known'
  <2>1. pc[p] \in Commands /\ pc' = [pc EXCEPT ![p] = HandlerOf(p)]
    BY <1>3 DEF Refused, Raise, Goto
  <2>2. pc'[p] \notin {"idle", "ended", "returned"}
    BY <2>1, HandlersGoOn DEF TypeOK
  <2> QED
    BY <2>2 DEF Procs, Known, AtWork, Accepted
<1>4. CASE UNCHANGED vars
  BY <1>4 DEF vars, Held, Known, AtWork, Accepted
<1> QED
  BY <1>1, <1>2, <1>3, <1>4 DEF Next, Environment

(* From the moment the API has answered, the run is over, or the broker    *)
(* has a copy of its task, or a slot is with it: the hand-over from the    *)
(* handler to the broker to a slot loses nothing, however commands fail,   *)
(* slots crash and tasks are handed out again.  What is left of a run      *)
(* that never ends is a slot that died (supervisor_api.py:97-100,          *)
(* celery_app.py:11).                                                      *)
THEOREM AcceptedIsHeld == Spec => []Held
<1>1. Init => Held
  BY DEF Init, Held, Accepted, Procs
<1> QED
  BY <1>1, HeldStep, TypeCorrect, PTL DEF Spec
=============================================================================
