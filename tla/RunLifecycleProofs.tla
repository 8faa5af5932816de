------------------------- MODULE RunLifecycleProofs -------------------------
(***************************************************************************)
(* What a watcher may conclude from RunLifecycle alone, and so about every *)
(* run of RunBus that implements it: which events to ask for again, and    *)
(* when to stop asking.                                                    *)
(***************************************************************************)
EXTENDS RunLifecycle, TLAPS

Entries == [id : Nat, call : Calls]

(* The ids grow along the log; before there is a record nothing is logged, *)
(* and a failure is explained by the last event.                           *)
PromiseInv ==
  /\ status \in Status
  /\ log \in Seq(Entries)
  /\ \A i, j \in 1..Len(log) : i < j => log[i].id < log[j].id
  /\ status = "absent" => log = <<>>
  /\ status = "failed" => Explained(log)

(* What Record adds is one entry at the end, above the others.             *)
LEMMA RecordAppends ==
  ASSUME PromiseInv, Record
  PROVE  \E e \in Entries : log' = Append(log, e) /\ Follows(e, log)
<1>1. log'[Len(log) + 1] \in Entries
  BY DEF Record, Entries
<1> QED
  BY <1>1 DEF Record

LEMMA PromiseStep == PromiseInv /\ [Next]_vars => PromiseInv'
<1> SUFFICES ASSUME PromiseInv, [Next]_vars
             PROVE  PromiseInv'
  OBVIOUS
<1>1. CASE Accept \/ Begin
  BY <1>1 DEF Accept, Begin, PromiseInv, Status, Live, Terminal, Explained
<1>2. CASE Record
  <2>1. PICK e \in Entries : log' = Append(log, e) /\ Follows(e, log)
    BY <1>2, RecordAppends
  <2>2. status' = status /\ status \in Live
    BY <1>2 DEF Record
  <2>3. log \in Seq(Entries) /\ Len(log) \in Nat
    BY DEF PromiseInv
  <2>4. log' \in Seq(Entries) /\ Len(log') = Len(log) + 1
    BY <2>1, <2>3
  <2>5. log'[Len(log) + 1] = e /\ \A i \in 1..Len(log) : log'[i] = log[i]
    BY <2>1, <2>3
  <2>6. ASSUME NEW i \in 1..Len(log'), NEW j \in 1..Len(log'), i < j
        PROVE  log'[i].id < log'[j].id
    <3>1. CASE j \in 1..Len(log)
      BY <2>3, <2>5, <2>6, <3>1 DEF PromiseInv
    <3>2. CASE j = Len(log) + 1
      BY <2>1, <2>3, <2>4, <2>5, <2>6, <3>2 DEF Follows
    <3> QED
      BY <2>3, <2>4, <3>1, <3>2
  <2> QED
    BY <2>2, <2>4, <2>6 DEF PromiseInv, Live
<1>3. CASE End
  BY <1>3 DEF End, PromiseInv, Status, Live, Terminal, Explained
<1>4. CASE UNCHANGED vars
  BY <1>4 DEF vars, PromiseInv, Explained
<1> QED
  BY <1>1, <1>2, <1>3, <1>4 DEF Next

(* The ids name the events: they grow along the log, so a watcher that     *)
(* keeps the last id it saw knows what it has; and a failure is explained  *)
(* by the last event there is.                                             *)
THEOREM PromisesKept == Spec => []PromiseInv
<1>1. Init => PromiseInv
  BY DEF Init, PromiseInv, Status, Explained
<1> QED
  BY <1>1, PromiseStep, PTL DEF Spec

------------------------------------------------------------------------------
(* What a watcher has seen stays so.                                       *)

Stage == [s \in Status |-> CASE s = "absent"  -> 0
                             [] s = "queued"  -> 1
                             [] s = "running" -> 2
                             [] OTHER         -> 3]

(* The status moves forward or stays, events are neither changed nor taken *)
(* away, and what is new lies above all that was there.                    *)
Forward ==
  /\ status' # status => Stage[status] < Stage[status']
  /\ Len(log) <= Len(log')
  /\ \A i \in 1..Len(log) : log'[i] = log[i]
  /\ \A j \in 1..Len(log') : j > Len(log) => Follows(log'[j], log)

(* A terminal status is the last word: nothing follows.                    *)
Over == status \in Terminal => UNCHANGED vars

(* A watcher may add to what it has seen and never has to take anything    *)
(* back, and it may stop at a terminal status.                             *)
THEOREM OnlyForward == Spec => [][Forward /\ Over]_vars
<1>1. PromiseInv /\ [Next]_vars => [Forward /\ Over]_vars
  <2> SUFFICES ASSUME PromiseInv, Next
               PROVE  Forward /\ Over
    OBVIOUS
  <2>1. log \in Seq(Entries) /\ Len(log) \in Nat
    BY DEF PromiseInv
  <2>2. Over
    BY DEF Next, Accept, Begin, Record, End, Over, Terminal, Live
  <2>3. CASE Accept \/ Begin \/ End
    <3>1. log' = log
      BY <2>3 DEF Accept, Begin, End
    <3>2. Stage[status] < Stage[status']
      BY <2>3 DEF Accept, Begin, End, Stage, Status, Live, Terminal
    <3> QED
      BY <2>1, <2>2, <3>1, <3>2 DEF Forward
  <2>4. CASE Record
    <3>1. PICK e \in Entries : log' = Append(log, e) /\ Follows(e, log)
      BY <2>4, RecordAppends
    <3>2. status' = status
      BY <2>4 DEF Record
    <3>3. /\ Len(log') = Len(log) + 1
          /\ log'[Len(log) + 1] = e
          /\ \A i \in 1..Len(log) : log'[i] = log[i]
      BY <2>1, <3>1
    <3> QED
      BY <2>1, <2>2, <3>1, <3>2, <3>3 DEF Forward
  <2> QED
    BY <2>3, <2>4 DEF Next
<1> QED
  BY <1>1, PromisesKept, PTL DEF Spec
=============================================================================
