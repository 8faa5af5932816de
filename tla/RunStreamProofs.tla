--------------------------- MODULE RunStreamProofs ---------------------------
(* Theorems about RunStream, for every set of worker slots and every bound. *)
EXTENDS RunStream, RunBusProofs, SequenceTheorems, WellFoundedInduction

USE ProcAssumption, FaultAssumption, BoundAssumption, DropAssumption

-----------------------------------------------------------------------------
(* Climbing from 0 to n, one place at a time.                              *)

LEMMA LeastNumber ==
  ASSUME NEW T, T \subseteq Nat, T # {}
  PROVE  \E x \in T : \A y \in T : x <= y
<1> DEFINE Less == OpToRel(<, Nat)
<1>1. IsWellFoundedOn(Less, Nat)
  BY NatLessThanWellFounded
<1>2. PICK x \in T : \A y \in T : <<y, x>> \notin Less
  <2> HIDE DEF Less
  <2> QED
    BY <1>1, WFMin
<1>3. \A y \in T : ~(y < x)
  BY <1>2 DEF OpToRel
<1> QED
  BY <1>3

LEMMA Climb ==
  ASSUME NEW n \in Nat, NEW T, 0 \in T,
         \A i \in 1..n : i - 1 \in T => i \in T
  PROVE  \A i \in 0..n : i \in T
<1> DEFINE Out == (0..n) \ T
<1> SUFFICES ASSUME Out # {}
             PROVE  FALSE
  OBVIOUS
<1>1. PICK i \in Out : \A j \in Out : i <= j
  <2>1. Out \subseteq Nat
    OBVIOUS
  <2> HIDE DEF Out
  <2> QED
    BY <2>1, LeastNumber
<1>2. i \in 1..n
  BY <1>1
<1>3. i - 1 \in 0..n /\ i - 1 \notin Out
  BY <1>1, <1>2
<1> QED
  BY <1>2, <1>3

-----------------------------------------------------------------------------
(* The loop that collects the events above an id.                          *)

Collects(s, n, k, f) ==
  f = [i \in 0..k |->
         IF i = 0 THEN <<>>
         ELSE IF s[i].id > n THEN Append(f[i - 1], s[i]) ELSE f[i - 1]]

(* After its k-th item the loop has collected something.                    *)
LEMMA CollectsExists ==
  ASSUME NEW s \in Seq(Events), NEW n \in Nat
  PROVE  \A k \in 0..Len(s) : \E f : Collects(s, n, k, f)
<1> DEFINE T == {k \in 0..Len(s) : \E f : Collects(s, n, k, f)}
<1>1. 0 \in T
  <2>1. Collects(s, n, 0, [i \in 0..0 |-> <<>>])
    BY DEF Collects
  <2> QED
    BY <2>1
<1>2. ASSUME NEW k \in 1..Len(s), k - 1 \in T
      PROVE  k \in T
  <2>1. PICK f : Collects(s, n, k - 1, f)
    BY <1>2
  <2> DEFINE next == IF s[k].id > n THEN Append(f[k - 1], s[k]) ELSE f[k - 1]
             g == [i \in 0..k |-> IF i = k THEN next ELSE f[i]]
  <2>2. ASSUME NEW i \in 0..k
        PROVE  g[i] = IF i = 0 THEN <<>>
                      ELSE IF s[i].id > n THEN Append(g[i - 1], s[i]) ELSE g[i - 1]
    <3>1. CASE i = k
      <4>1. k - 1 \in 0..k /\ k - 1 # k /\ k # 0
        OBVIOUS
      <4>2. g[k - 1] = f[k - 1]
        BY <4>1
      <4>3. g[k] = next
        BY <4>1
      <4> HIDE DEF g
      <4> QED
        BY <3>1, <4>1, <4>2, <4>3
    <3>2. CASE i # k
      <4>1. i \in 0..(k - 1)
        BY <3>2
      <4>2. g[i] = f[i] /\ (i # 0 => g[i - 1] = f[i - 1])
        BY <4>1
      <4>3. f[i] = IF i = 0 THEN <<>>
                   ELSE IF s[i].id > n THEN Append(f[i - 1], s[i]) ELSE f[i - 1]
        BY <2>1, <4>1 DEF Collects
      <4> HIDE DEF g
      <4> QED
        BY <4>2, <4>3
    <3> QED
      BY <3>1, <3>2
  <2>3. Collects(s, n, k, g)
    BY <2>2 DEF Collects
  <2> QED
    BY <2>3
<1> HIDE DEF T
<1>3. \A k \in 0..Len(s) : k \in T
  <2>1. Len(s) \in Nat
    OBVIOUS
  <2> QED
    BY <1>1, <1>2, <2>1, Climb
<1> QED
  BY <1>3 DEF T

LEMMA AboveEquation ==
  ASSUME NEW s \in Seq(Events), NEW n \in Nat
  PROVE  \E f : /\ Above(s, n) = f[Len(s)]
                /\ f[0] = <<>>
                /\ \A i \in 1..Len(s) :
                     f[i] = IF s[i].id > n THEN Append(f[i - 1], s[i]) ELSE f[i - 1]
<1> DEFINE f == CHOOSE g : Collects(s, n, Len(s), g)
<1>1. Collects(s, n, Len(s), f)
  BY CollectsExists
<1>2. Above(s, n) = f[Len(s)]
  BY DEF Above, Collects
<1> HIDE DEF f
<1>3. \A i \in 0..Len(s) :
        f[i] = IF i = 0 THEN <<>>
               ELSE IF s[i].id > n THEN Append(f[i - 1], s[i]) ELSE f[i - 1]
  BY <1>1, Zenon DEF Collects
<1>4. Len(s) \in Nat
  OBVIOUS
<1> QED
  BY <1>2, <1>3, <1>4

Kept(s, n) == {s[j] : j \in {i \in 1..Len(s) : s[i].id > n}}

(* Every event collected is one of the list, and above the id.             *)
LEMMA AboveKept ==
  ASSUME NEW s \in Seq(Events), NEW n \in Nat
  PROVE  /\ Above(s, n) \in Seq(Events)
         /\ \A i \in 1..Len(Above(s, n)) :
              \E j \in 1..Len(s) : Above(s, n)[i] = s[j] /\ s[j].id > n
<1>1. PICK f : /\ Above(s, n) = f[Len(s)]
               /\ f[0] = <<>>
               /\ \A i \in 1..Len(s) :
                    f[i] = IF s[i].id > n THEN Append(f[i - 1], s[i]) ELSE f[i - 1]
  BY AboveEquation
<1> DEFINE T == {i \in 0..Len(s) : f[i] \in Seq(Kept(s, n))}
<1>2. Len(s) \in Nat
  OBVIOUS
<1>3. 0 \in T
  <2>1. f[0] \in Seq(Kept(s, n))
    BY <1>1
  <2>2. 0 \in 0..Len(s)
    BY <1>2
  <2> QED
    BY <2>1, <2>2
<1>4. ASSUME NEW i \in 1..Len(s), i - 1 \in T
      PROVE  i \in T
  <2>1. f[i - 1] \in Seq(Kept(s, n))
    BY <1>4
  <2>2. s[i].id > n => s[i] \in Kept(s, n)
    BY DEF Kept
  <2>3. f[i] = IF s[i].id > n THEN Append(f[i - 1], s[i]) ELSE f[i - 1]
    BY <1>1
  <2>4. f[i] \in Seq(Kept(s, n))
    BY <2>1, <2>2, <2>3
  <2> QED
    BY <2>4
<1>5. Len(s) \in T
  <2> HIDE DEF T
  <2>1. \A i \in 0..Len(s) : i \in T
    BY <1>2, <1>3, <1>4, Climb
  <2> QED
    BY <1>2, <2>1
<1>6. Above(s, n) \in Seq(Kept(s, n))
  BY <1>1, <1>5
<1>7. Kept(s, n) \subseteq Events
  BY DEF Kept
<1>8. Above(s, n) \in Seq(Events)
  BY <1>6, <1>7
<1>9. ASSUME NEW i \in 1..Len(Above(s, n))
      PROVE  \E j \in 1..Len(s) : Above(s, n)[i] = s[j] /\ s[j].id > n
  <2>1. Above(s, n)[i] \in Kept(s, n)
    BY <1>6
  <2> QED
    BY <2>1 DEF Kept
<1> QED
  BY <1>8, <1>9

(* When all events are above the id, the loop returns the list.            *)
LEMMA AboveAll ==
  ASSUME NEW s \in Seq(Events), NEW n \in Nat,
         \A i \in 1..Len(s) : s[i].id > n
  PROVE  Above(s, n) = s
<1>1. PICK f : /\ Above(s, n) = f[Len(s)]
               /\ f[0] = <<>>
               /\ \A i \in 1..Len(s) :
                    f[i] = IF s[i].id > n THEN Append(f[i - 1], s[i]) ELSE f[i - 1]
  BY AboveEquation
<1> DEFINE T == {i \in 0..Len(s) : /\ f[i] \in Seq(Events)
                                   /\ Len(f[i]) = i
                                   /\ \A j \in 1..i : f[i][j] = s[j]}
<1>2. Len(s) \in Nat
  OBVIOUS
<1>3. 0 \in T
  <2>1. f[0] \in Seq(Events) /\ Len(f[0]) = 0
    BY <1>1
  <2>2. 0 \in 0..Len(s)
    BY <1>2
  <2> QED
    BY <2>1, <2>2
<1>4. ASSUME NEW i \in 1..Len(s), i - 1 \in T
      PROVE  i \in T
  <2>1. f[i] = Append(f[i - 1], s[i])
    BY <1>1
  <2>2. /\ f[i - 1] \in Seq(Events)
        /\ Len(f[i - 1]) = i - 1
        /\ \A j \in 1..(i - 1) : f[i - 1][j] = s[j]
    BY <1>4
  <2>3. s[i] \in Events
    OBVIOUS
  <2>4. f[i] \in Seq(Events) /\ Len(f[i]) = i
    BY <2>1, <2>2, <2>3
  <2>5. ASSUME NEW j \in 1..i
        PROVE  f[i][j] = s[j]
    <3>1. CASE j = i
      BY <2>1, <2>2, <2>3, <3>1
    <3>2. CASE j # i
      <4>1. j \in 1..(i - 1)
        BY <3>2
      <4> QED
        BY <2>1, <2>2, <2>3, <4>1
    <3> QED
      BY <3>1, <3>2
  <2> QED
    BY <2>4, <2>5
<1>5. Len(s) \in T
  <2> HIDE DEF T
  <2>1. \A i \in 0..Len(s) : i \in T
    BY <1>2, <1>3, <1>4, Climb
  <2> QED
    BY <1>2, <2>1
<1>6. /\ Above(s, n) \in Seq(Events)
      /\ Len(Above(s, n)) = Len(s)
      /\ \A j \in 1..Len(s) : Above(s, n)[j] = s[j]
  BY <1>1, <1>5
<1> QED
  BY <1>6, SeqEqual

LEMMA IdsType ==
  ASSUME NEW s \in Seq(Events)
  PROVE  \A i \in 1..Len(s) : s[i].id \in Nat
<1> SUFFICES ASSUME NEW i \in 1..Len(s)
             PROVE  s[i].id \in Nat
  OBVIOUS
<1>1. s[i] \in Events
  OBVIOUS
<1> QED
  BY <1>1 DEF Events

(* The last id of a list that is not empty is the highest.                 *)
LEMMA LastIdIsHighest ==
  ASSUME NEW s \in Seq(Events), s # <<>>
  PROVE  /\ LastId(s) \in Nat
         /\ \A i \in 1..Len(s) : s[i].id <= LastId(s)
<1> DEFINE T == {k \in 0..Len(s) :
                   k = 0 \/ \E j \in 1..k : \A i \in 1..k : s[i].id <= s[j].id}
<1>1. Len(s) \in Nat /\ Len(s) # 0
  OBVIOUS
<1>2. 0 \in T
  BY <1>1
<1>3. ASSUME NEW k \in 1..Len(s), k - 1 \in T
      PROVE  k \in T
  <2>1. CASE k = 1
    <3>1. \A i \in 1..1 : s[i].id <= s[1].id
      BY <1>1, IdsType
    <3> QED
      BY <2>1, <3>1
  <2>2. CASE k # 1
    <3>1. PICK j \in 1..(k - 1) : \A i \in 1..(k - 1) : s[i].id <= s[j].id
      BY <1>3, <2>2
    <3>2. /\ s[j].id \in Nat /\ s[k].id \in Nat
          /\ \A i \in 1..k : s[i].id \in Nat /\ (i = k \/ i \in 1..(k - 1))
      BY IdsType
    <3>3. CASE s[k].id <= s[j].id
      <4>1. j \in 1..k /\ \A i \in 1..k : s[i].id <= s[j].id
        BY <3>1, <3>2, <3>3
      <4> QED
        BY <4>1
    <3>4. CASE s[j].id < s[k].id
      <4>1. k \in 1..k /\ \A i \in 1..k : s[i].id <= s[k].id
        BY <3>1, <3>2, <3>4
      <4> QED
        BY <4>1
    <3>5. s[k].id <= s[j].id \/ s[j].id < s[k].id
      BY <3>2
    <3> HIDE DEF T
    <3> QED
      BY <3>3, <3>4, <3>5
  <2> QED
    BY <2>1, <2>2
<1>4. Len(s) \in T
  <2> HIDE DEF T
  <2>1. \A k \in 0..Len(s) : k \in T
    BY <1>1, <1>2, <1>3, Climb
  <2> QED
    BY <1>1, <2>1
<1>5. PICK j \in 1..Len(s) : \A i \in 1..Len(s) : s[i].id <= s[j].id
  BY <1>1, <1>4
<1>6. s[j].id \in IdsOf(s) /\ \A m \in IdsOf(s) : m <= s[j].id
  BY <1>5 DEF IdsOf
<1>7. LastId(s) \in IdsOf(s) /\ \A m \in IdsOf(s) : m <= LastId(s)
  BY <1>6 DEF LastId
<1> QED
  BY <1>7, IdsType DEF IdsOf

-----------------------------------------------------------------------------
(* The watcher reads and never writes: with its variables hidden, RunStream *)
(* is RunBus, and whatever holds of a run holds of a run under watch.      *)

LEMMA WatchedStep == [StreamNext]_allVars => [Next]_vars
BY DEF StreamNext, allVars, Connect, StreamStep, Replay, YieldReplayed,
   Subscribe, Poll, GetConfirmation, GetMessage, GetNothing, SendDone,
   ReadStatus, ReadEvents, Drop

(* A run under watch is a run (supervisor_api.py and run_monitor.py write   *)
(* no key of it).                                                          *)
THEOREM StreamIsBus == StreamSpec => Spec
<1>1. StreamInit => Init
  BY DEF StreamInit
<1> QED
  BY <1>1, WatchedStep, PTL DEF StreamSpec, Spec

-----------------------------------------------------------------------------
(* List and channel only grow.                                             *)

LEMMA Growth ==
  ASSUME TypeOK, [Next]_vars
  PROVE  /\ UNCHANGED log \/ \E p \in Procs : Push(p)
         /\ UNCHANGED channel \/ \E p \in Procs : Publish(p)
BY DEF Next, HandlerStep, WorkerStep, Environment, AppendEvent, vars, Procs,
   InitializeRun, Incr, Push, Publish, Delay, Reserve, Acknowledge, Redeliver,
   Crash, Start, Emit, AgentReturns, AgentRaises, LogFailure, SetResult,
   SetFailed, Refused, Local, store

LEMMA LogGrows ==
  ASSUME TypeOK, [Next]_vars
  PROVE  /\ Len(log) \in Nat /\ Len(log') \in Nat /\ Len(log) <= Len(log')
         /\ \A i \in 1..Len(log) : log'[i] = log[i]
<1>1. log \in Seq(Events)
  BY DEF TypeOK
<1>2. CASE UNCHANGED log
  BY <1>1, <1>2
<1>3. ASSUME NEW p \in Procs, Push(p)
      PROVE  /\ Len(log) \in Nat /\ Len(log') \in Nat /\ Len(log) <= Len(log')
             /\ \A i \in 1..Len(log) : log'[i] = log[i]
  <2>1. EventOf(p) \in Events
    BY DEF EventOf, Events, TypeOK
  <2> QED
    BY <1>1, <1>3, <2>1 DEF Push
<1> QED
  BY <1>2, <1>3, Growth

LEMMA ChannelGrows ==
  ASSUME TypeOK, [Next]_vars
  PROVE  /\ Len(channel) \in Nat /\ Len(channel') \in Nat
         /\ Len(channel) <= Len(channel')
         /\ \A i \in 1..Len(channel) : channel'[i] = channel[i]
<1>1. channel \in Seq(Events)
  BY DEF TypeOK
<1>2. CASE UNCHANGED channel
  BY <1>1, <1>2
<1>3. ASSUME NEW p \in Procs, Publish(p)
      PROVE  /\ Len(channel) \in Nat /\ Len(channel') \in Nat
             /\ Len(channel) <= Len(channel')
             /\ \A i \in 1..Len(channel) : channel'[i] = channel[i]
  <2>1. EventOf(p) \in Events
    BY DEF EventOf, Events, TypeOK
  <2> QED
    BY <1>1, <1>3, <2>1 DEF Publish
<1> QED
  BY <1>2, <1>3, Growth
-----------------------------------------------------------------------------
(* The types of the session and of its stream.                             *)

Ui == {"away", "replay", "yield", "poll", "get", "final", "result", "events",
       "notified"}

WatcherOK ==
  /\ ui \in Ui
  /\ after \in Nat /\ uiLast \in Nat
  /\ pending \in Seq(Events) /\ shown \in Seq(Events)
  /\ confirm \in BOOLEAN
  /\ cursor \in 0..Len(channel)
  /\ seen \in Status /\ announced \in Status
  /\ drops \in 0..MaxDrops
  /\ replayedTo \in 0..Len(log)
  /\ blind \subseteq Nat

(* Until the final read the ids shown increase up to the one the session   *)
(* has come to.                                                            *)
OrderInv ==
  ui # "notified" =>
    /\ \A i, j \in 1..Len(shown) : i < j => shown[i].id < shown[j].id
    /\ \A i \in 1..Len(shown) : shown[i].id <= uiLast

AllStored(s) == \A i \in 1..Len(s) : Stored(s[i])

StoredInv == AllStored(pending) /\ AllStored(shown)

(* Past the point where a slot may still say that the run is running.      *)
Past(w) == \/ pc[w] \in {"except", "set_failed", "ended", "dead"}
           \/ pc[w] \in Appending /\ call[w] = "fail"

Settled == job.status \in Terminal => \E w \in Workers : Past(w)

(* A terminal status that was read is not out of date.                     *)
SeenInv ==
  /\ seen \in Terminal => job.status \in Terminal
  /\ ui \in {"final", "result"} => job.status \in Terminal
  /\ ui = "events" => seen \in Terminal
  /\ ui = "notified" => announced \in Terminal

FinalInv ==
  /\ ui = "events" => seen = job.status
  /\ ui = "notified" => announced = job.status /\ shown = log

(* While no command failed the channel is the list, but for the event that  *)
(* is stored and still to be published.                                    *)
ChannelFollows == faults = 0 =>
  /\ Len(channel) <= Len(log)
  /\ \A i \in 1..Len(channel) : channel[i] = log[i]
  /\ \A p \in Procs : pc[p] = "publish" =>
       Len(log) = Len(channel) + 1 /\ log[Len(log)] = EventOf(p)
  /\ (\A p \in Procs : pc[p] \notin {"publish", "dead"}) =>
       Len(log) = Len(channel)

(* Up to its position the session has every event on the screen, or it      *)
(* passed while it subscribed.                                             *)
Covered(n) == \A i \in 1..n : i \in IdsOf(shown) \union blind

SkipInv == faults = 0 =>
  /\ uiLast <= Len(log)
  /\ Covered(uiLast)
  /\ ui \in {"replay", "yield", "poll", "get"} => after = uiLast
  /\ ui = "yield" =>
       /\ after + Len(pending) = replayedTo
       /\ \A k \in 1..Len(pending) : pending[k] = log[after + k]
  /\ ui \in {"poll", "get"} => Covered(cursor)
LEMMA AfterType ==
  ASSUME TypeOK, NEW n \in Nat
  PROVE  /\ SubSeq(log, n + 1, Len(log)) \in Seq(Events)
         /\ EventsAfter(n) \in Seq(Events)
<1>1. SubSeq(log, n + 1, Len(log)) \in Seq(Events)
  <2>1. log \in Seq(Events)
    BY DEF TypeOK
  <2>2. CASE n + 1 > Len(log)
    BY <2>1, <2>2
  <2>3. CASE n + 1 <= Len(log)
    BY <2>1, <2>3
  <2>4. Len(log) \in Nat
    BY <2>1
  <2> QED
    BY <2>2, <2>3, <2>4
<1> QED
  BY <1>1, AboveKept DEF EventsAfter

(* What replay and run state return is stored.                             *)
LEMMA AfterStored ==
  ASSUME TypeOK, NEW n \in Nat
  PROVE  AllStored(EventsAfter(n))
<1>1. log \in Seq(Events) /\ Len(log) \in Nat
  BY DEF TypeOK
<1>2. PICK sub : sub = SubSeq(log, n + 1, Len(log))
  OBVIOUS
<1>3. ASSUME NEW j \in 1..Len(sub)
      PROVE  Stored(sub[j])
  <2>1. CASE n + 1 > Len(log)
    BY <1>1, <1>2, <2>1
  <2>2. CASE n + 1 <= Len(log)
    <3>1. n + j \in 1..Len(log) /\ sub[j] = log[n + j]
      BY <1>1, <1>2, <2>2
    <3> QED
      BY <3>1 DEF Stored
  <2> QED
    BY <1>1, <2>1, <2>2
<1>4. sub \in Seq(Events)
  BY <1>2, AfterType
<1>5. EventsAfter(n) = Above(sub, n)
  BY <1>2 DEF EventsAfter
<1>6. ASSUME NEW i \in 1..Len(Above(sub, n))
      PROVE  Stored(Above(sub, n)[i])
  BY <1>3, <1>4, AboveKept
<1> QED
  BY <1>5, <1>6 DEF AllStored

LEMMA DeliverType ==
  ASSUME WatcherOK, NEW e \in Events, Deliver(e)
  PROVE  shown' \in Seq(Events) /\ uiLast' \in Nat
<1>1. e.id \in Nat /\ shown \in Seq(Events) /\ uiLast \in Nat
  BY DEF Events, WatcherOK
<1>2. Append(shown, e) \in Seq(Events)
  BY <1>1
<1> QED
  BY <1>1, <1>2 DEF Deliver, view

LEMMA ContinueType ==
  ASSUME Continue
  PROVE  ui' \in {"final", "poll"} /\ seen' = "absent"
BY DEF Continue

LEMMA WatcherStep == TypeOK /\ WatcherOK /\ [StreamNext]_allVars => WatcherOK'
<1> SUFFICES ASSUME TypeOK, WatcherOK, [StreamNext]_allVars
             PROVE  WatcherOK'
  OBVIOUS
<1> USE DEF Ui
<1>1. log \in Seq(Events) /\ Len(log) \in Nat /\ channel \in Seq(Events)
      /\ Len(channel) \in Nat
  BY DEF TypeOK
<1>2. /\ Len(log') \in Nat /\ Len(log) <= Len(log')
      /\ Len(channel') \in Nat /\ Len(channel) <= Len(channel')
  BY WatchedStep, LogGrows, ChannelGrows
<1>3. CASE Next /\ UNCHANGED watcher
  BY <1>1, <1>2, <1>3 DEF watcher, stream, view, history, WatcherOK
<1>4. CASE Connect
  BY <1>1, <1>4 DEF Connect, vars, view, history, WatcherOK
<1>5. CASE Replay
  <2>1. pending' \in Seq(Events)
    BY <1>5, AfterType DEF Replay, WatcherOK
  <2> QED
    BY <1>1, <1>5, <2>1 DEF Replay, vars, view, history, WatcherOK
<1>6. CASE YieldReplayed
  <2>1. /\ pending \in Seq(Events) /\ pending # <<>>
        /\ Head(pending) \in Events /\ Tail(pending) \in Seq(Events)
    BY <1>6 DEF YieldReplayed, WatcherOK
  <2>2. shown' \in Seq(Events) /\ uiLast' \in Nat
    BY <1>6, <2>1, DeliverType DEF YieldReplayed
  <2>3. after' \in Nat /\ pending' \in Seq(Events)
    BY <1>6, <2>1 DEF YieldReplayed, Events, WatcherOK
  <2> QED
    BY <1>6, <2>2, <2>3 DEF YieldReplayed, vars, history, WatcherOK
<1>7. CASE Subscribe
  <2>1. blind' \subseteq Nat
    <3>1. IdsOf(channel) \subseteq Nat
      BY <1>1, IdsType DEF IdsOf
    <3> QED
      BY <1>7, <3>1 DEF Subscribe, WatcherOK
  <2> QED
    BY <1>1, <1>7, <2>1 DEF Subscribe, vars, view, WatcherOK
<1>8. CASE Poll \/ ReadStatus
  <2>1. seen' \in Status
    BY <1>8 DEF Poll, ReadStatus, TypeOK
  <2> QED
    BY <1>8, <2>1 DEF Poll, ReadStatus, vars, view, history, WatcherOK
<1>9. CASE GetConfirmation \/ GetNothing
  <2>1. ui' \in {"final", "poll"} /\ seen' = "absent"
    BY <1>9, ContinueType DEF GetConfirmation, GetNothing
  <2> QED
    BY <1>9, <2>1
    DEF GetConfirmation, GetNothing, vars, view, history, Status, WatcherOK
<1>10. CASE GetMessage
  <2>1. ui' \in {"final", "poll"} /\ seen' = "absent"
    BY <1>10, ContinueType DEF GetMessage
  <2>2. cursor \in Nat /\ cursor + 1 \in 1..Len(channel)
    BY <1>1, <1>10 DEF GetMessage, WatcherOK
  <2>3. channel[cursor + 1] \in Events
    BY <1>1, <2>2
  <2>4. shown' \in Seq(Events) /\ uiLast' \in Nat /\ after' \in Nat
    <3>1. CASE channel[cursor + 1].id > after
      BY <1>10, <2>3, <3>1, DeliverType DEF GetMessage, Events
    <3>2. CASE ~(channel[cursor + 1].id > after)
      BY <1>10, <3>2 DEF GetMessage, view, WatcherOK
    <3> QED
      BY <3>1, <3>2
  <2>5. cursor' \in 0..Len(channel)'
    BY <1>10, <2>2 DEF GetMessage, vars
  <2> QED
    BY <1>10, <2>1, <2>4, <2>5
    DEF GetMessage, vars, history, Status, WatcherOK
<1>11. CASE SendDone
  <2>1. /\ after' \in Nat /\ pending' \in Seq(Events)
        /\ cursor' \in 0..Len(channel)' /\ seen' \in Status
    BY <1>1, <1>2, <1>11 DEF SendDone, Closed, Status
  <2>2. confirm' \in BOOLEAN
    BY <1>11, Zenon DEF SendDone, Closed
  <2> QED
    BY <1>11, <2>1, <2>2 DEF SendDone, vars, view, history, WatcherOK
<1>12. CASE ReadEvents
  <2>1. PICK all \in Seq(Events) : all = EventsAfter(0)
    BY AfterType
  <2>2. all # <<>> => LastId(all) \in Nat
    BY LastIdIsHighest
  <2>3. shown' \in Seq(Events) /\ uiLast' \in Nat
    BY <1>12, <2>1, <2>2 DEF ReadEvents, WatcherOK
  <2> QED
    BY <1>12, <2>3 DEF ReadEvents, vars, history, Status, WatcherOK
<1>13. CASE Drop
  <2>1. /\ after' \in Nat /\ pending' \in Seq(Events)
        /\ cursor' \in 0..Len(channel)' /\ seen' \in Status
    BY <1>1, <1>2, <1>13 DEF Drop, Closed, Status
  <2>2. confirm' \in BOOLEAN
    BY <1>13, Zenon DEF Drop, Closed
  <2> QED
    BY <1>13, <2>1, <2>2 DEF Drop, vars, view, history, WatcherOK
<1>14. CASE UNCHANGED allVars
  BY <1>14 DEF allVars, vars, watcher, stream, view, history, WatcherOK
<1> QED
  BY <1>3, <1>4, <1>5, <1>6, <1>7, <1>8, <1>9, <1>10, <1>11, <1>12, <1>13, <1>14
  DEF StreamNext, StreamStep

(* The types of the session that watches a run, in the middle of a stream    *)
(* and between two (runtime_bus.py:145-180, run_monitor.py:56-106).        *)
THEOREM WatcherTypes == StreamSpec => []WatcherOK
<1>1. StreamInit => WatcherOK
  <2> SUFFICES ASSUME StreamInit
               PROVE  WatcherOK
    OBVIOUS
  <2>1. confirm \in BOOLEAN
    BY Zenon DEF StreamInit
  <2> QED
    BY <2>1 DEF StreamInit, Init, WatcherOK, Ui, Status
<1>2. StreamSpec => []TypeOK
  BY StreamIsBus, TypeCorrect
<1> QED
  BY <1>1, <1>2, WatcherStep, PTL DEF StreamSpec
-----------------------------------------------------------------------------
(* No event is shown twice, and none after a later one.                    *)

LEMMA DeliverOrder ==
  ASSUME WatcherOK, OrderInv, ui # "notified", NEW e \in Events, Deliver(e)
  PROVE  OrderInv'
<1>1. shown \in Seq(Events) /\ uiLast \in Nat /\ e.id \in Nat
  BY DEF WatcherOK, Events
<1>2. \A i \in 1..Len(shown) : shown[i].id \in Nat
  BY <1>1, IdsType
<1>3. CASE UNCHANGED view
  BY <1>3 DEF OrderInv, view
<1>4. CASE e.id > uiLast /\ shown' = Append(shown, e) /\ uiLast' = e.id
  <2>1. /\ Len(shown) \in Nat /\ Len(shown') = Len(shown) + 1
        /\ shown'[Len(shown) + 1] = e
        /\ \A i \in 1..Len(shown) : shown'[i] = shown[i]
    BY <1>1, <1>4
  <2>2. \A i \in 1..Len(shown) : shown[i].id < e.id
    BY <1>1, <1>2, <1>4 DEF OrderInv
  <2>3. \A i, j \in 1..Len(shown') : i < j => shown'[i].id < shown'[j].id
    <3> SUFFICES ASSUME NEW i \in 1..Len(shown'), NEW j \in 1..Len(shown'), i < j
                 PROVE  shown'[i].id < shown'[j].id
      OBVIOUS
    <3>1. i \in 1..Len(shown)
      BY <2>1
    <3>2. CASE j = Len(shown) + 1
      BY <2>1, <2>2, <3>1, <3>2
    <3>3. CASE j \in 1..Len(shown)
      BY <2>1, <3>1, <3>3 DEF OrderInv
    <3> QED
      BY <2>1, <3>2, <3>3
  <2>4. \A i \in 1..Len(shown') : shown'[i].id <= uiLast'
    <3> SUFFICES ASSUME NEW i \in 1..Len(shown')
                 PROVE  shown'[i].id <= uiLast'
      OBVIOUS
    <3>1. CASE i = Len(shown) + 1
      BY <1>1, <1>4, <2>1, <3>1
    <3>2. CASE i \in 1..Len(shown)
      <4>1. shown'[i] = shown[i] /\ shown[i].id < e.id /\ shown[i].id \in Nat
        BY <1>2, <2>1, <2>2, <3>2
      <4> QED
        BY <1>1, <1>4, <4>1
    <3> QED
      BY <2>1, <3>1, <3>2
  <2> QED
    BY <2>3, <2>4 DEF OrderInv
<1> QED
  BY <1>3, <1>4 DEF Deliver

LEMMA OrderQuiet ==
  ASSUME OrderInv, UNCHANGED view, ui' = "notified" \/ ui # "notified"
  PROVE  OrderInv'
BY DEF OrderInv, view

LEMMA OrderStep ==
  TypeOK /\ WatcherOK /\ OrderInv /\ [StreamNext]_allVars => OrderInv'
<1> SUFFICES ASSUME TypeOK, WatcherOK, OrderInv, [StreamNext]_allVars
             PROVE  OrderInv'
  OBVIOUS
<1>1. CASE YieldReplayed
  <2>1. Head(pending) \in Events
    BY <1>1 DEF YieldReplayed, WatcherOK
  <2> QED
    BY <1>1, <2>1, DeliverOrder DEF YieldReplayed
<1>2. CASE GetMessage
  <2>1. channel[cursor + 1] \in Events /\ ui # "notified"
    BY <1>2 DEF GetMessage, WatcherOK, TypeOK
  <2>2. Deliver(channel[cursor + 1]) \/ UNCHANGED view
    BY <1>2 DEF GetMessage, view
  <2> QED
    BY <2>1, <2>2, DeliverOrder, OrderQuiet
<1>3. CASE Connect \/ Replay \/ Subscribe \/ Poll \/ GetConfirmation
           \/ GetNothing \/ SendDone \/ ReadStatus \/ Drop
  BY <1>3, OrderQuiet DEF Connect, Replay, Subscribe, Poll, GetConfirmation,
     GetNothing, SendDone, ReadStatus, Drop
<1>4. CASE ReadEvents
  BY <1>4 DEF ReadEvents, OrderInv
<1>5. CASE UNCHANGED watcher
  BY <1>5, OrderQuiet DEF watcher
<1> QED
  BY <1>1, <1>2, <1>3, <1>4, <1>5 DEF StreamNext, StreamStep, allVars

(* A session shows no event twice and none after a later one, whatever the  *)
(* list and the channel hold and however often the stream broke             *)
(* (run_monitor.py:68-72, runtime_bus.py:145-177).                         *)
THEOREM ShownInOrder == StreamSpec => []ShownOnceInOrder
<1>1. StreamInit => OrderInv
  BY DEF StreamInit, OrderInv
<1>2. StreamSpec => []TypeOK
  BY StreamIsBus, TypeCorrect
<1>3. OrderInv => ShownOnceInOrder
  BY DEF OrderInv, ShownOnceInOrder
<1> QED
  BY <1>1, <1>2, <1>3, WatcherTypes, OrderStep, PTL DEF StreamSpec

-----------------------------------------------------------------------------
(* Nothing is shown that is not stored.                                    *)

LEMMA StoredStays ==
  ASSUME TypeOK, [Next]_vars, NEW e, Stored(e)
  PROVE  Stored(e)'
BY LogGrows DEF Stored

LEMMA DeliverStored ==
  ASSUME TypeOK, WatcherOK, StoredInv, NEW e \in Events, Stored(e), Deliver(e)
  PROVE  \A i \in 1..Len(shown') : Stored(shown'[i])
<1>1. CASE UNCHANGED view
  BY <1>1 DEF StoredInv, AllStored, view
<1>2. CASE shown' = Append(shown, e)
  <2>1. shown \in Seq(Events)
    BY DEF WatcherOK
  <2>2. /\ Len(shown) \in Nat /\ Len(shown') = Len(shown) + 1
        /\ shown'[Len(shown) + 1] = e
        /\ \A i \in 1..Len(shown) : shown'[i] = shown[i]
    BY <1>2, <2>1
  <2>3. ASSUME NEW i \in 1..Len(shown')
        PROVE  Stored(shown'[i])
    <3>1. i = Len(shown) + 1 \/ i \in 1..Len(shown)
      BY <2>2
    <3> QED
      BY <2>2, <3>1 DEF StoredInv, AllStored
  <2> QED
    BY <2>3
<1> QED
  BY <1>1, <1>2 DEF Deliver

LEMMA StoredStep ==
  TypeOK /\ WatcherOK /\ PublishedIsStored /\ StoredInv /\ [StreamNext]_allVars
    => StoredInv'
<1> SUFFICES ASSUME TypeOK, WatcherOK, PublishedIsStored, StoredInv,
                    [StreamNext]_allVars
             PROVE  StoredInv'
  OBVIOUS
<1>1. \A e : Stored(e) => Stored(e)'
  BY WatchedStep, StoredStays
<1>2. SUFFICES (\A i \in 1..Len(pending') : Stored(pending'[i]))
               /\ \A i \in 1..Len(shown') : Stored(shown'[i])
  BY <1>1 DEF StoredInv, AllStored
<1>3. CASE UNCHANGED <<pending, shown>>
  BY <1>3 DEF StoredInv, AllStored
<1>4. CASE Replay
  BY <1>4, AfterStored DEF Replay, StoredInv, AllStored, WatcherOK, view
<1>5. CASE YieldReplayed
  <2>1. /\ pending \in Seq(Events) /\ pending # <<>>
        /\ Head(pending) = pending[1] /\ 1 \in 1..Len(pending)
        /\ \A i \in 1..Len(Tail(pending)) :
             i + 1 \in 1..Len(pending) /\ Tail(pending)[i] = pending[i + 1]
    BY <1>5 DEF YieldReplayed, WatcherOK
  <2>2. Head(pending) \in Events /\ Stored(Head(pending))
    BY <2>1 DEF StoredInv, AllStored
  <2>3. \A i \in 1..Len(shown') : Stored(shown'[i])
    BY <1>5, <2>2, DeliverStored DEF YieldReplayed
  <2>4. \A i \in 1..Len(pending') : Stored(pending'[i])
    BY <1>5, <2>1 DEF YieldReplayed, StoredInv, AllStored
  <2> QED
    BY <2>3, <2>4
<1>6. CASE GetMessage
  <2>1. cursor + 1 \in 1..Len(channel) /\ channel[cursor + 1] \in Events
    BY <1>6 DEF GetMessage, WatcherOK, TypeOK
  <2>2. Stored(channel[cursor + 1])
    BY <2>1 DEF PublishedIsStored, Stored
  <2>3. CASE Deliver(channel[cursor + 1])
    BY <1>6, <2>1, <2>2, <2>3, DeliverStored
    DEF GetMessage, StoredInv, AllStored
  <2>4. CASE UNCHANGED view
    BY <1>6, <2>4 DEF GetMessage, StoredInv, AllStored, view
  <2> QED
    BY <1>6, <2>3, <2>4 DEF GetMessage, view
<1>7. CASE SendDone \/ Drop
  <2>1. pending' = <<>> /\ UNCHANGED view
    BY <1>7 DEF SendDone, Drop, Closed
  <2> QED
    BY <2>1 DEF StoredInv, AllStored, view
<1>8. CASE ReadEvents
  <2>1. shown' = EventsAfter(0) /\ UNCHANGED pending
    BY <1>8 DEF ReadEvents
  <2> QED
    BY <2>1, AfterStored DEF StoredInv, AllStored
<1>9. CASE Connect \/ Subscribe \/ Poll \/ GetConfirmation \/ GetNothing
           \/ ReadStatus \/ UNCHANGED watcher
  BY <1>3, <1>9 DEF Connect, Subscribe, Poll, GetConfirmation, GetNothing,
     ReadStatus, watcher, stream, view
<1> QED
  BY <1>4, <1>5, <1>6, <1>7, <1>8, <1>9 DEF StreamNext, StreamStep, allVars

(* What a session shows is in the list: a page that asks again finds it,    *)
(* whatever commands fail and however many slots run the task              *)
(* (runtime_bus.py:65-66,155-177).                                         *)
THEOREM ShownStored == StreamSpec => []ShownIsStored
<1>1. StreamInit => StoredInv
  BY DEF StreamInit, StoredInv, AllStored
<1>2. StreamSpec => []TypeOK /\ []PublishedIsStored
  BY StreamIsBus, TypeCorrect, PublishedStored
<1>3. StoredInv => ShownIsStored
  BY DEF StoredInv, AllStored, Stored, ShownIsStored
<1> QED
  BY <1>1, <1>2, <1>3, StoredStep, WatcherTypes, PTL DEF StreamSpec
-----------------------------------------------------------------------------
(* A run that was over stays over, even if its verdict is changed.         *)

LEMMA PastNext ==
  ASSUME TypeOK, NEW w \in Workers, Past(w), pc[w] \in Commands,
         NEW next, Outcome(w, next) \/ Refused(w)
  PROVE  \/ pc' = [pc EXCEPT ![w] = next]
         \/ pc' = [pc EXCEPT ![w] = "dead"]
         \/ UNCHANGED pc
<1>1. HandlerOf(w) = "dead"
  BY DEF Past, HandlerOf, AppendRaises, Commands, Appending
<1> QED
  BY <1>1 DEF Outcome, Refused, Raise, Goto

LEMMA SettledStep ==
  SingleTask /\ TypeOK /\ Token /\ Settled /\ [Next]_vars =>
    Settled' /\ (job.status \in Terminal => job'.status \in Terminal)
<1> SUFFICES ASSUME SingleTask, TypeOK, Token, Settled, [Next]_vars
             PROVE  Settled' /\ (job.status \in Terminal => job'.status \in Terminal)
  OBVIOUS
<1> USE DEF At
<1>1. API \in Procs /\ Workers \subseteq Procs /\ API \notin Workers
  BY DEF Procs
<1>2. ASSUME NEW w \in Workers, SetResult(w) \/ SetFailed(w)
      PROVE  Settled' /\ job'.status \in Terminal
  <2>1. job'.status \in Terminal
    BY <1>2 DEF SetResult, SetFailed, TypeOK, Terminal
  <2>2. pc'[w] \in {"ended", "except", "dead"}
    <3>1. HandlerOf(w) \in {"except", "dead"}
      BY <1>2 DEF SetResult, SetFailed, HandlerOf, Appending
    <3>2. Goto(w, "ended") \/ Goto(w, HandlerOf(w))
      BY <1>2 DEF SetResult, SetFailed, Outcome, FaultOf, Raise, SingleTask
    <3> QED
      BY <1>1, <3>1, <3>2 DEF Goto, TypeOK
  <2> QED
    BY <2>1, <2>2 DEF Settled, Past
<1>3. ASSUME \A w \in Workers : ~SetResult(w) /\ ~SetFailed(w)
      PROVE  job'.status \in Terminal => job.status \in Terminal
  BY <1>3 DEF Next, HandlerStep, WorkerStep, Environment, AppendEvent, vars,
     InitializeRun, Incr, Push, Publish, Delay, Reserve, Acknowledge, Redeliver,
     Crash, Start, Emit, AgentReturns, AgentRaises, LogFailure, Refused, Local,
     store, TypeOK, Terminal
<1>4. ASSUME NEW w \in Workers, Past(w), job.status \in Terminal
      PROVE  job'.status \in Terminal
  <2>1. pc[w] # "idle" /\ pc[w] # "start"
    BY <1>4 DEF Past, Appending
  <2>2. pc[API] # "initialize" /\ \A v \in Workers : pc[v] # "start"
    BY <2>1 DEF Token, Handing
  <2> QED
    BY <1>4, <2>2 DEF Next, HandlerStep, WorkerStep, Environment, AppendEvent,
     vars, InitializeRun, Incr, Push, Publish, Delay, Reserve, Acknowledge,
     Redeliver, Crash, Start, Emit, AgentReturns, AgentRaises, LogFailure,
     SetResult, SetFailed, Refused, Local, store, TypeOK, Terminal
<1>5. ASSUME NEW w \in Workers, Past(w),
             \A v \in Workers : ~SetResult(v) /\ ~SetFailed(v)
      PROVE  Past(w)'
  <2>1. w \in Procs /\ w # API
    BY <1>1
  <2>2. CASE pc'[w] = pc[w] /\ call'[w] = call[w]
    BY <1>5, <2>2 DEF Past
  <2>3. CASE Incr(w) \/ Push(w) \/ Publish(w)
    <3>1. call[w] = "fail" /\ pc[w] \in Commands /\ UNCHANGED call
      BY <1>5, <2>3 DEF Past, Incr, Push, Publish, Commands, Appending
    <3>2. \E x \in {"push", "publish", AfterAppend(call[w])} : Outcome(w, x)
      BY <2>3 DEF Incr, Push, Publish
    <3>3. pc'[w] \in {"push", "publish", "set_failed", "dead", pc[w]}
      BY <1>5, <2>1, <3>1, <3>2, PastNext DEF AfterAppend, TypeOK
    <3> QED
      BY <1>5, <3>1, <3>3 DEF Past, Appending
  <2>4. CASE LogFailure(w)
    BY <2>1, <2>4 DEF LogFailure, Goto, Past, Appending, TypeOK
  <2>5. CASE Refused(w)
    <3>1. HandlerOf(w) = "dead"
      BY <1>5, <2>5 DEF Refused, Past, HandlerOf, AppendRaises, Commands, Appending
    <3> QED
      BY <2>1, <2>5, <3>1 DEF Refused, Raise, Goto, Past, TypeOK
  <2>6. CASE Crash(w)
    BY <1>5, <2>1, <2>6 DEF Crash, Goto, Past, Appending, TypeOK
  <2>7. ~Reserve(w) /\ ~Acknowledge(w) /\ ~Start(w) /\ ~Emit(w)
        /\ ~AgentReturns(w) /\ ~AgentRaises(w)
    BY <1>5, FirstReserve
       DEF Past, Appending, Acknowledge, Start, Emit, AgentReturns, AgentRaises
  <2>8. ASSUME NEW p \in Procs, p # w,
               \/ InitializeRun(p) \/ Incr(p) \/ Push(p) \/ Publish(p)
               \/ Delay(p) \/ Refused(p)
        PROVE  pc'[w] = pc[w] /\ call'[w] = call[w]
    BY <2>1, <2>8 DEF InitializeRun, Incr, Push, Publish, Delay, Refused,
       Outcome, Raise, Goto, TypeOK
  <2>9. ASSUME NEW v \in Workers, v # w,
               \/ Start(v) \/ Reserve(v) \/ Acknowledge(v) \/ Emit(v)
               \/ AgentReturns(v) \/ AgentRaises(v) \/ LogFailure(v) \/ Crash(v)
        PROVE  pc'[w] = pc[w] /\ call'[w] = call[w]
    BY <2>1, <2>9 DEF Start, Reserve, Acknowledge, Emit, AgentReturns,
       AgentRaises, LogFailure, Crash, Outcome, Raise, Goto, Local, TypeOK
  <2>10. ASSUME NEW v \in Workers, Redeliver(v)
         PROVE  pc'[w] = pc[w] /\ call'[w] = call[w]
    BY <2>10 DEF Redeliver
  <2>11. CASE UNCHANGED vars
    BY <2>2, <2>11 DEF vars
  <2> QED
    BY <1>1, <1>5, <2>1, <2>2, <2>3, <2>4, <2>5, <2>6, <2>7, <2>8, <2>9, <2>10,
       <2>11
    DEF Next, HandlerStep, WorkerStep, Environment, AppendEvent
<1>6. CASE \E w \in Workers : SetResult(w) \/ SetFailed(w)
  BY <1>2, <1>6
<1>7. CASE \A w \in Workers : ~SetResult(w) /\ ~SetFailed(w)
  <2>1. CASE job.status \notin Terminal
    BY <1>3, <1>7, <2>1 DEF Settled
  <2>2. CASE job.status \in Terminal
    <3>1. PICK w \in Workers : Past(w)
      BY <2>2 DEF Settled
    <3>2. Past(w)'
      BY <1>5, <1>7, <3>1
    <3>3. job'.status \in Terminal
      BY <1>4, <2>2, <3>1
    <3> QED
      BY <3>2, <3>3 DEF Settled
  <2> QED
    BY <2>1, <2>2
<1> QED
  BY <1>6, <1>7

LEMMA SettledCorrect == SingleTask => (Spec => []Settled)
<1> SUFFICES ASSUME SingleTask
             PROVE  Spec => []Settled
  OBVIOUS
<1>1. Init => Settled
  BY DEF Init, Settled, Terminal
<1>2. TypeOK /\ SingleInv /\ Settled /\ [Next]_vars => Settled'
  BY SettledStep DEF SingleInv
<1> QED
  BY <1>1, <1>2, SingleCorrect, TypeCorrect, PTL DEF Spec

(* A run that was over once is never seen running again, even when the      *)
(* reply to set_result is lost and its success becomes a failure           *)
(* (supervisor_tasks.py:29-62): polling may stop at the first terminal     *)
(* status (run_monitor.py:76).                                             *)
THEOREM OverStaysOver ==
  SingleTask => (Spec => [][job.status \in Terminal => job'.status \in Terminal]_vars)
<1> SUFFICES ASSUME SingleTask
             PROVE  Spec => [][job.status \in Terminal => job'.status \in Terminal]_vars
  OBVIOUS
<1>1. TypeOK /\ SingleInv /\ Settled /\ [Next]_vars
      => [job.status \in Terminal => job'.status \in Terminal]_vars
  BY SettledStep DEF SingleInv
<1> QED
  BY <1>1, SettledCorrect, SingleCorrect, TypeCorrect, PTL DEF Spec
-----------------------------------------------------------------------------
(* The announcement.                                                       *)

LEMMA ContinueSeen ==
  ASSUME SeenInv, Continue, UNCHANGED <<job, announced>>
  PROVE  SeenInv'
BY DEF SeenInv, Continue, Terminal

LEMMA SeenStep ==
  SingleTask /\ TypeOK /\ Token /\ Settled /\ SeenInv /\ [StreamNext]_allVars
    => SeenInv'
<1> SUFFICES ASSUME SingleTask, TypeOK, Token, Settled, SeenInv,
                    [StreamNext]_allVars
             PROVE  SeenInv'
  OBVIOUS
<1>1. job.status \in Terminal => job'.status \in Terminal
  BY WatchedStep, SettledStep
<1>2. CASE UNCHANGED watcher
  BY <1>1, <1>2 DEF watcher, stream, SeenInv
<1>3. CASE GetConfirmation \/ GetMessage \/ GetNothing
  BY <1>3, ContinueSeen DEF GetConfirmation, GetMessage, GetNothing, vars
<1>4. CASE Connect \/ Replay \/ YieldReplayed \/ Subscribe
  BY <1>4 DEF Connect, Replay, YieldReplayed, Subscribe, vars, SeenInv
<1>5. CASE Poll \/ SendDone \/ ReadStatus \/ ReadEvents \/ Drop
  BY <1>5 DEF Poll, SendDone, ReadStatus, ReadEvents, Drop, Closed, vars,
              SeenInv, Terminal
<1> QED
  BY <1>2, <1>3, <1>4, <1>5 DEF StreamNext, StreamStep, allVars

LEMMA SeenCorrect == SingleTask => (StreamSpec => []SeenInv)
<1> SUFFICES ASSUME SingleTask
             PROVE  StreamSpec => []SeenInv
  OBVIOUS
<1>1. StreamInit => SeenInv
  BY DEF StreamInit, SeenInv, Terminal
<1>2. TypeOK /\ SingleInv /\ Settled /\ SeenInv /\ [StreamNext]_allVars => SeenInv'
  BY SeenStep DEF SingleInv
<1>3. StreamSpec => []TypeOK /\ []SingleInv /\ []Settled
  BY StreamIsBus, TypeCorrect, SingleCorrect, SettledCorrect
<1> QED
  BY <1>1, <1>2, <1>3, PTL DEF StreamSpec

(* What the session announces is the end of the run, with a success or a    *)
(* failure, also when replies of Redis are lost: no run is announced that   *)
(* still goes on (run_monitor.py:76-103).                                  *)
THEOREM AnnouncedOver == SingleTask => (StreamSpec => []AnnouncedIsOver)
<1>1. SeenInv => AnnouncedIsOver
  BY DEF SeenInv, AnnouncedIsOver
<1> QED
  BY <1>1, SeenCorrect, PTL

(* A read of the whole list returns it: every id is above 0.               *)
LEMMA AfterZero ==
  ASSUME TypeOK, NeverBehindPosition
  PROVE  EventsAfter(0) = log
<1>1. log \in Seq(Events) /\ Len(log) \in Nat
  BY DEF TypeOK
<1>2. SubSeq(log, 0 + 1, Len(log)) = log
  BY <1>1
<1>3. \A i \in 1..Len(log) : log[i].id > 0
  BY <1>1, IdsType DEF NeverBehindPosition
<1> QED
  BY <1>1, <1>2, <1>3, AboveAll DEF EventsAfter

LEMMA FinalStep ==
  CleanInv /\ SeenInv /\ FinalInv /\ [StreamNext]_allVars => FinalInv'
<1> SUFFICES ASSUME CleanInv, SeenInv, FinalInv, [StreamNext]_allVars
             PROVE  FinalInv'
  OBVIOUS
<1>1. job.status \in Terminal => UNCHANGED store
  BY WatchedStep, OverIsQuiet DEF CleanInv, SingleInv, Recorded, Over
<1>2. CASE UNCHANGED watcher
  <2>1. ui \in {"events", "notified"} => job.status \in Terminal
    BY DEF SeenInv, FinalInv
  <2> QED
    BY <1>1, <1>2, <2>1 DEF watcher, stream, view, store, FinalInv
<1>3. CASE ReadStatus
  BY <1>3 DEF ReadStatus, vars, FinalInv
<1>4. CASE ReadEvents
  <2>1. EventsAfter(0) = log
    BY AfterZero DEF CleanInv, SingleInv, Numbered
  <2> QED
    BY <1>4, <2>1 DEF ReadEvents, vars, FinalInv
<1>5. CASE GetConfirmation \/ GetMessage \/ GetNothing
  BY <1>5 DEF GetConfirmation, GetMessage, GetNothing, Continue, FinalInv
<1>6. CASE Connect \/ Replay \/ YieldReplayed \/ Subscribe \/ Poll
           \/ SendDone \/ Drop
  BY <1>6 DEF Connect, Replay, YieldReplayed, Subscribe, Poll, SendDone, Drop,
              FinalInv
<1> QED
  BY <1>2, <1>3, <1>4, <1>5, <1>6 DEF StreamNext, StreamStep, allVars

(* Status and events are read one after the other, and yet the announcement *)
(* is the verdict that stands and the view behind it is the whole log,      *)
(* whatever the stream missed, unless replies of Redis are lost             *)
(* (runtime_bus.py:80-93, run_monitor.py:82-106).                          *)
THEOREM AnnouncementFinal == CleanFaults => (StreamSpec => []AnnouncementIsFinal)
<1> SUFFICES ASSUME CleanFaults
             PROVE  StreamSpec => []AnnouncementIsFinal
  OBVIOUS
<1>1. StreamInit => FinalInv
  BY DEF StreamInit, FinalInv
<1>2. StreamSpec => []CleanInv
  BY StreamIsBus, CleanCorrect
<1>3. StreamSpec => []SeenInv
  BY CleanIsSingle, SeenCorrect
<1>4. FinalInv => AnnouncementIsFinal
  BY DEF FinalInv, AnnouncementIsFinal
<1> QED
  BY <1>1, <1>2, <1>3, <1>4, FinalStep, PTL DEF StreamSpec
-----------------------------------------------------------------------------
(* Without a failed command the channel follows the list.                  *)

LEMMA FollowsQuiet ==
  ASSUME ChannelFollows, faults' = 0 => faults = 0, UNCHANGED <<log, channel>>,
         \A p \in Procs :
           /\ pc'[p] = "publish" => pc[p] = "publish" /\ EventOf(p)' = EventOf(p)
           /\ pc[p] \in {"publish", "dead"} => pc'[p] \in {"publish", "dead"}
  PROVE  ChannelFollows'
BY DEF ChannelFollows

LEMMA FollowsStep ==
  SingleTask /\ TypeOK /\ Token /\ ChannelFollows /\ [Next]_vars => ChannelFollows'
<1> SUFFICES ASSUME SingleTask, TypeOK, Token, ChannelFollows, [Next]_vars,
                    faults' = 0
             PROVE  ChannelFollows'
  BY DEF ChannelFollows
<1> USE DEF At
<1>1. API \in Procs /\ Workers \subseteq Procs /\ API \notin Workers
  BY DEF Procs
<1>2. /\ log \in Seq(Events) /\ Len(log) \in Nat
      /\ channel \in Seq(Events) /\ Len(channel) \in Nat
  BY DEF TypeOK
<1>3. \A p \in Procs : EventOf(p) \in Events
  BY DEF EventOf, Events, TypeOK
<1>4. ASSUME NEW p \in Procs, Push(p)
      PROVE  ChannelFollows'
  <2>1. faults = 0 /\ Goto(p, "publish")
    BY <1>4, Faultless DEF Push
  <2>2. \A q \in Procs : pc[q] \notin {"publish", "dead"}
    <3>1. \A q \in Procs : pc[q] = "publish" => q = p
      BY <1>4, OneHolder DEF Push, Active, Handing
    <3>2. \A w \in Workers : pc[w] = "dead" => w = p
      BY <1>1, <1>4 DEF Push, Token, Handing, Procs
    <3> QED
      BY <1>4, <3>1, <3>2 DEF Push, Token, Procs, Handing
  <2>3. Len(log) = Len(channel) /\ \A i \in 1..Len(channel) : channel[i] = log[i]
    BY <2>1, <2>2 DEF ChannelFollows
  <2>4. /\ Len(log') = Len(log) + 1
        /\ log'[Len(log) + 1] = EventOf(p)
        /\ \A i \in 1..Len(log) : log'[i] = log[i]
        /\ UNCHANGED channel
    BY <1>2, <1>3, <1>4 DEF Push
  <2>5. pc'[p] = "publish" /\ \A q \in Procs : pc'[q] = "publish" => q = p
    BY <2>1, <2>2 DEF Goto, TypeOK
  <2>6. EventOf(p)' = EventOf(p)
    BY <1>4 DEF Push, EventOf
  <2> QED
    BY <1>2, <2>3, <2>4, <2>5, <2>6 DEF ChannelFollows
<1>5. ASSUME NEW p \in Procs, Publish(p)
      PROVE  ChannelFollows'
  <2>1. AfterAppend(call[p]) \in {"delay", "work", "set_failed"}
    BY DEF TypeOK, AfterAppend, Calls
  <2>2. faults = 0 /\ Goto(p, AfterAppend(call[p]))
    BY <1>5, Faultless DEF Publish
  <2>3. \A q \in Procs : pc[q] = "publish" => q = p
    BY <1>5, OneHolder DEF Publish, Active, Handing
  <2>4. \A q \in Procs : pc'[q] # "publish"
    BY <2>1, <2>2, <2>3 DEF Goto, TypeOK
  <2>5. Len(log) = Len(channel) + 1 /\ log[Len(log)] = EventOf(p)
    BY <1>5, <2>2 DEF Publish, ChannelFollows
  <2>6. /\ Len(channel') = Len(channel) + 1
        /\ channel'[Len(channel) + 1] = EventOf(p)
        /\ \A i \in 1..Len(channel) : channel'[i] = channel[i]
        /\ UNCHANGED log
    BY <1>2, <1>3, <1>5 DEF Publish
  <2>7. \A i \in 1..Len(channel') : channel'[i] = log'[i]
    <3> SUFFICES ASSUME NEW i \in 1..Len(channel')
                 PROVE  channel'[i] = log'[i]
      OBVIOUS
    <3>1. i = Len(channel) + 1 \/ i \in 1..Len(channel)
      BY <1>2, <2>6
    <3> QED
      BY <2>2, <2>5, <2>6, <3>1 DEF ChannelFollows
  <2> QED
    BY <1>2, <2>4, <2>5, <2>6, <2>7 DEF ChannelFollows
<1>6. ASSUME NEW p \in Procs, NEW next, next # "publish", Outcome(p, next),
             pc[p] \notin {"publish", "dead"},
             UNCHANGED <<log, channel, call>>, \A q \in Procs : q # p => eid'[q] = eid[q]
      PROVE  ChannelFollows'
  <2>1. faults = 0 /\ pc' = [pc EXCEPT ![p] = next]
    BY <1>6, Faultless DEF Goto
  <2>2. \A q \in Procs :
          /\ pc'[q] = "publish" => pc[q] = "publish" /\ q # p
          /\ pc[q] \in {"publish", "dead"} => pc'[q] \in {"publish", "dead"}
    BY <1>6, <2>1 DEF TypeOK
  <2>3. \A q \in Procs : q # p => EventOf(q)' = EventOf(q)
    BY <1>6 DEF EventOf
  <2> QED
    BY <1>6, <2>1, <2>2, <2>3, FollowsQuiet
<1>7. CASE InitializeRun(API) \/ Delay(API)
  BY <1>1, <1>6, <1>7 DEF InitializeRun, Delay, store
<1>8. ASSUME NEW p \in Procs, Incr(p)
      PROVE  ChannelFollows'
  <2>1. \A q \in Procs : q # p => eid'[q] = eid[q]
    BY <1>8 DEF Incr, TypeOK
  <2> QED
    BY <1>6, <1>8, <2>1 DEF Incr
<1>9. ASSUME NEW w \in Workers, Start(w) \/ SetResult(w) \/ SetFailed(w)
      PROVE  ChannelFollows'
  BY <1>1, <1>6, <1>9 DEF Start, SetResult, SetFailed
<1>10. ASSUME NEW w \in Workers,
              \/ Acknowledge(w) \/ Emit(w) \/ AgentReturns(w)
              \/ AgentRaises(w) \/ LogFailure(w)
              \/ Reserve(w) \/ Redeliver(w) \/ Crash(w)
       PROVE  ChannelFollows'
  <2>1. UNCHANGED <<log, channel, eid, faults>>
    BY <1>10 DEF Acknowledge, Emit, AgentReturns, AgentRaises, LogFailure,
                 Reserve, Redeliver, Crash, Local, store
  <2>2. \A q \in Procs :
          /\ pc'[q] = "publish" => pc[q] = "publish" /\ call'[q] = call[q]
          /\ pc[q] \in {"publish", "dead"} => pc'[q] \in {"publish", "dead"}
    BY <1>1, <1>10, FirstReserve
       DEF Acknowledge, Emit, AgentReturns, AgentRaises, LogFailure,
           Reserve, Redeliver, Crash, Free, Local, Goto, TypeOK
  <2>3. \A q \in Procs : pc'[q] = "publish" => EventOf(q)' = EventOf(q)
    BY <2>1, <2>2 DEF EventOf
  <2> QED
    BY <2>1, <2>2, <2>3, FollowsQuiet
<1>11. ASSUME NEW p \in Procs, Refused(p)
       PROVE  FALSE
  BY <1>11 DEF Refused, FaultOf, TypeOK
<1>12. CASE UNCHANGED vars
  BY <1>12, FollowsQuiet DEF vars, EventOf
<1> QED
  BY <1>1, <1>4, <1>5, <1>7, <1>8, <1>9, <1>10, <1>11, <1>12
     DEF Next, HandlerStep, WorkerStep, Environment, AppendEvent

(* Without a failed command the channel carries the events of the list, in *)
(* its order, and is behind by the one event at most that is between RPUSH  *)
(* and PUBLISH, or was when its slot died (runtime_bus.py:65-66).          *)
THEOREM ChannelInOrder == SingleTask => (Spec => []ChannelFollows)
<1> SUFFICES ASSUME SingleTask
             PROVE  Spec => []ChannelFollows
  OBVIOUS
<1>1. Init => ChannelFollows
  <2> SUFFICES ASSUME Init
               PROVE  ChannelFollows
    OBVIOUS
  <2>1. \A p \in Procs : pc[p] # "publish"
    BY DEF Init
  <2> QED
    BY <2>1 DEF Init, ChannelFollows
<1>2. TypeOK /\ SingleInv /\ ChannelFollows /\ [Next]_vars => ChannelFollows'
  BY FollowsStep DEF SingleInv
<1> QED
  BY <1>1, <1>2, SingleCorrect, TypeCorrect, PTL DEF Spec
-----------------------------------------------------------------------------
(* What a session skips.                                                   *)

LEMMA FaultsGrow ==
  ASSUME TypeOK, [Next]_vars, faults' = 0
  PROVE  faults = 0
BY DEF Next, HandlerStep, WorkerStep, Environment, AppendEvent, vars,
   InitializeRun, Incr, Push, Publish, Delay, Reserve, Acknowledge, Redeliver,
   Crash, Start, Emit, AgentReturns, AgentRaises, LogFailure, SetResult,
   SetFailed, Refused, Outcome, FaultOf, Local, store, TypeOK

(* Replay from a position in the list returns the rest of the list.        *)
LEMMA AfterRest ==
  ASSUME TypeOK, \A i \in 1..Len(log) : log[i].id = i,
         NEW n \in Nat, n <= Len(log)
  PROVE  /\ EventsAfter(n) \in Seq(Events)
         /\ n + Len(EventsAfter(n)) = Len(log)
         /\ \A k \in 1..Len(EventsAfter(n)) : EventsAfter(n)[k] = log[n + k]
<1>1. log \in Seq(Events) /\ Len(log) \in Nat
  BY DEF TypeOK
<1>2. PICK sub : sub = SubSeq(log, n + 1, Len(log))
  OBVIOUS
<1>3. /\ sub \in Seq(Events)
      /\ n + Len(sub) = Len(log)
      /\ \A k \in 1..Len(sub) : sub[k] = log[n + k]
  <2>1. CASE n + 1 > Len(log)
    <3>1. n = Len(log) /\ sub = <<>>
      BY <1>1, <1>2, <2>1
    <3> QED
      BY <1>1, <3>1
  <2>2. CASE n + 1 <= Len(log)
    BY <1>1, <1>2, <2>2
  <2> QED
    BY <1>1, <2>1, <2>2
<1>4. \A k \in 1..Len(sub) : sub[k].id > n
  <2> SUFFICES ASSUME NEW k \in 1..Len(sub)
               PROVE  sub[k].id > n
    OBVIOUS
  <2>1. n + k \in 1..Len(log) /\ n + k > n
    BY <1>1, <1>3
  <2>2. log[n + k].id = n + k
    BY <2>1
  <2> QED
    BY <1>3, <2>1, <2>2
<1>5. EventsAfter(n) = sub
  BY <1>2, <1>3, <1>4, AboveAll DEF EventsAfter
<1> QED
  BY <1>3, <1>5

(* The next event is shown and closes up.                                  *)
LEMMA DeliverNext ==
  ASSUME WatcherOK, NEW e \in Events, e.id = uiLast + 1, Deliver(e),
         Covered(uiLast), UNCHANGED blind
  PROVE  /\ uiLast' = uiLast + 1
         /\ Covered(uiLast)'
         /\ \A n \in Nat : Covered(n) => Covered(n)'
<1>1. shown \in Seq(Events) /\ uiLast \in Nat
  BY DEF WatcherOK
<1>2. shown' = Append(shown, e) /\ uiLast' = uiLast + 1
  BY <1>1 DEF Deliver
<1>3. /\ Len(shown) \in Nat /\ Len(shown') = Len(shown) + 1
      /\ shown'[Len(shown) + 1] = e
      /\ \A i \in 1..Len(shown) : shown'[i] = shown[i]
  BY <1>1, <1>2
<1>4. IdsOf(shown) \subseteq IdsOf(shown') /\ uiLast + 1 \in IdsOf(shown')
  BY <1>3 DEF IdsOf
<1>5. \A n \in Nat : Covered(n) => Covered(n)'
  BY <1>4 DEF Covered
<1>6. Covered(uiLast)'
  <2> SUFFICES ASSUME NEW i \in 1..(uiLast + 1)
               PROVE  i \in IdsOf(shown') \union blind'
    BY <1>2 DEF Covered
  <2>1. i = uiLast + 1 \/ i \in 1..uiLast
    BY <1>1
  <2> QED
    BY <1>4, <2>1 DEF Covered
<1> QED
  BY <1>2, <1>5, <1>6

LEMMA SkipQuiet ==
  ASSUME SkipInv, WatcherOK, UNCHANGED <<log, faults, view, blind>>,
         \/ ui' \in {"away", "final", "result", "events"}
         \/ ui' = "replay" /\ after' = uiLast'
         \/ /\ ui \in {"poll", "get"} /\ ui' \in {"poll", "get"}
            /\ UNCHANGED <<after, cursor>>
  PROVE  SkipInv'
BY DEF SkipInv, Covered, view

LEMMA ContinuePlace ==
  ASSUME Continue
  PROVE  ui' \in {"final", "poll"}
BY DEF Continue
LEMMA SkipStep ==
  TypeOK /\ WatcherOK /\ IdIsPosition /\ ChannelFollows /\ SkipInv
      /\ [StreamNext]_allVars
    => SkipInv'
<1> SUFFICES ASSUME TypeOK, WatcherOK, IdIsPosition, ChannelFollows, SkipInv,
                    [StreamNext]_allVars, faults' = 0
             PROVE  SkipInv'
  BY DEF SkipInv, Covered
<1>1. /\ log \in Seq(Events) /\ Len(log) \in Nat
      /\ channel \in Seq(Events) /\ Len(channel) \in Nat
      /\ after \in Nat /\ uiLast \in Nat /\ cursor \in 0..Len(channel)
      /\ replayedTo \in 0..Len(log)
      /\ pending \in Seq(Events) /\ shown \in Seq(Events)
  BY DEF TypeOK, WatcherOK
<1>2. faults = 0
  BY WatchedStep, FaultsGrow
<1>3. /\ uiLast <= Len(log)
      /\ Covered(uiLast)
      /\ ui \in {"replay", "yield", "poll", "get"} => after = uiLast
      /\ ui = "yield" =>
           /\ after + Len(pending) = replayedTo
           /\ \A k \in 1..Len(pending) : pending[k] = log[after + k]
      /\ ui \in {"poll", "get"} => Covered(cursor)
  BY <1>2 DEF SkipInv
<1>4. /\ \A i \in 1..Len(log) : log[i].id = i
      /\ Len(channel) <= Len(log)
      /\ \A i \in 1..Len(channel) : channel[i] = log[i]
  BY <1>2 DEF IdIsPosition, ChannelFollows
<1>5. CASE UNCHANGED watcher
  <2>1. /\ Len(log') \in Nat /\ Len(log) <= Len(log')
        /\ \A i \in 1..Len(log) : log'[i] = log[i]
    BY WatchedStep, LogGrows
  <2>2. ui = "yield" => \A k \in 1..Len(pending) : pending[k] = log'[after + k]
    <3> SUFFICES ASSUME ui = "yield", NEW k \in 1..Len(pending)
                 PROVE  pending[k] = log'[after + k]
      OBVIOUS
    <3>1. Len(pending) \in Nat /\ after + k \in 1..Len(log)
      BY <1>1, <1>3
    <3> QED
      BY <1>3, <2>1, <3>1
  <2>3. Covered(uiLast)' /\ (ui \in {"poll", "get"} => Covered(cursor)')
    BY <1>3, <1>5 DEF watcher, stream, view, history, Covered
  <2>4. /\ UNCHANGED <<ui, after, pending, cursor, uiLast, replayedTo>>
        /\ uiLast <= Len(log')
    BY <1>1, <1>3, <1>5, <2>1 DEF watcher, stream, view, history
  <2> QED
    BY <1>1, <1>3, <2>2, <2>3, <2>4 DEF SkipInv
<1>6. CASE Connect \/ SendDone \/ ReadStatus \/ Drop
  BY <1>6, SkipQuiet DEF Connect, SendDone, ReadStatus, Drop, vars, view, history
<1>7. CASE Replay
  <2>1. /\ EventsAfter(after) \in Seq(Events)
        /\ after + Len(EventsAfter(after)) = Len(log)
        /\ \A k \in 1..Len(EventsAfter(after)) : EventsAfter(after)[k] = log[after + k]
    BY <1>1, <1>3, <1>4, <1>7, AfterRest DEF Replay
  <2> QED
    BY <1>3, <1>7, <2>1 DEF Replay, vars, view, SkipInv, Covered
<1>8. CASE YieldReplayed
  <2>1. /\ pending # <<>> /\ Len(pending) \in Nat /\ 1 \in 1..Len(pending)
        /\ Head(pending) = pending[1] /\ Head(pending) \in Events
        /\ Tail(pending) \in Seq(Events)
        /\ Len(Tail(pending)) = Len(pending) - 1
        /\ \A k \in 1..Len(Tail(pending)) : Tail(pending)[k] = pending[k + 1]
    BY <1>1, <1>8 DEF YieldReplayed
  <2>2. after = uiLast /\ after + 1 \in 1..Len(log) /\ Head(pending) = log[after + 1]
    BY <1>1, <1>3, <1>8, <2>1 DEF YieldReplayed
  <2>3. Head(pending).id = uiLast + 1
    BY <1>4, <2>2
  <2>4. uiLast' = uiLast + 1 /\ Covered(uiLast)'
    BY <1>3, <1>8, <2>1, <2>3, DeliverNext DEF YieldReplayed, history
  <2>5. after' = uiLast + 1
    BY <1>1, <1>8, <2>2, <2>3 DEF YieldReplayed
  <2>6. \A k \in 1..Len(pending') : pending'[k] = log[after' + k]
    <3> SUFFICES ASSUME NEW k \in 1..Len(Tail(pending))
                 PROVE  Tail(pending)[k] = log[uiLast + 1 + k]
      BY <1>8, <2>5 DEF YieldReplayed
    <3>1. k + 1 \in 1..Len(pending) /\ after + (k + 1) = uiLast + 1 + k
      BY <1>1, <2>1, <2>2
    <3> QED
      BY <1>3, <1>8, <2>1, <3>1 DEF YieldReplayed
  <2>7. after' + Len(pending') = replayedTo'
    BY <1>1, <1>3, <1>8, <2>1, <2>2, <2>5 DEF YieldReplayed, history
  <2>8. uiLast' <= Len(log') /\ after' = uiLast' /\ log' = log /\ ui' = "yield"
    BY <1>1, <1>8, <2>2, <2>4, <2>5 DEF YieldReplayed, vars
  <2> QED
    BY <2>4, <2>6, <2>7, <2>8 DEF SkipInv
<1>9. CASE Subscribe
  <2>1. after = uiLast /\ after = replayedTo
    BY <1>1, <1>3, <1>9 DEF Subscribe
  <2>2. ASSUME NEW i \in 1..Len(channel)
        PROVE  i \in IdsOf(shown) \union blind'
    <3>1. CASE i <= replayedTo
      <4>1. i \in IdsOf(shown) \union blind
        BY <1>1, <1>3, <2>1, <3>1 DEF Covered
      <4> QED
        BY <1>9, <4>1 DEF Subscribe
    <3>2. CASE ~(i <= replayedTo)
      <4>1. channel[i].id = i
        BY <1>1, <1>4
      <4>2. i \in IdsOf(channel)
        BY <4>1 DEF IdsOf
      <4>3. i \notin IdsOf(SubSeq(log, 1, replayedTo))
        <5>1. Len(SubSeq(log, 1, replayedTo)) = replayedTo
              /\ \A k \in 1..replayedTo : SubSeq(log, 1, replayedTo)[k] = log[k]
          BY <1>1
        <5>2. \A k \in 1..replayedTo : log[k].id = k
          BY <1>1, <1>4
        <5> QED
          BY <1>1, <3>2, <5>1, <5>2 DEF IdsOf
      <4> QED
        BY <1>9, <4>2, <4>3 DEF Subscribe
    <3> QED
      BY <3>1, <3>2
  <2>3. Covered(cursor)'
    BY <1>9, <2>2 DEF Subscribe, view, Covered
  <2>4. Covered(uiLast)'
    BY <1>3, <1>9 DEF Subscribe, view, Covered
  <2> QED
    BY <1>3, <1>9, <2>1, <2>3, <2>4 DEF Subscribe, vars, view, SkipInv
<1>10. CASE Poll
  BY <1>10, SkipQuiet DEF Poll, vars, view, history
<1>11. CASE GetConfirmation \/ GetNothing
  BY <1>11, ContinuePlace, SkipQuiet DEF GetConfirmation, GetNothing, vars, view, history
<1>12. CASE GetMessage
  <2>1. cursor + 1 \in 1..Len(channel) /\ cursor \in Nat /\ after = uiLast
    BY <1>1, <1>3, <1>12 DEF GetMessage
  <2>2. channel[cursor + 1] \in Events /\ channel[cursor + 1].id = cursor + 1
    BY <1>1, <1>4, <2>1
  <2>3. ui' \in {"final", "poll"} /\ cursor' = cursor + 1 /\ log' = log
        /\ UNCHANGED blind /\ ui = "get"
    BY <1>12, ContinuePlace DEF GetMessage, vars, history
  <2>4. CASE cursor + 1 > after
    <3>1. Deliver(channel[cursor + 1]) /\ after' = cursor + 1
      BY <1>12, <2>2, <2>4 DEF GetMessage
    <3>2. shown' = Append(shown, channel[cursor + 1]) /\ uiLast' = cursor + 1
      BY <2>1, <2>2, <2>4, <3>1 DEF Deliver
    <3>3. /\ Len(shown) \in Nat /\ Len(shown') = Len(shown) + 1
          /\ shown'[Len(shown) + 1] = channel[cursor + 1]
          /\ \A i \in 1..Len(shown) : shown'[i] = shown[i]
      BY <1>1, <2>2, <3>2
    <3>4. IdsOf(shown) \subseteq IdsOf(shown') /\ cursor + 1 \in IdsOf(shown')
      BY <2>2, <3>3 DEF IdsOf
    <3>5. Covered(cursor)'
      <4> SUFFICES ASSUME NEW i \in 1..(cursor + 1)
                   PROVE  i \in IdsOf(shown') \union blind'
        BY <2>3 DEF Covered
      <4>1. i = cursor + 1 \/ i \in 1..cursor
        BY <2>1
      <4> QED
        BY <1>3, <2>3, <3>4, <4>1 DEF Covered
    <3> QED
      BY <1>1, <1>4, <2>1, <2>3, <3>1, <3>2, <3>5 DEF SkipInv, Covered
  <2>5. CASE ~(cursor + 1 > after)
    <3>1. UNCHANGED <<after, view>>
      BY <1>12, <2>2, <2>5 DEF GetMessage
    <3>2. Covered(uiLast)' /\ Covered(cursor)'
      <4>1. cursor + 1 <= uiLast
        BY <2>1, <2>5, <1>1
      <4> QED
        BY <1>1, <1>3, <2>1, <2>3, <3>1, <4>1 DEF Covered, view
    <3> QED
      BY <1>3, <2>1, <2>3, <3>1, <3>2 DEF SkipInv, view
  <2> QED
    BY <2>4, <2>5
<1>13. CASE ReadEvents
  <2>1. EventsAfter(0) = log
    <3>1. NeverBehindPosition
      BY <1>1, <1>4 DEF NeverBehindPosition
    <3> QED
      BY <3>1, AfterZero
  <2>2. shown' = log /\ log' = log /\ ui' = "notified"
        /\ uiLast' = IF log = <<>> THEN uiLast ELSE LastId(log)
    BY <1>13, <2>1 DEF ReadEvents, vars
  <2>3. IdsOf(log) = 1..Len(log)
    BY <1>1, <1>4 DEF IdsOf
  <2>4. uiLast' <= Len(log)
    <3>1. CASE log = <<>>
      BY <1>1, <1>3, <2>2, <3>1
    <3>2. CASE log # <<>>
      <4>1. Len(log) \in IdsOf(log) /\ \A m \in IdsOf(log) : m <= Len(log)
        BY <1>1, <2>3, <3>2
      <4>2. LastId(log) \in IdsOf(log)
        BY <4>1 DEF LastId
      <4> QED
        BY <2>2, <3>2, <4>1, <4>2
    <3> QED
      BY <3>1, <3>2
  <2>5. uiLast' \in Nat
    BY <1>1, <2>2, LastIdIsHighest
  <2>6. Covered(uiLast)'
    BY <1>1, <2>2, <2>3, <2>4, <2>5 DEF Covered
  <2> QED
    BY <2>2, <2>4, <2>6 DEF SkipInv
<1> QED
  BY <1>5, <1>6, <1>7, <1>8, <1>9, <1>10, <1>11, <1>12, <1>13
  DEF StreamNext, StreamStep, allVars

(* Unless a command failed, a session that has come to some id has every     *)
(* event below it on the screen, or the event passed between the replay of  *)
(* the list and the subscription to the channel (runtime_bus.py:155-160).  *)
THEOREM SkippedOnlyThen ==
  SingleTask => (StreamSpec => []SkippedOnlyWhileSubscribing)
<1> SUFFICES ASSUME SingleTask
             PROVE  StreamSpec => []SkippedOnlyWhileSubscribing
  OBVIOUS
<1>1. StreamInit => SkipInv
  BY DEF StreamInit, Init, SkipInv, Covered
<1>2. StreamSpec => []TypeOK /\ []IdIsPosition /\ []ChannelFollows
  BY StreamIsBus, TypeCorrect, IdsArePositions, ChannelInOrder
<1>3. TypeOK /\ WatcherOK /\ IdIsPosition /\ SkipInv => SkippedOnlyWhileSubscribing
  <2> SUFFICES ASSUME TypeOK, WatcherOK, IdIsPosition, SkipInv, faults = 0,
                      NEW i \in 1..Len(log), log[i].id < uiLast,
                      log[i].id \notin IdsOf(shown)
               PROVE  log[i].id \in blind
    BY DEF SkippedOnlyWhileSubscribing
  <2>1. log[i].id = i /\ uiLast \in Nat /\ Len(log) \in Nat
    BY DEF IdIsPosition, WatcherOK, TypeOK
  <2>2. i \in 1..uiLast /\ Covered(uiLast)
    BY <2>1 DEF SkipInv
  <2> QED
    BY <2>1, <2>2 DEF Covered
<1> QED
  BY <1>1, <1>2, <1>3, WatcherTypes, SkipStep, PTL DEF StreamSpec
=============================================================================
