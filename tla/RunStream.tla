----------------------------- MODULE RunStream ------------------------------
(***************************************************************************)
(* RunBus together with the browser session that started the run and       *)
(* watches it: AsyncRunEventStore.stream_events (runtime_bus.py) behind the *)
(* SSE endpoint (apps/supervisor_api.py), and the UI's loop over the stream *)
(* (ui/run_monitor.py, ui/api_client.py).                                  *)
(*                                                                         *)
(* Server and UI of one stream are joined by one connection, in order and  *)
(* without loss until it breaks: a yield is delivered in the same step,    *)
(* and Drop, which may come after any of them, loses the rest.             *)
(***************************************************************************)
EXTENDS RunBus

CONSTANT MaxDrops     \* bound on broken streams and failed status requests

ASSUME DropAssumption == MaxDrops \in Nat

VARIABLES
  ui,           \* where the session and the stream it has open are
  after,        \* last_event_id, the generator's
  pending,      \* replayed events still to be yielded
  confirm,      \* the subscription's confirmation has not been read yet
  cursor,       \* how much of the channel get_message has returned
  seen,         \* the status a reader took and has not acted on yet
  shown,        \* active_run_events
  uiLast,       \* active_run_last_event_id
  announced,    \* the status the session's final message was made from
  drops,
  replayedTo,   \* history: how long the list was at the replay
  blind         \* history: ids that passed between a replay and its subscribe

stream  == <<after, pending, confirm, cursor, seen>>
view    == <<shown, uiLast>>
history == <<replayedTo, blind>>
watcher == <<ui, stream, view, announced, drops, history>>
allVars == <<vars, watcher>>

Closed == /\ after' = 0
          /\ pending' = <<>>
          /\ confirm' = FALSE
          /\ cursor' = 0
          /\ seen' = "absent"

StreamInit ==
  /\ Init
  /\ ui = "away"
  /\ after = 0 /\ pending = <<>> /\ confirm = FALSE /\ cursor = 0
  /\ seen = "absent"
  /\ shown = <<>> /\ uiLast = 0
  /\ announced = "absent"
  /\ drops = 0
  /\ replayedTo = 0 /\ blind = {}

-----------------------------------------------------------------------------
(* get_events / replay_events: LRANGE from list index n (counted from 0),  *)
(* then a loop that collects the events with an id above n.                *)
Above(s, n) ==
  LET events[i \in 0..Len(s)] ==
        IF i = 0 THEN <<>>
        ELSE IF s[i].id > n THEN Append(events[i - 1], s[i]) ELSE events[i - 1]
  IN  events[Len(s)]

(* Mutant: the list is read from one place too far.                        *)
EventsAfter_OffByOne(n) == Above(SubSeq(log, n + 2, Len(log)), n)

EventsAfter(n) == Above(SubSeq(log, n + 1, Len(log)), n)

(* The UI shows an event unless it has shown that id or a later one.       *)
(* Mutant: the UI trusts the stream to send each event once.               *)
Deliver_Unchecked(e) ==
  shown' = Append(shown, e) /\ uiLast' = e.id

Deliver(e) ==
  IF e.id > uiLast
  THEN shown' = Append(shown, e) /\ uiLast' = e.id
  ELSE UNCHANGED view

-----------------------------------------------------------------------------
(* The UI opens the stream with the id it has come to; it knows the run    *)
(* from the answer to its POST.  The endpoint finds the run, or answers 404. *)
Connect ==
  /\ ui = "away"
  /\ At(API, "returned")
  /\ job.status # "absent"
  /\ ui' = "replay"
  /\ after' = uiLast
  /\ UNCHANGED <<vars, pending, confirm, cursor, seen, view, announced,
                 drops, history>>

Replay ==
  /\ ui = "replay"
  /\ pending' = EventsAfter(after)
  /\ replayedTo' = Len(log)
  /\ ui' = "yield"
  /\ UNCHANGED <<vars, after, confirm, cursor, seen, view, announced, drops,
                 blind>>

YieldReplayed ==
  /\ ui = "yield"
  /\ pending # <<>>
  /\ LET e == Head(pending)
     IN  /\ after' = IF e.id > after THEN e.id ELSE after
         /\ Deliver(e)
  /\ pending' = Tail(pending)
  /\ UNCHANGED <<vars, ui, confirm, cursor, seen, announced, drops, history>>

IdsOf(s) == {s[i].id : i \in 1..Len(s)}

Subscribe ==
  /\ ui = "yield"
  /\ pending = <<>>
  /\ cursor' = Len(channel)
  /\ confirm' = TRUE
  /\ ui' = "poll"
  /\ blind' = blind \union
       (IdsOf(channel) \ IdsOf(SubSeq(log, 1, replayedTo)))
  /\ UNCHANGED <<vars, after, pending, seen, view, announced, drops,
                 replayedTo>>

(* The status is read first and acted upon after the message.              *)
Poll ==
  /\ ui = "poll"
  /\ seen' = job.status
  /\ ui' = "get"
  /\ UNCHANGED <<vars, after, pending, confirm, cursor, view, announced,
                 drops, history>>

(* Mutant: the stream only ends for a success.                             *)
Continue_UntilSuccess ==
  IF seen = "succeeded"
  THEN ui' = "final" /\ seen' = "absent"
  ELSE ui' = "poll" /\ seen' = "absent"

(* Mutant: the stream ends for a run that has not begun, too.              *)
Continue_UnlessRunning ==
  IF seen # "running"
  THEN ui' = "final" /\ seen' = "absent"
  ELSE ui' = "poll" /\ seen' = "absent"

Continue ==
  IF seen \in Terminal
  THEN ui' = "final" /\ seen' = "absent"
  ELSE ui' = "poll" /\ seen' = "absent"

(* The first message is the confirmation, which get_message hides.         *)
GetConfirmation ==
  /\ ui = "get"
  /\ confirm
  /\ confirm' = FALSE
  /\ Continue
  /\ UNCHANGED <<vars, after, pending, cursor, view, announced, drops,
                 history>>

GetMessage ==
  /\ ui = "get"
  /\ ~confirm
  /\ cursor < Len(channel)
  /\ cursor' = cursor + 1
  /\ LET e == channel[cursor + 1]
     IN  IF e.id > after
         THEN after' = e.id /\ Deliver(e)
         ELSE UNCHANGED <<after, view>>
  /\ Continue
  /\ UNCHANGED <<vars, pending, confirm, announced, drops, history>>

(* One second without a message.                                           *)
GetNothing ==
  /\ ui = "get"
  /\ ~confirm
  /\ cursor = Len(channel)
  /\ Continue
  /\ UNCHANGED <<vars, after, pending, confirm, cursor, view, announced,
                 drops, history>>

(* The generator is at its end: the done frame, and the connection closes. *)
SendDone ==
  /\ ui = "final"
  /\ ui' = "result"
  /\ Closed
  /\ UNCHANGED <<vars, view, announced, drops, history>>

(* The session asks for the run: get_run reads the hash, then the list.    *)
ReadStatus ==
  /\ ui = "result"
  /\ seen' = job.status
  /\ ui' = "events"
  /\ UNCHANGED <<vars, after, pending, confirm, cursor, view, announced,
                 drops, history>>

LastId(s) == CHOOSE n \in IdsOf(s) : \A m \in IdsOf(s) : m <= n

(* Mutant: only the status is taken over, the streamed view stays.         *)
ReadEvents_KeepsView ==
  /\ ui = "events"
  /\ UNCHANGED view
  /\ announced' = seen
  /\ seen' = "absent"
  /\ ui' = "notified"
  /\ UNCHANGED <<vars, after, pending, confirm, cursor, drops, history>>

ReadEvents ==
  /\ ui = "events"
  /\ LET all == EventsAfter(0)
     IN  /\ shown' = all
         /\ uiLast' = IF all = <<>> THEN uiLast ELSE LastId(all)
  /\ announced' = seen
  /\ seen' = "absent"
  /\ ui' = "notified"
  /\ UNCHANGED <<vars, after, pending, confirm, cursor, drops, history>>

(* A broken connection, a read timeout of 600 s, an error of the async     *)
(* Redis client or a failed status request: the UI warns, keeps what it    *)
(* has, and comes back with its next script run.                           *)
Drop ==
  /\ ui \notin {"away", "notified"}
  /\ drops < MaxDrops
  /\ drops' = drops + 1
  /\ ui' = "away"
  /\ Closed
  /\ UNCHANGED <<vars, view, announced, history>>

StreamStep ==
  \/ Replay \/ YieldReplayed \/ Subscribe
  \/ Poll \/ GetConfirmation \/ GetMessage \/ GetNothing
  \/ SendDone \/ ReadStatus \/ ReadEvents

StreamNext == (Next /\ UNCHANGED watcher) \/ Connect \/ StreamStep \/ Drop

StreamSpec == StreamInit /\ [][StreamNext]_allVars

(* The first connection follows the POST in the same script run; after a   *)
(* drop it is up to the user, so fairness is only assumed while nothing is *)
(* dropped.                                                                *)
FirstConnect == drops = 0 /\ Connect

FairStreamSpec ==
  /\ StreamSpec
  /\ WF_allVars(HandlerStep /\ UNCHANGED watcher)
  /\ \A w \in Workers : WF_allVars(WorkerStep(w) /\ UNCHANGED watcher)
  /\ WF_allVars(FirstConnect)
  /\ WF_allVars(StreamStep)

-----------------------------------------------------------------------------
(* Until the final read the session never shows an event twice nor an      *)
(* older one after a newer one, whatever the store holds and however often *)
(* the stream broke (run_monitor.py:68-72, runtime_bus.py:174).            *)
ShownOnceInOrder ==
  ui # "notified" =>
    \A i, j \in 1..Len(shown) : i < j => shown[i].id < shown[j].id

(* What the session shows is stored: a page that asks again finds it.      *)
ShownIsStored ==
  \A i \in 1..Len(shown) : \E j \in 1..Len(log) : log[j] = shown[i]

(* The session announces a run only when it is over, although it takes the *)
(* end of the stream for it and reads the status once more behind it       *)
(* (run_monitor.py:76-103).  It takes a task that is in the queue once: a  *)
(* second execution may set the status back to running between the two.    *)
AnnouncedIsOver == ui = "notified" => announced \in Terminal

(* The announcement stands and the view behind it is the whole log, though *)
(* status and events are read one after the other and the stream may have  *)
(* missed some (runtime_bus.py:80-93, run_monitor.py:82-106).              *)
AnnouncementIsFinal ==
  ui = "notified" => announced = job.status /\ shown = log

(* Unless a command failed, the only stored events a session has skipped are *)
(* those that passed between a replay and its subscription                 *)
(* (runtime_bus.py:155-160).                                               *)
SkippedOnlyWhileSubscribing ==
  faults = 0 => \A i \in 1..Len(log) :
    log[i].id < uiLast /\ log[i].id \notin IdsOf(shown) => log[i].id \in blind

(* A session that stays connected hears of the end of an accepted run      *)
(* unless its task died without a verdict.                                 *)
EndIsAnnounced ==
  pc[API] = "returned" ~>
     ui = "notified" \/ drops > 0 \/ \E w \in Workers : pc[w] = "dead"

(* README.md:65: every event is stored and delivered to the UI over SSE:   *)
(* when the stream reports that it is done the session has all of them.    *)
DoneMeansDelivered ==
  ui = "result" => IdsOf(log) \subseteq IdsOf(shown)
=============================================================================
