---------------------------- MODULE ControllerQueue ----------------------------
(* Controller input of the legacy client (working/b4a): the controller thread    *)
(* queues complete messages in a ring, the main thread, which alone uses the     *)
(* socket, sends them while it receives, empties the ring when it replaces the   *)
(* session, and takes the pad from the controller for a calibration or a remote  *)
(* display switch.                                                               *)
(*                                                                               *)
(* A section under rfb_queue_sema is one step; rfb_connected and the two flags   *)
(* of the pad handoff are read and written without a lock, each read and each    *)
(* write a step.  A message is its number and the session whose screen the user  *)
(* saw when the controller made it.                                              *)
EXTENDS Integers, Sequences

CONSTANTS
  Capacity,     \* RFB_OUT_QUEUE_CAPACITY
  MaxMessages, MaxSessions      \* bounds of the model

ASSUME ControllerQueueAssumption ==
  /\ Capacity \in Nat \ {0}
  /\ MaxMessages \in Nat /\ MaxSessions \in Nat \ {0}

VARIABLES
  ring, head, tail, count,      \* rfb_out_queue, rfb_out_head, _tail, _count
  connected,                    \* rfb_connected
  session,                      \* the number of the session the socket belongs to
  pause_requested, pause_ack,   \* controller_pad_pause_*
  main, controller,             \* where the two threads are
  hand,                         \* the message the controller holds, if any
  taken,                        \* the message the main thread has taken, if any
  made,                         \* the messages made so far
  delivered                     \* what the servers got: message and session

queue == <<ring, head, tail, count>>
pause == <<pause_requested, pause_ack>>
vars == <<queue, connected, session, pause, main, controller, hand, taken, made,
          delivered>>

Messages == [number : 1 .. MaxMessages, born : 1 .. MaxSessions]
None == [number |-> 0, born |-> 0]

TypeOK ==
  /\ ring \in [0 .. Capacity - 1 -> Messages \cup {None}]
  /\ head \in 0 .. Capacity - 1 /\ tail \in 0 .. Capacity - 1
  /\ count \in 0 .. Capacity
  /\ connected \in BOOLEAN /\ session \in 1 .. MaxSessions
  /\ pause_requested \in BOOLEAN /\ pause_ack \in BOOLEAN
  /\ main \in {"live", "outage", "handshaking", "reopened", "acquiring", "owning",
               "switching", "releasing", "exited"}
  /\ controller \in {"top", "polling", "sending", "queueing", "pausing", "paused",
                     "resuming"}
  /\ hand \in Messages \cup {None} /\ taken \in Messages \cup {None}
  /\ made \in 0 .. MaxMessages
  /\ delivered \in Seq([message : Messages, session : 1 .. MaxSessions])

\* The live loop starts the controller with an empty ring.
Init ==
  /\ ring = [slot \in 0 .. Capacity - 1 |-> None]
  /\ head = 0 /\ tail = 0 /\ count = 0
  /\ connected = TRUE /\ session = 1
  /\ pause_requested = FALSE /\ pause_ack = FALSE
  /\ main = "live" /\ controller = "top"
  /\ hand = None /\ taken = None /\ made = 0 /\ delivered = <<>>

------------------------------------------------------------------------------
(* The controller thread.                                                       *)

\* The pause is looked for, and acknowledged, just before the next libpad access.
PollPad ==
  /\ controller = "top"
  /\ controller' = IF pause_requested THEN "pausing" ELSE "polling"
  /\ UNCHANGED <<queue, connected, session, pause, main, hand, taken, made,
                 delivered>>

EnterPause ==
  /\ controller = "pausing"
  /\ pause_ack' = TRUE /\ controller' = "paused"
  /\ UNCHANGED <<queue, connected, session, pause_requested, main, hand, taken,
                 made, delivered>>

\* The buttons and sticks give a message, or the poll is over.
MakeMessage ==
  /\ controller = "polling"
  /\ \/ /\ made < MaxMessages
        /\ made' = made + 1
        /\ hand' = [number |-> made + 1, born |-> session]
        /\ controller' = "sending"
     \/ controller' = "top" /\ UNCHANGED <<made, hand>>
  /\ UNCHANGED <<queue, connected, session, pause, main, taken, delivered>>

\* send_rfb_message looks at the connection once, without the semaphore.
CheckConnected ==
  /\ controller = "sending"
  /\ IF connected
     THEN controller' = "queueing" /\ UNCHANGED hand
     ELSE controller' = "polling" /\ hand' = None
  /\ UNCHANGED <<queue, connected, session, pause, main, taken, made, delivered>>

NextSlot(slot) == (slot + 1) % Capacity

\* Fault: the last slot is not the last.
HasRoomBeyond == count <= Capacity

HasRoom == count < Capacity

\* Under the semaphore; a full ring is tried again a millisecond later.
Put ==
  /\ controller = "queueing" /\ HasRoom
  /\ ring' = [ring EXCEPT ![tail] = hand]
  /\ tail' = NextSlot(tail) /\ count' = count + 1
  /\ controller' = "polling" /\ hand' = None
  /\ UNCHANGED <<head, connected, session, pause, main, taken, made, delivered>>

LeavePause ==
  /\ controller = "paused" /\ ~pause_requested
  /\ controller' = "resuming"
  /\ UNCHANGED <<queue, connected, session, pause, main, hand, taken, made,
                 delivered>>

Resume ==
  /\ controller = "resuming"
  /\ pause_ack' = FALSE /\ controller' = "top"
  /\ UNCHANGED <<queue, connected, session, pause_requested, main, hand, taken,
                 made, delivered>>

Controller ==
  PollPad \/ EnterPause \/ MakeMessage \/ CheckConnected \/ Put \/ LeavePause
    \/ Resume

------------------------------------------------------------------------------
(* The main thread.                                                             *)

Goto(place) == main' = place

\* flush_rfb_outgoing takes a message under the semaphore and sends it outside;
\* every refill of the receive buffer and every request for an update flushes.
Flushes == main \in {"live", "handshaking", "reopened", "owning", "switching"}

Take ==
  /\ Flushes /\ taken = None /\ count > 0
  /\ taken' = ring[head]
  /\ head' = NextSlot(head) /\ count' = count - 1
  /\ UNCHANGED <<ring, tail, connected, session, pause, main, controller, hand,
                 made, delivered>>

Send ==
  /\ taken # None
  /\ delivered' = Append(delivered, [message |-> taken, session |-> session])
  /\ taken' = None
  /\ UNCHANGED <<queue, connected, session, pause, main, controller, hand, made>>

\* reset_rfb_transport_state, and ps2vnc_discard_controller_rfb_queue.
Reset == head' = 0 /\ tail' = 0 /\ count' = 0

\* Fault: the count of what was thrown away stays.
DiscardIndexes == head' = tail /\ UNCHANGED <<tail, count>>

Discard == head' = tail /\ count' = 0 /\ UNCHANGED tail

\* A failed send, receive or switch: the session is given up, and with it what is
\* queued.  The message being sent is lost.
Abandon ==
  /\ connected' = FALSE /\ taken' = None
  /\ Reset

Lose ==
  /\ main \in {"live", "reopened"} /\ Goto("outage")
  /\ Abandon
  /\ UNCHANGED <<ring, session, pause, controller, hand, made, delivered>>

\* A new socket, on a ring that was emptied again.
Connect ==
  /\ main = "outage" /\ session < MaxSessions
  /\ Goto("handshaking")
  /\ session' = session + 1
  /\ Reset
  /\ UNCHANGED <<ring, connected, pause, controller, hand, taken, made, delivered>>

\* The attempts are used up.
GiveUp ==
  /\ main = "outage" /\ Goto("exited")
  /\ UNCHANGED <<queue, connected, session, pause, controller, hand, taken, made,
                 delivered>>

HandshakeFails ==
  /\ main = "handshaking" /\ Goto("outage")
  /\ taken' = None
  /\ Reset
  /\ UNCHANGED <<ring, connected, session, pause, controller, hand, made, delivered>>

\* Input is queued again once the generic recovery is over, but a rollback still
\* has its display to reconstruct.
HandshakeDone ==
  /\ main = "handshaking" /\ taken = None
  /\ \/ Goto("live") /\ connected' = TRUE
     \/ Goto("reopened") /\ UNCHANGED connected
  /\ UNCHANGED <<queue, session, pause, controller, hand, taken, made, delivered>>

\* The rollback of a local switch never needs the pad.
RolledBack ==
  /\ main = "reopened" /\ taken = None /\ Goto("live")
  /\ connected' = TRUE
  /\ UNCHANGED <<queue, session, pause, controller, hand, taken, made, delivered>>

Acquire ==
  /\ main \in {"live", "reopened"} /\ taken = None /\ Goto("acquiring")
  /\ pause_requested' = TRUE
  /\ UNCHANGED <<queue, connected, session, pause_ack, controller, hand, taken,
                 made, delivered>>

\* Fault: the acknowledgement is not waited for.
AcquiredAtOnce ==
  /\ main = "acquiring" /\ Goto("owning")
  /\ UNCHANGED <<queue, connected, session, pause, controller, hand, taken, made,
                 delivered>>

Acquired ==
  /\ main = "acquiring" /\ pause_ack /\ Goto("owning")
  /\ UNCHANGED <<queue, connected, session, pause, controller, hand, taken, made,
                 delivered>>

\* Fault: the acknowledgement is waited for without a limit.
AcquireWaits == main = "acquiring" /\ UNCHANGED vars

\* Without the pad a calibration and a rollback end the client, a forward switch
\* becomes its rollback.
AcquireTimesOut ==
  /\ main = "acquiring"
  /\ pause_requested' = FALSE
  /\ \/ Goto("exited") /\ UNCHANGED <<head, tail, count, connected, taken>>
     \/ Goto("outage") /\ Abandon
  /\ UNCHANGED <<ring, session, pause_ack, controller, hand, made, delivered>>

\* A calibration sends what was queued before the handoff, a remote switch throws
\* it away.
Drained ==
  /\ main = "owning" /\ Goto("switching")
  /\ \/ taken = None /\ count = 0 /\ UNCHANGED <<head, tail, count>>
     \/ taken = None /\ Discard
  /\ UNCHANGED <<ring, connected, session, pause, controller, hand, taken, made,
                 delivered>>

Release ==
  /\ main = "switching" /\ taken = None /\ Goto("releasing")
  /\ pause_requested' = FALSE
  /\ UNCHANGED <<queue, connected, session, pause_ack, controller, hand, taken,
                 made, delivered>>

\* The switch succeeded, or becomes its rollback; without the acknowledgement
\* gone it counts as failed, and a calibration ends the client.
Released ==
  /\ main = "releasing"
  /\ \/ ~pause_ack /\ Goto("live") /\ connected' = TRUE
        /\ UNCHANGED <<head, tail, count, taken>>
     \/ Goto("outage") /\ Abandon
     \/ Goto("exited") /\ UNCHANGED <<head, tail, count, connected, taken>>
  /\ UNCHANGED <<ring, session, pause, controller, hand, made, delivered>>

Main ==
  Take \/ Send \/ Lose \/ Connect \/ GiveUp \/ HandshakeFails \/ HandshakeDone
    \/ RolledBack \/ Acquire \/ Acquired \/ AcquireTimesOut \/ Drained \/ Release
    \/ Released

Exited == main = "exited" /\ UNCHANGED vars

Next == Controller \/ Main \/ Exited

\* Both threads go on: receives are polled, connects and acquisitions time out,
\* and a flush is part of every wait.
Fairness == WF_vars(Main) /\ WF_vars(Controller)

Spec == Init /\ [][Next]_vars /\ Fairness

------------------------------------------------------------------------------
(* Properties.                                                                  *)

\* While the main thread owns the pad, from the acknowledgement to the release,
\* the controller is not between its check and the end of its poll.
PadExclusive ==
  main \in {"owning", "switching"} => controller \in {"top", "pausing", "paused", "resuming"}

\* Nothing the user did before or during the handoff enters the reconstruction.
QuietWhileOwned == main = "switching" => count = 0 /\ taken = None

\* The server sees the user's input in the order it was made, and none twice.
InputInOrder ==
  \A i \in 1 .. Len(delivered), j \in 1 .. Len(delivered) :
    i < j => delivered[i].message.number < delivered[j].message.number

\* The controller is not held in a full ring for ever.
ControllerGoesOn ==
  controller = "queueing" ~> controller # "queueing" \/ main = "exited"

\* Events generated before or during an outage never fire into the replacement
\* session.
NoInputAcrossOutage ==
  \A i \in 1 .. Len(delivered) : delivered[i].message.born = delivered[i].session

------------------------------------------------------------------------------
(* The inductive strengthening of the guarantees above.                         *)

\* The acknowledgement stands exactly while the controller pauses, and the
\* request as long as the main thread counts on it.
PauseInv ==
  /\ pause_ack = TRUE <=> controller \in {"paused", "resuming"}
  /\ main \in {"acquiring", "owning", "switching"} => pause_requested = TRUE

\* The slot of the i-th queued message, counted from zero at the head.
Slot(first, i) ==
  IF first + i < Capacity THEN first + i ELSE first + i - Capacity

Queued == 0 .. count - 1

\* Whatever has left the controller is older than this.
Newest ==
  IF controller \in {"sending", "queueing"} THEN made ELSE made + 1

\* The two indexes and the count agree, and the queue holds messages in order.
RingInv ==
  /\ tail = Slot(head, count)
  /\ \A i \in Queued : ring[Slot(head, i)] \in Messages /\ ring[Slot(head, i)].number < Newest
  /\ \A i, j \in Queued : i < j => ring[Slot(head, i)].number < ring[Slot(head, j)].number
  /\ controller \in {"sending", "queueing"} =>
       hand \in Messages /\ hand.number = made

\* What is sent is older than what is queued, what was sent older than both.
SendInv ==
  /\ taken # None =>
       /\ taken.number < Newest
       /\ \A i \in Queued : taken.number < ring[Slot(head, i)].number
  /\ \A k \in 1 .. Len(delivered) :
       /\ delivered[k].message.number < Newest
       /\ taken # None => delivered[k].message.number < taken.number
       /\ \A i \in Queued :
            delivered[k].message.number < ring[Slot(head, i)].number

QueueInv ==
  /\ TypeOK /\ PauseInv /\ RingInv /\ SendInv
  /\ PadExclusive /\ QuietWhileOwned /\ InputInOrder

===============================================================================
