------------------------ MODULE ControllerQueueProofs -------------------------
(* Order, exclusive use of the pad and a quiet reconstruction, for a ring of    *)
(* any size and any number of messages and sessions.                            *)
EXTENDS ControllerQueue, TLAPS

------------------------------------------------------------------------------
(* The ring.                                                                    *)

LEMMA NextSlotWraps ==
  ASSUME NEW s \in 0 .. Capacity - 1
  PROVE  /\ NextSlot(s) = IF s + 1 = Capacity THEN 0 ELSE s + 1
         /\ NextSlot(s) \in 0 .. Capacity - 1
  <1>1. Capacity \in Nat \ {0}
    BY ControllerQueueAssumption
  <1>2. CASE s + 1 = Capacity
    BY <1>1, <1>2 DEF NextSlot
  <1>3. CASE s + 1 # Capacity
    BY <1>1, <1>3 DEF NextSlot
  <1>4. QED
    BY <1>2, <1>3

\* Positions are slots, and different positions of the ring different slots.
LEMMA SlotInRing ==
  ASSUME NEW first \in 0 .. Capacity - 1, NEW i \in 0 .. Capacity
  PROVE  /\ Slot(first, i) \in 0 .. Capacity - 1
         /\ \A j \in 0 .. Capacity - 1 :
              j < i /\ i < Capacity => Slot(first, j) # Slot(first, i)
  BY ControllerQueueAssumption DEF Slot

\* After the first message is taken each of the others is one place nearer, and
\* the place behind the last is the next one.
LEMMA SlotAdvances ==
  ASSUME NEW first \in 0 .. Capacity - 1, NEW i \in 0 .. Capacity - 1
  PROVE  /\ Slot(NextSlot(first), i) = Slot(first, i + 1)
         /\ NextSlot(Slot(first, i)) = Slot(first, i + 1)
  <1>1. NextSlot(first) = IF first + 1 = Capacity THEN 0 ELSE first + 1
    BY NextSlotWraps
  <1>2. /\ Slot(first, i) \in 0 .. Capacity - 1
        /\ NextSlot(Slot(first, i)) =
             IF Slot(first, i) + 1 = Capacity THEN 0 ELSE Slot(first, i) + 1
    <2>1. i \in 0 .. Capacity
      BY ControllerQueueAssumption
    <2>2. Slot(first, i) \in 0 .. Capacity - 1
      BY <2>1, SlotInRing
    <2>3. QED
      BY <2>2, NextSlotWraps
  <1>3. QED
    BY <1>1, <1>2, ControllerQueueAssumption DEF Slot

LEMMA SequenceElement ==
  ASSUME NEW S, NEW s \in Seq(S), NEW k \in 1 .. Len(s)
  PROVE  s[k] \in S
  OBVIOUS

LEMMA NoneIsNoMessage == None \notin Messages /\ None.number = 0
  BY DEF None, Messages

------------------------------------------------------------------------------
(* Type correctness and the handoff of the pad.                                 *)

LEMMA QueueStarts == Init => QueueInv
  <1> SUFFICES ASSUME Init PROVE QueueInv
    OBVIOUS
  <1>1. TypeOK
    BY ControllerQueueAssumption DEF Init, TypeOK
  <1>2. PauseInv /\ PadExclusive /\ QuietWhileOwned
    BY DEF Init, PauseInv, PadExclusive, QuietWhileOwned
  <1>3. RingInv /\ SendInv /\ InputInOrder
    BY ControllerQueueAssumption
    DEF Init, RingInv, SendInv, InputInOrder, Slot, Queued
  <1>4. QED
    BY <1>1, <1>2, <1>3 DEF QueueInv

LEMMA ControllerTypes ==
  ASSUME TypeOK, Controller
  PROVE  TypeOK'
  <1>1. CASE PollPad \/ EnterPause \/ LeavePause \/ Resume
    BY <1>1 DEF PollPad, EnterPause, LeavePause, Resume, TypeOK, queue, pause
  <1>2. CASE MakeMessage
    <2>1. made \in 0 .. MaxMessages /\ session \in 1 .. MaxSessions
      BY DEF TypeOK
    <2>2. made < MaxMessages =>
            /\ made + 1 \in 0 .. MaxMessages
            /\ [number |-> made + 1, born |-> session] \in Messages
      BY <2>1, ControllerQueueAssumption DEF Messages
    <2>3. QED
      BY <1>2, <2>2 DEF MakeMessage, TypeOK, queue, pause
  <1>3. CASE CheckConnected
    BY <1>3 DEF CheckConnected, TypeOK, queue, pause
  <1>4. CASE Put
    <2>1. NextSlot(tail) \in 0 .. Capacity - 1 /\ count + 1 \in 0 .. Capacity
      BY <1>4, NextSlotWraps, ControllerQueueAssumption DEF Put, HasRoom, TypeOK
    <2>2. QED
      BY <1>4, <2>1 DEF Put, TypeOK, pause
  <1>5. QED
    BY <1>1, <1>2, <1>3, <1>4 DEF Controller

LEMMA MainTypes ==
  ASSUME TypeOK, Main
  PROVE  TypeOK'
  <1> USE DEF Goto, queue, pause
  <1>1. 0 \in 0 .. Capacity - 1 /\ 0 \in 0 .. Capacity
    BY ControllerQueueAssumption
  <1>2. CASE Take
    <2>1. NextSlot(head) \in 0 .. Capacity - 1 /\ count - 1 \in 0 .. Capacity
      BY <1>2, NextSlotWraps, ControllerQueueAssumption DEF Take, TypeOK
    <2>2. QED
      BY <1>2, <2>1 DEF Take, TypeOK
  <1>3. CASE Send
    <2>1. [message |-> taken, session |-> session]
            \in [message : Messages, session : 1 .. MaxSessions]
      BY <1>3 DEF Send, TypeOK
    <2>2. QED
      BY <1>3, <2>1 DEF Send, TypeOK
  <1>4. CASE Lose \/ HandshakeFails \/ AcquireTimesOut \/ Released
    BY <1>1, <1>4
    DEF Lose, HandshakeFails, AcquireTimesOut, Released, Abandon, Reset, TypeOK
  <1>5. CASE Connect
    <2>1. session + 1 \in 1 .. MaxSessions
      BY <1>5, ControllerQueueAssumption DEF Connect, TypeOK
    <2>2. QED
      BY <1>1, <1>5, <2>1 DEF Connect, Reset, TypeOK
  <1>6. CASE Drained
    BY <1>1, <1>6 DEF Drained, Discard, TypeOK
  <1>7. CASE GiveUp \/ HandshakeDone \/ RolledBack \/ Acquire \/ Acquired \/ Release
    BY <1>7
    DEF GiveUp, HandshakeDone, RolledBack, Acquire, Acquired, Release, TypeOK
  <1>8. QED
    BY <1>2, <1>3, <1>4, <1>5, <1>6, <1>7 DEF Main

LEMMA PauseStep ==
  ASSUME PauseInv, PadExclusive, [Next]_vars
  PROVE  PauseInv' /\ PadExclusive'
  <1> USE DEF PauseInv, PadExclusive, Goto, pause
  <1>1. CASE PollPad
    BY <1>1 DEF PollPad
  <1>2. CASE EnterPause
    BY <1>2 DEF EnterPause
  <1>3. CASE MakeMessage \/ CheckConnected \/ Put
    BY <1>3 DEF MakeMessage, CheckConnected, Put
  <1>4. CASE LeavePause
    BY <1>4 DEF LeavePause
  <1>5. CASE Resume
    BY <1>5 DEF Resume
  <1>6. CASE Take \/ Send
    BY <1>6 DEF Take, Send
  <1>7. CASE Lose \/ Connect \/ GiveUp \/ HandshakeFails \/ HandshakeDone
               \/ RolledBack
    BY <1>7
    DEF Lose, Connect, GiveUp, HandshakeFails, HandshakeDone, RolledBack, Abandon
  <1>8. CASE Acquire
    BY <1>8 DEF Acquire
  <1>9. CASE Acquired
    BY <1>9 DEF Acquired
  <1>10. CASE AcquireTimesOut \/ Release \/ Released
    BY <1>10 DEF AcquireTimesOut, Release, Released, Abandon
  <1>11. CASE Drained
    BY <1>11 DEF Drained
  <1>12. CASE Exited \/ UNCHANGED vars
    BY <1>12 DEF Exited, vars
  <1>13. QED
    BY <1>1, <1>2, <1>3, <1>4, <1>5, <1>6, <1>7, <1>8, <1>9, <1>10, <1>11, <1>12
    DEF Next, Controller, Main

\* With the controller away from the ring nothing is queued, and what is not
\* queued cannot be taken.
LEMMA QuietStep ==
  ASSUME QuietWhileOwned, PadExclusive, [Next]_vars
  PROVE  QuietWhileOwned'
  <1> USE DEF QuietWhileOwned, PadExclusive, Goto, queue
  <1>1. CASE Controller
    <2>1. CASE Put
      BY <2>1 DEF Put
    <2>2. CASE PollPad \/ EnterPause \/ MakeMessage \/ CheckConnected
                 \/ LeavePause \/ Resume
      BY <2>2
      DEF PollPad, EnterPause, MakeMessage, CheckConnected, LeavePause, Resume
    <2>3. QED
      BY <1>1, <2>1, <2>2 DEF Controller
  <1>2. CASE Take \/ Send
    BY <1>2 DEF Take, Send
  <1>3. CASE Drained
    BY <1>3 DEF Drained, Discard
  <1>4. CASE Lose \/ Connect \/ GiveUp \/ HandshakeFails \/ HandshakeDone
               \/ RolledBack \/ Acquire \/ Acquired \/ AcquireTimesOut \/ Release
               \/ Released
    BY <1>4
    DEF Lose, Connect, GiveUp, HandshakeFails, HandshakeDone, RolledBack, Acquire,
        Acquired, AcquireTimesOut, Release, Released
  <1>5. CASE Exited \/ UNCHANGED vars
    BY <1>5 DEF Exited, vars
  <1>6. QED
    BY <1>1, <1>2, <1>3, <1>4, <1>5 DEF Next, Main

------------------------------------------------------------------------------
(* The order of the input.                                                      *)

Ordered == RingInv /\ SendInv /\ InputInOrder

InHand == controller \in {"sending", "queueing"}

\* Nothing of the queue moves and no message is begun or dropped.
LEMMA UntouchedOrder ==
  ASSUME Ordered, UNCHANGED <<queue, hand, made, taken, delivered>>,
         InHand' <=> InHand
  PROVE  Ordered'
  <1>1. UNCHANGED <<ring, head, tail, count, hand, made, taken, delivered>>
    BY DEF queue
  <1>2. Queued' = Queued /\ Newest' = Newest
    BY <1>1 DEF Queued, Newest, InHand
  <1>3. RingInv'
    BY <1>1, <1>2 DEF Ordered, RingInv, InHand
  <1>4. SendInv'
    BY <1>1, <1>2 DEF Ordered, SendInv
  <1>5. QED
    BY <1>1, <1>3, <1>4 DEF Ordered, InputInOrder

\* The queue is emptied, and what is being sent may be lost with it.
LEMMA EmptiedOrder ==
  ASSUME TypeOK', Ordered, count' = 0, tail' = head', taken' \in {taken, None},
         UNCHANGED <<hand, made, controller, delivered>>
  PROVE  Ordered'
  <1>1. Queued' = {} /\ Newest' = Newest
    BY DEF Queued, Newest
  <1>2. Slot(head', count') = head'
    <2>1. \A first \in 0 .. Capacity - 1 : Slot(first, 0) = first
      BY ControllerQueueAssumption DEF Slot
    <2>2. head' \in 0 .. Capacity - 1
      BY DEF TypeOK
    <2>3. QED
      BY <2>1, <2>2
  <1>3. RingInv'
    BY <1>1, <1>2 DEF Ordered, RingInv
  <1>4. SendInv'
    BY <1>1 DEF Ordered, SendInv
  <1>5. QED
    BY <1>3, <1>4 DEF Ordered, InputInOrder

LEMMA DeliveredMessages ==
  ASSUME TypeOK
  PROVE  \A k \in 1 .. Len(delivered) : delivered[k].message \in Messages
  <1>1. delivered \in Seq([message : Messages, session : 1 .. MaxSessions])
    BY DEF TypeOK
  <1>2. \A k \in 1 .. Len(delivered) :
          delivered[k] \in [message : Messages, session : 1 .. MaxSessions]
    BY <1>1, SequenceElement
  <1>3. QED
    BY <1>2

LEMMA MakeMessageOrder ==
  ASSUME TypeOK, TypeOK', Ordered, MakeMessage
  PROVE  Ordered'
  <1>1. made \in Nat
    BY DEF TypeOK
  <1>2. UNCHANGED <<head, tail, count, ring>>
    BY DEF MakeMessage, queue
  <1>3. Queued' = Queued /\ Newest' = Newest
    BY DEF MakeMessage, Queued, Newest, queue
  <1>4. InHand' => hand' \in Messages /\ hand'.number = made'
    <2>1. CASE hand' = [number |-> made + 1, born |-> session] /\ made' = made + 1
      <3>1. made + 1 \in 1 .. MaxMessages /\ session \in 1 .. MaxSessions
        BY <2>1, ControllerQueueAssumption DEF TypeOK
      <3>2. QED
        BY <2>1, <3>1 DEF Messages
    <2>2. QED
      BY <2>1 DEF MakeMessage, InHand
  <1>5. RingInv'
    BY <1>2, <1>3, <1>4 DEF MakeMessage, Ordered, RingInv, InHand, queue
  <1>6. SendInv'
    BY <1>2, <1>3 DEF MakeMessage, Ordered, SendInv, queue
  <1>7. QED
    BY <1>5, <1>6 DEF Ordered, InputInOrder, MakeMessage

\* A message that is dropped leaves a gap in the numbers, and no more.
LEMMA CheckConnectedOrder ==
  ASSUME TypeOK, Ordered, CheckConnected
  PROVE  Ordered'
  <1>1. CASE connected
    BY <1>1, UntouchedOrder DEF CheckConnected, InHand
  <1>2. CASE ~connected
    <2>1. UNCHANGED <<head, tail, count, ring>>
      BY DEF CheckConnected, queue
    <2>2. Queued' = Queued /\ Newest' = Newest + 1 /\ Newest \in Nat
      BY <1>2 DEF CheckConnected, Queued, Newest, queue, TypeOK
    <2>3. /\ \A i \in Queued : ring[Slot(head, i)].number \in Nat
          /\ taken # None => taken.number \in Nat
          /\ \A k \in 1 .. Len(delivered) : delivered[k].message.number \in Nat
      <3>1. \A m \in Messages : m.number \in Nat
        BY DEF Messages
      <3>2. \A k \in 1 .. Len(delivered) : delivered[k].message \in Messages
        BY DeliveredMessages
      <3>3. taken # None => taken \in Messages
        BY DEF TypeOK
      <3>4. \A i \in Queued : ring[Slot(head, i)] \in Messages
        BY DEF Ordered, RingInv
      <3>5. QED
        BY <3>1, <3>2, <3>3, <3>4
    <2>4. RingInv'
      BY <1>2, <2>1, <2>2, <2>3 DEF CheckConnected, Ordered, RingInv, queue
    <2>5. SendInv'
      BY <1>2, <2>1, <2>2, <2>3 DEF CheckConnected, Ordered, SendInv, queue
    <2>6. QED
      BY <2>4, <2>5 DEF Ordered, InputInOrder, CheckConnected
  <1>3. QED
    BY <1>1, <1>2

LEMMA PutOrder ==
  ASSUME TypeOK, Ordered, Put
  PROVE  Ordered'
  <1>1. /\ head \in 0 .. Capacity - 1 /\ count \in 0 .. Capacity - 1
        /\ tail = Slot(head, count) /\ made \in Nat /\ Capacity \in Nat
        /\ ring \in [0 .. Capacity - 1 -> Messages \cup {None}]
    BY ControllerQueueAssumption DEF TypeOK, Ordered, RingInv, Put, HasRoom
  <1>2. head' = head
    BY DEF Put
  <1>3. /\ Queued' = 0 .. count /\ Queued = 0 .. count - 1
        /\ Newest = made /\ Newest' = made + 1
    BY <1>1 DEF Put, Queued, Newest
  <1>4. tail \in 0 .. Capacity - 1 /\ \A i \in Queued : Slot(head, i) # tail
    BY <1>1, <1>3, SlotInRing
  <1>5. /\ ring'[tail] = hand
        /\ \A i \in Queued : ring'[Slot(head, i)] = ring[Slot(head, i)]
    <2>1. \A i \in Queued : Slot(head, i) \in 0 .. Capacity - 1
      <3>1. \A i \in Queued : i \in 0 .. Capacity
        BY <1>1, <1>3
      <3>2. QED
        BY <1>1, <3>1, SlotInRing
    <2>2. QED
      BY <1>1, <1>4, <2>1 DEF Put
  <1>6. hand \in Messages /\ hand.number = made
    BY DEF Ordered, RingInv, Put
  <1>7. \A i \in Queued' : i \in Queued \/ i = count
    BY <1>1, <1>3
  <1>8. \A i \in Queued : ring[Slot(head, i)] \in Messages /\ ring[Slot(head, i)].number < made
    BY <1>3 DEF Ordered, RingInv
  <1>9. \A m \in Messages : m.number \in Nat
    BY DEF Messages
  <1>10. RingInv'
    <2>1. tail' = Slot(head', count')
      BY <1>1, <1>2, SlotAdvances DEF Put
    <2>2. \A i \in Queued' : ring'[Slot(head, i)] \in Messages
                              /\ ring'[Slot(head, i)].number < Newest'
      BY <1>1, <1>3, <1>5, <1>6, <1>7, <1>8, <1>9
    <2>3. ASSUME NEW i \in Queued', NEW j \in Queued', i < j
          PROVE  ring'[Slot(head, i)].number < ring'[Slot(head, j)].number
      <3>1. i \in Queued
        BY <1>1, <1>3, <2>3
      <3>2. CASE j \in Queued
        BY <1>5, <2>3, <3>1, <3>2 DEF Ordered, RingInv
      <3>3. CASE j = count
        BY <1>1, <1>5, <1>6, <1>8, <3>1, <3>3
      <3>4. QED
        BY <1>7, <3>2, <3>3
    <2>4. ~InHand'
      BY DEF Put, InHand
    <2>5. QED
      BY <1>2, <2>1, <2>2, <2>3, <2>4 DEF RingInv, InHand
  <1>11. SendInv'
    <2>1. UNCHANGED <<taken, delivered>>
      BY DEF Put
    <2>2. ASSUME taken # None
          PROVE  /\ taken.number < made + 1
                 /\ \A i \in Queued' : taken.number < ring'[Slot(head, i)].number
      <3>1. taken.number < made /\ taken.number \in Nat
        BY <1>3, <1>9, <2>2 DEF TypeOK, Ordered, SendInv
      <3>2. QED
        BY <1>1, <1>5, <1>6, <1>7, <2>2, <3>1 DEF Ordered, SendInv
    <2>3. ASSUME NEW k \in 1 .. Len(delivered)
          PROVE  /\ delivered[k].message.number < made + 1
                 /\ \A i \in Queued' :
                      delivered[k].message.number < ring'[Slot(head, i)].number
      <3>1. delivered[k].message \in Messages
        BY DeliveredMessages
      <3>2. delivered[k].message.number < made
        BY <1>3 DEF Ordered, SendInv
      <3>3. QED
        BY <1>1, <1>5, <1>6, <1>7, <1>9, <3>1, <3>2 DEF Ordered, SendInv
    <2>4. QED
      BY <1>2, <1>3, <2>1, <2>2, <2>3 DEF Ordered, SendInv
  <1>12. QED
    BY <1>10, <1>11 DEF Ordered, InputInOrder, Put

LEMMA TakeOrder ==
  ASSUME TypeOK, Ordered, Take
  PROVE  Ordered'
  <1>1. /\ head \in 0 .. Capacity - 1 /\ count \in 1 .. Capacity
        /\ head' = NextSlot(head) /\ count' = count - 1
        /\ taken = None /\ taken' = ring[head] /\ Capacity \in Nat
    BY ControllerQueueAssumption DEF TypeOK, Take
  <1>2. Queued' = 0 .. count - 2 /\ Queued = 0 .. count - 1 /\ Newest' = Newest
    BY <1>1 DEF Queued, Newest, Take
  <1>3. \A i \in 0 .. Capacity - 1 : Slot(head', i) = Slot(head, i + 1)
    BY <1>1, SlotAdvances
  <1>4. \A i \in Queued' : /\ i + 1 \in Queued /\ 0 \in Queued /\ 0 < i + 1
                           /\ Slot(head', i) = Slot(head, i + 1)
    BY <1>1, <1>2, <1>3
  <1>5. head = Slot(head, 0) /\ 0 \in Queued
    BY <1>1, <1>2 DEF Slot
  <1>6. UNCHANGED <<ring, tail, hand, made, controller, delivered>>
    BY DEF Take
  <1>7. RingInv'
    <2>1. tail' = Slot(head', count')
      BY <1>1, <1>3, <1>6 DEF Ordered, RingInv
    <2>2. \A i \in Queued' : ring'[Slot(head', i)] \in Messages
                              /\ ring'[Slot(head', i)].number < Newest'
      BY <1>2, <1>4, <1>6 DEF Ordered, RingInv
    <2>3. ASSUME NEW i \in Queued', NEW j \in Queued', i < j
          PROVE  ring'[Slot(head', i)].number < ring'[Slot(head', j)].number
      <3>1. i + 1 < j + 1
        BY <1>2, <2>3
      <3>2. QED
        BY <1>4, <1>6, <3>1 DEF Ordered, RingInv
    <2>4. QED
      BY <1>6, <2>1, <2>2, <2>3 DEF Ordered, RingInv
  <1>8. SendInv'
    <2>1. /\ taken'.number < Newest'
          /\ \A i \in Queued' : taken'.number < ring'[Slot(head', i)].number
      BY <1>1, <1>2, <1>4, <1>5, <1>6 DEF Ordered, RingInv
    <2>2. ASSUME NEW k \in 1 .. Len(delivered)
          PROVE  /\ delivered[k].message.number < Newest'
                 /\ delivered[k].message.number < taken'.number
                 /\ \A i \in Queued' :
                      delivered[k].message.number < ring'[Slot(head', i)].number
      BY <1>1, <1>2, <1>4, <1>5, <1>6 DEF Ordered, SendInv
    <2>3. QED
      BY <1>6, <2>1, <2>2 DEF SendInv
  <1>9. QED
    BY <1>6, <1>7, <1>8 DEF Ordered, InputInOrder

LEMMA SendOrder ==
  ASSUME TypeOK, Ordered, Send
  PROVE  Ordered'
  <1>1. /\ taken # None /\ taken' = None
        /\ delivered' = Append(delivered, [message |-> taken, session |-> session])
        /\ delivered \in Seq([message : Messages, session : 1 .. MaxSessions])
        /\ [message |-> taken, session |-> session]
             \in [message : Messages, session : 1 .. MaxSessions]
        /\ UNCHANGED <<queue, hand, made, controller>>
    BY DEF Send, TypeOK
  <1>2. UNCHANGED <<head, tail, count, ring>>
    BY <1>1 DEF queue
  <1>3. Queued' = Queued /\ Newest' = Newest
    BY <1>1 DEF Queued, Newest, queue
  <1>4. /\ Len(delivered') = Len(delivered) + 1 /\ Len(delivered) \in Nat
        /\ delivered'[Len(delivered) + 1].message = taken
        /\ \A k \in 1 .. Len(delivered) : delivered'[k] = delivered[k]
    BY <1>1
  <1>5. \A k \in 1 .. Len(delivered') :
          k \in 1 .. Len(delivered) \/ k = Len(delivered) + 1
    BY <1>4
  <1>6. RingInv'
    BY <1>1, <1>2, <1>3 DEF Ordered, RingInv, queue
  <1>7. SendInv'
    BY <1>1, <1>2, <1>3, <1>4, <1>5 DEF Ordered, SendInv, queue
  <1>8. InputInOrder'
    <2>1. ASSUME NEW i \in 1 .. Len(delivered'), NEW j \in 1 .. Len(delivered'),
                 i < j
          PROVE  delivered'[i].message.number < delivered'[j].message.number
      <3>1. i \in 1 .. Len(delivered)
        BY <1>4, <2>1
      <3>2. CASE j \in 1 .. Len(delivered)
        BY <1>4, <2>1, <3>1, <3>2 DEF Ordered, InputInOrder
      <3>3. CASE j = Len(delivered) + 1
        BY <1>1, <1>4, <3>1, <3>3 DEF Ordered, SendInv
      <3>4. QED
        BY <1>5, <3>2, <3>3
    <2>2. QED
      BY <2>1 DEF InputInOrder
  <1>9. QED
    BY <1>6, <1>7, <1>8 DEF Ordered

LEMMA OrderStep ==
  ASSUME TypeOK, TypeOK', Ordered, [Next]_vars
  PROVE  Ordered'
  <1>1. CASE PollPad \/ EnterPause \/ LeavePause \/ Resume
    BY <1>1, UntouchedOrder DEF PollPad, EnterPause, LeavePause, Resume, InHand
  <1>2. CASE MakeMessage
    BY <1>2, MakeMessageOrder
  <1>3. CASE CheckConnected
    BY <1>3, CheckConnectedOrder
  <1>4. CASE Put
    BY <1>4, PutOrder
  <1>5. CASE Take
    BY <1>5, TakeOrder
  <1>6. CASE Send
    BY <1>6, SendOrder
  <1>7. CASE Lose \/ HandshakeFails \/ Connect
    BY <1>7, EmptiedOrder DEF Lose, HandshakeFails, Connect, Abandon, Reset
  <1>8. CASE GiveUp \/ HandshakeDone \/ RolledBack \/ Acquire \/ Acquired \/ Release
    BY <1>8, UntouchedOrder
    DEF GiveUp, HandshakeDone, RolledBack, Acquire, Acquired, Release, InHand
  <1>9. CASE AcquireTimesOut \/ Released
    <2>1. CASE Abandon
      BY <1>9, <2>1, EmptiedOrder DEF AcquireTimesOut, Released, Abandon, Reset
    <2>2. CASE ~Abandon
      BY <1>9, <2>2, UntouchedOrder
      DEF AcquireTimesOut, Released, InHand, queue
    <2>3. QED
      BY <2>1, <2>2
  <1>10. CASE Drained
    <2>1. CASE Discard
      BY <1>10, <2>1, EmptiedOrder DEF Drained, Discard
    <2>2. CASE ~Discard
      BY <1>10, <2>2, UntouchedOrder DEF Drained, InHand, queue
    <2>3. QED
      BY <2>1, <2>2
  <1>11. CASE Exited \/ UNCHANGED vars
    BY <1>11, UntouchedOrder DEF Exited, vars, InHand
  <1>12. QED
    BY <1>1, <1>2, <1>3, <1>4, <1>5, <1>6, <1>7, <1>8, <1>9, <1>10, <1>11
    DEF Next, Controller, Main

------------------------------------------------------------------------------
(* The theorems.                                                                *)

\* The inductive invariant of the ring and the handoff.
THEOREM QueueInvariant == Spec => []QueueInv
  <1>1. ASSUME QueueInv, [Next]_vars PROVE QueueInv'
    <2>1. TypeOK'
      <3>1. CASE Controller
        BY <1>1, <3>1, ControllerTypes DEF QueueInv
      <3>2. CASE Main
        BY <1>1, <3>2, MainTypes DEF QueueInv
      <3>3. CASE Exited \/ UNCHANGED vars
        BY <1>1, <3>3 DEF QueueInv, Exited, vars, queue, pause, TypeOK
      <3>4. QED
        BY <1>1, <3>1, <3>2, <3>3 DEF Next
    <2>2. PauseInv' /\ PadExclusive' /\ QuietWhileOwned'
      BY <1>1, PauseStep, QuietStep DEF QueueInv
    <2>3. Ordered'
      BY <1>1, <2>1, OrderStep DEF QueueInv, Ordered
    <2>4. QED
      BY <2>1, <2>2, <2>3 DEF QueueInv, Ordered
  <1>2. QED
    BY <1>1, QueueStarts, PTL DEF Spec

\* The indexes, the count and the two threads stay within their types.
THEOREM QueueTypeCorrect == Spec => []TypeOK
  <1>1. QueueInv => TypeOK
    BY DEF QueueInv
  <1>2. QED
    BY <1>1, QueueInvariant, PTL

\* The pad has one owner: from the acknowledgement to the release the controller
\* is not in its poll (ps2vnc_controller_pad_acquire, _release).
THEOREM PadAlwaysExclusive == Spec => []PadExclusive
  <1>1. QueueInv => PadExclusive
    BY DEF QueueInv
  <1>2. QED
    BY <1>1, QueueInvariant, PTL

\* While a display is reconstructed nothing is queued and nothing is sent
\* (ps2vnc_discard_controller_rfb_queue).
THEOREM ReconstructionAlwaysQuiet == Spec => []QuietWhileOwned
  <1>1. QueueInv => QuietWhileOwned
    BY DEF QueueInv
  <1>2. QED
    BY <1>1, QueueInvariant, PTL

\* However full the ring, wherever it wraps and whenever it is emptied, the
\* servers get the input in the order it was made, and none of it twice.
THEOREM InputAlwaysInOrder == Spec => []InputInOrder
  <1>1. QueueInv => InputInOrder
    BY DEF QueueInv
  <1>2. QED
    BY <1>1, QueueInvariant, PTL

===============================================================================
