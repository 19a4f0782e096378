---------------------------- MODULE ExactIoProofs ----------------------------
(* Buffered exact I/O implements one ordered byte stream per connection, for    *)
(* every buffer size and every way recv and send cut the data.                  *)
EXTENDS ExactIo, TLAPS

LEMMA IoInit == Init => IoInv
  <1> SUFFICES ASSUME Init PROVE IoInv
    OBVIOUS
  <1>1. NoByte \in Bytes /\ Unread \in [1 .. MaxCount -> Bytes]
    BY DEF NoByte, Unread, Bytes
  <1>2. rx_buffer \in [1 .. BufferSize -> Bytes]
    BY <1>1 DEF Init
  <1>3. TypeOK
    <2>1. /\ connection \in Nat /\ broken \in BOOLEAN
          /\ socket_fd \in Descriptors \cup {NoSocket}
          /\ rx_socket \in Descriptors \cup {NoSocket}
      BY DEF Init
    <2>2. /\ rx_pos \in 0 .. BufferSize /\ rx_end \in 0 .. BufferSize
          /\ received \in Nat /\ sent \in Nat
          /\ count \in 0 .. MaxCount /\ done \in 0 .. count
      BY ExactIoAssumption DEF Init
    <2>3. destination \in [1 .. MaxCount -> Bytes] /\ op = "idle"
      BY <1>1 DEF Init
    <2>4. QED
      BY <1>2, <2>1, <2>2, <2>3 DEF TypeOK
  <1>4. ~Usable /\ op = "idle" /\ rx_pos <= rx_end
    BY DEF Init, Usable
  <1>5. QED
    BY <1>3, <1>4 DEF IoInv, BufferIsNextBytes, DestinationIsNextBytes

\* A step that reads and buffers nothing, and copies nothing.
LEMMA BufferUntouched ==
  ASSUME IoInv, TypeOK', op' # "read", op' # "idle" => Usable',
         UNCHANGED <<connection, rx, received>>, Usable' => Usable,
         UNCHANGED socket_fd
  PROVE  IoInv'
  <1>1. BufferIsNextBytes'
    BY DEF IoInv, BufferIsNextBytes, Available, rx
  <1>2. DestinationIsNextBytes' /\ (rx_pos <= rx_end)'
    BY DEF IoInv, DestinationIsNextBytes, rx
  <1>3. QED
    BY <1>1, <1>2 DEF IoInv

\* A step after which nothing is buffered and nothing has been copied.
LEMMA BufferEmptied ==
  ASSUME TypeOK', op' # "idle" => Usable', op' = "read" => done' = 0,
         rx_pos' = 0, rx_end' = 0, Usable' => rx_socket' = socket_fd'
  PROVE  IoInv'
  <1>1. BufferIsNextBytes' /\ DestinationIsNextBytes'
    BY DEF BufferIsNextBytes, DestinationIsNextBytes, Available
  <1>2. QED
    BY <1>1 DEF IoInv

LEMMA CallReadInvariant ==
  ASSUME IoInv, NEW n \in 0 .. MaxCount, CallRead(n)
  PROVE  IoInv'
  <1>1. rx_socket = socket_fd /\ UNCHANGED rx
    BY DEF CallRead, Callable, IoInv, BufferIsNextBytes, Usable
  <1>2. Unread \in [1 .. MaxCount -> Bytes]
    BY DEF Unread, NoByte, Bytes
  <1>3. TypeOK'
    BY <1>1, <1>2 DEF CallRead, IoInv, TypeOK, rx
  <1>4. Usable' /\ (rx_pos <= rx_end)'
    BY <1>1 DEF CallRead, Callable, Usable, IoInv, rx
  <1>5. BufferIsNextBytes'
    BY <1>1 DEF CallRead, Callable, Usable, IoInv, BufferIsNextBytes, Available, rx
  <1>6. DestinationIsNextBytes'
    BY DEF CallRead, DestinationIsNextBytes
  <1>7. QED
    BY <1>3, <1>4, <1>5, <1>6 DEF IoInv

LEMMA CopyBufferedInvariant ==
  ASSUME IoInv, CopyBuffered
  PROVE  IoInv'
  <1>1. /\ op = "read" /\ Usable /\ rx_socket = socket_fd
        /\ rx_pos \in 0 .. BufferSize /\ rx_end \in 0 .. BufferSize
        /\ BufferSize \in Nat
        /\ received \in Nat /\ done \in 0 .. count /\ count \in 0 .. MaxCount
        /\ MaxCount \in Nat
        /\ Available > 0 /\ done < count /\ Available = rx_end - rx_pos
    BY ExactIoAssumption
    DEF CopyBuffered, IoInv, TypeOK, BufferIsNextBytes, Available
  <1>2. /\ Take \in Nat /\ Take > 0 /\ Take <= Available /\ Take <= count - done
    BY <1>1 DEF Take
  <1>3. /\ destination' = [i \in 1 .. MaxCount |->
                             IF i \in done + 1 .. done + Take
                             THEN rx_buffer[rx_pos + i - done]
                             ELSE destination[i]]
        /\ done' = done + Take
        /\ IF rx_pos + Take = rx_end
           THEN rx_pos' = 0 /\ rx_end' = 0
           ELSE rx_pos' = rx_pos + Take /\ UNCHANGED rx_end
        /\ UNCHANGED <<connection, socket_fd, broken, rx_socket, rx_buffer,
                       received, op, count, lastRead, sent>>
    BY DEF CopyBuffered
  <1>4. /\ Available' = Available - Take
        /\ rx_pos' \in 0 .. BufferSize /\ rx_end' \in 0 .. BufferSize
        /\ rx_pos' <= rx_end'
    <2>1. CASE rx_pos + Take = rx_end
      BY <1>1, <1>2, <1>3, <2>1 DEF Available
    <2>2. CASE rx_pos + Take # rx_end
      BY <1>1, <1>2, <1>3, <2>2 DEF Available
    <2>3. QED
      BY <2>1, <2>2
  <1>5. Usable' /\ Position' = Position
    BY <1>1, <1>2, <1>3, <1>4 DEF Usable, Position, DoneOf
  <1>6. \A i \in 1 .. Available :
          rx_buffer[rx_pos + i] = <<connection, received - Available + i>>
    BY <1>1 DEF IoInv, BufferIsNextBytes
  <1>7. TypeOK'
    <2>1. \A i \in done + 1 .. done + Take :
            rx_buffer[rx_pos + i - done] \in Bytes
      BY <1>1, <1>2 DEF IoInv, TypeOK
    <2>2. destination' \in [1 .. MaxCount -> Bytes]
      BY <1>3, <2>1 DEF IoInv, TypeOK
    <2>3. done' \in 0 .. count
      BY <1>1, <1>2, <1>3
    <2>4. QED
      BY <1>3, <1>4, <2>2, <2>3 DEF IoInv, TypeOK
  <1>8. BufferIsNextBytes'
    <2>1. ASSUME NEW i \in 1 .. Available'
          PROVE  rx_buffer'[rx_pos' + i] = <<connection', received' - Available' + i>>
      <3>1. i \in Nat /\ Available' \in Nat /\ Available' > 0 /\ Available \in Nat
        BY <1>1, <1>2, <1>4, <2>1
      <3>2. rx_pos' = rx_pos + Take
        BY <1>1, <1>2, <1>3, <1>4, <3>1
      <3>3. Take + i \in 1 .. Available
        BY <1>2, <1>4, <2>1, <3>1
      <3>4. rx_buffer[rx_pos + (Take + i)]
              = <<connection, received - Available + (Take + i)>>
        BY <1>6, <3>3
      <3>5. /\ rx_pos' + i = rx_pos + (Take + i)
            /\ received - Available + (Take + i) = received' - Available' + i
        BY <1>1, <1>2, <1>3, <1>4, <3>1, <3>2
      <3>6. QED
        BY <1>3, <3>4, <3>5
    <2>2. QED
      BY <1>1, <1>3, <2>1 DEF BufferIsNextBytes
  <1>9. DestinationIsNextBytes'
    <2>1. ASSUME NEW i \in 1 .. done'
          PROVE  destination'[i] = <<connection', Position' + i>>
      <3>1. i \in 1 .. MaxCount /\ i \in Nat
        BY <1>1, <1>2, <1>3
      <3>2. CASE i \in done + 1 .. done + Take
        <4>1. i - done \in 1 .. Available
          BY <1>1, <1>2, <3>2
        <4>2. rx_buffer[rx_pos + (i - done)]
                = <<connection, received - Available + (i - done)>>
          BY <1>6, <4>1
        <4>3. /\ rx_pos + i - done = rx_pos + (i - done)
              /\ received - Available + (i - done) = Position + i
          BY <1>1, <1>2, <3>2 DEF Position, DoneOf
        <4>4. QED
          BY <1>3, <1>5, <3>1, <3>2, <4>2, <4>3
      <3>3. CASE i \in 1 .. done
        <4>1. i \notin done + 1 .. done + Take
          BY <1>1, <1>2, <3>3
        <4>2. destination[i] = <<connection, Position + i>>
          BY <1>1, <3>3 DEF IoInv, DestinationIsNextBytes
        <4>3. QED
          BY <1>3, <1>5, <3>1, <4>1, <4>2
      <3>4. i \in 1 .. done \/ i \in done + 1 .. done + Take
        BY <1>1, <1>2, <1>3, <2>1
      <3>5. QED
        BY <3>2, <3>3, <3>4
    <2>2. QED
      BY <2>1 DEF DestinationIsNextBytes
  <1>10. QED
    BY <1>4, <1>5, <1>7, <1>8, <1>9 DEF IoInv

LEMMA RefillInvariant ==
  ASSUME IoInv, Refill
  PROVE  IoInv'
  <1>1. /\ op = "read" /\ Usable /\ rx_socket = socket_fd
        /\ rx_pos \in Nat /\ rx_end \in Nat /\ Available = 0
        /\ BufferSize \in Nat /\ received \in Nat /\ connection \in Nat
        /\ done \in Nat
    BY ExactIoAssumption
    DEF Refill, IoInv, TypeOK, BufferIsNextBytes
  <1>2. PICK k \in 1 .. BufferSize :
          /\ rx_buffer' = [i \in 1 .. BufferSize |->
                             IF i <= k THEN <<connection, received + i>>
                                       ELSE rx_buffer[i]]
          /\ rx_pos' = 0 /\ rx_end' = k
          /\ received' = received + k
    BY DEF Refill
  <1>3. Available' = k /\ k \in Nat
    BY <1>1, <1>2 DEF Available
  <1>4. UNCHANGED <<connection, socket_fd, broken, rx_socket, op, count, done,
                    destination, lastRead, sent>>
    BY DEF Refill
  <1>5. Usable' /\ Position' = Position
    BY <1>1, <1>2, <1>3, <1>4 DEF Usable, Position, DoneOf
  <1>6. TypeOK'
    <2>1. \A i \in 1 .. BufferSize : <<connection, received + i>> \in Bytes
      BY <1>1 DEF Bytes
    <2>2. rx_buffer' \in [1 .. BufferSize -> Bytes]
      BY <1>2, <2>1 DEF IoInv, TypeOK
    <2>3. /\ rx_pos' \in 0 .. BufferSize /\ rx_end' \in 0 .. BufferSize
          /\ received' \in Nat
      BY <1>1, <1>2
    <2>4. QED
      BY <1>4, <2>2, <2>3 DEF IoInv, TypeOK
  <1>7. BufferIsNextBytes'
    BY <1>1, <1>2, <1>3, <1>4 DEF BufferIsNextBytes
  <1>8. DestinationIsNextBytes'
    BY <1>4, <1>5 DEF IoInv, DestinationIsNextBytes
  <1>9. QED
    BY <1>2, <1>3, <1>4, <1>5, <1>6, <1>7, <1>8 DEF IoInv

\* IoInv is inductive.
LEMMA IoStep == IoInv /\ [Next]_vars => IoInv'
  <1> SUFFICES ASSUME IoInv, [Next]_vars PROVE IoInv'
    OBVIOUS
  <1>1. CASE Connect
    <2>1. /\ socket_fd' \in Descriptors /\ rx_socket' = socket_fd'
          /\ rx_pos' = 0 /\ rx_end' = 0 /\ op' = "idle"
          /\ connection' = connection + 1 /\ broken' = FALSE
          /\ received' = 0 /\ sent' = 0
          /\ UNCHANGED <<rx_buffer, op, count, done, destination>>
      BY <1>1 DEF Connect, ResetRx
    <2>2. /\ connection' \in Nat /\ received' \in Nat /\ sent' \in Nat
          /\ rx_pos' \in 0 .. BufferSize /\ rx_end' \in 0 .. BufferSize
          /\ count' \in 0 .. MaxCount /\ done' \in 0 .. count'
      BY <2>1, ExactIoAssumption DEF IoInv, TypeOK
    <2>3. /\ socket_fd' \in Descriptors \cup {NoSocket}
          /\ rx_socket' \in Descriptors \cup {NoSocket}
          /\ rx_buffer' \in [1 .. BufferSize -> Bytes]
          /\ destination' \in [1 .. MaxCount -> Bytes]
          /\ broken' \in BOOLEAN
      BY <2>1 DEF IoInv, TypeOK
    <2>4. TypeOK'
      BY <2>1, <2>2, <2>3 DEF TypeOK
    <2>5. QED
      BY <2>1, <2>4, BufferEmptied
  <1>2. CASE Close
    <2>1. TypeOK' /\ op' = "idle" /\ ~Usable' /\ rx_pos' <= rx_end'
      BY <1>2, ExactIoAssumption DEF Close, ResetRx, rx, IoInv, TypeOK, Usable
    <2>2. QED
      BY <2>1 DEF IoInv, BufferIsNextBytes, DestinationIsNextBytes
  <1>3. CASE \E n \in 0 .. MaxCount : CallRead(n) \/ CallWrite(n)
    <2>1. PICK n \in 0 .. MaxCount : CallRead(n) \/ CallWrite(n)
      BY <1>3
    <2>2. CASE CallRead(n)
      BY <2>2, CallReadInvariant
    <2>3. CASE CallWrite(n)
      <3>1. TypeOK' /\ Usable' /\ Usable
        BY <2>3, ExactIoAssumption
        DEF CallWrite, Callable, rx, IoInv, TypeOK, Usable
      <3>2. QED
        BY <2>3, <3>1, BufferUntouched DEF CallWrite
    <2>4. QED
      BY <2>1, <2>2, <2>3
  <1>4. CASE CopyBuffered
    BY <1>4, CopyBufferedInvariant
  <1>5. CASE Refill
    BY <1>5, RefillInvariant
  <1>6. CASE ReturnRead
    <2>1. TypeOK' /\ Usable' = Usable
      BY <1>6 DEF ReturnRead, rx, IoInv, TypeOK, Usable
    <2>2. QED
      BY <1>6, <2>1, BufferUntouched DEF ReturnRead
  <1>7. CASE SendSome
    <2>1. PICK k \in 1 .. count - done : sent' = sent + k /\ done' = done + k
      BY <1>7 DEF SendSome
    <2>2. /\ UNCHANGED <<connection, socket_fd, broken, rx, received, op, count,
                         destination, lastRead>>
          /\ op = "write"
      BY <1>7 DEF SendSome
    <2>3. done' \in 0 .. count /\ sent' \in Nat
      BY <2>1, ExactIoAssumption DEF IoInv, TypeOK
    <2>4. TypeOK' /\ Usable' = Usable /\ Usable
      BY <2>2, <2>3 DEF rx, IoInv, TypeOK, Usable
    <2>5. QED
      BY <2>2, <2>4, BufferUntouched
  <1>8. CASE ReturnWrite
    <2>1. TypeOK' /\ Usable' = Usable
      BY <1>8 DEF ReturnWrite, rx, IoInv, TypeOK, Usable
    <2>2. QED
      BY <1>8, <2>1, BufferUntouched DEF ReturnWrite
  <1>9. CASE CallFails
    <2>1. TypeOK' /\ ~Usable'
      BY <1>9 DEF CallFails, rx, IoInv, TypeOK, Usable
    <2>2. QED
      BY <1>9, <2>1, BufferUntouched DEF CallFails
  <1>10. CASE UNCHANGED vars
    BY <1>10
    DEF vars, IoInv, TypeOK, BufferIsNextBytes, DestinationIsNextBytes, Usable,
        Available, Position, DoneOf
  <1>11. QED
    BY <1>1, <1>2, <1>3, <1>4, <1>5, <1>6, <1>7, <1>8, <1>9, <1>10
    DEF Next, Finished

\* Through every history of connections, descriptor reuse, partial receives and
\* failed calls, the inductive invariant holds.
THEOREM IoInvariant == Spec => []IoInv
  <1>1. QED
    BY IoInit, IoStep, PTL DEF Spec

\* The static receive buffer never exposes a byte of another connection or a
\* byte twice (ps2_network.c reset_rfb_rx, read_exact).
THEOREM BufferAlwaysNext == Spec => []BufferIsNextBytes
  <1>1. IoInv => BufferIsNextBytes
    BY DEF IoInv
  <1>2. QED
    BY <1>1, IoInvariant, PTL

\* A read in progress has copied the next bytes of the stream, in order.
THEOREM DestinationAlwaysNext == Spec => []DestinationIsNextBytes
  <1>1. IoInv => DestinationIsNextBytes
    BY DEF IoInv
  <1>2. QED
    BY <1>1, IoInvariant, PTL

------------------------------------------------------------------------------
(* Refinement of ByteStream.                                                    *)

LEMMA StreamStarts == Init => Stream!StreamInit
  BY DEF Init, Stream!StreamInit, Stream!NoCall, Usable, Pending, Position, Written

\* A step that leaves what the caller sees as it was.
LEMMA Unseen ==
  ASSUME UNCHANGED <<connection, lastRead, op, count>>, Usable' = Usable,
         Position' = Position, Written' = Written
  PROVE  UNCHANGED Stream!streamVars
  BY DEF Stream!streamVars, Pending

LEMMA StreamStep == IoInv /\ [Next]_vars => [Stream!StreamNext]_(Stream!streamVars)
  <1> SUFFICES ASSUME IoInv, [Next]_vars
               PROVE  Stream!StreamNext \/ UNCHANGED Stream!streamVars
    BY DEF Stream!StreamNext
  <1> USE DEF Stream!NoCall
  <1>0. /\ connection \in Nat /\ received \in Nat /\ sent \in Nat
        /\ done \in Nat /\ count \in Nat
        /\ rx_pos \in Nat /\ rx_end \in Nat /\ Available \in Nat
        /\ op \in {"idle", "read", "write"}
    BY ExactIoAssumption DEF IoInv, TypeOK, Available
  <1>1. CASE Connect
    <2>1. Stream!Open
      BY <1>0, <1>1, ExactIoAssumption
      DEF Connect, Stream!Open, Usable, Pending, Position, Written, DoneOf,
          ResetRx, Available, NoSocket
    <2>2. QED
      BY <2>1 DEF Stream!StreamNext
  <1>2. CASE Close
    <2>1. CASE Usable
      <3>1. Stream!End
        BY <1>2, <2>1 DEF Close, Stream!End, Usable, Pending, Position, Written
      <3>2. QED
        BY <3>1 DEF Stream!StreamNext
    <2>2. CASE ~Usable
      BY <1>2, <2>2, Unseen DEF Close, Usable, Position, Written
    <2>3. QED
      BY <2>1, <2>2
  <1>3. CASE \E n \in 0 .. MaxCount : CallRead(n) \/ CallWrite(n)
    <2>1. PICK n \in 0 .. MaxCount : CallRead(n) \/ CallWrite(n)
      BY <1>3
    <2>2. /\ rx_socket = socket_fd
          /\ Usable /\ Usable' /\ op = "idle" /\ count' = n /\ done' = 0
          /\ UNCHANGED <<connection, received, lastRead, sent, rx>>
      BY <2>1
      DEF CallRead, CallWrite, Callable, Usable, IoInv, BufferIsNextBytes
    <2>3. Position' = Position /\ Written' = Written
      BY <1>0, <2>2 DEF Position, Written, DoneOf, Available, rx
    <2>4. CASE CallRead(n)
      BY <2>2, <2>3, <2>4
      DEF CallRead, Stream!StreamNext, Stream!Call, Pending
    <2>5. CASE CallWrite(n)
      BY <2>2, <2>3, <2>5
      DEF CallWrite, Stream!StreamNext, Stream!Call, Pending
    <2>6. QED
      BY <2>1, <2>4, <2>5
  <1>4. CASE CopyBuffered
    <2>1. Available > 0 /\ done < count /\ op = "read"
      BY <1>4 DEF CopyBuffered
    <2>2. Take \in Nat
      BY <1>0, <2>1 DEF Take
    <2>3. done' = done + Take /\ Available' = Available - Take
      BY <1>0, <1>4, <2>2 DEF CopyBuffered, Available
    <2>4. /\ UNCHANGED <<connection, lastRead, op, count, received, sent>>
          /\ Usable' = Usable
      BY <1>4 DEF CopyBuffered, Usable
    <2>5. Position' = Position /\ Written' = Written
      BY <1>0, <2>1, <2>2, <2>3, <2>4 DEF Position, Written, DoneOf
    <2>6. QED
      BY <2>4, <2>5, Unseen
  <1>5. CASE Refill
    <2>1. PICK k \in 1 .. BufferSize :
            rx_pos' = 0 /\ rx_end' = k /\ received' = received + k
      BY <1>5 DEF Refill
    <2>2. Available = 0 /\ Available' = k
      BY <1>5, <2>1 DEF Refill, Available
    <2>3. /\ UNCHANGED <<connection, lastRead, op, count, done, sent>>
          /\ Usable' = Usable
      BY <1>5 DEF Refill, Usable
    <2>4. Position' = Position /\ Written' = Written
      BY <1>0, <2>1, <2>2, <2>3 DEF Position, Written, DoneOf
    <2>5. QED
      BY <2>3, <2>4, Unseen
  <1>6. CASE ReturnRead
    <2>1. /\ op = "read" /\ done = count /\ op' = "idle" /\ Usable /\ Usable'
          /\ UNCHANGED <<connection, received, rx_pos, rx_end, sent>>
          /\ lastRead' = [i \in 1 .. count |-> destination[i]]
      BY <1>6 DEF ReturnRead, rx, IoInv, Usable
    <2>2. \A i \in 1 .. count : destination[i] = <<connection, Position + i>>
      BY <2>1 DEF IoInv, DestinationIsNextBytes
    <2>3. lastRead' = [i \in 1 .. count |-> <<connection, Position + i>>]
      BY <2>1, <2>2
    <2>4. Position' = Position + count /\ Written' = Written
      BY <1>0, <2>1 DEF Position, Written, DoneOf, Available
    <2>5. /\ Pending = [op |-> "read", count |-> count]
          /\ Pending' = [op |-> "idle", count |-> 0]
      BY <2>1 DEF Pending
    <2>6. Stream!ReadReturns
      BY <2>1, <2>3, <2>4, <2>5 DEF Stream!ReadReturns
    <2>7. QED
      BY <2>6 DEF Stream!StreamNext
  <1>7. CASE SendSome
    <2>1. PICK k \in 1 .. count - done : sent' = sent + k /\ done' = done + k
      BY <1>7 DEF SendSome
    <2>2. /\ UNCHANGED <<connection, lastRead, op, count, received, rx_pos, rx_end>>
          /\ Usable' = Usable /\ op = "write"
      BY <1>7 DEF SendSome, rx, Usable
    <2>3. Position' = Position /\ Written' = Written
      BY <1>0, <2>1, <2>2 DEF Position, Written, DoneOf, Available
    <2>4. QED
      BY <2>2, <2>3, Unseen
  <1>8. CASE ReturnWrite
    <2>1. /\ op = "write" /\ done = count /\ op' = "idle" /\ Usable /\ Usable'
          /\ UNCHANGED <<connection, received, rx_pos, rx_end, sent, lastRead>>
      BY <1>8 DEF ReturnWrite, rx, IoInv, Usable
    <2>2. Position' = Position /\ Written' = Written + count
      BY <1>0, <2>1 DEF Position, Written, DoneOf, Available
    <2>3. /\ Pending = [op |-> "write", count |-> count]
          /\ Pending' = [op |-> "idle", count |-> 0]
      BY <2>1 DEF Pending
    <2>4. Stream!WriteReturns
      BY <2>1, <2>2, <2>3 DEF Stream!WriteReturns
    <2>5. QED
      BY <2>4 DEF Stream!StreamNext
  <1>9. CASE CallFails
    <2>1. Stream!End
      BY <1>9
      DEF CallFails, Stream!End, IoInv, Usable, Pending, Position, Written
    <2>2. QED
      BY <2>1 DEF Stream!StreamNext
  <1>10. CASE UNCHANGED vars
    BY <1>10
    DEF vars, Stream!streamVars, Usable, Pending, Position, Written, DoneOf,
        Available
  <1>11. QED
    BY <1>1, <1>2, <1>3, <1>4, <1>5, <1>6, <1>7, <1>8, <1>9, <1>10
    DEF Next, Finished

\* read_exact and write_exact implement one ordered byte stream per connection.
THEOREM ExactIoImplementsStream == Spec => StreamImplemented
  <1>1. QED
    BY StreamStarts, StreamStep, IoInvariant, PTL
    DEF Spec, StreamImplemented, Stream!StreamSpec
==============================================================================
