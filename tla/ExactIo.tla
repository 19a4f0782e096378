------------------------------- MODULE ExactIo -------------------------------
(* Buffered exact I/O of src/src/platform/ps2_network.c: connect, close,        *)
(* pstvnc_rfb_io_read_exact over one static receive buffer, and                 *)
(* pstvnc_rfb_io_write_exact over partial sends.                                *)
(*                                                                              *)
(* The kernel is the environment: recv returns any number of bytes up to the    *)
(* buffer's size, send accepts any number up to what is offered, both may fail, *)
(* and a descriptor closed before may be handed out again.                      *)
EXTENDS Integers

CONSTANTS
  Descriptors,   \* the descriptors socket() may return
  BufferSize,    \* PSTVNC_PS2_RFB_RX_BUFFER_SIZE
  MaxCount,      \* the largest exact read or write
  MaxConnections, MaxBytes   \* bounds: connections, bytes per direction

NoSocket == -1

ASSUME ExactIoAssumption ==
  /\ Descriptors \subseteq Nat
  /\ BufferSize \in Nat \ {0}
  /\ MaxCount \in Nat
  /\ MaxConnections \in Nat /\ MaxBytes \in Nat

VARIABLES
  connection,      \* ghost: which connection the open descriptor is
  socket_fd,       \* the caller's descriptor, NoSocket when closed
  broken,          \* an exact call on it has failed
  rx_socket, rx_pos, rx_end, rx_buffer,   \* the static receive buffer
  received,        \* bytes recv has returned on this connection
  op, count, done, \* the running call, its size, its progress
  destination,     \* the caller's read buffer
  lastRead,        \* ghost: what the last completed read returned
  sent             \* bytes send has accepted on this connection

vars == <<connection, socket_fd, broken, rx_socket, rx_pos, rx_end, rx_buffer,
          received, op, count, done, destination, lastRead, sent>>

rx == <<rx_socket, rx_pos, rx_end, rx_buffer>>

Bytes == Nat \X Nat

NoByte == <<0, 0>>

Unread == [i \in 1 .. MaxCount |-> NoByte]

TypeOK ==
  /\ connection \in Nat
  /\ socket_fd \in Descriptors \cup {NoSocket}
  /\ broken \in BOOLEAN
  /\ rx_socket \in Descriptors \cup {NoSocket}
  /\ rx_pos \in 0 .. BufferSize /\ rx_end \in 0 .. BufferSize
  /\ rx_buffer \in [1 .. BufferSize -> Bytes]
  /\ received \in Nat /\ sent \in Nat
  /\ op \in {"idle", "read", "write"}
  /\ count \in 0 .. MaxCount /\ done \in 0 .. count
  /\ destination \in [1 .. MaxCount -> Bytes]

Init ==
  /\ connection = 0
  /\ socket_fd = NoSocket
  /\ broken = FALSE
  /\ rx_socket = NoSocket /\ rx_pos = 0 /\ rx_end = 0
  /\ rx_buffer = [i \in 1 .. BufferSize |-> NoByte]
  /\ received = 0 /\ sent = 0
  /\ op = "idle" /\ count = 0 /\ done = 0
  /\ destination = Unread
  /\ lastRead = [i \in 1 .. 0 |-> NoByte]

\* The positions are reset; the array keeps the bytes of before.
ResetRx(fd) ==
  rx_socket' = fd /\ rx_pos' = 0 /\ rx_end' = 0 /\ UNCHANGED rx_buffer

------------------------------------------------------------------------------

\* A failed connect closes its descriptor again and leaves no trace.
Connect ==
  /\ op = "idle" /\ socket_fd = NoSocket
  /\ connection < MaxConnections
  /\ \E fd \in Descriptors : socket_fd' = fd /\ ResetRx(fd)
  /\ connection' = connection + 1
  /\ broken' = FALSE
  /\ received' = 0 /\ sent' = 0
  /\ UNCHANGED <<op, count, done, destination, lastRead>>

Close ==
  /\ op = "idle" /\ socket_fd # NoSocket
  /\ socket_fd' = NoSocket
  /\ IF rx_socket = socket_fd THEN ResetRx(NoSocket) ELSE UNCHANGED rx
  /\ UNCHANGED <<connection, broken, received, op, count, done, destination,
                 lastRead, sent>>

\* The session makes no further call on a connection that failed.
Callable == op = "idle" /\ socket_fd # NoSocket /\ ~broken

CallRead(n) ==
  /\ Callable
  /\ IF rx_socket # socket_fd THEN ResetRx(socket_fd) ELSE UNCHANGED rx
  /\ op' = "read" /\ count' = n /\ done' = 0
  /\ destination' = Unread
  /\ UNCHANGED <<connection, socket_fd, broken, received, lastRead, sent>>

Available == rx_end - rx_pos

\* What is buffered, never more than is still wanted.
Take == IF Available < count - done THEN Available ELSE count - done

CopyBuffered ==
  /\ op = "read" /\ done < count /\ Available > 0
  /\ destination' = [i \in 1 .. MaxCount |->
                       IF i \in done + 1 .. done + Take
                       THEN rx_buffer[rx_pos + i - done]
                       ELSE destination[i]]
  /\ done' = done + Take
  /\ IF rx_pos + Take = rx_end
     THEN rx_pos' = 0 /\ rx_end' = 0
     ELSE rx_pos' = rx_pos + Take /\ UNCHANGED rx_end
  /\ UNCHANGED <<connection, socket_fd, broken, rx_socket, rx_buffer, received,
                 op, count, lastRead, sent>>

Refill ==
  /\ op = "read" /\ done < count /\ Available = 0
  /\ \E k \in 1 .. BufferSize :
       /\ received + k <= MaxBytes
       /\ rx_buffer' = [i \in 1 .. BufferSize |->
                          IF i <= k THEN <<connection, received + i>>
                                    ELSE rx_buffer[i]]
       /\ rx_pos' = 0 /\ rx_end' = k
       /\ received' = received + k
  /\ UNCHANGED <<connection, socket_fd, broken, rx_socket, op, count, done,
                 destination, lastRead, sent>>

ReturnRead ==
  /\ op = "read" /\ done = count
  /\ op' = "idle"
  /\ lastRead' = [i \in 1 .. count |-> destination[i]]
  /\ UNCHANGED <<connection, socket_fd, broken, rx, received, count, done,
                 destination, sent>>

CallWrite(n) ==
  /\ Callable
  /\ op' = "write" /\ count' = n /\ done' = 0
  /\ UNCHANGED <<connection, socket_fd, broken, rx, received, destination,
                 lastRead, sent>>

SendSome ==
  /\ op = "write" /\ done < count
  /\ \E k \in 1 .. count - done :
       /\ sent + k <= MaxBytes
       /\ sent' = sent + k
       /\ done' = done + k
  /\ UNCHANGED <<connection, socket_fd, broken, rx, received, op, count,
                 destination, lastRead>>

\* Fault: one send is taken for all of it.
ReturnPartialWrite ==
  /\ op = "write" /\ done > 0
  /\ op' = "idle"
  /\ UNCHANGED <<connection, socket_fd, broken, rx, received, count, done,
                 destination, lastRead, sent>>

ReturnWrite ==
  /\ op = "write" /\ done = count
  /\ op' = "idle"
  /\ UNCHANGED <<connection, socket_fd, broken, rx, received, count, done,
                 destination, lastRead, sent>>

\* recv or send returned zero or less: the call fails, its progress is lost.
CallFails ==
  /\ op # "idle" /\ done < count
  /\ op = "read" => Available = 0
  /\ op' = "idle" /\ broken' = TRUE
  /\ UNCHANGED <<connection, socket_fd, rx, received, count, done, destination,
                 lastRead, sent>>

\* The last connection of the bounded instance has been closed.
Finished ==
  /\ connection >= MaxConnections /\ socket_fd = NoSocket
  /\ UNCHANGED vars

Next ==
  \/ Connect \/ Close
  \/ \E n \in 0 .. MaxCount : CallRead(n) \/ CallWrite(n)
  \/ CopyBuffered \/ Refill \/ ReturnRead
  \/ SendSome \/ ReturnWrite
  \/ CallFails
  \/ Finished

Spec == Init /\ [][Next]_vars

------------------------------------------------------------------------------
(* The stream the caller sees, and what makes it one.                           *)

Usable == socket_fd # NoSocket /\ ~broken

\* How many bytes of the running call, if it is of this kind, are done.
DoneOf(kind) == IF op = kind THEN done ELSE 0

Position == IF Usable THEN received - Available - DoneOf("read") ELSE 0
Written == IF Usable THEN sent - DoneOf("write") ELSE 0
Pending == IF op = "idle" THEN [op |-> "idle", count |-> 0]
                          ELSE [op |-> op, count |-> count]

\* The receive buffer belongs to the open socket and holds, unread, exactly the
\* bytes of its stream that follow those already copied out: a reused
\* descriptor never exposes a byte of the connection before.
BufferIsNextBytes ==
  Usable =>
    /\ rx_socket = socket_fd
    /\ \A i \in 1 .. Available :
         rx_buffer[rx_pos + i] = <<connection, received - Available + i>>

\* Bytes copied to the caller so far continue where the last read ended.
DestinationIsNextBytes ==
  op = "read" =>
    \A i \in 1 .. done : destination[i] = <<connection, Position + i>>

\* The inductive invariant: calls run on a usable connection only.
IoInv ==
  /\ TypeOK
  /\ rx_pos <= rx_end
  /\ op # "idle" => Usable
  /\ BufferIsNextBytes
  /\ DestinationIsNextBytes

Stream == INSTANCE ByteStream
  WITH usable <- Usable, pending <- Pending, position <- Position,
       written <- Written

\* However recv and send cut the data, the caller sees exact reads and writes of
\* one ordered stream per connection.
StreamImplemented == Stream!StreamSpec
==============================================================================
