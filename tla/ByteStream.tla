----------------------------- MODULE ByteStream ------------------------------
(* What exact I/O promises its caller (src/src/rfb_io.h): on one connection a   *)
(* read of n bytes returns the next n bytes of the peer, in order, none lost    *)
(* and none from another connection; a write of n bytes is owned by the socket  *)
(* as a whole; a failure ends the use of the connection.                        *)
(* A byte of the peer is named by its connection and its place in the stream.   *)
EXTENDS Naturals

CONSTANT MaxCount        \* the largest exact read or write

VARIABLES
  connection,   \* the number of the current connection; 0 before the first
  usable,       \* the connection is open and no exact call on it has failed
  pending,      \* the call in progress: its kind and its size
  position,     \* bytes of the peer returned by completed reads
  written,      \* bytes the peer was given by completed writes
  lastRead      \* what the last completed read returned

streamVars == <<connection, usable, pending, position, written, lastRead>>

NoCall == [op |-> "idle", count |-> 0]

StreamInit ==
  /\ connection = 0
  /\ usable = FALSE
  /\ pending = NoCall
  /\ position = 0 /\ written = 0
  /\ lastRead = [i \in 1 .. 0 |-> <<0, 0>>]

Open ==
  /\ ~usable
  /\ connection' = connection + 1
  /\ usable' = TRUE
  /\ UNCHANGED <<pending, position, written, lastRead>>

Call(op, n) ==
  /\ usable /\ pending = NoCall
  /\ pending' = [op |-> op, count |-> n]
  /\ UNCHANGED <<connection, usable, position, written, lastRead>>

\* All of the bytes asked for, or no return.
ReadReturns ==
  /\ pending.op = "read"
  /\ lastRead' = [i \in 1 .. pending.count |-> <<connection, position + i>>]
  /\ position' = position + pending.count
  /\ pending' = NoCall
  /\ UNCHANGED <<connection, usable, written>>

WriteReturns ==
  /\ pending.op = "write"
  /\ written' = written + pending.count
  /\ pending' = NoCall
  /\ UNCHANGED <<connection, usable, position, lastRead>>

\* A failed call, or the owner closing the socket.  How far a failed call had
\* come is nobody's to see: the stream is over.
End ==
  /\ usable
  /\ usable' = FALSE
  /\ pending' = NoCall
  /\ position' = 0 /\ written' = 0
  /\ UNCHANGED <<connection, lastRead>>

StreamNext ==
  \/ Open
  \/ \E op \in {"read", "write"}, n \in 0 .. MaxCount : Call(op, n)
  \/ ReadReturns
  \/ WriteReturns
  \/ End

StreamSpec == StreamInit /\ [][StreamNext]_streamVars
==============================================================================
