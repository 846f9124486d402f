------------------------------- MODULE Framing -------------------------------
(***************************************************************************)
(* Messages over stream sockets: every message is sent behind a header of  *)
(* fixed size that holds its length, and may arrive in any pieces.  One    *)
(* process reads from several connections, as the coordinator of a         *)
(* parallel build does: it waits until some are readable, then reads one   *)
(* whole message from each.  A peer may close at any moment.               *)
(***************************************************************************)
EXTENDS Naturals, Sequences, FiniteSets

CONSTANTS
  Conn,          \* connections
  Messages,      \* per connection, the lengths of the messages its peer sends
  HeaderSize,    \* HEADER_SIZE
  Base,          \* values of a byte of the header
  MaxRead,       \* the size given to recv()
  MayClose,      \* connections whose peer may close early
  Nothing

\* The numbers that a header can hold.
Sizes == 0..(Base ^ HeaderSize - 1)

\* No message is longer than a header can say.
ASSUME FramingAssumption ==
  /\ HeaderSize \in Nat \ {0} /\ Base \in Nat \ {0, 1} /\ MaxRead \in Nat \ {0}
  /\ \A i \in Conn : Messages[i] \in Seq(Sizes \ {0})
  /\ Nothing \notin Conn \cup Nat

VARIABLES
  sent,          \* per peer, the number of messages it has begun to send
  unsent,        \* the bytes sendall() has still to hand over
  wire,          \* bytes on their way
  open,          \* the peer has not closed
  buffer,        \* IPCBase.buffer
  messageSize,   \* IPCBase.message_size
  received,      \* what read_bytes() returned
  ready,         \* what ready_to_read() returned and is still to be read
  reading,       \* the connection read_bytes() is called for, or Nothing
  dropped        \* connections found closed
peers == <<sent, unsent, open>>
reader == <<ready, reading>>
streamVars == <<peers, wire, buffer, messageSize, received, reader, dropped>>

Header(n) == [d \in 1..HeaderSize |-> (n \div Base ^ (HeaderSize - d)) % Base]
Unpack(bytes) == CHOOSE n \in Sizes : Header(n) = bytes

\* struct.unpack undoes struct.pack.
ASSUME HeaderAssumption == \A n \in Sizes : Unpack(Header(n)) = n

Body(i, k) == [j \in 1..Messages[i][k] |-> <<k, j>>]
Framed(i, k) == Header(Messages[i][k]) \o Body(i, k)

FramingInit ==
  /\ sent = [i \in Conn |-> 0] /\ unsent = [i \in Conn |-> <<>>] /\ open = [i \in Conn |-> TRUE]
  /\ wire = [i \in Conn |-> <<>>] /\ buffer = [i \in Conn |-> <<>>]
  /\ messageSize = [i \in Conn |-> Nothing] /\ received = [i \in Conn |-> <<>>]
  /\ ready = {} /\ reading = Nothing /\ dropped = {}

-----------------------------------------------------------------------------
(* The peers. *)

WriteBytes(i) ==
  /\ open[i] /\ unsent[i] = <<>> /\ sent[i] < Len(Messages[i])
  /\ sent' = [sent EXCEPT ![i] = @ + 1]
  /\ unsent' = [unsent EXCEPT ![i] = Framed(i, sent'[i])]
  /\ UNCHANGED <<open, wire, buffer, messageSize, received, reader, dropped>>

Push(i) ==
  /\ \E n \in 1..Len(unsent[i]) :
       /\ wire' = [wire EXCEPT ![i] = @ \o SubSeq(unsent[i], 1, n)]
       /\ unsent' = [unsent EXCEPT ![i] = SubSeq(@, n + 1, Len(@))]
  /\ UNCHANGED <<sent, open, buffer, messageSize, received, reader, dropped>>

Close(i) ==
  /\ i \in MayClose /\ open[i]
  /\ open' = [open EXCEPT ![i] = FALSE] /\ unsent' = [unsent EXCEPT ![i] = <<>>]
  /\ UNCHANGED <<sent, wire, buffer, messageSize, received, reader, dropped>>

-----------------------------------------------------------------------------
(* The reader. *)

\* Mutation of Readable: the buffers are not looked at.
ReadableBySelect == {i \in Conn \ dropped : wire[i] # <<>> \/ ~open[i]}

\* ready_to_read(): what is in a buffer comes first, since select() cannot see it.
Buffered == {i \in Conn \ dropped : buffer[i] # <<>>}
Selectable == {i \in Conn \ dropped : wire[i] # <<>> \/ ~open[i]}
Readable == IF Buffered # {} THEN Buffered ELSE Selectable

ReadyToRead ==
  /\ reading = Nothing /\ ready = {} /\ Readable # {}
  /\ ready' = Readable
  /\ UNCHANGED <<peers, wire, buffer, messageSize, received, reading, dropped>>

Turn(i) ==
  /\ reading = Nothing /\ i \in ready
  /\ reading' = i /\ ready' = ready \ {i}
  /\ UNCHANGED <<peers, wire, buffer, messageSize, received, dropped>>

\* frame_from_buffer()
SizeKnown(i) == IF messageSize[i] # Nothing \/ Len(buffer[i]) < HeaderSize THEN messageSize[i]
                ELSE Unpack(SubSeq(buffer[i], 1, HeaderSize))
HasFrame(i) == Len(buffer[i]) >= HeaderSize /\ Len(buffer[i]) >= HeaderSize + SizeKnown(i)

\* Mutation of TakeFrame: the size of the frame is kept.
TakeFrameAgain(i) ==
  /\ reading = i /\ HasFrame(i)
  /\ LET end == HeaderSize + SizeKnown(i)
     IN /\ received' = [received EXCEPT ![i] = Append(@, SubSeq(buffer[i], HeaderSize + 1, end))]
        /\ buffer' = [buffer EXCEPT ![i] = SubSeq(@, end + 1, Len(@))]
  /\ messageSize' = [messageSize EXCEPT ![i] = SizeKnown(i)]
  /\ reading' = Nothing
  /\ UNCHANGED <<peers, wire, ready, dropped>>

TakeFrame(i) ==
  /\ reading = i /\ HasFrame(i)
  /\ LET end == HeaderSize + SizeKnown(i)
     IN /\ received' = [received EXCEPT ![i] = Append(@, SubSeq(buffer[i], HeaderSize + 1, end))]
        /\ buffer' = [buffer EXCEPT ![i] = SubSeq(@, end + 1, Len(@))]
  /\ messageSize' = [messageSize EXCEPT ![i] = Nothing]
  /\ reading' = Nothing
  /\ UNCHANGED <<peers, wire, ready, dropped>>

Recv(i) ==
  /\ reading = i /\ ~HasFrame(i)
  /\ messageSize' = [messageSize EXCEPT ![i] = SizeKnown(i)]
  /\ \E n \in 1..Len(wire[i]) :
       /\ n <= MaxRead
       /\ buffer' = [buffer EXCEPT ![i] = @ \o SubSeq(wire[i], 1, n)]
       /\ wire' = [wire EXCEPT ![i] = SubSeq(@, n + 1, Len(@))]
  /\ UNCHANGED <<peers, received, reader, dropped>>

\* recv() returns nothing: read_bytes() returns b"", and receive() raises OSError.
Eof(i) ==
  /\ reading = i /\ ~HasFrame(i) /\ wire[i] = <<>> /\ ~open[i]
  /\ dropped' = dropped \cup {i} /\ reading' = Nothing
  /\ UNCHANGED <<peers, wire, buffer, messageSize, received, ready>>

Peer(i) == WriteBytes(i) \/ Push(i)
Reader == ReadyToRead \/ \E i \in Conn : Turn(i) \/ TakeFrame(i) \/ Recv(i) \/ Eof(i)

\* Nothing is left to send or to read.
NothingMore ==
  /\ \A i \in Conn : unsent[i] = <<>> /\ (open[i] => sent[i] = Len(Messages[i]))
  /\ reading = Nothing /\ ready = {} /\ Readable = {}
  /\ UNCHANGED streamVars

FramingNext == (\E i \in Conn : Peer(i) \/ Close(i)) \/ Reader \/ NothingMore

FramingSpec == FramingInit /\ [][FramingNext]_streamVars
-----------------------------------------------------------------------------
(* Properties. *)

\* Every variable keeps its type.
FramingTypeOK ==
  /\ sent \in [Conn -> Nat] /\ open \in [Conn -> BOOLEAN]
  /\ ready \subseteq Conn /\ reading \in Conn \cup {Nothing} /\ dropped \subseteq Conn
  /\ messageSize \in [Conn -> Sizes \cup {Nothing}]

\* What was read from a connection are the first messages its peer has sent,
\* whole and in order, however they were cut and joined on the way.
MessagesInOrder ==
  \A i \in Conn : /\ Len(received[i]) <= sent[i]
                  /\ \A k \in DOMAIN received[i] : received[i][k] = Body(i, k)

\* Whenever the reader waits for more to arrive, no message that has arrived
\* completely is left unread, not even one that came together with the one before
\* it and was read from the socket with that: select() would not report it.
Complete(i) == LET came == buffer[i] \o wire[i]
               IN Len(came) >= HeaderSize /\ Len(came) >= HeaderSize + Unpack(SubSeq(came, 1, HeaderSize))
NothingLeftUnread ==
  reading = Nothing /\ ready = {} /\ Readable = {} => \A i \in Conn \ dropped : ~Complete(i)
=============================================================================
