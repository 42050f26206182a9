------------------------------- MODULE PacketIO -------------------------------
(***************************************************************************)
(* Packets over sockets that do not block (src/src/MQTTPacket.c, Socket.c  *)
(* and SocketBuffer.c).  A packet arrives in pieces: MQTTPacket_Factory    *)
(* reads it again from its first byte, out of what SocketBuffer has saved  *)
(* for the socket.  A packet that the kernel takes in part is written on   *)
(* by select.  A descriptor that is closed is used for the next connection.*)
(* The peer and the kernel are external.                                   *)
(***************************************************************************)
EXTENDS Naturals, Sequences, SequencesExt

CONSTANTS
  Sockets,    \* the descriptors, numbers above 0
  Traffic,    \* what is read and written on every connection, the base of the
              \* remaining length, and (bounds) the pieces in which bytes come
              \* and the number of connections
  Faults,     \* what the code is known not to survive
  MaxWrites   \* bound: packets written

ASSUME SocketsAssumption == Sockets \subseteq Nat \ {0}
ASSUME TrafficAssumption ==
  \A t \in Traffic : /\ t.base \in Nat \ {0, 1}
                     /\ t.in \in Seq([header : Nat, length : Nat])
                     /\ t.out \in Seq(Seq(Nat)) /\ t.pieces \subseteq Nat
                     /\ t.opens \in Nat
ASSUME FaultsAssumption == Faults \subseteq {"pendingClose", "lateClose"}
ASSUME BoundsAssumption == MaxWrites \in Nat

VARIABLES
  traffic,       \* the traffic chosen
  open,          \* the descriptors of connections
  broken,        \* those on which an error was met, which are to be closed
  buffers,       \* SocketBuffer's def_queue and queues
  writes,        \* SocketBuffer's writes: what is left of each packet
  write_pending, \* Sockets.write_pending
  incoming,      \* the bytes of the peer that have not been read
  parsed,        \* the packets that have been read
  begun,         \* the packets that have been given to the socket
  puts,          \* how many packets were given to sockets
  output,        \* the bytes that the kernel has taken
  opens          \* how many connections there were

reading == <<buffers, incoming, parsed>>
writing == <<writes, write_pending, begun, puts, output>>
vars == <<traffic, open, broken, opens, reading, writing>>

-----------------------------------------------------------------------------
(* The form of a packet *)

\* seven bits to a byte, that is base 128, with the top bit set on all but the last
MQTTPacket_encode(length) ==
  LET encode[n \in Nat] ==
        IF n < traffic.base THEN <<n>>
        ELSE <<(n % traffic.base) + traffic.base>> \o encode[n \div traffic.base]
  IN  encode[length]

MAX_NO_OF_REMAINING_LENGTH_BYTES == 4
More(c) == c >= traffic.base
DigitOf(c) == c % traffic.base

Data(p) == [i \in 1..p.length |-> p.header + i]
Encoded(p) == <<p.header>> \o MQTTPacket_encode(p.length) \o Data(p)
Stream(packets) == FlattenSeq([i \in DOMAIN packets |-> Encoded(packets[i])])

-----------------------------------------------------------------------------
(* SocketBuffer: one queue for each socket whose packet is incomplete, and  *)
(* the default queue, which the packet being read claims                    *)

DefQ == [socket |-> 0, index |-> 0, fixed_header |-> <<>>, data |-> <<>>]
NewBuffers == [def_queue |-> DefQ, queues |-> <<>>]

QueueOf(b, s) == SelectInSeq(b.queues, LAMBDA q : q.socket = s)

\* what an interrupted read has saved: the data, and the next byte of the header
SocketBuffer_getQueuedData(b, s) ==
  IF QueueOf(b, s) = 0 THEN <<>> ELSE b.queues[QueueOf(b, s)].data
Unread(b, s) ==
  LET q == b.queues[QueueOf(b, s)] IN SubSeq(q.fixed_header, q.index + 1, Len(q.fixed_header))
SocketBuffer_getQueuedChar(b, s) ==
  IF QueueOf(b, s) = 0 THEN "interrupted"
  ELSE IF Unread(b, s) # <<>> THEN "complete"
  ELSE IF b.queues[QueueOf(b, s)].index > 4 THEN "error" ELSE "interrupted"

SocketBuffer_cleanup(b, s) ==
  [def_queue |-> IF b.def_queue.socket = s THEN DefQ ELSE b.def_queue,
   queues |-> IF QueueOf(b, s) = 0 THEN b.queues ELSE RemoveAt(b.queues, QueueOf(b, s))]

\* the queue of the socket becomes the default one, and is empty
SocketBuffer_complete(b, s) ==
  [def_queue |-> DefQ,
   queues |-> IF QueueOf(b, s) = 0 THEN b.queues ELSE RemoveAt(b.queues, QueueOf(b, s))]

InterruptedAt(q, data) == [q EXCEPT !.data = data]   \* mutant: the header is not read again
Interrupted(q, data) == [q EXCEPT !.index = 0, !.data = data]

\* what has been read is kept, to be read again from the first byte
SocketBuffer_interrupted(b, s, data) ==
  LET i == QueueOf(b, s)
  IN  IF i # 0 THEN [b EXCEPT !.queues[i] = Interrupted(@, data)]
      ELSE [def_queue |-> DefQ, queues |-> Append(b.queues, Interrupted(b.def_queue, data))]

WithChar(q, c) ==
  [q EXCEPT !.fixed_header = Append(SubSeq(@, 1, q.index), c), !.index = @ + 1]
SocketBuffer_queueChar(b, s, c) ==
  LET i == QueueOf(b, s)
      claimed == b.def_queue.socket
  IN  IF i # 0 THEN [b EXCEPT !.queues[i] = WithChar(@, c)]
      ELSE IF claimed = 0
      THEN [b EXCEPT !.def_queue = WithChar([DefQ EXCEPT !.socket = s], c)]
      ELSE IF claimed = s THEN [b EXCEPT !.def_queue = WithChar(@, c)]
      ELSE b   \* "attempt to reuse socket queue"

-----------------------------------------------------------------------------
(* Reading.  A reader r has the buffers b, the bytes left in the kernel,    *)
(* whether the peer has closed, the result rc and the last byte c.          *)

Recv(r, s) ==
  IF r.left # <<>>
  THEN [r EXCEPT !.rc = "complete", !.c = Head(r.left), !.left = Tail(@),
                 !.b = SocketBuffer_queueChar(@, s, Head(r.left))]
  ELSE IF r.eof THEN [r EXCEPT !.rc = "error"]
  ELSE [r EXCEPT !.rc = "interrupted", !.b = SocketBuffer_interrupted(@, s, <<>>)]

Socket_getch(r, s) ==
  LET rc == SocketBuffer_getQueuedChar(r.b, s)
  IN  IF rc = "complete"
      THEN [r EXCEPT !.rc = rc, !.c = Head(Unread(r.b, s)),
                     !.b.queues[QueueOf(r.b, s)].index = @ + 1]
      ELSE IF rc = "error" THEN [r EXCEPT !.rc = rc] ELSE Recv(r, s)

\* the remaining length: up to four digits, the least first
MQTTPacket_decode(r0, s) ==
  LET more(k, r) == r.rc = "complete" /\ (k = 1 \/ More(r.c))
      digit(r) == [r EXCEPT !.value = @ + DigitOf(r.c) * r.multiplier, !.multiplier = @ * traffic.base]
      step[k \in 0..(MAX_NO_OF_REMAINING_LENGTH_BYTES + 1)] ==
        IF k = 0 THEN r0
        ELSE IF ~more(k, step[k - 1]) THEN step[k - 1]
        ELSE IF k > MAX_NO_OF_REMAINING_LENGTH_BYTES THEN [step[k - 1] EXCEPT !.rc = "error"]
        ELSE LET r == Socket_getch(step[k - 1], s)
             IN  IF r.rc = "complete" THEN digit(r) ELSE r
  IN  step[MAX_NO_OF_REMAINING_LENGTH_BYTES + 1]

Socket_getdata(r, s, bytes) ==
  LET saved == SocketBuffer_getQueuedData(r.b, s)
      wanted == bytes - Len(saved)
      got == IF Len(r.left) < wanted THEN r.left ELSE SubSeq(r.left, 1, wanted)
      data == saved \o got
      rest == [r EXCEPT !.left = SubSeq(@, Len(got) + 1, Len(@)), !.data = data]
  IN  IF bytes # 0 /\ got = <<>> /\ r.eof THEN [r EXCEPT !.rc = "error"]
      ELSE IF bytes = 0 \/ Len(data) = bytes
      THEN [rest EXCEPT !.rc = "complete", !.b = SocketBuffer_complete(@, s)]
      ELSE [rest EXCEPT !.rc = "interrupted", !.b = SocketBuffer_interrupted(@, s, data)]

\* one packet out of the bytes that have come
MQTTPacket_Factory(s, left, eof) ==
  LET start == [b |-> buffers, left |-> left, eof |-> eof, rc |-> "complete", c |-> 0,
                value |-> 0, multiplier |-> 1, header |-> 0, data |-> <<>>]
      first == Socket_getch(start, s)
      header == [first EXCEPT !.header = first.c]
      length == MQTTPacket_decode(header, s)
  IN  IF first.rc # "complete" THEN first
      ELSE IF length.rc # "complete" THEN length
      ELSE Socket_getdata(length, s, length.value)

\* n bytes have come when the receive thread reads.  There may be none: the socket
\* was ready when select said so, and its descriptor may be another's by now.
Spurious == \E q \in ToSet(buffers.queues) : q.socket = 0
ReadPacket(s) ==
  \E n \in (traffic.pieces \cup {Len(incoming[s])}) \cap (0..Len(incoming[s])),
     eof \in BOOLEAN :
    LET r == MQTTPacket_Factory(s, SubSeq(incoming[s], 1, n), eof)
    IN  /\ s \in open \ broken
        /\ n > 0 \/ eof \/ ~Spurious
        /\ "lateClose" \in Faults \/ broken = {}
        /\ buffers' = r.b
        /\ incoming' = [incoming EXCEPT ![s] = r.left \o SubSeq(@, n + 1, Len(@))]
        /\ parsed' = IF r.rc = "complete"
                     THEN [parsed EXCEPT ![s] = Append(@, [header |-> r.header, data |-> r.data])]
                     ELSE parsed
        /\ broken' = IF r.rc = "error" THEN broken \cup {s} ELSE broken
        /\ UNCHANGED <<traffic, open, opens, writing>>

-----------------------------------------------------------------------------
(* Writing.  A packet is a sequence of buffers; its bytes are numbered.     *)

\* how many bytes the first buffers have, for each number of them
Sums(lens) ==
  LET sum[i \in 0..Len(lens)] == IF i = 0 THEN 0 ELSE sum[i - 1] + lens[i]
  IN  sum
Total(lens) == Sums(lens)[Len(lens)]
Bytes(packet, from, to) == [i \in 1..(to - from) |-> <<packet, from + i>>]

SocketBuffer_pendingWrite(s, packet, lens, bytes) ==
  writes' = Append(writes, [socket |-> s, packet |-> packet, lens |-> lens, bytes |-> bytes])
SocketBuffer_getWrite(s) == SelectInSeq(writes, LAMBDA w : w.socket = s)
SocketBuffer_writeComplete(s) == writes' = RemoveAt(writes, SocketBuffer_getWrite(s))

\* Socket_putdatas: what the kernel does not take is kept, unless there is an error.
\* A packet is refused when another waits.
Socket_putdatas(s) ==
  \E lens \in ToSet(traffic.out) :
    LET total == Total(lens)
        packet == puts + 1
    IN  /\ s \in open \ broken /\ s \notin write_pending
        /\ packet <= MaxWrites
        /\ \/ \E n \in 0..total :
                /\ puts' = packet
                /\ begun' = [begun EXCEPT ![s] = Append(@, <<packet, total>>)]
                /\ output' = [output EXCEPT ![s] = @ \o Bytes(packet, 0, n)]
                /\ IF n = total THEN UNCHANGED <<writes, write_pending>>
                   ELSE /\ SocketBuffer_pendingWrite(s, packet, lens, n)
                        /\ write_pending' = write_pending \cup {s}
                /\ UNCHANGED broken
           \/ /\ broken' = broken \cup {s}
              /\ UNCHANGED writing
        /\ UNCHANGED <<traffic, open, opens, reading>>

OffsetLost(before, len, bytes) == before   \* mutant: the buffer is written from its start
OffsetIn(before, len, bytes) == bytes

\* the buffers for one more writev: those after what was written, or only the rest of
\* the buffer in whose middle that ends
RestOf(pw) ==
  LET before(i) == Sums(pw.lens)[i - 1]
      middle == {i \in DOMAIN pw.lens :
                   before(i) < pw.bytes /\ pw.bytes < before(i) + pw.lens[i]}
      whole(i) == IF pw.bytes <= before(i)
                  THEN Bytes(pw.packet, before(i), before(i) + pw.lens[i]) ELSE <<>>
  IN  IF middle = {} THEN FlattenSeq([i \in DOMAIN pw.lens |-> whole(i)])
      ELSE LET i == CHOOSE j \in middle : TRUE
           IN  Bytes(pw.packet, OffsetIn(before(i), pw.lens[i], pw.bytes),
                     before(i) + pw.lens[i])

\* Socket_continueWrite for a socket of the list, and what continueWrites does with
\* its result: an error counts as the end of the packet
Socket_continueWrite(s) ==
  LET i == SocketBuffer_getWrite(s)
      pw == writes[i]
      rest == RestOf(pw)
      done == SocketBuffer_writeComplete(s) /\ write_pending' = write_pending \ {s}
  IN  /\ s \in write_pending
      /\ \/ \E n \in 0..Len(rest) :
              /\ output' = [output EXCEPT ![s] = @ \o SubSeq(rest, 1, n)]
              /\ IF pw.bytes + n = Total(pw.lens) THEN done
                 ELSE /\ writes' = [writes EXCEPT ![i].bytes = @ + n]
                      /\ UNCHANGED write_pending
              /\ UNCHANGED broken
         \/ /\ done
            /\ broken' = broken \cup {s}
            /\ UNCHANGED output
      /\ UNCHANGED <<traffic, open, opens, begun, puts, reading>>

-----------------------------------------------------------------------------
(* Connections *)

Socket_new(s) ==
  /\ s \notin open /\ opens < traffic.opens
  /\ opens' = opens + 1
  /\ open' = open \cup {s}
  /\ incoming' = [incoming EXCEPT ![s] = Stream(traffic.in)]
  /\ UNCHANGED <<traffic, broken, buffers, parsed, writing>>

\* the packet that waits stays in writes.  Without the fault "pendingClose" nothing waits
\* when the client closes.
Socket_close(s) ==
  /\ s \in open
  /\ "pendingClose" \in Faults \/ s \notin write_pending
  /\ open' = open \ {s} /\ broken' = broken \ {s}
  /\ write_pending' = write_pending \ {s}
  /\ buffers' = SocketBuffer_cleanup(buffers, s)
  /\ incoming' = [incoming EXCEPT ![s] = <<>>] /\ parsed' = [parsed EXCEPT ![s] = <<>>]
  /\ begun' = [begun EXCEPT ![s] = <<>>] /\ output' = [output EXCEPT ![s] = <<>>]
  /\ UNCHANGED <<traffic, opens, writes, puts>>

-----------------------------------------------------------------------------
Init ==
  /\ traffic \in Traffic
  /\ open = {} /\ broken = {} /\ opens = 0
  /\ buffers = NewBuffers
  /\ writes = <<>> /\ write_pending = {}
  /\ incoming = [s \in Sockets |-> <<>>] /\ parsed = [s \in Sockets |-> <<>>]
  /\ puts = 0
  /\ begun = [s \in Sockets |-> <<>>] /\ output = [s \in Sockets |-> <<>>]

Next == \E s \in Sockets :
  ReadPacket(s) \/ Socket_putdatas(s) \/ Socket_continueWrite(s) \/ Socket_new(s) \/ Socket_close(s)

Spec == Init /\ [][Next]_vars

-----------------------------------------------------------------------------
(* Properties *)

\* Whatever the pieces in which the bytes come, and whatever was read before on the
\* same descriptor or at the same time on another: what has been parsed, what is saved
\* and what is still to be read make up the packets that the peer sent.
ReadsWhole ==
  \A s \in open \ broken :
    LET i == QueueOf(buffers, s)
        saved == IF i = 0 THEN <<>>
                 ELSE buffers.queues[i].fixed_header \o buffers.queues[i].data
        packets == [k \in DOMAIN parsed[s] |->
                      <<parsed[s][k].header>> \o MQTTPacket_encode(Len(parsed[s][k].data))
                      \o parsed[s][k].data]
    IN  FlattenSeq(packets) \o saved \o incoming[s] = Stream(traffic.in)

\* The bytes that a connection takes are those of the packets written to it, each once
\* and in order, however the kernel divides them; when nothing waits none is missing.
WritesWhole ==
  \A s \in open :
    LET given == FlattenSeq([k \in DOMAIN begun[s] |-> Bytes(begun[s][k][1], 0, begun[s][k][2])])
    IN  /\ IsPrefix(output[s], given)
        /\ s \notin write_pending \cup broken => output[s] = given
=============================================================================
