----------------------------- MODULE SyncsStream -----------------------------
(***************************************************************************)
(* Packets in a stream of bytes: how one side sends them                    *)
(* (src/libsyncs/syncs-net-common.c, syncs_blocking_send) and the other     *)
(* finds them again, the server in syncs_client_handler and the client in   *)
(* syncs_recv, whose loops are the same.  A receive takes any number of     *)
(* bytes.  A send that finds the socket's buffer full, which does not       *)
(* block, stops in the middle of a packet.                                  *)
(*                                                                          *)
(* A header is four bytes: the magic number, one byte for type, name and    *)
(* the rest, the size of the data and the second magic number.              *)
(***************************************************************************)
EXTENDS Naturals, Sequences

CONSTANTS
    Magic,          \* SYNCS_PACKET_MAGIC
    MagicData,      \* SYNCS_PACKET_MAGIC_DATA
    MaxData,        \* SYNCS_VARIABLE_SIZE_MAXIMUM, one less than a power of 2
    BufferSize,     \* SYNCS_CLIENT_BUFFER_SIZE
    Packets,        \* packets that are sent: a byte of the header and the data
    Sides,          \* who receives: "server", "client"
    MaxPackets,     \* bound: packets sent in a connection
    MaxDamages,     \* bound: packets cut short and receives dropped
    MaxConnections  \* bound: connections

HeaderSize == 4
Bytes == 0..255

ASSUME MagicAssumption == Magic \in Bytes /\ MagicData \in Bytes /\ Magic # MagicData
ASSUME SizeAssumption ==
    /\ MaxData \in Nat
    /\ MaxData < Magic /\ MaxData < MagicData
    /\ BufferSize \in Nat
    /\ BufferSize >= 2 * HeaderSize + MaxData - 1
    /\ MaxPackets \in Nat /\ MaxDamages \in Nat /\ MaxConnections \in Nat
ASSUME PacketAssumption ==
    /\ Sides \subseteq {"server", "client"}
    /\ \A p \in Packets : /\ p.id \in Bytes
                          /\ p.data \in Seq(Bytes)
                          /\ Len(p.data) <= MaxData

VARIABLES
    side,       \* who receives
    wire,       \* bytes on their way, each with the number of its packet
    buffer,     \* the first buffer_recv bytes of the buffer, likewise
    head,       \* buffer_head
    scanning,   \* the receiver is in its inner loop
    sent,       \* the packets of this connection
    processed,  \* the numbers of the packets processed; 0 for one never sent
    intact,     \* history: no byte of this connection is missing or added
    hurt,       \* history: the last packet that has lost bytes
    plain,      \* history: magic numbers were sent only where they belong
    bounds      \* damages and connections so far

vars == <<side, wire, buffer, head, scanning, sent, processed, intact, hurt, plain, bounds>>
history == <<sent, intact, hurt, plain>>

Encoded(p) == <<Magic, p.id, Len(p.data), MagicData>> \o p.data
Plain(p) == /\ p.id \notin {Magic, MagicData}
            /\ \A i \in DOMAIN p.data : p.data[i] \notin {Magic, MagicData}
LabelledBytes == [b : Bytes, n : 0..MaxPackets]
Numbered(bytes, n) == [i \in DOMAIN bytes |-> [b |-> bytes[i], n |-> n]]
Smaller(a, b) == IF a < b THEN a ELSE b

Init ==
    /\ side \in Sides
    /\ wire = << >>
    /\ buffer = << >>
    /\ head = 0
    /\ scanning = FALSE
    /\ sent = << >>
    /\ processed = << >>
    /\ intact = TRUE
    /\ hurt = 0
    /\ plain = TRUE
    /\ bounds = [damages |-> 0, connections |-> 1]

-----------------------------------------------------------------------------
(* The sender, and the connection.                                           *)

Damage == /\ bounds.damages < MaxDamages
          /\ bounds' = [bounds EXCEPT !.damages = @ + 1]
          /\ intact' = FALSE

\* syncs_blocking_send: the whole packet, or its first bytes if a later
\* send() fails.
SendPacket(p) ==
    LET n == Len(sent) + 1
        bytes == Encoded(p)
    IN  /\ n <= MaxPackets
        /\ sent' = Append(sent, p)
        /\ plain' = (plain /\ Plain(p))
        /\ \/ /\ wire' = wire \o Numbered(bytes, n)
              /\ UNCHANGED <<intact, hurt, bounds>>
           \/ /\ Damage
              /\ \E k \in 1..Len(bytes) - 1 : wire' = wire \o Numbered(SubSeq(bytes, 1, k), n)
              /\ hurt' = n
        /\ UNCHANGED <<side, buffer, head, scanning, processed>>

\* The connection ends and another one begins.  buffer_recv is a variable of
\* syncs_recv, which starts at 0, but a field of the server's client slot.
NextConnection ==
    /\ ~scanning
    /\ bounds.connections < MaxConnections
    /\ bounds' = [bounds EXCEPT !.connections = @ + 1]
    /\ wire' = << >>
    /\ buffer' = IF side = "client" THEN << >>
                 ELSE [i \in DOMAIN buffer |-> [buffer[i] EXCEPT !.n = 0]]
    /\ sent' = << >>
    /\ processed' = << >>
    /\ intact' = (buffer' = << >>)
    /\ hurt' = 0
    /\ UNCHANGED <<side, head, scanning, plain>>

-----------------------------------------------------------------------------
(* The receiver.                                                             *)

\* Faulty: the room is that of an empty buffer.
RoomOfAll == BufferSize

\* SYNCS_CLIENT_BUFFER_SIZE - buffer_recv
Room == BufferSize - Len(buffer)

\* recv(): fewer bytes than a header are not added to buffer_recv.
Receive ==
    /\ ~scanning
    /\ \E size \in 1..Smaller(Len(wire), Room) :
           /\ wire' = SubSeq(wire, size + 1, Len(wire))
           /\ \/ /\ size < HeaderSize
                 /\ Damage
                 /\ hurt' = IF wire[size].n > hurt THEN wire[size].n ELSE hurt
                 /\ UNCHANGED <<buffer, scanning>>
              \/ /\ size >= HeaderSize
                 /\ buffer' = buffer \o SubSeq(wire, 1, size)
                 /\ scanning' = TRUE
                 /\ UNCHANGED <<intact, hurt, bounds>>
    /\ UNCHANGED <<side, head, sent, processed, plain>>

Left == Len(buffer) - head

IsHeader == buffer[head + 1].b = Magic /\ buffer[head + HeaderSize].b = MagicData

\* Faulty: data_size as it is.
DataSizeUnmasked == buffer[head + 3].b

\* data_size &= SYNCS_VARIABLE_SIZE_MAXIMUM
DataSize == buffer[head + 3].b % (MaxData + 1)

\* Faulty: a whole header further.
StepHeader == HeaderSize

\* buffer_head++
StepByte == 1

\* A byte that does not begin a header.
Skip ==
    /\ scanning
    /\ Left >= HeaderSize
    /\ ~IsHeader
    /\ head' = head + StepByte
    /\ UNCHANGED <<side, wire, buffer, scanning, processed, history, bounds>>

\* The data have been received.
WholePacket == Left >= HeaderSize + DataSize

\* The number of the packet at buffer_head, if it is one that was sent.
NumberAt ==
    LET bytes == SubSeq(buffer, head + 1, head + HeaderSize + DataSize)
        n == bytes[1].n
    IN  IF n > 0 /\ bytes = Numbered(Encoded(sent[n]), n) THEN n ELSE 0

\* syncs_client_process_packet, or syncs_process_packet, is called.
Process ==
    /\ scanning
    /\ Left >= HeaderSize
    /\ IsHeader
    /\ WholePacket
    /\ processed' = Append(processed, NumberAt)
    /\ head' = head + HeaderSize + DataSize
    /\ UNCHANGED <<side, wire, buffer, scanning, history, bounds>>

\* Faulty: the rest is forgotten.
RestDropped == << >>

\* memmove: the rest is moved to the front of the buffer.
Rest == SubSeq(buffer, head + 1, Len(buffer))

EndOfScan ==
    /\ scanning
    /\ Left >= HeaderSize => IsHeader /\ ~WholePacket
    /\ buffer' = Rest
    /\ head' = 0
    /\ scanning' = FALSE
    /\ UNCHANGED <<side, wire, processed, history, bounds>>

Next ==
    \/ \E p \in Packets : SendPacket(p)
    \/ NextConnection
    \/ Receive
    \/ Skip \/ Process \/ EndOfScan

Spec == Init /\ [][Next]_vars

-----------------------------------------------------------------------------
(* Properties.                                                               *)

\* All variables have their types, and the buffer never overflows.
TypeOK ==
    /\ side \in Sides
    /\ wire \in Seq(LabelledBytes)
    /\ buffer \in Seq(LabelledBytes)
    /\ Len(buffer) <= BufferSize
    /\ head \in 0..Len(buffer)
    /\ scanning \in BOOLEAN
    /\ sent \in Seq(Packets)
    /\ Len(sent) <= MaxPackets
    /\ processed \in Seq(0..MaxPackets)
    /\ intact \in BOOLEAN
    /\ hurt \in 0..MaxPackets
    /\ plain \in BOOLEAN

(* Wherever the stream is cut into receives of a header's length or more, and *)
(* whatever the data look like, the packets of an undamaged connection are    *)
(* processed whole, once and in order, and none is left in the buffer when    *)
(* all bytes have come (server.c:962-986, client.c:652-675).  A shorter       *)
(* receive is dropped and counts as damage: Resynchronises speaks of it.      *)
InOrder ==
    intact => /\ processed = [i \in 1..Len(processed) |-> i]
              /\ wire = << >> /\ ~scanning => Len(processed) = Len(sent)

\* A damaged packet takes its data from the packets behind it: some of them
\* whole, and one in part.
Swallowed == MaxData \div HeaderSize + 1

(* A damage does not last (server.c:967-974, client.c:657-664): after a cut   *)
(* packet, a short receive or the rest of an earlier connection, at most      *)
(* Swallowed further packets are lost and all others processed, provided that *)
(* the bytes 'S' and 'D' are sent as magic numbers only.                      *)
Resynchronises ==
    (plain /\ wire = << >> /\ ~scanning) =>
        \A n \in hurt + Swallowed + 1..Len(sent) : \E i \in DOMAIN processed : processed[i] = n

(* There is always room to receive a header (server.c:948, client.c:638).     *)
(* With no room recv() returns 0, which is taken for the end of the           *)
(* connection, and with less than a header's every receive would be dropped.  *)
RoomForHeader == ~scanning => Room >= HeaderSize
=============================================================================
