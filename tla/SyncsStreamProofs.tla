-------------------------- MODULE SyncsStreamProofs --------------------------
(***************************************************************************)
(* Proofs about SyncsStream: for every size of the buffer and of the data,  *)
(* for all packets and every way to cut the stream, the buffer neither      *)
(* overflows nor fills up, the packets of an undamaged connection are       *)
(* processed in order, and a damage does not last.                          *)
(***************************************************************************)
EXTENDS SyncsStream, SequenceTheorems, WellFoundedInduction, TLAPS

\* The inner loop starts at the first byte of the buffer.
HeadAtStart == ~scanning => head = 0

\* The inductive invariant.
Inv == TypeOK /\ RoomForHeader /\ HeadAtStart

-----------------------------------------------------------------------------
(* Sequences of bytes.                                                       *)

\* A packet is encoded in bytes.
LEMMA EncodedBytes ==
    ASSUME NEW p \in Packets
    PROVE  Encoded(p) \in Seq(Bytes)
<1>1. p.id \in Bytes /\ p.data \in Seq(Bytes) /\ Len(p.data) <= MaxData
    BY PacketAssumption
<1>2. Magic \in Bytes /\ MagicData \in Bytes /\ MaxData \in Nat /\ MaxData < Magic
    BY MagicAssumption, SizeAssumption
<1>3. Len(p.data) \in Nat
    BY <1>1
<1>4. Len(p.data) \in Bytes
    <2>1. \A size \in Nat : size <= MaxData => size \in Bytes
        BY <1>2 DEF Bytes
    <2> QED
        BY <1>1, <1>3, <2>1
<1>5. <<Magic, p.id, Len(p.data), MagicData>> \in Seq(Bytes)
    BY <1>1, <1>2, <1>4
<1> QED
    BY <1>1, <1>5 DEF Encoded

\* Numbering a sequence of bytes keeps its length.
LEMMA NumberedBytes ==
    ASSUME NEW bytes \in Seq(Bytes), NEW n \in 0..MaxPackets
    PROVE  Numbered(bytes, n) \in Seq(LabelledBytes)
<1>1. Len(bytes) \in Nat /\ DOMAIN bytes = 1..Len(bytes)
    OBVIOUS
<1>2. \A i \in 1..Len(bytes) : [b |-> bytes[i], n |-> n] \in LabelledBytes
    BY DEF LabelledBytes
<1>3. Numbered(bytes, n) = [i \in 1..Len(bytes) |-> [b |-> bytes[i], n |-> n]]
    BY <1>1 DEF Numbered
<1> QED
    BY <1>1, <1>2, <1>3

\* A part of a sequence, and its length.
LEMMA Part ==
    ASSUME NEW S, NEW s \in Seq(S), NEW i \in 1..Len(s) + 1, NEW j \in i - 1..Len(s)
    PROVE  /\ SubSeq(s, i, j) \in Seq(S)
           /\ Len(SubSeq(s, i, j)) = j - i + 1
    OBVIOUS

\* The elements of a part.
LEMMA PartElements ==
    ASSUME NEW S, NEW s \in Seq(S), NEW i \in 1..Len(s) + 1, NEW j \in i - 1..Len(s)
    PROVE  \A k \in 1..j - i + 1 : SubSeq(s, i, j)[k] = s[i + k - 1]
    OBVIOUS

\* One sequence after the other.
LEMMA Joined ==
    ASSUME NEW S, NEW s \in Seq(S), NEW t \in Seq(S)
    PROVE  /\ s \o t \in Seq(S)
           /\ Len(s \o t) = Len(s) + Len(t)
           /\ \A i \in 1..Len(s) : (s \o t)[i] = s[i]
           /\ \A j \in 1..Len(t) : (s \o t)[Len(s) + j] = t[j]
<1>1. /\ s \o t \in Seq(S)
      /\ Len(s \o t) = Len(s) + Len(t)
      /\ \A i \in 1..Len(s) + Len(t) :
            (s \o t)[i] = IF i <= Len(s) THEN s[i] ELSE t[i - Len(s)]
    BY ConcatProperties
<1>2. Len(s) \in Nat /\ Len(t) \in Nat
    OBVIOUS
<1>3. ASSUME NEW i \in 1..Len(s)
      PROVE  (s \o t)[i] = s[i]
    <2>1. i \in 1..Len(s) + Len(t) /\ i <= Len(s)
        BY <1>2
    <2> QED
        BY <1>1, <2>1
<1>4. ASSUME NEW j \in 1..Len(t)
      PROVE  (s \o t)[Len(s) + j] = t[j]
    <2>1. /\ Len(s) + j \in 1..Len(s) + Len(t) /\ ~(Len(s) + j <= Len(s))
          /\ (Len(s) + j) - Len(s) = j
        BY <1>2
    <2> QED
        BY <1>1, <2>1
<1> QED
    BY <1>1, <1>3, <1>4

\* The size a header gives is at most that of the largest data.
LEMMA DataSizeBound ==
    ASSUME Inv, Left >= HeaderSize
    PROVE  /\ DataSize \in 0..MaxData
           /\ buffer[head + 1].n \in 0..MaxPackets
<1>1. /\ buffer \in Seq(LabelledBytes) /\ head \in 0..Len(buffer)
      /\ Len(buffer) - head >= 4
    BY DEF Inv, TypeOK, Left, HeaderSize
<1>2. buffer[head + 3] \in LabelledBytes /\ buffer[head + 1] \in LabelledBytes
    BY <1>1
<1>3. buffer[head + 3].b \in Nat
    BY <1>2 DEF LabelledBytes, Bytes
<1>4. DataSize \in 0..MaxData
    BY <1>3, SizeAssumption DEF DataSize
<1> QED
    BY <1>2, <1>4 DEF LabelledBytes

-----------------------------------------------------------------------------
(* The steps.                                                                *)

\* A packet, or its first bytes, are sent.
LEMMA SendPacketInv ==
    ASSUME Inv, NEW p \in Packets, SendPacket(p)
    PROVE  Inv'
<1> DEFINE n == Len(sent) + 1
<1>1. /\ sent \in Seq(Packets) /\ n \in 0..MaxPackets /\ sent' = Append(sent, p)
      /\ plain' = (plain /\ Plain(p))
      /\ UNCHANGED <<side, buffer, head, scanning, processed>>
    BY SizeAssumption DEF Inv, TypeOK, SendPacket
<1>2. sent' \in Seq(Packets) /\ Len(sent') <= MaxPackets
    BY <1>1
<1>3. Encoded(p) \in Seq(Bytes)
    BY EncodedBytes
<1>4. /\ wire' \in Seq(LabelledBytes)
      /\ intact' \in BOOLEAN
      /\ hurt' \in 0..MaxPackets
    <2>1. wire \in Seq(LabelledBytes) /\ intact \in BOOLEAN /\ hurt \in 0..MaxPackets
        BY DEF Inv, TypeOK
    <2>2. CASE wire' = wire \o Numbered(Encoded(p), n) /\ UNCHANGED <<intact, hurt>>
        <3>1. Numbered(Encoded(p), n) \in Seq(LabelledBytes)
            BY <1>1, <1>3, NumberedBytes
        <3> QED
            BY <2>1, <2>2, <3>1
    <2>3. CASE /\ intact' = FALSE /\ hurt' = n
               /\ \E k \in 1..Len(Encoded(p)) - 1 :
                     wire' = wire \o Numbered(SubSeq(Encoded(p), 1, k), n)
        <3>1. PICK k \in 1..Len(Encoded(p)) - 1 :
                     wire' = wire \o Numbered(SubSeq(Encoded(p), 1, k), n)
            BY <2>3
        <3>2. SubSeq(Encoded(p), 1, k) \in Seq(Bytes)
            BY <1>3
        <3>3. Numbered(SubSeq(Encoded(p), 1, k), n) \in Seq(LabelledBytes)
            BY <1>1, <3>2, NumberedBytes
        <3>4. wire' \in Seq(LabelledBytes)
            BY <2>1, <3>1, <3>3
        <3> HIDE DEF n
        <3> QED
            BY <1>1, <2>3, <3>4
    <2> QED
        BY <2>2, <2>3 DEF SendPacket, Damage
<1>5. plain' \in BOOLEAN
    BY <1>1 DEF Inv, TypeOK
<1> QED
    BY <1>1, <1>2, <1>4, <1>5 DEF Inv, TypeOK, RoomForHeader, Room, HeadAtStart

\* The next connection: the buffer is empty or keeps its bytes.
LEMMA NextConnectionInv ==
    ASSUME Inv, NextConnection
    PROVE  Inv'
<1>1. buffer \in Seq(LabelledBytes) /\ Len(buffer) \in Nat /\ DOMAIN buffer = 1..Len(buffer)
    BY DEF Inv, TypeOK
<1>2. buffer' \in Seq(LabelledBytes) /\ Len(buffer') <= Len(buffer)
    <2>1. CASE side = "client"
        BY <1>1, <2>1 DEF NextConnection
    <2>2. CASE side # "client"
        <3>1. \A i \in 1..Len(buffer) : [buffer[i] EXCEPT !.n = 0] \in LabelledBytes
            <4>1. 0 \in 0..MaxPackets
                BY SizeAssumption
            <4>2. \A r \in LabelledBytes : [r EXCEPT !.n = 0] \in LabelledBytes
                BY <4>1 DEF LabelledBytes
            <4> QED
                BY <1>1, <4>2
        <3>2. buffer' = [i \in 1..Len(buffer) |-> [buffer[i] EXCEPT !.n = 0]]
            BY <1>1, <2>2 DEF NextConnection
        <3> QED
            BY <1>1, <3>1, <3>2
    <2> QED
        BY <2>1, <2>2
<1>3. /\ ~scanning /\ head = 0
      /\ wire' = << >> /\ sent' = << >> /\ processed' = << >> /\ hurt' = 0
      /\ intact' \in BOOLEAN
      /\ UNCHANGED <<side, head, scanning, plain>>
    BY DEF Inv, HeadAtStart, NextConnection
<1>4. << >> \in Seq(LabelledBytes) /\ << >> \in Seq(Packets) /\ << >> \in Seq(0..MaxPackets)
    OBVIOUS
<1>5. MaxPackets \in Nat /\ BufferSize \in Nat /\ Len(<< >>) = 0
    BY SizeAssumption
<1>6. Len(buffer') \in Nat /\ Len(buffer') <= BufferSize /\ head' \in 0..Len(buffer')
    BY <1>1, <1>2, <1>3, <1>5 DEF Inv, TypeOK
<1>7. TypeOK'
    BY <1>2, <1>3, <1>4, <1>5, <1>6 DEF Inv, TypeOK
<1>8. RoomForHeader'
    BY <1>1, <1>2, <1>3, <1>5, <1>6 DEF Inv, RoomForHeader, Room, HeaderSize
<1> QED
    BY <1>3, <1>7, <1>8 DEF Inv, HeadAtStart

\* Bytes are received, or dropped: never more than there is room for.
LEMMA ReceiveInv ==
    ASSUME Inv, Receive
    PROVE  Inv'
<1>1. PICK size \in 1..Smaller(Len(wire), Room) :
           /\ wire' = SubSeq(wire, size + 1, Len(wire))
           /\ \/ /\ size < HeaderSize
                 /\ Damage
                 /\ hurt' = IF wire[size].n > hurt THEN wire[size].n ELSE hurt
                 /\ UNCHANGED <<buffer, scanning>>
              \/ /\ size >= HeaderSize
                 /\ buffer' = buffer \o SubSeq(wire, 1, size)
                 /\ scanning' = TRUE
                 /\ UNCHANGED <<intact, hurt, bounds>>
    BY DEF Receive
<1>2. /\ wire \in Seq(LabelledBytes) /\ buffer \in Seq(LabelledBytes)
      /\ Len(wire) \in Nat /\ Len(buffer) \in Nat /\ BufferSize \in Nat
      /\ head \in 0..Len(buffer)
      /\ ~scanning
      /\ UNCHANGED <<side, head, sent, processed, plain>>
    BY SizeAssumption DEF Inv, TypeOK, Receive
<1>3. size \in 1..Len(wire) /\ size + Len(buffer) <= BufferSize
    BY <1>2 DEF Smaller, Room
<1>4. wire' \in Seq(LabelledBytes)
    BY <1>1, <1>2, <1>3, Part
<1>5. CASE size < HeaderSize
    <2>1. wire[size] \in LabelledBytes
        BY <1>2, <1>3
    <2>2. wire[size].n \in 0..MaxPackets
        BY <2>1 DEF LabelledBytes
    <2>3. /\ hurt' = IF wire[size].n > hurt THEN wire[size].n ELSE hurt
          /\ intact' = FALSE
          /\ UNCHANGED <<buffer, scanning>>
        BY <1>1, <1>3, <1>5 DEF Damage, HeaderSize
    <2>4. hurt' \in 0..MaxPackets
        BY <2>2, <2>3 DEF Inv, TypeOK
    <2> QED
        BY <1>2, <1>4, <2>3, <2>4 DEF Inv, TypeOK, RoomForHeader, Room, HeadAtStart
<1>6. CASE size >= HeaderSize
    <2>1. SubSeq(wire, 1, size) \in Seq(LabelledBytes) /\ Len(SubSeq(wire, 1, size)) = size
        BY <1>2, <1>3, Part
    <2>2. /\ buffer' = buffer \o SubSeq(wire, 1, size) /\ scanning' = TRUE
          /\ UNCHANGED <<intact, hurt>>
        BY <1>1, <1>3, <1>6 DEF HeaderSize
    <2>3. buffer' \in Seq(LabelledBytes) /\ Len(buffer') = Len(buffer) + size
        BY <1>2, <2>1, <2>2
    <2> QED
        BY <1>2, <1>3, <1>4, <2>2, <2>3 DEF Inv, TypeOK, RoomForHeader, HeadAtStart
<1> QED
    BY <1>3, <1>5, <1>6 DEF HeaderSize

\* A byte is skipped.
LEMMA SkipInv ==
    ASSUME Inv, Skip
    PROVE  Inv'
<1>1. head' \in 0..Len(buffer)
    BY DEF Skip, Left, HeaderSize, StepByte, Inv, TypeOK
<1> QED
    BY <1>1 DEF Skip, history, Inv, TypeOK, RoomForHeader, HeadAtStart

\* A whole packet is processed.
LEMMA ProcessInv ==
    ASSUME Inv, Process
    PROVE  Inv'
<1>1. /\ scanning /\ Left >= HeaderSize /\ WholePacket
      /\ processed' = Append(processed, NumberAt)
      /\ head' = head + HeaderSize + DataSize
      /\ UNCHANGED <<side, wire, buffer, scanning, sent, intact, hurt, plain>>
    BY DEF Process, history
<1>2. /\ buffer \in Seq(LabelledBytes) /\ Len(buffer) \in Nat /\ head \in 0..Len(buffer)
      /\ DataSize \in 0..MaxData /\ buffer[head + 1].n \in 0..MaxPackets
      /\ Len(buffer) - head >= 4 + DataSize
      /\ MaxData \in Nat /\ MaxPackets \in Nat
    BY <1>1, DataSizeBound, SizeAssumption DEF Inv, TypeOK, WholePacket, Left, HeaderSize
<1>3. head' \in 0..Len(buffer)
    BY <1>1, <1>2 DEF HeaderSize
<1>4. NumberAt \in 0..MaxPackets
    <2>1. SubSeq(buffer, head + 1, head + 4 + DataSize)[1] = buffer[head + 1]
        BY <1>2
    <2> QED
        BY <1>2, <2>1 DEF NumberAt, HeaderSize
<1>5. processed' \in Seq(0..MaxPackets)
    BY <1>1, <1>4 DEF Inv, TypeOK
<1> QED
    BY <1>1, <1>3, <1>5 DEF Inv, TypeOK, RoomForHeader, HeadAtStart

\* The rest, less than the largest packet, is moved to the front.
LEMMA EndOfScanInv ==
    ASSUME Inv, EndOfScan
    PROVE  Inv'
<1>1. /\ Left >= HeaderSize => ~WholePacket
      /\ buffer' = SubSeq(buffer, head + 1, Len(buffer))
      /\ head' = 0 /\ scanning' = FALSE
      /\ UNCHANGED <<side, wire, processed, sent, intact, hurt, plain>>
    BY DEF EndOfScan, history, Rest
<1>2. /\ buffer \in Seq(LabelledBytes) /\ Len(buffer) \in Nat /\ head \in 0..Len(buffer)
      /\ MaxData \in Nat /\ BufferSize \in Nat /\ BufferSize >= 2 * 4 + MaxData - 1
      /\ Len(buffer) <= BufferSize
    BY SizeAssumption DEF Inv, TypeOK, HeaderSize
<1>3. Left \in Nat /\ Left = Len(buffer) - head
    BY <1>2 DEF Left
\* Less than the largest packet is left: no header, or one whose data are
\* not complete.
<1>4. Left <= 4 + MaxData - 1
    <2>1. CASE Left < HeaderSize
        BY <1>2, <1>3, <2>1 DEF HeaderSize
    <2>2. CASE Left >= HeaderSize
        <3>1. DataSize \in 0..MaxData /\ ~(Left >= HeaderSize + DataSize)
            BY <1>1, <2>2, DataSizeBound DEF WholePacket
        <3> QED
            BY <1>2, <1>3, <3>1 DEF HeaderSize
    <2> QED
        BY <1>3, <2>1, <2>2 DEF HeaderSize
<1>5. buffer' \in Seq(LabelledBytes) /\ Len(buffer') = Left
    BY <1>1, <1>2, <1>3, Part
<1>6. Len(buffer') \in Nat /\ Len(buffer') <= BufferSize /\ head' \in 0..Len(buffer')
    BY <1>1, <1>2, <1>3, <1>4, <1>5
<1>7. RoomForHeader'
    BY <1>2, <1>3, <1>4, <1>5 DEF RoomForHeader, Room, HeaderSize
<1>8. TypeOK'
    BY <1>1, <1>5, <1>6 DEF Inv, TypeOK
<1> QED
    BY <1>1, <1>7, <1>8 DEF Inv, HeadAtStart

-----------------------------------------------------------------------------

\* The initial states satisfy the invariant: the buffer is empty.
LEMMA InitInv == Init => Inv
<1> SUFFICES ASSUME Init PROVE Inv
    OBVIOUS
<1>1. << >> \in Seq(LabelledBytes) /\ << >> \in Seq(Packets) /\ << >> \in Seq(0..MaxPackets)
    OBVIOUS
<1>2. wire = << >> /\ buffer = << >> /\ sent = << >> /\ processed = << >>
    BY DEF Init
<1>3. /\ MaxData \in Nat /\ BufferSize \in Nat /\ MaxPackets \in Nat
      /\ BufferSize >= 2 * 4 + MaxData - 1
      /\ Len(<< >>) = 0
    BY SizeAssumption DEF HeaderSize
<1>4. TypeOK
    <2>1. Len(buffer) = 0 /\ Len(sent) = 0
        BY <1>2, <1>3
    <2>2. /\ wire \in Seq(LabelledBytes) /\ buffer \in Seq(LabelledBytes)
          /\ sent \in Seq(Packets) /\ processed \in Seq(0..MaxPackets)
        BY <1>1, <1>2
    <2>3. /\ side \in Sides /\ head = 0 /\ scanning = FALSE
          /\ intact = TRUE /\ hurt = 0 /\ plain = TRUE
        BY DEF Init
    <2>4. Len(buffer) <= BufferSize /\ Len(sent) <= MaxPackets
        BY <1>3, <2>1
    <2>5. head \in 0..Len(buffer) /\ hurt \in 0..MaxPackets
        BY <1>3, <2>1, <2>3
    <2> QED
        BY <2>2, <2>3, <2>4, <2>5 DEF TypeOK
<1>5. RoomForHeader
    BY <1>2, <1>3 DEF RoomForHeader, Room, HeaderSize
<1> QED
    BY <1>4, <1>5 DEF Init, Inv, HeadAtStart

\* Every step keeps the invariant.
LEMMA NextInv == Inv /\ [Next]_vars => Inv'
<1> SUFFICES ASSUME Inv, [Next]_vars PROVE Inv'
    OBVIOUS
<1>1. CASE \E p \in Packets : SendPacket(p)
    BY <1>1, SendPacketInv
<1>2. CASE NextConnection
    BY <1>2, NextConnectionInv
<1>3. CASE Receive
    BY <1>3, ReceiveInv
<1>4. CASE Skip
    BY <1>4, SkipInv
<1>5. CASE Process
    BY <1>5, ProcessInv
<1>6. CASE EndOfScan
    BY <1>6, EndOfScanInv
<1>7. CASE UNCHANGED vars
    BY <1>7 DEF vars, Inv, TypeOK, RoomForHeader, Room, HeadAtStart
<1> QED
    BY <1>1, <1>2, <1>3, <1>4, <1>5, <1>6, <1>7 DEF Next

(* All variables of the stream keep their types, whatever is received: the    *)
(* buffer of the server's client slot and of syncs_recv never overflows       *)
(* (server.c:938-986, client.c:609-675).                                      *)
THEOREM StreamTypeCorrect == Spec => []TypeOK
<1>1. Inv => TypeOK
    BY DEF Inv
<1> QED
    BY InitInv, NextInv, <1>1, PTL DEF Spec

(* There is always room for a header (server.c:948, client.c:638), for every  *)
(* stream, however damaged: a recv() with a size of 0 never ends a connection *)
(* that is still alive.                                                       *)
THEOREM StreamRoom == Spec => []RoomForHeader
<1>1. Inv => RoomForHeader
    BY DEF Inv
<1> QED
    BY InitInv, NextInv, <1>1, PTL DEF Spec

-----------------------------------------------------------------------------
(* The order of the packets.                                                 *)

\* The bytes that the receiver has not looked at: the rest of the buffer and
\* what is on the wire.
Ahead == Left + Len(wire)
ByteAt(i) == IF i <= Left THEN buffer[head + i] ELSE wire[i - Left]

Done == Len(processed)
Size(k) == HeaderSize + Len(sent[k].data)

\* Packet k begins after start[k] bytes of the connection, and those that are
\* not yet processed are ahead, one after the other and whole.
Layout(start) ==
    /\ \A k \in 1..Len(sent) : start[k + 1] = start[k] + Size(k)
    /\ \A k, l \in 1..Len(sent) + 1 : k <= l => start[k] <= start[l]
    /\ start[Len(sent) + 1] = start[Done + 1] + Ahead
    /\ \A k \in Done + 1..Len(sent) : \A j \in 1..Size(k) :
          ByteAt(start[k] - start[Done + 1] + j) = [b |-> Encoded(sent[k])[j], n |-> k]

\* Between two receives the buffer holds less than the next packet.
Waiting == ~scanning /\ Done < Len(sent) => Left < Size(Done + 1)

Ordered ==
    intact => /\ \A i \in 1..Done : processed[i] = i
              /\ Done <= Len(sent)
              /\ Waiting
              /\ \E start \in [1..Len(sent) + 1 -> Nat] : Layout(start)

\* The bytes of a packet.
LEMMA EncodedPacket ==
    ASSUME NEW p \in Packets
    PROVE  /\ Len(p.data) \in 0..MaxData
           /\ Encoded(p) \in Seq(Bytes)
           /\ Len(Encoded(p)) = HeaderSize + Len(p.data)
           /\ Encoded(p)[1] = Magic
           /\ Encoded(p)[3] = Len(p.data)
           /\ Encoded(p)[4] = MagicData
<1>1. p.id \in Bytes /\ p.data \in Seq(Bytes) /\ Len(p.data) <= MaxData
    BY PacketAssumption
<1>2. Len(p.data) \in 0..MaxData
    <2>1. Len(p.data) \in Nat /\ MaxData \in Nat
        BY <1>1, SizeAssumption
    <2> QED
        BY <1>1, <2>1
<1> DEFINE h == <<Magic, p.id, Len(p.data), MagicData>>
           S == {Magic, MagicData, Len(p.data), p.id} \cup Bytes
<1>3. h \in Seq(S) /\ Len(h) = 4 /\ h[1] = Magic /\ h[3] = Len(p.data) /\ h[4] = MagicData
    OBVIOUS
<1>4. Encoded(p) = h \o p.data
    BY DEF Encoded
<1>5. p.data \in Seq(S)
    BY <1>1
<1> HIDE DEF h, S
<1>6. /\ Len(h \o p.data) = 4 + Len(p.data)
      /\ (h \o p.data)[1] = h[1]
      /\ (h \o p.data)[3] = h[3]
      /\ (h \o p.data)[4] = h[4]
    <2>1. /\ Len(h \o p.data) = Len(h) + Len(p.data)
          /\ \A i \in 1..Len(h) : (h \o p.data)[i] = h[i]
        BY <1>3, <1>5, Joined, ZenonT(40)
    <2>2. 1 \in 1..Len(h) /\ 3 \in 1..Len(h) /\ 4 \in 1..Len(h)
        BY <1>3
    <2> QED
        BY <1>3, <2>1, <2>2
<1> QED
    BY <1>2, <1>3, <1>4, <1>6, EncodedBytes DEF HeaderSize

\* Numbers of the current state.
LEMMA StreamNumbers ==
    ASSUME Inv
    PROVE  /\ Len(sent) \in Nat /\ Done \in Nat /\ Len(wire) \in Nat /\ Len(buffer) \in Nat
           /\ head \in Nat /\ head <= Len(buffer)
           /\ Left \in Nat /\ Ahead \in Nat
           /\ Left = Len(buffer) - head /\ Ahead = Left + Len(wire)
           /\ \A k \in 1..Len(sent) : sent[k] \in Packets /\ Size(k) \in Nat /\ Size(k) >= 4
<1>1. /\ Len(sent) \in Nat /\ Len(processed) \in Nat /\ Len(wire) \in Nat /\ Len(buffer) \in Nat
      /\ head \in 0..Len(buffer)
    BY DEF Inv, TypeOK
<1>2. ASSUME NEW k \in 1..Len(sent)
      PROVE  sent[k] \in Packets /\ Size(k) \in Nat /\ Size(k) >= 4
    <2>1. sent[k] \in Packets
        BY DEF Inv, TypeOK
    <2>2. Len(sent[k].data) \in 0..MaxData /\ MaxData \in Nat
        BY <2>1, EncodedPacket, SizeAssumption
    <2> QED
        BY <2>1, <2>2 DEF Size, HeaderSize
<1> QED
    BY <1>1, <1>2 DEF Done, Left, Ahead

\* Where the packets begin, in numbers.
LEMMA LayoutBounds ==
    ASSUME Inv, Done <= Len(sent), NEW start \in [1..Len(sent) + 1 -> Nat], Layout(start)
    PROVE  \A k \in Done + 1..Len(sent) :
              /\ start[k] \in Nat /\ start[k + 1] \in Nat /\ start[Done + 1] \in Nat
              /\ start[Done + 1] <= start[k]
              /\ start[k] - start[Done + 1] + Size(k) <= Ahead
<1>1. SUFFICES ASSUME NEW k \in Done + 1..Len(sent)
               PROVE  /\ start[k] \in Nat /\ start[k + 1] \in Nat /\ start[Done + 1] \in Nat
                      /\ start[Done + 1] <= start[k]
                      /\ start[k] - start[Done + 1] + Size(k) <= Ahead
    OBVIOUS
<1>2. Done \in Nat /\ Len(sent) \in Nat /\ Ahead \in Nat
    BY StreamNumbers
<1>3. /\ k \in 1..Len(sent) + 1 /\ k + 1 \in 1..Len(sent) + 1 /\ Done + 1 \in 1..Len(sent) + 1
      /\ Len(sent) + 1 \in 1..Len(sent) + 1 /\ k \in 1..Len(sent)
      /\ Done + 1 <= k /\ k + 1 <= Len(sent) + 1
    BY <1>1, <1>2
<1>4. start[k] \in Nat /\ start[k + 1] \in Nat /\ start[Done + 1] \in Nat /\ start[Len(sent) + 1] \in Nat
    BY <1>3
<1>5. start[Done + 1] <= start[k] /\ start[k + 1] <= start[Len(sent) + 1]
    BY <1>3 DEF Layout
<1>6. start[k + 1] = start[k] + Size(k) /\ start[Len(sent) + 1] = start[Done + 1] + Ahead
    BY <1>3 DEF Layout
<1>7. Size(k) \in Nat
    BY <1>3, StreamNumbers
<1> QED
    BY <1>2, <1>4, <1>5, <1>6, <1>7

\* In an intact connection, what is in the buffer begins with the next packet.
LEMMA NextPacket ==
    ASSUME Inv, Ordered, intact, Left >= HeaderSize
    PROVE  /\ Done + 1 \in 1..Len(sent)
           /\ IsHeader
           /\ DataSize = Len(sent[Done + 1].data)
           /\ HeaderSize + DataSize = Size(Done + 1)
           /\ buffer[head + 1].n = Done + 1
           /\ \A j \in 1..Size(Done + 1) : j <= Left =>
                 buffer[head + j] = [b |-> Encoded(sent[Done + 1])[j], n |-> Done + 1]
<1>1. PICK start \in [1..Len(sent) + 1 -> Nat] : Layout(start)
    BY DEF Ordered
<1>2. /\ Len(sent) \in Nat /\ Done \in Nat /\ Left \in Nat /\ Ahead \in Nat /\ Left >= 4
      /\ Ahead >= Left /\ Done <= Len(sent) /\ head \in Nat
    BY StreamNumbers DEF Ordered, HeaderSize
<1>3. Done + 1 \in 1..Len(sent)
    <2>1. Done # Len(sent)
        <3>1. start[Len(sent) + 1] \in Nat /\ start[Len(sent) + 1] = start[Done + 1] + Ahead
            BY <1>1, <1>2 DEF Layout
        <3> QED
            BY <1>2, <3>1
    <2> QED
        BY <1>2, <2>1
<1> DEFINE k == Done + 1
<1>4. sent[k] \in Packets /\ Size(k) \in Nat /\ Size(k) >= 4 /\ start[k] \in Nat
    <2>1. k \in 1..Len(sent) + 1
        BY <1>2, <1>3
    <2>2. start[k] \in Nat
        BY <1>1, <2>1
    <2>3. \A l \in 1..Len(sent) : sent[l] \in Packets /\ Size(l) \in Nat /\ Size(l) >= 4
        BY StreamNumbers
    <2> QED
        BY <1>3, <2>2, <2>3
<1>5. ASSUME NEW j \in 1..Size(k), j <= Left
      PROVE  buffer[head + j] = [b |-> Encoded(sent[k])[j], n |-> k]
    <2>1. k \in Done + 1..Len(sent)
        BY <1>2, <1>3
    <2>2. ByteAt(start[k] - start[k] + j) = [b |-> Encoded(sent[k])[j], n |-> k]
        BY <1>1, <1>5, <2>1 DEF Layout
    <2>3. start[k] - start[k] + j = j
        BY <1>4, <1>5
    <2> QED
        BY <1>5, <2>2, <2>3 DEF ByteAt
<1>6. /\ buffer[head + 1] = [b |-> Encoded(sent[k])[1], n |-> k]
      /\ buffer[head + 3] = [b |-> Encoded(sent[k])[3], n |-> k]
      /\ buffer[head + 4] = [b |-> Encoded(sent[k])[4], n |-> k]
    <2> HIDE DEF k
    <2>1. 1 \in 1..Size(k) /\ 3 \in 1..Size(k) /\ 4 \in 1..Size(k)
        BY <1>4
    <2> QED
        BY <1>2, <1>5, <2>1
<1>7. /\ Len(sent[k].data) \in 0..MaxData /\ MaxData \in Nat
      /\ Encoded(sent[k])[1] = Magic
      /\ Encoded(sent[k])[3] = Len(sent[k].data)
      /\ Encoded(sent[k])[4] = MagicData
    BY <1>4, EncodedPacket, SizeAssumption
<1>8. IsHeader /\ buffer[head + 1].n = k
    BY <1>6, <1>7 DEF IsHeader, HeaderSize
<1>9. DataSize = Len(sent[k].data)
    <2>1. \A x \in 0..MaxData : x % (MaxData + 1) = x
        BY <1>7
    <2>2. buffer[head + 3].b = Len(sent[k].data)
        BY <1>6, <1>7
    <2> QED
        BY <1>7, <2>1, <2>2 DEF DataSize
<1> QED
    BY <1>3, <1>5, <1>8, <1>9 DEF Size

\* A packet is sent whole: it comes after all the others.
LEMMA SendOrdered ==
    ASSUME Inv, Ordered, NEW p \in Packets, SendPacket(p)
    PROVE  Ordered'
<1>1. CASE ~intact'
    BY <1>1 DEF Ordered
<1>2. CASE intact'
    <2> DEFINE bytes == Numbered(Encoded(p), Len(sent) + 1)
    <2>1. /\ intact /\ wire' = wire \o bytes /\ sent' = Append(sent, p)
          /\ UNCHANGED <<buffer, head, scanning, processed>>
        BY <1>2 DEF SendPacket, Damage, Inv, TypeOK
    <2>2. PICK start \in [1..Len(sent) + 1 -> Nat] : Layout(start)
        BY <2>1 DEF Ordered
    <2>3. /\ Len(sent) \in Nat /\ Done \in Nat /\ Left \in Nat /\ Ahead \in Nat
          /\ Ahead = Left + Len(wire) /\ Len(wire) \in Nat
          /\ Done <= Len(sent) /\ (\A i \in 1..Done : processed[i] = i) /\ Waiting
        BY <2>1, StreamNumbers DEF Ordered
    <2>4. PICK N : N = Len(sent)
        OBVIOUS
    <2>5. /\ N \in Nat /\ Len(sent') = N + 1 /\ sent'[N + 1] = p
          /\ \A k \in 1..N : sent'[k] = sent[k]
        BY <2>1, <2>3, <2>4 DEF Inv, TypeOK
    <2>6. PICK size : size = HeaderSize + Len(p.data)
        OBVIOUS
    <2>7. size \in Nat /\ size >= 4 /\ Len(Encoded(p)) = size /\ Encoded(p) \in Seq(Bytes)
        <3>1. Len(p.data) \in 0..MaxData /\ MaxData \in Nat
            BY EncodedPacket, SizeAssumption
        <3>2. Len(Encoded(p)) = size /\ Encoded(p) \in Seq(Bytes)
            BY <2>6, EncodedPacket
        <3> QED
            BY <2>6, <3>1, <3>2 DEF HeaderSize
    <2>8. /\ Len(bytes) = size
          /\ \A j \in 1..size : bytes[j] = [b |-> Encoded(p)[j], n |-> N + 1]
          /\ bytes \in Seq(LabelledBytes)
        <3>1. DOMAIN Encoded(p) = 1..size
            BY <2>7
        <3>2. bytes = [j \in 1..size |-> [b |-> Encoded(p)[j], n |-> N + 1]]
            BY <2>4, <3>1 DEF Numbered
        <3>3. N + 1 \in 0..MaxPackets
            BY <2>4, <2>5 DEF SendPacket
        <3>4. bytes \in Seq(LabelledBytes)
            BY <2>4, <2>7, <3>3, NumberedBytes
        <3> HIDE DEF bytes
        <3> QED
            BY <2>7, <3>2, <3>4
    <2> HIDE DEF bytes
    <2>9. /\ Len(wire') = Len(wire) + size
          /\ \A i \in 1..Len(wire) : wire'[i] = wire[i]
          /\ \A j \in 1..size : wire'[Len(wire) + j] = bytes[j]
        <3>1. wire \in Seq(LabelledBytes)
            BY DEF Inv, TypeOK
        <3>2. /\ Len(wire \o bytes) = Len(wire) + Len(bytes)
              /\ \A i \in 1..Len(wire) : (wire \o bytes)[i] = wire[i]
              /\ \A j \in 1..Len(bytes) : (wire \o bytes)[Len(wire) + j] = bytes[j]
            <4>1. bytes \in Seq(LabelledBytes)
                BY <2>8
            <4> QED
                BY <3>1, <4>1, Joined
        <3> QED
            BY <2>1, <2>8, <3>2
    <2>10. PICK D : D = Done
        OBVIOUS
    <2>11. PICK A : A = Ahead
        OBVIOUS
    <2>12. PICK L : L = Left
        OBVIOUS
    <2>13. /\ D \in Nat /\ A \in Nat /\ L \in Nat /\ Len(wire) \in Nat
          /\ A = L + Len(wire) /\ D <= N
        BY <2>3, <2>4, <2>10, <2>11, <2>12
    <2>14. Left' = L /\ Ahead' = A + size /\ Done' = D
        <3>1. Left' = L
            BY <2>1, <2>12 DEF Left
        <3>2. Done' = D
            BY <2>1, <2>10 DEF Done
        <3> QED
            BY <2>7, <2>9, <2>13, <3>1, <3>2 DEF Ahead
    <2>15. (\A k \in 1..N : Size(k)' = Size(k)) /\ Size(N + 1)' = size
        BY <2>5, <2>6 DEF Size
    <2>16. PICK next : next = [k \in 1..N + 2 |-> IF k <= N + 1 THEN start[k] ELSE start[N + 1] + size]
        OBVIOUS
    <2>17. /\ next \in [1..N + 2 -> Nat]
           /\ \A k \in 1..N + 1 : next[k] = start[k] /\ start[k] \in Nat
           /\ next[N + 2] = start[N + 1] + size
        <3>1. \A k \in 1..N + 1 : start[k] \in Nat
            BY <2>2, <2>4
        <3>2. N + 1 \in 1..N + 1 /\ N + 2 \in 1..N + 2 /\ ~(N + 2 <= N + 1)
            BY <2>5
        <3>3. start[N + 1] + size \in Nat
            BY <2>7, <3>1, <3>2
        <3>4. \A k \in 1..N + 1 : k \in 1..N + 2 /\ k <= N + 1
            BY <2>5
        <3>5. \A k \in 1..N + 2 : k <= N + 1 => k \in 1..N + 1
            BY <2>5
        <3>6. \A k \in 1..N + 2 : (IF k <= N + 1 THEN start[k] ELSE start[N + 1] + size) \in Nat
            BY <3>1, <3>3, <3>5
        <3> QED
            BY <2>16, <3>1, <3>2, <3>4, <3>6
    <2>18. /\ \A k \in 1..N : start[k + 1] = start[k] + Size(k)
           /\ \A k, l \in 1..N + 1 : k <= l => start[k] <= start[l]
           /\ start[N + 1] = start[D + 1] + A
        BY <2>2, <2>4, <2>10, <2>11 DEF Layout
    <2>19. start[N + 1] = start[D + 1] + A /\ start[N + 1] \in Nat /\ start[D + 1] \in Nat
        <3>1. N + 1 \in 1..N + 1 /\ D + 1 \in 1..N + 1
            BY <2>5, <2>13
        <3> QED
            BY <2>17, <2>18, <3>1
    <2>20. ASSUME NEW k \in 1..N + 1
           PROVE  next[k + 1] = next[k] + Size(k)'
        <3>1. CASE k = N + 1
            <4>1. k + 1 = N + 2
                BY <2>5, <3>1
            <4> QED
                BY <2>5, <2>15, <2>17, <3>1, <4>1
        <3>2. CASE k # N + 1
            <4>1. k \in 1..N /\ k + 1 \in 1..N + 1
                BY <2>5, <3>2
            <4> QED
                BY <2>15, <2>17, <2>18, <4>1
        <3> QED
            BY <3>1, <3>2
    <2>21. ASSUME NEW k \in 1..N + 2, NEW l \in 1..N + 2, k <= l
           PROVE  next[k] <= next[l]
        <3>1. CASE l = N + 2 /\ k = N + 2
            BY <2>5, <2>7, <2>17, <3>1
        <3>2. CASE l = N + 2 /\ k # N + 2
            <4>1. k \in 1..N + 1 /\ N + 1 \in 1..N + 1 /\ k <= N + 1
                BY <2>5, <3>2
            <4>2. start[k] <= start[N + 1] /\ start[k] \in Nat /\ start[N + 1] \in Nat
                BY <2>17, <2>18, <4>1
            <4> QED
                BY <2>7, <2>17, <3>2, <4>1, <4>2
        <3>3. CASE l # N + 2
            <4>1. k \in 1..N + 1 /\ l \in 1..N + 1
                BY <2>5, <2>21, <3>3
            <4> QED
                BY <2>17, <2>18, <2>21, <4>1
        <3> QED
            BY <3>1, <3>2, <3>3
    <2>22. next[N + 2] = next[D + 1] + Ahead'
        <3>1. D + 1 \in 1..N + 1 /\ N + 1 \in 1..N + 1
            BY <2>3, <2>13, <2>4, <2>5
        <3>2. start[D + 1] \in Nat /\ start[N + 1] \in Nat /\ next[D + 1] = start[D + 1]
            BY <2>17, <3>1
        <3> QED
            BY <2>13, <2>19, <2>7, <2>14, <2>17, <3>2, SMTT(30)
    <2>23. \A i \in 1..A : ByteAt(i)' = ByteAt(i)
        BY <2>1, <2>3, <2>12, <2>13, <2>9, <2>14 DEF ByteAt
    <2>24. ASSUME NEW k \in D + 1..N + 1, NEW j \in 1..Size(k)'
           PROVE  ByteAt(next[k] - next[D + 1] + j)' = [b |-> Encoded(sent'[k])[j], n |-> k]
        <3>1. D + 1 \in 1..N + 1 /\ k \in 1..N + 1
            BY <2>3, <2>13, <2>4, <2>5
        <3>2. next[k] = start[k] /\ next[D + 1] = start[D + 1]
            BY <2>17, <3>1
        <3>3. CASE k = N + 1
            <4>1. start[N + 1] \in Nat /\ start[D + 1] \in Nat
                BY <2>17, <3>1, <3>3
            <4>2. PICK i : i = next[k] - next[D + 1] + j
                OBVIOUS
            <4>3. j \in 1..size /\ i = A + j
                BY <2>13, <2>19, <2>7, <2>15, <2>24, <3>2, <3>3, <4>2, SMTT(30)
            <4>4. ~(i <= L) /\ i - L = Len(wire) + j
                BY <2>3, <2>13, <2>7, <4>3
            <4>5. ByteAt(i)' = wire'[i - L]
                BY <2>14, <4>4 DEF ByteAt
            <4>6. wire'[Len(wire) + j] = [b |-> Encoded(p)[j], n |-> N + 1]
                BY <2>8, <2>9, <4>3
            <4> QED
                BY <2>5, <3>3, <4>2, <4>4, <4>5, <4>6
        <3>4. CASE k # N + 1
            <4>1. k \in D + 1..Len(sent) /\ k \in Done + 1..Len(sent) /\ k \in 1..N
                BY <2>3, <2>10, <2>13, <2>4, <2>5, <3>4, SMTT(30)
            <4>2. j \in 1..Size(k) /\ Size(k) \in Nat
                BY <2>4, <2>15, <2>24, <4>1, StreamNumbers
            <4>3. /\ start[k] \in Nat /\ start[D + 1] \in Nat
                  /\ start[D + 1] <= start[k]
                  /\ start[k] - start[D + 1] + Size(k) <= A
                BY <2>2, <2>3, <2>13, <2>10, <2>11, <4>1, LayoutBounds
            <4>4. start[k] - start[D + 1] + j \in 1..A
                <5>1. j \in Nat /\ 1 <= j /\ j <= Size(k)
                    BY <4>2
                <5> QED
                    BY <2>13, <4>2, <4>3, <5>1, SMTT(30)
            <4>5. ByteAt(start[k] - start[D + 1] + j) = [b |-> Encoded(sent[k])[j], n |-> k]
                BY <2>2, <2>10, <4>1, <4>2 DEF Layout
            <4> QED
                BY <2>5, <2>23, <3>2, <4>1, <4>4, <4>5
        <3> QED
            BY <3>3, <3>4
    <2>25. Layout(next)'
        <3>1. (N + 1) + 1 = N + 2
            BY <2>5
        <3> QED
            BY <2>5, <2>14, <2>20, <2>21, <2>22, <2>24, <3>1 DEF Layout
    <2>26. Waiting'
        <3>1. CASE D = N
            <4>1. start[N + 1] \in Nat /\ A = 0
                BY <2>13, <2>19, <3>1
            <4>2. L = 0 /\ Size(D + 1)' = size
                BY <2>3, <2>13, <2>15, <3>1, <4>1
            <4> QED
                BY <2>7, <2>14, <2>13, <4>2 DEF Waiting
        <3>2. CASE D # N
            <4>1. D + 1 \in 1..N
                BY <2>3, <2>13, <2>4, <2>5, <3>2
            <4> QED
                BY <2>1, <2>3, <2>13, <2>4, <2>5, <2>14, <2>15, <2>10, <2>12, <4>1 DEF Waiting
        <3> QED
            BY <3>1, <3>2
    <2>27. 1..Len(sent') + 1 = 1..N + 2
        BY <2>5
    <2>28. next \in [1..Len(sent') + 1 -> Nat]
        BY <2>17, <2>27
    <2> QED
        BY <2>1, <2>3, <2>13, <2>4, <2>5, <2>14, <2>25, <2>26, <2>28, <2>10 DEF Ordered
<1> QED
    BY <1>1, <1>2

\* Bytes that only move from the wire to the buffer, or to its front, keep
\* the layout.
LEMMA SameLayout ==
    ASSUME Inv, Done <= Len(sent), NEW start \in [1..Len(sent) + 1 -> Nat], Layout(start),
           sent' = sent, processed' = processed, Ahead' = Ahead,
           \A i \in 1..Ahead : ByteAt(i)' = ByteAt(i)
    PROVE  Layout(start)'
<1>1. PICK D : D = Done
    OBVIOUS
<1>2. PICK N : N = Len(sent)
    OBVIOUS
<1>3. Done' = D /\ Len(sent') = N /\ \A k : Size(k)' = Size(k)
    BY <1>1, <1>2 DEF Done, Size
<1>4. D \in Nat /\ N \in Nat /\ Ahead \in Nat
    BY <1>1, <1>2, StreamNumbers
<1>5. ASSUME NEW k \in D + 1..N, NEW j \in 1..Size(k)
      PROVE  ByteAt(start[k] - start[D + 1] + j)' = [b |-> Encoded(sent'[k])[j], n |-> k]
    <2>1. ByteAt(start[k] - start[D + 1] + j) = [b |-> Encoded(sent[k])[j], n |-> k]
        BY <1>1, <1>2 DEF Layout
    <2>2. /\ start[k] \in Nat /\ start[D + 1] \in Nat /\ start[D + 1] <= start[k]
          /\ start[k] - start[D + 1] + Size(k) <= Ahead
        BY <1>1, <1>2, LayoutBounds
    <2>3. Size(k) \in Nat
        <3>1. k \in 1..Len(sent)
            BY <1>2, <1>4
        <3> QED
            BY <3>1, StreamNumbers
    <2>4. start[k] - start[D + 1] + j \in 1..Ahead
        <3>1. j \in Nat /\ 1 <= j /\ j <= Size(k)
            BY <2>3
        <3> QED
            BY <1>4, <2>2, <2>3, <3>1, SMTT(30)
    <2> QED
        BY <2>1, <2>4
<1>6. /\ \A k \in 1..N : start[k + 1] = start[k] + Size(k)
      /\ \A k, l \in 1..N + 1 : k <= l => start[k] <= start[l]
      /\ start[N + 1] = start[D + 1] + Ahead
    BY <1>1, <1>2 DEF Layout
<1> QED
    BY <1>3, <1>5, <1>6 DEF Layout

\* Bytes are received.
LEMMA ReceiveOrdered ==
    ASSUME Inv, Ordered, Receive
    PROVE  Ordered'
<1>1. CASE ~intact'
    BY <1>1 DEF Ordered
<1>2. CASE intact'
    <2>1. PICK size \in 1..Smaller(Len(wire), Room) :
              /\ wire' = SubSeq(wire, size + 1, Len(wire))
              /\ buffer' = buffer \o SubSeq(wire, 1, size)
              /\ scanning' = TRUE
              /\ UNCHANGED intact
        BY <1>2 DEF Receive, Damage
    <2>2. UNCHANGED <<head, sent, processed>>
        BY DEF Receive
    <2>3. /\ wire \in Seq(LabelledBytes) /\ buffer \in Seq(LabelledBytes)
          /\ Len(wire) \in Nat /\ Len(buffer) \in Nat /\ BufferSize \in Nat
          /\ head \in Nat /\ head <= Len(buffer)
        BY SizeAssumption DEF Inv, TypeOK
    <2>4. size \in 1..Len(wire)
        BY <2>3 DEF Smaller, Room
    <2>5. PICK part : part = SubSeq(wire, 1, size)
        OBVIOUS
    <2>6. /\ part \in Seq(LabelledBytes) /\ Len(part) = size
          /\ \A k \in 1..size : part[k] = wire[k]
        <3>1. 1 \in 1..Len(wire) + 1 /\ size \in 1 - 1..Len(wire) /\ size - 1 + 1 = size
            BY <2>3, <2>4
        <3>2. SubSeq(wire, 1, size) \in Seq(LabelledBytes) /\ Len(SubSeq(wire, 1, size)) = size
            BY <2>3, <3>1, Part
        <3>3. \A k \in 1..size : SubSeq(wire, 1, size)[k] = wire[1 + k - 1]
            BY <2>3, <3>1, PartElements
        <3>4. \A k \in 1..size : 1 + k - 1 = k
            BY <2>4
        <3> QED
            BY <2>5, <3>2, <3>3, <3>4
    <2>7. /\ Len(buffer') = Len(buffer) + size
          /\ \A i \in 1..Len(buffer) : buffer'[i] = buffer[i]
          /\ \A j \in 1..size : buffer'[Len(buffer) + j] = wire[j]
        <3>1. /\ Len(buffer \o part) = Len(buffer) + Len(part)
              /\ \A i \in 1..Len(buffer) : (buffer \o part)[i] = buffer[i]
              /\ \A j \in 1..Len(part) : (buffer \o part)[Len(buffer) + j] = part[j]
            <4>1. part \in Seq(LabelledBytes) /\ buffer \in Seq(LabelledBytes)
                BY <2>3, <2>6
            <4> QED
                BY <4>1, Joined
        <3> QED
            BY <2>1, <2>5, <2>6, <3>1
    <2>8. /\ Len(wire') = Len(wire) - size
          /\ \A k \in 1..Len(wire) - size : wire'[k] = wire[size + k]
        <3>1. /\ size + 1 \in 1..Len(wire) + 1 /\ Len(wire) \in (size + 1) - 1..Len(wire)
              /\ Len(wire) - (size + 1) + 1 = Len(wire) - size
            BY <2>3, <2>4
        <3>2. Len(wire') = Len(wire) - (size + 1) + 1
            BY <2>1, <2>3, <3>1, Part
        <3>3. \A k \in 1..Len(wire) - (size + 1) + 1 : wire'[k] = wire[(size + 1) + k - 1]
            BY <2>1, <2>3, <3>1, PartElements
        <3>4. \A k \in 1..Len(wire) - size : (size + 1) + k - 1 = size + k
            BY <2>3, <2>4
        <3> QED
            BY <3>1, <3>2, <3>3, <3>4
    <2>9. PICK L : L = Left
        OBVIOUS
    <2>10. L \in Nat /\ L = Len(buffer) - head /\ Left' = L + size
        BY <2>2, <2>3, <2>4, <2>7, <2>9 DEF Left
    <2>11. Ahead' = Ahead /\ Ahead = L + Len(wire)
        BY <2>3, <2>4, <2>8, <2>9, <2>10 DEF Ahead
    <2>12. ASSUME NEW i \in 1..Ahead
           PROVE  ByteAt(i)' = ByteAt(i)
        <3>0. i \in 1..L + Len(wire)
            BY <2>11
        <3>1. CASE i <= L
            <4>1. i <= L + size /\ head + i \in 1..Len(buffer)
                BY <2>3, <2>4, <2>10, <3>0, <3>1
            <4>2. ByteAt(i)' = buffer'[head + i]
                BY <2>2, <2>10, <4>1 DEF ByteAt
            <4> QED
                BY <2>7, <2>9, <3>1, <4>1, <4>2 DEF ByteAt
        <3>2. CASE ~(i <= L) /\ i <= L + size
            <4>1. i - L \in 1..size /\ head + i = Len(buffer) + (i - L)
                BY <2>3, <2>4, <2>10, <3>0, <3>2
            <4>2. ByteAt(i)' = buffer'[head + i]
                BY <2>2, <2>10, <3>2 DEF ByteAt
            <4>3. ByteAt(i) = wire[i - L]
                BY <2>9, <3>2 DEF ByteAt
            <4> QED
                BY <2>7, <4>1, <4>2, <4>3
        <3>3. CASE ~(i <= L) /\ ~(i <= L + size)
            <4>1. /\ i - (L + size) \in 1..Len(wire) - size
                  /\ size + (i - (L + size)) = i - L
                BY <2>3, <2>4, <2>10, <3>0, <3>3
            <4>2. ByteAt(i)' = wire'[i - (L + size)]
                BY <2>10, <3>3 DEF ByteAt
            <4>3. ByteAt(i) = wire[i - L]
                BY <2>9, <3>3 DEF ByteAt
            <4> QED
                BY <2>8, <4>1, <4>2, <4>3
        <3> QED
            BY <3>1, <3>2, <3>3
    <2>13. Done <= Len(sent) /\ (\A i \in 1..Done : processed[i] = i)
        BY <1>2, <2>1 DEF Ordered
    <2>14. PICK start \in [1..Len(sent) + 1 -> Nat] : Layout(start)
        BY <1>2, <2>1 DEF Ordered
    <2>15. Layout(start)'
        BY <2>2, <2>11, <2>12, <2>13, <2>14, SameLayout
    <2>16. Done' = Done
        BY <2>2 DEF Done
    <2>17. Waiting'
        BY <2>1 DEF Waiting
    <2> QED
        BY <2>2, <2>13, <2>14, <2>15, <2>16, <2>17 DEF Ordered
<1> QED
    BY <1>1, <1>2

\* In an intact connection no byte is ever skipped.
LEMMA SkipOrdered ==
    ASSUME Inv, Ordered, Skip
    PROVE  Ordered'
<1>1. CASE ~intact
    BY <1>1 DEF Skip, history, Ordered
<1>2. CASE intact
    BY <1>2, NextPacket DEF Skip
<1> QED
    BY <1>1, <1>2

\* The next connection is empty, unless bytes of the last one are left.
LEMMA NextConnectionOrdered ==
    ASSUME Inv, NextConnection
    PROVE  Ordered'
<1>1. CASE ~intact'
    BY <1>1 DEF Ordered
<1>2. CASE intact'
    <2>1. /\ buffer' = << >> /\ wire' = << >> /\ sent' = << >> /\ processed' = << >>
          /\ head' = 0
        BY <1>2 DEF NextConnection, Inv, HeadAtStart
    <2>2. Len(<< >>) = 0
        OBVIOUS
    <2>3. Len(sent') = 0 /\ Done' = 0 /\ Left' = 0 /\ Ahead' = 0
        BY <2>1, <2>2 DEF Done, Left, Ahead
    <2>4. PICK start : start = [k \in 1..1 |-> 0]
        OBVIOUS
    <2>5. start \in [1..1 -> Nat] /\ start[1] = 0
        BY <2>4
    <2>6. Layout(start)'
        <3>1. \A k, l \in 1..1 : k <= l => start[k] <= start[l]
            BY <2>5
        <3>2. 1..0 = {} /\ 0 + 1 = 1
            OBVIOUS
        <3> QED
            BY <2>3, <2>5, <3>1, <3>2 DEF Layout
    <2>7. start \in [1..Len(sent') + 1 -> Nat]
        BY <2>3, <2>5
    <2>8. Waiting'
        BY <2>3 DEF Waiting
    <2> QED
        BY <2>3, <2>6, <2>7, <2>8 DEF Ordered
<1> QED
    BY <1>1, <1>2

\* At the end of the inner loop the bytes move to the front of the buffer,
\* which holds less than a whole packet.
LEMMA EndOfScanOrdered ==
    ASSUME Inv, Ordered, EndOfScan
    PROVE  Ordered'
<1>1. CASE ~intact
    BY <1>1 DEF EndOfScan, history, Ordered
<1>2. CASE intact
    <2>1. /\ Left >= HeaderSize => ~WholePacket
          /\ buffer' = SubSeq(buffer, head + 1, Len(buffer))
          /\ head' = 0 /\ scanning' = FALSE
          /\ UNCHANGED <<wire, processed, sent, intact>>
        BY DEF EndOfScan, history, Rest
    <2>2. /\ buffer \in Seq(LabelledBytes) /\ Len(buffer) \in Nat /\ Len(wire) \in Nat
          /\ head \in Nat /\ head <= Len(buffer)
        BY DEF Inv, TypeOK
    <2>3. PICK L : L = Left
        OBVIOUS
    <2>4. L \in Nat /\ L = Len(buffer) - head
        BY <2>2, <2>3 DEF Left
    <2>5. Len(buffer') = L /\ \A i \in 1..L : buffer'[i] = buffer[head + i]
        <3>1. /\ head + 1 \in 1..Len(buffer) + 1 /\ Len(buffer) \in (head + 1) - 1..Len(buffer)
              /\ Len(buffer) - (head + 1) + 1 = L
            BY <2>2, <2>4
        <3>2. Len(buffer') = Len(buffer) - (head + 1) + 1
            BY <2>1, <2>2, <3>1, Part
        <3>3. \A i \in 1..Len(buffer) - (head + 1) + 1 : buffer'[i] = buffer[(head + 1) + i - 1]
            BY <2>1, <2>2, <3>1, PartElements
        <3>4. \A i \in 1..L : (head + 1) + i - 1 = head + i
            BY <2>2, <2>4
        <3> QED
            BY <3>1, <3>2, <3>3, <3>4
    <2>6. Left' = L
        <3>1. L - 0 = L
            BY <2>4
        <3>2. Len(buffer') = L /\ head' = 0
            BY <2>1, <2>5
        <3> QED
            BY <3>1, <3>2 DEF Left
    <2>7. Ahead' = Ahead /\ Done' = Done
        BY <2>1, <2>3, <2>6 DEF Ahead, Done
    <2>8. ASSUME NEW i \in 1..Ahead
          PROVE  ByteAt(i)' = ByteAt(i)
        <3>1. i \in Nat /\ 1 <= i
            OBVIOUS
        <3>2. CASE i <= L
            <4>1. i \in 1..L /\ 0 + i = i
                BY <2>4, <3>1, <3>2
            <4>2. ByteAt(i)' = buffer'[0 + i]
                BY <2>1, <2>6, <3>2 DEF ByteAt
            <4>3. ByteAt(i) = buffer[head + i]
                BY <2>3, <3>2 DEF ByteAt
            <4> QED
                BY <2>5, <4>1, <4>2, <4>3
        <3>3. CASE ~(i <= L)
            BY <2>1, <2>3, <2>6, <3>3 DEF ByteAt
        <3> QED
            BY <3>2, <3>3
    <2>9. Done <= Len(sent) /\ (\A i \in 1..Done : processed[i] = i)
        BY <1>2 DEF Ordered
    <2>10. PICK start \in [1..Len(sent) + 1 -> Nat] : Layout(start)
        BY <1>2 DEF Ordered
    <2>11. Layout(start)'
        BY <2>1, <2>7, <2>8, <2>9, <2>10, SameLayout
    <2>12. Done < Len(sent) => L < Size(Done + 1)
        <3> SUFFICES ASSUME Done < Len(sent)
                     PROVE  L < Size(Done + 1)
            OBVIOUS
        <3>1. Done + 1 \in 1..Len(sent)
            <4>1. Done \in Nat /\ Len(sent) \in Nat
                BY StreamNumbers
            <4> QED
                BY <4>1
        <3>2. Size(Done + 1) \in Nat /\ Size(Done + 1) >= 4
            BY <3>1, StreamNumbers
        <3>3. CASE Left >= HeaderSize
            <4>1. HeaderSize + DataSize = Size(Done + 1) /\ ~(Left >= HeaderSize + DataSize)
                BY <1>2, <2>1, <3>3, NextPacket DEF WholePacket
            <4> QED
                BY <2>3, <2>4, <3>2, <4>1
        <3>4. CASE ~(Left >= HeaderSize)
            BY <2>3, <2>4, <3>2, <3>4 DEF HeaderSize
        <3> QED
            BY <3>3, <3>4
    <2>13. Waiting'
        <3>1. PICK D : D = Done
            OBVIOUS
        <3>2. Done' = D /\ Size(D + 1)' = Size(D + 1)
            BY <2>1, <2>7, <3>1 DEF Size
        <3> QED
            BY <2>1, <2>6, <2>12, <3>1, <3>2 DEF Waiting
    <2> QED
        BY <2>1, <2>7, <2>9, <2>10, <2>11, <2>13 DEF Ordered
<1> QED
    BY <1>1, <1>2

\* The number of a packet that is in the buffer as it was sent.
LEMMA NumberOf ==
    ASSUME Inv, Left >= HeaderSize, WholePacket,
           NEW n \in 1..Len(sent), HeaderSize + DataSize = Size(n),
           \A j \in 1..Size(n) : j <= Left =>
              buffer[head + j] = [b |-> Encoded(sent[n])[j], n |-> n]
    PROVE  NumberAt = n
<1>1. PICK size : size = HeaderSize + DataSize
    OBVIOUS
<1>2. /\ size = Size(n)
      /\ \A j \in 1..size : j <= Left => buffer[head + j] = [b |-> Encoded(sent[n])[j], n |-> n]
    BY <1>1
<1>3. /\ Len(buffer) \in Nat /\ head \in Nat /\ Left \in Nat /\ Left = Len(buffer) - head
      /\ sent[n] \in Packets /\ size \in Nat /\ size >= 4 /\ Len(sent) \in Nat
      /\ buffer \in Seq(LabelledBytes)
    BY <1>2, StreamNumbers DEF Inv, TypeOK
<1>4. size <= Left
    BY <1>1, <1>3 DEF WholePacket
<1>5. PICK bytes : bytes = SubSeq(buffer, head + 1, head + size)
    OBVIOUS
<1>6. /\ bytes \in Seq(LabelledBytes) /\ Len(bytes) = size
      /\ \A j \in 1..size : bytes[j] = [b |-> Encoded(sent[n])[j], n |-> n]
    <2>1. /\ head + 1 \in 1..Len(buffer) + 1 /\ head + size \in (head + 1) - 1..Len(buffer)
          /\ (head + size) - (head + 1) + 1 = size
        BY <1>3, <1>4
    <2>2. bytes \in Seq(LabelledBytes) /\ Len(bytes) = (head + size) - (head + 1) + 1
        BY <1>3, <1>5, <2>1, Part
    <2>3. \A j \in 1..(head + size) - (head + 1) + 1 : bytes[j] = buffer[(head + 1) + j - 1]
        BY <1>3, <1>5, <2>1, PartElements
    <2>4. \A j \in 1..size : (head + 1) + j - 1 = head + j /\ j <= Left
        BY <1>3, <1>4
    <2> QED
        BY <1>2, <2>1, <2>2, <2>3, <2>4
<1>7. bytes = Numbered(Encoded(sent[n]), n)
    <2>1. Encoded(sent[n]) \in Seq(Bytes) /\ Len(Encoded(sent[n])) = size
        BY <1>2, <1>3, EncodedPacket DEF Size
    <2>2. DOMAIN Encoded(sent[n]) = 1..size
        BY <2>1
    <2>3. Numbered(Encoded(sent[n]), n) = [j \in 1..size |-> [b |-> Encoded(sent[n])[j], n |-> n]]
        BY <2>2 DEF Numbered
    <2>4. bytes = [j \in 1..size |-> bytes[j]]
        BY <1>3, <1>6
    <2> QED
        BY <1>6, <2>3, <2>4
<1>8. bytes[1].n = n /\ n > 0
    <2>1. 1 \in 1..size /\ n > 0
        BY <1>2, <1>3
    <2> QED
        BY <1>6, <2>1
<1>9. SubSeq(buffer, head + 1, head + HeaderSize + DataSize) = bytes
    <2>1. DataSize \in Nat
        <3>1. DataSize \in 0..MaxData /\ MaxData \in Nat
            BY DataSizeBound, SizeAssumption
        <3> QED
            BY <3>1
    <2>2. head + HeaderSize + DataSize = head + size
        BY <1>1, <1>3, <2>1 DEF HeaderSize
    <2> QED
        BY <1>5, <2>2
<1>10. NumberAt = IF bytes[1].n > 0 /\ bytes = Numbered(Encoded(sent[bytes[1].n]), bytes[1].n)
                  THEN bytes[1].n ELSE 0
    BY <1>9 DEF NumberAt
<1> QED
    BY <1>7, <1>8, <1>10

\* The whole packet that is processed is the next one that was sent.
LEMMA NumberOfNext ==
    ASSUME Inv, Ordered, intact, Left >= HeaderSize, WholePacket
    PROVE  NumberAt = Done + 1
<1>1. PICK n : n = Done + 1
    OBVIOUS
<1>2. /\ n \in 1..Len(sent) /\ HeaderSize + DataSize = Size(n)
      /\ \A j \in 1..Size(n) : j <= Left =>
            buffer[head + j] = [b |-> Encoded(sent[n])[j], n |-> n]
    BY <1>1, NextPacket
<1> QED
    BY <1>1, <1>2, NumberOf

\* Behind a packet that is processed whole comes the next one.
LEMMA ProcessOrdered ==
    ASSUME Inv, Ordered, Process
    PROVE  Ordered'
<1>1. CASE ~intact
    BY <1>1 DEF Process, history, Ordered
<1>2. CASE intact
    <2>1. /\ scanning /\ Left >= HeaderSize /\ WholePacket
          /\ processed' = Append(processed, NumberAt)
          /\ head' = head + HeaderSize + DataSize
          /\ UNCHANGED <<wire, buffer, scanning, sent, intact>>
        BY DEF Process, history
    <2>2. PICK D : D = Done
        OBVIOUS
    <2>3. PICK N : N = Len(sent)
        OBVIOUS
    <2>4. PICK size : size = Size(D + 1)
        OBVIOUS
    <2>5. PICK A : A = Ahead
        OBVIOUS
    <2>6. PICK L : L = Left
        OBVIOUS
    <2>7. /\ D + 1 \in 1..N /\ HeaderSize + DataSize = size /\ size <= L
          /\ NumberAt = D + 1
        BY <1>2, <2>1, <2>2, <2>3, <2>4, <2>6, NextPacket, NumberOfNext, StreamNumbers DEF WholePacket
    <2>8. /\ D \in Nat /\ N \in Nat /\ A \in Nat /\ L \in Nat /\ head \in Nat
          /\ L = Len(buffer) - head /\ A = L + Len(wire)
          /\ Len(buffer) \in Nat /\ Len(wire) \in Nat
          /\ D = Len(processed)
        BY <2>2, <2>3, <2>5, <2>6, StreamNumbers DEF Done
    <2>9. size \in Nat /\ size >= 4
        BY <2>3, <2>4, <2>7, StreamNumbers
    <2>10. DataSize \in Nat
        BY <2>1, DataSizeBound, SizeAssumption
    <2>11. head' = head + size
        BY <2>1, <2>7, <2>8, <2>10 DEF HeaderSize
    <2>12. Left' = L - size
        BY <2>1, <2>8, <2>9, <2>11 DEF Left
    <2>13. Ahead' = A - size
        BY <2>1, <2>8, <2>9, <2>12 DEF Ahead
    <2>14. Done' = D + 1 /\ processed'[D + 1] = D + 1 /\ \A i \in 1..D : processed'[i] = processed[i]
        <3>1. processed \in Seq(0..MaxPackets) /\ D + 1 \in 0..MaxPackets
            <4>1. processed \in Seq(0..MaxPackets) /\ N <= MaxPackets /\ MaxPackets \in Nat
                BY <2>3, SizeAssumption DEF Inv, TypeOK
            <4> QED
                BY <2>7, <2>8, <4>1
        <3> QED
            BY <2>1, <2>7, <2>8, <3>1 DEF Done
    <2>15. \A i \in 1..D + 1 : processed'[i] = i
        <3>1. \A i \in 1..D : processed[i] = i
            BY <1>2, <2>2 DEF Ordered
        <3>2. \A i \in 1..D + 1 : i = D + 1 \/ i \in 1..D
            BY <2>8
        <3> QED
            BY <2>14, <3>1, <3>2
    <2>16. PICK start \in [1..Len(sent) + 1 -> Nat] : Layout(start)
        BY <1>2 DEF Ordered
    <2>17. /\ \A k \in 1..N : start[k + 1] = start[k] + Size(k)
           /\ \A k, l \in 1..N + 1 : k <= l => start[k] <= start[l]
           /\ start[N + 1] = start[D + 1] + A
        BY <2>2, <2>3, <2>5, <2>16 DEF Layout
    <2>18. /\ start[(D + 1) + 1] = start[D + 1] + size
           /\ start[D + 1] \in Nat /\ start[N + 1] \in Nat /\ start[(D + 1) + 1] \in Nat
        <3>1. D + 1 \in 1..N + 1 /\ (D + 1) + 1 \in 1..N + 1 /\ N + 1 \in 1..N + 1
            BY <2>7, <2>8
        <3> QED
            BY <2>3, <2>4, <2>7, <2>16, <2>17, <3>1
    <2>19. start[N + 1] = start[(D + 1) + 1] + Ahead'
        <3>1. PICK a, b, c : a = start[N + 1] /\ b = start[(D + 1) + 1] /\ c = start[D + 1]
            OBVIOUS
        <3>2. a = c + A /\ b = c + size /\ c \in Nat
            BY <2>17, <2>18, <3>1
        <3>3. a = b + Ahead'
            BY <2>8, <2>9, <2>13, <3>2
        <3> QED
            BY <3>1, <3>3
    <2>20. ASSUME NEW i \in Nat, 1 <= i
           PROVE  ByteAt(i)' = ByteAt(i + size)
        <3>1. CASE i <= L - size
            <4>1. i + size <= L /\ (head + size) + i = head + (i + size)
                BY <2>8, <2>9, <2>20, <3>1
            <4>2. ByteAt(i)' = buffer[(head + size) + i]
                BY <2>1, <2>11, <2>12, <3>1 DEF ByteAt
            <4>3. ByteAt(i + size) = buffer[head + (i + size)]
                BY <2>6, <4>1 DEF ByteAt
            <4> QED
                BY <4>1, <4>2, <4>3
        <3>2. CASE ~(i <= L - size)
            <4>1. ~(i + size <= L) /\ i - (L - size) = (i + size) - L
                BY <2>8, <2>9, <2>20, <3>2
            <4>2. ByteAt(i)' = wire[i - (L - size)]
                BY <2>1, <2>12, <3>2 DEF ByteAt
            <4>3. ByteAt(i + size) = wire[(i + size) - L]
                BY <2>6, <4>1 DEF ByteAt
            <4> QED
                BY <4>1, <4>2, <4>3
        <3> QED
            BY <3>1, <3>2
    <2>21. ASSUME NEW k \in (D + 1) + 1..N, NEW j \in 1..Size(k)
           PROVE  ByteAt(start[k] - start[(D + 1) + 1] + j)' = [b |-> Encoded(sent[k])[j], n |-> k]
        <3>1. k \in D + 1..N /\ k \in 1..N /\ k \in 1..N + 1 /\ (D + 1) + 1 \in 1..N + 1 /\ (D + 1) + 1 <= k
            BY <2>7, <2>8
        <3>2. ByteAt(start[k] - start[D + 1] + j) = [b |-> Encoded(sent[k])[j], n |-> k]
            BY <2>2, <2>3, <2>16, <3>1 DEF Layout
        <3>3. start[k] \in Nat /\ start[(D + 1) + 1] <= start[k]
            BY <2>3, <2>16, <2>17, <3>1
        <3>4. j \in Nat /\ 1 <= j
            <4>1. Size(k) \in Nat
                BY <2>3, <3>1, StreamNumbers
            <4> QED
                BY <4>1
        <3>5. PICK i : i = start[k] - start[(D + 1) + 1] + j
            OBVIOUS
        <3>6. i \in Nat /\ 1 <= i /\ i + size = start[k] - start[D + 1] + j
            <4>1. PICK a, b, c : a = start[k] /\ b = start[(D + 1) + 1] /\ c = start[D + 1]
                OBVIOUS
            <4>2. a \in Nat /\ b \in Nat /\ c \in Nat /\ b = c + size /\ b <= a
                BY <2>18, <3>3, <4>1
            <4>3. i = a - b + j
                BY <3>5, <4>1, Zenon
            <4>4. i \in Nat /\ 1 <= i /\ i + size = a - c + j
                BY <2>9, <3>4, <4>2, <4>3
            <4> QED
                BY <4>1, <4>4
        <3>7. ByteAt(i)' = ByteAt(i + size)
            BY <2>20, <3>6
        <3> QED
            BY <3>2, <3>5, <3>6, <3>7
    <2>22. Layout(start)'
        <3>1. Len(sent') = N /\ sent' = sent /\ \A k : Size(k)' = Size(k)
            BY <2>1, <2>3 DEF Size
        <3> QED
            BY <2>14, <2>17, <2>19, <2>21, <3>1 DEF Layout
    <2>23. Waiting'
        BY <2>1 DEF Waiting
    <2>24. D + 1 <= N
        BY <2>7, <2>8
    <2> QED
        BY <2>1, <2>3, <2>14, <2>15, <2>16, <2>22, <2>23, <2>24 DEF Ordered
<1> QED
    BY <1>1, <1>2

\* The first connection is empty.
LEMMA InitOrdered == Init => Ordered
<1> SUFFICES ASSUME Init PROVE Ordered
    OBVIOUS
<1>1. Len(<< >>) = 0
    OBVIOUS
<1>2. Len(sent) = 0 /\ Done = 0 /\ Left = 0 /\ Ahead = 0
    BY <1>1 DEF Init, Done, Left, Ahead
<1>3. PICK start : start = [k \in 1..1 |-> 0]
    OBVIOUS
<1>4. start \in [1..1 -> Nat] /\ start[1] = 0
    BY <1>3
<1>5. Layout(start)
    <2>1. \A k, l \in 1..1 : k <= l => start[k] <= start[l]
        BY <1>4
    <2>2. 1..0 = {} /\ 0 + 1 = 1
        OBVIOUS
    <2> QED
        BY <1>2, <1>4, <2>1, <2>2 DEF Layout
<1>6. start \in [1..Len(sent) + 1 -> Nat]
    BY <1>2, <1>4
<1> QED
    BY <1>2, <1>5, <1>6 DEF Ordered, Waiting

\* Every step keeps the order.
LEMMA NextOrdered == Inv /\ Ordered /\ [Next]_vars => Ordered'
<1> SUFFICES ASSUME Inv, Ordered, [Next]_vars PROVE Ordered'
    OBVIOUS
<1>1. CASE \E p \in Packets : SendPacket(p)
    BY <1>1, SendOrdered
<1>2. CASE NextConnection
    BY <1>2, NextConnectionOrdered
<1>3. CASE Receive
    BY <1>3, ReceiveOrdered
<1>4. CASE Skip
    BY <1>4, SkipOrdered
<1>5. CASE Process
    BY <1>5, ProcessOrdered
<1>6. CASE EndOfScan
    BY <1>6, EndOfScanOrdered
<1>7. CASE UNCHANGED vars
    <2>1. CASE ~intact
        BY <1>7, <2>1 DEF vars, Ordered
    <2>2. CASE intact
        <3>1. UNCHANGED <<wire, buffer, head, scanning, sent, processed, intact>>
            BY <1>7 DEF vars
        <3>2. UNCHANGED <<Left, Ahead, Done, Waiting>> /\ \A i : ByteAt(i)' = ByteAt(i)
            BY <3>1 DEF Left, Ahead, Done, ByteAt, Waiting, Size
        <3>3. PICK start \in [1..Len(sent) + 1 -> Nat] : Layout(start)
            BY <2>2 DEF Ordered
        <3>4. Layout(start)'
            BY <2>2, <3>1, <3>2, <3>3, SameLayout DEF Ordered
        <3> QED
            BY <2>2, <3>1, <3>2, <3>3, <3>4 DEF Ordered
    <2> QED
        BY <2>1, <2>2
<1> QED
    BY <1>1, <1>2, <1>3, <1>4, <1>5, <1>6, <1>7 DEF Next

\* With no byte on the wire and none scanned, all packets are processed.
LEMMA OrderedInOrder == Inv /\ Ordered => InOrder
<1> SUFFICES ASSUME Inv, Ordered, intact
             PROVE  /\ processed = [i \in 1..Len(processed) |-> i]
                    /\ wire = << >> /\ ~scanning => Len(processed) = Len(sent)
    BY DEF InOrder
<1>1. processed = [i \in 1..Len(processed) |-> i]
    <2>1. processed \in Seq(0..MaxPackets)
        BY DEF Inv, TypeOK
    <2>2. processed = [i \in 1..Len(processed) |-> processed[i]]
        BY <2>1
    <2>3. \A i \in 1..Len(processed) : processed[i] = i
        BY DEF Ordered, Done
    <2> QED
        BY <2>2, <2>3
<1>2. ASSUME wire = << >>, ~scanning, Done # Len(sent)
      PROVE  FALSE
    <2>1. /\ Done \in Nat /\ Len(sent) \in Nat /\ Left \in Nat /\ Ahead = Left + Len(wire)
          /\ Done <= Len(sent)
        BY StreamNumbers DEF Ordered
    <2>2. Len(wire) = 0
        BY <1>2
    <2>3. Ahead = Left
        BY <2>1, <2>2
    <2>4. Done < Len(sent) /\ Done + 1 \in Done + 1..Len(sent) /\ Done + 1 \in 1..Len(sent)
        BY <1>2, <2>1
    <2>5. PICK start \in [1..Len(sent) + 1 -> Nat] : Layout(start)
        BY DEF Ordered
    <2>6. /\ start[Done + 1] \in Nat
          /\ start[Done + 1] - start[Done + 1] + Size(Done + 1) <= Ahead
        BY <2>1, <2>4, <2>5, LayoutBounds
    <2>7. Size(Done + 1) \in Nat
        BY <2>4, StreamNumbers
    <2>8. Left < Size(Done + 1)
        BY <1>2, <2>4 DEF Ordered, Waiting
    <2> QED
        BY <2>1, <2>3, <2>6, <2>7, <2>8
<1> QED
    BY <1>1, <1>2 DEF Done

(* However a stream is cut into receives of a header's length or more (a      *)
(* shorter one is dropped, and damages the connection), and whatever bytes    *)
(* the data hold, the packets of an undamaged connection are processed whole, *)
(* once and in order, and none stays in the buffer when all bytes have come   *)
(* (server.c:962-986, client.c:652-675).                                      *)
THEOREM StreamInOrder == Spec => []InOrder
<1>1. Init => Inv /\ Ordered
    BY InitInv, InitOrdered
<1>2. (Inv /\ Ordered) /\ [Next]_vars => (Inv /\ Ordered)'
    BY NextInv, NextOrdered
<1> QED
    BY <1>1, <1>2, OrderedInOrder, PTL DEF Spec

-----------------------------------------------------------------------------
(* Packets behind a damage.                                                  *)

BytesOf(p) == HeaderSize + Len(p.data)

\* Among the l bytes of s, packets c + 1, c + 2, ... of q come one after the
\* other and whole; packet k ends at byte at[k].
Behind(s, l, q, c, at) ==
    /\ l \in Nat /\ q \in Seq(Packets) /\ c \in 0..Len(q) /\ at \in [Nat -> Nat]
    /\ at[Len(q)] = l
    /\ \A j, k \in c..Len(q) : j <= k => at[j] + HeaderSize * (k - j) <= at[k]
    /\ \A k \in c + 1..Len(q) :
          /\ at[k] = at[k - 1] + BytesOf(q[k])
          /\ \A i \in 1..BytesOf(q[k]) : s[at[k - 1] + i] = [b |-> Encoded(q[k])[i], n |-> k]

\* What is before them comes from packets up to c.  If c is not damaged, it is
\* the rest of c, in which no header begins.
Before(s, c, h, at) ==
    \A i \in 1..at[c] : s[i].n <= c /\ (c > h => s[i].n = c /\ s[i].b # Magic)

\* The same places after z bytes are gone.
Shifted(at, z) == [k \in Nat |-> IF at[k] >= z THEN at[k] - z ELSE 0]

\* A packet has a header.
LEMMA BytesOfPacket ==
    ASSUME NEW p \in Packets
    PROVE  BytesOf(p) \in Nat /\ BytesOf(p) >= 4 /\ BytesOf(p) = HeaderSize + Len(p.data)
<1>1. Len(p.data) \in 0..MaxData /\ MaxData \in Nat
    BY EncodedPacket, SizeAssumption
<1> QED
    BY <1>1 DEF BytesOf, HeaderSize

\* In a plain packet a magic number is only where it belongs.
LEMMA PlainBytes ==
    ASSUME NEW p \in Packets, Plain(p)
    PROVE  /\ \A i \in 2..BytesOf(p) : Encoded(p)[i] # Magic
           /\ \A i \in 1..3 : Encoded(p)[i] # MagicData
<1>1. p.id \in Bytes /\ p.data \in Seq(Bytes) /\ Len(p.data) <= MaxData
    BY PacketAssumption
<1>2. Len(p.data) \in 0..MaxData /\ MaxData \in Nat
    BY EncodedPacket, SizeAssumption
<1>3. Magic \in Nat /\ MagicData \in Nat /\ Magic # MagicData /\ MaxData < Magic /\ MaxData < MagicData
    BY MagicAssumption, SizeAssumption DEF Bytes
<1> DEFINE h == <<Magic, p.id, Len(p.data), MagicData>>
           S == {Magic, MagicData, Len(p.data), p.id} \cup Bytes
<1>4. /\ h \in Seq(S) /\ Len(h) = 4
      /\ h[1] = Magic /\ h[2] = p.id /\ h[3] = Len(p.data) /\ h[4] = MagicData
    OBVIOUS
<1>5. Encoded(p) = h \o p.data
    BY DEF Encoded
<1>6. p.data \in Seq(S)
    BY <1>1
<1> HIDE DEF h, S
<1>7. PICK l \in Nat : l = Len(p.data)
    BY <1>2
<1>8. /\ \A i \in 1..4 : Encoded(p)[i] = h[i]
      /\ \A i \in 1..l : Encoded(p)[4 + i] = p.data[i]
    <2>1. PICK d : d = p.data
        OBVIOUS
    <2>2. h \in Seq(S) /\ d \in Seq(S)
        BY <1>4, <1>6, <2>1
    <2>3. /\ \A i \in 1..Len(h) : (h \o d)[i] = h[i]
          /\ \A i \in 1..Len(d) : (h \o d)[Len(h) + i] = d[i]
        BY <2>2, Joined
    <2> QED
        BY <1>4, <1>5, <1>7, <2>1, <2>3
<1>9. l # Magic /\ l # MagicData
    BY <1>2, <1>3, <1>7
<1>10. p.id # Magic /\ p.id # MagicData /\ \A i \in 1..l : p.data[i] # Magic
    <2>1. DOMAIN p.data = 1..l
        BY <1>1, <1>7
    <2> QED
        BY <2>1 DEF Plain
<1>11. h[1] # MagicData /\ h[2] # MagicData /\ h[3] # MagicData
    BY <1>3, <1>4, <1>7, <1>9, <1>10
<1>12. h[2] # Magic /\ h[3] # Magic /\ h[4] # Magic
    BY <1>3, <1>4, <1>7, <1>9, <1>10
<1>13. ASSUME NEW i \in 1..3 PROVE Encoded(p)[i] # MagicData
    <2>1. i \in 1..4 /\ (i = 1 \/ i = 2 \/ i = 3)
        OBVIOUS
    <2> QED
        BY <1>8, <1>11, <2>1
<1>14. ASSUME NEW i \in 2..BytesOf(p) PROVE Encoded(p)[i] # Magic
    <2>1. BytesOf(p) = 4 + l
        BY <1>7 DEF BytesOf, HeaderSize
    <2>2. \/ i \in 1..4 /\ (i = 2 \/ i = 3 \/ i = 4)
          \/ i - 4 \in 1..l /\ 4 + (i - 4) = i
        BY <1>7, <2>1
    <2>3. CASE i \in 1..4 /\ (i = 2 \/ i = 3 \/ i = 4)
        BY <1>8, <1>12, <2>3
    <2>4. CASE i - 4 \in 1..l /\ 4 + (i - 4) = i
        <3>1. Encoded(p)[i] = p.data[i - 4]
            BY <1>8, <2>4
        <3> QED
            BY <1>10, <2>4, <3>1
    <2> QED
        BY <2>2, <2>3, <2>4
<1> QED
    BY <1>13, <1>14

\* A set of natural numbers that is not empty has a least element.
LEMMA Least ==
    ASSUME NEW S \in SUBSET Nat, S # {}
    PROVE  \E s \in S : \A t \in S : s <= t
<1> DEFINE R == OpToRel(<, Nat)
<1>1. IsWellFoundedOn(R, Nat)
    BY NatLessThanWellFounded, Zenon
<1>2. R = {p \in Nat \X Nat : p[1] < p[2]}
    BY Zenon DEF OpToRel
<1> HIDE DEF R
<1>3. PICK s \in S : \A t \in S : <<t, s>> \notin R
    BY <1>1, WFMin
<1>4. \A t \in S : ~(t < s)
    BY <1>2, <1>3
<1> QED
    BY <1>4

\* A byte between the ends of two packets.
LEMMA InPacket ==
    ASSUME NEW a \in Nat, NEW x \in Nat, NEW z \in Nat, a < x, x <= a + z
    PROVE  x - a \in 1..z /\ a + (x - a) = x
    OBVIOUS

\* A place before z bytes are gone, and after.
LEMMA Moved ==
    ASSUME NEW x \in Nat, NEW z \in Nat, NEW a \in Nat, x >= a + z
    PROVE  x >= z /\ x - z \in Nat /\ x - z >= a
    OBVIOUS

\* Bytes of a packet before z bytes are gone, and after.
LEMMA MovedByte ==
    ASSUME NEW x \in Nat, NEW z \in Nat, NEW a \in Nat, x >= a + z, NEW w \in Nat, NEW l \in Nat,
           x + w <= l, NEW i \in 1..w
    PROVE  (x - z) + i \in a + 1..l - z /\ ((x - z) + i) + z = x + i
    OBVIOUS

\* Two places of which one is not before the other.
LEMMA Apart ==
    ASSUME NEW x \in Nat, NEW y \in Nat, NEW i \in Nat, NEW j \in Nat, i <= j,
           x + HeaderSize * (j - i) <= y
    PROVE  x <= y /\ \A z \in Nat : (x - z) + HeaderSize * (j - i) <= y - z
<1>1. PICK d \in Nat : d = j - i
    OBVIOUS
<1>2. x + 4 * d <= y
    BY <1>1 DEF HeaderSize
<1>3. x <= y /\ \A z \in Nat : (x - z) + 4 * d <= y - z
    BY <1>2
<1> QED
    BY <1>1, <1>3 DEF HeaderSize

\* Numbers of packets, of the later ones among them.
LEMMA Later ==
    ASSUME NEW c \in Nat, NEW k \in Nat, NEW m \in Nat, c <= k, k <= m
    PROVE  /\ \A j \in k..m : j \in c..m /\ j \in Nat
           /\ \A j \in k + 1..m : /\ j \in k..m /\ j - 1 \in k..m /\ j \in c + 1..m
                                   /\ j \in 1..m /\ j \in c..m /\ j <= m
           /\ m \in k..m /\ m \in c..m
    OBVIOUS

\* t is s without z bytes after the first a.
Cut(s, l, t, a, z) == \A i \in a + 1..l - z : t[i] = s[i + z]

\* Byte x belongs to one of the packets.
InSome(s, q, c, at, x) ==
    \E k \in c + 1..Len(q) :
       /\ at[k - 1] < x /\ x <= at[k]
       /\ \A j \in c..k - 1 : at[j] < x
       /\ x - at[k - 1] \in 1..BytesOf(q[k])
       /\ s[x] = [b |-> Encoded(q[k])[x - at[k - 1]], n |-> k]

\* The packet that a byte belongs to.
LEMMA Located ==
    ASSUME NEW s, NEW l, NEW q, NEW c,
           NEW at, Behind(s, l, q, c, at)
    PROVE  \A x \in Nat : at[c] < x /\ x <= l => InSome(s, q, c, at, x)
<1> SUFFICES ASSUME NEW x \in Nat, at[c] < x, x <= l PROVE InSome(s, q, c, at, x)
    OBVIOUS
<1> l \in Nat /\ q \in Seq(Packets) /\ c \in 0..Len(q) /\ at \in [Nat -> Nat]
    BY DEF Behind
<1>1. PICK m \in Nat : m = Len(q)
    OBVIOUS
<1> DEFINE S == {k \in c..m : x <= at[k]}
<1>2. m \in S /\ S \in SUBSET Nat
    BY <1>1 DEF Behind
<1>3. PICK k \in S : \A t \in S : k <= t
    BY <1>2, Least
<1>4. k \in c..m /\ x <= at[k] /\ k # c /\ at[k] \in Nat
    BY <1>1, <1>3
<1>5. k \in c + 1..m /\ k - 1 \in c..m /\ k - 1 \in Nat
    BY <1>1, <1>4
<1>6. \A j \in c..k - 1 : at[j] < x
    <2> SUFFICES ASSUME NEW j \in c..k - 1 PROVE at[j] < x
        OBVIOUS
    <2>1. j \in c..m /\ j \in Nat /\ ~(k <= j)
        BY <1>1, <1>4
    <2>2. j \notin S /\ at[j] \in Nat
        BY <1>3, <2>1
    <2> QED
        BY <2>1, <2>2
<1>7. at[k - 1] < x
    <2>1. k - 1 \in c..k - 1
        BY <1>1, <1>5
    <2> QED
        BY <1>6, <2>1
<1>8. /\ at[k] = at[k - 1] + BytesOf(q[k])
      /\ \A i \in 1..BytesOf(q[k]) : s[at[k - 1] + i] = [b |-> Encoded(q[k])[i], n |-> k]
    BY <1>1, <1>5 DEF Behind
<1>9. q[k] \in Packets
    BY <1>1, <1>5
<1>10. BytesOf(q[k]) \in Nat
    BY <1>9, BytesOfPacket
<1>11. PICK a \in Nat, z \in Nat : a = at[k - 1] /\ z = BytesOf(q[k])
    BY <1>5, <1>10
<1>12. x - a \in 1..z /\ a + (x - a) = x
    <2>1. a < x /\ x <= a + z
        BY <1>4, <1>7, <1>8, <1>11
    <2> QED
        BY <1>11, <2>1, InPacket
<1>13. s[a + (x - a)] = [b |-> Encoded(q[k])[x - a], n |-> k]
    BY <1>8, <1>11, <1>12
<1> QED
    BY <1>1, <1>4, <1>5, <1>6, <1>7, <1>11, <1>12, <1>13 DEF InSome

\* z bytes are gone, after the first a: what comes behind them stays.
LEMMA CutBehind ==
    ASSUME NEW s, NEW l, NEW q, NEW c,
           NEW at, Behind(s, l, q, c, at),
           NEW t, NEW a \in Nat, NEW z \in Nat, a + z <= l, Cut(s, l, t, a, z),
           NEW k \in c..Len(q), a + z <= at[k]
    PROVE  /\ \A j \in k..Len(q) : Shifted(at, z)[j] = at[j] - z
           /\ Behind(t, l - z, q, k, Shifted(at, z))
<1> l \in Nat /\ q \in Seq(Packets) /\ c \in 0..Len(q) /\ at \in [Nat -> Nat]
    BY DEF Behind
<1>1. PICK m \in Nat : m = Len(q)
    OBVIOUS
<1>2. PICK u : u = Shifted(at, z)
    OBVIOUS
<1>0. c \in Nat /\ k \in Nat /\ c <= k /\ k <= m
    BY <1>1
<1>3. u \in [Nat -> Nat]
    <2>1. ASSUME NEW j \in Nat PROVE (IF at[j] >= z THEN at[j] - z ELSE 0) \in Nat
        <3>1. PICK x \in Nat : x = at[j]
            OBVIOUS
        <3>2. (IF x >= z THEN x - z ELSE 0) \in Nat
            OBVIOUS
        <3> QED
            BY <3>1, <3>2
    <2> QED
        BY <1>2, <2>1 DEF Shifted
<1>4. ASSUME NEW i \in c..m, NEW j \in c..m, i <= j
      PROVE  /\ at[i] \in Nat /\ at[j] \in Nat /\ at[i] <= at[j]
             /\ (at[i] - z) + HeaderSize * (j - i) <= at[j] - z
    <2>1. i \in Nat /\ j \in Nat /\ at[i] \in Nat /\ at[j] \in Nat
        BY <1>1
    <2>2. at[i] + HeaderSize * (j - i) <= at[j]
        BY <1>1, <1>4 DEF Behind
    <2> QED
        BY <1>4, <2>1, <2>2, Apart
<1>5. ASSUME NEW j \in k..m PROVE at[j] \in Nat /\ at[j] >= a + z /\ u[j] = at[j] - z
    <2>1. j \in c..m /\ k \in c..m /\ k <= j /\ j \in Nat
        BY <1>1
    <2>2. at[k] <= at[j] /\ at[j] \in Nat /\ at[k] \in Nat
        BY <1>4, <2>1
    <2>3. PICK x \in Nat, y \in Nat : x = at[j] /\ y = at[k]
        BY <2>2
    <2>4. x >= a + z
        BY <2>2, <2>3
    <2>5. x >= z
        BY <2>4, Moved
    <2>6. u[j] = x - z
        BY <1>2, <2>1, <2>3, <2>5 DEF Shifted
    <2> QED
        BY <2>3, <2>4, <2>6
<1>6. u[m] = l - z
    <2>1. m \in k..m /\ at[m] = l
        BY <1>1 DEF Behind
    <2> QED
        BY <1>5, <2>1
<1>7. ASSUME NEW i \in k..m, NEW j \in k..m, i <= j PROVE u[i] + HeaderSize * (j - i) <= u[j]
    <2>1. i \in c..m /\ j \in c..m
        BY <1>0, Later
    <2>2. (at[i] - z) + HeaderSize * (j - i) <= at[j] - z
        BY <1>4, <1>7, <2>1
    <2>3. u[i] = at[i] - z /\ u[j] = at[j] - z
        BY <1>5
    <2> QED
        BY <2>2, <2>3
<1>8. ASSUME NEW j \in k + 1..m
      PROVE  /\ u[j] = u[j - 1] + BytesOf(q[j])
             /\ \A i \in 1..BytesOf(q[j]) : t[u[j - 1] + i] = [b |-> Encoded(q[j])[i], n |-> j]
    <2>1. /\ j \in k..m /\ j - 1 \in k..m /\ j \in c + 1..m /\ j \in 1..m /\ j \in c..m
          /\ m \in c..m /\ j <= m
        BY <1>0, Later
    <2>2. /\ at[j] = at[j - 1] + BytesOf(q[j])
          /\ \A i \in 1..BytesOf(q[j]) : s[at[j - 1] + i] = [b |-> Encoded(q[j])[i], n |-> j]
        BY <1>1, <2>1 DEF Behind
    <2>3. /\ u[j] = at[j] - z /\ u[j - 1] = at[j - 1] - z /\ at[j] \in Nat /\ at[j - 1] \in Nat
          /\ at[j - 1] >= a + z
        BY <1>5, <2>1
    <2>4. BytesOf(q[j]) \in Nat
        <3>1. q[j] \in Packets
            BY <1>1, <2>1
        <3> QED
            BY <3>1, BytesOfPacket
    <2>5. at[j] <= at[m] /\ at[m] = l
        BY <1>1, <1>4, <2>1 DEF Behind
    <2>6. PICK x \in Nat, y \in Nat, w \in Nat : x = at[j - 1] /\ y = at[j] /\ w = BytesOf(q[j])
        BY <2>3, <2>4
    <2>7. y = x + w /\ x >= a + z /\ u[j - 1] = x - z /\ u[j] = y - z /\ x + w <= l
        BY <2>2, <2>3, <2>5, <2>6
    <2>8. (x + w) - z = (x - z) + w
        BY <2>6
    <2>9. ASSUME NEW i \in 1..w PROVE t[(x - z) + i] = s[x + i]
        <3>1. (x - z) + i \in a + 1..l - z /\ ((x - z) + i) + z = x + i
            BY <2>7, MovedByte
        <3> QED
            BY <3>1 DEF Cut
    <2> QED
        BY <2>2, <2>6, <2>7, <2>8, <2>9
<1>9. l - z \in Nat /\ k \in 0..Len(q)
    BY <1>0, <1>1
<1>10. Behind(t, l - z, q, k, u)
    BY <1>1, <1>3, <1>6, <1>7, <1>8, <1>9 DEF Behind
<1> QED
    BY <1>1, <1>2, <1>3, <1>5, <1>10

\* All bytes have a number; the first ones of s and t are the same; the bytes
\* of packet n come behind the first l.
Labelled(s, l) == \A i \in 1..l : s[i].n \in Nat /\ s[i].b \in Nat
SameUpTo(s, t, a) == \A i \in 1..a : t[i] = s[i]
Added(t, l, p, n) == \A i \in 1..BytesOf(p) : t[l + i] = [b |-> Encoded(p)[i], n |-> n]

\* Sums and order of natural numbers.
LEMMA Numbers ==
    ASSUME NEW x \in Nat, NEW y \in Nat
    PROVE  x + y \in Nat /\ \A z \in Nat : x <= y /\ y <= z => x <= z
    OBVIOUS

\* Where packets end.
LEMMA Ends ==
    ASSUME NEW s, NEW l, NEW q, NEW c,
           NEW at, Behind(s, l, q, c, at), NEW k \in c..Len(q)
    PROVE  /\ Len(q) \in Nat /\ c \in Nat /\ k \in Nat /\ c <= k /\ k <= Len(q)
           /\ at[k] \in Nat /\ at[c] \in Nat
           /\ at[c] <= at[k] /\ at[k] <= l /\ at[Len(q)] = l
           /\ at[k] + HeaderSize * (Len(q) - k) <= l
<1> l \in Nat /\ q \in Seq(Packets) /\ c \in 0..Len(q) /\ at \in [Nat -> Nat]
    BY DEF Behind
<1>1. PICK m \in Nat : m = Len(q)
    OBVIOUS
<1>2. c \in Nat /\ k \in Nat /\ c <= k /\ k <= m
    BY <1>1
<1>3. k \in c..m /\ m \in c..m /\ c \in c..m
    BY <1>2
<1>4. /\ at[k] + HeaderSize * (m - k) <= at[m] /\ at[m] = l
      /\ at[c] + HeaderSize * (k - c) <= at[k]
    BY <1>1, <1>2, <1>3 DEF Behind
<1>5. at[k] \in Nat /\ at[m] \in Nat /\ at[c] \in Nat
    BY <1>1, <1>2
<1>6. at[k] <= l /\ at[c] <= at[k]
    BY <1>1, <1>2, <1>4, <1>5, Apart
<1> QED
    BY <1>1, <1>2, <1>4, <1>5, <1>6

\* Packet k is among them.
Whole(s, l, q, c, at, k) ==
    /\ k \in Nat /\ k \in c..Len(q) /\ k - 1 \in c..Len(q) /\ k \in 1..Len(q)
    /\ q[k] \in Packets
    /\ at[k] \in Nat /\ at[k - 1] \in Nat /\ BytesOf(q[k]) \in Nat
    /\ at[k] <= l /\ at[k] = at[k - 1] + BytesOf(q[k])
    /\ \A i \in 1..BytesOf(q[k]) : s[at[k - 1] + i] = [b |-> Encoded(q[k])[i], n |-> k]

\* All packets behind c are.
LEMMA PacketAt ==
    ASSUME NEW s, NEW l, NEW q, NEW c,
           NEW at, Behind(s, l, q, c, at)
    PROVE  \A k \in c + 1..Len(q) : Whole(s, l, q, c, at, k)
<1> SUFFICES ASSUME NEW k \in c + 1..Len(q) PROVE Whole(s, l, q, c, at, k)
    OBVIOUS
<1> l \in Nat /\ q \in Seq(Packets) /\ c \in 0..Len(q) /\ at \in [Nat -> Nat]
    BY DEF Behind
<1>1. PICK m \in Nat : m = Len(q)
    OBVIOUS
<1>2. c \in Nat /\ k \in c + 1..m /\ k - 1 \in Nat
    BY <1>1
<1>3. k \in Nat /\ k \in c..m /\ k - 1 \in c..m /\ k \in 1..m
    BY <1>1, <1>2
<1>4. /\ at[k] = at[k - 1] + BytesOf(q[k])
      /\ \A i \in 1..BytesOf(q[k]) : s[at[k - 1] + i] = [b |-> Encoded(q[k])[i], n |-> k]
    BY <1>1, <1>2 DEF Behind
<1>5. q[k] \in Packets
    BY <1>1, <1>3
<1>6. BytesOf(q[k]) \in Nat
    BY <1>5, BytesOfPacket
<1>7. at[k] \in Nat /\ at[k - 1] \in Nat /\ at[k] <= l
    BY <1>1, <1>2, <1>3, Ends
<1> QED
    BY <1>1, <1>3, <1>4, <1>5, <1>6, <1>7 DEF Whole

\* The first x bytes come from packets up to k.
UpTo(s, l, x, k) == \A i \in 1..x : i \in 1..l /\ s[i].n <= k

\* The bytes up to the end of a packet come from packets up to that one.
LEMMA Labels ==
    ASSUME NEW s, NEW l, NEW q, NEW c, NEW h,
           NEW at, Behind(s, l, q, c, at), Before(s, c, h, at),
           Labelled(s, l)
    PROVE  \A k \in c..Len(q) : UpTo(s, l, at[k], k)
<1> SUFFICES ASSUME NEW k \in c..Len(q), NEW x \in 1..at[k]
             PROVE  x \in 1..l /\ s[x].n <= k
    BY DEF UpTo
<1> l \in Nat /\ q \in Seq(Packets) /\ c \in 0..Len(q) /\ at \in [Nat -> Nat]
    BY DEF Behind
<1>1. PICK m \in Nat : m = Len(q)
    OBVIOUS
<1>2. c \in Nat /\ k \in Nat /\ c <= k /\ k <= m
    BY <1>1
<1>3. at[k] \in Nat /\ at[c] \in Nat /\ at[k] <= l
    BY Ends
<1>4. x \in Nat /\ x >= 1 /\ x <= at[k] /\ x <= l
    BY <1>3
<1>5. CASE x <= at[c]
    <2>1. x \in 1..at[c] /\ x \in 1..l
        BY <1>3, <1>4, <1>5
    <2>2. s[x].n <= c /\ s[x].n \in Nat
        BY <2>1 DEF Before, Labelled
    <2>3. PICK y \in Nat : y = s[x].n
        BY <2>2
    <2>4. y <= k
        BY <1>2, <2>2, <2>3, Numbers
    <2> QED
        BY <2>1, <2>3, <2>4
<1>6. CASE ~(x <= at[c])
    <2>1. at[c] < x
        BY <1>3, <1>4, <1>6
    <2>0. InSome(s, q, c, at, x)
        BY <1>4, <2>1, Located
    <2>2. PICK j \in c + 1..Len(q) : /\ \A i \in c..j - 1 : at[i] < x
                                     /\ s[x] = [b |-> Encoded(q[j])[x - at[j - 1]], n |-> j]
        BY <2>0 DEF InSome
    <2>3. j <= k
        <3>1. ASSUME ~(j <= k) PROVE FALSE
            <4>1. k \in c..j - 1
                BY <1>1, <1>2, <3>1
            <4>2. at[k] < x
                BY <2>2, <4>1
            <4> QED
                BY <1>3, <1>4, <4>2
        <3> QED
            BY <3>1
    <2>4. s[x].n = j
        BY <2>2
    <2> QED
        BY <1>4, <2>3, <2>4
<1> QED
    BY <1>5, <1>6

\* Bytes before the packets are skipped.
LEMMA SkipBefore ==
    ASSUME NEW s, NEW l \in Nat, NEW c \in Nat, NEW h, NEW at \in [Nat -> Nat],
           Before(s, c, h, at), at[c] <= l, NEW t, NEW z \in Nat, z <= at[c],
           Cut(s, l, t, 0, z)
    PROVE  Before(t, c, h, Shifted(at, z))
<1>1. PICK g \in Nat : g = at[c]
    OBVIOUS
<1>2. g >= z /\ g <= l
    BY <1>1
<1>3. Shifted(at, z)[c] = g - z
    BY <1>1, <1>2 DEF Shifted
<1>4. ASSUME NEW i \in 1..g - z
      PROVE  t[i].n <= c /\ (c > h => t[i].n = c /\ t[i].b # Magic)
    <2>1. i \in 0 + 1..l - z /\ i + z \in 1..g
        BY <1>2
    <2>2. t[i] = s[i + z]
        BY <2>1 DEF Cut
    <2> QED
        BY <1>1, <2>1, <2>2 DEF Before
<1> QED
    BY <1>3, <1>4 DEF Before

\* Numbers of a byte inside a packet, behind the first one.
LEMMA InsidePacket ==
    ASSUME NEW x \in Nat, NEW y \in Nat, NEW z \in Nat, NEW l \in Nat, x < z, z <= y, y <= l,
           NEW i \in 1..y - z
    PROVE  /\ i \in 0 + 1..l - z /\ i + z \in Nat /\ x < i + z /\ i + z <= y
           /\ (i + z) - x \in 2..y - x /\ x + ((i + z) - x) = i + z
    OBVIOUS

\* The rest of a packet in which no header begins.
LEMMA JumpBefore ==
    ASSUME NEW s, NEW l, NEW q, NEW c,
           NEW at, Behind(s, l, q, c, at),
           NEW t, NEW z \in Nat, Cut(s, l, t, 0, z),
           NEW k \in c + 1..Len(q), at[k - 1] < z, z <= at[k], Plain(q[k]), NEW h
    PROVE  Before(t, k, h, Shifted(at, z))
<1> l \in Nat /\ q \in Seq(Packets) /\ c \in 0..Len(q) /\ at \in [Nat -> Nat]
    BY DEF Behind
<1>1. Whole(s, l, q, c, at, k)
    BY PacketAt
<1>2. /\ k \in Nat /\ q[k] \in Packets
      /\ at[k] \in Nat /\ at[k - 1] \in Nat /\ BytesOf(q[k]) \in Nat
      /\ at[k] <= l /\ at[k] = at[k - 1] + BytesOf(q[k])
    BY <1>1 DEF Whole
<1>3. \A i \in 1..BytesOf(q[k]) : s[at[k - 1] + i] = [b |-> Encoded(q[k])[i], n |-> k]
    BY <1>1 DEF Whole
<1>5. \A i \in 2..BytesOf(q[k]) : Encoded(q[k])[i] # Magic
    BY <1>2, PlainBytes
<1>6. PICK x \in Nat, y \in Nat, w \in Nat : x = at[k - 1] /\ y = at[k] /\ w = BytesOf(q[k])
    BY <1>2
<1>7. y = x + w /\ x < z /\ z <= y /\ y - x = w
    BY <1>2, <1>6
<1>8. y <= l
    BY <1>2, <1>6
<1>9. Shifted(at, z)[k] = y - z
    BY <1>2, <1>6, <1>7 DEF Shifted
<1>10. ASSUME NEW i \in 1..y - z
       PROVE  t[i].n = k /\ t[i].b # Magic
    <2>1. /\ i \in 0 + 1..l - z /\ (i + z) - x \in 2..w /\ x + ((i + z) - x) = i + z
        BY <1>7, <1>8, InsidePacket
    <2>2. PICK o : o = (i + z) - x
        OBVIOUS
    <2>3. o \in 2..w /\ o \in 1..w /\ x + o = i + z
        BY <1>6, <2>1, <2>2
    <2>4. s[x + o] = [b |-> Encoded(q[k])[o], n |-> k]
        BY <1>3, <1>6, <2>3
    <2>5. t[i] = s[i + z]
        BY <2>1 DEF Cut
    <2>6. Encoded(q[k])[o] # Magic
        BY <1>5, <1>6, <2>3
    <2>7. t[i] = [b |-> Encoded(q[k])[o], n |-> k]
        BY <2>3, <2>4, <2>5
    <2> QED
        BY <2>6, <2>7
<1>11. ASSUME NEW i \in 1..y - z
       PROVE  t[i].n <= k /\ (k > h => t[i].n = k /\ t[i].b # Magic)
    <2>1. k <= k
        BY <1>2
    <2> QED
        BY <1>10, <2>1
<1> QED
    BY <1>9, <1>11 DEF Before

\* Bytes are lost: all up to the packet of the last one is damaged.
LEMMA LostBefore ==
    ASSUME NEW s, NEW l, NEW q, NEW c, NEW h,
           NEW at, Behind(s, l, q, c, at), Before(s, c, h, at),
           Labelled(s, l),
           NEW t, NEW a \in Nat, NEW z \in Nat, a + z <= l, Cut(s, l, t, a, z),
           SameUpTo(s, t, a),
           NEW k \in c..Len(q), a + z <= at[k]
    PROVE  Before(t, k, k, Shifted(at, z))
<1> l \in Nat /\ q \in Seq(Packets) /\ c \in 0..Len(q) /\ at \in [Nat -> Nat]
    BY DEF Behind
<1>1. PICK y : y = at[k]
    OBVIOUS
<1>2. y \in Nat /\ k \in Nat
    BY <1>1
<1>3. y >= z /\ y >= a + z
    BY <1>1, <1>2
<1>4. Shifted(at, z)[k] = y - z
    BY <1>1, <1>2, <1>3 DEF Shifted
<1>0. UpTo(s, l, at[k], k)
    BY Labels
<1>5. \A x \in 1..y : x \in 1..l /\ s[x].n <= k
    BY <1>0, <1>1 DEF UpTo
<1>6. y <= l
    <2>1. CASE y = 0
        BY <2>1
    <2>2. CASE y # 0
        <3>1. y \in 1..y
            BY <1>2, <2>2
        <3> QED
            BY <1>5, <3>1
    <2> QED
        BY <2>1, <2>2
<1>7. ASSUME NEW i \in 1..y - z PROVE t[i].n <= k
    <2>1. CASE i <= a
        <3>1. i \in 1..a /\ i \in 1..y
            BY <1>2, <1>3, <2>1
        <3> QED
            BY <1>5, <3>1 DEF SameUpTo
    <2>2. CASE ~(i <= a)
        <3>1. i \in a + 1..l - z /\ i + z \in 1..y
            BY <1>2, <1>3, <1>6, <2>2
        <3>2. t[i] = s[i + z]
            BY <3>1 DEF Cut
        <3> QED
            BY <1>5, <3>1, <3>2
    <2> QED
        BY <2>1, <2>2
<1>8. ~(k > k)
    BY <1>2
<1> QED
    BY <1>4, <1>7, <1>8 DEF Before

\* Everything may be damaged.
LEMMA AllDamaged ==
    ASSUME NEW s, NEW l \in Nat, NEW q \in Seq(Packets),
           \A i \in 1..l : s[i].n <= Len(q)
    PROVE  \E at : Behind(s, l, q, Len(q), at) /\ Before(s, Len(q), Len(q), at)
<1>1. PICK m \in Nat : m = Len(q)
    OBVIOUS
<1>2. PICK at : at = [k \in Nat |-> l]
    OBVIOUS
<1>3. at \in [Nat -> Nat] /\ \A k \in Nat : at[k] = l
    BY <1>2
<1>4. Behind(s, l, q, m, at)
    <2>1. ASSUME NEW j \in m..m, NEW k \in m..m
          PROVE  at[j] + HeaderSize * (k - j) <= at[k]
        <3>1. j = m /\ k = m /\ m - m = 0
            BY <1>1
        <3> QED
            BY <1>3, <3>1 DEF HeaderSize
    <2>2. m + 1..m = {}
        BY <1>1
    <2>3. m \in 0..m
        BY <1>1
    <2> QED
        BY <1>1, <1>3, <2>1, <2>2, <2>3 DEF Behind
<1>5. Before(s, m, m, at)
    BY <1>1, <1>3 DEF Before
<1> QED
    BY <1>1, <1>3, <1>4, <1>5

\* Room for one header more.
LEMMA OneMoreHeader ==
    ASSUME NEW x \in Nat, NEW j \in Nat, NEW m \in Nat, NEW l \in Nat, NEW w \in Nat,
           x + 4 * (m - j) <= l, w >= 4
    PROVE  x + 4 * ((m + 1) - j) <= l + w
    OBVIOUS

\* Numbers of packets when there is one more.
LEMMA OneMore ==
    ASSUME NEW c \in Nat, NEW m \in Nat, c <= m
    PROVE  c \in 0..m + 1 /\ \A k \in c..m : k \in Nat /\ k # m + 1
    OBVIOUS

\* Another packet is sent whole.
LEMMA SentBehind ==
    ASSUME NEW s, NEW l, NEW q, NEW c, NEW h,
           NEW at, Behind(s, l, q, c, at), Before(s, c, h, at),
           NEW p \in Packets, NEW t,
           SameUpTo(s, t, l), Added(t, l, p, Len(q) + 1)
    PROVE  \E new :
              Behind(t, l + BytesOf(p), Append(q, p), c, new) /\ Before(t, c, h, new)
<1> l \in Nat /\ q \in Seq(Packets) /\ c \in 0..Len(q) /\ at \in [Nat -> Nat]
    BY DEF Behind
<1>1. PICK m \in Nat : m = Len(q)
    OBVIOUS
<1>0. c \in Nat /\ c <= m
    BY <1>1
<1>2. PICK w \in Nat : w = BytesOf(p) /\ w >= 4
    BY BytesOfPacket
<1>3. PICK r : r = Append(q, p)
    OBVIOUS
<1>4. /\ r \in Seq(Packets) /\ Len(r) = m + 1 /\ r[m + 1] = p
      /\ \A k \in 1..m : r[k] = q[k]
    BY <1>1, <1>3, AppendProperties
<1>5. PICK new : new = [at EXCEPT ![m + 1] = l + w]
    OBVIOUS
<1>6. /\ new \in [Nat -> Nat] /\ new[m + 1] = l + w
      /\ \A k \in c..m : new[k] = at[k] /\ at[k] \in Nat
    <2>1. \A k \in c..m : k \in Nat /\ k # m + 1
        BY <1>0, OneMore
    <2>2. l + w \in Nat /\ m + 1 \in Nat
        BY Numbers
    <2> QED
        BY <1>5, <2>1, <2>2
<1>7. at[m] = l
    BY <1>1 DEF Behind
<1>8. ASSUME NEW j \in c..m + 1, NEW k \in c..m + 1, j <= k
      PROVE  new[j] + HeaderSize * (k - j) <= new[k]
    <2>1. CASE k \in c..m
        <3>1. j \in c..m
            BY <1>1, <1>8, <2>1
        <3>2. at[j] + HeaderSize * (k - j) <= at[k]
            BY <1>1, <1>8, <2>1, <3>1 DEF Behind
        <3> QED
            BY <1>6, <2>1, <3>1, <3>2
    <2>2. CASE k = m + 1 /\ j \in c..m
        <3>1. at[j] + HeaderSize * (m - j) <= l /\ at[j] \in Nat
            <4>1. m \in c..m /\ j <= m
                BY <1>1, <2>2
            <4> QED
                BY <1>1, <1>6, <1>7, <2>2, <4>1 DEF Behind
        <3>2. PICK x \in Nat : x = at[j]
            BY <3>1
        <3>3. x + 4 * (m - j) <= l /\ j \in Nat
            BY <1>1, <2>2, <3>1, <3>2 DEF HeaderSize
        <3>4. x + 4 * ((m + 1) - j) <= l + w
            BY <1>2, <3>3, OneMoreHeader
        <3> QED
            BY <1>6, <2>2, <3>2, <3>4 DEF HeaderSize
    <2>3. CASE k = m + 1 /\ j = m + 1
        <3>1. l + w + HeaderSize * ((m + 1) - (m + 1)) <= l + w
            BY <1>1, <1>2 DEF HeaderSize
        <3> QED
            BY <1>6, <2>3, <3>1
    <2>4. k \in c..m \/ (k = m + 1 /\ j \in c..m) \/ (k = m + 1 /\ j = m + 1)
        BY <1>0, <1>8
    <2> QED
        BY <2>1, <2>2, <2>3, <2>4
<1>9. ASSUME NEW k \in c + 1..m + 1
      PROVE  /\ new[k] = new[k - 1] + BytesOf(r[k])
             /\ \A i \in 1..BytesOf(r[k]) : t[new[k - 1] + i] = [b |-> Encoded(r[k])[i], n |-> k]
    <2>1. CASE k = m + 1
        <3>1. (m + 1) - 1 = m /\ m \in c..m
            BY <1>1
        <3>2. new[k - 1] = l
            BY <1>6, <1>7, <2>1, <3>1
        <3>3. r[k] = p /\ BytesOf(r[k]) = w /\ new[k] = l + w
            BY <1>2, <1>4, <1>6, <2>1
        <3> QED
            BY <1>1, <1>2, <2>1, <3>2, <3>3 DEF Added
    <2>2. CASE k # m + 1
        <3>1. k \in c + 1..m
            BY <1>0, <2>2
        <3>9. Whole(s, l, q, c, at, k)
            BY <1>1, <3>1, PacketAt
        <3>2. /\ k \in Nat /\ k \in c..m /\ k - 1 \in c..m /\ k \in 1..m
              /\ at[k] \in Nat /\ at[k - 1] \in Nat /\ BytesOf(q[k]) \in Nat
              /\ at[k] <= l /\ at[k] = at[k - 1] + BytesOf(q[k])
            BY <1>1, <3>9 DEF Whole
        <3>0. \A i \in 1..BytesOf(q[k]) : s[at[k - 1] + i] = [b |-> Encoded(q[k])[i], n |-> k]
            BY <3>9 DEF Whole
        <3>3. r[k] = q[k] /\ new[k] = at[k] /\ new[k - 1] = at[k - 1]
            BY <1>4, <1>6, <3>2
        <3>4. PICK x \in Nat, y \in Nat, v \in Nat : x = at[k - 1] /\ y = at[k] /\ v = BytesOf(q[k])
            BY <3>2
        <3>5. y <= l /\ y = x + v
            BY <3>2, <3>4
        <3>6. \A i \in 1..v : x + i \in 1..l
            BY <3>5
        <3>7. \A i \in 1..v : t[x + i] = s[x + i]
            BY <3>6 DEF SameUpTo
        <3> QED
            BY <3>0, <3>2, <3>3, <3>4, <3>7
    <2> QED
        BY <2>1, <2>2
<1>10. Behind(t, l + w, r, c, new)
    <2>0. c \in 0..m + 1
        BY <1>0, OneMore
    <2>1. l + w \in Nat
        BY Numbers
    <2> QED
        BY <1>4, <1>6, <1>8, <1>9, <2>0, <2>1 DEF Behind
<1>11. Before(t, c, h, new)
    <2>1. c \in c..m /\ m \in c..m /\ c <= m /\ c \in Nat
        BY <1>1
    <2>2. at[c] + HeaderSize * (m - c) <= l /\ at[c] \in Nat /\ new[c] = at[c]
        BY <1>1, <1>6, <1>7, <2>1 DEF Behind
    <2>3. at[c] <= l
        BY <1>1, <2>1, <2>2, Apart
    <2>4. \A i \in 1..at[c] : i \in 1..l
        BY <2>2, <2>3
    <2>5. \A i \in 1..at[c] : t[i] = s[i]
        BY <2>4 DEF SameUpTo
    <2> QED
        BY <2>2, <2>5 DEF Before
<1> QED
    BY <1>2, <1>3, <1>6, <1>10, <1>11

-----------------------------------------------------------------------------
(* What the receiver makes of a stream that was damaged.                     *)

AllPlain(q) == \A k \in 1..Len(q) : Plain(q[k])

\* A header seems to begin at the first byte; how long its packet would be.
HeaderIn(s) == s[1].b = Magic /\ s[4].b = MagicData
PacketSize(s) == HeaderSize + (s[3].b % (MaxData + 1))

\* The first bytes are packet k.
IsPacket(s, q, k) ==
    /\ k \in 1..Len(q)
    /\ PacketSize(s) = BytesOf(q[k])
    /\ \A i \in 1..BytesOf(q[k]) : s[i] = [b |-> Encoded(q[k])[i], n |-> k]

\* Packets behind c are ahead, and up to h they were damaged.
Aligned(s, l, q, h, c, at) ==
    /\ Behind(s, l, q, c, at)
    /\ Before(s, c, h, at)
    /\ Labelled(s, l)
    /\ AllPlain(q)
    /\ h \in Nat /\ h <= c

\* A remainder.
LEMMA Remainder ==
    ASSUME NEW x \in Nat, NEW y \in Nat
    PROVE  x % (y + 1) \in 0..y /\ (x <= y => x % (y + 1) = x)
    OBVIOUS

\* The bytes of a header that the receiver looks at.
LEMMA HeaderBytes ==
    ASSUME NEW w \in Nat, w >= 4
    PROVE  1 \in 1..w /\ 3 \in 1..w /\ 4 \in 1..w
    OBVIOUS

\* The size of a packet, in numbers.
LEMMA PacketSizes ==
    ASSUME NEW s, NEW l, Labelled(s, l), l \in Nat, l >= 4
    PROVE  /\ PacketSize(s) \in Nat /\ PacketSize(s) >= 4 /\ PacketSize(s) <= 4 + MaxData
           /\ MaxData \in Nat
           /\ s[3].b \in 0..MaxData => PacketSize(s) = 4 + s[3].b
<1>1. MaxData \in Nat
    BY SizeAssumption
<1>2. 3 \in 1..l
    OBVIOUS
<1>3. PICK x \in Nat : x = s[3].b
    BY <1>2 DEF Labelled
<1>4. PICK y : y = x % (MaxData + 1)
    OBVIOUS
<1>5. y \in 0..MaxData /\ (x <= MaxData => y = x)
    BY <1>1, <1>4, Remainder
<1>6. PacketSize(s) = 4 + y
    BY <1>3, <1>4 DEF PacketSize, HeaderSize
<1> QED
    BY <1>1, <1>3, <1>5, <1>6

\* A packet that was sent whole and to which the receiver has come.
LEMMA FirstPacket ==
    ASSUME NEW s, NEW l, NEW q, NEW h, NEW c, NEW at, Aligned(s, l, q, h, c, at), l >= 4,
           at[c] = 0
    PROVE  /\ c + 1 \in c + 1..Len(q)
           /\ at[c + 1] = BytesOf(q[c + 1])
           /\ HeaderIn(s)
           /\ IsPacket(s, q, c + 1)
<1> Behind(s, l, q, c, at) /\ Labelled(s, l)
    BY DEF Aligned
<1> l \in Nat /\ q \in Seq(Packets) /\ c \in 0..Len(q) /\ at \in [Nat -> Nat]
    BY DEF Behind
<1>1. PICK m \in Nat, d \in Nat : m = Len(q) /\ d = c
    OBVIOUS
<1>2. at[m] = l
    BY <1>1 DEF Behind
<1>3. d # m
    BY <1>1, <1>2
<1>4. d + 1 \in d + 1..m /\ (d + 1) - 1 = d
    BY <1>1, <1>3
<1>5. Whole(s, l, q, c, at, d + 1)
    BY <1>1, <1>4, PacketAt
<1>6. /\ q[d + 1] \in Packets /\ d + 1 \in 1..m
      /\ BytesOf(q[d + 1]) \in Nat
      /\ at[d + 1] = at[d] + BytesOf(q[d + 1])
      /\ \A i \in 1..BytesOf(q[d + 1]) : s[at[d] + i] = [b |-> Encoded(q[d + 1])[i], n |-> d + 1]
    BY <1>1, <1>4, <1>5 DEF Whole
<1>7. PICK w \in Nat : w = BytesOf(q[d + 1]) /\ w >= 4 /\ w = 4 + Len(q[d + 1].data)
    BY <1>6, BytesOfPacket DEF HeaderSize
<1>8. at[d + 1] = w
    <2>1. at[d + 1] = 0 + w /\ 0 + w = w
        BY <1>1, <1>6, <1>7
    <2> QED
        BY <2>1
<1>9. ASSUME NEW i \in 1..w PROVE s[i] = [b |-> Encoded(q[d + 1])[i], n |-> d + 1]
    <2>1. s[0 + i] = [b |-> Encoded(q[d + 1])[i], n |-> d + 1]
        BY <1>1, <1>6, <1>7
    <2>2. 0 + i = i
        OBVIOUS
    <2> QED
        BY <2>1, <2>2
<1>10. 1 \in 1..w /\ 3 \in 1..w /\ 4 \in 1..w
    BY <1>7, HeaderBytes
<1>11. /\ s[1].b = Encoded(q[d + 1])[1] /\ s[3].b = Encoded(q[d + 1])[3]
       /\ s[4].b = Encoded(q[d + 1])[4]
    <2>1. ASSUME NEW i \in 1..w PROVE s[i].b = Encoded(q[d + 1])[i]
        <3>1. s[i] = [b |-> Encoded(q[d + 1])[i], n |-> d + 1]
            BY <1>9
        <3> QED
            BY <3>1
    <2>2. PICK f : f = Encoded(q[d + 1])
        OBVIOUS
    <2>3. \A i \in 1..w : s[i].b = f[i]
        BY <2>1, <2>2
    <2>4. s[1].b = f[1] /\ s[3].b = f[3] /\ s[4].b = f[4]
        BY <1>10, <2>3
    <2> QED
        BY <2>2, <2>4
<1>12. s[1].b = Magic /\ s[4].b = MagicData /\ s[3].b = Len(q[d + 1].data)
       /\ s[3].b \in 0..MaxData
    BY <1>6, <1>11, EncodedPacket
<1>13. PacketSize(s) = w
    BY <1>7, <1>12, PacketSizes
<1>14. IsPacket(s, q, d + 1)
    BY <1>1, <1>6, <1>7, <1>9, <1>13 DEF IsPacket
<1> QED
    BY <1>1, <1>4, <1>7, <1>8, <1>12, <1>14 DEF HeaderIn

\* A byte of the packet behind the first x bytes.
LEMMA FourthByte ==
    ASSUME NEW x \in Nat, NEW w \in Nat, x < 4, x # 0, w >= 4
    PROVE  4 - x \in 1..3 /\ 4 - x \in 1..w /\ x + (4 - x) = 4
    OBVIOUS

\* A header that was not sent is that of the damaged packet, and all of it
\* comes before the packets behind.
LEMMA FalseHeader ==
    ASSUME NEW s, NEW l, NEW q, NEW h, NEW c, NEW at, Aligned(s, l, q, h, c, at), l >= 4,
           HeaderIn(s), at[c] # 0
    PROVE  c = h /\ at[c] >= 4
<1> Behind(s, l, q, c, at) /\ Labelled(s, l) /\ Before(s, c, h, at)
    BY DEF Aligned
<1> l \in Nat /\ q \in Seq(Packets) /\ c \in 0..Len(q) /\ at \in [Nat -> Nat]
    BY DEF Behind
<1>1. PICK m \in Nat, d \in Nat : m = Len(q) /\ d = c
    OBVIOUS
<1>2. PICK g \in Nat : g = at[c] /\ g # 0
    BY <1>1
<1>3. c = h
    <2>1. 1 \in 1..g
        BY <1>2
    <2>2. ~(c > h)
        BY <1>2, <2>1 DEF Before, HeaderIn
    <2>3. PICK e \in Nat : e = h
        BY DEF Aligned
    <2>4. e <= d
        BY <1>1, <2>3 DEF Aligned
    <2>5. ~(d > e)
        BY <1>1, <2>2, <2>3
    <2>6. d = e
        BY <2>4, <2>5
    <2> QED
        BY <1>1, <2>3, <2>6
<1>4. ASSUME g < 4 PROVE FALSE
    <2>1. at[m] = l
        BY <1>1 DEF Behind
    <2>2. d # m
        <3>1. ASSUME d = m PROVE FALSE
            <4>1. g = l
                BY <1>1, <1>2, <2>1, <3>1
            <4>2. g >= 4
                BY <4>1
            <4> QED
                BY <1>4, <4>2
        <3> QED
            BY <3>1
    <2>3. d + 1 \in d + 1..m /\ (d + 1) - 1 = d
        BY <1>1, <2>2
    <2>4. Whole(s, l, q, c, at, d + 1)
        BY <1>1, <2>3, PacketAt
    <2>5. /\ q[d + 1] \in Packets /\ d + 1 \in 1..m
          /\ \A i \in 1..BytesOf(q[d + 1]) : s[at[d] + i] = [b |-> Encoded(q[d + 1])[i], n |-> d + 1]
        BY <1>1, <2>3, <2>4 DEF Whole
    <2>6. PICK w \in Nat : w = BytesOf(q[d + 1]) /\ w >= 4
        BY <2>5, BytesOfPacket
    <2>0. 4 - g \in 1..3 /\ 4 - g \in 1..w /\ g + (4 - g) = 4
        BY <1>2, <1>4, <2>6, FourthByte
    <2>7. PICK o : o \in 1..3 /\ o \in 1..w /\ g + o = 4
        BY <2>0
    <2>8. s[4] = [b |-> Encoded(q[d + 1])[o], n |-> d + 1]
        <3>1. s[g + o] = [b |-> Encoded(q[d + 1])[o], n |-> d + 1]
            BY <1>1, <1>2, <2>5, <2>6, <2>7
        <3> QED
            BY <2>7, <3>1
    <2>9. Plain(q[d + 1])
        BY <1>1, <2>5 DEF Aligned, AllPlain
    <2>10. Encoded(q[d + 1])[o] # MagicData
        BY <2>5, <2>7, <2>9, PlainBytes
    <2>11. s[4].b = Encoded(q[d + 1])[o]
        BY <2>8
    <2> QED
        BY <2>10, <2>11 DEF HeaderIn
<1>5. g >= 4
    BY <1>4
<1> QED
    BY <1>2, <1>3, <1>5

\* The packet numbers, in numbers.
LEMMA AlignedNumbers ==
    ASSUME NEW s, NEW l, NEW q, NEW h, NEW c, NEW at, Aligned(s, l, q, h, c, at)
    PROVE  /\ Behind(s, l, q, c, at) /\ Before(s, c, h, at) /\ Labelled(s, l) /\ AllPlain(q)
           /\ l \in Nat /\ q \in Seq(Packets) /\ Len(q) \in Nat /\ at \in [Nat -> Nat]
           /\ c \in Nat /\ c <= Len(q) /\ c \in c..Len(q) /\ h \in Nat /\ h <= c
           /\ at[c] \in Nat /\ at[c] <= l
<1>1. /\ Behind(s, l, q, c, at) /\ Before(s, c, h, at) /\ Labelled(s, l) /\ AllPlain(q)
      /\ h \in Nat /\ h <= c
    BY DEF Aligned
<1>2. l \in Nat /\ q \in Seq(Packets) /\ c \in 0..Len(q) /\ at \in [Nat -> Nat]
    BY <1>1 DEF Behind
<1>3. Len(q) \in Nat
    BY <1>2
<1>4. c \in Nat /\ c <= Len(q) /\ c \in c..Len(q)
    BY <1>2, <1>3
<1>5. at[c] \in Nat /\ at[c] <= l
    BY <1>1, <1>4, Ends
<1> QED
    BY <1>1, <1>2, <1>3, <1>4, <1>5

\* Labels of what is left.
LEMMA CutLabelled ==
    ASSUME NEW s, NEW l \in Nat, Labelled(s, l), NEW t, NEW a \in Nat, NEW z \in Nat, a + z <= l,
           Cut(s, l, t, a, z), SameUpTo(s, t, a)
    PROVE  Labelled(t, l - z)
<1> SUFFICES ASSUME NEW i \in 1..l - z PROVE t[i].n \in Nat /\ t[i].b \in Nat
    BY DEF Labelled
<1>1. CASE i <= a
    <2>1. i \in 1..a /\ i \in 1..l
        BY <1>1
    <2> QED
        BY <2>1 DEF Labelled, SameUpTo
<1>2. CASE ~(i <= a)
    <2>1. i \in a + 1..l - z /\ i + z \in 1..l
        BY <1>2
    <2> QED
        BY <2>1 DEF Labelled, Cut
<1> QED
    BY <1>1, <1>2

\* The first z bytes are gone, up to the end of packet k or before it.
LEMMA AlignedAfter ==
    ASSUME NEW s, NEW l, NEW q, NEW h, NEW c, NEW at, Aligned(s, l, q, h, c, at),
           NEW t, NEW z \in Nat, z <= l, Cut(s, l, t, 0, z),
           NEW k \in Nat, c <= k, k <= Len(q), z <= at[k], Before(t, k, h, Shifted(at, z))
    PROVE  Aligned(t, l - z, q, h, k, Shifted(at, z))
<1>1. /\ Behind(s, l, q, c, at) /\ Labelled(s, l) /\ AllPlain(q)
      /\ l \in Nat /\ Len(q) \in Nat
      /\ c \in Nat /\ h \in Nat /\ h <= c
    BY AlignedNumbers
<1>2. k \in c..Len(q)
    BY <1>1
<1>3. at[k] \in Nat
    BY <1>1, AlignedNumbers
<1>4. 0 + z <= l /\ 0 + z <= at[k] /\ 0 \in Nat
    BY <1>1, <1>3
<1>5. Behind(t, l - z, q, k, Shifted(at, z))
    BY <1>1, <1>2, <1>4, CutBehind
<1>6. SameUpTo(s, t, 0)
    BY DEF SameUpTo
<1>7. Labelled(t, l - z)
    BY <1>1, <1>4, <1>6, CutLabelled
<1>8. h <= k
    BY <1>1, Numbers
<1> QED
    BY <1>1, <1>5, <1>7, <1>8 DEF Aligned

\* A byte is skipped that begins no header.
LEMMA SkipAligned ==
    ASSUME NEW s, NEW l, NEW q, NEW h, NEW c, NEW at, Aligned(s, l, q, h, c, at), l >= 4,
           ~HeaderIn(s), NEW t, Cut(s, l, t, 0, 1)
    PROVE  Aligned(t, l - 1, q, h, c, Shifted(at, 1))
<1>1. /\ Before(s, c, h, at) /\ l \in Nat /\ Len(q) \in Nat /\ at \in [Nat -> Nat]
      /\ c \in Nat /\ c <= Len(q) /\ at[c] \in Nat /\ at[c] <= l
    BY AlignedNumbers
<1>2. at[c] # 0
    BY FirstPacket
<1>3. PICK g \in Nat : g = at[c]
    BY <1>1
<1>4. 1 <= g
    BY <1>2, <1>3
<1>5. 1 \in Nat /\ 1 <= at[c] /\ 1 <= l /\ c <= c
    BY <1>1, <1>3, <1>4
<1>6. Before(t, c, h, Shifted(at, 1))
    BY <1>1, <1>5, SkipBefore
<1> QED
    BY <1>1, <1>5, <1>6, AlignedAfter

\* How many packets a false header can swallow.
LEMMA SwallowedNumbers ==
    ASSUME NEW x \in Nat, NEW k \in Nat, NEW h \in Nat, h <= k, x + 4 * (k - h) < 4 + MaxData, x >= 4
    PROVE  k + 1 <= h + Swallowed
<1>1. PICK y \in Nat : y = MaxData
    BY SizeAssumption
<1>2. PICK d \in Nat : d = k - h
    OBVIOUS
<1>3. 4 * d < y
    BY <1>1, <1>2
<1>4. d <= y \div 4 /\ y \div 4 \in Nat
    BY <1>3
<1>5. Swallowed = y \div 4 + 1
    BY <1>1 DEF Swallowed, HeaderSize
<1> QED
    BY <1>2, <1>4, <1>5

\* What looks like a packet is processed: it is the next one, or it begins
\* before it and takes the place of no more than Swallowed.
LEMMA ProcessAligned ==
    ASSUME NEW s, NEW l, NEW q, NEW h, NEW c, NEW at, Aligned(s, l, q, h, c, at), l >= 4,
           HeaderIn(s), NEW z, z = PacketSize(s), z <= l, NEW t, Cut(s, l, t, 0, z)
    PROVE  \E k \in Nat :
              /\ Aligned(t, l - z, q, h, k, Shifted(at, z))
              /\ k = c \/ k <= h + Swallowed \/ (k = c + 1 /\ IsPacket(s, q, k))
<1>1. /\ Behind(s, l, q, c, at) /\ Before(s, c, h, at) /\ Labelled(s, l)
      /\ l \in Nat /\ Len(q) \in Nat /\ at \in [Nat -> Nat] /\ AllPlain(q)
      /\ c \in Nat /\ c <= Len(q) /\ at[c] \in Nat /\ at[c] <= l /\ h \in Nat
    BY AlignedNumbers
<1>2. z \in Nat /\ z >= 4 /\ z <= 4 + MaxData
    BY <1>1, PacketSizes
<1>3. CASE at[c] = 0
    <2>1. /\ c + 1 \in c + 1..Len(q)
          /\ at[c + 1] = BytesOf(q[c + 1])
          /\ IsPacket(s, q, c + 1)
        BY <1>3, FirstPacket
    <2>2. PICK k \in Nat : k = c + 1
        BY <1>1
    <2>3. c <= k /\ k <= Len(q) /\ IsPacket(s, q, k) /\ at[k] = z
        <3>1. at[k] = z
            BY <2>1, <2>2 DEF IsPacket
        <3>2. c <= k
            BY <1>1, <2>2
        <3>3. k <= Len(q)
            BY <2>1, <2>2
        <3> QED
            BY <2>1, <2>2, <3>1, <3>2, <3>3
    <2>4. Before(t, k, h, Shifted(at, z))
        <3>1. z >= z /\ z - z = 0
            BY <1>2
        <3>2. Shifted(at, z)[k] = 0
            BY <2>3, <3>1 DEF Shifted
        <3>3. 1..0 = {}
            OBVIOUS
        <3> QED
            BY <3>2, <3>3 DEF Before
    <2>5. z <= at[k]
        BY <1>2, <2>3
    <2>6. Aligned(t, l - z, q, h, k, Shifted(at, z))
        BY <1>2, <2>3, <2>4, <2>5, AlignedAfter
    <2> QED
        BY <2>2, <2>3, <2>6
<1>4. CASE at[c] # 0
    <2>1. c = h /\ at[c] >= 4
        BY <1>4, FalseHeader
    <2>2. CASE z <= at[c]
        <3>1. Before(t, c, h, Shifted(at, z))
            BY <1>1, <1>2, <2>2, SkipBefore
        <3>2. c <= c
            BY <1>1
        <3>3. Aligned(t, l - z, q, h, c, Shifted(at, z))
            BY <1>1, <1>2, <2>2, <3>1, <3>2, AlignedAfter
        <3> QED
            BY <1>1, <3>3
    <2>3. CASE ~(z <= at[c])
        <3>1. at[c] < z
            BY <1>1, <1>2, <2>3
        <3>2. InSome(s, q, c, at, z)
            BY <1>1, <1>2, <3>1, Located
        <3>3. PICK k \in c + 1..Len(q) : at[k - 1] < z /\ z <= at[k]
            BY <3>2 DEF InSome
        <3>4. Whole(s, l, q, c, at, k)
            BY <1>1, PacketAt
        <3>5. k \in Nat /\ k - 1 \in c..Len(q) /\ k \in 1..Len(q) /\ at[k - 1] \in Nat
            BY <3>4 DEF Whole
        <3>6. Plain(q[k])
            BY <1>1, <3>5 DEF AllPlain
        <3>7. Before(t, k, h, Shifted(at, z))
            BY <1>1, <1>2, <3>3, <3>6, JumpBefore
        <3>8. c <= k /\ k <= Len(q)
            BY <1>1, <3>5
        <3>9. Aligned(t, l - z, q, h, k, Shifted(at, z))
            BY <1>2, <3>3, <3>5, <3>7, <3>8, AlignedAfter
        <3>10. k <= h + Swallowed
            <4>1. PICK j \in Nat : j = k - 1
                BY <1>1, <3>5
            <4>2. c \in c..Len(q) /\ j \in c..Len(q) /\ c <= j
                BY <1>1, <3>5, <4>1
            <4>3. at[c] + HeaderSize * (j - c) <= at[j]
                BY <1>1, <4>2 DEF Behind
            <4>4. PICK x \in Nat, y \in Nat : x = at[c] /\ y = at[j]
                BY <1>1, <4>1
            <4>5. y < z /\ x >= 4 /\ x + 4 * (j - h) <= y
                BY <2>1, <3>3, <4>1, <4>3, <4>4 DEF HeaderSize
            <4>6. x + 4 * (j - h) < 4 + MaxData
                <5>1. PICK d \in Int : d = 4 * (j - h)
                    BY <1>1, <4>1
                <5>2. PICK mx \in Nat : mx = MaxData
                    BY SizeAssumption
                <5>3. x + d < 4 + mx
                    BY <1>2, <4>5, <5>1, <5>2
                <5> QED
                    BY <5>1, <5>2, <5>3
            <4>7. h <= j
                BY <2>1, <4>2
            <4>8. j + 1 <= h + Swallowed
                BY <1>1, <4>5, <4>6, <4>7, SwallowedNumbers
            <4>9. j + 1 = k
                BY <3>5, <4>1
            <4> QED
                BY <4>8, <4>9
        <3> QED
            BY <3>5, <3>9, <3>10
    <2> QED
        BY <2>2, <2>3
<1> QED
    BY <1>3, <1>4

\* The first byte behind the first a + z.
LEMMA LastLost ==
    ASSUME NEW a \in Nat, NEW z \in Nat, z # 0, NEW l \in Nat, a + z <= l
    PROVE  a + z \in Nat /\ a + z \in 1..l /\ \A g \in Nat : a + z <= g => a + z \in 1..g
    OBVIOUS

\* The last packet that is damaged, if c is the one before those ahead.
LEMMA LastDamaged ==
    ASSUME NEW c \in Nat, NEW h \in Nat, h <= c, NEW y \in Nat
    PROVE  /\ y <= c /\ (c > h => y = c) => c = IF y > h THEN y ELSE h
           /\ \A m \in Nat : y \in c + 1..m => y \in c..m /\ y = IF y > h THEN y ELSE h
    OBVIOUS

\* Bytes are lost: packets are damaged up to that of the last one of them.
LEMMA LostAligned ==
    ASSUME NEW s, NEW l, NEW q, NEW h, NEW c, NEW at, Aligned(s, l, q, h, c, at),
           NEW t, NEW a \in Nat, NEW z \in Nat, z # 0, a + z <= l, Cut(s, l, t, a, z),
           SameUpTo(s, t, a), NEW g, g = IF s[a + z].n > h THEN s[a + z].n ELSE h
    PROVE  \E new : Aligned(t, l - z, q, g, g, new)
<1>1. /\ Behind(s, l, q, c, at) /\ Before(s, c, h, at) /\ Labelled(s, l)
      /\ l \in Nat /\ Len(q) \in Nat /\ at \in [Nat -> Nat] /\ AllPlain(q) /\ c \in c..Len(q)
      /\ c \in Nat /\ c <= Len(q) /\ at[c] \in Nat /\ at[c] <= l /\ h \in Nat /\ h <= c
    BY AlignedNumbers
<1>2. PICK x \in Nat : x = a + z /\ x \in 1..l
    BY <1>1, LastLost
<1>3. PICK y \in Nat : y = s[x].n
    BY <1>1, <1>2 DEF Labelled
<1>0. PICK d \in Nat, e \in Nat, m \in Nat : d = c /\ e = h /\ m = Len(q) /\ e <= d
    BY <1>1
<1>4. g = IF y > e THEN y ELSE e
    BY <1>0, <1>2, <1>3
<1>5. Labelled(t, l - z)
    BY <1>1, CutLabelled
<1>6. ASSUME NEW k \in c..Len(q), x <= at[k], k = g, k \in Nat
      PROVE  \E new : Aligned(t, l - z, q, g, g, new)
    <2>1. a + z <= at[k]
        BY <1>2, <1>6
    <2>2. Before(t, k, k, Shifted(at, z))
        BY <1>1, <1>6, <2>1, LostBefore
    <2>3. Behind(t, l - z, q, k, Shifted(at, z))
        BY <1>1, <1>6, <2>1, CutBehind
    <2>4. k <= k
        BY <1>6
    <2> QED
        BY <1>1, <1>5, <1>6, <2>2, <2>3, <2>4 DEF Aligned
<1>7. CASE x <= at[c]
    <2>1. x \in 1..at[c]
        BY <1>1, <1>2, <1>7
    <2>2. y <= c /\ (c > h => y = c)
        <3>1. s[x].n <= c /\ (c > h => s[x].n = c)
            BY <1>1, <2>1 DEF Before
        <3> QED
            BY <1>3, <3>1
    <2>4. y <= d /\ (d > e => y = d)
        BY <1>0, <2>2
    <2>5. d = IF y > e THEN y ELSE e
        BY <1>0, <2>4, LastDamaged
    <2>3. c = g
        BY <1>0, <1>4, <2>5
    <2> QED
        BY <1>1, <1>6, <1>7, <2>3
<1>8. CASE ~(x <= at[c])
    <2>1. at[c] < x /\ x <= l
        BY <1>1, <1>2, <1>8
    <2>2. InSome(s, q, c, at, x)
        BY <1>1, <1>2, <2>1, Located
    <2>3. PICK k \in c + 1..Len(q) :
             x <= at[k] /\ s[x] = [b |-> Encoded(q[k])[x - at[k - 1]], n |-> k]
        BY <2>2 DEF InSome
    <2>4. y = k
        BY <1>3, <2>3
    <2>0. y \in d + 1..m
        BY <1>0, <2>4
    <2>7. y \in d..m /\ y = IF y > e THEN y ELSE e
        BY <1>0, <2>0, LastDamaged
    <2>5. k \in Nat /\ k \in c..Len(q)
        BY <1>0, <2>4, <2>7
    <2>6. k = g
        BY <1>4, <2>4, <2>7
    <2> QED
        BY <1>6, <2>3, <2>5, <2>6
<1> QED
    BY <1>7, <1>8

\* Packets up to the last one are damaged.
LEMMA DamagedAligned ==
    ASSUME NEW s, NEW l \in Nat, NEW q \in Seq(Packets), AllPlain(q), Labelled(s, l),
           \A i \in 1..l : s[i].n <= Len(q)
    PROVE  \E new : Aligned(s, l, q, Len(q), Len(q), new)
<1>1. PICK m \in Nat : m = Len(q) /\ m <= m
    OBVIOUS
<1>2. PICK at : Behind(s, l, q, m, at) /\ Before(s, m, m, at)
    BY <1>1, AllDamaged
<1> QED
    BY <1>1, <1>2 DEF Aligned

\* All numbers are those of packets that were sent.
LEMMA AlignedLabels ==
    ASSUME NEW s, NEW l, NEW q, NEW h, NEW c, NEW at, Aligned(s, l, q, h, c, at)
    PROVE  \A i \in 1..l : s[i].n <= Len(q)
<1>1. /\ Behind(s, l, q, c, at) /\ Before(s, c, h, at) /\ Labelled(s, l)
      /\ Len(q) \in Nat /\ c \in Nat /\ c <= Len(q)
    BY AlignedNumbers
<1>2. Len(q) \in c..Len(q) /\ at[Len(q)] = l
    BY <1>1 DEF Behind
<1>3. UpTo(s, l, at[Len(q)], Len(q))
    BY <1>1, <1>2, Labels
<1> QED
    BY <1>2, <1>3 DEF UpTo

\* A packet is sent whole.
LEMMA SentAligned ==
    ASSUME NEW s, NEW l, NEW q, NEW h, NEW c, NEW at, Aligned(s, l, q, h, c, at),
           NEW p \in Packets, Plain(p), NEW t,
           SameUpTo(s, t, l), Added(t, l, p, Len(q) + 1), Labelled(t, l + BytesOf(p))
    PROVE  \E new : Aligned(t, l + BytesOf(p), Append(q, p), h, c, new)
<1>1. /\ Behind(s, l, q, c, at) /\ Before(s, c, h, at) /\ AllPlain(q)
      /\ Len(q) \in Nat /\ q \in Seq(Packets) /\ h \in Nat /\ h <= c
    BY AlignedNumbers
<1>2. PICK new : Behind(t, l + BytesOf(p), Append(q, p), c, new) /\ Before(t, c, h, new)
    BY <1>1, SentBehind
<1>3. AllPlain(Append(q, p))
    <2>1. /\ Len(Append(q, p)) = Len(q) + 1 /\ Append(q, p)[Len(q) + 1] = p
          /\ \A k \in 1..Len(q) : Append(q, p)[k] = q[k]
        BY <1>1, AppendProperties
    <2>2. \A k \in 1..Len(q) + 1 : k \in 1..Len(q) \/ k = Len(q) + 1
        BY <1>1
    <2> QED
        BY <1>1, <2>1, <2>2 DEF AllPlain
<1> QED
    BY <1>1, <1>2, <1>3 DEF Aligned

\* When nothing is left to be done, what is ahead is at most the packets that
\* a false header may still swallow.
LEMMA StoppedAligned ==
    ASSUME NEW s, NEW l, NEW q, NEW h, NEW c, NEW at, Aligned(s, l, q, h, c, at),
           l >= 4 => HeaderIn(s) /\ ~(PacketSize(s) <= l)
    PROVE  Len(q) = c \/ Len(q) <= h + Swallowed
<1> SUFFICES ASSUME Len(q) # c PROVE Len(q) <= h + Swallowed
    OBVIOUS
<1>1. /\ Behind(s, l, q, c, at) /\ Labelled(s, l)
      /\ l \in Nat /\ Len(q) \in Nat /\ at \in [Nat -> Nat] /\ c \in c..Len(q)
      /\ c \in Nat /\ c <= Len(q) /\ at[c] \in Nat /\ at[c] <= l /\ h \in Nat /\ h <= c
    BY AlignedNumbers
<1>2. PICK m \in Nat, x \in Nat, n \in Nat : m = Len(q) /\ x = at[c] /\ n = l
    BY <1>1
<1>3. x + 4 * (m - c) <= n
    BY <1>1, <1>2, Ends DEF HeaderSize
<1>4. m > c
    BY <1>1, <1>2
<1>5. n >= 4
    BY <1>1, <1>3, <1>4
<1>6. HeaderIn(s) /\ ~(PacketSize(s) <= l) /\ l >= 4
    BY <1>2, <1>5
<1>7. PICK z \in Nat : z = PacketSize(s) /\ z <= 4 + MaxData
    BY <1>1, <1>6, PacketSizes
<1>8. x # 0
    <2>1. ASSUME at[c] = 0 PROVE FALSE
        <3>1. /\ c + 1 \in c + 1..Len(q)
              /\ at[c + 1] = BytesOf(q[c + 1])
              /\ IsPacket(s, q, c + 1)
            BY <1>6, <2>1, FirstPacket
        <3>2. at[c + 1] = PacketSize(s)
            BY <3>1 DEF IsPacket
        <3>3. at[c + 1] <= l
            <4>1. Whole(s, l, q, c, at, c + 1)
                BY <1>1, <3>1, PacketAt
            <4> QED
                BY <4>1 DEF Whole
        <3> QED
            BY <1>6, <3>2, <3>3
    <2> QED
        BY <1>2, <2>1
<1>9. c = h /\ x >= 4
    BY <1>2, <1>6, <1>8, FalseHeader
<1>10. x + 4 * (m - h) < 4 + MaxData
    <2>1. n < z
        BY <1>2, <1>6, <1>7
    <2>2. PICK d \in Int : d = 4 * (m - h)
        BY <1>1, <1>2
    <2>3. PICK mx \in Nat : mx = MaxData
        BY SizeAssumption
    <2>4. x + d <= n
        BY <1>3, <1>9, <2>2
    <2>5. x + d < 4 + mx
        BY <1>7, <2>1, <2>3, <2>4
    <2> QED
        BY <2>2, <2>3, <2>5
<1>11. h <= m
    <2>1. c <= m
        BY <1>1, <1>2
    <2> QED
        BY <1>9, <2>1
<1>12. m + 1 <= h + Swallowed
    BY <1>1, <1>9, <1>10, <1>11, SwallowedNumbers
<1>13. Swallowed \in Nat
    <2>1. PICK mx \in Nat : mx = MaxData
        BY SizeAssumption
    <2>2. mx \div 4 + 1 \in Nat
        OBVIOUS
    <2> QED
        BY <2>1, <2>2 DEF Swallowed, HeaderSize
<1> QED
    BY <1>1, <1>2, <1>12, <1>13

-----------------------------------------------------------------------------
(* The bytes that the receiver has not looked at.                            *)

\* Those of buffer b behind its first h bytes, and those of wire w.
LengthOf(b, h, w) == (Len(b) - h) + Len(w)
StreamOf(b, h, w) ==
    [i \in 1..LengthOf(b, h, w) |-> IF i <= Len(b) - h THEN b[h + i] ELSE w[i - (Len(b) - h)]]
Buffered(b, h, w) ==
    b \in Seq(LabelledBytes) /\ w \in Seq(LabelledBytes) /\ h \in Nat /\ h <= Len(b)

\* The rest of a sequence.
LEMMA Dropped ==
    ASSUME NEW S, NEW w \in Seq(S), NEW k \in Nat, k <= Len(w)
    PROVE  /\ SubSeq(w, k + 1, Len(w)) \in Seq(S)
           /\ Len(SubSeq(w, k + 1, Len(w))) = Len(w) - k
           /\ \A i \in 1..Len(w) - k : SubSeq(w, k + 1, Len(w))[i] = w[k + i]
<1>1. PICK m \in Nat : m = Len(w)
    OBVIOUS
<1>2. k + 1 \in 1..m + 1 /\ m \in (k + 1) - 1..m /\ m - (k + 1) + 1 = m - k
    BY <1>1
<1>3. SubSeq(w, k + 1, m) \in Seq(S) /\ Len(SubSeq(w, k + 1, m)) = m - k
    BY <1>1, <1>2, Part
<1>4. \A i \in 1..m - k : SubSeq(w, k + 1, m)[i] = w[(k + 1) + i - 1] /\ (k + 1) + i - 1 = k + i
    BY <1>1, <1>2, PartElements
<1> QED
    BY <1>1, <1>3, <1>4

\* The beginning of a sequence.
LEMMA Taken ==
    ASSUME NEW S, NEW w \in Seq(S), NEW k \in Nat, k <= Len(w)
    PROVE  /\ SubSeq(w, 1, k) \in Seq(S)
           /\ Len(SubSeq(w, 1, k)) = k
           /\ \A i \in 1..k : SubSeq(w, 1, k)[i] = w[i]
<1>1. PICK m \in Nat : m = Len(w)
    OBVIOUS
<1>2. 1 \in 1..m + 1 /\ k \in 1 - 1..m /\ k - 1 + 1 = k
    BY <1>1
<1>3. SubSeq(w, 1, k) \in Seq(S) /\ Len(SubSeq(w, 1, k)) = k
    BY <1>1, <1>2, Part
<1>4. \A i \in 1..k : SubSeq(w, 1, k)[i] = w[1 + i - 1] /\ 1 + i - 1 = i
    BY <1>1, <1>2, PartElements
<1> QED
    BY <1>3, <1>4

\* What remains of n bytes.
LEMMA Remains ==
    ASSUME NEW n \in Nat, NEW h \in Nat, h <= n
    PROVE  n - h \in Nat
    OBVIOUS

\* What is ahead, byte by byte.
LEMMA StreamBytes ==
    ASSUME NEW b, NEW h, NEW w, Buffered(b, h, w)
    PROVE  /\ Len(b) \in Nat /\ Len(w) \in Nat /\ Len(b) - h \in Nat
           /\ LengthOf(b, h, w) \in Nat /\ LengthOf(b, h, w) = (Len(b) - h) + Len(w)
           /\ \A i \in 1..Len(b) - h : StreamOf(b, h, w)[i] = b[h + i]
           /\ \A i \in 1..Len(w) : StreamOf(b, h, w)[(Len(b) - h) + i] = w[i]
           /\ Labelled(StreamOf(b, h, w), LengthOf(b, h, w))
<1>1. b \in Seq(LabelledBytes) /\ w \in Seq(LabelledBytes) /\ h \in Nat /\ h <= Len(b)
    BY DEF Buffered
<1>2. PICK n \in Nat, m \in Nat : n = Len(b) /\ m = Len(w)
    BY <1>1
<1>3. PICK x \in Nat : x = n - h
    <2>1. n - h \in Nat
        BY <1>1, <1>2, Remains
    <2> QED
        BY <2>1
<1>4. LengthOf(b, h, w) = x + m
    BY <1>2, <1>3 DEF LengthOf
<1>5. \A i \in 1..x + m : StreamOf(b, h, w)[i] = IF i <= x THEN b[h + i] ELSE w[i - x]
    BY <1>2, <1>3, <1>4 DEF StreamOf
<1>6. ASSUME NEW i \in 1..x PROVE StreamOf(b, h, w)[i] = b[h + i] /\ b[h + i] \in LabelledBytes
    <2>1. i \in 1..x + m /\ i <= x
        OBVIOUS
    <2>2. h + i \in 1..n
        BY <1>1, <1>3
    <2> QED
        BY <1>1, <1>2, <1>5, <2>1, <2>2
<1>7. ASSUME NEW i \in 1..m PROVE StreamOf(b, h, w)[x + i] = w[i] /\ w[i] \in LabelledBytes
    <2>1. x + i \in 1..x + m /\ ~(x + i <= x) /\ (x + i) - x = i
        OBVIOUS
    <2> QED
        BY <1>1, <1>2, <1>5, <2>1
<1>8. ASSUME NEW i \in 1..x + m PROVE StreamOf(b, h, w)[i] \in LabelledBytes
    <2>1. CASE i <= x
        <3>1. i \in 1..x
            BY <2>1
        <3> QED
            BY <1>6, <3>1
    <2>2. CASE ~(i <= x)
        <3>1. i - x \in 1..m /\ x + (i - x) = i
            BY <2>2
        <3> QED
            BY <1>7, <3>1
    <2> QED
        BY <2>1, <2>2
<1>9. Labelled(StreamOf(b, h, w), x + m)
    <2>1. \A y \in LabelledBytes : y.n \in Nat /\ y.b \in Nat
        BY SizeAssumption DEF LabelledBytes, Bytes
    <2> QED
        BY <1>8, <2>1 DEF Labelled
<1> QED
    BY <1>1, <1>2, <1>3, <1>4, <1>6, <1>7, <1>9

\* A place after z bytes of the buffer, in numbers.
LEMMA Place ==
    ASSUME NEW x \in Nat, NEW m \in Nat, NEW z \in Nat, z <= x, NEW i \in 1..(x + m) - z
    PROVE  \/ /\ i \in 1..x - z /\ i + z \in 1..x
           \/ /\ i - (x - z) \in 1..m /\ (x - z) + (i - (x - z)) = i
              /\ x + (i - (x - z)) = i + z
    OBVIOUS

\* The receiver goes on by z bytes of the buffer.
LEMMA HeadMoves ==
    ASSUME NEW b, NEW h, NEW w, Buffered(b, h, w), NEW z \in Nat, z <= Len(b) - h
    PROVE  /\ Buffered(b, h + z, w)
           /\ LengthOf(b, h + z, w) = LengthOf(b, h, w) - z
           /\ z <= LengthOf(b, h, w)
           /\ Cut(StreamOf(b, h, w), LengthOf(b, h, w), StreamOf(b, h + z, w), 0, z)
<1>1. b \in Seq(LabelledBytes) /\ w \in Seq(LabelledBytes) /\ h \in Nat /\ h <= Len(b)
    BY DEF Buffered
<1>2. PICK n \in Nat, m \in Nat : n = Len(b) /\ m = Len(w)
    BY <1>1
<1>3. PICK x \in Nat : x = n - h /\ z <= x
    <2>1. n - h \in Nat
        BY <1>1, <1>2, Remains
    <2> QED
        BY <1>2, <2>1
<1>4. n - (h + z) = x - z /\ x - z \in Nat /\ h + z \in Nat /\ h + z <= n
    BY <1>1, <1>3
<1>5. Buffered(b, h + z, w)
    BY <1>1, <1>2, <1>4 DEF Buffered
<1>6. PICK s, t : s = StreamOf(b, h, w) /\ t = StreamOf(b, h + z, w)
    OBVIOUS
<1>7. /\ LengthOf(b, h, w) = x + m
      /\ \A i \in 1..x : s[i] = b[h + i]
      /\ \A i \in 1..m : s[x + i] = w[i]
    BY <1>2, <1>3, <1>6, StreamBytes
<1>8. /\ LengthOf(b, h + z, w) = (x - z) + m
      /\ \A i \in 1..x - z : t[i] = b[(h + z) + i]
      /\ \A i \in 1..m : t[(x - z) + i] = w[i]
    <2>1. PICK g : g = h + z
        OBVIOUS
    <2>2. Buffered(b, g, w) /\ Len(b) - g = x - z /\ t = StreamOf(b, g, w)
        BY <1>2, <1>4, <1>5, <1>6, <2>1
    <2>3. /\ LengthOf(b, g, w) = (x - z) + m
          /\ \A i \in 1..x - z : t[i] = b[g + i]
          /\ \A i \in 1..m : t[(x - z) + i] = w[i]
        <3>1. /\ LengthOf(b, g, w) = (Len(b) - g) + Len(w)
              /\ \A i \in 1..Len(b) - g : StreamOf(b, g, w)[i] = b[g + i]
              /\ \A i \in 1..Len(w) : StreamOf(b, g, w)[(Len(b) - g) + i] = w[i]
            <4>1. Buffered(b, g, w)
                BY <2>2
            <4> QED
                BY <4>1, StreamBytes
        <3> QED
            BY <1>2, <2>2, <3>1
    <2> QED
        BY <2>1, <2>3
<1>9. ASSUME NEW i \in 0 + 1..(x + m) - z PROVE t[i] = s[i + z]
    <2>0. i \in 1..(x + m) - z
        OBVIOUS
    <2>1. CASE i \in 1..x - z /\ i + z \in 1..x
        <3>1. (h + z) + i = h + (i + z)
            BY <1>1
        <3> QED
            BY <1>7, <1>8, <2>1, <3>1
    <2>2. CASE /\ i - (x - z) \in 1..m /\ (x - z) + (i - (x - z)) = i
               /\ x + (i - (x - z)) = i + z
        <3>1. PICK j \in 1..m : j = i - (x - z)
            BY <2>2
        <3>2. t[i] = w[j] /\ s[i + z] = w[j]
            BY <1>7, <1>8, <2>2, <3>1
        <3> QED
            BY <3>2
    <2> QED
        BY <1>3, <2>0, <2>1, <2>2, Place
<1>10. Cut(s, x + m, t, 0, z)
    BY <1>9 DEF Cut
<1>11. (x - z) + m = (x + m) - z /\ z <= x + m
    BY <1>3
<1> QED
    BY <1>5, <1>6, <1>7, <1>8, <1>10, <1>11

\* The bytes of buffer a behind its first g bytes, and those of wire v.
Reads(s, a, g, v) ==
    /\ \A i \in 1..Len(a) - g : s[i] = a[g + i]
    /\ \A i \in 1..Len(v) : s[(Len(a) - g) + i] = v[i]

\* Streams of the same bytes are the same.
LEMMA StreamSame ==
    ASSUME NEW b, NEW h, NEW w, Buffered(b, h, w), NEW a, NEW g, NEW v, Buffered(a, g, v),
           LengthOf(a, g, v) = LengthOf(b, h, w), Reads(StreamOf(b, h, w), a, g, v)
    PROVE  StreamOf(a, g, v) = StreamOf(b, h, w)
<1>1. PICK x \in Nat, m \in Nat : x = Len(a) - g /\ m = Len(v) /\ LengthOf(a, g, v) = x + m
    BY StreamBytes
<1>2. PICK s, t : s = StreamOf(b, h, w) /\ t = StreamOf(a, g, v)
    OBVIOUS
<1>3. /\ \A i \in 1..x : t[i] = a[g + i] /\ s[i] = a[g + i]
      /\ \A i \in 1..m : t[x + i] = v[i] /\ s[x + i] = v[i]
    <2>1. /\ \A i \in 1..Len(a) - g : StreamOf(a, g, v)[i] = a[g + i]
          /\ \A i \in 1..Len(v) : StreamOf(a, g, v)[(Len(a) - g) + i] = v[i]
        BY StreamBytes
    <2>2. /\ \A i \in 1..x : t[i] = a[g + i]
          /\ \A i \in 1..m : t[x + i] = v[i]
        BY <1>1, <1>2, <2>1
    <2>3. /\ \A i \in 1..x : s[i] = a[g + i]
          /\ \A i \in 1..m : s[x + i] = v[i]
        BY <1>1, <1>2 DEF Reads
    <2> QED
        BY <2>2, <2>3
<1>4. ASSUME NEW i \in 1..x + m PROVE t[i] = s[i]
    <2>1. CASE i \in 1..x
        BY <1>1, <1>2, <1>3, <2>1
    <2>2. CASE i \notin 1..x
        <3>1. PICK j \in 1..m : x + j = i
            <4>1. i - x \in 1..m /\ x + (i - x) = i
                BY <2>2
            <4> QED
                BY <4>1
        <3> QED
            BY <1>1, <1>2, <1>3, <3>1
    <2> QED
        BY <2>1, <2>2
<1>5. s = [i \in 1..x + m |-> s[i]] /\ t = [i \in 1..x + m |-> t[i]]
    BY <1>1, <1>2 DEF StreamOf
<1> QED
    BY <1>2, <1>4, <1>5

\* r is what is left of b without its first k bytes, f are the first k of them,
\* and u is w with v behind it.
RestOf(r, b, k) == r = SubSeq(b, k + 1, Len(b))
FirstOf(f, b, k) == f = SubSeq(b, 1, k)
JoinOf(u, w, v) == u = w \o v

\* Stream s of l bytes in numbers.
View(s, l, b, h, w, n, m, x) ==
    /\ n \in Nat /\ m \in Nat /\ x \in Nat
    /\ n = Len(b) /\ m = Len(w) /\ x = Len(b) - h /\ h \in Nat /\ h + x = n
    /\ b \in Seq(LabelledBytes) /\ w \in Seq(LabelledBytes)
    /\ l = x + m
    /\ \A i \in 1..x : s[i] = b[h + i]
    /\ \A i \in 1..m : s[x + i] = w[i]

\* A buffer and a wire in numbers.
LEMMA StreamNow ==
    ASSUME NEW b, NEW h, NEW w, Buffered(b, h, w)
    PROVE  \E n \in Nat, m \in Nat, x \in Nat : View(StreamOf(b, h, w), LengthOf(b, h, w), b, h, w, n, m, x)
<1>1. b \in Seq(LabelledBytes) /\ w \in Seq(LabelledBytes) /\ h \in Nat /\ h <= Len(b)
    BY DEF Buffered
<1>2. PICK n \in Nat, m \in Nat, x \in Nat : n = Len(b) /\ m = Len(w) /\ x = Len(b) - h
    BY StreamBytes
<1>3. /\ LengthOf(b, h, w) = (Len(b) - h) + Len(w)
      /\ \A i \in 1..Len(b) - h : StreamOf(b, h, w)[i] = b[h + i]
      /\ \A i \in 1..Len(w) : StreamOf(b, h, w)[(Len(b) - h) + i] = w[i]
    BY StreamBytes
<1>4. h + x = n
    <2>1. PICK g \in Nat : g = h
        BY <1>1
    <2>2. x = n - g
        BY <1>2, <2>1
    <2>3. g + x = n
        BY <2>2
    <2> QED
        BY <2>1, <2>3
<1>5. /\ LengthOf(b, h, w) = x + m
      /\ \A i \in 1..x : StreamOf(b, h, w)[i] = b[h + i]
      /\ \A i \in 1..m : StreamOf(b, h, w)[x + i] = w[i]
    BY <1>2, <1>3
<1>6. View(StreamOf(b, h, w), LengthOf(b, h, w), b, h, w, n, m, x)
    BY <1>1, <1>2, <1>4, <1>5 DEF View
<1> QED
    BY <1>6

\* The rest of the buffer is moved to its front.
LEMMA RestMoves ==
    ASSUME NEW b, NEW h, NEW w, Buffered(b, h, w), NEW r, RestOf(r, b, h)
    PROVE  /\ Buffered(r, 0, w)
           /\ Len(r) = Len(b) - h
           /\ LengthOf(r, 0, w) = LengthOf(b, h, w)
           /\ StreamOf(r, 0, w) = StreamOf(b, h, w)
<1>0. PICK n \in Nat, m \in Nat, x \in Nat :
         View(StreamOf(b, h, w), LengthOf(b, h, w), b, h, w, n, m, x)
    BY StreamNow
<1>1. /\ n = Len(b) /\ m = Len(w) /\ x = Len(b) - h /\ h \in Nat /\ h + x = n
      /\ b \in Seq(LabelledBytes) /\ w \in Seq(LabelledBytes)
      /\ LengthOf(b, h, w) = x + m
      /\ \A i \in 1..x : StreamOf(b, h, w)[i] = b[h + i]
      /\ \A i \in 1..m : StreamOf(b, h, w)[x + i] = w[i]
    BY <1>0 DEF View
<1>2. b \in Seq(LabelledBytes) /\ h \in Nat /\ h <= Len(b)
    BY DEF Buffered
<1>3. /\ r \in Seq(LabelledBytes) /\ Len(r) = Len(b) - h
      /\ \A i \in 1..Len(b) - h : r[i] = b[h + i]
    BY <1>2, Dropped DEF RestOf
<1>4. Len(r) = x /\ x - 0 = x /\ 0 \in Nat /\ 0 <= x
    BY <1>1, <1>3
<1>5. Buffered(r, 0, w)
    BY <1>1, <1>3, <1>4 DEF Buffered
<1>6. LengthOf(r, 0, w) = LengthOf(b, h, w)
    BY <1>1, <1>4 DEF LengthOf
<1>7. \A i \in 1..Len(r) - 0 : StreamOf(b, h, w)[i] = r[0 + i]
    <2>1. \A i \in 1..x : 0 + i = i
        BY <1>1
    <2> QED
        BY <1>1, <1>3, <1>4, <2>1
<1>8. Reads(StreamOf(b, h, w), r, 0, w)
    BY <1>1, <1>4, <1>7 DEF Reads
<1>9. StreamOf(r, 0, w) = StreamOf(b, h, w)
    BY <1>5, <1>6, <1>8, StreamSame
<1> QED
    BY <1>3, <1>5, <1>6, <1>9

\* Bytes are received: they move from the wire to the buffer.
LEMMA ReceivedMoves ==
    ASSUME NEW b, NEW h, NEW w, Buffered(b, h, w), NEW k \in Nat, k <= Len(w),
           NEW f, FirstOf(f, w, k), NEW a, JoinOf(a, b, f), NEW v, RestOf(v, w, k)
    PROVE  /\ Buffered(a, h, v)
           /\ LengthOf(a, h, v) = LengthOf(b, h, w)
           /\ StreamOf(a, h, v) = StreamOf(b, h, w)
<1>0. PICK n \in Nat, m \in Nat, x \in Nat :
         View(StreamOf(b, h, w), LengthOf(b, h, w), b, h, w, n, m, x)
    BY StreamNow
<1>1. /\ n = Len(b) /\ m = Len(w) /\ x = Len(b) - h /\ h \in Nat /\ h + x = n
      /\ b \in Seq(LabelledBytes) /\ w \in Seq(LabelledBytes)
      /\ LengthOf(b, h, w) = x + m
      /\ \A i \in 1..x : StreamOf(b, h, w)[i] = b[h + i]
      /\ \A i \in 1..m : StreamOf(b, h, w)[x + i] = w[i]
    BY <1>0 DEF View
<1>2. PICK g \in Nat : g = h
    BY <1>1
<1>4. f \in Seq(LabelledBytes) /\ Len(f) = k /\ \A i \in 1..k : f[i] = w[i]
    BY <1>1, Taken DEF FirstOf
<1>5. /\ v \in Seq(LabelledBytes) /\ Len(v) = m - k
      /\ \A i \in 1..m - k : v[i] = w[k + i]
    BY <1>1, Dropped DEF RestOf
<1>6. /\ a \in Seq(LabelledBytes) /\ Len(a) = n + k
      /\ \A i \in 1..n : a[i] = b[i]
      /\ \A j \in 1..k : a[n + j] = w[j]
    <2>1. /\ b \o f \in Seq(LabelledBytes) /\ Len(b \o f) = Len(b) + Len(f)
          /\ \A i \in 1..Len(b) : (b \o f)[i] = b[i]
          /\ \A j \in 1..Len(f) : (b \o f)[Len(b) + j] = f[j]
        <3>1. b \in Seq(LabelledBytes) /\ f \in Seq(LabelledBytes)
            BY <1>1, <1>4
        <3> QED
            BY <3>1, Joined
    <2> QED
        BY <1>1, <1>4, <2>1 DEF JoinOf
<1>7. k <= m /\ g + x = n
    BY <1>1, <1>2
<1>8. /\ g <= n + k /\ (n + k) - g = x + k /\ (x + k) + (m - k) = x + m
      /\ \A i \in 1..x : g + i \in 1..n
      /\ \A i \in 1..x + k : i \notin 1..x => i - x \in 1..k /\ x + (i - x) = i
                                               /\ i - x \in 1..m /\ n + (i - x) = g + i
      /\ \A i \in 1..m - k : k + i \in 1..m /\ x + (k + i) = (x + k) + i
    BY <1>7
<1>9. Buffered(a, h, v)
    BY <1>1, <1>2, <1>5, <1>6, <1>8 DEF Buffered
<1>10. Len(a) - h = x + k
    BY <1>2, <1>6, <1>8
<1>11. LengthOf(a, h, v) = LengthOf(b, h, w)
    BY <1>1, <1>5, <1>8, <1>10 DEF LengthOf
<1>12. ASSUME NEW i \in 1..x + k PROVE StreamOf(b, h, w)[i] = a[h + i]
    <2>1. CASE i \in 1..x
        BY <1>1, <1>2, <1>6, <1>8, <2>1
    <2>2. CASE i \notin 1..x
        <3>1. PICK j \in 1..k : j \in 1..m /\ x + j = i /\ n + j = h + i
            BY <1>2, <1>8, <2>2
        <3> QED
            BY <1>1, <1>6, <3>1
    <2> QED
        BY <2>1, <2>2
<1>13. ASSUME NEW i \in 1..m - k PROVE StreamOf(b, h, w)[(x + k) + i] = v[i]
    <2>1. PICK j \in 1..m : j = k + i /\ x + j = (x + k) + i
        BY <1>8
    <2> QED
        BY <1>1, <1>5, <2>1
<1>14. Reads(StreamOf(b, h, w), a, h, v)
    BY <1>5, <1>10, <1>12, <1>13 DEF Reads
<1>15. StreamOf(a, h, v) = StreamOf(b, h, w)
    BY <1>9, <1>11, <1>14, StreamSame
<1> QED
    BY <1>9, <1>11, <1>15

\* Bytes of the wire are lost.
LEMMA LostMoves ==
    ASSUME NEW b, NEW h, NEW w, Buffered(b, h, w), NEW z \in Nat, z # 0, z <= Len(w),
           NEW v, RestOf(v, w, z), NEW a, a = Len(b) - h
    PROVE  /\ Buffered(b, h, v)
           /\ a \in Nat /\ a + z <= LengthOf(b, h, w)
           /\ LengthOf(b, h, v) = LengthOf(b, h, w) - z
           /\ Cut(StreamOf(b, h, w), LengthOf(b, h, w), StreamOf(b, h, v), a, z)
           /\ SameUpTo(StreamOf(b, h, w), StreamOf(b, h, v), a)
           /\ StreamOf(b, h, w)[a + z] = w[z]
<1>0. PICK n \in Nat, m \in Nat, x \in Nat :
         View(StreamOf(b, h, w), LengthOf(b, h, w), b, h, w, n, m, x)
    BY StreamNow
<1>1. /\ n = Len(b) /\ m = Len(w) /\ x = Len(b) - h /\ h \in Nat /\ h + x = n
      /\ b \in Seq(LabelledBytes) /\ w \in Seq(LabelledBytes)
      /\ LengthOf(b, h, w) = x + m
      /\ \A i \in 1..x : StreamOf(b, h, w)[i] = b[h + i]
      /\ \A i \in 1..m : StreamOf(b, h, w)[x + i] = w[i]
    BY <1>0 DEF View
<1>2. /\ v \in Seq(LabelledBytes) /\ Len(v) = m - z
      /\ \A i \in 1..m - z : v[i] = w[z + i]
    BY <1>1, Dropped DEF RestOf
<1>3. Buffered(b, h, v)
    BY <1>1, <1>2 DEF Buffered
<1>4. PICK s, t : s = StreamOf(b, h, w) /\ t = StreamOf(b, h, v)
    OBVIOUS
<1>5. /\ LengthOf(b, h, v) = x + (m - z)
      /\ \A i \in 1..x : t[i] = b[h + i]
      /\ \A i \in 1..m - z : t[x + i] = v[i]
    <2>1. PICK n2 \in Nat, m2 \in Nat, x2 \in Nat :
             View(StreamOf(b, h, v), LengthOf(b, h, v), b, h, v, n2, m2, x2)
        BY <1>3, StreamNow
    <2>2. /\ x2 = x /\ m2 = Len(v)
          /\ LengthOf(b, h, v) = x2 + m2
          /\ \A i \in 1..x2 : StreamOf(b, h, v)[i] = b[h + i]
          /\ \A i \in 1..m2 : StreamOf(b, h, v)[x2 + i] = v[i]
        BY <1>1, <2>1 DEF View
    <2> QED
        BY <1>2, <1>4, <2>2
<1>6. z <= m
    BY <1>1
<1>7. /\ x + (m - z) = (x + m) - z /\ x + z <= x + m /\ z \in 1..m
      /\ \A i \in x + 1..(x + m) - z : /\ i - x \in 1..m - z /\ x + (i - x) = i
                                       /\ z + (i - x) \in 1..m /\ x + (z + (i - x)) = i + z
    BY <1>6
<1>8. ASSUME NEW i \in x + 1..(x + m) - z PROVE t[i] = s[i + z]
    <2>1. PICK j \in 1..m - z : x + j = i /\ z + j \in 1..m /\ x + (z + j) = i + z
        BY <1>7
    <2>2. t[i] = w[z + j]
        BY <1>2, <1>5, <2>1
    <2>3. s[x + (z + j)] = w[z + j]
        BY <1>1, <1>4, <2>1
    <2> QED
        BY <2>1, <2>2, <2>3
<1>9. Cut(s, x + m, t, x, z) /\ SameUpTo(s, t, x) /\ s[x + z] = w[z]
    BY <1>1, <1>4, <1>5, <1>7, <1>8 DEF Cut, SameUpTo
<1> QED
    BY <1>1, <1>3, <1>4, <1>5, <1>7, <1>9

\* Bytes are sent: they come behind all others.
LEMMA SentMoves ==
    ASSUME NEW b, NEW h, NEW w, Buffered(b, h, w), NEW v \in Seq(LabelledBytes), NEW u, JoinOf(u, w, v)
    PROVE  /\ Buffered(b, h, u)
           /\ LengthOf(b, h, u) = LengthOf(b, h, w) + Len(v)
           /\ SameUpTo(StreamOf(b, h, w), StreamOf(b, h, u), LengthOf(b, h, w))
           /\ \A i \in 1..Len(v) : StreamOf(b, h, u)[LengthOf(b, h, w) + i] = v[i]
<1>0. PICK n \in Nat, m \in Nat, x \in Nat :
         View(StreamOf(b, h, w), LengthOf(b, h, w), b, h, w, n, m, x)
    BY StreamNow
<1>1. /\ n = Len(b) /\ m = Len(w) /\ x = Len(b) - h /\ h \in Nat /\ h + x = n
      /\ b \in Seq(LabelledBytes) /\ w \in Seq(LabelledBytes)
      /\ LengthOf(b, h, w) = x + m
      /\ \A i \in 1..x : StreamOf(b, h, w)[i] = b[h + i]
      /\ \A i \in 1..m : StreamOf(b, h, w)[x + i] = w[i]
    BY <1>0 DEF View
<1>2. PICK k \in Nat : k = Len(v)
    OBVIOUS
<1>3. /\ u \in Seq(LabelledBytes) /\ Len(u) = m + k
      /\ \A i \in 1..m : u[i] = w[i]
      /\ \A j \in 1..k : u[m + j] = v[j]
    <2>1. /\ w \o v \in Seq(LabelledBytes) /\ Len(w \o v) = Len(w) + Len(v)
          /\ \A i \in 1..Len(w) : (w \o v)[i] = w[i]
          /\ \A j \in 1..Len(v) : (w \o v)[Len(w) + j] = v[j]
        <3>1. w \in Seq(LabelledBytes)
            BY <1>1
        <3> QED
            BY <3>1, Joined
    <2> QED
        BY <1>1, <1>2, <2>1 DEF JoinOf
<1>4. Buffered(b, h, u)
    BY <1>1, <1>3 DEF Buffered
<1>5. PICK s, t : s = StreamOf(b, h, w) /\ t = StreamOf(b, h, u)
    OBVIOUS
<1>6. /\ LengthOf(b, h, u) = x + (m + k)
      /\ \A i \in 1..x : t[i] = b[h + i]
      /\ \A i \in 1..m + k : t[x + i] = u[i]
    <2>1. PICK n2 \in Nat, m2 \in Nat, x2 \in Nat :
             View(StreamOf(b, h, u), LengthOf(b, h, u), b, h, u, n2, m2, x2)
        BY <1>4, StreamNow
    <2>2. /\ x2 = x /\ m2 = Len(u)
          /\ LengthOf(b, h, u) = x2 + m2
          /\ \A i \in 1..x2 : StreamOf(b, h, u)[i] = b[h + i]
          /\ \A i \in 1..m2 : StreamOf(b, h, u)[x2 + i] = u[i]
        BY <1>1, <2>1 DEF View
    <2> QED
        BY <1>3, <1>5, <2>2
<1>7. /\ x + (m + k) = (x + m) + k
      /\ \A i \in 1..x + m : i \notin 1..x => i - x \in 1..m /\ i - x \in 1..m + k /\ x + (i - x) = i
      /\ \A i \in 1..k : m + i \in 1..m + k /\ x + (m + i) = (x + m) + i
    OBVIOUS
<1>8. ASSUME NEW i \in 1..x + m PROVE t[i] = s[i]
    <2>1. CASE i \in 1..x
        BY <1>1, <1>5, <1>6, <2>1
    <2>2. CASE i \notin 1..x
        <3>1. PICK j \in 1..m : j \in 1..m + k /\ x + j = i
            BY <1>7, <2>2
        <3> QED
            BY <1>1, <1>3, <1>5, <1>6, <3>1
    <2> QED
        BY <2>1, <2>2
<1>9. ASSUME NEW i \in 1..k PROVE t[(x + m) + i] = v[i]
    <2>1. PICK j \in 1..m + k : j = m + i /\ x + j = (x + m) + i
        BY <1>7
    <2> QED
        BY <1>3, <1>6, <2>1
<1> QED
    BY <1>1, <1>2, <1>4, <1>5, <1>6, <1>7, <1>8, <1>9 DEF SameUpTo

-----------------------------------------------------------------------------
(* Damaged connections.                                                      *)

\* All packets up to c but those that a damage may take with it are processed.
Passed(d, h, c) == \A k \in h + Swallowed + 1..c : \E i \in DOMAIN d : d[i] = k

\* Buffer b from h on and wire w; packets q, damaged up to g; d are processed.
Recovers(b, h, w, q, g, d) ==
    \E c, at : Aligned(StreamOf(b, h, w), LengthOf(b, h, w), q, g, c, at) /\ Passed(d, g, c)

Recovering == plain => Recovers(buffer, head, wire, sent, hurt, processed)

\* Between two receives there is no whole packet at the head of the buffer,
\* and nothing that is not a packet.
Stopped == ~scanning /\ Left >= HeaderSize => IsHeader /\ ~WholePacket

\* Up to the last damage nothing is promised.
LEMMA PassedNone ==
    ASSUME NEW d, NEW h \in Nat, NEW c \in Nat, c <= h + Swallowed
    PROVE  Passed(d, h, c)
<1>1. PICK y \in Nat : y = Swallowed
    <2>1. \A x \in Nat : x \div 4 + 1 \in Nat
        OBVIOUS
    <2> QED
        BY <2>1, SizeAssumption DEF Swallowed, HeaderSize
<1>2. h + Swallowed + 1..c = {}
    BY <1>1
<1> QED
    BY <1>2 DEF Passed

\* A damage.
LEMMA PassedSelf ==
    ASSUME NEW d, NEW h \in Nat
    PROVE  Passed(d, h, h)
<1>1. PICK y \in Nat : y = Swallowed
    <2>1. \A x \in Nat : x \div 4 + 1 \in Nat
        OBVIOUS
    <2> QED
        BY <2>1, SizeAssumption DEF Swallowed, HeaderSize
<1>2. h <= h + Swallowed
    BY <1>1
<1> QED
    BY <1>2, PassedNone

\* One more packet is processed.
LEMMA PassedMore ==
    ASSUME NEW S, NEW d \in Seq(S), NEW y \in S, NEW h \in Nat, NEW c \in Nat, Passed(d, h, c)
    PROVE  /\ Passed(Append(d, y), h, c)
           /\ y = c + 1 => Passed(Append(d, y), h, c + 1)
<1>1. PICK e : e = Append(d, y)
    OBVIOUS
<1>2. PICK n \in Nat : n = Len(d)
    OBVIOUS
<1>3. /\ DOMAIN d = 1..n /\ DOMAIN e = 1..n + 1
      /\ \A i \in 1..n : e[i] = d[i]
      /\ e[n + 1] = y
    BY <1>1, <1>2
<1>4. (\A i \in 1..n : i \in 1..n + 1) /\ n + 1 \in 1..n + 1
    OBVIOUS
<1>5. Passed(e, h, c)
    BY <1>3, <1>4 DEF Passed
<1>6. ASSUME y = c + 1 PROVE Passed(e, h, c + 1)
    <2>1. PICK x \in Nat : x = h + Swallowed + 1
        <3>1. \A v \in Nat : v \div 4 + 1 \in Nat
            OBVIOUS
        <3>2. PICK v \in Nat : v = Swallowed
            BY <3>1, SizeAssumption DEF Swallowed, HeaderSize
        <3> QED
            BY <3>2
    <2>2. SUFFICES ASSUME NEW k \in x..c + 1 PROVE \E i \in DOMAIN e : e[i] = k
        BY <2>1 DEF Passed
    <2>3. CASE k = c + 1
        BY <1>3, <1>4, <1>6, <2>3
    <2>4. CASE k # c + 1
        <3>1. k \in x..c
            BY <2>4
        <3> QED
            BY <1>5, <2>1, <3>1 DEF Passed
    <2> QED
        BY <2>3, <2>4
<1> QED
    BY <1>1, <1>5, <1>6

\* The header at the head of the buffer.
LEMMA HeaderAhead ==
    ASSUME NEW b, NEW h, NEW w, Buffered(b, h, w), Len(b) - h >= 4
    PROVE  /\ LengthOf(b, h, w) >= 4 /\ Len(b) - h <= LengthOf(b, h, w)
           /\ HeaderIn(StreamOf(b, h, w)) <=> b[h + 1].b = Magic /\ b[h + 4].b = MagicData
           /\ PacketSize(StreamOf(b, h, w)) = HeaderSize + (b[h + 3].b % (MaxData + 1))
           /\ PacketSize(StreamOf(b, h, w)) \in Nat
<1>1. PICK n \in Nat, m \in Nat, x \in Nat :
         View(StreamOf(b, h, w), LengthOf(b, h, w), b, h, w, n, m, x)
    BY StreamNow
<1>2. /\ x = Len(b) - h /\ LengthOf(b, h, w) = x + m
      /\ \A i \in 1..x : StreamOf(b, h, w)[i] = b[h + i]
    BY <1>1 DEF View
<1>3. 1 \in 1..x /\ 3 \in 1..x /\ 4 \in 1..x /\ x + m >= 4 /\ x <= x + m /\ x + m \in Nat
    BY <1>2
<1>4. /\ StreamOf(b, h, w)[1] = b[h + 1] /\ StreamOf(b, h, w)[3] = b[h + 3]
      /\ StreamOf(b, h, w)[4] = b[h + 4]
    BY <1>2, <1>3
<1>5. Labelled(StreamOf(b, h, w), LengthOf(b, h, w))
    BY StreamBytes
<1>6. PacketSize(StreamOf(b, h, w)) \in Nat
    BY <1>2, <1>3, <1>5, PacketSizes
<1> QED
    BY <1>2, <1>3, <1>4, <1>6 DEF HeaderIn, PacketSize

\* A byte is skipped.
LEMMA SkipRecovers ==
    ASSUME NEW b, NEW h, NEW w, NEW q, NEW g, NEW d, Buffered(b, h, w), Len(b) - h >= 4,
           Recovers(b, h, w, q, g, d), ~HeaderIn(StreamOf(b, h, w))
    PROVE  Recovers(b, h + 1, w, q, g, d)
<1>1. PICK c, at : Aligned(StreamOf(b, h, w), LengthOf(b, h, w), q, g, c, at) /\ Passed(d, g, c)
    BY DEF Recovers
<1>2. LengthOf(b, h, w) >= 4
    BY HeaderAhead
<1>3. 1 \in Nat /\ 1 <= Len(b) - h
    <2>1. PICK x \in Nat : x = Len(b) - h
        BY StreamBytes
    <2> QED
        BY <2>1
<1>4. PICK s, t, l, k : /\ s = StreamOf(b, h, w) /\ t = StreamOf(b, h + 1, w)
                        /\ l = LengthOf(b, h, w) /\ k = LengthOf(b, h + 1, w)
    OBVIOUS
<1>5. k = l - 1 /\ Cut(s, l, t, 0, 1)
    BY <1>3, <1>4, HeadMoves
<1>6. Aligned(t, l - 1, q, g, c, Shifted(at, 1))
    BY <1>1, <1>2, <1>4, <1>5, SkipAligned
<1> QED
    BY <1>1, <1>4, <1>5, <1>6 DEF Recovers

\* A packet is processed, whose number is y if it was sent.
LEMMA ProcessRecovers ==
    ASSUME NEW b, NEW h, NEW w, NEW q, NEW g, NEW S, NEW d \in Seq(S), NEW y \in S,
           Buffered(b, h, w), Len(b) - h >= 4, Recovers(b, h, w, q, g, d),
           HeaderIn(StreamOf(b, h, w)),
           NEW z, z = PacketSize(StreamOf(b, h, w)), z <= Len(b) - h,
           \A k : IsPacket(StreamOf(b, h, w), q, k) => y = k
    PROVE  Recovers(b, h + z, w, q, g, Append(d, y))
<1>1. PICK c, at : Aligned(StreamOf(b, h, w), LengthOf(b, h, w), q, g, c, at) /\ Passed(d, g, c)
    BY DEF Recovers
<1>2. LengthOf(b, h, w) >= 4 /\ z \in Nat
    BY HeaderAhead
<1>3. PICK s, t, l, k : /\ s = StreamOf(b, h, w) /\ t = StreamOf(b, h + z, w)
                        /\ l = LengthOf(b, h, w) /\ k = LengthOf(b, h + z, w)
    OBVIOUS
<1>4. k = l - z /\ z <= l /\ Cut(s, l, t, 0, z)
    BY <1>2, <1>3, HeadMoves
<1>5. PICK e \in Nat : /\ Aligned(t, l - z, q, g, e, Shifted(at, z))
                       /\ e = c \/ e <= g + Swallowed \/ (e = c + 1 /\ IsPacket(s, q, e))
    BY <1>1, <1>2, <1>3, <1>4, ProcessAligned
<1>6. c \in Nat /\ g \in Nat
    BY <1>1, AlignedNumbers
<1>7. Passed(Append(d, y), g, e)
    <2>1. CASE e = c
        BY <1>1, <1>6, <2>1, PassedMore
    <2>2. CASE e <= g + Swallowed
        BY <1>5, <1>6, <2>2, PassedNone
    <2>3. CASE e = c + 1 /\ IsPacket(s, q, e)
        <3>1. y = c + 1
            BY <1>3, <2>3
        <3> QED
            BY <1>1, <1>6, <2>3, <3>1, PassedMore
    <2> QED
        BY <1>5, <2>1, <2>2, <2>3
<1> QED
    BY <1>3, <1>4, <1>5, <1>7 DEF Recovers

\* Bytes that were not added to the buffer are lost.
LEMMA LostRecovers ==
    ASSUME NEW b, NEW h, NEW w, NEW q, NEW g, NEW d, Buffered(b, h, w), Recovers(b, h, w, q, g, d),
           NEW z \in Nat, z # 0, z <= Len(w), NEW v, RestOf(v, w, z),
           NEW f, f = IF w[z].n > g THEN w[z].n ELSE g
    PROVE  Recovers(b, h, v, q, f, d)
<1>1. PICK c, at : Aligned(StreamOf(b, h, w), LengthOf(b, h, w), q, g, c, at) /\ Passed(d, g, c)
    BY DEF Recovers
<1>2. PICK s, t, l, k, a : /\ s = StreamOf(b, h, w) /\ t = StreamOf(b, h, v)
                           /\ l = LengthOf(b, h, w) /\ k = LengthOf(b, h, v)
                           /\ a = Len(b) - h
    OBVIOUS
<1>3. /\ a \in Nat /\ a + z <= l /\ k = l - z
      /\ Cut(s, l, t, a, z) /\ SameUpTo(s, t, a) /\ s[a + z] = w[z]
    BY <1>2, LostMoves
<1>4. Aligned(s, l, q, g, c, at)
    BY <1>1, <1>2
<1>5. f = IF s[a + z].n > g THEN s[a + z].n ELSE g
    BY <1>3
<1>6. PICK new : Aligned(t, l - z, q, f, f, new)
    BY <1>3, <1>4, <1>5, LostAligned
<1>7. Passed(d, f, f)
    BY <1>6, AlignedNumbers, PassedSelf
<1> QED
    BY <1>2, <1>3, <1>6, <1>7 DEF Recovers

\* The rest is moved to the front of the buffer.
LEMMA RestRecovers ==
    ASSUME NEW b, NEW h, NEW w, NEW q, NEW g, NEW d, Buffered(b, h, w), Recovers(b, h, w, q, g, d),
           NEW r, RestOf(r, b, h)
    PROVE  Recovers(r, 0, w, q, g, d)
<1>1. LengthOf(r, 0, w) = LengthOf(b, h, w) /\ StreamOf(r, 0, w) = StreamOf(b, h, w)
    BY RestMoves
<1> QED
    BY <1>1 DEF Recovers

\* Bytes are received.
LEMMA ReceivedRecovers ==
    ASSUME NEW b, NEW h, NEW w, NEW q, NEW g, NEW d, Buffered(b, h, w), Recovers(b, h, w, q, g, d),
           NEW k \in Nat, k <= Len(w),
           NEW f, FirstOf(f, w, k), NEW a, JoinOf(a, b, f), NEW v, RestOf(v, w, k)
    PROVE  Recovers(a, h, v, q, g, d)
<1>1. LengthOf(a, h, v) = LengthOf(b, h, w) /\ StreamOf(a, h, v) = StreamOf(b, h, w)
    BY ReceivedMoves
<1> QED
    BY <1>1 DEF Recovers

\* A packet is sent whole.
LEMMA SentRecovers ==
    ASSUME NEW b, NEW h, NEW w, NEW q, NEW g, NEW d, Buffered(b, h, w), Recovers(b, h, w, q, g, d),
           NEW p \in Packets, Plain(p), Len(q) + 1 \in 0..MaxPackets,
           NEW u, NEW v, v = Numbered(Encoded(p), Len(q) + 1), JoinOf(u, w, v)
    PROVE  Recovers(b, h, u, Append(q, p), g, d)
<1>1. PICK c, at : Aligned(StreamOf(b, h, w), LengthOf(b, h, w), q, g, c, at) /\ Passed(d, g, c)
    BY DEF Recovers
<1>3. Encoded(p) \in Seq(Bytes) /\ Len(Encoded(p)) = BytesOf(p) /\ BytesOf(p) \in Nat
    BY EncodedPacket, BytesOfPacket
<1>4. v \in Seq(LabelledBytes)
    BY <1>3, NumberedBytes
<1>5. v = [i \in 1..BytesOf(p) |-> [b |-> Encoded(p)[i], n |-> Len(q) + 1]]
    <2>1. DOMAIN Encoded(p) = 1..BytesOf(p)
        BY <1>3
    <2> QED
        BY <2>1 DEF Numbered
<1>6. Len(v) = BytesOf(p) /\ \A i \in 1..BytesOf(p) : v[i] = [b |-> Encoded(p)[i], n |-> Len(q) + 1]
    BY <1>3, <1>4, <1>5
<1>7. PICK s, t, l, k : /\ s = StreamOf(b, h, w) /\ t = StreamOf(b, h, u)
                        /\ l = LengthOf(b, h, w) /\ k = LengthOf(b, h, u)
    OBVIOUS
<1>8. /\ Buffered(b, h, u) /\ k = l + Len(v) /\ SameUpTo(s, t, l)
      /\ \A i \in 1..Len(v) : t[l + i] = v[i]
    BY <1>4, <1>7, SentMoves
<1>9. Labelled(t, k)
    BY <1>7, <1>8, StreamBytes
<1>10. Added(t, l, p, Len(q) + 1)
    BY <1>6, <1>8 DEF Added
<1>11. Aligned(s, l, q, g, c, at) /\ Labelled(t, l + BytesOf(p)) /\ k = l + BytesOf(p)
    BY <1>1, <1>6, <1>7, <1>8, <1>9
<1>12. PICK new : Aligned(t, l + BytesOf(p), Append(q, p), g, c, new)
    BY <1>8, <1>10, <1>11, SentAligned
<1> QED
    BY <1>1, <1>7, <1>11, <1>12 DEF Recovers

\* A packet is cut short.
LEMMA CutRecovers ==
    ASSUME NEW b, NEW h, NEW w, NEW q, NEW g, NEW d, Buffered(b, h, w), Recovers(b, h, w, q, g, d),
           NEW p \in Packets, Plain(p), NEW v \in Seq(LabelledBytes),
           NEW m, m = Len(q) + 1, \A i \in 1..Len(v) : v[i].n = m, NEW u, JoinOf(u, w, v)
    PROVE  Recovers(b, h, u, Append(q, p), m, d)
<1>1. PICK c, at : Aligned(StreamOf(b, h, w), LengthOf(b, h, w), q, g, c, at)
    BY DEF Recovers
<1>2. PICK s, t, l, k : /\ s = StreamOf(b, h, w) /\ t = StreamOf(b, h, u)
                        /\ l = LengthOf(b, h, w) /\ k = LengthOf(b, h, u)
    OBVIOUS
<1>3. /\ Buffered(b, h, u) /\ k = l + Len(v) /\ SameUpTo(s, t, l)
      /\ \A i \in 1..Len(v) : t[l + i] = v[i]
    BY <1>2, SentMoves
<1>4. Labelled(t, k) /\ k \in Nat
    <2>1. Buffered(b, h, u)
        BY <1>3
    <2>2. Labelled(StreamOf(b, h, u), LengthOf(b, h, u)) /\ LengthOf(b, h, u) \in Nat
        BY <2>1, StreamBytes
    <2> QED
        BY <1>2, <2>2
<1>5. Aligned(s, l, q, g, c, at)
    BY <1>1, <1>2
<1>6. /\ l \in Nat /\ q \in Seq(Packets) /\ Len(q) \in Nat /\ AllPlain(q) /\ Labelled(s, l)
    BY <1>5, AlignedNumbers
<1>7. PICK x \in Nat, y \in Nat, z \in Nat : x = l /\ y = Len(v) /\ z = Len(q)
    BY <1>6
<1>8. \A i \in 1..x : s[i].n <= z /\ s[i].n \in Nat
    <2>1. \A i \in 1..l : s[i].n <= Len(q)
        BY <1>5, AlignedLabels
    <2> QED
        BY <1>6, <1>7, <2>1 DEF Labelled
<1>9. ASSUME NEW i \in 1..x + y PROVE t[i].n <= z + 1
    <2>1. CASE i \in 1..x
        <3>1. t[i] = s[i] /\ s[i].n <= z /\ s[i].n \in Nat
            BY <1>3, <1>7, <1>8, <2>1 DEF SameUpTo
        <3>2. s[i].n <= z + 1
            BY <3>1
        <3> QED
            BY <3>1, <3>2
    <2>2. CASE i \notin 1..x
        <3>1. i - x \in 1..y /\ x + (i - x) = i
            BY <2>2
        <3>2. PICK j \in 1..y : x + j = i
            BY <3>1
        <3>3. t[i] = v[j] /\ v[j].n = z + 1
            BY <1>3, <1>7, <3>2
        <3>4. z + 1 <= z + 1
            OBVIOUS
        <3> QED
            BY <3>3, <3>4
    <2> QED
        BY <2>1, <2>2
<1>10. PICK r : r = Append(q, p)
    OBVIOUS
<1>11. r \in Seq(Packets) /\ Len(r) = z + 1 /\ AllPlain(r)
    <2>1. /\ r \in Seq(Packets) /\ Len(r) = z + 1 /\ r[z + 1] = p
          /\ \A i \in 1..z : r[i] = q[i]
        BY <1>6, <1>7, <1>10
    <2>2. \A i \in 1..z + 1 : i \in 1..z \/ i = z + 1
        OBVIOUS
    <2> QED
        BY <1>6, <1>7, <2>1, <2>2 DEF AllPlain
<1>12. \A i \in 1..k : t[i].n <= Len(r)
    BY <1>3, <1>7, <1>9, <1>11
<1>13. PICK new : Aligned(t, k, r, Len(r), Len(r), new)
    BY <1>4, <1>11, <1>12, DamagedAligned
<1>14. Len(r) = m /\ m \in Nat
    BY <1>7, <1>11
<1>15. Passed(d, m, m)
    BY <1>14, PassedSelf
<1> QED
    BY <1>2, <1>10, <1>13, <1>14, <1>15 DEF Recovers

\* A connection begins, with nothing in the buffer but what an earlier one left.
LEMMA ConnectionRecovers ==
    ASSUME NEW a \in Seq(LabelledBytes), \A i \in 1..Len(a) : a[i].n = 0, NEW d
    PROVE  Recovers(a, 0, << >>, << >>, 0, d)
<1>1. PICK e, q : e = << >> /\ q = << >>
    OBVIOUS
<1>2. /\ e \in Seq(LabelledBytes) /\ Len(e) = 0 /\ q \in Seq(Packets) /\ Len(q) = 0
      /\ Len(a) \in Nat
    BY <1>1
<1>3. Buffered(a, 0, e)
    BY <1>2 DEF Buffered
<1>4. PICK n \in Nat, m \in Nat, x \in Nat :
         View(StreamOf(a, 0, e), LengthOf(a, 0, e), a, 0, e, n, m, x)
    BY <1>3, StreamNow
<1>5. PICK s, l : s = StreamOf(a, 0, e) /\ l = LengthOf(a, 0, e)
    OBVIOUS
<1>6. n = Len(a) /\ m = 0 /\ 0 + x = n /\ l = x + m /\ \A i \in 1..x : s[i] = a[0 + i]
    BY <1>2, <1>4, <1>5 DEF View
<1>7. l = n /\ x = n
    BY <1>6
<1>8. ASSUME NEW i \in 1..l PROVE s[i].n <= Len(q)
    <2>1. i \in 1..n /\ 0 + i = i
        BY <1>7
    <2>2. s[i] = a[i] /\ a[i].n = 0
        BY <1>6, <1>7, <2>1
    <2> QED
        BY <1>2, <2>2
<1>9. Labelled(s, l) /\ l \in Nat
    BY <1>3, <1>5, StreamBytes
<1>10. AllPlain(q)
    BY <1>2 DEF AllPlain
<1>11. PICK new : Aligned(s, l, q, Len(q), Len(q), new)
    BY <1>2, <1>8, <1>9, <1>10, DamagedAligned
<1>12. Passed(d, 0, 0)
    BY PassedSelf
<1> QED
    BY <1>1, <1>2, <1>5, <1>11, <1>12 DEF Recovers

\* The buffer and the wire.
LEMMA InvBuffered ==
    ASSUME Inv
    PROVE  /\ Buffered(buffer, head, wire)
           /\ Len(buffer) - head \in Nat /\ Left = Len(buffer) - head
<1>1. Buffered(buffer, head, wire)
    BY StreamNumbers DEF Inv, TypeOK, Buffered
<1> QED
    BY <1>1, StreamBytes DEF Left

\* What the receiver sees is the beginning of the stream.
LEMMA StreamHeader ==
    ASSUME Inv, Left >= HeaderSize
    PROVE  /\ HeaderIn(StreamOf(buffer, head, wire)) <=> IsHeader
           /\ PacketSize(StreamOf(buffer, head, wire)) = HeaderSize + DataSize
           /\ DataSize \in Nat
           /\ LengthOf(buffer, head, wire) >= 4
<1>1. Buffered(buffer, head, wire) /\ Len(buffer) - head >= 4
    BY InvBuffered DEF HeaderSize
<1>2. /\ LengthOf(buffer, head, wire) >= 4
      /\ HeaderIn(StreamOf(buffer, head, wire)) <=>
            buffer[head + 1].b = Magic /\ buffer[head + 4].b = MagicData
      /\ PacketSize(StreamOf(buffer, head, wire)) = HeaderSize + (buffer[head + 3].b % (MaxData + 1))
    BY <1>1, HeaderAhead
<1>3. DataSize \in 0..MaxData /\ MaxData \in Nat
    BY DataSizeBound, SizeAssumption
<1> QED
    BY <1>2, <1>3 DEF IsHeader, DataSize, HeaderSize

\* A byte that does not begin a header is skipped.
LEMMA SkipRecovering ==
    ASSUME Inv, Recovering, Skip
    PROVE  Recovering'
<1>1. /\ Left >= HeaderSize /\ ~IsHeader /\ head' = head + 1
      /\ UNCHANGED <<wire, buffer, processed, sent, hurt, plain>>
    BY DEF Skip, history, StepByte
<1>2. SUFFICES ASSUME plain PROVE Recovers(buffer, head + 1, wire, sent, hurt, processed)
    BY <1>1 DEF Recovering
<1>3. Recovers(buffer, head, wire, sent, hurt, processed)
    BY <1>2 DEF Recovering
<1>4. Buffered(buffer, head, wire) /\ Len(buffer) - head >= 4
    BY <1>1, InvBuffered DEF HeaderSize
<1>5. ~HeaderIn(StreamOf(buffer, head, wire))
    BY <1>1, StreamHeader
<1> QED
    BY <1>3, <1>4, <1>5, SkipRecovers

\* A packet is processed: it is the next one that was sent, or made of what a
\* damage left.
LEMMA ProcessRecovering ==
    ASSUME Inv, Recovering, Process
    PROVE  Recovering'
<1>1. /\ Left >= HeaderSize /\ IsHeader /\ WholePacket
      /\ processed' = Append(processed, NumberAt)
      /\ head' = head + HeaderSize + DataSize
      /\ UNCHANGED <<wire, buffer, sent, hurt, plain>>
    BY DEF Process, history
<1>2. PICK z : z = PacketSize(StreamOf(buffer, head, wire))
    OBVIOUS
<1>3. z = HeaderSize + DataSize /\ DataSize \in Nat /\ HeaderIn(StreamOf(buffer, head, wire))
    BY <1>1, <1>2, StreamHeader
<1>4. /\ Buffered(buffer, head, wire) /\ Left = Len(buffer) - head /\ Len(buffer) - head >= 4
      /\ Left \in Nat /\ head \in Nat
    BY <1>1, InvBuffered, StreamNumbers DEF HeaderSize
<1>5. z <= Len(buffer) - head /\ z \in Nat /\ head' = head + z
    BY <1>1, <1>3, <1>4 DEF WholePacket, HeaderSize
<1>6. processed \in Seq(0..MaxPackets) /\ NumberAt \in 0..MaxPackets
    <2>1. processed' \in Seq(0..MaxPackets) /\ processed \in Seq(0..MaxPackets)
        BY ProcessInv DEF Inv, TypeOK
    <2>2. Len(processed) \in Nat
        BY <2>1
    <2>3. Len(processed) + 1 \in 1..Len(processed') /\ processed'[Len(processed) + 1] = NumberAt
        BY <1>1, <2>1, <2>2
    <2>4. processed'[Len(processed) + 1] \in 0..MaxPackets
        BY <2>1, <2>3, ElementOfSeq, Zenon
    <2> QED
        BY <2>1, <2>3, <2>4, Zenon
<1>7. ASSUME NEW k, IsPacket(StreamOf(buffer, head, wire), sent, k)
      PROVE  NumberAt = k
    <2>1. PICK s : s = StreamOf(buffer, head, wire)
        OBVIOUS
    <2>2. /\ k \in 1..Len(sent) /\ z = BytesOf(sent[k])
          /\ \A i \in 1..z : s[i] = [b |-> Encoded(sent[k])[i], n |-> k]
        BY <1>2, <1>7, <2>1 DEF IsPacket
    <2>3. z = Size(k)
        BY <2>2 DEF BytesOf, Size
    <2>4. \A i \in 1..Len(buffer) - head : s[i] = buffer[head + i]
        <3>1. Buffered(buffer, head, wire)
            BY <1>4
        <3>2. \A i \in 1..Len(buffer) - head : StreamOf(buffer, head, wire)[i] = buffer[head + i]
            BY <3>1, StreamBytes
        <3> QED
            BY <2>1, <3>2
    <2>5. ASSUME NEW j \in 1..z, j <= Left
          PROVE  buffer[head + j] = [b |-> Encoded(sent[k])[j], n |-> k]
        <3>1. j \in 1..Len(buffer) - head
            BY <1>4, <1>5, <2>5
        <3>2. s[j] = buffer[head + j] /\ s[j] = [b |-> Encoded(sent[k])[j], n |-> k]
            BY <2>2, <2>4, <3>1
        <3> QED
            BY <3>2
    <2> QED
        BY <1>1, <1>3, <2>2, <2>3, <2>5, NumberOf
<1>8. SUFFICES ASSUME plain
               PROVE  Recovers(buffer, head + z, wire, sent, hurt, Append(processed, NumberAt))
    BY <1>1, <1>5 DEF Recovering
<1>9. Recovers(buffer, head, wire, sent, hurt, processed)
    BY <1>8 DEF Recovering
<1> QED
    BY <1>2, <1>3, <1>4, <1>5, <1>6, <1>7, <1>9, ProcessRecovers

\* The rest of the buffer is moved to its front.
LEMMA EndOfScanRecovering ==
    ASSUME Inv, Recovering, EndOfScan
    PROVE  Recovering'
<1>1. /\ buffer' = Rest /\ head' = 0
      /\ UNCHANGED <<wire, processed, sent, hurt, plain>>
    BY DEF EndOfScan, history
<1>2. PICK r : r = Rest
    OBVIOUS
<1>3. RestOf(r, buffer, head)
    BY <1>2 DEF Rest, RestOf
<1>4. SUFFICES ASSUME plain PROVE Recovers(r, 0, wire, sent, hurt, processed)
    BY <1>1, <1>2 DEF Recovering
<1>5. Recovers(buffer, head, wire, sent, hurt, processed)
    BY <1>4 DEF Recovering
<1>6. Buffered(buffer, head, wire)
    BY InvBuffered
<1> QED
    BY <1>3, <1>5, <1>6, RestRecovers

\* Bytes are received, or lost.
LEMMA ReceiveRecovering ==
    ASSUME Inv, Recovering, Receive
    PROVE  Recovering'
<1>1. PICK size \in 1..Smaller(Len(wire), Room) :
           /\ wire' = SubSeq(wire, size + 1, Len(wire))
           /\ \/ /\ hurt' = IF wire[size].n > hurt THEN wire[size].n ELSE hurt
                 /\ UNCHANGED buffer
              \/ /\ buffer' = buffer \o SubSeq(wire, 1, size)
                 /\ UNCHANGED hurt
    BY DEF Receive
<1>2. UNCHANGED <<head, sent, processed, plain>>
    BY DEF Receive
<1>3. size \in Nat /\ size # 0 /\ size <= Len(wire)
    <2>1. Len(wire) \in Nat /\ Len(buffer) \in Nat /\ BufferSize \in Nat
        BY StreamNumbers, SizeAssumption
    <2> QED
        BY <2>1 DEF Smaller, Room
<1>4. PICK v : v = wire'
    OBVIOUS
<1>5. RestOf(v, wire, size)
    BY <1>1, <1>4 DEF RestOf
<1>6. SUFFICES ASSUME plain PROVE Recovers(buffer', head, v, sent, hurt', processed)
    BY <1>2, <1>4 DEF Recovering
<1>7. Recovers(buffer, head, wire, sent, hurt, processed)
    BY <1>6 DEF Recovering
<1>8. Buffered(buffer, head, wire)
    BY InvBuffered
<1>9. CASE /\ hurt' = IF wire[size].n > hurt THEN wire[size].n ELSE hurt
           /\ UNCHANGED buffer
    <2>1. PICK f : f = hurt'
        OBVIOUS
    <2>2. f = IF wire[size].n > hurt THEN wire[size].n ELSE hurt
        BY <1>9, <2>1
    <2>3. Recovers(buffer, head, v, sent, f, processed)
        BY <1>3, <1>5, <1>7, <1>8, <2>2, LostRecovers
    <2> QED
        BY <1>9, <2>1, <2>3
<1>10. CASE buffer' = buffer \o SubSeq(wire, 1, size) /\ UNCHANGED hurt
    <2>1. PICK f, a : f = SubSeq(wire, 1, size) /\ a = buffer'
        OBVIOUS
    <2>2. FirstOf(f, wire, size) /\ JoinOf(a, buffer, f)
        BY <1>10, <2>1 DEF FirstOf, JoinOf
    <2>3. Recovers(a, head, v, sent, hurt, processed)
        BY <1>3, <1>5, <1>7, <1>8, <2>2, ReceivedRecovers
    <2> QED
        BY <1>10, <2>1, <2>3
<1> QED
    BY <1>1, <1>9, <1>10

\* A packet is sent, whole or cut short.
LEMMA SendRecovering ==
    ASSUME Inv, Recovering, NEW p \in Packets, SendPacket(p)
    PROVE  Recovering'
<1>1. PICK m, q : m = Len(sent) + 1 /\ q = Append(sent, p)
    OBVIOUS
<1>2. /\ m <= MaxPackets /\ sent' = q /\ plain' = (plain /\ Plain(p))
      /\ UNCHANGED <<buffer, head, processed>>
      /\ \/ wire' = wire \o Numbered(Encoded(p), m) /\ UNCHANGED hurt
         \/ /\ \E k \in 1..Len(Encoded(p)) - 1 :
                  wire' = wire \o Numbered(SubSeq(Encoded(p), 1, k), m)
            /\ hurt' = m
    BY <1>1 DEF SendPacket
<1>3. m \in 0..MaxPackets
    BY <1>1, <1>2, StreamNumbers, SizeAssumption
<1>4. PICK u : u = wire'
    OBVIOUS
<1>5. SUFFICES ASSUME plain, Plain(p) PROVE Recovers(buffer, head, u, q, hurt', processed)
    BY <1>2, <1>4 DEF Recovering
<1>6. Recovers(buffer, head, wire, sent, hurt, processed)
    BY <1>5 DEF Recovering
<1>7. Buffered(buffer, head, wire)
    BY InvBuffered
<1>8. CASE wire' = wire \o Numbered(Encoded(p), m) /\ UNCHANGED hurt
    <2>1. PICK v : v = Numbered(Encoded(p), Len(sent) + 1)
        OBVIOUS
    <2>2. JoinOf(u, wire, v)
        BY <1>1, <1>4, <1>8, <2>1 DEF JoinOf
    <2>3. Len(sent) + 1 \in 0..MaxPackets
        BY <1>1, <1>3
    <2>4. Recovers(buffer, head, u, Append(sent, p), hurt, processed)
        BY <1>5, <1>6, <1>7, <2>1, <2>2, <2>3, SentRecovers
    <2> QED
        BY <1>1, <1>8, <2>4
<1>9. CASE /\ \E k \in 1..Len(Encoded(p)) - 1 :
                 wire' = wire \o Numbered(SubSeq(Encoded(p), 1, k), m)
           /\ hurt' = m
    <2>1. PICK k \in 1..Len(Encoded(p)) - 1 :
             wire' = wire \o Numbered(SubSeq(Encoded(p), 1, k), m)
        BY <1>9
    <2>2. PICK e : e = SubSeq(Encoded(p), 1, k)
        OBVIOUS
    <2>3. e \in Seq(Bytes)
        BY <2>2, EncodedPacket
    <2>4. PICK v : v = Numbered(e, m)
        OBVIOUS
    <2>5. v \in Seq(LabelledBytes)
        BY <1>3, <2>3, <2>4, NumberedBytes
    <2>6. \A i \in 1..Len(v) : v[i].n = m
        <3>1. DOMAIN v = 1..Len(v)
            BY <2>5
        <3>2. v = [i \in DOMAIN e |-> [b |-> e[i], n |-> m]]
            BY <2>4 DEF Numbered
        <3>3. ASSUME NEW i \in DOMAIN v PROVE v[i].n = m
            <4>1. v[i] = [b |-> e[i], n |-> m]
                BY <3>2
            <4> QED
                BY <4>1
        <3> QED
            BY <3>1, <3>3
    <2>7. JoinOf(u, wire, v)
        BY <1>4, <2>1, <2>2, <2>4 DEF JoinOf
    <2>8. Recovers(buffer, head, u, Append(sent, p), m, processed)
        BY <1>1, <1>5, <1>6, <1>7, <2>5, <2>6, <2>7, CutRecovers
    <2> QED
        BY <1>1, <1>9, <2>8
<1> QED
    BY <1>2, <1>8, <1>9

\* The next connection begins.
LEMMA ConnectionRecovering ==
    ASSUME Inv, Recovering, NextConnection
    PROVE  Recovering'
<1>1. /\ wire' = << >> /\ sent' = << >> /\ processed' = << >> /\ hurt' = 0
      /\ head' = 0
    BY DEF Inv, HeadAtStart, NextConnection
<1>2. PICK a, d : a = buffer' /\ d = processed'
    OBVIOUS
<1>3. a \in Seq(LabelledBytes)
    BY <1>2, NextConnectionInv DEF Inv, TypeOK
<1>4. \A i \in 1..Len(a) : a[i].n = 0
    <2>1. CASE side = "client"
        <3>1. a = << >>
            BY <1>2, <2>1 DEF NextConnection
        <3>2. Len(a) = 0
            BY <3>1
        <3> QED
            BY <3>2
    <2>2. CASE side # "client"
        <3>1. a = [i \in DOMAIN buffer |-> [buffer[i] EXCEPT !.n = 0]]
            BY <1>2, <2>2 DEF NextConnection
        <3>2. DOMAIN a = 1..Len(a) /\ DOMAIN a = DOMAIN buffer
            BY <1>3, <3>1
        <3>3. ASSUME NEW i \in DOMAIN buffer PROVE a[i].n = 0
            <4>1. buffer[i] \in LabelledBytes
                BY DEF Inv, TypeOK
            <4>2. a[i] = [buffer[i] EXCEPT !.n = 0]
                BY <3>1
            <4> QED
                BY <4>1, <4>2 DEF LabelledBytes
        <3> QED
            BY <3>2, <3>3
    <2> QED
        BY <2>1, <2>2
<1>5. Recovers(a, 0, << >>, << >>, 0, d)
    BY <1>3, <1>4, ConnectionRecovers
<1> QED
    BY <1>1, <1>2, <1>5 DEF Recovering

\* The receiver stops scanning only where it must.
LEMMA NextStopped ==
    ASSUME Inv, Stopped, [Next]_vars
    PROVE  Stopped'
<1>1. CASE scanning'
    BY <1>1 DEF Stopped
<1>2. CASE ~scanning' /\ UNCHANGED <<buffer, head, scanning>>
    BY <1>2 DEF Stopped, Left, IsHeader, WholePacket, DataSize
<1>3. CASE NextConnection
    <2>1. ~scanning /\ head' = head /\ head = 0
        BY <1>3 DEF NextConnection, Inv, HeadAtStart
    <2>2. buffer \in Seq(LabelledBytes) /\ Len(buffer) \in Nat
        BY DEF Inv, TypeOK
    <2>3. CASE side = "client"
        <3>1. Left' = 0
            BY <1>3, <2>1, <2>3 DEF NextConnection, Left
        <3> QED
            BY <3>1 DEF Stopped, HeaderSize
    <2>4. CASE side # "client"
        <3>1. PICK a : a = buffer'
            OBVIOUS
        <3>2. a = [i \in 1..Len(buffer) |-> [buffer[i] EXCEPT !.n = 0]]
            BY <1>3, <2>2, <2>4, <3>1 DEF NextConnection
        <3>3. a \in Seq(LabelledBytes)
            BY <1>3, <3>1, NextConnectionInv DEF Inv, TypeOK
        <3>4. Len(a) = Len(buffer)
            BY <2>2, <3>2, <3>3
        <3>5. ASSUME NEW i \in 1..Len(buffer) PROVE a[i].b = buffer[i].b
            <4>1. buffer[i] \in LabelledBytes
                BY <2>2
            <4>2. a[i] = [buffer[i] EXCEPT !.n = 0]
                BY <3>2
            <4> QED
                BY <4>1, <4>2 DEF LabelledBytes
        <3>6. SUFFICES ASSUME Len(a) - 0 >= 4
                       PROVE  /\ a[0 + 1].b = Magic /\ a[0 + 4].b = MagicData
                              /\ ~(Len(a) - 0 >= 4 + (a[0 + 3].b % (MaxData + 1)))
            BY <2>1, <3>1 DEF Stopped, Left, IsHeader, WholePacket, DataSize, HeaderSize
        <3>7. /\ 0 + 1 \in 1..Len(buffer) /\ 0 + 3 \in 1..Len(buffer) /\ 0 + 4 \in 1..Len(buffer)
            BY <2>2, <3>4, <3>6
        <3>8. /\ buffer[0 + 1].b = Magic /\ buffer[0 + 4].b = MagicData
              /\ ~(Len(buffer) - 0 >= 4 + (buffer[0 + 3].b % (MaxData + 1)))
            BY <2>1, <3>4, <3>6 DEF Stopped, Left, IsHeader, WholePacket, DataSize, HeaderSize
        <3> QED
            BY <3>4, <3>5, <3>7, <3>8
    <2> QED
        BY <2>3, <2>4
<1>4. CASE EndOfScan
    <2>1. /\ Left >= HeaderSize => IsHeader /\ ~WholePacket
          /\ buffer' = SubSeq(buffer, head + 1, Len(buffer)) /\ head' = 0
        BY <1>4 DEF EndOfScan, Rest
    <2>2. PICK r, x : r = buffer' /\ x = Len(buffer) - head
        OBVIOUS
    <2>3. buffer \in Seq(LabelledBytes) /\ head \in Nat /\ head <= Len(buffer) /\ x \in Nat /\ x = Left
        BY <2>2, StreamNumbers DEF Inv, TypeOK
    <2>4. Len(r) = x /\ \A i \in 1..x : r[i] = buffer[head + i]
        BY <2>1, <2>2, <2>3, Dropped
    <2>5. SUFFICES ASSUME x - 0 >= 4
                   PROVE  /\ r[0 + 1].b = Magic /\ r[0 + 4].b = MagicData
                          /\ ~(x - 0 >= 4 + (r[0 + 3].b % (MaxData + 1)))
        BY <2>1, <2>2, <2>4 DEF Stopped, Left, IsHeader, WholePacket, DataSize, HeaderSize
    <2>6. 1 \in 1..x /\ 3 \in 1..x /\ 4 \in 1..x /\ x - 0 = x /\ 0 + 1 = 1 /\ 0 + 3 = 3 /\ 0 + 4 = 4
        BY <2>3, <2>5
    <2>7. r[1] = buffer[head + 1] /\ r[3] = buffer[head + 3] /\ r[4] = buffer[head + 4]
        BY <2>4, <2>6
    <2>8. /\ buffer[head + 1].b = Magic /\ buffer[head + 4].b = MagicData
          /\ ~(x >= 4 + (buffer[head + 3].b % (MaxData + 1)))
        <3>1. Left >= HeaderSize
            BY <2>3, <2>5, <2>6 DEF HeaderSize
        <3> QED
            BY <2>1, <2>3, <3>1 DEF IsHeader, WholePacket, DataSize, HeaderSize
    <2> QED
        BY <2>6, <2>7, <2>8
<1> QED
    <2>1. CASE \E p \in Packets : SendPacket(p)
        BY <1>1, <1>2, <2>1 DEF SendPacket, Inv, TypeOK
    <2>2. CASE Receive
        BY <1>1, <1>2, <2>2 DEF Receive, Inv, TypeOK
    <2>3. CASE Skip \/ Process
        BY <1>1, <2>3 DEF Skip, Process
    <2>4. CASE UNCHANGED vars
        BY <1>1, <1>2, <2>4 DEF vars
    <2> QED
        BY <1>3, <1>4, <2>1, <2>2, <2>3, <2>4 DEF Next

\* The initial states: nothing is sent, nothing received.
LEMMA InitRecovering == Init => Recovering /\ Stopped
<1> SUFFICES ASSUME Init PROVE Recovering /\ Stopped
    OBVIOUS
<1>1. /\ wire = << >> /\ buffer = << >> /\ head = 0 /\ sent = << >> /\ hurt = 0
    BY DEF Init
<1>2. PICK a, d : a = << >> /\ d = processed
    OBVIOUS
<1>3. a \in Seq(LabelledBytes) /\ Len(a) = 0
    BY <1>2
<1>4. \A i \in 1..Len(a) : a[i].n = 0
    BY <1>3
<1>5. Recovers(a, 0, << >>, << >>, 0, d)
    BY <1>3, <1>4, ConnectionRecovers
<1>6. Left = 0
    BY <1>1 DEF Left
<1> QED
    BY <1>1, <1>2, <1>5, <1>6 DEF Recovering, Stopped, HeaderSize

\* Every step.
LEMMA NextRecovering == Inv /\ Recovering /\ [Next]_vars => Recovering'
<1> SUFFICES ASSUME Inv, Recovering, [Next]_vars PROVE Recovering'
    OBVIOUS
<1>1. CASE \E p \in Packets : SendPacket(p)
    BY <1>1, SendRecovering
<1>2. CASE NextConnection
    BY <1>2, ConnectionRecovering
<1>3. CASE Receive
    BY <1>3, ReceiveRecovering
<1>4. CASE Skip
    BY <1>4, SkipRecovering
<1>5. CASE Process
    BY <1>5, ProcessRecovering
<1>6. CASE EndOfScan
    BY <1>6, EndOfScanRecovering
<1>7. CASE UNCHANGED vars
    BY <1>7 DEF vars, Recovering
<1> QED
    BY <1>1, <1>2, <1>3, <1>4, <1>5, <1>6, <1>7 DEF Next

\* When all bytes have come, the packets that are still ahead are few enough.
LEMMA RecoveringResynchronises == Inv /\ Recovering /\ Stopped => Resynchronises
<1> SUFFICES ASSUME Inv, Recovering, Stopped, plain, wire = << >>, ~scanning,
                    NEW k \in hurt + Swallowed + 1..Len(sent)
             PROVE  \E i \in DOMAIN processed : processed[i] = k
    BY DEF Resynchronises
<1>1. PICK s, l : s = StreamOf(buffer, head, wire) /\ l = LengthOf(buffer, head, wire)
    OBVIOUS
<1>2. PICK c, at : Aligned(s, l, sent, hurt, c, at) /\ Passed(processed, hurt, c)
    BY <1>1 DEF Recovering, Recovers
<1>3. l = Left /\ Left \in Nat
    <2>1. Left \in Nat /\ Left = Len(buffer) - head /\ Len(wire) = 0
        BY StreamNumbers
    <2> QED
        BY <1>1, <2>1 DEF LengthOf
<1>4. ASSUME l >= 4 PROVE HeaderIn(s) /\ ~(PacketSize(s) <= l)
    <2>1. Left >= HeaderSize
        BY <1>3, <1>4 DEF HeaderSize
    <2>2. IsHeader /\ ~(Left >= HeaderSize + DataSize)
        BY <2>1 DEF Stopped, WholePacket
    <2>3. (HeaderIn(s) <=> IsHeader) /\ PacketSize(s) = HeaderSize + DataSize /\ DataSize \in Nat
        BY <1>1, <2>1, StreamHeader
    <2> QED
        BY <1>3, <2>2, <2>3 DEF HeaderSize
<1>5. Len(sent) = c \/ Len(sent) <= hurt + Swallowed
    BY <1>2, <1>4, StoppedAligned
<1>6. CASE Len(sent) = c
    BY <1>2, <1>6 DEF Passed
<1>7. CASE Len(sent) <= hurt + Swallowed
    <2>1. hurt \in Nat /\ Len(sent) \in Nat
        BY <1>2, AlignedNumbers
    <2>2. Passed(processed, hurt, Len(sent))
        BY <1>7, <2>1, PassedNone
    <2> QED
        BY <2>2 DEF Passed
<1> QED
    BY <1>5, <1>6, <1>7

(* A damage does not last (server.c:967-974, client.c:657-664): after packets *)
(* cut short, receives that were dropped, or the rest of an earlier           *)
(* connection, at most Swallowed further packets are lost and all others      *)
(* processed, for every size of the data, provided that the magic numbers are *)
(* sent only where they belong.                                               *)
THEOREM StreamResynchronises == Spec => []Resynchronises
<1>1. Init => Inv /\ Recovering /\ Stopped
    BY InitInv, InitRecovering
<1>2. (Inv /\ Recovering /\ Stopped) /\ [Next]_vars => (Inv /\ Recovering /\ Stopped)'
    BY NextInv, NextRecovering, NextStopped
<1> QED
    BY <1>1, <1>2, RecoveringResynchronises, PTL DEF Spec
=============================================================================
