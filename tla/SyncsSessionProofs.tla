-------------------------- MODULE SyncsSessionProofs --------------------------
(***************************************************************************)
(* Proofs about SyncsSession: types, one slot for each name, and that no    *)
(* subscription is lost, for tables of any size and whatever the two        *)
(* threads, the network and the server do.                                  *)
(***************************************************************************)
EXTENDS SyncsSession, SequenceTheorems, WellFoundedInduction, TLAPS

\* What a call of the application works on.
AppSlot ==
    /\ app.call = "subscribe" => app.at \in Slots /\ app.id \in Names
    /\ app.call = "unsubscribe" => app.at \in Slots
    /\ app.call = "channel" => app.at \in ChannelSlots /\ app.id \in ChannelNames

\* A slot holds the name once it is written.
AppWritten ==
    /\ app.call = "subscribe" /\ app.step = "send" => events[app.at].id = app.id
    /\ app.call = "channel" /\ app.step = "send" => channels[app.at] = app.id

\* Until then no other slot holds it.
AppAlone ==
    app.call = "subscribe" /\ app.step = "id" =>
        \A s \in Slots \ {app.at} : events[s].id # app.id

\* A session that has opened a connection has a descriptor to close.
OpenFd == thread.pc \in {"hello", "recv", "select", "call", "close"} => fds > 0

\* The packet whose callback runs has not been taken from the queue yet.
CallPacket == thread.pc = "call" => toClient # << >>

\* The inductive invariant.
Inv == TypeOK /\ AppSlot /\ AppWritten /\ OpenFd /\ CallPacket

-----------------------------------------------------------------------------
(* The least slot.                                                           *)

\* A set of natural numbers that is not empty has a least element.
LEMMA Least ==
    ASSUME NEW S \in SUBSET Nat, S # {}
    PROVE  \E s \in S : \A t \in S : s <= t
<1> DEFINE R == OpToRel(<, Nat)
<1>1. IsWellFoundedOn(R, Nat)
    BY NatLessThanWellFounded, Zenon
<1>2. R = {p \in Nat \X Nat : p[1] < p[2]}
    BY Zenon DEF OpToRel
<1> HIDE DEF R
<1>3. PICK s \in S : \A t \in S : <<t, s>> \notin R
    BY <1>1, WFMin
<1>4. \A t \in S : ~(t < s)
    BY <1>2, <1>3
<1> QED
    BY <1>4

\* FirstOf finds one of the slots it is given.
LEMMA FirstOfIn ==
    ASSUME NEW S \in SUBSET Nat, S # {}
    PROVE  FirstOf(S) \in S
    BY Least DEF FirstOf

\* A slot found by name has the name.
LEMMA MatchesSlots ==
    ASSUME NEW id, Matches(id) # {}
    PROVE  FirstOf(Matches(id)) \in Slots /\ events[FirstOf(Matches(id))].id = id
<1>1. Matches(id) \in SUBSET Nat
    BY SizeAssumption DEF Matches, Slots
<1>2. FirstOf(Matches(id)) \in Matches(id)
    BY <1>1, FirstOfIn
<1> QED
    BY <1>2 DEF Matches

-----------------------------------------------------------------------------
(* Sending and receiving.                                                    *)

\* What a table can hold may be sent.
LEMMA RegisteredTypes ==
    ASSUME TypeOK, NEW k \in 1..HelloLength, Registered(k) # NoName
    PROVE  [type |-> Announcement(k), id |-> Registered(k)] \in Packets
<1>1. MaxEvents \in Nat /\ MaxChannels \in Nat
    BY SizeAssumption
<1>2. CASE k <= MaxEvents
    <2>1. k \in Slots
        BY <1>1, <1>2 DEF Slots, HelloLength
    <2>2. events[k] \in [id : Names \cup {NoName, Partial}, cb : Names \cup {NoName}]
        BY <2>1 DEF TypeOK
    <2>3. events[k].id \in Names \cup {NoName, Partial}
        BY <2>2
    <2>4. Registered(k) = events[k].id /\ Announcement(k) = "SUBSCRIBE"
        BY <1>2 DEF Registered, Announcement
    <2> QED
        BY <2>3, <2>4 DEF Packets, AllNames
<1>3. CASE ~(k <= MaxEvents)
    <2>1. k - MaxEvents \in ChannelSlots
        BY <1>1, <1>3 DEF ChannelSlots, HelloLength
    <2>2. channels[k - MaxEvents] \in ChannelNames \cup {NoName, Partial}
        BY <2>1 DEF TypeOK
    <2>3. Registered(k) = channels[k - MaxEvents] /\ Announcement(k) = "CHANNEL"
        BY <1>3 DEF Registered, Announcement
    <2> QED
        BY <2>2, <2>3 DEF Packets, AllNames
<1> QED
    BY <1>2, <1>3

\* Sending changes the packets on their way, and what was missed.
LEMMA SendTypes ==
    ASSUME TypeOK, NEW type, NEW id, [type |-> type, id |-> id] \in Packets, Send(type, id)
    PROVE  /\ toServer' \in Seq(Packets)
           /\ missed' \in BOOLEAN
           /\ UNCHANGED <<link, toClient, held, known>>
<1>1. toServer \in Seq(Packets)
    BY DEF TypeOK
<1>2. toServer' = toServer \/ toServer' = Append(toServer, [type |-> type, id |-> id])
    BY DEF Send
<1>3. toServer' \in Seq(Packets)
    BY <1>1, <1>2
<1>4. missed' \in BOOLEAN
    BY DEF TypeOK, Send
<1> QED
    BY <1>3, <1>4 DEF Send

\* A packet that has been read is no longer on its way.
LEMMA TailTypes ==
    ASSUME NEW S, NEW s \in Seq(S), s # << >>
    PROVE  Head(s) \in S /\ Tail(s) \in Seq(S)
    OBVIOUS

\* Every packet for the thread leads it to one of these places.
LEMMA NextPacketPlaces == NextPacket \subseteq {"recv", "select"}
    BY DEF NextPacket

-----------------------------------------------------------------------------
(* TypeOK in parts, so that a step need only show those it disturbs.         *)

TablesOK ==
    /\ events \in [Slots -> [id : Names \cup {NoName, Partial}, cb : Names \cup {NoName}]]
    /\ channels \in [ChannelSlots -> ChannelNames \cup {NoName, Partial}]

SocketsOK ==
    /\ transport \in Transports
    /\ socketfd \in BOOLEAN
    /\ usocketfd \in BOOLEAN
    /\ onexit \in BOOLEAN
    /\ fds \in 0..MaxFds

ThreadOK ==
    thread \in [pc : {"find", "while", "open", "hello", "recv", "select", "call", "close", "end"},
                i : 0..HelloLength, at : Slots \cup {0}, got : Names \cup {NoName}]

AppOK ==
    /\ app \in [call : {"none", "subscribe", "unsubscribe", "channel", "disconnect"},
                id : AllNames \cup {NoName}, at : Slots \cup ChannelSlots \cup {0},
                step : {"none", "id", "send", "free", "shutdown", "join", "freed"}]
    /\ wants \in [AllNames -> {"no", "callback", "sync"}]

NetworkOK ==
    /\ link \in {"up", "half", "down"}
    /\ toServer \in Seq(Packets)
    /\ toClient \in Seq(Answers)
    /\ held \subseteq AllNames \cup {Partial}
    /\ known \in BOOLEAN
    /\ missed \in BOOLEAN

BoundsOK ==
    /\ faults \in 0..MaxFaults
    /\ calls \in 0..MaxCalls[transport]

\* The parts are all of TypeOK ...
LEMMA TypeParts ==
    TypeOK <=> TablesOK /\ SocketsOK /\ ThreadOK /\ AppOK /\ NetworkOK /\ BoundsOK
    BY DEF TypeOK, TablesOK, SocketsOK, ThreadOK, AppOK, NetworkOK, BoundsOK

\* ... after a step too.
LEMMA TypePartsNext ==
    TablesOK' /\ SocketsOK' /\ ThreadOK' /\ AppOK' /\ NetworkOK' /\ BoundsOK' => TypeOK'
    BY DEF TypeOK, TablesOK, SocketsOK, ThreadOK, AppOK, NetworkOK, BoundsOK

\* Parts that a step leaves alone.
LEMMA TablesSame == ASSUME TypeOK, UNCHANGED tables PROVE TablesOK'
    BY DEF TypeOK, TablesOK, tables
LEMMA SocketsSame == ASSUME TypeOK, UNCHANGED <<sockets, onexit, fds>> PROVE SocketsOK'
    BY DEF TypeOK, SocketsOK, sockets
LEMMA AppSame == ASSUME TypeOK, UNCHANGED <<app, wants>> PROVE AppOK'
    BY DEF TypeOK, AppOK
LEMMA NetworkSame == ASSUME TypeOK, UNCHANGED network PROVE NetworkOK'
    BY DEF TypeOK, NetworkOK, network
LEMMA BoundsSame == ASSUME TypeOK, UNCHANGED <<faults, calls, transport>> PROVE BoundsOK'
    BY DEF TypeOK, BoundsOK
LEMMA CallsSame == ASSUME AppSlot, AppWritten, UNCHANGED <<tables, app>> PROVE AppSlot' /\ AppWritten'
    BY DEF AppSlot, AppWritten, tables

\* A step of the thread that changes nothing else.
LEMMA OnlyThread ==
    ASSUME Inv, ThreadOK', OpenFd', CallPacket',
           UNCHANGED <<tables, sockets, onexit, app, network, fds, faults, calls, wants>>
    PROVE  Inv'
<1>1. TypeOK /\ AppSlot /\ AppWritten
    BY DEF Inv
<1>2. UNCHANGED transport
    BY DEF sockets
<1> QED
    BY <1>1, <1>2, TablesSame, SocketsSame, AppSame, NetworkSame, BoundsSame, CallsSame,
       TypePartsNext DEF Inv

\* A step of the network or the server.
LEMMA OnlyNetwork ==
    ASSUME Inv, NetworkOK', CallPacket', faults' \in 0..MaxFaults,
           UNCHANGED <<tables, sockets, onexit, thread, app, fds, calls, wants>>
    PROVE  Inv'
<1>1. TypeOK /\ AppSlot /\ AppWritten
    BY DEF Inv
<1>2. UNCHANGED transport
    BY DEF sockets
<1>3. ThreadOK' /\ OpenFd'
    BY DEF Inv, TypeOK, ThreadOK, OpenFd
<1>4. BoundsOK'
    BY <1>1, <1>2 DEF TypeOK, BoundsOK
<1> QED
    BY <1>1, <1>3, <1>4, TablesSame, SocketsSame, AppSame, CallsSame, TypePartsNext DEF Inv

-----------------------------------------------------------------------------
(* The connection thread.                                                    *)

\* Steps that only move the thread.
LEMMA SimpleThreadInv ==
    ASSUME Inv, Find \/ While \/ OpenFails \/ Recv \/ EndOfFile
    PROVE  Inv'
<1>1. TypeOK /\ OpenFd
    BY DEF Inv
<1>2. PICK pc \in {"while", "open", "end", "select", "close"} :
         /\ thread' = [thread EXCEPT !.pc = pc]
         /\ pc \in {"select", "close"} => thread.pc \in {"recv", "select"}
    BY DEF Find, While, OpenFails, Recv, EndOfFile, Goto, At
<1>3. ThreadOK'
    BY <1>1, <1>2 DEF TypeOK, ThreadOK
<1>4. UNCHANGED <<tables, sockets, onexit, app, network, fds, faults, calls, wants>>
    BY DEF Find, While, OpenFails, Recv, EndOfFile
<1>5. thread'.pc = pc
    BY <1>1, <1>2 DEF TypeOK
<1>6. OpenFd' /\ CallPacket'
    BY <1>1, <1>2, <1>4, <1>5 DEF OpenFd, CallPacket
<1> QED
    BY <1>3, <1>4, <1>6, OnlyThread

\* A connection is opened: nothing is on its way, and there is a descriptor.
LEMMA OpenInv == ASSUME Inv, Open PROVE Inv'
<1>1. TypeOK /\ AppSlot /\ AppWritten
    BY DEF Inv
<1>2. 0 \in 0..HelloLength
    BY SizeAssumption DEF HelloLength
<1>3. fds' \in 0..MaxFds /\ fds' > 0
    BY <1>1, SizeAssumption DEF Open, TypeOK
<1>4. SocketsOK' /\ OpenFd'
    BY <1>1, <1>3 DEF Open, TypeOK, SocketsOK, OpenFd
<1>5. ThreadOK' /\ CallPacket'
    BY <1>1, <1>2 DEF Open, TypeOK, ThreadOK, CallPacket
<1>6. << >> \in Seq(Packets) /\ << >> \in Seq(Answers)
    OBVIOUS
<1>7. NetworkOK'
    BY <1>6 DEF Open, NetworkOK
<1>8. UNCHANGED tables /\ UNCHANGED <<app, wants>> /\ UNCHANGED <<faults, calls, transport>>
    BY DEF Open
<1> QED
    BY <1>1, <1>4, <1>5, <1>7, <1>8, TablesSame, AppSame, BoundsSame, CallsSame,
       TypePartsNext DEF Inv

\* One packet of syncs_send_id: the index stays inside the tables.
LEMMA HelloInv == ASSUME Inv, Hello PROVE Inv'
<1>1. TypeOK /\ AppSlot /\ AppWritten /\ OpenFd
    BY DEF Inv
<1>2. thread.i \in 0..HelloLength /\ HelloLength \in Nat
    BY <1>1, SizeAssumption DEF TypeOK, HelloLength
<1>3. thread.pc = "hello" /\ fds > 0
    BY <1>1 DEF Hello, At, OpenFd
<1>4. ThreadOK'
    <2>1. \/ thread.i + 1 \in 0..HelloLength /\ thread' = [thread EXCEPT !.i = thread.i + 1]
          \/ 0 \in 0..HelloLength /\ thread' = [thread EXCEPT !.pc = "recv", !.i = 0]
        BY <1>2 DEF Hello
    <2> QED
        BY <1>1, <2>1 DEF TypeOK, ThreadOK
<1>5. NetworkOK'
    <2>1. CASE UNCHANGED network
        BY <1>1, <2>1, NetworkSame
    <2>2. CASE Send("CLIENT_ID", NoName)
        <3>1. [type |-> "CLIENT_ID", id |-> NoName] \in Packets
            BY DEF Packets
        <3> QED
            BY <1>1, <2>2, <3>1, SendTypes DEF TypeOK, NetworkOK
    <2>3. CASE /\ thread.i > 0 /\ Registered(thread.i) # NoName
               /\ Send(Announcement(thread.i), Registered(thread.i))
        <3>1. thread.i \in 1..HelloLength
            BY <1>2, <2>3
        <3>2. [type |-> Announcement(thread.i), id |-> Registered(thread.i)] \in Packets
            BY <1>1, <2>3, <3>1, RegisteredTypes
        <3> QED
            BY <1>1, <2>3, <3>2, SendTypes DEF TypeOK, NetworkOK
    <2> QED
        BY <2>1, <2>2, <2>3 DEF Hello
<1>6. /\ UNCHANGED tables /\ UNCHANGED <<sockets, onexit, fds>> /\ UNCHANGED <<app, wants>>
      /\ UNCHANGED <<faults, calls, transport>>
    BY DEF Hello, sockets
<1>7. OpenFd' /\ CallPacket'
    <2>1. thread'.pc \in {"hello", "recv"}
        BY <1>1, <1>3 DEF Hello, TypeOK
    <2> QED
        BY <1>3, <1>6, <2>1 DEF OpenFd, CallPacket
<1> QED
    BY <1>1, <1>4, <1>5, <1>6, <1>7, TablesSame, SocketsSame, AppSame, BoundsSame,
       CallsSame, TypePartsNext DEF Inv

\* The thread takes a packet; it may end the session or send everything again.
LEMMA ReceiveInv ==
    ASSUME Inv, ReceiveStatus \/ ReceiveUnknown \/ ReceiveEvent \/ Call
    PROVE  Inv'
<1>1. TypeOK /\ AppSlot /\ AppWritten /\ OpenFd /\ CallPacket
    BY DEF Inv
<1>2. toClient \in Seq(Answers) /\ toClient # << >>
    BY <1>1 DEF TypeOK, CallPacket, ReceiveStatus, ReceiveUnknown, StatusArrives, ReceiveEvent,
                Call, At
<1>3. thread.pc \in {"select", "call"} /\ fds > 0
    BY <1>1 DEF ReceiveStatus, ReceiveUnknown, StatusArrives, ReceiveEvent, Call, At, OpenFd
<1>4. ThreadOK'
    <2>1. 0 \in 0..HelloLength
        BY SizeAssumption DEF HelloLength
    <2>2. CASE ReceiveStatus \/ Call
        <3>1. PICK pc \in {"recv", "select"} :
                 \/ thread' = [thread EXCEPT !.pc = pc]
                 \/ thread' = [thread EXCEPT !.pc = pc, !.at = 0, !.got = NoName]
            BY <2>2, NextPacketPlaces DEF ReceiveStatus, Call, Goto
        <3> QED
            BY <1>1, <3>1 DEF TypeOK, ThreadOK
    <2>3. CASE ReceiveUnknown
        BY <1>1, <2>1, <2>3 DEF ReceiveUnknown, TypeOK, ThreadOK
    <2>4. CASE ReceiveEvent
        <3> DEFINE id == Head(toClient).id
        <3>1. Head(toClient) \in Answers /\ Head(toClient).type = "EVENT"
            BY <1>2, <2>4, TailTypes DEF ReceiveEvent
        <3>2. id \in Names
            BY <3>1 DEF Answers, Status
        <3>3. CASE Matches(id) = {}
            <4>1. PICK pc \in {"recv", "select"} : thread' = [thread EXCEPT !.pc = pc]
                BY <2>4, <3>3, NextPacketPlaces DEF ReceiveEvent, Goto
            <4> QED
                BY <1>1, <4>1 DEF TypeOK, ThreadOK
        <3>4. CASE Matches(id) # {}
            <4>1. FirstOf(Matches(id)) \in Slots
                BY <3>4, MatchesSlots
            <4>2. thread' = [thread EXCEPT !.pc = "call", !.at = FirstOf(Matches(id)), !.got = id]
                BY <2>4, <3>4 DEF ReceiveEvent
            <4> HIDE DEF id
            <4> QED
                BY <1>1, <3>2, <4>1, <4>2 DEF TypeOK, ThreadOK
        <3> QED
            BY <3>3, <3>4
    <2> QED
        BY <2>2, <2>3, <2>4
<1>5. /\ toClient' \in Seq(Answers)
      /\ missed' \in BOOLEAN
      /\ UNCHANGED <<link, toServer, held, known>>
    <2>1. Tail(toClient) \in Seq(Answers)
        BY <1>2, TailTypes
    <2>2. toClient' \in {Tail(toClient), toClient} /\ missed' \in {missed, FALSE}
        BY DEF ReceiveStatus, ReceiveUnknown, StatusArrives, ReceiveEvent, Call
    <2>3. UNCHANGED <<link, toServer, held, known>>
        BY DEF ReceiveStatus, ReceiveUnknown, StatusArrives, ReceiveEvent, Call
    <2> QED
        BY <1>1, <1>2, <2>1, <2>2, <2>3 DEF TypeOK
<1>6. NetworkOK'
    BY <1>1, <1>5 DEF TypeOK, NetworkOK
<1>7. SocketsOK'
    <2>1. UNCHANGED <<sockets, fds>> /\ onexit' \in BOOLEAN
        BY <1>1 DEF ReceiveStatus, ReceiveUnknown, StatusArrives, ReceiveEvent, Call, TypeOK
    <2> QED
        BY <1>1, <2>1 DEF TypeOK, SocketsOK, sockets
<1>8. /\ UNCHANGED tables /\ UNCHANGED <<app, wants>> /\ UNCHANGED <<faults, calls, transport, fds>>
    BY DEF ReceiveStatus, ReceiveUnknown, StatusArrives, ReceiveEvent, Call, sockets
<1>9. OpenFd' /\ CallPacket'
    <2>1. thread'.pc = "call" => UNCHANGED toClient
        <3>1. CASE ReceiveStatus \/ Call
            <4>1. PICK pc \in {"recv", "select"} :
                     \/ thread' = [thread EXCEPT !.pc = pc]
                     \/ thread' = [thread EXCEPT !.pc = pc, !.at = 0, !.got = NoName]
                BY <3>1, NextPacketPlaces DEF ReceiveStatus, Call, Goto
            <4> QED
                BY <1>1, <4>1 DEF TypeOK
        <3>2. CASE ReceiveUnknown
            BY <1>1, <3>2 DEF ReceiveUnknown, TypeOK
        <3>3. CASE ReceiveEvent
            BY <1>1, <3>3, NextPacketPlaces DEF ReceiveEvent, Goto, TypeOK
        <3> QED
            BY <3>1, <3>2, <3>3
    <2> QED
        BY <1>2, <1>3, <1>8, <2>1 DEF OpenFd, CallPacket
<1> QED
    BY <1>1, <1>4, <1>6, <1>7, <1>8, <1>9, TablesSame, AppSame, BoundsSame,
       CallsSame, TypePartsNext DEF Inv

\* The connection is closed: its descriptor was open.
LEMMA CloseInv == ASSUME Inv, Close PROVE Inv'
<1>1. TypeOK /\ AppSlot /\ AppWritten /\ OpenFd
    BY DEF Inv
<1>2. fds' \in 0..MaxFds
    BY <1>1, SizeAssumption DEF Close, At, OpenFd, TypeOK
<1>3. SocketsOK'
    BY <1>1, <1>2 DEF Close, TypeOK, SocketsOK
<1>4. ThreadOK' /\ OpenFd' /\ CallPacket'
    BY <1>1 DEF Close, Goto, TypeOK, ThreadOK, OpenFd, CallPacket
<1>5. << >> \in Seq(Packets) /\ << >> \in Seq(Answers)
    OBVIOUS
<1>6. NetworkOK'
    BY <1>1, <1>5 DEF Close, TypeOK, NetworkOK
<1>7. UNCHANGED tables /\ UNCHANGED <<app, wants>> /\ UNCHANGED <<faults, calls, transport>>
    BY DEF Close
<1> QED
    BY <1>1, <1>3, <1>4, <1>6, <1>7, TablesSame, AppSame, BoundsSame, CallsSame,
       TypePartsNext DEF Inv

\* All steps of the connection thread keep the invariant.
LEMMA ThreadInv == ASSUME Inv, Find \/ Thread PROVE Inv'
    BY SimpleThreadInv, OpenInv, HelloInv, ReceiveInv, CloseInv DEF Thread

-----------------------------------------------------------------------------
(* The server and the network.                                               *)

\* The answers of the server.
LEMMA StatusTypes ==
    Status("NOTFOUND") \in Answers /\ Status("NOTSUPPORT") \in Answers
        /\ Status("UNKNOWNCLIENT") \in Answers
    BY DEF Answers

\* A packet more is on its way.
LEMMA AppendTypes ==
    ASSUME NEW S, NEW s \in Seq(S), NEW e \in S
    PROVE  Append(s, e) \in Seq(S) /\ Append(s, e) # << >>
<1>1. Append(s, e) \in Seq(S) /\ Len(Append(s, e)) = Len(s) + 1 /\ Len(s) \in Nat
    OBVIOUS
<1>2. Len(<< >>) = 0
    OBVIOUS
<1> QED
    BY <1>1, <1>2

\* The server reads a packet.
LEMMA ServerReadsInv ==
    ASSUME Inv, ServerReadsId \/ ServerReads
    PROVE  Inv'
<1>1. TypeOK /\ CallPacket
    BY DEF Inv
<1>2. /\ toServer \in Seq(Packets) /\ toServer # << >> /\ toClient \in Seq(Answers)
      /\ link \in {"up", "half", "down"} /\ held \subseteq AllNames \cup {Partial}
      /\ known \in BOOLEAN /\ missed \in BOOLEAN /\ faults \in 0..MaxFaults
    BY <1>1 DEF TypeOK, ServerReadsId, ServerReads
<1>3. Tail(toServer) \in Seq(Packets) /\ Head(toServer) \in Packets /\ << >> \in Seq(Packets)
    BY <1>2, TailTypes
<1>4. \A code \in {"NOTFOUND", "NOTSUPPORT", "UNKNOWNCLIENT"} :
         /\ Append(toClient, Status(code)) \in Seq(Answers)
         /\ Append(toClient, Status(code)) # << >>
    BY <1>2, StatusTypes, AppendTypes
<1>5. CASE ServerReadsId
    <2>1. PICK ok \in Versions :
             /\ toClient' = Append(toClient, Status(IF ok THEN "NOTFOUND" ELSE "NOTSUPPORT"))
             /\ known' = (ok /\ transport = "udp")
             /\ held' = IF ok THEN held ELSE {}
             /\ IF ok \/ transport = "udp"
                THEN toServer' = Tail(toServer) /\ UNCHANGED link
                ELSE toServer' = << >> /\ link' = "down"
        BY <1>5 DEF ServerReadsId
    <2>2. toClient' \in Seq(Answers) /\ toClient' # << >>
        BY <1>4, <2>1
    <2>3. NetworkOK'
        BY <1>2, <1>3, <1>5, <2>1, <2>2, ChoiceAssumption DEF ServerReadsId, NetworkOK
    <2>4. CallPacket'
        BY <2>2 DEF CallPacket
    <2> QED
        BY <1>2, <1>5, <2>3, <2>4, OnlyNetwork DEF ServerReadsId
<1>6. CASE ServerReads
    <2> DEFINE p == Head(toServer)
               unknown == transport = "udp" /\ ~known
    <2>1. /\ toServer' = Tail(toServer)
          /\ toClient' = IF unknown THEN Append(toClient, Status("UNKNOWNCLIENT")) ELSE toClient
          /\ \/ held' = held
             \/ Tells(p.type) /\ held' = held \cup {p.id}
             \/ held' = held \ {p.id}
          /\ UNCHANGED <<link, known, missed, faults>>
        BY <1>6 DEF ServerReads
    <2>2. Tells(p.type) => p.id \in AllNames \cup {Partial}
        BY <1>3 DEF Tells, Packets
    <2>3. held' \subseteq AllNames \cup {Partial}
        BY <1>2, <2>1, <2>2
    <2>4. toClient' \in Seq(Answers) /\ (toClient # << >> => toClient' # << >>)
        BY <1>2, <1>4, <2>1
    <2>5. NetworkOK'
        BY <1>2, <1>3, <2>1, <2>3, <2>4 DEF NetworkOK
    <2>6. CallPacket'
        BY <1>1, <1>6, <2>4 DEF CallPacket, ServerReads
    <2> QED
        BY <1>2, <1>6, <2>5, <2>6, OnlyNetwork DEF ServerReads
<1> QED
    BY <1>5, <1>6

\* The server closes a connection, the network loses one or a datagram, or the
\* server restarts.
LEMMA FaultInv ==
    ASSUME Inv, ServerCloses \/ Break \/ Restart \/ Lose
    PROVE  Inv'
<1>1. TypeOK /\ CallPacket
    BY DEF Inv
<1>2. /\ toServer \in Seq(Packets) /\ toClient \in Seq(Answers)
      /\ << >> \in Seq(Packets) /\ << >> \in Seq(Answers)
      /\ toServer # << >> => Tail(toServer) \in Seq(Packets)
      /\ toClient # << >> => Tail(toClient) \in Seq(Answers)
    BY <1>1, TailTypes DEF TypeOK
<1>3. faults' \in 0..MaxFaults
    BY <1>1, SizeAssumption DEF TypeOK, ServerCloses, Break, Restart, Lose
<1>4. toServer' \in Seq(Packets) /\ toClient' \in Seq(Answers)
    BY <1>2 DEF ServerCloses, Break, Restart, Lose
<1>5. /\ link' \in {link, "down"}
      /\ held' \in {held, {}}
      /\ known' \in {known, FALSE}
      /\ missed' \in BOOLEAN
    BY <1>1 DEF TypeOK, ServerCloses, Break, Restart, Lose
<1>6. NetworkOK'
    BY <1>1, <1>4, <1>5 DEF TypeOK, NetworkOK
<1>7. UNCHANGED <<tables, sockets, onexit, thread, app, fds, calls, wants>>
    BY DEF ServerCloses, Break, Restart, Lose
<1>8. CallPacket'
    BY <1>1, <1>7 DEF CallPacket, ServerCloses, Break, Restart, Lose, At
<1> QED
    BY <1>3, <1>6, <1>7, <1>8, OnlyNetwork

\* An event is sent to the client.
LEMMA PublishInv ==
    ASSUME Inv, NEW n \in Names, Publish(n)
    PROVE  Inv'
<1>1. TypeOK
    BY DEF Inv
<1>2. [type |-> "EVENT", id |-> n] \in Answers
    BY DEF Answers
<1>3. toClient' \in Seq(Answers) /\ toClient' # << >>
    BY <1>1, <1>2, AppendTypes DEF TypeOK, Publish
<1>4. NetworkOK'
    BY <1>1, <1>3 DEF TypeOK, NetworkOK, Publish
<1>5. CallPacket' /\ faults' \in 0..MaxFaults
    BY <1>1, <1>3 DEF CallPacket, TypeOK, Publish
<1> QED
    BY <1>4, <1>5, OnlyNetwork DEF Publish

-----------------------------------------------------------------------------
(* The application.                                                          *)

\* A step of the application leaves the thread and its packets alone.
LEMMA OnlyApp ==
    ASSUME Inv, TablesOK', AppOK', NetworkOK', AppSlot', AppWritten',
           onexit' \in BOOLEAN, calls' \in 0..MaxCalls[transport],
           UNCHANGED <<sockets, thread, toClient, fds, faults>>
    PROVE  Inv'
<1>1. UNCHANGED transport /\ TypeOK /\ OpenFd /\ CallPacket
    BY DEF Inv, sockets
<1>2. SocketsOK'
    BY <1>1 DEF TypeOK, SocketsOK, sockets
<1>3. ThreadOK' /\ OpenFd' /\ CallPacket'
    BY <1>1 DEF TypeOK, ThreadOK, OpenFd, CallPacket
<1>4. BoundsOK'
    BY <1>1 DEF TypeOK, BoundsOK
<1> QED
    BY <1>2, <1>3, <1>4, TypePartsNext DEF Inv

\* A further call is within the bound.
LEMMA CallCounted ==
    ASSUME TypeOK, calls < MaxCalls[transport], calls' = calls + 1
    PROVE  calls' \in 0..MaxCalls[transport]
<1>1. MaxCalls[transport] \in Nat
    BY SizeAssumption DEF TypeOK
<1> QED
    BY <1>1 DEF TypeOK

\* A call that has returned works on nothing.
LEMMA IdleTypes ==
    ASSUME TypeOK, app' = Idle
    PROVE  /\ app' \in [call : {"none", "subscribe", "unsubscribe", "channel", "disconnect"},
                        id : AllNames \cup {NoName}, at : Slots \cup ChannelSlots \cup {0},
                        step : {"none", "id", "send", "free", "shutdown", "join", "freed"}]
           /\ AppSlot' /\ AppWritten'
    BY DEF Idle, AppSlot, AppWritten

\* A subscription finds a slot of its name, or a free one.
LEMMA SlotForSlots ==
    ASSUME NEW n, SlotFor(n) # {}
    PROVE  FirstOf(SlotFor(n)) \in Slots /\ FirstOf(SlotFor(n)) \in SlotFor(n)
<1>1. SlotFor(n) \in SUBSET Nat /\ SlotFor(n) \subseteq Slots
    BY SizeAssumption DEF SlotFor, Matches, Slots
<1> QED
    BY <1>1, FirstOfIn

\* A slot of the table gets a name, or a name and a callback.
LEMMA IdWritten ==
    ASSUME NEW Ids, NEW Cbs, NEW f \in [Slots -> [id : Ids, cb : Cbs]],
           NEW s \in Slots, NEW id \in Ids
    PROVE  [f EXCEPT ![s].id = id] \in [Slots -> [id : Ids, cb : Cbs]]
    OBVIOUS

\* The same with a callback.
LEMMA SlotTaken ==
    ASSUME NEW f \in [Slots -> [id : Names \cup {NoName, Partial}, cb : Names \cup {NoName}]],
           NEW s \in Slots, NEW n \in Names, NEW kind
    PROVE  [f EXCEPT ![s].id = Partial, ![s].cb = IF kind = "callback" THEN n ELSE @]
               \in [Slots -> [id : Names \cup {NoName, Partial}, cb : Names \cup {NoName}]]
<1> DEFINE g == [f EXCEPT ![s].id = Partial]
<1>1. g \in [Slots -> [id : Names \cup {NoName, Partial}, cb : Names \cup {NoName}]]
    BY IdWritten
<1> HIDE DEF g
<1>2. [g EXCEPT ![s].cb = IF kind = "callback" THEN n ELSE @]
          \in [Slots -> [id : Names \cup {NoName, Partial}, cb : Names \cup {NoName}]]
    BY <1>1
<1> QED
    BY <1>2 DEF g

\* syncs_subscribe_event takes a slot.
LEMMA SubscribeInv ==
    ASSUME Inv, NEW n \in Names, NEW kind \in Kinds, Subscribe(n, kind)
    PROVE  Inv'
<1> DEFINE s == FirstOf(SlotFor(n))
<1>1. TypeOK /\ s \in Slots
    BY SlotForSlots DEF Inv, Subscribe
<1>2. /\ events' = [events EXCEPT ![s].id = Partial,
                                   ![s].cb = IF kind = "callback" THEN n ELSE @]
      /\ app' = [call |-> "subscribe", id |-> n, at |-> s, step |-> "id"]
      /\ wants' = [wants EXCEPT ![n] = kind]
      /\ UNCHANGED <<channels, sockets, onexit, thread, network, fds, faults>>
    BY DEF Subscribe
<1> HIDE DEF s
<1>3. TablesOK'
    BY <1>1, <1>2, SlotTaken DEF TypeOK, TablesOK
<1>4. AppOK'
    BY <1>1, <1>2, ChoiceAssumption DEF TypeOK, AppOK, AllNames
<1>5. AppSlot' /\ AppWritten'
    BY <1>1, <1>2 DEF AppSlot, AppWritten
<1>6. calls' \in 0..MaxCalls[transport]
    BY <1>1, CallCounted DEF Subscribe
<1>7. NetworkOK' /\ onexit' \in BOOLEAN
    BY <1>1, <1>2, NetworkSame DEF TypeOK
<1> QED
    BY <1>2, <1>3, <1>4, <1>5, <1>6, <1>7, OnlyApp DEF network

\* syncs_unsubscribe_event sends.
LEMMA UnsubscribeInv ==
    ASSUME Inv, NEW n \in Names, Unsubscribe(n)
    PROVE  Inv'
<1> DEFINE s == FirstOf(Matches(n))
<1>1. TypeOK /\ s \in Slots
    BY MatchesSlots DEF Inv, Unsubscribe
<1>2. /\ Send("UNSUBSCRIBE", n)
      /\ app' = [call |-> "unsubscribe", id |-> n, at |-> s, step |-> "free"]
      /\ wants' = [wants EXCEPT ![n] = "no"]
      /\ UNCHANGED <<tables, sockets, onexit, thread, fds, faults>>
    BY DEF Unsubscribe
<1> HIDE DEF s
<1>3. AppOK'
    BY <1>1, <1>2 DEF TypeOK, AppOK, AllNames
<1>4. AppSlot' /\ AppWritten'
    BY <1>1, <1>2 DEF AppSlot, AppWritten
<1>5. calls' \in 0..MaxCalls[transport]
    BY <1>1, CallCounted DEF Unsubscribe
<1>6. [type |-> "UNSUBSCRIBE", id |-> n] \in Packets
    BY DEF Packets, AllNames
<1>7. NetworkOK' /\ onexit' \in BOOLEAN /\ UNCHANGED toClient
    BY <1>1, <1>2, <1>6, SendTypes DEF TypeOK, NetworkOK
<1> QED
    BY <1>1, <1>2, <1>3, <1>4, <1>5, <1>7, TablesSame, OnlyApp

\* syncs_channel_anons takes a free slot.
LEMMA ChannelAnonsInv ==
    ASSUME Inv, NEW n \in ChannelNames, ChannelAnons(n)
    PROVE  Inv'
<1> DEFINE free == {t \in ChannelSlots : channels[t] = NoName}
           s == FirstOf(free)
<1>1. TypeOK /\ s \in ChannelSlots
    <2>1. free \in SUBSET Nat /\ free # {}
        BY SizeAssumption DEF ChannelSlots, ChannelAnons
    <2>2. s \in free
        BY <2>1, FirstOfIn
    <2> QED
        BY <2>2 DEF Inv
<1>2. /\ channels' = [channels EXCEPT ![s] = Partial]
      /\ app' = [call |-> "channel", id |-> n, at |-> s, step |-> "id"]
      /\ wants' = [wants EXCEPT ![n] = "callback"]
      /\ UNCHANGED <<events, sockets, onexit, thread, network, fds, faults>>
    BY DEF ChannelAnons
<1> HIDE DEF s
<1>3. TablesOK'
    BY <1>1, <1>2 DEF TypeOK, TablesOK
<1>4. AppOK'
    BY <1>1, <1>2 DEF TypeOK, AppOK, AllNames
<1>5. AppSlot' /\ AppWritten'
    BY <1>1, <1>2 DEF AppSlot, AppWritten
<1>6. calls' \in 0..MaxCalls[transport]
    BY <1>1, CallCounted DEF ChannelAnons
<1>7. NetworkOK' /\ onexit' \in BOOLEAN
    BY <1>1, <1>2, NetworkSame DEF TypeOK
<1> QED
    BY <1>2, <1>3, <1>4, <1>5, <1>6, <1>7, OnlyApp DEF network

\* The ids are written.
LEMMA WriteIdInv ==
    ASSUME Inv, SubscribeId \/ ChannelId
    PROVE  Inv'
<1>1. TypeOK /\ AppSlot
    BY DEF Inv
<1>2. /\ app' = [app EXCEPT !.step = "send"]
      /\ UNCHANGED <<sockets, onexit, thread, network, fds, faults, calls, wants>>
    BY DEF SubscribeId, ChannelId
<1>3. AppOK'
    BY <1>1, <1>2 DEF TypeOK, AppOK
<1>4. TablesOK' /\ AppSlot' /\ AppWritten'
    <2>1. CASE SubscribeId
        <3>1. /\ app.call = "subscribe" /\ app.at \in Slots /\ app.id \in Names
              /\ events' = [events EXCEPT ![app.at].id = app.id] /\ UNCHANGED channels
            BY <1>1, <2>1 DEF SubscribeId, AppSlot
        <3>2. TablesOK'
            BY <1>1, <3>1, IdWritten DEF TypeOK, TablesOK
        <3>3. /\ app'.call = "subscribe" /\ app'.at = app.at /\ app'.id = app.id
              /\ events'[app.at].id = app.id
            BY <1>1, <1>2, <3>1 DEF TypeOK
        <3> QED
            BY <3>1, <3>2, <3>3 DEF AppSlot, AppWritten
    <2>2. CASE ChannelId
        BY <1>1, <1>2, <2>2 DEF ChannelId, TypeOK, TablesOK, AppSlot, AppWritten
    <2> QED
        BY <2>1, <2>2
<1>5. NetworkOK' /\ onexit' \in BOOLEAN /\ calls' \in 0..MaxCalls[transport]
    BY <1>1, <1>2, NetworkSame DEF TypeOK
<1> QED
    BY <1>2, <1>3, <1>4, <1>5, OnlyApp DEF network

\* The names are sent.
LEMMA WriteSendInv ==
    ASSUME Inv, SubscribeSend \/ ChannelSend
    PROVE  Inv'
<1>1. TypeOK /\ AppSlot /\ AppWritten
    BY DEF Inv
<1>2. app' = Idle /\ UNCHANGED <<tables, sockets, onexit, thread, fds, faults, calls, wants>>
    BY DEF SubscribeSend, ChannelSend
<1>3. AppOK' /\ AppSlot' /\ AppWritten'
    BY <1>1, <1>2, IdleTypes DEF TypeOK, AppOK
<1>4. PICK type \in {"SUBSCRIBE", "CHANNEL"}, id \in AllNames, k \in Nat : SendIfTcp(type, id, k)
    <2>1. \A t \in Slots \cup ChannelSlots : t \in Nat /\ MaxEvents + t \in Nat
        BY SizeAssumption DEF Slots, ChannelSlots
    <2> QED
        BY <1>1, <2>1 DEF SubscribeSend, ChannelSend, AppSlot, AppWritten, AllNames
<1>5. [type |-> type, id |-> id] \in Packets
    BY DEF Packets
<1>6. NetworkOK' /\ UNCHANGED toClient
    <2>1. CASE Send(type, id)
        BY <1>1, <1>5, <2>1, SendTypes DEF TypeOK, NetworkOK
    <2>2. CASE missed' \in BOOLEAN /\ UNCHANGED <<link, toServer, toClient, held, known>>
        BY <1>1, <2>2 DEF TypeOK, NetworkOK
    <2> QED
        BY <1>1, <1>4, <2>1, <2>2 DEF SendIfTcp, TypeOK
<1>7. onexit' \in BOOLEAN /\ calls' \in 0..MaxCalls[transport]
    BY <1>1, <1>2 DEF TypeOK
<1> QED
    BY <1>1, <1>2, <1>3, <1>6, <1>7, TablesSame, OnlyApp

\* syncs_unsubscribe_event frees the slot.
LEMMA UnsubscribeFreeInv ==
    ASSUME Inv, UnsubscribeFree
    PROVE  Inv'
<1>1. TypeOK /\ AppSlot
    BY DEF Inv
<1>2. AppOK' /\ AppSlot' /\ AppWritten'
    BY <1>1, IdleTypes DEF TypeOK, AppOK, UnsubscribeFree
<1>3. TablesOK'
    BY <1>1 DEF TypeOK, TablesOK, UnsubscribeFree, AppSlot
<1>4. NetworkOK' /\ onexit' \in BOOLEAN /\ calls' \in 0..MaxCalls[transport]
    BY <1>1, NetworkSame DEF TypeOK, UnsubscribeFree
<1> QED
    BY <1>2, <1>3, <1>4, OnlyApp DEF UnsubscribeFree, network

\* A write over UDP.
LEMMA WriteInv == ASSUME Inv, Write PROVE Inv'
<1>1. TypeOK /\ AppSlot /\ AppWritten
    BY DEF Inv
<1>2. [type |-> "WRITE", id |-> NoName] \in Packets
    BY DEF Packets
<1>3. NetworkOK' /\ UNCHANGED toClient
    BY <1>1, <1>2, SendTypes DEF Write, TypeOK, NetworkOK
<1>4. /\ UNCHANGED tables /\ UNCHANGED <<app, wants>> /\ UNCHANGED <<tables, app>>
      /\ onexit' \in BOOLEAN /\ calls' \in 0..MaxCalls[transport]
    BY <1>1 DEF Write, TypeOK
<1> QED
    BY <1>1, <1>3, <1>4, TablesSame, AppSame, CallsSame, OnlyApp DEF Write

\* syncs_disconnect
LEMMA DisconnectInv ==
    ASSUME Inv, Disconnect \/ DisconnectShutdown \/ DisconnectJoin
    PROVE  Inv'
<1>1. TypeOK
    BY DEF Inv
<1>2. AppOK' /\ AppSlot' /\ AppWritten'
    <2>1. CASE Disconnect
        BY <1>1, <2>1 DEF Disconnect, Idle, TypeOK, AppOK, AppSlot, AppWritten
    <2>2. CASE DisconnectShutdown \/ DisconnectJoin
        <3>1. PICK step \in {"join", "freed"} : app' = [app EXCEPT !.step = step]
            BY <2>2 DEF DisconnectShutdown, DisconnectJoin
        <3>2. app.call = "disconnect" /\ UNCHANGED wants
            BY <2>2 DEF DisconnectShutdown, DisconnectJoin
        <3>3. app'.call = "disconnect" /\ AppOK'
            BY <1>1, <3>1, <3>2 DEF TypeOK, AppOK
        <3> QED
            BY <3>3 DEF AppSlot, AppWritten
    <2> QED
        BY <2>1, <2>2
<1>3. calls' \in 0..MaxCalls[transport]
    <2>1. CASE Disconnect
        BY <1>1, <2>1, CallCounted DEF Disconnect
    <2>2. CASE DisconnectShutdown \/ DisconnectJoin
        BY <1>1, <2>2 DEF DisconnectShutdown, DisconnectJoin, TypeOK
    <2> QED
        BY <2>1, <2>2
<1>4. NetworkOK' /\ UNCHANGED toClient
    BY <1>1 DEF Disconnect, DisconnectShutdown, DisconnectJoin, network, TypeOK, NetworkOK
<1>5. /\ UNCHANGED tables /\ onexit' \in BOOLEAN
      /\ UNCHANGED <<sockets, thread, fds, faults>>
    BY <1>1 DEF Disconnect, DisconnectShutdown, DisconnectJoin, TypeOK
<1> QED
    BY <1>1, <1>2, <1>3, <1>4, <1>5, TablesSame, OnlyApp

\* All steps of the application keep the invariant.
LEMMA AppInv == ASSUME Inv, AppCalls \/ AppReturns PROVE Inv'
    BY SubscribeInv, UnsubscribeInv, ChannelAnonsInv, WriteIdInv, WriteSendInv,
       UnsubscribeFreeInv, WriteInv, DisconnectInv DEF AppCalls, AppReturns

-----------------------------------------------------------------------------
(* The invariant.                                                            *)

\* The initial states satisfy the invariant.
LEMMA InitInv == Init => Inv
<1> SUFFICES ASSUME Init PROVE Inv
    OBVIOUS
<1>1. TablesOK
    BY DEF Init, TablesOK
<1>2. SocketsOK
    <2>1. fds \in 0..MaxFds
        BY SizeAssumption DEF Init
    <2> QED
        BY <2>1 DEF Init, SocketsOK
<1>3. ThreadOK
    BY SizeAssumption DEF Init, ThreadOK, HelloLength
<1>4. AppOK
    BY DEF Init, AppOK, Idle
<1>5. NetworkOK
    <2>1. << >> \in Seq(Packets) /\ << >> \in Seq(Answers)
        OBVIOUS
    <2> QED
        BY <2>1 DEF Init, NetworkOK
<1>6. BoundsOK
    BY SizeAssumption DEF Init, BoundsOK
<1>7. AppSlot /\ AppWritten
    BY DEF Init, Idle, AppSlot, AppWritten
<1>8. OpenFd /\ CallPacket
    <2>1. thread.pc \in {"find", "while"}
        BY DEF Init
    <2> QED
        BY <2>1 DEF OpenFd, CallPacket
<1> QED
    BY <1>1, <1>2, <1>3, <1>4, <1>5, <1>6, <1>7, <1>8, TypeParts DEF Inv

\* Every step keeps the invariant.
LEMMA NextInv == Inv /\ [Next]_vars => Inv'
<1> SUFFICES ASSUME Inv, [Next]_vars PROVE Inv'
    OBVIOUS
<1>1. CASE Find \/ Thread
    BY <1>1, ThreadInv
<1>2. CASE AppCalls \/ AppReturns
    BY <1>2, AppInv
<1>3. CASE Server \/ Break \/ Restart \/ Lose
    BY <1>3, ServerReadsInv, FaultInv DEF Server
<1>4. CASE \E n \in Names : Publish(n)
    BY <1>4, PublishInv
<1>5. CASE UNCHANGED vars
    BY <1>5 DEF vars, Inv, TypeOK, AppSlot, AppWritten, OpenFd, CallPacket
<1> QED
    BY <1>1, <1>2, <1>3, <1>4, <1>5 DEF Next

(* The session keeps its types, for tables of any size, any buffer and every  *)
(* number of calls and faults; in particular syncs_send_id stays inside the   *)
(* tables (client.c:350-363), and syncs_udpconnect_thread closes a descriptor *)
(* only after it was opened.                                                  *)
THEOREM SessionTypeCorrect == Spec => []TypeOK
<1>1. Inv => TypeOK
    BY DEF Inv
<1> QED
    BY InitInv, NextInv, <1>1, PTL DEF Spec

-----------------------------------------------------------------------------
(* One slot for each name.                                                   *)

\* Most steps leave the table alone and do not begin to write an id.
LEMMA UniqueSame ==
    ASSUME SlotsUnique, AppAlone, UNCHANGED events,
           app' = app \/ ~(app'.call = "subscribe" /\ app'.step = "id")
    PROVE  SlotsUnique' /\ AppAlone'
    BY DEF SlotsUnique, AppAlone

\* The slot a subscription takes is the only one that can get its name.
LEMMA SubscribeUnique ==
    ASSUME Inv, SlotsUnique, NEW n \in Names, NEW kind \in Kinds, Subscribe(n, kind)
    PROVE  SlotsUnique' /\ AppAlone'
<1> DEFINE s == FirstOf(SlotFor(n))
<1>1. s \in Slots /\ s \in SlotFor(n)
    BY SlotForSlots DEF Subscribe
<1>2. events \in [Slots -> [id : Names \cup {NoName, Partial}, cb : Names \cup {NoName}]]
    BY DEF Inv, TypeOK
\* The slot has the name, and no other one; or no slot has it.
<1>3. \A t \in Slots \ {s} : events[t].id # n
    BY <1>1 DEF SlotFor, Matches, SlotsUnique
<1>4. /\ events' = [events EXCEPT ![s].id = Partial,
                                   ![s].cb = IF kind = "callback" THEN n ELSE @]
      /\ app' = [call |-> "subscribe", id |-> n, at |-> s, step |-> "id"]
    BY DEF Subscribe
<1> HIDE DEF s
<1>5. \A t \in Slots : events'[t].id = IF t = s THEN Partial ELSE events[t].id
    BY <1>1, <1>2, <1>4
<1>6. SlotsUnique'
    BY <1>5, NameAssumption DEF SlotsUnique
<1>7. AppAlone'
    BY <1>3, <1>4, <1>5 DEF AppAlone
<1> QED
    BY <1>6, <1>7

\* The name is written: no other slot has it.
LEMMA SubscribeIdUnique ==
    ASSUME Inv, SlotsUnique, AppAlone, SubscribeId
    PROVE  SlotsUnique' /\ AppAlone'
<1>1. /\ events \in [Slots -> [id : Names \cup {NoName, Partial}, cb : Names \cup {NoName}]]
      /\ app.at \in Slots
      /\ \A t \in Slots \ {app.at} : events[t].id # app.id
    BY DEF Inv, TypeOK, AppSlot, AppAlone, SubscribeId
<1>2. events' = [events EXCEPT ![app.at].id = app.id] /\ app' = [app EXCEPT !.step = "send"]
    BY DEF SubscribeId
<1>3. \A t \in Slots : events'[t].id = IF t = app.at THEN app.id ELSE events[t].id
    BY <1>1, <1>2
<1>4. SlotsUnique'
    BY <1>1, <1>3 DEF SlotsUnique
<1>5. app'.step = "send"
    BY <1>2 DEF Inv, TypeOK
<1> QED
    BY <1>4, <1>5 DEF AppAlone

\* A slot that is freed has no name.
LEMMA UnsubscribeFreeUnique ==
    ASSUME Inv, SlotsUnique, UnsubscribeFree
    PROVE  SlotsUnique' /\ AppAlone'
<1>1. /\ events \in [Slots -> [id : Names \cup {NoName, Partial}, cb : Names \cup {NoName}]]
      /\ app.at \in Slots
    BY DEF Inv, TypeOK, AppSlot, UnsubscribeFree
<1>2. events' = [events EXCEPT ![app.at].id = NoName] /\ app' = Idle
    BY DEF UnsubscribeFree
<1>3. \A t \in Slots : events'[t].id = IF t = app.at THEN NoName ELSE events[t].id
    BY <1>1, <1>2
<1>4. SlotsUnique'
    BY <1>3, NameAssumption DEF SlotsUnique
<1> QED
    BY <1>2, <1>4 DEF AppAlone, Idle

\* Every step keeps names in one slot.
LEMMA NextUnique ==
    ASSUME Inv, SlotsUnique, AppAlone, [Next]_vars
    PROVE  SlotsUnique' /\ AppAlone'
<1>1. CASE Find \/ Thread
    <2>1. UNCHANGED <<events, app>>
        BY <1>1 DEF Find, Thread, While, Open, OpenFails, Hello, Recv, ReceiveStatus,
                    ReceiveUnknown, StatusArrives, ReceiveEvent, Call, EndOfFile, Close, tables
    <2> QED
        BY <2>1, UniqueSame
<1>2. CASE Server \/ Break \/ Restart \/ Lose \/ \E n \in Names : Publish(n)
    <2>1. UNCHANGED <<events, app>>
        BY <1>2 DEF Server, ServerReadsId, ServerReads, ServerCloses, Break, Restart, Lose,
                    Publish, tables
    <2> QED
        BY <2>1, UniqueSame
<1>3. CASE \E n \in Names, kind \in Kinds : Subscribe(n, kind)
    BY <1>3, SubscribeUnique
<1>4. CASE SubscribeId
    BY <1>4, SubscribeIdUnique
<1>5. CASE UnsubscribeFree
    BY <1>5, UnsubscribeFreeUnique
<1>6. CASE \/ \E n \in Names : Unsubscribe(n)
           \/ \E n \in ChannelNames : ChannelAnons(n)
           \/ Write \/ Disconnect \/ SubscribeSend \/ ChannelId \/ ChannelSend
           \/ DisconnectShutdown \/ DisconnectJoin
    <2>1. UNCHANGED events
        BY <1>6 DEF Unsubscribe, ChannelAnons, Write, Disconnect, SubscribeSend, ChannelId,
                    ChannelSend, DisconnectShutdown, DisconnectJoin, tables
    <2>2. app' = app \/ ~(app'.call = "subscribe" /\ app'.step = "id")
        <3>1. CASE Write \/ SubscribeSend \/ ChannelSend \/ Disconnect
            <4>1. app' = app \/ app' = Idle \/ app' = [Idle EXCEPT !.call = "disconnect", !.step = "shutdown"]
                BY <3>1 DEF Write, SubscribeSend, ChannelSend, Disconnect
            <4>2. Idle.call = "none"
                BY DEF Idle
            <4>3. [Idle EXCEPT !.call = "disconnect", !.step = "shutdown"].call = "disconnect"
                BY DEF Idle
            <4> QED
                BY <4>1, <4>2, <4>3
        <3>2. CASE ChannelId \/ DisconnectShutdown \/ DisconnectJoin
            BY <3>2 DEF ChannelId, DisconnectShutdown, DisconnectJoin, Inv, TypeOK
        <3>3. CASE \/ \E n \in Names : Unsubscribe(n)
                   \/ \E n \in ChannelNames : ChannelAnons(n)
            <4>1. ASSUME NEW n \in Names, Unsubscribe(n) PROVE app'.call = "unsubscribe"
                BY <4>1 DEF Unsubscribe
            <4>2. ASSUME NEW n \in ChannelNames, ChannelAnons(n) PROVE app'.call = "channel"
                BY <4>2 DEF ChannelAnons
            <4> QED
                BY <3>3, <4>1, <4>2
        <3> QED
            BY <1>6, <3>1, <3>2, <3>3
    <2> QED
        BY <2>1, <2>2, UniqueSame
<1>7. CASE UNCHANGED vars
    BY <1>7, UniqueSame DEF vars
<1> QED
    BY <1>1, <1>2, <1>3, <1>4, <1>5, <1>6, <1>7 DEF Next, AppCalls, AppReturns

(* A name is in one slot of the client's table (client.c:84-90), however the  *)
(* application subscribes, unsubscribes and subscribes again.  While the id   *)
(* of a slot is being written no slot holds it, and no other one gets it.     *)
THEOREM SessionSlotsUnique == Spec => []SlotsUnique
<1>1. Init => Inv /\ SlotsUnique /\ AppAlone
    BY InitInv, NameAssumption DEF Init, SlotsUnique, AppAlone, Idle
<1>2. (Inv /\ SlotsUnique /\ AppAlone) /\ [Next]_vars => (Inv /\ SlotsUnique /\ AppAlone)'
    BY NextInv, NextUnique
<1> QED
    BY <1>1, <1>2, PTL DEF Spec

-----------------------------------------------------------------------------
(* What is on its way to the server.                                         *)

\* Packets about a name; the last one on its way comes after packet c and is
\* not an UNSUBSCRIBE.
Mention(p, n) == p.id = n /\ p.type # "CLIENT_ID"
Unmentioned(s, n) == \A j \in DOMAIN s : ~Mention(s[j], n)
Announced(s, n, c) ==
    \E k \in DOMAIN s :
        /\ k > c
        /\ Mention(s[k], n)
        /\ \A j \in DOMAIN s : Mention(s[j], n) => j <= k
        /\ s[k].type # "UNSUBSCRIBE"

\* Each introduction that is on its way is followed by the name.
Introduced(s, n) ==
    \A c \in DOMAIN s : s[c].type = "CLIENT_ID" => Announced(s, n, c)

\* A server that holds the names H and reads s will hold the name.
Holds(s, H, n) == (Unmentioned(s, n) /\ n \in H) \/ Announced(s, n, 0)

\* The first packet and the rest of a queue.
LEMMA HeadAndTail ==
    ASSUME NEW S, NEW s \in Seq(S), s # << >>
    PROVE  /\ Len(s) \in Nat \ {0} /\ DOMAIN s = 1..Len(s)
           /\ Head(s) = s[1] /\ Head(s) \in S
           /\ Tail(s) \in Seq(S) /\ Len(Tail(s)) = Len(s) - 1
           /\ DOMAIN Tail(s) = 1..Len(s) - 1
           /\ \A i \in 1..Len(s) - 1 : Tail(s)[i] = s[i + 1]
<1>1. /\ Len(s) \in Nat \ {0} /\ DOMAIN s = 1..Len(s)
      /\ Head(s) = s[1] /\ Head(s) \in S
      /\ Tail(s) \in Seq(S) /\ Len(Tail(s)) = Len(s) - 1
      /\ \A i \in 1..Len(s) - 1 : Tail(s)[i] = s[i + 1]
    BY HeadTailProperties
<1>2. DOMAIN Tail(s) = 1..Len(Tail(s))
    BY <1>1
<1> QED
    BY <1>1, <1>2

\* A queue with one packet more.
LEMMA OneMore ==
    ASSUME NEW S, NEW s \in Seq(S), NEW p \in S
    PROVE  /\ Append(s, p) \in Seq(S) /\ Len(s) \in Nat /\ DOMAIN s = 1..Len(s)
           /\ DOMAIN Append(s, p) = 1..Len(s) + 1
           /\ \A i \in 1..Len(s) : Append(s, p)[i] = s[i]
           /\ Append(s, p)[Len(s) + 1] = p
<1>1. /\ Append(s, p) \in Seq(S) /\ Len(s) \in Nat /\ DOMAIN s = 1..Len(s)
      /\ Len(Append(s, p)) = Len(s) + 1
      /\ \A i \in 1..Len(s) : Append(s, p)[i] = s[i]
      /\ Append(s, p)[Len(s) + 1] = p
    BY AppendProperties
<1>2. DOMAIN Append(s, p) = 1..Len(Append(s, p))
    BY <1>1
<1> QED
    BY <1>1, <1>2

\* A packet about something else leaves what was announced.
LEMMA AppendOther ==
    ASSUME NEW s \in Seq(Packets), NEW p \in Packets, NEW n, ~Mention(p, n)
    PROVE  /\ \A c \in Nat : Announced(s, n, c) => Announced(Append(s, p), n, c)
           /\ Unmentioned(s, n) => Unmentioned(Append(s, p), n)
<1> DEFINE t == Append(s, p)
<1>1. PICK l \in Nat : l = Len(s)
    OBVIOUS
<1>2. /\ DOMAIN s = 1..l /\ DOMAIN t = 1..l + 1 /\ t[l + 1] = p
      /\ \A i \in 1..l : t[i] = s[i]
    BY <1>1, OneMore
<1> HIDE DEF t
<1>3. \A j \in DOMAIN t : Mention(t[j], n) => j \in DOMAIN s /\ t[j] = s[j]
    BY <1>2
<1>4. DOMAIN s \subseteq DOMAIN t /\ \A j \in DOMAIN s : t[j] = s[j]
    BY <1>2
<1>5. Unmentioned(s, n) => Unmentioned(t, n)
    BY <1>3 DEF Unmentioned
<1>6. ASSUME NEW c \in Nat, Announced(s, n, c) PROVE Announced(t, n, c)
    <2>1. PICK k \in DOMAIN s : /\ k > c
                                /\ Mention(s[k], n)
                                /\ \A j \in DOMAIN s : Mention(s[j], n) => j <= k
                                /\ s[k].type # "UNSUBSCRIBE"
        BY <1>6 DEF Announced
    <2>2. \A j \in DOMAIN t : Mention(t[j], n) => j <= k
        BY <1>3, <2>1
    <2> QED
        BY <1>4, <2>1, <2>2 DEF Announced
<1> QED
    BY <1>5, <1>6 DEF t

\* A packet that tells the server of the name announces it for good.
LEMMA AppendTells ==
    ASSUME NEW s \in Seq(Packets), NEW p \in Packets, NEW n, Mention(p, n), p.type # "UNSUBSCRIBE"
    PROVE  \A c \in 0..Len(s) : Announced(Append(s, p), n, c)
<1> DEFINE t == Append(s, p)
<1>1. PICK l \in Nat : l = Len(s)
    OBVIOUS
<1>2. DOMAIN t = 1..l + 1 /\ t[l + 1] = p
    BY <1>1, OneMore
<1> HIDE DEF t
<1>3. \A c \in 0..l : l + 1 > c
    BY <1>1
<1>4. l + 1 \in DOMAIN t /\ \A j \in DOMAIN t : j <= l + 1
    BY <1>2
<1> QED
    BY <1>1, <1>2, <1>3, <1>4 DEF t, Announced

\* The client sends something else, and no introduction ...
LEMMA SentOther ==
    ASSUME NEW s \in Seq(Packets), NEW p \in Packets, NEW n, ~Mention(p, n),
           p.type # "CLIENT_ID"
    PROVE  /\ Introduced(s, n) => Introduced(Append(s, p), n)
           /\ \A H : Holds(s, H, n) => Holds(Append(s, p), H, n)
<1> DEFINE t == Append(s, p)
<1>1. PICK l \in Nat : l = Len(s)
    OBVIOUS
<1>2. /\ DOMAIN s = 1..l /\ DOMAIN t = 1..l + 1 /\ t[l + 1] = p
      /\ \A i \in 1..l : t[i] = s[i]
    BY <1>1, OneMore
<1>3. /\ \A c \in Nat : Announced(s, n, c) => Announced(t, n, c)
      /\ Unmentioned(s, n) => Unmentioned(t, n)
    BY AppendOther
<1> HIDE DEF t
<1>4. \A c \in DOMAIN t : t[c].type = "CLIENT_ID" => c \in DOMAIN s /\ c \in Nat /\ t[c] = s[c]
    BY <1>2
<1>5. Introduced(s, n) => Introduced(t, n)
    BY <1>3, <1>4 DEF Introduced
<1>6. \A H : Holds(s, H, n) => Holds(t, H, n)
    BY <1>3 DEF Holds
<1> QED
    BY <1>5, <1>6 DEF t

\* ... or the name itself.
LEMMA SentName ==
    ASSUME NEW s \in Seq(Packets), NEW p \in Packets, NEW n, Mention(p, n),
           p.type # "UNSUBSCRIBE"
    PROVE  /\ Introduced(Append(s, p), n)
           /\ \A H : Holds(Append(s, p), H, n)
<1> DEFINE t == Append(s, p)
<1>1. PICK l \in Nat : l = Len(s)
    OBVIOUS
<1>2. /\ DOMAIN t = 1..l + 1 /\ t[l + 1] = p
    BY <1>1, OneMore
<1>3. \A c \in 0..l : Announced(t, n, c)
    BY <1>1, AppendTells
<1> HIDE DEF t
<1>4. \A c \in DOMAIN t : t[c].type = "CLIENT_ID" => c \in 0..l
    BY <1>2 DEF Mention
<1>5. Introduced(t, n) /\ Announced(t, n, 0)
    BY <1>3, <1>4 DEF Introduced
<1> QED
    BY <1>5 DEF t, Holds

\* The first packet is read, or lost: what comes after another packet stays.
LEMMA TailAnnounced ==
    ASSUME NEW s \in Seq(Packets), s # << >>, NEW n, NEW c \in Nat, Announced(s, n, c + 1)
    PROVE  Announced(Tail(s), n, c)
<1> DEFINE t == Tail(s)
<1>1. PICK l \in Nat \ {0} : l = Len(s)
    BY HeadAndTail
<1>2. DOMAIN s = 1..l /\ DOMAIN t = 1..l - 1 /\ \A i \in 1..l - 1 : t[i] = s[i + 1]
    BY <1>1, HeadAndTail
<1> HIDE DEF t
<1>3. PICK k \in DOMAIN s : /\ k > c + 1
                            /\ Mention(s[k], n)
                            /\ \A j \in DOMAIN s : Mention(s[j], n) => j <= k
                            /\ s[k].type # "UNSUBSCRIBE"
    BY DEF Announced
<1>4. k - 1 \in DOMAIN t /\ k - 1 > c
    BY <1>1, <1>2, <1>3
<1>5. t[k - 1] = s[(k - 1) + 1] /\ (k - 1) + 1 = k
    BY <1>2, <1>4, SMTT(30)
<1>6. ASSUME NEW j \in DOMAIN t, Mention(t[j], n) PROVE j <= k - 1
    <2>1. j + 1 \in DOMAIN s /\ t[j] = s[j + 1] /\ j \in Nat /\ k \in Nat
        BY <1>1, <1>2
    <2>2. j + 1 <= k
        BY <1>3, <1>6, <2>1
    <2> QED
        BY <2>1, <2>2
<1> QED
    BY <1>3, <1>4, <1>5, <1>6 DEF Announced, t

\* Later introductions are still followed by the name ...
LEMMA TailIntroduced ==
    ASSUME NEW s \in Seq(Packets), s # << >>, NEW n, Introduced(s, n)
    PROVE  Introduced(Tail(s), n)
<1> SUFFICES ASSUME NEW c \in DOMAIN Tail(s), Tail(s)[c].type = "CLIENT_ID"
             PROVE  Announced(Tail(s), n, c)
    BY DEF Introduced
<1>1. PICK l \in Nat \ {0} : l = Len(s)
    BY HeadAndTail
<1>2. c \in 1..l - 1 /\ c + 1 \in DOMAIN s /\ Tail(s)[c] = s[c + 1]
    BY <1>1, HeadAndTail
<1>3. Announced(s, n, c + 1)
    BY <1>2 DEF Introduced
<1> QED
    BY <1>2, <1>3, TailAnnounced

\* ... as the first one is.
LEMMA IntroductionRead ==
    ASSUME NEW s \in Seq(Packets), s # << >>, NEW n, Introduced(s, n),
           Head(s).type = "CLIENT_ID"
    PROVE  \A H : Holds(Tail(s), H, n)
<1>1. 1 \in DOMAIN s /\ Head(s) = s[1]
    BY HeadAndTail
<1>2. Announced(s, n, 0 + 1)
    BY <1>1 DEF Introduced
<1>3. Announced(Tail(s), n, 0)
    BY <1>2, TailAnnounced
<1> QED
    BY <1>3 DEF Holds

\* What the server will hold without the first packet.
LEMMA TailHolds ==
    ASSUME NEW s \in Seq(Packets), s # << >>, NEW n, NEW H, Holds(s, H, n)
    PROVE  \/ Announced(Tail(s), n, 0)
           \/ Unmentioned(Tail(s), n) /\ Mention(Head(s), n) /\ Head(s).type # "UNSUBSCRIBE"
           \/ Unmentioned(Tail(s), n) /\ ~Mention(Head(s), n) /\ n \in H
<1>1. PICK l \in Nat \ {0} : l = Len(s)
    BY HeadAndTail
<1>2. /\ DOMAIN s = 1..l /\ DOMAIN Tail(s) = 1..l - 1 /\ Head(s) = s[1]
      /\ \A i \in 1..l - 1 : Tail(s)[i] = s[i + 1]
    BY <1>1, HeadAndTail
<1>3. \A j \in DOMAIN Tail(s) : j + 1 \in DOMAIN s /\ Tail(s)[j] = s[j + 1] /\ ~(j + 1 <= 1)
    BY <1>1, <1>2
<1>4. CASE Unmentioned(s, n) /\ n \in H
    <2>1. 1 \in DOMAIN s
        BY <1>1, <1>2
    <2> QED
        BY <1>2, <1>3, <1>4, <2>1 DEF Unmentioned
<1>5. CASE Announced(s, n, 0)
    <2>1. PICK k \in DOMAIN s : /\ k > 0
                                /\ Mention(s[k], n)
                                /\ \A j \in DOMAIN s : Mention(s[j], n) => j <= k
                                /\ s[k].type # "UNSUBSCRIBE"
        BY <1>5 DEF Announced
    <2>2. CASE k = 1
        <3>1. Unmentioned(Tail(s), n)
            BY <1>3, <2>1, <2>2 DEF Unmentioned
        <3> QED
            BY <1>2, <2>1, <2>2, <3>1
    <2>3. CASE k # 1
        <3>1. k > 0 + 1
            BY <1>2, <2>1, <2>3
        <3>2. Announced(s, n, 0 + 1)
            BY <2>1, <3>1 DEF Announced
        <3> QED
            BY <3>2, TailAnnounced
    <2> QED
        BY <2>2, <2>3
<1> QED
    BY <1>4, <1>5 DEF Holds

-----------------------------------------------------------------------------
(* No subscription is lost.                                                  *)

\* A server that knows the client, or comes to know it from an introduction on
\* its way, will hold the name.
Promised(n) ==
    /\ Introduced(toServer, n)
    /\ transport = "tcp" \/ known => Holds(toServer, held, n)

\* The application is in a call that puts a name into slot k.
Working(k) ==
    \/ app.call = "subscribe" /\ k = app.at
    \/ app.call = "channel" /\ k = MaxEvents + app.at

\* Nothing keeps the name n of slot k from being told to the server.
Announceable(k, n) ==
    Registered(k) = n /\ n \in Wanted /\ ~Working(k) /\ link = "up" /\ ~missed /\ Passed(k)

\* Such a name is not lost.
Kept == \A k \in 1..HelloLength, n \in AllNames : Announceable(k, n) => Promised(n)

\* A socket is open while the thread sends and receives.
SocketsOpen ==
    thread.pc \in {"hello", "recv", "select", "call"} => socketfd \/ usocketfd

\* A channel is never given up.
ChannelsWanted ==
    \A s \in ChannelSlots : channels[s] \in ChannelNames => channels[s] \in Wanted
AnnouncedWanted == app.call = "channel" => app.id \in Wanted

\* A slot is marked until its name is written.
AppPartial ==
    /\ app.call \in {"subscribe", "channel"} => app.step \in {"id", "send"}
    /\ app.call = "subscribe" /\ app.step = "id" => events[app.at].id = Partial
    /\ app.call = "channel" /\ app.step = "id" => channels[app.at] = Partial

\* What is also invariant, and Kept needs.
SlotsInv == Inv /\ SlotsUnique /\ AppAlone
KeptInv == SlotsInv /\ SocketsOpen /\ ChannelsWanted /\ AnnouncedWanted /\ AppPartial

\* A loop index of syncs_send_id stands for a slot of one of the tables.
LEMMA SlotCases ==
    ASSUME NEW k \in 1..HelloLength
    PROVE  \/ k \in Slots /\ k <= MaxEvents
           \/ k - MaxEvents \in ChannelSlots /\ ~(k <= MaxEvents)
    BY SizeAssumption DEF Slots, ChannelSlots, HelloLength

\* The name of a slot, by the table it is in.
LEMMA RegisteredCases ==
    ASSUME TypeOK, NEW k \in 1..HelloLength, NEW n \in AllNames, Registered(k) = n
    PROVE  \/ k \in Slots /\ k <= MaxEvents /\ events[k].id = n /\ n \in Names
           \/ /\ k - MaxEvents \in ChannelSlots /\ ~(k <= MaxEvents)
              /\ channels[k - MaxEvents] = n /\ n \in ChannelNames
<1>1. CASE k \in Slots /\ k <= MaxEvents
    <2>1. events[k].id \in Names \cup {NoName, Partial}
        BY <1>1 DEF TypeOK
    <2> QED
        BY <1>1, <2>1, NameAssumption DEF Registered, AllNames
<1>2. CASE k - MaxEvents \in ChannelSlots /\ ~(k <= MaxEvents)
    <2>1. channels[k - MaxEvents] \in ChannelNames \cup {NoName, Partial}
        BY <1>2 DEF TypeOK
    <2> QED
        BY <1>2, <2>1, NameAssumption DEF Registered, AllNames
<1> QED
    BY <1>1, <1>2, SlotCases

\* A promise stands while nothing it depends on changes.
LEMMA PromiseSame ==
    ASSUME NEW n, Promised(n), UNCHANGED <<toServer, held, known, transport>>
    PROVE  Promised(n)'
    BY DEF Promised

\* The client sends something that does not take the promise back.
LEMMA SendKeeps ==
    ASSUME TypeOK, NEW n \in AllNames, Promised(n), UNCHANGED transport,
           NEW type, NEW id, Send(type, id), [type |-> type, id |-> id] \in Packets,
           type # "CLIENT_ID", ~(type = "UNSUBSCRIBE" /\ id = n)
    PROVE  Promised(n)'
<1> DEFINE p == [type |-> type, id |-> id]
<1>1. toServer \in Seq(Packets) /\ UNCHANGED <<held, known>>
    BY DEF TypeOK, Send
<1>2. CASE toServer' = toServer
    BY <1>1, <1>2, PromiseSame
<1>3. CASE toServer' = Append(toServer, p)
    <2>1. p.type = type /\ p.id = id /\ p \in Packets
        OBVIOUS
    <2> HIDE DEF p
    <2>2. CASE ~Mention(p, n)
        <3>1. /\ Introduced(toServer, n) => Introduced(Append(toServer, p), n)
              /\ \A H : Holds(toServer, H, n) => Holds(Append(toServer, p), H, n)
            BY <1>1, <2>1, <2>2, SentOther
        <3>2. Introduced(toServer, n) => Introduced(toServer', n)
            BY <1>3, <3>1
        <3>3. Holds(toServer, held, n) => Holds(toServer', held', n)
            BY <1>1, <1>3, <3>1
        <3> QED
            BY <1>1, <3>2, <3>3 DEF Promised
    <2>3. CASE Mention(p, n)
        <3>1. p.type # "UNSUBSCRIBE"
            BY <2>1, <2>3 DEF Mention
        <3>2. Introduced(Append(toServer, p), n) /\ \A H : Holds(Append(toServer, p), H, n)
            BY <1>1, <2>1, <2>3, <3>1, SentName
        <3> QED
            BY <1>3, <3>2 DEF Promised
    <2> QED
        BY <2>2, <2>3
<1> QED
    BY <1>2, <1>3 DEF Send

\* The client sends the name, or notes that it could not.
LEMMA SendTells ==
    ASSUME TypeOK, NEW n \in AllNames, NEW type, Tells(type), Send(type, n),
           link = "up", socketfd \/ usocketfd, ~missed'
    PROVE  Promised(n)'
<1> DEFINE p == [type |-> type, id |-> n]
<1>1. toServer \in Seq(Packets)
    BY DEF TypeOK
<1>2. toServer' = Append(toServer, p)
    BY DEF Send
<1>3. p \in Packets /\ Mention(p, n) /\ p.type # "UNSUBSCRIBE"
    BY DEF Packets, Tells, Mention
<1> HIDE DEF p
<1>4. Introduced(Append(toServer, p), n) /\ \A H : Holds(Append(toServer, p), H, n)
    BY <1>1, <1>3, SentName
<1> QED
    BY <1>2, <1>4 DEF Promised

\* A step that changes neither the name of a slot nor what is promised.
LEMMA KeptSame ==
    ASSUME Kept, NEW k \in 1..HelloLength, NEW n \in AllNames, Announceable(k, n)',
           Announceable(k, n)' => Announceable(k, n),
           UNCHANGED <<toServer, held, known, transport>>
    PROVE  Promised(n)'
    BY PromiseSame DEF Kept

\* A step of the thread that sends nothing and passes no slot.
LEMMA QuietKept ==
    ASSUME Inv, Kept,
           Find \/ While \/ OpenFails \/ Recv \/ ReceiveStatus \/ ReceiveEvent \/ Call \/ EndOfFile
    PROVE  Kept'
<1>1. /\ UNCHANGED <<events, channels, transport, app, link, toServer, held, known, missed, wants>>
    BY DEF Find, While, OpenFails, Recv, ReceiveStatus, StatusArrives, ReceiveEvent, Call, EndOfFile,
           tables, sockets, network
<1>2. PICK pc \in {"while", "open", "end", "close", "recv", "select", "call"} :
          /\ thread'.pc = pc
          /\ pc \in {"recv", "select", "call"} => thread.pc \in {"recv", "select", "call"}
    <2>1. thread \in [pc : {"find", "while", "open", "hello", "recv", "select", "call", "close", "end"},
                      i : 0..HelloLength, at : Slots \cup {0}, got : Names \cup {NoName}]
        BY DEF Inv, TypeOK
    <2>2. CASE Find \/ While \/ OpenFails \/ Recv \/ EndOfFile
        BY <2>1, <2>2 DEF Find, While, OpenFails, Recv, EndOfFile, Goto, At
    <2>3. CASE ReceiveStatus \/ Call
        BY <2>1, <2>3, NextPacketPlaces DEF ReceiveStatus, StatusArrives, Call, Goto, At
    <2>4. CASE ReceiveEvent
        BY <2>1, <2>4, NextPacketPlaces DEF ReceiveEvent, Goto, At
    <2> QED
        BY <2>2, <2>3, <2>4
<1>3. ASSUME NEW k \in 1..HelloLength, Passed(k)' PROVE Passed(k)
    BY <1>2, <1>3 DEF Passed, At
<1>4. ASSUME NEW k \in 1..HelloLength, NEW n \in AllNames, Announceable(k, n)'
      PROVE  Promised(n)'
    <2>1. Announceable(k, n)
        BY <1>1, <1>3, <1>4 DEF Announceable, Registered, Wanted, Working
    <2> QED
        BY <1>1, <1>4, <2>1, KeptSame
<1> QED
    BY <1>4 DEF Kept

\* syncs_send_id begins, or the connection ends: no slot is passed, or the
\* link is down.
LEMMA BeginKept ==
    ASSUME Inv, Open \/ ReceiveUnknown \/ Close \/ Break \/ ServerCloses
    PROVE  Kept'
<1>1. ASSUME NEW k \in 1..HelloLength, Open \/ ReceiveUnknown PROVE ~Passed(k)'
    <2>1. thread'.pc = "hello" /\ thread'.i = 0
        BY <1>1 DEF Inv, TypeOK, Open, ReceiveUnknown
    <2>2. ~(k < 0)
        BY SizeAssumption DEF HelloLength
    <2> QED
        BY <2>1, <2>2 DEF Passed, At
<1>2. ASSUME Close \/ Break \/ ServerCloses PROVE link' = "down"
    BY <1>2 DEF Close, Break, ServerCloses
<1> QED
    BY <1>1, <1>2 DEF Kept, Announceable

\* syncs_send_id passes a slot: its name is sent.
LEMMA HelloKept ==
    ASSUME KeptInv, Kept, Hello
    PROVE  Kept'
<1>1. TypeOK /\ SocketsOpen
    BY DEF KeptInv, SlotsInv, Inv
<1>2. UNCHANGED <<events, channels, transport, app, wants>> /\ At("hello")
    BY DEF Hello, tables, sockets
<1>3. PICK i \in 0..HelloLength : i = thread.i
    BY <1>1 DEF TypeOK
<1>4. HelloLength \in Nat
    BY SizeAssumption DEF HelloLength
<1>5. ASSUME NEW k \in 1..HelloLength, Passed(k)' PROVE k <= i
    <2>1. CASE i < HelloLength
        <3>1. thread'.pc = "hello" /\ thread'.i = i + 1
            BY <1>1, <1>2, <1>3, <2>1 DEF Hello, TypeOK, At
        <3>2. k < i + 1
            BY <1>5, <3>1 DEF Passed, At
        <3> QED
            BY <1>3, <3>2
    <2>2. CASE ~(i < HelloLength)
        BY <1>3, <1>4, <2>2
    <2> QED
        BY <2>1, <2>2
<1>6. \/ i = 0 /\ Send("CLIENT_ID", NoName)
      \/ /\ i > 0
         /\ Registered(i) # NoName
         /\ Send(Announcement(i), Registered(i))
      \/ /\ i > 0
         /\ Registered(i) = NoName
         /\ UNCHANGED network
    BY <1>3 DEF Hello
<1>7. UNCHANGED link /\ (~missed' => ~missed)
    <2>1. CASE UNCHANGED network
        BY <2>1 DEF network
    <2>2. ASSUME NEW type, NEW id, Send(type, id)
          PROVE  UNCHANGED link /\ (~missed' => ~missed)
        BY <2>2 DEF Send
    <2> QED
        BY <1>6, <2>1, <2>2
<1>8. ASSUME NEW k \in 1..HelloLength, NEW n \in AllNames, Announceable(k, n)'
      PROVE  Promised(n)'
    <2>1. Registered(k) = n /\ n \in Wanted /\ ~Working(k) /\ link = "up" /\ ~missed /\ ~missed'
        BY <1>2, <1>7, <1>8 DEF Announceable, Registered, Wanted, Working
    <2>2. k <= i
        BY <1>5, <1>8 DEF Announceable
    <2>3. i \in 1..HelloLength
        BY <1>3, <1>4, <2>2
    <2>4. CASE k = i
        <3>1. Send(Announcement(i), n)
            BY <1>6, <2>1, <2>3, <2>4, NameAssumption DEF AllNames
        <3>2. Tells(Announcement(i))
            BY DEF Tells, Announcement
        <3>3. socketfd \/ usocketfd
            BY <1>1, <1>2 DEF SocketsOpen, At
        <3> QED
            BY <1>1, <2>1, <3>1, <3>2, <3>3, SendTells
    <2>5. CASE k # i
        <3>1. k < i
            BY <2>2, <2>3, <2>5
        <3>2. Passed(k)
            BY <1>2, <1>3, <3>1 DEF Passed
        <3>3. Promised(n)
            BY <2>1, <3>2 DEF Kept, Announceable
        <3>4. CASE UNCHANGED network
            BY <1>2, <3>3, <3>4, PromiseSame DEF network
        <3>5. CASE Registered(i) # NoName /\ Send(Announcement(i), Registered(i))
            <4>1. [type |-> Announcement(i), id |-> Registered(i)] \in Packets
                BY <1>1, <2>3, <3>5, RegisteredTypes
            <4>2. Announcement(i) \in {"SUBSCRIBE", "CHANNEL"}
                BY DEF Announcement
            <4> QED
                BY <1>1, <1>2, <3>3, <3>5, <4>1, <4>2, SendKeeps
        <3> QED
            BY <1>6, <2>3, <3>4, <3>5
    <2> QED
        BY <2>4, <2>5
<1> QED
    BY <1>8 DEF Kept

\* The server and the network leave the names of the client alone.
LEMMA NetworkKept ==
    ASSUME Kept, UNCHANGED <<tables, sockets, thread, app, wants>>, link' = link, missed' = missed,
           \A n \in AllNames : Promised(n) => Promised(n)'
    PROVE  Kept'
<1>1. ASSUME NEW k \in 1..HelloLength, NEW n \in AllNames, Announceable(k, n)'
      PROVE  Announceable(k, n)
    BY <1>1 DEF Announceable, Registered, Wanted, Working, Passed, At, tables
<1> QED
    BY <1>1 DEF Kept

\* The server reads a CLIENT_ID.
LEMMA ServerReadsIdKept ==
    ASSUME Inv, Kept, ServerReadsId
    PROVE  Kept'
<1>1. /\ toServer \in Seq(Packets) /\ toServer # << >> /\ Head(toServer).type = "CLIENT_ID"
      /\ UNCHANGED <<tables, sockets, thread, app, wants, transport>> /\ UNCHANGED missed
    BY DEF Inv, TypeOK, ServerReadsId, sockets
<1>2. PICK ok \in Versions :
          /\ known' = (ok /\ transport = "udp")
          /\ held' = IF ok THEN held ELSE {}
          /\ IF ok \/ transport = "udp"
             THEN toServer' = Tail(toServer) /\ UNCHANGED link
             ELSE toServer' = << >> /\ link' = "down"
    BY DEF ServerReadsId
<1>3. CASE ok \/ transport = "udp"
    <2>1. toServer' = Tail(toServer) /\ UNCHANGED link
        BY <1>2, <1>3
    <2>2. ASSUME NEW n \in AllNames, Promised(n) PROVE Promised(n)'
        <3>1. Introduced(toServer, n)
            BY <2>2 DEF Promised
        <3>2. Introduced(Tail(toServer), n) /\ \A H : Holds(Tail(toServer), H, n)
            BY <1>1, <3>1, TailIntroduced, IntroductionRead
        <3> QED
            BY <2>1, <3>2 DEF Promised
    <2> QED
        BY <1>1, <2>1, <2>2, NetworkKept
<1>4. CASE ~(ok \/ transport = "udp")
    BY <1>2, <1>4 DEF Kept, Announceable
<1> QED
    BY <1>3, <1>4

\* The server reads another packet.
LEMMA ServerReadsKept ==
    ASSUME Inv, Kept, ServerReads
    PROVE  Kept'
<1>1. /\ toServer \in Seq(Packets) /\ toServer # << >> /\ Head(toServer).type # "CLIENT_ID"
      /\ UNCHANGED <<tables, sockets, thread, app, wants, transport>> /\ UNCHANGED missed
      /\ UNCHANGED <<link, known>> /\ toServer' = Tail(toServer)
    BY DEF Inv, TypeOK, ServerReads, sockets
<1>2. PICK p \in Packets : p = Head(toServer)
    BY <1>1, TailTypes
<1>3. held' = IF transport = "udp" /\ ~known THEN held
              ELSE IF Tells(p.type) THEN held \cup {p.id}
              ELSE IF p.type = "UNSUBSCRIBE" THEN held \ {p.id} ELSE held
    BY <1>2 DEF ServerReads
<1>4. transport \in {"tcp", "udp"}
    BY ChoiceAssumption DEF Inv, TypeOK
<1>5. ASSUME NEW n \in AllNames, Promised(n) PROVE Promised(n)'
    <2>1. Introduced(toServer', n)
        BY <1>1, <1>5, TailIntroduced DEF Promised
    <2>2. ASSUME transport = "tcp" \/ known PROVE Holds(toServer', held', n)
        <3>1. Holds(toServer, held, n)
            BY <1>5, <2>2 DEF Promised
        <3>2. \/ Announced(Tail(toServer), n, 0)
              \/ Unmentioned(Tail(toServer), n) /\ Mention(p, n) /\ p.type # "UNSUBSCRIBE"
              \/ Unmentioned(Tail(toServer), n) /\ ~Mention(p, n) /\ n \in held
            BY <1>1, <1>2, <3>1, TailHolds
        <3>3. CASE Announced(Tail(toServer), n, 0)
            BY <1>1, <3>3 DEF Holds
        <3>4. CASE Unmentioned(Tail(toServer), n) /\ Mention(p, n) /\ p.type # "UNSUBSCRIBE"
            <4>1. p.id = n /\ Tells(p.type)
                BY <3>4, NameAssumption DEF Mention, Packets, Tells, AllNames
            <4>2. n \in held'
                BY <1>3, <1>4, <2>2, <4>1
            <4> QED
                BY <1>1, <3>4, <4>2 DEF Holds
        <3>5. CASE Unmentioned(Tail(toServer), n) /\ ~Mention(p, n) /\ n \in held
            <4>1. p.id # n
                BY <1>1, <1>2, <3>5 DEF Mention
            <4>2. n \in held'
                BY <1>3, <3>5, <4>1
            <4> QED
                BY <1>1, <3>5, <4>2 DEF Holds
        <3> QED
            BY <3>2, <3>3, <3>4, <3>5
    <2> QED
        BY <1>1, <2>1, <2>2 DEF Promised
<1> QED
    BY <1>1, <1>5, NetworkKept

\* The server restarts, or a datagram is lost.
LEMMA FaultKept ==
    ASSUME Inv, Kept, Restart \/ Lose
    PROVE  Kept'
<1>1. /\ toServer \in Seq(Packets) /\ missed \in BOOLEAN /\ transport = "udp"
      /\ UNCHANGED <<tables, sockets, thread, app, wants, transport>> /\ UNCHANGED link
    BY DEF Inv, TypeOK, Restart, Lose, sockets
<1>2. CASE Restart
    <2>1. ~known' /\ UNCHANGED missed
        BY <1>2 DEF Restart
    <2>2. ASSUME NEW n \in AllNames, Promised(n) PROVE Promised(n)'
        <3>1. Introduced(<< >>, n)
            BY DEF Introduced
        <3>2. CASE toServer' = toServer
            BY <1>1, <2>1, <2>2, <3>2 DEF Promised
        <3>3. CASE toServer' = << >>
            BY <1>1, <2>1, <3>1, <3>3 DEF Promised
        <3> QED
            BY <1>2, <3>2, <3>3 DEF Restart
    <2> QED
        BY <1>1, <2>1, <2>2, NetworkKept
<1>3. CASE Lose /\ UNCHANGED <<toServer, missed>>
    <2>1. UNCHANGED <<held, known>>
        BY <1>3 DEF Lose
    <2>2. \A n \in AllNames : Promised(n) => Promised(n)'
        BY <1>1, <1>3, <2>1, PromiseSame
    <2> QED
        BY <1>1, <1>3, <2>2, NetworkKept
<1>4. CASE /\ Lose /\ toServer # << >> /\ toServer' = Tail(toServer)
           /\ missed' = (missed \/ Tells(Head(toServer).type))
    <2>1. UNCHANGED <<held, known>>
        BY <1>4 DEF Lose
    <2>2. CASE Tells(Head(toServer).type)
        BY <1>4, <2>2 DEF Kept, Announceable
    <2>3. CASE ~Tells(Head(toServer).type)
        <3>1. UNCHANGED missed
            BY <1>1, <1>4, <2>3
        <3>2. PICK p \in Packets : p = Head(toServer)
            BY <1>1, <1>4, TailTypes
        <3>3. ASSUME NEW n \in AllNames, Promised(n) PROVE Promised(n)'
            <4>1. Introduced(toServer', n)
                BY <1>1, <1>4, <3>3, TailIntroduced DEF Promised
            <4>2. ASSUME known PROVE Holds(toServer', held', n)
                <5>1. Holds(toServer, held, n)
                    BY <3>3, <4>2 DEF Promised
                <5>2. \/ Announced(Tail(toServer), n, 0)
                      \/ Unmentioned(Tail(toServer), n) /\ Mention(p, n) /\ p.type # "UNSUBSCRIBE"
                      \/ Unmentioned(Tail(toServer), n) /\ ~Mention(p, n) /\ n \in held
                    BY <1>1, <1>4, <3>2, <5>1, TailHolds
                <5>3. ~(Mention(p, n) /\ p.type # "UNSUBSCRIBE")
                    BY <2>3, <3>2, NameAssumption DEF Mention, Packets, Tells, AllNames
                <5> QED
                    BY <1>4, <2>1, <5>2, <5>3 DEF Holds
            <4> QED
                BY <1>1, <2>1, <4>1, <4>2 DEF Promised
        <3> QED
            BY <1>1, <3>1, <3>3, NetworkKept
    <2> QED
        BY <2>2, <2>3
<1> QED
    BY <1>2, <1>3, <1>4 DEF Lose

\* A call begins that touches no slot, or ends without a name to send.
LEMMA CallKept ==
    ASSUME Inv, Kept, Disconnect \/ DisconnectShutdown \/ DisconnectJoin
    PROVE  Kept'
<1>1. UNCHANGED <<events, channels, transport, thread, toServer, held, known, missed, wants>>
    BY DEF Disconnect, DisconnectShutdown, DisconnectJoin, tables, sockets, network
<1>2. app.call \in {"none", "disconnect"}
    BY DEF Disconnect, DisconnectShutdown, DisconnectJoin, Idle
<1>3. link' = "up" => link = "up"
    BY DEF Disconnect, DisconnectShutdown, DisconnectJoin, network
<1>4. ASSUME NEW k \in 1..HelloLength, NEW n \in AllNames, Announceable(k, n)'
      PROVE  Promised(n)'
    <2>1. ~Working(k)
        BY <1>2 DEF Working
    <2>2. Announceable(k, n)
        BY <1>1, <1>3, <1>4, <2>1 DEF Announceable, Registered, Wanted, Passed, At
    <2> QED
        BY <1>1, <1>4, <2>2, KeptSame
<1> QED
    BY <1>4 DEF Kept

\* A write over UDP is about no name.
LEMMA WriteKept ==
    ASSUME Inv, Kept, Write
    PROVE  Kept'
<1>1. TypeOK /\ UNCHANGED transport
    BY DEF Inv, Write, sockets
<1>2. [type |-> "WRITE", id |-> NoName] \in Packets
    BY DEF Packets
<1>3. /\ Send("WRITE", NoName) /\ UNCHANGED <<tables, sockets, thread, app, wants>>
    BY DEF Write
<1>4. link' = link /\ missed' = missed
    <2>1. missed \in BOOLEAN
        BY <1>1 DEF TypeOK
    <2> QED
        BY <1>3, <2>1 DEF Send, Tells
<1>5. \A n \in AllNames : Promised(n) => Promised(n)'
    BY <1>1, <1>2, <1>3, SendKeeps
<1> QED
    BY <1>3, <1>4, <1>5, NetworkKept

\* A subscription takes a slot: no other one has its name.
LEMMA SubscribeKept ==
    ASSUME KeptInv, Kept, NEW m \in Names, NEW kind \in Kinds, Subscribe(m, kind)
    PROVE  Kept'
<1>1. Inv /\ TypeOK /\ SlotsUnique
    BY DEF KeptInv, SlotsInv, Inv
<1>2. PICK s : s = FirstOf(SlotFor(m))
    OBVIOUS
<1>3. s \in Slots /\ s \in SlotFor(m)
    BY <1>2, SlotForSlots DEF Subscribe
<1>4. events \in [Slots -> [id : Names \cup {NoName, Partial}, cb : Names \cup {NoName}]]
    BY <1>1 DEF TypeOK
<1>5. \A t \in Slots \ {s} : events[t].id # m
    BY <1>1, <1>3 DEF SlotFor, Matches, SlotsUnique
<1>6. /\ events' = [events EXCEPT ![s].id = Partial,
                                   ![s].cb = IF kind = "callback" THEN m ELSE @]
      /\ app' = [call |-> "subscribe", id |-> m, at |-> s, step |-> "id"]
      /\ wants' = [wants EXCEPT ![m] = kind]
      /\ app = Idle
      /\ UNCHANGED <<channels, thread, transport, link, toServer, held, known, missed>>
    BY <1>2 DEF Subscribe, sockets, network
<1>7. \A t \in Slots \ {s} : events'[t].id = events[t].id
    BY <1>3, <1>4, <1>6
<1>8. ASSUME NEW k \in 1..HelloLength, NEW n \in AllNames, Announceable(k, n)'
      PROVE  Promised(n)'
    <2>1. k # s
        BY <1>6, <1>8 DEF Announceable, Working
    <2>2. Registered(k) = n
        <3>1. Registered(k)' = n
            BY <1>8 DEF Announceable
        <3>2. CASE k \in Slots /\ k <= MaxEvents
            BY <1>7, <2>1, <3>1, <3>2 DEF Registered
        <3>3. CASE ~(k <= MaxEvents)
            BY <1>6, <3>1, <3>3 DEF Registered
        <3> QED
            BY <3>2, <3>3, SlotCases
    <2>3. n # m
        BY <1>1, <1>5, <2>1, <2>2, RegisteredCases, NameAssumption
    <2>4. n \in Wanted
        BY <1>6, <1>8, <2>3 DEF Announceable, Wanted
    <2>5. ~Working(k)
        BY <1>6 DEF Working, Idle
    <2>6. Announceable(k, n)
        BY <1>6, <1>8, <2>2, <2>4, <2>5 DEF Announceable, Passed, At
    <2> QED
        BY <1>6, <1>8, <2>6, KeptSame
<1> QED
    BY <1>8 DEF Kept

\* The id of an event or a channel is written: the call goes on to send it.
LEMMA WriteIdKept ==
    ASSUME Inv, Kept, SubscribeId \/ ChannelId
    PROVE  Kept'
<1>1. TypeOK /\ AppSlot
    BY DEF Inv
<1>2. /\ app' = [app EXCEPT !.step = "send"]
      /\ UNCHANGED <<transport, thread, link, toServer, held, known, missed, wants>>
    BY DEF SubscribeId, ChannelId, sockets, network
<1>3. app'.call = app.call /\ app'.at = app.at
    BY <1>1, <1>2 DEF TypeOK
<1>4. ASSUME NEW k \in 1..HelloLength, ~Working(k) PROVE Registered(k)' = Registered(k)
    <2>1. CASE SubscribeId
        <3>1. /\ app.call = "subscribe" /\ app.at \in Slots
              /\ events' = [events EXCEPT ![app.at].id = app.id] /\ UNCHANGED channels
            BY <1>1, <2>1 DEF SubscribeId, AppSlot
        <3>2. k # app.at
            BY <1>4, <3>1 DEF Working
        <3>3. k \in Slots => events'[k] = events[k]
            BY <1>1, <3>1, <3>2 DEF TypeOK
        <3>4. k \in Slots => events'[k].id = events[k].id
            BY <3>3
        <3> QED
            BY <3>1, <3>4, SlotCases DEF Registered
    <2>2. CASE ChannelId
        <3>1. /\ app.call = "channel" /\ app.at \in ChannelSlots
              /\ channels' = [channels EXCEPT ![app.at] = app.id] /\ UNCHANGED events
            BY <1>1, <2>2 DEF ChannelId, AppSlot
        <3>2. PICK a \in ChannelSlots : a = app.at
            BY <3>1
        <3>3. k # MaxEvents + a
            BY <1>4, <3>1, <3>2 DEF Working
        <3>4. k - MaxEvents # a
            BY <3>3, SizeAssumption DEF ChannelSlots, HelloLength
        <3>5. k - MaxEvents \in ChannelSlots => channels'[k - MaxEvents] = channels[k - MaxEvents]
            BY <1>1, <3>1, <3>2, <3>4 DEF TypeOK
        <3> QED
            BY <3>1, <3>5, SlotCases DEF Registered
    <2> QED
        BY <2>1, <2>2
<1>5. ASSUME NEW k \in 1..HelloLength, NEW n \in AllNames, Announceable(k, n)'
      PROVE  Promised(n)'
    <2>1. ~Working(k)
        BY <1>3, <1>5 DEF Announceable, Working
    <2>2. Announceable(k, n)
        BY <1>2, <1>4, <1>5, <2>1 DEF Announceable, Wanted, Passed, At
    <2> QED
        BY <1>2, <1>5, <2>2, KeptSame
<1> QED
    BY <1>5 DEF Kept

\* The name is sent; if it is not, that is noted.
LEMMA WriteSendKept ==
    ASSUME KeptInv, Kept, SubscribeSend \/ ChannelSend
    PROVE  Kept'
<1>1. TypeOK /\ AppSlot /\ AppWritten /\ SocketsOpen
    BY DEF KeptInv, SlotsInv, Inv
<1>2. UNCHANGED <<events, channels, transport, thread, wants>>
    BY DEF SubscribeSend, ChannelSend, tables, sockets
<1>3. PICK type \in {"SUBSCRIBE", "CHANNEL"}, id \in AllNames, a \in 1..HelloLength :
          /\ SendIfTcp(type, id, a)
          /\ \A k \in 1..HelloLength : Working(k) <=> k = a
          /\ Registered(a) = id
    <2>1. CASE SubscribeSend
        <3>1. /\ app.call = "subscribe" /\ app.at \in Slots /\ app.id \in Names
              /\ events[app.at].id = app.id /\ SendIfTcp("SUBSCRIBE", app.id, app.at)
            BY <1>1, <2>1 DEF SubscribeSend, AppSlot, AppWritten
        <3>2. app.at \in 1..HelloLength /\ app.at <= MaxEvents
            BY <3>1, SizeAssumption DEF Slots, HelloLength
        <3>3. \A k \in 1..HelloLength : Working(k) <=> k = app.at
            BY <3>1 DEF Working
        <3>4. Registered(app.at) = app.id /\ app.id \in AllNames
            BY <3>1, <3>2 DEF Registered, AllNames
        <3> QED
            BY <3>1, <3>2, <3>3, <3>4
    <2>2. CASE ChannelSend
        <3>1. /\ app.call = "channel" /\ app.at \in ChannelSlots /\ app.id \in ChannelNames
              /\ channels[app.at] = app.id /\ SendIfTcp("CHANNEL", app.id, MaxEvents + app.at)
            BY <1>1, <2>2 DEF ChannelSend, AppSlot, AppWritten
        <3>2. PICK c \in ChannelSlots : c = app.at
            BY <3>1
        <3>3. /\ MaxEvents + c \in 1..HelloLength /\ ~(MaxEvents + c <= MaxEvents)
              /\ (MaxEvents + c) - MaxEvents = c
            BY SizeAssumption DEF ChannelSlots, HelloLength
        <3>4. \A k \in 1..HelloLength : Working(k) <=> k = MaxEvents + c
            BY <3>1, <3>2 DEF Working
        <3>5. Registered(MaxEvents + c) = app.id /\ app.id \in AllNames
            BY <3>1, <3>2, <3>3 DEF Registered, AllNames
        <3> QED
            BY <3>1, <3>2, <3>3, <3>4, <3>5
    <2> QED
        BY <2>1, <2>2
<1>4. [type |-> type, id |-> id] \in Packets /\ Tells(type)
    BY DEF Packets, Tells
<1>5. UNCHANGED link /\ (~missed' => ~missed)
    BY <1>3 DEF SendIfTcp, Send
<1>6. ASSUME NEW k \in 1..HelloLength, NEW n \in AllNames, Announceable(k, n)'
      PROVE  Promised(n)'
    <2>1. Registered(k) = n /\ n \in Wanted /\ link = "up" /\ ~missed /\ ~missed' /\ Passed(k)
        BY <1>2, <1>5, <1>6 DEF Announceable, Registered, Wanted, Passed, At
    <2>2. CASE k = a
        <3>1. socketfd \/ usocketfd
            BY <1>1, <2>1 DEF SocketsOpen, Passed, At
        <3>2. Send(type, n)
            BY <1>3, <2>1, <2>2, <3>1 DEF SendIfTcp
        <3> QED
            BY <1>1, <1>4, <2>1, <3>1, <3>2, SendTells
    <2>3. CASE k # a
        <3>1. Promised(n)
            BY <1>3, <2>1, <2>3 DEF Kept, Announceable
        <3>2. CASE Send(type, id)
            BY <1>1, <1>2, <1>4, <3>1, <3>2, SendKeeps
        <3>3. CASE UNCHANGED <<toServer, held, known>>
            BY <1>2, <3>1, <3>3, PromiseSame
        <3> QED
            BY <1>3, <3>2, <3>3 DEF SendIfTcp
    <2> QED
        BY <2>2, <2>3
<1> QED
    BY <1>6 DEF Kept

\* An UNSUBSCRIBE is sent: the name is no longer wanted ...
LEMMA UnsubscribeKept ==
    ASSUME Inv, Kept, NEW m \in Names, Unsubscribe(m)
    PROVE  Kept'
<1>1. TypeOK
    BY DEF Inv
<1>2. /\ Send("UNSUBSCRIBE", m)
      /\ wants' = [wants EXCEPT ![m] = "no"]
      /\ app = Idle
      /\ UNCHANGED <<events, channels, transport, thread>>
    BY DEF Unsubscribe, tables, sockets
<1>3. [type |-> "UNSUBSCRIBE", id |-> m] \in Packets
    BY DEF Packets, AllNames
<1>4. UNCHANGED link /\ (~missed' => ~missed)
    BY <1>2 DEF Send
<1>5. ASSUME NEW k \in 1..HelloLength, NEW n \in AllNames, Announceable(k, n)'
      PROVE  Promised(n)'
    <2>1. n # m /\ n \in Wanted
        <3>1. wants \in [AllNames -> {"no", "callback", "sync"}]
            BY <1>1 DEF TypeOK
        <3> QED
            BY <1>2, <1>5, <3>1 DEF Announceable, Wanted
    <2>2. ~Working(k)
        BY <1>2 DEF Working, Idle
    <2>3. Announceable(k, n)
        BY <1>2, <1>4, <1>5, <2>1, <2>2 DEF Announceable, Registered, Passed, At
    <2>4. Promised(n)
        BY <2>3 DEF Kept
    <2> QED
        BY <1>1, <1>2, <1>3, <2>1, <2>4, SendKeeps
<1> QED
    BY <1>5 DEF Kept

\* ... and the slot is freed.
LEMMA UnsubscribeFreeKept ==
    ASSUME Inv, Kept, UnsubscribeFree
    PROVE  Kept'
<1>1. TypeOK /\ app.call = "unsubscribe" /\ app.at \in Slots
    BY DEF Inv, AppSlot, UnsubscribeFree
<1>2. /\ events' = [events EXCEPT ![app.at].id = NoName]
      /\ UNCHANGED <<channels, transport, thread, link, toServer, held, known, missed, wants>>
    BY DEF UnsubscribeFree, sockets, network
<1>3. \A t \in Slots : events'[t].id = IF t = app.at THEN NoName ELSE events[t].id
    BY <1>1, <1>2 DEF TypeOK
<1>4. ASSUME NEW k \in 1..HelloLength, NEW n \in AllNames, Announceable(k, n)'
      PROVE  Promised(n)'
    <2>1. Registered(k)' = n /\ n # NoName
        BY <1>4, NameAssumption DEF Announceable, AllNames
    <2>2. Registered(k) = n
        BY <1>2, <1>3, <2>1, SlotCases DEF Registered
    <2>3. ~Working(k)
        BY <1>1 DEF Working
    <2>4. Announceable(k, n)
        BY <1>2, <1>4, <2>2, <2>3 DEF Announceable, Wanted, Passed, At
    <2> QED
        BY <1>2, <1>4, <2>4, KeptSame
<1> QED
    BY <1>4 DEF Kept

\* A channel takes a free slot; another slot may have its name already.
LEMMA ChannelAnonsKept ==
    ASSUME KeptInv, Kept, NEW m \in ChannelNames, ChannelAnons(m)
    PROVE  Kept'
<1>1. TypeOK /\ ChannelsWanted
    BY DEF KeptInv, SlotsInv, Inv
<1>2. PICK s \in ChannelSlots :
          /\ channels' = [channels EXCEPT ![s] = Partial]
          /\ app' = [call |-> "channel", id |-> m, at |-> s, step |-> "id"]
    <2> DEFINE free == {t \in ChannelSlots : channels[t] = NoName}
    <2>1. free \in SUBSET Nat /\ free # {}
        BY SizeAssumption DEF ChannelSlots, ChannelAnons
    <2>2. FirstOf(free) \in free
        BY <2>1, FirstOfIn
    <2> QED
        BY <2>2 DEF ChannelAnons
<1>3. /\ wants' = [wants EXCEPT ![m] = "callback"]
      /\ app = Idle
      /\ UNCHANGED <<events, thread, transport, link, toServer, held, known, missed>>
    BY DEF ChannelAnons, sockets, network
<1>4. ASSUME NEW k \in 1..HelloLength, NEW n \in AllNames, Announceable(k, n)'
      PROVE  Promised(n)'
    <2>1. k # MaxEvents + s
        BY <1>2, <1>4 DEF Announceable, Working
    <2>2. k - MaxEvents # s
        BY <2>1, SizeAssumption DEF ChannelSlots, HelloLength
    <2>3. k - MaxEvents \in ChannelSlots => channels'[k - MaxEvents] = channels[k - MaxEvents]
        BY <1>1, <1>2, <2>2 DEF TypeOK
    <2>4. Registered(k) = n
        BY <1>3, <1>4, <2>3, SlotCases DEF Announceable, Registered
    <2>5. n \in Wanted
        <3>1. CASE n = m
            BY <1>1, <2>4, <3>1, RegisteredCases, NameAssumption DEF ChannelsWanted
        <3>2. CASE n # m
            BY <1>3, <1>4, <3>2 DEF Announceable, Wanted
        <3> QED
            BY <3>1, <3>2
    <2>6. ~Working(k)
        BY <1>3 DEF Working, Idle
    <2>7. Announceable(k, n)
        BY <1>3, <1>4, <2>4, <2>5, <2>6 DEF Announceable, Passed, At
    <2> QED
        BY <1>3, <1>4, <2>7, KeptSame
<1> QED
    BY <1>4 DEF Kept

\* Every step keeps the promises.
LEMMA NextKept ==
    ASSUME KeptInv, Kept, [Next]_vars
    PROVE  Kept'
<1>1. Inv
    BY DEF KeptInv, SlotsInv
<1>2. CASE Find \/ Thread
    BY <1>1, <1>2, QuietKept, BeginKept, HelloKept DEF Thread
<1>3. CASE AppCalls
    BY <1>1, <1>3, SubscribeKept, UnsubscribeKept, ChannelAnonsKept, WriteKept, CallKept DEF AppCalls
<1>4. CASE AppReturns
    BY <1>1, <1>4, WriteIdKept, WriteSendKept, UnsubscribeFreeKept, CallKept DEF AppReturns
<1>5. CASE Server \/ Break \/ Restart \/ Lose
    BY <1>1, <1>5, ServerReadsIdKept, ServerReadsKept, FaultKept, BeginKept DEF Server
<1>6. CASE UNCHANGED vars \/ \E n \in Names : Publish(n)
    <2>1. /\ UNCHANGED <<tables, sockets, thread, app, wants>> /\ link' = link /\ missed' = missed
          /\ UNCHANGED <<toServer, held, known, transport>>
        BY <1>6 DEF vars, Publish, tables, sockets
    <2>2. \A n \in AllNames : Promised(n) => Promised(n)'
        BY <2>1, PromiseSame
    <2> QED
        BY <2>1, <2>2, NetworkKept
<1> QED
    BY <1>2, <1>3, <1>4, <1>5, <1>6 DEF Next

\* Every step keeps a socket open where the thread needs one.
LEMMA NextSockets ==
    ASSUME Inv, SocketsOpen, [Next]_vars
    PROVE  SocketsOpen'
<1>1. thread \in [pc : {"find", "while", "open", "hello", "recv", "select", "call", "close", "end"},
                  i : 0..HelloLength, at : Slots \cup {0}, got : Names \cup {NoName}]
    BY DEF Inv, TypeOK
<1>2. CASE Open
    <2>1. socketfd' \/ usocketfd'
        BY <1>2, ChoiceAssumption DEF Open, Inv, TypeOK
    <2> QED
        BY <2>1 DEF SocketsOpen
<1>3. CASE Close
    <2>1. thread'.pc = "while"
        BY <1>1, <1>3 DEF Close, Goto
    <2> QED
        BY <2>1 DEF SocketsOpen
<1>4. CASE Find \/ While \/ OpenFails
    <2>1. thread'.pc \in {"while", "open", "end"}
        BY <1>1, <1>4 DEF Find, While, OpenFails, Goto
    <2> QED
        BY <2>1 DEF SocketsOpen
<1>5. CASE Hello \/ Recv \/ ReceiveStatus \/ ReceiveUnknown \/ ReceiveEvent \/ Call \/ EndOfFile
    <2>1. thread.pc \in {"hello", "recv", "select", "call"} /\ UNCHANGED <<socketfd, usocketfd>>
        BY <1>5 DEF Hello, Recv, ReceiveStatus, ReceiveUnknown, StatusArrives, ReceiveEvent, Call,
                    EndOfFile, At, sockets
    <2> QED
        BY <2>1 DEF SocketsOpen
<1>6. CASE \/ AppCalls \/ AppReturns \/ Server \/ Break \/ Restart \/ Lose \/ UNCHANGED vars
           \/ \E n \in Names : Publish(n)
    <2>1. UNCHANGED <<thread, socketfd, usocketfd>>
        <3>1. CASE AppCalls
            BY <3>1 DEF AppCalls, Subscribe, Unsubscribe, ChannelAnons, Write, Disconnect, sockets
        <3>2. CASE AppReturns
            BY <3>2 DEF AppReturns, SubscribeId, SubscribeSend, UnsubscribeFree, ChannelId,
                        ChannelSend, DisconnectShutdown, DisconnectJoin, sockets
        <3>3. CASE Server \/ Break \/ Restart \/ Lose \/ \E n \in Names : Publish(n)
            BY <3>3 DEF Server, ServerReadsId, ServerReads, ServerCloses, Break, Restart, Lose,
                        Publish, sockets
        <3> QED
            BY <1>6, <3>1, <3>2, <3>3 DEF vars
    <2> QED
        BY <2>1 DEF SocketsOpen
<1> QED
    BY <1>2, <1>3, <1>4, <1>5, <1>6 DEF Next, Thread

\* Steps that change neither the tables nor the call nor what is wanted.
LEMMA CallSame ==
    ASSUME ChannelsWanted, AnnouncedWanted, AppPartial, UNCHANGED <<events, channels, app, wants>>
    PROVE  ChannelsWanted' /\ AnnouncedWanted' /\ AppPartial'
    BY DEF ChannelsWanted, AnnouncedWanted, AppPartial, Wanted

\* A call that puts no name into a slot has nothing to mark.
LEMMA OtherCall ==
    ASSUME app'.call \notin {"subscribe", "channel"}
    PROVE  AnnouncedWanted' /\ AppPartial'
    BY DEF AnnouncedWanted, AppPartial

\* A channel stays wanted while no channel is taken and no event's name is
\* mistaken for one.
LEMMA ChannelsSame ==
    ASSUME TypeOK, ChannelsWanted, UNCHANGED channels,
           wants' = wants \/ \E m \in Names, kind \in Kinds \cup {"no"} : wants' = [wants EXCEPT ![m] = kind]
    PROVE  ChannelsWanted'
<1>1. ASSUME NEW n \in ChannelNames, n \in Wanted PROVE n \in Wanted'
    <2>1. wants'[n] = wants[n]
        BY NameAssumption DEF TypeOK, AllNames
    <2> QED
        BY <1>1, <2>1 DEF Wanted
<1> QED
    BY <1>1 DEF ChannelsWanted

\* Every step keeps the channels wanted and the slots marked.
LEMMA NextCalls ==
    ASSUME Inv, ChannelsWanted, AnnouncedWanted, AppPartial, [Next]_vars
    PROVE  ChannelsWanted' /\ AnnouncedWanted' /\ AppPartial'
<1>1. TypeOK /\ AppSlot
    BY DEF Inv
<1>2. app \in [call : {"none", "subscribe", "unsubscribe", "channel", "disconnect"},
               id : AllNames \cup {NoName}, at : Slots \cup ChannelSlots \cup {0},
               step : {"none", "id", "send", "free", "shutdown", "join", "freed"}]
    BY <1>1 DEF TypeOK
<1>3. CASE \/ Find \/ Thread \/ Server \/ Break \/ Restart \/ Lose \/ Write \/ UNCHANGED vars
           \/ \E n \in Names : Publish(n)
    <2>1. UNCHANGED <<events, channels, app, wants>>
        <3>1. CASE Find \/ Thread
            BY <3>1 DEF Find, Thread, While, Open, OpenFails, Hello, Recv, ReceiveStatus,
                        ReceiveUnknown, StatusArrives, ReceiveEvent, Call, EndOfFile, Close, tables
        <3>2. CASE Server \/ Break \/ Restart \/ Lose \/ Write \/ \E n \in Names : Publish(n)
            BY <3>2 DEF Server, ServerReadsId, ServerReads, ServerCloses, Break, Restart, Lose,
                        Write, Publish, tables
        <3> QED
            BY <1>3, <3>1, <3>2 DEF vars
    <2> QED
        BY <2>1, CallSame
<1>4. ASSUME NEW m \in Names, NEW kind \in Kinds, Subscribe(m, kind)
      PROVE  ChannelsWanted' /\ AnnouncedWanted' /\ AppPartial'
    <2>1. PICK s \in Slots :
              /\ events' = [events EXCEPT ![s].id = Partial,
                                          ![s].cb = IF kind = "callback" THEN m ELSE @]
              /\ app' = [call |-> "subscribe", id |-> m, at |-> s, step |-> "id"]
        BY <1>4, SlotForSlots DEF Subscribe
    <2>2. events'[s].id = Partial
        BY <1>1, <2>1 DEF TypeOK
    <2>3. ChannelsWanted'
        BY <1>1, <1>4, ChannelsSame DEF Subscribe
    <2> QED
        BY <2>1, <2>2, <2>3 DEF AnnouncedWanted, AppPartial
<1>5. ASSUME NEW m \in Names, Unsubscribe(m)
      PROVE  ChannelsWanted' /\ AnnouncedWanted' /\ AppPartial'
    <2>1. app'.call = "unsubscribe"
        BY <1>5 DEF Unsubscribe
    <2>2. ChannelsWanted'
        BY <1>1, <1>5, ChannelsSame DEF Unsubscribe, tables
    <2> QED
        BY <2>1, <2>2, OtherCall
<1>6. ASSUME NEW m \in ChannelNames, ChannelAnons(m)
      PROVE  ChannelsWanted' /\ AnnouncedWanted' /\ AppPartial'
    <2>1. PICK s \in ChannelSlots :
              /\ channels' = [channels EXCEPT ![s] = Partial]
              /\ app' = [call |-> "channel", id |-> m, at |-> s, step |-> "id"]
        <3> DEFINE free == {t \in ChannelSlots : channels[t] = NoName}
        <3>1. free \in SUBSET Nat /\ free # {}
            BY <1>6, SizeAssumption DEF ChannelSlots, ChannelAnons
        <3>2. FirstOf(free) \in free
            BY <3>1, FirstOfIn
        <3> QED
            BY <1>6, <3>2 DEF ChannelAnons
    <2>2. wants' = [wants EXCEPT ![m] = "callback"]
        BY <1>6 DEF ChannelAnons
    <2>3. m \in Wanted' /\ \A n \in Wanted : n \in Wanted'
        BY <1>1, <2>2 DEF TypeOK, Wanted, AllNames
    <2>4. channels'[s] = Partial /\ \A t \in ChannelSlots \ {s} : channels'[t] = channels[t]
        BY <1>1, <2>1 DEF TypeOK
    <2>5. ChannelsWanted'
        BY <2>3, <2>4, NameAssumption DEF ChannelsWanted
    <2> QED
        BY <2>1, <2>3, <2>4, <2>5 DEF AnnouncedWanted, AppPartial
<1>7. CASE SubscribeId
    <2>1. app' = [app EXCEPT !.step = "send"] /\ UNCHANGED <<channels, wants>>
        BY <1>7 DEF SubscribeId
    <2>2. app'.call = "subscribe" /\ app'.step = "send"
        BY <1>2, <1>7, <2>1 DEF SubscribeId
    <2>3. ChannelsWanted'
        BY <1>1, <2>1, ChannelsSame
    <2> QED
        BY <2>2, <2>3 DEF AnnouncedWanted, AppPartial
<1>8. CASE ChannelId
    <2>1. /\ app' = [app EXCEPT !.step = "send"] /\ UNCHANGED wants
          /\ channels' = [channels EXCEPT ![app.at] = app.id]
          /\ app.at \in ChannelSlots /\ app.call = "channel"
        BY <1>1, <1>8 DEF ChannelId, AppSlot
    <2>2. app'.call = "channel" /\ app'.step = "send" /\ app'.id = app.id
        BY <1>2, <2>1
    <2>3. \A t \in ChannelSlots : channels'[t] = IF t = app.at THEN app.id ELSE channels[t]
        BY <1>1, <2>1 DEF TypeOK
    <2>4. app.id \in Wanted /\ Wanted' = Wanted
        BY <2>1 DEF AnnouncedWanted, Wanted
    <2>5. ChannelsWanted'
        BY <2>3, <2>4 DEF ChannelsWanted
    <2> QED
        BY <2>2, <2>4, <2>5 DEF AnnouncedWanted, AppPartial
<1>9. CASE SubscribeSend \/ ChannelSend \/ UnsubscribeFree
    <2>1. app' = Idle /\ UNCHANGED <<channels, wants>>
        BY <1>9 DEF SubscribeSend, ChannelSend, UnsubscribeFree, tables
    <2>2. app'.call = "none"
        BY <2>1 DEF Idle
    <2> QED
        BY <1>1, <2>1, <2>2, OtherCall, ChannelsSame
<1>10. CASE Disconnect \/ DisconnectShutdown \/ DisconnectJoin
    <2>1. UNCHANGED <<channels, wants>>
        BY <1>10 DEF Disconnect, DisconnectShutdown, DisconnectJoin, tables
    <2>2. app'.call = "disconnect"
        <3>1. CASE Disconnect
            BY <3>1 DEF Disconnect, Idle
        <3>2. CASE DisconnectShutdown \/ DisconnectJoin
            BY <1>2, <3>2 DEF DisconnectShutdown, DisconnectJoin
        <3> QED
            BY <1>10, <3>1, <3>2
    <2> QED
        BY <1>1, <2>1, <2>2, OtherCall, ChannelsSame
<1> QED
    BY <1>3, <1>4, <1>5, <1>6, <1>7, <1>8, <1>9, <1>10 DEF Next, AppCalls, AppReturns

\* Nothing is lost for a slot that no call works on.
LEMMA KeptImplies == KeptInv /\ Kept => KeptSubscriptions
<1> SUFFICES ASSUME KeptInv, Kept, NEW k \in 1..HelloLength,
                    Registered(k) \in Wanted, Registered(k) # app.id, link = "up",
                    transport = "tcp" \/ known, ~missed, Passed(k)
             PROVE  WillHold(Registered(k))
    BY DEF KeptSubscriptions
<1>1. PICK n \in AllNames : n = Registered(k)
    BY DEF Wanted
<1>2. TypeOK /\ AppSlot /\ AppWritten /\ AppPartial
    BY DEF KeptInv, SlotsInv, Inv
<1>3. ~Working(k)
    <2>1. CASE app.call = "subscribe" /\ k = app.at
        <3>1. k \in Slots /\ k <= MaxEvents
            BY <1>2, <2>1, SizeAssumption DEF AppSlot, Slots
        <3>2. events[k].id = n
            BY <1>1, <3>1 DEF Registered
        <3> QED
            BY <1>1, <1>2, <2>1, <3>2, NameAssumption DEF AppWritten, AppPartial, AllNames
    <2>2. CASE app.call = "channel" /\ k = MaxEvents + app.at
        <3>1. PICK c \in ChannelSlots : c = app.at
            BY <1>2, <2>2 DEF AppSlot
        <3>2. ~(k <= MaxEvents) /\ k - MaxEvents = c
            BY <2>2, <3>1, SizeAssumption DEF ChannelSlots
        <3>3. channels[c] = n
            BY <1>1, <3>2 DEF Registered
        <3> QED
            BY <1>1, <1>2, <2>2, <3>1, <3>3, NameAssumption DEF AppWritten, AppPartial, AllNames
    <2> QED
        BY <2>1, <2>2 DEF Working
<1>4. Holds(toServer, held, n)
    BY <1>1, <1>3 DEF Kept, Announceable, Promised
<1>5. \A j : j \in Mentions(n) <=> j \in DOMAIN toServer /\ Mention(toServer[j], n)
    BY DEF Mentions, Mention
<1>6. CASE Unmentioned(toServer, n) /\ n \in held
    BY <1>1, <1>5, <1>6 DEF Unmentioned, WillHold
<1>7. CASE Announced(toServer, n, 0)
    <2>1. PICK j \in DOMAIN toServer :
              /\ Mention(toServer[j], n)
              /\ \A i \in DOMAIN toServer : Mention(toServer[i], n) => i <= j
              /\ toServer[j].type # "UNSUBSCRIBE"
        BY <1>7 DEF Announced
    <2>2. j \in Mentions(n) /\ \A i \in Mentions(n) : i <= j
        BY <1>5, <2>1
    <2> QED
        BY <1>1, <2>1, <2>2 DEF WillHold
<1> QED
    BY <1>4, <1>6, <1>7 DEF Holds

(* No subscription and no channel is lost between the application and the     *)
(* connection thread, which share the tables without a lock: once             *)
(* syncs_send_id has passed its slot, the server holds a name or will         *)
(* (client.c:350-433, client.c:1046-1060), for tables of any size and         *)
(* whatever order the threads, the server and the faults come in.             *)
THEOREM SubscriptionsKept == Spec => []KeptSubscriptions
<1>1. Init => KeptInv /\ Kept
    <2> SUFFICES ASSUME Init PROVE KeptInv /\ Kept
        OBVIOUS
    <2>1. SlotsInv
        BY InitInv, NameAssumption DEF Init, SlotsInv, SlotsUnique, AppAlone, Idle
    <2>2. SocketsOpen
        BY DEF Init, SocketsOpen
    <2>3. ChannelsWanted /\ AnnouncedWanted /\ AppPartial
        BY NameAssumption DEF Init, ChannelsWanted, AnnouncedWanted, AppPartial, Idle
    <2>4. Kept
        BY DEF Init, Kept, Announceable
    <2> QED
        BY <2>1, <2>2, <2>3, <2>4 DEF KeptInv
<1>2. (KeptInv /\ Kept) /\ [Next]_vars => (KeptInv /\ Kept)'
    BY NextInv, NextUnique, NextKept, NextSockets, NextCalls DEF KeptInv, SlotsInv
<1>3. KeptInv /\ Kept => KeptSubscriptions
    BY KeptImplies
<1> QED
    BY <1>1, <1>2, <1>3, PTL DEF Spec
=============================================================================
