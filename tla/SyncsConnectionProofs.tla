------------------------ MODULE SyncsConnectionProofs ------------------------
(***************************************************************************)
(* Proofs about SyncsServer: what the server keeps of a connection, its    *)
(* subscriptions, channels and address, belongs to that connection and     *)
(* ends with it.                                                           *)
(***************************************************************************)
EXTENDS SyncsServerProofs

Open(c) == clients[c].socketfd # "closed"

(* The bytes being processed are those of an open TCP connection.  With
   clients of another major version this is false: syncs_client_handler goes
   on with the packets behind the CLIENT_ID that closed the connection. *)
CurrentOpen == cur # Null => clients[cur].socketfd = "tcp"

(* The two ways a step may treat the connections: it leaves all of them
   alone, or it touches one only. *)
OthersSame(c) ==
    \A k \in ClSlots \ {c} : /\ clients'[k] = clients[k]
                             /\ asked'[k] = asked[k]

(* A CLIENT_ID request concerns its own slot: the others stay, and the slot
   is closed with all it owns, or keeps its socket. *)
LEMMA ClientIdOthers ==
    ASSUME TypeOK, NEW c \in ClSlots, NEW id \in ClientIds, NEW version,
           NEW cls \in [ClSlots -> Client],
           \A k \in ClSlots \ {c} : cls[k] = clients[k],
           \A k \in ClSlots \ {c} : asked'[k] = asked[k],
           ClientId(c, id, version, cls)
    PROVE  /\ OthersSame(c)
           /\ IF version = MAJOR
              THEN /\ clients'[c].socketfd = cls[c].socketfd
                   /\ clients'[c].addr = cls[c].addr
                   /\ UNCHANGED <<events, channels>>
              ELSE /\ clients'[c].socketfd = "closed"
                   /\ events' = RemoveClientFromEvents(c)
                   /\ channels' = RemoveChannelsOfClient(c)
<1>1. CASE version = MAJOR
  BY <1>1 DEF ClientId, OthersSame, Client
<1>2. CASE version # MAJOR
  BY <1>2 DEF ClientId, CloseClientSocket, OthersSame, Client
<1> QED
  BY <1>1, <1>2

(* So does the end of a connection. *)
LEMMA HangUpOthers ==
    ASSUME TypeOK, NEW c \in ClSlots, HangUp(c)
    PROVE  /\ OthersSame(c)
           /\ clients'[c].socketfd = "closed"
           /\ events' = RemoveClientFromEvents(c)
           /\ channels' = RemoveChannelsOfClient(c)
  BY DEF HangUp, CloseClientSocket, OthersSame, TypeOK, Client

(* A new connection takes a free slot. *)
LEMMA AddClientOthers ==
    ASSUME TypeOK, NEW a \in Addrs, AddClient(a)
    PROVE  \E c \in ClSlots :
              /\ ~Open(c)
              /\ clients'[c].socketfd = "tcp"
              /\ OthersSame(c)
<1>1. PICK c \in ClSlots :
         /\ First(c, FreeClients)
         /\ clients' = [clients EXCEPT ![c].socketfd = "tcp", ![c].addr = a]
         /\ asked' = [asked EXCEPT ![c] = {}]
  BY DEF AddClient
<1>2. ~Open(c)
  BY <1>1 DEF First, FreeClients, Open
<1>3. clients'[c].socketfd = "tcp" /\ OthersSame(c)
  BY <1>1 DEF OthersSame, TypeOK, Client
<1> QED
  BY <1>2, <1>3

(* A datagram from a new address concerns a UDP client that has moved or a
   free slot. *)
LEMMA UdpNewOthers ==
    ASSUME TypeOK, NEW a \in Addrs, NEW id \in ClientIds, NEW version \in UdpVersions,
           UdpNewAddress(a, id, version)
    PROVE  \E c \in ClSlots, cls \in [ClSlots -> Client] :
              /\ ClientId(c, id, version, cls)
              /\ \A k \in ClSlots \ {c} : cls[k] = clients[k]
              /\ \A k \in ClSlots \ {c} : asked'[k] = asked[k]
              /\ cls[c].socketfd = "udp"
              /\ cls[c].addr = a
              /\ \/ clients[c].socketfd = "udp" /\ UNCHANGED asked
                 \/ ~Open(c)
<1>1. CASE \E c \in ClSlots :
              /\ First(c, UdpWithId(id))
              /\ ClientId(c, id, version, [clients EXCEPT ![c].addr = a])
              /\ UNCHANGED asked
  <2>1. PICK c \in ClSlots :
              /\ First(c, UdpWithId(id))
              /\ ClientId(c, id, version, [clients EXCEPT ![c].addr = a])
              /\ UNCHANGED asked
    BY <1>1
  <2> DEFINE cls == [clients EXCEPT ![c].addr = a]
  <2>2. clients[c].socketfd = "udp"
    BY <2>1 DEF First, UdpWithId
  <2>3. /\ cls \in [ClSlots -> Client]
        /\ \A k \in ClSlots \ {c} : cls[k] = clients[k]
        /\ cls[c].socketfd = "udp"
        /\ cls[c].addr = a
    BY <2>2 DEF TypeOK, Client
  <2> QED
    BY <2>1, <2>2, <2>3
<1>2. CASE \E c \in ClSlots :
              /\ First(c, FreeClients)
              /\ ClientId(c, id, version,
                          [clients EXCEPT ![c].addr = a, ![c].socketfd = "udp"])
              /\ asked' = [asked EXCEPT ![c] = {}]
  <2>1. PICK c \in ClSlots :
              /\ First(c, FreeClients)
              /\ ClientId(c, id, version,
                          [clients EXCEPT ![c].addr = a, ![c].socketfd = "udp"])
              /\ asked' = [asked EXCEPT ![c] = {}]
    BY <1>2
  <2> DEFINE cls == [clients EXCEPT ![c].addr = a, ![c].socketfd = "udp"]
  <2>2. ~Open(c)
    BY <2>1 DEF First, FreeClients, Open
  <2>3. /\ cls \in [ClSlots -> Client]
        /\ \A k \in ClSlots \ {c} : cls[k] = clients[k]
        /\ cls[c].socketfd = "udp"
        /\ cls[c].addr = a
    BY DEF TypeOK, Client
  <2>4. \A k \in ClSlots \ {c} : asked'[k] = asked[k]
    BY <2>1 DEF TypeOK
  <2> QED
    BY <2>1, <2>2, <2>3, <2>4
<1> QED
  BY <1>1, <1>2 DEF UdpNewAddress

----------------------------------------------------------------------------
(* The connection whose bytes are processed stays open. *)

(* Only a CLIENT_ID of another major version closes a client whose bytes are
   being processed, so with none around the client stays open. *)
LEMMA NextCurrentOpen ==
    ASSUME TcpVersions \subseteq {MAJOR}, TypeOK, CurrentOpen, [Next]_vars
    PROVE  CurrentOpen'
<1>1. CASE UNCHANGED <<cur, clients>>
  BY <1>1 DEF CurrentOpen
<1>2. CASE cur' = Null
  BY <1>2 DEF CurrentOpen
<1>3. ASSUME NEW c \in ClSlots, ReceiveBytes(c)
      PROVE  CurrentOpen'
  BY <1>3 DEF ReceiveBytes, CurrentOpen
<1>4. ASSUME NEW c \in ClSlots, ProcessPacket(c)
      PROVE  CurrentOpen'
  <2>1. CASE Request(c)
    BY <1>1, <1>4, <2>1, RequestFrame DEF ProcessPacket
  <2>2. ASSUME NEW id \in ClientIds, NEW version \in TcpVersions,
               ClientId(c, id, version, clients) /\ UNCHANGED asked
        PROVE  CurrentOpen'
    <3>1. version = MAJOR
      OBVIOUS
    <3>2. clients'[c].socketfd = clients[c].socketfd
      BY <2>2, <3>1, ClientIdOthers DEF TypeOK
    <3> QED
      BY <1>4, <3>2 DEF ProcessPacket, CurrentOpen
  <2> QED
    BY <1>4, <2>1, <2>2 DEF ProcessPacket
<1>5. ASSUME NEW a \in Addrs,
             \/ AddClient(a)
             \/ UdpPacket(a)
             \/ UdpUnknown(a)
             \/ \E id \in ClientIds, version \in UdpVersions : UdpNewAddress(a, id, version)
      PROVE  cur' = Null
  BY <1>5 DEF AddClient, UdpPacket, UdpUnknown, UdpNewAddress, Idle
<1>6. ASSUME NEW c \in ClSlots, HangUp(c)
      PROVE  cur' = Null
  BY <1>6 DEF HangUp, Idle
<1>7. CASE EndOfBytes \/ FinishWrite \/ UNCHANGED vars
  BY <1>1, <1>2, <1>7 DEF EndOfBytes, FinishWrite, vars
<1>8. CASE Application
  BY <1>1, <1>8, ZenonT(40)
     DEF Application, ServerSubscribeEvent, ServerUnsubscribeEvent, ServerWrite,
         ServerDefine, ServerUndefine, AddEvent, FreeEvent
<1> QED
  BY <1>2, <1>3, <1>4, <1>5, <1>6, <1>7, <1>8 DEF Next, Network

----------------------------------------------------------------------------
(* Subscriptions belong to the connection that asked for them. *)

(* A handler that puts a record in the table adds no consumer but one that
   has just asked. *)
LEMMA PutsAsked ==
    ASSUME TypeOK, ConsumersAsked, NEW id \in EventIds, NEW S \in SUBSET ClSlots,
           Puts(id, S), UNCHANGED clients,
           \A k \in ClSlots : asked[k] \subseteq asked'[k],
           \A k \in S : Open(k) /\ id \in asked'[k]
    PROVE  ConsumersAsked'
<1>1. PICK e \in EvSlots, ev \in Event : PutsAt(e, ev, id, S)
  BY DEF Puts
<1>2. /\ events'[e].id = id
      /\ events'[e].consumers = Consumers(e, id) \cup S
      /\ \A f \in EvSlots \ {e} : events'[f] = events[f]
  BY <1>1 DEF PutsAt, TypeOK
<1>3. ASSUME NEW k \in Consumers(e, id)
      PROVE  Open(k) /\ id \in asked[k] /\ k \in ClSlots
  <2>1. events[e].id = id /\ k \in events[e].consumers
    BY <1>3 DEF Consumers
  <2>2. e \in LiveEvents
    BY <2>1, NameAssumption DEF LiveEvents
  <2> QED
    BY <2>1, <2>2 DEF ConsumersAsked, Open, TypeOK, Event
<1>4. ASSUME NEW f \in LiveEvents', NEW k \in events'[f].consumers
      PROVE  clients'[k].socketfd # "closed" /\ events'[f].id \in asked'[k]
  <2>1. CASE f = e
    BY <1>2, <1>3, <1>4, <2>1 DEF Open
  <2>2. CASE f # e
    <3>1. f \in LiveEvents /\ events'[f] = events[f]
      BY <1>2, <2>2 DEF LiveEvents
    <3>2. k \in ClSlots
      BY <1>4, <3>1 DEF TypeOK, Event, LiveEvents
    <3> QED
      BY <1>4, <3>1, <3>2 DEF ConsumersAsked
  <2> QED
    BY <2>1, <2>2
<1> QED
  BY <1>4 DEF ConsumersAsked

(* Names and consumers can only go. *)
LEMMA ShrunkAsked ==
    ASSUME TypeOK, ConsumersAsked, UNCHANGED <<clients, asked>>, NamesKept,
           \A e \in EvSlots : events'[e].consumers \subseteq events[e].consumers
    PROVE  ConsumersAsked'
  BY NameAssumption DEF ConsumersAsked, NamesKept, LiveEvents

(* syncs_client_unsubscribe removes the client from the only event of the
   name that it no longer asks for. *)
LEMMA UnsubscribedAsked ==
    ASSUME TypeOK, EventNamesUnique, ConsumersAsked, NEW c \in ClSlots,
           NEW id \in EventIds, ClientUnsubscribe(c, id)
    PROVE  ConsumersAsked'
<1>1. ASSUME NEW e \in EvSlots
      PROVE  /\ events'[e].id = events[e].id
             /\ events'[e].consumers \subseteq events[e].consumers
             /\ events[e].id = id => c \notin events'[e].consumers
  <2>1. /\ RemoveClientFromEvent(events[e], c).id = events[e].id
        /\ RemoveClientFromEvent(events[e], c).consumers = events[e].consumers \ {c}
    BY ConsumerType DEF TypeOK
  <2>2. events'[e] = IF First(e, EventsNamed(id))
                     THEN RemoveClientFromEvent(events[e], c) ELSE events[e]
    BY DEF ClientUnsubscribe
  <2>3. events[e].id = id => First(e, EventsNamed(id))
    <3>1. SUFFICES ASSUME events[e].id = id, NEW f \in EventsNamed(id)
                   PROVE  e <= f
      BY DEF First, EventsNamed
    <3>2. e = f
      BY <3>1, NameAssumption DEF EventsNamed, EventNamesUnique, LiveEvents
    <3> QED
      BY <3>2 DEF EvSlots
  <2> QED
    BY <2>1, <2>2, <2>3
<1>2. \A k \in ClSlots : asked'[k] = IF k = c THEN asked[k] \ {id} ELSE asked[k]
  BY DEF ClientUnsubscribe, TypeOK
<1>3. UNCHANGED clients
  BY DEF ClientUnsubscribe
<1>4. ASSUME NEW e \in LiveEvents', NEW k \in events'[e].consumers
      PROVE  clients'[k].socketfd # "closed" /\ events'[e].id \in asked'[k]
  <2>1. e \in LiveEvents /\ k \in events[e].consumers /\ k \in ClSlots
    BY <1>1, <1>4 DEF LiveEvents, TypeOK, Event
  <2> QED
    BY <1>1, <1>2, <1>3, <1>4, <2>1 DEF ConsumersAsked, LiveEvents
<1> QED
  BY <1>4 DEF ConsumersAsked

(* A connection that ends takes its subscriptions along ... *)
LEMMA ClosedAsked ==
    ASSUME TypeOK, ConsumersAsked, NEW c \in ClSlots, OthersSame(c),
           events' = RemoveClientFromEvents(c)
    PROVE  ConsumersAsked'
<1>1. ASSUME NEW e \in EvSlots
      PROVE  /\ events'[e].id = events[e].id
             /\ events[e].id # NoId => events'[e].consumers = events[e].consumers \ {c}
  <2>1. /\ RemoveClientFromEvent(events[e], c).id = events[e].id
        /\ RemoveClientFromEvent(events[e], c).consumers = events[e].consumers \ {c}
    BY ConsumerType DEF TypeOK
  <2> QED
    BY <2>1 DEF RemoveClientFromEvents
<1>2. ASSUME NEW e \in LiveEvents', NEW k \in events'[e].consumers
      PROVE  clients'[k].socketfd # "closed" /\ events'[e].id \in asked'[k]
  <2>1. e \in LiveEvents /\ k \in events[e].consumers \ {c} /\ k \in ClSlots
    BY <1>1, <1>2 DEF LiveEvents, TypeOK, Event
  <2> QED
    BY <1>1, <2>1 DEF ConsumersAsked, OthersSame, LiveEvents
<1> QED
  BY <1>2 DEF ConsumersAsked

(* ... so a slot that is taken anew has none. *)
LEMMA ConnectedAsked ==
    ASSUME TypeOK, ConsumersAsked, NEW c \in ClSlots, OthersSame(c), UNCHANGED events,
           \/ ~Open(c)
           \/ clients'[c].socketfd # "closed" /\ asked'[c] = asked[c]
    PROVE  ConsumersAsked'
<1>1. ASSUME NEW e \in LiveEvents', NEW k \in events'[e].consumers
      PROVE  clients'[k].socketfd # "closed" /\ events'[e].id \in asked'[k]
  <2>1. e \in LiveEvents /\ k \in events[e].consumers /\ k \in ClSlots
    BY <1>1 DEF LiveEvents, TypeOK, Event
  <2>2. Open(k) /\ events[e].id \in asked[k]
    BY <2>1 DEF ConsumersAsked, Open
  <2> QED
    BY <2>1, <2>2 DEF OthersSame, Open
<1> QED
  BY <1>1 DEF ConsumersAsked

(* syncs_free_event only takes a name away. *)
LEMMA FreedAsked ==
    ASSUME TypeOK, ConsumersAsked, NEW id \in EventIds, FreeEvent(id)
    PROVE  ConsumersAsked'
<1>1. \A e \in EvSlots : events'[e].consumers \subseteq events[e].consumers
  BY DEF FreeEvent, TypeOK, Event
<1> QED
  BY <1>1, FreedNames, ShrunkAsked DEF FreeEvent

(* Every request of an open connection leaves subscriptions with those who
   asked. *)
LEMMA RequestAsked ==
    ASSUME TypeOK, EventNamesUnique, ConsumersAsked, NEW c \in ClSlots, Open(c),
           Request(c)
    PROVE  ConsumersAsked'
<1>0. UNCHANGED <<events, clients>> /\ (\A k \in ClSlots : asked[k] \subseteq asked'[k])
         => ConsumersAsked'
  BY DEF ConsumersAsked, LiveEvents, TypeOK, Event
<1>1. ASSUME NEW id \in EventIds, NEW t \in VarTypes, NEW force \in BOOLEAN,
             NEW counter \in Counters, ClientSubscribe(c, id, t, force, counter)
      PROVE  ConsumersAsked'
  <2>1. /\ UNCHANGED clients
        /\ asked' = [asked EXCEPT ![c] = @ \cup {id}]
    BY <1>1 DEF ClientSubscribe
  <2>2. /\ \A k \in ClSlots : asked[k] \subseteq asked'[k]
        /\ id \in asked'[c]
    BY <2>1 DEF TypeOK
  <2>3. CASE Puts(id, {c})
    BY <2>1, <2>2, <2>3, PutsAsked
  <2>4. CASE Puts(id, {})
    BY <2>1, <2>2, <2>4, PutsAsked
  <2>5. CASE UNCHANGED <<events, event_count>>
    BY <1>0, <2>1, <2>2, <2>5
  <2> QED
    BY <1>1, <2>3, <2>4, <2>5, SubscribePuts
<1>2. ASSUME NEW id \in EventIds, ClientUnsubscribe(c, id)
      PROVE  ConsumersAsked'
  BY <1>2, UnsubscribedAsked
<1>3. ASSUME NEW id \in EventIds, NEW t \in VarTypes, NEW force \in BOOLEAN,
             NEW sized \in BOOLEAN, AddEvent(id, t, force, << >>, sized)
      PROVE  ConsumersAsked'
  <2>1. UNCHANGED <<clients, asked>>
    BY <1>3 DEF AddEvent
  <2> QED
    BY <1>0, <1>3, <2>1, AddEventPuts, PutsAsked
<1>4. ASSUME NEW id \in EventIds, FreeEvent(id)
      PROVE  ConsumersAsked'
  BY <1>4, FreedAsked
<1>5. ASSUME NEW id \in EventIds, NEW t \in VarTypes, NEW d \in Payloads,
             NEW force \in BOOLEAN, NEW echo \in BOOLEAN,
             ClientWrite(c, id, t, d, force, echo)
      PROVE  ConsumersAsked'
  <2>1. UNCHANGED <<clients, asked>>
    BY <1>5 DEF ClientWrite
  <2> QED
    BY <1>0, <1>5, <2>1, WritePuts, PutsAsked
<1>6. CASE UNCHANGED <<events, clients, asked>>
  BY <1>0, <1>6
<1> QED
  BY <1>1, <1>2, <1>3, <1>4, <1>5, <1>6
     DEF Request, ClientRead, ClientList, ClientChannelRequest, AddChannel

(* A CLIENT_ID request, on an open connection or a slot just taken, leaves
   subscriptions with those who asked. *)
LEMMA ClientIdAsked ==
    ASSUME TypeOK, ConsumersAsked, NEW c \in ClSlots, NEW id \in ClientIds, NEW version,
           NEW cls \in [ClSlots -> Client],
           \A k \in ClSlots \ {c} : cls[k] = clients[k],
           \A k \in ClSlots \ {c} : asked'[k] = asked[k],
           \/ ~Open(c)
           \/ cls[c].socketfd # "closed" /\ asked'[c] = asked[c],
           ClientId(c, id, version, cls)
    PROVE  ConsumersAsked'
  BY ClientIdOthers, ClosedAsked, ConnectedAsked

(* Every step leaves subscriptions with those who asked. *)
LEMMA NextAsked ==
    ASSUME TypeOK, EventNamesUnique, CurrentOpen, ConsumersAsked, [Next]_vars
    PROVE  ConsumersAsked'
<1>0. UNCHANGED <<events, clients, asked>> => ConsumersAsked'
  BY DEF ConsumersAsked, LiveEvents
<1>1. ASSUME NEW a \in Addrs, AddClient(a)
      PROVE  ConsumersAsked'
  BY <1>1, AddClientOthers, ConnectedAsked DEF AddClient
<1>2. ASSUME NEW a \in Addrs, UdpPacket(a)
      PROVE  ConsumersAsked'
  <2>1. PICK c \in ClSlots :
           /\ First(c, UdpAt(a))
           /\ \/ Request(c)
              \/ \E id \in ClientIds, version \in UdpVersions :
                    ClientId(c, id, version, clients) /\ UNCHANGED asked
    BY <1>2 DEF UdpPacket
  <2>2. Open(c)
    BY <2>1 DEF First, UdpAt, Open
  <2> QED
    BY <2>1, <2>2, RequestAsked, ClientIdAsked DEF TypeOK, Open
<1>3. ASSUME NEW a \in Addrs, NEW id \in ClientIds, NEW version \in UdpVersions,
             UdpNewAddress(a, id, version)
      PROVE  ConsumersAsked'
  BY <1>3, UdpNewOthers, ClientIdAsked
<1>4. ASSUME NEW c \in ClSlots, ProcessPacket(c)
      PROVE  ConsumersAsked'
  <2>1. Open(c)
    BY <1>4 DEF ProcessPacket, CurrentOpen, Open, ClSlots, Null
  <2>2. \/ Request(c)
        \/ \E id \in ClientIds, version \in TcpVersions :
              ClientId(c, id, version, clients) /\ UNCHANGED asked
    BY <1>4 DEF ProcessPacket
  <2> QED
    BY <2>1, <2>2, RequestAsked, ClientIdAsked DEF TypeOK, Open
<1>5. ASSUME NEW c \in ClSlots, HangUp(c)
      PROVE  ConsumersAsked'
  BY <1>5, HangUpOthers, ClosedAsked
<1>6. CASE \/ \E a \in Addrs : UdpUnknown(a)
           \/ \E c \in ClSlots : ReceiveBytes(c)
           \/ EndOfBytes
           \/ FinishWrite
           \/ UNCHANGED vars
  BY <1>0, <1>6 DEF UdpUnknown, ReceiveBytes, EndOfBytes, FinishWrite, vars
<1>7. ASSUME NEW id \in EventIds, NEW force \in BOOLEAN,
             \/ ServerSubscribeEvent(id, force)
             \/ \E d \in Payloads, echo \in BOOLEAN : ServerWrite(id, d, force, echo)
      PROVE  ConsumersAsked'
  <2>1. UNCHANGED <<clients, asked>>
    BY <1>7 DEF ServerSubscribeEvent, ServerWrite
  <2> QED
    BY <1>7, <2>1, ServerPuts, PutsAsked
<1>8. ASSUME NEW id \in EventIds, ServerUnsubscribeEvent(id)
      PROVE  ConsumersAsked'
  <2>1. PICK e \in EvSlots : events' = [events EXCEPT ![e].cb = FALSE]
    BY <1>8 DEF ServerUnsubscribeEvent
  <2>2. /\ NamesKept
        /\ \A f \in EvSlots : events'[f].consumers \subseteq events[f].consumers
    BY <2>1 DEF TypeOK, Event, NamesKept
  <2> QED
    BY <1>8, <2>2, ShrunkAsked DEF ServerUnsubscribeEvent
<1>9. ASSUME NEW id \in EventIds, NEW t \in VarTypes, NEW force \in BOOLEAN,
             NEW sized \in BOOLEAN, NEW d \in Payloads \cup {<< >>},
             ServerDefine(id, t, force, d, sized)
      PROVE  ConsumersAsked'
  <2>1. AddEvent(id, t, force, d, sized) /\ UNCHANGED <<clients, asked>>
    BY <1>9 DEF ServerDefine, AddEvent
  <2> QED
    BY <1>0, <2>1, AddEventPuts, PutsAsked
<1>10. ASSUME NEW id \in EventIds, ServerUndefine(id)
       PROVE  ConsumersAsked'
  BY <1>10, FreedAsked DEF ServerUndefine
<1> QED
  BY <1>1, <1>2, <1>3, <1>4, <1>5, <1>6, <1>7, <1>8, <1>9, <1>10
     DEF Next, Network, Application

(* With TCP clients of the server's own major version, every consumer of an
   event is an open connection that asked for it: subscriptions survive
   neither their connection nor their event, however slots are reused. *)
THEOREM SubscriptionsOwned ==
    ASSUME TcpVersions \subseteq {MAJOR}
    PROVE  Spec => []ConsumersAsked
<1> DEFINE IInv == EventNamesUnique /\ CurrentOpen /\ ConsumersAsked
<1>1. Init => IInv
  BY DEF Init, EventNamesUnique, CurrentOpen, ConsumersAsked, LiveEvents
<1>2. TypeOK /\ IInv /\ [Next]_vars => IInv'
  BY NextNames, KeptNames, PutsNames, NextCurrentOpen, NextAsked
<1> QED
  BY <1>1, <1>2, TypeCorrect, PTL DEF Spec

----------------------------------------------------------------------------
(* Addresses of UDP clients. *)

(* Only client c changes, and not to an address that a UDP client has. *)
LEMMA OneAddress ==
    ASSUME UdpAddressUnique, NEW c \in ClSlots, OthersSame(c),
           \/ clients'[c].socketfd # "udp"
           \/ clients[c].socketfd = "udp" /\ clients'[c].addr = clients[c].addr
           \/ UdpAt(clients'[c].addr) = {}
    PROVE  UdpAddressUnique'
<1>1. \A a : UdpAt(a) = {} =>
                \A k \in ClSlots : clients[k].socketfd = "udp" => clients[k].addr # a
  BY DEF UdpAt
<1> QED
  BY <1>1 DEF UdpAddressUnique, OthersSame

(* A datagram's address belongs to one client at most, so the search by
   address in syncs_uclient_process_packet never has a choice. *)
THEOREM UdpAddressesUnique == Spec => []UdpAddressUnique
<1>1. Init => UdpAddressUnique
  BY DEF Init, UdpAddressUnique
<1>2. ASSUME TypeOK, UdpAddressUnique, [Next]_vars
      PROVE  UdpAddressUnique'
  <2>0. UNCHANGED clients => UdpAddressUnique'
    BY <1>2 DEF UdpAddressUnique
  <2>1. ASSUME NEW c \in ClSlots, NEW id \in ClientIds, NEW version,
               ClientId(c, id, version, clients), UNCHANGED asked
        PROVE  UdpAddressUnique'
    <3>1. /\ OthersSame(c)
          /\ \/ clients'[c].socketfd = "closed"
             \/ /\ clients'[c].socketfd = clients[c].socketfd
                /\ clients'[c].addr = clients[c].addr
      BY <1>2, <2>1, ClientIdOthers DEF TypeOK
    <3> QED
      BY <1>2, <3>1, OneAddress
  <2>2. ASSUME NEW a \in Addrs, NEW id \in ClientIds, NEW version \in UdpVersions,
               UdpNewAddress(a, id, version)
        PROVE  UdpAddressUnique'
    <3>1. PICK c \in ClSlots, cls \in [ClSlots -> Client] :
              /\ ClientId(c, id, version, cls)
              /\ \A k \in ClSlots \ {c} : cls[k] = clients[k]
              /\ \A k \in ClSlots \ {c} : asked'[k] = asked[k]
              /\ cls[c].addr = a
      BY <1>2, <2>2, UdpNewOthers
    <3>2. /\ OthersSame(c)
          /\ clients'[c].socketfd = "closed" \/ clients'[c].addr = a
      BY <1>2, <3>1, ClientIdOthers
    <3>3. UdpAt(a) = {}
      BY <2>2 DEF UdpNewAddress
    <3> QED
      BY <1>2, <3>2, <3>3, OneAddress
  <2>3. ASSUME NEW a \in Addrs, AddClient(a)
        PROVE  UdpAddressUnique'
    BY <1>2, <2>3, AddClientOthers, OneAddress
  <2>4. ASSUME NEW c \in ClSlots, HangUp(c)
        PROVE  UdpAddressUnique'
    BY <1>2, <2>4, HangUpOthers, OneAddress
  <2>5. CASE Network
    BY <2>0, <2>1, <2>2, <2>3, <2>4, <2>5, RequestFrame
       DEF Network, UdpPacket, UdpUnknown, ReceiveBytes, ProcessPacket, EndOfBytes,
           FinishWrite
  <2>6. CASE Application
    BY <2>0, <2>6
       DEF Application, ServerSubscribeEvent, ServerUnsubscribeEvent, ServerWrite,
           ServerDefine, ServerUndefine, AddEvent, FreeEvent
  <2>7. CASE UNCHANGED vars
    BY <2>0, <2>7 DEF vars
  <2> QED
    BY <1>2, <2>5, <2>6, <2>7 DEF Next
<1> QED
  BY <1>1, <1>2, TypeCorrect, PTL DEF Spec

----------------------------------------------------------------------------
(* Channels belong to open connections. *)

(* syncs_add_channel makes an open connection the owner and its host the
   address. *)
LEMMA AnnouncedOwned ==
    ASSUME TypeOK, ChannelsOwned, NEW c \in ClSlots, Open(c), NEW id \in ChannelIds,
           NEW port \in Ports, AddChannel(c, id, port)
    PROVE  ChannelsOwned'
<1>1. UNCHANGED clients /\ c # Null
  BY DEF AddChannel, ClSlots, Null
<1>2. ASSUME NEW h \in ChSlots
      PROVE  \/ channels'[h] = channels[h]
             \/ channels'[h].producer = c /\ channels'[h].ip = clients[c].addr[1]
  BY DEF AddChannel
<1> QED
  BY <1>1, <1>2 DEF ChannelsOwned, ChannelsNamed, Open

(* syncs_remove_channels_of_client leaves no channel to a client that goes. *)
LEMMA ClosedOwned ==
    ASSUME TypeOK, ChannelsOwned, NEW c \in ClSlots, OthersSame(c),
           channels' = RemoveChannelsOfClient(c)
    PROVE  ChannelsOwned'
<1>1. ASSUME NEW h \in ChSlots, channels'[h].id # NoId
      PROVE  channels'[h] = channels[h] /\ channels[h].producer # c
  BY <1>1 DEF RemoveChannelsOfClient, TypeOK, Channel
<1>2. ASSUME NEW h \in ChSlots, channels'[h].id # NoId
      PROVE  channels[h].producer \in ClSlots \ {c}
  BY <1>1, <1>2 DEF ChannelsOwned, ChannelsNamed, TypeOK, Channel
<1> QED
  BY <1>1, <1>2 DEF ChannelsOwned, ChannelsNamed, OthersSame

(* A slot that is taken anew owns no channel, and a UDP client that moves
   keeps its own. *)
LEMMA ConnectedOwned ==
    ASSUME TypeOK, ChannelsOwned, NEW c \in ClSlots, OthersSame(c), UNCHANGED channels,
           \/ ~Open(c)
           \/ clients'[c].socketfd = "udp"
           \/ /\ clients'[c].socketfd = clients[c].socketfd
              /\ clients'[c].addr = clients[c].addr
    PROVE  ChannelsOwned'
<1>1. ASSUME NEW h \in ChSlots, channels[h].id # NoId
      PROVE  channels[h].producer \in ClSlots /\ Open(channels[h].producer)
  BY <1>1 DEF ChannelsOwned, ChannelsNamed, TypeOK, Channel, Open
<1> QED
  BY <1>1 DEF ChannelsOwned, ChannelsNamed, OthersSame, Open

(* A CLIENT_ID request on an open connection, moved or not, and on a slot
   that is taken for it. *)
LEMMA ClientIdOwned ==
    ASSUME TypeOK, ChannelsOwned, NEW c \in ClSlots, NEW id \in ClientIds, NEW version,
           NEW cls \in [ClSlots -> Client],
           \A k \in ClSlots \ {c} : cls[k] = clients[k],
           \A k \in ClSlots \ {c} : asked'[k] = asked[k],
           cls[c] = clients[c] \/ cls[c].socketfd = "udp",
           ClientId(c, id, version, cls)
    PROVE  ChannelsOwned'
<1>1. OthersSame(c)
  BY ClientIdOthers
<1>2. CASE version = MAJOR
  <2>1. /\ clients'[c].socketfd = cls[c].socketfd
        /\ clients'[c].addr = cls[c].addr
        /\ UNCHANGED channels
    BY <1>2, ClientIdOthers
  <2> QED
    BY <1>1, <2>1, ConnectedOwned
<1>3. CASE version # MAJOR
  <2>1. channels' = RemoveChannelsOfClient(c)
    BY <1>3, ClientIdOthers
  <2> QED
    BY <1>1, <2>1, ClosedOwned
<1> QED
  BY <1>2, <1>3

(* With TCP clients of the server's own major version, whoever asks for a
   channel is given the host of a client that is still connected. *)
THEOREM ChannelsStayOwned ==
    ASSUME TcpVersions \subseteq {MAJOR}
    PROVE  Spec => []ChannelsOwned
<1> DEFINE IInv == CurrentOpen /\ ChannelsOwned
<1>1. Init => IInv
  BY DEF Init, CurrentOpen, ChannelsOwned, ChannelsNamed
<1>2. ASSUME TypeOK, CurrentOpen, ChannelsOwned, [Next]_vars
      PROVE  ChannelsOwned'
  <2>0. UNCHANGED <<clients, channels>> => ChannelsOwned'
    BY <1>2 DEF ChannelsOwned, ChannelsNamed
  <2>1. ASSUME NEW c \in ClSlots, Open(c), Request(c)
        PROVE  ChannelsOwned'
    BY <1>2, <2>0, <2>1, RequestFrame, AnnouncedOwned
  <2>2. ASSUME NEW c \in ClSlots, NEW id \in ClientIds, NEW version,
               ClientId(c, id, version, clients), UNCHANGED asked
        PROVE  ChannelsOwned'
    BY <1>2, <2>2, ClientIdOwned DEF TypeOK
  <2>3. ASSUME NEW c \in ClSlots, ProcessPacket(c)
        PROVE  ChannelsOwned'
    <3>1. Open(c)
      BY <1>2, <2>3 DEF ProcessPacket, CurrentOpen, Open, ClSlots, Null
    <3> QED
      BY <2>1, <2>2, <2>3, <3>1 DEF ProcessPacket
  <2>4. ASSUME NEW a \in Addrs, UdpPacket(a)
        PROVE  ChannelsOwned'
    <3>1. PICK c \in ClSlots :
             /\ First(c, UdpAt(a))
             /\ \/ Request(c)
                \/ \E id \in ClientIds, version \in UdpVersions :
                      ClientId(c, id, version, clients) /\ UNCHANGED asked
      BY <2>4 DEF UdpPacket
    <3>2. Open(c)
      BY <3>1 DEF First, UdpAt, Open
    <3> QED
      BY <2>1, <2>2, <3>1, <3>2
  <2>5. ASSUME NEW a \in Addrs, NEW id \in ClientIds, NEW version \in UdpVersions,
               UdpNewAddress(a, id, version)
        PROVE  ChannelsOwned'
    BY <1>2, <2>5, UdpNewOthers, ClientIdOwned
  <2>6. ASSUME NEW a \in Addrs, AddClient(a)
        PROVE  ChannelsOwned'
    BY <1>2, <2>6, AddClientOthers, ConnectedOwned DEF AddClient
  <2>7. ASSUME NEW c \in ClSlots, HangUp(c)
        PROVE  ChannelsOwned'
    BY <1>2, <2>7, HangUpOthers, ClosedOwned
  <2>8. CASE \/ \E a \in Addrs : UdpUnknown(a)
             \/ \E c \in ClSlots : ReceiveBytes(c)
             \/ EndOfBytes
             \/ FinishWrite
             \/ UNCHANGED vars
    BY <2>0, <2>8 DEF UdpUnknown, ReceiveBytes, EndOfBytes, FinishWrite, vars
  <2>9. CASE Application
    BY <2>0, <2>9, ZenonT(40)
       DEF Application, ServerSubscribeEvent, ServerUnsubscribeEvent, ServerWrite,
           ServerDefine, ServerUndefine, AddEvent, FreeEvent
  <2> QED
    BY <1>2, <2>3, <2>4, <2>5, <2>6, <2>7, <2>8, <2>9 DEF Next, Network
<1>3. TypeOK /\ IInv /\ [Next]_vars => IInv'
  BY <1>2, NextCurrentOpen
<1> QED
  BY <1>1, <1>3, TypeCorrect, PTL DEF Spec
=============================================================================
