------------------------- MODULE SyncsServerProofs -------------------------
(***************************************************************************)
(* Proofs about SyncsServer, for arrays, name sets and call sets of any    *)
(* size.                                                                   *)
(***************************************************************************)
EXTENDS SyncsServer, TLAPS

----------------------------------------------------------------------------
(* What the operators on event records return. *)

(* syncs_find_event or syncs_create_event yields a well-formed event with
   the name that was looked for. *)
LEMMA OpenedType ==
    ASSUME TypeOK, NEW e \in EvSlots, NEW id \in EventIds, NEW t \in VarTypes
    PROVE  /\ Opened(e, id, t) \in Event
           /\ Opened(e, id, t).id = id
<1>1. events[e] \in Event
  BY DEF TypeOK
<1>2. events[e].data[2] \in Bytes /\ 0 \in Bytes
  BY <1>1 DEF Event, Data, Bytes
<1>3. <<0, events[e].data[2]>> \in Data
  BY <1>2 DEF Data
<1>4. EventInit(e, id) \in Event /\ EventInit(e, id).id = id
  BY <1>3, TypeAssumption DEF EventInit, Event, Null
<1>5. CreateEvent(e, id, t) \in Event /\ CreateEvent(e, id, t).id = id
  BY <1>4 DEF CreateEvent, Event
<1> QED
  BY <1>1, <1>5 DEF Opened

(* Adding or removing a consumer changes nothing else of an event. *)
LEMMA ConsumerType ==
    ASSUME NEW ev \in Event, NEW c \in ClSlots
    PROVE  /\ AddClientToEvent(ev, c) \in Event
           /\ AddClientToEvent(ev, c).id = ev.id
           /\ AddClientToEvent(ev, c).consumers = ev.consumers \cup {c}
           /\ RemoveClientFromEvent(ev, c) \in Event
           /\ RemoveClientFromEvent(ev, c).id = ev.id
           /\ RemoveClientFromEvent(ev, c).consumers = ev.consumers \ {c}
<1>1. AddClientToEvent(ev, c) \in Event /\ RemoveClientFromEvent(ev, c) \in Event
  <2>1. /\ ev.consumers \cup {c} \in SUBSET ClSlots
        /\ ev.consumers \ {c} \in SUBSET ClSlots
        /\ ev.consumers_count + 1 \in Int
        /\ ev.consumers_count - 1 \in Int
    BY DEF Event
  <2>2. [ev EXCEPT !.consumers = @ \cup {c}, !.consumers_count = @ + 1] \in Event
    BY <2>1 DEF Event
  <2>3. [ev EXCEPT !.consumers = @ \ {c}, !.consumers_count = @ - 1] \in Event
    BY <2>1 DEF Event
  <2> QED
    BY <2>2, <2>3 DEF AddClientToEvent, RemoveClientFromEvent
<1>2. /\ AddClientToEvent(ev, c).id = ev.id
      /\ AddClientToEvent(ev, c).consumers = ev.consumers \cup {c}
  BY DEF AddClientToEvent, Event
<1>3. /\ RemoveClientFromEvent(ev, c).id = ev.id
      /\ RemoveClientFromEvent(ev, c).consumers = ev.consumers \ {c}
  BY DEF RemoveClientFromEvent, Event
<1> QED
  BY <1>1, <1>2, <1>3

(* The array after a consumer is removed from every live event, and after
   the channels of a client are freed. *)
LEMMA RemovalType ==
    ASSUME TypeOK, NEW c \in ClSlots
    PROVE  /\ RemoveClientFromEvents(c) \in [EvSlots -> Event]
           /\ RemoveChannelsOfClient(c) \in [ChSlots -> Channel]
<1>1. ASSUME NEW e \in EvSlots
      PROVE  RemoveClientFromEvent(events[e], c) \in Event /\ events[e] \in Event
  BY ConsumerType DEF TypeOK
<1>2. ASSUME NEW h \in ChSlots
      PROVE  [channels[h] EXCEPT !.id = NoId] \in Channel /\ channels[h] \in Channel
  BY DEF TypeOK, Channel
<1> QED
  BY <1>1, <1>2 DEF RemoveClientFromEvents, RemoveChannelsOfClient

----------------------------------------------------------------------------
(* Five handlers look an event up, create it if it is not there and then
   change its record.  To the invariants they are all alike: one slot gets
   the event id, with the consumers it had (none if it is new) and those of
   S; every other slot stays. *)

Consumers(e, id) == IF events[e].id = id THEN events[e].consumers ELSE {}
Count(e, id) == IF events[e].id = id THEN events[e].consumers_count ELSE 0

PutsAt(e, ev, id, S) ==
    /\ Opens(e, id, TRUE)
    /\ ev.id = id
    /\ ev.consumers = Consumers(e, id) \cup S
    /\ ev.consumers_count = Count(e, id) + (IF S \subseteq Consumers(e, id) THEN 0 ELSE 1)
    /\ events' = [events EXCEPT ![e] = ev]
    /\ event_count' = event_count + AddedCount(id)

Puts(id, S) == \E e \in EvSlots, ev \in Event : PutsAt(e, ev, id, S)

(* What a record just looked up or created holds. *)
LEMMA OpenedFields ==
    ASSUME TypeOK, NEW e \in EvSlots, NEW id \in EventIds, NEW t \in VarTypes
    PROVE  /\ Opened(e, id, t).consumers = Consumers(e, id)
           /\ Opened(e, id, t).consumers_count = Count(e, id)
  BY DEF Opened, CreateEvent, EventInit, Consumers, Count

(* FORCE only widens what can be opened. *)
LEMMA OpensForce ==
    ASSUME NEW e, NEW id, NEW force \in BOOLEAN, Opens(e, id, force)
    PROVE  Opens(e, id, TRUE)
  BY DEF Opens

(* A record that differs from the opened one in other fields only. *)
LEMMA PutsSame ==
    ASSUME TypeOK, NEW e \in EvSlots, NEW id \in EventIds, NEW t \in VarTypes,
           NEW force \in BOOLEAN, NEW ev \in Event,
           Opens(e, id, force),
           ev.id = id,
           ev.consumers = Opened(e, id, t).consumers,
           ev.consumers_count = Opened(e, id, t).consumers_count,
           events' = [events EXCEPT ![e] = ev],
           event_count' = event_count + AddedCount(id)
    PROVE  Puts(id, {})
<1>1. ev.consumers = Consumers(e, id) \cup {}
  BY OpenedFields
<1>2. ev.consumers_count = Count(e, id) + (IF {} \subseteq Consumers(e, id) THEN 0 ELSE 1)
  <2>1. ev.consumers_count \in Int
    BY DEF Event
  <2> QED
    BY <2>1, OpenedFields
<1>3. Opens(e, id, TRUE)
  BY OpensForce
<1>4. PutsAt(e, ev, id, {})
  BY <1>1, <1>2, <1>3 DEF PutsAt
<1> QED
  BY <1>4 DEF Puts

(* A handler that puts one record in the table keeps the table well-formed. *)
LEMMA PutsType ==
    ASSUME TypeOK, NEW id \in EventIds, NEW S,
           Puts(id, S) \/ UNCHANGED <<events, event_count>>
    PROVE  events' \in [EvSlots -> Event] /\ event_count' \in Int
<1>1. AddedCount(id) \in Int /\ event_count \in Int
  BY DEF AddedCount, TypeOK
<1>2. CASE UNCHANGED <<events, event_count>>
  BY <1>2 DEF TypeOK
<1>3. CASE Puts(id, S)
  <2>1. PICK e \in EvSlots, ev \in Event : PutsAt(e, ev, id, S)
    BY <1>3 DEF Puts
  <2> QED
    BY <1>1, <2>1 DEF PutsAt, TypeOK
<1> QED
  BY <1>2, <1>3

(* syncs_client_subscribe adds the client, or nothing if the types clash. *)
LEMMA SubscribePuts ==
    ASSUME TypeOK, NEW c \in ClSlots, NEW id \in EventIds, NEW t \in VarTypes,
           NEW force \in BOOLEAN, NEW counter \in Counters,
           ClientSubscribe(c, id, t, force, counter)
    PROVE  Puts(id, {c}) \/ Puts(id, {}) \/ UNCHANGED <<events, event_count>>
<1>1. CASE UNCHANGED <<events, event_count>>
  BY <1>1
<1>2. ASSUME NEW e \in EvSlots,
             Opens(e, id, force),
             event_count' = event_count + AddedCount(id),
             events' = [events EXCEPT ![e] =
                          IF Compatible(t, Opened(e, id, t).data_type)
                          THEN AddClientToEvent(Opened(e, id, t), c)
                          ELSE Opened(e, id, t)]
      PROVE  Puts(id, {c}) \/ Puts(id, {})
  <2> DEFINE ev == Opened(e, id, t)
             add == AddClientToEvent(ev, c)
  <2>1. ev \in Event /\ ev.id = id
    BY OpenedType
  <2>2. CASE ~Compatible(t, ev.data_type)
    BY <1>2, <2>1, <2>2, PutsSame
  <2>3. CASE Compatible(t, ev.data_type)
    <3>1. add \in Event /\ add.id = id /\ add.consumers = ev.consumers \cup {c}
      BY <2>1, ConsumerType
    <3>2. add.consumers_count =
             ev.consumers_count + (IF {c} \subseteq ev.consumers THEN 0 ELSE 1)
      BY <2>1 DEF AddClientToEvent, Event
    <3>3. events' = [events EXCEPT ![e] = add]
      BY <1>2, <2>3
    <3>4. ev.consumers = Consumers(e, id) /\ ev.consumers_count = Count(e, id)
      BY OpenedFields
    <3>5. Opens(e, id, TRUE)
      BY <1>2, OpensForce
    <3> HIDE DEF ev, add
    <3>6. PutsAt(e, add, id, {c})
      BY <1>2, <3>1, <3>2, <3>3, <3>4, <3>5 DEF PutsAt
    <3> QED
      BY <3>1, <3>6 DEF Puts
  <2> QED
    BY <2>2, <2>3
<1> QED
  BY <1>1, <1>2 DEF ClientSubscribe

(* syncs_add_event keeps the consumers. *)
LEMMA AddEventPuts ==
    ASSUME TypeOK, NEW id \in EventIds, NEW t \in VarTypes, NEW force \in BOOLEAN,
           NEW d \in Payloads \cup {<< >>}, NEW sized \in BOOLEAN,
           AddEvent(id, t, force, d, sized)
    PROVE  Puts(id, {}) \/ UNCHANGED <<events, event_count>>
<1> DEFINE new(e) == [Opened(e, id, t) EXCEPT
                        !.data_type = t, !.full = sized,
                        !.data = IF d = << >> \/ ~sized THEN @ ELSE d]
<1>1. ASSUME NEW e \in EvSlots
      PROVE  /\ new(e) \in Event
             /\ new(e).id = id
             /\ new(e).consumers = Opened(e, id, t).consumers
             /\ new(e).consumers_count = Opened(e, id, t).consumers_count
  <2>1. Opened(e, id, t) \in Event /\ Opened(e, id, t).id = id
    BY OpenedType
  <2>2. (IF d = << >> \/ ~sized THEN Opened(e, id, t).data ELSE d) \in Data
    BY <2>1, PayloadAssumption DEF Event
  <2> QED
    BY <2>1, <2>2 DEF Event
<1>2. CASE UNCHANGED <<events, event_count>>
  BY <1>2
<1>3. ASSUME NEW e \in EvSlots,
             Opens(e, id, TRUE),
             events' = [events EXCEPT ![e] = new(e)],
             event_count' = event_count + AddedCount(id)
      PROVE  Puts(id, {})
  BY <1>1, <1>3, PutsSame
<1> QED
  BY <1>2, <1>3 DEF AddEvent

(* Copying a value to an event, as both writes do, changes its data and its
   size only. *)
LEMMA StoreType ==
    ASSUME NEW ev \in Event, NEW d \in Payloads
    PROVE  /\ Store(ev, d) \in Event
           /\ Store(ev, d).id = ev.id
           /\ Store(ev, d).consumers = ev.consumers
           /\ Store(ev, d).consumers_count = ev.consumers_count
<1>1. d \in Data \/ d = << >>
  BY PayloadAssumption
<1>2. (IF d = << >> THEN ev.data ELSE d) \in Data
  BY <1>1 DEF Event
<1> QED
  BY <1>2 DEF Store, Event

(* syncs_client_write keeps the consumers. *)
LEMMA WritePuts ==
    ASSUME TypeOK, NEW c \in ClSlots, NEW id \in EventIds, NEW t \in VarTypes,
           NEW d \in Payloads, NEW force \in BOOLEAN, NEW echo \in BOOLEAN,
           ClientWrite(c, id, t, d, force, echo)
    PROVE  Puts(id, {}) \/ UNCHANGED <<events, event_count>>
<1> DEFINE old(e) == Store(Opened(e, id, t), d)
           new(e) == [old(e) EXCEPT !.producer = c, !.update_counter = update_counter]
<1>1. ASSUME NEW e \in EvSlots
      PROVE  /\ new(e) \in Event
             /\ new(e).id = id
             /\ new(e).consumers = Opened(e, id, t).consumers
             /\ new(e).consumers_count = Opened(e, id, t).consumers_count
  <2>1. Opened(e, id, t) \in Event /\ Opened(e, id, t).id = id
    BY OpenedType
  <2>2. update_counter \in Nat
    BY SizeAssumption DEF TypeOK
  <2>3. /\ old(e) \in Event
        /\ old(e).id = id
        /\ old(e).consumers = Opened(e, id, t).consumers
        /\ old(e).consumers_count = Opened(e, id, t).consumers_count
    BY <2>1, StoreType
  <2> HIDE DEF old
  <2> QED
    BY <2>2, <2>3 DEF Event
<1>2. CASE UNCHANGED <<events, event_count>>
  BY <1>2
<1>3. ASSUME NEW e \in EvSlots,
             Opens(e, id, force),
             \/ events' = [events EXCEPT ![e] = new(e)]
             \/ events' = [events EXCEPT ![e] = Opened(e, id, t)],
             event_count' = event_count + AddedCount(id)
      PROVE  Puts(id, {})
  BY <1>1, <1>3, OpenedType, PutsSame, ZenonT(40)
<1> QED
  BY <1>2, <1>3 DEF ClientWrite

(* The application's calls that look an event up keep the consumers. *)
LEMMA ServerPuts ==
    ASSUME TypeOK, NEW id \in EventIds, NEW force \in BOOLEAN,
           \/ ServerSubscribeEvent(id, force)
           \/ \E d \in Payloads, echo \in BOOLEAN : ServerWrite(id, d, force, echo)
    PROVE  Puts(id, {})
<1> DEFINE ev(e) == Opened(e, id, NotDefined)
<1>1. ASSUME NEW e \in EvSlots
      PROVE  ev(e) \in Event /\ ev(e).id = id
  BY OpenedType, TypeAssumption
<1>2. CASE ServerSubscribeEvent(id, force)
  <2>1. PICK e \in EvSlots :
           /\ Opens(e, id, force)
           /\ events' = [events EXCEPT ![e] = [ev(e) EXCEPT !.cb = TRUE]]
           /\ event_count' = event_count + AddedCount(id)
    BY <1>2 DEF ServerSubscribeEvent
  <2> DEFINE new == [ev(e) EXCEPT !.cb = TRUE]
  <2>2. /\ new \in Event
        /\ new.id = id
        /\ new.consumers = ev(e).consumers
        /\ new.consumers_count = ev(e).consumers_count
    BY <1>1 DEF Event
  <2> QED
    BY <2>1, <2>2, PutsSame, TypeAssumption
<1>3. ASSUME NEW d \in Payloads, NEW echo \in BOOLEAN, ServerWrite(id, d, force, echo)
      PROVE  Puts(id, {})
  <2>1. PICK e \in EvSlots :
           /\ Opens(e, id, force)
           /\ events' = [events EXCEPT ![e] = [Store(ev(e), d) EXCEPT !.producer = Null]]
           /\ event_count' = event_count + AddedCount(id)
    BY <1>3 DEF ServerWrite
  <2> DEFINE new == [Store(ev(e), d) EXCEPT !.producer = Null]
  <2>2. /\ new \in Event
        /\ new.id = id
        /\ new.consumers = ev(e).consumers
        /\ new.consumers_count = ev(e).consumers_count
    BY <1>1, StoreType DEF Event
  <2> QED
    BY <2>1, <2>2, PutsSame, TypeAssumption
<1> QED
  BY <1>2, <1>3

----------------------------------------------------------------------------
(* Type correctness. *)

(* syncs_free_event keeps the types. *)
LEMMA FreeEventTyping ==
    ASSUME TypeOK, NEW id \in EventIds, FreeEvent(id), UNCHANGED cur
    PROVE  TypeOK'
<1>1. ASSUME NEW e \in EvSlots
      PROVE  [events[e] EXCEPT !.id = NoId] \in Event
  BY DEF TypeOK, Event
<1> QED
  BY <1>1 DEF FreeEvent, TypeOK

(* Every request handler keeps the types. *)
LEMMA RequestTyping ==
    ASSUME TypeOK, NEW c \in ClSlots, Request(c), UNCHANGED cur
    PROVE  TypeOK'
<1>1. ASSUME NEW id \in EventIds, NEW t \in VarTypes, NEW force \in BOOLEAN,
             NEW counter \in Counters, ClientSubscribe(c, id, t, force, counter)
      PROVE  TypeOK'
  <2>1. events' \in [EvSlots -> Event] /\ event_count' \in Int
    BY <1>1, SubscribePuts, PutsType
  <2>2. asked' \in [ClSlots -> SUBSET EventIds]
    BY <1>1 DEF ClientSubscribe, TypeOK
  <2> QED
    BY <1>1, <2>1, <2>2 DEF ClientSubscribe, TypeOK
<1>2. ASSUME NEW id \in EventIds, ClientUnsubscribe(c, id)
      PROVE  TypeOK'
  BY <1>2, ConsumerType DEF ClientUnsubscribe, TypeOK
<1>3. ASSUME NEW id \in EventIds, NEW t \in VarTypes, NEW force \in BOOLEAN,
             NEW sized \in BOOLEAN, AddEvent(id, t, force, << >>, sized)
      PROVE  TypeOK'
  <2>1. events' \in [EvSlots -> Event] /\ event_count' \in Int
    BY <1>3, AddEventPuts, PutsType
  <2> QED
    BY <1>3, <2>1 DEF AddEvent, TypeOK
<1>4. ASSUME NEW id \in EventIds, FreeEvent(id)
      PROVE  TypeOK'
  BY <1>4, FreeEventTyping
<1>5. ASSUME NEW id \in EventIds, NEW t \in VarTypes, NEW d \in Payloads,
             NEW force \in BOOLEAN, NEW echo \in BOOLEAN,
             ClientWrite(c, id, t, d, force, echo)
      PROVE  TypeOK'
  <2>1. events' \in [EvSlots -> Event] /\ event_count' \in Int
    BY <1>5, WritePuts, PutsType
  <2>2. update_counter' \in 0..MaxWrites /\ writing' \in Write \cup {NoWrite}
    <3>1. CASE UNCHANGED <<update_counter, writing>>
      BY <3>1 DEF TypeOK
    <3>2. ASSUME NEW e \in EvSlots,
                 update_counter < MaxWrites,
                 update_counter' = update_counter + 1,
                 \/ writing' = [slot |-> e, echo |-> echo]
                 \/ writing' = NoWrite
          PROVE  update_counter' \in 0..MaxWrites /\ writing' \in Write \cup {NoWrite}
      BY <3>2, SizeAssumption DEF TypeOK, Write
    <3> QED
      BY <1>5, <3>1, <3>2 DEF ClientWrite
  <2> QED
    BY <1>5, <2>1, <2>2 DEF ClientWrite, TypeOK
<1>6. ASSUME NEW id \in ChannelIds, NEW port \in Ports, AddChannel(c, id, port)
      PROVE  TypeOK'
  <2>1. clients[c].addr[1] \in Hosts \cup {NoId}
    BY DEF TypeOK, Client, Addrs, NoAddr
  <2>2. [id |-> id, producer |-> c, ip |-> clients[c].addr[1], port |-> port] \in Channel
    BY <2>1 DEF Channel
  <2> QED
    BY <1>6, <2>2 DEF AddChannel, TypeOK
<1>7. CASE /\ UNCHANGED <<events, clients, channels, event_count, update_counter>>
           /\ UNCHANGED <<writing, asked>>
  BY <1>7 DEF TypeOK
<1> QED
  BY <1>1, <1>2, <1>3, <1>4, <1>5, <1>6, <1>7
     DEF Request, ClientRead, ClientList, ClientChannelRequest

(* A CLIENT_ID request keeps the types, whichever way the client was found. *)
LEMMA ClientIdTyping ==
    ASSUME TypeOK, NEW c \in ClSlots, NEW id \in ClientIds, NEW version,
           NEW cls \in [ClSlots -> Client], ClientId(c, id, version, cls),
           asked' \in [ClSlots -> SUBSET EventIds], UNCHANGED cur
    PROVE  TypeOK'
<1>1. /\ [cls EXCEPT ![c].id = id] \in [ClSlots -> Client]
      /\ [[cls EXCEPT ![c].id = id] EXCEPT ![c].socketfd = "closed"]
            \in [ClSlots -> Client]
  BY DEF Client
<1>2. /\ clients' \in [ClSlots -> Client]
      /\ events' \in [EvSlots -> Event]
      /\ channels' \in [ChSlots -> Channel]
  BY <1>1, RemovalType DEF ClientId, CloseClientSocket, TypeOK
<1> QED
  BY <1>2 DEF ClientId, TypeOK

(* Every step keeps the types. *)
LEMMA NextTyping == TypeOK /\ [Next]_vars => TypeOK'
<1> SUFFICES ASSUME TypeOK, [Next]_vars
             PROVE  TypeOK'
  OBVIOUS
<1>1. ASSUME NEW a \in Addrs, AddClient(a)
      PROVE  TypeOK'
  <2>1. PICK c \in ClSlots :
           /\ clients' = [clients EXCEPT ![c].socketfd = "tcp", ![c].addr = a]
           /\ asked' = [asked EXCEPT ![c] = {}]
    BY <1>1 DEF AddClient
  <2>2. clients' \in [ClSlots -> Client]
    BY <2>1 DEF TypeOK, Client
  <2> QED
    BY <1>1, <2>1, <2>2 DEF AddClient, TypeOK
<1>2. ASSUME NEW a \in Addrs, UdpPacket(a)
      PROVE  TypeOK'
  <2>1. PICK c \in ClSlots :
           \/ Request(c)
           \/ \E id \in ClientIds, version \in UdpVersions :
                 ClientId(c, id, version, clients) /\ UNCHANGED asked
    BY <1>2 DEF UdpPacket
  <2>2. UNCHANGED cur
    BY <1>2 DEF UdpPacket
  <2> QED
    BY <2>1, <2>2, RequestTyping, ClientIdTyping DEF TypeOK
<1>3. ASSUME NEW a \in Addrs, UdpUnknown(a)
      PROVE  TypeOK'
  BY <1>3 DEF UdpUnknown, TypeOK
<1>4. ASSUME NEW a \in Addrs, NEW id \in ClientIds, NEW version \in UdpVersions,
             UdpNewAddress(a, id, version)
      PROVE  TypeOK'
  <2>1. PICK c \in ClSlots :
           \/ /\ ClientId(c, id, version, [clients EXCEPT ![c].addr = a])
              /\ UNCHANGED asked
           \/ /\ ClientId(c, id, version,
                          [clients EXCEPT ![c].addr = a, ![c].socketfd = "udp"])
              /\ asked' = [asked EXCEPT ![c] = {}]
    BY <1>4 DEF UdpNewAddress
  <2>2. /\ [clients EXCEPT ![c].addr = a] \in [ClSlots -> Client]
        /\ [clients EXCEPT ![c].addr = a, ![c].socketfd = "udp"] \in [ClSlots -> Client]
    BY DEF TypeOK, Client
  <2>3. asked' \in [ClSlots -> SUBSET EventIds]
    BY <2>1 DEF TypeOK
  <2>4. UNCHANGED cur
    BY <1>4 DEF UdpNewAddress
  <2> QED
    BY <2>1, <2>2, <2>3, <2>4, ClientIdTyping
<1>5. ASSUME NEW c \in ClSlots, ReceiveBytes(c)
      PROVE  TypeOK'
  BY <1>5 DEF ReceiveBytes, TypeOK
<1>6. ASSUME NEW c \in ClSlots, ProcessPacket(c)
      PROVE  TypeOK'
  <2>1. \/ Request(c)
        \/ \E id \in ClientIds, version \in TcpVersions :
              ClientId(c, id, version, clients) /\ UNCHANGED asked
    BY <1>6 DEF ProcessPacket
  <2>2. UNCHANGED cur
    BY <1>6 DEF ProcessPacket
  <2> QED
    BY <2>1, <2>2, RequestTyping, ClientIdTyping DEF TypeOK
<1>7. ASSUME NEW c \in ClSlots, HangUp(c)
      PROVE  TypeOK'
  <2>1. [clients EXCEPT ![c].socketfd = "closed"] \in [ClSlots -> Client]
    BY DEF TypeOK, Client
  <2> QED
    BY <1>7, <2>1, RemovalType DEF HangUp, CloseClientSocket, TypeOK
<1>8. CASE EndOfBytes
  BY <1>8 DEF EndOfBytes, TypeOK
<1>9. CASE FinishWrite
  BY <1>9 DEF FinishWrite, TypeOK
<1>10. ASSUME NEW id \in EventIds, NEW force \in BOOLEAN,
              \/ ServerSubscribeEvent(id, force)
              \/ \E d \in Payloads, echo \in BOOLEAN : ServerWrite(id, d, force, echo)
       PROVE  TypeOK'
  <2>1. events' \in [EvSlots -> Event] /\ event_count' \in Int
    BY <1>10, ServerPuts, PutsType
  <2> QED
    BY <1>10, <2>1 DEF ServerSubscribeEvent, ServerWrite, TypeOK
<1>11. ASSUME NEW id \in EventIds, ServerUnsubscribeEvent(id)
       PROVE  TypeOK'
  <2>1. PICK e \in EvSlots : events' = [events EXCEPT ![e].cb = FALSE]
    BY <1>11 DEF ServerUnsubscribeEvent
  <2>2. events' \in [EvSlots -> Event]
    BY <2>1, ZenonT(40) DEF TypeOK, Event
  <2> QED
    BY <1>11, <2>2 DEF ServerUnsubscribeEvent, TypeOK
<1>12. ASSUME NEW id \in EventIds, NEW t \in VarTypes, NEW force \in BOOLEAN,
              NEW sized \in BOOLEAN, NEW d \in Payloads \cup {<< >>},
              ServerDefine(id, t, force, d, sized)
       PROVE  TypeOK'
  <2>1. AddEvent(id, t, force, d, sized) /\ UNCHANGED cur
    BY <1>12 DEF ServerDefine
  <2>2. events' \in [EvSlots -> Event] /\ event_count' \in Int
    BY <2>1, AddEventPuts, PutsType
  <2> QED
    BY <2>1, <2>2 DEF AddEvent, TypeOK
<1>13. ASSUME NEW id \in EventIds, ServerUndefine(id)
       PROVE  TypeOK'
  BY <1>13, FreeEventTyping DEF ServerUndefine
<1>14. CASE UNCHANGED vars
  BY <1>14 DEF vars, TypeOK
<1> QED
  BY <1>1, <1>2, <1>3, <1>4, <1>5, <1>6, <1>7, <1>8, <1>9, <1>10, <1>11, <1>12,
     <1>13, <1>14 DEF Next, Network, Application

(* Type correctness of the server: whatever is requested of it and however
   its handlers interleave, each field of its structs keeps its type. *)
THEOREM TypeCorrect == Spec => []TypeOK
<1>1. Init => TypeOK
  <2> SUFFICES ASSUME Init PROVE TypeOK
    OBVIOUS
  <2>1. events \in [EvSlots -> Event]
    <3>1. <<0, 0>> \in Data
      BY DEF Data, Bytes
    <3> QED
      BY <3>1, TypeAssumption DEF Init, Event
  <2>2. clients \in [ClSlots -> Client] /\ channels \in [ChSlots -> Channel]
    BY DEF Init, Client, Channel
  <2>3. update_counter \in 0..MaxWrites /\ event_count \in Int
    BY SizeAssumption DEF Init
  <2>4. asked \in [ClSlots -> SUBSET EventIds]
    BY DEF Init
  <2> QED
    BY <2>1, <2>2, <2>3, <2>4 DEF Init, TypeOK
<1> QED
  BY <1>1, NextTyping, PTL DEF Spec

(* What a request leaves alone: the table of clients, and unless it is an
   announcement the channels. *)
LEMMA RequestFrame ==
    ASSUME NEW c \in ClSlots, Request(c)
    PROVE  /\ UNCHANGED clients
           /\ \/ UNCHANGED channels
              \/ \E id \in ChannelIds, port \in Ports : AddChannel(c, id, port)
<1> DEFINE Frame == UNCHANGED <<clients, channels>>
<1>1. \A id \in EventIds, t \in VarTypes, force \in BOOLEAN, counter \in Counters :
         ClientSubscribe(c, id, t, force, counter) => Frame
  BY DEF ClientSubscribe
<1>2. \A id \in EventIds :
         (ClientUnsubscribe(c, id) \/ FreeEvent(id) \/ ClientRead(c, id)) => Frame
  BY DEF ClientUnsubscribe, FreeEvent, ClientRead
<1>3. \A id \in EventIds, t \in VarTypes, force, sized \in BOOLEAN :
         AddEvent(id, t, force, << >>, sized) => Frame
  BY DEF AddEvent
<1>4. \A id \in EventIds, t \in VarTypes, d \in Payloads, force, echo \in BOOLEAN :
         ClientWrite(c, id, t, d, force, echo) => Frame
  BY ZenonT(40) DEF ClientWrite
<1>5. ClientList(c) => Frame
  BY DEF ClientList
<1>6. \A id \in ChannelIds : ClientChannelRequest(c, id) => Frame
  BY DEF ClientChannelRequest
<1>7. \A id \in ChannelIds, port \in Ports : AddChannel(c, id, port) => UNCHANGED clients
  BY DEF AddChannel
<1> QED
  BY <1>1, <1>2, <1>3, <1>4, <1>5, <1>6, <1>7 DEF Request

----------------------------------------------------------------------------
(* Names are unique. *)

EventNamesUnique == \A e, f \in LiveEvents : events[e].id = events[f].id => e = f
ChannelNamesUnique ==
    \A g, h \in ChSlots \ ChannelsNamed(NoId) : channels[g].id = channels[h].id => g = h

(* No slot has a name it did not have: it keeps its own or loses it. *)
NamesKept == \A e \in EvSlots : events'[e].id \in {events[e].id, NoId}

(* A search that ends with slot e says what the other slots do not hold. *)
LEMMA OpensSlot ==
    ASSUME NEW e \in EvSlots, NEW id, Opens(e, id, TRUE)
    PROVE  \/ events[e].id = id
           \/ events[e].id = NoId /\ \A f \in EvSlots : events[f].id # id
  BY DEF Opens, First, EventsNamed

(* Handlers that create change the names of one slot only ... *)
LEMMA PutsNames ==
    ASSUME TypeOK, EventNamesUnique, NEW id \in EventIds, NEW S, Puts(id, S)
    PROVE  EventNamesUnique'
<1>1. PICK e \in EvSlots, ev \in Event : PutsAt(e, ev, id, S)
  BY DEF Puts
<1>2. /\ events'[e].id = id
      /\ \A f \in EvSlots \ {e} : events'[f] = events[f]
  BY <1>1 DEF PutsAt, TypeOK
<1>3. \A f \in EvSlots \ {e} : events[f].id # id
  <2>1. id # NoId
    BY NameAssumption
  <2> QED
    BY <1>1, <2>1, OpensSlot DEF PutsAt, EventNamesUnique, LiveEvents
<1> QED
  BY <1>2, <1>3 DEF EventNamesUnique, LiveEvents

(* ... and all others keep or drop names. *)
LEMMA KeptNames ==
    ASSUME EventNamesUnique, NamesKept
    PROVE  EventNamesUnique'
  BY DEF EventNamesUnique, NamesKept, LiveEvents

(* syncs_close_client_socket takes consumers away and no name. *)
LEMMA ClosedNames ==
    ASSUME TypeOK, NEW c \in ClSlots, events' = RemoveClientFromEvents(c)
    PROVE  NamesKept
<1>1. ASSUME NEW e \in EvSlots
      PROVE  RemoveClientFromEvent(events[e], c).id = events[e].id
  BY ConsumerType DEF TypeOK
<1> QED
  BY <1>1 DEF NamesKept, RemoveClientFromEvents

(* syncs_free_event takes one name away. *)
LEMMA FreedNames ==
    ASSUME TypeOK, NEW id \in EventIds, FreeEvent(id)
    PROVE  NamesKept
<1>1. ASSUME NEW e \in EvSlots
      PROVE  [events[e] EXCEPT !.id = NoId].id = NoId
  BY DEF TypeOK, Event
<1> QED
  BY <1>1 DEF NamesKept, FreeEvent

(* A request keeps or drops names, or is one of the handlers that create. *)
LEMMA RequestNames ==
    ASSUME TypeOK, NEW c \in ClSlots, Request(c)
    PROVE  NamesKept \/ \E id \in EventIds, S \in {{}, {c}} : Puts(id, S)
<1>0. UNCHANGED events => NamesKept
  BY DEF NamesKept
<1>1. ASSUME NEW id \in EventIds, NEW t \in VarTypes, NEW force \in BOOLEAN,
             NEW counter \in Counters, ClientSubscribe(c, id, t, force, counter)
      PROVE  NamesKept \/ \E S \in {{}, {c}} : Puts(id, S)
  BY <1>0, <1>1, SubscribePuts
<1>2. ASSUME NEW id \in EventIds, ClientUnsubscribe(c, id)
      PROVE  NamesKept
  <2>1. ASSUME NEW e \in EvSlots
        PROVE  RemoveClientFromEvent(events[e], c).id = events[e].id
    BY ConsumerType DEF TypeOK
  <2> QED
    BY <1>2, <2>1 DEF NamesKept, ClientUnsubscribe
<1>3. ASSUME NEW id \in EventIds, NEW t \in VarTypes, NEW force \in BOOLEAN,
             NEW sized \in BOOLEAN, AddEvent(id, t, force, << >>, sized)
      PROVE  NamesKept \/ Puts(id, {})
  BY <1>0, <1>3, AddEventPuts
<1>4. ASSUME NEW id \in EventIds, FreeEvent(id)
      PROVE  NamesKept
  BY <1>4, FreedNames
<1>5. ASSUME NEW id \in EventIds, NEW t \in VarTypes, NEW d \in Payloads,
             NEW force \in BOOLEAN, NEW echo \in BOOLEAN,
             ClientWrite(c, id, t, d, force, echo)
      PROVE  NamesKept \/ Puts(id, {})
  BY <1>0, <1>5, WritePuts
<1>6. CASE UNCHANGED events
  BY <1>0, <1>6
<1> QED
  BY <1>1, <1>2, <1>3, <1>4, <1>5, <1>6, ZenonT(40)
     DEF Request, ClientRead, ClientList, ClientChannelRequest, AddChannel

(* Every step keeps or drops names, or gives one slot a name. *)
LEMMA NextNames ==
    ASSUME TypeOK, [Next]_vars
    PROVE  NamesKept \/ \E id \in EventIds, S \in SUBSET ClSlots : Puts(id, S)
<1>0. UNCHANGED events => NamesKept
  BY DEF NamesKept
<1>1. ASSUME NEW c \in ClSlots, Request(c)
      PROVE  NamesKept \/ \E id \in EventIds, S \in SUBSET ClSlots : Puts(id, S)
  BY <1>1, RequestNames
<1>2. ASSUME NEW c \in ClSlots, NEW id, NEW version, NEW cls,
             ClientId(c, id, version, cls)
      PROVE  NamesKept
  BY <1>0, <1>2, ClosedNames DEF ClientId, CloseClientSocket
<1>3. ASSUME NEW c \in ClSlots, HangUp(c)
      PROVE  NamesKept
  BY <1>3, ClosedNames DEF HangUp, CloseClientSocket
<1>4. CASE Network
  BY <1>0, <1>1, <1>2, <1>3, <1>4
     DEF Network, AddClient, UdpPacket, UdpUnknown, UdpNewAddress, ReceiveBytes,
         ProcessPacket, EndOfBytes, FinishWrite
<1>5. ASSUME NEW id \in EventIds, ServerUnsubscribeEvent(id)
      PROVE  NamesKept
  <2>1. PICK e \in EvSlots : events' = [events EXCEPT ![e].cb = FALSE]
    BY <1>5 DEF ServerUnsubscribeEvent
  <2> QED
    BY <2>1 DEF TypeOK, Event, NamesKept
<1>6. CASE Application
  BY <1>0, <1>5, <1>6, ServerPuts, AddEventPuts, FreedNames
     DEF Application, ServerDefine, ServerUndefine
<1>7. CASE UNCHANGED vars
  BY <1>0, <1>7 DEF vars
<1> QED
  BY <1>4, <1>6, <1>7 DEF Next

(* Channels: an announcement takes the slot that has the name, else a free
   one; a closing client's slots are freed. *)
LEMMA AnnouncedNames ==
    ASSUME TypeOK, ChannelNamesUnique, NEW c \in ClSlots, NEW id \in ChannelIds,
           NEW port \in Ports, AddChannel(c, id, port)
    PROVE  ChannelNamesUnique'
<1> DEFINE S == IF ChannelsNamed(id) # {} THEN ChannelsNamed(id) ELSE ChannelsNamed(NoId)
<1>1. \A h \in ChSlots :
         channels'[h].id = IF First(h, S) THEN id ELSE channels[h].id
  BY DEF AddChannel
<1>2. \A g, h \in ChSlots : First(g, S) /\ First(h, S) => g = h
  BY DEF First, ChSlots, ChannelsNamed
<1>3. \A g, h \in ChSlots : First(h, S) /\ channels[g].id = id => g = h
  <2>1. id # NoId
    BY NameAssumption
  <2> QED
    BY <2>1 DEF First, ChannelsNamed, ChannelNamesUnique
<1>4. \A h \in ChSlots : h \in ChannelsNamed(NoId)' <=> channels'[h].id = NoId
  BY DEF ChannelsNamed
<1>5. \A h \in ChSlots : h \in ChannelsNamed(NoId) <=> channels[h].id = NoId
  BY DEF ChannelsNamed
<1> HIDE DEF S
<1> QED
  BY <1>1, <1>2, <1>3, <1>4, <1>5 DEF ChannelNamesUnique

(* syncs_remove_channels_of_client frees slots and names none. *)
LEMMA RemovedChannelNames ==
    ASSUME TypeOK, ChannelNamesUnique, NEW c \in ClSlots,
           channels' = RemoveChannelsOfClient(c)
    PROVE  ChannelNamesUnique'
<1>1. \A h \in ChSlots : channels'[h].id \in {channels[h].id, NoId}
  BY DEF RemoveChannelsOfClient, TypeOK, Channel
<1> QED
  BY <1>1 DEF ChannelNamesUnique, ChannelsNamed

(* Every step keeps channel names unique. *)
LEMMA NextChannelNames ==
    ASSUME TypeOK, ChannelNamesUnique, [Next]_vars
    PROVE  ChannelNamesUnique'
<1>0. UNCHANGED channels => ChannelNamesUnique'
  BY DEF ChannelNamesUnique, ChannelsNamed
<1>1. ASSUME NEW c \in ClSlots, Request(c)
      PROVE  ChannelNamesUnique'
  BY <1>0, <1>1, AnnouncedNames, RequestFrame
<1>2. ASSUME NEW c \in ClSlots, NEW id, NEW version, NEW cls,
             ClientId(c, id, version, cls)
      PROVE  ChannelNamesUnique'
  BY <1>0, <1>2, RemovedChannelNames DEF ClientId, CloseClientSocket
<1>3. ASSUME NEW c \in ClSlots, HangUp(c)
      PROVE  ChannelNamesUnique'
  BY <1>3, RemovedChannelNames DEF HangUp, CloseClientSocket
<1>4. CASE Network
  BY <1>0, <1>1, <1>2, <1>3, <1>4
     DEF Network, AddClient, UdpPacket, UdpUnknown, UdpNewAddress, ReceiveBytes,
         ProcessPacket, EndOfBytes, FinishWrite
<1>5. CASE Application
  BY <1>0, <1>5, ZenonT(40)
     DEF Application, ServerSubscribeEvent, ServerUnsubscribeEvent, ServerWrite,
         ServerDefine, ServerUndefine, AddEvent, FreeEvent
<1>6. CASE UNCHANGED vars
  BY <1>0, <1>6 DEF vars
<1> QED
  BY <1>4, <1>5, <1>6 DEF Next

(* No two slots ever hold the same event name or the same channel name, so
   the first match of a search is the only one, in arrays of any size. *)
THEOREM NamesStayUnique == Spec => []NamesUnique
<1>1. NamesUnique <=> EventNamesUnique /\ ChannelNamesUnique
  BY DEF NamesUnique, EventNamesUnique, ChannelNamesUnique
<1>2. Init => EventNamesUnique /\ ChannelNamesUnique
  BY DEF Init, EventNamesUnique, ChannelNamesUnique, LiveEvents, ChannelsNamed
<1>3. TypeOK /\ EventNamesUnique /\ [Next]_vars => EventNamesUnique'
  BY NextNames, KeptNames, PutsNames
<1>4. TypeOK /\ ChannelNamesUnique /\ [Next]_vars => ChannelNamesUnique'
  BY NextChannelNames
<1> QED
  BY <1>1, <1>2, <1>3, <1>4, TypeCorrect, PTL DEF Spec
=============================================================================
