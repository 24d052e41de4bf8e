---------------------------- MODULE SyncsServer ----------------------------
(***************************************************************************)
(* The SyncScribe server (src/libsyncs/syncs-server.c): fixed arrays of    *)
(* events, clients and channels, the handlers the epoll thread runs for    *)
(* TCP connections and UDP datagrams, and the syncs_server_* calls of the  *)
(* application that embeds the server.                                     *)
(*                                                                         *)
(* A handler is one step.  Two things are not: a TCP receive, whose bytes  *)
(* hold several packets (variable cur), and a client write whose event has *)
(* a callback, which hands the control to the application before the       *)
(* value is sent (variable writing).                                       *)
(*                                                                         *)
(* Abstracted: the statistics (rx/tx counters, event_write,                *)
(* event_subscribe, producers_count, client_count, channel_count), time    *)
(* stamps, and bytes: a value is its byte 0 and all its other bytes.       *)
(***************************************************************************)
EXTENDS Integers, FiniteSets

CONSTANTS
    MaxEvents, MaxClients, MaxChannels,  \* sizes of the three arrays
    EventIds, ClientIds, ChannelIds,     \* names
    NoId,        \* the id of a free slot (id.i[0] = -1)
    Hosts, Ports,\* a peer's address is a host and a port
    VarTypes,    \* the SYNCS_TYPE_VAR_* codes in use ...
    ANY, NotDefined, \* ... two of which are treated apart
    Payloads,    \* what clients and the application write; << >> is no data
    TcpVersions, UdpVersions, \* the major versions of the clients around
    MAJOR,       \* SYNCS_VERSION_MAJOR
    Transports,  \* those in use: "tcp", "udp"
    Counters,    \* the update counters subscriptions carry
    Calls,       \* the requests and API calls that are made
    MaxWrites    \* bound on the writes of clients, to keep runs finite

Bytes == 0..1
Data == Bytes \X Bytes
Null == 0
EvSlots == 1..MaxEvents
ClSlots == 1..MaxClients
ChSlots == 1..MaxChannels
Addrs == Hosts \X Ports
NoAddr == <<NoId, NoId>>  \* a zeroed struct sockaddr_in

ASSUME SizeAssumption ==
    /\ MaxEvents \in Nat
    /\ MaxClients \in Nat
    /\ MaxChannels \in Nat
    /\ MaxWrites \in Nat
    /\ Counters \subseteq Nat
ASSUME NameAssumption == NoId \notin EventIds \cup ClientIds \cup ChannelIds
ASSUME TypeAssumption == ANY \in VarTypes /\ NotDefined \in VarTypes
ASSUME PayloadAssumption == Payloads \subseteq Data \cup {<< >>}

VARIABLES
    events,         \* s->events
    clients,        \* s->clients
    channels,       \* s->channels
    event_count,    \* s->event_count
    update_counter, \* s->update_counter
    cur,            \* the client whose received bytes are being processed
    writing,        \* the write whose callback is running
    out,            \* the packets the last step handed to the sockets
    asked           \* history: what the connection in a slot subscribed to

vars == <<events, clients, channels, event_count, update_counter, cur,
          writing, out, asked>>

Event == [id : EventIds \cup {NoId}, data : Data, full : BOOLEAN,
          data_type : VarTypes, update_counter : Nat,
          consumers : SUBSET ClSlots, consumers_count : Int,
          producer : ClSlots \cup {Null}, cb : BOOLEAN]
Client == [id : ClientIds \cup {NoId}, socketfd : {"closed", "tcp", "udp"},
           addr : Addrs \cup {NoAddr}]
Channel == [id : ChannelIds \cup {NoId}, producer : ClSlots \cup {Null},
            ip : Hosts \cup {NoId}, port : Ports \cup {NoId}]
Write == [slot : EvSlots, echo : BOOLEAN]
NoWrite == [slot |-> Null, echo |-> FALSE]

----------------------------------------------------------------------------
(* Lookups.  Every search of the code returns the first slot that matches. *)

First(x, S) == x \in S /\ \A y \in S : x <= y

EventsNamed(id) == {e \in EvSlots : events[e].id = id}
LiveEvents == {e \in EvSlots : events[e].id # NoId}
ChannelsNamed(id) == {h \in ChSlots : channels[h].id = id}
FreeClients == {c \in ClSlots : clients[c].socketfd = "closed"}
UdpWithId(id) == {c \in ClSlots : clients[c].socketfd = "udp" /\ clients[c].id = id}
UdpAt(a) == {c \in ClSlots : clients[c].socketfd = "udp" /\ clients[c].addr = a}

(* Faulty: one pass that stops at a free slot before it has seen the rest. *)
OpensOnePass(e, id, force) ==
    IF EventsNamed(id) # {} THEN First(e, EventsNamed(id) \cup EventsNamed(NoId))
                            ELSE force /\ First(e, EventsNamed(NoId))

(* A name that is found keeps its slot; a new one takes the first free one,
   if the request says FORCE (force). *)
Opens(e, id, force) ==
    IF EventsNamed(id) # {} THEN First(e, EventsNamed(id))
                            ELSE force /\ First(e, EventsNamed(NoId))

(* Faulty: the consumers of the slot's former event stay. *)
EventInitKeepsConsumers(e, id) ==
    [id |-> id, data |-> <<0, events[e].data[2]>>, full |-> FALSE,
     data_type |-> NotDefined, update_counter |-> 0,
     consumers |-> events[e].consumers,
     consumers_count |-> events[e].consumers_count,
     producer |-> Null, cb |-> FALSE]

(* syncs_event_init clears one byte of the data: the others stay as the
   slot's former event left them. *)
EventInit(e, id) ==
    [id |-> id, data |-> <<0, events[e].data[2]>>, full |-> FALSE,
     data_type |-> NotDefined, update_counter |-> 0, consumers |-> {},
     consumers_count |-> 0, producer |-> Null, cb |-> FALSE]

CreateEvent(e, id, t) == [EventInit(e, id) EXCEPT !.data_type = t]

(* The event record at e once id is looked up or created with type t. *)
Opened(e, id, t) == IF events[e].id = id THEN events[e] ELSE CreateEvent(e, id, t)

(* The event ev once d is copied to it. *)
Store(ev, d) ==
    [ev EXCEPT !.data = IF d = << >> THEN @ ELSE d, !.full = (d # << >>)]

AddedCount(id) == IF EventsNamed(id) = {} THEN 1 ELSE 0

(* Faulty: a second subscription of the same client is counted. *)
AddClientToEventTwice(ev, c) ==
    [ev EXCEPT !.consumers = @ \cup {c}, !.consumers_count = @ + 1]

AddClientToEvent(ev, c) ==
    IF c \in ev.consumers THEN ev
    ELSE [ev EXCEPT !.consumers = @ \cup {c}, !.consumers_count = @ + 1]

RemoveClientFromEvent(ev, c) ==
    IF c \notin ev.consumers THEN ev
    ELSE [ev EXCEPT !.consumers = @ \ {c}, !.consumers_count = @ - 1]

RemoveClientFromEvents(c) ==
    [e \in EvSlots |-> IF events[e].id # NoId
                       THEN RemoveClientFromEvent(events[e], c)
                       ELSE events[e]]

(* Faulty: the channels of a closed client stay announced. *)
RemoveNoChannels(c) == channels

RemoveChannelsOfClient(c) ==
    [h \in ChSlots |-> IF channels[h].id # NoId /\ channels[h].producer = c
                       THEN [channels[h] EXCEPT !.id = NoId]
                       ELSE channels[h]]

----------------------------------------------------------------------------
(* Packets.  A slot without a socket is sent nothing (syncs_client_send).  *)

ToOpen(P) == {p \in P : clients[p.to].socketfd # "closed"}

Content(ev) == IF ev.full THEN ev.data ELSE << >>

(* Faulty: the loop over the consumers ends at the producer instead of
   skipping it. *)
SendEventUpToProducer(ev, echo) ==
    ToOpen({[to |-> c, type |-> "EVENT", id |-> ev.id, data |-> Content(ev),
             lost |-> FALSE] :
            c \in {d \in ev.consumers : \/ ev.producer \notin ev.consumers
                                        \/ d < ev.producer
                                        \/ echo}})

SendEvent(ev, echo) ==
    ToOpen({[to |-> c, type |-> "EVENT", id |-> ev.id, data |-> Content(ev),
             lost |-> FALSE] :
            c \in {d \in ev.consumers : d # ev.producer \/ echo}})

(* Faulty: the producer is not replayed to, though its slot may have a new
   client by now. *)
ResendEventToOthers(ev, c) ==
    ToOpen({[to |-> d, type |-> "EVENT", id |-> ev.id, data |-> Content(ev),
             lost |-> TRUE] : d \in {c} \ {ev.producer}})

ResendEvent(ev, c) ==
    ToOpen({[to |-> c, type |-> "EVENT", id |-> ev.id, data |-> Content(ev),
             lost |-> TRUE]})

ReadReply(c, id, d, t) ==
    ToOpen({[to |-> c, type |-> "READ", id |-> id, data |-> d, data_type |-> t]})

Status(c, code) == [to |-> c, type |-> "SERVER_STATUS", code |-> code]

----------------------------------------------------------------------------
(* Handlers of the requests of client c (syncs_client_process_packet).     *)

Compatible(t, u) == u = ANY \/ t = ANY \/ t = u

ClientSubscribe(c, id, t, force, counter) ==
    /\ "SUBSCRIBE" \in Calls
    /\ asked' = [asked EXCEPT ![c] = @ \cup {id}]
    /\ \/ \E e \in EvSlots :
             /\ Opens(e, id, force)
             /\ LET ev == Opened(e, id, t)
                    fits == Compatible(t, ev.data_type)
                IN /\ events' = [events EXCEPT ![e] =
                                    IF fits THEN AddClientToEvent(ev, c) ELSE ev]
                   /\ out' = IF fits /\ counter < ev.update_counter
                             THEN ResendEvent(ev, c) ELSE {}
             /\ event_count' = event_count + AddedCount(id)
       \/ /\ ~ \E e \in EvSlots : Opens(e, id, force)
          /\ out' = {}
          /\ UNCHANGED <<events, event_count>>
    /\ UNCHANGED <<clients, channels, update_counter, writing>>

ClientUnsubscribe(c, id) ==
    /\ "UNSUBSCRIBE" \in Calls
    /\ asked' = [asked EXCEPT ![c] = @ \ {id}]
    /\ events' = [e \in EvSlots |-> IF First(e, EventsNamed(id))
                                    THEN RemoveClientFromEvent(events[e], c)
                                    ELSE events[e]]
    /\ out' = {}
    /\ UNCHANGED <<clients, channels, event_count, update_counter, writing>>

(* Faulty: the data is copied although there is none. *)
AddEventUnchecked(id, t, force, d, sized) ==
    /\ \E e \in EvSlots :
          /\ Opens(e, id, TRUE)
          /\ EventsNamed(id) # {} => force
          /\ events' = [events EXCEPT ![e] =
                          [Opened(e, id, t) EXCEPT !.data_type = t,
                                                   !.full = sized, !.data = d]]
          /\ event_count' = event_count + AddedCount(id)
    /\ out' = {}
    /\ UNCHANGED <<clients, channels, update_counter, writing, asked>>

(* syncs_add_event: an existing name is redefined only by FORCE, and keeps
   its consumers.  d is the initial data, or << >> for none (a client's
   DEFINE carries none); sized says that the given size, or that of the
   type, is not zero. *)
AddEvent(id, t, force, d, sized) ==
    /\ \/ \E e \in EvSlots :
             /\ Opens(e, id, TRUE)
             /\ EventsNamed(id) # {} => force
             /\ events' = [events EXCEPT ![e] =
                             [Opened(e, id, t) EXCEPT
                                !.data_type = t, !.full = sized,
                                !.data = IF d = << >> \/ ~sized THEN @ ELSE d]]
             /\ event_count' = event_count + AddedCount(id)
       \/ /\ \/ EventsNamed(id) # {} /\ ~force
             \/ EventsNamed(id) = {} /\ EventsNamed(NoId) = {}
          /\ UNCHANGED <<events, event_count>>
    /\ out' = {}
    /\ UNCHANGED <<clients, channels, update_counter, writing, asked>>

(* Faulty: the count goes down for a name that is not there. *)
FreeEventAlways(id) ==
    /\ events' = [e \in EvSlots |-> IF First(e, EventsNamed(id))
                                    THEN [events[e] EXCEPT !.id = NoId]
                                    ELSE events[e]]
    /\ event_count' = event_count - 1
    /\ out' = {}
    /\ UNCHANGED <<clients, channels, update_counter, writing, asked>>

(* syncs_free_event: only the name goes; the rest of the slot stays. *)
FreeEvent(id) ==
    /\ events' = [e \in EvSlots |-> IF First(e, EventsNamed(id))
                                    THEN [events[e] EXCEPT !.id = NoId]
                                    ELSE events[e]]
    /\ event_count' = event_count - (IF EventsNamed(id) = {} THEN 0 ELSE 1)
    /\ out' = {}
    /\ UNCHANGED <<clients, channels, update_counter, writing, asked>>

(* A write is refused unless its type is the event's.  With a callback the
   sending waits until the callback has returned (FinishWrite). *)
ClientWrite(c, id, t, d, force, echo) ==
    /\ "WRITE" \in Calls
    /\ update_counter < MaxWrites
    /\ \/ \E e \in EvSlots :
             /\ Opens(e, id, force)
             /\ LET ev == Opened(e, id, t)
                    new == [Store(ev, d) EXCEPT !.producer = c,
                                                !.update_counter = update_counter]
                IN IF t = ev.data_type
                   THEN /\ events' = [events EXCEPT ![e] = new]
                        /\ update_counter' = update_counter + 1
                        /\ writing' = IF ev.cb THEN [slot |-> e, echo |-> echo]
                                               ELSE NoWrite
                        /\ out' = IF ev.cb THEN {} ELSE SendEvent(new, echo)
                   ELSE /\ events' = [events EXCEPT ![e] = ev]
                        /\ out' = {}
                        /\ UNCHANGED <<update_counter, writing>>
             /\ event_count' = event_count + AddedCount(id)
       \/ /\ ~ \E e \in EvSlots : Opens(e, id, force)
          /\ out' = {}
          /\ UNCHANGED <<events, event_count, update_counter, writing>>
    /\ UNCHANGED <<clients, channels, asked>>

(* syncs_client_write after the callback: the event is the slot it was in. *)
FinishWrite ==
    /\ writing # NoWrite
    /\ out' = SendEvent(events[writing.slot], writing.echo)
    /\ writing' = NoWrite
    /\ UNCHANGED <<events, clients, channels, event_count, update_counter, cur,
                   asked>>

ClientRead(c, id) ==
    /\ "READ" \in Calls
    /\ \/ \E e \in EvSlots :
             /\ First(e, EventsNamed(id))
             /\ out' = ReadReply(c, id, Content(events[e]), events[e].data_type)
       \/ /\ EventsNamed(id) = {}
          /\ out' = ReadReply(c, id, << >>, NotDefined)
    /\ UNCHANGED <<events, clients, channels, event_count, update_counter,
                   writing, asked>>

(* The three list requests; pages are abstracted to the set they carry. *)
ClientList(c) ==
    /\ "LIST" \in Calls
    /\ \E listed \in {{<<"event", events[e].id>> : e \in LiveEvents},
                      {<<"client", clients[d].id>> : d \in ClSlots \ FreeClients},
                      {<<"channel", channels[h].id>> :
                          h \in ChSlots \ ChannelsNamed(NoId)}} :
          out' = ToOpen({[to |-> c, type |-> "LIST", listed |-> listed]})
    /\ UNCHANGED <<events, clients, channels, event_count, update_counter,
                   writing, asked>>

(* syncs_close_client_socket, for the array cls of clients. *)
CloseClientSocket(c, cls) ==
    /\ events' = RemoveClientFromEvents(c)
    /\ channels' = RemoveChannelsOfClient(c)
    /\ clients' = [cls EXCEPT ![c].socketfd = "closed"]

(* CLIENT_ID, for the array cls of clients: a client of another major
   version is told so and closed, and its name is stored all the same. *)
ClientId(c, id, version, cls) ==
    /\ IF version = MAJOR
       THEN clients' = [cls EXCEPT ![c].id = id] /\ UNCHANGED <<events, channels>>
       ELSE CloseClientSocket(c, [cls EXCEPT ![c].id = id])
    /\ out' = IF cls[c].socketfd = "closed" THEN {}
              ELSE {Status(c, IF version = MAJOR THEN 0 ELSE 1)}
    /\ UNCHANGED <<event_count, update_counter, writing>>

(* Faulty: one pass takes the first slot that is free or has the name. *)
AddChannelOnePass(c, id, port) ==
    /\ "CHANNEL" \in Calls
    /\ channels' = [h \in ChSlots |->
                      IF First(h, ChannelsNamed(id) \cup ChannelsNamed(NoId))
                      THEN [id |-> id, producer |-> c,
                            ip |-> clients[c].addr[1], port |-> port]
                      ELSE channels[h]]
    /\ out' = {}
    /\ UNCHANGED <<events, clients, event_count, update_counter, writing, asked>>

(* The last client to announce a name owns it. *)
AddChannel(c, id, port) ==
    /\ "CHANNEL" \in Calls
    /\ LET S == IF ChannelsNamed(id) # {} THEN ChannelsNamed(id)
                                          ELSE ChannelsNamed(NoId)
       IN channels' = [h \in ChSlots |->
                         IF First(h, S)
                         THEN [id |-> id, producer |-> c,
                               ip |-> clients[c].addr[1], port |-> port]
                         ELSE channels[h]]
    /\ out' = {}
    /\ UNCHANGED <<events, clients, event_count, update_counter, writing, asked>>

(* The answer's type has no SYNCS_TYPE_CHANNEL in it: its message type is
   SYNCS_TYPE_EMPTY. *)
ClientChannelRequest(c, id) ==
    /\ "CHANNEL" \in Calls
    /\ out' = ToOpen({[to |-> c, type |-> "EMPTY", ip |-> channels[h].ip,
                       port |-> channels[h].port] :
                         h \in {g \in ChSlots : First(g, ChannelsNamed(id))}})
    /\ UNCHANGED <<events, clients, channels, event_count, update_counter,
                   writing, asked>>

(* All of them but CLIENT_ID, whose effect depends on how c was found. *)
Request(c) ==
    \/ \E id \in EventIds :
          \/ \E t \in VarTypes, force \in BOOLEAN, counter \in Counters :
                ClientSubscribe(c, id, t, force, counter)
          \/ ClientUnsubscribe(c, id)
          \/ \E t \in VarTypes, force, sized \in BOOLEAN :
                "DEFINE" \in Calls /\ AddEvent(id, t, force, << >>, sized)
          \/ "UNDEFINE" \in Calls /\ FreeEvent(id)
          \/ \E t \in VarTypes, d \in Payloads, force, echo \in BOOLEAN :
                ClientWrite(c, id, t, d, force, echo)
          \/ ClientRead(c, id)
    \/ ClientList(c)
    \/ \E id \in ChannelIds :
          \/ \E port \in Ports : AddChannel(c, id, port)
          \/ ClientChannelRequest(c, id)

----------------------------------------------------------------------------
(* The epoll thread: it runs one handler at a time.                        *)

Idle == cur = Null /\ writing = NoWrite

(* syncs_add_client: nothing of the slot's former client is reset but its
   statistics.  Without a free slot the connection is not accepted. *)
AddClient(a) ==
    /\ "tcp" \in Transports
    /\ Idle
    /\ \E c \in ClSlots :
          /\ First(c, FreeClients)
          /\ clients' = [clients EXCEPT ![c].socketfd = "tcp", ![c].addr = a]
          /\ asked' = [asked EXCEPT ![c] = {}]
    /\ out' = {}
    /\ UNCHANGED <<events, channels, event_count, update_counter, cur, writing>>

(* syncs_client_handler: bytes arrive, the packets in them are processed
   one after the other, whatever has become of the client meanwhile. *)
ReceiveBytes(c) ==
    /\ Idle
    /\ clients[c].socketfd = "tcp"
    /\ cur' = c
    /\ out' = {}
    /\ UNCHANGED <<events, clients, channels, event_count, update_counter,
                   writing, asked>>

ProcessPacket(c) ==
    /\ cur = c
    /\ writing = NoWrite
    /\ \/ Request(c)
       \/ \E id \in ClientIds, version \in TcpVersions :
             ClientId(c, id, version, clients) /\ UNCHANGED asked
    /\ UNCHANGED cur

EndOfBytes ==
    /\ cur # Null
    /\ writing = NoWrite
    /\ cur' = Null
    /\ out' = {}
    /\ UNCHANGED <<events, clients, channels, event_count, update_counter,
                   writing, asked>>

(* The connection is reset or shut down by the peer. *)
HangUp(c) ==
    /\ Idle
    /\ clients[c].socketfd = "tcp"
    /\ CloseClientSocket(c, clients)
    /\ out' = {}
    /\ UNCHANGED <<event_count, update_counter, cur, writing, asked>>

(* syncs_udp_handler: a datagram holds one packet, and the client is known
   by the address it comes from. *)
UdpPacket(a) ==
    /\ Idle
    /\ \E c \in ClSlots :
          /\ First(c, UdpAt(a))
          /\ \/ Request(c)
             \/ \E id \in ClientIds, version \in UdpVersions :
                   ClientId(c, id, version, clients) /\ UNCHANGED asked
    /\ UNCHANGED cur

(* Faulty: a client is looked up by its name only. *)
UdpByName(a, id, version) ==
    /\ "udp" \in Transports
    /\ Idle
    /\ \/ \E c \in ClSlots :
             /\ First(c, UdpWithId(id))
             /\ ClientId(c, id, version, [clients EXCEPT ![c].addr = a])
             /\ UNCHANGED asked
       \/ \E c \in ClSlots :
             /\ UdpWithId(id) = {}
             /\ First(c, FreeClients)
             /\ ClientId(c, id, version,
                         [clients EXCEPT ![c].addr = a, ![c].socketfd = "udp"])
             /\ asked' = [asked EXCEPT ![c] = {}]
    /\ UNCHANGED cur

(* CLIENT_ID from a new address: a known name has moved, a new one is added
   if there is a slot for it. *)
UdpNewAddress(a, id, version) ==
    /\ "udp" \in Transports
    /\ Idle
    /\ UdpAt(a) = {}
    /\ \/ \E c \in ClSlots :
             /\ First(c, UdpWithId(id))
             /\ ClientId(c, id, version, [clients EXCEPT ![c].addr = a])
             /\ UNCHANGED asked
       \/ \E c \in ClSlots :
             /\ UdpWithId(id) = {}
             /\ First(c, FreeClients)
             /\ ClientId(c, id, version,
                         [clients EXCEPT ![c].addr = a, ![c].socketfd = "udp"])
             /\ asked' = [asked EXCEPT ![c] = {}]
    /\ UNCHANGED cur

(* Any other request from an unknown address: SYNCS_ERROR_UNKNOWNCLIENT. *)
UdpUnknown(a) ==
    /\ "udp" \in Transports
    /\ Idle
    /\ UdpAt(a) = {}
    /\ out' = {[addr |-> a, type |-> "SERVER_STATUS", code |-> 2]}
    /\ UNCHANGED <<events, clients, channels, event_count, update_counter, cur,
                   writing, asked>>

----------------------------------------------------------------------------
(* The application's calls, also those it makes from a callback.           *)

ServerSubscribeEvent(id, force) ==
    /\ "server_subscribe" \in Calls
    /\ \E e \in EvSlots :
          /\ Opens(e, id, force)
          /\ events' = [events EXCEPT ![e] =
                          [Opened(e, id, NotDefined) EXCEPT !.cb = TRUE]]
          /\ event_count' = event_count + AddedCount(id)
    /\ out' = {}
    /\ UNCHANGED <<clients, channels, update_counter, cur, writing, asked>>

ServerUnsubscribeEvent(id) ==
    /\ "server_subscribe" \in Calls
    /\ \E e \in EvSlots :
          /\ First(e, EventsNamed(id))
          /\ events' = [events EXCEPT ![e].cb = FALSE]
    /\ out' = {}
    /\ UNCHANGED <<clients, channels, event_count, update_counter, cur, writing,
                   asked>>

(* syncs_server_write checks no type and leaves update_counter alone. *)
ServerWrite(id, d, force, echo) ==
    /\ "server_write" \in Calls
    /\ \E e \in EvSlots :
          /\ Opens(e, id, force)
          /\ LET new == [Store(Opened(e, id, NotDefined), d) EXCEPT !.producer = Null]
             IN /\ events' = [events EXCEPT ![e] = new]
                /\ out' = SendEvent(new, echo)
          /\ event_count' = event_count + AddedCount(id)
    /\ UNCHANGED <<clients, channels, update_counter, cur, writing, asked>>

ServerDefine(id, t, force, d, sized) ==
    /\ "server_define" \in Calls
    /\ AddEvent(id, t, force, d, sized)
    /\ UNCHANGED cur

ServerUndefine(id) ==
    /\ "server_undefine" \in Calls
    /\ FreeEvent(id)
    /\ UNCHANGED cur

Application ==
    \E id \in EventIds :
       \/ \E force \in BOOLEAN : ServerSubscribeEvent(id, force)
       \/ ServerUnsubscribeEvent(id)
       \/ \E d \in Payloads, force, echo \in BOOLEAN : ServerWrite(id, d, force, echo)
       \/ \E t \in VarTypes, force, sized \in BOOLEAN, d \in Payloads \cup {<< >>} :
             ServerDefine(id, t, force, d, sized)
       \/ ServerUndefine(id)

----------------------------------------------------------------------------
(* syncs_server_structure_init, on calloc'ed memory. *)
Init ==
    /\ events = [e \in EvSlots |->
                   [id |-> NoId, data |-> <<0, 0>>, full |-> FALSE,
                    data_type |-> NotDefined, update_counter |-> 0,
                    consumers |-> {}, consumers_count |-> 0,
                    producer |-> Null, cb |-> FALSE]]
    /\ clients = [c \in ClSlots |->
                    [id |-> NoId, socketfd |-> "closed", addr |-> NoAddr]]
    /\ channels = [h \in ChSlots |->
                     [id |-> NoId, producer |-> Null, ip |-> NoId, port |-> NoId]]
    /\ event_count = 0
    /\ update_counter = 0
    /\ cur = Null
    /\ writing = NoWrite
    /\ out = {}
    /\ asked = [c \in ClSlots |-> {}]

Network ==
    \/ \E a \in Addrs : AddClient(a) \/ UdpPacket(a) \/ UdpUnknown(a)
    \/ \E a \in Addrs, id \in ClientIds, version \in UdpVersions :
          UdpNewAddress(a, id, version)
    \/ \E c \in ClSlots : ReceiveBytes(c) \/ ProcessPacket(c) \/ HangUp(c)
    \/ EndOfBytes
    \/ FinishWrite

Next == Network \/ Application

Spec == Init /\ [][Next]_vars

----------------------------------------------------------------------------
(* Properties                                                              *)

(* The type of every variable (the structs of syncs-server-types.h). *)
TypeOK ==
    /\ events \in [EvSlots -> Event]
    /\ clients \in [ClSlots -> Client]
    /\ channels \in [ChSlots -> Channel]
    /\ event_count \in Int
    /\ update_counter \in 0..MaxWrites
    /\ cur \in ClSlots \cup {Null}
    /\ writing \in Write \cup {NoWrite}
    /\ asked \in [ClSlots -> SUBSET EventIds]

(* A name is in one slot at most, so the first slot a search meets is the
   only one: slots are freed and refilled in any order, and every path that
   creates must have searched all of them (syncs_create_event,
   syncs_create_channel). *)
NamesUnique ==
    /\ \A e, f \in LiveEvents : events[e].id = events[f].id => e = f
    /\ \A g, h \in ChSlots \ ChannelsNamed(NoId) :
          channels[g].id = channels[h].id => g = h

(* event_count is the number of events there are, through creation on
   demand by five paths, refused creation and undefinition of unknown names. *)
EventCountExact == event_count = Cardinality(LiveEvents)

(* Who is in an event's consumers is connected, and is a connection that
   asked for this event: neither a slot's former client nor a slot's former
   event leaves a subscription behind (syncs_event_init,
   syncs_close_client_socket). *)
ConsumersAsked ==
    \A e \in LiveEvents : \A c \in events[e].consumers :
        clients[c].socketfd # "closed" /\ events[e].id \in asked[c]

(* consumers_count, which the event list reports, is the number of
   consumers of every event there is. *)
ConsumersCountExact ==
    \A e \in LiveEvents : events[e].consumers_count = Cardinality(events[e].consumers)

(* A channel belongs to a connected client, and while that is a TCP client
   the ticket holds the host it is connected from (syncs_add_channel,
   syncs_remove_channels_of_client). *)
ChannelsOwned ==
    \A h \in ChSlots \ ChannelsNamed(NoId) :
       LET p == channels[h].producer
       IN /\ p # Null
          /\ clients[p].socketfd # "closed"
          /\ clients[p].socketfd = "tcp" => channels[h].ip = clients[p].addr[1]

(* No two UDP clients share an address, so a datagram belongs to one client
   (syncs_uclient_process_packet looks for the address before it adds one or
   moves one). *)
UdpAddressUnique ==
    \A c, d \in ClSlots :
        /\ clients[c].socketfd = "udp"
        /\ clients[d].socketfd = "udp"
        /\ clients[c].addr = clients[d].addr
        => c = d

----------------------------------------------------------------------------
(* The server as a broker of topics (PubSub): a slot is a client, a name is
   a topic. *)

Holds(id) ==
    IF EventsNamed(id) = {} THEN << >>
    ELSE Content(events[CHOOSE e \in EvSlots : First(e, EventsNamed(id))])

EventPackets == {p \in out : p.type = "EVENT"}

Online == ClSlots \ FreeClients
EventNames == {events[e].id : e \in LiveEvents}
EventValues == [id \in EventIds |-> Holds(id)]
Pending == IF writing = NoWrite THEN NoId ELSE events[writing.slot].id
Subscriptions ==
    {s \in ClSlots \X EventIds :
        \E e \in LiveEvents : s[1] \in events[e].consumers /\ s[2] = events[e].id}
Delivered == {<<p.to, p.id, p.data>> : p \in EventPackets}

Broker == INSTANCE PubSub WITH
    Clients <- ClSlots,
    Topics <- EventIds,
    Values <- Payloads,
    None <- NoId,
    online <- Online,
    topics <- EventNames,
    value <- EventValues,
    pending <- Pending,
    subs <- Subscriptions,
    sent <- Delivered

(* An event is sent to no connection that has not asked for it
   (syncs_send_event, syncs_resend_event). *)
OnlyAskedDelivered == \A p \in EventPackets : p.id \in asked[p.to]

(* The server implements the broker: subscriptions are kept by name, end
   with the connection or the event, and a write changes the value of its
   name and reaches exactly the subscribers of that name, at once or when
   the callback has returned (syncs_client_write, syncs_send_event).  Holds
   while nobody redefines an event that has a value, which tells nobody, or
   undefines one from its own callback. *)
ImplementsBroker == Broker!Spec
=============================================================================
