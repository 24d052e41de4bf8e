---------------------------- MODULE SyncsSession ----------------------------
(***************************************************************************)
(* The TCP or UDP session of a client, src/libsyncs/syncs-client.c: the     *)
(* tables of subscriptions and announced channels, the connection thread,   *)
(* which opens the connection, sends the tables, receives and calls         *)
(* callbacks, and one application thread, which subscribes, unsubscribes,   *)
(* announces channels, writes and disconnects.  No lock protects the        *)
(* tables: every access to them that the other thread can see is a step of  *)
(* its own.                                                                 *)
(*                                                                          *)
(* The server is what this client can tell of it: the names it holds for    *)
(* the client and, over UDP, whether it knows it (module SyncsServer has    *)
(* the rest).  Datagrams may be lost; they keep their order.                *)
(***************************************************************************)
EXTENDS Naturals, Sequences

CONSTANTS
    Names,          \* names of events
    ChannelNames,   \* names of channels
    NoName,         \* the id -1 of a free slot, and a NULL callback
    Partial,        \* an id that syncs_idstr has cleared and not yet written
    MaxEvents,      \* SYNCS_EVENT_MAXIMUM
    MaxChannels,    \* SYNCS_CHANNEL_MAXIMUM
    Transports,     \* "tcp" (syncs_connect), "udp" (syncs_udpconnect)
    Kinds,          \* how the application subscribes: "callback", "sync"
    Versions,       \* what the server thinks of the client's version: BOOLEANs
    SendBuffer,     \* packets the socket takes before send() fails
    MaxInbox,       \* bound: events on their way to the client
    MaxFaults,      \* bound: broken connections, restarts, lost datagrams
    MaxCalls,       \* bound for each transport: calls of the application
    MaxFds          \* descriptors the process may have open

ASSUME NameAssumption ==
    /\ Names \cap ChannelNames = {}
    /\ {NoName, Partial} \cap (Names \cup ChannelNames) = {}
    /\ NoName # Partial
ASSUME SizeAssumption ==
    /\ MaxEvents \in Nat
    /\ MaxChannels \in Nat
    /\ SendBuffer \in Nat
    /\ MaxInbox \in Nat
    /\ MaxFaults \in Nat
    /\ MaxCalls \in [Transports -> Nat]
    /\ MaxFds \in Nat
ASSUME ChoiceAssumption ==
    /\ Transports \subseteq {"tcp", "udp"}
    /\ Kinds \subseteq {"callback", "sync"}
    /\ Versions \subseteq BOOLEAN

VARIABLES
    events,     \* s->events: the id of a slot and whose callback it has
    channels,   \* s->channels: the id of a slot
    transport,  \* how the session was made
    socketfd,   \* s->socketfd >= 0
    usocketfd,  \* s->usocketfd >= 0
    onexit,     \* s->onexit
    thread,     \* the connection thread: where it is, its loop index, its event
    app,        \* the application thread: the call it is in and how far it is
    link,       \* the connection: "up", "half" (client has shut down), "down"
    toServer,   \* packets on their way to the server
    toClient,   \* packets on their way to the client
    held,       \* names the server holds for this client
    known,      \* over UDP: the server knows the client's address
    fds,        \* descriptors of connections that are open
    faults,     \* broken connections, restarts and lost datagrams so far
    calls,      \* calls made so far
    wants,      \* history: how the application last asked for a name, or "no"
    missed      \* history: a name was not sent, or was lost, since the
                \* current syncs_send_id began

vars == <<events, channels, transport, socketfd, usocketfd, onexit, thread, app,
          link, toServer, toClient, held, known, fds, faults, calls, wants, missed>>

tables == <<events, channels>>
sockets == <<transport, socketfd, usocketfd>>
network == <<link, toServer, toClient, held, known, missed>>

Slots == 1..MaxEvents
ChannelSlots == 1..MaxChannels
AllNames == Names \cup ChannelNames

\* What syncs_send_id sends, by its loop index: 0 is CLIENT_ID, then come
\* the events, then the channels.
HelloLength == MaxEvents + MaxChannels
Registered(k) == IF k <= MaxEvents THEN events[k].id ELSE channels[k - MaxEvents]
Announcement(k) == IF k <= MaxEvents THEN "SUBSCRIBE" ELSE "CHANNEL"

Packets == [type : {"CLIENT_ID", "WRITE"}, id : {NoName}]
           \cup [type : {"SUBSCRIBE", "UNSUBSCRIBE", "CHANNEL"}, id : AllNames \cup {Partial}]
Status(code) == [type |-> "STATUS", code |-> code]
Answers == {Status(code) : code \in {"NOTFOUND", "NOTSUPPORT", "UNKNOWNCLIENT"}}
           \cup [type : {"EVENT"}, id : Names]

Idle == [call |-> "none", id |-> NoName, at |-> 0, step |-> "none"]

Init ==
    /\ events = [s \in Slots |-> [id |-> NoName, cb |-> NoName]]
    /\ channels = [s \in ChannelSlots |-> NoName]
    /\ transport \in Transports
    /\ socketfd = FALSE
    /\ usocketfd = FALSE
    /\ onexit = FALSE
    /\ thread \in [pc : {"find", "while"}, i : {0}, at : {0}, got : {NoName}]
    /\ app = Idle
    /\ link = "down"
    /\ toServer = << >>
    /\ toClient = << >>
    /\ held = {}
    /\ known = FALSE
    /\ fds = 0
    /\ faults = 0
    /\ calls = 0
    /\ wants = [n \in AllNames |-> "no"]
    /\ missed = FALSE

-----------------------------------------------------------------------------
(* Sending: syncs_connect_send.  The sockets do not block; a packet that     *)
(* finds the buffer full, or the connection gone, is lost, and no caller     *)
(* looks at the result.                                                      *)

Tells(type) == type \in {"SUBSCRIBE", "CHANNEL"}

Send(type, id) ==
    LET sends == link = "up" /\ (socketfd \/ usocketfd)
        room == usocketfd \/ Len(toServer) < SendBuffer
    IN  /\ toServer' = IF sends /\ room THEN Append(toServer, [type |-> type, id |-> id])
                       ELSE toServer
        /\ missed' = (missed \/ (sends /\ ~room /\ Tells(type)))
        /\ UNCHANGED <<link, toClient, held, known>>

-----------------------------------------------------------------------------
(* The connection thread, syncs_connect_thread.                              *)

At(pc) == thread.pc = pc
Goto(pc) == thread' = [thread EXCEPT !.pc = pc]

\* syncs_find_server has an answer; until then the thread does not look at
\* onexit.
Find ==
    /\ At("find")
    /\ Goto("while")
    /\ UNCHANGED <<tables, sockets, onexit, app, network, fds, faults, calls, wants>>

\* while (!s->onexit), in syncs_connect_thread and syncs_udpconnect_thread
While ==
    /\ At("while")
    /\ Goto(IF onexit THEN "end" ELSE "open")
    /\ UNCHANGED <<tables, sockets, onexit, app, network, fds, faults, calls, wants>>

\* syncs_tcpclient_open or syncs_udpclient_open succeeds.
Open ==
    /\ At("open")
    /\ fds < MaxFds
    /\ fds' = fds + 1
    /\ socketfd' = (transport = "tcp")
    /\ usocketfd' = (transport = "udp")
    /\ link' = "up"
    /\ toServer' = << >>
    /\ toClient' = << >>
    /\ held' = {}
    /\ known' = FALSE
    /\ missed' = FALSE
    /\ thread' = [thread EXCEPT !.pc = "hello", !.i = 0]
    /\ UNCHANGED <<tables, transport, onexit, app, faults, calls, wants>>

\* It fails: there is no descriptor left or the server is not there.  The
\* thread sleeps and tries again.
OpenFails ==
    /\ At("open")
    /\ Goto("while")
    /\ UNCHANGED <<tables, sockets, onexit, app, network, fds, faults, calls, wants>>

\* Faulty: the loop runs one slot too far.
HelloTooFar ==
    LET k == thread.i
    IN  /\ At("hello")
        /\ thread' = IF k <= HelloLength
                     THEN [thread EXCEPT !.i = k + 1]
                     ELSE [thread EXCEPT !.pc = "recv", !.i = 0]
        /\ UNCHANGED <<tables, sockets, onexit, app, network, fds, faults, calls, wants>>

\* One packet of syncs_send_id.
Hello ==
    LET k == thread.i
    IN  /\ At("hello")
        /\ \/ k = 0 /\ Send("CLIENT_ID", NoName)
           \/ /\ k > 0
              /\ Registered(k) # NoName
              /\ Send(Announcement(k), Registered(k))
           \/ /\ k > 0
              /\ Registered(k) = NoName
              /\ UNCHANGED network
        /\ thread' = IF k < HelloLength
                     THEN [thread EXCEPT !.i = k + 1]
                     ELSE [thread EXCEPT !.pc = "recv", !.i = 0]
        /\ UNCHANGED <<tables, sockets, onexit, app, fds, faults, calls, wants>>

\* while (!s->onexit), in syncs_recv and syncs_udprecv
Recv ==
    /\ At("recv")
    /\ Goto(IF onexit THEN "close" ELSE "select")
    /\ UNCHANGED <<tables, sockets, onexit, app, network, fds, faults, calls, wants>>

\* After a packet: the next one of the bytes received, or the loop's test.  A
\* datagram is one packet.
NextPacket ==
    {"recv"} \cup (IF transport = "tcp" /\ Len(toClient) > 1 THEN {"select"} ELSE {})

StatusArrives ==
    /\ At("select")
    /\ toClient # << >>
    /\ Head(toClient).type = "STATUS"
    /\ toClient' = Tail(toClient)
    /\ UNCHANGED <<tables, sockets, app, link, toServer, held, known, fds, faults, calls, wants>>

\* SERVER_STATUS: another version ends the thread (syncs_process_error) ...
ReceiveStatus ==
    /\ StatusArrives
    /\ Head(toClient).code # "UNKNOWNCLIENT"
    /\ onexit' = (onexit \/ Head(toClient).code = "NOTSUPPORT")
    /\ \E pc \in NextPacket : Goto(pc)
    /\ UNCHANGED missed

\* Faulty: the client does not introduce itself again.
ReceiveUnknownIgnored ==
    /\ StatusArrives
    /\ Head(toClient).code = "UNKNOWNCLIENT"
    /\ Goto("recv")
    /\ UNCHANGED <<onexit, missed>>

\* ... and a server that does not know the client gets everything again.
ReceiveUnknown ==
    /\ StatusArrives
    /\ Head(toClient).code = "UNKNOWNCLIENT"
    /\ thread' = [thread EXCEPT !.pc = "hello", !.i = 0]
    /\ missed' = FALSE
    /\ UNCHANGED onexit

Matches(id) == {s \in Slots : events[s].id = id}
FirstOf(S) == CHOOSE s \in S : \A t \in S : s <= t

\* EVENT: syncs_process_event finds the slot ...
ReceiveEvent ==
    /\ At("select")
    /\ toClient # << >>
    /\ Head(toClient).type = "EVENT"
    /\ LET id == Head(toClient).id
       IN  IF Matches(id) = {}
           THEN /\ toClient' = Tail(toClient)
                /\ \E pc \in NextPacket : Goto(pc)
           ELSE /\ UNCHANGED toClient
                /\ thread' = [thread EXCEPT !.pc = "call", !.at = FirstOf(Matches(id)),
                                            !.got = id]
    /\ UNCHANGED <<tables, sockets, onexit, app, link, toServer, held, known, missed,
                   fds, faults, calls, wants>>

\* ... and calls whatever callback the slot then has.
Call ==
    /\ At("call")
    /\ toClient' = Tail(toClient)
    /\ \E pc \in NextPacket :
           thread' = [thread EXCEPT !.pc = pc, !.at = 0, !.got = NoName]
    /\ UNCHANGED <<tables, sockets, onexit, app, link, toServer, held, known, missed,
                   fds, faults, calls, wants>>

\* recv() returns 0 or an error.
EndOfFile ==
    /\ At("select")
    /\ toClient = << >>
    /\ link = "down"
    /\ Goto("close")
    /\ UNCHANGED <<tables, sockets, onexit, app, network, fds, faults, calls, wants>>

\* TCP: shutdown() without close(), the descriptor stays open.  UDP: close(),
\* of which the server learns nothing.  Then a pause.
Close ==
    /\ At("close")
    /\ socketfd' = FALSE
    /\ usocketfd' = FALSE
    /\ fds' = IF transport = "udp" THEN fds - 1 ELSE fds
    /\ link' = "down"
    /\ toServer' = << >>
    /\ toClient' = << >>
    /\ held' = IF transport = "udp" THEN held ELSE {}
    /\ Goto("while")
    /\ UNCHANGED <<tables, transport, onexit, app, known, missed, faults, calls, wants>>

Thread == \/ While \/ Open \/ OpenFails \/ Hello \/ Recv
          \/ ReceiveStatus \/ ReceiveUnknown \/ ReceiveEvent \/ Call \/ EndOfFile \/ Close

-----------------------------------------------------------------------------
(* The application: one call after the other, each in several steps.         *)

\* Faulty: always a free slot.
SlotForFree(n) == Matches(NoName)

\* syncs_get_event_str: the slot of the name, else a free one.
SlotFor(n) == IF Matches(n) # {} THEN Matches(n) ELSE Matches(NoName)

\* The subscribing calls up to the middle of syncs_idstr.  A "sync" call
\* leaves the callback of the slot as it is.  No slot: -ENOMEM.
Subscribe(n, kind) ==
    /\ app = Idle
    /\ calls < MaxCalls[transport]
    /\ calls' = calls + 1
    /\ SlotFor(n) # {}
    /\ LET s == FirstOf(SlotFor(n))
       IN  /\ events' = [events EXCEPT ![s].id = Partial,
                                       ![s].cb = IF kind = "callback" THEN n ELSE @]
           /\ app' = [call |-> "subscribe", id |-> n, at |-> s, step |-> "id"]
    /\ wants' = [wants EXCEPT ![n] = kind]
    /\ UNCHANGED <<channels, sockets, onexit, thread, network, fds, faults>>

\* The id is written ...
SubscribeId ==
    /\ app.call = "subscribe"
    /\ app.step = "id"
    /\ events' = [events EXCEPT ![app.at].id = app.id]
    /\ app' = [app EXCEPT !.step = "send"]
    /\ UNCHANGED <<channels, sockets, onexit, thread, network, fds, faults, calls, wants>>

\* Faulty: sent only once syncs_recv has set s->ready.
SubscribeSendWhenReady ==
    /\ app.call = "subscribe"
    /\ app.step = "send"
    /\ IF At("recv") \/ At("select") \/ At("call")
       THEN Send("SUBSCRIBE", events[app.at].id)
       ELSE UNCHANGED network
    /\ app' = Idle
    /\ UNCHANGED <<tables, sockets, onexit, thread, fds, faults, calls, wants>>

\* syncs_send_id has passed the slot k.
Passed(k) == At("recv") \/ At("select") \/ At("call") \/ (At("hello") /\ k < thread.i)

\* ... and sent over TCP: if (s->socketfd >= 0).  Over UDP it has to wait for
\* the next syncs_send_id.
SendIfTcp(type, id, k) ==
    \/ socketfd /\ Send(type, id)
    \/ /\ ~socketfd
       /\ missed' = (missed \/ (usocketfd /\ Passed(k)))
       /\ UNCHANGED <<link, toServer, toClient, held, known>>

SubscribeSend ==
    /\ app.call = "subscribe"
    /\ app.step = "send"
    /\ SendIfTcp("SUBSCRIBE", events[app.at].id, app.at)
    /\ app' = Idle
    /\ UNCHANGED <<tables, sockets, onexit, thread, fds, faults, calls, wants>>

\* syncs_unsubscribe_event sends first ...
Unsubscribe(n) ==
    /\ app = Idle
    /\ calls < MaxCalls[transport]
    /\ calls' = calls + 1
    /\ Matches(n) # {}
    /\ Send("UNSUBSCRIBE", n)
    /\ app' = [call |-> "unsubscribe", id |-> n, at |-> FirstOf(Matches(n)),
               step |-> "free"]
    /\ wants' = [wants EXCEPT ![n] = "no"]
    /\ UNCHANGED <<tables, sockets, onexit, thread, fds, faults>>

\* ... and then frees the slot, of which all but the id stays as it is.
UnsubscribeFree ==
    /\ app.call = "unsubscribe"
    /\ events' = [events EXCEPT ![app.at].id = NoName]
    /\ app' = Idle
    /\ UNCHANGED <<channels, sockets, onexit, thread, network, fds, faults, calls, wants>>

\* syncs_channel_anons.  It takes a free slot for granted: with a full table the
\* code writes through NULL (client.c:1050), a call that the model leaves out.
ChannelAnons(n) ==
    /\ app = Idle
    /\ calls < MaxCalls[transport]
    /\ calls' = calls + 1
    /\ \E s \in ChannelSlots : channels[s] = NoName
    /\ LET s == FirstOf({t \in ChannelSlots : channels[t] = NoName})
       IN  /\ channels' = [channels EXCEPT ![s] = Partial]
           /\ app' = [call |-> "channel", id |-> n, at |-> s, step |-> "id"]
    /\ wants' = [wants EXCEPT ![n] = "callback"]
    /\ UNCHANGED <<events, sockets, onexit, thread, network, fds, faults>>

ChannelId ==
    /\ app.call = "channel"
    /\ app.step = "id"
    /\ channels' = [channels EXCEPT ![app.at] = app.id]
    /\ app' = [app EXCEPT !.step = "send"]
    /\ UNCHANGED <<events, sockets, onexit, thread, network, fds, faults, calls, wants>>

ChannelSend ==
    /\ app.call = "channel"
    /\ app.step = "send"
    /\ SendIfTcp("CHANNEL", channels[app.at], MaxEvents + app.at)
    /\ app' = Idle
    /\ UNCHANGED <<tables, sockets, onexit, thread, fds, faults, calls, wants>>

\* syncs_write, syncs_define, syncs_undefine: nothing that the session keeps,
\* but over UDP the server may answer.  Bound: nothing else is on its way.
Write ==
    /\ transport = "udp"
    /\ app = Idle
    /\ ~onexit
    /\ toServer = << >> /\ toClient = << >>
    /\ Send("WRITE", NoName)
    /\ UNCHANGED <<tables, sockets, onexit, thread, app, fds, faults, calls, wants>>

\* syncs_disconnect: onexit, ...
Disconnect ==
    /\ app = Idle
    /\ calls < MaxCalls[transport]
    /\ calls' = calls + 1
    /\ onexit' = TRUE
    /\ app' = [Idle EXCEPT !.call = "disconnect", !.step = "shutdown"]
    /\ UNCHANGED <<tables, sockets, thread, network, fds, faults, wants>>

\* Faulty: the socket is left alone.
DisconnectNoShutdown ==
    /\ app.call = "disconnect"
    /\ app.step = "shutdown"
    /\ app' = [app EXCEPT !.step = "join"]
    /\ UNCHANGED <<tables, sockets, onexit, thread, network, fds, faults, calls, wants>>

\* ... shutdown(SHUT_WR) of both sockets, which ends a TCP connection in time;
\* over UDP no more is sent, but select() sleeps on, ...
DisconnectShutdown ==
    /\ app.call = "disconnect"
    /\ app.step = "shutdown"
    /\ link' = IF (socketfd \/ usocketfd) /\ link = "up" THEN "half" ELSE link
    /\ app' = [app EXCEPT !.step = "join"]
    /\ UNCHANGED <<tables, sockets, onexit, thread, toServer, toClient, held,
                   known, missed, fds, faults, calls, wants>>

\* ... and pthread_join, after which everything is freed.
DisconnectJoin ==
    /\ app.call = "disconnect"
    /\ app.step = "join"
    /\ At("end")
    /\ app' = [app EXCEPT !.step = "freed"]
    /\ UNCHANGED <<tables, sockets, onexit, thread, network, fds, faults, calls, wants>>

AppCalls ==
    \/ \E n \in Names : \/ \E kind \in Kinds : Subscribe(n, kind)
                        \/ Unsubscribe(n)
    \/ \E n \in ChannelNames : ChannelAnons(n)
    \/ Write
    \/ Disconnect

AppReturns ==
    \/ SubscribeId \/ SubscribeSend \/ UnsubscribeFree
    \/ ChannelId \/ ChannelSend
    \/ DisconnectShutdown \/ DisconnectJoin

-----------------------------------------------------------------------------
(* The server and the network, as this client meets them.                    *)

\* CLIENT_ID: a client of another version is told so and closed.
ServerReadsId ==
    /\ link # "down"
    /\ toServer # << >>
    /\ Head(toServer).type = "CLIENT_ID"
    /\ \E ok \in Versions :
           /\ toClient' = Append(toClient, Status(IF ok THEN "NOTFOUND" ELSE "NOTSUPPORT"))
           /\ known' = (ok /\ transport = "udp")
           /\ held' = IF ok THEN held ELSE {}
           /\ IF ok \/ transport = "udp"
              THEN toServer' = Tail(toServer) /\ UNCHANGED link
              ELSE toServer' = << >> /\ link' = "down"
    /\ UNCHANGED <<tables, sockets, onexit, thread, app, missed, fds, faults, calls, wants>>

\* The other packets.  Over UDP their address must be known.
ServerReads ==
    /\ link # "down"
    /\ toServer # << >>
    /\ Head(toServer).type # "CLIENT_ID"
    /\ toServer' = Tail(toServer)
    /\ LET p == Head(toServer)
           unknown == transport = "udp" /\ ~known
       IN  /\ toClient' = IF unknown THEN Append(toClient, Status("UNKNOWNCLIENT"))
                          ELSE toClient
           /\ held' = IF unknown THEN held
                      ELSE IF Tells(p.type) THEN held \cup {p.id}
                      ELSE IF p.type = "UNSUBSCRIBE" THEN held \ {p.id} ELSE held
    /\ UNCHANGED <<tables, sockets, onexit, thread, app, link, known, missed,
                   fds, faults, calls, wants>>

\* Another client writes an event: syncs_send_event.
Publish(n) ==
    /\ link # "down"
    /\ n \in held
    /\ Len(toClient) < MaxInbox
    /\ toClient' = Append(toClient, [type |-> "EVENT", id |-> n])
    /\ UNCHANGED <<tables, sockets, onexit, thread, app, link, toServer, held, known,
                   missed, fds, faults, calls, wants>>

\* The server reads the end of the stream and closes its side.
ServerCloses ==
    /\ transport = "tcp"
    /\ link = "half"
    /\ toServer = << >>
    /\ link' = "down"
    /\ held' = {}
    /\ UNCHANGED <<tables, sockets, onexit, thread, app, toServer, toClient, known,
                   missed, fds, faults, calls, wants>>

\* The TCP connection breaks or the server ends.  What the client has received
\* and not read may be lost too.
Break ==
    /\ transport = "tcp"
    /\ link # "down"
    /\ faults < MaxFaults
    /\ faults' = faults + 1
    /\ link' = "down"
    /\ toServer' = << >>
    /\ \/ At("call") /\ UNCHANGED toClient
       \/ ~At("call") /\ toClient' \in {toClient, << >>}
    /\ held' = {}
    /\ UNCHANGED <<tables, sockets, onexit, thread, app, known, missed, fds, calls, wants>>

\* The server restarts.  A UDP client notices nothing.
Restart ==
    /\ transport = "udp"
    /\ faults < MaxFaults
    /\ faults' = faults + 1
    /\ held' = {}
    /\ known' = FALSE
    /\ toServer' \in {toServer, << >>}
    /\ UNCHANGED <<tables, sockets, onexit, thread, app, link, toClient, missed, fds, calls, wants>>

\* A datagram is lost.
Lose ==
    /\ transport = "udp"
    /\ faults < MaxFaults
    /\ faults' = faults + 1
    /\ \/ /\ toServer # << >>
          /\ toServer' = Tail(toServer)
          /\ missed' = (missed \/ Tells(Head(toServer).type))
          /\ UNCHANGED toClient
       \/ /\ toClient # << >>
          /\ ~At("call")
          /\ toClient' = Tail(toClient)
          /\ UNCHANGED <<toServer, missed>>
    /\ UNCHANGED <<tables, sockets, onexit, thread, app, link, held, known, fds, calls, wants>>

Server == ServerReadsId \/ ServerReads \/ ServerCloses

Next ==
    \/ Find \/ Thread \/ AppCalls \/ AppReturns \/ Server \/ Break \/ Restart \/ Lose
    \/ \E n \in Names : Publish(n)

(* Fairness: the operating system runs both threads and the server; a        *)
(* callback returns; a server that can be reached again and again accepts in *)
(* the end.  No server need ever answer the search, and the application need *)
(* not make another call, except that a UDP client goes on writing.          *)
Fairness ==
    /\ WF_vars(Thread)
    /\ SF_vars(Open)
    /\ WF_vars(AppReturns)
    /\ WF_vars(Server)
    /\ SF_vars(Write)

Spec == Init /\ [][Next]_vars
FairSpec == Spec /\ Fairness

-----------------------------------------------------------------------------
(* Properties.                                                               *)

\* All variables have their types.
TypeOK ==
    /\ events \in [Slots -> [id : Names \cup {NoName, Partial}, cb : Names \cup {NoName}]]
    /\ channels \in [ChannelSlots -> ChannelNames \cup {NoName, Partial}]
    /\ transport \in Transports
    /\ socketfd \in BOOLEAN
    /\ usocketfd \in BOOLEAN
    /\ onexit \in BOOLEAN
    /\ thread \in [pc : {"find", "while", "open", "hello", "recv", "select", "call", "close", "end"},
                   i : 0..HelloLength, at : Slots \cup {0}, got : Names \cup {NoName}]
    /\ app \in [call : {"none", "subscribe", "unsubscribe", "channel", "disconnect"},
                id : AllNames \cup {NoName}, at : Slots \cup ChannelSlots \cup {0},
                step : {"none", "id", "send", "free", "shutdown", "join", "freed"}]
    /\ link \in {"up", "half", "down"}
    /\ toServer \in Seq(Packets)
    /\ toClient \in Seq(Answers)
    /\ held \subseteq AllNames \cup {Partial}
    /\ known \in BOOLEAN
    /\ fds \in 0..MaxFds
    /\ faults \in 0..MaxFaults
    /\ calls \in 0..MaxCalls[transport]
    /\ wants \in [AllNames -> {"no", "callback", "sync"}]
    /\ missed \in BOOLEAN

Wanted == {n \in AllNames : wants[n] # "no"}

\* What the server will hold once it has read all that is on its way.
Mentions(n) == {k \in DOMAIN toServer : /\ toServer[k].id = n
                                        /\ toServer[k].type # "CLIENT_ID"}
WillHold(n) ==
    \/ Mentions(n) = {} /\ n \in held
    \/ \E k \in Mentions(n) : /\ \A j \in Mentions(n) : j <= k
                              /\ toServer[k].type # "UNSUBSCRIBE"

(* No subscription or channel is lost between the two threads: if the         *)
(* application has asked for a name and is not in a call about it, then the   *)
(* server holds it or will, as soon as syncs_send_id has passed its slot      *)
(* (client.c:350-433, client.c:1046-1060).  Over UDP the server must know the *)
(* client.  It is lost only with a full send buffer or a lost datagram, or    *)
(* over UDP if it comes after syncs_send_id, when nothing is sent for it.     *)
KeptSubscriptions ==
    \A k \in 1..HelloLength :
        LET n == Registered(k)
        IN  (/\ n \in Wanted \ {app.id}
             /\ link = "up"
             /\ transport = "tcp" \/ known
             /\ ~missed
             /\ Passed(k)) => WillHold(n)

(* A name is in one slot of the table, even if the application subscribes to  *)
(* it again or reuses a slot while the connection thread reads the table      *)
(* (client.c:84-90).  Events are dispatched to the first slot only.           *)
SlotsUnique ==
    \A s, t \in Slots : s # t /\ events[s].id \in Names => events[s].id # events[t].id

(* A name the application keeps asking for is in the end held by the server   *)
(* for good, through failed connection attempts and broken connections        *)
(* (client.c:680-707), or over UDP through lost datagrams and restarts of the *)
(* server, if the application goes on writing, so that the server tells the   *)
(* client that it is unknown (client.c:503-505, server.c:1031): unless the    *)
(* session ends, no server is found or the name was missed.                   *)
Resubscribed ==
    \A n \in AllNames :
        <>[](n \in Wanted /\ ~onexit /\ ~missed /\ ~At("find")) => <>[](n \in held)

(* syncs_disconnect returns, wherever the connection thread was when it was   *)
(* called (client.c:1199-1212), except in two places where the thread does    *)
(* not notice: in the search for a server, until one is found, and over UDP   *)
(* in select(), until a datagram arrives.                                     *)
DisconnectReturns ==
    (app.step = "join") ~>
        (app.step = "freed" \/ At("find") \/ (At("select") /\ usocketfd /\ toClient = << >>))

(* README.md:17: "the library will try to reconnect in the background         *)
(* automatically".  A session that has not ended is connected again and       *)
(* again once a server has been found (client.c:680-707).                     *)
Reconnects == []<>(link = "up" \/ onexit \/ At("find"))

(* README.md:83: syncs_subscribe_event_sync subscribes "without using a       *)
(* callback".  At least no callback that the application gave for another     *)
(* event runs for one it subscribed to in this way (client.c:435-474).        *)
CallbackOfItsEvent ==
    (/\ At("call")
     /\ thread.got \in Wanted
     /\ wants[thread.got] = "sync") => events[thread.at].cb \in {NoName, thread.got}
=============================================================================
