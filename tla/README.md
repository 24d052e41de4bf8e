# SyncScribe in TLA+

SyncScribe is a library for sharing events, variables and channels between
programs: a server keeps them in fixed tables, clients subscribe, write and read
over TCP or UDP. This directory models the server, a client's session over both transports,
its requests, the byte stream between them and the sync mode of events, checks them with TLC
on small instances and proves all of their invariants, and that the server implements
an abstract broker, with TLAPS for tables, buffers and streams of any size.
Source lines are given as `file:line`; `server.c` is `src/libsyncs/syncs-server.c`,
`client.c` is `src/libsyncs/syncs-client.c`.

## The system

| part | state it keeps | operations | correct when |
|---|---|---|---|
| server: events | `events[]` (name, value, type, consumers, producer, callback, update counter), `event_count`, `update_counter` | subscribe, unsubscribe, define, undefine, write, read, lists; the `syncs_server_*` calls | a name is in one slot; consumers are connections that asked; a write reaches exactly the subscribers; a late subscriber learns the value; counts are exact |
| server: clients | `clients[]` (socket, address, name) | accept, CLIENT_ID, hang-up; UDP clients by address or name | what a connection owned ends with it; a datagram belongs to one client |
| server: channels | `channels[]` (name, owner, ticket) | announce, request | a ticket leads to a connected owner |
| packet stream | receive buffer per client slot | framing by magic numbers, partial sends | packets arrive whole and in order |
| client: session | `events[]`, `channels[]`, sockets | find a server, connect, resubscribe, dispatch, subscribe, write | a subscription is eventually in force again after a failure |
| client: requests | one slot each for a read, a ticket, three lists, one queued event | request, wait with timeout, answer | an answer is taken for the request it belongs to |
| sync mode | offset | compute and wait for a common time | all clients run the callback at the same time, and none waits for ever |
| SSDP, sockets, encryption, daemon, tools, Python | - | - | see *Not modelled* |

How the parts interact: one epoll thread of the server runs all handlers, one after
the other (`server.c:1121`). A handler of a TCP client reads some bytes and processes
every packet in them (`server.c:964`); a UDP datagram holds one packet. A client write
stores the value, calls the application's callback and then sends the value to the
consumers (`server.c:637-647`). The application calls `syncs_server_*` from callbacks and
from its own threads, without a lock. A client has one thread that connects,
sends its name, its subscriptions and its channels, and dispatches what it receives;
application threads send requests and wait on condition variables.

What is hard here: slots and table entries are reused, and a reference to a slot does
not say which connection or event it meant; the packets behind one that closes the
connection are still processed; the callback runs between a change and its delivery;
counters start at the value that means "nothing seen"; UDP clients are known by address
only; the byte stream and the client's waiting slots lose their place. `PROJECT.json`
lists these as hazards, each at its line, with the properties that cover it or the
planned module that will.

## Modules

| module | what it is |
|---|---|
| `SyncsServer` | the server: tables, handlers, application calls; its properties |
| `PubSub` | what the server promises about events, as an abstract broker of topics |
| `SyncsDelivery` | `SyncsServer` with a history of what each connection last saw |
| `MCServer`, `MCDelivery` | payloads and symmetry for TLC |
| `SyncsSession` | a client's session over TCP or UDP: connection thread, application thread, tables |
| `SyncsRequests` | reads, lists, tickets and waits of a client, with timeouts and late answers |
| `SyncsStream` | packets in a stream of bytes, for the server and the client |
| `SyncsTime` | the sync mode: the time the server computes, the wait of the clients |
| `MCSession`, `MCRequests`, `MCStream`, `MCTime` | their instances for TLC |
| `SyncsServerProofs` | type correctness, unique names |
| `SyncsConnectionProofs` | subscriptions, channels and UDP addresses belong to connections |
| `SyncsBrokerProofs` | the server's counts are exact; it implements `PubSub` |
| `SyncsDeliveryProofs` | subscribers are up to date |
| `SyncsSessionProofs` | types of the session, one slot for each name, no subscription lost |
| `SyncsStreamProofs` | the receive buffer neither overflows nor fills up; packets come whole and in order |
| `SyncsRequestsProofs` | types of the requests; reads and lists are of one moment, pages fit, the last event is kept |
| `SyncsTimeProofs` | types of the sync mode, callbacks on time |

### SyncsServer

`events`, `clients`, `channels`, `event_count` and `update_counter` are the fields of
`struct syncs_server`. A pointer to a client is its slot number, a NULL pointer is 0, a
free slot has the id `NoId` (events, channels) or the socket `"closed"` (clients).
A value is a pair, its byte 0 and its other bytes, because `syncs_event_init` clears
only byte 0 (`server.c:59`); `full` says that `data_size` is not 0, and the payload `<< >>`
is a write of no bytes (`syncs_write_event`). `consumers` is a set: the array of pointers
is searched for the client before it is added, and has room for all clients.

Two things take several steps:

* `cur` is the client whose received bytes are processed: `ReceiveBytes` starts,
  `ProcessPacket` takes one packet after the other and `EndOfBytes` ends. Nothing stops
  the loop when a packet closes its client, so `ProcessPacket` has no such guard either.
* `writing` is the write whose callback runs: `ClientWrite` stores the value, the
  application may make any of its calls, and `FinishWrite` sends what the slot then holds.

`out` holds the packets of the last step and `asked` is a history variable: the names
that the connection now in a slot has subscribed to.

All other handlers are one action each, named after their functions. Searches return the
first match (`First`). The five paths that create an event on demand share
`Opens` (which slot), `Opened` (the record found or created) and `AddedCount`. `Calls` and
`Transports` say which requests are made in an instance.

Abstracted: statistics (`rx_event_count`, `event_subscribe`, `producers_count`,
`client_count`, ...), which no decision depends on except the number of pages a list
announces; times; the pages of lists, of which the set of names is kept; formatting.
Every write of a client carries its whole value. Application calls are atomic with
respect to handlers: true of calls from a callback, an assumption for other threads
(see the plan). A receive yields whole packets; `SyncsStream` has the bytes.

### PubSub and SyncsDelivery

`PubSub` knows clients, topics, subscriptions and the deliveries of the last step. A
published value goes to all subscribers of its topic in one step; only the writer may be
left out. `SyncsServer!Broker` maps a slot to a client and a name to a topic: no slot
of the event table, no count and no stale record is visible there, so
`ImplementsBroker` says that reuse of event slots, full tables, callbacks and
disconnections never add, lose or misdirect a subscription or a delivery.

`SyncsDelivery` adds `seen`, what each connection last had of each name: it was sent it, wrote
it itself, or said that it has it, by a subscription with a counter (above 0) no older than the
event's. `UpToDate` compares this with what the server holds. Whether the client is right is not
part of it: the counter is that of the last event it received (`client.c:472`), which the server
leaves uninitialised (`server.c:308`), so the model lets a subscription carry any counter, and the
replay has to be right for every one of them.

### SyncsSession

`events` and `channels` are the client's tables (`NoName` is the id -1), `socketfd`,
`usocketfd` and `onexit` the fields of those names, `transport` says whether the session was made
by `syncs_connect` or `syncs_udpconnect`. `thread` is the connection thread: the search for a
server (`Find`), the loop of `syncs_connect_thread` or `syncs_udpconnect_thread` (`While`, `Open`,
`OpenFails`, `Close`), the packets of `syncs_send_id` one by one (`Hello`), and the loop of
`syncs_recv` or `syncs_udprecv` (`Recv`, `ReceiveStatus`, `ReceiveUnknown`, `ReceiveEvent`, `Call`,
`EndOfFile`). `app` is the one application thread: its calls are broken where the other thread can
look in between. A subscription clears the id (`Partial`), writes it, then looks at `socketfd` and
sends; unsubscribing sends, then frees the slot; disconnecting sets `onexit`, shuts the sockets
down, waits for the thread. Calls made from a callback are among these interleavings, because the
application may step while the thread is at a callback; only `syncs_disconnect` must not be called
there.

The server is reduced to `held`, the names it holds for this client, and over UDP `known`,
whether it knows the client's address. `link` is `"half"` after the client's shutdown; over TCP
the server then reads everything and closes. A UDP server that does not know the client answers
UNKNOWNCLIENT, and the client sends everything again. The faults are a broken TCP connection
(`Break`), a restarted server, of which a UDP client hears nothing (`Restart`), and a lost
datagram (`Lose`); datagrams keep their order. `Send` drops a packet if the connection is gone or
the TCP buffer full, and no caller notices. `missed` remembers that a name was dropped, lost, or
over UDP not sent at all, because the subscribing calls look at `socketfd` only
(`client.c:377`): it then waits for the next `syncs_send_id`. `wants` is how the application last
asked for a name. `fds` counts descriptors: a TCP connection's is never closed (`client.c:702`), a
UDP socket's is.

Abstracted: values, synchronous buffers and update counters (a subscription's counter
decides about a replay only); `connect_wait`, `ready` and the connection callback's thread;
the address that the search finds. The send buffer of a UDP socket is not limited: with a limited
one every datagram sent to a server that has forgotten the client is answered by UNKNOWNCLIENT,
each answer by a whole table, and each of its packets again. Within a
thread the steps are in the source's order: the accesses are plain, unlocked loads and
stores, and a compiler that moved the test of `socketfd` before the write of the id would
break `KeptSubscriptions`.

### SyncsRequests

Each kind of request has one place in `struct syncs_connect` for its answer: `read`
(`read_wait`, `read_id`, `read_size`, `read_data`), `queue` and `eventWait` (`events_queue`, `event_wait`), and
`list`, for each of the three lists its buffer, sequence number, number of entries, next page and
wait flag. `app` makes the calls, broken at each unlocked access; `TimeOut` may end any wait;
`thread` is the connection thread, broken in the same way: a page of a list is tested, copied,
counted, numbered and released in five steps without a lock. Loads that the compiler may have
made earlier are a choice (`CountPage`, `AdvancePage`). Writing through a freed buffer or past its
end leads to `"dead"`, where the model ends. The server is a table for each kind: an entry is the
number of the change that made it, so an answer shows when it was given. `moments` are the
tables since the call began. A READ of a variable that is not there is answered with no data
(`server.c:598`); the read then succeeds, sets the caller's size to 0 and copies nothing, and what
`read_data` holds from before must not get out. `clean` says that nothing of earlier calls can meet this one: no
answer to an earlier read of the same name, nothing with the sequence number that the call
takes, no page at which the thread stands; and no answer came between `read_wait` and `read_id`.

Abstracted: formatting of entries; two application threads in the same kind of call (the code has
one place for both); the pages' byte layout (`PerPage`). A broken connection is noticed and
opened again, without the hello of `SyncsSession`.

### SyncsStream

Bytes, each with the number of the packet it was sent in, so that the model can tell a packet that was
sent from one that merely looks like it. `SendPacket` sends all bytes of a packet, or stops in the
middle when the socket's buffer is full. `Receive` takes any number of bytes; fewer than a header
are dropped, as in the code. `Skip`, `Process` and `EndOfScan` are the inner loop, which the
server and the client share. `NextConnection` keeps the server's buffer, which belongs to the
client slot, and clears the client's, which belongs to `syncs_recv`. Abstracted: the header is
four bytes (its fields between the magic numbers are the size and one byte for the rest). The
code's size has two bytes, and data of 68 or 83 bytes have a size that looks like a magic number;
in the model the byte for the rest plays that part, and `plain` says that it did not.

### SyncsTime

`now` is the true time in ticks, `skew` how far each clock is ahead. `SyncCalculate` and the loop
of `syncs_wait_sync` (`Diff`, `Passed`, `Borrow`, `Sleep`, `RunCallback`) work on seconds and
nanoseconds with the code's carries and comparisons. A sleeping thread wakes up when its time has
come or a signal interrupts it, and a thread that is awake acts before the next tick. When it
spins, or when `nanosleep` refuses a full second of nanoseconds, it looks again at the next tick.
Abstracted: drift of the clocks, and what happens between ticks.

## Runs

Deadlock is not checked, because an instance whose calls are used up, or one with no slot
left, may stop; the server merely waits for the next packet, and a session ends.

The server's properties and those of the stream are safety properties and need no fairness. The
session's liveness assumes weak fairness of the connection thread, of the server's reads and
closes, and of the application inside a call: the operating system runs all of them, none waits
for a lock, and callbacks return. It assumes strong fairness of `Open`: a connection attempt that
could succeed again and again succeeds in the end, as the thread retries every 0.3 s
(`client.c:695`). The search for a server need never succeed. Nothing makes the application call,
other clients publish, or the connection stay up, with one exception: a UDP application is
assumed to go on writing (`SF_vars(Write)`), because the answer to something it sends is the only
way to learn that the server has forgotten it. The requests' liveness assumes that the operating
system runs both threads; no timeout, answer or event need come. That of the sync mode assumes
that time passes and that threads that are awake run.

| run | instance | shows |
|---|---|---|
| `events` | 2 event slots, 2 names, 2 TCP clients; subscribe, unsubscribe, define, undefine by clients and application | `TypeOK`, `NamesUnique`, `EventCountExact`, `ConsumersAsked`, `ConsumersCountExact` |
| `broker` | 1 event slot, 2 names, 2 TCP clients; subscribe, unsubscribe, undefine, write and read by clients, subscribe and write by the application, callbacks, 1 client write; no definition, and no undefinition by the application | `ImplementsBroker` |
| `peers` | 2 client slots, 2 names, 2 addresses, TCP and UDP, UDP clients of two versions, 2 channels | `NamesUnique`, `ChannelsOwned`, `UdpAddressUnique` |
| `delivery` | 1 event, 2 TCP clients that subscribe with the counter 0 or 1, 2 client writes, application writes, callbacks, undefinition | `UpToDate` |
| `old_client` | TCP clients of two versions | violates `OnlyAskedDelivered` |
| `session` | TCP and UDP, 2 names, 2 slots, 1 channel, 3 calls (UDP 2), 1 fault, versions accepted and refused, a TCP buffer of 4 packets | `TypeOK`, `SlotsUnique`, `KeptSubscriptions`, `Resubscribed`, `DisconnectReturns` |
| `first_write` | 2 clients, 1 write | violates `AllUpToDate` |
| `descriptors` | 1 broken connection, 1 descriptor | violates `Reconnects` |
| `stale_callback` | 2 names, 1 slot | violates `CallbackOfItsEvent` |
| `requests` | tables of 2 entries, 1 entry to a page, sequence numbers 0 and 1, 3 calls, 2 changes, 1 lost page, 1 broken connection; programs that read and ask for tickets, that wait for events, that ask for lists and free them | `TypeOK`, `ReadOfOneMoment`, `ListOfOneMoment`, `PagesFit`, `LastEventKept`, `EventWakes` |
| `stream` | 3 packets of three shapes, one of which holds both magic numbers, data of up to 3 bytes, a buffer of 10, 2 damages, 2 connections, server and client | `TypeOK`, `InOrder`, `Resynchronises`, `RoomForHeader` |
| `sync_time` | 2 clients, clocks up to a tick apart, seconds of 4 ticks, offsets of 1, 3 and 6 ticks, 12 ticks | `TypeOK`, `OnTime`, `CallbackRuns` |

Why the bounds are enough: every hazard of the tables is about one slot being freed
and refilled while another one, or another client, holds a reference, which two slots and
two names show; a full table needs one slot and two names; a delivery that leaves out the
wrong client needs a writer and a subscriber that has taken the slot of an earlier
writer. `MaxWrites` bounds `update_counter`: two writes are stamped 0 and 1, so that a subscription
with the counter 0, as a new one has, or 1, as a client may bring along from an earlier connection
(`client.c:357`), is behind the write, meets it or is ahead of it. No client gives its name
in `delivery`: a CLIENT_ID of the server's version is answered and
changes the name and the version in its slot, which no delivery looks at (`server.c:917`), and `old_client` has the other versions. Two variable types, `ANY` and
`NotDefined`, give matching and clashing pairs. Names are symmetric in `events` and
`peers`: no action compares two of them other than for equality.

In `session`, three calls are a subscription, its end and another one in the same slot, or two
subscriptions and a disconnection; over UDP two calls and endless writes; a hello is 4 packets, so the buffer of 4 overflows if a
call comes on top. Two descriptors are enough for one broken connection: the limit only
matters in `descriptors`, where it stands for any finite one. One fault is enough for every
first loss, and liveness is asked after it; two in a row meet the same table.

In `requests` the three lists share one instance of the kind `"event"`: their code is the same line for
line and their fields are disjoint. A modulus of 2 makes the one-byte sequence number wrap around
within the three calls, so that a page of the call before the last one has the current number. One
entry to a page gives up to three pages, the last of them empty. In `stream` the buffer of 10 is the
smallest that the assumption `BufferSize >= 2 * HeaderSize + MaxData - 1` allows, three packets
show one that is damaged, one that is swallowed and one that must survive, and the data contain a
false header. In `sync_time` the offsets 1 and 3 cross a second or not, 6 is more than a second, and with
the skew a client may see a time two seconds ahead.

### What the four violations show

* `old_client` (`server.c:920`, `server.c:964`). A client of another major version sends its
  CLIENT_ID and its subscriptions in one burst, as `syncs_send_id` does. The CLIENT_ID
  closes it and frees its slot, the SUBSCRIBE behind it enters the free slot among the
  consumers, and the next connection accepted in this slot receives events it never asked
  for. `SubscriptionsOwned` and `ChannelsStayOwned` are therefore proved under the assumption
  that TCP clients have the server's version, and the other runs use one TCP version.
* `first_write` (`server.c:529`, `server.c:637`). The first client write gets the counter 0 and a new
  subscription carries 0, so the replay `0 < 0` does not happen. `UpToDate` states what
  does hold: consumers of an event with a counter above 0 know its current value.

* `descriptors` (`client.c:702`). A connection that has ended is shut down and not closed. When
  the process has no descriptor left, every further attempt fails. With one more
  descriptor than broken connections `Reconnects` holds.
* `stale_callback` (`client.c:444`). Subscribe to one event with a callback, unsubscribe,
  subscribe to another one synchronously: it gets the slot, and the callback in it runs,
  with the arguments of the first event, for the second.

### What the passing runs leave out, and why

The exceptions that the properties name are things the code does:

* `DisconnectReturns`. In the search for a server the thread does not look at `onexit`
  (`client.c:684`); over UDP `shutdown` does not wake `select`, so `syncs_disconnect` waits until
  a datagram arrives (`client.c:1204`).
* `KeptSubscriptions`, `Resubscribed`. A name that finds the send buffer full, is lost with its
  datagram, or is subscribed over UDP after `syncs_send_id` (`client.c:377`) stays unknown to the
  server until the next hello.
* `ReadOfOneMoment`. A late answer to an earlier read of the same name, and any answer that
  arrives after `read_wait` and before `read_id` is set (`client.c:154-156`), is taken for the current read.
  The same holds of two threads that read at once, since there is one `read_id`.
* `ListOfOneMoment`, `PagesFit`. A request that begins, or a list that is freed, while the thread is at
  one of its pages meets that page; so does a request whose sequence number is still on its way.
* `LastEventKept`. One event is lost if it is stored between the look at the queue and its reset. In
  return, `syncs_wait_event` may return NULL before its timeout, after a late notification.
* `InOrder`. A receive of fewer bytes than a header is dropped (`server.c:950`), and a server's buffer keeps
  the rest of a connection that has ended (`server.c:945`); `Resynchronises` bounds what follows.
  It needs streams without stray magic bytes: data that hold them may be read as a packet.
* `OnTime`. With an offset above a second, minus the skew, the callback may run too early: the
  server carries once (`server.c:300`), and the client takes a time two seconds ahead for
  a mistake (`client.c:102`).

Observed while reading, without a run: `syncs_undefine` of the client sends DEFINE (`client.c:307`);
the size of a write is masked, so that 512 bytes become none (`client.c:214`); a ticket's packet has
no CHANNEL message type (`server.c:858`) and `syncs_channel_request` does not set `ticket_wait`
(`client.c:1075`), so it always returns the empty ticket; `syncs_find_server` writes behind the
address it has found (`client.c:1178`); the connection callback's thread may start after
`syncs_disconnect` has looked for it (`client.c:620`).

## Proofs

The theorems hold for every size of the tables and buffers, all names, versions, payloads and
packets, from the assumptions that the modules name. `SyncsServer`: sizes are naturals, `NoId` is
no name, `ANY` and `NotDefined` are types, payloads are values or empty. `SyncsSession`: sizes are
naturals, the names of events and channels, the free id and the half-written id differ.
`SyncsStream`: the two magic numbers differ (`'S'`, `'D'`), the size of the data is one byte, which is
no magic number, and the buffer holds a header behind the largest incomplete packet (in the code
32 KiB, and data of at most 511 bytes).

| theorem | states | inductive invariant |
|---|---|---|
| `TypeCorrect` | `Spec => []TypeOK` | `TypeOK` |
| `NamesStayUnique` | `Spec => []NamesUnique` | `EventNamesUnique /\ ChannelNamesUnique`, with `TypeOK` |
| `UdpAddressesUnique` | `Spec => []UdpAddressUnique` | itself, with `TypeOK` |
| `SubscriptionsOwned` | `TcpVersions \subseteq {MAJOR}` implies `Spec => []ConsumersAsked` | `EventNamesUnique /\ CurrentOpen /\ ConsumersAsked` |
| `ChannelsStayOwned` | the same for `[]ChannelsOwned` | `CurrentOpen /\ ChannelsOwned` |
| `SessionTypeCorrect` | `Spec => []TypeOK` of the session | `TypeOK /\ AppSlot /\ AppWritten /\ OpenFd /\ CallPacket` |
| `SessionSlotsUnique` | `Spec => []SlotsUnique` | the same with `SlotsUnique /\ AppAlone` |
| `StreamTypeCorrect` | `Spec => []TypeOK` of the stream | `TypeOK /\ RoomForHeader /\ HeadAtStart` |
| `StreamRoom` | `Spec => []RoomForHeader` | the same |
| `StreamInOrder` | `Spec => []InOrder` | the same with `Ordered` |
| `StreamResynchronises` | `Spec => []Resynchronises` | `TypeOK /\ RoomForHeader /\ HeadAtStart /\ Recovering /\ Stopped` |
| `EventsCounted` | `Spec => []EventCountExact` | itself, with `TypeOK` and `NamesUnique` |
| `ConsumersCounted` | `Spec => []ConsumersCountExact` | itself, with `TypeOK` |
| `ServerImplementsBroker` | `Spec => ImplementsBroker`, if TCP clients are of the server's version, nobody redefines an event and the application undefines none | `EventNamesUnique /\ CurrentOpen /\ ConsumersAsked /\ WritingLive` |
| `SubscribersUpToDate` | `DeliverySpec => []UpToDate`, if TCP clients are of the server's version, and nobody redefines an event; whatever counters subscriptions carry | the same with `Told` for `WritingLive` |
| `SubscriptionsKept` | `Spec => []KeptSubscriptions` | `KeptInv /\ Kept` |
| `RequestsTypeCorrect` | `Spec => []TypeOK` of the requests | `TypeOK /\ Control` |
| `LastEventNotLost` | `Spec => []LastEventKept` | the same with `EventKept /\ TakesLast` |
| `ReadsOfOneMoment` | `Spec => []ReadOfOneMoment` | the same with `ReadingInv` |
| `PagesAlwaysFit`, `ListsOfOneMoment` | `Spec => []PagesFit`, `Spec => []ListOfOneMoment` | both of the above with `ListsInv` |
| `TypeCorrect`, `CallbacksOnTime` of `SyncsTimeProofs` | `Spec => []TypeOK`, `Spec => []OnTime` | `TypeOK /\ Timely` |

The argument, server. The five handlers that create an event on demand are alike to the
invariants, which `Puts(id, S)` captures once (one slot gets the name `id`, the consumers it
had and those of `S`); all other steps keep or drop names (`NamesKept`). `NextNames` says that
every step is of one of these two kinds. `ConsumersAsked` needs unique
names, because unsubscribing ends the subscription in the first slot of a name only, and
`CurrentOpen` (the client whose bytes are processed is open), because a subscription on a
free slot would outlive its connection. `CurrentOpen` is what a client of another version
breaks, hence the assumption. The counts follow from the same two kinds of steps, told apart a
little further (`TableStep`).

The refinement has one lemma per action: it names the step of `PubSub`, or none, that the action
is. Unique names make a topic's value and subscribers those of one slot; open consumers make
the packets sent those that the broker sends; `WritingLive` says that the event whose callback runs
is still there when the write is finished. The last one is false if the application undefines the
event from its callback (`server.c:641` then sends the freed slot), and a definition over an
event with a value changes it without telling anyone, so the theorem, like the run, leaves these
requests out. `UpToDate` is not inductive while a callback runs; `Told` says of that time that the
writer knows the value of the event and the consumers of all other events know theirs. A new consumer
is sent the value or has a counter that says it has it, for every counter (`SubscribeTold`).

Session. Its types are not inductive by themselves: that a packet never carries the id of a
free slot needs `AppWritten` (a call sends what it has written, as nobody else frees its slot),
that a UDP socket is closed at most once needs `OpenFd`, and a callback needs its packet
(`CallPacket`). `SlotsUnique` needs `AppAlone`: between clearing an id and writing it no other slot
holds the name, because the slot was the only one with it or none had it, and only this thread
changes ids. `KeptSubscriptions` speaks of a server that knows the client. Over UDP it may come to
know it only from a packet on its way, so `Kept` asks more: a name that nothing keeps from being told
(`Announceable`) has, behind every CLIENT_ID on the way, its own announcement, and is held by a
server that knows the client already (`Promised`). It speaks of slots that no
call works on rather than of names, so that the end of a call is a step like any other. `AppPartial`
and `SocketsOpen` exclude the interleavings in which the hello passes a slot whose name is half
written, or a call finds the sockets closed while the hello runs. The queue is reasoned about in lemmas on
sequences (`TailHolds`, ...), so that each action's step is short.

Stream. `RoomForHeader` holds because a scan ends with less than a header or with a
header whose data are incomplete, and `data_size` is masked before it is used. For `InOrder` the
bytes of the buffer behind `head` followed by the wire are, packet by packet, the encodings of the packets not yet
processed; `Layout(start)` says so with the places at which they start, chosen anew at each step, so no
recursion over the packets is needed. For `Resynchronises` only those behind some packet `c` are still
ahead and whole, and those from `hurt + Swallowed` to `c` are processed (`Recovering`). What comes before them is of packets up to `c`
and, if `c` is not damaged, is a rest of `c` in which no header begins (`Aligned`). A header there can then be
that of a damaged packet only; it takes at most `MaxData` bytes of packets of at least four each, which gives
the bound `Swallowed`, and then the scan finds every header that was sent. `Stopped` says that a
scan ends only before an incomplete packet, so none is left whole in the buffer. These facts are
proved of a stream of labelled bytes; the steps of the receiver only cut it or add to it.

Requests. `Control` ties the steps of the thread and of the call to what they hold. A read is
right because the answers under way are of a moment of the call (`AnswersFresh`), none comes before the name is set
(`NameFirst`), and so what is copied of the one taken, a value or nothing, is of one of them (`DataFresh`). For lists, as long as nothing else has
the call's sequence number (`Undisturbed`), there is one list `all` of which every page under way is
a part (`IsPage`), the page awaited starts where the entries counted end (`Placed`), the buffer holds `all` up
to there (`Filled`), and a call that waits has the request, or pages of a moment of the call, still
before it (`Answering`). At each of the five steps at which a page is stored `AtPlace` says which of the
fields are ahead.

Sync mode. `Timely`: an event's seconds and nanoseconds are the ticks at which it is due, and a
client in time sleeps no longer than one tick past it. The proofs do the linear arithmetic of the
carries once (`Total`).

Induction over data. The library's induction theorems take an operator and cannot be used. What is
needed is proved for a set instead (`SetInduction`, from the well-founded order of the naturals): it gives
that `Listing`, a recursive function, is a list of entries no longer than the table, for tables of any
size, and that a bounded set of naturals has a greatest element.

Only model-checked: liveness (`Resubscribed`, `DisconnectReturns`, `EventWakes`, `CallbackRuns`), which
stays with TLC, because the prover has no fairness or `ENABLED`. The four violations are counterexamples and need
no proof.

## Not modelled

* Sockets (`syncs-net-*.c`): wrappers of system calls. Their failures appear as hang-ups.
* Encryption (`syncs-crypt.c`): not called by server or client at this commit.
* Daemon, `syncsctrl`, `syncsmon`, Python: callers of the library; terminal and web pages.
* `syncs_server_read*`, `syncs_server_print_event`: read the tables and change nothing.
* SSDP: socket options and string search. Its outcome, an answer or none, is `Find`.
* `connect_wait` and the connection callback's thread: nothing but a log or the caller's own
  waiting depends on them.
* `syncs_write`, `syncs_define` and `syncs_undefine` of the client are one packet each and keep no state;
  `SyncsSession` has them as `Write`.

## Plan

1. `SyncsSystem`: `SyncsSession` composed with `SyncsServer`. The update counter of a delivered
   packet is any value, as the header leaves it (`server.c:308`). Does an unsubscription that races
   with `syncs_send_id` leave a subscription behind? UDP slots that are never free again.
2. `ServerRace`: application threads without a lock, creation in its machine steps.
