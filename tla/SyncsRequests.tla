---------------------------- MODULE SyncsRequests ----------------------------
(***************************************************************************)
(* What a client asks for and waits for, src/libsyncs/syncs-client.c: reads *)
(* of a variable, the three lists, channel tickets and the wait for an      *)
(* event.  Each has one place in struct syncs_connect where the connection  *)
(* thread leaves the answer and the application thread, which may have      *)
(* given up and asked again in between, finds it.  Most accesses to these   *)
(* places take no lock: each is a step of its own.                          *)
(*                                                                          *)
(* The server is a table for each kind of list.  An entry is 0 (free) or    *)
(* the number of the change that made it, so that no two contents are the   *)
(* same.  Event k is the one in slot k of the table "event".                *)
(***************************************************************************)
EXTENDS Naturals, Sequences

CONSTANTS
    Kinds,          \* the lists in use, of "event", "client", "channel"
    MaxEntries,     \* size of a table (SYNCS_EVENT_MAXIMUM, ...)
    PerPage,        \* entries that fit in a packet
    Modulus,        \* values of the sequence number, a char: 256
    Synced,         \* events to which a program that waits has subscribed
    Programs,       \* the applications: the set of calls that one makes
    MaxCalls,       \* bound: calls of the application
    MaxChanges,     \* bound: changes of the server's tables
    MaxLost,        \* bound: pages that find the server's send buffer full
    MaxBreaks       \* bound: connections that break

Entries == 1..MaxEntries

ASSUME KindAssumption == "event" \in Kinds /\ Kinds \subseteq {"event", "client", "channel"}
ASSUME SizeAssumption ==
    /\ MaxEntries \in Nat \ {0} /\ MaxChanges \in Nat /\ MaxLost \in Nat
    /\ MaxCalls \in Nat /\ MaxBreaks \in Nat
    /\ PerPage \in Nat \ {0}
    /\ Modulus \in Nat \ {0}
ASSUME CallAssumption ==
    /\ Synced \subseteq Entries
    /\ Programs \subseteq SUBSET {"read", "wait", "list", "free", "ticket"}

VARIABLES
    table,      \* the server's tables
    link,       \* "up", "broken" (not noticed yet), "closed" (socketfd is -1)
    toServer,   \* packets on their way to the server
    toClient,   \* packets on their way to the client
    thread,     \* the connection thread: where it is, and the packet it is at
    app,        \* the application thread: its call, where it is, the answer
    read,       \* read_wait, read_id, read_size (0, or 1 for a value's), read_data
    queue,      \* events_queue: an event, or 0 for NULL
    eventWait,  \* event_wait
    data,       \* the data of a synchronous event
    list,       \* for each kind: buffer, sequence, recv, wait_packet, wait
    bounds,     \* calls, changes, pages lost and breaks so far
    clean,      \* history: nothing of earlier calls can meet the current one
    moments,    \* history: the server's tables since the current call began
    raced,      \* history: kinds asked for when not clean, or freed at a page
    kept        \* history: the event stored last and what became of it

vars == <<table, link, toServer, toClient, thread, app, read, queue, eventWait,
          data, list, bounds, clean, moments, raced, kept>>
network == <<link, toServer, toClient>>
waits == <<queue, eventWait, data>>
histories == <<clean, moments, raced, kept>>

Null == << >>
NoPacket == [type |-> "none"]
Values == 0..MaxChanges
Pairs == Entries \X Values

Init ==
    /\ table = [k \in Kinds |-> [e \in Entries |-> 0]]
    /\ link = "up"
    /\ toServer = << >>
    /\ toClient = << >>
    /\ thread = [pc |-> "recv", packet |-> NoPacket, base |-> 0]
    /\ app \in [program : Programs, call : {"none"}, pc : {"done"}, of : {0},
                kind : {"none"}, ok : {FALSE}, answer : {<< >>}]
    /\ read = [wait |-> FALSE, id |-> 0, size |-> 0, data |-> <<0, 0>>]
    /\ queue = 0
    /\ eventWait = TRUE
    /\ data = [e \in Synced |-> 0]
    /\ list = [k \in Kinds |-> [info |-> Null, sequence |-> 0, recv |-> 0,
                                page |-> 0, wait |-> FALSE]]
    /\ bounds = [calls |-> 0, changes |-> 0, lost |-> 0, breaks |-> 0]
    /\ clean = TRUE
    /\ moments = {table}
    /\ raced = {}
    /\ kept = [last |-> 0, taken |-> TRUE, overtaken |-> FALSE]

-----------------------------------------------------------------------------
(* The server.                                                               *)

\* The entries in use, in the order of the table.
Listing(t) ==
    LET used[n \in 0..MaxEntries] ==
            IF n = 0 THEN << >>
            ELSE IF t[n] = 0 THEN used[n - 1]
            ELSE Append(used[n - 1], <<n, t[n]>>)
    IN  used[MaxEntries]

\* syncs_client_send_eventlist and its two sisters: full pages as they fill
\* up, then a last one with the rest, which may be nothing.
Pages(k, seq) ==
    LET all == Listing(table[k])
        n == Len(all) \div PerPage + 1
    IN  [i \in 1..n |->
            [type |-> "LIST", kind |-> k, sequence |-> seq, page |-> i - 1, end |-> i = n,
             items |-> SubSeq(all, (i - 1) * PerPage + 1,
                              IF i = n THEN Len(all) ELSE i * PerPage)]]

\* The ways to take m of the numbers from 1 to n, in their order.
Selections(m, n) == {f \in [1..m -> 1..n] : \A i, j \in 1..m : i < j => f[i] < f[j]}

\* syncs_client_read answers in any case; for a variable that is not there,
\* with no data (value 0).
ReadReply(id) == [type |-> "READ", id |-> id, value |-> table["event"][id]]

\* The server takes a request.  A page that finds the send buffer full is lost.
ServerReads ==
    /\ toServer # << >>
    /\ toServer' = Tail(toServer)
    /\ LET p == Head(toServer)
       IN  \/ /\ p.type = "READ"
              /\ toClient' = Append(toClient, ReadReply(p.id))
              /\ UNCHANGED bounds
           \/ /\ p.type = "LIST"
              /\ LET pages == Pages(p.kind, p.sequence)
                 IN  \E lost \in 0..Len(pages) : \E sent \in Selections(Len(pages) - lost, Len(pages)) :
                        /\ bounds.lost + lost <= MaxLost
                        /\ bounds' = [bounds EXCEPT !.lost = @ + lost]
                        /\ toClient' = toClient \o [i \in DOMAIN sent |-> pages[sent[i]]]
           \/ /\ p.type = "TICKET"
              /\ toClient' = Append(toClient, [type |-> "TICKET"])
              /\ UNCHANGED bounds
    /\ UNCHANGED <<table, link, thread, app, read, waits, list, histories>>

\* Another client, or the server's application, writes, defines or removes an
\* entry.  A written event is sent to the client if it has subscribed.
Change(k, e, v) ==
    /\ bounds.changes < MaxChanges
    /\ v \in {0, bounds.changes + 1} \ {table[k][e]}
    /\ bounds' = [bounds EXCEPT !.changes = @ + 1]
    /\ table' = [table EXCEPT ![k][e] = v]
    /\ toClient' = IF /\ k = "event" /\ e \in Synced /\ v # 0
                      /\ "wait" \in app.program /\ link = "up"
                   THEN Append(toClient, [type |-> "EVENT", id |-> e, value |-> v])
                   ELSE toClient
    /\ moments' = IF app.pc = "done" THEN moments ELSE moments \cup {table'}
    /\ UNCHANGED <<link, toServer, thread, app, read, waits, list, clean, raced, kept>>

\* The connection breaks; what was received before may still be read.
Break ==
    /\ link = "up"
    /\ bounds.breaks < MaxBreaks
    /\ bounds' = [bounds EXCEPT !.breaks = @ + 1]
    /\ link' = "broken"
    /\ toServer' = << >>
    /\ toClient' \in {toClient, << >>}
    /\ UNCHANGED <<table, thread, app, read, waits, list, histories>>

-----------------------------------------------------------------------------
(* The connection thread: syncs_recv and syncs_process_packet.               *)

At(pc) == thread.pc = pc
Goto(pc) == thread' = [thread EXCEPT !.pc = pc]
Back == thread' = [pc |-> "recv", packet |-> NoPacket, base |-> 0]

\* The thread sees the end of the connection, and later opens another one.
Reconnect ==
    /\ At("recv")
    /\ \/ link = "broken" /\ toClient = << >> /\ link' = "closed"
       \/ link = "closed" /\ link' = "up"
    /\ UNCHANGED <<table, toServer, toClient, thread, app, read, waits, list, bounds, histories>>

Receive(type) ==
    /\ At("recv")
    /\ toClient # << >>
    /\ Head(toClient).type = type
    /\ toClient' = Tail(toClient)
    /\ UNCHANGED <<table, link, toServer, app, bounds>>

\* Faulty: the name is not compared.
AnswersAny(p) == read.wait

\* The test of the READ case.
AnswersRead(p) == read.wait /\ p.id = read.id

\* An answer without data sets the size and leaves read_data as it is.
StoreRead(p) ==
    [read EXCEPT !.wait = FALSE,
                 !.size = IF p.value = 0 THEN 0 ELSE 1,
                 !.data = IF p.value = 0 THEN @ ELSE <<p.id, p.value>>]

\* READ, all under read_mutex.
ReceiveRead ==
    /\ Receive("READ")
    /\ LET p == Head(toClient)
       IN  /\ read' = IF AnswersRead(p) THEN StoreRead(p) ELSE read
           /\ clean' = (clean /\ ~(app.call = "read" /\ app.pc = "ask"))
    /\ UNCHANGED <<thread, waits, list, moments, raced, kept>>

\* A ticket comes with message type 0, which no case of the switch takes.
ReceiveTicket ==
    /\ Receive("TICKET")
    /\ UNCHANGED <<thread, read, waits, list, histories>>

\* Faulty: an event that is queued already is not replaced.
QueuedFirst(e) == IF queue = 0 THEN e ELSE queue

\* The queue has room for one event: the last.
Queued(e) == e

\* EVENT for a synchronous subscription: data and queue under the event's
\* mutex, which the application holds while it takes this event ...
StoreEvent ==
    LET e == Head(toClient).id
    IN  /\ Receive("EVENT")
        /\ ~(app.pc = "reset" /\ app.of = e)
        /\ data' = [data EXCEPT ![e] = Head(toClient).value]
        /\ queue' = Queued(e)
        /\ Goto("notify")
        /\ kept' = [last |-> e, taken |-> FALSE, overtaken |-> app.pc = "take" /\ app.of # e]
        /\ UNCHANGED <<eventWait, read, list, clean, moments, raced>>

\* Faulty: the sleeper is woken, but its condition stays true.
NotifySignalOnly ==
    /\ At("notify")
    /\ Back
    /\ UNCHANGED <<table, network, app, read, waits, list, bounds, histories>>

\* ... then syncs_notify_for.
Notify ==
    /\ At("notify")
    /\ eventWait' = FALSE
    /\ Back
    /\ UNCHANGED <<table, network, app, read, queue, data, list, bounds, histories>>

\* Faulty: the number of the page is not compared.
AwaitedInAnyOrder(p) ==
    /\ list[p.kind].info # Null
    /\ p.sequence = list[p.kind].sequence

\* A page is of the current request and the next one.
Awaited(p) ==
    /\ list[p.kind].info # Null
    /\ p.sequence = list[p.kind].sequence
    /\ p.page = list[p.kind].page

\* EVENT_LIST, CLIENT_LIST and CHANNEL_LIST take no lock: the three tests (one
\* step here: a request or a free that comes between two of them is a race, from
\* which the properties except the list in any case), ...
ReceivePage ==
    /\ Receive("LIST")
    /\ IF Awaited(Head(toClient))
       THEN thread' = [thread EXCEPT !.pc = "copy", !.packet = Head(toClient)]
       ELSE UNCHANGED thread
    /\ UNCHANGED <<read, waits, list, histories>>

AtPageOf(k) == thread.pc \in {"copy", "count", "advance", "release"} /\ thread.packet.kind = k

\* ... memcpy; through a NULL pointer or past the end, the model ends ...
CopyPage ==
    LET p == thread.packet
        l == list[p.kind]
    IN  /\ At("copy")
        /\ IF l.info = Null \/ l.recv + Len(p.items) > MaxEntries
           THEN Goto("dead") /\ UNCHANGED list
           ELSE /\ list' = [list EXCEPT ![p.kind].info =
                               [i \in Entries |-> IF i \in l.recv + 1..l.recv + Len(p.items)
                                                  THEN p.items[i - l.recv] ELSE l.info[i]]]
                /\ thread' = [thread EXCEPT !.pc = "count", !.base = l.recv]
        /\ UNCHANGED <<table, network, app, read, waits, bounds, histories>>

\* ... recv += count and wait_packet++, each with the value it has now or the
\* one that was loaded for the step before ...
CountPage ==
    LET p == thread.packet
    IN  /\ At("count")
        /\ \E recv \in {list[p.kind].recv, thread.base} :
               list' = [list EXCEPT ![p.kind].recv = recv + Len(p.items)]
        /\ Goto("advance")
        /\ UNCHANGED <<table, network, app, read, waits, bounds, histories>>

AdvancePage ==
    LET p == thread.packet
    IN  /\ At("advance")
        /\ \E page \in {list[p.kind].page, p.page} :
               list' = [list EXCEPT ![p.kind].page = page + 1]
        /\ IF p.end THEN Goto("release") ELSE Back
        /\ UNCHANGED <<table, network, app, read, waits, bounds, histories>>

\* ... and syncs_notify_for, after the last page.
ReleaseList ==
    /\ At("release")
    /\ list' = [list EXCEPT ![thread.packet.kind].wait = FALSE]
    /\ Back
    /\ UNCHANGED <<table, network, app, read, waits, bounds, histories>>

Thread == \/ Reconnect \/ ReceiveRead \/ ReceiveTicket \/ StoreEvent \/ Notify
          \/ ReceivePage \/ CopyPage \/ CountPage \/ AdvancePage \/ ReleaseList

-----------------------------------------------------------------------------
(* The application: one call after the other.                                *)

Send(p) == /\ toServer' = IF link = "up" THEN Append(toServer, p) ELSE toServer
           /\ UNCHANGED <<link, toClient>>

\* A call begins.  Without a connection, reads, lists and tickets fail at once.
Begin(call, of, kind, pc) ==
    /\ app.pc = "done"
    /\ call \in app.program
    /\ bounds.calls < MaxCalls
    /\ bounds' = [bounds EXCEPT !.calls = @ + 1]
    /\ app' = [app EXCEPT !.call = call, !.pc = pc, !.of = of, !.kind = kind,
                          !.ok = FALSE, !.answer = << >>]
    /\ moments' = {table}
    /\ UNCHANGED <<table, thread>>

Return(answer) == app' = [app EXCEPT !.pc = "done", !.ok = TRUE, !.answer = answer]
Fail == app' = [app EXCEPT !.pc = "done"]
Step(pc) == app' = [app EXCEPT !.pc = pc]

\* syncs_wait_for: a sleeper that runs into its deadline reports it, even if
\* the answer has come just before it wakes up.
TimeOut ==
    /\ app.pc = "wait"
    /\ Fail
    /\ UNCHANGED <<table, network, thread, read, waits, list, bounds, histories>>

Outstanding == {toServer[i] : i \in DOMAIN toServer} \cup {toClient[i] : i \in DOMAIN toClient}

\* syncs_read: read_wait first, ...
Read(e) ==
    /\ Begin("read", e, "none", IF link = "closed" THEN "done" ELSE "ask")
    /\ read' = IF link = "closed" THEN read ELSE [read EXCEPT !.wait = TRUE]
    /\ clean' = (\A p \in Outstanding : p.type = "READ" => p.id # e)
    /\ UNCHANGED <<network, waits, list, raced, kept>>

\* ... then read_id, and the request; ...
ReadAsk ==
    /\ app.call = "read" /\ app.pc = "ask"
    /\ read' = [read EXCEPT !.id = app.of]
    /\ Send([type |-> "READ", id |-> app.of])
    /\ Step("wait")
    /\ UNCHANGED <<table, thread, waits, list, bounds, histories>>

\* ... the answer is read_data, as far as read_size, when read_wait is 0.
ReadReturn ==
    /\ app.call = "read" /\ app.pc = "wait"
    /\ ~read.wait
    /\ Return(IF read.size = 0 THEN << >> ELSE <<read.data>>)
    /\ UNCHANGED <<table, network, thread, read, waits, list, bounds, histories>>

\* syncs_channel_request never sets ticket_wait, so it does not wait; and
\* ticket_data is what it was at the start, all zero.
ChannelRequest ==
    /\ Begin("ticket", 0, "none", "done")
    /\ IF link = "closed" THEN UNCHANGED network ELSE Send([type |-> "TICKET"])
    /\ UNCHANGED <<read, waits, list, clean, raced, kept>>

\* Faulty: the sequence number is wider than the byte it is sent in.
NextSequenceWide(k) == list[k].sequence + 1

\* ++sequence, of type char
NextSequence(k) == (list[k].sequence + 1) % Modulus

\* syncs_request_eventslist, _clientslist, _channelslist: the buffer and the
\* next sequence number, ...
RequestList(k) ==
    LET next == NextSequence(k)
    IN  /\ Begin("list", 0, k, IF link = "closed" THEN "done" ELSE "recv")
        /\ list' = [list EXCEPT
              ![k].info = IF @ = Null THEN [i \in Entries |-> <<i, 0>>] ELSE @,
              ![k].sequence = IF link = "closed" THEN @ ELSE next]
        /\ clean' = (/\ ~AtPageOf(k)
                     /\ \A p \in Outstanding : p.type = "LIST" =>
                            <<p.kind, p.sequence>> # <<k, next>>)
        /\ raced' = IF clean' THEN raced ELSE raced \cup {k}
        /\ UNCHANGED <<network, read, waits, kept>>

\* Faulty: recv keeps its value.
ResetRecvNot ==
    /\ app.call = "list" /\ app.pc = "recv"
    /\ Step("page")
    /\ UNCHANGED <<table, network, thread, read, waits, list, bounds, histories>>

\* ... recv = 0, wait_packet = 0, ...
ResetRecv ==
    /\ app.call = "list" /\ app.pc = "recv"
    /\ list' = [list EXCEPT ![app.kind].recv = 0]
    /\ Step("page")
    /\ UNCHANGED <<table, network, thread, read, waits, bounds, histories>>

ResetPage ==
    /\ app.call = "list" /\ app.pc = "page"
    /\ list' = [list EXCEPT ![app.kind].page = 0]
    /\ Step("ask")
    /\ UNCHANGED <<table, network, thread, read, waits, bounds, histories>>

\* ... wait = 1, the request; ...
ListAsk ==
    /\ app.call = "list" /\ app.pc = "ask"
    /\ list' = [list EXCEPT ![app.kind].wait = TRUE]
    /\ Send([type |-> "LIST", kind |-> app.kind, sequence |-> list[app.kind].sequence])
    /\ Step("wait")
    /\ UNCHANGED <<table, thread, read, waits, bounds, histories>>

\* ... and the list is the first recv entries of the buffer.
ListReturn ==
    LET l == list[app.kind]
    IN  /\ app.call = "list" /\ app.pc = "wait"
        /\ ~l.wait
        /\ Return(SubSeq(l.info, 1, l.recv))
        /\ UNCHANGED <<table, network, thread, read, waits, list, bounds, histories>>

\* syncs_free_eventslist, _clientslist, _channelslist
FreeList(k) ==
    /\ list[k].info # Null
    /\ Begin("free", 0, k, "done")
    /\ list' = [list EXCEPT ![k].info = Null]
    /\ raced' = IF AtPageOf(k) THEN raced \cup {k} ELSE raced
    /\ UNCHANGED <<network, read, waits, clean, kept>>

\* syncs_wait_event: the queue without a lock; ...
WaitEvent ==
    /\ Begin("wait", queue, "none", IF queue = 0 THEN "wait" ELSE "take")
    /\ UNCHANGED <<network, read, waits, list, clean, raced, kept>>

\* ... if it was empty, wait and look again; still empty: NULL; ...
WaitReturn ==
    /\ app.call = "wait" /\ app.pc = "wait"
    /\ ~eventWait
    /\ IF queue = 0 THEN Fail
       ELSE app' = [app EXCEPT !.pc = "take", !.of = queue]
    /\ UNCHANGED <<table, network, thread, read, waits, list, bounds, histories>>

\* ... the data, and the queue is empty; ...
TakeEvent ==
    /\ app.call = "wait" /\ app.pc = "take"
    /\ app' = [app EXCEPT !.pc = "reset", !.answer = <<<<app.of, data[app.of]>>>>]
    /\ queue' = 0
    /\ kept' = [kept EXCEPT !.taken = @ \/ app.of = kept.last]
    /\ UNCHANGED <<table, network, thread, read, eventWait, data, list, bounds, clean, moments, raced>>

\* ... and event_wait, before the mutex is unlocked.
ResetWait ==
    /\ app.pc = "reset"
    /\ eventWait' = TRUE
    /\ Return(app.answer)
    /\ UNCHANGED <<table, network, thread, read, queue, data, list, bounds, histories>>

AppCalls ==
    \/ \E e \in Entries : Read(e)
    \/ \E k \in Kinds : RequestList(k) \/ FreeList(k)
    \/ ChannelRequest
    \/ WaitEvent

AppSteps ==
    \/ ReadAsk \/ ReadReturn
    \/ ResetRecv \/ ResetPage \/ ListAsk \/ ListReturn
    \/ WaitReturn \/ TakeEvent \/ ResetWait

Next ==
    /\ ~At("dead")
    /\ \/ Thread \/ AppCalls \/ AppSteps \/ TimeOut \/ ServerReads \/ Break
       \/ \E k \in Kinds, e \in Entries, v \in Values : Change(k, e, v)

(* Fairness: the operating system runs both threads.  No timeout, change,    *)
(* request or answer need ever come.                                         *)
Fairness == WF_vars(~At("dead") /\ Thread) /\ WF_vars(~At("dead") /\ AppSteps)

Spec == Init /\ [][Next]_vars
FairSpec == Spec /\ Fairness

-----------------------------------------------------------------------------
(* Properties.                                                               *)

Packets == [type : {"TICKET"}]
           \cup [type : {"READ"}, id : Entries]
           \cup [type : {"LIST"}, kind : Kinds, sequence : 0..Modulus - 1]
ReadData == Pairs \cup {<<0, 0>>}
ListPages == [type : {"LIST"}, kind : Kinds, sequence : 0..Modulus - 1,
              page : Nat, end : BOOLEAN, items : Seq(Pairs)]
Answers == [type : {"TICKET"}] \cup ListPages
           \cup [type : {"READ"}, id : Entries, value : Values]
           \cup [type : {"EVENT"}, id : Synced, value : Values]
Tables == [Kinds -> [Entries -> Values]]
ThreadStates == [pc : {"recv", "notify", "copy", "count", "advance", "release", "dead"},
                 packet : ListPages \cup {NoPacket}, base : 0..MaxEntries]
AppStates == [program : Programs,
              call : {"none", "read", "wait", "list", "free", "ticket"},
              pc : {"done", "ask", "wait", "recv", "page", "take", "reset"},
              of : Entries \cup {0}, kind : Kinds \cup {"none"},
              ok : BOOLEAN, answer : Seq(ReadData)]
Lists == [info : {Null} \cup [Entries -> Pairs], sequence : 0..Modulus - 1,
          recv : 0..MaxEntries, page : Nat, wait : BOOLEAN]
ReadStates == [wait : BOOLEAN, id : Entries \cup {0}, size : 0..1, data : ReadData]
Counts == [calls : 0..MaxCalls, changes : 0..MaxChanges, lost : 0..MaxLost, breaks : 0..MaxBreaks]
KeptStates == [last : Synced \cup {0}, taken : BOOLEAN, overtaken : BOOLEAN]

\* All variables have their types; a sequence number is one that fits in its
\* byte, and never more entries are counted than the buffer of a list holds.
TypeOK ==
    /\ table \in Tables
    /\ link \in {"up", "broken", "closed"}
    /\ toServer \in Seq(Packets)
    /\ toClient \in Seq(Answers)
    /\ thread \in ThreadStates
    /\ At("recv") \/ At("notify") \/ thread.packet \in ListPages
    /\ app \in AppStates
    /\ read \in ReadStates
    /\ queue \in Synced \cup {0}
    /\ eventWait \in BOOLEAN
    /\ data \in [Synced -> Values]
    /\ list \in [Kinds -> Lists]
    /\ bounds \in Counts
    /\ clean \in BOOLEAN
    /\ moments \subseteq Tables
    /\ raced \subseteq Kinds
    /\ kept \in KeptStates

\* What a read copies of variable e when its value is v: nothing if it is not
\* there.
ValueOf(e, v) == IF v = 0 THEN << >> ELSE <<<<e, v>>>>

(* A read that succeeds has the value that the variable had at some moment of *)
(* the call, or no value if at some moment of the call the variable was not   *)
(* there: no other variable's and none left in read_data, whatever reads have *)
(* timed out before, and whether the connection breaks (client.c:146-168,     *)
(* client.c:533-543).  Two things spoil it: an answer to an earlier read of   *)
(* this variable is on its way when the call begins, or an answer arrives     *)
(* between read_wait and read_id.                                             *)
ReadOfOneMoment ==
    (app.call = "read" /\ app.ok /\ clean) =>
        \E t \in moments : app.answer = ValueOf(app.of, t["event"][app.of])

(* A list is the whole table as it was at some moment of the call: no page of *)
(* a list given up before, no gap and no entry twice, even if pages are lost  *)
(* (client.c:545-593, client.c:913-1001).  Two things spoil it: the call      *)
(* begins while the thread is at a page of this list, or while something with *)
(* its one-byte sequence number is still on its way.                          *)
ListOfOneMoment ==
    (app.call = "list" /\ app.ok /\ clean) =>
        \E t \in moments : app.answer = Listing(t[app.kind])

(* Pages are only written into a buffer that is there and large enough,       *)
(* unless the list was asked for again, or freed, while the thread was at one *)
(* of its pages, or while one with the same sequence number was on its way    *)
(* (client.c:548-555).                                                        *)
PagesFit == At("dead") => thread.packet.kind \in raced

(* The event stored last is not lost: the queue has it, or a call has         *)
(* returned it or is about to (client.c:254-276, client.c:464-471).  One      *)
(* event alone can be lost: one stored while a call is between its look at    *)
(* the queue, which held another event, and its reset of the queue.           *)
LastEventKept ==
    \/ kept.last = 0
    \/ kept.taken
    \/ kept.overtaken
    \/ queue = kept.last

(* An event wakes a call of syncs_wait_event that waits: the thread stores it *)
(* before it notifies (client.c:464-470), and the call looks again after it   *)
(* has been notified (client.c:259-263).  No timeout is needed.               *)
EventWakes ==
    (app.call = "wait" /\ app.pc = "wait" /\ queue # 0) ~> (app.pc # "wait" \/ At("dead"))
=============================================================================
