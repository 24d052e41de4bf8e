------------------------------ MODULE SyncsTime ------------------------------
(***************************************************************************)
(* The sync mode of events: the server stamps an event with a time a little *)
(* ahead (src/libsyncs/syncs-server.c, syncs_sync_calculate) and each       *)
(* client's connection thread waits for it before it runs the callback      *)
(* (src/libsyncs/syncs-client.c, syncs_wait_sync).                          *)
(*                                                                          *)
(* Time passes in ticks, a second has Second of them and nanoseconds are    *)
(* counted in ticks.  The clocks run at the same speed (NTP) and differ by  *)
(* at most MaxSkew.  A thread that is not asleep acts before the next tick. *)
(***************************************************************************)
EXTENDS Integers, Sequences

CONSTANTS
    Clients,
    Server,
    Second,         \* ticks in a second
    Spin,           \* ticks in a millisecond
    Offsets,        \* sync_offset, as syncs_server_set_sync_offset sets it
    MaxSkew,        \* difference of two clocks
    MaxTime,        \* bound: no event is due later
    MaxEvents       \* bound: events sent

ASSUME ClockAssumption ==
    /\ Second \in Nat \ {0}
    /\ Spin \in 0..Second
    /\ Offsets \subseteq Nat
    /\ MaxSkew \in Nat /\ MaxTime \in Nat /\ MaxEvents \in Nat
    /\ Server \notin Clients

VARIABLES
    now,        \* the true time
    skew,       \* how far a clock is ahead of it
    events,     \* the events sent: sync time, offset, and when it is due
    thread,     \* of each client: where it is, its event, when it began to sleep and wakes up
    ran         \* of each client: when it took up an event and ran its callback

vars == <<now, skew, events, thread, ran>>

Clock(p) == now + skew[p]

Init ==
    /\ now = 0
    /\ skew \in [Clients \cup {Server} -> 0..MaxSkew]
    /\ events = << >>
    /\ thread = [c \in Clients |-> [pc |-> "recv", event |-> 0, since |-> 0, wake |-> 0]]
    /\ ran = [c \in Clients |-> << >>]

-----------------------------------------------------------------------------
(* The server.                                                               *)

\* Faulty: no carry.
SyncCalculateNoCarry(time, offset) ==
    [sec |-> time \div Second, nsec |-> (time % Second) + offset]

\* syncs_sync_calculate: one carry, and none for exactly a second.
SyncCalculate(time, offset) ==
    LET sec == time \div Second
        nsec == (time % Second) + offset
    IN  IF nsec > Second THEN [sec |-> sec + 1, nsec |-> nsec - Second]
                         ELSE [sec |-> sec, nsec |-> nsec]

\* syncs_send_event with SYNCS_TYPE_SYNC, to all clients.
SendEvent(offset) ==
    /\ Len(events) < MaxEvents
    /\ now + MaxSkew + offset < MaxTime
    /\ events' = Append(events, [sync |-> SyncCalculate(Clock(Server), offset),
                                 offset |-> offset, due |-> Clock(Server) + offset])
    /\ UNCHANGED <<now, skew, thread, ran>>

-----------------------------------------------------------------------------
(* A client's connection thread.                                             *)

\* SYNCS_TYPE_EVENT: the next event has arrived and is taken up.
Receive(c) ==
    LET n == Len(ran[c]) + 1
    IN  /\ thread[c].pc = "recv"
        /\ n <= Len(events)
        /\ thread' = [thread EXCEPT ![c] = [pc |-> "wait", event |-> n, since |-> now, wake |-> now]]
        /\ ran' = [ran EXCEPT ![c] = Append(@, [began |-> Clock(c), at |-> -1])]
        /\ UNCHANGED <<now, skew, events>>

\* The difference of the fields, not yet normalised.
Diff(c) ==
    LET sync == events[thread[c].event].sync
    IN  [sec |-> sync.sec - (Clock(c) \div Second),
         nsec |-> sync.nsec - (Clock(c) % Second)]

\* Faulty: a second that has passed is not noticed.
PassedThisSecond(d) == (d.sec = 0 /\ d.nsec < 0) \/ d.sec > 1

\* The condition to leave the loop.
Passed(d) == d.sec < 0 \/ (d.sec = 0 /\ d.nsec < 0) \/ d.sec > 1

\* Faulty: nothing is taken from the seconds.
BorrowFromNothing(d) ==
    IF d.nsec < 0 THEN [sec |-> d.sec, nsec |-> d.nsec + Second] ELSE d

\* A negative number of nanoseconds borrows a second.
Borrow(d) ==
    IF d.nsec < 0 THEN [sec |-> d.sec - 1, nsec |-> d.nsec + Second] ELSE d

\* The loop of syncs_wait_sync sees that the time has come: the callback runs.
RunCallback(c) ==
    /\ thread[c].pc = "wait"
    /\ thread[c].wake <= now
    /\ Passed(Diff(c))
    /\ thread' = [thread EXCEPT ![c].pc = "callback"]
    /\ ran' = [ran EXCEPT ![c][thread[c].event].at = Clock(c)]
    /\ UNCHANGED <<now, skew, events>>

\* It sleeps for the difference, or goes round until the next tick: less than
\* a millisecond is left, or nanosleep() refuses a second of nanoseconds.
Sleep(c) ==
    LET d == Borrow(Diff(c))
        sleeps == (d.sec > 0 \/ d.nsec > Spin) /\ d.nsec < Second
    IN  /\ thread[c].pc = "wait"
        /\ thread[c].wake <= now
        /\ ~Passed(Diff(c))
        /\ thread' = [thread EXCEPT ![c].since = now,
                         ![c].wake = now + IF sleeps THEN d.sec * Second + d.nsec ELSE 1]
        /\ UNCHANGED <<now, skew, events, ran>>

\* A signal ends nanosleep() early, at most once in a tick.
Interrupt(c) ==
    /\ thread[c].pc = "wait"
    /\ thread[c].since < now
    /\ thread[c].wake > now
    /\ thread' = [thread EXCEPT ![c].wake = now]
    /\ UNCHANGED <<now, skew, events, ran>>

\* The callback has taken its time.
EndCallback(c) ==
    /\ thread[c].pc = "callback"
    /\ thread' = [thread EXCEPT ![c] = [pc |-> "recv", event |-> 0, since |-> 0, wake |-> 0]]
    /\ UNCHANGED <<now, skew, events, ran>>

-----------------------------------------------------------------------------
Tick ==
    /\ now < MaxTime
    /\ \A c \in Clients : thread[c].pc = "wait" => thread[c].wake > now
    /\ now' = now + 1
    /\ UNCHANGED <<skew, events, thread, ran>>

Next ==
    \/ Tick
    \/ \E offset \in Offsets : SendEvent(offset)
    \/ \E c \in Clients : \/ Receive(c) \/ RunCallback(c) \/ Sleep(c)
                          \/ Interrupt(c) \/ EndCallback(c)

(* Fairness: time passes, and threads that are awake run.                    *)
Fairness ==
    /\ WF_vars(Tick)
    /\ \A c \in Clients : WF_vars(RunCallback(c) \/ Sleep(c))

Spec == Init /\ [][Next]_vars
FairSpec == Spec /\ Fairness

-----------------------------------------------------------------------------
(* Properties.                                                               *)

SyncEvent == [sync : [sec : 0..MaxTime, nsec : Nat], offset : Offsets, due : 0..MaxTime]
Thread == [pc : {"recv", "wait", "callback"}, event : Nat, since : 0..MaxTime,
           wake : 0..MaxTime + 2 * Second]
Run == [began : 0..MaxTime + MaxSkew, at : -1..MaxTime + MaxSkew]

\* All variables have their types.  The nanoseconds of an event whose offset
\* is at most a second are at most a second, which may be a full one.
TypeOK ==
    /\ now \in 0..MaxTime
    /\ skew \in [Clients \cup {Server} -> 0..MaxSkew]
    /\ events \in Seq(SyncEvent)
    /\ \A i \in DOMAIN events : LET e == events[i] IN
           e.sync.nsec <= IF e.offset <= Second THEN Second ELSE e.offset
    /\ thread \in [Clients -> Thread]
    /\ ran \in [Clients -> Seq(Run)]

\* Client c took up event i before it was due and has run its callback.
InTime(c, i) == i \in DOMAIN ran[c] /\ ran[c][i].at >= 0 /\ ran[c][i].began <= events[i].due

(* README.md:21: "Events have a sync mode that allows callbacks to be         *)
(* executed on many PCs simultaneously (NTP support required)."  Clients that *)
(* take up an event before it is due run its callback no more than their      *)
(* skew and a tick apart, none of them before the due time; one that takes it *)
(* up later runs it at once (client.c:93-114, server.c:293-306).  The offset  *)
(* and the skew must not exceed a second: the server carries once, and the    *)
(* client takes a time two seconds ahead for a mistake.                       *)
OnTime ==
    \A i \in DOMAIN events : \A c \in Clients :
        /\ (i \in DOMAIN ran[c] /\ ran[c][i].at >= 0 /\ ran[c][i].began > events[i].due)
               => ran[c][i].at = ran[c][i].began
        /\ (InTime(c, i) /\ events[i].offset + MaxSkew <= Second)
               => /\ ran[c][i].at >= events[i].due
                  /\ \A d \in Clients : InTime(d, i) =>
                        (ran[c][i].at - skew[c]) - (ran[d][i].at - skew[d]) <= MaxSkew + 1

(* A client never waits for ever, whatever the clocks show when it begins     *)
(* and however often signals interrupt its sleep (client.c:98-113).           *)
CallbackRuns == \A c \in Clients : (thread[c].pc = "wait") ~> (thread[c].pc = "callback")
=============================================================================
