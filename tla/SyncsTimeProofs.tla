-------------------------- MODULE SyncsTimeProofs --------------------------
(***************************************************************************)
(* Proofs about SyncsTime: its types, and that clients that are not late   *)
(* run a callback at the same time, give or take their skew and a tick.    *)
(***************************************************************************)
EXTENDS SyncsTime, SequenceTheorems, TLAPS

(* The ticks that a difference of seconds and nanoseconds stands for. *)
Total(d) == d.sec * Second + d.nsec

(* The sync time of every event is when it is due, in seconds and
   nanoseconds, and no further ahead than its offset. *)
EventDue(e) ==
    /\ Total(e.sync) = e.due
    /\ e.due <= Clock(Server) + e.offset

(* A client that waits for event n: late, it goes on at once; in time, it
   wakes up one tick after the event is due, or sooner. *)
WaitFor(c, n) ==
    /\ n \in DOMAIN events
    /\ n = Len(ran[c])
    /\ n \in DOMAIN ran[c]
    /\ ran[c][n].at = -1
    /\ ran[c][n].began <= Clock(c)
    /\ thread[c].wake >= now
    /\ ran[c][n].began > events[n].due =>
          thread[c].wake = now /\ Clock(c) = ran[c][n].began
    /\ ran[c][n].began <= events[n].due =>
          thread[c].wake + skew[c] <= events[n].due + 1

(* Client c has run the callback of event i. *)
RanOnTime(c, i) ==
    /\ ran[c][i].began > events[i].due => ran[c][i].at = ran[c][i].began
    /\ ran[c][i].began <= events[i].due => ran[c][i].at <= events[i].due + 1
    /\ ran[c][i].began <= events[i].due /\ events[i].offset + MaxSkew <= Second
          => ran[c][i].at >= events[i].due

(* All of it for a client, and for all clients. *)
ClientTimely(c) ==
    /\ Len(ran[c]) <= Len(events)
    /\ thread[c].pc = "wait" => WaitFor(c, thread[c].event)
    /\ \A i \in DOMAIN ran[c] : ran[c][i].at >= 0 => RanOnTime(c, i)
Timely ==
    /\ \A i \in DOMAIN events : EventDue(events[i])
    /\ \A c \in Clients : ClientTimely(c)

----------------------------------------------------------------------------
(* Seconds and nanoseconds. *)

(* A time is its seconds and what is left. *)
LEMMA DivMod ==
    ASSUME NEW x \in Int
    PROVE  /\ x \div Second \in Int
           /\ x % Second \in 0..Second - 1
           /\ x = (x \div Second) * Second + (x % Second)
  BY ClockAssumption

(* A number of seconds, in ticks. *)
LEMMA Seconds ==
    ASSUME NEW s \in Int
    PROVE  /\ s * Second \in Int
           /\ (s + 1) * Second = s * Second + Second
           /\ (s - 1) * Second = s * Second - Second
           /\ s >= 0 => s * Second >= s
           /\ s < 0 => s * Second <= -Second
           /\ s > 1 => s * Second >= 2 * Second
  BY ClockAssumption

(* A carry, or none for exactly a second, leaves the time what it is. *)
LEMMA SyncTotal ==
    ASSUME NEW time \in Nat, NEW offset \in Nat
    PROVE  LET s == SyncCalculate(time, offset)
           IN  /\ s \in [sec : Nat, nsec : Nat]
               /\ Total(s) = time + offset
               /\ s.nsec <= IF offset <= Second THEN Second ELSE offset
<1> DEFINE q == time \div Second
           r == time % Second
           s == SyncCalculate(time, offset)
<1>1. Second \in Nat /\ Second > 0
  BY ClockAssumption
<1>2. q \in Int /\ r \in 0..Second - 1 /\ time = q * Second + r
  BY DivMod
<1>3. q \in Nat
  <2>1. q < 0 => q * Second <= -Second
    BY <1>2, Seconds
  <2> HIDE DEF q, r
  <2> QED
    BY <1>1, <1>2, <2>1
<1>4. CASE r + offset > Second
  <2>1. s = [sec |-> q + 1, nsec |-> r + offset - Second]
    BY <1>1, <1>2, <1>4 DEF SyncCalculate
  <2>2. Total(s) = (q + 1) * Second + (r + offset - Second)
    BY <2>1 DEF Total
  <2>3. (q + 1) * Second = q * Second + Second /\ q * Second \in Int
    BY <1>2, Seconds
  <2> HIDE DEF q, r, s
  <2>4. Total(s) = time + offset
    BY <1>1, <1>2, <2>2, <2>3
  <2>5. s.nsec <= IF offset <= Second THEN Second ELSE offset
    BY <1>1, <1>2, <2>1
  <2> QED
    BY <1>1, <1>2, <1>3, <1>4, <2>1, <2>4, <2>5 DEF s
<1>5. CASE ~(r + offset > Second)
  <2>1. s = [sec |-> q, nsec |-> r + offset]
    BY <1>1, <1>2, <1>5 DEF SyncCalculate
  <2>2. Total(s) = q * Second + (r + offset)
    BY <2>1 DEF Total
  <2>3. q * Second \in Int
    BY <1>2, Seconds
  <2> HIDE DEF q, r, s
  <2>4. Total(s) = time + offset
    BY <1>1, <1>2, <2>2, <2>3
  <2> QED
    BY <1>1, <1>2, <1>3, <1>5, <2>1, <2>4 DEF s
<1> QED
  BY <1>4, <1>5

(* A time that has passed is noticed, whichever way the fields differ ... *)
LEMMA LatePassed ==
    ASSUME NEW d \in [sec : Int, nsec : Int], d.nsec > -Second, Total(d) < 0
    PROVE  Passed(d)
<1>1. d.sec \in Int /\ d.nsec \in Int /\ Second \in Nat /\ Second > 0
  BY ClockAssumption
<1>2. d.sec * Second + d.nsec < 0
  BY DEF Total
<1>3. d.sec <= 0
  BY <1>1, <1>2, Seconds
<1>4. d.sec = 0 => d.nsec < 0
  BY <1>1, <1>2
<1> QED
  BY <1>1, <1>3, <1>4 DEF Passed

(* ... and no time that is at most a second ahead is taken for one that has. *)
LEMMA PassedDue ==
    ASSUME NEW d \in [sec : Int, nsec : Int], d.nsec > -Second, d.nsec <= Second,
           Total(d) <= Second, Passed(d)
    PROVE  Total(d) <= 0
<1>1. d.sec \in Int /\ d.nsec \in Int /\ Second \in Nat /\ Second > 0
  BY ClockAssumption
<1> DEFINE s == d.sec
           n == d.nsec
           p == s * Second
<1>2. p + n <= Second /\ p \in Int /\ Total(d) = p + n
  BY <1>1 DEF Total
<1>3. /\ s < 0 => p <= -Second
      /\ s > 1 => p >= 2 * Second
      /\ s = 0 => p = 0
  BY <1>1, Seconds
<1>4. s < 0 \/ (s = 0 /\ n < 0) \/ s > 1
  BY DEF Passed
<1>5. s \in Int /\ n \in Int /\ n > -Second /\ n <= Second
  BY <1>1
<1> HIDE DEF s, n, p
<1> QED
  BY <1>1, <1>2, <1>3, <1>4, <1>5

(* The sleep is as long as the difference, which is less than two seconds. *)
LEMMA SleepLength ==
    ASSUME NEW d \in [sec : Int, nsec : Int], d.nsec > -Second, ~Passed(d)
    PROVE  LET b == Borrow(d)
           IN  /\ b.sec \in Int /\ b.nsec \in Int
               /\ Total(b) = Total(d)
               /\ Total(d) \in Nat
               /\ b.nsec < Second => Total(d) < 2 * Second
<1>1. d.sec \in Int /\ d.nsec \in Int /\ Second \in Nat /\ Second > 0
  BY ClockAssumption
<1>2. d.sec \in {0, 1} /\ (d.sec = 0 => d.nsec >= 0)
  BY <1>1 DEF Passed
<1>3. Total(d) = IF d.sec = 0 THEN d.nsec ELSE Second + d.nsec
  BY <1>1, <1>2 DEF Total
<1>4. CASE d.nsec < 0
  <2>1. Borrow(d) = [sec |-> 0, nsec |-> d.nsec + Second]
    BY <1>1, <1>2, <1>4 DEF Borrow
  <2> QED
    BY <1>1, <1>2, <1>3, <1>4, <2>1 DEF Total
<1>5. CASE ~(d.nsec < 0)
  <2>1. Borrow(d) = d
    BY <1>5 DEF Borrow
  <2> QED
    BY <1>1, <1>2, <1>3, <1>5, <2>1
<1> QED
  BY <1>4, <1>5

----------------------------------------------------------------------------
(* What a client that waits for an event sees. *)

(* The fields of an event. *)
LEMMA EventType ==
    ASSUME NEW e \in SyncEvent
    PROVE  /\ e.sync.sec \in Nat /\ e.sync.nsec \in Nat
           /\ e.offset \in Nat /\ e.due \in Nat
<1>1. e.sync \in [sec : 0..MaxTime, nsec : Nat] /\ e.offset \in Offsets /\ e.due \in 0..MaxTime
  BY DEF SyncEvent
<1>2. e.sync.sec \in Nat /\ e.sync.nsec \in Nat
  BY <1>1
<1>3. e.offset \in Nat
  BY <1>1, ClockAssumption
<1>4. e.due \in Nat
  BY <1>1
<1> QED
  BY <1>2, <1>3, <1>4

(* The difference stands for the time that is left. *)
LEMMA DiffDue ==
    ASSUME TypeOK, Timely, NEW c \in Clients, thread[c].pc = "wait"
    PROVE  LET e == events[thread[c].event]
           IN  /\ Diff(c) \in [sec : Int, nsec : Int]
               /\ Diff(c).nsec > -Second
               /\ Total(Diff(c)) = e.due - Clock(c)
               /\ e.offset <= Second => Diff(c).nsec <= Second
               /\ e.due - Clock(c) <= e.offset + MaxSkew
<1> DEFINE e == events[thread[c].event]
           q == Clock(c) \div Second
           r == Clock(c) % Second
<1>1. WaitFor(c, thread[c].event)
  BY DEF Timely, ClientTimely
<1>2. thread[c].event \in DOMAIN events
  BY <1>1 DEF WaitFor
<1>3. /\ e \in SyncEvent
      /\ e.sync.nsec <= IF e.offset <= Second THEN Second ELSE e.offset
  BY <1>2 DEF TypeOK
<1>4. EventDue(e)
  BY <1>2 DEF Timely
<1>5. /\ now \in Nat /\ skew[c] \in 0..MaxSkew /\ skew[Server] \in 0..MaxSkew
      /\ MaxSkew \in Nat /\ Second \in Nat /\ Second > 0
      /\ Clock(c) \in Nat
  BY ClockAssumption DEF TypeOK, Clock
<1>6. q \in Int /\ r \in 0..Second - 1 /\ Clock(c) = q * Second + r
  <2>1. Clock(c) \in Int
    BY <1>5
  <2> QED
    BY <2>1, DivMod
<1>7. /\ e.sync.sec \in Nat /\ e.sync.nsec \in Nat
      /\ e.offset \in Nat /\ e.due \in Nat
  BY <1>3, EventType
<1>8. Diff(c) = [sec |-> e.sync.sec - q, nsec |-> e.sync.nsec - r]
  BY DEF Diff
<1>9. e.due <= now + skew[Server] + e.offset /\ Clock(c) = now + skew[c]
  BY <1>4 DEF EventDue, Clock
<1>10. e.sync.sec * Second + e.sync.nsec = e.due
  BY <1>4 DEF EventDue, Total
<1> HIDE DEF q, r, e
<1>11. (e.sync.sec - q) * Second = e.sync.sec * Second - q * Second
  BY <1>5, <1>6, <1>7
<1>12. e.sync.sec * Second \in Int /\ q * Second \in Int
  BY <1>6, <1>7, Seconds
<1>13. Total(Diff(c)) = e.due - Clock(c)
  <2>1. Total(Diff(c)) = (e.sync.sec - q) * Second + (e.sync.nsec - r)
    BY <1>8 DEF Total
  <2> QED
    BY <1>5, <1>6, <1>7, <1>10, <1>11, <1>12, <2>1
<1>14. Diff(c) \in [sec : Int, nsec : Int] /\ Diff(c).nsec = e.sync.nsec - r
  BY <1>6, <1>7, <1>8
<1>15. Diff(c).nsec > -Second
  BY <1>5, <1>6, <1>7, <1>14
<1>16. e.offset <= Second => Diff(c).nsec <= Second
  BY <1>3, <1>5, <1>6, <1>7, <1>14
<1>17. e.due - Clock(c) <= e.offset + MaxSkew
  BY <1>5, <1>7, <1>9
<1> QED
  BY <1>13, <1>14, <1>15, <1>16, <1>17 DEF e

----------------------------------------------------------------------------
(* The types. *)

(* Numbers of the current state. *)
LEMMA Numbers ==
    ASSUME TypeOK, NEW c \in Clients
    PROVE  /\ now \in Nat /\ skew[c] \in Nat /\ skew[c] <= MaxSkew
           /\ skew[Server] \in Nat /\ skew[Server] <= MaxSkew
           /\ thread[c] \in Thread
           /\ thread[c].wake \in Nat
           /\ ran[c] \in Seq(Run)
<1>1. MaxSkew \in Nat /\ MaxTime \in Nat /\ Second \in Nat
  BY ClockAssumption
<1>2. thread[c] \in Thread /\ ran[c] \in Seq(Run)
  BY DEF TypeOK
<1>3. thread[c].wake \in Nat
  BY <1>1, <1>2 DEF Thread
<1>4. now \in Nat /\ skew[c] \in 0..MaxSkew /\ skew[Server] \in 0..MaxSkew
  BY DEF TypeOK
<1> QED
  BY <1>1, <1>2, <1>3, <1>4

(* The event that is sent. *)
LEMMA SentEvent ==
    ASSUME TypeOK, NEW offset \in Offsets, SendEvent(offset)
    PROVE  \E e \in SyncEvent :
              /\ e.sync.nsec <= IF e.offset <= Second THEN Second ELSE e.offset
              /\ EventDue(e)
              /\ Len(events') = Len(events) + 1
              /\ events' \in Seq(SyncEvent)
              /\ \A i \in 1..Len(events) : events'[i] = events[i]
              /\ events'[Len(events) + 1] = e
<1> DEFINE time == Clock(Server)
           s == SyncCalculate(time, offset)
           e == [sync |-> s, offset |-> offset, due |-> time + offset]
<1>1. /\ time \in Nat /\ offset \in Nat /\ MaxTime \in Nat
      /\ time + offset <= MaxTime
  <2>1. now \in Nat /\ skew[Server] \in 0..MaxSkew /\ MaxSkew \in Nat /\ MaxTime \in Nat
    BY ClockAssumption DEF TypeOK
  <2>2. offset \in Nat
    BY ClockAssumption
  <2>3. now + MaxSkew + offset < MaxTime
    BY DEF SendEvent
  <2> QED
    BY <2>1, <2>2, <2>3 DEF Clock
<1>2. /\ s \in [sec : Nat, nsec : Nat]
      /\ Total(s) = time + offset
      /\ s.nsec <= IF offset <= Second THEN Second ELSE offset
  BY <1>1, SyncTotal
<1>3. events' = Append(events, e) /\ events \in Seq(SyncEvent)
  BY DEF SendEvent, TypeOK
<1> HIDE DEF s, time
<1>4. s.sec <= MaxTime
  <2>1. s.sec \in Nat /\ s.nsec \in Nat
    BY <1>2
  <2>2. s.sec * Second >= s.sec /\ s.sec * Second \in Int
    BY <2>1, Seconds
  <2>3. s.sec * Second + s.nsec = time + offset
    BY <1>2 DEF Total
  <2> HIDE DEF s
  <2> QED
    BY <1>1, <2>1, <2>2, <2>3
<1>5. e \in SyncEvent
  BY <1>1, <1>2, <1>4 DEF SyncEvent
<1>6. EventDue(e)
  BY <1>1, <1>2 DEF EventDue, time
<1>7. e.sync.nsec <= IF e.offset <= Second THEN Second ELSE e.offset
  BY <1>2
<1> HIDE DEF e
<1>8. /\ Len(events') = Len(events) + 1
      /\ events' \in Seq(SyncEvent)
      /\ \A i \in 1..Len(events) : events'[i] = events[i]
      /\ events'[Len(events) + 1] = e
  BY <1>3, <1>5
<1> QED
  BY <1>5, <1>6, <1>7, <1>8

(* Every step keeps the types. *)
LEMMA NextTyping ==
    ASSUME TypeOK, Timely, [Next]_vars
    PROVE  TypeOK'
<1>0. now \in Nat /\ MaxTime \in Nat /\ MaxSkew \in Nat /\ Second \in Nat /\ Second > 0
  BY ClockAssumption DEF TypeOK
<1>1. CASE Tick
  <2>1. now' \in 0..MaxTime
    BY <1>0, <1>1 DEF Tick, TypeOK
  <2> QED
    BY <1>1, <2>1 DEF Tick, TypeOK
<1>2. ASSUME NEW offset \in Offsets, SendEvent(offset)
      PROVE  TypeOK'
  <2>1. PICK e \in SyncEvent :
           /\ e.sync.nsec <= IF e.offset <= Second THEN Second ELSE e.offset
           /\ Len(events') = Len(events) + 1
           /\ events' \in Seq(SyncEvent)
           /\ \A i \in 1..Len(events) : events'[i] = events[i]
           /\ events'[Len(events) + 1] = e
    BY <1>2, SentEvent
  <2>2. /\ events \in Seq(SyncEvent)
        /\ DOMAIN events = 1..Len(events)
        /\ DOMAIN events' = 1..Len(events')
        /\ Len(events) \in Nat
    BY <2>1 DEF TypeOK
  <2>3. ASSUME NEW i \in DOMAIN events'
        PROVE  events'[i].sync.nsec <=
                  IF events'[i].offset <= Second THEN Second ELSE events'[i].offset
    <3>1. CASE i = Len(events) + 1
      BY <2>1, <3>1
    <3>2. CASE i # Len(events) + 1
      <4>1. i \in DOMAIN events /\ events'[i] = events[i]
        BY <2>1, <2>2, <2>3, <3>2
      <4> QED
        BY <4>1 DEF TypeOK
    <3> QED
      BY <3>1, <3>2
  <2> QED
    BY <1>2, <2>1, <2>3 DEF SendEvent, TypeOK
<1>3. ASSUME NEW c \in Clients, Receive(c)
      PROVE  TypeOK'
  <2> DEFINE n == Len(ran[c]) + 1
             t == [pc |-> "wait", event |-> n, since |-> now, wake |-> now]
             r == [began |-> Clock(c), at |-> -1]
  <2>1. ran[c] \in Seq(Run) /\ skew[c] \in 0..MaxSkew /\ n \in Nat /\ now \in 0..MaxTime
    BY DEF TypeOK
  <2>2. Clock(c) \in 0..MaxTime + MaxSkew /\ -1 \in -1..MaxTime + MaxSkew
    BY <1>0, <2>1 DEF Clock
  <2>3. r \in Run
    BY <2>2 DEF Run
  <2>4. now \in 0..MaxTime + 2 * Second
    BY <1>0, <2>1
  <2>5. t \in Thread
    BY <2>1, <2>4 DEF Thread
  <2>6. thread' = [thread EXCEPT ![c] = t] /\ ran' = [ran EXCEPT ![c] = Append(ran[c], r)]
    BY <1>3 DEF Receive
  <2> HIDE DEF r, t, n
  <2>7. Append(ran[c], r) \in Seq(Run)
    BY <2>1, <2>3
  <2> QED
    BY <1>3, <2>5, <2>6, <2>7 DEF Receive, TypeOK
<1>4. ASSUME NEW c \in Clients, RunCallback(c)
      PROVE  TypeOK'
  <2> DEFINE n == thread[c].event
             s == [ran[c] EXCEPT ![n].at = Clock(c)]
  <2>1. ran[c] \in Seq(Run) /\ skew[c] \in 0..MaxSkew /\ now \in 0..MaxTime /\ thread[c] \in Thread
    BY DEF TypeOK
  <2>2. Clock(c) \in -1..MaxTime + MaxSkew
    BY <1>0, <2>1 DEF Clock
  <2>3. \A r \in Run : [r EXCEPT !.at = Clock(c)] \in Run
    BY <2>2 DEF Run
  <2>4. s \in Seq(Run)
    <3>1. s = [ran[c] EXCEPT ![n] = [ran[c][n] EXCEPT !.at = Clock(c)]]
      OBVIOUS
    <3>2. CASE n \in DOMAIN ran[c]
      <4>1. [ran[c][n] EXCEPT !.at = Clock(c)] \in Run /\ n \in 1..Len(ran[c])
        BY <2>1, <2>3, <3>2
      <4> QED
        BY <2>1, <3>1, <4>1
    <3>3. CASE n \notin DOMAIN ran[c]
      <4>1. s = ran[c]
        BY <2>1, <3>1, <3>3
      <4> QED
        BY <2>1, <4>1
    <3> QED
      BY <3>2, <3>3
  <2>5. [thread[c] EXCEPT !.pc = "callback"] \in Thread
    BY <2>1 DEF Thread
  <2>6. /\ ran' = [ran EXCEPT ![c] = s]
        /\ thread' = [thread EXCEPT ![c] = [thread[c] EXCEPT !.pc = "callback"]]
    BY <1>4 DEF RunCallback
  <2> HIDE DEF s
  <2> QED
    BY <1>4, <2>4, <2>5, <2>6 DEF RunCallback, TypeOK
<1>5. ASSUME NEW c \in Clients, Sleep(c)
      PROVE  TypeOK'
  <2> DEFINE d == Borrow(Diff(c))
             sleeps == (d.sec > 0 \/ d.nsec > Spin) /\ d.nsec < Second
             wake == now + IF sleeps THEN d.sec * Second + d.nsec ELSE 1
  <2>1. wake \in 0..MaxTime + 2 * Second
    <3>1. ~Passed(Diff(c)) /\ thread[c].pc = "wait"
      BY <1>5 DEF Sleep
    <3>2. Total(d) \in Nat /\ (d.nsec < Second => Total(d) < 2 * Second)
      BY <3>1, DiffDue, SleepLength
    <3>3. now \in 0..MaxTime
      BY DEF TypeOK
    <3>4. wake = now + IF sleeps THEN Total(d) ELSE 1
      BY DEF Total
    <3> QED
      BY <1>0, <3>2, <3>3, <3>4
  <2>2. thread' = [thread EXCEPT ![c] = [thread[c] EXCEPT !.since = now, !.wake = wake]]
    BY <1>5 DEF Sleep, TypeOK
  <2>3. thread[c] \in Thread /\ now \in 0..MaxTime
    BY DEF TypeOK
  <2> HIDE DEF wake
  <2>4. [thread[c] EXCEPT !.since = now, !.wake = wake] \in Thread
    BY <2>1, <2>3 DEF Thread
  <2> QED
    BY <1>5, <2>2, <2>4 DEF Sleep, TypeOK
<1>6. ASSUME NEW c \in Clients, Interrupt(c)
      PROVE  TypeOK'
  <2>1. thread[c] \in Thread /\ now \in 0..MaxTime + 2 * Second
    BY <1>0 DEF TypeOK
  <2>2. [thread[c] EXCEPT !.wake = now] \in Thread
    BY <2>1 DEF Thread
  <2> QED
    BY <1>6, <2>2 DEF Interrupt, TypeOK
<1>7. ASSUME NEW c \in Clients, EndCallback(c)
      PROVE  TypeOK'
  <2>1. [pc |-> "recv", event |-> 0, since |-> 0, wake |-> 0] \in Thread
    BY <1>0 DEF Thread
  <2> QED
    BY <1>7, <2>1 DEF EndCallback, TypeOK
<1>8. CASE UNCHANGED vars
  BY <1>8 DEF vars, TypeOK
<1> QED
  BY <1>1, <1>2, <1>3, <1>4, <1>5, <1>6, <1>7, <1>8 DEF Next

----------------------------------------------------------------------------
(* Clients are on time. *)

(* The events a client has taken up are events that were sent. *)
LEMMA TakenUp ==
    ASSUME TypeOK, NEW c \in Clients, ClientTimely(c)
    PROVE  /\ \A i \in DOMAIN ran[c] : /\ i \in DOMAIN events
                                       /\ ran[c][i] \in Run
                                       /\ events[i] \in SyncEvent
           /\ DOMAIN ran[c] = 1..Len(ran[c])
           /\ DOMAIN events = 1..Len(events)
           /\ Len(ran[c]) \in Nat /\ Len(events) \in Nat
<1>1. ran[c] \in Seq(Run) /\ events \in Seq(SyncEvent)
  BY DEF TypeOK
<1>2. /\ DOMAIN ran[c] = 1..Len(ran[c])
      /\ DOMAIN events = 1..Len(events)
      /\ Len(ran[c]) \in Nat /\ Len(events) \in Nat
  BY <1>1
<1>3. Len(ran[c]) <= Len(events)
  BY DEF ClientTimely
<1>4. \A i \in DOMAIN ran[c] : i \in DOMAIN events
  BY <1>2, <1>3
<1> QED
  BY <1>1, <1>2, <1>4

(* Other steps than its own leave a client on time. *)
LEMMA OthersTimely ==
    ASSUME TypeOK, NEW c \in Clients, ClientTimely(c), UNCHANGED <<now, skew>>,
           thread'[c] = thread[c], ran'[c] = ran[c], Len(events) <= Len(events'),
           \A i \in DOMAIN events : i \in DOMAIN events' /\ events'[i] = events[i],
           Len(events') \in Nat
    PROVE  ClientTimely(c)'
<1>1. Len(ran'[c]) <= Len(events')
  BY TakenUp DEF ClientTimely
<1>2. \A i \in DOMAIN ran'[c] : ran'[c][i].at >= 0 => RanOnTime(c, i)'
  BY TakenUp DEF ClientTimely, RanOnTime
<1>3. thread'[c].pc = "wait" => WaitFor(c, thread[c].event)'
  BY DEF ClientTimely, WaitFor, Clock
<1> QED
  BY <1>1, <1>2, <1>3 DEF ClientTimely

(* A step of client c alone. *)
LEMMA OwnTimely ==
    ASSUME TypeOK, Timely, NEW c \in Clients, UNCHANGED <<now, skew, events>>,
           \A d \in Clients \ {c} : thread'[d] = thread[d] /\ ran'[d] = ran[d],
           ClientTimely(c)'
    PROVE  Timely'
<1>1. \A i \in DOMAIN events' : EventDue(events[i])'
  BY DEF Timely, EventDue, Clock
<1>2. Len(events) \in Nat
  BY DEF TypeOK
<1>3. ASSUME NEW d \in Clients \ {c}
      PROVE  ClientTimely(d)'
  BY <1>2, <1>3, OthersTimely DEF Timely
<1> QED
  BY <1>1, <1>3 DEF Timely

(* Time passes: whoever waits is asleep, hence not late. *)
LEMMA TickTimely ==
    ASSUME TypeOK, Timely, Tick
    PROVE  Timely'
<1>1. UNCHANGED <<skew, events, thread, ran>> /\ now' = now + 1
  BY DEF Tick
<1>2. ASSUME NEW i \in DOMAIN events'
      PROVE  EventDue(events[i])'
  <2>1. events[i] \in SyncEvent /\ EventDue(events[i])
    BY <1>1, <1>2 DEF TypeOK, Timely
  <2>2. now \in Nat /\ skew[Server] \in 0..MaxSkew /\ MaxSkew \in Nat
    BY ClockAssumption DEF TypeOK
  <2> QED
    BY <1>1, <2>1, <2>2, EventType DEF EventDue, Clock
<1>3. ASSUME NEW c \in Clients
      PROVE  ClientTimely(c)'
  <2>1. ClientTimely(c)
    BY DEF Timely
  <2>2. \A i \in DOMAIN ran'[c] : ran'[c][i].at >= 0 => RanOnTime(c, i)'
    BY <1>1, <2>1 DEF ClientTimely, RanOnTime
  <2>3. ASSUME thread'[c].pc = "wait"
        PROVE  WaitFor(c, thread[c].event)'
    <3>0. PICK n : n = thread[c].event
      OBVIOUS
    <3>1. WaitFor(c, n) /\ thread[c].wake > now
      BY <1>1, <2>1, <2>3, <3>0 DEF ClientTimely, Tick
    <3>2. ran[c][n] \in Run /\ events[n] \in SyncEvent
      BY <2>1, <3>1, TakenUp DEF WaitFor
    <3>3. ran[c][n].began \in Nat /\ events[n].due \in Nat
      BY <3>2, EventType, ClockAssumption DEF Run
    <3>4. now \in Nat /\ skew[c] \in Nat /\ thread[c].wake \in Nat
      BY Numbers
    <3>5. ran[c][n].began <= events[n].due
      BY <3>1, <3>3, <3>4 DEF WaitFor
    <3>6. ran[c][n].began <= (now + 1) + skew[c]
      BY <3>1, <3>3, <3>4 DEF WaitFor, Clock
    <3>7. thread[c].wake >= now + 1
      BY <3>1, <3>4
    <3>8. WaitFor(c, n)'
      BY <1>1, <3>1, <3>3, <3>4, <3>5, <3>6, <3>7 DEF WaitFor, Clock
    <3> QED
      BY <1>1, <3>0, <3>8
  <2> QED
    BY <1>1, <2>1, <2>2, <2>3 DEF ClientTimely
<1> QED
  BY <1>2, <1>3 DEF Timely

(* An event is sent. *)
LEMMA SendTimely ==
    ASSUME TypeOK, Timely, NEW offset \in Offsets, SendEvent(offset)
    PROVE  Timely'
<1>1. UNCHANGED <<now, skew, thread, ran>>
  BY DEF SendEvent
<1>2. PICK e \in SyncEvent :
         /\ EventDue(e)
         /\ Len(events') = Len(events) + 1
         /\ events' \in Seq(SyncEvent)
         /\ \A i \in 1..Len(events) : events'[i] = events[i]
         /\ events'[Len(events) + 1] = e
  BY SentEvent
<1>3. /\ DOMAIN events = 1..Len(events)
      /\ DOMAIN events' = 1..Len(events')
      /\ Len(events) \in Nat
  BY <1>2 DEF TypeOK
<1>4. ASSUME NEW i \in DOMAIN events'
      PROVE  EventDue(events[i])'
  <2>1. EventDue(events'[i])
    <3>1. CASE i = Len(events) + 1
      BY <1>2, <3>1
    <3>2. CASE i # Len(events) + 1
      BY <1>2, <1>3, <1>4, <3>2 DEF Timely
    <3> QED
      BY <3>1, <3>2
  <2> QED
    BY <1>1, <2>1 DEF EventDue, Clock
<1>5. /\ Len(events) <= Len(events') /\ Len(events') \in Nat
      /\ \A i \in DOMAIN events : i \in DOMAIN events' /\ events'[i] = events[i]
  BY <1>2, <1>3
<1>6. ASSUME NEW c \in Clients
      PROVE  ClientTimely(c)'
  BY <1>1, <1>5, OthersTimely DEF Timely
<1> QED
  BY <1>4, <1>6 DEF Timely

(* An event is taken up, in time or late. *)
LEMMA ReceiveTimely ==
    ASSUME TypeOK, Timely, NEW c \in Clients, Receive(c)
    PROVE  Timely'
<1>0. PICK n : n = Len(ran[c]) + 1
  OBVIOUS
<1> DEFINE r == [began |-> Clock(c), at |-> -1]
<1>1. /\ UNCHANGED <<now, skew, events>>
      /\ n <= Len(events)
      /\ thread' = [thread EXCEPT ![c] =
                      [pc |-> "wait", event |-> n, since |-> now, wake |-> now]]
      /\ ran' = [ran EXCEPT ![c] = Append(ran[c], r)]
  BY <1>0 DEF Receive
<1>2. ClientTimely(c)
  BY DEF Timely
<1>3. /\ DOMAIN ran[c] = 1..Len(ran[c])
      /\ DOMAIN events = 1..Len(events)
      /\ Len(ran[c]) \in Nat /\ Len(events) \in Nat
      /\ ran[c] \in Seq(Run)
  BY <1>2, TakenUp, Numbers
<1>4. /\ thread'[c].pc = "wait" /\ thread'[c].event = n /\ thread'[c].wake = now
      /\ ran'[c] = Append(ran[c], r)
      /\ \A d \in Clients \ {c} : thread'[d] = thread[d] /\ ran'[d] = ran[d]
  BY <1>1 DEF TypeOK
<1>5. r.began = Clock(c) /\ r.at = -1
  OBVIOUS
<1>6. now \in Nat /\ skew[c] \in Nat
  BY Numbers
<1> HIDE DEF r
<1>7. /\ Len(ran'[c]) = n /\ DOMAIN ran'[c] = 1..n
      /\ \A i \in 1..Len(ran[c]) : ran'[c][i] = ran[c][i]
      /\ ran'[c][n] = r
  BY <1>0, <1>3, <1>4
<1>8. n \in DOMAIN events /\ events[n].due \in Nat
  <2>1. n \in DOMAIN events
    BY <1>0, <1>1, <1>3
  <2>2. events[n] \in SyncEvent
    BY <2>1 DEF TypeOK
  <2> QED
    BY <2>1, <2>2, EventType
<1>9. WaitFor(c, n)'
  <2>1. ran'[c][n].began = Clock(c) /\ ran'[c][n].at = -1
    BY <1>5, <1>7
  <2>2. n \in DOMAIN ran'[c]
    BY <1>0, <1>3, <1>7
  <2>3. /\ thread'[c].wake = now /\ now' = now /\ skew' = skew /\ events' = events
        /\ Len(ran'[c]) = n
    BY <1>1, <1>4, <1>7
  <2>4. Clock(c)' = Clock(c) /\ Clock(c) \in Nat /\ Clock(c) = now + skew[c]
    BY <1>6, <2>3 DEF Clock
  <2> QED
    BY <1>6, <1>8, <2>1, <2>2, <2>3, <2>4 DEF WaitFor
<1>10. ASSUME NEW i \in DOMAIN ran'[c], ran'[c][i].at >= 0
       PROVE  RanOnTime(c, i)'
  <2>1. i \in DOMAIN ran[c] /\ ran'[c][i] = ran[c][i]
    BY <1>0, <1>3, <1>5, <1>7, <1>10
  <2> QED
    BY <1>1, <1>2, <1>10, <2>1 DEF ClientTimely, RanOnTime
<1>11. ClientTimely(c)'
  BY <1>1, <1>4, <1>7, <1>9, <1>10 DEF ClientTimely
<1> QED
  BY <1>1, <1>4, <1>11, OwnTimely

(* The callback runs: not before the event is due if the offset and the skew
   are at most a second, and not later than it was to wake up. *)
LEMMA RunTimely ==
    ASSUME TypeOK, Timely, NEW c \in Clients, RunCallback(c)
    PROVE  Timely'
<1>0. PICK n, e : n = thread[c].event /\ e = events[n]
  OBVIOUS
<1>1. /\ UNCHANGED <<now, skew, events>>
      /\ thread' = [thread EXCEPT ![c].pc = "callback"]
      /\ ran' = [ran EXCEPT ![c] = [ran[c] EXCEPT ![n].at = Clock(c)]]
      /\ thread[c].pc = "wait" /\ thread[c].wake <= now /\ Passed(Diff(c))
  BY <1>0 DEF RunCallback
<1>2. ClientTimely(c) /\ WaitFor(c, n)
  BY <1>0, <1>1 DEF Timely, ClientTimely
<1>3. /\ n \in DOMAIN ran[c]
      /\ ran[c] \in Seq(Run) /\ ran[c][n] \in Run
      /\ e \in SyncEvent
      /\ thread[c] \in Thread
  BY <1>0, <1>2, TakenUp, Numbers DEF WaitFor
<1>4. /\ thread'[c].pc = "callback"
      /\ ran'[c] = [ran[c] EXCEPT ![n].at = Clock(c)]
      /\ \A d \in Clients \ {c} : thread'[d] = thread[d] /\ ran'[d] = ran[d]
  BY <1>1, <1>3 DEF TypeOK, Thread
<1>5. /\ DOMAIN ran'[c] = DOMAIN ran[c] /\ Len(ran'[c]) = Len(ran[c])
      /\ \A i \in DOMAIN ran[c] \ {n} : ran'[c][i] = ran[c][i]
      /\ ran'[c][n] = [ran[c][n] EXCEPT !.at = Clock(c)]
  BY <1>3, <1>4
<1>6. ran'[c][n].at = Clock(c) /\ ran'[c][n].began = ran[c][n].began
  BY <1>3, <1>5 DEF Run
<1>7. /\ now \in Nat /\ skew[c] \in Nat /\ thread[c].wake \in Nat
      /\ Clock(c) = now + skew[c]
      /\ e.due \in Nat /\ e.offset \in Nat /\ MaxSkew \in Nat /\ Second \in Nat
  BY <1>3, Numbers, EventType, ClockAssumption DEF Clock
<1>8. ran[c][n].began \in Nat
  BY <1>3, ClockAssumption DEF Run
<1>9. e.offset + MaxSkew <= Second => Clock(c) >= e.due
  <2>1. /\ Diff(c) \in [sec : Int, nsec : Int]
        /\ Diff(c).nsec > -Second
        /\ Total(Diff(c)) = e.due - Clock(c)
        /\ e.offset <= Second => Diff(c).nsec <= Second
        /\ e.due - Clock(c) <= e.offset + MaxSkew
    BY <1>0, <1>1, DiffDue
  <2>2. ASSUME e.offset + MaxSkew <= Second
        PROVE  Clock(c) >= e.due
    <3>1. e.offset <= Second /\ e.due - Clock(c) <= Second
      BY <1>7, <2>1, <2>2
    <3>2. Total(Diff(c)) <= 0
      BY <1>1, <2>1, <3>1, PassedDue
    <3> QED
      BY <1>7, <2>1, <3>2
  <2> QED
    BY <2>2
<1>10. RanOnTime(c, n)'
  <2>1. /\ ran[c][n].began > e.due => Clock(c) = ran[c][n].began
        /\ ran[c][n].began <= e.due => thread[c].wake + skew[c] <= e.due + 1
        /\ thread[c].wake >= now
    BY <1>0, <1>2 DEF WaitFor
  <2>2. ran[c][n].began <= e.due => Clock(c) <= e.due + 1
    BY <1>1, <1>7, <2>1
  <2>3. events'[n] = e
    BY <1>0, <1>1
  <2> QED
    BY <1>6, <1>9, <2>1, <2>2, <2>3 DEF RanOnTime
<1>11. ASSUME NEW i \in DOMAIN ran'[c], ran'[c][i].at >= 0
       PROVE  RanOnTime(c, i)'
  <2>1. CASE i = n
    BY <1>10, <2>1
  <2>2. CASE i # n
    BY <1>1, <1>2, <1>5, <1>11, <2>2 DEF ClientTimely, RanOnTime
  <2> QED
    BY <2>1, <2>2
<1>12. ClientTimely(c)'
  BY <1>1, <1>2, <1>4, <1>5, <1>11 DEF ClientTimely
<1> QED
  BY <1>1, <1>4, <1>12, OwnTimely

(* It sleeps again, until the event is due or for a tick. *)
LEMMA SleepTimely ==
    ASSUME TypeOK, Timely, NEW c \in Clients, Sleep(c)
    PROVE  Timely'
<1>0. PICK n, e : n = thread[c].event /\ e = events[n]
  OBVIOUS
<1> DEFINE d == Borrow(Diff(c))
           sleeps == (d.sec > 0 \/ d.nsec > Spin) /\ d.nsec < Second
           wake == now + IF sleeps THEN d.sec * Second + d.nsec ELSE 1
<1>1. /\ UNCHANGED <<now, skew, events, ran>>
      /\ thread[c].pc = "wait" /\ ~Passed(Diff(c))
      /\ thread' = [thread EXCEPT ![c] = [thread[c] EXCEPT !.since = now, !.wake = wake]]
  BY DEF Sleep, TypeOK
<1>2. ClientTimely(c) /\ WaitFor(c, n)
  BY <1>0, <1>1 DEF Timely, ClientTimely
<1>3. thread[c] \in Thread /\ ran[c][n] \in Run /\ e \in SyncEvent
  BY <1>0, <1>2, TakenUp, Numbers DEF WaitFor
<1>4. /\ now \in Nat /\ skew[c] \in Nat /\ Clock(c) = now + skew[c]
      /\ e.due \in Nat
  BY <1>3, Numbers, EventType DEF Clock
<1>5. ran[c][n].began \in Nat
  BY <1>3, ClockAssumption DEF Run
<1>6. Total(d) = e.due - Clock(c) /\ Total(d) \in Nat
  BY <1>0, <1>1, DiffDue, SleepLength
<1>7. wake = now + IF sleeps THEN Total(d) ELSE 1
  BY DEF Total
<1> HIDE DEF sleeps, wake, d
<1>8. /\ thread'[c].pc = "wait" /\ thread'[c].event = n /\ thread'[c].wake = wake
      /\ \A k \in Clients \ {c} : thread'[k] = thread[k] /\ ran'[k] = ran[k]
  BY <1>0, <1>1, <1>3 DEF TypeOK, Thread
<1>9. wake + skew[c] <= e.due + 1 /\ wake >= now /\ Clock(c) <= e.due
  BY <1>4, <1>6, <1>7
<1>10. ran[c][n].began <= e.due
  BY <1>0, <1>2, <1>4, <1>5, <1>9 DEF WaitFor
<1>11. WaitFor(c, n)'
  BY <1>0, <1>1, <1>2, <1>4, <1>5, <1>8, <1>9, <1>10 DEF WaitFor, Clock
<1>12. ClientTimely(c)'
  BY <1>1, <1>2, <1>8, <1>11 DEF ClientTimely, RanOnTime
<1> QED
  BY <1>1, <1>8, <1>12, OwnTimely

(* A signal only shortens the sleep. *)
LEMMA InterruptTimely ==
    ASSUME TypeOK, Timely, NEW c \in Clients, Interrupt(c)
    PROVE  Timely'
<1>0. PICK n : n = thread[c].event
  OBVIOUS
<1>1. /\ UNCHANGED <<now, skew, events, ran>>
      /\ thread[c].pc = "wait" /\ thread[c].wake > now
      /\ thread' = [thread EXCEPT ![c].wake = now]
  BY DEF Interrupt
<1>2. ClientTimely(c) /\ WaitFor(c, n)
  BY <1>0, <1>1 DEF Timely, ClientTimely
<1>3. /\ thread[c] \in Thread /\ events[n] \in SyncEvent
      /\ now \in Nat /\ skew[c] \in Nat /\ thread[c].wake \in Nat
  BY <1>0, <1>2, TakenUp, Numbers DEF WaitFor
<1>4. /\ thread'[c].pc = "wait" /\ thread'[c].event = n /\ thread'[c].wake = now
      /\ \A k \in Clients \ {c} : thread'[k] = thread[k] /\ ran'[k] = ran[k]
  BY <1>0, <1>1, <1>3 DEF TypeOK, Thread
<1>5. events[n].due \in Nat
  BY <1>3, EventType
<1>6. WaitFor(c, n)'
  <2>1. ~(ran[c][n].began > events[n].due)
    BY <1>1, <1>2, <1>3 DEF WaitFor
  <2>2. ran[c][n].began <= events[n].due => now + skew[c] <= events[n].due + 1
    BY <1>1, <1>2, <1>3, <1>5, SMTT(30) DEF WaitFor
  <2> QED
    BY <1>1, <1>2, <1>3, <1>4, <2>1, <2>2 DEF WaitFor, Clock
<1>7. ClientTimely(c)'
  BY <1>1, <1>2, <1>4, <1>6 DEF ClientTimely, RanOnTime
<1> QED
  BY <1>1, <1>4, <1>7, OwnTimely

(* Every step keeps clients on time. *)
LEMMA NextTimely ==
    ASSUME TypeOK, Timely, [Next]_vars
    PROVE  Timely'
<1>1. ASSUME NEW c \in Clients, EndCallback(c)
      PROVE  Timely'
  <2>1. /\ UNCHANGED <<now, skew, events, ran>>
        /\ thread'[c].pc = "recv"
        /\ \A d \in Clients \ {c} : thread'[d] = thread[d] /\ ran'[d] = ran[d]
    BY <1>1 DEF EndCallback, TypeOK
  <2>2. ClientTimely(c)
    BY DEF Timely
  <2>3. ClientTimely(c)'
    BY <2>1, <2>2 DEF ClientTimely, RanOnTime
  <2> QED
    BY <2>1, <2>3, OwnTimely
<1>2. CASE UNCHANGED vars
  BY <1>2 DEF vars, Timely, EventDue, ClientTimely, WaitFor, RanOnTime, Clock
<1> QED
  BY <1>1, <1>2, TickTimely, SendTimely, ReceiveTimely, RunTimely, SleepTimely,
     InterruptTimely DEF Next

----------------------------------------------------------------------------
(* Nothing is sent or taken up yet. *)
LEMMA InitTimely == Init => TypeOK /\ Timely
<1> SUFFICES ASSUME Init PROVE TypeOK /\ Timely
  OBVIOUS
<1>1. /\ Second \in Nat /\ MaxTime \in Nat /\ 0 \in 0..MaxTime
      /\ 0 \in 0..MaxTime + 2 * Second
  BY ClockAssumption
<1>2. << >> \in Seq(SyncEvent) /\ << >> \in Seq(Run)
  OBVIOUS
<1>3. [pc |-> "recv", event |-> 0, since |-> 0, wake |-> 0] \in Thread
  BY <1>1 DEF Thread
<1>4. TypeOK
  BY <1>1, <1>2, <1>3 DEF Init, TypeOK
<1>5. Timely
  BY DEF Init, Timely, ClientTimely
<1> QED
  BY <1>4, <1>5

(* All variables have their types, for clocks of any skew and offsets of any
   length: the sleep is never longer than two seconds. *)
THEOREM TypeCorrect == Spec => []TypeOK
<1>1. TypeOK /\ Timely /\ [Next]_vars => TypeOK' /\ Timely'
  BY NextTyping, NextTimely
<1> QED
  BY <1>1, InitTimely, PTL DEF Spec

(* Clients that take up an event before it is due run its callback no more
   than the difference of their clocks and a tick apart, and a late one at
   once: for any number of clients and events, however often signals
   interrupt their sleep (syncs_sync_calculate, syncs_wait_sync).  The
   invariant: whoever waits wakes up at most a tick after the event is due. *)
THEOREM CallbacksOnTime == Spec => []OnTime
<1>1. TypeOK /\ Timely /\ [Next]_vars => TypeOK' /\ Timely'
  BY NextTyping, NextTimely
<1>2. ASSUME TypeOK, Timely
      PROVE  OnTime
  <2>1. ASSUME NEW i \in DOMAIN events, NEW c \in Clients, i \in DOMAIN ran[c],
               ran[c][i].at >= 0
        PROVE  RanOnTime(c, i)
    BY <1>2, <2>1 DEF Timely, ClientTimely
  <2>2. ASSUME NEW i \in DOMAIN events, NEW c \in Clients, i \in DOMAIN ran[c]
        PROVE  /\ ran[c][i].at \in Int /\ skew[c] \in Nat /\ skew[c] <= MaxSkew
               /\ events[i].due \in Nat
    <3>1. ran[c][i] \in Run /\ events[i] \in SyncEvent
      BY <1>2, <2>2, TakenUp DEF Timely
    <3>2. ran[c][i].at \in Int
      BY <3>1, ClockAssumption DEF Run
    <3> QED
      BY <1>2, <3>1, <3>2, Numbers, EventType
  <2>3. ASSUME NEW i \in DOMAIN events, NEW c \in Clients, NEW d \in Clients,
               InTime(c, i), InTime(d, i), events[i].offset + MaxSkew <= Second
        PROVE  (ran[c][i].at - skew[c]) - (ran[d][i].at - skew[d]) <= MaxSkew + 1
    <3>1. ran[c][i].at <= events[i].due + 1 /\ ran[d][i].at >= events[i].due
      BY <2>1, <2>3 DEF InTime, RanOnTime
    <3>2. /\ ran[c][i].at \in Int /\ skew[c] \in Nat /\ events[i].due \in Nat
          /\ ran[d][i].at \in Int /\ skew[d] \in Nat /\ skew[d] <= MaxSkew
          /\ MaxSkew \in Nat
      BY <2>2, <2>3, ClockAssumption DEF InTime
    <3> QED
      BY <3>1, <3>2
  <2> QED
    BY <2>1, <2>3 DEF OnTime, InTime, RanOnTime
<1> QED
  BY <1>1, <1>2, InitTimely, PTL DEF Spec
=============================================================================
