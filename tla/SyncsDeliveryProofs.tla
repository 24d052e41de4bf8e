------------------------ MODULE SyncsDeliveryProofs ------------------------
(***************************************************************************)
(* Proofs about SyncsDelivery: subscribers know the current value of what  *)
(* they have subscribed to.                                                *)
(***************************************************************************)
EXTENDS SyncsDelivery, SyncsBrokerProofs

(* UpToDate also while a callback runs: of the event whose write is to be
   finished, its writer knows the value, the others need not know it yet. *)
Told ==
    \A e \in LiveEvents : \A c \in events[e].consumers :
        (/\ events[e].update_counter > 0
         /\ writing # NoWrite /\ writing.slot = e => c = events[e].producer)
        => seen[c][events[e].id] = Content(events[e])

(* A step sends no event, or one event as it is after the step. *)
Sends ==
    \/ EventPackets' = {}
    \/ \E e \in EvSlots, S \in SUBSET ClSlots, lost \in BOOLEAN :
          EventPackets' = EventsTo(S, events'[e].id, Content(events'[e]), lost)

----------------------------------------------------------------------------
(* What a step shows to a client. *)

(* No client is shown anything but the value that the event has after the
   step. *)
LEMMA ShownCurrent ==
    ASSUME NEW n, EventNamesUnique', Sends, NEW c, NEW f \in LiveEvents'
    PROVE  Shown(c, events'[f].id, n) \subseteq {Content(events'[f])}
<1>1. f \in EvSlots /\ events'[f].id # NoId
  BY DEF LiveEvents
<1>2. \A e \in EvSlots : events'[e].id = events'[f].id => e = f
  BY <1>1 DEF EventNamesUnique, LiveEvents
<1>3. \A p \in EventPackets' : p.id = events'[f].id => p.data = Content(events'[f])
  BY <1>1, <1>2 DEF Sends, EventsTo
<1> QED
  BY <1>1, <1>2, <1>3 DEF Shown

(* So a client that was shown a value has seen the current one ... *)
LEMMA ShownSeen ==
    ASSUME NEW n, TypeOK', EventNamesUnique', Sends, SeenWith(n), NEW c \in ClSlots,
           NEW f \in LiveEvents', ~Connected(c), Shown(c, events'[f].id, n) # {}
    PROVE  seen'[c][events'[f].id] = Content(events'[f])
<1> DEFINE id == events'[f].id
<1>1. id \in EventIds
  BY DEF LiveEvents, TypeOK, Event
<1>2. Shown(c, id, n) = {Content(events'[f])}
  BY ShownCurrent
<1>3. seen'[c][id] = CHOOSE d \in Shown(c, id, n) : TRUE
  BY <1>1 DEF SeenWith
<1> QED
  BY <1>2, <1>3

(* ... and one that had seen it before still has. *)
LEMMA SeenKept ==
    ASSUME NEW n, TypeOK', EventNamesUnique', Sends, SeenWith(n), NEW c \in ClSlots,
           NEW f \in LiveEvents', ~Connected(c),
           seen[c][events'[f].id] = Content(events'[f])
    PROVE  seen'[c][events'[f].id] = Content(events'[f])
<1> DEFINE id == events'[f].id
<1>1. id \in EventIds
  BY DEF LiveEvents, TypeOK, Event
<1>2. CASE Shown(c, id, n) # {}
  BY <1>2, ShownSeen
<1>3. CASE Shown(c, id, n) = {}
  BY <1>1, <1>3 DEF SeenWith
<1> QED
  BY <1>2, <1>3

(* An event packet shows its value to whom it is sent. *)
LEMMA SentShown ==
    ASSUME NEW n, NEW S \in SUBSET ClSlots, NEW id, NEW d, NEW lost,
           EventPackets' = EventsTo(S, id, d, lost), NEW c \in S
    PROVE  Shown(c, id, n) # {}
<1> DEFINE p == [to |-> c, type |-> "EVENT", id |-> id, data |-> d, lost |-> lost]
<1>1. p \in EventPackets'
  BY DEF EventsTo
<1>2. p.to = c /\ p.id = id
  OBVIOUS
<1> HIDE DEF p
<1>3. p.data \in Shown(c, id, n)
  BY <1>1, <1>2 DEF Shown
<1> QED
  BY <1>3

----------------------------------------------------------------------------
(* Steps that send nothing. *)

(* The slot holds the event it held, with the same value; it may have lost
   consumers. *)
SameEvent(f) ==
    /\ events'[f].id = events[f].id
    /\ Content(events'[f]) = Content(events[f])
    /\ events'[f].update_counter = events[f].update_counter
    /\ events'[f].producer = events[f].producer
    /\ events'[f].consumers \subseteq events[f].consumers

(* The slot holds an event nobody has written to, or nobody subscribed to. *)
NewEvent(f) == events'[f].update_counter = 0 \/ events'[f].consumers = {}

(* A consumer of an event that is as it was knows what it knew. *)
LEMMA SameTold ==
    ASSUME NEW n, TypeOK, TypeOK', EventNamesUnique', ConsumersAsked, Told, Sends, SeenWith(n),
           NEW f \in LiveEvents', SameEvent(f), NEW c \in events'[f].consumers,
           events'[f].update_counter > 0,
           writing # NoWrite /\ writing.slot = f => c = events[f].producer
    PROVE  seen'[c][events'[f].id] = Content(events'[f])
<1>1. f \in LiveEvents /\ c \in events[f].consumers
  BY DEF LiveEvents, SameEvent
<1>2. c \in ClSlots
  BY <1>1 DEF LiveEvents, TypeOK, Event
<1>3. ~Connected(c)
  BY <1>1 DEF ConsumersAsked, Connected
<1>4. seen[c][events'[f].id] = Content(events'[f])
  BY <1>1 DEF Told, SameEvent
<1> QED
  BY <1>2, <1>3, <1>4, SeenKept

(* Nothing is sent, and every event is as it was or new. *)
LEMMA QuietTold ==
    ASSUME NEW n, TypeOK, TypeOK', EventNamesUnique', ConsumersAsked, Told, SeenWith(n),
           UNCHANGED writing, EventPackets' = {},
           \A f \in LiveEvents' : SameEvent(f) \/ NewEvent(f)
    PROVE  Told'
<1>1. ASSUME NEW f \in LiveEvents', NEW c \in events'[f].consumers,
             events'[f].update_counter > 0,
             writing' # NoWrite /\ writing'.slot = f => c = events'[f].producer
      PROVE  seen'[c][events'[f].id] = Content(events'[f])
  <2>1. SameEvent(f)
    BY <1>1 DEF NewEvent
  <2>2. writing # NoWrite /\ writing.slot = f => c = events[f].producer
    BY <1>1, <2>1 DEF SameEvent
  <2> QED
    BY <1>1, <2>1, <2>2, SameTold DEF Sends
<1> QED
  BY <1>1 DEF Told

(* Packets that are no events. *)
LEMMA NoEventPackets ==
    ASSUME \/ out' = {}
           \/ \E c, code : out' = {Status(c, code)}
           \/ \E a : out' = {[addr |-> a, type |-> "SERVER_STATUS", code |-> 2]}
           \/ \E c, id, d, t : out' = ReadReply(c, id, d, t)
           \/ \E c, listed : out' = ToOpen({[to |-> c, type |-> "LIST", listed |-> listed]})
           \/ \E c, H : out' = ToOpen({[to |-> c, type |-> "EMPTY", ip |-> channels[h].ip,
                                       port |-> channels[h].port] : h \in H})
    PROVE  EventPackets' = {}
<1>1. \A p \in out' : p.type # "EVENT"
  BY DEF Status, ReadReply, ToOpen
<1> QED
  BY <1>1 DEF EventPackets

(* Events are sent to the open connections among those they are meant for. *)
LEMMA SentPackets ==
    ASSUME NEW S \in SUBSET ClSlots, NEW id, NEW d, NEW lost,
           out' = ToOpen(EventsTo(S, id, d, lost))
    PROVE  EventPackets' = EventsTo({c \in S : Open(c)}, id, d, lost)
<1> DEFINE P(c) == [to |-> c, type |-> "EVENT", id |-> id, data |-> d, lost |-> lost]
<1>1. \A c \in S : P(c).to = c /\ P(c).type = "EVENT"
  OBVIOUS
<1>2. EventsTo(S, id, d, lost) = {P(c) : c \in S}
  BY DEF EventsTo
<1>3. EventsTo({c \in S : Open(c)}, id, d, lost) = {P(c) : c \in {k \in S : Open(k)}}
  BY DEF EventsTo
<1> HIDE DEF P
<1>4. out' = {P(c) : c \in {k \in S : Open(k)}}
  BY <1>1, <1>2 DEF ToOpen, Open
<1> QED
  BY <1>1, <1>3, <1>4 DEF EventPackets

----------------------------------------------------------------------------
(* Steps that send an event. *)

(* Every consumer of the event in slot e is among T, was shown it, knew it, or
   is to be told after the callback. *)
Reached(e, T, n) ==
    e \in LiveEvents' /\ events'[e].update_counter > 0 =>
        \A c \in events'[e].consumers :
            \/ c \in T
            \/ Shown(c, events'[e].id, n) # {}
            \/ seen[c][events'[e].id] = Content(events'[e])
            \/ writing' # NoWrite /\ writing'.slot = e /\ c # events'[e].producer

(* The event in slot e is sent to T as it is after the step, so that every
   consumer of it is reached.  The other events stay. *)
LEMMA SentTold ==
    ASSUME NEW n, TypeOK, TypeOK', EventNamesUnique', ConsumersAsked, ConsumersAsked', Told,
           SeenWith(n), UNCHANGED clients,
           NEW e \in EvSlots, NEW T \in SUBSET ClSlots, NEW lost \in BOOLEAN,
           out' = ToOpen(EventsTo(T, events'[e].id, Content(events'[e]), lost)),
           \A f \in EvSlots \ {e} : events'[f] = events[f],
           writing # NoWrite => writing' = writing \/ writing.slot = e,
           Reached(e, T, n)
    PROVE  Told'
<1> DEFINE U == {c \in T : Open(c)}
<1>1. EventPackets' = EventsTo(U, events'[e].id, Content(events'[e]), lost)
  BY SentPackets
<1>2. U \in SUBSET ClSlots /\ \A c \in U : c \in T
  OBVIOUS
<1>3. \A c \in T : Open(c) => c \in U
  OBVIOUS
<1> HIDE DEF U
<1>4. Sends
  BY <1>1, <1>2 DEF Sends
<1>5. ASSUME NEW f \in LiveEvents', NEW c \in events'[f].consumers,
             events'[f].update_counter > 0,
             writing' # NoWrite /\ writing'.slot = f => c = events'[f].producer
      PROVE  seen'[c][events'[f].id] = Content(events'[f])
  <2>1. f \in EvSlots /\ c \in ClSlots
    BY <1>5 DEF LiveEvents, TypeOK, Event
  <2>2. Open(c) /\ ~Connected(c)
    BY <1>5 DEF ConsumersAsked, Open, Connected
  <2>3. CASE f # e
    <3>1. SameEvent(f)
      BY <2>1, <2>3 DEF SameEvent
    <3>2. writing # NoWrite /\ writing.slot = f => c = events[f].producer
      BY <1>5, <2>1, <2>3
    <3> QED
      BY <1>4, <1>5, <3>1, <3>2, SameTold
  <2>4. CASE f = e
    <3>1. CASE c \in T
      <4>1. c \in U
        BY <1>3, <2>2, <3>1
      <4>2. Shown(c, events'[e].id, n) # {}
        BY <1>1, <1>2, <4>1, SentShown
      <4> QED
        BY <1>4, <1>5, <2>1, <2>2, <2>4, <4>2, ShownSeen
    <3>2. CASE Shown(c, events'[e].id, n) # {}
      BY <1>4, <1>5, <2>1, <2>2, <2>4, <3>2, ShownSeen
    <3>3. CASE seen[c][events'[e].id] = Content(events'[e])
      BY <1>4, <1>5, <2>1, <2>2, <2>4, <3>3, SeenKept
    <3> QED
      BY <1>5, <2>4, <3>1, <3>2, <3>3 DEF Reached
  <2> QED
    BY <2>3, <2>4
<1> QED
  BY <1>5 DEF Told

(* A record that was just looked up or created is the one there was, or new. *)
LEMMA OpenedSame ==
    ASSUME TypeOK, NEW e \in EvSlots, NEW id \in EventIds, NEW t \in VarTypes
    PROVE  \/ events[e].id = id /\ Opened(e, id, t) = events[e]
           \/ /\ Opened(e, id, t).update_counter = 0
              /\ Opened(e, id, t).consumers = {}
              /\ ~Opened(e, id, t).cb
  BY DEF Opened, CreateEvent, EventInit

(* A handler that looks an event up, or creates it, and nothing more. *)
LEMMA OpenedTold ==
    ASSUME NEW n, TypeOK, TypeOK', EventNamesUnique', ConsumersAsked, Told, SeenWith(n),
           UNCHANGED writing, out' = {}, NEW e \in EvSlots, NEW id \in EventIds,
           NEW t \in VarTypes, events' = [events EXCEPT ![e] = Opened(e, id, t)]
    PROVE  Told'
<1>1. events'[e] = Opened(e, id, t) /\ \A f \in EvSlots \ {e} : events'[f] = events[f]
  BY DEF TypeOK
<1>2. \A f \in EvSlots : SameEvent(f) \/ NewEvent(f)
  BY <1>1, OpenedSame DEF SameEvent, NewEvent
<1>3. EventPackets' = {}
  BY NoEventPackets
<1> QED
  BY <1>2, <1>3, QuietTold DEF LiveEvents

(* syncs_client_subscribe: a subscription is answered by the value, of any
   event written since the server's first write, unless its counter says that
   the client has it. *)
LEMMA SubscribeTold ==
    ASSUME NEW n, TypeOK, TypeOK', EventNamesUnique', ConsumersAsked,
           ConsumersAsked', Told, SeenWith(n), writing = NoWrite,
           NEW c \in ClSlots, NEW id \in EventIds, NEW t \in VarTypes,
           NEW force \in BOOLEAN, NEW counter \in Counters,
           ClientSubscribe(c, id, t, force, counter), Joins(c, id) => counter = n
    PROVE  Told'
<1>1. UNCHANGED <<clients, writing>> /\ counter \in Nat
  BY SizeAssumption DEF ClientSubscribe
<1>2. CASE ~ \E e \in EvSlots : Opens(e, id, force)
  <2>1. UNCHANGED events /\ out' = {}
    BY <1>2 DEF ClientSubscribe
  <2>2. \A f \in LiveEvents' : SameEvent(f)
    BY <2>1 DEF SameEvent
  <2> QED
    BY <1>1, <2>1, <2>2, QuietTold, NoEventPackets
<1>3. ASSUME NEW e \in EvSlots, Opens(e, id, force),
             LET ev == Opened(e, id, t)
                 fits == Compatible(t, ev.data_type)
             IN /\ events' = [events EXCEPT ![e] =
                                 IF fits THEN AddClientToEvent(ev, c) ELSE ev]
                /\ out' = IF fits /\ counter < ev.update_counter
                          THEN ResendEvent(ev, c) ELSE {}
      PROVE  Told'
  <2> DEFINE ev == Opened(e, id, t)
             fits == Compatible(t, ev.data_type)
  <2>1. ev \in Event /\ ev.id = id
    BY OpenedType
  <2>2. CASE ~fits
    <3>1. events' = [events EXCEPT ![e] = ev] /\ out' = {}
      BY <1>3, <2>2
    <3> QED
      BY <1>1, <3>1, OpenedTold
  <2>3. CASE fits
    <3>1. events'[e] = AddClientToEvent(ev, c) /\ \A f \in EvSlots \ {e} : events'[f] = events[f]
      BY <1>3, <2>3 DEF TypeOK
    <3>2. /\ events'[e].id = id
          /\ events'[e].consumers = ev.consumers \cup {c}
          /\ Content(events'[e]) = Content(ev)
          /\ events'[e].update_counter = ev.update_counter
      <4> HIDE DEF ev
      <4>1. AddClientToEvent(ev, c).update_counter = ev.update_counter
        BY <2>1 DEF AddClientToEvent, Event
      <4> QED
        BY <2>1, <3>1, <4>1, ConsumerType, AddedContent
    <3>3. ev.update_counter \in Nat
      BY <2>1 DEF Event
    <3>4. out' = IF counter < ev.update_counter THEN ResendEvent(ev, c) ELSE {}
      BY <1>3, <2>3
    <3>5. (events[e].id = id /\ ev = events[e]) \/ (ev.update_counter = 0 /\ ev.consumers = {})
      BY OpenedSame
    <3> HIDE DEF ev, fits
    <3>6. CASE ev.update_counter = 0
      <4>1. EventPackets' = {} /\ events'[e].update_counter = 0
        BY <1>1, <3>2, <3>4, <3>6, NoEventPackets
      <4>2. \A f \in EvSlots : SameEvent(f) \/ NewEvent(f)
        BY <3>1, <4>1 DEF SameEvent, NewEvent
      <4> QED
        BY <1>1, <4>1, <4>2, QuietTold DEF LiveEvents
    <3>7. CASE 0 < ev.update_counter
      <4>1. events[e].id = id /\ ev = events[e] /\ e \in LiveEvents
        BY <3>3, <3>5, <3>7, NameAssumption DEF LiveEvents
      <4>2. \A k \in ev.consumers : seen[k][events'[e].id] = Content(events'[e])
        BY <3>2, <3>7, <4>1 DEF Told
      <4>3. CASE counter < ev.update_counter
        <5>1. out' = ToOpen(EventsTo({c}, events'[e].id, Content(events'[e]), TRUE))
          BY <2>1, <3>2, <3>4, <4>3 DEF ResendEvent, EventsTo
        <5>2. {c} \in SUBSET ClSlots
          OBVIOUS
        <5>3. \A k \in events'[e].consumers :
                 k \in {c} \/ seen[k][events'[e].id] = Content(events'[e])
          BY <3>2, <4>2
        <5>4. Reached(e, {c}, n)
          BY <5>3 DEF Reached
        <5> QED
          BY <1>1, <3>1, <5>1, <5>2, <5>4, SentTold
      <4>4. CASE ~(counter < ev.update_counter)
        <5>1. out' = ToOpen(EventsTo({}, events'[e].id, Content(events'[e]), TRUE))
          BY <3>4, <4>4 DEF ToOpen, EventsTo
        <5>2. {} \in SUBSET ClSlots
          OBVIOUS
        <5>3. ASSUME c \notin ev.consumers
              PROVE  Shown(c, events'[e].id, n) # {}
          <6>1. Joins(c, id)
            BY <3>2, <4>1, <5>3 DEF Joins
          <6>2. n > 0 /\ n >= events'[e].update_counter
            BY <1>1, <3>2, <3>3, <3>7, <4>4, <6>1
          <6>3. Content(events'[e]) \in Shown(c, id, n)
            BY <3>2, <6>1, <6>2 DEF Shown
          <6> QED
            BY <3>2, <6>3
        <5>4. Reached(e, {}, n)
          BY <3>2, <4>2, <5>3 DEF Reached
        <5> QED
          BY <1>1, <3>1, <5>1, <5>2, <5>4, SentTold
      <4> QED
        BY <4>3, <4>4
    <3> QED
      BY <3>3, <3>6, <3>7
  <2> QED
    BY <2>2, <2>3
<1> QED
  BY <1>2, <1>3 DEF ClientSubscribe

(* syncs_client_write up to the callback, or to its end if there is none:
   the writer knows what it wrote, the others are sent it. *)
LEMMA WriteTold ==
    ASSUME NEW n, TypeOK, TypeOK', EventNamesUnique', ConsumersAsked, ConsumersAsked', Told,
           SeenWith(n), writing = NoWrite,
           NEW c \in ClSlots, NEW id \in EventIds, NEW t \in VarTypes,
           NEW d \in Payloads, NEW force \in BOOLEAN, NEW echo \in BOOLEAN,
           ClientWrite(c, id, t, d, force, echo)
    PROVE  Told'
<1>1. UNCHANGED clients /\ update_counter \in Nat
  <2>1. update_counter \in Nat
    BY SizeAssumption DEF TypeOK
  <2> QED
    BY <2>1 DEF ClientWrite
<1>2. CASE ~ \E e \in EvSlots : Opens(e, id, force)
  <2>1. UNCHANGED <<events, writing>> /\ out' = {}
    BY <1>2 DEF ClientWrite
  <2>2. \A f \in LiveEvents' : SameEvent(f)
    BY <2>1 DEF SameEvent
  <2> QED
    BY <2>1, <2>2, QuietTold, NoEventPackets
<1>3. ASSUME NEW e \in EvSlots, Opens(e, id, force),
             LET ev == Opened(e, id, t)
                 new == [Store(ev, d) EXCEPT !.producer = c,
                                             !.update_counter = update_counter]
             IN IF t = ev.data_type
                THEN /\ events' = [events EXCEPT ![e] = new]
                     /\ update_counter' = update_counter + 1
                     /\ writing' = IF ev.cb THEN [slot |-> e, echo |-> echo]
                                            ELSE NoWrite
                     /\ out' = IF ev.cb THEN {} ELSE SendEvent(new, echo)
                ELSE /\ events' = [events EXCEPT ![e] = ev]
                     /\ out' = {}
                     /\ UNCHANGED <<update_counter, writing>>
      PROVE  Told'
  <2> DEFINE ev == Opened(e, id, t)
             old == Store(ev, d)
             new == [old EXCEPT !.producer = c, !.update_counter = update_counter]
             T == {k \in new.consumers : k # new.producer \/ echo}
  <2>1. CASE t # ev.data_type
    BY <1>3, <2>1, OpenedTold
  <2>2. CASE t = ev.data_type
    <3>1. ev \in Event /\ ev.id = id
      BY OpenedType
    <3>2. old \in Event
      BY <3>1, StoreType
    <3>3. events' = [events EXCEPT ![e] = new] /\ update_counter' = update_counter + 1
      BY <1>3, <2>2
    <3>4. \/ out' = {} /\ writing' = [slot |-> e, echo |-> echo]
          \/ out' = SendEvent(new, echo)
      BY <1>3, <2>2
    <3>5. events'[e] = new /\ \A f \in EvSlots \ {e} : events'[f] = events[f]
      BY <3>3 DEF TypeOK
    <3> HIDE DEF old, ev
    <3>6. new.producer = c /\ new.update_counter = update_counter /\ new.consumers \subseteq ClSlots
      BY <3>2 DEF Event
    <3> HIDE DEF new
    <3>7. Shown(c, events'[e].id, n) # {}
      <4>1. update_counter' # update_counter
        BY <1>1, <3>3
      <4>2. Content(events'[e]) \in Shown(c, events'[e].id, n)
        BY <3>5, <3>6, <4>1 DEF Shown
      <4> QED
        BY <4>2
    <3>8. CASE out' = {} /\ writing' = [slot |-> e, echo |-> echo]
      <4>1. writing' # NoWrite /\ writing'.slot = e
        BY <3>8 DEF NoWrite, EvSlots, Null
      <4>2. out' = ToOpen(EventsTo({}, events'[e].id, Content(events'[e]), FALSE))
        BY <3>8 DEF ToOpen, EventsTo
      <4>3. {} \in SUBSET ClSlots
        OBVIOUS
      <4>4. Reached(e, {}, n)
        BY <3>5, <3>6, <3>7, <4>1 DEF Reached
      <4> QED
        BY <1>1, <3>5, <4>1, <4>2, <4>3, <4>4, SentTold
    <3>9. CASE out' = SendEvent(new, echo)
      <4>1. out' = ToOpen(EventsTo(T, events'[e].id, Content(events'[e]), FALSE))
        BY <3>5, <3>9 DEF SendEvent, EventsTo
      <4>2. T \in SUBSET ClSlots
        BY <3>6
      <4>3. Reached(e, T, n)
        BY <3>5, <3>6, <3>7 DEF Reached
      <4> HIDE DEF T
      <4> QED
        BY <1>1, <3>5, <4>1, <4>2, <4>3, SentTold
    <3> QED
      BY <3>4, <3>8, <3>9
  <2> QED
    BY <2>1, <2>2
<1> QED
  BY <1>2, <1>3 DEF ClientWrite

(* syncs_client_write after the callback: who has not been told is sent the
   value, as the callback has left it. *)
LEMMA FinishTold ==
    ASSUME NEW n, TypeOK, TypeOK', EventNamesUnique', ConsumersAsked, ConsumersAsked', Told,
           SeenWith(n), FinishWrite
    PROVE  Told'
<1> DEFINE e == writing.slot
           ev == events[e]
           T == {k \in ev.consumers : k # ev.producer \/ writing.echo}
<1>1. e \in EvSlots /\ writing.echo \in BOOLEAN
  BY DEF FinishWrite, TypeOK, Write
<1>2. ev \in Event
  BY <1>1 DEF TypeOK
<1>3. /\ UNCHANGED <<events, clients>>
      /\ out' = ToOpen(EventsTo(T, ev.id, Content(ev), FALSE))
  BY DEF FinishWrite, SendEvent, EventsTo
<1>4. T \in SUBSET ClSlots
  BY <1>2 DEF Event
<1>5. ASSUME e \in LiveEvents', events'[e].update_counter > 0, NEW k \in events'[e].consumers
      PROVE  k \in T \/ seen[k][events'[e].id] = Content(events'[e])
  <2>1. CASE k = ev.producer
    <3>1. e \in LiveEvents /\ k \in ev.consumers /\ ev.update_counter > 0
      BY <1>3, <1>5 DEF LiveEvents
    <3> QED
      BY <1>3, <2>1, <3>1 DEF Told
  <2> QED
    BY <1>3, <1>5, <2>1
<1>6. out' = ToOpen(EventsTo(T, events'[e].id, Content(events'[e]), FALSE))
  BY <1>3
<1>7. \A f \in EvSlots \ {e} : events'[f] = events[f]
  BY <1>3
<1> HIDE DEF T
<1>8. Reached(e, T, n)
  BY <1>5 DEF Reached
<1> HIDE DEF ev
<1> QED
  BY <1>1, <1>3, <1>4, <1>6, <1>7, <1>8, SentTold

(* syncs_server_write has no producer to leave out. *)
LEMMA ServerWriteTold ==
    ASSUME NEW n, TypeOK, TypeOK', EventNamesUnique', ConsumersAsked, ConsumersAsked', Told,
           SeenWith(n), NEW id \in EventIds, NEW d \in Payloads, NEW force \in BOOLEAN,
           NEW echo \in BOOLEAN, ServerWrite(id, d, force, echo)
    PROVE  Told'
<1>1. PICK e \in EvSlots :
         LET new == [Store(Opened(e, id, NotDefined), d) EXCEPT !.producer = Null]
         IN /\ events' = [events EXCEPT ![e] = new]
            /\ out' = SendEvent(new, echo)
  BY DEF ServerWrite
<1> DEFINE old == Store(Opened(e, id, NotDefined), d)
           new == [old EXCEPT !.producer = Null]
<1>2. old \in Event
  BY OpenedType, StoreType, TypeAssumption
<1>3. events'[e] = new /\ \A f \in EvSlots \ {e} : events'[f] = events[f]
  BY <1>1 DEF TypeOK
<1>4. out' = SendEvent(new, echo) /\ UNCHANGED <<clients, writing>>
  BY <1>1 DEF ServerWrite
<1> HIDE DEF old
<1>5. new.producer = 0 /\ new.consumers \subseteq ClSlots
  BY <1>2 DEF Event, Null
<1> HIDE DEF new
<1> DEFINE T == {k \in new.consumers : k # new.producer \/ echo}
<1>6. out' = ToOpen(EventsTo(T, events'[e].id, Content(events'[e]), FALSE))
  BY <1>3, <1>4 DEF SendEvent, EventsTo
<1>7. T \in SUBSET ClSlots
  BY <1>5
<1>8. Reached(e, T, n)
  BY <1>3, <1>5 DEF ClSlots, Reached
<1> HIDE DEF T
<1> QED
  BY <1>3, <1>4, <1>6, <1>7, <1>8, SentTold

----------------------------------------------------------------------------
(* All steps together. *)

(* A slot whose event has the same record, without a client it may have had
   or with another callback. *)
LEMMA RecordSame ==
    ASSUME TypeOK, NEW f \in EvSlots,
           \/ events'[f] = events[f]
           \/ \E c \in ClSlots : events'[f] = RemoveClientFromEvent(events[f], c)
           \/ \E b \in BOOLEAN : events'[f] = [events[f] EXCEPT !.cb = b]
    PROVE  SameEvent(f)
<1>1. events[f] \in Event
  BY DEF TypeOK
<1>2. ASSUME NEW c \in ClSlots, events'[f] = RemoveClientFromEvent(events[f], c)
      PROVE  SameEvent(f)
  <2>1. /\ events'[f].id = events[f].id
        /\ events'[f].consumers = events[f].consumers \ {c}
    BY <1>1, <1>2, ConsumerType, SMTT(30)
  <2>2. /\ events'[f].full = events[f].full
        /\ events'[f].data = events[f].data
        /\ events'[f].update_counter = events[f].update_counter
        /\ events'[f].producer = events[f].producer
    BY <1>1, <1>2 DEF RemoveClientFromEvent, Event
  <2> QED
    BY <2>1, <2>2 DEF SameEvent, Content
<1>3. ASSUME NEW b \in BOOLEAN, events'[f] = [events[f] EXCEPT !.cb = b]
      PROVE  SameEvent(f)
  BY <1>1, <1>3 DEF SameEvent, Content, Event
<1>4. CASE events'[f] = events[f]
  BY <1>4 DEF SameEvent
<1> QED
  BY <1>2, <1>3, <1>4

(* syncs_close_client_socket, syncs_client_unsubscribe, syncs_free_event. *)
LEMMA ShrunkTold ==
    ASSUME NEW n, TypeOK, TypeOK', EventNamesUnique', ConsumersAsked, Told, SeenWith(n),
           UNCHANGED writing, EventPackets' = {},
           \/ UNCHANGED events
           \/ \E c \in ClSlots : events' = RemoveClientFromEvents(c)
           \/ \E c \in ClSlots, id \in EventIds : ClientUnsubscribe(c, id)
           \/ \E id \in EventIds : FreeEvent(id)
    PROVE  Told'
<1>1. ASSUME NEW f \in LiveEvents'
      PROVE  SameEvent(f)
  <2>1. f \in EvSlots /\ events'[f].id # NoId
    BY <1>1 DEF LiveEvents
  <2>2. ASSUME NEW c \in ClSlots, events' = RemoveClientFromEvents(c)
        PROVE  events'[f] = events[f] \/ events'[f] = RemoveClientFromEvent(events[f], c)
    BY <2>1, <2>2 DEF RemoveClientFromEvents
  <2>3. ASSUME NEW c \in ClSlots, NEW id \in EventIds, ClientUnsubscribe(c, id)
        PROVE  events'[f] = events[f] \/ events'[f] = RemoveClientFromEvent(events[f], c)
    BY <2>1, <2>3 DEF ClientUnsubscribe
  <2>4. ASSUME NEW id \in EventIds, FreeEvent(id)
        PROVE  events'[f] = events[f]
    BY <2>1, <2>4 DEF FreeEvent, TypeOK, Event
  <2> QED
    BY <2>1, <2>2, <2>3, <2>4, RecordSame
<1> QED
  BY <1>1, QuietTold

(* The counter that explains a new consumer is one that subscriptions carry. *)
Explains(n) == \A c \in ClSlots, id \in EventIds : Joins(c, id) => n \in Counters

(* The requests of a client. *)
LEMMA RequestTold ==
    ASSUME NEW n, Explains(n), "DEFINE" \notin Calls, TypeOK, TypeOK',
           EventNamesUnique', ConsumersAsked, ConsumersAsked', Told, SeenWith(n),
           writing = NoWrite, NEW c \in ClSlots, Request(c)
    PROVE  Told'
<1>1. ASSUME NEW id \in EventIds, ClientUnsubscribe(c, id) \/ FreeEvent(id)
      PROVE  Told'
  <2>1. UNCHANGED writing /\ EventPackets' = {}
    BY <1>1, NoEventPackets DEF ClientUnsubscribe, FreeEvent
  <2> QED
    BY <1>1, <2>1, ShrunkTold
<1>2. ASSUME NEW id \in EventIds, ClientRead(c, id)
      PROVE  Told'
  BY <1>2, ShrunkTold, NoEventPackets DEF ClientRead
<1>3. CASE ClientList(c)
  BY <1>3, ShrunkTold, NoEventPackets DEF ClientList
<1>4. ASSUME NEW id \in ChannelIds,
             ClientChannelRequest(c, id) \/ \E port \in Ports : AddChannel(c, id, port)
      PROVE  Told'
  BY <1>4, ShrunkTold, NoEventPackets DEF ClientChannelRequest, AddChannel
<1>5. ASSUME NEW id \in EventIds, NEW t \in VarTypes, NEW force \in BOOLEAN,
             NEW counter \in Counters, ClientSubscribe(c, id, t, force, counter)
      PROVE  Told'
  <2>1. CASE ~Joins(c, id)
    BY <1>5, <2>1, SubscribeTold
  <2>2. CASE Joins(c, id)
    <3>1. n \in Counters
      BY <2>2 DEF Explains
    <3>2. PICK t2 \in VarTypes, force2 \in BOOLEAN : ClientSubscribe(c, id, t2, force2, n)
      BY <2>2 DEF SeenWith
    <3> QED
      BY <3>1, <3>2, SubscribeTold
  <2> QED
    BY <2>1, <2>2
<1> QED
  BY <1>1, <1>2, <1>3, <1>4, <1>5, WriteTold DEF Request

(* Every step leaves the subscribers told. *)
LEMMA NextTold ==
    ASSUME NEW n, Explains(n), Calls \cap {"DEFINE", "server_define"} = {},
           TypeOK, TypeOK', EventNamesUnique', ConsumersAsked, ConsumersAsked', Told,
           Next, SeenWith(n)
    PROVE  Told'
<1>1. ASSUME NEW c \in ClSlots, Request(c), writing = NoWrite
      PROVE  Told'
  BY <1>1, RequestTold
<1>2. ASSUME NEW c \in ClSlots, NEW id \in ClientIds, NEW version, NEW cls,
             ClientId(c, id, version, cls)
      PROVE  Told'
  <2>1. UNCHANGED writing /\ EventPackets' = {}
    BY <1>2, NoEventPackets DEF ClientId
  <2>2. UNCHANGED events \/ events' = RemoveClientFromEvents(c)
    BY <1>2 DEF ClientId, CloseClientSocket
  <2> QED
    BY <2>1, <2>2, ShrunkTold
<1>3. ASSUME NEW c \in ClSlots, HangUp(c)
      PROVE  Told'
  BY <1>3, ShrunkTold, NoEventPackets DEF HangUp, CloseClientSocket
<1>4. ASSUME \/ \E a \in Addrs : AddClient(a) \/ UdpUnknown(a)
             \/ \E c \in ClSlots : ReceiveBytes(c)
             \/ EndOfBytes
      PROVE  Told'
  <2>1. UNCHANGED <<events, writing>> /\ EventPackets' = {}
    BY <1>4, NoEventPackets DEF AddClient, UdpUnknown, ReceiveBytes, EndOfBytes
  <2> QED
    BY <2>1, ShrunkTold
<1>5. CASE FinishWrite
  BY <1>5, FinishTold
<1>6. CASE Network
  BY <1>1, <1>2, <1>3, <1>4, <1>5, <1>6
     DEF Network, UdpPacket, UdpNewAddress, ProcessPacket, Idle
<1>7. ASSUME NEW id \in EventIds, NEW force \in BOOLEAN, ServerSubscribeEvent(id, force)
      PROVE  Told'
  <2>1. PICK e \in EvSlots :
           events' = [events EXCEPT ![e] = [Opened(e, id, NotDefined) EXCEPT !.cb = TRUE]]
    BY <1>7 DEF ServerSubscribeEvent
  <2> DEFINE ev == Opened(e, id, NotDefined)
  <2>2. ev \in Event /\ (ev = events[e] \/ ev.update_counter = 0)
    BY OpenedType, OpenedSame, TypeAssumption
  <2>3. events'[e] = [ev EXCEPT !.cb = TRUE] /\ \A f \in EvSlots \ {e} : events'[f] = events[f]
    BY <2>1 DEF TypeOK
  <2> HIDE DEF ev
  <2>4. CASE ev.update_counter = 0
    <3>1. events'[e].update_counter = 0
      BY <2>2, <2>3, <2>4 DEF Event
    <3> QED
      BY <1>7, <2>3, <3>1, RecordSame, QuietTold, NoEventPackets
         DEF NewEvent, LiveEvents, ServerSubscribeEvent
  <2>5. CASE ev = events[e]
    BY <1>7, <2>3, <2>5, RecordSame, QuietTold, NoEventPackets
       DEF LiveEvents, ServerSubscribeEvent
  <2> QED
    BY <2>2, <2>4, <2>5
<1>8. ASSUME NEW id \in EventIds, ServerUnsubscribeEvent(id)
      PROVE  Told'
  <2>1. PICK e \in EvSlots : events' = [events EXCEPT ![e].cb = FALSE]
    BY <1>8 DEF ServerUnsubscribeEvent
  <2>2. \A f \in EvSlots : \/ events'[f] = events[f]
                           \/ events'[f] = [events[f] EXCEPT !.cb = FALSE]
    BY <2>1 DEF TypeOK
  <2> QED
    BY <1>8, <2>2, RecordSame, QuietTold, NoEventPackets
       DEF LiveEvents, ServerUnsubscribeEvent
<1>9. ASSUME NEW id \in EventIds, ServerUndefine(id)
      PROVE  Told'
  BY <1>9, ShrunkTold, NoEventPackets DEF ServerUndefine, FreeEvent
<1>10. CASE Application
  BY <1>7, <1>8, <1>9, <1>10, ServerWriteTold DEF Application, ServerDefine
<1> QED
  BY <1>6, <1>10 DEF Next

(* Whoever is subscribed to an event that was written since the server's
   first write has its value: by delivery, by the replay that answers the
   subscription, or because it wrote the value itself; or it has told the
   server, with the counter it subscribed with, that it has this write or a
   later one (syncs_client_subscribe).  Clients come, go and come back with
   whatever counters they like, callbacks write in between, and a slot changes
   its event and its client.  For arrays of any size, as long as nobody
   redefines an event and TCP clients are of the server's major version. *)
THEOREM SubscribersUpToDate ==
    ASSUME TcpVersions \subseteq {MAJOR}, Calls \cap {"DEFINE", "server_define"} = {}
    PROVE  DeliverySpec => []UpToDate
<1> DEFINE IInv == EventNamesUnique /\ CurrentOpen /\ ConsumersAsked /\ Told
<1>1. DeliveryInit => IInv
  BY DEF DeliveryInit, Init, EventNamesUnique, CurrentOpen, ConsumersAsked, Told, LiveEvents
<1>2. ASSUME TypeOK, TypeOK', IInv, Next, SeenNext
      PROVE  IInv'
  <2>1. EventNamesUnique' /\ CurrentOpen' /\ ConsumersAsked'
    BY <1>2, NextNames, KeptNames, PutsNames, NextCurrentOpen, NextAsked
  <2>2. PICK n : SeenWith(n) /\ Explains(n)
    BY <1>2 DEF SeenNext, Explains
  <2>3. Told'
    BY <1>2, <2>1, <2>2, NextTold
  <2> QED
    BY <2>1, <2>3
<1>3. ASSUME IInv, UNCHANGED <<vars, seen>>
      PROVE  IInv'
  BY <1>3 DEF vars, EventNamesUnique, CurrentOpen, ConsumersAsked, Told, LiveEvents
<1>4. IInv => UpToDate
  BY DEF UpToDate, Told
<1>5. DeliveryInit => Init
  BY DEF DeliveryInit
<1>6. [Next /\ SeenNext]_<<vars, seen>> => [Next]_vars
  OBVIOUS
<1> HIDE DEF IInv
<1>7. DeliverySpec => Spec
  BY <1>5, <1>6, PTL DEF DeliverySpec, Spec
<1>8. DeliverySpec => []TypeOK
  BY <1>7, TypeCorrect, PTL
<1> QED
  BY <1>1, <1>2, <1>3, <1>4, <1>8, PTL DEF DeliverySpec
=============================================================================
