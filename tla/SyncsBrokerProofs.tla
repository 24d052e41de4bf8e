------------------------- MODULE SyncsBrokerProofs -------------------------
(***************************************************************************)
(* Proofs about SyncsServer: its counters are exact, and it implements the *)
(* broker of topics (PubSub).                                              *)
(***************************************************************************)
EXTENDS SyncsConnectionProofs, FiniteSetTheorems

----------------------------------------------------------------------------
(* The counters. *)

(* A step that creates and frees no event: all names stay, and an event keeps
   its consumers and their number or loses one consumer the counted way. *)
ConsumersKept(e) ==
    /\ events'[e].consumers = events[e].consumers
    /\ events'[e].consumers_count = events[e].consumers_count
ConsumerRemoved(e) == \E c \in ClSlots : events'[e] = RemoveClientFromEvent(events[e], c)
TableKept ==
    /\ event_count' = event_count
    /\ \A e \in EvSlots : /\ events'[e].id = events[e].id
                          /\ ConsumersKept(e) \/ ConsumerRemoved(e)

(* The three ways a step may treat the table of events. *)
TableStep ==
    \/ TableKept
    \/ \E id \in EventIds : Puts(id, {}) \/ FreeEvent(id)
    \/ \E id \in EventIds, c \in ClSlots : Puts(id, {c})

(* Nothing happens to the table. *)
LEMMA SameTable ==
    ASSUME UNCHANGED <<events, event_count>>
    PROVE  TableStep
  BY DEF TableStep, TableKept, ConsumersKept

(* syncs_close_client_socket removes the client from every event. *)
LEMMA ClosedTable ==
    ASSUME TypeOK, NEW c \in ClSlots, events' = RemoveClientFromEvents(c),
           UNCHANGED event_count
    PROVE  TableStep
<1>1. ASSUME NEW e \in EvSlots
      PROVE  /\ events'[e].id = events[e].id
             /\ ConsumersKept(e) \/ ConsumerRemoved(e)
  <2>1. RemoveClientFromEvent(events[e], c).id = events[e].id
    BY ConsumerType DEF TypeOK
  <2> QED
    BY <2>1 DEF RemoveClientFromEvents, ConsumersKept, ConsumerRemoved
<1> QED
  BY <1>1 DEF TableStep, TableKept

(* syncs_client_unsubscribe removes the client from one event. *)
LEMMA UnsubscribedTable ==
    ASSUME TypeOK, NEW c \in ClSlots, NEW id \in EventIds, ClientUnsubscribe(c, id)
    PROVE  TableStep
<1>1. ASSUME NEW e \in EvSlots
      PROVE  /\ events'[e].id = events[e].id
             /\ ConsumersKept(e) \/ ConsumerRemoved(e)
  <2>1. RemoveClientFromEvent(events[e], c).id = events[e].id
    BY ConsumerType DEF TypeOK
  <2> QED
    BY <2>1 DEF ClientUnsubscribe, ConsumersKept, ConsumerRemoved
<1> QED
  BY <1>1 DEF TableStep, TableKept, ClientUnsubscribe

(* Every request treats the table in one of the three ways. *)
LEMMA RequestTable ==
    ASSUME TypeOK, NEW c \in ClSlots, Request(c)
    PROVE  TableStep
<1>1. ASSUME NEW id \in EventIds, NEW t \in VarTypes, NEW force \in BOOLEAN,
             NEW counter \in Counters, ClientSubscribe(c, id, t, force, counter)
      PROVE  TableStep
  BY <1>1, SubscribePuts, SameTable DEF TableStep
<1>2. ASSUME NEW id \in EventIds, ClientUnsubscribe(c, id)
      PROVE  TableStep
  BY <1>2, UnsubscribedTable
<1>3. ASSUME NEW id \in EventIds, NEW t \in VarTypes, NEW force \in BOOLEAN,
             NEW sized \in BOOLEAN, AddEvent(id, t, force, << >>, sized)
      PROVE  TableStep
  BY <1>3, AddEventPuts, SameTable DEF TableStep
<1>4. ASSUME NEW id \in EventIds, FreeEvent(id)
      PROVE  TableStep
  BY <1>4 DEF TableStep
<1>5. ASSUME NEW id \in EventIds, NEW t \in VarTypes, NEW d \in Payloads,
             NEW force \in BOOLEAN, NEW echo \in BOOLEAN,
             ClientWrite(c, id, t, d, force, echo)
      PROVE  TableStep
  BY <1>5, WritePuts, SameTable DEF TableStep
<1>6. CASE UNCHANGED <<events, event_count>>
  BY <1>6, SameTable
<1> QED
  BY <1>1, <1>2, <1>3, <1>4, <1>5, <1>6
     DEF Request, ClientRead, ClientList, ClientChannelRequest, AddChannel

(* Every step does. *)
LEMMA NextTable ==
    ASSUME TypeOK, [Next]_vars
    PROVE  TableStep
<1>1. ASSUME NEW c \in ClSlots, Request(c)
      PROVE  TableStep
  BY <1>1, RequestTable
<1>2. ASSUME NEW c \in ClSlots, NEW id, NEW version, NEW cls,
             ClientId(c, id, version, cls)
      PROVE  TableStep
  BY <1>2, SameTable, ClosedTable DEF ClientId, CloseClientSocket
<1>3. ASSUME NEW c \in ClSlots, HangUp(c)
      PROVE  TableStep
  BY <1>3, ClosedTable DEF HangUp, CloseClientSocket
<1>4. CASE Network
  BY <1>1, <1>2, <1>3, <1>4, SameTable
     DEF Network, AddClient, UdpPacket, UdpUnknown, UdpNewAddress, ReceiveBytes,
         ProcessPacket, EndOfBytes, FinishWrite
<1>5. ASSUME NEW id \in EventIds, ServerUnsubscribeEvent(id)
      PROVE  TableStep
  <2>1. PICK e \in EvSlots : events' = [events EXCEPT ![e].cb = FALSE]
    BY <1>5 DEF ServerUnsubscribeEvent
  <2>2. \A f \in EvSlots : events'[f].id = events[f].id /\ ConsumersKept(f)
    BY <2>1 DEF TypeOK, Event, ConsumersKept
  <2> QED
    BY <1>5, <2>2 DEF ServerUnsubscribeEvent, TableStep, TableKept
<1>6. CASE Application
  BY <1>5, <1>6, ServerPuts, AddEventPuts, SameTable
     DEF Application, ServerDefine, ServerUndefine, TableStep
<1>7. CASE UNCHANGED vars
  BY <1>7, SameTable DEF vars
<1> QED
  BY <1>4, <1>6, <1>7 DEF Next

(* The sets that are counted are finite. *)
LEMMA FiniteTables ==
    ASSUME TypeOK
    PROVE  /\ IsFiniteSet(LiveEvents)
           /\ \A e \in EvSlots : IsFiniteSet(events[e].consumers)
<1>1. IsFiniteSet(EvSlots) /\ IsFiniteSet(ClSlots)
  BY FS_Interval, SizeAssumption DEF EvSlots, ClSlots
<1>2. LiveEvents \subseteq EvSlots
  BY DEF LiveEvents
<1>3. \A e \in EvSlots : events[e].consumers \subseteq ClSlots
  BY DEF TypeOK, Event
<1> QED
  BY <1>1, <1>2, <1>3, FS_Subset

(* The event that a handler puts in the table is counted if it is new ... *)
LEMMA PutsCounted ==
    ASSUME TypeOK, EventCountExact, NEW id \in EventIds, NEW S, Puts(id, S)
    PROVE  EventCountExact'
<1>1. PICK e \in EvSlots, ev \in Event : PutsAt(e, ev, id, S)
  BY DEF Puts
<1>2. /\ events'[e].id = id
      /\ \A f \in EvSlots \ {e} : events'[f] = events[f]
      /\ event_count' = event_count + AddedCount(id)
  BY <1>1 DEF PutsAt, TypeOK
<1>3. id # NoId
  BY NameAssumption
<1>4. LiveEvents' = LiveEvents \cup {e}
  BY <1>2, <1>3 DEF LiveEvents
<1>5. CASE events[e].id = id
  <2>1. e \in LiveEvents /\ AddedCount(id) = 0
    BY <1>3, <1>5 DEF LiveEvents, AddedCount, EventsNamed
  <2>2. LiveEvents' = LiveEvents
    BY <1>4, <2>1
  <2> QED
    BY <1>2, <2>1, <2>2 DEF EventCountExact, TypeOK
<1>6. CASE events[e].id = NoId /\ \A f \in EvSlots : events[f].id # id
  <2>1. e \notin LiveEvents /\ AddedCount(id) = 1
    BY <1>6 DEF LiveEvents, AddedCount, EventsNamed
  <2>2. Cardinality(LiveEvents \cup {e}) = Cardinality(LiveEvents) + 1
    BY <2>1, FiniteTables, FS_AddElement
  <2> QED
    BY <1>2, <1>4, <2>1, <2>2 DEF EventCountExact
<1> QED
  BY <1>1, <1>5, <1>6, OpensSlot DEF PutsAt

(* With unique names, the first event of a name is any event of it. *)
LEMMA FirstNamed ==
    ASSUME EventNamesUnique, NEW id \in EventIds, NEW e \in EvSlots
    PROVE  First(e, EventsNamed(id)) <=> events[e].id = id
<1>1. ASSUME events[e].id = id
      PROVE  First(e, EventsNamed(id))
  <2>1. SUFFICES ASSUME NEW f \in EventsNamed(id)
                 PROVE  e <= f
    BY <1>1 DEF First, EventsNamed
  <2>2. e = f
    BY <1>1, NameAssumption DEF EventsNamed, EventNamesUnique, LiveEvents
  <2> QED
    BY <2>2 DEF EvSlots
<1> QED
  BY <1>1 DEF First, EventsNamed

(* ... and syncs_free_event takes one from the count if it frees one. *)
LEMMA FreedCounted ==
    ASSUME TypeOK, EventNamesUnique, EventCountExact, NEW id \in EventIds, FreeEvent(id)
    PROVE  EventCountExact'
<1>1. ASSUME NEW e \in EvSlots
      PROVE  events'[e].id = IF events[e].id = id THEN NoId ELSE events[e].id
  BY FirstNamed DEF FreeEvent, TypeOK, Event
<1>2. id # NoId
  BY NameAssumption
<1>3. CASE EventsNamed(id) = {}
  <2>1. LiveEvents' = LiveEvents
    BY <1>1, <1>3 DEF LiveEvents, EventsNamed
  <2> QED
    BY <1>3, <2>1 DEF EventCountExact, FreeEvent, TypeOK
<1>4. CASE EventsNamed(id) # {}
  <2>1. PICK e \in EvSlots : events[e].id = id
    BY <1>4 DEF EventsNamed
  <2>2. e \in LiveEvents /\ LiveEvents' = LiveEvents \ {e}
    BY <1>1, <1>2, <2>1 DEF LiveEvents, EventNamesUnique
  <2>3. Cardinality(LiveEvents \ {e}) = Cardinality(LiveEvents) - 1
    BY <2>2, FiniteTables, FS_RemoveElement
  <2> QED
    BY <1>4, <2>2, <2>3 DEF EventCountExact, FreeEvent
<1> QED
  BY <1>3, <1>4

(* event_count is the number of events in the table, whatever creates,
   finds, refuses or frees them. *)
THEOREM EventsCounted == Spec => []EventCountExact
<1>1. Init => EventCountExact
  <2>1. Init => LiveEvents = {}
    BY DEF Init, LiveEvents
  <2> QED
    BY <2>1, FS_EmptySet DEF Init, EventCountExact
<1>2. ASSUME TypeOK, NamesUnique, EventCountExact, [Next]_vars
      PROVE  EventCountExact'
  <2>1. EventNamesUnique
    BY <1>2 DEF NamesUnique, EventNamesUnique
  <2>2. CASE TableKept
    <3>1. LiveEvents' = LiveEvents
      BY <2>2 DEF TableKept, LiveEvents
    <3> QED
      BY <1>2, <2>2, <3>1 DEF EventCountExact, TableKept
  <2> QED
    BY <1>2, <2>1, <2>2, NextTable, PutsCounted, FreedCounted DEF TableStep
<1> QED
  BY <1>1, <1>2, TypeCorrect, NamesStayUnique, PTL DEF Spec

(* A removed consumer is counted out, if it was one. *)
LEMMA RemovedCounted ==
    ASSUME TypeOK, NEW e \in EvSlots, ConsumerRemoved(e),
           events[e].consumers_count = Cardinality(events[e].consumers)
    PROVE  events'[e].consumers_count = Cardinality(events'[e].consumers)
<1> DEFINE ev == events[e]
<1>1. PICK c \in ClSlots : events'[e] = RemoveClientFromEvent(ev, c)
  BY DEF ConsumerRemoved
<1>2. ev \in Event
  BY DEF TypeOK
<1>3. CASE c \notin ev.consumers
  BY <1>1, <1>3 DEF RemoveClientFromEvent
<1>4. CASE c \in ev.consumers
  <2>1. Cardinality(ev.consumers \ {c}) = Cardinality(ev.consumers) - 1
    BY <1>4, FiniteTables, FS_RemoveElement
  <2>2. /\ events'[e].consumers = ev.consumers \ {c}
        /\ events'[e].consumers_count = ev.consumers_count - 1
    BY <1>1, <1>2, <1>4 DEF RemoveClientFromEvent, Event
  <2> QED
    BY <2>1, <2>2
<1> QED
  BY <1>3, <1>4

(* An added consumer is counted unless it was one. *)
LEMMA AddedCounted ==
    ASSUME TypeOK, ConsumersCountExact, NEW e \in EvSlots, NEW ev \in Event,
           NEW id \in EventIds, NEW S, S = {} \/ \E c \in ClSlots : S = {c},
           PutsAt(e, ev, id, S)
    PROVE  ev.consumers_count = Cardinality(ev.consumers)
<1> DEFINE C == Consumers(e, id)
<1>1. C \subseteq events[e].consumers
  BY DEF Consumers
<1>2. IsFiniteSet(C)
  BY <1>1, FiniteTables, FS_Subset
<1>3. Count(e, id) = Cardinality(C)
  BY NameAssumption, FS_EmptySet DEF Count, Consumers, ConsumersCountExact, LiveEvents
<1>4. /\ ev.consumers = C \cup S
      /\ ev.consumers_count = Cardinality(C) + (IF S \subseteq C THEN 0 ELSE 1)
  BY <1>3 DEF PutsAt
<1>5. Cardinality(C) \in Nat
  BY <1>2, FS_CardinalityType
<1> HIDE DEF C
<1>6. CASE S \subseteq C
  <2>1. C \cup S = C
    BY <1>6
  <2> QED
    BY <1>4, <1>5, <1>6, <2>1
<1>7. CASE ~(S \subseteq C)
  <2>1. PICK c \in ClSlots : S = {c}
    BY <1>7
  <2>2. Cardinality(C \cup {c}) = Cardinality(C) + 1
    BY <1>2, <1>7, <2>1, FS_AddElement
  <2> QED
    BY <1>4, <1>7, <2>1, <2>2
<1> QED
  BY <1>6, <1>7

(* consumers_count, which the event list reports, is the number of the
   event's consumers, however clients subscribe twice, unsubscribe what they
   have not, or leave. *)
THEOREM ConsumersCounted == Spec => []ConsumersCountExact
<1>1. Init => ConsumersCountExact
  BY DEF Init, ConsumersCountExact, LiveEvents
<1>2. ASSUME TypeOK, ConsumersCountExact, [Next]_vars
      PROVE  ConsumersCountExact'
  <2>1. CASE TableKept
    <3>1. ASSUME NEW e \in LiveEvents'
          PROVE  events'[e].consumers_count = Cardinality(events'[e].consumers)
      <4>1. e \in EvSlots /\ e \in LiveEvents
        BY <2>1, <3>1 DEF TableKept, LiveEvents
      <4>2. events[e].consumers_count = Cardinality(events[e].consumers)
        BY <1>2, <4>1 DEF ConsumersCountExact
      <4>3. ConsumersKept(e) \/ ConsumerRemoved(e)
        BY <2>1, <4>1 DEF TableKept
      <4> QED
        BY <1>2, <4>1, <4>2, <4>3, RemovedCounted DEF ConsumersKept
    <3> QED
      BY <3>1 DEF ConsumersCountExact
  <2>2. ASSUME NEW id \in EventIds, FreeEvent(id)
        PROVE  ConsumersCountExact'
    <3>1. ASSUME NEW e \in EvSlots
          PROVE  events'[e] = events[e] \/ events'[e].id = NoId
      BY <1>2, <2>2 DEF FreeEvent, TypeOK, Event
    <3> QED
      BY <1>2, <3>1 DEF ConsumersCountExact, LiveEvents
  <2>3. ASSUME NEW id \in EventIds, NEW S, S = {} \/ \E c \in ClSlots : S = {c},
               Puts(id, S)
        PROVE  ConsumersCountExact'
    <3>1. PICK e \in EvSlots, ev \in Event : PutsAt(e, ev, id, S)
      BY <2>3 DEF Puts
    <3>2. ev.consumers_count = Cardinality(ev.consumers)
      BY <1>2, <2>3, <3>1, AddedCounted
    <3>3. events'[e] = ev /\ \A f \in EvSlots \ {e} : events'[f] = events[f]
      BY <1>2, <3>1 DEF PutsAt, TypeOK
    <3> QED
      BY <1>2, <3>2, <3>3 DEF ConsumersCountExact, LiveEvents
  <2> QED
    BY <1>2, <2>1, <2>2, <2>3, NextTable DEF TableStep
<1> QED
  BY <1>1, <1>2, TypeCorrect, PTL DEF Spec

----------------------------------------------------------------------------
(* The state of the broker, seen from the table of events. *)

(* The value of a name is the content of the only slot that has it. *)
LEMMA ValueAt ==
    ASSUME EventNamesUnique, NEW id \in EventIds, NEW e \in EvSlots, events[e].id = id
    PROVE  EventValues[id] = Content(events[e])
<1>1. EventsNamed(id) # {}
  BY DEF EventsNamed
<1>2. \A f \in EvSlots : First(f, EventsNamed(id)) <=> f = e
  BY FirstNamed, NameAssumption DEF EventNamesUnique, LiveEvents
<1>3. (CHOOSE f \in EvSlots : First(f, EventsNamed(id))) = e
  BY <1>2
<1> QED
  BY <1>1, <1>3 DEF EventValues, Holds

(* The same after a step. *)
LEMMA ValueAtNext ==
    ASSUME EventNamesUnique', NEW id \in EventIds, NEW e \in EvSlots, events'[e].id = id
    PROVE  EventValues'[id] = Content(events'[e])
<1>1. EventsNamed(id)' # {}
  BY DEF EventsNamed
<1>2. \A f \in EvSlots : First(f, EventsNamed(id)') <=> f = e
  <2>1. EventsNamed(id)' = {e}
    BY NameAssumption DEF EventsNamed, EventNamesUnique, LiveEvents
  <2> QED
    BY <2>1 DEF First, EvSlots
<1>3. (CHOOSE f \in EvSlots : First(f, EventsNamed(id)')) = e
  BY <1>2
<1> QED
  BY <1>1, <1>3 DEF EventValues, Holds

(* A name that no slot has has no value. *)
LEMMA ValueNone ==
    ASSUME NEW id \in EventIds
    PROVE  /\ (\A e \in EvSlots : events[e].id # id) => EventValues[id] = << >>
           /\ (\A e \in EvSlots : events'[e].id # id) => EventValues'[id] = << >>
  BY DEF EventValues, Holds, EventsNamed

(* Slots that keep name and content keep the value of the name. *)
LEMMA ValueKept ==
    ASSUME EventNamesUnique, EventNamesUnique', NEW id \in EventIds,
           \A e \in EvSlots :
              /\ events'[e].id = id <=> events[e].id = id
              /\ events[e].id = id => Content(events'[e]) = Content(events[e])
    PROVE  EventValues'[id] = EventValues[id]
<1>1. CASE \E e \in EvSlots : events[e].id = id
  BY <1>1, ValueAt, ValueAtNext
<1>2. CASE ~ \E e \in EvSlots : events[e].id = id
  BY <1>2, ValueNone
<1> QED
  BY <1>1, <1>2

(* A record that was just looked up or created holds the name's value. *)
LEMMA OpenedContent ==
    ASSUME TypeOK, EventNamesUnique, NEW e \in EvSlots, NEW id \in EventIds,
           NEW t \in VarTypes, NEW force \in BOOLEAN, Opens(e, id, force)
    PROVE  Content(Opened(e, id, t)) = EventValues[id]
<1>1. CASE events[e].id = id
  BY <1>1, ValueAt DEF Opened
<1>2. CASE events[e].id # id
  <2>0. Opens(e, id, TRUE)
    BY OpensForce
  <2>1. \A f \in EvSlots : events[f].id # id
    BY <1>2, <2>0, OpensSlot
  <2>2. Content(Opened(e, id, t)) = << >>
    BY <1>2 DEF Opened, CreateEvent, EventInit, Content
  <2> QED
    BY <2>1, <2>2, ValueNone
<1> QED
  BY <1>1, <1>2

(* Subscriptions by name. *)
LEMMA SubscribedBy ==
    ASSUME NEW c \in ClSlots, NEW id \in EventIds
    PROVE  /\ <<c, id>> \in Subscriptions <=>
                \E e \in EvSlots : events[e].id = id /\ c \in events[e].consumers
           /\ <<c, id>> \in Subscriptions' <=>
                \E e \in EvSlots : events'[e].id = id /\ c \in events'[e].consumers
  BY NameAssumption DEF Subscriptions, LiveEvents

(* Two sets of subscriptions are equal if they agree on all pairs. *)
LEMMA SubscriptionsEqual ==
    ASSUME NEW S,
           \A c \in ClSlots, id \in EventIds : <<c, id>> \in Subscriptions' <=> <<c, id>> \in S,
           S \subseteq ClSlots \X EventIds
    PROVE  Subscriptions' = S
<1>1. Subscriptions' \subseteq ClSlots \X EventIds
  BY DEF Subscriptions
<1>2. \A s \in ClSlots \X EventIds : s \in Subscriptions' <=> s \in S
  OBVIOUS
<1> QED
  BY <1>1, <1>2

(* So are two functions of names. *)
LEMMA ValuesEqual ==
    ASSUME NEW f, f = [id \in EventIds |-> f[id]],
           \A id \in EventIds : EventValues'[id] = f[id]
    PROVE  EventValues' = f
  BY DEF EventValues

(* A handler that puts a record in the table adds its name and the
   subscriptions of S, and touches no other name. *)
LEMMA PutsMapped ==
    ASSUME TypeOK, EventNamesUnique, EventNamesUnique', NEW id \in EventIds,
           NEW S \in SUBSET ClSlots, Puts(id, S)
    PROVE  /\ EventNames' = EventNames \cup {id}
           /\ Subscriptions' = Subscriptions \cup {<<c, id>> : c \in S}
           /\ \A i \in EventIds \ {id} : EventValues'[i] = EventValues[i]
<1>1. PICK e \in EvSlots, ev \in Event : PutsAt(e, ev, id, S)
  BY DEF Puts
<1>2. /\ events'[e].id = id
      /\ events'[e].consumers = Consumers(e, id) \cup S
      /\ \A f \in EvSlots \ {e} : events'[f] = events[f]
  BY <1>1 DEF PutsAt, TypeOK
<1>3. /\ id # NoId
      /\ events[e].id \in {id, NoId}
      /\ \A f \in EvSlots \ {e} : events[f].id # id
  BY <1>1, NameAssumption, OpensSlot DEF PutsAt, EventNamesUnique, LiveEvents
<1>4. EventNames' = EventNames \cup {id}
  BY <1>2, <1>3 DEF EventNames, LiveEvents
<1>5. ASSUME NEW i \in EventIds \ {id}
      PROVE  EventValues'[i] = EventValues[i]
  <2>1. i # NoId
    BY NameAssumption
  <2> QED
    BY <1>2, <1>3, <2>1, ValueKept
<1>6. ASSUME NEW c \in ClSlots, NEW i \in EventIds
      PROVE  <<c, i>> \in Subscriptions' <=>
                <<c, i>> \in Subscriptions \/ (i = id /\ c \in S)
  <2>1. i # NoId
    BY NameAssumption
  <2>2. CASE i = id
    <3>1. <<c, i>> \in Subscriptions' <=> c \in Consumers(e, id) \cup S
      BY <1>2, <1>3, <2>2, SubscribedBy
    <3>2. <<c, i>> \in Subscriptions <=> c \in Consumers(e, id)
      BY <1>3, <2>2, SubscribedBy DEF Consumers
    <3> QED
      BY <2>2, <3>1, <3>2
  <2>3. CASE i # id
    BY <1>2, <1>3, <2>1, <2>3, SubscribedBy
  <2> QED
    BY <2>2, <2>3
<1>7. Subscriptions \cup {<<c, id>> : c \in S} \subseteq ClSlots \X EventIds
  BY DEF Subscriptions
<1>8. Subscriptions' = Subscriptions \cup {<<c, id>> : c \in S}
  <2>1. \A c \in ClSlots, i \in EventIds :
           <<c, i>> \in {<<k, id>> : k \in S} <=> i = id /\ c \in S
    OBVIOUS
  <2>2. \A c \in ClSlots, i \in EventIds :
           <<c, i>> \in Subscriptions' <=>
              <<c, i>> \in Subscriptions \cup {<<k, id>> : k \in S}
    BY <1>6, <2>1
  <2> QED
    BY <1>7, <2>2, SubscriptionsEqual
<1> QED
  BY <1>4, <1>5, <1>8

----------------------------------------------------------------------------
(* Deliveries. *)

(* Packets that are no events deliver nothing. *)
LEMMA NothingDelivered ==
    ASSUME \A p \in out' : p.type # "EVENT"
    PROVE  Delivered' = {}
  BY DEF Delivered, EventPackets

(* Status packets, and answers to reads, lists and channel requests. *)
LEMMA AnswersDeliverNothing ==
    ASSUME \/ out' = {}
           \/ \E c, code : out' = {Status(c, code)}
           \/ \E a : out' = {[addr |-> a, type |-> "SERVER_STATUS", code |-> 2]}
           \/ \E c, id, d, t : out' = ReadReply(c, id, d, t)
           \/ \E c, listed : out' = ToOpen({[to |-> c, type |-> "LIST", listed |-> listed]})
           \/ \E c, H : out' = ToOpen({[to |-> c, type |-> "EMPTY", ip |-> channels[h].ip,
                                       port |-> channels[h].port] : h \in H})
    PROVE  Delivered' = {}
<1>1. \A p \in out' : p.type # "EVENT"
  BY DEF Status, ReadReply, ToOpen
<1> QED
  BY <1>1, NothingDelivered

(* The packets that hold the value d of the event id, one for each of S. *)
EventsTo(S, id, d, lost) ==
    {[to |-> c, type |-> "EVENT", id |-> id, data |-> d, lost |-> lost] : c \in S}

(* Events sent to open connections are delivered to all of them. *)
LEMMA AllDelivered ==
    ASSUME NEW S \in SUBSET ClSlots, NEW id, NEW d, NEW lost, \A c \in S : Open(c),
           out' = ToOpen(EventsTo(S, id, d, lost))
    PROVE  Delivered' = Broker!Deliver(S, id, d)
<1> DEFINE P(c) == [to |-> c, type |-> "EVENT", id |-> id, data |-> d, lost |-> lost]
<1>1. \A c \in S : /\ P(c).to = c
                   /\ P(c).type = "EVENT"
                   /\ P(c).id = id
                   /\ P(c).data = d
  OBVIOUS
<1>2. out' = {P(c) : c \in S}
  BY <1>1 DEF ToOpen, Open, EventsTo
<1> HIDE DEF P
<1>3. EventPackets' = {P(c) : c \in S}
  BY <1>1, <1>2 DEF EventPackets
<1> QED
  BY <1>1, <1>3 DEF Delivered, Broker!Deliver

(* The consumers of an event are open, and are the subscribers of its name. *)
LEMMA ConsumersOpen ==
    ASSUME TypeOK, EventNamesUnique, ConsumersAsked, NEW id \in EventIds,
           NEW e \in EvSlots, events[e].id = id
    PROVE  /\ events[e].consumers \in SUBSET ClSlots
           /\ events[e].consumers = {c \in ClSlots : <<c, id>> \in Subscriptions}
           /\ \A c \in events[e].consumers : Open(c)
<1>1. id # NoId
  BY NameAssumption
<1>2. events[e].consumers \in SUBSET ClSlots
  BY DEF TypeOK, Event
<1>3. \A c \in ClSlots : <<c, id>> \in Subscriptions <=> c \in events[e].consumers
  BY <1>1, SubscribedBy DEF EventNamesUnique, LiveEvents
<1>4. \A c \in events[e].consumers : Open(c)
  BY <1>1 DEF ConsumersAsked, LiveEvents, Open
<1> QED
  BY <1>2, <1>3, <1>4

----------------------------------------------------------------------------
(* Every handler is a step of the broker. *)

(* While a callback runs, the event whose write is to be finished is there:
   nobody undefines it in between. *)
WritingLive == writing # NoWrite => events[writing.slot].id # NoId

(* What a step leaves alone when it leaves the tables alone. *)
LEMMA EventsMapped ==
    ASSUME UNCHANGED events
    PROVE  /\ EventNames' = EventNames
           /\ EventValues' = EventValues
           /\ Subscriptions' = Subscriptions
           /\ UNCHANGED writing => Pending' = Pending
  BY DEF EventNames, EventValues, Subscriptions, Pending, LiveEvents, Holds, EventsNamed

(* Answers, and everything that concerns no event. *)
LEMMA QuietStep ==
    ASSUME UNCHANGED <<events, writing>>, Online' = Online, Delivered' = {}
    PROVE  Broker!Next
  BY EventsMapped DEF Broker!Next, Broker!Quiet

(* The clients online, slot by slot. *)
LEMMA OnlineSlots ==
    /\ Online = {c \in ClSlots : Open(c)}
    /\ Online' = {c \in ClSlots : clients'[c].socketfd # "closed"}
  BY DEF Online, FreeClients, Open

(* The event whose write is to be finished keeps its name. *)
LEMMA PutsPending ==
    ASSUME TypeOK, WritingLive, NEW id \in EventIds, NEW S, Puts(id, S), UNCHANGED writing
    PROVE  Pending' = Pending
<1>1. PICK e \in EvSlots, ev \in Event : PutsAt(e, ev, id, S)
  BY DEF Puts
<1>2. /\ events'[e].id = id
      /\ events[e].id \in {id, NoId}
      /\ \A f \in EvSlots \ {e} : events'[f] = events[f]
  BY <1>1, OpensSlot DEF PutsAt, TypeOK
<1>3. writing # NoWrite => writing.slot \in EvSlots
  BY DEF TypeOK, Write
<1> QED
  BY <1>2, <1>3 DEF Pending, WritingLive

(* A client connects to a free slot. *)
LEMMA ConnectStep ==
    ASSUME NEW c \in ClSlots, ~Open(c), clients'[c].socketfd # "closed", OthersSame(c),
           UNCHANGED <<events, writing>>, Delivered' = {}
    PROVE  Broker!Next
<1>1. c \notin Online /\ Online' = Online \cup {c}
  BY OnlineSlots DEF OthersSame, Open
<1>2. Broker!Connect(c)
  BY <1>1, EventsMapped DEF Broker!Connect
<1> QED
  BY <1>2 DEF Broker!Next

(* syncs_close_client_socket: what it does to the table. *)
LEMMA ClosedMapped ==
    ASSUME TypeOK, EventNamesUnique, EventNamesUnique', NEW c \in ClSlots,
           events' = RemoveClientFromEvents(c)
    PROVE  /\ EventNames' = EventNames
           /\ EventValues' = EventValues
           /\ Subscriptions' = {s \in Subscriptions : s[1] # c}
           /\ \A e \in EvSlots : events'[e].id = events[e].id
<1>1. ASSUME NEW e \in EvSlots
      PROVE  /\ events'[e].id = events[e].id
             /\ Content(events'[e]) = Content(events[e])
             /\ events[e].id # NoId => events'[e].consumers = events[e].consumers \ {c}
  <2> DEFINE ev == events[e]
  <2>1. ev \in Event
    BY DEF TypeOK
  <2>2. /\ RemoveClientFromEvent(ev, c).id = ev.id
        /\ RemoveClientFromEvent(ev, c).consumers = ev.consumers \ {c}
    BY <2>1, ConsumerType
  <2>3. Content(RemoveClientFromEvent(ev, c)) = Content(ev)
    BY <2>1 DEF RemoveClientFromEvent, Content, Event
  <2> QED
    BY <2>2, <2>3 DEF RemoveClientFromEvents
<1>2. EventNames' = EventNames
  BY <1>1 DEF EventNames, LiveEvents
<1>3. EventValues' = EventValues
  <2>1. \A id \in EventIds : EventValues'[id] = EventValues[id]
    BY <1>1, ValueKept
  <2> QED
    BY <2>1 DEF EventValues
<1>4. Subscriptions' = {s \in Subscriptions : s[1] # c}
  <2> DEFINE S == {s \in Subscriptions : s[1] # c}
  <2>1. S \subseteq ClSlots \X EventIds
    BY DEF Subscriptions
  <2>2. ASSUME NEW k \in ClSlots, NEW id \in EventIds
        PROVE  <<k, id>> \in Subscriptions' <=> <<k, id>> \in S
    <3>1. <<k, id>> \in S <=> <<k, id>> \in Subscriptions /\ k # c
      OBVIOUS
    <3>2. id # NoId
      BY NameAssumption
    <3> QED
      BY <1>1, <3>1, <3>2, SubscribedBy
  <2> QED
    BY <2>1, <2>2, SubscriptionsEqual
<1> QED
  BY <1>1, <1>2, <1>3, <1>4

(* A connection ends, or a datagram of another major version comes from a
   client that was not even online. *)
LEMMA DisconnectStep ==
    ASSUME TypeOK, EventNamesUnique, EventNamesUnique', ConsumersAsked, NEW c \in ClSlots,
           writing = NoWrite, UNCHANGED writing, clients'[c].socketfd = "closed",
           OthersSame(c), events' = RemoveClientFromEvents(c), Delivered' = {}
    PROVE  Broker!Next
<1>1. Pending' = Pending
  BY DEF Pending
<1>2. Online' = Online \ {c}
  BY OnlineSlots DEF OthersSame, Open
<1>3. CASE Open(c)
  <2>1. c \in Online
    BY <1>3, OnlineSlots
  <2>2. Broker!Disconnect(c)
    BY <1>1, <1>2, <2>1, ClosedMapped DEF Broker!Disconnect
  <2> QED
    BY <2>2 DEF Broker!Next
<1>4. CASE ~Open(c)
  <2>1. Online' = Online
    BY <1>2, <1>4, OnlineSlots
  <2>2. \A s \in Subscriptions : s[1] # c
    BY <1>4 DEF Subscriptions, ConsumersAsked, Open
  <2>3. Subscriptions' = Subscriptions
    BY <2>2, ClosedMapped
  <2> QED
    BY <1>1, <2>1, <2>3, ClosedMapped DEF Broker!Next, Broker!Quiet
<1> QED
  BY <1>3, <1>4

(* A record is put in the table with the value its name has: the topic is
   created, if it is new. *)
LEMMA CreateStep ==
    ASSUME TypeOK, EventNamesUnique, EventNamesUnique', WritingLive, NEW id \in EventIds,
           Puts(id, {}), EventValues'[id] = EventValues[id],
           UNCHANGED <<clients, writing>>, Delivered' = {}
    PROVE  Broker!Next
<1>1. Subscriptions' = Subscriptions
  BY PutsMapped
<1>2. EventValues' = EventValues
  <2>1. \A i \in EventIds : EventValues'[i] = EventValues[i]
    BY PutsMapped
  <2> QED
    BY <2>1 DEF EventValues
<1>3. Broker!Create(id)
  BY <1>1, <1>2, PutsMapped, PutsPending, OnlineSlots DEF Broker!Create, Open
<1> QED
  BY <1>3 DEF Broker!Next

(* Adding a consumer leaves the content. *)
LEMMA AddedContent ==
    ASSUME NEW ev \in Event, NEW c
    PROVE  Content(AddClientToEvent(ev, c)) = Content(ev)
  BY DEF AddClientToEvent, Content, Event

(* syncs_client_subscribe: the client subscribes, or the types clash. *)
LEMMA SubscribeStep ==
    ASSUME TypeOK, EventNamesUnique, EventNamesUnique', WritingLive,
           NEW c \in ClSlots, Open(c), NEW id \in EventIds, NEW t \in VarTypes,
           NEW force \in BOOLEAN, NEW counter \in Counters,
           ClientSubscribe(c, id, t, force, counter)
    PROVE  Broker!Next
<1>1. UNCHANGED <<clients, writing>> /\ Online' = Online /\ c \in Online
  BY OnlineSlots DEF ClientSubscribe, Open
<1>2. CASE ~ \E e \in EvSlots : Opens(e, id, force)
  <2>1. UNCHANGED events /\ out' = {}
    BY <1>2 DEF ClientSubscribe
  <2> QED
    BY <1>1, <2>1, QuietStep, AnswersDeliverNothing
<1>3. ASSUME NEW e \in EvSlots, Opens(e, id, force),
             LET ev == Opened(e, id, t)
                 fits == Compatible(t, ev.data_type)
             IN /\ events' = [events EXCEPT ![e] =
                                 IF fits THEN AddClientToEvent(ev, c) ELSE ev]
                /\ out' = IF fits /\ counter < ev.update_counter
                          THEN ResendEvent(ev, c) ELSE {}
      PROVE  Broker!Next
  <2> DEFINE ev == Opened(e, id, t)
             fits == Compatible(t, ev.data_type)
  <2>1. ev \in Event /\ ev.id = id
    BY OpenedType
  <2>2. events'[e] = IF fits THEN AddClientToEvent(ev, c) ELSE ev
    BY <1>3 DEF TypeOK
  <2>3. /\ events'[e].id = id
        /\ Content(events'[e]) = Content(ev)
        /\ fits => c \in events'[e].consumers
    BY <2>1, <2>2, ConsumerType, AddedContent
  <2>4. Content(ev) = EventValues[id]
    BY <1>3, OpenedContent
  <2>5. EventValues'[id] = EventValues[id]
    BY <2>3, <2>4, ValueAtNext
  <2>6. Delivered' = {} \/ (fits /\ Delivered' = Broker!Deliver({c}, id, EventValues[id]))
    <3>1. CASE out' = {}
      BY <3>1, AnswersDeliverNothing
    <3>2. CASE fits /\ out' = ResendEvent(ev, c)
      <4>1. out' = ToOpen(EventsTo({c}, id, EventValues[id], TRUE))
        BY <2>1, <2>4, <3>2 DEF ResendEvent, EventsTo
      <4>2. {c} \in SUBSET ClSlots /\ \A k \in {c} : Open(k)
        OBVIOUS
      <4> HIDE DEF ev, fits
      <4>3. Delivered' = Broker!Deliver({c}, id, EventValues[id])
        BY <4>1, <4>2, AllDelivered
      <4> QED
        BY <3>2, <4>3
    <3> QED
      BY <1>3, <3>1, <3>2
  <2> HIDE DEF ev, fits
  <2>7. CASE Puts(id, {}) /\ Delivered' = {}
    BY <1>1, <2>5, <2>7, CreateStep
  <2>8. CASE Subscriptions' = Subscriptions \cup {<<c, id>>} /\
             \E S \in SUBSET ClSlots : Puts(id, S)
    <3>1. EventNames' = EventNames \cup {id} /\ Pending' = Pending
      BY <1>1, <2>8, PutsMapped, PutsPending
    <3>2. EventValues' = EventValues
      <4>1. \A i \in EventIds : EventValues'[i] = EventValues[i]
        BY <2>5, <2>8, PutsMapped
      <4> QED
        BY <4>1 DEF EventValues
    <3>3. Delivered' \in {{}, Broker!Deliver({c}, id, EventValues[id])}
      BY <2>6
    <3>4. Broker!Subscribe(c, id)
      BY <1>1, <2>8, <3>1, <3>2, <3>3 DEF Broker!Subscribe
    <3> QED
      BY <3>4 DEF Broker!Next
  <2>9. CASE Puts(id, {c})
    <3>1. Subscriptions' = Subscriptions \cup {<<k, id>> : k \in {c}}
      BY <2>9, PutsMapped
    <3> QED
      BY <2>8, <2>9, <3>1
  <2>10. CASE Puts(id, {}) /\ fits
    <3>1. Subscriptions' = Subscriptions
      BY <2>10, PutsMapped
    <3>2. <<c, id>> \in Subscriptions'
      BY <2>3, <2>10, SubscribedBy
    <3> QED
      BY <2>8, <2>10, <3>1, <3>2
  <2>11. CASE UNCHANGED <<events, event_count>>
    <3>1. CASE Delivered' = {}
      BY <1>1, <2>11, <3>1, QuietStep
    <3>2. CASE fits
      <4>1. EventNames' = EventNames /\ EventValues' = EventValues
            /\ Subscriptions' = Subscriptions /\ Pending' = Pending
        BY <1>1, <2>11, EventsMapped
      <4>2. id \in EventNames
        BY <2>3, <2>11, NameAssumption DEF EventNames, LiveEvents
      <4>3. <<c, id>> \in Subscriptions
        <5>1. <<c, id>> \in Subscriptions'
          BY <2>3, <3>2, SubscribedBy
        <5> QED
          BY <4>1, <5>1
      <4>4. Delivered' \in {{}, Broker!Deliver({c}, id, EventValues[id])}
        BY <2>6
      <4>5. Broker!Subscribe(c, id)
        BY <1>1, <4>1, <4>2, <4>3, <4>4 DEF Broker!Subscribe
      <4> QED
        BY <4>5 DEF Broker!Next
    <3> QED
      BY <2>6, <3>1, <3>2
  <2> QED
    BY <2>6, <2>7, <2>9, <2>10, <2>11, SubscribePuts
<1> QED
  BY <1>2, <1>3 DEF ClientSubscribe

(* syncs_client_unsubscribe ends one subscription. *)
LEMMA UnsubscribeStep ==
    ASSUME TypeOK, EventNamesUnique, EventNamesUnique', writing = NoWrite,
           NEW c \in ClSlots, NEW id \in EventIds, ClientUnsubscribe(c, id)
    PROVE  Broker!Next
<1>1. ASSUME NEW e \in EvSlots
      PROVE  /\ events'[e].id = events[e].id
             /\ Content(events'[e]) = Content(events[e])
             /\ events'[e].consumers =
                   IF events[e].id = id THEN events[e].consumers \ {c} ELSE events[e].consumers
  <2> DEFINE ev == events[e]
  <2>1. ev \in Event
    BY DEF TypeOK
  <2>2. /\ RemoveClientFromEvent(ev, c).id = ev.id
        /\ RemoveClientFromEvent(ev, c).consumers = ev.consumers \ {c}
    BY <2>1, ConsumerType
  <2>3. Content(RemoveClientFromEvent(ev, c)) = Content(ev)
    BY <2>1 DEF RemoveClientFromEvent, Content, Event
  <2> QED
    BY <2>2, <2>3, FirstNamed DEF ClientUnsubscribe
<1>2. EventNames' = EventNames
  BY <1>1 DEF EventNames, LiveEvents
<1>3. EventValues' = EventValues
  <2>1. \A i \in EventIds : EventValues'[i] = EventValues[i]
    BY <1>1, ValueKept
  <2> QED
    BY <2>1 DEF EventValues
<1>4. Subscriptions' = Subscriptions \ {<<c, id>>}
  <2> DEFINE S == Subscriptions \ {<<c, id>>}
  <2>1. S \subseteq ClSlots \X EventIds
    BY DEF Subscriptions
  <2>2. ASSUME NEW k \in ClSlots, NEW i \in EventIds
        PROVE  <<k, i>> \in Subscriptions' <=> <<k, i>> \in S
    <3>1. <<k, i>> \in S <=> <<k, i>> \in Subscriptions /\ ~(k = c /\ i = id)
      OBVIOUS
    <3>2. ASSUME NEW e \in EvSlots
          PROVE  (events'[e].id = i /\ k \in events'[e].consumers) <=>
                    /\ events[e].id = i
                    /\ k \in events[e].consumers
                    /\ ~(k = c /\ i = id)
      BY <1>1
    <3> HIDE DEF S
    <3> QED
      BY <3>1, <3>2, SubscribedBy
  <2> QED
    BY <2>1, <2>2, SubscriptionsEqual
<1>5. Pending' = Pending /\ Online' = Online /\ Delivered' = {}
  BY AnswersDeliverNothing, OnlineSlots DEF ClientUnsubscribe, Pending, Open
<1>6. Broker!Unsubscribe(c, id)
  BY <1>2, <1>3, <1>4, <1>5 DEF Broker!Unsubscribe
<1> QED
  BY <1>6 DEF Broker!Next

(* syncs_free_event removes the topic with its subscriptions. *)
LEMMA RemoveStep ==
    ASSUME TypeOK, EventNamesUnique, EventNamesUnique', writing = NoWrite,
           NEW id \in EventIds, FreeEvent(id)
    PROVE  Broker!Next
<1>1. id # NoId
  BY NameAssumption
<1>2. ASSUME NEW e \in EvSlots
      PROVE  /\ events[e].id = id => events'[e].id = NoId
             /\ events[e].id # id => events'[e] = events[e]
  BY FirstNamed DEF FreeEvent, TypeOK, Event
<1>3. EventNames' = EventNames \ {id}
  BY <1>1, <1>2 DEF EventNames, LiveEvents
<1>4. EventValues' = [EventValues EXCEPT ![id] = << >>]
  <2>1. ASSUME NEW i \in EventIds, i # id
        PROVE  EventValues'[i] = EventValues[i]
    <3>1. i # NoId
      BY NameAssumption
    <3> QED
      BY <1>2, <2>1, <3>1, ValueKept
  <2>2. EventValues'[id] = << >>
    BY <1>1, <1>2, ValueNone
  <2> QED
    BY <2>1, <2>2 DEF EventValues
<1>5. Subscriptions' = {s \in Subscriptions : s[2] # id}
  <2> DEFINE S == {s \in Subscriptions : s[2] # id}
  <2>1. S \subseteq ClSlots \X EventIds
    BY DEF Subscriptions
  <2>2. ASSUME NEW k \in ClSlots, NEW i \in EventIds
        PROVE  <<k, i>> \in Subscriptions' <=> <<k, i>> \in S
    <3>1. <<k, i>> \in S <=> <<k, i>> \in Subscriptions /\ i # id
      OBVIOUS
    <3>2. i # NoId
      BY NameAssumption
    <3> QED
      BY <1>2, <3>1, <3>2, SubscribedBy
  <2> QED
    BY <2>1, <2>2, SubscriptionsEqual
<1>6. Pending' = Pending /\ Pending # id /\ Online' = Online /\ Delivered' = {}
  BY <1>1, AnswersDeliverNothing, OnlineSlots DEF FreeEvent, Pending, Open
<1>7. Broker!Remove(id)
  BY <1>3, <1>4, <1>5, <1>6 DEF Broker!Remove
<1> QED
  BY <1>7 DEF Broker!Next

(* A record that was just looked up or created has the subscribers of its
   name as its consumers, all of them open. *)
LEMMA OpenedConsumers ==
    ASSUME TypeOK, EventNamesUnique, ConsumersAsked, NEW e \in EvSlots,
           NEW id \in EventIds, NEW t \in VarTypes, NEW force \in BOOLEAN,
           Opens(e, id, force)
    PROVE  /\ Opened(e, id, t).consumers = Broker!Subscribers(id)
           /\ \A c \in Broker!Subscribers(id) : Open(c)
<1>1. CASE events[e].id = id
  BY <1>1, ConsumersOpen DEF Opened, Broker!Subscribers
<1>2. CASE events[e].id # id
  <2>0. Opens(e, id, TRUE)
    BY OpensForce
  <2>1. \A f \in EvSlots : events[f].id # id
    BY <1>2, <2>0, OpensSlot
  <2>2. Broker!Subscribers(id) = {}
    BY <2>1, SubscribedBy DEF Broker!Subscribers
  <2>3. Opened(e, id, t).consumers = {}
    BY <1>2, OpenedFields DEF Consumers
  <2> QED
    BY <2>2, <2>3
<1> QED
  BY <1>1, <1>2

(* syncs_send_event delivers to all consumers, but for the producer unless
   the event is to be echoed. *)
LEMMA SendEventDelivers ==
    ASSUME NEW ev, NEW echo \in BOOLEAN, NEW S \in SUBSET ClSlots, ev.consumers = S,
           \A c \in S : Open(c), out' = SendEvent(ev, echo)
    PROVE  Delivered' = Broker!Deliver(S \ {IF echo THEN 0 ELSE ev.producer},
                                       ev.id, Content(ev))
<1> DEFINE w == IF echo THEN 0 ELSE ev.producer
           T == {d \in ev.consumers : d # ev.producer \/ echo}
<1>1. 0 \notin ClSlots
  BY DEF ClSlots
<1>2. T = S \ {w}
  BY <1>1
<1>3. out' = ToOpen(EventsTo(T, ev.id, Content(ev), FALSE))
  BY DEF SendEvent, EventsTo
<1>4. T \in SUBSET ClSlots /\ \A c \in T : Open(c)
  OBVIOUS
<1> HIDE DEF T
<1>5. Delivered' = Broker!Deliver(T, ev.id, Content(ev))
  BY <1>3, <1>4, AllDelivered
<1> QED
  BY <1>2, <1>5

(* What a write leaves in the event. *)
LEMMA StoredContent ==
    ASSUME NEW ev \in Event, NEW d \in Payloads
    PROVE  Content(Store(ev, d)) = d
  BY DEF Store, Content, Event

(* A value is stored and sent to the subscribers in one step. *)
LEMMA PublishStep ==
    ASSUME TypeOK, EventNamesUnique, EventNamesUnique', WritingLive, NEW id \in EventIds,
           NEW d \in Payloads, NEW w \in ClSlots \cup {0},
           Puts(id, {}), EventValues'[id] = d, UNCHANGED <<clients, writing>>,
           Delivered' = Broker!Deliver(Broker!Subscribers(id) \ {w}, id, d)
    PROVE  Broker!Next
<1>1. Subscriptions' = Subscriptions
  BY PutsMapped
<1>2. EventValues' = [EventValues EXCEPT ![id] = d]
  <2>1. \A i \in EventIds \ {id} : EventValues'[i] = EventValues[i]
    BY PutsMapped
  <2> QED
    BY <2>1 DEF EventValues
<1>3. Broker!Publish(id, d, w)
  BY <1>1, <1>2, PutsMapped, PutsPending, OnlineSlots DEF Broker!Publish, Open
<1> QED
  BY <1>3 DEF Broker!Next

(* syncs_client_write up to the callback, or to its end if there is none. *)
LEMMA WriteStep ==
    ASSUME TypeOK, EventNamesUnique, EventNamesUnique', ConsumersAsked, WritingLive,
           writing = NoWrite, NEW c \in ClSlots, NEW id \in EventIds, NEW t \in VarTypes,
           NEW d \in Payloads, NEW force \in BOOLEAN, NEW echo \in BOOLEAN,
           ClientWrite(c, id, t, d, force, echo)
    PROVE  Broker!Next
<1>1. UNCHANGED clients /\ Online' = Online
  BY OnlineSlots DEF ClientWrite, Open
<1>2. CASE ~ \E e \in EvSlots : Opens(e, id, force)
  <2>1. UNCHANGED <<events, writing>> /\ out' = {}
    BY <1>2 DEF ClientWrite
  <2> QED
    BY <1>1, <2>1, QuietStep, AnswersDeliverNothing
<1>3. ASSUME NEW e \in EvSlots, Opens(e, id, force),
             LET ev == Opened(e, id, t)
                 new == [Store(ev, d) EXCEPT !.producer = c,
                                             !.update_counter = update_counter]
             IN IF t = ev.data_type
                THEN /\ events' = [events EXCEPT ![e] = new]
                     /\ update_counter' = update_counter + 1
                     /\ writing' = IF ev.cb THEN [slot |-> e, echo |-> echo]
                                            ELSE NoWrite
                     /\ out' = IF ev.cb THEN {} ELSE SendEvent(new, echo)
                ELSE /\ events' = [events EXCEPT ![e] = ev]
                     /\ out' = {}
                     /\ UNCHANGED <<update_counter, writing>>
      PROVE  Broker!Next
  <2> DEFINE ev == Opened(e, id, t)
             old == Store(ev, d)
             new == [old EXCEPT !.producer = c, !.update_counter = update_counter]
  <2>1. ev \in Event /\ ev.id = id
    BY OpenedType
  <2>2. old \in Event /\ old.id = id /\ old.consumers = ev.consumers /\ Content(old) = d
    BY <2>1, StoreType, StoredContent
  <2>3. /\ new.id = id
        /\ new.consumers = ev.consumers
        /\ new.producer = c
        /\ Content(new) = d
    <3> HIDE DEF old
    <3> QED
      BY <2>2 DEF Event, Content
  <2>4. /\ ev.consumers = Broker!Subscribers(id)
        /\ \A k \in Broker!Subscribers(id) : Open(k)
    BY <1>3, OpenedConsumers
  <2>5. Broker!Subscribers(id) \in SUBSET ClSlots
    BY DEF Broker!Subscribers
  <2>6. Puts(id, {}) \/ UNCHANGED <<events, event_count>>
    BY WritePuts
  <2>7. ASSUME events' = [events EXCEPT ![e] = ev], UNCHANGED writing, out' = {}
        PROVE  Broker!Next
    <3>1. events'[e] = ev
      BY <2>7 DEF TypeOK
    <3>2. EventValues'[id] = EventValues[id]
      BY <1>3, <2>1, <3>1, ValueAtNext, OpenedContent
    <3> QED
      BY <1>1, <2>6, <2>7, <3>2, CreateStep, QuietStep, AnswersDeliverNothing
  <2>8. ASSUME events' = [events EXCEPT ![e] = new]
        PROVE  EventValues'[id] = d /\ events'[e].id = id
    <3>1. events'[e] = new
      BY <2>8 DEF TypeOK
    <3> QED
      BY <2>3, <3>1, ValueAtNext
  <2>9. ASSUME events' = [events EXCEPT ![e] = new], out' = SendEvent(new, echo),
               UNCHANGED writing
        PROVE  Broker!Next
    <3> DEFINE w == IF echo THEN 0 ELSE c
    <3>1. w \in ClSlots \cup {0}
      OBVIOUS
    <3> HIDE DEF new, ev
    <3>2. Delivered' = Broker!Deliver(Broker!Subscribers(id) \ {w}, id, d)
      <4>1. Delivered' = Broker!Deliver(Broker!Subscribers(id) \
                                           {IF echo THEN 0 ELSE new.producer},
                                        new.id, Content(new))
        BY <2>3, <2>4, <2>5, <2>9, SendEventDelivers
      <4> QED
        BY <2>3, <4>1
    <3>3. CASE Puts(id, {})
      BY <1>1, <2>8, <2>9, <3>1, <3>2, <3>3, PublishStep
    <3>4. CASE UNCHANGED <<events, event_count>>
      <4>1. /\ EventNames' = EventNames
            /\ EventValues' = EventValues
            /\ Subscriptions' = Subscriptions
            /\ Pending' = Pending
        BY <2>9, <3>4, EventsMapped
      <4>2. id \in EventNames
        BY <2>8, <2>9, <3>4, NameAssumption DEF EventNames, LiveEvents
      <4>3. EventValues' = [EventValues EXCEPT ![id] = d]
        BY <2>8, <2>9, <4>1 DEF EventValues
      <4>4. Broker!Publish(id, d, w)
        BY <1>1, <3>2, <4>1, <4>2, <4>3 DEF Broker!Publish
      <4> QED
        BY <3>1, <4>4 DEF Broker!Next
    <3> QED
      BY <2>6, <3>3, <3>4
  <2>10. ASSUME events' = [events EXCEPT ![e] = new], out' = {}, ev.cb,
                writing' = [slot |-> e, echo |-> echo]
         PROVE  Broker!Next
    <3>1. events[e].id = id
      BY <2>10 DEF Opened, CreateEvent, EventInit
    <3>2. id \in EventNames
      BY <3>1, NameAssumption DEF EventNames, LiveEvents
    <3>3. writing' # NoWrite /\ writing'.slot = e
      BY <2>10 DEF NoWrite, EvSlots, Null
    <3>4. Pending = NoId /\ Pending' = id
      BY <2>8, <2>10, <3>3 DEF Pending
    <3> HIDE DEF new, ev
    <3>5. /\ EventNames' = EventNames
          /\ Subscriptions' = Subscriptions
          /\ \A i \in EventIds \ {id} : EventValues'[i] = EventValues[i]
      <4>1. CASE Puts(id, {})
        <5>1. Subscriptions' = Subscriptions
          BY <4>1, PutsMapped
        <5>2. EventNames' = EventNames \cup {id}
          BY <4>1, PutsMapped
        <5>3. \A i \in EventIds \ {id} : EventValues'[i] = EventValues[i]
          BY <4>1, PutsMapped
        <5> QED
          BY <3>2, <5>1, <5>2, <5>3
      <4>2. CASE UNCHANGED <<events, event_count>>
        BY <4>2, EventsMapped
      <4> QED
        BY <2>6, <4>1, <4>2
    <3>6. EventValues' = [EventValues EXCEPT ![id] = d]
      BY <2>8, <2>10, <3>5 DEF EventValues
    <3>7. Delivered' = {}
      BY <2>10, AnswersDeliverNothing
    <3>8. Broker!Accept(id, d)
      BY <1>1, <3>2, <3>4, <3>5, <3>6, <3>7 DEF Broker!Accept
    <3> QED
      BY <3>8 DEF Broker!Next
  <2> QED
    BY <1>3, <2>7, <2>9, <2>10
<1> QED
  BY <1>2, <1>3 DEF ClientWrite

(* syncs_client_write after the callback. *)
LEMMA FinishStep ==
    ASSUME TypeOK, EventNamesUnique, ConsumersAsked, WritingLive, FinishWrite
    PROVE  Broker!Next
<1> DEFINE e == writing.slot
           id == events[e].id
           w == IF writing.echo THEN 0 ELSE events[e].producer
<1>1. e \in EvSlots /\ writing.echo \in BOOLEAN
  BY DEF FinishWrite, TypeOK, Write
<1>2. events[e] \in Event
  BY <1>1 DEF TypeOK
<1>3. id # NoId /\ id \in EventIds
  BY <1>2 DEF FinishWrite, WritingLive, Event
<1>4. w \in ClSlots \cup {0}
  BY <1>2 DEF Event, Null
<1>5. /\ events[e].consumers \in SUBSET ClSlots
      /\ events[e].consumers = Broker!Subscribers(id)
      /\ \A c \in events[e].consumers : Open(c)
  BY <1>1, <1>3, ConsumersOpen DEF Broker!Subscribers
<1>6. Delivered' = Broker!Deliver(Broker!Subscribers(id) \ {w}, id, Content(events[e]))
  BY <1>1, <1>5, SendEventDelivers DEF FinishWrite
<1>7. EventValues[id] = Content(events[e])
  BY <1>1, <1>3, ValueAt
<1>8. Pending = id /\ Pending' = NoId
  BY DEF FinishWrite, Pending
<1>9. UNCHANGED events /\ Online' = Online
  BY OnlineSlots DEF FinishWrite, Open
<1> HIDE DEF e, id, w
<1>10. Broker!Flush(w)
  BY <1>3, <1>6, <1>7, <1>8, <1>9, EventsMapped DEF Broker!Flush
<1> QED
  BY <1>4, <1>10 DEF Broker!Next

(* syncs_server_subscribe_event creates the event if need be;
   syncs_server_unsubscribe_event changes nothing clients can see. *)
LEMMA CallbackStep ==
    ASSUME TypeOK, EventNamesUnique, EventNamesUnique', WritingLive, NEW id \in EventIds,
           \/ \E force \in BOOLEAN : ServerSubscribeEvent(id, force)
           \/ ServerUnsubscribeEvent(id)
    PROVE  Broker!Next
<1>1. UNCHANGED <<clients, writing>> /\ Online' = Online /\ Delivered' = {}
  BY OnlineSlots, AnswersDeliverNothing
     DEF ServerSubscribeEvent, ServerUnsubscribeEvent, Open
<1>2. ASSUME NEW force \in BOOLEAN, ServerSubscribeEvent(id, force)
      PROVE  Broker!Next
  <2>1. PICK e \in EvSlots :
           /\ Opens(e, id, force)
           /\ events' = [events EXCEPT ![e] = [Opened(e, id, NotDefined) EXCEPT !.cb = TRUE]]
    BY <1>2 DEF ServerSubscribeEvent
  <2> DEFINE ev == Opened(e, id, NotDefined)
  <2>2. ev \in Event /\ ev.id = id /\ Content(ev) = EventValues[id]
    BY <2>1, OpenedType, OpenedContent, TypeAssumption
  <2>3. events'[e] = [ev EXCEPT !.cb = TRUE]
    BY <2>1 DEF TypeOK
  <2> HIDE DEF ev
  <2>4. events'[e].id = id /\ Content(events'[e]) = Content(ev)
    BY <2>2, <2>3 DEF Event, Content
  <2>5. EventValues'[id] = EventValues[id]
    BY <2>2, <2>4, ValueAtNext
  <2>6. Puts(id, {})
    BY <1>2, ServerPuts
  <2> QED
    BY <1>1, <2>5, <2>6, CreateStep
<1>3. CASE ServerUnsubscribeEvent(id)
  <2>1. PICK e \in EvSlots : events' = [events EXCEPT ![e].cb = FALSE]
    BY <1>3 DEF ServerUnsubscribeEvent
  <2>2. \A f \in EvSlots : /\ events'[f].id = events[f].id
                           /\ events'[f].consumers = events[f].consumers
                           /\ events'[f].full = events[f].full
                           /\ events'[f].data = events[f].data
    BY <2>1 DEF TypeOK, Event
  <2>3. \A f \in EvSlots : Content(events'[f]) = Content(events[f])
    BY <2>2 DEF Content
  <2>4. EventNames' = EventNames
    BY <2>2 DEF EventNames, LiveEvents
  <2>5. EventValues' = EventValues
    <3>1. \A i \in EventIds : EventValues'[i] = EventValues[i]
      BY <2>2, <2>3, ValueKept
    <3> QED
      BY <3>1 DEF EventValues
  <2>6. Subscriptions' = Subscriptions
    BY <2>2 DEF Subscriptions, LiveEvents
  <2>7. Pending' = Pending
    BY <1>1, <2>2 DEF Pending, TypeOK, Write
  <2> QED
    BY <1>1, <2>4, <2>5, <2>6, <2>7 DEF Broker!Next, Broker!Quiet
<1> QED
  BY <1>2, <1>3

(* syncs_server_write, also from a callback. *)
LEMMA ServerWriteStep ==
    ASSUME TypeOK, EventNamesUnique, EventNamesUnique', ConsumersAsked, WritingLive,
           NEW id \in EventIds, NEW d \in Payloads, NEW force \in BOOLEAN,
           NEW echo \in BOOLEAN, ServerWrite(id, d, force, echo)
    PROVE  Broker!Next
<1>1. PICK e \in EvSlots :
         /\ Opens(e, id, force)
         /\ events' = [events EXCEPT ![e] =
                         [Store(Opened(e, id, NotDefined), d) EXCEPT !.producer = Null]]
         /\ out' = SendEvent([Store(Opened(e, id, NotDefined), d) EXCEPT !.producer = Null],
                             echo)
  BY DEF ServerWrite
<1> DEFINE ev == Opened(e, id, NotDefined)
           old == Store(ev, d)
           new == [old EXCEPT !.producer = Null]
<1>2. ev \in Event /\ ev.id = id
  BY OpenedType, TypeAssumption
<1>3. old \in Event /\ old.id = id /\ old.consumers = ev.consumers /\ Content(old) = d
  BY <1>2, StoreType, StoredContent
<1>4. /\ new.id = id
      /\ new.consumers = ev.consumers
      /\ new.producer = 0
      /\ Content(new) = d
  <2> HIDE DEF old
  <2> QED
    BY <1>3 DEF Event, Content, Null
<1>5. /\ ev.consumers = Broker!Subscribers(id)
      /\ \A k \in Broker!Subscribers(id) : Open(k)
  BY <1>1, OpenedConsumers, TypeAssumption
<1>6. Broker!Subscribers(id) \in SUBSET ClSlots
  BY DEF Broker!Subscribers
<1>7. events'[e] = new
  BY <1>1 DEF TypeOK
<1>8. out' = SendEvent(new, echo)
  BY <1>1
<1> HIDE DEF new, ev
<1>9. EventValues'[id] = d
  BY <1>4, <1>7, ValueAtNext
<1>10. Delivered' = Broker!Deliver(Broker!Subscribers(id) \ {0}, id, d)
  <2>1. Delivered' = Broker!Deliver(Broker!Subscribers(id) \
                                       {IF echo THEN 0 ELSE new.producer},
                                    new.id, Content(new))
    BY <1>4, <1>5, <1>6, <1>8, SendEventDelivers
  <2> QED
    BY <1>4, <2>1
<1>11. Puts(id, {}) /\ UNCHANGED <<clients, writing>>
  BY ServerPuts DEF ServerWrite
<1> QED
  BY <1>9, <1>10, <1>11, PublishStep

(* A CLIENT_ID request, for a client known or new. *)
LEMMA ClientIdStep ==
    ASSUME TypeOK, EventNamesUnique, EventNamesUnique', ConsumersAsked, writing = NoWrite,
           NEW c \in ClSlots, NEW id \in ClientIds, NEW version,
           NEW cls \in [ClSlots -> Client],
           \A k \in ClSlots \ {c} : cls[k] = clients[k],
           \A k \in ClSlots \ {c} : asked'[k] = asked[k],
           cls[c].socketfd # "closed",
           ClientId(c, id, version, cls)
    PROVE  Broker!Next
<1>1. OthersSame(c) /\ UNCHANGED writing
  BY ClientIdOthers DEF ClientId
<1>2. Delivered' = {}
  BY AnswersDeliverNothing DEF ClientId
<1>3. CASE version = MAJOR
  <2>1. clients'[c].socketfd # "closed" /\ UNCHANGED events
    BY <1>3, ClientIdOthers
  <2>2. CASE ~Open(c)
    BY <1>1, <1>2, <2>1, <2>2, ConnectStep
  <2>3. CASE Open(c)
    <3>1. Online' = Online
      BY <1>1, <2>1, <2>3, OnlineSlots DEF OthersSame, Open
    <3> QED
      BY <1>1, <1>2, <2>1, <3>1, QuietStep
  <2> QED
    BY <2>2, <2>3
<1>4. CASE version # MAJOR
  <2>1. clients'[c].socketfd = "closed" /\ events' = RemoveClientFromEvents(c)
    BY <1>4, ClientIdOthers
  <2> QED
    BY <1>1, <1>2, <2>1, DisconnectStep
<1> QED
  BY <1>3, <1>4

(* Every other request of an open connection, as long as no DEFINE changes
   the value of an event behind its subscribers' backs. *)
LEMMA RequestStep ==
    ASSUME "DEFINE" \notin Calls, TypeOK, EventNamesUnique, EventNamesUnique',
           ConsumersAsked, WritingLive, writing = NoWrite, NEW c \in ClSlots, Open(c),
           Request(c)
    PROVE  Broker!Next
<1>1. ASSUME UNCHANGED <<events, clients, writing>>, Delivered' = {}
      PROVE  Broker!Next
  BY <1>1, QuietStep, OnlineSlots DEF Open
<1>2. ASSUME NEW id \in EventIds, ClientRead(c, id)
      PROVE  Broker!Next
  BY <1>1, <1>2, AnswersDeliverNothing DEF ClientRead
<1>3. CASE ClientList(c)
  BY <1>1, <1>3, AnswersDeliverNothing DEF ClientList
<1>4. ASSUME NEW id \in ChannelIds,
             ClientChannelRequest(c, id) \/ \E port \in Ports : AddChannel(c, id, port)
      PROVE  Broker!Next
  BY <1>1, <1>4, AnswersDeliverNothing DEF ClientChannelRequest, AddChannel
<1> QED
  BY <1>2, <1>3, <1>4, SubscribeStep, UnsubscribeStep, RemoveStep, WriteStep DEF Request

(* Every step of the server is a step of the broker, or none. *)
LEMMA NextStep ==
    ASSUME Calls \cap {"DEFINE", "server_define", "server_undefine"} = {},
           TypeOK, EventNamesUnique, EventNamesUnique', CurrentOpen, ConsumersAsked,
           WritingLive, [Next]_vars
    PROVE  [Broker!Next]_(Broker!pubsub)
<1>1. ASSUME NEW a \in Addrs, AddClient(a)
      PROVE  Broker!Next
  BY <1>1, AddClientOthers, ConnectStep, AnswersDeliverNothing DEF AddClient
<1>2. ASSUME NEW a \in Addrs, UdpPacket(a)
      PROVE  Broker!Next
  <2>1. PICK c \in ClSlots :
           /\ First(c, UdpAt(a))
           /\ \/ Request(c)
              \/ \E id \in ClientIds, version \in UdpVersions :
                    ClientId(c, id, version, clients) /\ UNCHANGED asked
    BY <1>2 DEF UdpPacket
  <2>2. Open(c) /\ writing = NoWrite
    BY <1>2, <2>1 DEF First, UdpAt, Open, UdpPacket, Idle
  <2> QED
    BY <2>1, <2>2, RequestStep, ClientIdStep DEF TypeOK, Open
<1>3. ASSUME NEW a \in Addrs, NEW id \in ClientIds, NEW version \in UdpVersions,
             UdpNewAddress(a, id, version)
      PROVE  Broker!Next
  <2>1. writing = NoWrite
    BY <1>3 DEF UdpNewAddress, Idle
  <2> QED
    BY <1>3, <2>1, UdpNewOthers, ClientIdStep
<1>4. ASSUME NEW c \in ClSlots, ProcessPacket(c)
      PROVE  Broker!Next
  <2>1. Open(c) /\ writing = NoWrite
    BY <1>4 DEF ProcessPacket, CurrentOpen, Open, ClSlots, Null
  <2>2. \/ Request(c)
        \/ \E id \in ClientIds, version \in TcpVersions :
              ClientId(c, id, version, clients) /\ UNCHANGED asked
    BY <1>4 DEF ProcessPacket
  <2> QED
    BY <2>1, <2>2, RequestStep, ClientIdStep DEF TypeOK, Open
<1>5. ASSUME NEW c \in ClSlots, HangUp(c)
      PROVE  Broker!Next
  <2>1. writing = NoWrite /\ UNCHANGED writing /\ Delivered' = {}
    BY <1>5, AnswersDeliverNothing DEF HangUp, Idle
  <2> QED
    BY <1>5, <2>1, HangUpOthers, DisconnectStep
<1>6. CASE \/ \E a \in Addrs : UdpUnknown(a)
           \/ \E c \in ClSlots : ReceiveBytes(c)
           \/ EndOfBytes
  <2>1. UNCHANGED <<events, clients, writing>>
    BY <1>6 DEF UdpUnknown, ReceiveBytes, EndOfBytes
  <2>2. Delivered' = {}
    BY <1>6, AnswersDeliverNothing DEF UdpUnknown, ReceiveBytes, EndOfBytes
  <2> QED
    BY <2>1, <2>2, QuietStep, OnlineSlots DEF Open
<1>7. CASE FinishWrite
  BY <1>7, FinishStep
<1>8. CASE Application
  BY <1>8, CallbackStep, ServerWriteStep DEF Application, ServerDefine, ServerUndefine
<1>9. CASE UNCHANGED vars
  <2>1. /\ EventNames' = EventNames
        /\ EventValues' = EventValues
        /\ Subscriptions' = Subscriptions
        /\ Pending' = Pending
        /\ Online' = Online
        /\ Delivered' = Delivered
    BY <1>9, EventsMapped, OnlineSlots DEF vars, Open, Delivered, EventPackets
  <2> QED
    BY <2>1 DEF Broker!pubsub
<1> QED
  BY <1>1, <1>2, <1>3, <1>4, <1>5, <1>6, <1>7, <1>8, <1>9 DEF Next, Network

(* Only the application runs during a callback, and of its calls only
   syncs_server_undefine takes a name away. *)
LEMMA NextWritingLive ==
    ASSUME "server_undefine" \notin Calls, TypeOK, WritingLive, [Next]_vars
    PROVE  WritingLive'
<1>1. ASSUME UNCHANGED <<events, writing>>
      PROVE  WritingLive'
  BY <1>1 DEF WritingLive
<1>2. ASSUME writing' = NoWrite
      PROVE  WritingLive'
  BY <1>2 DEF WritingLive
<1>3. ASSUME UNCHANGED writing,
             \E id \in EventIds : Puts(id, {})
      PROVE  WritingLive'
  <2>1. PICK id \in EventIds, e \in EvSlots, ev \in Event : PutsAt(e, ev, id, {})
    BY <1>3 DEF Puts
  <2>2. /\ events'[e].id = id
        /\ \A f \in EvSlots \ {e} : events'[f] = events[f]
    BY <2>1 DEF PutsAt, TypeOK
  <2> QED
    BY <1>3, <2>2, NameAssumption DEF WritingLive, TypeOK, Write
<1>4. ASSUME NEW c \in ClSlots, Request(c), writing = NoWrite
      PROVE  WritingLive'
  <2>1. ASSUME NEW id \in EventIds, NEW t \in VarTypes, NEW d \in Payloads,
               NEW force \in BOOLEAN, NEW echo \in BOOLEAN,
               ClientWrite(c, id, t, d, force, echo)
        PROVE  WritingLive'
    <3>1. CASE writing' = NoWrite
      BY <1>2, <3>1
    <3>2. CASE writing' # NoWrite
      <4> DEFINE ev(e) == Opened(e, id, t)
                 old(e) == Store(ev(e), d)
                 new(e) == [old(e) EXCEPT !.producer = c, !.update_counter = update_counter]
      <4>1. PICK e \in EvSlots :
               /\ events' = [events EXCEPT ![e] = new(e)]
               /\ writing' = [slot |-> e, echo |-> echo]
        BY <1>4, <2>1, <3>2 DEF ClientWrite
      <4>2. old(e) \in Event /\ old(e).id = id
        BY OpenedType, StoreType
      <4>3. events'[e] = new(e) /\ writing'.slot = e
        BY <4>1 DEF TypeOK
      <4> HIDE DEF old
      <4>4. events'[e].id = id
        BY <4>2, <4>3 DEF Event
      <4> QED
        BY <4>3, <4>4, NameAssumption DEF WritingLive
    <3> QED
      BY <3>1, <3>2
  <2>2. CASE UNCHANGED writing
    BY <1>2, <1>4, <2>2
  <2>3. ASSUME NEW id
        PROVE  /\ \A t, force, counter : ClientSubscribe(c, id, t, force, counter) => UNCHANGED writing
               /\ ClientUnsubscribe(c, id) => UNCHANGED writing
               /\ \A t, force, sized : AddEvent(id, t, force, << >>, sized) => UNCHANGED writing
               /\ FreeEvent(id) => UNCHANGED writing
               /\ ClientRead(c, id) => UNCHANGED writing
               /\ \A port : AddChannel(c, id, port) => UNCHANGED writing
               /\ ClientChannelRequest(c, id) => UNCHANGED writing
    <3>1. \A t, force, counter : ClientSubscribe(c, id, t, force, counter) => UNCHANGED writing
      BY DEF ClientSubscribe
    <3>2. /\ ClientUnsubscribe(c, id) => UNCHANGED writing
          /\ FreeEvent(id) => UNCHANGED writing
      BY DEF ClientUnsubscribe, FreeEvent
    <3>3. \A t, force, sized : AddEvent(id, t, force, << >>, sized) => UNCHANGED writing
      BY DEF AddEvent
    <3>4. ClientRead(c, id) => UNCHANGED writing
      BY DEF ClientRead
    <3>5. /\ \A port : AddChannel(c, id, port) => UNCHANGED writing
          /\ ClientChannelRequest(c, id) => UNCHANGED writing
      BY DEF AddChannel, ClientChannelRequest
    <3> QED
      BY <3>1, <3>2, <3>3, <3>4, <3>5
  <2>4. ClientList(c) => UNCHANGED writing
    BY DEF ClientList
  <2> QED
    BY <1>4, <2>1, <2>2, <2>3, <2>4 DEF Request
<1>5. ASSUME NEW c \in ClSlots, NEW id, NEW version, NEW cls,
             ClientId(c, id, version, cls), writing = NoWrite
      PROVE  WritingLive'
  BY <1>2, <1>5 DEF ClientId
<1>6. CASE Network
  BY <1>1, <1>2, <1>4, <1>5, <1>6
     DEF Network, AddClient, UdpPacket, UdpUnknown, UdpNewAddress, ReceiveBytes,
         ProcessPacket, HangUp, EndOfBytes, FinishWrite, Idle
<1>7. ASSUME NEW id \in EventIds, ServerUnsubscribeEvent(id)
      PROVE  WritingLive'
  <2>1. PICK e \in EvSlots : events' = [events EXCEPT ![e].cb = FALSE]
    BY <1>7 DEF ServerUnsubscribeEvent
  <2>2. \A f \in EvSlots : events'[f].id = events[f].id
    BY <2>1 DEF TypeOK, Event
  <2> QED
    BY <1>7, <2>2 DEF ServerUnsubscribeEvent, WritingLive, TypeOK, Write
<1>8. CASE Application
  <2>1. ASSUME NEW id \in EventIds, NEW force \in BOOLEAN,
               \/ ServerSubscribeEvent(id, force)
               \/ \E d \in Payloads, echo \in BOOLEAN : ServerWrite(id, d, force, echo)
        PROVE  WritingLive'
    BY <1>3, <2>1, ServerPuts DEF ServerSubscribeEvent, ServerWrite
  <2>2. ASSUME NEW id \in EventIds, NEW t \in VarTypes, NEW force \in BOOLEAN,
               NEW sized \in BOOLEAN, NEW d \in Payloads \cup {<< >>},
               ServerDefine(id, t, force, d, sized)
        PROVE  WritingLive'
    <3>1. AddEvent(id, t, force, d, sized) /\ UNCHANGED writing
      BY <2>2 DEF ServerDefine, AddEvent
    <3> QED
      BY <1>1, <1>3, <3>1, AddEventPuts
  <2> QED
    BY <1>7, <1>8, <2>1, <2>2 DEF Application, ServerUndefine
<1>9. CASE UNCHANGED vars
  BY <1>1, <1>9 DEF vars
<1> QED
  BY <1>6, <1>8, <1>9 DEF Next

(* The server implements the broker, for arrays of any size and any number
   of clients and names: as long as nobody redefines an event, which changes
   its value and tells nobody, or undefines one from a callback, and with TCP
   clients of the server's own major version.  The invariant that the
   mapping needs: names are unique, so a name's value is that of one slot;
   consumers are open, so that whoever has subscribed can be sent to; and
   the event of an unfinished write is there. *)
THEOREM ServerImplementsBroker ==
    ASSUME TcpVersions \subseteq {MAJOR},
           Calls \cap {"DEFINE", "server_define", "server_undefine"} = {}
    PROVE  Spec => ImplementsBroker
<1> DEFINE IInv == EventNamesUnique /\ CurrentOpen /\ ConsumersAsked /\ WritingLive
<1>1. Init => IInv
  BY DEF Init, EventNamesUnique, CurrentOpen, ConsumersAsked, LiveEvents, WritingLive
<1>2. TypeOK /\ IInv /\ [Next]_vars => IInv'
  BY NextNames, KeptNames, PutsNames, NextCurrentOpen, NextAsked, NextWritingLive
<1>3. Init => Broker!Init
  <2> SUFFICES ASSUME Init PROVE Broker!Init
    OBVIOUS
  <2>1. LiveEvents = {} /\ \A id \in EventIds : EventsNamed(id) = {}
    BY NameAssumption DEF Init, LiveEvents, EventsNamed
  <2>2. Online = {}
    BY DEF Init, Online, FreeClients
  <2>3. EventValues = [t \in EventIds |-> << >>]
    BY <2>1 DEF EventValues, Holds
  <2>4. EventNames = {} /\ Subscriptions = {} /\ Pending = NoId /\ Delivered = {}
    BY <2>1 DEF Init, EventNames, Subscriptions, Pending, Delivered, EventPackets
  <2> QED
    BY <2>2, <2>3, <2>4 DEF Broker!Init
<1>4. TypeOK /\ IInv /\ IInv' /\ [Next]_vars => [Broker!Next]_(Broker!pubsub)
  BY NextStep
<1> QED
  BY <1>1, <1>2, <1>3, <1>4, TypeCorrect, PTL DEF Spec, ImplementsBroker, Broker!Spec
=============================================================================
