------------------------------- MODULE PubSub -------------------------------
(***************************************************************************)
(* What the server promises its clients about events, without slots,       *)
(* counters or packets: clients come and go, subscribe to topics by name,  *)
(* and a published value becomes the topic's and reaches every subscriber, *)
(* all of them in one step and nobody else.                                *)
(***************************************************************************)
CONSTANTS
    Clients, Topics, Values,
    None  \* no topic

VARIABLES
    online,  \* the connected clients
    topics,  \* the topics that exist
    value,   \* their values; << >> is none
    subs,    \* pairs <<client, topic>>
    pending, \* the topic whose new value has not been sent yet, or None
    sent     \* deliveries <<client, topic, value>> of the last step

pubsub == <<online, topics, value, subs, pending, sent>>

Subscribers(t) == {c \in Clients : <<c, t>> \in subs}
Deliver(S, t, v) == {<<c, t, v>> : c \in S}

Init ==
    /\ online = {}
    /\ topics = {}
    /\ value = [t \in Topics |-> << >>]
    /\ subs = {}
    /\ pending = None
    /\ sent = {}

(* A client connects, and owns no subscription yet. *)
Connect(c) ==
    /\ c \notin online
    /\ online' = online \cup {c}
    /\ sent' = {}
    /\ UNCHANGED <<topics, value, subs, pending>>

(* A client disconnects, and its subscriptions go with it. *)
Disconnect(c) ==
    /\ c \in online
    /\ online' = online \ {c}
    /\ subs' = {s \in subs : s[1] # c}
    /\ sent' = {}
    /\ UNCHANGED <<topics, value, pending>>

Create(t) ==
    /\ topics' = topics \cup {t}
    /\ sent' = {}
    /\ UNCHANGED <<online, value, subs, pending>>

(* A topic is removed together with its value and its subscriptions. *)
Remove(t) ==
    /\ pending # t
    /\ topics' = topics \ {t}
    /\ value' = [value EXCEPT ![t] = << >>]
    /\ subs' = {s \in subs : s[2] # t}
    /\ sent' = {}
    /\ UNCHANGED <<online, pending>>

(* A connected client subscribes, creating the topic if need be; it may be
   told the current value. *)
Subscribe(c, t) ==
    /\ c \in online
    /\ topics' = topics \cup {t}
    /\ subs' = subs \cup {<<c, t>>}
    /\ sent' \in {{}, Deliver({c}, t, value[t])}
    /\ UNCHANGED <<online, value, pending>>

Unsubscribe(c, t) ==
    /\ subs' = subs \ {<<c, t>>}
    /\ sent' = {}
    /\ UNCHANGED <<online, topics, value, pending>>

(* A new value goes to all subscribers of the topic; only the writer w, if
   it is a subscriber itself, may be left out. *)
Publish(t, v, w) ==
    /\ topics' = topics \cup {t}
    /\ value' = [value EXCEPT ![t] = v]
    /\ sent' = Deliver(Subscribers(t) \ {w}, t, v)
    /\ UNCHANGED <<online, subs, pending>>

(* The same in two steps: the value is stored and sent later, one topic at a
   time.  What is sent is the value that the topic then has. *)
Accept(t, v) ==
    /\ pending = None
    /\ t \in topics
    /\ value' = [value EXCEPT ![t] = v]
    /\ pending' = t
    /\ sent' = {}
    /\ UNCHANGED <<online, topics, subs>>

Flush(w) ==
    /\ pending # None
    /\ sent' = Deliver(Subscribers(pending) \ {w}, pending, value[pending])
    /\ pending' = None
    /\ UNCHANGED <<online, topics, value, subs>>

(* Steps that concern no subscription: answers to reads and lists. *)
Quiet == sent' = {} /\ UNCHANGED <<online, topics, value, subs, pending>>

Next ==
    \/ \E c \in Clients : Connect(c) \/ Disconnect(c)
    \/ \E t \in Topics : Create(t) \/ Remove(t)
    \/ \E c \in Clients, t \in Topics : Subscribe(c, t) \/ Unsubscribe(c, t)
    \/ \E t \in Topics, v \in Values :
          \/ \E w \in Clients \cup {0} : Publish(t, v, w)
          \/ Accept(t, v)
    \/ \E w \in Clients \cup {0} : Flush(w)
    \/ Quiet

Spec == Init /\ [][Next]_pubsub
=============================================================================
