--------------------------- MODULE SyncsDelivery ---------------------------
(***************************************************************************)
(* What the server's clients know of its events: a history variable keeps  *)
(* what each client was last told, or said itself that it has, to compare  *)
(* it with what the server holds.                                          *)
(***************************************************************************)
EXTENDS SyncsServer

VARIABLE seen  \* history: the value of each name each connection last had

Unseen == <<NoId>>

Connected(c) == clients[c].socketfd = "closed" /\ clients'[c].socketfd # "closed"

(* Client c becomes a consumer of the event named id. *)
Joins(c, id) ==
    \E e \in EvSlots : /\ events'[e].id = id /\ c \in events'[e].consumers
                       /\ ~(events[e].id = id /\ c \in events[e].consumers)

(* The value of name id that this step showed to client c: it was sent an
   event, or wrote the event itself, or subscribed with the counter of this
   write or of a later one, by which it says that it has the value from an
   earlier connection.  Counter 0 says that it has none. *)
Shown(c, id, counter) ==
    {p.data : p \in {q \in EventPackets' : q.to = c /\ q.id = id}}
    \cup {Content(events'[e]) :
            e \in {f \in EvSlots : /\ update_counter' # update_counter
                                   /\ events'[f].id = id
                                   /\ events'[f].producer = c
                                   /\ events'[f].update_counter = update_counter}}
    \cup {Content(events'[e]) :
            e \in {f \in EvSlots : /\ counter > 0
                                   /\ counter >= events'[f].update_counter
                                   /\ events'[f].id = id
                                   /\ Joins(c, id)}}

(* The step is explained by a subscription that carries this counter, if it is
   one that adds a consumer. *)
SeenWith(counter) ==
    /\ \A c \in ClSlots, id \in EventIds :
          Joins(c, id) => \E t \in VarTypes, force \in BOOLEAN :
                             ClientSubscribe(c, id, t, force, counter)
    /\ seen' = [c \in ClSlots |-> [id \in EventIds |->
                   LET shown == Shown(c, id, counter)
                   IN  IF Connected(c) THEN Unseen
                       ELSE IF shown # {} THEN CHOOSE d \in shown : TRUE
                       ELSE seen[c][id]]]

SeenNext ==
    \E counter \in IF \E c \in ClSlots, id \in EventIds : Joins(c, id) THEN Counters ELSE {0} :
        SeenWith(counter)

DeliveryInit == Init /\ seen = [c \in ClSlots |-> [id \in EventIds |-> Unseen]]
DeliverySpec == DeliveryInit /\ [][Next /\ SeenNext]_<<vars, seen>>

----------------------------------------------------------------------------
(* Every consumer of an event written since the server's first write has its
   current value, be it by delivery, as its own write or by the replay that
   answers its subscription (syncs_client_subscribe), whatever counter that
   carried; or it has said with that counter that it has this write or a later
   one.  Whether a client says so rightly is not the server's part: it is the
   counter of the last event it received (syncs_process_event). *)
UpToDate ==
    writing = NoWrite =>
        \A e \in LiveEvents : \A c \in events[e].consumers :
            events[e].update_counter > 0 =>
                seen[c][events[e].id] = Content(events[e])

(* README.md promises it of all subscribed clients, hence of every event
   that a client has written a value to. *)
AllUpToDate ==
    writing = NoWrite =>
        \A e \in LiveEvents : \A c \in events[e].consumers :
            events[e].producer # Null /\ events[e].full =>
                seen[c][events[e].id] = Content(events[e])
=============================================================================
