----------------------------- MODULE StoreLive -----------------------------
(***************************************************************************)
(* The dashboards of the stores: main.py's ws_store, _agent_loop and       *)
(* _broadcast, with the result of the last cycle that CronTrigger          *)
(* (app/sales/orchestration) keeps.                                        *)
(*                                                                         *)
(* A browser connects under one of the ids of a store: its POS id or an    *)
(* alias.  Connections, loops and last payloads are kept by id; what is    *)
(* broadcast is delivered to every id of the store.  All of it runs on one *)
(* event loop: a step goes from one await to the next.                     *)
(***************************************************************************)
EXTENDS Integers

CONSTANTS
    Store, Id, Browser,
    map_store_id,   \* the store of an id
    None,
    Budget          \* bound: connections, departures, events and failures

ASSUME BudgetAssumption == Budget \in Nat
ASSUME MapAssumption == map_store_id \in [Id -> Store]
ASSUME NoneAssumption == None \notin Id \cup Store
ASSUME BrowserAssumption == Browser # {}

VARIABLES
    socket,       \* of each browser: its id, its handler and whether it answers
    connections,  \* _store_connections
    last_payload, \* _last_payload
    running,      \* _agent_running
    loop,         \* _agent_loop of each id
    last_result,  \* the store of CronTrigger.last_result
    shown,        \* the last message each browser received
    budget

vars == <<socket, connections, last_payload, running, loop, last_result, shown, budget>>

\* store: whose message it is; summary: the store its summary is about.
Payload(kind, s, summary) == [kind |-> kind, store |-> s, summary |-> summary]
Kinds == {"processing", "metrics", "event"}

Away == [id |-> None, pc |-> "away", here |-> FALSE]
\* What is left to send: the ids not reached yet; and the sockets that failed.
Sent == [payload |-> None, ids |-> {}, dead |-> {}]
Off == [pc |-> "off", next |-> "off", out |-> Sent]

Spend == budget > 0 /\ budget' = budget - 1

Message == [kind : Kinds, store : Store, summary : Store \cup {None}]
ASSUME MessageAssumption == None \notin Message
Socket == [id : Id, pc : {"hello", "beat"}, here : BOOLEAN] \cup {Away}
Sends == [payload : Message \cup {None}, ids : SUBSET Id, dead : SUBSET Browser]
Loop == [pc : {"off", "boot", "top", "agents", "rest", "sending"},
         next : {"off", "top", "agents", "rest"}, out : Sends]

\* A browser has been sent something as soon as it is connected.
TypeOK ==
    /\ socket \in [Browser -> Socket]
    /\ connections \in [Id -> SUBSET Browser]
    /\ last_payload \in [Id -> Message \cup {None}]
    /\ running \in [Id -> BOOLEAN]
    /\ loop \in [Id -> Loop]
    /\ last_result \in Store \cup {None}
    /\ shown \in [Browser -> Message \cup {None}]
    /\ \A b \in Browser : shown[b] = None <=> socket[b] = Away
    /\ budget \in 0..Budget

\* A first browser has just connected.
Init ==
    /\ \E b \in {CHOOSE b \in Browser : TRUE}, i \in Id :
         /\ socket = [[c \in Browser |-> Away] EXCEPT
                        ![b] = [id |-> i, pc |-> "hello", here |-> TRUE]]
         /\ connections = [[k \in Id |-> {}] EXCEPT ![i] = {b}]
         /\ shown = [[c \in Browser |-> None] EXCEPT
                       ![b] = Payload("processing", map_store_id[i], None)]
    /\ last_payload = [i \in Id |-> None]
    /\ running = [i \in Id |-> FALSE] /\ loop = [i \in Id |-> Off]
    /\ last_result = None /\ budget = Budget

----------------------------------------------------------------------------
(* _broadcast                                                              *)

\* Begun by a task: the payload is kept for the id it was broadcast to, and the
\* ids of the same store are picked.
\* (variant: the ids of all stores)
OutToAll(i, payload) ==
    [Sent EXCEPT !.payload = payload, !.ids = {k \in Id : connections[k] # {}}]
Out(i, payload) ==
    [Sent EXCEPT !.payload = payload,
       !.ids = {k \in Id : map_store_id[k] = map_store_id[i] /\ connections[k] # {}}]
Keep(i, payload) == last_payload' = [last_payload EXCEPT ![i] = payload]

\* The sockets an id has when it is reached; those that fail are removed at the
\* end.
Reached(out, k) ==
    [out EXCEPT !.ids = @ \ {k}, !.dead = @ \cup {b \in connections[k] : ~socket[b].here}]
Receive(k, payload) ==
    shown' = [b \in Browser |->
                IF b \in connections[k] /\ socket[b].here THEN payload ELSE shown[b]]
Over(out) == out # Sent /\ out.ids = {}
Forget(out) == connections' = [k \in Id |-> connections[k] \ out.dead]

\* Sales, stockouts, alerts and recalculations, by tasks of their own; their
\* sends are taken together.
EventHappens(i) ==
    LET p == Payload("event", map_store_id[i], None)
        to == UNION {connections[k] : k \in Out(i, p).ids} IN
    /\ Spend
    /\ Keep(i, p)
    /\ shown' = [b \in Browser |-> IF b \in to /\ socket[b].here THEN p ELSE shown[b]]
    /\ connections' = [k \in Id |-> {b \in connections[k] : b \in to => socket[b].here}]
    /\ UNCHANGED <<socket, running, loop, last_result>>

----------------------------------------------------------------------------
(* _agent_loop                                                             *)

Sending(i, payload, next) ==
    /\ loop' = [loop EXCEPT ![i] = [pc |-> "sending", next |-> next, out |-> Out(i, payload)]]
    /\ Keep(i, payload)
Goes(i, pc) ==
    loop' = [loop EXCEPT ![i] = [Off EXCEPT !.pc = pc]] /\ UNCHANGED last_payload

LoopSends(i, k) ==
    /\ k \in loop[i].out.ids
    /\ loop' = [loop EXCEPT ![i].out = Reached(@, k)]
    /\ Receive(k, loop[i].out.payload)
    /\ UNCHANGED <<socket, connections, last_payload, running, last_result, budget>>

LoopSent(i) ==
    /\ Over(loop[i].out)
    /\ Goes(i, loop[i].next) /\ Forget(loop[i].out)
    /\ UNCHANGED <<socket, running, last_result, shown, budget>>

\* The initial payload has the summary of the last cycle, whichever the store
\* (its actions only if it was of this store), or the store's own figures.
Summary(i) == IF last_result # None THEN last_result ELSE map_store_id[i]

Boot(i) ==
    /\ loop[i].pc = "boot"
    /\ Sending(i, Payload("metrics", map_store_id[i], Summary(i)), "top")
    /\ UNCHANGED <<socket, connections, running, last_result, shown, budget>>

\* The data or the payload of a cycle could not be had: it is logged.
Fails(i) ==
    /\ Spend
    /\ loop[i].pc \in {"boot", "agents"}
    /\ Goes(i, IF loop[i].pc = "boot" THEN "top" ELSE "rest")
    /\ UNCHANGED <<socket, connections, running, last_result, shown>>

\* The test of the loop, and its end when nobody is connected under its id.
\* (variants: under any id of the store; the flag is left)
AloneInStore(i) == \A k \in Id : map_store_id[k] = map_store_id[i] => connections[k] = {}
Alone(i) == connections[i] = {}
FlagLeft(i) == running
FlagDown(i) == [running EXCEPT ![i] = FALSE]

Top(i) ==
    /\ loop[i].pc = "top"
    /\ IF Alone(i)
         THEN Goes(i, "off") /\ running' = FlagDown(i)
         ELSE /\ Sending(i, Payload("processing", map_store_id[i], None), "agents")
              /\ UNCHANGED running
    /\ UNCHANGED <<socket, connections, last_result, shown, budget>>

\* _run_agents: the supervisor's answer, or its figures alone after 150 s.
Agents(i) ==
    /\ loop[i].pc = "agents"
    /\ LET s == map_store_id[i] IN Sending(i, Payload("metrics", s, s), "rest")
    /\ UNCHANGED <<socket, connections, running, last_result, shown, budget>>

\* Two minutes, or until nobody is connected.
Rest(i) ==
    /\ loop[i].pc = "rest"
    /\ Goes(i, "top")
    /\ UNCHANGED <<socket, connections, running, last_result, shown, budget>>

----------------------------------------------------------------------------
(* ws_store                                                                *)

\* What is sent on connecting: the last payload, or that data are loading.
\* (variant: nothing when there is none)
HelloLast(b, i) == shown' = [shown EXCEPT ![b] = last_payload[i]]
Hello(b, i) ==
    shown' = [shown EXCEPT ![b] =
      IF last_payload[i] # None THEN last_payload[i]
      ELSE Payload("processing", map_store_id[i], None)]

Connect(b, i) ==
    /\ Spend
    /\ socket[b] = Away
    /\ socket' = [socket EXCEPT ![b] = [id |-> i, pc |-> "hello", here |-> TRUE]]
    /\ connections' = [connections EXCEPT ![i] = @ \cup {b}]
    /\ Hello(b, i)
    /\ UNCHANGED <<last_payload, running, loop, last_result>>

\* Once it is sent: the loop of the id is started, unless it runs.
\* (variant: unless it has run)
StartsOnce(i) == last_payload[i] = None
Starts(i) == ~running[i]

Welcome(b) ==
    LET i == socket[b].id IN
    /\ socket[b].pc = "hello"
    /\ socket' = [socket EXCEPT ![b].pc = "beat"]
    /\ IF Starts(i)
         THEN /\ running' = [running EXCEPT ![i] = TRUE]
              /\ loop' = [loop EXCEPT ![i] = [Off EXCEPT !.pc = "boot"]]
         ELSE UNCHANGED <<running, loop>>
    /\ UNCHANGED <<connections, last_payload, last_result, shown, budget>>

\* Nothing is read from the socket: that the browser left is only seen when
\* something is sent to it.
Leave(b) ==
    /\ Spend
    /\ socket[b].here
    /\ socket' = [socket EXCEPT ![b].here = FALSE]
    /\ UNCHANGED <<connections, last_payload, running, loop, last_result, shown>>

\* The ping of every 30 s fails.
Beat(b) ==
    /\ socket[b].pc = "beat" /\ ~socket[b].here
    /\ connections' = [connections EXCEPT ![socket[b].id] = @ \ {b}]
    /\ socket' = [socket EXCEPT ![b] = Away] /\ shown' = [shown EXCEPT ![b] = None]
    /\ loop' = [i \in Id |-> [loop[i] EXCEPT !.out.dead = @ \ {b}]]
    /\ UNCHANGED <<last_payload, running, last_result, budget>>

----------------------------------------------------------------------------
(* run_cycle, for CronTrigger and fire_now.                                *)

\* Cycles of several stores, the periodic ones and those asked for, end in any
\* order.
CycleEnds(s) ==
    /\ last_result' = s /\ last_result # s
    /\ UNCHANGED <<socket, connections, last_payload, running, loop, shown, budget>>

----------------------------------------------------------------------------
LoopStep(i) ==
    \/ \E k \in Id : LoopSends(i, k)
    \/ LoopSent(i) \/ Boot(i) \/ Top(i) \/ Agents(i) \/ Rest(i)

Next ==
    \/ \E i \in Id : LoopStep(i) \/ Fails(i) \/ EventHappens(i)
    \/ \E b \in Browser : Welcome(b) \/ Leave(b) \/ Beat(b) \/ \E i \in Id : Connect(b, i)
    \/ \E s \in Store : CycleEnds(s)

Spec == Init /\ [][Next]_vars

\* The event loop runs every task that is ready; sends end, one way or the other.
FairSpec ==
    /\ Spec
    /\ \A i \in Id : WF_vars(LoopStep(i))
    /\ \A b \in Browser : WF_vars(Welcome(b) \/ Beat(b))

----------------------------------------------------------------------------
(* Properties.                                                             *)

\* A browser that is connected and answers has a loop that runs for its id,
\* whatever loop was ending when it came; and the flag tells the truth.
ConnectedIsServed ==
    /\ \A i \in Id : running[i] <=> loop[i].pc # "off"
    /\ \A b \in Browser : socket[b].pc = "beat" /\ socket[b].here =>
         b \in connections[socket[b].id] /\ running[socket[b].id]

\* No message of one store reaches the browsers of another ("aucune diaphonie
\* entre boutiques"), directly or from the payload kept for an id.
NoCrosstalk ==
    \A b \in Browser : shown[b] # None => shown[b].store = map_store_id[socket[b].id]

\* A browser that stays is shown the figures of its store, even if all it finds
\* on connecting is a message that an analysis is under way.
FiguresAreShown ==
    \A b \in Browser :
      socket[b].here ~> ~socket[b].here \/ shown[b].kind = "metrics"

\* The loop of an id ends when its browsers have left, though departures are
\* only noticed by messages that fail, and others of the store may stay.
LoopEnds ==
    \A i \in Id : running[i] ~> ~running[i] \/ \E b \in Browser : socket[b].here /\ socket[b].id = i

\* The summary of the initial payload is that of a cycle of the store ("Réutiliser
\* le dernier cycle réel connu").
SummaryIsOwn ==
    \A b \in Browser : shown[b] # None =>
      shown[b].summary \in {None, map_store_id[socket[b].id]}
=============================================================================
