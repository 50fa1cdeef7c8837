--------------------------- MODULE StoreLive_proofs ---------------------------
(***************************************************************************)
(* Proofs about the dashboards of the stores: types, a loop for every      *)
(* connected browser, no message of another store; for any stores, ids,    *)
(* aliases and browsers.                                                   *)
(***************************************************************************)
EXTENDS StoreLive, TLAPS

\* A connection is registered under the id of its socket, and as long as its
\* browser answers; the last message is of its store.
BrowserInv(b) ==
    /\ \A k \in Id : b \in connections[k] => socket[b] # Away /\ socket[b].id = k
    /\ socket[b].here => b \in connections[socket[b].id]
    /\ socket[b].pc = "beat" /\ socket[b].here => running[socket[b].id]
    /\ shown[b] # None => shown[b].store = map_store_id[socket[b].id]

\* A loop is sending or has nothing to send; what it sends is of its store, to
\* ids of its store; the sockets it found dead do not answer any more.
LoopInv(i) ==
    /\ running[i] <=> loop[i].pc # "off"
    /\ loop[i].pc # "sending" => loop[i].out = Sent
    /\ loop[i].pc = "sending" => /\ loop[i].next # "off"
                                 /\ loop[i].out.payload \in Message
                                 /\ loop[i].out.payload.store = map_store_id[i]
    /\ \A k \in loop[i].out.ids : map_store_id[k] = map_store_id[i]
    /\ \A b \in loop[i].out.dead : socket[b] # Away /\ ~socket[b].here

PayloadInv(i) == last_payload[i] # None => last_payload[i].store = map_store_id[i]

IInv ==
    /\ TypeOK
    /\ \A b \in Browser : BrowserInv(b)
    /\ \A i \in Id : LoopInv(i) /\ PayloadInv(i)

-----------------------------------------------------------------------------
LEMMA OffType == Sent \in Sends /\ Off \in Loop /\ Off.pc = "off" /\ Off.out = Sent
BY DEF Sent, Sends, Off, Loop

LEMMA AwayType == Away \in Socket /\ ~Away.here /\ Away.pc = "away"
BY DEF Away, Socket

LEMMA PayloadType ==
    ASSUME NEW kind \in Kinds, NEW s \in Store, NEW u \in Store \cup {None}
    PROVE  /\ Payload(kind, s, u) \in Message /\ Payload(kind, s, u).store = s
           /\ Payload(kind, s, u) # None
BY MessageAssumption DEF Payload, Message

LEMMA SocketType ==
    ASSUME NEW i \in Id
    PROVE  /\ [id |-> i, pc |-> "hello", here |-> TRUE] \in Socket
           /\ [id |-> i, pc |-> "hello", here |-> TRUE] # Away
BY DEF Socket, Away

LEMMA Initial == Init => IInv
<1> SUFFICES ASSUME Init PROVE IInv
  OBVIOUS
<1>1. PICK b \in {CHOOSE b \in Browser : TRUE}, i \in Id :
         /\ socket = [[c \in Browser |-> Away] EXCEPT
                        ![b] = [id |-> i, pc |-> "hello", here |-> TRUE]]
         /\ connections = [[k \in Id |-> {}] EXCEPT ![i] = {b}]
         /\ shown = [[c \in Browser |-> None] EXCEPT
                       ![b] = Payload("processing", map_store_id[i], None)]
  BY DEF Init
<1>2. /\ last_payload = [k \in Id |-> None]
      /\ running = [k \in Id |-> FALSE] /\ loop = [k \in Id |-> Off]
      /\ last_result = None /\ budget = Budget
  BY DEF Init
<1> DEFINE m == Payload("processing", map_store_id[i], None)
           h == [id |-> i, pc |-> "hello", here |-> TRUE]
<1>3. m \in Message /\ m.store = map_store_id[i] /\ m # None
  BY PayloadType, MapAssumption DEF Kinds
<1>4. h \in Socket /\ h # Away /\ h.id = i /\ h.here /\ h.pc = "hello"
  BY SocketType
<1> HIDE DEF m, h
<1>5. socket = [c \in Browser |-> IF c = b THEN h ELSE Away]
  BY <1>1 DEF h
<1>6. connections = [k \in Id |-> IF k = i THEN {b} ELSE {}]
  BY <1>1
<1>7. shown = [c \in Browser |-> IF c = b THEN m ELSE None]
  BY <1>1 DEF m
<1>8. b \in Browser
  BY <1>1, BrowserAssumption
<1>9. TypeOK
  <2>1. socket \in [Browser -> Socket]
    BY <1>4, <1>5, AwayType
  <2>2. connections \in [Id -> SUBSET Browser]
    BY <1>6, <1>8
  <2>3. shown \in [Browser -> Message \cup {None}]
    BY <1>3, <1>7
  <2>4. \A c \in Browser : shown[c] = None <=> socket[c] = Away
    BY <1>3, <1>4, <1>5, <1>7
  <2>5. budget \in 0 .. Budget
    BY <1>2, BudgetAssumption
  <2> QED  BY <1>2, <2>1, <2>2, <2>3, <2>4, <2>5, OffType DEF TypeOK
<1>10. \A c \in Browser : BrowserInv(c)
  BY <1>3, <1>4, <1>5, <1>6, <1>7, AwayType DEF BrowserInv
<1>11. \A k \in Id : LoopInv(k) /\ PayloadInv(k)
  BY <1>2, OffType DEF LoopInv, PayloadInv, Off, Sent
<1> QED
  BY <1>9, <1>10, <1>11 DEF IInv

-----------------------------------------------------------------------------
(* The loop of an id.                                                      *)

\* It begins a broadcast.
LEMMA SendStep ==
    ASSUME IInv, NEW i \in Id, NEW m \in Message, m.store = map_store_id[i],
           NEW next \in {"top", "agents", "rest"}, Sending(i, m, next), loop[i].pc # "off",
           UNCHANGED <<socket, connections, running, last_result, shown>>,
           budget' \in 0 .. Budget
    PROVE  IInv'
<1> DEFINE r == [pc |-> "sending", next |-> next, out |-> Out(i, m)]
<1>1. loop' = [loop EXCEPT ![i] = r] /\ last_payload' = [last_payload EXCEPT ![i] = m]
  BY DEF Sending, Keep
<1>2. /\ r \in Loop /\ r.pc = "sending" /\ r.next # "off" /\ r.out.payload = m
      /\ r.out.dead = {} /\ \A k \in r.out.ids : map_store_id[k] = map_store_id[i]
  BY DEF Out, Sent, Sends, Loop
<1> HIDE DEF r
<1>3. loop \in [Id -> Loop] /\ last_payload \in [Id -> Message \cup {None}]
  BY DEF IInv, TypeOK
<1>4. TypeOK'
  BY <1>1, <1>2, <1>3 DEF IInv, TypeOK
<1>5. \A b \in Browser : BrowserInv(b)'
  BY DEF IInv, BrowserInv
<1>6. ASSUME NEW k \in Id PROVE LoopInv(k)'
  <2>1. CASE k # i
    BY <1>1, <1>3, <2>1 DEF IInv, LoopInv
  <2>2. CASE k = i
    <3>1. loop'[k] = r /\ running'[k] = running[k]
      BY <1>1, <1>3, <2>2
    <3> QED  BY <1>2, <2>2, <3>1 DEF IInv, LoopInv
  <2> QED  BY <2>1, <2>2
<1>7. \A k \in Id : PayloadInv(k)'
  BY <1>1, <1>3 DEF IInv, PayloadInv
<1> QED
  BY <1>4, <1>5, <1>6, <1>7 DEF IInv

\* It goes on without one, or ends one, or ends; the sockets found dead are
\* forgotten, their browsers have left.
LEMMA GoStep ==
    ASSUME IInv, NEW i \in Id, NEW place \in {"off", "top", "agents", "rest"}, Goes(i, place),
           loop[i].pc # "off",
           running' = IF place = "off" THEN FlagDown(i) ELSE running,
           place = "off" => connections[i] = {},
           NEW D \in SUBSET loop[i].out.dead,
           connections' = [k \in Id |-> connections[k] \ D],
           UNCHANGED <<socket, last_result, shown>>,
           budget' \in 0 .. Budget
    PROVE  IInv'
<1> DEFINE r == [Off EXCEPT !.pc = place]
<1>1. loop' = [loop EXCEPT ![i] = r] /\ last_payload' = last_payload
  BY DEF Goes
<1>2. r \in Loop /\ r.pc = place /\ r.out = Sent /\ Sent.ids = {} /\ Sent.dead = {}
  BY DEF Off, Sent, Sends, Loop
<1> HIDE DEF r
<1>3. /\ loop \in [Id -> Loop] /\ running \in [Id -> BOOLEAN] /\ socket \in [Browser -> Socket]
      /\ connections \in [Id -> SUBSET Browser]
  BY DEF IInv, TypeOK
<1>4. running' \in [Id -> BOOLEAN] /\ \A k \in Id : running'[k] <=> (running[k] /\ ~(k = i /\ place = "off"))
  BY <1>3 DEF FlagDown
<1>5. connections' \in [Id -> SUBSET Browser]
  BY <1>3
<1>6. TypeOK'
  BY <1>1, <1>2, <1>3, <1>4, <1>5 DEF IInv, TypeOK
<1>7. ASSUME NEW b \in Browser PROVE BrowserInv(b)'
  <2>1. socket[b].here => b \notin D
    BY DEF IInv, LoopInv
  <2>2. \A k \in Id : b \in connections'[k] => socket[b] # Away /\ socket[b].id = k
    BY <1>3 DEF IInv, BrowserInv
  <2>3. socket[b].here => b \in connections'[socket[b].id] /\ socket[b].id \in Id
    <3>1. socket[b] \in Socket
      BY <1>3
    <3>2. socket[b].here => socket[b].id \in Id
      BY <3>1, AwayType DEF Socket
    <3> QED  BY <2>1, <3>2, <1>3 DEF IInv, BrowserInv
  <2>4. socket[b].here /\ socket[b].pc = "beat" => running'[socket[b].id]
    BY <1>4, <2>3 DEF IInv, BrowserInv
  <2> QED  BY <2>2, <2>3, <2>4 DEF IInv, BrowserInv
<1>8. ASSUME NEW k \in Id PROVE LoopInv(k)'
  <2>1. CASE k # i
    <3>1. loop'[k] = loop[k] /\ (running'[k] <=> running[k])
      BY <1>1, <1>3, <1>4, <2>1
    <3> QED  BY <3>1 DEF IInv, LoopInv
  <2>2. CASE k = i
    <3>1. loop'[k] = r
      BY <1>1, <1>3, <2>2
    <3>2. running[k]
      BY <2>2 DEF IInv, LoopInv
    <3> QED  BY <1>2, <1>4, <2>2, <3>1, <3>2 DEF LoopInv
  <2> QED  BY <2>1, <2>2
<1>9. \A k \in Id : PayloadInv(k)'
  BY <1>1 DEF IInv, PayloadInv
<1> QED
  BY <1>6, <1>7, <1>8, <1>9 DEF IInv

\* The sockets of one more id are reached.
LEMMA ReachStep == ASSUME IInv, NEW i \in Id, NEW k \in Id, LoopSends(i, k) PROVE IInv'
<1> DEFINE out == Reached(loop[i].out, k)
           r == [loop[i] EXCEPT !.out = out]
           m == loop[i].out.payload
<1>1. /\ k \in loop[i].out.ids /\ loop' = [loop EXCEPT ![i] = r]
      /\ shown' = [b \in Browser |->
                     IF b \in connections[k] /\ socket[b].here THEN m ELSE shown[b]]
      /\ UNCHANGED <<socket, connections, last_payload, running, last_result, budget>>
  BY DEF LoopSends, Receive
<1>2. /\ loop \in [Id -> Loop] /\ socket \in [Browser -> Socket]
      /\ connections \in [Id -> SUBSET Browser] /\ shown \in [Browser -> Message \cup {None}]
  BY DEF IInv, TypeOK
<1>3. loop[i] \in Loop /\ loop[i].out \in Sends
  BY <1>2 DEF Loop
<1>4. /\ out \in Sends /\ out.payload = m /\ out.ids \subseteq loop[i].out.ids
      /\ out.dead = loop[i].out.dead \cup {b \in connections[k] : ~socket[b].here}
  BY <1>2, <1>3 DEF Reached, Sends
<1> HIDE DEF out
<1>5. r \in Loop /\ r.pc = loop[i].pc /\ r.next = loop[i].next /\ r.out = out
  BY <1>3, <1>4 DEF Loop
<1> HIDE DEF r
<1>6. loop[i].pc = "sending"
  BY <1>1 DEF IInv, LoopInv, Sent
<1>7. m \in Message /\ m.store = map_store_id[i] /\ m # None /\ map_store_id[k] = map_store_id[i]
  BY <1>1, <1>6, MessageAssumption DEF IInv, LoopInv
<1> HIDE DEF m
<1>8. TypeOK'
  <2>1. loop' \in [Id -> Loop]
    BY <1>1, <1>2, <1>5
  <2>2. shown' \in [Browser -> Message \cup {None}]
    BY <1>1, <1>2, <1>7
  <2>3. \A b \in Browser : shown'[b] = None <=> socket'[b] = Away
    BY <1>1, <1>2, <1>7, AwayType DEF IInv, TypeOK
  <2> QED  BY <1>1, <2>1, <2>2, <2>3 DEF IInv, TypeOK
<1>9. ASSUME NEW b \in Browser PROVE BrowserInv(b)'
  <2>1. shown'[b] # None => shown'[b].store = map_store_id[socket[b].id]
    BY <1>1, <1>7 DEF IInv, BrowserInv
  <2> QED  BY <1>1, <2>1 DEF IInv, BrowserInv
<1>10. ASSUME NEW h \in Id PROVE LoopInv(h)'
  <2>1. CASE h # i
    <3>1. loop'[h] = loop[h]
      BY <1>1, <1>2, <2>1
    <3> QED  BY <1>1, <3>1 DEF IInv, LoopInv
  <2>2. CASE h = i
    <3>1. loop'[h] = r
      BY <1>1, <1>2, <2>2
    <3>2. \A b \in out.dead : socket[b] # Away /\ ~socket[b].here
      BY <1>2, <1>4 DEF IInv, LoopInv, BrowserInv
    <3>3. \A x \in out.ids : map_store_id[x] = map_store_id[i]
      BY <1>4 DEF IInv, LoopInv
    <3>4. (running[i] <=> loop[i].pc # "off") /\ loop[i].next # "off"
      BY <1>6 DEF IInv, LoopInv
    <3> QED  BY <1>1, <1>4, <1>5, <1>6, <1>7, <2>2, <3>1, <3>2, <3>3, <3>4 DEF LoopInv
  <2> QED  BY <2>1, <2>2
<1>11. \A h \in Id : PayloadInv(h)'
  BY <1>1 DEF IInv, PayloadInv
<1> QED
  BY <1>8, <1>9, <1>10, <1>11 DEF IInv

LEMMA LoopStepKeeps == ASSUME IInv, NEW i \in Id, LoopStep(i) \/ Fails(i) PROVE IInv'
<1>0. /\ connections \in [Id -> SUBSET Browser] /\ budget \in 0 .. Budget
      /\ loop[i].pc = "sending" => loop[i].next \in {"top", "agents", "rest"}
  BY DEF IInv, TypeOK, Loop, LoopInv
<1>1. connections = [k \in Id |-> connections[k] \ {}]
  BY <1>0
<1>s. map_store_id[i] \in Store
  BY MapAssumption
<1>2. CASE \E k \in Id : LoopSends(i, k)
  BY <1>2, ReachStep
<1>3. CASE LoopSent(i)
  <2>1. loop[i].pc = "sending"
    BY <1>3 DEF LoopSent, Over, IInv, LoopInv
  <2>2. /\ Goes(i, loop[i].next) /\ connections' = [k \in Id |-> connections[k] \ loop[i].out.dead]
        /\ UNCHANGED <<socket, running, last_result, shown, budget>>
    BY <1>3 DEF LoopSent, Forget
  <2> QED  BY <1>0, <2>1, <2>2, GoStep
<1>4. CASE Boot(i)
  <2> DEFINE m == Payload("metrics", map_store_id[i], Summary(i))
  <2>1. /\ Sending(i, m, "top") /\ loop[i].pc # "off"
        /\ UNCHANGED <<socket, connections, running, last_result, shown, budget>>
    BY <1>4 DEF Boot
  <2>2. Summary(i) \in Store \cup {None}
    BY <1>s DEF Summary, IInv, TypeOK
  <2>3. m \in Message /\ m.store = map_store_id[i]
    BY <1>s, <2>2, PayloadType DEF Kinds
  <2> HIDE DEF m
  <2> QED  BY <1>0, <2>1, <2>3, SendStep
<1>5. CASE Agents(i)
  <2> DEFINE m == Payload("metrics", map_store_id[i], map_store_id[i])
  <2>1. /\ Sending(i, m, "rest") /\ loop[i].pc # "off"
        /\ UNCHANGED <<socket, connections, running, last_result, shown, budget>>
    BY <1>5 DEF Agents
  <2>2. m \in Message /\ m.store = map_store_id[i]
    BY <1>s, PayloadType DEF Kinds
  <2> HIDE DEF m
  <2> QED  BY <1>0, <2>1, <2>2, SendStep
<1>6. CASE Top(i) /\ ~Alone(i)
  <2> DEFINE m == Payload("processing", map_store_id[i], None)
  <2>1. /\ Sending(i, m, "agents") /\ loop[i].pc # "off"
        /\ UNCHANGED <<socket, connections, running, last_result, shown, budget>>
    BY <1>6 DEF Top
  <2>2. m \in Message /\ m.store = map_store_id[i]
    BY <1>s, PayloadType DEF Kinds
  <2> HIDE DEF m
  <2> QED  BY <1>0, <2>1, <2>2, SendStep
<1>7. CASE Top(i) /\ Alone(i)
  <2>1. /\ Goes(i, "off") /\ running' = FlagDown(i) /\ loop[i].pc # "off" /\ connections[i] = {}
        /\ connections' = [k \in Id |-> connections[k] \ {}]
        /\ UNCHANGED <<socket, last_result, shown, budget>>
    BY <1>1, <1>7 DEF Top, Alone
  <2> QED  BY <1>0, <2>1, GoStep
<1>8. CASE Rest(i)
  <2>1. /\ Goes(i, "top") /\ loop[i].pc # "off"
        /\ connections' = [k \in Id |-> connections[k] \ {}]
        /\ UNCHANGED <<socket, running, last_result, shown, budget>>
    BY <1>1, <1>8 DEF Rest
  <2> QED  BY <1>0, <2>1, GoStep
<1>9. CASE Fails(i)
  <2>1. PICK place \in {"top", "rest"} : Goes(i, place)
    BY <1>9 DEF Fails
  <2>2. /\ loop[i].pc # "off" /\ connections' = [k \in Id |-> connections[k] \ {}]
        /\ UNCHANGED <<socket, running, last_result, shown>>
        /\ budget' \in 0 .. Budget
    BY <1>0, <1>1, <1>9, BudgetAssumption DEF Fails, Spend
  <2> QED  BY <2>1, <2>2, GoStep
<1> QED
  BY <1>2, <1>3, <1>4, <1>5, <1>6, <1>7, <1>8, <1>9 DEF LoopStep

-----------------------------------------------------------------------------
(* Events, the browsers, the cycles.                                       *)

LEMMA EventStep == ASSUME IInv, NEW i \in Id, EventHappens(i) PROVE IInv'
<1> DEFINE p == Payload("event", map_store_id[i], None)
           to == UNION {connections[k] : k \in Out(i, p).ids}
<1>1. /\ last_payload' = [last_payload EXCEPT ![i] = p]
      /\ shown' = [b \in Browser |-> IF b \in to /\ socket[b].here THEN p ELSE shown[b]]
      /\ connections' = [k \in Id |-> {b \in connections[k] : b \in to => socket[b].here}]
      /\ UNCHANGED <<socket, running, loop, last_result>>
      /\ Spend
  BY DEF EventHappens, Keep
<1>2. p \in Message /\ p.store = map_store_id[i] /\ p # None
  BY PayloadType, MapAssumption DEF Kinds
<1>3. \A b \in to : map_store_id[socket[b].id] = map_store_id[i]
  BY DEF IInv, TypeOK, Out, Sent, BrowserInv
<1> HIDE DEF p, to
<1>4. /\ connections \in [Id -> SUBSET Browser] /\ shown \in [Browser -> Message \cup {None}]
      /\ last_payload \in [Id -> Message \cup {None}] /\ socket \in [Browser -> Socket]
  BY DEF IInv, TypeOK
<1>5. ASSUME NEW b \in Browser, socket[b].here PROVE socket[b].id \in Id /\ socket[b] # Away
  BY <1>4, <1>5, AwayType DEF Socket
<1>6. TypeOK'
  <2>1. connections' \in [Id -> SUBSET Browser]
    BY <1>1, <1>4
  <2>2. shown' \in [Browser -> Message \cup {None}] /\ last_payload' \in [Id -> Message \cup {None}]
    BY <1>1, <1>2, <1>4
  <2>3. \A b \in Browser : shown'[b] = None <=> socket'[b] = Away
    BY <1>1, <1>2, <1>5 DEF IInv, TypeOK
  <2>4. budget' \in 0 .. Budget
    BY <1>1, BudgetAssumption DEF Spend, IInv, TypeOK
  <2> QED  BY <1>1, <2>1, <2>2, <2>3, <2>4 DEF IInv, TypeOK
<1>7. ASSUME NEW b \in Browser PROVE BrowserInv(b)'
  <2>1. \A k \in Id : b \in connections'[k] => socket[b] # Away /\ socket[b].id = k
    BY <1>1 DEF IInv, BrowserInv
  <2>2. socket[b].here => b \in connections'[socket[b].id]
    BY <1>1, <1>5 DEF IInv, BrowserInv
  <2>3. shown'[b] # None => shown'[b].store = map_store_id[socket[b].id]
    BY <1>1, <1>2, <1>3 DEF IInv, BrowserInv
  <2> QED  BY <1>1, <2>1, <2>2, <2>3 DEF IInv, BrowserInv
<1>8. \A k \in Id : LoopInv(k)'
  BY <1>1 DEF IInv, LoopInv
<1>9. \A k \in Id : PayloadInv(k)'
  BY <1>1, <1>2, <1>4 DEF IInv, PayloadInv
<1> QED
  BY <1>6, <1>7, <1>8, <1>9 DEF IInv

LEMMA ConnectStep == ASSUME IInv, NEW b \in Browser, NEW i \in Id, Connect(b, i) PROVE IInv'
<1> DEFINE h == [id |-> i, pc |-> "hello", here |-> TRUE]
           m == IF last_payload[i] # None THEN last_payload[i]
                ELSE Payload("processing", map_store_id[i], None)
<1>1. /\ socket[b] = Away /\ socket' = [socket EXCEPT ![b] = h]
      /\ connections' = [connections EXCEPT ![i] = @ \cup {b}]
      /\ shown' = [shown EXCEPT ![b] = m]
      /\ UNCHANGED <<last_payload, running, loop, last_result>>
      /\ Spend
  BY DEF Connect, Hello
<1>2. m \in Message /\ m.store = map_store_id[i] /\ m # None
  <2>1. last_payload[i] \in Message \cup {None} /\ map_store_id[i] \in Store
    BY MapAssumption DEF IInv, TypeOK
  <2> QED  BY <2>1, PayloadType DEF Kinds, IInv, PayloadInv
<1>3. h \in Socket /\ h # Away /\ h.id = i /\ h.here /\ h.pc = "hello"
  BY SocketType
<1> HIDE DEF h, m
<1>4. /\ connections \in [Id -> SUBSET Browser] /\ shown \in [Browser -> Message \cup {None}]
      /\ socket \in [Browser -> Socket]
  BY DEF IInv, TypeOK
<1>5. TypeOK'
  <2>1. /\ connections' \in [Id -> SUBSET Browser] /\ socket' \in [Browser -> Socket]
        /\ shown' \in [Browser -> Message \cup {None}]
    BY <1>1, <1>2, <1>3, <1>4
  <2>2. \A c \in Browser : shown'[c] = None <=> socket'[c] = Away
    BY <1>1, <1>2, <1>3, <1>4 DEF IInv, TypeOK
  <2>3. budget' \in 0 .. Budget
    BY <1>1, BudgetAssumption DEF Spend, IInv, TypeOK
  <2> QED  BY <1>1, <2>1, <2>2, <2>3 DEF IInv, TypeOK
<1>6. ASSUME NEW c \in Browser PROVE BrowserInv(c)'
  <2>1. CASE c = b
    <3>1. socket'[c] = h /\ shown'[c] = m
      BY <1>1, <1>4, <2>1
    <3>2. \A k \in Id : c \in connections'[k] <=> k = i
      BY <1>1, <1>4, <2>1 DEF IInv, BrowserInv
    <3> QED  BY <1>2, <1>3, <3>1, <3>2 DEF BrowserInv
  <2>2. CASE c # b
    <3>1. socket'[c] = socket[c] /\ shown'[c] = shown[c]
      BY <1>1, <1>4, <2>2
    <3>2. \A k \in Id : c \in connections'[k] <=> c \in connections[k]
      BY <1>1, <1>4, <2>2
    <3>3. socket[c].here => socket[c].id \in Id
      BY <1>4, AwayType DEF Socket
    <3> QED  BY <1>1, <3>1, <3>2, <3>3 DEF IInv, BrowserInv
  <2> QED  BY <2>1, <2>2
<1>7. ASSUME NEW k \in Id PROVE LoopInv(k)'
  <2>1. loop[k].out.dead \subseteq Browser
    BY DEF IInv, TypeOK, Loop, Sends
  <2>2. \A c \in loop[k].out.dead : socket'[c] # Away /\ ~socket'[c].here
    BY <1>1, <1>4, <2>1 DEF IInv, LoopInv
  <2> QED  BY <1>1, <2>2 DEF IInv, LoopInv
<1>8. \A k \in Id : PayloadInv(k)'
  BY <1>1 DEF IInv, PayloadInv
<1> QED
  BY <1>5, <1>6, <1>7, <1>8 DEF IInv

\* A socket that is kept, under its id.
LEMMA SocketStep ==
    ASSUME NEW b \in Browser, NEW h, IInv, socket[b] # Away,
           h \in Socket, h # Away, h.id = socket[b].id, h.here => socket[b].here,
           socket' = [socket EXCEPT ![b] = h]
    PROVE  /\ socket' \in [Browser -> Socket]
           /\ \A c \in Browser : shown[c] = None <=> socket'[c] = Away
           /\ \A c \in Browser :
                /\ \A k \in Id : c \in connections[k] => socket'[c] # Away /\ socket'[c].id = k
                /\ socket'[c].here => c \in connections[socket'[c].id]
                /\ shown[c] # None => shown[c].store = map_store_id[socket'[c].id]
           /\ \A k \in Id : \A c \in loop[k].out.dead : socket'[c] # Away /\ ~socket'[c].here
<1>1. socket \in [Browser -> Socket]
  BY DEF IInv, TypeOK
<1>2. socket' \in [Browser -> Socket]
  BY <1>1
<1>3. \A c \in Browser : /\ socket'[c] # Away <=> socket[c] # Away
                         /\ socket'[c].id = socket[c].id
                         /\ socket'[c].here => socket[c].here
  BY <1>1
<1>4. \A k \in Id : \A c \in loop[k].out.dead : socket'[c] # Away /\ ~socket'[c].here
  <2> SUFFICES ASSUME NEW k \in Id, NEW c \in loop[k].out.dead
               PROVE  socket'[c] # Away /\ ~socket'[c].here
    OBVIOUS
  <2>1. c \in Browser
    BY DEF IInv, TypeOK, Loop, Sends
  <2>2. socket[c] # Away /\ ~socket[c].here
    BY DEF IInv, LoopInv
  <2> QED  BY <1>3, <2>1, <2>2
<1>5. \A c \in Browser : shown[c] = None <=> socket'[c] = Away
  BY <1>3 DEF IInv, TypeOK
<1> QED
  BY <1>2, <1>3, <1>4, <1>5 DEF IInv, BrowserInv

LEMMA WelcomeStep == ASSUME IInv, NEW b \in Browser, Welcome(b) PROVE IInv'
<1> DEFINE i == socket[b].id
           h == [socket[b] EXCEPT !.pc = "beat"]
           r == [Off EXCEPT !.pc = "boot"]
<1>1. /\ socket[b].pc = "hello" /\ socket' = [socket EXCEPT ![b] = h]
      /\ IF ~running[i] THEN /\ running' = [running EXCEPT ![i] = TRUE]
                             /\ loop' = [loop EXCEPT ![i] = r]
         ELSE UNCHANGED <<running, loop>>
      /\ UNCHANGED <<connections, last_payload, last_result, shown, budget>>
  BY DEF Welcome, Starts
<1>2. /\ socket \in [Browser -> Socket] /\ running \in [Id -> BOOLEAN] /\ loop \in [Id -> Loop]
  BY DEF IInv, TypeOK
<1>3. socket[b] # Away /\ i \in Id
  BY <1>1, <1>2, AwayType DEF Socket
<1>4. h \in Socket /\ h # Away /\ h.id = i /\ (h.here => socket[b].here)
  BY <1>2, <1>3 DEF Socket, Away
<1>5. r \in Loop /\ r.pc = "boot" /\ r.out = Sent /\ Sent.ids = {} /\ Sent.dead = {}
  BY DEF Off, Sent, Sends, Loop
<1> HIDE DEF h, r
<1>6. /\ socket' \in [Browser -> Socket]
      /\ \A c \in Browser : shown[c] = None <=> socket'[c] = Away
      /\ \A c \in Browser :
           /\ \A k \in Id : c \in connections[k] => socket'[c] # Away /\ socket'[c].id = k
           /\ socket'[c].here => c \in connections[socket'[c].id]
           /\ shown[c] # None => shown[c].store = map_store_id[socket'[c].id]
      /\ \A k \in Id : \A c \in loop[k].out.dead : socket'[c] # Away /\ ~socket'[c].here
  BY <1>1, <1>3, <1>4, SocketStep
<1> HIDE DEF i
<1>7. /\ running' \in [Id -> BOOLEAN] /\ running'[i]
      /\ \A k \in Id : running[k] => running'[k]
  BY <1>1, <1>2, <1>3
<1>8. TypeOK'
  <2>1. loop' \in [Id -> Loop]
    BY <1>1, <1>2, <1>5
  <2> QED  BY <1>1, <1>6, <1>7, <2>1 DEF IInv, TypeOK
<1>9. ASSUME NEW c \in Browser PROVE BrowserInv(c)'
  <2>1. socket'[c].pc = "beat" /\ socket'[c].here => running'[socket'[c].id]
    <3>1. CASE c = b
      <4>1. socket'[c].id = i
        BY <1>1, <1>2, <1>4, <3>1
      <4> QED  BY <1>7, <4>1
    <3>2. CASE c # b
      <4>1. socket'[c] = socket[c] /\ (socket[c].here => socket[c].id \in Id)
        BY <1>1, <1>2, <3>2, AwayType DEF Socket
      <4> QED  BY <1>7, <4>1 DEF IInv, BrowserInv
    <3> QED  BY <3>1, <3>2
  <2> QED  BY <1>1, <1>6, <2>1 DEF BrowserInv
<1>10. ASSUME NEW k \in Id PROVE LoopInv(k)'
  <2>1. CASE k = i /\ ~running[i]
    <3>1. loop'[k] = r
      BY <1>1, <1>2, <2>1
    <3> QED  BY <1>5, <1>7, <2>1, <3>1 DEF LoopInv
  <2>2. CASE ~(k = i /\ ~running[i])
    <3>1. loop'[k] = loop[k] /\ running'[k] = running[k]
      BY <1>1, <1>2, <2>2
    <3> QED  BY <1>6, <3>1 DEF IInv, LoopInv
  <2> QED  BY <2>1, <2>2
<1>11. \A k \in Id : PayloadInv(k)'
  BY <1>1 DEF IInv, PayloadInv
<1> QED
  BY <1>8, <1>9, <1>10, <1>11 DEF IInv

LEMMA LeaveStep == ASSUME IInv, NEW b \in Browser, Leave(b) PROVE IInv'
<1> DEFINE h == [socket[b] EXCEPT !.here = FALSE]
<1>1. /\ socket[b].here /\ socket' = [socket EXCEPT ![b] = h]
      /\ UNCHANGED <<connections, last_payload, running, loop, last_result, shown>>
      /\ Spend
  BY DEF Leave
<1>2. socket \in [Browser -> Socket]
  BY DEF IInv, TypeOK
<1>3. socket[b] # Away
  BY <1>1, AwayType
<1>4. h \in Socket /\ h # Away /\ h.id = socket[b].id /\ ~h.here
  BY <1>2, <1>3 DEF Socket, Away
<1> HIDE DEF h
<1>5. /\ socket' \in [Browser -> Socket]
      /\ \A c \in Browser : shown[c] = None <=> socket'[c] = Away
      /\ \A c \in Browser :
           /\ \A k \in Id : c \in connections[k] => socket'[c] # Away /\ socket'[c].id = k
           /\ socket'[c].here => c \in connections[socket'[c].id]
           /\ shown[c] # None => shown[c].store = map_store_id[socket'[c].id]
      /\ \A k \in Id : \A c \in loop[k].out.dead : socket'[c] # Away /\ ~socket'[c].here
  BY <1>1, <1>3, <1>4, SocketStep
<1>6. budget' \in 0 .. Budget
  BY <1>1, BudgetAssumption DEF Spend, IInv, TypeOK
<1>7. TypeOK'
  BY <1>1, <1>5, <1>6 DEF IInv, TypeOK
<1>8. ASSUME NEW c \in Browser PROVE BrowserInv(c)'
  <2>1. socket'[c].pc = "beat" /\ socket'[c].here => running[socket'[c].id]
    BY <1>1, <1>2, <1>4 DEF IInv, BrowserInv
  <2> QED  BY <1>1, <1>5, <2>1 DEF BrowserInv
<1>9. \A k \in Id : LoopInv(k)' /\ PayloadInv(k)'
  BY <1>1, <1>5 DEF IInv, LoopInv, PayloadInv
<1> QED
  BY <1>7, <1>8, <1>9 DEF IInv

LEMMA BeatStep == ASSUME IInv, NEW b \in Browser, Beat(b) PROVE IInv'
<1> DEFINE r(k) == [loop[k] EXCEPT !.out.dead = @ \ {b}]
<1>1. /\ socket[b].pc = "beat" /\ socket' = [socket EXCEPT ![b] = Away]
      /\ connections' = [connections EXCEPT ![socket[b].id] = @ \ {b}]
      /\ shown' = [shown EXCEPT ![b] = None] /\ loop' = [k \in Id |-> r(k)]
      /\ UNCHANGED <<last_payload, running, last_result, budget>>
  BY DEF Beat
<1>2. /\ socket \in [Browser -> Socket] /\ connections \in [Id -> SUBSET Browser]
      /\ shown \in [Browser -> Message \cup {None}] /\ loop \in [Id -> Loop]
  BY DEF IInv, TypeOK
<1>3. socket[b] # Away /\ socket[b].id \in Id
  BY <1>1, <1>2, AwayType DEF Socket
<1>4. ASSUME NEW k \in Id
      PROVE  /\ r(k) \in Loop /\ r(k).pc = loop[k].pc /\ r(k).next = loop[k].next
             /\ r(k).out = [loop[k].out EXCEPT !.dead = @ \ {b}]
             /\ r(k).out.payload = loop[k].out.payload /\ r(k).out.ids = loop[k].out.ids
             /\ r(k).out.dead = loop[k].out.dead \ {b}
             /\ (loop[k].out = Sent => r(k).out = Sent)
  <2>1. loop[k] \in Loop /\ loop[k].out \in Sends
    BY <1>2 DEF Loop
  <2> DEFINE o == [loop[k].out EXCEPT !.dead = @ \ {b}]
  <2>2. /\ o \in Sends /\ o.payload = loop[k].out.payload /\ o.ids = loop[k].out.ids
        /\ o.dead = loop[k].out.dead \ {b}
    BY <2>1 DEF Sends
  <2>3. loop[k].out = Sent => o = Sent
    BY DEF Sent
  <2>4. r(k) = [loop[k] EXCEPT !.out = o]
    OBVIOUS
  <2> HIDE DEF o, r
  <2>5. r(k) \in Loop /\ r(k).pc = loop[k].pc /\ r(k).next = loop[k].next /\ r(k).out = o
    BY <2>1, <2>2, <2>4 DEF Loop
  <2> QED  BY <2>2, <2>3, <2>5 DEF o
<1> HIDE DEF r
<1>5. /\ socket' \in [Browser -> Socket] /\ connections' \in [Id -> SUBSET Browser]
      /\ shown' \in [Browser -> Message \cup {None}] /\ loop' \in [Id -> Loop]
  BY <1>1, <1>2, <1>4, AwayType
<1>6. /\ socket'[b] = Away /\ shown'[b] = None /\ \A k \in Id : b \notin connections'[k]
      /\ \A c \in Browser \ {b} : socket'[c] = socket[c] /\ shown'[c] = shown[c]
      /\ \A c \in Browser \ {b} : \A k \in Id : c \in connections'[k] <=> c \in connections[k]
  <2>1. ASSUME NEW k \in Id PROVE b \notin connections'[k]
    BY <1>1, <1>2 DEF IInv, BrowserInv
  <2> QED  BY <1>1, <1>2, <2>1
<1>7. TypeOK'
  <2>1. \A c \in Browser : shown'[c] = None <=> socket'[c] = Away
    BY <1>6 DEF IInv, TypeOK
  <2> QED  BY <1>1, <1>5, <2>1 DEF IInv, TypeOK
<1>8. ASSUME NEW c \in Browser PROVE BrowserInv(c)'
  <2>1. CASE c = b
    BY <1>6, <2>1, AwayType DEF BrowserInv
  <2>2. CASE c # b
    <3>1. socket[c].here => socket[c].id \in Id
      BY <1>2, AwayType DEF Socket
    <3> QED  BY <1>1, <1>6, <2>2, <3>1 DEF IInv, BrowserInv
  <2> QED  BY <2>1, <2>2
<1>9. ASSUME NEW k \in Id PROVE LoopInv(k)'
  <2>1. loop'[k] = r(k) /\ running' = running
    BY <1>1
  <2>2. loop[k].out.dead \subseteq Browser
    BY <1>2 DEF Loop, Sends
  <2> DEFINE l == loop'[k]
  <2>3. /\ l.pc = loop[k].pc /\ l.next = loop[k].next /\ l.out.payload = loop[k].out.payload
        /\ l.out.ids = loop[k].out.ids /\ l.out.dead = loop[k].out.dead \ {b}
        /\ (loop[k].out = Sent => l.out = Sent)
    BY <1>4, <2>1
  <2> HIDE DEF l
  <2>4. \A c \in l.out.dead : socket'[c] # Away /\ ~socket'[c].here
    BY <1>6, <2>2, <2>3 DEF IInv, LoopInv
  <2>5. LoopInv(k)
    BY DEF IInv
  <2> QED  BY <2>1, <2>3, <2>4, <2>5 DEF LoopInv, l
<1>10. \A k \in Id : PayloadInv(k)'
  BY <1>1 DEF IInv, PayloadInv
<1> QED
  BY <1>7, <1>8, <1>9, <1>10 DEF IInv

-----------------------------------------------------------------------------
LEMMA Inductive == IInv /\ [Next]_vars => IInv'
<1> SUFFICES ASSUME IInv, [Next]_vars PROVE IInv'
  OBVIOUS
<1>1. ASSUME NEW i \in Id, LoopStep(i) \/ Fails(i) PROVE IInv'
  BY <1>1, LoopStepKeeps
<1>2. ASSUME NEW i \in Id, EventHappens(i) PROVE IInv'
  BY <1>2, EventStep
<1>3. ASSUME NEW b \in Browser, Welcome(b) PROVE IInv'
  BY <1>3, WelcomeStep
<1>4. ASSUME NEW b \in Browser, Leave(b) PROVE IInv'
  BY <1>4, LeaveStep
<1>5. ASSUME NEW b \in Browser, Beat(b) PROVE IInv'
  BY <1>5, BeatStep
<1>6. ASSUME NEW b \in Browser, NEW i \in Id, Connect(b, i) PROVE IInv'
  BY <1>6, ConnectStep
<1>7. ASSUME NEW s \in Store, CycleEnds(s) PROVE IInv'
  BY <1>7 DEF CycleEnds, IInv, TypeOK, BrowserInv, LoopInv, PayloadInv
<1>8. CASE UNCHANGED vars
  BY <1>8 DEF vars, IInv, TypeOK, BrowserInv, LoopInv, PayloadInv
<1> QED
  BY <1>1, <1>2, <1>3, <1>4, <1>5, <1>6, <1>7, <1>8 DEF Next

\* The strengthened invariant holds in every state.
THEOREM Invariance == Spec => []IInv
BY Initial, Inductive, PTL DEF Spec

\* The types, and that a browser is sent something as soon as it is connected.
THEOREM TypeCorrect == Spec => []TypeOK
<1>1. IInv => TypeOK
  BY DEF IInv
<1> QED
  BY <1>1, Invariance, PTL

\* Every browser that is connected and answers is registered and has a loop
\* that runs, and the flag of an id tells whether its loop runs: ws_store,
\* _agent_loop and _broadcast of main.py.
THEOREM AlwaysServed == Spec => []ConnectedIsServed
<1>1. IInv => ConnectedIsServed
  BY DEF IInv, LoopInv, BrowserInv, ConnectedIsServed
<1> QED
  BY <1>1, Invariance, PTL

\* No browser is ever shown a message of another store, from a broadcast or
\* from the payload kept for its id.
THEOREM NeverCrosstalk == Spec => []NoCrosstalk
<1>1. IInv => NoCrosstalk
  BY DEF IInv, BrowserInv, NoCrosstalk
<1> QED
  BY <1>1, Invariance, PTL
=============================================================================
