--------------------------- MODULE CoachChat_proofs ---------------------------
(***************************************************************************)
(* Proofs about the coach's endpoints: types; one voice in a stream; a     *)
(* blocked text in the history only by a guardrail that raised; no         *)
(* fallback of the orchestrator in the strategy cache.  They hold for any  *)
(* requests, messages, providers, cache size and number of attempts.       *)
(***************************************************************************)
EXTENDS CoachChat, SequenceTheorems, TLAPS

-----------------------------------------------------------------------------
(* The chains of models.                                                   *)

LEMMA OneModel == ASSUME NEW m \in Model PROVE <<m>> \in Seq(Model)
OBVIOUS

LEMMA ChainType == ASSUME NEW p \in {"chain", "stream", "rescue"} PROVE Chain(p) \in Seq(Model)
<1> DEFINE Of(m) == IF m \in Configured THEN <<m>> ELSE <<>>
           Local == IF LocalFirst THEN <<"ollama">> ELSE <<>>
<1>1. \A m \in Model : Of(m) \in Seq(Model)
  BY OneModel, EmptySeq
<1>2. Of("groq") \in Seq(Model) /\ Of("openrouter") \in Seq(Model) /\ Of("mistral") \in Seq(Model)
  BY <1>1 DEF Model
<1>3. <<"ollama">> \in Seq(Model) /\ Local \in Seq(Model)
  BY OneModel, EmptySeq DEF Model
<1>4. Chain(p) = CASE p = "chain"  -> Local \o Of("groq") \o Of("openrouter") \o Of("mistral")
                                      \o Of("openrouter") \o <<"ollama">>
                   [] p = "stream" -> Of("groq") \o Of("openrouter") \o Of("mistral")
                   [] p = "rescue" -> Of("openrouter") \o <<"ollama">>
  BY Zenon DEF Chain
<1> HIDE DEF Of, Local
<1>5. \A s, t \in Seq(Model) : s \o t \in Seq(Model)
  BY ConcatProperties
<1>6. Of("groq") \o Of("openrouter") \o Of("mistral") \in Seq(Model)
  BY <1>2, <1>5
<1>7. Of("openrouter") \o <<"ollama">> \in Seq(Model)
  BY <1>2, <1>3, <1>5
<1>8. Local \o Of("groq") \o Of("openrouter") \o Of("mistral")
        \o Of("openrouter") \o <<"ollama">> \in Seq(Model)
  BY <1>2, <1>3, <1>5
<1> QED
  BY <1>4, <1>6, <1>7, <1>8

LEMMA TriedModel ==
    ASSUME NEW p \in {"chain", "stream", "rescue"}, NEW i \in Nat \ {0}, i <= Len(Chain(p))
    PROVE  Chain(p)[i] \in Model
BY ChainType, ElementOfSeq

\* Ollama, the last of a chat's chain and of a rescue, needs no key.
LEMMA ChainEnds ==
    ASSUME NEW p \in {"chain", "rescue"} PROVE Len(Chain(p)) \in Nat /\ 1 <= Len(Chain(p))
<1> DEFINE Of(m) == IF m \in Configured THEN <<m>> ELSE <<>>
           Local == IF LocalFirst THEN <<"ollama">> ELSE <<>>
           most == Local \o Of("groq") \o Of("openrouter") \o Of("mistral") \o Of("openrouter")
<1>1. \A m \in Model : Of(m) \in Seq(Model)
  BY OneModel, EmptySeq
<1>2. Of("groq") \in Seq(Model) /\ Of("openrouter") \in Seq(Model) /\ Of("mistral") \in Seq(Model)
  BY <1>1 DEF Model
<1>3. <<"ollama">> \in Seq(Model) /\ Len(<<"ollama">>) = 1 /\ Local \in Seq(Model)
  BY OneModel, EmptySeq DEF Model
<1>4. Chain(p) = CASE p = "chain"  -> most \o <<"ollama">>
                   [] p = "stream" -> Of("groq") \o Of("openrouter") \o Of("mistral")
                   [] p = "rescue" -> Of("openrouter") \o <<"ollama">>
  BY Zenon DEF Chain
<1> HIDE DEF Of, Local
<1>5. \A s, t \in Seq(Model) : s \o t \in Seq(Model)
  BY ConcatProperties
<1>6. most \in Seq(Model)
  BY <1>2, <1>3, <1>5
<1> HIDE DEF most
<1>7. \E s \in Seq(Model) : Chain(p) = s \o <<"ollama">>
  BY <1>2, <1>4, <1>6
<1>8. PICK s \in Seq(Model) : Chain(p) = s \o <<"ollama">>
  BY <1>7
<1>9. Len(s) \in Nat /\ Len(s \o <<"ollama">>) = Len(s) + 1
  BY <1>3, ConcatProperties, LenProperties
<1> QED
  BY <1>8, <1>9

-----------------------------------------------------------------------------
(* The strategy cache. Kept is what an entry is: an answer of the          *)
(* Stratège.                                                               *)

Kept == {e \in Strategy : e.actions \in Answered}

LEMMA StoreKeeps ==
    ASSUME cache \in Seq(Kept), Len(cache) <= MaxSize, NEW b \in Bucket, NEW made \in Answered
    PROVE  Store(b, made) \in Seq(Kept) /\ Len(Store(b, made)) <= MaxSize
<1> DEFINE room == IF Len(cache) >= MaxSize THEN Tail(cache) ELSE cache
           old  == Entry(room, b)
           i    == CHOOSE i \in old : TRUE
           rest == IF old = {} THEN room ELSE RemoveAt(room, i)
           new  == [bucket |-> b, ago |-> 0, actions |-> made, fresh |-> TRUE]
<1>0. MaxSize \in Nat \ {0}
  BY CoachAssumption
<1>1. new \in Kept
  BY CoachAssumption DEF Kept, Strategy, Actions
<1>2. room \in Seq(Kept) /\ Len(room) < MaxSize
  <2>1. CASE Len(cache) >= MaxSize
    BY <2>1, <1>0, HeadTailProperties, EmptySeq
  <2>2. CASE ~(Len(cache) >= MaxSize)
    BY <2>2, <1>0
  <2> QED  BY <2>1, <2>2
<1> HIDE DEF room
<1>3. rest \in Seq(Kept) /\ Len(rest) <= Len(room)
  <2>1. CASE old = {}
    BY <2>1, <1>2
  <2>2. CASE old # {}
    <3>1. i \in 1 .. Len(room)
      BY <2>2, <1>2 DEF Entry
    <3> HIDE DEF i
    <3>2. /\ SubSeq(room, 1, i - 1) \in Seq(Kept)
          /\ Len(SubSeq(room, 1, i - 1)) = i - 1
      BY <3>1, <1>2, SubSeqProperties
    <3>3. /\ SubSeq(room, i + 1, Len(room)) \in Seq(Kept)
          /\ Len(SubSeq(room, i + 1, Len(room))) = Len(room) - i
      BY <3>1, <1>2, SubSeqProperties
    <3>4. RemoveAt(room, i) \in Seq(Kept) /\ Len(RemoveAt(room, i)) = Len(room) - 1
      <4>2. Len(room) \in Nat
        BY <1>2, LenProperties
      <4> DEFINE front == SubSeq(room, 1, i - 1)
                 back  == SubSeq(room, i + 1, Len(room))
      <4> HIDE DEF front, back
      <4>1. RemoveAt(room, i) = front \o back
        BY DEF RemoveAt, front, back
      <4>3. front \o back \in Seq(Kept) /\ Len(front \o back) = Len(front) + Len(back)
        BY <3>2, <3>3, ConcatProperties DEF front, back
      <4>4. i \in Int /\ Len(front) = i - 1 /\ Len(back) = Len(room) - i
        BY <3>1, <3>2, <3>3, <4>2 DEF front, back
      <4> QED  BY <4>1, <4>2, <4>3, <4>4
    <3> QED  BY <3>4, <3>1, <2>2
  <2> QED  BY <2>1, <2>2
<1> HIDE DEF rest, new
<1>4. Append(rest, new) \in Seq(Kept) /\ Len(Append(rest, new)) = Len(rest) + 1
  BY <1>1, <1>3, AppendProperties
<1>5. Store(b, made) = Append(rest, new)
  BY DEF Store, rest, room, new
<1>6. Len(room) \in Nat /\ Len(rest) \in Nat
  BY <1>2, <1>3, LenProperties
<1>7. Len(rest) + 1 <= MaxSize
  <2> DEFINE m == Len(room)
             n == Len(rest)
  <2>1. m \in Nat /\ n \in Nat /\ m < MaxSize /\ n <= m
    BY <1>2, <1>3, <1>6
  <2> HIDE DEF m, n
  <2>2. n + 1 <= MaxSize
    BY <2>1, <1>0
  <2> QED  BY <2>2 DEF n
<1>8. Len(Append(rest, new)) <= MaxSize
  BY <1>4, <1>7
<1> QED
  BY <1>4, <1>5, <1>8

LEMMA ExpiryKeeps ==
    ASSUME cache \in Seq(Kept), NEW i \in DOMAIN cache
    PROVE  /\ [cache EXCEPT ![i].fresh = FALSE] \in Seq(Kept)
           /\ Len([cache EXCEPT ![i].fresh = FALSE]) = Len(cache)
<1>1. i \in 1 .. Len(cache) /\ cache[i] \in Kept
  BY LenProperties, ElementOfSeq
<1>2. [cache[i] EXCEPT !.fresh = FALSE] \in Kept
  BY <1>1 DEF Kept, Strategy
<1>3. [cache EXCEPT ![i].fresh = FALSE] = [cache EXCEPT ![i] = [cache[i] EXCEPT !.fresh = FALSE]]
  OBVIOUS
<1> QED
  BY <1>1, <1>2, <1>3, ExceptSeq

LEMMA HourKeeps ==
    ASSUME cache \in Seq(Kept),
           NEW new, new = [i \in DOMAIN cache |-> [cache[i] EXCEPT !.ago = (@ + 1) % Hours]]
    PROVE  new \in Seq(Kept) /\ Len(new) = Len(cache)
<1>1. DOMAIN cache = 1 .. Len(cache) /\ Len(cache) \in Nat
  BY LenProperties
<1>2. ASSUME NEW i \in 1 .. Len(cache)
      PROVE  [cache[i] EXCEPT !.ago = (cache[i].ago + 1) % Hours] \in Kept
  <2>1. cache[i] \in Kept
    BY <1>2, ElementOfSeq
  <2>2. (cache[i].ago + 1) % Hours \in 0 .. Hours - 1
    BY <2>1, CoachAssumption DEF Kept, Strategy
  <2> QED  BY <2>1, <2>2 DEF Kept, Strategy
<1>3. new \in [1 .. Len(cache) -> Kept]
  BY <1>1, <1>2
<1>4. new \in Seq(Kept)
  BY <1>1, <1>3, IsASeq
<1>5. Len(new) = Len(cache)
  <2>1. DOMAIN new = 1 .. Len(new) /\ Len(new) \in Nat
    BY <1>4, LenProperties
  <2>2. 1 .. Len(new) = 1 .. Len(cache)
    BY <1>1, <1>3, <2>1
  <2> QED  BY <1>1, <2>1, <2>2
<1> QED
  BY <1>4, <1>5

LEMMA EntryKept ==
    ASSUME cache \in Seq(Kept), NEW b, NEW i \in Entry(cache, b)
    PROVE  cache[i].actions \in Answered
<1>1. i \in 1 .. Len(cache)
  BY LenProperties DEF Entry
<1> QED
  BY <1>1, ElementOfSeq DEF Kept

-----------------------------------------------------------------------------
(* The inductive invariant: what is known of a request and of its run at   *)
(* each place. Nothing is shown or remembered before its time; the words   *)
(* of a stream under way are of the model it is trying, or of the reply it *)
(* plays back.                                                             *)

Writer(q) == IF shown[q] \subseteq Model THEN "model" ELSE "intent_fallback"

QueryInv(q) ==
    /\ pc[q] \in {"new", "context", "strategy"} => at[q] = 1
    /\ pc[q] = "chain" => at[q] <= Len(Chain("chain"))
    /\ pc[q] = "rescue" => at[q] <= Len(Chain("rescue"))
    /\ pc[q] \notin {"stream", "replay", "answered"} => shown[q] = {}
    /\ pc[q] = "stream" => \A m \in shown[q] : m = Chain("stream")[at[q]]
    /\ \A a, b \in shown[q] : a = b
    /\ pc[q] # "answered" =>
          reply[q] = None /\ verdict[q] = None /\ saved[q] = None /\ q \notin reviewed
    /\ shown[q] # {} /\ reply[q] # None => reply[q] = Safe \/ reply[q].by = Writer(q)
    /\ saved[q] # None /\ saved[q].blocked => verdict[q] = "APPROVE"
    /\ q \in reviewed => ~reply[q].blocked

RunInv(q) ==
    /\ run[q].pc \in {"calling", "backoff"} => run[q].bucket \in Bucket
    /\ run[q].pc = "done" /\ run[q].source \in {"cached", "stale_cache", "success"}
         => run[q].actions \in Answered

IInv ==
    /\ TypeOK
    /\ cache \in Seq(Kept)
    /\ \A q \in Request : QueryInv(q) /\ RunInv(q)

LEMMA IdleType == Idle \in Run
BY DEF Idle, Run

LEMMA Initial == Init => IInv
<1> SUFFICES ASSUME Init PROVE IInv
  OBVIOUS
<1>1. Hours \in Nat \ {0} /\ MaxSize \in Nat \ {0}
  BY CoachAssumption
<1>2. <<>> \in Seq(Kept) /\ <<>> \in Seq(Strategy) /\ Len(<<>>) = 0
  BY EmptySeq
<1>3. TypeOK
  BY <1>1, <1>2, IdleType DEF Init, TypeOK
<1>4. \A q \in Request : QueryInv(q)
  BY NoneAssumption DEF Init, QueryInv
<1>5. \A q \in Request : RunInv(q)
  BY DEF Init, RunInv, Idle
<1> QED
  BY <1>2, <1>3, <1>4, <1>5 DEF Init, IInv

\* The step of one request leaves the others where they are.
Elsewhere(q) ==
    \A p \in Request \ {q} :
        /\ pc'[p] = pc[p] /\ at'[p] = at[p] /\ shown'[p] = shown[p]
        /\ reply'[p] = reply[p] /\ verdict'[p] = verdict[p] /\ saved'[p] = saved[p]
        /\ p \in reviewed' <=> p \in reviewed

LEMMA OthersStay ==
    ASSUME IInv, NEW q \in Request, Elsewhere(q), QueryInv(q)'
    PROVE  \A p \in Request : QueryInv(p)'
<1> SUFFICES ASSUME NEW p \in Request, p # q PROVE QueryInv(p)'
  OBVIOUS
<1>1. /\ pc'[p] = pc[p] /\ at'[p] = at[p] /\ shown'[p] = shown[p]
      /\ reply'[p] = reply[p] /\ verdict'[p] = verdict[p] /\ saved'[p] = saved[p]
      /\ p \in reviewed' <=> p \in reviewed
  BY DEF Elsewhere
<1> QED  BY <1>1 DEF IInv, QueryInv, Writer

\* A request moves on with nothing shown and nothing answered.
LEMMA MovesOn ==
    ASSUME IInv, NEW q \in Request, pc[q] # "answered", shown'[q] = {},
           UNCHANGED <<reply, verdict, saved, reviewed>>,
           \A p \in Request \ {q} :
               pc'[p] = pc[p] /\ at'[p] = at[p] /\ shown'[p] = shown[p],
           pc'[q] \in {"new", "context", "strategy"} => at'[q] = 1,
           pc'[q] = "chain" => at'[q] <= Len(Chain("chain")),
           pc'[q] = "rescue" => at'[q] <= Len(Chain("rescue"))
    PROVE  \A p \in Request : QueryInv(p)'
<1>1. reply'[q] = None /\ verdict'[q] = None /\ saved'[q] = None /\ q \notin reviewed'
  BY DEF IInv, QueryInv
<1>2. QueryInv(q)'
  BY <1>1 DEF QueryInv
<1>3. Elsewhere(q)
  BY DEF Elsewhere
<1> QED  BY <1>2, <1>3, OthersStay

\* Steps of a handler that touch neither the run nor the caches.
LEMMA HandlerStep ==
    ASSUME IInv, NEW q \in Request,
           \/ Refused(q) \/ WithoutStratege(q) \/ StrategyTimesOut(q)
           \/ ShowsToken(q) \/ StreamsNothing(q) \/ ClientLeaves(q)
    PROVE  IInv'
<1> USE DEF request, after, strategy, Prompt
<1>1. UNCHANGED strategy
  BY DEF Refused, WithoutStratege, StrategyTimesOut, ShowsToken, StreamsNothing, ClientLeaves
<1>2. CASE Refused(q) \/ WithoutStratege(q) \/ StrategyTimesOut(q)
  <2>a. UNCHANGED <<endpoint, message, at, shown, reply, verdict, saved, reviewed, resp_cache>>
    BY <1>2 DEF Refused, WithoutStratege, StrategyTimesOut
  <2>b. \E place \in {"answered", "chain", "stream"} : pc' = [pc EXCEPT ![q] = place]
    BY <1>2 DEF Refused, WithoutStratege, StrategyTimesOut
  <2>c. actions' = actions \/ \E a \in {"given", "none"} : actions' = [actions EXCEPT ![q] = a]
    BY <1>2 DEF Refused, WithoutStratege, StrategyTimesOut
  <2>d. pc' \in [Request -> {"new", "context", "strategy", "chain", "stream", "rescue",
                             "replay", "answered", "gone"}]
    BY <2>b DEF IInv, TypeOK
  <2>e. actions' \in [Request -> {"none", "given", "blocked"}]
    BY <2>c DEF IInv, TypeOK
  <2>1. TypeOK'
    BY <1>1, <2>a, <2>d, <2>e DEF IInv, TypeOK
  <2>2. /\ pc[q] \in {"new", "context", "strategy"} /\ shown[q] = {} /\ at[q] = 1
        /\ pc'[q] \in {"answered", "chain", "stream"}
    BY <1>2 DEF IInv, TypeOK, QueryInv, Refused, WithoutStratege, StrategyTimesOut
  <2>3. /\ \A p \in Request \ {q} : pc'[p] = pc[p]
        /\ UNCHANGED <<at, shown, reply, verdict, saved, reviewed>>
    BY <1>2 DEF IInv, TypeOK, Refused, WithoutStratege, StrategyTimesOut
  <2>4. \A p \in Request : QueryInv(p)'
    BY <2>2, <2>3, ChainEnds, MovesOn
  <2> QED  BY <1>1, <2>1, <2>4 DEF IInv, RunInv
<1>3. CASE ShowsToken(q)
  <2>1. TypeOK'
    BY <1>1, <1>3, TriedModel DEF IInv, TypeOK, ShowsToken, Voice
  <2>2. QueryInv(q)'
    <3> DEFINE m == Chain("stream")[at[q]]
    <3>1. /\ pc'[q] = "stream" /\ at'[q] = at[q] /\ shown'[q] = shown[q] \cup {m}
          /\ UNCHANGED <<reply, verdict, saved, reviewed>>
      BY <1>3 DEF IInv, TypeOK, ShowsToken
    <3>2. /\ \A a \in shown[q] : a = m
          /\ reply[q] = None /\ verdict[q] = None /\ saved[q] = None /\ q \notin reviewed
      BY <1>3 DEF IInv, QueryInv, ShowsToken
    <3>3. \A a \in shown'[q] : a = m
      BY <3>1, <3>2
    <3>4. m = Chain("stream")[at'[q]]
      BY <3>1
    <3> HIDE DEF m
    <3> QED  BY <3>1, <3>2, <3>3, <3>4 DEF QueryInv
  <2>3. Elsewhere(q)
    BY <1>3 DEF IInv, TypeOK, Elsewhere, ShowsToken
  <2> QED  BY <1>1, <2>1, <2>2, <2>3, OthersStay DEF IInv, RunInv
<1>4. CASE StreamsNothing(q)
  <2>a. /\ pc \in [Request -> {"new", "context", "strategy", "chain", "stream", "rescue",
                               "replay", "answered", "gone"}]
        /\ at \in [Request -> Nat \ {0}]
    BY DEF IInv, TypeOK
  <2>b. at' \in [Request -> Nat \ {0}]
    <3>1. at[q] + 1 \in Nat \ {0} /\ 1 \in Nat \ {0}
      BY <2>a
    <3>2. at' = [at EXCEPT ![q] = at[q] + 1] \/ at' = [at EXCEPT ![q] = 1]
      BY <1>4 DEF StreamsNothing
    <3> QED  BY <2>a, <3>1, <3>2
  <2>c. pc' \in [Request -> {"new", "context", "strategy", "chain", "stream", "rescue",
                             "replay", "answered", "gone"}]
    BY <1>4, <2>a DEF StreamsNothing
  <2>1. TypeOK'
    BY <1>1, <1>4, <2>b, <2>c DEF IInv, TypeOK, StreamsNothing
  <2>2. /\ \A p \in Request \ {q} : pc'[p] = pc[p] /\ at'[p] = at[p]
        /\ pc[q] = "stream" /\ shown[q] = {}
        /\ pc'[q] = "stream" \/ (pc'[q] = "rescue" /\ at'[q] = 1)
        /\ UNCHANGED <<shown, reply, verdict, saved, reviewed>>
    <3>1. /\ pc[q] = "stream" /\ shown[q] = {}
          /\ \/ at' = [at EXCEPT ![q] = at[q] + 1] /\ pc' = pc
             \/ at' = [at EXCEPT ![q] = 1] /\ pc' = [pc EXCEPT ![q] = "rescue"]
          /\ UNCHANGED <<shown, reply, verdict, saved, reviewed>>
      BY <1>4 DEF StreamsNothing
    <3> QED  BY <2>a, <3>1
  <2>3. \A p \in Request : QueryInv(p)'
    BY <2>2, ChainEnds, MovesOn
  <2> QED  BY <1>1, <2>1, <2>3 DEF IInv, RunInv
<1>5. CASE ClientLeaves(q)
  <2>1. TypeOK'
    BY <1>1, <1>5 DEF IInv, TypeOK, ClientLeaves
  <2>2. /\ \A p \in Request \ {q} : pc'[p] = pc[p] /\ at'[p] = at[p] /\ shown'[p] = shown[p]
        /\ pc[q] # "answered" /\ shown'[q] = {} /\ pc'[q] = "gone"
        /\ UNCHANGED <<reply, verdict, saved, reviewed>>
    BY <1>5 DEF IInv, TypeOK, ClientLeaves
  <2>3. \A p \in Request : QueryInv(p)'
    BY <2>2, MovesOn
  <2> QED  BY <1>1, <2>1, <2>3 DEF IInv, RunInv
<1> QED
  BY <1>2, <1>3, <1>4, <1>5

\* A request answered at its first step: nothing was shown or remembered.
LEMMA AnsweredAtOnce ==
    ASSUME IInv, NEW q \in Request, pc[q] = "new",
           pc' = [pc EXCEPT ![q] = "answered"], NEW text, reply' = [reply EXCEPT ![q] = text],
           UNCHANGED <<at, shown, verdict, saved, reviewed>>
    PROVE  \A p \in Request : QueryInv(p)'
<1>1. /\ shown[q] = {} /\ saved[q] = None /\ q \notin reviewed
  BY DEF IInv, QueryInv
<1>2. pc'[q] = "answered"
  BY DEF IInv, TypeOK
<1>3. QueryInv(q)'
  BY <1>1, <1>2 DEF QueryInv
<1>4. \A p \in Request \ {q} : pc'[p] = pc[p] /\ reply'[p] = reply[p]
  BY DEF IInv, TypeOK
<1>5. Elsewhere(q)
  BY <1>4 DEF Elsewhere
<1> QED  BY <1>3, <1>5, OthersStay

\* The first step of a request.
LEMMA AskStep ==
    ASSUME IInv, NEW q \in Request, NEW m \in Message,
           ServedFromCache(q, m) \/ ServedFixed(q, m) \/ Accepted(q, m)
    PROVE  IInv'
<1> USE DEF after, strategy, Asks, Answer
<1>0. Fixed \in Reply
  BY DEF Fixed, Reply
<1>1. CASE ServedFromCache(q, m)
  <2>1. TypeOK'
    <3>1. reply' \in [Request -> Reply \cup {None}]
      BY <1>1 DEF IInv, TypeOK, ServedFromCache
    <3>2. message' \in [Request -> Message \cup {None}]
      BY <1>1 DEF IInv, TypeOK, ServedFromCache
    <3> QED  BY <1>1, <3>1, <3>2 DEF IInv, TypeOK, ServedFromCache
  <2>2. \A p \in Request : QueryInv(p)'
    BY <1>1, AnsweredAtOnce DEF ServedFromCache
  <2> QED  BY <1>1, <2>1, <2>2 DEF IInv, RunInv, ServedFromCache
<1>2. CASE ServedFixed(q, m)
  <2>1. TypeOK'
    <3>1. reply' \in [Request -> Reply \cup {None}]
      BY <1>0, <1>2 DEF IInv, TypeOK, ServedFixed
    <3>2. resp_cache' \in [Message -> Reply \cup {None}]
      BY <1>0, <1>2 DEF IInv, TypeOK, ServedFixed
    <3>3. message' \in [Request -> Message \cup {None}]
      BY <1>2 DEF IInv, TypeOK, ServedFixed
    <3> QED  BY <1>2, <3>1, <3>2, <3>3 DEF IInv, TypeOK, ServedFixed
  <2>2. \A p \in Request : QueryInv(p)'
    BY <1>2, AnsweredAtOnce DEF ServedFixed
  <2> QED  BY <1>2, <2>1, <2>2 DEF IInv, RunInv, ServedFixed
<1>3. CASE Accepted(q, m)
  <2>1. TypeOK'
    BY <1>3 DEF IInv, TypeOK, Accepted
  <2>2. \A p \in Request : QueryInv(p)'
    <3>1. /\ \A p \in Request \ {q} : pc'[p] = pc[p]
          /\ pc[q] = "new" /\ pc'[q] = "context" /\ shown[q] = {} /\ at[q] = 1
          /\ UNCHANGED <<at, shown, reply, verdict, saved, reviewed>>
      BY <1>3 DEF IInv, TypeOK, QueryInv, Accepted
    <3> QED  BY <3>1, MovesOn
  <2> QED  BY <1>3, <2>1, <2>2 DEF IInv, RunInv, Accepted
<1> QED
  BY <1>1, <1>2, <1>3

\* The request waits for its strategy, or has it.
LEMMA StrategyStep ==
    ASSUME IInv, NEW q \in Request, AskStratege(q) \/ StrategyArrives(q)
    PROVE  IInv'
<1> USE DEF after
<1>1. CASE AskStratege(q)
  <2>1. PICK b \in Bucket :
          \/ \E i \in Entry(cache, b) :
               run' = [run EXCEPT ![q] = [Idle EXCEPT !.pc = "done", !.source = "cached",
                                                     !.actions = cache[i].actions]]
          \/ run' = [run EXCEPT ![q] = [Idle EXCEPT !.pc = "calling", !.bucket = b]]
    BY <1>1 DEF AskStratege
  <2>2. PICK r \in Run : /\ run' = [run EXCEPT ![q] = r]
                         /\ \/ r.pc = "done" /\ r.actions \in Answered
                            \/ r.pc = "calling" /\ r.bucket \in Bucket
    <3>1. CASE \E i \in Entry(cache, b) :
                 run' = [run EXCEPT ![q] = [Idle EXCEPT !.pc = "done", !.source = "cached",
                                                       !.actions = cache[i].actions]]
      <4>1. PICK i \in Entry(cache, b) :
                 run' = [run EXCEPT ![q] = [Idle EXCEPT !.pc = "done", !.source = "cached",
                                                       !.actions = cache[i].actions]]
        BY <3>1
      <4>2. cache[i].actions \in Answered
        BY EntryKept DEF IInv
      <4> DEFINE r == [Idle EXCEPT !.pc = "done", !.source = "cached",
                           !.actions = cache[i].actions]
      <4>3. r \in Run /\ r.pc = "done" /\ r.actions \in Answered
        BY <4>2 DEF Idle, Run, Actions
      <4> QED  BY <4>1, <4>3
    <3>2. CASE run' = [run EXCEPT ![q] = [Idle EXCEPT !.pc = "calling", !.bucket = b]]
      <4> DEFINE r == [Idle EXCEPT !.pc = "calling", !.bucket = b]
      <4>3. r \in Run /\ r.pc = "calling" /\ r.bucket \in Bucket
        BY DEF Idle, Run, Actions
      <4> QED  BY <3>2, <4>3
    <3> QED  BY <2>1, <3>1, <3>2
  <2>3. TypeOK'
    BY <1>1, <2>2 DEF IInv, TypeOK, AskStratege
  <2>4. \A p \in Request : QueryInv(p)'
    <3>1. /\ \A p \in Request \ {q} : pc'[p] = pc[p]
          /\ pc[q] = "context" /\ pc'[q] = "strategy" /\ shown[q] = {} /\ at[q] = 1
          /\ UNCHANGED <<at, shown, reply, verdict, saved, reviewed>>
      BY <1>1 DEF IInv, TypeOK, QueryInv, AskStratege
    <3> QED  BY <3>1, MovesOn
  <2>5. \A p \in Request : RunInv(p)'
    BY <2>2 DEF IInv, TypeOK, RunInv
  <2> QED  BY <1>1, <2>3, <2>4, <2>5 DEF IInv, AskStratege
<1>2. CASE StrategyArrives(q)
  <2>1. TypeOK'
    BY <1>2, IdleType DEF IInv, TypeOK, StrategyArrives, Prompt
  <2>2. \A p \in Request : QueryInv(p)'
    <3>1. /\ \A p \in Request \ {q} : pc'[p] = pc[p]
          /\ pc[q] = "strategy" /\ pc'[q] \in {"chain", "stream"} /\ shown[q] = {} /\ at[q] = 1
          /\ UNCHANGED <<at, shown, reply, verdict, saved, reviewed>>
      BY <1>2 DEF IInv, TypeOK, QueryInv, StrategyArrives, Prompt
    <3> QED  BY <3>1, ChainEnds, MovesOn
  <2>3. \A p \in Request : RunInv(p)'
    BY <1>2 DEF IInv, TypeOK, RunInv, StrategyArrives, Idle
  <2> QED  BY <1>2, <2>1, <2>2, <2>3 DEF IInv, StrategyArrives
<1> QED
  BY <1>1, <1>2

\* The end of a request: what the guardrail blocks is replaced before anything
\* is saved or asked for review.
LEMMA ConcludeStep ==
    ASSUME IInv, NEW q \in Request, NEW by \in {"model", "intent_fallback"}, Conclude(q, by),
           pc[q] \in {"chain", "stream", "replay"}, by = Writer(q) \/ shown[q] = {},
           UNCHANGED <<endpoint, message, shown, strategy>>
    PROVE  IInv'
<1> USE DEF strategy, Answer
<1>1. PICK seen \in Verdict, blocked \in BOOLEAN, offends \in BOOLEAN :
        LET text == [by |-> by, blocked |-> blocked]
            told == IF seen = "BLOCK" THEN Safe ELSE text
        IN  /\ seen = "ESCALATE" => ~blocked
            /\ resp_cache' = [resp_cache EXCEPT ![message[q]] = text]
            /\ verdict' = [verdict EXCEPT ![q] = seen]
            /\ actions' = [actions EXCEPT ![q] = IF offends THEN "blocked" ELSE @]
            /\ pc' = [pc EXCEPT ![q] = "answered"]
            /\ reply' = [reply EXCEPT ![q] = told]
            /\ at' = [at EXCEPT ![q] = 1]
            /\ saved' = [saved EXCEPT ![q] = told]
            /\ \/ reviewed' = reviewed
               \/ seen # "APPROVE" /\ reviewed' = reviewed \cup {q}
  BY ZenonT(40) DEF Conclude
<1> DEFINE text == [by |-> by, blocked |-> blocked]
           told == IF seen = "BLOCK" THEN Safe ELSE text
<1>2. text \in Reply /\ Safe \in Reply /\ told \in Reply
  BY DEF Reply, Safe
<1>3. /\ told = Safe \/ told.by = by
      /\ told.blocked => seen = "APPROVE"
  BY <1>1 DEF Safe, Verdict
<1>4. /\ verdict' = [verdict EXCEPT ![q] = seen]
      /\ pc' = [pc EXCEPT ![q] = "answered"]
      /\ reply' = [reply EXCEPT ![q] = told]
      /\ saved' = [saved EXCEPT ![q] = told]
      /\ at' = [at EXCEPT ![q] = 1]
      /\ \/ reviewed' = reviewed
         \/ seen # "APPROVE" /\ reviewed' = reviewed \cup {q}
  BY <1>1
<1>5. TypeOK'
  <2>1. reviewed' \subseteq Request
    BY <1>4 DEF IInv, TypeOK
  <2>2. resp_cache' \in [Message -> Reply \cup {None}]
    BY <1>1, <1>2 DEF IInv, TypeOK
  <2>3. reply' \in [Request -> Reply \cup {None}] /\ saved' \in [Request -> Reply \cup {None}]
    BY <1>2, <1>4 DEF IInv, TypeOK
  <2>4. actions' \in [Request -> {"none", "given", "blocked"}]
    BY <1>1 DEF IInv, TypeOK
  <2> QED  BY <1>4, <2>1, <2>2, <2>3, <2>4 DEF IInv, TypeOK
<1> HIDE DEF told
<1>6. ASSUME NEW p \in Request PROVE QueryInv(p)'
  <2>1. CASE p = q
    <3>1. pc'[p] = "answered" /\ reply'[p] = told /\ saved'[p] = told /\ verdict'[p] = seen
      BY <2>1, <1>4 DEF IInv, TypeOK
    <3>2. shown'[p] = shown[p] /\ \A a, b \in shown[p] : a = b
      BY <2>1 DEF IInv, QueryInv
    <3>3. shown[p] # {} => told = Safe \/ told.by = Writer(p)'
      BY <1>3, <2>1, <3>2 DEF Writer
    <3>4. q \notin reviewed
      BY DEF IInv, QueryInv
    <3>5. p \in reviewed' => ~told.blocked
      BY <1>3, <1>4, <2>1, <3>4
    <3> QED  BY <1>3, <3>1, <3>2, <3>3, <3>5 DEF QueryInv
  <2>2. CASE p # q
    <3>1. /\ pc'[p] = pc[p] /\ reply'[p] = reply[p] /\ saved'[p] = saved[p]
          /\ verdict'[p] = verdict[p] /\ at'[p] = at[p] /\ shown'[p] = shown[p]
          /\ p \in reviewed' <=> p \in reviewed
      BY <1>4, <2>2 DEF IInv, TypeOK
    <3> QED  BY <3>1 DEF IInv, QueryInv, Writer
  <2> QED  BY <2>1, <2>2
<1> QED  BY <1>5, <1>6 DEF IInv, RunInv

\* A valid reply ends a chat, and is played back by a stream.
LEMMA RepliesStep ==
    ASSUME IInv, NEW q \in Request, NEW voice \in Voice, Replies(q, voice),
           UNCHANGED <<endpoint, message, strategy>>
    PROVE  IInv'
<1>1. CASE pc[q] = "chain"
  <2> DEFINE by == IF voice \in Model THEN "model" ELSE voice
  <2>1. by \in {"model", "intent_fallback"} /\ Conclude(q, by) /\ UNCHANGED shown
    BY <1>1 DEF Replies, Voice
  <2>2. shown[q] = {}
    BY <1>1 DEF IInv, QueryInv
  <2> HIDE DEF by
  <2> QED  BY <1>1, <2>1, <2>2, ConcludeStep
<1>2. CASE pc[q] # "chain"
  <2>1. /\ pc[q] = "rescue" /\ pc' = [pc EXCEPT ![q] = "replay"]
        /\ shown' = [shown EXCEPT ![q] = @ \cup {voice}] /\ at' = [at EXCEPT ![q] = 1]
        /\ UNCHANGED <<endpoint, message, actions, reply, verdict, saved, reviewed, resp_cache,
                       run, cache>>
    BY <1>2 DEF Replies, after, strategy
  <2>2. TypeOK'
    BY <2>1 DEF IInv, TypeOK
  <2>3. ASSUME NEW p \in Request PROVE QueryInv(p)'
    <3>1. CASE p = q
      <4>1. shown[q] = {} /\ reply[q] = None /\ verdict[q] = None /\ saved[q] = None
            /\ q \notin reviewed
        BY <2>1 DEF IInv, QueryInv
      <4>2. shown'[p] = {voice} /\ pc'[p] = "replay" /\ reply'[p] = None
            /\ verdict'[p] = None /\ saved'[p] = None /\ p \notin reviewed'
        BY <2>1, <3>1, <4>1 DEF IInv, TypeOK
      <4> QED  BY <4>2 DEF QueryInv
    <3>2. CASE p # q
      <4>1. /\ pc'[p] = pc[p] /\ at'[p] = at[p] /\ shown'[p] = shown[p]
            /\ UNCHANGED <<reply, verdict, saved, reviewed>>
        BY <2>1, <3>2 DEF IInv, TypeOK
      <4> QED  BY <4>1 DEF IInv, QueryInv, Writer
    <3> QED  BY <3>1, <3>2
  <2> QED  BY <2>1, <2>2, <2>3 DEF IInv, RunInv
<1> QED  BY <1>1, <1>2

\* One attempt of a chat or of a rescue, and the end of a stream.
LEMMA ModelStep ==
    ASSUME IInv, NEW q \in Request, TriesModel(q) \/ StreamEnds(q)
    PROVE  IInv'
<1>1. CASE StreamEnds(q)
  <2>1. Writer(q) \in {"model", "intent_fallback"}
    BY DEF Writer
  <2> QED  BY <1>1, <2>1, ConcludeStep DEF StreamEnds, Writer
<1>2. CASE TriesModel(q)
  <2>1. pc[q] \in {"chain", "rescue"} /\ UNCHANGED <<endpoint, message, strategy>>
    BY <1>2 DEF TriesModel
  <2>2. at[q] \in Nat \ {0} /\ at[q] <= Len(Chain(pc[q]))
    BY <2>1 DEF IInv, TypeOK, QueryInv
  <2>3. CASE Replies(q, Chain(pc[q])[at[q]])
    <3>1. Chain(pc[q])[at[q]] \in Voice
      BY <2>1, <2>2, TriedModel DEF Voice
    <3> QED  BY <2>1, <2>3, <3>1, RepliesStep
  <2>4. CASE Replies(q, "intent_fallback")
    BY <2>1, <2>4, RepliesStep DEF Voice
  <2>5. ASSUME at[q] < Len(Chain(pc[q])), at' = [at EXCEPT ![q] = @ + 1],
               UNCHANGED <<pc, shown, actions, reply, verdict, after, resp_cache>>
        PROVE  IInv'
    <3>1. at' \in [Request -> Nat \ {0}]
      BY <2>5 DEF IInv, TypeOK
    <3>2. TypeOK'
      BY <2>1, <2>5, <3>1 DEF IInv, TypeOK, after, strategy
    <3>3. Len(Chain(pc[q])) \in Nat
      BY <2>1, ChainEnds
    <3>4. ASSUME NEW p \in Request PROVE QueryInv(p)'
      <4>1. CASE p = q
        <5>1. at'[q] = at[q] + 1 /\ at'[q] <= Len(Chain(pc[q]))
          BY <2>2, <2>5, <3>3 DEF IInv, TypeOK
        <5>2. Chain(pc[q])' = Chain(pc[q])
          BY <2>5 DEF Chain
        <5> QED  BY <2>1, <2>5, <4>1, <5>1, <5>2 DEF IInv, QueryInv, Writer, after
      <4>2. CASE p # q
        BY <2>5, <4>2 DEF IInv, TypeOK, QueryInv, Writer, after
      <4> QED  BY <4>1, <4>2
    <3> QED  BY <2>1, <2>5, <3>2, <3>4 DEF IInv, RunInv, after, strategy
  <2> QED  BY <1>2, <2>3, <2>4, <2>5 DEF TriesModel
<1> QED
  BY <1>1, <1>2

\* A run ends with its request still waiting, or is dropped.
LEMMA FinishStep ==
    ASSUME IInv, NEW q \in Request, NEW source \in {"success", "stale_cache", "fallback"},
           NEW a \in Actions, Finish(q, source, a),
           source \in {"success", "stale_cache"} => a \in Answered
    PROVE  run' \in [Request -> Run] /\ \A p \in Request : RunInv(p)'
<1> DEFINE r == [run[q] EXCEPT !.pc = "done", !.source = source, !.actions = a]
<1>1. run \in [Request -> Run]
  BY DEF IInv, TypeOK
<1>2. r \in Run /\ r.pc = "done" /\ r.source = source /\ r.actions = a
  BY <1>1 DEF Run
<1>3. run' = [run EXCEPT ![q] = r] \/ run' = [run EXCEPT ![q] = Idle]
  BY DEF Finish
<1> HIDE DEF r
<1>4. run' \in [Request -> Run]
  BY <1>1, <1>2, <1>3, IdleType
<1>5. ASSUME NEW p \in Request PROVE RunInv(p)'
  <2>1. CASE p # q
    BY <1>1, <1>3, <2>1 DEF IInv, RunInv
  <2>2. CASE p = q
    <3>1. run'[p] = r \/ run'[p] = Idle
      BY <1>1, <1>3, <2>2
    <3> QED  BY <1>2, <3>1 DEF RunInv, Idle
  <2> QED  BY <2>1, <2>2
<1> QED
  BY <1>4, <1>5

\* Only what the Stratège answered is stored.
LEMMA RunStep ==
    ASSUME IInv, NEW q \in Request, StrategeAnswers(q) \/ StrategeFails(q) \/ Retry(q)
    PROVE  IInv'
<1> USE DEF request, after
<1>0. /\ run \in [Request -> Run] /\ cache \in Seq(Kept)
      /\ Len(cache) <= MaxSize
  BY DEF IInv, TypeOK
<1>1. ASSUME run' \in [Request -> Run], \A p \in Request : RunInv(p)',
             cache' \in Seq(Kept), Len(cache') <= MaxSize,
             UNCHANGED <<request, after, resp_cache>>
      PROVE  IInv'
  <2>1. cache' \in Seq(Strategy)
    BY <1>1, SeqMonotonic DEF Kept
  <2>2. TypeOK'
    BY <1>1, <2>1 DEF IInv, TypeOK
  <2>3. \A p \in Request : QueryInv(p)'
    BY <1>1 DEF IInv, QueryInv, Writer
  <2> QED  BY <1>1, <2>2, <2>3 DEF IInv
<1>2. CASE StrategeAnswers(q)
  <2>1. run[q].bucket \in Bucket
    BY <1>2 DEF IInv, RunInv, StrategeAnswers
  <2>a. PICK a \in Answered : Finish(q, "success", a) /\ cache' = Store(run[q].bucket, a)
    BY <1>2 DEF StrategeAnswers
  <2>2. cache' \in Seq(Kept) /\ Len(cache') <= MaxSize
    BY <1>0, <2>1, <2>a, StoreKeeps
  <2>3. run' \in [Request -> Run] /\ \A p \in Request : RunInv(p)'
    BY <2>a, FinishStep DEF Actions
  <2> QED  BY <1>1, <1>2, <2>2, <2>3 DEF StrategeAnswers
<1>3. CASE StrategeFails(q)
  <2>1. CASE run' = [run EXCEPT ![q].pc = "backoff"]
    <3>1. [run[q] EXCEPT !.pc = "backoff"] \in Run
      BY <1>0 DEF Run
    <3>2. run' = [run EXCEPT ![q] = [run[q] EXCEPT !.pc = "backoff"]]
      BY <2>1
    <3>3. run' \in [Request -> Run]
      BY <1>0, <3>1, <3>2
    <3>4. run[q].bucket \in Bucket
      BY <1>3 DEF IInv, RunInv, StrategeFails
    <3>5. \A p \in Request : RunInv(p)'
      BY <1>0, <3>2, <3>4 DEF IInv, RunInv, Run
    <3> QED  BY <1>0, <1>1, <1>3, <3>3, <3>5 DEF StrategeFails
  <2>2. CASE \E i \in Entry(cache, run[q].bucket) : Finish(q, "stale_cache", cache[i].actions)
    <3>1. PICK i \in Entry(cache, run[q].bucket) : Finish(q, "stale_cache", cache[i].actions)
      BY <2>2
    <3>2. cache[i].actions \in Answered
      BY <1>0, EntryKept
    <3>3. run' \in [Request -> Run] /\ \A p \in Request : RunInv(p)'
      BY <3>1, <3>2, FinishStep DEF Actions
    <3> QED  BY <1>0, <1>1, <1>3, <3>3 DEF StrategeFails
  <2>3. CASE \E a \in {"products", "generic"} : Finish(q, "fallback", a)
    <3>1. run' \in [Request -> Run] /\ \A p \in Request : RunInv(p)'
      BY <2>3, FinishStep DEF Actions
    <3> QED  BY <1>0, <1>1, <1>3, <3>1 DEF StrategeFails
  <2> QED  BY <1>3, <2>1, <2>2, <2>3 DEF StrategeFails
<1>4. CASE Retry(q)
  <2> DEFINE r == [run[q] EXCEPT !.pc = "calling", !.attempt = run[q].attempt + 1]
  <2>a. run[q] \in Run /\ run[q].attempt + 1 \in Nat
    BY <1>0 DEF Run
  <2>1. r \in Run /\ r.pc = "calling" /\ r.bucket = run[q].bucket
    BY <2>a DEF Run
  <2>2. run' = [run EXCEPT ![q] = r]
    BY <1>4 DEF Retry
  <2>3. run[q].bucket \in Bucket
    BY <1>4 DEF IInv, RunInv, Retry
  <2> HIDE DEF r
  <2>4. run' \in [Request -> Run]
    BY <1>0, <2>1, <2>2
  <2>5. \A p \in Request : RunInv(p)'
    BY <1>0, <2>1, <2>2, <2>3 DEF IInv, RunInv
  <2> QED  BY <1>0, <1>1, <1>4, <2>4, <2>5 DEF Retry
<1> QED
  BY <1>2, <1>3, <1>4

\* Time passes.
LEMMA TimeStep ==
    ASSUME IInv, \/ \E m \in Message : ReplyExpires(m)
                 \/ \E i \in DOMAIN cache : StrategyExpires(i)
                 \/ HourPasses
    PROVE  IInv'
<1> USE DEF request, after, strategy
<1>1. CASE \E m \in Message : ReplyExpires(m)
  <2>1. TypeOK'
    BY <1>1 DEF IInv, TypeOK, ReplyExpires
  <2>2. UNCHANGED <<request, after, strategy>>
    BY <1>1 DEF ReplyExpires
  <2> QED  BY <2>1, <2>2 DEF IInv, QueryInv, Writer, RunInv
<1>2. CASE \E i \in DOMAIN cache : StrategyExpires(i)
  <2>1. PICK i \in DOMAIN cache : StrategyExpires(i)
    BY <1>2
  <2>2. cache' \in Seq(Kept) /\ Len(cache') = Len(cache)
    BY <2>1, ExpiryKeeps DEF IInv, StrategyExpires
  <2>3. cache' \in Seq(Strategy)
    BY <2>2, SeqMonotonic DEF Kept
  <2>4. UNCHANGED <<request, after, resp_cache, run>>
    BY <2>1 DEF StrategyExpires
  <2>5. TypeOK'
    BY <2>2, <2>3, <2>4 DEF IInv, TypeOK
  <2> QED  BY <2>2, <2>4, <2>5 DEF IInv, QueryInv, Writer, RunInv
<1>3. CASE HourPasses
  <2>1. cache' \in Seq(Kept) /\ Len(cache') = Len(cache)
    BY <1>3, HourKeeps DEF IInv, HourPasses
  <2>2. cache' \in Seq(Strategy)
    BY <2>1, SeqMonotonic DEF Kept
  <2>3. UNCHANGED <<request, after, resp_cache, run>>
    BY <1>3 DEF HourPasses
  <2>4. TypeOK'
    BY <2>1, <2>2, <2>3 DEF IInv, TypeOK
  <2> QED  BY <2>1, <2>3, <2>4 DEF IInv, QueryInv, Writer, RunInv
<1> QED
  BY <1>1, <1>2, <1>3

LEMMA Inductive == IInv /\ [Next]_vars => IInv'
<1> SUFFICES ASSUME IInv, [Next]_vars PROVE IInv'
  OBVIOUS
<1>1. CASE \E q \in Request : Refused(q) \/ WithoutStratege(q) \/ StrategyTimesOut(q)
                               \/ ShowsToken(q) \/ StreamsNothing(q) \/ ClientLeaves(q)
  BY <1>1, HandlerStep
<1>2. CASE \E q \in Request, m \in Message :
               ServedFromCache(q, m) \/ ServedFixed(q, m) \/ Accepted(q, m)
  BY <1>2, AskStep
<1>3. CASE \E q \in Request : AskStratege(q) \/ StrategyArrives(q)
  BY <1>3, StrategyStep
<1>4. CASE \E q \in Request : TriesModel(q) \/ StreamEnds(q)
  BY <1>4, ModelStep
<1>5. CASE \E q \in Request : StrategeAnswers(q) \/ StrategeFails(q) \/ Retry(q)
  BY <1>5, RunStep
<1>6. CASE \/ \E m \in Message : ReplyExpires(m)
           \/ \E i \in DOMAIN cache : StrategyExpires(i)
           \/ HourPasses
  BY <1>6, TimeStep
<1>7. CASE UNCHANGED vars
  <2>1. UNCHANGED <<request, after, resp_cache, strategy>>
    BY <1>7 DEF vars
  <2>2. TypeOK'
    BY <2>1 DEF IInv, TypeOK, request, after, strategy
  <2> QED  BY <2>1, <2>2 DEF IInv, QueryInv, Writer, RunInv, request, after, strategy
<1> QED
  BY <1>1, <1>2, <1>3, <1>4, <1>5, <1>6, <1>7 DEF Next, Handler

-----------------------------------------------------------------------------
(* The theorems.                                                           *)

\* The inductive invariant of the coach's endpoints (CoachChat.tla, coach_chat.py).
THEOREM Invariance == Spec => []IInv
<1> QED
  BY Initial, Inductive, PTL DEF Spec

\* Types, and the limit of StrategyCache.
THEOREM TypeCorrect == Spec => []TypeOK
<1>1. IInv => TypeOK
  BY DEF IInv
<1> QED
  BY <1>1, Invariance, PTL

\* The tokens of a stream come from one model, and its answer is that model's
\* text or the safe text (coach_chat_stream).
THEOREM AlwaysOneVoice == Spec => []OneVoice
<1>1. IInv => OneVoice
  BY DEF IInv, QueryInv, OneVoice, Writer
<1> QED
  BY <1>1, Invariance, PTL

\* A text that breaks a BLOCK rule enters the history only when the guardrail
\* raised on it, and never a review (the end of coach_chat and of
\* coach_chat_stream; the reply cache keeps such texts).
THEOREM HistoryAlwaysVetted == Spec => []HistoryIsVetted
<1>1. IInv => HistoryIsVetted
  BY DEF IInv, QueryInv, HistoryIsVetted
<1> QED
  BY <1>1, Invariance, PTL

\* What is stored as a strategy, or served as one, the Stratège has answered
\* (StrategyCache, invoke).
THEOREM CachedAlwaysAnswered == Spec => []CachedWasAnswered
<1>1. IInv => CachedWasAnswered
  <2> SUFFICES ASSUME IInv PROVE CachedWasAnswered
    OBVIOUS
  <2>1. \A i \in DOMAIN cache : cache[i].actions \in Answered
    <3>1. \A i \in DOMAIN cache : i \in 1 .. Len(cache)
      BY LenProperties DEF IInv
    <3> QED  BY <3>1, ElementOfSeq DEF IInv, Kept
  <2> QED  BY <2>1 DEF IInv, RunInv, CachedWasAnswered
<1> QED
  BY <1>1, Invariance, PTL
=============================================================================
