------------------------------ MODULE CoachChat ------------------------------
(***************************************************************************)
(* The coach of the advisers: POST /api/coach-chat/chat and /stream        *)
(* (app/sales/coaching/agents/coach/coach_chat.py), with the orchestrator  *)
(* that gives them a strategy (app/sales/coaching/orchestrator/            *)
(* coach_stratege_orchestrator.py).                                        *)
(*                                                                         *)
(* Handlers and background tasks are coroutines of one event loop: a step  *)
(* is what runs between two awaits.  A chat request tries the language     *)
(* models until one gives a valid reply; a stream shows tokens as they     *)
(* come.  A strategy is computed by a task of its own, which the request   *)
(* waits for a bounded time and then leaves running.                       *)
(*                                                                         *)
(* A reply is what wrote it and whether it breaks a BLOCK rule of the      *)
(* guardrail; the actions that go with it may break one too.  Both         *)
(* endpoints treat REWRITE as APPROVE.                                     *)
(***************************************************************************)
EXTENDS Integers, SequencesExt

CONSTANTS
    Request,
    Message,     \* keys of the reply cache: adviser, store, 120 characters
    Bucket,      \* steps of five points of the gap
    Hours,       \* hours of a day (bound)
    MaxSize,     \* entries of the strategy cache (50)
    MaxRetries,  \* attempts of a run (3)
    Configured,  \* remote providers a key is configured for
    LocalFirst,  \* Ollama heads LLM_FALLBACK_CHAIN
    None

ASSUME CoachAssumption ==
    /\ Hours \in Nat \ {0} /\ MaxSize \in Nat \ {0} /\ MaxRetries \in Nat \ {0}
    /\ LocalFirst \in BOOLEAN /\ Configured \subseteq {"groq", "openrouter", "mistral"}
ASSUME NoneAssumption == None \notin {"APPROVE", "ESCALATE", "BLOCK"}

VARIABLES
    pc,         \* where the handler of a request is
    endpoint,   \* "chat" or "stream", once the request is accepted
    message,    \* what it asks
    at,         \* the model it tries, an index in its chain
    shown,      \* whose words the client of a stream has received
    actions,    \* strategie_actions, "blocked" once judged to break a rule
    reply,      \* the reply in the answer, or in the event that closes a stream
    verdict,    \* guardrail_status of the answer, None before the guardrail
    saved,      \* the reply in coach_interactions, unless its INSERT failed
    reviewed,   \* requests with a row in hitl_reviews, with the same proviso
    resp_cache, \* _resp_cache: the reply a message got less than 20 s ago
    run,        \* orchestrator.invoke(): the task of a request
    cache       \* StrategyCache: its entries from the oldest to the latest

request == <<pc, endpoint, message, at, shown, actions, reply, verdict>>
after   == <<saved, reviewed>>
strategy == <<run, cache>>
vars == <<request, after, resp_cache, strategy>>

Verdict == {"APPROVE", "ESCALATE", "BLOCK"}
Model   == {"groq", "openrouter", "mistral", "ollama"}
Fixed   == [by |-> "fixed", blocked |-> FALSE]
Safe    == [by |-> "safe_fallback", blocked |-> FALSE]
Reply   == [by : {"model", "intent_fallback", "fixed", "safe_fallback"}, blocked : BOOLEAN]

\* The models in the order they are tried, those without a key left out.  A
\* rotation over the keys and models of a provider is one attempt.
Chain(p) ==
    LET Of(m) == IF m \in Configured THEN <<m>> ELSE <<>>
    IN CASE p = "chain"  -> (IF LocalFirst THEN <<"ollama">> ELSE <<>>)
                            \o Of("groq") \o Of("openrouter") \o Of("mistral")
                            \o Of("openrouter") \o <<"ollama">>
         [] p = "stream" -> Of("groq") \o Of("openrouter") \o Of("mistral")
         [] p = "rescue" -> Of("openrouter") \o <<"ollama">>

Voice == Model \cup {"intent_fallback"}
Answered == {"stratege", "substitute"}
Actions == Answered \cup {"products", "generic"}
\* ago: the hours since the hour of the key, of which the clock shows the same
\* again after a day.
Strategy == [bucket : Bucket, ago : 0 .. Hours - 1, actions : Actions, fresh : BOOLEAN]
Run == [pc : {"none", "calling", "backoff", "done"}, attempt : Nat, bucket : Bucket \cup {None},
        source : {"none", "cached", "success", "stale_cache", "fallback"},
        actions : Actions \cup {"none"}]
Idle == [pc |-> "none", attempt |-> 0, bucket |-> None, source |-> "none", actions |-> "none"]

Init ==
    /\ pc = [q \in Request |-> "new"]
    /\ endpoint = [q \in Request |-> "chat"]
    /\ message = [q \in Request |-> None]
    /\ at = [q \in Request |-> 1]
    /\ shown = [q \in Request |-> {}]
    /\ actions = [q \in Request |-> "none"]
    /\ reply = [q \in Request |-> None]
    /\ verdict = [q \in Request |-> None]
    /\ saved = [q \in Request |-> None]
    /\ reviewed = {}
    /\ resp_cache = [m \in Message |-> None]
    /\ run = [q \in Request |-> Idle]
    /\ cache = <<>>

---------------------------------------------------------------------------
(* StrategyCache. *)

\* Where the entry of a bucket at this hour (tm_hour) is: nowhere, or in one place.
Entry(seq, b) == {i \in DOMAIN seq : seq[i].bucket = b /\ seq[i].ago = 0}

\* At its limit the oldest entry goes, even when the key is only overwritten.
Store(b, made) ==
    LET room == IF Len(cache) >= MaxSize THEN Tail(cache) ELSE cache
        old  == Entry(room, b)
        rest == IF old = {} THEN room ELSE RemoveAt(room, CHOOSE i \in old : TRUE)
    IN Append(rest, [bucket |-> b, ago |-> 0, actions |-> made, fresh |-> TRUE])

\* Time matters to a cache only while a request can still read it (bounds).
Watched == \E q \in Request : pc[q] \in {"new", "context", "strategy"}
Awaited == \E q \in Request : pc[q] = "new"

\* Thirty minutes pass for the oldest entry still fresh.
StrategyExpires(i) ==
    /\ Watched /\ cache[i].fresh /\ \A j \in 1 .. i - 1 : ~cache[j].fresh
    /\ cache' = [cache EXCEPT ![i].fresh = FALSE]
    /\ UNCHANGED <<request, after, resp_cache, run>>

\* An entry is no longer fresh an hour after the hour of its key.
HourPasses ==
    /\ Watched /\ \A i \in DOMAIN cache : cache[i].fresh => cache[i].ago = 0
    /\ cache' = [i \in DOMAIN cache |-> [cache[i] EXCEPT !.ago = (@ + 1) % Hours]]
    /\ UNCHANGED <<request, after, resp_cache, run>>

---------------------------------------------------------------------------
(* invoke(): the task of a request. *)

\* What a run returns is dropped when its request has gone on without it.
Finish(q, source, made) ==
    run' = [run EXCEPT ![q] =
               IF pc[q] = "strategy"
               THEN [@ EXCEPT !.pc = "done", !.source = source, !.actions = made]
               ELSE Idle]

\* An answer with actions is stored, under the hour at which it arrives.  They
\* are the plan of a model or, when all the models of the Stratège failed, the
\* Stratège's own substitute: invoke() cannot tell them apart.
StrategeAnswers(q) ==
    /\ run[q].pc = "calling"
    /\ \E a \in Answered :
          /\ Finish(q, "success", a)
          /\ cache' = Store(run[q].bucket, a)
    /\ UNCHANGED <<request, after, resp_cache>>

\* (variant: the fallback is stored like a strategy)
StrategeFailsStored(q) ==
    /\ run[q].pc = "calling"
    /\ IF run[q].attempt < MaxRetries - 1
       THEN run' = [run EXCEPT ![q].pc = "backoff"] /\ UNCHANGED cache
       ELSE Finish(q, "fallback", "generic") /\ cache' = Store(run[q].bucket, "generic")
    /\ UNCHANGED <<request, after, resp_cache>>

\* A timeout, an error (an answer of another shape raises in the Stratège), or
\* an answer without actions.  After the last attempt
\* an expired entry serves, else products of the database, else fixed actions.
StrategeFails(q) ==
    /\ run[q].pc = "calling"
    /\ IF run[q].attempt < MaxRetries - 1 THEN run' = [run EXCEPT ![q].pc = "backoff"]
       ELSE LET stale == Entry(cache, run[q].bucket)
            IN \/ \E i \in stale : Finish(q, "stale_cache", cache[i].actions)
               \/ stale = {} /\ \E a \in {"products", "generic"} : Finish(q, "fallback", a)
    /\ UNCHANGED <<request, after, resp_cache, cache>>

Retry(q) ==
    /\ run[q].pc = "backoff"
    /\ run' = [run EXCEPT ![q].pc = "calling", ![q].attempt = @ + 1]
    /\ UNCHANGED <<request, after, resp_cache, cache>>

---------------------------------------------------------------------------
(* The handlers, up to the models. *)

Answer(q, text) ==
    /\ pc' = [pc EXCEPT ![q] = "answered"]
    /\ reply' = [reply EXCEPT ![q] = text]

Asks(q, m) ==
    /\ pc[q] = "new"
    /\ message' = [message EXCEPT ![q] = m]
    /\ UNCHANGED <<at, shown, actions, verdict, after, strategy>>

\* No message, or no right on the store.
Refused(q) ==
    /\ pc[q] = "new"
    /\ pc' = [pc EXCEPT ![q] = "answered"]
    /\ UNCHANGED <<endpoint, message, at, shown, actions, reply, verdict, after, resp_cache,
                   strategy>>

\* (variant: what the cache answers is added to the history like any exchange)
ServedFromCacheSaved(q, m) ==
    /\ pc[q] = "new"
    /\ resp_cache[m] # None /\ Answer(q, resp_cache[m])
    /\ message' = [message EXCEPT ![q] = m]
    /\ saved' = [saved EXCEPT ![q] = resp_cache[m]]
    /\ UNCHANGED <<endpoint, at, shown, actions, verdict, reviewed, resp_cache, strategy>>

\* The reply of the same message, if it is recent, is served again, by either
\* endpoint and without a word to the guardrail.  It is not saved again.
ServedFromCache(q, m) ==
    /\ Asks(q, m)
    /\ resp_cache[m] # None /\ Answer(q, resp_cache[m])
    /\ UNCHANGED <<endpoint, resp_cache>>

\* A greeting, or a subject that is not the coach's: the text is always the same.
ServedFixed(q, m) ==
    /\ Asks(q, m)
    /\ Answer(q, Fixed)
    /\ resp_cache' = [resp_cache EXCEPT ![m] = Fixed]
    /\ UNCHANGED endpoint

\* Anything else goes on to the context: a chat of the evaluation harness even
\* if its reply is cached.
Accepted(q, m) ==
    /\ Asks(q, m)
    /\ pc' = [pc EXCEPT ![q] = "context"]
    /\ \E e \in {"chat", "stream"} :
          /\ resp_cache[m] = None \/ e = "chat"    \* debug_grounding
          /\ endpoint' = [endpoint EXCEPT ![q] = e]
    /\ UNCHANGED <<reply, resp_cache>>

Prompt(q) ==
    pc' = [pc EXCEPT ![q] = IF endpoint[q] = "chat" THEN "chain" ELSE "stream"]

\* The frontend sent actions of its own, or there is no orchestrator to ask.
WithoutStratege(q) ==
    /\ pc[q] = "context"
    /\ Prompt(q)
    /\ \E a \in {"given", "none"} : actions' = [actions EXCEPT ![q] = a]
    /\ UNCHANGED <<endpoint, message, at, shown, reply, verdict, after, resp_cache, strategy>>

\* The task of the run starts as soon as the request waits for it, and looks in
\* the cache first.
AskStratege(q) ==
    /\ pc[q] = "context"
    /\ pc' = [pc EXCEPT ![q] = "strategy"]
    /\ \E b \in Bucket :
          LET hit == {i \in Entry(cache, b) : cache[i].fresh}
          IN \/ \E i \in hit :
                   run' = [run EXCEPT ![q] = [Idle EXCEPT !.pc = "done", !.source = "cached",
                                                         !.actions = cache[i].actions]]
             \/ hit = {} /\ run' = [run EXCEPT ![q] = [Idle EXCEPT !.pc = "calling", !.bucket = b]]
    /\ UNCHANGED <<endpoint, message, at, shown, actions, reply, verdict, after, resp_cache,
                   cache>>

StrategyArrives(q) ==
    /\ pc[q] = "strategy" /\ run[q].pc = "done"
    /\ Prompt(q)
    /\ actions' = [actions EXCEPT ![q] = "given"]
    /\ run' = [run EXCEPT ![q] = Idle]
    /\ UNCHANGED <<endpoint, message, at, shown, reply, verdict, after, resp_cache, cache>>

\* (variant: the request waits for its strategy)
NeverTimesOut(q) == FALSE

\* After COACH_STRATEGE_TIMEOUT the request goes on without; the run does too.
StrategyTimesOut(q) ==
    /\ pc[q] = "strategy" /\ run[q].pc # "done"
    /\ Prompt(q)
    /\ UNCHANGED <<endpoint, message, at, shown, actions, reply, verdict, after, resp_cache,
                   strategy>>

---------------------------------------------------------------------------
(* The end of a request. *)

\* The reply is cached, then judged with the actions that go with it.  Under
\* BLOCK a safe text takes its place in the answer, in the history and in the
\* review; the actions are returned all the same, and the words a stream has
\* shown stay shown.  A guardrail that raises counts as APPROVE.  The tasks it
\* starts touch nothing another step reads and are part of it: the exchange is
\* saved; a chat of grave verdict asks for a review if the adviser's need is
\* urgent, a stream never does.  (The task that announces the verdict does
\* nothing: it imports _broadcast from the shim main.py, which has no such
\* name, and swallows the exception.)
Conclude(q, by) ==
    \E seen \in Verdict, blocked \in BOOLEAN, offends \in BOOLEAN :
        LET text == [by |-> by, blocked |-> blocked]
            told == IF seen = "BLOCK" THEN Safe ELSE text
        IN  /\ offends => actions[q] = "given"
            /\ seen = "BLOCK" => blocked \/ offends
            /\ seen = "ESCALATE" => ~blocked /\ ~offends
            /\ resp_cache' = [resp_cache EXCEPT ![message[q]] = text]
            /\ verdict' = [verdict EXCEPT ![q] = seen]
            /\ actions' = [actions EXCEPT ![q] = IF offends THEN "blocked" ELSE @]
            /\ Answer(q, told)
            /\ at' = [at EXCEPT ![q] = 1]
            /\ saved' = [saved EXCEPT ![q] = told]
            /\ \/ UNCHANGED reviewed
               \/ /\ seen # "APPROVE" /\ endpoint[q] = "chat"
                  /\ reviewed' = reviewed \cup {q}

\* A valid reply: a chat ends with it; a stream that no model would stream
\* plays it back word by word, and is judged after.
Replies(q, voice) ==
    \/ /\ pc[q] = "chain"
       /\ Conclude(q, IF voice \in Model THEN "model" ELSE voice)
       /\ UNCHANGED shown
    \/ /\ pc[q] = "rescue"
       /\ pc' = [pc EXCEPT ![q] = "replay"]
       /\ shown' = [shown EXCEPT ![q] = @ \cup {voice}]
       /\ at' = [at EXCEPT ![q] = 1]
       /\ UNCHANGED <<actions, reply, verdict, after, resp_cache>>

\* One attempt of a chat, or of a stream that no model would stream: a valid
\* reply ends it, else the next model is tried, else a text made for the intent.
TriesModel(q) ==
    /\ pc[q] \in {"chain", "rescue"}
    /\ \/ Replies(q, Chain(pc[q])[at[q]])
       \/ /\ at[q] < Len(Chain(pc[q]))
          /\ at' = [at EXCEPT ![q] = @ + 1]
          /\ UNCHANGED <<pc, shown, actions, reply, verdict, after, resp_cache>>
       \/ /\ at[q] = Len(Chain(pc[q]))
          /\ Replies(q, "intent_fallback")
    /\ UNCHANGED <<endpoint, message, strategy>>

\* A model streams a token, and it is on the adviser's screen.
ShowsToken(q) ==
    /\ pc[q] = "stream" /\ at[q] <= Len(Chain("stream"))
    /\ shown' = [shown EXCEPT ![q] = @ \cup {Chain("stream")[at[q]]}]
    /\ UNCHANGED <<pc, endpoint, message, at, actions, reply, verdict, after, resp_cache,
                   strategy>>

\* (variant: a model that breaks off is replaced by the next)
FailsAnyTime(q) ==
    /\ pc[q] = "stream"
    /\ IF at[q] < Len(Chain("stream"))
       THEN at' = [at EXCEPT ![q] = @ + 1] /\ UNCHANGED pc
       ELSE at' = [at EXCEPT ![q] = 1] /\ pc' = [pc EXCEPT ![q] = "rescue"]
    /\ UNCHANGED <<endpoint, message, shown, actions, reply, verdict, after, resp_cache,
                   strategy>>

\* An HTTP error, an exception or an end before the first token: the next model.
StreamsNothing(q) ==
    /\ pc[q] = "stream" /\ shown[q] = {}
    /\ IF at[q] < Len(Chain("stream"))
       THEN at' = [at EXCEPT ![q] = @ + 1] /\ UNCHANGED pc
       ELSE at' = [at EXCEPT ![q] = 1] /\ pc' = [pc EXCEPT ![q] = "rescue"]
    /\ UNCHANGED <<endpoint, message, shown, actions, reply, verdict, after, resp_cache,
                   strategy>>

\* [DONE], a failure after the first token, or the last word played back: what
\* was shown is the reply.
StreamEnds(q) ==
    /\ pc[q] \in {"stream", "replay"} /\ shown[q] # {}
    /\ Conclude(q, IF shown[q] \subseteq Model THEN "model" ELSE "intent_fallback")
    /\ UNCHANGED <<endpoint, message, shown, strategy>>

\* The client closes the stream: the generator is cancelled where it waits.
ClientLeaves(q) ==
    /\ pc[q] \in {"stream", "rescue", "replay"}
    /\ pc' = [pc EXCEPT ![q] = "gone"]
    /\ shown' = [shown EXCEPT ![q] = {}] /\ at' = [at EXCEPT ![q] = 1]
    /\ actions' = [actions EXCEPT ![q] = "none"]
    /\ UNCHANGED <<endpoint, message, reply, verdict, after, resp_cache,
                   strategy>>

\* Twenty seconds pass.
ReplyExpires(m) ==
    /\ Awaited /\ resp_cache[m] # None
    /\ resp_cache' = [resp_cache EXCEPT ![m] = None]
    /\ UNCHANGED <<request, after, strategy>>

Handler(q) ==
    \/ WithoutStratege(q) \/ AskStratege(q) \/ StrategyArrives(q) \/ StrategyTimesOut(q)
    \/ TriesModel(q) \/ StreamsNothing(q) \/ StreamEnds(q)

Next ==
    \/ \E q \in Request :
        \/ Refused(q)
        \/ \E m \in Message : ServedFromCache(q, m) \/ ServedFixed(q, m) \/ Accepted(q, m)
        \/ Handler(q) \/ ShowsToken(q) \/ ClientLeaves(q)
        \/ StrategeAnswers(q) \/ StrategeFails(q) \/ Retry(q)
    \/ \E m \in Message : ReplyExpires(m)
    \/ \E i \in DOMAIN cache : StrategyExpires(i)
    \/ HourPasses

Spec == Init /\ [][Next]_vars

\* Every wait of a handler is bounded: of the models by the timeout of the HTTP
\* client, of the strategy by COACH_STRATEGE_TIMEOUT.  Nothing is assumed of the
\* Stratège, of a run, or of the background tasks.
FairSpec == Spec /\ \A q \in Request : WF_vars(Handler(q))

---------------------------------------------------------------------------
TypeOK ==
    /\ pc \in [Request -> {"new", "context", "strategy", "chain", "stream", "rescue",
                           "replay", "answered", "gone"}]
    /\ endpoint \in [Request -> {"chat", "stream"}]
    /\ message \in [Request -> Message \cup {None}]
    /\ at \in [Request -> Nat \ {0}]
    /\ shown \in [Request -> SUBSET Voice]
    /\ actions \in [Request -> {"none", "given", "blocked"}]
    /\ reply \in [Request -> Reply \cup {None}]
    /\ verdict \in [Request -> Verdict \cup {None}]
    /\ saved \in [Request -> Reply \cup {None}]
    /\ reviewed \subseteq Request
    /\ resp_cache \in [Message -> Reply \cup {None}]
    /\ run \in [Request -> Run]
    /\ cache \in Seq(Strategy) /\ Len(cache) <= MaxSize

\* The adviser reads one voice: the words of a stream come from one writer, and
\* the answer that closes it is that writer's text or the safe text.
\* (`full_reply` is never emptied after a token, and a second model would repeat
\* the text.)
OneVoice ==
    \A q \in Request :
        /\ \A a, b \in shown[q] : a = b
        /\ shown[q] # {} /\ reply[q] # None =>
              \/ reply[q] = Safe
              \/ reply[q].by = IF shown[q] \subseteq Model THEN "model" ELSE "intent_fallback"

\* coach_interactions is the history the next prompts of the day are built from,
\* and a manager's review quotes the reply.  A text that breaks a rule of BLOCK
\* enters the history only by a guardrail that raised on that very text, and a
\* review never: the reply cache holds such texts before they are judged, and
\* serves them to the next requests, but nothing is remembered from there.
HistoryIsVetted ==
    \A q \in Request :
        /\ saved[q] # None /\ saved[q].blocked => verdict[q] = "APPROVE"
        /\ q \in reviewed => ~reply[q].blocked

\* What the cache serves for thirty minutes, fresh or stale, is something the
\* Stratège answered: its plan, or the substitute it makes when its own models
\* fail.  The fallbacks of the orchestrator, for a run that got no answer at
\* all, serve the one request that waited and no other.
CachedWasAnswered ==
    /\ \A i \in DOMAIN cache : cache[i].actions \in Answered
    /\ \A q \in Request :
        run[q].pc = "done" /\ run[q].source \in {"cached", "stale_cache", "success"}
            => run[q].actions \in Answered

\* A request is answered, or its client leaves, whatever the models do, and even
\* if the run of the Stratège never ends.
EveryRequestAnswered ==
    \A q \in Request : pc[q] = "context" ~> pc[q] \in {"answered", "gone"}

GuardrailRaised ==
    \E q \in Request : verdict[q] = "APPROVE" /\ reply[q].blocked

\* What guardrail_agent.py:4 says: the guardrail "validates any coach
\* recommendation before it reaches the frontend".  No text that breaks a rule
\* of BLOCK is the answer of a chat, as long as no guardrail raised.
ChatIsVetted ==
    GuardrailRaised \/
    \A q \in Request : endpoint[q] = "chat" /\ reply[q] # None => ~reply[q].blocked

\* "BLOCK -> replace with safe fallback, do NOT send original"
\* (guardrail_agent.py:19): nothing of a blocked answer was on the screen, nor
\* is returned with the safe text.
BlockedIsWithheld ==
    \A q \in Request :
        verdict[q] = "BLOCK" => shown[q] = {} /\ actions[q] # "blocked"
=============================================================================
