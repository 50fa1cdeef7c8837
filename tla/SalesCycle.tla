----------------------------- MODULE SalesCycle -----------------------------
(***************************************************************************)
(* The agent cycles of the sales side: CycleOrchestrator.run_cycle with    *)
(* the analyst and the Stratège, and what starts it: CronTrigger,          *)
(* AlertCycleTrigger, the API, the sale trigger and the supervisor.        *)
(*                                                                         *)
(* LangGraph keeps between two nodes only the keys SalesAgentState         *)
(* declares.  catalog, stock_alerts and rag_txt are not among them: what   *)
(* node_fetch_context loads reaches no later node, and the strategy is     *)
(* made without the catalogue of the store.  Nor is a coach_message ever   *)
(* set, so the coach node returns the state it is given.                   *)
(*                                                                         *)
(* Durations are not measured: a debounce, a pause or a sleep ends some    *)
(* time after it began.  The results run_cycle leaves behind are those of  *)
(* StoreLive.                                                              *)
(***************************************************************************)
EXTENDS Integers, Sequences

CONSTANTS
    Store,
    store_ids,      \* CronTrigger.store_ids
    Cycle,          \* bound: cycles that run at a time
    CronCycle,      \* the one the cron awaits
    Watched,        \* bound: stores whose alerts and requests are considered
    Gap,            \* bound: gaps to the objective, in percent
    LOCAL_FIRST, USE_OPENROUTER, MISTRAL_KEY

ASSUME StoresAssumption == store_ids \in Seq(Store) /\ Len(store_ids) > 0
ASSUME WatchedAssumption == Watched \subseteq Store
ASSUME CycleAssumption == CronCycle \in Cycle
ASSUME GapAssumption == Gap \subseteq 0 .. 100
ASSUME ProviderAssumption ==
    LOCAL_FIRST \in BOOLEAN /\ USE_OPENROUTER \in BOOLEAN /\ MISTRAL_KEY \in BOOLEAN

VARIABLES
    cycles,     \* the cycles under way
    cron,       \* the store CronTrigger has come to, 0 while it sleeps
    running,    \* _running of both triggers
    link,       \* whether AlertCycleTrigger is subscribed
    wire,       \* stores of the alerts delivered and not handled
    debounced,  \* stores for which _last_fire is recent
    cooldown,   \* _OR_COOLDOWN_UNTIL is ahead
    asked       \* history: stores of which an alert asked for a cycle, since the last one

vars == <<cycles, cron, running, link, wire, debounced, cooldown, asked>>

Followed == {store_ids[i] : i \in 1 .. Len(store_ids)}

----------------------------------------------------------------------------
(* AlertBus: publish_stock_alert and evaluate_priority.                    *)

TRIGGER_PRIORITIES == {"URGENT", "HIGH"}

\* Nothing left (0 hours) reads as no figure: 24 hours.
HoursToAct(left) == IF left = 0 THEN 24 ELSE left

evaluate_priority(alert) ==
    LET hours == HoursToAct(alert.left)
        score == (IF alert.severity = "critical" THEN 40 ELSE 25)
               + (IF alert.is_top_seller THEN 20 ELSE 0)
               + (IF alert.revenue_at_risk > 1000 THEN 15 ELSE 0)
               + (IF hours < 2 THEN 20 ELSE IF hours < 8 THEN 10 ELSE 0)
    IN CASE score >= 70 -> "URGENT"
         [] score >= 50 /\ score < 70 -> "HIGH"
         [] score >= 30 /\ score < 50 -> "MEDIUM"
         [] OTHER -> "LOW"

\* A sale that leaves nothing on the shelf, or little.
SaleAlert == [severity : {"critical"}, left : {0}, is_top_seller : {FALSE},
              revenue_at_risk : {500, 2000}]
        \cup [severity : {"high"}, left : {12}, is_top_seller : {FALSE},
              revenue_at_risk : {500, 2000}]

\* A decision of the inventory agent to order, or on a critical product.  Nothing puts
\* is_top_seller among the stock figures it reads.
DecisionAlert == [severity : {"critical", "high"}, left : {0, 1, 5, 12},
                  is_top_seller : {FALSE}, revenue_at_risk : {500, 2000}]

Triggering == {a \in SaleAlert \cup DecisionAlert : evaluate_priority(a) \in TRIGGER_PRIORITIES}

----------------------------------------------------------------------------
(* The analyst.                                                            *)

\* The coverage for the hours left, or an objective out of reach, make it urgent too.
Reading(gap) == [gap : {gap}, urgent : {TRUE, gap > 25}, summary : {TRUE}]

\* The extrapolation when PostgreSQL did not answer the analysis.
_linear_fallback(gap) == [gap |-> gap, urgent |-> gap > 30, summary |-> TRUE]

\* receive_pos had no figures: a revenue of 0 is 100 % short of the objective.
NoFigures == _linear_fallback(100)

\* The agent raised: the figures of initial_state, and an analyst_summary that is None.
NoReading == [gap |-> 0, urgent |-> FALSE, summary |-> FALSE]

Readings ==
    (UNION {Reading(g) : g \in Gap}) \cup {_linear_fallback(g) : g \in Gap}
    \cup {NoFigures, NoReading}

----------------------------------------------------------------------------
(* The Stratège: the answers, the plan and its critique.                   *)

\* json: actions to read; partial: cut off, and extracted by expressions; unusable:
\* no action in it; malformed: JSON of another shape, on which a node raises.
Answers == {"json", "partial", "unusable", "malformed"}

\* unnamed: scripts that name no product.
Scripts == {"none", "unnamed", "named"}

\* n actions, of which complete have a product and an argument; covers: one of them
\* has an impact in proportion to the gap.
Plan(from, n, complete, covers) ==
    [from |-> from, n |-> n, complete |-> complete, covers |-> covers]

PlansOf(from) ==
    {p \in [from : {from}, n : 1 .. 3, complete : 0 .. 3, covers : BOOLEAN] : p.complete <= p.n}

\* The expressions find names of products, and neither arguments nor impacts.
_extract_from_partial_json == {Plan("partial", n, 0, FALSE) : n \in 1 .. 3}

\* (variant: no general advice when there is nothing else)
FallbackOnScriptsOnly(rag) ==
    IF rag = "named" THEN PlansOf("scripts") ELSE {Plan("none", 0, 0, FALSE)}

\* The scripts that name a product or, without the catalogue, three actions that name none.
_make_fallback_strategy(rag) ==
    IF rag = "named" THEN PlansOf("scripts") ELSE {Plan("generic", 3, 0, FALSE)}

generate_strategy(answer, rag) ==
    CASE answer = "json"    -> PlansOf("model")
      [] answer = "partial" -> _extract_from_partial_json
      [] OTHER              -> _make_fallback_strategy(rag)

\* The score of the critique in 1200ths, so that every term is whole.
CritiqueScore(plan, gap, urgent, rag) ==
      100 * plan.n
    + plan.complete * (420 \div (IF plan.n = 0 THEN 1 ELSE plan.n))
    + (IF urgent /\ gap > 20 /\ ~plan.covers THEN 120 ELSE 300)
    + (IF gap > 20 /\ rag = "none" THEN 108 ELSE 180)

\* (variant: the threshold of the gap itself is left out)
ReviewBeyondThreshold(plan, gap, urgent, rag) ==
    /\ CritiqueScore(plan, gap, urgent, rag) < 720
    /\ urgent
    /\ gap > 40

hitl_required(plan, gap, urgent, rag) ==
    /\ CritiqueScore(plan, gap, urgent, rag) < 720
    /\ urgent
    /\ gap >= 40

\* The models in the order in which they are tried.
Chain ==
    LET remote == (IF USE_OPENROUTER THEN <<"openrouter">> ELSE <<>>)
                  \o (IF MISTRAL_KEY THEN <<"mistral">> ELSE <<>>)
    IN IF LOCAL_FIRST THEN <<"ollama">> \o remote ELSE remote \o <<"ollama">>

----------------------------------------------------------------------------
(* run_cycle.                                                              *)

\* initial_state.
Idle == [pc |-> "idle", store |-> store_ids[1], gap |-> 0, urgent |-> FALSE,
         summary |-> FALSE, attempt |-> 1, answer |-> "none", plan |-> "none",
         review |-> "none"]

Init ==
    /\ cycles = [c \in Cycle |-> Idle]
    /\ cron = 1                       \* the first round is at once ("startup")
    /\ running = TRUE
    /\ link = FALSE
    /\ wire = {}
    \* _last_fire is empty and read as 0.0 on the clock of the machine
    /\ \E recent \in BOOLEAN : debounced = IF recent THEN Watched ELSE {}
    /\ cooldown = FALSE
    /\ asked = {}

triggers == <<running, link, wire, debounced>>

Start(c, s) ==
    /\ cycles[c].pc = "idle" /\ cycles[c].review # "asked"
    /\ cycles' = [cycles EXCEPT ![c] = [Idle EXCEPT !.pc = "analyste", !.store = s]]
    /\ asked' = asked \ {s}

\* The wrapper of each agent catches what it raises and returns the state as it was.
_run_analyst(c) ==
    /\ cycles[c].pc = "analyste"
    /\ \E r \in Readings :
         cycles' = [cycles EXCEPT ![c].pc = "ask", ![c].gap = r.gap, ![c].urgent = r.urgent,
                                  ![c].summary = r.summary]
    /\ UNCHANGED <<cron, triggers, cooldown, asked>>

\* The plans an answer can come to, with the scripts found, and whether each goes to review.
Outcomes ==
    [answer \in Answers \cup {"none"} |-> [gap \in Gap \cup {0, 100} |-> [urgent \in BOOLEAN |->
       UNION {{[plan |-> plan.from,
                review |-> IF hitl_required(plan, gap, urgent, rag) THEN "asked" ELSE "none"] :
                 plan \in generate_strategy(answer, rag)} : rag \in Scripts}]]]

\* What the Stratège makes of an answer, without awaiting anything others share:
\* generate_strategy, build_output, self_critique.  If a node raises there is no plan,
\* no critique, no review, and no error is counted.
Conclude(c, answer) ==
    LET over == [cycles[c] EXCEPT !.pc = "ending", !.attempt = 1, !.answer = answer]
    IN IF answer = "malformed" THEN cycles' = [cycles EXCEPT ![c] = over]
       ELSE \E o \in Outcomes[answer][over.gap][over.urgent] :
              cycles' = [cycles EXCEPT ![c] = [over EXCEPT !.plan = o.plan, !.review = o.review]]

TryNext(c) == cycles' = [cycles EXCEPT ![c].pc = "ask", ![c].attempt = @ + 1]

\* The prompt quotes the summary: without one (None) node_generate_strategy raises before
\* it has tried a model or a fallback, and the wrapper returns the state as it was.
_run_stratege_raises(c) ==
    /\ cycles[c].pc = "ask" /\ ~cycles[c].summary
    /\ cycles' = [cycles EXCEPT ![c].pc = "ending"]
    /\ UNCHANGED <<cron, triggers, cooldown, asked>>

\* The next model of the chain is called, unless it is OpenRouter in its pause.
Ask(c) ==
    /\ cycles[c].pc = "ask" /\ cycles[c].summary
    /\ IF cycles[c].attempt > Len(Chain) THEN Conclude(c, "none")
       ELSE IF Chain[cycles[c].attempt] = "openrouter" /\ cooldown THEN TryNext(c)
       ELSE cycles' = [cycles EXCEPT ![c].pc = "call"]
    /\ UNCHANGED <<cron, triggers, cooldown, asked>>

ModelAnswers(c) ==
    /\ cycles[c].pc = "call"
    /\ \E a \in Answers : Conclude(c, a)
    /\ UNCHANGED <<cron, triggers, cooldown, asked>>

\* It raised, refused, or answered with an empty text.
ModelFails(c) ==
    /\ cycles[c].pc = "call"
    /\ TryNext(c)
    /\ UNCHANGED <<cron, triggers, cooldown, asked>>

\* Every model of the rotation refused or raised, whatever other cycles found meanwhile.
RotationExhausted(c) ==
    /\ cycles[c].pc = "call" /\ Chain[cycles[c].attempt] = "openrouter"
    /\ TryNext(c)
    /\ cooldown' = TRUE
    /\ UNCHANGED <<cron, triggers, asked>>

\* submit_hitl_review, a task of its own; it swallows its errors.
submit_hitl_review(c) ==
    /\ cycles[c].review = "asked"
    /\ cycles' = [cycles EXCEPT ![c].review = IF cycles[c].pc = "idle" THEN "none" ELSE "sent"]
    /\ UNCHANGED <<cron, triggers, cooldown, asked>>

\* (variant: the round ends one store early)
AfterOneLess(c) == cron' = IF c = CronCycle /\ cron > 0 THEN (cron + 1) % Len(store_ids) ELSE cron

\* The cron goes on to the next store, or to sleep after the last.
After(c) == cron' = IF c = CronCycle /\ cron > 0 THEN (cron + 1) % (Len(store_ids) + 1) ELSE cron

\* The result is kept and the sales alert published, on a channel no trigger listens to.
EndCycle(c) ==
    /\ cycles[c].pc = "ending"
    /\ cycles' = [cycles EXCEPT ![c] =
         [Idle EXCEPT !.review = IF cycles[c].review = "asked" THEN "asked" ELSE "none"]]
    /\ After(c)
    /\ UNCHANGED <<triggers, cooldown, asked>>

\* run_cycle raised outside its try; each trigger catches it.
CycleRaises(c) ==
    /\ cycles[c].pc = "analyste"
    /\ cycles' = [cycles EXCEPT ![c] = Idle]
    /\ After(c)
    /\ UNCHANGED <<triggers, cooldown, asked>>

CycleStep(c) ==
    \/ _run_analyst(c) \/ _run_stratege_raises(c) \/ Ask(c)
    \/ ModelAnswers(c) \/ ModelFails(c) \/ RotationExhausted(c)
    \/ EndCycle(c) \/ CycleRaises(c)

----------------------------------------------------------------------------
(* What starts a cycle.                                                    *)

\* CronTrigger: the next store of the round, once the cycle of the last one is over.
CronFires ==
    /\ running /\ cron > 0
    /\ Start(CronCycle, store_ids[cron])
    /\ UNCHANGED <<cron, triggers, cooldown>>

\* interval_minutes are over.
CronWakes ==
    /\ running /\ cron = 0
    /\ cron' = 1
    /\ UNCHANGED <<cycles, triggers, cooldown, asked>>

\* fire_now (the API), the sale trigger, a branch of the supervisor.
RequestCycle(c, s) ==
    /\ c # CronCycle
    /\ Start(c, s)
    /\ UNCHANGED <<cron, triggers, cooldown>>

\* An alert that Redis loses or nobody is subscribed to is gone.  One of a lower
\* priority has no effect: the handler returns.
publish_stock_alert(s) ==
    /\ Triggering # {}
    /\ asked' = asked \cup {s}
    /\ wire' \in {wire} \cup {IF link THEN wire \cup {s} ELSE wire}
    /\ UNCHANGED <<cycles, cron, running, link, debounced, cooldown>>

\* AlertCycleTrigger._handle_message, and the task it creates (_fire).
_handle_message(s) ==
    /\ running /\ link /\ s \in wire
    /\ wire' = wire \ {s}
    /\ IF s \in debounced
       THEN UNCHANGED <<cycles, debounced, asked>>
       ELSE /\ debounced' = debounced \cup {s}
            /\ \E c \in Cycle \ {CronCycle} : Start(c, s)
    /\ UNCHANGED <<cron, running, link, cooldown>>

\* psubscribe, at the start and 5 s after a failure.
Subscribe ==
    /\ running /\ ~link
    /\ link' = TRUE
    /\ UNCHANGED <<cycles, cron, running, wire, debounced, cooldown, asked>>

\* Redis fails: what was not read is lost.
LinkBreaks ==
    /\ link
    /\ link' = FALSE /\ wire' = {}
    /\ UNCHANGED <<cycles, cron, running, debounced, cooldown, asked>>

DebounceEnds(s) ==
    /\ s \in debounced
    /\ debounced' = debounced \ {s}
    /\ UNCHANGED <<cycles, cron, running, link, wire, cooldown, asked>>

CooldownEnds ==
    /\ cooldown
    /\ cooldown' = FALSE
    /\ UNCHANGED <<cycles, cron, triggers, asked>>

\* The application stops both triggers: their tasks are cancelled, and with the cron's
\* the cycle it awaits.  Cycles of other tasks go on.
Stop ==
    /\ running
    /\ running' = FALSE /\ cron' = 0 /\ link' = FALSE /\ wire' = {}
    /\ cycles' = [cycles EXCEPT ![CronCycle] =
         [Idle EXCEPT !.review = IF cycles[CronCycle].review = "asked" THEN "asked" ELSE "none"]]
    /\ UNCHANGED <<debounced, cooldown, asked>>

Next ==
    \/ \E c \in Cycle : CycleStep(c) \/ submit_hitl_review(c)
    \/ \E c \in Cycle, s \in Watched : RequestCycle(c, s)
    \/ \E s \in Watched : publish_stock_alert(s) \/ _handle_message(s) \/ DebounceEnds(s)
    \/ CronFires \/ CronWakes \/ Subscribe \/ LinkBreaks \/ CooldownEnds \/ Stop

Spec == Init /\ [][Next]_vars

\* The loop of the cron never ends while the application runs, and each call of a cycle
\* returns or raises.  No alert, request or connection is owed.
FairSpec ==
    /\ Spec
    /\ WF_vars(CronWakes) /\ WF_vars(CronFires)
    /\ \A c \in Cycle : WF_vars(CycleStep(c)) /\ WF_vars(submit_hitl_review(c))

----------------------------------------------------------------------------
(* Properties.                                                             *)

CycleState ==
    [pc : {"idle", "analyste", "ask", "call", "ending"},
     store : Store, gap : Gap \cup {0, 100}, urgent : BOOLEAN, summary : BOOLEAN,
     attempt : 1 .. Len(Chain) + 1, answer : Answers \cup {"none"},
     plan : {"none", "model", "partial", "scripts", "generic"},
     review : {"none", "asked", "sent"}]

\* The state of the cycles and of their triggers has its type.
TypeOK ==
    /\ cycles \in [Cycle -> CycleState]
    /\ cron \in 0 .. Len(store_ids)
    /\ running \in BOOLEAN /\ link \in BOOLEAN /\ cooldown \in BOOLEAN
    /\ wire \subseteq Watched /\ debounced \subseteq Watched /\ asked \subseteq Watched

\* Whatever sources and models fail, and however an answer is cut off, a cycle of which
\* the analyst said anything ends with actions to propose; two things lose them, an analyst
\* that raised, for which no model is ever called, and an answer of another shape, on which
\* a node raises.
PlanSurvivesOutage ==
    \A c \in Cycle :
      cycles[c].pc = "ending" /\ cycles[c].plan = "none" =>
        \/ cycles[c].answer = "malformed"
        \/ ~cycles[c].summary /\ cycles[c].answer = "none"

\* Far from the objective, a plan without product or argument, pieced together from a
\* cut answer or made of general advice, never reaches the shop unreviewed: the terms of
\* the score cannot make up for it, whatever scripts were found.
WeakPlanIsReviewed ==
    \A c \in Cycle :
      cycles[c].plan \in {"partial", "generic"} /\ cycles[c].gap >= 40 =>
        cycles[c].review # "none"

\* An alert of a store the cron follows is followed by a cycle of that store, although
\* Redis may lose it, the debounce drop it, and cycles raise.
AlertIsFollowed == \A s \in Followed : s \in asked ~> s \notin asked \/ ~running

----------------------------------------------------------------------------
(* Statements the code does not keep.                                      *)

\* A sale that empties the shelf starts a cycle at once ("AlertBus Redis ->
\* AlertCycleTrigger déclenche un cycle de coaching immédiat sur ce magasin").
RuptureTriggers ==
    \A alert \in SaleAlert : alert.left = 0 => evaluate_priority(alert) \in TRIGGER_PRIORITIES

\* Far from the objective, a cycle proposes actions or asks for a review.
UrgentIsPlanned ==
    \A c \in Cycle :
      cycles[c].pc = "ending" /\ cycles[c].gap >= 40 => cycles[c].plan # "none"
=============================================================================
