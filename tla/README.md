# TLA+ verification of the multi-agent sales and inventory system

The repository is a FastAPI application (`app/main.py`) over PostgreSQL and
Redis. It watches the sales of a network of shops, recommends what to sell and
what to reorder, lets managers decide, and follows purchase orders until goods
arrive. Numbers and sentences come from language models and forecasts; what is
modelled here is everything around them: who writes which row when, what runs
after what, which decision waits for which, and what happens when a step fails.

## Inventory of the system

| Component | State | Operations | Hard behaviour | What makes it correct |
|---|---|---|---|---|
| Purchase orders (`inventory/repositories/supply_repo.py`, `po_auto_confirm.py`) | `supply.purchase_orders`, the stock row, the journal of movements | create, suggest, approve, reject, update_status, auto-confirm | several database sessions, check and write in separate statements without row locks, rollback | transitions follow the table, decisions reach both rows, journal explains stock, nothing waits for ever |
| Callers of the orders (`supply_routes.py`, `mcp_server.py`, `mcp_wrappers.py`, `decision/agent.py`) | none | HTTP routes, MCP and Kanban tools, the decision agent | a guard read before the transaction that relies on it | only the API decides a suggestion |
| Recommendations (`inventory_repo.py`, `inventory/api/routes.py`) | `inventory.recommendations` | save or refresh the pending row, decide | refreshed while an order is being made from it | one order per recommendation |
| Sale trigger (`sales/orchestration/sale_trigger.py`) | per-store counters, time stamps, lock | notify_sale, loop, analyse, full cycle, stop | debounce with a ceiling, heartbeat, throttle, failures, tasks that outlive the loop | coalescence, bounded wait, no sale or escalation lost |
| SupervisorAgent (`supervisor_agent.py`, `guardrail_agent.py`, `api/supervisor.py`, `api/hitl.py`) | `RetailState` of a cycle, `_last_run`, `hitl_reviews` | four parallel branches, coach, guardrail, four routes, notify, save; manager validation | fail-open nodes, timeout at any await, endless rewrite, concurrent decisions | the outputs of a cycle tell one verdict and one recommendation, a review stands for an escalation, cycles end |
| Cycle orchestrator, cron and alert triggers (`graph.py`, `trigger.py`, `alert_trigger.py`, the analyst, the Stratège) | `last_result`, `_last_fire`, the pause of OpenRouter | run_cycle, the chain of models, the critique, fire_now, alert handler | cycles overlap, sources and models fail, answers are cut off, Redis loses alerts | a plan survives, a weak one is reviewed, an alert is followed by a cycle |
| Live stock (`main.py`, `simulator.py`, `stock_tools.py`, `inventory_repo.py`) | the stock row and its journal, the override of each store, `_live_stock` | a sale and its callback, receptions, `_persist_result`, cache clearing, the replay | four writers of one figure, each from what it read earlier | no stock is shown that is not there; an analysis does not miss a sale |
| Inventory alerts (`_build_alerts`, `upsert_alerts_batch`, `resolve_stale_alerts`) | `inventory.alerts` | a run per objective, the sync, PATCH | SELECT and INSERT of several runs, calls that fail and are swallowed | a critical product has an alert, a cleared one has none, a closed one is not shown |
| Inventory pipeline (`inventory/services/orchestrator.py`, `agents/context`, `agents/analysis`, `agents/decision`) | the batch, `agent_runs`, recommendations | analyze_batch, the three agents, shutdown | threads, a timeout that leaves the thread running, a shutdown at any point | no order against the constraints, the rules agree with the critique but for one case, the batch ends |
| Coach chat (`coach_chat.py`, `coach_stratege_orchestrator.py`) | `_resp_cache`, `StrategyCache`, `coach_interactions`, `hitl_reviews` | chat, stream, invoke | chains of models that fail or break off, a strategy that arrives late, a cache beside a guardrail | one voice per answer, no blocked text in the history, only answers of the Stratège cached |
| Inventory cache (`inventory/api/routes.py`) | `_store_cache`, locks, pending broadcast tasks | analyze_store, invalidate_store, debounced push | a run in flight during an invalidation; starving debounce; threads and loop on one dict | a stale result is not served after an invalidation |
| Agent loop and broadcast (`app/main.py`) | sockets, `_agent_running`, `_live_stock`, last payload | ws_store, `_agent_loop`, `_broadcast`, `_on_sale` | a loop that ends while a socket connects | a connected shop has a running loop |
| Board WebSocket (`po_ws_bus.py`), alert and state buses | sockets; Redis keys and channels | broadcast, publish, listen | at-most-once delivery, list changed while iterated | nothing but the screen depends on them |
| Product requests (`api/product_requests.py`) | `product_requests` | create, decide | check, then unconditional UPDATE | the first decision stands |
| State merger, balancing engine | none (pure) | G9 filter, balancing | everything filtered | nothing out of stock is recommended |

The parts meet in these places. The simulator inserts a sale; the database
trigger takes it off the stock; the callback lowers the override, tells the
browsers and invalidates the cached analyses, and tells the sale trigger, which
starts a cycle.  The routes run the inventory pipeline and keep its result and
its alerts. The SupervisorAgent runs the orchestrator's cycle as one
of its branches. The decision agent saves a recommendation and suggests an
order. A manager decides an order on the board, a recommendation in the
inventory page, a review in the HITL page, an alert in the alert list. A reception credits the stock that
the next analysis reads.

`PROJECT.json` lists the components, the hazards of this code at their lines,
and for each hazard the properties that watch it or the reason none does.

## Modules

| Module | Models |
|---|---|
| `PurchaseOrders` | the order, recommendation and stock rows and the sessions that write them |
| `POLifecycle` | abstract: what `ALLOWED_TRANSITIONS` promises |
| `SaleTrigger` | `SaleEventTrigger` of one store |
| `Supervisor` | the SupervisorAgent graph, the guardrail, the endpoints and the review |
| `LiveStock` | the three figures kept of a stock, and their writers |
| `InventoryRoutes` | what the two components of `routes.py` share: the objectives, the budget of rare events |
| `InventoryCache` | the cached analyses of a store, the push, the sockets, the decisions |
| `InventoryAlerts` | the alert rows of a product, the runs and the operator |
| `StoreLive` | `ws_store`, `_agent_loop`, `_broadcast` |
| `ContextSignals`, `DecisionRules` | operators: the rules of the context agent, the stock arithmetic, the constraints, the decision and the critique |
| `InventoryPipeline` | a batch with its threads, over `DecisionRules` |
| `CoachChat` | the two coach endpoints and the orchestrator behind them |
| `SalesCycle` | `run_cycle` with the analyst and the Stratège, the cron and alert triggers |
| `MCPurchaseOrders`, `MCSaleTrigger`, `MCSupervisor`, `MCStoreLive`, `MCInventoryPipeline`, `MCSalesCycle` | instances for TLC |
| `<component>_proofs` | theorems about the component, checked by TLAPS |
| `SalesCycle_proofs` | those of `SalesCycle`, and of `SaleTrigger` |
| `InventoryRoutes_proofs` | those of `InventoryCache` and of `InventoryAlerts`, the two components of `routes.py` |

The definitions marked `(variant: ...)` are plausible mistakes in the operator
they precede. No specification uses them: they are there to see each property
fail when the code would be wrong.

### PurchaseOrders

A session is a database connection with one call in flight: a uvicorn worker
(`Api`; the image starts one, and its handlers call the synchronous repository
on the event loop, so a worker has one call at a time), a tool process
(`Tools`), a thread of the decision agent (`Agents`), and the auto-confirmation
thread. A call is two steps, what it reads and what it commits. PostgreSQL's
READ COMMITTED makes those two instants the only visible ones: the writes of a
transaction appear together, and `pc` and `job` hold what the session read.
`Fail` is a rollback at any point: an exception, a lost connection, a killed
process.

| Code | Actions |
|---|---|
| `update_status` from PATCH and from the tools | `StartMove`, `CheckMove`, `WriteMove`, `WriteReception` |
| `_decide_suggestion` | `StartDecide`, `CheckDecide`, `WriteDecide` |
| `save_recommendation` and the suggestion after it | `SaveRecommendation` |
| PATCH `/recommendations/{id}` | `UpdateRecommendation` |
| `create_from_recommendation`, `create_suggestion_from_recommendation` | `StartCreate`, `CheckExisting`, `InsertOrder`, `DeclineInsert` |
| `auto_confirm_stale_soumis`, the clock | `AutoConfirm`, `Tick` |
| the sale of the simulator and `sync_stock_on_sale` | `Sale` |

Quantities are those of one (sku, store) pair, whose stock row exists. Dates,
delays, prices, priorities and suppliers are left out, but for the supplier's
minimum, which raises an ordered quantity. `age` counts ticks since
`date_soumission`. Orders whose `recommendation_id` is NULL come only from
seeds and are left out. An analysis writes the stock it worked on back to the
row; `AnalysisPersists` does it with any of `Figures`, and `overwritten`
remembers it, because the journal explains the stock only until then. The
replay of `StockSimulator`, a demonstration mode, is in `LiveStock`.

### SaleTrigger

One asyncio loop runs it: code between two awaits is one action. Time advances
in periods of `_loop`; a stamp is its age, which stops growing at `Horizon`,
beyond every threshold. `phase` is where the holder of the store's lock is. The
loop is taken not to be starved: a wake-up and the task it creates run before
the next period (asyncio runs ready callbacks in order). The clock starts at
the host's boot while `last_analysis_at` starts at 0.0, so the first heartbeat
may be due at once or later: `TriggerInit` has every age. `freeWait`, `tracked` and
`advised` are history, read only by the properties.

### Supervisor

A node of the graph is a step, a superstep is counted, LangGraph's recursion
limit is external. What the agents wrote is abstracted to the set of guardrail
rules it violates: `found` for the sales branch, whose text the guardrail
reads, `coachRules` for the coach, whose text it does not. Each node catches
its own exceptions, so a failure is an outcome of the node; a timeout stops a
cycle between two nodes or at the end of one, with what it has already sent or
saved.

An output is an `Account`: whose recommendation, which products, the verdict,
the guardrail's issues and whether a manager is announced. The broadcast
(`sent`), `coach_interactions` (`saved`) and `/status` (`lastRun`) each have the
fields their node writes; `/run` and `/async` keep different ones. Only the
recommendation depends on the verdict: under BLOCK the products and the issues
go out as they are. A coach that raises at a second pass leaves the products of
the first (`"stale"`). `lastResult` is the sales text the orchestrator keeps
(`graph.py:565`), which no endpoint reads. `review` is `"lost"` when the INSERT
failed, which `submit_hitl_review` swallows.

### LiveStock

The shelf of one SKU in several stores. The row and its journal change in the
transaction of the trigger (`Insert`), of a reception (`Receive`), of
`_persist_result` (`Persist`) and of the replay (`ReplayRead`, `ReplayWrite`).
`_on_sale` holds the event loop from the announcement (`OnSale`) to the override
(`RecordRead`, `RecordWrite`); other threads step in between. An analysis is
three steps: the batch preloads the rows (`Preload`), the product is fetched
later (`Fetch`), its stock is written back (`Persist`). Two readers look for a
key the row does not have (`stock_current`, `quantity_available`) and find 0:
the model has what they find. `touched` marks the stores where an analysis or a
replay put an older figure, and the properties are about the others.

### InventoryCache

| Code | Actions |
|---|---|
| `analyze_store` | `Get` or `PushCalls` or `Connect`, `Acquire`, `ReadAndDecide`, `Assemble`, `AssembleBlind`, `Commit`, `RunFails` |
| `run_llm_analysis` | `LlmAnalyze`, `Merge` |
| the sale, `_on_sale`, `invalidate_store` | `SaleCommits`, `OnSale`, `Announce`, `AnnounceInterrupted` |
| `_push_update_to_store` | `PushWakes`, `PushCalls`, `PushSends` |
| `ws_inventory` | `Connect`, `WarmSends`, `Disconnect` |
| PATCH of a recommendation | `DecideRec`, `PatchCache`, `PatchSkipped`, `PatchInterrupted` |

An item is what a browser sees of it: the sales it accounts for, its
recommendation and the status shown. A thread that inserts a new key while the
loop iterates over `_store_cache` makes the iteration raise: that is
`AnnounceInterrupted` and `PatchInterrupted`, after any part of the entries. A
cancelled push leaves its thread running (`Orphan`).

### InventoryAlerts

A job is a run of one objective or `sync_alerts_to_db`; its steps are its
database calls, each of which may fail and be swallowed. `Decidable` says
whether the table has the column `decided_by` that `update_alert_status`
writes: no migration of the repository creates it, so a deployment made from
them runs with `Decidable = FALSE`, where PATCH changes nothing. The run uses
`TRUE`, which gives the operator more to interleave.

### StoreLive

Connections, loops and last payloads are kept by the id in the URL; a broadcast
goes to every id of the same store. `Leave` is not seen by anybody until a send
fails (`Beat`, or the dead sockets of a broadcast). `LoopSends` sends to one id
at a time, since `_broadcast` awaits each socket.

### InventoryPipeline, DecisionRules, ContextSignals

The two operator modules translate the arithmetic with divisions multiplied
out: a daily demand is `Rate / 90000`, and "lasts less than n days" compares two
integers. The economic order quantity is the rounded square root the code
computes. A decision of a language model is any of `Answers`, a reading of the
signals any of `ReadingsOf`, brought into range as the code does.

`FallbackIsCoherent` names the one case where the critique refuses a decision of
the rules, `AmpleButLate`: more than 90 days of stock, yet less than the lead
time and two deviations. The run has a product in that case and one that is not.

`InventoryPipeline` runs them in a batch: `main[k]` is the worker of a product,
`ctx[k]` the context agent's thread, `dec[k]` the decision agent, which starts
on the background loop and goes on in a thread a timeout does not stop.

### CoachChat

A request is at one await: the context, the strategy, the models of its chain,
the stream. `Conclude` is everything after a reply, in the code's order: cache,
guardrail, replacement, answer, background tasks. Under BLOCK it replaces the
text and nothing else: the words a stream has shown (`shown`) stay on the
screen, and the actions, which the guardrail also reads, are returned even when
they are the ones that offend (`actions = "blocked"`). The closing event of a
stream carries the safe text.

A run of `invoke()` is a task of its own, which the request leaves behind at its
timeout. What it stores is either a plan of the Stratège's models (`"stratege"`)
or, when they all fail, the substitute the Stratège itself makes
(`"substitute"`, `stratege/nodes.py:838` and `880`); `invoke()` cannot tell the
two apart and keeps either for 30 minutes. The orchestrator's own fallbacks
(`"products"`, `"generic"`) are not stored. An entry carries the hours since the
hour of its key, because the key has the hour of the day and no date.

### SalesCycle

| Code | Actions |
|---|---|
| `run_cycle`: analyst, Stratège, end | `_run_analyst`, `_run_stratege_raises`, `Ask`, `ModelAnswers`, `ModelFails`, `RotationExhausted`, `EndCycle`, `CycleRaises` |
| the review a cycle asks for | `submit_hitl_review` |
| `CronTrigger` | `CronFires`, `CronWakes`, `Stop` |
| `fire_now`, the sale trigger, the supervisor | `RequestCycle` |
| `AlertBus`, `AlertCycleTrigger` | `publish_stock_alert`, `Subscribe`, `LinkBreaks`, `_handle_message`, `DebounceEnds` |

LangGraph keeps only the keys `SalesAgentState` declares: `catalog`,
`stock_alerts`, `rag_txt`, `real_time_alerts`, `analyst_memory` and
`memory_insights` are not among them, so what is loaded under these names
reaches no later node. `coach_message` is never set and the coach node returns
what it is given; nothing sets `is_top_seller`. When the point of sale does not
answer, the gap reads as 100 %, and a review is asked for figures nobody
measured. An analyst that raises leaves `analyst_summary` at the None of
`initial_state`, and the prompt of the Stratège takes `analyst_summary[:200]`
outside any `try`: that is `_run_stratege_raises`, after which no model is asked
and the cycle ends without a plan. The debounce reads a store that never fired as 0.0 on the clock of the
machine: `Init` has both cases. Any failure of the rotation of OpenRouter, not
only its quota, starts the pause.

## Runs

| Run | Instance | Shows |
|---|---|---|
| `po_single_writer` | 2 orders, 1 recommendation, 1 worker, 1 agent, count 1 of 2 received | the journal explains the stock; decisions reach both rows; the code implements `POLifecycle`; a waiting card is not marked as confirmed by the loop |
| `po_with_tools` | 1 order, a worker and a tool process | the tools never open the gate; a submitted order is resolved |
| `sale_trigger` | debounce 2, ceiling 3, throttle 3, heartbeat 4, horizon 4; 3 analyses | coalescence, bounded wait, no sale and no escalation lost for ever |
| `supervisor` | 1 cycle, a rule of each severity, limit 10 | the outputs that were written agree on the verdict and the recommendation; a review stands for an escalation; end of the cycle |
| `live_stock` | 2 stores, stock 0 to 2, lot 2, 3 events and failures, 2 analyses | the override never shows stock that is not there; the journal explains the row; an analysis that found the override does not miss a sale |
| `inventory_cache` | 2 objectives, 2 threads, 3 events | a push sends what has the sale it was scheduled for; every browser gets it; a decision leaves the screen only through a run that had read before it |
| `inventory_alerts` | 2 objectives and the sync, 2 events | duplicates only by overlap; closed alerts hidden; stale ones resolved; critical ones raised |
| `store_live` | 2 stores, 3 ids, 2 browsers, 2 events | a connected browser has a loop and gets figures of its own store; loops end |
| `inventory_pipeline` | 2 products, 2 faults, answers and a reading of a model | constraints hold on what is saved; the rules pass the critique except in one case; a shutdown is no failure and leaves a skipped product untouched; the batch ends |
| `coach_chat` | 2 requests, 1 message, 1 bucket, 2 hours, 2 attempts, 2 of 3 providers | one voice; a history without blocked texts; only the Stratège's answers cached; every request answered |
| `sales_cycle` | 2 stores in the cron's round, 2 cycles at a time, gap 40, alerts of one store | a plan survives failures, but for two in which the Stratège raises, a weak one is reviewed, an alert is followed by a cycle of its store |
| `coach_cached_unvetted` | 2 requests, 1 message | violated: a blocked reply is served from the cache |

Why the bounds are enough. Every race of the orders is between two calls on one
row. `MaxJournal` 2 leaves room for a partial reception and a complete one,
which is the longest path through the received statuts; `MaxSold` 1 has a sale
race a reception; `MaxAge` 1 has a card that is not stale and one that is. The
thresholds of the trigger are small and keep debounce < ceiling < heartbeat, the
order of the defaults (20, 60, 900 s), with the throttle (180 s) under the
heartbeat; a debounce of 2 lets the loop wake inside a window, where it must not
analyse; the three analyses differ in urgency, in feasibility and in gap, each
way. The limit of 10 supersteps has room for two passes of the coach before the
longest route to the end (the default of 25 changes only how many passes).
Cycles of one store share only `_last_run`, which the theorems treat for any
number of cycles.

`Budget` counts what the outside does: sales, requests, connections, decisions,
failures. It never bounds a step the code owes. Three events are enough for the
longest scenario the cache is exposed to (a sale, a second sale that cancels its
push, a failure or a decision); two for the alerts and the sockets, whose races
are between two jobs on one row, or one departure and one connection. Two
objectives and two threads let a run hold a lock while another waits; two stores
and two ids of one store separate what is kept by id from what is kept by store.
The two products of the batch have different fates: one blocked by the
constraints, one that the rules, a model or an uplift may decide. Two requests
with one message share everything two requests can share; two of three
providers put a rotation before the local model; `MaxSize` 1 puts the strategy
cache at its limit and two hours make keys go out of date. Cases of the alerts
with many products of a store are the choice `kept` of `Start`. Two cycles share
the pause of OpenRouter, and two stores make a round with a store before the
one that alerts; a gap of 40 is the threshold of the review, and 0 and 100 come
with the failures.

Constants and definitions named as bounds in the modules are `PO`, `Rec`,
`MaxJournal`, `MaxSold`, `Horizon`, the cap of the history variable `coachRuns`,
`Stock`, `Budget`, `Analyses`, `MaxFaults`, `Hours`, `Watched`, `Cycle` (of `SalesCycle`), `Gap` and `Awaited` (of `CoachChat`).

Deadlock checking is off for the supervisor, the live stock, the inventory
cache, the pipeline and the coach, where everything may have ended (the
budget spent, the batch closed, the requests answered). The others always have a
step left.

### The violation

`coach_cached_unvetted` checks a statement the repository makes of itself and
the code does not keep; `PROJECT.json` quotes the line. The reply of the chat is
cached before the guardrail reads it, and the entry is not corrected.

### Other divergences

These are stated in the modules, and hold of what a doc or comment says but not
of the code; they are not among the runs. To see one fail, add the definition to
a cfg of the module.

| Definition | Module | Instance | What happens |
|---|---|---|---|
| `HumanGate` | `PurchaseOrders` | a worker | PATCH takes a suggestion to BROUILLON and on to SOUMIS, its recommendation still pending (the tools refuse it, and that is proved) |
| `LegalMoves` | `PurchaseOrders` | `po_with_tools` | two checks before either write, then a change the table does not list |
| `OneOrderPerRecommendation` | `PurchaseOrders` | `po_single_writer` with the worker and the agent | the look-up and the INSERT are on two connections, a failed look-up reads as "none", and nothing is UNIQUE |
| `OneRewrite` | `Supervisor` | `supervisor` | no counter limits the edge and the second verdict is on the same text |
| `ApprovedIsVetted` | `Supervisor` | `supervisor` | the guardrail reads the fields of the sales branch, not `coach_recommendation` |
| `BlockedIsWithheld` | `Supervisor` | `supervisor` | "BLOCK → replace with safe fallback, do NOT send original": the products are broadcast and kept, and the blocked sales text stays in `orchestrator.last_result` |
| `AnnouncedIsReviewed` | `Supervisor` | `supervisor` | "ESCALATE → route to HITL": BLOCK announces `requires_hitl` and asks for no review; under ESCALATE the INSERT may be lost and the review is announced all the same |
| `BlockedIsWithheld` | `CoachChat` | `coach_chat` | a stream has shown the blocked words, and actions that caused the BLOCK are returned beside the safe text |
| `FallbackAlwaysCoherent` | `InventoryPipeline` | `inventory_pipeline` | "garanti cohérent": the rules order a stock of more than 90 days that is under the lead time and two deviations, which the critique refuses |
| `AwaitingIsUnconfirmed` | `PurchaseOrders` | `po_with_tools` | two writers: a card is put back in SOUMIS by a move checked before the loop confirmed it, with `confirmed_auto` still set |
| `AnalysisKeepsStock` | `LiveStock` | `live_stock` | `_persist_result` writes the stock of the start of the batch: sales and receptions since are gone from the row |
| `ReceptionIsSeen` | `LiveStock` | `live_stock` | the override, lowered by each sale, hides receptions until the cache is cleared |
| `AnnouncedIsStock` | `LiveStock` | `live_stock` | `_live_stock` is kept per SKU, not per store, and starts from a key that is not there |
| `SuppressedWereHandled` | `InventoryAlerts` | `inventory_alerts` | an alert the system resolved hides the next one for 24 hours as if the operator had handled it |
| `PatchDecides` | `InventoryAlerts` | `inventory_alerts`, `Decidable = FALSE` | the UPDATE names a column no migration creates and the reply is 404 |
| `SummaryIsOwn` | `StoreLive` | `store_live` | the initial payload has the summary of the last cycle of any store |
| `NoDoubleCounting` | `InventoryPipeline` | `inventory_pipeline` | the source of the forecast is looked for where it is not, so the uplift is always applied |
| `RuptureTriggers` | `SalesCycle` | `sales_cycle` | a rupture is published with 0 days left, which reads as 24 hours: it scores 40 or 55, less than an alert of two hours, and the lower one starts no cycle |
| `UrgentIsPlanned` | `SalesCycle` | `sales_cycle` | an answer of another shape, or an analyst that raised, makes a node of the Stratège raise: no plan, no critique and no review |

Four more were read in the code and are in the models without a property: the
coach's guardrail event is never broadcast (`coach_chat.py:1907` and `2514`
import `_broadcast` from a module that has none, and swallow the error); a
stream never asks for a review, although its answer may say that it requires
one; the key of the reply cache is cut at 120 characters, so two long questions
may share a reply; a strategy is stored under the hour at which it arrives.

### Fairness

- `po_with_tools`: weak fairness of `Tick` and `AutoConfirm`. The loop of
  `po_auto_confirm.py` never ends, survives exceptions, and tries again every
  15 minutes; the database is taken not to fail at each attempt. No request,
  tool or agent is owed.
- `sale_trigger`: weak fairness of time, of the loop's wake-up, of a spawned
  task, of the end of a push and of a cycle (each awaits a call that returns or
  raises); strong fairness of an analysis and of a cycle that succeed: attempts
  go on for ever, and the database and the agents do not fail at each of them.
  Sales and `stop` are not owed.
- `supervisor`: weak fairness of the nodes of a cycle, because each awaits calls
  that return or raise. Neither a timeout nor a manager is owed.
- `inventory_cache`: weak fairness of the threads, of the push and of the patch
  after a decision. A run ends or raises; a thread comes free and the lock of a
  store is released for those that wait, because requests are far apart
  compared with runs. No request, sale or expiry is owed.
- `inventory_alerts`: weak fairness of each job: entries of the cache expire
  after 40 s and are asked for by the browsers, and by `snapshot_loop` every
  hour, so that runs go on for ever. No decision of the operator is owed.
- `store_live`: weak fairness of the loop of each id and of the handler of each
  socket: the event loop runs what is ready, sends end one way or the other and
  the ping comes every 30 s. No connection, departure or event is owed.
- `inventory_pipeline`: weak fairness of the batch, of the workers and of the
  context threads, whose calls have time limits. Nothing is assumed of the
  threads of the decision agent: the batch ends although they hang.
- `coach_chat`: weak fairness of the handlers only. Each of their waits is
  bounded by a timeout of the HTTP client or by `COACH_STRATEGE_TIMEOUT`.
  Nothing is assumed of the run of the Stratège.
- `sales_cycle`: weak fairness of the cron, whose loop catches what a cycle
  raises and never ends while the application runs, and of each cycle and
  review, which await calls that return or raise. No alert, request or
  connection is owed.

## Proofs

Eight modules `*_proofs` hold the theorems. `SalesCycle_proofs` extends
`SaleTrigger` too, and `InventoryRoutes_proofs` extends both components of
`routes.py`, which is why the specifications of `SaleTrigger` and of
`InventoryAlerts` carry a prefix (`TriggerSpec`, `AlertsSpec`).

The theorems are about any constants that satisfy the assumptions the
component's module states, which are those of the code and not of a run: any
number of orders, sessions, stores, ids, browsers, requests, products, cycles,
objectives, threads and jobs; any stock, lot and figure; sessions of three kinds
distinct, ordered quantities natural (received counts any integers); the
debounce not above the ceiling nor the heartbeat; the guardrail's rules among G1
to G7 and a recursion limit of at least 2; costs and limits natural; gaps that
are percentages; "no value" (`None`) not among the values it stands beside. The
bounds of a run (`Budget`, `Horizon`) are constants too, and the theorems hold
for every value of them.

| Theorem | Module | Argument |
|---|---|---|
| `TypeCorrect`, `Typing`, `TriggerTypeCorrect` | all but `InventoryRoutes_proofs` | the typing part of an inductive invariant, `IInv` |
| `BooksAlwaysBalance` | `PurchaseOrders_proofs` | each write moves stock, journal and `recue` by the same amount; the typed `job` of `IInv` gives the amount |
| `ToolsNeverDecide` | `PurchaseOrders_proofs` | `IInv` says that a call a tool has in flight names a row that was not SUGGERE when it began; no step returns a row to SUGGERE |
| `DecisionsArePaired` | `PurchaseOrders_proofs` | one worker: the row a decision is about to write is still SUGGERE, since tools do not touch it and the loop only SOUMIS (`DecisionInv`) |
| `SingleWriterImplements`, `SingleWriterConfirms` | `PurchaseOrders_proofs` | one writing session: the checked move is still allowed at the write, although the loop may have confirmed the row meanwhile (`MoveInv`: what is allowed from SOUMIS is either allowed from CONFIRME, or is CONFIRME itself) |
| `CapAlwaysHolds`, `AlwaysCoalesced` | `SalesCycle_proofs` | on a free lock the wait is at most the age of the oldest pending sale, and a loop that saw the ceiling has spawned a task that starts before time moves |
| `OneAccountAlways`, `ReviewedAlwaysEscalated` | `Supervisor_proofs` | what is known of a cycle at each node: nothing is told of it before `notify` (`Silent`), the node it is at is the one its verdict routes to (`Routed`), what is told agrees with the verdict and the text it keeps (`Agrees`, `Told`); after `notify` neither changes. `Gravest` is the choice of the severity |
| `FirstDecisionAlwaysWins` | `Supervisor_proofs` | a cycle submits its review only once, before any decision |
| `RulePassesCritique`, `FallbackIsSound` | `InventoryPipeline_proofs` | the rules order exactly what is under lead time + 2 deviations (`RulesOrder`, by `LastsLessMono`), hold only above the lead time, and escalate above the approval cost; what is left for the critique to refuse is an order with ample stock |
| `NothingBlockedIsSaved` | `InventoryPipeline_proofs` | a decision in flight carries the figures it was made on; `Outcomes` gives only HOLD to a blocked product, whatever the model answers |
| `SkippedLeavesNothing` | `InventoryPipeline_proofs` | nothing ran for a product whose worker did not begin, and one without a result was given up by a broken submission, which makes it skipped (`Fate`) |
| `ShutdownNeverFails` | `InventoryPipeline_proofs` | the products in error are never more than the faults, counted as the cardinality of a finite set (`FailedStep`), and closing the batch makes no error of a product without result |
| `AlwaysOneVoice` | `CoachChat_proofs` | a stream that has shown a token never goes to another model, and its reply is set once, from the tokens or from the safe text (`QueryInv`) |
| `HistoryAlwaysVetted` | `CoachChat_proofs` | what is saved or quoted in a review is set by the step that judges it, and a request served from the reply cache saves nothing; before its end a request has saved nothing (`QueryInv`) |
| `CachedAlwaysAnswered` | `CoachChat_proofs` | every entry is an answer of the Stratège (`StoreKeeps`, on evicting and replacing entries of a sequence; `ExpiryKeeps`, `HourKeeps`), so a cached or stale one is too (`EntryKept`) |
| `NeverAbove`, `JournalAlwaysExplains`, `SalesAlwaysSeen` | `LiveStock_proofs` | in a store not `touched`, the figure a sale is about to lower is at most one above the row (`RowInv`); a floor at 0 never brings the row below its journal, because the sale found the shelf not empty |
| `AlwaysServed`, `NeverCrosstalk` | `StoreLive_proofs` | a browser that answers is never in a set of dead sockets, so only its own ping removes it; a loop ends only when nobody is registered under its id; each payload in flight is addressed to ids of its own store (`BrowserInv`, `LoopInv`) |
| `AlwaysAPlan`, `WeakAlwaysReviewed` | `SalesCycle_proofs` | what is known of a cycle at each point of `run_cycle` (`Good`); a plan whose actions have no argument and no impact scores at most 300 + 0 + 120 + 180 of 1200, below the threshold of 720 (`WeakReviewed`), and every reading with a gap of 40 % or more is urgent (`ReadingsTyped`) |
| `PushAlwaysCurrent` | `InventoryRoutes_proofs` | the run of a push reads after the sale, and its stock has at least the sales the push waits for, because the override has all that the callback has told (`RightCall`); the next push disowns the runs of the one before (`OrphanRight`), so the bound is always that of the push that will send |
| `DecisionsNotUndone` | `InventoryRoutes_proofs` | rows are only added (`Grows`), so an item keeps a row to agree with; what a call is going to show is the status its row has unless a decision crossed it (`RightCall`); the decision being patched still stands in its row (`Patched`), so the patch harms only an item of another recommendation |
| `DuplicatesOverlap` | `InventoryRoutes_proofs` | a job that found no pending row of its kind when it looked knows that those it finds now came later (`Knows`) |
| `HandledNotShown` | `InventoryRoutes_proofs` | the row a run shows was pending when it read it, and what has changed since is noted in `changed`; rows are only added, and the latest of a set of rows exists because row numbers are well-founded (`Least`, `Greatest`) |

The inductive invariants are needed because the properties alone are not
inductive: a decision is paired only because of what its session read earlier,
the ceiling holds only because of the relation between `freeWait`, `firstAge`
and a spawned task, the outputs agree only because nothing is told before the
last verdict and each node is entered with the right one, a browser keeps its loop only because the dead
sockets of a broadcast under way are really dead. `DecisionsArePaired` and the
`SingleWriter` theorems take the hypothesis `OneWorker` or `SingleWriter` in
their statement, which is what the Docker image runs.

Every safety property that a run checks, invariant or action property, is
stated by a theorem. Only model-checked: liveness (`SoumisIsResolved`,
`SaleIsShown`, `EscalationIsAdvised`, `CycleEnds`, `SaleReachesBrowsers`,
`StaleIsResolved`, `CriticalIsRaised`, `FiguresAreShown`, `LoopEnds`,
`BatchEnds`, `EveryRequestAnswered`, `AlertIsFollowed`), because the prover
reasons neither about fairness nor about ENABLED, and the violation, which is a
counterexample.

## Not modelled, and why

The content of recommendations, forecasts and retrieved documents is data to
the components above, chosen nondeterministically. Redis buses swallow errors
and deliver at most once. `CircuitBreaker` is called by nothing. Read-only APIs
(monitoring, KPI, store) and authentication keep no state that a component
above depends on; seeds, prompts and traces are text. The board's sockets,
product requests, the state merger and the balancing engine are in the plan.

## Plan

Done: the eleven components above, with their runs and the proofs of their
safety. Next, in order:

1. Product requests beside the HITL review, both against one abstract
   specification, "a pending item is decided once": `decide_request` checks and
   then updates unconditionally, `Validate` updates WHERE it is pending.
2. The sockets of the board (`po_ws_bus.py`).
3. Operators of the state merger (G9) and of the balancing engine over bounded
   inputs; in `src/app` only tests call them.
