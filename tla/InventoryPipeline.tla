-------------------------- MODULE InventoryPipeline --------------------------
(***************************************************************************)
(* One batch of the inventory pipeline                                     *)
(* (src/app/inventory/services/orchestrator.py): a worker thread per       *)
(* product runs the analysis while another thread runs the context agent,  *)
(* then waits, up to a time limit, for the decision agent. That agent      *)
(* starts on the shared background loop and finishes in a thread of its    *)
(* own, which a timeout cannot stop: it still decides, saves and suggests  *)
(* an order for a product already reported as failed. The process may be   *)
(* asked to stop at any time.                                              *)
(*                                                                         *)
(* The context and decision agents each keep a row in                      *)
(* monitoring.agent_runs, the batch one more. What the writes of the stock *)
(* figures do is in LiveStock; what becomes of the recommendation and of   *)
(* the order, in PurchaseOrders.                                           *)
(***************************************************************************)
EXTENDS DecisionRules, FiniteSets

CONSTANTS Sku,
          CasesOf(_),     \* the figures a product may have
          SignalsOf(_),   \* the signals around it
          Answers,        \* what a language model may decide
          ReadingsOf(_),  \* what it may make of the signals, as parsed
          MaxFaults,      \* calls that may fail in one behaviour (bound)
          None

ASSUME InputsAssumption ==
    /\ MaxFaults \in Nat
    /\ None \notin Decision
    /\ \A a \in Answers : a \in Decision /\ a.by = "llm"
    /\ \A k \in Sku : /\ \A c \in CasesOf(k) : c \in Product
                      /\ \A s \in SignalsOf(k) : s \in Signals
                      /\ \A a \in ReadingsOf(k) : a \in Reading

VARIABLES useLlm,    \* self.use_llm
          item,      \* item[k]: the figures of the product, read by the analysis
          signals,   \* signals[k]: what fetch_signals_node finds
          down,      \* _shutdown_flag
          batch,     \* the batch: pc, its agent_runs row, aborted
          main,      \* main[k]: where the worker of the product is
          report,    \* report[k]: it holds an analysis_report
          ctx,       \* ctx[k]: the context agent: pc, row, its report
          dec,       \* dec[k]: the decision agent: pc, row, decision, rate, recommendation
          rec,       \* rec[k]: the row of inventory.recommendations
          order,     \* order[k]: a purchase order is suggested
          result,    \* result[k]: what the batch answers for it, "decided" or why not
          faults     \* calls that failed so far

vars == <<useLlm, item, signals, down, batch, main, report, ctx, dec, rec, order, result, faults>>
given == <<useLlm, item, signals>>

\* "stuck": still running in the table, the write that closes it failed.
Row == {"none", "running", "completed", "failed", "stuck"}
Errors == {"error", "aborted", "timeout", "failed"}

\* The batch is a list.
ASSUME BatchAssumption == IsFiniteSet(Sku) /\ None \notin Errors \cup {"decided", "skipped"}

ContextState ==
    [pc : {"off", "deferred", "queued", "running", "done"}, row : Row, report : Context]
DecisionState ==
    [pc : {"off", "fetching", "deciding", "saving", "suggesting", "closing", "answered",
           "cancelled"},
     row : Row, decision : Decision \cup {None}, rate : Int, saved : BOOLEAN]

\* TypeOK; among others, every reading of the signals that reaches the decision
\* has its window within 1 to 14 days and a known volatility.
TypeOK ==
    /\ useLlm \in BOOLEAN /\ down \in BOOLEAN /\ faults \in 0..MaxFaults
    /\ \A k \in Sku : item[k] \in CasesOf(k) /\ signals[k] \in SignalsOf(k)
    /\ batch \in [pc : {"new", "running", "closed"}, row : Row, aborted : BOOLEAN]
    /\ main \in [Sku -> {"queued", "submitting", "analysing", "joining", "waiting", "done"}]
    /\ report \in [Sku -> BOOLEAN]
    /\ ctx \in [Sku -> ContextState]
    /\ dec \in [Sku -> DecisionState]
    /\ rec \in [Sku -> Decision \cup {None}]
    /\ order \in [Sku -> BOOLEAN]
    /\ result \in [Sku -> Errors \cup {"decided", "skipped", None}]

Init ==
    /\ useLlm \in BOOLEAN
    /\ item \in {f \in [Sku -> UNION {CasesOf(k) : k \in Sku}] : \A k \in Sku : f[k] \in CasesOf(k)}
    /\ signals \in {f \in [Sku -> UNION {SignalsOf(k) : k \in Sku}] :
                      \A k \in Sku : f[k] \in SignalsOf(k)}
    /\ down = FALSE
    /\ batch = [pc |-> "new", row |-> "none", aborted |-> FALSE]
    /\ main = [k \in Sku |-> "queued"]
    /\ report = [k \in Sku |-> FALSE]
    /\ ctx = [k \in Sku |-> [pc |-> "off", row |-> "none", report |-> NoContext]]
    /\ dec = [k \in Sku |-> [pc |-> "off", row |-> "none", decision |-> None, rate |-> 0,
                             saved |-> FALSE]]
    /\ rec = [k \in Sku |-> None]
    /\ order = [k \in Sku |-> FALSE]
    /\ result = [k \in Sku |-> None]
    /\ faults = 0

\* A call to the database, to the model or to the thread pool fails, or not.
Fails == faults < MaxFaults /\ faults' = faults + 1
Works == faults' = faults

\* start_agent_run: a failure leaves the agent without a row.
Opens(row) == \/ Works /\ row = "running"
              \/ Fails /\ row = "none"

\* complete_agent_run
Closes(old, status, new) == \/ Works /\ new = IF old = "running" THEN status ELSE old
                            \/ old = "running" /\ Fails /\ new = "stuck"

\* complete_agent_run from an error handler, where it may fail as well.
ClosedAsFailed(old) == IF old = "running" THEN {"failed", "stuck"} ELSE {old}

-----------------------------------------------------------------------------
(* analyze_batch                                                           *)

OpenBatch ==
    /\ batch.pc = "new"
    /\ \E row \in Row : Opens(row) /\ batch' = [batch EXCEPT !.pc = "running", !.row = row]
    /\ UNCHANGED <<given, down, main, report, ctx, dec, rec, order, result>>

Ends(k, answer) == /\ main' = [main EXCEPT ![k] = "done"]
                   /\ result' = [result EXCEPT ![k] = answer]

\* _worker: no product is started once the process stops.
Begin(k) ==
    /\ batch.pc = "running" /\ main[k] = "queued"
    /\ IF down THEN Ends(k, "skipped")
       ELSE main' = [main EXCEPT ![k] = "submitting"] /\ UNCHANGED result
    /\ UNCHANGED <<given, down, batch, report, ctx, dec, rec, order, faults>>

\* pool.submit refuses, the interpreter is exiting: the rest is not submitted.
SubmissionBreaks ==
    /\ batch.pc = "running" /\ down
    /\ \E k \in Sku : main[k] = "queued"
    /\ batch' = [batch EXCEPT !.aborted = TRUE]
    /\ main' = [k \in Sku |-> IF main[k] = "queued" THEN "done" ELSE main[k]]
    /\ UNCHANGED <<given, down, report, ctx, dec, rec, order, result, faults>>

\* A mistake: what was not submitted counts as an error.
MissingAsError == "error"

\* What stands for a product that was never submitted.
Missing == IF batch.aborted \/ down THEN "skipped" ELSE "error"

Answer(k) == IF result[k] = None THEN Missing ELSE result[k]

BatchStatus == IF \A k \in Sku : Answer(k) = "error" THEN "failed" ELSE "completed"

CloseBatch ==
    /\ batch.pc = "running" /\ \A k \in Sku : main[k] = "done"
    /\ result' = [k \in Sku |-> Answer(k)]
    /\ \E row \in Row : /\ Closes(batch.row, BatchStatus, row)
                        /\ batch' = [batch EXCEPT !.pc = "closed", !.row = row]
    /\ UNCHANGED <<given, down, main, report, ctx, dec, rec, order>>

\* request_shutdown, as long as a product has still to be submitted: nothing
\* reads the flag later.
ShutDown ==
    /\ ~down /\ \E k \in Sku : main[k] \in {"queued", "submitting"}
    /\ down' = TRUE
    /\ UNCHANGED <<given, batch, main, report, ctx, dec, rec, order, result, faults>>

-----------------------------------------------------------------------------
(* _run_pipeline, phase 1: analysis here, context in a thread of its own,  *)
(* or after the analysis when the process stops.                           *)

Submit(k) ==
    /\ main[k] = "submitting"
    /\ main' = [main EXCEPT ![k] = "analysing"]
    /\ ctx' = [ctx EXCEPT ![k].pc = IF down THEN "deferred" ELSE "queued"]
    /\ UNCHANGED <<given, down, batch, report, dec, rec, order, result, faults>>

\* The pool cannot start a thread: the exception ends the product.
SubmitRaises(k) ==
    /\ main[k] = "submitting"
    /\ Fails
    /\ Ends(k, IF down THEN "skipped" ELSE "error")
    /\ UNCHANGED <<given, down, batch, report, ctx, dec, rec, order>>

\* The agent catches its own errors: it answers without a report.
Analyse(k) ==
    /\ main[k] = "analysing"
    /\ main' = [main EXCEPT ![k] = "joining"]
    /\ \/ Works /\ report' = [report EXCEPT ![k] = TRUE]
       \/ Fails /\ UNCHANGED report
    /\ UNCHANGED <<given, down, batch, ctx, dec, rec, order, result>>

ContextOpens(k) ==
    /\ ctx[k].pc = "queued" \/ (ctx[k].pc = "deferred" /\ main[k] = "joining")
    /\ \E row \in Row :
         /\ Opens(row)
         /\ ctx' = [ctx EXCEPT ![k] = [@ EXCEPT !.pc = "running", !.row = row]]
    /\ UNCHANGED <<given, down, batch, main, report, dec, rec, order, result>>

\* What the context agent may report: the rules, or a model's reading.
Readable(k) == {Interpret(signals[k])} \cup
               IF useLlm THEN {InRange(a) : a \in ReadingsOf(k)} ELSE {}

ContextEnds(k) ==
    /\ ctx[k].pc = "running"
    /\ \E reading \in Readable(k), row \in Row :
         /\ Closes(ctx[k].row, "completed", row)
         /\ ctx' = [ctx EXCEPT ![k] = [pc |-> "done", row |-> row, report |-> reading]]
    /\ UNCHANGED <<given, down, batch, main, report, dec, rec, order, result>>

ContextFails(k) ==
    /\ ctx[k].pc = "running" /\ Fails
    /\ \E row \in ClosedAsFailed(ctx[k].row) :
         ctx' = [ctx EXCEPT ![k] = [@ EXCEPT !.pc = "done", !.row = row]]
    /\ UNCHANGED <<given, down, batch, main, report, dec, rec, order, result>>

\* A mistake: the pool closed by the shutdown is found here, outside of any guard.
JoinUnguarded(k) ==
    /\ main[k] = "joining" /\ ctx[k].pc = "done" /\ down
    /\ Ends(k, "skipped")
    /\ UNCHANGED <<given, down, batch, report, ctx, dec, rec, order, faults>>

\* context_future.result() has no time limit; without a report nothing is decided.
Join(k) ==
    /\ main[k] = "joining" /\ ctx[k].pc = "done"
    /\ IF ~report[k] THEN Ends(k, "aborted") /\ UNCHANGED dec
       ELSE /\ main' = [main EXCEPT ![k] = "waiting"]
            /\ dec' = [dec EXCEPT ![k].pc = "fetching"]
            /\ UNCHANGED result
    /\ UNCHANGED <<given, down, batch, report, ctx, rec, order, faults>>

-----------------------------------------------------------------------------
(* Phase 2: the decision agent, and the worker waiting for it.             *)

\* run: the complementary products are there, _run_blocking gets its thread.
DecisionStarts(k) ==
    /\ dec[k].pc = "fetching"
    /\ \E row \in Row :
         /\ Opens(row)
         /\ dec' = [dec EXCEPT ![k] = [@ EXCEPT !.pc = "deciding", !.row = row]]
    /\ UNCHANGED <<given, down, batch, main, report, ctx, rec, order, result>>

\* The graph: constraints_check, then decide.
Decide(k) ==
    LET rate == AdjustedRate(item[k], ctx[k].report)
    IN  /\ dec[k].pc = "deciding"
        /\ \E d \in Outcomes(item[k], rate, useLlm, Answers) :
             dec' = [dec EXCEPT ![k] =
                       [@ EXCEPT !.pc = IF d.action \in Orders THEN "saving" ELSE "closing",
                                 !.decision = d, !.rate = rate]]
        /\ UNCHANGED <<given, down, batch, main, report, ctx, rec, order, result, faults>>

\* _persist_recommendation: a failure is logged and the decision reported all the same.
Save(k) ==
    /\ dec[k].pc = "saving"
    /\ \/ /\ Works
          /\ rec' = [rec EXCEPT ![k] = dec[k].decision]
          /\ dec' = [dec EXCEPT ![k] = [@ EXCEPT !.pc = "suggesting", !.saved = TRUE]]
       \/ /\ Fails
          /\ dec' = [dec EXCEPT ![k].pc = "closing"]
          /\ UNCHANGED rec
    /\ UNCHANGED <<given, down, batch, main, report, ctx, order, result>>

\* _suggest_purchase_order
Suggest(k) ==
    /\ dec[k].pc = "suggesting"
    /\ \/ Works /\ order' = [order EXCEPT ![k] = TRUE]
       \/ Fails /\ UNCHANGED order
    /\ dec' = [dec EXCEPT ![k].pc = "closing"]
    /\ UNCHANGED <<given, down, batch, main, report, ctx, rec, result>>

CloseDecision(k) ==
    /\ dec[k].pc = "closing"
    /\ \E row \in Row : /\ Closes(dec[k].row, "completed", row)
                        /\ dec' = [dec EXCEPT ![k] = [@ EXCEPT !.pc = "answered", !.row = row]]
    /\ UNCHANGED <<given, down, batch, main, report, ctx, rec, order, result>>

\* A mistake: the handler reports the error and leaves the row.
RaisesAndLeaves(k) ==
    /\ dec[k].pc = "deciding" /\ Fails
    /\ dec' = [dec EXCEPT ![k] = [@ EXCEPT !.pc = "answered", !.decision = None]]
    /\ UNCHANGED <<given, down, batch, main, report, ctx, rec, order, result>>

\* The graph raises: the row is closed as failed, if that write succeeds.
DecisionRaises(k) ==
    /\ dec[k].pc = "deciding" /\ Fails
    /\ \E row \in ClosedAsFailed(dec[k].row) :
         dec' = [dec EXCEPT ![k] = [@ EXCEPT !.pc = "answered", !.decision = None,
                                             !.row = row]]
    /\ UNCHANGED <<given, down, batch, main, report, ctx, rec, order, result>>

Answered(k) ==
    /\ main[k] = "waiting" /\ dec[k].pc = "answered"
    /\ Ends(k, IF dec[k].decision = None THEN "failed" ELSE "decided")
    /\ UNCHANGED <<given, down, batch, report, ctx, dec, rec, order, faults>>

\* A mistake: no limit on the wait, except for a coroutine not yet in its thread.
TimeoutOnLoop(k) ==
    /\ main[k] = "waiting" /\ dec[k].pc = "fetching"
    /\ Ends(k, "timeout")
    /\ dec' = [dec EXCEPT ![k].pc = "cancelled"]
    /\ UNCHANGED <<given, down, batch, report, ctx, rec, order, faults>>

\* _await_sync gives up: the coroutine is cancelled at its await; a thread
\* already started is not.
Timeout(k) ==
    /\ main[k] = "waiting" /\ dec[k].pc # "answered"
    /\ Ends(k, "timeout")
    /\ dec' = [dec EXCEPT ![k].pc = IF @ = "fetching" THEN "cancelled" ELSE @]
    /\ UNCHANGED <<given, down, batch, report, ctx, rec, order, faults>>

Next ==
    \/ OpenBatch \/ SubmissionBreaks \/ CloseBatch \/ ShutDown
    \/ \E k \in Sku :
         \/ Begin(k) \/ Submit(k) \/ SubmitRaises(k) \/ Analyse(k) \/ Join(k)
         \/ ContextOpens(k) \/ ContextEnds(k) \/ ContextFails(k)
         \/ DecisionStarts(k) \/ Decide(k) \/ Save(k) \/ Suggest(k) \/ CloseDecision(k)
         \/ DecisionRaises(k) \/ Answered(k) \/ Timeout(k)

\* The workers and the context threads run; nothing is assumed of the threads
\* of the decision agent, which may hang in any of their calls.
Worker(k) == Begin(k) \/ Submit(k) \/ Analyse(k) \/ Join(k) \/ Answered(k) \/ Timeout(k)
ContextThread(k) == ContextOpens(k) \/ ContextEnds(k)

Spec == Init /\ [][Next]_vars

FairSpec ==
    /\ Spec
    /\ WF_vars(OpenBatch \/ CloseBatch)
    /\ \A k \in Sku : WF_vars(Worker(k)) /\ WF_vars(ContextThread(k))

-----------------------------------------------------------------------------
(* Properties                                                              *)

\* BlockedNeverSaved: whatever a language model answers, no recommendation to
\* order is stored for a product whose constraints forbid it: over the budget,
\* or critical at the end of its life (_constraints_check_node).
BlockedNeverSaved ==
    \A k \in Sku : rec[k] # None => ~Blocked(item[k], dec[k].rate)

\* FallbackIsCoherent: the decision of the rules, which replaces a refused draft
\* of the model without being critiqued again (create_decide_node), is one the
\* critique itself refuses in exactly one case: a stock of more than Ample days
\* that is under the lead time and two of its deviations. The rules order it,
\* the critique finds it ample. They never hold what runs out within the lead
\* time, nor order without the approval its cost demands.
FallbackIsCoherent ==
    \A k \in Sku : dec[k].decision # None /\ dec[k].decision.by = "rules" =>
        (PassesCritique(item[k], dec[k].rate, dec[k].decision)
            <=> ~AmpleButLate(item[k], dec[k].rate))

\* "garanti cohérent" (decision/nodes.py:682), which AmpleButLate refutes.
FallbackAlwaysCoherent ==
    \A k \in Sku : dec[k].decision # None /\ dec[k].decision.by = "rules"
                    => PassesCritique(item[k], dec[k].rate, dec[k].decision)

\* ShutdownIsNotFailure: a batch is recorded as failed only when each of its
\* products really failed; one that a shutdown kept from being treated is
\* skipped, at whatever point the shutdown came (analyze_batch).
ShutdownIsNotFailure ==
    batch.row = "failed" => /\ \A k \in Sku : result[k] = "error"
                            /\ faults >= Cardinality(Sku)

\* SkippedIsUntouched: a product reported as skipped by the shutdown left
\* nothing behind: no agent ran for it, nothing is recommended or ordered.
SkippedIsUntouched ==
    \A k \in Sku : result[k] = "skipped" =>
        ctx[k].pc = "off" /\ dec[k].pc = "off" /\ rec[k] = None /\ ~order[k]

\* BatchEnds: a batch that started is closed, though a decision hang forever:
\* the time limit of _await_sync frees the worker.
BatchEnds == (batch.pc = "running") ~> (batch.pc = "closed")

\* RunsAreClosed: an agent that is through leaves no row open in
\* monitoring.agent_runs, unless the write that closes it failed; also when
\* its graph raised, or its product was given up meanwhile.
RunsAreClosed ==
    \A k \in Sku :
        /\ ctx[k].pc = "done" => ctx[k].row # "running"
        /\ dec[k].pc \in {"answered", "cancelled"} => dec[k].row # "running"

\* NoDoubleCounting: where the forecast already counts a signal, its uplift is
\* not applied again (decision/agent.py _resolve_effective_uplift).
NoDoubleCounting ==
    \A k \in Sku :
        /\ dec[k].decision # None
        /\ item[k].source = "demand_sensing_db" /\ ctx[k].report.dominant \in Overlap
        => dec[k].rate = Rate(item[k], 0, ctx[k].report.window)

=============================================================================
