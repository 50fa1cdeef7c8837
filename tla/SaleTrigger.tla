---------------------------- MODULE SaleTrigger ----------------------------
(***************************************************************************)
(* SaleEventTrigger of app/sales/orchestration/sale_trigger.py, for one    *)
(* store (stores share nothing but the loop that looks at each of them).   *)
(* Stage 1 recomputes the analysis of a store soon after its sales; stage  *)
(* 2 runs the agents when the analysis has materially changed.             *)
(*                                                                         *)
(* Everything runs on one asyncio loop: code between two awaits is a step. *)
(* A unit of time is the period of _loop.  The loop is not starved, so its *)
(* wake-up and the task it creates both run before the next unit begins,   *)
(* the task first (ready callbacks are FIFO).  A time stamp ts is modelled *)
(* by the age now - ts, which stops growing at Horizon.                    *)
(***************************************************************************)
EXTENDS Integers

CONSTANTS
    Debounce, MaxWait, Heartbeat, MinFull,   \* TriggerConfig, in units
    GapDelta,                                \* gap_delta_pts
    Analyses,     \* what analyze_store may return: ranks and a gap
    Horizon       \* bound: ages are told apart up to here

ASSUME ConfigAssumption ==
    /\ Debounce \in Nat /\ MaxWait \in Nat \ {0} /\ Heartbeat \in Nat
    /\ Debounce <= MaxWait /\ Debounce <= Heartbeat
    /\ MinFull \in Nat /\ GapDelta \in Nat
    /\ Horizon \in Nat /\ MaxWait < Horizon /\ Heartbeat <= Horizon /\ MinFull <= Horizon
ASSUME AnalysesAssumption ==
    Analyses \subseteq [urgency : Nat, feasibility : Nat, gap : Int]

VARIABLES
    looping,        \* _running
    due,            \* the sleep of _loop is over, it has not run yet
    spawned,        \* an _analyze task is created and has not started
    phase,          \* where the holder of st.lock is; "idle": lock free
    pending,        \* st.pending_sales > 0
    firstAge,       \* age of st.first_pending_at
    saleAge,        \* age of st.last_sale_at
    analysisAge,    \* age of st.last_analysis_at
    fullAge,        \* age of st.last_full_cycle_at
    everFull,       \* st.last_full_cycle_at # 0.0
    analysis,       \* the analysis in hand
    last,           \* last_urgency, last_feasibility, last_gap_pct
    \* history, for the properties
    freeWait,       \* units the oldest pending sale waited on a free lock
    tracked,        \* what became of one sale
    advised         \* urgency the last successful full cycle advised on

clockVars == <<firstAge, saleAge, analysisAge, fullAge>>
stateVars == <<everFull, analysis, last>>
triggerVars == <<looping, due, spawned, phase, pending, clockVars, stateVars,
                 freeWait, tracked, advised>>

Older(age) == IF age < Horizon THEN age + 1 ELSE age

NoAnalysis == [urgency |-> 0, feasibility |-> 1, gap |-> 0]

TriggerTypeOK ==
    /\ looping \in BOOLEAN /\ due \in BOOLEAN /\ spawned \in BOOLEAN
    /\ phase \in {"idle", "analysing", "pushing", "cycle"}
    /\ pending \in BOOLEAN /\ everFull \in BOOLEAN
    /\ firstAge \in 0..Horizon /\ saleAge \in 0..Horizon
    /\ analysisAge \in 0..Horizon /\ fullAge \in 0..Horizon
    /\ analysis \in Analyses \cup {NoAnalysis}
    /\ last \in Analyses \cup {NoAnalysis}
    /\ freeWait \in Nat
    /\ tracked \in {"none", "waiting", "read", "shown"}
    /\ advised \in Nat

\* last_analysis_at is 0.0 on a monotonic clock whose origin is the boot of
\* the host: the first heartbeat may be due at once or later.
TriggerInit ==
    /\ looping = TRUE /\ due = FALSE /\ spawned = FALSE
    /\ phase = "idle"
    /\ pending = FALSE
    /\ firstAge = 0 /\ saleAge = 0 /\ fullAge = 0
    /\ analysisAge \in 0..Horizon
    /\ everFull = FALSE
    /\ analysis = NoAnalysis /\ last = NoAnalysis
    /\ freeWait = 0 /\ tracked = "none" /\ advised = 0

----------------------------------------------------------------------------
NotifySale ==
    /\ pending' = TRUE
    /\ firstAge' = IF pending THEN firstAge ELSE 0
    /\ saleAge' = 0
    /\ freeWait' = IF pending THEN freeWait ELSE 0
    /\ \/ UNCHANGED tracked
       \/ tracked = "none" /\ tracked' = "waiting"
    /\ UNCHANGED <<looping, due, spawned, phase, analysisAge, fullAge,
                   stateVars, advised>>

Advance ==
    /\ looping => ~due
    /\ ~spawned
    /\ due' = looping
    /\ firstAge' = Older(firstAge) /\ saleAge' = Older(saleAge)
    /\ analysisAge' = Older(analysisAge) /\ fullAge' = Older(fullAge)
    /\ freeWait' = IF looping /\ pending /\ phase = "idle"
                     THEN freeWait + 1 ELSE freeWait
    /\ UNCHANGED <<looping, spawned, phase, pending, stateVars, tracked, advised>>

Quiet  == saleAge >= Debounce
Capped == firstAge >= MaxWait

\* (variants: no ceiling, no heartbeat, and sales that do not wait)
ShouldAnalyzeUncapped ==
    /\ phase = "idle"
    /\ IF pending THEN Quiet ELSE analysisAge >= Heartbeat
ShouldAnalyzeNoHeartbeat ==
    /\ phase = "idle" /\ pending
    /\ Quiet \/ Capped
ShouldAnalyzeAtOnce ==
    /\ phase = "idle"
    /\ pending \/ analysisAge >= Heartbeat

ShouldAnalyze ==
    /\ phase = "idle"
    /\ IF pending THEN Quiet \/ Capped ELSE analysisAge >= Heartbeat

LoopWakes ==
    /\ looping /\ due
    /\ due' = FALSE
    /\ spawned' = (spawned \/ ShouldAnalyze)
    /\ UNCHANGED <<looping, phase, pending, clockVars, stateVars, freeWait,
                   tracked, advised>>

\* _analyze up to the await of analyze_store: the lock is taken, the counters
\* are reset in the same step.
BeginAnalysis ==
    /\ spawned /\ phase = "idle"
    /\ spawned' = FALSE
    /\ phase' = "analysing"
    /\ pending' = FALSE
    /\ analysisAge' = 0
    /\ freeWait' = 0
    /\ tracked' = IF tracked = "waiting" THEN "read" ELSE tracked
    /\ UNCHANGED <<looping, due, firstAge, saleAge, fullAge, stateVars, advised>>

AnalysisFails ==
    /\ phase = "analysing"
    /\ phase' = "idle"
    /\ tracked' = IF tracked = "read" THEN "waiting" ELSE tracked
    /\ UNCHANGED <<looping, due, spawned, pending, clockVars, stateVars,
                   freeWait, advised>>

AnalysisSucceeds(a) ==
    /\ phase = "analysing"
    /\ phase' = "pushing"
    /\ analysis' = a
    /\ UNCHANGED <<looping, due, spawned, pending, clockVars, everFull, last,
                   freeWait, tracked, advised>>

Material ==
    \/ analysis.urgency > last.urgency
    \/ analysis.feasibility > last.feasibility
    \/ analysis.gap - last.gap >= GapDelta \/ last.gap - analysis.gap >= GapDelta

\* (variant: no periodic full cycle)
FullCycleReasonNoHeartbeat ==
    \/ ~everFull
    \/ fullAge >= MinFull /\ Material

FullCycleReason ==
    \/ ~everFull
    \/ fullAge >= MinFull /\ (Material \/ fullAge >= Heartbeat)

\* on_analysis returned, or raised: the result is remembered either way, and
\* stage 2 begins under the lock if there is a reason.
EndPush ==
    /\ phase = "pushing"
    /\ last' = analysis
    /\ IF FullCycleReason
         THEN phase' = "cycle" /\ everFull' = TRUE /\ fullAge' = 0
         ELSE phase' = "idle" /\ UNCHANGED <<everFull, fullAge>>
    /\ tracked' = IF tracked = "read" THEN "shown" ELSE tracked
    /\ UNCHANGED <<looping, due, spawned, pending, firstAge, saleAge,
                   analysisAge, analysis, freeWait, advised>>

EndFullCycle(ok) ==
    /\ phase = "cycle"
    /\ phase' = "idle"
    /\ advised' = IF ok THEN last.urgency ELSE advised
    /\ UNCHANGED <<looping, due, spawned, pending, clockVars, stateVars,
                   freeWait, tracked>>

\* The loop is cancelled; what it spawned is not.
StopTrigger ==
    /\ looping
    /\ looping' = FALSE /\ due' = FALSE
    /\ UNCHANGED <<spawned, phase, pending, clockVars, stateVars, freeWait,
                   tracked, advised>>

SomeAnalysis == \E a \in Analyses : AnalysisSucceeds(a)

TriggerNext ==
    \/ NotifySale
    \/ Advance
    \/ LoopWakes
    \/ BeginAnalysis
    \/ AnalysisFails
    \/ SomeAnalysis
    \/ EndPush
    \/ \E ok \in BOOLEAN : EndFullCycle(ok)
    \/ StopTrigger

TriggerSpec == TriggerInit /\ [][TriggerNext]_triggerVars

\* Time passes, the event loop runs what is ready, calls return; the database
\* and the agents do not fail at every attempt.
TriggerFairSpec ==
    /\ TriggerSpec
    /\ WF_triggerVars(Advance) /\ WF_triggerVars(LoopWakes)
    /\ WF_triggerVars(BeginAnalysis)
    /\ WF_triggerVars(EndPush) /\ WF_triggerVars(\E ok \in BOOLEAN : EndFullCycle(ok))
    /\ SF_triggerVars(SomeAnalysis) /\ SF_triggerVars(EndFullCycle(TRUE))

----------------------------------------------------------------------------
(* Properties.                                                             *)

\* Coalescence: whatever the sales, two analyses start at least a debounce
\* window apart.
Coalesced == [][BeginAnalysis => analysisAge >= Debounce]_triggerVars

\* An unbroken flow of sales does not postpone the analysis: no sale waits
\* longer than max_wait_s on a free lock, sales that land between the reset of
\* the counters and the end of the analysis included.
CapHolds == freeWait <= MaxWait

\* A sale whose analysis fails was already taken off the counters; the
\* heartbeat still brings it to the screen.
SaleIsShown == tracked = "waiting" ~> tracked = "shown" \/ ~looping

\* min_full_cycle_s swallows an escalation, and so does a cycle that fails,
\* because last_urgency is overwritten anyway; the heartbeat still has the
\* agents advise on it, unless the urgency falls first.
EscalationIsAdvised ==
    last.urgency > advised ~> last.urgency <= advised \/ ~looping
=============================================================================
