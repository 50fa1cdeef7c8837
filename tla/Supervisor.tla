----------------------------- MODULE Supervisor -----------------------------
(***************************************************************************)
(* The SupervisorAgent graph of app/sales/orchestration/supervisor_agent.py*)
(* as POST /api/v1/supervisor/run and /async run it: four branches in one  *)
(* superstep, then coach, guardrail, and one of four routes to             *)
(* notify_frontend and save_memory; and the review a manager decides       *)
(* (app/api/hitl.py).  Several cycles of a store may be in flight.         *)
(*                                                                         *)
(* A node of the graph is a step.  A node catches its own exceptions and   *)
(* returns an error delta, so a branch that fails still ends.  LangGraph   *)
(* (external) counts supersteps and raises past its recursion limit; the   *)
(* caller's wait_for cancels the graph at any await.                       *)
(***************************************************************************)
EXTENDS Integers

CONSTANTS
    Cycle,
    Rules,           \* guardrail rules a text of the agents may violate
    RecursionLimit,  \* supersteps of one graph run (LangGraph's default: 25)
    NoCycle

ASSUME RulesAssumption ==
    Rules \subseteq {"G1", "G2", "G3", "G4", "G5", "G6", "G7"}
ASSUME LimitAssumption ==
    RecursionLimit \in Nat /\ RecursionLimit >= 2 /\ NoCycle \notin Cycle

Branch == {"sales", "knowledge", "context", "inventory"}

GUARDRAIL_SEVERITY ==
    [G1 |-> "BLOCK", G2 |-> "REWRITE", G3 |-> "REWRITE", G4 |-> "BLOCK",
     G5 |-> "REWRITE", G6 |-> "ESCALATE", G7 |-> "ESCALATE"]

SEVERITY_RANK == [BLOCK |-> 3, ESCALATE |-> 2, REWRITE |-> 1, APPROVE |-> 0]

Status == {"APPROVE", "REWRITE", "ESCALATE", "BLOCK"}

ComputeStatus(rules) ==
    IF rules = {} THEN "APPROVE"
    ELSE CHOOSE st \in {GUARDRAIL_SEVERITY[r] : r \in rules} :
            \A r \in rules : SEVERITY_RANK[st] >= SEVERITY_RANK[GUARDRAIL_SEVERITY[r]]

VARIABLES
    pc,         \* the node a cycle runs, or "new", "returning", "done", "failed"
    steps,      \* supersteps run
    working,    \* branches of the superstep that have not ended
    found,      \* rules the text of the sales branch violates
    lastResult, \* the cycle whose sales text the orchestrator keeps
    coachRuns,  \* times coach_agent ran, up to 3 (bound; history)
    coachRules, \* rules the text of the coach violates
    reco,       \* whose text coach_recommendation is
    ranked,     \* scored_products: of the coach's last run, or of one before
    verdict,    \* guardrail_status
    issues,     \* guardrail_issues
    sent,       \* what the broadcast told of a cycle
    saved,      \* what coach_interactions tells of it
    review,     \* the hitl_reviews row; "lost": the INSERT failed
    lastRun     \* _last_run of the store: a cycle and what it tells of it

flowVars == <<pc, steps>>
salesVars == <<working, found, lastResult>>
coachVars == <<coachRuns, coachRules, ranked>>
outVars == <<sent, saved, lastRun>>
vars == <<flowVars, salesVars, coachVars, reco, verdict, issues, review, outVars>>

Node == {"branches", "merge", "coach", "guardrail", "fallback", "human",
         "notify", "memory"}
Text == {"none", "coach", "generic", "fallback"}
Ranking == {"none", "fresh", "stale"}

\* What an output tells of a cycle; a field it has not is "none", {} or FALSE.
Account == [reco : Text, ranked : Ranking, status : Status \cup {"none"},
            issues : SUBSET Rules, hitl : BOOLEAN]
Nothing == [reco |-> "none", ranked |-> "none", status |-> "none",
            issues |-> {}, hitl |-> FALSE]

TypeOK ==
    /\ pc \in [Cycle -> Node \cup {"new", "returning", "done", "failed"}]
    /\ steps \in [Cycle -> 0..RecursionLimit]
    /\ working \in [Cycle -> SUBSET Branch]
    /\ found \in [Cycle -> SUBSET Rules]
    /\ lastResult \in Cycle \cup {NoCycle}
    /\ coachRuns \in [Cycle -> 0..3]
    /\ coachRules \in [Cycle -> SUBSET Rules]
    /\ reco \in [Cycle -> Text]
    /\ ranked \in [Cycle -> Ranking]
    /\ verdict \in [Cycle -> Status \cup {"none"}]
    /\ issues \in [Cycle -> SUBSET Rules]
    /\ sent \in [Cycle -> Account]
    /\ saved \in [Cycle -> Account]
    /\ review \in [Cycle -> {"none", "lost", "pending", "approved", "rejected"}]
    /\ lastRun \in [cycle : Cycle \cup {NoCycle}, told : Account]

Init ==
    /\ pc = [c \in Cycle |-> "new"]
    /\ steps = [c \in Cycle |-> 0]
    /\ working = [c \in Cycle |-> {}]
    /\ found = [c \in Cycle |-> {}]
    /\ lastResult = NoCycle
    /\ coachRuns = [c \in Cycle |-> 0]
    /\ coachRules = [c \in Cycle |-> {}]
    /\ reco = [c \in Cycle |-> "none"]
    /\ ranked = [c \in Cycle |-> "none"]
    /\ verdict = [c \in Cycle |-> "none"]
    /\ issues = [c \in Cycle |-> {}]
    /\ sent = [c \in Cycle |-> Nothing]
    /\ saved = [c \in Cycle |-> Nothing]
    /\ review = [c \in Cycle |-> "none"]
    /\ lastRun = [cycle |-> NoCycle, told |-> Nothing]

----------------------------------------------------------------------------
\* (variant: nothing counts the supersteps)
StepUncounted(c, node) ==
    /\ pc' = [pc EXCEPT ![c] = node]
    /\ UNCHANGED steps

\* The next superstep, or GraphRecursionError.
Step(c, node) ==
    IF steps[c] < RecursionLimit
      THEN /\ pc' = [pc EXCEPT ![c] = node]
           /\ steps' = [steps EXCEPT ![c] = @ + 1]
      ELSE /\ pc' = [pc EXCEPT ![c] = "failed"]
           /\ UNCHANGED steps

\* initialize_state is the first superstep, the branches the second.
Start(c) ==
    /\ pc[c] = "new"
    /\ pc' = [pc EXCEPT ![c] = "branches"]
    /\ steps' = [steps EXCEPT ![c] = 2]
    /\ working' = [working EXCEPT ![c] = Branch]
    /\ UNCHANGED <<found, lastResult, coachVars, reco, verdict, issues, review,
                   outVars>>

\* The sales branch is a cycle of the orchestrator, which keeps its text.  A
\* branch that failed leaves none of the fields the guardrail reads, and
\* their defaults violate no rule.
BranchEnds(c, b) ==
    /\ pc[c] = "branches" /\ b \in working[c]
    /\ working' = [working EXCEPT ![c] = @ \ {b}]
    /\ \/ /\ b = "sales"
          /\ \E rules \in SUBSET Rules : found' = [found EXCEPT ![c] = rules]
          /\ lastResult' = c
       \/ UNCHANGED <<found, lastResult>>
    /\ UNCHANGED <<flowVars, coachVars, reco, verdict, issues, review, outVars>>

MergeOutputs(c) ==
    /\ pc[c] = "branches" /\ working[c] = {}
    /\ Step(c, "merge")
    /\ UNCHANGED <<salesVars, coachVars, reco, verdict, issues, review, outVars>>

ToCoach(c) ==
    /\ pc[c] = "merge"
    /\ Step(c, "coach")
    /\ UNCHANGED <<salesVars, coachVars, reco, verdict, issues, review, outVars>>

\* The coach ranks products afresh; it does not read guardrail_feedback, and
\* writes nothing of what the guardrail reads.  One that raises advises the
\* catalogue and leaves the products of the run before in the state.
Coach(c) ==
    /\ pc[c] = "coach"
    /\ coachRuns' = [coachRuns EXCEPT ![c] = IF @ < 3 THEN @ + 1 ELSE @]
    /\ \/ /\ reco' = [reco EXCEPT ![c] = "coach"]
          /\ ranked' = [ranked EXCEPT ![c] = "fresh"]
          /\ \E rules \in SUBSET Rules :
                coachRules' = [coachRules EXCEPT ![c] = rules]
       \/ /\ reco' = [reco EXCEPT ![c] = "generic"]
          /\ ranked' = [ranked EXCEPT ![c] = IF @ = "none" THEN @ ELSE "stale"]
          /\ coachRules' = [coachRules EXCEPT ![c] = {}]
    /\ Step(c, "guardrail")
    /\ UNCHANGED <<salesVars, verdict, issues, review, outVars>>

\* (variants: a verdict routed past the node that handles it, or to another's)
RouteUnblocked(st) ==
    CASE st = "APPROVE"  -> "notify"
      [] st = "REWRITE"  -> "coach"
      [] st = "ESCALATE" -> "human"
      [] st = "BLOCK"    -> "notify"
RouteAllToHuman(st) ==
    CASE st = "APPROVE"  -> "notify"
      [] st = "REWRITE"  -> "coach"
      [] st = "ESCALATE" -> "human"
      [] st = "BLOCK"    -> "human"

Route(st) ==
    CASE st = "APPROVE"  -> "notify"
      [] st = "REWRITE"  -> "coach"
      [] st = "ESCALATE" -> "human"
      [] st = "BLOCK"    -> "fallback"

\* The verdict is on the text of the sales branch; a guardrail that raises
\* approves, without issues.
Guardrail(c) ==
    /\ pc[c] = "guardrail"
    /\ \E broken \in {found[c], {}} :
          LET st == IF broken = {} THEN "APPROVE" ELSE ComputeStatus(broken)
          IN  /\ verdict' = [verdict EXCEPT ![c] = st]
              /\ issues' = [issues EXCEPT ![c] = broken]
              /\ Step(c, Route(st))
    /\ UNCHANGED <<salesVars, coachVars, reco, review, outVars>>

SafeFallback(c) ==
    /\ pc[c] = "fallback"
    /\ reco' = [reco EXCEPT ![c] = "fallback"]
    /\ Step(c, "notify")
    /\ UNCHANGED <<salesVars, coachVars, verdict, issues, review, outVars>>

\* The graph does not wait for the manager.
HumanValidation(c) ==
    /\ pc[c] = "human"
    /\ \E row \in {"pending", "lost"} : review' = [review EXCEPT ![c] = row]
    /\ Step(c, "notify")
    /\ UNCHANGED <<salesVars, coachVars, reco, verdict, issues, outVars>>

\* Only the recommendation depends on the verdict: the products and the issues
\* are broadcast whatever it is, and requires_human_validation is true of
\* ESCALATE and of BLOCK.  A broadcast that raises is logged; the cycle goes on.
NotifyFrontend(c) ==
    /\ pc[c] = "notify"
    /\ \/ sent' = [sent EXCEPT ![c] =
              [reco |-> IF verdict[c] = "BLOCK" THEN "fallback" ELSE reco[c],
               ranked |-> ranked[c], status |-> verdict[c], issues |-> issues[c],
               hitl |-> verdict[c] \in {"ESCALATE", "BLOCK"}]]
       \/ UNCHANGED sent
    /\ Step(c, "memory")
    /\ UNCHANGED <<salesVars, coachVars, reco, verdict, issues, review, saved,
                   lastRun>>

SaveMemory(c) ==
    /\ pc[c] = "memory"
    /\ \/ saved' = [saved EXCEPT ![c] =
              [Nothing EXCEPT !.reco = reco[c], !.status = verdict[c]]]
       \/ UNCHANGED saved
    /\ pc' = [pc EXCEPT ![c] = "returning"]
    /\ UNCHANGED <<steps, salesVars, coachVars, reco, verdict, issues, review,
                   sent, lastRun>>

\* The caller resumes.  /run keeps the recommendation and the products whatever
\* the verdict, /async the verdict alone; hitl_required is human_validation's.
Return(c) ==
    /\ pc[c] = "returning"
    /\ pc' = [pc EXCEPT ![c] = "done"]
    /\ \/ lastRun' = [cycle |-> c, told |->
              [Nothing EXCEPT !.reco = reco[c], !.ranked = ranked[c],
                              !.status = verdict[c], !.hitl = review[c] # "none"]]
       \/ lastRun' = [cycle |-> c, told |-> [Nothing EXCEPT !.status = verdict[c]]]
    /\ UNCHANGED <<steps, salesVars, coachVars, reco, verdict, issues, review,
                   sent, saved>>

\* wait_for expires, or the client or the process goes away.
Timeout(c) ==
    /\ pc[c] \in Node
    /\ pc' = [pc EXCEPT ![c] = "failed"]
    /\ UNCHANGED <<steps, salesVars, coachVars, reco, verdict, issues, review,
                   outVars>>

Validate(c, decision) ==
    /\ review[c] = "pending"
    /\ review' = [review EXCEPT ![c] = decision]
    /\ UNCHANGED <<flowVars, salesVars, coachVars, reco, verdict, issues, outVars>>

----------------------------------------------------------------------------
Runs(c) ==
    \/ \E b \in Branch : BranchEnds(c, b)
    \/ MergeOutputs(c) \/ ToCoach(c) \/ Coach(c) \/ Guardrail(c)
    \/ SafeFallback(c) \/ HumanValidation(c)
    \/ NotifyFrontend(c) \/ SaveMemory(c) \/ Return(c)

Next ==
    \E c \in Cycle :
       \/ Start(c)
       \/ Runs(c)
       \/ Timeout(c)
       \/ \E d \in {"approved", "rejected"} : Validate(c, d)

Spec == Init /\ [][Next]_vars

\* Every call a node makes returns; no manager and no timeout is owed.
FairSpec == Spec /\ \A c \in Cycle : WF_vars(Runs(c))

----------------------------------------------------------------------------
(* Properties.                                                             *)

\* What has been told of a cycle: on the WebSocket, in coach_interactions
\* (which feeds later RAG) and in the answer of /status.
Accounts(c) ==
    {sent[c], saved[c]} \cup {a \in {lastRun.told} : lastRun.cycle = c}

\* The three outputs are written by three nodes, each of which may fail, and
\* the first computes the safe text for itself: wherever a cycle is told of, it
\* is with one verdict and one recommendation, and never with the coach's
\* recommendation beside BLOCK.
OneAccount ==
    \A c \in Cycle : \A a, b \in Accounts(c) :
        /\ a.status # "none" /\ b.status # "none" => a.status = b.status
        /\ a.reco # "none" /\ b.reco # "none" => a.reco = b.reco
        /\ a.status = "BLOCK" => a.reco \in {"none", "fallback"}

\* The manager and the advisers see the same cycle: one with a review to decide
\* is told of as escalated everywhere, and its verdict is not given again after
\* the review was written.
ReviewedIsEscalated ==
    \A c \in Cycle : review[c] \in {"pending", "approved", "rejected"} =>
        /\ verdict[c] = "ESCALATE"
        /\ \A a \in Accounts(c) : a.status \in {"none", "ESCALATE"}

\* Two managers, or a retry: the first decision on a review stands.
FirstDecisionWins ==
    [][\A c \in Cycle : review[c] \in {"approved", "rejected"}
                           => review'[c] = review[c]]_vars

\* Every cycle ends before any timeout, even if the guardrail asks for a
\* rewrite at every pass.
CycleEnds == \A c \in Cycle : pc[c] \in Node ~> pc[c] \in {"done", "failed"}

\* "rewrite -> coach_agent (max 1 iteration)".
OneRewrite == \A c \in Cycle : coachRuns[c] <= 2

\* "Validates any coach recommendation before it reaches the frontend": what
\* is sent as approved violates no rule.
ApprovedIsVetted ==
    \A c \in Cycle : sent[c].reco = "coach" /\ sent[c].status = "APPROVE"
                        => coachRules[c] = {}

\* "BLOCK -> replace with safe fallback, do NOT send original": of a blocked
\* cycle nothing the coach or the sales branch made is kept or sent.
BlockedIsWithheld ==
    \A c \in Cycle : verdict[c] = "BLOCK" =>
        /\ \A a \in Accounts(c) : a.reco # "coach" /\ a.ranked = "none"
        /\ lastResult # c

\* "ESCALATE -> route to HITL": whoever is told that a manager decides, one has
\* a review to decide.
AnnouncedIsReviewed ==
    \A c \in Cycle : \A a \in Accounts(c) :
        a.hitl => review[c] \in {"pending", "approved", "rejected"}
=============================================================================
