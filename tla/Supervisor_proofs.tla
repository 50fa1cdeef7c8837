------------------------- MODULE Supervisor_proofs -------------------------
(***************************************************************************)
(* Proofs about Supervisor, for any number of cycles, any rules and any    *)
(* recursion limit.                                                        *)
(***************************************************************************)
EXTENDS Supervisor, TLAPS

(***************************************************************************)
(* What is known of a cycle at each node.  Nothing is told and no review   *)
(* written while the verdict or the recommendation may still change; what  *)
(* is told later agrees with both, and a cycle that failed keeps what it   *)
(* had already told.                                                       *)
(***************************************************************************)
Silent(c) ==
    pc[c] \in {"new", "branches", "merge", "coach", "guardrail", "human", "fallback"}
      => sent[c] = Nothing /\ saved[c] = Nothing /\ review[c] = "none"
Routed(c) ==
    /\ pc[c] = "human" => verdict[c] = "ESCALATE"
    /\ pc[c] = "fallback" => verdict[c] = "BLOCK"
    /\ pc[c] \in {"notify", "memory", "returning", "done"} =>
          (verdict[c] = "BLOCK" => reco[c] = "fallback")
Agrees(c, a) ==
    /\ a.status \in {"none", verdict[c]}
    /\ a.reco \in {"none", reco[c]}
    /\ a.status = "BLOCK" => a.reco \in {"none", "fallback"}
Told(c) ==
    /\ Agrees(c, sent[c]) /\ Agrees(c, saved[c])
    /\ lastRun.cycle = c => pc[c] = "done" /\ Agrees(c, lastRun.told)
    /\ review[c] # "none" => verdict[c] = "ESCALATE"

CycleInv(c) == Silent(c) /\ Routed(c) /\ Told(c)

IInv == TypeOK /\ \A c \in Cycle : CycleInv(c)

USE RulesAssumption, LimitAssumption
    DEF RulesAssumption, LimitAssumption

----------------------------------------------------------------------------
\* ComputeStatus is the gravest severity.
LEMMA Gravest ==
  ASSUME NEW rules \in SUBSET Rules
  PROVE  /\ ComputeStatus(rules) \in Status
         /\ \A r \in rules : SEVERITY_RANK[GUARDRAIL_SEVERITY[r]]
                                <= SEVERITY_RANK[ComputeStatus(rules)]
<1> DEFINE S == {GUARDRAIL_SEVERITY[r] : r \in rules}
           Top(st) == \A r \in rules : SEVERITY_RANK[st] >= SEVERITY_RANK[GUARDRAIL_SEVERITY[r]]
<1>1. \A r \in rules : GUARDRAIL_SEVERITY[r] \in {"BLOCK", "ESCALATE", "REWRITE"}
  BY DEF GUARDRAIL_SEVERITY
<1>2. CASE rules = {}
  BY <1>2 DEF ComputeStatus, Status
<1>3. CASE rules # {}
  <2>1. S # {} /\ S \subseteq {"BLOCK", "ESCALATE", "REWRITE"}
    BY <1>1, <1>3
  <2>2. /\ SEVERITY_RANK["BLOCK"] = 3 /\ SEVERITY_RANK["ESCALATE"] = 2
        /\ SEVERITY_RANK["REWRITE"] = 1
    BY DEF SEVERITY_RANK
  <2>3. \E st \in S : Top(st)
    <3>1. CASE "BLOCK" \in S
      BY <1>1, <2>2, <3>1
    <3>2. CASE "BLOCK" \notin S /\ "ESCALATE" \in S
      <4>1. \A r \in rules : GUARDRAIL_SEVERITY[r] \in {"ESCALATE", "REWRITE"}
        BY <1>1, <3>2
      <4> QED BY <2>2, <3>2, <4>1
    <3>3. CASE "BLOCK" \notin S /\ "ESCALATE" \notin S
      <4>1. \A r \in rules : GUARDRAIL_SEVERITY[r] = "REWRITE"
        BY <1>1, <3>3
      <4> QED BY <2>1, <2>2, <4>1
    <3> QED BY <3>1, <3>2, <3>3
  <2>4. ComputeStatus(rules) = CHOOSE st \in S : Top(st)
    BY <1>3 DEF ComputeStatus
  <2>5. ComputeStatus(rules) \in S /\ Top(ComputeStatus(rules))
    BY <2>3, <2>4
  <2>6. \A st \in S : SEVERITY_RANK[st] \in Int
    BY <2>1, <2>2
  <2> QED BY <2>1, <2>5, <2>6 DEF Status
<1> QED BY <1>2, <1>3

LEMMA NothingTyped == Nothing \in Account
  BY DEF Nothing, Account, Text, Ranking

LEMMA IInvInit == Init => IInv
<1> SUFFICES ASSUME Init PROVE IInv
  OBVIOUS
<1>1. TypeOK
  BY NothingTyped DEF Init, TypeOK, Node, Text, Ranking, Status
<1>2. ASSUME NEW c \in Cycle PROVE CycleInv(c)
  BY DEF Init, CycleInv, Silent, Routed, Told, Agrees, Nothing
<1> QED BY <1>1, <1>2 DEF IInv

----------------------------------------------------------------------------
\* A step of a cycle leaves the others alone, but for _last_run.
At(c) == <<pc[c], reco[c], verdict[c], sent[c], saved[c], review[c]>>

LEMMA Others ==
  ASSUME NEW c \in Cycle, CycleInv(c), UNCHANGED At(c),
         lastRun'.cycle = c => lastRun' = lastRun
  PROVE  CycleInv(c)'
  BY DEF CycleInv, Silent, Routed, Told, Agrees, At

\* Where a superstep can leave its cycle.
LEMMA StepTyped ==
  ASSUME TypeOK, NEW c \in Cycle, NEW node \in Node, Step(c, node)
  PROVE  /\ pc' \in [Cycle -> Node \cup {"new", "returning", "done", "failed"}]
         /\ steps' \in [Cycle -> 0..RecursionLimit]
         /\ pc'[c] \in {node, "failed"}
         /\ \A d \in Cycle : d # c => pc'[d] = pc[d]
<1>1. CASE steps[c] < RecursionLimit
  <2>1. steps[c] + 1 \in 0..RecursionLimit
    BY <1>1 DEF TypeOK
  <2> QED BY <1>1, <2>1 DEF TypeOK, Step
<1>2. CASE ~(steps[c] < RecursionLimit)
  BY <1>2 DEF TypeOK, Step
<1> QED BY <1>1, <1>2

----------------------------------------------------------------------------
\* One lemma per node.  TypeOK' and CycleInv(c)' are the cycle's own; Others
\* is the rest.
LEMMA StartIInv ==
  ASSUME IInv, NEW c \in Cycle, Start(c)
  PROVE  IInv'
<1> USE DEF coachVars, outVars
<1>1. TypeOK'
  BY DEF IInv, TypeOK, Start, Node
<1>2. CycleInv(c)'
  BY DEF IInv, TypeOK, CycleInv, Silent, Routed, Told, Agrees, Start
<1>3. ASSUME NEW d \in Cycle, d # c PROVE CycleInv(d)'
  BY <1>3, Others DEF IInv, TypeOK, Start, At
<1> QED BY <1>1, <1>2, <1>3 DEF IInv

LEMMA BranchEndsIInv ==
  ASSUME IInv, NEW c \in Cycle, NEW b \in Branch, BranchEnds(c, b)
  PROVE  IInv'
<1> USE DEF flowVars, coachVars, outVars
<1>1. found' \in [Cycle -> SUBSET Rules] /\ lastResult' \in Cycle \cup {NoCycle}
  <2>1. CASE UNCHANGED <<found, lastResult>>
    BY <2>1 DEF IInv, TypeOK
  <2>2. CASE /\ \E rules \in SUBSET Rules : found' = [found EXCEPT ![c] = rules]
             /\ lastResult' = c
    BY <2>2 DEF IInv, TypeOK
  <2> QED BY <2>1, <2>2 DEF BranchEnds
<1>2. TypeOK'
  BY <1>1 DEF IInv, TypeOK, BranchEnds
<1>3. ASSUME NEW d \in Cycle PROVE CycleInv(d)'
  BY <1>3, Others DEF IInv, BranchEnds, At
<1> QED BY <1>2, <1>3 DEF IInv

LEMMA MergeOutputsIInv ==
  ASSUME IInv, NEW c \in Cycle, MergeOutputs(c) \/ ToCoach(c)
  PROVE  IInv'
<1>1. \E node \in {"merge", "coach"} : Step(c, node) /\ node \in Node
  BY DEF MergeOutputs, ToCoach, Node
<1>2. /\ pc' \in [Cycle -> Node \cup {"new", "returning", "done", "failed"}]
      /\ steps' \in [Cycle -> 0..RecursionLimit]
      /\ pc'[c] \in {"merge", "coach", "failed"}
      /\ \A d \in Cycle : d # c => pc'[d] = pc[d]
  BY <1>1, StepTyped DEF IInv
<1>3. /\ pc[c] \in {"branches", "merge"}
      /\ UNCHANGED <<working, found, lastResult, coachRuns, coachRules, ranked,
                     reco, verdict, issues, review, sent, saved, lastRun>>
  BY DEF MergeOutputs, ToCoach, salesVars, coachVars, outVars
<1>4. TypeOK'
  BY <1>2, <1>3 DEF IInv, TypeOK
<1>5. CycleInv(c)'
  BY <1>2, <1>3 DEF IInv, CycleInv, Silent, Routed, Told, Agrees
<1>6. ASSUME NEW d \in Cycle, d # c PROVE CycleInv(d)'
  BY <1>2, <1>3, <1>6, Others DEF IInv, At
<1> QED BY <1>4, <1>5, <1>6 DEF IInv

LEMMA CoachIInv ==
  ASSUME IInv, NEW c \in Cycle, Coach(c)
  PROVE  IInv'
<1> USE DEF salesVars, outVars
<1>1. /\ pc' \in [Cycle -> Node \cup {"new", "returning", "done", "failed"}]
      /\ steps' \in [Cycle -> 0..RecursionLimit]
      /\ pc'[c] \in {"guardrail", "failed"}
      /\ \A d \in Cycle : d # c => pc'[d] = pc[d]
  BY StepTyped DEF IInv, Coach, Node
<1>2. coachRuns' \in [Cycle -> 0..3]
  BY DEF IInv, TypeOK, Coach
<1>3. /\ coachRules' \in [Cycle -> SUBSET Rules]
      /\ reco' \in [Cycle -> Text] /\ ranked' \in [Cycle -> Ranking]
      /\ \A d \in Cycle : d # c => reco'[d] = reco[d]
  <2>1. CASE /\ reco' = [reco EXCEPT ![c] = "coach"]
             /\ ranked' = [ranked EXCEPT ![c] = "fresh"]
             /\ \E rules \in SUBSET Rules : coachRules' = [coachRules EXCEPT ![c] = rules]
    BY <2>1 DEF IInv, TypeOK, Text, Ranking
  <2>2. CASE /\ reco' = [reco EXCEPT ![c] = "generic"]
             /\ ranked' = [ranked EXCEPT ![c] = IF @ = "none" THEN @ ELSE "stale"]
             /\ coachRules' = [coachRules EXCEPT ![c] = {}]
    BY <2>2 DEF IInv, TypeOK, Text, Ranking
  <2> QED BY <2>1, <2>2 DEF Coach
<1>4. TypeOK'
  BY <1>1, <1>2, <1>3 DEF IInv, TypeOK, Coach
<1>5. CycleInv(c)'
  BY <1>1 DEF IInv, CycleInv, Silent, Routed, Told, Agrees, Coach, Nothing
<1>6. ASSUME NEW d \in Cycle, d # c PROVE CycleInv(d)'
  BY <1>1, <1>3, <1>6, Others DEF IInv, Coach, At
<1> QED BY <1>4, <1>5, <1>6 DEF IInv

LEMMA GuardrailIInv ==
  ASSUME IInv, NEW c \in Cycle, Guardrail(c)
  PROVE  IInv'
<1> USE DEF salesVars, coachVars, outVars
<1> DEFINE Judged(broken) == IF broken = {} THEN "APPROVE" ELSE ComputeStatus(broken)
<1>1. PICK broken \in {found[c], {}} :
         /\ verdict' = [verdict EXCEPT ![c] = Judged(broken)]
         /\ issues' = [issues EXCEPT ![c] = broken]
         /\ Step(c, Route(Judged(broken)))
  BY DEF Guardrail
<1> DEFINE st == Judged(broken)
<1>2. broken \in SUBSET Rules /\ st \in Status
  <2>1. broken \in SUBSET Rules
    BY <1>1 DEF IInv, TypeOK
  <2> QED BY <2>1, Gravest DEF Status
<1> HIDE DEF st
<1>3. /\ Route(st) \in Node
      /\ Route(st) = "human" => st = "ESCALATE"
      /\ Route(st) = "fallback" => st = "BLOCK"
      /\ Route(st) = "notify" => st # "BLOCK"
      /\ Route(st) \in {"notify", "coach", "human", "fallback"}
  BY <1>2 DEF Route, Status, Node
<1>4. /\ pc' \in [Cycle -> Node \cup {"new", "returning", "done", "failed"}]
      /\ steps' \in [Cycle -> 0..RecursionLimit]
      /\ pc'[c] \in {Route(st), "failed"}
      /\ \A d \in Cycle : d # c => pc'[d] = pc[d]
  BY <1>1, <1>3, StepTyped DEF IInv, st
<1>5. /\ pc[c] = "guardrail" /\ verdict'[c] = st
      /\ \A d \in Cycle : d # c => verdict'[d] = verdict[d]
      /\ UNCHANGED <<working, found, lastResult, coachRuns, coachRules, ranked,
                     reco, review, sent, saved, lastRun>>
  BY <1>1 DEF Guardrail, IInv, TypeOK, st
<1>6. TypeOK'
  <2>1. verdict' \in [Cycle -> Status \cup {"none"}] /\ issues' \in [Cycle -> SUBSET Rules]
    BY <1>1, <1>2 DEF IInv, TypeOK, st
  <2> QED BY <1>4, <1>5, <2>1 DEF IInv, TypeOK
<1>7. CycleInv(c)'
  <2>1. sent[c] = Nothing /\ saved[c] = Nothing /\ review[c] = "none"
        /\ lastRun.cycle # c
    BY <1>5 DEF IInv, CycleInv, Silent, Told
  <2>2. Silent(c)' /\ Routed(c)'
    BY <1>3, <1>4, <1>5, <2>1 DEF Silent, Routed
  <2>3. Told(c)'
    BY <1>5, <2>1 DEF Told, Agrees, Nothing
  <2> QED BY <2>2, <2>3 DEF CycleInv
<1>8. ASSUME NEW d \in Cycle, d # c PROVE CycleInv(d)'
  BY <1>4, <1>5, <1>8, Others DEF IInv, At
<1> QED BY <1>6, <1>7, <1>8 DEF IInv

LEMMA RouteNodesIInv ==
  ASSUME IInv, NEW c \in Cycle, SafeFallback(c) \/ HumanValidation(c)
  PROVE  IInv'
<1> USE DEF salesVars, coachVars, outVars
<1>1. Step(c, "notify") /\ "notify" \in Node
  BY DEF SafeFallback, HumanValidation, Node
<1>2. /\ pc' \in [Cycle -> Node \cup {"new", "returning", "done", "failed"}]
      /\ steps' \in [Cycle -> 0..RecursionLimit]
      /\ pc'[c] \in {"notify", "failed"}
      /\ \A d \in Cycle : d # c => pc'[d] = pc[d]
  BY <1>1, StepTyped DEF IInv
<1>3. CASE SafeFallback(c)
  <2>1. TypeOK'
    BY <1>2, <1>3 DEF IInv, TypeOK, SafeFallback, Text
  <2>2. CycleInv(c)'
    BY <1>2, <1>3 DEF IInv, TypeOK, CycleInv, Silent, Routed, Told, Agrees,
       SafeFallback, Nothing
  <2>3. ASSUME NEW d \in Cycle, d # c PROVE CycleInv(d)'
    BY <1>2, <1>3, <2>3, Others DEF IInv, TypeOK, SafeFallback, At
  <2> QED BY <2>1, <2>2, <2>3 DEF IInv
<1>4. CASE HumanValidation(c)
  <2>1. TypeOK'
    BY <1>2, <1>4 DEF IInv, TypeOK, HumanValidation
  <2>2. CycleInv(c)'
    BY <1>2, <1>4 DEF IInv, TypeOK, CycleInv, Silent, Routed, Told, Agrees,
       HumanValidation, Nothing
  <2>3. ASSUME NEW d \in Cycle, d # c PROVE CycleInv(d)'
    BY <1>2, <1>4, <2>3, Others DEF IInv, TypeOK, HumanValidation, At
  <2> QED BY <2>1, <2>2, <2>3 DEF IInv
<1> QED BY <1>3, <1>4

LEMMA NotifyFrontendIInv ==
  ASSUME IInv, NEW c \in Cycle, NotifyFrontend(c)
  PROVE  IInv'
<1> USE DEF salesVars, coachVars
<1>1. /\ pc' \in [Cycle -> Node \cup {"new", "returning", "done", "failed"}]
      /\ steps' \in [Cycle -> 0..RecursionLimit]
      /\ pc'[c] \in {"memory", "failed"}
      /\ \A d \in Cycle : d # c => pc'[d] = pc[d]
  BY StepTyped DEF IInv, NotifyFrontend, Node
<1> DEFINE told == [reco |-> IF verdict[c] = "BLOCK" THEN "fallback" ELSE reco[c],
                    ranked |-> ranked[c], status |-> verdict[c], issues |-> issues[c],
                    hitl |-> verdict[c] \in {"ESCALATE", "BLOCK"}]
<1>2. told \in Account
  BY DEF IInv, TypeOK, Account, Text
<1>3. told.status = verdict[c] /\ told.reco = reco[c]
      /\ (told.status = "BLOCK" => told.reco = "fallback")
  BY DEF IInv, CycleInv, Routed, NotifyFrontend
<1>4. sent' = [sent EXCEPT ![c] = told] \/ sent' = sent
  BY DEF NotifyFrontend
<1> HIDE DEF told
<1>5. /\ sent' \in [Cycle -> Account] /\ sent'[c] \in {sent[c], told}
      /\ \A d \in Cycle : d # c => sent'[d] = sent[d]
  BY <1>2, <1>4 DEF IInv, TypeOK
<1>6. TypeOK'
  BY <1>1, <1>5 DEF IInv, TypeOK, NotifyFrontend
<1>7. CycleInv(c)'
  BY <1>1, <1>3, <1>5 DEF IInv, CycleInv, Silent, Routed, Told, Agrees,
     NotifyFrontend
<1>8. ASSUME NEW d \in Cycle, d # c PROVE CycleInv(d)'
  BY <1>1, <1>5, <1>8, Others DEF IInv, NotifyFrontend, At
<1> QED BY <1>6, <1>7, <1>8 DEF IInv

LEMMA SaveMemoryIInv ==
  ASSUME IInv, NEW c \in Cycle, SaveMemory(c)
  PROVE  IInv'
<1> USE DEF salesVars, coachVars
<1> DEFINE told == [Nothing EXCEPT !.reco = reco[c], !.status = verdict[c]]
<1>1. /\ told \in Account /\ told.reco = reco[c] /\ told.status = verdict[c]
  BY DEF IInv, TypeOK, Account, Nothing, Ranking
<1>2. saved' = [saved EXCEPT ![c] = told] \/ saved' = saved
  BY DEF SaveMemory
<1> HIDE DEF told
<1>3. /\ saved' \in [Cycle -> Account] /\ saved'[c] \in {saved[c], told}
      /\ \A d \in Cycle : d # c => saved'[d] = saved[d]
  BY <1>1, <1>2 DEF IInv, TypeOK
<1>4. /\ pc' \in [Cycle -> Node \cup {"new", "returning", "done", "failed"}]
      /\ pc[c] = "memory" /\ pc'[c] = "returning"
      /\ \A d \in Cycle : d # c => pc'[d] = pc[d]
  BY DEF IInv, TypeOK, SaveMemory
<1>5. TypeOK'
  BY <1>3, <1>4 DEF IInv, TypeOK, SaveMemory
<1>6. CycleInv(c)'
  BY <1>1, <1>3, <1>4 DEF IInv, CycleInv, Silent, Routed, Told, Agrees, SaveMemory
<1>7. ASSUME NEW d \in Cycle, d # c PROVE CycleInv(d)'
  BY <1>3, <1>4, <1>7, Others DEF IInv, SaveMemory, At
<1> QED BY <1>5, <1>6, <1>7 DEF IInv

LEMMA ReturnIInv ==
  ASSUME IInv, NEW c \in Cycle, Return(c)
  PROVE  IInv'
<1> USE DEF salesVars, coachVars
<1>1. /\ pc' \in [Cycle -> Node \cup {"new", "returning", "done", "failed"}]
      /\ pc[c] = "returning" /\ pc'[c] = "done"
      /\ \A d \in Cycle : d # c => pc'[d] = pc[d]
  BY DEF IInv, TypeOK, Return
<1>2. /\ lastRun' \in [cycle : Cycle \cup {NoCycle}, told : Account]
      /\ lastRun'.cycle = c
      /\ lastRun'.told.status = verdict[c] /\ lastRun'.told.reco \in {"none", reco[c]}
  <2> DEFINE run == [Nothing EXCEPT !.reco = reco[c], !.ranked = ranked[c],
                                   !.status = verdict[c], !.hitl = review[c] # "none"]
             async == [Nothing EXCEPT !.status = verdict[c]]
  <2>1. /\ run \in Account /\ run.reco = reco[c] /\ run.status = verdict[c]
        /\ async \in Account /\ async.reco = "none" /\ async.status = verdict[c]
    BY DEF IInv, TypeOK, Account, Nothing, Ranking, Text
  <2>2. \E a \in {run, async} : lastRun' = [cycle |-> c, told |-> a]
    BY DEF Return
  <2> HIDE DEF run, async
  <2> QED BY <2>1, <2>2
<1>3. TypeOK'
  BY <1>1, <1>2 DEF IInv, TypeOK, Return
<1>4. CycleInv(c)'
  BY <1>1, <1>2 DEF IInv, CycleInv, Silent, Routed, Told, Agrees, Return
<1>5. ASSUME NEW d \in Cycle, d # c PROVE CycleInv(d)'
  BY <1>1, <1>2, <1>5, Others DEF IInv, Return, At
<1> QED BY <1>3, <1>4, <1>5 DEF IInv

LEMMA TimeoutIInv ==
  ASSUME IInv, NEW c \in Cycle, Timeout(c)
  PROVE  IInv'
<1> USE DEF salesVars, coachVars, outVars
<1>1. TypeOK'
  BY DEF IInv, TypeOK, Timeout
<1>2. CycleInv(c)'
  BY DEF IInv, TypeOK, CycleInv, Silent, Routed, Told, Agrees, Timeout, Node
<1>3. ASSUME NEW d \in Cycle, d # c PROVE CycleInv(d)'
  BY <1>3, Others DEF IInv, TypeOK, Timeout, At
<1> QED BY <1>1, <1>2, <1>3 DEF IInv

LEMMA ValidateIInv ==
  ASSUME IInv, NEW c \in Cycle, NEW decision \in {"approved", "rejected"},
         Validate(c, decision)
  PROVE  IInv'
<1> USE DEF flowVars, salesVars, coachVars, outVars
<1>1. TypeOK'
  BY DEF IInv, TypeOK, Validate
<1>2. CycleInv(c)'
  BY DEF IInv, TypeOK, CycleInv, Silent, Routed, Told, Agrees, Validate
<1>3. ASSUME NEW d \in Cycle, d # c PROVE CycleInv(d)'
  BY <1>3, Others DEF IInv, TypeOK, Validate, At
<1> QED BY <1>1, <1>2, <1>3 DEF IInv

LEMMA NextIInv == IInv /\ [Next]_vars => IInv'
<1>1. IInv /\ UNCHANGED vars => IInv'
  <2> SUFFICES ASSUME IInv, UNCHANGED vars PROVE IInv'
    OBVIOUS
  <2>1. TypeOK'
    BY DEF IInv, TypeOK, vars, flowVars, salesVars, coachVars, outVars
  <2>2. ASSUME NEW c \in Cycle PROVE CycleInv(c)'
    BY Others DEF IInv, At, vars, flowVars, outVars
  <2> QED BY <2>1, <2>2 DEF IInv
<1> QED BY <1>1, StartIInv, BranchEndsIInv, MergeOutputsIInv, CoachIInv,
           GuardrailIInv, RouteNodesIInv, NotifyFrontendIInv, SaveMemoryIInv,
           ReturnIInv, TimeoutIInv, ValidateIInv DEF Next, Runs

THEOREM Invariance == Spec => []IInv
  BY IInvInit, NextIInv, PTL DEF Spec

----------------------------------------------------------------------------
\* Every variable keeps its type.
THEOREM TypeCorrect == Spec => []TypeOK
  BY Invariance, PTL DEF IInv

\* The three outputs tell of a cycle with one verdict and one recommendation,
\* the safe one under BLOCK, however many cycles run, whatever fails and
\* wherever a timeout cuts them.
THEOREM OneAccountAlways == Spec => []OneAccount
<1>1. ASSUME IInv, NEW c \in Cycle, NEW a \in Accounts(c) PROVE Agrees(c, a)
  BY <1>1 DEF IInv, CycleInv, Told, Accounts
<1>2. IInv => OneAccount
  BY <1>1 DEF Agrees, OneAccount
<1> QED BY <1>2, Invariance, PTL

\* A cycle with a review to decide is told of as escalated everywhere.
THEOREM ReviewedAlwaysEscalated == Spec => []ReviewedIsEscalated
<1>1. ASSUME IInv, NEW c \in Cycle, NEW a \in Accounts(c) PROVE Agrees(c, a)
  BY <1>1 DEF IInv, CycleInv, Told, Accounts
<1>2. IInv => ReviewedIsEscalated
  BY <1>1 DEF IInv, CycleInv, Told, Agrees, ReviewedIsEscalated
<1> QED BY <1>2, Invariance, PTL

\* The first decision on a review stands.
THEOREM FirstDecisionAlwaysWins == Spec => FirstDecisionWins
<1>1. ASSUME IInv, NEW c \in Cycle, NEW d \in Cycle,
             review[c] \in {"approved", "rejected"},
             \/ Start(d) \/ Runs(d) \/ Timeout(d)
             \/ \E v \in {"approved", "rejected"} : Validate(d, v)
      PROVE  review'[c] = review[c]
  <2>1. CASE HumanValidation(d)
    <3>1. pc[d] = "human" /\ CycleInv(d)
      BY <2>1, <1>1 DEF HumanValidation, IInv
    <3>2. review[d] = "none"
      BY <3>1 DEF CycleInv, Silent
    <3> QED BY <1>1, <2>1, <3>2 DEF HumanValidation, IInv, TypeOK
  <2>2. ASSUME NEW v \in {"approved", "rejected"}, Validate(d, v)
        PROVE  review'[c] = review[c]
    BY <1>1, <2>2 DEF Validate, IInv, TypeOK
  <2>3. CASE Start(d) \/ Timeout(d) \/ (Runs(d) /\ ~HumanValidation(d))
    BY <2>3 DEF Start, Timeout, Runs, BranchEnds, MergeOutputs, ToCoach, Coach,
       Guardrail, SafeFallback, NotifyFrontend, SaveMemory, Return,
       flowVars, salesVars, coachVars, outVars
  <2> QED BY <1>1, <2>1, <2>2, <2>3
<1>2. IInv /\ [Next]_vars =>
        [\A c \in Cycle : review[c] \in {"approved", "rejected"}
                              => review'[c] = review[c]]_vars
  BY <1>1 DEF Next
<1> QED BY <1>2, Invariance, PTL DEF Spec, FirstDecisionWins

=============================================================================
