---------------------------- MODULE DecisionRules ----------------------------
(***************************************************************************)
(* The arithmetic of the stock figures (compute_inventory_metrics,         *)
(* classify_risk) and the rules of the decision agent: the constraints     *)
(* checked before a decision, the decision of the rules, and the critique  *)
(* a decision goes through.                                                *)
(*                                                                         *)
(* A product at a store is a record                                        *)
(*   stock, monthly   units on hand, demand expected over 30 days          *)
(*   lead, spread     lead time in days and its deviation                  *)
(*   moq, cost        least order, cost of a unit                          *)
(*   ending           end_of_life or discontinued                          *)
(*   source           where the forecast comes from                        *)
(*   open, crowded    a supplier can deliver; the shop is over 90% full    *)
(*   flagged          the analysis asks for a human (override ESCALATE)    *)
(* Divisions are multiplied out: a daily demand is Rate / 90000.           *)
(***************************************************************************)
EXTENDS Integers, ContextSignals

CONSTANTS Ample,          \* days of stock the critique finds too many to order (90)
          ApprovalCost,   \* cost above which the rules ask for an approval (50 000)
          CritiqueCost,   \* cost above which the critique demands one (100 000)
          BudgetCap       \* INVENTORY_BUDGET_CAP_DT

ASSUME CostsAssumption ==
    /\ Ample \in Nat /\ ApprovalCost \in Nat /\ CritiqueCost \in Nat /\ BudgetCap \in Nat
    /\ ApprovalCost <= CritiqueCost

Product == [stock : Nat, monthly : Nat, lead : Nat, spread : Nat, moq : Nat, cost : Nat,
            ending : BOOLEAN, source : {"demand_sensing_db", "other"},
            open : BOOLEAN, crowded : BOOLEAN, flagged : BOOLEAN]
\* "OTHER" is any other word a language model may answer.
Decision == [action : {"ORDER", "EXPEDITE", "HOLD", "MONITOR", "OTHER"}, qty : Nat,
             escalate : BOOLEAN, by : {"rules", "constraints", "llm"}]

Orders == {"ORDER", "EXPEDITE"}
Nothing == 0   \* no quantity

-----------------------------------------------------------------------------
(* compute_inventory_metrics and classify_risk.                            *)

\* The demand once an uplift of u percent over w days is spread over the month.
Rate(c, u, w) ==
    LET uplifted == c.monthly * (3000 + u * Clamp(w, 1, 30))
    IN  IF u # 0 /\ uplifted > 0 THEN uplifted ELSE 3000 * c.monthly

\* The stock lasts less (more) than n days at the rate r; without demand it
\* lasts 999 days, or none at all when there is none.
LastsLess(c, r, n) == IF r > 0 THEN 90000 * c.stock < n * r ELSE c.stock = 0 /\ 0 < n
LastsMore(c, r, n) == IF r > 0 THEN 90000 * c.stock > n * r ELSE c.stock > 0 /\ 999 > n

RiskAt(c, r) ==
    IF LastsLess(c, r, c.lead) THEN "CRITICAL"
    ELSE IF LastsLess(c, r, c.lead + 2 * c.spread) THEN "HIGH"
    ELSE IF LastsLess([c EXCEPT !.stock = 2 * @], r, 5 * c.lead) THEN "MEDIUM"
    ELSE "LOW"

\* A mistake: the risk of the analysis kept beside the adjusted figures.
RiskBefore(c, r) == RiskAt(c, 3000 * c.monthly)

\* classify_risk; the callers give it neither stock_min nor stock_max.
Risk(c, r) == RiskAt(c, r)

\* The economic order quantity, rounded (annual demand, 50 an order, 25% holding).
Eoq(c, r) ==
    LET unit == IF c.cost > 0 THEN c.cost ELSE 1
        x    == (292 * r) \div (45 * unit)
        Rounds(n) == /\ x < (2 * n + 1) * (2 * n + 1)
                     /\ n = 0 \/ (2 * n - 1) * (2 * n - 1) <= x
    IN  IF r > 0 /\ \E n \in 0..x : Rounds(n) THEN CHOOSE n \in 0..x : Rounds(n) ELSE 0

\* The quantity the formula proposes. The decision agent recomputes it without
\* the supplier's lot, which only the analysis rounds up to.
FormulaQty(c, r) == IF Eoq(c, r) < c.moq THEN c.moq ELSE Eoq(c, r)

Cost(c, r) == FormulaQty(c, r) * c.cost

-----------------------------------------------------------------------------
(* The uplift the decision works with. analysis_report carries the source  *)
(* of the forecast inside its "forecast" part; the agent reads it at the   *)
(* top of the report, where it is never set.                               *)

Overlap == {"promotions", "weather", "events"}

SourceRead(c) == "unknown"

EffectiveUplift(c, context) ==
    IF SourceRead(c) = "demand_sensing_db" /\ context.dominant \in Overlap THEN 0
    ELSE context.uplift

AdjustedRate(c, context) == Rate(c, EffectiveUplift(c, context), context.window)

-----------------------------------------------------------------------------
(* The constraints, the rules and the critique.                            *)

\* _constraints_check_node: no decision is asked for.
Blocked(c, r) ==
    \/ Cost(c, r) > BudgetCap /\ FormulaQty(c, r) > 0
    \/ c.ending /\ Risk(c, r) = "CRITICAL"

BlockedDecision ==
    [action |-> "HOLD", qty |-> Nothing, escalate |-> TRUE, by |-> "constraints"]

RuleAction(c, r) ==
    IF Risk(c, r) = "CRITICAL" /\ LastsLess(c, r, c.lead) THEN "EXPEDITE"
    ELSE IF Risk(c, r) \in {"CRITICAL", "HIGH"} THEN "ORDER"
    ELSE IF Risk(c, r) = "MEDIUM" THEN "MONITOR" ELSE "HOLD"

\* An analysis that asked for a human (override ESCALATE) also escalates.
RuleEscalates(c, r) ==
    \/ RuleAction(c, r) \in Orders /\ (Cost(c, r) > ApprovalCost \/ c.crowded)
    \/ c.ending /\ Risk(c, r) = "CRITICAL"
    \/ c.flagged
    \/ ~c.open

\* _rule_based_decide
Rule(c, r) ==
    [action   |-> RuleAction(c, r),
     qty      |-> IF RuleAction(c, r) \in Orders THEN FormulaQty(c, r) ELSE Nothing,
     escalate |-> RuleEscalates(c, r),
     by       |-> "rules"]

\* _self_critique, in the two checks that send a decision back.
Coherent(c, r, d) ==
    /\ ~(d.action \in Orders /\ LastsMore(c, r, Ample))
    /\ ~(d.action = "HOLD" /\ LastsLess(c, r, c.lead))

Affordable(c, r, d) == ~(d.action \in Orders /\ Cost(c, r) > CritiqueCost /\ ~d.escalate)

PassesCritique(c, r, d) == Coherent(c, r, d) /\ Affordable(c, r, d)

\* The stock lasts more than Ample days, and less than the lead time and two of
\* its deviations.
AmpleButLate(c, r) == LastsMore(c, r, Ample) /\ LastsLess(c, r, c.lead + 2 * c.spread)

\* create_decide_node: the decisions a product may end with, over the answers
\* a language model may give. A draft that passes stands; one that does not is
\* replaced by a revision, whatever it says, or by the rules.
Decisions(c, r, useLlm, Answers) ==
    LET rule    == Rule(c, r)
        drafts  == Answers \cup {rule}
    IN  IF ~useLlm THEN {rule}
        ELSE {d \in drafts : PassesCritique(c, r, d)}
             \cup (IF \E d \in drafts : ~PassesCritique(c, r, d) THEN drafts ELSE {})

\* A mistake: the graph goes to decide whatever constraints_check said.
AlwaysDecide(c, r, useLlm, Answers) == Decisions(c, r, useLlm, Answers)

\* constraints_check, then decide unless it blocked.
Outcomes(c, r, useLlm, Answers) ==
    IF Blocked(c, r) THEN {BlockedDecision} ELSE Decisions(c, r, useLlm, Answers)
=============================================================================
