----------------------- MODULE InventoryPipeline_proofs -----------------------
(***************************************************************************)
(* Proofs about the inventory pipeline: the figures and the decisions are  *)
(* what their types say, no recommendation is stored against the           *)
(* constraints, and the critique refuses a decision of the rules in one    *)
(* case only, a stock that is both ample and under the lead time and two   *)
(* of its deviations.                                                      *)
(***************************************************************************)
EXTENDS InventoryPipeline, FiniteSetTheorems, TLAPS

-----------------------------------------------------------------------------
(* The figures.                                                            *)

LEMMA ClampInt == \A n, low, high \in Int : Clamp(n, low, high) \in Int
BY DEF Clamp

LEMMA RateInt ==
    ASSUME NEW c \in Product, NEW u \in Int, NEW w \in Int
    PROVE  Rate(c, u, w) \in Int
<1>1. c.monthly \in Int
  BY DEF Product
<1>2. Clamp(w, 1, 30) \in Int
  BY ClampInt
<1>3. c.monthly * (3000 + u * Clamp(w, 1, 30)) \in Int
  BY <1>1, <1>2
<1> QED
  BY <1>1, <1>3 DEF Rate

LEMMA CostInt ==
    ASSUME NEW c \in Product, NEW r \in Int
    PROVE  FormulaQty(c, r) \in Nat /\ Cost(c, r) \in Nat
<1>0. c.moq \in Nat /\ c.cost \in Nat
  BY DEF Product
<1> DEFINE unit == IF c.cost > 0 THEN c.cost ELSE 1
           x == (292 * r) \div (45 * unit)
           Rounds(n) == /\ x < (2 * n + 1) * (2 * n + 1)
                        /\ n = 0 \/ (2 * n - 1) * (2 * n - 1) <= x
<1>1. Eoq(c, r) = IF r > 0 /\ \E n \in 0..x : Rounds(n) THEN CHOOSE n \in 0..x : Rounds(n) ELSE 0
  BY DEF Eoq
<1> HIDE DEF Rounds, x
<1>2. ASSUME \E n \in 0..x : Rounds(n) PROVE (CHOOSE n \in 0..x : Rounds(n)) \in 0..x
  BY <1>2
<1>3. Eoq(c, r) \in Nat
  BY <1>1, <1>2
<1>4. FormulaQty(c, r) \in Nat
  BY <1>0, <1>3 DEF FormulaQty
<1>5. FormulaQty(c, r) * c.cost \in Nat
  BY <1>0, <1>4
<1> QED
  BY <1>4, <1>5 DEF Cost

\* Less than m days of stock is less than n when m is at most n.
LEMMA LastsLessMono ==
    ASSUME NEW c \in Product, NEW r \in Int, NEW m \in Int, NEW n \in Int, m <= n,
           LastsLess(c, r, m)
    PROVE  LastsLess(c, r, n)
<1>0. c.stock \in Nat
  BY DEF Product
<1>1. CASE r > 0
  <2>1. m * r <= n * r
    BY <1>1, Z3
  <2>2. m * r \in Int /\ n * r \in Int /\ 90000 * c.stock \in Int
    BY <1>0
  <2>3. 90000 * c.stock < m * r
    BY <1>1 DEF LastsLess
  <2>4. 90000 * c.stock < n * r
    BY <2>1, <2>2, <2>3
  <2> QED
    BY <1>1, <2>4 DEF LastsLess
<1>2. CASE ~(r > 0)
  BY <1>2 DEF LastsLess
<1> QED
  BY <1>1, <1>2

\* The rules order exactly what lasts less than the lead time and two deviations.
LEMMA RulesOrder ==
    ASSUME NEW c \in Product, NEW r \in Int
    PROVE  RuleAction(c, r) \in Orders <=> LastsLess(c, r, c.lead + 2 * c.spread)
<1>1. c.lead \in Int /\ c.lead + 2 * c.spread \in Int /\ c.lead <= c.lead + 2 * c.spread
  BY DEF Product
<1>2. LastsLess(c, r, c.lead) => LastsLess(c, r, c.lead + 2 * c.spread)
  BY <1>1, LastsLessMono
<1>3. RuleAction(c, r) \in Orders <=> Risk(c, r) \in {"CRITICAL", "HIGH"}
  BY DEF RuleAction, Orders
<1>4. Risk(c, r) \in {"CRITICAL", "HIGH"}
        <=> LastsLess(c, r, c.lead) \/ LastsLess(c, r, c.lead + 2 * c.spread)
  BY DEF Risk, RiskAt
<1> QED
  BY <1>2, <1>3, <1>4

\* The critique refuses a decision of the rules in exactly one case, a stock that
\* is ample and yet under the lead time and two deviations: it is ordered. The
\* rules hold only what outlasts the lead time, and above the approval cost they
\* escalate (_rule_based_decide, _self_critique).
THEOREM RulePassesCritique ==
    ASSUME NEW c \in Product, NEW r \in Int
    PROVE  PassesCritique(c, r, Rule(c, r)) <=> ~AmpleButLate(c, r)
<1> DEFINE d == Rule(c, r)
<1>1. d.action \in Orders <=> LastsLess(c, r, c.lead + 2 * c.spread)
  BY RulesOrder DEF Rule
<1>2. ~(d.action = "HOLD" /\ LastsLess(c, r, c.lead))
  BY DEF Rule, RuleAction, Risk, RiskAt
<1>3. Affordable(c, r, d)
  <2>1. Cost(c, r) \in Nat
    BY CostInt
  <2>2. d.action \in Orders /\ Cost(c, r) > ApprovalCost => d.escalate
    BY DEF Rule, RuleEscalates
  <2> QED
    BY <2>1, <2>2, CostsAssumption DEF Affordable
<1> HIDE DEF d
<1>4. PassesCritique(c, r, d) <=> ~AmpleButLate(c, r)
  BY <1>1, <1>2, <1>3 DEF PassesCritique, Coherent, AmpleButLate
<1> QED
  BY <1>4 DEF d

-----------------------------------------------------------------------------
(* Types.                                                                  *)

LEMMA InterpretType == ASSUME NEW s \in Signals PROVE Interpret(s) \in Context
<1> DEFINE c == Contribution(s)
<1>1. /\ s.discount \in Nat /\ s.holidays \in Nat /\ s.events \in Int /\ s.rain \in Nat
      /\ s.offers \in Nat /\ s.sample \in Nat
  BY DEF Signals
<1>2. Clamp(s.offers, 0, 3) \in Int
  BY <1>1 DEF Clamp
<1>3. /\ c.promotions \in Int /\ c.holidays \in Int /\ c.events \in Int /\ c.weather \in Int
      /\ c.market_offers \in Int
  BY <1>1, <1>2 DEF Contribution, HolidayUplift, RainImpact, OfferUplift
<1>4. c.promotions + c.holidays + c.events + c.weather + c.market_offers \in Int
  BY <1>3
<1>5. Dominant(s) \in Kinds
  BY DEF Dominant, Kinds
<1>6. (IF Dominant(s) = "weather" THEN Clamp(s.rain, 1, 14) ELSE 7) \in 1..14
  BY <1>1 DEF Clamp
<1>7. Volatility(s) \in Levels
  BY DEF Volatility, Levels
<1>8. (IF s.sample >= MinSample THEN "medium" ELSE "low") \in Confidence
  BY DEF Confidence
<1> HIDE DEF c
<1>9. Interpret(s) =
        [uplift     |-> c.promotions + c.holidays + c.events + c.weather + c.market_offers,
         dominant   |-> Dominant(s),
         window     |-> IF Dominant(s) = "weather" THEN Clamp(s.rain, 1, 14) ELSE 7,
         volatility |-> Volatility(s),
         confidence |-> IF s.sample >= MinSample THEN "medium" ELSE "low"]
  BY DEF Interpret, c
<1> QED
  BY <1>4, <1>5, <1>6, <1>7, <1>8, <1>9 DEF Context

LEMMA InRangeType == ASSUME NEW a \in Reading PROVE InRange(a) \in Context
<1>1. Clamp(a.window, 1, 14) \in 1..14
  BY DEF Reading, Clamp
<1> QED
  BY <1>1 DEF InRange, Reading, Context, Levels

LEMMA OutcomeType ==
    ASSUME NEW c \in Product, NEW r \in Int, NEW llm \in BOOLEAN,
           NEW d \in Outcomes(c, r, llm, Answers)
    PROVE  d \in Decision
<1>1. FormulaQty(c, r) \in Nat
  BY CostInt
<1>2. /\ RuleAction(c, r) \in {"ORDER", "EXPEDITE", "HOLD", "MONITOR"}
      /\ RuleEscalates(c, r) \in BOOLEAN
  BY DEF RuleAction, RuleEscalates, Product
<1>3. Rule(c, r) \in Decision
  BY <1>1, <1>2 DEF Rule, Decision, Nothing
<1>4. BlockedDecision \in Decision
  BY DEF BlockedDecision, Decision, Nothing
<1>5. d \in Answers \cup {Rule(c, r), BlockedDecision}
  BY DEF Outcomes, Decisions
<1> QED
  BY <1>3, <1>4, <1>5, InputsAssumption

\* The rate at which the decision agent works is a number.
LEMMA AdjustedRateInt ==
    ASSUME NEW c \in Product, NEW context \in Context
    PROVE  AdjustedRate(c, context) \in Int
<1>1. EffectiveUplift(c, context) \in Int /\ context.window \in Int
  BY DEF EffectiveUplift, Context
<1> QED
  BY <1>1, RateInt DEF AdjustedRate

\* What the products are never changes.
LEMMA GivenStays == [Next]_vars => UNCHANGED given
BY DEF Next, vars, given, OpenBatch, SubmissionBreaks, CloseBatch, ShutDown, Begin, Submit,
       SubmitRaises, Analyse, Join, ContextOpens, ContextEnds, ContextFails, DecisionStarts,
       Decide, Save, Suggest, CloseDecision, DecisionRaises, Answered, Timeout

LEMMA ContextMoves ==
    ASSUME NEW x \in ContextState, NEW row \in Row
    PROVE  /\ [x EXCEPT !.pc = "deferred"] \in ContextState
           /\ [x EXCEPT !.pc = "queued"] \in ContextState
           /\ [x EXCEPT !.pc = "running", !.row = row] \in ContextState
           /\ [x EXCEPT !.pc = "done", !.row = row] \in ContextState
BY DEF ContextState

LEMMA DecisionMoves ==
    ASSUME NEW x \in DecisionState,
           NEW pc \in {"off", "fetching", "deciding", "saving", "suggesting", "closing",
                       "answered", "cancelled"}
    PROVE  [x EXCEPT !.pc = pc] \in DecisionState
BY DEF DecisionState

LEMMA DecisionRows ==
    ASSUME NEW x \in DecisionState, NEW row \in Row
    PROVE  /\ [x EXCEPT !.pc = "deciding", !.row = row] \in DecisionState
           /\ [x EXCEPT !.pc = "answered", !.row = row] \in DecisionState
           /\ [x EXCEPT !.pc = "answered", !.decision = None, !.row = row] \in DecisionState
           /\ [x EXCEPT !.pc = "suggesting", !.saved = TRUE] \in DecisionState
BY DEF DecisionState

LEMMA DecisionMade ==
    ASSUME NEW x \in DecisionState, NEW d \in Decision, NEW r \in Int,
           NEW pc \in {"saving", "closing"}
    PROVE  [x EXCEPT !.pc = pc, !.decision = d, !.rate = r] \in DecisionState
BY DEF DecisionState

LEMMA TypeInit == ASSUME Init PROVE TypeOK
<1>1. NoContext \in Context
  BY DEF NoContext, Context, Kinds, Levels, Confidence
<1>2. ctx \in [Sku -> ContextState]
  BY <1>1 DEF Init, ContextState, Row
<1>3. dec \in [Sku -> DecisionState]
  BY DEF Init, DecisionState, Row
<1>4. faults \in 0..MaxFaults
  BY InputsAssumption DEF Init
<1>5. \A k \in Sku : item[k] \in CasesOf(k) /\ signals[k] \in SignalsOf(k)
  BY DEF Init
<1> QED
  BY <1>2, <1>3, <1>4, <1>5 DEF Init, TypeOK, Row

LEMMA TypeStep == ASSUME TypeOK, [Next]_vars PROVE TypeOK'
<1> USE InputsAssumption
<1>a. Fails \/ Works => faults' \in 0..MaxFaults
  BY DEF Fails, Works, TypeOK
<1>1. CASE UNCHANGED vars
  BY <1>1 DEF vars, TypeOK
<1>2. CASE OpenBatch
  BY <1>2, <1>a DEF OpenBatch, Opens, TypeOK, given
<1>3. CASE SubmissionBreaks
  BY <1>3 DEF SubmissionBreaks, TypeOK, given
<1>4. CASE CloseBatch
  BY <1>4, <1>a DEF CloseBatch, Closes, BatchStatus, Answer, Missing, TypeOK, given, Row, Errors
<1>5. CASE ShutDown
  BY <1>5 DEF ShutDown, TypeOK, given
<1>6. ASSUME NEW k \in Sku, Begin(k) PROVE TypeOK'
  BY <1>6 DEF Begin, Ends, TypeOK, given
<1>7. ASSUME NEW k \in Sku, Submit(k) PROVE TypeOK'
  <2>1. ctx[k] \in ContextState /\ "none" \in Row
    BY DEF TypeOK, Row
  <2>2. /\ [ctx[k] EXCEPT !.pc = "deferred"] \in ContextState
        /\ [ctx[k] EXCEPT !.pc = "queued"] \in ContextState
    BY <2>1, ContextMoves
  <2>3. CASE down
    BY <1>7, <2>2, <2>3 DEF Submit, TypeOK, given
  <2>4. CASE ~down
    BY <1>7, <2>2, <2>4 DEF Submit, TypeOK, given
  <2> QED
    BY <2>3, <2>4
<1>8. ASSUME NEW k \in Sku, SubmitRaises(k) PROVE TypeOK'
  BY <1>8, <1>a DEF SubmitRaises, Ends, TypeOK, given, Errors
<1>9. ASSUME NEW k \in Sku, Analyse(k) PROVE TypeOK'
  BY <1>9, <1>a DEF Analyse, TypeOK, given
<1>10. ASSUME NEW k \in Sku, Join(k) PROVE TypeOK'
  <2>1. dec[k] \in DecisionState
    BY DEF TypeOK
  <2>2. [dec[k] EXCEPT !.pc = "fetching"] \in DecisionState
    BY <2>1, DecisionMoves
  <2>3. dec' \in [Sku -> DecisionState]
    BY <1>10, <2>2 DEF Join, TypeOK
  <2> QED
    BY <1>10, <2>3 DEF Join, Ends, TypeOK, given, Errors
<1>11. ASSUME NEW k \in Sku, ContextOpens(k) PROVE TypeOK'
  <2>1. ctx[k] \in ContextState
    BY DEF TypeOK
  <2>2. PICK row \in Row :
          ctx' = [ctx EXCEPT ![k] = [@ EXCEPT !.pc = "running", !.row = row]]
    BY <1>11 DEF ContextOpens
  <2>3. [ctx[k] EXCEPT !.pc = "running", !.row = row] \in ContextState
    BY <2>1, ContextMoves
  <2>4. ctx' \in [Sku -> ContextState]
    BY <2>2, <2>3 DEF TypeOK
  <2> QED
    BY <1>11, <1>a, <2>4 DEF ContextOpens, Opens, TypeOK, given
<1>12. ASSUME NEW k \in Sku, ContextEnds(k) PROVE TypeOK'
  <2>1. \A reading \in Readable(k) : reading \in Context
    BY InterpretType, InRangeType DEF Readable, TypeOK
  <2>2. ctx' \in [Sku -> ContextState]
    BY <1>12, <2>1 DEF ContextEnds, ContextState, TypeOK
  <2> QED
    BY <1>12, <1>a, <2>2 DEF ContextEnds, Closes, TypeOK, given
<1>13. ASSUME NEW k \in Sku, ContextFails(k) PROVE TypeOK'
  <2>1. ctx[k] \in ContextState
    BY DEF TypeOK
  <2>2. PICK row \in ClosedAsFailed(ctx[k].row) :
          ctx' = [ctx EXCEPT ![k] = [@ EXCEPT !.pc = "done", !.row = row]]
    BY <1>13 DEF ContextFails
  <2>3. row \in Row
    BY <2>1 DEF ClosedAsFailed, ContextState, Row
  <2>5. [ctx[k] EXCEPT !.pc = "done", !.row = row] \in ContextState
    BY <2>1, <2>3, ContextMoves
  <2>4. ctx' \in [Sku -> ContextState]
    BY <2>2, <2>5 DEF TypeOK
  <2> QED
    BY <1>13, <1>a, <2>4 DEF ContextFails, TypeOK, given
<1>14. ASSUME NEW k \in Sku, DecisionStarts(k) PROVE TypeOK'
  <2>1. dec[k] \in DecisionState
    BY DEF TypeOK
  <2>2. PICK row \in Row :
          dec' = [dec EXCEPT ![k] = [@ EXCEPT !.pc = "deciding", !.row = row]]
    BY <1>14, ZenonT(60) DEF DecisionStarts
  <2>3. [dec[k] EXCEPT !.pc = "deciding", !.row = row] \in DecisionState
    BY <2>1, DecisionRows
  <2>4. dec' \in [Sku -> DecisionState]
    BY <2>2, <2>3 DEF TypeOK
  <2> QED
    BY <1>14, <1>a, <2>4 DEF DecisionStarts, Opens, TypeOK, given
<1>15. ASSUME NEW k \in Sku, Decide(k) PROVE TypeOK'
  <2> DEFINE rate == AdjustedRate(item[k], ctx[k].report)
  <2>1. rate \in Int
    <3>1. item[k] \in Product
      BY InputsAssumption DEF TypeOK
    <3>2. ctx[k] \in ContextState
      BY DEF TypeOK
    <3>3. ctx[k].report \in Context
      BY <3>2 DEF ContextState
    <3> QED
      BY <3>1, <3>3, AdjustedRateInt
  <2>2. \A d \in Outcomes(item[k], rate, useLlm, Answers) : d \in Decision
    BY <2>1, OutcomeType DEF TypeOK
  <2> HIDE DEF rate
  <2>3. PICK d \in Outcomes(item[k], rate, useLlm, Answers) :
          dec' = [dec EXCEPT ![k] =
                    [@ EXCEPT !.pc = IF d.action \in Orders THEN "saving" ELSE "closing",
                              !.decision = d, !.rate = rate]]
    BY <1>15 DEF Decide, rate
  <2>4. dec[k] \in DecisionState /\ d \in Decision
    BY <2>2 DEF TypeOK
  <2> DEFINE pc == IF d.action \in Orders THEN "saving" ELSE "closing"
  <2>6. pc \in {"saving", "closing"}
    OBVIOUS
  <2> HIDE DEF pc
  <2>7. [dec[k] EXCEPT !.pc = pc, !.decision = d, !.rate = rate] \in DecisionState
    BY <2>1, <2>4, <2>6, DecisionMade
  <2>5. dec' \in [Sku -> DecisionState]
    BY <2>3, <2>7 DEF TypeOK, pc
  <2> QED
    BY <1>15, <2>5 DEF Decide, TypeOK, given
<1>16. ASSUME NEW k \in Sku, Save(k) PROVE TypeOK'
  <2>1. dec[k] \in DecisionState /\ "none" \in Row
    BY DEF TypeOK, Row
  <2>2. dec[k].decision \in Decision \cup {None}
    BY <2>1, SMTT(30) DEF DecisionState
  <2>5. /\ [dec[k] EXCEPT !.pc = "suggesting", !.saved = TRUE] \in DecisionState
        /\ [dec[k] EXCEPT !.pc = "closing"] \in DecisionState
    BY <2>1, DecisionMoves, DecisionRows
  <2>3. dec' \in [Sku -> DecisionState]
    BY <1>16, <2>5 DEF Save, TypeOK
  <2>4. rec' \in [Sku -> Decision \cup {None}]
    BY <1>16, <2>2 DEF Save, TypeOK
  <2> QED
    BY <1>16, <1>a, <2>3, <2>4 DEF Save, TypeOK, given
<1>17. ASSUME NEW k \in Sku, Suggest(k) PROVE TypeOK'
  <2>1. dec[k] \in DecisionState
    BY DEF TypeOK
  <2>2. [dec[k] EXCEPT !.pc = "closing"] \in DecisionState
    BY <2>1, DecisionMoves
  <2>3. dec' \in [Sku -> DecisionState]
    BY <1>17, <2>2 DEF Suggest, TypeOK
  <2> QED
    BY <1>17, <1>a, <2>3 DEF Suggest, TypeOK, given
<1>18. ASSUME NEW k \in Sku, CloseDecision(k) PROVE TypeOK'
  <2>1. dec[k] \in DecisionState
    BY DEF TypeOK
  <2>2. PICK row \in Row :
          dec' = [dec EXCEPT ![k] = [@ EXCEPT !.pc = "answered", !.row = row]]
    BY <1>18, ZenonT(60) DEF CloseDecision
  <2>3. [dec[k] EXCEPT !.pc = "answered", !.row = row] \in DecisionState
    BY <2>1, DecisionRows
  <2>4. dec' \in [Sku -> DecisionState]
    BY <2>2, <2>3 DEF TypeOK
  <2> QED
    BY <1>18, <1>a, <2>4 DEF CloseDecision, Closes, TypeOK, given
<1>19. ASSUME NEW k \in Sku, DecisionRaises(k) PROVE TypeOK'
  <2>1. dec[k] \in DecisionState
    BY DEF TypeOK
  <2>2. PICK row \in ClosedAsFailed(dec[k].row) :
          dec' = [dec EXCEPT ![k] =
                    [@ EXCEPT !.pc = "answered", !.decision = None, !.row = row]]
    BY <1>19 DEF DecisionRaises
  <2>3. row \in Row
    BY <2>1, SMTT(30) DEF ClosedAsFailed, DecisionState, Row
  <2>5. [dec[k] EXCEPT !.pc = "answered", !.decision = None, !.row = row] \in DecisionState
    BY <2>1, <2>3, DecisionRows
  <2>4. dec' \in [Sku -> DecisionState]
    BY <2>2, <2>5 DEF TypeOK
  <2> QED
    BY <1>19, <1>a, <2>4 DEF DecisionRaises, TypeOK, given
<1>20. ASSUME NEW k \in Sku, Answered(k) PROVE TypeOK'
  BY <1>20 DEF Answered, Ends, TypeOK, given, Errors
<1>21. ASSUME NEW k \in Sku, Timeout(k) PROVE TypeOK'
  <2>1. dec[k] \in DecisionState
    BY DEF TypeOK
  <2>2. [dec[k] EXCEPT !.pc = IF @ = "fetching" THEN "cancelled" ELSE @] \in DecisionState
    BY <2>1 DEF DecisionState
  <2>3. dec' \in [Sku -> DecisionState]
    BY <1>21, <2>2 DEF Timeout, TypeOK
  <2> QED
    BY <1>21, <2>3 DEF Timeout, Ends, TypeOK, given, Errors
<1> QED
  BY <1>1, <1>2, <1>3, <1>4, <1>5, <1>6, <1>7, <1>8, <1>9, <1>10, <1>11, <1>12, <1>13,
     <1>14, <1>15, <1>16, <1>17, <1>18, <1>19, <1>20, <1>21 DEF Next

\* The figures, the readings and the decisions are what their types say, for any
\* products, signals and answers of a model.
THEOREM Typing == Spec => []TypeOK
BY TypeInit, TypeStep, PTL DEF Spec

-----------------------------------------------------------------------------
(* Where a decision comes from.                                            *)

\* A decision is one the graph may end with at the rate it was made for; one is
\* saved only once made, and only to order.
Decided(k) ==
    /\ dec[k].pc \in {"off", "fetching", "deciding", "cancelled"}
         => dec[k].decision = None /\ rec[k] = None
    /\ dec[k].pc = "saving" => dec[k].decision # None /\ dec[k].decision.action \in Orders
    /\ dec[k].decision # None
         => dec[k].decision \in Outcomes(item[k], dec[k].rate, useLlm, Answers)
    /\ rec[k] # None => dec[k].decision = rec[k] /\ rec[k].action \in Orders

AllDecided == \A k \in Sku : Decided(k)

LEMMA FieldsMoved ==
    ASSUME NEW x \in DecisionState, NEW pc, NEW row
    PROVE  /\ [x EXCEPT !.pc = pc].pc = pc
           /\ [x EXCEPT !.pc = pc].decision = x.decision
           /\ [x EXCEPT !.pc = pc].rate = x.rate
           /\ [x EXCEPT !.pc = pc, !.row = row].pc = pc
           /\ [x EXCEPT !.pc = pc, !.row = row].decision = x.decision
           /\ [x EXCEPT !.pc = pc, !.row = row].rate = x.rate
           /\ [x EXCEPT !.pc = pc, !.saved = TRUE].pc = pc
           /\ [x EXCEPT !.pc = pc, !.saved = TRUE].decision = x.decision
           /\ [x EXCEPT !.pc = pc, !.saved = TRUE].rate = x.rate
BY DEF DecisionState

LEMMA FieldsDecided ==
    ASSUME NEW x \in DecisionState, NEW pc, NEW row, NEW d, NEW r
    PROVE  /\ [x EXCEPT !.pc = pc, !.decision = d, !.rate = r].pc = pc
           /\ [x EXCEPT !.pc = pc, !.decision = d, !.rate = r].decision = d
           /\ [x EXCEPT !.pc = pc, !.decision = d, !.rate = r].rate = r
           /\ [x EXCEPT !.pc = pc, !.decision = None, !.row = row].pc = pc
           /\ [x EXCEPT !.pc = pc, !.decision = None, !.row = row].decision = None
BY DEF DecisionState

LEMMA DecidedKept ==
    ASSUME NEW k \in Sku, Decided(k), UNCHANGED given, dec'[k] = dec[k], rec'[k] = rec[k]
    PROVE  Decided(k)'
BY DEF Decided, given

\* A move of the decision agent that keeps what it decided.
LEMMA DecidedMoves ==
    ASSUME NEW k \in Sku, Decided(k), UNCHANGED given, rec'[k] = rec[k],
           dec'[k].decision = dec[k].decision, dec'[k].rate = dec[k].rate,
           \/ /\ dec[k].pc \in {"off", "fetching", "deciding", "cancelled"}
              /\ dec'[k].pc \in {"off", "fetching", "deciding", "cancelled"}
           \/ dec'[k].pc \in {"suggesting", "closing", "answered"}
    PROVE  Decided(k)'
<1>1. Outcomes(item[k], dec[k].rate, useLlm, Answers)' =
        Outcomes(item[k], dec[k].rate, useLlm, Answers)
  BY DEF given, Outcomes, Decisions, Blocked, BlockedDecision, Rule, PassesCritique
<1> QED
  BY <1>1 DEF Decided

\* The decision agent of a product starts when its worker has joined the others.
Unstarted(k) ==
    main[k] \in {"queued", "submitting", "analysing", "joining"} => dec[k].pc = "off"

LEMMA UnstartedStep ==
    ASSUME TypeOK, [Next]_vars, NEW k \in Sku, Unstarted(k)
    PROVE  Unstarted(k)'
<1>1. /\ dec \in [Sku -> DecisionState]
      /\ main \in [Sku -> {"queued", "submitting", "analysing", "joining", "waiting", "done"}]
  BY DEF TypeOK
<1> DEFINE Early == {"queued", "submitting", "analysing", "joining"}
<1>2. ASSUME dec'[k] = dec[k], main'[k] \in Early => main[k] \in Early
      PROVE  Unstarted(k)'
  BY <1>2 DEF Unstarted
<1>3. CASE \/ UNCHANGED vars \/ OpenBatch \/ SubmissionBreaks \/ CloseBatch \/ ShutDown
  BY <1>2, <1>3 DEF vars, OpenBatch, SubmissionBreaks, CloseBatch, ShutDown
<1>4. ASSUME NEW j \in Sku,
             \/ Begin(j) \/ Submit(j) \/ SubmitRaises(j) \/ Analyse(j) \/ ContextOpens(j)
             \/ ContextEnds(j) \/ ContextFails(j) \/ Answered(j)
      PROVE  Unstarted(k)'
  BY <1>1, <1>2, <1>4 DEF Begin, Submit, SubmitRaises, Analyse, ContextOpens, ContextEnds,
                         ContextFails, Answered, Ends
<1>5. ASSUME NEW j \in Sku, Join(j) \/ Timeout(j) PROVE Unstarted(k)'
  <2>1. CASE j = k
    BY <1>1, <1>5, <2>1 DEF Join, Timeout, Ends, Unstarted
  <2>2. CASE j # k
    BY <1>1, <1>2, <1>5, <2>2 DEF Join, Timeout, Ends
  <2> QED
    BY <2>1, <2>2
<1>6. ASSUME NEW j \in Sku,
             \/ DecisionStarts(j) \/ Decide(j) \/ Save(j) \/ Suggest(j) \/ CloseDecision(j)
             \/ DecisionRaises(j)
      PROVE  Unstarted(k)'
  <2>1. main' = main /\ dec[j].pc # "off" /\ \A i \in Sku : i # j => dec'[i] = dec[i]
    BY <1>1, <1>6 DEF DecisionStarts, Decide, Save, Suggest, CloseDecision, DecisionRaises
  <2> QED
    BY <2>1 DEF Unstarted
<1> QED
  BY <1>3, <1>4, <1>5, <1>6 DEF Next

LEMMA DecidedStep ==
    ASSUME TypeOK, [Next]_vars, NEW k \in Sku, Decided(k), Unstarted(k)
    PROVE  Decided(k)'
<1>1. UNCHANGED given /\ dec[k] \in DecisionState
  BY GivenStays DEF TypeOK
<1>2. dec \in [Sku -> DecisionState] /\ rec \in [Sku -> Decision \cup {None}]
  BY DEF TypeOK
<1>3. ASSUME dec'[k] = dec[k], rec'[k] = rec[k] PROVE Decided(k)'
  BY <1>1, <1>3, DecidedKept
<1>4. CASE \/ UNCHANGED vars \/ OpenBatch \/ SubmissionBreaks \/ CloseBatch \/ ShutDown
           \/ \E j \in Sku : \/ Begin(j) \/ Submit(j) \/ SubmitRaises(j) \/ Analyse(j)
                           \/ ContextOpens(j) \/ ContextEnds(j) \/ ContextFails(j)
                           \/ Answered(j)
  BY <1>3, <1>4 DEF vars, OpenBatch, SubmissionBreaks, CloseBatch, ShutDown, Begin, Submit,
                   SubmitRaises, Analyse, ContextOpens, ContextEnds, ContextFails, Answered
<1>5. ASSUME NEW j \in Sku, j # k,
             \/ Join(j) \/ DecisionStarts(j) \/ Decide(j) \/ Save(j) \/ Suggest(j)
             \/ CloseDecision(j) \/ DecisionRaises(j) \/ Timeout(j)
      PROVE  Decided(k)'
  BY <1>2, <1>3, <1>5 DEF Join, DecisionStarts, Decide, Save, Suggest, CloseDecision,
                         DecisionRaises, Timeout
<1>6. CASE Join(k)
  <2>1. CASE ~report[k]
    BY <1>3, <1>6, <2>1 DEF Join
  <2>2. CASE report[k]
    <3>1. dec'[k] = [dec[k] EXCEPT !.pc = "fetching"] /\ rec'[k] = rec[k]
      BY <1>2, <1>6, <2>2 DEF Join
    <3>2. dec[k].pc = "off"
      BY <1>6 DEF Join, Unstarted
    <3>3. /\ dec'[k].pc = "fetching" /\ dec'[k].decision = dec[k].decision
          /\ dec'[k].rate = dec[k].rate
      BY <1>1, <3>1, FieldsMoved
    <3> QED
      BY <1>1, <3>1, <3>2, <3>3, DecidedMoves
  <2> QED
    BY <2>1, <2>2
<1>7. CASE DecisionStarts(k)
  <2>1. PICK row \in Row : dec'[k] = [dec[k] EXCEPT !.pc = "deciding", !.row = row]
    BY <1>2, <1>7 DEF DecisionStarts
  <2>2. dec[k].pc = "fetching" /\ rec'[k] = rec[k]
    BY <1>7 DEF DecisionStarts
  <2>3. /\ dec'[k].pc = "deciding" /\ dec'[k].decision = dec[k].decision
        /\ dec'[k].rate = dec[k].rate
    BY <1>1, <2>1, FieldsMoved
  <2> QED
    BY <1>1, <2>2, <2>3, DecidedMoves
<1>8. CASE Decide(k)
  <2> DEFINE rate == AdjustedRate(item[k], ctx[k].report)
  <2>1. PICK d \in Outcomes(item[k], rate, useLlm, Answers) :
          dec' = [dec EXCEPT ![k] =
                    [@ EXCEPT !.pc = IF d.action \in Orders THEN "saving" ELSE "closing",
                              !.decision = d, !.rate = rate]]
    BY <1>8 DEF Decide
  <2> HIDE DEF rate
  <2> DEFINE pc == IF d.action \in Orders THEN "saving" ELSE "closing"
  <2>2. dec'[k] = [dec[k] EXCEPT !.pc = pc, !.decision = d, !.rate = rate]
    BY <1>2, <2>1
  <2>3. dec'[k].pc = pc /\ dec'[k].decision = d /\ dec'[k].rate = rate
    BY <1>1, <2>2, FieldsDecided
  <2>4. rec'[k] = rec[k] /\ rec[k] = None
    BY <1>8 DEF Decide, Decided
  <2>5. Outcomes(item[k], dec[k].rate, useLlm, Answers)' =
          Outcomes(item[k], rate, useLlm, Answers)
    BY <1>1, <2>3 DEF given, Outcomes, Decisions, Blocked, BlockedDecision, Rule, PassesCritique
  <2>6. d # None
    <3>1. item[k] \in Product /\ useLlm \in BOOLEAN /\ ctx[k] \in ContextState
      BY InputsAssumption DEF TypeOK
    <3>2. rate \in Int
      BY <3>1, AdjustedRateInt DEF ContextState, rate
    <3>3. d \in Decision
      BY <3>1, <3>2, OutcomeType
    <3> QED
      BY <3>3, InputsAssumption
  <2> QED
    BY <2>3, <2>4, <2>5, <2>6 DEF Decided
<1>9. CASE Save(k)
  <2>1. dec[k].pc = "saving" /\ dec[k].decision # None /\ dec[k].decision.action \in Orders
    BY <1>9 DEF Save, Decided
  <2>2. CASE rec' = rec /\ dec' = [dec EXCEPT ![k].pc = "closing"]
    <3>1. dec'[k] = [dec[k] EXCEPT !.pc = "closing"] /\ rec'[k] = rec[k]
      BY <1>2, <2>2
    <3>2. /\ dec'[k].pc = "closing" /\ dec'[k].decision = dec[k].decision
          /\ dec'[k].rate = dec[k].rate
      BY <1>1, <3>1, FieldsMoved
    <3> QED
      BY <1>1, <3>1, <3>2, DecidedMoves
  <2>3. CASE /\ rec' = [rec EXCEPT ![k] = dec[k].decision]
             /\ dec' = [dec EXCEPT ![k] = [@ EXCEPT !.pc = "suggesting", !.saved = TRUE]]
    <3>1. /\ dec'[k] = [dec[k] EXCEPT !.pc = "suggesting", !.saved = TRUE]
          /\ rec'[k] = dec[k].decision
      BY <1>2, <2>3
    <3>2. /\ dec'[k].pc = "suggesting" /\ dec'[k].decision = dec[k].decision
          /\ dec'[k].rate = dec[k].rate
      BY <1>1, <3>1, FieldsMoved
    <3>3. Outcomes(item[k], dec[k].rate, useLlm, Answers)' =
            Outcomes(item[k], dec[k].rate, useLlm, Answers)
      BY <1>1, <3>2 DEF given, Outcomes, Decisions, Blocked, BlockedDecision, Rule,
                       PassesCritique
    <3> QED
      BY <2>1, <3>1, <3>2, <3>3 DEF Decided
  <2> QED
    BY <1>9, <2>2, <2>3 DEF Save
<1>10. CASE Suggest(k)
  <2>1. dec'[k] = [dec[k] EXCEPT !.pc = "closing"] /\ rec'[k] = rec[k]
    BY <1>2, <1>10 DEF Suggest
  <2>2. /\ dec'[k].pc = "closing" /\ dec'[k].decision = dec[k].decision
        /\ dec'[k].rate = dec[k].rate
    BY <1>1, <2>1, FieldsMoved
  <2> QED
    BY <1>1, <2>1, <2>2, DecidedMoves
<1>11. CASE CloseDecision(k)
  <2>1. PICK row \in Row : dec'[k] = [dec[k] EXCEPT !.pc = "answered", !.row = row]
    BY <1>2, <1>11 DEF CloseDecision
  <2>2. rec'[k] = rec[k]
    BY <1>11 DEF CloseDecision
  <2>3. /\ dec'[k].pc = "answered" /\ dec'[k].decision = dec[k].decision
        /\ dec'[k].rate = dec[k].rate
    BY <1>1, <2>1, FieldsMoved
  <2> QED
    BY <1>1, <2>2, <2>3, DecidedMoves
<1>12. CASE DecisionRaises(k)
  <2>1. PICK row : dec' = [dec EXCEPT ![k] =
                            [@ EXCEPT !.pc = "answered", !.decision = None, !.row = row]]
    BY <1>12 DEF DecisionRaises
  <2>2. dec'[k] = [dec[k] EXCEPT !.pc = "answered", !.decision = None, !.row = row]
    BY <1>2, <2>1
  <2>3. dec'[k].pc = "answered" /\ dec'[k].decision = None
    BY <1>1, <2>2, FieldsDecided
  <2>4. rec'[k] = None
    BY <1>12 DEF DecisionRaises, Decided
  <2> QED
    BY <2>3, <2>4 DEF Decided
<1>13. CASE Timeout(k)
  <2>1. CASE dec[k].pc # "fetching"
    <3>1. dec'[k] = [dec[k] EXCEPT !.pc = dec[k].pc]
      BY <1>2, <1>13, <2>1 DEF Timeout
    <3>2. dec'[k] = dec[k] /\ rec'[k] = rec[k]
      BY <1>1, <1>13, <3>1 DEF Timeout, DecisionState
    <3> QED
      BY <1>3, <3>2
  <2>2. CASE dec[k].pc = "fetching"
    <3>1. dec'[k] = [dec[k] EXCEPT !.pc = "cancelled"] /\ rec'[k] = rec[k]
      BY <1>2, <1>13, <2>2 DEF Timeout
    <3>2. /\ dec'[k].pc = "cancelled" /\ dec'[k].decision = dec[k].decision
          /\ dec'[k].rate = dec[k].rate
      BY <1>1, <3>1, FieldsMoved
    <3> QED
      BY <1>1, <2>2, <3>1, <3>2, DecidedMoves
  <2> QED
    BY <2>1, <2>2
<1> QED
  BY <1>4, <1>5, <1>6, <1>7, <1>8, <1>9, <1>10, <1>11, <1>12, <1>13 DEF Next

LEMMA AllDecidedHolds == Spec => [](TypeOK /\ \A k \in Sku : Unstarted(k) /\ Decided(k))
<1> DEFINE Inv == TypeOK /\ \A k \in Sku : Unstarted(k) /\ Decided(k)
<1>1. Init => Inv
  <2>1. Init => TypeOK
    BY TypeInit
  <2>2. Init => \A k \in Sku : Unstarted(k) /\ Decided(k)
    BY DEF Init, Unstarted, Decided
  <2> QED
    BY <2>1, <2>2
<1>2. Inv /\ [Next]_vars => Inv'
  <2> SUFFICES ASSUME Inv, [Next]_vars PROVE Inv'
    OBVIOUS
  <2>1. TypeOK'
    BY TypeStep
  <2>2. \A k \in Sku : Unstarted(k)' /\ Decided(k)'
    BY UnstartedStep, DecidedStep
  <2> QED
    BY <2>1, <2>2
<1> QED
  BY <1>1, <1>2, PTL DEF Spec

\* What a language model answers never gets past the constraints: a product over
\* the budget, or critical at the end of its life, has no recommendation to order.
THEOREM NothingBlockedIsSaved == Spec => []BlockedNeverSaved
<1>1. (TypeOK /\ \A k \in Sku : Unstarted(k) /\ Decided(k)) => BlockedNeverSaved
  <2> SUFFICES ASSUME NEW k \in Sku, Decided(k), None \notin Decision, rec[k] # None,
                      Blocked(item[k], dec[k].rate)
               PROVE  FALSE
    BY InputsAssumption DEF BlockedNeverSaved
  <2>1. dec[k].decision = BlockedDecision /\ dec[k].decision.action \in Orders
    BY DEF Decided, Outcomes
  <2> QED
    BY <2>1 DEF BlockedDecision, Orders
<1> QED
  BY <1>1, AllDecidedHolds, PTL

\* The decisions of the rules, to which the agent falls back without another
\* critique, pass it except where the stock is ample and yet under the lead time
\* and two deviations; there none does.
THEOREM FallbackIsSound == Spec => []FallbackIsCoherent
<1>1. (TypeOK /\ \A k \in Sku : Unstarted(k) /\ Decided(k)) => FallbackIsCoherent
  <2> SUFFICES ASSUME TypeOK, NEW k \in Sku, Decided(k), dec[k].decision # None,
                      dec[k].decision.by = "rules"
               PROVE  PassesCritique(item[k], dec[k].rate, dec[k].decision)
                        <=> ~AmpleButLate(item[k], dec[k].rate)
    BY DEF FallbackIsCoherent
  <2>1. /\ item[k] \in CasesOf(k) /\ item[k] \in Product /\ dec[k] \in DecisionState
    BY InputsAssumption DEF TypeOK
  <2>2. dec[k].rate \in Int
    BY <2>1 DEF DecisionState
  <2>3. dec[k].decision \in Answers \cup {Rule(item[k], dec[k].rate), BlockedDecision}
    BY DEF Decided, Outcomes, Decisions
  <2>4. dec[k].decision = Rule(item[k], dec[k].rate)
    BY <2>3, InputsAssumption DEF BlockedDecision
  <2> QED
    BY <2>1, <2>2, <2>4, RulePassesCritique
<1> QED
  BY <1>1, AllDecidedHolds, PTL

-----------------------------------------------------------------------------
(* The shutdown.                                                           *)

Untouched(k) == ctx[k].pc = "off" /\ dec[k].pc = "off" /\ rec[k] = None /\ ~order[k]

NotBegun(k) ==
    \/ main[k] \in {"queued", "submitting"}
    \/ main[k] = "done" /\ result[k] \in {None, "skipped"}

\* A product has a result once its worker is through; nothing ran for one whose
\* worker did not begin; one without a result was given up by a broken submission.
Fate(k) ==
    /\ result[k] # None => main[k] = "done"
    /\ NotBegun(k) => Untouched(k)
    /\ main[k] = "done" /\ result[k] = None => batch.aborted

Failed == {k \in Sku : result[k] = "error"}

\* Each error took a fault; the batch failed only when closed with nothing else.
Counted ==
    /\ Cardinality(Failed) <= faults
    /\ batch.pc = "closed" => \A k \in Sku : main[k] = "done"
    /\ batch.pc # "closed" => batch.row # "failed"
    /\ batch.row = "failed" => Failed = Sku

\* What a step of another product leaves as it was.
LEMMA FateSame ==
    ASSUME NEW k \in Sku, Fate(k), main'[k] = main[k], result'[k] = result[k],
           ctx'[k] = ctx[k], dec'[k] = dec[k], rec'[k] = rec[k], order'[k] = order[k],
           batch.aborted => batch'.aborted
    PROVE  Fate(k)'
  BY DEF Fate, NotBegun, Untouched

LEMMA FateStep ==
    ASSUME TypeOK, [Next]_vars, NEW k \in Sku, Fate(k)
    PROVE  Fate(k)'
<1>1. /\ dec \in [Sku -> DecisionState] /\ ctx \in [Sku -> ContextState]
      /\ main \in [Sku -> {"queued", "submitting", "analysing", "joining", "waiting", "done"}]
      /\ rec \in [Sku -> Decision \cup {None}] /\ order \in [Sku -> BOOLEAN]
      /\ result \in [Sku -> Errors \cup {"decided", "skipped", None}]
      /\ batch \in [pc : {"new", "running", "closed"}, row : Row, aborted : BOOLEAN]
  BY DEF TypeOK
<1>2. None \notin {"skipped", "error", "aborted", "timeout", "failed", "decided"}
  BY BatchAssumption DEF Errors
<1>3. CASE UNCHANGED vars
  BY <1>3, FateSame DEF vars
<1>4. CASE OpenBatch
  BY <1>1, <1>4, FateSame DEF OpenBatch
<1>5. CASE SubmissionBreaks
  <2>1. CASE main[k] = "queued"
    <3>1. main'[k] = "done" /\ batch'.aborted = TRUE
      BY <1>1, <1>5, <2>1 DEF SubmissionBreaks
    <3>2. UNCHANGED <<ctx, dec, rec, order, result>>
      BY <1>5 DEF SubmissionBreaks
    <3>3. result[k] = None /\ Untouched(k)
      BY <2>1 DEF Fate, NotBegun
    <3> QED
      BY <3>1, <3>2, <3>3 DEF Fate, NotBegun, Untouched
  <2>2. CASE main[k] # "queued"
    BY <1>1, <1>5, <2>2, FateSame DEF SubmissionBreaks
  <2> QED
    BY <2>1, <2>2
<1>6. CASE CloseBatch
  <2>1. CASE result[k] # None
    <3>1. result'[k] = result[k] /\ batch'.aborted = batch.aborted
      BY <1>1, <1>6, <2>1 DEF CloseBatch, Answer
    <3> QED
      BY <1>6, <3>1, FateSame DEF CloseBatch
  <2>2. CASE result[k] = None
    <3>1. main[k] = "done" /\ batch.aborted
      BY <1>6, <2>2 DEF CloseBatch, Fate
    <3>2. result'[k] = "skipped"
      BY <1>6, <2>2, <3>1 DEF CloseBatch, Answer, Missing
    <3> QED
      BY <1>2, <1>6, <2>2, <3>1, <3>2 DEF CloseBatch, Fate, NotBegun, Untouched
  <2> QED
    BY <2>1, <2>2
<1>7. CASE ShutDown
  BY <1>7, FateSame DEF ShutDown
<1>8. ASSUME NEW j \in Sku, Begin(j) \/ Submit(j) \/ SubmitRaises(j) \/ Analyse(j)
      PROVE  Fate(k)'
  <2>1. CASE j = k
    <3>1. CASE Begin(k)
      BY <1>1, <1>2, <3>1 DEF Begin, Ends, Fate, NotBegun, Untouched
    <3>2. CASE Submit(k)
      <4>1. main'[k] = "analysing" /\ result' = result /\ batch' = batch
        BY <1>1, <3>2 DEF Submit
      <4>2. result[k] = None
        BY <3>2 DEF Submit, Fate
      <4> QED
        BY <4>1, <4>2 DEF Fate, NotBegun
    <3>3. CASE SubmitRaises(k)
      BY <1>1, <1>2, <3>3 DEF SubmitRaises, Ends, Fate, NotBegun, Untouched
    <3>4. CASE Analyse(k)
      <4>1. main'[k] = "joining" /\ result' = result /\ batch' = batch
        BY <1>1, <3>4 DEF Analyse
      <4>2. result[k] = None
        BY <3>4 DEF Analyse, Fate
      <4> QED
        BY <4>1, <4>2 DEF Fate, NotBegun
    <3> QED
      BY <1>8, <2>1, <3>1, <3>2, <3>3, <3>4
  <2>2. CASE j # k
    BY <1>1, <1>8, <2>2, FateSame DEF Begin, Submit, SubmitRaises, Analyse, Ends
  <2> QED
    BY <2>1, <2>2
<1>9. ASSUME NEW j \in Sku, Join(j) \/ Answered(j) \/ Timeout(j) PROVE Fate(k)'
  <2>1. CASE j = k
    BY <1>1, <1>2, <1>9, <2>1 DEF Join, Answered, Timeout, Ends, Fate, NotBegun
  <2>2. CASE j # k
    BY <1>1, <1>9, <2>2, FateSame DEF Join, Answered, Timeout, Ends
  <2> QED
    BY <2>1, <2>2
<1>10. ASSUME NEW j \in Sku, ContextOpens(j) \/ ContextEnds(j) \/ ContextFails(j)
       PROVE  Fate(k)'
  <2>1. CASE j = k
    <3>1. ctx[k].pc # "off"
      BY <1>10, <2>1 DEF ContextOpens, ContextEnds, ContextFails
    <3>2. UNCHANGED <<main, result, batch>>
      BY <1>10 DEF ContextOpens, ContextEnds, ContextFails
    <3> QED
      BY <3>1, <3>2 DEF Fate, NotBegun, Untouched
  <2>2. CASE j # k
    BY <1>1, <1>10, <2>2, FateSame DEF ContextOpens, ContextEnds, ContextFails
  <2> QED
    BY <2>1, <2>2
<1>11. ASSUME NEW j \in Sku,
             \/ DecisionStarts(j) \/ Decide(j) \/ Save(j) \/ Suggest(j) \/ CloseDecision(j)
             \/ DecisionRaises(j)
       PROVE  Fate(k)'
  <2>0. UNCHANGED <<main, result, batch, ctx>>
    BY <1>11 DEF DecisionStarts, Decide, Save, Suggest, CloseDecision, DecisionRaises
  <2>1. CASE j = k
    <3>1. dec[k].pc # "off"
      BY <1>11, <2>1 DEF DecisionStarts, Decide, Save, Suggest, CloseDecision, DecisionRaises
    <3> QED
      BY <2>0, <3>1 DEF Fate, NotBegun, Untouched
  <2>2. CASE j # k
    <3>1. dec'[k] = dec[k] /\ rec'[k] = rec[k] /\ order'[k] = order[k]
      BY <1>1, <1>11, <2>2
         DEF DecisionStarts, Decide, Save, Suggest, CloseDecision, DecisionRaises
    <3> QED
      BY <2>0, <3>1, FateSame
  <2> QED
    BY <2>1, <2>2
<1> QED
  BY <1>3, <1>4, <1>5, <1>6, <1>7, <1>8, <1>9, <1>10, <1>11 DEF Next

\* The products in error are as many as the faults at most: one more error takes one
\* more fault, and closing the batch adds none.
LEMMA FailedStep ==
    ASSUME TypeOK, \A k \in Sku : Fate(k), [Next]_vars, Cardinality(Failed) <= faults
    PROVE  Cardinality(Failed') <= faults' /\ faults <= faults'
<1>1. /\ main \in [Sku -> {"queued", "submitting", "analysing", "joining", "waiting", "done"}]
      /\ result \in [Sku -> Errors \cup {"decided", "skipped", None}]
      /\ faults \in Nat /\ MaxFaults \in Nat
  BY InputsAssumption DEF TypeOK
<1>2. IsFiniteSet(Failed) /\ Cardinality(Failed) \in Nat
  BY BatchAssumption, FS_Subset, FS_CardinalityType DEF Failed
<1>3. None # "error"
  BY BatchAssumption DEF Errors
<1>4. ASSUME Failed' \subseteq Failed, faults <= faults', faults' \in Nat
      PROVE  Cardinality(Failed') <= faults' /\ faults <= faults'
  <2>1. Cardinality(Failed') <= Cardinality(Failed) /\ Cardinality(Failed') \in Nat
    BY <1>2, <1>4, FS_Subset, FS_CardinalityType
  <2> QED
    BY <1>1, <1>2, <1>4, <2>1
<1>5. ASSUME UNCHANGED result, faults' \in {faults, faults + 1}
      PROVE  Cardinality(Failed') <= faults' /\ faults <= faults'
  BY <1>1, <1>4, <1>5 DEF Failed
<1>a. Works \/ Fails => faults' \in {faults, faults + 1}
  BY DEF Works, Fails
<1>6. CASE UNCHANGED vars \/ OpenBatch \/ SubmissionBreaks \/ ShutDown
  BY <1>5, <1>6, <1>a DEF vars, OpenBatch, Opens, SubmissionBreaks, ShutDown
<1>7. CASE CloseBatch
  <2>1. ASSUME NEW k \in Sku, result'[k] = "error" PROVE result[k] = "error"
    <3>1. result'[k] = Answer(k) /\ main[k] = "done"
      BY <1>7 DEF CloseBatch
    <3>2. result[k] # None
      BY <2>1, <3>1 DEF Answer, Missing, Fate
    <3> QED
      BY <2>1, <3>1, <3>2 DEF Answer
  <2>2. Failed' \subseteq Failed
    BY <2>1 DEF Failed
  <2>3. faults' \in {faults, faults + 1}
    BY <1>7, <1>a DEF CloseBatch, Closes
  <2> QED
    BY <1>1, <1>4, <2>2, <2>3
<1>8. ASSUME NEW j \in Sku, SubmitRaises(j)
      PROVE  Cardinality(Failed') <= faults' /\ faults <= faults'
  <2>1. Failed' \subseteq Failed \cup {j}
    BY <1>1, <1>8 DEF SubmitRaises, Ends, Failed
  <2>2. /\ IsFiniteSet(Failed \cup {j})
        /\ Cardinality(Failed \cup {j}) \in {Cardinality(Failed), Cardinality(Failed) + 1}
    BY <1>2, FS_AddElement
  <2>3. /\ Cardinality(Failed') <= Cardinality(Failed \cup {j})
        /\ Cardinality(Failed') \in Nat
    BY <2>1, <2>2, FS_Subset, FS_CardinalityType
  <2>4. faults' = faults + 1
    BY <1>8 DEF SubmitRaises, Fails
  <2> QED
    BY <1>1, <1>2, <2>2, <2>3, <2>4
<1>9. ASSUME NEW j \in Sku, Begin(j) \/ Join(j) \/ Answered(j) \/ Timeout(j)
      PROVE  Cardinality(Failed') <= faults' /\ faults <= faults'
  <2>1. Failed' \subseteq Failed
    BY <1>1, <1>9 DEF Begin, Join, Answered, Timeout, Ends, Failed
  <2>2. faults' = faults
    BY <1>9 DEF Begin, Join, Answered, Timeout
  <2> QED
    BY <1>1, <1>4, <2>1, <2>2
<1>10. ASSUME NEW j \in Sku,
             \/ Submit(j) \/ Analyse(j) \/ ContextOpens(j) \/ ContextEnds(j) \/ ContextFails(j)
       PROVE  Cardinality(Failed') <= faults' /\ faults <= faults'
  BY <1>5, <1>10, <1>a
     DEF Submit, Analyse, ContextOpens, ContextEnds, ContextFails, Opens, Closes
<1>11. ASSUME NEW j \in Sku,
             \/ DecisionStarts(j) \/ Decide(j) \/ Save(j) \/ Suggest(j) \/ CloseDecision(j)
             \/ DecisionRaises(j)
       PROVE  Cardinality(Failed') <= faults' /\ faults <= faults'
  BY <1>5, <1>11, <1>a
     DEF DecisionStarts, Decide, Save, Suggest, CloseDecision, DecisionRaises, Opens, Closes
<1> QED
  BY <1>6, <1>7, <1>8, <1>9, <1>10, <1>11 DEF Next

LEMMA CountedStep ==
    ASSUME TypeOK, \A k \in Sku : Fate(k), [Next]_vars, Counted
    PROVE  Counted'
<1>1. /\ main \in [Sku -> {"queued", "submitting", "analysing", "joining", "waiting", "done"}]
      /\ result \in [Sku -> Errors \cup {"decided", "skipped", None}]
      /\ batch \in [pc : {"new", "running", "closed"}, row : Row, aborted : BOOLEAN]
  BY DEF TypeOK
<1>2. Cardinality(Failed') <= faults'
  BY FailedStep DEF Counted
<1>3. ASSUME UNCHANGED <<batch, main, result>> PROVE Counted'
  BY <1>2, <1>3 DEF Counted, Failed
<1>4. CASE UNCHANGED vars \/ ShutDown
  BY <1>3, <1>4 DEF vars, ShutDown
<1>5. CASE OpenBatch
  BY <1>1, <1>2, <1>5 DEF OpenBatch, Opens, Counted
<1>6. CASE SubmissionBreaks
  BY <1>1, <1>2, <1>6 DEF SubmissionBreaks, Counted
<1>7. CASE CloseBatch
  <2>1. PICK row \in Row : /\ Closes(batch.row, BatchStatus, row)
                           /\ batch' = [batch EXCEPT !.pc = "closed", !.row = row]
    BY <1>7 DEF CloseBatch
  <2>2. batch'.pc = "closed" /\ batch'.row = row
    BY <1>1, <2>1
  <2>3. main' = main /\ \A k \in Sku : main[k] = "done"
    BY <1>7 DEF CloseBatch
  <2>4. batch.row # "failed"
    BY <1>7 DEF CloseBatch, Counted
  <2>5. ASSUME row = "failed" PROVE Failed' = Sku
    <3>1. BatchStatus = "failed"
      BY <2>1, <2>4, <2>5 DEF Closes
    <3>2. \A k \in Sku : Answer(k) = "error"
      BY <3>1 DEF BatchStatus
    <3> QED
      BY <1>7, <3>2 DEF CloseBatch, Failed
  <2> QED
    BY <1>2, <2>2, <2>3, <2>5 DEF Counted
<1>8. ASSUME NEW j \in Sku, main[j] # "done", UNCHANGED batch PROVE Counted'
  <2>1. batch.pc # "closed" /\ batch.row # "failed"
    BY <1>8 DEF Counted
  <2> QED
    BY <1>2, <1>8, <2>1 DEF Counted
<1>9. ASSUME NEW j \in Sku,
             Begin(j) \/ Submit(j) \/ SubmitRaises(j) \/ Analyse(j) \/ Join(j) \/ Answered(j)
             \/ Timeout(j)
      PROVE  Counted'
  BY <1>8, <1>9 DEF Begin, Submit, SubmitRaises, Analyse, Join, Answered, Timeout
<1>10. ASSUME NEW j \in Sku,
             \/ ContextOpens(j) \/ ContextEnds(j) \/ ContextFails(j)
             \/ DecisionStarts(j) \/ Decide(j) \/ Save(j) \/ Suggest(j) \/ CloseDecision(j)
             \/ DecisionRaises(j)
       PROVE  Counted'
  BY <1>3, <1>10 DEF ContextOpens, ContextEnds, ContextFails, DecisionStarts, Decide, Save,
                     Suggest, CloseDecision, DecisionRaises
<1> QED
  BY <1>4, <1>5, <1>6, <1>7, <1>9, <1>10 DEF Next

LEMMA FatesHold == Spec => [](TypeOK /\ (\A k \in Sku : Fate(k)) /\ Counted)
<1> DEFINE Inv == TypeOK /\ (\A k \in Sku : Fate(k)) /\ Counted
<1>1. Init => Inv
  <2> SUFFICES ASSUME Init PROVE Inv
    OBVIOUS
  <2>1. TypeOK
    BY TypeInit
  <2>2. \A k \in Sku : Fate(k)
    BY DEF Init, Fate, NotBegun, Untouched
  <2>3. Failed = {}
    BY BatchAssumption DEF Init, Failed, Errors
  <2>4. Counted
    BY <2>3, FS_EmptySet DEF Init, Counted
  <2> QED
    BY <2>1, <2>2, <2>4
<1>2. Inv /\ [Next]_vars => Inv'
  <2> SUFFICES ASSUME Inv, [Next]_vars PROVE Inv'
    OBVIOUS
  <2>1. TypeOK'
    BY TypeStep
  <2>2. \A k \in Sku : Fate(k)'
    BY FateStep
  <2>3. Counted'
    BY CountedStep
  <2> QED
    BY <2>1, <2>2, <2>3
<1> QED
  BY <1>1, <1>2, PTL DEF Spec

\* A product the shutdown kept from being treated has no run, no recommendation and no
\* order, wherever the shutdown came and whatever failed.
THEOREM SkippedLeavesNothing == Spec => []SkippedIsUntouched
<1>1. (\A k \in Sku : Fate(k)) => SkippedIsUntouched
  <2> SUFFICES ASSUME NEW k \in Sku, Fate(k), result[k] = "skipped" PROVE Untouched(k)
    BY DEF SkippedIsUntouched, Untouched
  <2>1. None # "skipped"
    BY BatchAssumption
  <2> QED
    BY <2>1 DEF Fate, NotBegun
<1> QED
  BY <1>1, FatesHold, PTL

\* A batch recorded as failed has a fault for each of its products: a shutdown alone, at
\* whatever point it comes, never makes a batch fail.
THEOREM ShutdownNeverFails == Spec => []ShutdownIsNotFailure
<1>1. Counted => ShutdownIsNotFailure
  BY DEF Counted, Failed, ShutdownIsNotFailure
<1> QED
  BY <1>1, FatesHold, PTL
=============================================================================
