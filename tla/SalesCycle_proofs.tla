-------------------------- MODULE SalesCycle_proofs --------------------------
(***************************************************************************)
(* Theorems about SalesCycle, for any stores, cycles, gaps and providers,  *)
(* and about SaleTrigger, one of the triggers that start such cycles.      *)
(***************************************************************************)
EXTENDS SalesCycle, SaleTrigger, SequenceTheorems, TLAPS

\* What is known of a cycle at each point of run_cycle.
Good(x) ==
    /\ x \in CycleState
    /\ x.pc # "ending" => x.plan = "none" /\ x.answer = "none"
    /\ x.pc = "call" => x.attempt <= Len(Chain)
    /\ x.gap >= 40 => x.urgent
    /\ x.pc = "ending" /\ x.plan = "none" =>
          x.answer = "malformed" \/ (~x.summary /\ x.answer = "none")
    /\ x.plan \in {"partial", "generic"} /\ x.gap >= 40 => x.review # "none"

Others ==
    /\ cron \in 0 .. Len(store_ids)
    /\ running \in BOOLEAN /\ link \in BOOLEAN /\ cooldown \in BOOLEAN
    /\ wire \subseteq Watched /\ debounced \subseteq Watched /\ asked \subseteq Watched

IInv ==
    /\ cycles \in [Cycle -> CycleState]
    /\ \A c \in Cycle : Good(cycles[c])
    /\ Others

----------------------------------------------------------------------------
(* The operators.                                                          *)

\* The chain of models is finite.
LEMMA ChainLength == Len(Chain) \in Nat
  <1> DEFINE M == {"ollama", "openrouter", "mistral"}
             first == IF USE_OPENROUTER THEN <<"openrouter">> ELSE <<>>
             second == IF MISTRAL_KEY THEN <<"mistral">> ELSE <<>>
  <1>a. <<>> \in Seq(M) /\ <<"openrouter">> \in Seq(M) /\ <<"mistral">> \in Seq(M)
    OBVIOUS
  <1>b. <<"ollama">> \in Seq(M)
    OBVIOUS
  <1>1. first \in Seq(M) /\ second \in Seq(M) /\ <<"ollama">> \in Seq(M)
    BY <1>a, <1>b, ProviderAssumption
  <1> HIDE DEF first, second, M
  <1>2. first \o second \in Seq(M)
    BY <1>1, ConcatProperties
  <1>3. <<"ollama">> \o (first \o second) \in Seq(M)
    BY <1>1, <1>2, ConcatProperties
  <1>4. (first \o second) \o <<"ollama">> \in Seq(M)
    BY <1>1, <1>2, ConcatProperties
  <1>5. Chain \in Seq(M)
    BY <1>3, <1>4 DEF Chain, first, second
  <1> QED BY <1>5

\* The gaps a cycle may have read are percentages.
LEMMA Gaps == ASSUME NEW g \in Gap \cup {0, 100} PROVE g \in 0 .. 100
  BY GapAssumption

\* Whatever the sources say, a gap of 40 % or more is read as urgent.
LEMMA ReadingsTyped ==
  ASSUME NEW r \in Readings
  PROVE  /\ r.gap \in Gap \cup {0, 100} /\ r.urgent \in BOOLEAN /\ r.summary \in BOOLEAN
         /\ r.gap >= 40 => r.urgent = TRUE
  <1>1. CASE \E g \in Gap : r \in Reading(g)
    <2>1. PICK g \in Gap : r \in Reading(g)
      BY <1>1
    <2>2. g \in 0 .. 100
      BY GapAssumption
    <2>3. r.gap = g /\ r.urgent \in {TRUE, g > 25} /\ r.summary = TRUE
      BY <2>1 DEF Reading
    <2>4. CASE r.urgent = TRUE
      BY <2>3, <2>4
    <2>5. CASE r.urgent = (g > 25)
      <3>1. CASE g > 25
        <4>1. (g > 25) = TRUE
          BY <3>1, Zenon
        <4>2. r.urgent = TRUE
          BY <2>5, <4>1, Zenon
        <4> QED BY <2>3, <4>2
      <3>2. CASE ~(g > 25)
        <4>1. (g > 25) = FALSE
          BY <2>2, <3>2
        <4>2. r.urgent = FALSE
          BY <2>5, <4>1, Zenon
        <4>3. ~(g >= 40)
          BY <2>2, <3>2
        <4> QED BY <2>3, <4>2, <4>3
      <3> QED BY <3>1, <3>2
    <2> QED BY <2>3, <2>4, <2>5
  <1>2. CASE \E g \in Gap : r = _linear_fallback(g)
    <2>1. PICK g \in Gap : r = _linear_fallback(g)
      BY <1>2
    <2>2. g \in 0 .. 100
      BY GapAssumption
    <2>3. CASE g > 30
      <3>a. (g > 30) = TRUE
        BY <2>3, Zenon
      <3>b. r = [gap |-> g, urgent |-> TRUE, summary |-> TRUE]
        BY <2>1, <3>a, Zenon DEF _linear_fallback
      <3>1. r.gap = g /\ r.urgent = TRUE /\ r.summary = TRUE
        BY <3>b
      <3> QED BY <3>1
    <2>4. CASE ~(g > 30)
      <3>a. (g > 30) = FALSE
        BY <2>2, <2>4
      <3>b. r = [gap |-> g, urgent |-> FALSE, summary |-> TRUE]
        BY <2>1, <3>a, Zenon DEF _linear_fallback
      <3>1. r.gap = g /\ r.urgent = FALSE /\ r.summary = TRUE
        BY <3>b
      <3>2. ~(g >= 40)
        BY <2>2, <2>4
      <3> QED BY <3>1, <3>2
    <2> QED BY <2>3, <2>4
  <1>3. CASE r = NoFigures
    <2>a. 100 > 30
      OBVIOUS
    <2>b. (100 > 30) = TRUE
      BY <2>a, Zenon
    <2>c. r = [gap |-> 100, urgent |-> TRUE, summary |-> TRUE]
      BY <1>3, <2>b, Zenon DEF NoFigures, _linear_fallback
    <2>1. r.gap = 100 /\ r.urgent = TRUE /\ r.summary = TRUE
      BY <2>c
    <2> QED BY <2>1
  <1>4. CASE r = NoReading
    BY <1>4 DEF NoReading
  <1>5. \/ r \in UNION {Reading(g) : g \in Gap}
        \/ r \in {_linear_fallback(g) : g \in Gap}
        \/ r = NoFigures
        \/ r = NoReading
    BY Zenon DEF Readings
  <1>6. r \in UNION {Reading(g) : g \in Gap} => \E g \in Gap : r \in Reading(g)
    BY Zenon
  <1>7. r \in {_linear_fallback(g) : g \in Gap} => \E g \in Gap : r = _linear_fallback(g)
    BY Zenon
  <1> QED BY <1>1, <1>2, <1>3, <1>4, <1>5, <1>6, <1>7

\* A plan in which no action is complete and none answers the gap.
Weak(plan) == plan.n \in 1 .. 3 /\ plan.complete = 0 /\ plan.covers = FALSE

\* It scores less than 720 and goes to review: at most 300 for its actions, none for
\* completeness, 120 for the impact and 180 for the scripts.
LEMMA WeakReviewed ==
  ASSUME NEW p, Weak(p), NEW gap \in 0 .. 100, gap >= 40, NEW urgent, urgent = TRUE,
         NEW rag \in Scripts
  PROVE  hitl_required(p, gap, urgent, rag)
  <1> DEFINE share == 420 \div (IF p.n = 0 THEN 1 ELSE p.n)
             impact == IF urgent /\ gap > 20 /\ ~p.covers THEN 120 ELSE 300
             scripts == IF gap > 20 /\ rag = "none" THEN 108 ELSE 180
  <1>1. p.n \in 1 .. 3
    BY DEF Weak
  <1>2. p.complete = 0
    BY DEF Weak
  <1>3. ~p.covers
    BY DEF Weak
  <1>4. CritiqueScore(p, gap, urgent, rag) = 100 * p.n + p.complete * share + impact + scripts
    BY DEF CritiqueScore
  <1>5. share \in Int
    <2>1. CASE p.n = 1 BY <2>1
    <2>2. CASE p.n = 2 BY <2>2
    <2>3. CASE p.n = 3 BY <2>3
    <2> QED BY <1>1, <2>1, <2>2, <2>3
  <1>6. impact = 120
    BY <1>3
  <1>7. scripts \in {108, 180}
    OBVIOUS
  <1> HIDE DEF share, impact, scripts
  <1>8. p.complete * share = 0
    BY <1>2, <1>5
  <1>9. 100 * p.n <= 300 /\ 100 * p.n \in Int
    BY <1>1
  <1>10. 100 * p.n + p.complete * share + impact + scripts < 720
    BY <1>6, <1>7, <1>8, <1>9
  <1>11. CritiqueScore(p, gap, urgent, rag) < 720
    BY <1>4, <1>10
  <1> QED BY <1>11 DEF hitl_required

\* Whatever the answer and the scripts, there is a plan; those of the weak kinds are weak.
LEMMA PlansMade ==
  ASSUME NEW answer \in Answers \cup {"none"}, NEW rag \in Scripts,
         NEW plan \in generate_strategy(answer, rag)
  PROVE  /\ plan.from \in {"model", "partial", "scripts", "generic"}
         /\ plan.from \in {"partial", "generic"} => Weak(plan)
  <1>1. CASE answer = "json"
    BY <1>1 DEF generate_strategy, PlansOf
  <1>2. CASE answer = "partial"
    <2>1. PICK n \in 1 .. 3 : plan = Plan("partial", n, 0, FALSE)
      BY <1>2 DEF generate_strategy, _extract_from_partial_json
    <2> QED BY <2>1 DEF Plan, Weak
  <1>3. CASE answer # "json" /\ answer # "partial"
    <2>1. plan \in _make_fallback_strategy(rag)
      BY <1>3 DEF generate_strategy
    <2>2. CASE rag = "named"
      BY <2>1, <2>2 DEF _make_fallback_strategy, PlansOf
    <2>3. CASE rag # "named"
      <3>1. plan = Plan("generic", 3, 0, FALSE)
        BY <2>1, <2>3 DEF _make_fallback_strategy
      <3> QED BY <3>1 DEF Plan, Weak
    <2> QED BY <2>2, <2>3
  <1> QED BY <1>1, <1>2, <1>3

\* The plans of the table, and the review of the weak ones.
LEMMA OutcomesReviewed ==
  ASSUME NEW answer \in Answers \cup {"none"}, NEW gap \in Gap \cup {0, 100},
         NEW urgent \in BOOLEAN, NEW o \in Outcomes[answer][gap][urgent]
  PROVE  /\ o.plan \in {"model", "partial", "scripts", "generic"}
         /\ o.review \in {"none", "asked"}
         /\ o.plan \in {"partial", "generic"} /\ urgent /\ gap >= 40 => o.review = "asked"
  <1>1. PICK rag \in Scripts : \E plan \in generate_strategy(answer, rag) :
          o = [plan |-> plan.from,
               review |-> IF hitl_required(plan, gap, urgent, rag) THEN "asked" ELSE "none"]
    BY DEF Outcomes
  <1>2. PICK plan \in generate_strategy(answer, rag) :
          o = [plan |-> plan.from,
               review |-> IF hitl_required(plan, gap, urgent, rag) THEN "asked" ELSE "none"]
    BY <1>1
  <1>3. o.plan = plan.from
    BY <1>2
  <1>4. o.review = IF hitl_required(plan, gap, urgent, rag) THEN "asked" ELSE "none"
    BY <1>2
  <1>5. /\ plan.from \in {"model", "partial", "scripts", "generic"}
        /\ plan.from \in {"partial", "generic"} => Weak(plan)
    BY PlansMade
  <1>6. ASSUME o.plan \in {"partial", "generic"}, urgent, gap >= 40
        PROVE  hitl_required(plan, gap, urgent, rag)
    <2>1. Weak(plan) /\ gap \in 0 .. 100 /\ gap >= 40
      BY <1>3, <1>5, <1>6, Gaps
    <2>2. urgent = TRUE
      BY <1>6
    <2> HIDE <1>6
    <2> QED BY <2>1, <2>2, WeakReviewed
  <1> QED BY <1>3, <1>4, <1>5, <1>6

----------------------------------------------------------------------------
(* The invariant.                                                          *)

\* A step that writes one cycle keeps what is known of the others.
LEMMA OneCycle ==
  ASSUME IInv, NEW c \in Cycle, NEW y, Good(y), cycles' = [cycles EXCEPT ![c] = y]
  PROVE  cycles' \in [Cycle -> CycleState] /\ \A d \in Cycle : Good(cycles'[d])
  BY DEF IInv, Good

\* What the analyst reads has its type.
LEMMA ReadingKept ==
  ASSUME NEW x \in CycleState, NEW g \in Gap \cup {0, 100}, NEW u \in BOOLEAN,
         NEW k \in BOOLEAN
  PROVE  [x EXCEPT !.pc = "ask", !.gap = g, !.urgent = u, !.summary = k] \in CycleState
  BY DEF CycleState

\* A cycle before it begins and after it ended.
LEMMA IdleGood ==
  ASSUME NEW r \in {"none", "asked", "sent"}
  PROVE  Good([Idle EXCEPT !.review = r])
  <1>1. store_ids[1] \in Store /\ 1 \in 1 .. Len(Chain) + 1
    BY StoresAssumption, ChainLength
  <1>2. [Idle EXCEPT !.review = r] \in CycleState
    BY <1>1 DEF Idle, CycleState
  <1> QED BY <1>2 DEF Good, Idle

LEMMA IdleItself == Good(Idle)
  <1>1. store_ids[1] \in Store /\ 1 \in 1 .. Len(Chain) + 1
    BY StoresAssumption, ChainLength
  <1>2. Idle \in CycleState
    BY <1>1 DEF Idle, CycleState
  <1> QED BY <1>2 DEF Good, Idle

LEMMA InitInv == Init => IInv
  <1> SUFFICES ASSUME Init PROVE IInv
    OBVIOUS
  <1>1. 1 \in 0 .. Len(store_ids)
    BY StoresAssumption
  <1>2. debounced \subseteq Watched
    <2>1. PICK recent \in BOOLEAN : debounced = IF recent THEN Watched ELSE {}
      BY DEF Init
    <2> QED BY <2>1
  <1>3. Others
    BY <1>1, <1>2 DEF Init, Others
  <1>4. Idle \in CycleState
    BY IdleItself DEF Good
  <1> QED BY <1>3, <1>4, IdleItself DEF Init, IInv

\* A cycle begins for a store.
LEMMA StartKeeps ==
  ASSUME IInv, NEW c \in Cycle, NEW s \in Store, Start(c, s)
  PROVE  /\ cycles' \in [Cycle -> CycleState] /\ \A d \in Cycle : Good(cycles'[d])
         /\ asked' \subseteq Watched
  <1> DEFINE y == [Idle EXCEPT !.pc = "analyste", !.store = s]
  <1>1. Idle \in CycleState
    BY IdleItself DEF Good
  <1>2. y \in CycleState
    BY <1>1 DEF CycleState
  <1>3. Good(y)
    BY <1>2 DEF Good, Idle
  <1>4. cycles' = [cycles EXCEPT ![c] = y] /\ asked' = asked \ {s}
    BY DEF Start
  <1> HIDE DEF y
  <1> QED BY <1>3, <1>4, OneCycle DEF IInv, Others

\* The next model of the chain.
LEMMA TryNextKeeps ==
  ASSUME IInv, NEW c \in Cycle, cycles[c].pc \in {"ask", "call"},
         cycles[c].attempt <= Len(Chain), TryNext(c)
  PROVE  cycles' \in [Cycle -> CycleState] /\ \A d \in Cycle : Good(cycles'[d])
  <1> DEFINE y == [cycles[c] EXCEPT !.pc = "ask", !.attempt = cycles[c].attempt + 1]
  <1>1. Good(cycles[c])
    BY DEF IInv
  <1>2. y.attempt \in 1 .. Len(Chain) + 1
    BY <1>1, ChainLength DEF Good, CycleState
  <1>3. y \in CycleState
    BY <1>1, <1>2 DEF Good, CycleState
  <1>4. Good(y)
    BY <1>1, <1>3 DEF Good, CycleState
  <1>5. cycles' = [cycles EXCEPT ![c] = y]
    BY DEF TryNext, IInv
  <1> HIDE DEF y
  <1> QED BY <1>4, <1>5, OneCycle

\* An answer, or none, is turned into a plan, or lost.
LEMMA ConcludeKeeps ==
  ASSUME IInv, NEW c \in Cycle, cycles[c].pc \in {"ask", "call"},
         NEW answer \in Answers \cup {"none"}, Conclude(c, answer)
  PROVE  cycles' \in [Cycle -> CycleState] /\ \A d \in Cycle : Good(cycles'[d])
  <1> DEFINE x == cycles[c]
             over == [x EXCEPT !.pc = "ending", !.attempt = 1, !.answer = answer]
  <1>1. Good(x)
    BY DEF IInv
  <1>2. x \in CycleState /\ x.plan = "none" /\ (x.gap >= 40 => x.urgent)
    BY <1>1 DEF Good
  <1>a. 1 \in 1 .. Len(Chain) + 1
    BY ChainLength
  <1>3. over \in CycleState
    BY <1>2, <1>a DEF CycleState
  <1>4. over.pc = "ending" /\ over.plan = "none" /\ over.answer = answer
        /\ over.gap = x.gap /\ over.urgent = x.urgent
    BY <1>2 DEF CycleState
  <1>5. CASE answer = "malformed"
    <2>1. Good(over)
      BY <1>2, <1>3, <1>4, <1>5 DEF Good
    <2>2. cycles' = [cycles EXCEPT ![c] = over]
      BY <1>5 DEF Conclude
    <2> HIDE DEF over
    <2> QED BY <2>1, <2>2, OneCycle
  <1>6. CASE answer # "malformed"
    <2>1. PICK o \in Outcomes[answer][over.gap][over.urgent] :
            cycles' = [cycles EXCEPT ![c] = [over EXCEPT !.plan = o.plan, !.review = o.review]]
      BY <1>6 DEF Conclude
    <2> DEFINE y == [over EXCEPT !.plan = o.plan, !.review = o.review]
    <2>2. over.gap \in Gap \cup {0, 100} /\ over.urgent \in BOOLEAN
      BY <1>3 DEF CycleState
    <2>3. /\ o.plan \in {"model", "partial", "scripts", "generic"}
          /\ o.review \in {"none", "asked"}
          /\ o.plan \in {"partial", "generic"} /\ over.urgent /\ over.gap >= 40
               => o.review = "asked"
      BY <2>2, OutcomesReviewed
    <2> HIDE DEF over
    <2>4. y \in CycleState
      BY <1>3, <2>3, ZenonT(60) DEF CycleState
    <2>5. y.plan = o.plan /\ y.review = o.review /\ y.gap = over.gap
          /\ y.urgent = over.urgent /\ y.pc = "ending"
      BY <1>3, <1>4 DEF CycleState
    <2>6. y.gap >= 40 => y.urgent
      BY <1>2, <1>4, <2>5
    <2>7. Good(y)
      BY <2>3, <2>4, <2>5, <2>6 DEF Good
    <2> HIDE DEF y
    <2> QED BY <2>1, <2>7, OneCycle DEF y
  <1> QED BY <1>5, <1>6

\* Every step of the cycles and of what starts them keeps the invariant.
LEMMA NextInv == IInv /\ [Next]_vars => IInv'
  <1> SUFFICES ASSUME IInv, [Next]_vars PROVE IInv'
    OBVIOUS
  <1> DEFINE Kept == cycles' \in [Cycle -> CycleState] /\ \A d \in Cycle : Good(cycles'[d])
  <1>a. Kept /\ Others' => IInv'
    BY DEF IInv
  <1>b. Others
    BY DEF IInv
  <1>c. ASSUME UNCHANGED cycles PROVE Kept
    BY <1>c DEF IInv
  <1>d. Len(store_ids) \in Nat \ {0}
    BY StoresAssumption
  <1>e. ASSUME NEW c \in Cycle, After(c), UNCHANGED <<triggers, cooldown, asked>>
        PROVE  Others'
    <2>1. cron \in 0 .. Len(store_ids)
      BY <1>b DEF Others
    <2>2. cron' \in 0 .. Len(store_ids)
      BY <1>d, <1>e, <2>1 DEF After
    <2> QED BY <1>b, <1>e, <2>2 DEF Others, triggers
  <1>f. ASSUME UNCHANGED <<cron, triggers, cooldown, asked>> PROVE Others'
    BY <1>b, <1>f DEF Others, triggers
  <1>g. ASSUME NEW c \in Cycle PROVE Good(cycles[c]) /\ cycles[c] \in CycleState
    BY DEF IInv, Good
  <1>h. ASSUME NEW c \in Cycle,
               cycles' = [cycles EXCEPT ![c] =
                 [Idle EXCEPT !.review = IF cycles[c].review = "asked" THEN "asked" ELSE "none"]]
        PROVE  Kept
    <2> DEFINE r == IF cycles[c].review = "asked" THEN "asked" ELSE "none"
    <2>1. Good([Idle EXCEPT !.review = r])
      BY IdleGood
    <2> DEFINE y == [Idle EXCEPT !.review = r]
    <2>2. cycles' = [cycles EXCEPT ![c] = y] /\ Good(y)
      BY <1>h, <2>1
    <2> HIDE DEF y
    <2> QED BY <2>2, OneCycle
  <1>1. ASSUME NEW c \in Cycle, _run_analyst(c) PROVE IInv'
    <2>1. PICK r \in Readings :
            cycles' = [cycles EXCEPT ![c].pc = "ask", ![c].gap = r.gap,
                                     ![c].urgent = r.urgent, ![c].summary = r.summary]
      BY <1>1 DEF _run_analyst
    <2>2. /\ r.gap \in Gap \cup {0, 100} /\ r.urgent \in BOOLEAN /\ r.summary \in BOOLEAN
          /\ r.gap >= 40 => r.urgent = TRUE
      BY ReadingsTyped
    <2> DEFINE y == [cycles[c] EXCEPT !.pc = "ask", !.gap = r.gap, !.urgent = r.urgent,
                                      !.summary = r.summary]
    <2>3. cycles[c].plan = "none" /\ cycles[c].answer = "none"
      BY <1>1, <1>g DEF Good, _run_analyst
    <2>4. y \in CycleState
      BY <1>g, <2>2, ReadingKept
    <2>5. y.pc = "ask" /\ y.gap = r.gap /\ y.urgent = r.urgent /\ y.plan = "none"
          /\ y.answer = "none"
      BY <1>g, <2>3 DEF CycleState
    <2>6. Good(y)
      BY <2>2, <2>4, <2>5 DEF Good
    <2>7. cycles' = [cycles EXCEPT ![c] = y]
      BY <2>1 DEF IInv
    <2> HIDE DEF y
    <2>8. Kept
      BY <2>6, <2>7, OneCycle
    <2> QED BY <1>1, <1>a, <1>f, <2>8 DEF _run_analyst
  <1>2. ASSUME NEW c \in Cycle, Ask(c) PROVE IInv'
    <2>1. cycles[c].pc = "ask" /\ cycles[c].attempt \in 1 .. Len(Chain) + 1
      BY <1>2, <1>g DEF Ask, CycleState
    <2>2. CASE Conclude(c, "none")
      <3>1. Kept
        BY <2>1, <2>2, ConcludeKeeps
      <3> QED BY <1>2, <1>a, <1>f, <3>1 DEF Ask
    <2>3. CASE ~(cycles[c].attempt > Len(Chain)) /\ TryNext(c)
      <3>1. Kept
        BY <2>1, <2>3, ChainLength, TryNextKeeps
      <3> QED BY <1>2, <1>a, <1>f, <3>1 DEF Ask
    <2>4. CASE ~(cycles[c].attempt > Len(Chain)) /\ cycles' = [cycles EXCEPT ![c].pc = "call"]
      <3> DEFINE y == [cycles[c] EXCEPT !.pc = "call"]
      <3>1. y \in CycleState
        BY <1>g DEF CycleState
      <3>2. y.pc = "call" /\ y.attempt <= Len(Chain) /\ y.gap = cycles[c].gap
            /\ y.urgent = cycles[c].urgent /\ y.plan = "none" /\ y.answer = "none"
        BY <1>g, <2>1, <2>4, ChainLength DEF Good, CycleState
      <3>3. Good(y)
        BY <1>g, <3>1, <3>2 DEF Good
      <3>4. cycles' = [cycles EXCEPT ![c] = y]
        BY <2>4 DEF IInv
      <3> HIDE DEF y
      <3>5. Kept
        BY <3>3, <3>4, OneCycle
      <3> QED BY <1>2, <1>a, <1>f, <3>5 DEF Ask
    <2> QED BY <1>2, <2>2, <2>3, <2>4 DEF Ask
  <1>2a. ASSUME NEW c \in Cycle, _run_stratege_raises(c) PROVE IInv'
    <2> DEFINE y == [cycles[c] EXCEPT !.pc = "ending"]
    <2>1. cycles[c].pc = "ask" /\ ~cycles[c].summary
      BY <1>2a DEF _run_stratege_raises
    <2>2. y \in CycleState
      BY <1>g DEF CycleState
    <2>3. y.pc = "ending" /\ y.plan = "none" /\ y.answer = "none" /\ ~y.summary
          /\ y.gap = cycles[c].gap /\ y.urgent = cycles[c].urgent
      BY <1>g, <2>1 DEF Good, CycleState
    <2>4. Good(y)
      BY <1>g, <2>2, <2>3 DEF Good
    <2>5. cycles' = [cycles EXCEPT ![c] = y]
      BY <1>2a DEF _run_stratege_raises, IInv
    <2> HIDE DEF y
    <2>6. Kept
      BY <2>4, <2>5, OneCycle
    <2> QED BY <1>2a, <1>a, <1>f, <2>6 DEF _run_stratege_raises
  <1>3. ASSUME NEW c \in Cycle, ModelAnswers(c) PROVE IInv'
    <2>1. PICK a \in Answers : Conclude(c, a)
      BY <1>3 DEF ModelAnswers
    <2>2. cycles[c].pc = "call"
      BY <1>3 DEF ModelAnswers
    <2>3. Kept
      BY <2>1, <2>2, ConcludeKeeps
    <2> QED BY <1>3, <1>a, <1>f, <2>3 DEF ModelAnswers
  <1>4. ASSUME NEW c \in Cycle, ModelFails(c) PROVE IInv'
    <2>1. cycles[c].pc = "call" /\ cycles[c].attempt <= Len(Chain) /\ TryNext(c)
      BY <1>4, <1>g DEF ModelFails, Good
    <2>2. Kept
      BY <2>1, TryNextKeeps
    <2> QED BY <1>4, <1>a, <1>f, <2>2 DEF ModelFails
  <1>5. ASSUME NEW c \in Cycle, RotationExhausted(c) PROVE IInv'
    <2>1. cycles[c].pc = "call" /\ cycles[c].attempt <= Len(Chain) /\ TryNext(c)
      BY <1>5, <1>g DEF RotationExhausted, Good
    <2>2. Kept
      BY <2>1, TryNextKeeps
    <2>3. Others'
      BY <1>5, <1>b DEF RotationExhausted, Others, triggers
    <2> QED BY <1>a, <2>2, <2>3
  <1>6. ASSUME NEW c \in Cycle, EndCycle(c) PROVE IInv'
    BY <1>6, <1>a, <1>e, <1>h DEF EndCycle
  <1>7. ASSUME NEW c \in Cycle, CycleRaises(c) PROVE IInv'
    <2>1. Kept
      BY <1>7, IdleItself, OneCycle DEF CycleRaises
    <2> QED BY <1>7, <1>a, <1>e, <2>1 DEF CycleRaises
  <1>8. ASSUME NEW c \in Cycle, submit_hitl_review(c) PROVE IInv'
    <2> DEFINE r == IF cycles[c].pc = "idle" THEN "none" ELSE "sent"
               y == [cycles[c] EXCEPT !.review = r]
    <2>1. y \in CycleState
      BY <1>g DEF CycleState
    <2>2. y.review = r /\ y.pc = cycles[c].pc /\ y.plan = cycles[c].plan
          /\ y.gap = cycles[c].gap /\ y.urgent = cycles[c].urgent
          /\ y.attempt = cycles[c].attempt /\ y.answer = cycles[c].answer
          /\ y.summary = cycles[c].summary
      BY <1>g DEF CycleState
    <2>3. y.plan \in {"partial", "generic"} => y.review # "none"
      BY <1>g, <2>2 DEF Good
    <2>4. Good(y)
      BY <1>g, <2>1, <2>2, <2>3 DEF Good
    <2>5. cycles' = [cycles EXCEPT ![c] = y]
      BY <1>8 DEF submit_hitl_review, IInv
    <2> HIDE DEF y
    <2>6. Kept
      BY <2>4, <2>5, OneCycle
    <2> QED BY <1>8, <1>a, <1>f, <2>6 DEF submit_hitl_review
  <1>9. ASSUME NEW c \in Cycle, NEW s \in Watched, RequestCycle(c, s) PROVE IInv'
    <2>1. Kept /\ asked' \subseteq Watched
      BY <1>9, WatchedAssumption, StartKeeps DEF RequestCycle
    <2>2. Others'
      BY <1>9, <1>b, <2>1 DEF RequestCycle, Others, triggers
    <2> QED BY <1>a, <2>1, <2>2
  <1>10. ASSUME NEW s \in Watched, publish_stock_alert(s) PROVE IInv'
    <2>1. Kept
      BY <1>10, <1>c DEF publish_stock_alert
    <2>2. wire' \subseteq Watched
      BY <1>10, <1>b DEF publish_stock_alert, Others
    <2>3. Others'
      BY <1>10, <1>b, <2>2 DEF publish_stock_alert, Others
    <2> QED BY <1>a, <2>1, <2>3
  <1>11. ASSUME NEW s \in Watched, _handle_message(s) PROVE IInv'
    <2>1. CASE s \in debounced
      <3>1. Kept
        BY <1>11, <1>c, <2>1 DEF _handle_message
      <3>2. Others'
        BY <1>11, <1>b, <2>1 DEF _handle_message, Others
      <3> QED BY <1>a, <3>1, <3>2
    <2>2. CASE s \notin debounced
      <3>1. PICK c \in Cycle \ {CronCycle} : Start(c, s)
        BY <1>11, <2>2 DEF _handle_message
      <3>2. Kept /\ asked' \subseteq Watched
        BY <3>1, WatchedAssumption, StartKeeps
      <3>3. Others'
        BY <1>11, <1>b, <2>2, <3>2 DEF _handle_message, Others
      <3> QED BY <1>a, <3>2, <3>3
    <2> QED BY <2>1, <2>2
  <1>12. ASSUME NEW s \in Watched, DebounceEnds(s) PROVE IInv'
    <2>1. Others'
      BY <1>12, <1>b DEF DebounceEnds, Others
    <2> QED BY <1>12, <1>a, <1>c, <2>1 DEF DebounceEnds
  <1>13. CASE CronFires
    <2>1. store_ids[cron] \in Store
      BY <1>13, <1>b, StoresAssumption DEF CronFires, Others
    <2>2. Kept /\ asked' \subseteq Watched
      BY <1>13, <2>1, CycleAssumption, StartKeeps DEF CronFires
    <2>3. Others'
      BY <1>13, <1>b, <2>2 DEF CronFires, Others, triggers
    <2> QED BY <1>a, <2>2, <2>3
  <1>14. CASE CronWakes
    <2>1. Others'
      BY <1>14, <1>b, <1>d DEF CronWakes, Others, triggers
    <2> QED BY <1>14, <1>a, <1>c, <2>1 DEF CronWakes
  <1>15. CASE Subscribe
    <2>1. Others'
      BY <1>15, <1>b DEF Subscribe, Others
    <2> QED BY <1>15, <1>a, <1>c, <2>1 DEF Subscribe
  <1>16. CASE LinkBreaks
    <2>1. Others'
      BY <1>16, <1>b DEF LinkBreaks, Others
    <2> QED BY <1>16, <1>a, <1>c, <2>1 DEF LinkBreaks
  <1>17. CASE CooldownEnds
    <2>1. Others'
      BY <1>17, <1>b DEF CooldownEnds, Others, triggers
    <2> QED BY <1>17, <1>a, <1>c, <2>1 DEF CooldownEnds
  <1>18. CASE Stop
    <2>1. Kept
      BY <1>18, <1>h, CycleAssumption DEF Stop
    <2>2. /\ running' = FALSE /\ cron' = 0 /\ link' = FALSE /\ wire' = {}
          /\ UNCHANGED <<debounced, cooldown, asked>>
      BY <1>18 DEF Stop
    <2>3. 0 \in 0 .. Len(store_ids)
      BY <1>d
    <2>4. Others'
      BY <1>b, <2>2, <2>3 DEF Others
    <2> QED BY <1>a, <2>1, <2>4
  <1>19. CASE UNCHANGED vars
    <2>1. Others'
      BY <1>19, <1>b DEF vars, Others
    <2> QED BY <1>19, <1>a, <1>c, <2>1 DEF vars
  <1> QED
    BY <1>1, <1>2, <1>3, <1>4, <1>5, <1>6, <1>7, <1>8, <1>9, <1>10, <1>11, <1>12, <1>13,
       <1>14, <1>15, <1>16, <1>17, <1>18, <1>19, <1>2a DEF Next, CycleStep

----------------------------------------------------------------------------
(* The theorems.                                                           *)

\* What is known of the cycles and of their triggers holds in every state.
THEOREM Invariance == Spec => []IInv
  <1>1. Init => IInv
    BY InitInv
  <1>2. IInv /\ [Next]_vars => IInv'
    BY NextInv
  <1> QED BY <1>1, <1>2, PTL DEF Spec

\* The state of the cycles and of their triggers has its type.
THEOREM TypeCorrect == Spec => []TypeOK
  <1>1. IInv => TypeOK
    BY DEF IInv, Others, TypeOK
  <1> QED BY <1>1, Invariance, PTL

\* For any number of concurrent cycles, any chain of models and any failures of theirs, a
\* cycle has actions to propose unless its analyst raised or the answer was of another shape.
THEOREM AlwaysAPlan == Spec => []PlanSurvivesOutage
  <1>1. IInv => PlanSurvivesOutage
    BY DEF IInv, Good, PlanSurvivesOutage
  <1> QED BY <1>1, Invariance, PTL

\* For any gap of 40 % or more, a plan pieced together or of general advice has its review.
THEOREM WeakAlwaysReviewed == Spec => []WeakPlanIsReviewed
  <1>1. IInv => WeakPlanIsReviewed
    BY DEF IInv, Good, WeakPlanIsReviewed
  <1> QED BY <1>1, Invariance, PTL

----------------------------------------------------------------------------
(***************************************************************************)
(* The sale trigger (sale_trigger.py), which starts cycles of its own, for *)
(* every configuration of the windows and every set of analyses.           *)
(***************************************************************************)

(***************************************************************************)
(* Why nothing waits and nothing hurries.  TriggerBurst: the ages of a     *)
(* burst of pending sales are ordered, and it began after the last         *)
(* analysis.  TriggerWake: when the loop has run in this unit and created  *)
(* no task, either the burst is younger than the ceiling or the lock has   *)
(* only just been freed.                                                   *)
(***************************************************************************)
TriggerBurst ==
    /\ pending => saleAge <= firstAge /\ firstAge <= analysisAge
    /\ spawned => phase = "idle" /\ analysisAge >= Debounce

TriggerWake ==
    /\ ~pending => freeWait = 0
    /\ phase # "idle" => freeWait = 0
    /\ freeWait <= firstAge
    /\ looping /\ ~due /\ ~spawned /\ pending /\ phase = "idle"
          => firstAge < MaxWait \/ freeWait = 0

TriggerIInv == TriggerTypeOK /\ TriggerBurst /\ TriggerWake /\ CapHolds

USE ConfigAssumption DEF ConfigAssumption

LEMMA OlderBounds ==
  ASSUME NEW age \in 0..Horizon
  PROVE  /\ Older(age) \in 0..Horizon /\ age <= Older(age)
         /\ \A other \in 0..Horizon : age <= other => Older(age) <= Older(other)
         /\ \A n \in Nat : n < Horizon /\ n <= age => n + 1 <= Older(age)
<1>1. Older(age) \in 0..Horizon /\ age <= Older(age)
  BY DEF Older
<1>2. ASSUME NEW other \in 0..Horizon, age <= other
      PROVE  Older(age) <= Older(other)
  BY <1>2 DEF Older
<1>3. ASSUME NEW n \in Nat, n < Horizon, n <= age
      PROVE  n + 1 <= Older(age)
  BY <1>3 DEF Older
<1> QED BY <1>1, <1>2, <1>3

LEMMA TriggerInitIInv ==
  ASSUME TriggerInit
  PROVE  TriggerIInv
<1>1. /\ looping \in BOOLEAN /\ due \in BOOLEAN /\ spawned \in BOOLEAN
      /\ pending \in BOOLEAN /\ everFull \in BOOLEAN
  BY Zenon DEF TriggerInit
<1>2. TriggerTypeOK
  BY <1>1 DEF TriggerInit, TriggerTypeOK
<1>3. TriggerBurst /\ TriggerWake /\ CapHolds
  BY DEF TriggerInit, TriggerBurst, TriggerWake, CapHolds
<1> QED BY <1>2, <1>3 DEF TriggerIInv

----------------------------------------------------------------------------
LEMMA NotifySaleIInv ==
  ASSUME TriggerIInv, NotifySale
  PROVE  TriggerIInv'
<1>1. CASE pending
  BY <1>1 DEF TriggerIInv, TriggerTypeOK, TriggerBurst, TriggerWake,
     CapHolds, NotifySale, stateVars
<1>2. CASE ~pending
  BY <1>2 DEF TriggerIInv, TriggerTypeOK, TriggerBurst, TriggerWake,
     CapHolds, NotifySale, stateVars
<1> QED BY <1>1, <1>2

\* Time passes only when the loop has run: this is where the ceiling is used.
LEMMA AdvanceIInv ==
  ASSUME TriggerIInv, Advance
  PROVE  TriggerIInv'
<1>1. /\ firstAge' \in 0..Horizon /\ saleAge' \in 0..Horizon
      /\ analysisAge' \in 0..Horizon /\ fullAge' \in 0..Horizon
      /\ analysisAge <= analysisAge' /\ firstAge <= firstAge'
      /\ saleAge <= firstAge => saleAge' <= firstAge'
      /\ firstAge <= analysisAge => firstAge' <= analysisAge'
  BY OlderBounds DEF TriggerIInv, TriggerTypeOK, Advance
<1>2. TriggerTypeOK'
  BY <1>1 DEF TriggerIInv, TriggerTypeOK, Advance, stateVars
<1>3. TriggerBurst'
  BY <1>1 DEF TriggerIInv, TriggerTypeOK, TriggerBurst, Advance
<1>4. CASE looping /\ pending /\ phase = "idle"
  <2>1. freeWait < MaxWait /\ freeWait <= firstAge /\ freeWait' = freeWait + 1
    BY <1>4 DEF TriggerIInv, TriggerTypeOK, TriggerWake, CapHolds,
       Advance
  <2>2. freeWait' <= firstAge'
    BY <2>1, OlderBounds DEF TriggerIInv, TriggerTypeOK, Advance
  <2>3. TriggerWake' /\ CapHolds'
    BY <1>4, <2>1, <2>2 DEF TriggerIInv, TriggerTypeOK, TriggerWake,
       CapHolds, Advance
  <2> QED BY <1>2, <1>3, <2>3 DEF TriggerIInv
<1>5. CASE ~(looping /\ pending /\ phase = "idle")
  <2>1. UNCHANGED <<freeWait, looping, pending, phase>>
    BY <1>5 DEF Advance
  <2>2. TriggerWake' /\ CapHolds'
    BY <1>1, <1>5, <2>1 DEF TriggerIInv, TriggerTypeOK, TriggerWake,
       CapHolds
  <2> QED BY <1>2, <1>3, <2>2 DEF TriggerIInv
<1> QED BY <1>4, <1>5

LEMMA LoopWakesIInv ==
  ASSUME TriggerIInv, LoopWakes
  PROVE  TriggerIInv'
<1>1. UNCHANGED <<looping, phase, pending, clockVars, stateVars, freeWait,
                  tracked, advised>>
  BY DEF LoopWakes
<1>2. spawned' \in BOOLEAN /\ due' = FALSE /\ (spawned' <=> spawned \/ ShouldAnalyze)
  BY DEF LoopWakes, TriggerIInv, TriggerTypeOK
<1>3. TriggerTypeOK'
  BY <1>1, <1>2 DEF TriggerIInv, TriggerTypeOK, clockVars,
     stateVars
<1>4. ShouldAnalyze => phase = "idle" /\ analysisAge >= Debounce
  BY DEF ShouldAnalyze, Quiet, Capped, TriggerIInv,
     TriggerTypeOK, TriggerBurst
<1>5. pending /\ phase = "idle" /\ ~ShouldAnalyze => firstAge < MaxWait
  BY DEF ShouldAnalyze, Capped, TriggerIInv, TriggerTypeOK
<1>6. TriggerBurst' /\ TriggerWake' /\ CapHolds'
  BY <1>1, <1>2, <1>4, <1>5 DEF TriggerIInv, TriggerBurst, TriggerWake,
     CapHolds, clockVars
<1> QED BY <1>3, <1>6 DEF TriggerIInv

LEMMA BeginAnalysisIInv ==
  ASSUME TriggerIInv, BeginAnalysis
  PROVE  TriggerIInv'
<1>1. tracked' \in {"none", "waiting", "read", "shown"}
  BY DEF TriggerIInv, TriggerTypeOK, BeginAnalysis
<1>2. /\ spawned' \in BOOLEAN /\ pending' \in BOOLEAN
      /\ UNCHANGED <<looping, due, everFull>>
  BY Zenon DEF BeginAnalysis, stateVars
<1>3. TriggerTypeOK'
  BY <1>1, <1>2 DEF TriggerIInv, TriggerTypeOK, BeginAnalysis,
     stateVars
<1>4. TriggerBurst' /\ TriggerWake' /\ CapHolds'
  BY DEF TriggerIInv, TriggerTypeOK, TriggerBurst, TriggerWake, CapHolds,
     BeginAnalysis
<1> QED BY <1>3, <1>4 DEF TriggerIInv

LEMMA HolderIInv ==
  ASSUME TriggerIInv, AnalysisFails \/ SomeAnalysis \/ EndPush
  PROVE  TriggerIInv'
<1> USE DEF clockVars, stateVars
<1>1. CASE AnalysisFails
  BY <1>1 DEF TriggerIInv, TriggerTypeOK, TriggerBurst, TriggerWake,
     CapHolds, AnalysisFails
<1>2. CASE SomeAnalysis
  BY <1>2 DEF TriggerIInv, TriggerTypeOK, TriggerBurst, TriggerWake,
     CapHolds, SomeAnalysis, AnalysisSucceeds
<1>3. CASE EndPush
  <2>1. /\ tracked' \in {"none", "waiting", "read", "shown"}
        /\ phase' \in {"idle", "cycle"}
    BY <1>3 DEF TriggerIInv, TriggerTypeOK, EndPush
  <2>2. fullAge' \in 0..Horizon
    BY <1>3 DEF TriggerIInv, TriggerTypeOK, EndPush
  <2>3. everFull' \in BOOLEAN
    BY <1>3, Zenon DEF TriggerIInv, TriggerTypeOK, EndPush
  <2>4. TriggerTypeOK'
    BY <1>3, <2>1, <2>2, <2>3 DEF TriggerIInv, TriggerTypeOK, EndPush
  <2>5. TriggerBurst' /\ TriggerWake' /\ CapHolds'
    BY <1>3 DEF TriggerIInv, TriggerTypeOK, TriggerBurst, TriggerWake,
       CapHolds, EndPush
  <2> QED BY <2>4, <2>5 DEF TriggerIInv
<1> QED BY <1>1, <1>2, <1>3

LEMMA EndCycleIInv ==
  ASSUME TriggerIInv, NEW ok \in BOOLEAN, EndFullCycle(ok)
  PROVE  TriggerIInv'
<1>1. last.urgency \in Nat
  BY AnalysesAssumption DEF AnalysesAssumption, TriggerIInv, TriggerTypeOK, NoAnalysis
<1>2. advised' \in Nat
  BY <1>1 DEF TriggerIInv, TriggerTypeOK, EndFullCycle
<1> QED BY <1>2 DEF TriggerIInv, TriggerTypeOK, TriggerBurst, TriggerWake,
           CapHolds, EndFullCycle, clockVars, stateVars

LEMMA StopIInv ==
  ASSUME TriggerIInv, StopTrigger
  PROVE  TriggerIInv'
<1>1. /\ looping' \in BOOLEAN /\ due' \in BOOLEAN
      /\ UNCHANGED <<spawned, pending, everFull>>
  BY Zenon DEF StopTrigger, stateVars
<1>2. TriggerTypeOK'
  BY <1>1 DEF TriggerIInv, TriggerTypeOK, StopTrigger, clockVars,
     stateVars
<1>3. TriggerBurst' /\ TriggerWake' /\ CapHolds'
  BY DEF TriggerIInv, TriggerTypeOK, TriggerBurst, TriggerWake, CapHolds,
     StopTrigger, clockVars, stateVars
<1> QED BY <1>2, <1>3 DEF TriggerIInv

LEMMA TriggerNextIInv ==
  ASSUME TriggerIInv, [TriggerNext]_triggerVars
  PROVE  TriggerIInv'
<1>1. CASE UNCHANGED triggerVars
  BY <1>1 DEF TriggerIInv, TriggerTypeOK, TriggerBurst, TriggerWake,
     CapHolds, triggerVars, clockVars, stateVars
<1> QED BY <1>1, NotifySaleIInv, AdvanceIInv, LoopWakesIInv, BeginAnalysisIInv,
           HolderIInv, EndCycleIInv, StopIInv DEF TriggerNext

\* What the ages, the tasks and the lock say of one another holds in every state.
THEOREM TriggerInvariance == TriggerSpec => []TriggerIInv
<1>1. TriggerIInv /\ [TriggerNext]_triggerVars => TriggerIInv'
  BY TriggerNextIInv
<1>2. TriggerInit => TriggerIInv
  BY TriggerInitIInv
<1> QED BY <1>1, <1>2, PTL DEF TriggerSpec

\* Every variable of the trigger keeps its type.
THEOREM TriggerTypeCorrect == TriggerSpec => []TriggerTypeOK
<1>1. TriggerIInv => TriggerTypeOK
  BY DEF TriggerIInv
<1> QED BY <1>1, TriggerInvariance, PTL

\* No sale waits longer than max_wait_s on a free lock, for any windows.
THEOREM CapAlwaysHolds == TriggerSpec => []CapHolds
<1>1. TriggerIInv => CapHolds
  BY DEF TriggerIInv
<1> QED BY <1>1, TriggerInvariance, PTL

\* Two analyses start at least a debounce window apart, for any windows.
THEOREM AlwaysCoalesced == TriggerSpec => Coalesced
<1>1. TriggerIInv /\ [TriggerNext]_triggerVars
        => [BeginAnalysis => analysisAge >= Debounce]_triggerVars
  BY DEF TriggerIInv, TriggerBurst, BeginAnalysis
<1> QED BY <1>1, TriggerInvariance, PTL DEF TriggerSpec, Coalesced
=============================================================================
