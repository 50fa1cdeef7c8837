----------------------- MODULE PurchaseOrders_proofs -----------------------
(***************************************************************************)
(* Proofs about PurchaseOrders, for any number of orders, recommendations, *)
(* sessions and quantities.                                                *)
(***************************************************************************)
EXTENDS PurchaseOrders, TLAPS

(***************************************************************************)
(* What each call in flight knows: which rows it is about, who may run it, *)
(* and that nothing ever moves a card into SUGGERE, so that a card the     *)
(* tools have seen outside SUGGERE stays outside.                          *)
(***************************************************************************)
JobInv ==
    /\ \A s \in Session :
          /\ pc[s] \in {"read", "write"} =>
                /\ job[s].op \in {"move", "approve", "reject"}
                /\ job[s].po \in PO /\ statut[job[s].po] # "ABSENT"
          /\ pc[s] \in {"check", "insert"} =>
                job[s].op \in {"suggest", "create"} /\ job[s].rec \in Rec
          /\ pc[s] = "write" /\ job[s].op = "move" => job[s].to # "SUGGERE"
          /\ pc[s] # "idle" /\ job[s].op \in {"approve", "reject"} => s \in Api
          /\ pc[s] # "idle" /\ job[s].op = "move" => s \in Api \cup Tools
    /\ \A s \in Tools :
          pc[s] \in {"read", "write"} => statut[job[s].po] # "SUGGERE"

IInv == TypeOK /\ JobInv

USE SessionsAssumption, QuantityAssumption, NullAssumption
    DEF SessionsAssumption, QuantityAssumption, NullAssumption

LEMMA JobsTyped ==
  /\ NoJob \in Job
  /\ \A p \in PO, to \in Statut, q \in Received \cup {NoQty} : MoveJob(p, to, q) \in Job
  /\ \A p \in PO, op \in {"approve", "reject"} : OrderJob(op, p) \in Job
  /\ \A r \in Rec, op \in {"suggest", "create"} : RecJob(op, r) \in Job
  BY DEF NoJob, OrderJob, MoveJob, RecJob, Job, Statut

LEMMA TransitionTyped ==
  \A st \in Statut : ALLOWED_TRANSITIONS[st] \subseteq Statut \ {"SUGGERE"}
  BY DEF Statut, ALLOWED_TRANSITIONS

LEMMA IInvInit == Init => IInv
<1> SUFFICES ASSUME Init
             PROVE  IInv
  OBVIOUS
<1>1. overwritten \in BOOLEAN /\ confirmedAuto \in [PO -> BOOLEAN]
  BY DEF Init
<1>2. pc \in [Session -> {"idle", "read", "write", "check", "insert"}]
      /\ job \in [Session -> Job]
  BY JobsTyped DEF Init
<1>3. TypeOK
  BY <1>1, <1>2 DEF Init, TypeOK, Statut
<1>4. JobInv
  BY DEF Init, JobInv, Session
<1> QED BY <1>3, <1>4 DEF IInv

----------------------------------------------------------------------------
(* Each lemma below is the preservation of IInv by one kind of step.       *)

\* A call begins: only pc and job change, and for one idle session.
LEMMA StartMoveIInv ==
  ASSUME IInv, NEW s \in Session, NEW p \in PO, NEW to \in Statut,
         NEW q \in Received \cup {NoQty}, StartMove(s, p, to, q)
  PROVE  IInv'
<1>1. MoveJob(p, to, q) \in Job
  BY JobsTyped
<1>2. TypeOK'
  BY <1>1 DEF IInv, TypeOK, StartMove, Begin, orderVars, recVars, bookVars
<1>3. JobInv'
  BY DEF IInv, TypeOK, JobInv, StartMove, Begin, Existing, Session, orderVars,
         MoveJob
<1> QED BY <1>2, <1>3 DEF IInv

LEMMA StartDecideIInv ==
  ASSUME IInv, NEW s \in Session, NEW p \in PO,
         NEW verdict \in {"approve", "reject"}, StartDecide(s, p, verdict)
  PROVE  IInv'
<1>1. OrderJob(verdict, p) \in Job
  BY JobsTyped
<1>2. TypeOK'
  BY <1>1 DEF IInv, TypeOK, StartDecide, Begin, orderVars, recVars, bookVars
<1>3. JobInv'
  BY DEF IInv, TypeOK, JobInv, StartDecide, Begin, Existing, Session, orderVars,
         OrderJob
<1> QED BY <1>2, <1>3 DEF IInv

LEMMA SaveRecommendationIInv ==
  ASSUME IInv, NEW s \in Session, NEW r \in Rec, NEW q \in Suggested,
         SaveRecommendation(s, r, q)
  PROVE  IInv'
<1>1. RecJob("suggest", r) \in Job
  BY JobsTyped
<1>2. TypeOK'
  BY <1>1 DEF IInv, TypeOK, SaveRecommendation, Begin, orderVars, bookVars
<1>3. JobInv'
  BY DEF IInv, TypeOK, JobInv, SaveRecommendation, Begin, Session, orderVars,
         RecJob
<1> QED BY <1>2, <1>3 DEF IInv

LEMMA UpdateRecommendationIInv ==
  ASSUME IInv, NEW s \in Session, NEW r \in Rec,
         NEW d \in {"approved", "rejected"}, UpdateRecommendation(s, r, d)
  PROVE  IInv'
  BY DEF IInv, TypeOK, JobInv, UpdateRecommendation, orderVars, bookVars

LEMMA StartCreateIInv ==
  ASSUME IInv, NEW s \in Session, NEW r \in Rec,
         NEW op \in {"create", "suggest"}, StartCreate(s, r, op)
  PROVE  IInv'
<1>1. RecJob(op, r) \in Job
  BY JobsTyped
<1>2. TypeOK'
  BY <1>1 DEF IInv, TypeOK, StartCreate, Begin, orderVars, recVars, bookVars
<1>3. JobInv'
  BY DEF IInv, TypeOK, JobInv, StartCreate, Begin, Session, orderVars, RecJob
<1> QED BY <1>2, <1>3 DEF IInv

\* A call reads and goes on, or ends: the rows do not change.
LEMMA ReadIInv ==
  ASSUME IInv, NEW s \in Session,
         \/ CheckMove(s) \/ CheckDecide(s) \/ CheckExisting(s)
         \/ DeclineInsert(s) \/ Fail(s)
  PROVE  IInv'
<1> USE DEF End, Goto, orderVars, recVars, bookVars
<1>1. TypeOK'
  BY JobsTyped DEF IInv, TypeOK, CheckMove, CheckDecide, CheckExisting,
     DeclineInsert, Fail
<1>2. JobInv'
  <2>1. CASE CheckMove(s)
    BY <2>1, TransitionTyped DEF IInv, TypeOK, JobInv, CheckMove, Session
  <2>2. CASE CheckDecide(s)
    BY <2>2 DEF IInv, TypeOK, JobInv, CheckDecide, Session
  <2>3. CASE CheckExisting(s)
    BY <2>3 DEF IInv, TypeOK, JobInv, CheckExisting, Session
  <2>4. CASE DeclineInsert(s) \/ Fail(s)
    BY <2>4 DEF IInv, TypeOK, JobInv, DeclineInsert, Fail, Session
  <2> QED BY <2>1, <2>2, <2>3, <2>4
<1> QED BY <1>1, <1>2 DEF IInv

\* A call writes and ends.
LEMMA ReceivedQtyTyped ==
  ASSUME IInv, NEW s \in Session, WriteReception(s)
  PROVE  /\ job[s].po \in PO /\ job[s].to \in Statut
         /\ ReceivedQty(s) \in Int
         /\ Received \subseteq Nat => ReceivedQty(s) >= 0
<1>1. job[s] \in Job /\ job[s].po \in PO
  BY DEF IInv, TypeOK, JobInv, WriteReception
<1>2. job[s].to \in Statut /\ job[s].qty \in Received \cup {NoQty}
  BY <1>1 DEF Job
<1>3. commandee[job[s].po] \in Nat
  BY <1>1 DEF IInv, TypeOK
<1>4. CASE job[s].qty = NoQty
  BY <1>1, <1>2, <1>3, <1>4 DEF ReceivedQty
<1>5. CASE job[s].qty # NoQty
  <2>1. job[s].qty \in Received
    BY <1>2, <1>5
  <2>2. ReceivedQty(s) = job[s].qty
    BY <1>5 DEF ReceivedQty
  <2>3. ReceivedQty(s) \in Int /\ (Received \subseteq Nat => ReceivedQty(s) \in Nat)
    BY <2>1, <2>2
  <2> QED BY <1>1, <1>2, <2>3
<1> QED BY <1>4, <1>5

LEMMA WriteReceptionIInv ==
  ASSUME IInv, NEW s \in Session, WriteReception(s)
  PROVE  IInv'
<1>1. job[s].po \in PO /\ ReceivedQty(s) \in Int /\ job[s].to \in Statut
  BY ReceivedQtyTyped
<1> DEFINE q == ReceivedQty(s)
           credited == IF q > 0 THEN q ELSE 0
<1>2. credited \in Nat /\ q \in Int
  BY <1>1
<1>3. /\ statut' = [statut EXCEPT ![job[s].po] = job[s].to]
      /\ recue' = [recue EXCEPT ![job[s].po] = @ + q]
      /\ journal' = [journal EXCEPT ![job[s].po] = @ + credited]
      /\ stock' = stock + credited
      /\ received' = received + credited
      /\ pc' = [pc EXCEPT ![s] = "idle"]
      /\ job' = [job EXCEPT ![s] = NoJob]
      /\ UNCHANGED <<recOf, commandee, age, confirmedAuto, recStatus, recQty, sold,
                     overwritten>>
  BY DEF WriteReception, End, recVars
<1> HIDE DEF q, credited
<1>4. TypeOK'
  BY <1>1, <1>2, <1>3, JobsTyped DEF IInv, TypeOK
<1>5. JobInv'
  BY <1>1 DEF IInv, TypeOK, JobInv, WriteReception, End, Session, TERMINAL_RECEIVED
<1> QED BY <1>4, <1>5 DEF IInv

LEMMA WriteMoveIInv ==
  ASSUME IInv, NEW s \in Session, WriteMove(s)
  PROVE  IInv'
<1>1. job[s].po \in PO /\ job[s].to \in Statut /\ job[s].to # "SUGGERE"
  BY DEF IInv, TypeOK, JobInv, WriteMove, Job
<1>2. TypeOK'
  <2>1. age' \in [PO -> 0..MaxAge]
    <3>1. \A p \in PO : age[p] \in 0..MaxAge /\ 0 \in 0..MaxAge
      BY DEF IInv, TypeOK
    <3> QED BY <3>1 DEF IInv, TypeOK, WriteMove
  <2>2. confirmedAuto' \in [PO -> BOOLEAN]
    <3>1. CASE job[s].to = "CONFIRME"
      <4>1. confirmedAuto' = [confirmedAuto EXCEPT ![job[s].po] = FALSE]
        BY <3>1, Zenon DEF WriteMove
      <4> QED BY <4>1 DEF IInv, TypeOK
    <3>2. CASE job[s].to # "CONFIRME"
      <4>1. confirmedAuto' = [confirmedAuto EXCEPT ![job[s].po] = @]
        BY <3>2, Zenon DEF WriteMove
      <4> QED BY <4>1 DEF IInv, TypeOK
    <3> QED BY <3>1, <3>2
  <2>3. statut' \in [PO -> Statut \cup {"ABSENT"}]
    BY <1>1 DEF IInv, TypeOK, WriteMove
  <2> QED BY <2>1, <2>2, <2>3, JobsTyped
          DEF IInv, TypeOK, WriteMove, End, recVars, bookVars
<1>3. JobInv'
  BY <1>1 DEF IInv, TypeOK, JobInv, WriteMove, End, Session, Statut
<1> QED BY <1>2, <1>3 DEF IInv

LEMMA WriteDecideIInv ==
  ASSUME IInv, NEW s \in Session, WriteDecide(s)
  PROVE  IInv'
<1>1. job[s].po \in PO
  BY DEF IInv, TypeOK, JobInv, WriteDecide
<1>2. TypeOK'
  BY <1>1, JobsTyped DEF IInv, TypeOK, WriteDecide, End, bookVars, Statut
<1>3. JobInv'
  BY <1>1 DEF IInv, TypeOK, JobInv, WriteDecide, End, Session
<1> QED BY <1>2, <1>3 DEF IInv

LEMMA InsertOrderIInv ==
  ASSUME IInv, NEW s \in Session, NEW p \in PO, InsertOrder(s, p)
  PROVE  IInv'
<1>1. job[s].rec \in Rec
  BY DEF IInv, TypeOK, JobInv, InsertOrder
<1>2. TypeOK'
  BY <1>1, JobsTyped DEF IInv, TypeOK, InsertOrder, End, recVars, bookVars, Statut
<1>3. JobInv'
  BY <1>1 DEF IInv, TypeOK, JobInv, InsertOrder, End, Session
<1> QED BY <1>2, <1>3 DEF IInv

\* Steps of no session.
LEMMA BackgroundIInv ==
  ASSUME IInv, AutoConfirm \/ Tick \/ Sale \/ (\E n \in Figures : AnalysisPersists(n))
  PROVE  IInv'
<1> USE DEF orderVars, recVars, bookVars
<1>1. CASE AutoConfirm
  BY <1>1 DEF IInv, TypeOK, JobInv, AutoConfirm, Stale, Statut, Session
<1>2. CASE Tick
  BY <1>2 DEF IInv, TypeOK, JobInv, Tick, Waiting
<1>3. CASE Sale
  BY <1>3 DEF IInv, TypeOK, JobInv, Sale, Sellable
<1>4. ASSUME NEW n \in Figures, AnalysisPersists(n)
      PROVE  IInv'
  BY <1>4 DEF IInv, TypeOK, JobInv, AnalysisPersists
<1> QED BY <1>1, <1>2, <1>3, <1>4

LEMMA NextIInv == IInv /\ [Next]_vars => IInv'
<1> SUFFICES ASSUME IInv, [Next]_vars
             PROVE  IInv'
  OBVIOUS
<1>1. ASSUME NEW s \in Session, Begins(s)
      PROVE  IInv'
  BY <1>1, StartMoveIInv, StartDecideIInv, SaveRecommendationIInv,
     UpdateRecommendationIInv, StartCreateIInv DEF Begins
<1>2. ASSUME NEW s \in Session, Continues(s)
      PROVE  IInv'
  BY <1>2, ReadIInv, WriteReceptionIInv, WriteMoveIInv, WriteDecideIInv,
     InsertOrderIInv DEF Continues
<1>3. CASE UNCHANGED vars
  BY <1>3 DEF IInv, TypeOK, JobInv, vars
<1> QED BY <1>1, <1>2, <1>3, BackgroundIInv DEF Next

THEOREM Invariance == Spec => []IInv
  BY IInvInit, NextIInv, PTL DEF Spec

\* Every variable keeps its type, whatever the sessions do to each other's
\* rows; in particular stock never goes negative.
THEOREM TypeCorrect == Spec => []TypeOK
  BY Invariance, PTL DEF IInv

----------------------------------------------------------------------------
(* The books.                                                              *)

LEMMA NextBooks == IInv /\ BooksBalance /\ [Next]_vars => BooksBalance'
<1> SUFFICES ASSUME IInv, BooksBalance, [Next]_vars
             PROVE  BooksBalance'
  OBVIOUS
<1>1. ASSUME NEW s \in Session, WriteReception(s)
      PROVE  BooksBalance'
  <2>1. /\ job[s].po \in PO /\ ReceivedQty(s) \in Int
        /\ Received \subseteq Nat => ReceivedQty(s) >= 0
    BY <1>1, ReceivedQtyTyped
  <2> QED BY <1>1, <2>1 DEF IInv, TypeOK, BooksBalance, WriteReception
<1>2. CASE Sale
  BY <1>2 DEF IInv, TypeOK, BooksBalance, Sale, Sellable
<1>3. CASE UNCHANGED bookVars
  BY <1>3 DEF BooksBalance, bookVars
<1>4. ASSUME NEW s \in Session, Begins(s)
      PROVE  UNCHANGED bookVars
  BY <1>4 DEF Begins, StartMove, StartDecide, SaveRecommendation,
     UpdateRecommendation, StartCreate
<1>5. ASSUME NEW s \in Session, Continues(s), ~WriteReception(s)
      PROVE  UNCHANGED bookVars
  BY <1>5 DEF Continues, CheckMove, WriteMove, CheckDecide, WriteDecide,
     CheckExisting, DeclineInsert, InsertOrder, Fail
<1>6. AutoConfirm \/ Tick \/ UNCHANGED vars => UNCHANGED bookVars
  BY DEF AutoConfirm, Tick, vars, bookVars
<1>7. ASSUME NEW n \in Figures, AnalysisPersists(n)
      PROVE  BooksBalance'
  BY <1>7 DEF IInv, TypeOK, BooksBalance, AnalysisPersists
<1> QED BY <1>1, <1>2, <1>3, <1>4, <1>5, <1>6, <1>7 DEF Next

\* No interleaving of receptions, sales and failures separates the stock from
\* the journal, as long as no analysis overwrites the stock, or an order's quantite_recue from its journal rows.
THEOREM BooksAlwaysBalance == Spec => []BooksBalance
<1>1. Init => BooksBalance
  BY DEF Init, BooksBalance
<1> QED BY <1>1, NextBooks, Invariance, PTL DEF Spec

----------------------------------------------------------------------------
(* The human gate against the tools.                                       *)

\* Who takes a card out of SUGGERE.
LEMMA OutOfSuggere ==
  ASSUME IInv, [Next]_vars, NEW p \in PO, statut[p] = "SUGGERE",
         statut'[p] # "SUGGERE"
  PROVE  \E s \in Api : /\ job[s].po = p /\ pc[s] = "write" /\ pc'[s] = "idle"
                        /\ WriteMove(s) \/ WriteReception(s) \/ WriteDecide(s)
<1>1. ASSUME NEW s \in Session, Begins(s)
      PROVE  UNCHANGED statut
  BY <1>1 DEF Begins, StartMove, StartDecide, SaveRecommendation,
     UpdateRecommendation, StartCreate, orderVars
<1>2. ASSUME NEW s \in Session,
             CheckMove(s) \/ CheckDecide(s) \/ CheckExisting(s)
               \/ DeclineInsert(s) \/ Fail(s)
      PROVE  UNCHANGED statut
  BY <1>2 DEF CheckMove, CheckDecide, CheckExisting, DeclineInsert, Fail, orderVars
<1>3. AutoConfirm \/ Tick \/ Sale \/ (\E n \in Figures : AnalysisPersists(n))
        \/ UNCHANGED vars => statut'[p] = statut[p]
  BY DEF AutoConfirm, Tick, Sale, AnalysisPersists, vars, orderVars, Stale, IInv, TypeOK
<1>4. ASSUME NEW s \in Session, NEW p1 \in PO, InsertOrder(s, p1)
      PROVE  statut'[p] = statut[p]
  BY <1>4 DEF InsertOrder, IInv, TypeOK
<1>5. ASSUME NEW s \in Session, WriteMove(s) \/ WriteReception(s) \/ WriteDecide(s)
      PROVE  s \in Api /\ job[s].po = p /\ pc[s] = "write" /\ pc'[s] = "idle"
  <2>1. pc[s] = "write" /\ pc' = [pc EXCEPT ![s] = "idle"]
    BY <1>5 DEF WriteMove, WriteReception, WriteDecide, End
  <2>2. job[s].po \in PO /\ job[s].op \in {"move", "approve", "reject"}
    BY <2>1 DEF IInv, JobInv
  <2>3. job[s].po = p
    BY <1>5, <2>2 DEF WriteMove, WriteReception, WriteDecide, IInv, TypeOK
  <2>4. s \in Api
    BY <1>5, <2>1, <2>2, <2>3 DEF IInv, JobInv
  <2> QED BY <2>1, <2>3, <2>4 DEF IInv, TypeOK
<1> QED BY <1>1, <1>2, <1>3, <1>4, <1>5 DEF Next, Continues, Session

\* Whatever the tools and the agents interleave with, only a call of the API
\* takes a card out of SUGGERE: the tools' own read of the card is enough,
\* because no write ever puts a card back into SUGGERE.
THEOREM ToolsNeverDecide == Spec => ToolsRespectGate
<1>1. IInv /\ [Next]_vars =>
        [\A p \in PO : statut[p] = "SUGGERE" /\ statut'[p] # "SUGGERE" =>
            \E s \in Api : job[s].po = p /\ pc[s] = "write" /\ pc'[s] = "idle"]_vars
  BY OutOfSuggere
<1> QED BY <1>1, Invariance, PTL DEF Spec, ToolsRespectGate

----------------------------------------------------------------------------
(* One uvicorn worker.                                                     *)

OneWorker == \E w : Api = {w}

\* With one worker, an approval that passed its check still finds SUGGERE,
\* whatever the tools, the agents and the loop do in between.
DecisionInv ==
    OneWorker => \A s \in Api : pc[s] = "write" /\ job[s].op \in {"approve", "reject"}
                                   => statut[job[s].po] = "SUGGERE"

LEMMA NextDecision == IInv /\ DecisionInv /\ [Next]_vars => DecisionInv'
<1> SUFFICES ASSUME IInv, DecisionInv, [Next]_vars, OneWorker, NEW s \in Api,
                    pc'[s] = "write", job'[s].op \in {"approve", "reject"}
             PROVE  statut'[job'[s].po] = "SUGGERE"
  BY DEF DecisionInv
<1>0. s \in Session /\ pc \in [Session -> {"idle", "read", "write", "check", "insert"}]
      /\ job \in [Session -> Job]
  BY DEF Session, IInv, TypeOK
<1>1. CASE pc[s] = "write" /\ UNCHANGED <<pc[s], job[s]>>
  <2>1. statut[job[s].po] = "SUGGERE" /\ job[s].po \in PO
    BY <1>0, <1>1 DEF DecisionInv, IInv, JobInv
  <2>2. \A w \in Api : w = s
    BY DEF OneWorker
  <2> QED BY <1>1, <2>1, <2>2, OutOfSuggere
<1>2. CASE CheckDecide(s)
  BY <1>0, <1>2 DEF CheckDecide, Goto, End, NoJob, OrderJob, orderVars
<1>3. ASSUME NEW t \in Session, Begins(t)
      PROVE  pc[s] = "write" /\ UNCHANGED <<pc[s], job[s]>>
  BY <1>0, <1>3 DEF Begins, StartMove, StartDecide, SaveRecommendation,
     UpdateRecommendation, StartCreate, Begin
<1>4. ASSUME NEW t \in Session, Continues(t), ~(t = s /\ CheckDecide(t))
      PROVE  pc[s] = "write" /\ UNCHANGED <<pc[s], job[s]>>
  <2>1. ASSUME CheckMove(t) \/ CheckDecide(t) \/ CheckExisting(t)
        PROVE  pc[s] = "write" /\ UNCHANGED <<pc[s], job[s]>>
    BY <1>0, <1>4, <2>1 DEF CheckMove, CheckDecide, CheckExisting, Goto, End,
       NoJob, OrderJob
  <2>2. ASSUME End(t)
        PROVE  pc[s] = "write" /\ UNCHANGED <<pc[s], job[s]>>
    BY <1>0, <2>2 DEF End, NoJob, OrderJob
  <2>3. Continues(t) => \/ CheckMove(t) \/ CheckDecide(t) \/ CheckExisting(t)
                        \/ End(t)
    BY DEF Continues, WriteReception, WriteMove, WriteDecide, DeclineInsert,
       InsertOrder, Fail
  <2> QED BY <1>4, <2>1, <2>2, <2>3
<1>5. AutoConfirm \/ Tick \/ Sale \/ (\E n \in Figures : AnalysisPersists(n))
        \/ UNCHANGED vars
        => pc[s] = "write" /\ UNCHANGED <<pc[s], job[s]>>
  BY DEF AutoConfirm, Tick, Sale, AnalysisPersists, vars
<1> QED BY <1>1, <1>2, <1>3, <1>4, <1>5 DEF Next

THEOREM DecisionInvariance == Spec => []DecisionInv
<1>1. Init => DecisionInv
  BY DEF Init, DecisionInv, Session
<1> QED BY <1>1, NextDecision, Invariance, PTL DEF Spec

\* With one worker, a decision never reaches the recommendation alone: the
\* order leaves SUGGERE in the same step.
THEOREM DecisionsArePaired == ASSUME OneWorker PROVE Spec => DecisionsPaired
<1>1. IInv /\ DecisionInv /\ [Next]_vars =>
        [\A s \in Api : WriteDecide(s) =>
            statut[job[s].po] = "SUGGERE" /\ statut'[job[s].po] # "SUGGERE"]_vars
  BY DEF IInv, TypeOK, JobInv, DecisionInv, WriteDecide, Session
<1> QED BY <1>1, Invariance, DecisionInvariance, PTL DEF Spec, DecisionsPaired

----------------------------------------------------------------------------
(* One worker and no tools: the check and the write of a move are separate *)
(* transactions, but only the auto-confirmation loop can come between.     *)

SingleWriter == OneWorker /\ Tools = {}

\* What a move that passed its check is still worth when it writes.
MoveInv ==
    SingleWriter =>
      \A s \in Api : pc[s] = "write" /\ job[s].op = "move" =>
         \/ job[s].to \in ALLOWED_TRANSITIONS[statut[job[s].po]]
         \/ job[s].to = "CONFIRME" /\ statut[job[s].po] = "CONFIRME"

LEMMA MovesStartInApi ==
  ASSUME IInv, SingleWriter, NEW s \in Session,
         pc[s] \in {"read", "write"}
  PROVE  s \in Api
  BY DEF IInv, JobInv, SingleWriter

\* Who changes a statut while a call of the worker is at its write.
LEMMA StatutMeanwhile ==
  ASSUME IInv, SingleWriter, [Next]_vars, NEW s \in Api, pc[s] = "write",
         UNCHANGED pc[s], NEW p \in PO, statut[p] # "ABSENT"
  PROVE  \/ statut'[p] = statut[p]
         \/ statut[p] = "SOUMIS" /\ statut'[p] = "CONFIRME"
<1>1. ASSUME NEW t \in Session, Begins(t)
      PROVE  UNCHANGED statut
  BY <1>1 DEF Begins, StartMove, StartDecide, SaveRecommendation,
     UpdateRecommendation, StartCreate, orderVars
<1>2. ASSUME NEW t \in Session, Continues(t)
      PROVE  statut'[p] = statut[p]
  <2>1. CASE CheckMove(t) \/ CheckDecide(t) \/ CheckExisting(t) \/ DeclineInsert(t) \/ Fail(t)
    BY <2>1 DEF CheckMove, CheckDecide, CheckExisting, DeclineInsert, Fail, orderVars
  <2>2. CASE WriteMove(t) \/ WriteReception(t) \/ WriteDecide(t)
    <3>1. pc[t] = "write" /\ pc' = [pc EXCEPT ![t] = "idle"]
      BY <2>2 DEF WriteMove, WriteReception, WriteDecide, End
    <3>2. t \in Api /\ t = s
      BY <3>1, MovesStartInApi DEF SingleWriter, OneWorker
    <3> QED BY <3>1, <3>2 DEF IInv, TypeOK, Session
  <2>3. CASE \E p1 \in PO : InsertOrder(t, p1)
    BY <2>3 DEF InsertOrder, IInv, TypeOK
  <2> QED BY <1>2, <2>1, <2>2, <2>3 DEF Continues
<1>3. CASE AutoConfirm
  BY <1>3 DEF AutoConfirm, Stale, IInv, TypeOK
<1>4. Tick \/ Sale \/ (\E n \in Figures : AnalysisPersists(n)) \/ UNCHANGED vars => UNCHANGED statut
  BY DEF Tick, Sale, AnalysisPersists, vars, orderVars
<1> QED BY <1>1, <1>2, <1>3, <1>4 DEF Next

LEMMA FromSoumis ==
  ALLOWED_TRANSITIONS["SOUMIS"] \subseteq ALLOWED_TRANSITIONS["CONFIRME"] \cup {"CONFIRME"}
  BY DEF ALLOWED_TRANSITIONS

LEMMA NextMoveInv == IInv /\ MoveInv /\ [Next]_vars => MoveInv'
<1> SUFFICES ASSUME IInv, MoveInv, [Next]_vars, SingleWriter, NEW s \in Api,
                    pc'[s] = "write", job'[s].op = "move"
             PROVE  \/ job'[s].to \in ALLOWED_TRANSITIONS[statut'[job'[s].po]]
                    \/ job'[s].to = "CONFIRME" /\ statut'[job'[s].po] = "CONFIRME"
  BY DEF MoveInv
<1>0. /\ s \in Session
      /\ pc \in [Session -> {"idle", "read", "write", "check", "insert"}]
      /\ job \in [Session -> Job]
  BY DEF Session, IInv, TypeOK
<1>1. CASE pc[s] = "write" /\ UNCHANGED <<pc[s], job[s]>>
  <2>1. job[s].po \in PO /\ statut[job[s].po] # "ABSENT"
    BY <1>0, <1>1 DEF IInv, JobInv
  <2>2. \/ statut'[job[s].po] = statut[job[s].po]
        \/ statut[job[s].po] = "SOUMIS" /\ statut'[job[s].po] = "CONFIRME"
    BY <1>1, <2>1, StatutMeanwhile
  <2>3. \/ job[s].to \in ALLOWED_TRANSITIONS[statut[job[s].po]]
        \/ job[s].to = "CONFIRME" /\ statut[job[s].po] = "CONFIRME"
    BY <1>1 DEF MoveInv
  <2> QED BY <1>1, <2>2, <2>3, FromSoumis
<1>2. CASE CheckMove(s)
  BY <1>0, <1>2 DEF CheckMove, Goto, End, NoJob, OrderJob, orderVars
<1>3. ASSUME NEW t \in Session, Begins(t)
      PROVE  pc[s] = "write" /\ UNCHANGED <<pc[s], job[s]>>
  BY <1>0, <1>3 DEF Begins, StartMove, StartDecide, SaveRecommendation,
     UpdateRecommendation, StartCreate, Begin
<1>4. ASSUME NEW t \in Session, Continues(t), ~(t = s /\ CheckMove(t))
      PROVE  pc[s] = "write" /\ UNCHANGED <<pc[s], job[s]>>
  <2>1. ASSUME CheckMove(t) \/ CheckDecide(t) \/ CheckExisting(t)
        PROVE  pc[s] = "write" /\ UNCHANGED <<pc[s], job[s]>>
    BY <1>0, <1>4, <2>1 DEF CheckMove, CheckDecide, CheckExisting, Goto, End,
       NoJob, OrderJob
  <2>2. ASSUME End(t)
        PROVE  pc[s] = "write" /\ UNCHANGED <<pc[s], job[s]>>
    BY <1>0, <2>2 DEF End, NoJob, OrderJob
  <2>3. Continues(t) => \/ CheckMove(t) \/ CheckDecide(t) \/ CheckExisting(t)
                        \/ End(t)
    BY DEF Continues, WriteReception, WriteMove, WriteDecide, DeclineInsert,
       InsertOrder, Fail
  <2> QED BY <1>4, <2>1, <2>2, <2>3
<1>5. AutoConfirm \/ Tick \/ Sale \/ (\E n \in Figures : AnalysisPersists(n))
        \/ UNCHANGED vars
        => pc[s] = "write" /\ UNCHANGED <<pc[s], job[s]>>
  BY DEF AutoConfirm, Tick, Sale, AnalysisPersists, vars
<1> QED BY <1>1, <1>2, <1>3, <1>4, <1>5 DEF Next

THEOREM MoveInvariance == Spec => []MoveInv
<1>1. Init => MoveInv
  BY DEF Init, MoveInv, Session
<1> QED BY <1>1, NextMoveInv, Invariance, PTL DEF Spec

----------------------------------------------------------------------------
(* The refinement.                                                         *)

LEMMA WriteMoveMaps ==
  ASSUME IInv, MoveInv, SingleWriter, NEW s \in Session, WriteMove(s)
  PROVE  [Lifecycle!Next]_<<statut, journal>>
<1>1. /\ job[s].po \in PO /\ job[s].to \in Statut /\ statut[job[s].po] # "ABSENT"
      /\ s \in Api
  BY MovesStartInApi DEF IInv, TypeOK, JobInv, WriteMove, Job
<1>2. /\ statut' = [statut EXCEPT ![job[s].po] = job[s].to]
      /\ UNCHANGED journal
      /\ job[s].to \notin TERMINAL_RECEIVED
  BY DEF WriteMove, bookVars
<1>3. CASE job[s].to \in ALLOWED_TRANSITIONS[statut[job[s].po]]
  <2>1. Lifecycle!Move(job[s].po, job[s].to)
    BY <1>1, <1>2, <1>3 DEF Lifecycle!Move
  <2> QED BY <1>1, <2>1 DEF Lifecycle!Next
<1>4. CASE statut[job[s].po] = job[s].to
  BY <1>1, <1>2, <1>4 DEF IInv, TypeOK
<1> QED BY <1>1, <1>3, <1>4 DEF MoveInv, WriteMove

LEMMA WriteReceptionMaps ==
  ASSUME IInv, MoveInv, SingleWriter, NEW s \in Session, WriteReception(s)
  PROVE  Lifecycle!Next
<1>1. /\ job[s].po \in PO /\ job[s].to \in Statut /\ statut[job[s].po] # "ABSENT"
      /\ s \in Api
  BY ReceivedQtyTyped, MovesStartInApi DEF IInv, JobInv, WriteReception
<1> DEFINE q == ReceivedQty(s)
           credited == IF q > 0 THEN q ELSE 0
<1>2. /\ statut' = [statut EXCEPT ![job[s].po] = job[s].to]
      /\ journal' = [journal EXCEPT ![job[s].po] = @ + credited]
      /\ job[s].to \in TERMINAL_RECEIVED
  BY DEF WriteReception
<1>3. job[s].to \in ALLOWED_TRANSITIONS[statut[job[s].po]]
  BY <1>1 DEF MoveInv, WriteReception, TERMINAL_RECEIVED
<1>4. credited \in Nat
  BY ReceivedQtyTyped
<1> HIDE DEF q, credited
<1>5. Lifecycle!Receive(job[s].po, job[s].to, credited)
  BY <1>1, <1>2, <1>3 DEF Lifecycle!Receive
<1>6. credited \in 0..journal'[job[s].po]
  BY <1>1, <1>2, <1>4 DEF IInv, TypeOK
<1> QED BY <1>1, <1>5, <1>6 DEF Lifecycle!Next

LEMMA WriteDecideMaps ==
  ASSUME IInv, NEW s \in Session, WriteDecide(s)
  PROVE  [Lifecycle!Next]_<<statut, journal>>
<1> DEFINE p == job[s].po
           to == IF job[s].op = "approve" THEN "BROUILLON" ELSE "ANNULE"
<1>1. p \in PO /\ UNCHANGED journal
  BY DEF IInv, JobInv, WriteDecide, bookVars
<1>2. CASE statut[p] = "SUGGERE"
  <2>1. statut' = [statut EXCEPT ![p] = to]
    BY <1>2 DEF WriteDecide
  <2>2. to \in ALLOWED_TRANSITIONS["SUGGERE"] \ TERMINAL_RECEIVED /\ to \in Statut
    BY DEF ALLOWED_TRANSITIONS, TERMINAL_RECEIVED, Statut
  <2>3. Lifecycle!Move(p, to)
    BY <1>1, <1>2, <2>1, <2>2 DEF Lifecycle!Move
  <2> QED BY <1>1, <2>2, <2>3 DEF Lifecycle!Next
<1>3. CASE statut[p] # "SUGGERE"
  BY <1>1, <1>3 DEF WriteDecide, IInv, TypeOK
<1> QED BY <1>2, <1>3

LEMMA InsertOrderMaps ==
  ASSUME IInv, NEW s \in Session, NEW p \in PO, InsertOrder(s, p)
  PROVE  Lifecycle!Next
<1>1. Lifecycle!Appear(p)
  BY DEF Lifecycle!Appear, InsertOrder, bookVars
<1> QED BY <1>1 DEF Lifecycle!Next

LEMMA StepMaps ==
  ASSUME IInv, MoveInv, SingleWriter, [Next]_vars
  PROVE  [Lifecycle!Next]_<<statut, journal>>
<1>1. ASSUME NEW s \in Session, Begins(s)
      PROVE  UNCHANGED <<statut, journal>>
  BY <1>1 DEF Begins, StartMove, StartDecide, SaveRecommendation,
     UpdateRecommendation, StartCreate, orderVars, bookVars
<1>2. ASSUME NEW s \in Session,
             CheckMove(s) \/ CheckDecide(s) \/ CheckExisting(s)
               \/ DeclineInsert(s) \/ Fail(s)
      PROVE  UNCHANGED <<statut, journal>>
  BY <1>2 DEF CheckMove, CheckDecide, CheckExisting, DeclineInsert, Fail,
     orderVars, bookVars
<1>3. CASE AutoConfirm
  <2>1. Lifecycle!ConfirmAll(Stale)
    BY <1>3 DEF AutoConfirm, Lifecycle!ConfirmAll, bookVars, Stale
  <2>2. Stale \in SUBSET PO
    BY DEF Stale
  <2> QED BY <2>1, <2>2 DEF Lifecycle!Next
<1>4. Tick \/ Sale \/ (\E n \in Figures : AnalysisPersists(n)) \/ UNCHANGED vars => UNCHANGED <<statut, journal>>
  BY DEF Tick, Sale, AnalysisPersists, vars, orderVars, bookVars
<1> QED BY <1>1, <1>2, <1>3, <1>4, WriteMoveMaps, WriteReceptionMaps,
           WriteDecideMaps, InsertOrderMaps DEF Next, Continues

\* With one worker and no tools, the repository implements the life cycle:
\* a card moves only along ALLOWED_TRANSITIONS and is credited only by a
\* reception, although the check and the write of a move are separate.
THEOREM SingleWriterImplements ==
  ASSUME SingleWriter PROVE Spec => ImplementsLifecycle
<1>1. Init => Lifecycle!Init
  BY DEF Init, Lifecycle!Init
<1>2. IInv /\ MoveInv /\ [Next]_vars => [Lifecycle!Next]_<<statut, journal>>
  BY StepMaps
<1> QED BY <1>1, <1>2, Invariance, MoveInvariance, PTL
        DEF Spec, ImplementsLifecycle, Lifecycle!Spec

\* Under the same assumption confirmed_auto never outlives a resubmission.
THEOREM SingleWriterConfirms ==
  ASSUME SingleWriter PROVE Spec => []AwaitingIsUnconfirmed
<1>1. Init => AwaitingIsUnconfirmed
  BY DEF Init, AwaitingIsUnconfirmed
<1>2. ASSUME IInv, MoveInv, AwaitingIsUnconfirmed, [Next]_vars, NEW p \in PO,
             statut'[p] \in {"ABSENT", "SUGGERE", "BROUILLON", "SOUMIS"}
      PROVE  ~confirmedAuto'[p]
  <2>1. CASE UNCHANGED <<statut[p], confirmedAuto[p]>>
    BY <1>2, <2>1 DEF AwaitingIsUnconfirmed
  <2>2. ASSUME NEW s \in Session, WriteMove(s), job[s].po = p
        PROVE  ~confirmedAuto'[p]
    <3>1. s \in Api /\ pc[s] = "write" /\ job[s].op = "move"
      BY <1>2, <2>2, MovesStartInApi DEF WriteMove
    <3>2. statut'[p] = job[s].to /\ statut[p] # "ABSENT" /\ statut[p] \in Statut
      BY <1>2, <2>2, <3>1 DEF WriteMove, IInv, TypeOK, JobInv, Session
    <3>3. statut[p] \in {"SUGGERE", "BROUILLON"}
      BY <1>2, <2>2, <3>1, <3>2 DEF MoveInv, ALLOWED_TRANSITIONS, Statut
    <3>4. ~confirmedAuto[p]
      BY <1>2, <3>3 DEF AwaitingIsUnconfirmed
    <3>5. job[s].to # "CONFIRME"
      BY <1>2, <3>2
    <3>6. confirmedAuto' = [confirmedAuto EXCEPT ![p] = @]
      BY <2>2, <3>5, Zenon DEF WriteMove
    <3> QED BY <1>2, <3>4, <3>6 DEF IInv, TypeOK
  <2>3. ASSUME NEW s \in Session, WriteMove(s), job[s].po # p
        PROVE  UNCHANGED <<statut[p], confirmedAuto[p]>>
    BY <1>2, <2>3, Zenon DEF WriteMove, IInv, TypeOK
  <2>4. ASSUME NEW s \in Session, WriteReception(s) \/ WriteDecide(s)
        PROVE  UNCHANGED <<statut[p], confirmedAuto[p]>> \/ ~confirmedAuto'[p]
    BY <1>2, <2>4 DEF WriteReception, WriteDecide, IInv, TypeOK, JobInv,
       TERMINAL_RECEIVED, AwaitingIsUnconfirmed
  <2>5. ASSUME NEW s \in Session, NEW q \in PO, InsertOrder(s, q)
        PROVE  UNCHANGED <<statut[p], confirmedAuto[p]>> \/ ~confirmedAuto'[p]
    BY <1>2, <2>5 DEF InsertOrder, IInv, TypeOK, AwaitingIsUnconfirmed
  <2>6. ASSUME NEW s \in Session,
               \/ CheckMove(s) \/ CheckDecide(s) \/ CheckExisting(s)
               \/ DeclineInsert(s) \/ Fail(s)
        PROVE  UNCHANGED <<statut[p], confirmedAuto[p]>>
    BY <2>6 DEF CheckMove, CheckDecide, CheckExisting, DeclineInsert, Fail,
       orderVars
  <2>7. ASSUME NEW s \in Session, Begins(s)
        PROVE  UNCHANGED <<statut[p], confirmedAuto[p]>>
    BY <2>7 DEF Begins, StartMove, StartDecide, SaveRecommendation,
       UpdateRecommendation, StartCreate, orderVars
  <2>8. CASE AutoConfirm
    BY <1>2, <2>8 DEF AutoConfirm, Stale, IInv, TypeOK, AwaitingIsUnconfirmed
  <2>9. Tick \/ Sale \/ (\E n \in Figures : AnalysisPersists(n)) \/ UNCHANGED vars => UNCHANGED <<statut[p], confirmedAuto[p]>>
    BY DEF Tick, Sale, AnalysisPersists, vars, orderVars
  <2>10. ASSUME NEW s \in Session, Continues(s)
         PROVE  UNCHANGED <<statut[p], confirmedAuto[p]>> \/ ~confirmedAuto'[p]
    BY <2>10, <2>2, <2>3, <2>4, <2>5, <2>6 DEF Continues
  <2>11. UNCHANGED <<statut[p], confirmedAuto[p]>> \/ ~confirmedAuto'[p]
    BY <1>2, <2>7, <2>8, <2>9, <2>10 DEF Next
  <2> QED BY <2>1, <2>11
<1>3. IInv /\ MoveInv /\ AwaitingIsUnconfirmed /\ [Next]_vars
        => AwaitingIsUnconfirmed'
  BY <1>2 DEF AwaitingIsUnconfirmed
<1> QED BY <1>1, <1>3, Invariance, MoveInvariance, PTL DEF Spec

=============================================================================
