--------------------------- MODULE PurchaseOrders ---------------------------
(***************************************************************************)
(* The purchase-order (bon de commande) table supply.purchase_orders, the  *)
(* recommendations it is created from, and the stock and stock journal a   *)
(* reception credits, as written by app/inventory/repositories/            *)
(* supply_repo.py and the callers of it.                                   *)
(*                                                                         *)
(* Several database sessions write these rows at once:                     *)
(*   Api    - uvicorn workers.  A worker calls the synchronous repository  *)
(*            from an async handler, so it has one call in flight          *)
(*            (the Docker image starts a single worker);                   *)
(*   Tools  - processes running the MCP server or the Kanban agent tools;  *)
(*   Agents - threads of the DecisionAgent;                                *)
(*   and the thread of the auto-confirmation loop.                         *)
(* PostgreSQL runs them READ COMMITTED, and the repository takes no row    *)
(* lock: the SELECT that checks a transition and the UPDATE that performs  *)
(* it are separate steps here.  What one transaction writes becomes        *)
(* visible at its commit, so the writes of a call are one step.            *)
(* Quantities are those of one (sku, store_id) pair.                       *)
(***************************************************************************)
EXTENDS Integers

CONSTANTS
    PO,            \* rows the table can come to hold (bound)
    Rec,           \* recommendation rows (bound)
    Api, Tools, Agents,
    Suggested,     \* values of recommendations.suggested_quantity
    Received,      \* values of a request's quantite_recue, when given
    Moq,           \* minimum order quantity of the selected supplier
    InitialStock,
    MaxAge,        \* PO_AUTO_CONFIRM_HOURS, in ticks
    MaxJournal,    \* bound: units received in all, or taken back from an order
    MaxSold,       \* bound: units sold in all
    Figures,       \* stock an analysis under way may have read, or 0 (bound)
    NoQty, NoPO, NoRec

Session == Api \cup Tools \cup Agents

Statut == {"SUGGERE", "BROUILLON", "SOUMIS", "CONFIRME", "EXPEDIE",
           "RECU_PARTIEL", "RECU", "ANNULE", "LITIGE"}

ALLOWED_TRANSITIONS ==
    [SUGGERE      |-> {"BROUILLON", "ANNULE"},
     BROUILLON    |-> {"SOUMIS", "ANNULE"},
     SOUMIS       |-> {"CONFIRME", "ANNULE", "LITIGE"},
     CONFIRME     |-> {"EXPEDIE", "ANNULE", "LITIGE"},
     EXPEDIE      |-> {"RECU_PARTIEL", "RECU", "LITIGE"},
     RECU_PARTIEL |-> {"RECU", "LITIGE"},
     RECU         |-> {},
     ANNULE       |-> {},
     LITIGE       |-> {"CONFIRME", "EXPEDIE", "ANNULE"}]

TERMINAL_RECEIVED == {"RECU", "RECU_PARTIEL"}

ASSUME SessionsAssumption ==
    /\ Api \cap Tools = {} /\ Api \cap Agents = {} /\ Tools \cap Agents = {}
ASSUME QuantityAssumption ==
    /\ Suggested \subseteq Nat /\ Received \subseteq Int /\ NoQty \notin Int
    /\ Moq \in Nat \ {0} /\ InitialStock \in Nat
    /\ MaxAge \in Nat /\ MaxJournal \in Nat /\ MaxSold \in Nat
    /\ Figures \subseteq Nat
ASSUME NullAssumption == NoPO \notin PO /\ NoRec \notin Rec

VARIABLES
    statut,         \* statut[p], or "ABSENT" before the INSERT
    recOf,          \* recommendation_id of p
    commandee,      \* quantite_commandee of p
    recue,          \* quantite_recue of p
    age,            \* time since date_soumission of p, up to MaxAge
    confirmedAuto,  \* confirmed_auto of p
    recStatus,      \* status of a recommendation, "none" before its INSERT
    recQty,         \* its suggested_quantity
    stock,          \* inventory.stock_levels.quantity
    journal,        \* units booked as RECEPTION_BC movements for p
    received,       \* the same, over the whole journal
    sold,           \* units booked as VENTE movements
    overwritten,    \* whether an analysis has put another figure into stock
    pc, job         \* the repository call each session has in flight

orderVars == <<statut, recOf, commandee, age, confirmedAuto>>
recVars   == <<recStatus, recQty>>
bookVars  == <<recue, stock, journal, received, sold, overwritten>>
vars == <<statut, recOf, commandee, recue, age, confirmedAuto, recStatus,
          recQty, stock, journal, received, sold, overwritten, pc, job>>

Job == [op  : {"none", "move", "approve", "reject", "suggest", "create"},
        po  : PO \cup {NoPO},
        rec : Rec \cup {NoRec},
        to  : Statut,
        qty : Received \cup {NoQty}]

MoveJob(p, to, q) ==
    [op |-> "move", po |-> p, rec |-> NoRec, to |-> to, qty |-> q]
OrderJob(op, p) ==
    [op |-> op, po |-> p, rec |-> NoRec, to |-> "SUGGERE", qty |-> NoQty]
RecJob(op, r) ==
    [op |-> op, po |-> NoPO, rec |-> r, to |-> "SUGGERE", qty |-> NoQty]
NoJob == OrderJob("none", NoPO)

Existing == {p \in PO : statut[p] # "ABSENT"}

TypeOK ==
    /\ statut \in [PO -> Statut \cup {"ABSENT"}]
    /\ recOf \in [PO -> Rec \cup {NoRec}]
    /\ commandee \in [PO -> Nat]
    /\ recue \in [PO -> Int]
    /\ age \in [PO -> 0..MaxAge]
    /\ confirmedAuto \in [PO -> BOOLEAN]
    /\ recStatus \in [Rec -> {"none", "pending", "approved", "rejected"}]
    /\ recQty \in [Rec -> Nat]
    /\ stock \in Nat
    /\ journal \in [PO -> Nat]
    /\ received \in Nat
    /\ sold \in Nat
    /\ overwritten \in BOOLEAN
    /\ pc \in [Session -> {"idle", "read", "write", "check", "insert"}]
    /\ job \in [Session -> Job]

Init ==
    /\ statut = [p \in PO |-> "ABSENT"]
    /\ recOf = [p \in PO |-> NoRec]
    /\ commandee = [p \in PO |-> 0]
    /\ recue = [p \in PO |-> 0]
    /\ age = [p \in PO |-> 0]
    /\ confirmedAuto = [p \in PO |-> FALSE]
    /\ recStatus = [r \in Rec |-> "none"]
    /\ recQty = [r \in Rec |-> 0]
    /\ stock = InitialStock
    /\ journal = [p \in PO |-> 0]
    /\ received = 0
    /\ sold = 0
    /\ overwritten = FALSE
    /\ pc = [s \in Session |-> "idle"]
    /\ job = [s \in Session |-> NoJob]

----------------------------------------------------------------------------
(* A call begins, ends, or is rolled back.                                 *)

Begin(s, where, j) ==
    /\ pc[s] = "idle"
    /\ pc' = [pc EXCEPT ![s] = where]
    /\ job' = [job EXCEPT ![s] = j]

Goto(s, where) ==
    /\ pc' = [pc EXCEPT ![s] = where]
    /\ UNCHANGED job

End(s) ==
    /\ pc' = [pc EXCEPT ![s] = "idle"]
    /\ job' = [job EXCEPT ![s] = NoJob]

\* Any exception, a dropped connection or a killed process: ROLLBACK.
Fail(s) ==
    /\ pc[s] # "idle"
    /\ End(s)
    /\ UNCHANGED <<orderVars, recVars, bookVars>>

----------------------------------------------------------------------------
(* update_status, from PATCH /purchase-orders/{id} or from the tools.      *)

\* (variant: a tool that does not look at the card first)
StartMoveUngated(s, p, to, q) ==
    /\ s \in Api \cup Tools
    /\ p \in Existing
    /\ to \notin TERMINAL_RECEIVED => q = NoQty
    /\ Begin(s, "read", MoveJob(p, to, q))
    /\ UNCHANGED <<orderVars, recVars, bookVars>>

\* PATCH answers 404 for an unknown row.  The tools also refuse a SUGGERE
\* card, on a read of their own made before update_status.  quantite_recue
\* counts only for a reception.
StartMove(s, p, to, q) ==
    /\ s \in Api \cup Tools
    /\ p \in Existing
    /\ s \in Tools => statut[p] # "SUGGERE"
    /\ to \notin TERMINAL_RECEIVED => q = NoQty
    /\ Begin(s, "read", MoveJob(p, to, q))
    /\ UNCHANGED <<orderVars, recVars, bookVars>>

\* (variant: no check against the table)
CheckMoveUnchecked(s) ==
    /\ pc[s] = "read" /\ job[s].op = "move"
    /\ Goto(s, "write")
    /\ UNCHANGED <<orderVars, recVars, bookVars>>

\* SELECT *, and the check against ALLOWED_TRANSITIONS.
CheckMove(s) ==
    /\ pc[s] = "read" /\ job[s].op = "move"
    /\ IF job[s].to \in ALLOWED_TRANSITIONS[statut[job[s].po]]
         THEN Goto(s, "write")
         ELSE End(s)
    /\ UNCHANGED <<orderVars, recVars, bookVars>>

ReceivedQty(s) ==
    IF job[s].qty = NoQty THEN commandee[job[s].po] ELSE job[s].qty

\* (variant: the stock row is credited with the quantity ordered)
WriteReceptionOrdered(s) ==
    LET p == job[s].po
        q == ReceivedQty(s)
    IN  /\ pc[s] = "write" /\ job[s].op = "move"
        /\ job[s].to \in TERMINAL_RECEIVED
        /\ received + q <= MaxJournal
        /\ statut' = [statut EXCEPT ![p] = job[s].to]
        /\ recue' = [recue EXCEPT ![p] = @ + q]
        /\ stock' = stock + commandee[p]
        /\ journal' = [journal EXCEPT ![p] = @ + q]
        /\ received' = received + q
        /\ End(s)
        /\ UNCHANGED <<recOf, commandee, age, confirmedAuto, recVars, sold, overwritten>>

\* UPDATE ... WHERE po_id: no condition on the statut it replaces.
WriteReception(s) ==
    LET p == job[s].po
        q == ReceivedQty(s)
        credited == IF q > 0 THEN q ELSE 0
    IN  /\ pc[s] = "write" /\ job[s].op = "move"
        /\ job[s].to \in TERMINAL_RECEIVED
        /\ received + credited <= MaxJournal /\ recue[p] + q >= -MaxJournal
        /\ statut' = [statut EXCEPT ![p] = job[s].to]
        /\ recue' = [recue EXCEPT ![p] = @ + q]
        /\ stock' = stock + credited
        /\ journal' = [journal EXCEPT ![p] = @ + credited]
        /\ received' = received + credited
        /\ End(s)
        /\ UNCHANGED <<recOf, commandee, age, confirmedAuto, recVars, sold, overwritten>>

WriteMove(s) ==
    LET p == job[s].po
        to == job[s].to
    IN  /\ pc[s] = "write" /\ job[s].op = "move"
        /\ to \notin TERMINAL_RECEIVED
        /\ statut' = [statut EXCEPT ![p] = to]
        /\ age' = [age EXCEPT ![p] = IF to = "SOUMIS" THEN 0 ELSE @]
        /\ confirmedAuto' =
             [confirmedAuto EXCEPT ![p] = IF to = "CONFIRME" THEN FALSE ELSE @]
        /\ End(s)
        /\ UNCHANGED <<recOf, commandee, recVars, bookVars>>

----------------------------------------------------------------------------
(* approve_suggestion and reject_suggestion.                               *)

StartDecide(s, p, verdict) ==
    /\ s \in Api
    /\ p \in Existing
    /\ Begin(s, "read", OrderJob(verdict, p))
    /\ UNCHANGED <<orderVars, recVars, bookVars>>

\* (variant: a decision on a card that is no longer SUGGERE)
CheckDecideUnchecked(s) ==
    /\ pc[s] = "read" /\ job[s].op \in {"approve", "reject"}
    /\ Goto(s, "write")
    /\ UNCHANGED <<orderVars, recVars, bookVars>>

CheckDecide(s) ==
    /\ pc[s] = "read" /\ job[s].op \in {"approve", "reject"}
    /\ IF statut[job[s].po] = "SUGGERE" THEN Goto(s, "write") ELSE End(s)
    /\ UNCHANGED <<orderVars, recVars, bookVars>>

\* The recommendation is updated whatever the row has become; the order only
\* where it still is SUGGERE.  Both commit.
WriteDecide(s) ==
    LET p == job[s].po
        ok == job[s].op = "approve"
    IN  /\ pc[s] = "write" /\ job[s].op \in {"approve", "reject"}
        /\ recStatus' = [recStatus EXCEPT ![recOf[p]] =
                            IF ok THEN "approved" ELSE "rejected"]
        /\ statut' = [statut EXCEPT ![p] =
                         IF @ # "SUGGERE" THEN @
                         ELSE IF ok THEN "BROUILLON" ELSE "ANNULE"]
        /\ End(s)
        /\ UNCHANGED <<recOf, commandee, age, confirmedAuto, recQty, bookVars>>

----------------------------------------------------------------------------
(* Recommendations: the agent's save_recommendation, which refreshes the   *)
(* pending row of the (sku, store) if there is one, and PATCH              *)
(* /recommendations/{id}, which sets a decision unconditionally.           *)

PendingRec == {r \in Rec : recStatus[r] = "pending"}

SaveRecommendation(s, r, q) ==
    /\ s \in Agents
    /\ IF PendingRec # {} THEN r \in PendingRec ELSE recStatus[r] = "none"
    /\ recStatus' = [recStatus EXCEPT ![r] = "pending"]
    /\ recQty' = [recQty EXCEPT ![r] = q]
    /\ Begin(s, "check", RecJob("suggest", r))
    /\ UNCHANGED <<orderVars, bookVars>>

UpdateRecommendation(s, r, decision) ==
    /\ s \in Api /\ pc[s] = "idle"
    /\ recStatus[r] # "none"
    /\ recStatus' = [recStatus EXCEPT ![r] = decision]
    /\ UNCHANGED <<recQty, orderVars, bookVars, pc, job>>

----------------------------------------------------------------------------
(* create_from_recommendation (POST /purchase-orders) and                  *)
(* create_suggestion_from_recommendation (the agent, POST .../suggest, the *)
(* tools).  The row is looked up on one connection and inserted on         *)
(* another; recommendation_id carries no UNIQUE constraint.                *)

StartCreate(s, r, op) ==
    /\ IF op = "create" THEN s \in Api ELSE s \in Api \cup Tools
    /\ recStatus[r] # "none"
    /\ Begin(s, "check", RecJob(op, r))
    /\ UNCHANGED <<orderVars, recVars, bookVars>>

\* A look-up that fails answers None, as one that finds nothing.
CheckExisting(s) ==
    /\ pc[s] = "check"
    /\ \/ /\ \E p \in Existing : recOf[p] = job[s].rec
          /\ End(s)
       \/ Goto(s, "insert")
    /\ UNCHANGED <<orderVars, recVars, bookVars>>

Usable(s) ==
    /\ recQty[job[s].rec] > 0
    /\ job[s].op = "create" => recStatus[job[s].rec] = "approved"

InsertOrder(s, p) ==
    LET r == job[s].rec
    IN  /\ pc[s] = "insert" /\ Usable(s)
        /\ statut[p] = "ABSENT"
        /\ statut' = [statut EXCEPT ![p] =
                         IF job[s].op = "create" THEN "BROUILLON" ELSE "SUGGERE"]
        /\ recOf' = [recOf EXCEPT ![p] = r]
        /\ commandee' = [commandee EXCEPT ![p] =
                            IF recQty[r] < Moq THEN Moq ELSE recQty[r]]
        /\ End(s)
        /\ UNCHANGED <<age, confirmedAuto, recVars, bookVars>>

DeclineInsert(s) ==
    /\ pc[s] = "insert" /\ ~Usable(s)
    /\ End(s)
    /\ UNCHANGED <<orderVars, recVars, bookVars>>

----------------------------------------------------------------------------
(* auto_confirm_stale_soumis: one UPDATE over every row it applies to.     *)

\* (variants: the statut not tested; the age tested strictly)
StaleAnyStatut == {p \in PO : statut[p] # "ABSENT" /\ age[p] >= MaxAge}
StaleStrict == {p \in PO : statut[p] = "SOUMIS" /\ age[p] > MaxAge}

Stale == {p \in PO : statut[p] = "SOUMIS" /\ age[p] >= MaxAge}

AutoConfirm ==
    /\ Stale # {}
    /\ statut' = [p \in PO |-> IF p \in Stale THEN "CONFIRME" ELSE statut[p]]
    /\ confirmedAuto' = [p \in PO |-> p \in Stale \/ confirmedAuto[p]]
    /\ UNCHANGED <<recOf, commandee, age, recVars, bookVars, pc, job>>

Waiting == {p \in PO : statut[p] = "SOUMIS" /\ age[p] < MaxAge}

Tick ==
    /\ Waiting # {}
    /\ age' = [p \in PO |-> IF p \in Waiting THEN age[p] + 1 ELSE age[p]]
    /\ UNCHANGED <<statut, recOf, commandee, confirmedAuto, recVars, bookVars,
                   pc, job>>

\* The simulator sells one unit at a time and only from positive stock.
Sellable == stock > 0 /\ sold < MaxSold

\* trg_sync_stock_on_sale decrements the row and journals the VENTE.
Sale ==
    /\ Sellable
    /\ stock' = stock - 1
    /\ sold' = sold + 1
    /\ UNCHANGED <<orderVars, recVars, recue, journal, received, overwritten,
                   pc, job>>

\* The AnalysisAgent writes the stock it worked on back to the row, whatever
\* receptions and sales made of it since (_persist_result).
AnalysisPersists(n) ==
    /\ stock' = n
    /\ overwritten' = (overwritten \/ n # stock)
    /\ UNCHANGED <<orderVars, recVars, recue, journal, received, sold, pc, job>>

----------------------------------------------------------------------------

Begins(s) ==
    \/ \E p \in PO, to \in Statut, q \in Received \cup {NoQty} :
          StartMove(s, p, to, q)
    \/ \E p \in PO, verdict \in {"approve", "reject"} : StartDecide(s, p, verdict)
    \/ \E r \in Rec, q \in Suggested : SaveRecommendation(s, r, q)
    \/ \E r \in Rec, d \in {"approved", "rejected"} : UpdateRecommendation(s, r, d)
    \/ \E r \in Rec, op \in {"create", "suggest"} : StartCreate(s, r, op)

Continues(s) ==
    \/ CheckMove(s) \/ WriteReception(s) \/ WriteMove(s)
    \/ CheckDecide(s) \/ WriteDecide(s)
    \/ CheckExisting(s) \/ DeclineInsert(s)
    \/ \E p \in PO : InsertOrder(s, p)
    \/ Fail(s)

Next ==
    \/ \E s \in Session : Begins(s) \/ Continues(s)
    \/ AutoConfirm
    \/ Tick
    \/ Sale
    \/ \E n \in Figures : AnalysisPersists(n)

Spec == Init /\ [][Next]_vars

\* Time passes and auto_confirm_loop runs for ever; no request is owed.
FairSpec == Spec /\ WF_vars(Tick) /\ WF_vars(AutoConfirm)

----------------------------------------------------------------------------
(* Properties.                                                             *)

\* The journal explains the stock, until an analysis overwrites it: quantity is
\* the initial stock plus every RECEPTION_BC less every VENTE.  The
\* quantite_recue of an order is what the journal holds for it (less at most,
\* should a caller send a negative count).
BooksBalance ==
    /\ ~overwritten => stock = InitialStock + received - sold
    /\ \A p \in PO : /\ recue[p] <= journal[p]
                     /\ Received \subseteq Nat => recue[p] = journal[p]

\* confirmed_auto marks a card the silence of 24 h confirmed: a card that
\* awaits confirmation, or was never submitted, does not carry it.
AwaitingIsUnconfirmed ==
    \A p \in PO : statut[p] \in {"ABSENT", "SUGGERE", "BROUILLON", "SOUMIS"}
                     => ~confirmedAuto[p]

\* approve_suggestion and reject_suggestion: "both in one transaction".  A
\* decision that reaches the recommendation reaches the order too.
DecisionsPaired ==
    [][\A s \in Api : WriteDecide(s) =>
          statut[job[s].po] = "SUGGERE" /\ statut'[job[s].po] # "SUGGERE"]_vars

\* The tools refuse a SUGGERE card on a read made before the transaction that
\* moves it: still, only a call of the API ever takes a card out of SUGGERE.
ToolsRespectGate ==
    [][\A p \in PO : statut[p] = "SUGGERE" /\ statut'[p] # "SUGGERE" =>
          \E s \in Api : job[s].po = p /\ pc[s] = "write" /\ pc'[s] = "idle"]_vars

\* A submitted order does not wait for ever: someone moves it or the loop
\* confirms it, whatever writes race with it.
SoumisIsResolved ==
    \A p \in PO : statut[p] = "SOUMIS" ~> statut[p] # "SOUMIS"

\* Every change of statut is one ALLOWED_TRANSITIONS lists.
LegalMoves ==
    [][\A p \in Existing : statut'[p] # statut[p] =>
          statut'[p] \in ALLOWED_TRANSITIONS[statut[p]]]_vars

Downstream == Statut \ {"SUGGERE", "BROUILLON", "ANNULE"}

\* An order is submitted, or further, only if its recommendation was decided.
HumanGate ==
    \A p \in Existing : statut[p] \in Downstream =>
                            recStatus[recOf[p]] # "pending"

\* A recommendation has at most one purchase order.
OneOrderPerRecommendation ==
    \A p1, p2 \in Existing : recOf[p1] = recOf[p2] => p1 = p2

\* With one writing worker, the table, the sessions, the agents' inserts and
\* the auto-confirmation loop implement the life cycle.
Lifecycle == INSTANCE POLifecycle
               WITH Allowed <- ALLOWED_TRANSITIONS, Received <- TERMINAL_RECEIVED
ImplementsLifecycle == Lifecycle!Spec

=============================================================================
