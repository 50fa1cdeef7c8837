----------------------------- MODULE LiveStock -----------------------------
(***************************************************************************)
(* The figures kept of the stock of one SKU in several stores:             *)
(*   quantity   the row of inventory.stock_levels and its journal;         *)
(*   override   _DataCache._stock_overrides, per store, read first by the  *)
(*              agents and the inventory page;                             *)
(*   live       main.py's _live_stock, per SKU, from which the stock that  *)
(*              browsers are told at each sale is computed.                *)
(* The simulator sells, one sale after the other, on the event loop;       *)
(* receptions, analyses and cache clearing run in other threads; the       *)
(* replay of past sales, a demonstration mode, on the event loop.  An      *)
(* analysis writes the stock it worked on back to the row.                 *)
(***************************************************************************)
EXTENDS Integers

CONSTANTS
    Store, None,
    Stock,    \* bound: the greatest initial stock
    Lot,      \* units of a reception
    Replayed, \* units of a replay, 0 unless FORCE_ACTIVITY
    Budget,   \* bound: sales, receptions, replays, clearings and failures
    Analyses  \* bound: analyses

ASSUME StockAssumption == Stock \in Nat /\ Lot \in Nat \ {0} /\ Replayed \in Nat
ASSUME BudgetAssumption == Budget \in Nat /\ Analyses \in Nat
ASSUME StoreAssumption == None \notin Store /\ None \notin Int

VARIABLES
    quantity, journal,   \* the row; opening stock and the sum of its movements
    override, live,
    announced,           \* the last stock announced: its store and the figure
    seller,              \* the sale under way
    replay,              \* the replay under way: its store and what it read
    touched,             \* the stores whose row a replay or an analysis changed
    analysis,            \* of each store: its phase and what the batch preloaded
    figure,              \* the stock the last analysis of the store worked on
    restocked,           \* units received since the last sale
    budget, analyses

vars == <<quantity, journal, override, live, announced, seller, replay, touched,
          analysis, figure, restocked, budget, analyses>>

PlusFloor(n) == IF n > 0 THEN n ELSE 0   \* max(0, n), GREATEST(0, n)
Figure == Nat \cup {None}
Idle == [pc |-> "idle", store |-> None, current |-> None]
NotRunning == [pc |-> "off", preloaded |-> None, due |-> 0]
Spend == budget > 0 /\ budget' = budget - 1
\* The row is read, unless the database fails.
Reading(rowRead) == IF rowRead THEN UNCHANGED budget ELSE Spend

TypeOK ==
    /\ quantity \in [Store -> Nat] /\ journal \in [Store -> Int]
    /\ override \in [Store -> Figure] /\ live \in Figure
    /\ announced \in [store : Store, stock : Nat] \cup {None}
    /\ seller \in [pc : {"idle", "checked", "sold", "record", "write"},
                   store : Store \cup {None}, current : Figure]
    /\ replay \in [store : Store \cup {None}, current : Figure]
    /\ touched \subseteq Store
    /\ analysis \in [Store -> [pc : {"off", "loaded", "fetched"}, preloaded : Figure, due : Nat]]
    /\ figure \in [Store -> Figure]
    /\ restocked \in [Store -> Nat]
    /\ budget \in 0..Budget /\ analyses \in 0..Analyses

Init ==
    /\ quantity \in [Store -> 0..Stock] /\ journal = quantity
    /\ override = [s \in Store |-> None] /\ live = None /\ announced = None
    /\ seller = Idle /\ replay = [store |-> None, current |-> None] /\ touched = {}
    /\ analysis = [s \in Store |-> NotRunning]
    /\ figure = [s \in Store |-> None]
    /\ restocked = [s \in Store |-> 0] /\ budget = Budget /\ analyses = Analyses

----------------------------------------------------------------------------
(* A sale: _emit_sale, the trigger of transactions_rt, and _on_sale.       *)

\* No sale is attempted on an empty shelf, which is announced instead.
Available(s) == quantity[s] > 0

Check(s) ==
    /\ seller = Idle /\ Spend
    /\ IF Available(s)
         THEN seller' = [Idle EXCEPT !.pc = "checked", !.store = s] /\ UNCHANGED live
         ELSE live' = 0 /\ UNCHANGED seller       \* _on_stockout
    /\ UNCHANGED <<quantity, journal, override, announced, replay, touched, analysis, figure,
                   restocked, analyses>>

\* INSERT and trg_sync_stock_on_sale: the row and its journal, in one transaction.
\* (variant: the trigger of the first migration, without the journal)
JournalNothing(s) == journal
JournalSale(s) == [journal EXCEPT ![s] = @ - 1]

Insert ==
    LET s == seller.store IN
    /\ seller.pc = "checked"
    /\ quantity' = [quantity EXCEPT ![s] = PlusFloor(@ - 1)]
    /\ journal' = JournalSale(s)
    /\ restocked' = [restocked EXCEPT ![s] = 0]
    /\ seller' = [seller EXCEPT !.pc = "sold"]
    /\ UNCHANGED <<override, live, announced, replay, touched, analysis, figure, budget, analyses>>

\* The stock to announce.  get_stock_level answers with stock_current, where
\* quantity_available and stock_on_hand are looked for: a row that was read
\* counts for 0; one that was not, for the override or for 50.
FirstLive(s, rowRead) ==
    IF rowRead THEN 0 ELSE IF override[s] # None THEN override[s] ELSE 50

OnSale(rowRead) ==
    LET s == seller.store
        current == IF live = None THEN FirstLive(s, rowRead) ELSE live IN
    /\ seller.pc = "sold"
    /\ Reading(rowRead)
    /\ live' = PlusFloor(current - 1)
    /\ announced' = [store |-> s, stock |-> live']
    /\ seller' = [seller EXCEPT !.pc = "record"]
    /\ UNCHANGED <<quantity, journal, override, replay, touched, analysis, figure,
                   restocked, analyses>>

\* _DataCache.record_sale: the override, or the row, which the trigger has
\* already decremented, or 0 if it cannot be read.
RecordRead(rowRead) ==
    LET s == seller.store IN
    /\ seller.pc = "record"
    /\ rowRead \/ override[s] = None
    /\ Reading(rowRead)
    /\ seller' = [seller EXCEPT !.pc = "write",
                    !.current = IF override[s] # None THEN override[s]
                                ELSE IF rowRead THEN quantity[s] ELSE 0]
    /\ UNCHANGED <<quantity, journal, override, live, announced, replay, touched, analysis,
                   figure, restocked, analyses>>

\* (variants: the override is only made, never lowered; it has no floor)
NotLowered(n) == n
LoweredBelow(n) == n - 1
Lowered(n) == PlusFloor(n - 1)

RecordWrite ==
    /\ seller.pc = "write"
    /\ override' = [override EXCEPT ![seller.store] = Lowered(seller.current)]
    /\ seller' = Idle
    /\ UNCHANGED <<quantity, journal, live, announced, replay, touched, analysis, figure,
                   restocked, budget, analyses>>

----------------------------------------------------------------------------
(* The other writers and readers.                                          *)

\* A reception of a purchase order (SyncPurchaseOrderRepo.update_status).
Receive(s) ==
    /\ Spend
    /\ quantity' = [quantity EXCEPT ![s] = @ + Lot]
    /\ journal' = [journal EXCEPT ![s] = @ + Lot]
    /\ restocked' = [restocked EXCEPT ![s] = @ + Lot]
    /\ UNCHANGED <<override, live, announced, seller, replay, touched, analysis, figure, analyses>>

\* StockSimulator.record_sale: the row is read, then written, with awaits
\* between; it waits while _on_sale holds the event loop.
LoopIsFree == seller.pc \in {"idle", "checked"}

ReplayRead(s) ==
    /\ Replayed > 0 /\ replay.store = None /\ LoopIsFree /\ Spend
    /\ replay' = [store |-> s, current |-> quantity[s]]
    /\ UNCHANGED <<quantity, journal, override, live, announced, seller, touched, analysis,
                   figure, restocked, analyses>>

ReplayWrite ==
    /\ replay.store # None /\ LoopIsFree
    /\ quantity' = [quantity EXCEPT ![replay.store] = PlusFloor(replay.current - Replayed)]
    /\ touched' = touched \cup {replay.store}
    /\ replay' = [store |-> None, current |-> None]
    /\ UNCHANGED <<journal, override, live, announced, seller, analysis, figure, restocked,
                   budget, analyses>>

\* _DataCache.invalidate, by DELETE /cache or a change of objective.
Invalidate ==
    /\ Spend
    /\ override' = [s \in Store |-> None]
    /\ UNCHANGED <<quantity, journal, live, announced, seller, replay, touched, analysis, figure,
                   restocked, analyses>>

\* An analysis: analyze_batch reads the rows once and each SKU is fetched later;
\* analyze_sku, and a batch whose read failed, preload nothing.  _persist_result
\* puts the stock that was fetched into the row.
Preload(s, preloads) ==
    /\ analysis[s].pc = "off"
    /\ analyses > 0 /\ analyses' = analyses - 1
    /\ analysis' = [analysis EXCEPT ![s] =
                      [pc |-> "loaded", preloaded |-> IF preloads THEN quantity[s] ELSE None,
                       due |-> restocked[s]]]
    /\ UNCHANGED <<quantity, journal, override, live, announced, seller, replay, touched, figure,
                   restocked, budget>>

\* Without preloaded rows get_stock_status reads the row; it answers with
\* current_stock, where compute_node looks for stock_current and takes 0.
\* (variant: the override counts only if nothing was preloaded)
PreloadedFirst(s) ==
    IF analysis[s].preloaded = None THEN 0 ELSE analysis[s].preloaded
StockRead(s) ==
    IF analysis[s].preloaded = None THEN 0
    ELSE IF override[s] # None THEN override[s] ELSE analysis[s].preloaded

Fetch(s) ==
    /\ analysis[s].pc = "loaded"
    /\ figure' = [figure EXCEPT ![s] = StockRead(s)]
    /\ analysis' = [analysis EXCEPT ![s].pc = "fetched"]
    /\ UNCHANGED <<quantity, journal, override, live, announced, seller, replay, touched,
                   restocked, budget, analyses>>

Persist(s) ==
    /\ analysis[s].pc = "fetched"
    /\ quantity' = [quantity EXCEPT ![s] = figure[s]]
    /\ touched' = IF figure[s] = quantity[s] THEN touched ELSE touched \cup {s}
    /\ analysis' = [analysis EXCEPT ![s] = NotRunning]
    /\ UNCHANGED <<journal, override, live, announced, seller, replay, figure, restocked, budget,
                   analyses>>

\* An exception of a node, or a database that refuses the write.
AnalysisFails(s) ==
    /\ analysis[s].pc # "off"
    /\ analysis' = [analysis EXCEPT ![s] = NotRunning]
    /\ UNCHANGED <<quantity, journal, override, live, announced, seller, replay, touched, figure,
                   restocked, budget, analyses>>

----------------------------------------------------------------------------
Next ==
    \/ \E s \in Store : Check(s) \/ Receive(s) \/ ReplayRead(s)
    \/ \E s \in Store : Fetch(s) \/ Persist(s) \/ AnalysisFails(s)
    \/ \E r \in BOOLEAN : OnSale(r) \/ RecordRead(r) \/ \E s \in Store : Preload(s, r)
    \/ Insert \/ RecordWrite \/ ReplayWrite \/ Invalidate

Spec == Init /\ [][Next]_vars

----------------------------------------------------------------------------
(* Properties.                                                             *)

\* The sale the trigger has counted and record_sale has not.
Pending(s) == IF seller.store = s /\ seller.pc \in {"sold", "record", "write"} THEN 1 ELSE 0

\* The override never shows stock that is not there, however sales, receptions
\* and clearings interleave: it may lag behind by the sale being recorded.
NeverOverstated ==
    \A s \in Store \ touched : override[s] # None => override[s] <= quantity[s] + Pending(s)

\* Opening stock, sales and receptions explain every row ("journal comptable
\* complet"), unless a replay or an analysis put an older figure into it.
JournalExplainsStock == \A s \in Store \ touched : quantity[s] = journal[s]

\* An analysis that found an override never works on more than the store has,
\* although its batch was read before sales it did not see.
SalesAreSeen ==
    [][\A s \in Store \ touched :
         Fetch(s) /\ override[s] # None => figure'[s] <= quantity[s] + Pending(s)]_vars

\* _persist_result, "Updates: inventory.stock_levels -> remaining_days_of_stock":
\* the analysis of a store leaves its stock as the sales and receptions made it.
AnalysisKeepsStock == [][\A s \in Store : Persist(s) => quantity'[s] = quantity[s]]_vars

\* "closes the loop so the next agent cycle sees accurate stock": an analysis
\* works on no less than what was received before it began and not sold since.
ReceptionIsSeen ==
    [][\A s \in Store \ touched : Fetch(s) /\ analysis[s].preloaded # None =>
         figure'[s] >= analysis[s].due \/ figure'[s] >= restocked[s]]_vars

\* "Broadcast WebSocket immédiat avec le nouveau niveau de stock".
AnnouncedIsStock == [][announced' # announced => announced'.stock = quantity[announced'.store]]_vars
=============================================================================
