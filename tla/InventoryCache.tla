--------------------------- MODULE InventoryCache ---------------------------
(***************************************************************************)
(* The cached analyses of one store, followed for one of its SKUs: which   *)
(* sales and which decision its browsers are shown.  routes.py under       *)
(* app/inventory/api (cache, pipeline lock, push, sockets) with the sale   *)
(* callback of main.py that invalidates it.                                *)
(*                                                                         *)
(* Worker threads run the analyses; the event loop runs the sale callback, *)
(* the push, the sockets and the PATCH handler, which blocks it between    *)
(* its write and its patch of the cache.  Stocks are told apart by the     *)
(* sales they account for; their figures are in LiveStock.                 *)
(***************************************************************************)
EXTENDS InventoryRoutes, SequencesExt

CONSTANT Thread
ASSUME ThreadAssumption == Thread \subseteq Nat

VARIABLES
    sold,       \* sales committed in the database
    recs,       \* status of each recommendation, oldest first
    overridden, \* the SKU is in _DataCache._stock_overrides
    sale,       \* a sale is committed, its callback has not run
    announce,   \* the sales whose _persist_and_broadcast has not run
    cache,      \* _store_cache
    call,       \* what each thread is doing
    push,       \* the task in _pending_broadcasts
    conn,       \* objectives a browser is connected for
    owed,       \* those connected at a sale and not sent its analysis yet
    patching    \* the decision whose handler is between its write and its patch

dbVars == <<sold, recs>>
saleVars == <<overridden, sale, announce>>
loopVars == <<push, conn, owed, patching>>
vars == <<dbVars, budget, saleVars, cache, call, loopVars>>

Statuses == {"pending", "approved", "rejected"}

\* The decision whose handler has written and not patched.
Patching == [rec : Nat, status : Statuses]
ASSUME NoneAssumption == None \notin Statuses \cup Patching

\* What is kept of an item: the last sale the stock it shows accounts for, its
\* recommendation (0: none) and the status of it.
Item == [sales : Nat, rec : Nat, status : Statuses \cup {None}]
Fresh(o) == cache[o] # None /\ cache[o].fresh
Entry(item) == [fresh |-> TRUE, item |-> item]

Idle == [pc |-> "idle"]
\* (crossed, for the properties: a decision was taken after the call had read
\* the status it is going to show, or the status could not be read)
NewCall(o, for, pc) ==
    [pc |-> pc, obj |-> o, for |-> for, seen |-> 0,
     rec |-> 0, status |-> None, item |-> None, crossed |-> FALSE]
\* Threads are interchangeable: the first that is idle takes the next job.
Takes(t) == call[t] = Idle /\ \A u \in Thread : call[u] = Idle => t <= u
Locked(o) ==
    \E t \in Thread : call[t].pc \in {"run", "decided", "ready"} /\ call[t].obj = o

NoPush == [pc |-> "none", todo |-> {}, since |-> 0]
LoopFree == patching = None

TypeOK ==
    /\ sold \in Nat /\ recs \in Seq(Statuses) /\ budget \in 0..Budget
    /\ overridden \in BOOLEAN /\ sale \in BOOLEAN /\ announce \in Seq(Nat)
    /\ \A o \in Objective :
         cache[o] = None \/ (cache[o].fresh \in BOOLEAN /\ cache[o].item \in Item)
    /\ \A t \in Thread :
         call[t].pc \in {"idle", "wait", "run", "decided", "ready",
                         "done", "failed", "saved"}
    /\ push.pc \in {"none", "sleeping", "next", "called"}
    /\ push.todo \subseteq Objective /\ push.since \in Nat
    /\ conn \subseteq Objective /\ owed \subseteq conn
    /\ patching = None \/ patching.rec \in 1..Len(recs)

\* Every objective has its browser and a recommendation was saved; the entries
\* have expired since.
Init ==
    /\ sold = 0 /\ recs = <<"pending">> /\ budget = Budget
    /\ overridden = FALSE /\ sale = FALSE /\ announce = <<>>
    /\ cache = [o \in Objective |-> None]
    /\ call = [t \in Thread |-> Idle]
    /\ conn = Objective
    /\ push = NoPush /\ owed = {} /\ patching = None

----------------------------------------------------------------------------
(* analyze_store, on a worker thread.                                      *)

\* blocking=False: a caller that finds the lock taken leaves with the entry it
\* finds, however old, or with a placeholder; nothing changes.
Get(t, o, force) ==
    /\ Spend
    /\ Takes(t)
    /\ force \/ ~Fresh(o)
    /\ ~Locked(o)
    /\ call' = [call EXCEPT ![t] = NewCall(o, "get", "run")]
    /\ UNCHANGED <<dbVars, saleVars, cache, loopVars>>

\* How a call ends: a result that somebody waits for is picked up later by the
\* event loop (of what a warm-up sends nothing is said here).
Answered(c, item) ==
    CASE c.for \in {"get", "orphan"} -> Idle
      [] c.for = "warm" -> NewCall(c.obj, "warm", "done")
      [] c.for = "push" -> [NewCall(c.obj, "push", "done") EXCEPT !.item = item]
Runs(c) == NewCall(c.obj, IF c.for = "orphan" THEN "get" ELSE c.for, "run")
Failed(c) == IF c.for \in {"get", "orphan"} THEN Idle ELSE NewCall(c.obj, c.for, "failed")

\* blocking=True, once the lock is obtained: what another run put in the cache
\* meanwhile is used, unless the refresh is forced, as a push does.  (A forced
\* refresh that comes over HTTP does not wait.)
\* (variant: a forced caller satisfied with what it finds)
AcquireReusing(t) ==
    LET c == call[t] IN
    /\ c.pc = "wait" /\ ~Locked(c.obj)
    /\ call' = [call EXCEPT ![t] = IF Fresh(c.obj) THEN Answered(c, cache[c.obj].item)
                                                   ELSE Runs(c)]
    /\ UNCHANGED <<dbVars, budget, saleVars, cache, loopVars>>

Acquire(t) ==
    LET c == call[t] IN
    /\ c.pc = "wait" /\ ~Locked(c.obj)
    /\ call' = [call EXCEPT ![t] = IF Fresh(c.obj) /\ c.for = "warm"
                                     THEN Answered(c, cache[c.obj].item)
                                     ELSE Runs(c)]
    /\ UNCHANGED <<dbVars, budget, saleVars, cache, loopVars>>

\* save_recommendation: the pending row is refreshed, or a new one inserted.
Saved == IF recs # <<>> /\ recs[Len(recs)] = "pending" THEN recs
         ELSE Append(recs, "pending")

\* The stand-in, when the batch made no decision: the last one saved.
\* (variant: taken for a pending one)
StandInPending(c) == [c EXCEPT !.rec = Len(recs), !.status = "pending"]
StandIn(c) == [c EXCEPT !.rec = Len(recs), !.status = recs[Len(recs)]]

\* The reads of a run and the decision of its batch: an order saved as a
\* recommendation (its status is read again by the assembly), none, or an
\* error, where the last saved one stands in with the status it has now.
ReadAndDecide(t) ==
    LET read == [call[t] EXCEPT !.pc = "decided", !.seen = sold] IN
    /\ call[t].pc = "run"
    /\ \/ /\ Saved = recs \/ budget > 0
          /\ recs' = Saved
          /\ budget' = budget - (Len(Saved) - Len(recs))
          /\ call' = [call EXCEPT ![t] = [read EXCEPT !.rec = Len(Saved)]]
       \/ call' = [call EXCEPT ![t] = read] /\ UNCHANGED <<recs, budget>>
       \/ /\ recs # <<>>
          /\ call' = [call EXCEPT ![t] = StandIn(read)]
          /\ UNCHANGED <<recs, budget>>
    /\ UNCHANGED <<sold, saleVars, cache, loopVars>>

\* Sales whose callback has run: the override, if there is one, has them.  It
\* wins over the stock that was read.
Told == sold - (IF sale THEN 1 ELSE 0)
Shown(seen) == IF overridden THEN Told ELSE seen

\* (variant: a label for a missing one)
StatusLabel(c) == IF c.rec = 0 THEN "En attente" ELSE recs[c.rec]

Status(c) == IF c.rec = 0 \/ c.status # None THEN c.status ELSE recs[c.rec]

\* _to_inventory_item
Assemble(t) ==
    LET c == call[t] IN
    /\ c.pc = "decided"
    /\ call' = [call EXCEPT ![t] =
         [NewCall(c.obj, c.for, "ready") EXCEPT
           !.item = [sales |-> Shown(c.seen), rec |-> c.rec, status |-> Status(c)],
           !.crossed = c.crossed]]
    /\ UNCHANGED <<dbVars, budget, saleVars, cache, loopVars>>

\* The status of the decision could not be read: the item says pending.
AssembleBlind(t) ==
    LET c == call[t] IN
    /\ Spend
    /\ c.pc = "decided" /\ c.rec # 0 /\ c.status = None
    /\ call' = [call EXCEPT ![t] =
         [NewCall(c.obj, c.for, "ready") EXCEPT
           !.item = [sales |-> Shown(c.seen), rec |-> c.rec, status |-> "pending"],
           !.crossed = TRUE]]
    /\ UNCHANGED <<dbVars, saleVars, cache, loopVars>>

\* _set_cache, and the lock is released.
Commit(t) ==
    LET c == call[t] IN
    /\ c.pc = "ready"
    /\ cache' = [cache EXCEPT ![c.obj] = Entry(c.item)]
    /\ call' = [call EXCEPT ![t] = Answered(c, c.item)]
    /\ UNCHANGED <<dbVars, budget, saleVars, loopVars>>

\* An exception in the run: the lock is released, nothing is cached.
RunFails(t) ==
    /\ Spend
    /\ call[t].pc \in {"run", "decided"}
    /\ call' = [call EXCEPT ![t] = Failed(call[t])]
    /\ UNCHANGED <<dbVars, saleVars, cache, loopVars>>

Expire(o) ==
    /\ Fresh(o)
    /\ cache' = [cache EXCEPT ![o].fresh = FALSE]
    /\ UNCHANGED <<dbVars, budget, saleVars, call, loopVars>>

\* clear_cache; set_active_objective does the same to both caches.
ClearCache ==
    /\ Spend
    /\ cache' = [o \in Objective |-> None] /\ overridden' = FALSE
    /\ UNCHANGED <<dbVars, sale, announce, call, loopVars>>

----------------------------------------------------------------------------
(* run_llm_analysis, on a worker thread.                                   *)

LlmAnalyze(t, o) ==
    /\ Spend
    /\ Takes(t)
    /\ recs' = Saved
    /\ call' = [call EXCEPT ![t] =
         [NewCall(o, "get", "saved") EXCEPT !.item =
           [sales |-> Shown(sold), rec |-> Len(Saved), status |-> "pending"]]]
    /\ UNCHANGED <<sold, saleVars, cache, loopVars>>

\* _merge_item_into_cache: only into an entry that exists, whose age it keeps.
Merge(t) ==
    LET c == call[t] IN
    /\ c.pc = "saved"
    /\ cache' = IF cache[c.obj] = None THEN cache
                ELSE [cache EXCEPT ![c.obj].item = c.item]
    /\ call' = [call EXCEPT ![t] = Idle]
    /\ UNCHANGED <<dbVars, budget, saleVars, loopVars>>

----------------------------------------------------------------------------
(* A sale, from the simulator to the cache.                                *)

\* One simulator: one sale at a time is between its commit and its callback.
SaleCommits ==
    /\ Spend
    /\ ~sale
    /\ sold' = sold + 1 /\ sale' = TRUE
    /\ UNCHANGED <<recs, overridden, announce, cache, call, loopVars>>

\* _on_sale, with record_sale: synchronous; the announcement is a task.
OnSale ==
    /\ sale /\ LoopFree
    /\ overridden' = TRUE /\ sale' = FALSE
    /\ announce' = Append(announce, sold)
    /\ UNCHANGED <<dbVars, budget, cache, call, loopVars>>

ShowingSale(P, n) ==
    [o \in Objective |-> IF o \in P /\ cache[o] # None
                           THEN [cache[o] EXCEPT !.item.sales = n] ELSE cache[o]]

\* What becomes of the run of a push that is cancelled: the thread goes on, its
\* refresh still forced, and nobody waits for it.
Orphan(c) == IF c = Idle \/ c.for # "push" THEN c
             ELSE IF c.pc \in {"done", "failed"} THEN Idle
             ELSE [c EXCEPT !.for = IF c.pc = "wait" THEN "orphan" ELSE "get"]

Schedule ==
    /\ push' = [NoPush EXCEPT !.pc = "sleeping", !.since = Told]
    /\ call' = [t \in Thread |-> Orphan(call[t])]

\* invalidate_store for a sale: the entries are patched, the previous push of
\* the store is cancelled, a new one starts its debounce.  Announcements await
\* the sockets first and may overtake each other.
Announce(i) ==
    /\ LoopFree
    /\ cache' = ShowingSale(Objective, announce[i])
    /\ Schedule
    /\ owed' = conn
    /\ announce' = RemoveAt(announce, i)
    /\ UNCHANGED <<dbVars, budget, overridden, sale, conn, patching>>

\* A thread inserts a new key while the loop iterates over the entries: the
\* iteration raises, and the rest of the announcement is dropped.
Inserts(t) ==
    /\ call[t].pc = "ready" /\ cache[call[t].obj] = None
    /\ \E o \in Objective : cache[o] # None

AnnounceInterrupted(i, t, P) ==
    /\ LoopFree /\ Inserts(t)
    /\ cache' = [ShowingSale(P, announce[i]) EXCEPT ![call[t].obj] = Entry(call[t].item)]
    /\ call' = [call EXCEPT ![t] = Answered(call[t], call[t].item)]
    /\ announce' = RemoveAt(announce, i)
    /\ UNCHANGED <<dbVars, budget, overridden, sale, loopVars>>

----------------------------------------------------------------------------
(* _push_update_to_store, one objective after the other.                   *)

PushWakes ==
    /\ push.pc = "sleeping" /\ LoopFree
    /\ push' = IF conn = {} THEN NoPush ELSE [push EXCEPT !.pc = "next", !.todo = conn]
    /\ UNCHANGED <<dbVars, budget, saleVars, cache, call, conn, owed, patching>>

PushCalls(t, o) ==
    /\ push.pc = "next" /\ LoopFree /\ o \in push.todo
    /\ Takes(t)
    /\ call' = [call EXCEPT ![t] = NewCall(o, "push", "wait")]
    /\ push' = [push EXCEPT !.pc = "called"]
    /\ UNCHANGED <<dbVars, budget, saleVars, cache, conn, owed, patching>>

\* (variant: an exception ends the push)
PushNextOrGiveUp(t) ==
    LET left == push.todo \ {call[t].obj}
    IN  IF left = {} \/ call[t].pc = "failed" THEN NoPush
        ELSE [push EXCEPT !.pc = "next", !.todo = left]

PushNext(t) ==
    LET left == push.todo \ {call[t].obj}
    IN  IF left = {} THEN NoPush ELSE [push EXCEPT !.pc = "next", !.todo = left]

\* The result is sent; the failure of a run is logged and not retried.
PushSends(t) ==
    /\ push.pc = "called" /\ LoopFree
    /\ call[t].pc \in {"done", "failed"} /\ call[t].for = "push"
    /\ owed' = owed \ {call[t].obj}
    /\ push' = PushNext(t)
    /\ call' = [call EXCEPT ![t] = Idle]
    /\ UNCHANGED <<dbVars, budget, saleVars, cache, conn, patching>>

----------------------------------------------------------------------------
(* ws_inventory.                                                           *)

\* A fresh entry is sent at once; otherwise a run is started behind it, whose
\* result goes to every browser of the store.
Connect(o) ==
    /\ Spend
    /\ o \notin conn /\ LoopFree
    /\ conn' = conn \cup {o}
    /\ \/ Fresh(o) /\ UNCHANGED call
       \/ /\ ~Fresh(o)
          /\ \E t \in Thread :
               /\ Takes(t)
               /\ call' = [call EXCEPT ![t] = NewCall(o, "warm", "wait")]
    /\ UNCHANGED <<dbVars, saleVars, cache, push, owed, patching>>

WarmSends(t) ==
    /\ call[t].pc \in {"done", "failed"} /\ call[t].for = "warm" /\ LoopFree
    /\ call' = [call EXCEPT ![t] = Idle]
    /\ UNCHANGED <<dbVars, budget, saleVars, cache, loopVars>>

Disconnect(o) ==
    /\ Spend
    /\ o \in conn /\ LoopFree
    /\ conn' = conn \ {o} /\ owed' = owed \ {o}
    /\ UNCHANGED <<dbVars, saleVars, cache, call, push, patching>>

----------------------------------------------------------------------------
(* PATCH /recommendations/{id}: the write, then the patch of the cache,    *)
(* with no await between them.  Any recommendation the client holds the id *)
(* of, decided already or not.                                             *)

HasReadStatus(c) == c.pc \in {"ready", "saved"} \/ (c.pc = "decided" /\ c.status # None)

DecideRec(r, s) ==
    /\ Spend
    /\ LoopFree
    /\ recs' = [recs EXCEPT ![r] = s]
    /\ patching' = [rec |-> r, status |-> s]
    /\ call' = [t \in Thread |-> IF HasReadStatus(call[t])
                                   THEN [call[t] EXCEPT !.crossed = TRUE] ELSE call[t]]
    /\ UNCHANGED <<sold, saleVars, cache, push, conn, owed>>

\* An item is patched for its SKU as well as for its recommendation: one that
\* shows another recommendation of the SKU takes the status too.
WithStatus(P, s) ==
    [o \in Objective |-> IF o \in P /\ cache[o] # None
                           THEN [cache[o] EXCEPT !.item.status = s] ELSE cache[o]]

PatchCache ==
    /\ ~LoopFree
    /\ cache' = WithStatus(Objective, patching.status)
    /\ patching' = None
    /\ UNCHANGED <<dbVars, budget, saleVars, call, push, conn, owed>>

\* The decided row could not be read back.
PatchSkipped ==
    /\ Spend
    /\ ~LoopFree
    /\ patching' = None
    /\ UNCHANGED <<dbVars, saleVars, cache, call, push, conn, owed>>

PatchInterrupted(t, P) ==
    /\ ~LoopFree /\ Inserts(t)
    /\ cache' = [WithStatus(P, patching.status) EXCEPT ![call[t].obj] = Entry(call[t].item)]
    /\ call' = [call EXCEPT ![t] = Answered(call[t], call[t].item)]
    /\ patching' = None
    /\ UNCHANGED <<dbVars, budget, saleVars, push, conn, owed>>

----------------------------------------------------------------------------
Run(t) ==
    \/ ReadAndDecide(t) \/ Assemble(t) \/ Commit(t) \/ Merge(t)

Next ==
    \/ \E t \in Thread :
         \/ Acquire(t) \/ Run(t) \/ RunFails(t) \/ AssembleBlind(t)
         \/ PushSends(t) \/ WarmSends(t)
    \/ \E t \in Thread, o \in Objective :
         \/ \E force \in BOOLEAN : Get(t, o, force)
         \/ LlmAnalyze(t, o)
         \/ PushCalls(t, o)
    \/ \E o \in Objective : Expire(o) \/ Connect(o) \/ Disconnect(o)
    \/ ClearCache \/ SaleCommits \/ OnSale \/ PushWakes
    \/ \E i \in 1..Len(announce) :
         \/ Announce(i)
         \/ \E t \in Thread, P \in SUBSET Objective : AnnounceInterrupted(i, t, P)
    \/ \E r \in 1..Len(recs), s \in Statuses \ {"pending"} : DecideRec(r, s)
    \/ PatchCache \/ PatchSkipped
    \/ \E t \in Thread, P \in SUBSET Objective : PatchInterrupted(t, P)

Spec == Init /\ [][Next]_vars

\* Runs end, the event loop runs what is ready; a thread and the lock come free
\* for those that wait: requests are far apart.
FairSpec ==
    /\ Spec
    /\ \A t \in Thread : WF_vars(Acquire(t) \/ Run(t) \/ PushSends(t) \/ WarmSends(t))
    /\ WF_vars(PushWakes \/ \E t \in Thread, o \in Objective : PushCalls(t, o))
    /\ WF_vars(PatchCache)

----------------------------------------------------------------------------
(* Properties.                                                             *)

\* What a push sends was read after the sale it was scheduled for, though
\* another run may hold the lock, and end, while the push waits.
PushIsCurrent ==
    [][\A t \in Thread : PushSends(t) /\ call[t].pc = "done"
          => call[t].item.sales >= push.since]_vars

\* Every browser connected at a sale is sent an analysis (or the run for its
\* objective fails), though later sales cancel the push, the run for another
\* objective fails, and other runs hold the threads and the locks.
SaleReachesBrowsers == \A o \in Objective : o \in owed ~> o \notin owed

\* A decision that the cache shows is taken off it only by a run or an analysis
\* that had read the status before or could not read it, or by the patch of a
\* decision about another recommendation of the SKU; never by a run that starts
\* after it.
ShowsStatus(o) ==
    cache[o] # None /\ cache[o].item.rec # 0
      => cache[o].item.status = recs[cache[o].item.rec]

DecisionNotUndone ==
    [][\A o \in Objective :
         ShowsStatus(o) /\ ~ShowsStatus(o)' =>
           \/ patching' # None
           \/ patching # None /\ cache[o] # None /\ patching.rec # cache[o].item.rec
           \/ \E t \in Thread : call[t] # Idle /\ call[t].crossed /\ call'[t] # call[t]]_vars
=============================================================================
