-------------------------- MODULE InventoryAlerts --------------------------
(***************************************************************************)
(* The alerts of one store, followed for one of its SKUs: _build_alerts in *)
(* routes.py (app/inventory/api) and the rows of inventory.alerts it keeps *)
(* in step with the risk, through inventory_repo.py.  A run of the         *)
(* pipeline per objective (the lock is per store and objective, the table  *)
(* per store) and sync_alerts_to_db work on threads of their own, the      *)
(* operator's PATCH on the event loop.  Every database call has a          *)
(* connection of its own; a failing one is swallowed by its caller.        *)
(***************************************************************************)
EXTENDS InventoryRoutes, Sequences

CONSTANTS
    Decidable,  \* the table has the column decided_by that update_alert_status
                \* writes (no migration of the repository creates it)
    Nothing,    \* not cached
    Sync        \* the job of sync_alerts_to_db

ASSUME SyncAssumption == Sync \notin Objective

VARIABLES
    risk,    \* the alert an analysis of the SKU calls for, or None
    alerts,  \* the rows of the SKU, oldest first
    job,     \* each run, and the sync
    cached   \* the item of the SKU in each cached payload

alertsVars == <<risk, alerts, job, cached, budget>>

Kinds == {"stockout_risk", "below_minimum", "overstock"}
ASSUME KindsAssumption == None \notin Kinds /\ Nothing \notin Kinds \cup {None}

\* update_alert's statuses.  Four of them are terminal, and treated alike: two
\* stand for all.
Decisions == {"acknowledged", "validated", "resolved"}
Terminal == {"validated", "resolved"}

Job == Objective \cup {Sync}
NoJob == [pc |-> "idle"]

Row(k) == [type |-> k, status |-> "pending",
           recent |-> FALSE,  \* resolved_at is less than 24 hours old
           auto |-> FALSE]    \* (for the properties: by resolve_stale_alerts)
Pending(i) == alerts[i].status = "pending"
Rows(k) == {i \in 1..Len(alerts) : alerts[i].type = k}

AlertsTypeOK ==
    /\ risk \in Kinds \cup {None}
    /\ alerts \in Seq([type : Kinds, status : Decisions \cup {"pending"},
                       recent : BOOLEAN, auto : BOOLEAN])
    /\ \A j \in Job : job[j] # NoJob =>
         /\ job[j].pc \in {"match", "insert", "read", "resolve", "publish"}
         /\ job[j].found \in Kinds \cup {None}
         /\ job[j].id # 0 => job[j].id \in Rows(job[j].found)
    /\ cached \in [Objective -> Kinds \cup {None, Nothing}] /\ budget \in 0..Budget

\* A critical SKU and no rows; the other risks are a change away.
AlertsInit ==
    /\ risk = "stockout_risk"
    /\ alerts = <<>> /\ budget = Budget
    /\ job = [j \in Job |-> NoJob] /\ cached = [o \in Objective |-> Nothing]

----------------------------------------------------------------------------
(* A run: the items, the alerts that are kept, the rows, the payload.      *)

\* (changed: the rows whose status has changed since the job started)
NewJob(found, kept) ==
    [pc |-> IF kept THEN "match" ELSE "resolve",
     found |-> found, kept |-> kept, id |-> 0, len |-> 0,
     hidden |-> FALSE, missed |-> FALSE, changed |-> {}]

\* An item whose analysis failed is skipped, as one without risk is.  Of
\* MAX_ALERTS the critical ones come first and are never cut: other SKUs of the
\* store may fill it before an alert of another kind is kept.
Start(o) ==
    /\ job[o] = NoJob
    /\ \/ /\ \E kept \in IF risk = "stockout_risk" THEN {TRUE} ELSE BOOLEAN :
               job' = [job EXCEPT ![o] = NewJob(risk, kept /\ risk # None)]
          /\ UNCHANGED budget
       \/ Spend /\ job' = [job EXCEPT ![o] = NewJob(None, FALSE)]
    /\ UNCHANGED <<risk, alerts, cached>>

\* sync_alerts_to_db, over the items of a cached entry, however old.
StartSync(o) ==
    /\ Spend
    /\ job[Sync] = NoJob
    /\ cached[o] \in {"stockout_risk", "below_minimum"}
    /\ job' = [job EXCEPT ![Sync] = NewJob(cached[o], TRUE)]
    /\ UNCHANGED <<risk, alerts, cached>>

\* The row that stands for an alert: a pending one, else one closed less than
\* 24 hours ago; the latest of them.
\* (variant: the closed ones only)
StandsForClosed(k) == {i \in Rows(k) : alerts[i].status \in Terminal /\ alerts[i].recent}
StandsFor(k) ==
    {i \in Rows(k) : Pending(i) \/ (alerts[i].status \in Terminal /\ alerts[i].recent)}
Best(all) ==
    LET best == IF \E i \in all : Pending(i) THEN {i \in all : Pending(i)} ELSE all
    IN  IF all = {} THEN 0 ELSE CHOOSE i \in best : \A h \in best : h <= i
\* (variant: without the 24 hours)
RowEverOf(k) == Best({i \in Rows(k) : Pending(i) \/ alerts[i].status \in Terminal})
RowOf(k) == Best(StandsFor(k))

\* The SELECT of the transaction (upsert_alerts_batch, for a run), or no
\* connection for it.
Match(j) ==
    /\ job[j].pc = "match"
    /\ \/ /\ job' = [job EXCEPT ![j].pc = "insert", ![j].len = Len(alerts),
                                ![j].id = RowOf(job[j].found)]
          /\ UNCHANGED budget
       \/ /\ Spend
          /\ job' = [job EXCEPT ![j] = IF j = Sync THEN NoJob
                       ELSE [@ EXCEPT !.pc = "resolve", !.missed = TRUE]]
    /\ UNCHANGED <<risk, alerts, cached>>

\* What follows the transaction.
Closed(j, id, missed) ==
    IF j = Sync THEN NoJob
    ELSE [job[j] EXCEPT !.pc = IF id = 0 THEN "resolve" ELSE "read",
                        !.id = id, !.missed = missed, !.len = 0]

\* The INSERT, when no row stood for the alert, and the commit.
Insert(j) ==
    /\ job[j].pc = "insert"
    /\ LET new == job[j].id = 0 IN
       /\ alerts' = IF new THEN Append(alerts, Row(job[j].found)) ELSE alerts
       /\ job' = [job EXCEPT ![j] =
            Closed(j, IF new THEN Len(alerts) + 1 ELSE job[j].id, FALSE)]
    /\ UNCHANGED <<risk, cached, budget>>

\* The transaction is rolled back, at the alert's savepoint or as a whole: the
\* alert is shown with an id that leads nowhere.
\* (variant: taken for inserted)
InsertFailsAsInserted(j) ==
    /\ Spend
    /\ job[j].pc = "insert" /\ job[j].id = 0
    /\ job' = [job EXCEPT ![j] = Closed(j, Len(alerts) + 1, TRUE)]
    /\ UNCHANGED <<risk, alerts, cached>>

InsertFails(j) ==
    /\ Spend
    /\ job[j].pc = "insert" /\ job[j].id = 0
    /\ job' = [job EXCEPT ![j] = Closed(j, 0, TRUE)]
    /\ UNCHANGED <<risk, alerts, cached>>

\* get_non_pending_alert_ids: an alert closed already is left out.
ReadActioned(j) ==
    /\ job[j].pc = "read"
    /\ \/ /\ job' = [job EXCEPT ![j].pc = "resolve", ![j].hidden = ~Pending(job[j].id)]
          /\ UNCHANGED budget
       \/ Spend /\ job' = [job EXCEPT ![j].pc = "resolve", ![j].missed = TRUE]
    /\ UNCHANGED <<risk, alerts, cached>>

\* Rows change status: the runs under way have not seen it.
Change(R) ==
    [j \in Job |-> IF j = Sync \/ job[j] = NoJob THEN job[j]
                   ELSE [job[j] EXCEPT !.changed = @ \cup (R \cap Rows(job[j].found))]]

\* resolve_stale_alerts: every pending row of the SKU, whatever its kind, when
\* the run did not find the SKU at risk.
\* (variant: when the SKU is at risk in another way, as well)
ResolvedIfKept(j) == IF job[j].kept THEN {i \in Rows(job[j].found) : Pending(i)} ELSE {}
Resolved(j) == IF job[j].found = None THEN {i \in 1..Len(alerts) : Pending(i)} ELSE {}

Resolve(j) ==
    /\ job[j].pc = "resolve"
    /\ \/ /\ alerts' = [i \in 1..Len(alerts) |->
               IF i \in Resolved(j)
                 THEN [alerts[i] EXCEPT !.status = "resolved", !.recent = TRUE, !.auto = TRUE]
                 ELSE alerts[i]]
          /\ job' = [Change(Resolved(j)) EXCEPT ![j].pc = "publish"]
          /\ UNCHANGED budget
       \/ /\ Spend
          /\ job' = [job EXCEPT ![j].pc = "publish", ![j].missed = TRUE]
          /\ UNCHANGED alerts
    /\ UNCHANGED <<risk, cached>>

\* The alert of the payload, with the id of its row, or 0.
\* (variant: with the alerts closed already)
ShownWithClosed(j) == IF job[j].kept THEN {job[j].id} ELSE {}
ShownBy(j) == IF job[j].kept /\ ~job[j].hidden THEN {job[j].id} ELSE {}

\* _set_cache.
Publish(o) ==
    /\ job[o].pc = "publish"
    /\ cached' = [cached EXCEPT ![o] = job[o].found]
    /\ job' = [job EXCEPT ![o] = NoJob]
    /\ UNCHANGED <<risk, alerts, budget>>

----------------------------------------------------------------------------
(* PATCH /alerts/{id}: the client holds the id of a row.                   *)

\* Any status to any other; resolved_at is stamped by the terminal ones and
\* kept by "acknowledged".  Then the entries of the store are dropped, unless
\* its name could not be read.  The reply is 404 when the UPDATE fails.
Patch(i, status) ==
    /\ IF Decidable
         THEN /\ alerts' = [alerts EXCEPT ![i] =
                   [@ EXCEPT !.status = status, !.auto = FALSE,
                             !.recent = alerts[i].recent \/ status \in Terminal]]
              /\ job' = Change({i})
              /\ \/ /\ budget > 0 /\ budget' = budget - 1
                    /\ cached' = [o \in Objective |-> Nothing]
                 \/ /\ budget > 1 /\ budget' = budget - 2
                    /\ UNCHANGED cached
         ELSE Spend /\ UNCHANGED <<alerts, job, cached>>
    /\ UNCHANGED risk

----------------------------------------------------------------------------
(* The world.                                                              *)

RiskChanges(k) ==
    /\ Spend
    /\ risk # k
    /\ risk' = k
    /\ UNCHANGED <<alerts, job, cached>>

\* 24 hours after resolved_at.
Ages(i) ==
    /\ Spend
    /\ alerts[i].recent
    /\ alerts' = [alerts EXCEPT ![i].recent = FALSE]
    /\ job' = Change({i})
    /\ UNCHANGED <<risk, cached>>

----------------------------------------------------------------------------
Step(j) == Match(j) \/ Insert(j) \/ ReadActioned(j) \/ Resolve(j)

AlertsNext ==
    \/ \E j \in Job : Step(j) \/ InsertFails(j)
    \/ \E o \in Objective : Start(o) \/ StartSync(o) \/ Publish(o)
    \/ \E i \in 1..Len(alerts) : Ages(i) \/ \E status \in Decisions : Patch(i, status)
    \/ \E k \in Kinds \cup {None} : RiskChanges(k)

AlertsSpec == AlertsInit /\ [][AlertsNext]_alertsVars

\* The entries expire and are asked for: by the browsers, and every hour by
\* snapshot_loop.  A run that starts ends.
AlertsFairSpec ==
    /\ AlertsSpec
    /\ WF_alertsVars(Step(Sync))
    /\ \A o \in Objective : WF_alertsVars(Start(o) \/ Step(o) \/ Publish(o))

----------------------------------------------------------------------------
(* Properties.                                                             *)

\* Nothing in the table forbids two pending rows for one alert: a second one is
\* inserted only when the first was inserted by another job, between the SELECT
\* and the commit of this one.
DuplicateOnlyByOverlap ==
    [][\A j \in Job : Insert(j) /\ job[j].id = 0 =>
         \A i \in Rows(job[j].found) : Pending(i) => i > job[j].len]_alertsVars

\* An alert closed before a run starts is not in what it publishes, unless one
\* of its database calls failed or a duplicate of the row was pending; though
\* other runs, the sync and the operator work on the same rows.
HandledStaysHidden ==
    [][\A o \in Objective : Publish(o) /\ ~job[o].missed =>
         \A a \in ShownBy(o), i \in Rows(job[o].found) \ job[o].changed :
           alerts[i].status \in Terminal /\ alerts[i].recent
             => a \notin {0, i} /\ (Pending(a) \/ a \in job[o].changed)]_alertsVars

\* No alert of a SKU whose risk has cleared stays pending
\* (resolve_stale_alerts: "pending alert count keeps growing forever").
Stale == risk = None /\ \E i \in 1..Len(alerts) : Pending(i)
StaleIsResolved == Stale ~> ~Stale

\* A critical SKU gets a row, or one closed less than 24 hours ago stands for
\* it, whatever failed or cleared before.
Unraised ==
    /\ risk = "stockout_risk"
    /\ \A i \in Rows(risk) : ~Pending(i) /\ ~(alerts[i].status \in Terminal /\ alerts[i].recent)
CriticalIsRaised == Unraised ~> ~Unraised

\* "Suppress alerts the operator already handled within the 24-hour window"
\* (routes.py): what is suppressed was closed by the operator.
SuppressedWereHandled ==
    [][\A o \in Objective : Publish(o) /\ job[o].hidden => ~alerts[job[o].id].auto]_alertsVars

\* PATCH with the id of a row gives it the status asked for (its docstring:
\* only fake ids return 404).
PatchDecides ==
    [][\A i \in 1..Len(alerts), status \in Decisions :
         Patch(i, status) => alerts'[i].status = status]_alertsVars
=============================================================================
