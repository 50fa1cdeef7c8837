----------------------- MODULE InventoryRoutes_proofs -----------------------
(***************************************************************************)
(* Proofs about the two components of routes.py (app/inventory/api): the   *)
(* cached analyses (InventoryCache) and the alerts (InventoryAlerts), for  *)
(* every set of objectives and threads and every budget of events.         *)
(***************************************************************************)
EXTENDS InventoryCache, InventoryAlerts, WellFoundedInduction, TLAPS

----------------------------------------------------------------------------
(* Sets of row numbers have a greatest element.                            *)

LEMMA Least ==
  ASSUME NEW T \in SUBSET Nat, T # {}
  PROVE  \E x \in T : \A y \in T : x <= y
<1>1. PICK R : IsWellFoundedOn(R, Nat) /\ \A x, y \in Nat : <<y, x>> \in R <=> y < x
  <2> DEFINE R == OpToRel(<, Nat)
  <2>1. IsWellFoundedOn(R, Nat)
    BY NatLessThanWellFounded
  <2>2. \A x, y \in Nat : <<y, x>> \in R <=> y < x
    BY SMT DEF OpToRel
  <2> HIDE DEF R
  <2> QED BY <2>1, <2>2
<1>2. PICK x \in T : \A y \in T : ~(<<y, x>> \in R)
  BY <1>1, WFMin, Zenon
<1>3. ASSUME NEW y \in T PROVE x <= y
  <2>1. x \in Nat /\ y \in Nat /\ ~(<<y, x>> \in R)
    BY <1>2
  <2> QED BY <1>1, <2>1
<1> QED BY <1>3

LEMMA Greatest ==
  ASSUME NEW n \in Nat, NEW S \in SUBSET (0..n), S # {}
  PROVE  \E i \in S : \A h \in S : h <= i
<1> DEFINE T == {t \in Nat : \E i \in S : t = n - i}
<1>1. T \in SUBSET Nat /\ \A i \in S : n - i \in T
  OBVIOUS
<1>2. PICK x \in T : \A y \in T : x <= y
  <2> HIDE DEF T
  <2> QED BY <1>1, Least
<1>3. PICK i \in S : x = n - i
  OBVIOUS
<1>4. ASSUME NEW h \in S PROVE h <= i
  <2>1. n - i <= n - h
    BY <1>1, <1>2, <1>3
  <2> QED BY <2>1
<1> QED BY <1>4

----------------------------------------------------------------------------
(***************************************************************************)
(* The alerts.  A row keeps its kind and never comes back to pending; what *)
(* changes it is noted with the runs under way.  So what a job knows of    *)
(* the rows of its kind stays true of the rows not noted: that none of     *)
(* those it looked at was pending, or that the one it shows was.           *)
(***************************************************************************)
RowSet == [type : Kinds, status : Decisions \cup {"pending"},
           recent : BOOLEAN, auto : BOOLEAN]

JobSet == [pc : {"match", "insert", "read", "resolve", "publish"},
           found : Kinds \cup {None}, kept : BOOLEAN, id : Nat, len : Nat,
           hidden : BOOLEAN, missed : BOOLEAN, changed : SUBSET Nat]

\* What a job under way knows.
Knows(j) ==
    /\ job[j] \in JobSet
    /\ job[j].id # 0 => job[j].id \in Rows(job[j].found)
    /\ j = Sync => job[j].pc \in {"match", "insert"}
    /\ job[j].pc \in {"match", "insert", "read"} => job[j].found \in Kinds
    /\ job[j].pc = "insert" => job[j].len <= Len(alerts)
    /\ job[j].pc = "insert" /\ job[j].id = 0 =>
         \A i \in Rows(job[j].found) : Pending(i) => i > job[j].len
    /\ job[j].pc = "read" => job[j].id # 0
    /\ job[j].pc \in {"resolve", "publish"} /\ job[j].kept /\ ~job[j].missed
         /\ ~job[j].hidden =>
         job[j].id # 0 /\ (Pending(job[j].id) \/ job[j].id \in job[j].changed)

AlertsIInv ==
    /\ risk \in Kinds \cup {None}
    /\ cached \in [Objective -> Kinds \cup {None, Nothing}]
    /\ alerts \in Seq(RowSet)
    /\ DOMAIN job = Job
    /\ \A j \in Job : job[j] = NoJob \/ Knows(j)

\* A step that changes the status of rows R, to another than pending, and may
\* add rows that are pending.
Moves(R) ==
    /\ alerts' \in Seq(RowSet) /\ Len(alerts) <= Len(alerts')
    /\ \A i \in 1..Len(alerts) :
         /\ alerts'[i].type = alerts[i].type
         /\ alerts'[i].status = "pending" => alerts[i].status = "pending"
         /\ i \notin R => alerts'[i].status = alerts[i].status

LEMMA MovesNothing ==
  ASSUME alerts \in Seq(RowSet), alerts' = alerts, NEW R
  PROVE  Moves(R)
  BY DEF Moves

LEMMA RowsKept ==
  ASSUME alerts \in Seq(RowSet), NEW R, Moves(R), NEW k
  PROVE  /\ Rows(k) \subseteq Rows(k)'
         /\ \A i \in Rows(k)' : i \in Rows(k) \/ i > Len(alerts)
         /\ \A i \in Rows(k) :
              /\ Pending(i)' => Pending(i)
              /\ i \notin R => (Pending(i)' <=> Pending(i))
  BY DEF Moves, Rows, Pending

\* What another job's step leaves of what a job knows.
LEMMA StillKnows ==
  ASSUME NEW j \in Job, Knows(j), alerts \in Seq(RowSet),
         NEW R \in SUBSET Nat, Moves(R),
         \/ job'[j] = job[j] /\ (j = Sync \/ R = {})
         \/ job'[j] = [job[j] EXCEPT !.changed =
                         job[j].changed \cup (R \cap Rows(job[j].found))]
  PROVE  Knows(j)'
<1> PICK c : c = job[j]
  OBVIOUS
<1> PICK d : d = job'[j]
  OBVIOUS
<1>1. /\ d \in JobSet
      /\ d.pc = c.pc /\ d.found = c.found /\ d.kept = c.kept /\ d.id = c.id
      /\ d.len = c.len /\ d.hidden = c.hidden /\ d.missed = c.missed
      /\ c.changed \subseteq d.changed
      /\ j # Sync => R \cap Rows(c.found) \subseteq d.changed
  <2>1. CASE d = c /\ (j = Sync \/ R = {})
    BY <2>1 DEF Knows
  <2>2. CASE d = [c EXCEPT !.changed = c.changed \cup (R \cap Rows(c.found))]
    <3>1. c \in JobSet /\ c.changed \cup (R \cap Rows(c.found)) \in SUBSET Nat
      BY DEF Knows, JobSet
    <3> QED BY <2>2, <3>1, SMTT(30) DEF JobSet
  <2> QED BY <2>1, <2>2
<1>2. c.id # 0 => d.id \in Rows(d.found)'
  BY <1>1, RowsKept DEF Knows
<1>3. c.pc = "insert" /\ c.id = 0 =>
        \A i \in Rows(d.found)' : Pending(i)' => i > d.len
  <2> SUFFICES ASSUME c.pc = "insert", c.id = 0,
                      NEW i \in Rows(c.found)', Pending(i)'
               PROVE  i > c.len
    BY <1>1
  <2>1. CASE i \in Rows(c.found)
    BY <2>1, RowsKept DEF Knows
  <2>2. CASE i > Len(alerts)
    <3>1. c.len <= Len(alerts) /\ c.len \in Nat /\ i \in Int /\ Len(alerts) \in Nat
      BY DEF Knows, JobSet, Rows, Moves
    <3> QED BY <2>2, <3>1
  <2> QED BY <2>1, <2>2, RowsKept
<1>4. c.id # 0 /\ j # Sync /\ (Pending(c.id) \/ c.id \in c.changed)
        => Pending(d.id)' \/ d.id \in d.changed
  <2> SUFFICES ASSUME c.id # 0, j # Sync, Pending(c.id), c.id \notin d.changed
               PROVE  Pending(c.id)'
    BY <1>1
  <2>1. c.id \in Rows(c.found) /\ c.id \notin R
    BY <1>1 DEF Knows
  <2> QED BY <2>1, RowsKept
<1>5. c.pc = "insert" => d.len <= Len(alerts')
  BY <1>1 DEF Knows, JobSet, Moves
<1> QED BY <1>1, <1>2, <1>3, <1>4, <1>5 DEF Knows

\* The row a transaction finds for an alert; none, and no pending one exists.
LEMMA RowFound ==
  ASSUME alerts \in Seq(RowSet), NEW k
  PROVE  /\ RowOf(k) \in Nat
         /\ RowOf(k) # 0 => RowOf(k) \in Rows(k)
         /\ RowOf(k) = 0 => \A i \in Rows(k) : ~Pending(i)
<1> PICK all : all = StandsFor(k)
  OBVIOUS
<1> PICK best : best = IF \E i \in all : Pending(i)
                         THEN {i \in all : Pending(i)} ELSE all
  OBVIOUS
<1>1. /\ all \subseteq Rows(k) /\ best \subseteq all
      /\ \A i \in Rows(k) : Pending(i) => i \in all
  BY DEF StandsFor
<1>2. RowOf(k) = IF all = {} THEN 0
                        ELSE CHOOSE i \in best : \A h \in best : h <= i
  BY SMT DEF RowOf, Best
<1>3. CASE all = {}
  BY <1>1, <1>2, <1>3
<1>4. CASE all # {}
  <2>1. best # {} /\ best \in SUBSET (0..Len(alerts)) /\ Len(alerts) \in Nat
    BY <1>1, <1>4 DEF Rows
  <2>2. \E i \in best : \A h \in best : h <= i
    BY <2>1, Greatest
  <2>3. RowOf(k) \in best
    BY <1>2, <1>4, <2>2, Zenon
  <2>4. RowOf(k) \in Rows(k)
    BY <1>1, <2>3
  <2> QED BY <2>4 DEF Rows
<1> QED BY <1>3, <1>4

----------------------------------------------------------------------------
(* Each step, for the job that takes it and for the others.                *)

Jobs(J) == \A k \in J : job[k] = NoJob \/ Knows(k)

LEMMA OthersStillKnow ==
  ASSUME AlertsIInv, NEW R \in SUBSET Nat, Moves(R), NEW J \in SUBSET Job,
         \/ \A k \in J : job'[k] = Change(R)[k]
         \/ R = {} /\ \A k \in J : job'[k] = job[k]
  PROVE  Jobs(J)'
<1> SUFFICES ASSUME NEW k \in J PROVE job'[k] = NoJob \/ Knows(k)'
  BY DEF Jobs
<1>1. CASE R = {} /\ job'[k] = job[k]
  BY <1>1, StillKnows DEF AlertsIInv
<1>2. CASE job'[k] = Change(R)[k]
  <2>1. CASE k = Sync \/ job[k] = NoJob
    <3>1. job'[k] = job[k]
      BY <1>2, <2>1 DEF Change
    <3> QED BY <2>1, <3>1, StillKnows DEF AlertsIInv
  <2>2. CASE ~(k = Sync \/ job[k] = NoJob)
    <3>1. job'[k] = [job[k] EXCEPT !.changed =
                       job[k].changed \cup (R \cap Rows(job[k].found))]
      BY <1>2, <2>2 DEF Change
    <3>2. Knows(k)
      BY <2>2 DEF AlertsIInv
    <3> QED BY <3>1, <3>2, StillKnows DEF AlertsIInv
  <2> QED BY <2>1, <2>2
<1> QED BY <1>1, <1>2

\* A step of one job, with the rows it changes.
LEMMA StepOfJob ==
  ASSUME AlertsIInv, NEW R \in SUBSET Nat, Moves(R), NEW j \in Job,
         DOMAIN job' = Job,
         \/ \A k \in Job \ {j} : job'[k] = Change(R)[k]
         \/ R = {} /\ \A k \in Job \ {j} : job'[k] = job[k],
         job'[j] = NoJob \/ Knows(j)',
         risk' \in Kinds \cup {None},
         cached' \in [Objective -> Kinds \cup {None, Nothing}]
  PROVE  AlertsIInv'
<1>1. Jobs(Job \ {j})'
  BY OthersStillKnow
<1> QED BY <1>1 DEF Jobs, AlertsIInv, Moves

LEMMA AlertsInitIInv == AlertsInit => AlertsIInv
<1> SUFFICES ASSUME AlertsInit PROVE AlertsIInv
  OBVIOUS
<1>1. alerts \in Seq(RowSet)
  BY DEF AlertsInit
<1> QED BY <1>1 DEF AlertsInit, AlertsIInv, Kinds

\* A job that starts knows nothing.
LEMMA NewJobKnows ==
  ASSUME NEW j \in Job, NEW found \in Kinds \cup {None}, NEW kept \in BOOLEAN,
         kept => found \in Kinds, j = Sync => kept,
         job'[j] = NewJob(found, kept)
  PROVE  Knows(j)'
<1> PICK c : c = job'[j]
  OBVIOUS
<1>1. CASE kept = TRUE
  <2>1. c = [pc |-> "match", found |-> found, kept |-> TRUE, id |-> 0, len |-> 0,
             hidden |-> FALSE, missed |-> FALSE, changed |-> {}]
    BY <1>1 DEF NewJob
  <2> QED BY <1>1, <2>1 DEF Knows, JobSet
<1>2. CASE kept = FALSE
  <2>1. c = [pc |-> "resolve", found |-> found, kept |-> FALSE, id |-> 0, len |-> 0,
             hidden |-> FALSE, missed |-> FALSE, changed |-> {}]
    BY <1>2 DEF NewJob
  <2> QED BY <1>2, <2>1 DEF Knows, JobSet
<1> QED BY <1>1, <1>2

LEMMA StartIInv ==
  ASSUME AlertsIInv, NEW o \in Objective, Start(o)
  PROVE  AlertsIInv'
<1>1. Moves({}) /\ o \in Job /\ o # Sync
  BY MovesNothing, SyncAssumption DEF Start, AlertsIInv, Job
<1>2. PICK found \in Kinds \cup {None}, kept \in BOOLEAN :
        /\ kept => found \in Kinds
        /\ job' = [job EXCEPT ![o] = NewJob(found, kept)]
  <2>1. CASE job' = [job EXCEPT ![o] = NewJob(None, FALSE)]
    BY <2>1
  <2>2. ASSUME NEW kept \in BOOLEAN,
               job' = [job EXCEPT ![o] = NewJob(risk, kept /\ risk # None)]
        PROVE  \E found \in Kinds \cup {None}, k \in BOOLEAN :
                 /\ k => found \in Kinds
                 /\ job' = [job EXCEPT ![o] = NewJob(found, k)]
    <3>1. risk \in Kinds \cup {None}
      BY DEF AlertsIInv
    <3>2. PICK k \in BOOLEAN : k = (kept /\ risk # None)
      BY Zenon
    <3>3. k => risk \in Kinds
      BY <3>1, <3>2
    <3>4. job' = [job EXCEPT ![o] = NewJob(risk, k)]
      BY <2>2, <3>2, Zenon
    <3> QED BY <3>1, <3>3, <3>4
  <2>3. \A S \in SUBSET BOOLEAN : \A k \in S : k \in BOOLEAN
    OBVIOUS
  <2>4. \/ \E kept \in BOOLEAN :
             job' = [job EXCEPT ![o] = NewJob(risk, kept /\ risk # None)]
        \/ job' = [job EXCEPT ![o] = NewJob(None, FALSE)]
    BY Zenon DEF Start
  <2> QED BY <2>1, <2>2, <2>4, Zenon
<1>3. job'[o] = NewJob(found, kept) /\ DOMAIN job' = Job
      /\ \A k \in Job \ {o} : job'[k] = job[k]
  BY <1>1, <1>2 DEF AlertsIInv
<1>4. Knows(o)'
  BY <1>1, <1>2, <1>3, NewJobKnows
<1> QED BY <1>1, <1>3, <1>4, StepOfJob DEF Start, AlertsIInv

LEMMA StartSyncIInv ==
  ASSUME AlertsIInv, NEW o \in Objective, StartSync(o)
  PROVE  AlertsIInv'
<1>1. Moves({}) /\ Sync \in Job /\ cached[o] \in Kinds
  BY MovesNothing DEF StartSync, AlertsIInv, Job, Kinds
<1>2. job'[Sync] = NewJob(cached[o], TRUE) /\ DOMAIN job' = Job
      /\ \A k \in Job \ {Sync} : job'[k] = job[k]
  BY <1>1 DEF StartSync, AlertsIInv
<1>3. Knows(Sync)'
  BY <1>1, <1>2, NewJobKnows
<1> QED BY <1>1, <1>2, <1>3, StepOfJob DEF StartSync, AlertsIInv

LEMMA MatchIInv ==
  ASSUME AlertsIInv, NEW j \in Job, Match(j)
  PROVE  AlertsIInv'
<1>1. Moves({}) /\ Knows(j) /\ UNCHANGED <<risk, alerts, cached>>
      /\ alerts \in Seq(RowSet)
  BY MovesNothing DEF Match, AlertsIInv, NoJob
<1> PICK c : c = job[j]
  OBVIOUS
<1> PICK d : d = job'[j]
  OBVIOUS
<1>2. DOMAIN job' = Job /\ \A k \in Job \ {j} : job'[k] = job[k]
  BY DEF Match, AlertsIInv
<1>3. CASE d = [c EXCEPT !.pc = "insert", !.len = Len(alerts), !.id = RowOf(c.found)]
  <2>1. c \in JobSet /\ Len(alerts) \in Nat /\ c.found \in Kinds
    BY <1>1 DEF Knows, Match
  <2>2. /\ d \in JobSet /\ d.pc = "insert" /\ d.len = Len(alerts) /\ d.found = c.found
        /\ d.id = RowOf(c.found)
    <3>1. PICK r \in Nat : r = RowOf(c.found)
      BY <1>1, RowFound
    <3>2. d = [c EXCEPT !.pc = "insert", !.len = Len(alerts), !.id = r]
      BY <1>3, <3>1
    <3> QED BY <2>1, <3>1, <3>2, ZenonT(60) DEF JobSet
  <2>3. Rows(d.found)' = Rows(d.found)
        /\ \A i : Pending(i)' = Pending(i)
    BY <1>1 DEF Rows, Pending
  <2>4. Knows(j)'
    BY <1>1, <2>1, <2>2, <2>3, RowFound DEF Knows
  <2> QED BY <1>1, <1>2, <2>4, StepOfJob DEF AlertsIInv
<1>4. CASE d = [c EXCEPT !.pc = "resolve", !.missed = TRUE] /\ j # Sync
  <2>1. c \in JobSet /\ (c.id # 0 => c.id \in Rows(c.found))
    BY <1>1 DEF Knows
  <2>2. d \in JobSet /\ d.pc = "resolve" /\ d.missed = TRUE /\ d.id = c.id /\ d.found = c.found
    BY <1>4, <2>1 DEF JobSet
  <2>3. Rows(d.found)' = Rows(d.found)
    BY <1>1 DEF Rows
  <2>4. Knows(j)'
    BY <1>4, <2>1, <2>2, <2>3 DEF Knows
  <2> QED BY <1>1, <1>2, <2>4, StepOfJob DEF AlertsIInv
<1>5. CASE d = NoJob
  BY <1>1, <1>2, <1>5, StepOfJob DEF AlertsIInv
<1>6. d = [c EXCEPT !.pc = "insert", !.len = Len(alerts), !.id = RowOf(c.found)]
      \/ d = NoJob \/ (d = [c EXCEPT !.pc = "resolve", !.missed = TRUE] /\ j # Sync)
  BY DEF Match, AlertsIInv
<1> QED BY <1>3, <1>4, <1>5, <1>6

\* The record of a job that goes on with the row id.
ReadingOf(c, id) == {d \in JobSet : d.pc = "read" /\ d.id = id /\ d.found = c.found}

LEMMA ReadingRow ==
  ASSUME NEW c \in JobSet, NEW id \in Nat
  PROVE  [c EXCEPT !.pc = "read", !.id = id, !.missed = FALSE, !.len = 0] \in ReadingOf(c, id)
  BY DEF JobSet, ReadingOf

\* What a job knows after its transaction: the row, or that it was missed.
LEMMA ClosedKnows ==
  ASSUME NEW j \in Job, Knows(j), job[j].pc = "insert",
         NEW k, k = job[j].found,
         \/ job'[j] = Closed(j, 0, TRUE)
         \/ \E id \in Nat \ {0} :
              id \in Rows(k)' /\ job'[j] = Closed(j, id, FALSE)
  PROVE  job'[j] = NoJob \/ Knows(j)'
<1> PICK c : c = job[j]
  OBVIOUS
<1> PICK d : d = job'[j]
  OBVIOUS
<1>1. c \in JobSet /\ c.found = k /\ k \in Kinds
  BY DEF Knows
<1>2. CASE j = Sync
  BY <1>2 DEF Closed
<1>3. CASE j # Sync /\ d = Closed(j, 0, TRUE)
  <2>1. d = [c EXCEPT !.pc = "resolve", !.id = 0, !.missed = TRUE, !.len = 0]
    BY <1>3 DEF Closed
  <2>2. d \in JobSet /\ d.pc = "resolve" /\ d.id = 0 /\ d.missed = TRUE
    <3> PICK e : e = [c EXCEPT !.pc = "resolve", !.id = 0]
      OBVIOUS
    <3>1. e \in JobSet /\ e.pc = "resolve" /\ e.id = 0
      BY <1>1 DEF JobSet
    <3>2. d = [e EXCEPT !.missed = TRUE, !.len = 0]
      BY <1>1, <2>1 DEF JobSet
    <3> QED BY <3>1, <3>2 DEF JobSet
  <2> QED BY <1>3, <2>2 DEF Knows
<1>4. ASSUME j # Sync, NEW id \in Nat, id # 0, id \in Rows(k)',
             d = Closed(j, id, FALSE)
      PROVE  Knows(j)'
  <2>1. d = [c EXCEPT !.pc = "read", !.id = id, !.missed = FALSE, !.len = 0]
    BY <1>4 DEF Closed
  <2>2. d \in JobSet /\ d.pc = "read" /\ d.id = id /\ d.found = k
    <3>1. [c EXCEPT !.pc = "read", !.id = id, !.missed = FALSE, !.len = 0] \in ReadingOf(c, id)
      BY <1>1, ReadingRow
    <3>2. d \in ReadingOf(c, id)
      BY <2>1, <3>1, Zenon
    <3> QED BY <1>1, <3>2 DEF ReadingOf
  <2> QED BY <1>1, <1>4, <2>2 DEF Knows
<1> QED BY <1>2, <1>3, <1>4

LEMMA InsertIInv ==
  ASSUME AlertsIInv, NEW j \in Job, Insert(j)
  PROVE  AlertsIInv'
<1>1. Knows(j) /\ UNCHANGED <<risk, cached>> /\ alerts \in Seq(RowSet)
      /\ job[j].found \in Kinds /\ job[j].id \in Nat /\ job[j].pc = "insert"
  BY DEF Insert, AlertsIInv, NoJob, Knows, JobSet
<1>2. DOMAIN job' = Job /\ \A k \in Job \ {j} : job'[k] = job[k]
  BY DEF Insert, AlertsIInv
<1> PICK k : k = job[j].found
  OBVIOUS
<1>3. CASE job[j].id = 0
  <2>1. alerts' = Append(alerts, Row(k))
        /\ job'[j] = Closed(j, Len(alerts) + 1, FALSE)
    BY <1>3 DEF Insert, AlertsIInv
  <2>2. Row(k) \in RowSet
        /\ Row(k).type = k
    BY <1>1 DEF Row, RowSet
  <2>3. Moves({})
    BY <1>1, <2>1, <2>2 DEF Moves
  <2>4. Len(alerts) + 1 \in Nat \ {0} /\ Len(alerts) + 1 \in Rows(k)'
    BY <1>1, <2>1, <2>2 DEF Rows
  <2>5. job'[j] = NoJob \/ Knows(j)'
    BY <1>1, <2>1, <2>3, <2>4, ClosedKnows
  <2> QED BY <1>1, <1>2, <2>3, <2>5, StepOfJob DEF AlertsIInv
<1>4. CASE job[j].id # 0
  <2> PICK i : i = job[j].id
    OBVIOUS
  <2>1. alerts' = alerts /\ job'[j] = Closed(j, i, FALSE)
    BY <1>4 DEF Insert, AlertsIInv
  <2>2. Moves({})
    BY <1>1, <2>1, MovesNothing
  <2>3. i \in Nat \ {0} /\ i \in Rows(k)'
    BY <1>1, <1>4, <2>2, RowsKept DEF Knows
  <2>4. job'[j] = NoJob \/ Knows(j)'
    BY <1>1, <1>4, <2>1, <2>2, <2>3, ClosedKnows
  <2> QED BY <1>1, <1>2, <2>2, <2>4, StepOfJob DEF AlertsIInv
<1> QED BY <1>3, <1>4

LEMMA InsertFailsIInv ==
  ASSUME AlertsIInv, NEW j \in Job, InsertFails(j)
  PROVE  AlertsIInv'
<1>1. Knows(j) /\ UNCHANGED <<risk, alerts, cached>> /\ alerts \in Seq(RowSet)
      /\ job[j].pc = "insert" /\ job'[j] = Closed(j, 0, TRUE)
  BY DEF InsertFails, AlertsIInv, NoJob
<1>2. DOMAIN job' = Job /\ \A k \in Job \ {j} : job'[k] = job[k]
  BY DEF InsertFails, AlertsIInv
<1>3. Moves({})
  BY <1>1, MovesNothing
<1>4. job'[j] = NoJob \/ Knows(j)'
  BY <1>1, <1>3, ClosedKnows
<1> QED BY <1>1, <1>2, <1>3, <1>4, StepOfJob DEF AlertsIInv

LEMMA ReadActionedIInv ==
  ASSUME AlertsIInv, NEW j \in Job, ReadActioned(j)
  PROVE  AlertsIInv'
<1>1. Moves({}) /\ Knows(j) /\ UNCHANGED <<risk, alerts, cached>>
      /\ alerts \in Seq(RowSet) /\ job[j].pc = "read" /\ j # Sync
  BY MovesNothing DEF ReadActioned, AlertsIInv, NoJob, Knows
<1>2. DOMAIN job' = Job /\ \A k \in Job \ {j} : job'[k] = job[k]
  BY DEF ReadActioned, AlertsIInv
<1> PICK c : c = job[j]
  OBVIOUS
<1> PICK d : d = job'[j]
  OBVIOUS
<1>3. c \in JobSet /\ c.id # 0 /\ c.id \in Rows(c.found)
  BY <1>1 DEF Knows
<1>4. Rows(c.found)' = Rows(c.found)
      /\ \A i : Pending(i)' = Pending(i)
  BY <1>1 DEF Rows, Pending
<1>5. \/ /\ d = [c EXCEPT !.pc = "resolve", !.hidden = TRUE]
      \/ /\ d = [c EXCEPT !.pc = "resolve", !.hidden = FALSE] /\ Pending(c.id)
      \/ /\ d = [c EXCEPT !.pc = "resolve", !.missed = TRUE]
  <2>1. CASE d = [c EXCEPT !.pc = "resolve", !.missed = TRUE]
    BY <2>1
  <2>2. CASE d = [c EXCEPT !.pc = "resolve", !.hidden = ~Pending(c.id)]
    <3>1. CASE Pending(c.id)
      <4>1. (~Pending(c.id)) = FALSE
        BY <3>1, Zenon
      <4> QED BY <2>2, <3>1, <4>1, Zenon
    <3>2. CASE ~Pending(c.id)
      <4>1. (~Pending(c.id)) = TRUE
        BY <3>2, Zenon
      <4> QED BY <2>2, <4>1, Zenon
    <3> QED BY <3>1, <3>2
  <2>3. \/ job' = [job EXCEPT ![j].pc = "resolve", ![j].missed = TRUE]
        \/ job' = [job EXCEPT ![j].pc = "resolve",
                              ![j].hidden = ~Pending(job[j].id)]
    BY Zenon DEF ReadActioned
  <2>4. DOMAIN job = Job
    BY DEF AlertsIInv
  <2>5. CASE job' = [job EXCEPT ![j].pc = "resolve",
                                ![j].hidden = ~Pending(job[j].id)]
    <3>1. d = [c EXCEPT !.pc = "resolve", !.hidden = ~Pending(c.id)]
      BY <2>4, <2>5
    <3> QED BY <2>2, <3>1
  <2>6. CASE job' = [job EXCEPT ![j].pc = "resolve", ![j].missed = TRUE]
    BY <2>1, <2>4, <2>6
  <2> QED BY <2>3, <2>5, <2>6
<1>6. Knows(j)'
  <2>1. CASE d = [c EXCEPT !.pc = "resolve", !.hidden = TRUE]
    <3>1. /\ d \in JobSet /\ d.pc = "resolve" /\ d.hidden = TRUE
          /\ d.id = c.id /\ d.found = c.found
      BY <1>3, <2>1 DEF JobSet
    <3> QED BY <1>1, <1>3, <1>4, <3>1 DEF Knows
  <2>2. CASE d = [c EXCEPT !.pc = "resolve", !.hidden = FALSE] /\ Pending(c.id)
    <3>1. /\ d \in JobSet /\ d.pc = "resolve"
          /\ d.id = c.id /\ d.found = c.found
      BY <1>3, <2>2 DEF JobSet
    <3> QED BY <1>1, <1>3, <1>4, <2>2, <3>1 DEF Knows
  <2>3. CASE d = [c EXCEPT !.pc = "resolve", !.missed = TRUE]
    <3>1. /\ d \in JobSet /\ d.pc = "resolve" /\ d.missed = TRUE
          /\ d.id = c.id /\ d.found = c.found
      BY <1>3, <2>3 DEF JobSet
    <3> QED BY <1>1, <1>3, <1>4, <3>1 DEF Knows
  <2> QED BY <1>5, <2>1, <2>2, <2>3
<1> QED BY <1>1, <1>2, <1>6, StepOfJob DEF AlertsIInv

\* What resolve_stale_alerts closes is not pending any more.
LEMMA ResolveIInv ==
  ASSUME AlertsIInv, NEW j \in Job, Resolve(j)
  PROVE  AlertsIInv'
<1>1. Knows(j) /\ UNCHANGED <<risk, cached>> /\ alerts \in Seq(RowSet)
      /\ job[j].pc = "resolve" /\ j # Sync /\ DOMAIN job = Job
  <2>1. job[j].pc = "resolve" /\ UNCHANGED <<risk, cached>>
    BY Zenon DEF Resolve
  <2> QED BY <2>1 DEF AlertsIInv, NoJob, Knows
<1> PICK c : c = job[j]
  OBVIOUS
<1> PICK d : d = job'[j]
  OBVIOUS
<1>2. c \in JobSet /\ (c.id # 0 => c.id \in Rows(c.found))
  BY <1>1 DEF Knows
<1>3. CASE job' = [job EXCEPT ![j].pc = "publish", ![j].missed = TRUE]
           /\ UNCHANGED alerts
  <2>1. Moves({})
    BY <1>1, <1>3, MovesNothing
  <2>2. DOMAIN job' = Job /\ \A k \in Job \ {j} : job'[k] = job[k]
    BY <1>1, <1>3
  <2>3. d = [c EXCEPT !.pc = "publish", !.missed = TRUE]
    BY <1>1, <1>3
  <2>4. d \in JobSet /\ d.pc = "publish" /\ d.missed = TRUE /\ d.id = c.id /\ d.found = c.found
    BY <1>2, <2>3 DEF JobSet
  <2>5. Rows(c.found)' = Rows(c.found)
    BY <1>3 DEF Rows
  <2>6. Knows(j)'
    BY <1>1, <1>2, <2>4, <2>5 DEF Knows
  <2> QED BY <1>1, <2>1, <2>2, <2>6, StepOfJob DEF AlertsIInv
<1>4. CASE /\ alerts' = [i \in 1..Len(alerts) |->
                 IF i \in Resolved(j)
                   THEN [alerts[i] EXCEPT !.status = "resolved", !.recent = TRUE,
                                          !.auto = TRUE]
                   ELSE alerts[i]]
           /\ job' = [Change(Resolved(j)) EXCEPT ![j].pc = "publish"]
  <2> PICK R : R = Resolved(j)
    OBVIOUS
  <2>1. R \in SUBSET (1..Len(alerts)) /\ R \in SUBSET Nat
    BY DEF Resolved
  <2>2. Moves(R)
    <3>1. ASSUME NEW i \in 1..Len(alerts)
          PROVE  /\ alerts'[i] \in RowSet /\ alerts'[i].type = alerts[i].type
                 /\ alerts'[i].status = "pending" => alerts[i].status = "pending"
                 /\ i \notin R => alerts'[i].status = alerts[i].status
      <4> PICK a : a = alerts[i]
        OBVIOUS
      <4>1. a \in RowSet
        BY <1>1
      <4>2. CASE i \in R
        <5>1. alerts'[i] = [a EXCEPT !.status = "resolved", !.recent = TRUE, !.auto = TRUE]
          BY <1>4, <4>2
        <5> QED BY <4>1, <4>2, <5>1 DEF RowSet, Decisions
      <4>3. CASE i \notin R
        BY <1>4, <4>1, <4>3
      <4> QED BY <4>2, <4>3
    <3>2. Len(alerts) \in Nat
      BY <1>1
    <3>3. alerts' \in [1..Len(alerts) -> RowSet]
      BY <1>4, <3>1
    <3>4. alerts' \in Seq(RowSet) /\ Len(alerts') = Len(alerts)
      BY <3>2, <3>3
    <3> QED BY <3>1, <3>4 DEF Moves
  <2>3. DOMAIN Change(R) = Job
    BY DEF Change
  <2>4. DOMAIN job' = Job
        /\ \A k \in Job \ {j} : job'[k] = Change(R)[k]
    BY <1>4, <2>3
  <2>5. d = [[c EXCEPT !.changed = c.changed \cup (R \cap Rows(c.found))]
               EXCEPT !.pc = "publish"]
    <3>1. Change(R)[j] = [c EXCEPT !.changed = c.changed \cup (R \cap Rows(c.found))]
      BY <1>1 DEF Change, NoJob
    <3> QED BY <1>4, <2>3, <3>1
  <2>6. c.changed \cup (R \cap Rows(c.found)) \in SUBSET Nat
    BY <1>2, <2>1 DEF JobSet
  <2>7. /\ d \in JobSet /\ d.pc = "publish" /\ d.missed = c.missed /\ d.id = c.id
        /\ d.found = c.found /\ d.kept = c.kept /\ d.hidden = c.hidden
        /\ d.changed = c.changed \cup (R \cap Rows(c.found))
    BY <1>2, <2>5, <2>6 DEF JobSet
  <2>8. c.id # 0 => c.id \in Rows(c.found)'
    BY <1>1, <1>2, <2>2, RowsKept
  <2>9. c.id # 0 /\ (Pending(c.id) \/ c.id \in c.changed)
           => Pending(c.id)' \/ c.id \in d.changed
    BY <1>1, <1>2, <2>2, <2>7, RowsKept
  <2>10. Knows(j)'
    BY <1>1, <2>7, <2>8, <2>9 DEF Knows
  <2> QED BY <1>1, <2>1, <2>2, <2>4, <2>10, StepOfJob DEF AlertsIInv
<1>5. \/ job' = [job EXCEPT ![j].pc = "publish", ![j].missed = TRUE] /\ UNCHANGED alerts
      \/ /\ alerts' = [i \in 1..Len(alerts) |->
               IF i \in Resolved(j)
                 THEN [alerts[i] EXCEPT !.status = "resolved", !.recent = TRUE,
                                        !.auto = TRUE]
                 ELSE alerts[i]]
         /\ job' = [Change(Resolved(j)) EXCEPT ![j].pc = "publish"]
  BY Zenon DEF Resolve
<1> QED BY <1>3, <1>4, <1>5

LEMMA PublishIInv ==
  ASSUME AlertsIInv, NEW o \in Objective, Publish(o)
  PROVE  AlertsIInv'
<1>1. Moves({}) /\ o \in Job
  BY MovesNothing DEF Publish, AlertsIInv, Job
<1>2. /\ DOMAIN job' = Job /\ \A k \in Job \ {o} : job'[k] = job[k]
      /\ job'[o] = NoJob
  BY <1>1 DEF Publish, AlertsIInv
<1>3. job[o].found \in Kinds \cup {None}
  BY <1>1 DEF Publish, AlertsIInv, NoJob, Knows, JobSet
<1>4. cached' \in [Objective -> Kinds \cup {None, Nothing}]
  BY <1>3 DEF Publish, AlertsIInv
<1> QED BY <1>1, <1>2, <1>4, StepOfJob DEF Publish, AlertsIInv

\* One row changes, by the operator or by its age.
LEMMA OneRowMoves ==
  ASSUME AlertsIInv, NEW i \in 1..Len(alerts), NEW row \in RowSet,
         row.type = alerts[i].type,
         row.status = "pending" => alerts[i].status = "pending",
         alerts' = [alerts EXCEPT ![i] = row], job' = Change({i}),
         risk' \in Kinds \cup {None},
         cached' \in [Objective -> Kinds \cup {None, Nothing}]
  PROVE  AlertsIInv'
<1>1. Moves({i})
  BY DEF Moves, AlertsIInv
<1>2. {i} \in SUBSET Nat /\ Job \in SUBSET Job
  BY DEF AlertsIInv
<1>3. Jobs(Job)'
  BY <1>1, <1>2, OthersStillKnow
<1> QED BY <1>1, <1>3 DEF Jobs, AlertsIInv, Moves, Change

LEMMA PatchIInv ==
  ASSUME AlertsIInv, NEW i \in 1..Len(alerts), NEW status \in Decisions,
         Patch(i, status)
  PROVE  AlertsIInv'
<1>1. CASE ~Decidable
  <2>1. Moves({}) /\ UNCHANGED <<risk, alerts, job, cached>>
    BY <1>1, MovesNothing DEF Patch, AlertsIInv
  <2>2. Jobs(Job)'
    BY <2>1, OthersStillKnow
  <2> QED BY <2>1, <2>2 DEF AlertsIInv, Jobs
<1>2. CASE Decidable
  <2>1. /\ alerts' = [alerts EXCEPT ![i] =
             [@ EXCEPT !.status = status, !.auto = FALSE,
                       !.recent = alerts[i].recent \/ status \in Terminal]]
        /\ job' = Change({i}) /\ risk' = risk
        /\ cached' = cached \/ cached' = [o \in Objective |-> Nothing]
    BY <1>2, Zenon DEF Patch
  <2> PICK a : a = alerts[i]
    OBVIOUS
  <2> PICK stamped \in BOOLEAN : stamped = (a.recent \/ status \in Terminal)
    BY Zenon
  <2> PICK row : row = [a EXCEPT !.status = status, !.auto = FALSE, !.recent = stamped]
    OBVIOUS
  <2>2. a \in RowSet
    BY DEF AlertsIInv
  <2>3. row \in RowSet /\ row.type = a.type /\ row.status # "pending"
    <3> PICK b : b = [a EXCEPT !.status = status, !.auto = FALSE]
      OBVIOUS
    <3>1. b \in RowSet /\ b.type = a.type /\ b.status # "pending"
      BY <2>2 DEF RowSet, Decisions
    <3>2. row = [b EXCEPT !.recent = stamped]
      BY <2>2 DEF RowSet
    <3> QED BY <3>1, <3>2 DEF RowSet
  <2>4. alerts' = [alerts EXCEPT ![i] = row]
    <3>1. alerts' = [alerts EXCEPT ![i] =
             [a EXCEPT !.status = status, !.auto = FALSE,
                       !.recent = a.recent \/ status \in Terminal]]
      BY <2>1, Zenon
    <3> QED BY <3>1, Zenon
  <2>5. cached' \in [Objective -> Kinds \cup {None, Nothing}]
    BY <2>1 DEF AlertsIInv
  <2>6. risk' \in Kinds \cup {None}
    BY <2>1 DEF AlertsIInv
  <2> QED BY <2>1, <2>3, <2>4, <2>5, <2>6, OneRowMoves
<1> QED BY <1>1, <1>2

LEMMA AgesIInv ==
  ASSUME AlertsIInv, NEW i \in 1..Len(alerts), Ages(i)
  PROVE  AlertsIInv'
<1> PICK a : a = alerts[i]
  OBVIOUS
<1> PICK row : row = [a EXCEPT !.recent = FALSE]
  OBVIOUS
<1>1. a \in RowSet
  BY DEF AlertsIInv
<1>2. row \in RowSet /\ row.type = a.type /\ row.status = a.status
  BY <1>1 DEF RowSet
<1>3. alerts' = [alerts EXCEPT ![i] = row] /\ job' = Change({i})
      /\ risk' = risk /\ cached' = cached
  BY Zenon DEF Ages
<1>4. risk' \in Kinds \cup {None}
      /\ cached' \in [Objective -> Kinds \cup {None, Nothing}]
  BY <1>3 DEF AlertsIInv
<1> QED BY <1>2, <1>3, <1>4, OneRowMoves

LEMMA AlertsUnchanged ==
  ASSUME AlertsIInv, UNCHANGED <<alerts, job, cached>>,
         risk' \in Kinds \cup {None}
  PROVE  AlertsIInv'
<1>1. Moves({})
  BY MovesNothing DEF AlertsIInv
<1>2. Jobs(Job)'
  BY <1>1, OthersStillKnow
<1> QED BY <1>1, <1>2 DEF AlertsIInv, Jobs

LEMMA AlertsNextIInv ==
  ASSUME AlertsIInv, [AlertsNext]_alertsVars
  PROVE  AlertsIInv'
<1>1. CASE UNCHANGED alertsVars
  BY <1>1, AlertsUnchanged DEF alertsVars, AlertsIInv
<1>2. ASSUME NEW j \in Job, Step(j) \/ InsertFails(j)
      PROVE  AlertsIInv'
  BY <1>2, MatchIInv, InsertIInv, InsertFailsIInv, ReadActionedIInv, ResolveIInv
     DEF Step
<1>3. ASSUME NEW o \in Objective,
             Start(o) \/ StartSync(o) \/ Publish(o)
      PROVE  AlertsIInv'
  BY <1>3, StartIInv, StartSyncIInv, PublishIInv
<1>4. ASSUME NEW k \in Kinds \cup {None}, RiskChanges(k)
      PROVE  AlertsIInv'
  BY <1>4, AlertsUnchanged DEF RiskChanges
<1> QED BY <1>1, <1>2, <1>3, <1>4, AgesIInv, PatchIInv DEF AlertsNext

\* What every job knows of the rows stays true, for any objectives, however
\* many runs, syncs and operators work on the rows.
THEOREM AlertsInvariance == AlertsSpec => []AlertsIInv
<1>1. AlertsIInv /\ [AlertsNext]_alertsVars => AlertsIInv'
  BY AlertsNextIInv
<1> QED BY <1>1, AlertsInitIInv, PTL DEF AlertsSpec

\* A row is inserted beside a pending one of its kind only when that one came
\* after the SELECT of the transaction that inserts.
THEOREM DuplicatesOverlap == AlertsSpec => DuplicateOnlyByOverlap
<1>1. ASSUME AlertsIInv
      PROVE  \A j \in Job : Insert(j) /\ job[j].id = 0 =>
               \A i \in Rows(job[j].found) : Pending(i) => i > job[j].len
  BY <1>1 DEF AlertsIInv, Knows, Insert, NoJob
<1>2. AlertsIInv /\ [AlertsNext]_alertsVars =>
        [\A j \in Job : Insert(j) /\ job[j].id = 0 =>
           \A i \in Rows(job[j].found) : Pending(i) => i > job[j].len]_alertsVars
  BY <1>1
<1> QED BY <1>2, AlertsInvariance, PTL DEF AlertsSpec, DuplicateOnlyByOverlap

\* What a run publishes leaves out an alert closed before it started, unless a
\* call of the run failed: the row it shows was pending, or is noted as changed.
THEOREM HandledNotShown == AlertsSpec => HandledStaysHidden
<1> DEFINE Hidden(o) ==
      \A a \in ShownBy(o), i \in Rows(job[o].found) \ job[o].changed :
        alerts[i].status \in Terminal /\ alerts[i].recent
          => a \notin {0, i} /\ (Pending(a) \/ a \in job[o].changed)
<1>1. ASSUME AlertsIInv, NEW o \in Objective, Publish(o), ~job[o].missed
      PROVE  Hidden(o)
  <2>1. job[o].pc = "publish" /\ Knows(o)
    BY <1>1 DEF AlertsIInv, Publish, NoJob, Job
  <2> SUFFICES ASSUME NEW a \in ShownBy(o),
                      NEW i \in Rows(job[o].found) \ job[o].changed,
                      alerts[i].status \in Terminal
               PROVE  a \notin {0, i} /\ (Pending(a) \/ a \in job[o].changed)
    OBVIOUS
  <2>2. a = job[o].id /\ job[o].kept /\ ~job[o].hidden
    BY DEF ShownBy
  <2>3. a # 0 /\ (Pending(a) \/ a \in job[o].changed)
    BY <1>1, <2>1, <2>2 DEF Knows
  <2>4. ~Pending(i)
    BY DEF Pending, Terminal
  <2> QED BY <2>3, <2>4
<1>2. AlertsIInv /\ [AlertsNext]_alertsVars =>
        [\A o \in Objective : Publish(o) /\ ~job[o].missed => Hidden(o)]_alertsVars
  BY <1>1
<1> QED BY <1>2, AlertsInvariance, PTL DEF AlertsSpec, HandledStaysHidden

----------------------------------------------------------------------------
(***************************************************************************)
(* The cached analyses.  Base: the last push was scheduled for sales whose *)
(* callback has run.  Of a call, RightCall: what the run of a push has     *)
(* read is not older than the push, for the push that is scheduled next    *)
(* disowns the runs of the one before; and the status a call is going to   *)
(* show is the one its recommendation has, unless a decision crossed it.   *)
(* Entries, Patched: recommendations are only added, and the decision      *)
(* whose handler is patching the cache still stands.                       *)
(***************************************************************************)
EntrySet == [fresh : BOOLEAN, item : Item]

CallSet ==
    [pc : {"wait", "run", "decided", "ready", "done", "failed", "saved"},
     obj : Objective, for : {"get", "warm", "push", "orphan"}, seen : Nat, rec : Nat,
     status : Statuses \cup {None}, item : Item \cup {None}, crossed : BOOLEAN]

PushSet == [pc : {"none", "sleeping", "next", "called"}, todo : SUBSET Objective,
            since : Nat]

Base ==
    /\ sold \in Nat /\ recs \in Seq(Statuses) /\ announce \in Seq(Nat)
    /\ sale \in BOOLEAN /\ (sale = TRUE => sold > 0)
    /\ push \in PushSet /\ push.since <= Told
    /\ conn \subseteq Objective

Entries ==
    /\ DOMAIN cache = Objective
    /\ \A o \in Objective : cache[o] # None =>
         cache[o] \in EntrySet /\ cache[o].item.rec <= Len(recs)

RightCall(t) ==
    /\ call[t] \in CallSet
    /\ call[t].pc = "run" => call[t].rec = 0 /\ call[t].status = None
    /\ call[t].pc = "decided" =>
         /\ call[t].rec <= Len(recs)
         /\ call[t].rec = 0 => call[t].status = None
         /\ call[t].status # None /\ ~call[t].crossed => call[t].status = recs[call[t].rec]
         /\ call[t].for = "push" => push.since <= call[t].seen
    /\ call[t].pc \in {"ready", "saved"} =>
         /\ call[t].item \in Item /\ call[t].item.rec <= Len(recs)
         /\ call[t].item.rec # 0 /\ ~call[t].crossed =>
              call[t].item.status = recs[call[t].item.rec]
    /\ call[t].pc \in {"ready", "done"} /\ call[t].for = "push" =>
         call[t].item \in Item /\ push.since <= call[t].item.sales

Calls == DOMAIN call = Thread /\ \A t \in Thread : call[t] = Idle \/ RightCall(t)

Patched ==
    patching # None =>
      /\ patching \in Patching
      /\ patching.rec \in 1..Len(recs) /\ recs[patching.rec] = patching.status

CacheIInv == Base /\ Entries /\ Calls /\ Patched

\* Recommendations are only added.
Grows ==
    /\ recs' \in Seq(Statuses) /\ Len(recs) <= Len(recs')
    /\ \A i \in 1..Len(recs) : recs'[i] = recs[i]

LEMMA ToldTyped == ASSUME Base PROVE Told \in Nat /\ Told <= sold
  BY DEF Base, Told

LEMMA GrowsNot == ASSUME Base, recs' = recs PROVE Grows
  BY DEF Base, Grows

LEMMA PushStays ==
  ASSUME CacheIInv, recs' = recs, push' = push
  PROVE  Grows /\ push' \in PushSet /\ push'.since <= push.since
<1>1. Grows
  BY GrowsNot DEF CacheIInv
<1> PICK p : p = push
  OBVIOUS
<1>2. p \in PushSet /\ p.since <= p.since
  BY DEF CacheIInv, Base, PushSet
<1> QED BY <1>1, <1>2

LEMMA CallKept ==
  ASSUME NEW t \in Thread, RightCall(t), Base, Grows, call'[t] = call[t],
         push' \in PushSet, push'.since <= push.since \/ call[t].for # "push"
  PROVE  RightCall(t)'
<1> PICK c : c = call[t] /\ c = call'[t]
  OBVIOUS
<1>1. c \in CallSet /\ push \in PushSet
  BY DEF RightCall, Base
<1>2. c.pc = "decided" =>
         /\ c.rec <= Len(recs')
         /\ c.status # None /\ ~c.crossed => c.status = recs'[c.rec]
  <2> SUFFICES ASSUME c.pc = "decided"
               PROVE  /\ c.rec <= Len(recs')
                      /\ c.status # None /\ ~c.crossed => c.status = recs'[c.rec]
    OBVIOUS
  <2>1. c.rec \in 0..Len(recs) /\ (c.status # None => c.rec \in 1..Len(recs))
    BY <1>1 DEF RightCall, CallSet, Base
  <2> QED BY <1>1, <2>1 DEF RightCall, Grows, Base
<1>3. c.pc \in {"ready", "saved"} =>
         /\ c.item \in Item /\ c.item.rec <= Len(recs')
         /\ c.item.rec # 0 /\ ~c.crossed => c.item.status = recs'[c.item.rec]
  BY <1>1 DEF RightCall, Item, Grows, Base
<1>4. c.for = "push" /\ c.pc = "decided" => push'.since <= c.seen
  BY <1>1 DEF RightCall, CallSet, PushSet
<1>5. c.for = "push" /\ c.pc \in {"ready", "done"} =>
         c.item \in Item /\ push'.since <= c.item.sales
  BY <1>1 DEF RightCall, Item, PushSet
<1> QED BY <1>1, <1>2, <1>3, <1>4, <1>5 DEF RightCall

LEMMA OthersKept ==
  ASSUME CacheIInv, NEW t, DOMAIN call' = Thread, Grows,
         push' \in PushSet, push'.since <= push.since,
         \A u \in Thread \ {t} : call'[u] = call[u],
         t \in Thread => call'[t] = Idle \/ RightCall(t)'
  PROVE  Calls'
  BY CallKept DEF CacheIInv, Calls

\* The calls that carry an item.
Carrying(for, pc, item) ==
    {c \in CallSet : c.for = for /\ c.pc = pc /\ c.item = item /\ c.crossed = FALSE}

LEMMA CarryingTyped ==
  ASSUME NEW o \in Objective, NEW for \in {"get", "warm", "push", "orphan"},
         NEW pc \in {"ready", "done", "saved"}, NEW item \in Item
  PROVE  [NewCall(o, for, pc) EXCEPT !.item = item] \in Carrying(for, pc, item)
<1>1. /\ NewCall(o, for, pc) \in CallSet
      /\ NewCall(o, for, pc).pc = pc /\ NewCall(o, for, pc).for = for
      /\ NewCall(o, for, pc).crossed = FALSE
  BY DEF NewCall, CallSet
<1> QED BY <1>1 DEF CallSet, Carrying

\* A call, but for whether a decision crossed it.
Marked(c, crossed) ==
    {d \in CallSet : /\ d.pc = c.pc /\ d.obj = c.obj /\ d.for = c.for /\ d.seen = c.seen
                     /\ d.rec = c.rec /\ d.status = c.status /\ d.item = c.item
                     /\ d.crossed = crossed}

LEMMA MarkedTyped ==
  ASSUME NEW c \in CallSet, NEW crossed \in BOOLEAN
  PROVE  [c EXCEPT !.crossed = crossed] \in Marked(c, crossed)
  BY DEF CallSet, Marked

\* A call that starts, or that has ended in failure or without an item.
LEMMA NewCallRight ==
  ASSUME NEW t \in Thread, NEW o \in Objective, NEW for \in {"get", "warm", "push", "orphan"},
         NEW pc \in {"wait", "run", "done", "failed"}, pc = "done" => for # "push",
         call'[t] = NewCall(o, for, pc)
  PROVE  RightCall(t)'
<1> PICK c : c = call'[t]
  OBVIOUS
<1>1. c \in CallSet /\ c.pc = pc /\ c.for = for /\ c.rec = 0 /\ c.status = None
  BY DEF NewCall, CallSet
<1> QED BY <1>1 DEF RightCall

LEMMA EntriesKept == ASSUME CacheIInv, Grows, cache' = cache PROVE Entries'
  BY DEF CacheIInv, Base, Entries, EntrySet, Item, Grows

LEMMA PatchedKept == ASSUME CacheIInv, Grows, patching' = patching PROVE Patched'
  BY DEF CacheIInv, Base, Patched, Patching, Grows

LEMMA CacheInit == Init => CacheIInv
<1> SUFFICES ASSUME Init PROVE CacheIInv
  OBVIOUS
<1>1. Base
  <2>1. sale = FALSE /\ push = [pc |-> "none", todo |-> {}, since |-> 0] /\ sold = 0
    BY DEF Init, NoPush
  <2>2. recs \in Seq(Statuses) /\ announce \in Seq(Nat) /\ conn \subseteq Objective
    BY DEF Init, Statuses
  <2>3. push \in PushSet /\ push.since = 0
    BY <2>1 DEF PushSet
  <2>4. sale \in BOOLEAN /\ ~sale
    BY Zenon DEF Init
  <2>5. Told = 0
    <3>1. Told = sold - 0
      BY <2>4, Zenon DEF Told
    <3> QED BY <2>1, <3>1
  <2> QED BY <2>1, <2>2, <2>3, <2>4, <2>5 DEF Base
<1>2. Entries /\ Calls /\ Patched
  BY DEF Init, Entries, Calls, Patched
<1> QED BY <1>1, <1>2 DEF CacheIInv

----------------------------------------------------------------------------
(* The steps of a run.  BaseKept: what they leave of Base.                 *)

LEMMA BaseKept ==
  ASSUME Base, Grows, UNCHANGED <<sold, sale, announce, push, conn>>
  PROVE  Base' /\ Told' = Told
<1>1. Told' = Told
  BY DEF Told
<1> QED BY <1>1 DEF Base, Grows

\* One thread moves, and nothing else but new recommendations.
LEMMA ThreadMoves ==
  ASSUME CacheIInv, NEW t \in Thread, Grows, DOMAIN call' = Thread,
         UNCHANGED <<sold, sale, announce, push, conn, cache, patching>>,
         \A u \in Thread \ {t} : call'[u] = call[u],
         call'[t] = Idle \/ RightCall(t)'
  PROVE  CacheIInv'
<1>1. Base'
  BY BaseKept DEF CacheIInv
<1>2. push' \in PushSet /\ push'.since <= push.since
  BY DEF CacheIInv, Base, PushSet
<1> QED BY <1>1, <1>2, OthersKept, EntriesKept, PatchedKept DEF CacheIInv

LEMMA GetIInv ==
  ASSUME CacheIInv, NEW t \in Thread, NEW o \in Objective, NEW force, Get(t, o, force)
  PROVE  CacheIInv'
<1>1. Grows /\ DOMAIN call = Thread
  BY GrowsNot DEF CacheIInv, Calls, Get, dbVars
<1>2. call'[t] = NewCall(o, "get", "run") /\ DOMAIN call' = Thread
      /\ \A u \in Thread \ {t} : call'[u] = call[u]
  BY <1>1 DEF Get
<1>3. RightCall(t)'
  BY <1>2, NewCallRight
<1> QED BY <1>1, <1>2, <1>3, ThreadMoves DEF Get, dbVars, saleVars, loopVars

\* What a call that ends leaves: nothing, or a result for whoever waits.
LEMMA AnsweredRight ==
  ASSUME NEW t \in Thread, CacheIInv, RightCall(t),
         call[t].pc = "ready" \/ call[t].for = "warm",
         push' \in PushSet, push'.since <= push.since, NEW item,
         call[t].pc = "ready" => item = call[t].item,
         call'[t] = Answered(call[t], item)
  PROVE  call'[t] = Idle \/ RightCall(t)'
<1> PICK c : c = call[t]
  OBVIOUS
<1> PICK d : d = call'[t]
  OBVIOUS
<1>1. c \in CallSet
  BY DEF RightCall
<1>2. CASE c.for \in {"get", "orphan"}
  BY <1>2 DEF Answered
<1>3. CASE c.for = "warm"
  <2>1. d = NewCall(c.obj, "warm", "done") /\ c.obj \in Objective
    BY <1>1, <1>3 DEF Answered, CallSet
  <2> QED BY <2>1, NewCallRight
<1>4. CASE c.for = "push"
  <2>1. c.pc = "ready" /\ c.item \in Item /\ push.since <= c.item.sales
    BY <1>4 DEF RightCall
  <2>2. d = [NewCall(c.obj, "push", "done") EXCEPT !.item = c.item]
    BY <1>4, <2>1 DEF Answered
  <2>3. d \in CallSet /\ d.pc = "done" /\ d.item = c.item
    <3>1. c.obj \in Objective
      BY <1>1 DEF CallSet
    <3>2. [NewCall(c.obj, "push", "done") EXCEPT !.item = c.item]
            \in Carrying("push", "done", c.item)
      BY <2>1, <3>1, CarryingTyped
    <3>3. d \in Carrying("push", "done", c.item)
      BY <2>2, <3>2, Zenon
    <3> QED BY <3>3 DEF Carrying
  <2>4. push'.since <= c.item.sales
    BY <2>1 DEF CacheIInv, Base, PushSet, Item
  <2> QED BY <2>1, <2>3, <2>4 DEF RightCall
<1> QED BY <1>1, <1>2, <1>3, <1>4 DEF CallSet

LEMMA AcquireIInv ==
  ASSUME CacheIInv, NEW t \in Thread, Acquire(t)
  PROVE  CacheIInv'
<1>1. Grows /\ DOMAIN call = Thread /\ RightCall(t) /\ call[t].pc = "wait"
  BY GrowsNot DEF CacheIInv, Calls, Acquire, dbVars, Idle
<1> PICK c : c = call[t]
  OBVIOUS
<1>2. c \in CallSet
  BY <1>1 DEF RightCall
<1>3. DOMAIN call' = Thread /\ \A u \in Thread \ {t} : call'[u] = call[u]
  BY <1>1 DEF Acquire
<1>4. \/ c.for = "warm" /\ call'[t] = Answered(c, cache[c.obj].item)
      \/ call'[t] = Runs(c)
  BY <1>1 DEF Acquire
<1>5. CASE c.for = "warm" /\ call'[t] = Answered(c, cache[c.obj].item)
  <2>1. push' \in PushSet /\ push'.since <= push.since
    BY DEF Acquire, loopVars, CacheIInv, Base, PushSet
  <2>2. call'[t] = Idle \/ RightCall(t)'
    BY <1>1, <1>5, <2>1, AnsweredRight
  <2> QED BY <1>1, <1>3, <2>2, ThreadMoves DEF Acquire, dbVars, saleVars, loopVars
<1>6. CASE call'[t] = Runs(c)
  <2>1. PICK for \in {"get", "warm", "push", "orphan"} :
          call'[t] = NewCall(c.obj, for, "run")
    BY <1>2, <1>6 DEF Runs, CallSet
  <2>2. RightCall(t)'
    BY <1>2, <2>1, NewCallRight DEF CallSet
  <2> QED BY <1>1, <1>3, <2>2, ThreadMoves DEF Acquire, dbVars, saleVars, loopVars
<1> QED BY <1>4, <1>5, <1>6

LEMMA RunFailsIInv ==
  ASSUME CacheIInv, NEW t \in Thread, RunFails(t)
  PROVE  CacheIInv'
<1>1. Grows /\ DOMAIN call = Thread /\ RightCall(t)
  BY GrowsNot DEF CacheIInv, Calls, RunFails, dbVars, Idle
<1> PICK c : c = call[t]
  OBVIOUS
<1>2. c.obj \in Objective /\ c.for \in {"get", "warm", "push", "orphan"}
  BY <1>1 DEF RightCall, CallSet
<1>3. call'[t] = Failed(c) /\ DOMAIN call' = Thread
      /\ \A u \in Thread \ {t} : call'[u] = call[u]
  BY <1>1 DEF RunFails
<1>4. call'[t] = Idle \/ RightCall(t)'
  <2>1. CASE call'[t] = NewCall(c.obj, c.for, "failed")
    BY <1>2, <2>1, NewCallRight
  <2>2. CASE c.for \in {"get", "orphan"}
    BY <1>3, <2>2 DEF Failed
  <2>3. CASE c.for \notin {"get", "orphan"}
    BY <1>3, <2>1, <2>3 DEF Failed
  <2> QED BY <2>2, <2>3
<1> QED BY <1>1, <1>3, <1>4, ThreadMoves DEF RunFails, dbVars, saleVars, loopVars

\* save_recommendation leaves a pending recommendation at the end.
LEMMA SavedGrows ==
  ASSUME recs \in Seq(Statuses)
  PROVE  /\ Saved \in Seq(Statuses) /\ Len(recs) <= Len(Saved)
         /\ \A i \in 1..Len(recs) : Saved[i] = recs[i]
         /\ Len(Saved) \in Nat \ {0} /\ Saved[Len(Saved)] = "pending"
<1>1. CASE recs # <<>> /\ recs[Len(recs)] = "pending"
  <2>1. Saved = recs
    BY <1>1 DEF Saved
  <2> QED BY <1>1, <2>1
<1>2. CASE ~(recs # <<>> /\ recs[Len(recs)] = "pending")
  <2>1. Saved = Append(recs, "pending") /\ "pending" \in Statuses
    BY <1>2 DEF Saved, Statuses
  <2> QED BY <2>1
<1> QED BY <1>1, <1>2

LEMMA ReadAndDecideIInv ==
  ASSUME CacheIInv, NEW t \in Thread, ReadAndDecide(t)
  PROVE  CacheIInv'
<1> PICK c : c = call[t]
  OBVIOUS
<1> PICK read : read = [c EXCEPT !.pc = "decided", !.seen = sold]
  OBVIOUS
<1>1. DOMAIN call = Thread /\ RightCall(t) /\ c.pc = "run"
  BY DEF CacheIInv, Calls, ReadAndDecide, Idle
<1>2. recs \in Seq(Statuses) /\ sold \in Nat /\ push.since <= sold /\ push.since \in Nat
  BY ToldTyped DEF CacheIInv, Base, PushSet, Told
<1>3. /\ read \in CallSet /\ read.pc = "decided" /\ read.seen = sold
      /\ read.rec = 0 /\ read.status = None
  BY <1>1, <1>2 DEF RightCall, CallSet
<1>4. \/ recs' = Saved /\ call' = [call EXCEPT ![t] = [read EXCEPT !.rec = Len(Saved)]]
      \/ recs' = recs /\ call' = [call EXCEPT ![t] = read]
      \/ recs' = recs /\ recs # <<>> /\ call' = [call EXCEPT ![t] = StandIn(read)]
  BY Zenon DEF ReadAndDecide
<1>5. Grows
  BY <1>2, <1>4, SavedGrows DEF Grows
<1>6. PICK d : /\ call' = [call EXCEPT ![t] = d]
               /\ \/ recs' = Saved /\ d = [read EXCEPT !.rec = Len(Saved)]
                  \/ recs' = recs /\ d = read
                  \/ recs' = recs /\ recs # <<>> /\ d = StandIn(read)
  BY <1>4
<1>7. call'[t] = d /\ DOMAIN call' = Thread
      /\ \A u \in Thread \ {t} : call'[u] = call[u]
  BY <1>1, <1>6
<1>8. d \in CallSet /\ d.pc = "decided" /\ d.seen = sold
  <2>1. CASE d = [read EXCEPT !.rec = Len(Saved)]
    <3>1. Len(Saved) \in Nat
      BY <1>2, SavedGrows
    <3> QED BY <1>3, <2>1, <3>1, ZenonT(60) DEF CallSet
  <2>2. CASE d = StandIn(read) /\ recs # <<>>
    <3>1. Len(recs) \in Nat /\ recs[Len(recs)] \in Statuses
      BY <1>2, <2>2
    <3> QED BY <1>3, <2>2, <3>1, ZenonT(60) DEF CallSet, StandIn
  <2> QED BY <1>3, <1>6, <2>1, <2>2
<1>9. d.rec <= Len(recs') /\ (d.rec = 0 => d.status = None)
      /\ (d.status # None => d.status = recs'[d.rec])
  <2>1. CASE d = [read EXCEPT !.rec = Len(Saved)] /\ recs' = Saved
    <3>1. Len(Saved) \in Nat \ {0}
      BY <1>2, SavedGrows
    <3>2. d.rec = Len(Saved) /\ d.status = None
      BY <1>3, <2>1, <3>1 DEF CallSet
    <3> QED BY <2>1, <3>1, <3>2
  <2>2. CASE d = read /\ recs' = recs
    <3>1. Len(recs) \in Nat
      BY <1>2
    <3> QED BY <1>3, <2>2, <3>1
  <2>3. CASE d = StandIn(read) /\ recs # <<>> /\ recs' = recs
    <3>1. Len(recs) \in Nat \ {0}
      BY <1>2, <2>3
    <3>2. d.rec = Len(recs) /\ d.status = recs[Len(recs)]
      BY <1>3, <2>3 DEF CallSet, StandIn
    <3> QED BY <2>3, <3>1, <3>2
  <2> QED BY <1>6, <2>1, <2>2, <2>3
<1>10. UNCHANGED <<sold, sale, announce, push, conn, cache, patching>>
  BY DEF ReadAndDecide, saleVars, loopVars
<1>11. RightCall(t)'
  BY <1>2, <1>7, <1>8, <1>9, <1>10 DEF RightCall
<1> QED BY <1>5, <1>7, <1>10, <1>11, ThreadMoves

LEMMA AssembleIInv ==
  ASSUME CacheIInv, NEW t \in Thread, Assemble(t) \/ AssembleBlind(t)
  PROVE  CacheIInv'
<1> PICK c : c = call[t]
  OBVIOUS
<1>1. /\ DOMAIN call = Thread /\ RightCall(t) /\ c.pc = "decided"
      /\ UNCHANGED <<recs, sold, sale, announce, push, conn, cache, patching>>
  BY DEF CacheIInv, Calls, Assemble, AssembleBlind, Idle, dbVars, saleVars, loopVars
<1>2. recs \in Seq(Statuses) /\ Grows /\ Told \in Nat /\ push.since <= Told
      /\ push.since \in Nat
  BY <1>1, ToldTyped, GrowsNot DEF CacheIInv, Base, PushSet
<1>3. c \in CallSet /\ c.rec \in Nat /\ c.rec <= Len(recs)
      /\ (c.for = "push" => push.since <= c.seen)
  BY <1>1 DEF RightCall, CallSet
<1>4. PICK shown : shown = Shown(c.seen)
  OBVIOUS
<1>5. shown \in Nat /\ (c.for = "push" => push.since <= shown)
  BY <1>2, <1>3, <1>4 DEF Shown, CallSet
<1>6. CASE Assemble(t)
  <2> PICK item : item = [sales |-> shown, rec |-> c.rec, status |-> Status(c)]
    OBVIOUS
  <2>1. /\ Status(c) \in Statuses \cup {None}
        /\ c.rec # 0 /\ ~c.crossed => Status(c) = recs[c.rec]
    <3>1. CASE c.rec = 0 \/ c.status # None
      BY <1>1, <1>3, <3>1 DEF Status, CallSet, RightCall
    <3>2. CASE ~(c.rec = 0 \/ c.status # None)
      BY <1>2, <1>3, <3>2 DEF Status
    <3> QED BY <3>1, <3>2
  <2>2. item \in Item /\ item.rec = c.rec /\ item.sales = shown /\ item.status = Status(c)
    BY <1>3, <1>5, <2>1 DEF Item
  <2> PICK ready : ready = [NewCall(c.obj, c.for, "ready") EXCEPT !.item = item]
    OBVIOUS
  <2>3. ready \in Carrying(c.for, "ready", item)
    BY <1>3, <2>2, CarryingTyped DEF CallSet
  <2>4. /\ call' = [call EXCEPT ![t] = [NewCall(c.obj, c.for, "ready") EXCEPT
                                          !.item = item, !.crossed = c.crossed]]
    BY <1>4, <1>6 DEF Assemble
  <2>5. call'[t] = [ready EXCEPT !.crossed = c.crossed] /\ DOMAIN call' = Thread
        /\ \A u \in Thread \ {t} : call'[u] = call[u]
    BY <1>1, <2>4 DEF NewCall
  <2>6. RightCall(t)'
    <3> PICK d : d = call'[t]
      OBVIOUS
    <3>1. d \in CallSet /\ d.for = c.for /\ d.pc = "ready" /\ d.item = item
          /\ d.crossed = c.crossed
      <4>1. ready \in CallSet /\ c.crossed \in BOOLEAN
        BY <1>3, <2>3 DEF Carrying, CallSet
      <4>2. [ready EXCEPT !.crossed = c.crossed] \in Marked(ready, c.crossed)
        BY <4>1, MarkedTyped
      <4>3. d \in Marked(ready, c.crossed)
        BY <2>5, <4>2
      <4> QED BY <2>3, <4>3 DEF Carrying, Marked
    <3>2. item.rec # 0 /\ ~c.crossed => item.status = recs'[item.rec]
      BY <1>1, <2>1, <2>2
    <3>3. item.rec <= Len(recs') /\ (c.for = "push" => push'.since <= item.sales)
      BY <1>1, <1>3, <1>5, <2>2
    <3> QED BY <2>2, <3>1, <3>2, <3>3 DEF RightCall
  <2> QED BY <1>1, <1>2, <2>5, <2>6, ThreadMoves
<1>7. CASE AssembleBlind(t)
  <2> PICK item : item = [sales |-> shown, rec |-> c.rec, status |-> "pending"]
    OBVIOUS
  <2>2. item \in Item /\ item.rec = c.rec /\ item.sales = shown
    BY <1>3, <1>5 DEF Item, Statuses
  <2> PICK ready : ready = [NewCall(c.obj, c.for, "ready") EXCEPT !.item = item]
    OBVIOUS
  <2>3. ready \in Carrying(c.for, "ready", item)
    BY <1>3, <2>2, CarryingTyped DEF CallSet
  <2>4. /\ call' = [call EXCEPT ![t] = [NewCall(c.obj, c.for, "ready") EXCEPT
                                          !.item = item, !.crossed = TRUE]]
    BY <1>4, <1>7 DEF AssembleBlind
  <2>5. call'[t] = [ready EXCEPT !.crossed = TRUE] /\ DOMAIN call' = Thread
        /\ \A u \in Thread \ {t} : call'[u] = call[u]
    BY <1>1, <2>4 DEF NewCall
  <2>6. RightCall(t)'
    <3> PICK d : d = call'[t]
      OBVIOUS
    <3>1. d \in CallSet /\ d.for = c.for /\ d.pc = "ready" /\ d.item = item
          /\ d.crossed = TRUE
      <4>1. ready \in CallSet /\ TRUE \in BOOLEAN
        BY <1>3, <2>3 DEF Carrying, CallSet
      <4>2. [ready EXCEPT !.crossed = TRUE] \in Marked(ready, TRUE)
        BY <4>1, MarkedTyped
      <4>3. d \in Marked(ready, TRUE)
        BY <2>5, <4>2
      <4> QED BY <2>3, <4>3 DEF Carrying, Marked
    <3>3. item.rec <= Len(recs') /\ (c.for = "push" => push'.since <= item.sales)
      BY <1>1, <1>3, <1>5, <2>2
    <3> QED BY <2>2, <3>1, <3>3 DEF RightCall
  <2> QED BY <1>1, <1>2, <2>5, <2>6, ThreadMoves
<1> QED BY <1>6, <1>7

----------------------------------------------------------------------------
(* The cache.                                                              *)

\* Only the entries change, with what a thread leaves.
LEMMA CommitIInv ==
  ASSUME CacheIInv, NEW t \in Thread, Commit(t)
  PROVE  CacheIInv'
<1> PICK c : c = call[t]
  OBVIOUS
<1>1. /\ DOMAIN call = Thread /\ RightCall(t) /\ c.pc = "ready"
      /\ UNCHANGED <<recs, sold, sale, announce, push, conn, patching>>
  BY DEF CacheIInv, Calls, Commit, Idle, dbVars, saleVars, loopVars
<1>2. c \in CallSet /\ c.item \in Item /\ c.item.rec <= Len(recs) /\ c.obj \in Objective
  BY <1>1 DEF RightCall, CallSet
<1>3. call'[t] = Answered(c, c.item) /\ DOMAIN call' = Thread
      /\ \A u \in Thread \ {t} : call'[u] = call[u]
  BY <1>1 DEF Commit
<1>4. Grows /\ Base' /\ push' \in PushSet /\ push'.since <= push.since
  <2>1. Grows
    BY <1>1, GrowsNot DEF CacheIInv
  <2>2. Base'
    BY <1>1, <2>1, BaseKept DEF CacheIInv
  <2> QED BY <1>1, <2>1, <2>2 DEF CacheIInv, Base, PushSet
<1>5. call'[t] = Idle \/ RightCall(t)'
  BY <1>1, <1>3, <1>4, AnsweredRight
<1>6. Calls' /\ Patched'
  BY <1>1, <1>3, <1>4, <1>5, OthersKept, PatchedKept
<1>7. Entries'
  <2>1. cache' = [cache EXCEPT ![c.obj] = Entry(c.item)]
    BY DEF Commit
  <2>2. Entry(c.item) \in EntrySet /\ Entry(c.item).item = c.item
    BY <1>2 DEF Entry, EntrySet
  <2> QED BY <1>1, <1>2, <2>1, <2>2 DEF CacheIInv, Entries
<1> QED BY <1>4, <1>6, <1>7 DEF CacheIInv

\* Nothing but the entries.
LEMMA CacheMoves ==
  ASSUME CacheIInv, Entries',
         UNCHANGED <<recs, sold, sale, announce, push, conn, call, patching>>
  PROVE  CacheIInv'
<1>1. Grows
  BY GrowsNot DEF CacheIInv
<1>2. Base' /\ push' \in PushSet /\ push'.since <= push.since
  <2>1. Base'
    BY <1>1, BaseKept DEF CacheIInv
  <2> QED BY <2>1 DEF CacheIInv, Base, PushSet
<1>3. DOMAIN call' = Thread /\ \A t \in Thread : call'[t] = call[t]
  BY DEF CacheIInv, Calls
<1>4. Calls'
  BY <1>1, <1>2, <1>3, CallKept DEF CacheIInv, Calls
<1> QED BY <1>1, <1>2, <1>4, PatchedKept DEF CacheIInv

LEMMA ExpireIInv ==
  ASSUME CacheIInv, NEW o \in Objective, Expire(o)
  PROVE  CacheIInv'
<1>1. UNCHANGED <<recs, sold, sale, announce, push, conn, call, patching>>
  BY DEF Expire, dbVars, saleVars, loopVars
<1>2. Entries'
  <2> PICK e : e = cache[o]
    OBVIOUS
  <2>1. e \in EntrySet /\ e.item.rec <= Len(recs)
    BY DEF Expire, Fresh, CacheIInv, Entries
  <2>2. cache' = [cache EXCEPT ![o] = [e EXCEPT !.fresh = FALSE]]
    BY DEF Expire
  <2>3. [e EXCEPT !.fresh = FALSE] \in EntrySet /\ [e EXCEPT !.fresh = FALSE].item = e.item
    BY <2>1 DEF EntrySet
  <2> QED BY <1>1, <2>1, <2>2, <2>3 DEF CacheIInv, Entries
<1> QED BY <1>1, <1>2, CacheMoves

LEMMA ClearCacheIInv ==
  ASSUME CacheIInv, ClearCache
  PROVE  CacheIInv'
<1>1. UNCHANGED <<recs, sold, sale, announce, push, conn, call, patching>>
  BY DEF ClearCache, dbVars, loopVars
<1>2. Entries'
  BY DEF ClearCache, Entries
<1> QED BY <1>1, <1>2, CacheMoves

----------------------------------------------------------------------------
(* run_llm_analysis.                                                       *)

LEMMA LlmAnalyzeIInv ==
  ASSUME CacheIInv, NEW t \in Thread, NEW o \in Objective, LlmAnalyze(t, o)
  PROVE  CacheIInv'
<1>1. /\ DOMAIN call = Thread /\ recs \in Seq(Statuses)
      /\ UNCHANGED <<sold, sale, announce, push, conn, cache, patching>> /\ recs' = Saved
  BY DEF CacheIInv, Base, Calls, LlmAnalyze, saleVars, loopVars
<1>2. Grows
  BY <1>1, SavedGrows DEF Grows
<1> PICK item : item = [sales |-> Shown(sold), rec |-> Len(Saved), status |-> "pending"]
  OBVIOUS
<1>3. Shown(sold) \in Nat /\ Len(Saved) \in Nat
  BY <1>1, SavedGrows, ToldTyped DEF Shown, CacheIInv, Base
<1>4. item \in Item /\ item.rec = Len(Saved) /\ item.status = "pending"
  BY <1>3 DEF Item, Statuses
<1>5. call' = [call EXCEPT ![t] = [NewCall(o, "get", "saved") EXCEPT !.item = item]]
  BY DEF LlmAnalyze
<1>6. [NewCall(o, "get", "saved") EXCEPT !.item = item] \in Carrying("get", "saved", item)
  BY <1>4, CarryingTyped
<1>7. call'[t] \in Carrying("get", "saved", item) /\ DOMAIN call' = Thread
      /\ \A u \in Thread \ {t} : call'[u] = call[u]
  BY <1>1, <1>5, <1>6
<1>8. RightCall(t)'
  <2>1. item.rec <= Len(recs') /\ item.status = recs'[item.rec]
    BY <1>1, <1>3, <1>4, SavedGrows
  <2> QED BY <1>4, <1>7, <2>1 DEF RightCall, Carrying
<1> QED BY <1>1, <1>2, <1>7, <1>8, ThreadMoves

LEMMA MergeIInv ==
  ASSUME CacheIInv, NEW t \in Thread, Merge(t)
  PROVE  CacheIInv'
<1> PICK c : c = call[t]
  OBVIOUS
<1>1. /\ DOMAIN call = Thread /\ RightCall(t) /\ c.pc = "saved"
      /\ UNCHANGED <<recs, sold, sale, announce, push, conn, patching>>
  BY DEF CacheIInv, Calls, Merge, Idle, dbVars, saleVars, loopVars
<1>2. c \in CallSet /\ c.item \in Item /\ c.item.rec <= Len(recs) /\ c.obj \in Objective
  BY <1>1 DEF RightCall, CallSet
<1>3. call'[t] = Idle /\ DOMAIN call' = Thread
      /\ \A u \in Thread \ {t} : call'[u] = call[u]
  BY <1>1 DEF Merge
<1>4. Grows /\ Base' /\ push' \in PushSet /\ push'.since <= push.since
  <2>1. Grows
    BY <1>1, GrowsNot DEF CacheIInv
  <2>2. Base'
    BY <1>1, <2>1, BaseKept DEF CacheIInv
  <2> QED BY <1>1, <2>1, <2>2 DEF CacheIInv, Base, PushSet
<1>6. Calls' /\ Patched'
  BY <1>1, <1>3, <1>4, OthersKept, PatchedKept
<1>7. Entries'
  <2>1. CASE cache[c.obj] = None
    BY <1>4, <2>1, EntriesKept DEF Merge
  <2>2. CASE cache[c.obj] # None
    <3> PICK e : e = cache[c.obj]
      OBVIOUS
    <3>1. e \in EntrySet
      BY <1>2, <2>2 DEF CacheIInv, Entries
    <3>2. cache' = [cache EXCEPT ![c.obj] = [e EXCEPT !.item = c.item]]
      BY <2>2 DEF Merge
    <3>3. [e EXCEPT !.item = c.item] \in EntrySet /\ [e EXCEPT !.item = c.item].item = c.item
      BY <1>2, <3>1 DEF EntrySet
    <3> QED BY <1>1, <1>2, <3>2, <3>3 DEF CacheIInv, Entries
  <2> QED BY <2>1, <2>2
<1> QED BY <1>4, <1>6, <1>7 DEF CacheIInv

----------------------------------------------------------------------------
(* A sale, and its push.                                                   *)

LEMMA SaleIInv ==
  ASSUME CacheIInv, SaleCommits \/ OnSale
  PROVE  CacheIInv'
<1>1. /\ Grows /\ UNCHANGED <<recs, push, conn, cache, call, patching>>
  BY GrowsNot DEF SaleCommits, OnSale, dbVars, loopVars, CacheIInv
<1>2. sold \in Nat /\ announce \in Seq(Nat) /\ push.since <= Told /\ sale \in BOOLEAN
      /\ push \in PushSet /\ push.since \in Nat
  BY DEF CacheIInv, Base, PushSet
<1>3. sold' \in Nat /\ announce' \in Seq(Nat)
  BY <1>2, SMTT(30) DEF SaleCommits, OnSale, dbVars
<1>4. sale' \in BOOLEAN /\ (sale' = TRUE => sold' > 0)
  <2>1. CASE SaleCommits
    <3>1. sale' = TRUE /\ sold' = sold + 1
      BY <2>1, Zenon DEF SaleCommits
    <3> QED BY <1>2, <3>1
  <2>2. CASE OnSale
    BY <2>2, Zenon DEF OnSale
  <2> QED BY <2>1, <2>2
<1>5. push.since <= Told'
  <2>1. CASE SaleCommits
    <3>1. Told = sold - 0 /\ Told' = sold' - 1 /\ sold' = sold + 1
      BY <2>1, Zenon DEF SaleCommits, Told
    <3> QED BY <1>2, <3>1
  <2>2. CASE OnSale
    <3>1. Told = sold - 1 /\ Told' = sold' - 0 /\ sold' = sold
      BY <2>2, Zenon DEF OnSale, Told, dbVars
    <3> QED BY <1>2, <3>1
  <2> QED BY <2>1, <2>2
<1>6. Base'
  BY <1>1, <1>2, <1>3, <1>4, <1>5 DEF CacheIInv, Base
<1>7. DOMAIN call' = Thread /\ \A t \in Thread : call'[t] = call[t]
  BY <1>1 DEF CacheIInv, Calls
<1>8. push' \in PushSet /\ push'.since <= push.since
  BY <1>1, <1>2
<1>9. Calls'
  BY <1>1, <1>7, <1>8, CallKept DEF CacheIInv, Calls
<1> QED BY <1>1, <1>6, <1>9, EntriesKept, PatchedKept DEF CacheIInv

\* The entries with a sale, or a status, patched in.
LEMMA SalePatched ==
  ASSUME Entries, NEW P, NEW n \in Nat, NEW o \in Objective, ShowingSale(P, n)[o] # None
  PROVE  /\ cache[o] # None /\ ShowingSale(P, n)[o] \in EntrySet
         /\ ShowingSale(P, n)[o].item.rec = cache[o].item.rec
         /\ ShowingSale(P, n)[o].item.status = cache[o].item.status
<1> PICK e : e = cache[o]
  OBVIOUS
<1> PICK i : i = cache[o].item
  OBVIOUS
<1>1. ShowingSale(P, n)[o] = IF o \in P /\ cache[o] # None
                               THEN [cache[o] EXCEPT !.item.sales = n] ELSE cache[o]
  BY DEF ShowingSale
<1>2. CASE o \in P /\ cache[o] # None
  <2>1. e \in EntrySet /\ i \in Item /\ i = e.item
    BY <1>2 DEF Entries, EntrySet
  <2>2. ShowingSale(P, n)[o] = [e EXCEPT !.item = [i EXCEPT !.sales = n]]
    BY <1>1, <1>2
  <2>3. [i EXCEPT !.sales = n] \in Item /\ [i EXCEPT !.sales = n].rec = i.rec
        /\ [i EXCEPT !.sales = n].status = i.status
    BY <2>1 DEF Item
  <2> QED BY <1>2, <2>1, <2>2, <2>3 DEF EntrySet
<1>3. CASE ~(o \in P /\ cache[o] # None)
  BY <1>1, <1>3 DEF Entries
<1> QED BY <1>2, <1>3

LEMMA StatusPatched ==
  ASSUME Entries, NEW P, NEW s \in Statuses, NEW o \in Objective, WithStatus(P, s)[o] # None
  PROVE  /\ cache[o] # None /\ WithStatus(P, s)[o] \in EntrySet
         /\ WithStatus(P, s)[o].item.rec = cache[o].item.rec
         /\ WithStatus(P, s)[o].item.status \in {s, cache[o].item.status}
<1> PICK e : e = cache[o]
  OBVIOUS
<1> PICK i : i = cache[o].item
  OBVIOUS
<1>1. WithStatus(P, s)[o] = IF o \in P /\ cache[o] # None
                              THEN [cache[o] EXCEPT !.item.status = s] ELSE cache[o]
  BY DEF WithStatus
<1>2. CASE o \in P /\ cache[o] # None
  <2>1. e \in EntrySet /\ i \in Item /\ i = e.item
    BY <1>2 DEF Entries, EntrySet
  <2>2. WithStatus(P, s)[o] = [e EXCEPT !.item = [i EXCEPT !.status = s]]
    BY <1>1, <1>2
  <2>3. [i EXCEPT !.status = s] \in Item /\ [i EXCEPT !.status = s].rec = i.rec
        /\ [i EXCEPT !.status = s].status = s
    BY <2>1 DEF Item
  <2> QED BY <1>2, <2>1, <2>2, <2>3 DEF EntrySet
<1>3. CASE ~(o \in P /\ cache[o] # None)
  BY <1>1, <1>3 DEF Entries
<1> QED BY <1>2, <1>3

\* The run of a push that is cancelled is nobody's.
LEMMA OrphanRight ==
  ASSUME CacheIInv, recs' = recs, NEW t \in Thread, call'[t] = Orphan(call[t])
  PROVE  call'[t] = Idle \/ RightCall(t)'
<1> PICK c : c = call[t]
  OBVIOUS
<1> PICK d : d = call'[t]
  OBVIOUS
<1>1. CASE c = Idle
  BY <1>1 DEF Orphan
<1>2. CASE c # Idle /\ c.for # "push"
  <2>1. d = c /\ RightCall(t)
    BY <1>2 DEF Orphan, CacheIInv, Calls
  <2> QED BY <1>2, <2>1 DEF RightCall
<1>3. CASE c # Idle /\ c.for = "push" /\ c.pc \in {"done", "failed"}
  BY <1>3 DEF Orphan
<1>4. CASE c # Idle /\ c.for = "push" /\ c.pc \notin {"done", "failed"}
  <2>1. c \in CallSet /\ RightCall(t)
    BY <1>4 DEF CacheIInv, Calls, RightCall
  <2>2. d = [c EXCEPT !.for = IF c.pc = "wait" THEN "orphan" ELSE "get"]
    BY <1>4 DEF Orphan
  <2>3. PICK for \in {"get", "orphan"} : d = [c EXCEPT !.for = for]
    BY <2>2
  <2>4. /\ d \in CallSet /\ d.for # "push" /\ d.pc = c.pc /\ d.rec = c.rec
        /\ d.status = c.status /\ d.item = c.item /\ d.crossed = c.crossed
    BY <2>1, <2>3 DEF CallSet
  <2> QED BY <2>1, <2>4 DEF RightCall
<1> QED BY <1>1, <1>2, <1>3, <1>4

LEMMA AnnounceIInv ==
  ASSUME CacheIInv, NEW i \in 1..Len(announce), Announce(i)
  PROVE  CacheIInv'
<1>1. /\ UNCHANGED <<recs, sold, sale, conn, patching>> /\ Grows
      /\ announce \in Seq(Nat) /\ announce[i] \in Nat
  <2>1. UNCHANGED <<recs, sold, sale, conn, patching>>
    BY DEF Announce, dbVars
  <2>2. announce \in Seq(Nat)
    BY DEF CacheIInv, Base
  <2>3. announce[i] \in Nat
    BY <2>2
  <2> QED BY <2>1, <2>2, <2>3, GrowsNot DEF CacheIInv
<1>2. announce' \in Seq(Nat)
  <2>1. announce' = RemoveAt(announce, i)
    BY DEF Announce
  <2>2. RemoveAt(announce, i) \in Seq(Nat)
    BY <1>1 DEF RemoveAt
  <2> QED BY <2>1, <2>2
<1>3. push' = [NoPush EXCEPT !.pc = "sleeping", !.since = Told]
      /\ call' = [t \in Thread |-> Orphan(call[t])]
  BY DEF Announce, Schedule
<1>4. push' \in PushSet /\ push'.since = Told /\ Told' = Told
  <2>1. Told \in Nat /\ Told' = Told
    BY <1>1, ToldTyped DEF CacheIInv, Told
  <2> QED BY <1>3, <2>1 DEF NoPush, PushSet
<1>5. Base'
  <2>1. Told \in Nat
    BY ToldTyped DEF CacheIInv
  <2> QED BY <1>1, <1>2, <1>4, <2>1 DEF CacheIInv, Base
<1>6. Calls'
  BY <1>1, <1>3, OrphanRight DEF Calls
<1>7. Entries'
  <2>1. cache' = ShowingSale(Objective, announce[i])
    BY DEF Announce
  <2>2. DOMAIN cache' = Objective
    BY <2>1 DEF ShowingSale
  <2>3. ASSUME NEW o \in Objective, cache'[o] # None
        PROVE  cache'[o] \in EntrySet /\ cache'[o].item.rec <= Len(recs')
    BY <1>1, <2>1, <2>3, SalePatched DEF CacheIInv, Entries
  <2> QED BY <2>2, <2>3 DEF Entries
<1> QED BY <1>1, <1>5, <1>6, <1>7, PatchedKept DEF CacheIInv

\* The thread whose entry interrupts the loop ends its run.
LEMMA InsertsRight ==
  ASSUME CacheIInv, NEW t \in Thread, Inserts(t), recs' = recs,
         push' \in PushSet, push'.since <= push.since,
         call' = [call EXCEPT ![t] = Answered(call[t], call[t].item)]
  PROVE  /\ Calls'
         /\ call[t].obj \in Objective /\ Entry(call[t].item) \in EntrySet
         /\ Entry(call[t].item).item = call[t].item /\ call[t].item.rec <= Len(recs)
<1> PICK c : c = call[t]
  OBVIOUS
<1>1. RightCall(t) /\ c.pc = "ready" /\ DOMAIN call = Thread /\ Grows
  BY GrowsNot DEF CacheIInv, Calls, Inserts, Idle
<1>2. c \in CallSet /\ c.obj \in Objective /\ c.item \in Item /\ c.item.rec <= Len(recs)
  BY <1>1 DEF RightCall, CallSet
<1>3. Entry(c.item) \in EntrySet /\ Entry(c.item).item = c.item
  BY <1>2 DEF Entry, EntrySet
<1>4. call'[t] = Answered(c, c.item) /\ DOMAIN call' = Thread
      /\ \A u \in Thread \ {t} : call'[u] = call[u]
  BY <1>1
<1>5. call'[t] = Idle \/ RightCall(t)'
  BY <1>1, <1>4, AnsweredRight
<1>6. Calls'
  BY <1>1, <1>4, <1>5, OthersKept
<1> QED BY <1>2, <1>3, <1>6

LEMMA AnnounceInterruptedIInv ==
  ASSUME CacheIInv, NEW i \in 1..Len(announce), NEW t \in Thread, NEW P,
         AnnounceInterrupted(i, t, P)
  PROVE  CacheIInv'
<1>1. UNCHANGED <<recs, sold, sale, push, conn, patching>>
  BY DEF AnnounceInterrupted, dbVars, loopVars
<1>2. announce \in Seq(Nat) /\ push \in PushSet /\ push.since \in Nat
  BY DEF CacheIInv, Base, PushSet
<1>3. announce' \in Seq(Nat) /\ announce[i] \in Nat
  <2>1. announce' = RemoveAt(announce, i)
    BY DEF AnnounceInterrupted
  <2>2. RemoveAt(announce, i) \in Seq(Nat)
    BY <1>2 DEF RemoveAt
  <2> QED BY <1>2, <2>1, <2>2
<1>4. Base'
  <2>1. Told' = Told
    BY <1>1 DEF Told
  <2> QED BY <1>1, <1>3, <2>1 DEF CacheIInv, Base
<1>5. push' \in PushSet /\ push'.since <= push.since
  BY <1>1, <1>2
<1>6. Inserts(t) /\ call' = [call EXCEPT ![t] = Answered(call[t], call[t].item)]
  BY DEF AnnounceInterrupted
<1>7. /\ Calls'
      /\ call[t].obj \in Objective /\ Entry(call[t].item) \in EntrySet
      /\ Entry(call[t].item).item = call[t].item /\ call[t].item.rec <= Len(recs)
  BY <1>1, <1>5, <1>6, InsertsRight
<1>8. Entries'
  <2>1. cache' = [ShowingSale(P, announce[i]) EXCEPT ![call[t].obj] = Entry(call[t].item)]
    BY DEF AnnounceInterrupted
  <2>2. DOMAIN cache' = Objective
    BY <2>1 DEF ShowingSale
  <2>3. ASSUME NEW o \in Objective, cache'[o] # None
        PROVE  cache'[o] \in EntrySet /\ cache'[o].item.rec <= Len(recs')
    <3>1. CASE o = call[t].obj
      <4>1. cache'[o] = Entry(call[t].item)
        BY <2>1, <3>1 DEF ShowingSale
      <4> QED BY <1>1, <1>7, <4>1
    <3>2. CASE o # call[t].obj
      <4>1. cache'[o] = ShowingSale(P, announce[i])[o]
        BY <2>1, <3>2 DEF ShowingSale
      <4> QED BY <1>1, <1>3, <2>3, <4>1, SalePatched DEF CacheIInv, Entries
    <3> QED BY <3>1, <3>2
  <2> QED BY <2>2, <2>3 DEF Entries
<1>9. Patched'
  BY <1>1, PatchedKept, GrowsNot DEF CacheIInv
<1> QED BY <1>4, <1>7, <1>8, <1>9 DEF CacheIInv

LEMMA PushWakesIInv ==
  ASSUME CacheIInv, PushWakes
  PROVE  CacheIInv'
<1>1. /\ UNCHANGED <<recs, sold, sale, announce, cache, call, conn, patching>>
  BY DEF PushWakes, dbVars, saleVars
<1>2. Grows /\ Told' = Told /\ Told \in Nat /\ push \in PushSet /\ push.since <= Told
      /\ conn \subseteq Objective /\ push.since \in Nat
  BY <1>1, GrowsNot, ToldTyped DEF CacheIInv, Told, Base, PushSet
<1>3. push' = NoPush \/ push' = [push EXCEPT !.pc = "next", !.todo = conn]
  BY DEF PushWakes
<1>4. push' \in PushSet /\ push'.since <= push.since
  <2>1. CASE push' = NoPush
    BY <1>2, <2>1 DEF NoPush, PushSet
  <2>2. CASE push' = [push EXCEPT !.pc = "next", !.todo = conn]
    <3>1. push' \in PushSet /\ push'.since = push.since
      BY <1>2, <2>2 DEF PushSet
    <3> QED BY <1>2, <3>1
  <2> QED BY <1>3, <2>1, <2>2
<1>5. Base'
  <2>1. push'.since \in Nat
    BY <1>4 DEF PushSet
  <2> QED BY <1>1, <1>2, <1>4, <2>1 DEF CacheIInv, Base
<1>6. Calls'
  BY <1>1, <1>2, <1>4, CallKept DEF CacheIInv, Calls
<1> QED BY <1>1, <1>2, <1>5, <1>6, EntriesKept, PatchedKept DEF CacheIInv

LEMMA PushCallsIInv ==
  ASSUME CacheIInv, NEW t \in Thread, NEW o \in Objective, PushCalls(t, o)
  PROVE  CacheIInv'
<1>1. UNCHANGED <<recs, sold, sale, announce, cache, conn, patching>>
  BY DEF PushCalls, dbVars, saleVars
<1>2. Grows /\ Told' = Told /\ push \in PushSet /\ push.since <= Told
      /\ push.since \in Nat /\ DOMAIN call = Thread
  BY <1>1, GrowsNot DEF CacheIInv, Told, Base, PushSet, Calls
<1>3. push' = [push EXCEPT !.pc = "called"]
  BY DEF PushCalls
<1>4. push' \in PushSet /\ push'.since = push.since
  BY <1>2, <1>3 DEF PushSet
<1>5. Base'
  BY <1>1, <1>2, <1>4 DEF CacheIInv, Base
<1>6. call'[t] = NewCall(o, "push", "wait") /\ DOMAIN call' = Thread
      /\ \A u \in Thread \ {t} : call'[u] = call[u]
  BY <1>2 DEF PushCalls
<1>7. RightCall(t)'
  BY <1>6, NewCallRight
<1>8. push'.since <= push.since
  BY <1>2, <1>4
<1>9. Calls'
  BY <1>2, <1>4, <1>6, <1>7, <1>8, OthersKept
<1> QED BY <1>1, <1>2, <1>5, <1>9, EntriesKept, PatchedKept DEF CacheIInv

LEMMA PushSendsIInv ==
  ASSUME CacheIInv, NEW t \in Thread, PushSends(t)
  PROVE  CacheIInv'
<1>1. UNCHANGED <<recs, sold, sale, announce, cache, conn, patching>>
  BY DEF PushSends, dbVars, saleVars
<1>2. Grows /\ Told' = Told /\ push \in PushSet /\ push.since <= Told /\ Told \in Nat
      /\ push.since \in Nat /\ DOMAIN call = Thread
  BY <1>1, GrowsNot, ToldTyped DEF CacheIInv, Told, Base, PushSet, Calls
<1>3. push' = NoPush \/ push' = [push EXCEPT !.pc = "next",
                                             !.todo = push.todo \ {call[t].obj}]
  BY DEF PushSends, PushNext
<1>4. push' \in PushSet /\ push'.since <= push.since
  <2>1. push.todo \ {call[t].obj} \in SUBSET Objective
    BY <1>2 DEF PushSet
  <2>2. CASE push' = NoPush
    BY <1>2, <2>2 DEF NoPush, PushSet
  <2>3. CASE push' = [push EXCEPT !.pc = "next", !.todo = push.todo \ {call[t].obj}]
    <3>1. push' \in PushSet /\ push'.since = push.since
      BY <1>2, <2>1, <2>3 DEF PushSet
    <3> QED BY <1>2, <3>1
  <2> QED BY <1>3, <2>2, <2>3
<1>5. Base'
  <2>1. push'.since \in Nat
    BY <1>4 DEF PushSet
  <2> QED BY <1>1, <1>2, <1>4, <2>1 DEF CacheIInv, Base
<1>6. call'[t] = Idle /\ DOMAIN call' = Thread
      /\ \A u \in Thread \ {t} : call'[u] = call[u]
  BY <1>2 DEF PushSends
<1>7. Calls'
  BY <1>2, <1>4, <1>6, OthersKept
<1> QED BY <1>1, <1>2, <1>5, <1>7, EntriesKept, PatchedKept DEF CacheIInv

----------------------------------------------------------------------------
(* The sockets.                                                            *)

LEMMA WarmSendsIInv ==
  ASSUME CacheIInv, NEW t \in Thread, WarmSends(t)
  PROVE  CacheIInv'
<1>1. DOMAIN call = Thread /\ Grows
      /\ UNCHANGED <<sold, sale, announce, push, conn, cache, patching>>
  BY GrowsNot DEF CacheIInv, Calls, WarmSends, dbVars, saleVars, loopVars
<1>2. call'[t] = Idle /\ DOMAIN call' = Thread
      /\ \A u \in Thread \ {t} : call'[u] = call[u]
  BY <1>1 DEF WarmSends
<1> QED BY <1>1, <1>2, ThreadMoves

LEMMA ConnectIInv ==
  ASSUME CacheIInv, NEW o \in Objective, Connect(o) \/ Disconnect(o)
  PROVE  CacheIInv'
<1>1. UNCHANGED <<recs, sold, sale, announce, cache, push, patching>>
  BY DEF Connect, Disconnect, dbVars, saleVars
<1>2. Grows /\ conn' \subseteq Objective /\ push' \in PushSet /\ push'.since <= push.since
      /\ DOMAIN call = Thread
  <2>1. conn' \subseteq Objective
    BY DEF Connect, Disconnect, CacheIInv, Base
  <2>2. DOMAIN call = Thread
    BY DEF CacheIInv, Calls
  <2> QED BY <1>1, <2>1, <2>2, PushStays
<1>3. Base'
  <2>1. Told' = Told
    BY <1>1 DEF Told
  <2> QED BY <1>1, <1>2, <2>1 DEF CacheIInv, Base
<1>4. Calls'
  <2>1. CASE call' = call
    <3>1. \A t \in Thread : call'[t] = call[t]
      BY <2>1
    <3> QED BY <1>2, <2>1, <3>1, CallKept DEF CacheIInv, Calls
  <2>2. ASSUME NEW t \in Thread, call' = [call EXCEPT ![t] = NewCall(o, "warm", "wait")]
        PROVE  Calls'
    <3>1. call'[t] = NewCall(o, "warm", "wait") /\ DOMAIN call' = Thread
          /\ \A u \in Thread \ {t} : call'[u] = call[u]
      BY <1>2, <2>2
    <3>2. RightCall(t)'
      BY <3>1, NewCallRight
    <3> QED BY <1>2, <3>1, <3>2, OthersKept
  <2> QED BY <2>1, <2>2 DEF Connect, Disconnect
<1> QED BY <1>1, <1>2, <1>3, <1>4, EntriesKept, PatchedKept DEF CacheIInv

----------------------------------------------------------------------------
(* A decision, and the patch of the cache.                                 *)

\* A decision marks the calls that have read a status.
LEMMA DecideRecIInv ==
  ASSUME CacheIInv, NEW r \in 1..Len(recs), NEW s \in Statuses, DecideRec(r, s)
  PROVE  CacheIInv'
<1>1. /\ UNCHANGED <<sold, sale, announce, push, conn, cache>>
      /\ recs \in Seq(Statuses) /\ recs' = [recs EXCEPT ![r] = s]
      /\ patching' = [rec |-> r, status |-> s]
  BY DEF DecideRec, saleVars, CacheIInv, Base
<1>2. recs' \in Seq(Statuses) /\ Len(recs') = Len(recs) /\ recs'[r] = s
      /\ \A i \in 1..Len(recs) : i # r => recs'[i] = recs[i]
  BY <1>1
<1>3. Base'
  <2>1. Told' = Told
    BY <1>1 DEF Told
  <2> QED BY <1>1, <1>2, <2>1 DEF CacheIInv, Base
<1>4. Entries'
  BY <1>1, <1>2 DEF CacheIInv, Entries
<1>5. Patched'
  BY <1>1, <1>2 DEF Patched, Patching
<1>6. ASSUME NEW t \in Thread
      PROVE  call'[t] = Idle \/ RightCall(t)'
  <2> PICK c : c = call[t]
    OBVIOUS
  <2>1. call'[t] = IF HasReadStatus(c) THEN [c EXCEPT !.crossed = TRUE] ELSE c
    BY DEF DecideRec
  <2>2. CASE c = Idle
    <3>1. ~HasReadStatus(c)
      BY <2>2 DEF HasReadStatus, Idle
    <3> QED BY <2>1, <2>2, <3>1
  <2>3. CASE c # Idle /\ HasReadStatus(c)
    <3>1. RightCall(t) /\ c \in CallSet
      BY <2>3 DEF CacheIInv, Calls, RightCall
    <3>2. call'[t] \in Marked(c, TRUE)
      <4>1. [c EXCEPT !.crossed = TRUE] \in Marked(c, TRUE)
        BY <3>1, MarkedTyped
      <4> QED BY <2>1, <2>3, <4>1
    <3> QED BY <1>1, <1>2, <3>1, <3>2 DEF Marked, RightCall
  <2>4. CASE c # Idle /\ ~HasReadStatus(c)
    <3>1. RightCall(t) /\ c \in CallSet /\ call'[t] = c
      BY <2>1, <2>4 DEF CacheIInv, Calls, RightCall
    <3>2. c.pc = "decided" => c.status = None
      BY <2>4 DEF HasReadStatus
    <3>3. c.pc \notin {"ready", "saved"}
      BY <2>4 DEF HasReadStatus
    <3> QED BY <1>1, <1>2, <3>1, <3>2, <3>3 DEF RightCall
  <2> QED BY <2>2, <2>3, <2>4
<1>7. Calls'
  BY <1>6 DEF DecideRec, Calls
<1> QED BY <1>3, <1>4, <1>5, <1>7 DEF CacheIInv

LEMMA PatchCacheIInv ==
  ASSUME CacheIInv, PatchCache \/ PatchSkipped
  PROVE  CacheIInv'
<1>1. /\ UNCHANGED <<recs, sold, sale, announce, push, conn, call>> /\ patching' = None
      /\ patching # None
  BY DEF PatchCache, PatchSkipped, dbVars, saleVars, LoopFree
<1>2. Grows /\ push' \in PushSet /\ push'.since <= push.since /\ patching.status \in Statuses
  <2>1. patching.status \in Statuses
    BY <1>1 DEF CacheIInv, Patched, Patching
  <2> QED BY <1>1, <2>1, PushStays
<1>3. Base' /\ Patched'
  <2>1. Base'
    BY <1>1, <1>2, BaseKept DEF CacheIInv
  <2> QED BY <1>1, <2>1 DEF Patched
<1>4. Calls'
  <2>1. \A t \in Thread : call'[t] = call[t]
    BY <1>1
  <2> QED BY <1>1, <1>2, <2>1, CallKept DEF CacheIInv, Calls
<1>5. Entries'
  <2>1. CASE cache' = cache
    BY <1>2, <2>1, EntriesKept
  <2>2. CASE cache' = WithStatus(Objective, patching.status)
    <3>1. DOMAIN cache' = Objective
      BY <2>2 DEF WithStatus
    <3>2. ASSUME NEW o \in Objective, cache'[o] # None
          PROVE  cache'[o] \in EntrySet /\ cache'[o].item.rec <= Len(recs')
      BY <1>1, <1>2, <2>2, <3>2, StatusPatched DEF CacheIInv, Entries
    <3> QED BY <3>1, <3>2 DEF Entries
  <2> QED BY <2>1, <2>2 DEF PatchCache, PatchSkipped
<1> QED BY <1>3, <1>4, <1>5 DEF CacheIInv

LEMMA PatchInterruptedIInv ==
  ASSUME CacheIInv, NEW t \in Thread, NEW P, PatchInterrupted(t, P)
  PROVE  CacheIInv'
<1>1. /\ UNCHANGED <<recs, sold, sale, announce, push, conn>> /\ patching' = None
      /\ patching # None
  BY DEF PatchInterrupted, dbVars, saleVars, LoopFree
<1>2. Grows /\ push' \in PushSet /\ push'.since <= push.since /\ patching.status \in Statuses
  <2>1. patching.status \in Statuses
    BY <1>1 DEF CacheIInv, Patched, Patching
  <2> QED BY <1>1, <2>1, PushStays
<1>3. Base' /\ Patched'
  <2>1. Base'
    BY <1>1, <1>2, BaseKept DEF CacheIInv
  <2> QED BY <1>1, <2>1 DEF Patched
<1>4. Inserts(t) /\ call' = [call EXCEPT ![t] = Answered(call[t], call[t].item)]
  BY DEF PatchInterrupted
<1>5. /\ Calls'
      /\ call[t].obj \in Objective /\ Entry(call[t].item) \in EntrySet
      /\ Entry(call[t].item).item = call[t].item /\ call[t].item.rec <= Len(recs)
  BY <1>1, <1>2, <1>4, InsertsRight
<1>6. Entries'
  <2>1. cache' = [WithStatus(P, patching.status) EXCEPT ![call[t].obj] = Entry(call[t].item)]
    BY DEF PatchInterrupted
  <2>2. DOMAIN cache' = Objective
    BY <2>1 DEF WithStatus
  <2>3. ASSUME NEW o \in Objective, cache'[o] # None
        PROVE  cache'[o] \in EntrySet /\ cache'[o].item.rec <= Len(recs')
    <3>1. CASE o = call[t].obj
      <4>1. cache'[o] = Entry(call[t].item)
        BY <2>1, <3>1 DEF WithStatus
      <4> QED BY <1>1, <1>5, <4>1
    <3>2. CASE o # call[t].obj
      <4>1. cache'[o] = WithStatus(P, patching.status)[o]
        BY <2>1, <3>2 DEF WithStatus
      <4> QED BY <1>1, <1>2, <2>3, <4>1, StatusPatched DEF CacheIInv, Entries
    <3> QED BY <3>1, <3>2
  <2> QED BY <2>2, <2>3 DEF Entries
<1> QED BY <1>3, <1>5, <1>6 DEF CacheIInv

LEMMA CacheNext ==
  ASSUME CacheIInv, [Next]_vars
  PROVE  CacheIInv'
<1>1. ASSUME NEW t \in Thread, Acquire(t) \/ Run(t) \/ RunFails(t) \/ AssembleBlind(t)
                                 \/ PushSends(t) \/ WarmSends(t)
      PROVE  CacheIInv'
  BY <1>1, AcquireIInv, ReadAndDecideIInv, AssembleIInv, CommitIInv, MergeIInv, RunFailsIInv,
     PushSendsIInv, WarmSendsIInv DEF Run
<1>2. ASSUME NEW t \in Thread, NEW o \in Objective,
             (\E force \in BOOLEAN : Get(t, o, force)) \/ LlmAnalyze(t, o) \/ PushCalls(t, o)
      PROVE  CacheIInv'
  BY <1>2, GetIInv, LlmAnalyzeIInv, PushCallsIInv
<1>3. ASSUME NEW o \in Objective, Expire(o) \/ Connect(o) \/ Disconnect(o)
      PROVE  CacheIInv'
  BY <1>3, ExpireIInv, ConnectIInv
<1>4. CASE ClearCache \/ SaleCommits \/ OnSale \/ PushWakes
  BY <1>4, ClearCacheIInv, SaleIInv, PushWakesIInv
<1>5. ASSUME NEW i \in 1..Len(announce),
             \/ Announce(i)
             \/ \E t \in Thread, P \in SUBSET Objective : AnnounceInterrupted(i, t, P)
      PROVE  CacheIInv'
  BY <1>5, AnnounceIInv, AnnounceInterruptedIInv
<1>6. ASSUME NEW r \in 1..Len(recs), NEW s \in Statuses \ {"pending"}, DecideRec(r, s)
      PROVE  CacheIInv'
  BY <1>6, DecideRecIInv
<1>7. CASE \/ PatchCache \/ PatchSkipped
           \/ \E t \in Thread, P \in SUBSET Objective : PatchInterrupted(t, P)
  BY <1>7, PatchCacheIInv, PatchInterruptedIInv
<1>8. CASE UNCHANGED vars
  <2>1. UNCHANGED <<recs, sold, sale, announce, push, conn, call, patching, cache>>
    BY <1>8 DEF vars, dbVars, saleVars, loopVars
  <2>2. Entries'
    BY <2>1, EntriesKept, PushStays
  <2> QED BY <2>1, <2>2, CacheMoves
<1> QED BY <1>1, <1>2, <1>3, <1>4, <1>5, <1>6, <1>7, <1>8 DEF Next

\* CacheIInv is an invariant of the cache with its callers, for any objectives,
\* threads and budget: the cache holds well-formed entries about rows that
\* exist, each call in flight knows what it read (routes.py), the decision
\* being patched still stands.
THEOREM CacheInvariance == Spec => []CacheIInv
<1>1. Init => CacheIInv
  BY CacheInit
<1>2. CacheIInv /\ [Next]_vars => CacheIInv'
  BY CacheNext
<1> QED BY <1>1, <1>2, PTL DEF Spec

\* PushIsCurrent: what _push_update_to_store sends to the browsers of a store
\* was read after the sale the push was scheduled for.  The run may have waited
\* for the lock behind another one, which it does not reuse (refresh=True), and
\* the override wins over the stock it read.
THEOREM PushAlwaysCurrent == Spec => PushIsCurrent
<1>1. ASSUME CacheIInv, NEW t \in Thread, PushSends(t), call[t].pc = "done"
      PROVE  call[t].item.sales >= push.since
  <2>1. RightCall(t) /\ call[t].for = "push"
    BY <1>1 DEF CacheIInv, Calls, PushSends, Idle
  <2>2. call[t].item \in Item /\ push.since <= call[t].item.sales
    BY <1>1, <2>1 DEF RightCall
  <2>3. push.since \in Nat
    BY <1>1 DEF CacheIInv, Base, PushSet
  <2> QED BY <2>2, <2>3 DEF Item
<1>2. CacheIInv => [\A t \in Thread : PushSends(t) /\ call[t].pc = "done"
                       => call[t].item.sales >= push.since]_vars
  BY <1>1
<1> QED BY <1>2, CacheInvariance, PTL DEF PushIsCurrent

----------------------------------------------------------------------------
(***************************************************************************)
(* A decision the cache shows.  A row it is read from stays (Entries), so  *)
(* a step that leaves an item its recommendation and its status leaves it  *)
(* right, and so does a run that puts in an item nothing crossed.          *)
(***************************************************************************)
Excused(o) ==
    \/ patching' # None
    \/ patching # None /\ cache[o] # None /\ patching.rec # cache[o].item.rec
    \/ \E t \in Thread : call[t] # Idle /\ call[t].crossed /\ call'[t] # call[t]

LEMMA StillShows ==
  ASSUME CacheIInv, Grows, NEW o \in Objective, ShowsStatus(o),
         cache'[o] # None =>
           /\ cache[o] # None
           /\ cache'[o].item.rec = cache[o].item.rec
           /\ cache'[o].item.status = cache[o].item.status
  PROVE  ShowsStatus(o)'
<1> SUFFICES ASSUME cache'[o] # None, cache'[o].item.rec # 0
             PROVE  cache'[o].item.status = recs'[cache'[o].item.rec]
  BY DEF ShowsStatus
<1>1. cache[o].item.rec \in 1..Len(recs)
  BY DEF CacheIInv, Base, Entries, EntrySet, Item
<1> QED BY <1>1 DEF ShowsStatus, Grows

LEMMA UntouchedShows ==
  ASSUME CacheIInv, Grows, NEW o \in Objective, ShowsStatus(o), cache' = cache
  PROVE  ShowsStatus(o)'
  BY StillShows

LEMMA RunShows ==
  ASSUME CacheIInv, recs' = recs, NEW t \in Thread, NEW o \in Objective,
         call[t].pc \in {"ready", "saved"}, call'[t] # call[t],
         cache'[o].item = call[t].item, ~ShowsStatus(o)'
  PROVE  Excused(o)
<1>1. RightCall(t) /\ call[t] # Idle
  BY DEF CacheIInv, Calls, Idle
<1>2. ~call[t].crossed => ShowsStatus(o)'
  BY <1>1 DEF RightCall, ShowsStatus
<1> QED BY <1>1, <1>2 DEF Excused

LEMMA CommitExcused ==
  ASSUME CacheIInv, NEW t \in Thread, NEW o \in Objective, NEW C, call[t].pc = "ready",
         DOMAIN C = Objective, cache' = [C EXCEPT ![call[t].obj] = Entry(call[t].item)],
         call' = [call EXCEPT ![t] = Answered(call[t], call[t].item)],
         recs' = recs, ~ShowsStatus(o)'
  PROVE  Excused(o) \/ cache'[o] = C[o]
<1> PICK c : c = call[t]
  OBVIOUS
<1>1. RightCall(t) /\ c \in CallSet /\ DOMAIN call = Thread
  BY DEF CacheIInv, Calls, RightCall, Idle
<1>2. call'[t] = Answered(c, c.item)
  BY <1>1
<1>3. call'[t] # c
  BY <1>1, <1>2 DEF Answered, NewCall, Idle, CallSet
<1>4. CASE o = c.obj
  <2>1. cache'[o] = Entry(c.item)
    BY <1>4
  <2>2. cache'[o].item = c.item
    BY <2>1 DEF Entry
  <2> QED BY <1>3, <2>2, RunShows
<1>5. CASE o # c.obj
  BY <1>5
<1> QED BY <1>4, <1>5

LEMMA ReadsShow ==
  ASSUME CacheIInv, NEW o \in Objective, ShowsStatus(o), NEW t \in Thread,
         \/ Acquire(t) \/ ReadAndDecide(t) \/ Assemble(t) \/ AssembleBlind(t) \/ RunFails(t)
         \/ PushSends(t) \/ WarmSends(t)
         \/ \E p \in Objective : \/ \E force \in BOOLEAN : Get(t, p, force)
                                 \/ LlmAnalyze(t, p) \/ PushCalls(t, p)
  PROVE  ShowsStatus(o)'
<1>1. cache' = cache
  BY DEF Acquire, ReadAndDecide, Assemble, AssembleBlind, RunFails, PushSends, WarmSends,
         Get, LlmAnalyze, PushCalls
<1>2. recs' = recs \/ recs' = Saved
  BY DEF Acquire, ReadAndDecide, Assemble, AssembleBlind, RunFails, PushSends, WarmSends,
         Get, LlmAnalyze, PushCalls, dbVars
<1>3. Grows
  BY <1>2, SavedGrows, GrowsNot DEF Grows, CacheIInv, Base
<1> QED BY <1>1, <1>3, UntouchedShows

LEMMA CommitNotUndone ==
  ASSUME CacheIInv, NEW o \in Objective, ShowsStatus(o), ~ShowsStatus(o)',
         NEW t \in Thread, Commit(t)
  PROVE  Excused(o)
<1>1. /\ call[t].pc = "ready" /\ recs' = recs
      /\ cache' = [cache EXCEPT ![call[t].obj] = Entry(call[t].item)]
      /\ call' = [call EXCEPT ![t] = Answered(call[t], call[t].item)]
  BY DEF Commit, dbVars
<1>2. DOMAIN cache = Objective /\ Grows
  BY <1>1, GrowsNot DEF CacheIInv, Entries
<1>3. Excused(o) \/ cache'[o] = cache[o]
  BY <1>1, <1>2, CommitExcused
<1> QED BY <1>2, <1>3, StillShows

LEMMA MergeNotUndone ==
  ASSUME CacheIInv, NEW o \in Objective, ShowsStatus(o), ~ShowsStatus(o)',
         NEW t \in Thread, Merge(t)
  PROVE  Excused(o)
<1> PICK c : c = call[t]
  OBVIOUS
<1>1. /\ c.pc = "saved" /\ recs' = recs /\ call'[t] = Idle /\ DOMAIN cache = Objective /\ Grows
  BY GrowsNot DEF Merge, dbVars, CacheIInv, Entries, Calls
<1>2. CASE cache'[o] = cache[o]
  BY <1>1, <1>2, StillShows
<1>3. CASE cache'[o] # cache[o]
  <2>1. cache' = [cache EXCEPT ![c.obj] = [cache[c.obj] EXCEPT !.item = c.item]]
        /\ cache[c.obj] # None
    BY <1>3 DEF Merge
  <2>2. o = c.obj
    BY <1>1, <1>3, <2>1
  <2>3. cache[o] \in EntrySet
    BY <2>1, <2>2 DEF CacheIInv, Entries
  <2>4. cache'[o].item = c.item
    BY <1>1, <2>1, <2>2, <2>3 DEF EntrySet
  <2>5. call'[t] # call[t]
    BY <1>1 DEF Idle
  <2> QED BY <1>1, <2>4, <2>5, RunShows
<1> QED BY <1>2, <1>3

LEMMA AnnounceNotUndone ==
  ASSUME CacheIInv, NEW o \in Objective, ShowsStatus(o), ~ShowsStatus(o)',
         NEW i \in 1..Len(announce),
         \/ Announce(i)
         \/ \E t \in Thread, P \in SUBSET Objective : AnnounceInterrupted(i, t, P)
  PROVE  Excused(o)
<1>1. announce[i] \in Nat /\ recs' = recs /\ Grows
  <2>1. recs' = recs
    BY DEF Announce, AnnounceInterrupted, dbVars
  <2>2. announce \in Seq(Nat)
    BY DEF CacheIInv, Base
  <2> QED BY <2>1, <2>2, GrowsNot DEF CacheIInv
<1>2. PICK P : cache'[o] = ShowingSale(P, announce[i])[o] \/ Excused(o)
  <2>1. CASE Announce(i)
    BY <2>1 DEF Announce
  <2>2. ASSUME NEW t \in Thread, NEW P \in SUBSET Objective, AnnounceInterrupted(i, t, P)
        PROVE  Excused(o) \/ cache'[o] = ShowingSale(P, announce[i])[o]
    <3>1. /\ call[t].pc = "ready" /\ DOMAIN ShowingSale(P, announce[i]) = Objective
          /\ cache' = [ShowingSale(P, announce[i]) EXCEPT ![call[t].obj] = Entry(call[t].item)]
          /\ call' = [call EXCEPT ![t] = Answered(call[t], call[t].item)]
      BY <2>2 DEF AnnounceInterrupted, Inserts, ShowingSale
    <3> QED BY <1>1, <3>1, CommitExcused
  <2> QED BY <2>1, <2>2
<1>3. CASE cache'[o] = ShowingSale(P, announce[i])[o]
  <2>1. cache'[o] # None =>
          /\ cache[o] # None
          /\ cache'[o].item.rec = cache[o].item.rec
          /\ cache'[o].item.status = cache[o].item.status
    BY <1>1, <1>3, SalePatched DEF CacheIInv
  <2> QED BY <1>1, <2>1, StillShows
<1> QED BY <1>2, <1>3

\* The patch of a decision: it puts on an item the status of its own
\* recommendation, or the item is of another one.
LEMMA PatchNotUndone ==
  ASSUME CacheIInv, NEW o \in Objective, ShowsStatus(o), ~ShowsStatus(o)',
         \/ PatchCache \/ PatchSkipped
         \/ \E t \in Thread, P \in SUBSET Objective : PatchInterrupted(t, P)
  PROVE  Excused(o)
<1>1. recs' = recs /\ Grows /\ patching # None
  BY GrowsNot DEF CacheIInv, Base, PatchCache, PatchSkipped, PatchInterrupted, dbVars, LoopFree
<1>2. /\ patching.status \in Statuses /\ patching.rec \in 1..Len(recs)
      /\ recs[patching.rec] = patching.status
  BY <1>1 DEF CacheIInv, Patched, Patching
<1>3. PICK P : \/ cache'[o] = WithStatus(P, patching.status)[o]
               \/ cache'[o] = cache[o] \/ Excused(o)
  <2>1. CASE PatchCache \/ PatchSkipped
    BY <2>1 DEF PatchCache, PatchSkipped
  <2>2. ASSUME NEW t \in Thread, NEW P \in SUBSET Objective, PatchInterrupted(t, P)
        PROVE  Excused(o) \/ cache'[o] = WithStatus(P, patching.status)[o]
    <3>1. /\ call[t].pc = "ready" /\ DOMAIN WithStatus(P, patching.status) = Objective
          /\ cache' = [WithStatus(P, patching.status)
                         EXCEPT ![call[t].obj] = Entry(call[t].item)]
          /\ call' = [call EXCEPT ![t] = Answered(call[t], call[t].item)]
      BY <2>2 DEF PatchInterrupted, Inserts, WithStatus
    <3> QED BY <1>1, <3>1, CommitExcused
  <2> QED BY <2>1, <2>2
<1>4. CASE cache'[o] = cache[o]
  BY <1>1, <1>4, StillShows
<1>5. CASE cache'[o] = WithStatus(P, patching.status)[o]
  <2>1. /\ cache'[o] # None /\ cache[o] # None
        /\ cache'[o].item.rec = cache[o].item.rec
        /\ cache'[o].item.status \in {patching.status, cache[o].item.status}
    <3>1. cache'[o] # None
      BY DEF ShowsStatus
    <3> QED BY <1>2, <1>5, <3>1, StatusPatched DEF CacheIInv
  <2>2. CASE patching.rec = cache[o].item.rec
    BY <1>1, <1>2, <2>1, <2>2 DEF ShowsStatus
  <2>3. CASE patching.rec # cache[o].item.rec
    BY <1>1, <2>1, <2>3 DEF Excused
  <2> QED BY <2>2, <2>3
<1> QED BY <1>3, <1>4, <1>5

LEMMA NotUndone ==
  ASSUME CacheIInv, [Next]_vars, NEW o \in Objective, ShowsStatus(o), ~ShowsStatus(o)'
  PROVE  Excused(o)
<1>1. ASSUME NEW t \in Thread, Acquire(t) \/ Run(t) \/ RunFails(t) \/ AssembleBlind(t)
                                 \/ PushSends(t) \/ WarmSends(t)
      PROVE  Excused(o)
  BY <1>1, ReadsShow, CommitNotUndone, MergeNotUndone DEF Run
<1>2. ASSUME NEW t \in Thread, NEW p \in Objective,
             (\E force \in BOOLEAN : Get(t, p, force)) \/ LlmAnalyze(t, p) \/ PushCalls(t, p)
      PROVE  Excused(o)
  BY <1>2, ReadsShow
<1>3. ASSUME NEW p \in Objective, Expire(p)
      PROVE  Excused(o)
  <2>1. Grows /\ DOMAIN cache = Objective
    BY <1>3, GrowsNot DEF Expire, dbVars, CacheIInv, Entries
  <2>2. cache' = [cache EXCEPT ![p] = [cache[p] EXCEPT !.fresh = FALSE]] /\ cache[p] \in EntrySet
    BY <1>3 DEF Expire, Fresh, CacheIInv, Entries
  <2>3. \/ cache'[o] = cache[o]
        \/ cache'[o].item = cache[o].item /\ cache[o] # None
    BY <1>3, <2>1, <2>2 DEF EntrySet, Expire, Fresh
  <2> QED BY <2>1, <2>3, StillShows
<1>4. CASE \/ \E p \in Objective : Connect(p) \/ Disconnect(p)
           \/ SaleCommits \/ OnSale \/ PushWakes \/ UNCHANGED vars
  <2>1. cache' = cache /\ recs' = recs
    BY <1>4 DEF Connect, Disconnect, SaleCommits, OnSale, PushWakes, vars, dbVars
  <2> QED BY <2>1, UntouchedShows, GrowsNot DEF CacheIInv
<1>5. CASE ClearCache
  <2>1. cache'[o] = None
    BY <1>5 DEF ClearCache
  <2> QED BY <2>1 DEF ShowsStatus
<1>6. ASSUME NEW r \in 1..Len(recs), NEW s \in Statuses \ {"pending"}, DecideRec(r, s)
      PROVE  Excused(o)
  <2>1. patching' \in Patching
    BY <1>6 DEF DecideRec, Patching, CacheIInv, Base
  <2> QED BY <2>1, NoneAssumption DEF Excused
<1> QED BY <1>1, <1>2, <1>3, <1>4, <1>5, <1>6, AnnounceNotUndone, PatchNotUndone DEF Next

\* DecisionNotUndone: the status of a decision, once in an item of the cache,
\* is taken off only by a run the decision crossed (_set_cache,
\* _merge_item_into_cache) or by _patch_cached_recommendation for another
\* recommendation of the SKU, for any objectives, threads and decisions.
THEOREM DecisionsNotUndone == Spec => DecisionNotUndone
<1>1. ASSUME CacheIInv, [Next]_vars, NEW o \in Objective, ShowsStatus(o), ~ShowsStatus(o)'
      PROVE  \/ patching' # None
             \/ patching # None /\ cache[o] # None /\ patching.rec # cache[o].item.rec
             \/ \E t \in Thread : call[t] # Idle /\ call[t].crossed /\ call'[t] # call[t]
  BY <1>1, NotUndone DEF Excused
<1>2. CacheIInv /\ [Next]_vars =>
        [\A o \in Objective :
           ShowsStatus(o) /\ ~ShowsStatus(o)' =>
             \/ patching' # None
             \/ patching # None /\ cache[o] # None /\ patching.rec # cache[o].item.rec
             \/ \E t \in Thread : call[t] # Idle /\ call[t].crossed /\ call'[t] # call[t]]_vars
  BY <1>1
<1> QED BY <1>2, CacheInvariance, PTL DEF Spec, DecisionNotUndone

=============================================================================
