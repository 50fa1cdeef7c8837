--------------------------- MODULE LiveStock_proofs ---------------------------
(***************************************************************************)
(* Proofs about the figures of a stock: types, the journal, the override   *)
(* and what an analysis works on, for any stores, stocks, lots, replays    *)
(* and numbers of events.                                                  *)
(***************************************************************************)
EXTENDS LiveStock, TLAPS

\* What is known of a sale and of a replay under way.
SaleInv ==
    /\ seller.pc # "idle" => seller.store \in Store
    /\ seller.pc = "write" => seller.current \in Nat
    /\ replay.store # None => replay.store \in Store /\ replay.current \in Nat

\* The row of a store nobody put an older figure into: its journal explains it,
\* the shelf a sale was found on is not empty, and the figure it is about to
\* lower is at most one above the row.
RowInv(s) ==
    s \notin touched =>
      /\ quantity[s] = journal[s]
      /\ override[s] # None => override[s] <= quantity[s] + Pending(s)
      /\ seller.store = s /\ seller.pc = "checked" => quantity[s] > 0
      /\ seller.store = s /\ seller.pc = "write" => seller.current <= quantity[s] + 1

FigureInv(s) == analysis[s].pc = "fetched" => figure[s] \in Nat

IInv ==
    /\ TypeOK
    /\ SaleInv
    /\ \A s \in Store : RowInv(s) /\ FigureInv(s)

LEMMA FloorNat == \A n \in Int : PlusFloor(n) \in Nat /\ n <= PlusFloor(n)
BY DEF PlusFloor

Sellers == [pc : {"idle", "checked", "sold", "record", "write"},
            store : Store \cup {None}, current : Figure]
Running == [pc : {"off", "loaded", "fetched"}, preloaded : Figure, due : Nat]

LEMMA Initial == Init => IInv
<1> SUFFICES ASSUME Init PROVE IInv
  OBVIOUS
<1>1. 0 .. Stock \subseteq Nat /\ Budget \in 0 .. Budget /\ Analyses \in 0 .. Analyses
  BY StockAssumption, BudgetAssumption
<1>2. quantity \in [Store -> Nat] /\ journal \in [Store -> Int]
  BY <1>1 DEF Init
<1>3. seller \in Sellers /\ NotRunning \in Running
  BY DEF Init, Idle, NotRunning, Sellers, Running, Figure
<1>4. replay \in [store : Store \cup {None}, current : Figure]
  BY DEF Init, Figure
<1>5. TypeOK
  BY <1>1, <1>2, <1>3, <1>4 DEF Init, TypeOK, Figure, Sellers, Running
<1>6. SaleInv
  BY DEF Init, SaleInv, Idle
<1>7. \A s \in Store : RowInv(s) /\ FigureInv(s)
  BY DEF Init, RowInv, FigureInv, Idle, NotRunning
<1> QED
  BY <1>5, <1>6, <1>7 DEF IInv

\* A sale is attempted.
LEMMA CheckStep == ASSUME IInv, NEW s \in Store, Check(s) PROVE IInv'
<1>1. UNCHANGED <<quantity, journal, override, announced, replay, touched, analysis, figure,
                  restocked, analyses>> /\ seller = Idle
  BY DEF Check
<1>2. budget' \in 0 .. Budget
  BY BudgetAssumption DEF Check, Spend, IInv, TypeOK
<1> DEFINE r == [Idle EXCEPT !.pc = "checked", !.store = s]
<1>3. r \in Sellers /\ r.pc = "checked" /\ r.store = s
  BY DEF Idle, Sellers, Figure
<1>4. \/ seller' = r /\ live' = live /\ quantity[s] > 0
      \/ seller' = seller /\ live' = 0
  BY DEF Check, Available
<1> HIDE DEF r
<1>5. TypeOK'
  BY <1>1, <1>2, <1>3, <1>4 DEF IInv, TypeOK, Sellers, Figure
<1>6. SaleInv'
  BY <1>1, <1>3, <1>4 DEF IInv, SaleInv
<1>7. \A t \in Store : RowInv(t)'
  BY <1>1, <1>3, <1>4 DEF IInv, RowInv, Pending, Idle
<1>8. \A t \in Store : FigureInv(t)'
  BY <1>1 DEF IInv, FigureInv
<1> QED
  BY <1>5, <1>6, <1>7, <1>8 DEF IInv

\* The trigger takes the sale off the row.
LEMMA InsertStep == ASSUME IInv, Insert PROVE IInv'
<1> DEFINE s == seller.store
<1>1. UNCHANGED <<override, live, announced, replay, touched, analysis, figure, budget, analyses>>
  BY DEF Insert
<1>2. s \in Store /\ seller.pc = "checked"
  BY DEF Insert, IInv, SaleInv
<1>3. /\ quantity' = [quantity EXCEPT ![s] = PlusFloor(quantity[s] - 1)]
      /\ journal' = [journal EXCEPT ![s] = journal[s] - 1]
      /\ restocked' = [restocked EXCEPT ![s] = 0]
      /\ seller' = [seller EXCEPT !.pc = "sold"]
  BY DEF Insert, JournalSale
<1>4. /\ quantity \in [Store -> Nat] /\ journal \in [Store -> Int] /\ restocked \in [Store -> Nat]
      /\ seller \in Sellers
  BY DEF IInv, TypeOK, Sellers
<1>5. seller' \in Sellers /\ seller'.pc = "sold" /\ seller'.store = s
  BY <1>3, <1>4 DEF Sellers
<1>6. PlusFloor(quantity[s] - 1) \in Nat
  BY <1>2, <1>4, FloorNat
<1>7. quantity' \in [Store -> Nat] /\ journal' \in [Store -> Int] /\ restocked' \in [Store -> Nat]
  BY <1>2, <1>3, <1>4, <1>6
<1>8. TypeOK'
  BY <1>1, <1>5, <1>7 DEF IInv, TypeOK, Sellers
<1>9. SaleInv'
  BY <1>1, <1>2, <1>5 DEF IInv, SaleInv
<1>10. ASSUME NEW t \in Store PROVE RowInv(t)'
  <2>1. CASE t # s
    <3>1. quantity'[t] = quantity[t] /\ journal'[t] = journal[t]
      BY <1>3, <1>4, <2>1
    <3>2. Pending(t) = 0 /\ Pending(t)' = 0
      BY <1>5, <2>1 DEF Pending
    <3> HIDE DEF s
    <3> QED  BY <1>1, <1>5, <2>1, <3>1, <3>2 DEF IInv, RowInv
  <2>2. CASE t = s
    <3>1. /\ quantity'[t] = PlusFloor(quantity[t] - 1) /\ journal'[t] = journal[t] - 1
          /\ quantity[t] \in Nat /\ journal[t] \in Int
      BY <1>2, <1>3, <1>4, <2>2
    <3>2. Pending(t) = 0 /\ Pending(t)' = 1
      BY <1>2, <1>5, <2>2 DEF Pending
    <3>3. t \notin touched => /\ quantity[t] = journal[t] /\ quantity[t] > 0
                              /\ override[t] # None => override[t] <= quantity[t]
      BY <1>2, <2>2, <3>1, <3>2 DEF IInv, RowInv
    <3>4. override[t] # None => override[t] \in Nat
      BY DEF IInv, TypeOK, Figure
    <3> QED
      BY <1>1, <1>5, <2>2, <3>1, <3>2, <3>3, <3>4 DEF RowInv, PlusFloor
  <2> QED  BY <2>1, <2>2
<1>11. \A t \in Store : FigureInv(t)'
  BY <1>1 DEF IInv, FigureInv
<1> QED
  BY <1>8, <1>9, <1>10, <1>11 DEF IInv

\* The sale is announced.
LEMMA OnSaleStep == ASSUME IInv, NEW rowRead \in BOOLEAN, OnSale(rowRead) PROVE IInv'
<1> DEFINE s == seller.store
           current == IF live = None THEN FirstLive(s, rowRead) ELSE live
<1>1. /\ UNCHANGED <<quantity, journal, override, replay, touched, analysis, figure,
                     restocked, analyses>>
      /\ s \in Store /\ seller.pc = "sold"
      /\ live' = PlusFloor(current - 1) /\ announced' = [store |-> s, stock |-> live']
      /\ seller' = [seller EXCEPT !.pc = "record"]
  BY DEF OnSale, IInv, SaleInv
<1>2. budget' \in 0 .. Budget
  BY BudgetAssumption DEF OnSale, Reading, Spend, IInv, TypeOK
<1>3. current \in Nat
  BY <1>1 DEF IInv, TypeOK, Figure, FirstLive
<1>4. live' \in Nat
  <2> HIDE DEF current
  <2> QED  BY <1>1, <1>3, FloorNat
<1>5. announced' \in [store : Store, stock : Nat]
  BY <1>1, <1>4
<1>6. seller \in Sellers
  BY DEF IInv, TypeOK, Sellers
<1>7. seller' \in Sellers /\ seller'.pc = "record" /\ seller'.store = s
  BY <1>1, <1>6 DEF Sellers
<1> HIDE DEF current
<1>8. TypeOK'
  BY <1>1, <1>2, <1>4, <1>5, <1>7 DEF IInv, TypeOK, Sellers, Figure
<1>9. SaleInv'
  BY <1>1, <1>7 DEF IInv, SaleInv
<1>10. ASSUME NEW t \in Store PROVE RowInv(t)'
  <2>1. Pending(t)' = Pending(t)
    BY <1>1, <1>7 DEF Pending
  <2> QED  BY <1>1, <1>7, <2>1 DEF IInv, RowInv
<1>11. \A t \in Store : FigureInv(t)'
  BY <1>1 DEF IInv, FigureInv
<1> QED
  BY <1>8, <1>9, <1>10, <1>11 DEF IInv

\* record_sale reads the override or the row, then lowers what it read.
LEMMA RecordStep ==
    ASSUME IInv, RecordWrite \/ \E r \in BOOLEAN : RecordRead(r)
    PROVE  IInv'
<1> DEFINE s == seller.store
<1>0. seller \in Sellers /\ override \in [Store -> Figure] /\ quantity \in [Store -> Nat]
  BY DEF IInv, TypeOK, Sellers
<1>1. CASE \E r \in BOOLEAN : RecordRead(r)
  <2>1. PICK r \in BOOLEAN : RecordRead(r)
    BY <1>1
  <2> DEFINE c == IF override[s] # None THEN override[s] ELSE IF r THEN quantity[s] ELSE 0
  <2>2. /\ UNCHANGED <<quantity, journal, override, live, announced, replay, touched, analysis,
                       figure, restocked, analyses>>
        /\ s \in Store /\ seller.pc = "record"
        /\ seller' = [seller EXCEPT !.pc = "write", !.current = c]
    BY <2>1 DEF RecordRead, IInv, SaleInv
  <2>3. budget' \in 0 .. Budget
    <3>1. Reading(r)
      BY <2>1 DEF RecordRead
    <3> QED  BY <3>1, BudgetAssumption DEF Reading, Spend, IInv, TypeOK
  <2>4. c \in Nat
    BY <1>0, <2>2 DEF Figure
  <2>5. s \notin touched => c <= quantity[s] + 1
    <3>1. Pending(s) = 1
      BY <2>2 DEF Pending
    <3>2. quantity[s] \in Nat
      BY <1>0, <2>2
    <3> QED  BY <2>2, <3>1, <3>2 DEF IInv, RowInv
  <2> HIDE DEF c
  <2>6. seller' \in Sellers /\ seller'.pc = "write" /\ seller'.store = s /\ seller'.current = c
    BY <1>0, <2>2, <2>4 DEF Sellers, Figure
  <2>7. TypeOK'
    BY <2>2, <2>3, <2>6 DEF IInv, TypeOK, Sellers
  <2>8. SaleInv'
    BY <2>2, <2>4, <2>6 DEF IInv, SaleInv
  <2>9. ASSUME NEW t \in Store PROVE RowInv(t)'
    <3>1. Pending(t)' = Pending(t)
      BY <2>2, <2>6 DEF Pending
    <3> QED  BY <2>2, <2>5, <2>6, <3>1 DEF IInv, RowInv
  <2>10. \A t \in Store : FigureInv(t)'
    BY <2>2 DEF IInv, FigureInv
  <2> QED  BY <2>7, <2>8, <2>9, <2>10 DEF IInv
<1>2. CASE RecordWrite
  <2> DEFINE n == Lowered(seller.current)
  <2>1. /\ UNCHANGED <<quantity, journal, live, announced, replay, touched, analysis, figure,
                       restocked, budget, analyses>>
        /\ s \in Store /\ seller.pc = "write" /\ seller.current \in Nat
        /\ override' = [override EXCEPT ![s] = n] /\ seller' = Idle
    BY <1>2 DEF RecordWrite, IInv, SaleInv
  <2>2. n \in Nat /\ n = IF seller.current > 0 THEN seller.current - 1 ELSE 0
    BY <2>1 DEF Lowered, PlusFloor
  <2>3. s \notin touched => n <= quantity[s]
    <3>1. quantity[s] \in Nat
      BY <1>0, <2>1
    <3> QED  BY <2>1, <2>2, <3>1 DEF IInv, RowInv
  <2> HIDE DEF n
  <2>4. override' \in [Store -> Figure]
    BY <1>0, <2>1, <2>2 DEF Figure
  <2>5. seller' \in Sellers /\ seller'.pc = "idle"
    BY <2>1 DEF Idle, Sellers, Figure
  <2>6. TypeOK'
    BY <2>1, <2>4, <2>5 DEF IInv, TypeOK, Sellers
  <2>7. SaleInv'
    BY <2>1, <2>5 DEF IInv, SaleInv
  <2>8. ASSUME NEW t \in Store PROVE RowInv(t)'
    <3>1. Pending(t)' = 0
      BY <2>5 DEF Pending
    <3>2. quantity'[t] = quantity[t] /\ quantity[t] \in Nat
      BY <1>0, <2>1
    <3>3. CASE t = s
      <4>1. override'[t] = n
        BY <1>0, <2>1, <3>3
      <4> QED  BY <2>1, <2>2, <2>3, <2>5, <3>1, <3>2, <3>3, <4>1 DEF IInv, RowInv
    <3>4. CASE t # s
      <4>1. override'[t] = override[t] /\ Pending(t) = 0
        BY <1>0, <2>1, <3>4 DEF Pending
      <4> QED  BY <2>1, <2>5, <3>1, <3>2, <4>1 DEF IInv, RowInv
    <3> QED  BY <3>3, <3>4
  <2>9. \A t \in Store : FigureInv(t)'
    BY <2>1 DEF IInv, FigureInv
  <2> QED  BY <2>6, <2>7, <2>8, <2>9 DEF IInv
<1> QED
  BY <1>1, <1>2

\* A reception.
LEMMA ReceiveStep == ASSUME IInv, NEW s \in Store, Receive(s) PROVE IInv'
<1>1. /\ UNCHANGED <<override, live, announced, seller, replay, touched, analysis, figure,
                     analyses>>
      /\ quantity' = [quantity EXCEPT ![s] = quantity[s] + Lot]
      /\ journal' = [journal EXCEPT ![s] = journal[s] + Lot]
      /\ restocked' = [restocked EXCEPT ![s] = restocked[s] + Lot]
  BY DEF Receive
<1>2. budget' \in 0 .. Budget
  BY BudgetAssumption DEF Receive, Spend, IInv, TypeOK
<1>3. /\ quantity \in [Store -> Nat] /\ journal \in [Store -> Int] /\ restocked \in [Store -> Nat]
      /\ Lot \in Nat
  BY StockAssumption DEF IInv, TypeOK
<1>4. quantity' \in [Store -> Nat] /\ journal' \in [Store -> Int] /\ restocked' \in [Store -> Nat]
  BY <1>1, <1>3
<1>5. TypeOK'
  BY <1>1, <1>2, <1>4 DEF IInv, TypeOK
<1>6. SaleInv'
  BY <1>1 DEF IInv, SaleInv
<1>7. ASSUME NEW t \in Store PROVE RowInv(t)'
  <2>1. Pending(t)' = Pending(t) /\ Pending(t) \in Nat
    BY <1>1 DEF Pending
  <2>2. \/ quantity'[t] = quantity[t] /\ journal'[t] = journal[t]
        \/ quantity'[t] = quantity[t] + Lot /\ journal'[t] = journal[t] + Lot
    BY <1>1, <1>3
  <2>3. quantity[t] \in Nat /\ journal[t] \in Int
    BY <1>3
  <2>4. override[t] \in Figure /\ (seller.pc = "write" => seller.current \in Nat)
    BY DEF IInv, TypeOK, SaleInv
  <2> QED  BY <1>1, <1>3, <2>1, <2>2, <2>3, <2>4 DEF IInv, RowInv, Figure
<1>8. \A t \in Store : FigureInv(t)'
  BY <1>1 DEF IInv, FigureInv
<1> QED
  BY <1>5, <1>6, <1>7, <1>8 DEF IInv

\* The replay of past sales reads the row, and later writes it.
LEMMA ReplayStep ==
    ASSUME IInv, ReplayWrite \/ \E s \in Store : ReplayRead(s)
    PROVE  IInv'
<1>0. quantity \in [Store -> Nat]
  BY DEF IInv, TypeOK
<1>1. CASE \E s \in Store : ReplayRead(s)
  <2>1. PICK s \in Store : ReplayRead(s)
    BY <1>1
  <2>2. /\ UNCHANGED <<quantity, journal, override, live, announced, seller, touched, analysis,
                       figure, restocked, analyses>>
        /\ replay' = [store |-> s, current |-> quantity[s]]
    BY <2>1 DEF ReplayRead
  <2>3. budget' \in 0 .. Budget
    BY <2>1, BudgetAssumption DEF ReplayRead, Spend, IInv, TypeOK
  <2>4. /\ replay' \in [store : Store \cup {None}, current : Figure]
        /\ replay'.store \in Store /\ replay'.current \in Nat
    BY <1>0, <2>2 DEF Figure
  <2>5. TypeOK'
    BY <2>2, <2>3, <2>4 DEF IInv, TypeOK
  <2>6. SaleInv'
    BY <2>2, <2>4 DEF IInv, SaleInv
  <2>7. \A t \in Store : RowInv(t)' /\ FigureInv(t)'
    BY <2>2 DEF IInv, RowInv, FigureInv, Pending
  <2> QED  BY <2>5, <2>6, <2>7 DEF IInv
<1>2. CASE ReplayWrite
  <2> DEFINE s == replay.store
             n == PlusFloor(replay.current - Replayed)
  <2>1. /\ UNCHANGED <<journal, override, live, announced, seller, analysis, figure, restocked,
                       budget, analyses>>
        /\ quantity' = [quantity EXCEPT ![s] = n] /\ touched' = touched \cup {s}
        /\ replay' = [store |-> None, current |-> None]
        /\ s \in Store /\ replay.current \in Nat
    BY <1>2 DEF ReplayWrite, IInv, SaleInv
  <2>2. n \in Nat
    BY <2>1, StockAssumption, FloorNat
  <2> HIDE DEF n
  <2>3. quantity' \in [Store -> Nat]
    BY <1>0, <2>1, <2>2
  <2>4. replay' \in [store : Store \cup {None}, current : Figure] /\ replay'.store = None
    BY <2>1 DEF Figure
  <2>5. TypeOK'
    BY <2>1, <2>3, <2>4 DEF IInv, TypeOK
  <2>6. SaleInv'
    BY <2>1, <2>4 DEF IInv, SaleInv
  <2>7. ASSUME NEW t \in Store PROVE RowInv(t)'
    <3>1. Pending(t)' = Pending(t)
      BY <2>1 DEF Pending
    <3>2. t \notin touched' => t \notin touched /\ quantity'[t] = quantity[t]
      BY <1>0, <2>1
    <3> QED  BY <2>1, <3>1, <3>2 DEF IInv, RowInv
  <2>8. \A t \in Store : FigureInv(t)'
    BY <2>1 DEF IInv, FigureInv
  <2> QED  BY <2>5, <2>6, <2>7, <2>8 DEF IInv
<1> QED
  BY <1>1, <1>2

LEMMA InvalidateStep == ASSUME IInv, Invalidate PROVE IInv'
<1>1. /\ UNCHANGED <<quantity, journal, live, announced, seller, replay, touched, analysis,
                     figure, restocked, analyses>>
      /\ override' = [s \in Store |-> None]
  BY DEF Invalidate
<1>2. budget' \in 0 .. Budget
  BY BudgetAssumption DEF Invalidate, Spend, IInv, TypeOK
<1>3. TypeOK'
  BY <1>1, <1>2 DEF IInv, TypeOK, Figure
<1>4. SaleInv'
  BY <1>1 DEF IInv, SaleInv
<1>5. \A t \in Store : RowInv(t)' /\ FigureInv(t)'
  BY <1>1 DEF IInv, RowInv, FigureInv, Pending
<1> QED
  BY <1>3, <1>4, <1>5 DEF IInv

\* What an analysis that found an override works on.
LEMMA FetchedIsThere ==
    ASSUME IInv, NEW s \in Store, Fetch(s)
    PROVE  /\ figure' = [figure EXCEPT ![s] = StockRead(s)] /\ StockRead(s) \in Nat
           /\ s \notin touched /\ override[s] # None => StockRead(s) <= quantity[s] + Pending(s)
<1>1. figure' = [figure EXCEPT ![s] = StockRead(s)]
  BY DEF Fetch
<1>2. analysis[s] \in Running /\ override[s] \in Figure /\ quantity[s] \in Nat
  BY DEF IInv, TypeOK, Running
<1>3. analysis[s].preloaded \in Figure
  BY <1>2 DEF Running
<1>4. StockRead(s) \in Nat
  BY <1>2, <1>3 DEF StockRead, Figure
<1>5. Pending(s) \in Nat
  BY DEF Pending
<1>6. s \notin touched /\ override[s] # None => override[s] <= quantity[s] + Pending(s)
  BY DEF IInv, RowInv
<1> QED
  BY <1>1, <1>2, <1>4, <1>5, <1>6 DEF StockRead

\* The steps of an analysis. What it writes back is what the row had, or the
\* store is touched.
LEMMA AnalysisStep ==
    ASSUME IInv, NEW s \in Store,
           \/ \E r \in BOOLEAN : Preload(s, r)
           \/ Fetch(s) \/ Persist(s) \/ AnalysisFails(s)
    PROVE  IInv'
<1>0. /\ quantity \in [Store -> Nat] /\ figure \in [Store -> Figure]
      /\ analysis \in [Store -> Running] /\ restocked \in [Store -> Nat]
  BY DEF IInv, TypeOK, Running
<1>off. NotRunning \in Running /\ NotRunning.pc = "off"
  BY DEF NotRunning, Running, Figure
<1>1. CASE \E r \in BOOLEAN : Preload(s, r)
  <2>1. PICK r \in BOOLEAN : Preload(s, r)
    BY <1>1
  <2> DEFINE a == [pc |-> "loaded", preloaded |-> IF r THEN quantity[s] ELSE None,
                   due |-> restocked[s]]
  <2>2. /\ UNCHANGED <<quantity, journal, override, live, announced, seller, replay, touched,
                       figure, restocked, budget>>
        /\ analysis' = [analysis EXCEPT ![s] = a]
    BY <2>1 DEF Preload
  <2>3. analyses' \in 0 .. Analyses
    BY <2>1, BudgetAssumption DEF Preload, IInv, TypeOK
  <2>4. a \in Running /\ a.pc = "loaded"
    BY <1>0 DEF Running, Figure
  <2> HIDE DEF a
  <2>5. analysis' \in [Store -> Running]
    BY <1>0, <2>2, <2>4
  <2>6. TypeOK'
    BY <2>2, <2>3, <2>5 DEF IInv, TypeOK, Running
  <2>7. SaleInv' /\ \A t \in Store : RowInv(t)'
    BY <2>2 DEF IInv, SaleInv, RowInv, Pending
  <2>8. \A t \in Store : FigureInv(t)'
    BY <1>0, <2>2, <2>4 DEF IInv, FigureInv
  <2> QED  BY <2>6, <2>7, <2>8 DEF IInv
<1>2. CASE Fetch(s)
  <2> DEFINE a == [analysis[s] EXCEPT !.pc = "fetched"]
  <2>1. /\ UNCHANGED <<quantity, journal, override, live, announced, seller, replay, touched,
                       restocked, budget, analyses>>
        /\ analysis' = [analysis EXCEPT ![s] = a]
    BY <1>2 DEF Fetch
  <2>2. a \in Running /\ a.pc = "fetched"
    BY <1>0 DEF Running
  <2> HIDE DEF a
  <2>3. analysis' \in [Store -> Running]
    BY <1>0, <2>1, <2>2
  <2>4. figure' = [figure EXCEPT ![s] = StockRead(s)] /\ StockRead(s) \in Nat
    BY <1>2, FetchedIsThere
  <2>5. figure' \in [Store -> Figure]
    BY <1>0, <2>4 DEF Figure
  <2>6. TypeOK'
    BY <2>1, <2>3, <2>5 DEF IInv, TypeOK, Running
  <2>7. SaleInv' /\ \A t \in Store : RowInv(t)'
    BY <2>1 DEF IInv, SaleInv, RowInv, Pending
  <2>8. \A t \in Store : FigureInv(t)'
    BY <1>0, <2>1, <2>4 DEF IInv, FigureInv
  <2> QED  BY <2>6, <2>7, <2>8 DEF IInv
<1>3. CASE Persist(s)
  <2>1. /\ UNCHANGED <<journal, override, live, announced, seller, replay, figure, restocked,
                       budget, analyses>>
        /\ quantity' = [quantity EXCEPT ![s] = figure[s]]
        /\ touched' = IF figure[s] = quantity[s] THEN touched ELSE touched \cup {s}
        /\ analysis' = [analysis EXCEPT ![s] = NotRunning]
    BY <1>3 DEF Persist
  <2>2. figure[s] \in Nat
    BY <1>3 DEF Persist, IInv, FigureInv
  <2>3. quantity' \in [Store -> Nat] /\ analysis' \in [Store -> Running]
    BY <1>0, <1>off, <2>1, <2>2
  <2>4. TypeOK'
    BY <2>1, <2>3 DEF IInv, TypeOK, Running
  <2>5. SaleInv'
    BY <2>1 DEF IInv, SaleInv
  <2>6. ASSUME NEW t \in Store PROVE RowInv(t)'
    <3>1. Pending(t)' = Pending(t)
      BY <2>1 DEF Pending
    <3>2. t \notin touched' => t \notin touched /\ quantity'[t] = quantity[t]
      BY <1>0, <2>1
    <3> QED  BY <2>1, <3>1, <3>2 DEF IInv, RowInv
  <2>7. \A t \in Store : FigureInv(t)'
    BY <1>0, <1>off, <2>1 DEF IInv, FigureInv
  <2> QED  BY <2>4, <2>5, <2>6, <2>7 DEF IInv
<1>4. CASE AnalysisFails(s)
  <2>1. /\ UNCHANGED <<quantity, journal, override, live, announced, seller, replay, touched,
                       figure, restocked, budget, analyses>>
        /\ analysis' = [analysis EXCEPT ![s] = NotRunning]
    BY <1>4 DEF AnalysisFails
  <2>2. analysis' \in [Store -> Running]
    BY <1>0, <1>off, <2>1
  <2>3. TypeOK'
    BY <2>1, <2>2 DEF IInv, TypeOK, Running
  <2>4. SaleInv' /\ \A t \in Store : RowInv(t)'
    BY <2>1 DEF IInv, SaleInv, RowInv, Pending
  <2>5. \A t \in Store : FigureInv(t)'
    BY <1>0, <1>off, <2>1 DEF IInv, FigureInv
  <2> QED  BY <2>3, <2>4, <2>5 DEF IInv
<1> QED
  BY <1>1, <1>2, <1>3, <1>4

LEMMA Inductive == IInv /\ [Next]_vars => IInv'
<1> SUFFICES ASSUME IInv, [Next]_vars PROVE IInv'
  OBVIOUS
<1>1. CASE \E s \in Store : Check(s) \/ Receive(s) \/ ReplayRead(s)
  BY <1>1, CheckStep, ReceiveStep, ReplayStep
<1>2. CASE \E s \in Store : Fetch(s) \/ Persist(s) \/ AnalysisFails(s)
  BY <1>2, AnalysisStep
<1>3. CASE \E r \in BOOLEAN : OnSale(r) \/ RecordRead(r) \/ \E s \in Store : Preload(s, r)
  BY <1>3, OnSaleStep, RecordStep, AnalysisStep
<1>4. CASE Insert \/ RecordWrite \/ ReplayWrite \/ Invalidate
  BY <1>4, InsertStep, RecordStep, ReplayStep, InvalidateStep
<1>5. CASE UNCHANGED vars
  BY <1>5 DEF vars, IInv, TypeOK, SaleInv, RowInv, FigureInv, Pending
<1> QED
  BY <1>1, <1>2, <1>3, <1>4, <1>5 DEF Next

-----------------------------------------------------------------------------
(* The theorems.                                                           *)

\* The inductive invariant of the three figures (LiveStock.tla).
THEOREM Invariance == Spec => []IInv
<1> QED
  BY Initial, Inductive, PTL DEF Spec

\* Types: among others, no stock is ever negative, and what an analysis writes
\* back is a number.
THEOREM TypeCorrect == Spec => []TypeOK
<1>1. IInv => TypeOK
  BY DEF IInv
<1> QED
  BY <1>1, Invariance, PTL

\* The override of a store never shows more than its row and the sale being
\* recorded (record_sale, get_stock_override).
THEOREM NeverAbove == Spec => []NeverOverstated
<1>1. IInv => NeverOverstated
  BY DEF IInv, RowInv, NeverOverstated
<1> QED
  BY <1>1, Invariance, PTL

\* Every row is explained by its journal until an older figure is put into it
\* (trg_sync_stock_on_sale, update_status, _persist_result).
THEOREM JournalAlwaysExplains == Spec => []JournalExplainsStock
<1>1. IInv => JournalExplainsStock
  BY DEF IInv, RowInv, JournalExplainsStock
<1> QED
  BY <1>1, Invariance, PTL

\* An analysis that found an override has seen every sale but the one being
\* recorded (fetch_node, compute_node).
THEOREM SalesAlwaysSeen == Spec => SalesAreSeen
<1> DEFINE Seen == \A s \in Store \ touched :
                      Fetch(s) /\ override[s] # None => figure'[s] <= quantity[s] + Pending(s)
<1>1. IInv => Seen
  <2> SUFFICES ASSUME IInv, NEW s \in Store \ touched, Fetch(s), override[s] # None
               PROVE  figure'[s] <= quantity[s] + Pending(s)
    OBVIOUS
  <2>1. figure \in [Store -> Figure]
    BY DEF IInv, TypeOK
  <2> QED  BY <2>1, FetchedIsThere
<1>2. Seen => [Seen]_vars
  OBVIOUS
<1> QED
  BY <1>1, Invariance, PTL DEF SalesAreSeen
=============================================================================
