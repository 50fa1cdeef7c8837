------------------------ MODULE MCInventoryPipeline ------------------------
EXTENDS InventoryPipeline
CONSTANTS k1, k2

Steady == [stock |-> 2, monthly |-> 1, lead |-> 40, spread |-> 11, moq |-> 5, cost |-> 20,
           ending |-> FALSE, source |-> "demand_sensing_db", open |-> TRUE, crowded |-> FALSE,
           flagged |-> FALSE]

MCCasesOf(k) ==
    IF k = k2 THEN {[Steady EXCEPT !.stock = 0, !.ending = TRUE]}
    ELSE {Steady, [Steady EXCEPT !.stock = 0, !.cost = 30000],
          [Steady EXCEPT !.stock = 5, !.spread = 60]}   \* ample, but late to come

MCSignalsOf(k) ==
    IF k = k2 THEN {NoSignals}
    ELSE {[discount |-> 20, holidays |-> 0, events |-> 40, rain |-> 3, offers |-> 1,
           sample |-> 60]}

MCAnswers == [action : {"ORDER", "HOLD"}, qty : {7}, escalate : {FALSE}, by : {"llm"}]

MCReadingsOf(k) ==
    IF k = k2 THEN {}
    ELSE {[uplift |-> -100, dominant |-> "events", window |-> 40, volatility |-> "other",
           confidence |-> "low"]}
=============================================================================
