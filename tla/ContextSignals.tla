--------------------------- MODULE ContextSignals ---------------------------
(***************************************************************************)
(* The rules of the context agent (src/app/inventory/agents/context): what *)
(* it makes of the signals around a product when no language model answers *)
(* (_rule_based_interpret), and how it brings the answer of one back into  *)
(* range (create_interpret_node).                                          *)
(*                                                                         *)
(* A signal record holds what fetch_signals_node gathers: the discounts of *)
(* the active promotions and the known uplifts of the events, each already *)
(* added up in percent, the national holidays ahead, the days of heavy     *)
(* rain, the scraped market offers and the size of the sales history.      *)
(***************************************************************************)
EXTENDS Integers, FiniteSets

\* SIGNAL_WEIGHTS
HolidayUplift == 10
RainImpact == -3
OfferUplift == 3
MinSample == 50

\* What a failed fetch is replaced by: no signal, and no history.
NoSignals ==
    [discount |-> 0, holidays |-> 0, events |-> 0, rain |-> 0, offers |-> 0, sample |-> 0]

Signals == [discount : Nat, holidays : Nat, events : Int, rain : Nat, offers : Nat, sample : Nat]

\* A reading of the signals, and one brought into the documented ranges; "other"
\* is any other word a language model may answer.
Kinds == {"promotions", "holidays", "events", "weather", "market_offers", "none", "other"}
Levels == {"LOW", "MEDIUM", "HIGH"}
Confidence == {"high", "medium", "low", "other"}
Reading == [uplift : Int, dominant : Kinds, window : Int, volatility : Levels \cup {"other"},
            confidence : Confidence]
Context == [uplift : Int, dominant : Kinds, window : 1..14, volatility : Levels,
            confidence : Confidence]

Magnitude(n) == IF n < 0 THEN -n ELSE n
Clamp(n, low, high) == IF n < low THEN low ELSE IF n > high THEN high ELSE n

\* The uplift each kind of signal contributes, in percent.
Contribution(s) ==
    [promotions    |-> s.discount \div 2,
     holidays      |-> HolidayUplift * s.holidays,
     events        |-> s.events,
     weather       |-> RainImpact * s.rain,
     market_offers |-> OfferUplift * Clamp(s.offers, 0, 3)]

\* Each kind takes the lead over those read before it that the code compares
\* it with; the weather is never compared with the events.
Dominant(s) ==
    LET c == Contribution(s)
        Beats(kind, others) == \A o \in others : Magnitude(c[kind]) > Magnitude(c[o])
    IN  IF c.market_offers > 0
           /\ Beats("market_offers", {"promotions", "holidays", "events", "weather"})
        THEN "market_offers"
        ELSE IF s.rain > 0 /\ Beats("weather", {"promotions", "holidays"}) THEN "weather"
        ELSE IF c.events # 0 /\ Beats("events", {"promotions", "holidays"}) THEN "events"
        ELSE IF c.holidays > 0 /\ Beats("holidays", {"promotions"}) THEN "holidays"
        ELSE IF c.promotions > 0 THEN "promotions" ELSE "none"

Volatility(s) ==
    LET active == {k \in DOMAIN Contribution(s) : Contribution(s)[k] # 0}
    IN  IF s.sample = 0 \/ Cardinality(active) >= 3 THEN "HIGH"
        ELSE IF Cardinality(active) >= 2 THEN "MEDIUM" ELSE "LOW"

\* The report of the rules on the signals s.
Interpret(s) ==
    LET c == Contribution(s)
    IN  [uplift     |-> c.promotions + c.holidays + c.events + c.weather
                        + c.market_offers,
         dominant   |-> Dominant(s),
         window     |-> IF Dominant(s) = "weather" THEN Clamp(s.rain, 1, 14) ELSE 7,
         volatility |-> Volatility(s),
         confidence |-> IF s.sample >= MinSample THEN "medium" ELSE "low"]

\* A mistake: the answer of the language model is taken as it comes.
AsAnswered(answer) == answer

\* An answer of the language model with its window and volatility in range.
InRange(answer) ==
    [answer EXCEPT !.window = Clamp(@, 1, 14),
                   !.volatility = IF @ \in Levels THEN @ ELSE "LOW"]

\* What the decision agent uses when the context agent failed: no uplift.
NoContext ==
    [uplift |-> 0, dominant |-> "none", window |-> 7, volatility |-> "LOW", confidence |-> "low"]
=============================================================================
