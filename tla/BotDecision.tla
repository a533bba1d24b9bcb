----------------------------- MODULE BotDecision -----------------------------
(***************************************************************************)
(* decideBotAction (autogrid/manage.go): what a manage pass does with one  *)
(* grid.  An input is [direction, regime, left, facts]: facts holds the    *)
(* comparisons that come out true, among them "gain" (the PnL total is     *)
(* positive), "loss" (negative), "maxLoss" (at or below the loss limit),   *)
(* "target" and "halfTarget" (at or above the target, half of it),         *)
(* "below" and "above" (beyond the range and its buffer), "edge" (in the   *)
(* outer twelfth of the range on the regime's side).  left says whether    *)
(* the grid has range adjustments left.  The answer is the first rule that *)
(* fires.                                                                  *)
(***************************************************************************)
EXTENDS Integers, Sequences

BotDirections == {"LONG", "SHORT", "NEUTRAL"}
BotRegimes == {"RANGE", "TREND_UP", "TREND_DOWN", ""}
Closes == {"takeProfit", "stopLoss", "harvest", "rotate", "structInvalid", "rangeBreak"}
Shifts == {"shiftUp", "shiftDown"}
BotActions == Closes \cup Shifts \cup {"hold", "trail"}

True(c, fact) == fact \in c.facts
OneSided(c) == c.direction # "NEUTRAL"

Rule(fires, action) == [fires |-> fires, action |-> action]
TakeOrStop(c) == IF True(c, "gain") THEN "takeProfit" ELSE "stopLoss"

(* Levels in price: target price, card stops. *)
PriceRules(c) ==
    << Rule(True(c, "targetPrice") /\ True(c, "gain"), "takeProfit"),
       Rule(True(c, "stopPrice"), TakeOrStop(c)),
       Rule(True(c, "stopHigh"), TakeOrStop(c)) >>

(* Profit: the target, the order flow's harvest, the trailing card stop, the
   half-life rotation, the trailing take-profit of a one-sided grid. *)
ProfitRules(c) ==
    << Rule(True(c, "target"), "takeProfit"),
       Rule(True(c, "harvest") /\ OneSided(c), "harvest"),
       Rule(True(c, "halfTarget") /\ True(c, "tighter") /\ OneSided(c), "trail"),
       Rule(True(c, "aged") /\ ~True(c, "storm") /\ True(c, "nearZero"), "rotate"),
       Rule(OneSided(c) /\ True(c, "armed") /\ True(c, "breakeven"), "takeProfit"),
       Rule(OneSided(c) /\ True(c, "armed") /\ True(c, "pullback"), "takeProfit") >>

LossRules_StructureFirst(c) ==   \* a bug: the structural stop, which may be deferred, shadows the loss limit
    << Rule(True(c, "antiHunt"), "structInvalid"),
       Rule(True(c, "maxLoss"), "stopLoss") >>
LossRules(c) ==
    << Rule(True(c, "maxLoss"), "stopLoss"),
       Rule(True(c, "antiHunt"), "structInvalid") >>

Adverse(c) ==
    \/ c.direction = "NEUTRAL" /\ c.regime \in {"TREND_UP", "TREND_DOWN"}
    \/ c.direction = "LONG" /\ c.regime = "TREND_DOWN"
    \/ c.direction = "SHORT" /\ c.regime = "TREND_UP"

(* adjustDecision: a shift spends an adjustment, without one the grid closes. *)
Shift(c, action) == IF c.left THEN action ELSE "rangeBreak"

(* ShouldResetGrid comes first, so a break that is not adverse shifts; an
   adverse one closes the side that is hurt; an unknown regime counts as
   adverse, except for a neutral grid that breaks upwards. *)
BreakDown(c) ==
    IF c.regime \notin {"TREND_DOWN", ""} \/ c.direction = "SHORT"
    THEN Shift(c, "shiftDown") ELSE "rangeBreak"
BreakUp(c) ==
    CASE c.direction = "LONG" \/ c.regime \notin {"TREND_UP", ""} -> Shift(c, "shiftUp")
      [] c.direction = "SHORT" -> "rangeBreak"
      [] OTHER -> IF c.regime = "" THEN Shift(c, "shiftUp")
                  ELSE IF True(c, "gain") THEN "takeProfit" ELSE "rangeBreak"

RangeRules(c) ==
    << Rule(True(c, "noPrice"), "hold"),
       Rule(Adverse(c) /\ True(c, "loss") /\ True(c, "edge"), "rangeBreak"),
       Rule(True(c, "below"), BreakDown(c)),
       Rule(True(c, "above"), BreakUp(c)) >>

Decision(c) ==
    LET rules == PriceRules(c) \o ProfitRules(c) \o LossRules(c) \o RangeRules(c)
        firing == {i \in DOMAIN rules : rules[i].fires}
    IN  IF firing = {} THEN "hold"
        ELSE rules[CHOOSE i \in firing : \A j \in firing : i <= j].action
=============================================================================
