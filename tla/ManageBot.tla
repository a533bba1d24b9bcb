------------------------------ MODULE ManageBot ------------------------------
(***************************************************************************)
(* The management of one RUNNING grid by reconcileAndManage: the           *)
(* supervision floor under re-based entry prices, the decision, the wick   *)
(* shield, the close intent, the range shift and the trailing card stop.   *)
(* A pass reads the grid and a quote and carries its decision out; between *)
(* passes the price moves, the position is closed and reopened and other   *)
(* writers shift the range.  A write or a call of a pass may fail in the   *)
(* ways Faults names.  What becomes of the grid once its close is          *)
(* requested is GridLifecycle.                                             *)
(*                                                                         *)
(* Prices are small integers and a position is one unit, so that the PnL   *)
(* is a difference of prices; a range is its middle, it is broken two      *)
(* units away; the card stop trails one unit behind the price.             *)
(***************************************************************************)
EXTENDS BotDecision

CONSTANTS
    PriceTop,       \* prices 1 .. PriceTop
    MaxLoss,        \* max_loss_usdt
    Target,         \* pnl_target_usdt
    MaxAdjustments, \* max_adjustments_per_bot
    Grace,          \* wick_grace_sec
    ReArm,          \* wickShieldReArmCooldown
    ManageFaults,   \* subset of FaultKinds
    ClockTop        \* bound: ticks of the clock

FaultKinds == {"intent_write", "cancel_lost", "arm_write", "range_write",
               "shift_lost", "card_unconfirmed", "card_write"}
ASSUME ManageBotAssumption ==
    /\ PriceTop \in Nat \ {0} /\ MaxLoss \in Nat \ {0} /\ Target \in Nat \ {0}
    /\ MaxAdjustments \in Nat /\ ClockTop \in Nat
    /\ Grace \in Nat /\ ReArm \in Nat /\ Grace < ReArm
    /\ ManageFaults \subseteq FaultKinds

VARIABLES
    grid,       \* the exchange: [direction, pos, entry, middle, card]
    cost,       \* the entry price before any re-basing
    quote,      \* the price, 0 when the feed is blind
    now,
    row,        \* grid_bots
    did         \* what the last pass found and did, and the shield's last grace

manageVars == <<grid, cost, quote, now, row, did>>

Never == 0 - ReArm
Prices == 1 .. PriceTop
StartPrice == (PriceTop + 1) \div 2
LongSide == grid.direction # "SHORT"
NoStop == IF LongSide THEN 0 ELSE PriceTop + 1
Fails(kind) == {FALSE} \cup {f \in {TRUE} : kind \in ManageFaults}

Nothing == [decision |-> "hold", truth |-> 0, judged |-> FALSE, sent |-> FALSE,
            held |-> FALSE, grace |-> Never, lastHold |-> Never]

--------------------------------------------------------------------------
(* Supervision floor: the floating PnL against the entry the exchange shows
   plus the losses that re-basings of that entry took out of it.  Without a
   price the floating PnL comes from the exchange's total, when it reports a
   plausible negative one. *)
NewPool ==
    IF grid.pos = 0 THEN 0
    ELSE LET lost == IF row.mark = 0 THEN 0 ELSE grid.pos * (grid.entry - row.mark)
         IN  row.pool + (IF lost < 0 THEN lost ELSE 0)
NewMark == IF grid.pos = 0 THEN 0 ELSE grid.entry

Floating(price) == grid.pos * (price - grid.entry)
Lower(a, b) == IF a < b THEN a ELSE b
FloorOf(floating) == IF grid.pos = 0 THEN 0 ELSE Lower(floating, floating + NewPool)

(* Without a quote mark is the price the exchange values the position at. *)
BlindFloor(mark, reported) ==
    FloorOf(IF reported /\ Floating(mark) < 0 THEN Floating(mark) ELSE 0)

(* The facts of decideBotAction that the numbers decide; extra is one the
   model leaves open. *)
FreeFacts == {"antiHunt", "harvest", "aged", "armed", "liquidation", "none"}
BotFacts(total, extra) ==
    LET is(fact, holds) == IF holds THEN {fact} ELSE {}
        off == quote - row.middle
        trailed == IF LongSide THEN quote - 1 ELSE quote + 1
    IN  is("gain", total > 0) \cup is("loss", total < 0)
        \cup is("maxLoss", total <= -MaxLoss)
        \cup is("target", total >= Target) \cup is("halfTarget", 2 * total >= Target)
        \cup is("nearZero", total = 0) \cup is("breakeven", total <= 0)
        \cup is("pullback", total < Target) \cup {extra}
        \cup (IF quote = 0 THEN {"noPrice"}
              ELSE is("stopPrice", IF LongSide THEN quote <= row.stop ELSE quote >= row.stop)
                   \cup is("tighter", IF LongSide THEN trailed > row.stop ELSE trailed < row.stop)
                   \cup is("edge", off \in {-1, 1}) \cup is("below", off <= -2)
                   \cup is("above", off >= 2))
BotInput(total, extra, regime) ==
    [direction |-> grid.direction, regime |-> regime,
     left |-> row.shifts < MaxAdjustments, facts |-> BotFacts(total, extra)]

(* The regime is read only when the price has left the range, or near the
   edge for a neutral grid; the liquidation guard only overrules a hold. *)
RegimesRead ==
    IF \/ quote - row.middle \notin -1 .. 1
       \/ quote # row.middle /\ grid.direction = "NEUTRAL"
    THEN BotRegimes ELSE {""}
Verdicts(total) ==
    LET d(extra, regime) == Decision(BotInput(total, extra, regime))
    IN  {IF d(extra, regime) = "hold" /\ extra = "liquidation" THEN "stopLoss" ELSE d(extra, regime) :
            extra \in FreeFacts, regime \in RegimesRead}

--------------------------------------------------------------------------
(* evaluateWickShield; body says that a closed candle is beyond the extreme,
   wick that the last one left a rejection wick behind the price. *)
Armed == row.shieldAt # Never
Beyond(extreme) == IF grid.pos < 0 THEN quote > extreme ELSE quote < extreme
ShieldHolds_ReArms(body, wick) ==   \* a bug: no cool-down after a grace
    grid.pos # 0 /\ IF Armed THEN ~Beyond(row.extreme) /\ ~body /\ now - row.shieldAt < Grace
                    ELSE wick
ShieldHolds(body, wick) ==
    /\ grid.pos # 0
    /\ IF Armed THEN ~Beyond(row.extreme) /\ ~body /\ now - row.shieldAt < Grace
       ELSE now - row.clearedAt >= ReArm /\ wick

Clear(r) == IF r.shieldAt = Never THEN r
            ELSE [r EXCEPT !.shieldAt = Never, !.extreme = 0, !.clearedAt = now]

--------------------------------------------------------------------------
(* What a pass does with its verdict; r is the row after the write-back of
   the book, d the record of the pass. *)
CarryClose(r, d) ==
    \E noIntent \in Fails("intent_write"), lost \in Fails("cancel_lost") :
        /\ row' = [r EXCEPT !.status = IF noIntent /\ lost THEN @ ELSE "STOP_REQUESTED"]
        /\ did' = [d EXCEPT !.sent = TRUE]
        /\ UNCHANGED grid

Hold(r, d) ==
    \E unwritten \in Fails("arm_write") :
        /\ row' = IF Armed \/ unwritten THEN r
                  ELSE [r EXCEPT !.shieldAt = now, !.extreme = quote - grid.pos]
        /\ did' = [d EXCEPT !.held = TRUE, !.lastHold = now,
                            !.grace = IF now - @ < Grace THEN @ ELSE now]
        /\ UNCHANGED grid

CarryStructural(r, d) ==
    \E body \in BOOLEAN, wick \in BOOLEAN :
        IF ShieldHolds(body, wick) THEN Hold(r, d) ELSE CarryClose(Clear(r), d)

(* The shift may be vetoed by the order flow or refused by the check of a
   losing grid; the exchange moves the range and may re-base the entry. *)
CarryShift(r, d) ==
    /\ did' = d
    /\ \/ row' = Clear(r) /\ UNCHANGED grid
       \/ \E entry \in {grid.entry, quote}, lost \in Fails("shift_lost"),
             unwritten \in Fails("range_write") :
            /\ grid' = [grid EXCEPT !.middle = quote, !.entry = IF grid.pos = 0 THEN @ ELSE entry]
            /\ row' = IF lost \/ unwritten THEN Clear(r)
                      ELSE [Clear(r) EXCEPT !.middle = quote, !.shifts = @ + 1]

(* The trailing stop goes to the exchange's card, is confirmed by a read and
   only then becomes the row's stop; a failure backs off for an hour. *)
CarryTrail(r, d) ==
    LET stop == IF LongSide THEN quote - 1 ELSE quote + 1
    IN  /\ did' = d
        /\ \/ row' = [r EXCEPT !.backoff = TRUE] /\ UNCHANGED grid
           \/ row.backoff /\ row' = r /\ UNCHANGED grid
           \/ ~row.backoff /\ \E unconfirmed \in Fails("card_unconfirmed"),
                                 unwritten \in Fails("card_write") :
                /\ grid' = [grid EXCEPT !.card = stop]
                /\ row' = IF unconfirmed THEN [r EXCEPT !.backoff = TRUE]
                          ELSE IF unwritten THEN r ELSE [r EXCEPT !.stop = stop, !.backoff = FALSE]

CarryOut(verdict, r, d) ==
    CASE verdict \in {"structInvalid", "rangeBreak"} -> CarryStructural(r, d)
      [] verdict \in Closes \ {"structInvalid", "rangeBreak"} -> CarryClose(r, d)
      [] verdict \in Shifts -> CarryShift(r, d)
      [] verdict = "trail" -> CarryTrail(r, d)
      [] OTHER -> row' = Clear(r) /\ did' = d /\ UNCHANGED grid

Booked == [row EXCEPT !.mark = NewMark, !.pool = NewPool]
Between == [Nothing EXCEPT !.grace = did.grace, !.lastHold = did.lastHold]
Found(price, verdict, judged) ==
    [Between EXCEPT !.decision = verdict, !.truth = grid.pos * (price - cost), !.judged = judged]

(* A pass with a quote. *)
SightedPass ==
    /\ row.status = "RUNNING" /\ quote # 0
    /\ LET floor == FloorOf(Floating(quote))
       IN  \E verdict \in Verdicts(floor) :
             CarryOut(verdict, Booked, Found(quote, verdict, TRUE))
    /\ UNCHANGED <<cost, quote, now>>

(* blindStopsEvaluate: without a quote only the PnL rules may close, and a
   failed intent ends the pass before the cancel. *)
BlindPass ==
    /\ row.status = "RUNNING" /\ quote = 0
    /\ \E mark \in Prices, reported \in BOOLEAN :
         LET floor == BlindFloor(mark, reported)
             verdict == Decision(BotInput(floor, "none", ""))
             closes == verdict \in {"stopLoss", "takeProfit"}
         IN  \E noIntent \in Fails("intent_write") :
               /\ row' = [Booked EXCEPT
                            !.status = IF closes /\ ~noIntent THEN "STOP_REQUESTED" ELSE @]
               /\ did' = [Found(mark, verdict, reported /\ ~noIntent)
                            EXCEPT !.sent = closes /\ ~noIntent]
    /\ UNCHANGED <<grid, cost, quote, now>>

--------------------------------------------------------------------------
ManageInit ==
    /\ \E direction \in BotDirections, pos \in {-1, 1} :
         /\ (direction = "LONG" => pos = 1) /\ (direction = "SHORT" => pos = -1)
         /\ LET at == StartPrice
                none == IF direction # "SHORT" THEN 0 ELSE PriceTop + 1
            IN  /\ grid = [direction |-> direction, pos |-> pos, entry |-> at,
                           middle |-> at, card |-> none]
                /\ cost = at /\ quote = at
                /\ row = [status |-> "RUNNING", middle |-> at, stop |-> none, shifts |-> 0,
                          mark |-> 0, pool |-> 0, shieldAt |-> Never, extreme |-> 0,
                          clearedAt |-> Never, backoff |-> FALSE]
    /\ now = 0
    /\ did = Nothing

(* Time passes and the price moves, or the feed goes blind. *)
PriceMoves(price) ==
    /\ now < ClockTop /\ row.status = "RUNNING"
    /\ now' = now + 1
    /\ quote' = price /\ did' = Between
    /\ UNCHANGED <<grid, cost, row>>

(* The grid sells its position off, or buys one at the price. *)
PositionTurns ==
    /\ row.status = "RUNNING" /\ quote # 0 /\ now < ClockTop
    /\ now' = now + 1 /\ did' = Between
    /\ IF grid.pos = 0
       THEN \E pos \in {-1, 1} :
              /\ (grid.direction = "LONG" => pos = 1) /\ (grid.direction = "SHORT" => pos = -1)
              /\ grid' = [grid EXCEPT !.pos = pos, !.entry = quote]
              /\ cost' = quote
       ELSE /\ grid' = [grid EXCEPT !.pos = 0, !.entry = 0] /\ cost' = 0
    /\ UNCHANGED <<quote, row>>

(* The radar shifts the range; it runs right behind the pass that has seen
   the position. *)
OtherShift ==
    /\ row.status = "RUNNING" /\ quote # 0 /\ row.shifts < MaxAdjustments
    /\ grid.pos # 0 => row.mark = grid.entry
    /\ grid' = [grid EXCEPT !.middle = quote, !.entry = IF grid.pos = 0 THEN @ ELSE quote]
    /\ row' = [row EXCEPT !.middle = quote, !.shifts = @ + 1]
    /\ did' = Between
    /\ UNCHANGED <<cost, quote, now>>

BackoffEnds ==
    /\ row.backoff /\ row' = [row EXCEPT !.backoff = FALSE] /\ did' = Between
    /\ UNCHANGED <<grid, cost, quote, now>>

ManageNext ==
    \/ SightedPass \/ BlindPass
    \/ \E price \in 0 .. PriceTop : PriceMoves(price)
    \/ PositionTurns \/ OtherShift \/ BackoffEnds

ManageSpec == ManageInit /\ [][ManageNext]_manageVars

--------------------------------------------------------------------------
(* The values the code can write. *)
ManageTypeOK ==
    /\ grid.direction \in BotDirections /\ grid.pos \in {-1, 0, 1}
    /\ grid.card \in 0 .. PriceTop + 1 /\ row.stop \in 0 .. PriceTop + 1
    /\ row.status \in {"RUNNING", "STOP_REQUESTED"} /\ row.pool <= 0
    /\ did.decision \in BotActions

(* A pass that knows the position's value closes a grid whose loss has
   reached its limit, however often the exchange has re-based the entry
   price, whichever rule would fire first, and without a grace of the wick
   shield; blind or not. *)
LossIsNeverHeld ==
    did.judged /\ did.truth <= -MaxLoss => did.decision \in Closes /\ did.sent

(* "One grace per signal episode": the structural closes of a grid are put
   off for one grace, and then not again within the re-arm cool-down. *)
OneGracePerEpisode ==
    [][did'.held /\ did' # did =>
         now - did.grace < Grace \/ now - did.lastHold >= ReArm]_manageVars

(* The row never relies on a stop the exchange's card does not carry. *)
LocalStopBacked ==
    IF LongSide THEN row.stop <= grid.card ELSE row.stop >= grid.card

(* What is carried from pass to pass is backed: both of the above. *)
CarriedIsBacked == OneGracePerEpisode /\ []LocalStopBacked
=============================================================================
