------------------------------ MODULE PaperBook ------------------------------
(***************************************************************************)
(* The book of one PAPER grid: what its row says it has earned, as the     *)
(* manage pass marks it, charges funding, shifts its range, pours its      *)
(* second tranche and closes it, while the stop of the fleet, the radar    *)
(* and an operator close it, and the radar shifts it, from elsewhere.      *)
(*                                                                         *)
(* A price is a level.  A LONG grid holds units bought for cost; a NEUTRAL *)
(* one holds as many units as levels between the price and its middle and  *)
(* earns a pair for every level on the way back.  Fees are one each.       *)
(*                                                                         *)
(* What a NEUTRAL grid's units are worth is not kept but computed anew from *)
(* the middle of its range: a shift under water moves the middle, and the  *)
(* next mark knows nothing of the loss that the shift carried.             *)
(***************************************************************************)
EXTENDS Integers

CONSTANTS
    PaperWorlds,    \* sets of actors and faults, one of which the world has
    TopPrice,       \* bound: prices are 0 .. TopPrice
    MaxMoves,       \* bound: price moves
    MaxBoundaries,  \* bound: funding boundaries
    MaxShifts       \* bound: max_adjustments_per_bot

PaperFaults == {"operator", "crash", "write_lost", "pour", "exit", "redeploy",
                "recenter", "autoclose"}
ASSUME PaperBookAssumption ==
    /\ PaperWorlds \subseteq SUBSET PaperFaults
    /\ {TopPrice, MaxMoves, MaxBoundaries, MaxShifts} \subseteq Nat

VARIABLES
    paperWorld,   \* who is about, what fails
    ticker,       \* the price, how often it moved, the funding boundaries passed
    paper,        \* paper_grid_bots: the latest row of the symbol
    bought,       \* what the units of the row were bought for
    walked,       \* levels the price walked towards the row's middle
    managing,     \* the worker: its step and its copy of the row
    closer        \* an operator's close: its step and its copy

paperVars == <<paperWorld, ticker, paper, bought, walked, managing, closer>>

Distance(a, b) == IF a > b THEN a - b ELSE b - a
PairGain == 2

(* The inventory, its value at a price and the fee of getting out of it. *)
UnitsHeld(row, p) == IF row.direction = "LONG" THEN row.units ELSE Distance(p, row.middle)
Value(row, p) ==
    IF row.direction = "LONG" THEN row.units * p - row.cost
    ELSE -(Distance(p, row.middle) * Distance(p, row.middle))
Floating(row, p) == Value(row, p) - UnitsHeld(row, p)

(* Pairs are counted only on the way towards the middle, and never beyond
   the inventory the last mark knew of. *)
Pairs(row, p) ==
    LET way == Distance(row.level, p)
        inventory == Distance(row.level, row.middle)
        back == (p > row.level) = (row.level < row.middle)
    IN  IF row.direction = "LONG" \/ ~back THEN 0
        ELSE IF way < inventory THEN way ELSE inventory
NewRow(id, direction, p) ==
    [id |-> id, direction |-> direction, status |-> "RUNNING", settled |-> FALSE,
     realized |-> IF direction = "LONG" THEN -1 ELSE 0, floating |-> 0, mark |-> p,
     level |-> p, middle |-> p, units |-> 1, cost |-> p,
     paid |-> 0, opened |-> ticker.boundary, anchor |-> ticker.boundary, fees |-> IF direction = "LONG" THEN 1 ELSE 0,
     shifts |-> 0, tranche |-> 1]

IdleManage == [pc |-> "idle", row |-> paper, price |-> 0]
IdleCloser == [pc |-> "idle", row |-> paper]
To(pc) == managing' = [managing EXCEPT !.pc = pc]
EndOfPass == managing' = [pc |-> "idle", row |-> paper', price |-> 0]
Lost == {FALSE} \cup {f \in {TRUE} : "write_lost" \in paperWorld}
Total(copy) == copy.realized + Floating(copy, managing.price)

--------------------------------------------------------------------------
PaperRead ==
    /\ managing.pc = "idle" /\ paper.status = "RUNNING"
    /\ managing' = [pc |-> "fund", row |-> paper, price |-> ticker.price]
    /\ UNCHANGED <<paperWorld, ticker, paper, bought, walked, closer>>

(* The pairs are booked in the copy; a due funding charge in the copy and,
   by one incremental UPDATE, in the row. *)
Due(row) == ticker.boundary - row.anchor
FundingDelta(row, p) ==
    LET held == UnitsHeld(row, p) * Due(row)
    IN  IF row.direction = "LONG" \/ p < row.middle THEN held ELSE -held
Charge(row, delta) == [row EXCEPT !.realized = @ - delta, !.paid = @ + delta,
                                  !.anchor = ticker.boundary]
PaperFund ==
    /\ managing.pc = "fund"
    /\ LET copy == managing.row
           p == managing.price
           delta == FundingDelta(copy, p)
           earned == [copy EXCEPT !.realized = @ + PairGain * Pairs(copy, p)]
       IN  IF delta = 0
           THEN /\ managing' = [managing EXCEPT !.pc = "decide", !.row = earned]
                /\ UNCHANGED paper
           ELSE /\ managing' = [managing EXCEPT !.pc = "decide",
                     !.row = [earned EXCEPT !.realized = @ - delta, !.paid = @ + delta]]
                /\ \E lost \in Lost :
                     paper' = IF lost \/ paper.id # copy.id THEN paper ELSE Charge(paper, delta)
    /\ UNCHANGED <<paperWorld, ticker, bought, walked, closer>>

ShiftDue_Unbounded(row, p) == p # row.middle   \* a bug: the shifts are not counted
ShiftDue(row, p) == row.shifts < MaxShifts /\ p # row.middle
(* decideBotAction and the half-life rotation: close, shift the range, only
   advance the trailing stop (or hold under the shield), or mark. *)
PaperDecide ==
    /\ managing.pc = "decide"
    /\ UNCHANGED <<paperWorld, ticker, paper, bought, walked, closer>>
    /\ \/ To("close")
       \/ To("mark")
       \/ ShiftDue(managing.row, managing.price) /\ To("shift")
       \/ To("radar")

(* UPDATE ... WHERE id = $1 *)
PaperMark ==
    /\ managing.pc = "mark"
    /\ LET copy == managing.row
           p == managing.price
       IN  /\ paper' = IF paper.id # copy.id THEN paper
                       ELSE [paper EXCEPT !.mark = p, !.floating = Floating(copy, p),
                                          !.realized = copy.realized, !.level = p,
                                          !.paid = copy.paid]
           /\ managing' = [managing EXCEPT !.pc = "pour"]
    /\ UNCHANGED <<paperWorld, ticker, bought, walked, closer>>

(* A shift re-bases: a grid in profit books its value and starts anew from
   the price; one under water keeps its position (and the carried value is
   recomputed by the next mark).  Either way the level is counted from the
   new range, and no exit fee is paid. *)
ShiftedLevel(copy, p) == p
RebasedCost(copy, p) == IF copy.direction = "LONG" THEN copy.units * p ELSE copy.cost
PaperShift ==
    /\ managing.pc = "shift"
    /\ LET copy == managing.row
           p == managing.price
           normal == Floating(copy, p) > 0
           moved == [paper EXCEPT !.middle = p, !.level = ShiftedLevel(copy, p), !.mark = p,
                                  !.shifts = @ + 1]
       IN  paper' = IF paper.id # copy.id THEN paper
                    ELSE IF normal
                    THEN [moved EXCEPT !.realized = copy.realized + Value(copy, p),
                                       !.floating = 0, !.cost = RebasedCost(copy, p)]
                    ELSE [moved EXCEPT !.realized = copy.realized, !.floating = Value(copy, p)]
    /\ To("radar")
    /\ UNCHANGED <<paperWorld, ticker, bought, walked, closer>>

(* UPDATE ... WHERE id = $1 AND status = 'RUNNING'; whether it matched a row
   is not looked at. *)
Settled(row, total, p) ==
    [row EXCEPT !.status = "COMPLETED", !.settled = TRUE, !.realized = total,
                !.floating = 0, !.mark = p]
CloseRunning_AnyStatus(row, copy, total, p) ==   \* a bug: the guard on the status is gone
    IF row.id = copy.id THEN Settled([row EXCEPT !.id = copy.id], total, p) ELSE row
CloseRunning(row, copy, total, p) ==
    IF row.id = copy.id /\ row.status = "RUNNING" THEN Settled(row, total, p) ELSE row
PaperClose ==
    /\ managing.pc = "close"
    /\ paper' = CloseRunning(paper, managing.row, Total(managing.row), managing.price)
    /\ managing' = [managing EXCEPT !.pc = IF "redeploy" \in paperWorld THEN "redeploy" ELSE "ended"]
    /\ UNCHANGED <<paperWorld, ticker, bought, walked, closer>>

(* dgtRedeployPaper: unless a grid of the symbol runs, a new one around the
   break price. *)
PaperRedeploy ==
    /\ managing.pc = "redeploy"
    /\ \/ /\ paper.status # "RUNNING" /\ paper.id = 1
          /\ paper' = NewRow(2, paper.direction, managing.price)
          /\ bought' = managing.price /\ walked' = 0
       \/ UNCHANGED <<paper, bought, walked>>
    /\ EndOfPass
    /\ UNCHANGED <<paperWorld, ticker, closer>>

(* The second tranche: units, cost, targets and the entry fee change by one
   guarded UPDATE relative to the row; a grid under water is not poured. *)
PourDue(copy) ==
    /\ copy.direction = "LONG" /\ copy.tranche = 1 /\ Total(copy) >= 0
    /\ paper.id = copy.id /\ paper.status = "RUNNING" /\ paper.tranche = 1
PaperPour ==
    /\ managing.pc = "pour"
    /\ \/ /\ "pour" \in paperWorld /\ PourDue(managing.row)
          /\ paper' = [paper EXCEPT !.units = @ + 1, !.cost = @ + managing.price,
                                    !.realized = @ - 1, !.fees = @ + 1, !.tranche = 2]
          /\ bought' = bought + managing.price
       \/ UNCHANGED <<paper, bought>>
    /\ To("radar")
    /\ UNCHANGED <<paperWorld, ticker, walked, closer>>

(* The radar closes the pass.  Its emergency exit settles with the total the
   pass has computed, and a NEUTRAL grid may be deployed anew. *)
RadarExits ==
    /\ "exit" \in paperWorld /\ managing.pc = "radar"
    /\ paper' = CloseRunning(paper, managing.row, Total(managing.row), managing.price)
    /\ IF "redeploy" \in paperWorld /\ paper' # paper /\ paper.direction = "NEUTRAL"
       THEN To("redeploy") ELSE EndOfPass
    /\ UNCHANGED <<paperWorld, ticker, bought, walked, closer>>

(* Its auto-close asks for the close that an operator asks for: of the row as
   it stands, at its last mark, if it is under water. *)
RadarAutocloses ==
    /\ "autoclose" \in paperWorld /\ managing.pc = "radar"
    /\ paper.id = managing.row.id /\ paper.floating < 0
    /\ paper' = CloseRunning(paper, paper, paper.realized + Floating(paper, paper.mark), paper.mark)
    /\ EndOfPass
    /\ UNCHANGED <<paperWorld, ticker, bought, walked, closer>>

(* It shifts a range too: it reads the row anew, within the budget or one
   beyond it for an escape, and writes it if it still runs.  The floating
   part that the row holds tells which way; under water only the range moves. *)
RadarReads ==
    /\ "recenter" \in paperWorld /\ managing.pc = "radar"
    /\ paper.id = managing.row.id /\ paper.status = "RUNNING" /\ paper.shifts <= MaxShifts
    /\ managing' = [managing EXCEPT !.pc = "recenter", !.row = paper]
    /\ UNCHANGED <<paperWorld, ticker, paper, bought, walked, closer>>
Recentred(row, copy, p) ==
    LET moved == [row EXCEPT !.middle = p, !.level = p, !.shifts = @ + 1]
    IN  IF row.id # copy.id \/ row.status # "RUNNING" THEN row
        ELSE IF copy.floating > 0
        THEN [moved EXCEPT !.realized = copy.realized + Value(copy, p), !.floating = 0,
                           !.mark = p, !.cost = RebasedCost(copy, p)]
        ELSE moved
RadarRecenters ==
    /\ managing.pc = "recenter"
    /\ paper' = Recentred(paper, managing.row, managing.price)
    /\ EndOfPass
    /\ UNCHANGED <<paperWorld, ticker, bought, walked, closer>>
RadarPasses ==
    /\ managing.pc \in {"radar", "ended"}
    /\ UNCHANGED <<paperWorld, ticker, paper, bought, walked, closer>>
    /\ EndOfPass

--------------------------------------------------------------------------
(* The fleet's stop, in the worker: the copy is settled at the live price,
   or the row is closed as it stands when there is none. *)
FleetStopReads ==
    /\ managing.pc = "idle" /\ paper.status = "RUNNING"
    /\ managing' = [pc |-> "stop", row |-> paper, price |-> ticker.price]
    /\ UNCHANGED <<paperWorld, ticker, paper, bought, walked, closer>>
FleetStopSettles ==
    /\ managing.pc = "stop"
    /\ \/ paper' = CloseRunning(paper, managing.row, Total(managing.row), managing.price)
       \/ paper' = IF paper.status = "RUNNING" THEN [paper EXCEPT !.status = "STOPPED"] ELSE paper
    /\ EndOfPass
    /\ UNCHANGED <<paperWorld, ticker, bought, walked, closer>>

(* RequestBotClose and CloseAllActiveBots: a request reads the row, computes
   its total at the row's last mark and writes it if the row still runs. *)
OperatorReads ==
    /\ "operator" \in paperWorld /\ closer.pc = "idle" /\ paper.status = "RUNNING"
    /\ closer' = [pc |-> "close", row |-> paper]
    /\ UNCHANGED <<paperWorld, ticker, paper, bought, walked, managing>>
OperatorCloses ==
    /\ closer.pc = "close"
    /\ paper' = CloseRunning(paper, closer.row, closer.row.realized
                             + Floating(closer.row, closer.row.mark), closer.row.mark)
    /\ closer' = [pc |-> "done", row |-> paper']
    /\ UNCHANGED <<paperWorld, ticker, bought, walked, managing>>

--------------------------------------------------------------------------
Approaches(from, to) == Distance(to, paper.middle) < Distance(from, paper.middle)
(* A pass works with the price and the boundaries it has read: what happens
   during the pass happens, for the pass, after it. *)
PriceMoves ==
    /\ ticker.moves < MaxMoves /\ managing.pc = "idle"
    /\ \E p \in {ticker.price - 1, ticker.price + 1} \cap (0 .. TopPrice) :
         /\ ticker' = [ticker EXCEPT !.price = p, !.moves = @ + 1]
         /\ walked' = IF Approaches(ticker.price, p) THEN walked + 1 ELSE walked
    /\ UNCHANGED <<paperWorld, paper, bought, managing, closer>>
BoundaryPasses ==
    /\ ticker.boundary < MaxBoundaries /\ managing.pc = "idle"
    /\ ticker' = [ticker EXCEPT !.boundary = @ + 1]
    /\ UNCHANGED <<paperWorld, paper, bought, walked, managing, closer>>
PaperCrash ==
    /\ "crash" \in paperWorld /\ managing.pc # "idle"
    /\ managing' = [pc |-> "idle", row |-> paper, price |-> 0]
    /\ UNCHANGED <<paperWorld, ticker, paper, bought, walked, closer>>

PaperInit ==
    /\ paperWorld \in PaperWorlds
    /\ ticker = [price |-> TopPrice \div 2, moves |-> 0, boundary |-> 0]
    /\ \E direction \in {"LONG", "NEUTRAL"} : paper = NewRow(1, direction, ticker.price)
    /\ bought = ticker.price /\ walked = 0
    /\ managing = [pc |-> "idle", row |-> paper, price |-> 0]
    /\ closer = IdleCloser

PaperNext ==
    \/ PaperRead \/ PaperFund \/ PaperDecide \/ PaperMark \/ PaperShift \/ PaperClose
    \/ PaperRedeploy \/ PaperPour \/ RadarExits \/ RadarAutocloses \/ RadarReads \/ RadarRecenters
    \/ RadarPasses \/ FleetStopReads \/ FleetStopSettles \/ OperatorReads \/ OperatorCloses
    \/ PriceMoves \/ BoundaryPasses \/ PaperCrash
PaperSpec == PaperInit /\ [][PaperNext]_paperVars

--------------------------------------------------------------------------
(* The values the code can write. *)
PaperTypeOK ==
    /\ paper.status \in {"RUNNING", "COMPLETED", "STOPPED"}
    /\ paper.anchor \in 0 .. ticker.boundary /\ paper.shifts \in 0 .. MaxShifts + 1
    /\ paper.mark \in 0 .. TopPrice /\ paper.level \in 0 .. TopPrice
    /\ paper.tranche \in {1, 2} /\ paper.units = paper.tranche
    /\ paper.status = "RUNNING" => ~paper.settled

Alone == {"operator", "write_lost"} \cap paperWorld = {} /\ ~({"pour", "exit"} \subseteq paperWorld)

(* Whatever was shifted, re-centred, charged or poured in between, and
   wherever the process was restarted, the book of a LONG grid is what its
   units sold for less what they were bought for, the funding and the fees. *)
BookExact ==
    Alone /\ paper.direction = "LONG" =>
        LET gained == paper.realized + paper.paid + paper.fees
        IN  IF paper.settled THEN gained = paper.units * paper.mark - bought - paper.units
            ELSE gained = paper.cost - bought

(* What a NEUTRAL grid has booked is pairs, and never more of them than the
   price has walked back towards its middle: a shift, whose ever, starts the
   counting anew.  Nothing is claimed of its floating part, nor of what it is
   settled for. *)
PairsAreWalked ==
    Alone /\ paper.direction = "NEUTRAL" /\ ~paper.settled =>
        /\ paper.realized + paper.paid + paper.fees >= 0
        /\ paper.realized + paper.paid + paper.fees <= PairGain * walked

(* "commit in ONE statement": every boundary that the anchor has passed is
   in the funding column, once. *)
FundedOnce ==
    Alone /\ paper.direction = "LONG" /\ paper.units = 1 =>
        paper.paid = paper.anchor - paper.opened

(* The paper ledger: that of a LONG grid is exact and each boundary in it
   once, and that of a NEUTRAL one invents no pairs. *)
BookIsKept == BookExact /\ PairsAreWalked /\ FundedOnce

(* A row that has ended is never closed again, whoever is late. *)
EndedOnce ==
    [][paper.status # "RUNNING" /\ paper'.id = paper.id
         => paper'.status = paper.status /\ paper'.settled = paper.settled]_paperVars

(* What can be believed of the paper fleet's history: the ledger, as far as
   BookIsKept says, and that what has ended stays ended. *)
PaperHistoryHolds == []BookIsKept /\ EndedOnce

(* "no close path can freeze an unrealized loss out of realized history
   again": what a close has settled stays as it is. *)
SettledIsKept ==
    [][paper.settled /\ paper'.id = paper.id
         => paper'.realized = paper.realized /\ paper'.floating = 0]_paperVars
=============================================================================
