------------------------------ MODULE Settlement ------------------------------
(***************************************************************************)
(* The final figure of a REAL grid that has ended: the manage pass writes  *)
(* the exchange's total, or an estimate from the last telemetry, when it   *)
(* sees the end; a sweep settles terminal rows without a figure; a re-     *)
(* check replaces estimates by the exchange's total for 48 hours.  One     *)
(* grid; the passes are one goroutine's.                                   *)
(***************************************************************************)
EXTENDS Integers

CONSTANTS
    SettleWorlds,    \* sets of faults, one of which the world has
    SettleBudget     \* bound: faults

SettleFaults == {"cancel", "detail", "list", "write", "outcome", "crash"}
ASSUME SettleAssumption == SettleBudget \in Nat /\ SettleWorlds \subseteq SUBSET SettleFaults

VARIABLES
    settleWorld, settleLeft,
    wasStop,   \* why the grid ended: "alive" while it lives; "loss" and "other" are our own stops
    record,    \* what the exchange will say of the ended grid, and whether it says it yet
    settled,   \* the row of grid_bots
    outcome,   \* autogrid_candidates.outcome_pnl_usdt: whose figure it is
    settler,   \* the worker: where its pass stands and what it has read
    reopened   \* terminalReopenDone

settleVars == <<settleWorld, settleLeft, wasStop, record, settled, outcome, settler, reopened>>

SettleFaulty(fault) == fault \in settleWorld /\ settleLeft > 0 /\ settleLeft' = settleLeft - 1
NativeEnds == {"user", "profit_stop", "loss_stop", "liquidation"}
Active == {"RUNNING", "STOP_REQUESTED", "STOPPING"}
ExchangeFigures == {"total", "unlock"}
Estimates == {"estimate", "none"}

\* The close classes: of the stored reason, and of the exchange's.
LossReasons == {"loss", "loss_stop", "liquidation"}
ExchangeReason == IF wasStop \in NativeEnds THEN wasStop ELSE "user"
OutcomeStatus ==
    CASE ExchangeReason = "profit_stop" -> "COMPLETED"
      [] ExchangeReason = "liquidation" -> "LIQUIDATED"
      [] OTHER -> "STOPPED"

Resting == [pc |-> "idle", reason |-> "unset", via |-> "unset", figure |-> "unset"]

(* gateSettledProfit: an exchange total is taken unless it is not negative on
   a loss-class close, judged by the stored reason and by the exchange's. *)
GatePasses(stored) ==
    /\ record.total # "none"
    /\ stored \in LossReasons \/ ExchangeReason \in LossReasons => record.total = "negative"
\* settleTerminalFinal: what an answer of the exchange, or none, settles to.
Figure(stored, answered) ==
    IF answered /\ GatePasses(stored) THEN "total"
    ELSE IF record.telemetry THEN "estimate" ELSE "none"
PendingOrConfirmed(figure) == IF figure \in Estimates THEN "PENDING" ELSE "CONFIRMED"

--------------------------------------------------------------------------
\* The exchange, and time.

GridEnds(why) ==
    /\ wasStop = "alive" /\ wasStop' = why
    /\ UNCHANGED <<settleWorld, settleLeft, record, settled, outcome, settler, reopened>>
FinishedListed ==
    /\ wasStop # "alive" /\ ~record.listed /\ record' = [record EXCEPT !.listed = TRUE]
    /\ UNCHANGED <<settleWorld, settleLeft, wasStop, settled, outcome, settler, reopened>>
TwoDaysPass ==
    /\ settled.status \notin Active /\ ~settled.old /\ settled' = [settled EXCEPT !.old = TRUE]
    /\ UNCHANGED <<settleWorld, settleLeft, wasStop, record, outcome, settler, reopened>>

--------------------------------------------------------------------------
\* The manage pass.

(* recordCloseIntent, then cancelRealBot: also the retry of an older stop,
   and a decision for a grid that has just ended. *)
Applied == IF wasStop = "alive" THEN settled.reason ELSE wasStop
Gone(r) == [r EXCEPT !.status = "STOPPED", !.recon = "PENDING", !.reason = "ALREADY_CLOSED"]
DecideStop ==
    /\ settler.pc = "idle" /\ settled.status = "RUNNING"
    /\ \E reason \in {"loss", "other"} :
         settled' = [settled EXCEPT !.status = "STOP_REQUESTED", !.reason = reason]
    /\ settler' = [settler EXCEPT !.pc = "cancel", !.reason = "unset", !.via = "decision"]
    /\ UNCHANGED <<settleWorld, settleLeft, wasStop, record, outcome, reopened>>
BeginPass ==
    /\ settler.pc = "idle" /\ settled.status \in Active
    /\ settler' = [Resting EXCEPT !.reason = settled.reason,
                     !.pc = IF settled.status # "RUNNING" /\ settled.recon # "ACCEPTED"
                            THEN "cancel" ELSE "detail"]
    /\ UNCHANGED <<settleWorld, settleLeft, wasStop, record, settled, outcome, reopened>>
CancelGrid ==
    /\ settler.pc = "cancel"
    /\ \/ /\ wasStop = "alive" /\ wasStop' = settled.reason
          /\ settled' = [settled EXCEPT !.status = "STOP_REQUESTED", !.recon = "ACCEPTED"]
          /\ UNCHANGED settleLeft
       \/ /\ wasStop # "alive" /\ settled' = Gone(settled) /\ UNCHANGED <<settleLeft, wasStop>>
       \/ /\ SettleFaulty("cancel") /\ wasStop' \in {wasStop, Applied}
          /\ settled' = [settled EXCEPT !.status = "STOPPING", !.recon = "UNKNOWN"]
    /\ settler' = [settler EXCEPT !.pc = IF settler.via = "decision" THEN "sweep" ELSE "detail"]
    /\ UNCHANGED <<settleWorld, record, outcome, reopened>>

Decided(via, stored, answered) ==
    settler' = [settler EXCEPT !.pc = "write", !.via = via, !.figure = Figure(stored, answered)]
(* GetFuturesGridBot: the terminal detail, or its refusal and then the
   finished list, which may lag, fail or lie beyond the paging depth. *)
ReadDetail ==
    /\ settler.pc = "detail"
    /\ \/ /\ wasStop = "alive" /\ settler' = [settler EXCEPT !.pc = "sweep"] /\ UNCHANGED settleLeft
       \/ /\ wasStop # "alive" /\ record.detail /\ Decided("detail", settler.reason, TRUE)
          /\ UNCHANGED settleLeft
       \/ /\ wasStop # "alive" /\ ~record.detail
          /\ \/ Decided("refused", settler.reason, record.listed) /\ UNCHANGED settleLeft
             \/ Decided("refused", settler.reason, FALSE) /\ SettleFaulty("list")
       \/ settler' = [settler EXCEPT !.pc = "sweep"] /\ SettleFaulty("detail")
    /\ UNCHANGED <<settleWorld, wasStop, record, settled, outcome, reopened>>

(* The closed sweep: a terminal row without a figure; an unanswered probe
   leaves it to the next pass. *)
SweepClosed ==
    /\ settler.pc = "sweep"
    /\ LET due == settled.status \notin Active /\ settled.figure = "unset"
           rests == settler' = Resting
       IN  \/ ~due /\ rests /\ UNCHANGED settleLeft
           \/ /\ due /\ UNCHANGED settleLeft
              /\ Decided("sweep", settled.reason, record.detail \/ record.listed)
           \/ due /\ ~record.detail /\ Decided("sweep", settled.reason, FALSE) /\ SettleFaulty("list")
           \/ due /\ rests /\ SettleFaulty("detail")
    /\ UNCHANGED <<settleWorld, wasStop, record, settled, outcome, reopened>>

(* The three terminal writes: realized, recon state, closing cost and the
   figure's source in one UPDATE. *)
ClosingCost(figure) == IF figure = "estimate" THEN 1 ELSE 0
Settled(r, via, figure) ==
    [r EXCEPT !.status = CASE via = "detail" -> OutcomeStatus [] via = "refused" -> "STOPPED"
                           [] OTHER -> r.status,
              !.reason = IF via = "sweep" \/ r.reason # "unset" THEN r.reason
                         ELSE IF via = "refused" THEN "ALREADY_CLOSED" ELSE ExchangeReason,
              !.recon = PendingOrConfirmed(figure), !.figure = figure,
              !.costs = @ + ClosingCost(figure)]
WriteFinal ==
    /\ settler.pc = "write"
    /\ \/ settled' = Settled(settled, settler.via, settler.figure) /\ UNCHANGED settleLeft
       \/ SettleFaulty("write") /\ UNCHANGED settled
    /\ settler' = IF settler.via = "detail" THEN [settler EXCEPT !.pc = "sweep"]
                  ELSE [settler EXCEPT !.pc = "outcome"]
    /\ UNCHANGED <<settleWorld, wasStop, record, outcome, reopened>>

(* recordRealBotOutcome: the first figure, or a changed one of a confirmed
   row. *)
Recorded_First(figure) == IF outcome = "unset" THEN figure ELSE outcome   \* a bug: the first outcome wins
Recorded(figure) ==
    IF outcome = "unset" \/ (outcome # figure /\ settled.recon = "CONFIRMED") THEN figure ELSE outcome
WriteOutcome ==
    /\ settler.pc = "outcome"
    /\ \/ outcome' = Recorded(settler.figure) /\ UNCHANGED settleLeft
       \/ SettleFaulty("outcome") /\ UNCHANGED outcome
    /\ settler' = IF settler.via = "refused" THEN [settler EXCEPT !.pc = "sweep"] ELSE Resting
    /\ UNCHANGED <<settleWorld, wasStop, record, settled, reopened>>

--------------------------------------------------------------------------
\* recheckPendingExchangeFinals.

IsPending(r) == r.status = "STOPPED" /\ r.recon = "PENDING"
Reopen(r) ==
    IF ~reopened /\ r.status = "STOPPED" /\ r.recon = "CONFIRMED" /\ r.figure \in Estimates /\ ~r.old
    THEN [r EXCEPT !.recon = "PENDING"] ELSE r
Freeze_Never(r) == r   \* a bug: the window never closes
Freeze(r) == IF IsPending(r) /\ r.old THEN [r EXCEPT !.recon = "CONFIRMED"] ELSE r

(* The figure of the finished record: the total if the gate passes it, else
   the unlock identity. *)
Probed(stored) ==
    IF GatePasses(stored) THEN "total" ELSE IF record.unlock THEN "unlock" ELSE "unset"
BeginRecheck ==
    LET row == Freeze(Reopen(settled))
    IN  /\ settler.pc = "idle"
        /\ settled' = row /\ reopened' = TRUE
        /\ \/ /\ IsPending(row) /\ record.listed /\ Probed(row.reason) # "unset"
              /\ settler' = [Resting EXCEPT !.pc = "apply", !.figure = Probed(row.reason)]
              /\ UNCHANGED settleLeft
           \/ /\ ~(IsPending(row) /\ record.listed /\ Probed(row.reason) # "unset")
              /\ UNCHANGED <<settler, settleLeft>>
           \/ IsPending(row) /\ SettleFaulty("list") /\ UNCHANGED settler
    /\ UNCHANGED <<settleWorld, wasStop, record, outcome>>

(* applyExchangeFinal: guarded by the pending state; the closing cost of the
   estimate stays booked. *)
ApplyFinal ==
    /\ settler.pc = "apply"
    /\ \/ /\ settled.recon = "PENDING" /\ UNCHANGED settleLeft
          /\ settled' = [settled EXCEPT !.recon = "CONFIRMED", !.figure = settler.figure]
          /\ settler' = [settler EXCEPT !.pc = "outcome", !.via = "recheck"]
       \/ SettleFaulty("write") /\ settler' = Resting /\ UNCHANGED settled
    /\ UNCHANGED <<settleWorld, wasStop, record, outcome, reopened>>

SettleCrash ==
    /\ SettleFaulty("crash") /\ settler' = Resting /\ reopened' = FALSE
    /\ UNCHANGED <<settleWorld, wasStop, record, settled, outcome>>

--------------------------------------------------------------------------
(* A running grid; or a grid that an earlier version has settled by estimate
   as confirmed. *)
SettleInit ==
    /\ settleWorld \in SettleWorlds /\ settleLeft = SettleBudget
    /\ record \in [total : {"none", "negative", "positive"}, unlock : BOOLEAN, detail : BOOLEAN,
                   telemetry : BOOLEAN, listed : {FALSE}]
    /\ \/ /\ settled = [status |-> "RUNNING", recon |-> "unset", reason |-> "unset", figure |-> "unset", costs |-> 0,
                        old |-> FALSE]
          /\ wasStop = "alive" /\ outcome = "unset"
       \/ /\ settled = [status |-> "STOPPED", recon |-> "CONFIRMED", reason |-> "loss",
                        figure |-> "estimate", costs |-> 1, old |-> FALSE]
          /\ wasStop = "loss" /\ outcome = "estimate"
    /\ settler = Resting /\ reopened = FALSE

ManageStep ==
    \/ BeginPass \/ CancelGrid \/ ReadDetail \/ SweepClosed \/ WriteFinal \/ WriteOutcome \/ ApplyFinal
SettleNext ==
    \/ ManageStep \/ BeginRecheck \/ DecideStop \/ (\E why \in NativeEnds : GridEnds(why))
    \/ FinishedListed \/ TwoDaysPass \/ SettleCrash

(* The worker's ticker keeps firing, its re-check every five minutes of it,
   and time passes. *)
SettleSpec ==
    /\ SettleInit /\ [][SettleNext]_settleVars
    /\ WF_settleVars(ManageStep) /\ SF_settleVars(BeginRecheck) /\ WF_settleVars(TwoDaysPass)

--------------------------------------------------------------------------
(* The values the code can write. *)
SettleTypeOK ==
    /\ settled.status \in Active \cup {"STOPPED", "COMPLETED", "LIQUIDATED"}
    /\ settled.recon \in {"unset", "ACCEPTED", "UNKNOWN", "PENDING", "CONFIRMED"}
    /\ settled.figure \in ExchangeFigures \cup Estimates \cup {"unset"}
    /\ outcome \in ExchangeFigures \cup Estimates \cup {"unset"}
    /\ settled.costs \in Nat /\ settled.old \in BOOLEAN /\ reopened \in BOOLEAN

(* However the end is seen, lost and seen again, one closing cost is booked;
   an exchange figure stays confirmed, a re-checked or refused end has its
   figure as the candidate's outcome too, unless that write itself was lost. *)
SettledOnce ==
    /\ settled.costs <= 1
    /\ settled.figure \in ExchangeFigures => settled.recon = "CONFIRMED"
    /\ settled.figure \in ExchangeFigures /\ settler.pc = "idle" /\ outcome # "unset"
         /\ settleWorld \cap {"outcome", "crash"} = {}
         => outcome = settled.figure

(* A STOPPED row that awaits the exchange's total gets it or is frozen. *)
PendingFinalEnds == IsPending(settled) ~> ~IsPending(settled)

(* "the stored reason is the only loss witness": a positive total is never
   booked as the final of a grid we have stopped at a loss. *)
LossNeedsItsWitness ==
    wasStop = "loss" /\ settled.figure = "total" => record.total = "negative"
=============================================================================
