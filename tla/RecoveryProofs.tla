---------------------------- MODULE RecoveryProofs ----------------------------
(***************************************************************************)
(* Proofs about the components that must finish what they began:           *)
(* Settlement, RedeployQueue, TelegramOutbox and MarketStream; and about   *)
(* the values of all of MCRecovery, TranchePour's and DecisionReplay's too.*)
(***************************************************************************)
EXTENDS MCRecovery, PourAndReplayProofs, FiniteSetTheorems, SequenceTheorems,
        WellFoundedInduction, TLAPS

--------------------------------------------------------------------------
\* Settlement: one closing cost, one figure, the same one in the outcome.

Ends == NativeEnds \cup {"alive", "unset", "loss", "other", "ALREADY_CLOSED"}
Figures == ExchangeFigures \cup Estimates \cup {"unset"}
Settlements ==
    [status : Active \cup {"STOPPED", "COMPLETED", "LIQUIDATED"},
     recon : {"unset", "ACCEPTED", "UNKNOWN", "PENDING", "CONFIRMED"},
     reason : Ends, figure : Figures, costs : {0, 1}, old : BOOLEAN]
Settlers ==
    [pc : {"idle", "cancel", "detail", "sweep", "write", "outcome", "apply"},
     reason : Ends, via : {"unset", "decision", "detail", "refused", "sweep", "recheck"},
     figure : Figures]
Records ==
    [total : {"none", "negative", "positive"}, unlock : BOOLEAN, detail : BOOLEAN,
     telemetry : BOOLEAN, listed : BOOLEAN]
SettleShape ==
    /\ settled \in Settlements /\ settler \in Settlers /\ record \in Records
    /\ wasStop \in Ends /\ outcome \in Figures

(* A row has its first figure, and the closing cost of an estimate, from the
   write that ends it; until then no step but a failed write has anything to
   report. *)
FirstFigure ==
    /\ settled.status \in Active => settled.figure = "unset"
    /\ settled.figure = "unset" => settled.costs = 0
    /\ settled.figure \in ExchangeFigures => settled.recon = "CONFIRMED"
    /\ settler.pc = "cancel" => settled.status \in Active
    /\ settler.pc \in {"cancel", "detail", "write"} => settled.figure = "unset"

(* What a pass has decided and not yet written. *)
Underway ==
    /\ settler.pc = "write" => /\ settler.figure \in Estimates \cup {"total"}
                               /\ settler.via \in {"detail", "refused", "sweep"}
    /\ settler.pc = "apply" => settler.figure \in ExchangeFigures /\ settled.status \notin Active
    /\ settler.pc = "outcome" /\ settled.status \in Active => ~record.detail
    /\ settler.pc = "outcome" /\ settled.figure # "unset" => settler.figure = settled.figure
    /\ settler.pc = "write" /\ settler.via \in {"detail", "refused"}
         => (record.detail <=> settler.via = "detail")
    /\ settler.pc = "write" /\ settler.via = "sweep" => settled.status \notin Active

(* The terminal detail reports no outcome: a row that it may still settle has
   none.  Whatever else settles a row is about to report. *)
Reported ==
    /\ settled.status \in Active \/ settler.pc \in {"cancel", "detail"}
         \/ (settler.pc = "write" /\ settler.via = "detail")
         => outcome = "unset" \/ ~record.detail
    /\ settled.figure \in ExchangeFigures /\ outcome # "unset"
         /\ settleWorld \cap {"outcome", "crash"} = {}
         => outcome = settled.figure \/ settler.pc = "outcome"

SettleInv == SettleShape /\ FirstFigure /\ Underway /\ Reported



LEMMA RestingIs ==
    /\ Resting \in Settlers /\ Resting.pc = "idle"
    /\ \A reason \in Ends, pc \in {"cancel", "detail"} :
         LET s == [Resting EXCEPT !.reason = reason, !.pc = pc] IN s \in Settlers /\ s.pc = pc
    /\ \A figure \in Figures :
         LET s == [Resting EXCEPT !.pc = "apply", !.figure = figure]
         IN  s \in Settlers /\ s.pc = "apply" /\ s.figure = figure
  BY DEF Resting, Settlers, Ends, Figures

LEMMA FigureIs == \A stored, answered : Figure(stored, answered) \in Estimates \cup {"total"}
  BY DEF Figure, Estimates

LEMMA ProbedIs == \A stored : Probed(stored) \in ExchangeFigures \cup {"unset"}
  BY DEF Probed, ExchangeFigures

(* What reopening and freezing leave of a row. *)
LEMMA RowIs ==
    ASSUME NEW r \in Settlements
    PROVE  LET row == Freeze(Reopen(r))
           IN  /\ row \in Settlements /\ row.status = r.status /\ row.figure = r.figure
               /\ row.costs = r.costs /\ (r.figure \in ExchangeFigures => row.recon = r.recon \/ row.recon = "CONFIRMED")
<1>1. /\ Reopen(r) \in Settlements /\ Reopen(r).status = r.status /\ Reopen(r).figure = r.figure
      /\ Reopen(r).costs = r.costs
      /\ r.figure \in ExchangeFigures => Reopen(r).recon = r.recon
  BY DEF Reopen, Settlements, Estimates, ExchangeFigures
<1>2. ASSUME NEW s \in Settlements
      PROVE  /\ Freeze(s) \in Settlements /\ Freeze(s).status = s.status /\ Freeze(s).figure = s.figure
             /\ Freeze(s).costs = s.costs /\ Freeze(s).recon \in {s.recon, "CONFIRMED"}
  BY DEF Freeze, Settlements
<1> QED BY <1>1, <1>2

(* What the terminal write makes of a row without a figure. *)
LEMMA SettledIs ==
    ASSUME NEW r \in Settlements, r.costs = 0, NEW via \in {"detail", "refused", "sweep"},
           NEW figure \in Estimates \cup {"total"}
    PROVE  LET s == Settled(r, via, figure)
           IN  /\ s \in Settlements /\ s.figure = figure
               /\ figure \in ExchangeFigures => s.recon = "CONFIRMED"
               /\ s.status \notin Active \/ (via = "sweep" /\ s.status = r.status)
<1> DEFINE status == CASE via = "detail" -> OutcomeStatus [] via = "refused" -> "STOPPED" [] OTHER -> r.status
           reason == IF via = "sweep" \/ r.reason # "unset" THEN r.reason
                     ELSE IF via = "refused" THEN "ALREADY_CLOSED" ELSE ExchangeReason
           recon == PendingOrConfirmed(figure)
           costs == r.costs + ClosingCost(figure)
<1>1. OutcomeStatus \in {"STOPPED", "COMPLETED", "LIQUIDATED"}
  BY DEF OutcomeStatus
<1>2. /\ status \in Active \cup {"STOPPED", "COMPLETED", "LIQUIDATED"}
      /\ status \notin Active \/ (via = "sweep" /\ status = r.status)
  BY <1>1 DEF Settlements, Active
<1>3. reason \in Ends
  BY DEF Settlements, ExchangeReason, Ends, NativeEnds
<1>4. recon \in {"PENDING", "CONFIRMED"} /\ (figure \in ExchangeFigures => recon = "CONFIRMED")
  BY DEF PendingOrConfirmed, ExchangeFigures, Estimates
<1>5. costs \in {0, 1}
  BY DEF ClosingCost
<1>6. figure \in Figures
  BY DEF Figures, ExchangeFigures
<1>7. Settled(r, via, figure) =
        [r EXCEPT !.status = status, !.reason = reason, !.recon = recon, !.figure = figure, !.costs = costs]
  BY DEF Settled
<1> HIDE DEF status, reason, recon, costs
<1> QED BY <1>2, <1>3, <1>4, <1>5, <1>6, <1>7 DEF Settlements

LEMMA DecidedIs ==
    ASSUME settler \in Settlers, NEW via \in {"detail", "refused", "sweep"}, NEW stored, NEW answered,
           Decided(via, stored, answered)
    PROVE  /\ settler' \in Settlers /\ settler'.pc = "write" /\ settler'.via = via
           /\ settler'.figure \in Estimates \cup {"total"}
<1>1. Figure(stored, answered) \in Estimates \cup {"total"}
  BY FigureIs
<1>2. Estimates \cup {"total"} \subseteq Figures
  BY DEF Figures, ExchangeFigures
<1> QED BY <1>1, <1>2 DEF Decided, Settlers

(* The effects of the larger steps. *)
LEMMA DetailEffect ==
    ASSUME settler \in Settlers, ReadDetail
    PROVE  /\ settler' \in Settlers /\ settler.pc = "detail"
           /\ settler'.pc = "sweep" \/ /\ settler'.pc = "write" /\ settler'.via \in {"detail", "refused"}
                                       /\ record.detail <=> settler'.via = "detail"
                                       /\ settler'.figure \in Estimates \cup {"total"}
           /\ UNCHANGED <<settleWorld, wasStop, record, settled, outcome>>
<1>1. CASE settler' = [settler EXCEPT !.pc = "sweep"]
  BY <1>1 DEF ReadDetail, Settlers
<1>2. CASE record.detail /\ Decided("detail", settler.reason, TRUE)
  BY <1>2, DecidedIs DEF ReadDetail
<1>3. CASE ~record.detail /\ Decided("refused", settler.reason, record.listed)
  BY <1>3, DecidedIs DEF ReadDetail
<1>4. CASE ~record.detail /\ Decided("refused", settler.reason, FALSE)
  BY <1>4, DecidedIs DEF ReadDetail
<1> QED BY <1>1, <1>2, <1>3, <1>4 DEF ReadDetail

LEMMA SweepEffect ==
    ASSUME settler \in Settlers, SweepClosed
    PROVE  /\ settler' \in Settlers /\ settler.pc = "sweep"
           /\ settler'.pc = "idle" \/ /\ settler'.pc = "write" /\ settler'.via = "sweep"
                                      /\ settler'.figure \in Estimates \cup {"total"}
                                      /\ settled.status \notin Active /\ settled.figure = "unset"
           /\ UNCHANGED <<settleWorld, wasStop, record, settled, outcome>>
<1>1. CASE settler' = Resting
  BY <1>1, RestingIs DEF SweepClosed
<1>2. CASE /\ settled.status \notin Active /\ settled.figure = "unset"
           /\ \E answered \in {FALSE, record.detail \/ record.listed} :
                 Decided("sweep", settled.reason, answered)
  BY <1>2, DecidedIs DEF SweepClosed
<1> QED BY <1>1, <1>2 DEF SweepClosed

LEMMA WriteEffect ==
    ASSUME SettleShape, FirstFigure, Underway, WriteFinal
    PROVE  /\ settler' \in Settlers /\ settled' \in Settlements /\ settler.pc = "write"
           /\ settler'.figure = settler.figure
           /\ settler'.pc = IF settler.via = "detail" THEN "sweep" ELSE "outcome"
           /\ \/ UNCHANGED settled
              \/ /\ settled'.figure = settler.figure
                 /\ settler.figure \in ExchangeFigures => settled'.recon = "CONFIRMED"
                 /\ settled'.status \notin Active
           /\ UNCHANGED <<settleWorld, wasStop, record, outcome>>
<1>1. /\ settler' \in Settlers /\ settler'.figure = settler.figure /\ settler.pc = "write"
      /\ settler'.pc = IF settler.via = "detail" THEN "sweep" ELSE "outcome"
  BY DEF SettleShape, WriteFinal, Settlers
<1>2. /\ settled.costs = 0 /\ settler.via \in {"detail", "refused", "sweep"}
      /\ settler.figure \in Estimates \cup {"total"}
      /\ settler.via = "sweep" => settled.status \notin Active
  BY <1>1 DEF FirstFigure, Underway
<1>3. CASE settled' = Settled(settled, settler.via, settler.figure)
  BY <1>1, <1>2, <1>3, SettledIs DEF SettleShape, WriteFinal
<1>4. CASE UNCHANGED settled
  BY <1>1, <1>4 DEF SettleShape, WriteFinal
<1> QED BY <1>3, <1>4 DEF WriteFinal

LEMMA OutcomeEffect ==
    ASSUME settler \in Settlers, WriteOutcome
    PROVE  /\ settler' \in Settlers /\ settler.pc = "outcome" /\ settler'.pc \in {"sweep", "idle"}
           /\ outcome' \in {outcome, settler.figure}
           /\ settled.recon = "CONFIRMED" /\ "outcome" \notin settleWorld => outcome' = settler.figure
           /\ UNCHANGED <<settleWorld, wasStop, record, settled>>
<1>1. settler' \in Settlers /\ settler.pc = "outcome" /\ settler'.pc \in {"sweep", "idle"}
  <2>1. CASE settler.via = "refused"
    BY <2>1 DEF WriteOutcome, Settlers
  <2>2. CASE settler.via # "refused"
    BY <2>2, RestingIs DEF WriteOutcome
  <2> QED BY <2>1, <2>2
<1>2. /\ outcome' \in {outcome, settler.figure}
      /\ settled.recon = "CONFIRMED" /\ "outcome" \notin settleWorld => outcome' = settler.figure
  BY DEF WriteOutcome, Recorded, SettleFaulty
<1> QED BY <1>1, <1>2 DEF WriteOutcome

LEMMA ApplyEffect ==
    ASSUME SettleShape, Underway, ApplyFinal
    PROVE  /\ settler' \in Settlers /\ settled' \in Settlements
           /\ settler.pc = "apply" /\ settler.figure \in ExchangeFigures
           /\ \/ settler'.pc = "idle" /\ UNCHANGED settled
              \/ /\ settled.recon = "PENDING" /\ settler'.pc = "outcome" /\ settler'.figure = settler.figure
                 /\ settled'.figure = settler.figure /\ settled'.recon = "CONFIRMED"
                 /\ settled'.status = settled.status /\ settled.status \notin Active
           /\ UNCHANGED <<settleWorld, wasStop, record, outcome>>
<1>1. settler.pc = "apply" /\ settler.figure \in ExchangeFigures /\ settled.status \notin Active
  BY DEF ApplyFinal, Underway
<1>2. CASE settler' = Resting /\ UNCHANGED settled
  BY <1>1, <1>2, RestingIs DEF ApplyFinal, SettleShape
<1>3. CASE /\ settled.recon = "PENDING"
           /\ settled' = [settled EXCEPT !.recon = "CONFIRMED", !.figure = settler.figure]
           /\ settler' = [settler EXCEPT !.pc = "outcome", !.via = "recheck"]
  <2>1. /\ settled' \in Settlements /\ settled'.figure = settler.figure /\ settled'.recon = "CONFIRMED"
        /\ settled'.status = settled.status
    BY <1>1, <1>3 DEF SettleShape, Settlements, Figures
  <2>2. settler' \in Settlers /\ settler'.pc = "outcome" /\ settler'.figure = settler.figure
    BY <1>3 DEF SettleShape, Settlers
  <2> QED BY <1>1, <1>3, <2>1, <2>2 DEF ApplyFinal
<1> QED BY <1>2, <1>3 DEF ApplyFinal

LEMMA RecheckEffect ==
    ASSUME SettleShape, BeginRecheck
    PROVE  /\ settler' \in Settlers /\ settled' \in Settlements /\ settler.pc = "idle"
           /\ settled'.status = settled.status /\ settled'.figure = settled.figure
           /\ settled'.costs = settled.costs
           /\ settled.figure \in ExchangeFigures => settled'.recon \in {settled.recon, "CONFIRMED"}
           /\ settler'.pc = "idle" \/ /\ settler'.pc = "apply" /\ settler'.figure \in ExchangeFigures
                                      /\ settled.status \notin Active
           /\ UNCHANGED <<settleWorld, wasStop, record, outcome>>
<1> DEFINE row == Freeze(Reopen(settled))
<1>1. settled' = row /\ UNCHANGED <<settleWorld, wasStop, record, outcome>> /\ settler.pc = "idle"
  BY DEF BeginRecheck
<1>2. /\ row \in Settlements /\ row.status = settled.status /\ row.figure = settled.figure
      /\ row.costs = settled.costs
      /\ settled.figure \in ExchangeFigures => row.recon = settled.recon \/ row.recon = "CONFIRMED"
  BY RowIs DEF SettleShape
<1>3. CASE UNCHANGED settler
  BY <1>1, <1>2, <1>3 DEF SettleShape
<1>4. CASE /\ IsPending(row) /\ Probed(row.reason) # "unset"
           /\ settler' = [Resting EXCEPT !.pc = "apply", !.figure = Probed(row.reason)]
  <2>1. Probed(row.reason) \in ExchangeFigures /\ Probed(row.reason) \in Figures
    BY <1>4, ProbedIs DEF Figures
  <2>2. settled.status \notin Active
    BY <1>2, <1>4 DEF IsPending, Active
  <2> QED BY <1>1, <1>2, <1>4, <2>1, <2>2, RestingIs
<1> QED BY <1>3, <1>4 DEF BeginRecheck

LEMMA CrashEffect ==
    ASSUME SettleCrash
    PROVE  /\ settler' \in Settlers /\ settler'.pc = "idle" /\ "crash" \in settleWorld
           /\ UNCHANGED <<settleWorld, wasStop, record, settled, outcome>>
  BY RestingIs DEF SettleCrash, SettleFaulty

LEMMA SettleInitially == SettleInit => SettleInv
<1> SUFFICES ASSUME SettleInit PROVE SettleInv
  OBVIOUS
<1>1. settler \in Settlers /\ settler.pc = "idle"
  BY RestingIs DEF SettleInit
<1>2. record \in Records
  BY DEF SettleInit, Records
<1>3. CASE /\ settled = [status |-> "RUNNING", recon |-> "unset", reason |-> "unset",
                         figure |-> "unset", costs |-> 0, old |-> FALSE]
           /\ wasStop = "alive" /\ outcome = "unset"
  BY <1>1, <1>2, <1>3 DEF SettleInv, SettleShape, FirstFigure, Underway, Reported, Settlements, Ends,
     Figures, Active, ExchangeFigures
<1>4. CASE /\ settled = [status |-> "STOPPED", recon |-> "CONFIRMED", reason |-> "loss",
                         figure |-> "estimate", costs |-> 1, old |-> FALSE]
           /\ wasStop = "loss" /\ outcome = "estimate"
  BY <1>1, <1>2, <1>4 DEF SettleInv, SettleShape, FirstFigure, Underway, Reported, Settlements, Ends,
     Figures, Active, Estimates, ExchangeFigures
<1> QED BY <1>3, <1>4 DEF SettleInit

LEMMA SettleStep == SettleInv /\ [SettleNext]_settleVars => SettleInv'
<1> SUFFICES ASSUME SettleInv, [SettleNext]_settleVars PROVE SettleInv'
  OBVIOUS
<1> USE DEF SettleInv, SettleShape
<1>1. CASE BeginPass
  <2>1. SettleShape'
    BY <1>1, RestingIs DEF BeginPass, Settlements
  <2>2. FirstFigure'
    BY <1>1, RestingIs DEF BeginPass, FirstFigure, Underway, Settlers, Settlements, Active, Estimates, ExchangeFigures
  <2>3. Underway'
    BY <1>1, RestingIs DEF BeginPass, FirstFigure, Underway, Settlers, Settlements, Records, Active, Estimates, ExchangeFigures
  <2>4. Reported'
    BY <1>1, RestingIs DEF BeginPass, FirstFigure, Underway, Reported, Settlers, Settlements, Records, Active
  <2> QED BY <2>1, <2>2, <2>3, <2>4
<1>2. CASE CancelGrid
  <2>1. SettleShape'
    <3>1. settled' \in Settlements
      BY <1>2 DEF CancelGrid, Gone, Settlements, Ends, Active
    <3>2. settler' \in Settlers
      BY <1>2 DEF CancelGrid, Settlers
    <3>3. wasStop' \in Ends
      BY <1>2 DEF CancelGrid, Applied, Settlements
    <3> QED BY <1>2, <3>1, <3>2, <3>3 DEF CancelGrid
  <2>2. FirstFigure'
    BY <1>2 DEF CancelGrid, Gone, Applied, SettleFaulty, FirstFigure, Underway, Settlers, Settlements, Active, Estimates, ExchangeFigures
  <2>3. Underway'
    BY <1>2 DEF CancelGrid, Gone, Applied, SettleFaulty, FirstFigure, Underway, Settlers, Settlements, Records, Active, Estimates, ExchangeFigures
  <2>4. Reported'
    BY <1>2 DEF CancelGrid, Gone, Applied, SettleFaulty, FirstFigure, Underway, Reported, Settlers, Settlements, Records, Active
  <2> QED BY <2>1, <2>2, <2>3, <2>4
<1>3. CASE ReadDetail
  <2>1. SettleShape'
    BY <1>3, DetailEffect DEF FirstFigure, Underway, Settlers, Settlements, Records, Ends, NativeEnds, Active
  <2>2. FirstFigure'
    BY <1>3, DetailEffect DEF FirstFigure, Underway, Settlers, Settlements, Active, Estimates, ExchangeFigures
  <2>3. Underway'
    BY <1>3, DetailEffect DEF FirstFigure, Underway, Settlers, Settlements, Records, Active, Estimates, ExchangeFigures
  <2>4. Reported'
    BY <1>3, DetailEffect DEF FirstFigure, Underway, Reported, Settlers, Settlements, Records, Active
  <2> QED BY <2>1, <2>2, <2>3, <2>4
<1>4. CASE SweepClosed
  <2>1. SettleShape'
    BY <1>4, SweepEffect DEF FirstFigure, Underway, Settlers, Settlements, Records, Ends, NativeEnds, Active
  <2>2. FirstFigure'
    BY <1>4, SweepEffect DEF FirstFigure, Underway, Settlers, Settlements, Active, Estimates, ExchangeFigures
  <2>3. Underway'
    BY <1>4, SweepEffect DEF FirstFigure, Underway, Settlers, Settlements, Records, Active, Estimates, ExchangeFigures
  <2>4. Reported'
    BY <1>4, SweepEffect DEF FirstFigure, Underway, Reported, Settlers, Settlements, Records, Active
  <2> QED BY <2>1, <2>2, <2>3, <2>4
<1>5. CASE WriteFinal
  <2>1. SettleShape'
    BY <1>5, WriteEffect DEF FirstFigure, Underway, Settlers, Settlements, Records, Ends, NativeEnds, Active
  <2>2. FirstFigure'
    BY <1>5, WriteEffect DEF FirstFigure, Underway, Settlers, Settlements, Active, Estimates, ExchangeFigures
  <2>3. Underway'
    BY <1>5, WriteEffect DEF FirstFigure, Underway, Settlers, Settlements, Records, Active, Estimates, ExchangeFigures
  <2>4. Reported'
    BY <1>5, WriteEffect DEF FirstFigure, Underway, Reported, Settlers, Settlements, Records, Active
  <2> QED BY <2>1, <2>2, <2>3, <2>4
<1>6. CASE WriteOutcome
  <2>1. SettleShape'
    BY <1>6, OutcomeEffect DEF FirstFigure, Underway, Settlers, Settlements, Records, Ends, NativeEnds, Active
  <2>2. FirstFigure'
    BY <1>6, OutcomeEffect DEF FirstFigure, Underway, Settlers, Settlements, Active, Estimates, ExchangeFigures
  <2>3. Underway'
    BY <1>6, OutcomeEffect DEF FirstFigure, Underway, Settlers, Settlements, Records, Active, Estimates, ExchangeFigures
  <2>4. Reported'
    <3>1. /\ settler.pc = "outcome" /\ settler'.pc \in {"sweep", "idle"}
          /\ UNCHANGED <<settleWorld, record, settled>>
          /\ settled.recon = "CONFIRMED" /\ "outcome" \notin settleWorld => outcome' = settler.figure
      BY <1>6, OutcomeEffect
    <3>2. settled.status \in Active => ~record.detail
      BY <3>1 DEF Underway
    <3>3. settled.figure \in ExchangeFigures /\ "outcome" \notin settleWorld => outcome' = settled.figure
      BY <3>1 DEF FirstFigure, Underway, ExchangeFigures
    <3> QED BY <3>1, <3>2, <3>3 DEF Reported
  <2> QED BY <2>1, <2>2, <2>3, <2>4
<1>7. CASE ApplyFinal
  <2>1. SettleShape'
    BY <1>7, ApplyEffect DEF FirstFigure, Underway, Settlers, Settlements, Records, Ends, NativeEnds, Active
  <2>2. FirstFigure'
    BY <1>7, ApplyEffect DEF FirstFigure, Underway, Settlers, Settlements, Active, Estimates, ExchangeFigures
  <2>3. Underway'
    BY <1>7, ApplyEffect DEF FirstFigure, Underway, Settlers, Settlements, Records, Active, Estimates, ExchangeFigures
  <2>4. Reported'
    BY <1>7, ApplyEffect DEF FirstFigure, Underway, Reported, Settlers, Settlements, Records, Active
  <2> QED BY <2>1, <2>2, <2>3, <2>4
<1>8. CASE BeginRecheck
  <2>1. SettleShape'
    BY <1>8, RecheckEffect DEF FirstFigure, Underway, Settlers, Settlements, Records, Ends, NativeEnds, Active
  <2>2. FirstFigure'
    BY <1>8, RecheckEffect DEF FirstFigure, Underway, Settlers, Settlements, Active, Estimates, ExchangeFigures
  <2>3. Underway'
    BY <1>8, RecheckEffect DEF FirstFigure, Underway, Settlers, Settlements, Records, Active, Estimates, ExchangeFigures
  <2>4. Reported'
    BY <1>8, RecheckEffect DEF FirstFigure, Underway, Reported, Settlers, Settlements, Records, Active
  <2> QED BY <2>1, <2>2, <2>3, <2>4
<1>9. CASE DecideStop
  <2>1. SettleShape'
    <3>1. settled' \in Settlements
      BY <1>9 DEF DecideStop, Settlements, Ends, Active
    <3>2. settler' \in Settlers
      BY <1>9 DEF DecideStop, Settlers, Ends
    <3> QED BY <1>9, <3>1, <3>2 DEF DecideStop
  <2>2. FirstFigure'
    BY <1>9 DEF DecideStop, FirstFigure, Underway, Settlers, Settlements, Active, Estimates, ExchangeFigures
  <2>3. Underway'
    BY <1>9 DEF DecideStop, FirstFigure, Underway, Settlers, Settlements, Records, Active, Estimates, ExchangeFigures
  <2>4. Reported'
    BY <1>9 DEF DecideStop, FirstFigure, Underway, Reported, Settlers, Settlements, Records, Active
  <2> QED BY <2>1, <2>2, <2>3, <2>4
<1>10. CASE FinishedListed
  <2>1. SettleShape'
    BY <1>10 DEF FinishedListed, Records
  <2>2. FirstFigure'
    BY <1>10 DEF FinishedListed, FirstFigure, Underway, Settlers, Settlements, Active, Estimates, ExchangeFigures
  <2>3. Underway'
    BY <1>10 DEF FinishedListed, FirstFigure, Underway, Settlers, Settlements, Records, Active, Estimates, ExchangeFigures
  <2>4. Reported'
    BY <1>10 DEF FinishedListed, FirstFigure, Underway, Reported, Settlers, Settlements, Records, Active
  <2> QED BY <2>1, <2>2, <2>3, <2>4
<1>11. CASE TwoDaysPass
  <2>1. SettleShape'
    BY <1>11 DEF TwoDaysPass, Settlements
  <2>2. FirstFigure'
    BY <1>11 DEF TwoDaysPass, FirstFigure, Underway, Settlers, Settlements, Active, Estimates, ExchangeFigures
  <2>3. Underway'
    BY <1>11 DEF TwoDaysPass, FirstFigure, Underway, Settlers, Settlements, Records, Active, Estimates, ExchangeFigures
  <2>4. Reported'
    BY <1>11 DEF TwoDaysPass, FirstFigure, Underway, Reported, Settlers, Settlements, Records, Active
  <2> QED BY <2>1, <2>2, <2>3, <2>4
<1>12. CASE SettleCrash
  <2>1. SettleShape'
    BY <1>12, CrashEffect DEF FirstFigure, Underway, Settlers, Settlements, Records, Ends, NativeEnds, Active
  <2>2. FirstFigure'
    BY <1>12, CrashEffect DEF FirstFigure, Underway, Settlers, Settlements, Active, Estimates, ExchangeFigures
  <2>3. Underway'
    BY <1>12, CrashEffect DEF FirstFigure, Underway, Settlers, Settlements, Records, Active, Estimates, ExchangeFigures
  <2>4. Reported'
    BY <1>12, CrashEffect DEF FirstFigure, Underway, Reported, Settlers, Settlements, Records, Active
  <2> QED BY <2>1, <2>2, <2>3, <2>4
<1>13. CASE \E why \in NativeEnds : GridEnds(why)
  <2>1. SettleShape'
    BY <1>13 DEF GridEnds, FirstFigure, Underway, Settlers, Settlements, Records, Ends, NativeEnds, Active
  <2>2. FirstFigure'
    BY <1>13 DEF GridEnds, FirstFigure, Underway, Settlers, Settlements, Active, Estimates, ExchangeFigures
  <2>3. Underway'
    BY <1>13 DEF GridEnds, FirstFigure, Underway, Settlers, Settlements, Records, Active, Estimates, ExchangeFigures
  <2>4. Reported'
    BY <1>13 DEF GridEnds, FirstFigure, Underway, Reported, Settlers, Settlements, Records, Active
  <2> QED BY <2>1, <2>2, <2>3, <2>4
<1>14. CASE UNCHANGED settleVars
  <2>1. SettleShape'
    BY <1>14 DEF settleVars, FirstFigure, Underway, Settlers, Settlements, Records, Ends, NativeEnds, Active
  <2>2. FirstFigure'
    BY <1>14 DEF settleVars, FirstFigure, Underway, Settlers, Settlements, Active, Estimates, ExchangeFigures
  <2>3. Underway'
    BY <1>14 DEF settleVars, FirstFigure, Underway, Settlers, Settlements, Records, Active, Estimates, ExchangeFigures
  <2>4. Reported'
    BY <1>14 DEF settleVars, FirstFigure, Underway, Reported, Settlers, Settlements, Records, Active
  <2> QED BY <2>1, <2>2, <2>3, <2>4
<1> QED BY <1>1, <1>2, <1>3, <1>4, <1>5, <1>6, <1>7, <1>8, <1>9, <1>10, <1>11, <1>12, <1>13, <1>14 DEF SettleNext, ManageStep

LEMMA SettleHolds == SettleSpec => []SettleInv
  BY SettleInitially, SettleStep, PTL DEF SettleSpec

(* A grid's end is settled once: at most one closing cost, an exchange figure
   is confirmed, and it is the candidate's outcome; for any faults and any
   number of them. *)
THEOREM EndIsSettledOnce == SettleSpec => []SettledOnce
<1>1. SettleInv => SettledOnce
  BY DEF SettleInv, SettleShape, FirstFigure, Underway, Reported, Settlements, SettledOnce
<1> QED BY SettleHolds, <1>1, PTL

--------------------------------------------------------------------------
(* A non-empty set of natural numbers has a least one. *)
LEMMA LeastOne ==
    ASSUME NEW S, S \subseteq Nat, S # {}
    PROVE  \E i \in S : \A j \in S : i <= j
<1>1. \E i \in S : \A j \in S : ~(<<j, i>> \in OpToRel(<, Nat))
  BY NatLessThanWellFounded, WFMin
<1>2. \A i, j \in S : ~(<<j, i>> \in OpToRel(<, Nat)) => i <= j
  BY DEF OpToRel
<1> QED BY <1>1, <1>2

LEMMA IntentIs ==
    ASSUME dgtPass.intents \subseteq Slots, dgtPass.intents # {}
    PROVE  Intent \in dgtPass.intents
<1>1. Slots \subseteq Nat
  BY RedeployQueueAssumption DEF Slots
<1>2. \E i \in dgtPass.intents : \A j \in dgtPass.intents : i <= j
  BY <1>1, LeastOne
<1> QED BY <1>2 DEF Intent
--------------------------------------------------------------------------
\* RedeployQueue.

RowStatuses == Occupying \cup {"none", "settled", "failed"}
Rows ==
    [status : RowStatuses, reason : {"none", "BREAK_DOWN", "BREAK_UP", "OTHER"}, neutral : BOOLEAN,
     pending : {"none", "fresh", "stale", "lapsed"},
     done : {"no", "disabled", "expired", "flip_short", "blocked", "deployed"},
     parent : {0} \cup Slots, shape : {0, 1, 2}]
Attempting == {"judge", "create", "submit", "log", "consume"}
Attempts ==
    [pc : {"idle", "queue", "intents"} \cup Attempting, intents : SUBSET Slots, shape : {0, 1, 2},
     bot : {0} \cup Slots, outcome : {"none", "disabled", "expired", "blocked", "deployed"}]
RedeployShape ==
    /\ dgtGrids \in [Slots -> Rows] /\ dgtPass \in Attempts
    /\ redeploys \in Nat /\ dgtWorld \in RedeployWorlds

(* Only settled rows are marked, or have been re-deployed. *)
OnlySettled ==
    /\ \A i \in Slots : dgtGrids[i].done # "no" => dgtGrids[i].status = "settled"
    /\ \A i, p \in Slots : dgtGrids[i].parent = p => dgtGrids[p].status = "settled"

(* A pass works on rows that it read as settled, and nothing leaves that
   status. *)
PassHolds ==
    /\ dgtPass.pc = "queue" => dgtPass.intents # {}
    /\ dgtPass.pc \in Attempting =>
         dgtPass.intents # {} /\ \A i \in dgtPass.intents : dgtGrids[i].status = "settled"
    /\ dgtPass.pc \in {"log", "consume"} => dgtPass.outcome # "none"
    /\ dgtPass.pc = "submit" => /\ dgtPass.bot \in Slots /\ dgtGrids[dgtPass.bot].status = "pending"

LEMMA IdleIs == IdleDgt \in Attempts /\ IdleDgt.pc = "idle" /\ IdleDgt.intents = {}
  BY DEF IdleDgt, Attempts
LEMMA IdleAt ==
    /\ \A pc \in {"intents"} : LET a == [IdleDgt EXCEPT !.pc = pc] IN a \in Attempts /\ a.pc = pc
    /\ \A pc \in {"queue", "judge"}, intents \in SUBSET Slots :
          LET a == [IdleDgt EXCEPT !.pc = pc, !.intents = intents]
          IN  a \in Attempts /\ a.pc = pc /\ a.intents = intents
  BY DEF IdleDgt, Attempts, Attempting
LEMMA NextIs ==
    ASSUME dgtPass \in Attempts
    PROVE  /\ NextIntent \in Attempts
           /\ NextIntent.pc = "idle" \/ (NextIntent.pc = "judge" /\ NextIntent.intents # {}
                                   /\ NextIntent.intents = dgtPass.intents \ {Intent})
<1> DEFINE left == dgtPass.intents \ {Intent}
<1>1. left \subseteq Slots
  BY DEF Attempts
<1>2. CASE left = {}
  BY <1>2, IdleIs DEF NextIntent
<1>3. CASE left # {}
  <2>1. NextIntent = [IdleDgt EXCEPT !.pc = "judge", !.intents = left]
    BY <1>3 DEF NextIntent
  <2> QED BY <1>1, <1>3, <2>1, IdleAt
<1> QED BY <1>2, <1>3
LEMMA OutcomeIs ==
    ASSUME dgtPass \in Attempts, NEW result \in {"disabled", "expired", "blocked", "deployed"}
    PROVE  /\ Outcome(result) \in Attempts /\ Outcome(result).pc = "consume"
           /\ Outcome(result).intents = dgtPass.intents /\ Outcome(result).outcome = result
  BY DEF Outcome, Attempts, Attempting

LEMMA MayIs ==
    ASSUME NEW fault, NEW lost \in May(fault)
    PROVE  lost \in BOOLEAN /\ (lost => fault \in dgtWorld)
  BY DEF May

(* How a step changes rows. *)
KeepsKin == \A k \in Slots : /\ dgtGrids'[k].parent = dgtGrids[k].parent
                             /\ dgtGrids'[k].shape = dgtGrids[k].shape
KeepsMarks == \A k \in Slots : dgtGrids'[k].done = dgtGrids[k].done
KeepsStatus == \A k \in Slots : dgtGrids'[k].status = dgtGrids[k].status
Turns(i, before, after) ==
    /\ dgtGrids[i].status \in before /\ dgtGrids'[i].status \in after
    /\ \A k \in Slots \ {i} : dgtGrids'[k].status = dgtGrids[k].status
    /\ KeepsKin /\ KeepsMarks
Adds(row) ==
    /\ dgtGrids[row].status = "none" /\ dgtGrids'[row].status \in {"pending", "running"}
    /\ \A k \in Slots : k < row => dgtGrids[k].status # "none"
    /\ dgtGrids'[row].done = "no"
    /\ \A k \in Slots \ {row} : dgtGrids'[k] = dgtGrids[k]
Marks(i, marked) ==
    /\ KeepsKin /\ KeepsStatus
    /\ \A k \in Slots \ {i} : dgtGrids'[k].done = dgtGrids[k].done
    /\ IF marked THEN dgtGrids'[i].done # "no" ELSE dgtGrids'[i].done = dgtGrids[i].done

LEMMA BreakEffect ==
    ASSUME RedeployShape, BreakGrid
    PROVE  /\ dgtGrids' \in [Slots -> Rows] /\ dgtPass' \in Attempts /\ dgtPass.pc = "idle"
           /\ \E i \in Slots : /\ Turns(i, {"running"}, {"stopping"})
                               /\ dgtPass'.pc = "intents" \/ (dgtPass'.pc = "queue" /\ dgtPass'.intents = {i})
<1> PICK i \in Slots, reason \in {"BREAK_DOWN", "BREAK_UP", "OTHER"} :
         /\ dgtGrids[i].status = "running"
         /\ dgtGrids' = [dgtGrids EXCEPT ![i].status = "stopping", ![i].reason = reason]
         /\ dgtPass' = IF reason = "OTHER" THEN [IdleDgt EXCEPT !.pc = "intents"]
                       ELSE [IdleDgt EXCEPT !.pc = "queue", !.intents = {i}]
  BY DEF BreakGrid
<1>1. dgtGrids' \in [Slots -> Rows]
  <2>1. [dgtGrids[i] EXCEPT !.status = "stopping", !.reason = reason] \in Rows
    <3> DEFINE old == dgtGrids[i]
    <3>1. old \in Rows
      BY DEF RedeployShape
    <3>2. "stopping" \in RowStatuses /\ reason \in {"none", "BREAK_DOWN", "BREAK_UP", "OTHER"}
      BY DEF RowStatuses, Occupying
    <3> HIDE DEF old
    <3>3. [old EXCEPT !.status = "stopping", !.reason = reason] \in Rows
      BY <3>1, <3>2 DEF Rows
    <3> QED BY <3>3 DEF old
  <2>2. dgtGrids' = [dgtGrids EXCEPT ![i] = [dgtGrids[i] EXCEPT !.status = "stopping", !.reason = reason]]
    BY DEF RedeployShape, Rows
  <2> QED BY <2>1, <2>2 DEF RedeployShape
<1>2. Turns(i, {"running"}, {"stopping"})
  BY DEF Turns, KeepsKin, KeepsMarks, RedeployShape, Rows
<1>3. /\ dgtPass' \in Attempts
      /\ dgtPass'.pc = "intents" \/ (dgtPass'.pc = "queue" /\ dgtPass'.intents = {i})
  BY IdleAt
<1> QED BY <1>1, <1>2, <1>3 DEF BreakGrid

LEMMA QueueEffect ==
    ASSUME RedeployShape, PassHolds, QueueIntent
    PROVE  /\ dgtGrids' \in [Slots -> Rows] /\ dgtPass' \in Attempts /\ dgtPass.pc = "queue"
           /\ dgtPass'.pc = "intents" /\ KeepsKin /\ KeepsMarks /\ KeepsStatus
<1>1. Intent \in Slots
  BY IntentIs DEF QueueIntent, PassHolds, RedeployShape, Attempts
<1>2. CASE UNCHANGED dgtGrids
  BY <1>2, IdleAt DEF QueueIntent, RedeployShape, KeepsKin, KeepsMarks, KeepsStatus
<1>3. CASE dgtGrids' = [dgtGrids EXCEPT ![Intent].pending = "fresh"]
  <2>1. dgtGrids' \in [Slots -> Rows]
    BY <1>1, <1>3 DEF RedeployShape, Rows
  <2>2. KeepsKin /\ KeepsMarks /\ KeepsStatus
    BY <1>1, <1>3 DEF RedeployShape, Rows, KeepsKin, KeepsMarks, KeepsStatus
  <2> QED BY <2>1, <2>2, IdleAt DEF QueueIntent
<1> QED BY <1>2, <1>3 DEF QueueIntent

LEMMA SettleEffect ==
    ASSUME RedeployShape, Settle
    PROVE  /\ dgtGrids' \in [Slots -> Rows] /\ dgtPass' \in Attempts
           /\ dgtPass.pc = "idle" /\ dgtPass'.pc = "intents"
           /\ \E i \in Slots : Turns(i, {"stopping", "running"}, {"settled"})
<1> PICK i \in Slots :
         /\ dgtGrids[i].status \in {"stopping", "running"}
         /\ dgtGrids' = [dgtGrids EXCEPT ![i].status = "settled",
                            ![i].reason = IF dgtGrids[i].status = "running" THEN "OTHER" ELSE @]
  BY DEF Settle
<1> DEFINE reason == IF dgtGrids[i].status = "running" THEN "OTHER" ELSE dgtGrids[i].reason
           row == [dgtGrids[i] EXCEPT !.status = "settled", !.reason = reason]
<1>1. dgtGrids' \in [Slots -> Rows]
  <2>1. reason \in {"none", "BREAK_DOWN", "BREAK_UP", "OTHER"}
    BY DEF RedeployShape, Rows
  <2>2. row \in Rows
    <3> DEFINE old == dgtGrids[i]
    <3>1. old \in Rows /\ "settled" \in RowStatuses
      BY DEF RedeployShape, RowStatuses
    <3> HIDE DEF reason, old
    <3>2. [old EXCEPT !.status = "settled", !.reason = reason] \in Rows
      BY <2>1, <3>1 DEF Rows
    <3> QED BY <3>2 DEF old
  <2>3. dgtGrids' = [dgtGrids EXCEPT ![i] = row]
    BY DEF RedeployShape, Rows
  <2> QED BY <2>2, <2>3 DEF RedeployShape
<1>2. Turns(i, {"stopping", "running"}, {"settled"})
  BY DEF Turns, KeepsKin, KeepsMarks, RedeployShape, Rows
<1> QED BY <1>1, <1>2, IdleAt DEF Settle

LEMMA ResolveEffect ==
    ASSUME RedeployShape, ResolveRedeploy
    PROVE  /\ dgtGrids' \in [Slots -> Rows] /\ dgtPass' \in Attempts
           /\ dgtPass.pc = "idle" /\ dgtPass'.pc = "intents"
           /\ \E i \in Slots : Turns(i, {"pending", "unknown"}, {"running", "failed"})
<1> PICK i \in Slots, status \in {"running", "failed"} :
         /\ dgtGrids[i].status \in {"pending", "unknown"}
         /\ dgtGrids' = [dgtGrids EXCEPT ![i].status = status]
  BY DEF ResolveRedeploy
<1>1. dgtGrids' \in [Slots -> Rows]
  BY DEF RedeployShape, Rows, RowStatuses, Occupying
<1>2. Turns(i, {"pending", "unknown"}, {"running", "failed"})
  BY DEF Turns, KeepsKin, KeepsMarks, RedeployShape, Rows
<1> QED BY <1>1, <1>2, IdleAt DEF ResolveRedeploy

LEMMA AgesEffect ==
    ASSUME RedeployShape, IntentAges
    PROVE  /\ dgtGrids' \in [Slots -> Rows] /\ UNCHANGED dgtPass /\ dgtPass.pc = "idle"
           /\ KeepsKin /\ KeepsMarks /\ KeepsStatus
<1> PICK i \in Slots, pending \in {"stale", "lapsed"} :
         dgtGrids' = [dgtGrids EXCEPT ![i].pending = pending]
  BY DEF IntentAges
<1>1. dgtGrids' \in [Slots -> Rows]
  BY DEF RedeployShape, Rows
<1>2. KeepsKin /\ KeepsMarks /\ KeepsStatus
  BY DEF RedeployShape, Rows, KeepsKin, KeepsMarks, KeepsStatus
<1> QED BY <1>1, <1>2 DEF IntentAges

LEMMA ScannerEffect ==
    ASSUME RedeployShape, ScannerDeploys
    PROVE  /\ dgtGrids' \in [Slots -> Rows] /\ UNCHANGED dgtPass /\ Occupied = {}
           /\ \E row \in Slots : Adds(row) /\ dgtGrids'[row].parent = 0
<1> PICK row \in FreeRow : dgtGrids' = [dgtGrids EXCEPT ![row] = [NoGrid EXCEPT !.status = "running"]]
  BY DEF ScannerDeploys
<1>1. /\ row \in Slots /\ dgtGrids[row].status = "none"
      /\ \A k \in Slots : k < row => dgtGrids[k].status # "none"
  BY DEF FreeRow
<1>2. [NoGrid EXCEPT !.status = "running"] \in Rows
  BY DEF NoGrid, Rows, RowStatuses, Occupying
<1>3. dgtGrids' \in [Slots -> Rows]
  BY <1>1, <1>2 DEF RedeployShape
<1>4. Adds(row) /\ dgtGrids'[row].parent = 0
  BY <1>1 DEF RedeployShape, Adds, NoGrid
<1> QED BY <1>1, <1>3, <1>4 DEF ScannerDeploys

LEMMA TakeEffect ==
    ASSUME TakeIntents
    PROVE  /\ UNCHANGED dgtGrids /\ dgtPass' \in Attempts /\ dgtPass.pc \in {"idle", "intents"}
           /\ dgtPass'.pc = "idle" \/
                /\ dgtPass'.pc = "judge" /\ dgtPass'.intents # {}
                /\ \A i \in dgtPass'.intents : dgtGrids[i].status = "settled" /\ dgtGrids[i].done = "no"
<1> DEFINE ready == {i \in Slots : Ready(i)}
<1>1. CASE ready = {}
  BY <1>1, IdleIs DEF TakeIntents
<1>2. CASE ready # {}
  <2>1. dgtPass' = [IdleDgt EXCEPT !.pc = "judge", !.intents = ready]
    BY <1>2 DEF TakeIntents
  <2>2. ready \subseteq Slots /\ \A i \in ready : dgtGrids[i].status = "settled" /\ dgtGrids[i].done = "no"
    BY DEF Ready
  <2>3. dgtPass' \in Attempts /\ dgtPass'.pc = "judge" /\ dgtPass'.intents = ready
    <3> HIDE DEF ready
    <3> QED BY <2>1, <2>2, IdleAt
  <2> QED BY <1>2, <2>2, <2>3 DEF TakeIntents
<1> QED BY <1>1, <1>2

LEMMA DropEffect ==
    ASSUME RedeployShape, DropIntent
    PROVE  /\ UNCHANGED dgtGrids /\ dgtPass' \in Attempts /\ dgtPass.pc = "judge"
           /\ dgtPass'.pc = "consume" /\ dgtPass'.intents = dgtPass.intents
           /\ dgtPass'.outcome # "none"
  BY OutcomeIs DEF DropIntent, RedeployShape

LEMMA FlipEffect ==
    ASSUME RedeployShape, PassHolds, FlipToCascadeShort
    PROVE  /\ dgtGrids' \in [Slots -> Rows] /\ dgtPass' \in Attempts /\ dgtPass.pc = "judge"
           /\ dgtPass' = NextIntent
           /\ \E lost \in BOOLEAN : (lost => "mark_lost" \in dgtWorld) /\ Marks(Intent, ~lost)
<1>1. Intent \in Slots /\ dgtPass.pc = "judge"
  BY IntentIs DEF FlipToCascadeShort, PassHolds, RedeployShape, Attempts, Attempting
<1>2. PICK lost \in May("mark_lost") :
        dgtGrids' = IF lost THEN dgtGrids ELSE [dgtGrids EXCEPT ![Intent].done = "flip_short"]
  BY DEF FlipToCascadeShort
<1>3. lost \in BOOLEAN /\ (lost => "mark_lost" \in dgtWorld)
  BY MayIs
<1>4. dgtGrids' \in [Slots -> Rows]
  BY <1>1, <1>2, <1>3 DEF RedeployShape, Rows
<1>5. Marks(Intent, ~lost)
  BY <1>1, <1>2, <1>3 DEF RedeployShape, Rows, Marks, KeepsKin, KeepsStatus
<1> QED BY <1>1, <1>3, <1>4, <1>5, NextIs DEF FlipToCascadeShort, RedeployShape

LEMMA JudgeEffect ==
    ASSUME RedeployShape, JudgeRedeploy
    PROVE  /\ UNCHANGED dgtGrids /\ dgtPass' \in Attempts /\ dgtPass.pc = "judge"
           /\ dgtPass'.intents = dgtPass.intents
           /\ \/ dgtPass'.pc = "consume" /\ dgtPass'.outcome # "none"
              \/ /\ dgtPass'.pc = "create"
                 /\ redeploys < LadderCap \/ ("count_error" \in dgtWorld /\ dgtLeft' = dgtLeft - 1)
                 /\ dgtPass'.shape = 1 \/ "new_geometry" \in dgtWorld
<1>1. CASE dgtPass' = Outcome("blocked")
  BY <1>1, OutcomeIs DEF JudgeRedeploy, RedeployShape
<1>2. ASSUME NEW shape \in {1} \cup {s \in {2} : "new_geometry" \in dgtWorld},
             dgtPass' = [dgtPass EXCEPT !.pc = "create", !.shape = shape]
      PROVE  /\ dgtPass' \in Attempts /\ dgtPass'.intents = dgtPass.intents
             /\ dgtPass'.pc = "create" /\ (dgtPass'.shape = 1 \/ "new_geometry" \in dgtWorld)
  BY <1>2 DEF RedeployShape, Attempts, Attempting
<1>3. ASSUME NEW uncounted \in May("count_error"), NEW unseen \in May("count_error"),
             redeploys < LadderCap \/ uncounted, Pays(uncounted \/ unseen)
      PROVE  redeploys < LadderCap \/ ("count_error" \in dgtWorld /\ dgtLeft' = dgtLeft - 1)
  <2>1. CASE uncounted
    <3>1. "count_error" \in dgtWorld
      BY <2>1, MayIs
    <3>2. dgtLeft' = dgtLeft - 1
      BY <1>3, <2>1, Zenon DEF Pays
    <3> QED BY <3>1, <3>2
  <2> QED BY <1>3, <2>1
<1>4. UNCHANGED dgtGrids /\ dgtPass.pc = "judge"
  BY DEF JudgeRedeploy
<1>5. ASSUME dgtPass' # Outcome("blocked")
      PROVE  \E uncounted, unseen \in May("count_error") :
               /\ redeploys < LadderCap \/ uncounted
               /\ Pays(uncounted \/ unseen)
               /\ \E shape \in {1} \cup {s \in {2} : "new_geometry" \in dgtWorld} :
                    dgtPass' = [dgtPass EXCEPT !.pc = "create", !.shape = shape]
  BY <1>5, Zenon DEF JudgeRedeploy
<1> QED BY <1>1, <1>2, <1>3, <1>4, <1>5

LEMMA CreateEffect ==
    ASSUME RedeployShape, PassHolds, CreateRedeploy
    PROVE  /\ dgtGrids' \in [Slots -> Rows] /\ dgtPass' \in Attempts /\ dgtPass.pc = "create"
           /\ dgtPass'.intents = dgtPass.intents
           /\ \/ UNCHANGED dgtGrids /\ dgtPass'.pc = "consume" /\ dgtPass'.outcome # "none"
              \/ UNCHANGED dgtGrids /\ dgtPass'.pc = "log" /\ dgtPass'.outcome # "none"
              \/ \E row \in Slots :
                   /\ Adds(row) /\ dgtGrids'[row].status = "pending" /\ dgtGrids'[row].parent = Intent
                   /\ dgtGrids'[row].shape = dgtPass.shape
                   /\ \A i \in Slots : dgtGrids[i].parent = Intent => dgtGrids[i].shape # dgtPass.shape
                   /\ dgtPass'.pc = "submit" /\ dgtPass'.bot = row
<1>1. Intent \in Slots /\ dgtPass.pc = "create"
  BY IntentIs DEF CreateRedeploy, PassHolds, RedeployShape, Attempts, Attempting
<1>2. CASE dgtPass' = Outcome("blocked") /\ UNCHANGED dgtGrids
  BY <1>1, <1>2, OutcomeIs DEF RedeployShape
<1>3. CASE dgtPass' = [dgtPass EXCEPT !.pc = "log", !.outcome = "deployed"] /\ UNCHANGED dgtGrids
  BY <1>1, <1>3 DEF RedeployShape, Attempts, Attempting
<1>4. ASSUME SameRequest(dgtPass.shape) = {}, NEW row \in FreeRow,
             dgtGrids' = [dgtGrids EXCEPT ![row] =
                [NoGrid EXCEPT !.status = "pending", !.parent = Intent,
                               !.neutral = dgtGrids[Intent].neutral, !.shape = dgtPass.shape]],
             dgtPass' = [dgtPass EXCEPT !.pc = "submit", !.bot = row]
      PROVE  /\ dgtGrids' \in [Slots -> Rows] /\ dgtPass' \in Attempts
             /\ dgtPass'.intents = dgtPass.intents
             /\ Adds(row) /\ dgtGrids'[row].status = "pending" /\ dgtGrids'[row].parent = Intent
             /\ dgtGrids'[row].shape = dgtPass.shape
             /\ \A i \in Slots : dgtGrids[i].parent = Intent => dgtGrids[i].shape # dgtPass.shape
             /\ dgtPass'.pc = "submit" /\ dgtPass'.bot = row
  <2> DEFINE new == [NoGrid EXCEPT !.status = "pending", !.parent = Intent,
                               !.neutral = dgtGrids[Intent].neutral, !.shape = dgtPass.shape]
  <2>1. /\ row \in Slots /\ dgtGrids[row].status = "none"
        /\ \A k \in Slots : k < row => dgtGrids[k].status # "none"
    BY DEF FreeRow
  <2>2. new \in Rows /\ new.status = "pending" /\ new.parent = Intent /\ new.shape = dgtPass.shape
        /\ new.done = "no"
    BY <1>1 DEF NoGrid, Rows, RowStatuses, Occupying, RedeployShape, Attempts
  <2>3. dgtGrids' = [dgtGrids EXCEPT ![row] = new]
    BY <1>4
  <2> HIDE DEF new
  <2>4. dgtGrids' \in [Slots -> Rows] /\ Adds(row) /\ dgtGrids'[row] = new
    BY <2>1, <2>2, <2>3 DEF RedeployShape, Adds
  <2>5. dgtPass' \in Attempts /\ dgtPass'.intents = dgtPass.intents /\ dgtPass'.pc = "submit" /\ dgtPass'.bot = row
    BY <1>4, <2>1 DEF RedeployShape, Attempts, Attempting
  <2>6. \A i \in Slots : dgtGrids[i].parent = Intent => dgtGrids[i].shape # dgtPass.shape
    BY <1>4 DEF SameRequest
  <2> QED BY <2>2, <2>4, <2>5, <2>6
<1>5. \A row \in FreeRow : row \in Slots
  BY DEF FreeRow
<1> QED BY <1>1, <1>2, <1>3, <1>4, <1>5 DEF CreateRedeploy

LEMMA SubmitEffect ==
    ASSUME RedeployShape, PassHolds, SubmitRedeploy
    PROVE  /\ dgtGrids' \in [Slots -> Rows] /\ dgtPass' \in Attempts /\ dgtPass.pc = "submit"
           /\ dgtPass'.intents = dgtPass.intents /\ dgtPass'.outcome # "none"
           /\ \/ Turns(dgtPass.bot, {"pending"}, {"running"}) /\ dgtPass'.pc = "log"
              \/ Turns(dgtPass.bot, {"pending"}, {"failed"}) /\ dgtPass'.pc = "consume"
              \/ /\ Turns(dgtPass.bot, {"pending"}, {"unknown"}) /\ dgtPass'.pc = "consume"
                 /\ "unknown" \in dgtWorld
<1>1. dgtPass.pc = "submit" /\ dgtPass.bot \in Slots /\ dgtGrids[dgtPass.bot].status = "pending"
  BY DEF SubmitRedeploy, PassHolds
<1>2. ASSUME NEW status \in {"running", "failed", "unknown"},
             dgtGrids' = [dgtGrids EXCEPT ![dgtPass.bot].status = status]
      PROVE  dgtGrids' \in [Slots -> Rows] /\ Turns(dgtPass.bot, {"pending"}, {status})
  BY <1>1, <1>2 DEF RedeployShape, Rows, RowStatuses, Occupying, Turns, KeepsKin, KeepsMarks
<1>3. LET a == [dgtPass EXCEPT !.pc = "log", !.outcome = "deployed"]
      IN  a \in Attempts /\ a.pc = "log" /\ a.intents = dgtPass.intents /\ a.outcome = "deployed"
  BY DEF RedeployShape, Attempts, Attempting
<1>4. CASE /\ dgtGrids' = [dgtGrids EXCEPT ![dgtPass.bot].status = "running"]
           /\ dgtPass' = [dgtPass EXCEPT !.pc = "log", !.outcome = "deployed"]
  BY <1>1, <1>2, <1>3, <1>4
<1>5. CASE /\ dgtGrids' = [dgtGrids EXCEPT ![dgtPass.bot].status = "failed"] /\ dgtPass' = Outcome("blocked")
  BY <1>1, <1>2, <1>5, OutcomeIs DEF RedeployShape
<1>6. CASE /\ "unknown" \in dgtWorld /\ dgtPass' = Outcome("blocked")
           /\ dgtGrids' = [dgtGrids EXCEPT ![dgtPass.bot].status = "unknown"]
  BY <1>1, <1>2, <1>6, OutcomeIs DEF RedeployShape
<1> QED BY <1>4, <1>5, <1>6 DEF SubmitRedeploy

LEMMA LogEffect ==
    ASSUME RedeployShape, LogRedeploy
    PROVE  /\ UNCHANGED dgtGrids /\ dgtPass' \in Attempts /\ dgtPass.pc = "log"
           /\ dgtPass'.pc = "consume" /\ dgtPass'.intents = dgtPass.intents
           /\ dgtPass'.outcome = dgtPass.outcome
           /\ redeploys' = redeploys + 1 \/ (redeploys' = redeploys /\ "event_lost" \in dgtWorld)
<1>1. PICK unlogged \in May("event_lost") : redeploys' = IF unlogged THEN redeploys ELSE redeploys + 1
  BY DEF LogRedeploy
<1>2. redeploys' = redeploys + 1 \/ (redeploys' = redeploys /\ "event_lost" \in dgtWorld)
  BY <1>1, MayIs
<1> QED BY <1>2 DEF LogRedeploy, RedeployShape, Attempts, Attempting

LEMMA ConsumeEffect ==
    ASSUME RedeployShape, PassHolds, ConsumeIntent
    PROVE  /\ dgtGrids' \in [Slots -> Rows] /\ dgtPass' \in Attempts /\ dgtPass.pc = "consume"
           /\ dgtPass' = NextIntent
           /\ \E lost \in BOOLEAN : (lost => "mark_lost" \in dgtWorld) /\ Marks(Intent, ~lost)
<1>1. Intent \in Slots /\ dgtPass.pc = "consume"
  BY IntentIs DEF ConsumeIntent, PassHolds, RedeployShape, Attempts, Attempting
<1>2. PICK lost \in May("mark_lost") :
        dgtGrids' = IF lost THEN dgtGrids ELSE [dgtGrids EXCEPT ![Intent].done = dgtPass.outcome]
  BY DEF ConsumeIntent
<1>3. lost \in BOOLEAN /\ (lost => "mark_lost" \in dgtWorld)
  BY MayIs
<1>4. dgtPass.outcome \in {"disabled", "expired", "blocked", "deployed"}
  BY <1>1 DEF RedeployShape, PassHolds, Attempts
<1>5. dgtGrids' \in [Slots -> Rows]
  BY <1>1, <1>2, <1>3, <1>4 DEF RedeployShape, Rows
<1>6. Marks(Intent, ~lost)
  BY <1>1, <1>2, <1>3, <1>4 DEF RedeployShape, Rows, Marks, KeepsKin, KeepsStatus
<1> QED BY <1>1, <1>3, <1>5, <1>6, NextIs DEF ConsumeIntent, RedeployShape

LEMMA DgtCrashEffect ==
    ASSUME DgtCrash
    PROVE  UNCHANGED dgtGrids /\ dgtPass' \in Attempts /\ dgtPass'.pc = "idle" /\ "crash" \in dgtWorld
  BY IdleIs DEF DgtCrash

LEMMA RedeployInitially == DgtInit => RedeployShape /\ OnlySettled /\ PassHolds
<1> SUFFICES ASSUME DgtInit PROVE RedeployShape /\ OnlySettled /\ PassHolds
  OBVIOUS
<1> PICK neutral \in BOOLEAN :
      dgtGrids = [i \in Slots |-> IF i = 1 THEN [NoGrid EXCEPT !.status = "running", !.neutral = neutral]
                                  ELSE NoGrid]
  BY DEF DgtInit
<1>1. [NoGrid EXCEPT !.status = "running", !.neutral = neutral] \in Rows /\ NoGrid \in Rows
  BY DEF NoGrid, Rows, RowStatuses, Occupying
<1>2. \A i \in Slots : dgtGrids[i].done = "no" /\ dgtGrids[i].parent = 0
  BY DEF NoGrid
<1>3. \A i \in Slots : i # 0
  BY DEF Slots
<1> QED BY <1>1, <1>2, <1>3, IdleIs DEF DgtInit, RedeployShape, OnlySettled, PassHolds, Attempting

LEMMA CountersKept ==
    ASSUME RedeployShape, [DgtNext]_dgtVars
    PROVE  dgtWorld' = dgtWorld /\ redeploys' \in {redeploys, redeploys + 1}
  BY DEF RedeployShape, DgtNext, DgtStep, BreakGrid, QueueIntent, Settle, TakeIntents, DropIntent,
     FlipToCascadeShort, JudgeRedeploy, CreateRedeploy, SubmitRedeploy, LogRedeploy, ConsumeIntent,
     DgtCrash, ResolveRedeploy, ScannerDeploys, IntentAges, dgtVars

(* Nothing leaves the status settled; a mark, a child is a settled row's. *)
LEMMA RowsStay ==
    ASSUME RedeployShape, OnlySettled,
           \/ UNCHANGED dgtGrids
           \/ KeepsKin /\ KeepsMarks /\ KeepsStatus
           \/ \E i \in Slots, before \in SUBSET (RowStatuses \ {"settled"}), after \in SUBSET RowStatuses :
                 Turns(i, before, after)
           \/ \E i \in Slots, marked \in BOOLEAN : dgtGrids[i].status = "settled" /\ Marks(i, marked)
           \/ \E row \in Slots : /\ Adds(row)
                                 /\ \A p \in Slots : dgtGrids'[row].parent = p => dgtGrids[p].status = "settled"
    PROVE  /\ OnlySettled'
           /\ \A i \in Slots : dgtGrids[i].status = "settled" => dgtGrids'[i].status = "settled"
<1>1. CASE UNCHANGED dgtGrids
  BY <1>1 DEF OnlySettled
<1>2. CASE KeepsKin /\ KeepsMarks /\ KeepsStatus
  BY <1>2 DEF OnlySettled, KeepsKin, KeepsMarks, KeepsStatus
<1>3. ASSUME NEW i \in Slots, NEW before \in SUBSET (RowStatuses \ {"settled"}), NEW after \in SUBSET RowStatuses,
             Turns(i, before, after)
      PROVE  /\ OnlySettled'
             /\ \A k \in Slots : dgtGrids[k].status = "settled" => dgtGrids'[k].status = "settled"
  BY <1>3 DEF Turns, KeepsKin, KeepsMarks, OnlySettled
<1>4. ASSUME NEW i \in Slots, NEW marked \in BOOLEAN, dgtGrids[i].status = "settled", Marks(i, marked)
      PROVE  /\ OnlySettled'
             /\ \A k \in Slots : dgtGrids[k].status = "settled" => dgtGrids'[k].status = "settled"
  BY <1>4 DEF Marks, KeepsKin, KeepsStatus, OnlySettled
<1>5. ASSUME NEW row \in Slots, Adds(row),
             \A p \in Slots : dgtGrids'[row].parent = p => dgtGrids[p].status = "settled"
      PROVE  /\ OnlySettled'
             /\ \A k \in Slots : dgtGrids[k].status = "settled" => dgtGrids'[k].status = "settled"
  BY <1>5 DEF Adds, OnlySettled
<1> QED BY <1>1, <1>2, <1>3, <1>4, <1>5

LEMMA RedeployStep ==
    ASSUME RedeployShape, OnlySettled, PassHolds, [DgtNext]_dgtVars
    PROVE  RedeployShape' /\ OnlySettled' /\ PassHolds'
<1>0. /\ dgtWorld' \in RedeployWorlds /\ redeploys' \in Nat
      /\ \A i \in Slots : i # 0
  BY CountersKept DEF RedeployShape, Slots
<1> DEFINE Stays == \A i \in Slots : dgtGrids[i].status = "settled" => dgtGrids'[i].status = "settled"
<1>i. ASSUME dgtPass.pc \in Attempting PROVE Intent \in Slots /\ dgtGrids[Intent].status = "settled"
  BY <1>i, IntentIs DEF RedeployShape, PassHolds, Attempts
<1>a. dgtPass \in Attempts
  BY DEF RedeployShape
<1>p. dgtPass.intents \subseteq Slots
  BY DEF RedeployShape, Attempts
<1>1. CASE BreakGrid
  <2>1. OnlySettled' /\ Stays
    BY <1>1, BreakEffect, RowsStay DEF RowStatuses, Occupying
  <2> QED BY <1>0, <1>1, <2>1, BreakEffect DEF RedeployShape, PassHolds, Attempting
<1>2. CASE QueueIntent
  <2>1. OnlySettled' /\ Stays
    BY <1>2, QueueEffect, RowsStay
  <2> QED BY <1>0, <1>2, <2>1, QueueEffect DEF RedeployShape, PassHolds, Attempting
<1>3. CASE Settle
  <2>1. OnlySettled' /\ Stays
    BY <1>3, SettleEffect, RowsStay DEF RowStatuses, Occupying
  <2> QED BY <1>0, <1>3, <2>1, SettleEffect DEF RedeployShape, PassHolds, Attempting
<1>4. CASE TakeIntents
  <2>1. OnlySettled' /\ Stays
    BY <1>4, TakeEffect, RowsStay
  <2> QED BY <1>0, <1>4, <2>1, TakeEffect DEF RedeployShape, PassHolds, Attempting
<1>5. CASE DropIntent
  <2>1. OnlySettled' /\ Stays
    BY <1>5, DropEffect, RowsStay
  <2> QED BY <1>0, <1>5, <2>1, DropEffect DEF RedeployShape, PassHolds, Attempting
<1>6. CASE FlipToCascadeShort
  <2>1. OnlySettled' /\ Stays
    BY <1>6, <1>i, FlipEffect, RowsStay DEF Attempting
  <2>2. /\ dgtPass.pc \in Attempting /\ dgtGrids' \in [Slots -> Rows] /\ dgtPass' \in Attempts
        /\ \/ dgtPass'.pc = "idle"
           \/ dgtPass'.pc = "judge" /\ dgtPass'.intents # {} /\ dgtPass'.intents \subseteq dgtPass.intents
    <3>1. /\ dgtPass.pc \in Attempting /\ dgtGrids' \in [Slots -> Rows] /\ dgtPass' \in Attempts
          /\ dgtPass' = NextIntent
      BY <1>6, FlipEffect DEF Attempting
    <3>2. NextIntent.pc = "idle" \/ (NextIntent.pc = "judge" /\ NextIntent.intents # {}
                                   /\ NextIntent.intents = dgtPass.intents \ {Intent})
      BY <1>a, NextIs
    <3> QED BY <3>1, <3>2
  <2>3. PassHolds'
    BY <1>p, <2>1, <2>2 DEF PassHolds, Attempting
  <2> QED BY <1>0, <2>1, <2>2, <2>3 DEF RedeployShape
<1>7. CASE JudgeRedeploy
  <2>1. OnlySettled' /\ Stays
    BY <1>7, JudgeEffect, RowsStay
  <2> QED BY <1>0, <1>7, <2>1, JudgeEffect DEF RedeployShape, PassHolds, Attempting
<1>8. CASE CreateRedeploy
  <2>1. OnlySettled' /\ Stays
    BY <1>8, <1>i, CreateEffect, RowsStay DEF Attempting
  <2>2. RedeployShape'
    BY <1>0, <1>8, CreateEffect DEF RedeployShape
  <2>3. dgtPass'.intents = dgtPass.intents /\ dgtPass.pc = "create"
    BY <1>8, CreateEffect
  <2>4. \/ dgtPass'.pc \in {"log", "consume"} /\ dgtPass'.outcome # "none"
        \/ /\ dgtPass'.pc = "submit" /\ dgtPass'.bot \in Slots
           /\ dgtGrids'[dgtPass'.bot].status = "pending"
    BY <1>8, CreateEffect
  <2>5. PassHolds'
    BY <1>p, <2>1, <2>3, <2>4 DEF PassHolds, Attempting
  <2> QED BY <2>1, <2>2, <2>5
<1>9. CASE SubmitRedeploy
  <2>0. dgtPass.bot \in Slots
    BY <1>9, SubmitEffect DEF PassHolds
  <2>1. OnlySettled' /\ Stays
    BY <1>9, <2>0, SubmitEffect, RowsStay DEF RowStatuses, Occupying
  <2>2. RedeployShape'
    BY <1>0, <1>9, SubmitEffect DEF RedeployShape
  <2>3. /\ dgtPass'.intents = dgtPass.intents /\ dgtPass.pc = "submit"
        /\ dgtPass'.pc \in {"log", "consume"} /\ dgtPass'.outcome # "none"
    BY <1>9, SubmitEffect
  <2>4. PassHolds'
    BY <1>p, <2>1, <2>3 DEF PassHolds, Attempting
  <2> QED BY <2>1, <2>2, <2>4
<1>10. CASE LogRedeploy
  <2>1. OnlySettled' /\ Stays
    BY <1>10, LogEffect, RowsStay
  <2> QED BY <1>0, <1>10, <2>1, LogEffect DEF RedeployShape, PassHolds, Attempting
<1>11. CASE ConsumeIntent
  <2>1. OnlySettled' /\ Stays
    BY <1>11, <1>i, ConsumeEffect, RowsStay DEF Attempting
  <2>2. /\ dgtPass.pc \in Attempting /\ dgtGrids' \in [Slots -> Rows] /\ dgtPass' \in Attempts
        /\ \/ dgtPass'.pc = "idle"
           \/ dgtPass'.pc = "judge" /\ dgtPass'.intents # {} /\ dgtPass'.intents \subseteq dgtPass.intents
    <3>1. /\ dgtPass.pc \in Attempting /\ dgtGrids' \in [Slots -> Rows] /\ dgtPass' \in Attempts
          /\ dgtPass' = NextIntent
      BY <1>11, ConsumeEffect DEF Attempting
    <3>2. NextIntent.pc = "idle" \/ (NextIntent.pc = "judge" /\ NextIntent.intents # {}
                                   /\ NextIntent.intents = dgtPass.intents \ {Intent})
      BY <1>a, NextIs
    <3> QED BY <3>1, <3>2
  <2>3. PassHolds'
    BY <1>p, <2>1, <2>2 DEF PassHolds, Attempting
  <2> QED BY <1>0, <2>1, <2>2, <2>3 DEF RedeployShape
<1>12. CASE DgtCrash
  <2>1. OnlySettled' /\ Stays
    BY <1>12, DgtCrashEffect, RowsStay
  <2> QED BY <1>0, <1>12, <2>1, DgtCrashEffect DEF RedeployShape, PassHolds, Attempting
<1>13. CASE ResolveRedeploy
  <2>1. OnlySettled' /\ Stays
    BY <1>13, ResolveEffect, RowsStay DEF RowStatuses, Occupying
  <2> QED BY <1>0, <1>13, <2>1, ResolveEffect DEF RedeployShape, PassHolds, Attempting
<1>14. CASE ScannerDeploys
  <2>1. OnlySettled' /\ Stays
    BY <1>0, <1>14, ScannerEffect, RowsStay
  <2>2. dgtPass.pc # "submit"
    <3>1. Occupied = {}
      BY <1>14, ScannerEffect
    <3> QED BY <3>1 DEF PassHolds, Occupied, Occupying
  <2>3. RedeployShape' /\ UNCHANGED dgtPass
    BY <1>0, <1>14, ScannerEffect DEF RedeployShape
  <2>4. PassHolds'
    BY <1>p, <2>1, <2>2, <2>3 DEF PassHolds
  <2> QED BY <2>1, <2>3, <2>4
<1>15. CASE IntentAges
  <2>1. OnlySettled' /\ Stays
    BY <1>15, AgesEffect, RowsStay
  <2> QED BY <1>0, <1>15, <2>1, AgesEffect DEF RedeployShape, PassHolds, Attempting
<1>16. CASE UNCHANGED dgtVars
  BY <1>16 DEF dgtVars, RedeployShape, OnlySettled, PassHolds
<1> QED BY <1>1, <1>2, <1>3, <1>4, <1>5, <1>6, <1>7, <1>8, <1>9, <1>10, <1>11, <1>12, <1>13, <1>14, <1>15, <1>16
     DEF DgtNext, DgtStep

(* Each row re-deploys a parent with a geometry of its own; one geometry
   unless the world may show another; one child unless the pass can die, or
   its mark be lost, between the create and the mark. *)
Safely == {"crash", "mark_lost"} \cap dgtWorld = {}
Fingerprints ==
    \A i, j, p \in Slots : dgtGrids[i].parent = p /\ dgtGrids[j].parent = p
                           /\ dgtGrids[i].shape = dgtGrids[j].shape => i = j
OneGeometry ==
    "new_geometry" \notin dgtWorld =>
        /\ dgtPass.pc = "create" => dgtPass.shape = 1
        /\ \A i, p \in Slots : dgtGrids[i].parent = p => dgtGrids[i].shape = 1
OpenIntents == dgtPass.pc \in Attempting => \A i \in dgtPass.intents : dgtGrids[i].done = "no"
ChildrenMarked ==
    \A j, p \in Slots : dgtGrids[j].parent = p =>
        dgtGrids[p].done # "no" \/ (dgtPass.pc \in {"submit", "log", "consume"} /\ p = Intent)
OneChild == \A i, j, p \in Slots : dgtGrids[i].parent = p /\ dgtGrids[j].parent = p => i = j
Lineage == Fingerprints /\ OneGeometry /\ (Safely => OpenIntents /\ ChildrenMarked /\ OneChild)

LEMMA KinStay ==
    ASSUME KeepsKin \/ UNCHANGED dgtGrids, OnlySettled, dgtWorld' = dgtWorld
    PROVE  /\ Fingerprints => Fingerprints'
           /\ OneChild => OneChild'
           /\ OneGeometry /\ (dgtPass'.pc = "create" => dgtPass.pc = "create" /\ UNCHANGED dgtPass) => OneGeometry'
  BY DEF KeepsKin, Fingerprints, OneChild, OneGeometry

(* A step that neither marks a row nor adds one. *)
LEMMA LineageStays ==
    ASSUME RedeployShape, OnlySettled, PassHolds, Lineage, dgtWorld' = dgtWorld,
           UNCHANGED dgtGrids \/ (KeepsKin /\ KeepsMarks),
           \/ dgtPass'.pc \notin Attempting /\ dgtPass.pc \notin {"submit", "log", "consume"}
           \/ dgtPass'.pc \notin Attempting /\ "crash" \in dgtWorld
           \/ UNCHANGED dgtPass
           \/ /\ dgtPass'.pc \in Attempting \ {"create"} /\ dgtPass'.intents = dgtPass.intents
              /\ dgtPass.pc \in {"judge", "create"} \/ (dgtPass.pc \in {"submit", "log", "consume"}
                                                   /\ dgtPass'.pc \in {"submit", "log", "consume"})
           \/ /\ dgtPass'.pc = "create" /\ dgtPass.pc = "judge" /\ dgtPass'.intents = dgtPass.intents
              /\ dgtPass'.shape = 1 \/ "new_geometry" \in dgtWorld
           \/ /\ dgtPass'.pc = "judge" /\ dgtPass.pc \notin Attempting
              /\ \A i \in dgtPass'.intents : i \in Slots /\ dgtGrids[i].done = "no"
    PROVE  Lineage'
<1>1. Fingerprints' /\ OneGeometry' /\ (OneChild => OneChild')
  BY KinStay DEF KeepsKin, Lineage, OneGeometry, Attempting, Fingerprints, OneChild
<1>2. dgtPass'.intents = dgtPass.intents => Intent' = Intent
  BY DEF Intent
<1>3. dgtPass.intents \subseteq Slots
  BY DEF RedeployShape, Attempts
<1>4. \A i \in Slots : dgtGrids'[i].done = dgtGrids[i].done /\ dgtGrids'[i].parent = dgtGrids[i].parent
  BY DEF KeepsKin, KeepsMarks
<1>5. ASSUME Safely PROVE OpenIntents' /\ ChildrenMarked'
  <2>0. OpenIntents /\ ChildrenMarked /\ "crash" \notin dgtWorld
    BY <1>5 DEF Lineage, Safely
  <2>1. CASE dgtPass'.pc \notin Attempting /\ dgtPass.pc \notin {"submit", "log", "consume"}
    BY <2>0, <2>1, <1>4 DEF OpenIntents, ChildrenMarked
  <2>2. CASE UNCHANGED dgtPass
    BY <2>0, <2>2, <1>2, <1>3, <1>4 DEF OpenIntents, ChildrenMarked
  <2>3. CASE dgtPass'.intents = dgtPass.intents /\ dgtPass.pc \in {"judge", "create"}
    BY <2>0, <2>3, <1>2, <1>3, <1>4 DEF OpenIntents, ChildrenMarked, Attempting
  <2>4. CASE /\ dgtPass'.intents = dgtPass.intents /\ dgtPass.pc \in {"submit", "log", "consume"}
             /\ dgtPass'.pc \in {"submit", "log", "consume"}
    BY <2>0, <2>4, <1>2, <1>3, <1>4 DEF OpenIntents, ChildrenMarked, Attempting
  <2>5. CASE /\ dgtPass'.pc = "judge" /\ dgtPass.pc \notin Attempting
             /\ \A i \in dgtPass'.intents : i \in Slots /\ dgtGrids[i].done = "no"
    BY <2>0, <2>5, <1>4 DEF OpenIntents, ChildrenMarked, Attempting
  <2> QED BY <2>0, <2>1, <2>2, <2>3, <2>4, <2>5 DEF Attempting
<1> QED BY <1>1, <1>5 DEF Lineage, Safely

(* The mark of the intent in hand. *)
LEMMA LineageMarked ==
    ASSUME RedeployShape, OnlySettled, PassHolds, Lineage, dgtWorld' = dgtWorld,
           dgtPass.pc \in Attempting, dgtPass' = NextIntent,
           NEW lost \in BOOLEAN, lost => "mark_lost" \in dgtWorld, Marks(Intent, ~lost)
    PROVE  Lineage'
<1>a. dgtPass \in Attempts
  BY DEF RedeployShape
<1>0. NextIntent.pc = "idle" \/ (NextIntent.pc = "judge" /\ NextIntent.intents # {}
                                   /\ NextIntent.intents = dgtPass.intents \ {Intent})
  BY <1>a, NextIs
<1>1. Fingerprints' /\ OneGeometry' /\ (OneChild => OneChild')
  BY <1>0, KinStay DEF Marks, Lineage
<1>2. dgtPass.intents \subseteq Slots /\ Intent \in Slots
  BY IntentIs DEF RedeployShape, Attempts, PassHolds
<1>3. ASSUME Safely PROVE OpenIntents' /\ ChildrenMarked'
  <2>1. dgtGrids'[Intent].done # "no"
    BY <1>3 DEF Safely, Marks
  <2>2. /\ \A i \in Slots : dgtGrids'[i].parent = dgtGrids[i].parent
        /\ \A i \in Slots \ {Intent} : dgtGrids'[i].done = dgtGrids[i].done
    BY DEF Marks, KeepsKin
  <2>3. OpenIntents /\ ChildrenMarked
    BY <1>3 DEF Lineage
  <2>4. OpenIntents'
    BY <1>0, <1>2, <2>2, <2>3 DEF OpenIntents, Attempting
  <2>5. ChildrenMarked'
    BY <2>1, <2>2, <2>3 DEF ChildrenMarked
  <2> QED BY <2>4, <2>5
<1> QED BY <1>1, <1>3 DEF Lineage, Safely

(* A step that adds a row: the scanner's has no parent. *)
LEMMA LineageAdds ==
    ASSUME RedeployShape, OnlySettled, PassHolds, Lineage, dgtWorld' = dgtWorld,
           NEW row \in Slots, Adds(row),
           \/ dgtGrids'[row].parent = 0 /\ UNCHANGED dgtPass
           \/ /\ dgtGrids'[row].parent = Intent /\ dgtGrids'[row].shape = dgtPass.shape
              /\ \A i \in Slots : dgtGrids[i].parent = Intent => dgtGrids[i].shape # dgtPass.shape
              /\ dgtPass.pc = "create" /\ dgtPass'.pc = "submit" /\ dgtPass'.intents = dgtPass.intents
    PROVE  Lineage'
<1>1. dgtPass.intents \subseteq Slots /\ 0 \notin Slots
  BY DEF RedeployShape, Attempts, Slots
<1>2. dgtGrids[row].done = "no"
  BY DEF OnlySettled, Adds
<1>3. \A k \in Slots : dgtGrids'[k].done = dgtGrids[k].done
  BY <1>2 DEF Adds
<1>4. \A k \in Slots \ {row} : dgtGrids'[k].parent = dgtGrids[k].parent /\ dgtGrids'[k].shape = dgtGrids[k].shape
  BY DEF Adds
<1>5. Intent' = Intent
  BY DEF Intent
<1>6. CASE dgtGrids'[row].parent = 0 /\ UNCHANGED dgtPass
  <2>1. Fingerprints'
    BY <1>1, <1>4, <1>6 DEF Lineage, Fingerprints
  <2>2. OneGeometry'
    BY <1>1, <1>4, <1>6 DEF Lineage, OneGeometry
  <2>3. ASSUME Safely PROVE OpenIntents' /\ ChildrenMarked' /\ OneChild'
    BY <1>1, <1>3, <1>4, <1>5, <1>6, <2>3 DEF Lineage, OpenIntents, ChildrenMarked, OneChild
  <2> QED BY <2>1, <2>2, <2>3 DEF Lineage, Safely
<1>7. CASE /\ dgtGrids'[row].parent = Intent /\ dgtGrids'[row].shape = dgtPass.shape
           /\ \A i \in Slots : dgtGrids[i].parent = Intent => dgtGrids[i].shape # dgtPass.shape
           /\ dgtPass.pc = "create" /\ dgtPass'.pc = "submit" /\ dgtPass'.intents = dgtPass.intents
  <2>1. Fingerprints'
    BY <1>4, <1>7 DEF Lineage, Fingerprints
  <2>2. OneGeometry'
    BY <1>4, <1>7 DEF Lineage, OneGeometry
  <2>3. ASSUME Safely PROVE OpenIntents' /\ ChildrenMarked' /\ OneChild'
    <3>1. OpenIntents /\ ChildrenMarked /\ OneChild
      BY <2>3 DEF Lineage
    <3>2. OpenIntents'
      BY <1>1, <1>3, <1>7, <3>1 DEF OpenIntents, Attempting
    <3>3. ChildrenMarked'
      BY <1>3, <1>4, <1>5, <1>7, <3>1 DEF ChildrenMarked
    <3>4. Intent \in dgtPass.intents /\ Intent \in Slots
      BY <1>1, <1>7, IntentIs DEF PassHolds, Attempting
    <3>5. dgtGrids[Intent].done = "no"
      BY <1>7, <3>1, <3>4 DEF OpenIntents, Attempting
    <3>6. \A j \in Slots : dgtGrids[j].parent # Intent
      BY <1>7, <3>1, <3>4, <3>5 DEF ChildrenMarked
    <3>7. OneChild'
      BY <1>4, <1>7, <3>1, <3>6 DEF OneChild
    <3> QED BY <3>2, <3>3, <3>7
  <2> QED BY <2>1, <2>2, <2>3 DEF Lineage, Safely
<1> QED BY <1>6, <1>7

LEMMA LineageInitially == DgtInit => Lineage
<1> SUFFICES ASSUME DgtInit PROVE Lineage
  OBVIOUS
<1>1. \A i \in Slots : dgtGrids[i].parent = 0
  BY DEF DgtInit, NoGrid
<1>2. 0 \notin Slots
  BY DEF Slots
<1>3. dgtPass.pc = "idle"
  BY IdleIs DEF DgtInit
<1> QED BY <1>1, <1>2, <1>3
     DEF Lineage, Fingerprints, OneGeometry, OpenIntents, ChildrenMarked, OneChild, Attempting

LEMMA LineageStep ==
    ASSUME RedeployShape, OnlySettled, PassHolds, Lineage, [DgtNext]_dgtVars
    PROVE  Lineage'
<1>w. dgtWorld' = dgtWorld
  BY CountersKept
<1>1. CASE BreakGrid
  <2>1. KeepsKin /\ KeepsMarks
    BY <1>1, BreakEffect DEF Turns
  <2>2. dgtPass'.pc \notin Attempting /\ dgtPass.pc \notin {"submit", "log", "consume"}
    BY <1>1, BreakEffect DEF Attempting
  <2> QED BY <1>w, <2>1, <2>2, LineageStays
<1>2. CASE QueueIntent
  BY <1>w, <1>2, QueueEffect, LineageStays DEF Attempting
<1>3. CASE Settle
  <2>1. KeepsKin /\ KeepsMarks
    BY <1>3, SettleEffect DEF Turns
  <2> QED BY <1>w, <1>3, <2>1, SettleEffect, LineageStays DEF Attempting
<1>4. CASE TakeIntents
  <2>1. UNCHANGED dgtGrids /\ dgtPass.pc \in {"idle", "intents"} /\ dgtPass' \in Attempts
    BY <1>4, TakeEffect
  <2>2. CASE dgtPass'.pc = "idle"
    BY <1>w, <2>1, <2>2, LineageStays DEF Attempting
  <2>3. CASE /\ dgtPass'.pc = "judge"
             /\ \A i \in dgtPass'.intents : dgtGrids[i].status = "settled" /\ dgtGrids[i].done = "no"
    <3>1. \A i \in dgtPass'.intents : i \in Slots /\ dgtGrids[i].done = "no"
      BY <2>1, <2>3 DEF Attempts
    <3> QED BY <1>w, <2>1, <2>3, <3>1, LineageStays DEF Attempting
  <2> QED BY <1>4, <2>2, <2>3, TakeEffect
<1>5. CASE DropIntent
  BY <1>w, <1>5, DropEffect, LineageStays DEF Attempting
<1>6. CASE FlipToCascadeShort
  <2>1. dgtPass.pc \in Attempting /\ dgtPass' = NextIntent
    BY <1>6, FlipEffect DEF Attempting
  <2>2. PICK lost \in BOOLEAN : (lost => "mark_lost" \in dgtWorld) /\ Marks(Intent, ~lost)
    BY <1>6, FlipEffect
  <2> QED BY <1>w, <2>1, <2>2, LineageMarked
<1>7. CASE JudgeRedeploy
  <2>1. UNCHANGED dgtGrids /\ dgtPass.pc = "judge" /\ dgtPass'.intents = dgtPass.intents
    BY <1>7, JudgeEffect
  <2>2. CASE dgtPass'.pc = "consume"
    BY <1>w, <2>1, <2>2, LineageStays DEF Attempting
  <2>3. CASE dgtPass'.pc = "create" /\ (dgtPass'.shape = 1 \/ "new_geometry" \in dgtWorld)
    BY <1>w, <2>1, <2>3, LineageStays
  <2> QED BY <1>7, <2>2, <2>3, JudgeEffect
<1>8. CASE CreateRedeploy
  <2>1. CASE UNCHANGED dgtGrids /\ dgtPass'.pc \in {"consume", "log"}
    BY <1>w, <1>8, <2>1, CreateEffect, LineageStays DEF Attempting
  <2>2. ASSUME NEW row \in Slots, Adds(row), dgtGrids'[row].parent = Intent,
               dgtGrids'[row].shape = dgtPass.shape,
               \A i \in Slots : dgtGrids[i].parent = Intent => dgtGrids[i].shape # dgtPass.shape,
               dgtPass'.pc = "submit"
        PROVE  Lineage'
    BY <1>w, <1>8, <2>2, CreateEffect, LineageAdds
  <2> QED BY <1>8, <2>1, <2>2, CreateEffect
<1>9. CASE SubmitRedeploy
  <2>1. KeepsKin /\ KeepsMarks
    BY <1>9, SubmitEffect DEF Turns
  <2>2. /\ dgtPass'.pc \in {"log", "consume"} /\ dgtPass.pc = "submit"
        /\ dgtPass'.intents = dgtPass.intents
    BY <1>9, SubmitEffect
  <2> QED BY <1>w, <2>1, <2>2, LineageStays DEF Attempting
<1>10. CASE LogRedeploy
  BY <1>w, <1>10, LogEffect, LineageStays DEF Attempting
<1>11. CASE ConsumeIntent
  <2>1. dgtPass.pc \in Attempting /\ dgtPass' = NextIntent
    BY <1>11, ConsumeEffect DEF Attempting
  <2>2. PICK lost \in BOOLEAN : (lost => "mark_lost" \in dgtWorld) /\ Marks(Intent, ~lost)
    BY <1>11, ConsumeEffect
  <2> QED BY <1>w, <2>1, <2>2, LineageMarked
<1>12. CASE DgtCrash
  BY <1>w, <1>12, DgtCrashEffect, LineageStays DEF Attempting
<1>13. CASE ResolveRedeploy
  <2>1. KeepsKin /\ KeepsMarks
    BY <1>13, ResolveEffect DEF Turns
  <2> QED BY <1>w, <1>13, <2>1, ResolveEffect, LineageStays DEF Attempting
<1>14. CASE ScannerDeploys
  BY <1>w, <1>14, ScannerEffect, LineageAdds
<1>15. CASE IntentAges
  BY <1>w, <1>15, AgesEffect, LineageStays
<1>16. CASE UNCHANGED dgtVars
  BY <1>w, <1>16, LineageStays DEF dgtVars
<1> QED BY <1>1, <1>2, <1>3, <1>4, <1>5, <1>6, <1>7, <1>8, <1>9, <1>10, <1>11, <1>12, <1>13, <1>14, <1>15, <1>16
     DEF DgtNext, DgtStep

(* The ladder: where every attempt is answered and its event written, the
   events count the rungs, but for the one in hand; and the cap bounds the
   events, but for what a count that could not be read has let through. *)
Room == LadderCap + Uncounted
Counted == {"crash", "unknown", "event_lost"} \cap dgtWorld = {}
Rungs == {i \in Slots : dgtGrids[i].parent # 0 /\ dgtGrids[i].status # "failed"}
InHand == IF dgtPass.pc \in {"submit", "log"} THEN 1 ELSE 0
Ladder ==
    /\ dgtLeft \in 0 .. RedeployBudget
    /\ redeploys <= Room
    /\ dgtPass.pc \in {"create", "submit", "log"} => redeploys < Room
    /\ dgtPass.pc = "submit" => dgtGrids[dgtPass.bot].parent # 0
    /\ Counted => Cardinality(Rungs) <= redeploys + InHand

LEMMA LeftShrinks ==
    ASSUME dgtLeft \in 0 .. RedeployBudget, [DgtNext]_dgtVars
    PROVE  dgtLeft' \in 0 .. RedeployBudget /\ dgtLeft' <= dgtLeft
<1>1. ASSUME NEW fault, NEW lost \in May(fault), Pays(lost)
      PROVE  dgtLeft' \in 0 .. RedeployBudget /\ dgtLeft' <= dgtLeft
  <2>1. lost = FALSE \/ (lost = TRUE /\ dgtLeft > 0)
    BY Zenon DEF May
  <2>2. CASE lost = FALSE
    BY <1>1, <2>2 DEF Pays
  <2>3. CASE lost = TRUE /\ dgtLeft > 0
    BY <1>1, <2>3, RedeployQueueAssumption DEF Pays
  <2> QED BY <2>1, <2>2, <2>3
<1>2. ASSUME NEW f, NEW g, NEW lost \in May(f), NEW other \in May(g), Pays(lost \/ other)
      PROVE  dgtLeft' \in 0 .. RedeployBudget /\ dgtLeft' <= dgtLeft
  <2>1. /\ lost = FALSE \/ (lost = TRUE /\ dgtLeft > 0)
        /\ other = FALSE \/ (other = TRUE /\ dgtLeft > 0)
    BY Zenon DEF May
  <2>2. CASE lost = FALSE /\ other = FALSE
    BY <1>2, <2>2 DEF Pays
  <2>3. CASE (lost = TRUE \/ other = TRUE) /\ dgtLeft > 0
    <3>1. dgtLeft' = dgtLeft - 1
      BY <1>2, <2>3, Zenon DEF Pays
    <3> QED BY <2>3, <3>1, RedeployQueueAssumption
  <2> QED BY <2>1, <2>2, <2>3
<1>3. CASE QueueIntent
  BY <1>1, <1>3, Zenon DEF QueueIntent
<1>4. CASE FlipToCascadeShort
  BY <1>2, <1>4, Zenon DEF FlipToCascadeShort
<1>5. CASE JudgeRedeploy
  <2>1. CASE UNCHANGED dgtLeft
    BY <2>1
  <2>2. CASE \E uncounted, unseen \in May("count_error") : Pays(uncounted \/ unseen)
    BY <1>2, <2>2, Zenon
  <2> QED BY <1>5, <2>1, <2>2, Zenon DEF JudgeRedeploy
<1>6. CASE LogRedeploy
  BY <1>1, <1>6, Zenon DEF LogRedeploy
<1>7. CASE ConsumeIntent
  BY <1>1, <1>7, Zenon DEF ConsumeIntent
<1>8. CASE DgtCrash
  BY <1>8, RedeployQueueAssumption DEF DgtCrash
<1>9. CASE UNCHANGED dgtLeft
  BY <1>9
<1> QED BY <1>3, <1>4, <1>5, <1>6, <1>7, <1>8, <1>9 DEF DgtNext, DgtStep, BreakGrid, Settle, TakeIntents,
     DropIntent, CreateRedeploy, SubmitRedeploy, ResolveRedeploy, ScannerDeploys, IntentAges, dgtVars

(* The room of the ladder grows with every fault. *)
LEMMA RoomGrows ==
    ASSUME dgtLeft \in 0 .. RedeployBudget, dgtWorld' = dgtWorld, [DgtNext]_dgtVars
    PROVE  /\ Room \in Nat /\ Room' \in Nat /\ LadderCap <= Room /\ Room <= Room'
           /\ Room <= LadderCap + RedeployBudget
           /\ "count_error" \in dgtWorld /\ dgtLeft' = dgtLeft - 1 => Room' = Room + 1
  BY LeftShrinks, RedeployQueueAssumption DEF Room, Uncounted

LEMMA RungsAreFinite ==
    /\ IsFiniteSet(Slots) /\ IsFiniteSet(Rungs) /\ Cardinality(Rungs) \in Nat
    /\ IsFiniteSet(Rungs') /\ Cardinality(Rungs') \in Nat
<1>1. MaxGrids \in Int /\ 1 \in Int
  BY RedeployQueueAssumption
<1>2. IsFiniteSet(Slots)
  BY <1>1, FS_Interval DEF Slots
<1>3. Rungs \in SUBSET Slots /\ Rungs' \in SUBSET Slots
  BY DEF Rungs
<1> HIDE DEF Rungs
<1> QED BY <1>2, <1>3, FS_Subset, FS_CardinalityType

LEMMA FewerRungs ==
    ASSUME Rungs' \subseteq Rungs
    PROVE  Cardinality(Rungs') <= Cardinality(Rungs)
  BY RungsAreFinite, FS_Subset

LEMMA RungsStay ==
    ASSUME RedeployShape, \/ UNCHANGED dgtGrids
                          \/ KeepsKin /\ KeepsStatus
                          \/ \E i \in Slots : \E before, after : Turns(i, before, after) /\ "failed" \notin before
                          \/ \E row \in Slots : Adds(row) /\ dgtGrids'[row].parent = 0
    PROVE  Cardinality(Rungs') <= Cardinality(Rungs)
<1>1. CASE UNCHANGED dgtGrids
  BY <1>1, FewerRungs DEF Rungs
<1>2. CASE KeepsKin /\ KeepsStatus
  BY <1>2, FewerRungs DEF Rungs, KeepsKin, KeepsStatus
<1>3. ASSUME NEW i \in Slots, NEW before, NEW after, Turns(i, before, after), "failed" \notin before
      PROVE  Rungs' \subseteq Rungs
  BY <1>3 DEF Rungs, Turns, KeepsKin
<1>4. ASSUME NEW row \in Slots, Adds(row), dgtGrids'[row].parent = 0 PROVE Rungs' \subseteq Rungs
  BY <1>4 DEF Rungs, Adds
<1> QED BY <1>1, <1>2, <1>3, <1>4, FewerRungs

(* A step that adds no rung and takes none in hand, or lets one go. *)
LEMMA LadderStays ==
    ASSUME RedeployShape, Ladder, dgtWorld' = dgtWorld, redeploys' = redeploys,
           Cardinality(Rungs') <= Cardinality(Rungs), dgtPass'.pc # "submit",
           InHand' >= InHand \/ ~Counted,
           dgtLeft' \in 0 .. RedeployBudget, Room \in Nat, Room' \in Nat, Room <= Room',
           dgtPass'.pc \in {"create", "log"} => redeploys < Room'
    PROVE  Ladder'
<1>1. redeploys \in Nat /\ redeploys' <= Room'
  BY DEF RedeployShape, Ladder
<1>2. InHand \in {0, 1} /\ InHand' \in {0, 1}
  BY DEF InHand
<1>3. Counted' => Counted
  BY DEF Counted
<1>4. ASSUME Counted PROVE Cardinality(Rungs') <= redeploys' + InHand'
  BY <1>1, <1>2, <1>4, RungsAreFinite DEF Ladder
<1> QED BY <1>1, <1>3, <1>4 DEF Ladder

LEMMA LadderInitially == DgtInit => Ladder
<1> SUFFICES ASSUME DgtInit PROVE Ladder
  OBVIOUS
<1>1. Rungs = {}
  BY DEF DgtInit, NoGrid, Rungs
<1>2. /\ dgtPass.pc = "idle" /\ redeploys = 0 /\ dgtLeft \in 0 .. RedeployBudget /\ Room \in Nat
  BY IdleIs, RedeployQueueAssumption DEF DgtInit, Room, Uncounted
<1>3. Cardinality(Rungs) = 0
  BY <1>1, FS_EmptySet
<1> QED BY <1>2, <1>3 DEF Ladder, InHand

LEMMA LadderStep ==
    ASSUME RedeployShape, OnlySettled, PassHolds, Ladder, [DgtNext]_dgtVars
    PROVE  Ladder'
<1>w. /\ dgtWorld' = dgtWorld /\ dgtLeft' \in 0 .. RedeployBudget
      /\ Room \in Nat /\ Room' \in Nat /\ LadderCap <= Room /\ Room <= Room'
      /\ "count_error" \in dgtWorld /\ dgtLeft' = dgtLeft - 1 => Room' = Room + 1
  BY CountersKept, LeftShrinks, RoomGrows DEF Ladder
<1>n. redeploys \in Nat /\ LadderCap \in Nat /\ redeploys <= Room
  BY RedeployQueueAssumption DEF RedeployShape, Ladder
<1>f. "failed" \notin {"running"} /\ "failed" \notin {"stopping", "running"} /\ "failed" \notin {"pending", "unknown"}
      /\ "failed" \notin {"pending"}
  OBVIOUS
<1>h. dgtPass.pc \notin {"submit", "log"} => InHand = 0
  BY DEF InHand
<1>h2. InHand' \in {0, 1} /\ InHand \in {0, 1}
  BY DEF InHand
<1>1. CASE BreakGrid
  <2>1. Cardinality(Rungs') <= Cardinality(Rungs)
    BY <1>1, <1>f, BreakEffect, RungsStay
  <2>2. dgtPass.pc = "idle" /\ dgtPass'.pc \in {"intents", "queue"} /\ redeploys' = redeploys
    BY <1>1, BreakEffect DEF BreakGrid
  <2> QED BY <1>w, <1>h, <1>h2, <2>1, <2>2, LadderStays
<1>2. CASE QueueIntent
  <2>1. Cardinality(Rungs') <= Cardinality(Rungs)
    BY <1>2, QueueEffect, RungsStay
  <2>2. dgtPass.pc = "queue" /\ dgtPass'.pc = "intents" /\ redeploys' = redeploys
    BY <1>2, QueueEffect DEF QueueIntent
  <2> QED BY <1>w, <1>h, <1>h2, <2>1, <2>2, LadderStays
<1>3. CASE Settle
  <2>1. Cardinality(Rungs') <= Cardinality(Rungs)
    BY <1>3, <1>f, SettleEffect, RungsStay
  <2>2. dgtPass.pc = "idle" /\ dgtPass'.pc = "intents" /\ redeploys' = redeploys
    BY <1>3, SettleEffect DEF Settle
  <2> QED BY <1>w, <1>h, <1>h2, <2>1, <2>2, LadderStays
<1>4. CASE TakeIntents
  <2>1. Cardinality(Rungs') <= Cardinality(Rungs)
    BY <1>4, TakeEffect, RungsStay
  <2>2. dgtPass.pc \in {"idle", "intents"} /\ dgtPass'.pc \in {"idle", "judge"} /\ redeploys' = redeploys
    BY <1>4, TakeEffect DEF TakeIntents
  <2> QED BY <1>w, <1>h, <1>h2, <2>1, <2>2, LadderStays
<1>5. CASE DropIntent
  <2>1. Cardinality(Rungs') <= Cardinality(Rungs)
    BY <1>5, DropEffect, RungsStay
  <2>2. dgtPass.pc = "judge" /\ dgtPass'.pc = "consume" /\ redeploys' = redeploys
    BY <1>5, DropEffect DEF DropIntent
  <2> QED BY <1>w, <1>h, <1>h2, <2>1, <2>2, LadderStays
<1>6. CASE FlipToCascadeShort
  <2>1. KeepsKin /\ KeepsStatus
    BY <1>6, FlipEffect DEF Marks
  <2>2. Cardinality(Rungs') <= Cardinality(Rungs)
    BY <2>1, RungsStay
  <2>3. dgtPass.pc = "judge" /\ dgtPass'.pc \in {"idle", "judge"} /\ redeploys' = redeploys
    BY <1>6, FlipEffect, NextIs DEF FlipToCascadeShort, RedeployShape
  <2> QED BY <1>w, <1>h, <1>h2, <2>2, <2>3, LadderStays
<1>7. CASE JudgeRedeploy
  <2>1. Cardinality(Rungs') <= Cardinality(Rungs)
    BY <1>7, JudgeEffect, RungsStay
  <2>2. /\ dgtPass.pc = "judge" /\ redeploys' = redeploys
        /\ dgtPass'.pc = "consume" \/ (dgtPass'.pc = "create" /\ redeploys < Room')
    <3>1. /\ dgtPass.pc = "judge" /\ redeploys' = redeploys
          /\ \/ dgtPass'.pc = "consume"
             \/ /\ dgtPass'.pc = "create"
                /\ redeploys < LadderCap \/ ("count_error" \in dgtWorld /\ dgtLeft' = dgtLeft - 1)
      BY <1>7, JudgeEffect DEF JudgeRedeploy
    <3> QED BY <1>w, <1>n, <3>1
  <2> QED BY <1>w, <1>h, <1>h2, <2>1, <2>2, LadderStays
<1>8. CASE CreateRedeploy
  <2>0. redeploys' = redeploys /\ dgtPass.pc = "create" /\ redeploys < Room /\ redeploys < Room'
    <3>1. redeploys' = redeploys /\ dgtPass.pc = "create" /\ redeploys < Room
      BY <1>8, CreateEffect DEF CreateRedeploy, Ladder
    <3> QED BY <1>w, <1>n, <3>1
  <2>1. CASE UNCHANGED dgtGrids /\ dgtPass'.pc \in {"consume", "log"}
    <3>1. Cardinality(Rungs') <= Cardinality(Rungs)
      BY <2>1, RungsStay
    <3> QED BY <1>w, <1>h, <1>h2, <2>0, <2>1, <3>1, LadderStays
  <2>2. ASSUME NEW row \in Slots, Adds(row), dgtGrids'[row].parent = Intent,
               dgtPass'.pc = "submit", dgtPass'.bot = row
        PROVE  Ladder'
    <3>1. Intent # 0
      BY <2>0, IntentIs DEF PassHolds, Attempting, RedeployShape, Attempts, Slots
    <3>2. Rungs' \in SUBSET (Rungs \cup {row})
      BY <2>2 DEF Rungs, Adds
    <3>3. /\ IsFiniteSet(Rungs \cup {row})
          /\ Cardinality(Rungs \cup {row}) \in {Cardinality(Rungs), Cardinality(Rungs) + 1}
      <4>1. IsFiniteSet(Rungs)
        BY RungsAreFinite
      <4> HIDE DEF Rungs
      <4> QED BY <4>1, FS_AddElement
    <3>4. Cardinality(Rungs') <= Cardinality(Rungs \cup {row})
      BY <3>2, <3>3, FS_Subset
    <3>5. Cardinality(Rungs') <= Cardinality(Rungs) + 1
      BY <3>3, <3>4, RungsAreFinite, FS_CardinalityType
    <3>6. InHand = 0 /\ InHand' = 1
      BY <2>0, <2>2 DEF InHand
    <3>7. Counted' => Counted
      BY <1>w DEF Counted
    <3>8. Counted => Cardinality(Rungs') <= redeploys' + InHand'
      BY <1>n, <2>0, <3>5, <3>6, RungsAreFinite DEF Ladder
    <3> QED BY <1>w, <1>n, <2>0, <2>2, <3>1, <3>7, <3>8 DEF Ladder
  <2> QED BY <1>8, <2>1, <2>2, CreateEffect
<1>9. CASE SubmitRedeploy
  <2>0. /\ redeploys' = redeploys /\ dgtPass.pc = "submit" /\ redeploys < Room' /\ dgtPass.bot \in Slots
    <3>1. /\ redeploys' = redeploys /\ dgtPass.pc = "submit" /\ redeploys < Room /\ dgtPass.bot \in Slots
      BY <1>9, SubmitEffect DEF SubmitRedeploy, Ladder, PassHolds
    <3> QED BY <1>w, <1>n, <3>1
  <2>1. Cardinality(Rungs') <= Cardinality(Rungs)
    BY <1>9, <1>f, <2>0, SubmitEffect, RungsStay
  <2>2. CASE dgtPass'.pc = "log"
    <3>1. InHand' = 1
      BY <2>2 DEF InHand
    <3> QED BY <1>w, <1>h2, <2>0, <2>1, <2>2, <3>1, LadderStays
  <2>3. CASE "unknown" \in dgtWorld /\ dgtPass'.pc = "consume"
    <3>1. ~Counted
      BY <2>3 DEF Counted
    <3> QED BY <1>w, <2>0, <2>1, <2>3, <3>1, LadderStays
  <2>4. CASE Turns(dgtPass.bot, {"pending"}, {"failed"}) /\ dgtPass'.pc = "consume"
    <3>1. Rungs' = Rungs \ {dgtPass.bot} /\ dgtPass.bot \in Rungs
      BY <2>0, <2>4 DEF Rungs, Turns, KeepsKin, Ladder
    <3>2. Cardinality(Rungs') = Cardinality(Rungs) - 1
      BY <3>1, RungsAreFinite, FS_RemoveElement
    <3>3. InHand = 1 /\ InHand' = 0
      BY <2>0, <2>4 DEF InHand
    <3>4. Counted' => Counted
      BY <1>w DEF Counted
    <3>5. Counted => Cardinality(Rungs') <= redeploys' + InHand'
      BY <1>n, <2>0, <3>2, <3>3, RungsAreFinite DEF Ladder
    <3> QED BY <1>w, <1>n, <2>0, <2>4, <3>4, <3>5 DEF Ladder
  <2> QED BY <1>9, <2>2, <2>3, <2>4, SubmitEffect
<1>10. CASE LogRedeploy
  <2>1. UNCHANGED dgtGrids /\ dgtPass.pc = "log" /\ dgtPass'.pc = "consume" /\ redeploys < Room
    BY <1>10, LogEffect DEF Ladder
  <2>2. Rungs' = Rungs
    BY <2>1 DEF Rungs
  <2>3. InHand = 1 /\ InHand' = 0
    BY <2>1 DEF InHand
  <2>4. Counted' => Counted /\ redeploys' = redeploys + 1
    BY <1>10, <1>w, LogEffect DEF Counted
  <2>5. redeploys' <= Room'
    BY <1>10, <1>w, <1>n, <2>1, LogEffect
  <2>6. Counted' => Cardinality(Rungs') <= redeploys' + InHand'
    BY <1>n, <2>2, <2>3, <2>4, RungsAreFinite DEF Ladder
  <2> QED BY <1>w, <2>1, <2>5, <2>6 DEF Ladder
<1>11. CASE ConsumeIntent
  <2>1. KeepsKin /\ KeepsStatus
    BY <1>11, ConsumeEffect DEF Marks
  <2>2. Cardinality(Rungs') <= Cardinality(Rungs)
    BY <2>1, RungsStay
  <2>3. dgtPass.pc = "consume" /\ dgtPass'.pc \in {"idle", "judge"} /\ redeploys' = redeploys
    BY <1>11, ConsumeEffect, NextIs DEF ConsumeIntent, RedeployShape
  <2> QED BY <1>w, <1>h, <1>h2, <2>2, <2>3, LadderStays
<1>12. CASE DgtCrash
  <2>1. Cardinality(Rungs') <= Cardinality(Rungs)
    BY <1>12, DgtCrashEffect, RungsStay
  <2>2. ~Counted
    BY <1>12, DgtCrashEffect DEF Counted
  <2>3. redeploys' = redeploys /\ dgtPass'.pc = "idle"
    BY <1>12, DgtCrashEffect DEF DgtCrash
  <2> QED BY <1>w, <2>1, <2>2, <2>3, LadderStays
<1>13. CASE ResolveRedeploy
  <2>1. Cardinality(Rungs') <= Cardinality(Rungs)
    BY <1>13, <1>f, ResolveEffect, RungsStay
  <2>2. dgtPass.pc = "idle" /\ dgtPass'.pc = "intents" /\ redeploys' = redeploys
    BY <1>13, ResolveEffect DEF ResolveRedeploy
  <2> QED BY <1>w, <1>h, <1>h2, <2>1, <2>2, LadderStays
<1>14. CASE ScannerDeploys
  <2>1. Cardinality(Rungs') <= Cardinality(Rungs)
    BY <1>14, ScannerEffect, RungsStay
  <2>2. UNCHANGED dgtPass /\ redeploys' = redeploys /\ dgtPass.pc # "submit"
    <3>1. Occupied = {}
      BY <1>14, ScannerEffect
    <3> QED BY <1>14, <3>1 DEF PassHolds, Occupied, Occupying, ScannerDeploys
  <2>3. InHand' = InHand /\ (dgtPass'.pc \in {"create", "log"} => redeploys < Room')
    BY <1>w, <1>n, <2>2 DEF InHand, Ladder
  <2> QED BY <1>w, <1>h2, <2>1, <2>2, <2>3, LadderStays
<1>15. CASE IntentAges
  <2>1. Cardinality(Rungs') <= Cardinality(Rungs)
    BY <1>15, AgesEffect, RungsStay
  <2>2. UNCHANGED dgtPass /\ redeploys' = redeploys /\ dgtPass.pc = "idle"
    BY <1>15, AgesEffect DEF IntentAges
  <2>3. InHand' = InHand
    BY <2>2 DEF InHand
  <2> QED BY <1>w, <1>h2, <2>1, <2>2, <2>3, LadderStays DEF Ladder
<1>16. CASE UNCHANGED dgtVars
  BY <1>16 DEF dgtVars, Ladder, Counted, Rungs, InHand, Room, Uncounted
<1> QED BY <1>1, <1>2, <1>3, <1>4, <1>5, <1>6, <1>7, <1>8, <1>9, <1>10, <1>11, <1>12, <1>13, <1>14, <1>15, <1>16
     DEF DgtNext, DgtStep

RedeployInv == RedeployShape /\ OnlySettled /\ PassHolds /\ Lineage /\ Ladder

LEMMA RedeployInvHolds == DgtSpec => []RedeployInv
<1>1. DgtInit => RedeployInv
  BY RedeployInitially, LineageInitially, LadderInitially DEF RedeployInv
<1>2. RedeployInv /\ [DgtNext]_dgtVars => RedeployInv'
  BY RedeployStep, LineageStep, LadderStep DEF RedeployInv
<1> QED BY <1>1, <1>2, PTL DEF DgtSpec

LEMMA AtMostOne ==
    ASSUME NEW S, \A i, j \in S : i = j
    PROVE  Cardinality(S) <= 1
<1>1. CASE S = {}
  BY <1>1, FS_EmptySet
<1>2. ASSUME NEW i \in S PROVE S = {i}
  BY <1>2
<1> QED BY <1>1, <1>2, FS_Singleton

(* The break of a grid is neither answered before the grid has settled nor,
   in a day, more often than the ladder allows, but for the counts that could
   not be read: for every set of faults. *)
THEOREM RedeploysWaitAndStop == DgtSpec => [](RedeployWaitsForFlat /\ LadderHolds)
<1>1. RedeployInv => RedeployWaitsForFlat
  BY DEF RedeployInv, OnlySettled, RedeployWaitsForFlat, Redeployed
<1>2. RedeployInv => LadderHolds
  <2> SUFFICES ASSUME RedeployInv, Counted PROVE Cardinality(Rungs) <= Room
    BY DEF LadderHolds, Counted, Rungs, Room
  <2>1. redeploys \in Nat /\ Room \in Nat
    BY RedeployQueueAssumption DEF RedeployInv, RedeployShape, Ladder, Room, Uncounted
  <2>2. InHand = 0 \/ (InHand = 1 /\ redeploys < Room)
    BY DEF RedeployInv, Ladder, InHand
  <2> QED BY <2>1, <2>2, RungsAreFinite DEF RedeployInv, Ladder
<1> QED BY <1>1, <1>2, RedeployInvHolds, PTL

(* One break mints one re-deploy: in a world where a pass that judges an
   intent again may find another geometry, provided that it never judges one
   again (that it cannot die between the create and the mark, nor lose the
   mark). *)
THEOREM OneRedeployPerBreak ==
    ASSUME \A world \in RedeployWorlds :
              "new_geometry" \in world => {"crash", "mark_lost"} \cap world = {}
    PROVE  DgtSpec => []RedeploysAreBounded
<1>1. RedeployInv => RedeployedOnce
  <2> SUFFICES ASSUME RedeployInv, NEW p \in Slots PROVE Cardinality(Redeployed(p)) <= 1
    BY DEF RedeployedOnce
  <2>1. Redeployed(p) \subseteq Slots
    BY DEF Redeployed
  <2>2. OneGeometry /\ Fingerprints /\ (Safely => OneChild) /\ dgtWorld \in RedeployWorlds
    BY DEF RedeployInv, Lineage, RedeployShape
  <2>3. \A i, j \in Redeployed(p) : i = j
    <3>1. CASE "new_geometry" \in dgtWorld
      <4>1. Safely
        BY <2>2, <3>1 DEF Safely
      <4> QED BY <2>2, <4>1 DEF OneChild, Redeployed
    <3>2. CASE "new_geometry" \notin dgtWorld
      BY <2>2, <3>2 DEF OneGeometry, Fingerprints, Redeployed
    <3> QED BY <3>1, <3>2
  <2> QED BY <2>1, <2>3, AtMostOne
<1> QED BY <1>1, RedeployInvHolds, RedeploysWaitAndStop, PTL DEF RedeploysAreBounded

--------------------------------------------------------------------------
\* TelegramOutbox.

Texts ==
    [status : {"none", "PENDING", "SENDING", "SENT", "FAILED"}, rank : {0, 1, 2}, length : {1, 2},
     sent : Nat, failures : Nat, due : BOOLEAN, answers : {0} \cup Updates]
Senders ==
    [pc : {"idle", "call", "save"}, row : Messages, part : Nat, failures : Nat,
     result : {"none", "shown", "failed", "rejected"}]
OutboxShape ==
    /\ outbox \in [Messages -> Texts] /\ sender \in [Dispatchers -> Senders]
    /\ chat \in [Messages -> Seq(Nat)]
    /\ cursor \in 0 .. MaxUpdates /\ poll \in [pc : {"idle", "handle"}, upto : 0 .. MaxUpdates]

(* A claim is one dispatcher's, and what it read still stands. *)
Busy(d) == sender[d].pc # "idle"
Leases ==
    /\ \A d \in Dispatchers : Busy(d) =>
         LET m == sender[d].row
         IN  outbox[m].status = "SENDING" /\ ~outbox[m].due /\ sender[d].part = outbox[m].sent
    /\ \A d, e \in Dispatchers : Busy(d) /\ Busy(e) /\ sender[d].row = sender[e].row => d = e

(* The operator has seen what the row says is sent, and at most the next
   part, whose answer was lost. *)
LastOf(seen) == seen[Len(seen)]
InOrder(seen) ==
    \A i \in 1 .. Len(seen) : IF i = 1 THEN seen[i] = 1 ELSE seen[i] \in {seen[i - 1], seen[i - 1] + 1}
UpTo(seen, p) == seen # <<>> /\ LastOf(seen) = p
ReadSoFar(r, seen) ==
    /\ InOrder(seen)
    /\ (seen = <<>> /\ r.sent = 0) \/ UpTo(seen, r.sent) \/ UpTo(seen, r.sent + 1)
    /\ r.status = "none" => seen = <<>> /\ r.sent = 0 /\ r.answers = 0
    /\ r.status \in {"PENDING", "SENDING"} => r.sent < r.length
    /\ r.status = "SENT" => r.sent = r.length /\ UpTo(seen, r.sent)
Reading == \A m \in Messages : ReadSoFar(outbox[m], chat[m])
ShownIsRead ==
    \A d \in Dispatchers : sender[d].pc = "save" /\ sender[d].result = "shown"
        => UpTo(chat[sender[d].row], sender[d].part + 1)
OutboxHolds == OutboxShape /\ Leases /\ Reading /\ ShownIsRead

LEMMA MessagesAre == Messages \subseteq Nat /\ 1 \in Messages /\ MaxMessages \in Nat /\ MaxUpdates \in Nat
                     /\ MaxUpdates <= MaxMessages /\ Updates \subseteq Nat /\ 0 \notin Updates
  BY OutboxAssumption DEF Messages, Updates

LEMMA NewRowIs ==
    ASSUME ~Full
    PROVE  NewRow \in Messages /\ outbox[NewRow].status = "none"
<1> DEFINE free == {m \in Messages : outbox[m].status = "none"}
<1>1. free \subseteq Nat /\ free # {}
  BY MessagesAre DEF Full
<1>2. PICK m \in free : \A n \in free : m <= n
  <2> HIDE DEF free
  <2> QED BY <1>1, LeastOne
<1>3. ASSUME NEW n \in Messages, n < m PROVE outbox[n].status # "none"
  <2>1. m \in Nat /\ n \in Nat
    BY <1>1, MessagesAre
  <2>2. n \notin free
    <3> HIDE DEF free
    <3> QED BY <1>2, <1>3, <2>1
  <2> QED BY <2>2
<1> QED BY <1>2, <1>3 DEF NewRow

LEMMA WithRowIs ==
    ASSUME OutboxShape, Reading, NEW rank \in {0, 1, 2}, NEW length \in {1, 2}, NEW u \in {0} \cup Updates,
           outbox' = WithRow(rank, length, u)
    PROVE  /\ outbox' \in [Messages -> Texts]
           /\ \/ Full /\ outbox' = outbox
              \/ \E m \in Messages :
                   /\ outbox[m].status = "none" /\ outbox'[m].status = "PENDING"
                   /\ outbox'[m].sent = 0 /\ outbox'[m].length = length /\ outbox'[m].answers = u
                   /\ \A n \in Messages \ {m} : outbox'[n] = outbox[n]
<1>1. CASE Full
  BY <1>1 DEF WithRow, OutboxShape
<1>2. CASE ~Full
  <2> DEFINE new == [NoMessage EXCEPT !.status = "PENDING", !.rank = rank, !.length = length,
                              !.due = TRUE, !.answers = u]
  <2>1. new \in Texts /\ new.status = "PENDING" /\ new.sent = 0 /\ new.length = length /\ new.answers = u
    BY DEF NoMessage, Texts
  <2>2. outbox' = [outbox EXCEPT ![NewRow] = new]
    BY <1>2 DEF WithRow
  <2> HIDE DEF new
  <2>3. outbox' \in [Messages -> Texts] /\ outbox'[NewRow] = new
        /\ \A n \in Messages \ {NewRow} : outbox'[n] = outbox[n]
    BY <1>2, <2>1, <2>2, NewRowIs DEF OutboxShape
  <2> QED BY <1>2, <2>1, <2>3, NewRowIs
<1> QED BY <1>1, <1>2

LEMMA IdleSender == NoSender \in Senders /\ NoSender.pc = "idle"
  BY MessagesAre DEF NoSender, Senders

(* A step that adds a row, which nobody holds. *)
LEMMA RowAdded ==
    ASSUME OutboxHolds, NEW rank \in {0, 1, 2}, NEW length \in {1, 2}, NEW u \in {0} \cup Updates,
           outbox' = WithRow(rank, length, u), UNCHANGED <<chat, sender>>,
           cursor' \in 0 .. MaxUpdates, poll' \in [pc : {"idle", "handle"}, upto : 0 .. MaxUpdates]
    PROVE  OutboxHolds'
<1>0. outbox' \in [Messages -> Texts]
  BY WithRowIs DEF OutboxHolds
<1>1. CASE outbox' = outbox
  BY <1>1 DEF OutboxHolds, OutboxShape, Leases, Busy, Reading, ShownIsRead
<1>2. ASSUME NEW m \in Messages, outbox[m].status = "none", outbox'[m].status = "PENDING",
             outbox'[m].sent = 0, outbox'[m].length = length,
             \A n \in Messages \ {m} : outbox'[n] = outbox[n]
      PROVE  OutboxHolds'
  <2>1. OutboxShape'
    BY <1>0 DEF OutboxHolds, OutboxShape
  <2>2. \A d \in Dispatchers : sender[d].row \in Messages
    BY DEF OutboxHolds, OutboxShape, Senders
  <2>3. Leases'
    BY <1>2, <2>2 DEF OutboxHolds, Leases, Busy
  <2>4. Reading'
    <3>1. ReadSoFar(outbox'[m], chat[m])
      BY <1>2 DEF OutboxHolds, Reading, ReadSoFar
    <3> QED BY <1>2, <3>1 DEF OutboxHolds, Reading
  <2>5. ShownIsRead'
    BY DEF OutboxHolds, ShownIsRead
  <2> QED BY <2>1, <2>3, <2>4, <2>5 DEF OutboxHolds
<1> QED BY <1>1, <1>2, WithRowIs DEF OutboxHolds

LEMMA EnqueueHolds == ASSUME OutboxHolds, Enqueue PROVE OutboxHolds'
  BY RowAdded DEF Enqueue, OutboxHolds, OutboxShape

LEMMA HandleHolds == ASSUME OutboxHolds, HandleUpdate PROVE OutboxHolds'
<1>1. CASE /\ outbox' = IF Answered(poll.upto + 1) THEN outbox ELSE WithRow(0, 1, poll.upto + 1)
           /\ poll' = [poll EXCEPT !.upto = @ + 1]
  <2>1. poll.upto + 1 \in Updates /\ poll' \in [pc : {"idle", "handle"}, upto : 0 .. MaxUpdates]
    BY <1>1, MessagesAre DEF HandleUpdate, OutboxHolds, OutboxShape, Updates
  <2>2. CASE outbox' = outbox
    BY <2>1, <2>2 DEF HandleUpdate, OutboxHolds, OutboxShape, Leases, Busy, Reading, ShownIsRead
  <2>3. CASE outbox' = WithRow(0, 1, poll.upto + 1)
    BY <2>1, <2>3, RowAdded DEF HandleUpdate, OutboxHolds, OutboxShape
  <2> QED BY <1>1, <2>2, <2>3
<1>2. CASE poll' = NoPoll /\ UNCHANGED outbox
  BY <1>2, MessagesAre DEF HandleUpdate, NoPoll, OutboxHolds, OutboxShape, Leases, Busy, Reading, ShownIsRead
<1> QED BY <1>1, <1>2 DEF HandleUpdate

LEMMA PollHolds == ASSUME OutboxHolds, BeginPoll \/ CommitPoll PROVE OutboxHolds'
<1>1. UNCHANGED <<outbox, chat, sender>>
  BY DEF BeginPoll, CommitPoll
<1>2. cursor' \in 0 .. MaxUpdates /\ poll' \in [pc : {"idle", "handle"}, upto : 0 .. MaxUpdates]
  BY MessagesAre DEF BeginPoll, CommitPoll, OutboxHolds, OutboxShape, NoPoll
<1> QED BY <1>1, <1>2 DEF OutboxHolds, OutboxShape, Leases, Busy, Reading, ShownIsRead

LEMMA CrashHolds == ASSUME OutboxHolds, OutboxCrash PROVE OutboxHolds'
<1> PICK d \in Dispatchers : sender' = [sender EXCEPT ![d] = NoSender]
  BY DEF OutboxCrash
<1>1. UNCHANGED <<outbox, chat, cursor>> /\ poll' \in [pc : {"idle", "handle"}, upto : 0 .. MaxUpdates]
  BY MessagesAre DEF OutboxCrash, NoPoll
<1>2. sender' \in [Dispatchers -> Senders] /\ ~Busy(d)' /\ \A e \in Dispatchers \ {d} : sender'[e] = sender[e]
  BY IdleSender DEF OutboxHolds, OutboxShape, Busy
<1> QED BY <1>1, <1>2 DEF OutboxHolds, OutboxShape, Leases, Busy, Reading, ShownIsRead

LEMMA DueHolds == ASSUME OutboxHolds, RowFallsDue PROVE OutboxHolds'
<1> PICK m \in Messages : /\ outbox[m].status \in {"PENDING", "SENDING"} /\ ~outbox[m].due /\ ~Held(m)
                          /\ outbox' = [outbox EXCEPT ![m].due = TRUE]
  BY DEF RowFallsDue
<1>1. /\ outbox' \in [Messages -> Texts]
      /\ outbox'[m].sent = outbox[m].sent /\ outbox'[m].status = outbox[m].status
      /\ outbox'[m].length = outbox[m].length /\ outbox'[m].answers = outbox[m].answers
      /\ \A n \in Messages \ {m} : outbox'[n] = outbox[n]
  <2> DEFINE old == outbox[m]   new == [old EXCEPT !.due = TRUE]
  <2>1. old \in Texts /\ outbox' = [outbox EXCEPT ![m] = new] /\ outbox \in [Messages -> Texts]
    BY DEF OutboxHolds, OutboxShape
  <2>2. /\ new \in Texts /\ new.sent = old.sent /\ new.status = old.status
        /\ new.length = old.length /\ new.answers = old.answers
    <3> HIDE DEF old
    <3> QED BY <2>1 DEF Texts
  <2> HIDE DEF new
  <2> QED BY <2>1, <2>2
<1>2. \A d \in Dispatchers : Busy(d) => sender[d].row # m
  BY DEF Held, Busy
<1>3. \A d \in Dispatchers : sender[d].row \in Messages
  BY DEF OutboxHolds, OutboxShape, Senders
<1>4. UNCHANGED <<chat, sender, cursor, poll>>
  BY DEF RowFallsDue
<1>5. Leases'
  BY <1>1, <1>2, <1>3, <1>4 DEF OutboxHolds, Leases, Busy
<1>6. Reading'
  BY <1>1, <1>4 DEF OutboxHolds, Reading, ReadSoFar
<1> QED BY <1>1, <1>4, <1>5, <1>6 DEF OutboxHolds, OutboxShape, ShownIsRead

LEMMA ClaimHolds == ASSUME OutboxHolds, NEW d \in Dispatchers, ClaimNext(d) PROVE OutboxHolds'
<1> PICK m \in Messages :
      /\ Claimable(m)
      /\ outbox' = [outbox EXCEPT ![m].status = "SENDING", ![m].due = FALSE]
      /\ sender' = [sender EXCEPT ![d] = [pc |-> "call", row |-> m, part |-> outbox[m].sent,
                                          failures |-> outbox[m].failures, result |-> "none"]]
  BY DEF ClaimNext
<1>1. /\ outbox' \in [Messages -> Texts]
      /\ outbox'[m].sent = outbox[m].sent /\ outbox'[m].status = "SENDING" /\ ~outbox'[m].due
      /\ outbox'[m].length = outbox[m].length /\ outbox'[m].answers = outbox[m].answers
      /\ \A n \in Messages \ {m} : outbox'[n] = outbox[n]
  <2> DEFINE old == outbox[m]   new == [old EXCEPT !.status = "SENDING", !.due = FALSE]
  <2>1. old \in Texts /\ outbox' = [outbox EXCEPT ![m] = new] /\ outbox \in [Messages -> Texts]
    BY DEF OutboxHolds, OutboxShape
  <2>2. /\ new \in Texts /\ new.sent = old.sent /\ new.status = "SENDING" /\ ~new.due
        /\ new.length = old.length /\ new.answers = old.answers
    <3> HIDE DEF old
    <3> QED BY <2>1 DEF Texts
  <2> HIDE DEF new
  <2> QED BY <2>1, <2>2
<1>2. /\ sender' \in [Dispatchers -> Senders] /\ sender'[d].pc = "call" /\ sender'[d].row = m
      /\ sender'[d].part = outbox[m].sent
      /\ \A e \in Dispatchers \ {d} : sender'[e] = sender[e]
  BY DEF OutboxHolds, OutboxShape, Senders, Texts
<1>3. outbox[m].due /\ outbox[m].status \in {"PENDING", "SENDING"}
  BY DEF Claimable
<1>4. \A e \in Dispatchers : Busy(e) => sender[e].row # m
  BY <1>3 DEF OutboxHolds, Leases
<1>5. \A e \in Dispatchers : sender[e].row \in Messages
  BY DEF OutboxHolds, OutboxShape, Senders
<1>6. UNCHANGED <<chat, cursor, poll>>
  BY DEF ClaimNext
<1>7. Leases'
  BY <1>1, <1>2, <1>4, <1>5 DEF OutboxHolds, Leases, Busy
<1>8. Reading'
  BY <1>1, <1>3, <1>6 DEF OutboxHolds, Reading, ReadSoFar
<1>9. ShownIsRead'
  BY <1>2, <1>6 DEF OutboxHolds, ShownIsRead
<1> QED BY <1>1, <1>2, <1>6, <1>7, <1>8, <1>9 DEF OutboxHolds, OutboxShape

LEMMA NextPart ==
    ASSUME NEW seen \in Seq(Nat), NEW sent \in Nat, InOrder(seen),
           (seen = <<>> /\ sent = 0) \/ UpTo(seen, sent) \/ UpTo(seen, sent + 1)
    PROVE  InOrder(Append(seen, sent + 1)) /\ UpTo(Append(seen, sent + 1), sent + 1)
<1> DEFINE more == Append(seen, sent + 1)
<1>1. /\ Len(more) = Len(seen) + 1 /\ more[Len(more)] = sent + 1 /\ more # <<>>
      /\ \A i \in 1 .. Len(seen) : more[i] = seen[i]
      /\ Len(seen) \in Nat
  <2>1. Len(seen) \in Nat /\ Len(more) = Len(seen) + 1
    OBVIOUS
  <2>2. \A i \in 1 .. Len(seen) : more[i] = seen[i]
    OBVIOUS
  <2>3. more[Len(seen) + 1] = sent + 1
    OBVIOUS
  <2>4. more # <<>>
    <3>1. Len(<<>>) = 0
      OBVIOUS
    <3> HIDE DEF more
    <3> QED BY <2>1, <3>1
  <2> QED BY <2>1, <2>2, <2>3, <2>4
<1>2. UpTo(more, sent + 1)
  BY <1>1 DEF UpTo, LastOf
<1>3. ASSUME NEW i \in 1 .. Len(more)
      PROVE  IF i = 1 THEN more[i] = 1 ELSE more[i] \in {more[i - 1], more[i - 1] + 1}
  <2>1. CASE i \in 1 .. Len(seen)
    BY <1>1, <2>1 DEF InOrder
  <2>2. CASE i = Len(seen) + 1 /\ seen = <<>>
    BY <1>1, <2>2 DEF UpTo
  <2>3. CASE i = Len(seen) + 1 /\ seen # <<>>
    <3>1. Len(seen) \in 1 .. Len(seen) /\ i # 1 /\ seen[Len(seen)] \in {sent, sent + 1}
      BY <1>1, <2>3 DEF UpTo, LastOf
    <3> QED BY <1>1, <2>3, <3>1
  <2> QED BY <1>1, <2>1, <2>2, <2>3
<1> HIDE DEF more
<1>4. InOrder(more)
  BY <1>3 DEF InOrder
<1> QED BY <1>2, <1>4 DEF more

LEMMA SendHolds == ASSUME OutboxHolds, NEW d \in Dispatchers, SendPart(d) PROVE OutboxHolds'
<1> DEFINE m == sender[d].row
<1>1. UNCHANGED <<outbox, cursor, poll>> /\ sender[d].pc = "call"
  BY DEF SendPart
<1>2. PICK result \in {"shown", "failed", "rejected"} :
        /\ sender' = [sender EXCEPT ![d].pc = "save", ![d].result = result]
        /\ \/ chat' = [chat EXCEPT ![m] = Append(@, sender[d].part + 1)]
           \/ UNCHANGED chat /\ result # "shown"
  BY DEF SendPart
<1>3. m \in Messages /\ sender[d].part \in Nat /\ \A e \in Dispatchers : sender[e].row \in Messages
  BY DEF OutboxHolds, OutboxShape, Senders
<1>4. /\ sender' \in [Dispatchers -> Senders] /\ sender'[d].row = m /\ sender'[d].part = sender[d].part
      /\ sender'[d].pc = "save" /\ sender'[d].result = result
      /\ \A e \in Dispatchers \ {d} : sender'[e] = sender[e]
  BY <1>2 DEF OutboxHolds, OutboxShape, Senders
<1>5. outbox[m].status = "SENDING" /\ sender[d].part = outbox[m].sent
  BY <1>1 DEF OutboxHolds, Leases, Busy
<1>6. Leases'
  BY <1>1, <1>4 DEF OutboxHolds, Leases, Busy
<1>7. CASE UNCHANGED chat /\ result # "shown"
  BY <1>1, <1>4, <1>6, <1>7 DEF OutboxHolds, OutboxShape, Reading, ShownIsRead
<1>8. CASE chat' = [chat EXCEPT ![m] = Append(@, sender[d].part + 1)]
  <2>1. chat \in [Messages -> Seq(Nat)]
    BY DEF OutboxHolds, OutboxShape
  <2>2. /\ chat'[m] = Append(chat[m], outbox[m].sent + 1) /\ \A n \in Messages \ {m} : chat'[n] = chat[n]
    BY <1>3, <1>5, <1>8, <2>1
  <2>3. chat' \in [Messages -> Seq(Nat)]
    BY <1>3, <1>8, <2>1
  <2>4. InOrder(chat'[m]) /\ UpTo(chat'[m], outbox[m].sent + 1)
    <3> DEFINE seen == chat[m]   sent == outbox[m].sent
    <3>1. ReadSoFar(outbox[m], chat[m]) /\ seen \in Seq(Nat)
      BY <1>3, <2>1 DEF OutboxHolds, Reading
    <3>2. InOrder(seen) /\ ((seen = <<>> /\ sent = 0) \/ UpTo(seen, sent) \/ UpTo(seen, sent + 1))
      BY <3>1 DEF ReadSoFar
    <3>3. sent \in Nat
      BY <1>3, <1>5
    <3> HIDE DEF seen, sent
    <3>4. InOrder(Append(seen, sent + 1)) /\ UpTo(Append(seen, sent + 1), sent + 1)
      BY <3>1, <3>2, <3>3, NextPart
    <3> QED BY <2>2, <3>4 DEF seen, sent
  <2>5. Reading'
    <3>1. ReadSoFar(outbox[m], chat'[m])
      BY <1>3, <1>5, <2>4 DEF OutboxHolds, Reading, ReadSoFar
    <3> QED BY <1>1, <2>2, <3>1 DEF OutboxHolds, Reading
  <2>6. ShownIsRead'
    <3>1. \A e \in Dispatchers \ {d} : Busy(e) => sender[e].row # m
      BY <1>1 DEF OutboxHolds, Leases, Busy
    <3>2. ASSUME NEW e \in Dispatchers, sender'[e].pc = "save", sender'[e].result = "shown"
          PROVE  UpTo(chat'[sender'[e].row], sender'[e].part + 1)
      <4>1. CASE e = d
        BY <1>4, <1>5, <2>4, <4>1
      <4>2. CASE e # d
        BY <1>3, <1>4, <2>2, <3>1, <3>2, <4>2 DEF OutboxHolds, ShownIsRead, Busy
      <4> QED BY <4>1, <4>2
    <3> QED BY <3>2 DEF ShownIsRead
  <2> QED BY <1>1, <1>4, <1>6, <2>3, <2>5, <2>6 DEF OutboxHolds, OutboxShape
<1> QED BY <1>2, <1>7, <1>8

LEMMA AdvancedIs ==
    ASSUME NEW r \in Texts, NEW s \in Senders, s.part = r.sent
    PROVE  /\ Advanced(r, s) \in Texts
           /\ Advanced(r, s).sent = r.sent + 1 /\ Advanced(r, s).length = r.length
           /\ Advanced(r, s).answers = r.answers
           /\ Advanced(r, s).status = IF r.sent + 1 = r.length THEN "SENT" ELSE "PENDING"
<1> DEFINE status == IF s.part + 1 = r.length THEN "SENT" ELSE "PENDING"
<1>1. Advanced(r, s) = [r EXCEPT !.sent = r.sent + 1, !.failures = 0, !.due = TRUE, !.status = status]
  BY DEF Advanced, Texts
<1>2. status \in {"PENDING", "SENT"} /\ r.sent + 1 \in Nat
  BY DEF Texts
<1> HIDE DEF status
<1>3. Advanced(r, s) \in Texts
  <2>1. [r EXCEPT !.sent = r.sent + 1, !.failures = 0, !.status = status] \in Texts
    BY <1>2 DEF Texts
  <2>2. \A t \in Texts : [t EXCEPT !.due = TRUE] \in Texts
    BY DEF Texts
  <2>3. Advanced(r, s) = [[r EXCEPT !.sent = r.sent + 1, !.failures = 0, !.status = status] EXCEPT !.due = TRUE]
    BY <1>1 DEF Texts
  <2> QED BY <2>1, <2>2, <2>3
<1>4. /\ Advanced(r, s).sent = r.sent + 1 /\ Advanced(r, s).length = r.length
      /\ Advanced(r, s).answers = r.answers
      /\ Advanced(r, s).status = status
  BY <1>1 DEF Texts
<1> QED BY <1>3, <1>4 DEF status

LEMMA SetBackIs ==
    ASSUME NEW r \in Texts, NEW s \in Senders
    PROVE  /\ SetBack(r, s) \in Texts
           /\ SetBack(r, s).sent = r.sent /\ SetBack(r, s).length = r.length
           /\ SetBack(r, s).answers = r.answers
           /\ SetBack(r, s).status \in {"FAILED", "PENDING"}
<1> DEFINE status == IF s.result = "rejected" \/ s.failures + 1 >= MaxFailures THEN "FAILED" ELSE "PENDING"
<1>1. SetBack(r, s) = [r EXCEPT !.failures = s.failures + 1, !.status = status]
  BY DEF SetBack
<1>2. status \in {"FAILED", "PENDING"} /\ s.failures + 1 \in Nat
  BY DEF Senders
<1> HIDE DEF status
<1>3. SetBack(r, s) \in Texts
  BY <1>1, <1>2 DEF Texts
<1>4. /\ SetBack(r, s).sent = r.sent /\ SetBack(r, s).length = r.length
      /\ SetBack(r, s).answers = r.answers /\ SetBack(r, s).status = status
  BY <1>1 DEF Texts
<1> QED BY <1>2, <1>3, <1>4

LEMMA SaveHolds == ASSUME OutboxHolds, NEW d \in Dispatchers, SaveOutcome(d) PROVE OutboxHolds'
<1> DEFINE m == sender[d].row
<1>1. UNCHANGED <<chat, cursor, poll>> /\ sender[d].pc = "save" /\ sender' = [sender EXCEPT ![d] = NoSender]
  BY DEF SaveOutcome
<1>2. m \in Messages /\ sender[d] \in Senders /\ \A e \in Dispatchers : sender[e].row \in Messages
  BY DEF OutboxHolds, OutboxShape, Senders
<1>3. /\ sender' \in [Dispatchers -> Senders] /\ ~Busy(d)'
      /\ \A e \in Dispatchers \ {d} : sender'[e] = sender[e]
  BY <1>1, IdleSender DEF OutboxHolds, OutboxShape, Busy
<1>4. /\ outbox[m] \in Texts /\ outbox[m].status = "SENDING" /\ sender[d].part = outbox[m].sent
      /\ outbox[m].sent < outbox[m].length
  BY <1>1, <1>2 DEF OutboxHolds, OutboxShape, Leases, Busy, Reading, ReadSoFar
<1>5. \A e \in Dispatchers \ {d} : Busy(e) => sender[e].row # m
  BY <1>1 DEF OutboxHolds, Leases, Busy
<1>6. ShownIsRead'
  BY <1>1, <1>3 DEF OutboxHolds, ShownIsRead, Busy
<1>7. CASE UNCHANGED outbox
  BY <1>1, <1>3, <1>6, <1>7 DEF OutboxHolds, OutboxShape, Leases, Busy, Reading
<1>8. ASSUME NEW r \in Texts, outbox' = [outbox EXCEPT ![m] = r], ReadSoFar(r, chat[m])
      PROVE  OutboxHolds'
  <2>1. /\ outbox' \in [Messages -> Texts] /\ outbox'[m] = r
        /\ \A n \in Messages \ {m} : outbox'[n] = outbox[n]
    BY <1>2, <1>8 DEF OutboxHolds, OutboxShape
  <2>2. Leases'
    BY <1>2, <1>3, <1>5, <2>1 DEF OutboxHolds, Leases, Busy
  <2>3. Reading'
    BY <1>1, <1>8, <2>1 DEF OutboxHolds, Reading
  <2> QED BY <1>1, <1>3, <1>6, <2>1, <2>2, <2>3 DEF OutboxHolds, OutboxShape
<1>9. CASE sender[d].result = "shown" /\ outbox' = [outbox EXCEPT ![m] = Advanced(@, sender[d])]
  <2>1. UpTo(chat[m], outbox[m].sent + 1) /\ InOrder(chat[m])
    BY <1>1, <1>2, <1>4, <1>9 DEF OutboxHolds, ShownIsRead, Reading, ReadSoFar
  <2> DEFINE r == Advanced(outbox[m], sender[d])
  <2>2. /\ r \in Texts /\ r.sent = outbox[m].sent + 1 /\ r.length = outbox[m].length
        /\ r.status = IF outbox[m].sent + 1 = outbox[m].length THEN "SENT" ELSE "PENDING"
    BY <1>2, <1>4, AdvancedIs
  <2>3. outbox' = [outbox EXCEPT ![m] = r]
    BY <1>2, <1>9 DEF OutboxHolds, OutboxShape
  <2> HIDE DEF r
  <2>4. outbox[m].sent \in Nat /\ outbox[m].length \in {1, 2}
    BY <1>4 DEF Texts
  <2>5. ReadSoFar(r, chat[m])
    BY <1>4, <2>1, <2>2, <2>4 DEF ReadSoFar
  <2> QED BY <1>8, <2>2, <2>3, <2>5
<1>10. CASE outbox' = [outbox EXCEPT ![m] = SetBack(@, sender[d])]
  <2> DEFINE r == SetBack(outbox[m], sender[d])
  <2>1. /\ r \in Texts /\ r.sent = outbox[m].sent /\ r.length = outbox[m].length
        /\ r.status \in {"FAILED", "PENDING"}
    BY <1>2, <1>4, SetBackIs
  <2>2. outbox' = [outbox EXCEPT ![m] = r]
    BY <1>2, <1>10 DEF OutboxHolds, OutboxShape
  <2> HIDE DEF r
  <2>3. ReadSoFar(r, chat[m])
    BY <1>2, <1>4, <2>1 DEF OutboxHolds, Reading, ReadSoFar
  <2> QED BY <1>8, <2>1, <2>2, <2>3
<1> QED BY <1>7, <1>9, <1>10 DEF SaveOutcome, OutboxHolds, OutboxShape

LEMMA OutboxInitially == OutboxInit => OutboxHolds
<1> SUFFICES ASSUME OutboxInit PROVE OutboxHolds
  OBVIOUS
<1>1. NoMessage \in Texts /\ NoMessage.status = "none" /\ NoMessage.sent = 0 /\ NoMessage.answers = 0
  BY DEF NoMessage, Texts
<1>2. OutboxShape
  BY <1>1, IdleSender, MessagesAre DEF OutboxInit, OutboxShape, NoPoll
<1>3. Leases /\ ShownIsRead
  BY IdleSender DEF OutboxInit, Leases, ShownIsRead, Busy
<1>4. Reading
  BY <1>1 DEF OutboxInit, Reading, ReadSoFar, InOrder
<1> QED BY <1>2, <1>3, <1>4 DEF OutboxHolds

LEMMA OutboxStays == ASSUME OutboxHolds, [OutboxNext]_outboxVars PROVE OutboxHolds'
<1>1. CASE PauseEnds \/ UNCHANGED outboxVars
  BY <1>1 DEF PauseEnds, outboxVars, OutboxHolds, OutboxShape, Leases, Busy, Reading, ShownIsRead
<1> QED BY <1>1, EnqueueHolds, HandleHolds, PollHolds, CrashHolds, DueHolds, ClaimHolds, SendHolds, SaveHolds
     DEF OutboxNext, OutboxStep, PollStep

(* Which updates have a reply, and the rows that are left for the others. *)
Free == {m \in Messages : outbox[m].status = "none"}
Done == {u \in Updates : \E m \in Messages : outbox[m].answers = u}
Replies ==
    /\ \A m, n \in Messages : outbox[m].answers = outbox[n].answers /\ outbox[m].answers # 0 => m = n
    /\ 1 .. cursor \subseteq Done
    /\ poll.pc = "handle" => cursor <= poll.upto /\ 1 .. poll.upto \subseteq Done
    /\ Cardinality(Free) >= MaxUpdates - Cardinality(Done)

LEMMA RowsAreFinite ==
    /\ IsFiniteSet(Messages) /\ Cardinality(Messages) = MaxMessages
    /\ IsFiniteSet(Updates) /\ Cardinality(Updates) = MaxUpdates
    /\ IsFiniteSet(Free) /\ Cardinality(Free) \in Nat
    /\ IsFiniteSet(Done) /\ Cardinality(Done) \in Nat
<1>1. MaxMessages \in Nat \ {0} /\ MaxUpdates \in Nat \ {0}
  BY OutboxAssumption
<1>2. /\ IsFiniteSet(Messages) /\ Cardinality(Messages) = MaxMessages
      /\ IsFiniteSet(Updates) /\ Cardinality(Updates) = MaxUpdates
  BY <1>1, FS_Interval DEF Messages, Updates
<1>3. Free \in SUBSET Messages /\ Done \in SUBSET Updates
  BY DEF Free, Done
<1> HIDE DEF Free, Done
<1> QED BY <1>2, <1>3, FS_Subset, FS_CardinalityType

(* A step of a dispatcher, or of time, changes neither. *)
LEMMA RowsKeepAnswers ==
    ASSUME OutboxHolds, \/ \E d \in Dispatchers : ClaimNext(d) \/ SendPart(d) \/ SaveOutcome(d)
                        \/ RowFallsDue \/ UNCHANGED outbox
    PROVE  \A m \in Messages : /\ outbox'[m].answers = outbox[m].answers
                               /\ outbox'[m].status = "none" <=> outbox[m].status = "none"
<1> USE DEF OutboxHolds
<1>1. CASE RowFallsDue
  BY <1>1 DEF RowFallsDue, OutboxShape, Texts
<1>2. ASSUME NEW d \in Dispatchers, ClaimNext(d)
      PROVE  \A m \in Messages : /\ outbox'[m].answers = outbox[m].answers
                                 /\ outbox'[m].status = "none" <=> outbox[m].status = "none"
  BY <1>2 DEF ClaimNext, Claimable, OutboxShape, Texts
<1>3. ASSUME NEW d \in Dispatchers, SendPart(d) PROVE UNCHANGED outbox
  BY <1>3 DEF SendPart
<1>4. ASSUME NEW d \in Dispatchers, SaveOutcome(d)
      PROVE  \A m \in Messages : /\ outbox'[m].answers = outbox[m].answers
                                 /\ outbox'[m].status = "none" <=> outbox[m].status = "none"
  <2> DEFINE m == sender[d].row
  <2>1. m \in Messages /\ sender[d] \in Senders /\ sender[d].pc = "save"
    BY <1>4 DEF OutboxShape, Senders, SaveOutcome
  <2>2. outbox[m] \in Texts /\ sender[d].part = outbox[m].sent /\ outbox[m].status = "SENDING"
    BY <2>1 DEF OutboxShape, Leases, Busy
  <2>3. PICK r \in {outbox[m], Advanced(outbox[m], sender[d]), SetBack(outbox[m], sender[d])} :
          outbox' = [outbox EXCEPT ![m] = r]
    <3>1. CASE UNCHANGED outbox
      <4>1. outbox' = [outbox EXCEPT ![m] = outbox[m]]
        BY <2>1, <3>1 DEF OutboxShape
      <4> QED BY <4>1
    <3> QED BY <1>4, <2>1, <3>1 DEF SaveOutcome, OutboxShape
  <2>4. r.answers = outbox[m].answers /\ r.status # "none"
    <3>1. CASE r = outbox[m]
      BY <2>2, <3>1
    <3>2. CASE r = Advanced(outbox[m], sender[d])
      <4>1. r.answers = outbox[m].answers /\ r.status \in {"SENT", "PENDING"}
        BY <2>1, <2>2, <3>2, AdvancedIs
      <4> QED BY <4>1
    <3>3. CASE r = SetBack(outbox[m], sender[d])
      <4>1. r.answers = outbox[m].answers /\ r.status \in {"FAILED", "PENDING"}
        BY <2>1, <2>2, <3>3, SetBackIs
      <4> QED BY <4>1
    <3> QED BY <2>3, <3>1, <3>2, <3>3
  <2> QED BY <2>1, <2>2, <2>3, <2>4 DEF OutboxShape
<1> QED BY <1>1, <1>2, <1>3, <1>4

LEMMA RepliesKept ==
    ASSUME OutboxHolds, Replies,
           \A m \in Messages : /\ outbox'[m].answers = outbox[m].answers
                               /\ outbox'[m].status = "none" <=> outbox[m].status = "none",
           \/ UNCHANGED <<cursor, poll>>
           \/ poll' = NoPoll /\ UNCHANGED cursor
           \/ poll' = [pc |-> "handle", upto |-> cursor] /\ UNCHANGED cursor
           \/ poll' = NoPoll /\ poll.pc = "handle" /\ cursor' = poll.upto
    PROVE  Replies'
<1>1. Free' = Free /\ Done' = Done
  BY DEF Free, Done
<1>2. 1 .. cursor' \subseteq Done
  BY DEF Replies
<1>3. poll'.pc = "handle" => cursor' <= poll'.upto /\ 1 .. poll'.upto \subseteq Done
  BY DEF Replies, NoPoll, OutboxHolds, OutboxShape
<1> QED BY <1>1, <1>2, <1>3 DEF Replies

LEMMA EnqueueReplies == ASSUME OutboxHolds, Replies, Enqueue PROVE Replies'
<1>1. PICK rank \in {1, 2}, length \in {1, 2} : outbox' = WithRow(rank, length, 0)
  BY DEF Enqueue
<1>2. UNCHANGED <<cursor, poll>> /\ Cardinality(Free) > MaxUpdates
  BY DEF Enqueue, Free
<1>3. CASE outbox' = outbox
  BY <1>2, <1>3, RepliesKept
<1>4. ASSUME NEW m \in Messages, outbox[m].status = "none", outbox'[m].status = "PENDING",
             outbox'[m].answers = 0, \A n \in Messages \ {m} : outbox'[n] = outbox[n]
      PROVE  Replies'
  <2>1. outbox[m].answers = 0
    BY <1>4 DEF OutboxHolds, Reading, ReadSoFar
  <2>2. Done' = Done
    BY <1>4, <2>1 DEF Done
  <2>3. Free' = Free \ {m} /\ m \in Free
    BY <1>4 DEF Free
  <2>4. Cardinality(Free') = Cardinality(Free) - 1
    BY <2>3, RowsAreFinite, FS_RemoveElement
  <2>5. Cardinality(Free') >= MaxUpdates - Cardinality(Done)
    BY <1>2, <2>4, RowsAreFinite, MessagesAre
  <2>6. \A n, k \in Messages : outbox'[n].answers = outbox'[k].answers /\ outbox'[n].answers # 0 => n = k
    BY <1>4 DEF Replies
  <2> QED BY <1>2, <2>2, <2>5, <2>6 DEF Replies
<1>5. OutboxShape /\ Reading
  BY DEF OutboxHolds
<1> QED BY <1>1, <1>3, <1>4, <1>5, WithRowIs

LEMMA HandleReplies == ASSUME OutboxHolds, Replies, HandleUpdate PROVE Replies'
<1> DEFINE u == poll.upto + 1
<1>0. /\ u \in Updates /\ poll.upto \in 0 .. MaxUpdates /\ cursor \in 0 .. MaxUpdates
      /\ cursor <= poll.upto /\ 1 .. poll.upto \subseteq Done
      /\ UNCHANGED cursor /\ u # 0
  BY MessagesAre DEF HandleUpdate, OutboxHolds, OutboxShape, Updates, Replies
<1>1. CASE poll' = NoPoll /\ UNCHANGED outbox
  BY <1>0, <1>1, RepliesKept
<1>2. CASE /\ outbox' = IF Answered(u) THEN outbox ELSE WithRow(0, 1, u)
           /\ poll' = [poll EXCEPT !.upto = @ + 1]
  <2>1. poll'.upto = u /\ cursor' <= u /\ 1 .. u = (1 .. poll.upto) \cup {u}
    BY <1>0, <1>2 DEF OutboxHolds, OutboxShape
  <2>2. CASE Answered(u)
    <3>1. u \in Done
      BY <1>0, <2>2 DEF Answered, Done
    <3>2. Free' = Free /\ Done' = Done /\ outbox' = outbox
      BY <1>2, <2>2 DEF Free, Done
    <3> QED BY <1>0, <2>1, <3>1, <3>2 DEF Replies
  <2>3. CASE ~Answered(u)
    <3>1. u \notin Done
      BY <1>0, <2>3 DEF Answered, Done, OutboxHolds, Reading, ReadSoFar
    <3>2. Done \in SUBSET (Updates \ {u})
      BY <3>1 DEF Done
    <3>3. IsFiniteSet(Updates \ {u}) /\ Cardinality(Updates \ {u}) = MaxUpdates - 1
      BY <1>0, RowsAreFinite, FS_RemoveElement
    <3>4. Cardinality(Done) <= MaxUpdates - 1
      BY <3>2, <3>3, FS_Subset
    <3>5. ~Full
      <4>1. Full => Free = {}
        BY DEF Full, Free
      <4>2. Full => Cardinality(Free) = 0
        BY <4>1, FS_EmptySet
      <4>3. Cardinality(Free) >= MaxUpdates - Cardinality(Done)
        BY DEF Replies
      <4> QED BY <3>4, <4>2, <4>3, RowsAreFinite, MessagesAre
    <3>6. PICK m \in Messages : /\ outbox[m].status = "none" /\ outbox'[m].status = "PENDING"
                                /\ outbox'[m].answers = u
                                /\ \A n \in Messages \ {m} : outbox'[n] = outbox[n]
      <4>1. outbox' = WithRow(0, 1, u) /\ OutboxShape /\ Reading /\ u \in {0} \cup Updates
        BY <1>0, <1>2, <2>3 DEF OutboxHolds
      <4> HIDE DEF u
      <4>2. \/ Full /\ outbox' = outbox
            \/ \E m \in Messages :
                 /\ outbox[m].status = "none" /\ outbox'[m].status = "PENDING"
                 /\ outbox'[m].sent = 0 /\ outbox'[m].length = 1 /\ outbox'[m].answers = u
                 /\ \A n \in Messages \ {m} : outbox'[n] = outbox[n]
        BY <4>1, WithRowIs
      <4> QED BY <3>5, <4>2
    <3> HIDE DEF u
    <3>7. outbox[m].answers = 0
      BY <3>6 DEF OutboxHolds, Reading, ReadSoFar
    <3>8. Done' = Done \cup {u}
      <4>1. ASSUME NEW v \in Updates
            PROVE  (\E n \in Messages : outbox'[n].answers = v)
                     <=> (\E n \in Messages : outbox[n].answers = v) \/ v = u
        <5>1. v # 0
          BY MessagesAre
        <5> QED BY <3>6, <3>7, <5>1
      <4> QED BY <1>0, <4>1 DEF Done
    <3>9. Free' = Free \ {m} /\ m \in Free
      BY <3>6 DEF Free
    <3>10. Cardinality(Free') = Cardinality(Free) - 1
      BY <3>9, RowsAreFinite, FS_RemoveElement
    <3>11. Cardinality(Done') = Cardinality(Done) + 1
      BY <3>1, <3>8, RowsAreFinite, FS_AddElement
    <3>12. Cardinality(Free') >= MaxUpdates - Cardinality(Done')
      BY <3>10, <3>11, RowsAreFinite, MessagesAre DEF Replies
    <3>13. \A n, k \in Messages : outbox'[n].answers = outbox'[k].answers /\ outbox'[n].answers # 0 => n = k
      BY <1>0, <3>1, <3>6 DEF Replies, Done
    <3>14. 1 .. cursor' \subseteq Done' /\ 1 .. poll'.upto \subseteq Done'
      BY <1>0, <2>1, <3>8 DEF Replies
    <3> QED BY <2>1, <3>12, <3>13, <3>14 DEF Replies
  <2> QED BY <2>2, <2>3
<1> QED BY <1>1, <1>2 DEF HandleUpdate

LEMMA RepliesStay == ASSUME OutboxHolds, Replies, [OutboxNext]_outboxVars PROVE Replies'
<1>1. CASE (\E d \in Dispatchers : ClaimNext(d) \/ SendPart(d) \/ SaveOutcome(d)) \/ RowFallsDue
  <2>1. UNCHANGED <<cursor, poll>>
    BY <1>1 DEF ClaimNext, SendPart, SaveOutcome, RowFallsDue
  <2> QED BY <1>1, <2>1, RowsKeepAnswers, RepliesKept
<1>2. CASE PauseEnds \/ OutboxCrash \/ BeginPoll \/ CommitPoll \/ UNCHANGED outboxVars
  <2>1. UNCHANGED outbox
    BY <1>2 DEF PauseEnds, OutboxCrash, BeginPoll, CommitPoll, outboxVars
  <2>2. \/ UNCHANGED <<cursor, poll>> \/ (poll' = NoPoll /\ UNCHANGED cursor)
        \/ poll' = [pc |-> "handle", upto |-> cursor] /\ UNCHANGED cursor
        \/ poll' = NoPoll /\ poll.pc = "handle" /\ cursor' = poll.upto
    BY <1>2 DEF PauseEnds, OutboxCrash, BeginPoll, CommitPoll, outboxVars
  <2> QED BY <2>1, <2>2, RepliesKept
<1> QED BY <1>1, <1>2, EnqueueReplies, HandleReplies DEF OutboxNext, OutboxStep, PollStep

LEMMA RepliesInitially == OutboxInit => Replies
<1> SUFFICES ASSUME OutboxInit PROVE Replies
  OBVIOUS
<1>1. \A m \in Messages : outbox[m].status = "none" /\ outbox[m].answers = 0
  BY DEF OutboxInit, NoMessage
<1>2. Free = Messages /\ Done = {}
  BY <1>1, MessagesAre DEF Free, Done
<1>3. Cardinality(Done) = 0
  BY <1>2, FS_EmptySet
<1>4. Cardinality(Free) >= MaxUpdates - Cardinality(Done)
  BY <1>2, <1>3, RowsAreFinite, MessagesAre
<1>5. cursor = 0 /\ poll.pc = "idle"
  BY DEF OutboxInit, NoPoll
<1> QED BY <1>1, <1>4, <1>5 DEF Replies

(* The operator reads every text from its first part to its last, in order
   and none left out, and each command the cursor has passed has one reply,
   whatever is lost, refused, repeated or claimed anew after a crash. *)
THEOREM ChannelStaysFaithful == OutboxSpec => []ChannelIsFaithful
<1>1. OutboxHolds => PartsInOrder
  <2> SUFFICES ASSUME OutboxHolds, NEW m \in Messages
               PROVE  /\ \A i \in DOMAIN chat[m] :
                           IF i = 1 THEN chat[m][i] = 1 ELSE chat[m][i] \in {chat[m][i - 1], chat[m][i - 1] + 1}
                      /\ outbox[m].status = "SENT" =>
                           chat[m] # <<>> /\ chat[m][Len(chat[m])] = outbox[m].length
    BY DEF PartsInOrder
  <2>1. chat[m] \in Seq(Nat) /\ ReadSoFar(outbox[m], chat[m])
    BY DEF OutboxHolds, OutboxShape, Reading
  <2>2. DOMAIN chat[m] = 1 .. Len(chat[m])
    BY <2>1
  <2> QED BY <2>1, <2>2 DEF ReadSoFar, InOrder, UpTo, LastOf
<1>2. OutboxHolds /\ Replies => OneReplyEach
  <2> SUFFICES ASSUME OutboxHolds, Replies, NEW u \in Updates
               PROVE  /\ Cardinality({m \in Messages : outbox[m].answers = u}) <= 1
                      /\ u <= cursor => {m \in Messages : outbox[m].answers = u} # {}
    BY DEF OneReplyEach
  <2> DEFINE replies == {m \in Messages : outbox[m].answers = u}
  <2>1. \A m, n \in replies : m = n
    BY MessagesAre DEF Replies
  <2>2. u <= cursor => replies # {}
    <3>1. cursor \in Nat /\ u \in Nat /\ 1 <= u /\ 1 .. cursor \subseteq Done
      BY MessagesAre DEF Replies, OutboxHolds, OutboxShape, Updates
    <3>2. u <= cursor => u \in Done
      BY <3>1
    <3> QED BY <3>2 DEF Done
  <2> HIDE DEF replies
  <2>3. Cardinality(replies) <= 1
    BY <2>1, AtMostOne
  <2> QED BY <2>2, <2>3 DEF replies
<1>3. OutboxInit => OutboxHolds /\ Replies
  BY OutboxInitially, RepliesInitially
<1>4. OutboxHolds /\ Replies /\ [OutboxNext]_outboxVars => (OutboxHolds /\ Replies)'
  BY OutboxStays, RepliesStay
<1> QED BY <1>1, <1>2, <1>3, <1>4, PTL DEF OutboxSpec, ChannelIsFaithful

--------------------------------------------------------------------------
\* MarketStream.

Engines ==
    [known : BOOLEAN, desynced : BOOLEAN, recovering : BOOLEAN, asked : Timers, handler : BOOLEAN,
     history : Seq(BOOLEAN), window : [state : {"none", "running", "due"}, seen : BOOLEAN],
     age : {"none", "fresh", "old"}, latest : {"WARMING_UP", "READY", "DESYNC", "RECOVERING"}]
AllSeen(history) == \A i \in 1 .. Len(history) : history[i] = TRUE

(* Until a snapshot starts the windows anew, a loss of sync outlasts all of
   them; the verdict READY is that of a full history. *)
Watched(e) ==
    /\ e \in Engines /\ Len(e.history) <= MinWindows
    /\ e.desynced = TRUE \/ (AllSeen(e.history) /\ e.window.seen = TRUE)
Sound(e) == Watched(e) /\ (e.latest = "READY" => Len(e.history) = MinWindows)
StreamInv ==
    /\ Sound(engine)
    /\ book \in [synced : BOOLEAN, sides : BOOLEAN, exact : {TRUE}]
    /\ wire \in Seq([snapshot : BOOLEAN, follows : BOOLEAN, oneSided : BOOLEAN, crosses : BOOLEAN])
    /\ exchange \in [sends : BOOLEAN, lost : BOOLEAN]

LEMMA WindowsAre == /\ NewWindow \in [state : {"none", "running", "due"}, seen : BOOLEAN] /\ NewWindow.seen = TRUE
                    /\ NoWindow \in [state : {"none", "running", "due"}, seen : BOOLEAN] /\ NoWindow.seen = TRUE
  BY DEF NewWindow, NoWindow
LEMMA NothingSeen == /\ <<>> \in Seq(BOOLEAN) /\ Len(<<>>) = 0 /\ AllSeen(<<>>)
                     /\ MinWindows \in Nat \ {0}
  BY StreamAssumption DEF AllSeen

(* Fields that have no part in it. *)
LEMMA Touched ==
    ASSUME NEW e, Sound(e)
    PROVE  /\ \A asked \in Timers : Sound([e EXCEPT !.asked = asked])
           /\ \A age \in {"none", "fresh", "old"} : Sound([e EXCEPT !.age = age])
           /\ \A b \in BOOLEAN : Sound([e EXCEPT !.handler = b]) /\ Sound([e EXCEPT !.known = b])
           /\ Sound([e EXCEPT !.window.state = "due"])
<1>0. e \in Engines
  BY DEF Sound, Watched
<1>1. ASSUME NEW asked \in Timers PROVE Sound([e EXCEPT !.asked = asked])
  BY <1>0 DEF Sound, Watched, Engines
<1>2. ASSUME NEW age \in {"none", "fresh", "old"} PROVE Sound([e EXCEPT !.age = age])
  BY <1>0 DEF Sound, Watched, Engines
<1>3. ASSUME NEW b \in BOOLEAN PROVE Sound([e EXCEPT !.handler = b]) /\ Sound([e EXCEPT !.known = b])
  BY <1>0 DEF Sound, Watched, Engines
<1>4. Sound([e EXCEPT !.window.state = "due"])
  BY <1>0 DEF Sound, Watched, Engines
<1> QED BY <1>1, <1>2, <1>3, <1>4

LEMMA EvaluatedSound ==
    ASSUME NEW e, Watched(e), NEW b, NEW intact
    PROVE  Sound(Evaluated(e, b, intact))
<1>0. e \in Engines /\ MinWindows \in Nat /\ Len(e.history) \in Nat
  BY NothingSeen DEF Watched, Engines
<1>1. \A latest \in {"DESYNC", "RECOVERING", "WARMING_UP"} : Sound([e EXCEPT !.latest = latest])
  BY <1>0 DEF Sound, Watched, Engines
<1>2. ASSUME Len(e.history) >= MinWindows
      PROVE  Sound([e EXCEPT !.recovering = FALSE, !.latest = "READY"])
  <2> DEFINE r == [e EXCEPT !.recovering = FALSE, !.latest = "READY"]
  <2>1. Watched(r)
    BY <1>0 DEF Watched, Engines
  <2>2. Len(r.history) = MinWindows
    <3>1. r.history = e.history
      BY <1>0 DEF Engines
    <3>2. Len(e.history) <= MinWindows
      BY DEF Watched
    <3> QED BY <1>0, <1>2, <3>1, <3>2
  <2> HIDE DEF r
  <2>3. Sound(r)
    BY <2>1, <2>2 DEF Sound
  <2> QED BY <2>3 DEF r
<1> QED BY <1>0, <1>1, <1>2 DEF Evaluated

LEMMA LongerSeen ==
    ASSUME NEW history \in Seq(BOOLEAN), NEW seen \in BOOLEAN, Len(history) <= MinWindows
    PROVE  LET longer == Append(history, seen)
               kept == IF Len(longer) > MinWindows THEN Tail(longer) ELSE longer
           IN  /\ kept \in Seq(BOOLEAN) /\ Len(kept) <= MinWindows
               /\ AllSeen(history) /\ seen = TRUE => AllSeen(kept)
<1> DEFINE longer == Append(history, seen)
           kept == IF Len(longer) > MinWindows THEN Tail(longer) ELSE longer
<1>1. /\ longer \in Seq(BOOLEAN) /\ Len(longer) = Len(history) + 1 /\ Len(history) \in Nat
      /\ MinWindows \in Nat
  BY NothingSeen
<1>2. ASSUME AllSeen(history), seen = TRUE PROVE AllSeen(longer)
  BY <1>1, <1>2 DEF AllSeen
<1>3. /\ Tail(longer) \in Seq(BOOLEAN) /\ Len(Tail(longer)) = Len(history)
      /\ \A i \in 1 .. Len(history) : Tail(longer)[i] = longer[i + 1]
  <2> HIDE DEF longer
  <2>1. Len(<<>>) = 0
    OBVIOUS
  <2>2. longer # <<>>
    BY <1>1, <2>1
  <2>3. /\ Tail(longer) \in Seq(BOOLEAN) /\ Len(Tail(longer)) = Len(longer) - 1
        /\ \A i \in 1 .. Len(Tail(longer)) : Tail(longer)[i] = longer[i + 1]
    BY <1>1, <2>2, HeadTailProperties
  <2> QED BY <1>1, <2>3
<1>4. AllSeen(longer) => AllSeen(Tail(longer))
  <2> HIDE DEF longer
  <2> QED BY <1>1, <1>3 DEF AllSeen
<1> HIDE DEF longer
<1>5. kept \in Seq(BOOLEAN) /\ Len(kept) <= MinWindows
  <2>1. CASE Len(longer) > MinWindows
    BY <1>3, <2>1
  <2>2. CASE ~(Len(longer) > MinWindows)
    BY <1>1, <2>2
  <2> QED BY <2>1, <2>2
<1>6. AllSeen(history) /\ seen = TRUE => AllSeen(kept)
  BY <1>2, <1>4
<1> QED BY <1>5, <1>6 DEF longer

LEMMA FinalizedSound ==
    ASSUME NEW e, Sound(e), NEW b, NEW intact
    PROVE  Sound(Finalized(e, b, intact))
<1> DEFINE longer == Append(e.history, e.window.seen)
           kept == IF Len(longer) > MinWindows THEN Tail(longer) ELSE longer
           f == [e EXCEPT !.history = kept, !.window = NewWindow]
<1>0. e \in Engines /\ e.history \in Seq(BOOLEAN) /\ e.window.seen \in BOOLEAN /\ Len(e.history) <= MinWindows
  BY DEF Sound, Watched, Engines
<1>1. /\ kept \in Seq(BOOLEAN) /\ Len(kept) <= MinWindows
      /\ AllSeen(e.history) /\ e.window.seen = TRUE => AllSeen(kept)
  BY <1>0, LongerSeen
<1> HIDE DEF kept
<1>2. f \in Engines
  BY <1>0, <1>1, WindowsAre DEF Engines
<1>3. f.history = kept /\ f.window = NewWindow /\ f.desynced = e.desynced
  BY <1>0 DEF Engines
<1>4. Watched(f)
  BY <1>1, <1>2, <1>3, WindowsAre DEF Sound, Watched
<1> HIDE DEF f
<1>5. Finalized(e, b, intact) = Evaluated(f, b, intact)
  BY DEF Finalized, f, kept
<1> QED BY <1>4, <1>5, EvaluatedSound

LEMMA TurnsSound ==
    ASSUME NEW e, Sound(e), NEW b, NEW intact
    PROVE  Sound(WindowTurns(e, b, intact))
<1>1. Sound([e EXCEPT !.window = NewWindow])
  <2>1. e \in Engines
    BY DEF Sound, Watched
  <2> QED BY <2>1, WindowsAre DEF Sound, Watched, Engines
<1>2. CASE e.window.state = "none"
  BY <1>1, <1>2 DEF WindowTurns
<1>3. CASE e.window.state = "due"
  BY <1>3, FinalizedSound DEF WindowTurns
<1>4. CASE e.window.state \notin {"none", "due"}
  BY <1>4 DEF WindowTurns
<1> QED BY <1>2, <1>3, <1>4

LEMMA DesyncedSound ==
    ASSUME NEW e, Sound(e)
    PROVE  Sound(Desynced(e)) /\ Desynced(e).asked = e.asked /\ Desynced(e).handler = e.handler
<1> DEFINE old == [i \in DOMAIN e.history |-> FALSE]
           window == [e.window EXCEPT !.seen = FALSE]
<1>0. e \in Engines
  BY DEF Sound, Watched
<1>1. old \in Seq(BOOLEAN) /\ Len(old) = Len(e.history)
  <2>1. e.history \in Seq(BOOLEAN) /\ DOMAIN e.history = 1 .. Len(e.history) /\ Len(e.history) \in Nat
    BY <1>0 DEF Engines
  <2>2. old \in [1 .. Len(e.history) -> BOOLEAN]
    BY <2>1
  <2> HIDE DEF old
  <2> QED BY <2>1, <2>2, LenProperties
<1>2. window \in [state : {"none", "running", "due"}, seen : BOOLEAN]
  BY <1>0 DEF Engines
<1>3. Desynced(e) = [e EXCEPT !.history = old, !.window = window, !.desynced = TRUE,
                              !.recovering = TRUE, !.latest = "DESYNC"]
  BY <1>0 DEF Desynced, BeforeLoss, Engines
<1> HIDE DEF old, window
<1>4. Desynced(e) \in Engines
  BY <1>0, <1>1, <1>2, <1>3 DEF Engines
<1>5. /\ Desynced(e).history = old /\ Desynced(e).desynced = TRUE /\ Desynced(e).latest = "DESYNC"
      /\ Desynced(e).asked = e.asked /\ Desynced(e).handler = e.handler
  BY <1>0, <1>3 DEF Engines
<1> QED BY <1>1, <1>4, <1>5 DEF Sound, Watched

LEMMA ResyncedSound ==
    ASSUME NEW e, Sound(e)
    PROVE  Sound(Resynced(e))
<1>0. e \in Engines
  BY DEF Sound, Watched
<1>1. CASE e.desynced
  <2>1. Resynced(e) = [e EXCEPT !.asked = "no", !.desynced = FALSE, !.recovering = TRUE,
                   !.history = <<>>, !.window = NewWindow, !.latest = "RECOVERING"]
    BY <1>1 DEF Resynced
  <2>2. Resynced(e) \in Engines
    <3> DEFINE none == <<>>   window == NewWindow
    <3>1. none \in Seq(BOOLEAN) /\ "no" \in Timers
      BY NothingSeen DEF Timers
    <3>2. window \in [state : {"none", "running", "due"}, seen : BOOLEAN]
      BY WindowsAre
    <3> HIDE DEF none, window
    <3>3. [e EXCEPT !.asked = "no", !.desynced = FALSE, !.recovering = TRUE,
                    !.history = none, !.window = window, !.latest = "RECOVERING"] \in Engines
      BY <1>0, <3>1, <3>2 DEF Engines
    <3> QED BY <2>1, <3>3 DEF none, window
  <2>3. Resynced(e).history = <<>> /\ Resynced(e).window = NewWindow /\ Resynced(e).latest = "RECOVERING"
    BY <1>0, <2>1 DEF Engines
  <2> QED BY <2>2, <2>3, WindowsAre, NothingSeen DEF Sound, Watched
<1>2. CASE ~e.desynced
  BY <1>2, Touched DEF Resynced, Timers
<1> QED BY <1>1, <1>2

LEMMA ResetSound ==
    ASSUME NEW e, Sound(e)
    PROVE  Sound(Reset(e))
<1>0. e \in Engines
  BY DEF Sound, Watched
<1>1. CASE e.known
  <2>1. Reset(e) = [e EXCEPT !.history = <<>>, !.window = NoWindow, !.asked = "no", !.desynced = TRUE,
                   !.recovering = TRUE, !.latest = "DESYNC"]
    BY <1>1 DEF Reset
  <2>2. Reset(e) \in Engines
    <3> DEFINE none == <<>>   window == NoWindow
    <3>1. none \in Seq(BOOLEAN) /\ "no" \in Timers
      BY NothingSeen DEF Timers
    <3>2. window \in [state : {"none", "running", "due"}, seen : BOOLEAN]
      BY WindowsAre
    <3> HIDE DEF none, window
    <3>3. [e EXCEPT !.history = none, !.window = window, !.asked = "no", !.desynced = TRUE,
                    !.recovering = TRUE, !.latest = "DESYNC"] \in Engines
      BY <1>0, <3>1, <3>2 DEF Engines
    <3> QED BY <2>1, <3>3 DEF none, window
  <2>3. Reset(e).history = <<>> /\ Reset(e).desynced = TRUE /\ Reset(e).latest = "DESYNC"
    BY <1>0, <2>1 DEF Engines
  <2> QED BY <2>2, <2>3, WindowsAre, NothingSeen DEF Sound, Watched
<1>2. CASE ~e.known
  BY <1>2 DEF Reset
<1> QED BY <1>1, <1>2

(* The local book keeps the exchange's: it takes only a frame that follows
   the one it read last. *)
Frames == [snapshot : BOOLEAN, follows : BOOLEAN, oneSided : BOOLEAN, crosses : BOOLEAN]
Books == [synced : BOOLEAN, sides : BOOLEAN, exact : {TRUE}]
LEMMA BooksAre ==
    ASSUME NEW frame \in Frames, NEW b \in Books
    PROVE  ApplySnapshot(frame) \in Books /\ ApplyDelta(b, frame) \in Books /\ NoBook \in Books
<1>1. ApplySnapshot(frame) \in Books /\ NoBook \in Books
  BY DEF ApplySnapshot, NoBook, Books, Frames
<1>2. CASE ~b.synced
  BY <1>1, <1>2 DEF ApplyDelta
<1>3. CASE b.synced /\ ~Continues(frame)
  <2>1. [b EXCEPT !.synced = FALSE] \in Books
    BY DEF Books
  <2> QED BY <1>1, <1>3, <2>1 DEF ApplyDelta
<1>4. CASE b.synced /\ Continues(frame)
  <2>1. frame.follows = TRUE /\ b.exact = TRUE
    BY <1>4 DEF Continues, Frames, Books
  <2>2. ApplyDelta(b, frame) = [synced |-> ~frame.crosses, sides |-> TRUE, exact |-> TRUE]
    BY <1>4, <2>1 DEF ApplyDelta
  <2>3. ApplyDelta(b, frame) \in Books
    BY <2>2 DEF Books
  <2> QED BY <1>1, <2>3
<1> QED BY <1>1, <1>2, <1>3, <1>4

LEMMA ReadSound ==
    ASSUME StreamInv, ReadFrame
    PROVE  Sound(engine') /\ book' \in Books
<1> DEFINE frame == Head(wire)
           e == [engine EXCEPT !.known = TRUE]
<1>1. frame \in Frames /\ book \in Books
  <2>1. wire \in Seq(Frames) /\ wire # <<>> /\ book \in Books
    BY DEF StreamInv, ReadFrame, Frames, Books
  <2> QED BY <2>1, HeadTailProperties
<1>2. Sound(e)
  BY Touched DEF StreamInv
<1> HIDE DEF frame, e
<1>3. PICK intact \in BOOLEAN : IF frame.snapshot THEN IngestSnapshot(e, frame, intact) ELSE IngestDelta(e, frame, intact)
  BY DEF ReadFrame, frame, e
<1> DEFINE opened == WindowTurns(e, book, intact)
<1>4. Sound(opened)
  BY <1>2, TurnsSound
<1> HIDE DEF opened
<1>5. CASE IngestSnapshot(e, frame, intact)
  <2>1. Sound([Resynced(opened) EXCEPT !.age = "fresh"])
    BY <1>4, ResyncedSound, Touched
  <2>2. Sound(engine')
    BY <1>5, <2>1, DesyncedSound DEF IngestSnapshot, opened
  <2> QED BY <1>1, <1>5, <2>2, BooksAre DEF IngestSnapshot
<1>6. CASE IngestDelta(e, frame, intact)
  <2>1. Sound([opened EXCEPT !.age = "fresh"])
    BY <1>4, Touched
  <2>2. ASSUME engine' = [Desynced(opened) EXCEPT !.asked = IF AsksResync(e) THEN "recent" ELSE @,
                                           !.handler = @ \/ AsksResync(e)]
        PROVE  Sound(engine')
    <3> DEFINE d == Desynced(opened)
    <3>1. Sound(d) /\ d \in Engines
      BY <1>4, DesyncedSound DEF Sound, Watched
    <3>2. engine' = [d EXCEPT !.asked = IF AsksResync(e) THEN "recent" ELSE d.asked,
                              !.handler = d.handler \/ AsksResync(e)]
      BY <2>2
    <3> HIDE DEF d
    <3> DEFINE asked == IF AsksResync(e) THEN "recent" ELSE d.asked
               handler == d.handler \/ AsksResync(e)
               a == [d EXCEPT !.asked = asked]
    <3>3. asked \in Timers /\ handler \in BOOLEAN
      BY <3>1 DEF Engines, Timers
    <3>4. engine' = [a EXCEPT !.handler = handler]
      BY <3>1, <3>2 DEF Engines
    <3> HIDE DEF asked, handler
    <3>5. Sound(a)
      BY <3>1, <3>3, Touched
    <3> HIDE DEF a
    <3> QED BY <3>3, <3>4, <3>5, Touched
  <2>3. Sound(engine')
    BY <1>6, <2>1, <2>2 DEF IngestDelta, opened
  <2> QED BY <1>1, <1>6, <2>3, BooksAre DEF IngestDelta
<1> QED BY <1>3, <1>5, <1>6

LEMMA WireIs ==
    ASSUME StreamInv, [StreamNext]_streamVars
    PROVE  wire' \in Seq(Frames) /\ exchange' \in [sends : BOOLEAN, lost : BOOLEAN]
<1>1. wire \in Seq(Frames) /\ exchange \in [sends : BOOLEAN, lost : BOOLEAN] /\ <<>> \in Seq(Frames)
  BY DEF StreamInv, Frames
<1>2. \A b \in BOOLEAN : SnapshotFrame(b) \in Frames /\ DeltaFrame(b) \in Frames
  BY <1>1 DEF SnapshotFrame, DeltaFrame, Frames
<1>3. \A f \in Frames : Append(wire, f) \in Seq(Frames)
  BY <1>1
<1>4. ASSUME Subscribed PROVE wire' \in Seq(Frames) /\ exchange' \in [sends : BOOLEAN, lost : BOOLEAN]
  <2>1. exchange' \in [sends : BOOLEAN, lost : BOOLEAN]
    <3>1. \E lost \in BOOLEAN : exchange' = [sends |-> TRUE, lost |-> lost]
      BY <1>4 DEF Subscribed
    <3> QED BY <3>1
  <2>2. SnapshotFrame(FALSE) \in Frames /\ SnapshotFrame(TRUE) \in Frames
    BY <1>2
  <2>3. wire' \in Seq(Frames)
    BY <1>1, <1>3, <1>4, <2>2 DEF Subscribed
  <2> QED BY <2>1, <2>3
<1>5. wire # <<>> => Tail(wire) \in Seq(Frames)
  BY <1>1
<1>6. CASE SendDelta \/ SpoilDelta
  BY <1>1, <1>2, <1>3, <1>6 DEF SendDelta, SpoilDelta
<1>7. CASE RunHandler \/ SetSymbols \/ Dial \/ Disconnect
  BY <1>1, <1>4, <1>7 DEF RunHandler, SetSymbols, Dial, Disconnect
<1>8. CASE ReadFrame
  BY <1>1, <1>5, <1>8 DEF ReadFrame
<1>9. CASE IngestTrade \/ StreamTimers \/ BookAges \/ UNCHANGED streamVars
  BY <1>1, <1>9 DEF IngestTrade, StreamTimers, WindowElapses, EngineCools, LaneCools, BookAges, streamVars
<1> QED BY <1>6, <1>7, <1>8, <1>9 DEF StreamNext

LEMMA StreamStep == ASSUME StreamInv, [StreamNext]_streamVars PROVE StreamInv'
<1>1. Sound(engine) /\ book \in Books
  BY DEF StreamInv, Books
<1>2. Sound(engine') /\ book' \in Books
  <2>1. CASE ReadFrame
    BY <2>1, ReadSound
  <2>2. CASE IngestTrade
    BY <1>1, <2>2, TurnsSound DEF IngestTrade
  <2>3. CASE RunHandler
    BY <1>1, <2>3, Touched DEF RunHandler
  <2>4. CASE Dial
    <3>1. NoBook \in Books
      BY DEF NoBook, Books
    <3> QED BY <1>1, <2>4, <3>1, ResetSound DEF Dial
  <2>5. CASE StreamTimers \/ BookAges
    <3>1. UNCHANGED book /\ (\/ engine' = [engine EXCEPT !.window.state = "due"]
                            \/ engine' = [engine EXCEPT !.asked = "old"]
                            \/ engine' = [engine EXCEPT !.age = "old"]
                            \/ UNCHANGED engine)
      BY <2>5 DEF StreamTimers, WindowElapses, EngineCools, LaneCools, BookAges
    <3>2. /\ Sound([engine EXCEPT !.asked = "old"]) /\ Sound([engine EXCEPT !.age = "old"])
          /\ Sound([engine EXCEPT !.window.state = "due"])
      BY <1>1, Touched DEF Timers
    <3> QED BY <1>1, <3>1, <3>2
  <2>6. CASE SendDelta \/ SpoilDelta \/ SetSymbols \/ Disconnect \/ UNCHANGED streamVars
    BY <1>1, <2>6 DEF SendDelta, SpoilDelta, SetSymbols, Disconnect, streamVars
  <2> QED BY <2>1, <2>2, <2>3, <2>4, <2>5, <2>6 DEF StreamNext
<1> QED BY <1>2, WireIs DEF StreamInv, Books, Frames

LEMMA StreamInitially == StreamInit => StreamInv
<1> SUFFICES ASSUME StreamInit PROVE StreamInv
  OBVIOUS
<1>1. engine \in Engines /\ engine.history = <<>> /\ engine.window = NoWindow /\ engine.latest = "WARMING_UP"
  BY WindowsAre, NothingSeen DEF StreamInit, Engines, Timers
<1>2. Sound(engine)
  BY <1>1, WindowsAre, NothingSeen DEF Sound, Watched
<1>3. /\ book \in [synced : BOOLEAN, sides : BOOLEAN, exact : {TRUE}]
      /\ wire \in Seq([snapshot : BOOLEAN, follows : BOOLEAN, oneSided : BOOLEAN, crosses : BOOLEAN])
      /\ exchange \in [sends : BOOLEAN, lost : BOOLEAN]
  BY DEF StreamInit, NoBook
<1> QED BY <1>2, <1>3 DEF StreamInv

(* A book that counts as READY is the exchange's of its number, and each of
   the windows it is judged by was seen whole since sync was last lost,
   whatever is lost, crossed or answered late. *)
THEOREM ReadyBooksAreEarned == StreamSpec => []ReadyIsEarned
<1>1. StreamInv => ReadyIsEarned
  <2> SUFFICES ASSUME StreamInv, Analyze = "READY"
               PROVE  /\ book.synced /\ book.exact
                      /\ Len(engine.history) = MinWindows
                      /\ \A i \in DOMAIN engine.history : engine.history[i]
    BY DEF ReadyIsEarned
  <2>1. /\ engine.desynced # TRUE /\ engine.latest = "READY" /\ engine.age = "fresh" /\ IsSynced(book)
    BY DEF Analyze
  <2>2. book.synced /\ book.exact
    BY <2>1 DEF IsSynced, StreamInv
  <2>3. Sound(engine) /\ engine.history \in Seq(BOOLEAN)
    BY DEF StreamInv, Sound, Watched, Engines
  <2>4. Len(engine.history) = MinWindows /\ AllSeen(engine.history)
    BY <2>1, <2>3 DEF Sound, Watched
  <2>5. \A i \in DOMAIN engine.history : engine.history[i]
    BY <2>3, <2>4 DEF AllSeen
  <2> QED BY <2>2, <2>4, <2>5
<1> QED BY <1>1, StreamInitially, StreamStep, PTL DEF StreamSpec

--------------------------------------------------------------------------
(* The values the code can write: what the invariants above leave out, one
   component after the other. *)

\* Settlement.

SettleKnown == SettleInv /\ reopened \in BOOLEAN

LEMMA SettleValues ==
    /\ SettleInit => SettleKnown
    /\ SettleKnown /\ [SettleNext]_settleVars => SettleKnown'
    /\ SettleKnown => SettleTypeOK
<1>1. SettleInit => SettleKnown
  BY SettleInitially DEF SettleKnown, SettleInit
<1>2. ASSUME SettleKnown, [SettleNext]_settleVars PROVE reopened' \in BOOLEAN
  BY <1>2 DEF SettleKnown, SettleNext, ManageStep, BeginPass, CancelGrid, ReadDetail, SweepClosed,
     WriteFinal, WriteOutcome, ApplyFinal, BeginRecheck, DecideStop, GridEnds, FinishedListed,
     TwoDaysPass, SettleCrash, settleVars
<1>3. ASSUME SettleKnown PROVE SettleTypeOK
  BY <1>3 DEF SettleKnown, SettleInv, SettleShape, Settlements, Figures, SettleTypeOK
<1> QED BY <1>1, <1>2, <1>3, SettleStep DEF SettleKnown

\* MarketStream: a connection that is down has nothing on its way.

WireFits ==
    /\ lane \in [up : BOOLEAN, wanted : BOOLEAN, resync : Timers]
    /\ Len(wire) <= WireCap + 1
    /\ ~lane.up => wire = <<>> /\ ~exchange.sends

LEMMA WireStays == ASSUME StreamInv, WireFits, [StreamNext]_streamVars PROVE WireFits'
<1>0. /\ wire \in Seq(Frames) /\ Len(wire) \in Nat /\ WireCap \in Nat \ {0} /\ Len(<<>>) = 0
      /\ lane \in [up : BOOLEAN, wanted : BOOLEAN, resync : Timers]
      /\ exchange \in [sends : BOOLEAN, lost : BOOLEAN]
  BY StreamAssumption DEF StreamInv, Frames, WireFits
<1>1. \A f \in Frames : Len(Append(wire, f)) = Len(wire) + 1
  BY <1>0
<1>2. \A b \in BOOLEAN : SnapshotFrame(b) \in Frames /\ DeltaFrame(b) \in Frames
  BY <1>0 DEF SnapshotFrame, DeltaFrame, Frames
<1>3. ASSUME Subscribed, Len(wire) <= WireCap PROVE Len(wire') <= WireCap + 1
  <2>1. wire' = wire \/ \E f \in Frames : wire' = Append(wire, f)
    BY <1>2, <1>3 DEF Subscribed
  <2> QED BY <1>0, <1>1, <1>3, <2>1
<1>4. CASE SendDelta \/ SpoilDelta
  <2>1. wire' = wire \/ \E f \in Frames : wire' = Append(wire, f)
    BY <1>2, <1>4 DEF SendDelta, SpoilDelta
  <2>2. Len(wire) < WireCap /\ lane.up /\ UNCHANGED lane
    BY <1>4 DEF SendDelta, SpoilDelta, WireFits
  <2> QED BY <1>0, <1>1, <2>1, <2>2 DEF WireFits
<1>5. CASE ReadFrame
  <2>1. Len(Tail(wire)) = Len(wire) - 1 /\ lane.up
    BY <1>0, <1>5, HeadTailProperties DEF ReadFrame
  <2>2. lane' \in [up : BOOLEAN, wanted : BOOLEAN, resync : Timers] /\ lane'.up
    BY <1>0, <1>5, <2>1 DEF ReadFrame, Timers
  <2>3. Len(wire') <= WireCap + 1
    BY <1>0, <1>5, <2>1 DEF ReadFrame, WireFits
  <2> QED BY <2>2, <2>3 DEF WireFits
<1>6. CASE RunHandler
  <2>1. lane' \in [up : BOOLEAN, wanted : BOOLEAN, resync : Timers] /\ lane'.up = lane.up
    BY <1>0, <1>6 DEF RunHandler, Timers
  <2>2. CASE lane.up
    BY <1>3, <1>6, <2>1, <2>2 DEF RunHandler, WireFits
  <2>3. CASE ~lane.up
    BY <1>6, <2>1, <2>3 DEF RunHandler, WireFits
  <2> QED BY <2>2, <2>3
<1>7. CASE SetSymbols
  <2>1. lane' \in [up : BOOLEAN, wanted : BOOLEAN, resync : Timers] /\ lane'.up = lane.up
    BY <1>0, <1>7 DEF SetSymbols
  <2>2. CASE lane.wanted
    <3>1. UNCHANGED wire /\ exchange'.sends = FALSE
      BY <1>0, <1>7, <2>2 DEF SetSymbols
    <3> QED BY <2>1, <3>1 DEF WireFits
  <2>3. CASE ~lane.wanted /\ lane.up
    BY <1>3, <1>7, <2>1, <2>3 DEF SetSymbols, WireFits
  <2>4. CASE ~lane.wanted /\ ~lane.up
    BY <1>7, <2>1, <2>4 DEF SetSymbols, WireFits
  <2> QED BY <2>2, <2>3, <2>4
<1>8. CASE Dial
  <2>1. lane' \in [up : BOOLEAN, wanted : BOOLEAN, resync : Timers] /\ lane'.up
    BY <1>0, <1>8 DEF Dial
  <2>2. Len(wire) = 0
    BY <1>0, <1>8 DEF Dial, WireFits
  <2>3. Len(wire') <= WireCap + 1
    BY <1>0, <1>3, <1>8, <2>2 DEF Dial
  <2> QED BY <2>1, <2>3 DEF WireFits
<1>9. CASE Disconnect
  <2>1. lane' \in [up : BOOLEAN, wanted : BOOLEAN, resync : Timers]
    BY <1>0, <1>9 DEF Disconnect, Timers
  <2>2. wire' = <<>> /\ exchange'.sends = FALSE
    BY <1>0, <1>9 DEF Disconnect
  <2>3. Len(wire') <= WireCap + 1
    BY <1>0, <2>2
  <2> QED BY <2>1, <2>2, <2>3 DEF WireFits
<1>10. CASE LaneCools
  <2>1. lane' \in [up : BOOLEAN, wanted : BOOLEAN, resync : Timers] /\ lane'.up = lane.up
    BY <1>0, <1>10 DEF LaneCools, Timers
  <2> QED BY <1>10, <2>1 DEF LaneCools, WireFits
<1>11. CASE IngestTrade \/ WindowElapses \/ EngineCools \/ BookAges \/ UNCHANGED streamVars
  BY <1>11 DEF IngestTrade, WindowElapses, EngineCools, BookAges, streamVars, WireFits
<1> QED BY <1>4, <1>5, <1>6, <1>7, <1>8, <1>9, <1>10, <1>11 DEF StreamNext, StreamTimers

LEMMA StreamValues ==
    /\ StreamInit => StreamInv /\ WireFits
    /\ StreamInv /\ WireFits /\ [StreamNext]_streamVars => (StreamInv /\ WireFits)'
    /\ StreamInv /\ WireFits => StreamTypeOK
<1>1. ASSUME StreamInit PROVE WireFits
  <2>1. wire = <<>> /\ ~exchange.sends
    BY <1>1 DEF StreamInit
  <2>2. lane \in [up : BOOLEAN, wanted : BOOLEAN, resync : Timers]
    BY <1>1 DEF StreamInit, Timers
  <2>3. Len(wire) <= WireCap + 1
    BY <2>1, StreamAssumption
  <2> QED BY <2>1, <2>2, <2>3 DEF WireFits
<1>2. ASSUME StreamInv, WireFits PROVE StreamTypeOK
  BY <1>2 DEF StreamInv, WireFits, Sound, Watched, Engines, StreamTypeOK
<1> QED BY <1>1, <1>2, StreamInitially, StreamStep, WireStays

\* TelegramOutbox: a row that is still to be sent has a try left, and a
\* dispatcher's copy of it says so.

TriesLeft(r) ==
    /\ r.sent <= r.length /\ r.failures <= MaxFailures
    /\ r.status \in {"PENDING", "SENDING"} => r.failures < MaxFailures
Tries ==
    /\ \A m \in Messages : TriesLeft(outbox[m])
    /\ \A d \in Dispatchers : IF Busy(d) THEN sender[d].failures < MaxFailures ELSE sender[d].part = 0
    /\ paused \in BOOLEAN /\ registered \in BOOLEAN

LEMMA NewTries ==
    ASSUME OutboxHolds, Tries, NEW rank, NEW length \in {1, 2}, NEW u, outbox' = WithRow(rank, length, u)
    PROVE  \A m \in Messages : TriesLeft(outbox'[m])
<1>1. CASE Full
  BY <1>1 DEF WithRow, Tries
<1>2. CASE ~Full
  <2> DEFINE new == [NoMessage EXCEPT !.status = "PENDING", !.rank = rank, !.length = length,
                              !.due = TRUE, !.answers = u]
  <2>1. TriesLeft(new)
    BY OutboxAssumption DEF NoMessage, TriesLeft
  <2>2. outbox' = [outbox EXCEPT ![NewRow] = new]
    BY <1>2 DEF WithRow
  <2> HIDE DEF new
  <2> QED BY <1>2, <2>1, <2>2, NewRowIs DEF OutboxHolds, OutboxShape, Tries
<1> QED BY <1>1, <1>2

LEMMA IdleTries ==
    ASSUME OutboxHolds, Tries, NEW d \in Dispatchers, sender' = [sender EXCEPT ![d] = NoSender]
    PROVE  \A e \in Dispatchers : IF Busy(e)' THEN sender'[e].failures < MaxFailures ELSE sender'[e].part = 0
<1>1. NoSender.pc = "idle" /\ NoSender.part = 0
  BY DEF NoSender
<1>2. \A e \in Dispatchers : sender'[e] = IF e = d THEN NoSender ELSE sender[e]
  BY DEF OutboxHolds, OutboxShape
<1> QED BY <1>1, <1>2 DEF Tries, Busy

LEMMA ClaimTries == ASSUME OutboxHolds, Tries, NEW d \in Dispatchers, ClaimNext(d) PROVE Tries'
<1> PICK m \in Messages :
      /\ Claimable(m)
      /\ outbox' = [outbox EXCEPT ![m].status = "SENDING", ![m].due = FALSE]
      /\ sender' = [sender EXCEPT ![d] = [pc |-> "call", row |-> m, part |-> outbox[m].sent,
                                          failures |-> outbox[m].failures, result |-> "none"]]
  BY DEF ClaimNext
<1>1. TriesLeft(outbox[m]) /\ outbox[m].failures < MaxFailures
  BY DEF Tries, TriesLeft, Claimable
<1>2. \A n \in Messages : /\ outbox'[n].sent = outbox[n].sent /\ outbox'[n].length = outbox[n].length
                          /\ outbox'[n].failures = outbox[n].failures
                          /\ outbox'[n].status = IF n = m THEN "SENDING" ELSE outbox[n].status
  BY DEF OutboxHolds, OutboxShape, Texts
<1>3. \A n \in Messages : TriesLeft(outbox'[n])
  BY <1>1, <1>2 DEF Tries, TriesLeft
<1>4. /\ sender'[d].pc = "call" /\ sender'[d].failures = outbox[m].failures
      /\ \A e \in Dispatchers \ {d} : sender'[e] = sender[e]
  BY DEF OutboxHolds, OutboxShape
<1>5. UNCHANGED <<paused, registered>>
  BY DEF ClaimNext
<1> QED BY <1>1, <1>3, <1>4, <1>5 DEF Tries, Busy

LEMMA SendTries == ASSUME OutboxHolds, Tries, NEW d \in Dispatchers, SendPart(d) PROVE Tries'
<1>1. PICK result : sender' = [sender EXCEPT ![d].pc = "save", ![d].result = result]
  BY DEF SendPart
<1>2. UNCHANGED <<outbox, registered>> /\ sender[d].pc = "call" /\ paused' \in BOOLEAN
  BY DEF SendPart, Tries
<1>3. /\ sender'[d].pc = "save" /\ sender'[d].failures = sender[d].failures
      /\ \A e \in Dispatchers \ {d} : sender'[e] = sender[e]
  BY <1>1 DEF OutboxHolds, OutboxShape, Senders
<1> QED BY <1>2, <1>3 DEF Tries, Busy

LEMMA SaveTries == ASSUME OutboxHolds, Tries, NEW d \in Dispatchers, SaveOutcome(d) PROVE Tries'
<1> DEFINE m == sender[d].row
<1>1. /\ sender[d].pc = "save" /\ sender' = [sender EXCEPT ![d] = NoSender]
      /\ UNCHANGED <<paused, registered>>
  BY DEF SaveOutcome
<1>2. m \in Messages /\ outbox[m] \in Texts /\ sender[d] \in Senders
  BY DEF OutboxHolds, OutboxShape, Senders
<1>3. /\ outbox[m].status = "SENDING" /\ sender[d].part = outbox[m].sent
      /\ outbox[m].sent < outbox[m].length /\ sender[d].failures < MaxFailures
  BY <1>1, <1>2 DEF OutboxHolds, Leases, Busy, Reading, ReadSoFar, Tries
<1>4. TriesLeft(Advanced(outbox[m], sender[d]))
  <2>1. /\ Advanced(outbox[m], sender[d]).failures = 0
        /\ Advanced(outbox[m], sender[d]).sent = outbox[m].sent + 1
        /\ Advanced(outbox[m], sender[d]).length = outbox[m].length
    BY <1>2 DEF Advanced, Texts
  <2>2. outbox[m].sent \in Nat /\ outbox[m].length \in Nat /\ MaxFailures \in Nat \ {0}
    BY <1>2, OutboxAssumption DEF Texts
  <2> QED BY <1>3, <2>1, <2>2 DEF TriesLeft
<1>5. TriesLeft(SetBack(outbox[m], sender[d]))
  <2> DEFINE status == IF sender[d].result = "rejected" \/ sender[d].failures + 1 >= MaxFailures
                       THEN "FAILED" ELSE "PENDING"
  <2>1. /\ SetBack(outbox[m], sender[d]).failures = sender[d].failures + 1
        /\ SetBack(outbox[m], sender[d]).sent = outbox[m].sent
        /\ SetBack(outbox[m], sender[d]).length = outbox[m].length
        /\ SetBack(outbox[m], sender[d]).status = status
    BY <1>2 DEF SetBack, Texts
  <2>2. /\ outbox[m].sent \in Nat /\ outbox[m].length \in Nat /\ MaxFailures \in Nat \ {0}
        /\ sender[d].failures \in Nat
    BY <1>2, OutboxAssumption DEF Texts, Senders
  <2>3. status = "FAILED" \/ sender[d].failures + 1 < MaxFailures
    BY <2>2
  <2> HIDE DEF status
  <2> QED BY <1>3, <2>1, <2>2, <2>3 DEF TriesLeft
<1>6. \A n \in Messages : TriesLeft(outbox'[n])
  <2>1. outbox \in [Messages -> Texts]
    BY DEF OutboxHolds, OutboxShape
  <2>2. \/ UNCHANGED outbox
        \/ outbox' = [outbox EXCEPT ![m] = Advanced(outbox[m], sender[d])]
        \/ outbox' = [outbox EXCEPT ![m] = SetBack(outbox[m], sender[d])]
    BY <1>2, <2>1 DEF SaveOutcome
  <2> QED BY <1>2, <1>4, <1>5, <2>1, <2>2 DEF Tries
<1>7. \A e \in Dispatchers : IF Busy(e)' THEN sender'[e].failures < MaxFailures ELSE sender'[e].part = 0
  BY <1>1, IdleTries
<1> QED BY <1>1, <1>6, <1>7 DEF Tries

LEMMA TriesStay == ASSUME OutboxHolds, Tries, [OutboxNext]_outboxVars PROVE Tries'
<1>1. CASE Enqueue
  <2>1. PICK rank, length \in {1, 2} : outbox' = WithRow(rank, length, 0)
    BY <1>1 DEF Enqueue
  <2>2. UNCHANGED <<sender, paused, registered>>
    BY <1>1 DEF Enqueue
  <2> QED BY <2>1, <2>2, NewTries DEF Tries, Busy
<1>2. CASE HandleUpdate
  <2>1. \A m \in Messages : TriesLeft(outbox'[m])
    <3>1. outbox' = outbox \/ outbox' = WithRow(0, 1, poll.upto + 1)
      BY <1>2 DEF HandleUpdate
    <3>2. CASE outbox' = outbox
      BY <3>2 DEF Tries
    <3>3. CASE outbox' = WithRow(0, 1, poll.upto + 1)
      BY <3>3, NewTries
    <3> QED BY <3>1, <3>2, <3>3
  <2>2. UNCHANGED <<sender, paused, registered>>
    BY <1>2 DEF HandleUpdate
  <2> QED BY <2>1, <2>2 DEF Tries, Busy
<1>3. CASE OutboxCrash
  <2>1. PICK d \in Dispatchers : sender' = [sender EXCEPT ![d] = NoSender]
    BY <1>3 DEF OutboxCrash
  <2>2. UNCHANGED <<outbox, paused, registered>>
    BY <1>3 DEF OutboxCrash
  <2>3. \A e \in Dispatchers : IF Busy(e)' THEN sender'[e].failures < MaxFailures ELSE sender'[e].part = 0
    BY <2>1, IdleTries
  <2> QED BY <2>2, <2>3 DEF Tries
<1>4. CASE RowFallsDue
  <2>1. PICK m \in Messages : outbox' = [outbox EXCEPT ![m].due = TRUE]
    BY <1>4 DEF RowFallsDue
  <2>2. \A n \in Messages : /\ outbox'[n].sent = outbox[n].sent /\ outbox'[n].length = outbox[n].length
                            /\ outbox'[n].failures = outbox[n].failures /\ outbox'[n].status = outbox[n].status
    BY <2>1 DEF OutboxHolds, OutboxShape, Texts
  <2>3. UNCHANGED <<sender, paused, registered>>
    BY <1>4 DEF RowFallsDue
  <2> QED BY <2>2, <2>3 DEF Tries, TriesLeft, Busy
<1>5. CASE BeginPoll \/ CommitPoll \/ PauseEnds \/ UNCHANGED outboxVars
  <2>1. UNCHANGED <<outbox, sender>> /\ paused' \in BOOLEAN /\ registered' \in BOOLEAN
    BY <1>5 DEF BeginPoll, CommitPoll, PauseEnds, outboxVars, Tries
  <2> QED BY <2>1 DEF Tries, Busy
<1> QED BY <1>1, <1>2, <1>3, <1>4, <1>5, ClaimTries, SendTries, SaveTries DEF OutboxNext, OutboxStep, PollStep

LEMMA OutboxValues ==
    /\ OutboxInit => OutboxHolds /\ Tries
    /\ OutboxHolds /\ Tries /\ [OutboxNext]_outboxVars => (OutboxHolds /\ Tries)'
    /\ OutboxHolds /\ Tries => OutboxTypeOK
<1>1. ASSUME OutboxInit PROVE Tries
  <2>1. TriesLeft(NoMessage)
    BY OutboxAssumption DEF TriesLeft, NoMessage
  <2>2. \A m \in Messages : outbox[m] = NoMessage
    BY <1>1 DEF OutboxInit
  <2>3. \A d \in Dispatchers : sender[d] = NoSender
    BY <1>1 DEF OutboxInit
  <2>4. NoSender.pc = "idle" /\ NoSender.part = 0 /\ paused \in BOOLEAN /\ registered \in BOOLEAN
    BY <1>1 DEF OutboxInit, NoSender
  <2> QED BY <2>1, <2>2, <2>3, <2>4 DEF Tries, Busy
<1>2. ASSUME OutboxHolds, Tries PROVE OutboxTypeOK
  <2>1. ASSUME NEW m \in Messages
        PROVE  /\ outbox[m].status \in {"none", "PENDING", "SENDING", "SENT", "FAILED"}
               /\ outbox[m].sent \in 0 .. outbox[m].length /\ outbox[m].failures \in 0 .. MaxFailures
    <3>1. outbox[m] \in Texts /\ TriesLeft(outbox[m]) /\ MaxFailures \in Nat
      BY <1>2, OutboxAssumption DEF OutboxHolds, OutboxShape, Tries
    <3> QED BY <3>1 DEF Texts, TriesLeft
  <2>2. ASSUME NEW d \in Dispatchers PROVE sender[d].part < outbox[sender[d].row].length
    <3>1. sender[d].row \in Messages
      BY <1>2 DEF OutboxHolds, OutboxShape, Senders
    <3>2. outbox[sender[d].row] \in Texts
      BY <1>2, <3>1 DEF OutboxHolds, OutboxShape
    <3>3. CASE Busy(d)
      BY <1>2, <3>1, <3>3 DEF OutboxHolds, Leases, Reading, ReadSoFar
    <3>4. CASE ~Busy(d)
      BY <1>2, <3>2, <3>4 DEF Tries, Texts
    <3> QED BY <3>3, <3>4
  <2> QED BY <1>2, <2>1, <2>2 DEF OutboxTypeOK, OutboxHolds, OutboxShape, Tries
<1>3. ASSUME OutboxHolds, Tries, [OutboxNext]_outboxVars PROVE (OutboxHolds /\ Tries)'
  BY <1>3, OutboxStays, TriesStay
<1> QED BY <1>1, <1>2, <1>3, OutboxInitially

\* RedeployQueue: rows are numbered as they are written, a re-deploy after its
\* parent.

Packed ==
    /\ \A i, k \in Slots : i < k /\ dgtGrids[i].status = "none" => dgtGrids[k].status = "none"
    /\ \A i \in Slots : dgtGrids[i].parent < i
    /\ flips \in 0 .. FlipCap

LEMMA PackedStays ==
    ASSUME RedeployShape, Packed, flips' \in 0 .. FlipCap, KeepsKin,
           \A k \in Slots : dgtGrids'[k].status = "none" <=> dgtGrids[k].status = "none"
    PROVE  Packed'
  BY DEF Packed, KeepsKin

LEMMA PackedTurns ==
    ASSUME RedeployShape, Packed, flips' \in 0 .. FlipCap, NEW i \in Slots, NEW before, NEW after,
           Turns(i, before, after), "none" \notin before, "none" \notin after
    PROVE  Packed'
<1>1. KeepsKin /\ \A k \in Slots : dgtGrids'[k].status = "none" <=> dgtGrids[k].status = "none"
  BY DEF Turns
<1> QED BY <1>1, PackedStays

LEMMA PackedAdds ==
    ASSUME RedeployShape, Packed, UNCHANGED flips, NEW row \in Slots, Adds(row), dgtGrids'[row].parent < row
    PROVE  Packed'
<1>1. \A k \in Slots \ {row} : dgtGrids'[k] = dgtGrids[k]
  BY DEF Adds
<1>2. ASSUME NEW i \in Slots, NEW k \in Slots, i < k, dgtGrids'[i].status = "none"
      PROVE  dgtGrids'[k].status = "none"
  <2>1. i # row
    BY <1>2 DEF Adds
  <2>2. dgtGrids[i].status = "none"
    BY <1>1, <1>2, <2>1
  <2>3. k # row
    BY <1>2, <2>2 DEF Adds
  <2> QED BY <1>1, <1>2, <2>2, <2>3 DEF Packed
<1> QED BY <1>1, <1>2 DEF Packed

LEMMA FlipsAre ==
    ASSUME RedeployShape, Packed, [DgtNext]_dgtVars
    PROVE  flips' \in 0 .. FlipCap /\ (flips' = flips \/ FlipToCascadeShort)
<1>0. flips \in 0 .. FlipCap /\ FlipCap \in Nat
  BY RedeployQueueAssumption DEF Packed
<1>1. CASE FlipToCascadeShort
  BY <1>0, <1>1 DEF FlipToCascadeShort, Flippable
<1>2. CASE ~FlipToCascadeShort
  BY <1>0, <1>2 DEF DgtNext, DgtStep, BreakGrid, QueueIntent, Settle, TakeIntents, DropIntent,
     JudgeRedeploy, CreateRedeploy, SubmitRedeploy, LogRedeploy, ConsumeIntent, DgtCrash,
     ResolveRedeploy, ScannerDeploys, IntentAges, dgtVars
<1> QED BY <1>1, <1>2

LEMMA PackedStep == ASSUME RedeployInv, Packed, [DgtNext]_dgtVars PROVE Packed'
<1> USE DEF RedeployInv
<1>0. flips' \in 0 .. FlipCap /\ (flips' = flips \/ FlipToCascadeShort)
  BY FlipsAre
<1>n. "none" \notin {"running", "stopping", "settled", "pending", "unknown", "failed"}
  OBVIOUS
<1>1. CASE BreakGrid
  BY <1>0, <1>1, <1>n, BreakEffect, PackedTurns
<1>2. CASE Settle
  BY <1>0, <1>2, <1>n, SettleEffect, PackedTurns
<1>3. CASE ResolveRedeploy
  BY <1>0, <1>3, <1>n, ResolveEffect, PackedTurns
<1>4. CASE SubmitRedeploy
  <2>1. dgtPass.bot \in Slots
    BY <1>4, SubmitEffect DEF PassHolds
  <2> QED BY <1>0, <1>4, <1>n, <2>1, SubmitEffect, PackedTurns
<1>5. CASE QueueIntent \/ IntentAges
  <2>1. KeepsKin /\ KeepsStatus
    BY <1>5, QueueEffect, AgesEffect
  <2> QED BY <1>0, <2>1, PackedStays DEF KeepsStatus
<1>6. CASE FlipToCascadeShort \/ ConsumeIntent
  <2>1. KeepsKin /\ KeepsStatus
    BY <1>6, FlipEffect, ConsumeEffect DEF Marks
  <2> QED BY <1>0, <2>1, PackedStays DEF KeepsStatus
<1>7. ASSUME UNCHANGED dgtGrids PROVE Packed'
  BY <1>0, <1>7 DEF Packed
<1>8. CASE TakeIntents \/ DropIntent \/ JudgeRedeploy \/ LogRedeploy \/ DgtCrash
  BY <1>7, <1>8, TakeEffect, DropEffect, JudgeEffect, LogEffect, DgtCrashEffect
<1>9. CASE UNCHANGED dgtVars
  BY <1>7, <1>9 DEF dgtVars
<1>10. CASE ScannerDeploys
  <2>1. PICK row \in Slots : Adds(row) /\ dgtGrids'[row].parent = 0
    BY <1>10, ScannerEffect
  <2>2. UNCHANGED flips /\ 0 < row
    BY <1>10 DEF ScannerDeploys, Slots
  <2> QED BY <2>1, <2>2, PackedAdds
<1>11. CASE CreateRedeploy
  <2>1. UNCHANGED flips /\ dgtPass.pc = "create"
    BY <1>11, CreateEffect DEF CreateRedeploy
  <2>2. Intent \in Slots /\ dgtGrids[Intent].status = "settled"
    BY <2>1, IntentIs DEF RedeployShape, PassHolds, Attempts, Attempting
  <2>3. ASSUME NEW row \in Slots, Adds(row), dgtGrids'[row].parent = Intent PROVE Packed'
    <3>1. dgtGrids[row].status = "none"
      BY <2>3 DEF Adds
    <3>2. ~(row < Intent) /\ row # Intent
      BY <2>2, <3>1 DEF Packed
    <3>3. Intent < row
      BY <2>2, <3>2 DEF Slots
    <3> QED BY <2>1, <2>3, <3>3, PackedAdds
  <2> QED BY <1>7, <1>11, <2>3, CreateEffect
<1> QED BY <1>1, <1>2, <1>3, <1>4, <1>5, <1>6, <1>8, <1>9, <1>10, <1>11 DEF DgtNext, DgtStep

LEMMA RedeployValues ==
    /\ DgtInit => RedeployInv /\ Packed
    /\ RedeployInv /\ Packed /\ [DgtNext]_dgtVars => (RedeployInv /\ Packed)'
    /\ RedeployInv /\ Packed => DgtTypeOK
<1>1. DgtInit => Packed
  <2> SUFFICES ASSUME DgtInit PROVE Packed
    OBVIOUS
  <2>1. \A i \in Slots : dgtGrids[i].parent = 0 /\ (dgtGrids[i].status = "none" <=> i # 1)
    BY DEF DgtInit, NoGrid
  <2>2. flips \in 0 .. FlipCap
    BY RedeployQueueAssumption DEF DgtInit
  <2> QED BY <2>1, <2>2 DEF Packed, Slots
<1>2. ASSUME RedeployInv, Packed PROVE DgtTypeOK
  <2>1. ASSUME NEW i \in Slots
        PROVE  /\ dgtGrids[i].status \in Occupying \cup {"none", "settled", "failed"}
               /\ dgtGrids[i].reason \in {"none", "BREAK_DOWN", "BREAK_UP", "OTHER"}
               /\ dgtGrids[i].pending \in {"none", "fresh", "stale", "lapsed"}
               /\ dgtGrids[i].done \in {"no", "disabled", "expired", "flip_short", "blocked", "deployed"}
               /\ dgtGrids[i].parent \in {0} \cup Slots
    <3>1. dgtGrids[i] \in Rows
      BY <1>2 DEF RedeployInv, RedeployShape
    <3> QED BY <3>1 DEF Rows, RowStatuses
  <2>2. \A i \in Slots : dgtGrids[i].parent \in 0 .. i - 1
    BY <1>2, <2>1 DEF Packed, Slots
  <2>3. redeploys \in 0 .. LadderCap + RedeployBudget
    BY <1>2, RedeployQueueAssumption DEF RedeployInv, RedeployShape, Ladder, Room, Uncounted
  <2> QED BY <1>2, <2>1, <2>2, <2>3 DEF DgtTypeOK, Packed
<1>3. DgtInit => RedeployInv
  BY RedeployInitially, LineageInitially, LadderInitially DEF RedeployInv
<1>4. RedeployInv /\ [DgtNext]_dgtVars => RedeployInv'
  BY RedeployStep, LineageStep, LadderStep DEF RedeployInv
<1> QED BY <1>1, <1>2, <1>3, <1>4, PackedStep

\* DecisionReplay: a row is linked to an episode there is, and the portfolio
\* waits for one candidate.

JournalFits ==
    /\ replayWorld \in ReplayWorlds /\ replayLeft \in 0 .. ReplayBudget
    /\ Len(episodes) <= MaxEpisodes /\ Len(journal) <= MaxDecisions
    /\ \A i \in DOMAIN journal : journal[i].episode <= Len(episodes)
    /\ \A s, t \in DOMAIN shadows : shadows[s].pos = "OPEN" /\ shadows[t].pos = "OPEN" => s = t

LEMMA FaultsLeft ==
    ASSUME JournalFits, [ReplayNext]_replayVars
    PROVE  replayWorld' \in ReplayWorlds /\ replayLeft' \in 0 .. ReplayBudget
<1>1. ReplayBudget \in Nat /\ replayLeft \in 0 .. ReplayBudget /\ replayWorld \in ReplayWorlds
  BY ReplayAssumption DEF JournalFits
<1>2. ASSUME NEW f, ReplayFaulty(f) PROVE replayLeft' \in 0 .. ReplayBudget
  BY <1>1, <1>2 DEF ReplayFaulty
<1> DEFINE Left == UNCHANGED replayLeft \/ \E f : ReplayFaulty(f)
<1>3. CASE \E c \in Chains : RecordDecision(c)
  <2>1. Left /\ UNCHANGED replayWorld
    BY <1>3 DEF RecordDecision
  <2> QED BY <1>1, <1>2, <2>1
<1>4. CASE EpisodeLapses \/ PruneJournal \/ CaptureShadow
  <2>1. Left /\ UNCHANGED replayWorld
    BY <1>4 DEF EpisodeLapses, PruneJournal, CaptureShadow
  <2> QED BY <1>1, <1>2, <2>1
<1>5. CASE \E s \in DOMAIN shadows : SimulateShadow(s)
  <2>1. Left /\ UNCHANGED replayWorld
    BY <1>5 DEF SimulateShadow
  <2> QED BY <1>1, <1>2, <2>1
<1>6. CASE \E r \in Experiments : EnqueueReplayRun(r) \/ LeaseLapses(r)
  <2>1. Left /\ UNCHANGED replayWorld
    BY <1>6 DEF EnqueueReplayRun, LeaseLapses
  <2> QED BY <1>1, <1>2, <2>1
<1>7. ASSUME NEW p \in ReplayPasses, ReplayStep(p) \/ FailReplayRun(p) \/ AbandonPass(p)
      PROVE  Left /\ UNCHANGED replayWorld
  BY <1>7 DEF ReplayStep, ClaimReplayRun, TakeBatch, InsertItems, CountItems, FinishReplayRun,
     FailReplayRun, AbandonPass
<1>8. CASE \E p \in ReplayPasses : ReplayStep(p) \/ FailReplayRun(p) \/ AbandonPass(p)
  BY <1>1, <1>2, <1>7, <1>8
<1>9. CASE UNCHANGED replayVars
  BY <1>1, <1>9 DEF replayVars
<1> QED BY <1>3, <1>4, <1>5, <1>6, <1>8, <1>9 DEF ReplayNext

LEMMA RecordFits == ASSUME ReplayInv, JournalFits, NEW c \in Chains, RecordDecision(c) PROVE JournalFits'
<1> DEFINE found == ResolveEpisode
           row == [chain |-> c, base |-> Verdict(c, Threshold), episode |-> Len(found), kept |-> TRUE]
           unlinked == [row EXCEPT !.episode = 0]
           closed == [found EXCEPT ![Len(found)] = "ALLOWED"]
<1>1. /\ JournalShape /\ episodes \in Seq({"OPEN", "ALLOWED", "lapsed"}) /\ journal \in Seq(DecisionRows)
      /\ Len(episodes) \in Nat /\ Len(journal) \in Nat /\ MaxEpisodes \in Nat /\ MaxDecisions \in Nat
  BY ReplayAssumption, LenProperties DEF ReplayInv, ReplayShape, JournalShape
<1>2. found \in Seq({"OPEN", "ALLOWED", "lapsed"}) /\ Len(found) \in Nat
  BY <1>1, ResolveIs
<1>3. Len(found) <= MaxEpisodes /\ Len(episodes) <= Len(found)
  <2>1. Len(Append(episodes, "OPEN")) = Len(episodes) + 1
    BY <1>1, AppendProperties
  <2>2. HasOpen \/ Len(episodes) < MaxEpisodes
    BY DEF RecordDecision
  <2> QED BY <1>1, <2>1, <2>2 DEF ResolveEpisode, JournalFits
<1>4. Len(closed) = Len(found)
  BY <1>2
<1>5. /\ UNCHANGED shadows /\ Len(journal) < MaxDecisions
      /\ \/ journal' = Append(journal, row) /\ (episodes' = closed \/ episodes' = found)
         \/ journal' = Append(journal, unlinked) /\ UNCHANGED episodes
         \/ UNCHANGED journal /\ episodes' = found
  BY DEF RecordDecision
<1>6. /\ row \in DecisionRows /\ row.episode = Len(found)
      /\ unlinked \in DecisionRows /\ unlinked.episode = 0
  <2>1. Verdict(c, Threshold) \in Outcomes
    BY VerdictTyped
  <2> HIDE DEF found
  <2> QED BY <1>2, <2>1 DEF DecisionRows
<1> HIDE DEF found, row, unlinked, closed
<1>7. Len(episodes) <= Len(episodes') /\ Len(episodes') <= MaxEpisodes /\ Len(episodes') \in Nat
  BY <1>1, <1>2, <1>3, <1>4, <1>5 DEF JournalFits
<1>8. \A i \in DOMAIN journal : journal[i].episode \in Nat /\ journal[i].episode <= Len(episodes')
  BY <1>1, <1>7, JournalIs DEF JournalFits
<1>9. ASSUME NEW new \in DecisionRows, journal' = Append(journal, new), new.episode <= Len(episodes')
      PROVE  JournalFits'
  <2>1. Len(journal') = Len(journal) + 1
    BY <1>1, <1>9, AppendProperties
  <2>2. \A i \in DOMAIN journal' : journal'[i] = new \/ (i \in DOMAIN journal /\ journal'[i] = journal[i])
    BY <1>1, <1>9, AppendGrows
  <2>3. \A i \in DOMAIN journal' : journal'[i].episode <= Len(episodes')
    BY <1>8, <1>9, <2>2
  <2>4. Len(journal') <= MaxDecisions
    BY <1>1, <1>5, <2>1
  <2> QED BY <1>5, <1>7, <2>3, <2>4, FaultsLeft DEF JournalFits, ReplayNext
<1>10. ASSUME UNCHANGED journal PROVE JournalFits'
  BY <1>5, <1>7, <1>8, <1>10, FaultsLeft DEF JournalFits, ReplayNext
<1>11. CASE journal' = Append(journal, row) /\ (episodes' = closed \/ episodes' = found)
  <2>1. row.episode <= Len(episodes')
    BY <1>2, <1>4, <1>6, <1>11
  <2> QED BY <1>6, <1>9, <1>11, <2>1
<1>12. CASE journal' = Append(journal, unlinked)
  BY <1>6, <1>7, <1>9, <1>12
<1> QED BY <1>5, <1>10, <1>11, <1>12

LEMMA ShadowsFit ==
    ASSUME ReplayInv, JournalFits, CaptureShadow \/ \E s \in DOMAIN shadows : SimulateShadow(s)
    PROVE  JournalFits'
<1>1. shadows \in Seq(ShadowRows) /\ DOMAIN shadows = 1 .. Len(shadows) /\ Len(shadows) \in Nat
  BY LenProperties DEF ReplayInv, ReplayShape, JournalShape
<1>2. UNCHANGED <<episodes, journal>>
  BY DEF CaptureShadow, SimulateShadow
<1>3. \A s, t \in DOMAIN shadows' : shadows'[s].pos = "OPEN" /\ shadows'[t].pos = "OPEN" => s = t
  <2>1. CASE CaptureShadow
    <3> DEFINE row == [decision |-> Len(journal), episode |-> Last(journal).episode, pos |-> "OPEN"]
    <3>1. shadows' = Append(shadows, row) /\ \A s \in DOMAIN shadows : shadows[s].pos # "OPEN"
      BY <2>1 DEF CaptureShadow
    <3> HIDE DEF row
    <3>2. /\ DOMAIN shadows' = 1 .. Len(shadows) + 1
          /\ \A s \in DOMAIN shadows : shadows'[s] = shadows[s]
      BY <1>1, <3>1
    <3> QED BY <1>1, <3>1, <3>2
  <2>2. CASE \E s \in DOMAIN shadows : SimulateShadow(s)
    <3>1. PICK s \in DOMAIN shadows : SimulateShadow(s)
      BY <2>2
    <3>2. PICK pos \in {"CLOSED", "INVALIDATED"} : shadows' = [shadows EXCEPT ![s].pos = pos]
      BY <3>1 DEF SimulateShadow
    <3>3. DOMAIN shadows' = DOMAIN shadows /\ \A t \in DOMAIN shadows \ {s} : shadows'[t] = shadows[t]
      BY <1>1, <3>2
    <3>4. shadows'[s].pos # "OPEN"
      BY <1>1, <3>2 DEF ShadowRows
    <3> QED BY <3>3, <3>4 DEF JournalFits
  <2> QED BY <2>1, <2>2
<1> QED BY <1>2, <1>3, FaultsLeft DEF JournalFits, ReplayNext

LEMMA JournalStays == ASSUME ReplayInv, JournalFits, [ReplayNext]_replayVars PROVE JournalFits'
<1>1. ASSUME UNCHANGED <<episodes, journal, shadows>> PROVE JournalFits'
  BY <1>1, FaultsLeft DEF JournalFits
<1>2. CASE \E c \in Chains : RecordDecision(c)
  BY <1>2, RecordFits
<1>3. CASE EpisodeLapses
  <2>1. episodes' = [episodes EXCEPT ![Len(episodes)] = "lapsed"] /\ UNCHANGED <<journal, shadows>>
    BY <1>3 DEF EpisodeLapses
  <2>2. episodes \in Seq({"OPEN", "ALLOWED", "lapsed"})
    BY DEF ReplayInv, ReplayShape, JournalShape
  <2>3. Len(episodes') = Len(episodes)
    BY <2>1, <2>2
  <2> QED BY <2>1, <2>3, FaultsLeft DEF JournalFits
<1>4. CASE PruneJournal
  <2>1. PICK i \in DOMAIN journal : journal' = [journal EXCEPT ![i].kept = FALSE]
    BY <1>4 DEF PruneJournal
  <2>2. JournalShape /\ journal \in Seq(DecisionRows) /\ UNCHANGED <<episodes, shadows>>
    BY <1>4 DEF PruneJournal, ReplayInv, ReplayShape, JournalShape
  <2>3. /\ Len(journal') = Len(journal) /\ DOMAIN journal' = DOMAIN journal
        /\ \A k \in DOMAIN journal : journal'[k].episode = journal[k].episode
    <3>1. \A k \in DOMAIN journal : journal[k] \in DecisionRows
      BY <2>2, JournalIs
    <3> QED BY <2>1, <2>2, <3>1 DEF DecisionRows
  <2> QED BY <2>2, <2>3, FaultsLeft DEF JournalFits
<1>5. CASE CaptureShadow \/ \E s \in DOMAIN shadows : SimulateShadow(s)
  BY <1>5, ShadowsFit
<1>6. CASE \E r \in Experiments : EnqueueReplayRun(r) \/ LeaseLapses(r)
  BY <1>1, <1>6 DEF EnqueueReplayRun, LeaseLapses
<1>7. ASSUME NEW p \in ReplayPasses, ReplayStep(p) \/ FailReplayRun(p) \/ AbandonPass(p)
      PROVE  UNCHANGED <<episodes, journal, shadows>>
  BY <1>7 DEF ReplayStep, ClaimReplayRun, TakeBatch, InsertItems, CountItems, FinishReplayRun,
     FailReplayRun, AbandonPass
<1>8. CASE \E p \in ReplayPasses : ReplayStep(p) \/ FailReplayRun(p) \/ AbandonPass(p)
  BY <1>1, <1>7, <1>8
<1>9. CASE UNCHANGED replayVars
  BY <1>1, <1>9 DEF replayVars
<1> QED BY <1>2, <1>3, <1>4, <1>5, <1>6, <1>8, <1>9 DEF ReplayNext

LEMMA ReplayValues ==
    /\ ReplayInit => ReplayInv /\ JournalFits
    /\ ReplayInv /\ JournalFits /\ [ReplayNext]_replayVars => (ReplayInv /\ JournalFits)'
    /\ ReplayInv /\ JournalFits => ReplayTypeOK
<1>1. ReplayInit => JournalFits
  <2>1. Len(<<>>) = 0 /\ DOMAIN <<>> = {} /\ MaxEpisodes \in Nat /\ MaxDecisions \in Nat /\ ReplayBudget \in Nat
    BY ReplayAssumption
  <2> QED BY <2>1 DEF ReplayInit, JournalFits
<1>2. ASSUME ReplayInv, JournalFits PROVE ReplayTypeOK
  <2>1. JournalShape /\ episodes \in Seq({"OPEN", "ALLOWED", "lapsed"}) /\ Len(episodes) \in Nat
    BY <1>2, LenProperties DEF ReplayInv, ReplayShape, JournalShape
  <2>2. \A e \in DOMAIN episodes : episodes[e] \in {"OPEN", "ALLOWED", "lapsed"}
    BY <2>1
  <2>3. \A i \in DOMAIN journal : journal[i].chain \in Chains /\ journal[i].episode \in 0 .. Len(episodes)
    BY <1>2, <2>1, JournalIs DEF JournalFits
  <2>4. Cardinality({s \in DOMAIN shadows : shadows[s].pos = "OPEN"}) <= 1
    <3> DEFINE Waiting == {s \in DOMAIN shadows : shadows[s].pos = "OPEN"}
    <3>1. \A s, t \in Waiting : s = t
      BY <1>2 DEF JournalFits
    <3> HIDE DEF Waiting
    <3>2. Cardinality(Waiting) <= 1
      BY <3>1, AtMostOne
    <3> QED BY <3>2 DEF Waiting
  <2>5. ASSUME NEW r \in Experiments PROVE runs[r].status \in {"none", "QUEUED", "RUNNING", "DONE", "FAILED"}
    <3>1. runs[r].status # "none" => runs[r] \in RunRows
      BY <1>2, RunIs
    <3> QED BY <3>1 DEF RunRows
  <2>6. ASSUME NEW p \in ReplayPasses PROVE passes[p].at \in {"idle", "batch", "insert", "count", "finish"}
    BY <1>2, PassIs
  <2> QED BY <1>2, <2>2, <2>3, <2>4, <2>5, <2>6 DEF ReplayTypeOK, JournalFits
<1> QED BY <1>1, <1>2, ReplayStarts, ReplayInductive, JournalStays

(* RecoveryTypeOK: the rows, queues and passes of the components that finish
   what they began hold what their code can write, whichever of them runs. It
   needs of the constants what the pour's own theorems need: that a
   pour that landed is seen. *)
THEOREM RecoveryTypesHold == ASSUME PourIsSeen PROVE MCSpec => []RecoveryTypeOK
<1> DEFINE RecoveryInv == /\ PourInv /\ RedeployInv /\ Packed /\ OutboxHolds /\ Tries
                          /\ SettleKnown /\ StreamInv /\ WireFits /\ ReplayInv /\ JournalFits
           All == <<part, pourVars, dgtVars, outboxVars, settleVars, streamVars, replayVars>>
<1>1. MCInit => RecoveryInv
  <2>1. MCInit => PourInit /\ DgtInit /\ OutboxInit /\ SettleInit /\ StreamInit /\ ReplayInit
    BY DEF MCInit
  <2> QED BY <2>1, PourStart, RedeployValues, OutboxValues, SettleValues, StreamValues, ReplayValues
<1>2. RecoveryInv /\ [MCNext]_All => RecoveryInv'
  <2> SUFFICES ASSUME RecoveryInv, [MCNext]_All PROVE RecoveryInv'
    OBVIOUS
  <2>1. /\ [PourNext]_pourVars /\ [DgtNext]_dgtVars /\ [OutboxNext]_outboxVars
        /\ [SettleNext]_settleVars /\ [StreamNext]_streamVars /\ [ReplayNext]_replayVars
    BY DEF MCNext, PlaysPour, PlaysDgt, PlaysOutbox, PlaysSettle, PlaysStream, PlaysReplay
  <2> QED BY <2>1, PourStays, RedeployValues, OutboxValues, SettleValues, StreamValues, ReplayValues
<1>3. RecoveryInv => RecoveryTypeOK
  BY PourTypes, RedeployValues, OutboxValues, SettleValues, StreamValues, ReplayValues DEF RecoveryTypeOK
<1> QED BY <1>1, <1>2, <1>3, PTL DEF MCSpec
==============================================================================
