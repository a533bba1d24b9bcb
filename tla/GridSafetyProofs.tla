--------------------------- MODULE GridSafetyProofs ---------------------------
(***************************************************************************)
(* What the books of GridLifecycle say of the exchange, for every set of   *)
(* rows, orders, symbols and deployers and every value of the bounds: a    *)
(* row that is written off has no grid, a recorded stop stays, no symbol   *)
(* has two grids, and rows and exchange together keep GridContract.  Each  *)
(* theorem names the faults it excludes.                                   *)
(***************************************************************************)
EXTENDS GridLifecycleProofs

-----------------------------------------------------------------------------
(* What is known of the intents. It strengthens Supervision and holds      *)
(* under every fault.                                                      *)

\* A row that is not there yet has no request, no grid, no age and no caller.
IntentIsFresh ==
    \A r \in Rows : status[r] = "ABSENT" =>
        age[r] = 0 /\ r \notin net /\ Landed(r) = {} /\ \A d \in Deployers : drow[d] # r

\* A row past 90 s has its request behind it and its caller gone.
AgedIsSettled ==
    \A r \in Rows : age[r] # 0 => r \notin net /\ \A d \in Deployers : drow[d] # r

\* A request lands once.
OneLanding ==
    /\ \A r \in net : Landed(r) = {}
    /\ \A o, p \in Orders : origin[o] \in Rows /\ origin[o] = origin[p] => o = p

\* A caller that waits for its create waits alone, for a row nobody has bound.
WaitingIsUnbound ==
    /\ \A d \in Deployers : dpc[d] = "waiting" <=> drow[d] # NoRow
    /\ \A d \in Deployers : drow[d] # NoRow => bu[drow[d]] = NoOrder /\ Active(drow[d])
    /\ \A d, e \in Deployers : drow[d] # NoRow /\ drow[d] = drow[e] => d = e

\* The rows under adoption are past 90 s, and complete lists show their grids.
ListsCover ==
    wpc \in {"list_finished", "resolve"} =>
        \A r \in Rows : wsnap[r] # "NONE" =>
            /\ age[r] # 0
            /\ wcomplete =>
                 \A o \in Landed(r) :
                     o \in wseen \/ (wpc = "list_finished" /\ order[o] = "finished")

Intents == IntentIsFresh /\ AgedIsSettled /\ OneLanding /\ WaitingIsUnbound /\ ListsCover

-----------------------------------------------------------------------------
(* What a step may write.                                                  *)

\* A binding, and the evidence for every new status of a row.
Move(r) ==
    /\ bu'[r] # bu[r] =>
         /\ bu[r] = NoOrder /\ bu'[r] \in Orders /\ status'[r] \in ActiveStatuses
         /\ r \notin net /\ (Landed(r) \subseteq {bu'[r]} \/ bu'[r] \in lookalike[r])
    /\ \/ status'[r] = status[r]
       \/ /\ status'[r] \in ActiveStatuses
          /\ status[r] \in StopStatuses /\ bu[r] # NoOrder => status'[r] \in StopStatuses
          /\ bu'[r] = NoOrder => status[r] \in ActiveStatuses \/ r \in net' \ net
       \/ /\ status'[r] = "STOPPED" /\ bu[r] \in Orders /\ bu'[r] = bu[r]
          /\ order[bu[r]] = "finished" \/ "spurious_gone" \in Faults
       \/ /\ status'[r] = "FAILED" /\ status[r] # "ABSENT" /\ bu[r] = NoOrder
          /\ (r \notin net /\ Landed(r) = {}) \/ "garbled_create" \in Faults
Moves == \A r \in Rows : Move(r)

\* A grid of the exchange never runs again, and none begins.
OrdersEnd ==
    \A o \in Orders : \/ order'[o] = order[o]
                      \/ Live(o) /\ order'[o] \in {"closing", "finished"}

\* No row is added, none is written off as never created.
RowsKept ==
    \A r \in Rows : /\ status'[r] = "ABSENT" <=> status[r] = "ABSENT"
                    /\ status'[r] = "FAILED" => status[r] = "FAILED"

\* A step that leaves what Intents speaks of alone.
Quiet ==
    /\ UNCHANGED <<age, net, origin, drow, bu, rsym>>
    /\ RowsKept /\ OrdersEnd
    /\ \A d \in Deployers : dpc'[d] = "waiting" <=> dpc[d] = "waiting"
    /\ UNCHANGED <<wpc, wsnap, wseen, wcomplete>> \/ wpc' \notin {"list_finished", "resolve"}

LEMMA StillMoves == ASSUME UNCHANGED <<status, bu>> PROVE Moves /\ RowsKept
BY DEF Moves, Move, RowsKept

LEMMA OrdersStill == ASSUME UNCHANGED order PROVE OrdersEnd
BY DEF OrdersEnd

\* Recording a stop is no end, and keeps a stop.
LEMMA MarkMoves ==
    ASSUME TypeOK, UNCHANGED bu, MarkStop(FleetStopFrom)
    PROVE  Moves /\ RowsKept
BY DEF Moves, Move, RowsKept, MarkStop, FleetStopFrom, TypeOK, StopStatuses, ActiveStatuses

LEMMA StopMoves ==
    ASSUME TypeOK, NEW r \in Rows, status[r] # "ABSENT",
           status[r] \in ActiveStatuses \/ bu[r] # NoOrder, NEW stop \in StopStatuses,
           status' = [status EXCEPT ![r] = stop], UNCHANGED bu
    PROVE  Moves /\ RowsKept
BY DEF Moves, Move, RowsKept, TypeOK, StopStatuses, ActiveStatuses

\* The end of a grid that the exchange does not show any more.
LEMMA EndMoves ==
    ASSUME Supervision, NEW r \in Rows, bu[r] # NoOrder,
           status' = [status EXCEPT ![r] = "STOPPED"], UNCHANGED bu,
           ~Live(bu[r]) \/ "spurious_gone" \in Faults
    PROVE  Moves /\ RowsKept
<1>1. bu[r] \in Orders /\ status[r] # "ABSENT"
  BY DEF Supervision, TypeOK, IntentUnbound
<1>2. order[bu[r]] = "finished" \/ "spurious_gone" \in Faults
  BY <1>1 DEF Supervision, TypeOK, IdsAreReal, Live, OrderStatuses
<1> QED BY <1>1, <1>2 DEF Moves, Move, RowsKept, Supervision, TypeOK

-----------------------------------------------------------------------------
(* The steps that leave the intents alone, actor by actor.                 *)

\* A deployer between two creates.
LEMMA DeployerQuiet ==
    ASSUME TypeOK, NEW d \in Deployers,
           PassGate(d) \/ PassEnd(d) \/ ManualDeploy(d) \/ \E s \in Symbols : CreateAdmit(d, s)
    PROVE  Quiet /\ Moves
<1>1. UNCHANGED <<status, bu, order, age, net, origin, drow, rsym, wpc, wsnap, wseen, wcomplete>>
  BY Zenon DEF PassGate, PassEnd, ManualDeploy, CreateAdmit, rowVars, exchVars, workVars
<1>2. /\ dpc[d] # "waiting"
      /\ \E here \in {"idle", "deploying", "admitting"} : dpc' = [dpc EXCEPT ![d] = here]
  BY DEF PassGate, PassEnd, ManualDeploy, CreateAdmit
<1>3. \A e \in Deployers : dpc'[e] = "waiting" <=> dpc[e] = "waiting"
  BY <1>2 DEF TypeOK
<1> QED BY <1>1, <1>3, StillMoves, OrdersStill, Zenon DEF Quiet

\* The operator's commands on the worker goroutine: what they mark is a stop.
LEMMA CommandQuiet ==
    ASSUME Supervision, CommandStep \/ CommandRest
    PROVE  Quiet /\ Moves
<1> USE DEF Supervision
<1>1. UNCHANGED <<age, net, origin, drow, bu, rsym, order>>
  BY Zenon DEF CommandStep, CommandRest, StartFleet, StartRefused, ScheduledScan, StopFleet,
     EmergencyStop, SetStatus, CloseAllActiveBots, EmergencyMark, EmergencyList,
     EmergencyListDone, EmergencyCancel, EmergencySkipped, SubmitCancel, OnlyStatusChanges,
     rowVars, exchVars, depVars
<1>2. \A e \in Deployers : dpc'[e] = "waiting" <=> dpc[e] = "waiting"
  <2>1. CASE dpc' = dpc
    BY <2>1
  <2>2. CASE dpc' # dpc
    <3>1. \E d \in Deployers : dpc[d] = "idle" /\ dpc' = [dpc EXCEPT ![d] = "scanning"]
      BY <2>2, Zenon DEF CommandStep, CommandRest, StartFleet, StartRefused, ScheduledScan,
         StopFleet, EmergencyStop, SetStatus, CloseAllActiveBots, EmergencyMark, EmergencyList,
         EmergencyListDone, EmergencyCancel, EmergencySkipped, SubmitCancel, OnlyStatusChanges,
         depVars
    <3> QED BY <3>1 DEF TypeOK
  <2> QED BY <2>1, <2>2
<1>3. \/ UNCHANGED <<wpc, wsnap, wseen, wcomplete>>
      \/ wpc' \notin {"list_finished", "resolve"}
  <2>1. CASE CommandStep
    BY <2>1, Zenon DEF CommandStep, StartFleet, StartRefused, ScheduledScan, StopFleet,
       EmergencyStop, WorkerGoes, workVars
  <2>2. CASE CommandRest
    <3>1. wpc' \in {"stop_close", "em_close", "idle", "em_list", "em_cancel", "em_status",
                    "cancelling"}
      BY <2>2, Zenon DEF CommandRest, SetStatus, CloseAllActiveBots, EmergencyMark,
         EmergencyList, EmergencyListDone, EmergencyCancel, EmergencySkipped, SubmitCancel,
         WorkerGoes, WorkerAt
    <3> QED BY <3>1
  <2> QED BY <2>1, <2>2
<1>4. RowsKept /\ Moves
  <2>1. CASE StopFleet \/ CloseAllActiveBots("stop_close") \/ CloseAllActiveBots("em_close")
    <3>1. MarkStop(FleetStopFrom)
      BY <2>1, Zenon DEF StopFleet, CloseAllActiveBots
    <3> QED BY <1>1, <3>1, MarkMoves
  <2>2. CASE EmergencyMark
    <3>1. status' = [r \in Rows |->
             IF bu[r] = NoOrder /\ status[r] \in {"PENDING_SUBMISSION", "SUBMISSION_UNKNOWN"}
             THEN "STOP_REQUESTED" ELSE status[r]]
      BY <2>2 DEF EmergencyMark
    <3> QED BY <1>1, <3>1 DEF Moves, Move, RowsKept, TypeOK, StopStatuses, ActiveStatuses
  <2>3. ASSUME NEW r \in Rows, EmergencyCancel(r) PROVE RowsKept /\ Moves
    <3>1. bu[r] # NoOrder /\ status' = [status EXCEPT ![r] = "STOPPING"]
      BY <2>3 DEF EmergencyCancel, SubmitCancel, WorkerAt, WorkerFrame
    <3> QED BY <1>1, <3>1, StopMoves DEF IntentUnbound, StopStatuses
  <2>4. CASE UNCHANGED status
    BY <1>1, <2>4, StillMoves
  <2> QED BY <2>1, <2>2, <2>3, <2>4, Zenon DEF CommandStep, CommandRest, StartFleet,
      StartRefused, ScheduledScan, EmergencyStop, SetStatus, EmergencyList, EmergencyListDone,
      EmergencySkipped, rowVars
<1> QED BY <1>1, <1>2, <1>3, <1>4, OrdersStill, Zenon DEF Quiet

\* So do the console's buttons.
LEMMA ConsoleQuiet ==
    ASSUME Supervision, ConsoleStep
    PROVE  Quiet /\ Moves
<1> USE DEF Supervision
<1>1. UNCHANGED <<age, net, origin, drow, bu, rsym, order, wpc, wsnap, wseen, wcomplete>>
  BY Zenon DEF ConsoleStep, ConsoleRest, DirectStart, DirectStop, DirectEmergencyStop,
     ConsoleSetStatus, ConsoleCloseAll, OnlyStatusChanges, rowVars, exchVars, depVars, workVars
<1>2. \A e \in Deployers : dpc'[e] = "waiting" <=> dpc[e] = "waiting"
  <2>1. dpc' = dpc \/ \E d \in Deployers : dpc[d] = "idle" /\ dpc' = [dpc EXCEPT ![d] = "scanning"]
    BY Zenon DEF ConsoleStep, ConsoleRest, DirectStart, DirectStop, DirectEmergencyStop,
       ConsoleSetStatus, ConsoleCloseAll, OnlyStatusChanges, depVars
  <2> QED BY <2>1 DEF TypeOK
<1>3. RowsKept /\ Moves
  <2>1. CASE ConsoleCloseAll
    BY <1>1, <2>1, MarkMoves DEF ConsoleCloseAll
  <2>2. CASE UNCHANGED status
    BY <1>1, <2>2, StillMoves
  <2> QED BY <2>1, <2>2, Zenon DEF ConsoleStep, ConsoleRest, DirectStart, DirectStop,
      DirectEmergencyStop, ConsoleSetStatus, rowVars
<1> QED BY <1>1, <1>2, <1>3, OrdersStill, Zenon DEF Quiet

\* A grid begins to close, or ends.
LEMMA OrderEnds ==
    ASSUME TypeOK, NEW o \in Orders, Live(o), NEW here \in {"closing", "finished"},
           order' = [order EXCEPT ![o] = here]
    PROVE  OrdersEnd
BY DEF OrdersEnd, TypeOK

\* The answer to a cancel closes the row only when its grid has ended.
LEMMA CancelQuiet ==
    ASSUME Supervision, NEW r \in Rows, CancelAnswer(r)
    PROVE  Quiet /\ Moves
<1> USE DEF Supervision
<1>1. wpc = "cancelling" /\ wrow = r /\ bu[r] # NoOrder
  BY Zenon DEF CancelAnswer, CancelAccepted, CancelGone, CancelRefused, CancelOutcomeUnknown,
         CancelFailed, CancelUnanswered, Cancelling, WorkerAt, WorkerFrame
<1>2. UNCHANGED <<age, net, origin, drow, dpc, bu, rsym>>
  BY Zenon DEF CancelAnswer, CancelAccepted, CancelGone, CancelRefused, CancelReturns,
     SubmitCancel, CancelOutcomeUnknown, CancelFailed, CancelUnanswered, depVars
<1>3. wpc' \notin {"list_finished", "resolve"}
  <2>1. wpc' = wret \/ wpc' = "cancelling"
    BY Zenon DEF CancelAnswer, CancelAccepted, CancelGone, CancelRefused, CancelReturns,
       SubmitCancel, CancelOutcomeUnknown, CancelFailed, CancelUnanswered
  <2> QED BY <1>1, <2>1 DEF WorkerFrame
<1>4. OrdersEnd
  <2>1. UNCHANGED order \/ (Live(bu[r]) /\ CancelTakesEffect(r))
    BY Zenon DEF CancelAnswer, CancelAccepted, CancelGone, CancelRefused, SubmitCancel,
       CancelOutcomeUnknown, CancelFailed, CancelUnanswered
  <2>2. bu[r] \in Orders
    BY <1>1 DEF TypeOK
  <2> QED BY <2>1, <2>2, OrdersStill, OrderEnds DEF CancelTakesEffect
<1>5. RowsKept /\ Moves
  <2>1. \/ UNCHANGED status
        \/ status' = [status EXCEPT ![r] = "STOP_REQUESTED"]
        \/ status' = [status EXCEPT ![r] = "STOPPING"]
        \/ ~Live(bu[r]) /\ status' = [status EXCEPT ![r] = "STOPPED"]
    BY Zenon DEF CancelAnswer, CancelAccepted, CancelGone, CancelRefused, SubmitCancel,
       CancelOutcomeUnknown, CancelFailed, CancelUnanswered
  <2>2. status[r] # "ABSENT"
    BY <1>1 DEF IntentUnbound
  <2> QED BY <1>1, <1>2, <2>1, <2>2, StillMoves, StopMoves, EndMoves DEF StopStatuses
<1> QED BY <1>2, <1>3, <1>4, <1>5, Zenon DEF Quiet

\* The parts of the pass that bind nothing. A write-back keeps a stop.
LEMMA PassQuiet ==
    ASSUME Supervision,
           \/ SweepSkipped \/ SweepLists \/ SweepDone \/ AdoptDone \/ ManageList \/ ManageDone
           \/ \E o \in Orders : AlertOrphan(o) \/ OrphanFails(o)
           \/ \E r \in Rows : \/ ManageRow(r) \/ ClientUnresolved(r) \/ ReadFailed(r)
                              \/ ReadTerminal(r) \/ ReadLive(r) \/ DecideHold(r)
                              \/ DecideClose(r)
    PROVE  Quiet /\ Moves
<1> USE DEF Supervision
<1>1. CASE \/ SweepSkipped \/ SweepLists \/ SweepDone \/ AdoptDone \/ ManageList \/ ManageDone
           \/ \E o \in Orders : AlertOrphan(o) \/ OrphanFails(o)
  <2>1. UNCHANGED <<status, bu, order, age, net, origin, drow, dpc, rsym>>
    BY <1>1, Zenon DEF SweepSkipped, SweepLists, SweepDone, AdoptDone, ManageList, ManageDone,
       AlertOrphan, OrphanFails, PassVars, rowVars, exchVars, depVars
  <2>2. wpc' \in {"adopt", "orphans", "manage_list", "manage", "idle"}
    BY <1>1, Zenon DEF SweepSkipped, SweepLists, SweepDone, AdoptDone, ManageList, ManageDone,
       AlertOrphan, OrphanFails, WorkerAt
  <2> QED BY <2>1, <2>2, StillMoves, OrdersStill, Zenon DEF Quiet
<1>2. ASSUME NEW r \in Rows,
             ManageRow(r) \/ ClientUnresolved(r) \/ ReadFailed(r) \/ ReadTerminal(r)
                 \/ ReadLive(r) \/ DecideHold(r) \/ DecideClose(r)
      PROVE  Quiet /\ Moves
  <2>1. UNCHANGED <<order, age, net, origin, drow, dpc, rsym, bu>>
    BY <1>2, Zenon DEF ManageRow, ClientUnresolved, ReadFailed, ReadTerminal, ReadLive,
       DecideHold, DecideClose, NextRow, SubmitCancel, ReadKeeps, rowVars, exchVars, depVars
  <2>2. wpc' \in {"cancelling", "manage", "decide", "read"}
    BY <1>2, Zenon DEF ManageRow, ClientUnresolved, ReadFailed, ReadTerminal, ReadLive,
       DecideHold, DecideClose, NextRow, SubmitCancel
  <2>3. bu[r] # NoOrder /\ status[r] # "ABSENT" /\ wsnap[r] \in ManagedStatuses \cup {"NONE"}
    <3>1. bu[r] # NoOrder /\ wsnap[r] \in ManagedStatuses \cup {"NONE"}
      BY <1>2 DEF ManageRow, ClientUnresolved, ReadFailed, ReadTerminal, ReadLive, DecideHold,
         DecideClose, Reading, WorkerAt, WorkerFrame
    <3> QED BY <3>1 DEF IntentUnbound
  <2>4. \/ UNCHANGED status
        \/ status' = [status EXCEPT ![r] = "STOPPING"]
        \/ /\ status' = [status EXCEPT ![r] = "STOPPED"]
           /\ ~Live(bu[r]) \/ "spurious_gone" \in Faults
        \/ /\ Reading(r) /\ Live(bu[r])
           /\ status' = [status EXCEPT ![r] = KeepStop(status[r], wsnap[r])]
    BY <1>2, Zenon DEF ManageRow, ClientUnresolved, ReadFailed, ReadTerminal, ReadLive,
       DecideHold, DecideClose, SubmitCancel, rowVars
  <2>5. ASSUME Reading(r), status' = [status EXCEPT ![r] = KeepStop(status[r], wsnap[r])]
        PROVE  RowsKept /\ Moves
    <3>1. wsnap[r] \in ManagedStatuses
      BY <2>5 DEF Reading, WorkerAt, WorkerFrame
    <3> QED BY <2>1, <2>3, <2>5, <3>1
            DEF Moves, Move, RowsKept, KeepStop, TypeOK, StopStatuses, ActiveStatuses,
                ManagedStatuses
  <2>6. RowsKept /\ Moves
    BY <2>1, <2>3, <2>4, <2>5, StillMoves, StopMoves, EndMoves DEF StopStatuses
  <2> QED BY <2>1, <2>2, <2>6, OrdersStill, Zenon DEF Quiet
<1> QED BY <1>1, <1>2

\* The end of a grid, the operator's close of one bot, and two timers.
LEMMA EnvironmentQuiet ==
    ASSUME Supervision,
           \/ \E r \in Rows : RequestBotClose(r) \/ GridStop(r)
           \/ \E o \in Orders : OrderFinish(o)
           \/ SweepFallsDue \/ ReleaseKillSwitch
    PROVE  Quiet /\ Moves
<1> USE DEF Supervision
<1>1. UNCHANGED <<age, net, origin, drow, dpc, bu, rsym, wpc, wsnap, wseen, wcomplete>>
  BY Zenon DEF RequestBotClose, GridStop, RecordStop, OrderFinish, SweepFallsDue,
     ReleaseKillSwitch, rowVars, exchVars, depVars, workVars
<1>2. ASSUME NEW o \in Orders, OrderFinish(o) PROVE Quiet /\ Moves
  <2>1. UNCHANGED <<status, bu>>
    BY <1>2, Zenon DEF OrderFinish, rowVars
  <2>2. OrdersEnd
    BY <1>2, OrderEnds DEF OrderFinish
  <2> QED BY <1>1, <2>1, <2>2, StillMoves, Zenon DEF Quiet
<1>3. ASSUME NEW r \in Rows, RequestBotClose(r) \/ GridStop(r)
      PROVE  Quiet /\ Moves
  <2>1. /\ status' = [status EXCEPT ![r] = "STOP_REQUESTED"]
        /\ status[r] # "ABSENT" /\ UNCHANGED <<order, bu>>
        /\ status[r] \in ActiveStatuses \/ bu[r] # NoOrder
    BY <1>3 DEF RequestBotClose, GridStop, RecordStop, CloseRequested, StopCommanded,
       IntentUnbound, ActiveStatuses, exchVars
  <2> QED BY <1>1, <2>1, StopMoves, OrdersStill, Zenon DEF Quiet, StopStatuses
<1>4. CASE SweepFallsDue \/ ReleaseKillSwitch
  <2>1. UNCHANGED <<status, bu, order>>
    BY <1>4, Zenon DEF SweepFallsDue, ReleaseKillSwitch, rowVars, exchVars
  <2> QED BY <1>1, <2>1, StillMoves, OrdersStill, Zenon DEF Quiet
<1> QED BY <1>2, <1>3, <1>4

-----------------------------------------------------------------------------
(* Every step keeps Intents.                                               *)

\* The quiet ones.
LEMMA QuietIntents ==
    ASSUME Supervision, Intents, Quiet, Moves
    PROVE  Intents'
<1> USE DEF Quiet, Intents
<1>1. \A r \in Rows : Landed(r)' = Landed(r)
  BY DEF Landed
<1>2. IntentIsFresh' /\ AgedIsSettled' /\ OneLanding'
  <2>1. OneLanding'
    BY DEF OneLanding, Landed
  <2>2. IntentIsFresh'
    BY Zenon, <1>1 DEF IntentIsFresh, RowsKept
  <2>3. AgedIsSettled'
    BY DEF AgedIsSettled
  <2> QED BY <2>1, <2>2, <2>3
<1>3. WaitingIsUnbound'
  <2>1. \A r \in Rows : Active(r) /\ bu[r] = NoOrder => status'[r] \in ActiveStatuses
    <3> SUFFICES ASSUME NEW r \in Rows, Active(r), bu[r] = NoOrder
                 PROVE  status'[r] \in ActiveStatuses
      OBVIOUS
    <3>1. status'[r] # "FAILED" /\ bu[r] \notin Orders
      BY ConstantsAssumption DEF RowsKept, Active, ActiveStatuses
    <3> QED BY <3>1 DEF Moves, Move, Active
  <2>2. \A d \in Deployers : drow[d] # NoRow => drow[d] \in Rows
    BY DEF Supervision, TypeOK
  <2>3. \A d \in Deployers : drow'[d] # NoRow => bu'[drow'[d]] = NoOrder /\ status'[drow'[d]] \in ActiveStatuses
    BY <2>1, <2>2 DEF WaitingIsUnbound
  <2> QED BY <2>3 DEF WaitingIsUnbound, Active
<1>4. ListsCover'
  <2>1. CASE wpc' \notin {"list_finished", "resolve"}
    BY <2>1 DEF ListsCover
  <2>2. CASE UNCHANGED <<wpc, wsnap, wseen, wcomplete>>
    <3>1. \A o \in Orders : order[o] = "finished" => order'[o] = "finished"
      BY DEF OrdersEnd, Live
    <3>2. \A r \in Rows : Landed(r) \subseteq Orders
      BY DEF Landed
    <3> QED BY <1>1, <2>2, <3>1, <3>2, Zenon DEF ListsCover
  <2> QED BY <2>1, <2>2
<1> QED BY <1>2, <1>3, <1>4

\* An intent row and its request appear together.
LEMMA SubmitIntents ==
    ASSUME Supervision, Intents, NEW d \in Deployers, NEW r \in Rows, CreateSubmit(d, r)
    PROVE  Intents' /\ Moves
<1> USE DEF Supervision, Intents
<1>1. /\ status[r] = "ABSENT" /\ status' = [status EXCEPT ![r] = "PENDING_SUBMISSION"]
      /\ net' = net \cup {r}
      /\ dpc' = [dpc EXCEPT ![d] = "waiting"] /\ drow' = [drow EXCEPT ![d] = r]
      /\ UNCHANGED <<bu, age, order, origin, wpc, wsnap, wseen, wcomplete>>
  BY Zenon DEF CreateSubmit, workVars
<1>2. /\ age[r] = 0 /\ Landed(r) = {} /\ bu[r] = NoOrder /\ r \notin net
      /\ \A e \in Deployers : drow[e] # r
  BY <1>1 DEF IntentIsFresh, IntentUnbound
<1>3. \A q \in Rows : Landed(q)' = Landed(q)
  BY <1>1 DEF Landed
<1>4. IntentIsFresh' /\ AgedIsSettled' /\ OneLanding'
  <2> SUFFICES IntentIsFresh' /\ AgedIsSettled' /\ (\A q \in net' : Landed(q)' = {})
    BY <1>1 DEF OneLanding
  <2> QED BY <1>1, <1>2, <1>3 DEF IntentIsFresh, AgedIsSettled, OneLanding, TypeOK
<1>5. WaitingIsUnbound'
  <2>1. \A e \in Deployers : dpc'[e] = "waiting" <=> drow'[e] # NoRow
    BY <1>1, ConstantsAssumption DEF WaitingIsUnbound, TypeOK
  <2>2. \A e \in Deployers : drow'[e] # NoRow =>
           bu'[drow'[e]] = NoOrder /\ status'[drow'[e]] \in ActiveStatuses
    BY <1>1, <1>2 DEF WaitingIsUnbound, Active, ActiveStatuses, TypeOK
  <2>3. \A e, f \in Deployers : drow'[e] # NoRow /\ drow'[e] = drow'[f] => e = f
    BY <1>1, <1>2 DEF WaitingIsUnbound, TypeOK
  <2> QED BY <2>1, <2>2, <2>3 DEF WaitingIsUnbound, Active
<1>6. ListsCover'
  BY <1>1, <1>3, Zenon DEF ListsCover
<1>7. Moves
  BY <1>1, <1>2 DEF Moves, Move, TypeOK, ActiveStatuses, StopStatuses
<1> QED BY <1>4, <1>5, <1>6, <1>7

\* What any answer of a create leaves behind, the caller gone.
LEMMA AnswerIntents ==
    ASSUME Supervision, Intents, NEW d \in Deployers, dpc[d] = "waiting", BackToPass(d),
           \A q \in Rows \ {drow[d]} : status'[q] = status[q] /\ bu'[q] = bu[q],
           status'[drow[d]] # "ABSENT"
    PROVE  Intents'
<1> USE DEF Supervision, Intents
<1>1. /\ UNCHANGED <<age, order, origin, net, wpc, wsnap, wseen, wcomplete>>
      /\ drow' = [drow EXCEPT ![d] = NoRow]
      /\ \E here \in {"idle", "deploying"} : dpc' = [dpc EXCEPT ![d] = here]
  BY Zenon DEF BackToPass, exchVars, workVars
<1>2. \A q \in Rows : Landed(q)' = Landed(q)
  BY <1>1 DEF Landed
<1>3. drow[d] \in Rows /\ \A e \in Deployers \ {d} : drow[e] # drow[d]
  BY DEF WaitingIsUnbound, TypeOK
<1>4. IntentIsFresh' /\ AgedIsSettled'
  <2>1. \A e \in Deployers : drow'[e] \in {drow[e], NoRow}
    BY <1>1 DEF TypeOK
  <2>2. \A q \in Rows : status'[q] = "ABSENT" => status[q] = "ABSENT"
    OBVIOUS
  <2>3. \A q \in Rows : (\A e \in Deployers : drow[e] # q) => \A e \in Deployers : drow'[e] # q
    BY <2>1, ConstantsAssumption
  <2>4. IntentIsFresh'
    <3> SUFFICES ASSUME NEW q \in Rows, status'[q] = "ABSENT"
                 PROVE  /\ age'[q] = 0 /\ q \notin net' /\ Landed(q)' = {}
                        /\ \A e \in Deployers : drow'[e] # q
      BY DEF IntentIsFresh
    <3>1. /\ age[q] = 0 /\ q \notin net /\ Landed(q) = {}
          /\ \A e \in Deployers : drow[e] # q
      BY <2>2 DEF IntentIsFresh
    <3> QED BY <1>1, <1>2, <2>3, <3>1, Zenon
  <2>5. AgedIsSettled'
    BY <1>1, <2>3, Zenon DEF AgedIsSettled
  <2> QED BY <2>4, <2>5
<1>5. OneLanding'
  BY <1>1 DEF OneLanding, Landed
<1>6. WaitingIsUnbound'
  <2>1. \A e \in Deployers : dpc'[e] = "waiting" <=> drow'[e] # NoRow
    BY <1>1 DEF WaitingIsUnbound, TypeOK
  <2>2. \A e \in Deployers : drow'[e] # NoRow => e # d /\ drow'[e] = drow[e] /\ drow[e] # NoRow
    BY <1>1 DEF TypeOK
  <2>3. \A e \in Deployers : drow[e] # NoRow => drow[e] \in Rows
    BY DEF TypeOK
  <2>4. \A e \in Deployers : drow'[e] # NoRow =>
           bu'[drow'[e]] = NoOrder /\ status'[drow'[e]] \in ActiveStatuses
    BY <1>3, <2>2, <2>3 DEF WaitingIsUnbound, Active
  <2>5. \A e, f \in Deployers : drow'[e] # NoRow /\ drow'[e] = drow'[f] => e = f
    BY <2>2, <1>1 DEF WaitingIsUnbound, TypeOK
  <2> QED BY <2>1, <2>4, <2>5 DEF WaitingIsUnbound, Active
<1>7. ListsCover'
  BY <1>1, <1>2, Zenon DEF ListsCover
<1> QED BY <1>4, <1>5, <1>6, <1>7

\* The create's answer binds the row to its own grid, the only one.
LEMMA CreateIntents ==
    ASSUME Supervision, Intents, NEW d \in Deployers,
           \/ CreatePersist(d) \/ CreateAborted(d)
           \/ CreateOutcomeUnknown(d) \/ CreateRefused(d) \/ CreateGarbled(d)
    PROVE  Intents' /\ Moves
<1> USE DEF Supervision, Intents
<1>1. dpc[d] = "waiting" /\ BackToPass(d)
  BY Zenon DEF CreatePersist, CreateAborted, CreateOutcomeUnknown, CreateRefused, CreateGarbled,
     CreateError
<1> DEFINE r == drow[d]
<1>2. r \in Rows /\ bu[r] = NoOrder /\ status[r] # "ABSENT" /\ status[r] \in ActiveStatuses
  BY <1>1 DEF WaitingIsUnbound, IntentIsFresh, Active, TypeOK
<1> HIDE DEF r
<1>3. CASE CreatePersist(d)
  <2>1. PICK o \in Landed(r) :
          IF MayHold(r, o) /\ PersistMatches(r)
          THEN status' = [status EXCEPT ![r] = PersistedStatus(r)] /\ bu' = [bu EXCEPT ![r] = o]
          ELSE UNCHANGED <<status, bu>>
    BY <1>3 DEF CreatePersist, r
  <2>2. CASE UNCHANGED <<status, bu>>
    BY <1>1, <1>2, <2>2, AnswerIntents, StillMoves DEF r
  <2>3. CASE status' = [status EXCEPT ![r] = PersistedStatus(r)] /\ bu' = [bu EXCEPT ![r] = o]
    <3>1. o \in Orders /\ r \notin net /\ Landed(r) \subseteq {o}
      BY <1>2, <2>1 DEF OneLanding, Landed
    <3>2. PersistedStatus(r) \in ActiveStatuses
      BY DEF PersistedStatus, KeepStop, ActiveStatuses, StopStatuses
    <3>3. PersistedStatus(r) # "ABSENT"
      BY <3>2 DEF ActiveStatuses
    <3>4. Intents'
      BY <1>1, <1>2, <2>3, <3>3, AnswerIntents DEF r, TypeOK
    <3>5. Moves
      BY <1>2, <2>3, <3>1, <3>2, ConstantsAssumption DEF Moves, Move, TypeOK
    <3> QED BY <3>4, <3>5
  <2> QED BY <2>1, <2>2, <2>3
<1>4. CASE CreateAborted(d)
  BY <1>1, <1>2, <1>4, AnswerIntents, StillMoves DEF CreateAborted, r
<1>5. ASSUME NEW u \in {"SUBMISSION_UNKNOWN", "FAILED"}, UNCHANGED bu,
             status' = [status EXCEPT ![r] = u],
             u = "FAILED" => (r \notin net /\ Landed(r) = {}) \/ "garbled_create" \in Faults
      PROVE  Intents' /\ Moves
  <2>1. Intents'
    BY <1>1, <1>2, <1>5, AnswerIntents DEF r, TypeOK
  <2>2. Moves
    BY <1>2, <1>5 DEF Moves, Move, TypeOK, ActiveStatuses, StopStatuses
  <2> QED BY <2>1, <2>2
<1>6. CASE CreateOutcomeUnknown(d)
  BY <1>5, <1>6 DEF CreateOutcomeUnknown, CreateError, CreateErrorStatus, r
<1>7. CASE CreateRefused(d)
  BY <1>5, <1>7 DEF CreateRefused, CreateError, CreateErrorStatus, r
<1>8. CASE CreateGarbled(d)
  BY <1>5, <1>8 DEF CreateGarbled, CreateError, CreateErrorStatus, r
<1> QED BY <1>3, <1>4, <1>6, <1>7, <1>8

\* A request lands once, or never; time passes only for what is behind it.
LEMMA ExchangeIntents ==
    ASSUME Supervision, Intents, NEW r \in Rows, Land(r) \/ Drop(r) \/ Grow(r)
    PROVE  Intents' /\ Moves
<1> USE DEF Supervision, Intents
<1>1. /\ UNCHANGED <<status, bu, drow, dpc, wpc, wsnap, wseen, wcomplete>>
      /\ \E a \in Nat : age' = age \/ age' = [age EXCEPT ![r] = a + 1]
  <2>1. age[r] \in Nat
    BY DEF TypeOK
  <2> QED BY <2>1, Zenon DEF Land, Drop, Grow, rowVars, depVars, workVars
<1>2. WaitingIsUnbound' /\ Moves
  BY <1>1, StillMoves DEF WaitingIsUnbound, Active
<1>3. CASE Land(r)
  <2>1. PICK o \in Orders : /\ order[o] = "none"
                            /\ order' = [order EXCEPT ![o] = "running"]
                            /\ origin' = [origin EXCEPT ![o] = r]
    BY <1>3 DEF Land
  <2>2. r \in net /\ net' = net \ {r} /\ age' = age
    BY <1>3, Zenon DEF Land, rowVars
  <2>3. origin[o] \notin Rows
    BY <2>1 DEF IdsAreReal
  <2>4. \A q \in Rows \ {r} : \A p \in Orders : origin'[p] = q <=> origin[p] = q
    BY <2>1, <2>3 DEF TypeOK
  <2>5. \A p \in Orders : origin'[p] = r => p = o
    BY <2>1, <2>2 DEF OneLanding, Landed, TypeOK
  <2>6. status[r] # "ABSENT" /\ age[r] = 0
    BY <2>2 DEF IntentIsFresh, AgedIsSettled
  <2>7. IntentIsFresh' /\ AgedIsSettled'
    BY <1>1, <2>2, <2>4, <2>6 DEF IntentIsFresh, AgedIsSettled, Landed
  <2>8. OneLanding'
    BY <2>1, <2>2, <2>3, <2>4, <2>5 DEF OneLanding, Landed, TypeOK
  <2>9. ListsCover'
    <3>1. \A q \in Rows : \A p \in Orders :
            age[q] # 0 /\ origin'[p] = q => origin[p] = q /\ (order[p] = "finished" => order'[p] = "finished")
      BY <2>1, <2>3, <2>4, <2>6 DEF TypeOK
    <3> QED BY <1>1, <2>2, <3>1 DEF ListsCover, Landed
  <2> QED BY <1>2, <2>7, <2>8, <2>9
<1>4. CASE Drop(r)
  <2>1. net' = net \ {r} /\ UNCHANGED <<age, order, origin>>
    BY <1>4, Zenon DEF Drop, rowVars
  <2>2. IntentIsFresh' /\ AgedIsSettled'
    BY <1>1, <2>1 DEF IntentIsFresh, AgedIsSettled, Landed
  <2>3. OneLanding'
    BY <1>1, <2>1 DEF OneLanding, Landed
  <2>4. ListsCover'
    BY <1>1, <2>1, Zenon DEF ListsCover, Landed
  <2> QED BY <1>2, <2>2, <2>3, <2>4
<1>5. CASE Grow(r)
  <2>1. /\ UNCHANGED <<net, order, origin>>
        /\ r \notin net /\ status[r] # "ABSENT" /\ \A d \in Deployers : drow[d] # r
        /\ \A q \in Rows \ {r} : age'[q] = age[q]
        /\ age'[r] # 0
    <3>1. UNCHANGED <<net, order, origin>> /\ r \notin net /\ \A d \in Deployers : drow[d] # r
      BY <1>5, Zenon DEF Grow, exchVars
    <3>2. status[r] # "ABSENT"
      BY <1>5 DEF Grow, Unbound, AdoptableStatuses
    <3>3. age' = [age EXCEPT ![r] = age[r] + 1]
      BY <1>5 DEF Grow
    <3> QED BY <3>1, <3>2, <3>3 DEF TypeOK
  <2>2. IntentIsFresh' /\ AgedIsSettled'
    BY <1>1, <2>1 DEF IntentIsFresh, AgedIsSettled, Landed
  <2>3. OneLanding'
    BY <1>1, <2>1 DEF OneLanding, Landed
  <2>4. \A q \in Rows : age[q] # 0 => age'[q] # 0
    BY <2>1
  <2>5. ListsCover'
    BY <1>1, <2>1, <2>4, Zenon DEF ListsCover, Landed
  <2> QED BY <1>2, <2>2, <2>3, <2>5
<1> QED BY <1>3, <1>4, <1>5

\* A restart forgets who was waiting.
LEMMA CrashIntents ==
    ASSUME Supervision, Intents, Crash
    PROVE  Intents' /\ Moves
<1> USE DEF Supervision, Intents
<1>1. /\ UNCHANGED <<status, bu, age, order, origin, net>> /\ wpc' = "idle"
      /\ dpc' = [d \in Deployers |-> "idle"] /\ drow' = [d \in Deployers |-> NoRow]
  BY Zenon DEF Crash, rowVars, exchVars
<1>2. IntentIsFresh' /\ AgedIsSettled'
  BY <1>1, ConstantsAssumption DEF IntentIsFresh, AgedIsSettled, Landed
<1>3. OneLanding' /\ WaitingIsUnbound' /\ ListsCover'
  BY <1>1 DEF OneLanding, WaitingIsUnbound, ListsCover, Landed
<1> QED BY <1>1, <1>2, <1>3, StillMoves

\* What the sweep and the adoption write about an intent: the rows that get an
\* id had none, and their request is behind them.
LEMMA BoundIntents ==
    ASSUME Supervision, Intents,
           UNCHANGED <<age, order, origin, net, drow, dpc>>,
           \A q \in Rows : status'[q] = "ABSENT" => status[q] = "ABSENT",
           \A q \in Rows : \/ bu'[q] = bu[q] /\ (Active(q) => status'[q] \in ActiveStatuses)
                           \/ \A d \in Deployers : drow[d] # q
    PROVE  IntentIsFresh' /\ AgedIsSettled' /\ OneLanding' /\ WaitingIsUnbound'
<1> USE DEF Supervision, Intents
<1>1. IntentIsFresh' /\ AgedIsSettled' /\ OneLanding'
  BY DEF IntentIsFresh, AgedIsSettled, OneLanding, Landed
<1>2. \A d \in Deployers : drow[d] # NoRow =>
         bu'[drow[d]] = NoOrder /\ status'[drow[d]] \in ActiveStatuses
  BY DEF WaitingIsUnbound, TypeOK
<1>3. WaitingIsUnbound'
  BY <1>2 DEF WaitingIsUnbound, Active
<1> QED BY <1>1, <1>3

\* The sweep revives the row that holds a live id, or gives it a new row.
LEMMA OrphanIntents ==
    ASSUME Supervision, Intents, NEW o \in Orders, AdoptOrphan(o)
    PROVE  Intents' /\ Moves
<1> USE DEF Supervision, Intents
<1>1. /\ UNCHANGED <<age, order, origin, net, drow, dpc>> /\ wpc' = "orphans"
  BY Zenon DEF AdoptOrphan, exchVars, depVars, WorkerAt
<1>2. ListsCover'
  BY <1>1 DEF ListsCover
<1>3. CASE Resurrectable(o) # {}
  <2>1. /\ bu' = bu
        /\ status' = [r \in Rows |-> IF r \in Resurrectable(o) THEN "RUNNING" ELSE status[r]]
    BY <1>3 DEF AdoptOrphan
  <2>2. \A r \in Resurrectable(o) : status[r] \notin StopStatuses /\ bu[r] # NoOrder
    BY ConstantsAssumption DEF Resurrectable, Owner, ManagedStatuses, StopStatuses
  <2> QED BY <1>1, <1>2, <2>1, <2>2, BoundIntents DEF Moves, Move, Active, TypeOK, ActiveStatuses
<1>4. CASE Resurrectable(o) = {} /\ Owner(o) = {}
  <2>1. PICK r \in Rows : /\ status[r] = "ABSENT"
                          /\ status' = [status EXCEPT ![r] = "RUNNING"]
                          /\ bu' = [bu EXCEPT ![r] = o]
    BY <1>4 DEF AdoptOrphan
  <2>2. bu[r] = NoOrder /\ r \notin net /\ Landed(r) = {} /\ \A d \in Deployers : drow[d] # r
    BY <2>1 DEF IntentUnbound, IntentIsFresh
  <2>3. Moves
    BY <2>1, <2>2, ConstantsAssumption DEF Moves, Move, TypeOK, ActiveStatuses, StopStatuses
  <2>4. /\ \A q \in Rows : status'[q] = "ABSENT" => status[q] = "ABSENT"
        /\ \A q \in Rows : \/ bu'[q] = bu[q] /\ (Active(q) => status'[q] \in ActiveStatuses)
                           \/ \A d \in Deployers : drow[d] # q
    BY <2>1, <2>2 DEF TypeOK, Active
  <2> QED BY <1>1, <1>2, <2>3, <2>4, BoundIntents
<1>5. CASE UNCHANGED <<status, bu>>
  BY <1>1, <1>2, <1>5, BoundIntents, StillMoves DEF Active
<1> QED BY <1>3, <1>4, <1>5 DEF AdoptOrphan

\* The lists are read for rows whose request is behind them, so that complete
\* lists show the grid of each, wherever it is between running and finished.
LEMMA ListIntents ==
    ASSUME Supervision, Intents, AdoptSelect \/ AdoptListFinished
    PROVE  Intents' /\ Moves
<1> USE DEF Supervision, Intents
<1>1. UNCHANGED <<status, bu, age, order, origin, net, drow, dpc>>
  BY Zenon DEF AdoptSelect, AdoptListFinished, PassVars, rowVars, exchVars, depVars
<1>2. Moves /\ IntentIsFresh' /\ AgedIsSettled' /\ OneLanding' /\ WaitingIsUnbound'
  BY <1>1, StillMoves, BoundIntents DEF Active
<1>3. CASE AdoptSelect
  <2>1. wsnap' = AdoptSnapshot
    BY <1>3, Zenon DEF AdoptSelect
  <2>2. \/ wpc' = "manage_list"
        \/ wpc' = "list_finished" /\ wseen' = {o \in Orders : Live(o)}
        \/ wpc' = "list_finished" /\ wcomplete' = FALSE
    BY <1>3, Zenon DEF AdoptSelect
  <2>3. \A r \in Rows : AdoptSnapshot[r] # "NONE" => age[r] # 0
    BY DEF AdoptSnapshot, TypeOK
  <2>4. \A o \in Orders : origin[o] \in Rows => Live(o) \/ order[o] = "finished"
    BY DEF IdsAreReal, Live, TypeOK, OrderStatuses
  <2>5. ASSUME wpc' = "list_finished", NEW r \in Rows, wsnap'[r] # "NONE"
        PROVE  /\ age'[r] # 0
               /\ wcomplete' => \A o \in Landed(r)' :
                    o \in wseen' \/ (wpc' = "list_finished" /\ order'[o] = "finished")
    <3>1. age'[r] # 0
      BY <1>1, <2>1, <2>3, <2>5
    <3>2. ASSUME wcomplete', NEW o \in Orders, origin[o] = r
          PROVE  o \in wseen' \/ order[o] = "finished"
      <4>1. wseen' = {p \in Orders : Live(p)}
        BY <2>2, <2>5, <3>2, Zenon
      <4> QED BY <2>4, <3>2, <4>1
    <3> QED BY <1>1, <2>5, <3>1, <3>2, Zenon DEF Landed
  <2> QED BY <1>2, <2>2, <2>5, Zenon DEF ListsCover
<1>4. CASE AdoptListFinished
  <2>1. /\ wpc = "list_finished" /\ wpc' = "resolve" /\ wsnap' = wsnap
        /\ \/ wseen' = wseen \cup {o \in Orders : order[o] = "finished"} /\ wcomplete' = wcomplete
           \/ wcomplete' = FALSE
    BY <1>4, Zenon DEF AdoptListFinished, WorkerAt
  <2>2. ASSUME NEW r \in Rows, wsnap'[r] # "NONE"
        PROVE  /\ age'[r] # 0
               /\ wcomplete' => \A o \in Landed(r)' :
                    o \in wseen' \/ (wpc' = "list_finished" /\ order'[o] = "finished")
    <3>1. age[r] # 0
      BY <2>1, <2>2 DEF ListsCover
    <3>2. ASSUME wcomplete', NEW o \in Orders, origin[o] = r PROVE o \in wseen'
      <4>1. wcomplete /\ wseen' = wseen \cup {p \in Orders : order[p] = "finished"}
        BY <2>1, <3>2, Zenon
      <4>2. o \in wseen \/ order[o] = "finished"
        BY <2>1, <2>2, <3>2, <4>1, Zenon DEF ListsCover, Landed
      <4> QED BY <4>1, <4>2
    <3> QED BY <1>1, <3>1, <3>2, Zenon DEF Landed
  <2> QED BY <1>2, <2>2, Zenon DEF ListsCover
<1> QED BY <1>3, <1>4

\* Adoption binds a row to a grid that is its own if its own exists; a row is
\* cleared when complete lists show no grid of its.
LEMMA ResolveIntents ==
    ASSUME Supervision, Intents, NEW r \in Rows, ResolveSubmission(r)
    PROVE  Intents' /\ Moves
<1> USE DEF Supervision, Intents
<1>1. /\ UNCHANGED <<age, order, origin, net, drow, dpc, wseen, wcomplete>>
      /\ wpc = "resolve" /\ wpc' = "resolve"
      /\ wsnap[r] # "NONE" /\ wsnap' = [wsnap EXCEPT ![r] = "NONE"]
  BY Zenon DEF ResolveSubmission, exchVars, depVars, WorkerAt
<1>2. age[r] # 0 /\ (wcomplete => Landed(r) \subseteq wseen)
  BY <1>1 DEF ListsCover
<1>3. r \notin net /\ \A d \in Deployers : drow[d] # r
  BY <1>2 DEF AgedIsSettled
<1>4. wcomplete => Landed(r) \subseteq Matches(r)
  BY <1>2 DEF Matches, Landed
<1>5. ListsCover'
  <2>1. \A q \in Rows : wsnap'[q] # "NONE" => wsnap[q] # "NONE"
    BY <1>1 DEF TypeOK
  <2> QED BY <1>1, <2>1, Zenon DEF ListsCover, Landed
<1>6. CASE UNCHANGED <<status, bu>>
  BY <1>1, <1>5, <1>6, BoundIntents, StillMoves DEF Active
<1>7. ASSUME NEW o \in Orders, Matches(r) = {o}, Unbound(r),
             bu' = [bu EXCEPT ![r] = o],
             status' = [status EXCEPT ![r] = AdoptedStatus(r)]
      PROVE  Intents' /\ Moves
  <2>1. bu[r] = NoOrder /\ AdoptedStatus(r) \in {"STOP_REQUESTED", "RUNNING"}
    BY <1>7 DEF Unbound, AdoptedStatus
  <2>2. Landed(r) \subseteq {o} \/ o \in lookalike[r]
    <3>1. o \in lookalike[r] \/ (origin[o] = r /\ r \in Rows)
      BY <1>7 DEF Matches
    <3> QED BY <1>7, <3>1 DEF OneLanding, Landed
  <2>3. Moves
    BY <1>3, <1>7, <2>1, <2>2, ConstantsAssumption
       DEF Moves, Move, TypeOK, ActiveStatuses, StopStatuses
  <2>4. /\ \A q \in Rows : status'[q] = "ABSENT" => status[q] = "ABSENT"
        /\ \A q \in Rows : \/ bu'[q] = bu[q] /\ (Active(q) => status'[q] \in ActiveStatuses)
                           \/ \A d \in Deployers : drow[d] # q
    BY <1>3, <1>7, <2>1 DEF TypeOK, Active
  <2> QED BY <1>1, <1>5, <2>3, <2>4, BoundIntents
<1>8. ASSUME Matches(r) = {}, wcomplete, Unbound(r), UNCHANGED bu,
             status' = [status EXCEPT ![r] = "FAILED"]
      PROVE  Intents' /\ Moves
  <2>1. bu[r] = NoOrder /\ Landed(r) = {} /\ status[r] # "ABSENT"
    BY <1>4, <1>8 DEF Unbound, AdoptableStatuses
  <2>2. Moves
    BY <1>3, <1>8, <2>1 DEF Moves, Move, TypeOK
  <2>3. /\ \A q \in Rows : status'[q] = "ABSENT" => status[q] = "ABSENT"
        /\ \A q \in Rows : \/ bu'[q] = bu[q] /\ (Active(q) => status'[q] \in ActiveStatuses)
                           \/ \A d \in Deployers : drow[d] # q
    BY <1>3, <1>8 DEF TypeOK, Active
  <2> QED BY <1>1, <1>5, <1>8, <2>2, <2>3, BoundIntents
<1>9. CASE \E m \in Matches(r) : Matches(r) = {m}
  <2> DEFINE o == CHOOSE m \in Matches(r) : TRUE
  <2>1. o \in Orders /\ Matches(r) = {o}
    BY <1>9, MatchIsAnOrder
  <2>2. IF Unbound(r) /\ MayHold(r, o)
        THEN /\ bu' = [bu EXCEPT ![r] = o]
             /\ status' = [status EXCEPT ![r] = AdoptedStatus(r)]
        ELSE UNCHANGED <<bu, status>>
    BY <1>9 DEF ResolveSubmission
  <2> HIDE DEF o
  <2> QED BY <1>6, <1>7, <2>1, <2>2
<1>10. CASE ~ \E m \in Matches(r) : Matches(r) = {m}
  <2>1. \/ UNCHANGED <<bu, status>>
        \/ /\ Matches(r) = {} /\ AbsenceProved(r) /\ Unbound(r) /\ UNCHANGED bu
           /\ status' = [status EXCEPT ![r] = "FAILED"]
    BY <1>10 DEF ResolveSubmission
  <2> QED BY <1>6, <1>8, <2>1, Zenon DEF AbsenceProved
<1> QED BY <1>9, <1>10

\* Every step keeps the intents, and moves a row only on such evidence.
LEMMA StepIntents ==
    ASSUME Supervision, Intents, [Next]_vars
    PROVE  Intents' /\ Moves
<1>1. CASE UNCHANGED vars
  <2>1. Quiet /\ Moves
    <3>1. UNCHANGED <<status, bu, age, order, origin, net, drow, dpc, rsym, wpc, wsnap, wseen,
                      wcomplete>>
      BY <1>1, Zenon DEF vars, rowVars, exchVars, depVars, workVars
    <3> QED BY <3>1, StillMoves, OrdersStill, Zenon DEF Quiet
  <2> QED BY <2>1, QuietIntents
<1>2. ASSUME NEW d \in Deployers, DeployerStep(d) \/ ManualDeploy(d) PROVE Intents' /\ Moves
  <2>1. CASE PassGate(d) \/ PassEnd(d) \/ ManualDeploy(d) \/ \E s \in Symbols : CreateAdmit(d, s)
    BY <2>1, DeployerQuiet, QuietIntents DEF Supervision
  <2>2. ASSUME NEW r \in Rows, CreateSubmit(d, r) PROVE Intents' /\ Moves
    BY <2>2, SubmitIntents
  <2> QED BY <1>2, <2>1, <2>2, CreateIntents, Zenon DEF DeployerStep
<1>3. CASE CommandStep \/ CommandRest
  BY <1>3, CommandQuiet, QuietIntents
<1>4. CASE ConsoleStep
  BY <1>4, ConsoleQuiet, QuietIntents
<1>5. CASE ReconcileStep
  <2>1. ASSUME NEW o \in Orders, AdoptOrphan(o) PROVE Intents' /\ Moves
    BY <2>1, OrphanIntents
  <2>2. CASE AdoptSelect \/ AdoptListFinished
    BY <2>2, ListIntents
  <2>3. ASSUME NEW r \in Rows, ResolveSubmission(r) PROVE Intents' /\ Moves
    BY <2>3, ResolveIntents
  <2> QED BY <1>5, <2>1, <2>2, <2>3, PassQuiet, QuietIntents, Zenon DEF ReconcileStep
<1>6. ASSUME NEW r \in Rows, CancelAnswer(r) PROVE Intents' /\ Moves
  BY <1>6, CancelQuiet, QuietIntents
<1>7. ASSUME NEW r \in Rows, Land(r) \/ Drop(r) \/ Grow(r) PROVE Intents' /\ Moves
  BY <1>7, ExchangeIntents
<1>8. CASE \/ \E r \in Rows : RequestBotClose(r) \/ GridStop(r)
           \/ \E o \in Orders : OrderFinish(o)
           \/ SweepFallsDue \/ ReleaseKillSwitch
  BY <1>8, EnvironmentQuiet, QuietIntents
<1>9. CASE Crash
  BY <1>9, CrashIntents
<1> QED BY <1>1, <1>2, <1>3, <1>4, <1>5, <1>6, <1>7, <1>8, <1>9, Zenon DEF Next, WorkerStep

\* Nothing is known of the empty books.
LEMMA InitIntents == Init => Intents
<1> SUFFICES ASSUME Init PROVE Intents
  OBVIOUS
<1>1. IntentIsFresh /\ AgedIsSettled
  BY ConstantsAssumption DEF Init, IntentIsFresh, AgedIsSettled, Landed
<1>2. OneLanding /\ ListsCover
  BY ConstantsAssumption DEF Init, OneLanding, ListsCover, Landed
<1>3. WaitingIsUnbound
  BY DEF Init, WaitingIsUnbound
<1> QED BY <1>1, <1>2, <1>3 DEF Intents

-----------------------------------------------------------------------------
(* The theorems about one row.                                             *)

\* What is known of the intents is known in every reachable state.
THEOREM IntentsHold == Spec => [](Supervision /\ Intents)
<1>1. Supervision /\ Intents /\ [Next]_vars => Intents'
  BY StepIntents
<1> QED BY <1>1, InitIntents, SupervisionHolds, PTL DEF Spec

\* No step of any actor, under any fault, undoes a stop under way on a row that
\* has a remote id before the row is terminal: the write-backs of a status read
\* earlier keep it.
THEOREM BoundStopsDurable == Spec => BoundStopIsDurable
<1>1. Supervision /\ Intents /\ [Next]_vars =>
        [\A r \in Rows : status[r] \in StopStatuses /\ bu[r] # NoOrder
            => status'[r] \in StopStatuses \cup {"STOPPED"}]_vars
  <2> SUFFICES ASSUME Supervision, Intents, [Next]_vars
               PROVE  \A r \in Rows : status[r] \in StopStatuses /\ bu[r] # NoOrder
                          => status'[r] \in StopStatuses \cup {"STOPPED"}
    OBVIOUS
  <2> QED BY StepIntents DEF Moves, Move
<1> QED BY <1>1, IntentsHold, PTL DEF Spec, BoundStopIsDurable

-----------------------------------------------------------------------------
(* Requests and grids.                                                     *)

\* What every step but a submission does to them: a grid is new only when its
\* request was under way; only the row that an orphan gets takes its symbol.
Traffic ==
    /\ net' \subseteq net /\ lookalike' = lookalike
    /\ \A o \in Orders : \/ order'[o] = order[o] /\ origin'[o] = origin[o]
                         \/ /\ Live(o) /\ order'[o] \in {"closing", "finished"}
                            /\ origin'[o] = origin[o]
                         \/ order[o] = "none" /\ origin'[o] \in net
    /\ \A r \in Rows : rsym'[r] # rsym[r] => status[r] = "ABSENT" /\ bu'[r] # NoOrder

LEMMA QuietTraffic == ASSUME Quiet, lookalike' = lookalike PROVE Traffic
BY DEF Quiet, OrdersEnd, Traffic

LEMMA StepTraffic ==
    ASSUME Supervision, [Next]_vars
    PROVE  Traffic \/ \E d \in Deployers, r \in Rows : CreateSubmit(d, r)
<1> USE DEF Supervision
<1>1. ASSUME UNCHANGED <<net, lookalike, order, origin, rsym>> PROVE Traffic
  BY <1>1 DEF Traffic
<1>2. CASE CommandStep \/ CommandRest
  <2>1. lookalike' = lookalike
    BY <1>2, Zenon DEF CommandStep, CommandRest, StartFleet, StartRefused, ScheduledScan,
       StopFleet, EmergencyStop, SetStatus, CloseAllActiveBots, EmergencyMark, EmergencyList,
       EmergencyListDone, EmergencyCancel, EmergencySkipped, SubmitCancel, OnlyStatusChanges,
       rowVars
  <2> QED BY <1>2, <2>1, CommandQuiet, QuietTraffic
<1>3. CASE ConsoleStep
  <2>1. lookalike' = lookalike
    BY <1>3, Zenon DEF ConsoleStep, ConsoleRest, DirectStart, DirectStop, DirectEmergencyStop,
       ConsoleSetStatus, ConsoleCloseAll, OnlyStatusChanges, rowVars
  <2> QED BY <1>3, <2>1, ConsoleQuiet, QuietTraffic
<1>4. ASSUME NEW r \in Rows, CancelAnswer(r) PROVE Traffic
  <2>1. lookalike' = lookalike
    BY <1>4, Zenon DEF CancelAnswer, CancelAccepted, CancelGone, CancelRefused, CancelReturns,
       SubmitCancel, CancelOutcomeUnknown, CancelFailed, CancelUnanswered
  <2> QED BY <1>4, <2>1, CancelQuiet, QuietTraffic
<1>5. ASSUME NEW d \in Deployers, DeployerStep(d) \/ ManualDeploy(d),
             \A r \in Rows : ~CreateSubmit(d, r)
      PROVE  Traffic
  <2>1. UNCHANGED <<net, lookalike, order, origin, rsym>>
    BY <1>5, Zenon DEF DeployerStep, ManualDeploy, PassGate, PassEnd, CreateAdmit,
       CreatePersist, CreateOutcomeUnknown, CreateRefused, CreateGarbled, CreateAborted,
       CreateError, BackToPass, rowVars, exchVars
  <2> QED BY <1>1, <2>1
<1>6. ASSUME NEW r \in Rows, Land(r) PROVE Traffic
  <2>1. PICK o \in Orders : /\ order[o] = "none"
                            /\ order' = [order EXCEPT ![o] = "running"]
                            /\ origin' = [origin EXCEPT ![o] = r]
    BY <1>6 DEF Land
  <2>2. r \in net /\ net' = net \ {r} /\ UNCHANGED <<lookalike, rsym>>
    BY <1>6, Zenon DEF Land, rowVars
  <2> QED BY <2>1, <2>2 DEF Traffic, TypeOK
<1>7. ASSUME NEW r \in Rows, Drop(r) \/ Grow(r) PROVE Traffic
  <2>1. net' \subseteq net /\ UNCHANGED <<lookalike, order, origin, rsym>>
    BY <1>7, Zenon DEF Drop, Grow, rowVars, exchVars
  <2> QED BY <2>1 DEF Traffic
<1>8. CASE \/ \E r \in Rows : RequestBotClose(r) \/ GridStop(r)
           \/ \E o \in Orders : OrderFinish(o)
           \/ SweepFallsDue \/ ReleaseKillSwitch
  <2>1. lookalike' = lookalike
    BY <1>8, Zenon DEF RequestBotClose, GridStop, RecordStop, OrderFinish, SweepFallsDue,
       ReleaseKillSwitch, rowVars
  <2> QED BY <1>8, <2>1, EnvironmentQuiet, QuietTraffic
<1>9. ASSUME NEW o \in Orders, AdoptOrphan(o) PROVE Traffic
  <2>1. UNCHANGED <<net, lookalike, order, origin>>
    BY <1>9, Zenon DEF AdoptOrphan, exchVars
  <2>2. \/ rsym' = rsym
        \/ \E r \in Rows : /\ status[r] = "ABSENT" /\ bu' = [bu EXCEPT ![r] = o]
                           /\ rsym' = [rsym EXCEPT ![r] = SymbolOf(o)]
    BY <1>9, Zenon DEF AdoptOrphan
  <2> QED BY <2>1, <2>2, ConstantsAssumption DEF Traffic, TypeOK
<1>10. CASE AdoptSelect \/ AdoptListFinished \/ Crash
  <2>1. UNCHANGED <<net, lookalike, order, origin, rsym>>
    BY <1>10, Zenon DEF AdoptSelect, AdoptListFinished, Crash, PassVars, rowVars, exchVars
  <2> QED BY <1>1, <2>1
<1>11. ASSUME NEW r \in Rows, ResolveSubmission(r) PROVE Traffic
  <2>1. UNCHANGED <<net, lookalike, order, origin, rsym>>
    BY <1>11, Zenon DEF ResolveSubmission, exchVars
  <2> QED BY <1>1, <2>1
<1>12. CASE \/ SweepSkipped \/ SweepLists \/ SweepDone \/ AdoptDone \/ ManageList \/ ManageDone
            \/ \E o \in Orders : AlertOrphan(o) \/ OrphanFails(o)
            \/ \E r \in Rows : \/ ManageRow(r) \/ ClientUnresolved(r) \/ ReadFailed(r)
                               \/ ReadTerminal(r) \/ ReadLive(r) \/ DecideHold(r)
                               \/ DecideClose(r)
  <2>1. lookalike' = lookalike
    BY <1>12, Zenon DEF SweepSkipped, SweepLists, SweepDone, AdoptDone, ManageList, ManageDone,
       AlertOrphan, OrphanFails,
       ManageRow, ClientUnresolved, ReadFailed, ReadTerminal, ReadLive, DecideHold, DecideClose,
       SubmitCancel, ReadKeeps, PassVars, rowVars
  <2> QED BY <1>12, <2>1, PassQuiet, QuietTraffic
<1>13. CASE UNCHANGED vars
  BY <1>1, <1>13, Zenon DEF vars, rowVars, exchVars
<1>14. CASE ReconcileStep
  BY <1>9, <1>10, <1>11, <1>12, <1>14, Zenon DEF ReconcileStep
<1>15. CASE \E d \in Deployers : DeployerStep(d) \/ ManualDeploy(d)
  BY <1>5, <1>15, Zenon
<1> QED BY <1>2, <1>3, <1>4, <1>6, <1>7, <1>8, <1>10, <1>13, <1>14, <1>15, Zenon
        DEF Next, WorkerStep

\* A row whose request is behind it gets no new one, and no new grid.
LEMMA SettledStays ==
    ASSUME Supervision, [Next]_vars, NEW r \in Rows, r \notin net,
           status[r] # "ABSENT" \/ bu'[r] # NoOrder
    PROVE  r \notin net' /\ Landed(r)' \subseteq Landed(r)
<1>1. CASE Traffic
  BY <1>1 DEF Traffic, Landed
<1>2. ASSUME NEW d \in Deployers, NEW q \in Rows, CreateSubmit(d, q)
      PROVE  r \notin net' /\ Landed(r)' \subseteq Landed(r)
  <2>1. net' = net \cup {q} /\ status[q] = "ABSENT" /\ UNCHANGED <<bu, origin>>
    BY <1>2, Zenon DEF CreateSubmit
  <2>2. bu[q] = NoOrder
    BY <2>1 DEF Supervision, IntentUnbound
  <2> QED BY <2>1, <2>2 DEF Landed
<1> QED BY <1>1, <1>2, StepTraffic

\* A finished grid stays finished.
LEMMA FinishedStays ==
    ASSUME Supervision, [Next]_vars, NEW o \in Orders, order[o] = "finished"
    PROVE  order'[o] = "finished"
<1>1. CASE Traffic
  BY <1>1 DEF Traffic, Live
<1>2. ASSUME NEW d \in Deployers, NEW q \in Rows, CreateSubmit(d, q)
      PROVE  order' = order
  BY <1>2, Zenon DEF CreateSubmit
<1> QED BY <1>1, <1>2, StepTraffic

-----------------------------------------------------------------------------
(* The write-offs.                                                         *)

\* A row leaves supervision as STOPPED only when its grid has left the
\* exchange: no refused, failed or unanswered cancel and no outdated answer
\* writes it off. The one fault excluded is a detail read that answers 404 for
\* a live grid, which the code takes at its word.
THEOREM TerminalsAreFlat ==
    ASSUME "spurious_gone" \notin Faults
    PROVE  Spec => []TerminalMeansFlat
<1>1. Init => TerminalMeansFlat
  BY DEF Init, TerminalMeansFlat
<1>2. Supervision /\ Intents /\ TerminalMeansFlat /\ [Next]_vars => TerminalMeansFlat'
  <2> SUFFICES ASSUME Supervision, Intents, TerminalMeansFlat, [Next]_vars,
                      NEW r \in Rows, NEW o \in Orders, status'[r] = "STOPPED", bu'[r] = o
               PROVE  order'[o] = "finished"
    BY DEF TerminalMeansFlat
  <2>1. Move(r)
    BY StepIntents DEF Moves
  <2>2. bu[r] = o
    BY <2>1 DEF Move, ActiveStatuses
  <2>3. order[o] = "finished"
    BY <2>1, <2>2 DEF Move, TerminalMeansFlat, ActiveStatuses
  <2> QED BY <2>3, FinishedStays
<1> QED BY <1>1, <1>2, IntentsHold, PTL DEF Spec

\* Complete lists, or a refusal, are what writes an intent off.
LEMMA FailedStep ==
    ASSUME "garbled_create" \notin Faults, Supervision, Intents, FailedWasNeverCreated,
           [Next]_vars
    PROVE  FailedWasNeverCreated'
<1> SUFFICES ASSUME NEW r \in Rows, status'[r] = "FAILED"
             PROVE  r \notin net' /\ Landed(r)' = {}
  BY DEF FailedWasNeverCreated, Landed
<1>1. Move(r)
  BY StepIntents DEF Moves
<1>2. r \notin net /\ Landed(r) = {}
  BY <1>1 DEF Move, FailedWasNeverCreated, ActiveStatuses
<1>3. status[r] # "ABSENT"
  <2>1. CASE status'[r] = status[r]
    BY <2>1
  <2>2. CASE status'[r] # status[r]
    BY <1>1, <2>2 DEF Move, ActiveStatuses
  <2> QED BY <2>1, <2>2
<1> QED BY <1>2, <1>3, SettledStays

\* An intent is written off as FAILED only when its grid was never created and
\* its request can no longer create it. The one fault excluded is a 2xx answer
\* that does not decode: with it the claim is false, as the run
\* lifecycle_undecodable_create shows.
THEOREM FailuresWereNeverCreated ==
    ASSUME "garbled_create" \notin Faults
    PROVE  Spec => []FailedWasNeverCreated
<1>1. Init => FailedWasNeverCreated
  BY DEF Init, FailedWasNeverCreated
<1>2. Supervision /\ Intents /\ FailedWasNeverCreated /\ [Next]_vars => FailedWasNeverCreated'
  BY FailedStep
<1> QED BY <1>1, <1>2, IntentsHold, PTL DEF Spec

-----------------------------------------------------------------------------
(* One grid per symbol. A row is busy while its request or its grid is     *)
(* about.                                                                  *)

Busy(r) == r \in net \/ \E o \in Landed(r) : Live(o)

\* A bound row's own grid, if it has one, is the one it holds.
OwnOrder == \A r \in Rows : bu[r] # NoOrder => r \notin net /\ Landed(r) \subseteq {bu[r]}

\* The duplicate guard, which looks at rows, sees every grid.
BusyIsActive == \A r \in Rows : Busy(r) => Active(r)

\* One create of the account is past the guard, and it finds what the guard saw.
AdmittedAlone ==
    \A d \in Deployers : dpc[d] = "admitting" =>
        /\ \A e \in Deployers : dpc[e] = "admitting" => e = d
        /\ \A q \in Rows : rsym[q] = dsym[d] => ~Busy(q) /\ ~(Active(q) /\ bu[q] = NoOrder)

OneBusy == \A r, q \in Rows : Busy(r) /\ Busy(q) /\ rsym[r] = rsym[q] => r = q

\* An older grid that adoption could take for the row's own belongs to a row.
LookalikesAreOwned == \A r \in Rows : \A o \in lookalike[r] : Owner(o) # {}

StoppedIsBound == \A r \in Rows : status[r] = "STOPPED" => bu[r] # NoOrder

Alone ==
    /\ OwnOrder /\ BusyIsActive /\ AdmittedAlone /\ OneBusy
    /\ LookalikesAreOwned /\ StoppedIsBound /\ FailedWasNeverCreated

\* Only the guard lets a create through.
LEMMA StepAdmits ==
    ASSUME TypeOK, [Next]_vars, NEW d \in Deployers, dpc'[d] = "admitting"
    PROVE  \/ dpc[d] = "admitting" /\ dsym'[d] = dsym[d]
           \/ \E s \in Symbols : CreateAdmit(d, s)
<1>1. ASSUME UNCHANGED dsym, \/ UNCHANGED dpc
                             \/ \E e \in Deployers : \E here \in DeployerStates \ {"admitting"} :
                                   dpc' = [dpc EXCEPT ![e] = here]
                             \/ dpc' = [e \in Deployers |-> "idle"]
      PROVE  dpc[d] = "admitting" /\ dsym'[d] = dsym[d]
  BY <1>1 DEF TypeOK, DeployerStates
<1>2. ASSUME NEW e \in Deployers, NEW s \in Symbols, CreateAdmit(e, s)
      PROVE  \/ dpc[d] = "admitting" /\ dsym'[d] = dsym[d]
             \/ \E t \in Symbols : CreateAdmit(d, t)
  <2>1. CASE e # d
    BY <1>2, <2>1 DEF CreateAdmit, TypeOK
  <2> QED BY <1>2, <2>1
<1>3. ASSUME NEW e \in Deployers, DeployerStep(e) \/ ManualDeploy(e),
             \A s \in Symbols : ~CreateAdmit(e, s)
      PROVE  dpc[d] = "admitting" /\ dsym'[d] = dsym[d]
  <2>1. UNCHANGED dsym
    BY <1>3, Zenon DEF DeployerStep, ManualDeploy, PassGate, PassEnd, CreateSubmit,
       CreatePersist, CreateOutcomeUnknown, CreateRefused, CreateGarbled, CreateAborted,
       CreateError, BackToPass
  <2>2. \E here \in {"idle", "deploying", "waiting"} : dpc' = [dpc EXCEPT ![e] = here]
    <3>1. \/ dpc' = [dpc EXCEPT ![e] = "idle"] \/ dpc' = [dpc EXCEPT ![e] = "deploying"]
          \/ dpc' = [dpc EXCEPT ![e] = "waiting"]
      BY <1>3 DEF DeployerStep, ManualDeploy, PassGate, PassEnd, CreateSubmit,
         CreatePersist, CreateOutcomeUnknown, CreateRefused, CreateGarbled, CreateAborted,
         CreateError, BackToPass
    <3> QED BY <3>1
  <2> QED BY <1>1, <2>1, <2>2 DEF DeployerStates
<1>4. CASE CommandStep \/ ConsoleStep
  <2>1. /\ UNCHANGED dsym
        /\ UNCHANGED dpc \/ \E e \in Deployers : dpc' = [dpc EXCEPT ![e] = "scanning"]
    BY <1>4, Zenon DEF CommandStep, StartFleet, StartRefused, ScheduledScan, StopFleet,
       EmergencyStop, ConsoleStep, ConsoleRest, DirectStart, DirectStop, DirectEmergencyStop,
       ConsoleSetStatus, ConsoleCloseAll, OnlyStatusChanges, depVars
  <2> QED BY <1>1, <2>1 DEF DeployerStates
<1>5. CASE CommandRest \/ \E r \in Rows : CancelAnswer(r)
  <2>1. UNCHANGED <<dpc, dsym>>
    BY <1>5, Zenon DEF CommandRest, SetStatus, CloseAllActiveBots, EmergencyMark,
       EmergencyList, EmergencyListDone, EmergencyCancel, EmergencySkipped, SubmitCancel,
       OnlyStatusChanges, depVars, CancelAnswer, CancelAccepted, CancelGone, CancelRefused,
       CancelReturns, CancelOutcomeUnknown, CancelFailed, CancelUnanswered
  <2> QED BY <1>1, <2>1
<1>6. CASE ReconcileStep
  <2>1. UNCHANGED <<dpc, dsym>>
    BY <1>6, Zenon DEF ReconcileStep, SweepSkipped, SweepLists, SweepDone, AdoptOrphan,
       AlertOrphan, OrphanFails, AdoptSelect, AdoptListFinished, AdoptDone, ManageList, ManageDone, ResolveSubmission,
       ManageRow, ClientUnresolved, ReadFailed, ReadTerminal, ReadLive, DecideHold, DecideClose,
       SubmitCancel, ReadKeeps, PassVars, depVars
  <2> QED BY <1>1, <2>1
<1>7. CASE \/ \E r \in Rows : Land(r) \/ Drop(r) \/ Grow(r) \/ RequestBotClose(r) \/ GridStop(r)
           \/ \E o \in Orders : OrderFinish(o)
           \/ SweepFallsDue \/ ReleaseKillSwitch
  <2>1. UNCHANGED <<dpc, dsym>>
    BY <1>7, Zenon DEF Land, Drop, Grow, RequestBotClose, GridStop, RecordStop, OrderFinish,
       SweepFallsDue, ReleaseKillSwitch, depVars
  <2> QED BY <1>1, <2>1
<1>8. CASE Crash \/ UNCHANGED vars
  <2>1. UNCHANGED dsym /\ (UNCHANGED dpc \/ dpc' = [e \in Deployers |-> "idle"])
    BY <1>8, Zenon DEF Crash, vars, depVars
  <2> QED BY <1>1, <2>1
<1>9. CASE \E e \in Deployers : DeployerStep(e) \/ ManualDeploy(e)
  BY <1>2, <1>3, <1>9, Zenon
<1> QED BY <1>4, <1>5, <1>6, <1>7, <1>8, <1>9, Zenon DEF Next, WorkerStep

\* No step but a submission makes a row busy, and a busy row keeps its symbol.
LEMMA TrafficBusy ==
    ASSUME Supervision, Intents, Traffic, NEW r \in Rows, Busy(r)'
    PROVE  Busy(r) /\ rsym'[r] = rsym[r]
<1>1. Busy(r)
  <2>1. CASE r \in net'
    BY <2>1 DEF Busy, Traffic
  <2>2. ASSUME NEW o \in Orders, origin'[o] = r, order'[o] \in {"running", "closing"}
        PROVE  Busy(r)
    <3>1. r \in net \/ (origin[o] = r /\ Live(o))
      BY <2>2 DEF Traffic, Live
    <3> QED BY <3>1 DEF Busy, Landed
  <2> QED BY <2>1, <2>2 DEF Busy, Landed, Live
<1>2. status[r] # "ABSENT"
  BY <1>1 DEF Busy, Intents, IntentIsFresh
<1> QED BY <1>1, <1>2 DEF Traffic

LEMMA AloneKept ==
    ASSUME "spurious_gone" \notin Faults, "garbled_create" \notin Faults,
           Supervision, Intents, Alone, [Next]_vars, Traffic
    PROVE  Alone'
<1> USE DEF Alone
<1>1. Moves /\ Bound /\ Supervision'
  BY StepIntents, StepSupervision
<1>2. OwnOrder'
  <2> SUFFICES ASSUME NEW r \in Rows, bu'[r] # NoOrder
               PROVE  r \notin net' /\ Landed(r)' \subseteq {bu'[r]}
    BY DEF OwnOrder
  <2>1. r \notin net /\ Landed(r) \subseteq {bu'[r]}
    <3>1. CASE bu'[r] = bu[r]
      BY <3>1 DEF OwnOrder
    <3>2. CASE bu'[r] # bu[r]
      <4>1. /\ bu[r] = NoOrder /\ r \notin net
            /\ Landed(r) \subseteq {bu'[r]} \/ bu'[r] \in lookalike[r]
        BY <1>1, <3>2 DEF Moves, Move
      <4>2. bu'[r] \notin lookalike[r]
        <5> SUFFICES ASSUME bu'[r] \in lookalike[r] PROVE FALSE
          OBVIOUS
        <5>1. PICK q \in Rows : bu[q] = bu'[r]
          BY DEF LookalikesAreOwned, Owner
        <5>2. bu'[q] = bu'[r]
          BY <1>1, <5>1 DEF Bound
        <5> QED BY <1>1, <4>1, <5>1, <5>2 DEF Supervision, RemoteIdExclusive
      <4> QED BY <4>1, <4>2
    <3> QED BY <3>1, <3>2
  <2> QED BY <2>1, SettledStays
<1>3. BusyIsActive'
  <2> SUFFICES ASSUME NEW r \in Rows, Busy(r)' PROVE status'[r] \in ActiveStatuses
    BY DEF BusyIsActive, Active
  <2>1. Busy(r) /\ status[r] \in ActiveStatuses
    BY TrafficBusy DEF BusyIsActive, Active
  <2>2. ~(bu[r] \in Orders /\ order[bu[r]] = "finished")
    BY <2>1, ConstantsAssumption DEF OwnOrder, Busy, Live
  <2>3. ~(r \notin net /\ Landed(r) = {})
    BY <2>1 DEF Busy
  <2> QED BY <1>1, <2>1, <2>2, <2>3 DEF Moves, Move
<1>4. AdmittedAlone'
  <2> SUFFICES ASSUME NEW d \in Deployers, dpc'[d] = "admitting"
               PROVE  /\ \A e \in Deployers : dpc'[e] = "admitting" => e = d
                      /\ \A q \in Rows : rsym'[q] = dsym'[d] =>
                            ~Busy(q)' /\ ~(status'[q] \in ActiveStatuses /\ bu'[q] = NoOrder)
    BY Zenon DEF AdmittedAlone, Active
  <2>1. CASE dpc[d] = "admitting" /\ dsym'[d] = dsym[d]
    <3>1. ASSUME NEW e \in Deployers, dpc'[e] = "admitting" PROVE e = d
      <4>1. \A s \in Symbols : ~CreateAdmit(e, s)
        BY <2>1 DEF CreateAdmit
      <4> QED BY <2>1, <3>1, <4>1, StepAdmits DEF AdmittedAlone, Supervision
    <3>2. ASSUME NEW q \in Rows, rsym'[q] = dsym'[d], Busy(q)' PROVE FALSE
      BY <2>1, <3>2, TrafficBusy DEF AdmittedAlone
    <3>3. ASSUME NEW q \in Rows, rsym'[q] = dsym'[d],
                 status'[q] \in ActiveStatuses, bu'[q] = NoOrder
          PROVE  FALSE
      <4>1. bu[q] = NoOrder /\ rsym'[q] = rsym[q]
        BY <1>1, <3>3 DEF Bound, Traffic
      <4>2. status[q] \in ActiveStatuses
        BY <1>1, <3>3 DEF Moves, Move, Traffic, ActiveStatuses
      <4> QED BY <2>1, <3>3, <4>1, <4>2 DEF AdmittedAlone, Active
    <3> QED BY <3>1, <3>2, <3>3
  <2>2. ASSUME NEW s \in Symbols, CreateAdmit(d, s)
        PROVE  /\ \A e \in Deployers : dpc'[e] = "admitting" => e = d
               /\ \A q \in Rows : rsym'[q] = dsym'[d] =>
                     ~Busy(q)' /\ ~(status'[q] \in ActiveStatuses /\ bu'[q] = NoOrder)
    <3>1. /\ \A e \in Deployers : dpc[e] # "admitting"
          /\ \A q \in Rows : rsym[q] = s => ~Active(q)
          /\ dpc' = [dpc EXCEPT ![d] = "admitting"] /\ dsym' = [dsym EXCEPT ![d] = s]
          /\ UNCHANGED <<status, rsym>>
      BY <2>2, Zenon DEF CreateAdmit, EntryAllowed, rowVars
    <3>2. dsym'[d] = s
      BY <3>1 DEF Supervision, TypeOK
    <3>3. \A e \in Deployers : dpc'[e] = "admitting" => e = d
      BY <3>1 DEF Supervision, TypeOK
    <3>4. ASSUME NEW q \in Rows, Busy(q)', rsym'[q] = s PROVE FALSE
      BY <3>1, <3>4, TrafficBusy DEF BusyIsActive
    <3> QED BY <3>1, <3>2, <3>3, <3>4 DEF Active
  <2> QED BY <2>1, <2>2, StepAdmits DEF Supervision
<1>5. OneBusy'
  <2> SUFFICES ASSUME NEW r \in Rows, NEW q \in Rows, Busy(r)', Busy(q)', rsym'[r] = rsym'[q]
               PROVE  r = q
    BY Zenon DEF OneBusy
  <2> QED BY TrafficBusy DEF OneBusy
<1>6. LookalikesAreOwned'
  <2> SUFFICES ASSUME NEW r \in Rows, NEW o \in lookalike[r] PROVE \E q \in Rows : bu'[q] = o
    BY DEF LookalikesAreOwned, Owner, Traffic
  <2>1. PICK q \in Rows : bu[q] = o
    BY DEF LookalikesAreOwned, Owner
  <2>2. o # NoOrder
    BY ConstantsAssumption DEF Supervision, TypeOK
  <2> QED BY <1>1, <2>1, <2>2 DEF Bound
<1>7. StoppedIsBound'
  BY <1>1, ConstantsAssumption DEF StoppedIsBound, Moves, Move, Bound, ActiveStatuses
<1>8. FailedWasNeverCreated'
  BY FailedStep
<1> QED BY <1>2, <1>3, <1>4, <1>5, <1>6, <1>7, <1>8

\* The submission of the one create past the guard.
LEMMA AloneSubmitted ==
    ASSUME Supervision, Intents, Alone,
           NEW d \in Deployers, NEW r \in Rows, CreateSubmit(d, r)
    PROVE  Alone'
<1> USE DEF Alone
<1>1. /\ dpc[d] = "admitting" /\ status[r] = "ABSENT"
      /\ status' = [status EXCEPT ![r] = "PENDING_SUBMISSION"]
      /\ rsym' = [rsym EXCEPT ![r] = dsym[d]]
      /\ net' = net \cup {r}
      /\ dpc' = [dpc EXCEPT ![d] = "waiting"]
      /\ UNCHANGED <<bu, order, origin>>
  BY Zenon DEF CreateSubmit
<1>2. bu[r] = NoOrder
  BY <1>1 DEF Supervision, IntentUnbound
<1>3. \A q \in Rows \ {r} :
         status'[q] = status[q] /\ rsym'[q] = rsym[q] /\ (Busy(q)' => Busy(q))
  BY <1>1 DEF Supervision, TypeOK, Busy, Landed, Live
<1>4. OwnOrder'
  BY <1>1, <1>2 DEF OwnOrder, Landed
<1>5. BusyIsActive'
  <2>1. status'[r] \in ActiveStatuses
    BY <1>1 DEF Supervision, TypeOK, ActiveStatuses
  <2> QED BY <1>3, <2>1, Zenon DEF BusyIsActive, Active
<1>6. AdmittedAlone'
  <2>1. \A e \in Deployers : dpc'[e] # "admitting"
    BY <1>1 DEF AdmittedAlone, Supervision, TypeOK
  <2> QED BY <2>1, Zenon DEF AdmittedAlone
<1>7. OneBusy'
  <2>1. \A q \in Rows \ {r} : Busy(q)' => rsym'[q] # rsym'[r]
    BY <1>1, <1>3 DEF AdmittedAlone, Supervision, TypeOK
  <2> SUFFICES ASSUME NEW p \in Rows, NEW q \in Rows, Busy(p)', Busy(q)', rsym'[p] = rsym'[q]
               PROVE  p = q
    BY Zenon DEF OneBusy
  <2> QED BY <1>3, <2>1 DEF OneBusy
<1>8. LookalikesAreOwned'
  <2>1. PICK near \in SUBSET {o \in Orders : order[o] # "none" /\ SymbolOf(o) = dsym[d]} :
          lookalike' = [lookalike EXCEPT ![r] = near]
    BY DEF CreateSubmit
  <2>2. ASSUME NEW o \in near PROVE Owner(o) # {}
    <3> DEFINE q == origin[o]
    <3>1. o \in Orders /\ q \in Rows /\ rsym[q] = dsym[d] /\ o \in Landed(q)
      BY <2>1, <2>2 DEF SymbolOf, Landed, Supervision, IdsAreReal
    <3>2. status[q] \notin {"ABSENT", "FAILED"}
      BY <3>1 DEF Intents, IntentIsFresh, FailedWasNeverCreated
    <3>3. bu[q] # NoOrder
      BY <1>1, <3>1, <3>2 DEF AdmittedAlone, StoppedIsBound, Active, Supervision, TypeOK,
         RowStatuses, TerminalStatuses
    <3> QED BY <3>1, <3>3 DEF OwnOrder, Owner
  <2> QED BY <1>1, <2>1, <2>2 DEF LookalikesAreOwned, Owner, Supervision, TypeOK
<1>9. StoppedIsBound' /\ FailedWasNeverCreated'
  BY <1>1 DEF StoppedIsBound, FailedWasNeverCreated, Landed, Supervision, TypeOK
<1> QED BY <1>4, <1>5, <1>6, <1>7, <1>8, <1>9

\* At no time do two submitted grids of one symbol live on the exchange, and no
\* request under way can add a second one: the account's entry gate is enough,
\* although it is held for the admission only and the guard reads rows, not the
\* exchange. Excluded are the two faults by which a row is written off while its
\* grid lives: a 404 for a live grid, and a 2xx answer that does not decode.
THEOREM OneGridPerSymbol ==
    ASSUME "spurious_gone" \notin Faults, "garbled_create" \notin Faults
    PROVE  Spec => []OneLiveGridPerSymbol
<1>1. Init => Alone
  <2> SUFFICES ASSUME Init PROVE Alone
    OBVIOUS
  <2>1. \A r \in Rows : ~Busy(r)
    BY ConstantsAssumption DEF Init, Busy, Landed, Live
  <2>2. OwnOrder /\ StoppedIsBound /\ FailedWasNeverCreated /\ LookalikesAreOwned
    BY DEF Init, OwnOrder, StoppedIsBound, FailedWasNeverCreated, LookalikesAreOwned
  <2>3. BusyIsActive /\ OneBusy
    BY <2>1 DEF BusyIsActive, OneBusy
  <2>4. AdmittedAlone
    BY DEF Init, AdmittedAlone
  <2> QED BY <2>2, <2>3, <2>4 DEF Alone
<1>2. Supervision /\ Intents /\ Alone /\ [Next]_vars => Alone'
  BY AloneKept, AloneSubmitted, StepTraffic
<1>3. Alone => OneLiveGridPerSymbol
  BY DEF Alone, OneBusy, Busy, OneLiveGridPerSymbol
<1> QED BY <1>1, <1>2, <1>3, IntentsHold, PTL DEF Spec

-----------------------------------------------------------------------------
(* GridLifecycle implements GridContract. One lemma per way the books move;*)
(* the evidence is Move's.                                                 *)

NextPhase(r)  == PhaseOf(r)'
NextMarket(o) == MarketOf(o)'

\* What the exchange has, and what the market shows of it, stays.
ExchangeStays ==
    /\ UNCHANGED <<net, origin>>
    /\ \A o \in Orders : NextMarket(o) = MarketOf(o)
OnlyRow(r) == \A q \in Rows \ {r} : status'[q] = status[q] /\ bu'[q] = bu[q]

\* The market shows the order alone.
LEMMA MarketStays == ASSUME UNCHANGED order PROVE \A o \in Orders : NextMarket(o) = MarketOf(o)
BY DEF NextMarket, MarketOf

\* A cancel that is applied does not show: the grid is open until it ends.
LEMMA MarketCloses ==
    ASSUME TypeOK, NEW o \in Orders, Live(o), order' = [order EXCEPT ![o] = "closing"]
    PROVE  \A p \in Orders : NextMarket(p) = MarketOf(p)
BY DEF NextMarket, MarketOf, Live, TypeOK

\* The other rows keep their phase.
LEMMA PhasesKeep ==
    ASSUME NEW r \in Rows, OnlyRow(r)
    PROVE  /\ \A q \in Rows \ {r} : NextPhase(q) = PhaseOf(q)
           /\ [q \in Rows |-> PhaseOf(q)]'
                 = [[q \in Rows |-> PhaseOf(q)] EXCEPT ![r] = NextPhase(r)]
<1>1. \A q \in Rows \ {r} : NextPhase(q) = PhaseOf(q)
  BY DEF OnlyRow, NextPhase, PhaseOf, Active
<1> QED BY <1>1 DEF NextPhase

\* Rows that are stopped together, or no row at all.
Stopped(r) ==
    \/ NextPhase(r) = PhaseOf(r)
    \/ PhaseOf(r) = "held" /\ NextPhase(r) = "stopping"

\* They are one step of the contract.
LEMMA StoppedTogether ==
    ASSUME UNCHANGED bu, ExchangeStays, \A r \in Rows : Stopped(r)
    PROVE  Contract!ContractNext
<1>1. \A r \in Rows : NextPhase(r) \in Contract!Phases /\ PhaseOf(r) \in Contract!Phases
  BY DEF NextPhase, PhaseOf, Contract!Phases
<1>2. [r \in Rows |-> PhaseOf(r)]' = [r \in Rows |-> NextPhase(r)]
  BY DEF NextPhase
<1>3. Contract!Stop
  BY <1>1, <1>2 DEF Contract!Stop, Stopped
<1>4. UNCHANGED <<net, origin>> /\ [o \in Orders |-> MarketOf(o)]' = [o \in Orders |-> MarketOf(o)]
  BY DEF ExchangeStays, NextMarket
<1>5. Contract!BookStep
  BY <1>3, <1>4 DEF Contract!BookStep
<1> QED BY <1>5 DEF Contract!ContractNext

\* A step that the contract does not see.
LEMMA NothingMoves ==
    ASSUME UNCHANGED <<status, bu>>, ExchangeStays
    PROVE  Contract!ContractNext
BY StoppedTogether DEF Stopped, NextPhase, PhaseOf, Active

\* One statement marks rows.
LEMMA MarkContract ==
    ASSUME TypeOK, UNCHANGED bu, ExchangeStays,
           \A r \in Rows : \/ status'[r] = status[r]
                           \/ status[r] \in FleetStopFrom /\ status'[r] = "STOP_REQUESTED"
    PROVE  Contract!ContractNext
<1>1. ASSUME NEW r \in Rows PROVE Stopped(r)
  BY DEF Stopped, NextPhase, PhaseOf, FleetStopFrom, StopStatuses, TerminalStatuses, Active,
     ActiveStatuses
<1> QED BY <1>1, StoppedTogether

\* One row moves on the evidence of Move: it takes a grid that nobody holds,
\* is settled, written off, stopped, or taken up again.
LEMMA OneRowMoves ==
    ASSUME "spurious_gone" \notin Faults, "garbled_create" \notin Faults,
           Supervision, Supervision', NEW r \in Rows, OnlyRow(r), ExchangeStays, Move(r),
           bu'[r] # bu[r] => status[r] \notin TerminalStatuses
    PROVE  Contract!ContractNext
<1> DEFINE books == [q \in Rows |-> PhaseOf(q)]
<1>1. /\ UNCHANGED <<net, origin>>
      /\ [o \in Orders |-> MarketOf(o)]' = [o \in Orders |-> MarketOf(o)]
  BY DEF ExchangeStays, NextMarket
<1>2. /\ books' = [books EXCEPT ![r] = NextPhase(r)] /\ books[r] = PhaseOf(r)
      /\ \A q \in Rows \ {r} : NextPhase(q) = PhaseOf(q)
  BY PhasesKeep
<1>3. /\ status[r] \in RowStatuses
      /\ bu \in [Rows -> Orders \cup {NoOrder}] /\ bu' \in [Rows -> Orders \cup {NoOrder}]
  BY DEF Supervision, TypeOK
<1>4. CASE bu'[r] # bu[r]
  <2>1. bu[r] = NoOrder /\ bu'[r] \in Orders /\ status'[r] \in ActiveStatuses /\ r \notin net
    BY <1>4 DEF Move
  <2>2. PICK o \in Orders : bu'[r] = o
    BY <2>1
  <2>3. PhaseOf(r) \in {"none", "waiting"}
    BY <1>3, <1>4, <2>1 DEF PhaseOf, Active, RowStatuses
  <2>4. NextPhase(r) \in {"held", "stopping"}
    BY <2>1, ConstantsAssumption
       DEF NextPhase, PhaseOf, ActiveStatuses, TerminalStatuses, StopStatuses
  <2>5. [p \in Orders |-> MarketOf(p)][o] # "unborn"
    <3>1. order'[o] # "none"
      BY <2>1, <2>2, ConstantsAssumption DEF Supervision, IdsAreReal
    <3>2. NextMarket(o) # "unborn"
      BY <3>1 DEF NextMarket, MarketOf
    <3> QED BY <3>2 DEF ExchangeStays
  <2>6. \A q \in Rows : bu[q] # o
    <3>1. \A q \in Rows \ {r} : bu'[q] # o
      BY <2>1, <2>2, ConstantsAssumption DEF Supervision, RemoteIdExclusive
    <3> QED BY <1>4, <2>2, <3>1 DEF OnlyRow
  <2>7. bu' = [bu EXCEPT ![r] = o]
    BY <1>3, <2>2 DEF OnlyRow
  <2> HIDE DEF books
  <2>8. Contract!Hold(r, o)
    BY <1>2, <2>1, <2>3, <2>4, <2>5, <2>6, <2>7 DEF Contract!Hold, books
  <2> QED BY <1>1, <2>8 DEF Contract!BookStep, Contract!ContractNext
<1>5. CASE bu'[r] = bu[r]
  <2>1. UNCHANGED bu
    BY <1>3, <1>5 DEF OnlyRow
  <2>2. CASE Stopped(r)
    BY <1>2, <2>1, <2>2, StoppedTogether DEF Stopped
  <2>3. CASE status'[r] = "STOPPED" /\ bu[r] \in Orders /\ order[bu[r]] = "finished"
    <3>1. NextPhase(r) = "over" /\ PhaseOf(r) \in {"held", "stopping", "over"}
      BY <1>5, <2>3, ConstantsAssumption DEF NextPhase, PhaseOf, TerminalStatuses, StopStatuses
    <3>2. [o \in Orders |-> MarketOf(o)][bu[r]] = "closed"
      BY <2>3 DEF MarketOf
    <3>3. CASE PhaseOf(r) \in {"held", "stopping"}
      <4>1. Contract!Settle(r)
        BY <1>2, <2>1, <3>1, <3>2, <3>3 DEF Contract!Settle
      <4> QED BY <1>1, <4>1 DEF Contract!BookStep, Contract!ContractNext
    <3> QED BY <2>2, <3>1, <3>3 DEF Stopped
  <2>4. CASE /\ status'[r] = "FAILED" /\ status[r] # "ABSENT" /\ bu[r] = NoOrder
             /\ r \notin net /\ Landed(r) = {}
    <3>1. NextPhase(r) = "written_off" /\ PhaseOf(r) \in {"waiting", "written_off"}
      BY <1>5, <2>4 DEF NextPhase, PhaseOf, Active, ActiveStatuses
    <3>2. CASE PhaseOf(r) = "waiting"
      <4>1. \A o \in Orders : origin[o] # r
        BY <2>4 DEF Landed
      <4>2. Contract!WriteOff(r)
        BY <1>2, <2>1, <2>4, <3>1, <3>2, <4>1 DEF Contract!WriteOff
      <4> QED BY <1>1, <4>2 DEF Contract!BookStep, Contract!ContractNext
    <3> QED BY <2>2, <3>1, <3>2 DEF Stopped
  <2>5. CASE /\ status'[r] \in ActiveStatuses
             /\ status[r] \in StopStatuses /\ bu[r] # NoOrder => status'[r] \in StopStatuses
             /\ bu'[r] = NoOrder => status[r] \in ActiveStatuses \/ r \in net' \ net
    <3>1. \/ Stopped(r)
          \/ PhaseOf(r) = "over" /\ NextPhase(r) \in {"held", "stopping"}
      <4>1. CASE bu[r] = NoOrder
        BY <1>1, <1>5, <2>5, <4>1 DEF Stopped, NextPhase, PhaseOf, Active, ActiveStatuses
      <4>2. CASE bu[r] # NoOrder
        BY <1>5, <2>5, <4>2
           DEF Stopped, NextPhase, PhaseOf, ActiveStatuses, StopStatuses, TerminalStatuses
      <4> QED BY <4>1, <4>2
    <3>2. CASE PhaseOf(r) = "over" /\ NextPhase(r) \in {"held", "stopping"}
      <4>1. Contract!Reopen(r)
        BY <1>2, <2>1, <3>2 DEF Contract!Reopen
      <4> QED BY <1>1, <4>1 DEF Contract!BookStep, Contract!ContractNext
    <3> QED BY <2>2, <3>1, <3>2
  <2>6. CASE status'[r] = status[r]
    BY <1>5, <2>2, <2>6 DEF Stopped, NextPhase, PhaseOf, Active
  <2> QED BY <2>3, <2>4, <2>5, <2>6 DEF Move
<1> QED BY <1>4, <1>5

\* A row that keeps its id, whatever status it gets.
LEMMA StatusContract ==
    ASSUME "spurious_gone" \notin Faults, "garbled_create" \notin Faults,
           Supervision, Supervision', Moves, ExchangeStays, NEW r \in Rows, UNCHANGED bu,
           \E here : status' = [status EXCEPT ![r] = here]
    PROVE  Contract!ContractNext
<1>1. OnlyRow(r)
  BY DEF OnlyRow, Supervision, TypeOK
<1> QED BY <1>1, OneRowMoves DEF Moves

\* An exchange that rests.
LEMMA ExchangeStill == ASSUME UNCHANGED <<order, origin, net>> PROVE ExchangeStays
BY MarketStays DEF ExchangeStays

\* The intent row and its request.
LEMMA SubmitContract ==
    ASSUME Supervision, NEW d \in Deployers, NEW r \in Rows, CreateSubmit(d, r)
    PROVE  Contract!ContractNext
<1>1. /\ status[r] = "ABSENT" /\ status' = [status EXCEPT ![r] = "PENDING_SUBMISSION"]
      /\ net' = net \cup {r} /\ UNCHANGED <<bu, order, origin>>
  BY Zenon DEF CreateSubmit
<1>2. OnlyRow(r) /\ bu[r] = NoOrder
  BY <1>1 DEF OnlyRow, Supervision, TypeOK, IntentUnbound
<1>3. PhaseOf(r) = "none" /\ NextPhase(r) = "waiting"
  BY <1>1, <1>2 DEF PhaseOf, NextPhase, Active, ActiveStatuses, Supervision, TypeOK
<1>4. [o \in Orders |-> MarketOf(o)]' = [o \in Orders |-> MarketOf(o)]
  BY <1>1, MarketStays DEF NextMarket
<1>5. Contract!Ask(r)
  BY <1>1, <1>2, <1>3, <1>4, PhasesKeep DEF Contract!Ask
<1> QED BY <1>5 DEF Contract!ContractNext

\* The create's answer.
LEMMA CreateContract ==
    ASSUME "spurious_gone" \notin Faults, "garbled_create" \notin Faults,
           Supervision, Supervision', Intents, Moves, NEW d \in Deployers,
           \/ CreatePersist(d) \/ CreateAborted(d)
           \/ CreateOutcomeUnknown(d) \/ CreateRefused(d) \/ CreateGarbled(d)
    PROVE  Contract!ContractNext
<1>1. dpc[d] = "waiting" /\ BackToPass(d)
  BY Zenon DEF CreatePersist, CreateAborted, CreateOutcomeUnknown, CreateRefused, CreateGarbled,
     CreateError
<1>2. PICK r \in Rows : r = drow[d]
  BY <1>1 DEF Intents, WaitingIsUnbound, Supervision, TypeOK
<1>3. status[r] \in ActiveStatuses
  BY <1>1, <1>2 DEF Intents, WaitingIsUnbound, Active
<1>4. ExchangeStays
  <2>1. UNCHANGED <<order, origin, net>>
    BY <1>1, Zenon DEF BackToPass, exchVars
  <2> QED BY <2>1, ExchangeStill
<1>5. OnlyRow(r)
  <2>1. /\ UNCHANGED status \/ \E here : status' = [status EXCEPT ![r] = here]
        /\ UNCHANGED bu \/ \E o : bu' = [bu EXCEPT ![r] = o]
    BY <1>2 DEF CreatePersist, CreateAborted, CreateOutcomeUnknown, CreateRefused, CreateGarbled,
       CreateError
  <2> QED BY <2>1 DEF OnlyRow, Supervision, TypeOK
<1> QED BY <1>3, <1>4, <1>5, OneRowMoves DEF Moves, ActiveStatuses, TerminalStatuses

\* A row whose request is on its way waits.
AskingWaits == \A r \in net : status[r] \in ActiveStatuses /\ bu[r] = NoOrder

\* It waits until the request has arrived or is lost.
LEMMA AskingStep ==
    ASSUME "garbled_create" \notin Faults, Supervision, AskingWaits, Moves, [Next]_vars
    PROVE  AskingWaits'
<1>1. CASE Traffic
  <2> SUFFICES ASSUME NEW r \in net' PROVE status'[r] \in ActiveStatuses /\ bu'[r] = NoOrder
    BY DEF AskingWaits
  <2>1. r \in net /\ r \in Rows /\ status[r] \in ActiveStatuses /\ bu[r] = NoOrder
    BY <1>1 DEF Traffic, AskingWaits, Supervision, TypeOK
  <2> QED BY <2>1, ConstantsAssumption DEF Moves, Move
<1>2. ASSUME NEW d \in Deployers, NEW r \in Rows, CreateSubmit(d, r)
      PROVE  AskingWaits'
  <2>1. /\ status[r] = "ABSENT" /\ status' = [status EXCEPT ![r] = "PENDING_SUBMISSION"]
        /\ net' = net \cup {r} /\ UNCHANGED bu
    BY <1>2, Zenon DEF CreateSubmit
  <2> QED BY <2>1 DEF AskingWaits, Supervision, TypeOK, IntentUnbound, ActiveStatuses
<1> QED BY <1>1, <1>2, StepTraffic

\* The exchange creates, loses and ends.
LEMMA ExchangeContract ==
    ASSUME Supervision, AskingWaits, \/ \E r \in Rows : Land(r) \/ Drop(r)
                                     \/ \E o \in Orders : OrderFinish(o)
    PROVE  Contract!ContractNext
<1> DEFINE market == [p \in Orders |-> MarketOf(p)]
<1>1. UNCHANGED bu /\ [q \in Rows |-> PhaseOf(q)]' = [q \in Rows |-> PhaseOf(q)]
  <2>1. UNCHANGED <<status, bu>>
    BY Zenon DEF Land, Drop, OrderFinish, rowVars
  <2> QED BY <2>1 DEF PhaseOf, Active
<1>2. ASSUME NEW o \in Orders, NEW here \in {"running", "finished"},
             order' = [order EXCEPT ![o] = here]
      PROVE  market' = [market EXCEPT ![o] = IF here = "finished" THEN "closed" ELSE "open"]
  BY <1>2 DEF Supervision, TypeOK, MarketOf
<1>3. ASSUME NEW r \in Rows, Land(r) PROVE Contract!ExchangeStep
  <2>1. PICK o \in Orders : /\ order[o] = "none"
                            /\ order' = [order EXCEPT ![o] = "running"]
                            /\ origin' = [origin EXCEPT ![o] = r]
    BY <1>3 DEF Land
  <2>2. r \in net /\ net' = net \ {r}
    BY <1>3 DEF Land
  <2>3. PhaseOf(r) = "waiting"
    <3>1. bu[r] = NoOrder /\ status[r] \in ActiveStatuses
      BY <2>2 DEF AskingWaits
    <3> QED BY <3>1 DEF PhaseOf, Active, ActiveStatuses
  <2>4. market[o] = "unborn" /\ market' = [market EXCEPT ![o] = "open"]
    BY <1>2, <2>1 DEF MarketOf
  <2>5. Contract!Open(r, o)
    BY <2>1, <2>2, <2>3, <2>4 DEF Contract!Open
  <2> QED BY <1>1, <2>5 DEF Contract!ExchangeStep
<1>4. ASSUME NEW r \in Rows, Drop(r) PROVE Contract!ExchangeStep
  <2>1. r \in net /\ net' = net \ {r} /\ UNCHANGED <<order, origin>>
    BY <1>4 DEF Drop
  <2>2. market' = market
    BY <2>1 DEF MarketOf
  <2>3. Contract!Lose(r)
    BY <2>1, <2>2 DEF Contract!Lose
  <2> QED BY <1>1, <2>3 DEF Contract!ExchangeStep
<1>5. ASSUME NEW o \in Orders, OrderFinish(o) PROVE Contract!ExchangeStep
  <2>1. Live(o) /\ order' = [order EXCEPT ![o] = "finished"] /\ UNCHANGED <<origin, net>>
    BY <1>5 DEF OrderFinish
  <2>2. market[o] = "open" /\ market' = [market EXCEPT ![o] = "closed"]
    BY <1>2, <2>1 DEF MarketOf, Live
  <2>3. Contract!Close(o)
    BY <2>1, <2>2 DEF Contract!Close
  <2> QED BY <1>1, <2>3 DEF Contract!ExchangeStep
<1> QED BY <1>3, <1>4, <1>5 DEF Contract!ContractNext

\* The operator's commands, on the worker and in the console.
LEMMA OperatorContract ==
    ASSUME "spurious_gone" \notin Faults, "garbled_create" \notin Faults,
           Supervision, Supervision', Moves, CommandStep \/ CommandRest \/ ConsoleStep
    PROVE  Contract!ContractNext
<1>1. UNCHANGED <<bu, net, origin, order>>
  BY Zenon DEF CommandStep, CommandRest, StartFleet, StartRefused, ScheduledScan, StopFleet,
     EmergencyStop, SetStatus, CloseAllActiveBots, EmergencyMark, EmergencyList,
     EmergencyListDone, EmergencyCancel, EmergencySkipped, SubmitCancel, OnlyStatusChanges,
     ConsoleStep, ConsoleRest, DirectStart, DirectStop, DirectEmergencyStop,
     ConsoleSetStatus, ConsoleCloseAll, rowVars, exchVars
<1>2. ExchangeStays
  BY <1>1, ExchangeStill
<1>3. CASE \/ StopFleet \/ ConsoleCloseAll
           \/ CloseAllActiveBots("stop_close") \/ CloseAllActiveBots("em_close")
  <2>1. MarkStop(FleetStopFrom)
    BY <1>3, Zenon DEF StopFleet, CloseAllActiveBots, ConsoleCloseAll
  <2>2. \A r \in Rows : \/ status'[r] = status[r]
                        \/ status[r] \in FleetStopFrom /\ status'[r] = "STOP_REQUESTED"
    BY <2>1 DEF MarkStop
  <2> QED BY <1>1, <1>2, <2>2, MarkContract DEF Supervision
<1>4. CASE EmergencyMark
  <2>1. \A r \in Rows : \/ status'[r] = status[r]
                        \/ status[r] \in FleetStopFrom /\ status'[r] = "STOP_REQUESTED"
    BY <1>4 DEF EmergencyMark, FleetStopFrom
  <2> QED BY <1>1, <1>2, <2>1, MarkContract DEF Supervision
<1>5. ASSUME NEW r \in Rows, EmergencyCancel(r) PROVE Contract!ContractNext
  <2>1. status' = [status EXCEPT ![r] = "STOPPING"]
    BY <1>5 DEF EmergencyCancel, SubmitCancel
  <2> QED BY <1>1, <1>2, <2>1, StatusContract
<1>6. CASE UNCHANGED status
  BY <1>1, <1>2, <1>6, NothingMoves
<1> QED BY <1>3, <1>4, <1>5, <1>6, Zenon DEF CommandStep, CommandRest, StartFleet,
    StartRefused, ScheduledScan, EmergencyStop, SetStatus, EmergencyList, EmergencyListDone,
    EmergencySkipped, ConsoleStep, ConsoleRest, DirectStart, DirectStop, DirectEmergencyStop,
    ConsoleSetStatus, rowVars

\* The answer to a cancel. One that is applied does not close the grid yet.
LEMMA CancelContract ==
    ASSUME "spurious_gone" \notin Faults, "garbled_create" \notin Faults,
           Supervision, Supervision', Moves, NEW r \in Rows, CancelAnswer(r)
    PROVE  Contract!ContractNext
<1>1. UNCHANGED <<bu, net, origin>>
  BY Zenon DEF CancelAnswer, CancelAccepted, CancelGone, CancelRefused, CancelReturns,
     SubmitCancel, CancelOutcomeUnknown, CancelFailed, CancelUnanswered
<1>2. UNCHANGED order \/ (Live(bu[r]) /\ CancelTakesEffect(r))
  BY Zenon DEF CancelAnswer, CancelAccepted, CancelGone, CancelRefused, SubmitCancel,
     CancelOutcomeUnknown, CancelFailed, CancelUnanswered
<1>3. bu[r] \in Orders
  BY DEF CancelAnswer, CancelAccepted, CancelGone, CancelRefused, CancelOutcomeUnknown,
     CancelFailed, CancelUnanswered, Cancelling, WorkerAt, Supervision, WorkerFrame, TypeOK
<1>4. ExchangeStays
  BY <1>1, <1>2, <1>3, MarketStays, MarketCloses DEF CancelTakesEffect, ExchangeStays, Supervision
<1>5. UNCHANGED status \/ \E here : status' = [status EXCEPT ![r] = here]
  BY DEF CancelAnswer, CancelAccepted, CancelGone, CancelRefused, SubmitCancel,
     CancelOutcomeUnknown, CancelFailed, CancelUnanswered
<1> QED BY <1>1, <1>4, <1>5, StatusContract, NothingMoves

\* The orphan sweep: at most one row holds the id.
LEMMA OrphanContract ==
    ASSUME "spurious_gone" \notin Faults, "garbled_create" \notin Faults,
           Supervision, Supervision', Moves, NEW o \in Orders, AdoptOrphan(o)
    PROVE  Contract!ContractNext
<1>1. ExchangeStays
  <2>1. UNCHANGED <<order, origin, net>>
    BY Zenon DEF AdoptOrphan, exchVars
  <2> QED BY <2>1, ExchangeStill
<1>2. CASE Resurrectable(o) # {}
  <2>1. /\ bu' = bu
        /\ status' = [r \in Rows |-> IF r \in Resurrectable(o) THEN "RUNNING" ELSE status[r]]
    BY <1>2 DEF AdoptOrphan
  <2>2. PICK r \in Rows : r \in Resurrectable(o)
    BY <1>2 DEF Resurrectable, Owner
  <2>3. \A q \in Rows \ {r} : q \notin Resurrectable(o)
    BY <2>2, ConstantsAssumption DEF Resurrectable, Owner, Supervision, RemoteIdExclusive
  <2>4. OnlyRow(r)
    BY <2>1, <2>3 DEF OnlyRow
  <2> QED BY <1>1, <2>1, <2>4, OneRowMoves DEF Moves
<1>3. CASE Resurrectable(o) = {} /\ Owner(o) = {}
  <2>1. PICK r \in Rows : /\ status[r] = "ABSENT"
                          /\ status' = [status EXCEPT ![r] = "RUNNING"]
                          /\ bu' = [bu EXCEPT ![r] = o]
    BY <1>3 DEF AdoptOrphan
  <2>2. OnlyRow(r) /\ status[r] \notin TerminalStatuses
    BY <2>1 DEF OnlyRow, Supervision, TypeOK, TerminalStatuses
  <2> QED BY <1>1, <2>2, OneRowMoves DEF Moves
<1>4. CASE UNCHANGED <<status, bu>>
  BY <1>1, <1>4, NothingMoves
<1> QED BY <1>2, <1>3, <1>4 DEF AdoptOrphan

\* The adoption of one unknown submission.
LEMMA ResolveContract ==
    ASSUME "spurious_gone" \notin Faults, "garbled_create" \notin Faults,
           Supervision, Supervision', Moves, NEW r \in Rows, ResolveSubmission(r)
    PROVE  Contract!ContractNext
<1>1. ExchangeStays
  <2>1. UNCHANGED <<order, origin, net>>
    BY Zenon DEF ResolveSubmission, exchVars
  <2> QED BY <2>1, ExchangeStill
<1>2. \/ UNCHANGED <<status, bu>>
      \/ /\ Unbound(r)
         /\ UNCHANGED bu \/ \E o : bu' = [bu EXCEPT ![r] = o]
         /\ \E here : status' = [status EXCEPT ![r] = here]
  BY DEF ResolveSubmission
<1>3. CASE UNCHANGED <<status, bu>>
  BY <1>1, <1>3, NothingMoves
<1>4. CASE /\ Unbound(r)
           /\ UNCHANGED bu \/ \E o : bu' = [bu EXCEPT ![r] = o]
           /\ \E here : status' = [status EXCEPT ![r] = here]
  <2>1. OnlyRow(r)
    BY <1>4 DEF OnlyRow, Supervision, TypeOK
  <2>2. status[r] \notin TerminalStatuses
    BY <1>4 DEF Unbound, AdoptableStatuses, TerminalStatuses
  <2> QED BY <1>1, <2>1, <2>2, OneRowMoves DEF Moves
<1> QED BY <1>2, <1>3, <1>4

\* The rest of the pass, and a close or stop of one bot.
LEMMA PassContract ==
    ASSUME "spurious_gone" \notin Faults, "garbled_create" \notin Faults,
           Supervision, Supervision', Moves, NEW r \in Rows,
           \/ ManageRow(r) \/ ClientUnresolved(r) \/ ReadFailed(r) \/ ReadTerminal(r) \/ ReadLive(r)
           \/ DecideHold(r) \/ DecideClose(r) \/ RequestBotClose(r) \/ GridStop(r)
    PROVE  Contract!ContractNext
<1>1. UNCHANGED <<order, origin, net, bu>>
  BY Zenon DEF ManageRow, ClientUnresolved, ReadFailed, ReadTerminal, ReadLive, DecideHold,
     DecideClose, RequestBotClose, GridStop, RecordStop, NextRow, SubmitCancel, ReadKeeps,
     rowVars, exchVars
<1>2. UNCHANGED status \/ \E here : status' = [status EXCEPT ![r] = here]
  BY DEF ManageRow, ClientUnresolved, ReadFailed, ReadTerminal, ReadLive, DecideHold,
     DecideClose, RequestBotClose, GridStop, RecordStop, NextRow, SubmitCancel, ReadKeeps, rowVars
<1>3. ExchangeStays
  BY <1>1, ExchangeStill
<1> QED BY <1>1, <1>2, <1>3, StatusContract, NothingMoves

\* What moves neither rows nor grids.
LEMMA QuietContract ==
    ASSUME \/ \E d \in Deployers : \/ PassGate(d) \/ PassEnd(d) \/ ManualDeploy(d)
                                   \/ \E s \in Symbols : CreateAdmit(d, s)
           \/ SweepSkipped \/ SweepLists \/ SweepDone \/ AdoptSelect \/ AdoptListFinished
           \/ AdoptDone \/ ManageList \/ ManageDone
           \/ \E o \in Orders : AlertOrphan(o) \/ OrphanFails(o)
           \/ \E r \in Rows : Grow(r)
           \/ SweepFallsDue \/ ReleaseKillSwitch \/ Crash \/ UNCHANGED vars
    PROVE  Contract!ContractNext
<1>1. UNCHANGED <<status, bu, order, origin, net>>
  BY Zenon DEF PassGate, PassEnd, ManualDeploy, CreateAdmit, SweepSkipped, SweepLists, SweepDone,
     AdoptSelect, AdoptListFinished, AdoptDone, ManageList, ManageDone, Grow, SweepFallsDue,
     AlertOrphan, OrphanFails, ReleaseKillSwitch, Crash, PassVars, vars, rowVars, exchVars
<1> QED BY <1>1, ExchangeStill, NothingMoves

\* Every step is one of the contract, or a stutter of it.
LEMMA StepContract ==
    ASSUME "spurious_gone" \notin Faults, "garbled_create" \notin Faults,
           Supervision, Supervision', Intents, AskingWaits, [Next]_vars
    PROVE  Contract!ContractNext
<1>1. Moves
  BY StepIntents
<1>2. CASE \E d \in Deployers : DeployerStep(d) \/ ManualDeploy(d)
  BY <1>1, <1>2, QuietContract, SubmitContract, CreateContract, Zenon DEF DeployerStep
<1>3. CASE CommandStep \/ ConsoleStep \/ CommandRest
  BY <1>1, <1>3, OperatorContract
<1>4. CASE \E r \in Rows : CancelAnswer(r)
  BY <1>1, <1>4, CancelContract
<1>5. CASE ReconcileStep
  BY <1>1, <1>5, QuietContract, OrphanContract, ResolveContract, PassContract,
     Zenon DEF ReconcileStep
<1>6. CASE \/ \E r \in Rows : Land(r) \/ Drop(r)
           \/ \E o \in Orders : OrderFinish(o)
  BY <1>6, ExchangeContract
<1>7. CASE \/ \E r \in Rows : Grow(r) \/ RequestBotClose(r) \/ GridStop(r)
           \/ SweepFallsDue \/ ReleaseKillSwitch \/ Crash \/ UNCHANGED vars
  BY <1>1, <1>7, PassContract, QuietContract, Zenon
<1> QED BY <1>2, <1>3, <1>4, <1>5, <1>6, <1>7, Zenon DEF Next, WorkerStep

\* Seen through PhaseOf and MarketOf, every behaviour of the deployers, the
\* worker, the console and the exchange is one of GridContract: a request brings
\* one grid at most, a grid has one row at most, a row is settled only after its
\* grid has closed and written off only when none can come. Excluded are the two
\* faults by which the code writes a row off while its grid lives.
THEOREM GridsKeepTheContract ==
    ASSUME "spurious_gone" \notin Faults, "garbled_create" \notin Faults
    PROVE  Spec => KeepsGridContract
<1>1. Init => Contract!ContractInit /\ AskingWaits
  <2> SUFFICES ASSUME Init PROVE Contract!ContractInit /\ AskingWaits
    OBVIOUS
  <2>1. \A r \in Rows : status[r] = "ABSENT" /\ bu[r] = NoOrder
    BY DEF Init
  <2>2. \A r \in Rows : PhaseOf(r) = "none"
    BY <2>1 DEF PhaseOf, Active, ActiveStatuses
  <2>3. \A o \in Orders : MarketOf(o) = "unborn"
    BY DEF Init, MarketOf
  <2> QED BY <2>2, <2>3 DEF Init, Contract!ContractInit, AskingWaits
<1>2. Supervision /\ Intents /\ AskingWaits /\ [Next]_vars => AskingWaits'
  BY StepIntents, AskingStep
<1>3. Supervision /\ Supervision' /\ Intents /\ AskingWaits /\ [Next]_vars
        => [Contract!ContractNext]_(Contract!gridVars)
  BY StepContract
<1> QED BY <1>1, <1>2, <1>3, IntentsHold, PTL DEF Spec, KeepsGridContract, Contract!ContractSpec

=============================================================================
