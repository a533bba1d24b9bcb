------------------------- MODULE GridLifecycleProofs -------------------------
(***************************************************************************)
(* What holds of GridLifecycle for every set of rows, orders, symbols and  *)
(* deployers, every set of faults and every value of the bounds.           *)
(***************************************************************************)
EXTENDS GridLifecycle, TLAPS

USE ConstantsAssumption DEF FaultKinds

-----------------------------------------------------------------------------
(* Type correctness, one lemma per actor.                                  *)

\* A deployer's step keeps the types: what a create writes is a status.
LEMMA DeployerType ==
    ASSUME TypeOK, NEW d \in Deployers, DeployerStep(d) \/ ManualDeploy(d)
    PROVE  TypeOK'
<1> USE DEF TypeOK, RowStatuses, ActiveStatuses, TerminalStatuses, DeployerStates
<1>1. CASE PassGate(d)
  BY <1>1 DEF PassGate, rowVars, exchVars, cfgVars, workVars, boundVars
<1>2. CASE PassEnd(d)
  BY <1>2 DEF PassEnd, rowVars, exchVars, cfgVars, workVars, boundVars
<1>3. ASSUME NEW s \in Symbols, CreateAdmit(d, s) PROVE TypeOK'
  BY <1>3 DEF CreateAdmit, rowVars, exchVars, cfgVars, workVars, boundVars
<1>4. ASSUME NEW r \in Rows, CreateSubmit(d, r) PROVE TypeOK'
  BY <1>4 DEF CreateSubmit, cfgVars, workVars
<1>5. CASE CreatePersist(d)
  <2>1. bu' \in [Rows -> Orders \cup {NoOrder}] /\ recon' \in [Rows -> ReconStates]
    BY <1>5 DEF CreatePersist, Landed, ReconStates
  <2>2. status' \in [Rows -> RowStatuses]
    BY <1>5 DEF CreatePersist, PersistedStatus, KeepStop
  <2> QED BY <1>5, <2>1, <2>2
       DEF CreatePersist, BackToPass, exchVars, cfgVars, workVars, boundVars
<1>6. ASSUME NEW u \in BOOLEAN, CreateError(d, u) PROVE TypeOK'
  BY <1>6 DEF CreateError, CreateErrorStatus, BackToPass, ReconStates, exchVars,
              cfgVars, workVars, boundVars
<1>7. CASE CreateOutcomeUnknown(d) \/ CreateRefused(d) \/ CreateGarbled(d)
  BY <1>6, <1>7 DEF CreateOutcomeUnknown, CreateRefused, CreateGarbled
<1>8. CASE ManualDeploy(d)
  BY <1>8 DEF ManualDeploy, rowVars, exchVars, cfgVars, workVars
<1>9. CASE CreateAborted(d)
  BY <1>9 DEF CreateAborted, BackToPass, exchVars, cfgVars, workVars, boundVars
<1> QED BY <1>1, <1>2, <1>3, <1>4, <1>5, <1>7, <1>8, <1>9 DEF DeployerStep

\* So does a step of the exchange, of the clock, of an HTTP close or a restart.
LEMMA EnvironmentType ==
    ASSUME TypeOK,
           \/ \E r \in Rows : Land(r) \/ Drop(r) \/ Grow(r)
                               \/ RequestBotClose(r) \/ GridStop(r)
           \/ \E o \in Orders : OrderFinish(o)
           \/ SweepFallsDue \/ ReleaseKillSwitch \/ Crash
    PROVE  TypeOK'
<1> USE DEF TypeOK
<1>1. ASSUME NEW r \in Rows, Land(r) PROVE TypeOK'
  BY <1>1 DEF Land, OrderStatuses, rowVars, cfgVars, depVars, workVars, boundVars
<1>2. ASSUME NEW r \in Rows, Drop(r) PROVE TypeOK'
  BY <1>2 DEF Drop, rowVars, cfgVars, depVars, workVars, boundVars
<1>3. ASSUME NEW r \in Rows, Grow(r) PROVE TypeOK'
  BY <1>3 DEF Grow, exchVars, cfgVars, depVars, workVars, boundVars
<1>4. ASSUME NEW r \in Rows, RequestBotClose(r) \/ GridStop(r) PROVE TypeOK'
  BY <1>4 DEF RequestBotClose, GridStop, RecordStop, RowStatuses, ActiveStatuses,
              ReconStates, exchVars, cfgVars, depVars, workVars
<1>5. ASSUME NEW o \in Orders, OrderFinish(o) PROVE TypeOK'
  BY <1>5 DEF OrderFinish, OrderStatuses, rowVars, cfgVars, depVars, workVars, boundVars
<1>6. CASE SweepFallsDue
  <2>1. sweepDue' \in BOOLEAN
    BY <1>6, Zenon DEF SweepFallsDue
  <2>2. UNCHANGED <<rowVars, exchVars, cfgVars, depVars, wpc, wrow, wret, wsnap, wseen,
                    wcomplete, wforced, boundVars>>
    BY <1>6 DEF SweepFallsDue
  <2> QED BY <2>1, <2>2 DEF rowVars, exchVars, cfgVars, depVars, boundVars
<1>7. CASE ReleaseKillSwitch
  <2>1. kill' \in BOOLEAN
    BY <1>7, Zenon DEF ReleaseKillSwitch
  <2>2. UNCHANGED <<rowVars, exchVars, fleet, console, told, depVars, workVars, boundVars>>
    BY <1>7 DEF ReleaseKillSwitch
  <2> QED BY <2>1, <2>2 DEF rowVars, exchVars, depVars, workVars, boundVars
<1>8. CASE Crash
  <2>1. wcomplete' \in BOOLEAN /\ wforced' \in BOOLEAN /\ sweepDue' \in BOOLEAN
    BY <1>8, Zenon DEF Crash
  <2>2. /\ UNCHANGED <<rowVars, exchVars, fleet, kill, told, dsym, intents, commands>>
        /\ console' = "idle" /\ crashes' = crashes + 1
        /\ dpc' = [d \in Deployers |-> "idle"] /\ drow' = [d \in Deployers |-> NoRow]
        /\ wpc' = "idle" /\ wrow' = NoRow /\ wret' = "idle"
        /\ wsnap' = NoSnapshot /\ wseen' = {}
    BY <1>8 DEF Crash
  <2> QED BY <2>1, <2>2
          DEF NoSnapshot, DeployerStates, WorkerStates, ConsoleStates, rowVars, exchVars
<1> QED BY <1>1, <1>2, <1>3, <1>4, <1>5, <1>6, <1>7, <1>8

\* So does a step of a worker command: marking a stop writes statuses only.
LEMMA CommandType ==
    ASSUME TypeOK, CommandStep \/ CommandRest
    PROVE  TypeOK'
<1> USE DEF TypeOK, WorkerAt, WorkerGoes, WorkerStates, MarkStop, RowStatuses,
            ActiveStatuses, TerminalStatuses, FleetStatuses, OnlyStatusChanges,
            exchVars, depVars, cfgVars, boundVars
<1>1. ASSUME NEW d \in Deployers, StartFleet(d) PROVE TypeOK'
  BY <1>1 DEF StartFleet, DeployerStates, rowVars, workVars
<1>2. CASE StopFleet
  BY <1>2 DEF StopFleet
<1>3. CASE EmergencyStop
  <2>1. kill' \in BOOLEAN
    BY <1>3, Zenon DEF EmergencyStop
  <2>2. /\ UNCHANGED <<rowVars, exchVars, fleet, console, told, depVars, intents, crashes>>
        /\ commands' = commands + 1
        /\ WorkerGoes("em_mark")
    BY <1>3 DEF EmergencyStop
  <2> QED BY <2>1, <2>2 DEF rowVars
<1>4. ASSUME NEW here, NEW there \in WorkerStates, NEW value \in FleetStatuses,
             SetStatus(here, there, value)
      PROVE  TypeOK'
  BY <1>4 DEF SetStatus, rowVars
<1>5. ASSUME NEW here, CloseAllActiveBots(here) PROVE TypeOK'
  BY <1>5 DEF CloseAllActiveBots
<1>6. CASE EmergencyMark
  BY <1>6 DEF EmergencyMark
<1>7. CASE EmergencyList
  BY <1>7 DEF EmergencyList, ManagedSnapshot, Managed, ManagedStatuses, rowVars
<1>8. CASE EmergencyListDone
  BY <1>8 DEF EmergencyListDone, rowVars
<1>9. ASSUME NEW r \in Rows, EmergencyCancel(r) PROVE TypeOK'
  BY <1>9 DEF EmergencyCancel, SubmitCancel, ReconStates, CancelStates
<1>10. CASE StartRefused
  BY <1>10 DEF StartRefused, rowVars
<1>11. ASSUME NEW d \in Deployers, ScheduledScan(d) PROVE TypeOK'
  BY <1>11 DEF ScheduledScan, DeployerStates, rowVars, workVars
<1>12. ASSUME NEW r \in Rows, EmergencySkipped(r) PROVE TypeOK'
  BY <1>12 DEF EmergencySkipped, rowVars
<1> QED BY <1>1, <1>2, <1>3, <1>4, <1>5, <1>6, <1>7, <1>8, <1>9, <1>10, <1>11, <1>12
        DEF CommandStep, CommandRest

\* So does a step of the console.
LEMMA ConsoleType ==
    ASSUME TypeOK, ConsoleStep
    PROVE  TypeOK'
<1> USE DEF TypeOK, ConsoleStates, exchVars, depVars, workVars, boundVars
<1>1. ASSUME NEW d \in Deployers, DirectStart(d) PROVE TypeOK'
  BY <1>1 DEF DirectStart, DeployerStates, FleetStatuses, rowVars
<1>2. CASE DirectStop
  BY <1>2 DEF DirectStop, FleetStatuses, rowVars
<1>3. CASE DirectEmergencyStop
  <2>1. kill' \in BOOLEAN
    BY <1>3, Zenon DEF DirectEmergencyStop
  <2>2. /\ UNCHANGED <<rowVars, exchVars, fleet, told, depVars, workVars, intents, crashes>>
        /\ console' = "em_status" /\ commands' = commands + 1
    BY <1>3 DEF DirectEmergencyStop
  <2> QED BY <2>1, <2>2 DEF rowVars
<1>4. CASE ConsoleSetStatus
  BY <1>4 DEF ConsoleSetStatus, FleetStatuses, rowVars
<1>5. CASE ConsoleCloseAll
  BY <1>5 DEF ConsoleCloseAll, MarkStop, OnlyStatusChanges, RowStatuses, ActiveStatuses
<1> QED BY <1>1, <1>2, <1>3, <1>4, <1>5 DEF ConsoleStep, ConsoleRest

\* So does the answer to a cancel.
LEMMA CancelType ==
    ASSUME TypeOK, NEW r \in Rows, CancelAnswer(r)
    PROVE  TypeOK'
<1> USE DEF TypeOK, Cancelling, WorkerAt, WorkerStates, RowStatuses, ActiveStatuses,
            TerminalStatuses, ReconStates, CancelStates, OrderStatuses, CancelReturns,
            CancelTakesEffect, cfgVars, depVars, boundVars
<1>1. CASE CancelAccepted(r)
  BY <1>1 DEF CancelAccepted
<1>2. CASE CancelGone(r)
  BY <1>2 DEF CancelGone
<1>3. CASE CancelRefused(r)
  <2>1. CASE wforced
    <3>1. /\ recon' = [recon EXCEPT ![r] = "OTHER"] /\ UNCHANGED <<order, status>>
          /\ CancelReturns(r)
      BY <1>3, <2>1 DEF CancelRefused
    <3> QED BY <3>1
  <2>2. CASE ~wforced
    <3>1. /\ SubmitCancel(r, wret, TRUE)
          /\ UNCHANGED <<order, wsnap>>
      BY <1>3, <2>2 DEF CancelRefused
    <3> QED BY <3>1 DEF SubmitCancel
  <2> QED BY <2>1, <2>2
<1>4. ASSUME NEW state \in CancelStates, CancelUnanswered(r, state) PROVE TypeOK'
  <2>1. order' \in [Orders -> OrderStatuses]
    BY <1>4 DEF CancelUnanswered
  <2>2. recon' \in [Rows -> ReconStates] /\ CancelReturns(r) /\ UNCHANGED status
    BY <1>4 DEF CancelUnanswered
  <2>3. wforced' \in BOOLEAN
    BY <2>2, Zenon DEF CancelReturns
  <2> QED BY <2>1, <2>2, <2>3
<1>5. CASE CancelOutcomeUnknown(r) \/ CancelFailed(r)
  BY <1>4, <1>5 DEF CancelOutcomeUnknown, CancelFailed
<1> QED BY <1>1, <1>2, <1>3, <1>5 DEF CancelAnswer

\* What the adoption binds is an id the exchange gave.
LEMMA MatchIsAnOrder ==
    ASSUME TypeOK, NEW r, Matches(r) # {}
    PROVE  (CHOOSE m \in Matches(r) : TRUE) \in Orders
<1>1. (CHOOSE m \in Matches(r) : TRUE) \in Matches(r)
  OBVIOUS
<1>2. Matches(r) \subseteq Orders
  <2>1. wseen \subseteq Orders
    BY DEF TypeOK
  <2> QED BY <2>1 DEF Matches
<1> QED BY <1>1, <1>2

\* A step of the reconcile pass keeps the types: it writes back statuses it read.
LEMMA ReconcileType ==
    ASSUME TypeOK, WorkerFrame, IdsAreReal, ReconcileStep
    PROVE  TypeOK'
<1> USE DEF TypeOK, WorkerAt, WorkerStates, RowStatuses, ActiveStatuses,
            TerminalStatuses, ReconStates, CancelStates, PassVars, NoSnapshot,
            rowVars, exchVars, cfgVars, depVars, boundVars
<1>1. CASE SweepSkipped
  BY <1>1 DEF SweepSkipped
<1>2. CASE SweepLists
  <2>1. sweepDue' \in BOOLEAN
    BY <1>2, Zenon DEF SweepLists
  <2>2. /\ UNCHANGED <<PassVars, wsnap, wcomplete>>
        /\ wseen' \subseteq Orders /\ wpc' \in WorkerStates
    BY <1>2 DEF SweepLists
  <2> QED BY <2>1, <2>2
<1>3. CASE SweepDone
  BY <1>3 DEF SweepDone
<1>4. ASSUME NEW o \in Orders, AdoptOrphan(o) PROVE TypeOK'
  <2>1. status' \in [Rows -> RowStatuses]
    BY <1>4 DEF AdoptOrphan
  <2>2. recon' \in [Rows -> ReconStates]
    BY <1>4 DEF AdoptOrphan
  <2>3. bu' \in [Rows -> Orders \cup {NoOrder}]
    BY <1>4 DEF AdoptOrphan
  <2>4. rsym' \in [Rows -> Symbols]
    <3>1. SymbolOf(o) \in Symbols
      BY <1>4 DEF AdoptOrphan, SymbolOf, IdsAreReal
    <3> QED BY <1>4, <3>1 DEF AdoptOrphan
  <2> QED BY <1>4, <2>1, <2>2, <2>3, <2>4 DEF AdoptOrphan
<1>5. CASE AdoptSelect
  <2>1. wcomplete' \in BOOLEAN
    BY <1>5, Zenon DEF AdoptSelect
  <2>2. wsnap' \in [Rows -> {"NONE"} \cup ActiveStatuses]
    BY <1>5 DEF AdoptSelect, AdoptSnapshot, Unbound, AdoptableStatuses
  <2>3. wseen' \subseteq Orders /\ wpc' \in WorkerStates /\ UNCHANGED <<PassVars, sweepDue>>
    BY <1>5 DEF AdoptSelect
  <2> QED BY <2>1, <2>2, <2>3
<1>6. CASE AdoptListFinished
  <2>1. wcomplete' \in BOOLEAN
    BY <1>6, Zenon DEF AdoptListFinished
  <2>2. wseen' \subseteq Orders /\ wpc' \in WorkerStates
    <3>1. \E page \in SUBSET Orders : wseen' = wseen \cup page
      <4>1. {o \in Orders : order[o] = "finished"} \in SUBSET Orders
        OBVIOUS
      <4> QED BY <1>6, <4>1, Zenon DEF AdoptListFinished
    <3>2. wpc' = "resolve"
      BY <1>6, Zenon DEF AdoptListFinished
    <3> QED BY <3>1, <3>2
  <2>3. UNCHANGED <<PassVars, wsnap, sweepDue>>
    BY <1>6 DEF AdoptListFinished
  <2> QED BY <2>1, <2>2, <2>3
<1>7. CASE AdoptDone
  <2>1. wcomplete' \in BOOLEAN
    BY <1>7, Zenon DEF AdoptDone
  <2>2. wseen' \subseteq Orders /\ wpc' \in WorkerStates /\ UNCHANGED <<PassVars, wsnap, sweepDue>>
    BY <1>7 DEF AdoptDone
  <2> QED BY <2>1, <2>2
<1>8. CASE ManageList
  BY <1>8 DEF ManageList, ManagedSnapshot, Managed, ManagedStatuses
<1>9. CASE ManageDone
  BY <1>9 DEF ManageDone
<1>10. ASSUME NEW r \in Rows, ResolveSubmission(r) PROVE TypeOK'
  <2> DEFINE o == CHOOSE m \in Matches(r) : TRUE
  <2>1. Matches(r) # {} => o \in Orders
    BY MatchIsAnOrder
  <2>2. /\ status' \in [Rows -> RowStatuses]
        /\ recon' \in [Rows -> ReconStates]
        /\ bu' \in [Rows -> Orders \cup {NoOrder}]
    <3>1. CASE \E m \in Matches(r) : Matches(r) = {m}
      BY <1>10, <2>1, <3>1 DEF ResolveSubmission, AdoptedStatus
    <3>2. CASE ~ \E m \in Matches(r) : Matches(r) = {m}
      BY <1>10, <3>2 DEF ResolveSubmission
    <3> QED BY <3>1, <3>2
  <2> QED BY <1>10, <2>2 DEF ResolveSubmission
<1>11. ASSUME NEW r \in Rows, NEW back \in {"read", "manage"},
              SubmitCancel(r, back, FALSE), UNCHANGED order,
              wsnap' \in [Rows -> {"NONE"} \cup ActiveStatuses]
       PROVE  TypeOK'
  <2>1. wforced' \in BOOLEAN
    BY <1>11, Zenon DEF SubmitCancel
  <2>2. status' \in [Rows -> RowStatuses] /\ recon' \in [Rows -> ReconStates]
    BY <1>11 DEF SubmitCancel
  <2>3. /\ wpc' = "cancelling" /\ wrow' = r /\ wret' = back
        /\ UNCHANGED <<bu, rsym, age, lookalike, origin, net, cfgVars, depVars, wseen,
                       wcomplete, sweepDue, boundVars>>
    BY <1>11 DEF SubmitCancel
  <2> QED BY <1>11, <2>1, <2>2, <2>3
<1>12. ASSUME NEW r \in Rows, ManageRow(r) PROVE TypeOK'
  <2>1. CASE wsnap[r] # "RUNNING" /\ recon[r] \notin {"CANCEL_ACCEPTED", "TERMINAL_CONFIRMED"}
    BY <1>11, <1>12, <2>1 DEF ManageRow
  <2>2. CASE ~(wsnap[r] # "RUNNING" /\ recon[r] \notin {"CANCEL_ACCEPTED", "TERMINAL_CONFIRMED"})
    <3>1. /\ wpc' = "read" /\ wrow' = r
          /\ UNCHANGED <<rowVars, exchVars, cfgVars, depVars, wret, wsnap, wseen,
                         wcomplete, wforced, sweepDue, boundVars>>
      BY <1>12, <2>2 DEF ManageRow
    <3> QED BY <3>1
  <2> QED BY <2>1, <2>2
<1>13. ASSUME NEW r \in Rows, ReadFailed(r) PROVE TypeOK'
  BY <1>13 DEF ReadFailed, NextRow, ReadKeeps
<1>14. ASSUME NEW r \in Rows, ReadTerminal(r) PROVE TypeOK'
  BY <1>14 DEF ReadTerminal, NextRow, ReadKeeps
<1>15. ASSUME NEW r \in Rows, ReadLive(r) PROVE TypeOK'
  <2>1. CASE /\ SubmitCancel(r, "manage", FALSE)
             /\ wsnap' = [wsnap EXCEPT ![r] = "NONE"] /\ UNCHANGED order
    BY <1>11, <2>1
  <2>2. CASE /\ status' = [status EXCEPT ![r] = KeepStop(status[r], wsnap[r])]
             /\ recon' = [recon EXCEPT ![r] = LiveRecon(r)]
             /\ IF wsnap[r] = "RUNNING"
                THEN wpc' = "decide" /\ UNCHANGED <<wsnap, wrow>>
                ELSE NextRow(r)
             /\ ReadKeeps
    <3>1. wsnap[r] # "NONE"
      BY <1>15 DEF ReadLive, Reading, WorkerFrame
    <3> QED BY <2>2, <3>1 DEF KeepStop, LiveRecon, NextRow, ReadKeeps
  <2> QED BY <1>15, <2>1, <2>2 DEF ReadLive
<1>16. ASSUME NEW r \in Rows, DecideHold(r) PROVE TypeOK'
  BY <1>16 DEF DecideHold, NextRow
<1>17. ASSUME NEW r \in Rows, DecideClose(r) PROVE TypeOK'
  BY <1>11, <1>17 DEF DecideClose
<1>18. ASSUME NEW r \in Rows, ClientUnresolved(r) PROVE TypeOK'
  BY <1>18 DEF ClientUnresolved, NextRow
<1>19. ASSUME NEW o \in Orders, AlertOrphan(o) PROVE TypeOK'
  BY <1>19 DEF AlertOrphan
<1>20. ASSUME NEW o \in Orders, OrphanFails(o) PROVE TypeOK'
  BY <1>20 DEF OrphanFails
<1> QED BY <1>1, <1>2, <1>3, <1>4, <1>5, <1>6, <1>7, <1>8, <1>9, <1>10, <1>12, <1>13,
           <1>14, <1>15, <1>16, <1>17, <1>18, <1>19, <1>20 DEF ReconcileStep

\* The initial state is typed.
LEMMA InitType == Init => TypeOK
<1> SUFFICES ASSUME Init PROVE TypeOK
  OBVIOUS
<1>1. (CHOOSE s \in Symbols : TRUE) \in Symbols
  OBVIOUS
<1>2. rsym \in [Rows -> Symbols] /\ dsym \in [Deployers -> Symbols]
  BY <1>1 DEF Init
<1>3. kill \in BOOLEAN /\ wcomplete \in BOOLEAN /\ wforced \in BOOLEAN /\ sweepDue \in BOOLEAN
  BY Zenon DEF Init
<1>4. /\ wsnap \in [Rows -> {"NONE"} \cup ActiveStatuses] /\ wseen \subseteq Orders
      /\ wpc \in WorkerStates /\ wrow \in Rows \cup {NoRow} /\ wret = "idle"
  BY DEF Init, NoSnapshot, WorkerStates
<1>5. /\ status \in [Rows -> RowStatuses] /\ bu \in [Rows -> Orders \cup {NoOrder}]
      /\ recon \in [Rows -> ReconStates] /\ age \in [Rows -> 0..2]
      /\ lookalike \in [Rows -> SUBSET Orders]
  BY DEF Init, RowStatuses, ReconStates
<1>6. /\ order \in [Orders -> OrderStatuses] /\ origin \in [Orders -> Rows \cup {NoRow}]
      /\ net \subseteq Rows /\ fleet \in FleetStatuses /\ console \in ConsoleStates
      /\ told \subseteq Orders
  BY DEF Init, OrderStatuses, FleetStatuses, ConsoleStates
<1>7. /\ dpc \in [Deployers -> DeployerStates] /\ drow \in [Deployers -> Rows \cup {NoRow}]
      /\ intents \in Nat /\ commands \in Nat /\ crashes \in Nat
  BY DEF Init, DeployerStates
<1> QED BY <1>2, <1>3, <1>4, <1>5, <1>6, <1>7 DEF TypeOK

\* Every step keeps the types.
LEMMA StepType ==
    ASSUME TypeOK, WorkerFrame, IdsAreReal, [Next]_vars
    PROVE  TypeOK'
<1>1. CASE UNCHANGED vars
  BY <1>1 DEF vars, rowVars, exchVars, cfgVars, depVars, workVars, boundVars, TypeOK
<1>2. CASE \E d \in Deployers : DeployerStep(d) \/ ManualDeploy(d)
  BY <1>2, DeployerType
<1>3. CASE CommandStep \/ CommandRest
  BY <1>3, CommandType
<1>7. CASE ConsoleStep
  BY <1>7, ConsoleType
<1>4. CASE ReconcileStep
  BY <1>4, ReconcileType
<1>5. CASE \E r \in Rows : CancelAnswer(r)
  BY <1>5, CancelType
<1>6. CASE \/ \E r \in Rows : Land(r) \/ Drop(r) \/ Grow(r)
                     \/ RequestBotClose(r) \/ GridStop(r)
           \/ \E o \in Orders : OrderFinish(o)
           \/ SweepFallsDue \/ ReleaseKillSwitch \/ Crash
  BY <1>6, EnvironmentType
<1> QED BY <1>1, <1>2, <1>3, <1>4, <1>5, <1>6, <1>7 DEF Next, WorkerStep

-----------------------------------------------------------------------------
(* The remote ids. Every step leaves a bound row bound; most leave the     *)
(* worker's local copies alone.                                            *)

Bound == \A r \in Rows : bu[r] # NoOrder => bu'[r] = bu[r]

Books == RunningIsBacked /\ RemoteIdExclusive /\ IntentUnbound

\* Steps of other actors cannot invalidate what the worker remembers.
LEMMA FrameKept ==
    ASSUME TypeOK, WorkerFrame, Bound, UNCHANGED <<wpc, wrow, wret, wsnap>>
    PROVE  WorkerFrame'
  BY DEF WorkerFrame, Bound, TypeOK

\* A worker step to a position outside the managing loops.
LEMMA FrameLeft ==
    ASSUME wpc' \notin {"em_cancel", "manage", "cancelling", "read", "decide"}
    PROVE  WorkerFrame'
  BY DEF WorkerFrame

\* A step that changes no status and no id keeps the books, and every binding.
LEMMA BooksUnchanged ==
    ASSUME Books, UNCHANGED <<status, bu>>
    PROVE  Books' /\ Bound
  BY DEF Books, RunningIsBacked, RemoteIdExclusive, IntentUnbound, Bound

\* Recording a stop intent binds and unbinds nothing.
LEMMA BooksMarked ==
    ASSUME TypeOK, Books, UNCHANGED bu,
           NEW from, MarkStop(from)
    PROVE  Books' /\ Bound
  BY DEF Books, RunningIsBacked, RemoteIdExclusive, IntentUnbound, Bound, MarkStop, TypeOK

\* What SubmitCancel writes of the state the books are about.
Submitted(r, back) ==
    /\ UNCHANGED bu /\ status' = [status EXCEPT ![r] = "STOPPING"]
    /\ wpc' = "cancelling" /\ wrow' = r /\ wret' = back

\* A cancel is submitted for a row on the worker's list, or for the row whose
\* graceful cancel was refused.
LEMMA CancelSubmitted ==
    ASSUME Supervision, NEW r \in Rows, bu[r] # NoOrder,
           NEW back \in {"em_cancel", "read", "manage"},
           wpc \in {"em_cancel", "manage", "cancelling", "read", "decide"},
           Submitted(r, back),
           \/ wsnap' = [wsnap EXCEPT ![r] = "NONE"] /\ back # "read"
           \/ UNCHANGED wsnap /\ (back = "read" => wsnap[r] # "NONE")
    PROVE  Books' /\ WorkerFrame' /\ Bound
<1> USE DEF Supervision
<1>1. Books' /\ Bound
  BY DEF Submitted, Books, TypeOK, RunningIsBacked, RemoteIdExclusive, IntentUnbound, Bound
<1>2. WorkerFrame'
  BY DEF Submitted, WorkerFrame, TypeOK
<1> QED BY <1>1, <1>2

\* A create binds its row to its own grid, when no other row holds it.
LEMMA DeployerSupervision ==
    ASSUME Supervision, NEW d \in Deployers, DeployerStep(d) \/ ManualDeploy(d)
    PROVE  Books' /\ WorkerFrame' /\ Bound
<1> USE DEF Supervision, Books
<1>1. CASE \/ PassGate(d) \/ PassEnd(d) \/ ManualDeploy(d) \/ \E s \in Symbols : CreateAdmit(d, s)
  <2>1. UNCHANGED <<status, bu, wpc, wrow, wret, wsnap>>
    BY <1>1 DEF PassGate, PassEnd, ManualDeploy, CreateAdmit, rowVars, workVars
  <2> QED BY <2>1, BooksUnchanged, FrameKept
<1>2. ASSUME NEW r \in Rows, CreateSubmit(d, r) PROVE Books' /\ WorkerFrame' /\ Bound
  <2>1. /\ bu' = bu /\ status[r] = "ABSENT"
        /\ status' = [status EXCEPT ![r] = "PENDING_SUBMISSION"]
        /\ UNCHANGED <<wpc, wrow, wret, wsnap>>
    BY <1>2 DEF CreateSubmit, workVars
  <2>2. Bound
    BY <2>1 DEF Bound
  <2>3. Books'
    BY <2>1 DEF TypeOK, RunningIsBacked, RemoteIdExclusive, IntentUnbound
  <2> QED BY <2>1, <2>2, <2>3, FrameKept
<1>3. CASE CreatePersist(d)
  <2>1. PICK o \in Landed(drow[d]) :
          IF MayHold(drow[d], o) /\ PersistMatches(drow[d])
          THEN /\ status' = [status EXCEPT ![drow[d]] = PersistedStatus(drow[d])]
               /\ bu' = [bu EXCEPT ![drow[d]] = o]
          ELSE UNCHANGED <<status, bu>>
    BY <1>3 DEF CreatePersist
  <2>2. UNCHANGED <<wpc, wrow, wret, wsnap>>
    BY <1>3 DEF CreatePersist, BackToPass, workVars
  <2>3. o \in Orders /\ o # NoOrder
    BY DEF Landed
  <2>4. CASE MayHold(drow[d], o) /\ PersistMatches(drow[d])
    <3>1. /\ status' = [status EXCEPT ![drow[d]] = PersistedStatus(drow[d])]
          /\ bu' = [bu EXCEPT ![drow[d]] = o]
      BY <2>1, <2>4
    <3>2. drow[d] \in Rows => bu[drow[d]] = NoOrder
      BY <2>4 DEF PersistMatches, IntentUnbound
    <3>3. Bound
      BY <3>1, <3>2 DEF Bound, TypeOK
    <3>4. RunningIsBacked'
      BY <2>3, <3>1 DEF RunningIsBacked, TypeOK
    <3>5. RemoteIdExclusive'
      BY <2>3, <2>4, <3>1 DEF RemoteIdExclusive, MayHold, TypeOK
    <3>6. IntentUnbound'
      BY <3>1, <2>3 DEF IntentUnbound, PersistedStatus, KeepStop, StopStatuses, TypeOK
    <3> QED BY <2>2, <3>3, <3>4, <3>5, <3>6, FrameKept
  <2>5. CASE ~(MayHold(drow[d], o) /\ PersistMatches(drow[d]))
    BY <2>1, <2>2, <2>5, BooksUnchanged, FrameKept
  <2> QED BY <2>4, <2>5
<1>4. ASSUME NEW u \in BOOLEAN, CreateError(d, u) PROVE Books' /\ WorkerFrame' /\ Bound
  <2>1. /\ bu' = bu /\ UNCHANGED <<wpc, wrow, wret, wsnap>>
        /\ status' = [status EXCEPT ![drow[d]] = CreateErrorStatus(u)]
    BY <1>4 DEF CreateError, BackToPass, workVars
  <2>2. Bound
    BY <2>1 DEF Bound
  <2>3. CreateErrorStatus(u) \in {"SUBMISSION_UNKNOWN", "FAILED"}
    BY DEF CreateErrorStatus
  <2>4. Books'
    BY <2>1, <2>3 DEF TypeOK, RunningIsBacked, RemoteIdExclusive, IntentUnbound
  <2> QED BY <2>1, <2>2, <2>4, FrameKept
<1>5. CASE CreateOutcomeUnknown(d) \/ CreateRefused(d) \/ CreateGarbled(d)
  BY <1>4, <1>5 DEF CreateOutcomeUnknown, CreateRefused, CreateGarbled
<1>6. CASE CreateAborted(d)
  <2>1. UNCHANGED <<status, bu, wpc, wrow, wret, wsnap>>
    BY <1>6 DEF CreateAborted, BackToPass, workVars
  <2> QED BY <2>1, BooksUnchanged, FrameKept
<1> QED BY <1>1, <1>2, <1>3, <1>5, <1>6 DEF DeployerStep

\* Marking stops unbinds nothing, and an emergency list holds bound rows only.
LEMMA CommandSupervision ==
    ASSUME Supervision, CommandStep \/ CommandRest
    PROVE  Books' /\ WorkerFrame' /\ Bound
<1> USE DEF Supervision, Books
<1>1. ASSUME NEW d \in Deployers, StartFleet(d) PROVE Books' /\ WorkerFrame' /\ Bound
  BY <1>1, BooksUnchanged, FrameKept DEF StartFleet, rowVars, workVars
<1>2. CASE StopFleet
  BY <1>2, BooksMarked, FrameLeft DEF StopFleet, WorkerGoes, OnlyStatusChanges
<1>3. CASE EmergencyStop
  <2>1. UNCHANGED <<status, bu>> /\ wpc' = "em_mark"
    BY <1>3, Zenon DEF EmergencyStop, rowVars, WorkerGoes
  <2> QED BY <2>1, BooksUnchanged, FrameLeft
<1>4. ASSUME NEW value, \/ SetStatus("stop_status", "stop_close", value)
                        \/ SetStatus("em_status", "em_close", value)
      PROVE  Books' /\ WorkerFrame' /\ Bound
  BY <1>4, BooksUnchanged, FrameLeft DEF SetStatus, WorkerGoes, rowVars
<1>5. CASE CloseAllActiveBots("stop_close") \/ CloseAllActiveBots("em_close")
  BY <1>5, BooksMarked, FrameLeft DEF CloseAllActiveBots, WorkerGoes, OnlyStatusChanges
<1>6. CASE EmergencyMark
  <2>1. Books' /\ Bound
    BY <1>6 DEF EmergencyMark, OnlyStatusChanges, TypeOK, RunningIsBacked,
                RemoteIdExclusive, IntentUnbound, Bound
  <2> QED BY <1>6, <2>1, FrameLeft DEF EmergencyMark, WorkerGoes
<1>7. CASE EmergencyList
  <2>1. UNCHANGED <<status, bu>>
    BY <1>7 DEF EmergencyList, rowVars
  <2>2. WorkerFrame'
    BY <1>7, <2>1 DEF EmergencyList, ManagedSnapshot, Managed, WorkerFrame
  <2> QED BY <2>1, <2>2, BooksUnchanged
<1>8. CASE EmergencyListDone
  BY <1>8, BooksUnchanged, FrameLeft DEF EmergencyListDone, WorkerGoes, rowVars
<1>9. ASSUME NEW r \in Rows, EmergencyCancel(r) PROVE Books' /\ WorkerFrame' /\ Bound
  <2>1. bu[r] # NoOrder
    BY <1>9 DEF EmergencyCancel, WorkerAt, WorkerFrame
  <2>2. wsnap' = [wsnap EXCEPT ![r] = "NONE"]
    BY <1>9 DEF EmergencyCancel
  <2>3. Submitted(r, "em_cancel") /\ wpc = "em_cancel"
    BY <1>9, Zenon DEF EmergencyCancel, SubmitCancel, Submitted, WorkerAt
  <2> QED BY <2>1, <2>2, <2>3, CancelSubmitted
<1>10. CASE StartRefused
  BY <1>10, BooksUnchanged, FrameLeft DEF StartRefused, WorkerGoes, rowVars
<1>11. ASSUME NEW d \in Deployers, ScheduledScan(d) PROVE Books' /\ WorkerFrame' /\ Bound
  BY <1>11, BooksUnchanged, FrameKept DEF ScheduledScan, rowVars, workVars
<1>12. ASSUME NEW r \in Rows, EmergencySkipped(r) PROVE Books' /\ WorkerFrame' /\ Bound
  <2>1. UNCHANGED <<status, bu, wpc, wrow, wret>> /\ wsnap' = [wsnap EXCEPT ![r] = "NONE"]
    BY <1>12 DEF EmergencySkipped, rowVars
  <2>2. WorkerFrame'
    BY <1>12, <2>1 DEF EmergencySkipped, WorkerAt, WorkerFrame, TypeOK
  <2> QED BY <2>1, <2>2, BooksUnchanged
<1> QED BY <1>1, <1>2, <1>3, <1>4, <1>5, <1>6, <1>7, <1>8, <1>9, <1>10, <1>11, <1>12
        DEF CommandStep, CommandRest

\* The console marks rows while the worker holds a list of them: both stay bound.
LEMMA ConsoleSupervision ==
    ASSUME Supervision, ConsoleStep
    PROVE  Books' /\ WorkerFrame' /\ Bound
<1> USE DEF Supervision, Books
<1>1. CASE ConsoleCloseAll
  <2>1. MarkStop(FleetStopFrom) /\ UNCHANGED <<bu, wpc, wrow, wret, wsnap>>
    BY <1>1 DEF ConsoleCloseAll, OnlyStatusChanges, workVars
  <2> QED BY <2>1, BooksMarked, FrameKept
<1>2. CASE ConsoleStep /\ ~ConsoleCloseAll
  <2>1. UNCHANGED <<status, bu, wpc, wrow, wret, wsnap>>
    BY <1>2, Zenon DEF ConsoleStep, ConsoleRest, DirectStart, DirectStop,
       DirectEmergencyStop, ConsoleSetStatus, rowVars, workVars
  <2> QED BY <2>1, BooksUnchanged, FrameKept
<1> QED BY <1>1, <1>2

\* The answer to a cancel leaves the row's id where it was.
LEMMA CancelSupervision ==
    ASSUME Supervision, NEW r \in Rows, CancelAnswer(r)
    PROVE  Books' /\ WorkerFrame' /\ Bound
<1> USE DEF Supervision, Books
<1>1. wpc = "cancelling" /\ wrow = r /\ bu[r] # NoOrder
  BY DEF CancelAnswer, CancelAccepted, CancelGone, CancelRefused, CancelOutcomeUnknown,
         CancelFailed, CancelUnanswered, Cancelling, WorkerAt, WorkerFrame
<1>2. ASSUME CancelReturns(r), UNCHANGED bu,
             \/ UNCHANGED status
             \/ status' = [status EXCEPT ![r] = "STOP_REQUESTED"]
             \/ status' = [status EXCEPT ![r] = "STOPPED"]
      PROVE  Books' /\ WorkerFrame' /\ Bound
  <2>1. /\ wpc' = wret /\ wsnap' = wsnap
        /\ wrow' = IF wret = "read" THEN r ELSE NoRow
    BY <1>2, Zenon DEF CancelReturns
  <2>2. WorkerFrame'
    BY <1>1, <1>2, <2>1 DEF WorkerFrame, TypeOK
  <2>3. Books' /\ Bound
    BY <1>1, <1>2 DEF TypeOK, RunningIsBacked, RemoteIdExclusive, IntentUnbound, Bound
  <2> QED BY <2>2, <2>3
<1>3. CASE CancelAccepted(r)
  BY <1>2, <1>3, Zenon DEF CancelAccepted, CancelReturns
<1>4. CASE CancelGone(r)
  BY <1>2, <1>4, Zenon DEF CancelGone, CancelReturns
<1>5. CASE CancelRefused(r)
  <2>1. CASE wforced
    BY <1>2, <1>5, <2>1, Zenon DEF CancelRefused, CancelReturns
  <2>2. CASE ~wforced
    <3>1. Submitted(r, wret) /\ UNCHANGED wsnap
      BY <1>5, <2>2, Zenon DEF CancelRefused, SubmitCancel, Submitted
    <3>2. wret \in {"em_cancel", "read", "manage"}
      BY <1>1 DEF WorkerFrame
    <3> QED BY <1>1, <3>1, <3>2, CancelSubmitted DEF WorkerFrame
  <2> QED BY <2>1, <2>2
<1>6. CASE CancelOutcomeUnknown(r) \/ CancelFailed(r)
  <2>1. UNCHANGED <<status, bu>> /\ CancelReturns(r)
    BY <1>6, Zenon DEF CancelOutcomeUnknown, CancelFailed, CancelUnanswered, CancelReturns
  <2> QED BY <1>2, <2>1
<1> QED BY <1>3, <1>4, <1>5, <1>6 DEF CancelAnswer

\* The sweep and the adoption bind an id that no row holds; a write-back of an
\* older status finds its row still bound.
LEMMA ReconcileSupervision ==
    ASSUME Supervision, ReconcileStep
    PROVE  Books' /\ WorkerFrame' /\ Bound
<1> USE DEF Supervision, Books
<1>1. CASE SweepSkipped \/ SweepDone \/ AdoptDone \/ AdoptListFinished
  <2>1. UNCHANGED <<status, bu>> /\ wpc' \in {"adopt", "manage_list", "resolve"}
    BY <1>1, Zenon DEF SweepSkipped, SweepDone, AdoptDone, AdoptListFinished, PassVars, rowVars
  <2> QED BY <2>1, BooksUnchanged, FrameLeft
<1>2. CASE SweepLists \/ AdoptSelect
  <2>1. UNCHANGED <<status, bu>>
    BY <1>2, Zenon DEF SweepLists, AdoptSelect, PassVars, rowVars
  <2>2. wpc' \in {"adopt", "orphans", "list_finished", "manage_list"}
    BY <1>2, Zenon DEF SweepLists, AdoptSelect
  <2> QED BY <2>1, <2>2, BooksUnchanged, FrameLeft
<1>3. ASSUME NEW o \in Orders, AdoptOrphan(o) PROVE Books' /\ WorkerFrame' /\ Bound
  <2>1. wpc' = "orphans"
    BY <1>3 DEF AdoptOrphan, WorkerAt
  <2>2. Books' /\ Bound
    <3>1. CASE Resurrectable(o) # {}
      <4>1. /\ bu' = bu
            /\ status' = [r \in Rows |-> IF r \in Resurrectable(o) THEN "RUNNING" ELSE status[r]]
        BY <1>3, <3>1 DEF AdoptOrphan
      <4>2. \A r \in Resurrectable(o) : bu[r] # NoOrder
        BY DEF Resurrectable, Owner
      <4> QED BY <4>1, <4>2 DEF TypeOK, RunningIsBacked, RemoteIdExclusive, IntentUnbound, Bound
    <3>2. CASE Resurrectable(o) = {} /\ Owner(o) = {}
      <4>1. PICK r \in Rows : /\ status[r] = "ABSENT"
                              /\ status' = [status EXCEPT ![r] = "RUNNING"]
                              /\ bu' = [bu EXCEPT ![r] = o]
        BY <1>3, <3>2 DEF AdoptOrphan
      <4>2. bu[r] = NoOrder /\ o # NoOrder /\ \A q \in Rows : bu[q] # o
        BY <3>2, <4>1 DEF IntentUnbound, Owner
      <4>3. Bound
        BY <4>1, <4>2 DEF Bound, TypeOK
      <4>4. RunningIsBacked' /\ IntentUnbound'
        BY <4>1, <4>2 DEF TypeOK, RunningIsBacked, IntentUnbound
      <4>5. RemoteIdExclusive'
        BY <4>1, <4>2 DEF TypeOK, RemoteIdExclusive
      <4> QED BY <4>3, <4>4, <4>5
    <3>3. CASE Resurrectable(o) = {} /\ Owner(o) # {}
      BY <1>3, <3>3, BooksUnchanged DEF AdoptOrphan
    <3> QED BY <3>1, <3>2, <3>3
  <2> QED BY <2>1, <2>2, FrameLeft
<1>13. ASSUME NEW o \in Orders, AlertOrphan(o) \/ OrphanFails(o)
       PROVE  Books' /\ WorkerFrame' /\ Bound
  <2>1. UNCHANGED <<status, bu, wpc, wrow, wret, wsnap>>
    BY <1>13, Zenon DEF AlertOrphan, OrphanFails, PassVars, rowVars
  <2> QED BY <2>1, BooksUnchanged, FrameKept
<1>4. CASE ManageList
  <2>1. UNCHANGED <<status, bu>> /\ wpc' = "manage" /\ wsnap' = ManagedSnapshot
    BY <1>4 DEF ManageList, PassVars, rowVars
  <2>2. WorkerFrame'
    BY <2>1 DEF ManagedSnapshot, Managed, WorkerFrame
  <2> QED BY <2>1, <2>2, BooksUnchanged
<1>5. CASE ManageDone
  BY <1>5, BooksUnchanged, FrameLeft DEF ManageDone, PassVars, rowVars
<1>6. ASSUME NEW r \in Rows, ResolveSubmission(r) PROVE Books' /\ WorkerFrame' /\ Bound
  <2>1. wpc' = "resolve"
    BY <1>6 DEF ResolveSubmission, WorkerAt
  <2>2. \/ UNCHANGED <<status, bu>>
        \/ /\ Unbound(r) /\ bu' = bu
           /\ status' = [status EXCEPT ![r] = "FAILED"]
        \/ /\ Unbound(r) /\ status' = [status EXCEPT ![r] = AdoptedStatus(r)]
           /\ \E o \in Orders : MayHold(r, o) /\ bu' = [bu EXCEPT ![r] = o]
    <3>1. CASE \E m \in Matches(r) : Matches(r) = {m}
      <4> DEFINE o == CHOOSE m \in Matches(r) : TRUE
      <4>1. o \in Orders
        BY <3>1, MatchIsAnOrder
      <4>2. IF Unbound(r) /\ MayHold(r, o)
            THEN /\ bu' = [bu EXCEPT ![r] = o]
                 /\ status' = [status EXCEPT ![r] = AdoptedStatus(r)]
            ELSE UNCHANGED <<bu, status>>
        BY <1>6, <3>1 DEF ResolveSubmission
      <4> QED BY <4>1, <4>2
    <3>2. CASE ~ \E m \in Matches(r) : Matches(r) = {m}
      BY <1>6, <3>2 DEF ResolveSubmission
    <3> QED BY <3>1, <3>2
  <2>3. CASE Unbound(r) /\ bu' = bu /\ status' = [status EXCEPT ![r] = "FAILED"]
    <3>1. Books' /\ Bound
      BY <2>3 DEF TypeOK, RunningIsBacked, RemoteIdExclusive, IntentUnbound, Bound
    <3> QED BY <2>1, <3>1, FrameLeft
  <2>4. CASE /\ Unbound(r) /\ status' = [status EXCEPT ![r] = AdoptedStatus(r)]
             /\ \E o \in Orders : MayHold(r, o) /\ bu' = [bu EXCEPT ![r] = o]
    <3>1. PICK o \in Orders : MayHold(r, o) /\ bu' = [bu EXCEPT ![r] = o]
      BY <2>4
    <3>2. bu[r] = NoOrder /\ o # NoOrder /\ AdoptedStatus(r) \in {"STOP_REQUESTED", "RUNNING"}
      BY <2>4 DEF Unbound, AdoptedStatus
    <3>3. Bound /\ RunningIsBacked' /\ IntentUnbound'
      BY <2>4, <3>1, <3>2 DEF TypeOK, RunningIsBacked, IntentUnbound, Bound
    <3>4. RemoteIdExclusive'
      BY <3>1, <3>2 DEF MayHold, TypeOK, RemoteIdExclusive
    <3> QED BY <2>1, <3>3, <3>4, FrameLeft
  <2>5. CASE UNCHANGED <<status, bu>>
    BY <2>1, <2>5, BooksUnchanged, FrameLeft
  <2> QED BY <2>2, <2>3, <2>4, <2>5
<1>7. ASSUME NEW r \in Rows, ManageRow(r) PROVE Books' /\ WorkerFrame' /\ Bound
  <2>1. wpc = "manage" /\ wsnap[r] # "NONE" /\ bu[r] # NoOrder
    BY <1>7 DEF ManageRow, WorkerAt, WorkerFrame
  <2>2. CASE wsnap[r] # "RUNNING" /\ recon[r] \notin {"CANCEL_ACCEPTED", "TERMINAL_CONFIRMED"}
    <3>1. Submitted(r, "read") /\ UNCHANGED wsnap
      BY <1>7, <2>2, Zenon DEF ManageRow, SubmitCancel, Submitted
    <3> QED BY <2>1, <3>1, CancelSubmitted
  <2>3. CASE ~(wsnap[r] # "RUNNING" /\ recon[r] \notin {"CANCEL_ACCEPTED", "TERMINAL_CONFIRMED"})
    <3>1. UNCHANGED <<status, bu, wsnap>> /\ wpc' = "read" /\ wrow' = r
      BY <1>7, <2>3 DEF ManageRow, rowVars
    <3>2. WorkerFrame'
      BY <2>1, <3>1 DEF WorkerFrame
    <3> QED BY <3>1, <3>2, BooksUnchanged
  <2> QED BY <2>2, <2>3
<1>8. ASSUME NEW r \in Rows, NextRow(r), wpc \in {"manage", "read", "decide"}, UNCHANGED bu
      PROVE  WorkerFrame'
  BY <1>8 DEF NextRow, WorkerFrame, TypeOK
<1>9. ASSUME NEW r \in Rows, ClientUnresolved(r) \/ ReadFailed(r) \/ DecideHold(r)
      PROVE  Books' /\ WorkerFrame' /\ Bound
  <2>1. UNCHANGED <<status, bu>> /\ wpc \in {"manage", "read", "decide"} /\ NextRow(r)
    BY <1>9 DEF ClientUnresolved, ReadFailed, DecideHold, Reading, ReadKeeps, WorkerAt, rowVars
  <2> QED BY <1>8, <2>1, BooksUnchanged
<1>10. ASSUME NEW r \in Rows, ReadTerminal(r) PROVE Books' /\ WorkerFrame' /\ Bound
  <2>1. /\ UNCHANGED bu /\ wpc = "read" /\ wrow = r /\ NextRow(r)
        /\ status' = [status EXCEPT ![r] = "STOPPED"]
    BY <1>10 DEF ReadTerminal, Reading, ReadKeeps, WorkerAt
  <2>2. Books' /\ Bound
    BY <2>1 DEF TypeOK, RunningIsBacked, RemoteIdExclusive, IntentUnbound, Bound
  <2> QED BY <1>8, <2>1, <2>2
<1>11. ASSUME NEW r \in Rows, ReadLive(r) PROVE Books' /\ WorkerFrame' /\ Bound
  <2>1. /\ wpc = "read" /\ wrow = r /\ bu[r] # NoOrder
        /\ wsnap[r] \in ManagedStatuses
    BY <1>11 DEF ReadLive, Reading, WorkerAt, WorkerFrame
  <2>2. CASE /\ SubmitCancel(r, "manage", FALSE)
             /\ wsnap' = [wsnap EXCEPT ![r] = "NONE"]
    <3>1. Submitted(r, "manage")
      BY <2>2, Zenon DEF SubmitCancel, Submitted
    <3> QED BY <2>1, <2>2, <3>1, CancelSubmitted
  <2>3. CASE /\ status' = [status EXCEPT ![r] = KeepStop(status[r], wsnap[r])]
             /\ IF wsnap[r] = "RUNNING"
                THEN wpc' = "decide" /\ UNCHANGED <<wsnap, wrow>>
                ELSE NextRow(r)
             /\ ReadKeeps
    <3>1. UNCHANGED bu
      BY <2>3 DEF ReadKeeps
    <3>2. KeepStop(status[r], wsnap[r]) \in ManagedStatuses
      BY <2>1 DEF KeepStop, StopStatuses, ManagedStatuses
    <3>3. Books' /\ Bound
      BY <2>1, <2>3, <3>1, <3>2
         DEF ManagedStatuses, TypeOK, RunningIsBacked, RemoteIdExclusive, IntentUnbound, Bound
    <3>4. WorkerFrame'
      <4>1. CASE wsnap[r] = "RUNNING"
        BY <2>1, <2>3, <3>1, <4>1 DEF WorkerFrame
      <4>2. CASE wsnap[r] # "RUNNING"
        BY <1>8, <2>1, <2>3, <3>1, <4>2
      <4> QED BY <4>1, <4>2
    <3> QED BY <3>3, <3>4
  <2> QED BY <1>11, <2>2, <2>3 DEF ReadLive
<1>12. ASSUME NEW r \in Rows, DecideClose(r) PROVE Books' /\ WorkerFrame' /\ Bound
  <2>1. wpc = "decide" /\ wrow = r /\ bu[r] # NoOrder
    BY <1>12 DEF DecideClose, WorkerAt, WorkerFrame
  <2>2. Submitted(r, "manage") /\ wsnap' = [wsnap EXCEPT ![r] = "NONE"]
    BY <1>12, Zenon DEF DecideClose, SubmitCancel, Submitted
  <2> QED BY <2>1, <2>2, CancelSubmitted
<1> QED BY <1>1, <1>2, <1>3, <1>4, <1>5, <1>6, <1>7, <1>9, <1>10, <1>11, <1>12, <1>13
        DEF ReconcileStep

\* The exchange, the clock, HTTP closes and restarts bind and unbind nothing.
LEMMA EnvironmentSupervision ==
    ASSUME Supervision,
           \/ \E r \in Rows : Land(r) \/ Drop(r) \/ Grow(r)
                               \/ RequestBotClose(r) \/ GridStop(r)
           \/ \E o \in Orders : OrderFinish(o)
           \/ SweepFallsDue \/ ReleaseKillSwitch \/ Crash
    PROVE  Books' /\ WorkerFrame' /\ Bound
<1> USE DEF Supervision, Books
<1>1. CASE \/ \E r \in Rows : Land(r) \/ Drop(r) \/ Grow(r)
           \/ \E o \in Orders : OrderFinish(o)
           \/ SweepFallsDue \/ ReleaseKillSwitch
  <2>1. UNCHANGED <<status, bu, wpc, wrow, wret, wsnap>>
    BY <1>1, Zenon DEF Land, Drop, Grow, OrderFinish, SweepFallsDue, ReleaseKillSwitch,
                       rowVars, workVars
  <2> QED BY <2>1, BooksUnchanged, FrameKept
<1>2. ASSUME NEW r \in Rows, RequestBotClose(r) \/ GridStop(r)
      PROVE  Books' /\ WorkerFrame' /\ Bound
  <2>1. /\ UNCHANGED <<bu, wpc, wrow, wret, wsnap>>
        /\ status' = [status EXCEPT ![r] = "STOP_REQUESTED"]
    BY <1>2 DEF RequestBotClose, GridStop, RecordStop, workVars
  <2>2. Books' /\ Bound
    BY <2>1 DEF TypeOK, RunningIsBacked, RemoteIdExclusive, IntentUnbound, Bound
  <2> QED BY <2>1, <2>2, FrameKept
<1>3. CASE Crash
  <2>1. UNCHANGED <<status, bu>> /\ wpc' = "idle"
    BY <1>3, Zenon DEF Crash, rowVars
  <2> QED BY <2>1, BooksUnchanged, FrameLeft
<1> QED BY <1>1, <1>2, <1>3

\* Ids in rows and lists stay ids of the exchange.
LEMMA RealIdsStep ==
    ASSUME TypeOK, IdsAreReal, [Next]_vars
    PROVE  IdsAreReal'
<1> USE DEF IdsAreReal
<1>1. CASE UNCHANGED <<order, origin, wseen, bu>>
  BY <1>1
<1>2. ASSUME NEW r \in Rows, Land(r) PROVE IdsAreReal'
  <2>1. PICK o \in Orders : /\ order[o] = "none"
                            /\ order' = [order EXCEPT ![o] = "running"]
                            /\ origin' = [origin EXCEPT ![o] = r]
    BY <1>2 DEF Land
  <2>2. UNCHANGED <<wseen, bu>>
    BY <1>2 DEF Land, rowVars, workVars
  <2> QED BY <2>1, <2>2 DEF TypeOK
<1>3. ASSUME NEW o \in Orders, OrderFinish(o) PROVE IdsAreReal'
  <2>1. /\ order[o] # "none" /\ order' = [order EXCEPT ![o] = "finished"]
        /\ UNCHANGED <<origin, wseen, bu>>
    BY <1>3 DEF OrderFinish, Live, rowVars, workVars
  <2> QED BY <2>1 DEF TypeOK
<1>4. ASSUME NEW d \in Deployers, CreatePersist(d) PROVE IdsAreReal'
  <2>1. UNCHANGED <<order, origin, wseen>>
    BY <1>4 DEF CreatePersist, BackToPass, exchVars, workVars
  <2>2. \/ UNCHANGED bu
        \/ \E o \in Landed(drow[d]) : drow[d] \in Rows /\ bu' = [bu EXCEPT ![drow[d]] = o]
        \/ drow[d] \notin Rows /\ \E o \in Orders : bu' = [bu EXCEPT ![drow[d]] = o]
    BY <1>4 DEF CreatePersist, Landed
  <2> QED BY <2>1, <2>2 DEF Landed, TypeOK
<1>5. ASSUME NEW r \in Rows, CancelAnswer(r) PROVE IdsAreReal'
  <2>1. UNCHANGED <<origin, wseen, bu>>
    BY <1>5, Zenon DEF CancelAnswer, CancelAccepted, CancelGone, CancelRefused, CancelReturns,
       SubmitCancel, CancelOutcomeUnknown, CancelFailed, CancelUnanswered
  <2>2. UNCHANGED order \/ (Live(bu[r]) /\ CancelTakesEffect(r))
    BY <1>5, Zenon DEF CancelAnswer, CancelAccepted, CancelGone, CancelRefused, 
       SubmitCancel, CancelOutcomeUnknown, CancelFailed, CancelUnanswered
  <2> QED BY <2>1, <2>2 DEF CancelTakesEffect, Live, TypeOK
<1>6. ASSUME NEW o \in Orders, AdoptOrphan(o) PROVE IdsAreReal'
  <2>1. UNCHANGED <<order, origin>> /\ o \in wseen /\ wseen' = wseen \ {o}
    BY <1>6 DEF AdoptOrphan, exchVars
  <2>2. UNCHANGED bu \/ \E r \in Rows : bu' = [bu EXCEPT ![r] = o]
    BY <1>6 DEF AdoptOrphan
  <2> QED BY <2>1, <2>2 DEF TypeOK
<1>7. CASE SweepLists \/ AdoptSelect \/ AdoptListFinished \/ AdoptDone \/ Crash
  <2>1. UNCHANGED <<order, origin, bu>>
    BY <1>7, Zenon DEF SweepLists, AdoptSelect, AdoptListFinished, AdoptDone, Crash,
       PassVars, rowVars, exchVars
  <2>2. \A o \in Orders : Live(o) => order[o] # "none"
    BY DEF Live
  <2>3. \A o \in wseen' : o \in wseen \/ (o \in Orders /\ order[o] # "none")
    <3>1. CASE SweepLists
      BY <2>2, <3>1, Zenon DEF SweepLists
    <3>2. CASE AdoptSelect
      BY <2>2, <3>2, Zenon DEF AdoptSelect
    <3>3. CASE AdoptListFinished
      <4>1. \A o \in {q \in Orders : order[q] = "finished"} : order[o] # "none"
        OBVIOUS
      <4> QED BY <3>3, <4>1, Zenon DEF AdoptListFinished
    <3>4. CASE AdoptDone \/ Crash
      BY <3>4, Zenon DEF AdoptDone, Crash
    <3> QED BY <1>7, <3>1, <3>2, <3>3, <3>4
  <2> QED BY <2>1, <2>3
<1>8. ASSUME NEW r \in Rows, ResolveSubmission(r) PROVE IdsAreReal'
  <2>1. UNCHANGED <<order, origin, wseen>>
    BY <1>8 DEF ResolveSubmission, exchVars
  <2>2. Matches(r) # {} => (CHOOSE m \in Matches(r) : TRUE) \in Matches(r)
    OBVIOUS
  <2>3. UNCHANGED bu \/ \E o \in Matches(r) : bu' = [bu EXCEPT ![r] = o]
    <3>1. CASE \E m \in Matches(r) : Matches(r) = {m}
      BY <1>8, <2>2, <3>1 DEF ResolveSubmission
    <3>2. CASE ~ \E m \in Matches(r) : Matches(r) = {m}
      BY <1>8, <3>2 DEF ResolveSubmission
    <3> QED BY <3>1, <3>2
  <2>4. \A o \in Matches(r) : o \in wseen
    BY DEF Matches
  <2> QED BY <2>1, <2>3, <2>4 DEF TypeOK
<1>9. CASE UNCHANGED vars
  BY <1>1, <1>9 DEF vars, rowVars, exchVars, workVars
<1>10. ASSUME NEW d \in Deployers, DeployerStep(d) \/ ManualDeploy(d), ~CreatePersist(d)
       PROVE  IdsAreReal'
  <2>1. UNCHANGED <<order, origin, wseen, bu>>
    BY <1>10, Zenon DEF DeployerStep, ManualDeploy, PassGate, PassEnd, CreateAdmit, CreateSubmit,
       CreateOutcomeUnknown, CreateRefused, CreateGarbled, CreateAborted, CreateError, BackToPass,
       rowVars, exchVars, workVars
  <2> QED BY <1>1, <2>1
<1>11. CASE CommandStep \/ CommandRest \/ ConsoleStep
  <2>1. UNCHANGED <<order, origin, wseen, bu>>
    BY <1>11, Zenon DEF CommandStep, CommandRest, ConsoleStep, ConsoleRest, DirectStart,
       DirectStop, DirectEmergencyStop, ConsoleSetStatus, ConsoleCloseAll, StartFleet,
       StartRefused, ScheduledScan, StopFleet, EmergencyStop,
       SetStatus, CloseAllActiveBots, EmergencyMark, EmergencyList, EmergencyListDone,
       EmergencyCancel, EmergencySkipped, SubmitCancel, WorkerGoes, OnlyStatusChanges, rowVars,
       exchVars, workVars
  <2> QED BY <1>1, <2>1
<1>12. ASSUME NEW r \in Rows, ManageRow(r) \/ ClientUnresolved(r) \/ ReadFailed(r)
                              \/ ReadTerminal(r) \/ ReadLive(r) \/ DecideHold(r) \/ DecideClose(r)
       PROVE  IdsAreReal'
  <2>1. UNCHANGED <<order, origin, wseen, bu>>
    BY <1>12, Zenon DEF ManageRow, ClientUnresolved, ReadFailed, ReadTerminal, ReadLive, DecideHold,
       DecideClose, NextRow, SubmitCancel, ReadKeeps, rowVars, exchVars, workVars
  <2> QED BY <1>1, <2>1
<1>13. CASE SweepSkipped \/ SweepDone \/ ManageList \/ ManageDone
  <2>1. UNCHANGED <<order, origin, wseen, bu>>
    BY <1>13, Zenon DEF SweepSkipped, SweepDone, ManageList, ManageDone, PassVars,
       rowVars, exchVars
  <2> QED BY <1>1, <2>1
<1>15. ASSUME NEW o \in Orders, AlertOrphan(o) \/ OrphanFails(o) PROVE IdsAreReal'
  <2>1. UNCHANGED <<order, origin, bu>> /\ wseen' = wseen \ {o}
    BY <1>15, Zenon DEF AlertOrphan, OrphanFails, PassVars, rowVars, exchVars
  <2> QED BY <2>1
<1>14. CASE \/ \E r \in Rows : Drop(r) \/ Grow(r) \/ RequestBotClose(r) \/ GridStop(r)
            \/ SweepFallsDue \/ ReleaseKillSwitch
  <2>1. UNCHANGED <<order, origin, wseen, bu>>
    BY <1>14, Zenon DEF Drop, Grow, RequestBotClose, GridStop, RecordStop, SweepFallsDue, ReleaseKillSwitch,
       rowVars, exchVars, workVars
  <2> QED BY <1>1, <2>1
<1> QED BY <1>2, <1>3, <1>4, <1>5, <1>6, <1>7, <1>8, <1>9, <1>10, <1>11, <1>12, <1>13, <1>14,
           <1>15
        DEF Next, WorkerStep, ReconcileStep

\* The empty books are under supervision.
LEMMA InitSupervision == Init => Supervision
<1> SUFFICES ASSUME Init PROVE Supervision
  OBVIOUS
<1>1. TypeOK
  BY InitType
<1>2. RunningIsBacked /\ RemoteIdExclusive /\ IntentUnbound
  BY DEF Init, RunningIsBacked, RemoteIdExclusive, IntentUnbound
<1>3. IdsAreReal
  BY DEF Init, IdsAreReal
<1>4. WorkerFrame
  BY DEF Init, WorkerFrame
<1> QED BY <1>1, <1>2, <1>3, <1>4 DEF Supervision

\* Every step keeps Supervision.
LEMMA StepSupervision ==
    ASSUME Supervision, [Next]_vars
    PROVE  Supervision' /\ Bound
<1>1. TypeOK'
  BY StepType DEF Supervision
<1>2. IdsAreReal'
  BY RealIdsStep DEF Supervision
<1>3. Books' /\ WorkerFrame' /\ Bound
  <2>1. CASE UNCHANGED vars
    <3>1. UNCHANGED <<status, bu, wpc, wrow, wret, wsnap>>
      BY <2>1 DEF vars, rowVars, workVars
    <3> QED BY <3>1, BooksUnchanged, FrameKept DEF Supervision, Books
  <2>2. CASE \E d \in Deployers : DeployerStep(d) \/ ManualDeploy(d)
    BY <2>2, DeployerSupervision
  <2>3. CASE CommandStep \/ CommandRest
    BY <2>3, CommandSupervision
  <2>7. CASE ConsoleStep
    BY <2>7, ConsoleSupervision
  <2>4. CASE ReconcileStep
    BY <2>4, ReconcileSupervision
  <2>5. CASE \E r \in Rows : CancelAnswer(r)
    BY <2>5, CancelSupervision
  <2>6. CASE \/ \E r \in Rows : Land(r) \/ Drop(r) \/ Grow(r)
                     \/ RequestBotClose(r) \/ GridStop(r)
             \/ \E o \in Orders : OrderFinish(o)
             \/ SweepFallsDue \/ ReleaseKillSwitch \/ Crash
    BY <2>6, EnvironmentSupervision
  <2> QED BY <2>1, <2>2, <2>3, <2>4, <2>5, <2>6, <2>7 DEF Next, WorkerStep
<1> QED BY <1>1, <1>2, <1>3 DEF Supervision, Books

\* Rows, the exchange and the worker's local copies always agree on which grids
\* are supervised.
THEOREM SupervisionHolds == Spec => []Supervision
<1>1. Supervision /\ [Next]_vars => Supervision'
  BY StepSupervision
<1> QED BY <1>1, InitSupervision, PTL DEF Spec

\* Every reachable state is well typed: in particular no handler writes a
\* status, a reconciliation state or a program position outside its domain.
THEOREM TypeCorrect == Spec => []TypeOK
<1>1. Supervision => TypeOK
  BY DEF Supervision
<1> QED BY <1>1, SupervisionHolds, PTL

\* A RUNNING or STOPPING row has a remote id in every reachable state, for any
\* number of rows, deployers and faults (GRID_LIFECYCLE.md rule 3).
THEOREM RunningBacked == Spec => []RunningIsBacked
<1>1. Supervision => RunningIsBacked
  BY DEF Supervision
<1> QED BY <1>1, SupervisionHolds, PTL

\* No two rows ever hold the same remote id, although the create, the adoption
\* and the orphan sweep race for it.
THEOREM RemoteIdsExclusive == Spec => []RemoteIdExclusive
<1>1. Supervision => RemoteIdExclusive
  BY DEF Supervision
<1> QED BY <1>1, SupervisionHolds, PTL

\* No step of any actor replaces or drops a stored remote id.
THEOREM RemoteIdsKept == Spec => RemoteIdKept
<1>1. Supervision /\ [Next]_vars => [\A r \in Rows : bu[r] # NoOrder => bu'[r] = bu[r]]_vars
  BY StepSupervision DEF Bound
<1> QED BY <1>1, SupervisionHolds, PTL DEF Spec, RemoteIdKept

=============================================================================
