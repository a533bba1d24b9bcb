---------------------------- MODULE GridLifecycle ----------------------------
(***************************************************************************)
(* The life of a REAL futures grid, from the intent row written by         *)
(* grid.LifecycleManager.CreateGridBot to the terminal status written by   *)
(* the worker's reconcile pass.                                            *)
(*                                                                         *)
(* Actors:                                                                 *)
(*   - deployers: the background scanAndDeploy pass that `start' spawns    *)
(*     (Deployers \ ManualDeployers) and the HTTP manual deploy            *)
(*     (ManualDeployers); each runs CreateGridBot on its own goroutine;    *)
(*   - the worker goroutine: commands (start, stop, emergency stop) and    *)
(*     reconcile passes, one at a time (Worker.Run is a single select);    *)
(*   - HTTP handlers: close intents (RequestBotClose, grid.stop), the      *)
(*     console's start, stop and emergency-stop buttons, which do not go   *)
(*     through the worker, and the release of the kill switch;             *)
(*   - the exchange, which receives create requests, runs grids and closes *)
(*     them, with the faults named in Faults.                              *)
(* A step of an actor is one database statement, or one remote call        *)
(* together with the statement that records its answer when nothing can    *)
(* tell the two moments apart.                                             *)
(***************************************************************************)
EXTENDS Naturals, FiniteSets

CONSTANTS
    Rows,             \* identities of grid_bots rows
    Orders,           \* identities the exchange can give to grids (buOrderId)
    Symbols,          \* trading pairs
    Deployers,        \* goroutines that may run CreateGridBot
    ManualDeployers,  \* those of them started by an operator's manual deploy
    Faults,           \* the fault kinds the environment may show
    NoOrder, NoRow,   \* null values
    MaxActiveGridBots,\* risk_settings.max_active_grid_bots
    MaxIntents,       \* bound: intent rows admitted in a behaviour
    MaxCommands,      \* bound: operator commands in a behaviour
    MaxCrashes        \* bound: process restarts in a behaviour

FaultKinds == {"lost_create",      \* a create whose answer never arrives, or is a 5xx
               "garbled_create",   \* a create answered 2xx with a body that does not decode
               "cancel_unknown",   \* the same for a cancel
               "cancel_failed",    \* a cancel rejected by rate limit or an API error
               "cancel_refused",   \* a cancel refused because of the order's state
               "read_error",       \* a detail read that fails
               "list_error",       \* a list page that fails
               "no_client",        \* the client of an account cannot be built
               "opaque_order",     \* a listed order whose grid data does not decode
               "write_error",      \* a statement of the orphan sweep that fails
               "spurious_gone"}    \* a detail read answering 404 for a live grid

ASSUME ConstantsAssumption ==
    /\ NoOrder \notin Orders
    /\ NoRow \notin Rows
    /\ Symbols # {}
    /\ ManualDeployers \subseteq Deployers
    /\ Faults \subseteq FaultKinds
    /\ MaxActiveGridBots \in Nat
    /\ MaxIntents \in Nat
    /\ MaxCommands \in Nat
    /\ MaxCrashes \in Nat

VARIABLES
    \* grid_bots
    status,     \* grid_bots.status; "ABSENT" before the insert
    bu,         \* grid_bots.bu_order_id
    recon,      \* the part of reconciliation_state the worker branches on
    rsym,       \* grid_bots.symbol (any symbol while ABSENT)
    age,        \* 0: under 90 s, 1: under the 5 min grace, 2: older
    lookalike,  \* older grids of the symbol that match the row's time and size
    \* the exchange
    order,      \* "none", "running", "closing" (cancel accepted), "finished"
    origin,     \* the row whose create request produced the order
    net,        \* rows whose create request is on its way to the exchange
    \* durable settings, and the console handler that changes them
    fleet,      \* autogrid_settings.status
    kill,       \* risk_settings.kill_switch_enabled
    console,    \* where autoGridAction is
    told,       \* orders of which the sweep has alerted the operator
    \* deployers
    dpc, drow, dsym,
    \* the worker goroutine
    wpc,        \* where it is
    wrow,       \* the row it is working on
    wret,       \* where it goes after a cancel
    wsnap,      \* the rows of the current work list, with the status read then
    wseen,      \* orders read from the exchange's lists
    wcomplete,  \* listsComplete
    wforced,    \* the cancel under way is the forced one (immediate = true)
    sweepDue,   \* 15 min have passed since orphanSweepAt, or it is zero
    \* bounds
    intents, commands, crashes

rowVars    == <<status, bu, recon, rsym, age, lookalike>>
exchVars   == <<order, origin, net>>
cfgVars    == <<fleet, kill, console, told>>
depVars    == <<dpc, drow, dsym>>
workVars   == <<wpc, wrow, wret, wsnap, wseen, wcomplete, wforced, sweepDue>>
boundVars  == <<intents, commands, crashes>>
vars == <<rowVars, exchVars, cfgVars, depVars, workVars, boundVars>>

-----------------------------------------------------------------------------
(* Statuses. All terminal statuses a grid that existed can end in          *)
(* (STOPPED, COMPLETED, LIQUIDATED, ...) are one value, "STOPPED"; "FAILED"*)
(* is the status of an intent that never became a grid.                    *)

ActiveStatuses    == {"PENDING_SUBMISSION", "SUBMISSION_UNKNOWN", "RUNNING",
                      "STOP_REQUESTED", "STOPPING"}
AdoptableStatuses == {"PENDING_SUBMISSION", "SUBMISSION_UNKNOWN", "STOP_REQUESTED"}
ManagedStatuses   == {"RUNNING", "STOP_REQUESTED", "STOPPING"}
StopStatuses      == {"STOP_REQUESTED", "STOPPING"}
TerminalStatuses  == {"STOPPED", "FAILED"}
RowStatuses       == {"ABSENT"} \cup ActiveStatuses \cup TerminalStatuses

CancelStates == {"CANCEL_SUBMITTING", "CANCEL_ACCEPTED", "CANCEL_FAILED",
                 "CANCEL_OUTCOME_UNKNOWN"}
ReconStates  == {"OTHER", "TERMINAL_CONFIRMED"} \cup CancelStates

FleetStatuses  == {"RUNNING", "STOPPED", "EMERGENCY_STOPPED"}
ConsoleStates  == {"idle", "em_status", "close", "close_again"}
OrderStatuses  == {"none", "running", "closing", "finished"}
DeployerStates == {"idle", "scanning", "deploying", "admitting", "waiting"}
WorkerStates   == {"idle", "stop_status", "stop_close", "em_mark", "em_list",
                   "em_cancel", "em_status", "em_close", "orphans", "adopt",
                   "list_finished", "resolve", "manage_list", "manage",
                   "cancelling", "read", "decide"}

Live(o)      == order[o] \in {"running", "closing"}
Active(r)    == status[r] \in ActiveStatuses
Managed(r)   == status[r] \in ManagedStatuses /\ bu[r] # NoOrder
Unbound(r)   == status[r] \in AdoptableStatuses /\ bu[r] = NoOrder
Owner(o)     == {r \in Rows : bu[r] = o}
SymbolOf(o)  == rsym[origin[o]]
Landed(r)    == {o \in Orders : origin[o] = r}

\* bu_order_id VARCHAR(128) UNIQUE: the statement that would store o in row r
\* fails when another row already holds it.
MayHold(r, o) == \A q \in Rows \ {r} : bu[q] # o

\* CASE WHEN status IN ('STOP_REQUESTED', 'STOPPING') THEN status ELSE new END
KeepStop_Lost(old, new) == new   \* a bug: a plain assignment

KeepStop(old, new) == IF old \in StopStatuses THEN old ELSE new

NoSnapshot == [r \in Rows |-> "NONE"]

Init ==
    /\ status = [r \in Rows |-> "ABSENT"]
    /\ bu = [r \in Rows |-> NoOrder]
    /\ recon = [r \in Rows |-> "OTHER"]
    /\ rsym \in [Rows -> {CHOOSE s \in Symbols : TRUE}]
    /\ age = [r \in Rows |-> 0]
    /\ lookalike = [r \in Rows |-> {}]
    /\ order = [o \in Orders |-> "none"]
    /\ origin = [o \in Orders |-> NoRow]
    /\ net = {}
    /\ fleet \in {"STOPPED", "RUNNING"}
    /\ kill = FALSE
    /\ console = "idle"
    /\ told = {}
    /\ dpc = [d \in Deployers |-> "idle"]
    /\ drow = [d \in Deployers |-> NoRow]
    /\ dsym = [d \in Deployers |-> CHOOSE s \in Symbols : TRUE]
    /\ wpc = "idle" /\ wrow = NoRow /\ wret = "idle"
    /\ wsnap = NoSnapshot /\ wseen = {} /\ wcomplete = TRUE
    /\ wforced = FALSE /\ sweepDue = TRUE
    /\ intents = 0 /\ commands = 0 /\ crashes = 0

-----------------------------------------------------------------------------
(* Deployers.                                                              *)

\* scanAndDeploy has scanned; it re-reads the settings once, before the whole
\* deploy pass.
PassGate(d) ==
    /\ dpc[d] = "scanning"
    /\ dpc' = [dpc EXCEPT ![d] = IF fleet = "RUNNING" THEN "deploying" ELSE "idle"]
    /\ UNCHANGED <<rowVars, exchVars, cfgVars, drow, dsym, workVars, boundVars>>

\* An operator's DeployManualBot: no fleet status is consulted.
ManualDeploy(d) ==
    /\ d \in ManualDeployers /\ dpc[d] = "idle"
    /\ commands < MaxCommands
    /\ dpc' = [dpc EXCEPT ![d] = "deploying"]
    /\ commands' = commands + 1
    /\ UNCHANGED <<rowVars, exchVars, cfgVars, drow, dsym, workVars, intents, crashes>>

\* The refusals of the create transaction that concern this row: the kill
\* switch, the active-grid cap and the duplicate guard.
EntryAllowed(s) ==
    /\ ~kill
    /\ Cardinality({r \in Rows : Active(r)}) < MaxActiveGridBots
    /\ ~ \E r \in Rows : rsym[r] = s /\ Active(r)

\* CreateGridBot opens its transaction, takes the account's entry gate and
\* reads kill switch, caps and duplicates.
CreateAdmit_Unlocked(d, s) ==   \* a bug: no LockEntryGate
    /\ dpc[d] = "deploying"
    /\ intents < MaxIntents
    /\ EntryAllowed(s)
    /\ dpc' = [dpc EXCEPT ![d] = "admitting"]
    /\ dsym' = [dsym EXCEPT ![d] = s]
    /\ UNCHANGED <<rowVars, exchVars, cfgVars, drow, workVars, boundVars>>

CreateAdmit(d, s) ==
    /\ dpc[d] = "deploying"
    /\ \A e \in Deployers : dpc[e] # "admitting"
    /\ intents < MaxIntents
    /\ EntryAllowed(s)
    /\ dpc' = [dpc EXCEPT ![d] = "admitting"]
    /\ dsym' = [dsym EXCEPT ![d] = s]
    /\ UNCHANGED <<rowVars, exchVars, cfgVars, drow, workVars, boundVars>>

\* The transaction inserts the intent row and commits; the create request
\* leaves at once. Which older grids of the symbol will pass for this row's own
\* (within 10 min and 2% of its investment) is open.
CreateSubmit(d, r) ==
    /\ dpc[d] = "admitting" /\ status[r] = "ABSENT"
    /\ status' = [status EXCEPT ![r] = "PENDING_SUBMISSION"]
    /\ rsym' = [rsym EXCEPT ![r] = dsym[d]]
    /\ \E near \in SUBSET {o \in Orders : order[o] # "none" /\ SymbolOf(o) = dsym[d]} :
          lookalike' = [lookalike EXCEPT ![r] = near]
    /\ net' = net \cup {r}
    /\ dpc' = [dpc EXCEPT ![d] = "waiting"]
    /\ drow' = [drow EXCEPT ![d] = r]
    /\ intents' = intents + 1
    /\ UNCHANGED <<bu, recon, age, order, origin, cfgVars, dsym, workVars,
                   commands, crashes>>

\* What the UPDATE that stores the remote id writes, when its WHERE matches.
PersistedStatus(r) == KeepStop(status[r], "RUNNING")
PersistMatches(r)  == status[r] = "PENDING_SUBMISSION" \/ bu[r] = NoOrder

\* A fleet pass goes on to its next candidate; a manual deploy is over.
BackToPass(d) ==
    /\ dpc' = [dpc EXCEPT ![d] = IF d \in ManualDeployers THEN "idle" ELSE "deploying"]
    /\ drow' = [drow EXCEPT ![d] = NoRow]
    /\ UNCHANGED <<rsym, age, lookalike, exchVars, cfgVars, dsym, workVars, boundVars>>

\* The create answers with the grid's id.
CreatePersist(d) ==
    /\ dpc[d] = "waiting"
    /\ \E o \in Landed(drow[d]) :
          IF MayHold(drow[d], o) /\ PersistMatches(drow[d])
          THEN /\ status' = [status EXCEPT ![drow[d]] = PersistedStatus(drow[d])]
               /\ bu' = [bu EXCEPT ![drow[d]] = o]
               /\ recon' = [recon EXCEPT ![drow[d]] = "OTHER"]
          ELSE UNCHANGED <<status, bu, recon>>
    /\ BackToPass(d)

\* The status written for a create that returned an error or no id.
CreateErrorStatus_Assumed(outcomeUnknown) ==   \* a bug: unknown taken for created
    IF outcomeUnknown THEN "RUNNING" ELSE "FAILED"

CreateErrorStatus(outcomeUnknown) ==
    IF outcomeUnknown THEN "SUBMISSION_UNKNOWN" ELSE "FAILED"

CreateError(d, outcomeUnknown) ==
    /\ dpc[d] = "waiting"
    /\ status' = [status EXCEPT ![drow[d]] = CreateErrorStatus(outcomeUnknown)]
    /\ recon' = [recon EXCEPT ![drow[d]] = "OTHER"]
    /\ UNCHANGED bu
    /\ BackToPass(d)

\* No answer within RequestTimeout, a broken connection, a 5xx, or an answer
\* without buOrderId - whether or not the grid was created.
CreateOutcomeUnknown(d) ==
    /\ "lost_create" \in Faults
    /\ CreateError(d, TRUE)

\* The exchange refused the request: an error envelope below 500.
CreateRefused(d) ==
    /\ drow[d] \notin net /\ Landed(drow[d]) = {}
    /\ CreateError(d, FALSE)

\* The grid was created, but the 2xx body does not decode: Client.do reports an
\* error that is not OutcomeUnknown.
CreateGarbled(d) ==
    /\ "garbled_create" \in Faults
    /\ Landed(drow[d]) # {}
    /\ CreateError(d, FALSE)

\* The caller's context ends while the create is under way (an HTTP client that
\* goes away, the scan's time limit): the statement that would record the answer
\* fails with it.
CreateAborted(d) ==
    /\ "lost_create" \in Faults
    /\ dpc[d] = "waiting"
    /\ UNCHANGED <<status, bu, recon>>
    /\ BackToPass(d)

PassEnd(d) ==
    /\ dpc[d] = "deploying"
    /\ dpc' = [dpc EXCEPT ![d] = "idle"]
    /\ UNCHANGED <<rowVars, exchVars, cfgVars, drow, dsym, workVars, boundVars>>

-----------------------------------------------------------------------------
(* The exchange and the clock.                                             *)

Land(r) ==
    /\ r \in net
    /\ \E o \in Orders :
          /\ order[o] = "none"
          /\ order' = [order EXCEPT ![o] = "running"]
          /\ origin' = [origin EXCEPT ![o] = r]
    /\ net' = net \ {r}
    /\ UNCHANGED <<rowVars, cfgVars, depVars, workVars, boundVars>>

\* Refused, or lost on the way.
Drop(r) ==
    /\ r \in net
    /\ net' = net \ {r}
    /\ UNCHANGED <<rowVars, order, origin, cfgVars, depVars, workVars, boundVars>>

\* Native take profit, stop loss, liquidation or user close; or the end of an
\* accepted cancel.
OrderFinish(o) ==
    /\ Live(o)
    /\ order' = [order EXCEPT ![o] = "finished"]
    /\ UNCHANGED <<rowVars, origin, net, cfgVars, depVars, workVars, boundVars>>

\* Time passes for a row that waits for adoption. A create is answered or timed
\* out (RequestTimeout is 15 s), and its request arrived or was lost, well
\* before the row is 90 s old.
Grow(r) ==
    /\ Unbound(r) /\ age[r] < 2
    /\ r \notin net /\ \A d \in Deployers : drow[d] # r
    /\ age' = [age EXCEPT ![r] = @ + 1]
    /\ UNCHANGED <<status, bu, recon, rsym, lookalike, exchVars, cfgVars, depVars,
                   workVars, boundVars>>

SweepFallsDue ==
    /\ ~sweepDue /\ sweepDue' = TRUE
    /\ UNCHANGED <<rowVars, exchVars, cfgVars, depVars, wpc, wrow, wret, wsnap,
                   wseen, wcomplete, wforced, boundVars>>

-----------------------------------------------------------------------------
(* Close intents and the kill switch, from other goroutines.               *)

\* The operator's close of one bot; also the radar's escape lane
\* (recordCloseIntentFirstWriter), which flips RUNNING rows only.
CloseRequested(r) ==
    \/ status[r] = "RUNNING" /\ bu[r] # NoOrder
    \/ /\ status[r] \in {"PENDING_SUBMISSION", "SUBMISSION_UNKNOWN"}
       /\ bu[r] = NoOrder /\ age[r] >= 1

RecordStop(r) ==
    /\ commands < MaxCommands
    /\ status' = [status EXCEPT ![r] = "STOP_REQUESTED"]
    /\ commands' = commands + 1
    /\ UNCHANGED <<bu, rsym, age, lookalike, exchVars, cfgVars, depVars, workVars,
                   intents, crashes>>

RequestBotClose(r) == CloseRequested(r) /\ RecordStop(r) /\ UNCHANGED recon

\* The control command grid.stop. Its UPDATE spares four terminal statuses, but
\* not a grid the exchange ended as FAILED (a "STOPPED" of the model).
StopCommanded(r) ==
    \/ bu[r] # NoOrder
    \/ /\ status[r] \in {"PENDING_SUBMISSION", "SUBMISSION_UNKNOWN"}
       /\ bu[r] = NoOrder /\ age[r] >= 1

\* A settled row keeps the reconciliation_state of its settlement: its final is
\* confirmed or still waits for the exchange's figure, which only matters here.
GridStop(r) ==
    /\ StopCommanded(r) /\ RecordStop(r)
    /\ \/ UNCHANGED recon
       \/ /\ status[r] = "STOPPED"
          /\ recon' = [recon EXCEPT ![r] = "TERMINAL_CONFIRMED"]

\* Only an armed switch is released, so the bound on commands bounds it too.
ReleaseKillSwitch ==
    /\ kill /\ kill' = FALSE
    /\ UNCHANGED <<rowVars, exchVars, fleet, console, told, depVars, workVars, boundVars>>

-----------------------------------------------------------------------------
(* The worker goroutine: commands.                                         *)

WorkerAt(here) == wpc = here

WorkerGoes(there) ==
    /\ wpc' = there
    /\ UNCHANGED <<wrow, wret, wsnap, wseen, wcomplete, wforced, sweepDue>>

\* UPDATE grid_bots SET status = 'STOP_REQUESTED' WHERE status IN (...)
MarkStop(from) ==
    status' = [r \in Rows |-> IF status[r] \in from THEN "STOP_REQUESTED" ELSE status[r]]

FleetStopFrom == {"RUNNING", "PENDING_SUBMISSION", "SUBMISSION_UNKNOWN"}

OnlyStatusChanges == UNCHANGED <<bu, recon, rsym, age, lookalike, exchVars, depVars>>

\* start: the fleet is RUNNING at once, the first scan runs in the background.
StartFleet(d) ==
    /\ WorkerAt("idle") /\ commands < MaxCommands
    /\ fleet # "RUNNING"
    /\ d \notin ManualDeployers /\ dpc[d] = "idle"
    /\ fleet' = "RUNNING"
    /\ dpc' = [dpc EXCEPT ![d] = "scanning"]
    /\ commands' = commands + 1
    /\ UNCHANGED <<rowVars, exchVars, kill, console, told, drow, dsym, workVars, intents,
                   crashes>>

\* scheduleDueScan: a running fleet scans again when its interval is over. The
\* worker waits for this pass; the model lets it go on, as it does during the
\* pass of a start.
ScheduledScan(d) ==
    /\ WorkerAt("idle") /\ fleet = "RUNNING"
    /\ d \notin ManualDeployers /\ dpc[d] = "idle"
    /\ intents < MaxIntents
    /\ dpc' = [dpc EXCEPT ![d] = "scanning"]
    /\ UNCHANGED <<rowVars, exchVars, cfgVars, drow, dsym, workVars, boundVars>>

\* start in REAL mode with an execution gate closed: SetStatus(STOPPED).
StartRefused ==
    /\ WorkerAt("idle") /\ commands < MaxCommands
    /\ fleet # "RUNNING"
    /\ WorkerGoes("stop_status")
    /\ commands' = commands + 1
    /\ UNCHANGED <<rowVars, exchVars, cfgVars, depVars, intents, crashes>>

\* stop: the stop intent on every active row of the fleet ...
StopFleet ==
    /\ WorkerAt("idle") /\ commands < MaxCommands
    /\ MarkStop(FleetStopFrom)
    /\ WorkerGoes("stop_status")
    /\ commands' = commands + 1
    /\ OnlyStatusChanges
    /\ UNCHANGED <<cfgVars, intents, crashes>>

\* ... then SetStatus, whose last step (CloseAllActiveBots) marks the rows again.
SetStatus(here, there, value) ==
    /\ WorkerAt(here)
    /\ fleet' = value
    /\ WorkerGoes(there)
    /\ UNCHANGED <<rowVars, exchVars, kill, console, told, depVars, boundVars>>

CloseAllActiveBots(here) ==
    /\ WorkerAt(here)
    /\ MarkStop(FleetStopFrom)
    /\ WorkerGoes("idle")
    /\ OnlyStatusChanges
    /\ UNCHANGED <<cfgVars, boundVars>>

\* emergencyStop arms the kill switch first ...
EmergencyStop ==
    /\ WorkerAt("idle") /\ commands < MaxCommands
    /\ kill' = TRUE
    /\ WorkerGoes("em_mark")
    /\ commands' = commands + 1
    /\ UNCHANGED <<rowVars, exchVars, fleet, console, told, depVars, intents, crashes>>

\* ... cancelRealBots records a stop intent on the in-flight submissions ...
EmergencyMark ==
    /\ WorkerAt("em_mark")
    /\ status' = [r \in Rows |->
          IF /\ bu[r] = NoOrder
             /\ status[r] \in {"PENDING_SUBMISSION", "SUBMISSION_UNKNOWN"}
          THEN "STOP_REQUESTED" ELSE status[r]]
    /\ WorkerGoes("em_list")
    /\ OnlyStatusChanges
    /\ UNCHANGED <<cfgVars, boundVars>>

ManagedSnapshot == [r \in Rows |-> IF Managed(r) THEN status[r] ELSE "NONE"]

\* ... and cancels every row that has a remote id.
EmergencyList ==
    /\ WorkerAt("em_list")
    /\ wpc' = "em_cancel" /\ wsnap' = ManagedSnapshot
    /\ UNCHANGED <<rowVars, exchVars, cfgVars, depVars, wrow, wret, wseen, wcomplete,
                   wforced, sweepDue, boundVars>>

-----------------------------------------------------------------------------
(* The console: autoGridAction runs on its own goroutine, next to whatever  *)
(* the worker is doing.                                                     *)

\* start: RUNNING at once, then a queued scan, which the worker runs as one more
\* deploy pass.
DirectStart(d) ==
    /\ console = "idle" /\ commands < MaxCommands
    /\ d \notin ManualDeployers /\ dpc[d] = "idle"
    /\ fleet' = "RUNNING"
    /\ dpc' = [dpc EXCEPT ![d] = "scanning"]
    /\ commands' = commands + 1
    /\ UNCHANGED <<rowVars, exchVars, kill, console, told, drow, dsym, workVars, intents,
                   crashes>>

\* stop: SetStatus, which ends in CloseAllActiveBots, and CloseAllActiveBots
\* again.
DirectStop ==
    /\ console = "idle" /\ commands < MaxCommands
    /\ fleet' = "STOPPED"
    /\ console' = "close"
    /\ commands' = commands + 1
    /\ UNCHANGED <<rowVars, exchVars, kill, told, depVars, workVars, intents, crashes>>

\* emergency-stop: ArmKillSwitch, then as for stop.
DirectEmergencyStop ==
    /\ console = "idle" /\ commands < MaxCommands
    /\ kill' = TRUE
    /\ console' = "em_status"
    /\ commands' = commands + 1
    /\ UNCHANGED <<rowVars, exchVars, fleet, told, depVars, workVars, intents, crashes>>

ConsoleSetStatus ==
    /\ console = "em_status"
    /\ fleet' = "EMERGENCY_STOPPED"
    /\ console' = "close"
    /\ UNCHANGED <<rowVars, exchVars, kill, told, depVars, workVars, boundVars>>

ConsoleCloseAll ==
    /\ console \in {"close", "close_again"}
    /\ MarkStop(FleetStopFrom)
    /\ console' = IF console = "close" THEN "close_again" ELSE "idle"
    /\ OnlyStatusChanges
    /\ UNCHANGED <<fleet, kill, told, workVars, boundVars>>

ConsoleRest == ConsoleSetStatus \/ ConsoleCloseAll

ConsoleStep ==
    \/ \E d \in Deployers : DirectStart(d)
    \/ DirectStop \/ DirectEmergencyStop \/ ConsoleRest

-----------------------------------------------------------------------------
(* cancelRealBot: the row is marked before the remote call and again with  *)
(* its answer.                                                             *)

SubmitCancel(r, back, forced) ==
    /\ status' = [status EXCEPT ![r] = "STOPPING"]
    /\ recon' = [recon EXCEPT ![r] = "CANCEL_SUBMITTING"]
    /\ wpc' = "cancelling" /\ wrow' = r /\ wret' = back /\ wforced' = forced
    /\ UNCHANGED <<bu, rsym, age, lookalike, origin, net, cfgVars, depVars, wseen,
                   wcomplete, sweepDue, boundVars>>

CancelReturns(r) ==
    /\ wpc' = wret /\ wret' = "idle" /\ wforced' = FALSE
    /\ wrow' = IF wret = "read" THEN r ELSE NoRow
    /\ UNCHANGED <<bu, rsym, age, lookalike, origin, net, cfgVars, depVars, wsnap,
                   wseen, wcomplete, sweepDue, boundVars>>

Cancelling(r) == WorkerAt("cancelling") /\ wrow = r

\* The exchange begins to close the grid; accepting twice changes nothing.
CancelTakesEffect(r) == order' = [order EXCEPT ![bu[r]] = "closing"]

CancelAccepted(r) ==
    /\ Cancelling(r) /\ Live(bu[r])
    /\ CancelTakesEffect(r)
    /\ status' = [status EXCEPT ![r] = "STOP_REQUESTED"]
    /\ recon' = [recon EXCEPT ![r] = "CANCEL_ACCEPTED"]
    /\ CancelReturns(r)

\* remoteSaysGone: the order is not active any more.
CancelGone(r) ==
    /\ Cancelling(r) /\ ~Live(bu[r])
    /\ status' = [status EXCEPT ![r] = "STOPPED"]
    /\ recon' = [recon EXCEPT ![r] = "OTHER"]
    /\ UNCHANGED order
    /\ CancelReturns(r)

\* Refused because of the order's state: the graceful cancel is escalated to
\* the forced one, once; the row keeps its stop.
CancelRefused_AsGone(r) ==   \* a bug: a refusal taken for a closed order
    /\ "cancel_refused" \in Faults
    /\ Cancelling(r)
    /\ status' = [status EXCEPT ![r] = "STOPPED"]
    /\ recon' = [recon EXCEPT ![r] = "OTHER"]
    /\ UNCHANGED order
    /\ CancelReturns(r)

CancelRefused(r) ==
    /\ "cancel_refused" \in Faults
    /\ Cancelling(r)
    /\ UNCHANGED order
    /\ IF wforced
       THEN /\ recon' = [recon EXCEPT ![r] = "OTHER"]
            /\ UNCHANGED status
            /\ CancelReturns(r)
       ELSE SubmitCancel(r, wret, TRUE) /\ UNCHANGED wsnap

\* No authoritative answer; the cancel may or may not have been applied.
CancelUnanswered(r, state) ==
    /\ Cancelling(r)
    /\ \/ UNCHANGED order
       \/ Live(bu[r]) /\ CancelTakesEffect(r)
    /\ recon' = [recon EXCEPT ![r] = state]
    /\ UNCHANGED status
    /\ CancelReturns(r)

CancelOutcomeUnknown(r) ==
    "cancel_unknown" \in Faults /\ CancelUnanswered(r, "CANCEL_OUTCOME_UNKNOWN")

CancelFailed(r) ==
    "cancel_failed" \in Faults /\ CancelUnanswered(r, "CANCEL_FAILED")

EmergencyCancel(r) ==
    /\ WorkerAt("em_cancel") /\ wsnap[r] # "NONE"
    /\ SubmitCancel(r, "em_cancel", FALSE)
    /\ wsnap' = [wsnap EXCEPT ![r] = "NONE"]
    /\ UNCHANGED order

\* clientFor fails for the row's account: the row keeps what it has.
EmergencySkipped(r) ==
    /\ WorkerAt("em_cancel") /\ wsnap[r] # "NONE"
    /\ "no_client" \in Faults
    /\ wsnap' = [wsnap EXCEPT ![r] = "NONE"]
    /\ UNCHANGED <<rowVars, exchVars, cfgVars, depVars, wpc, wrow, wret, wseen,
                   wcomplete, wforced, sweepDue, boundVars>>

EmergencyListDone ==
    /\ WorkerAt("em_cancel") /\ wsnap = NoSnapshot
    /\ WorkerGoes("em_status")
    /\ UNCHANGED <<rowVars, exchVars, cfgVars, depVars, boundVars>>

-----------------------------------------------------------------------------
(* The worker goroutine: the reconcile pass. First the orphan sweep, at    *)
(* most once per 15 min; then the adoption of unknown submissions; then    *)
(* every managed row.                                                      *)

PassVars == <<rowVars, exchVars, cfgVars, depVars, wrow, wret, wforced, boundVars>>

SweepSkipped ==
    /\ WorkerAt("idle") /\ ~sweepDue
    /\ wpc' = "adopt"
    /\ UNCHANGED <<PassVars, wsnap, wseen, wcomplete, sweepDue>>

\* The running list; orphanSweepAt is stamped before it is read.
SweepLists ==
    /\ WorkerAt("idle") /\ sweepDue
    /\ sweepDue' = FALSE
    /\ \/ /\ wseen' = {o \in Orders : Live(o)}
          /\ wpc' = "orphans"
       \/ /\ "list_error" \in Faults
          /\ wpc' = "adopt"
          /\ UNCHANGED wseen
    /\ UNCHANGED <<PassVars, wsnap, wcomplete>>

Resurrectable_None(o) == {}   \* a bug: an id on record is never revived

Resurrectable(o) == {r \in Owner(o) : status[r] \notin ManagedStatuses}

\* adoptOrphan: a row that holds the id but is not managed comes back RUNNING;
\* an id no row holds gets a new row; a managed one is left alone.
AdoptOrphan(o) ==
    /\ WorkerAt("orphans") /\ o \in wseen
    /\ wseen' = wseen \ {o}
    /\ IF Resurrectable(o) # {}
       THEN /\ status' = [r \in Rows |->
                  IF r \in Resurrectable(o) THEN "RUNNING" ELSE status[r]]
            /\ recon' = [r \in Rows |->
                  IF r \in Resurrectable(o) THEN "OTHER" ELSE recon[r]]
            /\ UNCHANGED <<bu, rsym>>
       ELSE IF Owner(o) = {}
       THEN \E r \in Rows :
               /\ status[r] = "ABSENT"
               /\ status' = [status EXCEPT ![r] = "RUNNING"]
               /\ bu' = [bu EXCEPT ![r] = o]
               /\ rsym' = [rsym EXCEPT ![r] = SymbolOf(o)]
               /\ UNCHANGED recon
       ELSE UNCHANGED <<status, bu, recon, rsym>>
    /\ UNCHANGED <<age, lookalike, exchVars, cfgVars, depVars, wpc, wrow, wret, wsnap,
                   wcomplete, wforced, sweepDue, boundVars>>

\* An order no row holds and whose grid data does not decode, or names no grid
\* count, is not adopted: the sweep queues an EMERGENCY message.
AlertOrphan(o) ==
    /\ "opaque_order" \in Faults
    /\ WorkerAt("orphans") /\ o \in wseen
    /\ Owner(o) = {}
    /\ told' = told \cup {o}
    /\ wseen' = wseen \ {o}
    /\ UNCHANGED <<rowVars, exchVars, fleet, kill, console, depVars, wpc, wrow, wret,
                   wsnap, wcomplete, wforced, sweepDue, boundVars>>

\* A statement for the order fails - the UPDATE, the count, the INSERT or the
\* message: the order waits for the next sweep.
OrphanFails(o) ==
    /\ "write_error" \in Faults
    /\ WorkerAt("orphans") /\ o \in wseen
    /\ wseen' = wseen \ {o}
    /\ UNCHANGED <<PassVars, wpc, wsnap, wcomplete, sweepDue>>

SweepDone ==
    /\ WorkerAt("orphans") /\ wseen = {}
    /\ wpc' = "adopt"
    /\ UNCHANGED <<PassVars, wsnap, wseen, wcomplete, sweepDue>>

\* reconcileUnknownSubmissions: the rows without a remote id, older than 90 s,
\* with the status they have now; then the running list.
AdoptSnapshot ==
    [r \in Rows |-> IF Unbound(r) /\ age[r] >= 1 THEN status[r] ELSE "NONE"]

AdoptSelect ==
    /\ WorkerAt("adopt")
    /\ wsnap' = AdoptSnapshot
    /\ IF AdoptSnapshot = NoSnapshot
       THEN wpc' = "manage_list" /\ UNCHANGED <<wseen, wcomplete>>
       ELSE /\ wpc' = "list_finished"
            /\ \/ wseen' = {o \in Orders : Live(o)} /\ wcomplete' = TRUE
               \/ /\ "list_error" \in Faults
                  /\ \E page \in SUBSET {o \in Orders : Live(o)} : wseen' = page
                  /\ wcomplete' = FALSE
    /\ UNCHANGED <<PassVars, sweepDue>>

\* The finished list is read after the running one.
AdoptListFinished ==
    /\ WorkerAt("list_finished")
    /\ wpc' = "resolve"
    /\ \/ /\ wseen' = wseen \cup {o \in Orders : order[o] = "finished"}
          /\ UNCHANGED wcomplete
       \/ /\ "list_error" \in Faults
          /\ \E page \in SUBSET {o \in Orders : order[o] = "finished"} :
                wseen' = wseen \cup page
          /\ wcomplete' = FALSE
    /\ UNCHANGED <<PassVars, wsnap, sweepDue>>

\* Same symbol, created within 10 min of the row, investment within 2%: the
\* row's own grid and its lookalikes.
Matches(r) == {o \in wseen : origin[o] = r \/ o \in lookalike[r]}

\* What one row of the list becomes: adopted by a unique match, cleared when
\* its grid is proved absent, left for later otherwise.
AbsenceProved_PartialLists(r) ==   \* a bug: listsComplete ignored
    age[r] = 2 \/ wsnap[r] = "STOP_REQUESTED"

AbsenceProved(r) == wcomplete /\ (age[r] = 2 \/ wsnap[r] = "STOP_REQUESTED")

AdoptedStatus(r) == IF status[r] = "STOP_REQUESTED" THEN status[r] ELSE "RUNNING"

ResolveSubmission(r) ==
    /\ WorkerAt("resolve") /\ wsnap[r] # "NONE"
    /\ wsnap' = [wsnap EXCEPT ![r] = "NONE"]
    /\ CASE \E o \in Matches(r) : Matches(r) = {o} ->
              LET o == CHOOSE m \in Matches(r) : TRUE
              IN IF Unbound(r) /\ MayHold(r, o)
                 THEN /\ bu' = [bu EXCEPT ![r] = o]
                      /\ status' = [status EXCEPT ![r] = AdoptedStatus(r)]
                      /\ recon' = [recon EXCEPT ![r] = "OTHER"]
                 ELSE UNCHANGED <<bu, status, recon>>
         [] Matches(r) = {} /\ AbsenceProved(r) /\ Unbound(r) ->
              /\ status' = [status EXCEPT ![r] = "FAILED"]
              /\ recon' = [recon EXCEPT ![r] = "OTHER"]
              /\ UNCHANGED bu
         [] OTHER -> UNCHANGED <<bu, status, recon>>
    /\ UNCHANGED <<rsym, age, lookalike, exchVars, cfgVars, depVars, wpc, wrow, wret,
                   wseen, wcomplete, wforced, sweepDue, boundVars>>

AdoptDone ==
    /\ WorkerAt("resolve") /\ wsnap = NoSnapshot
    /\ wpc' = "manage_list" /\ wseen' = {} /\ wcomplete' = TRUE
    /\ UNCHANGED <<PassVars, wsnap, sweepDue>>

\* The managed rows, with the status they have now.
ManageList ==
    /\ WorkerAt("manage_list")
    /\ wpc' = "manage" /\ wsnap' = ManagedSnapshot
    /\ UNCHANGED <<PassVars, wseen, wcomplete, sweepDue>>

\* A row that is not RUNNING gets its cancel submitted, unless one was accepted
\* or its end was confirmed before the stop was recorded.
ManageRow_SkipsStopping(r) ==   \* a bug: STOPPING taken for a cancel under way
    /\ WorkerAt("manage") /\ wsnap[r] # "NONE"
    /\ IF wsnap[r] = "STOP_REQUESTED" /\ recon[r] # "CANCEL_ACCEPTED"
       THEN SubmitCancel(r, "read", FALSE) /\ UNCHANGED <<wsnap, order>>
       ELSE /\ wpc' = "read" /\ wrow' = r
            /\ UNCHANGED <<rowVars, exchVars, cfgVars, depVars, wret, wsnap, wseen,
                           wcomplete, wforced, sweepDue, boundVars>>

ManageRow(r) ==
    /\ WorkerAt("manage") /\ wsnap[r] # "NONE"
    /\ IF wsnap[r] # "RUNNING" /\ recon[r] \notin {"CANCEL_ACCEPTED", "TERMINAL_CONFIRMED"}
       THEN SubmitCancel(r, "read", FALSE) /\ UNCHANGED <<wsnap, order>>
       ELSE /\ wpc' = "read" /\ wrow' = r
            /\ UNCHANGED <<rowVars, exchVars, cfgVars, depVars, wret, wsnap, wseen,
                           wcomplete, wforced, sweepDue, boundVars>>

\* continue: the next row of the pass.
NextRow(r) ==
    /\ wpc' = "manage" /\ wrow' = NoRow
    /\ wsnap' = [wsnap EXCEPT ![r] = "NONE"]

\* clientFor fails for the row's account: nothing is sent, nothing is read.
ClientUnresolved(r) ==
    /\ WorkerAt("manage") /\ wsnap[r] # "NONE"
    /\ "no_client" \in Faults
    /\ recon' = [recon EXCEPT ![r] = "OTHER"]
    /\ NextRow(r)
    /\ UNCHANGED <<status, bu, rsym, age, lookalike, exchVars, cfgVars, depVars, wret,
                   wseen, wcomplete, wforced, sweepDue, boundVars>>

Reading(r) == WorkerAt("read") /\ wrow = r
ReadKeeps  == UNCHANGED <<bu, rsym, age, lookalike, exchVars, cfgVars, depVars, wret,
                          wseen, wcomplete, wforced, sweepDue, boundVars>>

ReadFailed(r) ==
    /\ Reading(r) /\ "read_error" \in Faults
    /\ recon' = [recon EXCEPT ![r] = "OTHER"]
    /\ NextRow(r)
    /\ UNCHANGED status /\ ReadKeeps

\* The detail says terminal, or answers that there is no such active order.
ReadTerminal_ForgetsId(r) ==   \* a bug: the remote id cleared with the close
    /\ Reading(r)
    /\ ~Live(bu[r]) \/ "spurious_gone" \in Faults
    /\ status' = [status EXCEPT ![r] = "STOPPED"]
    /\ recon' = [recon EXCEPT ![r] = "OTHER"]
    /\ bu' = [bu EXCEPT ![r] = NoOrder]
    /\ NextRow(r)
    /\ UNCHANGED <<rsym, age, lookalike, exchVars, cfgVars, depVars, wret, wseen,
                   wcomplete, wforced, sweepDue, boundVars>>

ReadTerminal(r) ==
    /\ Reading(r)
    /\ ~Live(bu[r]) \/ "spurious_gone" \in Faults
    /\ status' = [status EXCEPT ![r] = "STOPPED"]
    /\ recon' = [recon EXCEPT ![r] = "OTHER"]
    /\ NextRow(r)
    /\ ReadKeeps

\* The grid is live: the pass persists its truth with the status it snapshotted,
\* keeping a stop recorded since, and keeping the cancel states. A stop whose
\* cancel is not accepted is submitted again; a RUNNING row goes on to the
\* management decision.
LiveRecon(r) == IF recon[r] \in CancelStates THEN recon[r] ELSE "OTHER"

CancelStillNeeded(r) ==
    /\ \/ wsnap[r] = "STOP_REQUESTED"
       \/ LiveRecon(r) \in {"CANCEL_SUBMITTING", "CANCEL_FAILED"}
    /\ LiveRecon(r) # "CANCEL_ACCEPTED"

ReadLive(r) ==
    /\ Reading(r) /\ Live(bu[r])
    /\ \/ /\ wsnap[r] # "RUNNING" /\ CancelStillNeeded(r)
          /\ SubmitCancel(r, "manage", FALSE)
          /\ wsnap' = [wsnap EXCEPT ![r] = "NONE"]
          /\ UNCHANGED order
       \/ /\ wsnap[r] = "RUNNING" \/ ~CancelStillNeeded(r)
          /\ status' = [status EXCEPT ![r] = KeepStop(status[r], wsnap[r])]
          /\ recon' = [recon EXCEPT ![r] = LiveRecon(r)]
          /\ IF wsnap[r] = "RUNNING"
             THEN wpc' = "decide" /\ UNCHANGED <<wsnap, wrow>>
             ELSE NextRow(r)
          /\ ReadKeeps

\* decideBotAction: hold, or close with a recorded intent.
DecideHold(r) ==
    /\ WorkerAt("decide") /\ wrow = r
    /\ NextRow(r)
    /\ UNCHANGED <<rowVars, exchVars, cfgVars, depVars, wret, wseen, wcomplete,
                   wforced, sweepDue, boundVars>>

DecideClose(r) ==
    /\ WorkerAt("decide") /\ wrow = r
    /\ status[r] \in ManagedStatuses
    /\ SubmitCancel(r, "manage", FALSE)
    /\ wsnap' = [wsnap EXCEPT ![r] = "NONE"]
    /\ UNCHANGED order

ManageDone ==
    /\ WorkerAt("manage") /\ wsnap = NoSnapshot
    /\ wpc' = "idle"
    /\ UNCHANGED <<PassVars, wsnap, wseen, wcomplete, sweepDue>>

-----------------------------------------------------------------------------
(* A restart of the process: every goroutine is gone, requests already sent *)
(* are not; orphanSweepAt is zero again.                                    *)
Crash ==
    /\ crashes < MaxCrashes
    /\ crashes' = crashes + 1
    /\ dpc' = [d \in Deployers |-> "idle"]
    /\ drow' = [d \in Deployers |-> NoRow]
    /\ wpc' = "idle" /\ wrow' = NoRow /\ wret' = "idle"
    /\ wsnap' = NoSnapshot /\ wseen' = {} /\ wcomplete' = TRUE
    /\ wforced' = FALSE /\ sweepDue' = TRUE
    /\ console' = "idle"
    /\ UNCHANGED <<rowVars, exchVars, fleet, kill, told, dsym, intents, commands>>

DeployerStep(d) ==
    \/ PassGate(d) \/ PassEnd(d)
    \/ \E s \in Symbols : CreateAdmit(d, s)
    \/ \E r \in Rows : CreateSubmit(d, r)
    \/ CreatePersist(d) \/ CreateOutcomeUnknown(d) \/ CreateRefused(d)
    \/ CreateGarbled(d) \/ CreateAborted(d)

CommandStep ==
    \/ \E d \in Deployers : StartFleet(d) \/ ScheduledScan(d)
    \/ StartRefused \/ StopFleet \/ EmergencyStop

\* The rest of a stop command.
CommandRest ==
    \/ SetStatus("stop_status", "stop_close", "STOPPED")
    \/ CloseAllActiveBots("stop_close")
    \/ EmergencyMark \/ EmergencyList \/ EmergencyListDone
    \/ \E r \in Rows : EmergencyCancel(r) \/ EmergencySkipped(r)
    \/ SetStatus("em_status", "em_close", "EMERGENCY_STOPPED")
    \/ CloseAllActiveBots("em_close")

CancelAnswer(r) ==
    \/ CancelAccepted(r) \/ CancelGone(r) \/ CancelRefused(r)
    \/ CancelOutcomeUnknown(r) \/ CancelFailed(r)

ReconcileStep ==
    \/ SweepSkipped \/ SweepLists \/ SweepDone
    \/ \E o \in Orders : AdoptOrphan(o) \/ AlertOrphan(o) \/ OrphanFails(o)
    \/ AdoptSelect \/ AdoptListFinished \/ AdoptDone
    \/ ManageList \/ ManageDone
    \/ \E r \in Rows : \/ ResolveSubmission(r) \/ ManageRow(r)
                       \/ ClientUnresolved(r)
                       \/ ReadFailed(r) \/ ReadTerminal(r) \/ ReadLive(r)
                       \/ DecideHold(r) \/ DecideClose(r)

WorkerStep == CommandRest \/ ReconcileStep \/ \E r \in Rows : CancelAnswer(r)

Next ==
    \/ \E d \in Deployers : DeployerStep(d) \/ ManualDeploy(d)
    \/ CommandStep \/ ConsoleStep \/ WorkerStep
    \/ \E r \in Rows : Land(r) \/ Drop(r) \/ Grow(r)
                       \/ RequestBotClose(r) \/ GridStop(r)
    \/ \E o \in Orders : OrderFinish(o)
    \/ SweepFallsDue \/ ReleaseKillSwitch \/ Crash

Spec == Init /\ [][Next]_vars

(* Fairness. Go runs every runnable goroutine and the tickers keep firing,  *)
(* so a worker with something to do, and a deployer waiting for an answer   *)
(* that came or timed out, go on; requests do not travel for ever; an       *)
(* accepted cancel closes the grid; a call or a statement retried for ever  *)
(* succeeds at times. Commands, admissions, native closes, decisions and crashes are    *)
(* never promised.                                                          *)
Fairness ==
    /\ WF_vars(WorkerStep) /\ WF_vars(ConsoleRest)
    /\ \A d \in Deployers :
          /\ WF_vars(CreatePersist(d) \/ CreateOutcomeUnknown(d) \/ CreateRefused(d)
                     \/ CreateGarbled(d))
          /\ WF_vars(PassGate(d) \/ PassEnd(d) \/ \E r \in Rows : CreateSubmit(d, r))
    /\ \A r \in Rows :
          /\ WF_vars(Land(r) \/ Drop(r))
          /\ WF_vars(Grow(r))
    /\ \A o \in Orders :
          /\ WF_vars(order[o] = "closing" /\ OrderFinish(o))
          /\ SF_vars(\E r \in Owner(o) : CancelAccepted(r) \/ CancelGone(r))
          /\ SF_vars(\E r \in Owner(o) : ReadTerminal(r) \/ ReadLive(r))
          /\ SF_vars(AdoptOrphan(o) \/ AlertOrphan(o))
    /\ WF_vars(SweepFallsDue)
    /\ SF_vars(SweepLists /\ wpc' = "orphans")

FairSpec == Spec /\ Fairness

-----------------------------------------------------------------------------
\* Every column, program position and work list keeps to the values the code
\* can write: a row of the pass's list is never written back with a status the
\* pass did not read.
TypeOK ==
    /\ status \in [Rows -> RowStatuses]
    /\ bu \in [Rows -> Orders \cup {NoOrder}]
    /\ recon \in [Rows -> ReconStates]
    /\ rsym \in [Rows -> Symbols]
    /\ age \in [Rows -> 0..2]
    /\ lookalike \in [Rows -> SUBSET Orders]
    /\ order \in [Orders -> OrderStatuses]
    /\ origin \in [Orders -> Rows \cup {NoRow}]
    /\ net \subseteq Rows
    /\ fleet \in FleetStatuses
    /\ kill \in BOOLEAN
    /\ console \in ConsoleStates
    /\ told \subseteq Orders
    /\ dpc \in [Deployers -> DeployerStates]
    /\ drow \in [Deployers -> Rows \cup {NoRow}]
    /\ dsym \in [Deployers -> Symbols]
    /\ wpc \in WorkerStates
    /\ wrow \in Rows \cup {NoRow}
    /\ wret \in {"idle", "em_cancel", "read", "manage"}
    /\ wsnap \in [Rows -> {"NONE"} \cup ActiveStatuses]
    /\ wseen \subseteq Orders
    /\ wcomplete \in BOOLEAN
    /\ wforced \in BOOLEAN
    /\ sweepDue \in BOOLEAN
    /\ intents \in Nat
    /\ commands \in Nat
    /\ crashes \in Nat

-----------------------------------------------------------------------------
(* Safety.                                                                 *)

\* GRID_LIFECYCLE.md rule 3: a row is RUNNING (or STOPPING, which only a
\* submitted cancel writes) only with a stored buOrderId - over the create, the
\* adoption, the orphan sweep and the reconcile pass's write-back of a status
\* it read earlier.
RunningIsBacked ==
    \A r \in Rows : status[r] \in {"RUNNING", "STOPPING"} => bu[r] # NoOrder

\* No two rows supervise the same exchange grid, whichever of the create, the
\* adoption and the orphan sweep gets to it first.
RemoteIdExclusive ==
    \A r, q \in Rows : bu[r] # NoOrder /\ bu[r] = bu[q] => r = q

\* A stored remote id is never replaced or lost, so a grid under supervision
\* stays reachable from its row.
RemoteIdKept ==
    [][\A r \in Rows : bu[r] # NoOrder => bu'[r] = bu[r]]_vars

\* An intent has no remote id until something binds it.
IntentUnbound ==
    \A r \in Rows : status[r] \in {"ABSENT", "PENDING_SUBMISSION"} => bu[r] = NoOrder

\* What the worker holds in its local variables over its remote calls: the row
\* it works on, and those still on its list, have a remote id.
WorkerFrame ==
    /\ wpc \in {"cancelling", "read", "decide"} => wrow \in Rows /\ bu[wrow] # NoOrder
    /\ wpc = "cancelling" => wret \in {"em_cancel", "read", "manage"}
    /\ wpc = "read" \/ (wpc = "cancelling" /\ wret = "read") => wsnap[wrow] # "NONE"
    /\ wpc \in {"em_cancel", "manage", "cancelling", "read", "decide"} =>
          \A r \in Rows : wsnap[r] # "NONE" =>
              bu[r] # NoOrder /\ wsnap[r] \in ManagedStatuses

\* An order id - in a row or in a list the worker has read - is one the exchange
\* gave to a grid some row asked for.
IdsAreReal ==
    /\ \A o \in Orders : order[o] # "none" <=> origin[o] \in Rows
    /\ \A o \in wseen : order[o] # "none"
    /\ \A r \in Rows : bu[r] # NoOrder => order[bu[r]] # "none"

\* Local copies and stored rows agree on what is supervised, so that no actor's
\* later write can break RunningIsBacked or RemoteIdExclusive: the inductive
\* strengthening of the two.
Supervision ==
    /\ TypeOK
    /\ RunningIsBacked
    /\ RemoteIdExclusive
    /\ IntentUnbound
    /\ WorkerFrame
    /\ IdsAreReal

\* A row leaves supervision as STOPPED only when its grid has left the
\* exchange: no refused, failed or unanswered cancel may write it off.
TerminalMeansFlat ==
    \A r \in Rows, o \in Orders :
        status[r] = "STOPPED" /\ bu[r] = o => order[o] = "finished"

\* GRID_LIFECYCLE.md rule 4: an intent is written off as FAILED only when its
\* grid was never created and its request can no longer create it.
FailedWasNeverCreated ==
    \A r \in Rows : status[r] = "FAILED" => r \notin net /\ Landed(r) = {}

\* The purpose of the duplicate guard: at no time do two submitted grids of one
\* symbol live on the exchange, or can a request under way add a second one.
OneLiveGridPerSymbol ==
    \A r, q \in Rows :
        /\ r # q /\ rsym[r] = rsym[q]
        /\ \E o \in Landed(r) : Live(o)
        => /\ q \notin net
           /\ \A o \in Landed(q) : ~Live(o)

\* A stop under way on a row that has a remote id is not undone before the row
\* is terminal: concurrent write-backs of an older status keep it. (A settled
\* row may be taken up again, by AdoptOrphan or GridStop.)
BoundStopIsDurable ==
    [][\A r \in Rows :
          status[r] \in StopStatuses /\ bu[r] # NoOrder
          => status'[r] \in StopStatuses \cup {"STOPPED"}]_vars

\* What stop and cancelRealBots promise: a stop recorded on an in-flight
\* submission survives the create's answer, whatever it is.
StopIntentIsDurable ==
    [][\A r \in Rows :
          status[r] \in StopStatuses
          => status'[r] \in StopStatuses \cup TerminalStatuses]_vars

\* The row, its id and the exchange as GridContract sees them.
PhaseOf(r) ==
    IF bu[r] = NoOrder
    THEN CASE status[r] = "ABSENT"         -> "none"
           [] Active(r)                    -> "waiting"
           [] OTHER                        -> "written_off"
    ELSE CASE status[r] \in StopStatuses   -> "stopping"
           [] status[r] \in TerminalStatuses -> "over"
           [] OTHER                        -> "held"

MarketOf(o) ==
    CASE order[o] = "none"     -> "unborn"
      [] order[o] = "finished" -> "closed"
      [] OTHER                 -> "open"

Contract == INSTANCE GridContract
            WITH phase <- [r \in Rows |-> PhaseOf(r)], holds <- bu, asking <- net,
                 market <- [o \in Orders |-> MarketOf(o)], asker <- origin

\* GRID_LIFECYCLE.md, "State Machine" and "State Rules": whatever answers are
\* lost, late, refused or partial, the row, the console, the worker and the
\* exchange together take only the steps of GridContract.
KeepsGridContract == Contract!ContractSpec

(* Liveness.                                                               *)

\* A recorded stop of a grid with a remote id ends in a terminal row.
StopReachesTerminal ==
    \A r \in Rows :
        status[r] \in StopStatuses /\ bu[r] # NoOrder ~> status[r] \in TerminalStatuses

\* Every grid that lives on the exchange comes under supervision, or ends, or -
\* when the list shows it without usable grid data - the operator is alerted:
\* lost and undecodable answers, failed statements of the sweep, crashes and
\* wrong write-offs included.
LiveGridIsSupervised ==
    \A o \in Orders :
        order[o] = "running" ~> \/ \E r \in Owner(o) : Managed(r)
                                \/ ~Live(o)
                                \/ o \in told

=============================================================================
