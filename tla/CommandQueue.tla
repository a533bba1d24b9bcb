----------------------------- MODULE CommandQueue -----------------------------
(***************************************************************************)
(* control_commands: the durable queue between the HTTP, MCP and Telegram   *)
(* front ends (controlplane.Service) and the AutoGrid worker.               *)
(*                                                                         *)
(* A row is identified by its idempotency key. Actors: HTTP handlers that   *)
(* prepare, confirm and execute commands; the worker goroutine that claims, *)
(* runs and finishes them; the dashboard, which expires stale rows; the     *)
(* clock; restarts. A step is one database statement or transaction, or the *)
(* carrying out of a command.                                               *)
(***************************************************************************)
EXTENDS Naturals, FiniteSets

CONSTANTS
    Keys,               \* idempotency keys
    Kinds,              \* the kinds of commands in use
    Handlers,           \* concurrent HTTP requests
    NoKey,              \* null
    ConfirmAttempts,    \* wrong codes before the command expires (5)
    ClaimAttempts,      \* claims before the command expires (5)
    MaxCrashes          \* bound: process restarts in a behaviour

\* The kinds of command that validateCommand accepts; a paper start goes the
\* way of a scan.
InlineKinds == {"kill_switch.arm", "kill_switch.disarm", "account.set_enabled"}
WorkerKinds == {"autogrid.start", "autogrid.scan", "autogrid.stop",
                "autogrid.emergency_stop"}
AllKinds    == InlineKinds \cup WorkerKinds \cup {"grid.stop"}

ASSUME QueueAssumption ==
    /\ Kinds \subseteq AllKinds
    /\ IsFiniteSet(Keys) /\ NoKey \notin Keys
    /\ Kinds # {}
    /\ ConfirmAttempts \in Nat \ {0}
    /\ ClaimAttempts \in Nat \ {0}
    /\ MaxCrashes \in Nat

VARIABLES
    \* control_commands
    status,         \* "ABSENT" before the insert
    kind,           \* command_type and the arguments that matter
    born,           \* order of created_at
    age,            \* 0: under 5 min, 1: under 15 min, 2: older
    confirmed,      \* confirmed_at is set
    guesses,        \* confirm_attempts
    attempts,       \* attempts
    lease,          \* lease_owner and lease_expiry: "none", "held" by this
                    \* process, "lapsed", or "foreign" (another process's)
    \* the rest of the system
    effects,        \* how many times the command was carried out
    \* HTTP handlers
    hpc, hkey, hout,
    \* the worker goroutine
    wpc, wkey, wout,
    swept,          \* sweepRestartGhosts has run
    crashes

rowVars     == <<status, kind, born, age, confirmed, guesses, attempts, lease>>
handlerVars == <<hpc, hkey, hout>>
workerVars  == <<wpc, wkey, wout, swept>>
vars == <<rowVars, effects, handlerVars, workerVars, crashes>>

FinalStatuses == {"SUCCEEDED", "FAILED", "DENIED", "EXPIRED"}
Statuses      == {"ABSENT", "PREPARED", "CONFIRMATION_REQUIRED", "QUEUED",
                  "EXECUTING"} \cup FinalStatuses
Leases        == {"none", "held", "lapsed", "foreign"}

\* dangerousCommand, with mcp_dangerous_confirmation_required enabled.
Dangerous == {"kill_switch.disarm", "account.set_enabled", "grid.stop",
              "autogrid.start", "autogrid.emergency_stop"}

Init ==
    /\ status = [k \in Keys |-> "ABSENT"]
    /\ kind \in [Keys -> {CHOOSE c \in Kinds : TRUE}]
    /\ born = [k \in Keys |-> 0]
    /\ age = [k \in Keys |-> 0]
    /\ confirmed = [k \in Keys |-> FALSE]
    /\ guesses = [k \in Keys |-> 0]
    /\ attempts = [k \in Keys |-> 0]
    /\ lease = [k \in Keys |-> "none"]
    /\ effects = [k \in Keys |-> 0]
    /\ hpc = [h \in Handlers |-> "idle"]
    /\ hkey = [h \in Handlers |-> NoKey]
    /\ hout = [h \in Handlers |-> "QUEUED"]
    /\ wpc = "idle" /\ wkey = NoKey /\ wout = "SUCCEEDED"
    /\ swept = FALSE
    /\ crashes = 0

-----------------------------------------------------------------------------
(* HTTP handlers.                                                          *)

\* INSERT ... ON CONFLICT (idempotency_key) DO NOTHING. With a key that exists,
\* PrepareCommand returns the row it finds and changes nothing.
Insert(k, c, initial) ==
    /\ status[k] = "ABSENT"
    /\ status' = [status EXCEPT ![k] = initial]
    /\ kind' = [kind EXCEPT ![k] = c]
    /\ born' = [born EXCEPT ![k] = Cardinality({j \in Keys : status[j] # "ABSENT"})]
    /\ UNCHANGED <<age, confirmed, guesses, attempts, lease, effects>>

HandlerTakes(h, k) ==
    /\ hpc' = [hpc EXCEPT ![h] = "execute"]
    /\ hkey' = [hkey EXCEPT ![h] = k]
    /\ UNCHANGED hout

PrepareCommand_Resumes(h, k, c) ==   \* a bug: a repeated key executes what is PREPARED
    /\ hpc[h] = "idle"
    /\ \/ /\ c \in Dangerous
          /\ Insert(k, c, "CONFIRMATION_REQUIRED")
          /\ UNCHANGED handlerVars
       \/ /\ c \notin Dangerous
          /\ Insert(k, c, "PREPARED")
          /\ HandlerTakes(h, k)
       \/ /\ status[k] = "PREPARED" /\ kind[k] = c
          /\ HandlerTakes(h, k)
          /\ UNCHANGED <<rowVars, effects>>
    /\ UNCHANGED <<workerVars, crashes>>

PrepareCommand(h, k, c) ==
    /\ hpc[h] = "idle"
    /\ \/ /\ c \in Dangerous
          /\ Insert(k, c, "CONFIRMATION_REQUIRED")
          /\ UNCHANGED handlerVars
       \/ /\ c \notin Dangerous
          /\ Insert(k, c, "PREPARED")
          /\ HandlerTakes(h, k)
    /\ UNCHANGED <<workerVars, crashes>>

\* What one confirmation does to its row, under FOR UPDATE: an expired code and
\* the last wrong guess expire the command; the right code marks it EXECUTING.
ConfirmedStatus(k, right) ==
    CASE age[k] > 0                                      -> "EXPIRED"
      [] age[k] = 0 /\ right                             -> "EXECUTING"
      [] age[k] = 0 /\ ~right
         /\ guesses[k] + 1 >= ConfirmAttempts            -> "EXPIRED"
      [] OTHER                                           -> "CONFIRMATION_REQUIRED"

ConfirmCommand_Expired(h, k, right) ==   \* a bug: expired commands are confirmed too
    /\ hpc[h] = "idle" /\ status[k] \in {"CONFIRMATION_REQUIRED", "EXPIRED"}
    /\ status' = [status EXCEPT ![k] = ConfirmedStatus(k, right)]
    /\ guesses' = [guesses EXCEPT ![k] = IF age[k] = 0 /\ ~right THEN @ + 1 ELSE @]
    /\ IF ConfirmedStatus(k, right) = "EXECUTING"
       THEN confirmed' = [confirmed EXCEPT ![k] = TRUE] /\ HandlerTakes(h, k)
       ELSE UNCHANGED <<confirmed, handlerVars>>
    /\ UNCHANGED <<kind, born, age, attempts, lease, effects, workerVars, crashes>>

ConfirmCommand(h, k, right) ==
    /\ hpc[h] = "idle" /\ status[k] = "CONFIRMATION_REQUIRED"
    /\ status' = [status EXCEPT ![k] = ConfirmedStatus(k, right)]
    /\ guesses' = [guesses EXCEPT ![k] = IF age[k] = 0 /\ ~right THEN @ + 1 ELSE @]
    /\ IF ConfirmedStatus(k, right) = "EXECUTING"
       THEN confirmed' = [confirmed EXCEPT ![k] = TRUE] /\ HandlerTakes(h, k)
       ELSE UNCHANGED <<confirmed, handlerVars>>
    /\ UNCHANGED <<kind, born, age, attempts, lease, effects, workerVars, crashes>>

Outcomes_Eager(c) ==   \* a bug: queued work reported as done
    IF c = "autogrid.start" THEN {"SUCCEEDED", "DENIED", "FAILED"} ELSE {"SUCCEEDED", "FAILED"}

\* executeCommand: inline kinds and grid.stop are carried out here; the worker's
\* kinds are only queued, a REAL start after the entry gates. A statement that
\* fails may have been applied.
Outcomes(c) ==
    CASE c \in InlineKinds      -> {"SUCCEEDED", "FAILED"}
      [] c = "autogrid.start"   -> {"QUEUED", "DENIED", "FAILED"}
      [] c = "grid.stop"        -> {"QUEUED", "FAILED"}
      [] OTHER                  -> {"QUEUED"}

ExecuteCommand(h) ==
    /\ hpc[h] = "execute"
    /\ \E out \in Outcomes(kind[hkey[h]]) :
          /\ hout' = [hout EXCEPT ![h] = out]
          /\ \/ /\ kind[hkey[h]] \notin WorkerKinds
                /\ effects' = [effects EXCEPT ![hkey[h]] = @ + 1]
             \/ /\ kind[hkey[h]] \in WorkerKinds \/ out = "FAILED"
                /\ UNCHANGED effects
    /\ hpc' = [hpc EXCEPT ![h] = "finalize"]
    /\ UNCHANGED <<rowVars, hkey, workerVars, crashes>>

HandlerReturns(h) ==
    /\ hpc' = [hpc EXCEPT ![h] = "idle"]
    /\ hkey' = [hkey EXCEPT ![h] = NoKey]

\* UPDATE ... SET status WHERE id: whatever the row's status is by now.
FinalizeCommand(h) ==
    /\ hpc[h] = "finalize"
    /\ status' = [status EXCEPT ![hkey[h]] = hout[h]]
    /\ HandlerReturns(h)
    /\ UNCHANGED <<kind, born, age, confirmed, guesses, attempts, lease, effects, hout,
                   workerVars, crashes>>

\* The client goes away: the request's context is cancelled and the handler's
\* next statement fails.
HandlerAborts(h) ==
    /\ hpc[h] # "idle"
    /\ HandlerReturns(h)
    /\ UNCHANGED <<rowVars, effects, hout, workerVars, crashes>>

-----------------------------------------------------------------------------
(* Expiry.                                                                 *)

ExpireThose(stale) ==
    status' = [k \in Keys |-> IF k \in stale THEN "EXPIRED" ELSE status[k]]

\* The dashboard's statement.
DashboardStale_AnyStatus(k) ==   \* a bug: AND binds tighter than OR
    \/ age[k] > 0
    \/ status[k] = "EXECUTING" /\ lease[k] = "lapsed"

DashboardStale(k) ==
    \/ status[k] = "CONFIRMATION_REQUIRED" /\ age[k] > 0
    \/ status[k] = "EXECUTING" /\ lease[k] = "lapsed"

Dashboard ==
    /\ \E k \in Keys : DashboardStale(k)
    /\ ExpireThose({k \in Keys : DashboardStale(k)})
    /\ UNCHANGED <<kind, born, age, confirmed, guesses, attempts, lease, effects,
                   handlerVars, workerVars, crashes>>

\* sweepRestartGhosts: once per process, before the worker's loop. An EXECUTING
\* row of any other owner is closed, and so is one without an owner.
GhostStale(k) ==
    \/ status[k] = "QUEUED" /\ age[k] = 2
    \/ status[k] = "EXECUTING" /\ lease[k] # "held"

SweepRestartGhosts ==
    /\ ~swept /\ swept' = TRUE
    /\ ExpireThose({k \in Keys : GhostStale(k)})
    /\ lease' = [k \in Keys |-> IF GhostStale(k) THEN "none" ELSE lease[k]]
    /\ UNCHANGED <<kind, born, age, confirmed, guesses, attempts, effects, handlerVars,
                   wpc, wkey, wout, crashes>>

-----------------------------------------------------------------------------
(* The worker goroutine.                                                   *)

\* A scan queued by the worker itself (scheduled, cascade, fast-follow).
QueueScan(k) ==
    /\ swept /\ wpc = "idle" /\ "autogrid.scan" \in Kinds
    /\ Insert(k, "autogrid.scan", "QUEUED")
    /\ UNCHANGED <<handlerVars, workerVars, crashes>>

ClaimStale_KeepsQueue(k) ==   \* a bug: old queued commands are kept
    \/ status[k] = "EXECUTING" /\ lease[k] = "lapsed"
    \/ status[k] \in {"QUEUED", "EXECUTING"} /\ attempts[k] >= ClaimAttempts

\* claim first expires what is stale, then takes the oldest queued command of
\* its kinds.
ClaimStale(k) ==
    \/ status[k] = "QUEUED" /\ age[k] = 2
    \/ status[k] = "EXECUTING" /\ lease[k] = "lapsed"
    \/ status[k] \in {"QUEUED", "EXECUTING"} /\ attempts[k] >= ClaimAttempts

Claimable(k) == status[k] = "QUEUED" /\ kind[k] \in WorkerKinds /\ ~ClaimStale(k)

Claim(k) ==
    /\ swept /\ wpc = "idle"
    /\ Claimable(k) /\ \A j \in Keys : Claimable(j) => born[k] <= born[j]
    /\ status' = [j \in Keys |-> IF j = k THEN "EXECUTING"
                                 ELSE IF ClaimStale(j) THEN "EXPIRED" ELSE status[j]]
    /\ lease' = [lease EXCEPT ![k] = "held"]
    /\ attempts' = [attempts EXCEPT ![k] = @ + 1]
    /\ wpc' = "run" /\ wkey' = k
    /\ UNCHANGED <<kind, born, age, confirmed, guesses, effects, handlerVars, wout,
                   swept, crashes>>

ClaimNothing ==
    /\ swept /\ wpc = "idle"
    /\ \A k \in Keys : ~Claimable(k)
    /\ \E k \in Keys : ClaimStale(k)
    /\ ExpireThose({k \in Keys : ClaimStale(k)})
    /\ UNCHANGED <<kind, born, age, confirmed, guesses, attempts, lease, effects,
                   handlerVars, workerVars, crashes>>

\* start, scanAndDeploy, stop or emergencyStop; a failure may come after a part
\* of the work.
RunCommand ==
    /\ wpc = "run"
    /\ effects' = [effects EXCEPT ![wkey] = @ + 1]
    /\ wout' \in {"SUCCEEDED", "FAILED"}
    /\ wpc' = "finish"
    /\ UNCHANGED <<rowVars, handlerVars, wkey, swept, crashes>>

FinishCommand ==
    /\ wpc = "finish"
    /\ status' = [status EXCEPT ![wkey] = wout]
    /\ lease' = [lease EXCEPT ![wkey] = "none"]
    /\ wpc' = "idle" /\ wkey' = NoKey
    /\ UNCHANGED <<kind, born, age, confirmed, guesses, attempts, effects, handlerVars,
                   wout, swept, crashes>>

\* runGuarded recovers a panic: the command stays EXECUTING, its lease runs on.
WorkerPanics ==
    /\ wpc # "idle"
    /\ wpc' = "idle" /\ wkey' = NoKey
    /\ UNCHANGED <<rowVars, effects, handlerVars, wout, swept, crashes>>

-----------------------------------------------------------------------------
(* The clock and restarts.                                                 *)

Age(k) ==
    /\ status[k] \in {"CONFIRMATION_REQUIRED", "QUEUED"} /\ age[k] < 2
    /\ age' = [age EXCEPT ![k] = @ + 1]
    /\ UNCHANGED <<status, kind, born, confirmed, guesses, attempts, lease, effects,
                   handlerVars, workerVars, crashes>>

\* A command that runs is cut off by its context's timeout before its lease and
\* the dashboard's 30 s of grace are over.
LeaseLapses(k) ==
    /\ status[k] = "EXECUTING" /\ lease[k] \in {"held", "foreign"} /\ wkey # k
    /\ lease' = [lease EXCEPT ![k] = "lapsed"]
    /\ UNCHANGED <<status, kind, born, age, confirmed, guesses, attempts, effects,
                   handlerVars, workerVars, crashes>>

Crash ==
    /\ crashes < MaxCrashes
    /\ crashes' = crashes + 1
    /\ lease' = [k \in Keys |-> IF lease[k] = "held" THEN "foreign" ELSE lease[k]]
    /\ hpc' = [h \in Handlers |-> "idle"] /\ hkey' = [h \in Handlers |-> NoKey]
    /\ wpc' = "idle" /\ wkey' = NoKey /\ swept' = FALSE
    /\ UNCHANGED <<status, kind, born, age, confirmed, guesses, attempts, effects,
                   hout, wout>>

HandlerStep(h) ==
    \/ \E k \in Keys, c \in Kinds : PrepareCommand(h, k, c)
    \/ \E k \in Keys, right \in BOOLEAN : ConfirmCommand(h, k, right)
    \/ ExecuteCommand(h) \/ FinalizeCommand(h) \/ HandlerAborts(h)

WorkerStep ==
    \/ SweepRestartGhosts
    \/ \E k \in Keys : Claim(k)
    \/ ClaimNothing \/ RunCommand \/ FinishCommand

Next ==
    \/ \E h \in Handlers : HandlerStep(h)
    \/ WorkerStep \/ WorkerPanics \/ Dashboard
    \/ \E k \in Keys : QueueScan(k) \/ Age(k) \/ LeaseLapses(k)
    \/ Crash

Spec == Init /\ [][Next]_vars

\* The worker's tickers keep firing, handlers that go on go on, somebody looks
\* at the dashboard now and then, and time passes. Requests, confirmations,
\* aborts, panics and crashes are never promised.
Fairness ==
    /\ WF_vars(WorkerStep)
    /\ \A h \in Handlers : WF_vars(ExecuteCommand(h) \/ FinalizeCommand(h))
    /\ WF_vars(Dashboard)
    /\ \A k \in Keys : WF_vars(Age(k)) /\ WF_vars(LeaseLapses(k))

FairSpec == Spec /\ Fairness

-----------------------------------------------------------------------------
\* Every column and program position keeps to the values the code can write
\* (among them the CHECK of control_commands.status).
TypeOK ==
    /\ status \in [Keys -> Statuses]
    /\ kind \in [Keys -> Kinds]
    /\ born \in [Keys -> Nat]
    /\ age \in [Keys -> 0..2]
    /\ confirmed \in [Keys -> BOOLEAN]
    /\ guesses \in [Keys -> Nat]
    /\ attempts \in [Keys -> Nat]
    /\ lease \in [Keys -> Leases]
    /\ effects \in [Keys -> Nat]
    /\ hpc \in [Handlers -> {"idle", "execute", "finalize"}]
    /\ hkey \in [Handlers -> Keys \cup {NoKey}]
    /\ hout \in [Handlers -> {"QUEUED", "SUCCEEDED", "FAILED", "DENIED"}]
    /\ wpc \in {"idle", "run", "finish"}
    /\ wkey \in Keys \cup {NoKey}
    /\ wout \in {"SUCCEEDED", "FAILED"}
    /\ swept \in BOOLEAN
    /\ crashes \in Nat

\* Who may still carry the command out or write its outcome.
HeldByHandler(k) == \E h \in Handlers : hpc[h] # "idle" /\ hkey[h] = k
HeldByWorker(k)  == wpc # "idle" /\ wkey = k
Held(k)          == HeldByHandler(k) \/ HeldByWorker(k)

\* CONTROL_PLANE.md: reusing the key does not execute the action twice - nor do
\* concurrent handlers, a restart, an expiry that is overwritten, or a second
\* claim (the retry budget of `attempts' is never used).
AtMostOnce == \A k \in Keys : effects[k] <= 1 /\ attempts[k] <= 1

\* What the operator is told holds: a command reported SUCCEEDED was carried
\* out, and one reported DENIED was not.
ReportIsTrue ==
    \A k \in Keys :
        /\ status[k] = "SUCCEEDED" => effects[k] = 1
        /\ status[k] = "DENIED" => effects[k] = 0

\* A dangerous command is carried out only after the right code, given while it
\* was valid and before the budget of guesses ran out.
ConfirmedFirst ==
    \A k \in Keys :
        effects[k] > 0 /\ kind[k] \in Dangerous
        => confirmed[k] /\ guesses[k] < ConfirmAttempts

\* A final answer stays: no late writer, sweep or expiry replaces it.
AnswerIsFinal ==
    [][\A k \in Keys :
          status[k] \in {"SUCCEEDED", "FAILED", "DENIED"} => status'[k] = status[k]]_vars

\* A handler that still has to execute a command, or to write its outcome, is
\* the only one, and the command has not been claimed.
OneHandlerEach ==
    \A g, h \in Handlers :
        hpc[g] # "idle" /\ hpc[h] # "idle" /\ hkey[g] = hkey[h] => g = h

HandlerHolds(h) ==
    /\ hkey[h] \in Keys
    /\ status[hkey[h]] \in {"PREPARED", "EXECUTING", "EXPIRED"}
    /\ attempts[hkey[h]] = 0 /\ lease[hkey[h]] = "none"
    /\ kind[hkey[h]] \in Dangerous => confirmed[hkey[h]]
    /\ (hpc[h] = "execute" \/ kind[hkey[h]] \in WorkerKinds) => effects[hkey[h]] = 0
    /\ hpc[h] = "finalize" => hout[h] \in Outcomes(kind[hkey[h]])
    /\ (hpc[h] = "finalize" /\ hout[h] = "SUCCEEDED") => effects[hkey[h]] = 1

HandlerCustody == \A h \in Handlers : hpc[h] # "idle" => HandlerHolds(h)

\* The command the worker runs is the one it holds the lease of.
WorkerCustody ==
    wpc # "idle" =>
        /\ swept /\ wkey \in Keys
        /\ status[wkey] = "EXECUTING" /\ lease[wkey] = "held"
        /\ kind[wkey] \in Dangerous => confirmed[wkey]
        /\ effects[wkey] = IF wpc = "run" THEN 0 ELSE 1

\* A command that waits has not been claimed, and - unless it is a grid.stop,
\* which is queued after the fact - not been carried out.
WaitingIsUntouched ==
    \A k \in Keys :
        /\ status[k] \in {"ABSENT", "CONFIRMATION_REQUIRED", "QUEUED"} =>
               /\ attempts[k] = 0 /\ lease[k] = "none"
               /\ (status[k] = "QUEUED" /\ kind[k] \notin WorkerKinds) \/ effects[k] = 0
        /\ status[k] = "QUEUED" /\ kind[k] \in Dangerous => confirmed[k]
        /\ status[k] \in {"ABSENT", "CONFIRMATION_REQUIRED"} => ~confirmed[k]
        /\ status[k] = "ABSENT" => guesses[k] = 0
        /\ status[k] = "CONFIRMATION_REQUIRED" \/ confirmed[k] => guesses[k] < ConfirmAttempts

\* The inductive strengthening of AtMostOnce, ReportIsTrue and ConfirmedFirst:
\* at any time one party at most may still carry out a command.
Custody ==
    /\ TypeOK
    /\ OneHandlerEach
    /\ HandlerCustody
    /\ WorkerCustody
    /\ WaitingIsUntouched
    /\ AtMostOnce
    /\ ReportIsTrue
    /\ ConfirmedFirst

\* CommandQueue keeps the promises of CommandContract.
PhaseOf(k) ==
    CASE effects[k] > 0                              -> "performed"
      [] effects[k] = 0 /\ status[k] = "ABSENT"      -> "new"
      [] effects[k] = 0 /\ status[k] = "CONFIRMATION_REQUIRED" -> "asking"
      [] effects[k] = 0 /\ status[k] \in FinalStatuses /\ ~Held(k) -> "refused"
      [] OTHER                                       -> "cleared"

Contract == INSTANCE CommandContract WITH phase <- [k \in Keys |-> PhaseOf(k)]

KeepsContract == Contract!ContractSpec

\* A command that is queued, or that the worker has claimed, gets its outcome,
\* whatever panics and restarts happen.
QueuedCommandSettles ==
    \A k \in Keys :
        status[k] = "QUEUED" \/ (status[k] = "EXECUTING" /\ lease[k] # "none")
        ~> status[k] \in FinalStatuses

=============================================================================
