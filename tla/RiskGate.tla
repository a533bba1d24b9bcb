------------------------------- MODULE RiskGate -------------------------------
(***************************************************************************)
(* Admission of new grids against the durable risk limits (risk_settings):  *)
(* the early check, the re-check inside the transaction that writes the     *)
(* intent row, under the fleet's advisory lock, the top-ups that add        *)
(* capital to a grid, and the writers of risk_settings.                     *)
(*                                                                         *)
(* REAL grids of one account and PAPER grids are two fleets with a lock and *)
(* a table of their own and one set of limits. A step is one statement, one *)
(* transaction step or one call to the exchange; READ COMMITTED lets other  *)
(* steps in between the statements of a transaction.                        *)
(***************************************************************************)
EXTENDS Integers, FiniteSets, Functions

CONSTANTS
    Rows,           \* rows of grid_bots and paper_grid_bots, each used once
    Symbols,
    Fleets,         \* a subset of {"REAL", "PAPER"}
    Deployers,      \* the autopilot's scan and the manual requests
    Pourers,        \* concurrent invest_in calls
    Forms,          \* risk settings loaded by an admin, to be saved later
    Tokenless,      \* the forms of clients that do not echo updatedAt
    Policies,       \* the sets of limits in use
    Plans,          \* what deployers ask for: [fleet, symbol, leverage, invest]
    Pours,          \* amounts of invest_in
    Nobody,
    MaxWrites       \* bound: writes of risk_settings

LimitNames == {"account", "symbol", "leverage", "bots", "positions"}

\* The checks of UpdateSettings.
ValidPolicy(p) == p.symbol <= p.account /\ p.leverage \in 1..100

ASSUME RiskAssumption ==
    /\ Policies \subseteq [LimitNames -> Nat] /\ Policies # {}
    /\ \A p \in Policies : ValidPolicy(p)
    /\ Fleets \subseteq {"REAL", "PAPER"}
    /\ Plans \subseteq [fleet : Fleets, symbol : Symbols, leverage : Nat, invest : Nat]
    /\ Plans # {}
    /\ Pours \subseteq Nat
    /\ Nobody \notin Deployers
    /\ Tokenless \subseteq Forms
    /\ MaxWrites \in Nat

VARIABLES
    \* risk_settings
    kill,           \* kill_switch_enabled
    policy,         \* the limits
    breaker,        \* max_daily_loss_usd: [mode, value]
    version,        \* updated_at
    \* the grids
    state,          \* "new", "open" (live or unresolved), "closed"
    grid,           \* fleet, symbol, leverage, invest; of a new row, of no meaning
    poured,         \* capital added by invest_in
    \* advisory locks
    fleetLock, symbolLock,
    \* the work in hand: of deployers, of invest_in calls, of admins with a form
    \* and of the breaker's derivation
    job, top, form, derive

settingsVars == <<kill, policy, breaker, version>>
gridVars     == <<state, grid, poured>>
lockVars     == <<fleetLock, symbolLock>>
workVars     == <<job, top, form, derive>>
vars == <<settingsVars, gridVars, lockVars, workVars>>

Breakers == [mode : {"AUTO", "MANUAL"}, value : {"derived", "stale", "pinned"}]

\* A deployer's plan with the limits it goes by, or the row it has to send.
Idle == [at |-> "idle"]
Jobs ==
    {Idle} \cup [at : {"send"}, row : Rows]
    \cup [at : {"look", "lock_symbol", "lock_fleet", "read_policy", "read_grids", "insert"},
          plan : Plans, limits : Policies]
TopUps == {Idle} \cup [at : {"pour"}, row : Rows, amount : Pours]
NoForm == [version |-> -1]
Loaded == [kill : BOOLEAN, policy : Policies, breaker : Breakers, version : Nat]

Init ==
    /\ kill \in BOOLEAN /\ policy \in Policies
    /\ breaker = [mode |-> "AUTO", value |-> "stale"] /\ version = 0
    /\ state = [r \in Rows |-> "new"]
    /\ grid \in [Rows -> {CHOOSE p \in Plans : TRUE}]
    /\ poured = [r \in Rows |-> 0]
    /\ fleetLock = [f \in Fleets |-> Nobody]
    /\ symbolLock = [s \in Symbols |-> Nobody]
    /\ job = [d \in Deployers |-> Idle]
    /\ top = [p \in Pourers |-> Idle]
    /\ form = [f \in Forms |-> NoForm]
    /\ derive = "idle"

-----------------------------------------------------------------------------
(* The caps (RecheckGridEntryCaps, RecheckPaperEntryCaps).                  *)

Open(fleet) == {r \in Rows : state[r] = "open" /\ grid[r].fleet = fleet}

OpenOn(fleet, symbol) == {r \in Open(fleet) : grid[r].symbol = symbol}

SumOver(rows, amount) == FoldFunctionOnSet(+, 0, amount, rows)

\* SUM(quote_investment * leverage).
Notional       == [r \in Rows |-> (grid[r].invest + poured[r]) * grid[r].leverage]
Exposure(rows) == SumOver(rows, Notional)

\* Nothing inserts pattern orders: the open positions are the open grids. The
\* PAPER twin does not look at them.
CountFits(limits, fleet) ==
    /\ Cardinality(Open(fleet)) < limits.bots
    /\ (fleet = "REAL" /\ limits.positions > 0) => Cardinality(Open(fleet)) < limits.positions

ExposureFits(limits, fleet, symbol, notional) ==
    /\ Exposure(Open(fleet)) + notional <= limits.account
    /\ Exposure(OpenOn(fleet, symbol)) + notional <= limits.symbol

CapsFit(limits, p) ==
    /\ CountFits(limits, p.fleet)
    /\ ExposureFits(limits, p.fleet, p.symbol, p.invest * p.leverage)

-----------------------------------------------------------------------------
(* Deployers.                                                              *)

\* ValidateNewGrid, ValidateNewPaperGrid: the early refusal, outside any
\* transaction.
EarlyCheck(d, p) ==
    /\ job[d] = Idle
    /\ ~kill /\ p.leverage <= policy.leverage /\ p.invest <= policy.account
    /\ CapsFit(policy, p)
    /\ job' = [job EXCEPT ![d] = [at |-> IF p.fleet = "REAL" THEN "look" ELSE "lock_fleet",
                                  plan |-> p, limits |-> policy]]
    /\ UNCHANGED <<settingsVars, gridVars, lockVars, top, form, derive>>

Goes(d, there) == job' = [job EXCEPT ![d].at = there]

Unlocks(d) ==
    /\ fleetLock' = [f \in Fleets |-> IF fleetLock[f] = d THEN Nobody ELSE fleetLock[f]]
    /\ symbolLock' = [s \in Symbols |-> IF symbolLock[s] = d THEN Nobody ELSE symbolLock[s]]

\* A refusal, an error or a cancelled context: the transaction is rolled back,
\* which releases its locks.
GivesUp(d) ==
    /\ job' = [job EXCEPT ![d] = Idle]
    /\ Unlocks(d)
    /\ UNCHANGED gridVars

GoesOn(d, there) == Goes(d, there) /\ UNCHANGED <<gridVars, lockVars>>

Abandon(d) ==
    /\ job[d].at \notin {"idle", "send"}
    /\ GivesUp(d)
    /\ UNCHANGED <<settingsVars, top, form, derive>>

\* CreateGridBot re-reads the kill switch before its transaction.
LastLook(d) ==
    /\ job[d].at = "look"
    /\ IF kill THEN GivesUp(d) ELSE GoesOn(d, "lock_symbol")
    /\ UNCHANGED <<settingsVars, top, form, derive>>

LockSymbol(d) ==
    /\ job[d].at = "lock_symbol" /\ symbolLock[job[d].plan.symbol] = Nobody
    /\ symbolLock' = [symbolLock EXCEPT ![job[d].plan.symbol] = d]
    /\ Goes(d, "lock_fleet")
    /\ UNCHANGED <<settingsVars, gridVars, fleetLock, top, form, derive>>

LockFleet_SymbolOnly(d) ==   \* a bug: the symbol's lock has to do
    /\ job[d].at = "lock_fleet"
    /\ GoesOn(d, "read_policy")
    /\ UNCHANGED <<settingsVars, top, form, derive>>

\* LockEntryGate.
LockFleet(d) ==
    /\ job[d].at = "lock_fleet" /\ fleetLock[job[d].plan.fleet] = Nobody
    /\ fleetLock' = [fleetLock EXCEPT ![job[d].plan.fleet] = d]
    /\ Goes(d, "read_policy")
    /\ UNCHANGED <<settingsVars, gridVars, symbolLock, top, form, derive>>

\* The re-check's first statement.
ReadPolicy(d) ==
    /\ job[d].at = "read_policy"
    /\ IF kill \/ job[d].plan.leverage > policy.leverage THEN GivesUp(d)
       ELSE /\ job' = [job EXCEPT ![d].at = "read_grids", ![d].limits = policy]
            /\ UNCHANGED <<gridVars, lockVars>>
    /\ UNCHANGED <<settingsVars, top, form, derive>>

\* ... and its second, with the decision.
ReadGrids(d) ==
    /\ job[d].at = "read_grids"
    /\ IF CapsFit(job[d].limits, job[d].plan) THEN GoesOn(d, "insert") ELSE GivesUp(d)
    /\ UNCHANGED <<settingsVars, top, form, derive>>

\* The duplicate guard (REAL) or the unique index (PAPER), the INSERT, COMMIT.
InsertIntent(d, r) ==
    /\ job[d].at = "insert" /\ state[r] = "new"
    /\ IF OpenOn(job[d].plan.fleet, job[d].plan.symbol) # {} THEN GivesUp(d)
       ELSE /\ state' = [state EXCEPT ![r] = "open"]
            /\ grid' = [grid EXCEPT ![r] = job[d].plan]
            /\ job' = [job EXCEPT ![d] = IF job[d].plan.fleet = "REAL"
                                         THEN [at |-> "send", row |-> r] ELSE Idle]
            /\ Unlocks(d)
            /\ UNCHANGED poured
    /\ UNCHANGED <<settingsVars, top, form, derive>>

\* The remote create: an authoritative refusal closes the row as FAILED, any
\* other answer leaves it open.
SendCreate(d) ==
    /\ job[d].at = "send"
    /\ job' = [job EXCEPT ![d] = Idle]
    /\ state' \in {state, [state EXCEPT ![job[d].row] = "closed"]}
    /\ UNCHANGED <<settingsVars, grid, poured, lockVars, top, form, derive>>

Sent(r) == \A d \in Deployers : job[d].at = "send" => job[d].row # r

\* A grid reaches a terminal status.
Close(r) ==
    /\ state[r] = "open" /\ Sent(r)
    /\ state' = [state EXCEPT ![r] = "closed"]
    /\ UNCHANGED <<settingsVars, grid, poured, lockVars, workVars>>

-----------------------------------------------------------------------------
(* invest_in (AdjustBot).                                                  *)

\* ValidateGridTopUp, ValidatePaperGridTopUp: every cap but the counts, under
\* no lock.
TopUpCheck(p, r, n) ==
    /\ top[p] = Idle
    /\ state[r] = "open" /\ Sent(r)
    /\ ~kill /\ grid[r].leverage <= policy.leverage /\ n <= policy.account
    /\ ExposureFits(policy, grid[r].fleet, grid[r].symbol, n * grid[r].leverage)
    /\ top' = [top EXCEPT ![p] = [at |-> "pour", row |-> r, amount |-> n]]
    /\ UNCHANGED <<settingsVars, gridVars, lockVars, job, form, derive>>

\* The exchange takes the capital of a REAL grid, whatever its row's status is by
\* now, and the ledger records it.
Pour(p) ==
    /\ top[p].at = "pour"
    /\ grid[top[p].row].fleet = "PAPER" => state[top[p].row] = "open"
    /\ poured' = [poured EXCEPT ![top[p].row] = @ + top[p].amount]
    /\ top' = [top EXCEPT ![p] = Idle]
    /\ UNCHANGED <<settingsVars, state, grid, lockVars, job, form, derive>>

\* A refusal by a later gate, by the exchange or by the row's status.
PourRefused(p) ==
    /\ top[p].at = "pour"
    /\ top' = [top EXCEPT ![p] = Idle]
    /\ UNCHANGED <<settingsVars, gridVars, lockVars, job, form, derive>>

-----------------------------------------------------------------------------
(* The writers of risk_settings.                                           *)

Writes == version < MaxWrites /\ version' = version + 1

SetKillSwitch(on) ==
    /\ Writes
    /\ kill' = on
    /\ UNCHANGED <<policy, breaker, gridVars, lockVars, workVars>>

LoadForm(f) ==
    /\ form[f] = NoForm
    /\ form' = [form EXCEPT ![f] = [kill |-> kill, policy |-> policy, breaker |-> breaker,
                                    version |-> version]]
    /\ UNCHANGED <<settingsVars, gridVars, lockVars, job, top, derive>>

SaveForm_Blind(f, on, p, b) ==   \* a bug: the token is not compared
    /\ form[f] # NoForm
    /\ form' = [form EXCEPT ![f] = NoForm]
    /\ Writes /\ kill' = on /\ policy' = p /\ breaker' = b
    /\ UNCHANGED <<gridVars, lockVars, job, top, derive>>

\* UpdateSettings replaces the whole row, if it is still the row that was read
\* (ErrStaleSettings otherwise). Without the token there is nothing to compare.
SaveForm(f, on, p, b) ==
    /\ form[f] # NoForm
    /\ form' = [form EXCEPT ![f] = NoForm]
    /\ IF f \in Tokenless \/ form[f].version = version
       THEN Writes /\ kill' = on /\ policy' = p /\ breaker' = b
       ELSE UNCHANGED settingsVars
    /\ UNCHANGED <<gridVars, lockVars, job, top, derive>>

\* What an admin changes on a form: the switch, the limits, or the breaker,
\* which is then pinned.
Edits(f) ==
    \/ SaveForm(f, ~form[f].kill, form[f].policy, form[f].breaker)
    \/ \E p \in Policies : SaveForm(f, form[f].kill, p, form[f].breaker)
    \/ SaveForm(f, form[f].kill, form[f].policy, [mode |-> "MANUAL", value |-> "pinned"])

\* SyncDerivedBreaker reads the mode, then writes what it derived.
ReadBreaker ==
    /\ derive = "idle"
    /\ breaker.mode = "AUTO" /\ breaker.value # "derived"
    /\ derive' = "write"
    /\ UNCHANGED <<settingsVars, gridVars, lockVars, job, top, form>>

WriteBreaker ==
    /\ derive = "write"
    /\ derive' = "idle"
    /\ IF breaker.mode = "AUTO"
       THEN Writes /\ breaker' = [breaker EXCEPT !.value = "derived"]
       ELSE UNCHANGED <<breaker, version>>
    /\ UNCHANGED <<kill, policy, gridVars, lockVars, job, top, form>>

Next ==
    \/ \E d \in Deployers :
          \/ \E p \in Plans : EarlyCheck(d, p)
          \/ LastLook(d) \/ LockSymbol(d) \/ LockFleet(d) \/ ReadPolicy(d) \/ ReadGrids(d)
          \/ \E r \in Rows : InsertIntent(d, r)
          \/ SendCreate(d) \/ Abandon(d)
    \/ \E r \in Rows : Close(r)
    \/ \E p \in Pourers :
          \/ \E r \in Rows, n \in Pours : TopUpCheck(p, r, n)
          \/ Pour(p) \/ PourRefused(p)
    \/ \E on \in BOOLEAN : SetKillSwitch(on)
    \/ \E f \in Forms : LoadForm(f) \/ Edits(f)
    \/ ReadBreaker \/ WriteBreaker

Spec == Init /\ [][Next]_vars

-----------------------------------------------------------------------------
\* Limits, rows, locks and work in hand keep to the values the code can write.
TypeOK ==
    /\ kill \in BOOLEAN /\ policy \in Policies /\ breaker \in Breakers /\ version \in Nat
    /\ state \in [Rows -> {"new", "open", "closed"}]
    /\ grid \in [Rows -> Plans]
    /\ poured \in [Rows -> Nat]
    /\ fleetLock \in [Fleets -> Deployers \cup {Nobody}]
    /\ symbolLock \in [Symbols -> Deployers \cup {Nobody}]
    /\ job \in [Deployers -> Jobs]
    /\ top \in [Pourers -> TopUps]
    /\ form \in [Forms -> Loaded \cup {NoForm}]
    /\ derive \in {"idle", "write"}

\* What the deployers brought in, without what was poured later.
EntryNotional(rows) == SumOver(rows, [r \in Rows |-> grid[r].invest * grid[r].leverage])

\* A grid that enters fits the limits its transaction read together with every
\* grid that is open when it commits: overlapping entries on different symbols
\* do not all take the same last slot, or the same headroom.
EntryKeepsLimits ==
    [][\A d \in Deployers, r \in Rows :
          (state[r] = "new" /\ state'[r] = "open" /\ job[d].at = "insert" /\ job'[d] # job[d])
          => LET p == job[d].plan
                 n == p.invest * p.leverage
                 limits == job[d].limits
             IN  /\ CountFits(limits, p.fleet)
                 /\ EntryNotional(Open(p.fleet)) + n <= limits.account
                 /\ EntryNotional(OpenOn(p.fleet, p.symbol)) + n <= limits.symbol]_vars

\* A writer of the settings who read before another wrote does not undo it: a
\* form that carries its token cannot disarm a kill switch that was armed after
\* the form was loaded, and the derivation does not overwrite an operator's
\* pinned breaker. A form without a token does disarm the switch.
StaleWritersYield ==
    [][/\ \A f \in Forms \ Tokenless :
             (kill /\ ~kill' /\ form[f] # NoForm /\ form'[f] = NoForm) => form[f].kill
       /\ (breaker.mode = "MANUAL" /\ derive = "write" /\ derive' = "idle")
             => breaker' = breaker]_vars
=============================================================================
