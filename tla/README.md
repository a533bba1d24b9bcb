# Formal model of the grid autopilot

A TLA+ development kept beside the Go backend (`src/backend`), which opens,
supervises and closes futures grids on the Pionex exchange with real money. TLC
checks the models on small instances; TLAPS proves the main safety results for
every value of the constants.

- [1. Inventory](#1-inventory)
- [2. Modules](#2-modules)
- [3. GridLifecycle](#3-gridlifecycle)
- [4. CommandQueue and CommandContract](#4-commandqueue-and-commandcontract)
- [5. RiskGate](#5-riskgate)
- [6. From the scan to the entry](#6-from-the-scan-to-the-entry)
- [7. Managing a running grid](#7-managing-a-running-grid)
- [8. After a grid has ended](#8-after-a-grid-has-ended)
- [9. Paper grids, experiments](#9-paper-grids-experiments)
- [10. The platform: settings, client, channel, stream](#10-the-platform-settings-client-channel-stream)
- [11. Runs](#11-runs)
- [12. Proofs](#12-proofs)
- [13. Disagreements between code and documentation](#13-disagreements-between-code-and-documentation)
- [14. Not modelled, and the plan](#14-not-modelled-and-the-plan)

Paths below are relative to `src/backend/internal` unless they start with `docs/`
or `migrations/`; `worker.go`, `service.go` and the other files without a directory
are those of `autogrid/`.

## 1. Inventory

| Component | State | Operations | Correct when |
|---|---|---|---|
| REAL grid lifecycle (`grid/lifecycle.go`, `autogrid/worker.go`, `autogrid/orphan_sweep.go`, `autogrid/close_intent.go`) | `grid_bots.status`, `bu_order_id`, `reconciliation_state`; the exchange's grids | create, adopt, sweep orphans, supervise, cancel, stop | a grid on the exchange is known to exactly one row; no row is written off while its grid lives or may still appear; a stop is not lost and ends |
| Fleet (`autogrid/service.go` `SetStatus`, `httpapi/server.go`) | `autogrid_settings.status`, kill switch | start, stop, emergency stop from the queue and from the console | a stopped fleet gains no grids |
| Command queue (`controlplane/service.go`, worker `processNext`) | `control_commands`: status, attempts, lease, confirmation | prepare, confirm, execute, expire, claim, run, finish, ghost sweep | at most once, confirmed first, truthfully reported, settles |
| Settings (`service.go`, `presets.go`) | `autogrid_settings`, the derived breaker | form, preset, mode switch, autotune, derivation | the row stays one a form could have been validated to; the breaker follows the design |
| Risk admission (`risk/`) | `risk_settings`; sums over open grids; advisory locks | early check, re-check under lock, top-up check, settings writes | limits hold under concurrent entries; stale forms do not disarm |
| PAPER fleet (`managePaperBots`, `paper_stop_settle.go`) | `paper_grid_bots` | deploy, simulate, settle | each grid is settled once |
| Tranche pours and adjustments (worker, `AdjustBot`) | `quote_investment`, markers in `model_state` | intent, pour, verify, back off | one pour per tranche, whatever is lost |
| Terminal settlement (`terminal_recheck.go`, `finalprofit.go`) | PnL columns, `finalProfitSource` | settle, re-check for 48 h, freeze | an estimate never replaces the exchange's figure |
| DGT re-deploy (`grid_lifecycle_policy.go`) | intents in `model_state` | queue, process, mark done | one re-deploy per closed grid |
| Management decision (`manage.go`, `protection.go`, `roi_policy.go`) | none (pure) | `decideBotAction` | protective closes are never hidden by a hold |
| Entry gate chain (`entry_chain.go`, `gates.go`, ...) | journal rows | refuse a candidate, with reason | a refusal has one reason, gates only refuse |
| Radar, storm mode, debounces (`radar*.go`, `realtime*.go`, `cooldown.go`) | in-memory maps under mutexes, events | score, close, re-centre, wake the worker | cooldowns hold |
| Market scan (`marketdata/scanner.go`) | `scans`, `candidates` | rank, judge in a pool, write, audit, hand over | a finished scan is whole; what is handed over was judged and vetted |
| Shadow portfolio and replay | journal, run and item rows with leases | record, capture, claim, compute, finish | every decision replayed once, every experiment ends |
| Exchange client (`pionex/`) | token bucket, cooldown, clock offset, stream subscriptions | signed calls, retries, websocket | an unanswered mutation is never taken for refused |
| Market data (`marketdata/`) | caches, order books, OFI windows | ingest, resync, evaluate | deltas apply to the snapshot they follow |
| Authentication (`auth/`) | users, sessions, `ip_bans`, tokens | login, TOTP, ban, revoke | the ban threshold is not overrun |
| Telegram (`telegram/`) | `notification_outbox`, poll offset | queue, lease, send parts, retry; inbound commands | parts in order; bounded retries |
| Accounts, audit, LLM, patterns, HTTP, MCP, frontend, Python tools | - | CRUD, scoring, transport | - |

How they interact. One worker goroutine (`Worker.Run`, a single `select`) takes
commands from the queue and runs reconcile passes, never both at once. A `start`
command spawns the first scan and deploy pass on a goroutine of its own; HTTP
handlers deploy manually, request closes, carry out `grid.stop` and the console's
buttons on theirs. They share nothing but PostgreSQL rows (READ COMMITTED, single
statements, a few transactions with advisory locks) and the exchange.

What makes it hard: a create or cancel can be lost, be late, or answer with
something that proves nothing; the process can stop between the row and the
request; every pass works from rows it read minutes ago while other goroutines
write them; the exchange's lists are read one after another and page by page.

The `hazards` of `PROJECT.json` list these at their lines, each with the
properties that cover it or the reason why none does.

## 2. Modules

| Module | Models | Kind |
|---|---|---|
| `GridLifecycle` | REAL grids from intent to terminal status, fleet status, kill switch, exchange | system, implements `GridContract` |
| `GridContract` | what the books promise of a grid on the exchange | abstract specification |
| `CommandQueue` | `control_commands` and its four parties | system, implements `CommandContract` |
| `CommandContract` | what the control plane promises of a command | abstract specification |
| `RiskGate` | admission against the limits, top-ups, the risk settings row | system |
| `CandidateScore` | how the scanner judges one symbol | pure operators |
| `MarketScan` | the scan: universe, worker pool, transaction, advisor, hand-over | system, over `CandidateScore` |
| `EntryChain` | the order of the entry gates and what they do to a candidate's direction | pure operators, with reference definitions |
| `EntryPass` | overlapping deploy passes over the chain | system, over `EntryChain` |
| `BotDecision` | the rules of `decideBotAction` in their order | pure operators |
| `ManageBot` | one grid under the manage pass: trails, graces, cards, shifts | system, over `BotDecision` |
| `Radar` | the stop radar over one grid: cooldowns, dwell, escapes | system |
| `TranchePour` | the second tranche's pour with its markers | system |
| `RedeployQueue` | re-deploys after a range break | system |
| `Settlement` | the final figure of a grid that has ended | system |
| `PaperBook` | the book of one paper grid | system |
| `DecisionReplay` | decision journal, shadow rows, replay experiments | system |
| `SettingsForms` | the settings row, its writers and the derived breaker | system |
| `PionexClient` | request loop, token bucket, cool-down, clock | system |
| `TelegramOutbox` | notifications, replies, the console's poll | system |
| `MarketStream` | one symbol's order book and readiness | system |
| `GridLifecycleProofs`, `GridSafetyProofs`, `CommandQueueProofs`, `PionexClientProofs`, `PourAndReplayProofs`, `RecoveryProofs`, `TradingProofs`, `PlatformProofs` | theorems (section 12) | proofs |
| `MCGridLifecycle`, `MCCommandQueue`, `MCPlatform`, `MCTrading`, `MCRecovery` | instances, symmetry, sets of faults, one run over several components | TLC |

Operators named `X_Something`, marked "a bug", are mutated forms of `X` for the
mutation runs listed in `PROJECT.json`; no specification uses them.

The systems meet where one's step is another's parameter. What
`CommandQueue!RunCommand` does to grids is a command step of `GridLifecycle`;
`GridLifecycle!EntryAllowed` is the part of `RiskGate!CapsFit` that concerns one
account's count and duplicates; what `MarketScan` hands over is what `EntryPass`
takes; the close that `ManageBot` or `Radar` asks for is carried out by
`GridLifecycle`, whose end `Settlement` settles and `RedeployQueue` answers; what
`PionexClient` tells its caller is the answer that `GridLifecycle` books. They are
kept apart because their product says nothing that the parts do not; an MC suite
plays one of its components in each behaviour (`part`), so that one run covers
several without multiplying their states.

Several modules take a set of *worlds*: sets of faults or actors, one of which a
behaviour has from its beginning, with a budget of how often they strike. A property
that is known not to hold in a world names it in its premise, and section 13 says
which behaviour breaks it there.

## 3. GridLifecycle

A step is one database statement, or a remote call together with the statement
that records its answer when nothing can tell the two moments apart.

State and code:

| Variables | Code |
|---|---|
| `status`, `bu`, `recon`, `rsym` | `grid_bots.status`, `.bu_order_id`, `.reconciliation_state`, `.symbol` |
| `age`, `lookalike` | `created_at` as the thresholds see it (90 s, 5 min); which other grids pass the adoption's match |
| `order`, `origin`, `net` | the exchange: grids, whose request made them, requests under way |
| `fleet`, `kill`, `console` | `autogrid_settings.status`, `risk_settings.kill_switch_enabled`, `autoGridAction` |
| `told` | the orders of which the orphan sweep has queued "cannot be decoded - manual review" |
| `dpc`, `drow`, `dsym` | `scanAndDeploy` / `DeployManualBot` and `CreateGridBot` on their goroutines |
| `wpc`, `wrow`, `wret`, `wsnap`, `wseen`, `wcomplete`, `wforced`, `sweepDue` | the worker goroutine's position and local variables |

Actions and code:

- *Deployers*: `PassGate` (the settings re-read of `scanAndDeploy`), `CreateAdmit`
  and `CreateSubmit` (the create transaction up to its commit), then one of
  `CreatePersist`, `CreateOutcomeUnknown`, `CreateRefused`, `CreateGarbled`,
  `CreateAborted` for the answer, `PassEnd`.
- *Worker commands*: `StartFleet`, `ScheduledScan`, `StartRefused`, `StopFleet`,
  `EmergencyStop` and their later statements (`SetStatus`, `CloseAllActiveBots`,
  `EmergencyMark`, `EmergencyList`, `EmergencyCancel`).
- *Cancel state machine*: `SubmitCancel` and the five answers.
- *Reconcile pass*: the orphan sweep (`SweepLists`, `AdoptOrphan`, `AlertOrphan`,
  `OrphanFails`), the adoption of unknown submissions (`AdoptSelect`,
  `AdoptListFinished`, `ResolveSubmission`), the managed rows (`ManageList`, `ManageRow`, `ReadLive`, `ReadTerminal`,
  `ReadFailed`, `DecideClose`, `DecideHold`).
- *Other goroutines*: `RequestBotClose`, `GridStop`, the console's `Direct...`
  actions, `ReleaseKillSwitch`.
- *Environment*: `Land`, `Drop`, `OrderFinish`, `Grow`, `SweepFallsDue`, `Crash`.

Abstractions:

- Statuses a grid that existed can end in are one value, `STOPPED`; an intent that
  never became a grid ends as `FAILED` (`FAILED_AUTHORITATIVE` and the adoption's
  clearing). Of `reconciliation_state` only the four cancel states matter, and the
  confirmed end that a settled row carries into an operator's `grid.stop`.
- One account and one settings row. The adoption query is not filtered by account
  in the code either.
- Caps other than the active-grid count are `RiskGate`'s. The advisory entry lock
  appears as: at most one deployer is admitting.
- The 48 h end of adoption and its LIMIT 10 are left out; the orphan sweep's
  15 min throttle is `sweepDue`, its page budget is left out; a failing page of a
  list leaves a partial set. Rows of a pass are taken in any order.
- A replay of a create with a known idempotency key changes nothing and is no step.
- `Grow`: a row passes 90 s only when its request has arrived or was lost and its
  deployer is done with it. The client's timeout is 15 s, so the request cannot
  outlive the 90 s in practice; this is an assumption about the network.
- Prices, PnL and settlement are left out; `decideBotAction` is a choice between
  `DecideHold` and `DecideClose`. Range adjustments, tranche pours and trailing
  stops write no modelled column and are part of `DecideHold`.
- A failing database statement is modelled where the code goes on without it
  (`CreateAborted`, `OrphanFails`).
- A scheduled scan runs on the worker in the code; the model lets the worker go on
  meanwhile, as it does during the pass of a `start`, which adds behaviours.
- A revived row may cancel an order that has finished; the exchange answers that it
  is gone.

Faults are kinds named by a constant: lost or 5xx create answers, undecodable create
answers, unanswered, failed or refused cancels, failing reads and lists, an account
whose client cannot be built, a 404 for a live grid, a listed order whose grid data
does not decode, and a failing statement of the orphan sweep.

`GridContract` is the promise of `docs/GRID_LIFECYCLE.md`: a row goes from none to
waiting, held, stopping, over or written off; it asks the exchange for one grid, keeps
the grid it finds, settles it only when that grid is closed, and is written off only
when nothing of its request exists or can still land. The worker's lists and lookups,
the cancel's states, adoption, the deployers and the console do not appear in it.
`GridLifecycle` implements it (`KeepsGridContract`) under `PhaseOf`, which reads a row's
status and id, and `MarketOf`, which reads the exchange. The contract allows a settled
row to be taken up again, because the code does: the orphan sweep with a list it read
earlier, and the operator's `grid.stop`.

What is stated: `RunningIsBacked`, `RemoteIdExclusive`, `RemoteIdKept` (proved),
`KeepsGridContract`, `TerminalMeansFlat`, `FailedWasNeverCreated`, `OneLiveGridPerSymbol`,
`BoundStopIsDurable`, `StopReachesTerminal`, `LiveGridIsSupervised`, and
`StopIntentIsDurable`, which the documentation promises and the code does not keep
(section 13). A comment
above each says it in words. `TerminalMeansFlat`, `FailedWasNeverCreated` and the
contract hold only without the two faults under which an answer lies to the client
(`spurious_gone`, `garbled_create`); with these, `LiveGridIsSupervised` is what
remains: the orphan sweep brings the grid back. It cannot adopt a grid that no row
holds and whose payload it cannot read (`orphan_sweep.go:130-138`): it only tells the
operator, which is the third way out of `LiveGridIsSupervised` - such a grid stays
unsupervised for as long as its payload does not decode and nobody acts on the message.
`BoundStopIsDurable` is about a stop under way; a settled row is another matter, see
the contract above.

Fairness (`Fairness`): the worker's tickers keep firing, so a worker with something
to do goes on (`WF` of its steps); the same for goroutines waiting for an answer,
since every call has a timeout. Calls that are retried on every pass succeed now and
then (`SF` of an authoritative cancel answer and of a readable detail of each grid,
of the sweep's list, and of the sweep's statements for each grid of it): the code
cannot make progress otherwise. An accepted cancel closes its grid
in the end. Operator commands, admissions, decisions, native closes and crashes are
not promised. Liveness of a stop also takes for granted that the account's client
can be built.

## 4. CommandQueue and CommandContract

A row of `control_commands` is identified by its idempotency key. Variables are its
columns (`status`, `kind` for `command_type` with the arguments that matter, `born`
and `age` for `created_at`, `confirmed`, `guesses`, `attempts`, `lease`), the number
of times the command was carried out (`effects`), and the positions of HTTP handlers
and of the worker.

`PrepareCommand`, `ConfirmCommand`, `ExecuteCommand` and `FinalizeCommand` are the
handlers of `controlplane/service.go`; `HandlerAborts` is the end of a request's
context. `Dashboard` is the expiry statement of the dashboard query.
`SweepRestartGhosts`, `Claim`, `ClaimNothing`, `RunCommand`, `FinishCommand` and
`WorkerPanics` are the worker's; `QueueScan` stands for the three statements that
insert scans. `Age`, `LeaseLapses` and `Crash` are time and restarts.

Abstractions: requests shown are those that pass the role checks;
`mcp_dangerous_confirmation_required` is on; a start in paper mode goes the way of a
scan; the expiry and the claim of one `claim` call are one step; a command in
progress ends before its lease and the 30 s of grace are over (its context has a
shorter timeout); a repeated key changes nothing.

`CommandContract` is the promise of `docs/CONTROL_PLANE.md`, with one phase per
command: new, asking, cleared, performed, refused. `CommandQueue` implements it under
`PhaseOf`; a command counts as refused only when nobody can carry it out any more,
which is why `EXPIRED` alone is not enough (a handler may still hold the row).

`AtMostOnce` also says that the retry budget `attempts` is never used: a lapsed lease
expires the command. `Custody` is the strengthening: one party at most may still
carry out a command, and what it holds agrees with the row.

Fairness: the worker's loop, handlers that are not cut off, time, and somebody
looking at the dashboard now and then.

## 5. RiskGate

REAL grids of one account and PAPER grids are two fleets with a lock of their own and
one `risk_settings` row. A deployer goes through `EarlyCheck` (`ValidateNewGrid`,
outside any transaction), `LastLook` (kill switch), `LockSymbol`, `LockFleet`
(`LockEntryGate`), `ReadPolicy` and `ReadGrids` (the two statements of
`RecheckGridEntryCaps`, which READ COMMITTED lets other commits in between),
`InsertIntent` and `SendCreate`. `TopUpCheck` and `Pour` are `AdjustBot` with
`invest_in`. `LoadForm`, `SaveForm`, `SetKillSwitch`, `ReadBreaker` and
`WriteBreaker` write the settings; `version` is `updated_at`, compared as a token. The
token is optional (`risk/engine.go:288-304`, `types.ts:95`): a client in `Tokenless`
leaves it out, and its form is written over whatever the row holds.

Abstractions: nothing inserts pattern orders, so open positions are open grids; the
early check is one step; the daily-loss gate, the circuit breaker and the margin
reserve only add refusals (`PourRefused`, `Abandon`); a pour whose answer is lost is
not in the ledger; the MCP's update is a form that is loaded and saved; grids adopted
as orphans bypass the caps in the code and are not shown here.

`EntryKeepsLimits` relates an insert to every grid that is open when it commits, and
to the limits its transaction read: not to limits an admin has lowered since, and not to
capital poured since. `StaleWritersYield` says that a form that carries its token does not
disarm a switch armed after it was loaded, and that the derivation never writes over a
pin; a form without a token does disarm the switch. That an old client's form may leave
out the breaker's mode (`risk/engine.go:273`) is not modelled: a form here carries the
mode it was loaded with.

## 6. From the scan to the entry

`CandidateScore` is the scanner's judgement of one symbol: `DetectRegime`, the vote of
the indicator classes, the direction and the reasons against it. Indicators are
readings; thresholds keep the code's numbers. `MarketScan` runs it: the universe is
ranked and cut (`VolQuota` symbols join for their range), a pool of workers fetches
and judges, the best rows are written with the scan's row in one transaction, the
advisor reviews them, and `HandOver` is the gate of the deploy loop. Fetches fail,
workers panic, the context ends, statements fail, the process ends. Scores are 1 or 2
and free; a series' memory (Hurst) may be unknown, and then neither votes nor vetoes;
the numeric indicators, entry targets, the AI kit's clamp and the funding
hydration are left out. `RequireAuditForReal` is subsumed by the gate of a row
without an audit. One scan per behaviour.

`EntryChain` is the order of the gates of `deployReal` and `deployPaper`
(with the demotion and promotion of a candidate's direction between them): the
verdict is the first gate that stops a candidate, whether it leaves a reason on the
row and whether it counts as an error of the pass. `EntryPass` runs two passes at
once over it: settings are read again for every candidate, open grids and the market
once, and the create comes later, when a slot may have gone. `DirectionsAreBacked`
relates what is opened to the regime the scan saw and to the out-of-turn short pass;
`PassWithinSlots` bounds a pass by the slots it counted, although another pass and the
exchange change them meanwhile. Two of the chain's oddities are modelled as they are:
a skip that leaves no reason on the row (`worker.go:2645`), and the drift exemption
that one gate grants and a later one does not know of (`worker.go:2335` and `:2684`).

## 7. Managing a running grid

`BotDecision` is `decideBotAction` as a sequence of rules over facts (the comparisons
that come out true). `ManageBot` is the manage pass around it over one grid: the
exchange re-bases the entry price when the position is closed and reopened, so the
pass carries a pool (supervision floor) that `NewPool` moves on; a structural close
may be put off for one grace of the wick shield; a shift of the range follows the
decision; the trail is written to the exchange's card and to the row, and either may
fail. A position is one unit, so PnL is a difference of prices; the write of the row
at the end of a pass succeeds; the peak ratchet is a free fact. `LossIsNeverHeld` says
that no rule, grace or re-based price hides the loss limit. `CarriedIsBacked` joins
"one grace per episode" and "the row never relies on a stop that the card does not
carry".

`Radar` is `radarPass` over one grid in ACTIVE mode: emergency exit, score, break-flip,
the four lanes with cooldown, dwell and budget, auto-close, beside an operator and the
manage pass's own shifts. What it did last is read back from the event log, whose
writes may be lost; a log that cannot be read asks for no cooldown, scores or a row that
cannot be read hold the radar back (`Unread`). The budget is `adjustments_count`, which
the operator's adjust and every `invest_in` of a REAL grid raise without looking at it
(`OthersDraw`; of the operator's adjust only the count is modelled, not that it moves the
range). A shift of a REAL grid by the radar or the management may land although its call
fails - a lost answer, other bounds in the confirmation, a failed write of the row - and
is then neither counted nor logged (`MissedMove`), so that another may follow at once.
`moved` is how often these two really shifted the range; `EscapeOnlyBeyondBudget` bounds
that number: whoever else draws on the count, they move a range at most once beyond the
budget, for an escape, and once more for every move that was missed. `OthersCap` and
`MissedCap` bound the two kinds. A reading is free and is reduced to what it asks for (`Asks`);
time is in quarters of an hour; dwell snapshots have no age, as in the code. The
velocity lane's re-center arms no cooldown in the code (`radarLastActionAt` lists
other reasons), so `ShiftIsGivenItsWindow` speaks of the lanes that do, of recorded shifts
and of a radar that could read its log.

`TranchePour` is the second tranche of a REAL grid: the intent marker, the guards, the
exchange's answer, the ledger, the doubling, the failure marker with its back-off, and
the operator's top-up beside it. Answers are lost, writes fail, reads lag, the process
ends between any two writes. Amounts are counted in halves of the base. `TrancheOnce`:
no more than the base is ever poured by the pass and doubled targets mean doubled
money. `FullTrancheIsManaged`: a grid that holds it all gets its full targets in the
end. An answer that cannot be decoded (`garbled`, `pionex/client.go:706`) is an API error
like a refusal: the intent is cleared although the pour has landed, and only the
investment that the grid's record shows keeps the next pass from pouring again. Reads
catch up before an hour's back-off ends, and an intent goes stale only after a caught-up
read was written back. Two combinations do pour twice and are left out of the worlds
(section 13): a lag that outlives a crash or a lost marker, and an undecodable answer
together with a record that leaves the investment out.

## 8. After a grid has ended

`Settlement` follows one REAL grid from its end to its final figure: the three
terminal writes, the sweep of closed rows without a figure, the re-check that replaces
an estimate by the exchange's total for 48 hours, the freeze, the reopening of an
estimate, and the candidate's outcome. The exchange's record comes late, its lists and
details fail, statements are lost, the process ends. `SettledOnce` relates the closing
cost, the source of the figure and the outcome; `PendingFinalEnds` says that a STOPPED
row does not stay pending. The batch of five rows, heals of earlier versions and the
30-day bound are left out.

`RedeployQueue` is DGT: a grid closed for a range break leaves an intent in its
row's `model_state`; the manage pass takes the intents of settled rows, makes one
attempt (flip cap, ladder cap, blocked symbol, create with a fingerprint of the
request) and marks it done. A pass makes one row transition and then takes intents.
Statements fail, answers are lost, the process ends, a scanner's grid takes the
symbol, the feature is switched off. `RedeploysAreBounded` joins: not before the parent
is settled, once per break, and no more than the ladder allows in a day, the last only
when each attempt was answered and its event written. The ladder is
fail-open, unlike the cap of flips: when it cannot be counted (`count_error`,
`grid_lifecycle_policy.go:360`) it blocks nothing, so `LadderHolds` allows one re-deploy
more for each such reading (`Uncounted`). `IntentEnds`: an intent is
consumed or grows too old.

## 9. Paper grids, experiments

`PaperBook` is one paper grid's row under `managePaperBots`: the mark, which pairs are
realised between two marks, funding with its anchor, the shift of the range, the pour,
the close and the settlement of a stop, with a successor after a re-deploy, beside
the operator, a restart and the radar, which ends each pass: its emergency exit
(`RadarExits`, with a re-deploy for a NEUTRAL grid), its auto-close (`RadarAutocloses`) and
its re-centring, which reads the row anew and writes it if it still runs (`RadarReads`,
`RadarRecenters`), within the budget or one beyond it. `PaperHistoryHolds` joins the
ledger and that an ended row is never closed again. Of the ledger it says: what a LONG
grid has gained is what its units sold for less what they cost, the funding and the fees,
and with one unit each boundary passed is charged once; a NEUTRAL grid is credited with
no more pairs than the price has walked back. It says nothing of a NEUTRAL grid's
floating part, nor of what it is settled for: `neutralGridPaperPNL`
(`manage.go:601-670`) computes that part from the range's middle alone, so a shift or a
re-centring under water forgets the loss that was carried (section 13). Price moves and
boundaries inside a pass count as after it.
Not shown, because the code does lose them: the fee of a pour followed by an emergency
exit in the same pass, a funding write that fails (the boundary is charged again), and
pairs crossed since the last mark when a stop settles; those that a pass has counted in
its copy are lost too when the pass writes no mark and the radar then re-centres the row.
The operator's adjust and pour of a paper grid are left out.

`DecisionReplay` is the decision journal with its episodes, the shadow rows captured
from rejections and their end, and the replay experiments: claim under a lease, batch,
items, finish, abandoned and overlapping passes. A decision is a chain of gates (RV
with its number, then perhaps a later one). `ReplayIsExact` compares an experiment's
items with a reference reading of the journal, and its counts with its items;
`ExperimentEnds` says that an abandoned experiment is taken up again. Coverage ledger,
money and the candle-by-candle run of a shadow row are left out. The runs see the
faultless experiments over every chain, and the faults over the chains whose replay
changes the outcome. Today's writers record single-gate traces (`worker.go:4302`,
`:1537`, `:2954`, `entry_chain.go:597`), so a rejection never becomes an admission in
production yet; the longer traces are those of `migrations/0062` and the tests.

## 10. The platform: settings, client, channel, stream

`SettingsForms` is the row of `autogrid_settings`. `UpdateSettings` reads the row,
merges the form (omitted switches keep their value), validates against the risk row
and the account, writes the whole row, reads it again and derives the AUTO breaker in
two more statements; `ApplyPreset` overlays a patch on a reading of its own;
`ApplyAutotune` writes the columns it tunes from a third; `SetExecutionMode` writes
one. A restart derives the breaker once. Levels of a band are steps of the 30% that a
round of autotune may move; `fleet` stands for grids times budget; one switch stands
for all columns kept when omitted; the exposure limits and the account are free
refusals. `SettingsHold` joins: the stored row is coherent whoever wrote which columns
from which reading; the AUTO breaker is the design's when nobody is writing; a preset
never changes what belongs to the operator.

`PionexClient` is `Client.do` over one `RateLimiter` for several callers: tokens, the
sleep and the second look, cancelled contexts, the cool-down after a 429, retries of
reads (three attempts) and never of mutations, the clock's offset read again when a
timestamp is refused. `RequestsAreHonest`: the weight admitted stays within capacity
plus rate times time, and what a caller is told of a mutation is true: "refused" was
never carried out, "ok" was, nothing twice. A weight above the capacity is charged as
the capacity, so weights are within it. The offset's request bypasses the limiter. A
heavy request has no queue and may be overtaken until its context ends, so no
liveness is claimed. A 2xx answer that does not decode is `GridLifecycle`'s.

`TelegramOutbox` is `notification_outbox` with its claims (two-minute lease), parts,
retries, the shared pause after a 429, and the poll of the console's commands behind
a durable cursor. `ChannelIsFaithful`: parts come in order, one may come twice and
none is left out, a row that is SENT was delivered to its end, and each command the
cursor has passed has one reply.
`OutboxDrains`: no row waits for ever. A call ends within 25 s, so a lease lapses
only after its dispatcher is gone or its write has failed; two processes of which one
stalls beyond its lease are left out.

`MarketStream` is one symbol's order book: subscription, snapshots, numbered deltas,
resync and its two cooldowns (the engine's and the lane's), reconnects, and the
windows that make the engine ready. `ReadyIsEarned`: a book that counts as ready is
the exchange's of its number. `BookRecovers`: a wanted book becomes ready again.
Frames carry numbers: the code takes a number of zero for any (`orderbook.go:99`), which
the exchange is trusted not to send. Fairness: frames are sent and read, handlers run,
time passes, a connection that is
dialled again and again comes up.

## 11. Runs

| Run | Instance | Distinct states |
|---|---|---|
| `lifecycle_safety` | 3 rows, 2 orders, 1 symbol, 1 deployer, 2 intents, 1 command, every fault that leaves the books trustworthy | 1,867,920 |
| `lifecycle_restarts` | 3 rows, 2 orders, 1 symbol, a fleet pass and a manual deploy, 2 intents, 1 command, 1 restart, lost creates | 1,272,082 |
| `lifecycle_supervision` | 2 rows, 1 order, 1 restart, every fault but an account without a client; no operator's command | 89,564 |
| `queue_contract` | 2 keys, 4 kinds, 2 handlers, 2 guesses, 1 restart | 628,680 |
| `trading` | *pass*: 2 passes, 2 symbols, 1 slot, 4 moods of the market, up to a permutation of the symbols (566,900); *manage*: prices 1 to 5, 3 ticks, 4 faults (122,233); *radar*: a REAL neutral and a PAPER long grid, budget 1, dwell 2, 1 draw of the others, 1 missed move (1,096,329); *settings*: 2 handlers and the worker, 4 forms, 2 presets, 3 writes (93,804); *client*: 2 callers, capacity 2, weights 1 and 2, 2 calls, 3 ticks (125,497) | 2,004,763 |
| `recovery` | *pour*: 3 worlds, 2 faults; *dgt*: 3 rows, 5 worlds, 1 fault; *outbox*: 2 dispatchers, 2 rows, 1 update, 3 worlds; *settle*: 2 worlds; *stream*: 2 frames under way, 3 worlds; *replay*: 2 decisions, 2 passes, 5 worlds | 168,732 |
| `platform` | *entries*: 3 rows, 2 symbols, 2 deployers, 1 pour, limits with room for one or two, a kill switch thrown once (90,654); *settings*: 1 row, both fleets, 2 forms, one of them without a token, 3 writes (135,155); *paper*: prices 0 to 4, 3 moves, 1 boundary, 1 shift, 4 worlds (1,164,250); *scan*: one symbol with any reading, or three plain ones with 6 kinds of fault (316,786) | 1,706,845 |

Why the bounds are enough for the questions asked: the errors of the lifecycle need two
rows and two grids of one symbol (a lookalike, a wrong write-off followed by a second
create), a third row for an orphan inserted beside them, one operator's command in the
middle, and one restart at any point. Two handlers and two keys give every race for
one row and an order between rows. Two deployers, three rows and two symbols give two
overlapping entries, of one symbol or of two, also beside an open grid, where one or
both fit. Two passes
and one slot make the second one's count stale; three ticks let a grace run out and a
second one be asked for; a budget of one is exceeded by the second shift,
and one draw of the operator or one missed move changes where that happens. The pour's
and the settlement's errors need one fault in the middle of a pass and the next pass;
the outbox's, two dispatchers and a row of two parts; the replay's, two decisions of
one episode, a batch of one and a second pass. One scan of one symbol meets every
reading within two fields of three base cases; three symbols are cut to two, so that
one is left out. Every mutant of `PROJECT.json` (a dropped guard, lock, token, order
or reset) is found within these bounds.

Rows and orders of `GridLifecycle` and the symbols of an entry pass are
interchangeable, which the runs without liveness properties use; `platform` begins the
rows of `RiskGate` in their order instead. The lifecycle runs check deadlock: the
worker always has something to do. The others stop when every key, row, tick, write or
budget has been used, so their runs do not.

Fairness in the suites: passes, tickers and dispatchers go on, time passes, a call
that is repeated on every pass is answered now and then. Operators, faults, price
moves and restarts are promised nothing.

## 12. Proofs

The theorems hold for any number of rows, orders, symbols, deployers, passes,
dispatchers, handlers and callers, for any budget of faults and every value of the
bounds, from the assumptions named in the modules that declare the constants, which
TLC evaluates in the runs. A theorem that needs more says so in its own `ASSUME`: the
hypotheses are given below, each with what happens without it. Most assumptions give a
constant its type; those that say more are `OutboxAssumption` (the bound on updates
leaves each reply a row), `RiskAssumption` (limits as `UpdateSettings` accepts them,
and some plan), `ManageBotAssumption` (the grace is shorter than the re-arming) and
`MarketScanAssumption` (a finite universe); `SettingsAssumption` says which columns a
form, a preset and a suggestion may carry.

| Module | Theorems about | Inductive invariant |
|---|---|---|
| `GridLifecycleProofs` | `GridLifecycle` | `Supervision` |
| `GridSafetyProofs` | `GridLifecycle`, its refinement of `GridContract` | `Supervision /\ Intents`, `Alone`, `AskingWaits` |
| `CommandQueueProofs` | `CommandQueue`, its refinement of `CommandContract` | `Custody` |
| `PionexClientProofs` | `PionexClient` | `BucketInv`, `CallsInv` |
| `PourAndReplayProofs` | `TranchePour`, `DecisionReplay` | `PourInv`, `ReplayInv` |
| `RecoveryProofs` | `Settlement`, `RedeployQueue`, `TelegramOutbox`, `MarketStream`, the suite `MCRecovery` | `SettleInv`, `RedeployInv`, `OutboxHolds`, `StreamInv`; `Packed`, `Tries`, `WireFits`, `JournalFits` |
| `TradingProofs` | `EntryPass` over `EntryChain`, `ManageBot` over `BotDecision`, `Radar`, `SettingsForms`, the suite `MCTrading` | `PassInv`, `Managed`, `RadarInv`, `SettingsInv`; `PassSpares`, `ScoresAre`, `BucketWaits` |
| `PlatformProofs` | `RiskGate`, `MarketScan` over `CandidateScore`, `PaperBook`, the suite `MCPlatform` | `RiskInv`, `ScanInv`, `PaperInv`; `PaperSpares`, `ScanSpares` |

**GridLifecycleProofs** proves `TypeOK`, then `Supervision` by induction
(`SupervisionHolds`). `RunningIsBacked` and `RemoteIdExclusive` are not inductive: the
worker holds rows in local variables over remote calls and writes them later, so
`Supervision` adds what those variables may hold (`WorkerFrame`: rows on the work list
have an id), that an intent has no id (`IntentUnbound`), and that ids in rows and lists
are the exchange's (`IdsAreReal`). One lemma per group of actions shows that the
*books* survive; a step that changes neither status nor id is settled by one lemma for
all of them. `RunningBacked` and `RemoteIdsExclusive` are then conjuncts, and
`RemoteIdsKept` (`RemoteIdKept`) follows from the same invariant.

**GridSafetyProofs** adds `Intents` (`IntentsHold`, under every set of faults): only a
row that waits for its answer has a request on the wire (`IntentIsFresh`), a row old
enough to be given up has none (`AgedIsSettled`), one request lands at most one order
(`OneLanding`), a row that waits has no id (`WaitingIsUnbound`), and a list of the
worker's shows what the exchange held when it was read (`ListsCover`). From it:

- `BoundStopsDurable`: no step undoes a stop recorded on a row with an id, whatever
  fails. Without an id the claim is false (section 13, 1).
- `TerminalsAreFlat`, without `spurious_gone`: a 404 for a grid that lives is the one
  answer the code takes at its word.
- `FailuresWereNeverCreated`, without `garbled_create`, the answer with which
  `lifecycle_undecodable_create` breaks it.
- `OneGridPerSymbol`, without both. The invariant `Alone` says that lookalikes on the
  exchange belong to rows (`LookalikesAreOwned`) and that a row was admitted when its
  symbol had no other (`AdmittedAlone`); the entry gate is needed although it is held
  for the admission only, and a list that fails to load is harmless.
- `GridsKeepTheContract` (`KeepsGridContract`), without both. The safety proofs already
  say which moves of a row an action makes (`Moves`); here one lemma per way the books
  move shows that such a move is one step of `GridContract` or none. Settling needs
  `TerminalMeansFlat` of the next state, a write-off needs `FailedWasNeverCreated`, and
  an order that lands needs one fact more: a row whose request is on its way is active
  and has no id (`AskingWaits`).

**CommandQueueProofs** proves `TypeOK`, then `Custody` with one lemma per action and
one step per conjunct (`CustodyHolds`); `CarriedOutAtMostOnce` (`AtMostOnce`),
`ReportsAreTrue` and `DangerousAreConfirmed` follow, and `AnswersAreFinal`
(`AnswerIsFinal`) is proved from it as an action property. `QueueKeepsContract` is the
refinement: `GivingUp` reduces the steps that release commands to one `Refuse`, and
every other step is an `Accept`, a `Clear`, a `Perform` or a stutter.

**PionexClientProofs** proves `ClientIsHonest` (`RequestsAreHonest`). The rate is not
inductive without the bucket's bounds and the distance between the clock and the last
refill (`BucketInv`); the truth of a verdict needs, for every step of a call, how often
the exchange may have carried it out by then (`CallsInv`): a mutation has one attempt,
and only an answer that proves something ends it with a definite verdict.

**PourAndReplayProofs** proves `TrancheHappensOnce` (`TrancheOnce`). The invariant ties
the row to the exchange (`LedgerIsBacked`), what a pass has read to what may still
change (`PassIsCurrent`), and a tranche that has landed to the marker, the figure or
the read that keeps the next pass from pouring it again (`PourIsRemembered`). The
hypothesis `PourIsSeen` excludes two kinds of world, in which the tranche is poured twice
(section 13, *Pour*): reads may lag beyond the hour's back-off together with a crash or a
lost marker, and an answer may be undecodable while the grid's record leaves its
investment out. Elsewhere an undecodable answer is covered: the record shows the
investment before the next decision.

Of `DecisionReplay` it proves `ReplaysAreExact` (`ReplayIsExact`). An item is written from
a decision that the journal may have lost since, and counted by a pass that may have been
overtaken; `ReplayInv` therefore says of each run that its items are distinct, fit what the
chain of their decision says and what had been told of its episode by then, and that a run
that is done has judged what it was asked about and has counted it (`RunHolds`); of each
pass, that what it carries follows the run it claimed (`WorkHolds`); and, unless a pass
stalls past its lease, that a pass at work is alone on a run whose lease lives (`Solo`).
The worlds in which a claim is false are named in `ReplayIsExact`'s own premises, not in
a hypothesis of the theorem.

**RecoveryProofs** has four components:

- `EndIsSettledOnce` (`SettledOnce`): `SettleInv` follows the figure from its first
  source (`FirstFigure`) through the pass that carries it (`Underway`) to the
  candidate's outcome (`Reported`).
- `RedeploysWaitAndStop` (`RedeployWaitsForFlat`, `LadderHolds`) in every world, and
  `OneRedeployPerBreak` (`RedeploysAreBounded`) unless the geometry changes in a world
  with restarts or lost marks, which is what `redeploy_twice` shows. The invariant
  says that intents come from settled grids (`OnlySettled`), what the pass carries
  (`PassHolds`), that a re-deploy names its parent (`Lineage`) and that its event is
  counted (`Ladder`). The bound grows by one with every count that could not be read: such
  a reading spends a fault of the world's budget, and what the pass has judged still has
  its place below the cap so raised (`Room`).
- `ChannelStaysFaithful` (`ChannelIsFaithful`): a row has one lease-holder whose copy
  may be old (`Leases`), the operator has seen what was sent and at most a repetition
  of the next part (`Reading`, `ShownIsRead`), and the cursor counts replies
  (`Replies`).
- `ReadyBooksAreEarned` (`ReadyIsEarned`): a book in sync has the exchange's number as
  long as no frame of the connection is missing (`Sound`), and a window counts only if
  it was watched whole (`Watched`).

`RecoveryTypesHold` (`RecoveryTypeOK`) is about the composed suite and needs what those
invariants leave open: a re-deploy stands behind its parent and no slot is left out
(`Packed`), a text that is still to be sent has a try left and its dispatcher's copy
says so (`Tries`), a connection that is down has nothing on its way (`WireFits`), a
decision is linked to an episode there is and the portfolio waits for one candidate at
most (`JournalFits`). Every step of the suite is a step or a stutter of each component.
Its hypothesis is that of the pour's theorem, `PourIsSeen`.

**TradingProofs** proves of the entry pass `DirectionsHaveTheRegime`
(`DirectionsAreBacked`) and `PassKeepsToItsSlots` (`PassWithinSlots`). The chain is a
sequence of gates computed from facts; one lemma says that a gate that stops stops the
chain wherever it stands, so that it is enough to name, for each case that would
mislead the fleet, a gate that stops it. `PassInv` keeps the slots a pass counted
(`Counted`), the direction of a cascade pass (`ShortOnly`) and the rows in its hands
(`PassRows`). Of the manage pass it proves `LossEndsTheGrid` (`LossIsNeverHeld`): a
lemma over `BotDecision` lists what each decision presupposes, and the invariant says
that a re-basing moves a loss into the pool and does not forget it (`LossIsPooled`).
`CarriedStaysBacked` (`CarriedIsBacked`) needs `GraceIsKnown`, and a shield whose arming
is written: its hypothesis excludes `arm_write`, with which a restart forgets the grace
and grants another. The run `trading` leaves that fault out for the same reason.

`RadarKeepsTheGates` (`RadarKeepsItsGates`) rests on what a pass between its decision
and its step still knows: the event log is as young as the last re-center it recorded
(`LogIsCurrent`), whoever is about to shift or close has waited for the shortest window
(`HasWaited`), unless it could not read the log, and has a move left (`HasBudget`). The
count never falls behind the moves that were counted, whoever else raises it
(`CountIsKept`), so that what is moved beyond the budget is the escape's one and what was
missed (`BudgetIsKept`). `SettingsKeepTheirPromises`
(`SettingsHold`) covers overlapping requests and restarts: what a request is about to
write was validated, and what autotune is about to write keeps the band upright
(`WritesAreSound`), which makes the row coherent in every world; without overlap one
request is under way and a preset's carries the operator's columns as stored
(`Undisturbed`); in a quiet world the breaker is the row's, or somebody is about to
derive it from that row (`QuietWorld`).

`TradingTypesHold` (`TradingTypeOK`): a behaviour of the composed suite is one of each
component, whose type invariant is proved with the bounds that the invariants above leave
open. What a pass has opened, is opening and has left are different symbols (`PassSpares`,
of a finite set of them, which is the theorem's one hypothesis), the radar keeps one score
more than its dwell asks for (`ScoresAre`), and a limiter has not waited longer than
there was time (`BucketWaits`).

**PlatformProofs** proves of admission `EntriesKeepTheLimits` (`EntryKeepsLimits`) and
`StaleFormsYield` (`StaleWritersYield`). `RiskInv` says that whoever has read the limits
holds its fleet's lock until the insert (`HasLock`), that the room it found is still
there (`KeepsRoom`), and that a form as new as the row shows the row's own switch
(`FormIsKnown`), which is what the token is worth; forms without one are in the model and
outside the claim. Exposure is a sum, a fold over a finite set whose order nothing fixes;
`SumMonotone` and what else is used of sums is shown for the smallest subset that would
break it, for induction over data is out of reach. Of the scan it proves
`HandedAreVetted` (`HandedIsVetted`) and `ScansAreWhole` (`ScanIsWhole`): `ScanInv` says
that each symbol waits, is in one worker's hands or is among the results, that the rows
are written from the results, and that a mark has an answer behind it; `JudgedFits`
says, of the scoring alone, that an accepted reading fits its direction. Of the paper
grids it proves `PaperHistoryIsKept` (`PaperHistoryHolds`). What a row says it has earned
is not inductive: the pass holds a copy in which pairs are booked that the row does not
show yet, and the next mark will book what the price has walked meanwhile. `PaperInv`
therefore relates the copy to the row at each step of the pass (`PassKnows`, `Booked`)
and bounds the pairs booked together with those the next mark would book (`PairsBook`);
`PairsStep` says that one level of the price is worth at most one pair. The book holds
as long as the worker alone writes the row (`Alone`), the radar's re-centring included,
and of a NEUTRAL grid it holds of the pairs, not of the floating part; that an ended row is
not ended again holds in every world. `PlatformTypesHold` (`PlatformTypeOK`), of the composed
suite, adds to the three invariants how many shifts and boundaries the row and the
pass's copy of it may count (`PaperSpares`), and that a scan's rows are of symbols of
its market (`ScanSpares`).

Model-checked only:

- liveness (`ENABLED` and fairness are out of the prover's reach): the leads-to
  properties of the runs `lifecycle_supervision`, `queue_contract` and `recovery`;
- the reference definitions of `EntryChain` and `CandidateScore` over bounded inputs.

## 13. Disagreements between code and documentation

Each of these is a run that TLC finds violated; `PROJECT.json` quotes both sides.

1. `lifecycle_stop_lost`: the error path of a create overwrites a stop recorded while
   the request was in flight (`grid/lifecycle.go:255`).
2. `lifecycle_undecodable_create`: a 2xx answer that does not decode becomes a
   `FAILED` row (`pionex/client.go:753`).
3. `redeploy_twice`: a restart between the re-deploy's create and its mark, after which
   the fresh geometry differs, re-deploys one break twice.
4. `paper_settle_overwritten`: the paper pass's mark, from a row it read before the
   stop, overwrites what the stop has settled.
5. `loss_without_witness`: a cancel that finds its grid gone overwrites the stop's
   loss reason, and a positive total is booked as the loss's final.

Met while modelling, and not run; the property that comes closest leaves them out in
its premise, or the action shows them as they are:

- *Lifecycle and risk.* A settings form without `updatedAt` is written blindly and disarms
  a kill switch armed since it was loaded (`risk/engine.go:288-304`). A grid that no row
  holds and whose payload does not decode is reported and not adopted
  (`orphan_sweep.go:130-138`). A deploy pass reads the fleet's settings once and can admit a
  grid after a stop (`worker.go:629`). Two top-ups that fit alone exceed the limit
  together (`risk/engine.go:158`). `grid.stop` is carried out, stays `QUEUED` and
  expires (`controlplane/service.go:736`). A kill switch armed after the create
  transaction's check does not hold the request back (`grid/lifecycle.go:112`).
- *Scan.* When the advisor's settings cannot be read at deploy time the audit gate is
  open (`worker.go:2627` against "hard structural guarantee", `:2621`). A scan whose
  failure is written under a dead context stays RUNNING until a restart two minutes
  later.
- *Radar.* The velocity re-center arms no cooldown. A shift that landed although its call
  failed is neither counted nor logged (`service.go:2410`, `:2441`, `:2531`), so that
  another may follow beyond the budget and inside the window; the comment above the step
  promises "never a phantom shift" (`radar_actions.go:801`). The operator's adjust and
  every `invest_in` use up the budget that the radar's escape may need
  (`service.go:2495-2520`).
- *Paper.* A NEUTRAL grid that is shifted or re-centred under water loses its carried
  loss at the next mark, which computes it anew from the new middle
  (`manage.go:601-670`), where the comment says that it "carries forward as unrealized
  against the new bounds" (`worker.go:7850-7855`). A paper tranche's skip
  marker updates `grid_bots` (`worker.go`, near 7990). The paper re-center adds back
  the configured fees (`radar_actions.go:580`) where the mark subtracts a fixed rate.
- *Pour.* A pour that cannot be verified leaves its failure marker
  (`worker.go:6058` against `:6031`). A read that lags beyond the hour's
  back-off, after a crash or a lost marker, lets the tranche be poured again. So does a 2xx
  answer that does not decode while the grid's record leaves its investment out: it passes
  for a refusal, which clears the intent (`client.go:706-711`, `service.go:2411`,
  `worker.go:6040-6055`).
- *Re-deploy.* The ladder of re-deploys lets everything through when its count cannot be
  read (`grid_lifecycle_policy.go:360-364`).
- *Settlement.* Rows that land in `COMPLETED`, `LIQUIDATED` or `FAILED` with a pending
  figure are never re-checked nor frozen: both statements select `STOPPED`
  (`terminal_recheck.go:94`, `:113`). The terminal-detail path does not record the
  outcome. A crash between the figure and the outcome leaves the estimate in the
  outcome. Five old rows can hold younger ones back for 48 hours.
- *Replay.* `replay_run_items` has no unique key on run and decision and the lease is
  renewed without looking at its owner: a pass that stalls past its lease beside the
  one that took over inserts and counts items twice (world `stall`;
  `replay_engine.go:50` promises "no duplicates"). The 14-day retention deletes
  decisions between the items and the final count, whose join then counts one episode
  once per attempt (world `prune`).
- *Settings.* Autotune changes the leverage without deriving the AUTO breaker again
  (world `tune`; `service.go:679`), overlapping requests can land a stale derivation
  last (`overlap`), a lost statement or a return to AUTO by the risk form leaves it off
  until the next form or start (`fault`, `unpin`). Two forms lose each other's
  switches: the row has no version. A preset that overlaps a mode switch brings the
  old mode back (`presets.go:10`); nothing checks that the autopilot is stopped
  (`presets.go:309`). Autotune's leverage has no cap when the risk row cannot be read.
- *Channel and stream.* A poll whose commit fails carries its command out again. A
  frame with one empty side marks the book out of sync, later deltas apply without an
  error, and no resync is asked for (`marketdata/ofi_engine.go:533`; worlds with
  `one_sided` are left out of `BookRecovers`). Entry gates let a candidate pass while
  the engine has no data.
- *Stuck rows.* An ambiguous adoption match, or one whose id another row holds, leaves
  an unknown submission unresolved (`worker.go:6836`); an inline command whose handler
  died stays `EXECUTING` until a restart (`controlplane/service.go:173`).

## 14. Not modelled, and the plan

Not modelled: numeric scoring and indicators, LLM advice, the AI kit's sampling,
equity snapshots, audit, accounts, authentication, HTTP routing, the frontend, the
Python tools, deployment. They are numeric, append-only, stateless or transport; what
they decide enters the models as free readings and facts. Realtime triggers and storm
mode bring the next pass forward, which the models allow at any time. The half-life
rotation and the neutral take-profit repair of the manage pass are rules of
`BotDecision` whose own state is left out. Candle-by-candle simulation is
arithmetic over series, better tested than model-checked.

Next, most important first: two grids under `ManageBot` and `Radar` sharing a budget;
the half-life rotation's state; fail2ban's counter and ban.
