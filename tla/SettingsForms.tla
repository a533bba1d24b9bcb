---------------------------- MODULE SettingsForms ----------------------------
(* The one row of autogrid_settings and the breaker derived from it: the form
   of the console and of MCP, the presets, the execution mode's switch, the
   worker's AI autotune and the derivation of the daily-loss breaker, each a
   read, a decision and a write without a lock or a version.
   (autogrid/service.go UpdateSettings, SyncDerivedBreaker, SetExecutionMode,
   ApplyAutotune; autogrid/presets.go.)

   Abstractions: the columns are the execution mode, the leverage, the
   volatility band (in levels, one level being the 30% an autotune round may
   move), fleet (number of grids times budget), the PnL mode with its target,
   and the radar's auto-close switch for all the columns that keep their value
   when a form omits them.  A breaker is what the design's product says. *)
EXTENDS Integers, FiniteSetsExt

CONSTANTS
    Writers,        \* handlers of the console and of MCP; the worker
    Worker,
    Forms,          \* what a form may carry; "" in pnl and autoclose: omitted
    Patches,        \* what a preset overlays: some columns' values
    Suggestions,    \* what the AI Kit's distribution proposes: some columns' values
    SettingsWorlds, \* sets of: "overlap", "tune", "unpin", "fault"
    MaxWrites       \* bound: rows begun to be written

VARIABLES
    settingsWorld,
    settingsRow,    \* autogrid_settings
    breakerRow,     \* risk_settings: [auto, value, cap]
    desk,           \* the requests under way
    tuning,         \* the worker's autotune round
    begun           \* how many writes were begun

settingsVars == <<settingsWorld, settingsRow, breakerRow, desk, tuning, begun>>

PnlModes == {"DYNAMIC", "FIXED"}
AutocloseModes == {"OFF", "BAND3"}
LowLevels == 0 .. 3       \* minVolatilityPct, 0.25 .. 15
HighLevels == 2 .. 5      \* maxVolatilityPct, 5 .. 40
Columns == [mode : {"PAPER", "REAL"}, leverage : Nat, low : Nat, high : Nat, fleet : Nat,
            pnl : PnlModes, target : Nat, autoclose : AutocloseModes]
Carried == [mode : {"PAPER", "REAL"}, leverage : Nat, low : Nat, high : Nat, fleet : Nat,
            pnl : PnlModes \cup {""}, target : Nat, autoclose : AutocloseModes \cup {""}]
ASSUME SettingsAssumption ==
    /\ Worker \in Writers /\ MaxWrites \in Nat
    /\ Forms \subseteq Carried
    \* the columns of PresetPatch
    /\ \A patch \in Patches :
          /\ DOMAIN patch \subseteq {"leverage", "low", "high", "fleet", "pnl", "target"}
          /\ \A k \in DOMAIN patch : IF k = "pnl" THEN patch[k] \in PnlModes ELSE patch[k] \in Nat
    /\ \A s \in Suggestions :
          DOMAIN s \subseteq {"leverage", "low", "high"} /\ \A k \in DOMAIN s : s[k] \in Nat

AtRest == [step |-> "idle"]
Quiet == \A w \in Writers : desk[w] = AtRest
Alone == "overlap" \in settingsWorld \/ (Quiet /\ tuning = AtRest)
MayBegin == Alone /\ begun < MaxWrites
Breaks == IF "fault" \in settingsWorld THEN BOOLEAN ELSE {FALSE}

\* maxActiveBots x the stop of one grid x the headroom.
DeriveDailyLossBreaker(s) == s.fleet * s.leverage

SettingsInit ==
    /\ settingsWorld \in SettingsWorlds
    /\ settingsRow = [mode |-> "PAPER", leverage |-> 2, low |-> 1, high |-> 3, fleet |-> 1,
                      pnl |-> "DYNAMIC", target |-> 0, autoclose |-> "OFF"]
    /\ breakerRow = [auto |-> TRUE, cap |-> 3,
                     value |-> DeriveDailyLossBreaker(settingsRow)]
    /\ desk = [w \in Writers |-> AtRest] /\ tuning = AtRest /\ begun = 0
---------------------------------------------------------------------------
(* UpdateSettings. *)
Merged(f, s) ==
    [f EXCEPT !.pnl = IF f.pnl \in PnlModes THEN f.pnl ELSE s.pnl,
              !.autoclose = IF f.autoclose \in AutocloseModes THEN f.autoclose ELSE s.autoclose]
validateSettings(s, cap) ==
    /\ s.leverage \in 1 .. cap /\ s.low < s.high
    /\ s.pnl = "FIXED" => s.target > 0

At(w, step) == desk[w].step = step
Moves(w, to) == desk' = [desk EXCEPT ![w] = to]
Ends(w) == Moves(w, AtRest)

\* The request arrives with its form.
Submit(w) ==
    /\ MayBegin /\ At(w, "idle") /\ w # Worker
    /\ \E f \in Forms : Moves(w, [step |-> "open", preset |-> FALSE, form |-> f])
    /\ begun' = begun + 1
    /\ UNCHANGED <<settingsWorld, settingsRow, breakerRow, tuning>>

\* mergePreset: the stored row overlaid with the patch, the switches omitted.
mergePreset_Blanks(s, patch) ==   \* a bug: a switch that is left out is switched off
    [k \in DOMAIN s |->
        IF k \in DOMAIN patch THEN patch[k] ELSE IF k = "autoclose" THEN "OFF" ELSE s[k]]
mergePreset(s, patch) ==
    [k \in DOMAIN s |->
        IF k \in DOMAIN patch THEN patch[k] ELSE IF k = "autoclose" THEN "" ELSE s[k]]
ApplyPreset(w) ==
    /\ MayBegin /\ At(w, "idle") /\ w # Worker
    /\ \E patch \in Patches :
           Moves(w, [step |-> "open", preset |-> TRUE, form |-> mergePreset(settingsRow, patch)])
    /\ begun' = begun + 1
    /\ UNCHANGED <<settingsWorld, settingsRow, breakerRow, tuning>>

OpenSettings(w) ==
    /\ At(w, "open")
    /\ Moves(w, [step |-> "validate", preset |-> desk[w].preset,
                 row |-> Merged(desk[w].form, settingsRow)])
    /\ UNCHANGED <<settingsWorld, settingsRow, breakerRow, tuning, begun>>

\* The risk limits and, for REAL, the account as they are now.
ValidateForm(w) ==
    /\ At(w, "validate")
    /\ \/ validateSettings(desk[w].row, breakerRow.cap) /\ Moves(w, [desk[w] EXCEPT !.step = "write"])
       \/ ~validateSettings(desk[w].row, breakerRow.cap) /\ Ends(w)
       \/ desk[w].row.mode = "REAL" /\ Ends(w)
    /\ UNCHANGED <<settingsWorld, settingsRow, breakerRow, tuning, begun>>

WriteForm(w) ==
    /\ At(w, "write")
    /\ \E broken \in Breaks :
           IF broken THEN Ends(w) /\ UNCHANGED settingsRow
           ELSE settingsRow' = desk[w].row /\ Moves(w, [step |-> "reload"])
    /\ UNCHANGED <<settingsWorld, breakerRow, tuning, begun>>

\* A reload that fails ends the request before the breaker is derived.
ReloadSettings(w) ==
    /\ At(w, "reload")
    /\ \E broken \in Breaks :
           IF broken THEN Ends(w) ELSE Moves(w, [step |-> "sync", row |-> settingsRow])
    /\ UNCHANGED <<settingsWorld, settingsRow, breakerRow, tuning, begun>>

(* SyncDerivedBreaker, of the settings read before. *)
SyncLoad(w) ==
    /\ At(w, "sync")
    /\ \E broken \in Breaks :
           IF ~broken /\ breakerRow.auto
                /\ breakerRow.value # DeriveDailyLossBreaker(desk[w].row)
           THEN Moves(w, [desk[w] EXCEPT !.step = "derive"]) ELSE Ends(w)
    /\ UNCHANGED <<settingsWorld, settingsRow, breakerRow, tuning, begun>>
SyncWrite(w) ==
    /\ At(w, "derive") /\ Ends(w)
    /\ \E broken \in Breaks :
           breakerRow' = IF broken \/ ~breakerRow.auto THEN breakerRow
                         ELSE [breakerRow EXCEPT !.value = DeriveDailyLossBreaker(desk[w].row)]
    /\ UNCHANGED <<settingsWorld, settingsRow, tuning, begun>>

\* One column, after the gates and the account have been read for REAL.
SetExecutionMode ==
    /\ MayBegin /\ begun' = begun + 1
    /\ \E m \in {"PAPER", "REAL"} : settingsRow' = [settingsRow EXCEPT !.mode = m]
    /\ UNCHANGED <<settingsWorld, breakerRow, desk, tuning>>
---------------------------------------------------------------------------
(* The worker: autotune and the start of the process. *)
Clamped(v, low, high) == Min({high, Max({low, v})})
\* clampDecimalStep.
Stepped(level, proposal, low, high) ==
    Clamped(Clamped(Clamped(proposal, low, high), level - 1, level + 1), low, high)
Proposed(s, k, suggested) == IF k \in DOMAIN suggested THEN suggested[k] ELSE s[k]
Leveraged(s, suggested, cap) ==
    LET next == Max({1, Stepped(s.leverage, Proposed(s, "leverage", suggested), 1, 100)})
    IN  IF "leverage" \in DOMAIN suggested THEN Min({next, cap}) ELSE s.leverage
Banded(s, k, band, suggested) ==
    IF k \in DOMAIN suggested
    THEN Stepped(s[k], suggested[k], Min(band), Max(band)) ELSE s[k]
\* A band turned upside down by the steps is given up.
Tuned(s, suggested, cap) ==
    LET low  == Banded(s, "low", LowLevels, suggested)
        high == Banded(s, "high", HighLevels, suggested)
        next == [s EXCEPT !.leverage = Leveraged(s, suggested, cap)]
    IN  IF high <= low THEN next ELSE [next EXCEPT !.low = low, !.high = high]
\* Risk settings that cannot be read leave the leverage without its cap.
CapsRead == {breakerRow.cap} \cup (IF "fault" \in settingsWorld THEN {100} ELSE {})

TuneBegin ==
    /\ "tune" \in settingsWorld /\ MayBegin /\ tuning = AtRest /\ At(Worker, "idle")
    /\ \E suggested \in Suggestions, cap \in CapsRead :
           tuning' = [step |-> "write", seen |-> settingsRow,
                      row |-> Tuned(settingsRow, suggested, cap)]
    /\ begun' = begun + 1
    /\ UNCHANGED <<settingsWorld, settingsRow, breakerRow, desk>>

TuneColumns(s, seen, t) ==
    IF t = seen THEN s ELSE [s EXCEPT !.leverage = t.leverage, !.low = t.low, !.high = t.high]
\* The breaker is not derived again.
ApplyAutotune ==
    /\ tuning # AtRest /\ tuning' = AtRest
    /\ \E broken \in Breaks :
           settingsRow' = IF broken THEN settingsRow
                          ELSE TuneColumns(settingsRow, tuning.seen, tuning.row)
    /\ UNCHANGED <<settingsWorld, breakerRow, desk, begun>>

\* The process ends and starts again: the worker derives the breaker once.
RestartServer ==
    /\ begun < MaxWrites /\ begun' = begun + 1
    /\ desk' = [w \in Writers |-> IF w = Worker THEN [step |-> "reload"] ELSE AtRest]
    /\ tuning' = AtRest
    /\ UNCHANGED <<settingsWorld, settingsRow, breakerRow>>

\* The risk form (RiskGate has its version): a pinned breaker, or an AUTO one
\* with whatever number the form carries; another cap of the leverage.
EditBreaker ==
    /\ begun < MaxWrites /\ begun' = begun + 1
    /\ \/ breakerRow' = [breakerRow EXCEPT !.auto = FALSE, !.value = 1]
       \/ "unpin" \in settingsWorld /\ breakerRow' = [breakerRow EXCEPT !.auto = TRUE, !.value = 1]
       \/ breakerRow' = [breakerRow EXCEPT !.cap = 2]
    /\ UNCHANGED <<settingsWorld, settingsRow, desk, tuning>>

SettingsNext ==
    \/ \E w \in Writers :
           \/ Submit(w) \/ ApplyPreset(w) \/ OpenSettings(w) \/ ValidateForm(w) \/ WriteForm(w)
           \/ ReloadSettings(w) \/ SyncLoad(w) \/ SyncWrite(w)
    \/ SetExecutionMode \/ TuneBegin \/ ApplyAutotune \/ RestartServer \/ EditBreaker
SettingsSpec == SettingsInit /\ [][SettingsNext]_settingsVars
---------------------------------------------------------------------------
(* The values the code can write. *)
SettingsTypeOK ==
    /\ settingsRow \in Columns /\ begun \in 0 .. MaxWrites
    /\ breakerRow \in [auto : BOOLEAN, value : Nat, cap : Nat]

(* The stored row is one that a form could have been validated to: the band
   is upright and a FIXED exit has its target, whoever wrote which columns
   from which earlier reading. *)
RowIsCoherent ==
    /\ settingsRow.low < settingsRow.high
    /\ settingsRow.pnl = "FIXED" => settingsRow.target > 0
    /\ settingsRow.leverage \in 1 .. 100

(* "any N/budget/leverage change must re-align it while ... AUTO": when no
   request is under way an AUTO breaker is what the stored row derives, also
   after a crash between the two writes.  Autotune, overlapping requests, a
   lost statement and a return to AUTO break it: those worlds are left out. *)
BreakerFollowsDesign ==
    settingsWorld = {} /\ Quiet /\ tuning = AtRest /\ breakerRow.auto
        => breakerRow.value = DeriveDailyLossBreaker(settingsRow)

(* "Presets never touch executionMode, accountId or budget" and the AUTO
   switches survive them; a request that overlaps may bring back what the
   preset read, and is left out. *)
PresetKeepsOperators ==
    [][\A w \in Writers :
           At(w, "write") /\ desk[w].preset /\ "overlap" \notin settingsWorld
               => settingsRow'.mode = settingsRow.mode
                  /\ settingsRow'.autoclose = settingsRow.autoclose]_settingsRow

(* The settings row keeps its promises: the three of the above. *)
SettingsHold == []RowIsCoherent /\ []BreakerFollowsDesign /\ PresetKeepsOperators
=============================================================================
