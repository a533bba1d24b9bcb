------------------------------ MODULE MCTrading ------------------------------
(* One run over the trading components and what they rest on, the settings and
   the client: every behaviour plays one of them. *)
EXTENDS EntryPass, ManageBot, Radar, SettingsForms, PionexClient, TLC

CONSTANTS Parts, p1, p2, s1, s2

VARIABLE part

MCMoods ==
    {ClearMarket, [ClearMarket EXCEPT !.storm = TRUE],
     [ClearMarket EXCEPT !.fleet = "blocked"],
     [ClearMarket EXCEPT !.macro = TRUE, !.liquidations = "unreadable"]}

MCGrids == {<<"REAL", "NEUTRAL">>, <<"PAPER", "LONG">>}
\* What a form carries: mode, leverage, band, fleet, exit with its target, auto-close.
Filled(mode, leverage, low, high, fleet, pnl, target, autoclose) ==
    [mode |-> mode, leverage |-> leverage, low |-> low, high |-> high, fleet |-> fleet,
     pnl |-> pnl, target |-> target, autoclose |-> autoclose]
\* A complete one, two partial ones (the second not valid everywhere), a REAL one.
MCForms ==
    {Filled("PAPER", 1, 0, 2, 1, "FIXED", 1, "BAND3"), Filled("PAPER", 3, 1, 3, 2, "", 0, ""),
     Filled("PAPER", 2, 1, 3, 1, "FIXED", 0, ""), Filled("REAL", 2, 2, 4, 1, "DYNAMIC", 0, "OFF")}
MCPatches == {[leverage |-> 1, low |-> 2, high |-> 4], [fleet |-> 2, pnl |-> "FIXED", target |-> 1]}
MCSuggestions == {[low |-> 3, high |-> 2, leverage |-> 3], [low |-> 2, high |-> 5], [leverage |-> 1],
                  [low |-> 2]}

MCInit ==
    /\ part \in Parts
    /\ PassInit /\ ManageInit /\ RadarInit /\ SettingsInit /\ ClientInit
    /\ part # "pass" => execMode = "REAL"
    /\ part # "manage" => grid = [direction |-> "LONG", pos |-> 1, entry |-> StartPrice,
                                  middle |-> StartPrice, card |-> 0]
    /\ part # "radar" => guarded.source = "REAL"
    /\ part # "settings" => settingsWorld = {}
    /\ part # "client" => ~drifted
MCNext ==
    /\ UNCHANGED part
    /\ \/ part = "pass" /\ PassNext /\ UNCHANGED <<manageVars, radarVars, settingsVars, clientVars>>
       \/ part = "manage" /\ ManageNext /\ UNCHANGED <<passVars, radarVars, settingsVars, clientVars>>
       \/ part = "radar" /\ RadarNext /\ UNCHANGED <<passVars, manageVars, settingsVars, clientVars>>
       \/ part = "settings" /\ SettingsNext
             /\ UNCHANGED <<passVars, manageVars, radarVars, clientVars>>
       \/ part = "client" /\ ClientNext
             /\ UNCHANGED <<passVars, manageVars, radarVars, settingsVars>>
MCSpec ==
    MCInit /\ [][MCNext]_<<part, passVars, manageVars, radarVars, settingsVars, clientVars>>
MCSymmetry == Permutations(Symbols)

(* The values the code of these components can write. *)
TradingTypeOK ==
    PassTypeOK /\ ManageTypeOK /\ RadarTypeOK /\ SettingsTypeOK /\ ClientTypeOK
=============================================================================
