-------------------------------- MODULE Radar --------------------------------
(***************************************************************************)
(* The stop radar over one grid of the fleet: every manage pass scores how *)
(* near the grid is to its stop and, in ACTIVE mode, acts on the score: an *)
(* emergency exit on a confirmed flow, the break-flip escape, a re-center  *)
(* of the range, an auto-close.  What it did last is read back from the    *)
(* grid's event log, so that a restart does not forget it.  The row may be *)
(* stopped by an operator between any two steps, and its count of shifts,  *)
(* the budget, is also drawn on by those who never look at the budget.     *)
(*                                                                         *)
(* A score is its band; bands 0 and 1 are one, 3 and 4 are one to the      *)
(* dwell.  Time is counted in quarters of an hour; ages stop at            *)
(* CooldownCap.                                                            *)
(***************************************************************************)
EXTENDS Integers, Sequences, SequencesExt, FiniteSets

CONSTANTS
    CooldownFloor, CooldownCap,   \* radarCooldownFloor, radarCooldownCap
    AutocloseCooldown,            \* radarAutocloseCooldown
    DwellTicks,                   \* radarDwellTicks
    MaxShiftsPerBot,              \* max_adjustments_per_bot
    RadarGrids,                   \* the kinds of grid: <<source, direction>>
    OthersCap,                    \* how often the others draw on the count
    MissedCap,                    \* how many shifts land without being counted
    RadarFaults                   \* which writes, calls and reads fail

ASSUME RadarAssumption ==
    /\ {CooldownFloor, AutocloseCooldown, DwellTicks} \subseteq Nat \ {0}
    /\ {MaxShiftsPerBot, OthersCap, MissedCap} \subseteq Nat
    /\ CooldownCap \in Nat /\ CooldownFloor <= CooldownCap /\ AutocloseCooldown <= CooldownCap
    /\ RadarGrids \subseteq {"REAL", "PAPER"} \X {"NEUTRAL", "LONG", "SHORT"}
    /\ RadarFaults \subseteq {"event_lost", "refused", "uncounted", "unread", "restart"}

VARIABLES
    guarded,    \* the grid's row: shifts is adjustments_count; moved is how often the radar and
                \* the management really moved the range, missed how many of those it lacks
    scores,     \* bot_risk_snapshots: the bands of the last passes, newest first
    events,     \* bot_execution_events: ages of what the cooldowns ask for
    lastShift,  \* the last re-center of the radar: its age, its lane, whether it was recorded
    trail,      \* radarPriceTrail: TRUE when a usable earlier price is remembered
    debounced,  \* emergencyExitDebounce of the grid
    radar       \* the pass: its step and its reading

radarVars == <<guarded, scores, events, lastShift, trail, debounced, radar>>

Old == CooldownCap
Older(age) == IF age < Old THEN age + 1 ELSE Old
Resting == [pc |-> "idle", lane |-> "none", flip |-> FALSE, frozen |-> FALSE, window |-> CooldownFloor,
            blind |-> FALSE]
StepTo(pc) == radar' = [radar EXCEPT !.pc = pc, !.flip = FALSE, !.blind = FALSE]
Recorded == {TRUE} \cup {r \in {FALSE} : "event_lost" \in RadarFaults}
Unread == {FALSE} \cup {u \in {TRUE} : "unread" \in RadarFaults}
HighBand == radar.lane \in {"band3", "escape"}

--------------------------------------------------------------------------
(* radarPass takes up a grid that was running when the pass read it. *)
RadarReads ==
    /\ radar.pc = "idle" /\ guarded.status = "RUNNING"
    /\ radar' = [Resting EXCEPT !.pc = "weigh"]
    /\ UNCHANGED <<guarded, scores, events, lastShift, trail, debounced>>

(* A reading: the band, how far the price is on its way to the adverse edge
   and how fast, the adverse flow, whether the total is a loss, and the
   cooldown that the distance to the stop asks for. *)
Readings(traced) ==
    [band : {0, 2, 3, 4}, place : {"far", "mid", "edge"}, speed : {s \in BOOLEAN : s => traced},
     flow : {"none", "pressure", "confirmed"}, bag : BOOLEAN, window : {CooldownFloor, CooldownCap}]

LaneOf(r) ==
    IF r.band = 4 THEN "escape" ELSE IF r.band = 3 THEN "band3"
    ELSE IF r.band = 2 /\ r.place # "far" /\ r.speed THEN "velocity"
    ELSE IF r.band = 2 /\ r.place = "edge" THEN "early" ELSE "none"
FlipWanted(r) ==
    /\ LaneOf(r) # "none" /\ r.bag
    /\ \/ r.band >= 3 /\ r.place = "edge" /\ r.speed
       \/ r.flow = "confirmed" /\ r.place # "far"

\* What a reading asks for.
Asks(r) ==
    [score |-> IF r.band = 4 THEN 3 ELSE r.band, lane |-> LaneOf(r), flip |-> FlipWanted(r),
     frozen |-> r.flow # "none", window |-> r.window,
     urgent |-> r.flow = "confirmed" /\ r.bag /\ r.place # "far"]
Asked == [traced \in BOOLEAN |-> {Asks(r) : r \in Readings(traced)}]

(* recordCloseIntentFirstWriter: only the writer that finds the row RUNNING
   stops it; the re-deploy is queued behind such a stop alone. *)
Escaped(reason) ==
    IF guarded.status # "RUNNING" THEN guarded
    ELSE [guarded EXCEPT !.status = "STOP_REQUESTED", !.reason = reason,
                         !.redeploy = (guarded.direction = "NEUTRAL")]

(* The emergency exit ends the grid's turn; when it is not due, or another
   close was first, the grid is scored.  Within the throttle, or when the
   snapshot is not stored, its turn is over. *)
LastScores_All(s) == s   \* a bug: the read of the scores has no limit
LastScores(s) == SubSeq(s, 1, IF Len(s) > DwellTicks THEN DwellTicks + 1 ELSE Len(s))
EmergencyDue(a) == a.urgent /\ ~debounced
Scored(a) ==
    /\ scores' = LastScores(<<a.score>> \o scores)
    /\ trail' = TRUE
    /\ radar' = IF a.score < 2 THEN Resting
                ELSE [pc |-> "flip", lane |-> a.lane, flip |-> a.flip, frozen |-> a.frozen,
                      window |-> a.window, blind |-> FALSE]
RadarWeighs ==
    /\ radar.pc = "weigh"
    /\ \E a \in Asked[trail] :
         /\ guarded' = IF EmergencyDue(a) THEN Escaped("EMERGENCY_OFI") ELSE guarded
         /\ debounced' = (debounced \/ EmergencyDue(a))
         /\ \/ ~(EmergencyDue(a) /\ guarded.status = "RUNNING") /\ Scored(a)
            \/ radar' = Resting /\ UNCHANGED <<scores, trail>>
    /\ UNCHANGED <<events, lastShift>>

(* radarBreakFlip: before the cooldown and the dwell. *)
RadarFlips ==
    /\ radar.pc = "flip"
    /\ LET flips == /\ radar.flip /\ guarded.source = "REAL"
                    /\ guarded.direction = "NEUTRAL" /\ guarded.status = "RUNNING"
       IN  /\ guarded' = IF flips THEN Escaped("RANGE_BREAK") ELSE guarded
           /\ StepTo(IF flips \/ radar.lane = "none" THEN "autoclose" ELSE "recenter")
    /\ UNCHANGED <<scores, events, lastShift, trail, debounced>>

(* The cooldown and the dwell: one score below the band is forgiven.  A log
   that cannot be read asks for no cooldown; scores or a row that cannot be
   read hold the radar back. *)
Dwell(band) == Cardinality({i \in DOMAIN scores : scores[i] >= band})
CoolingDown == events.shift < radar.window
DwellIsServed ==
    Dwell(IF HighBand THEN 3 ELSE 2) >= (IF radar.lane = "velocity" THEN 1 ELSE DwellTicks)
Decides(due, blind, to) ==
    radar' = [radar EXCEPT !.pc = IF due THEN to ELSE "autoclose", !.flip = FALSE, !.blind = due /\ blind]

(* The budget; a band-4 escape may exceed it by one. *)
BudgetAllows(lane) == guarded.shifts < MaxShiftsPerBot + (IF lane = "escape" THEN 1 ELSE 0)

(* The events whose reason arms the cooldown. *)
ArmingLanes_NoEscape == {"band3", "early"}   \* a bug: the escape is not among the reasons
ArmingLanes == {"band3", "escape", "early"}
LogEvent(recorded, lane) ==
    events' = IF recorded /\ lane \in ArmingLanes THEN [events EXCEPT !.shift = 0] ELSE events
LogShift(lane) ==
    \E recorded \in Recorded :
       /\ LogEvent(recorded, lane)
       /\ lastShift' = [age |-> 0, lane |-> lane, recorded |-> recorded]

RadarRecenters ==
    /\ radar.pc = "recenter"
    /\ \E green \in BOOLEAN, blind, held \in Unread :
         Decides(/\ ~held /\ (blind \/ ~CoolingDown) /\ DwellIsServed
                 /\ guarded.status = "RUNNING" /\ ~guarded.young
                 /\ BudgetAllows(radar.lane) /\ ~radar.frozen
                 /\ (radar.lane = "velocity" => green), blind, "adjust")
    /\ UNCHANGED <<guarded, scores, events, lastShift, trail, debounced>>

(* A shift that is counted, and one that landed at the exchange although its
   call failed: the answer was lost or unreadable, the confirmation shows other
   bounds, the row could not be written. *)
CountedMove == guarded' = [guarded EXCEPT !.shifts = @ + 1, !.moved = @ + 1]
MissedMove ==
    /\ "uncounted" \in RadarFaults /\ guarded.source = "REAL" /\ guarded.missed < MissedCap
    /\ guarded' = [guarded EXCEPT !.moved = @ + 1, !.missed = @ + 1]

(* AdjustBot, or the guarded UPDATE of a paper grid, which logs its event even
   when it finds no RUNNING row; a failure, landed or not, leaves count and
   log alone. *)
RadarAdjusts ==
    /\ radar.pc = "adjust" /\ StepTo("autoclose")
    /\ \/ guarded.status = "RUNNING" /\ CountedMove /\ LogShift(radar.lane)
       \/ guarded.status = "RUNNING" /\ MissedMove /\ UNCHANGED <<events, lastShift>>
       \/ /\ guarded.status # "RUNNING" /\ guarded.source = "PAPER"
          /\ \E recorded \in Recorded : LogEvent(recorded, radar.lane)
          /\ UNCHANGED <<guarded, lastShift>>
       \/ /\ "refused" \in RadarFaults \/ (guarded.status # "RUNNING" /\ guarded.source = "REAL")
          /\ UNCHANGED <<guarded, events, lastShift>>
    /\ UNCHANGED <<scores, trail, debounced>>

(* radarMaybeAutoclose: the event first, then RequestBotClose. *)
AutocloseDue ==
    /\ HighBand /\ guarded.status = "RUNNING" /\ ~guarded.young /\ Dwell(3) >= DwellTicks
RadarAutocloses ==
    /\ radar.pc = "autoclose"
    /\ \E loss \in BOOLEAN, unlogged, blind \in Unread :   \* loss: a row that was read and is under water
         IF /\ loss /\ AutocloseDue
            /\ unlogged \/ events.autoclose >= AutocloseCooldown
            /\ blind \/ ~CoolingDown
         THEN /\ \E recorded \in Recorded :
                   events' = IF recorded THEN [events EXCEPT !.autoclose = 0] ELSE events
              /\ Decides(TRUE, blind, "close")
         ELSE radar' = Resting /\ UNCHANGED events
    /\ UNCHANGED <<guarded, scores, lastShift, trail, debounced>>
RadarCloses ==
    /\ radar.pc = "close" /\ radar' = Resting
    /\ guarded' = IF guarded.status = "RUNNING"
                  THEN [guarded EXCEPT !.status = "STOP_REQUESTED", !.reason = "RADAR_AUTOCLOSE"]
                  ELSE guarded
    /\ UNCHANGED <<scores, events, lastShift, trail, debounced>>

--------------------------------------------------------------------------
(* Between the passes the management shifts within the same budget, and
   time passes. *)
ManageShifts ==
    /\ radar.pc = "idle" /\ guarded.status = "RUNNING" /\ guarded.shifts < MaxShiftsPerBot
    /\ CountedMove \/ MissedMove
    /\ UNCHANGED <<scores, events, lastShift, trail, debounced, radar>>

(* The operator's adjust, from the console or MCP, and every invest_in, the
   second tranche's included, raise the count of a REAL grid at any moment and
   look at no budget. *)
OthersDraw ==
    /\ guarded.source = "REAL" /\ guarded.status = "RUNNING"
    /\ guarded.shifts + guarded.missed - guarded.moved < OthersCap
    /\ guarded' = [guarded EXCEPT !.shifts = @ + 1]
    /\ UNCHANGED <<scores, events, lastShift, trail, debounced, radar>>
QuarterPasses ==
    /\ radar.pc = "idle" /\ guarded.status = "RUNNING"
    /\ \E young \in {guarded.young, FALSE} : guarded' = [guarded EXCEPT !.young = young]
    /\ events' = [shift |-> Older(events.shift), autoclose |-> Older(events.autoclose)]
    /\ lastShift' = [lastShift EXCEPT !.age = Older(@)]
    /\ trail' \in {trail, FALSE} /\ debounced' = FALSE
    /\ UNCHANGED <<scores, radar>>

(* An operator stops the grid at any moment. *)
OperatorStopsGrid ==
    /\ guarded.status = "RUNNING"
    /\ guarded' = [guarded EXCEPT !.status = "STOP_REQUESTED", !.reason = "OPERATOR"]
    /\ UNCHANGED <<scores, events, lastShift, trail, debounced, radar>>
RadarRestart ==
    /\ "restart" \in RadarFaults
    /\ trail' = FALSE /\ debounced' = FALSE /\ radar' = Resting
    /\ UNCHANGED <<guarded, scores, events, lastShift>>

RadarInit ==
    /\ \E kind \in RadarGrids :
         guarded = [source |-> kind[1], direction |-> kind[2], status |-> "RUNNING", reason |-> "",
                    shifts |-> 0, moved |-> 0, missed |-> 0, young |-> TRUE, redeploy |-> FALSE]
    /\ scores = <<>> /\ events = [shift |-> Old, autoclose |-> Old]
    /\ lastShift = [age |-> Old, lane |-> "none", recorded |-> TRUE]
    /\ trail = FALSE /\ debounced = FALSE /\ radar = Resting

RadarNext ==
    \/ RadarReads \/ RadarWeighs \/ RadarFlips \/ RadarRecenters
    \/ RadarAdjusts \/ RadarAutocloses \/ RadarCloses
    \/ ManageShifts \/ OthersDraw \/ QuarterPasses \/ OperatorStopsGrid \/ RadarRestart
RadarSpec == RadarInit /\ [][RadarNext]_radarVars

--------------------------------------------------------------------------
(* The values the code can write. *)
RadarTypeOK ==
    /\ guarded.status \in {"RUNNING", "STOP_REQUESTED"}
    /\ guarded.reason \in {"", "EMERGENCY_OFI", "RANGE_BREAK", "RADAR_AUTOCLOSE", "OPERATOR"}
    /\ Len(scores) <= DwellTicks + 1 /\ \A i \in DOMAIN scores : scores[i] \in 0 .. 3
    /\ events.shift \in 0 .. Old /\ events.autoclose \in 0 .. Old
    /\ guarded.shifts \in 0 .. MaxShiftsPerBot + 1 + OthersCap
    /\ guarded.missed \in 0 .. MissedCap

(* "B4 escape re-center, may exceed the budget by one": whoever else draws on
   the count in between, the radar and the management together move a range at
   most once beyond its budget, and that move is an escape.  Only a move that
   landed without being counted buys another. *)
EscapeOnlyBeyondBudget ==
    LET budget == MaxShiftsPerBot + guarded.missed
    IN  guarded.moved > budget => guarded.moved = budget + 1 /\ lastShift.lane = "escape"

(* A re-deploy is never queued "behind an operator's deliberate close". *)
RedeployFollowsEscape ==
    guarded.redeploy => guarded.reason \in {"EMERGENCY_OFI", "RANGE_BREAK"}

(* The escape lane is a last resort in the radar's own hand: both of the
   above. *)
EscapeIsLastResort == EscapeOnlyBeyondBudget /\ RedeployFollowsEscape

Shifted == guarded'.moved > guarded.moved /\ radar.pc = "adjust"
Autoclosed == guarded'.reason = "RADAR_AUTOCLOSE" /\ guarded.reason = ""

(* A recorded re-center is given "its dist-aware window to prove the new
   range": within the shortest of those windows a radar that can read its log
   neither shifts the grid again nor closes it, restarts included. *)
ShiftIsGivenItsWindow ==
    [][lastShift.recorded /\ lastShift.lane \in {"band3", "escape", "early"}
         /\ lastShift.age < CooldownFloor /\ ~radar.blind => ~Shifted /\ ~Autoclosed]_radarVars

(* What the radar does of its own hand: it escapes only as the last resort,
   and gives its last re-center the time to prove itself. *)
RadarKeepsItsGates == []EscapeIsLastResort /\ ShiftIsGivenItsWindow
=============================================================================
