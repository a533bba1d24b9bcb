------------------------------ MODULE MCRecovery ------------------------------
(* One run over the components that must finish what they began: every
   behaviour plays one of them. *)
EXTENDS TranchePour, RedeployQueue, TelegramOutbox, Settlement, MarketStream, DecisionReplay

CONSTANT Parts

VARIABLE part

\* Two rows never need both ranks of notifications.
OneRank == \A m \in Messages : outbox'[m].rank # 1

MCInit ==
    /\ part \in Parts
    /\ PourInit /\ DgtInit /\ OutboxInit /\ SettleInit /\ StreamInit /\ ReplayInit
    /\ part # "replay" => replayWorld = {}
    /\ part # "pour" => pourWorld = CHOOSE w \in PourWorlds : TRUE
    /\ part # "dgt" => dgtWorld = (CHOOSE w \in RedeployWorlds : TRUE) /\ dgtGrids[1].neutral
    /\ part # "outbox" => outboxWorld = (CHOOSE w \in OutboxWorlds : TRUE) /\ registered
    /\ part # "stream" => streamWorld = (CHOOSE w \in StreamWorlds : TRUE) /\ ~lane.wanted
    /\ part = "settle" /\ ~record.telemetry => record.detail /\ ~record.unlock
    /\ part # "settle" =>
         /\ settleWorld = CHOOSE w \in SettleWorlds : TRUE
         /\ record = [total |-> "none", unlock |-> FALSE, detail |-> FALSE, telemetry |-> FALSE,
                      listed |-> FALSE]
         /\ settled.status = "RUNNING"

(* The faultless experiments see every chain, one at a time; the faults meet
   chains whose replay changes what they admitted. A second pass starts only
   beside one that has stalled, and a second experiment waits for an abandoned one. *)
ReplaySample ==
    /\ "stall" \in replayWorld \/ passes'[2].at = "idle"
    /\ replayWorld = {} \/ "stall" \in replayWorld => Len(journal') <= 1
    /\ replayWorld = {} => shadows' = <<>>
    /\ runs'[2].status = "none"
         \/ ("abandon" \in replayWorld /\ Len(journal') <= 1 /\ runs'[2].window = 1)
    /\ replayWorld # {} =>
         /\ \A i \in DOMAIN journal' : LET c == journal'[i].chain IN
              c.rv = "judged" /\ c.direction = "gte" /\ c.later = "PASS" /\ ~c.stops
         /\ \A r \in Experiments : runs'[r].status # "none" =>
              runs'[r].override = [gate |-> "RV", threshold |-> 4]

(* A step of a part: the others stand still. *)
PlaysPour == part = "pour" /\ UNCHANGED <<part, dgtVars, outboxVars, settleVars, streamVars, replayVars>>
PlaysDgt == part = "dgt" /\ UNCHANGED <<part, pourVars, outboxVars, settleVars, streamVars, replayVars>>
PlaysOutbox == part = "outbox" /\ UNCHANGED <<part, pourVars, dgtVars, settleVars, streamVars, replayVars>>
PlaysSettle == part = "settle" /\ UNCHANGED <<part, pourVars, dgtVars, outboxVars, streamVars, replayVars>>
PlaysStream == part = "stream" /\ UNCHANGED <<part, pourVars, dgtVars, outboxVars, settleVars, replayVars>>
PlaysReplay == part = "replay" /\ UNCHANGED <<part, pourVars, dgtVars, outboxVars, settleVars, streamVars>>

MCNext ==
    \/ PlaysPour /\ PourNext
    \/ PlaysDgt /\ DgtNext
    \/ PlaysOutbox /\ OutboxNext /\ OneRank
    \/ PlaysSettle /\ SettleNext
    \/ PlaysStream /\ StreamNext
    \/ PlaysReplay /\ ReplayNext /\ ReplaySample

MCSpec ==
    /\ MCInit /\ [][MCNext]_<<part, pourVars, dgtVars, outboxVars, settleVars, streamVars, replayVars>>
    /\ WF_pourVars(part = "pour" /\ PourStep) /\ WF_pourVars(part = "pour" /\ ReadsCatchUp)
    /\ SF_pourVars(part = "pour" /\ ReportedRead)
    /\ WF_dgtVars(part = "dgt" /\ DgtStep)
    /\ WF_outboxVars(part = "outbox" /\ OutboxStep) /\ WF_outboxVars(part = "outbox" /\ PollStep)
    /\ WF_settleVars(part = "settle" /\ ManageStep) /\ SF_settleVars(part = "settle" /\ BeginRecheck)
    /\ WF_settleVars(part = "settle" /\ TwoDaysPass)
    /\ WF_streamVars(part = "stream" /\ SendDelta) /\ WF_streamVars(part = "stream" /\ ReadFrame)
    /\ WF_streamVars(part = "stream" /\ RunHandler) /\ WF_streamVars(part = "stream" /\ Dial)
    /\ WF_streamVars(part = "stream" /\ WindowElapses)
    /\ WF_streamVars(part = "stream" /\ EngineCools) /\ WF_streamVars(part = "stream" /\ LaneCools)
    /\ WF_replayVars(part = "replay" /\ \E p \in ReplayPasses : ReplayStep(p))
    /\ WF_replayVars(part = "replay" /\ \E r \in Experiments : LeaseLapses(r))

(* The values the code of the recovering components can write. *)
RecoveryTypeOK == PourTypeOK /\ DgtTypeOK /\ OutboxTypeOK /\ SettleTypeOK /\ StreamTypeOK /\ ReplayTypeOK
=============================================================================
