---------------------------- MODULE RedeployQueue ----------------------------
(***************************************************************************)
(* DGT: a REAL grid that was closed for a range break is opened again      *)
(* around the break price.  The intent is a pair of keys in the closing    *)
(* row's model_state; the manage pass takes the intents of settled rows,   *)
(* makes one attempt at each and marks it done afterwards.                 *)
(*                                                                         *)
(* All grids here are of one symbol and one account; they are numbered in  *)
(* the order of their rows.                                                *)
(***************************************************************************)
EXTENDS Integers, FiniteSets

CONSTANTS
    MaxGrids,         \* bound: rows
    LadderCap,        \* dgtRedeployMaxPerSymbolPer24h
    FlipCap,          \* dgtFlipMaxPerSymbolPer24h
    RedeployWorlds,   \* sets of faults, one of which the world has
    RedeployBudget    \* bound: faults

RedeployFaults ==
    {"crash", "mark_lost", "event_lost", "count_error", "queue_lost", "unknown", "new_geometry",
     "disabled", "late", "scanner"}
ASSUME RedeployQueueAssumption ==
    /\ {MaxGrids, LadderCap, FlipCap} \subseteq Nat \ {0}
    /\ RedeployBudget \in Nat
    /\ RedeployWorlds \subseteq SUBSET RedeployFaults

VARIABLES
    dgtWorld,    \* the faults of this world
    dgtGrids,    \* grid_bots of the symbol
    redeploys,   \* DGT_REDEPLOY events of the last 24 hours
    flips,       \* DIRECTION_FLIP events of the last 24 hours
    dgtPass,     \* the manage pass: its step, its intents, the attempt
    dgtLeft      \* faults still to come

dgtVars == <<dgtWorld, dgtGrids, redeploys, flips, dgtPass, dgtLeft>>

Slots == 1 .. MaxGrids
NoGrid == [status |-> "none", reason |-> "none", neutral |-> FALSE, pending |-> "none",
           done |-> "no", parent |-> 0, shape |-> 0]
IdleDgt == [pc |-> "idle", intents |-> {}, shape |-> 0, bot |-> 0, outcome |-> "none"]

\* the statuses that occupy a symbol's slot
Occupying == {"pending", "unknown", "running", "stopping"}
Occupied == {i \in Slots : dgtGrids[i].status \in Occupying}
FreeRow == {i \in Slots : /\ dgtGrids[i].status = "none"
                          /\ \A j \in Slots : j < i => dgtGrids[j].status # "none"}
May(fault) == {FALSE} \cup {b \in {TRUE} : fault \in dgtWorld /\ dgtLeft > 0}
Pays(fault) == dgtLeft' = IF fault THEN dgtLeft - 1 ELSE dgtLeft
(* ORDER BY closed_at: a symbol has one grid at a time, so its rows close in
   the order of their numbers. *)
Intent == CHOOSE i \in dgtPass.intents : \A j \in dgtPass.intents : i <= j

--------------------------------------------------------------------------
(* One manage pass reads every live row once, then takes the intents; a
   symbol has one live row.  It closes a grid: for a range break, an
   emergency exit (the ones on the lower side may flip) or another reason. *)
BreakGrid ==
    /\ dgtPass.pc = "idle"
    /\ \E i \in Slots, reason \in {"BREAK_DOWN", "BREAK_UP", "OTHER"} :
         /\ dgtGrids[i].status = "running"
         /\ dgtGrids' = [dgtGrids EXCEPT ![i].status = "stopping", ![i].reason = reason]
         /\ dgtPass' = IF reason = "OTHER" THEN [IdleDgt EXCEPT !.pc = "intents"]
                       ELSE [IdleDgt EXCEPT !.pc = "queue", !.intents = {i}]
    /\ UNCHANGED <<dgtWorld, redeploys, flips, dgtLeft>>

(* UPDATE ... WHERE status IN ('STOP_REQUESTED', 'STOPPING') *)
QueueIntent ==
    /\ dgtPass.pc = "queue"
    /\ \E lost \in May("queue_lost") :
         /\ dgtGrids' = IF lost \/ dgtGrids[Intent].status # "stopping" THEN dgtGrids
                        ELSE [dgtGrids EXCEPT ![Intent].pending = "fresh"]
         /\ Pays(lost)
    /\ dgtPass' = [IdleDgt EXCEPT !.pc = "intents"]
    /\ UNCHANGED <<dgtWorld, redeploys, flips>>

(* The pass reads that the exchange has closed the grid, on our request or
   by its own take-profit or stop. *)
Settle ==
    /\ dgtPass.pc = "idle"
    /\ \E i \in Slots :
         /\ dgtGrids[i].status \in {"stopping", "running"}
         /\ dgtGrids' = [dgtGrids EXCEPT ![i].status = "settled",
                            ![i].reason = IF dgtGrids[i].status = "running" THEN "OTHER" ELSE @]
    /\ dgtPass' = [IdleDgt EXCEPT !.pc = "intents"]
    /\ UNCHANGED <<dgtWorld, redeploys, flips, dgtLeft>>

--------------------------------------------------------------------------

Ready(i) ==
    /\ dgtGrids[i].status = "settled" /\ dgtGrids[i].reason \in {"BREAK_DOWN", "BREAK_UP"}
    /\ dgtGrids[i].pending \in {"fresh", "stale"} /\ dgtGrids[i].done = "no"
TakeIntents ==
    /\ dgtPass.pc \in {"idle", "intents"}
    /\ LET ready == {i \in Slots : Ready(i)}
       IN  /\ ready # {} \/ dgtPass.pc = "intents"
           /\ dgtPass' = IF ready = {} THEN IdleDgt
                         ELSE [IdleDgt EXCEPT !.pc = "judge", !.intents = ready]
    /\ UNCHANGED <<dgtWorld, dgtGrids, redeploys, flips, dgtLeft>>

NextIntent == LET left == dgtPass.intents \ {Intent}
              IN  IF left = {} THEN IdleDgt ELSE [IdleDgt EXCEPT !.pc = "judge", !.intents = left]
Outcome(result) == [dgtPass EXCEPT !.pc = "consume", !.outcome = result]

(* A re-deploy that is switched off, or whose intent is older than two
   hours, is dropped without an attempt. *)
DropIntent_Forgets ==   \* a bug: the dropped intent is not marked
    /\ dgtPass.pc = "judge" /\ "disabled" \in dgtWorld /\ dgtPass' = NextIntent
    /\ UNCHANGED <<dgtWorld, dgtGrids, redeploys, flips, dgtLeft>>
DropIntent ==
    /\ dgtPass.pc = "judge"
    /\ \/ "disabled" \in dgtWorld /\ dgtPass' = Outcome("disabled")
       \/ dgtGrids[Intent].pending = "stale" /\ dgtPass' = Outcome("expired")
    /\ UNCHANGED <<dgtWorld, dgtGrids, redeploys, flips, dgtLeft>>

Flippable_Uncapped ==   \* a bug: the flips are not counted
    dgtGrids[Intent].neutral /\ dgtGrids[Intent].reason = "BREAK_DOWN"
Flippable == /\ dgtGrids[Intent].neutral /\ dgtGrids[Intent].reason = "BREAK_DOWN"
             /\ flips < FlipCap
(* A neutral grid that a confirmed dump broke leaves its slot to the
   scanner's short lane, if the dump is still confirmed and a liquidation
   cascade runs (which is for the market to say). *)
FlipToCascadeShort ==
    /\ dgtPass.pc = "judge" /\ dgtGrids[Intent].pending = "fresh" /\ Flippable
    /\ \E lost \in May("mark_lost"), unlogged \in May("event_lost") :
         /\ dgtGrids' = IF lost THEN dgtGrids ELSE [dgtGrids EXCEPT ![Intent].done = "flip_short"]
         /\ flips' = IF unlogged THEN flips ELSE flips + 1
         /\ Pays(lost \/ unlogged)
    /\ dgtPass' = NextIntent
    /\ UNCHANGED <<dgtWorld, redeploys>>

(* Execution allowed, the account's client, the market's and the risk
   engine's gates (any of which may refuse), the ladder, a busy slot; then a
   fresh geometry, its stress ceiling and the exchange's check of it.  A count
   that cannot be read, of the events or of the rows, blocks nothing. *)
JudgeRedeploy_NoLadder ==   \* a bug: the ladder is not counted
    /\ dgtPass.pc = "judge" /\ dgtGrids[Intent].pending = "fresh"
    /\ Occupied \ {Intent} = {} /\ dgtPass' = [dgtPass EXCEPT !.pc = "create", !.shape = 1]
    /\ UNCHANGED <<dgtWorld, dgtGrids, redeploys, flips, dgtLeft>>
JudgeRedeploy ==
    /\ dgtPass.pc = "judge" /\ dgtGrids[Intent].pending = "fresh"
    /\ \/ dgtPass' = Outcome("blocked")
          /\ UNCHANGED dgtLeft
       \/ \E uncounted, unseen \in May("count_error") :
            /\ redeploys < LadderCap \/ uncounted
            /\ Occupied \ {Intent} = {} \/ unseen
            /\ \E shape \in {1} \cup {s \in {2} : "new_geometry" \in dgtWorld} :
                 dgtPass' = [dgtPass EXCEPT !.pc = "create", !.shape = shape]
            /\ Pays(uncounted \/ unseen)
    /\ UNCHANGED <<dgtWorld, dgtGrids, redeploys, flips>>

(* Under the symbol's lock: no second live grid; the request's fingerprint,
   the key of (closed bot, break price) together with the geometry, finds
   the row of an earlier attempt and returns it. *)
SameRequest(shape) ==
    {i \in Slots : dgtGrids[i].parent = Intent /\ dgtGrids[i].shape = shape}
CreateRedeploy ==
    /\ dgtPass.pc = "create"
    /\ LET earlier == SameRequest(dgtPass.shape)
       IN  \/ /\ Occupied # {}
              /\ dgtPass' = Outcome("blocked") /\ UNCHANGED dgtGrids
           \/ /\ Occupied = {} /\ earlier # {}
              /\ dgtPass' = [dgtPass EXCEPT !.pc = "log", !.outcome = "deployed"]
              /\ UNCHANGED dgtGrids
           \/ /\ Occupied = {} /\ earlier = {} /\ FreeRow = {}   \* MaxGrids
              /\ dgtPass' = Outcome("blocked") /\ UNCHANGED dgtGrids
           \/ /\ Occupied = {} /\ earlier = {}
              /\ \E row \in FreeRow :
                   /\ dgtGrids' = [dgtGrids EXCEPT ![row] =
                        [NoGrid EXCEPT !.status = "pending", !.parent = Intent,
                                       !.neutral = dgtGrids[Intent].neutral,
                                       !.shape = dgtPass.shape]]
                   /\ dgtPass' = [dgtPass EXCEPT !.pc = "submit", !.bot = row]
    /\ UNCHANGED <<dgtWorld, redeploys, flips, dgtLeft>>

(* The exchange creates the grid, refuses it, or does not answer. *)
SubmitRedeploy ==
    /\ dgtPass.pc = "submit"
    /\ \/ /\ dgtGrids' = [dgtGrids EXCEPT ![dgtPass.bot].status = "running"]
          /\ dgtPass' = [dgtPass EXCEPT !.pc = "log", !.outcome = "deployed"]
       \/ /\ dgtGrids' = [dgtGrids EXCEPT ![dgtPass.bot].status = "failed"]
          /\ dgtPass' = Outcome("blocked")
       \/ /\ "unknown" \in dgtWorld
          /\ dgtGrids' = [dgtGrids EXCEPT ![dgtPass.bot].status = "unknown"]
          /\ dgtPass' = Outcome("blocked")
    /\ UNCHANGED <<dgtWorld, redeploys, flips, dgtLeft>>

(* The entry fee, the journal, and the event the ladder counts. *)
LogRedeploy ==
    /\ dgtPass.pc = "log"
    /\ \E unlogged \in May("event_lost") :
         /\ redeploys' = IF unlogged THEN redeploys ELSE redeploys + 1
         /\ Pays(unlogged)
    /\ dgtPass' = [dgtPass EXCEPT !.pc = "consume"]
    /\ UNCHANGED <<dgtWorld, dgtGrids, flips>>

(* markDgtRealIntentDone; its error is ignored. *)
ConsumeIntent ==
    /\ dgtPass.pc = "consume"
    /\ \E lost \in May("mark_lost") :
         /\ dgtGrids' = IF lost THEN dgtGrids
                        ELSE [dgtGrids EXCEPT ![Intent].done = dgtPass.outcome]
         /\ Pays(lost)
    /\ dgtPass' = NextIntent
    /\ UNCHANGED <<dgtWorld, redeploys, flips>>
--------------------------------------------------------------------------
DgtCrash ==
    /\ "crash" \in dgtWorld /\ dgtLeft > 0 /\ dgtPass.pc # "idle"
    /\ dgtPass' = IdleDgt /\ dgtLeft' = dgtLeft - 1
    /\ UNCHANGED <<dgtWorld, dgtGrids, redeploys, flips>>

(* The orphan sweep adopts a submission without an answer or writes it off. *)
ResolveRedeploy ==
    /\ dgtPass.pc = "idle"
    /\ \E i \in Slots, status \in {"running", "failed"} :
         /\ dgtGrids[i].status \in {"pending", "unknown"}
         /\ dgtGrids' = [dgtGrids EXCEPT ![i].status = status]
    /\ dgtPass' = [IdleDgt EXCEPT !.pc = "intents"]
    /\ UNCHANGED <<dgtWorld, redeploys, flips, dgtLeft>>

(* A scan or an operator takes the symbol's free slot. *)
ScannerDeploys ==
    /\ "scanner" \in dgtWorld /\ Occupied = {}
    /\ \E row \in FreeRow :
         dgtGrids' = [dgtGrids EXCEPT ![row] = [NoGrid EXCEPT !.status = "running"]]
    /\ UNCHANGED <<dgtWorld, redeploys, flips, dgtPass, dgtLeft>>

(* An intent is stale after two hours; a row that closed that long ago is
   not selected any more. *)
IntentAges ==
    /\ "late" \in dgtWorld
    /\ \E i \in Slots :
         \/ /\ dgtGrids[i].pending = "fresh"
            /\ dgtGrids' = [dgtGrids EXCEPT ![i].pending = "stale"]
         \/ /\ dgtGrids[i].pending = "stale" /\ dgtGrids[i].status = "settled"
            /\ dgtGrids' = [dgtGrids EXCEPT ![i].pending = "lapsed"]
    /\ dgtPass.pc = "idle"
    /\ UNCHANGED <<dgtWorld, redeploys, flips, dgtPass, dgtLeft>>

DgtInit ==
    /\ dgtWorld \in RedeployWorlds
    /\ \E neutral \in BOOLEAN :
         dgtGrids = [i \in Slots |-> IF i = 1 THEN [NoGrid EXCEPT !.status = "running", !.neutral = neutral]
                                     ELSE NoGrid]
    /\ redeploys = 0 /\ flips = 0
    /\ dgtPass = IdleDgt /\ dgtLeft = RedeployBudget

DgtStep ==
    \/ QueueIntent \/ TakeIntents \/ DropIntent \/ FlipToCascadeShort \/ JudgeRedeploy
    \/ CreateRedeploy \/ SubmitRedeploy \/ LogRedeploy \/ ConsumeIntent
DgtNext ==
    \/ DgtStep \/ BreakGrid \/ Settle \/ DgtCrash \/ ResolveRedeploy
    \/ ScannerDeploys \/ IntentAges

(* The manage loop goes on. *)
DgtSpec == DgtInit /\ [][DgtNext]_dgtVars /\ WF_dgtVars(DgtStep)

--------------------------------------------------------------------------
(* The values the code can write. *)
DgtTypeOK ==
    /\ \A i \in Slots :
         /\ dgtGrids[i].status \in Occupying \cup {"none", "settled", "failed"}
         /\ dgtGrids[i].reason \in {"none", "BREAK_DOWN", "BREAK_UP", "OTHER"}
         /\ dgtGrids[i].pending \in {"none", "fresh", "stale", "lapsed"}
         /\ dgtGrids[i].done \in {"no", "disabled", "expired", "flip_short", "blocked", "deployed"}
         /\ dgtGrids[i].parent \in 0 .. i - 1
    /\ redeploys \in 0 .. LadderCap + RedeployBudget /\ flips \in 0 .. FlipCap

Redeployed(i) == {j \in Slots : dgtGrids[j].parent = i /\ dgtGrids[j].status # "failed"}

(* "creating a second grid on the same symbol mid-close would trade against
   our own unwind": an intent is neither attempted nor given up before its
   parent has settled. *)
RedeployWaitsForFlat ==
    \A i \in Slots : dgtGrids[i].done # "no" \/ Redeployed(i) # {} => dgtGrids[i].status = "settled"

(* "the same break can never mint two re-deploys". *)
RedeployedOnce == \A i \in Slots : Cardinality(Redeployed(i)) <= 1

\* Re-deploys that a count of events that cannot be read may have let through.
Uncounted == IF "count_error" \in dgtWorld THEN RedeployBudget - dgtLeft ELSE 0

(* "caps the re-center ladder: a market that keeps breaking the fresh grid
   pays a create + a break fee per rung": as long as every attempt is
   answered and its event written, the cap bounds the grids themselves, but
   for one more with every count that could not be read. *)
LadderHolds ==
    {"crash", "unknown", "event_lost"} \cap dgtWorld = {}
        => Cardinality({i \in Slots : dgtGrids[i].parent # 0 /\ dgtGrids[i].status # "failed"})
             <= LadderCap + Uncounted

(* Neither one break nor a day of breaks multiplies grids: both of the above. *)
RedeploysAreBounded == RedeployWaitsForFlat /\ RedeployedOnce /\ LadderHolds

(* "one attempt per intent": a settled break's intent is consumed, or too
   old to be selected. *)
IntentEnds ==
    \A i \in Slots : dgtGrids[i].status = "settled" /\ dgtGrids[i].pending = "fresh"
        ~> dgtGrids[i].done # "no" \/ dgtGrids[i].pending = "lapsed" \/ dgtGrids[i].reason = "OTHER"
=============================================================================
