----------------------------- MODULE TranchePour -----------------------------
(***************************************************************************)
(* The second tranche of a REAL grid: a grid starts with half of its base  *)
(* amount, and one manage pass may pour the other half (invest_in) and     *)
(* double the grid's target and loss limit.  The pour, the ledger, the     *)
(* doubling and the markers around them are separate writes; each may      *)
(* fail, the process may restart between any two of them, the answer of    *)
(* the exchange may be lost, and its reads may lag behind it.              *)
(*                                                                         *)
(* Amounts are counted in halves: the base is 2.  Markers have an age      *)
(* instead of a time.                                                      *)
(***************************************************************************)
EXTENDS Integers

CONSTANTS
    PourWorlds,     \* sets of faults, one of which the world has
    PourBudget      \* bound: restarts and failed writes

PourFaults == {"write", "mark_lost", "crash", "unknown", "garbled", "unreported", "lag", "operator"}
ASSUME TranchePourAssumption ==
    /\ PourWorlds \subseteq SUBSET PourFaults
    /\ PourBudget \in Nat

VARIABLES
    pourWorld,   \* the faults of this world
    held,        \* what the exchange has in the grid
    shown,       \* what its reads report
    tranche,     \* grid_bots: quote_investment, the tranche keys of model_state
    pourPass,    \* the manage pass: its step and what it has read
    poured,      \* native pours of the worker that landed
    pourLeft     \* faults still to come

pourVars == <<pourWorld, held, shown, tranche, pourPass, poured, pourLeft>>

Base == 2
IdlePour == [pc |-> "idle", invest |-> 0, deployed |-> 0, report |-> 0,
             backoff |-> FALSE, fresh |-> FALSE, result |-> "none"]
Has(fault) == fault \in pourWorld
WriteFails == {FALSE} \cup {f \in {TRUE} : Has("write") /\ pourLeft > 0}
Spent(failed) == pourLeft' = IF failed THEN pourLeft - 1 ELSE pourLeft

--------------------------------------------------------------------------
(* The grid's record, whose investment may be missing, and the row. *)
PourRead ==
    /\ pourPass.pc = "idle"
    /\ \E report \in {shown} \cup {r \in {0} : Has("unreported")} :
         pourPass' = [pc |-> "resync", invest |-> tranche.invest,
                      deployed |-> tranche.deployed, report |-> report,
                      backoff |-> tranche.fail = "fresh",
                      fresh |-> tranche.intent = "fresh", result |-> "none"]
    /\ UNCHANGED <<pourWorld, held, shown, tranche, poured, pourLeft>>

(* The self-heal: the ledger follows the exchange's figure. *)
PourResync ==
    /\ pourPass.pc = "resync"
    /\ \E failed \in WriteFails :
         LET resyncs == pourPass.deployed = 1 /\ pourPass.report \notin {0, pourPass.invest} /\ ~failed
         IN  /\ tranche' = [tranche EXCEPT
                              !.invest = IF resyncs THEN pourPass.report ELSE @,
                              !.verified = @ \/ (pourPass.report = held /\ ~failed)]
             /\ pourPass' = [pourPass EXCEPT !.pc = "complete",
                                             !.invest = IF resyncs THEN pourPass.report ELSE @]
             /\ Spent(failed)
    /\ UNCHANGED <<pourWorld, held, shown, poured>>

(* UPDATE ... WHERE trancheDeployed = 1 *)
Doubled(t) ==
    IF t.deployed = 1 THEN [t EXCEPT !.deployed = 2, !.multiplier = 2 * @] ELSE t

PourComplete_Never ==   \* a bug: only the pass that poured doubles the targets
    /\ pourPass.pc = "complete" /\ pourPass' = [pourPass EXCEPT !.pc = "decide"]
    /\ UNCHANGED <<pourWorld, held, shown, tranche, poured, pourLeft>>
PourComplete ==
    /\ pourPass.pc = "complete"
    /\ \E failed \in WriteFails :
         LET completes == pourPass.deployed = 1 /\ pourPass.invest >= Base /\ ~failed
         IN  /\ tranche' = IF completes THEN Doubled(tranche) ELSE tranche
             /\ pourPass' = [pourPass EXCEPT !.pc = "decide",
                                             !.deployed = IF completes THEN 2 ELSE @]
             /\ Spent(failed)
    /\ UNCHANGED <<pourWorld, held, shown, poured>>

(* The pass goes on to pour only on a calm hold, outside the backoff, not
   in a storm, in time or after an adverse move, not under water and within
   the stop caps: reasons is whether all of those allow it. *)
PourDecide ==
    /\ pourPass.pc = "decide"
    /\ \E reasons \in BOOLEAN, failed \in WriteFails :
         LET wanted == /\ reasons /\ ~pourPass.backoff
                       /\ pourPass.deployed = 1 /\ pourPass.invest < Base
             landed == pourPass.report >= Base
             fenced == pourPass.report = 0 /\ pourPass.fresh
             pours == wanted /\ ~landed /\ ~fenced /\ ~failed
         IN  /\ tranche' = IF pours THEN [tranche EXCEPT !.intent = "fresh", !.verified = FALSE]
                           ELSE tranche
             /\ pourPass' = IF pours THEN [pourPass EXCEPT !.pc = "call"] ELSE IdlePour
             /\ Spent(failed)
    /\ UNCHANGED <<pourWorld, held, shown, poured>>

(* AdjustBot up to the exchange's answer: a gate or the exchange refuses, an
   error before the call, an answer that is lost, or the pour is accepted.
   A body that cannot be decoded is an API error like a refusal, and is taken
   for one, although the pour may have landed. *)
Land == /\ held' = held + 1 /\ poured' = poured + 1
        /\ shown' \in {held + 1} \cup {s \in {shown} : Has("lag")}
PourCall ==
    /\ pourPass.pc = "call"
    /\ \/ /\ \E result \in {"refused", "not_sent"} :
               pourPass' = [pourPass EXCEPT !.pc = "failed", !.result = result]
          /\ UNCHANGED <<held, shown, poured>>
       \/ /\ Has("unknown") /\ pourPass' = [pourPass EXCEPT !.pc = "failed", !.result = "unknown"]
          /\ Land \/ UNCHANGED <<held, shown, poured>>
       \/ /\ Has("garbled") /\ pourPass' = [pourPass EXCEPT !.pc = "failed", !.result = "refused"]
          /\ Land
       \/ /\ Land /\ pourPass' = [pourPass EXCEPT !.pc = "ledger"]
    /\ UNCHANGED <<pourWorld, tranche, pourLeft>>

(* The ledger is written once the exchange has accepted, confirmed or not;
   only a confirmed pour is a success. *)
PourLedger ==
    /\ pourPass.pc = "ledger"
    /\ \E failed \in WriteFails, read \in BOOLEAN :
         /\ tranche' = IF failed THEN tranche ELSE [tranche EXCEPT !.invest = @ + 1]
         /\ pourPass' =
              CASE failed -> [pourPass EXCEPT !.pc = "failed", !.result = "persist"]
                [] ~failed /\ read /\ shown > tranche.invest -> [pourPass EXCEPT !.pc = "double"]
                [] OTHER -> [pourPass EXCEPT !.pc = "failed", !.result = "unverified"]
         /\ Spent(failed)
    /\ UNCHANGED <<pourWorld, held, shown, poured>>

PourDouble ==
    /\ pourPass.pc = "double"
    /\ \E failed \in WriteFails :
         /\ tranche' = IF failed THEN tranche ELSE Doubled(tranche)
         /\ Spent(failed)
    /\ pourPass' = IdlePour
    /\ UNCHANGED <<pourWorld, held, shown, poured>>

(* A refusal clears the intent; every error, an unverified pour included,
   backs off for an hour. *)
PourFailed_AsCommented ==   \* a bug: an unverified pour leaves no fail marker
    /\ pourPass.pc = "failed"
    /\ tranche' = [tranche EXCEPT !.intent = IF pourPass.result = "refused" THEN "none" ELSE @,
                                  !.fail = IF pourPass.result = "unverified" THEN @ ELSE "fresh"]
    /\ pourPass' = IdlePour
    /\ UNCHANGED <<pourWorld, held, shown, poured, pourLeft>>
PourFailed ==
    /\ pourPass.pc = "failed"
    /\ \E unmarked \in {FALSE} \cup {f \in {TRUE} : Has("mark_lost") /\ pourLeft > 0} :
         /\ tranche' = [tranche EXCEPT
                          !.intent = IF pourPass.result = "refused" /\ ~unmarked THEN "none" ELSE @,
                          !.fail = IF unmarked THEN @ ELSE "fresh"]
         /\ Spent(unmarked)
    /\ pourPass' = IdlePour
    /\ UNCHANGED <<pourWorld, held, shown, poured>>

--------------------------------------------------------------------------
PourCrash ==
    /\ Has("crash") /\ pourLeft > 0 /\ pourPass.pc # "idle"
    /\ pourPass' = IdlePour /\ pourLeft' = pourLeft - 1
    /\ UNCHANGED <<pourWorld, held, shown, tranche, poured>>

(* The exchange's reads catch up. *)
ReadsCatchUp ==
    /\ shown # held /\ shown' = held
    /\ UNCHANGED <<pourWorld, held, tranche, pourPass, poured, pourLeft>>

(* The markers age between passes: the backoff of an hour outlives the lag
   of the reads, and within the 24 hours of the intent the exchange has
   been read, caught up, and written back at least once. *)
MarkersAge ==
    /\ pourPass.pc = "idle" /\ shown = held
    /\ \/ /\ tranche.fail = "fresh" /\ tranche' = [tranche EXCEPT !.fail = "old"]
       \/ /\ tranche.intent = "fresh" /\ tranche.verified
          /\ tranche' = [tranche EXCEPT !.intent = "stale"]
    /\ UNCHANGED <<pourWorld, held, shown, pourPass, poured, pourLeft>>

(* An operator tops the grid up by hand while the worker is anywhere in its
   pass; the ledger adds to what it holds. *)
OperatorPours ==
    /\ Has("operator") /\ pourLeft > 0 /\ pourLeft' = pourLeft - 1
    /\ held' = held + 1 /\ shown' = shown + 1
    /\ tranche' = [tranche EXCEPT !.invest = @ + 1]
    /\ UNCHANGED <<pourWorld, pourPass, poured>>

PourInit ==
    /\ pourWorld \in PourWorlds
    /\ held = 1 /\ shown = 1
    /\ tranche = [invest |-> 1, deployed |-> 1, multiplier |-> 1,
                  intent |-> "none", fail |-> "none", verified |-> FALSE]
    /\ pourPass = IdlePour /\ poured = 0 /\ pourLeft = PourBudget

PourStep ==
    \/ PourRead \/ PourResync \/ PourComplete \/ PourDecide
    \/ PourCall \/ PourLedger \/ PourDouble \/ PourFailed
PourNext == PourStep \/ PourCrash \/ ReadsCatchUp \/ MarkersAge \/ OperatorPours

(* The manage loop goes on, and of the grid's records some carry the
   investment. *)
ReportedRead == PourRead /\ pourPass'.report # 0
PourSpec ==
    /\ PourInit /\ [][PourNext]_pourVars
    /\ WF_pourVars(PourStep) /\ WF_pourVars(ReadsCatchUp) /\ SF_pourVars(ReportedRead)

--------------------------------------------------------------------------
(* The values the code can write. *)
PourTypeOK ==
    /\ held \in 1 .. Base + 1 + PourBudget /\ shown \in 1 .. held
    /\ tranche.invest \in 1 .. held /\ tranche.deployed \in {1, 2}
    /\ tranche.intent \in {"none", "fresh", "stale"}
    /\ tranche.fail \in {"none", "fresh", "old"}
    /\ pourPass.pc \in {"idle", "resync", "complete", "decide", "call", "ledger", "double", "failed"}

(* "make a retry decide 'already landed' instead of pouring a second
   margin": the second tranche is poured once, whatever failed in between.
   It does not hold where an undecodable answer and a record without its
   investment come together: the intent is gone and the landing unseen. *)
PouredOnce == poured <= 1

(* The targets are doubled once, and only for a grid that holds its whole
   base on the exchange. *)
DoubledMeansHeld ==
    /\ tranche.multiplier = tranche.deployed
    /\ tranche.deployed = 2 => held >= Base

(* The second tranche happens once and is booked once: both of the above. *)
TrancheOnce == PouredOnce /\ DoubledMeansHeld

(* A grid that holds its whole base does not keep half-size targets. *)
FullTrancheIsManaged == held >= Base ~> tranche.deployed = 2
=============================================================================
