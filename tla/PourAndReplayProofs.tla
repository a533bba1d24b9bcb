------------------------- MODULE PourAndReplayProofs -------------------------
(***************************************************************************)
(* Proofs about two components that count what happens once: TranchePour,  *)
(* the second tranche of a grid, and DecisionReplay, the experiments over  *)
(* the decision journal.                                                   *)
(***************************************************************************)
EXTENDS TranchePour, DecisionReplay, FiniteSetTheorems, SequenceTheorems, TLAPS

--------------------------------------------------------------------------
(* The second tranche is poured and booked once, for every budget of restarts
   and lost writes and every mix of faults but two, in which neither a marker
   nor the exchange's figure shows the next pass that a pour has landed. *)

(* Where the reads of the exchange lag, the fail marker that outlives the
   lag is written: the pass is not cut off before it and the write lands.
   Where an answer that cannot be decoded takes the intent away, the grid's
   record carries the investment. Without either the code pours twice. *)
PourIsSeen ==
    \A w \in PourWorlds :
      /\ "lag" \in w => "crash" \notin w /\ "mark_lost" \notin w
      /\ "garbled" \in w => "unreported" \notin w

-----------------------------------------------------------------------------
(* The inductive invariant.                                                *)

Results == {"refused", "not_sent", "unknown", "persist", "unverified"}
Steps == {"idle", "resync", "complete", "decide", "call", "ledger", "double", "failed"}

\* A pass that still works with the record it has read.
Judging == pourPass.pc \in {"resync", "complete", "decide"}

\* The row's tranche keys and the local state of a pass.
TrancheRows == [invest : Nat, deployed : {1, 2}, multiplier : {1, 2},
                intent : {"none", "fresh", "stale"}, fail : {"none", "fresh", "old"},
                verified : BOOLEAN]
PourPasses == [pc : Steps, invest : Nat, deployed : Nat, report : Nat,
               backoff : BOOLEAN, fresh : BOOLEAN, result : {"none"} \cup Results]

\* The types, and no more grids topped up than faults spent.
PourShape ==
    /\ pourWorld \in PourWorlds
    /\ held \in Nat /\ shown \in Nat /\ poured \in {0, 1} /\ pourLeft \in Nat
    /\ tranche \in TrancheRows /\ pourPass \in PourPasses
    /\ held + pourLeft <= 1 + poured + PourBudget

\* The row never claims more than the exchange holds, and before the pour
\* the row, the exchange and its reads agree.
LedgerIsBacked ==
    /\ 1 <= tranche.invest /\ tranche.invest <= held
    /\ 1 <= shown /\ shown <= held /\ 1 + poured <= held
    /\ tranche.multiplier = tranche.deployed
    /\ tranche.deployed = 2 => held >= Base
    /\ poured = 0 => tranche.invest = held /\ shown = held
    /\ "lag" \notin pourWorld => shown = held

\* What a pass knows at each of its steps.
PassIsCurrent ==
    /\ Judging => pourPass.report <= shown /\ pourPass.invest <= tranche.invest
    /\ Judging => pourPass.deployed = tranche.deployed
    /\ Judging /\ poured = 0 => pourPass.report \in {0, pourPass.invest}
    /\ pourPass.pc = "call" => poured = 0 /\ tranche.intent = "fresh" /\ ~tranche.verified
    /\ pourPass.pc = "ledger" =>
         /\ poured = 1 /\ tranche.intent = "fresh" /\ ~tranche.verified
         /\ tranche.invest = held - 1 /\ shown \in {held - 1, held}
    /\ pourPass.pc = "double" => poured = 1 /\ shown = held
    /\ pourPass.pc = "failed" =>
         /\ pourPass.result \in Results
         /\ pourPass.result = "refused" => poured = 0 \/ "garbled" \in pourWorld

\* The pour has reached the row, or the multiplier has been doubled.
Booked == tranche.deployed = 2 \/ tranche.invest >= Base

\* Once poured, something always tells the next pass: the intent, the fail
\* marker, the exchange's figure (there where its records carry it) or the
\* ledger.
PourIsRemembered ==
    poured = 1 =>
      /\ tranche.intent # "none" \/ "unreported" \notin pourWorld
      /\ tranche.intent = "stale" \/ tranche.verified => shown = held /\ Booked
      /\ tranche.fail = "fresh" \/ shown = held \/ pourPass.pc \in {"ledger", "failed"}
      /\ Judging /\ (tranche.intent = "stale" \/ tranche.verified) => pourPass.report # 1
      /\ Judging =>
           \/ pourPass.report >= Base
           \/ pourPass.backoff
           \/ /\ pourPass.report = 0
              /\ pourPass.fresh \/ pourPass.deployed = 2 \/ pourPass.invest >= Base

PourInv == PourShape /\ LedgerIsBacked /\ PassIsCurrent /\ PourIsRemembered

-----------------------------------------------------------------------------
USE TranchePourAssumption DEF Steps, Results, TrancheRows, PourPasses, Judging, Booked, Base

\* A step that only works on the row and on the pass keeps the shape.
LEMMA ShapeKept ==
    ASSUME PourShape, tranche' \in TrancheRows, pourPass' \in PourPasses,
           NEW left \in Nat, pourLeft' = left, left <= pourLeft,
           UNCHANGED <<pourWorld, held, shown, poured>>
    PROVE  PourShape'
<1>1. held + left <= 1 + poured + PourBudget
  BY DEF PourShape
<1> QED BY <1>1 DEF PourShape

LEMMA PourStart == PourInit => PourInv
BY DEF PourInit, IdlePour, PourInv, PourShape, LedgerIsBacked, PassIsCurrent, PourIsRemembered

(* A write that may fail spends a fault, if there is one left. *)
LEMMA AWriteSpends ==
    ASSUME pourLeft \in Nat, NEW failed \in WriteFails, Spent(failed)
    PROVE  /\ failed = FALSE \/ failed = TRUE
           /\ pourLeft' \in Nat /\ pourLeft' <= pourLeft
<1>1. failed = FALSE \/ (failed = TRUE /\ pourLeft > 0)
  BY Zenon DEF WriteFails
<1>2. CASE failed = FALSE
  BY <1>2 DEF Spent
<1>3. CASE failed = TRUE /\ pourLeft > 0
  BY <1>3 DEF Spent
<1> QED BY <1>1, <1>2, <1>3

(* One step per action of the pass. *)
LEMMA ReadKeeps == ASSUME PourInv, PourRead PROVE PourInv'
<1> USE DEF PourInv, PourShape
<1>1. PICK report \in {shown} \cup {r \in {0} : "unreported" \in pourWorld} :
         pourPass' = [pc |-> "resync", invest |-> tranche.invest,
                      deployed |-> tranche.deployed, report |-> report,
                      backoff |-> tranche.fail = "fresh",
                      fresh |-> tranche.intent = "fresh", result |-> "none"]
  BY DEF PourRead, Has
<1>2. /\ pourPass'.pc = "resync" /\ pourPass'.invest = tranche.invest
      /\ pourPass'.deployed = tranche.deployed /\ pourPass'.report = report
      /\ pourPass'.backoff <=> tranche.fail = "fresh"
      /\ pourPass'.fresh <=> tranche.intent = "fresh"
      /\ report = shown \/ (report = 0 /\ "unreported" \in pourWorld)
  BY <1>1
<1>3. UNCHANGED <<pourWorld, held, shown, tranche, poured, pourLeft>>
  BY DEF PourRead
<1>4. PourShape'
  BY <1>1, <1>3
<1>5. LedgerIsBacked'
  BY <1>3 DEF LedgerIsBacked
<1>6. PassIsCurrent'
  BY <1>2, <1>3 DEF PassIsCurrent, LedgerIsBacked
<1>7. PourIsRemembered'
  <2>1. pourPass.pc = "idle"
    BY DEF PourRead
  <2>2. CASE tranche.fail = "fresh" \/ poured # 1
    BY <1>2, <1>3, <2>1, <2>2 DEF PourIsRemembered, LedgerIsBacked
  <2>3. CASE tranche.fail # "fresh" /\ poured = 1
    <3>1. shown = held /\ held >= 2
      BY <2>1, <2>3 DEF PourIsRemembered, LedgerIsBacked
    <3>2. report = 0 => pourPass'.fresh \/ Booked
      BY <1>2, <2>3, <3>1 DEF PourIsRemembered
    <3> QED BY <1>2, <1>3, <2>3, <3>1, <3>2 DEF PourIsRemembered
  <2> QED BY <2>2, <2>3
<1> QED BY <1>4, <1>5, <1>6, <1>7

LEMMA ResyncKeeps == ASSUME PourInv, PourResync PROVE PourInv'
<1> USE DEF PourInv, PourShape
<1> PICK failed \in WriteFails :
      LET resyncs == pourPass.deployed = 1 /\ pourPass.report \notin {0, pourPass.invest} /\ ~failed
      IN  /\ tranche' = [tranche EXCEPT
                           !.invest = IF resyncs THEN pourPass.report ELSE @,
                           !.verified = @ \/ (pourPass.report = held /\ ~failed)]
          /\ pourPass' = [pourPass EXCEPT !.pc = "complete",
                                          !.invest = IF resyncs THEN pourPass.report ELSE @]
          /\ Spent(failed)
  BY DEF PourResync
<1>1. /\ failed = FALSE \/ failed = TRUE
      /\ pourLeft' \in Nat /\ pourLeft' <= pourLeft
  BY AWriteSpends
<1>2. /\ pourPass.pc = "resync" /\ pourPass'.pc = "complete"
      /\ UNCHANGED <<pourWorld, held, shown, poured>>
  BY DEF PourResync
<1>3. /\ \/ tranche'.invest = tranche.invest /\ pourPass'.invest = pourPass.invest
         \/ /\ pourPass.deployed = 1 /\ pourPass.report \notin {0, pourPass.invest}
            /\ tranche'.invest = pourPass.report /\ pourPass'.invest = pourPass.report
      /\ pourPass'.report = pourPass.report /\ pourPass'.deployed = pourPass.deployed
      /\ pourPass'.backoff = pourPass.backoff /\ pourPass'.fresh = pourPass.fresh
      /\ tranche'.deployed = tranche.deployed /\ tranche'.multiplier = tranche.multiplier
      /\ tranche'.intent = tranche.intent /\ tranche'.fail = tranche.fail
  BY <1>1
<1>4. tranche'.verified => \/ tranche.verified
                           \/ /\ pourPass.report = held
                              /\ tranche'.invest = held \/ pourPass.deployed # 1
                                                       \/ pourPass.invest = held
  <2>1. CASE failed = TRUE
    BY <2>1
  <2>2. CASE failed = FALSE
    BY <2>2, <1>2 DEF LedgerIsBacked, PassIsCurrent
  <2> QED BY <1>1, <2>1, <2>2
<1>5. PourShape'
  <2>1. tranche'.verified \in BOOLEAN
    <3>1. CASE failed = TRUE
      BY <3>1
    <3>2. CASE failed = FALSE
      BY <3>2
    <3> QED BY <1>1, <3>1, <3>2
  <2>2. tranche'.invest \in Nat /\ pourPass'.invest \in Nat
    BY <1>3
  <2>3. /\ tranche' = [tranche EXCEPT !.invest = tranche'.invest, !.verified = tranche'.verified]
        /\ pourPass' = [pourPass EXCEPT !.pc = "complete", !.invest = pourPass'.invest]
    OBVIOUS
  <2>4. tranche' \in TrancheRows
    BY <2>1, <2>2, <2>3
  <2>5. pourPass' \in PourPasses
    BY <2>2, <2>3
  <2>6. held' + pourLeft' <= 1 + poured' + PourBudget
    BY <1>1, <1>2
  <2> QED BY <1>1, <1>2, <2>4, <2>5, <2>6
<1>6. LedgerIsBacked'
  BY <1>2, <1>3 DEF LedgerIsBacked, PassIsCurrent
<1>7. PassIsCurrent'
  BY <1>2, <1>3 DEF PassIsCurrent, LedgerIsBacked
<1>8. PourIsRemembered'
  <2> SUFFICES ASSUME poured = 1 PROVE PourIsRemembered'
    BY <1>2 DEF PourIsRemembered
  <2>1. /\ tranche'.intent # "none" \/ "unreported" \notin pourWorld'
        /\ tranche'.fail = "fresh" \/ shown' = held'
    BY <1>2, <1>3 DEF PourIsRemembered
  <2>2. tranche'.intent = "stale" => shown' = held' /\ Booked'
    BY <1>2, <1>3 DEF PourIsRemembered, PassIsCurrent, LedgerIsBacked
  <2>3. tranche'.verified => shown' = held' /\ Booked'
    BY <1>2, <1>3, <1>4 DEF PourIsRemembered, PassIsCurrent, LedgerIsBacked
  <2>4. \/ pourPass'.report >= Base
        \/ pourPass'.backoff
        \/ /\ pourPass'.report = 0
           /\ pourPass'.fresh \/ pourPass'.deployed = 2 \/ pourPass'.invest >= Base
    BY <1>2, <1>3 DEF PourIsRemembered
  <2>5. (tranche'.intent = "stale" \/ tranche'.verified) => pourPass'.report # 1
    BY <1>2, <1>3, <1>4 DEF PourIsRemembered, LedgerIsBacked
  <2> QED BY <2>1, <2>2, <2>3, <2>4, <2>5 DEF PourIsRemembered
<1> QED BY <1>5, <1>6, <1>7, <1>8

LEMMA CompleteKeeps == ASSUME PourInv, PourComplete PROVE PourInv'
<1> USE DEF PourInv, PourShape
<1>1. /\ pourPass.pc = "complete" /\ pourLeft' \in Nat /\ pourLeft' <= pourLeft
      /\ UNCHANGED <<pourWorld, held, shown, poured>>
  BY AWriteSpends DEF PourComplete
<1>2. CASE tranche' = tranche /\ pourPass' = [pourPass EXCEPT !.pc = "decide"]
  BY <1>1, <1>2 DEF LedgerIsBacked, PassIsCurrent, PourIsRemembered
<1>3. CASE /\ pourPass.invest >= Base /\ tranche.deployed = 1
           /\ tranche' = [tranche EXCEPT !.deployed = 2, !.multiplier = 2]
           /\ pourPass' = [pourPass EXCEPT !.pc = "decide", !.deployed = 2]
  <2>1. PourShape'
    <3>1. tranche' \in TrancheRows
      BY <1>1, <1>3
    <3>2. pourPass' \in PourPasses
      BY <1>1, <1>3
    <3> QED BY <1>1, <1>3, <3>1, <3>2
  <2>2. LedgerIsBacked'
    BY <1>1, <1>3 DEF LedgerIsBacked, PassIsCurrent
  <2>3. PassIsCurrent'
    BY <1>1, <1>3 DEF LedgerIsBacked, PassIsCurrent
  <2>4. PourIsRemembered'
    BY <1>1, <1>3 DEF LedgerIsBacked, PassIsCurrent, PourIsRemembered
  <2> QED BY <2>1, <2>2, <2>3, <2>4
<1>4. PICK failed \in WriteFails :
        LET completes == pourPass.deployed = 1 /\ pourPass.invest >= Base /\ ~failed
        IN  /\ tranche' = IF completes THEN Doubled(tranche) ELSE tranche
            /\ pourPass' = [pourPass EXCEPT !.pc = "decide",
                                            !.deployed = IF completes THEN 2 ELSE @]
  BY DEF PourComplete
<1>5. CASE pourPass.deployed = 1 /\ pourPass.invest >= Base /\ ~failed
  <2>1. tranche.deployed = 1 /\ tranche.multiplier = 1
    BY <1>1, <1>5 DEF PassIsCurrent, LedgerIsBacked
  <2> QED BY <1>3, <1>4, <1>5, <2>1 DEF Doubled
<1>6. CASE ~(pourPass.deployed = 1 /\ pourPass.invest >= Base /\ ~failed)
  BY <1>2, <1>4, <1>6
<1> QED BY <1>5, <1>6

LEMMA DecideKeeps == ASSUME PourInv, PourDecide PROVE PourInv'
<1> USE DEF PourInv, PourShape
<1>1. /\ pourPass.pc = "decide" /\ pourLeft' \in Nat /\ pourLeft' <= pourLeft
      /\ UNCHANGED <<pourWorld, held, shown, poured>>
  BY AWriteSpends DEF PourDecide
<1>2. CASE tranche' = tranche /\ pourPass' = IdlePour
  <2>1. PourShape'
    <3>1. tranche' \in TrancheRows
      BY <1>1, <1>2 DEF IdlePour
    <3>2. pourPass' \in PourPasses
      BY <1>1, <1>2 DEF IdlePour
    <3> QED BY <1>1, <3>1, <3>2, ShapeKept
  <2>2. LedgerIsBacked'
    BY <1>1, <1>2 DEF LedgerIsBacked, PassIsCurrent, IdlePour
  <2>3. PassIsCurrent'
    BY <1>1, <1>2 DEF LedgerIsBacked, PassIsCurrent, IdlePour
  <2>4. PourIsRemembered'
    BY <1>1, <1>2 DEF LedgerIsBacked, PassIsCurrent, PourIsRemembered, IdlePour
  <2> QED BY <2>1, <2>2, <2>3, <2>4
<1>3. CASE /\ ~pourPass.backoff /\ pourPass.deployed = 1 /\ pourPass.invest < Base
           /\ ~(pourPass.report >= Base) /\ ~(pourPass.report = 0 /\ pourPass.fresh)
           /\ tranche' = [tranche EXCEPT !.intent = "fresh", !.verified = FALSE]
           /\ pourPass' = [pourPass EXCEPT !.pc = "call"]
  <2>1. poured = 0
    BY <1>1, <1>3 DEF PourIsRemembered
  <2>2. PourShape'
    <3>1. tranche' \in TrancheRows
      BY <1>1, <1>3, <2>1
    <3>2. pourPass' \in PourPasses
      BY <1>1, <1>3, <2>1
    <3> QED BY <1>1, <1>3, <2>1, <3>1, <3>2
  <2>3. LedgerIsBacked'
    BY <1>1, <1>3, <2>1 DEF LedgerIsBacked, PassIsCurrent
  <2>4. PassIsCurrent'
    BY <1>1, <1>3, <2>1 DEF LedgerIsBacked, PassIsCurrent
  <2>5. PourIsRemembered'
    BY <1>1, <1>3, <2>1 DEF LedgerIsBacked, PassIsCurrent, PourIsRemembered
  <2> QED BY <2>2, <2>3, <2>4, <2>5
<1> QED BY <1>2, <1>3 DEF PourDecide

LEMMA CallKeeps == ASSUME PourInv, PourCall PROVE PourInv'
<1> USE DEF PourInv, PourShape
<1>1. /\ pourPass.pc = "call" /\ poured = 0 /\ tranche.intent = "fresh" /\ ~tranche.verified
      /\ UNCHANGED <<pourWorld, tranche, pourLeft>>
  BY DEF PourCall, PassIsCurrent
<1>2. PICK pc \in {"failed", "ledger"}, result \in {pourPass.result} \cup Results :
        /\ pourPass' = [pourPass EXCEPT !.pc = pc, !.result = result]
        /\ Land \/ UNCHANGED <<held, shown, poured>>
        /\ pc = "failed" => result \in Results
        /\ UNCHANGED poured \/ result # "refused" \/ pc = "ledger" \/ "garbled" \in pourWorld
        /\ pc = "ledger" => Land
  <2>1. CASE \E result \in {"refused", "not_sent"} :
               /\ pourPass' = [pourPass EXCEPT !.pc = "failed", !.result = result]
               /\ UNCHANGED <<held, shown, poured>>
    BY <2>1
  <2>2. CASE /\ pourPass' = [pourPass EXCEPT !.pc = "failed", !.result = "unknown"]
             /\ Land \/ UNCHANGED <<held, shown, poured>>
    BY <2>2
  <2>3. CASE Land /\ pourPass' = [pourPass EXCEPT !.pc = "ledger"]
    <3>1. pourPass' = [pourPass EXCEPT !.pc = "ledger", !.result = pourPass.result]
      BY <2>3
    <3> QED BY <2>3, <3>1
  <2>4. CASE /\ "garbled" \in pourWorld /\ Land
             /\ pourPass' = [pourPass EXCEPT !.pc = "failed", !.result = "refused"]
    BY <2>4
  <2> QED BY <2>1, <2>2, <2>3, <2>4 DEF PourCall, Has
<1>3. CASE UNCHANGED <<held, shown, poured>>
  <2> pourPass'.pc = "failed" \/ Land
    BY <1>2
  <2>1. PourShape'
    <3>1. tranche' \in TrancheRows
      BY <1>1, <1>2, <1>3 DEF Land
    <3>2. pourPass' \in PourPasses
      BY <1>1, <1>2, <1>3 DEF Land
    <3> QED BY <1>1, <1>2, <1>3, <3>1, <3>2
  <2>2. LedgerIsBacked'
    BY <1>1, <1>2, <1>3 DEF LedgerIsBacked, PassIsCurrent, Land
  <2>3. PassIsCurrent'
    BY <1>1, <1>2, <1>3 DEF LedgerIsBacked, PassIsCurrent, Land
  <2>4. PourIsRemembered'
    BY <1>1, <1>2, <1>3 DEF LedgerIsBacked, PassIsCurrent, PourIsRemembered, Land
  <2> QED BY <2>1, <2>2, <2>3, <2>4
<1>4. CASE Land
  <2>1. /\ held' = held + 1 /\ poured' = 1 /\ shown' \in {held, held + 1}
    BY <1>1, <1>4 DEF Land, LedgerIsBacked
  <2>2. shown' = held + 1 \/ "lag" \in pourWorld
    BY <1>4 DEF Land, Has
  <2>3. PourShape'
    <3>1. tranche' \in TrancheRows
      BY <1>1, <1>2, <2>1, <2>2
    <3>2. pourPass' \in PourPasses
      BY <1>1, <1>2, <2>1, <2>2
    <3> QED BY <1>1, <1>2, <2>1, <2>2, <3>1, <3>2
  <2>4. LedgerIsBacked'
    BY <1>1, <1>2, <2>1, <2>2 DEF LedgerIsBacked, PassIsCurrent
  <2>5. PassIsCurrent'
    BY <1>1, <1>2, <2>1, <2>2 DEF LedgerIsBacked, PassIsCurrent
  <2>6. PourIsRemembered'
    BY <1>1, <1>2, <2>1, <2>2 DEF LedgerIsBacked, PassIsCurrent, PourIsRemembered
  <2> QED BY <2>3, <2>4, <2>5, <2>6
<1> QED BY <1>2, <1>3, <1>4

LEMMA LedgerKeeps == ASSUME PourInv, PourLedger PROVE PourInv'
<1> USE DEF PourInv, PourShape
<1>1. /\ pourPass.pc = "ledger" /\ pourLeft' \in Nat /\ pourLeft' <= pourLeft
      /\ UNCHANGED <<pourWorld, held, shown, poured>>
  BY AWriteSpends DEF PourLedger
<1>2. CASE /\ tranche' = tranche
           /\ pourPass' = [pourPass EXCEPT !.pc = "failed", !.result = "persist"]
  <2>1. PourShape'
    <3>1. tranche' \in TrancheRows
      BY <1>1, <1>2
    <3>2. pourPass' \in PourPasses
      BY <1>1, <1>2
    <3> QED BY <1>1, <3>1, <3>2, ShapeKept
  <2>2. LedgerIsBacked'
    BY <1>1, <1>2 DEF LedgerIsBacked, PassIsCurrent
  <2>3. PassIsCurrent'
    BY <1>1, <1>2 DEF LedgerIsBacked, PassIsCurrent
  <2>4. PourIsRemembered'
    BY <1>1, <1>2 DEF LedgerIsBacked, PassIsCurrent, PourIsRemembered
  <2> QED BY <2>1, <2>2, <2>3, <2>4
<1>3. CASE /\ shown > tranche.invest /\ tranche' = [tranche EXCEPT !.invest = @ + 1]
           /\ pourPass' = [pourPass EXCEPT !.pc = "double"]
  <2>1. PourShape'
    <3>1. tranche' \in TrancheRows
      BY <1>1, <1>3
    <3>2. pourPass' \in PourPasses
      BY <1>1, <1>3
    <3> QED BY <1>1, <3>1, <3>2, ShapeKept
  <2>2. LedgerIsBacked'
    BY <1>1, <1>3 DEF LedgerIsBacked, PassIsCurrent
  <2>3. PassIsCurrent'
    BY <1>1, <1>3 DEF LedgerIsBacked, PassIsCurrent
  <2>4. PourIsRemembered'
    BY <1>1, <1>3 DEF LedgerIsBacked, PassIsCurrent, PourIsRemembered
  <2> QED BY <2>1, <2>2, <2>3, <2>4
<1>4. CASE /\ tranche' = [tranche EXCEPT !.invest = @ + 1]
           /\ pourPass' = [pourPass EXCEPT !.pc = "failed", !.result = "unverified"]
  <2>1. PourShape'
    <3>1. tranche' \in TrancheRows
      BY <1>1, <1>4
    <3>2. pourPass' \in PourPasses
      BY <1>1, <1>4
    <3> QED BY <1>1, <3>1, <3>2, ShapeKept
  <2>2. LedgerIsBacked'
    BY <1>1, <1>4 DEF LedgerIsBacked, PassIsCurrent
  <2>3. PassIsCurrent'
    BY <1>1, <1>4 DEF LedgerIsBacked, PassIsCurrent
  <2>4. PourIsRemembered'
    BY <1>1, <1>4 DEF LedgerIsBacked, PassIsCurrent, PourIsRemembered
  <2> QED BY <2>1, <2>2, <2>3, <2>4
<1> QED BY <1>2, <1>3, <1>4, Zenon DEF PourLedger

LEMMA DoubleKeeps == ASSUME PourInv, PourDouble PROVE PourInv'
<1> USE DEF PourInv, PourShape
<1>1. /\ pourPass.pc = "double" /\ pourLeft' \in Nat /\ pourLeft' <= pourLeft
      /\ pourPass' = IdlePour /\ UNCHANGED <<pourWorld, held, shown, poured>>
  BY AWriteSpends DEF PourDouble
<1>2. CASE tranche' = tranche
  <2>1. PourShape'
    <3>1. tranche' \in TrancheRows
      BY <1>1, <1>2 DEF IdlePour
    <3>2. pourPass' \in PourPasses
      BY <1>1, <1>2 DEF IdlePour
    <3> QED BY <1>1, <3>1, <3>2, ShapeKept
  <2>2. LedgerIsBacked'
    BY <1>1, <1>2 DEF LedgerIsBacked, PassIsCurrent, IdlePour
  <2>3. PassIsCurrent'
    BY <1>1, <1>2 DEF LedgerIsBacked, PassIsCurrent, IdlePour
  <2>4. PourIsRemembered'
    BY <1>1, <1>2 DEF LedgerIsBacked, PassIsCurrent, PourIsRemembered, IdlePour
  <2> QED BY <2>1, <2>2, <2>3, <2>4
<1>3. CASE /\ tranche.deployed = 1
           /\ tranche' = [tranche EXCEPT !.deployed = 2, !.multiplier = 2 * @]
  <2>1. PourShape'
    <3>1. tranche' \in TrancheRows
      <4>1. tranche.multiplier = 1
        BY <1>3 DEF LedgerIsBacked
      <4>2. tranche' = [tranche EXCEPT !.deployed = 2, !.multiplier = 2]
        BY <1>3, <4>1
      <4> QED BY <4>2
    <3>2. pourPass' \in PourPasses
      BY <1>1, <1>3 DEF IdlePour
    <3> QED BY <1>1, <3>1, <3>2, ShapeKept
  <2>2. LedgerIsBacked'
    BY <1>1, <1>3 DEF LedgerIsBacked, PassIsCurrent, IdlePour
  <2>3. PassIsCurrent'
    BY <1>1, <1>3 DEF LedgerIsBacked, PassIsCurrent, IdlePour
  <2>4. PourIsRemembered'
    BY <1>1, <1>3 DEF LedgerIsBacked, PassIsCurrent, PourIsRemembered, IdlePour
  <2> QED BY <2>1, <2>2, <2>3, <2>4
<1> QED BY <1>2, <1>3 DEF PourDouble, Doubled

LEMMA FailedKeeps == ASSUME PourIsSeen, PourInv, PourFailed PROVE PourInv'
<1> USE DEF PourInv, PourShape
<1>1. PICK unmarked \in {FALSE} \cup {f \in {TRUE} : Has("mark_lost") /\ pourLeft > 0} :
        /\ tranche' = [tranche EXCEPT
                         !.intent = IF pourPass.result = "refused" /\ ~unmarked THEN "none" ELSE @,
                         !.fail = IF unmarked THEN @ ELSE "fresh"]
        /\ Spent(unmarked)
  BY DEF PourFailed
<1>2. unmarked = FALSE \/ (unmarked = TRUE /\ Has("mark_lost") /\ pourLeft > 0)
  BY Zenon
<1>3. pourLeft' \in Nat /\ pourLeft' <= pourLeft
  BY <1>1, <1>2 DEF Spent
<1>4. /\ pourPass.pc = "failed" /\ pourPass' = IdlePour
      /\ UNCHANGED <<pourWorld, held, shown, poured>>
  BY DEF PourFailed
<1>5. CASE unmarked = TRUE /\ Has("mark_lost")
  <2>1. tranche' = tranche /\ shown = held
    BY <1>1, <1>4, <1>5 DEF PourIsSeen, Has, LedgerIsBacked
  <2>2. pourPass' \in PourPasses
    BY <1>4 DEF IdlePour
  <2>3. PourShape'
    BY <1>3, <1>4, <2>1, <2>2, ShapeKept
  <2>4. LedgerIsBacked' /\ PassIsCurrent'
    BY <1>4, <2>1 DEF IdlePour, LedgerIsBacked, PassIsCurrent
  <2>5. PourIsRemembered'
    BY <1>4, <2>1 DEF IdlePour, PourIsRemembered
  <2> QED BY <2>3, <2>4, <2>5
<1>6. CASE unmarked = FALSE
  <2>1. /\ tranche' = [tranche EXCEPT !.intent = tranche'.intent, !.fail = "fresh"]
        /\ \/ tranche'.intent = tranche.intent
           \/ tranche'.intent = "none" /\ (poured = 0 \/ "unreported" \notin pourWorld)
    BY <1>1, <1>4, <1>6 DEF PassIsCurrent, PourIsSeen
  <2>2. /\ tranche'.invest = tranche.invest /\ tranche'.deployed = tranche.deployed
        /\ tranche'.multiplier = tranche.multiplier /\ tranche'.verified = tranche.verified
        /\ tranche'.fail = "fresh"
    BY <1>1, <1>6
  <2>3. PourShape'
    <3>1. tranche' \in TrancheRows
      BY <2>1
    <3>2. pourPass' \in PourPasses
      BY <1>4 DEF IdlePour
    <3> QED BY <1>3, <1>4, <3>1, <3>2, ShapeKept
  <2>4. LedgerIsBacked'
    BY <1>4, <2>2 DEF LedgerIsBacked
  <2>5. PassIsCurrent'
    BY <1>4 DEF PassIsCurrent, IdlePour
  <2>6. PourIsRemembered'
    BY <1>4, <2>1, <2>2 DEF PourIsRemembered, IdlePour
  <2> QED BY <2>3, <2>4, <2>5, <2>6
<1> QED BY <1>2, <1>5, <1>6

LEMMA PassKeeps ==
    ASSUME PourIsSeen, PourInv, PourStep
    PROVE  PourInv'
BY ReadKeeps, ResyncKeeps, CompleteKeeps, DecideKeeps, CallKeeps, LedgerKeeps, DoubleKeeps,
   FailedKeeps DEF PourStep

(* And one per event around it. *)
LEMMA SurroundingsKeep ==
    ASSUME PourIsSeen, PourInv,
           PourCrash \/ ReadsCatchUp \/ MarkersAge \/ OperatorPours
    PROVE  PourInv'
<1> USE DEF PourInv, PourShape, LedgerIsBacked, PassIsCurrent, PourIsRemembered, IdlePour, Has
<1>1. CASE PourCrash
  BY <1>1 DEF PourCrash, PourIsSeen
<1>2. CASE ReadsCatchUp
  BY <1>2 DEF ReadsCatchUp
<1>3. CASE MarkersAge
  BY <1>3 DEF MarkersAge
<1>4. CASE OperatorPours
  BY <1>4 DEF OperatorPours
<1> QED BY <1>1, <1>2, <1>3, <1>4

LEMMA PourStays == ASSUME PourIsSeen, PourInv, [PourNext]_pourVars PROVE PourInv'
<1>1. CASE UNCHANGED pourVars
  BY <1>1 DEF pourVars, PourInv, PourShape, LedgerIsBacked, PassIsCurrent, PourIsRemembered
<1> QED BY <1>1, PassKeeps, SurroundingsKeep DEF PourNext

LEMMA PourInvariance == ASSUME PourIsSeen PROVE PourSpec => []PourInv
  BY PourStart, PourStays, PTL DEF PourSpec

(* "make a retry decide 'already landed' instead of pouring a second
   margin": the second tranche is poured once and booked for a grid that
   holds it, after any number of restarts, failed writes and lost answers,
   where a pour that landed is seen. *)
THEOREM TrancheHappensOnce == ASSUME PourIsSeen PROVE PourSpec => []TrancheOnce
<1>1. PourInv => TrancheOnce
  BY DEF PourInv, PourShape, LedgerIsBacked, TrancheOnce, PouredOnce, DoubledMeansHeld
<1> QED BY <1>1, PourInvariance, PTL

LEMMA PourTypes == PourInv => PourTypeOK
  BY DEF PourInv, PourShape, LedgerIsBacked, PourTypeOK

(* The row, the markers and the pass hold what the code can write, and the
   row never claims more than the exchange holds. *)
THEOREM PourTypeCorrect == ASSUME PourIsSeen PROVE PourSpec => []PourTypeOK
  BY PourTypes, PourInvariance, PTL

--------------------------------------------------------------------------
(* DecisionReplay: what a replay claims of a decision, and that a run is whole. *)

(* What may be said of a chain under an override. *)
Honest(item, c, o) ==
    /\ item.verdict = "REPRODUCED" => item.newOutcome = Verdict(c, Threshold)
    /\ item.followed /\ o.gate = "RV" /\ c.rv = "judged" => item.newOutcome = Verdict(c, o.threshold)

LEMMA ChainIs ==
    ASSUME NEW c \in Chains
    PROVE  /\ c.value \in Int /\ c.direction \in {"gte", "lte"}
           /\ c.later \in {"PASS", "WAIT", "REJECT", "none"}
           /\ c.rv \in {"judged", "exempt", "wordless", "undirected", "misread"}
<1>1. CASE c \in [rv : {"judged"}, value : {1, 3}, direction : {"gte"}, later : {"PASS", "WAIT", "REJECT"},
                  stops : BOOLEAN]
  BY <1>1
<1>2. CASE c \in [rv : {"judged"}, value : {3}, direction : {"gte", "lte"}, later : {"none"}, stops : {TRUE}]
  BY <1>2
<1>3. CASE c \in [rv : {"exempt", "wordless", "undirected", "misread"}, value : {3}, direction : {"gte"},
                  later : {"none"}, stops : {TRUE}]
  BY <1>3
<1> QED BY <1>1, <1>2, <1>3 DEF Chains

LEMMA VerdictOf ==
    ASSUME NEW c \in Chains, c.rv = "judged", NEW t
    PROVE  Verdict(c, t) = IF Rejects(c.value, t, c.direction) THEN "REJECT"
                           ELSE IF c.later \in {"WAIT", "REJECT"} THEN c.later ELSE "ALLOW"
  BY DEF Verdict, Refused

LEMMA ItemIs ==
    ASSUME NEW verdict, NEW said, NEW followed
    PROVE  Item(verdict, said, followed).verdict = verdict /\ Item(verdict, said, followed).newOutcome = said
  BY DEF Item

LEMMA UnfollowedIs == ~Item("CHANGED", "", FALSE).followed
  BY DEF Item

LEMMA NoItemIs == NotReplayable.verdict = "NOT_REPLAYABLE" /\ ~NotReplayable.followed
  BY DEF NotReplayable, Item

(* Whatever the trace, REPRODUCED is said with the recorded outcome. *)
Backs(item, base) == item.verdict = "REPRODUCED" => item.newOutcome = base

LEMMA ValidatedBacks == ASSUME NEW trace, NEW base PROVE Backs(Validated(trace, base), base)
<1>1. Backs(NotReplayable, base)
  BY NoItemIs DEF Backs
<1>2. Backs(Item("REPRODUCED", base, TRUE), base)
  BY DEF Backs, Item
<1> QED BY <1>1, <1>2 DEF Validated

LEMMA RemainderBacks == ASSUME NEW rest, NEW base PROVE Backs(Remainder(rest), base)
<1>1. Backs(NotReplayable, base)
  BY NoItemIs DEF Backs
<1>2. ASSUME NEW said, NEW followed PROVE Backs(Item("CHANGED", said, followed), base)
  BY ItemIs DEF Backs
<1> QED BY <1>1, <1>2 DEF Remainder

LEMMA CoreBacks ==
    ASSUME NEW trace, NEW base, NEW o PROVE Backs(ReplayTraceCore(trace, base, o), base)
<1>1. Backs(NotReplayable, base)
  BY NoItemIs DEF Backs
<1>2. Backs(Item("REPRODUCED", base, TRUE), base) /\ Backs(Item("CHANGED", "REJECT", TRUE), base)
  BY DEF Backs, Item
<1>3. Backs(Validated(trace, base), base)
  BY ValidatedBacks
<1>4. \A i : Backs(Remainder(SubSeq(trace, i, Len(trace))), base)
  BY RemainderBacks
<1> QED BY <1>1, <1>2, <1>3, <1>4 DEF ReplayTraceCore

(* The trace of a chain that RV has judged. *)
LEMMA JudgedTrace ==
    ASSUME NEW c \in Chains, c.rv = "judged"
    PROVE  LET trace == Trace(c)
           IN  /\ trace[1].gate = "RV" /\ trace[1].value = c.value
               /\ trace[1].direction = c.direction /\ GateFacts(trace[1]) = "ok"
               /\ trace[1].verdict = IF Rejects(c.value, Threshold, c.direction) THEN "REJECT" ELSE "PASS"
               /\ c.later = "none" => Len(trace) = 1 /\ trace \in Seq({trace[1]})
               /\ c.later # "none" => /\ Len(trace) = 2 /\ trace \in Seq({trace[1], trace[2]})
                                      /\ trace[2].gate # "RV"
                                      /\ trace[2].verdict =
                                           IF Rejects(c.value, Threshold, c.direction) /\ c.stops
                                           THEN "NOT_EVALUATED" ELSE c.later
<1> DEFINE rv == [gate |-> "RV", direction |-> c.direction, value |-> c.value,
                  threshold |-> Threshold, inputs |-> TRUE,
                  verdict |-> IF Rejects(c.value, Threshold, c.direction) THEN "REJECT" ELSE "PASS"]
           next == [gate |-> "LATER", direction |-> "", value |-> 0, threshold |-> 0, inputs |-> FALSE,
                    verdict |-> IF Rejects(c.value, Threshold, c.direction) /\ c.stops
                                THEN "NOT_EVALUATED" ELSE c.later]
<1>1. Trace(c) = IF c.later = "none" THEN <<rv>> ELSE <<rv, next>>
  BY DEF Trace, Refused
<1>2. /\ rv.gate = "RV" /\ rv.value = c.value /\ rv.direction = c.direction
      /\ rv.verdict = IF Rejects(c.value, Threshold, c.direction) THEN "REJECT" ELSE "PASS"
  OBVIOUS
<1>3. GateFacts(rv) = "ok"
  BY ChainIs DEF GateFacts, Threshold
<1>4. next.gate # "RV" /\ next.verdict = IF Rejects(c.value, Threshold, c.direction) /\ c.stops
                                        THEN "NOT_EVALUATED" ELSE c.later
  OBVIOUS
<1> HIDE DEF rv, next
<1>5. CASE c.later = "none"
  BY <1>1, <1>2, <1>3, <1>5
<1>6. CASE c.later # "none"
  BY <1>1, <1>2, <1>3, <1>4, <1>6
<1> QED BY <1>5, <1>6

(* What RV's replay says of a judged chain, branch by branch. *)
LEMMA JudgedCore ==
    ASSUME NEW c \in Chains, c.rv = "judged", NEW o, o.gate = "RV", o.threshold # 0,
           NEW trace, trace = Trace(c), NEW base
    PROVE  LET refuses == Rejects(c.value, o.threshold, c.direction)
               refused == Rejects(c.value, Threshold, c.direction)
               item == ReplayTraceCore(trace, base, o)
           IN  /\ (refuses <=> refused) => item = Item("REPRODUCED", base, TRUE)
               /\ refuses /\ ~refused => item = Item("CHANGED", "REJECT", TRUE)
               /\ ~refuses /\ refused => item = Remainder(SubSeq(trace, 2, Len(trace)))
<1> DEFINE at == {i \in DOMAIN trace : trace[i].gate = o.gate}
           refuses == Rejects(c.value, o.threshold, c.direction)
           refused == Rejects(c.value, Threshold, c.direction)
<1>1. /\ trace[1].gate = "RV" /\ trace[1].value = c.value
      /\ trace[1].direction = c.direction /\ GateFacts(trace[1]) = "ok"
      /\ trace[1].verdict = IF refused THEN "REJECT" ELSE "PASS"
      /\ DOMAIN trace = 1 .. Len(trace)
      /\ Len(trace) = 1 \/ (Len(trace) = 2 /\ trace[2].gate # "RV")
  <2>1. /\ trace[1].gate = "RV" /\ trace[1].value = c.value
        /\ trace[1].direction = c.direction /\ GateFacts(trace[1]) = "ok"
        /\ trace[1].verdict = IF refused THEN "REJECT" ELSE "PASS"
    BY JudgedTrace
  <2>2. CASE c.later = "none"
    <3>1. Len(trace) = 1 /\ trace \in Seq({trace[1]})
      BY <2>2, JudgedTrace
    <3> QED BY <2>1, <3>1, LenProperties
  <2>3. CASE c.later # "none"
    <3>1. Len(trace) = 2 /\ trace \in Seq({trace[1], trace[2]}) /\ trace[2].gate # "RV"
      BY <2>3, JudgedTrace
    <3> QED BY <2>1, <3>1, LenProperties
  <2> QED BY <2>2, <2>3
<1>2. at = {1}
  BY <1>1
<1> DEFINE i == CHOOSE j \in at : \A k \in at : j <= k
           judged == at # {} /\ trace[i].verdict \notin {"EXEMPT", "NOT_EVALUATED"}
                       /\ GateFacts(trace[i]) = "ok" /\ o.threshold # 0
           now == Rejects(trace[i].value, o.threshold, trace[i].direction)
           then == trace[i].verdict = "REJECT"
<1>3. ReplayTraceCore(trace, base, o) =
        CASE o.gate = "" -> Validated(trace, base)
          [] o.gate # "" /\ ~judged -> NotReplayable
          [] o.gate # "" /\ judged /\ now = then -> Item("REPRODUCED", base, TRUE)
          [] o.gate # "" /\ judged /\ now /\ ~then -> Item("CHANGED", "REJECT", TRUE)
          [] OTHER -> Remainder(SubSeq(trace, i + 1, Len(trace)))
  BY DEF ReplayTraceCore
<1>4. i = 1
  BY <1>2
<1> HIDE DEF i, at
<1>5. judged
  BY <1>1, <1>2, <1>4
<1>6. then <=> refused
  BY <1>1, <1>4
<1>7. now = refuses
  BY <1>1, <1>4
<1>8. (now = then) <=> (refuses <=> refused)
  BY <1>6, <1>7 DEF Rejects
<1>9. (now <=> refuses) /\ o.gate # ""
  BY <1>7
<1>10. SubSeq(trace, i + 1, Len(trace)) = SubSeq(trace, 2, Len(trace))
  BY <1>4
<1> HIDE DEF judged, now, then, refuses, refused
<1>11. (refuses <=> refused) => ReplayTraceCore(trace, base, o) = Item("REPRODUCED", base, TRUE)
  BY <1>3, <1>5, <1>8, <1>9
<1>12. refuses /\ ~refused => ReplayTraceCore(trace, base, o) = Item("CHANGED", "REJECT", TRUE)
  BY <1>3, <1>5, <1>6, <1>8, <1>9
<1>13. ~refuses /\ refused => ReplayTraceCore(trace, base, o) = Remainder(SubSeq(trace, 2, Len(trace)))
  BY <1>3, <1>5, <1>8, <1>9, <1>10
<1> QED BY <1>11, <1>12, <1>13 DEF refuses, refused

(* A refusal that is lifted: the recorded rest decides, if it was evaluated. *)
LEMMA LiftedRemainder ==
    ASSUME NEW c \in Chains, c.rv = "judged", NEW trace, trace = Trace(c),
           Rejects(c.value, Threshold, c.direction),
           NEW item, item = Remainder(SubSeq(trace, 2, Len(trace))), item.followed
    PROVE  item.newOutcome = IF c.later \in {"WAIT", "REJECT"} THEN c.later ELSE "ALLOW"
<1> DEFINE rest == SubSeq(trace, 2, Len(trace))
           said == {rest[j].verdict : j \in DOMAIN rest}
<1>1. item = CASE rest = <<>> -> NotReplayable
               [] rest # <<>> /\ "REJECT" \in said -> Item("CHANGED", "REJECT", TRUE)
               [] rest # <<>> /\ "REJECT" \notin said /\ "NOT_EVALUATED" \in said -> Item("CHANGED", "", FALSE)
               [] OTHER -> Item("CHANGED", IF "WAIT" \in said THEN "WAIT" ELSE "ALLOW", TRUE)
  BY DEF Remainder
<1>2. CASE c.later = "none"
  <2>1. Len(trace) = 1
    BY <1>2, JudgedTrace
  <2>2. rest = <<>>
    BY <2>1, SubSeqEmpty
  <2> HIDE DEF rest, said
  <2>3. item = NotReplayable
    BY <1>1, <2>2
  <2> QED BY <2>3, NoItemIs
<1>3. CASE c.later # "none"
  <2>1. Len(trace) = 2 /\ trace[2].verdict = IF c.stops THEN "NOT_EVALUATED" ELSE c.later
    BY <1>3, JudgedTrace
  <2>2. DOMAIN rest = {1} /\ rest[1] = trace[2] /\ rest # <<>>
    <3>1. \A k \in 2 .. 2 : trace[k] \in {trace[2]}
      OBVIOUS
    <3>2. rest \in Seq({trace[2]}) /\ Len(rest) = 1 /\ rest[1] = trace[2]
      BY <2>1, <3>1, SubSeqProperties
    <3> HIDE DEF rest
    <3>3. DOMAIN rest = 1 .. 1
      BY <3>2, LenProperties
    <3>4. DOMAIN <<>> = {} /\ 1 \in 1 .. 1
      OBVIOUS
    <3>5. rest # <<>>
      <4>1. SUFFICES ASSUME rest = <<>> PROVE FALSE
        OBVIOUS
      <4>2. DOMAIN rest = DOMAIN <<>>
        BY <4>1
      <4> QED BY <3>3, <3>4, <4>2
    <3>6. 1 .. 1 = {1}
      OBVIOUS
    <3> QED BY <3>2, <3>3, <3>5, <3>6
  <2>3. said = {IF c.stops THEN "NOT_EVALUATED" ELSE c.later}
    BY <2>1, <2>2
  <2>4. c.later \in {"PASS", "WAIT", "REJECT"}
    BY <1>3, ChainIs
  <2> HIDE DEF rest, said
  <2>5. CASE c.stops
    <3>1. said = {"NOT_EVALUATED"}
      BY <2>3, <2>5
    <3>2. item = Item("CHANGED", "", FALSE)
      BY <1>1, <2>2, <3>1
    <3> QED BY <3>2, UnfollowedIs
  <2>6. CASE ~c.stops
    <3>1. said = {c.later}
      BY <2>3, <2>6
    <3>2. CASE c.later = "REJECT"
      <4>1. item = Item("CHANGED", "REJECT", TRUE)
        BY <1>1, <2>2, <3>1, <3>2
      <4> QED BY <3>2, <4>1 DEF Item
    <3>3. CASE c.later # "REJECT"
      <4>1. item = Item("CHANGED", IF c.later = "WAIT" THEN "WAIT" ELSE "ALLOW", TRUE)
        BY <1>1, <2>2, <2>4, <3>1, <3>3
      <4>2. item.newOutcome = IF c.later = "WAIT" THEN "WAIT" ELSE "ALLOW"
        BY <4>1 DEF Item
      <4> QED BY <2>4, <3>3, <4>2
    <3> QED BY <3>2, <3>3
  <2> QED BY <2>5, <2>6
<1> QED BY <1>2, <1>3

LEMMA ReplayIsHonest ==
    ASSUME NEW c \in Chains, NEW o \in Overrides
    PROVE  Honest(ReplayTraceCore(Trace(c), Verdict(c, Threshold), o), c, o)
<1> DEFINE base == Verdict(c, Threshold)
           item == ReplayTraceCore(Trace(c), base, o)
<1>1. Backs(item, base)
  BY CoreBacks
<1>2. ASSUME item.followed, o.gate = "RV", c.rv = "judged" PROVE item.newOutcome = Verdict(c, o.threshold)
  <2> DEFINE refuses == Rejects(c.value, o.threshold, c.direction)
             refused == Rejects(c.value, Threshold, c.direction)
             lifted == IF c.later \in {"WAIT", "REJECT"} THEN c.later ELSE "ALLOW"
  <2>1. Verdict(c, o.threshold) = (IF refuses THEN "REJECT" ELSE lifted)
        /\ base = (IF refused THEN "REJECT" ELSE lifted)
    BY <1>2, VerdictOf
  <2>2. o.threshold # 0
    <3>1. SUFFICES ASSUME o.threshold = 0 PROVE FALSE
      OBVIOUS
    <3>2. item = NotReplayable
      BY <1>2, <3>1 DEF ReplayTraceCore
    <3> QED BY <1>2, <3>2, NoItemIs
  <2>3. /\ (refuses <=> refused) => item = Item("REPRODUCED", base, TRUE)
        /\ refuses /\ ~refused => item = Item("CHANGED", "REJECT", TRUE)
        /\ ~refuses /\ refused => item = Remainder(SubSeq(Trace(c), 2, Len(Trace(c))))
    BY <1>2, <2>2, JudgedCore
  <2>4. ~refuses /\ refused => item.newOutcome = lifted
    BY <1>2, <2>3, LiftedRemainder
  <2> HIDE DEF item, refuses, refused, lifted, base
  <2>5. (refuses <=> refused) => item.newOutcome = base
    BY <2>3 DEF Item
  <2>6. refuses /\ ~refused => item.newOutcome = "REJECT"
    BY <2>3 DEF Item
  <2> QED BY <2>1, <2>4, <2>5, <2>6
<1> QED BY <1>1, <1>2 DEF Honest, Backs

LEMMA ReplayedIs ==
    ASSUME NEW c \in Chains, NEW o \in Overrides
    PROVE  Replayed[c][o] = ReplayTraceCore(Trace(c), Verdict(c, Threshold), o)
<1> DEFINE table == [d \in Chains |-> [q \in Overrides |-> ReplayTraceCore(Trace(d), Verdict(d, Threshold), q)]]
<1>1. table[c][o] = ReplayTraceCore(Trace(c), Verdict(c, Threshold), o)
  OBVIOUS
<1>2. Replayed = CHOOSE t \in {table} : t = t
  BY DEF Replayed
<1> HIDE DEF table
<1> QED BY <1>1, <1>2

--------------------------------------------------------------------------
(* Batches and counts. *)

Rank(some, i) == Cardinality({j \in some : j <= i})

LEMMA RankIs ==
    ASSUME NEW some, some \subseteq Nat, IsFiniteSet(some)
    PROVE  /\ \A i \in some : Rank(some, i) \in 1 .. Cardinality(some)
           /\ \A i, k \in some : Rank(some, i) = Rank(some, k) => i = k
<1>1. \A i : IsFiniteSet({j \in some : j <= i}) /\ Cardinality({j \in some : j <= i}) <= Cardinality(some)
             /\ Cardinality({j \in some : j <= i}) \in Nat
  BY FS_Subset, FS_CardinalityType
<1>2. Cardinality(some) \in Nat
  BY FS_CardinalityType
<1>3. ASSUME NEW i \in some PROVE Rank(some, i) \in 1 .. Cardinality(some)
  <2> DEFINE below == {j \in some : j <= i}
  <2>1. i \in below
    OBVIOUS
  <2>2. IsFiniteSet(below) /\ Cardinality(below) <= Cardinality(some) /\ Cardinality(below) \in Nat
    BY <1>1
  <2> HIDE DEF below
  <2>3. Cardinality(below) # 0
    BY <2>1, <2>2, FS_EmptySet
  <2> QED BY <1>2, <2>2, <2>3 DEF Rank, below
<1>4. ASSUME NEW i \in some, NEW k \in some, i < k PROVE Rank(some, i) # Rank(some, k)
  <2> DEFINE below == {j \in some : j <= i}
             above == {j \in some : j <= k}
  <2>1. k \in above /\ k \notin below /\ below \subseteq above
    <3>1. i \in Nat /\ k \in Nat /\ \A j \in some : j \in Nat
      OBVIOUS
    <3>2. \A j \in some : j <= i => j <= k
      BY <1>4, <3>1
    <3>3. k <= k /\ ~(k <= i)
      BY <1>4, <3>1
    <3>4. k \in above /\ k \notin below
      BY <3>3
    <3>5. below \subseteq above
      BY <3>2
    <3> QED BY <3>4, <3>5
  <2>2. IsFiniteSet(above)
    BY <1>1
  <2> HIDE DEF below, above
  <2>3. Cardinality(above) # Cardinality(below)
    BY <2>1, <2>2, FS_Subset
  <2> QED BY <2>3 DEF Rank, below, above
<1>5. ASSUME NEW i \in some, NEW k \in some, Rank(some, i) = Rank(some, k) PROVE i = k
  <2>1. i \in Nat /\ k \in Nat
    OBVIOUS
  <2>2. ~(i < k) /\ ~(k < i)
    BY <1>4, <1>5
  <2> QED BY <2>1, <2>2
<1> QED BY <1>3, <1>5

(* Every rank up to the size of the set is somebody's. *)
LEMMA NthIs ==
    ASSUME NEW some, some \subseteq Nat, IsFiniteSet(some)
    PROVE  /\ \A n \in 1 .. Cardinality(some) : Nth(some, n) \in some /\ Rank(some, Nth(some, n)) = n
           /\ \A i \in some : Nth(some, Rank(some, i)) = i
<1> DEFINE size == Cardinality(some)
           rank == [i \in some |-> Rank(some, i)]
<1>1. size \in Nat
  BY FS_CardinalityType
<1>2. rank \in [some -> 1 .. size] /\ \A i, k \in some : rank[i] = rank[k] => i = k
  BY RankIs
<1>3. rank \in Injection(some, 1 .. size)
  BY <1>2 DEF Injection, IsInjective
<1>4. IsFiniteSet(1 .. size) /\ Cardinality(1 .. size) = size
  BY <1>1, FS_Interval
<1>5. rank \in Surjection(some, 1 .. size)
  BY <1>3, <1>4, FS_Injection
<1>6. \A n \in 1 .. size : \E i \in some : Rank(some, i) = n
  BY <1>5 DEF Surjection
<1>7. ASSUME NEW n \in 1 .. size PROVE Nth(some, n) \in some /\ Rank(some, Nth(some, n)) = n
  BY <1>6 DEF Nth, Rank
<1>8. ASSUME NEW i \in some PROVE Nth(some, Rank(some, i)) = i
  <2>1. Rank(some, i) \in 1 .. size
    BY RankIs
  <2> DEFINE k == Nth(some, Rank(some, i))
  <2>2. k \in some /\ Rank(some, k) = Rank(some, i)
    BY <1>7, <2>1
  <2>3. \A a, b \in some : Rank(some, a) = Rank(some, b) => a = b
    BY RankIs
  <2> HIDE DEF k
  <2>4. k = i
    BY <2>2, <2>3
  <2> QED BY <2>4 DEF k
<1> QED BY <1>7, <1>8

IsBatch(some, m, open) ==
    /\ DOMAIN some = 1 .. m /\ m <= BatchSize
    /\ \A n \in 1 .. m : some[n] \in open
    /\ \A n, k \in 1 .. m : some[n] = some[k] => n = k
    /\ m < BatchSize => \A i \in open : \E n \in 1 .. m : some[n] = i
    /\ some = <<>> => open = {}

LEMMA BatchIs ==
    ASSUME NEW r, Unjudged(r) \subseteq Nat, IsFiniteSet(Unjudged(r)), NEW some, some = NextBatch(r)
    PROVE  \E m \in Nat : IsBatch(some, m, Unjudged(r))
<1> DEFINE open == Unjudged(r)
           many == Cardinality(open)
           m == IF many < BatchSize THEN many ELSE BatchSize
<1>1. many \in Nat /\ BatchSize \in Nat \ {0}
  BY FS_CardinalityType, ReplayAssumption
<1>2. m \in Nat /\ m <= BatchSize /\ m <= many /\ (m < BatchSize => m = many) /\ (m = 0 => many = 0)
  BY <1>1
<1>3. some = [n \in 1 .. m |-> Nth(open, n)]
  BY DEF NextBatch
<1>4. \A n \in 1 .. many : Nth(open, n) \in open /\ Rank(open, Nth(open, n)) = n
  BY NthIs
<1>5. \A i \in open : Nth(open, Rank(open, i)) = i /\ Rank(open, i) \in 1 .. many
  BY NthIs, RankIs
<1>6. many = 0 => open = {}
  BY FS_EmptySet
<1> HIDE DEF many, m, open
<1>7. DOMAIN some = 1 .. m /\ \A n \in 1 .. m : some[n] = Nth(open, n)
  BY <1>3
<1>8. \A n \in 1 .. m : n \in 1 .. many
  BY <1>1, <1>2
<1>9. \A n \in 1 .. m : some[n] \in open
  BY <1>4, <1>7, <1>8
<1>10. \A n, k \in 1 .. m : some[n] = some[k] => n = k
  BY <1>4, <1>7, <1>8
<1>11. m < BatchSize => \A i \in open : \E n \in 1 .. m : some[n] = i
  BY <1>2, <1>5, <1>7
<1>12. some = <<>> => open = {}
  <2>1. SUFFICES ASSUME some = <<>> PROVE open = {}
    OBVIOUS
  <2>2. 1 .. m = {}
    <3>1. DOMAIN <<>> = {}
      OBVIOUS
    <3> QED BY <1>7, <2>1, <3>1
  <2>3. m = 0
    BY <1>2, <2>2
  <2> QED BY <1>2, <1>6, <2>3
<1> QED BY <1>2, <1>7, <1>9, <1>10, <1>11, <1>12 DEF open, IsBatch

--------------------------------------------------------------------------
(* The invariant. *)

Outcomes == {"ALLOW", "WAIT", "REJECT"}
DecisionRows == [chain : Chains, base : Outcomes, episode : Nat, kept : BOOLEAN]
ShadowRows == [decision : Nat, episode : Nat, pos : {"OPEN", "CLOSED", "INVALIDATED"}]
ItemRows == [verdict : {"NOT_REPLAYABLE", "REPRODUCED", "CHANGED"}, newOutcome : Outcomes \cup {""},
             followed : BOOLEAN, decision : Nat, effect : BOOLEAN]
RunRows == [status : {"QUEUED", "RUNNING", "DONE", "FAILED"}, lease : {"none", "live", "lapsed"},
            items : Seq(ItemRows), stats : Seq(Nat), override : Overrides, window : Nat, known : Nat]
NoRun == [status |-> "none"]
PassRows ==
    [at : {"idle"}] \cup [at : {"batch", "count"}, run : Experiments]
      \cup [at : {"insert"}, run : Experiments, items : Seq(ItemRows)]
      \cup [at : {"finish"}, run : Experiments, stats : Seq(Nat)]

JournalShape ==
    /\ episodes \in Seq({"OPEN", "ALLOWED", "lapsed"}) /\ shadows \in Seq(ShadowRows)
    /\ journal \in Seq(DecisionRows)
    /\ \A i \in DOMAIN journal : journal[i].base = Verdict(journal[i].chain, Threshold)
    /\ "prune" \notin replayWorld => \A i \in DOMAIN journal : journal[i].kept
ReplayShape ==
    /\ JournalShape /\ runs \in [Experiments -> RunRows \cup {NoRun}]
    /\ passes \in [ReplayPasses -> PassRows]

Calm(w) == "stall" \notin w
Judged(items) == {items[k].decision : k \in DOMAIN items}
Distinct(items) == \A j, k \in DOMAIN items : items[j].decision = items[k].decision => j = k
Tells(s, e) == e # 0 /\ \E i \in DOMAIN s : s[i].episode = e /\ s[i].pos = "CLOSED"
Told(s) == {s[i].episode : i \in {n \in DOMAIN s : s[n].pos = "CLOSED"}} \ {0}

(* What an item says is so: of its chain, and of the episode it counts. (In
   what follows w is the world, j the journal and s the shadows.) *)
Fits(item, o, j, s) ==
    /\ item.decision \in DOMAIN j /\ Honest(item, j[item.decision].chain, o)
    /\ item.effect => Tells(s, j[item.decision].episode)
Covered(run, judged, j) == \A i \in 1 .. run.known : j[i].kept => i \in judged
StatsHold(run, stats, w, s) ==
    /\ Calm(w) => stats[1] = Len(run.items)
    /\ stats[2] \in Nat /\ ("prune" \notin w => stats[2] <= Cardinality(Told(s)))

RunHolds(run, w, j, s) ==
    run.status # "none" =>
        /\ run.known <= Len(j) /\ run.known <= run.window
        /\ \A k \in DOMAIN run.items : Fits(run.items[k], run.override, j, s)
        /\ Calm(w) => Distinct(run.items)
        /\ run.status = "DONE" => Covered(run, Judged(run.items), j) /\ StatsHold(run, run.stats, w, s)

(* What a pass has computed and not yet written, of the run it works on. *)
InsertHolds(items, run, w, j, s) ==
    /\ \A k \in DOMAIN items : Fits(items[k], run.override, j, s)
    /\ Len(items) < BatchSize => Covered(run, Judged(items) \cup Judged(run.items), j)
    /\ Calm(w) => Distinct(items) /\ Judged(items) \cap Judged(run.items) = {}
WorkHolds(pass, run, w, j, s) ==
    pass.at # "idle" =>
        /\ run.status # "none"
        /\ pass.at = "insert" => InsertHolds(pass.items, run, w, j, s)
        /\ pass.at \in {"count", "finish"} => Covered(run, Judged(run.items), j)
        /\ pass.at = "finish" => StatsHold(run, pass.stats, w, s)

(* No lease lapses under a pass: it works alone, on a run it holds. *)
LeaseLives(run) == run.status = "RUNNING" /\ run.lease = "live"
Solo ==
    Calm(replayWorld) => \A p \in ReplayPasses : passes[p].at # "idle" =>
        /\ LeaseLives(runs[passes[p].run])
        /\ \A q \in ReplayPasses : passes[q].at # "idle" /\ passes[q].run = passes[p].run => q = p
ReplayInv ==
    /\ ReplayShape /\ \A r \in Experiments : RunHolds(runs[r], replayWorld, journal, shadows)
    /\ \A p \in ReplayPasses :
         passes[p].at # "idle" => WorkHolds(passes[p], runs[passes[p].run], replayWorld, journal, shadows)
    /\ Solo

LEMMA ReplayStarts == ReplayInit => ReplayInv
<1> SUFFICES ASSUME ReplayInit PROVE ReplayInv
  OBVIOUS
<1>1. episodes = <<>> /\ journal = <<>> /\ shadows = <<>>
      /\ runs = [r \in Experiments |-> [status |-> "none"]] /\ passes = [p \in ReplayPasses |-> [at |-> "idle"]]
  BY DEF ReplayInit
<1>2. JournalShape
  BY <1>1 DEF JournalShape
<1>3. runs \in [Experiments -> RunRows \cup {NoRun}]
  BY <1>1 DEF NoRun
<1>4. passes \in [ReplayPasses -> PassRows]
  BY <1>1 DEF PassRows
<1>5. \A r \in Experiments : runs[r].status = "none"
  BY <1>1
<1>6. \A p \in ReplayPasses : passes[p].at = "idle"
  BY <1>1
<1> QED BY <1>2, <1>3, <1>4, <1>5, <1>6 DEF ReplayInv, ReplayShape, RunHolds, Solo

LEMMA ToldIs ==
    ASSUME NEW s \in Seq(ShadowRows)
    PROVE  IsFiniteSet(Told(s)) /\ \A e : e \in Told(s) <=> Tells(s, e)
<1> DEFINE closed == {i \in DOMAIN s : s[i].pos = "CLOSED"}
           said == {s[i].episode : i \in closed}
           says == [i \in closed |-> s[i].episode]
<1>1. DOMAIN s = 1 .. Len(s) /\ Len(s) \in Nat
  BY LenProperties
<1>2. IsFiniteSet(DOMAIN s)
  BY <1>1, FS_Interval
<1>3. IsFiniteSet(closed)
  BY <1>2, FS_Subset
<1>4. says \in Surjection(closed, said)
  BY DEF Surjection
<1>5. IsFiniteSet(said)
  BY <1>3, <1>4, FS_Surjection
<1>6. IsFiniteSet(said \ {0})
  BY <1>5, FS_Subset
<1> QED BY <1>6 DEF Told, Tells

LEMMA JournalIs ==
    ASSUME JournalShape
    PROVE  /\ DOMAIN journal = 1 .. Len(journal) /\ Len(journal) \in Nat
           /\ \A i \in DOMAIN journal : /\ journal[i] \in DecisionRows /\ journal[i].chain \in Chains
                                        /\ journal[i].base = Verdict(journal[i].chain, Threshold)
                                        /\ journal[i].kept \in BOOLEAN /\ journal[i].episode \in Nat
<1>1. journal \in Seq(DecisionRows)
  BY DEF JournalShape
<1>2. DOMAIN journal = 1 .. Len(journal) /\ Len(journal) \in Nat /\ \A i \in DOMAIN journal : journal[i] \in DecisionRows
  BY <1>1, LenProperties
<1>3. \A i \in DOMAIN journal : /\ journal[i].chain \in Chains /\ journal[i].kept \in BOOLEAN
                                /\ journal[i].episode \in Nat
  BY <1>2 DEF DecisionRows
<1> QED BY <1>2, <1>3 DEF JournalShape

LEMMA RunIs ==
    ASSUME ReplayInv, NEW r \in Experiments, runs[r].status # "none"
    PROVE  runs[r] \in RunRows /\ RunHolds(runs[r], replayWorld, journal, shadows)
<1>1. runs[r] \in RunRows \cup {NoRun}
  BY DEF ReplayInv, ReplayShape
<1>2. runs[r] # NoRun
  BY DEF NoRun
<1> QED BY <1>1, <1>2 DEF ReplayInv

LEMMA PassIs ==
    ASSUME ReplayInv, NEW p \in ReplayPasses, passes[p].at # "idle"
    PROVE  /\ passes[p] \in PassRows /\ passes[p].at \in {"batch", "count", "insert", "finish"}
           /\ passes[p].run \in Experiments
           /\ runs[passes[p].run].status # "none" /\ runs[passes[p].run] \in RunRows
           /\ RunHolds(runs[passes[p].run], replayWorld, journal, shadows)
           /\ WorkHolds(passes[p], runs[passes[p].run], replayWorld, journal, shadows)
           /\ passes[p].at = "insert" => passes[p].items \in Seq(ItemRows)
           /\ passes[p].at = "finish" => passes[p].stats \in Seq(Nat)
<1>1. passes[p] \in PassRows
  BY DEF ReplayInv, ReplayShape
<1>2. /\ passes[p].at \in {"batch", "count", "insert", "finish"} /\ passes[p].run \in Experiments
      /\ passes[p].at = "insert" => passes[p].items \in Seq(ItemRows)
      /\ passes[p].at = "finish" => passes[p].stats \in Seq(Nat)
  BY <1>1 DEF PassRows
<1>3. WorkHolds(passes[p], runs[passes[p].run], replayWorld, journal, shadows)
  BY DEF ReplayInv
<1>4. runs[passes[p].run].status # "none"
  BY <1>3 DEF WorkHolds
<1> QED BY <1>1, <1>2, <1>3, <1>4, RunIs

--------------------------------------------------------------------------
(* The journal and the shadows move under the runs: nothing an item has said
   of them is taken back. *)
Grows(j, k) ==
    /\ Len(j) <= Len(k)
    /\ \A i \in DOMAIN j : /\ k[i].chain = j[i].chain /\ k[i].episode = j[i].episode
                           /\ k[i].kept => j[i].kept
TellsKeep(s, t) == \A e : Tells(s, e) => Tells(t, e)

LEMMA FitsStay ==
    ASSUME NEW j \in Seq(DecisionRows), NEW k \in Seq(DecisionRows), Grows(j, k),
           NEW s, NEW t, TellsKeep(s, t), NEW item, NEW o, Fits(item, o, j, s)
    PROVE  Fits(item, o, k, t)
<1>1. /\ DOMAIN j = 1 .. Len(j) /\ Len(j) \in Nat /\ DOMAIN k = 1 .. Len(k) /\ Len(k) \in Nat
  BY LenProperties
<1>2. Len(j) <= Len(k)
  BY DEF Grows
<1>3. item.decision \in DOMAIN j /\ item.decision \in DOMAIN k
  BY <1>1, <1>2 DEF Fits
<1>4. k[item.decision].chain = j[item.decision].chain /\ k[item.decision].episode = j[item.decision].episode
  BY <1>3 DEF Grows
<1> QED BY <1>3, <1>4 DEF Fits, TellsKeep

LEMMA CoveredStays ==
    ASSUME NEW j \in Seq(DecisionRows), NEW k \in Seq(DecisionRows), Grows(j, k),
           NEW run \in RunRows, run.known <= Len(j), NEW judged, Covered(run, judged, j)
    PROVE  Covered(run, judged, k)
<1>1. DOMAIN j = 1 .. Len(j) /\ Len(j) \in Nat /\ run.known \in Nat
  BY LenProperties DEF RunRows
<1>2. \A i \in 1 .. run.known : i \in DOMAIN j
  BY <1>1
<1>3. \A i \in 1 .. run.known : k[i].kept => j[i].kept
  BY <1>2 DEF Grows
<1> QED BY <1>3 DEF Covered

LEMMA StatsStay ==
    ASSUME NEW s \in Seq(ShadowRows), NEW t \in Seq(ShadowRows), TellsKeep(s, t),
           NEW w, NEW run, NEW stats, StatsHold(run, stats, w, s)
    PROVE  StatsHold(run, stats, w, t)
<1>1. IsFiniteSet(Told(s)) /\ \A e : e \in Told(s) <=> Tells(s, e)
  BY ToldIs
<1>2. IsFiniteSet(Told(t)) /\ \A e : e \in Told(t) <=> Tells(t, e)
  BY ToldIs
<1>3. Told(s) \subseteq Told(t)
  BY <1>1, <1>2 DEF TellsKeep
<1>4. /\ Cardinality(Told(s)) \in Nat /\ Cardinality(Told(t)) \in Nat
      /\ Cardinality(Told(s)) <= Cardinality(Told(t))
  BY <1>1, <1>2, <1>3, FS_Subset, FS_CardinalityType
<1> QED BY <1>4 DEF StatsHold

LEMMA RunStays ==
    ASSUME NEW j \in Seq(DecisionRows), NEW k \in Seq(DecisionRows), Grows(j, k),
           NEW s \in Seq(ShadowRows), NEW t \in Seq(ShadowRows), TellsKeep(s, t),
           NEW w, NEW run \in RunRows, RunHolds(run, w, j, s), run.status # "none"
    PROVE  RunHolds(run, w, k, t)
<1>1. run.known <= Len(j) /\ run.known <= run.window /\ (Calm(w) => Distinct(run.items))
  BY DEF RunHolds
<1>2. run.known <= Len(k)
  <2>1. Len(j) \in Nat /\ Len(k) \in Nat /\ run.known \in Nat
    BY LenProperties DEF RunRows
  <2> QED BY <1>1, <2>1 DEF Grows
<1>3. \A n \in DOMAIN run.items : Fits(run.items[n], run.override, k, t)
  BY FitsStay DEF RunHolds
<1>4. run.status = "DONE" => Covered(run, Judged(run.items), k)
  BY <1>1, CoveredStays DEF RunHolds
<1>5. run.status = "DONE" => StatsHold(run, run.stats, w, t)
  BY StatsStay DEF RunHolds
<1> QED BY <1>1, <1>2, <1>3, <1>4, <1>5 DEF RunHolds

LEMMA WorkStays ==
    ASSUME NEW j \in Seq(DecisionRows), NEW k \in Seq(DecisionRows), Grows(j, k),
           NEW s \in Seq(ShadowRows), NEW t \in Seq(ShadowRows), TellsKeep(s, t),
           NEW w, NEW run \in RunRows, run.known <= Len(j), NEW pass, pass.at # "idle",
           WorkHolds(pass, run, w, j, s)
    PROVE  WorkHolds(pass, run, w, k, t)
<1>1. pass.at = "insert" => InsertHolds(pass.items, run, w, k, t)
  <2>1. SUFFICES ASSUME InsertHolds(pass.items, run, w, j, s) PROVE InsertHolds(pass.items, run, w, k, t)
    BY DEF WorkHolds
  <2>2. \A n \in DOMAIN pass.items : Fits(pass.items[n], run.override, k, t)
    BY <2>1, FitsStay DEF InsertHolds
  <2>3. Len(pass.items) < BatchSize => Covered(run, Judged(pass.items) \cup Judged(run.items), k)
    BY <2>1, CoveredStays DEF InsertHolds
  <2> QED BY <2>1, <2>2, <2>3 DEF InsertHolds
<1>2. pass.at \in {"count", "finish"} => Covered(run, Judged(run.items), k)
  BY CoveredStays DEF WorkHolds
<1>3. pass.at = "finish" => StatsHold(run, pass.stats, w, t)
  BY StatsStay DEF WorkHolds
<1> QED BY <1>1, <1>2, <1>3 DEF WorkHolds

LEMMA JournalMoves ==
    ASSUME ReplayInv, UNCHANGED <<replayWorld, runs, passes>>, JournalShape',
           Grows(journal, journal'), TellsKeep(shadows, shadows')
    PROVE  ReplayInv'
<1>1. /\ journal \in Seq(DecisionRows) /\ journal' \in Seq(DecisionRows)
      /\ shadows \in Seq(ShadowRows) /\ shadows' \in Seq(ShadowRows)
  BY DEF ReplayInv, ReplayShape, JournalShape
<1>2. ReplayShape'
  BY DEF ReplayInv, ReplayShape
<1>3. ASSUME NEW r \in Experiments PROVE RunHolds(runs[r], replayWorld, journal', shadows')
  <2>1. CASE runs[r].status = "none"
    BY <2>1 DEF RunHolds
  <2>2. CASE runs[r].status # "none"
    BY <1>1, <2>2, RunIs, RunStays
  <2> QED BY <2>1, <2>2
<1>4. ASSUME NEW p \in ReplayPasses, passes[p].at # "idle"
      PROVE  WorkHolds(passes[p], runs[passes[p].run], replayWorld, journal', shadows')
  <2>1. /\ runs[passes[p].run] \in RunRows /\ runs[passes[p].run].known <= Len(journal)
        /\ WorkHolds(passes[p], runs[passes[p].run], replayWorld, journal, shadows)
    BY <1>4, PassIs DEF RunHolds
  <2> QED BY <1>1, <1>4, <2>1, WorkStays
<1>5. Solo'
  BY DEF ReplayInv, Solo
<1> QED BY <1>2, <1>3, <1>4, <1>5 DEF ReplayInv

(* A step of a pass, on one run: the journal and the shadows stay. *)
Alone(p, r) == \A q \in ReplayPasses \ {p} : passes[q].at # "idle" => passes[q].run # r
Follows(old, new) ==
    /\ new.status # "none" /\ new.override = old.override /\ new.known = old.known
    /\ Judged(old.items) \subseteq Judged(new.items)

LEMMA WorkFollows ==
    ASSUME NEW w, ~Calm(w), NEW old, NEW new, Follows(old, new), NEW j, NEW s, NEW pass,
           WorkHolds(pass, old, w, j, s)
    PROVE  WorkHolds(pass, new, w, j, s)
<1>1. /\ new.status # "none" /\ new.override = old.override /\ new.known = old.known
      /\ Judged(old.items) \subseteq Judged(new.items)
  BY DEF Follows
<1>2. ASSUME NEW more, Covered(old, more \cup Judged(old.items), j)
      PROVE  Covered(new, more \cup Judged(new.items), j)
  BY <1>1, <1>2 DEF Covered
<1>3. Covered(old, Judged(old.items), j) => Covered(new, Judged(new.items), j)
  BY <1>1 DEF Covered
<1>4. ASSUME NEW items, InsertHolds(items, old, w, j, s) PROVE InsertHolds(items, new, w, j, s)
  BY <1>1, <1>2, <1>4 DEF InsertHolds
<1>5. ASSUME NEW stats, StatsHold(old, stats, w, s) PROVE StatsHold(new, stats, w, s)
  BY <1>5 DEF StatsHold
<1> QED BY <1>1, <1>3, <1>4, <1>5 DEF WorkHolds

LEMMA RunsMove ==
    ASSUME ReplayInv, UNCHANGED <<replayWorld, episodes, journal, shadows>>,
           NEW r \in Experiments, NEW run \in RunRows, runs' = [runs EXCEPT ![r] = run],
           RunHolds(run, replayWorld, journal, shadows),
           passes' \in [ReplayPasses -> PassRows],
           \A p \in ReplayPasses : passes'[p].at # "idle" =>
               WorkHolds(passes'[p], runs'[passes'[p].run], replayWorld, journal, shadows),
           Solo'
    PROVE  ReplayInv'
<1>1. runs \in [Experiments -> RunRows \cup {NoRun}]
  BY DEF ReplayInv, ReplayShape
<1>2. runs' \in [Experiments -> RunRows \cup {NoRun}]
  BY <1>1
<1>3. ASSUME NEW q \in Experiments PROVE RunHolds(runs'[q], replayWorld, journal, shadows)
  <2>1. CASE q = r
    <3>1. runs'[q] = run
      BY <1>1, <2>1
    <3> QED BY <3>1
  <2>2. CASE q # r
    <3>1. runs'[q] = runs[q]
      BY <1>1, <2>2
    <3> QED BY <3>1 DEF ReplayInv
  <2> QED BY <2>1, <2>2
<1>4. JournalShape'
  BY DEF ReplayInv, ReplayShape, JournalShape
<1>5. ReplayShape'
  BY <1>2, <1>4 DEF ReplayShape
<1>6. replayWorld' = replayWorld /\ journal' = journal /\ shadows' = shadows
  OBVIOUS
<1> QED BY <1>3, <1>5, <1>6 DEF ReplayInv

LEMMA PassMoves ==
    ASSUME ReplayInv, UNCHANGED <<replayWorld, episodes, journal, shadows>>,
           NEW p \in ReplayPasses, NEW r \in Experiments, runs[r].status # "none",
           NEW run \in RunRows, runs' = [runs EXCEPT ![r] = run], Follows(runs[r], run),
           RunHolds(run, replayWorld, journal, shadows),
           NEW pass \in PassRows, passes' = [passes EXCEPT ![p] = pass],
           pass.at # "idle" => pass.run = r /\ WorkHolds(pass, run, replayWorld, journal, shadows),
           Calm(replayWorld) => Alone(p, r) /\ (pass.at # "idle" => LeaseLives(run))
    PROVE  ReplayInv'
<1>1. runs \in [Experiments -> RunRows \cup {NoRun}] /\ passes \in [ReplayPasses -> PassRows]
  BY DEF ReplayInv, ReplayShape
<1>2. passes' \in [ReplayPasses -> PassRows]
  BY <1>1
<1>3. passes'[p] = pass /\ \A q \in ReplayPasses \ {p} : passes'[q] = passes[q]
  BY <1>1
<1>4. runs'[r] = run /\ \A q \in Experiments \ {r} : runs'[q] = runs[q]
  BY <1>1
<1>5. ASSUME NEW q \in ReplayPasses, passes'[q].at # "idle"
      PROVE  WorkHolds(passes'[q], runs'[passes'[q].run], replayWorld, journal, shadows)
  <2>1. CASE q = p
    BY <1>3, <1>4, <1>5, <2>1
  <2>2. CASE q # p /\ passes[q].run = r
    <3>1. passes'[q] = passes[q]
      BY <1>3, <2>2
    <3>2. WorkHolds(passes[q], runs[r], replayWorld, journal, shadows)
      BY <1>5, <2>2, <3>1, PassIs
    <3>3. ~Calm(replayWorld)
      BY <1>5, <2>2, <3>1 DEF Alone
    <3>4. WorkHolds(passes[q], run, replayWorld, journal, shadows)
      BY <3>2, <3>3, WorkFollows
    <3> QED BY <1>4, <2>2, <3>1, <3>4
  <2>3. CASE q # p /\ passes[q].run # r
    <3>1. passes'[q] = passes[q]
      BY <1>3, <2>3
    <3>2. /\ WorkHolds(passes[q], runs[passes[q].run], replayWorld, journal, shadows)
          /\ passes[q].run \in Experiments
      BY <1>5, <3>1, PassIs
    <3>3. runs'[passes[q].run] = runs[passes[q].run]
      BY <1>4, <2>3, <3>2
    <3> QED BY <3>1, <3>2, <3>3
  <2> QED BY <2>1, <2>2, <2>3
<1>6. Solo'
  <2>1. SUFFICES ASSUME Calm(replayWorld), NEW q \in ReplayPasses, passes'[q].at # "idle"
                 PROVE  /\ LeaseLives(runs'[passes'[q].run])
                        /\ \A o \in ReplayPasses : passes'[o].at # "idle" /\ passes'[o].run = passes'[q].run => o = q
    BY DEF Solo
  <2>2. \A o \in ReplayPasses \ {p} : passes[o].at # "idle" => passes[o].run # r
    BY <2>1 DEF Alone
  <2>3. CASE q = p
    <3>1. pass.at # "idle" /\ pass.run = r /\ LeaseLives(run)
      BY <1>3, <2>1, <2>3
    <3> QED BY <1>3, <1>4, <2>2, <2>3, <3>1
  <2>4. CASE q # p
    <3>1. passes'[q] = passes[q] /\ passes[q].run # r
      BY <1>3, <2>1, <2>2, <2>4
    <3>2. passes[q].run \in Experiments
      BY <2>1, <3>1, PassIs
    <3>3. runs'[passes[q].run] = runs[passes[q].run]
      BY <1>4, <3>1, <3>2
    <3>4. /\ LeaseLives(runs[passes[q].run])
          /\ \A o \in ReplayPasses : passes[o].at # "idle" /\ passes[o].run = passes[q].run => o = q
      BY <2>1, <3>1 DEF ReplayInv, Solo
    <3>5. ASSUME NEW o \in ReplayPasses, passes'[o].at # "idle", passes'[o].run = passes'[q].run PROVE o = q
      <4>1. o # p
        BY <1>3, <3>1, <3>5
      <4> QED BY <1>3, <3>1, <3>4, <3>5, <4>1
    <3> QED BY <3>1, <3>3, <3>4, <3>5
  <2> QED BY <2>3, <2>4
<1> QED BY <1>2, <1>5, <1>6, RunsMove

--------------------------------------------------------------------------
(* Each step of the journal and of the shadows. *)

LEMMA VerdictTyped == ASSUME NEW c \in Chains, NEW t PROVE Verdict(c, t) \in Outcomes
  BY DEF Verdict, Outcomes

LEMMA ResolveIs ==
    ASSUME JournalShape, NEW found, found = ResolveEpisode
    PROVE  /\ found \in Seq({"OPEN", "ALLOWED", "lapsed"}) /\ Len(found) \in Nat
           /\ [found EXCEPT ![Len(found)] = "ALLOWED"] \in Seq({"OPEN", "ALLOWED", "lapsed"})
<1>1. episodes \in Seq({"OPEN", "ALLOWED", "lapsed"})
  BY DEF JournalShape
<1>2. found \in Seq({"OPEN", "ALLOWED", "lapsed"})
  <2>1. Append(episodes, "OPEN") \in Seq({"OPEN", "ALLOWED", "lapsed"})
    BY <1>1, AppendProperties
  <2> QED BY <1>1, <2>1 DEF ResolveEpisode
<1>3. Len(found) \in 1 .. Len(found)
  <2>1. HasOpen => Len(episodes) \in 1 .. Len(episodes)
    BY <1>1, EmptySeq, LenProperties DEF HasOpen
  <2>2. Len(Append(episodes, "OPEN")) = Len(episodes) + 1 /\ Len(episodes) \in Nat
    BY <1>1, AppendProperties, LenProperties
  <2> QED BY <2>1, <2>2 DEF ResolveEpisode
<1> DEFINE allowed == "ALLOWED"
<1>4. allowed \in {"OPEN", "ALLOWED", "lapsed"}
  OBVIOUS
<1> HIDE DEF allowed
<1>5. [found EXCEPT ![Len(found)] = allowed] \in Seq({"OPEN", "ALLOWED", "lapsed"})
  BY <1>2, <1>3, <1>4, ExceptSeq
<1> QED BY <1>2, <1>5, LenProperties DEF allowed

LEMMA AppendGrows ==
    ASSUME NEW j \in Seq(DecisionRows), NEW row \in DecisionRows
    PROVE  /\ Append(j, row) \in Seq(DecisionRows) /\ Grows(j, Append(j, row))
           /\ \A i \in DOMAIN Append(j, row) : Append(j, row)[i] = row \/ (i \in DOMAIN j /\ Append(j, row)[i] = j[i])
<1>1. /\ Append(j, row) \in Seq(DecisionRows) /\ Len(Append(j, row)) = Len(j) + 1
      /\ Append(j, row)[Len(j) + 1] = row /\ \A i \in 1 .. Len(j) : Append(j, row)[i] = j[i]
  BY AppendProperties
<1>2. DOMAIN j = 1 .. Len(j) /\ Len(j) \in Nat /\ DOMAIN Append(j, row) = 1 .. Len(Append(j, row))
  BY <1>1, LenProperties
<1>3. Grows(j, Append(j, row))
  BY <1>1, <1>2 DEF Grows
<1> QED BY <1>1, <1>2, <1>3

LEMMA GrowsItself == ASSUME NEW j \in Seq(DecisionRows) PROVE Grows(j, j)
<1>1. Len(j) \in Nat
  BY LenProperties
<1> QED BY <1>1 DEF Grows

(* A row as it is written: of a chain, linked to an episode or to none. *)
IsDecision(row) == row \in DecisionRows /\ row.base = Verdict(row.chain, Threshold) /\ row.kept

LEMMA NewDecision ==
    ASSUME ReplayInv, NEW row, IsDecision(row), journal' = Append(journal, row),
           episodes' \in Seq({"OPEN", "ALLOWED", "lapsed"}), UNCHANGED <<replayWorld, shadows>>
    PROVE  JournalShape' /\ Grows(journal, journal')
<1>1. row \in DecisionRows /\ row.base = Verdict(row.chain, Threshold) /\ row.kept
  BY DEF IsDecision
<1>2. /\ journal \in Seq(DecisionRows) /\ shadows \in Seq(ShadowRows)
      /\ \A i \in DOMAIN journal : journal[i].base = Verdict(journal[i].chain, Threshold)
      /\ "prune" \notin replayWorld => \A i \in DOMAIN journal : journal[i].kept
  BY DEF ReplayInv, ReplayShape, JournalShape
<1>3. journal' = Append(journal, row)
  OBVIOUS
<1>4. /\ journal' \in Seq(DecisionRows) /\ Grows(journal, journal')
      /\ \A i \in DOMAIN journal' : journal'[i] = row \/ (i \in DOMAIN journal /\ journal'[i] = journal[i])
  BY <1>1, <1>2, <1>3, AppendGrows
<1>5. \A i \in DOMAIN journal' : journal'[i].base = Verdict(journal'[i].chain, Threshold)
  BY <1>1, <1>2, <1>4
<1>6. "prune" \notin replayWorld' => \A i \in DOMAIN journal' : journal'[i].kept
  BY <1>1, <1>2, <1>4
<1> QED BY <1>2, <1>4, <1>5, <1>6 DEF JournalShape

LEMMA RecordIs ==
    ASSUME NEW c \in Chains, RecordDecision(c), Len(ResolveEpisode) \in Nat
    PROVE  /\ UNCHANGED <<replayWorld, shadows, runs, passes>>
           /\ \/ /\ \E row : IsDecision(row) /\ journal' = Append(journal, row)
                 /\ \/ episodes' = [ResolveEpisode EXCEPT ![Len(ResolveEpisode)] = "ALLOWED"]
                    \/ episodes' = ResolveEpisode
                    \/ UNCHANGED episodes
              \/ UNCHANGED journal /\ episodes' = ResolveEpisode
<1> DEFINE found == ResolveEpisode
           base == Verdict(c, Threshold)
           row == [chain |-> c, base |-> base, episode |-> Len(found), kept |-> TRUE]
           unlinked == [row EXCEPT !.episode = 0]
<1>1. /\ UNCHANGED <<replayWorld, shadows, runs, passes>>
      /\ \/ /\ journal' = Append(journal, row)
            /\ episodes' = IF base = "ALLOW" THEN [found EXCEPT ![Len(found)] = "ALLOWED"] ELSE found
         \/ journal' = Append(journal, unlinked) /\ UNCHANGED episodes
         \/ UNCHANGED journal /\ episodes' = found
  BY DEF RecordDecision
<1>2. base \in Outcomes /\ Len(found) \in Nat
  BY VerdictTyped
<1> HIDE DEF found, base
<1>3. row \in DecisionRows /\ unlinked \in DecisionRows
  BY <1>2 DEF DecisionRows
<1>4. row.base = base /\ row.chain = c /\ row.kept
  OBVIOUS
<1>5. unlinked.base = base /\ unlinked.chain = c /\ unlinked.kept
  OBVIOUS
<1> HIDE DEF row, unlinked
<1>6. IsDecision(row) /\ IsDecision(unlinked)
  BY <1>3, <1>4, <1>5 DEF IsDecision, base
<1> QED BY <1>1, <1>6 DEF found

LEMMA RecordStep == ASSUME ReplayInv, NEW c \in Chains, RecordDecision(c) PROVE ReplayInv'
<1> DEFINE found == ResolveEpisode
<1>1. JournalShape
  BY DEF ReplayInv, ReplayShape
<1>2. /\ found \in Seq({"OPEN", "ALLOWED", "lapsed"}) /\ Len(found) \in Nat
      /\ [found EXCEPT ![Len(found)] = "ALLOWED"] \in Seq({"OPEN", "ALLOWED", "lapsed"})
  BY <1>1, ResolveIs
<1>3. /\ UNCHANGED <<replayWorld, shadows, runs, passes>>
      /\ \/ /\ \E row : IsDecision(row) /\ journal' = Append(journal, row)
            /\ \/ episodes' = [found EXCEPT ![Len(found)] = "ALLOWED"]
               \/ episodes' = found
               \/ UNCHANGED episodes
         \/ UNCHANGED journal /\ episodes' = found
  BY <1>2, RecordIs
<1>5. episodes \in Seq({"OPEN", "ALLOWED", "lapsed"}) /\ journal \in Seq(DecisionRows)
  BY <1>1 DEF JournalShape
<1> HIDE DEF found
<1>7. episodes' \in Seq({"OPEN", "ALLOWED", "lapsed"})
  BY <1>2, <1>3, <1>5
<1>8. ASSUME NEW row, IsDecision(row), journal' = Append(journal, row)
      PROVE  JournalShape' /\ Grows(journal, journal')
  BY <1>3, <1>7, <1>8, NewDecision
<1>9. ASSUME UNCHANGED journal PROVE JournalShape' /\ Grows(journal, journal')
  <2>1. JournalShape'
    BY <1>1, <1>3, <1>7, <1>9 DEF JournalShape
  <2>2. Grows(journal, journal')
    BY <1>5, <1>9, GrowsItself
  <2> QED BY <2>1, <2>2
<1>10. JournalShape' /\ Grows(journal, journal')
  BY <1>3, <1>8, <1>9
<1>11. TellsKeep(shadows, shadows')
  BY <1>3 DEF TellsKeep
<1> QED BY <1>3, <1>10, <1>11, JournalMoves

LEMMA EpisodeLapsesStep == ASSUME ReplayInv, EpisodeLapses PROVE ReplayInv'
<1>1. JournalShape /\ episodes \in Seq({"OPEN", "ALLOWED", "lapsed"}) /\ journal \in Seq(DecisionRows)
  BY DEF ReplayInv, ReplayShape, JournalShape
<1>2. UNCHANGED <<replayWorld, journal, shadows, runs, passes>>
      /\ episodes' = [episodes EXCEPT ![Len(episodes)] = "lapsed"]
  BY DEF EpisodeLapses
<1>3. episodes' \in Seq({"OPEN", "ALLOWED", "lapsed"})
  <2> DEFINE gone == "lapsed"
  <2>1. gone \in {"OPEN", "ALLOWED", "lapsed"} /\ episodes' = [episodes EXCEPT ![Len(episodes)] = gone]
    BY <1>2
  <2> HIDE DEF gone
  <2>2. Len(episodes) \in 1 .. Len(episodes)
    BY <1>1, EmptySeq, LenProperties DEF EpisodeLapses, HasOpen
  <2> QED BY <1>1, <2>1, <2>2, ExceptSeq
<1>4. JournalShape'
  BY <1>1, <1>2, <1>3 DEF JournalShape
<1>5. Grows(journal, journal') /\ TellsKeep(shadows, shadows')
  BY <1>1, <1>2, GrowsItself DEF TellsKeep
<1> QED BY <1>2, <1>4, <1>5, JournalMoves

LEMMA PruneStep == ASSUME ReplayInv, PruneJournal PROVE ReplayInv'
<1>1. PICK i \in DOMAIN journal : journal' = [journal EXCEPT ![i].kept = FALSE]
  BY DEF PruneJournal
<1>2. UNCHANGED <<replayWorld, episodes, shadows, runs, passes>> /\ "prune" \in replayWorld
  BY DEF PruneJournal, ReplayFaulty
<1>3. JournalShape
  BY DEF ReplayInv, ReplayShape
<1>4. /\ journal \in Seq(DecisionRows) /\ journal[i] \in DecisionRows
      /\ episodes \in Seq({"OPEN", "ALLOWED", "lapsed"}) /\ shadows \in Seq(ShadowRows)
      /\ \A k \in DOMAIN journal : journal[k].base = Verdict(journal[k].chain, Threshold)
  BY <1>3, JournalIs DEF JournalShape
<1> DEFINE row == [journal[i] EXCEPT !.kept = FALSE]
<1>5. /\ row \in DecisionRows /\ row.chain = journal[i].chain /\ row.episode = journal[i].episode
      /\ row.base = journal[i].base /\ ~row.kept
  BY <1>4 DEF DecisionRows
<1>6. journal' = [journal EXCEPT ![i] = row]
  BY <1>1
<1> HIDE DEF row
<1>7. /\ journal' \in Seq(DecisionRows) /\ Len(journal') = Len(journal) /\ DOMAIN journal' = DOMAIN journal
      /\ journal'[i] = row /\ \A k \in DOMAIN journal \ {i} : journal'[k] = journal[k]
  <2>1. journal' \in Seq(DecisionRows) /\ Len(journal') = Len(journal)
        /\ \A k \in 1 .. Len(journal) : journal'[k] = IF k = i THEN row ELSE journal[k]
    BY <1>4, <1>5, <1>6, ExceptSeq
  <2>2. DOMAIN journal = 1 .. Len(journal) /\ DOMAIN journal' = 1 .. Len(journal')
    BY <1>4, <2>1, LenProperties
  <2> QED BY <2>1, <2>2
<1>8. Grows(journal, journal')
  <2>1. Len(journal) \in Nat
    BY <1>4, LenProperties
  <2> QED BY <1>5, <1>7, <2>1 DEF Grows
<1>9. \A k \in DOMAIN journal' : journal'[k].base = Verdict(journal'[k].chain, Threshold)
  BY <1>4, <1>5, <1>7
<1>10. JournalShape'
  BY <1>2, <1>4, <1>7, <1>9 DEF JournalShape
<1>11. TellsKeep(shadows, shadows')
  BY <1>2 DEF TellsKeep
<1> QED BY <1>2, <1>8, <1>10, <1>11, JournalMoves

LEMMA CaptureStep == ASSUME ReplayInv, CaptureShadow PROVE ReplayInv'
<1> DEFINE row == [decision |-> Len(journal), episode |-> Last(journal).episode, pos |-> "OPEN"]
<1>1. /\ journal # <<>> /\ shadows' = Append(shadows, row)
      /\ UNCHANGED <<replayWorld, episodes, journal, runs, passes>>
  BY DEF CaptureShadow
<1>2. JournalShape /\ journal \in Seq(DecisionRows) /\ shadows \in Seq(ShadowRows)
  BY DEF ReplayInv, ReplayShape, JournalShape
<1>3. Last(journal) \in DecisionRows /\ Len(journal) \in Nat
  <2>1. Len(journal) \in 1 .. Len(journal) /\ Len(journal) \in Nat
    BY <1>1, <1>2, LenProperties, EmptySeq
  <2> QED BY <1>2, <2>1, LenProperties DEF Last
<1>4. row \in ShadowRows
  BY <1>3 DEF ShadowRows, DecisionRows
<1> HIDE DEF row
<1>5. /\ shadows' \in Seq(ShadowRows) /\ DOMAIN shadows \subseteq DOMAIN shadows'
      /\ \A k \in DOMAIN shadows : shadows'[k] = shadows[k]
  <2>1. /\ shadows' \in Seq(ShadowRows) /\ Len(shadows') = Len(shadows) + 1
        /\ \A k \in 1 .. Len(shadows) : shadows'[k] = shadows[k]
    BY <1>1, <1>2, <1>4, AppendProperties
  <2>2. DOMAIN shadows = 1 .. Len(shadows) /\ DOMAIN shadows' = 1 .. Len(shadows') /\ Len(shadows) \in Nat
    BY <1>2, <2>1, LenProperties
  <2> QED BY <2>1, <2>2
<1>6. TellsKeep(shadows, shadows')
  BY <1>5 DEF TellsKeep, Tells
<1>7. JournalShape'
  BY <1>1, <1>2, <1>5 DEF JournalShape
<1>8. Grows(journal, journal')
  BY <1>1, <1>2, GrowsItself
<1> QED BY <1>1, <1>6, <1>7, <1>8, JournalMoves

LEMMA SimulateStep == ASSUME ReplayInv, NEW s \in DOMAIN shadows, SimulateShadow(s) PROVE ReplayInv'
<1>1. PICK pos \in {"CLOSED", "INVALIDATED"} : shadows' = [shadows EXCEPT ![s].pos = pos]
  BY DEF SimulateShadow
<1>2. shadows[s].pos = "OPEN" /\ UNCHANGED <<replayWorld, episodes, journal, runs, passes>>
  BY DEF SimulateShadow
<1>3. JournalShape /\ journal \in Seq(DecisionRows) /\ shadows \in Seq(ShadowRows)
  BY DEF ReplayInv, ReplayShape, JournalShape
<1>4. shadows[s] \in ShadowRows /\ DOMAIN shadows = 1 .. Len(shadows)
  BY <1>3, LenProperties
<1> DEFINE row == [shadows[s] EXCEPT !.pos = pos]
<1>5. row \in ShadowRows
  BY <1>4 DEF ShadowRows
<1>6. shadows' = [shadows EXCEPT ![s] = row]
  BY <1>1
<1> HIDE DEF row
<1>7. /\ shadows' \in Seq(ShadowRows) /\ DOMAIN shadows' = DOMAIN shadows
      /\ \A k \in DOMAIN shadows \ {s} : shadows'[k] = shadows[k]
  <2>1. /\ shadows' \in Seq(ShadowRows) /\ Len(shadows') = Len(shadows)
        /\ \A k \in 1 .. Len(shadows) : shadows'[k] = IF k = s THEN row ELSE shadows[k]
    BY <1>3, <1>5, <1>6, ExceptSeq
  <2>2. DOMAIN shadows' = 1 .. Len(shadows')
    BY <2>1, LenProperties
  <2> QED BY <1>4, <2>1, <2>2
<1>8. TellsKeep(shadows, shadows')
  <2>1. \A k \in DOMAIN shadows : shadows[k].pos = "CLOSED" => k # s
    BY <1>2
  <2> QED BY <1>7, <2>1 DEF TellsKeep, Tells
<1>9. JournalShape'
  BY <1>2, <1>3, <1>7 DEF JournalShape
<1>10. Grows(journal, journal')
  BY <1>2, <1>3, GrowsItself
<1> QED BY <1>2, <1>8, <1>9, <1>10, JournalMoves

--------------------------------------------------------------------------
(* What a batch computes. *)

CoreRows == [verdict : {"NOT_REPLAYABLE", "REPRODUCED", "CHANGED"}, newOutcome : Outcomes \cup {""},
             followed : BOOLEAN]

LEMMA ItemTyped ==
    ASSUME NEW verdict \in {"NOT_REPLAYABLE", "REPRODUCED", "CHANGED"}, NEW said \in Outcomes \cup {""}
    PROVE  Item(verdict, said, TRUE) \in CoreRows /\ Item(verdict, said, FALSE) \in CoreRows
  BY DEF Item, CoreRows

LEMMA ValidatedTyped == ASSUME NEW trace, NEW base \in Outcomes PROVE Validated(trace, base) \in CoreRows
  BY ItemTyped DEF Validated, NotReplayable

LEMMA RemainderTyped == ASSUME NEW rest PROVE Remainder(rest) \in CoreRows
<1>1. NotReplayable \in CoreRows
  BY ItemTyped DEF NotReplayable
<1>2. /\ Item("CHANGED", "REJECT", TRUE) \in CoreRows /\ Item("CHANGED", "", FALSE) \in CoreRows
      /\ Item("CHANGED", "WAIT", TRUE) \in CoreRows /\ Item("CHANGED", "ALLOW", TRUE) \in CoreRows
  BY ItemTyped DEF Outcomes
<1>3. \A x : Item("CHANGED", IF x THEN "WAIT" ELSE "ALLOW", TRUE) \in CoreRows
  BY ItemTyped DEF Outcomes
<1> QED BY <1>1, <1>2, <1>3 DEF Remainder

LEMMA CoreTyped ==
    ASSUME NEW trace, NEW base \in Outcomes, NEW o PROVE ReplayTraceCore(trace, base, o) \in CoreRows
<1>1. NotReplayable \in CoreRows
  BY ItemTyped DEF NotReplayable
<1>2. Item("REPRODUCED", base, TRUE) \in CoreRows /\ Item("CHANGED", "REJECT", TRUE) \in CoreRows
  BY ItemTyped DEF Outcomes
<1>3. Validated(trace, base) \in CoreRows
  BY ValidatedTyped
<1>4. \A i : Remainder(SubSeq(trace, i, Len(trace))) \in CoreRows
  BY RemainderTyped
<1> QED BY <1>1, <1>2, <1>3, <1>4 DEF ReplayTraceCore

(* An open decision of a run: in the journal, and no item of the run is about it. *)
LEMMA UnjudgedIs ==
    ASSUME ReplayInv, NEW r
    PROVE  /\ Unjudged(r) \subseteq Nat /\ IsFiniteSet(Unjudged(r)) /\ Unjudged(r) \subseteq DOMAIN journal
           /\ Judged(runs[r].items) \cap Unjudged(r) = {}
<1>1. DOMAIN journal = 1 .. Len(journal) /\ Len(journal) \in Nat
  BY JournalIs DEF ReplayInv, ReplayShape
<1>2. Unjudged(r) \subseteq DOMAIN journal
  BY DEF Unjudged
<1>3. IsFiniteSet(DOMAIN journal)
  BY <1>1, FS_Interval
<1>4. IsFiniteSet(Unjudged(r))
  BY <1>2, <1>3, FS_Subset
<1>5. Judged(runs[r].items) \cap Unjudged(r) = {}
  BY DEF Judged, Unjudged
<1>6. Unjudged(r) \subseteq Nat
  BY <1>1, <1>2
<1> QED BY <1>2, <1>4, <1>5, <1>6

LEMMA ItemFits ==
    ASSUME ReplayInv, NEW r \in Experiments, runs[r].status # "none", NEW i \in Unjudged(r)
    PROVE  /\ ComputeReplayItem(r, i) \in ItemRows /\ ComputeReplayItem(r, i).decision = i
           /\ Fits(ComputeReplayItem(r, i), runs[r].override, journal, shadows)
<1> DEFINE d == journal[i]
           o == runs[r].override
           item == Replayed[d.chain][o]
           counts == (IF item.verdict = "NOT_REPLAYABLE" THEN 0 ELSE Admits(item.newOutcome) - Admits(d.base)) # 0
                         /\ HasOutcome(d.episode)
           row == [verdict |-> item.verdict, newOutcome |-> item.newOutcome, followed |-> item.followed,
                   decision |-> i, effect |-> counts]
<1>1. i \in DOMAIN journal /\ i \in Nat
  BY UnjudgedIs
<1>2. /\ d.chain \in Chains /\ d.base = Verdict(d.chain, Threshold)
  BY <1>1, JournalIs DEF ReplayInv, ReplayShape
<1>3. o \in Overrides
  BY RunIs DEF RunRows
<1>4. item = ReplayTraceCore(Trace(d.chain), Verdict(d.chain, Threshold), o)
  BY <1>2, <1>3, ReplayedIs
<1>5. Honest(item, d.chain, o)
  BY <1>2, <1>3, <1>4, ReplayIsHonest
<1>6. item \in CoreRows
  BY <1>2, <1>4, CoreTyped, VerdictTyped
<1>7. ComputeReplayItem(r, i) = row
  BY DEF ComputeReplayItem
<1>8. counts \in BOOLEAN /\ (counts => Tells(shadows, d.episode))
  BY DEF HasOutcome, Tells
<1> HIDE DEF d, o, item, counts
<1>9. row \in ItemRows
  BY <1>1, <1>6, <1>8 DEF CoreRows, ItemRows
<1>10. /\ row.verdict = item.verdict /\ row.newOutcome = item.newOutcome /\ row.followed = item.followed
       /\ row.decision = i /\ (row.effect <=> counts)
  OBVIOUS
<1> HIDE DEF row
<1>11. Honest(row, d.chain, o)
  BY <1>5, <1>10 DEF Honest
<1>12. Fits(row, o, journal, shadows)
  BY <1>1, <1>8, <1>10, <1>11 DEF Fits, d
<1> QED BY <1>7, <1>9, <1>10, <1>12 DEF o

LEMMA JudgedIs ==
    ASSUME NEW items, NEW i
    PROVE  i \in Judged(items) <=> \E k \in DOMAIN items : items[k].decision = i
  BY DEF Judged

LEMMA BatchItems ==
    ASSUME ReplayInv, NEW r \in Experiments, runs[r].status # "none",
           NEW some, some = NextBatch(r), NEW items,
           items = [k \in DOMAIN some |-> ComputeReplayItem(r, some[k])]
    PROVE  /\ items \in Seq(ItemRows) /\ InsertHolds(items, runs[r], replayWorld, journal, shadows)
           /\ some = <<>> => Covered(runs[r], Judged(runs[r].items), journal)
<1>1. /\ Unjudged(r) \subseteq Nat /\ IsFiniteSet(Unjudged(r)) /\ Unjudged(r) \subseteq DOMAIN journal
      /\ Judged(runs[r].items) \cap Unjudged(r) = {}
  BY UnjudgedIs
<1>13. PICK m \in Nat : IsBatch(some, m, Unjudged(r))
  BY <1>1, BatchIs
<1>2. /\ DOMAIN some = 1 .. m /\ m <= BatchSize
      /\ \A n \in 1 .. m : some[n] \in Unjudged(r)
      /\ \A n, k \in 1 .. m : some[n] = some[k] => n = k
      /\ m < BatchSize => \A i \in Unjudged(r) : \E n \in 1 .. m : some[n] = i
      /\ some = <<>> => Unjudged(r) = {}
  BY <1>13 DEF IsBatch
<1>3. DOMAIN items = 1 .. m /\ \A k \in 1 .. m : items[k] = ComputeReplayItem(r, some[k])
  BY <1>2
<1>4. \A k \in 1 .. m : /\ items[k] \in ItemRows /\ items[k].decision = some[k]
                        /\ Fits(items[k], runs[r].override, journal, shadows)
  BY <1>2, <1>3, ItemFits
<1>5. items \in Seq(ItemRows) /\ Len(items) = m
  <2>1. items = [k \in 1 .. m |-> ComputeReplayItem(r, some[k])]
    BY <1>2
  <2>2. items \in [1 .. m -> ItemRows]
    BY <1>4, <2>1, <1>3
  <2>3. items \in Seq(ItemRows)
    BY <2>2, SeqDef
  <2>4. Len(items) \in Nat /\ DOMAIN items = 1 .. Len(items)
    BY <2>3, LenProperties
  <2> QED BY <1>3, <2>3, <2>4
<1>6. /\ runs[r] \in RunRows /\ runs[r].known <= Len(journal) /\ runs[r].known <= runs[r].window
      /\ runs[r].window \in Nat /\ runs[r].known \in Nat
  BY RunIs DEF RunHolds, RunRows
<1>7. ASSUME NEW i \in 1 .. runs[r].known, journal[i].kept, i \notin Judged(runs[r].items)
      PROVE  i \in Unjudged(r)
  <2>1. i \in DOMAIN journal /\ i <= runs[r].window
    <3>1. DOMAIN journal = 1 .. Len(journal) /\ Len(journal) \in Nat
      BY JournalIs DEF ReplayInv, ReplayShape
    <3> QED BY <1>6, <3>1
  <2> QED BY <1>7, <2>1 DEF Unjudged, Judged
<1>8. some = <<>> => Covered(runs[r], Judged(runs[r].items), journal)
  BY <1>2, <1>7 DEF Covered
<1>9. m < BatchSize => Covered(runs[r], Judged(items) \cup Judged(runs[r].items), journal)
  <2>1. SUFFICES ASSUME m < BatchSize, NEW i \in 1 .. runs[r].known, journal[i].kept,
                        i \notin Judged(runs[r].items)
                 PROVE  i \in Judged(items)
    BY DEF Covered
  <2>2. PICK n \in 1 .. m : some[n] = i
    BY <1>2, <1>7, <2>1
  <2> QED BY <1>3, <1>4, <2>2, JudgedIs
<1>10. Distinct(items)
  BY <1>2, <1>3, <1>4 DEF Distinct
<1>11. Judged(items) \cap Judged(runs[r].items) = {}
  BY <1>1, <1>2, <1>3, <1>4 DEF Judged
<1>12. \A k \in DOMAIN items : Fits(items[k], runs[r].override, journal, shadows)
  BY <1>3, <1>4
<1> QED BY <1>5, <1>8, <1>9, <1>10, <1>11, <1>12 DEF InsertHolds

Joins(s, t, both) ==
    /\ both \in Seq(ItemRows) /\ Judged(both) = Judged(s) \cup Judged(t)
    /\ \A k \in DOMAIN both : (\E i \in DOMAIN s : both[k] = s[i]) \/ (\E i \in DOMAIN t : both[k] = t[i])
    /\ Distinct(s) /\ Distinct(t) /\ Judged(t) \cap Judged(s) = {} => Distinct(both)

LEMMA JoinIs ==
    ASSUME NEW s \in Seq(ItemRows), NEW t \in Seq(ItemRows), NEW both, both = s \o t
    PROVE  Joins(s, t, both)
<1>1. /\ both \in Seq(ItemRows) /\ Len(both) = Len(s) + Len(t)
      /\ \A k \in 1 .. Len(s) + Len(t) : both[k] = IF k <= Len(s) THEN s[k] ELSE t[k - Len(s)]
  BY ConcatProperties
<1>2. /\ DOMAIN s = 1 .. Len(s) /\ Len(s) \in Nat /\ DOMAIN t = 1 .. Len(t) /\ Len(t) \in Nat
      /\ DOMAIN both = 1 .. Len(both)
  BY <1>1, LenProperties
<1>3. \A k \in DOMAIN both : \/ k \in DOMAIN s /\ both[k] = s[k]
                             \/ k - Len(s) \in DOMAIN t /\ both[k] = t[k - Len(s)] /\ ~(k \in DOMAIN s)
  BY <1>1, <1>2
<1>4. \A k \in DOMAIN s : k \in DOMAIN both /\ both[k] = s[k]
  BY <1>1, <1>2
<1>5. \A k \in DOMAIN t : Len(s) + k \in DOMAIN both /\ both[Len(s) + k] = t[k]
  BY <1>1, <1>2
<1>6. Judged(both) = Judged(s) \cup Judged(t)
  <2>1. ASSUME NEW i \in Judged(both) PROVE i \in Judged(s) \cup Judged(t)
    <3>1. PICK k \in DOMAIN both : both[k].decision = i
      BY <2>1 DEF Judged
    <3>2. CASE k \in DOMAIN s /\ both[k] = s[k]
      BY <3>1, <3>2 DEF Judged
    <3>3. CASE k - Len(s) \in DOMAIN t /\ both[k] = t[k - Len(s)]
      BY <3>1, <3>3 DEF Judged
    <3> QED BY <1>3, <3>1, <3>2, <3>3
  <2>2. ASSUME NEW i \in Judged(s) PROVE i \in Judged(both)
    <3>1. PICK k \in DOMAIN s : s[k].decision = i
      BY <2>2 DEF Judged
    <3>2. k \in DOMAIN both /\ both[k] = s[k]
      BY <1>4
    <3> QED BY <3>1, <3>2 DEF Judged
  <2>3. ASSUME NEW i \in Judged(t) PROVE i \in Judged(both)
    <3>1. PICK k \in DOMAIN t : t[k].decision = i
      BY <2>3 DEF Judged
    <3>2. Len(s) + k \in DOMAIN both /\ both[Len(s) + k] = t[k]
      BY <1>5
    <3> QED BY <3>1, <3>2 DEF Judged
  <2> QED BY <2>1, <2>2, <2>3
<1>7. ASSUME Distinct(s), Distinct(t), Judged(t) \cap Judged(s) = {},
             NEW j \in DOMAIN both, NEW k \in DOMAIN both, both[j].decision = both[k].decision
      PROVE  j = k
  <2>1. ASSUME NEW a \in DOMAIN s, NEW b \in DOMAIN t PROVE s[a].decision # t[b].decision
    BY <1>7, JudgedIs
  <2>2. CASE j \in DOMAIN s /\ both[j] = s[j] /\ k \in DOMAIN s /\ both[k] = s[k]
    BY <1>7, <2>2 DEF Distinct
  <2>3. CASE /\ j - Len(s) \in DOMAIN t /\ both[j] = t[j - Len(s)]
             /\ k - Len(s) \in DOMAIN t /\ both[k] = t[k - Len(s)]
    <3>1. j - Len(s) = k - Len(s)
      BY <1>7, <2>3 DEF Distinct
    <3> QED BY <1>1, <1>2, <3>1
  <2>4. CASE j \in DOMAIN s /\ both[j] = s[j] /\ k - Len(s) \in DOMAIN t /\ both[k] = t[k - Len(s)]
    BY <1>7, <2>1, <2>4
  <2>5. CASE k \in DOMAIN s /\ both[k] = s[k] /\ j - Len(s) \in DOMAIN t /\ both[j] = t[j - Len(s)]
    BY <1>7, <2>1, <2>5
  <2> QED BY <1>3, <2>2, <2>3, <2>4, <2>5
<1> QED BY <1>1, <1>3, <1>6, <1>7 DEF Distinct, Joins

--------------------------------------------------------------------------
(* Each step of the experiments. *)

(* The run was asked the same, and is at least as far. *)
Kin(old, new) == new.override = old.override /\ new.window = old.window /\ new.known = old.known

LEMMA RunAlike ==
    ASSUME NEW old, NEW new, NEW w, NEW j, NEW s, RunHolds(old, w, j, s), old.status # "none",
           Kin(old, new), new.items = old.items, new.status # "DONE"
    PROVE  RunHolds(new, w, j, s)
  BY DEF RunHolds, Kin

LEMMA WorkAlike ==
    ASSUME NEW old, NEW new, NEW w, NEW j, NEW s, NEW pass, WorkHolds(pass, old, w, j, s),
           Kin(old, new), new.items = old.items, new.status # "none"
    PROVE  WorkHolds(pass, new, w, j, s)
<1>1. new.override = old.override /\ new.known = old.known
  BY DEF Kin
<1>2. ASSUME NEW judged, Covered(old, judged, j) PROVE Covered(new, judged, j)
  BY <1>1, <1>2 DEF Covered
<1>3. ASSUME NEW stats, StatsHold(old, stats, w, s) PROVE StatsHold(new, stats, w, s)
  BY <1>3 DEF StatsHold
<1>4. ASSUME NEW items, InsertHolds(items, old, w, j, s) PROVE InsertHolds(items, new, w, j, s)
  BY <1>1, <1>2, <1>4 DEF InsertHolds
<1> QED BY <1>2, <1>3, <1>4 DEF WorkHolds

(* A run moves under the passes that work on it. *)
LEMMA RunMoves ==
    ASSUME ReplayInv, UNCHANGED <<replayWorld, episodes, journal, shadows, passes>>,
           NEW r \in Experiments, NEW run \in RunRows, runs' = [runs EXCEPT ![r] = run],
           RunHolds(run, replayWorld, journal, shadows),
           \A p \in ReplayPasses : passes[p].at # "idle" /\ passes[p].run = r =>
               WorkHolds(passes[p], run, replayWorld, journal, shadows) /\ ~Calm(replayWorld)
    PROVE  ReplayInv'
<1>1. runs \in [Experiments -> RunRows \cup {NoRun}] /\ passes \in [ReplayPasses -> PassRows]
  BY DEF ReplayInv, ReplayShape
<1>2. runs'[r] = run /\ \A q \in Experiments \ {r} : runs'[q] = runs[q]
  BY <1>1
<1>3. ASSUME NEW p \in ReplayPasses, passes[p].at # "idle"
      PROVE  WorkHolds(passes[p], runs'[passes[p].run], replayWorld, journal, shadows)
  <2>1. CASE passes[p].run = r
    BY <1>2, <1>3, <2>1
  <2>2. CASE passes[p].run # r
    <3>1. /\ WorkHolds(passes[p], runs[passes[p].run], replayWorld, journal, shadows)
          /\ passes[p].run \in Experiments
      BY <1>3, PassIs
    <3> QED BY <1>2, <2>2, <3>1
  <2> QED BY <2>1, <2>2
<1>4. Solo'
  <2>1. SUFFICES ASSUME Calm(replayWorld), NEW p \in ReplayPasses, passes[p].at # "idle"
                 PROVE  /\ LeaseLives(runs'[passes[p].run])
                        /\ \A q \in ReplayPasses : passes[q].at # "idle" /\ passes[q].run = passes[p].run => q = p
    BY DEF Solo
  <2>2. passes[p].run # r /\ passes[p].run \in Experiments
    BY <2>1, PassIs
  <2> QED BY <1>2, <2>1, <2>2 DEF ReplayInv, Solo
<1> QED BY <1>1, <1>3, <1>4, RunsMove

LEMMA EnqueueStep == ASSUME ReplayInv, NEW r \in Experiments, EnqueueReplayRun(r) PROVE ReplayInv'
<1>1. PICK o \in Overrides, window \in {Len(journal), Len(journal) + 1} :
         runs' = [runs EXCEPT ![r] = Unclaimed(o, window)]
  BY DEF EnqueueReplayRun
<1>2. runs[r].status = "none" /\ UNCHANGED <<replayWorld, episodes, journal, shadows, passes>>
  BY DEF EnqueueReplayRun
<1> DEFINE run == Unclaimed(o, window)
<1>3. Len(journal) \in Nat
  BY JournalIs DEF ReplayInv, ReplayShape
<1>4. window \in Nat /\ Len(journal) <= window
  BY <1>3
<1>5. /\ run.status = "QUEUED" /\ run.lease = "none" /\ run.items = <<>> /\ run.stats = <<>>
      /\ run.override = o /\ run.window = window /\ run.known = Len(journal)
  BY DEF Unclaimed
<1>6. run \in RunRows
  <2>1. <<>> \in Seq(ItemRows) /\ <<>> \in Seq(Nat)
    OBVIOUS
  <2> QED BY <1>3, <1>4, <2>1 DEF Unclaimed, RunRows
<1> HIDE DEF run
<1>7. DOMAIN run.items = {}
  BY <1>5
<1>8. RunHolds(run, replayWorld, journal, shadows)
  BY <1>3, <1>4, <1>5, <1>7 DEF RunHolds, Distinct
<1>9. \A p \in ReplayPasses : passes[p].at # "idle" => passes[p].run # r
  BY <1>2, PassIs
<1>10. runs' = [runs EXCEPT ![r] = run]
  BY <1>1 DEF run
<1> QED BY <1>2, <1>6, <1>8, <1>9, <1>10, RunMoves

LEMMA LapseStep == ASSUME ReplayInv, NEW r \in Experiments, LeaseLapses(r) PROVE ReplayInv'
<1> DEFINE run == [runs[r] EXCEPT !.lease = "lapsed"]
<1>1. /\ runs[r].status = "RUNNING" /\ runs' = [runs EXCEPT ![r] = run]
      /\ UNCHANGED <<replayWorld, episodes, journal, shadows, passes>>
  BY DEF LeaseLapses
<1>2. ASSUME NEW p \in ReplayPasses, passes[p].at # "idle", passes[p].run = r PROVE ~Calm(replayWorld)
  BY <1>2 DEF LeaseLapses, ReplayFaulty, Calm
<1>3. runs[r] \in RunRows /\ RunHolds(runs[r], replayWorld, journal, shadows)
  BY <1>1, RunIs
<1>4. /\ run \in RunRows /\ Kin(runs[r], run) /\ run.items = runs[r].items /\ run.status = "RUNNING"
  BY <1>1, <1>3 DEF RunRows, Kin
<1> HIDE DEF run
<1>5. RunHolds(run, replayWorld, journal, shadows)
  BY <1>1, <1>3, <1>4, RunAlike
<1>6. ASSUME NEW p \in ReplayPasses, passes[p].at # "idle", passes[p].run = r
      PROVE  WorkHolds(passes[p], run, replayWorld, journal, shadows)
  <2>1. WorkHolds(passes[p], runs[r], replayWorld, journal, shadows)
    BY <1>6, PassIs
  <2> QED BY <1>4, <2>1, WorkAlike
<1> QED BY <1>1, <1>2, <1>4, <1>5, <1>6, RunMoves

LEMMA ClaimStep == ASSUME ReplayInv, NEW p \in ReplayPasses, ClaimReplayRun(p) PROVE ReplayInv'
<1>1. PICK r \in Experiments :
         /\ RunClaimable(r)
         /\ runs' = [runs EXCEPT ![r].status = "RUNNING", ![r].lease = "live"]
         /\ passes' = [passes EXCEPT ![p] = [at |-> "batch", run |-> r]]
  BY DEF ClaimReplayRun
<1>2. UNCHANGED <<replayWorld, episodes, journal, shadows>>
  BY DEF ClaimReplayRun
<1> DEFINE named == [runs[r] EXCEPT !.status = "RUNNING"]
           run == [named EXCEPT !.lease = "live"]
           pass == [at |-> "batch", run |-> r]
<1>3. runs[r].status # "none" /\ ~LeaseLives(runs[r])
  BY <1>1 DEF RunClaimable, LeaseLives
<1>4. runs[r] \in RunRows /\ RunHolds(runs[r], replayWorld, journal, shadows)
  BY <1>3, RunIs
<1>5. named \in RunRows /\ Kin(runs[r], named) /\ named.items = runs[r].items /\ named.status = "RUNNING"
  BY <1>4 DEF RunRows, Kin
<1>6. runs' = [runs EXCEPT ![r] = run]
  <2>1. runs \in [Experiments -> RunRows \cup {NoRun}]
    BY DEF ReplayInv, ReplayShape
  <2> QED BY <1>1, <2>1
<1> HIDE DEF named
<1>7. run \in RunRows /\ Kin(runs[r], run) /\ run.items = runs[r].items /\ LeaseLives(run)
  BY <1>5 DEF RunRows, Kin, LeaseLives
<1>8. pass \in PassRows /\ pass.at = "batch" /\ pass.run = r
  BY DEF PassRows
<1> HIDE DEF run, pass
<1>9. run.status = "RUNNING"
  BY <1>7 DEF LeaseLives
<1>10. RunHolds(run, replayWorld, journal, shadows)
  BY <1>3, <1>4, <1>7, <1>9, RunAlike
<1>11. Follows(runs[r], run)
  BY <1>7, <1>9 DEF Follows, Kin
<1>12. WorkHolds(pass, run, replayWorld, journal, shadows)
  BY <1>8, <1>9 DEF WorkHolds
<1>13. Calm(replayWorld) => Alone(p, r)
  BY <1>3 DEF ReplayInv, Solo, Alone
<1>14. passes' = [passes EXCEPT ![p] = pass]
  BY <1>1 DEF pass
<1> QED BY <1>2, <1>3, <1>6, <1>7, <1>8, <1>10, <1>11, <1>12, <1>13, <1>14, PassMoves

(* A pass that is at work: alone, when no lease has lapsed under one. *)
LEMMA WorksAlone ==
    ASSUME ReplayInv, NEW p \in ReplayPasses, passes[p].at # "idle"
    PROVE  Calm(replayWorld) => Alone(p, passes[p].run) /\ LeaseLives(runs[passes[p].run])
  BY DEF ReplayInv, Solo, Alone

LEMMA FollowsItself == ASSUME NEW run, run.status # "none" PROVE Follows(run, run)
  BY DEF Follows

LEMMA PassEnds ==
    ASSUME ReplayInv, UNCHANGED <<replayWorld, episodes, journal, shadows, runs>>,
           NEW p \in ReplayPasses, passes[p].at # "idle", passes' = [passes EXCEPT ![p] = [at |-> "idle"]]
    PROVE  ReplayInv'
<1> DEFINE r == passes[p].run
           run == runs[r]
           pass == [at |-> "idle"]
<1>1. /\ r \in Experiments /\ run.status # "none" /\ run \in RunRows
      /\ RunHolds(run, replayWorld, journal, shadows)
  BY PassIs
<1>2. runs \in [Experiments -> RunRows \cup {NoRun}]
  BY DEF ReplayInv, ReplayShape
<1>3. runs' = [runs EXCEPT ![r] = run]
  BY <1>1, <1>2
<1>4. pass \in PassRows /\ pass.at = "idle" /\ passes' = [passes EXCEPT ![p] = pass]
  BY DEF PassRows
<1>5. Calm(replayWorld) => Alone(p, r)
  BY WorksAlone
<1>6. Follows(runs[r], run)
  BY <1>1, FollowsItself
<1> HIDE DEF pass, r, run
<1>7. runs[r].status # "none"
  BY <1>1 DEF run
<1> QED BY <1>1, <1>3, <1>4, <1>5, <1>6, <1>7, PassMoves

(* A pass goes on with its run untouched. *)
LEMMA PassGoesOn ==
    ASSUME ReplayInv, UNCHANGED <<replayWorld, episodes, journal, shadows, runs>>,
           NEW p \in ReplayPasses, passes[p].at # "idle", NEW pass \in PassRows,
           passes' = [passes EXCEPT ![p] = pass], pass.run = passes[p].run,
           WorkHolds(pass, runs[passes[p].run], replayWorld, journal, shadows)
    PROVE  ReplayInv'
<1> DEFINE r == passes[p].run
           run == runs[r]
<1>1. /\ r \in Experiments /\ run.status # "none" /\ run \in RunRows
      /\ RunHolds(run, replayWorld, journal, shadows)
  BY PassIs
<1>2. runs \in [Experiments -> RunRows \cup {NoRun}]
  BY DEF ReplayInv, ReplayShape
<1>3. runs' = [runs EXCEPT ![r] = run]
  BY <1>1, <1>2
<1>4. Calm(replayWorld) => Alone(p, r) /\ LeaseLives(run)
  BY WorksAlone
<1>5. Follows(runs[r], run)
  BY <1>1, FollowsItself
<1>6. WorkHolds(pass, run, replayWorld, journal, shadows) /\ pass.run = r
  OBVIOUS
<1>7. runs[r].status # "none"
  BY <1>1
<1> HIDE DEF r, run
<1> QED BY <1>1, <1>3, <1>4, <1>5, <1>6, <1>7, PassMoves

Computed(r, some) == [k \in DOMAIN some |-> ComputeReplayItem(r, some[k])]

LEMMA TakeIs ==
    ASSUME NEW p, TakeBatch(p)
    PROVE  /\ passes[p].at = "batch" /\ UNCHANGED <<replayWorld, episodes, journal, shadows>>
           /\ \/ passes' = [passes EXCEPT ![p] = [at |-> "idle"]] /\ UNCHANGED runs
              \/ /\ runs[passes[p].run].status = "RUNNING"
                 /\ runs' = [runs EXCEPT ![passes[p].run].lease = "live"]
                 /\ \/ /\ NextBatch(passes[p].run) = <<>>
                       /\ passes' = [passes EXCEPT ![p] = [at |-> "count", run |-> passes[p].run]]
                    \/ passes' = [passes EXCEPT ![p] =
                         [at |-> "insert", run |-> passes[p].run,
                          items |-> Computed(passes[p].run, NextBatch(passes[p].run))]]
<1> DEFINE r == passes[p].run
           some == NextBatch(r)
<1>1. /\ passes[p].at = "batch" /\ UNCHANGED <<replayWorld, episodes, journal, shadows>>
      /\ IF runs[r].status # "RUNNING"
         THEN passes' = [passes EXCEPT ![p] = [at |-> "idle"]] /\ UNCHANGED runs
         ELSE /\ runs' = [runs EXCEPT ![r].lease = "live"]
              /\ passes' = [passes EXCEPT ![p] =
                     IF some = <<>> THEN [at |-> "count", run |-> r]
                     ELSE [at |-> "insert", run |-> r, items |-> Computed(r, some)]]
  BY DEF TakeBatch, Computed
<1> HIDE DEF r, some
<1>2. \/ passes' = [passes EXCEPT ![p] = [at |-> "idle"]] /\ UNCHANGED runs
      \/ /\ runs[r].status = "RUNNING" /\ runs' = [runs EXCEPT ![r].lease = "live"]
         /\ \/ some = <<>> /\ passes' = [passes EXCEPT ![p] = [at |-> "count", run |-> r]]
            \/ passes' = [passes EXCEPT ![p] = [at |-> "insert", run |-> r, items |-> Computed(r, some)]]
  BY <1>1
<1> QED BY <1>1, <1>2 DEF r, some

LEMMA TakeStep == ASSUME ReplayInv, NEW p \in ReplayPasses, TakeBatch(p) PROVE ReplayInv'
<1> DEFINE r == passes[p].run
           some == NextBatch(r)
           items == Computed(r, some)
           run == [runs[r] EXCEPT !.lease = "live"]
           counting == [at |-> "count", run |-> r]
           inserting == [at |-> "insert", run |-> r, items |-> items]
<1>1. /\ passes[p].at = "batch" /\ UNCHANGED <<replayWorld, episodes, journal, shadows>>
      /\ \/ passes' = [passes EXCEPT ![p] = [at |-> "idle"]] /\ UNCHANGED runs
         \/ /\ runs[r].status = "RUNNING" /\ runs' = [runs EXCEPT ![r].lease = "live"]
            /\ \/ some = <<>> /\ passes' = [passes EXCEPT ![p] = counting]
               \/ passes' = [passes EXCEPT ![p] = inserting]
  BY TakeIs
<1>2. CASE passes' = [passes EXCEPT ![p] = [at |-> "idle"]] /\ UNCHANGED runs
  BY <1>1, <1>2, PassEnds
<1>3. CASE /\ runs[r].status = "RUNNING" /\ runs' = [runs EXCEPT ![r].lease = "live"]
           /\ \/ some = <<>> /\ passes' = [passes EXCEPT ![p] = counting]
              \/ passes' = [passes EXCEPT ![p] = inserting]
  <2>1. /\ r \in Experiments /\ runs[r].status # "none" /\ runs[r] \in RunRows
        /\ RunHolds(runs[r], replayWorld, journal, shadows)
    BY <1>1, PassIs
  <2>2. /\ run \in RunRows /\ Kin(runs[r], run) /\ run.items = runs[r].items /\ run.status = "RUNNING"
        /\ run.lease = "live"
    BY <1>3, <2>1 DEF RunRows, Kin
  <2>3. /\ items \in Seq(ItemRows) /\ InsertHolds(items, runs[r], replayWorld, journal, shadows)
        /\ some = <<>> => Covered(runs[r], Judged(runs[r].items), journal)
    BY <2>1, BatchItems DEF Computed
  <2>4. runs' = [runs EXCEPT ![r] = run]
    BY <1>3
  <2> HIDE DEF items, run, some
  <2>5. /\ counting \in PassRows /\ counting.at = "count" /\ counting.run = r
        /\ inserting \in PassRows /\ inserting.at = "insert" /\ inserting.run = r /\ inserting.items = items
    BY <2>1, <2>3 DEF PassRows
  <2>6. Calm(replayWorld) => Alone(p, r)
    BY <1>1, WorksAlone
  <2> HIDE DEF counting, inserting, r
  <2>7. WorkHolds(inserting, runs[r], replayWorld, journal, shadows)
    BY <2>1, <2>3, <2>5 DEF WorkHolds
  <2>8. some = <<>> => WorkHolds(counting, runs[r], replayWorld, journal, shadows)
    BY <2>1, <2>3, <2>5 DEF WorkHolds
  <2>9. \/ some = <<>> /\ passes' = [passes EXCEPT ![p] = counting]
        \/ passes' = [passes EXCEPT ![p] = inserting]
    BY <1>3
  <2>10. PICK pass \in {counting, inserting} :
            passes' = [passes EXCEPT ![p] = pass] /\ WorkHolds(pass, runs[r], replayWorld, journal, shadows)
    BY <2>7, <2>8, <2>9
  <2>11. WorkHolds(pass, run, replayWorld, journal, shadows)
    BY <2>2, <2>10, WorkAlike
  <2>12. RunHolds(run, replayWorld, journal, shadows)
    BY <2>1, <2>2, RunAlike
  <2>13. Follows(runs[r], run)
    BY <2>2 DEF Follows, Kin
  <2>14. pass \in PassRows /\ pass.run = r /\ LeaseLives(run)
    BY <2>2, <2>5, <2>10 DEF LeaseLives
  <2> QED BY <1>1, <2>1, <2>2, <2>4, <2>6, <2>10, <2>11, <2>12, <2>13, <2>14, PassMoves
<1> QED BY <1>1, <1>2, <1>3

LEMMA InsertStep == ASSUME ReplayInv, NEW p \in ReplayPasses, InsertItems(p) PROVE ReplayInv'
<1> DEFINE r == passes[p].run
           items == passes[p].items
           all == runs[r].items \o items
           run == [runs[r] EXCEPT !.items = all]
           pass == [at |-> IF Len(items) < BatchSize THEN "count" ELSE "batch", run |-> r]
<1>1. passes[p].at = "insert" /\ UNCHANGED <<replayWorld, episodes, journal, shadows>>
      /\ runs' = [runs EXCEPT ![r] = run] /\ passes' = [passes EXCEPT ![p] = pass]
  BY DEF InsertItems
<1>2. /\ r \in Experiments /\ runs[r].status # "none" /\ runs[r] \in RunRows
      /\ RunHolds(runs[r], replayWorld, journal, shadows) /\ items \in Seq(ItemRows)
      /\ WorkHolds(passes[p], runs[r], replayWorld, journal, shadows)
  BY <1>1, PassIs
<1>3. InsertHolds(items, runs[r], replayWorld, journal, shadows)
  BY <1>1, <1>2 DEF WorkHolds
<1>4. runs[r].items \in Seq(ItemRows)
  BY <1>2 DEF RunRows
<1>14. all = runs[r].items \o items
  OBVIOUS
<1> HIDE DEF items, all
<1>5. /\ all \in Seq(ItemRows) /\ Judged(all) = Judged(runs[r].items) \cup Judged(items)
      /\ \A k \in DOMAIN all : (\E i \in DOMAIN runs[r].items : all[k] = runs[r].items[i])
                               \/ (\E i \in DOMAIN items : all[k] = items[i])
      /\ Distinct(runs[r].items) /\ Distinct(items) /\ Judged(items) \cap Judged(runs[r].items) = {}
             => Distinct(all)
  <2>1. Joins(runs[r].items, items, all)
    BY <1>2, <1>4, <1>14, JoinIs
  <2> QED BY <2>1 DEF Joins
<1>6. /\ run \in RunRows /\ Kin(runs[r], run) /\ run.items = all /\ run.status = runs[r].status
      /\ run.lease = runs[r].lease /\ run.stats = runs[r].stats
  BY <1>2, <1>5 DEF RunRows, Kin
<1>7. /\ pass \in PassRows /\ pass.run = r /\ pass.at \in {"count", "batch"}
      /\ pass.at = "count" => Len(items) < BatchSize
  BY <1>2 DEF PassRows
<1>8. Calm(replayWorld) => Alone(p, r) /\ LeaseLives(runs[r])
  BY <1>1, WorksAlone
<1> HIDE DEF r, run, pass
<1>9. ASSUME NEW judged, Covered(runs[r], judged, journal), judged \subseteq Judged(all)
      PROVE  Covered(run, Judged(all), journal)
  BY <1>6, <1>9 DEF Covered, Kin
<1>10. RunHolds(run, replayWorld, journal, shadows)
  <2>1. run.known <= Len(journal) /\ run.known <= run.window
    BY <1>2, <1>6 DEF RunHolds, Kin
  <2>2. \A k \in DOMAIN run.items : Fits(run.items[k], run.override, journal, shadows)
    <3>1. \A i \in DOMAIN runs[r].items : Fits(runs[r].items[i], runs[r].override, journal, shadows)
      BY <1>2 DEF RunHolds
    <3>2. \A i \in DOMAIN items : Fits(items[i], runs[r].override, journal, shadows)
      BY <1>3 DEF InsertHolds
    <3>3. run.override = runs[r].override /\ run.items = all
      BY <1>6 DEF Kin
    <3> QED BY <1>5, <3>1, <3>2, <3>3
  <2>3. Calm(replayWorld) => Distinct(run.items)
    BY <1>2, <1>3, <1>5, <1>6 DEF RunHolds, InsertHolds
  <2>4. ASSUME run.status = "DONE"
        PROVE  Covered(run, Judged(run.items), journal) /\ StatsHold(run, run.stats, replayWorld, shadows)
    <3>1. ~Calm(replayWorld)
      BY <1>6, <1>8, <2>4 DEF LeaseLives
    <3>2. Covered(runs[r], Judged(runs[r].items), journal)
          /\ StatsHold(runs[r], runs[r].stats, replayWorld, shadows)
      BY <1>2, <1>6, <2>4 DEF RunHolds
    <3>3. Covered(run, Judged(run.items), journal)
      BY <1>5, <1>6, <1>9, <3>2
    <3>4. StatsHold(run, run.stats, replayWorld, shadows)
      BY <1>6, <3>1, <3>2 DEF StatsHold
    <3> QED BY <3>3, <3>4
  <2> QED BY <2>1, <2>2, <2>3, <2>4 DEF RunHolds
<1>11. WorkHolds(pass, run, replayWorld, journal, shadows)
  <2>1. pass.at = "count" => Covered(run, Judged(run.items), journal)
    <3>1. Len(items) < BatchSize => Covered(runs[r], Judged(items) \cup Judged(runs[r].items), journal)
      BY <1>3 DEF InsertHolds
    <3>2. Judged(items) \cup Judged(runs[r].items) \subseteq Judged(all)
      BY <1>5
    <3> QED BY <1>6, <1>7, <1>9, <3>1, <3>2
  <2> QED BY <1>2, <1>6, <1>7, <2>1 DEF WorkHolds
<1>12. Follows(runs[r], run)
  <2>1. Judged(runs[r].items) \subseteq Judged(run.items)
    BY <1>5, <1>6
  <2> QED BY <1>2, <1>6, <2>1 DEF Follows, Kin
<1>13. Calm(replayWorld) => LeaseLives(run)
  BY <1>6, <1>8 DEF LeaseLives
<1> QED BY <1>1, <1>2, <1>6, <1>7, <1>8, <1>10, <1>11, <1>12, <1>13, PassMoves

(* Each counted item stands for an episode of its own that has an outcome. *)
LEMMA CountedOnce ==
    ASSUME JournalShape, "prune" \notin replayWorld, NEW items \in Seq(ItemRows), NEW o,
           \A k \in DOMAIN items : Fits(items[k], o, journal, shadows),
           NEW counted, counted = {k \in DOMAIN items : items[k].effect /\ Represents(items, k)}
    PROVE  Cardinality(counted) <= Cardinality(Told(shadows))
<1>1. DOMAIN items = 1 .. Len(items) /\ Len(items) \in Nat
  BY LenProperties
<1> DEFINE of(k) == journal[items[k].decision].episode
           says == [k \in counted |-> of(k)]
<1>2. shadows \in Seq(ShadowRows) /\ \A i \in DOMAIN journal : journal[i].kept
  BY DEF JournalShape
<1>3. IsFiniteSet(Told(shadows)) /\ \A e : e \in Told(shadows) <=> Tells(shadows, e)
  BY <1>2, ToldIs
<1>4. \A k \in counted : of(k) \in Told(shadows) /\ of(k) # 0
  BY <1>3 DEF Fits, Tells
<1>5. \A k \in counted : items[k].decision \in DOMAIN journal /\ journal[items[k].decision].kept
  BY <1>2 DEF Fits
<1>6. ASSUME NEW j \in counted, NEW k \in counted, j < k PROVE of(j) # of(k)
  <2>1. j \in 1 .. k - 1 /\ Represents(items, k)
    BY <1>1, <1>6
  <2> DEFINE key(i) == IF journal[items[i].decision].kept THEN journal[items[i].decision].episode ELSE 0
  <2>2. ~(IF key(j) = 0 THEN key(k) = 0 /\ items[j].decision = items[k].decision ELSE key(j) = key(k))
    BY <2>1 DEF Represents
  <2>3. key(j) = of(j) /\ key(k) = of(k)
    BY <1>5
  <2>4. key(j) # 0
    BY <1>4, <2>3
  <2> HIDE DEF key, of
  <2> QED BY <2>2, <2>3, <2>4
<1>7. ASSUME NEW j \in counted, NEW k \in counted, of(j) = of(k) PROVE j = k
  <2>1. j \in Nat /\ k \in Nat
    BY <1>1
  <2>2. ~(j < k) /\ ~(k < j)
    BY <1>6, <1>7
  <2> QED BY <2>1, <2>2
<1>8. says \in [counted -> Told(shadows)]
  BY <1>4
<1>9. \A j, k \in counted : says[j] = says[k] => j = k
  BY <1>7
<1> HIDE DEF says, of
<1>10. says \in Injection(counted, Told(shadows))
  BY <1>8, <1>9 DEF Injection, IsInjective
<1> QED BY <1>3, <1>10, FS_Injection

LEMMA CountStep == ASSUME ReplayInv, NEW p \in ReplayPasses, CountItems(p) PROVE ReplayInv'
<1> DEFINE r == passes[p].run
           items == runs[r].items
           counted == {k \in DOMAIN items : items[k].effect /\ Represents(items, k)}
           many == Cardinality(counted)
           stats == <<Len(items), many>>
           pass == [at |-> "finish", run |-> r, stats |-> stats]
<1>1. /\ passes[p].at = "count" /\ UNCHANGED <<replayWorld, episodes, journal, shadows, runs>>
      /\ passes' = [passes EXCEPT ![p] = pass]
  BY DEF CountItems
<1>2. /\ r \in Experiments /\ runs[r].status # "none" /\ runs[r] \in RunRows
      /\ RunHolds(runs[r], replayWorld, journal, shadows)
      /\ WorkHolds(passes[p], runs[r], replayWorld, journal, shadows)
  BY <1>1, PassIs
<1>3. items \in Seq(ItemRows) /\ DOMAIN items = 1 .. Len(items) /\ Len(items) \in Nat
  BY <1>2, LenProperties DEF RunRows
<1>4. many \in Nat
  <2>1. counted \subseteq DOMAIN items
    OBVIOUS
  <2> HIDE DEF items, counted
  <2>2. IsFiniteSet(1 .. Len(items))
    BY <1>3, FS_Interval
  <2>3. IsFiniteSet(counted)
    BY <1>3, <2>1, <2>2, FS_Subset
  <2> QED BY <2>3, FS_CardinalityType
<1>5. "prune" \notin replayWorld => many <= Cardinality(Told(shadows))
  <2>1. \A k \in DOMAIN items : Fits(items[k], runs[r].override, journal, shadows)
    BY <1>2 DEF RunHolds
  <2>2. JournalShape
    BY DEF ReplayInv, ReplayShape
  <2> HIDE DEF items
  <2> QED BY <1>3, <2>1, <2>2, CountedOnce
<1> HIDE DEF many
<1>6. stats \in Seq(Nat) /\ stats[1] = Len(items) /\ stats[2] = many
  BY <1>3, <1>4
<1> HIDE DEF stats
<1>7. StatsHold(runs[r], stats, replayWorld, shadows)
  BY <1>4, <1>5, <1>6 DEF StatsHold
<1>8. Covered(runs[r], Judged(runs[r].items), journal)
  BY <1>1, <1>2 DEF WorkHolds
<1>9. pass \in PassRows /\ pass.at = "finish" /\ pass.run = r /\ pass.stats = stats
  BY <1>2, <1>6 DEF PassRows
<1> HIDE DEF pass
<1>10. WorkHolds(pass, runs[r], replayWorld, journal, shadows)
  BY <1>2, <1>7, <1>8, <1>9 DEF WorkHolds
<1> QED BY <1>1, <1>9, <1>10, PassGoesOn

(* A run ends as its pass says; the pass is done with it. *)
LEMMA RunEnds ==
    ASSUME ReplayInv, UNCHANGED <<replayWorld, episodes, journal, shadows>>,
           NEW p \in ReplayPasses, passes[p].at # "idle", passes' = [passes EXCEPT ![p] = [at |-> "idle"]],
           NEW status \in {"DONE", "FAILED"}, NEW stats \in Seq(Nat),
           runs' = [runs EXCEPT ![passes[p].run] = Ended(runs[passes[p].run], status, stats)],
           status = "DONE" => /\ Covered(runs[passes[p].run], Judged(runs[passes[p].run].items), journal)
                              /\ StatsHold(runs[passes[p].run], stats, replayWorld, shadows)
    PROVE  ReplayInv'
<1> DEFINE r == passes[p].run
           run == Ended(runs[r], status, stats)
           pass == [at |-> "idle"]
<1>1. /\ r \in Experiments /\ runs[r].status # "none" /\ runs[r] \in RunRows
      /\ RunHolds(runs[r], replayWorld, journal, shadows)
  BY PassIs
<1>2. /\ run \in RunRows /\ Kin(runs[r], run) /\ run.items = runs[r].items /\ run.status = status
      /\ run.stats = stats
  BY <1>1 DEF RunRows, Kin, Ended
<1>3. pass \in PassRows /\ pass.at = "idle"
  BY DEF PassRows
<1>4. Calm(replayWorld) => Alone(p, r)
  BY WorksAlone
<1> HIDE DEF run, pass
<1>5. RunHolds(run, replayWorld, journal, shadows)
  <2>1. /\ run.known <= Len(journal) /\ run.known <= run.window
        /\ \A k \in DOMAIN run.items : Fits(run.items[k], run.override, journal, shadows)
        /\ Calm(replayWorld) => Distinct(run.items)
    BY <1>1, <1>2 DEF RunHolds, Kin
  <2>2. status = "DONE" => Covered(run, Judged(run.items), journal)
    BY <1>2 DEF Covered, Kin
  <2>3. status = "DONE" => StatsHold(run, run.stats, replayWorld, shadows)
    BY <1>2 DEF StatsHold
  <2> QED BY <1>2, <2>1, <2>2, <2>3 DEF RunHolds
<1>6. Follows(runs[r], run)
  BY <1>2 DEF Follows, Kin
<1>7. runs' = [runs EXCEPT ![r] = run] /\ passes' = [passes EXCEPT ![p] = pass]
  BY DEF run, pass
<1>8. /\ pass.at # "idle" => pass.run = r /\ WorkHolds(pass, run, replayWorld, journal, shadows)
      /\ Calm(replayWorld) => Alone(p, r) /\ (pass.at # "idle" => LeaseLives(run))
  BY <1>3, <1>4
<1>9. pass \in PassRows /\ run \in RunRows
  BY <1>2, <1>3
<1> HIDE DEF r
<1> QED BY <1>1, <1>5, <1>6, <1>7, <1>8, <1>9, PassMoves

LEMMA FinishStep == ASSUME ReplayInv, NEW p \in ReplayPasses, FinishReplayRun(p) PROVE ReplayInv'
<1> DEFINE r == passes[p].run
           stats == passes[p].stats
           status == "DONE"
<1>1. /\ passes[p].at = "finish" /\ UNCHANGED <<replayWorld, episodes, journal, shadows>>
      /\ runs' = [runs EXCEPT ![r] = Ended(runs[r], status, stats)]
      /\ passes' = [passes EXCEPT ![p] = [at |-> "idle"]]
  BY DEF FinishReplayRun
<1>2. stats \in Seq(Nat) /\ WorkHolds(passes[p], runs[r], replayWorld, journal, shadows)
  BY <1>1, PassIs
<1>3. /\ Covered(runs[r], Judged(runs[r].items), journal)
      /\ StatsHold(runs[r], stats, replayWorld, shadows)
  BY <1>1, <1>2 DEF WorkHolds
<1>4. status \in {"DONE", "FAILED"} /\ passes[p].at # "idle"
  BY <1>1
<1> HIDE DEF r, stats, status
<1>5. r = passes[p].run
  BY DEF r
<1> QED BY <1>1, <1>2, <1>3, <1>4, <1>5, RunEnds

LEMMA FailStep == ASSUME ReplayInv, NEW p \in ReplayPasses, FailReplayRun(p) PROVE ReplayInv'
<1> DEFINE r == passes[p].run
           stats == <<>>
           status == "FAILED"
<1>1. /\ passes[p].at # "idle" /\ UNCHANGED <<replayWorld, episodes, journal, shadows>>
      /\ runs' = [runs EXCEPT ![r] = Ended(runs[r], status, stats)] \/ UNCHANGED runs
      /\ passes' = [passes EXCEPT ![p] = [at |-> "idle"]]
  BY DEF FailReplayRun, ReplayFaulty
<1>2. stats \in Seq(Nat) /\ status \in {"DONE", "FAILED"} /\ status # "DONE" /\ r = passes[p].run
  OBVIOUS
<1> HIDE DEF r, stats, status
<1>3. CASE runs' = [runs EXCEPT ![r] = Ended(runs[r], status, stats)]
  BY <1>1, <1>2, <1>3, RunEnds
<1>4. CASE UNCHANGED runs
  BY <1>1, <1>4, PassEnds
<1> QED BY <1>1, <1>3, <1>4

LEMMA AbandonStep == ASSUME ReplayInv, NEW p \in ReplayPasses, AbandonPass(p) PROVE ReplayInv'
<1>1. /\ passes[p].at # "idle" /\ UNCHANGED <<replayWorld, episodes, journal, shadows, runs>>
      /\ passes' = [passes EXCEPT ![p] = [at |-> "idle"]]
  BY DEF AbandonPass, ReplayFaulty
<1> QED BY <1>1, PassEnds

LEMMA ReplayIsStill == ASSUME ReplayInv, UNCHANGED replayVars PROVE ReplayInv'
<1>1. UNCHANGED <<replayWorld, episodes, journal, shadows, runs, passes>>
  BY DEF replayVars
<1>2. JournalShape' /\ journal \in Seq(DecisionRows)
  BY <1>1 DEF ReplayInv, ReplayShape, JournalShape
<1>3. Grows(journal, journal') /\ TellsKeep(shadows, shadows')
  BY <1>1, <1>2, GrowsItself DEF TellsKeep
<1> QED BY <1>1, <1>2, <1>3, JournalMoves

LEMMA ReplayInductive == ReplayInv /\ [ReplayNext]_replayVars => ReplayInv'
<1> SUFFICES ASSUME ReplayInv, [ReplayNext]_replayVars PROVE ReplayInv'
  OBVIOUS
<1>1. CASE \E c \in Chains : RecordDecision(c)
  BY <1>1, RecordStep
<1>2. CASE EpisodeLapses \/ PruneJournal \/ CaptureShadow
  BY <1>2, EpisodeLapsesStep, PruneStep, CaptureStep
<1>3. CASE \E s \in DOMAIN shadows : SimulateShadow(s)
  BY <1>3, SimulateStep
<1>4. CASE \E r \in Experiments : EnqueueReplayRun(r) \/ LeaseLapses(r)
  BY <1>4, EnqueueStep, LapseStep
<1>5. ASSUME NEW p \in ReplayPasses, ReplayStep(p) PROVE ReplayInv'
  BY <1>5, ClaimStep, TakeStep, InsertStep, CountStep, FinishStep DEF ReplayStep
<1>6. ASSUME NEW p \in ReplayPasses, FailReplayRun(p) \/ AbandonPass(p) PROVE ReplayInv'
  BY <1>6, FailStep, AbandonStep
<1>7. CASE UNCHANGED replayVars
  BY <1>7, ReplayIsStill
<1> QED BY <1>1, <1>2, <1>3, <1>4, <1>5, <1>6, <1>7 DEF ReplayNext

--------------------------------------------------------------------------
(* What the invariant says of an experiment that has ended. *)

LEMMA ReplaySound == ReplayInv => ReplayIsSound
<1> SUFFICES ASSUME ReplayInv, NEW r \in Experiments, runs[r].status # "none", NEW k \in DOMAIN runs[r].items
             PROVE  LET item == runs[r].items[k]
                        d == journal[item.decision]
                        o == runs[r].override
                    IN  /\ item.verdict = "REPRODUCED" => item.newOutcome = d.base
                        /\ item.followed /\ o.gate = "RV" /\ d.chain.rv = "judged"
                               => item.newOutcome = Verdict(d.chain, o.threshold)
  BY DEF ReplayIsSound
<1> DEFINE item == runs[r].items[k]
           d == journal[item.decision]
           o == runs[r].override
<1>1. Fits(item, o, journal, shadows)
  BY RunIs DEF RunHolds
<1>2. item.decision \in DOMAIN journal /\ Honest(item, d.chain, o)
  BY <1>1 DEF Fits
<1>3. d.base = Verdict(d.chain, Threshold)
  BY <1>2, JournalIs DEF ReplayInv, ReplayShape
<1> QED BY <1>2, <1>3 DEF Honest

LEMMA AllDistinct ==
    ASSUME NEW items \in Seq(ItemRows), Distinct(items) PROVE Cardinality(Judged(items)) = Len(items)
<1>1. DOMAIN items = 1 .. Len(items) /\ Len(items) \in Nat
  BY LenProperties
<1>2. IsFiniteSet(DOMAIN items) /\ Cardinality(DOMAIN items) = Len(items)
  BY <1>1, FS_Interval
<1> DEFINE about == [k \in DOMAIN items |-> items[k].decision]
<1>3. about \in Surjection(DOMAIN items, Judged(items))
  BY DEF Surjection, Judged
<1>4. \A j, k \in DOMAIN items : about[j] = about[k] => j = k
  BY DEF Distinct
<1>5. about \in Injection(DOMAIN items, Judged(items))
  BY <1>3, <1>4 DEF Surjection, Injection, IsInjective
<1> HIDE DEF about
<1>6. about \in Bijection(DOMAIN items, Judged(items))
  BY <1>3, <1>5 DEF Bijection
<1>7. Cardinality(DOMAIN items) = Cardinality(Judged(items))
  BY <1>2, <1>6, FS_Bijection DEF ExistsBijection
<1> QED BY <1>2, <1>7

LEMMA ReplayWhole == ReplayInv => RunIsWhole
<1> SUFFICES ASSUME ReplayInv, NEW r \in Experiments, runs[r].status = "DONE"
             PROVE  LET items == runs[r].items
                        judged == {items[k].decision : k \in DOMAIN items}
                        told == {shadows[s].episode : s \in {t \in DOMAIN shadows : shadows[t].pos = "CLOSED"}}
                    IN  /\ {i \in 1 .. runs[r].known : journal[i].kept} \subseteq judged
                        /\ "stall" \notin replayWorld => runs[r].stats[1] = Cardinality(judged)
                        /\ "prune" \notin replayWorld => runs[r].stats[2] <= Cardinality(told \ {0})
  BY DEF RunIsWhole
<1>1. runs[r] \in RunRows /\ RunHolds(runs[r], replayWorld, journal, shadows)
  BY RunIs
<1>2. /\ Covered(runs[r], Judged(runs[r].items), journal)
      /\ StatsHold(runs[r], runs[r].stats, replayWorld, shadows)
      /\ Calm(replayWorld) => Distinct(runs[r].items)
  BY <1>1 DEF RunHolds
<1>3. {i \in 1 .. runs[r].known : journal[i].kept} \subseteq Judged(runs[r].items)
  BY <1>2 DEF Covered
<1>4. "stall" \notin replayWorld => runs[r].stats[1] = Cardinality(Judged(runs[r].items))
  <2>1. runs[r].items \in Seq(ItemRows)
    BY <1>1 DEF RunRows
  <2>2. Distinct(runs[r].items) => Cardinality(Judged(runs[r].items)) = Len(runs[r].items)
    BY <2>1, AllDistinct
  <2> QED BY <1>2, <2>2 DEF StatsHold, Calm
<1>5. "prune" \notin replayWorld => runs[r].stats[2] <= Cardinality(Told(shadows))
  BY <1>2 DEF StatsHold
<1> QED BY <1>3, <1>4, <1>5 DEF Judged, Told

(* ReplayIsExact, in every behaviour of the journal, the shadow portfolio and
   the experiments. A claim that an experiment makes of a decision is what its
   chain says; an experiment that processReplayRun has ended DONE has judged
   every decision it was asked about, once, and its totals count each
   episode's outcome once, with any number of passes that overlap, are
   abandoned or fail. *)
THEOREM ReplaysAreExact == ReplaySpec => []ReplayIsExact
<1>1. ReplayInit => ReplayInv
  BY ReplayStarts
<1>2. ReplayInv /\ [ReplayNext]_replayVars => ReplayInv'
  BY ReplayInductive
<1>3. ReplayInv => ReplayIsExact
  BY ReplaySound, ReplayWhole DEF ReplayIsExact
<1> QED BY <1>1, <1>2, <1>3, PTL DEF ReplaySpec
==============================================================================
