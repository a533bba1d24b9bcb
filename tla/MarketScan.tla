------------------------------ MODULE MarketScan ------------------------------
(***************************************************************************)
(* One market scan: the universe is ranked and cut, a pool of workers      *)
(* judges its symbols, the best are written with the scan's row in one     *)
(* transaction, the advisor (an LLM) reviews them, and what is still       *)
(* accepted is handed to the deployers.                                    *)
(*                                                                         *)
(* A symbol is its place by turnover.  Scores are 1 or 2; a symbol whose   *)
(* data are missing has score 0.                                           *)
(***************************************************************************)
EXTENDS CandidateScore, FiniteSets

CONSTANTS
    Tapes,          \* what the market may show: functions from the symbols
                    \* to [fit, lively, reading]
    Modes,          \* the settings: [directional, cascade, require, brain]
    ScanCap,        \* bound: symbols analysed for their turnover
    VolQuota,       \* bound: symbols that join for their range
    MaxSymbols,     \* settings.MaxSymbols
    HandCap,        \* workers of the pool
    AuditCap,       \* reviews of one scan
    ScanWorlds,     \* sets of faults, one of which the world has
    ScanBudget      \* bound: faults

ScanFaults == {"universe", "fetch", "panic", "cancel", "write", "silence", "unreadable", "crash"}
ASSUME MarketScanAssumption ==
    /\ {ScanCap, MaxSymbols, HandCap, AuditCap} \subseteq Nat \ {0}
    /\ {VolQuota, ScanBudget} \subseteq Nat
    /\ ScanWorlds \subseteq SUBSET ScanFaults
    /\ Modes \subseteq [directional : BOOLEAN, cascade : BOOLEAN, require : BOOLEAN, brain : BOOLEAN]
    /\ \A t \in Tapes :
          /\ DOMAIN t \subseteq Nat \ {0} /\ IsFiniteSet(DOMAIN t)
          /\ t \in [DOMAIN t -> [fit : BOOLEAN, lively : BOOLEAN, reading : Readings]]

VARIABLES
    scanWorld,   \* the faults of this world
    scanLeft,    \* faults still to come
    tape,        \* the market
    mode,        \* the settings the scan started with; whether the advisor is on
    scan,        \* autogrid_scan_runs.status, the step, whether the context lives
    pool,        \* the jobs left, each worker's symbol, the results
    rows,        \* autogrid_candidates of the scan
    review       \* the symbols dealt with and what the advisor answered

scanVars == <<scanWorld, scanLeft, tape, mode, scan, pool, rows, review>>

FaultComes(fault) == {FALSE} \cup {b \in {TRUE} : fault \in scanWorld /\ scanLeft > 0}
Spend(fault) == scanLeft' = IF fault THEN scanLeft - 1 ELSE scanLeft
Free == 0
Gone == -1
First(S, n) == {k \in S : Cardinality({j \in S : j < k}) < n}

--------------------------------------------------------------------------
(* A listed symbol fits when it trades, has a price, turns over enough and
   has not moved by half in a day. *)
Fitting == {k \in DOMAIN tape : tape[k].fit}
Lively(S) == {k \in S : tape[k].lively}
Active == First(Fitting, ScanCap)
          \cup First(Lively(Fitting \ First(Fitting, ScanCap)), VolQuota)
Hands == 1 .. Max({1, Min({HandCap, Cardinality(Active)})})

Row(k, trend, accepted, score) ==
    [symbol |-> k, trend |-> trend, accepted |-> accepted, score |-> score, marked |-> FALSE]
DataRow(k) == {Row(k, 0, FALSE, 0)}
Fallen_Silent(k) == {}   \* a bug: a worker that panics leaves no result
Fallen(k) == DataRow(k)
Judged(k) ==
    LET judgement == Judgement(tape[k].reading, mode)
    IN  {Row(k, judgement.trend, judgement.accepted, score) : score \in 1 .. 2}

(* The sort before the cut. *)
Outranks(a, b) == \/ a.accepted /\ ~b.accepted
                  \/ a.accepted = b.accepted /\ a.score > b.score
Best(results) ==
    {kept \in SUBSET results :
        /\ Cardinality(kept) = Min({MaxSymbols, Cardinality(results)})
        /\ \A a \in results \ kept, b \in kept : ~Outranks(a, b)}

--------------------------------------------------------------------------
ScanInit ==
    /\ scanWorld \in ScanWorlds /\ scanLeft = ScanBudget
    /\ tape \in Tapes
    /\ mode \in Modes
    /\ scan = [status |-> "none", pc |-> "begin", live |-> TRUE]
    /\ pool = [jobs |-> {}, hands |-> <<>>, results |-> {}]
    /\ rows = {}
    /\ review = [done |-> {}, answers |-> <<>>, readable |-> TRUE, handed |-> {}]

BeginScan ==
    /\ scan.pc = "begin"
    /\ scan' = [scan EXCEPT !.status = "RUNNING", !.pc = "universe"]
    /\ UNCHANGED <<scanWorld, scanLeft, tape, mode, pool, rows, review>>

(* FailScan writes with the scan's own context: a dead one leaves the row
   as it is. *)
Failed(s) == [s EXCEPT !.pc = "over", !.status = IF s.live THEN "FAILED" ELSE @]

FetchUniverse ==
    /\ scan.pc = "universe"
    /\ \E lost \in FaultComes("universe") :
         /\ Spend(lost)
         /\ IF lost \/ ~scan.live THEN scan' = Failed(scan) /\ pool' = pool
            ELSE /\ scan' = [scan EXCEPT !.pc = "pool"]
                 /\ pool' = [jobs |-> Active, hands |-> [h \in Hands |-> Free], results |-> {}]
    /\ UNCHANGED <<scanWorld, tape, mode, rows, review>>

(* A worker receives the next job and then looks at its context. *)
TakeJob(h) ==
    /\ scan.pc = "pool" /\ pool.hands[h] = Free /\ pool.jobs # {}
    /\ pool' = [pool EXCEPT !.jobs = @ \ {Min(@)},
                            !.hands[h] = IF scan.live THEN Min(pool.jobs) ELSE Gone]
    /\ UNCHANGED <<scanWorld, scanLeft, tape, mode, scan, rows, review>>
Leave(h) ==
    /\ scan.pc = "pool" /\ pool.hands[h] = Free /\ pool.jobs = {}
    /\ pool' = [pool EXCEPT !.hands[h] = Gone]
    /\ UNCHANGED <<scanWorld, scanLeft, tape, mode, scan, rows, review>>

(* The results' channel has room for every active symbol. *)
HasRoom == Cardinality(pool.results) < Cardinality(Active)
Working(h) == scan.pc = "pool" /\ pool.hands[h] \notin {Free, Gone}
Puts(h, results) == pool' = [pool EXCEPT !.results = @ \cup results, !.hands[h] = Free]
(* The candles are fetched and judged; the request fails, or brings fewer
   than 30 candles. *)
Judge(h) ==
    /\ Working(h) /\ HasRoom
    /\ \E lost \in FaultComes("fetch") :
         /\ Spend(lost)
         /\ IF lost \/ ~scan.live THEN Puts(h, DataRow(pool.hands[h]))
            ELSE \E row \in Judged(pool.hands[h]) : Puts(h, {row})
    /\ UNCHANGED <<scanWorld, tape, mode, scan, rows, review>>
Panic(h) ==
    /\ Working(h) /\ HasRoom /\ TRUE \in FaultComes("panic")
    /\ Puts(h, Fallen(pool.hands[h])) /\ Spend(TRUE)
    /\ UNCHANGED <<scanWorld, tape, mode, scan, rows, review>>

(* The 15 minutes are over, or the process is told to stop. *)
CancelScan ==
    /\ scan.pc \notin {"begin", "over"} /\ scan.live /\ TRUE \in FaultComes("cancel")
    /\ scan' = [scan EXCEPT !.live = FALSE]
    /\ Spend(TRUE)
    /\ UNCHANGED <<scanWorld, tape, mode, pool, rows, review>>

(* ScanMarkets' end and CompleteScan. *)
Collect ==
    /\ scan.pc = "pool" /\ \A h \in DOMAIN pool.hands : pool.hands[h] = Gone
    /\ \E lost \in FaultComes("write"), kept \in Best(pool.results) :
         /\ Spend(lost)
         /\ IF lost \/ ~scan.live THEN scan' = Failed(scan) /\ rows' = rows
            ELSE /\ scan' = [scan EXCEPT !.pc = "review", !.status = "SUCCEEDED"]
                 /\ rows' = kept
    /\ UNCHANGED <<scanWorld, tape, mode, pool, review>>

--------------------------------------------------------------------------
Asked == {r \in rows : r.symbol \in review.done}
DueRows == {r \in rows \ Asked : r.accepted}
NextDue == {r \in DueRows : \A other \in DueRows : other.score <= r.score}
Replaced(r, new) == rows' = (rows \ {r}) \cup {new}

(* Without the advisor's settings, or with the advisor off, there is no
   review. *)
SkipReview ==
    /\ scan.pc = "review"
    /\ \E unread \in FaultComes("unreadable") :
         /\ Spend(unread)
         /\ unread \/ ~mode.brain \/ ~scan.live \/ DueRows = {} \/ Cardinality(DOMAIN review.answers) >= AuditCap
    /\ scan' = [scan EXCEPT !.pc = "hand over"]
    /\ UNCHANGED <<scanWorld, tape, mode, pool, rows, review>>

Reviewed(r) == [review EXCEPT !.done = @ \cup {r.symbol}]
Reviewing(r) ==
    /\ scan.pc = "review" /\ scan.live /\ mode.brain
    /\ Cardinality(DOMAIN review.answers) < AuditCap
    /\ r \in NextDue
(* No candles, or no answer within 45 seconds. *)
Unanswered(r) ==
    /\ Reviewing(r) /\ TRUE \in FaultComes("silence") /\ Spend(TRUE)
    /\ review' = Reviewed(r)
    /\ \/ rows' = rows
       \/ mode.require /\ Replaced(r, [r EXCEPT !.accepted = FALSE])
    /\ UNCHANGED <<scanWorld, tape, mode, scan, pool>>

(* Each answer is one UPDATE whose failure nobody reads.  A veto for the
   news leaves no mark. *)
Stamped(r, answer) ==
    CASE answer = "approved" -> [r EXCEPT !.marked = TRUE]
      [] answer = "rejected" -> [r EXCEPT !.marked = TRUE, !.accepted = FALSE]
      [] OTHER -> [r EXCEPT !.accepted = FALSE]
Answered(r, answer) ==
    /\ Reviewing(r)
    /\ review' = [Reviewed(r) EXCEPT
                    !.answers = [s \in DOMAIN @ \cup {r.symbol} |->
                                    IF s = r.symbol THEN answer ELSE review.answers[s]]]
    /\ \E lost \in FaultComes("write") :
         /\ Spend(lost)
         /\ IF lost THEN rows' = rows ELSE Replaced(r, Stamped(r, answer))
    /\ UNCHANGED <<scanWorld, tape, mode, scan, pool>>

--------------------------------------------------------------------------
(* The gate of the deploy loop: the advisor's settings are read again. *)
Deployable(r, brain) == r.accepted /\ (brain => r.marked)
HandOver ==
    /\ scan.pc = "hand over"
    /\ \E unread \in FaultComes("unreadable"), running \in BOOLEAN :
         /\ Spend(unread)
         /\ review' = [review EXCEPT !.readable = ~unread,
                         !.handed = IF running /\ scan.live
                                    THEN {r \in rows : Deployable(r, mode.brain /\ ~unread)} ELSE {}]
    /\ scan' = [scan EXCEPT !.pc = "over"]
    /\ UNCHANGED <<scanWorld, tape, mode, pool, rows>>

(* The process ends and starts again: a row that has been RUNNING for more
   than two minutes is FAILED. *)
ScanCrash ==
    /\ scan.pc \notin {"begin", "over"} /\ TRUE \in FaultComes("crash")
    /\ \E old \in BOOLEAN :
         scan' = [scan EXCEPT !.pc = "over",
                     !.status = IF old /\ @ = "RUNNING" THEN "FAILED" ELSE @]
    /\ Spend(TRUE)
    /\ UNCHANGED <<scanWorld, tape, mode, pool, rows, review>>

ScanNext ==
    \/ BeginScan \/ FetchUniverse \/ CancelScan \/ Collect \/ SkipReview \/ HandOver \/ ScanCrash
    \/ \E h \in DOMAIN pool.hands : TakeJob(h) \/ Leave(h) \/ Judge(h) \/ Panic(h)
    \/ \E r \in rows : Unanswered(r) \/ \E a \in {"approved", "rejected", "vetoed"} : Answered(r, a)
ScanSpec == ScanInit /\ [][ScanNext]_scanVars

ScanTypeOK ==
    /\ scanLeft \in 0 .. ScanBudget
    /\ scan \in [status : {"none", "RUNNING", "SUCCEEDED", "FAILED"}, live : BOOLEAN,
                 pc : {"begin", "universe", "pool", "review", "hand over", "over"}]
    /\ rows \subseteq [symbol : DOMAIN tape, trend : Ways, accepted : BOOLEAN,
                       score : 0 .. 2, marked : BOOLEAN]
    /\ rows # {} => scan.status = "SUCCEEDED"

--------------------------------------------------------------------------
(* The pool never waits for itself; and a scan that SUCCEEDED has dealt
   with every active symbol exactly once, whichever worker panicked or
   found no candles, and has written as many as the settings ask for, no
   accepted one having been cut while a rejected one was kept.  A row that
   is accepted is accepted by its own symbol's reading. *)
PoolMoves ==
    scan.pc = "pool" => \A h \in DOMAIN pool.hands : Working(h) => HasRoom
WroteTheBest ==
    scan.status = "SUCCEEDED" =>
        /\ {r.symbol : r \in pool.results} = Active
        /\ Cardinality(pool.results) = Cardinality(Active)
        /\ Cardinality({r.symbol : r \in rows}) = Cardinality(rows)
        /\ Cardinality(rows) = Min({MaxSymbols, Cardinality(Active)})
        /\ \A r \in pool.results :
              r.accepted => /\ r.symbol \in {kept.symbol : kept \in rows}
                               \/ \A kept \in rows : kept \in pool.results => kept.accepted
                            /\ Judgement(tape[r.symbol].reading, mode).accepted
        /\ \A r \in rows : r.accepted =>
              [r EXCEPT !.marked = FALSE] \in pool.results
ScanIsWhole == PoolMoves /\ WroteTheBest

(* What an entry of each direction may look like, however the direction
   was reached. *)
Fits(r, way) ==
    CASE way = 0 -> /\ r.adx < 24 \/ r.adx > 32
                    /\ r.adx <= 32 /\ Magnitude(r.slope) <= 300 /\ Magnitude(r.day) <= 8
                    /\ Magnitude(r.quarter) <= 4
                    /\ r.rsi \in 40 .. 60 /\ r.position \in 20 .. 80
                    /\ r.hurst # "danger" /\ r.efficiency <= 60
                    /\ ~(r.halfLife > 0 /\ r.halfLife < 2)
      [] OTHER -> /\ mode.directional /\ ~r.narrow
                  /\ r.ema = way /\ way * r.slope > 15 /\ way * r.return >= -3
                  /\ way * r.day > -3
                  /\ Confluence(r) # (IF way = 1 THEN "SUPPORT_SHORT" ELSE "SUPPORT_LONG")
                  /\ way = 1 => r.rsi <= 78 /\ r.position <= 75
                  /\ (way = -1 /\ ~mode.cascade) =>
                        (r.rsi >= 22 /\ r.position >= 12) \/ (r.rsi \notin 1 .. 29 /\ Strong(r))

(* What reaches the deployers comes from a scan that SUCCEEDED, in a
   direction its own candles support; and when the advisor is on and its
   settings can be read, the advisor has looked at it and approved it,
   whichever answers and writes were lost. *)
HandedIsVetted ==
    \A r \in review.handed :
        /\ scan.status = "SUCCEEDED"
        /\ ~tape[r.symbol].reading.poor /\ Fits(tape[r.symbol].reading, r.trend)
        /\ (mode.brain /\ review.readable) =>
              r.symbol \in DOMAIN review.answers /\ review.answers[r.symbol] = "approved"
=============================================================================
