------------------------------ MODULE MCPlatform ------------------------------
(* One run over the risk engine, the paper fleet's book and the market scan:
   every behaviour plays one of them, the risk engine with two fleets of REAL
   grids' deployers ("entries") or with the writers of its settings
   ("settings"). *)
EXTENDS RiskGate, PaperBook, MarketScan, TLC

CONSTANTS Parts, r1, r2, r3, s1, s2, d1, d2, p1

VARIABLE part

Limits(account, symbol, bots, positions) ==
    [account |-> account, symbol |-> symbol, leverage |-> 3, bots |-> bots,
     positions |-> positions]
\* Room for one grid by count, for two by positions and exposure, for one by exposure.
OneOrTwo    == {Limits(6, 4, 1, 0), Limits(5, 3, 3, 2), Limits(3, 3, 3, 0)}
OneOrNoSlot == {Limits(4, 4, 1, 0), Limits(4, 4, 0, 0)}
MCPolicies  == OneOrTwo \cup OneOrNoSlot

Ask(fleet, symbol) == [fleet |-> fleet, symbol |-> symbol, leverage |-> 2, invest |-> 1]
MCPlans == {Ask("REAL", s) : s \in Symbols} \cup {Ask("PAPER", s1)}

\* What the candles of a range, a rise and a fall show.
Silent == [flow |-> 0, turn |-> 0, release |-> 0, stretch |-> 0, fib |-> 0, macd |-> 0,
           cross |-> "none", stoch |-> 0, coiled |-> FALSE, tight |-> FALSE, shelves |-> FALSE]
Calm == [ema |-> 1, slope |-> 0, return |-> 0, side |-> 0, crossings |-> 3, chop |-> 50,
         adx |-> 18, rsi |-> 50, position |-> 50, day |-> 0, quarter |-> 0, squeeze |-> FALSE,
         halfLife |-> 4, flash |-> FALSE, narrow |-> FALSE, poor |-> FALSE, hurst |-> "middle",
         efficiency |-> 20, votes |-> Silent]
Rise == [Calm EXCEPT !.slope = 40, !.return = 2, !.side = 1, !.crossings = 1, !.chop = 40,
                     !.adx = 28, !.rsi = 60, !.position = 60, !.day = 2]
Fall == [Rise EXCEPT !.ema = -1, !.slope = -40, !.return = -2, !.side = -1, !.rsi = 40,
                     !.position = 40, !.day = -2]
\* The values a field may have instead, on both sides of every limit.
Otherwise ==
    [ema |-> Ways \ {0}, slope |-> {-310, -60, -20, 10, 20, 60}, return |-> {-4, 4},
     side |-> {-1, 1}, crossings |-> {1, 3}, chop |-> {40, 53, 60}, adx |-> {21, 23, 24, 33},
     rsi |-> {20, 25, 35, 65, 75, 80}, position |-> {10, 15, 50, 78, 85}, day |-> {-9, -3, 3, 9},
     quarter |-> {-5, 5}, squeeze |-> {TRUE}, halfLife |-> {0, 1}, flash |-> {TRUE},
     narrow |-> {TRUE}, poor |-> {TRUE}, hurst |-> {"danger", "reverting", "unknown"}, efficiency |-> {61},
     votes |-> {[Silent EXCEPT !.flow = way * 20, !.turn = way * 15, !.release = way * 15] :
                   way \in Ways \ {0}}
               \cup {[Silent EXCEPT !.coiled = TRUE, !.tight = TRUE],
                     [Silent EXCEPT !.flow = 20, !.turn = 15, !.stoch = 10, !.release = -15,
                                    !.fib = -15, !.macd = -15]}]
Altered(r) == UNION {{[r EXCEPT ![f] = v] : v \in Otherwise[f]} : f \in DOMAIN Otherwise}
Shows(fit, lively, reading) == [fit |-> fit, lively |-> lively, reading |-> reading]
\* One symbol with any reading; or three, plain ones.
OneSymbol == {[k \in {1} |-> Shows(TRUE, FALSE, r)] :
                 r \in UNION {Altered(x) : x \in UNION {Altered(b) : b \in {Calm, Rise, Fall}}}}
ThreeSymbols ==
    {[k \in 1 .. 3 |-> Shows(k # 2 \/ fits, k = 3 /\ lively, IF k \in good THEN Rise ELSE
                             [Rise EXCEPT !.poor = TRUE])] :
        fits \in BOOLEAN, lively \in BOOLEAN, good \in SUBSET (1 .. 3)}
MCTapes == OneSymbol \cup ThreeSymbols
MCModes == [directional : BOOLEAN, cascade : BOOLEAN, require : BOOLEAN, brain : BOOLEAN]

(* The scan: a quiet world reads one symbol; the faults meet three. *)
ScanPlays ==
    CASE part # "scan" ->
           /\ scanWorld = CHOOSE w \in ScanWorlds : TRUE
           /\ tape = CHOOSE t \in ThreeSymbols : TRUE
           /\ mode = CHOOSE m \in MCModes : TRUE
      [] OTHER ->
           \/ /\ scanWorld = {} /\ tape \in OneSymbol
              /\ mode \in {m \in MCModes : ~m.brain /\ ~m.require}
           \/ /\ scanWorld \in ScanWorlds \ {{}} /\ tape \in ThreeSymbols
              /\ mode \in {m \in MCModes : m.directional /\ ~m.cascade /\ (m.require => m.brain)}

MCInit ==
    /\ part \in Parts
    /\ ScanPlays /\ ScanInit
    /\ Init /\ PaperInit
    /\ policy \in (IF part = "settings" THEN OneOrNoSlot ELSE OneOrTwo)
    /\ part \in {"paper", "scan"} => kill /\ policy = Limits(5, 3, 3, 2)
    /\ part # "paper" => paper.direction = "LONG" /\ paperWorld = CHOOSE w \in PaperWorlds : TRUE

Takes(d) == job[d] = Idle /\ job'[d] # Idle
\* Rows are alike: they are used in their order.
RowsInOrder == (state'[r2] # "new" => state'[r1] # "new") /\ (state'[r3] # "new" => state'[r2] # "new")
(* Two deployers of REAL grids and a top-up, while the limits change. *)
Entries ==
    /\ part = "entries" /\ Next /\ RowsInOrder
    /\ form' = form /\ derive' = derive /\ version' <= 1
    /\ \A d \in Deployers : Takes(d) => job'[d].plan.fleet = "REAL"

(* A deployer of either fleet, two settings forms and the breaker. *)
Settings ==
    /\ part = "settings" /\ Next /\ RowsInOrder
    /\ top' = top /\ job'[d2] = job[d2] /\ policy' \in OneOrNoSlot
    /\ Cardinality({r \in Rows : state'[r] # "new"}) <= 1
    /\ \A d \in Deployers : Takes(d) => job'[d].plan.symbol = s1

MCNext ==
    /\ UNCHANGED part
    /\ \/ (Entries \/ Settings) /\ UNCHANGED <<paperVars, scanVars>>
       \/ part = "paper" /\ PaperNext /\ UNCHANGED <<vars, scanVars>>
       \/ part = "scan" /\ ScanNext /\ UNCHANGED <<vars, paperVars>>
MCSpec == MCInit /\ [][MCNext]_<<part, vars, paperVars, scanVars>>

(* The values the code of the risk engine, the paper fleet and the scan can write. *)
PlatformTypeOK == TypeOK /\ PaperTypeOK /\ ScanTypeOK
=============================================================================
