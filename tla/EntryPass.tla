----------------------------- MODULE EntryPass ------------------------------
(***************************************************************************)
(* Deploy passes of the AutoGrid worker.  scanAndDeploy persists a scan    *)
(* and hands its accepted candidates to deployReal or deployPaper.  Two    *)
(* passes can run at once: start() runs the first one in a goroutine of    *)
(* its own while the command loop may already carry out the next scan.     *)
(* Each pass counts the open grids once, probes the market, and takes its  *)
(* candidates one by one through EntryChain; the symbol it admits is       *)
(* created later, when the world may have moved.                           *)
(***************************************************************************)
EXTENDS EntryChain

CONSTANTS
    Passes,           \* deploy passes that may run at the same time
    Symbols,          \* candidates of a scan
    MaxActiveBots,    \* autogrid_settings.max_active_bots
    PassFacts,        \* facts a candidate may carry in this instance
    PassBetas,        \* BTC readings a pass may start with
    MarketMoods       \* readings of the shared gates in this instance

VARIABLES
    execMode,         \* the fleet that trades: "PAPER" or "REAL"
    market,           \* what the shared gates would read now
    openGrids,        \* symbols with an open grid of that fleet
    lastError,        \* autogrid_settings.last_error: "", "freeze", "candidate"
    pass              \* the passes' local state and their scan's rows

passVars == <<execMode, market, openGrids, lastError, pass>>

(* fleet stands for the breaker and the economic calendar, liquidations for
   the cascade and the health of its feed. *)
Markets == [storm : BOOLEAN, fleet : BlockAnswers, liquidations : BlockAnswers,
            macro : BOOLEAN]
ASSUME EntryPassAssumption ==
    /\ MarketMoods \subseteq Markets /\ PassFacts \subseteq Facts
    /\ PassBetas \subseteq {"flat", "down", "up"} /\ MaxActiveBots \in Nat
ClearMarket == [storm |-> FALSE, fleet |-> "clear", liquidations |-> "clear",
                macro |-> FALSE]

IdlePass ==
    [pc |-> "idle", cascadeShort |-> FALSE, beta |-> "flat", memo |-> "clear",
     seen |-> 0, atStart |-> 0, left |-> {}, opened |-> 0, unshort |-> FALSE,
     errors |-> FALSE, noted |-> FALSE, creating |-> {}]

--------------------------------------------------------------------------
(* evaluateSharedMarketBlockersDB for a final direction d.  The breaker and
   the calendar are read once per pass unless that reading failed. *)
MarketAnswer(d, p) ==
    LET fleetLeg == IF p.memo = "clear" THEN "clear" ELSE market.fleet
    IN  IF market.storm \/ fleetLeg = "blocked" THEN "blocked"
        ELSE IF fleetLeg = "unreadable" THEN "unreadable"
        ELSE IF d = "short" THEN "clear"
        ELSE IF market.liquidations # "clear" THEN market.liquidations
        ELSE IF market.macro /\ ~p.cascadeShort THEN "blocked" ELSE "clear"

Context(p, s) ==
    [fleet |-> execMode, cascadeShort |-> p.cascadeShort, beta |-> p.beta,
     full |-> p.seen >= MaxActiveBots, duplicate |-> s \in openGrids,
     block |-> [d \in Directions |-> MarketAnswer(d, p)]]

Contexts ==
    [fleet : Fleets, cascadeShort : BOOLEAN, beta : {"flat", "down", "up"},
     full : BOOLEAN, duplicate : BOOLEAN,
     block : {b \in [Directions -> BlockAnswers] : b["long"] = b["no_trend"]}]

PassCases ==
    [regime : Regimes, funding : FundingReadings,
     facts : {{}} \cup {{f} : f \in PassFacts}]

(* What the chain can answer in a context, over every candidate. *)
Outcome(c, m) ==
    LET v == Verdict(c, m)
    IN  [verdict |-> CASE v.gate = "open" -> "open"
                       [] v.gate = "duplicateUnreadable" -> "abort"
                       [] v.reason -> "reason"
                       [] OTHER -> "skip",
         error |-> v.error, short |-> FinalTrend(c, m) = "short"]
Outcomes ==   \* the equation makes TLC tabulate it
    LET answers == [m \in Contexts |-> {Outcome(c, m) : c \in PassCases}]
    IN  CHOOSE f \in {answers} : f = answers

--------------------------------------------------------------------------
PassInit ==
    /\ execMode \in Fleets
    /\ market = ClearMarket
    /\ openGrids = {}
    /\ lastError = ""
    /\ pass = [p \in Passes |-> IdlePass]

(* The pass level: count the open grids, probe with a neutral direction.  A
   storm or an unreadable gate ends the pass silently, the breaker and the
   calendar end it with a note, a cascade only leaves a note. *)
BeginPass(p) ==
    /\ pass[p].pc = "idle"
    /\ \E accepted \in SUBSET Symbols, cascade \in BOOLEAN,
          beta \in PassBetas, firstRead \in {"clear", "error"} :
         LET fresh == [IdlePass EXCEPT !.pc = "loop",
                         !.cascadeShort = cascade, !.beta = beta,
                         !.memo = firstRead, !.seen = Cardinality(openGrids),
                         !.atStart = Cardinality(openGrids),
                         !.left = accepted]
             ended == [IdlePass EXCEPT !.pc = "ended"]
         IN  \/ /\ market.storm \/ market.fleet = "unreadable"
                /\ pass' = [pass EXCEPT ![p] = ended]
                /\ UNCHANGED lastError
             \/ /\ ~market.storm /\ market.fleet = "blocked"
                /\ pass' = [pass EXCEPT ![p] = ended]
                /\ lastError' = "freeze"
             \/ /\ ~market.storm /\ market.fleet = "clear"
                /\ IF market.liquidations = "unreadable"
                   THEN /\ pass' = [pass EXCEPT ![p] = ended]
                        /\ UNCHANGED lastError
                   ELSE IF market.liquidations = "blocked"
                   THEN /\ pass' = [pass EXCEPT ![p] =
                                      [fresh EXCEPT !.noted = TRUE]]
                        /\ lastError' = "freeze"
                   ELSE /\ pass' = [pass EXCEPT ![p] = fresh]
                        /\ UNCHANGED lastError
    /\ UNCHANGED <<execMode, market, openGrids>>

(* One candidate through the chain. *)
Judge(p, s) ==
    /\ pass[p].pc = "loop" /\ s \in pass[p].left
    /\ \E o \in Outcomes[Context(pass[p], s)] :
         LET judged == [pass[p] EXCEPT !.left = @ \ {s}, !.errors = @ \/ o.error]
         IN  pass' = [pass EXCEPT ![p] =
               CASE o.verdict = "open" ->
                      [judged EXCEPT !.pc = "create",
                         !.creating = {[symbol |-> s, short |-> o.short]}]
                 [] o.verdict = "abort" -> [judged EXCEPT !.pc = "ended"]
                 [] OTHER -> judged]
    /\ UNCHANGED <<execMode, market, openGrids, lastError>>

Create_Uncounted(p) ==   \* a bug: a created grid does not count
    /\ pass[p].pc = "create"
    /\ \E g \in pass[p].creating :
         /\ g.symbol \notin openGrids
         /\ openGrids' = openGrids \cup {g.symbol}
         /\ pass' = [pass EXCEPT ![p] =
              [@ EXCEPT !.pc = "loop", !.creating = {}, !.opened = @ + 1,
                        !.unshort = @ \/ ~g.short]]
    /\ UNCHANGED <<execMode, market, lastError>>

(* CreateGridBot, or the paper insert under its entry lock: a symbol that
   was opened meanwhile is skipped silently; the exchange may forbid it, a
   cap may refuse it, or the call may fail. *)
Create(p) ==
    /\ pass[p].pc = "create"
    /\ \E g \in pass[p].creating :
       LET s == g.symbol
           back == [pass[p] EXCEPT !.pc = "loop", !.creating = {}]
       IN  \/ /\ s \notin openGrids
              /\ openGrids' = openGrids \cup {s}
              /\ pass' = [pass EXCEPT ![p] =
                            [back EXCEPT !.seen = @ + 1, !.opened = @ + 1,
                                         !.unshort = @ \/ ~g.short]]
           \/ /\ s \in openGrids
              /\ pass' = [pass EXCEPT ![p] = back]
              /\ UNCHANGED openGrids
           \/ /\ pass' = [pass EXCEPT ![p] =
                            [back EXCEPT !.errors = @ \/ execMode = "REAL"]]
              /\ UNCHANGED openGrids
           \/ /\ execMode = "PAPER"
              /\ pass' = [pass EXCEPT ![p] = [back EXCEPT !.pc = "ended"]]
              /\ UNCHANGED openGrids
    /\ UNCHANGED <<execMode, market, lastError>>

(* The end of the loop: who owns last_error. *)
EndPass(p) ==
    /\ pass[p].pc = "loop" /\ pass[p].left = {}
    /\ pass' = [pass EXCEPT ![p].pc = "ended"]
    /\ lastError' =
         IF execMode = "REAL" /\ pass[p].errors
         THEN IF pass[p].seen = 0 THEN "candidate" ELSE lastError
         ELSE IF pass[p].seen > 0 THEN "" ELSE lastError
    /\ UNCHANGED <<execMode, market, openGrids>>

(* The next scan may use the same slot. *)
ForgetPass(p) ==
    /\ pass[p].pc = "ended"
    /\ pass' = [pass EXCEPT ![p] = IdlePass]
    /\ UNCHANGED <<execMode, market, openGrids, lastError>>

CloseGrid(s) ==
    /\ s \in openGrids
    /\ openGrids' = openGrids \ {s}
    /\ UNCHANGED <<execMode, market, lastError, pass>>

MarketMoves(mk) ==
    /\ market' = mk
    /\ UNCHANGED <<execMode, openGrids, lastError, pass>>

PassNext ==
    \/ \E p \in Passes : BeginPass(p) \/ Create(p) \/ EndPass(p) \/ ForgetPass(p)
    \/ \E p \in Passes, s \in Symbols : Judge(p, s)
    \/ \E s \in Symbols : CloseGrid(s)
    \/ \E mk \in MarketMoods : MarketMoves(mk)

PassSpec == PassInit /\ [][PassNext]_passVars

--------------------------------------------------------------------------
(* The values the code can write. *)
PassTypeOK ==
    /\ execMode \in Fleets /\ market \in Markets
    /\ openGrids \subseteq Symbols /\ lastError \in {"", "freeze", "candidate"}
    /\ \A p \in Passes :
         /\ pass[p].pc \in {"idle", "loop", "create", "ended"}
         /\ pass[p].seen \in 0 .. 2 * Cardinality(Symbols)
         /\ pass[p].opened \in 0 .. Cardinality(Symbols)
         /\ \A g \in pass[p].creating : g.symbol \in Symbols

(* Every candidate with at most one fact of any gate, or two of the tape,
   against an unobstructed world. *)
JudgedCases ==
    [regime : Regimes, funding : FundingReadings,
     facts : {{}} \cup {{f} : f \in Facts}
                  \cup {{f, g} : f \in TapeFacts, g \in TapeFacts}]
OpenWorlds ==
    [fleet : Fleets, cascadeShort : BOOLEAN, beta : {"flat", "down", "up"},
     full : {FALSE}, duplicate : {FALSE},
     block : {[d \in Directions |-> "clear"]}]

Misled(c, m) ==
    /\ Opens(c, m)
    /\ \/ FinalTrend(c, m) = "long" /\ c.regime # "TREND_UP"
       \/ FinalTrend(c, m) = "long" /\ Has(c, "panic") /\ ~Has(c, "euphoria")
       \/ FinalTrend(c, m) = "short" /\ c.regime # "TREND_DOWN"
MisledFleets == {m.fleet : m \in {w \in OpenWorlds : \E c \in JudgedCases : Misled(c, w)}}

(* A directional grid is opened only in the direction of the regime the scan
   detected, although the smart direction may override the scanner's, carry
   may ask for a long in a range, and every exemption may apply; and never a
   long in a market panic.  (SelectDirection, the demoted-trend guard.) *)
DirectionFollowsRegime == execMode \notin MisledFleets

(* An out-of-turn cascade scan never turns into a long or a neutral grid,
   whatever the market does between its gates and its creations. *)
CascadePassOpensShorts ==
    \A p \in Passes : ~(pass[p].cascadeShort /\ pass[p].unshort)

(* What a pass opens has its direction from the market: both of the above. *)
DirectionsAreBacked == DirectionFollowsRegime /\ CascadePassOpensShorts

(* A pass opens no more grids than there were free slots when it counted,
   however grids close and other passes open theirs meanwhile. *)
PassWithinSlots ==
    \A p \in Passes :
        pass[p].opened > 0 => pass[p].atStart + pass[p].opened <= MaxActiveBots
=============================================================================
