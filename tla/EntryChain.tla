----------------------------- MODULE EntryChain -----------------------------
(***************************************************************************)
(* The chain of gates a scanned candidate passes before the AutoGrid       *)
(* worker opens a grid for it: deployReal and deployPaper of               *)
(* autogrid/worker.go with the helpers they call (direction.go,            *)
(* directional_trend_exempt.go, entry_chain.go, macro_gate.go, gates.go,   *)
(* entry_gates.go).                                                        *)
(*                                                                         *)
(* A candidate is [regime, funding, facts]: the regime the scan detected,  *)
(* what the current funding snapshot says, and the set of facts that set   *)
(* it apart from an unremarkable candidate.  "losing" \in c.facts says     *)
(* that the losing-symbol query names the symbol, and so on; numbers are   *)
(* abstracted to the side of the threshold they fall on.  The pass         *)
(* supplies m = [fleet, cascadeShort, beta, full, duplicate, block]:       *)
(* beta is the BTC reading of the start of the pass, block[d] what the     *)
(* shared market blockers answer for final direction d.                    *)
(*                                                                         *)
(* A chain is a sequence of gates in the order of the code, and the        *)
(* verdict is the first gate that stops the candidate.  A gate says        *)
(* whether it leaves a reason on the candidate's row and whether it adds   *)
(* to the pass's deployErrors.                                             *)
(***************************************************************************)
EXTENDS Integers, Sequences, FiniteSets

Regimes == {"RANGE", "TREND_UP", "TREND_DOWN"}
FundingReadings == {"unknown", "mild", "extremePositive", "extremeNegative"}
Directions == {"long", "short", "no_trend"}
Fleets == {"PAPER", "REAL"}
BlockAnswers == {"clear", "blocked", "unreadable"}

Has(c, fact) == fact \in c.facts

(* Facts the candidate's own data and the market decide. *)
TapeFacts ==
    {"demoted", "panic", "euphoria", "persistent", "carry", "strong", "overextended", "bounce",
     "btcDown", "btcUp", "priceAction", "noConfluence", "adxAbove32"}

(* Facts of the gates in front of sizing. *)
EligibilityFacts ==
    {"losing", "badTiming", "noAudit", "flush", "staleTrend", "drift",
     "unreadablePrice", "depthAgainst", "protective", "flipFamily",
     "sectorFull", "correlated", "exchangeRejected", "duplicateUnreadable"}

(* Facts of sizing, exposure, targets and the exchange's own checks. *)
SizingFacts ==
    {"fundsUnreadable", "noFunds", "expanding", "volUnreadable",
     "directionalOff", "flipLock", "tooClose", "deltaUnreadable", "deltaOver",
     "thinBook", "feeFloor", "knife", "risk", "badSymbol", "roi", "unarmed",
     "stress", "envelope", "testPending", "testRefused", "forbidden",
     "checkFailed", "noClient", "belowMinimum", "aboveMaximum",
     "noLiquidation", "liquidationClose"}

Facts == TapeFacts \cup EligibilityFacts \cup SizingFacts

--------------------------------------------------------------------------
(* The scanner's direction: the regime's, unless it was demoted. *)
ScanTrend(c) ==
    IF Has(c, "demoted") THEN "no_trend"
    ELSE CASE c.regime = "TREND_UP"   -> "long"
           [] c.regime = "TREND_DOWN" -> "short"
           [] OTHER                   -> "no_trend"

Extreme(c) == c.funding \in {"extremePositive", "extremeNegative"}

(* SelectDirection: regime, funding, fear and greed, cascade. *)
SelectDirection(c, cascade) ==
    LET panic == Has(c, "panic") /\ ~Has(c, "euphoria")
    IN  CASE Has(c, "euphoria") -> "WAIT"
          [] c.regime = "TREND_DOWN" ->
               IF (panic /\ ~cascade) \/ c.funding = "extremeNegative"
               THEN "WAIT" ELSE "short"
          [] c.regime = "TREND_UP" ->
               IF panic \/ cascade \/ c.funding = "extremePositive"
               THEN "WAIT" ELSE "long"
          [] OTHER ->
               IF cascade \/ Extreme(c) \/ Has(c, "persistent") THEN "WAIT"
               ELSE IF Has(c, "carry") THEN "long" ELSE "no_trend"

(* The smart direction overrides the scanner only when it is neutral or the
   funding it was computed from is known; "" leaves the scanner's trend (a
   WAIT stops the candidate at its gate). *)
SmartTrend(c, m) ==
    LET smart == SelectDirection(c, m.cascadeShort)
    IN  IF smart # "WAIT" /\ (c.funding # "unknown" \/ smart = "no_trend")
        THEN smart ELSE ""

FinalTrend(c, m) ==
    IF SmartTrend(c, m) = "" THEN ScanTrend(c) ELSE SmartTrend(c, m)

Directional(c, m) == FinalTrend(c, m) \in {"long", "short"}

(* betaDownShortExempt: BTC falls and the pair's own tape falls with it. *)
BetaDownShortExempt(c, m) ==
    m.beta = "down" /\ ScanTrend(c) = "short" /\ Has(c, "strong")

(* directionalTrendExempt: a confirmed trend in the scanner's direction that
   BTC does not contradict and no micro bounce denies. *)
DirectionalTrendExempt(c, m) ==
    /\ ~Has(c, "bounce")
    /\ \/ BetaDownShortExempt(c, m)
       \/ /\ ScanTrend(c) \in {"long", "short"}
          /\ m.beta # (IF ScanTrend(c) = "short" THEN "up" ELSE "down")
          /\ Has(c, "strong") /\ ~Has(c, "overextended")

(* The BTC reading of the beta gate: the paper pass keeps the one of its
   start, the REAL pass reads again for every candidate. *)
BetaNow(c, m) ==
    IF m.fleet = "PAPER" THEN m.beta
    ELSE CASE Has(c, "btcDown") -> "down" [] Has(c, "btcUp") -> "up"
           [] OTHER -> "flat"

(* A short of an out-of-turn cascade scan. *)
CascadeShortScan(c, m) == m.cascadeShort /\ ScanTrend(c) = "short"
CascadeShortEntry(c, m) == m.cascadeShort /\ FinalTrend(c, m) = "short"

--------------------------------------------------------------------------
(* Gates.  Rejects writes a reason; Skips leaves the row as it is; the last
   argument of Gate says whether deployErrors grows. *)
Gate(name, stops, reason, error) ==
    [gate |-> name, stops |-> stops, reason |-> reason, error |-> error]
Rejects(name, stops) == Gate(name, stops, TRUE, FALSE)
RejectsLoudly(name, stops) == Gate(name, stops, TRUE, TRUE)
Skips(name, stops) == Gate(name, stops, FALSE, FALSE)
SkipsLoudly(name, stops) == Gate(name, stops, FALSE, TRUE)

(* macroVeto looks at the scanner's trend, the liquidation legs at the final
   one; the pass has folded both into block. *)
MarketGates(c, m) ==
    LET answer == m.block[FinalTrend(c, m)]
    IN  << Skips("gateUnreadable", answer = "unreadable"),
           Rejects("marketBlocker", answer = "blocked") >>

FlushGate(c, m) == Rejects("flush", Has(c, "flush") /\ ~CascadeShortScan(c, m))
TimingGate(c, m) ==
    Rejects("timing", Has(c, "badTiming") /\ ~DirectionalTrendExempt(c, m))
SmartGates_KeepsDemoted(c, m) ==   \* a bug: a demoted trend comes back
    << Rejects("smartWait", SelectDirection(c, m.cascadeShort) = "WAIT") >>
SmartGates(c, m) ==
    << Rejects("smartWait", SelectDirection(c, m.cascadeShort) = "WAIT"),
       Rejects("demoted", /\ SmartTrend(c, m) \in {"long", "short"}
                          /\ ScanTrend(c) = "no_trend") >>
DepthGate(c, m) == Rejects("depth", Has(c, "depthAgainst") /\ ~m.cascadeShort)
ProtectiveGate(c, m) ==
    Rejects("protectiveCooldown",
            /\ Has(c, "protective")
            /\ ~(CascadeShortScan(c, m) /\ Has(c, "flipFamily")))
VolatilityGate(c, m) ==
    Rejects("volExpansion", \/ Has(c, "volUnreadable")
                            \/ Has(c, "expanding") /\ ~DirectionalTrendExempt(c, m))
CascadeGate(c, m) ==
    Rejects("cascadeShortOnly", m.cascadeShort /\ FinalTrend(c, m) # "short")
BetaGates(c, m) ==
    << Rejects("betaDown", BetaNow(c, m) = "down" /\ FinalTrend(c, m) # "short"),
       Rejects("betaUp", BetaNow(c, m) = "up" /\ FinalTrend(c, m) = "short") >>

(* A direction held against a recent close of the other one, and rule R1: a
   directional entry needs the confluence's support, a confirmed trend or a
   candle pattern. *)
DirectionGates(c, m) ==
    LET judged == Directional(c, m) /\ ~CascadeShortEntry(c, m)
    IN  << Rejects("flipLock",
                   judged /\ Has(c, "flipLock") /\ ~Has(c, "priceAction")),
           Rejects("unconfirmed",
                   /\ judged /\ Has(c, "noConfluence")
                   /\ ~DirectionalTrendExempt(c, m) /\ ~Has(c, "priceAction")) >>

(* The fleet's net delta, the order book, the fees and the falling knife. *)
ExposureGates(c) ==
    << Rejects("deltaUnreadable", Has(c, "deltaUnreadable")),
       Rejects("deltaOver", Has(c, "deltaOver")),
       Rejects("thinBook", Has(c, "thinBook")),
       Rejects("feeFloor", Has(c, "feeFloor")),
       Rejects("knife", Has(c, "knife")) >>

--------------------------------------------------------------------------
(* deployReal, one candidate of the loop, in the order of the code. *)
RealEligibility(c, m) ==
    << Rejects("losing", Has(c, "losing")),
       Rejects("full", m.full),
       TimingGate(c, m),
       Rejects("noAudit", Has(c, "noAudit")),
       FlushGate(c, m),
       Rejects("staleTrend", Has(c, "staleTrend") \/ Has(c, "unreadablePrice")),
       Rejects("drift", /\ Has(c, "drift")
                        /\ ~(m.cascadeShort \/ DirectionalTrendExempt(c, m))),
       DepthGate(c, m) >>

RealPortfolio(c, m) ==
    << Gate("duplicateUnreadable", Has(c, "duplicateUnreadable"), FALSE, FALSE),
       Rejects("duplicate", m.duplicate),
       ProtectiveGate(c, m),
       Rejects("sectorFull", Has(c, "sectorFull")),
       Rejects("correlated", Has(c, "correlated")),
       Rejects("exchangeRejected", Has(c, "exchangeRejected")) >>

RealSizing(c, m) ==
    << RejectsLoudly("fundsUnreadable", Has(c, "fundsUnreadable")),
       RejectsLoudly("marginReserve", Has(c, "noFunds")),
       VolatilityGate(c, m),
       Rejects("directionalOff", Directional(c, m) /\ Has(c, "directionalOff")) >>

RealConfirmation(c, m) ==
    MarketGates(c, m) \o << CascadeGate(c, m) >> \o DirectionGates(c, m)
        \o BetaGates(c, m) \o << RejectsLoudly("antiHunt", Has(c, "tooClose")) >>

RealTargets(c) ==
    << RejectsLoudly("riskEngine", Has(c, "risk")),
       SkipsLoudly("badSymbol", Has(c, "badSymbol")),
       Rejects("roi", Has(c, "roi")),
       RejectsLoudly("unarmed", Has(c, "unarmed")),
       RejectsLoudly("stress", Has(c, "stress")),
       SkipsLoudly("stopEnvelope", Has(c, "envelope")) >>

RealPreflight(c) ==
    << Skips("backtestPending", Has(c, "testPending")),
       Rejects("backtest", Has(c, "testRefused")),
       Rejects("forbidden", Has(c, "forbidden")),
       RejectsLoudly("checkParams", Has(c, "checkFailed")),
       SkipsLoudly("belowMinimum", Has(c, "belowMinimum")),
       RejectsLoudly("aboveMaximum", Has(c, "aboveMaximum")),
       RejectsLoudly("noLiquidation", Has(c, "noLiquidation")),
       RejectsLoudly("liquidationGuard", Has(c, "liquidationClose")) >>

RealChain(c, m) ==
    RealEligibility(c, m) \o SmartGates(c, m) \o RealPortfolio(c, m)
        \o RealSizing(c, m) \o RealConfirmation(c, m) \o ExposureGates(c)
        \o RealTargets(c) \o RealPreflight(c)

--------------------------------------------------------------------------
(* deployPaper, one candidate of the loop, in the order of the code. *)
PaperEligibility(c, m) ==
    << Rejects("losing", Has(c, "losing")), TimingGate(c, m),
       Rejects("noAudit", Has(c, "noAudit")) >>
        \o SmartGates(c, m) \o << FlushGate(c, m) >>

PaperPortfolio(c, m) ==
    << Gate("duplicateUnreadable", Has(c, "duplicateUnreadable"), FALSE, FALSE),
       Rejects("duplicate", m.duplicate),
       Rejects("full", m.full),
       ProtectiveGate(c, m),
       Rejects("sectorFull", Has(c, "sectorFull")),
       Rejects("correlated", Has(c, "correlated")) >>

(* Only a short confirmed by a falling BTC is excused from the drift. *)
PaperTape(c, m) ==
    << Rejects("staleTrend", Has(c, "unreadablePrice")),
       Rejects("drift", /\ Has(c, "drift")
                        /\ ~(m.cascadeShort \/ BetaDownShortExempt(c, m))),
       DepthGate(c, m),
       Skips("backtestPending", Has(c, "testPending")),
       Rejects("backtest", Has(c, "testRefused")),
       VolatilityGate(c, m),
       Rejects("neutralOverride", /\ SmartTrend(c, m) = "no_trend"
                                  /\ ScanTrend(c) # "no_trend"
                                  /\ Has(c, "adxAbove32")),
       Rejects("directionalOff", Directional(c, m) /\ Has(c, "directionalOff")) >>

PaperConfirmation(c, m) ==
    MarketGates(c, m) \o << CascadeGate(c, m) >> \o BetaGates(c, m)
        \o << Rejects("antiHunt", Has(c, "tooClose")) >> \o DirectionGates(c, m)

PaperAdmission(c) ==
    << Rejects("stress", Has(c, "stress")), Rejects("roi", Has(c, "roi")),
       Rejects("riskEngine", Has(c, "risk")),
       Rejects("stopEnvelope", Has(c, "envelope")),
       Skips("noClient", Has(c, "noClient")),
       Rejects("forbidden", Has(c, "forbidden")),
       Skips("checkParams", Has(c, "checkFailed")),
       Rejects("belowMinimum", Has(c, "belowMinimum")) >>

PaperChain(c, m) ==
    PaperEligibility(c, m) \o PaperPortfolio(c, m) \o PaperTape(c, m)
        \o PaperConfirmation(c, m) \o ExposureGates(c) \o PaperAdmission(c)

--------------------------------------------------------------------------
Passed == [gate |-> "open", stops |-> FALSE, reason |-> FALSE, error |-> FALSE]

(* The first gate that stops the candidate, or Passed. *)
FirstStop(gates) ==
    LET stopping == {i \in DOMAIN gates : gates[i].stops}
    IN  IF stopping = {} THEN Passed
        ELSE gates[CHOOSE i \in stopping : \A j \in stopping : i <= j]

Verdict(c, m) ==
    FirstStop(IF m.fleet = "REAL" THEN RealChain(c, m) ELSE PaperChain(c, m))
Opens(c, m) == Verdict(c, m).gate = "open"
============================================================================
