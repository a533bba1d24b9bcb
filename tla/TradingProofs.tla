---------------------------- MODULE TradingProofs ----------------------------
(***************************************************************************)
(* Proofs about what the worker decides each cycle: EntryPass (which       *)
(* candidate a pass opens and in which direction), ManageBot (when it      *)
(* closes, shifts or re-bases a grid it holds), Radar (what an event may   *)
(* make it do) and SettingsForms (the rows all of them read); and about the*)
(* values of all of MCTrading, PionexClient's included.                    *)
(***************************************************************************)
EXTENDS MCTrading, PionexClientProofs, FiniteSetTheorems, SequenceTheorems, WellFoundedInduction, TLAPS

--------------------------------------------------------------------------
\* EntryChain: what a candidate that passes has passed.

LEMMA LeastOne ==
    ASSUME NEW S, S \subseteq Nat, S # {}
    PROVE  \E i \in S : \A j \in S : i <= j
<1>1. \E i \in S : \A j \in S : ~(<<j, i>> \in OpToRel(<, Nat))
  BY NatLessThanWellFounded, WFMin
<1>2. \A i, j \in S : ~(<<j, i>> \in OpToRel(<, Nat)) => i <= j
  BY DEF OpToRel
<1> QED BY <1>1, <1>2

Names ==
    {"losing", "full", "timing", "noAudit", "flush", "staleTrend", "drift", "depth", "smartWait",
     "demoted", "duplicateUnreadable", "duplicate", "protectiveCooldown", "sectorFull", "correlated",
     "exchangeRejected", "fundsUnreadable", "marginReserve", "volExpansion", "directionalOff",
     "gateUnreadable", "marketBlocker", "cascadeShortOnly", "flipLock", "unconfirmed", "betaDown",
     "betaUp", "antiHunt", "deltaUnreadable", "deltaOver", "thinBook", "feeFloor", "knife",
     "riskEngine", "badSymbol", "roi", "unarmed", "stress", "stopEnvelope", "backtestPending",
     "backtest", "forbidden", "checkParams", "belowMinimum", "aboveMaximum", "noLiquidation",
     "liquidationGuard", "neutralOverride", "noClient"}
Gates == [gate : Names, stops : BOOLEAN, reason : BOOLEAN, error : BOOLEAN]
Halts(gates) == \E i \in DOMAIN gates : gates[i].stops

LEMMA OpenIsNoName == "open" \notin Names
  BY DEF Names
LEMMA GateIs ==
    ASSUME NEW name \in Names, NEW stops \in BOOLEAN
    PROVE  /\ Rejects(name, stops) \in Gates /\ RejectsLoudly(name, stops) \in Gates
           /\ Skips(name, stops) \in Gates /\ SkipsLoudly(name, stops) \in Gates
           /\ Gate(name, stops, FALSE, FALSE) \in Gates
           /\ Rejects(name, stops).stops = stops /\ RejectsLoudly(name, stops).stops = stops
  BY DEF Rejects, RejectsLoudly, Skips, SkipsLoudly, Gate, Gates

LEMMA FirstStopIs ==
    ASSUME NEW gates \in Seq(Gates), FirstStop(gates).gate = "open"
    PROVE  ~Halts(gates)
<1> DEFINE stopping == {i \in DOMAIN gates : gates[i].stops}
<1>1. SUFFICES ASSUME stopping # {} PROVE FALSE
  BY DEF Halts
<1>2. stopping \subseteq Nat
  OBVIOUS
<1>3. PICK i \in stopping : \A j \in stopping : i <= j
  <2> HIDE DEF stopping
  <2> QED BY <1>1, <1>2, LeastOne
<1> DEFINE first == CHOOSE k \in stopping : \A j \in stopping : k <= j
<1>4. first \in stopping
  <2> HIDE DEF stopping
  <2> QED BY <1>3
<1>5. FirstStop(gates) = gates[first]
  BY <1>1 DEF FirstStop
<1>6. gates[first] \in Gates
  BY <1>4
<1> HIDE DEF first
<1> QED BY <1>5, <1>6, OpenIsNoName DEF Gates

LEMMA Joined ==
    ASSUME NEW s \in Seq(Gates), NEW t \in Seq(Gates)
    PROVE  s \o t \in Seq(Gates) /\ (Halts(s) => Halts(s \o t)) /\ (Halts(t) => Halts(s \o t))
<1>1. /\ s \o t \in Seq(Gates) /\ Len(s \o t) = Len(s) + Len(t) /\ Len(s) \in Nat /\ Len(t) \in Nat
      /\ DOMAIN s = 1 .. Len(s) /\ DOMAIN t = 1 .. Len(t) /\ DOMAIN (s \o t) = 1 .. Len(s) + Len(t)
  OBVIOUS
<1>2. ASSUME NEW i \in DOMAIN s PROVE i \in DOMAIN (s \o t) /\ (s \o t)[i] = s[i]
  BY <1>1
<1>3. ASSUME NEW i \in DOMAIN t PROVE Len(s) + i \in DOMAIN (s \o t) /\ (s \o t)[Len(s) + i] = t[i]
  BY <1>1
<1> QED BY <1>1, <1>2, <1>3 DEF Halts

(* What the chain reads of a candidate is a fact or not. *)
LEMMA FactsAre ==
    ASSUME NEW c, NEW m
    PROVE  /\ \A f : Has(c, f) \in BOOLEAN
           /\ Directional(c, m) \in BOOLEAN /\ DirectionalTrendExempt(c, m) \in BOOLEAN
           /\ BetaDownShortExempt(c, m) \in BOOLEAN
           /\ m.cascadeShort \in BOOLEAN =>
                CascadeShortScan(c, m) \in BOOLEAN /\ CascadeShortEntry(c, m) \in BOOLEAN
  BY DEF Has, Directional, DirectionalTrendExempt, BetaDownShortExempt, CascadeShortScan, CascadeShortEntry

World(m) == {m.full, m.duplicate, m.cascadeShort} \subseteq BOOLEAN

LEMMA SmartGatesAre ==
    ASSUME NEW c, NEW m
    PROVE  /\ SmartGates(c, m) \in Seq(Gates)
           /\ ~Halts(SmartGates(c, m)) =>
                /\ SelectDirection(c, m.cascadeShort) # "WAIT"
                /\ SmartTrend(c, m) \in {"long", "short"} => ScanTrend(c) # "no_trend"
<1> DEFINE a == (SelectDirection(c, m.cascadeShort) = "WAIT")
           b == (SmartTrend(c, m) \in {"long", "short"} /\ ScanTrend(c) = "no_trend")
           x == Rejects("smartWait", a)
           y == Rejects("demoted", b)
<1>0. "smartWait" \in Names /\ "demoted" \in Names
  BY Zenon DEF Names
<1>1. x \in Gates /\ y \in Gates /\ x.stops = a /\ y.stops = b
  BY <1>0, GateIs
<1>2. SmartGates(c, m) = <<x, y>>
  BY DEF SmartGates
<1> HIDE DEF x, y
<1>3. <<x, y>> \in Seq(Gates)
  BY <1>1
<1>4. x.stops \/ y.stops => Halts(<<x, y>>)
  BY DEF Halts
<1> QED BY <1>1, <1>2, <1>3, <1>4

LEMMA MarketGatesAre == ASSUME NEW c, NEW m PROVE MarketGates(c, m) \in Seq(Gates)
<1> DEFINE answer == m.block[FinalTrend(c, m)]
<1>0. "gateUnreadable" \in Names /\ "marketBlocker" \in Names
  BY Zenon DEF Names
<1>1. /\ Skips("gateUnreadable", answer = "unreadable") \in Gates
      /\ Rejects("marketBlocker", answer = "blocked") \in Gates
  BY <1>0, GateIs
<1> QED BY <1>1 DEF MarketGates

LEMMA DirectionGatesAre == ASSUME NEW c, NEW m, World(m) PROVE DirectionGates(c, m) \in Seq(Gates)
<1> DEFINE judged == Directional(c, m) /\ ~CascadeShortEntry(c, m)
           a == judged /\ Has(c, "flipLock") /\ ~Has(c, "priceAction")
           b == /\ judged /\ Has(c, "noConfluence")
                /\ ~DirectionalTrendExempt(c, m) /\ ~Has(c, "priceAction")
<1>1. Rejects("flipLock", a) \in Gates /\ Rejects("unconfirmed", b) \in Gates
  <2>1. a \in BOOLEAN /\ b \in BOOLEAN
    OBVIOUS
  <2> HIDE DEF a, b
  <2> QED BY <2>1, GateIs DEF Names
<1>2. DirectionGates(c, m) = <<Rejects("flipLock", a), Rejects("unconfirmed", b)>>
  BY DEF DirectionGates
<1> HIDE DEF a, b
<1> QED BY <1>1, <1>2

LEMMA BetaGatesAre == ASSUME NEW c, NEW m PROVE BetaGates(c, m) \in Seq(Gates)
<1> DEFINE a == BetaNow(c, m) = "down" /\ FinalTrend(c, m) # "short"
           b == BetaNow(c, m) = "up" /\ FinalTrend(c, m) = "short"
<1>1. Rejects("betaDown", a) \in Gates /\ Rejects("betaUp", b) \in Gates
  <2>1. a \in BOOLEAN /\ b \in BOOLEAN
    OBVIOUS
  <2> HIDE DEF a, b
  <2> QED BY <2>1, GateIs DEF Names
<1> QED BY <1>1 DEF BetaGates

LEMMA CascadeGateIs ==
    ASSUME NEW c, NEW m, World(m)
    PROVE  /\ <<CascadeGate(c, m)>> \in Seq(Gates)
           /\ ~Halts(<<CascadeGate(c, m)>>) => (m.cascadeShort => FinalTrend(c, m) = "short")
<1> DEFINE a == m.cascadeShort /\ FinalTrend(c, m) # "short"
           x == CascadeGate(c, m)
<1>1. x \in Gates /\ x.stops = a
  <2>1. a \in BOOLEAN
    BY DEF World
  <2>2. x = Rejects("cascadeShortOnly", a) /\ "cascadeShortOnly" \in Names
    BY DEF CascadeGate, Names
  <2> HIDE DEF a, x
  <2> QED BY <2>1, <2>2, GateIs
<1> HIDE DEF x
<1>2. <<x>> \in Seq(Gates) /\ (x.stops => Halts(<<x>>))
  BY <1>1 DEF Halts
<1> QED BY <1>1, <1>2 DEF x

LEMMA ExposureGatesAre == ASSUME NEW c PROVE ExposureGates(c) \in Seq(Gates)
<1> DEFINE a == Rejects("deltaUnreadable", Has(c, "deltaUnreadable"))
           b == Rejects("deltaOver", Has(c, "deltaOver"))
           d == Rejects("thinBook", Has(c, "thinBook"))
           e == Rejects("feeFloor", Has(c, "feeFloor"))
           f == Rejects("knife", Has(c, "knife"))
<1>1. {"deltaUnreadable", "deltaOver", "thinBook", "feeFloor", "knife"} \subseteq Names
  BY DEF Names
<1>2. a \in Gates /\ b \in Gates /\ d \in Gates /\ e \in Gates /\ f \in Gates
  <2>1. \A f0 : Has(c, f0) \in BOOLEAN
    BY DEF Has
  <2> QED BY <1>1, <2>1, GateIs
<1>3. ExposureGates(c) = <<a, b, d, e, f>>
  BY DEF ExposureGates
<1> HIDE DEF a, b, d, e, f
<1> QED BY <1>2, <1>3

(* The gates both chains have. *)
LEMMA SharedGatesAre ==
    ASSUME NEW c, NEW m, World(m)
    PROVE  /\ {FlushGate(c, m), TimingGate(c, m), DepthGate(c, m), ProtectiveGate(c, m), VolatilityGate(c, m)}
                 \subseteq Gates
           /\ Gate("duplicateUnreadable", Has(c, "duplicateUnreadable"), FALSE, FALSE) \in Gates
           /\ Rejects("duplicate", m.duplicate) \in Gates
           /\ Rejects("full", m.full) \in Gates /\ Rejects("full", m.full).stops = m.full
           /\ \A name \in Names : \A f :
                /\ Rejects(name, Has(c, f)) \in Gates /\ Skips(name, Has(c, f)) \in Gates
                /\ RejectsLoudly(name, Has(c, f)) \in Gates /\ SkipsLoudly(name, Has(c, f)) \in Gates
<1>0. {"flush", "timing", "depth", "protectiveCooldown", "volExpansion", "duplicate", "full",
       "duplicateUnreadable"} \subseteq Names
  BY DEF Names
<1>1. FlushGate(c, m) \in Gates /\ TimingGate(c, m) \in Gates /\ DepthGate(c, m) \in Gates
  BY <1>0, FactsAre, GateIs DEF FlushGate, TimingGate, DepthGate
<1>2. ProtectiveGate(c, m) \in Gates
  BY <1>0, FactsAre, GateIs DEF ProtectiveGate
<1>3. VolatilityGate(c, m) \in Gates
  BY <1>0, FactsAre, GateIs DEF VolatilityGate
<1>4. Gate("duplicateUnreadable", Has(c, "duplicateUnreadable"), FALSE, FALSE) \in Gates
  BY <1>0, FactsAre, GateIs
<1>5. /\ Rejects("duplicate", m.duplicate) \in Gates
      /\ Rejects("full", m.full) \in Gates /\ Rejects("full", m.full).stops = m.full
  BY <1>0, GateIs DEF World
<1>6. \A name \in Names : \A f :
         /\ Rejects(name, Has(c, f)) \in Gates /\ Skips(name, Has(c, f)) \in Gates
         /\ RejectsLoudly(name, Has(c, f)) \in Gates /\ SkipsLoudly(name, Has(c, f)) \in Gates
  BY FactsAre, GateIs
<1> QED BY <1>1, <1>2, <1>3, <1>4, <1>5, <1>6

LEMMA RealPartsAre ==
    ASSUME NEW c, NEW m, World(m)
    PROVE  /\ RealEligibility(c, m) \in Seq(Gates) /\ RealPortfolio(c, m) \in Seq(Gates)
           /\ RealSizing(c, m) \in Seq(Gates) /\ RealTargets(c) \in Seq(Gates)
           /\ RealPreflight(c) \in Seq(Gates)
           /\ <<RejectsLoudly("antiHunt", Has(c, "tooClose"))>> \in Seq(Gates)
           /\ m.full => Halts(RealEligibility(c, m))
<1>1. RealEligibility(c, m) \in Seq(Gates) /\ (m.full => Halts(RealEligibility(c, m)))
  <2> DEFINE a == Rejects("losing", Has(c, "losing"))
             b == Rejects("full", m.full)
             d == TimingGate(c, m)
             e == Rejects("noAudit", Has(c, "noAudit"))
             f == FlushGate(c, m)
             g == Rejects("staleTrend", Has(c, "staleTrend") \/ Has(c, "unreadablePrice"))
             h == Rejects("drift", /\ Has(c, "drift")
                        /\ ~(m.cascadeShort \/ DirectionalTrendExempt(c, m)))
             i == DepthGate(c, m)
  <2>1. {"losing", "noAudit", "staleTrend", "drift"} \subseteq Names
    BY DEF Names
  <2>2. a \in Gates /\ b \in Gates /\ d \in Gates /\ e \in Gates /\ f \in Gates /\ i \in Gates /\ b.stops = m.full
    BY <2>1, SharedGatesAre
  <2>3. g \in Gates /\ h \in Gates
    BY <2>1, FactsAre, GateIs
  <2>4. RealEligibility(c, m) = <<a, b, d, e, f, g, h, i>>
    BY DEF RealEligibility
  <2> HIDE DEF a, b, d, e, f, g, h, i
  <2>5. <<a, b, d, e, f, g, h, i>> \in Seq(Gates)
    BY <2>2, <2>3
  <2>6. b.stops => Halts(<<a, b, d, e, f, g, h, i>>)
    <3>1. 2 \in DOMAIN <<a, b, d, e, f, g, h, i>> /\ <<a, b, d, e, f, g, h, i>>[2] = b
      OBVIOUS
    <3> QED BY <3>1 DEF Halts
  <2> QED BY <2>2, <2>4, <2>5, <2>6
<1>2. RealPortfolio(c, m) \in Seq(Gates)
  <2> DEFINE a == Gate("duplicateUnreadable", Has(c, "duplicateUnreadable"), FALSE, FALSE)
             b == Rejects("duplicate", m.duplicate)
             d == ProtectiveGate(c, m)
             e == Rejects("sectorFull", Has(c, "sectorFull"))
             f == Rejects("correlated", Has(c, "correlated"))
             g == Rejects("exchangeRejected", Has(c, "exchangeRejected"))
  <2>1. {"sectorFull", "correlated", "exchangeRejected"} \subseteq Names
    BY DEF Names
  <2>2. a \in Gates /\ b \in Gates /\ d \in Gates /\ e \in Gates /\ f \in Gates /\ g \in Gates
    BY <2>1, SharedGatesAre, FactsAre, GateIs
  <2>3. RealPortfolio(c, m) = <<a, b, d, e, f, g>>
    BY DEF RealPortfolio
  <2> HIDE DEF a, b, d, e, f, g
  <2> QED BY <2>2, <2>3
<1>3. RealSizing(c, m) \in Seq(Gates)
  <2> DEFINE a == RejectsLoudly("fundsUnreadable", Has(c, "fundsUnreadable"))
             b == RejectsLoudly("marginReserve", Has(c, "noFunds"))
             d == VolatilityGate(c, m)
             e == Rejects("directionalOff", Directional(c, m) /\ Has(c, "directionalOff"))
  <2>1. {"fundsUnreadable", "marginReserve", "directionalOff"} \subseteq Names
    BY DEF Names
  <2>2. a \in Gates /\ b \in Gates /\ d \in Gates /\ e \in Gates
    BY <2>1, SharedGatesAre, FactsAre, GateIs
  <2>3. RealSizing(c, m) = <<a, b, d, e>>
    BY DEF RealSizing
  <2> HIDE DEF a, b, d, e
  <2> QED BY <2>2, <2>3
<1>4. RealTargets(c) \in Seq(Gates)
  <2> DEFINE a == RejectsLoudly("riskEngine", Has(c, "risk"))
             b == SkipsLoudly("badSymbol", Has(c, "badSymbol"))
             d == Rejects("roi", Has(c, "roi"))
             e == RejectsLoudly("unarmed", Has(c, "unarmed"))
             f == RejectsLoudly("stress", Has(c, "stress"))
             g == SkipsLoudly("stopEnvelope", Has(c, "envelope"))
  <2>1. {"riskEngine", "badSymbol", "roi", "unarmed", "stress", "stopEnvelope"} \subseteq Names
    BY DEF Names
  <2>2. a \in Gates /\ b \in Gates /\ d \in Gates /\ e \in Gates /\ f \in Gates /\ g \in Gates
    BY <2>1, SharedGatesAre, FactsAre, GateIs
  <2>3. RealTargets(c) = <<a, b, d, e, f, g>>
    BY DEF RealTargets
  <2> HIDE DEF a, b, d, e, f, g
  <2> QED BY <2>2, <2>3
<1>5. RealPreflight(c) \in Seq(Gates)
  <2> DEFINE a == Skips("backtestPending", Has(c, "testPending"))
             b == Rejects("backtest", Has(c, "testRefused"))
             d == Rejects("forbidden", Has(c, "forbidden"))
             e == RejectsLoudly("checkParams", Has(c, "checkFailed"))
             f == SkipsLoudly("belowMinimum", Has(c, "belowMinimum"))
             g == RejectsLoudly("aboveMaximum", Has(c, "aboveMaximum"))
             h == RejectsLoudly("noLiquidation", Has(c, "noLiquidation"))
             i == RejectsLoudly("liquidationGuard", Has(c, "liquidationClose"))
  <2>1. {"backtestPending", "backtest", "forbidden", "checkParams", "belowMinimum", "aboveMaximum", "noLiquidation", "liquidationGuard"} \subseteq Names
    BY DEF Names
  <2>2. a \in Gates /\ b \in Gates /\ d \in Gates /\ e \in Gates /\ f \in Gates /\ g \in Gates /\ h \in Gates /\ i \in Gates
    BY <2>1, SharedGatesAre, FactsAre, GateIs
  <2>3. RealPreflight(c) = <<a, b, d, e, f, g, h, i>>
    BY DEF RealPreflight
  <2> HIDE DEF a, b, d, e, f, g, h, i
  <2> QED BY <2>2, <2>3
<1>6. <<RejectsLoudly("antiHunt", Has(c, "tooClose"))>> \in Seq(Gates)
  <2> DEFINE a == RejectsLoudly("antiHunt", Has(c, "tooClose"))
  <2>1. {"antiHunt"} \subseteq Names
    BY DEF Names
  <2>2. a \in Gates
    BY <2>1, SharedGatesAre, FactsAre, GateIs
  <2>3. <<RejectsLoudly("antiHunt", Has(c, "tooClose"))>> = <<a>>
    OBVIOUS
  <2> HIDE DEF a
  <2> QED BY <2>2, <2>3
<1> QED BY <1>1, <1>2, <1>3, <1>4, <1>5, <1>6

LEMMA PaperPartsAre ==
    ASSUME NEW c, NEW m, World(m)
    PROVE  /\ <<Rejects("losing", Has(c, "losing")), TimingGate(c, m),
                Rejects("noAudit", Has(c, "noAudit"))>> \in Seq(Gates)
           /\ <<FlushGate(c, m)>> \in Seq(Gates)
           /\ PaperPortfolio(c, m) \in Seq(Gates) /\ PaperTape(c, m) \in Seq(Gates)
           /\ PaperAdmission(c) \in Seq(Gates)
           /\ <<Rejects("antiHunt", Has(c, "tooClose"))>> \in Seq(Gates)
           /\ m.full => Halts(PaperPortfolio(c, m))
<1>1. <<Rejects("losing", Has(c, "losing")), TimingGate(c, m),
        Rejects("noAudit", Has(c, "noAudit"))>> \in Seq(Gates)
  <2> DEFINE a == Rejects("losing", Has(c, "losing"))
             b == TimingGate(c, m)
             d == Rejects("noAudit", Has(c, "noAudit"))
  <2>1. {"losing", "noAudit"} \subseteq Names
    BY DEF Names
  <2>2. a \in Gates /\ b \in Gates /\ d \in Gates
    BY <2>1, SharedGatesAre, FactsAre, GateIs
  <2>3. <<Rejects("losing", Has(c, "losing")), TimingGate(c, m),
             Rejects("noAudit", Has(c, "noAudit"))>> = <<a, b, d>>
    OBVIOUS
  <2> HIDE DEF a, b, d
  <2> QED BY <2>2, <2>3
<1>2. <<FlushGate(c, m)>> \in Seq(Gates)
  <2> DEFINE a == FlushGate(c, m)
  <2>1. {"flush"} \subseteq Names
    BY DEF Names
  <2>2. a \in Gates
    BY <2>1, SharedGatesAre, FactsAre, GateIs
  <2>3. <<FlushGate(c, m)>> = <<a>>
    OBVIOUS
  <2> HIDE DEF a
  <2> QED BY <2>2, <2>3
<1>3. PaperPortfolio(c, m) \in Seq(Gates) /\ (m.full => Halts(PaperPortfolio(c, m)))
  <2> DEFINE a == Gate("duplicateUnreadable", Has(c, "duplicateUnreadable"), FALSE, FALSE)
             b == Rejects("duplicate", m.duplicate)
             d == Rejects("full", m.full)
             e == ProtectiveGate(c, m)
             f == Rejects("sectorFull", Has(c, "sectorFull"))
             g == Rejects("correlated", Has(c, "correlated"))
  <2>1. {"sectorFull", "correlated"} \subseteq Names
    BY DEF Names
  <2>2. a \in Gates /\ b \in Gates /\ d \in Gates /\ e \in Gates /\ f \in Gates /\ g \in Gates /\ d.stops = m.full
    BY <2>1, SharedGatesAre
  <2>3. PaperPortfolio(c, m) = <<a, b, d, e, f, g>>
    BY DEF PaperPortfolio
  <2> HIDE DEF a, b, d, e, f, g
  <2>4. <<a, b, d, e, f, g>> \in Seq(Gates)
    BY <2>2
  <2>5. d.stops => Halts(<<a, b, d, e, f, g>>)
    <3>1. 3 \in DOMAIN <<a, b, d, e, f, g>> /\ <<a, b, d, e, f, g>>[3] = d
      OBVIOUS
    <3> QED BY <3>1 DEF Halts
  <2> QED BY <2>2, <2>3, <2>4, <2>5
<1>4. PaperTape(c, m) \in Seq(Gates)
  <2> DEFINE a == Rejects("staleTrend", Has(c, "unreadablePrice"))
             b == Rejects("drift", /\ Has(c, "drift")
                                /\ ~(m.cascadeShort \/ BetaDownShortExempt(c, m)))
             d == DepthGate(c, m)
             e == Skips("backtestPending", Has(c, "testPending"))
             f == Rejects("backtest", Has(c, "testRefused"))
             g == VolatilityGate(c, m)
             h == Rejects("neutralOverride", /\ SmartTrend(c, m) = "no_trend"
                                          /\ ScanTrend(c) # "no_trend"
                                          /\ Has(c, "adxAbove32"))
             i == Rejects("directionalOff", Directional(c, m) /\ Has(c, "directionalOff"))
  <2>1. {"staleTrend", "drift", "backtestPending", "backtest", "neutralOverride", "directionalOff"} \subseteq Names
    BY DEF Names
  <2>2. a \in Gates /\ b \in Gates /\ d \in Gates /\ e \in Gates /\ f \in Gates /\ g \in Gates /\ h \in Gates /\ i \in Gates
    BY <2>1, SharedGatesAre, FactsAre, GateIs
  <2>3. PaperTape(c, m) = <<a, b, d, e, f, g, h, i>>
    BY DEF PaperTape
  <2> HIDE DEF a, b, d, e, f, g, h, i
  <2> QED BY <2>2, <2>3
<1>5. PaperAdmission(c) \in Seq(Gates)
  <2> DEFINE a == Rejects("stress", Has(c, "stress"))
             b == Rejects("roi", Has(c, "roi"))
             d == Rejects("riskEngine", Has(c, "risk"))
             e == Rejects("stopEnvelope", Has(c, "envelope"))
             f == Skips("noClient", Has(c, "noClient"))
             g == Rejects("forbidden", Has(c, "forbidden"))
             h == Skips("checkParams", Has(c, "checkFailed"))
             i == Rejects("belowMinimum", Has(c, "belowMinimum"))
  <2>1. {"stress", "roi", "riskEngine", "stopEnvelope", "noClient", "forbidden", "checkParams", "belowMinimum"} \subseteq Names
    BY DEF Names
  <2>2. a \in Gates /\ b \in Gates /\ d \in Gates /\ e \in Gates /\ f \in Gates /\ g \in Gates /\ h \in Gates /\ i \in Gates
    BY <2>1, SharedGatesAre, FactsAre, GateIs
  <2>3. PaperAdmission(c) = <<a, b, d, e, f, g, h, i>>
    BY DEF PaperAdmission
  <2> HIDE DEF a, b, d, e, f, g, h, i
  <2> QED BY <2>2, <2>3
<1>6. <<Rejects("antiHunt", Has(c, "tooClose"))>> \in Seq(Gates)
  <2> DEFINE a == Rejects("antiHunt", Has(c, "tooClose"))
  <2>1. {"antiHunt"} \subseteq Names
    BY DEF Names
  <2>2. a \in Gates
    BY <2>1, SharedGatesAre, FactsAre, GateIs
  <2>3. <<Rejects("antiHunt", Has(c, "tooClose"))>> = <<a>>
    OBVIOUS
  <2> HIDE DEF a
  <2> QED BY <2>2, <2>3
<1> QED BY <1>1, <1>2, <1>3, <1>4, <1>5, <1>6

(* A gate that stops stops the chain it is in. *)
LEMMA RealChainIs ==
    ASSUME NEW c, NEW m, World(m)
    PROVE  /\ RealChain(c, m) \in Seq(Gates)
           /\ m.full \/ Halts(SmartGates(c, m)) \/ Halts(<<CascadeGate(c, m)>>) => Halts(RealChain(c, m))
<1> DEFINE confirm1 == MarketGates(c, m) \o <<CascadeGate(c, m)>>
           confirm2 == confirm1 \o DirectionGates(c, m)
           confirm3 == confirm2 \o BetaGates(c, m)
           confirm  == confirm3 \o <<RejectsLoudly("antiHunt", Has(c, "tooClose"))>>
           chain1 == RealEligibility(c, m) \o SmartGates(c, m)
           chain2 == chain1 \o RealPortfolio(c, m)
           chain3 == chain2 \o RealSizing(c, m)
           chain4 == chain3 \o confirm
           chain5 == chain4 \o ExposureGates(c)
           chain6 == chain5 \o RealTargets(c)
           chain7 == chain6 \o RealPreflight(c)
<1>1. confirm1 \in Seq(Gates) /\ (Halts(<<CascadeGate(c, m)>>) => Halts(confirm1))
  BY Joined, MarketGatesAre, CascadeGateIs
<1>2. confirm2 \in Seq(Gates) /\ (Halts(confirm1) => Halts(confirm2))
  <2> HIDE DEF confirm1
  <2> QED BY <1>1, Joined, DirectionGatesAre
<1>3. confirm3 \in Seq(Gates) /\ (Halts(confirm2) => Halts(confirm3))
  <2> HIDE DEF confirm2
  <2> QED BY <1>2, Joined, BetaGatesAre
<1>4. confirm \in Seq(Gates) /\ (Halts(confirm3) => Halts(confirm))
  <2> HIDE DEF confirm3
  <2> QED BY <1>3, Joined, RealPartsAre
<1>5. RealConfirmation(c, m) = confirm
  BY DEF RealConfirmation
<1> HIDE DEF confirm, confirm1, confirm2, confirm3
<1>6. /\ chain1 \in Seq(Gates) /\ (Halts(SmartGates(c, m)) => Halts(chain1))
      /\ Halts(RealEligibility(c, m)) => Halts(chain1)
  BY Joined, RealPartsAre, SmartGatesAre
<1>7. chain2 \in Seq(Gates) /\ (Halts(chain1) => Halts(chain2))
  <2> HIDE DEF chain1
  <2> QED BY <1>6, Joined, RealPartsAre
<1>8. chain3 \in Seq(Gates) /\ (Halts(chain2) => Halts(chain3))
  <2> HIDE DEF chain2
  <2> QED BY <1>7, Joined, RealPartsAre
<1>9. chain4 \in Seq(Gates) /\ (Halts(chain3) => Halts(chain4)) /\ (Halts(confirm) => Halts(chain4))
  <2> HIDE DEF chain3
  <2> QED BY <1>4, <1>8, Joined
<1>10. chain5 \in Seq(Gates) /\ (Halts(chain4) => Halts(chain5))
  <2> HIDE DEF chain4
  <2> QED BY <1>9, Joined, ExposureGatesAre
<1>11. chain6 \in Seq(Gates) /\ (Halts(chain5) => Halts(chain6))
  <2> HIDE DEF chain5
  <2> QED BY <1>10, Joined, RealPartsAre
<1>12. chain7 \in Seq(Gates) /\ (Halts(chain6) => Halts(chain7))
  <2> HIDE DEF chain6
  <2> QED BY <1>11, Joined, RealPartsAre
<1>13. RealChain(c, m) = chain7
  BY <1>5 DEF RealChain
<1> HIDE DEF chain1, chain2, chain3, chain4, chain5, chain6, chain7
<1> QED BY <1>1, <1>2, <1>3, <1>4, <1>6, <1>7, <1>8, <1>9, <1>10, <1>11, <1>12, <1>13, RealPartsAre

LEMMA PaperChainIs ==
    ASSUME NEW c, NEW m, World(m)
    PROVE  /\ PaperChain(c, m) \in Seq(Gates)
           /\ m.full \/ Halts(SmartGates(c, m)) \/ Halts(<<CascadeGate(c, m)>>) => Halts(PaperChain(c, m))
<1> DEFINE first == <<Rejects("losing", Has(c, "losing")), TimingGate(c, m),
                      Rejects("noAudit", Has(c, "noAudit"))>>
           eligible1 == first \o SmartGates(c, m)
           eligible == eligible1 \o <<FlushGate(c, m)>>
           confirm1 == MarketGates(c, m) \o <<CascadeGate(c, m)>>
           confirm2 == confirm1 \o BetaGates(c, m)
           confirm3 == confirm2 \o <<Rejects("antiHunt", Has(c, "tooClose"))>>
           confirm  == confirm3 \o DirectionGates(c, m)
           chain1 == eligible \o PaperPortfolio(c, m)
           chain2 == chain1 \o PaperTape(c, m)
           chain3 == chain2 \o confirm
           chain4 == chain3 \o ExposureGates(c)
           chain5 == chain4 \o PaperAdmission(c)
<1>0. first \in Seq(Gates)
  BY PaperPartsAre
<1>1. eligible1 \in Seq(Gates) /\ (Halts(SmartGates(c, m)) => Halts(eligible1))
  <2> HIDE DEF first
  <2> QED BY <1>0, Joined, SmartGatesAre
<1>2. eligible \in Seq(Gates) /\ (Halts(eligible1) => Halts(eligible))
  <2> HIDE DEF eligible1
  <2> QED BY <1>1, Joined, PaperPartsAre
<1>3. PaperEligibility(c, m) = eligible
  BY DEF PaperEligibility
<1> HIDE DEF first, eligible1, eligible
<1>4. confirm1 \in Seq(Gates) /\ (Halts(<<CascadeGate(c, m)>>) => Halts(confirm1))
  BY Joined, MarketGatesAre, CascadeGateIs
<1>5. confirm2 \in Seq(Gates) /\ (Halts(confirm1) => Halts(confirm2))
  <2> HIDE DEF confirm1
  <2> QED BY <1>4, Joined, BetaGatesAre
<1>6. confirm3 \in Seq(Gates) /\ (Halts(confirm2) => Halts(confirm3))
  <2> HIDE DEF confirm2
  <2> QED BY <1>5, Joined, PaperPartsAre
<1>7. confirm \in Seq(Gates) /\ (Halts(confirm3) => Halts(confirm))
  <2> HIDE DEF confirm3
  <2> QED BY <1>6, Joined, DirectionGatesAre
<1>8. PaperConfirmation(c, m) = confirm
  BY DEF PaperConfirmation
<1> HIDE DEF confirm, confirm1, confirm2, confirm3
<1>9. /\ chain1 \in Seq(Gates) /\ (Halts(eligible) => Halts(chain1))
      /\ Halts(PaperPortfolio(c, m)) => Halts(chain1)
  BY <1>2, Joined, PaperPartsAre
<1>10. chain2 \in Seq(Gates) /\ (Halts(chain1) => Halts(chain2))
  <2> HIDE DEF chain1
  <2> QED BY <1>9, Joined, PaperPartsAre
<1>11. chain3 \in Seq(Gates) /\ (Halts(chain2) => Halts(chain3)) /\ (Halts(confirm) => Halts(chain3))
  <2> HIDE DEF chain2
  <2> QED BY <1>7, <1>10, Joined
<1>12. chain4 \in Seq(Gates) /\ (Halts(chain3) => Halts(chain4))
  <2> HIDE DEF chain3
  <2> QED BY <1>11, Joined, ExposureGatesAre
<1>13. chain5 \in Seq(Gates) /\ (Halts(chain4) => Halts(chain5))
  <2> HIDE DEF chain4
  <2> QED BY <1>12, Joined, PaperPartsAre
<1>14. PaperChain(c, m) = chain5
  BY <1>3, <1>8 DEF PaperChain
<1> HIDE DEF chain1, chain2, chain3, chain4, chain5
<1> QED BY <1>1, <1>2, <1>4, <1>5, <1>6, <1>7, <1>9, <1>10, <1>11, <1>12, <1>13, <1>14, PaperPartsAre

(* What is open has a free slot, a smart direction that the scan's backs and,
   in an out-of-turn cascade scan, the short side. *)
LEMMA OpenIs ==
    ASSUME NEW c, NEW m, World(m), Opens(c, m)
    PROVE  /\ ~m.full /\ (m.cascadeShort => FinalTrend(c, m) = "short")
           /\ SelectDirection(c, m.cascadeShort) # "WAIT"
           /\ SmartTrend(c, m) \in {"long", "short"} => ScanTrend(c) # "no_trend"
<1> DEFINE chain == IF m.fleet = "REAL" THEN RealChain(c, m) ELSE PaperChain(c, m)
<1>1. /\ chain \in Seq(Gates)
      /\ m.full \/ Halts(SmartGates(c, m)) \/ Halts(<<CascadeGate(c, m)>>) => Halts(chain)
  BY RealChainIs, PaperChainIs
<1>2. FirstStop(chain).gate = "open"
  BY DEF Opens, Verdict
<1> HIDE DEF chain
<1>3. ~Halts(chain)
  BY <1>1, <1>2, FirstStopIs
<1> QED BY <1>1, <1>3, SmartGatesAre, CascadeGateIs

(* The direction of what is open is the regime's. *)
LEMMA NoneMisled ==
    ASSUME NEW c, NEW m, World(m), c.regime \in Regimes
    PROVE  ~Misled(c, m)
<1> SUFFICES ASSUME Opens(c, m)
             PROVE  /\ FinalTrend(c, m) = "long" => c.regime = "TREND_UP" /\ ~(Has(c, "panic") /\ ~Has(c, "euphoria"))
                    /\ FinalTrend(c, m) = "short" => c.regime = "TREND_DOWN"
  BY DEF Misled
<1>1. /\ SelectDirection(c, m.cascadeShort) # "WAIT"
      /\ SmartTrend(c, m) \in {"long", "short"} => ScanTrend(c) # "no_trend"
  BY OpenIs
<1>2. CASE c.regime = "TREND_UP"
  BY <1>1, <1>2 DEF FinalTrend, SmartTrend, ScanTrend, SelectDirection
<1>3. CASE c.regime = "TREND_DOWN"
  BY <1>1, <1>3 DEF FinalTrend, SmartTrend, ScanTrend, SelectDirection
<1>4. CASE c.regime = "RANGE"
  BY <1>1, <1>4 DEF FinalTrend, SmartTrend, ScanTrend, SelectDirection
<1> QED BY <1>2, <1>3, <1>4 DEF Regimes

--------------------------------------------------------------------------
(* EntryPass: what a pass opens has a slot and its direction. *)

LEMMA ContextIs ==
    ASSUME NEW p, NEW s, execMode \in Fleets, market \in Markets,
           p.cascadeShort \in BOOLEAN, p.beta \in {"flat", "down", "up"},
           p.seen \in Nat, EntryPassAssumption
    PROVE  /\ Context(p, s) \in Contexts
           /\ Context(p, s).full <=> p.seen >= MaxActiveBots
           /\ Context(p, s).cascadeShort = p.cascadeShort
<1> DEFINE block == [d \in Directions |-> MarketAnswer(d, p)]
<1>1. \A d \in Directions : MarketAnswer(d, p) \in BlockAnswers
  BY DEF MarketAnswer, Markets, BlockAnswers
<1>2. MarketAnswer("long", p) = MarketAnswer("no_trend", p)
  BY DEF MarketAnswer
<1>3. block \in {b \in [Directions -> BlockAnswers] : b["long"] = b["no_trend"]}
  BY <1>1, <1>2 DEF Directions
<1> DEFINE full == p.seen >= MaxActiveBots
           duplicate == s \in openGrids
<1>4. Context(p, s) = [fleet |-> execMode, cascadeShort |-> p.cascadeShort, beta |-> p.beta,
                       full |-> full, duplicate |-> duplicate, block |-> block]
  BY DEF Context
<1>5. full \in BOOLEAN /\ duplicate \in BOOLEAN /\ (full <=> p.seen >= MaxActiveBots)
  OBVIOUS
<1> HIDE DEF block, full, duplicate
<1>6. Context(p, s) \in Contexts
  BY <1>3, <1>4, <1>5 DEF Contexts
<1>7. Context(p, s).full = full /\ Context(p, s).cascadeShort = p.cascadeShort
  BY <1>4
<1> QED BY <1>5, <1>6, <1>7

(* An open answer comes from an open candidate. *)
LEMMA OutcomeIs ==
    ASSUME NEW m \in Contexts, NEW o \in Outcomes[m]
    PROVE  /\ o.short \in BOOLEAN
           /\ o.verdict = "open" => ~m.full /\ (m.cascadeShort => o.short)
<1>1. Outcomes = [w \in Contexts |-> {Outcome(c, w) : c \in PassCases}]
  BY DEF Outcomes
<1>2. PICK c \in PassCases : o = Outcome(c, m)
  BY <1>1
<1>3. o.short = (FinalTrend(c, m) = "short")
  BY <1>2 DEF Outcome
<1>4. o.verdict = "open" => Verdict(c, m).gate = "open"
  BY <1>2 DEF Outcome
<1>5. World(m)
  BY DEF World, Contexts
<1> QED BY <1>3, <1>4, <1>5, OpenIs DEF Opens

PassRows ==
    [pc : {"idle", "loop", "create", "ended"}, cascadeShort : BOOLEAN, beta : {"flat", "down", "up"},
     memo : {"clear", "error"}, seen : Nat, atStart : Nat, left : SUBSET Symbols, opened : Nat,
     unshort : BOOLEAN, errors : BOOLEAN, noted : BOOLEAN,
     creating : SUBSET [symbol : Symbols, short : BOOLEAN]]

(* A pass counts what it opens, and only on the free side of the limit. *)
Counted(r) ==
    /\ r.seen = r.atStart + r.opened
    /\ r.pc = "create" => r.seen < MaxActiveBots
    /\ r.opened > 0 => r.seen <= MaxActiveBots
(* What an out-of-turn cascade scan creates or has opened is a short. *)
ShortOnly(r) == r.cascadeShort => ~r.unshort /\ \A g \in r.creating : g.short

PassInv ==
    /\ execMode \in Fleets /\ market \in Markets /\ IsFiniteSet(openGrids)
    /\ \A p \in Passes : pass[p] \in PassRows /\ Counted(pass[p]) /\ ShortOnly(pass[p])
    /\ pass \in [Passes -> PassRows]

FreshRow(cascade, beta, memo, n, accepted) ==
    [IdlePass EXCEPT !.pc = "loop", !.cascadeShort = cascade, !.beta = beta,
                     !.memo = memo, !.seen = n, !.atStart = n, !.left = accepted]
EndedRow == [IdlePass EXCEPT !.pc = "ended"]
JudgedRow(r, s, o) ==
    LET judged == [r EXCEPT !.left = @ \ {s}, !.errors = @ \/ o.error]
    IN  CASE o.verdict = "open" ->
               [judged EXCEPT !.pc = "create", !.creating = {[symbol |-> s, short |-> o.short]}]
          [] o.verdict = "abort" -> [judged EXCEPT !.pc = "ended"]
          [] OTHER -> judged

SoundRow(r) == r \in PassRows /\ Counted(r) /\ ShortOnly(r)

LEMMA FreshRowIs ==
    ASSUME NEW cascade \in BOOLEAN, NEW beta \in {"flat", "down", "up"}, NEW memo \in {"clear", "error"},
           NEW n \in Nat, NEW accepted \in SUBSET Symbols, EntryPassAssumption,
           NEW new, new = FreshRow(cascade, beta, memo, n, accepted)
    PROVE  /\ SoundRow(IdlePass) /\ SoundRow(new) /\ SoundRow(EndedRow)
           /\ SoundRow([new EXCEPT !.noted = TRUE])
<1> DEFINE fresh == [IdlePass EXCEPT !.pc = "loop", !.cascadeShort = cascade, !.beta = beta,
                       !.memo = memo, !.seen = n, !.atStart = n, !.left = accepted]
           ended == [IdlePass EXCEPT !.pc = "ended"]
           noted == [fresh EXCEPT !.noted = TRUE]
<1>1. /\ IdlePass \in PassRows /\ IdlePass.creating = {} /\ IdlePass.opened = 0 /\ IdlePass.pc = "idle"
      /\ IdlePass.seen = 0 /\ IdlePass.atStart = 0 /\ IdlePass.unshort = FALSE
  BY DEF IdlePass, PassRows
<1>2. /\ fresh \in PassRows /\ fresh.creating = {} /\ fresh.opened = 0 /\ fresh.pc = "loop"
      /\ fresh.seen = n /\ fresh.atStart = n /\ fresh.unshort = FALSE
  BY <1>1 DEF PassRows
<1>3. /\ ended \in PassRows /\ ended.creating = {} /\ ended.opened = 0 /\ ended.pc = "ended"
      /\ ended.seen = 0 /\ ended.atStart = 0 /\ ended.unshort = FALSE
  BY <1>1 DEF PassRows
<1>6. new = fresh
  BY DEF FreshRow
<1> HIDE DEF fresh, ended
<1>4. /\ noted \in PassRows /\ noted.creating = {} /\ noted.opened = 0 /\ noted.pc = "loop"
      /\ noted.seen = n /\ noted.atStart = n /\ noted.unshort = FALSE
  BY <1>2 DEF PassRows
<1> HIDE DEF noted
<1>5. \A r \in {IdlePass, fresh, ended, noted} : Counted(r) /\ ShortOnly(r)
  BY <1>1, <1>2, <1>3, <1>4 DEF Counted, ShortOnly
<1>7. EndedRow = ended /\ [new EXCEPT !.noted = TRUE] = noted
  BY <1>6 DEF ended, noted, EndedRow
<1> QED BY <1>1, <1>2, <1>3, <1>4, <1>5, <1>6, <1>7 DEF SoundRow

(* One candidate: only an open answer leads to a creation. *)
LEMMA JudgedRowIs ==
    ASSUME NEW r \in PassRows, Counted(r), ShortOnly(r), r.pc = "loop", NEW s \in Symbols,
           NEW o, o.short \in BOOLEAN, EntryPassAssumption,
           o.verdict = "open" => r.seen < MaxActiveBots /\ (r.cascadeShort => o.short)
    PROVE  LET next == JudgedRow(r, s, o)
           IN  next \in PassRows /\ Counted(next) /\ ShortOnly(next)
<1> DEFINE judged == [r EXCEPT !.left = @ \ {s}, !.errors = @ \/ o.error]
           opening == [judged EXCEPT !.pc = "create", !.creating = {[symbol |-> s, short |-> o.short]}]
           ended == [judged EXCEPT !.pc = "ended"]
<1>1. /\ judged \in PassRows /\ judged.pc = "loop"
      /\ judged.seen = r.seen /\ judged.atStart = r.atStart /\ judged.opened = r.opened
      /\ judged.cascadeShort = r.cascadeShort /\ judged.unshort = r.unshort
      /\ judged.creating = r.creating
  <2>1. (r.errors \/ o.error) \in BOOLEAN
    OBVIOUS
  <2> QED BY <2>1 DEF PassRows
<1>2. Counted(judged) /\ ShortOnly(judged)
  <2> HIDE DEF judged
  <2> QED BY <1>1 DEF Counted, ShortOnly
<1>3. ended \in PassRows /\ Counted(ended) /\ ShortOnly(ended)
  <2> HIDE DEF judged
  <2> QED BY <1>1, <1>2 DEF PassRows, Counted, ShortOnly
<1>4. o.verdict = "open" => opening \in PassRows /\ Counted(opening) /\ ShortOnly(opening)
  <2> HIDE DEF judged
  <2>1. {[symbol |-> s, short |-> o.short]} \in SUBSET [symbol : Symbols, short : BOOLEAN]
    OBVIOUS
  <2>2. opening \in PassRows
    BY <1>1, <2>1 DEF PassRows
  <2>3. o.verdict = "open" => Counted(opening)
    BY <1>1, <1>2 DEF PassRows, Counted
  <2>4. o.verdict = "open" => ShortOnly(opening)
    BY <1>1, <1>2 DEF PassRows, ShortOnly
  <2> QED BY <2>2, <2>3, <2>4
<1> HIDE DEF judged, opening, ended
<1> QED BY <1>2, <1>1, <1>3, <1>4 DEF opening, ended, judged, JudgedRow

(* One creation: it is counted, and of the side that was judged. *)
LEMMA CreatedRowIs ==
    ASSUME NEW r \in PassRows, Counted(r), ShortOnly(r), r.pc = "create", NEW g \in r.creating,
           EntryPassAssumption, NEW loud \in BOOLEAN
    PROVE  LET back == [r EXCEPT !.pc = "loop", !.creating = {}]
           IN  \A next \in {back, [back EXCEPT !.seen = @ + 1, !.opened = @ + 1, !.unshort = @ \/ ~g.short],
                            [back EXCEPT !.errors = @ \/ loud], [back EXCEPT !.pc = "ended"]} :
                  next \in PassRows /\ Counted(next) /\ ShortOnly(next)
<1> DEFINE back == [r EXCEPT !.pc = "loop", !.creating = {}]
           opened == [back EXCEPT !.seen = @ + 1, !.opened = @ + 1, !.unshort = @ \/ ~g.short]
           failed == [back EXCEPT !.errors = @ \/ loud]
           ended == [back EXCEPT !.pc = "ended"]
<1>1. /\ back \in PassRows /\ back.pc = "loop" /\ back.creating = {}
      /\ back.seen = r.seen /\ back.atStart = r.atStart /\ back.opened = r.opened
      /\ back.cascadeShort = r.cascadeShort /\ back.unshort = r.unshort
  BY DEF PassRows
<1>2. Counted(back) /\ ShortOnly(back)
  <2> HIDE DEF back
  <2> QED BY <1>1 DEF Counted, ShortOnly
<1>3. ended \in PassRows /\ Counted(ended) /\ ShortOnly(ended)
  <2> HIDE DEF back
  <2> QED BY <1>1, <1>2 DEF PassRows, Counted, ShortOnly
<1>4. failed \in PassRows /\ Counted(failed) /\ ShortOnly(failed)
  <2> HIDE DEF back
  <2>1. (back.errors \/ loud) \in BOOLEAN
    OBVIOUS
  <2> QED BY <1>1, <1>2, <2>1 DEF PassRows, Counted, ShortOnly
<1>5. opened \in PassRows /\ Counted(opened) /\ ShortOnly(opened)
  <2>1. (back.unshort \/ ~g.short) \in BOOLEAN
    OBVIOUS
  <2>2. r.seen < MaxActiveBots /\ r.seen = r.atStart + r.opened
    BY DEF Counted
  <2>3. r.cascadeShort => ~r.unshort /\ g.short
    BY DEF ShortOnly
  <2>4. r.seen \in Nat /\ r.atStart \in Nat /\ r.opened \in Nat
    BY DEF PassRows
  <2> HIDE DEF back
  <2>5. opened \in PassRows
    <3> DEFINE unshort == back.unshort \/ ~g.short
           counted == [back EXCEPT !.seen = @ + 1, !.opened = @ + 1]
    <3>1. opened = [counted EXCEPT !.unshort = unshort]
      BY <1>1 DEF PassRows
    <3>2. unshort \in BOOLEAN
      BY <2>1 DEF unshort
    <3>3. counted \in PassRows
      <4>1. back.seen + 1 \in Nat /\ back.opened + 1 \in Nat
        BY <1>1, <2>4
      <4> QED BY <1>1, <4>1 DEF PassRows
    <3> HIDE DEF unshort, opened, counted
    <3> QED BY <3>1, <3>2, <3>3 DEF PassRows
  <2>6. opened.seen = r.seen + 1 /\ opened.opened = r.opened + 1 /\ opened.atStart = r.atStart /\ opened.pc = "loop"
    BY <1>1 DEF PassRows
  <2>7. opened.cascadeShort = r.cascadeShort /\ opened.creating = {} /\ (opened.unshort <=> r.unshort \/ ~g.short)
    BY <1>1, <2>1 DEF PassRows
  <2> HIDE DEF opened
  <2>8. Counted(opened)
    BY <2>2, <2>4, <2>6, EntryPassAssumption DEF Counted
  <2>9. ShortOnly(opened)
    BY <2>3, <2>7 DEF ShortOnly
  <2> QED BY <2>5, <2>8, <2>9
<1> HIDE DEF back, opened, failed, ended
<1> QED BY <1>1, <1>2, <1>3, <1>4, <1>5 DEF back, opened, failed, ended

(* A step that rewrites one pass keeps the others. *)
LEMMA OnePassMoves ==
    ASSUME PassInv, NEW p \in Passes, NEW r \in PassRows, Counted(r), ShortOnly(r),
           pass' = [pass EXCEPT ![p] = r], UNCHANGED <<execMode, market>>, IsFiniteSet(openGrids)'
    PROVE  PassInv'
<1>1. pass' \in [Passes -> PassRows]
  BY DEF PassInv
<1>2. ASSUME NEW q \in Passes PROVE pass'[q] \in PassRows /\ Counted(pass'[q]) /\ ShortOnly(pass'[q])
  <2>1. CASE q = p
    <3>1. pass'[q] = r
      BY <2>1 DEF PassInv
    <3> QED BY <3>1
  <2>2. CASE q # p
    <3>1. pass'[q] = pass[q]
      BY <2>2 DEF PassInv
    <3> QED BY <3>1 DEF PassInv
  <2> QED BY <2>1, <2>2
<1>3. \A q \in Passes : (pass[q] \in PassRows)' /\ Counted(pass[q])' /\ ShortOnly(pass[q])'
  BY <1>2 DEF Counted, ShortOnly, PassRows
<1> QED BY <1>1, <1>3 DEF PassInv

LEMMA PassInvHolds == PassSpec => []PassInv
<1> USE EntryPassAssumption
<1>1. PassInit => PassInv
  <2> SUFFICES ASSUME PassInit PROVE PassInv
    OBVIOUS
  <2>1. IdlePass \in PassRows /\ Counted(IdlePass) /\ ShortOnly(IdlePass)
    BY DEF IdlePass, PassRows, Counted, ShortOnly
  <2>2. market \in Markets
    BY DEF PassInit, ClearMarket, Markets, BlockAnswers
  <2>3. IsFiniteSet(openGrids)
    BY FS_EmptySet DEF PassInit
  <2> QED BY <2>1, <2>2, <2>3 DEF PassInit, PassInv
<1>2. PassInv /\ [PassNext]_passVars => PassInv'
  <2> SUFFICES ASSUME PassInv, [PassNext]_passVars PROVE PassInv'
    OBVIOUS
  <2>1. ASSUME NEW p \in Passes, BeginPass(p) PROVE PassInv'
    <3>1. UNCHANGED <<execMode, market, openGrids>>
      BY <2>1 DEF BeginPass
    <3>2. IsFiniteSet(openGrids)' /\ Cardinality(openGrids) \in Nat
      BY <3>1, FS_CardinalityType DEF PassInv
    <3>3. \E accepted \in SUBSET Symbols, cascade \in BOOLEAN,
             beta \in PassBetas, firstRead \in {"clear", "error"} :
            LET fresh == FreshRow(cascade, beta, firstRead, Cardinality(openGrids), accepted)
            IN  \/ pass' = [pass EXCEPT ![p] = EndedRow]
                \/ pass' = [pass EXCEPT ![p] = fresh]
                \/ pass' = [pass EXCEPT ![p] = [fresh EXCEPT !.noted = TRUE]]
      <4>1. PICK accepted \in SUBSET Symbols, cascade \in BOOLEAN,
                 beta \in PassBetas, firstRead \in {"clear", "error"} :
              LET fresh == FreshRow(cascade, beta, firstRead, Cardinality(openGrids), accepted)
                  ended == EndedRow
              IN  \/ /\ market.storm \/ market.fleet = "unreadable"
                     /\ pass' = [pass EXCEPT ![p] = ended]
                     /\ UNCHANGED lastError
                  \/ /\ ~market.storm /\ market.fleet = "blocked"
                     /\ pass' = [pass EXCEPT ![p] = ended]
                     /\ lastError' = "freeze"
                  \/ /\ ~market.storm /\ market.fleet = "clear"
                     /\ IF market.liquidations = "unreadable"
                        THEN /\ pass' = [pass EXCEPT ![p] = ended]
                             /\ UNCHANGED lastError
                        ELSE IF market.liquidations = "blocked"
                        THEN /\ pass' = [pass EXCEPT ![p] = [fresh EXCEPT !.noted = TRUE]]
                             /\ lastError' = "freeze"
                        ELSE /\ pass' = [pass EXCEPT ![p] = fresh]
                             /\ UNCHANGED lastError
        BY <2>1, Zenon DEF BeginPass, FreshRow, EndedRow
      <4> QED BY <4>1
    <3>4. PICK r \in PassRows : Counted(r) /\ ShortOnly(r) /\ pass' = [pass EXCEPT ![p] = r]
      <4> DEFINE n == Cardinality(openGrids)
      <4>1. PICK accepted \in SUBSET Symbols, cascade \in BOOLEAN,
                 beta \in PassBetas, firstRead \in {"clear", "error"} :
              LET fresh == FreshRow(cascade, beta, firstRead, n, accepted)
              IN  \E r \in {IdlePass, fresh, EndedRow, [fresh EXCEPT !.noted = TRUE]} :
                     pass' = [pass EXCEPT ![p] = r]
        BY <3>3
      <4>2. beta \in {"flat", "down", "up"} /\ n \in Nat
        BY <3>2 DEF EntryPassAssumption
      <4> HIDE DEF n
      <4> DEFINE fresh == FreshRow(cascade, beta, firstRead, n, accepted)
      <4>4. \E r \in {IdlePass, fresh, EndedRow, [fresh EXCEPT !.noted = TRUE]} :
              pass' = [pass EXCEPT ![p] = r]
        BY <4>1
      <4>5. fresh = FreshRow(cascade, beta, firstRead, n, accepted)
        OBVIOUS
      <4> HIDE DEF fresh
      <4>3. SoundRow(IdlePass) /\ SoundRow(fresh) /\ SoundRow(EndedRow)
        BY <4>2, <4>5, FreshRowIs
      <4>6. SoundRow([fresh EXCEPT !.noted = TRUE])
        BY <4>2, <4>5, FreshRowIs
      <4> QED BY <4>3, <4>4, <4>6 DEF SoundRow
    <3> QED BY <3>1, <3>2, <3>4, OnePassMoves
  <2>2. ASSUME NEW p \in Passes, NEW s \in Symbols, Judge(p, s) PROVE PassInv'
    <3> DEFINE r == pass[p]
    <3>1. UNCHANGED <<execMode, market, openGrids>> /\ r.pc = "loop"
      BY <2>2 DEF Judge
    <3>2. r \in PassRows /\ Counted(r) /\ ShortOnly(r) /\ IsFiniteSet(openGrids)'
      BY <3>1 DEF PassInv
    <3>3. r.cascadeShort \in BOOLEAN /\ r.beta \in {"flat", "down", "up"} /\ r.seen \in Nat
      BY <3>2 DEF PassRows
    <3>4. /\ Context(r, s) \in Contexts /\ (Context(r, s).full <=> r.seen >= MaxActiveBots)
          /\ Context(r, s).cascadeShort = r.cascadeShort
      BY <3>3, ContextIs DEF PassInv
    <3>5. PICK o \in Outcomes[Context(r, s)] : pass' = [pass EXCEPT ![p] = JudgedRow(r, s, o)]
      BY <2>2 DEF Judge, JudgedRow
    <3>6. o.short \in BOOLEAN
      BY <3>4, OutcomeIs
    <3>7. o.verdict = "open" => r.seen < MaxActiveBots /\ (r.cascadeShort => o.short)
      BY <3>3, <3>4, OutcomeIs, EntryPassAssumption DEF EntryPassAssumption
    <3> HIDE DEF r
    <3> DEFINE next == JudgedRow(r, s, o)
    <3>8. next \in PassRows /\ Counted(next) /\ ShortOnly(next)
      BY <3>1, <3>2, <3>6, <3>7, JudgedRowIs
    <3>9. pass' = [pass EXCEPT ![p] = next]
      BY <3>5
    <3> HIDE DEF next
    <3> QED BY <3>1, <3>2, <3>8, <3>9, OnePassMoves
  <2>3. ASSUME NEW p \in Passes, Create(p) PROVE PassInv'
    <3>1. UNCHANGED <<execMode, market>> /\ pass[p].pc = "create"
      BY <2>3 DEF Create
    <3>2. PICK g \in pass[p].creating :
            LET back == [pass[p] EXCEPT !.pc = "loop", !.creating = {}]
            IN  \E r \in {back, [back EXCEPT !.seen = @ + 1, !.opened = @ + 1, !.unshort = @ \/ ~g.short],
                          [back EXCEPT !.errors = @ \/ (execMode = "REAL")], [back EXCEPT !.pc = "ended"]} :
                   pass' = [pass EXCEPT ![p] = r]
      BY <2>3, Zenon DEF Create
    <3>3. pass[p] \in PassRows /\ Counted(pass[p]) /\ ShortOnly(pass[p])
      BY DEF PassInv
    <3>4. PICK r \in PassRows : Counted(r) /\ ShortOnly(r) /\ pass' = [pass EXCEPT ![p] = r]
      <4>1. (execMode = "REAL") \in BOOLEAN
        OBVIOUS
      <4> QED BY <3>1, <3>2, <3>3, <4>1, CreatedRowIs
    <3>5. IsFiniteSet(openGrids)'
      <4>1. openGrids' = openGrids \/ \E g1 : openGrids' = openGrids \cup {g1}
        BY <2>3 DEF Create
      <4> QED BY <4>1, FS_AddElement DEF PassInv
    <3> QED BY <3>1, <3>4, <3>5, OnePassMoves
  <2>4. ASSUME NEW p \in Passes, EndPass(p) PROVE PassInv'
    <3> DEFINE r == [pass[p] EXCEPT !.pc = "ended"]
    <3>1. UNCHANGED <<execMode, market, openGrids>> /\ pass' = [pass EXCEPT ![p] = r]
      BY <2>4 DEF EndPass
    <3>2. r \in PassRows /\ Counted(r) /\ ShortOnly(r)
      <4>1. pass[p] \in PassRows /\ Counted(pass[p]) /\ ShortOnly(pass[p])
        BY DEF PassInv
      <4> QED BY <4>1 DEF PassRows, Counted, ShortOnly
    <3> HIDE DEF r
    <3>3. IsFiniteSet(openGrids)'
      BY <3>1 DEF PassInv
    <3> QED BY <3>1, <3>2, <3>3, OnePassMoves
  <2>5. ASSUME NEW p \in Passes, ForgetPass(p) PROVE PassInv'
    <3>1. UNCHANGED <<execMode, market, openGrids>> /\ pass' = [pass EXCEPT ![p] = IdlePass]
      BY <2>5 DEF ForgetPass
    <3>2. IdlePass \in PassRows /\ Counted(IdlePass) /\ ShortOnly(IdlePass)
      BY DEF IdlePass, PassRows, Counted, ShortOnly
    <3>3. IsFiniteSet(openGrids)'
      BY <3>1 DEF PassInv
    <3> QED BY <3>1, <3>2, <3>3, OnePassMoves
  <2>6. ASSUME NEW s \in Symbols, CloseGrid(s) PROVE PassInv'
    <3>1. UNCHANGED <<execMode, market, pass>> /\ openGrids' = openGrids \ {s}
      BY <2>6 DEF CloseGrid
    <3>2. IsFiniteSet(openGrids)'
      BY <3>1, FS_RemoveElement DEF PassInv
    <3> QED BY <3>1, <3>2 DEF PassInv, Counted, ShortOnly, PassRows
  <2>7. ASSUME NEW mk \in MarketMoods, MarketMoves(mk) PROVE PassInv'
    <3>1. UNCHANGED <<execMode, openGrids, pass>> /\ market' \in Markets
      BY <2>7, EntryPassAssumption DEF MarketMoves, EntryPassAssumption
    <3> QED BY <3>1 DEF PassInv, Counted, ShortOnly, PassRows, Markets
  <2>8. CASE UNCHANGED passVars
    BY <2>8 DEF passVars, PassInv, Counted, ShortOnly, PassRows, Markets
  <2> QED BY <2>1, <2>2, <2>3, <2>4, <2>5, <2>6, <2>7, <2>8 DEF PassNext
<1> QED BY <1>1, <1>2, PTL DEF PassSpec

(* No fleet has a candidate that an unobstructed world misleads. *)
LEMMA NoFleetIsMisled == MisledFleets = {}
<1>1. ASSUME NEW w \in OpenWorlds, NEW c \in JudgedCases PROVE ~Misled(c, w)
  <2>1. World(w)
    BY DEF World, OpenWorlds
  <2>2. c.regime \in Regimes
    BY DEF JudgedCases
  <2> QED BY <2>1, <2>2, NoneMisled
<1> QED BY <1>1 DEF MisledFleets

(* The fleet opens a direction only when its regime does, and a cascade scan
   only shorts, whichever way the two passes and the market interleave. *)
THEOREM DirectionsHaveTheRegime == PassSpec => []DirectionsAreBacked
<1>1. PassInv => DirectionsAreBacked
  <2> SUFFICES ASSUME PassInv PROVE DirectionsAreBacked
    OBVIOUS
  <2>1. DirectionFollowsRegime
    BY NoFleetIsMisled DEF DirectionFollowsRegime
  <2>2. CascadePassOpensShorts
    BY DEF CascadePassOpensShorts, PassInv, ShortOnly
  <2> QED BY <2>1, <2>2 DEF DirectionsAreBacked
<1> QED BY <1>1, PassInvHolds, PTL

(* A pass opens at most as many grids as it counted free slots. *)
THEOREM PassKeepsToItsSlots == PassSpec => []PassWithinSlots
<1>1. PassInv => PassWithinSlots
  <2> SUFFICES ASSUME PassInv, NEW p \in Passes, pass[p].opened > 0
               PROVE  pass[p].atStart + pass[p].opened <= MaxActiveBots
    BY DEF PassWithinSlots
  <2>1. Counted(pass[p])
    BY DEF PassInv
  <2> QED BY <2>1 DEF Counted
<1> QED BY <1>1, PassInvHolds, PTL
--------------------------------------------------------------------------
(* BotDecision: which rule can answer. *)

RuleRows == [fires : BOOLEAN, action : BotActions]

LEMMA Concatenated ==
    ASSUME NEW R, NEW s \in Seq(R), NEW t \in Seq(R)
    PROVE  /\ s \o t \in Seq(R) /\ Len(s \o t) = Len(s) + Len(t)
  OBVIOUS
LEMMA Leading ==
    ASSUME NEW R, NEW s \in Seq(R), NEW t \in Seq(R), NEW i \in 1 .. Len(s)
    PROVE  (s \o t)[i] = s[i]
  OBVIOUS
LEMMA Back ==
    ASSUME NEW R, NEW s \in Seq(R), NEW t \in Seq(R), NEW i \in Len(s) + 1 .. Len(s) + Len(t)
    PROVE  (s \o t)[i] = t[i - Len(s)]
  OBVIOUS

LEMMA FactsOfBot ==
    ASSUME NEW c
    PROVE  /\ \A f : True(c, f) \in BOOLEAN
           /\ OneSided(c) \in BOOLEAN /\ Adverse(c) \in BOOLEAN
           /\ TakeOrStop(c) \in {"takeProfit", "stopLoss"}
           /\ BreakDown(c) \in {"shiftDown", "shiftUp", "rangeBreak", "takeProfit"}
           /\ BreakUp(c) \in {"shiftDown", "shiftUp", "rangeBreak", "takeProfit"}
  BY DEF True, OneSided, Adverse, TakeOrStop, BreakDown, BreakUp, Shift

LEMMA PriceRulesAre ==
    ASSUME NEW c
    PROVE  /\ PriceRules(c) \in Seq(RuleRows) /\ DOMAIN PriceRules(c) = 1 .. 3 /\ Len(PriceRules(c)) = 3
           /\ \A i \in 1 .. 3 : PriceRules(c)[i].action \in BotActions \ {"trail", "hold"}
           /\ \A i \in 1 .. 3 : PriceRules(c)[i].fires /\ ~True(c, "targetPrice") /\ ~True(c, "gain")
                                    => PriceRules(c)[i].action = "stopLoss"
           /\ ~True(c, "targetPrice") /\ ~True(c, "stopPrice") /\ ~True(c, "stopHigh")
                => \A i \in 1 .. 3 : ~PriceRules(c)[i].fires
<1> DEFINE a == Rule(True(c, "targetPrice") /\ True(c, "gain"), "takeProfit")
           b == Rule(True(c, "stopPrice"), TakeOrStop(c))
           d == Rule(True(c, "stopHigh"), TakeOrStop(c))
<1>1. PriceRules(c) = <<a, b, d>>
  BY DEF PriceRules
<1>2. /\ (a.fires <=> (True(c, "targetPrice") /\ True(c, "gain"))) /\ a.action = "takeProfit"
      /\ (b.fires <=> (True(c, "stopPrice"))) /\ b.action = TakeOrStop(c)
      /\ (d.fires <=> (True(c, "stopHigh"))) /\ d.action = TakeOrStop(c)
  BY DEF Rule
<1>9. a \in RuleRows /\ b \in RuleRows /\ d \in RuleRows
  BY FactsOfBot DEF Rule, RuleRows, BotActions, Closes, Shifts
<1> HIDE DEF a, b, d
<1>3. /\ DOMAIN <<a, b, d>> = 1 .. 3
      /\ <<a, b, d>>[1] = a /\ <<a, b, d>>[2] = b /\ <<a, b, d>>[3] = d
  OBVIOUS
<1>6. <<a, b, d>> \in Seq(RuleRows) /\ Len(<<a, b, d>>) = 3
  BY <1>9
<1>4. \A i \in 1 .. 3 : i = 1 \/ i = 2 \/ i = 3
  OBVIOUS
<1> QED BY <1>1, <1>2, <1>3, <1>4, <1>6 DEF TakeOrStop, BotActions, Closes, Shifts

LEMMA ProfitRulesAre ==
    ASSUME NEW c
    PROVE  /\ ProfitRules(c) \in Seq(RuleRows) /\ DOMAIN ProfitRules(c) = 1 .. 6 /\ Len(ProfitRules(c)) = 6
           /\ \A i \in 1 .. 6 : ProfitRules(c)[i].action \in BotActions \ {"hold"}
           /\ \A i \in 1 .. 6 : ProfitRules(c)[i].fires /\ ProfitRules(c)[i].action = "trail"
                                    => True(c, "tighter")
           /\ \A i \in 1 .. 6 : ProfitRules(c)[i].fires /\ ~True(c, "target") /\ ~True(c, "halfTarget")
                                       /\ ~True(c, "nearZero")
                                    => \/ ProfitRules(c)[i].action = "takeProfit"
                                       \/ ProfitRules(c)[i].action = "harvest" /\ True(c, "harvest")
           /\ ~True(c, "target") /\ ~True(c, "halfTarget") /\ ~True(c, "nearZero")
                /\ ~True(c, "harvest") /\ ~True(c, "armed")
                => \A i \in 1 .. 6 : ~ProfitRules(c)[i].fires
<1> DEFINE a == Rule(True(c, "target"), "takeProfit")
           b == Rule(True(c, "harvest") /\ OneSided(c), "harvest")
           d == Rule(True(c, "halfTarget") /\ True(c, "tighter") /\ OneSided(c), "trail")
           e == Rule(True(c, "aged") /\ ~True(c, "storm") /\ True(c, "nearZero"), "rotate")
           f == Rule(OneSided(c) /\ True(c, "armed") /\ True(c, "breakeven"), "takeProfit")
           g == Rule(OneSided(c) /\ True(c, "armed") /\ True(c, "pullback"), "takeProfit")
<1>1. ProfitRules(c) = <<a, b, d, e, f, g>>
  BY DEF ProfitRules
<1>2. /\ (a.fires <=> (True(c, "target"))) /\ a.action = "takeProfit"
      /\ (b.fires <=> (True(c, "harvest") /\ OneSided(c))) /\ b.action = "harvest"
      /\ (d.fires <=> (True(c, "halfTarget") /\ True(c, "tighter") /\ OneSided(c))) /\ d.action = "trail"
      /\ (e.fires <=> (True(c, "aged") /\ ~True(c, "storm") /\ True(c, "nearZero"))) /\ e.action = "rotate"
      /\ (f.fires <=> (OneSided(c) /\ True(c, "armed") /\ True(c, "breakeven"))) /\ f.action = "takeProfit"
      /\ (g.fires <=> (OneSided(c) /\ True(c, "armed") /\ True(c, "pullback"))) /\ g.action = "takeProfit"
  BY DEF Rule
<1>9. a \in RuleRows /\ b \in RuleRows /\ d \in RuleRows /\ e \in RuleRows /\ f \in RuleRows /\ g \in RuleRows
  BY FactsOfBot DEF Rule, RuleRows, BotActions, Closes, Shifts
<1> HIDE DEF a, b, d, e, f, g
<1>3. /\ DOMAIN <<a, b, d, e, f, g>> = 1 .. 6
      /\ <<a, b, d, e, f, g>>[1] = a /\ <<a, b, d, e, f, g>>[2] = b /\ <<a, b, d, e, f, g>>[3] = d /\ <<a, b, d, e, f, g>>[4] = e /\ <<a, b, d, e, f, g>>[5] = f /\ <<a, b, d, e, f, g>>[6] = g
  OBVIOUS
<1>6. <<a, b, d, e, f, g>> \in Seq(RuleRows) /\ Len(<<a, b, d, e, f, g>>) = 6
  BY <1>9
<1>4. \A i \in 1 .. 6 : i = 1 \/ i = 2 \/ i = 3 \/ i = 4 \/ i = 5 \/ i = 6
  OBVIOUS
<1> QED BY <1>1, <1>2, <1>3, <1>4, <1>6 DEF BotActions, Closes, Shifts

LEMMA LossRulesAre ==
    ASSUME NEW c
    PROVE  /\ LossRules(c) \in Seq(RuleRows) /\ DOMAIN LossRules(c) = 1 .. 2 /\ Len(LossRules(c)) = 2
           /\ \A i \in 1 .. 2 : LossRules(c)[i].action \in BotActions \ {"trail", "hold"}
           /\ (LossRules(c)[1].fires <=> True(c, "maxLoss")) /\ LossRules(c)[1].action = "stopLoss"
<1> DEFINE a == Rule(True(c, "maxLoss"), "stopLoss")
           b == Rule(True(c, "antiHunt"), "structInvalid")
<1>1. LossRules(c) = <<a, b>>
  BY DEF LossRules
<1>2. /\ (a.fires <=> True(c, "maxLoss")) /\ a.action = "stopLoss" /\ b.action = "structInvalid"
      /\ a \in RuleRows /\ b \in RuleRows
  BY FactsOfBot DEF Rule, RuleRows, BotActions, Closes, Shifts
<1> HIDE DEF a, b
<1>3. /\ DOMAIN <<a, b>> = 1 .. 2 /\ <<a, b>>[1] = a /\ <<a, b>>[2] = b
      /\ <<a, b>> \in Seq(RuleRows) /\ Len(<<a, b>>) = 2
  BY <1>2
<1> QED BY <1>1, <1>2, <1>3 DEF BotActions, Closes, Shifts

LEMMA RangeRulesAre ==
    ASSUME NEW c
    PROVE  /\ RangeRules(c) \in Seq(RuleRows) /\ DOMAIN RangeRules(c) = 1 .. 4 /\ Len(RangeRules(c)) = 4
           /\ \A i \in 1 .. 4 : RangeRules(c)[i].action \in BotActions \ {"trail"}
<1> DEFINE a == Rule(True(c, "noPrice"), "hold")
           b == Rule(Adverse(c) /\ True(c, "loss") /\ True(c, "edge"), "rangeBreak")
           d == Rule(True(c, "below"), BreakDown(c))
           e == Rule(True(c, "above"), BreakUp(c))
<1>1. RangeRules(c) = <<a, b, d, e>>
  BY DEF RangeRules
<1>2. /\ (a.fires <=> (True(c, "noPrice"))) /\ a.action = "hold"
      /\ (b.fires <=> (Adverse(c) /\ True(c, "loss") /\ True(c, "edge"))) /\ b.action = "rangeBreak"
      /\ (d.fires <=> (True(c, "below"))) /\ d.action = BreakDown(c)
      /\ (e.fires <=> (True(c, "above"))) /\ e.action = BreakUp(c)
  BY DEF Rule
<1>9. a \in RuleRows /\ b \in RuleRows /\ d \in RuleRows /\ e \in RuleRows
  BY FactsOfBot DEF Rule, RuleRows, BotActions, Closes, Shifts
<1> HIDE DEF a, b, d, e
<1>3. /\ DOMAIN <<a, b, d, e>> = 1 .. 4
      /\ <<a, b, d, e>>[1] = a /\ <<a, b, d, e>>[2] = b /\ <<a, b, d, e>>[3] = d /\ <<a, b, d, e>>[4] = e
  OBVIOUS
<1>6. <<a, b, d, e>> \in Seq(RuleRows) /\ Len(<<a, b, d, e>>) = 4
  BY <1>9
<1>4. \A i \in 1 .. 4 : i = 1 \/ i = 2 \/ i = 3 \/ i = 4
  OBVIOUS
<1> QED BY <1>1, <1>2, <1>3, <1>4, <1>6, FactsOfBot DEF BotActions, Closes, Shifts

(* The answer is the action of a rule that fires; the loss limit is asked
   before the rules of the range. *)
LEMMA DecisionIs ==
    ASSUME NEW c
    PROVE  \/ \E i \in 1 .. 3 : PriceRules(c)[i].fires /\ Decision(c) = PriceRules(c)[i].action
           \/ \E i \in 1 .. 6 : ProfitRules(c)[i].fires /\ Decision(c) = ProfitRules(c)[i].action
           \/ \E i \in 1 .. 2 : /\ LossRules(c)[i].fires /\ Decision(c) = LossRules(c)[i].action
                                /\ i = 2 => ~LossRules(c)[1].fires
           \/ ~LossRules(c)[1].fires /\ \E i \in 1 .. 4 : Decision(c) = RangeRules(c)[i].action
           \/ ~LossRules(c)[1].fires /\ Decision(c) = "hold"
<1> DEFINE p == PriceRules(c)
           q == ProfitRules(c)
           l == LossRules(c)
           g == RangeRules(c)
           rules == p \o q \o l \o g
           firing == {i \in DOMAIN rules : rules[i].fires}
           first == CHOOSE i \in firing : \A j \in firing : i <= j
<1>1. /\ p \in Seq(RuleRows) /\ q \in Seq(RuleRows) /\ l \in Seq(RuleRows) /\ g \in Seq(RuleRows)
      /\ Len(p) = 3 /\ Len(q) = 6 /\ Len(l) = 2 /\ Len(g) = 4
  BY PriceRulesAre, ProfitRulesAre, LossRulesAre, RangeRulesAre
<1>2. Decision(c) = IF firing = {} THEN "hold" ELSE rules[first].action
  BY DEF Decision
<1> HIDE DEF p, q, l, g
<1>3. /\ rules \in Seq(RuleRows) /\ Len(rules) = 15
      /\ \A i \in 1 .. 3 : rules[i] = p[i]
      /\ \A i \in 4 .. 9 : rules[i] = q[i - 3]
      /\ \A i \in 10 .. 11 : rules[i] = l[i - 9]
      /\ \A i \in 12 .. 15 : rules[i] = g[i - 11]
  <2> DEFINE pq == p \o q
             pql == pq \o l
  <2>1. pq \in Seq(RuleRows) /\ Len(pq) = 9
    <3>1. p \in Seq(RuleRows) /\ q \in Seq(RuleRows) /\ Len(p) = 3 /\ Len(q) = 6
      BY <1>1
    <3>2. p \o q \in Seq(RuleRows) /\ Len(p \o q) = Len(p) + Len(q)
      BY <3>1, Concatenated
    <3> QED BY <3>1, <3>2
  <2>2. /\ \A i \in 1 .. 3 : pq[i] = p[i]
        /\ \A i \in 4 .. 9 : pq[i] = q[i - 3]
    <3>1. p \in Seq(RuleRows) /\ q \in Seq(RuleRows) /\ Len(p) = 3 /\ Len(q) = 6
      BY <1>1
    <3>2. ASSUME NEW i \in 1 .. 3 PROVE pq[i] = p[i]
      <4>1. i \in 1 .. Len(p)
        BY <3>1
      <4>2. (p \o q)[i] = p[i]
        BY <3>1, <4>1, Leading
      <4> QED BY <4>2
    <3>3. ASSUME NEW i \in 4 .. 9 PROVE pq[i] = q[i - 3]
      <4>1. i \in Len(p) + 1 .. Len(p) + Len(q)
        BY <3>1
      <4>2. (p \o q)[i] = q[i - Len(p)]
        BY <3>1, <4>1, Back
      <4> QED BY <3>1, <4>2
    <3> QED BY <3>2, <3>3
  <2> HIDE DEF pq
  <2>3. pql \in Seq(RuleRows) /\ Len(pql) = 11
    <3>1. pq \in Seq(RuleRows) /\ l \in Seq(RuleRows) /\ Len(pq) = 9 /\ Len(l) = 2
      BY <1>1, <2>1
    <3>2. pq \o l \in Seq(RuleRows) /\ Len(pq \o l) = Len(pq) + Len(l)
      BY <3>1, Concatenated
    <3> QED BY <3>1, <3>2
  <2>4. /\ \A i \in 1 .. 9 : pql[i] = pq[i]
        /\ \A i \in 10 .. 11 : pql[i] = l[i - 9]
    <3>1. pq \in Seq(RuleRows) /\ l \in Seq(RuleRows) /\ Len(pq) = 9 /\ Len(l) = 2
      BY <1>1, <2>1
    <3>2. ASSUME NEW i \in 1 .. 9 PROVE pql[i] = pq[i]
      <4>1. i \in 1 .. Len(pq)
        BY <3>1
      <4>2. (pq \o l)[i] = pq[i]
        BY <3>1, <4>1, Leading
      <4> QED BY <4>2
    <3>3. ASSUME NEW i \in 10 .. 11 PROVE pql[i] = l[i - 9]
      <4>1. i \in Len(pq) + 1 .. Len(pq) + Len(l)
        BY <3>1
      <4>2. (pq \o l)[i] = l[i - Len(pq)]
        BY <3>1, <4>1, Back
      <4> QED BY <3>1, <4>2
    <3> QED BY <3>2, <3>3
  <2>5. rules = pql \o g
    BY DEF pq
  <2> HIDE DEF pql
  <2>6. (pql \o g) \in Seq(RuleRows) /\ Len((pql \o g)) = 15
    <3>1. pql \in Seq(RuleRows) /\ g \in Seq(RuleRows) /\ Len(pql) = 11 /\ Len(g) = 4
      BY <1>1, <2>3
    <3>2. pql \o g \in Seq(RuleRows) /\ Len(pql \o g) = Len(pql) + Len(g)
      BY <3>1, Concatenated
    <3> QED BY <3>1, <3>2
  <2>7. /\ \A i \in 1 .. 11 : (pql \o g)[i] = pql[i]
        /\ \A i \in 12 .. 15 : (pql \o g)[i] = g[i - 11]
    <3>1. pql \in Seq(RuleRows) /\ g \in Seq(RuleRows) /\ Len(pql) = 11 /\ Len(g) = 4
      BY <1>1, <2>3
    <3>2. ASSUME NEW i \in 1 .. 11 PROVE (pql \o g)[i] = pql[i]
      <4>1. i \in 1 .. Len(pql)
        BY <3>1
      <4>2. (pql \o g)[i] = pql[i]
        BY <3>1, <4>1, Leading
      <4> QED BY <4>2
    <3>3. ASSUME NEW i \in 12 .. 15 PROVE (pql \o g)[i] = g[i - 11]
      <4>1. i \in Len(pql) + 1 .. Len(pql) + Len(g)
        BY <3>1
      <4>2. (pql \o g)[i] = g[i - Len(pql)]
        BY <3>1, <4>1, Back
      <4> QED BY <3>1, <4>2
    <3> QED BY <3>2, <3>3
  <2> HIDE DEF rules
  <2>8. ASSUME NEW i \in 1 .. 3 PROVE rules[i] = p[i]
    <3>1. i \in 1 .. 9 /\ i \in 1 .. 11
      OBVIOUS
    <3> QED BY <3>1, <2>2, <2>4, <2>5, <2>7
  <2>9. ASSUME NEW i \in 4 .. 9 PROVE rules[i] = q[i - 3]
    <3>1. i \in 1 .. 9 /\ i \in 1 .. 11
      OBVIOUS
    <3> QED BY <3>1, <2>2, <2>4, <2>5, <2>7
  <2>10. ASSUME NEW i \in 10 .. 11 PROVE rules[i] = l[i - 9]
    <3>1. i \in 1 .. 11
      OBVIOUS
    <3> QED BY <3>1, <2>4, <2>5, <2>7
  <2>11. ASSUME NEW i \in 12 .. 15 PROVE rules[i] = g[i - 11]
    BY <2>5, <2>7
  <2> QED BY <2>5, <2>6, <2>8, <2>9, <2>10, <2>11
<1>4. firing \subseteq 1 .. 15
  <2> HIDE DEF rules
  <2> QED BY <1>3
<1> HIDE DEF rules
<1>5. ASSUME firing # {} PROVE first \in firing /\ \A j \in firing : first <= j
  <2>1. \E i \in firing : \A j \in firing : i <= j
    <3> HIDE DEF firing
    <3>1. firing \subseteq Nat
      BY <1>4
    <3> QED BY <3>1, <1>5, LeastOne
  <2> HIDE DEF firing
  <2> QED BY <2>1
<1>6. l[1].fires => 10 \in firing
  BY <1>3
<1>7. \A i \in firing : rules[i].fires
  OBVIOUS
<1> HIDE DEF firing, first
<1>8. CASE firing = {}
  BY <1>2, <1>6, <1>8 DEF l
<1>9. CASE firing # {}
  <2>1. first \in 1 .. 15 /\ rules[first].fires /\ Decision(c) = rules[first].action
    BY <1>2, <1>4, <1>5, <1>7, <1>9
  <2>2. l[1].fires => first <= 10
    BY <1>5, <1>6, <1>9
  <2>3. CASE first \in 1 .. 3
    BY <1>3, <2>1, <2>3 DEF p
  <2>4. CASE first \in 4 .. 9
    <3>1. first - 3 \in 1 .. 6 /\ rules[first] = q[first - 3]
      BY <1>3, <2>4
    <3> QED BY <2>1, <3>1 DEF q
  <2>5. CASE first \in 10 .. 11
    <3>1. first - 9 \in 1 .. 2 /\ rules[first] = l[first - 9] /\ (first - 9 = 2 => ~l[1].fires)
      BY <1>3, <2>2, <2>5
    <3> QED BY <2>1, <3>1 DEF l
  <2>6. CASE first \in 12 .. 15
    <3>1. first - 11 \in 1 .. 4 /\ rules[first] = g[first - 11] /\ ~l[1].fires
      BY <1>3, <2>2, <2>6
    <3> QED BY <2>1, <3>1 DEF g, l
  <2> QED BY <2>1, <2>3, <2>4, <2>5, <2>6
<1> QED BY <1>8, <1>9

LEMMA DecisionsAre ==
    ASSUME NEW c
    PROVE  /\ Decision(c) \in BotActions
           /\ Decision(c) = "trail" => True(c, "tighter")
           /\ /\ True(c, "maxLoss") /\ ~True(c, "gain") /\ ~True(c, "targetPrice")
              /\ ~True(c, "target") /\ ~True(c, "halfTarget") /\ ~True(c, "nearZero")
              => Decision(c) \in {"takeProfit", "stopLoss", "harvest"}
           /\ /\ True(c, "maxLoss") /\ ~True(c, "gain") /\ ~True(c, "targetPrice")
              /\ ~True(c, "target") /\ ~True(c, "halfTarget") /\ ~True(c, "nearZero")
              /\ ~True(c, "harvest")
              => Decision(c) \in {"takeProfit", "stopLoss"}
<1>1. CASE \E i \in 1 .. 3 : PriceRules(c)[i].fires /\ Decision(c) = PriceRules(c)[i].action
  BY <1>1, PriceRulesAre
<1>2. CASE \E i \in 1 .. 6 : ProfitRules(c)[i].fires /\ Decision(c) = ProfitRules(c)[i].action
  BY <1>2, ProfitRulesAre
<1>3. CASE \E i \in 1 .. 2 : /\ LossRules(c)[i].fires /\ Decision(c) = LossRules(c)[i].action
                             /\ i = 2 => ~LossRules(c)[1].fires
  BY <1>3, LossRulesAre
<1>4. CASE ~LossRules(c)[1].fires /\ \E i \in 1 .. 4 : Decision(c) = RangeRules(c)[i].action
  BY <1>4, LossRulesAre, RangeRulesAre
<1>5. CASE ~LossRules(c)[1].fires /\ Decision(c) = "hold"
  BY <1>5, LossRulesAre DEF BotActions
<1> QED BY <1>1, <1>2, <1>3, <1>4, <1>5, DecisionIs

--------------------------------------------------------------------------
(* ManageBot: what a pass makes of a number, and what it carries out. *)

(* At the loss limit nothing but a close that is carried out at once answers;
   the card is trailed only inwards. *)
LEMMA LimitCloses ==
    ASSUME NEW total \in Int, total <= -MaxLoss, NEW extra, NEW regime, quote \in Nat,
           ManageBotAssumption, extra \in FreeFacts
    PROVE  LET c == BotInput(total, extra, regime)
           IN  /\ Decision(c) \in {"takeProfit", "stopLoss", "harvest"}
               /\ extra # "harvest" => Decision(c) \in {"takeProfit", "stopLoss"}
<1> DEFINE c == BotInput(total, extra, regime)
<1>1. total < 0 /\ ~(total >= Target) /\ ~(2 * total >= Target) /\ total # 0 /\ ~(total > 0)
  BY DEF ManageBotAssumption
<1>2. c.facts = BotFacts(total, extra)
  BY DEF BotInput
<1>3. "maxLoss" \in BotFacts(total, extra)
  BY DEF BotFacts
<1>4. extra \notin {"gain", "targetPrice", "target", "halfTarget", "nearZero"}
  BY DEF FreeFacts
<1>5. /\ "gain" \notin BotFacts(total, extra) /\ "targetPrice" \notin BotFacts(total, extra)
      /\ "target" \notin BotFacts(total, extra) /\ "halfTarget" \notin BotFacts(total, extra)
      /\ "nearZero" \notin BotFacts(total, extra)
  BY <1>1, <1>4 DEF BotFacts
<1>6. extra # "harvest" => "harvest" \notin BotFacts(total, extra)
  BY DEF BotFacts
<1> HIDE DEF c
<1> QED BY <1>2, <1>3, <1>5, <1>6, DecisionsAre DEF True, c

LEMMA TrailsInwards ==
    ASSUME NEW total, NEW extra \in FreeFacts, NEW regime, Decision(BotInput(total, extra, regime)) = "trail"
    PROVE  /\ quote # 0
           /\ IF LongSide THEN quote - 1 > row.stop ELSE quote + 1 < row.stop
<1>1. "tighter" \in BotFacts(total, extra)
  BY DecisionsAre DEF True, BotInput
<1>2. extra # "tighter"
  BY DEF FreeFacts
<1> QED BY <1>1, <1>2 DEF BotFacts

Rows == [status : {"RUNNING", "STOP_REQUESTED"}, middle : Int, stop : 0 .. PriceTop + 1, shifts : Nat,
         mark : Int, pool : Int, shieldAt : Int, extreme : Int, clearedAt : Int, backoff : BOOLEAN]
GridRows == [direction : BotDirections, pos : {-1, 0, 1}, entry : Int, middle : Int,
             card : 0 .. PriceTop + 1]
Dids == [decision : BotActions, truth : Int, judged : BOOLEAN, sent : BOOLEAN, held : BOOLEAN,
         grace : Int, lastHold : Int]

ManageShape ==
    /\ grid \in GridRows /\ row \in Rows /\ did \in Dids
    /\ cost \in Int /\ quote \in 0 .. PriceTop /\ now \in Nat

(* What the re-basings took out of the entry price is in the pool. *)
LossIsPooled ==
    /\ row.pool <= 0
    /\ grid.pos # 0 => grid.entry # 0 /\ NewPool <= grid.pos * (grid.entry - cost)

(* The shield's grace is the one the record knows; none was since it cleared. *)
GraceIsKnown ==
    /\ did.lastHold <= now /\ did.grace <= now
    /\ IF row.shieldAt = Never THEN did.lastHold <= row.clearedAt /\ did.grace <= row.clearedAt
       ELSE row.shieldAt = did.grace

Urgent == {"takeProfit", "stopLoss", "harvest"}
TrailedTo == IF LongSide THEN quote - 1 ELSE quote + 1
BookOf(r) == <<r.mark, r.pool>>
ShieldOf(r) == <<r.shieldAt, r.clearedAt>>
GraceOf(d) == <<d.grace, d.lastHold>>
Cleared(r) == IF r.shieldAt = Never THEN ShieldOf(r) ELSE <<Never, now>>

(* What every way to carry a verdict out leaves behind. *)
LeavesRecords == row' \in Rows /\ grid' \in GridRows /\ did' \in Dids
LeavesBook(r) ==
    /\ BookOf(row') = BookOf(r)
    /\ grid'.pos = grid.pos /\ grid'.direction = grid.direction
    /\ grid'.entry = grid.entry \/ (grid.pos # 0 /\ grid'.entry = quote)
LeavesVerdict(d, verdict) ==
    /\ did'.decision = d.decision /\ did'.truth = d.truth /\ did'.judged = d.judged
    /\ verdict \in Urgent => did'.sent
LeavesStop(r, verdict) ==
    \/ row'.stop = r.stop /\ grid'.card = grid.card
    \/ verdict = "trail" /\ grid'.card = TrailedTo /\ row'.stop \in {r.stop, TrailedTo}
LeavesShield(r, d) ==
    \/ /\ ~did'.held /\ GraceOf(did') = GraceOf(d)
       /\ ShieldOf(row') \in {ShieldOf(r), Cleared(r)}
    \/ /\ did'.held /\ GraceOf(did') = <<IF now - d.grace < Grace THEN d.grace ELSE now, now>>
       /\ \/ row.shieldAt # Never /\ now - row.shieldAt < Grace /\ ShieldOf(row') = ShieldOf(r)
          \/ /\ row.shieldAt = Never /\ now - row.clearedAt >= ReArm
             /\ \/ ShieldOf(row') = <<now, r.clearedAt>>
                \/ "arm_write" \in ManageFaults /\ ShieldOf(row') = ShieldOf(r)
Leaves(r, d, verdict) ==
    /\ LeavesRecords /\ LeavesBook(r) /\ LeavesVerdict(d, verdict)
    /\ LeavesStop(r, verdict) /\ LeavesShield(r, d)

LEMMA FaultsAre == ASSUME NEW kind PROVE \A b \in Fails(kind) : b \in BOOLEAN /\ (b => kind \in ManageFaults)
  BY DEF Fails

LEMMA ClearedIs ==
    ASSUME NEW r \in Rows, now \in Nat, ManageBotAssumption
    PROVE  /\ Clear(r) \in Rows /\ BookOf(Clear(r)) = BookOf(r) /\ ShieldOf(Clear(r)) = Cleared(r)
           /\ Clear(r).stop = r.stop
<1>1. Never \in Int
  BY DEF Never, ManageBotAssumption
<1>2. CASE r.shieldAt = Never
  BY <1>2 DEF Clear, Cleared
<1>3. CASE r.shieldAt # Never
  <2>1. Clear(r) = [r EXCEPT !.shieldAt = Never, !.extreme = 0, !.clearedAt = now]
    BY <1>3 DEF Clear
  <2>2. Clear(r) \in Rows
    <3> HIDE DEF Never
    <3>1. now \in Int /\ 0 \in Int
      OBVIOUS
    <3> QED BY <1>1, <2>1, <3>1 DEF Rows
  <2>3. /\ Clear(r).mark = r.mark /\ Clear(r).pool = r.pool /\ Clear(r).stop = r.stop
        /\ Clear(r).shieldAt = Never /\ Clear(r).clearedAt = now
    BY <2>1 DEF Rows
  <2> QED BY <1>3, <2>2, <2>3 DEF BookOf, ShieldOf, Cleared
<1> QED BY <1>2, <1>3

LEMMA CloseLeaves ==
    ASSUME NEW r \in Rows, NEW d \in Dids, NEW verdict \in BotActions, ManageShape, ~d.held,
           CarryClose(r, d)
    PROVE  Leaves(r, d, verdict)
<1>1. PICK status \in {"RUNNING", "STOP_REQUESTED"} : row' = [r EXCEPT !.status = status]
  <2>1. r.status \in {"RUNNING", "STOP_REQUESTED"}
    BY DEF Rows
  <2> QED BY <2>1 DEF CarryClose
<1>2. did' = [d EXCEPT !.sent = TRUE] /\ grid' = grid
  BY DEF CarryClose
<1>3. /\ row' \in Rows /\ row'.mark = r.mark /\ row'.pool = r.pool /\ row'.stop = r.stop
      /\ row'.shieldAt = r.shieldAt /\ row'.clearedAt = r.clearedAt
  BY <1>1 DEF Rows
<1>4. /\ did' \in Dids /\ did'.decision = d.decision /\ did'.truth = d.truth /\ did'.judged = d.judged
      /\ did'.sent /\ did'.held = d.held /\ did'.grace = d.grace /\ did'.lastHold = d.lastHold
  BY <1>2 DEF Dids
<1>5. grid' \in GridRows
  BY <1>2 DEF ManageShape
<1>6. LeavesRecords /\ LeavesBook(r) /\ LeavesVerdict(d, verdict) /\ LeavesStop(r, verdict)
  BY <1>2, <1>3, <1>4, <1>5 DEF LeavesRecords, LeavesBook, LeavesVerdict, LeavesStop, BookOf
<1>7. LeavesShield(r, d)
  BY <1>3, <1>4 DEF LeavesShield, GraceOf, ShieldOf
<1> QED BY <1>6, <1>7 DEF Leaves

LEMMA CloseAfterClear ==
    ASSUME NEW r \in Rows, NEW d \in Dids, NEW verdict \in BotActions, ManageShape, ~d.held,
           ManageBotAssumption, CarryClose(Clear(r), d)
    PROVE  Leaves(r, d, verdict)
<1>1. Clear(r) \in Rows /\ BookOf(Clear(r)) = BookOf(r) /\ ShieldOf(Clear(r)) = Cleared(r) /\ Clear(r).stop = r.stop
  BY ClearedIs DEF ManageShape
<1>2. Leaves(Clear(r), d, verdict)
  BY <1>1, CloseLeaves
<1>3. did'.held <=> d.held
  BY DEF CarryClose, Dids
<1>4. ShieldOf(row') = Cleared(r) /\ GraceOf(did') = GraceOf(d)
  BY <1>1, <1>3 DEF CarryClose, GraceOf, ShieldOf, Rows, Dids
<1>5. LeavesShield(r, d)
  BY <1>3, <1>4 DEF LeavesShield
<1> QED BY <1>1, <1>2, <1>5 DEF Leaves, LeavesBook, LeavesStop

LEMMA HoldLeaves ==
    ASSUME NEW r \in Rows, NEW d \in Dids, NEW verdict \in BotActions, ManageShape,
           ManageBotAssumption, NEW body \in BOOLEAN, NEW wick \in BOOLEAN,
           ShieldHolds(body, wick), Hold(r, d), verdict \notin Urgent
    PROVE  Leaves(r, d, verdict)
<1> DEFINE grace == IF now - d.grace < Grace THEN d.grace ELSE now
           armed == [r EXCEPT !.shieldAt = now, !.extreme = quote - grid.pos]
<1>1. grid' = grid /\ did' = [d EXCEPT !.held = TRUE, !.lastHold = now, !.grace = grace]
  BY DEF Hold
<1>2. /\ grid \in GridRows /\ now \in Int /\ quote - grid.pos \in Int /\ now \in Nat
  BY DEF ManageShape, GridRows
<1>3. grace \in Int
  BY <1>2 DEF Dids
<1> HIDE DEF grace
<1>4. /\ did' \in Dids /\ did'.decision = d.decision /\ did'.truth = d.truth /\ did'.judged = d.judged
      /\ did'.held /\ did'.grace = grace /\ did'.lastHold = now
  BY <1>1, <1>2, <1>3 DEF Dids
<1>5. /\ armed \in Rows /\ armed.mark = r.mark /\ armed.pool = r.pool /\ armed.stop = r.stop
      /\ armed.shieldAt = now /\ armed.clearedAt = r.clearedAt
  BY <1>2 DEF Rows
<1> HIDE DEF armed
<1>6. \/ Armed /\ row' = r
      \/ ~Armed /\ "arm_write" \in ManageFaults /\ row' = r
      \/ ~Armed /\ row' = armed
  BY FaultsAre DEF Hold, armed
<1>7. /\ row' \in Rows /\ row'.mark = r.mark /\ row'.pool = r.pool /\ row'.stop = r.stop
  BY <1>5, <1>6
<1>8. LeavesRecords /\ LeavesBook(r) /\ LeavesVerdict(d, verdict) /\ LeavesStop(r, verdict)
  BY <1>1, <1>2, <1>4, <1>7 DEF LeavesRecords, LeavesBook, LeavesVerdict, LeavesStop, BookOf
<1>9. \/ Armed /\ now - row.shieldAt < Grace
      \/ ~Armed /\ now - row.clearedAt >= ReArm
  BY DEF ShieldHolds
<1>10. LeavesShield(r, d)
  BY <1>4, <1>5, <1>6, <1>9 DEF LeavesShield, GraceOf, ShieldOf, Armed, grace
<1> QED BY <1>8, <1>10 DEF Leaves

LEMMA ShiftLeaves ==
    ASSUME NEW r \in Rows, NEW d \in Dids, NEW verdict \in BotActions, ManageShape,
           ManageBotAssumption, ~d.held, CarryShift(r, d), verdict \notin Urgent
    PROVE  Leaves(r, d, verdict)
<1> DEFINE c == Clear(r)
           moved == [c EXCEPT !.middle = quote, !.shifts = @ + 1]
<1>1. c \in Rows /\ BookOf(c) = BookOf(r) /\ ShieldOf(c) = Cleared(r) /\ c.stop = r.stop
  BY ClearedIs DEF ManageShape
<1>2. quote \in Int /\ quote \in Nat /\ grid \in GridRows
  BY DEF ManageShape
<1>3. did' = d /\ row' \in {c, moved}
  BY DEF CarryShift
<1>4. \/ grid' = grid
      \/ \E entry \in {grid.entry, quote} :
           grid' = [grid EXCEPT !.middle = quote, !.entry = IF grid.pos = 0 THEN @ ELSE entry]
  BY DEF CarryShift
<1>5. /\ grid' \in GridRows /\ grid'.pos = grid.pos /\ grid'.direction = grid.direction /\ grid'.card = grid.card
      /\ grid'.entry = grid.entry \/ (grid.pos # 0 /\ grid'.entry = quote)
  <2>1. CASE grid' = grid
    BY <1>2, <2>1
  <2>2. ASSUME NEW entry \in {grid.entry, quote},
               grid' = [grid EXCEPT !.middle = quote, !.entry = IF grid.pos = 0 THEN @ ELSE entry]
        PROVE  <1>5!1 /\ <1>5!2
    <3> DEFINE e == IF grid.pos = 0 THEN grid.entry ELSE entry
    <3>1. grid' = [grid EXCEPT !.middle = quote, !.entry = e]
      BY <2>2
    <3>2. e \in Int /\ (e = grid.entry \/ (grid.pos # 0 /\ e = quote))
      BY <1>2 DEF GridRows
    <3> HIDE DEF e
    <3> QED BY <1>2, <3>1, <3>2 DEF GridRows
  <2> QED BY <1>4, <2>1, <2>2
<1> HIDE DEF c
<1>6. moved \in Rows /\ BookOf(moved) = BookOf(c) /\ ShieldOf(moved) = ShieldOf(c) /\ moved.stop = c.stop
  <2>1. moved \in Rows
    <3>1. c.shifts + 1 \in Nat
      BY <1>1 DEF Rows
    <3> QED BY <1>1, <1>2, <3>1 DEF Rows
  <2>2. /\ moved.mark = c.mark /\ moved.pool = c.pool /\ moved.stop = c.stop
        /\ moved.shieldAt = c.shieldAt /\ moved.clearedAt = c.clearedAt
    BY <1>1 DEF Rows
  <2> QED BY <2>1, <2>2 DEF BookOf, ShieldOf
<1> HIDE DEF moved
<1>7. row' \in Rows /\ BookOf(row') = BookOf(r) /\ ShieldOf(row') = Cleared(r) /\ row'.stop = r.stop
  BY <1>1, <1>3, <1>6
<1>8. LeavesRecords /\ LeavesBook(r) /\ LeavesVerdict(d, verdict) /\ LeavesStop(r, verdict)
  BY <1>3, <1>5, <1>7 DEF LeavesRecords, LeavesBook, LeavesVerdict, LeavesStop
<1>9. LeavesShield(r, d)
  BY <1>3, <1>7 DEF LeavesShield
<1> QED BY <1>8, <1>9 DEF Leaves

LEMMA TrailLeaves ==
    ASSUME NEW r \in Rows, NEW d \in Dids, ManageShape,
           ManageBotAssumption, ~d.held, CarryTrail(r, d), quote # 0
    PROVE  Leaves(r, d, "trail")
<1> DEFINE stop == TrailedTo
           held == [r EXCEPT !.backoff = TRUE]
           moved == [r EXCEPT !.stop = stop, !.backoff = FALSE]
           carded == [grid EXCEPT !.card = stop]
<1>1. stop \in 0 .. PriceTop + 1
  BY DEF TrailedTo, ManageShape, ManageBotAssumption
<1>2. /\ did' = d
      /\ \/ row' \in {r, held} /\ grid' = grid
         \/ grid' = carded /\ row' \in {held, r, moved}
  <2>1. did' = d
    BY DEF CarryTrail
  <2>2. \/ row' = held /\ grid' = grid
        \/ row' = r /\ grid' = grid
        \/ \E unconfirmed \in Fails("card_unconfirmed"), unwritten \in Fails("card_write") :
             /\ grid' = carded
             /\ row' = IF unconfirmed THEN held ELSE IF unwritten THEN r ELSE moved
    BY Zenon DEF CarryTrail, TrailedTo
  <2> HIDE DEF held, moved, carded
  <2>3. \/ row' = held /\ grid' = grid
        \/ row' = r /\ grid' = grid
        \/ grid' = carded /\ row' \in {held, r, moved}
    BY <2>2
  <2> QED BY <2>1, <2>3
<1> HIDE DEF stop
<1>3. held \in Rows /\ BookOf(held) = BookOf(r) /\ ShieldOf(held) = ShieldOf(r) /\ held.stop = r.stop
  BY DEF Rows, BookOf, ShieldOf
<1>4. moved \in Rows /\ BookOf(moved) = BookOf(r) /\ ShieldOf(moved) = ShieldOf(r) /\ moved.stop = stop
  BY <1>1 DEF Rows, BookOf, ShieldOf
<1>5. /\ carded \in GridRows /\ carded.pos = grid.pos /\ carded.direction = grid.direction
      /\ carded.entry = grid.entry /\ carded.card = stop
  BY <1>1 DEF ManageShape, GridRows
<1>6. grid \in GridRows
  BY DEF ManageShape
<1> HIDE DEF held, moved, carded
<1>7. LeavesRecords /\ LeavesBook(r)
  BY <1>2, <1>3, <1>4, <1>5, <1>6 DEF LeavesRecords, LeavesBook
<1>8. LeavesStop(r, "trail")
  BY <1>2, <1>3, <1>4, <1>5 DEF LeavesStop, stop
<1>9. LeavesVerdict(d, "trail") /\ LeavesShield(r, d)
  BY <1>2, <1>3, <1>4 DEF LeavesVerdict, LeavesShield, Urgent
<1> QED BY <1>7, <1>8, <1>9 DEF Leaves

LEMMA CarriedOut ==
    ASSUME NEW r \in Rows, NEW d \in Dids, NEW verdict \in BotActions, ManageShape,
           ManageBotAssumption, ~d.held, CarryOut(verdict, r, d), quote # 0
    PROVE  Leaves(r, d, verdict)
<1>1. CASE verdict \in {"structInvalid", "rangeBreak"}
  <2>1. CarryStructural(r, d)
    BY <1>1 DEF CarryOut, Closes, Shifts
  <2>2. PICK body \in BOOLEAN, wick \in BOOLEAN :
          IF ShieldHolds(body, wick) THEN Hold(r, d) ELSE CarryClose(Clear(r), d)
    BY <2>1 DEF CarryStructural
  <2> QED BY <1>1, <2>2, HoldLeaves, CloseAfterClear DEF Urgent
<1>2. CASE verdict \in Closes \ {"structInvalid", "rangeBreak"}
  <2>1. CarryClose(r, d)
    BY <1>2 DEF CarryOut, Closes, Shifts
  <2> QED BY <2>1, CloseLeaves
<1>3. CASE verdict \in Shifts
  <2>1. CarryShift(r, d)
    BY <1>3 DEF CarryOut, Shifts, Closes
  <2> QED BY <1>3, <2>1, ShiftLeaves DEF Urgent, Shifts
<1>4. CASE verdict = "trail"
  BY <1>4, TrailLeaves DEF CarryOut, Shifts, Closes
<1>5. CASE verdict = "hold"
  <2>1. row' = Clear(r) /\ did' = d /\ grid' = grid
    BY <1>5 DEF CarryOut, Shifts, Closes
  <2>2. /\ Clear(r) \in Rows /\ BookOf(Clear(r)) = BookOf(r) /\ ShieldOf(Clear(r)) = Cleared(r)
        /\ Clear(r).stop = r.stop
    BY ClearedIs DEF ManageShape
  <2>3. LeavesRecords /\ LeavesBook(r) /\ LeavesVerdict(d, verdict) /\ LeavesStop(r, verdict)
    BY <1>5, <2>1, <2>2 DEF LeavesRecords, LeavesBook, LeavesVerdict, LeavesStop, Urgent, ManageShape
  <2>4. LeavesShield(r, d)
    BY <2>1, <2>2 DEF LeavesShield
  <2> QED BY <2>3, <2>4 DEF Leaves
<1> QED BY <1>1, <1>2, <1>3, <1>4, <1>5 DEF BotActions

--------------------------------------------------------------------------
(* The pool: what re-basings took out of the entry price stays in the floor. *)
PoolOf(pos, entry, mark, pool) ==
    IF pos = 0 THEN 0
    ELSE LET lost == IF mark = 0 THEN 0 ELSE pos * (entry - mark)
         IN  pool + (IF lost < 0 THEN lost ELSE 0)

LEMMA NewPoolIs == NewPool = PoolOf(grid.pos, grid.entry, row.mark, row.pool)
  BY DEF NewPool, PoolOf

LEMMA PoolsAre ==
    ASSUME NEW pos \in {-1, 0, 1}, NEW entry \in Int, NEW mark \in Int, NEW pool \in Int, pool <= 0
    PROVE  /\ PoolOf(pos, entry, mark, pool) \in Int
           /\ PoolOf(pos, entry, mark, pool) <= 0
           /\ pos # 0 => PoolOf(pos, entry, entry, pool) = pool
           /\ pos # 0 /\ mark # 0 => PoolOf(pos, entry, mark, pool) <= pool + pos * (entry - mark)
<1>1. CASE pos = 0
  BY <1>1 DEF PoolOf
<1>2. CASE pos = 1
  BY <1>2 DEF PoolOf
<1>3. CASE pos = -1
  BY <1>3 DEF PoolOf
<1> QED BY <1>1, <1>2, <1>3

LEMMA SamePool ==
    ASSUME NEW pos \in {-1, 0, 1}, pos # 0, NEW entry \in Int, NEW pool \in Int
    PROVE  PoolOf(pos, entry, entry, pool) = pool
<1>1. pos * (entry - entry) = 0
  <2>1. entry - entry = 0
    OBVIOUS
  <2> QED BY <2>1
<1> QED BY <1>1 DEF PoolOf

(* The floor is at or below what the position is worth, whatever was re-based. *)
LEMMA FloorIsBelow ==
    ASSUME ManageShape, LossIsPooled, NEW price \in Int, ManageBotAssumption
    PROVE  /\ FloorOf(Floating(price)) \in Int
           /\ grid.pos # 0 => FloorOf(Floating(price)) <= grid.pos * (price - cost)
           /\ \A reported \in BOOLEAN :
                /\ BlindFloor(price, reported) \in Int
                /\ grid.pos # 0 /\ reported => BlindFloor(price, reported) <= grid.pos * (price - cost)
           /\ grid.pos * (price - cost) \in Int
           /\ grid.pos = 0 => grid.pos * (price - cost) = 0
<1>1. /\ grid.pos \in {-1, 0, 1} /\ grid.entry \in Int /\ cost \in Int
      /\ row.pool \in Int /\ row.pool <= 0 /\ row.mark \in Int
  BY DEF ManageShape, LossIsPooled, GridRows, Rows
<1>2. NewPool \in Int /\ NewPool <= 0
  BY <1>1, NewPoolIs, PoolsAre
<1>3. grid.pos # 0 => NewPool <= grid.pos * (grid.entry - cost)
  BY DEF LossIsPooled
<1> DEFINE pool == NewPool
<1> HIDE DEF pool
<1>4. pool = NewPool
  BY DEF pool
<1>5. CASE grid.pos = 0
  BY <1>1, <1>5 DEF FloorOf, BlindFloor, Floating
<1>6. CASE grid.pos = 1
  BY <1>1, <1>2, <1>3, <1>4, <1>6 DEF FloorOf, BlindFloor, Floating, Lower
<1>7. CASE grid.pos = -1
  BY <1>1, <1>2, <1>3, <1>4, <1>7 DEF FloorOf, BlindFloor, Floating, Lower
<1> QED BY <1>1, <1>5, <1>6, <1>7

LEMMA BookedIs ==
    ASSUME ManageShape, LossIsPooled
    PROVE  /\ Booked \in Rows /\ BookOf(Booked) = <<NewMark, NewPool>> /\ ShieldOf(Booked) = ShieldOf(row)
           /\ Booked.stop = row.stop /\ Booked.shieldAt = row.shieldAt /\ Booked.clearedAt = row.clearedAt
           /\ NewMark \in Int /\ NewPool \in Int /\ NewPool <= 0
           /\ grid.pos # 0 => NewMark = grid.entry
<1>1. NewPool \in Int /\ NewPool <= 0
  BY NewPoolIs, PoolsAre DEF ManageShape, LossIsPooled, GridRows, Rows
<1>2. NewMark \in Int /\ (grid.pos # 0 => NewMark = grid.entry)
  BY DEF NewMark, ManageShape, GridRows
<1>3. Booked = [row EXCEPT !.mark = NewMark, !.pool = NewPool] /\ row \in Rows
  BY DEF Booked, ManageShape
<1> DEFINE mark == NewMark
           pool == NewPool
<1>4. Booked = [row EXCEPT !.mark = mark, !.pool = pool] /\ mark \in Int /\ pool \in Int
  BY <1>1, <1>2, <1>3
<1> HIDE DEF mark, pool
<1>5. Booked \in Rows
  BY <1>3, <1>4 DEF Rows
<1>6. /\ Booked.mark = mark /\ Booked.pool = pool /\ Booked.stop = row.stop
      /\ Booked.shieldAt = row.shieldAt /\ Booked.clearedAt = row.clearedAt
  BY <1>3, <1>4 DEF Rows
<1> QED BY <1>1, <1>2, <1>5, <1>6 DEF BookOf, ShieldOf, mark, pool

LEMMA FoundIs ==
    ASSUME ManageShape, LossIsPooled, NEW price \in Int, NEW verdict \in BotActions,
           NEW judged \in BOOLEAN, ManageBotAssumption
    PROVE  LET d == Found(price, verdict, judged)
           IN  /\ d \in Dids /\ d.decision = verdict /\ d.truth = grid.pos * (price - cost)
               /\ d.judged = judged /\ ~d.held /\ ~d.sent /\ GraceOf(d) = GraceOf(did)
               /\ Between \in Dids /\ ~Between.held /\ ~Between.judged /\ GraceOf(Between) = GraceOf(did)
<1> DEFINE truth == grid.pos * (price - cost)
           d == Found(price, verdict, judged)
<1>1. truth \in Int
  BY FloorIsBelow
<1>2. did.grace \in Int /\ did.lastHold \in Int
  BY DEF ManageShape, Dids
<1>3. Never \in Int
  BY DEF Never, ManageBotAssumption
<1>4. /\ Nothing \in Dids /\ Nothing.judged = FALSE /\ Nothing.held = FALSE /\ Nothing.sent = FALSE
  BY <1>3 DEF Nothing, Dids, BotActions
<1>5. /\ Between \in Dids /\ Between.judged = FALSE /\ Between.held = FALSE /\ Between.sent = FALSE
      /\ Between.grace = did.grace /\ Between.lastHold = did.lastHold
  BY <1>2, <1>4 DEF Between, Dids
<1>6. d = [Between EXCEPT !.decision = verdict, !.truth = truth, !.judged = judged]
  BY DEF Found
<1> HIDE DEF truth, d
<1>7. /\ d \in Dids /\ d.decision = verdict /\ d.truth = truth /\ d.judged = judged
      /\ d.held = FALSE /\ d.sent = FALSE /\ d.grace = did.grace /\ d.lastHold = did.lastHold
  BY <1>1, <1>5, <1>6 DEF Dids
<1> QED BY <1>5, <1>7 DEF GraceOf, truth, d

Managed == ManageShape /\ LossIsPooled /\ LossIsNeverHeld /\ LocalStopBacked

LEMMA VerdictsAre ==
    ASSUME ManageShape, ManageBotAssumption, NEW total \in Int, NEW verdict \in Verdicts(total)
    PROVE  /\ verdict \in BotActions
           /\ total <= -MaxLoss => verdict \in Urgent
           /\ verdict = "trail" => IF LongSide THEN quote - 1 > row.stop ELSE quote + 1 < row.stop
<1>1. PICK extra \in FreeFacts, regime \in RegimesRead :
        LET answer == Decision(BotInput(total, extra, regime))
        IN  verdict = IF answer = "hold" /\ extra = "liquidation" THEN "stopLoss" ELSE answer
  BY DEF Verdicts
<1> DEFINE answer == Decision(BotInput(total, extra, regime))
<1>2. answer \in BotActions
  BY DecisionsAre
<1>3. total <= -MaxLoss => answer \in Urgent
  BY LimitCloses DEF Urgent, ManageShape
<1>4. answer = "trail" => IF LongSide THEN quote - 1 > row.stop ELSE quote + 1 < row.stop
  BY TrailsInwards
<1> HIDE DEF answer
<1>5. verdict = IF answer = "hold" /\ extra = "liquidation" THEN "stopLoss" ELSE answer
  BY <1>1 DEF answer
<1>6. "stopLoss" \in BotActions /\ "stopLoss" # "trail" /\ "hold" \notin Urgent
  BY DEF BotActions, Closes, Urgent
<1> QED BY <1>2, <1>3, <1>4, <1>5, <1>6

LEMMA SightedKeeps ==
    ASSUME Managed, ManageBotAssumption, SightedPass
    PROVE  /\ Managed'
           /\ \E d \in Dids : GraceOf(d) = GraceOf(did) /\ LeavesShield(Booked, d)
           /\ UNCHANGED now
<1> DEFINE floor == FloorOf(Floating(quote))
<1>1. UNCHANGED <<cost, quote, now>> /\ quote # 0 /\ quote \in Int
  BY DEF SightedPass, Managed, ManageShape
<1>2. PICK verdict \in Verdicts(floor) : CarryOut(verdict, Booked, Found(quote, verdict, TRUE))
  BY DEF SightedPass
<1> DEFINE d == Found(quote, verdict, TRUE)
<1>3. floor \in Int /\ (grid.pos # 0 => floor <= grid.pos * (quote - cost)) /\ (grid.pos = 0 => grid.pos * (quote - cost) = 0)
  BY <1>1, FloorIsBelow DEF Managed
<1> HIDE DEF floor
<1>4. /\ verdict \in BotActions /\ (floor <= -MaxLoss => verdict \in Urgent)
      /\ verdict = "trail" => IF LongSide THEN quote - 1 > row.stop ELSE quote + 1 < row.stop
  BY <1>2, <1>3, VerdictsAre DEF Managed
<1>5. /\ d \in Dids /\ d.decision = verdict /\ d.truth = grid.pos * (quote - cost)
      /\ d.judged = TRUE /\ ~d.held /\ GraceOf(d) = GraceOf(did)
  BY <1>1, <1>4, FoundIs DEF Managed
<1>6. /\ Booked \in Rows /\ BookOf(Booked) = <<NewMark, NewPool>> /\ ShieldOf(Booked) = ShieldOf(row)
      /\ Booked.stop = row.stop /\ Booked.shieldAt = row.shieldAt
      /\ NewMark \in Int /\ NewPool \in Int /\ NewPool <= 0 /\ (grid.pos # 0 => NewMark = grid.entry)
  BY BookedIs DEF Managed
<1>7. CarryOut(verdict, Booked, d)
  BY <1>2
<1> HIDE DEF d
<1>8. Leaves(Booked, d, verdict)
  BY <1>1, <1>4, <1>5, <1>6, <1>7, CarriedOut DEF Managed
<1>9. ManageShape'
  BY <1>1, <1>8 DEF Leaves, LeavesRecords, ManageShape, Managed, Rows, GridRows, Dids
<1>10. LossIsPooled'
  <2> DEFINE pool == NewPool
  <2>1. /\ row'.mark = NewMark /\ row'.pool = pool /\ grid'.pos = grid.pos
        /\ grid'.entry = grid.entry \/ (grid.pos # 0 /\ grid'.entry = quote)
    BY <1>6, <1>8 DEF Leaves, LeavesBook, BookOf
  <2>2. pool \in Int /\ pool <= 0
    BY <1>6
  <2>3. grid.pos # 0 => grid.entry # 0 /\ pool <= grid.pos * (grid.entry - cost)
    BY DEF Managed, LossIsPooled
  <2>4. NewPool' = PoolOf(grid'.pos, grid'.entry, row'.mark, row'.pool)
    BY DEF NewPool, PoolOf
  <2>5. /\ grid.pos \in {-1, 0, 1} /\ grid.entry \in Int /\ quote \in Int /\ cost \in Int
    BY DEF Managed, ManageShape, GridRows
  <2> HIDE DEF pool
  <2>6. row'.pool <= 0
    BY <2>1, <2>2
  <2>7. ASSUME grid.pos # 0 PROVE grid'.entry # 0 /\ NewPool' <= grid'.pos * (grid'.entry - cost')
    <3>1. row'.mark = grid.entry /\ grid.entry # 0
      BY <1>6, <2>1, <2>3, <2>7
    <3>2. CASE grid'.entry = grid.entry
      <4>1. NewPool' = pool
        <5>1. NewPool' = PoolOf(grid.pos, grid.entry, grid.entry, pool)
          BY <2>1, <2>4, <3>1, <3>2
        <5> QED BY <2>2, <2>5, <2>7, <5>1, SamePool
      <4> QED BY <1>1, <2>1, <2>3, <2>7, <3>1, <3>2, <4>1
    <3>3. CASE grid'.entry = quote
      <4>1. NewPool' <= pool + grid.pos * (quote - grid.entry)
        BY <2>1, <2>2, <2>4, <2>5, <2>7, <3>1, <3>3, PoolsAre
      <4>2. NewPool' \in Int
        BY <2>1, <2>2, <2>4, <2>5, <3>1, <3>3, PoolsAre
      <4>3. pool <= grid.pos * (grid.entry - cost)
        BY <2>3, <2>7
      <4>4. CASE grid.pos = 1
        BY <1>1, <2>1, <2>2, <2>5, <3>3, <4>1, <4>2, <4>3, <4>4
      <4>5. CASE grid.pos = -1
        BY <1>1, <2>1, <2>2, <2>5, <3>3, <4>1, <4>2, <4>3, <4>5
      <4> QED BY <2>5, <2>7, <4>4, <4>5
    <3> QED BY <2>1, <3>2, <3>3
  <2> QED BY <2>1, <2>6, <2>7 DEF LossIsPooled
<1>11. LossIsNeverHeld'
  <2>1. /\ did'.decision = verdict /\ did'.truth = grid.pos * (quote - cost)
        /\ (verdict \in Urgent => did'.sent)
    BY <1>5, <1>8 DEF Leaves, LeavesVerdict
  <2>2. ASSUME did'.truth <= -MaxLoss PROVE verdict \in Urgent
    <3>1. grid.pos # 0
      BY <1>3, <2>1, <2>2 DEF ManageBotAssumption
    <3>2. grid.pos * (quote - cost) \in Int
      BY <1>1, FloorIsBelow DEF Managed
    <3>3. floor <= -MaxLoss
      BY <1>3, <2>1, <2>2, <3>1, <3>2 DEF ManageBotAssumption
    <3> QED BY <1>4, <3>3
  <2> QED BY <2>1, <2>2 DEF LossIsNeverHeld, Urgent, Closes
<1>12. LocalStopBacked'
  <2>1. LongSide' <=> LongSide
    BY <1>8 DEF Leaves, LeavesBook, LongSide
  <2>2. /\ row.stop \in Int /\ grid.card \in Int /\ quote \in Int
        /\ row'.stop \in Int /\ grid'.card \in Int
    BY <1>9 DEF Managed, ManageShape, Rows, GridRows
  <2>3. \/ row'.stop = row.stop /\ grid'.card = grid.card
        \/ verdict = "trail" /\ grid'.card = TrailedTo /\ row'.stop \in {row.stop, TrailedTo}
    BY <1>6, <1>8 DEF Leaves, LeavesStop
  <2>4. IF LongSide THEN row.stop <= grid.card ELSE row.stop >= grid.card
    BY DEF Managed, LocalStopBacked
  <2>5. IF LongSide THEN row'.stop <= grid'.card ELSE row'.stop >= grid'.card
    BY <1>4, <2>2, <2>3, <2>4 DEF TrailedTo
  <2> QED BY <2>1, <2>5 DEF LocalStopBacked
<1>13. \E e \in Dids : GraceOf(e) = GraceOf(did) /\ LeavesShield(Booked, e)
  BY <1>5, <1>8 DEF Leaves
<1> QED BY <1>1, <1>9, <1>10, <1>11, <1>12, <1>13 DEF Managed

LEMMA BlindKeeps ==
    ASSUME Managed, ManageBotAssumption, BlindPass
    PROVE  /\ Managed' /\ UNCHANGED now
           /\ ~did'.held /\ GraceOf(did') = GraceOf(did) /\ ShieldOf(row') = ShieldOf(row)
<1>1. PICK mark \in Prices, reported \in BOOLEAN :
        LET floor == BlindFloor(mark, reported)
            verdict == Decision(BotInput(floor, "none", ""))
            closes == verdict \in {"stopLoss", "takeProfit"}
        IN  \E noIntent \in Fails("intent_write") :
              /\ row' = [Booked EXCEPT
                           !.status = IF closes /\ ~noIntent THEN "STOP_REQUESTED" ELSE @]
              /\ did' = [Found(mark, verdict, reported /\ ~noIntent)
                           EXCEPT !.sent = closes /\ ~noIntent]
  BY DEF BlindPass
<1>2. UNCHANGED <<grid, cost, quote, now>>
  BY DEF BlindPass
<1> DEFINE floor == BlindFloor(mark, reported)
           verdict == Decision(BotInput(floor, "none", ""))
           closes == verdict \in {"stopLoss", "takeProfit"}
<1>3. PICK noIntent \in BOOLEAN :
        /\ row' = [Booked EXCEPT !.status = IF closes /\ ~noIntent THEN "STOP_REQUESTED" ELSE @]
        /\ did' = [Found(mark, verdict, reported /\ ~noIntent) EXCEPT !.sent = closes /\ ~noIntent]
  BY <1>1, FaultsAre
<1> DEFINE judged == reported /\ ~noIntent
           sent == closes /\ ~noIntent
           d == Found(mark, verdict, judged)
           status == IF sent THEN "STOP_REQUESTED" ELSE Booked.status
<1>4. mark \in Int /\ judged \in BOOLEAN /\ sent \in BOOLEAN
  BY ManageBotAssumption DEF Prices, ManageBotAssumption
<1>5. /\ floor \in Int /\ (grid.pos # 0 /\ reported => floor <= grid.pos * (mark - cost))
      /\ grid.pos = 0 => grid.pos * (mark - cost) = 0
      /\ grid.pos * (mark - cost) \in Int
  BY <1>4, FloorIsBelow DEF Managed
<1>6. row' = [Booked EXCEPT !.status = status] /\ did' = [d EXCEPT !.sent = sent]
  BY <1>3
<1> HIDE DEF floor
<1>7. verdict \in BotActions /\ (floor <= -MaxLoss => verdict \in {"stopLoss", "takeProfit"})
  <2>1. "none" \in FreeFacts /\ "none" # "harvest" /\ quote \in Nat
    BY DEF FreeFacts, Managed, ManageShape
  <2>2. ASSUME floor <= -MaxLoss PROVE verdict \in {"takeProfit", "stopLoss"}
    <3>1. floor \in Int
      BY <1>5
    <3> QED BY <2>1, <2>2, <3>1, LimitCloses
  <2>3. verdict \in BotActions
    BY DecisionsAre
  <2> QED BY <2>2, <2>3
<1> HIDE DEF verdict
<1>8. /\ d \in Dids /\ d.decision = verdict /\ d.truth = grid.pos * (mark - cost)
      /\ d.judged = judged /\ d.held = FALSE /\ GraceOf(d) = GraceOf(did)
  <2> HIDE DEF judged
  <2> QED BY <1>4, <1>7, FoundIs DEF Managed, Dids
<1>9. /\ Booked \in Rows /\ BookOf(Booked) = <<NewMark, NewPool>> /\ ShieldOf(Booked) = ShieldOf(row)
      /\ Booked.stop = row.stop
      /\ NewMark \in Int /\ NewPool \in Int /\ NewPool <= 0 /\ (grid.pos # 0 => NewMark = grid.entry)
  BY BookedIs DEF Managed
<1> HIDE DEF d
<1>10. /\ row' \in Rows /\ BookOf(row') = <<NewMark, NewPool>> /\ ShieldOf(row') = ShieldOf(row)
       /\ row'.stop = row.stop
  <2>1. status \in {"RUNNING", "STOP_REQUESTED"}
    BY <1>9 DEF Rows
  <2> HIDE DEF status
  <2> QED BY <1>6, <1>9, <2>1 DEF Rows, BookOf, ShieldOf
<1>11. /\ did' \in Dids /\ did'.decision = verdict /\ did'.truth = grid.pos * (mark - cost)
       /\ did'.judged = judged /\ did'.held = FALSE /\ GraceOf(did') = GraceOf(did) /\ did'.sent = sent
  <2> HIDE DEF sent, judged
  <2> QED BY <1>4, <1>6, <1>8 DEF Dids, GraceOf
<1>12. ManageShape'
  BY <1>2, <1>10, <1>11 DEF Managed, ManageShape, Rows, Dids, GridRows
<1>13. LossIsPooled'
  <2> DEFINE pool == NewPool
  <2>1. row'.mark = NewMark /\ row'.pool = pool /\ grid' = grid /\ cost' = cost
    BY <1>2, <1>10 DEF BookOf
  <2>2. grid.pos # 0 => grid.entry # 0 /\ pool <= grid.pos * (grid.entry - cost)
    BY DEF Managed, LossIsPooled
  <2>3. NewPool' = PoolOf(grid.pos, grid.entry, row'.mark, row'.pool)
    BY <2>1 DEF NewPool, PoolOf
  <2>4. grid.pos \in {-1, 0, 1} /\ grid.entry \in Int /\ pool \in Int /\ pool <= 0
    BY <1>9 DEF Managed, ManageShape, GridRows
  <2> HIDE DEF pool
  <2>5. grid.pos # 0 => NewPool' = pool
    <3>1. grid.pos # 0 => NewPool' = PoolOf(grid.pos, grid.entry, grid.entry, pool)
      BY <1>9, <2>1, <2>3
    <3> QED BY <2>4, <3>1, SamePool
  <2> QED BY <2>1, <2>2, <2>4, <2>5 DEF LossIsPooled
<1>14. LossIsNeverHeld'
  <2>1. ASSUME did'.judged, did'.truth <= -MaxLoss PROVE verdict \in {"stopLoss", "takeProfit"} /\ did'.sent
    <3>1. reported /\ ~noIntent
      BY <1>11, <2>1
    <3>2. grid.pos # 0
      BY <1>5, <1>11, <2>1 DEF ManageBotAssumption
    <3>3. floor <= -MaxLoss
      BY <1>5, <1>11, <2>1, <3>1, <3>2 DEF ManageBotAssumption
    <3> QED BY <1>7, <1>11, <3>1, <3>3
  <2> QED BY <1>11, <2>1 DEF LossIsNeverHeld, Closes
<1>15. LocalStopBacked'
  BY <1>2, <1>10 DEF Managed, LocalStopBacked, LongSide
<1> QED BY <1>2, <1>10, <1>11, <1>12, <1>13, <1>14, <1>15 DEF Managed

(* Steps between the passes: the position and the range move, the record of the
   last pass is put away. *)
LEMMA BetweenIs ==
    ASSUME Managed, ManageBotAssumption, did' = Between
    PROVE  /\ did' \in Dids /\ ~did'.held /\ ~did'.judged /\ GraceOf(did') = GraceOf(did)
           /\ LossIsNeverHeld'
<1>1. "hold" \in BotActions /\ quote \in Int
  BY DEF BotActions, Managed, ManageShape
<1>2. Between \in Dids /\ ~Between.held /\ ~Between.judged /\ GraceOf(Between) = GraceOf(did)
  BY <1>1, FoundIs DEF Managed
<1> QED BY <1>2 DEF LossIsNeverHeld

LEMMA OthersKeep ==
    ASSUME Managed, ManageBotAssumption,
           (\E price \in 0 .. PriceTop : PriceMoves(price)) \/ PositionTurns \/ OtherShift \/ BackoffEnds
    PROVE  /\ Managed' /\ now' \in {now, now + 1}
           /\ ~did'.held /\ GraceOf(did') = GraceOf(did) /\ ShieldOf(row') = ShieldOf(row)
<1>1. did' = Between
  BY DEF PriceMoves, PositionTurns, OtherShift, BackoffEnds
<1>2. /\ did' \in Dids /\ ~did'.held /\ GraceOf(did') = GraceOf(did) /\ LossIsNeverHeld'
  BY <1>1, BetweenIs
<1>3. /\ grid \in GridRows /\ row \in Rows /\ cost \in Int /\ quote \in 0 .. PriceTop /\ now \in Nat
      /\ quote \in Int /\ grid.pos \in {-1, 0, 1} /\ grid.entry \in Int /\ row.pool \in Int /\ row.mark \in Int
      /\ row.pool <= 0 /\ NewPool = PoolOf(grid.pos, grid.entry, row.mark, row.pool)
      /\ grid.pos # 0 => grid.entry # 0 /\ NewPool <= grid.pos * (grid.entry - cost)
  BY NewPoolIs DEF Managed, ManageShape, LossIsPooled, GridRows, Rows
<1>4. LocalStopBacked
  BY DEF Managed
<1>5. ASSUME NEW price \in 0 .. PriceTop, PriceMoves(price)
      PROVE  Managed' /\ now' \in {now, now + 1} /\ ShieldOf(row') = ShieldOf(row)
  <2>1. now' = now + 1 /\ quote' = price /\ UNCHANGED <<grid, cost, row>>
    BY <1>5 DEF PriceMoves
  <2>2. ManageShape'
    BY <1>2, <1>3, <2>1 DEF ManageShape, Rows, GridRows, Dids
  <2>3. LossIsPooled' /\ LocalStopBacked'
    BY <2>1 DEF Managed, LossIsPooled, NewPool, LocalStopBacked, LongSide
  <2> QED BY <1>2, <2>1, <2>2, <2>3 DEF Managed, ShieldOf
<1>6. ASSUME PositionTurns
      PROVE  Managed' /\ now' \in {now, now + 1} /\ ShieldOf(row') = ShieldOf(row)
  <2>1. now' = now + 1 /\ UNCHANGED <<quote, row>> /\ quote # 0
    BY <1>6 DEF PositionTurns
  <2>2. PICK pos \in {-1, 0, 1}, entry \in Int :
          /\ grid' = [grid EXCEPT !.pos = pos, !.entry = entry] /\ cost' = entry
          /\ pos # 0 => entry # 0
    <3>1. CASE grid.pos = 0
      BY <1>3, <1>6, <2>1, <3>1 DEF PositionTurns
    <3>2. CASE grid.pos # 0
      <4>1. grid' = [grid EXCEPT !.pos = 0, !.entry = 0] /\ cost' = 0
        BY <1>6, <3>2 DEF PositionTurns
      <4> DEFINE none == 0
      <4>2. none \in {-1, 0, 1} /\ none \in Int /\ (none # 0 => none # 0)
        BY SMT
      <4>3. grid' = [grid EXCEPT !.pos = none, !.entry = none] /\ cost' = none
        BY <4>1
      <4> HIDE DEF none
      <4> QED BY <4>2, <4>3, Zenon
    <3> QED BY <3>1, <3>2
  <2>3. /\ grid' \in GridRows /\ grid'.pos = pos /\ grid'.entry = entry
        /\ grid'.direction = grid.direction /\ grid'.card = grid.card
    BY <1>3, <2>2 DEF GridRows
  <2>4. ManageShape'
    BY <1>2, <1>3, <2>1, <2>2, <2>3 DEF ManageShape, Rows, Dids, GridRows
  <2>5. LossIsPooled'
    <3>1. NewPool' = PoolOf(pos, entry, row.mark, row.pool)
      BY <2>1, <2>3 DEF NewPool, PoolOf
    <3>2. NewPool' \in Int /\ NewPool' <= 0
      BY <1>3, <2>2, <3>1, PoolsAre
    <3>3. pos * (entry - entry) = 0
      BY <2>2
    <3> QED BY <1>3, <2>1, <2>2, <2>3, <3>2, <3>3 DEF LossIsPooled
  <2>6. LocalStopBacked'
    BY <1>4, <2>1, <2>3 DEF LocalStopBacked, LongSide
  <2> QED BY <1>2, <2>1, <2>4, <2>5, <2>6 DEF Managed, ShieldOf
<1>7. ASSUME OtherShift
      PROVE  Managed' /\ now' \in {now, now + 1} /\ ShieldOf(row') = ShieldOf(row)
  <2> DEFINE entry == IF grid.pos = 0 THEN grid.entry ELSE quote
  <2>1. /\ UNCHANGED <<cost, quote, now>> /\ quote # 0 /\ (grid.pos # 0 => row.mark = grid.entry)
        /\ grid' = [grid EXCEPT !.middle = quote, !.entry = entry]
        /\ row' = [row EXCEPT !.middle = quote, !.shifts = @ + 1]
    BY <1>7 DEF OtherShift
  <2>2. entry \in Int /\ (grid.pos # 0 => entry = quote)
    BY <1>3
  <2> HIDE DEF entry
  <2>3. /\ grid' \in GridRows /\ grid'.pos = grid.pos /\ grid'.entry = entry
        /\ grid'.direction = grid.direction /\ grid'.card = grid.card
    BY <1>3, <2>1, <2>2 DEF GridRows
  <2>4. /\ row' \in Rows /\ row'.mark = row.mark /\ row'.pool = row.pool /\ row'.stop = row.stop
        /\ row'.shieldAt = row.shieldAt /\ row'.clearedAt = row.clearedAt
    <3>1. row.shifts + 1 \in Nat
      BY <1>3 DEF Rows
    <3> QED BY <1>3, <2>1, <3>1 DEF Rows
  <2>5. ManageShape'
    BY <1>2, <1>3, <2>1, <2>3, <2>4 DEF ManageShape, Rows, Dids, GridRows
  <2>6. LossIsPooled'
    <3>1. NewPool' = PoolOf(grid.pos, entry, row.mark, row.pool)
      BY <2>3, <2>4 DEF NewPool, PoolOf
    <3>2. ASSUME grid.pos # 0 PROVE grid'.entry # 0 /\ NewPool' <= grid'.pos * (grid'.entry - cost')
      <4>1. row.mark = grid.entry /\ grid.entry # 0 /\ entry = quote
        BY <1>3, <2>1, <2>2, <3>2
      <4>2. row.pool <= grid.pos * (grid.entry - cost)
        <5>1. NewPool = PoolOf(grid.pos, grid.entry, grid.entry, row.pool)
          BY <1>3, <4>1
        <5>2. NewPool = row.pool
          BY <1>3, <3>2, <5>1, SamePool
        <5> QED BY <1>3, <3>2, <5>2
      <4>3. NewPool' <= row.pool + grid.pos * (quote - grid.entry) /\ NewPool' \in Int
        BY <1>3, <3>1, <3>2, <4>1, PoolsAre
      <4>4. CASE grid.pos = 1
        BY <1>3, <2>1, <2>3, <4>1, <4>2, <4>3, <4>4
      <4>5. CASE grid.pos = -1
        BY <1>3, <2>1, <2>3, <4>1, <4>2, <4>3, <4>5
      <4> QED BY <1>3, <3>2, <4>4, <4>5
    <3> QED BY <1>3, <2>3, <2>4, <3>2 DEF LossIsPooled
  <2>7. LocalStopBacked'
    BY <1>4, <2>3, <2>4 DEF LocalStopBacked, LongSide
  <2> QED BY <1>2, <2>1, <2>4, <2>5, <2>6, <2>7 DEF Managed, ShieldOf
<1>8. ASSUME BackoffEnds
      PROVE  Managed' /\ now' \in {now, now + 1} /\ ShieldOf(row') = ShieldOf(row)
  <2>1. UNCHANGED <<grid, cost, quote, now>> /\ row' = [row EXCEPT !.backoff = FALSE]
    BY <1>8 DEF BackoffEnds
  <2>2. /\ row' \in Rows /\ row'.mark = row.mark /\ row'.pool = row.pool /\ row'.stop = row.stop
        /\ row'.shieldAt = row.shieldAt /\ row'.clearedAt = row.clearedAt
    BY <1>3, <2>1 DEF Rows
  <2>3. ManageShape'
    BY <1>2, <1>3, <2>1, <2>2 DEF ManageShape, Rows, Dids, GridRows
  <2>4. LossIsPooled' /\ LocalStopBacked'
    BY <2>1, <2>2 DEF Managed, LossIsPooled, NewPool, LocalStopBacked, LongSide
  <2> QED BY <1>2, <2>1, <2>2, <2>3, <2>4 DEF Managed, ShieldOf
<1> QED BY <1>2, <1>5, <1>6, <1>7, <1>8

LEMMA ManagedHolds == ASSUME ManageBotAssumption PROVE ManageSpec => []Managed
<1>1. ManageInit => Managed
  <2> SUFFICES ASSUME ManageInit PROVE Managed
    OBVIOUS
  <2>1. PICK direction \in BotDirections, pos \in {-1, 1} :
          /\ grid = [direction |-> direction, pos |-> pos, entry |-> StartPrice, middle |-> StartPrice,
                     card |-> IF direction # "SHORT" THEN 0 ELSE PriceTop + 1]
          /\ cost = StartPrice /\ quote = StartPrice
          /\ row = [status |-> "RUNNING", middle |-> StartPrice,
                    stop |-> IF direction # "SHORT" THEN 0 ELSE PriceTop + 1, shifts |-> 0,
                    mark |-> 0, pool |-> 0, shieldAt |-> Never, extreme |-> 0,
                    clearedAt |-> Never, backoff |-> FALSE]
    BY DEF ManageInit
  <2> DEFINE none == IF direction # "SHORT" THEN 0 ELSE PriceTop + 1
  <2>2. StartPrice \in 1 .. PriceTop
    BY DEF StartPrice, ManageBotAssumption
  <2>3. none \in 0 .. PriceTop + 1 /\ Never \in Int
    BY DEF ManageBotAssumption, Never
  <2> HIDE DEF none
  <2>4. grid = [direction |-> direction, pos |-> pos, entry |-> StartPrice, middle |-> StartPrice, card |-> none]
    BY <2>1 DEF none
  <2>5. row = [status |-> "RUNNING", middle |-> StartPrice, stop |-> none, shifts |-> 0, mark |-> 0,
               pool |-> 0, shieldAt |-> Never, extreme |-> 0, clearedAt |-> Never, backoff |-> FALSE]
    BY <2>1 DEF none
  <2>6. did = Nothing /\ now = 0
    BY DEF ManageInit
  <2>7. /\ Nothing \in Dids /\ Nothing.judged = FALSE
    BY <2>3 DEF Nothing, Dids, BotActions
  <2>8. grid \in GridRows /\ row \in Rows
    BY <2>2, <2>3, <2>4, <2>5 DEF GridRows, Rows
  <2>9. quote \in 0 .. PriceTop /\ cost \in Int
    BY <2>1, <2>2 DEF ManageBotAssumption
  <2>10. ManageShape
    BY <2>6, <2>7, <2>8, <2>9 DEF ManageShape
  <2>11. LossIsPooled
    BY <2>1, <2>2, <2>4, <2>5 DEF LossIsPooled, NewPool
  <2>12. LossIsNeverHeld /\ LocalStopBacked
    BY <2>3, <2>4, <2>5, <2>6, <2>7 DEF LossIsNeverHeld, LocalStopBacked, LongSide, ManageBotAssumption
  <2> QED BY <2>10, <2>11, <2>12 DEF Managed
<1>2. Managed /\ [ManageNext]_manageVars => Managed'
  <2> SUFFICES ASSUME Managed, [ManageNext]_manageVars PROVE Managed'
    OBVIOUS
  <2>1. CASE UNCHANGED manageVars
    BY <2>1 DEF manageVars, Managed, ManageShape, LossIsPooled, NewPool, LossIsNeverHeld, LocalStopBacked,
                LongSide, Rows, GridRows, Dids
  <2> QED BY <2>1, SightedKeeps, BlindKeeps, OthersKeep DEF ManageNext
<1> QED BY <1>1, <1>2, PTL DEF ManageSpec

LEMMA GraceStep ==
    ASSUME Managed, GraceIsKnown, ManageBotAssumption, "arm_write" \notin ManageFaults,
           [ManageNext]_manageVars
    PROVE  /\ GraceIsKnown'
           /\ did'.held /\ did' # did => now - did.grace < Grace \/ now - did.lastHold >= ReArm
<1>1. /\ now \in Nat /\ did.grace \in Int /\ did.lastHold \in Int /\ row.shieldAt \in Int
      /\ row.clearedAt \in Int /\ Grace \in Nat /\ ReArm \in Nat /\ Grace < ReArm /\ Never \in Int /\ Never < 0
  BY DEF Managed, ManageShape, Dids, Rows, ManageBotAssumption, Never
<1>2. /\ did.lastHold <= now /\ did.grace <= now
      /\ row.shieldAt = Never => did.lastHold <= row.clearedAt /\ did.grace <= row.clearedAt
      /\ row.shieldAt # Never => row.shieldAt = did.grace
  BY DEF GraceIsKnown
<1>3. CASE SightedPass
  <2>1. PICK d \in Dids : GraceOf(d) = GraceOf(did) /\ LeavesShield(Booked, d)
    BY <1>3, SightedKeeps
  <2>2. ShieldOf(Booked) = ShieldOf(row) /\ Booked.shieldAt = row.shieldAt /\ Booked.clearedAt = row.clearedAt
    BY BookedIs DEF Managed
  <2>3. d.grace = did.grace /\ d.lastHold = did.lastHold /\ now' = now
    BY <1>3, <2>1, SightedKeeps DEF GraceOf
  <2>4. CASE ~did'.held
    <3>1. did'.grace = did.grace /\ did'.lastHold = did.lastHold
      BY <2>1, <2>3, <2>4 DEF LeavesShield, GraceOf
    <3>2. \/ row'.shieldAt = row.shieldAt /\ row'.clearedAt = row.clearedAt
          \/ row'.shieldAt = Never /\ row'.clearedAt = now
      BY <2>1, <2>2, <2>4 DEF LeavesShield, ShieldOf, Cleared
    <3>3. Never' = Never
      BY DEF Never
    <3>4. GraceIsKnown'
      BY <1>1, <1>2, <2>3, <3>1, <3>2, <3>3 DEF GraceIsKnown
    <3> QED BY <2>4, <3>4
  <2>5. CASE did'.held
    <3>1. did'.grace = (IF now - did.grace < Grace THEN did.grace ELSE now) /\ did'.lastHold = now
      BY <2>1, <2>3, <2>5 DEF LeavesShield, GraceOf
    <3>2. \/ /\ row.shieldAt # Never /\ now - row.shieldAt < Grace
             /\ row'.shieldAt = row.shieldAt /\ row'.clearedAt = row.clearedAt
          \/ /\ row.shieldAt = Never /\ now - row.clearedAt >= ReArm
             /\ row'.shieldAt = now /\ row'.clearedAt = row.clearedAt
      BY <2>1, <2>2, <2>5 DEF LeavesShield, ShieldOf
    <3>3. Never' = Never
      BY DEF Never
    <3>4. GraceIsKnown'
      BY <1>1, <1>2, <2>3, <3>1, <3>2, <3>3 DEF GraceIsKnown
    <3>5. now - did.grace < Grace \/ now - did.lastHold >= ReArm
      BY <1>1, <1>2, <3>2
    <3> QED BY <3>4, <3>5
  <2> QED BY <2>4, <2>5
<1>4. ASSUME ~did'.held, GraceOf(did') = GraceOf(did), ShieldOf(row') = ShieldOf(row), now' \in {now, now + 1}
      PROVE  GraceIsKnown'
  <2>1. /\ did'.grace = did.grace /\ did'.lastHold = did.lastHold
        /\ row'.shieldAt = row.shieldAt /\ row'.clearedAt = row.clearedAt /\ Never' = Never
    BY <1>4 DEF GraceOf, ShieldOf, Never
  <2> QED BY <1>1, <1>2, <1>4, <2>1 DEF GraceIsKnown
<1>5. CASE BlindPass
  BY <1>4, <1>5, BlindKeeps
<1>6. CASE (\E price \in 0 .. PriceTop : PriceMoves(price)) \/ PositionTurns \/ OtherShift \/ BackoffEnds
  BY <1>4, <1>6, OthersKeep
<1>7. CASE UNCHANGED manageVars
  BY <1>7 DEF manageVars, GraceIsKnown, Never
<1> QED BY <1>3, <1>5, <1>6, <1>7 DEF ManageNext

(* A pass that knows the position's value closes a grid at its loss limit: for
   every limit, target, grace and set of faults, and any number of re-basings. *)
THEOREM LossEndsTheGrid == ManageSpec => []LossIsNeverHeld
<1>1. Managed => LossIsNeverHeld
  BY DEF Managed
<1> QED BY <1>1, ManagedHolds, ManageBotAssumption, PTL

(* One grace of the wick shield per episode, and a local stop the card carries,
   as long as the shield's own arming is written. *)
THEOREM CarriedStaysBacked ==
    ASSUME "arm_write" \notin ManageFaults
    PROVE  ManageSpec => CarriedIsBacked
<1>1. Managed => LocalStopBacked
  BY DEF Managed
<1>2. ManageInit => GraceIsKnown
  BY ManageBotAssumption DEF ManageInit, GraceIsKnown, Nothing, Never, ManageBotAssumption
<1>3. Managed /\ GraceIsKnown /\ [ManageNext]_manageVars => GraceIsKnown'
  BY GraceStep, ManageBotAssumption
<1>4. Managed /\ GraceIsKnown /\ [ManageNext]_manageVars
        => [did'.held /\ did' # did => now - did.grace < Grace \/ now - did.lastHold >= ReArm]_manageVars
  BY GraceStep, ManageBotAssumption
<1> QED BY <1>1, <1>2, <1>3, <1>4, ManagedHolds, ManageBotAssumption, PTL
        DEF ManageSpec, CarriedIsBacked, OneGracePerEpisode
--------------------------------------------------------------------------
\* Radar: one grid, its event log and the pass under way.

Lanes == {"none", "velocity", "early", "band3", "escape"}
Grids ==
    [source : {"REAL", "PAPER"}, direction : {"NEUTRAL", "LONG", "SHORT"},
     status : {"RUNNING", "STOP_REQUESTED"},
     reason : {"", "EMERGENCY_OFI", "RANGE_BREAK", "RADAR_AUTOCLOSE", "OPERATOR"},
     shifts : Nat, moved : Nat, missed : Nat, young : BOOLEAN, redeploy : BOOLEAN]
RadarSteps ==
    [pc : {"idle", "weigh", "flip", "recenter", "adjust", "autoclose", "close"}, lane : Lanes,
     flip : BOOLEAN, frozen : BOOLEAN, window : {CooldownFloor, CooldownCap}, blind : BOOLEAN]
ShiftRecords == [age : 0 .. Old, lane : Lanes, recorded : BOOLEAN]
RadarShape ==
    /\ guarded \in Grids /\ radar \in RadarSteps /\ lastShift \in ShiftRecords
    /\ trail \in BOOLEAN /\ events \in [shift : 0 .. Old, autoclose : 0 .. Old]

(* A grid that runs has not been stopped; a stop that queues a re-deploy is an
   escape. *)
StopIsWitnessed(g) ==
    /\ g.status = "RUNNING" => g.reason = "" /\ ~g.redeploy
    /\ g.redeploy => g.reason \in {"EMERGENCY_OFI", "RANGE_BREAK"}

(* The event log is as young as the last re-center that it recorded. *)
LogIsCurrent(log, last) == last.recorded /\ last.lane \in ArmingLanes => log.shift <= last.age

(* A pass about to shift or to close has waited for the shortest window, or
   could not read the log. *)
HasWaited(visit, log) ==
    visit.pc \in {"adjust", "close"} /\ ~visit.blind => log.shift >= CooldownFloor

(* The count holds every move but the missed ones, and what others drew.  A
   pass about to shift has the budget for it; what is beyond it is spent. *)
Extra(lane) == IF lane = "escape" THEN 1 ELSE 0
CountIsKept(g) == g.shifts + g.missed - g.moved \in 0 .. OthersCap /\ g.missed <= MissedCap
BudgetIsKept(g, last) == g.moved <= MaxShiftsPerBot + g.missed + Extra(last.lane)
HasBudget(visit, g) == visit.pc = "adjust" => g.moved < MaxShiftsPerBot + g.missed + Extra(visit.lane)
SameCounts(g) == g.shifts = guarded.shifts /\ g.moved = guarded.moved /\ g.missed = guarded.missed

RadarInv ==
    /\ RadarShape /\ StopIsWitnessed(guarded) /\ LogIsCurrent(events, lastShift)
    /\ HasWaited(radar, events) /\ CountIsKept(guarded)
    /\ BudgetIsKept(guarded, lastShift) /\ HasBudget(radar, guarded)

USE RadarAssumption DEF Old

LEMMA RadarStarts == RadarInit => RadarInv
<1> SUFFICES ASSUME RadarInit PROVE RadarInv
  OBVIOUS
<1>1. PICK kind \in RadarGrids :
        guarded = [source |-> kind[1], direction |-> kind[2], status |-> "RUNNING", reason |-> "",
                   shifts |-> 0, moved |-> 0, missed |-> 0, young |-> TRUE, redeploy |-> FALSE]
  BY DEF RadarInit
<1>2. kind[1] \in {"REAL", "PAPER"} /\ kind[2] \in {"NEUTRAL", "LONG", "SHORT"}
  BY DEF RadarAssumption
<1>3. /\ guarded \in Grids /\ StopIsWitnessed(guarded)
      /\ guarded.shifts = 0 /\ guarded.moved = 0 /\ guarded.missed = 0
  BY <1>1, <1>2 DEF Grids, StopIsWitnessed
<1>4. radar \in RadarSteps /\ radar.pc = "idle"
  BY DEF RadarInit, Resting, RadarSteps, Lanes
<1>5. lastShift \in ShiftRecords /\ lastShift.lane = "none" /\ trail \in BOOLEAN
  <2>1. CooldownCap \in 0 .. CooldownCap
    BY DEF RadarAssumption
  <2> QED BY <2>1 DEF RadarInit, ShiftRecords, Lanes
<1>6. events \in [shift : 0 .. Old, autoclose : 0 .. Old]
  <2>1. CooldownCap \in 0 .. CooldownCap
    BY DEF RadarAssumption
  <2>2. events = [shift |-> CooldownCap, autoclose |-> CooldownCap]
    BY DEF RadarInit
  <2> QED BY <2>1, <2>2
<1> QED
  BY <1>3, <1>4, <1>5, <1>6 DEF RadarInv, RadarShape, LogIsCurrent, ArmingLanes, HasWaited,
     CountIsKept, BudgetIsKept, HasBudget, Extra, RadarAssumption

LEMMA RestIs == Resting \in RadarSteps /\ Resting.pc = "idle"
  BY DEF Resting, RadarSteps, Lanes

LEMMA EscapeIs ==
    ASSUME guarded \in Grids, StopIsWitnessed(guarded),
           NEW reason \in {"EMERGENCY_OFI", "RANGE_BREAK"}, NEW g, g = Escaped(reason)
    PROVE  /\ g \in Grids /\ StopIsWitnessed(g) /\ SameCounts(g)
           /\ g.reason # "RADAR_AUTOCLOSE" \/ g = guarded
<1>1. CASE guarded.status # "RUNNING"
  BY <1>1 DEF Escaped, SameCounts
<1>2. CASE guarded.status = "RUNNING"
  <2> DEFINE neutral == (guarded.direction = "NEUTRAL")
  <2>1. neutral \in BOOLEAN
    OBVIOUS
  <2>2. g = [guarded EXCEPT !.status = "STOP_REQUESTED", !.reason = reason, !.redeploy = neutral]
    BY <1>2 DEF Escaped
  <2> HIDE DEF neutral
  <2>3. g \in Grids /\ g.reason = reason /\ g.status = "STOP_REQUESTED" /\ SameCounts(g)
    BY <2>1, <2>2 DEF Grids, SameCounts
  <2> QED BY <2>3 DEF StopIsWitnessed
<1> QED BY <1>1, <1>2

LEMMA StepIs ==
    ASSUME RadarShape, NEW pc \in {"autoclose", "recenter", "adjust", "close"}, StepTo(pc)
    PROVE  /\ radar' \in RadarSteps /\ radar'.pc = pc /\ radar'.lane = radar.lane
           /\ radar'.window = radar.window
  BY DEF RadarShape, StepTo, RadarSteps

LEMMA RadarDecides ==
    ASSUME RadarShape, NEW due \in BOOLEAN, NEW blind \in BOOLEAN, NEW to \in {"adjust", "close"},
           Decides(due, blind, to)
    PROVE  /\ radar' \in RadarSteps /\ radar'.lane = radar.lane
           /\ due => radar'.pc = to /\ radar'.blind = blind
           /\ ~due => radar'.pc = "autoclose"
<1> DEFINE pc == IF due THEN to ELSE "autoclose"
           sees == (due /\ blind)
<1>1. pc \in {"adjust", "close", "autoclose"} /\ sees \in BOOLEAN
  OBVIOUS
<1>2. radar' = [radar EXCEPT !.pc = pc, !.flip = FALSE, !.blind = sees]
  BY DEF Decides
<1>3. (due => pc = to) /\ (~due => pc = "autoclose")
  OBVIOUS
<1>4. due => sees = blind
  OBVIOUS
<1> HIDE DEF pc, sees
<1>5. radar' \in RadarSteps /\ radar'.lane = radar.lane /\ radar'.pc = pc /\ radar'.blind = sees
  BY <1>1, <1>2 DEF RadarShape, RadarSteps
<1> QED BY <1>3, <1>4, <1>5

(* Steps that leave the log, the last re-center and the number of shifts. *)
LEMMA PassGoesOn ==
    ASSUME RadarInv, UNCHANGED <<events, lastShift>>, trail' \in BOOLEAN,
           guarded' \in Grids, StopIsWitnessed(guarded'), SameCounts(guarded'),
           radar' \in RadarSteps, HasWaited(radar', events), HasBudget(radar', guarded)
    PROVE  RadarInv'
<1>1. RadarShape'
  BY DEF RadarInv, RadarShape
<1>2. LogIsCurrent(events', lastShift') /\ HasWaited(radar', events')
  BY DEF RadarInv
<1>3. BudgetIsKept(guarded', lastShift') /\ HasBudget(radar', guarded') /\ CountIsKept(guarded')
  BY DEF RadarInv, BudgetIsKept, HasBudget, CountIsKept, SameCounts
<1> QED BY <1>1, <1>2, <1>3 DEF RadarInv

LEMMA ReadsKeep == ASSUME RadarInv, RadarReads PROVE RadarInv'
<1>0. trail' \in BOOLEAN
  BY DEF RadarInv, RadarShape, RadarReads
<1>1. radar' \in RadarSteps /\ radar'.pc = "weigh"
  BY DEF RadarReads, Resting, RadarSteps, Lanes
<1>2. UNCHANGED <<guarded, events, lastShift>>
  BY DEF RadarReads
<1>3. guarded' \in Grids /\ StopIsWitnessed(guarded') /\ SameCounts(guarded')
  BY <1>2 DEF RadarInv, RadarShape, SameCounts
<1>4. HasWaited(radar', events) /\ HasBudget(radar', guarded)
  BY <1>1 DEF HasWaited, HasBudget
<1> QED BY <1>0, <1>1, <1>2, <1>3, <1>4, PassGoesOn

LEMMA AsksAre ==
    ASSUME NEW traced \in BOOLEAN, NEW a \in Asked[traced]
    PROVE  /\ a.score \in 0 .. 3 /\ a.lane \in Lanes /\ a.flip \in BOOLEAN /\ a.frozen \in BOOLEAN
           /\ a.window \in {CooldownFloor, CooldownCap}
<1>1. PICK r \in Readings(traced) : a = Asks(r)
  BY DEF Asked
<1>2. LaneOf(r) \in Lanes
  BY DEF LaneOf, Lanes
<1>3. FlipWanted(r) \in BOOLEAN
  BY DEF FlipWanted
<1>4. r.band \in {0, 2, 3, 4} /\ r.window \in {CooldownFloor, CooldownCap}
  BY <1>1 DEF Readings
<1> DEFINE frozen == (r.flow # "none")
           score == IF r.band = 4 THEN 3 ELSE r.band
<1>5. frozen \in BOOLEAN /\ score \in 0 .. 3
  BY <1>4
<1>6. /\ a.score = score /\ a.lane = LaneOf(r) /\ a.flip = FlipWanted(r) /\ a.frozen = frozen
      /\ a.window = r.window
  BY <1>1 DEF Asks
<1> QED BY <1>2, <1>3, <1>4, <1>5, <1>6

LEMMA WeighsKeep == ASSUME RadarInv, RadarWeighs PROVE RadarInv'
<1>0. trail' \in BOOLEAN
  BY DEF RadarInv, RadarShape, RadarWeighs, Scored
<1>1. PICK a \in Asked[trail] :
        /\ guarded' = IF EmergencyDue(a) THEN Escaped("EMERGENCY_OFI") ELSE guarded
        /\ \/ Scored(a)
           \/ radar' = Resting
  BY DEF RadarWeighs
<1>2. UNCHANGED <<events, lastShift>>
  BY DEF RadarWeighs
<1>3. guarded' \in Grids /\ StopIsWitnessed(guarded') /\ SameCounts(guarded')
  <2>1. guarded \in Grids /\ StopIsWitnessed(guarded)
    BY DEF RadarInv, RadarShape
  <2>2. CASE EmergencyDue(a)
    <3>1. guarded' = Escaped("EMERGENCY_OFI")
      BY <1>1, <2>2
    <3> QED BY <2>1, <3>1, EscapeIs
  <2>3. CASE ~EmergencyDue(a)
    BY <1>1, <2>1, <2>3 DEF SameCounts
  <2> QED BY <2>2, <2>3
<1>4. radar' \in RadarSteps /\ radar'.pc \in {"idle", "flip"}
  <2>1. CASE radar' = Resting
    BY <2>1, RestIs
  <2>2. CASE Scored(a)
    <3>1. trail \in BOOLEAN /\ a \in Asked[trail]
      BY <1>1 DEF RadarInv, RadarShape
    <3>2. /\ a.lane \in Lanes /\ a.flip \in BOOLEAN /\ a.frozen \in BOOLEAN
          /\ a.window \in {CooldownFloor, CooldownCap}
      BY <3>1, AsksAre
    <3>3. \/ radar' = Resting
          \/ radar' = [pc |-> "flip", lane |-> a.lane, flip |-> a.flip, frozen |-> a.frozen,
                       window |-> a.window, blind |-> FALSE]
      BY <2>2 DEF Scored
    <3>4. ASSUME NEW r, r = [pc |-> "flip", lane |-> a.lane, flip |-> a.flip, frozen |-> a.frozen,
                             window |-> a.window, blind |-> FALSE]
          PROVE  r \in RadarSteps /\ r.pc = "flip"
      <4>1. r.pc = "flip"
        BY <3>4
      <4>2. r \in RadarSteps
        BY <3>2, <3>4 DEF RadarSteps
      <4> QED BY <4>1, <4>2
    <3>5. CASE radar' = Resting
      BY <3>5, RestIs
    <3> QED BY <3>3, <3>4, <3>5
  <2> QED BY <1>1, <2>1, <2>2
<1>5. HasWaited(radar', events) /\ HasBudget(radar', guarded)
  BY <1>4 DEF HasWaited, HasBudget
<1> QED BY <1>0, <1>2, <1>3, <1>4, <1>5, PassGoesOn

LEMMA FlipsKeep == ASSUME RadarInv, RadarFlips PROVE RadarInv'
<1>0. trail' \in BOOLEAN
  BY DEF RadarInv, RadarShape, RadarFlips
<1>1. UNCHANGED <<events, lastShift>>
  BY DEF RadarFlips
<1>2. guarded' = Escaped("RANGE_BREAK") \/ guarded' = guarded
  BY DEF RadarFlips
<1>3. guarded' \in Grids /\ StopIsWitnessed(guarded') /\ SameCounts(guarded')
  <2>1. guarded \in Grids /\ StopIsWitnessed(guarded)
    BY DEF RadarInv, RadarShape
  <2>2. CASE guarded' = Escaped("RANGE_BREAK")
    BY <2>1, <2>2, EscapeIs
  <2>3. CASE guarded' = guarded
    BY <2>1, <2>3 DEF SameCounts
  <2> QED BY <1>2, <2>2, <2>3
<1>4. StepTo("autoclose") \/ StepTo("recenter")
  BY DEF RadarFlips
<1>5. radar' \in RadarSteps /\ radar'.pc \in {"autoclose", "recenter"}
  BY <1>4, StepIs DEF RadarInv
<1>6. HasWaited(radar', events) /\ HasBudget(radar', guarded)
  BY <1>5 DEF HasWaited, HasBudget
<1> QED BY <1>0, <1>1, <1>3, <1>5, <1>6, PassGoesOn

(* Outside the cooldown the log is older than the shortest window. *)
LEMMA CoolMeansWaited == ASSUME RadarShape, ~CoolingDown PROVE events.shift >= CooldownFloor
<1>1. radar.window \in {CooldownFloor, CooldownCap} /\ events.shift \in Nat
  BY DEF RadarShape, RadarSteps
<1>2. ~(events.shift < radar.window)
  BY DEF CoolingDown
<1>3. CooldownFloor \in Nat /\ CooldownCap \in Nat /\ CooldownFloor <= CooldownCap
  BY DEF RadarAssumption
<1> QED BY <1>1, <1>2, <1>3

LEMMA RecentersKeep == ASSUME RadarInv, RadarRecenters PROVE RadarInv'
<1>0. trail' \in BOOLEAN
  BY DEF RadarInv, RadarShape, RadarRecenters
<1>1. UNCHANGED <<guarded, events, lastShift>>
  BY DEF RadarRecenters
<1>2. PICK due \in BOOLEAN, blind \in BOOLEAN :
        /\ Decides(due, blind, "adjust")
        /\ due => (blind \/ ~CoolingDown) /\ BudgetAllows(radar.lane)
  <2>1. PICK green \in BOOLEAN, blind \in Unread, held \in Unread :
          Decides(/\ ~held /\ (blind \/ ~CoolingDown) /\ DwellIsServed
                  /\ guarded.status = "RUNNING" /\ ~guarded.young
                  /\ BudgetAllows(radar.lane) /\ ~radar.frozen
                  /\ (radar.lane = "velocity" => green), blind, "adjust")
    BY DEF RadarRecenters
  <2> DEFINE due == /\ ~held /\ (blind \/ ~CoolingDown) /\ DwellIsServed
                    /\ guarded.status = "RUNNING" /\ ~guarded.young
                    /\ BudgetAllows(radar.lane) /\ ~radar.frozen
                    /\ (radar.lane = "velocity" => green)
  <2>2. due \in BOOLEAN /\ blind \in BOOLEAN
    BY DEF Unread
  <2>3. Decides(due, blind, "adjust")
    BY <2>1
  <2>4. due => (blind \/ ~CoolingDown) /\ BudgetAllows(radar.lane)
    OBVIOUS
  <2> HIDE DEF due
  <2> QED BY <2>2, <2>3, <2>4
<1>3. RadarShape
  BY DEF RadarInv
<1>4. guarded' \in Grids /\ StopIsWitnessed(guarded') /\ SameCounts(guarded')
  BY <1>1 DEF RadarInv, RadarShape, SameCounts
<1>5. /\ radar' \in RadarSteps /\ radar'.lane = radar.lane
      /\ due => radar'.pc = "adjust" /\ radar'.blind = blind
      /\ ~due => radar'.pc = "autoclose"
  BY <1>2, <1>3, RadarDecides
<1>6. HasWaited(radar', events)
  BY <1>2, <1>3, <1>5, CoolMeansWaited DEF HasWaited
<1>7. HasBudget(radar', guarded)
  <2>1. SUFFICES ASSUME due PROVE guarded.moved < MaxShiftsPerBot + guarded.missed + Extra(radar.lane)
    BY <1>5 DEF HasBudget
  <2>2. guarded.shifts < MaxShiftsPerBot + Extra(radar.lane)
    BY <1>2, <2>1 DEF BudgetAllows, Extra
  <2>3. /\ guarded.shifts \in Nat /\ guarded.moved \in Nat /\ guarded.missed \in Nat
        /\ MaxShiftsPerBot \in Nat /\ Extra(radar.lane) \in Nat /\ OthersCap \in Nat
    BY <1>3 DEF RadarShape, Grids, Extra, RadarAssumption
  <2>4. guarded.moved <= guarded.shifts + guarded.missed
    BY <2>3 DEF RadarInv, CountIsKept
  <2> QED BY <2>2, <2>3, <2>4
<1> QED BY <1>0, <1>1, <1>4, <1>5, <1>6, <1>7, PassGoesOn

(* A move of the range, counted or missed. *)
LEMMA MoveIs ==
    ASSUME RadarInv, CountedMove \/ MissedMove
    PROVE  /\ guarded' \in Grids /\ StopIsWitnessed(guarded') /\ CountIsKept(guarded')
           /\ guarded'.reason = guarded.reason /\ guarded'.moved = guarded.moved + 1
           /\ CountedMove => guarded'.missed = guarded.missed
           /\ MissedMove => guarded'.missed = guarded.missed + 1
<1>1. RadarShape /\ StopIsWitnessed(guarded) /\ CountIsKept(guarded)
  BY DEF RadarInv
<1>2. guarded.shifts \in Nat /\ guarded.moved \in Nat /\ guarded.missed \in Nat
  BY <1>1 DEF RadarShape, Grids
<1>3. /\ guarded.shifts + 1 \in Nat /\ guarded.moved + 1 \in Nat /\ guarded.missed + 1 \in Nat
      /\ OthersCap \in Nat /\ MissedCap \in Nat
  BY <1>2 DEF RadarAssumption
<1>4. CASE CountedMove
  <2>1. guarded' = [guarded EXCEPT !.shifts = guarded.shifts + 1, !.moved = guarded.moved + 1]
    BY <1>1, <1>4 DEF CountedMove, RadarShape, Grids
  <2>2. /\ guarded' \in Grids /\ guarded'.reason = guarded.reason /\ guarded'.status = guarded.status
        /\ guarded'.redeploy = guarded.redeploy /\ guarded'.shifts = guarded.shifts + 1
        /\ guarded'.moved = guarded.moved + 1 /\ guarded'.missed = guarded.missed
    BY <1>1, <1>3, <2>1 DEF RadarShape, Grids
  <2>3. CountIsKept(guarded')
    BY <1>1, <1>2, <1>3, <2>2 DEF CountIsKept
  <2>4. ~MissedMove
    <3>1. MissedMove => guarded'.missed = guarded.missed + 1
      BY <1>1, <1>3 DEF MissedMove, RadarShape, Grids
    <3> QED BY <1>2, <2>2, <3>1
  <2> QED BY <1>1, <2>2, <2>3, <2>4 DEF StopIsWitnessed
<1>5. CASE MissedMove
  <2>1. /\ guarded' = [guarded EXCEPT !.moved = guarded.moved + 1, !.missed = guarded.missed + 1]
        /\ guarded.missed < MissedCap
    BY <1>5 DEF MissedMove
  <2>2. /\ guarded' \in Grids /\ guarded'.reason = guarded.reason /\ guarded'.status = guarded.status
        /\ guarded'.redeploy = guarded.redeploy /\ guarded'.shifts = guarded.shifts
        /\ guarded'.moved = guarded.moved + 1 /\ guarded'.missed = guarded.missed + 1
    BY <1>1, <1>3, <2>1 DEF RadarShape, Grids
  <2>3. CountIsKept(guarded')
    BY <1>1, <1>2, <1>3, <2>1, <2>2 DEF CountIsKept
  <2>4. ~CountedMove
    <3>1. CountedMove => guarded'.missed = guarded.missed
      BY <1>1, <1>3 DEF CountedMove, RadarShape, Grids
    <3> QED BY <1>2, <2>2, <3>1
  <2> QED BY <1>1, <2>2, <2>3, <2>4 DEF StopIsWitnessed
<1> QED BY <1>4, <1>5

LEMMA MissedIsAllowed ==
    ASSUME RadarInv, MissedMove
    PROVE  /\ guarded' \in Grids /\ StopIsWitnessed(guarded') /\ CountIsKept(guarded')
           /\ BudgetIsKept(guarded', lastShift)
<1>1. /\ guarded' \in Grids /\ StopIsWitnessed(guarded') /\ CountIsKept(guarded')
      /\ guarded'.moved = guarded.moved + 1 /\ guarded'.missed = guarded.missed + 1
  BY MoveIs
<1>2. guarded.moved <= MaxShiftsPerBot + guarded.missed + Extra(lastShift.lane)
  BY DEF RadarInv, BudgetIsKept
<1>3. /\ guarded.moved \in Nat /\ guarded.missed \in Nat
      /\ MaxShiftsPerBot \in Nat /\ Extra(lastShift.lane) \in Nat
  BY DEF RadarInv, RadarShape, Grids, Extra, RadarAssumption
<1> QED BY <1>1, <1>2, <1>3 DEF BudgetIsKept

(* What the log holds after an event. *)
LEMMA EventIs ==
    ASSUME RadarShape, NEW recorded \in BOOLEAN, NEW lane \in Lanes, LogEvent(recorded, lane)
    PROVE  /\ events' \in [shift : 0 .. Old, autoclose : 0 .. Old] /\ events'.shift <= events.shift
           /\ recorded /\ lane \in ArmingLanes => events'.shift = 0
<1>1. 0 \in 0 .. CooldownCap
  BY DEF RadarAssumption
<1>2. events' = events \/ events' = [events EXCEPT !.shift = 0]
  BY DEF LogEvent
<1>3. events \in [shift : 0 .. Old, autoclose : 0 .. Old]
  BY DEF RadarShape
<1>4. events' \in [shift : 0 .. Old, autoclose : 0 .. Old] /\ events'.shift <= events.shift
  BY <1>1, <1>2, <1>3 DEF RadarAssumption
<1>5. recorded /\ lane \in ArmingLanes => events'.shift = 0
  BY <1>3 DEF LogEvent
<1> QED BY <1>4, <1>5

LEMMA AdjustsKeep == ASSUME RadarInv, RadarAdjusts PROVE RadarInv'
<1>0. trail' \in BOOLEAN
  BY DEF RadarInv, RadarShape, RadarAdjusts
<1>1. RadarShape
  BY DEF RadarInv
<1>2. StepTo("autoclose") /\ radar.pc = "adjust"
  BY DEF RadarAdjusts
<1>3. radar' \in RadarSteps /\ radar'.pc = "autoclose"
  BY <1>1, <1>2, StepIs
<1>4. HasWaited(radar', events') /\ HasBudget(radar', guarded') /\ HasWaited(radar', events)
      /\ HasBudget(radar', guarded)
  BY <1>3 DEF HasWaited, HasBudget
<1>5. radar.lane \in Lanes /\ \A recorded \in Recorded : recorded \in BOOLEAN
  BY <1>1 DEF RadarShape, RadarSteps, Recorded
<1>6. CASE UNCHANGED <<guarded, events, lastShift>>
  <2>1. guarded' \in Grids /\ StopIsWitnessed(guarded') /\ SameCounts(guarded')
    BY <1>6 DEF RadarInv, RadarShape, SameCounts
  <2> QED BY <1>0, <1>3, <1>4, <1>6, <2>1, PassGoesOn
<1>7. CASE UNCHANGED <<guarded, lastShift>> /\ \E recorded \in Recorded : LogEvent(recorded, radar.lane)
  <2>1. PICK recorded \in Recorded : LogEvent(recorded, radar.lane)
    BY <1>7
  <2>2. events' \in [shift : 0 .. Old, autoclose : 0 .. Old] /\ events'.shift <= events.shift
    BY <1>1, <1>5, <2>1, EventIs
  <2>3. LogIsCurrent(events', lastShift')
    BY <1>1, <1>7, <2>2 DEF RadarInv, LogIsCurrent, RadarShape, ShiftRecords, RadarAssumption
  <2>4. CountIsKept(guarded') /\ BudgetIsKept(guarded', lastShift') /\ StopIsWitnessed(guarded')
    BY <1>7 DEF RadarInv
  <2> QED BY <1>0, <1>1, <1>3, <1>4, <1>7, <2>2, <2>3, <2>4 DEF RadarInv, RadarShape
<1>8. CASE CountedMove /\ LogShift(radar.lane)
  <2>1. /\ guarded' \in Grids /\ StopIsWitnessed(guarded') /\ CountIsKept(guarded')
        /\ guarded'.moved = guarded.moved + 1 /\ guarded'.missed = guarded.missed
    BY <1>8, MoveIs
  <2>2. PICK recorded \in Recorded :
          /\ LogEvent(recorded, radar.lane)
          /\ lastShift' = [age |-> 0, lane |-> radar.lane, recorded |-> recorded]
    BY <1>8 DEF LogShift
  <2>3. 0 \in 0 .. CooldownCap
    BY DEF RadarAssumption
  <2>4. lastShift' \in ShiftRecords /\ lastShift'.lane = radar.lane
    BY <1>5, <2>2, <2>3 DEF ShiftRecords
  <2>5. /\ events' \in [shift : 0 .. Old, autoclose : 0 .. Old]
        /\ recorded /\ radar.lane \in ArmingLanes => events'.shift = 0
    BY <1>1, <1>5, <2>2, EventIs
  <2>6. LogIsCurrent(events', lastShift')
    BY <2>2, <2>5 DEF LogIsCurrent
  <2>7. BudgetIsKept(guarded', lastShift')
    <3>1. guarded.moved < MaxShiftsPerBot + guarded.missed + Extra(radar.lane)
      BY <1>2 DEF RadarInv, HasBudget
    <3>2. /\ Extra(radar.lane) \in Nat /\ MaxShiftsPerBot \in Nat
          /\ guarded.moved \in Nat /\ guarded.missed \in Nat
      BY <1>1 DEF Extra, RadarAssumption, RadarShape, Grids
    <3> QED BY <2>1, <2>4, <3>1, <3>2 DEF BudgetIsKept
  <2> QED BY <1>0, <1>3, <1>4, <2>1, <2>4, <2>5, <2>6, <2>7 DEF RadarInv, RadarShape
<1>9. CASE MissedMove /\ UNCHANGED <<events, lastShift>>
  <2>1. /\ guarded' \in Grids /\ StopIsWitnessed(guarded') /\ CountIsKept(guarded')
        /\ BudgetIsKept(guarded', lastShift)
    BY <1>9, MissedIsAllowed
  <2> QED BY <1>0, <1>1, <1>3, <1>4, <1>9, <2>1 DEF RadarInv, RadarShape
<1> QED BY <1>6, <1>7, <1>8, <1>9 DEF RadarAdjusts

LEMMA AutoclosesKeep == ASSUME RadarInv, RadarAutocloses PROVE RadarInv'
<1>0. trail' \in BOOLEAN
  BY DEF RadarInv, RadarShape, RadarAutocloses
<1>1. RadarShape
  BY DEF RadarInv
<1>2. UNCHANGED <<guarded, lastShift>>
  BY DEF RadarAutocloses
<1>3. \/ radar' = Resting /\ UNCHANGED events
      \/ /\ \E blind \in Unread : (blind \/ ~CoolingDown) /\ Decides(TRUE, blind, "close")
         /\ events' = [events EXCEPT !.autoclose = 0] \/ events' = events
  BY DEF RadarAutocloses
<1>4. events' \in [shift : 0 .. Old, autoclose : 0 .. Old] /\ events'.shift = events.shift
  <2>1. 0 \in 0 .. CooldownCap
    BY DEF RadarAssumption
  <2>2. events' = [events EXCEPT !.autoclose = 0] \/ events' = events
    BY <1>3
  <2> QED BY <1>1, <2>1, <2>2 DEF RadarShape
<1>5. radar' \in RadarSteps /\ radar'.pc \in {"idle", "close"} /\ HasWaited(radar', events')
  <2>1. CASE radar' = Resting
    BY <2>1, RestIs DEF HasWaited
  <2>2. ASSUME NEW blind \in Unread, blind \/ ~CoolingDown, Decides(TRUE, blind, "close")
        PROVE  radar' \in RadarSteps /\ radar'.pc = "close" /\ HasWaited(radar', events')
    <3>1. blind \in BOOLEAN
      BY DEF Unread
    <3>2. radar' \in RadarSteps /\ radar'.pc = "close" /\ radar'.blind = blind
      BY <1>1, <2>2, <3>1, RadarDecides
    <3> QED BY <1>1, <1>4, <2>2, <3>2, CoolMeansWaited DEF HasWaited
  <2> QED BY <1>3, <2>1, <2>2
<1>6. HasBudget(radar', guarded')
  BY <1>5 DEF HasBudget
<1>7. LogIsCurrent(events', lastShift')
  BY <1>2, <1>4 DEF RadarInv, LogIsCurrent
<1> QED BY <1>0, <1>1, <1>2, <1>4, <1>5, <1>6, <1>7 DEF RadarInv, RadarShape

(* Somebody who finds the row RUNNING stops it. *)
LEMMA StopIs ==
    ASSUME guarded \in Grids, NEW reason \in {"RADAR_AUTOCLOSE", "OPERATOR"}, StopIsWitnessed(guarded),
           guarded.status = "RUNNING",
           NEW g, g = [guarded EXCEPT !.status = "STOP_REQUESTED", !.reason = reason]
    PROVE  g \in Grids /\ StopIsWitnessed(g) /\ SameCounts(g)
<1>1. g \in Grids /\ g.status = "STOP_REQUESTED" /\ g.redeploy = guarded.redeploy /\ SameCounts(g)
  BY DEF Grids, SameCounts
<1> QED BY <1>1 DEF StopIsWitnessed

LEMMA ClosesKeep == ASSUME RadarInv, RadarCloses PROVE RadarInv'
<1>0. trail' \in BOOLEAN
  BY DEF RadarInv, RadarShape, RadarCloses
<1>1. guarded \in Grids /\ StopIsWitnessed(guarded)
  BY DEF RadarInv, RadarShape
<1>2. radar' = Resting /\ UNCHANGED <<events, lastShift>>
  BY DEF RadarCloses
<1>3. \/ guarded' = guarded
      \/ /\ guarded.status = "RUNNING"
         /\ guarded' = [guarded EXCEPT !.status = "STOP_REQUESTED", !.reason = "RADAR_AUTOCLOSE"]
  BY DEF RadarCloses
<1>4. guarded' \in Grids /\ StopIsWitnessed(guarded') /\ SameCounts(guarded')
  BY <1>1, <1>3, StopIs DEF SameCounts
<1>5. radar' \in RadarSteps /\ HasWaited(radar', events) /\ HasBudget(radar', guarded)
  BY <1>2, RestIs DEF HasWaited, HasBudget
<1> QED BY <1>0, <1>2, <1>4, <1>5, PassGoesOn

LEMMA OperatorKeeps == ASSUME RadarInv, OperatorStopsGrid PROVE RadarInv'
<1>0. trail' \in BOOLEAN
  BY DEF RadarInv, RadarShape, OperatorStopsGrid
<1>1. guarded \in Grids /\ StopIsWitnessed(guarded)
  BY DEF RadarInv, RadarShape
<1>2. UNCHANGED <<events, lastShift, radar>>
  BY DEF OperatorStopsGrid
<1>3. guarded' \in Grids /\ StopIsWitnessed(guarded') /\ SameCounts(guarded')
  BY <1>1, StopIs DEF OperatorStopsGrid
<1>4. radar' \in RadarSteps /\ HasWaited(radar', events) /\ HasBudget(radar', guarded)
  BY <1>2 DEF RadarInv, RadarShape
<1> QED BY <1>0, <1>2, <1>3, <1>4, PassGoesOn

LEMMA RestartKeeps == ASSUME RadarInv, RadarRestart PROVE RadarInv'
<1>0. trail' \in BOOLEAN
  BY DEF RadarInv, RadarShape, RadarRestart
<1>1. radar' = Resting /\ UNCHANGED <<guarded, events, lastShift>>
  BY DEF RadarRestart
<1>2. guarded' \in Grids /\ StopIsWitnessed(guarded') /\ SameCounts(guarded')
  BY <1>1 DEF RadarInv, RadarShape, SameCounts
<1>3. radar' \in RadarSteps /\ HasWaited(radar', events) /\ HasBudget(radar', guarded)
  BY <1>1, RestIs DEF HasWaited, HasBudget
<1> QED BY <1>0, <1>1, <1>2, <1>3, PassGoesOn

LEMMA ManageKeeps == ASSUME RadarInv, ManageShifts PROVE RadarInv'
<1>0. trail' \in BOOLEAN
  BY DEF RadarInv, RadarShape, ManageShifts
<1>1. RadarShape /\ CountIsKept(guarded)
  BY DEF RadarInv
<1>2. radar.pc = "idle" /\ guarded.shifts < MaxShiftsPerBot /\ UNCHANGED <<events, lastShift, radar>>
  BY DEF ManageShifts
<1>3. /\ guarded' \in Grids /\ StopIsWitnessed(guarded') /\ CountIsKept(guarded')
      /\ BudgetIsKept(guarded', lastShift)
  <2>1. CASE MissedMove
    BY <2>1, MissedIsAllowed
  <2>2. CASE CountedMove
    <3>1. /\ guarded' \in Grids /\ StopIsWitnessed(guarded') /\ CountIsKept(guarded')
          /\ guarded'.moved = guarded.moved + 1 /\ guarded'.missed = guarded.missed
      BY <2>2, MoveIs
    <3>2. /\ guarded.shifts \in Nat /\ guarded.moved \in Nat /\ guarded.missed \in Nat
          /\ MaxShiftsPerBot \in Nat /\ Extra(lastShift.lane) \in Nat /\ OthersCap \in Nat
      BY <1>1 DEF RadarShape, Grids, Extra, RadarAssumption
    <3>3. guarded.moved <= guarded.shifts + guarded.missed
      BY <1>1, <3>2 DEF CountIsKept
    <3> QED BY <1>2, <3>1, <3>2, <3>3 DEF BudgetIsKept
  <2> QED BY <2>1, <2>2 DEF ManageShifts
<1>4. HasWaited(radar', events') /\ HasBudget(radar', guarded')
  BY <1>2 DEF HasWaited, HasBudget
<1> QED BY <1>0, <1>1, <1>2, <1>3, <1>4 DEF RadarInv, RadarShape

LEMMA OthersDrawKeeps == ASSUME RadarInv, OthersDraw PROVE RadarInv'
<1>0. trail' \in BOOLEAN
  BY DEF RadarInv, RadarShape, OthersDraw
<1>1. RadarShape /\ StopIsWitnessed(guarded) /\ CountIsKept(guarded)
  BY DEF RadarInv
<1>2. UNCHANGED <<events, lastShift, radar>> /\ guarded.shifts + guarded.missed - guarded.moved < OthersCap
  BY DEF OthersDraw
<1>3. guarded.shifts \in Nat /\ guarded.shifts + 1 \in Nat /\ guarded.moved \in Nat /\ guarded.missed \in Nat
  <2>1. guarded.shifts \in Nat /\ guarded.moved \in Nat /\ guarded.missed \in Nat
    BY <1>1 DEF RadarShape, Grids
  <2> QED BY <2>1
<1>4. guarded' = [guarded EXCEPT !.shifts = guarded.shifts + 1]
  BY DEF OthersDraw
<1>5. /\ guarded' \in Grids /\ guarded'.shifts = guarded.shifts + 1 /\ guarded'.status = guarded.status
      /\ guarded'.reason = guarded.reason /\ guarded'.redeploy = guarded.redeploy
      /\ guarded'.moved = guarded.moved /\ guarded'.missed = guarded.missed
  BY <1>1, <1>3, <1>4 DEF RadarShape, Grids
<1>6. StopIsWitnessed(guarded') /\ CountIsKept(guarded')
  <2>1. StopIsWitnessed(guarded')
    BY <1>1, <1>5 DEF StopIsWitnessed
  <2>2. OthersCap \in Nat
    BY DEF RadarAssumption
  <2>3. CountIsKept(guarded')
    BY <1>1, <1>2, <1>3, <1>5, <2>2 DEF CountIsKept
  <2> QED BY <2>1, <2>3
<1>7. BudgetIsKept(guarded', lastShift') /\ HasBudget(radar', guarded')
  BY <1>2, <1>5 DEF RadarInv, BudgetIsKept, HasBudget
<1>8. HasWaited(radar', events') /\ LogIsCurrent(events', lastShift')
  BY <1>2 DEF RadarInv
<1> QED BY <1>0, <1>1, <1>2, <1>5, <1>6, <1>7, <1>8 DEF RadarInv, RadarShape

LEMMA OlderIs ==
    ASSUME NEW age \in 0 .. Old, NEW limit \in 0 .. Old, age <= limit
    PROVE  Older(age) \in 0 .. Old /\ age <= Older(age) /\ Older(age) <= Older(limit)
<1>1. CooldownCap \in Nat
  BY DEF RadarAssumption
<1> QED BY <1>1 DEF Older

LEMMA QuarterKeeps == ASSUME RadarInv, QuarterPasses PROVE RadarInv'
<1>0. RadarShape /\ StopIsWitnessed(guarded)
  BY DEF RadarInv
<1>1. PICK young \in {guarded.young, FALSE} : guarded' = [guarded EXCEPT !.young = young]
  BY DEF QuarterPasses
<1>2. young \in BOOLEAN
  BY <1>0 DEF RadarShape, Grids
<1>3. /\ guarded' \in Grids /\ SameCounts(guarded') /\ guarded'.status = guarded.status
      /\ guarded'.reason = guarded.reason /\ guarded'.redeploy = guarded.redeploy
  BY <1>0, <1>1, <1>2 DEF RadarShape, Grids, SameCounts
<1>4. StopIsWitnessed(guarded')
  BY <1>0, <1>3 DEF StopIsWitnessed
<1>5. events.shift \in 0 .. Old /\ events.autoclose \in 0 .. Old /\ lastShift.age \in 0 .. Old
  BY <1>0 DEF RadarShape, ShiftRecords
<1>6. /\ Older(events.shift) \in 0 .. Old /\ Older(events.autoclose) \in 0 .. Old
      /\ Older(lastShift.age) \in 0 .. Old
  <2>1. \A age \in 0 .. Old : age <= age
    BY DEF RadarAssumption
  <2> QED BY <1>5, <2>1, OlderIs
<1>7. events' = [shift |-> Older(events.shift), autoclose |-> Older(events.autoclose)]
  BY DEF QuarterPasses
<1>8. lastShift' = [lastShift EXCEPT !.age = Older(lastShift.age)]
  BY DEF QuarterPasses
<1>9. events' \in [shift : 0 .. Old, autoclose : 0 .. Old] /\ events'.shift = Older(events.shift)
  BY <1>6, <1>7
<1>10. /\ lastShift' \in ShiftRecords /\ lastShift'.age = Older(lastShift.age)
       /\ lastShift'.lane = lastShift.lane /\ lastShift'.recorded = lastShift.recorded
  BY <1>0, <1>6, <1>8 DEF RadarShape, ShiftRecords
<1>11. LogIsCurrent(events', lastShift')
  <2>1. SUFFICES ASSUME lastShift'.recorded, lastShift'.lane \in ArmingLanes
                 PROVE  events'.shift <= lastShift'.age
    BY DEF LogIsCurrent
  <2>2. events.shift <= lastShift.age
    BY <1>10, <2>1 DEF RadarInv, LogIsCurrent
  <2>3. Older(events.shift) <= Older(lastShift.age)
    BY <1>5, <2>2, OlderIs
  <2> QED BY <1>9, <1>10, <2>3
<1>12. radar' = radar /\ radar.pc = "idle" /\ trail' \in BOOLEAN
  BY <1>0 DEF QuarterPasses, RadarShape
<1>13. HasWaited(radar', events') /\ HasBudget(radar', guarded')
  BY <1>12 DEF HasWaited, HasBudget
<1>14. BudgetIsKept(guarded', lastShift') /\ CountIsKept(guarded')
  BY <1>3, <1>10 DEF RadarInv, BudgetIsKept, CountIsKept, SameCounts
<1>15. RadarShape'
  BY <1>0, <1>3, <1>9, <1>10, <1>12 DEF RadarShape
<1> QED BY <1>4, <1>11, <1>13, <1>14, <1>15 DEF RadarInv

LEMMA RadarInductive == RadarInv /\ [RadarNext]_radarVars => RadarInv'
<1> SUFFICES ASSUME RadarInv, [RadarNext]_radarVars PROVE RadarInv'
  OBVIOUS
<1>1. CASE UNCHANGED radarVars
  BY <1>1 DEF radarVars, RadarInv, RadarShape
<1>2. CASE RadarReads \/ RadarWeighs \/ RadarFlips \/ RadarRecenters
  BY <1>2, ReadsKeep, WeighsKeep, FlipsKeep, RecentersKeep
<1>3. CASE RadarAdjusts \/ RadarAutocloses \/ RadarCloses
  BY <1>3, AdjustsKeep, AutoclosesKeep, ClosesKeep
<1>4. CASE ManageShifts \/ OthersDraw \/ QuarterPasses \/ OperatorStopsGrid \/ RadarRestart
  BY <1>4, ManageKeeps, OthersDrawKeeps, QuarterKeeps, OperatorKeeps, RestartKeeps
<1> QED BY <1>1, <1>2, <1>3, <1>4 DEF RadarNext

LEMMA RadarHolds == RadarSpec => []RadarInv
<1> USE RadarAssumption
<1> QED BY RadarStarts, RadarInductive, PTL DEF RadarSpec

LEMMA LastResort == RadarInv => EscapeIsLastResort
<1> SUFFICES ASSUME RadarInv PROVE EscapeIsLastResort
  OBVIOUS
<1>1. guarded.moved \in Nat /\ guarded.missed \in Nat /\ MaxShiftsPerBot \in Nat
  BY DEF RadarInv, RadarShape, Grids, RadarAssumption
<1>2. EscapeOnlyBeyondBudget
  BY <1>1 DEF RadarInv, BudgetIsKept, Extra, EscapeOnlyBeyondBudget
<1>3. RedeployFollowsEscape
  BY DEF RadarInv, StopIsWitnessed, RedeployFollowsEscape
<1> QED BY <1>2, <1>3 DEF EscapeIsLastResort

(* Who else but RadarCloses writes the reason of an auto-close. *)
LEMMA ClosesAre == ASSUME RadarInv, RadarNext, Autoclosed PROVE radar.pc = "close"
<1>1. guarded'.reason = "RADAR_AUTOCLOSE" /\ guarded.reason = ""
  BY DEF Autoclosed
<1>2. guarded \in Grids /\ StopIsWitnessed(guarded)
  BY DEF RadarInv, RadarShape
<1>3. ASSUME NEW reason \in {"EMERGENCY_OFI", "RANGE_BREAK"}, guarded' = Escaped(reason)
      PROVE  FALSE
  <2>1. guarded'.reason # "RADAR_AUTOCLOSE" \/ guarded' = guarded
    BY <1>2, <1>3, EscapeIs
  <2> QED BY <1>1, <2>1
<1>4. guarded' # guarded
  BY <1>1
<1>5. CASE RadarWeighs
  BY <1>3, <1>4, <1>5 DEF RadarWeighs
<1>6. CASE RadarFlips
  BY <1>3, <1>4, <1>6 DEF RadarFlips
<1>7. CASE RadarReads \/ RadarRecenters \/ RadarAutocloses \/ RadarRestart
  BY <1>4, <1>7 DEF RadarReads, RadarRecenters, RadarAutocloses, RadarRestart
<1>8. CASE RadarAdjusts \/ ManageShifts
  <2>1. CountedMove \/ MissedMove
    BY <1>4, <1>8 DEF RadarAdjusts, ManageShifts
  <2> QED BY <1>1, <2>1, MoveIs
<1>9. CASE OthersDraw
  <2>1. guarded' = [guarded EXCEPT !.shifts = guarded.shifts + 1]
    BY <1>9 DEF OthersDraw
  <2> QED BY <1>1, <1>2, <2>1 DEF Grids
<1>10. CASE QuarterPasses
  <2>1. PICK young \in {guarded.young, FALSE} : guarded' = [guarded EXCEPT !.young = young]
    BY <1>10 DEF QuarterPasses
  <2> QED BY <1>1, <1>2, <2>1 DEF Grids
<1>11. CASE OperatorStopsGrid
  <2>1. guarded' = [guarded EXCEPT !.status = "STOP_REQUESTED", !.reason = "OPERATOR"]
    BY <1>11 DEF OperatorStopsGrid
  <2> QED BY <1>1, <1>2, <2>1 DEF Grids
<1>12. CASE RadarCloses
  BY <1>12 DEF RadarCloses
<1> QED BY <1>5, <1>6, <1>7, <1>8, <1>9, <1>10, <1>11, <1>12 DEF RadarNext

\* The radar escapes only as the last resort, a re-deploy follows an escape and
\* never an operator's close, and a recorded re-center gets its window to prove
\* itself: whoever stops the grid or draws on its count in between, over shifts
\* that land without being counted and over restarts, and for every cooldown,
\* dwell and budget.
THEOREM RadarKeepsTheGates == RadarSpec => RadarKeepsItsGates
<1> USE RadarAssumption
<1> DEFINE Window ==
      lastShift.recorded /\ lastShift.lane \in {"band3", "escape", "early"}
         /\ lastShift.age < CooldownFloor /\ ~radar.blind => ~Shifted /\ ~Autoclosed
<1>1. RadarInv => EscapeIsLastResort
  BY LastResort
<1>2. RadarInv /\ [RadarNext]_radarVars => [Window]_radarVars
  <2> SUFFICES ASSUME RadarInv, RadarNext, lastShift.recorded,
                      lastShift.lane \in {"band3", "escape", "early"},
                      lastShift.age < CooldownFloor, ~radar.blind, Shifted \/ Autoclosed
               PROVE  FALSE
    OBVIOUS
  <2>1. radar.pc \in {"adjust", "close"}
    BY ClosesAre DEF Shifted
  <2>2. events.shift >= CooldownFloor
    BY <2>1 DEF RadarInv, HasWaited
  <2>3. events.shift <= lastShift.age
    BY DEF RadarInv, LogIsCurrent, ArmingLanes
  <2>4. events.shift \in Nat /\ lastShift.age \in Nat /\ CooldownFloor \in Nat
    BY DEF RadarInv, RadarShape, ShiftRecords, RadarAssumption
  <2> QED BY <2>2, <2>3, <2>4
<1> HIDE DEF Window
<1>3. RadarSpec => [][Window]_radarVars
  BY <1>2, RadarHolds, PTL DEF RadarSpec
<1>4. RadarSpec => ShiftIsGivenItsWindow
  BY <1>3 DEF ShiftIsGivenItsWindow, Window
<1>5. RadarSpec => []EscapeIsLastResort
  BY <1>1, RadarHolds, PTL
<1> QED BY <1>4, <1>5 DEF RadarKeepsItsGates
--------------------------------------------------------------------------
\* SettingsForms: the row, the breaker and the requests under way.

Coherent(s) ==
    /\ s.low < s.high /\ s.leverage \in 1 .. 100
    /\ s.pnl = "FIXED" => s.target > 0
Breakers == [auto : BOOLEAN, cap : 1 .. 100, value : Nat]

Opened    == [step : {"open"}, preset : BOOLEAN, form : Carried]
Checked   == [step : {"validate", "write"}, preset : BOOLEAN, row : Columns]
Reloading == [step |-> "reload"]
Deriving  == [step : {"sync", "derive"}, row : Columns]
Requests  == {AtRest, Reloading} \cup Opened \cup Checked \cup Deriving
Tunings   == {AtRest} \cup [step : {"write"}, seen : Columns, row : Columns]

SettingsShape ==
    /\ settingsRow \in Columns /\ Coherent(settingsRow) /\ breakerRow \in Breakers
    /\ desk \in [Writers -> Requests] /\ tuning \in Tunings

(* What is about to be written has been validated, or tuned from a row that was. *)
Validated(d) == d.step = "write" => Coherent(d.row)
TunedWell(t) == t # AtRest => t.row.low < t.row.high /\ t.row.leverage \in 1 .. 100
WritesAreSound == (\A w \in Writers : Validated(desk[w])) /\ TunedWell(tuning)

(* Without overlap one request is under way, or the worker tunes. *)
OneAtATime(requests, tunes) ==
    /\ \A v, w \in Writers : requests[v] # AtRest /\ requests[w] # AtRest => v = w
    /\ tunes # AtRest => \A w \in Writers : requests[w] = AtRest

(* A preset under way carries the operator's columns as they are. *)
PresetIs(d, s) ==
    /\ d.step = "open" /\ d.preset => d.form.mode = s.mode /\ d.form.autoclose \notin AutocloseModes
    /\ d.step \in {"validate", "write"} /\ d.preset => d.row.mode = s.mode /\ d.row.autoclose = s.autoclose
Undisturbed ==
    "overlap" \notin settingsWorld =>
        OneAtATime(desk, tuning) /\ \A w \in Writers : PresetIs(desk[w], settingsRow)

(* In a quiet world the breaker is the row's, or somebody is about to derive it
   from the row. *)
Pending == {"reload", "sync", "derive"}
Derived(requests, s, b) ==
    /\ \A w \in Writers : requests[w].step \in {"sync", "derive"} => requests[w].row = s
    /\ b.auto /\ (\A w \in Writers : requests[w].step \notin Pending) => b.value = DeriveDailyLossBreaker(s)
QuietWorld == settingsWorld = {} => tuning = AtRest /\ Derived(desk, settingsRow, breakerRow)

SettingsInv == SettingsShape /\ WritesAreSound /\ Undisturbed /\ QuietWorld

LEMMA RestIsARequest == AtRest \in Requests /\ AtRest.step = "idle" /\ AtRest \in Tunings
  BY DEF Requests, AtRest, Tunings

LEMMA DerivedIsNat == ASSUME NEW s \in Columns PROVE DeriveDailyLossBreaker(s) \in Nat
<1>1. s.fleet \in Nat /\ s.leverage \in Nat
  BY DEF Columns
<1>2. s.fleet * s.leverage \in Nat
  BY <1>1
<1> QED BY <1>2 DEF DeriveDailyLossBreaker

LEMMA SettingsStart == SettingsInit => SettingsInv
<1> SUFFICES ASSUME SettingsInit PROVE SettingsInv
  OBVIOUS
<1>1. settingsRow \in Columns /\ Coherent(settingsRow)
  BY DEF SettingsInit, Columns, Coherent, PnlModes, AutocloseModes
<1>2. breakerRow \in Breakers /\ breakerRow.value = DeriveDailyLossBreaker(settingsRow)
  BY <1>1, DerivedIsNat DEF SettingsInit, Breakers
<1>3. tuning = AtRest /\ desk = [w \in Writers |-> AtRest]
  BY DEF SettingsInit
<1>4. SettingsShape
  BY <1>1, <1>2, <1>3, RestIsARequest DEF SettingsShape
<1>5. WritesAreSound
  BY <1>3, RestIsARequest DEF WritesAreSound, Validated, TunedWell
<1>6. Undisturbed
  BY <1>3, RestIsARequest DEF Undisturbed, OneAtATime, PresetIs
<1>7. QuietWorld
  BY <1>2, <1>3, RestIsARequest DEF QuietWorld, Derived, Pending
<1> QED BY <1>4, <1>5, <1>6, <1>7 DEF SettingsInv

(* A request's own steps: the others' stay as they are. *)
LEMMA RequestMoves ==
    ASSUME SettingsInv, NEW w \in Writers, NEW to \in Requests, Moves(w, to), UNCHANGED <<settingsWorld, tuning>>,
           desk[w] # AtRest \/ Alone,
           settingsRow' \in Columns, Coherent(settingsRow'), breakerRow' \in Breakers,
           Validated(to), "overlap" \notin settingsWorld => PresetIs(to, settingsRow'),
           settingsWorld = {} => /\ to.step \in {"sync", "derive"} => to.row = settingsRow'
                                 /\ breakerRow'.auto /\ to.step \notin Pending
                                      => breakerRow'.value = DeriveDailyLossBreaker(settingsRow')
    PROVE  SettingsInv'
<1>1. desk \in [Writers -> Requests] /\ tuning \in Tunings
  BY DEF SettingsInv, SettingsShape
<1>2. desk' \in [Writers -> Requests] /\ desk'[w] = to /\ \A v \in Writers \ {w} : desk'[v] = desk[v]
  BY <1>1 DEF Moves
<1>3. SettingsShape'
  BY <1>1, <1>2 DEF SettingsShape
<1>4. WritesAreSound'
  BY <1>2 DEF SettingsInv, WritesAreSound
<1>5. ASSUME "overlap" \notin settingsWorld
      PROVE  tuning = AtRest /\ \A v \in Writers \ {w} : desk[v] = AtRest
  <2>1. OneAtATime(desk, tuning)
    BY <1>5 DEF SettingsInv, Undisturbed
  <2>2. CASE desk[w] # AtRest
    BY <2>1, <2>2 DEF OneAtATime
  <2>3. CASE Alone
    BY <1>5, <2>3 DEF Alone, Quiet
  <2> QED BY <2>2, <2>3
<1>6. Undisturbed'
  <2>1. SUFFICES ASSUME "overlap" \notin settingsWorld
                 PROVE  OneAtATime(desk', tuning') /\ \A v \in Writers : PresetIs(desk'[v], settingsRow')
    BY DEF Undisturbed
  <2>2. tuning' = AtRest /\ \A v \in Writers \ {w} : desk'[v] = AtRest
    BY <1>2, <1>5, <2>1
  <2>3. PresetIs(AtRest, settingsRow')
    BY RestIsARequest DEF PresetIs
  <2>4. PresetIs(to, settingsRow')
    BY <2>1
  <2> QED BY <1>2, <2>2, <2>3, <2>4 DEF OneAtATime
<1>7. QuietWorld'
  <2>1. SUFFICES ASSUME settingsWorld = {}
                 PROVE  tuning' = AtRest /\ Derived(desk', settingsRow', breakerRow')
    BY DEF QuietWorld
  <2>2. tuning' = AtRest /\ \A v \in Writers \ {w} : desk'[v] = AtRest
    BY <1>2, <1>5, <2>1
  <2> QED BY <1>2, <2>1, <2>2, RestIsARequest DEF Derived
<1> QED BY <1>3, <1>4, <1>6, <1>7 DEF SettingsInv

USE SettingsAssumption

(* What a step finds in a request. *)
LEMMA RequestIs ==
    ASSUME SettingsInv, NEW w \in Writers
    PROVE  /\ desk[w] \in Requests /\ Validated(desk[w])
           /\ settingsRow \in Columns /\ Coherent(settingsRow) /\ breakerRow \in Breakers
           /\ At(w, "idle") => desk[w] = AtRest
           /\ At(w, "open") => desk[w] \in Opened
           /\ At(w, "validate") \/ At(w, "write") => desk[w] \in Checked
           /\ At(w, "sync") \/ At(w, "derive") => desk[w] \in Deriving
           /\ ~At(w, "idle") => desk[w] # AtRest
<1>1. desk[w] \in Requests /\ Validated(desk[w])
  BY DEF SettingsInv, SettingsShape, WritesAreSound
<1>2. settingsRow \in Columns /\ Coherent(settingsRow) /\ breakerRow \in Breakers
  BY DEF SettingsInv, SettingsShape
<1>3. /\ At(w, "idle") => desk[w] = AtRest
      /\ At(w, "open") => desk[w] \in Opened
      /\ At(w, "validate") \/ At(w, "write") => desk[w] \in Checked
      /\ At(w, "sync") \/ At(w, "derive") => desk[w] \in Deriving
      /\ ~At(w, "idle") => desk[w] # AtRest
  BY <1>1 DEF At, Requests, AtRest, Reloading, Opened, Checked, Deriving
<1> QED BY <1>1, <1>2, <1>3

(* In a world without overlap a preset's request carries the operator's columns. *)
LEMMA PresetUnderWay ==
    ASSUME SettingsInv, "overlap" \notin settingsWorld, NEW w \in Writers
    PROVE  PresetIs(desk[w], settingsRow)
  BY DEF SettingsInv, Undisturbed

(* The end of a request that has nothing left to derive. *)
LEMMA RequestEnds ==
    ASSUME SettingsInv, NEW w \in Writers, ~At(w, "idle"), Ends(w),
           UNCHANGED <<settingsWorld, tuning, settingsRow>>, breakerRow' \in Breakers,
           settingsWorld = {} /\ breakerRow'.auto => breakerRow'.value = DeriveDailyLossBreaker(settingsRow)
    PROVE  SettingsInv'
<1>1. Moves(w, AtRest) /\ desk[w] # AtRest
  BY RequestIs DEF Ends
<1>2. AtRest \in Requests /\ AtRest.step = "idle"
  BY RestIsARequest
<1>3. settingsRow' \in Columns /\ Coherent(settingsRow')
  BY RequestIs
<1>4. Validated(AtRest) /\ ("overlap" \notin settingsWorld => PresetIs(AtRest, settingsRow'))
  BY <1>2 DEF Validated, PresetIs
<1>5. settingsWorld = {} => /\ AtRest.step \in {"sync", "derive"} => AtRest.row = settingsRow'
                            /\ breakerRow'.auto /\ AtRest.step \notin Pending
                                 => breakerRow'.value = DeriveDailyLossBreaker(settingsRow')
  BY <1>2
<1> QED BY <1>1, <1>2, <1>3, <1>4, <1>5, RequestMoves

(* In a quiet world nobody else is at work beside a request. *)
LEMMA QuietMeans ==
    ASSUME SettingsInv, settingsWorld = {}, NEW w \in Writers, ~At(w, "idle") \/ Alone
    PROVE  /\ At(w, "sync") \/ At(w, "derive") => desk[w].row = settingsRow
           /\ desk[w].step \notin Pending /\ breakerRow.auto
                => breakerRow.value = DeriveDailyLossBreaker(settingsRow)
<1>1. Derived(desk, settingsRow, breakerRow)
  BY DEF SettingsInv, QuietWorld
<1>2. At(w, "sync") \/ At(w, "derive") => desk[w].row = settingsRow
  BY <1>1 DEF Derived, At
<1>3. \A v \in Writers \ {w} : desk[v] = AtRest
  <2>1. OneAtATime(desk, tuning)
    BY DEF SettingsInv, Undisturbed
  <2>2. CASE ~At(w, "idle")
    <3>1. desk[w] # AtRest
      BY <2>2, RequestIs
    <3> QED BY <2>1, <3>1 DEF OneAtATime
  <2>3. CASE Alone
    BY <2>3 DEF Alone, Quiet
  <2> QED BY <2>2, <2>3
<1>4. \A v \in Writers \ {w} : desk[v].step \notin Pending
  BY <1>3, RestIsARequest DEF Pending
<1>5. desk[w].step \notin Pending /\ breakerRow.auto
         => breakerRow.value = DeriveDailyLossBreaker(settingsRow)
  BY <1>1, <1>4 DEF Derived
<1> QED BY <1>2, <1>5

LEMMA SubmitKeeps == ASSUME SettingsInv, NEW w \in Writers, Submit(w) PROVE SettingsInv'
<1>1. PICK f \in Forms : Moves(w, [step |-> "open", preset |-> FALSE, form |-> f])
  BY DEF Submit
<1>2. Alone /\ UNCHANGED <<settingsWorld, settingsRow, breakerRow, tuning>> /\ desk[w].step = "idle"
  BY DEF Submit, MayBegin, At
<1> DEFINE to == [step |-> "open", preset |-> FALSE, form |-> f]
<1>3. to \in Requests /\ to.step = "open" /\ ~to.preset
  BY DEF SettingsAssumption, Requests, Opened
<1> HIDE DEF to
<1>4. settingsRow' \in Columns /\ Coherent(settingsRow') /\ breakerRow' \in Breakers
  BY <1>2, RequestIs
<1>5. Validated(to) /\ ("overlap" \notin settingsWorld => PresetIs(to, settingsRow'))
  BY <1>3 DEF Validated, PresetIs
<1>6. settingsWorld = {} /\ breakerRow.auto => breakerRow.value = DeriveDailyLossBreaker(settingsRow)
  BY <1>2, QuietMeans DEF Pending
<1>7. settingsWorld = {} => /\ to.step \in {"sync", "derive"} => to.row = settingsRow'
                            /\ breakerRow'.auto /\ to.step \notin Pending
                                 => breakerRow'.value = DeriveDailyLossBreaker(settingsRow')
  BY <1>2, <1>3, <1>6
<1>8. Moves(w, to)
  BY <1>1 DEF to
<1>9. UNCHANGED <<settingsWorld, tuning>>
  BY <1>2
<1> QED BY <1>2, <1>3, <1>4, <1>5, <1>7, <1>8, <1>9, RequestMoves

(* What a preset's form carries. *)
LEMMA PresetForm ==
    ASSUME NEW s \in Columns, NEW patch \in Patches, NEW form, form = mergePreset(s, patch)
    PROVE  form \in Carried /\ form.mode = s.mode /\ form.autoclose = ""
<1>1. /\ DOMAIN patch \subseteq {"leverage", "low", "high", "fleet", "pnl", "target"}
      /\ \A k \in DOMAIN patch : IF k = "pnl" THEN patch[k] \in PnlModes ELSE patch[k] \in Nat
  BY DEF SettingsAssumption
<1>2. DOMAIN s = {"mode", "leverage", "low", "high", "fleet", "pnl", "target", "autoclose"}
  BY DEF Columns
<1>3. \A k \in DOMAIN s :
        form[k] = IF k \in DOMAIN patch THEN patch[k] ELSE IF k = "autoclose" THEN "" ELSE s[k]
  BY DEF mergePreset
<1>4. form = [mode |-> form.mode, leverage |-> form.leverage, low |-> form.low, high |-> form.high,
              fleet |-> form.fleet, pnl |-> form.pnl, target |-> form.target,
              autoclose |-> form.autoclose]
  BY <1>2 DEF mergePreset
<1>5. form.mode = s.mode /\ form.autoclose = ""
  <2>1. "mode" \notin DOMAIN patch /\ "autoclose" \notin DOMAIN patch
    BY <1>1
  <2>2. "mode" \in DOMAIN s /\ "autoclose" \in DOMAIN s
    BY <1>2
  <2> QED BY <1>3, <2>1, <2>2
<1>6. /\ s.mode \in {"PAPER", "REAL"} /\ s.leverage \in Nat /\ s.low \in Nat /\ s.high \in Nat
      /\ s.fleet \in Nat /\ s.pnl \in PnlModes /\ s.target \in Nat
  BY DEF Columns
<1>7. /\ form.leverage \in Nat /\ form.low \in Nat /\ form.high \in Nat /\ form.fleet \in Nat
      /\ form.target \in Nat
  BY <1>1, <1>2, <1>3, <1>6
<1>8. form.pnl \in PnlModes
  BY <1>1, <1>2, <1>3, <1>6
<1> QED BY <1>4, <1>5, <1>6, <1>7, <1>8 DEF Carried

LEMMA PresetKeeps == ASSUME SettingsInv, NEW w \in Writers, ApplyPreset(w) PROVE SettingsInv'
<1>1. PICK patch \in Patches :
        Moves(w, [step |-> "open", preset |-> TRUE, form |-> mergePreset(settingsRow, patch)])
  BY DEF ApplyPreset
<1>2. Alone /\ UNCHANGED <<settingsWorld, settingsRow, breakerRow, tuning>> /\ desk[w].step = "idle"
  BY DEF ApplyPreset, MayBegin, At
<1> DEFINE form == mergePreset(settingsRow, patch)
           to == [step |-> "open", preset |-> TRUE, form |-> form]
<1>3. form \in Carried /\ form.mode = settingsRow.mode /\ form.autoclose = ""
  BY PresetForm, RequestIs
<1> HIDE DEF form
<1>4. to \in Requests /\ to.step = "open" /\ to.form = form
  BY <1>3 DEF Requests, Opened
<1>5. Moves(w, to)
  BY <1>1 DEF form
<1> HIDE DEF to
<1>6. settingsRow' \in Columns /\ Coherent(settingsRow') /\ breakerRow' \in Breakers
  BY <1>2, RequestIs
<1>7. Validated(to) /\ ("overlap" \notin settingsWorld => PresetIs(to, settingsRow'))
  BY <1>2, <1>3, <1>4 DEF Validated, PresetIs, AutocloseModes
<1>8. settingsWorld = {} /\ breakerRow.auto => breakerRow.value = DeriveDailyLossBreaker(settingsRow)
  BY <1>2, QuietMeans DEF Pending
<1>9. settingsWorld = {} => /\ to.step \in {"sync", "derive"} => to.row = settingsRow'
                            /\ breakerRow'.auto /\ to.step \notin Pending
                                 => breakerRow'.value = DeriveDailyLossBreaker(settingsRow')
  BY <1>2, <1>4, <1>8
<1>10. UNCHANGED <<settingsWorld, tuning>>
  BY <1>2
<1> QED BY <1>2, <1>4, <1>5, <1>6, <1>7, <1>9, <1>10, RequestMoves

LEMMA MergedIs ==
    ASSUME NEW f \in Carried, NEW s \in Columns, NEW merged, merged = Merged(f, s)
    PROVE  /\ merged \in Columns /\ merged.mode = f.mode
           /\ f.autoclose \notin AutocloseModes => merged.autoclose = s.autoclose
<1> DEFINE pnl == IF f.pnl \in PnlModes THEN f.pnl ELSE s.pnl
           auto == IF f.autoclose \in AutocloseModes THEN f.autoclose ELSE s.autoclose
<1>1. pnl \in PnlModes /\ auto \in AutocloseModes
  BY DEF Columns
<1>2. merged = [f EXCEPT !.pnl = pnl, !.autoclose = auto]
  BY DEF Merged
<1>3. f.autoclose \notin AutocloseModes => auto = s.autoclose
  OBVIOUS
<1> HIDE DEF pnl, auto
<1>4. merged \in Columns /\ merged.mode = f.mode /\ merged.autoclose = auto
  BY <1>1, <1>2 DEF Columns, Carried
<1> QED BY <1>3, <1>4

LEMMA OpenKeeps == ASSUME SettingsInv, NEW w \in Writers, OpenSettings(w) PROVE SettingsInv'
<1>1. At(w, "open") /\ desk[w] \in Opened
  BY RequestIs DEF OpenSettings
<1> DEFINE merged == Merged(desk[w].form, settingsRow)
           to == [step |-> "validate", preset |-> desk[w].preset, row |-> merged]
<1>2. desk[w].form \in Carried /\ desk[w].preset \in BOOLEAN
  BY <1>1 DEF Opened
<1>3. /\ merged \in Columns /\ merged.mode = desk[w].form.mode
      /\ desk[w].form.autoclose \notin AutocloseModes => merged.autoclose = settingsRow.autoclose
  BY <1>2, MergedIs, RequestIs
<1>4. Moves(w, to) /\ UNCHANGED <<settingsWorld, settingsRow, breakerRow, tuning>>
  BY DEF OpenSettings
<1> HIDE DEF merged
<1>5. to \in Requests /\ to.step = "validate" /\ to.preset = desk[w].preset /\ to.row = merged
  BY <1>2, <1>3 DEF Requests, Checked
<1> HIDE DEF to
<1>6. settingsRow' \in Columns /\ Coherent(settingsRow') /\ breakerRow' \in Breakers /\ desk[w] # AtRest
  BY <1>1, <1>4, RequestIs DEF At
<1>7. Validated(to)
  BY <1>5 DEF Validated
<1>8. "overlap" \notin settingsWorld => PresetIs(to, settingsRow')
  <2>1. SUFFICES ASSUME "overlap" \notin settingsWorld PROVE PresetIs(to, settingsRow')
    OBVIOUS
  <2>2. PresetIs(desk[w], settingsRow)
    BY <2>1, PresetUnderWay
  <2> QED BY <1>1, <1>3, <1>4, <1>5, <2>2 DEF PresetIs, At
<1>9. settingsWorld = {} /\ breakerRow.auto => breakerRow.value = DeriveDailyLossBreaker(settingsRow)
  BY <1>1, QuietMeans DEF Pending, At
<1>10. settingsWorld = {} => /\ to.step \in {"sync", "derive"} => to.row = settingsRow'
                             /\ breakerRow'.auto /\ to.step \notin Pending
                                  => breakerRow'.value = DeriveDailyLossBreaker(settingsRow')
  BY <1>4, <1>5, <1>9
<1>11. UNCHANGED <<settingsWorld, tuning>>
  BY <1>4
<1> QED BY <1>4, <1>5, <1>6, <1>7, <1>8, <1>10, <1>11, RequestMoves

LEMMA ValidateKeeps == ASSUME SettingsInv, NEW w \in Writers, ValidateForm(w) PROVE SettingsInv'
<1>1. At(w, "validate") /\ desk[w] \in Checked
  BY RequestIs DEF ValidateForm
<1>2. UNCHANGED <<settingsWorld, settingsRow, breakerRow, tuning>>
  BY DEF ValidateForm
<1>3. \/ Ends(w)
      \/ /\ validateSettings(desk[w].row, breakerRow.cap)
         /\ Moves(w, [desk[w] EXCEPT !.step = "write"])
  BY DEF ValidateForm
<1>4. settingsWorld = {} /\ breakerRow.auto => breakerRow.value = DeriveDailyLossBreaker(settingsRow)
  BY <1>1, QuietMeans DEF Pending, At
<1>5. settingsRow \in Columns /\ Coherent(settingsRow) /\ breakerRow \in Breakers
  BY RequestIs
<1>6. ~At(w, "idle") /\ desk[w] # AtRest
  BY <1>1, RequestIs DEF At
<1>7. CASE Ends(w)
  <2>1. breakerRow' \in Breakers
    BY <1>2, <1>5
  <2>2. settingsWorld = {} /\ breakerRow'.auto => breakerRow'.value = DeriveDailyLossBreaker(settingsRow)
    BY <1>2, <1>4
  <2>3. UNCHANGED <<settingsWorld, tuning, settingsRow>>
    BY <1>2
  <2> QED BY <1>6, <1>7, <2>1, <2>2, <2>3, RequestEnds
<1>8. CASE validateSettings(desk[w].row, breakerRow.cap) /\ Moves(w, [desk[w] EXCEPT !.step = "write"])
  <2> DEFINE to == [desk[w] EXCEPT !.step = "write"]
  <2>1. to \in Requests /\ to.step = "write" /\ to.preset = desk[w].preset /\ to.row = desk[w].row
    BY <1>1 DEF Requests, Checked
  <2>2. Moves(w, to)
    BY <1>8
  <2> HIDE DEF to
  <2>3. Validated(to)
    <3>1. breakerRow.cap \in 1 .. 100
      BY <1>5 DEF Breakers
    <3>2. desk[w].row \in Columns
      BY <1>1 DEF Checked
    <3>3. desk[w].row.leverage \in 1 .. 100
      BY <1>8, <3>1 DEF validateSettings
    <3>4. Coherent(desk[w].row)
      BY <1>8, <3>3 DEF validateSettings, Coherent
    <3> QED BY <2>1, <3>4 DEF Validated
  <2>4. "overlap" \notin settingsWorld => PresetIs(to, settingsRow')
    <3>1. SUFFICES ASSUME "overlap" \notin settingsWorld PROVE PresetIs(to, settingsRow')
      OBVIOUS
    <3>2. PresetIs(desk[w], settingsRow)
      BY <3>1, PresetUnderWay
    <3> QED BY <1>1, <1>2, <2>1, <3>2 DEF PresetIs, At
  <2>5. settingsWorld = {} => /\ to.step \in {"sync", "derive"} => to.row = settingsRow'
                              /\ breakerRow'.auto /\ to.step \notin Pending
                                   => breakerRow'.value = DeriveDailyLossBreaker(settingsRow')
    BY <1>2, <1>4, <2>1
  <2>6. UNCHANGED <<settingsWorld, tuning>> /\ settingsRow' \in Columns /\ Coherent(settingsRow')
        /\ breakerRow' \in Breakers
    BY <1>2, <1>5
  <2> QED BY <1>6, <2>1, <2>2, <2>3, <2>4, <2>5, <2>6, RequestMoves
<1> QED BY <1>3, <1>7, <1>8

LEMMA WriteKeeps == ASSUME SettingsInv, NEW w \in Writers, WriteForm(w) PROVE SettingsInv'
<1>1. At(w, "write") /\ desk[w] \in Checked /\ Validated(desk[w])
  BY RequestIs DEF WriteForm
<1>2. UNCHANGED <<settingsWorld, breakerRow, tuning>>
  BY DEF WriteForm
<1>3. \/ Ends(w) /\ UNCHANGED settingsRow
      \/ settingsRow' = desk[w].row /\ Moves(w, Reloading)
  BY DEF WriteForm, Reloading
<1>4. settingsRow \in Columns /\ Coherent(settingsRow) /\ breakerRow \in Breakers
  BY RequestIs
<1>5. ~At(w, "idle") /\ desk[w] # AtRest
  BY <1>1, RequestIs DEF At
<1>6. CASE Ends(w) /\ UNCHANGED settingsRow
  <2>1. settingsWorld = {} /\ breakerRow.auto => breakerRow.value = DeriveDailyLossBreaker(settingsRow)
    BY <1>1, QuietMeans DEF Pending, At
  <2>2. settingsWorld = {} /\ breakerRow'.auto => breakerRow'.value = DeriveDailyLossBreaker(settingsRow)
    BY <1>2, <2>1
  <2>3. UNCHANGED <<settingsWorld, tuning, settingsRow>> /\ breakerRow' \in Breakers
    BY <1>2, <1>4, <1>6
  <2> QED BY <1>5, <1>6, <2>2, <2>3, RequestEnds
<1>7. CASE settingsRow' = desk[w].row /\ Moves(w, Reloading)
  <2>1. Reloading \in Requests /\ Reloading.step = "reload"
    BY DEF Requests, Reloading
  <2>2. settingsRow' \in Columns /\ Coherent(settingsRow')
    BY <1>1, <1>7 DEF Checked, Validated, At
  <2>3. Validated(Reloading) /\ PresetIs(Reloading, settingsRow')
    BY <2>1 DEF Validated, PresetIs
  <2>4. settingsWorld = {} => /\ Reloading.step \in {"sync", "derive"} => Reloading.row = settingsRow'
                              /\ breakerRow'.auto /\ Reloading.step \notin Pending
                                   => breakerRow'.value = DeriveDailyLossBreaker(settingsRow')
    BY <2>1 DEF Pending
  <2>5. UNCHANGED <<settingsWorld, tuning>> /\ breakerRow' \in Breakers /\ Moves(w, Reloading)
    BY <1>2, <1>4, <1>7
  <2> QED BY <1>5, <2>1, <2>2, <2>3, <2>4, <2>5, RequestMoves
<1> QED BY <1>3, <1>6, <1>7

(* Steps between the reload and the derivation: the row is the one that was read. *)
LEMMA DerivingGoesOn ==
    ASSUME SettingsInv, NEW w \in Writers, ~At(w, "idle"), NEW to \in Deriving, Moves(w, to),
           UNCHANGED <<settingsWorld, settingsRow, breakerRow, tuning>>,
           settingsWorld = {} => to.row = settingsRow
    PROVE  SettingsInv'
<1>1. to \in Requests /\ to.step \in {"sync", "derive"}
  BY DEF Requests, Deriving
<1>2. settingsRow' \in Columns /\ Coherent(settingsRow') /\ breakerRow' \in Breakers /\ desk[w] # AtRest
  BY RequestIs
<1>3. Validated(to) /\ PresetIs(to, settingsRow')
  BY <1>1 DEF Validated, PresetIs
<1>4. settingsWorld = {} => /\ to.step \in {"sync", "derive"} => to.row = settingsRow'
                            /\ breakerRow'.auto /\ to.step \notin Pending
                                 => breakerRow'.value = DeriveDailyLossBreaker(settingsRow')
  BY <1>1 DEF Pending
<1> QED BY <1>1, <1>2, <1>3, <1>4, RequestMoves

LEMMA ReloadKeeps == ASSUME SettingsInv, NEW w \in Writers, ReloadSettings(w) PROVE SettingsInv'
<1>1. At(w, "reload") /\ ~At(w, "idle")
  BY DEF ReloadSettings, At
<1>2. UNCHANGED <<settingsWorld, settingsRow, breakerRow, tuning>>
  BY DEF ReloadSettings
<1>3. \/ Ends(w) /\ settingsWorld # {}
      \/ Moves(w, [step |-> "sync", row |-> settingsRow])
  BY DEF ReloadSettings, Breaks
<1>4. settingsRow \in Columns /\ breakerRow \in Breakers
  BY RequestIs
<1>5. CASE Ends(w) /\ settingsWorld # {}
  BY <1>1, <1>2, <1>4, <1>5, RequestEnds
<1>6. CASE Moves(w, [step |-> "sync", row |-> settingsRow])
  <2> DEFINE to == [step |-> "sync", row |-> settingsRow]
  <2>1. to \in Deriving /\ to.row = settingsRow
    BY <1>4 DEF Deriving
  <2> HIDE DEF to
  <2>2. Moves(w, to)
    BY <1>6 DEF to
  <2> QED BY <1>1, <1>2, <2>1, <2>2, DerivingGoesOn
<1> QED BY <1>3, <1>5, <1>6

LEMMA SyncLoadKeeps == ASSUME SettingsInv, NEW w \in Writers, SyncLoad(w) PROVE SettingsInv'
<1>1. At(w, "sync") /\ ~At(w, "idle") /\ desk[w] \in Deriving
  BY RequestIs DEF SyncLoad, At
<1>2. UNCHANGED <<settingsWorld, settingsRow, breakerRow, tuning>>
  BY DEF SyncLoad
<1>3. settingsWorld = {} => desk[w].row = settingsRow
  BY <1>1, QuietMeans
<1>4. \/ Moves(w, [desk[w] EXCEPT !.step = "derive"])
      \/ /\ Ends(w)
         /\ settingsWorld = {} /\ breakerRow.auto
              => breakerRow.value = DeriveDailyLossBreaker(desk[w].row)
  BY DEF SyncLoad, Breaks
<1>5. breakerRow \in Breakers
  BY RequestIs
<1>6. CASE Moves(w, [desk[w] EXCEPT !.step = "derive"])
  <2> DEFINE to == [desk[w] EXCEPT !.step = "derive"]
  <2>1. to \in Deriving /\ to.row = desk[w].row
    BY <1>1 DEF Deriving
  <2> HIDE DEF to
  <2>2. Moves(w, to)
    BY <1>6 DEF to
  <2> QED BY <1>1, <1>2, <1>3, <2>1, <2>2, DerivingGoesOn
<1>7. CASE /\ Ends(w)
           /\ settingsWorld = {} /\ breakerRow.auto
                => breakerRow.value = DeriveDailyLossBreaker(desk[w].row)
  <2>1. settingsWorld = {} /\ breakerRow'.auto => breakerRow'.value = DeriveDailyLossBreaker(settingsRow)
    BY <1>2, <1>3, <1>7
  <2>2. UNCHANGED <<settingsWorld, tuning, settingsRow>> /\ breakerRow' \in Breakers
    BY <1>2, <1>5
  <2> QED BY <1>1, <1>7, <2>1, <2>2, RequestEnds
<1> QED BY <1>4, <1>6, <1>7

LEMMA SyncWriteKeeps == ASSUME SettingsInv, NEW w \in Writers, SyncWrite(w) PROVE SettingsInv'
<1>1. At(w, "derive") /\ ~At(w, "idle") /\ desk[w] \in Deriving /\ Ends(w)
  BY RequestIs DEF SyncWrite, At
<1>2. UNCHANGED <<settingsWorld, tuning, settingsRow>>
  BY DEF SyncWrite
<1>3. settingsWorld = {} => desk[w].row = settingsRow
  BY <1>1, QuietMeans
<1> DEFINE value == DeriveDailyLossBreaker(desk[w].row)
<1>4. \/ breakerRow' = breakerRow /\ (settingsWorld # {} \/ ~breakerRow.auto)
      \/ breakerRow' = [breakerRow EXCEPT !.value = value]
  BY DEF SyncWrite, Breaks
<1>5. value \in Nat
  BY <1>1, DerivedIsNat DEF Deriving
<1>6. settingsWorld = {} => value = DeriveDailyLossBreaker(settingsRow)
  BY <1>3
<1> HIDE DEF value
<1>7. breakerRow \in Breakers
  BY RequestIs
<1>8. /\ breakerRow' \in Breakers
      /\ settingsWorld = {} /\ breakerRow'.auto => breakerRow'.value = DeriveDailyLossBreaker(settingsRow)
  BY <1>4, <1>5, <1>6, <1>7 DEF Breakers
<1> QED BY <1>1, <1>2, <1>8, RequestEnds

(* Whoever begins without overlap finds everybody at rest. *)
LEMMA AloneMeans ==
    ASSUME Alone, "overlap" \notin settingsWorld
    PROVE  tuning = AtRest /\ \A w \in Writers : desk[w] = AtRest
  BY DEF Alone, Quiet

LEMMA ModeKeeps == ASSUME SettingsInv, SetExecutionMode PROVE SettingsInv'
<1>1. Alone /\ UNCHANGED <<settingsWorld, breakerRow, desk, tuning>>
  BY DEF SetExecutionMode, MayBegin
<1>2. PICK m \in {"PAPER", "REAL"} : settingsRow' = [settingsRow EXCEPT !.mode = m]
  BY DEF SetExecutionMode
<1>3. SettingsShape /\ settingsRow \in Columns /\ Coherent(settingsRow)
  BY DEF SettingsInv, SettingsShape
<1>4. /\ settingsRow' \in Columns /\ settingsRow'.low = settingsRow.low
      /\ settingsRow'.high = settingsRow.high /\ settingsRow'.leverage = settingsRow.leverage
      /\ settingsRow'.pnl = settingsRow.pnl /\ settingsRow'.target = settingsRow.target
      /\ settingsRow'.fleet = settingsRow.fleet
  BY <1>2, <1>3 DEF Columns
<1>5. Coherent(settingsRow')
  BY <1>3, <1>4 DEF Coherent
<1>6. SettingsShape'
  BY <1>1, <1>3, <1>4, <1>5 DEF SettingsShape
<1>7. WritesAreSound'
  BY <1>1 DEF SettingsInv, WritesAreSound
<1>8. Undisturbed'
  <2>1. SUFFICES ASSUME "overlap" \notin settingsWorld
                 PROVE  OneAtATime(desk', tuning') /\ \A w \in Writers : PresetIs(desk'[w], settingsRow')
    BY <1>1 DEF Undisturbed
  <2>2. tuning' = AtRest /\ \A w \in Writers : desk'[w] = AtRest
    BY <1>1, <2>1, AloneMeans
  <2> QED BY <2>2, RestIsARequest DEF OneAtATime, PresetIs
<1>9. DeriveDailyLossBreaker(settingsRow') = DeriveDailyLossBreaker(settingsRow)
  BY <1>4 DEF DeriveDailyLossBreaker
<1>10. QuietWorld'
  <2>1. SUFFICES ASSUME settingsWorld = {}
                 PROVE  tuning' = AtRest /\ Derived(desk', settingsRow', breakerRow')
    BY <1>1 DEF QuietWorld
  <2>2. tuning' = AtRest /\ \A w \in Writers : desk[w] = AtRest
    BY <1>1, <2>1, AloneMeans
  <2>3. Derived(desk, settingsRow, breakerRow)
    BY <2>1 DEF SettingsInv, QuietWorld
  <2> QED BY <1>1, <1>9, <2>2, <2>3, RestIsARequest DEF Derived, Pending
<1> QED BY <1>6, <1>7, <1>8, <1>10 DEF SettingsInv

LEMMA ClampIs ==
    ASSUME NEW low \in Nat, NEW high \in Nat, NEW v \in Int, NEW c, c = Clamped(v, low, high)
    PROVE  c \in Nat /\ (low <= high => low <= c /\ c <= high)
<1> DEFINE most == Max({low, v})
<1>1. most \in {low, v} /\ low <= most /\ v <= most
  <2>1. \E x \in {low, v} : \A y \in {low, v} : x >= y
    BY low <= v \/ v <= low
  <2> QED BY <2>1 DEF Max
<1>2. most \in Nat
  BY <1>1
<1> HIDE DEF most
<1>3. c = Min({high, most})
  BY DEF Clamped, most
<1>4. Min({high, most}) \in {high, most} /\ Min({high, most}) <= high /\ Min({high, most}) <= most
  <2>1. \E x \in {high, most} : \A y \in {high, most} : x <= y
    BY <1>2
  <2> QED BY <2>1 DEF Min
<1> QED BY <1>1, <1>2, <1>3, <1>4

LEMMA SteppedIs ==
    ASSUME NEW low \in Nat, NEW high \in Nat, NEW level \in Nat, NEW proposal \in Nat,
           NEW c, c = Stepped(level, proposal, low, high)
    PROVE  c \in Nat /\ (low <= high => low <= c /\ c <= high)
<1> DEFINE first  == Clamped(proposal, low, high)
           second == Min({level + 1, Max({level - 1, first})})
<1>1. first \in Nat
  BY ClampIs
<1> HIDE DEF first
<1>2. second \in Int
  <2> DEFINE most == Max({level - 1, first})
  <2>1. \E x \in {level - 1, first} : \A y \in {level - 1, first} : x >= y
    BY <1>1, level - 1 <= first \/ first <= level - 1
  <2>2. most \in {level - 1, first}
    BY <2>1 DEF Max
  <2>3. most \in Int
    BY <1>1, <2>2
  <2> HIDE DEF most
  <2>4. \E x \in {level + 1, most} : \A y \in {level + 1, most} : x <= y
    BY <2>3, level + 1 <= most \/ most <= level + 1
  <2>5. Min({level + 1, most}) \in {level + 1, most}
    BY <2>4 DEF Min
  <2>6. Min({level + 1, most}) \in Int
    BY <2>3, <2>5
  <2> QED BY <2>6 DEF most
<1>3. c = Clamped(second, low, high)
  BY DEF Stepped, Clamped, first
<1> HIDE DEF second
<1> QED BY <1>2, <1>3, ClampIs

LEMMA LeverageSteps ==
    ASSUME NEW level \in Nat, NEW proposal \in Nat
    PROVE  LET c == Stepped(level, proposal, 1, 100) IN c \in Nat /\ 1 <= c /\ c <= 100
<1>1. 1 \in Nat /\ 100 \in Nat /\ 1 <= 100
  OBVIOUS
<1> DEFINE c == Stepped(level, proposal, 1, 100)
<1> HIDE DEF c
<1>2. c = Stepped(level, proposal, 1, 100)
  BY DEF c
<1>3. c \in Nat /\ (1 <= 100 => 1 <= c /\ c <= 100)
  BY <1>1, <1>2, SteppedIs
<1> QED BY <1>1, <1>3 DEF c

LEMMA LeverageIs ==
    ASSUME NEW s \in Columns, s.leverage \in 1 .. 100, NEW suggested \in Suggestions, NEW cap \in 1 .. 100,
           NEW l, l = Leveraged(s, suggested, cap)
    PROVE  l \in 1 .. 100
<1>1. CASE "leverage" \notin DOMAIN suggested
  BY <1>1 DEF Leveraged
<1>2. CASE "leverage" \in DOMAIN suggested
  <2> DEFINE proposal == suggested["leverage"]
             stepped == Stepped(s.leverage, proposal, 1, 100)
             next == Max({1, stepped})
  <2>1. proposal \in Nat /\ s.leverage \in Nat
    BY <1>2 DEF SettingsAssumption
  <2>8. l = Min({next, cap})
    BY <1>2 DEF Leveraged, Proposed
  <2> HIDE DEF proposal
  <2>7. stepped \in Nat /\ 1 <= stepped /\ stepped <= 100
    <3>1. s.leverage \in Nat
      BY <2>1
    <3> QED BY <2>1, <3>1, LeverageSteps
  <2> HIDE DEF stepped
  <2>2. stepped \in 1 .. 100
    BY <2>7
  <2>3. next \in 1 .. 100
    <3>1. \E x \in {1, stepped} : \A y \in {1, stepped} : x >= y
      BY <2>2
    <3>2. next \in {1, stepped}
      BY <3>1 DEF Max
    <3> QED BY <2>2, <3>2
  <2>4. l = Min({next, cap})
    BY <2>8
  <2> HIDE DEF next
  <2>5. \E x \in {next, cap} : \A y \in {next, cap} : x <= y
    BY <2>3
  <2>6. Min({next, cap}) \in {next, cap}
    BY <2>5 DEF Min
  <2> QED BY <2>3, <2>4, <2>6
<1> QED BY <1>1, <1>2

LEMMA BandIs ==
    ASSUME NEW s \in Columns, NEW suggested \in Suggestions,
           NEW k \in {"low", "high"}, NEW band \in {LowLevels, HighLevels}, NEW l, l = Banded(s, k, band, suggested)
    PROVE  l \in Nat
<1>1. s[k] \in Nat
  BY DEF Columns
<1>2. CASE k \notin DOMAIN suggested
  BY <1>1, <1>2 DEF Banded
<1>3. CASE k \in DOMAIN suggested
  <2>1. suggested[k] \in Nat
    BY <1>3 DEF SettingsAssumption
  <2>2. Min(band) \in Nat /\ Max(band) \in Nat
    <3>1. (\E x \in band : \A y \in band : x <= y) /\ (\E x \in band : \A y \in band : x >= y)
      <4>1. (\A y \in 0 .. 3 : 0 <= y) /\ (\A y \in 0 .. 3 : 3 >= y) /\ 0 \in 0 .. 3 /\ 3 \in 0 .. 3
        OBVIOUS
      <4>2. (\A y \in 2 .. 5 : 2 <= y) /\ (\A y \in 2 .. 5 : 5 >= y) /\ 2 \in 2 .. 5 /\ 5 \in 2 .. 5
        OBVIOUS
      <4> QED BY <4>1, <4>2 DEF LowLevels, HighLevels
    <3>2. Min(band) \in band /\ Max(band) \in band
      BY <3>1 DEF Min, Max
    <3>3. band \subseteq Nat
      BY DEF LowLevels, HighLevels
    <3> QED BY <3>2, <3>3
  <2>3. l = Stepped(s[k], suggested[k], Min(band), Max(band))
    BY <1>3 DEF Banded
  <2> QED BY <1>1, <2>1, <2>2, <2>3, SteppedIs
<1> QED BY <1>2, <1>3

LEMMA TunedIs ==
    ASSUME NEW s \in Columns, Coherent(s), NEW suggested \in Suggestions, NEW cap \in 1 .. 100,
           NEW t, t = Tuned(s, suggested, cap)
    PROVE  t \in Columns /\ t.low < t.high /\ t.leverage \in 1 .. 100
<1> DEFINE low == Banded(s, "low", LowLevels, suggested)
           high == Banded(s, "high", HighLevels, suggested)
           leverage == Leveraged(s, suggested, cap)
<1>1. low \in Nat /\ high \in Nat
  BY BandIs
<1>2. leverage \in 1 .. 100
  BY LeverageIs DEF Coherent
<1>3. \/ t = [s EXCEPT !.leverage = leverage]
      \/ ~(high <= low) /\ t = [[s EXCEPT !.leverage = leverage] EXCEPT !.low = low, !.high = high]
  BY DEF Tuned
<1> HIDE DEF low, high, leverage
<1>4. leverage \in Nat
  BY <1>2
<1>5. CASE t = [s EXCEPT !.leverage = leverage]
  BY <1>2, <1>4, <1>5 DEF Columns, Coherent
<1>6. CASE ~(high <= low) /\ t = [[s EXCEPT !.leverage = leverage] EXCEPT !.low = low, !.high = high]
  <2> DEFINE next == [s EXCEPT !.leverage = leverage]
  <2>2. next \in Columns /\ next.leverage = leverage
    BY <1>4 DEF Columns
  <2>3. t = [next EXCEPT !.low = low, !.high = high]
    BY <1>6
  <2> HIDE DEF next
  <2>1. t \in Columns /\ t.low = low /\ t.high = high /\ t.leverage = leverage
    BY <1>1, <2>2, <2>3 DEF Columns
  <2> QED BY <1>1, <1>2, <1>6, <2>1
<1> QED BY <1>3, <1>5, <1>6

LEMMA TuneBeginKeeps == ASSUME SettingsInv, TuneBegin PROVE SettingsInv'
<1>1. SettingsShape /\ settingsRow \in Columns /\ Coherent(settingsRow) /\ breakerRow \in Breakers
  BY DEF SettingsInv, SettingsShape
<1>2. Alone /\ "tune" \in settingsWorld /\ UNCHANGED <<settingsWorld, settingsRow, breakerRow, desk>>
  BY DEF TuneBegin, MayBegin
<1>3. PICK suggested \in Suggestions, cap \in CapsRead :
        tuning' = [step |-> "write", seen |-> settingsRow, row |-> Tuned(settingsRow, suggested, cap)]
  BY DEF TuneBegin
<1>4. cap \in 1 .. 100
  BY <1>1 DEF CapsRead, Breakers
<1> DEFINE t == Tuned(settingsRow, suggested, cap)
<1>5. t \in Columns /\ t.low < t.high /\ t.leverage \in 1 .. 100
  BY <1>1, <1>4, TunedIs
<1> HIDE DEF t
<1>6. tuning' = [step |-> "write", seen |-> settingsRow, row |-> t]
  BY <1>3 DEF t
<1>7. SettingsShape'
  BY <1>1, <1>2, <1>5, <1>6 DEF SettingsShape, Tunings
<1>8. WritesAreSound'
  BY <1>2, <1>5, <1>6 DEF SettingsInv, WritesAreSound, TunedWell
<1>9. Undisturbed'
  <2>1. SUFFICES ASSUME "overlap" \notin settingsWorld
                 PROVE  OneAtATime(desk', tuning') /\ \A w \in Writers : PresetIs(desk'[w], settingsRow')
    BY <1>2 DEF Undisturbed
  <2>2. \A w \in Writers : desk'[w] = AtRest
    BY <1>2, <2>1, AloneMeans
  <2> QED BY <2>2, RestIsARequest DEF OneAtATime, PresetIs
<1>10. QuietWorld'
  BY <1>2 DEF QuietWorld
<1> QED BY <1>7, <1>8, <1>9, <1>10 DEF SettingsInv

LEMMA ApplyAutotuneKeeps == ASSUME SettingsInv, ApplyAutotune PROVE SettingsInv'
<1>1. SettingsShape /\ settingsRow \in Columns /\ Coherent(settingsRow)
  BY DEF SettingsInv, SettingsShape
<1>2. tuning # AtRest /\ tuning' = AtRest /\ UNCHANGED <<settingsWorld, breakerRow, desk>>
  BY DEF ApplyAutotune
<1> DEFINE t == tuning.row
<1>3. t \in Columns /\ t.low < t.high /\ t.leverage \in 1 .. 100
  BY <1>1, <1>2 DEF SettingsShape, Tunings, SettingsInv, WritesAreSound, TunedWell
<1>4. \/ settingsRow' = settingsRow
      \/ settingsRow' = [settingsRow EXCEPT !.leverage = t.leverage, !.low = t.low, !.high = t.high]
  BY DEF ApplyAutotune, TuneColumns
<1> HIDE DEF t
<1>5. settingsRow' \in Columns /\ Coherent(settingsRow') /\ settingsRow'.mode = settingsRow.mode
      /\ settingsRow'.autoclose = settingsRow.autoclose
  <2>1. CASE settingsRow' = settingsRow
    BY <1>1, <2>1
  <2>2. CASE settingsRow' = [settingsRow EXCEPT !.leverage = t.leverage, !.low = t.low, !.high = t.high]
    <3>1. t.leverage \in Nat /\ t.low \in Nat /\ t.high \in Nat
      BY <1>3 DEF Columns
    <3>2. /\ settingsRow' \in Columns /\ settingsRow'.leverage = t.leverage
          /\ settingsRow'.low = t.low /\ settingsRow'.high = t.high
          /\ settingsRow'.pnl = settingsRow.pnl /\ settingsRow'.target = settingsRow.target
          /\ settingsRow'.mode = settingsRow.mode /\ settingsRow'.autoclose = settingsRow.autoclose
      BY <1>1, <2>2, <3>1 DEF Columns
    <3>3. Coherent(settingsRow')
      BY <1>1, <1>3, <3>2 DEF Coherent
    <3> QED BY <3>2, <3>3
  <2> QED BY <1>4, <2>1, <2>2
<1>6. SettingsShape'
  BY <1>1, <1>2, <1>5, RestIsARequest DEF SettingsShape
<1>7. WritesAreSound'
  BY <1>2 DEF SettingsInv, WritesAreSound, TunedWell
<1>8. Undisturbed'
  <2>1. SUFFICES ASSUME "overlap" \notin settingsWorld
                 PROVE  OneAtATime(desk', tuning') /\ \A w \in Writers : PresetIs(desk'[w], settingsRow')
    BY <1>2 DEF Undisturbed
  <2>2. \A w \in Writers : desk'[w] = AtRest
    BY <1>2, <2>1 DEF SettingsInv, Undisturbed, OneAtATime
  <2> QED BY <1>2, <2>2, RestIsARequest DEF OneAtATime, PresetIs
<1>9. settingsWorld # {}
  BY <1>2 DEF SettingsInv, QuietWorld
<1>10. QuietWorld'
  BY <1>2, <1>9 DEF QuietWorld
<1> QED BY <1>6, <1>7, <1>8, <1>10 DEF SettingsInv

LEMMA SettingsRestartKeeps == ASSUME SettingsInv, RestartServer PROVE SettingsInv'
<1>1. SettingsShape
  BY DEF SettingsInv
<1>2. tuning' = AtRest /\ UNCHANGED <<settingsWorld, settingsRow, breakerRow>>
  BY DEF RestartServer
<1>3. desk' = [w \in Writers |-> IF w = Worker THEN Reloading ELSE AtRest]
  BY DEF RestartServer, Reloading
<1>4. Reloading \in Requests /\ Reloading.step = "reload" /\ Worker \in Writers
  BY DEF Requests, Reloading, SettingsAssumption
<1>5. /\ desk'[Worker] = Reloading
      /\ \A w \in Writers : (desk'[w] = Reloading /\ w = Worker) \/ desk'[w] = AtRest
  BY <1>3, <1>4
<1>6. SettingsShape'
  <2>1. desk' \in [Writers -> Requests]
    BY <1>3, <1>4, RestIsARequest
  <2> QED BY <1>1, <1>2, <2>1, RestIsARequest DEF SettingsShape
<1>7. WritesAreSound'
  BY <1>2, <1>4, <1>5, RestIsARequest DEF WritesAreSound, TunedWell, Validated
<1>8. Undisturbed'
  BY <1>2, <1>4, <1>5, RestIsARequest DEF Undisturbed, OneAtATime, PresetIs
<1>9. QuietWorld'
  <2>1. \A w \in Writers : desk'[w].step \notin {"sync", "derive"}
    BY <1>4, <1>5, RestIsARequest
  <2>2. desk'[Worker].step \in Pending
    BY <1>4, <1>5 DEF Pending
  <2> QED BY <1>2, <1>4, <2>1, <2>2 DEF QuietWorld, Derived
<1> QED BY <1>6, <1>7, <1>8, <1>9 DEF SettingsInv

LEMMA EditKeeps == ASSUME SettingsInv, EditBreaker PROVE SettingsInv'
<1>1. SettingsShape /\ breakerRow \in Breakers
  BY DEF SettingsInv, SettingsShape
<1>2. UNCHANGED <<settingsWorld, settingsRow, desk, tuning>>
  BY DEF EditBreaker
<1>3. /\ breakerRow' \in Breakers
      /\ settingsWorld = {} /\ breakerRow'.auto => breakerRow.auto /\ breakerRow'.value = breakerRow.value
  <2>1. CASE breakerRow' = [breakerRow EXCEPT !.auto = FALSE, !.value = 1]
    BY <1>1, <2>1 DEF Breakers
  <2>2. CASE "unpin" \in settingsWorld /\ breakerRow' = [breakerRow EXCEPT !.auto = TRUE, !.value = 1]
    BY <1>1, <2>2 DEF Breakers
  <2>3. CASE breakerRow' = [breakerRow EXCEPT !.cap = 2]
    BY <1>1, <2>3 DEF Breakers
  <2> QED BY <2>1, <2>2, <2>3 DEF EditBreaker
<1>4. SettingsShape'
  BY <1>1, <1>2, <1>3 DEF SettingsShape
<1>5. WritesAreSound' /\ Undisturbed'
  BY <1>2 DEF SettingsInv, WritesAreSound, Undisturbed
<1>6. QuietWorld'
  BY <1>2, <1>3 DEF SettingsInv, QuietWorld, Derived
<1> QED BY <1>4, <1>5, <1>6 DEF SettingsInv

LEMMA SettingsStutter == ASSUME SettingsInv, UNCHANGED settingsVars PROVE SettingsInv'
  BY DEF settingsVars, SettingsInv, SettingsShape, WritesAreSound, Undisturbed, QuietWorld

LEMMA SettingsInductive == SettingsInv /\ [SettingsNext]_settingsVars => SettingsInv'
<1> SUFFICES ASSUME SettingsInv, [SettingsNext]_settingsVars PROVE SettingsInv'
  OBVIOUS
<1>1. ASSUME NEW w \in Writers, Submit(w) PROVE SettingsInv'
  BY <1>1, SubmitKeeps
<1>2. ASSUME NEW w \in Writers, ApplyPreset(w) PROVE SettingsInv'
  BY <1>2, PresetKeeps
<1>3. ASSUME NEW w \in Writers, OpenSettings(w) PROVE SettingsInv'
  BY <1>3, OpenKeeps
<1>4. ASSUME NEW w \in Writers, ValidateForm(w) PROVE SettingsInv'
  BY <1>4, ValidateKeeps
<1>5. ASSUME NEW w \in Writers, WriteForm(w) PROVE SettingsInv'
  BY <1>5, WriteKeeps
<1>6. ASSUME NEW w \in Writers, ReloadSettings(w) PROVE SettingsInv'
  BY <1>6, ReloadKeeps
<1>7. ASSUME NEW w \in Writers, SyncLoad(w) PROVE SettingsInv'
  BY <1>7, SyncLoadKeeps
<1>8. ASSUME NEW w \in Writers, SyncWrite(w) PROVE SettingsInv'
  BY <1>8, SyncWriteKeeps
<1>9. SetExecutionMode => SettingsInv'
  BY ModeKeeps
<1>10. TuneBegin => SettingsInv'
  BY TuneBeginKeeps
<1>11. ApplyAutotune => SettingsInv'
  BY ApplyAutotuneKeeps
<1>12. RestartServer => SettingsInv'
  BY SettingsRestartKeeps
<1>13. EditBreaker => SettingsInv'
  BY EditKeeps
<1>14. CASE UNCHANGED settingsVars
  BY <1>14, SettingsStutter
<1> QED BY <1>1, <1>2, <1>3, <1>4, <1>5, <1>6, <1>7, <1>8, <1>9, <1>10, <1>11, <1>12, <1>13, <1>14
        DEF SettingsNext

LEMMA SettingsCarryTheirClaims == SettingsInv => RowIsCoherent /\ BreakerFollowsDesign
<1> SUFFICES ASSUME SettingsInv PROVE RowIsCoherent /\ BreakerFollowsDesign
  OBVIOUS
<1>1. RowIsCoherent
  BY DEF SettingsInv, SettingsShape, Coherent, RowIsCoherent
<1>2. BreakerFollowsDesign
  <2>1. SUFFICES ASSUME settingsWorld = {}, Quiet, breakerRow.auto
                 PROVE  breakerRow.value = DeriveDailyLossBreaker(settingsRow)
    BY DEF BreakerFollowsDesign
  <2>2. \A w \in Writers : desk[w].step \notin Pending
    BY <2>1, RestIsARequest DEF Quiet, Pending
  <2>3. Derived(desk, settingsRow, breakerRow)
    BY <2>1 DEF SettingsInv, QuietWorld
  <2> QED BY <2>1, <2>2, <2>3 DEF Derived
<1> QED BY <1>1, <1>2

(* Only the request that is about to write can move the row beneath a preset. *)
LEMMA RowWritersAre ==
    ASSUME SettingsInv, [SettingsNext]_settingsVars, settingsRow' # settingsRow,
           "overlap" \notin settingsWorld, NEW w \in Writers, At(w, "write")
    PROVE  WriteForm(w)
<1>1. desk[w] # AtRest
  BY RequestIs DEF At
<1>2. OneAtATime(desk, tuning)
  BY DEF SettingsInv, Undisturbed
<1>3. ~SetExecutionMode
  BY <1>1, AloneMeans DEF SetExecutionMode, MayBegin
<1>4. ~ApplyAutotune
  BY <1>1, <1>2 DEF ApplyAutotune, OneAtATime
<1>5. \E v \in Writers : WriteForm(v)
  BY <1>3, <1>4 DEF SettingsNext, settingsVars, Submit, ApplyPreset, OpenSettings, ValidateForm,
      ReloadSettings, SyncLoad, SyncWrite, TuneBegin, RestartServer, EditBreaker
<1>6. PICK v \in Writers : WriteForm(v)
  BY <1>5
<1>7. desk[v] # AtRest
  BY <1>6, RequestIs DEF WriteForm, At
<1>8. v = w
  BY <1>1, <1>2, <1>7 DEF OneAtATime
<1> QED BY <1>6, <1>8

LEMMA PresetsLeaveTheOperator ==
    ASSUME SettingsInv, [SettingsNext]_settingsVars, "overlap" \notin settingsWorld,
           NEW w \in Writers, At(w, "write"), desk[w].preset
    PROVE  settingsRow'.mode = settingsRow.mode /\ settingsRow'.autoclose = settingsRow.autoclose
<1>1. CASE settingsRow' = settingsRow
  BY <1>1
<1>2. CASE settingsRow' # settingsRow
  <2>1. WriteForm(w)
    BY <1>2, RowWritersAre
  <2>2. settingsRow' = desk[w].row
    BY <1>2, <2>1 DEF WriteForm
  <2>3. PresetIs(desk[w], settingsRow)
    BY PresetUnderWay
  <2> QED BY <2>2, <2>3 DEF PresetIs, At
<1> QED BY <1>1, <1>2

\* The stored settings stay a row a form could have been validated to, an AUTO
\* breaker follows the design when nothing is under way in a quiet world, and a
\* preset leaves the operator's mode and switches alone: for any writers, forms,
\* presets, suggestions and number of writes.
\* (autogrid/service.go UpdateSettings, SyncDerivedBreaker; autogrid/presets.go.)
THEOREM SettingsKeepTheirPromises == SettingsSpec => SettingsHold
<1> USE SettingsAssumption
<1> DEFINE Kept == \A w \in Writers :
           At(w, "write") /\ desk[w].preset /\ "overlap" \notin settingsWorld
               => settingsRow'.mode = settingsRow.mode
                  /\ settingsRow'.autoclose = settingsRow.autoclose
<1>1. SettingsInit => SettingsInv
  BY SettingsStart
<1>2. SettingsInv /\ [SettingsNext]_settingsVars => SettingsInv'
  BY SettingsInductive
<1>3. SettingsInv => RowIsCoherent /\ BreakerFollowsDesign
  BY SettingsCarryTheirClaims
<1>4. SettingsInv /\ [SettingsNext]_settingsVars => [Kept]_settingsRow
  BY PresetsLeaveTheOperator
<1>5. [][Kept]_settingsRow => PresetKeepsOperators
  BY PTL DEF PresetKeepsOperators
<1> HIDE DEF Kept
<1> QED BY <1>1, <1>2, <1>3, <1>4, <1>5, PTL DEF SettingsSpec, SettingsHold
--------------------------------------------------------------------------
\* The values of the whole suite. What the invariants above leave open of them
\* are bounds: each is counted down by what is left to do.

(* What a pass has opened, is opening and has left are different symbols. *)
Opening(r) == IF r.pc = "create" THEN 1 ELSE 0
Uncounted(r) ==
    /\ r.atStart <= Cardinality(Symbols)
    /\ r.opened + Opening(r) + Cardinality(r.left) <= Cardinality(Symbols)
PassSpares ==
    /\ openGrids \subseteq Symbols /\ lastError \in {"", "freeze", "candidate"}
    /\ \A p \in Passes : Uncounted(pass[p])

LEMMA SparesOfOnePass ==
    ASSUME PassInv, PassSpares, NEW p \in Passes, NEW r, Uncounted(r), pass' = [pass EXCEPT ![p] = r],
           openGrids' \subseteq Symbols, lastError' \in {"", "freeze", "candidate"}
    PROVE  PassSpares'
<1>1. ASSUME NEW q \in Passes PROVE Uncounted(pass'[q])
  <2>1. pass'[q] = IF q = p THEN r ELSE pass[q]
    BY DEF PassInv
  <2> QED BY <2>1 DEF PassSpares
<1>2. \A q \in Passes : Uncounted(pass[q])'
  BY <1>1 DEF Uncounted, Opening
<1> QED BY <1>2 DEF PassSpares

LEMMA LeftIsFinite ==
    ASSUME IsFiniteSet(Symbols), NEW left, left \subseteq Symbols
    PROVE  /\ IsFiniteSet(left) /\ Cardinality(left) \in Nat /\ Cardinality(Symbols) \in Nat
           /\ Cardinality(left) <= Cardinality(Symbols)
  BY FS_Subset, FS_CardinalityType

LEMMA BeginSpares ==
    ASSUME PassInv, PassSpares, IsFiniteSet(Symbols), NEW p \in Passes, BeginPass(p)
    PROVE  PassSpares'
<1> DEFINE n == Cardinality(openGrids)
<1>1. UNCHANGED openGrids /\ lastError' \in {lastError, "freeze"}
  BY DEF BeginPass
<1>2. n \in Nat /\ n <= Cardinality(Symbols) /\ Cardinality(Symbols) \in Nat
  BY LeftIsFinite DEF PassSpares
<1> HIDE DEF n
<1> DEFINE Fresh(accepted, cascade, beta, firstRead) ==
             [IdlePass EXCEPT !.pc = "loop", !.cascadeShort = cascade, !.beta = beta,
                !.memo = firstRead, !.seen = n, !.atStart = n, !.left = accepted]
           ended == [IdlePass EXCEPT !.pc = "ended"]
<1>3. PICK accepted \in SUBSET Symbols, cascade \in BOOLEAN, beta \in PassBetas, firstRead \in {"clear", "error"} :
        \/ pass' = [pass EXCEPT ![p] = Fresh(accepted, cascade, beta, firstRead)]
        \/ pass' = [pass EXCEPT ![p] = ended]
        \/ pass' = [pass EXCEPT ![p] = [Fresh(accepted, cascade, beta, firstRead) EXCEPT !.noted = TRUE]]
  <2>1. PICK accepted \in SUBSET Symbols, cascade \in BOOLEAN, beta \in PassBetas, firstRead \in {"clear", "error"} :
          \/ /\ market.storm \/ market.fleet = "unreadable"
             /\ pass' = [pass EXCEPT ![p] = ended]
             /\ UNCHANGED lastError
          \/ /\ ~market.storm /\ market.fleet = "blocked"
             /\ pass' = [pass EXCEPT ![p] = ended]
             /\ lastError' = "freeze"
          \/ /\ ~market.storm /\ market.fleet = "clear"
             /\ IF market.liquidations = "unreadable"
                THEN /\ pass' = [pass EXCEPT ![p] = ended]
                     /\ UNCHANGED lastError
                ELSE IF market.liquidations = "blocked"
                THEN /\ pass' = [pass EXCEPT ![p] =
                           [Fresh(accepted, cascade, beta, firstRead) EXCEPT !.noted = TRUE]]
                     /\ lastError' = "freeze"
                ELSE /\ pass' = [pass EXCEPT ![p] = Fresh(accepted, cascade, beta, firstRead)]
                     /\ UNCHANGED lastError
    BY Zenon DEF BeginPass, n
  <2> HIDE DEF Fresh, ended
  <2> QED BY Zenon, <2>1
<1> DEFINE fresh == Fresh(accepted, cascade, beta, firstRead)
           noted == [fresh EXCEPT !.noted = TRUE]
<1>4. /\ fresh.pc = "loop" /\ fresh.atStart = n /\ fresh.opened = 0 /\ fresh.left = accepted
      /\ ended.pc = "ended" /\ ended.atStart = 0 /\ ended.opened = 0 /\ ended.left = {}
      /\ noted.pc = "loop" /\ noted.atStart = n /\ noted.opened = 0 /\ noted.left = accepted
  BY DEF IdlePass
<1>5. pass' = [pass EXCEPT ![p] = fresh] \/ pass' = [pass EXCEPT ![p] = ended] \/ pass' = [pass EXCEPT ![p] = noted]
  BY <1>3
<1> HIDE DEF fresh, ended, noted
<1>6. Cardinality(accepted) \in Nat /\ Cardinality(accepted) <= Cardinality(Symbols) /\ Cardinality({}) = 0
  BY LeftIsFinite, FS_EmptySet
<1>7. Uncounted(fresh) /\ Uncounted(ended) /\ Uncounted(noted)
  BY <1>2, <1>4, <1>6 DEF Uncounted, Opening
<1> QED BY <1>1, <1>5, <1>7, SparesOfOnePass DEF PassSpares

LEMMA JudgeSpares ==
    ASSUME PassInv, PassSpares, IsFiniteSet(Symbols), NEW p \in Passes, NEW s \in Symbols, Judge(p, s)
    PROVE  PassSpares'
<1> DEFINE r == pass[p]
<1>1. /\ UNCHANGED <<openGrids, lastError>> /\ r.pc = "loop" /\ s \in r.left
      /\ r \in PassRows /\ Uncounted(r)
  BY DEF Judge, PassInv, PassSpares
<1>2. PICK o \in Outcomes[Context(r, s)] : pass' = [pass EXCEPT ![p] = JudgedRow(r, s, o)]
  BY DEF Judge, JudgedRow
<1>3. /\ Cardinality(r.left \ {s}) = Cardinality(r.left) - 1 /\ Cardinality(r.left) \in Nat
      /\ Cardinality(Symbols) \in Nat /\ r.opened \in Nat /\ r.atStart \in Nat
  <2>1. r.left \subseteq Symbols /\ r.opened \in Nat /\ r.atStart \in Nat
    BY <1>1 DEF PassRows
  <2>2. IsFiniteSet(r.left) /\ Cardinality(r.left) \in Nat /\ Cardinality(Symbols) \in Nat
    BY <2>1, LeftIsFinite
  <2>3. s \in r.left
    BY <1>1
  <2> HIDE DEF r
  <2>4. Cardinality(r.left \ {s}) = Cardinality(r.left) - 1
    BY <2>2, <2>3, FS_RemoveElement
  <2> QED BY <2>1, <2>2, <2>4
<1> HIDE DEF r
<1> DEFINE next == JudgedRow(r, s, o)
<1>4. /\ next.left = r.left \ {s} /\ next.opened = r.opened /\ next.atStart = r.atStart
      /\ next.pc \in {"loop", "create", "ended"}
  <2> DEFINE judged == [r EXCEPT !.left = @ \ {s}, !.errors = @ \/ o.error]
  <2>1. /\ judged.left = r.left \ {s} /\ judged.opened = r.opened /\ judged.atStart = r.atStart
        /\ judged.pc = "loop" /\ DOMAIN judged = DOMAIN r
        /\ {"pc", "left", "opened", "atStart", "creating"} \subseteq DOMAIN r
    BY <1>1 DEF PassRows
  <2>2. next = CASE o.verdict = "open" -> [judged EXCEPT !.pc = "create",
                                            !.creating = {[symbol |-> s, short |-> o.short]}]
                 [] o.verdict = "abort" -> [judged EXCEPT !.pc = "ended"]
                 [] OTHER -> judged
    BY DEF JudgedRow
  <2> HIDE DEF judged, next
  <2>3. CASE o.verdict = "open"
    BY <2>1, <2>2, <2>3
  <2>4. CASE o.verdict = "abort"
    BY <2>1, <2>2, <2>4
  <2>5. CASE o.verdict \notin {"open", "abort"}
    BY <2>1, <2>2, <2>5
  <2> QED BY <2>3, <2>4, <2>5
<1>5. pass' = [pass EXCEPT ![p] = next]
  BY <1>2
<1> HIDE DEF next
<1>6. Uncounted(next)
  BY <1>1, <1>3, <1>4 DEF Uncounted, Opening
<1> QED BY <1>1, <1>5, <1>6, SparesOfOnePass DEF PassSpares

LEMMA CreateSpares ==
    ASSUME PassInv, PassSpares, IsFiniteSet(Symbols), NEW p \in Passes, Create(p)
    PROVE  PassSpares'
<1> DEFINE r == pass[p]
           back == [r EXCEPT !.pc = "loop", !.creating = {}]
<1>1. r.pc = "create" /\ r \in PassRows /\ Uncounted(r) /\ UNCHANGED lastError
  BY DEF Create, PassInv, PassSpares
<1>2. PICK g \in r.creating :
        /\ openGrids' = openGrids \/ openGrids' = openGrids \cup {g.symbol}
        /\ \E new \in {back, [back EXCEPT !.seen = @ + 1, !.opened = @ + 1, !.unshort = @ \/ ~g.short],
                       [back EXCEPT !.errors = @ \/ (execMode = "REAL")], [back EXCEPT !.pc = "ended"]} :
              pass' = [pass EXCEPT ![p] = new]
  BY Zenon DEF Create
<1>3. openGrids' \subseteq Symbols
  <2>1. g.symbol \in Symbols
    BY <1>1 DEF PassRows
  <2> QED BY <1>2, <2>1 DEF PassSpares
<1>4. /\ r.opened \in Nat /\ r.atStart \in Nat /\ Cardinality(r.left) \in Nat /\ Cardinality(Symbols) \in Nat
  <2>1. r.left \subseteq Symbols /\ r.opened \in Nat /\ r.atStart \in Nat
    BY <1>1 DEF PassRows
  <2> QED BY <2>1, LeftIsFinite
<1>5. /\ back.pc = "loop" /\ back.opened = r.opened /\ back.atStart = r.atStart /\ back.left = r.left
      /\ DOMAIN back = DOMAIN r /\ {"pc", "opened", "atStart", "left", "seen", "unshort", "errors"} \subseteq DOMAIN r
  BY <1>1 DEF PassRows
<1> HIDE DEF r, back
<1>6. \A new \in {back, [back EXCEPT !.seen = @ + 1, !.opened = @ + 1, !.unshort = @ \/ ~g.short],
                  [back EXCEPT !.errors = @ \/ (execMode = "REAL")], [back EXCEPT !.pc = "ended"]} :
         new.pc # "create" /\ new.left = r.left /\ new.atStart = r.atStart
         /\ new.opened \in {r.opened, r.opened + 1}
  <2>1. LET new == [back EXCEPT !.seen = @ + 1, !.opened = @ + 1, !.unshort = @ \/ ~g.short]
        IN  new.pc = "loop" /\ new.left = r.left /\ new.atStart = r.atStart /\ new.opened = r.opened + 1
    BY <1>5
  <2>2. LET new == [back EXCEPT !.errors = @ \/ (execMode = "REAL")]
        IN  new.pc = "loop" /\ new.left = r.left /\ new.atStart = r.atStart /\ new.opened = r.opened
    BY <1>5
  <2>3. LET new == [back EXCEPT !.pc = "ended"]
        IN  new.pc = "ended" /\ new.left = r.left /\ new.atStart = r.atStart /\ new.opened = r.opened
    BY <1>5
  <2> QED BY <1>5, <2>1, <2>2, <2>3
<1>7. PICK new : /\ new.pc # "create" /\ new.left = r.left /\ new.atStart = r.atStart
                 /\ new.opened \in {r.opened, r.opened + 1} /\ pass' = [pass EXCEPT ![p] = new]
  BY <1>2, <1>6
<1>8. Uncounted(new)
  BY <1>1, <1>4, <1>7 DEF Uncounted, Opening
<1> QED BY <1>1, <1>3, <1>7, <1>8, SparesOfOnePass DEF PassSpares

LEMMA PassValues ==
    ASSUME IsFiniteSet(Symbols)
    PROVE  PassSpec => []PassTypeOK
<1>1. PassInit => PassSpares
  <2> SUFFICES ASSUME PassInit PROVE PassSpares
    OBVIOUS
  <2>1. IdlePass.pc = "idle" /\ IdlePass.atStart = 0 /\ IdlePass.opened = 0 /\ IdlePass.left = {}
    BY DEF IdlePass
  <2>2. Cardinality({}) = 0 /\ Cardinality(Symbols) \in Nat
    BY FS_EmptySet, FS_CardinalityType
  <2>3. Uncounted(IdlePass)
    BY <2>1, <2>2 DEF Uncounted, Opening
  <2> QED BY <2>3 DEF PassInit, PassSpares
<1>2. PassInv /\ PassSpares /\ [PassNext]_passVars => PassSpares'
  <2> SUFFICES ASSUME PassInv, PassSpares, [PassNext]_passVars PROVE PassSpares'
    OBVIOUS
  <2>1. ASSUME NEW p \in Passes, EndPass(p) PROVE PassSpares'
    <3> DEFINE r == [pass[p] EXCEPT !.pc = "ended"]
    <3>1. pass[p] \in PassRows /\ Uncounted(pass[p]) /\ pass[p].pc = "loop"
      BY <2>1 DEF EndPass, PassInv, PassSpares
    <3>2. /\ r.pc = "ended" /\ r.atStart = pass[p].atStart /\ r.opened = pass[p].opened
          /\ r.left = pass[p].left
      BY <3>1 DEF PassRows
    <3>3. pass' = [pass EXCEPT ![p] = r] /\ UNCHANGED openGrids /\ lastError' \in {lastError, "", "candidate"}
      BY <2>1 DEF EndPass
    <3> HIDE DEF r
    <3>4. Uncounted(r)
      BY <3>1, <3>2 DEF Uncounted, Opening
    <3> QED BY <3>3, <3>4, SparesOfOnePass DEF PassSpares
  <2>2. ASSUME NEW p \in Passes, ForgetPass(p) PROVE PassSpares'
    <3>1. IdlePass.pc = "idle" /\ IdlePass.atStart = 0 /\ IdlePass.opened = 0 /\ IdlePass.left = {}
      BY DEF IdlePass
    <3>2. Cardinality({}) = 0 /\ Cardinality(Symbols) \in Nat
      BY FS_EmptySet, FS_CardinalityType
    <3>3. Uncounted(IdlePass)
      BY <3>1, <3>2 DEF Uncounted, Opening
    <3> QED BY <2>2, <3>3, SparesOfOnePass DEF ForgetPass, PassSpares
  <2>3. CASE UNCHANGED <<pass, lastError>> /\ openGrids' \subseteq openGrids
    BY <2>3 DEF PassSpares, Uncounted, Opening
  <2>4. ASSUME NEW s \in Symbols, CloseGrid(s) PROVE PassSpares'
    BY <2>3, <2>4 DEF CloseGrid
  <2>5. ASSUME NEW mk \in MarketMoods, MarketMoves(mk) PROVE PassSpares'
    BY <2>3, <2>5 DEF MarketMoves
  <2>6. CASE UNCHANGED passVars
    BY <2>3, <2>6 DEF passVars
  <2> QED BY <2>1, <2>2, <2>4, <2>5, <2>6, BeginSpares, JudgeSpares, CreateSpares DEF PassNext
<1>3. PassInv /\ PassSpares => PassTypeOK
  <2> SUFFICES ASSUME PassInv, PassSpares PROVE PassTypeOK
    OBVIOUS
  <2>1. ASSUME NEW p \in Passes
        PROVE  /\ pass[p].pc \in {"idle", "loop", "create", "ended"}
               /\ pass[p].seen \in 0 .. 2 * Cardinality(Symbols)
               /\ pass[p].opened \in 0 .. Cardinality(Symbols)
               /\ \A g \in pass[p].creating : g.symbol \in Symbols
    <3>1. pass[p] \in PassRows /\ Counted(pass[p]) /\ Uncounted(pass[p])
      BY DEF PassInv, PassSpares
    <3>2. Cardinality(pass[p].left) \in Nat /\ Cardinality(Symbols) \in Nat
      BY <3>1, LeftIsFinite DEF PassRows
    <3> QED BY <3>1, <3>2 DEF PassRows, Counted, Uncounted, Opening
  <2> QED BY <2>1 DEF PassTypeOK, PassInv, PassSpares
<1> QED BY <1>1, <1>2, <1>3, PassInvHolds, PTL DEF PassSpec

LEMMA ManageValues == ManageSpec => []ManageTypeOK
<1>1. Managed => ManageTypeOK
  BY DEF Managed, ManageShape, LossIsPooled, ManageTypeOK, GridRows, Rows, Dids
<1> QED BY <1>1, ManagedHolds, ManageBotAssumption, PTL

(* The radar keeps as many scores as its dwell asks for, and one more. *)
ScoresAre == scores \in Seq(0 .. 3) /\ Len(scores) <= DwellTicks + 1

LEMMA LastScoresAre ==
    ASSUME ScoresAre, NEW n \in 0 .. 3
    PROVE  LET s == LastScores(<<n>> \o scores) IN s \in Seq(0 .. 3) /\ Len(s) <= DwellTicks + 1
<1> DEFINE all == <<n>> \o scores
           last == IF Len(all) > DwellTicks THEN DwellTicks + 1 ELSE Len(all)
<1>1. DwellTicks \in Nat
  BY DEF RadarAssumption
<1>2. all \in Seq(0 .. 3) /\ Len(all) \in Nat
  <2>1. <<n>> \in Seq(0 .. 3)
    OBVIOUS
  <2> QED BY <2>1, ConcatProperties, LenProperties DEF ScoresAre
<1>3. last \in Nat /\ last <= Len(all) /\ last <= DwellTicks + 1
  BY <1>1, <1>2
<1>4. LastScores(all) = SubSeq(all, 1, last)
  BY DEF LastScores
<1> HIDE DEF all, last
<1>5. \A i \in 1 .. last : all[i] \in 0 .. 3
  BY <1>2, <1>3, ElementOfSeq
<1>6. SubSeq(all, 1, last) \in Seq(0 .. 3) /\ Len(SubSeq(all, 1, last)) = IF 1 <= last THEN last - 1 + 1 ELSE 0
  <2>1. last \in Int /\ 1 \in Int
    BY <1>3
  <2> QED BY <1>5, <2>1, SubSeqProperties
<1>7. Len(SubSeq(all, 1, last)) <= DwellTicks + 1
  BY <1>1, <1>3, <1>6
<1> QED BY <1>4, <1>6, <1>7 DEF all

LEMMA RadarValues == RadarSpec => []RadarTypeOK
<1>1. RadarInit => ScoresAre
  <2>1. <<>> \in Seq(0 .. 3) /\ Len(<<>>) = 0
    OBVIOUS
  <2>2. DwellTicks \in Nat
    BY DEF RadarAssumption
  <2>3. RadarInit => scores = <<>>
    BY DEF RadarInit
  <2> QED BY <2>1, <2>2, <2>3 DEF ScoresAre
<1>2. RadarInv /\ ScoresAre /\ [RadarNext]_radarVars => ScoresAre'
  <2> SUFFICES ASSUME RadarInv, ScoresAre, [RadarNext]_radarVars PROVE ScoresAre'
    OBVIOUS
  <2>1. CASE scores' = scores
    BY <2>1 DEF ScoresAre
  <2>2. CASE RadarWeighs
    <3>1. PICK a \in Asked[trail] : Scored(a) \/ scores' = scores
      BY <2>2 DEF RadarWeighs
    <3>2. CASE Scored(a)
      <4>1. trail \in BOOLEAN
        BY DEF RadarInv, RadarShape
      <4>2. a.score \in 0 .. 3
        BY <3>1, <4>1, AsksAre
      <4>3. scores' = LastScores(<<a.score>> \o scores)
        BY <3>2 DEF Scored
      <4> QED BY <4>2, <4>3, LastScoresAre DEF ScoresAre
    <3> QED BY <2>1, <3>1, <3>2
  <2>3. CASE \/ RadarReads \/ RadarFlips \/ RadarRecenters \/ RadarAdjusts \/ RadarAutocloses
             \/ RadarCloses \/ ManageShifts \/ OthersDraw \/ QuarterPasses \/ OperatorStopsGrid
             \/ RadarRestart
    <3>1. scores' = scores
      BY <2>3 DEF RadarReads, RadarFlips, RadarRecenters, RadarAdjusts, RadarAutocloses, RadarCloses,
         ManageShifts, OthersDraw, QuarterPasses, OperatorStopsGrid, RadarRestart
    <3> QED BY <2>1, <3>1
  <2>4. CASE UNCHANGED radarVars
    BY <2>1, <2>4 DEF radarVars
  <2> QED BY <2>2, <2>3, <2>4 DEF RadarNext
<1>3. RadarInv /\ ScoresAre => RadarTypeOK
  <2> SUFFICES ASSUME RadarInv, ScoresAre PROVE RadarTypeOK
    OBVIOUS
  <2>1. /\ guarded.status \in {"RUNNING", "STOP_REQUESTED"}
        /\ guarded.reason \in {"", "EMERGENCY_OFI", "RANGE_BREAK", "RADAR_AUTOCLOSE", "OPERATOR"}
        /\ events.shift \in 0 .. Old /\ events.autoclose \in 0 .. Old
    BY DEF RadarInv, RadarShape, Grids
  <2>2. guarded.shifts \in 0 .. MaxShiftsPerBot + 1 + OthersCap /\ guarded.missed \in 0 .. MissedCap
    <3>1. /\ guarded.shifts \in Nat /\ guarded.moved \in Nat /\ guarded.missed \in Nat
          /\ MaxShiftsPerBot \in Nat /\ OthersCap \in Nat /\ MissedCap \in Nat
      BY DEF RadarInv, RadarShape, Grids, RadarAssumption
    <3>2. guarded.moved <= MaxShiftsPerBot + guarded.missed + 1
      BY <3>1 DEF RadarInv, BudgetIsKept, Extra
    <3> QED BY <3>1, <3>2 DEF RadarInv, CountIsKept
  <2>3. \A i \in DOMAIN scores : scores[i] \in 0 .. 3
    BY ElementOfSeq DEF ScoresAre
  <2> QED BY <2>1, <2>2, <2>3 DEF RadarTypeOK, ScoresAre
<1> QED BY <1>1, <1>2, <1>3, RadarHolds, PTL DEF RadarSpec

LEMMA SettingsValues == SettingsSpec => []SettingsTypeOK
<1> DEFINE Begun == begun \in 0 .. MaxWrites
<1>1. SettingsInit => Begun
  BY DEF SettingsInit, SettingsAssumption
<1>2. Begun /\ [SettingsNext]_settingsVars => Begun'
  <2> SUFFICES ASSUME Begun, [SettingsNext]_settingsVars PROVE Begun'
    OBVIOUS
  <2>1. CASE begun' = begun
    BY <2>1
  <2>2. CASE begun < MaxWrites /\ begun' = begun + 1
    BY <2>2 DEF SettingsAssumption
  <2>3. CASE UNCHANGED settingsVars
    BY <2>1, <2>3 DEF settingsVars
  <2> HIDE DEF Begun
  <2>4. ASSUME NEW w \in Writers,
               OpenSettings(w) \/ ValidateForm(w) \/ WriteForm(w) \/ ReloadSettings(w) \/ SyncLoad(w)
               \/ SyncWrite(w)
        PROVE  Begun'
    BY <2>1, <2>4 DEF OpenSettings, ValidateForm, WriteForm, ReloadSettings, SyncLoad, SyncWrite
  <2>5. ASSUME NEW w \in Writers, Submit(w) \/ ApplyPreset(w) PROVE Begun'
    BY <2>2, <2>5 DEF Submit, ApplyPreset, MayBegin
  <2>6. CASE SetExecutionMode \/ TuneBegin \/ ApplyAutotune \/ RestartServer \/ EditBreaker
    BY <2>1, <2>2, <2>6 DEF SetExecutionMode, TuneBegin, ApplyAutotune, RestartServer, EditBreaker, MayBegin
  <2> QED BY <2>3, <2>4, <2>5, <2>6 DEF SettingsNext
<1>3. SettingsInv /\ Begun => SettingsTypeOK
  <2> SUFFICES ASSUME SettingsInv, Begun PROVE SettingsTypeOK
    OBVIOUS
  <2>1. settingsRow \in Columns /\ breakerRow \in Breakers
    BY DEF SettingsInv, SettingsShape
  <2>2. breakerRow \in [auto : BOOLEAN, value : Nat, cap : Nat]
    BY <2>1 DEF Breakers
  <2> QED BY <2>1, <2>2 DEF SettingsTypeOK
<1> HIDE DEF Begun
<1>4. SettingsInit => SettingsInv
  BY SettingsStart
<1>5. SettingsInv /\ [SettingsNext]_settingsVars => SettingsInv'
  BY SettingsInductive
<1> QED BY <1>1, <1>2, <1>3, <1>4, <1>5, PTL DEF SettingsSpec

(* The limiter has not waited longer than there was time, nor is it kept quiet
   for longer than one cool-down. *)
BucketWaits == bucket.idle <= ticks /\ ticks <= ClientTop /\ bucket.quiet <= Cooldown

LEMMA ClientValues == ClientSpec => []ClientTypeOK
<1> USE ClientAssumption
<1>1. ClientInit => BucketWaits
  BY DEF ClientInit, BucketWaits
<1>2. ClientInv /\ BucketWaits /\ [ClientNext]_clientVars => BucketWaits'
  <2> SUFFICES ASSUME ClientInv, BucketWaits, [ClientNext]_clientVars PROVE BucketWaits'
    OBVIOUS
  <2>0. /\ BucketInv /\ bucket \in [tokens : 0 .. Capacity, idle : Nat, quiet : Nat] /\ ticks \in Nat
        /\ CallsInv
    BY DEF ClientInv, BucketInv
  <2>1. CASE UNCHANGED <<bucket, ticks>>
    BY <2>1 DEF BucketWaits
  <2>2. ASSUME NEW c \in Callers, Wait(c) PROVE BucketWaits'
    <3>1. CASE bucket.quiet > 0
      BY <2>1, <2>2, <3>1 DEF Wait
    <3>2. CASE ~(bucket.quiet > 0)
      <4> DEFINE full == Refilled
                 rest == full.tokens - call[c].weight
      <4>1. bucket' = [full EXCEPT !.tokens = rest] /\ ticks' = ticks
        BY <2>2, <3>2 DEF Wait
      <4>2. /\ full \in [tokens : 0 .. Capacity, idle : Nat, quiet : Nat]
            /\ full.idle = 0 /\ full.quiet = bucket.quiet
        BY <2>0, RefilledKeeps
      <4> HIDE DEF full, rest
      <4>3. bucket'.idle = 0 /\ bucket'.quiet = bucket.quiet
        BY <4>1, <4>2
      <4> QED BY <2>0, <4>1, <4>3 DEF BucketWaits
    <3> QED BY <3>1, <3>2
  <2>3. ASSUME NEW c \in Callers, WaitInVain(c) PROVE BucketWaits'
    <3>1. bucket' = Refilled /\ ticks' = ticks
      BY <2>3 DEF WaitInVain
    <3>2. bucket'.idle = 0 /\ bucket'.quiet = bucket.quiet
      BY <2>0, <3>1, RefilledKeeps
    <3> QED BY <2>0, <3>1, <3>2 DEF BucketWaits
  <2>4. ASSUME NEW c \in Callers, Answered(c) PROVE BucketWaits'
    <3>1. CASE UNCHANGED bucket
      BY <2>1, <2>4, <3>1 DEF Answered
    <3>2. CASE bucket' = TriggerCooldown
      <4>1. bucket'.idle = bucket.idle /\ bucket'.quiet = Cooldown
        BY <2>0, <3>2 DEF TriggerCooldown
      <4> QED BY <2>4, <4>1 DEF Answered, BucketWaits
    <3> QED BY <2>4, <3>1, <3>2 DEF Answered
  <2>5. ASSUME NEW c \in Callers,
               BeginCall(c) \/ Cancelled(c) \/ Serve(c) \/ SyncWithServer(c) \/ waitRetry(c)
        PROVE  BucketWaits'
    BY <2>1, <2>5 DEF BeginCall, Cancelled, Serve, SyncWithServer, waitRetry
  <2>6. CASE ClientTick
    <3> DEFINE i == bucket.idle + 1
               q == IF bucket.quiet > 0 THEN bucket.quiet - 1 ELSE 0
    <3>1. /\ i \in Nat /\ q \in Nat /\ i = bucket.idle + 1 /\ q <= bucket.quiet
          /\ bucket' = [bucket EXCEPT !.idle = i, !.quiet = q]
      BY <2>0, <2>6 DEF ClientTick
    <3> HIDE DEF i, q
    <3>2. bucket'.idle = bucket.idle + 1 /\ bucket'.quiet <= bucket.quiet /\ bucket'.quiet \in Nat
      BY <2>0, <3>1
    <3> QED BY <2>0, <2>6, <3>2 DEF ClientTick, BucketWaits
  <2>7. CASE UNCHANGED clientVars
    BY <2>1, <2>7 DEF clientVars
  <2> QED BY <2>2, <2>3, <2>4, <2>5, <2>6, <2>7 DEF ClientNext
<1>3. ClientInv /\ BucketWaits => ClientTypeOK
  BY DEF ClientInv, BucketInv, BucketWaits, ClientTypeOK
<1> QED BY <1>1, <1>2, <1>3, ClientStarts, ClientStep, PTL DEF ClientSpec

\* Whichever of the trading components runs, its counters, rows and verdicts
\* keep to the values the code writes: a pass counts no grid twice, a stop stays
\* on the price scale, a range is shifted within its budget and one escape, and
\* the limiter is never kept quiet for longer than one cool-down.
THEOREM TradingTypesHold ==
    ASSUME IsFiniteSet(Symbols)
    PROVE  MCSpec => []TradingTypeOK
<1>1. MCSpec => PassSpec /\ ManageSpec /\ RadarSpec /\ SettingsSpec /\ ClientSpec
  <2>1. MCInit => PassInit /\ ManageInit /\ RadarInit /\ SettingsInit /\ ClientInit
    BY DEF MCInit
  <2>2. [MCNext]_<<part, passVars, manageVars, radarVars, settingsVars, clientVars>>
        => /\ [PassNext]_passVars /\ [ManageNext]_manageVars /\ [RadarNext]_radarVars
           /\ [SettingsNext]_settingsVars /\ [ClientNext]_clientVars
    BY DEF MCNext
  <2> QED BY <2>1, <2>2, PTL DEF MCSpec, PassSpec, ManageSpec, RadarSpec, SettingsSpec, ClientSpec
<1>2. PassTypeOK /\ ManageTypeOK /\ RadarTypeOK /\ SettingsTypeOK /\ ClientTypeOK => TradingTypeOK
  BY DEF TradingTypeOK
<1> QED BY <1>1, <1>2, PassValues, ManageValues, RadarValues, SettingsValues, ClientValues, PTL
==============================================================================
