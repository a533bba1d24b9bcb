---------------------------- MODULE CandidateScore ----------------------------
(***************************************************************************)
(* How the scanner judges one symbol: the regime of its candles, the vote  *)
(* of the indicator classes (confluence), the direction of the grid and    *)
(* the reasons against it.                                                 *)
(*                                                                         *)
(* A direction is 1 (long), -1 (short) or 0 (no_trend).  A reading holds   *)
(* what the candles and the ticker show, in per cent; the slope of the     *)
(* fast EMA, the indicators' weights and the scores in hundredths.  The    *)
(* series' memory (Hurst) is unknown when too few candles tell.            *)
(***************************************************************************)
EXTENDS Integers, FiniteSetsExt

Ways == {-1, 0, 1}
Magnitude(x) == IF x < 0 THEN -x ELSE x
Within(low, x, high) == IF x < low THEN low ELSE IF x > high THEN high ELSE x

Votes ==
    [flow : Int, turn : Int, release : Int, stretch : Int, fib : Int, macd : Int, stoch : Int,
     cross : {"none", "up", "down", "mixed"}, coiled : BOOLEAN, tight : BOOLEAN, shelves : BOOLEAN]
Readings ==
    [ema : Ways, slope : Int, return : Int, side : Ways, crossings : Nat, chop : Int, adx : Int,
     rsi : Int, position : Int, day : Int, quarter : Int, squeeze : BOOLEAN, halfLife : Int,
     flash : BOOLEAN, narrow : BOOLEAN, poor : BOOLEAN, efficiency : Int, votes : Votes,
     hurst : {"reverting", "middle", "upper", "danger", "unknown"}]

--------------------------------------------------------------------------
\* DetectRegime.

(* The EMAs, the window's return and the last close agree on the direction:
   neither of the last two is clearly against it. *)
Backs(r, way) == r.ema = way /\ way * r.return >= -3 /\ way * r.side >= 0
Steep(r) == r.ema * r.slope >= 50
(* A trend needs its strength, unless its slope is steep; a range that has
   crossed its middle three times is a range. *)
RegimeOf(r) ==
    IF /\ Backs(r, r.ema) /\ r.crossings < 3
       /\ Steep(r) \/ (r.ema * r.slope > 15 /\ r.adx >= 22 /\ r.chop <= 52)
    THEN r.ema ELSE 0

--------------------------------------------------------------------------
\* EvaluateConfluence.

(* The voices, by the sign of their weight: volume flow (silent when the
   memory of the series says trend), the turn of momentum, the release of a
   squeeze, the stretch from the fair price, the pocket, the MACD. *)
Voices(r) ==
    [flow |-> IF r.hurst = "danger" THEN 0 ELSE r.votes.flow, turn |-> r.votes.turn,
     release |-> r.votes.release, stretch |-> r.votes.stretch, fib |-> r.votes.fib,
     macd |-> r.votes.macd]
Support(r, way) ==
    LET voices == Voices(r)
        raised == MapThenSumSet(LAMBDA v : Within(0, way * voices[v], 100), DOMAIN voices)
        crossed == CASE r.votes.cross = "mixed" -> Within(0, raised - 8, 100)
                     [] r.votes.cross = (IF way = 1 THEN "up" ELSE "down") -> raised + 8
                     [] OTHER -> raised
    IN  Within(0, crossed + Within(0, way * r.votes.stoch, 10), 100)
RangeSupport(r) ==
    Within(0, (IF r.votes.coiled THEN 35 ELSE 0) + (IF r.votes.tight THEN 25 ELSE 0)
              + (IF r.votes.shelves THEN 15 ELSE 0)
              + CASE r.hurst = "reverting" -> 25 [] r.hurst = "middle" -> -10
                  [] r.hurst = "upper" -> -20 [] OTHER -> 0, 100)

Confluence(r) ==
    LET long == Support(r, 1)   short == Support(r, -1)   range == RangeSupport(r)
    IN  CASE long >= 45 /\ short >= 45 -> "CONFLICT"
          [] long >= 50 /\ long >= range -> "SUPPORT_LONG"
          [] short >= 50 /\ short >= range -> "SUPPORT_SHORT"
          [] range >= 50 /\ ~(long >= 50 /\ long >= range) /\ ~(short >= 50 /\ short >= range)
               -> "SUPPORT_RANGE"
          [] OTHER -> "NEUTRAL"

--------------------------------------------------------------------------
\* scoreCandidate.

(* The regime's direction, unless the day runs against it, directions are
   switched off or the range is too narrow for one. *)
FirstTrend(r, mode) ==
    IF ~mode.directional \/ r.narrow \/ RegimeOf(r) * r.day <= -3 THEN 0 ELSE RegimeOf(r)

Strong(r) == r.adx > 22 \/ Magnitude(r.slope) > 50

NeutralReasons(r) ==
    {why \in {"squeeze", "trending", "dead zone", "half-life", "RSI", "position"} :
        CASE why = "squeeze" -> r.squeeze /\ ~(r.adx < 20 /\ r.chop > 55)
          [] why = "trending" -> \/ r.adx > 32 \/ Magnitude(r.slope) > 300
                                 \/ Magnitude(r.day) > 8 \/ Magnitude(r.quarter) > 4
          [] why = "dead zone" -> r.adx \in 24 .. 32
          [] why = "half-life" -> r.halfLife > 0 /\ r.halfLife < 2
          [] why = "RSI" -> r.rsi \notin 40 .. 60
          [] OTHER -> r.position \notin 20 .. 80}

LongReasons(r) ==
    (IF r.rsi > (IF Strong(r) THEN 78 ELSE 70) THEN {"RSI"} ELSE {})
    \cup (IF r.position > 75 THEN {"position"} ELSE {})

(* The floors under a short are lifted in a cascade, and on a tape that
   falls by itself unless it is oversold. *)
FloorsLifted(r, mode) ==
    mode.cascade \/ (~(r.rsi > 0 /\ r.rsi < 30) /\ Strong(r) /\ r.slope < 0)
ShortReasons(r, mode) ==
    IF FloorsLifted(r, mode) THEN {}
    ELSE (IF r.rsi < (IF Strong(r) THEN 22 ELSE 30) THEN {"RSI"} ELSE {})
         \cup (IF r.position < (IF Strong(r) THEN 12 ELSE 25) THEN {"position"} ELSE {})

(* "poor" is any of the figures of the candle model below its limit:
   turnover, volatility, tail risk, expected value, Sharpe, drawdown, profit
   factor, the step against the fees; or a symbol the exchange refuses. *)
EntryReasons(r, trend, mode) ==
    (IF r.poor THEN {"figures"} ELSE {})
    \cup (CASE trend = 0 -> NeutralReasons(r) [] trend = 1 -> LongReasons(r)
             [] OTHER -> ShortReasons(r, mode))
    \cup (IF r.flash /\ ~(mode.cascade /\ trend = -1) THEN {"flash"} ELSE {})

(* The last look: a direction the voices speak against is given up, which
   is a reason of its own; persistence vetoes what is neutral now. *)
Opposed(r, trend) ==
    \/ trend = 1 /\ Confluence(r) = "SUPPORT_SHORT"
    \/ trend = -1 /\ Confluence(r) = "SUPPORT_LONG"
PersistenceReasons(r) ==
    (IF r.hurst = "danger" THEN {"Hurst"} ELSE {}) \cup (IF r.efficiency > 60 THEN {"Kaufman"} ELSE {})

Judgement_Silent(r, mode) ==   \* a bug: a direction that is given up is no reason
    LET first == FirstTrend(r, mode)
        trend == IF Opposed(r, first) THEN 0 ELSE first
        reasons == EntryReasons(r, first, mode)
                   \cup (IF trend = 0 THEN PersistenceReasons(r) ELSE {})
    IN  [trend |-> trend, accepted |-> reasons = {}]
Judgement(r, mode) ==
    LET first == FirstTrend(r, mode)
        trend == IF Opposed(r, first) THEN 0 ELSE first
        reasons == EntryReasons(r, first, mode)
                   \cup (IF Opposed(r, first) THEN {"confluence"} ELSE {})
                   \cup (IF trend = 0 THEN PersistenceReasons(r) ELSE {})
    IN  [trend |-> trend, accepted |-> reasons = {}]
=============================================================================
