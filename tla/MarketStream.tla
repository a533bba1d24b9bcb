----------------------------- MODULE MarketStream -----------------------------
(***************************************************************************)
(* One symbol's live order book: the public WebSocket lane (connection,    *)
(* subscription, resync), the local book that follows its numbered frames, *)
(* and the order-flow engine whose readiness the entry gates ask for.      *)
(*                                                                         *)
(* What a book shows is abstracted to whether it is the exchange's book of *)
(* its number; a window to whether all of it was seen since sync was last  *)
(* lost.  A frame's prevNumber is abstracted to whether it is the number   *)
(* of the frame sent before it (a book with sync holds the number of the   *)
(* frame read last).  Frames are numbered: a number of zero, which the     *)
(* code takes for any, is not sent.                                        *)
(***************************************************************************)
EXTENDS Integers, Sequences

CONSTANTS
    WireCap,         \* bound: frames on their way
    MinWindows,      \* windows that make the engine ready (3)
    StreamWorlds,    \* sets of faults, one of which the world has
    StreamBudget     \* bound: faults

StreamFaults == {"loss", "crossed", "one_sided", "drop", "symbols", "spread"}
ASSUME StreamAssumption ==
    /\ {WireCap, MinWindows} \subseteq Nat \ {0} /\ StreamBudget \in Nat
    /\ StreamWorlds \subseteq SUBSET StreamFaults

VARIABLES
    streamWorld, streamLeft,
    exchange,   \* the exchange: it sends us frames; a change since the last was lost
    lane,       \* PublicStream: connected, the symbol is wanted, resyncInFlight
    wire,       \* frames of the connection, not yet read
    book,       \* LocalOrderBook
    engine      \* SymbolMicrostate

streamVars == <<streamWorld, streamLeft, exchange, lane, wire, book, engine>>

Timers == {"no", "recent", "old"}   \* never or answered; within 10 seconds; before
StreamFault(fault) == fault \in streamWorld /\ streamLeft > 0 /\ streamLeft' = streamLeft - 1

--------------------------------------------------------------------------
\* LocalOrderBook.

NoBook == [synced |-> FALSE, sides |-> FALSE, exact |-> TRUE]
ApplySnapshot(frame) ==
    [synced |-> TRUE, sides |-> ~frame.oneSided, exact |-> TRUE]
Continues_Unchecked(frame) == TRUE   \* a bug: prevNumber is not compared
Continues(frame) == frame.follows
(* A delta is refused by a book without sync, and ends the sync of one that
   it does not continue or that it crosses. *)
DeltaFails(b, frame) == ~b.synced \/ ~Continues(frame) \/ frame.crosses
ApplyDelta(b, frame) ==
    IF ~b.synced THEN b
    ELSE IF ~Continues(frame) THEN [b EXCEPT !.synced = FALSE]
    ELSE [synced |-> ~frame.crosses, sides |-> TRUE, exact |-> b.exact /\ frame.follows]
IsSynced(b) == b.synced /\ b.sides

--------------------------------------------------------------------------
\* SymbolMicrostate.

NewWindow == [state |-> "running", seen |-> TRUE]
NoWindow == [state |-> "none", seen |-> TRUE]
(* From here on, what the windows hold was seen before the loss of sync. *)
BeforeLoss(e) ==
    [e EXCEPT !.history = [i \in DOMAIN @ |-> FALSE],
              !.window = [@ EXCEPT !.seen = FALSE]]

(* evaluateLocked: the desync, the spread and depth, the warm-up, ready. *)
Evaluated(e, b, intact) ==
    IF e.desynced \/ ~IsSynced(b) THEN [e EXCEPT !.latest = "DESYNC"]
    ELSE IF Len(e.history) < MinWindows \/ ~intact
         THEN [e EXCEPT !.latest = IF intact /\ e.recovering THEN "RECOVERING" ELSE "WARMING_UP"]
    ELSE [e EXCEPT !.recovering = FALSE, !.latest = "READY"]

(* finalizeWindowLocked; the history is cut to its newest windows. *)
Finalized(e, b, intact) ==
    LET longer == Append(e.history, e.window.seen)
    IN  Evaluated([e EXCEPT !.history = IF Len(longer) > MinWindows THEN Tail(longer) ELSE longer,
                            !.window = NewWindow], b, intact)
WindowTurns(e, b, intact) ==
    CASE e.window.state = "none" -> [e EXCEPT !.window = NewWindow]
      [] e.window.state = "due" -> Finalized(e, b, intact)
      [] OTHER -> e

Desynced(e) == [BeforeLoss(e) EXCEPT !.desynced = TRUE, !.recovering = TRUE, !.latest = "DESYNC"]

(* A snapshot answers the resync; after a desync the windows begin anew. *)
Resynced(e) ==
    IF e.desynced
    THEN [e EXCEPT !.asked = "no", !.desynced = FALSE, !.recovering = TRUE,
                   !.history = <<>>, !.window = NewWindow, !.latest = "RECOVERING"]
    ELSE [e EXCEPT !.asked = "no"]

(* A resync is asked for once per 10 seconds, unless one was answered. *)
AsksResync(e) == e.asked # "recent"

(* IngestOrderbookUpdate of a snapshot, and of a delta. *)
IngestSnapshot(e, frame, intact) ==
    LET opened == WindowTurns(e, book, intact)
        updated == [Resynced(opened) EXCEPT !.age = "fresh"]
    IN  /\ book' = ApplySnapshot(frame)
        /\ engine' = IF IsSynced(book') THEN updated ELSE Desynced(updated)
IngestDelta(e, frame, intact) ==
    LET opened == WindowTurns(e, book, intact)
    IN  /\ book' = ApplyDelta(book, frame)
        /\ engine' =
             IF DeltaFails(book, frame)
             THEN [Desynced(opened) EXCEPT !.asked = IF AsksResync(e) THEN "recent" ELSE @,
                                           !.handler = @ \/ AsksResync(e)]
             ELSE [opened EXCEPT !.age = "fresh"]

(* IngestTrade: a trade can end a window as well. *)
IngestTrade ==
    /\ exchange.sends /\ engine.known /\ engine.window.state # "running"
    /\ engine' = WindowTurns(engine, book, TRUE)
    /\ UNCHANGED <<streamWorld, streamLeft, exchange, lane, wire, book>>

(* ResetSymbol, of a symbol the engine knows. *)
Reset(e) ==
    IF ~e.known THEN e
    ELSE [e EXCEPT !.history = <<>>, !.window = NoWindow, !.asked = "no", !.desynced = TRUE,
                   !.recovering = TRUE, !.latest = "DESYNC"]

(* Analyze: the desync outranks the recovery, which outranks staleness. *)
Analyze ==
    IF engine.desynced \/ (~IsSynced(book) /\ engine.age # "none") THEN "DESYNC"
    ELSE IF engine.recovering THEN "RECOVERING"
    ELSE IF engine.age # "fresh" THEN "STALE"
    ELSE engine.latest

--------------------------------------------------------------------------
\* The exchange and the lane.

SnapshotFrame(oneSided) ==
    [snapshot |-> TRUE, follows |-> FALSE, oneSided |-> oneSided, crosses |-> FALSE]
DeltaFrame(crosses) ==
    [snapshot |-> FALSE, follows |-> ~exchange.lost, oneSided |-> FALSE, crosses |-> crosses]

(* SUBSCRIBE: the exchange answers with its book as of then, whole; the frame
   may be undecodable, or show one side alone. *)
Subscribed ==
    /\ \/ /\ exchange' = [sends |-> TRUE, lost |-> FALSE]
          /\ \/ wire' = Append(wire, SnapshotFrame(FALSE)) /\ UNCHANGED streamLeft
             \/ wire' = Append(wire, SnapshotFrame(TRUE)) /\ StreamFault("one_sided")
       \/ exchange' = [sends |-> TRUE, lost |-> TRUE] /\ StreamFault("loss") /\ UNCHANGED wire

(* The exchange's book changes while it sends to us. *)
SendDelta ==
    /\ exchange.sends /\ Len(wire) < WireCap
    /\ exchange' = [exchange EXCEPT !.lost = FALSE]
    /\ wire' = Append(wire, DeltaFrame(FALSE))
    /\ UNCHANGED <<streamWorld, streamLeft, lane, book, engine>>
SpoilDelta ==
    /\ exchange.sends /\ Len(wire) < WireCap
    /\ \/ StreamFault("loss") /\ exchange' = [exchange EXCEPT !.lost = TRUE] /\ UNCHANGED wire
       \/ /\ StreamFault("crossed")
          /\ exchange' = [exchange EXCEPT !.lost = FALSE] /\ wire' = Append(wire, DeltaFrame(TRUE))
    /\ UNCHANGED <<streamWorld, lane, book, engine>>

(* readPump: a snapshot ends the lane's resync before the listener hears of it. *)
ReadFrame ==
    /\ lane.up /\ wire # <<>>
    /\ wire' = Tail(wire)
    /\ lane' = IF Head(wire).snapshot THEN [lane EXCEPT !.resync = "no"] ELSE lane
    /\ \E intact \in BOOLEAN :
         /\ IF intact THEN UNCHANGED streamLeft
            ELSE engine.window.state = "due" /\ StreamFault("spread")
         /\ LET known == [engine EXCEPT !.known = TRUE]
            IN  IF Head(wire).snapshot THEN IngestSnapshot(known, Head(wire), intact)
                                       ELSE IngestDelta(known, Head(wire), intact)
    /\ UNCHANGED <<streamWorld, exchange>>

(* ResyncOrderbook, on the desync handler's own goroutine: UNSUBSCRIBE and
   SUBSCRIBE, unless the lane asked within 10 seconds itself. *)
LaneHolds_ForEver == lane.resync # "no"   \* a bug: a lost answer is never asked for again
LaneHolds == lane.resync = "recent"
RunHandler ==
    /\ engine.handler /\ Len(wire) <= WireCap
    /\ engine' = [engine EXCEPT !.handler = FALSE]
    /\ lane' = [lane EXCEPT !.resync = "recent"]
    /\ IF lane.up /\ ~LaneHolds THEN Subscribed ELSE UNCHANGED <<streamLeft, exchange, wire>>
    /\ UNCHANGED <<streamWorld, book>>

(* SetSymbols: what is no longer wanted is unsubscribed, its book is kept. *)
SetSymbols ==
    /\ Len(wire) <= WireCap
    /\ lane' = [lane EXCEPT !.wanted = ~@]
    /\ \/ lane.wanted /\ exchange' = [exchange EXCEPT !.sends = FALSE] /\ UNCHANGED wire
          /\ StreamFault("symbols")
       \/ ~lane.wanted /\ lane.up /\ Subscribed
       \/ ~lane.wanted /\ ~lane.up /\ UNCHANGED <<exchange, wire, streamLeft>>
    /\ UNCHANGED <<streamWorld, book, engine>>

(* dial: the wish is subscribed and every book reset before the first read. *)
Dial ==
    /\ ~lane.up
    /\ lane' = [lane EXCEPT !.up = TRUE]
    /\ IF lane.wanted THEN Subscribed ELSE UNCHANGED <<exchange, wire, streamLeft>>
    /\ engine' = Reset(engine)
    /\ book' = IF engine.known THEN NoBook ELSE book
    /\ UNCHANGED streamWorld
Disconnect ==
    /\ lane.up /\ StreamFault("drop")
    /\ lane' = [lane EXCEPT !.up = FALSE, !.resync = "no"]
    /\ exchange' = [exchange EXCEPT !.sends = FALSE] /\ wire' = <<>>
    /\ UNCHANGED <<streamWorld, book, engine>>

--------------------------------------------------------------------------
\* Time.

WindowElapses ==
    /\ engine.window.state = "running" /\ engine' = [engine EXCEPT !.window.state = "due"]
    /\ UNCHANGED <<streamWorld, streamLeft, exchange, lane, wire, book>>
EngineCools ==
    /\ engine.asked = "recent" /\ engine' = [engine EXCEPT !.asked = "old"]
    /\ UNCHANGED <<streamWorld, streamLeft, exchange, lane, wire, book>>
LaneCools ==
    /\ lane.resync = "recent" /\ lane' = [lane EXCEPT !.resync = "old"]
    /\ UNCHANGED <<streamWorld, streamLeft, exchange, wire, book, engine>>
(* MaxStaleness passes without a frame. *)
BookAges ==
    /\ engine.age = "fresh" /\ engine' = [engine EXCEPT !.age = "old"]
    /\ UNCHANGED <<streamWorld, streamLeft, exchange, lane, wire, book>>

StreamInit ==
    /\ streamWorld \in StreamWorlds /\ streamLeft = StreamBudget
    /\ exchange = [sends |-> FALSE, lost |-> FALSE]
    /\ lane \in [up : {FALSE}, wanted : BOOLEAN, resync : {"no"}]
    /\ wire = <<>>
    /\ book = NoBook
    /\ engine = [known |-> FALSE, desynced |-> FALSE, recovering |-> FALSE, asked |-> "no",
                 handler |-> FALSE, history |-> <<>>, window |-> NoWindow, age |-> "none",
                 latest |-> "WARMING_UP"]

StreamTimers == WindowElapses \/ EngineCools \/ LaneCools
StreamNext ==
    \/ SendDelta \/ SpoilDelta \/ ReadFrame \/ IngestTrade \/ RunHandler
    \/ SetSymbols \/ Dial \/ Disconnect \/ StreamTimers \/ BookAges

(* The exchange's book keeps changing, the lane keeps reading and dialling,
   the handler's goroutine runs, and time passes. *)
StreamSpec ==
    /\ StreamInit /\ [][StreamNext]_streamVars
    /\ WF_streamVars(SendDelta) /\ WF_streamVars(ReadFrame) /\ WF_streamVars(RunHandler)
    /\ WF_streamVars(Dial) /\ WF_streamVars(WindowElapses) /\ WF_streamVars(EngineCools)
    /\ WF_streamVars(LaneCools)

--------------------------------------------------------------------------
(* The values the code can write. *)
StreamTypeOK ==
    /\ {exchange.sends, exchange.lost, book.synced, book.sides} \subseteq BOOLEAN
    /\ {lane.resync, engine.asked} \subseteq Timers
    /\ Len(wire) <= WireCap + 1 /\ Len(engine.history) <= MinWindows
    /\ engine.latest \in {"WARMING_UP", "READY", "DESYNC", "RECOVERING"}

(* An order book that counts as READY is the exchange's of its number although
   frames are lost, repeated or belong to an older subscription, and every
   window it is judged by was seen whole since sync was last lost. *)
ReadyIsEarned ==
    Analyze = "READY" =>
        /\ book.synced /\ book.exact
        /\ Len(engine.history) = MinWindows /\ \A i \in DOMAIN engine.history : engine.history[i]

(* "awaiting fresh snapshot" ends: a wanted book gets ready although the
   answers to its resync, its frames and its connection are lost (no frame
   with one empty side: no resync follows it). *)
BookRecovers ==
    lane.wanted /\ "one_sided" \notin streamWorld ~> (Analyze = "READY" \/ ~lane.wanted)
=============================================================================
