---------------------------- MODULE TelegramOutbox ----------------------------
(***************************************************************************)
(* The Telegram channel: notifications and the console's replies are rows  *)
(* of notification_outbox, sent part by part by dispatchers that claim a   *)
(* row under a lease; the console's commands are read from the bot's       *)
(* update queue behind a durable cursor.                                   *)
(*                                                                         *)
(* Rows are numbered in the order of their creation.  A call to Telegram   *)
(* ends within 25 seconds, a lease lasts two minutes: it lapses only after *)
(* its dispatcher is gone or its write has failed.                         *)
(***************************************************************************)
EXTENDS Integers, Sequences, FiniteSets

CONSTANTS
    Dispatchers,     \* processes that send
    MaxMessages,     \* bound: rows of the outbox
    MaxUpdates,      \* bound: updates that wait at Telegram
    MaxFailures,     \* consecutive failures after which a row is given up (8)
    OutboxWorlds,    \* sets of faults, one of which the world has
    OutboxBudget     \* bound: faults

OutboxFaults == {"lost_answer", "refused", "limited", "rejected", "write", "crash", "reply", "poll"}
ASSUME OutboxAssumption ==
    /\ {MaxMessages, MaxUpdates, MaxFailures} \subseteq Nat \ {0}
    /\ MaxUpdates <= MaxMessages   \* the bound leaves every reply a row
    /\ OutboxBudget \in Nat
    /\ OutboxWorlds \subseteq SUBSET OutboxFaults

VARIABLES
    outboxWorld, outboxLeft,
    outbox,      \* notification_outbox
    chat,        \* per row: the parts the operator has seen, in order
    sender,      \* per dispatcher: the row it has claimed, as it read it
    paused,      \* send_paused_until lies ahead
    cursor,      \* last_update_id, as committed
    registered,  \* commands_registered
    poll         \* the one poll that holds the token's lock

outboxVars == <<outboxWorld, outboxLeft, outbox, chat, sender, paused, cursor, registered, poll>>

Messages == 1 .. MaxMessages
Updates == 1 .. MaxUpdates
NoMessage == [status |-> "none", rank |-> 2, length |-> 1, sent |-> 0, failures |-> 0,
              due |-> FALSE, answers |-> 0]
NoSender == [pc |-> "idle", row |-> 1, part |-> 0, failures |-> 0, result |-> "none"]
NoPoll == [pc |-> "idle", upto |-> 0]
FaultComes(fault) == fault \in outboxWorld /\ outboxLeft > 0 /\ outboxLeft' = outboxLeft - 1

--------------------------------------------------------------------------
\* Producers.

(* INSERT; a reply carries its update's deduplication key, so that a second
   one of the same update is none. *)
NewRow == CHOOSE m \in Messages : /\ outbox[m].status = "none"
                                  /\ \A n \in Messages : n < m => outbox[n].status # "none"
Full == \A m \in Messages : outbox[m].status # "none"
WithRow(rank, length, update) ==
    IF Full THEN outbox
    ELSE [outbox EXCEPT ![NewRow] =
            [NoMessage EXCEPT !.status = "PENDING", !.rank = rank, !.length = length,
                              !.due = TRUE, !.answers = update]]
Answered_Never(u) == FALSE   \* a bug: the reply has no deduplication key
Answered(u) == \E m \in Messages : outbox[m].status # "none" /\ outbox[m].answers = u

(* EnqueueNotification, the digest: CRITICAL (rank 1) or not (rank 2); a
   long text is split.  The last rows are left to the replies. *)
Enqueue ==
    /\ Cardinality({m \in Messages : outbox[m].status = "none"}) > MaxUpdates
    /\ \E rank, length \in {1, 2} : outbox' = WithRow(rank, length, 0)
    /\ UNCHANGED <<outboxWorld, outboxLeft, chat, sender, paused, cursor, registered, poll>>

--------------------------------------------------------------------------
\* DispatchPending.

Claimable_Pending(m) == outbox[m].status = "PENDING" /\ outbox[m].due   \* a bug: lapsed leases stay
Claimable(m) == outbox[m].status \in {"PENDING", "SENDING"} /\ outbox[m].due
Before(m, n) == outbox[m].rank < outbox[n].rank \/ (outbox[m].rank = outbox[n].rank /\ m <= n)
ClaimNext(d) ==
    /\ sender[d].pc = "idle" /\ ~paused
    /\ \E m \in Messages :
         /\ Claimable(m) /\ \A n \in Messages : Claimable(n) => Before(m, n)
         /\ outbox' = [outbox EXCEPT ![m].status = "SENDING", ![m].due = FALSE]
         /\ sender' = [sender EXCEPT ![d] = [pc |-> "call", row |-> m, part |-> outbox[m].sent,
                                             failures |-> outbox[m].failures, result |-> "none"]]
    /\ UNCHANGED <<outboxWorld, outboxLeft, chat, paused, cursor, registered, poll>>

(* sendMessage of one part.  A 429 pauses every sender of the token before
   its row is written back; an answer may be lost after the part arrived. *)
SendPart(d) ==
    LET m == sender[d].row
        shows == chat' = [chat EXCEPT ![m] = Append(@, sender[d].part + 1)]
        ends(result) == sender' = [sender EXCEPT ![d].pc = "save", ![d].result = result]
    IN  /\ sender[d].pc = "call"
        /\ \/ shows /\ ends("shown") /\ UNCHANGED <<paused, outboxLeft>>
           \/ shows /\ ends("failed") /\ FaultComes("lost_answer") /\ UNCHANGED paused
           \/ ends("failed") /\ FaultComes("refused") /\ UNCHANGED <<paused, chat>>
           \/ ends("failed") /\ FaultComes("limited") /\ paused' = TRUE /\ UNCHANGED chat
           \/ ends("rejected") /\ FaultComes("rejected") /\ UNCHANGED <<paused, chat>>
        /\ UNCHANGED <<outboxWorld, outbox, cursor, registered, poll>>

(* What the row becomes: the next part at once, the same part after a delay,
   or the end; 400 and 403 are final. *)
Advanced(r, s) ==
    [r EXCEPT !.sent = @ + 1, !.failures = 0, !.due = TRUE,
              !.status = IF s.part + 1 = r.length THEN "SENT" ELSE "PENDING"]
SetBack(r, s) ==
    [r EXCEPT !.failures = s.failures + 1,
              !.status = IF s.result = "rejected" \/ s.failures + 1 >= MaxFailures
                         THEN "FAILED" ELSE "PENDING"]
SaveOutcome(d) ==
    LET m == sender[d].row
    IN  /\ sender[d].pc = "save"
        /\ \/ /\ outbox' = [outbox EXCEPT ![m] = IF sender[d].result = "shown" THEN Advanced(@, sender[d])
                                                ELSE SetBack(@, sender[d])]
              /\ UNCHANGED outboxLeft
           \/ FaultComes("write") /\ UNCHANGED outbox
        /\ sender' = [sender EXCEPT ![d] = NoSender]
        /\ UNCHANGED <<outboxWorld, chat, paused, cursor, registered, poll>>

--------------------------------------------------------------------------
\* pollUpdates.

(* The lock, the cursor and the pause are read in the poll's transaction;
   the command menu is registered first, and a failure of that pauses. *)
BeginPoll ==
    /\ poll.pc = "idle" /\ ~paused /\ cursor < MaxUpdates
    /\ \/ /\ poll' = [pc |-> "handle", upto |-> cursor] /\ UNCHANGED <<paused, outboxLeft>>
       \/ ~registered /\ FaultComes("poll") /\ paused' = TRUE /\ UNCHANGED poll
    /\ UNCHANGED <<outboxWorld, outbox, chat, sender, cursor, registered>>

(* A command is carried out and its reply queued, each on its own; when the
   reply cannot be queued the poll ends without its cursor. *)
HandleUpdate ==
    /\ poll.pc = "handle" /\ poll.upto < MaxUpdates
    /\ \/ /\ outbox' = IF Answered(poll.upto + 1) THEN outbox ELSE WithRow(0, 1, poll.upto + 1)
          /\ poll' = [poll EXCEPT !.upto = @ + 1]
          /\ UNCHANGED outboxLeft
       \/ FaultComes("reply") /\ poll' = NoPoll /\ UNCHANGED outbox
    /\ UNCHANGED <<outboxWorld, chat, sender, paused, cursor, registered>>

CommitPoll ==
    /\ poll.pc = "handle" /\ poll.upto > cursor
    /\ \/ cursor' = poll.upto /\ registered' = TRUE /\ UNCHANGED outboxLeft
       \/ FaultComes("poll") /\ UNCHANGED <<cursor, registered>>
    /\ poll' = NoPoll
    /\ UNCHANGED <<outboxWorld, outbox, chat, sender, paused>>

--------------------------------------------------------------------------
(* A process dies: its claims and its poll with it. *)
OutboxCrash ==
    /\ FaultComes("crash")
    /\ \E d \in Dispatchers : sender' = [sender EXCEPT ![d] = NoSender]
    /\ poll' = NoPoll
    /\ UNCHANGED <<outboxWorld, outbox, chat, paused, cursor, registered>>

Held(m) == \E d \in Dispatchers : sender[d].pc # "idle" /\ sender[d].row = m
(* A delay or a lease of a row that nobody holds is over. *)
RowFallsDue ==
    /\ \E m \in Messages :
         /\ outbox[m].status \in {"PENDING", "SENDING"} /\ ~outbox[m].due /\ ~Held(m)
         /\ outbox' = [outbox EXCEPT ![m].due = TRUE]
    /\ UNCHANGED <<outboxWorld, outboxLeft, chat, sender, paused, cursor, registered, poll>>
PauseEnds ==
    /\ paused /\ paused' = FALSE
    /\ UNCHANGED <<outboxWorld, outboxLeft, outbox, chat, sender, cursor, registered, poll>>

OutboxInit ==
    /\ outboxWorld \in OutboxWorlds /\ outboxLeft = OutboxBudget
    /\ outbox = [m \in Messages |-> NoMessage] /\ chat = [m \in Messages |-> <<>>]
    /\ sender = [d \in Dispatchers |-> NoSender]
    /\ paused = FALSE /\ cursor = 0 /\ registered \in BOOLEAN /\ poll = NoPoll

OutboxStep ==
    \/ \E d \in Dispatchers : ClaimNext(d) \/ SendPart(d) \/ SaveOutcome(d)
    \/ RowFallsDue \/ PauseEnds
PollStep == BeginPoll \/ HandleUpdate \/ CommitPoll
OutboxNext == OutboxStep \/ PollStep \/ Enqueue \/ OutboxCrash

(* The tickers of the dispatchers and of the listener keep firing, and time
   passes. *)
OutboxSpec ==
    /\ OutboxInit /\ [][OutboxNext]_outboxVars
    /\ WF_outboxVars(OutboxStep) /\ WF_outboxVars(PollStep)

--------------------------------------------------------------------------
(* The values the code can write. *)
OutboxTypeOK ==
    /\ \A m \in Messages :
         /\ outbox[m].status \in {"none", "PENDING", "SENDING", "SENT", "FAILED"}
         /\ outbox[m].sent \in 0 .. outbox[m].length /\ outbox[m].failures \in 0 .. MaxFailures
    /\ \A d \in Dispatchers : sender[d].part < outbox[sender[d].row].length
    /\ cursor \in 0 .. MaxUpdates /\ paused \in BOOLEAN /\ registered \in BOOLEAN

(* Whatever is lost, repeated or claimed by another process, the operator
   sees the parts of a text in order, none left out (one may be repeated),
   and a row counts as SENT only when he has seen its end. *)
PartsInOrder ==
    \A m \in Messages :
        LET seen == chat[m]
        IN  /\ \A i \in DOMAIN seen :
                 IF i = 1 THEN seen[i] = 1 ELSE seen[i] \in {seen[i - 1], seen[i - 1] + 1}
            /\ outbox[m].status = "SENT" => seen # <<>> /\ seen[Len(seen)] = outbox[m].length

(* "Retain cursor: a transient SQL failure must not lose a reply": every
   update the cursor has passed has one reply, and no update has two. *)
OneReplyEach ==
    \A u \in Updates :
        LET replies == {m \in Messages : outbox[m].answers = u}
        IN  Cardinality(replies) <= 1 /\ (u <= cursor => replies # {})

(* What the operator reads is what the outbox holds, and each of his commands
   has its one reply. *)
ChannelIsFaithful == PartsInOrder /\ OneReplyEach

(* "leave a bounded retry trail": no row waits for ever. *)
OutboxDrains ==
    \A m \in Messages : outbox[m].status = "PENDING" ~> outbox[m].status \in {"SENT", "FAILED"}
=============================================================================
