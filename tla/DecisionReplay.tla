--------------------------- MODULE DecisionReplay ---------------------------
(* The decision journal, the shadow portfolio and the replay experiments:
   RecordDecision, captureShadowCandidates, simulateShadowRow and
   RunDueReplayExperiments of the AutoGrid worker. One symbol and direction.
   A decision is the chain of gates it ran: RV with its number, then perhaps a
   later gate. Today's writers record one gate; the longer traces are those of
   the journal's schema and of the replay's tests. *)
EXTENDS Integers, Sequences, FiniteSets, SequencesExt

CONSTANTS
    MaxDecisions, MaxEpisodes,
    MaxExperiments,
    ReplayPasses,    \* goroutines of RunDueReplayExperiments: a new one may start beside an old one
    BatchSize,       \* replayBatchSize
    ReplayWorlds, ReplayBudget   \* the faults of a behaviour, and how many of them happen

ASSUME ReplayAssumption ==
    /\ MaxDecisions \in Nat /\ MaxEpisodes \in Nat /\ BatchSize \in Nat \ {0}
    /\ ReplayBudget \in Nat /\ MaxExperiments \in Nat

\* Rows of replay_runs, in the order of created_at.
Experiments == 1 .. MaxExperiments

VARIABLES
    replayWorld, replayLeft,
    episodes,   \* entry_episodes, oldest first: their disposition, or "lapsed" out of the window
    journal,    \* entry_decisions: the chain, the episode (0: unlinked), deleted by the retention
    shadows,    \* shadow_candidates in the order of captured_at
    runs,       \* replay_runs with their replay_run_items
    passes      \* the goroutines

replayVars == <<replayWorld, replayLeft, episodes, journal, shadows, runs, passes>>

ReplayFaulty(f) == f \in replayWorld /\ replayLeft > 0 /\ replayLeft' = replayLeft - 1

--------------------------------------------------------------------------
\* Chains, and the traces they leave.

\* replayThresholdRejects.
Rejects(value, threshold, direction) ==
    IF direction = "gte" THEN value >= threshold ELSE value <= threshold

(* rv: how RV came to its verdict; later: the verdict of the gate after it
   ("none": the trace ends with RV); stops: gates after a refusal are not run. *)
Chains ==
    [rv : {"judged"}, value : {1, 3}, direction : {"gte"}, later : {"PASS", "WAIT", "REJECT"}, stops : BOOLEAN]
    \union [rv : {"judged"}, value : {3}, direction : {"gte", "lte"}, later : {"none"}, stops : {TRUE}]
    \union [rv : {"exempt", "wordless", "undirected", "misread"}, value : {3}, direction : {"gte"},
            later : {"none"}, stops : {TRUE}]
Threshold == 2

Refused(c, t) == c.rv \in {"judged", "wordless", "undirected"} /\ Rejects(c.value, t, c.direction)
(* What the chain says when RV's threshold is t. *)
Verdict(c, t) ==
    CASE Refused(c, t) -> "REJECT"
      [] ~Refused(c, t) /\ c.later \in {"WAIT", "REJECT"} -> c.later
      [] OTHER -> "ALLOW"

(* The trace RecordDecision stores: RV's entry has the replay triple unless the
   gate wrote no inputs, and the gates after a refusal are NOT_EVALUATED. *)
Trace(c) ==
    LET rv == [gate |-> "RV", direction |-> IF c.rv = "undirected" THEN "" ELSE c.direction, value |-> c.value,
               threshold |-> Threshold, inputs |-> c.rv # "wordless",
               verdict |-> CASE c.rv = "exempt" -> "EXEMPT"
                             [] Refused(c, Threshold) -> "REJECT"
                             [] OTHER -> "PASS"]
        next == [gate |-> "LATER", direction |-> "", value |-> 0, threshold |-> 0, inputs |-> FALSE,
                 verdict |-> IF Refused(c, Threshold) /\ c.stops THEN "NOT_EVALUATED" ELSE c.later]
    IN  IF c.later = "none" THEN <<rv>> ELSE <<rv, next>>

Overrides == [gate : {""}, threshold : {0}] \union [gate : {"RV"}, threshold : 0 .. 4]
                 \union [gate : {"HURST"}, threshold : {1}]

--------------------------------------------------------------------------
\* The replay of one trace.

(* replayGateFacts: the triple a gate left, or why there is none. *)
GateFacts(e) ==
    CASE ~e.inputs -> "inputs_missing"
      [] e.inputs /\ e.threshold = 0 -> "threshold_not_stored"
      [] e.inputs /\ e.threshold # 0 /\ e.direction \notin {"gte", "lte"} -> "inputs_missing"
      [] OTHER -> "ok"

Item(verdict, said, followed) == [verdict |-> verdict, newOutcome |-> said, followed |-> followed]
NotReplayable == Item("NOT_REPLAYABLE", "", FALSE)

(* The run without an override: a triple that contradicts its own verdict is
   an inconsistent trace; an entry without one is no claim. *)
Validated(trace, base) ==
    IF trace = <<>> \/ \E i \in DOMAIN trace :
           /\ GateFacts(trace[i]) = "ok" /\ trace[i].verdict \in {"PASS", "REJECT"}
           /\ Rejects(trace[i].value, trace[i].threshold, trace[i].direction) # (trace[i].verdict = "REJECT")
    THEN NotReplayable ELSE Item("REPRODUCED", base, TRUE)

Remainder_Blind(rest) ==   \* a bug: a gate that was never run counts as passed
    LET said == {rest[i].verdict : i \in DOMAIN rest}
    IN  CASE rest = <<>> -> NotReplayable
          [] rest # <<>> /\ "REJECT" \in said -> Item("CHANGED", "REJECT", TRUE)
          [] OTHER -> Item("CHANGED", IF "WAIT" \in said THEN "WAIT" ELSE "ALLOW", TRUE)
(* A gate that passes now: what the rest of the recorded chain says. *)
Remainder(rest) ==
    LET said == {rest[i].verdict : i \in DOMAIN rest}
    IN  CASE rest = <<>> -> NotReplayable
          [] rest # <<>> /\ "REJECT" \in said -> Item("CHANGED", "REJECT", TRUE)
          [] rest # <<>> /\ "REJECT" \notin said /\ "NOT_EVALUATED" \in said -> Item("CHANGED", "", FALSE)
          [] OTHER -> Item("CHANGED", IF "WAIT" \in said THEN "WAIT" ELSE "ALLOW", TRUE)

ReplayTraceCore(trace, base, override) ==
    LET at == {i \in DOMAIN trace : trace[i].gate = override.gate}
        i == CHOOSE j \in at : \A k \in at : j <= k
        judged == at # {} /\ trace[i].verdict \notin {"EXEMPT", "NOT_EVALUATED"}
                    /\ GateFacts(trace[i]) = "ok" /\ override.threshold # 0
        refuses == Rejects(trace[i].value, override.threshold, trace[i].direction)
        refused == trace[i].verdict = "REJECT"
    IN  CASE override.gate = "" -> Validated(trace, base)
          [] override.gate # "" /\ ~judged -> NotReplayable
          [] override.gate # "" /\ judged /\ refuses = refused -> Item("REPRODUCED", base, TRUE)
          [] override.gate # "" /\ judged /\ refuses /\ ~refused -> Item("CHANGED", "REJECT", TRUE)
          [] OTHER -> Remainder(SubSeq(trace, i + 1, Len(trace)))

(* What an experiment makes of each chain: its own recorded outcome is the
   base. (Chosen as equal to itself, the table is evaluated once.) *)
Replayed ==
    CHOOSE table \in {[c \in Chains |->
                          [o \in Overrides |-> ReplayTraceCore(Trace(c), Verdict(c, Threshold), o)]]} :
        table = table

--------------------------------------------------------------------------
\* The journal and the shadow portfolio.

ReplayInit ==
    /\ replayWorld \in ReplayWorlds /\ replayLeft = ReplayBudget
    /\ episodes = <<>> /\ journal = <<>> /\ shadows = <<>>
    /\ runs = [r \in Experiments |-> [status |-> "none"]]
    /\ passes = [p \in ReplayPasses |-> [at |-> "idle"]]

(* ResolveEpisode, under an advisory lock of the pair: the open episode of the
   window, else a new one. *)
HasOpen == episodes # <<>> /\ Last(episodes) = "OPEN"
ResolveEpisode == IF HasOpen THEN episodes ELSE Append(episodes, "OPEN")

(* RecordDecision, best effort: the row is unlinked when the episode is not
   resolved, and lost when its own write fails, which leaves the episode. An
   ALLOW closes its episode. *)
RecordDecision(c) ==
    /\ Len(journal) < MaxDecisions /\ (HasOpen \/ Len(episodes) < MaxEpisodes)
    /\ LET found == ResolveEpisode
           base == Verdict(c, Threshold)
           row == [chain |-> c, base |-> base, episode |-> Len(found), kept |-> TRUE]
       IN  \/ /\ journal' = Append(journal, row)
              /\ episodes' = IF base = "ALLOW" THEN [found EXCEPT ![Len(found)] = "ALLOWED"] ELSE found
              /\ UNCHANGED replayLeft
           \/ /\ ReplayFaulty("journal")
              /\ \/ journal' = Append(journal, [row EXCEPT !.episode = 0]) /\ UNCHANGED episodes
                 \/ UNCHANGED journal /\ episodes' = found
    /\ UNCHANGED <<replayWorld, shadows, runs, passes>>
(* last_seen leaves the window of ResolveEpisode. *)
EpisodeLapses ==
    /\ HasOpen /\ episodes' = [episodes EXCEPT ![Len(episodes)] = "lapsed"]
    /\ UNCHANGED <<replayWorld, replayLeft, journal, shadows, runs, passes>>
(* The retention at the end of managePaperBots. *)
PruneJournal ==
    /\ ReplayFaulty("prune")
    /\ \E i \in DOMAIN journal :
         /\ journal[i].kept /\ \A j \in 1 .. i - 1 : ~journal[j].kept
         /\ journal' = [journal EXCEPT ![i].kept = FALSE]
    /\ UNCHANGED <<replayWorld, episodes, shadows, runs, passes>>

(* captureShadowCandidates of a round whose newest decision is a rejection: no
   second unsimulated row of the symbol, and the row takes its decision's episode. *)
CaptureShadow ==
    /\ journal # <<>> /\ Last(journal).base = "REJECT" /\ Last(journal).kept
    /\ \A s \in DOMAIN shadows : shadows[s].pos # "OPEN" /\ shadows[s].decision # Len(journal)
    /\ shadows' = Append(shadows, [decision |-> Len(journal), episode |-> Last(journal).episode,
                                   pos |-> "OPEN"])
    /\ UNCHANGED <<replayWorld, replayLeft, episodes, journal, runs, passes>>
(* simulateShadowRow of a row a day old: its virtual position has closed, or a
   failure that will not go away; a transient one leaves the row as it is. *)
SimulateShadow(s) ==
    /\ shadows[s].pos = "OPEN"
    /\ \/ shadows' = [shadows EXCEPT ![s].pos = "CLOSED"] /\ UNCHANGED replayLeft
       \/ shadows' = [shadows EXCEPT ![s].pos = "INVALIDATED"] /\ ReplayFaulty("permanent")
    /\ UNCHANGED <<replayWorld, episodes, journal, runs, passes>>

--------------------------------------------------------------------------
\* The experiments.

Unclaimed(override, window) ==
    [status |-> "QUEUED", lease |-> "none", items |-> <<>>, stats |-> <<>>,
     override |-> override, window |-> window, known |-> Len(journal)]
(* EnqueueReplayRun: the window ends now or within the next minute. *)
EnqueueReplayRun(r) ==
    /\ runs[r].status = "none" /\ \A q \in 1 .. r - 1 : runs[q].status # "none"
    /\ \E o \in Overrides, window \in {Len(journal), Len(journal) + 1} :
         runs' = [runs EXCEPT ![r] = Unclaimed(o, window)]
    /\ UNCHANGED <<replayWorld, replayLeft, episodes, journal, shadows, passes>>

RunClaimable_Queued(r) == runs[r].status = "QUEUED"   \* a bug: a lapsed lease is not taken over
RunClaimable(r) == runs[r].status = "QUEUED" \/ (runs[r].status = "RUNNING" /\ runs[r].lease = "lapsed")
(* claimReplayRun: the oldest run that is queued or whose lease has lapsed. *)
ClaimReplayRun(p) ==
    /\ passes[p].at = "idle"
    /\ \E r \in Experiments :
         /\ RunClaimable(r) /\ \A q \in 1 .. r - 1 : ~RunClaimable(q)
         /\ runs' = [runs EXCEPT ![r].status = "RUNNING", ![r].lease = "live"]
         /\ passes' = [passes EXCEPT ![p] = [at |-> "batch", run |-> r]]
    /\ UNCHANGED <<replayWorld, replayLeft, episodes, journal, shadows>>

\* The decisions of the window that have no item in this run.
Unjudged(r) ==
    {i \in DOMAIN journal : /\ i <= runs[r].window /\ journal[i].kept
                            /\ \A k \in DOMAIN runs[r].items : runs[r].items[k].decision # i}

Admits(said) == IF said = "ALLOW" THEN 1 ELSE 0
\* attachEpisodeOutcomes: a closed row of the episode has an outcome.
HasOutcome(e) == e # 0 /\ \E s \in DOMAIN shadows : shadows[s].episode = e /\ shadows[s].pos = "CLOSED"
ComputeReplayItem(r, i) ==
    LET d == journal[i]
        item == Replayed[d.chain][runs[r].override]
        diff == IF item.verdict = "NOT_REPLAYABLE" THEN 0 ELSE Admits(item.newOutcome) - Admits(d.base)
    IN  [verdict |-> item.verdict, newOutcome |-> item.newOutcome, followed |-> item.followed,
         decision |-> i, effect |-> diff # 0 /\ HasOutcome(d.episode)]

\* The oldest of them, oldest first.
Nth(some, n) == CHOOSE i \in some : Cardinality({j \in some : j <= i}) = n
NextBatch(r) ==
    LET many == Cardinality(Unjudged(r))
    IN  [n \in 1 .. (IF many < BatchSize THEN many ELSE BatchSize) |-> Nth(Unjudged(r), n)]

(* processReplayRun takes a batch: the lease is refreshed, the oldest unjudged
   decisions are computed and their episodes' outcomes read. *)
TakeBatch(p) ==
    /\ passes[p].at = "batch"
    /\ \E r \in {passes[p].run}, some \in {NextBatch(passes[p].run)} :
           IF runs[r].status # "RUNNING"
           THEN passes' = [passes EXCEPT ![p] = [at |-> "idle"]] /\ UNCHANGED runs
           ELSE /\ runs' = [runs EXCEPT ![r].lease = "live"]
                /\ passes' = [passes EXCEPT ![p] =
                     IF some = <<>> THEN [at |-> "count", run |-> r]
                     ELSE [at |-> "insert", run |-> r,
                           items |-> [k \in DOMAIN some |-> ComputeReplayItem(r, some[k])]]]
    /\ UNCHANGED <<replayWorld, replayLeft, episodes, journal, shadows>>

(* insertReplayItems, one transaction; a partial batch is the last one. *)
InsertItems(p) ==
    /\ passes[p].at = "insert"
    /\ LET r == passes[p].run IN
         /\ runs' = [runs EXCEPT ![r].items = @ \o passes[p].items]
         /\ passes' = [passes EXCEPT ![p] =
              [at |-> IF Len(passes[p].items) < BatchSize THEN "count" ELSE "batch", run |-> r]]
    /\ UNCHANGED <<replayWorld, replayLeft, episodes, journal, shadows>>

Ended(run, status, stats) == [run EXCEPT !.status = status, !.lease = "none", !.stats = stats]
(* A statement that fails makes the run FAILED, if that write gets through. *)
FailReplayRun(p) ==
    /\ passes[p].at # "idle" /\ ReplayFaulty("write")
    /\ LET r == passes[p].run IN
         \/ passes[p].at # "finish" /\ runs' = [runs EXCEPT ![r] = Ended(@, "FAILED", <<>>)]
         \/ UNCHANGED runs
    /\ passes' = [passes EXCEPT ![p] = [at |-> "idle"]]
    /\ UNCHANGED <<replayWorld, episodes, journal, shadows>>

(* finalizeReplayRunStats: an episode counts with its first item only; an item
   whose decision is unlinked, or is no longer there, counts for itself. *)
Represents(items, k) ==
    LET key(j) == IF journal[items[j].decision].kept THEN journal[items[j].decision].episode ELSE 0
        same(j) == IF key(j) = 0 THEN key(k) = 0 /\ items[j].decision = items[k].decision
                   ELSE key(j) = key(k)
    IN  \A j \in 1 .. k - 1 : ~same(j)
CountItems(p) ==
    /\ passes[p].at = "count"
    /\ LET r == passes[p].run
           items == runs[r].items
           counted == {k \in DOMAIN items : items[k].effect /\ Represents(items, k)}
       IN  passes' = [passes EXCEPT ![p] =
             [at |-> "finish", run |-> r,
              stats |-> <<Len(items), Cardinality(counted)>>]]
    /\ UNCHANGED <<replayWorld, replayLeft, episodes, journal, shadows, runs>>
FinishReplayRun(p) ==
    /\ passes[p].at = "finish"
    /\ runs' = [runs EXCEPT ![passes[p].run] = Ended(@, "DONE", passes[p].stats)]
    /\ passes' = [passes EXCEPT ![p] = [at |-> "idle"]]
    /\ UNCHANGED <<replayWorld, replayLeft, episodes, journal, shadows>>

(* The pass's fifteen minutes are over, or its process ends. *)
AbandonPass(p) ==
    /\ passes[p].at # "idle" /\ ReplayFaulty("abandon")
    /\ passes' = [passes EXCEPT ![p] = [at |-> "idle"]]
    /\ UNCHANGED <<replayWorld, episodes, journal, shadows, runs>>
(* Ten minutes after the last refresh: under a pass that still works on the
   run only when that pass has stalled. *)
LeaseLapses(r) ==
    /\ runs[r].status = "RUNNING" /\ runs[r].lease = "live"
    /\ IF \E p \in ReplayPasses : passes[p].at # "idle" /\ passes[p].run = r
       THEN ReplayFaulty("stall") ELSE UNCHANGED replayLeft
    /\ runs' = [runs EXCEPT ![r].lease = "lapsed"]
    /\ UNCHANGED <<replayWorld, episodes, journal, shadows, passes>>

ReplayStep(p) == ClaimReplayRun(p) \/ TakeBatch(p) \/ InsertItems(p) \/ CountItems(p) \/ FinishReplayRun(p)

ReplayNext ==
    \/ \E c \in Chains : RecordDecision(c)
    \/ EpisodeLapses \/ PruneJournal \/ CaptureShadow
    \/ \E s \in DOMAIN shadows : SimulateShadow(s)
    \/ \E r \in Experiments : EnqueueReplayRun(r) \/ LeaseLapses(r)
    \/ \E p \in ReplayPasses : ReplayStep(p) \/ FailReplayRun(p) \/ AbandonPass(p)

(* The worker's loop starts passes, and a lease that nobody refreshes lapses. *)
ReplaySpec ==
    /\ ReplayInit /\ [][ReplayNext]_replayVars
    /\ WF_replayVars(\E p \in ReplayPasses : ReplayStep(p))
    /\ WF_replayVars(\E r \in Experiments : LeaseLapses(r))

--------------------------------------------------------------------------
\* Properties.

(* The values the code can write. *)
ReplayTypeOK ==
    /\ replayWorld \in ReplayWorlds /\ replayLeft \in 0 .. ReplayBudget
    /\ Len(episodes) <= MaxEpisodes /\ \A e \in DOMAIN episodes : episodes[e] \in {"OPEN", "ALLOWED", "lapsed"}
    /\ Len(journal) <= MaxDecisions
    /\ \A i \in DOMAIN journal : journal[i].chain \in Chains /\ journal[i].episode \in 0 .. Len(episodes)
    /\ Cardinality({s \in DOMAIN shadows : shadows[s].pos = "OPEN"}) <= 1
    /\ \A r \in Experiments : runs[r].status \in {"none", "QUEUED", "RUNNING", "DONE", "FAILED"}
    /\ \A p \in ReplayPasses : passes[p].at \in {"idle", "batch", "insert", "count", "finish"}

(* An outcome the replay claims to have followed is the one the chain would
   have reached with the override: "re-playability is honest by construction". *)
ReplayIsSound ==
    \A r \in Experiments : runs[r].status # "none" => \A k \in DOMAIN runs[r].items :
        LET item == runs[r].items[k]
            d == journal[item.decision]
            o == runs[r].override
        IN  /\ item.verdict = "REPRODUCED" => item.newOutcome = d.base
            /\ item.followed /\ o.gate = "RV" /\ d.chain.rv = "judged"
                   => item.newOutcome = Verdict(d.chain, o.threshold)

(* "items are skipped via NOT EXISTS - no duplicates, no double counts": a run
   that ends DONE has one item for each decision it was asked about, whatever
   passes it took, unless a pass stalls longer than its lease; and an episode's
   outcome is counted once, unless the retention takes its decisions away. *)
RunIsWhole ==
    \A r \in Experiments : runs[r].status = "DONE" =>
        LET items == runs[r].items
            judged == {items[k].decision : k \in DOMAIN items}
            told == {shadows[s].episode : s \in {t \in DOMAIN shadows : shadows[t].pos = "CLOSED"}}
        IN  /\ {i \in 1 .. runs[r].known : journal[i].kept} \subseteq judged
            /\ "stall" \notin replayWorld => runs[r].stats[1] = Cardinality(judged)
            /\ "prune" \notin replayWorld => runs[r].stats[2] <= Cardinality(told \ {0})

ReplayIsExact == ReplayIsSound /\ RunIsWhole

(* A queued experiment ends, although its passes are abandoned. *)
ExperimentEnds ==
    \A r \in Experiments : (runs[r].status = "QUEUED") ~> (runs[r].status \in {"DONE", "FAILED"})
=============================================================================
