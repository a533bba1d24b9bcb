----------------------------- MODULE PlatformProofs -----------------------------
(***************************************************************************)
(* Proofs about the platform's two shared gates, RiskGate (what a fleet of *)
(* grids may hold, and who may change the limits) and MarketScan (which    *)
(* symbols of the market become candidates), and about PaperBook (what a   *)
(* paper grid's row says it has earned); and about the values of all of    *)
(* MCPlatform.                                                             *)
(*                                                                         *)
(* Sums are folds over finite sets and proofs by induction over the data   *)
(* are out of reach: what is said of a sum is shown for the smallest       *)
(* subset that would break it.                                             *)
(***************************************************************************)
EXTENDS MCPlatform, FiniteSetTheorems, WellFoundedInduction, TLAPS

--------------------------------------------------------------------------
(* Sums over finite sets: SumOver is a fold, whose order nothing fixes. *)

LEMMA LeastOne ==
    ASSUME NEW S, S \subseteq Nat, S # {}
    PROVE  \E i \in S : \A j \in S : i <= j
<1>1. \E i \in S : \A j \in S : ~(<<j, i>> \in OpToRel(<, Nat))
  BY NatLessThanWellFounded, WFMin
<1>2. \A i, j \in S : ~(<<j, i>> \in OpToRel(<, Nat)) => i <= j
  BY DEF OpToRel
<1> QED BY <1>1, <1>2

(* The fold's table over the subsets of among, as its definition builds it. *)
Summed(table, amount, s) ==
    IF s = {} THEN 0
    ELSE amount[CHOOSE x \in s : TRUE] + table[s \ {CHOOSE x \in s : TRUE}]
Builds(table, among, amount) == table = [s \in SUBSET among |-> Summed(table, amount, s)]

LEMMA SumIsTable ==
    ASSUME NEW among, NEW amount
    PROVE  SumOver(among, amount) = (CHOOSE table : Builds(table, among, amount))[among]
  BY DEF SumOver, FoldFunctionOnSet, MapThenFoldSet, Builds, Summed

LEMMA Chosen == ASSUME NEW s, s # {} PROVE (CHOOSE x \in s : TRUE) \in s
  OBVIOUS

LEMMA TableExists ==
    ASSUME NEW among, IsFiniteSet(among), NEW amount
    PROVE  \E table : Builds(table, among, amount)
<1> DEFINE Small(n) == {s \in SUBSET among : Cardinality(s) <= n}
           Partial(n) == \E table : table = [s \in Small(n) |-> Summed(table, amount, s)]
           bad == {n \in Nat : ~Partial(n)}
<1>1. \A s \in SUBSET among : IsFiniteSet(s) /\ Cardinality(s) \in Nat
  BY FS_Subset, FS_CardinalityType
<1>2. Partial(0)
  <2> DEFINE table == [s \in Small(0) |-> 0]
  <2>1. \A s \in Small(0) : s = {}
    BY <1>1, FS_EmptySet
  <2>2. table = [s \in Small(0) |-> Summed(table, amount, s)]
    BY <2>1 DEF Summed
  <2> QED BY <2>2
<1>3. ASSUME NEW n \in Nat, Partial(n) PROVE Partial(n + 1)
  <2>1. PICK table : table = [s \in Small(n) |-> Summed(table, amount, s)]
    BY <1>3
  <2> DEFINE more == [s \in Small(n + 1) |-> Summed(table, amount, s)]
  <2>2. \A s \in Small(n) : s \in Small(n + 1) /\ more[s] = table[s]
    <3> SUFFICES ASSUME NEW s \in Small(n) PROVE s \in Small(n + 1) /\ more[s] = table[s]
      OBVIOUS
    <3>1. s \in Small(n + 1)
      BY <1>1
    <3>2. table[s] = Summed(table, amount, s)
      BY <2>1
    <3> HIDE DEF Small
    <3> QED BY <3>1, <3>2
  <2>3. ASSUME NEW s \in Small(n + 1), s # {} PROVE s \ {CHOOSE x \in s : TRUE} \in Small(n)
    <3> DEFINE c == CHOOSE x \in s : TRUE
    <3>1. c \in s
      BY <2>3, Chosen
    <3> HIDE DEF c
    <3>2. Cardinality(s \ {c}) = Cardinality(s) - 1
      BY <1>1, <3>1, FS_RemoveElement
    <3>3. s \ {c} \in Small(n)
      BY <1>1, <3>2
    <3> QED BY <3>3 DEF c
  <2>4. \A s \in Small(n + 1) : Summed(table, amount, s) = Summed(more, amount, s)
    <3> HIDE DEF Small, more
    <3> QED BY <2>2, <2>3 DEF Summed
  <2>5. more = [s \in Small(n + 1) |-> Summed(more, amount, s)]
    <3> HIDE DEF Small
    <3> QED BY <2>4
  <2> QED BY <2>5
<1>4. bad = {}
  <2> SUFFICES ASSUME bad # {} PROVE FALSE
    OBVIOUS
  <2>1. PICK n \in bad : \A m \in bad : n <= m
    <3>1. bad \subseteq Nat
      OBVIOUS
    <3> HIDE DEF bad
    <3> QED BY <3>1, LeastOne
  <2>2. n # 0
    <3> HIDE DEF Partial
    <3> QED BY <1>2
  <2>3. n - 1 \in Nat /\ n - 1 \notin bad
    <3>1. n \in Nat
      OBVIOUS
    <3>2. n - 1 \in Nat /\ ~(n <= n - 1)
      BY <2>2, <3>1
    <3> HIDE DEF bad
    <3> QED BY <2>1, <3>2
  <2>4. Partial(n)
    <3> HIDE DEF Partial
    <3>1. Partial(n - 1)
      BY <2>3
    <3>2. Partial(n - 1 + 1)
      BY <1>3, <2>3, <3>1
    <3>3. n - 1 + 1 = n
      OBVIOUS
    <3> QED BY <3>2, <3>3
  <2> HIDE DEF Partial
  <2> QED BY <2>4
<1>5. Partial(Cardinality(among))
  <2> HIDE DEF Partial
  <2> QED BY <1>1, <1>4
<1>6. Small(Cardinality(among)) = SUBSET among
  BY FS_Subset
<1>7. PICK table : table = [s \in Small(Cardinality(among)) |-> Summed(table, amount, s)]
  BY <1>5
<1> HIDE DEF Small
<1> QED BY <1>6, <1>7 DEF Builds

LEMMA TablesAgree ==
    ASSUME NEW among, IsFiniteSet(among), NEW less \in SUBSET among, NEW amount,
           NEW t, Builds(t, among, amount), NEW u, Builds(u, less, amount)
    PROVE  \A s \in SUBSET less : t[s] = u[s]
<1> DEFINE bad == {n \in Nat : \E s \in SUBSET less : Cardinality(s) = n /\ t[s] # u[s]}
<1>1. \A s \in SUBSET less : IsFiniteSet(s) /\ Cardinality(s) \in Nat /\ s \in SUBSET among
  BY FS_Subset, FS_CardinalityType
<1>2. SUFFICES ASSUME bad # {} PROVE FALSE
  <2>1. bad = {}
    BY <1>2
  <2> QED BY <1>1, <2>1
<1>3. PICK n \in bad : \A m \in bad : n <= m
  <2>1. bad \subseteq Nat
    OBVIOUS
  <2> HIDE DEF bad
  <2> QED BY <1>2, <2>1, LeastOne
<1>4. PICK s \in SUBSET less : Cardinality(s) = n /\ t[s] # u[s]
  OBVIOUS
<1>5. t[s] = Summed(t, amount, s) /\ u[s] = Summed(u, amount, s)
  BY <1>1 DEF Builds
<1>6. s # {}
  BY <1>4, <1>5 DEF Summed
<1> DEFINE c == CHOOSE x \in s : TRUE
<1>7. c \in s
  BY <1>6, Chosen
<1>8. t[s \ {c}] # u[s \ {c}]
  BY <1>4, <1>5, <1>6 DEF Summed
<1> HIDE DEF c
<1>9. Cardinality(s \ {c}) = n - 1 /\ n - 1 \in Nat
  <2>1. IsFiniteSet(s) /\ IsFiniteSet(s \ {c}) /\ Cardinality(s \ {c}) \in Nat
    BY <1>1, FS_RemoveElement, FS_CardinalityType
  <2>2. Cardinality(s \ {c}) = Cardinality(s) - 1
    BY <1>7, <2>1, FS_RemoveElement
  <2> QED BY <1>4, <2>1, <2>2
<1>10. s \ {c} \in SUBSET less
  OBVIOUS
<1>11. n - 1 \in bad
  BY <1>8, <1>9, <1>10
<1>12. n \in Nat
  OBVIOUS
<1> HIDE DEF bad
<1> QED BY <1>3, <1>11, <1>12

LEMMA SumUnfolds ==
    ASSUME NEW among, IsFiniteSet(among), NEW amount
    PROVE  /\ among = {} => SumOver(among, amount) = 0
           /\ among # {} => SumOver(among, amount) =
                 amount[CHOOSE x \in among : TRUE]
                   + SumOver(among \ {CHOOSE x \in among : TRUE}, amount)
<1> DEFINE less == among \ {CHOOSE x \in among : TRUE}
           t == CHOOSE table : Builds(table, among, amount)
           u == CHOOSE table : Builds(table, less, amount)
<1>1. less \in SUBSET among /\ IsFiniteSet(less)
  BY FS_Subset
<1>2. Builds(t, among, amount)
  BY TableExists
<1>3. Builds(u, less, amount)
  <2> HIDE DEF less
  <2>1. \E table : Builds(table, less, amount)
    BY <1>1, TableExists
  <2> QED BY <2>1
<1>4. SumOver(among, amount) = t[among] /\ SumOver(less, amount) = u[less]
  BY SumIsTable
<1> HIDE DEF t, u
<1>5. t[among] = Summed(t, amount, among)
  BY <1>2 DEF Builds
<1>6. t[less] = u[less]
  <2> HIDE DEF less
  <2> QED BY <1>1, <1>2, <1>3, TablesAgree
<1> QED BY <1>4, <1>5, <1>6 DEF Summed

(* What is stated below of one set is shown for the smallest of its subsets
   that would break it. *)
LEMMA Smallest ==
    ASSUME NEW among, IsFiniteSet(among), NEW broken, broken \subseteq SUBSET among, broken # {}
    PROVE  \E s \in broken : \A t \in SUBSET s : t # s => t \notin broken
<1> DEFINE sizes == {n \in Nat : \E s \in broken : Cardinality(s) = n}
<1>1. \A s \in broken : IsFiniteSet(s) /\ Cardinality(s) \in Nat
  BY FS_Subset, FS_CardinalityType
<1>2. sizes \subseteq Nat /\ sizes # {}
  BY <1>1
<1>3. PICK n \in sizes : \A m \in sizes : n <= m
  <2> HIDE DEF sizes
  <2> QED BY <1>2, LeastOne
<1>4. PICK s \in broken : Cardinality(s) = n
  OBVIOUS
<1>5. ASSUME NEW t \in SUBSET s, t # s, t \in broken PROVE FALSE
  <2>1. Cardinality(t) <= Cardinality(s) /\ Cardinality(t) # Cardinality(s)
    BY <1>1, <1>5, FS_Subset
  <2>2. Cardinality(t) \in sizes /\ Cardinality(t) \in Nat /\ n \in Nat
    BY <1>1, <1>5
  <2> HIDE DEF sizes
  <2> QED BY <1>3, <1>4, <2>1, <2>2
<1> QED BY <1>5

LEMMA SumIsNat ==
    ASSUME NEW D, NEW amount \in [D -> Nat], NEW among \in SUBSET D, IsFiniteSet(among)
    PROVE  SumOver(among, amount) \in Nat
<1> DEFINE broken == {s \in SUBSET among : SumOver(s, amount) \notin Nat}
<1>1. SUFFICES ASSUME broken # {} PROVE FALSE
  OBVIOUS
<1>2. PICK s \in broken : \A t \in SUBSET s : t # s => t \notin broken
  <2>1. broken \subseteq SUBSET among
    OBVIOUS
  <2> HIDE DEF broken
  <2> QED BY <1>1, <2>1, Smallest
<1> DEFINE c == CHOOSE x \in s : TRUE
<1>3. IsFiniteSet(s)
  BY FS_Subset
<1>4. s # {} /\ SumOver(s, amount) = amount[c] + SumOver(s \ {c}, amount)
  BY <1>3, SumUnfolds
<1>5. c \in s
  BY <1>4, Chosen
<1> HIDE DEF c
<1>6. SumOver(s \ {c}, amount) \in Nat
  BY <1>2, <1>5
<1>7. amount[c] \in Nat
  BY <1>5
<1> QED BY <1>4, <1>6, <1>7

LEMMA SumTakes ==
    ASSUME NEW D, NEW amount \in [D -> Nat], NEW among \in SUBSET D, IsFiniteSet(among), NEW x \in among
    PROVE  SumOver(among, amount) = amount[x] + SumOver(among \ {x}, amount)
<1> DEFINE Broken(s, e) == SumOver(s, amount) # amount[e] + SumOver(s \ {e}, amount)
           broken == {s \in SUBSET among : \E e \in s : Broken(s, e)}
<1>1. SUFFICES ASSUME broken # {} PROVE FALSE
  OBVIOUS
<1>2. PICK s \in broken : \A t \in SUBSET s : t # s => t \notin broken
  <2>1. broken \subseteq SUBSET among
    OBVIOUS
  <2> HIDE DEF broken
  <2> QED BY <1>1, <2>1, Smallest
<1>3. PICK e \in s : Broken(s, e)
  OBVIOUS
<1> DEFINE c == CHOOSE r \in s : TRUE
<1>4. IsFiniteSet(s) /\ s \in SUBSET D
  BY FS_Subset
<1>5. SumOver(s, amount) = amount[c] + SumOver(s \ {c}, amount)
  BY <1>4, SumUnfolds
<1>6. c \in s
  BY Chosen
<1> HIDE DEF c
<1>7. c # e
  BY <1>3, <1>5
<1>8. ASSUME NEW a \in s, NEW b \in s, a # b
      PROVE  SumOver(s \ {a}, amount) = amount[b] + SumOver((s \ {a}) \ {b}, amount)
  <2>1. s \ {a} \in SUBSET s /\ s \ {a} # s /\ b \in s \ {a} /\ s \ {a} \in SUBSET among
    BY <1>8
  <2>2. s \ {a} \notin broken
    BY <1>2, <2>1
  <2> QED BY <2>1, <2>2
<1>9. (s \ {c}) \ {e} = (s \ {e}) \ {c}
  OBVIOUS
<1> DEFINE rest == SumOver((s \ {c}) \ {e}, amount)
<1>10. /\ SumOver(s \ {c}, amount) = amount[e] + rest
       /\ SumOver(s \ {e}, amount) = amount[c] + rest
  BY <1>6, <1>7, <1>8, <1>9
<1>11. rest \in Nat /\ amount[c] \in Nat /\ amount[e] \in Nat
  BY <1>4, <1>6, FS_Subset, SumIsNat
<1> HIDE DEF rest
<1>12. SumOver(s, amount) = amount[e] + SumOver(s \ {e}, amount)
  BY <1>5, <1>10, <1>11
<1> QED BY <1>3, <1>12

(* A sum over fewer among of smaller amounts is not larger. *)
LEMMA SumMonotone ==
    ASSUME NEW D, NEW among \in SUBSET D, IsFiniteSet(among), NEW less \in SUBSET among,
           NEW f \in [D -> Nat], NEW g \in [D -> Nat], \A x \in less : f[x] <= g[x]
    PROVE  SumOver(less, f) <= SumOver(among, g)
<1> DEFINE Broken(s, t) == ~(SumOver(t, f) <= SumOver(s, g))
           broken == {s \in SUBSET among : \E t \in SUBSET (s \cap less) : Broken(s, t)}
<1>1. SUFFICES ASSUME broken # {} PROVE FALSE
  <2>1. broken = {}
    BY <1>1
  <2> QED BY <2>1
<1>2. PICK s \in broken : \A t \in SUBSET s : t # s => t \notin broken
  <2>1. broken \subseteq SUBSET among
    OBVIOUS
  <2> HIDE DEF broken
  <2> QED BY <1>1, <2>1, Smallest
<1>3. PICK t \in SUBSET (s \cap less) : Broken(s, t)
  OBVIOUS
<1>4. IsFiniteSet(s) /\ IsFiniteSet(t) /\ s \in SUBSET D /\ t \in SUBSET D
  BY FS_Subset
<1>5. s # {}
  <2>1. SUFFICES ASSUME s = {} PROVE FALSE
    OBVIOUS
  <2>2. t = {}
    BY <2>1
  <2>3. SumOver(s, g) = 0 /\ SumOver(t, f) = 0
    BY <1>4, <2>1, <2>2, SumUnfolds
  <2> QED BY <1>3, <2>3
<1>6. PICK x \in s : TRUE
  BY <1>5
<1>7. SumOver(s, g) = g[x] + SumOver(s \ {x}, g)
  BY <1>4, SumTakes
<1>8. /\ SumOver(s \ {x}, g) \in Nat /\ SumOver(t, f) \in Nat /\ SumOver(t \ {x}, f) \in Nat
      /\ g[x] \in Nat /\ f[x] \in Nat
  <2>1. IsFiniteSet(s \ {x}) /\ IsFiniteSet(t \ {x})
    BY <1>4, FS_RemoveElement
  <2> QED BY <1>4, <2>1, SumIsNat
<1>9. SumOver(t \ {x}, f) <= SumOver(s \ {x}, g)
  <2>1. s \ {x} \in SUBSET among /\ s \ {x} \in SUBSET s /\ s \ {x} # s
        /\ t \ {x} \in SUBSET ((s \ {x}) \cap less)
    OBVIOUS
  <2>2. s \ {x} \notin broken
    BY <1>2, <2>1
  <2> QED BY <2>1, <2>2
<1>10. CASE x \in t
  <2>1. SumOver(t, f) = f[x] + SumOver(t \ {x}, f) /\ f[x] <= g[x]
    BY <1>4, <1>10, SumTakes
  <2> QED BY <1>3, <1>7, <1>8, <1>9, <2>1
<1>11. CASE x \notin t
  <2>1. t \ {x} = t
    BY <1>11
  <2> QED BY <1>3, <1>7, <1>8, <1>9, <2>1
<1> QED BY <1>10, <1>11

--------------------------------------------------------------------------
(* RiskGate: what an entry was measured against still holds when it commits. *)

Planned == {"look", "lock_symbol", "lock_fleet", "read_policy", "read_grids", "insert"}
Locked == {"read_policy", "read_grids", "insert"}
PlanJobs == [at : Planned, plan : Plans, limits : Policies]

OpenIn(states, grids, fleet) == {r \in Rows : states[r] = "open" /\ grids[r].fleet = fleet}
OpenOnIn(states, grids, fleet, symbol) ==
    {r \in OpenIn(states, grids, fleet) : grids[r].symbol = symbol}
Worth(grids) == [r \in Rows |-> grids[r].invest * grids[r].leverage]
BotsFit(states, grids, limits, p) ==
    LET n == Cardinality(OpenIn(states, grids, p.fleet))
    IN  n < limits.bots /\ (p.fleet = "REAL" /\ limits.positions > 0 => n < limits.positions)
WorthFits(states, grids, limits, p) ==
    /\ SumOver(OpenIn(states, grids, p.fleet), Worth(grids)) + p.invest * p.leverage <= limits.account
    /\ SumOver(OpenOnIn(states, grids, p.fleet, p.symbol), Worth(grids))
         + p.invest * p.leverage <= limits.symbol

(* A deployer that has read the limits under its fleet's lock keeps the lock,
   and room for its grid, until it is done. *)
HasLock(j, d, lock) == j.at \in Locked => lock[j.plan.fleet] = d
KeepsRoom(j, states, grids) ==
    j.at = "insert" => /\ BotsFit(states, grids, j.limits, j.plan)
                       /\ WorthFits(states, grids, j.limits, j.plan)
GridsAre(states, grids, amounts) ==
    /\ states \in [Rows -> {"new", "open", "closed"}] /\ grids \in [Rows -> Plans]
    /\ amounts \in [Rows -> Nat] /\ IsFiniteSet({r \in Rows : states[r] # "new"})

(* A form that is as new as the row shows the row's own switch. *)
FormIsKnown(f, row, armed) ==
    f # NoForm => f.version <= row /\ (f.version = row => f.kill = armed)

SettingsAre ==
    /\ kill \in BOOLEAN /\ policy \in Policies /\ breaker \in Breakers /\ version \in Nat
WorkIs ==
    /\ top \in [Pourers -> TopUps] /\ form \in [Forms -> Loaded \cup {NoForm}]
    /\ derive \in {"idle", "write"}
LocksAre ==
    /\ fleetLock \in [Fleets -> Deployers \cup {Nobody}]
    /\ symbolLock \in [Symbols -> Deployers \cup {Nobody}]
FormsAreKnown == \A f \in Forms : FormIsKnown(form[f], version, kill)
EntriesAre ==
    /\ job \in [Deployers -> Jobs]
    /\ \A d \in Deployers : HasLock(job[d], d, fleetLock) /\ KeepsRoom(job[d], state, grid)
RiskInv ==
    /\ SettingsAre /\ WorkIs /\ LocksAre /\ FormsAreKnown
    /\ GridsAre(state, grid, poured) /\ EntriesAre

LEMMA JobIs ==
    ASSUME NEW j \in Jobs
    PROVE  /\ j.at \in Planned => j \in PlanJobs
           /\ j.at = "send" => j.row \in Rows
           /\ j.at \in {"idle", "send"} \cup Planned
  BY DEF Jobs, Idle, Planned, PlanJobs

LEMMA PlanIs ==
    ASSUME RiskAssumption, NEW p \in Plans
    PROVE  /\ p.fleet \in Fleets /\ p.symbol \in Symbols /\ p.leverage \in Nat /\ p.invest \in Nat
           /\ p.invest * p.leverage \in Nat
<1>1. p.fleet \in Fleets /\ p.symbol \in Symbols /\ p.leverage \in Nat /\ p.invest \in Nat
  BY DEF RiskAssumption
<1>2. \A a, b \in Nat : a * b \in Nat
  OBVIOUS
<1> QED BY <1>1, <1>2

LEMMA PolicyIs ==
    ASSUME RiskAssumption, NEW limits \in Policies
    PROVE  {limits.account, limits.symbol, limits.leverage, limits.bots, limits.positions} \subseteq Nat
<1>1. limits \in [LimitNames -> Nat]
  BY DEF RiskAssumption
<1> QED BY <1>1 DEF LimitNames

LEMMA WorthIs ==
    ASSUME RiskAssumption, NEW grids \in [Rows -> Plans]
    PROVE  Worth(grids) \in [Rows -> Nat]
  BY PlanIs DEF Worth

LEMMA OpenIsFinite ==
    ASSUME NEW states, NEW grids, NEW amounts, GridsAre(states, grids, amounts), NEW fleet, NEW symbol
    PROVE  /\ OpenIn(states, grids, fleet) \in SUBSET Rows
           /\ IsFiniteSet(OpenIn(states, grids, fleet))
           /\ OpenOnIn(states, grids, fleet, symbol) \in SUBSET OpenIn(states, grids, fleet)
           /\ IsFiniteSet(OpenOnIn(states, grids, fleet, symbol))
<1>1. OpenIn(states, grids, fleet) \in SUBSET {r \in Rows : states[r] # "new"}
  BY DEF OpenIn
<1>2. OpenOnIn(states, grids, fleet, symbol) \in SUBSET OpenIn(states, grids, fleet)
  BY DEF OpenOnIn
<1>3. IsFiniteSet(OpenIn(states, grids, fleet))
  BY <1>1, FS_Subset DEF GridsAre
<1> QED BY <1>1, <1>2, <1>3, FS_Subset DEF OpenIn

(* Room is not lost while the fleet has no other among than it had. *)
LEMMA RoomIsKept ==
    ASSUME RiskAssumption,
           NEW states, NEW grids, NEW amounts, GridsAre(states, grids, amounts),
           NEW states2, NEW grids2, NEW amounts2, GridsAre(states2, grids2, amounts2),
           NEW j \in Jobs, KeepsRoom(j, states, grids),
           j.at = "insert" =>
             \A r \in OpenIn(states2, grids2, j.plan.fleet) :
               r \in OpenIn(states, grids, j.plan.fleet) /\ grids2[r] = grids[r]
    PROVE  KeepsRoom(j, states2, grids2)
<1> SUFFICES ASSUME j.at = "insert"
             PROVE  /\ BotsFit(states2, grids2, j.limits, j.plan)
                    /\ WorthFits(states2, grids2, j.limits, j.plan)
  BY DEF KeepsRoom
<1> DEFINE p == j.plan   limits == j.limits
           open == OpenIn(states, grids, p.fleet)
           open2 == OpenIn(states2, grids2, p.fleet)
           on == OpenOnIn(states, grids, p.fleet, p.symbol)
           on2 == OpenOnIn(states2, grids2, p.fleet, p.symbol)
<1>1. p \in Plans /\ limits \in Policies
  BY JobIs DEF Planned, PlanJobs
<1>2. BotsFit(states, grids, limits, p) /\ WorthFits(states, grids, limits, p)
  BY DEF KeepsRoom
<1>3. open2 \in SUBSET open /\ \A r \in open2 : grids2[r] = grids[r]
  OBVIOUS
<1>4. on2 \in SUBSET on
  BY <1>3 DEF OpenOnIn
<1>5. /\ IsFiniteSet(open) /\ open \in SUBSET Rows /\ IsFiniteSet(open2) /\ open2 \in SUBSET Rows
      /\ IsFiniteSet(on) /\ on \in SUBSET Rows /\ IsFiniteSet(on2) /\ on2 \in SUBSET Rows
      /\ on2 \in SUBSET open2
  BY OpenIsFinite
<1>6. Worth(grids) \in [Rows -> Nat] /\ Worth(grids2) \in [Rows -> Nat]
  BY WorthIs DEF GridsAre
<1>7. \A r \in open2 : Worth(grids2)[r] = Worth(grids)[r] /\ Worth(grids)[r] \in Nat
  BY <1>3, <1>5, <1>6 DEF Worth
<1>8. /\ SumOver(open2, Worth(grids2)) <= SumOver(open, Worth(grids))
      /\ SumOver(on2, Worth(grids2)) <= SumOver(on, Worth(grids))
  <2> HIDE DEF open, open2, on, on2
  <2>1. \A r \in open2 : Worth(grids2)[r] <= Worth(grids)[r]
    BY <1>7
  <2>2. \A r \in on2 : Worth(grids2)[r] <= Worth(grids)[r]
    BY <1>5, <2>1
  <2>3. SumOver(open2, Worth(grids2)) <= SumOver(open, Worth(grids))
    BY <1>3, <1>5, <1>6, <2>1, SumMonotone
  <2>4. SumOver(on2, Worth(grids2)) <= SumOver(on, Worth(grids))
    BY <1>4, <1>5, <1>6, <2>2, SumMonotone
  <2> QED BY <2>3, <2>4
<1>9. {SumOver(open, Worth(grids)), SumOver(open2, Worth(grids2)), SumOver(on, Worth(grids)),
       SumOver(on2, Worth(grids2))} \subseteq Nat
  <2> HIDE DEF open, open2, on, on2
  <2> QED BY <1>5, <1>6, SumIsNat
<1>10. Cardinality(open2) <= Cardinality(open) /\ {Cardinality(open2), Cardinality(open)} \subseteq Nat
  <2> HIDE DEF open, open2, on, on2
  <2> QED BY <1>3, <1>5, FS_Subset, FS_CardinalityType
<1>11. p.invest * p.leverage \in Nat
  BY <1>1, PlanIs
<1>12. {limits.account, limits.symbol, limits.bots, limits.positions} \subseteq Nat
  BY <1>1, PolicyIs
<1>13. BotsFit(states2, grids2, limits, p)
  <2>1. /\ Cardinality(open) < limits.bots
        /\ p.fleet = "REAL" /\ limits.positions > 0 => Cardinality(open) < limits.positions
    BY <1>2 DEF BotsFit
  <2> HIDE DEF open, open2, on, on2, p, limits
  <2>2. /\ Cardinality(open2) < limits.bots
        /\ p.fleet = "REAL" /\ limits.positions > 0 => Cardinality(open2) < limits.positions
    BY <1>10, <1>12, <2>1
  <2> QED BY <2>2 DEF BotsFit, open2
<1>14. WorthFits(states2, grids2, limits, p)
  <2> DEFINE n == p.invest * p.leverage
  <2>1. /\ SumOver(open, Worth(grids)) + n <= limits.account
        /\ SumOver(on, Worth(grids)) + n <= limits.symbol
    BY <1>2 DEF WorthFits
  <2>2. n \in Nat
    BY <1>11
  <2> HIDE DEF open, open2, on, on2, p, limits, n
  <2>3. /\ SumOver(open2, Worth(grids2)) + n <= limits.account
        /\ SumOver(on2, Worth(grids2)) + n <= limits.symbol
    BY <1>8, <1>9, <1>12, <2>1, <2>2
  <2> QED BY <2>3 DEF WorthFits, open2, on2, n
<1> QED BY <1>13, <1>14

(* What fits with what was poured fits without. *)
LEMMA CapsGiveRoom ==
    ASSUME RiskAssumption, GridsAre(state, grid, poured), NEW p \in Plans, NEW limits \in Policies,
           CapsFit(limits, p)
    PROVE  BotsFit(state, grid, limits, p) /\ WorthFits(state, grid, limits, p)
<1> DEFINE open == OpenIn(state, grid, p.fleet)
           on == OpenOnIn(state, grid, p.fleet, p.symbol)
           n == p.invest * p.leverage
<1>1. open = Open(p.fleet) /\ on = OpenOn(p.fleet, p.symbol)
  BY DEF OpenIn, OpenOnIn, Open, OpenOn
<1>2. IsFiniteSet(open) /\ open \in SUBSET Rows /\ IsFiniteSet(on) /\ on \in SUBSET Rows
  BY OpenIsFinite
<1>3. BotsFit(state, grid, limits, p)
  BY <1>1 DEF CapsFit, CountFits, BotsFit
<1>4. Worth(grid) \in [Rows -> Nat]
  BY WorthIs DEF GridsAre
<1>5. ASSUME NEW r \in Rows PROVE Notional[r] \in Nat /\ Worth(grid)[r] <= Notional[r]
  <2> DEFINE i == grid[r].invest   m == poured[r]   l == grid[r].leverage
  <2>1. i \in Nat /\ m \in Nat /\ l \in Nat
    BY PlanIs DEF GridsAre
  <2>2. Notional[r] = (i + m) * l /\ Worth(grid)[r] = i * l
    BY DEF Notional, Worth
  <2> HIDE DEF i, m, l
  <2>3. (i + m) * l = i * l + m * l
    BY <2>1
  <2>4. i * l \in Nat /\ m * l \in Nat
    BY <2>1
  <2> QED BY <2>2, <2>3, <2>4
<1>6. Notional \in [Rows -> Nat]
  <2>1. Notional = [r \in Rows |-> Notional[r]]
    BY DEF Notional
  <2> QED BY <1>5, <2>1
<1>7. Exposure(open) + n <= limits.account /\ Exposure(on) + n <= limits.symbol
  BY <1>1 DEF CapsFit, ExposureFits
<1>8. SumOver(open, Worth(grid)) <= Exposure(open) /\ SumOver(on, Worth(grid)) <= Exposure(on)
  <2> HIDE DEF open, on
  <2>1. open \in SUBSET open /\ on \in SUBSET on
    OBVIOUS
  <2>2. /\ \A r \in open : Worth(grid)[r] <= Notional[r]
        /\ \A r \in on : Worth(grid)[r] <= Notional[r]
    BY <1>2, <1>5
  <2> QED BY <1>2, <1>4, <1>6, <2>1, <2>2, SumMonotone DEF Exposure
<1>9. {SumOver(open, Worth(grid)), Exposure(open), SumOver(on, Worth(grid)), Exposure(on)} \subseteq Nat
  <2> HIDE DEF open, on
  <2> QED BY <1>2, <1>4, <1>6, SumIsNat DEF Exposure
<1>10. n \in Nat /\ limits.account \in Nat /\ limits.symbol \in Nat
  BY PlanIs, PolicyIs
<1>11. WorthFits(state, grid, limits, p)
  <2>1. /\ SumOver(open, Worth(grid)) + n <= limits.account
        /\ SumOver(on, Worth(grid)) + n <= limits.symbol
    <3> HIDE DEF open, on, n
    <3> QED BY <1>7, <1>8, <1>9, <1>10
  <2> QED BY <2>1 DEF WorthFits
<1> QED BY <1>3, <1>11

--------------------------------------------------------------------------
(* A deployer's step: what it leaves alone, and what it leaves to itself. *)

LockKeeps(d) == \A f \in Fleets : \A e \in Deployers \ {d} : fleetLock[f] = e => fleetLock'[f] = e
JobMoves(d) == job' \in [Deployers -> Jobs] /\ \A e \in Deployers \ {d} : job'[e] = job[e]
RoomKeeps(d) ==
    \A e \in Deployers \ {d} :
        job[e].at = "insert" =>
          \A r \in OpenIn(state', grid', job[e].plan.fleet) :
            r \in OpenIn(state, grid, job[e].plan.fleet) /\ grid'[r] = grid[r]
Owns(d) == HasLock(job'[d], d, fleetLock') /\ KeepsRoom(job'[d], state', grid')
Elsewhere == UNCHANGED <<settingsVars, top, form, derive>>
Moves(d) ==
    /\ Elsewhere /\ LocksAre' /\ LockKeeps(d) /\ JobMoves(d)
    /\ GridsAre(state', grid', poured') /\ RoomKeeps(d) /\ Owns(d)

LEMMA LockIsKept ==
    ASSUME RiskAssumption, NEW j \in Jobs, NEW e, NEW lock, NEW lock2, HasLock(j, e, lock),
           \A f \in Fleets : lock[f] = e => lock2[f] = e
    PROVE  HasLock(j, e, lock2)
<1> SUFFICES ASSUME j.at \in Locked PROVE lock2[j.plan.fleet] = e
  BY DEF HasLock
<1>1. j.plan \in Plans
  BY JobIs DEF Locked, Planned, PlanJobs
<1> QED BY <1>1, PlanIs DEF HasLock

LEMMA SettingsStay == ASSUME SettingsAre, WorkIs, FormsAreKnown, Elsewhere
                      PROVE  SettingsAre' /\ WorkIs' /\ FormsAreKnown'
<1>1. /\ kill' = kill /\ policy' = policy /\ breaker' = breaker /\ version' = version
      /\ top' = top /\ form' = form /\ derive' = derive
  BY DEF Elsewhere, settingsVars
<1>2. SettingsAre'
  BY <1>1 DEF SettingsAre
<1>3. WorkIs'
  BY <1>1 DEF WorkIs
<1>4. FormsAreKnown'
  BY <1>1 DEF FormsAreKnown
<1> QED BY <1>2, <1>3, <1>4

LEMMA MovesKeep == ASSUME RiskAssumption, RiskInv, NEW d \in Deployers, Moves(d) PROVE RiskInv'
<1>1. SettingsAre' /\ WorkIs' /\ FormsAreKnown'
  BY SettingsStay DEF RiskInv, Moves
<1>2. LocksAre' /\ GridsAre(state', grid', poured')
  BY DEF Moves
<1>3. ASSUME NEW e \in Deployers PROVE HasLock(job'[e], e, fleetLock') /\ KeepsRoom(job'[e], state', grid')
  <2>1. CASE e = d
    BY <2>1 DEF Moves, Owns
  <2>2. CASE e # d
    <3>1. job'[e] = job[e] /\ job[e] \in Jobs
      BY <2>2 DEF Moves, JobMoves, RiskInv, EntriesAre
    <3>2. HasLock(job[e], e, fleetLock) /\ KeepsRoom(job[e], state, grid)
      BY DEF RiskInv, EntriesAre
    <3>3. \A f \in Fleets : fleetLock[f] = e => fleetLock'[f] = e
      BY <2>2 DEF Moves, LockKeeps
    <3>4. HasLock(job[e], e, fleetLock')
      BY <3>1, <3>2, <3>3, LockIsKept
    <3>5. job[e].at = "insert" =>
            \A r \in OpenIn(state', grid', job[e].plan.fleet) :
              r \in OpenIn(state, grid, job[e].plan.fleet) /\ grid'[r] = grid[r]
      BY <2>2 DEF Moves, RoomKeeps
    <3>6. GridsAre(state, grid, poured)
      BY DEF RiskInv
    <3>7. KeepsRoom(job[e], state', grid')
      BY <1>2, <3>1, <3>2, <3>5, <3>6, RoomIsKept
    <3> QED BY <3>1, <3>4, <3>7
  <2> QED BY <2>1, <2>2
<1>4. job' \in [Deployers -> Jobs]
  BY DEF Moves, JobMoves
<1>5. EntriesAre'
  BY <1>3, <1>4 DEF EntriesAre
<1> QED BY <1>1, <1>2, <1>5 DEF RiskInv

LEMMA UnlockKeeps == ASSUME LocksAre, NEW d \in Deployers, Unlocks(d) PROVE LocksAre' /\ LockKeeps(d)
<1>1. /\ fleetLock' = [f \in Fleets |-> IF fleetLock[f] = d THEN Nobody ELSE fleetLock[f]]
      /\ symbolLock' = [s \in Symbols |-> IF symbolLock[s] = d THEN Nobody ELSE symbolLock[s]]
  BY DEF Unlocks
<1>2. LocksAre'
  BY <1>1 DEF LocksAre
<1>3. LockKeeps(d)
  BY <1>1 DEF LockKeeps
<1> QED BY <1>2, <1>3

LEMMA StayKeeps == ASSUME LocksAre, UNCHANGED fleetLock, UNCHANGED symbolLock, NEW d PROVE LocksAre' /\ LockKeeps(d)
  BY DEF LocksAre, LockKeeps

LEMMA GridsStay == ASSUME GridsAre(state, grid, poured), UNCHANGED gridVars, NEW d
                   PROVE  GridsAre(state', grid', poured') /\ RoomKeeps(d)
<1>1. state' = state /\ grid' = grid /\ poured' = poured
  BY DEF gridVars
<1> QED BY <1>1 DEF RoomKeeps

LEMMA IdleOwns == ASSUME NEW d \in Deployers, job'[d] = Idle PROVE Owns(d)
  BY DEF Owns, HasLock, KeepsRoom, Idle, Locked

LEMMA JobGoes ==
    ASSUME job \in [Deployers -> Jobs], NEW d \in Deployers, NEW j \in Jobs, job' = [job EXCEPT ![d] = j]
    PROVE  JobMoves(d) /\ job'[d] = j
  BY DEF JobMoves

LEMMA GiveUpMoves ==
    ASSUME RiskInv, NEW d \in Deployers, GivesUp(d), Elsewhere
    PROVE  Moves(d)
<1>1. job' = [job EXCEPT ![d] = Idle] /\ Unlocks(d) /\ UNCHANGED gridVars
  BY DEF GivesUp
<1>2. Idle \in Jobs /\ job \in [Deployers -> Jobs]
  BY DEF Jobs, RiskInv, EntriesAre
<1>3. JobMoves(d) /\ job'[d] = Idle
  BY <1>1, <1>2, JobGoes
<1>4. LocksAre' /\ LockKeeps(d)
  BY <1>1, UnlockKeeps DEF RiskInv
<1>5. GridsAre(state', grid', poured') /\ RoomKeeps(d)
  BY <1>1, GridsStay DEF RiskInv
<1>6. Owns(d)
  BY <1>3, IdleOwns
<1> QED BY <1>3, <1>4, <1>5, <1>6 DEF Moves

LEMMA GoIs ==
    ASSUME RiskInv, NEW d \in Deployers, job[d].at \in Planned, NEW there \in Planned, Goes(d, there)
    PROVE  /\ JobMoves(d)
           /\ job'[d].at = there /\ job'[d].plan = job[d].plan /\ job'[d].limits = job[d].limits
<1> DEFINE j == job[d]
<1>1. job \in [Deployers -> Jobs] /\ j \in Jobs
  BY DEF RiskInv, EntriesAre
<1>2. j \in PlanJobs
  BY <1>1, JobIs
<1>3. job' = [job EXCEPT ![d] = [j EXCEPT !.at = there]]
  BY DEF Goes
<1> HIDE DEF j
<1>4. [j EXCEPT !.at = there] \in PlanJobs
  BY <1>2 DEF PlanJobs
<1>5. PlanJobs \subseteq Jobs
  BY DEF PlanJobs, Jobs, Planned
<1>6. JobMoves(d) /\ job'[d] = [j EXCEPT !.at = there]
  BY <1>1, <1>3, <1>4, <1>5, JobGoes
<1>7. [j EXCEPT !.at = there].at = there /\ [j EXCEPT !.at = there].plan = j.plan
      /\ [j EXCEPT !.at = there].limits = j.limits
  BY <1>2 DEF PlanJobs
<1> QED BY <1>6, <1>7 DEF j

LEMMA GoOnMoves ==
    ASSUME RiskInv, NEW d \in Deployers, job[d].at \in Planned, NEW there \in Planned,
           GoesOn(d, there), Elsewhere, Owns(d)
    PROVE  Moves(d)
<1>1. Goes(d, there) /\ UNCHANGED gridVars /\ UNCHANGED fleetLock /\ UNCHANGED symbolLock
  BY DEF GoesOn, lockVars
<1>2. JobMoves(d)
  BY <1>1, GoIs
<1>3. LocksAre' /\ LockKeeps(d)
  BY <1>1, StayKeeps DEF RiskInv
<1>4. GridsAre(state', grid', poured') /\ RoomKeeps(d)
  BY <1>1, GridsStay DEF RiskInv
<1> QED BY <1>2, <1>3, <1>4 DEF Moves

LEMMA EarlyCheckMoves ==
    ASSUME RiskAssumption, RiskInv, NEW d \in Deployers, NEW p \in Plans, EarlyCheck(d, p)
    PROVE  Moves(d)
<1> DEFINE there == IF p.fleet = "REAL" THEN "look" ELSE "lock_fleet"
           j == [at |-> there, plan |-> p, limits |-> policy]
<1>1. /\ job' = [job EXCEPT ![d] = j] /\ Elsewhere
      /\ UNCHANGED gridVars /\ UNCHANGED fleetLock /\ UNCHANGED symbolLock
  BY DEF EarlyCheck, Elsewhere, lockVars
<1>2. job \in [Deployers -> Jobs] /\ policy \in Policies
  BY DEF RiskInv, EntriesAre, SettingsAre
<1>3. there \in {"look", "lock_fleet"}
  OBVIOUS
<1> HIDE DEF there
<1>4. j \in Jobs
  BY <1>2, <1>3 DEF Jobs
<1>5. j.at \notin Locked /\ j.at # "insert"
  BY <1>3 DEF Locked
<1> HIDE DEF j
<1>6. JobMoves(d) /\ job'[d] = j
  BY <1>1, <1>2, <1>4, JobGoes
<1>7. Owns(d)
  BY <1>5, <1>6 DEF Owns, HasLock, KeepsRoom
<1>8. LocksAre' /\ LockKeeps(d)
  BY <1>1, StayKeeps DEF RiskInv
<1>9. GridsAre(state', grid', poured') /\ RoomKeeps(d)
  BY <1>1, GridsStay DEF RiskInv
<1> QED BY <1>1, <1>6, <1>7, <1>8, <1>9 DEF Moves

LEMMA LastLookMoves == ASSUME RiskInv, NEW d \in Deployers, LastLook(d) PROVE Moves(d)
<1>1. Elsewhere /\ job[d].at = "look" /\ (GivesUp(d) \/ GoesOn(d, "lock_symbol"))
  BY DEF LastLook, Elsewhere
<1>2. CASE GivesUp(d)
  BY <1>1, <1>2, GiveUpMoves
<1>3. CASE GoesOn(d, "lock_symbol")
  <2>1. job[d].at \in Planned /\ "lock_symbol" \in Planned
    BY <1>1 DEF Planned
  <2>2. job'[d].at = "lock_symbol"
    BY <1>3, <2>1, GoIs DEF GoesOn
  <2>3. Owns(d)
    BY <2>2 DEF Owns, HasLock, KeepsRoom, Locked
  <2> QED BY <1>1, <1>3, <2>1, <2>3, GoOnMoves
<1> QED BY <1>1, <1>2, <1>3

LEMMA AbandonMoves == ASSUME RiskInv, NEW d \in Deployers, Abandon(d) PROVE Moves(d)
<1>1. GivesUp(d) /\ Elsewhere
  BY DEF Abandon, Elsewhere
<1> QED BY <1>1, GiveUpMoves

LEMMA LockSymbolMoves ==
    ASSUME RiskAssumption, RiskInv, NEW d \in Deployers, LockSymbol(d)
    PROVE  Moves(d)
<1>1. /\ Elsewhere /\ job[d].at = "lock_symbol" /\ Goes(d, "lock_fleet")
      /\ symbolLock' = [symbolLock EXCEPT ![job[d].plan.symbol] = d]
      /\ fleetLock' = fleetLock /\ UNCHANGED gridVars
  BY DEF LockSymbol, Elsewhere
<1>2. job[d].at \in Planned /\ "lock_fleet" \in Planned
  BY <1>1 DEF Planned
<1>3. JobMoves(d) /\ job'[d].at = "lock_fleet"
  BY <1>1, <1>2, GoIs
<1>4. LocksAre' /\ LockKeeps(d)
  BY <1>1 DEF RiskInv, LocksAre, LockKeeps
<1>5. GridsAre(state', grid', poured') /\ RoomKeeps(d)
  BY <1>1, GridsStay DEF RiskInv
<1>6. Owns(d)
  BY <1>3 DEF Owns, HasLock, KeepsRoom, Locked
<1> QED BY <1>1, <1>3, <1>4, <1>5, <1>6 DEF Moves

LEMMA LockFleetMoves ==
    ASSUME RiskAssumption, RiskInv, NEW d \in Deployers, LockFleet(d)
    PROVE  Moves(d)
<1> DEFINE f == job[d].plan.fleet
<1>1. /\ Elsewhere /\ job[d].at = "lock_fleet" /\ Goes(d, "read_policy") /\ fleetLock[f] = Nobody
      /\ fleetLock' = [fleetLock EXCEPT ![f] = d]
      /\ symbolLock' = symbolLock /\ UNCHANGED gridVars
  BY DEF LockFleet, Elsewhere
<1>2. job[d].at \in Planned /\ "read_policy" \in Planned
  BY <1>1 DEF Planned
<1>3. JobMoves(d) /\ job'[d].at = "read_policy" /\ job'[d].plan.fleet = f
  BY <1>1, <1>2, GoIs
<1>4. f \in Fleets
  <2>1. job[d] \in PlanJobs
    BY <1>2, JobIs DEF RiskInv, EntriesAre
  <2> QED BY <2>1, PlanIs DEF PlanJobs
<1>5. /\ fleetLock \in [Fleets -> Deployers \cup {Nobody}]
      /\ symbolLock \in [Symbols -> Deployers \cup {Nobody}]
  BY DEF RiskInv, LocksAre
<1>6. Nobody \notin Deployers
  BY DEF RiskAssumption
<1> HIDE DEF f
<1>7. LocksAre'
  BY <1>1, <1>4, <1>5 DEF LocksAre
<1>8. LockKeeps(d)
  BY <1>1, <1>4, <1>5, <1>6 DEF LockKeeps
<1>9. GridsAre(state', grid', poured') /\ RoomKeeps(d)
  BY <1>1, GridsStay DEF RiskInv
<1>10. fleetLock'[f] = d
  BY <1>1, <1>4, <1>5
<1>11. Owns(d)
  BY <1>3, <1>10 DEF Owns, HasLock, KeepsRoom
<1> QED BY <1>1, <1>3, <1>7, <1>8, <1>9, <1>11 DEF Moves

LEMMA LockStays ==
    ASSUME RiskInv, NEW d \in Deployers, job[d].at \in Locked, UNCHANGED fleetLock,
           job'[d].plan = job[d].plan
    PROVE  HasLock(job'[d], d, fleetLock')
<1>1. fleetLock[job[d].plan.fleet] = d
  BY DEF RiskInv, EntriesAre, HasLock
<1> QED BY <1>1 DEF HasLock

LEMMA ReadPolicyMoves == ASSUME RiskInv, NEW d \in Deployers, ReadPolicy(d) PROVE Moves(d)
<1> DEFINE j == job[d]
           next == [[j EXCEPT !.at = "read_grids"] EXCEPT !.limits = policy]
           Reads == job' = [job EXCEPT ![d].at = "read_grids", ![d].limits = policy]
                    /\ UNCHANGED <<gridVars, lockVars>>
<1>1. Elsewhere /\ job[d].at = "read_policy" /\ (GivesUp(d) \/ Reads)
  BY DEF ReadPolicy, Elsewhere
<1>2. CASE GivesUp(d)
  BY <1>1, <1>2, GiveUpMoves
<1>3. CASE Reads
  <2>1. job \in [Deployers -> Jobs] /\ policy \in Policies /\ j \in PlanJobs
    BY <1>1, JobIs DEF RiskInv, EntriesAre, SettingsAre, Planned
  <2>2. job' = [job EXCEPT ![d] = next]
    BY <1>3, <2>1
  <2>3. UNCHANGED gridVars /\ UNCHANGED fleetLock /\ UNCHANGED symbolLock
    BY <1>3 DEF lockVars
  <2> HIDE DEF j
  <2>4. next \in PlanJobs /\ next.at = "read_grids" /\ next.plan = j.plan
    BY <2>1 DEF PlanJobs, Planned
  <2> HIDE DEF next
  <2>5. next \in Jobs
    BY <2>4 DEF PlanJobs, Planned, Jobs
  <2>6. JobMoves(d) /\ job'[d] = next
    BY <2>1, <2>2, <2>5, JobGoes
  <2>7. LocksAre' /\ LockKeeps(d)
    BY <2>3, StayKeeps DEF RiskInv
  <2>8. GridsAre(state', grid', poured') /\ RoomKeeps(d)
    BY <2>3, GridsStay DEF RiskInv
  <2>9. HasLock(job'[d], d, fleetLock')
    BY <1>1, <2>3, <2>4, <2>6, LockStays DEF Locked, j
  <2>10. Owns(d)
    BY <2>4, <2>6, <2>9 DEF Owns, KeepsRoom
  <2> QED BY <1>1, <2>6, <2>7, <2>8, <2>10 DEF Moves
<1> HIDE DEF Reads
<1> QED BY <1>1, <1>2, <1>3

LEMMA ReadGridsMoves ==
    ASSUME RiskAssumption, RiskInv, NEW d \in Deployers, ReadGrids(d)
    PROVE  Moves(d)
<1> DEFINE Fit == CapsFit(job[d].limits, job[d].plan)
<1>1. /\ Elsewhere /\ job[d].at = "read_grids"
      /\ (GivesUp(d) \/ (Fit /\ GoesOn(d, "insert")))
  BY DEF ReadGrids, Elsewhere
<1>2. CASE GivesUp(d)
  BY <1>1, <1>2, GiveUpMoves
<1>3. CASE Fit /\ GoesOn(d, "insert")
  <2>1. job[d].at \in Planned /\ job[d].at \in Locked /\ "insert" \in Planned
    BY <1>1 DEF Planned, Locked
  <2>2. job'[d].at = "insert" /\ job'[d].plan = job[d].plan /\ job'[d].limits = job[d].limits
    BY <1>3, <2>1, GoIs DEF GoesOn
  <2>3. job[d].plan \in Plans /\ job[d].limits \in Policies
    <3>1. job[d] \in PlanJobs
      BY <2>1, JobIs DEF RiskInv, EntriesAre
    <3> QED BY <3>1 DEF PlanJobs
  <2>4. GridsAre(state, grid, poured)
    BY DEF RiskInv
  <2>5. /\ BotsFit(state, grid, job[d].limits, job[d].plan)
        /\ WorthFits(state, grid, job[d].limits, job[d].plan)
    BY <1>3, <2>3, <2>4, CapsGiveRoom
  <2>6. state' = state /\ grid' = grid /\ fleetLock' = fleetLock
    BY <1>3 DEF GoesOn, gridVars, lockVars
  <2>7. KeepsRoom(job'[d], state', grid')
    BY <2>2, <2>5, <2>6 DEF KeepsRoom
  <2>8. HasLock(job'[d], d, fleetLock')
    BY <2>1, <2>2, <2>6, LockStays
  <2>9. Owns(d)
    BY <2>7, <2>8 DEF Owns
  <2> QED BY <1>1, <1>3, <2>1, <2>9, GoOnMoves
<1> HIDE DEF Fit
<1> QED BY <1>1, <1>2, <1>3

LEMMA BookedStaysFinite ==
    ASSUME GridsAre(state, grid, poured), NEW r \in Rows, NEW to \in {"open", "closed"},
           NEW states, states = [state EXCEPT ![r] = to]
    PROVE  /\ states \in [Rows -> {"new", "open", "closed"}]
           /\ IsFiniteSet({x \in Rows : states[x] # "new"})
<1> DEFINE old == {x \in Rows : state[x] # "new"}
           now == {x \in Rows : states[x] # "new"}
<1>1. state \in [Rows -> {"new", "open", "closed"}] /\ IsFiniteSet(old)
  BY DEF GridsAre
<1>2. now \in SUBSET (old \cup {r})
  BY <1>1
<1>3. IsFiniteSet(old \cup {r})
  <2> HIDE DEF old
  <2> QED BY <1>1, FS_AddElement
<1>4. IsFiniteSet(now)
  <2> HIDE DEF old, now
  <2> QED BY <1>2, <1>3, FS_Subset
<1> QED BY <1>1, <1>4

LEMMA OpenedIsFinite ==
    ASSUME GridsAre(state, grid, poured), NEW r \in Rows, state' = [state EXCEPT ![r] = "open"]
    PROVE  /\ state' \in [Rows -> {"new", "open", "closed"}]
           /\ IsFiniteSet({x \in Rows : state'[x] # "new"})
<1> DEFINE now == [state EXCEPT ![r] = "open"]
<1>1. "open" \in {"open", "closed"}
  OBVIOUS
<1>2. /\ now \in [Rows -> {"new", "open", "closed"}]
      /\ IsFiniteSet({x \in Rows : now[x] # "new"})
  BY <1>1, BookedStaysFinite
<1>3. state' = now
  OBVIOUS
<1> HIDE DEF now
<1> QED BY <1>2, <1>3

LEMMA InsertIntentMoves ==
    ASSUME RiskAssumption, RiskInv, NEW d \in Deployers, NEW r \in Rows, InsertIntent(d, r)
    PROVE  Moves(d)
<1> DEFINE p == job[d].plan
           next == IF p.fleet = "REAL" THEN [at |-> "send", row |-> r] ELSE Idle
           Enters == /\ state' = [state EXCEPT ![r] = "open"]
                     /\ grid' = [grid EXCEPT ![r] = p]
                     /\ job' = [job EXCEPT ![d] = next]
                     /\ Unlocks(d) /\ poured' = poured
<1>1. /\ Elsewhere /\ job[d].at = "insert" /\ state[r] = "new" /\ (GivesUp(d) \/ Enters)
  BY DEF InsertIntent, Elsewhere
<1>2. CASE GivesUp(d)
  BY <1>1, <1>2, GiveUpMoves
<1>3. CASE Enters
  <2>1. p \in Plans /\ job \in [Deployers -> Jobs]
    <3>1. job \in [Deployers -> Jobs] /\ job[d] \in PlanJobs
      BY <1>1, JobIs DEF RiskInv, EntriesAre, Planned
    <3> QED BY <3>1 DEF PlanJobs
  <2>2. p.fleet \in Fleets /\ fleetLock[p.fleet] = d
    BY <1>1, <2>1, PlanIs DEF RiskInv, EntriesAre, HasLock, Locked
  <2>3. GridsAre(state, grid, poured) /\ LocksAre
    BY DEF RiskInv
  <2>4. GridsAre(state', grid', poured')
    <3>1. /\ state' \in [Rows -> {"new", "open", "closed"}]
          /\ IsFiniteSet({x \in Rows : state'[x] # "new"})
      BY <1>3, <2>3, OpenedIsFinite
    <3>2. grid' \in [Rows -> Plans] /\ poured' \in [Rows -> Nat]
      BY <1>3, <2>1, <2>3 DEF GridsAre
    <3> QED BY <3>1, <3>2 DEF GridsAre
  <2>5. next \in Jobs
    BY DEF Jobs
  <2>6. JobMoves(d) /\ job'[d] = next
    <3> HIDE DEF next
    <3> QED BY <1>3, <2>1, <2>5, JobGoes
  <2>7. next.at \notin Locked /\ next.at # "insert"
    BY DEF Idle, Locked
  <2>8. Owns(d)
    <3> HIDE DEF next
    <3> QED BY <2>6, <2>7 DEF Owns, HasLock, KeepsRoom
  <2>9. LocksAre' /\ LockKeeps(d)
    BY <1>3, <2>3, UnlockKeeps
  <2>10. ASSUME NEW e \in Deployers, e # d, job[e].at = "insert" PROVE job[e].plan.fleet # p.fleet
    <3>1. fleetLock[job[e].plan.fleet] = e
      BY <2>10 DEF RiskInv, EntriesAre, HasLock, Locked
    <3> QED BY <2>2, <2>10, <3>1
  <2>11. ASSUME NEW fleet, fleet # p.fleet, NEW x \in OpenIn(state', grid', fleet)
         PROVE  x \in OpenIn(state, grid, fleet) /\ grid'[x] = grid[x]
    <3>1. x \in Rows /\ state'[x] = "open" /\ grid'[x].fleet = fleet
      BY DEF OpenIn
    <3>2. state \in [Rows -> {"new", "open", "closed"}] /\ grid \in [Rows -> Plans]
      BY <2>3 DEF GridsAre
    <3>3. x # r
      BY <1>3, <2>11, <3>1, <3>2
    <3>4. state'[x] = state[x] /\ grid'[x] = grid[x]
      BY <1>3, <3>1, <3>2, <3>3
    <3> QED BY <3>1, <3>4 DEF OpenIn
  <2>12. RoomKeeps(d)
    BY <2>10, <2>11 DEF RoomKeeps
  <2> QED BY <1>1, <2>4, <2>6, <2>8, <2>9, <2>12 DEF Moves
<1> HIDE DEF Enters
<1> QED BY <1>1, <1>2, <1>3

LEMMA ClosedKeeps ==
    ASSUME GridsAre(state, grid, poured), NEW r \in Rows,
           state' \in {state, [state EXCEPT ![r] = "closed"]}, grid' = grid, poured' = poured
    PROVE  /\ GridsAre(state', grid', poured')
           /\ \A fleet : \A x \in OpenIn(state', grid', fleet) :
                x \in OpenIn(state, grid, fleet) /\ grid'[x] = grid[x]
<1>1. state \in [Rows -> {"new", "open", "closed"}]
  BY DEF GridsAre
<1>2. GridsAre(state', grid', poured')
  <2>1. CASE state' = state
    BY <2>1
  <2>2. CASE state' = [state EXCEPT ![r] = "closed"]
    <3>1. /\ state' \in [Rows -> {"new", "open", "closed"}]
          /\ IsFiniteSet({x \in Rows : state'[x] # "new"})
      BY <2>2, BookedStaysFinite
    <3> QED BY <3>1 DEF GridsAre
  <2> QED BY <2>1, <2>2
<1>3. \A x \in Rows : state'[x] = "open" => state[x] = "open"
  BY <1>1
<1> QED BY <1>2, <1>3 DEF OpenIn

LEMMA SendCreateMoves == ASSUME RiskInv, NEW d \in Deployers, SendCreate(d) PROVE Moves(d)
<1>1. /\ Elsewhere /\ job[d].at = "send" /\ job' = [job EXCEPT ![d] = Idle]
      /\ state' \in {state, [state EXCEPT ![job[d].row] = "closed"]}
      /\ grid' = grid /\ poured' = poured /\ fleetLock' = fleetLock /\ symbolLock' = symbolLock
  BY DEF SendCreate, Elsewhere, lockVars
<1>2. job \in [Deployers -> Jobs] /\ job[d].row \in Rows /\ Idle \in Jobs
  <2>1. job \in [Deployers -> Jobs]
    BY DEF RiskInv, EntriesAre
  <2>2. Idle \in Jobs
    BY DEF Jobs
  <2> QED BY <1>1, <2>1, <2>2, JobIs
<1>3. JobMoves(d) /\ job'[d] = Idle
  BY <1>1, <1>2, JobGoes
<1>4. Owns(d)
  BY <1>3, IdleOwns
<1>5. LocksAre' /\ LockKeeps(d)
  BY <1>1, StayKeeps DEF RiskInv
<1>6. GridsAre(state, grid, poured)
  BY DEF RiskInv
<1>7. GridsAre(state', grid', poured') /\ RoomKeeps(d)
  BY <1>1, <1>2, <1>6, ClosedKeeps DEF RoomKeeps
<1> QED BY <1>1, <1>3, <1>4, <1>5, <1>7 DEF Moves

--------------------------------------------------------------------------
(* The other steps leave the deployers' work and the locks alone. *)

LEMMA OthersKeep ==
    ASSUME RiskAssumption, RiskInv, job' = job, fleetLock' = fleetLock, symbolLock' = symbolLock,
           GridsAre(state', grid', poured'),
           \A fleet : \A x \in OpenIn(state', grid', fleet) :
             x \in OpenIn(state, grid, fleet) /\ grid'[x] = grid[x]
    PROVE  LocksAre' /\ EntriesAre'
<1>1. LocksAre'
  BY DEF RiskInv, LocksAre
<1>2. GridsAre(state, grid, poured) /\ job \in [Deployers -> Jobs]
  BY DEF RiskInv, EntriesAre
<1>3. ASSUME NEW e \in Deployers PROVE HasLock(job[e], e, fleetLock) /\ KeepsRoom(job[e], state', grid')
  <2>1. job[e] \in Jobs /\ HasLock(job[e], e, fleetLock) /\ KeepsRoom(job[e], state, grid)
    BY <1>2 DEF RiskInv, EntriesAre
  <2>2. KeepsRoom(job[e], state', grid')
    BY <1>2, <2>1, RoomIsKept
  <2> QED BY <2>1, <2>2
<1>4. EntriesAre'
  BY <1>2, <1>3 DEF EntriesAre
<1> QED BY <1>1, <1>4

LEMMA SettingsKeep ==
    ASSUME RiskAssumption, RiskInv, UNCHANGED gridVars, UNCHANGED lockVars, UNCHANGED job
    PROVE  LocksAre' /\ EntriesAre' /\ GridsAre(state', grid', poured')
<1>1. /\ state' = state /\ grid' = grid /\ poured' = poured
      /\ fleetLock' = fleetLock /\ symbolLock' = symbolLock /\ job' = job
  BY DEF gridVars, lockVars
<1>2. GridsAre(state', grid', poured')
  BY <1>1 DEF RiskInv
<1>3. \A fleet : \A x \in OpenIn(state', grid', fleet) :
             x \in OpenIn(state, grid, fleet) /\ grid'[x] = grid[x]
  BY <1>1
<1> QED BY <1>1, <1>2, <1>3, OthersKeep

LEMMA CloseKeeps == ASSUME RiskAssumption, RiskInv, NEW r \in Rows, Close(r) PROVE RiskInv'
<1>1. /\ state' = [state EXCEPT ![r] = "closed"] /\ grid' = grid /\ poured' = poured
      /\ fleetLock' = fleetLock /\ symbolLock' = symbolLock /\ job' = job /\ Elsewhere
  BY DEF Close, lockVars, workVars, Elsewhere
<1>2. GridsAre(state, grid, poured)
  BY DEF RiskInv
<1>3. /\ GridsAre(state', grid', poured')
      /\ \A fleet : \A x \in OpenIn(state', grid', fleet) :
           x \in OpenIn(state, grid, fleet) /\ grid'[x] = grid[x]
  BY <1>1, <1>2, ClosedKeeps
<1>4. LocksAre' /\ EntriesAre'
  BY <1>1, <1>3, OthersKeep
<1>5. SettingsAre' /\ WorkIs' /\ FormsAreKnown'
  BY <1>1, SettingsStay DEF RiskInv
<1> QED BY <1>3, <1>4, <1>5 DEF RiskInv

LEMMA TopUpKeeps ==
    ASSUME RiskAssumption, RiskInv, NEW p \in Pourers,
           NEW r \in Rows, NEW n \in Pours, TopUpCheck(p, r, n)
    PROVE  RiskInv'
<1> DEFINE j == [at |-> "pour", row |-> r, amount |-> n]
<1>1. /\ UNCHANGED gridVars /\ UNCHANGED lockVars /\ UNCHANGED job /\ UNCHANGED settingsVars
      /\ form' = form /\ derive' = derive /\ top' = [top EXCEPT ![p] = j]
  BY DEF TopUpCheck
<1>2. LocksAre' /\ EntriesAre' /\ GridsAre(state', grid', poured')
  BY <1>1, SettingsKeep
<1>3. kill' = kill /\ policy' = policy /\ breaker' = breaker /\ version' = version
  BY <1>1 DEF settingsVars
<1>4. SettingsAre' /\ FormsAreKnown'
  BY <1>1, <1>3 DEF RiskInv, SettingsAre, FormsAreKnown
<1>5. WorkIs'
  <2>1. j \in TopUps
    BY DEF TopUps
  <2> HIDE DEF j
  <2> QED BY <1>1, <2>1 DEF RiskInv, WorkIs
<1> QED BY <1>2, <1>4, <1>5 DEF RiskInv

LEMMA TopUpDone ==
    ASSUME RiskInv, NEW p \in Pourers, top' = [top EXCEPT ![p] = Idle], UNCHANGED settingsVars,
           form' = form, derive' = derive
    PROVE  SettingsAre' /\ FormsAreKnown' /\ WorkIs'
<1>1. kill' = kill /\ policy' = policy /\ breaker' = breaker /\ version' = version
  BY DEF settingsVars
<1>2. SettingsAre' /\ FormsAreKnown'
  BY <1>1 DEF RiskInv, SettingsAre, FormsAreKnown
<1>3. Idle \in TopUps
  BY DEF TopUps
<1>4. WorkIs'
  BY <1>3 DEF RiskInv, WorkIs
<1> QED BY <1>2, <1>4

LEMMA PourRefusedKeeps ==
    ASSUME RiskAssumption, RiskInv, NEW p \in Pourers, PourRefused(p)
    PROVE  RiskInv'
<1>1. /\ UNCHANGED gridVars /\ UNCHANGED lockVars /\ UNCHANGED job /\ UNCHANGED settingsVars
      /\ form' = form /\ derive' = derive /\ top' = [top EXCEPT ![p] = Idle]
  BY DEF PourRefused
<1>2. LocksAre' /\ EntriesAre' /\ GridsAre(state', grid', poured')
  BY <1>1, SettingsKeep
<1> QED BY <1>1, <1>2, TopUpDone DEF RiskInv

LEMMA PourKeeps ==
    ASSUME RiskAssumption, RiskInv, NEW p \in Pourers, Pour(p)
    PROVE  RiskInv'
<1> DEFINE r == top[p].row   n == top[p].amount
<1>1. /\ top[p].at = "pour" /\ top' = [top EXCEPT ![p] = Idle]
      /\ poured' = [poured EXCEPT ![r] = poured[r] + n]
      /\ state' = state /\ grid' = grid /\ fleetLock' = fleetLock /\ symbolLock' = symbolLock
      /\ job' = job /\ UNCHANGED settingsVars /\ form' = form /\ derive' = derive
  BY DEF Pour, lockVars
<1>2. r \in Rows /\ n \in Pours
  <2>1. top[p] \in TopUps
    BY DEF RiskInv, WorkIs
  <2> QED BY <1>1, <2>1 DEF TopUps, Idle
<1>3. n \in Nat /\ poured \in [Rows -> Nat] /\ GridsAre(state, grid, poured)
  BY <1>2 DEF RiskAssumption, RiskInv, GridsAre
<1> HIDE DEF r, n
<1>4. poured' \in [Rows -> Nat]
  <2>1. poured[r] + n \in Nat
    BY <1>2, <1>3
  <2> QED BY <1>1, <1>3, <2>1
<1>5. GridsAre(state', grid', poured')
  BY <1>1, <1>3, <1>4 DEF GridsAre
<1>6. \A fleet : \A x \in OpenIn(state', grid', fleet) :
             x \in OpenIn(state, grid, fleet) /\ grid'[x] = grid[x]
  BY <1>1
<1>7. LocksAre' /\ EntriesAre'
  BY <1>1, <1>5, <1>6, OthersKeep
<1>8. SettingsAre' /\ FormsAreKnown' /\ WorkIs'
  BY <1>1, TopUpDone
<1> QED BY <1>5, <1>7, <1>8 DEF RiskInv

LEMMA WritersKeep ==
    ASSUME RiskAssumption, RiskInv, UNCHANGED gridVars, UNCHANGED lockVars, UNCHANGED job,
           SettingsAre', WorkIs', FormsAreKnown'
    PROVE  RiskInv'
  BY SettingsKeep DEF RiskInv

(* A write makes every form older than the row. *)
LEMMA WriteAgesForms ==
    ASSUME RiskInv, version' = version + 1, NEW f \in Forms, form'[f] \in {form[f], NoForm}
    PROVE  FormIsKnown(form'[f], version', kill')
<1>1. CASE form'[f] = NoForm
  BY <1>1 DEF FormIsKnown
<1>2. CASE form'[f] = form[f] /\ form[f] # NoForm
  <2>1. form[f] \in Loaded /\ FormIsKnown(form[f], version, kill) /\ version \in Nat
    BY <1>2 DEF RiskInv, WorkIs, FormsAreKnown, SettingsAre
  <2>2. form[f].version \in Nat /\ form[f].version <= version
    BY <1>2, <2>1 DEF FormIsKnown, Loaded
  <2>3. form[f].version <= version' /\ form[f].version # version'
    BY <2>1, <2>2
  <2> QED BY <1>2, <2>3 DEF FormIsKnown
<1> QED BY <1>1, <1>2

LEMMA VersionGrows == ASSUME RiskInv, version' = version + 1 PROVE version' \in Nat
  BY DEF RiskInv, SettingsAre

LEMMA SetKillSwitchKeeps ==
    ASSUME RiskAssumption, RiskInv, NEW on \in BOOLEAN, SetKillSwitch(on)
    PROVE  RiskInv'
<1>1. /\ UNCHANGED gridVars /\ UNCHANGED lockVars /\ UNCHANGED job
      /\ kill' = on /\ policy' = policy /\ breaker' = breaker /\ version' = version + 1
      /\ top' = top /\ form' = form /\ derive' = derive
  BY DEF SetKillSwitch, Writes, workVars
<1>2. SettingsAre'
  BY <1>1, VersionGrows DEF RiskInv, SettingsAre
<1>3. WorkIs'
  BY <1>1 DEF RiskInv, WorkIs
<1>4. FormsAreKnown'
  BY <1>1, WriteAgesForms DEF FormsAreKnown
<1> QED BY <1>1, <1>2, <1>3, <1>4, WritersKeep

LEMMA LoadFormKeeps ==
    ASSUME RiskAssumption, RiskInv, NEW f \in Forms, LoadForm(f)
    PROVE  RiskInv'
<1> DEFINE now == [kill |-> kill, policy |-> policy, breaker |-> breaker, version |-> version]
<1>1. /\ UNCHANGED gridVars /\ UNCHANGED lockVars /\ UNCHANGED job
      /\ kill' = kill /\ policy' = policy /\ breaker' = breaker /\ version' = version
      /\ top' = top /\ derive' = derive /\ form' = [form EXCEPT ![f] = now]
  BY DEF LoadForm, settingsVars
<1>2. SettingsAre' /\ SettingsAre
  BY <1>1 DEF RiskInv, SettingsAre
<1>3. now \in Loaded /\ now.version = version /\ now.kill = kill
  BY <1>2 DEF SettingsAre, Loaded
<1> HIDE DEF now
<1>4. form \in [Forms -> Loaded \cup {NoForm}]
  BY DEF RiskInv, WorkIs
<1>5. WorkIs'
  BY <1>1, <1>3, <1>4 DEF RiskInv, WorkIs
<1>6. FormIsKnown(now, version, kill)
  <2>1. version <= version
    BY <1>2 DEF SettingsAre
  <2> QED BY <1>3, <2>1 DEF FormIsKnown
<1>7. FormsAreKnown'
  <2>1. ASSUME NEW g \in Forms PROVE FormIsKnown(form'[g], version', kill')
    <3>1. CASE g = f
      BY <1>1, <1>4, <1>6, <3>1
    <3>2. CASE g # f
      BY <1>1, <1>4, <3>2 DEF RiskInv, FormsAreKnown
    <3> QED BY <3>1, <3>2
  <2> QED BY <2>1 DEF FormsAreKnown
<1> QED BY <1>1, <1>2, <1>5, <1>7, WritersKeep

LEMMA SaveFormKeeps ==
    ASSUME RiskAssumption, RiskInv, NEW f \in Forms, NEW on \in BOOLEAN, NEW p \in Policies,
           NEW b \in Breakers, SaveForm(f, on, p, b)
    PROVE  RiskInv'
<1> DEFINE Saves == /\ version' = version + 1 /\ kill' = on /\ policy' = p /\ breaker' = b
           Refused == UNCHANGED settingsVars
<1>1. /\ UNCHANGED gridVars /\ UNCHANGED lockVars /\ UNCHANGED job
      /\ top' = top /\ derive' = derive /\ form' = [form EXCEPT ![f] = NoForm]
      /\ (Saves \/ Refused)
  BY DEF SaveForm, Writes
<1>2. WorkIs'
  BY <1>1 DEF RiskInv, WorkIs
<1>3. \A g \in Forms : form'[g] \in {form[g], NoForm}
  BY <1>1 DEF RiskInv, WorkIs
<1>4. CASE Saves
  <2>1. SettingsAre'
    BY <1>4, VersionGrows DEF RiskInv, SettingsAre
  <2>2. FormsAreKnown'
    BY <1>3, <1>4, WriteAgesForms DEF FormsAreKnown
  <2> QED BY <1>1, <1>2, <2>1, <2>2, WritersKeep
<1>5. CASE Refused
  <2>1. kill' = kill /\ policy' = policy /\ breaker' = breaker /\ version' = version
    BY <1>5 DEF settingsVars
  <2>2. SettingsAre'
    BY <2>1 DEF RiskInv, SettingsAre
  <2>3. FormsAreKnown'
    <3>1. ASSUME NEW g \in Forms PROVE FormIsKnown(form'[g], version, kill)
      BY <1>3 DEF RiskInv, FormsAreKnown, FormIsKnown
    <3> QED BY <2>1, <3>1 DEF FormsAreKnown
  <2> QED BY <1>1, <1>2, <2>2, <2>3, WritersKeep
<1> HIDE DEF Saves, Refused
<1> QED BY <1>1, <1>4, <1>5

LEMMA EditsKeep == ASSUME RiskAssumption, RiskInv, NEW f \in Forms, Edits(f) PROVE RiskInv'
<1>1. form[f] # NoForm
  BY DEF Edits, SaveForm
<1>2. form[f].kill \in BOOLEAN /\ form[f].policy \in Policies /\ form[f].breaker \in Breakers
  BY <1>1 DEF RiskInv, WorkIs, Loaded
<1>3. (~form[f].kill) \in BOOLEAN /\ [mode |-> "MANUAL", value |-> "pinned"] \in Breakers
  BY <1>2 DEF Breakers
<1>4. CASE SaveForm(f, ~form[f].kill, form[f].policy, form[f].breaker)
  BY <1>2, <1>3, <1>4, SaveFormKeeps
<1>5. CASE \E p \in Policies : SaveForm(f, form[f].kill, p, form[f].breaker)
  BY <1>2, <1>5, SaveFormKeeps
<1>6. CASE SaveForm(f, form[f].kill, form[f].policy, [mode |-> "MANUAL", value |-> "pinned"])
  BY <1>2, <1>3, <1>6, SaveFormKeeps
<1> QED BY <1>4, <1>5, <1>6 DEF Edits

LEMMA ReadBreakerKeeps == ASSUME RiskAssumption, RiskInv, ReadBreaker PROVE RiskInv'
<1>1. /\ UNCHANGED gridVars /\ UNCHANGED lockVars /\ UNCHANGED job
      /\ kill' = kill /\ policy' = policy /\ breaker' = breaker /\ version' = version
      /\ top' = top /\ form' = form /\ derive' = "write"
  BY DEF ReadBreaker, settingsVars
<1>2. SettingsAre' /\ WorkIs' /\ FormsAreKnown'
  BY <1>1 DEF RiskInv, SettingsAre, WorkIs, FormsAreKnown
<1> QED BY <1>1, <1>2, WritersKeep

LEMMA WriteBreakerKeeps == ASSUME RiskAssumption, RiskInv, WriteBreaker PROVE RiskInv'
<1> DEFINE Writing == version' = version + 1 /\ breaker' = [breaker EXCEPT !.value = "derived"]
           Yields == breaker' = breaker /\ version' = version
<1>1. /\ UNCHANGED gridVars /\ UNCHANGED lockVars /\ UNCHANGED job
      /\ kill' = kill /\ policy' = policy /\ top' = top /\ form' = form /\ derive' = "idle"
      /\ (Writing \/ Yields)
  BY DEF WriteBreaker, Writes
<1>2. WorkIs'
  BY <1>1 DEF RiskInv, WorkIs
<1>3. CASE Writing
  <2>1. breaker' \in Breakers
    BY <1>3 DEF RiskInv, SettingsAre, Breakers
  <2>2. SettingsAre'
    BY <1>1, <1>3, <2>1, VersionGrows DEF RiskInv, SettingsAre
  <2>3. FormsAreKnown'
    BY <1>1, <1>3, WriteAgesForms DEF FormsAreKnown
  <2> QED BY <1>1, <1>2, <2>2, <2>3, WritersKeep
<1>4. CASE Yields
  <2>1. SettingsAre' /\ FormsAreKnown'
    BY <1>1, <1>4 DEF RiskInv, SettingsAre, FormsAreKnown
  <2> QED BY <1>1, <1>2, <2>1, WritersKeep
<1> HIDE DEF Writing, Yields
<1> QED BY <1>1, <1>3, <1>4

--------------------------------------------------------------------------

LEMMA RiskStarts == RiskAssumption /\ Init => RiskInv
<1> SUFFICES ASSUME RiskAssumption, Init PROVE RiskInv
  OBVIOUS
<1>1. SettingsAre
  BY DEF Init, SettingsAre, Breakers
<1>2. WorkIs
  BY DEF Init, WorkIs, TopUps
<1>3. LocksAre
  BY DEF Init, LocksAre
<1>4. FormsAreKnown
  BY DEF Init, FormsAreKnown, FormIsKnown
<1>5. GridsAre(state, grid, poured)
  <2>1. (CHOOSE p \in Plans : TRUE) \in Plans
    BY DEF RiskAssumption
  <2> DEFINE first == CHOOSE p \in Plans : TRUE
  <2>2. grid \in [Rows -> {first}] /\ state = [r \in Rows |-> "new"] /\ poured = [r \in Rows |-> 0]
    BY DEF Init
  <2>3. first \in Plans
    BY <2>1
  <2> HIDE DEF first
  <2>4. {r \in Rows : state[r] # "new"} = {}
    BY <2>2
  <2>5. IsFiniteSet({r \in Rows : state[r] # "new"})
    BY <2>4, FS_EmptySet
  <2> QED BY <2>2, <2>3, <2>5 DEF GridsAre
<1>6. EntriesAre
  <2>1. job = [d \in Deployers |-> Idle] /\ Idle \in Jobs
    BY DEF Init, Jobs
  <2>2. Idle.at \notin Locked /\ Idle.at # "insert"
    BY DEF Idle, Locked
  <2> QED BY <2>1, <2>2 DEF EntriesAre, HasLock, KeepsRoom
<1> QED BY <1>1, <1>2, <1>3, <1>4, <1>5, <1>6 DEF RiskInv

LEMMA RiskSteps == RiskAssumption /\ RiskInv /\ [Next]_vars => RiskInv'
<1> SUFFICES ASSUME RiskAssumption, RiskInv, [Next]_vars PROVE RiskInv'
  OBVIOUS
<1>1. ASSUME NEW d \in Deployers,
             \/ \E p \in Plans : EarlyCheck(d, p)
             \/ LastLook(d) \/ LockSymbol(d) \/ LockFleet(d) \/ ReadPolicy(d) \/ ReadGrids(d)
             \/ \E r \in Rows : InsertIntent(d, r)
             \/ SendCreate(d) \/ Abandon(d)
      PROVE  RiskInv'
  <2>1. CASE \E p \in Plans : EarlyCheck(d, p)
    BY <2>1, EarlyCheckMoves, MovesKeep
  <2>2. CASE LastLook(d)
    BY <2>2, LastLookMoves, MovesKeep
  <2>3. CASE LockSymbol(d)
    BY <2>3, LockSymbolMoves, MovesKeep
  <2>4. CASE LockFleet(d)
    BY <2>4, LockFleetMoves, MovesKeep
  <2>5. CASE ReadPolicy(d)
    BY <2>5, ReadPolicyMoves, MovesKeep
  <2>6. CASE ReadGrids(d)
    BY <2>6, ReadGridsMoves, MovesKeep
  <2>7. CASE \E r \in Rows : InsertIntent(d, r)
    BY <2>7, InsertIntentMoves, MovesKeep
  <2>8. CASE SendCreate(d)
    BY <2>8, SendCreateMoves, MovesKeep
  <2>9. CASE Abandon(d)
    BY <2>9, AbandonMoves, MovesKeep
  <2> QED BY <1>1, <2>1, <2>2, <2>3, <2>4, <2>5, <2>6, <2>7, <2>8, <2>9
<1>2. ASSUME NEW r \in Rows, Close(r) PROVE RiskInv'
  BY <1>2, CloseKeeps
<1>3. ASSUME NEW p \in Pourers,
             \/ \E r \in Rows, n \in Pours : TopUpCheck(p, r, n)
             \/ Pour(p) \/ PourRefused(p)
      PROVE  RiskInv'
  BY <1>3, TopUpKeeps, PourKeeps, PourRefusedKeeps
<1>4. ASSUME NEW on \in BOOLEAN, SetKillSwitch(on) PROVE RiskInv'
  BY <1>4, SetKillSwitchKeeps
<1>5. ASSUME NEW f \in Forms, LoadForm(f) \/ Edits(f) PROVE RiskInv'
  BY <1>5, LoadFormKeeps, EditsKeep
<1>6. CASE ReadBreaker
  BY <1>6, ReadBreakerKeeps
<1>7. CASE WriteBreaker
  BY <1>7, WriteBreakerKeeps
<1>8. CASE UNCHANGED vars
  <2>1. /\ UNCHANGED gridVars /\ UNCHANGED lockVars /\ UNCHANGED job
        /\ kill' = kill /\ policy' = policy /\ breaker' = breaker /\ version' = version
        /\ top' = top /\ form' = form /\ derive' = derive
    BY <1>8 DEF vars, settingsVars, workVars
  <2>2. SettingsAre' /\ WorkIs' /\ FormsAreKnown'
    BY <2>1 DEF RiskInv, SettingsAre, WorkIs, FormsAreKnown
  <2> QED BY <2>1, <2>2, WritersKeep
<1> QED BY <1>1, <1>2, <1>3, <1>4, <1>5, <1>6, <1>7, <1>8 DEF Next

\* What the admission of a new grid relies on: whoever has read the limits
\* (RecheckGridEntryCaps, RecheckPaperEntryCaps) holds its fleet's advisory
\* lock until the row is written, what it found free is free until then, no
\* row is written twice, and an admin's form that is as new as risk_settings
\* shows its kill switch as it is.
THEOREM AdmissionHolds == Spec => []RiskInv
<1> USE RiskAssumption
<1>1. Init => RiskInv
  BY RiskStarts
<1>2. RiskInv /\ [Next]_vars => RiskInv'
  BY RiskSteps
<1> QED BY <1>1, <1>2, PTL DEF Spec

\* A row that enters a fleet (InsertIntent, the PAPER insert) leaves the
\* fleet's grids within the limits its transaction read: the count and, without
\* what invest_in added meanwhile, the exposure of the account and the symbol.
THEOREM EntriesKeepTheLimits == Spec => EntryKeepsLimits
<1> DEFINE Kept ==
      \A d \in Deployers, r \in Rows :
          (state[r] = "new" /\ state'[r] = "open" /\ job[d].at = "insert" /\ job'[d] # job[d])
          => LET p == job[d].plan
                 n == p.invest * p.leverage
                 limits == job[d].limits
             IN  /\ CountFits(limits, p.fleet)
                 /\ EntryNotional(Open(p.fleet)) + n <= limits.account
                 /\ EntryNotional(OpenOn(p.fleet, p.symbol)) + n <= limits.symbol
<1>1. RiskInv => Kept
  <2> SUFFICES ASSUME RiskInv, NEW d \in Deployers, job[d].at = "insert"
               PROVE  LET p == job[d].plan
                          n == p.invest * p.leverage
                          limits == job[d].limits
                      IN  /\ CountFits(limits, p.fleet)
                          /\ EntryNotional(Open(p.fleet)) + n <= limits.account
                          /\ EntryNotional(OpenOn(p.fleet, p.symbol)) + n <= limits.symbol
    OBVIOUS
  <2> DEFINE p == job[d].plan   limits == job[d].limits
  <2>1. BotsFit(state, grid, limits, p) /\ WorthFits(state, grid, limits, p)
    BY DEF RiskInv, EntriesAre, KeepsRoom
  <2>2. /\ OpenIn(state, grid, p.fleet) = Open(p.fleet)
        /\ OpenOnIn(state, grid, p.fleet, p.symbol) = OpenOn(p.fleet, p.symbol)
    BY DEF OpenIn, OpenOnIn, Open, OpenOn
  <2>3. \A among : SumOver(among, Worth(grid)) = EntryNotional(among)
    BY DEF Worth, EntryNotional
  <2>4. CountFits(limits, p.fleet)
    BY <2>1, <2>2 DEF BotsFit, CountFits
  <2>5. /\ EntryNotional(Open(p.fleet)) + p.invest * p.leverage <= limits.account
        /\ EntryNotional(OpenOn(p.fleet, p.symbol)) + p.invest * p.leverage <= limits.symbol
    BY <2>1, <2>2, <2>3 DEF WorthFits
  <2> QED BY <2>4, <2>5
<1>2. Spec => []RiskInv
  BY AdmissionHolds
<1>3. Spec => [][Kept]_vars
  <2> HIDE DEF Kept
  <2> QED BY <1>1, <1>2, PTL
<1> QED BY <1>3 DEF EntryKeepsLimits, Kept

(* Which steps touch a form or the derivation. *)
LEMMA DeployersTouchNone ==
    ASSUME NEW d \in Deployers,
           \/ \E p \in Plans : EarlyCheck(d, p)
           \/ LastLook(d) \/ LockSymbol(d) \/ LockFleet(d) \/ ReadPolicy(d) \/ ReadGrids(d)
           \/ \E r \in Rows : InsertIntent(d, r)
           \/ SendCreate(d) \/ Abandon(d)
    PROVE  form' = form /\ derive' = derive
<1>1. CASE \E p \in Plans : EarlyCheck(d, p)
  BY <1>1 DEF EarlyCheck
<1>2. CASE LastLook(d) \/ LockSymbol(d) \/ LockFleet(d)
  BY <1>2 DEF LastLook, LockSymbol, LockFleet
<1>3. CASE ReadPolicy(d) \/ ReadGrids(d)
  BY <1>3 DEF ReadPolicy, ReadGrids
<1>4. CASE \E r \in Rows : InsertIntent(d, r)
  BY <1>4 DEF InsertIntent
<1>5. CASE SendCreate(d) \/ Abandon(d)
  BY <1>5 DEF SendCreate, Abandon
<1> QED BY <1>1, <1>2, <1>3, <1>4, <1>5

LEMMA WhoWrites ==
    ASSUME [Next]_vars
    PROVE  /\ form' = form \/ \E f \in Forms : LoadForm(f) \/ Edits(f)
           /\ derive' = derive \/ ReadBreaker \/ WriteBreaker
<1>1. CASE \E d \in Deployers :
             \/ \E p \in Plans : EarlyCheck(d, p)
             \/ LastLook(d) \/ LockSymbol(d) \/ LockFleet(d) \/ ReadPolicy(d) \/ ReadGrids(d)
             \/ \E r \in Rows : InsertIntent(d, r)
             \/ SendCreate(d) \/ Abandon(d)
  BY <1>1, DeployersTouchNone
<1>2. CASE \E r \in Rows : Close(r)
  BY <1>2 DEF Close, workVars
<1>3. CASE \E p \in Pourers :
             \/ \E r \in Rows, n \in Pours : TopUpCheck(p, r, n)
             \/ Pour(p) \/ PourRefused(p)
  <2>1. form' = form /\ derive' = derive
    BY <1>3 DEF TopUpCheck, Pour, PourRefused
  <2> QED BY <2>1
<1>4. CASE \E on \in BOOLEAN : SetKillSwitch(on)
  BY <1>4 DEF SetKillSwitch, workVars
<1>5. CASE \E f \in Forms : LoadForm(f) \/ Edits(f)
  <2>1. derive' = derive
    BY <1>5 DEF LoadForm, Edits, SaveForm
  <2> QED BY <1>5, <2>1
<1>6. CASE ReadBreaker \/ WriteBreaker
  BY <1>6 DEF ReadBreaker, WriteBreaker
<1>7. CASE UNCHANGED vars
  BY <1>7 DEF vars, workVars
<1> QED BY <1>1, <1>2, <1>3, <1>4, <1>5, <1>6, <1>7 DEF Next

LEMMA SaveRespects ==
    ASSUME RiskInv, NEW f \in Forms \ Tokenless, NEW g \in Forms, NEW on, NEW p, NEW b, SaveForm(g, on, p, b),
           kill, ~kill', form[f] # NoForm, form'[f] = NoForm
    PROVE  form[f].kill
<1>1. form' = [form EXCEPT ![g] = NoForm] /\ form \in [Forms -> Loaded \cup {NoForm}]
  BY DEF SaveForm, RiskInv, WorkIs
<1>2. g = f
  BY <1>1
<1>3. form[f].version = version
  BY <1>2 DEF SaveForm, settingsVars
<1>4. form[f].kill = kill
  BY <1>3 DEF RiskInv, FormsAreKnown, FormIsKnown
<1> QED BY <1>4

LEMMA EditRespects ==
    ASSUME RiskInv, NEW f \in Forms \ Tokenless, NEW g \in Forms, Edits(g),
           kill, ~kill', form[f] # NoForm, form'[f] = NoForm
    PROVE  form[f].kill
<1>1. \E on, p, b : SaveForm(g, on, p, b)
  BY DEF Edits
<1> QED BY <1>1, SaveRespects

\* UpdateSettings with the optimistic lock on updated_at: nobody disarms the
\* kill switch from a form that was loaded before it was armed and carries its
\* token, and the derivation of
\* the breaker's limit never overwrites one that an admin has pinned.
THEOREM StaleFormsYield == Spec => StaleWritersYield
<1> DEFINE FormsYield ==
             \A f \in Forms \ Tokenless :
               (kill /\ ~kill' /\ form[f] # NoForm /\ form'[f] = NoForm) => form[f].kill
           DerivationYields ==
             (breaker.mode = "MANUAL" /\ derive = "write" /\ derive' = "idle")
               => breaker' = breaker
<1>1. RiskInv /\ [Next]_vars => FormsYield
  <2> SUFFICES ASSUME RiskInv, [Next]_vars, NEW f \in Forms \ Tokenless,
                      kill, ~kill', form[f] # NoForm, form'[f] = NoForm
               PROVE  form[f].kill
    OBVIOUS
  <2>1. CASE form' = form
    BY <2>1
  <2>2. CASE \E g \in Forms : LoadForm(g)
    <3>1. PICK g \in Forms : LoadForm(g)
      BY <2>2
    <3> DEFINE now == [kill |-> kill, policy |-> policy, breaker |-> breaker, version |-> version]
    <3>2. form[g] = NoForm /\ form' = [form EXCEPT ![g] = now]
      BY <3>1 DEF LoadForm
    <3>3. g # f
      BY <3>2
    <3>4. form'[f] = form[f]
      <4>1. form \in [Forms -> Loaded \cup {NoForm}]
        BY DEF RiskInv, WorkIs
      <4> HIDE DEF now
      <4> QED BY <3>2, <3>3, <4>1
    <3> QED BY <3>4
  <2>3. CASE \E g \in Forms : Edits(g)
    BY <2>3, EditRespects
  <2> QED BY <2>1, <2>2, <2>3, WhoWrites
<1>2. [Next]_vars => DerivationYields
  <2> SUFFICES ASSUME [Next]_vars, breaker.mode = "MANUAL", derive = "write", derive' = "idle"
               PROVE  breaker' = breaker
    OBVIOUS
  <2>1. WriteBreaker
    BY WhoWrites DEF ReadBreaker
  <2> QED BY <2>1 DEF WriteBreaker
<1>3. Spec => []RiskInv
  BY AdmissionHolds
<1> DEFINE Yield ==
      /\ \A f \in Forms \ Tokenless :
             (kill /\ ~kill' /\ form[f] # NoForm /\ form'[f] = NoForm) => form[f].kill
      /\ (breaker.mode = "MANUAL" /\ derive = "write" /\ derive' = "idle")
             => breaker' = breaker
<1>4. FormsYield /\ DerivationYields => Yield
  OBVIOUS
<1>5. Spec => [][Yield]_vars
  <2> HIDE DEF FormsYield, DerivationYields, Yield
  <2> QED BY <1>1, <1>2, <1>3, <1>4, PTL DEF Spec
<1> QED BY <1>5 DEF StaleWritersYield, Yield

--------------------------------------------------------------------------
\* MarketScan: what the scoring of one symbol makes of its reading.

ModesAre == [directional : BOOLEAN, cascade : BOOLEAN, require : BOOLEAN, brain : BOOLEAN]

LEMMA TrendIs ==
    ASSUME NEW r \in Readings, NEW m \in ModesAre, NEW way, way = FirstTrend(r, m)
    PROVE  /\ way \in Ways
           /\ way # 0 => /\ m.directional /\ ~r.narrow
                         /\ r.ema = way /\ way * r.slope > 15 /\ way * r.return >= -3
                         /\ way * r.day > -3
<1>1. r.ema \in Ways /\ r.slope \in Int /\ r.return \in Int /\ r.day \in Int
  BY DEF Readings
<1>2. CASE way = 0
  BY <1>2 DEF Ways
<1>3. CASE way # 0
  <2>1. m.directional /\ ~r.narrow /\ ~(RegimeOf(r) * r.day <= -3) /\ way = RegimeOf(r)
    BY <1>3 DEF FirstTrend
  <2>2. /\ r.ema = way /\ Backs(r, way)
        /\ Steep(r) \/ (r.ema * r.slope > 15 /\ r.adx >= 22 /\ r.chop <= 52)
    BY <1>3, <2>1 DEF RegimeOf
  <2>3. way \in Ways /\ ~(way * r.day <= -3) /\ way * r.return >= -3
        /\ (way * r.slope >= 50 \/ way * r.slope > 15)
    BY <1>1, <2>1, <2>2 DEF Backs, Steep
  <2>4. CASE way = 1
    BY <1>1, <2>1, <2>2, <2>3, <2>4
  <2>5. CASE way = -1
    BY <1>1, <2>1, <2>2, <2>3, <2>5
  <2> QED BY <1>3, <2>3, <2>4, <2>5 DEF Ways
<1> QED BY <1>2, <1>3

LEMMA Accepting ==
    ASSUME NEW r, NEW m, Judgement(r, m).accepted
    PROVE  /\ Judgement(r, m).trend = FirstTrend(r, m)
           /\ ~Opposed(r, FirstTrend(r, m)) /\ ~r.poor
           /\ FirstTrend(r, m) = 0 => NeutralReasons(r) = {} /\ PersistenceReasons(r) = {}
           /\ FirstTrend(r, m) = 1 => LongReasons(r) = {}
           /\ FirstTrend(r, m) = -1 => ShortReasons(r, m) = {}
<1> DEFINE first == FirstTrend(r, m)
           trend == IF Opposed(r, first) THEN 0 ELSE first
           reasons == EntryReasons(r, first, m)
                      \cup (IF Opposed(r, first) THEN {"confluence"} ELSE {})
                      \cup (IF trend = 0 THEN PersistenceReasons(r) ELSE {})
<1>1. Judgement(r, m) = [trend |-> trend, accepted |-> reasons = {}]
  BY DEF Judgement
<1>2. reasons = {}
  <2> DEFINE acc == reasons = {}
  <2>1. Judgement(r, m) = [trend |-> trend, accepted |-> acc]
    BY <1>1
  <2> HIDE DEF trend, acc
  <2>2. Judgement(r, m).accepted = acc
    BY <2>1
  <2>3. acc
    BY <2>2
  <2> QED BY <2>3 DEF acc
<1>3. Judgement(r, m).trend = trend
  <2> DEFINE acc == reasons = {}
  <2>1. Judgement(r, m) = [trend |-> trend, accepted |-> acc]
    BY <1>1
  <2> HIDE DEF trend, acc
  <2> QED BY <2>1
<1>4. ~Opposed(r, first) /\ EntryReasons(r, first, m) = {}
  <2> HIDE DEF first
  <2> QED BY <1>2
<1>5. trend = first /\ (first = 0 => PersistenceReasons(r) = {})
  <2> HIDE DEF first
  <2> QED BY <1>2, <1>4
<1>6. /\ ~r.poor /\ (first = 0 => NeutralReasons(r) = {}) /\ (first = 1 => LongReasons(r) = {})
      /\ (first = -1 => ShortReasons(r, m) = {})
  <2> HIDE DEF first
  <2> QED BY <1>4 DEF EntryReasons
<1> QED BY <1>3, <1>4, <1>5, <1>6

LEMMA JudgedFits ==
    ASSUME mode \in ModesAre, NEW r \in Readings, Judgement(r, mode).accepted
    PROVE  ~r.poor /\ Fits(r, Judgement(r, mode).trend)
<1> DEFINE way == FirstTrend(r, mode)
<1>1. /\ Judgement(r, mode).trend = way /\ ~Opposed(r, way) /\ ~r.poor
      /\ way = 0 => NeutralReasons(r) = {} /\ PersistenceReasons(r) = {}
      /\ way = 1 => LongReasons(r) = {}
      /\ way = -1 => ShortReasons(r, mode) = {}
  BY Accepting
<1>2. /\ way \in Ways
      /\ way # 0 => /\ mode.directional /\ ~r.narrow
                    /\ r.ema = way /\ way * r.slope > 15 /\ way * r.return >= -3
                    /\ way * r.day > -3
  BY TrendIs
<1> HIDE DEF way
<1>3. {r.adx, r.slope, r.day, r.quarter, r.rsi, r.position, r.efficiency, r.halfLife} \subseteq Int
  BY DEF Readings
<1>4. CASE way = 0
  <2> DEFINE Why == {"squeeze", "trending", "dead zone", "half-life", "RSI", "position"}
             Holds(why) ==
               CASE why = "squeeze" -> r.squeeze /\ ~(r.adx < 20 /\ r.chop > 55)
                 [] why = "trending" -> \/ r.adx > 32 \/ Magnitude(r.slope) > 300
                                        \/ Magnitude(r.day) > 8 \/ Magnitude(r.quarter) > 4
                 [] why = "dead zone" -> r.adx \in 24 .. 32
                 [] why = "half-life" -> r.halfLife > 0 /\ r.halfLife < 2
                 [] why = "RSI" -> r.rsi \notin 40 .. 60
                 [] OTHER -> r.position \notin 20 .. 80
  <2>1. \A why \in Why : ~Holds(why)
    BY <1>1, <1>4 DEF NeutralReasons
  <2>2. ~Holds("trending") /\ ~Holds("dead zone") /\ ~Holds("half-life") /\ ~Holds("RSI")
        /\ ~Holds("position")
    <3> HIDE DEF Holds
    <3> QED BY <2>1
  <2>3. /\ ~(r.adx > 32) /\ ~(Magnitude(r.slope) > 300) /\ ~(Magnitude(r.day) > 8)
        /\ ~(Magnitude(r.quarter) > 4)
    BY <2>2
  <2>4. r.adx \notin 24 .. 32 /\ ~(r.halfLife > 0 /\ r.halfLife < 2) /\ r.rsi \in 40 .. 60
        /\ r.position \in 20 .. 80
    BY <2>2
  <2>5. Magnitude(r.slope) \in Int /\ Magnitude(r.day) \in Int /\ Magnitude(r.quarter) \in Int
    BY <1>3 DEF Magnitude
  <2>6. r.hurst # "danger" /\ ~(r.efficiency > 60)
    BY <1>1, <1>4 DEF PersistenceReasons
  <2>7. /\ r.adx < 24 \/ r.adx > 32
        /\ r.adx <= 32 /\ Magnitude(r.slope) <= 300 /\ Magnitude(r.day) <= 8
        /\ Magnitude(r.quarter) <= 4 /\ r.efficiency <= 60
    BY <1>3, <2>3, <2>4, <2>5, <2>6
  <2>8. Fits(r, 0)
    BY <2>4, <2>6, <2>7 DEF Fits
  <2> QED BY <1>1, <1>4, <2>8
<1>5. CASE way = 1
  <2>1. Confluence(r) # "SUPPORT_SHORT"
    BY <1>1, <1>5 DEF Opposed
  <2>2. r.rsi <= 78 /\ r.position <= 75
    BY <1>1, <1>3, <1>5 DEF LongReasons
  <2>3. Fits(r, 1)
    BY <1>2, <1>5, <2>1, <2>2 DEF Fits
  <2> QED BY <1>1, <1>5, <2>3
<1>6. CASE way = -1
  <2>1. Confluence(r) # "SUPPORT_LONG"
    BY <1>1, <1>6 DEF Opposed
  <2>2. ~mode.cascade => (r.rsi >= 22 /\ r.position >= 12) \/ (r.rsi \notin 1 .. 29 /\ Strong(r))
    <3>1. CASE FloorsLifted(r, mode)
      BY <1>3, <3>1 DEF FloorsLifted
    <3>2. CASE ~FloorsLifted(r, mode)
      BY <1>1, <1>3, <1>6, <3>2 DEF ShortReasons
    <3> QED BY <3>1, <3>2
  <2>3. Fits(r, -1)
    <3> DEFINE Floors == (r.rsi >= 22 /\ r.position >= 12) \/ (r.rsi \notin 1 .. 29 /\ Strong(r))
    <3>1. ~mode.cascade => Floors
      BY <2>2
    <3> HIDE DEF Floors
    <3>2. /\ mode.directional /\ ~r.narrow
          /\ r.ema = -1 /\ (-1) * r.slope > 15 /\ (-1) * r.return >= -3
          /\ (-1) * r.day > -3
      BY <1>2, <1>6
    <3> QED BY <2>1, <3>1, <3>2 DEF Fits, Floors
  <2> QED BY <1>1, <1>6, <2>3
<1> QED BY <1>2, <1>4, <1>5, <1>6 DEF Ways


--------------------------------------------------------------------------
ScanRows == [symbol : Nat, trend : Ways, accepted : BOOLEAN, score : 0 .. 2, marked : BOOLEAN]
ScanSteps == [status : {"none", "RUNNING", "SUCCEEDED", "FAILED"}, live : BOOLEAN,
              pc : {"begin", "universe", "pool", "review", "hand over", "over"}]
SymbolsOf(S) == {r.symbol : r \in S}
OneEach(S) == \A a, b \in S : a.symbol = b.symbol => a = b
Judges(r, t, m) ==
    r.accepted => /\ Judgement(t[r.symbol].reading, m).accepted
                  /\ Judgement(t[r.symbol].reading, m).trend = r.trend

PoolIs(p, active) ==
    /\ p = [jobs |-> p.jobs, hands |-> p.hands, results |-> p.results]
    /\ p.jobs \subseteq active
    /\ p.hands \in [DOMAIN p.hands -> active \cup {Free, Gone}]
    /\ p.results \subseteq ScanRows /\ IsFiniteSet(p.results)
    /\ SymbolsOf(p.results) \subseteq active /\ OneEach(p.results)
    /\ \A r \in p.results : ~r.marked
(* A symbol is waiting, in one worker's hands or among the results. *)
PoolWorks(p, active) ==
    /\ p.jobs \cap SymbolsOf(p.results) = {}
    /\ \A h \in DOMAIN p.hands : p.hands[h] \in active =>
          /\ p.hands[h] \notin p.jobs \cup SymbolsOf(p.results)
          /\ \A g \in DOMAIN p.hands : g # h => p.hands[g] # p.hands[h]
PoolCovers(p, active) ==
    /\ \A k \in active : \/ k \in p.jobs \/ k \in SymbolsOf(p.results)
                         \/ \E h \in DOMAIN p.hands : p.hands[h] = k
    /\ DOMAIN p.hands # {}
    /\ (\E h \in DOMAIN p.hands : p.hands[h] = Gone) => p.jobs = {}
PoolInv(p, active, t, m) ==
    /\ PoolIs(p, active) /\ PoolWorks(p, active) /\ \A r \in p.results : Judges(r, t, m)

RowsFrom(results, kept) ==
    /\ kept \subseteq ScanRows /\ IsFiniteSet(kept) /\ OneEach(kept)
    /\ \A r \in kept : r.accepted => [r EXCEPT !.marked = FALSE] \in results
    /\ \A r \in results : r.accepted =>
          r.symbol \in SymbolsOf(kept) \/ \A k \in kept : k \in results => k.accepted
Written(results, kept, active) ==
    /\ SymbolsOf(results) = active
    /\ Cardinality(kept) = Min({MaxSymbols, Cardinality(active)})
    /\ RowsFrom(results, kept)
Approved(kept, answers, done) ==
    \A r \in kept : r.accepted /\ r.marked =>
        r.symbol \in done /\ r.symbol \in DOMAIN answers /\ answers[r.symbol] = "approved"

ScanIs ==
    /\ tape \in Tapes /\ mode \in Modes /\ scan \in ScanSteps
    /\ review = [done |-> review.done, answers |-> review.answers, readable |-> review.readable,
                 handed |-> review.handed]
StatusIs ==
    /\ scan.status = "SUCCEEDED" => /\ scan.pc \in {"review", "hand over", "over"}
                                    /\ Written(pool.results, rows, Active)
    /\ scan.status # "SUCCEEDED" => rows = {} /\ review.handed = {}
ReviewIs ==
    /\ Approved(rows, review.answers, review.done)
    /\ review.handed # {} => scan.pc = "over"
    /\ \A r \in review.handed : r \in rows /\ Deployable(r, mode.brain /\ review.readable)
ScanInv ==
    /\ ScanIs /\ PoolInv(pool, Active, tape, mode) /\ StatusIs /\ ReviewIs
    /\ scan.pc = "pool" /\ scan.live => PoolCovers(pool, Active)

LEMMA ActiveIs ==
    ASSUME MarketScanAssumption, tape \in Tapes
    PROVE  /\ Active \subseteq DOMAIN tape /\ Active \subseteq Nat \ {0} /\ IsFiniteSet(Active)
           /\ Free \notin Active /\ Gone \notin Active
           /\ \A k \in Active : tape[k].reading \in Readings
<1>1. DOMAIN tape \subseteq Nat \ {0} /\ IsFiniteSet(DOMAIN tape)
      /\ tape \in [DOMAIN tape -> [fit : BOOLEAN, lively : BOOLEAN, reading : Readings]]
  BY DEF MarketScanAssumption
<1>2. Active \subseteq DOMAIN tape
  BY DEF Active, First, Lively, Fitting
<1>3. IsFiniteSet(Active)
  BY <1>1, <1>2, FS_Subset
<1>4. \A k \in DOMAIN tape : tape[k].reading \in Readings
  BY <1>1
<1>5. Free \notin Nat \ {0} /\ Gone \notin Nat
  BY DEF Free, Gone
<1> QED BY <1>1, <1>2, <1>3, <1>4, <1>5

LEMMA OneEachCounts ==
    ASSUME NEW S, IsFiniteSet(S), OneEach(S)
    PROVE  IsFiniteSet(SymbolsOf(S)) /\ Cardinality(SymbolsOf(S)) = Cardinality(S)
<1> DEFINE f == [r \in S |-> r.symbol]
<1>1. f \in Bijection(S, SymbolsOf(S))
  <2>1. f \in [S -> SymbolsOf(S)]
    BY DEF SymbolsOf
  <2>2. \A a, b \in S : f[a] = f[b] => a = b
    BY DEF OneEach
  <2>3. \A k \in SymbolsOf(S) : \E r \in S : f[r] = k
    BY DEF SymbolsOf
  <2> HIDE DEF f
  <2> QED BY <2>1, <2>2, <2>3 DEF Bijection, Injection, Surjection, IsInjective
<1>2. ExistsBijection(S, SymbolsOf(S))
  BY <1>1 DEF ExistsBijection
<1> QED BY <1>2, FS_Bijection

LEMMA ScanStarts == MarketScanAssumption /\ ScanInit => ScanInv
<1> SUFFICES ASSUME MarketScanAssumption, ScanInit PROVE ScanInv
  OBVIOUS
<1>1. /\ tape \in Tapes /\ mode \in Modes
      /\ scan = [status |-> "none", pc |-> "begin", live |-> TRUE]
      /\ pool = [jobs |-> {}, hands |-> <<>>, results |-> {}] /\ rows = {}
      /\ review = [done |-> {}, answers |-> <<>>, readable |-> TRUE, handed |-> {}]
  BY DEF ScanInit
<1>2. ScanIs
  BY <1>1 DEF ScanIs, ScanSteps
<1>3. pool.jobs = {} /\ pool.results = {} /\ pool.hands = <<>> /\ DOMAIN pool.hands = {}
  BY <1>1
<1>4. PoolInv(pool, Active, tape, mode)
  <2>1. PoolIs(pool, Active)
    <3>1. pool = [jobs |-> pool.jobs, hands |-> pool.hands, results |-> pool.results]
      BY <1>1
    <3>2. pool.hands \in [DOMAIN pool.hands -> Active \cup {Free, Gone}]
      BY <1>3
    <3>3. SymbolsOf(pool.results) = {} /\ IsFiniteSet(pool.results) /\ OneEach(pool.results)
      BY <1>3, FS_EmptySet DEF SymbolsOf, OneEach
    <3> QED BY <1>3, <3>1, <3>2, <3>3 DEF PoolIs
  <2>2. PoolWorks(pool, Active)
    BY <1>3 DEF PoolWorks
  <2> QED BY <1>3, <2>1, <2>2 DEF PoolInv
<1>5. scan.status = "none" /\ scan.pc = "begin" /\ review.handed = {}
  BY <1>1
<1>6. StatusIs /\ ReviewIs
  BY <1>1, <1>5 DEF StatusIs, ReviewIs, Approved
<1> QED BY <1>2, <1>4, <1>5, <1>6 DEF ScanInv

LEMMA ActiveStays == ASSUME tape' = tape PROVE Active' = Active
  BY DEF Active, First, Lively, Fitting

(* Steps that move the scan on, and nothing else. *)
LEMMA ScanMoves ==
    ASSUME ScanInv, UNCHANGED <<tape, mode, pool, rows, review>>, scan' \in ScanSteps,
           scan'.status = "SUCCEEDED" <=> scan.status = "SUCCEEDED",
           scan'.status = "SUCCEEDED" => scan'.pc \in {"review", "hand over", "over"},
           scan'.pc # "pool" \/ ~scan'.live,
           review.handed # {} => scan'.pc = "over"
    PROVE  ScanInv'
<1>1. Active' = Active
  BY ActiveStays
<1>2. ScanIs'
  BY DEF ScanInv, ScanIs
<1>3. PoolInv(pool, Active, tape, mode)'
  BY <1>1 DEF ScanInv
<1>4. StatusIs'
  BY <1>1 DEF ScanInv, StatusIs
<1>5. ReviewIs'
  BY DEF ScanInv, ReviewIs, Deployable
<1> QED BY <1>2, <1>3, <1>4, <1>5 DEF ScanInv

(* Steps of the pool. *)
LEMMA PoolSteps ==
    ASSUME ScanInv, scan.pc = "pool", UNCHANGED <<tape, mode, scan, rows, review>>,
           PoolInv(pool', Active, tape, mode), scan.live => PoolCovers(pool', Active)
    PROVE  ScanInv'
<1>1. Active' = Active
  BY ActiveStays
<1>2. ScanIs'
  BY DEF ScanInv, ScanIs
<1>3. PoolInv(pool, Active, tape, mode)'
  BY <1>1
<1>4. StatusIs'
  BY DEF ScanInv, StatusIs
<1>5. ReviewIs'
  BY DEF ScanInv, ReviewIs, Deployable
<1>6. (scan.pc = "pool" /\ scan.live => PoolCovers(pool, Active))'
  BY <1>1
<1> QED BY <1>2, <1>3, <1>4, <1>5, <1>6 DEF ScanInv

LEMMA BeginKeeps == ASSUME ScanInv, BeginScan PROVE ScanInv'
<1>1. /\ scan.pc = "begin" /\ scan' = [[scan EXCEPT !.status = "RUNNING"] EXCEPT !.pc = "universe"]
      /\ UNCHANGED <<tape, mode, pool, rows, review>>
  BY DEF BeginScan
<1>2. scan \in ScanSteps /\ scan.status # "SUCCEEDED" /\ review.handed = {}
  BY <1>1 DEF ScanInv, ScanIs, StatusIs
<1>3. scan' \in ScanSteps /\ scan'.status = "RUNNING" /\ scan'.pc = "universe"
  BY <1>1, <1>2 DEF ScanSteps
<1> QED BY <1>1, <1>2, <1>3, ScanMoves

LEMMA CancelKeeps == ASSUME ScanInv, CancelScan PROVE ScanInv'
<1>1. /\ scan.pc # "begin" /\ scan.pc # "over" /\ scan' = [scan EXCEPT !.live = FALSE]
      /\ UNCHANGED <<tape, mode, pool, rows, review>>
  BY DEF CancelScan
<1>2. scan \in ScanSteps /\ (scan.status = "SUCCEEDED" => scan.pc \in {"review", "hand over", "over"})
      /\ (review.handed # {} => scan.pc = "over")
  BY DEF ScanInv, ScanIs, StatusIs, ReviewIs
<1>3. scan' \in ScanSteps /\ scan'.status = scan.status /\ scan'.pc = scan.pc /\ ~scan'.live
  BY <1>1, <1>2 DEF ScanSteps
<1> QED BY <1>1, <1>2, <1>3, ScanMoves

LEMMA SkipKeeps == ASSUME ScanInv, SkipReview PROVE ScanInv'
<1>1. /\ scan.pc = "review" /\ scan' = [scan EXCEPT !.pc = "hand over"]
      /\ UNCHANGED <<tape, mode, pool, rows, review>>
  BY DEF SkipReview
<1>2. scan \in ScanSteps /\ review.handed = {}
  BY <1>1 DEF ScanInv, ScanIs, ReviewIs
<1>3. scan' \in ScanSteps /\ scan'.status = scan.status /\ scan'.pc = "hand over"
  BY <1>1, <1>2 DEF ScanSteps
<1> QED BY <1>1, <1>2, <1>3, ScanMoves

LEMMA CrashKeeps == ASSUME ScanInv, ScanCrash PROVE ScanInv'
<1>1. PICK old \in BOOLEAN : scan' = [scan EXCEPT !.pc = "over",
                     !.status = IF old /\ @ = "RUNNING" THEN "FAILED" ELSE @]
  BY DEF ScanCrash
<1> DEFINE s == IF old /\ scan.status = "RUNNING" THEN "FAILED" ELSE scan.status
<1>2. scan \in ScanSteps
  BY DEF ScanInv, ScanIs
<1>3. scan' = [[scan EXCEPT !.pc = "over"] EXCEPT !.status = s]
  BY <1>1, <1>2 DEF ScanSteps
<1>4. s \in {"none", "RUNNING", "SUCCEEDED", "FAILED"}
  BY <1>2 DEF ScanSteps
<1>5. s = "SUCCEEDED" <=> scan.status = "SUCCEEDED"
  OBVIOUS
<1> HIDE DEF s
<1>6. scan' \in ScanSteps /\ scan'.status = s /\ scan'.pc = "over"
  BY <1>2, <1>3, <1>4 DEF ScanSteps
<1>7. UNCHANGED <<tape, mode, pool, rows, review>>
  BY DEF ScanCrash
<1> QED BY <1>5, <1>6, <1>7, ScanMoves

LEMMA FailedMoves ==
    ASSUME ScanInv, scan.pc \in {"universe", "pool"}, scan' = Failed(scan),
           UNCHANGED <<tape, mode, pool, rows, review>>
    PROVE  ScanInv'
<1> DEFINE s == IF scan.live THEN "FAILED" ELSE scan.status
<1>1. scan \in ScanSteps /\ scan.status # "SUCCEEDED"
  BY DEF ScanInv, ScanIs, StatusIs
<1>2. scan' = [[scan EXCEPT !.pc = "over"] EXCEPT !.status = s]
  BY <1>1 DEF Failed, ScanSteps
<1>3. s \in {"none", "RUNNING", "FAILED"}
  BY <1>1 DEF ScanSteps
<1> HIDE DEF s
<1>4. scan' \in ScanSteps /\ scan'.status = s /\ scan'.pc = "over"
  BY <1>1, <1>2, <1>3 DEF ScanSteps
<1> QED BY <1>1, <1>3, <1>4, ScanMoves

LEMMA MinOf == ASSUME NEW S, S \subseteq Nat, S # {} PROVE Min(S) \in S /\ Min(S) \in Nat
<1>1. \E x \in S : \A y \in S : x =< y
  BY LeastOne
<1>2. Min(S) \in S
  BY <1>1 DEF Min
<1> QED BY <1>2

LEMMA SomeHand == ASSUME MarketScanAssumption, tape \in Tapes PROVE Hands # {}
<1> DEFINE n == Min({HandCap, Cardinality(Active)})
           most == Max({1, n})
<1>1. n \in Nat
  <2>1. HandCap \in Nat /\ Cardinality(Active) \in Nat
    BY ActiveIs, FS_CardinalityType DEF MarketScanAssumption
  <2> DEFINE both == {HandCap, Cardinality(Active)}
  <2>2. both \subseteq Nat /\ both # {}
    BY <2>1
  <2> HIDE DEF both
  <2>3. Min(both) \in Nat
    BY <2>2, MinOf
  <2> QED BY <2>3 DEF both
<1> HIDE DEF n
<1>2. most \in {1, n} /\ most >= 1
  <2>1. \E x \in {1, n} : \A y \in {1, n} : x >= y
    <3>1. CASE n >= 1
      BY <1>1, <3>1
    <3>2. CASE ~(n >= 1)
      BY <1>1, <3>2
    <3> QED BY <3>1, <3>2
  <2>2. most \in {1, n} /\ \A y \in {1, n} : most >= y
    BY <2>1 DEF Max
  <2> QED BY <2>2
<1>3. Hands = 1 .. most
  BY DEF Hands, n
<1>4. 1 \in 1 .. most
  <2> HIDE DEF most
  <2> QED BY <1>1, <1>2
<1> QED BY <1>3, <1>4

LEMMA FetchKeeps == ASSUME MarketScanAssumption, ScanInv, FetchUniverse PROVE ScanInv'
<1> DEFINE fresh == [jobs |-> Active, hands |-> [h \in Hands |-> Free], results |-> {}]
           Fails == scan' = Failed(scan) /\ pool' = pool
           Fetched == scan' = [scan EXCEPT !.pc = "pool"] /\ pool' = fresh
<1>1. /\ scan.pc = "universe" /\ UNCHANGED <<tape, mode, rows, review>>
      /\ (Fails \/ Fetched)
  BY DEF FetchUniverse
<1>2. CASE Fails
  BY <1>1, <1>2, FailedMoves
<1>3. CASE Fetched
  <2>1. scan \in ScanSteps /\ scan.status # "SUCCEEDED" /\ tape \in Tapes /\ rows = {} /\ review.handed = {}
    BY <1>1 DEF ScanInv, ScanIs, StatusIs
  <2>2. scan' \in ScanSteps /\ scan'.status # "SUCCEEDED" /\ scan'.pc = "pool"
    BY <1>3, <2>1 DEF ScanSteps
  <2>3. Active' = Active
    BY <1>1, ActiveStays
  <2>4. Free \notin Active /\ Free # Gone
    BY <2>1, ActiveIs DEF Free, Gone
  <2>5. fresh.jobs = Active /\ fresh.hands = [h \in Hands |-> Free] /\ fresh.results = {}
    OBVIOUS
  <2>6. fresh = [jobs |-> fresh.jobs, hands |-> fresh.hands, results |-> fresh.results]
    OBVIOUS
  <2> HIDE DEF fresh
  <2>7. PoolIs(fresh, Active)
    <3>1. SymbolsOf(fresh.results) = {} /\ IsFiniteSet(fresh.results) /\ OneEach(fresh.results)
      BY <2>5, FS_EmptySet DEF SymbolsOf, OneEach
    <3>2. fresh.hands \in [DOMAIN fresh.hands -> Active \cup {Free, Gone}]
      BY <2>5
    <3> QED BY <2>5, <2>6, <3>1, <3>2 DEF PoolIs
  <2>8. PoolWorks(fresh, Active)
    <3>1. SymbolsOf(fresh.results) = {}
      BY <2>5 DEF SymbolsOf
    <3>2. \A h \in DOMAIN fresh.hands : fresh.hands[h] \notin Active
      BY <2>4, <2>5
    <3> QED BY <3>1, <3>2 DEF PoolWorks
  <2>9. PoolCovers(fresh, Active)
    <3>1. DOMAIN fresh.hands # {}
      BY <2>1, <2>5, SomeHand
    <3>2. \A h \in DOMAIN fresh.hands : fresh.hands[h] # Gone
      BY <2>4, <2>5
    <3> QED BY <2>5, <3>1, <3>2 DEF PoolCovers
  <2>10. PoolInv(fresh, Active, tape, mode)
    BY <2>5, <2>7, <2>8 DEF PoolInv
  <2>11. ScanIs'
    BY <1>1, <2>2 DEF ScanInv, ScanIs
  <2>12. StatusIs' /\ ReviewIs'
    BY <1>1, <2>1, <2>2 DEF StatusIs, ReviewIs, Approved
  <2>13. PoolInv(pool, Active, tape, mode)'
    BY <1>1, <1>3, <2>3, <2>10
  <2>14. PoolCovers(pool, Active)'
    BY <1>3, <2>3, <2>9
  <2> QED BY <2>11, <2>12, <2>13, <2>14 DEF ScanInv
<1> HIDE DEF Fails, Fetched
<1> QED BY <1>1, <1>2, <1>3

LEMMA PoolKnown ==
    ASSUME MarketScanAssumption, ScanInv
    PROVE  /\ PoolIs(pool, Active) /\ PoolWorks(pool, Active)
           /\ \A r \in pool.results : Judges(r, tape, mode)
           /\ tape \in Tapes /\ mode \in Modes
           /\ Active \subseteq Nat \ {0} /\ IsFiniteSet(Active) /\ Free \notin Active /\ Gone \notin Active
           /\ Free # Gone
<1>1. tape \in Tapes /\ mode \in Modes
  BY DEF ScanInv, ScanIs
<1>2. Free # Gone
  BY DEF Free, Gone
<1> QED BY <1>1, <1>2, ActiveIs DEF ScanInv, PoolInv

LEMMA TakeKeeps ==
    ASSUME MarketScanAssumption, ScanInv, NEW h \in DOMAIN pool.hands, TakeJob(h)
    PROVE  ScanInv'
<1> DEFINE k == Min(pool.jobs)
           held == IF scan.live THEN k ELSE Gone
<1>1. /\ scan.pc = "pool" /\ pool.hands[h] = Free /\ pool.jobs # {}
      /\ pool' = [[pool EXCEPT !.jobs = pool.jobs \ {k}] EXCEPT !.hands[h] = held]
      /\ UNCHANGED <<tape, mode, scan, rows, review>>
  BY DEF TakeJob
<1>2. /\ PoolIs(pool, Active) /\ PoolWorks(pool, Active)
      /\ \A r \in pool.results : Judges(r, tape, mode)
      /\ Active \subseteq Nat \ {0} /\ Free \notin Active /\ Gone \notin Active /\ Free # Gone
  BY PoolKnown
<1>3. k \in pool.jobs /\ k \in Active
  <2>1. pool.jobs \subseteq Nat
    BY <1>2 DEF PoolIs
  <2>2. k \in pool.jobs
    BY <1>1, <2>1, MinOf
  <2> QED BY <1>2, <2>2 DEF PoolIs
<1>4. held \in Active \cup {Gone} /\ (held \in Active => held = k)
      /\ (scan.live => held = k) /\ (held = Gone => ~scan.live)
  BY <1>2, <1>3
<1> HIDE DEF k, held
<1>5. /\ pool'.jobs = pool.jobs \ {k} /\ pool'.results = pool.results
      /\ pool'.hands = [pool.hands EXCEPT ![h] = held]
      /\ pool' = [jobs |-> pool'.jobs, hands |-> pool'.hands, results |-> pool'.results]
  BY <1>1, <1>2 DEF PoolIs
<1>6. /\ DOMAIN pool'.hands = DOMAIN pool.hands /\ pool'.hands[h] = held
      /\ \A g \in DOMAIN pool.hands : g # h => pool'.hands[g] = pool.hands[g]
  BY <1>2, <1>5 DEF PoolIs
<1>7. PoolIs(pool', Active)
  <2>1. pool'.hands \in [DOMAIN pool'.hands -> Active \cup {Free, Gone}]
    BY <1>2, <1>4, <1>5 DEF PoolIs
  <2> QED BY <1>2, <1>5, <2>1 DEF PoolIs
<1>8. PoolWorks(pool', Active)
  <2>1. pool'.jobs \cap SymbolsOf(pool'.results) = {}
    BY <1>2, <1>5 DEF PoolWorks
  <2>2. ASSUME NEW g \in DOMAIN pool.hands, pool'.hands[g] \in Active
        PROVE  /\ pool'.hands[g] \notin pool'.jobs \cup SymbolsOf(pool'.results)
               /\ \A i \in DOMAIN pool.hands : i # g => pool'.hands[i] # pool'.hands[g]
    <3>1. CASE g = h
      <4>1. pool'.hands[g] = k
        BY <1>4, <1>6, <2>2, <3>1
      <4>2. k \notin SymbolsOf(pool.results)
        BY <1>2, <1>3 DEF PoolWorks
      <4>3. \A i \in DOMAIN pool.hands : i # g => pool.hands[i] # k
        BY <1>2, <1>3 DEF PoolWorks
      <4> QED BY <1>5, <1>6, <3>1, <4>1, <4>2, <4>3
    <3>2. CASE g # h
      <4>1. pool'.hands[g] = pool.hands[g] /\ pool.hands[g] \in Active
        BY <1>6, <2>2, <3>2
      <4>2. /\ pool.hands[g] \notin pool.jobs \cup SymbolsOf(pool.results)
            /\ \A i \in DOMAIN pool.hands : i # g => pool.hands[i] # pool.hands[g]
        BY <1>2, <4>1 DEF PoolWorks
      <4>3. pool'.hands[h] # pool.hands[g]
        BY <1>2, <1>3, <1>4, <1>6, <4>1, <4>2
      <4> QED BY <1>5, <1>6, <4>1, <4>2, <4>3
    <3> QED BY <3>1, <3>2
  <2> QED BY <1>6, <2>1, <2>2 DEF PoolWorks
<1>9. PoolInv(pool', Active, tape, mode)
  BY <1>2, <1>5, <1>7, <1>8 DEF PoolInv
<1>10. ASSUME scan.live PROVE PoolCovers(pool', Active)
  <2>1. PoolCovers(pool, Active)
    BY <1>1, <1>10 DEF ScanInv
  <2>2. ASSUME NEW j \in Active
        PROVE  \/ j \in pool'.jobs \/ j \in SymbolsOf(pool'.results)
               \/ \E g \in DOMAIN pool'.hands : pool'.hands[g] = j
    <3>1. CASE j = k
      BY <1>4, <1>6, <1>10, <3>1
    <3>2. CASE j # k
      <4>1. \/ j \in pool.jobs \/ j \in SymbolsOf(pool.results)
            \/ \E g \in DOMAIN pool.hands : pool.hands[g] = j
        BY <2>1 DEF PoolCovers
      <4>2. ASSUME NEW g \in DOMAIN pool.hands, pool.hands[g] = j PROVE pool'.hands[g] = j
        BY <1>1, <1>2, <1>6, <4>2
      <4> QED BY <1>5, <1>6, <3>2, <4>1, <4>2
    <3> QED BY <3>1, <3>2
  <2>3. \A g \in DOMAIN pool'.hands : pool'.hands[g] # Gone
    BY <1>1, <1>4, <1>6, <1>10, <2>1 DEF PoolCovers
  <2>4. DOMAIN pool'.hands # {}
    BY <1>6
  <2> QED BY <2>2, <2>3, <2>4 DEF PoolCovers
<1> QED BY <1>1, <1>9, <1>10, PoolSteps

LEMMA LeaveKeeps ==
    ASSUME MarketScanAssumption, ScanInv, NEW h \in DOMAIN pool.hands, Leave(h)
    PROVE  ScanInv'
<1>1. /\ scan.pc = "pool" /\ pool.hands[h] = Free /\ pool.jobs = {}
      /\ pool' = [pool EXCEPT !.hands[h] = Gone]
      /\ UNCHANGED <<tape, mode, scan, rows, review>>
  BY DEF Leave
<1>2. /\ PoolIs(pool, Active) /\ PoolWorks(pool, Active)
      /\ \A r \in pool.results : Judges(r, tape, mode)
      /\ Free \notin Active /\ Gone \notin Active /\ Free # Gone
  BY PoolKnown
<1>3. /\ pool'.jobs = {} /\ pool'.results = pool.results
      /\ pool'.hands = [pool.hands EXCEPT ![h] = Gone]
      /\ pool' = [jobs |-> pool'.jobs, hands |-> pool'.hands, results |-> pool'.results]
  BY <1>1, <1>2 DEF PoolIs
<1>4. /\ DOMAIN pool'.hands = DOMAIN pool.hands /\ pool'.hands[h] = Gone
      /\ \A g \in DOMAIN pool.hands : g # h => pool'.hands[g] = pool.hands[g]
  BY <1>2, <1>3 DEF PoolIs
<1>5. PoolIs(pool', Active)
  <2>1. pool'.hands \in [DOMAIN pool'.hands -> Active \cup {Free, Gone}]
    BY <1>2, <1>3 DEF PoolIs
  <2> QED BY <1>2, <1>3, <2>1 DEF PoolIs
<1>6. PoolWorks(pool', Active)
  <2>1. ASSUME NEW g \in DOMAIN pool.hands, pool'.hands[g] \in Active
        PROVE  /\ pool'.hands[g] \notin pool'.jobs \cup SymbolsOf(pool'.results)
               /\ \A i \in DOMAIN pool.hands : i # g => pool'.hands[i] # pool'.hands[g]
    <3>1. g # h /\ pool'.hands[g] = pool.hands[g]
      BY <1>2, <1>4, <2>1
    <3>2. /\ pool.hands[g] \notin pool.jobs \cup SymbolsOf(pool.results)
          /\ \A i \in DOMAIN pool.hands : i # g => pool.hands[i] # pool.hands[g]
      BY <1>2, <2>1, <3>1 DEF PoolWorks
    <3> QED BY <1>2, <1>3, <1>4, <2>1, <3>1, <3>2
  <2> QED BY <1>3, <1>4, <2>1 DEF PoolWorks
<1>7. PoolInv(pool', Active, tape, mode)
  BY <1>2, <1>3, <1>5, <1>6 DEF PoolInv
<1>8. ASSUME scan.live PROVE PoolCovers(pool', Active)
  <2>1. PoolCovers(pool, Active)
    BY <1>1, <1>8 DEF ScanInv
  <2>2. ASSUME NEW g \in DOMAIN pool.hands, pool.hands[g] \in Active PROVE pool'.hands[g] = pool.hands[g]
    BY <1>1, <1>2, <1>4, <2>2
  <2> QED BY <1>1, <1>3, <1>4, <2>1, <2>2 DEF PoolCovers
<1> QED BY <1>1, <1>7, <1>8, PoolSteps

LEMMA PutKeeps ==
    ASSUME MarketScanAssumption, ScanInv, NEW h \in DOMAIN pool.hands, Working(h),
           NEW row \in ScanRows, row.symbol = pool.hands[h], ~row.marked, Judges(row, tape, mode),
           Puts(h, {row}), UNCHANGED <<tape, mode, scan, rows, review>>
    PROVE  ScanInv'
<1> DEFINE k == pool.hands[h]
<1>1. /\ scan.pc = "pool" /\ k # Free /\ k # Gone
      /\ pool' = [[pool EXCEPT !.results = pool.results \cup {row}] EXCEPT !.hands[h] = Free]
  BY DEF Working, Puts
<1>2. /\ PoolIs(pool, Active) /\ PoolWorks(pool, Active)
      /\ \A r \in pool.results : Judges(r, tape, mode)
      /\ Free \notin Active /\ Gone \notin Active /\ Free # Gone
  BY PoolKnown
<1>3. /\ pool'.jobs = pool.jobs /\ pool'.results = pool.results \cup {row}
      /\ pool'.hands = [pool.hands EXCEPT ![h] = Free]
      /\ pool' = [jobs |-> pool'.jobs, hands |-> pool'.hands, results |-> pool'.results]
  BY <1>1, <1>2 DEF PoolIs
<1>4. /\ DOMAIN pool'.hands = DOMAIN pool.hands /\ pool'.hands[h] = Free
      /\ \A g \in DOMAIN pool.hands : g # h => pool'.hands[g] = pool.hands[g]
  BY <1>2, <1>3 DEF PoolIs
<1>5. k \in Active /\ k \notin pool.jobs /\ k \notin SymbolsOf(pool.results)
      /\ \A g \in DOMAIN pool.hands : g # h => pool.hands[g] # k
  <2>1. k \in Active
    BY <1>1, <1>2 DEF PoolIs
  <2> QED BY <1>2, <2>1 DEF PoolWorks
<1>6. row.symbol = k
  OBVIOUS
<1> HIDE DEF k
<1>7. SymbolsOf(pool'.results) = SymbolsOf(pool.results) \cup {k}
  BY <1>3, <1>6 DEF SymbolsOf
<1>8. PoolIs(pool', Active)
  <2>1. pool'.hands \in [DOMAIN pool'.hands -> Active \cup {Free, Gone}]
    BY <1>2, <1>3 DEF PoolIs
  <2>2. IsFiniteSet(pool'.results) /\ pool'.results \subseteq ScanRows
    BY <1>2, <1>3, FS_AddElement DEF PoolIs
  <2>3. OneEach(pool'.results)
    <3>1. \A r \in pool.results : r.symbol # k
      BY <1>5 DEF SymbolsOf
    <3>2. OneEach(pool.results)
      BY <1>2 DEF PoolIs
    <3> QED BY <1>3, <1>6, <3>1, <3>2 DEF OneEach
  <2>4. \A r \in pool'.results : ~r.marked
    BY <1>2, <1>3 DEF PoolIs
  <2>5. pool'.jobs \subseteq Active /\ SymbolsOf(pool'.results) \subseteq Active
    BY <1>2, <1>3, <1>5, <1>7 DEF PoolIs
  <2> QED BY <1>3, <2>1, <2>2, <2>3, <2>4, <2>5 DEF PoolIs
<1>9. PoolWorks(pool', Active)
  <2>1. pool'.jobs \cap SymbolsOf(pool'.results) = {}
    BY <1>2, <1>3, <1>5, <1>7 DEF PoolWorks
  <2>2. ASSUME NEW g \in DOMAIN pool.hands, pool'.hands[g] \in Active
        PROVE  /\ pool'.hands[g] \notin pool'.jobs \cup SymbolsOf(pool'.results)
               /\ \A i \in DOMAIN pool.hands : i # g => pool'.hands[i] # pool'.hands[g]
    <3>1. g # h /\ pool'.hands[g] = pool.hands[g] /\ pool.hands[g] # k
      BY <1>2, <1>4, <1>5, <2>2
    <3>2. /\ pool.hands[g] \notin pool.jobs \cup SymbolsOf(pool.results)
          /\ \A i \in DOMAIN pool.hands : i # g => pool.hands[i] # pool.hands[g]
      BY <1>2, <2>2, <3>1 DEF PoolWorks
    <3> QED BY <1>2, <1>3, <1>4, <1>7, <2>2, <3>1, <3>2
  <2> QED BY <1>4, <2>1, <2>2 DEF PoolWorks
<1>10. PoolInv(pool', Active, tape, mode)
  <2>1. \A r \in pool'.results : Judges(r, tape, mode)
    BY <1>2, <1>3
  <2> QED BY <1>8, <1>9, <2>1 DEF PoolInv
<1>11. ASSUME scan.live PROVE PoolCovers(pool', Active)
  <2>1. PoolCovers(pool, Active)
    BY <1>1, <1>11 DEF ScanInv
  <2>2. ASSUME NEW j \in Active
        PROVE  \/ j \in pool'.jobs \/ j \in SymbolsOf(pool'.results)
               \/ \E g \in DOMAIN pool'.hands : pool'.hands[g] = j
    <3>1. CASE j = k
      BY <1>7, <3>1
    <3>2. CASE j # k
      <4>1. \/ j \in pool.jobs \/ j \in SymbolsOf(pool.results)
            \/ \E g \in DOMAIN pool.hands : pool.hands[g] = j
        BY <2>1 DEF PoolCovers
      <4>2. ASSUME NEW g \in DOMAIN pool.hands, pool.hands[g] = j PROVE pool'.hands[g] = j
        BY <1>4, <3>2, <4>2 DEF k
      <4> QED BY <1>3, <1>4, <1>7, <4>1, <4>2
    <3> QED BY <3>1, <3>2
  <2>3. (\E g \in DOMAIN pool'.hands : pool'.hands[g] = Gone) => pool'.jobs = {}
    BY <1>2, <1>3, <1>4, <2>1 DEF PoolCovers
  <2>4. DOMAIN pool'.hands # {}
    BY <1>4
  <2> QED BY <2>2, <2>3, <2>4 DEF PoolCovers
<1> QED BY <1>1, <1>10, <1>11, PoolSteps

LEMMA HandIs ==
    ASSUME MarketScanAssumption, ScanInv, NEW h \in DOMAIN pool.hands, Working(h)
    PROVE  pool.hands[h] \in Active /\ pool.hands[h] \in Nat /\ tape[pool.hands[h]].reading \in Readings
<1>1. PoolIs(pool, Active) /\ Active \subseteq Nat \ {0}
  BY PoolKnown
<1>2. pool.hands[h] \in Active
  BY <1>1 DEF PoolIs, Working
<1>3. tape \in Tapes
  BY PoolKnown
<1> QED BY <1>1, <1>2, <1>3, ActiveIs

LEMMA DataKeeps ==
    ASSUME MarketScanAssumption, ScanInv, NEW h \in DOMAIN pool.hands, Working(h),
           Puts(h, DataRow(pool.hands[h])), UNCHANGED <<tape, mode, scan, rows, review>>
    PROVE  ScanInv'
<1> DEFINE row == [symbol |-> pool.hands[h], trend |-> 0, accepted |-> FALSE, score |-> 0,
                   marked |-> FALSE]
<1>1. Puts(h, {row})
  BY DEF DataRow, Row
<1>2. row \in ScanRows
  BY HandIs DEF ScanRows, Ways
<1>3. row.symbol = pool.hands[h] /\ ~row.marked /\ ~row.accepted
  OBVIOUS
<1> HIDE DEF row
<1>4. Judges(row, tape, mode)
  BY <1>3 DEF Judges
<1> QED BY <1>1, <1>2, <1>3, <1>4, PutKeeps

LEMMA VerdictIs ==
    ASSUME NEW r \in Readings, NEW m \in ModesAre
    PROVE  Judgement(r, m).trend \in Ways /\ Judgement(r, m).accepted \in BOOLEAN
<1> DEFINE first == FirstTrend(r, m)
           trend == IF Opposed(r, first) THEN 0 ELSE first
           reasons == EntryReasons(r, first, m)
                      \cup (IF Opposed(r, first) THEN {"confluence"} ELSE {})
                      \cup (IF trend = 0 THEN PersistenceReasons(r) ELSE {})
           acc == reasons = {}
<1>1. Judgement(r, m) = [trend |-> trend, accepted |-> acc]
  BY DEF Judgement
<1>2. trend \in Ways
  <2>1. first \in Ways /\ 0 \in Ways
    BY TrendIs DEF Ways
  <2> HIDE DEF first
  <2> QED BY <2>1
<1>3. acc \in BOOLEAN
  OBVIOUS
<1> HIDE DEF trend, acc
<1> QED BY <1>1, <1>2, <1>3

LEMMA JudgeKeeps ==
    ASSUME MarketScanAssumption, ScanInv, NEW h \in DOMAIN pool.hands, Judge(h)
    PROVE  ScanInv'
<1> DEFINE k == pool.hands[h]
<1>1. /\ Working(h) /\ UNCHANGED <<tape, mode, scan, rows, review>>
      /\ (Puts(h, DataRow(k)) \/ \E row \in Judged(k) : Puts(h, {row}))
  BY DEF Judge
<1>2. CASE Puts(h, DataRow(k))
  BY <1>1, <1>2, DataKeeps
<1>3. ASSUME NEW row \in Judged(k), Puts(h, {row}) PROVE ScanInv'
  <2> DEFINE j == Judgement(tape[k].reading, mode)
  <2>1. PICK score \in 1 .. 2 :
          row = [symbol |-> k, trend |-> j.trend, accepted |-> j.accepted, score |-> score, marked |-> FALSE]
    BY DEF Judged, Row
  <2>2. k \in Nat /\ tape[k].reading \in Readings
    BY <1>1, HandIs
  <2>3. mode \in ModesAre
    BY PoolKnown DEF MarketScanAssumption, ModesAre
  <2>4. j.trend \in Ways /\ j.accepted \in BOOLEAN
    BY <2>2, <2>3, VerdictIs
  <2> DEFINE t == j.trend   a == j.accepted
  <2>5. row = [symbol |-> k, trend |-> t, accepted |-> a, score |-> score, marked |-> FALSE]
    BY <2>1
  <2>6. t \in Ways /\ a \in BOOLEAN
    BY <2>4
  <2> HIDE DEF t, a, j, k
  <2>7. row \in ScanRows
    BY <2>2, <2>5, <2>6 DEF ScanRows
  <2>8. row.symbol = k /\ ~row.marked /\ row.trend = t /\ row.accepted = a
    BY <2>5
  <2>9. Judges(row, tape, mode)
    BY <2>8 DEF Judges, t, a, j
  <2> QED BY <1>1, <1>3, <2>7, <2>8, <2>9, PutKeeps DEF k
<1> HIDE DEF k
<1> QED BY <1>1, <1>2, <1>3

LEMMA PanicKeeps ==
    ASSUME MarketScanAssumption, ScanInv, NEW h \in DOMAIN pool.hands, Panic(h)
    PROVE  ScanInv'
<1>1. Working(h) /\ Puts(h, DataRow(pool.hands[h])) /\ UNCHANGED <<tape, mode, scan, rows, review>>
  BY DEF Panic, Fallen
<1> QED BY <1>1, DataKeeps

--------------------------------------------------------------------------
LEMMA CollectKeeps == ASSUME MarketScanAssumption, ScanInv, Collect PROVE ScanInv'
<1>1. PICK lost \in FaultComes("write"), kept \in Best(pool.results) :
             IF lost \/ ~scan.live THEN scan' = Failed(scan) /\ rows' = rows
             ELSE /\ scan' = [scan EXCEPT !.pc = "review", !.status = "SUCCEEDED"]
                  /\ rows' = kept
  BY DEF Collect
<1>2. /\ scan.pc = "pool" /\ \A h \in DOMAIN pool.hands : pool.hands[h] = Gone
      /\ UNCHANGED <<tape, mode, pool, review>>
  BY DEF Collect
<1>3. CASE scan' = Failed(scan) /\ rows' = rows
  BY <1>2, <1>3, FailedMoves
<1>4. CASE scan.live /\ scan' = [scan EXCEPT !.pc = "review", !.status = "SUCCEEDED"] /\ rows' = kept
  <2>1. scan \in ScanSteps /\ scan.status # "SUCCEEDED" /\ review.handed = {}
    BY <1>2 DEF ScanInv, ScanIs, StatusIs
  <2>2. scan' \in ScanSteps /\ scan'.status = "SUCCEEDED" /\ scan'.pc = "review"
    BY <1>4, <2>1 DEF ScanSteps
  <2>3. Active' = Active
    BY <1>2, ActiveStays
  <2>4. /\ PoolIs(pool, Active) /\ PoolCovers(pool, Active) /\ Gone \notin Active
    BY <1>2, <1>4, PoolKnown DEF ScanInv
  <2>5. SymbolsOf(pool.results) = Active
    <3>1. pool.jobs = {}
      BY <1>2, <2>4 DEF PoolCovers
    <3>2. \A k \in Active : k \in SymbolsOf(pool.results)
      BY <1>2, <2>4, <3>1 DEF PoolCovers
    <3>3. SymbolsOf(pool.results) \subseteq Active
      BY <2>4 DEF PoolIs
    <3> QED BY <3>2, <3>3
  <2>6. /\ kept \subseteq pool.results
        /\ Cardinality(kept) = Min({MaxSymbols, Cardinality(pool.results)})
        /\ \A a \in pool.results \ kept, b \in kept : ~Outranks(a, b)
    BY DEF Best
  <2>7. Cardinality(pool.results) = Cardinality(Active)
    BY <2>4, <2>5, OneEachCounts DEF PoolIs
  <2>8. RowsFrom(pool.results, kept)
    <3>1. kept \subseteq ScanRows /\ IsFiniteSet(kept) /\ OneEach(kept)
      BY <2>4, <2>6, FS_Subset DEF PoolIs, OneEach
    <3>2. ASSUME NEW r \in kept PROVE [r EXCEPT !.marked = FALSE] \in pool.results
      <4>1. r \in ScanRows /\ r.marked = FALSE /\ r \in pool.results
        BY <2>4, <2>6 DEF PoolIs, ScanRows
      <4>2. [r EXCEPT !.marked = FALSE] = r
        BY <4>1 DEF ScanRows
      <4> QED BY <4>1, <4>2
    <3>3. ASSUME NEW r \in pool.results, r.accepted, r.symbol \notin SymbolsOf(kept), NEW b \in kept
          PROVE  b.accepted
      <4>1. r \notin kept
        BY <3>3 DEF SymbolsOf
      <4> QED BY <2>6, <3>3, <4>1 DEF Outranks
    <3> QED BY <3>1, <3>2, <3>3 DEF RowsFrom
  <2>9. Written(pool.results, kept, Active)
    BY <2>5, <2>6, <2>7, <2>8 DEF Written
  <2>10. ScanIs'
    BY <1>2, <2>2 DEF ScanInv, ScanIs
  <2>11. PoolInv(pool, Active, tape, mode)'
    BY <1>2, <2>3 DEF ScanInv
  <2>12. StatusIs'
    BY <1>2, <1>4, <2>2, <2>3, <2>9 DEF StatusIs
  <2>13. ReviewIs'
    <3>1. \A r \in rows' : ~r.marked
      BY <1>4, <2>4, <2>6 DEF PoolIs
    <3> QED BY <1>2, <2>1, <3>1 DEF ReviewIs, Approved
  <2> QED BY <2>2, <2>10, <2>11, <2>12, <2>13 DEF ScanInv
<1> QED BY <1>1, <1>3, <1>4

--------------------------------------------------------------------------
(* Steps of the review. *)
LEMMA ReviewSteps ==
    ASSUME ScanInv, scan.pc = "review", UNCHANGED <<tape, mode, pool, scan>>,
           NEW answers, NEW done,
           review' = [[review EXCEPT !.done = done] EXCEPT !.answers = answers],
           RowsFrom(pool.results, rows) =>
             RowsFrom(pool.results, rows') /\ Cardinality(rows') = Cardinality(rows),
           rows = {} => rows' = {}, Approved(rows', answers, done)
    PROVE  ScanInv'
<1>1. /\ review = [done |-> review.done, answers |-> review.answers, readable |-> review.readable,
                   handed |-> review.handed]
      /\ review.handed = {}
  BY DEF ScanInv, ScanIs, ReviewIs
<1>2. /\ review'.handed = {} /\ review'.done = done /\ review'.answers = answers
      /\ review' = [done |-> review'.done, answers |-> review'.answers,
                    readable |-> review'.readable, handed |-> review'.handed]
  BY <1>1
<1>3. Active' = Active
  BY ActiveStays
<1>4. ScanIs'
  BY <1>2 DEF ScanInv, ScanIs
<1>5. PoolInv(pool, Active, tape, mode)'
  BY <1>3 DEF ScanInv
<1>6. ReviewIs'
  BY <1>2 DEF ReviewIs
<1>7. StatusIs'
  <2>1. CASE scan.status = "SUCCEEDED"
    <3>1. Written(pool.results, rows, Active)
      BY <2>1 DEF ScanInv, StatusIs
    <3>2. Written(pool.results, rows', Active)
      BY <3>1 DEF Written
    <3> QED BY <1>3, <2>1, <3>2 DEF StatusIs
  <2>2. CASE scan.status # "SUCCEEDED"
    <3>1. rows = {}
      BY <2>2 DEF ScanInv, StatusIs
    <3> QED BY <1>2, <2>2, <3>1 DEF StatusIs
  <2> QED BY <2>1, <2>2
<1> QED BY <1>3, <1>4, <1>5, <1>6, <1>7 DEF ScanInv

(* One row is written anew. *)
LEMMA RowReplaced ==
    ASSUME NEW results, OneEach(results), NEW kept, RowsFrom(results, kept),
           NEW r \in kept, r.accepted, NEW new \in ScanRows, new.symbol = r.symbol,
           new.accepted => [new EXCEPT !.marked = FALSE] = [r EXCEPT !.marked = FALSE],
           NEW kept2, kept2 = (kept \ {r}) \cup {new}
    PROVE  RowsFrom(results, kept2) /\ Cardinality(kept2) = Cardinality(kept)
<1>1. kept \subseteq ScanRows /\ IsFiniteSet(kept) /\ OneEach(kept)
  BY DEF RowsFrom
<1>2. IsFiniteSet(kept \ {r}) /\ Cardinality(kept \ {r}) = Cardinality(kept) - 1
      /\ Cardinality(kept) \in Nat
  BY <1>1, FS_RemoveElement, FS_CardinalityType
<1>3. \A x \in kept \ {r} : x.symbol # new.symbol
  BY <1>1 DEF OneEach
<1>4. new \notin kept \ {r}
  BY <1>3
<1>5. IsFiniteSet(kept2) /\ Cardinality(kept2) = Cardinality(kept)
  <2>1. IsFiniteSet(kept2) /\ Cardinality(kept2) = Cardinality(kept \ {r}) + 1
    BY <1>2, <1>4, FS_AddElement
  <2> QED BY <1>2, <2>1
<1>6. OneEach(kept2)
  BY <1>1, <1>3 DEF OneEach
<1>7. SymbolsOf(kept2) = SymbolsOf(kept)
  <2>1. \A k : k \in SymbolsOf(kept2) <=> k \in SymbolsOf(kept)
    BY DEF SymbolsOf
  <2> QED BY <2>1
<1>8. [r EXCEPT !.marked = FALSE] \in results
  BY DEF RowsFrom
<1>9. \A x \in kept2 : x.accepted => [x EXCEPT !.marked = FALSE] \in results
  <2>1. \A x \in kept : x.accepted => [x EXCEPT !.marked = FALSE] \in results
    BY DEF RowsFrom
  <2> QED BY <1>8, <2>1
<1>10. new \in results => new.accepted
  <2>1. SUFFICES ASSUME new \in results PROVE new.accepted
    OBVIOUS
  <2> DEFINE old == [r EXCEPT !.marked = FALSE]
  <2>2. old.symbol = r.symbol /\ old.accepted
    BY <1>1 DEF ScanRows
  <2>3. old \in results
    BY <1>8
  <2> HIDE DEF old
  <2>4. new = old
    BY <2>1, <2>2, <2>3 DEF OneEach
  <2> QED BY <2>2, <2>4
<1>11. \A x \in results : x.accepted =>
          x.symbol \in SymbolsOf(kept2) \/ \A k \in kept2 : k \in results => k.accepted
  <2>1. \A x \in results : x.accepted =>
          x.symbol \in SymbolsOf(kept) \/ \A k \in kept : k \in results => k.accepted
    BY DEF RowsFrom
  <2> QED BY <1>7, <1>10, <2>1
<1>12. kept2 \subseteq ScanRows
  BY <1>1
<1> QED BY <1>5, <1>6, <1>9, <1>11, <1>12 DEF RowsFrom

LEMMA DueIs ==
    ASSUME NEW r, Reviewing(r)
    PROVE  r \in rows /\ r.accepted /\ r.symbol \notin review.done /\ scan.pc = "review"
  BY DEF Reviewing, NextDue, DueRows, Asked

LEMMA ResultsOnce == ASSUME ScanInv PROVE OneEach(pool.results)
  BY DEF ScanInv, PoolInv, PoolIs

LEMMA RowsAre == ASSUME ScanInv PROVE rows \subseteq ScanRows /\ OneEach(rows)
<1>1. CASE scan.status = "SUCCEEDED"
  BY <1>1 DEF ScanInv, StatusIs, Written, RowsFrom
<1>2. CASE scan.status # "SUCCEEDED"
  BY <1>2 DEF ScanInv, StatusIs, OneEach
<1> QED BY <1>1, <1>2

(* An answer: the rows as they were, or with the answered one written anew. *)
\* the two rows differ in the mark at most
SameMark(a, b) == [a EXCEPT !.marked = FALSE] = [b EXCEPT !.marked = FALSE]

\* what the reviewer writes down: the symbols it has read and the answers it has
Noted(done, answers) == review' = [[review EXCEPT !.done = done] EXCEPT !.answers = answers]

LEMMA AnswerKeeps ==
    ASSUME ScanInv, NEW r \in rows, Reviewing(r), UNCHANGED <<tape, mode, pool, scan>>,
           NEW new \in ScanRows, new.symbol = r.symbol,
           new.accepted => SameMark(new, r),
           rows' = rows \/ rows' = (rows \ {r}) \cup {new},
           NEW answers, NEW done, done = review.done \cup {r.symbol},
           Noted(done, answers),
           \A s \in DOMAIN review.answers : s \in review.done => s \in DOMAIN answers /\ answers[s] = review.answers[s],
           new.accepted /\ new.marked => r.symbol \in DOMAIN answers /\ answers[r.symbol] = "approved"
    PROVE  ScanInv'
<1>1. r.accepted /\ r.symbol \notin review.done /\ scan.pc = "review"
  BY DueIs
<1>2. OneEach(pool.results)
  BY ResultsOnce
<1>3. RowsFrom(pool.results, rows) =>
        RowsFrom(pool.results, rows') /\ Cardinality(rows') = Cardinality(rows)
  <2>1. CASE rows' = rows
    BY <2>1
  <2>2. CASE rows' = (rows \ {r}) \cup {new}
    BY <1>1, <1>2, <2>2, RowReplaced DEF SameMark
  <2> QED BY <2>1, <2>2
<1>4. rows # {}
  OBVIOUS
<1>5. Approved(rows, review.answers, review.done)
  BY DEF ScanInv, ReviewIs
<1>6. Approved(rows', answers, done)
  <2>1. ASSUME NEW x \in rows, x.accepted, x.marked
        PROVE  x.symbol \in done /\ x.symbol \in DOMAIN answers /\ answers[x.symbol] = "approved"
    BY <1>5, <2>1 DEF Approved
  <2>2. new.accepted /\ new.marked =>
          new.symbol \in done /\ new.symbol \in DOMAIN answers /\ answers[new.symbol] = "approved"
    OBVIOUS
  <2> QED BY <2>1, <2>2 DEF Approved
<1> QED BY <1>1, <1>3, <1>4, <1>6, ReviewSteps DEF Noted

LEMMA UnansweredKeeps == ASSUME ScanInv, NEW r \in rows, Unanswered(r) PROVE ScanInv'
<1> DEFINE new == [r EXCEPT !.accepted = FALSE]
           done == review.done \cup {r.symbol}
<1>1. /\ Reviewing(r) /\ UNCHANGED <<tape, mode, pool, scan>> /\ review' = [review EXCEPT !.done = done]
      /\ (rows' = rows \/ rows' = (rows \ {r}) \cup {new})
  BY DEF Unanswered, Reviewed, Replaced
<1>2. r \in ScanRows
  BY RowsAre
<1>3. new \in ScanRows /\ new.symbol = r.symbol /\ ~new.accepted
  BY <1>2 DEF ScanRows
<1>4. Noted(done, review.answers)
  <2>1. review = [done |-> review.done, answers |-> review.answers, readable |-> review.readable,
                  handed |-> review.handed]
    BY DEF ScanInv, ScanIs
  <2> HIDE DEF done
  <2> QED BY <1>1, <2>1 DEF Noted
<1>5. \A s \in DOMAIN review.answers :
        s \in review.done => s \in DOMAIN review.answers /\ review.answers[s] = review.answers[s]
  OBVIOUS
<1>6. done = review.done \cup {r.symbol}
  OBVIOUS
<1> HIDE DEF new, done
<1> QED BY <1>1, <1>3, <1>4, <1>5, <1>6, AnswerKeeps

LEMMA StampIs ==
    ASSUME NEW r \in ScanRows, NEW answer \in {"approved", "rejected", "vetoed"},
           NEW new, new = Stamped(r, answer)
    PROVE  /\ new \in ScanRows /\ new.symbol = r.symbol
           /\ new.accepted => /\ [new EXCEPT !.marked = FALSE] = [r EXCEPT !.marked = FALSE]
                              /\ answer = "approved"
<1>1. CASE answer = "approved"
  <2>1. new = [r EXCEPT !.marked = TRUE]
    BY <1>1 DEF Stamped
  <2> QED BY <1>1, <2>1 DEF ScanRows
<1>2. CASE answer = "rejected"
  <2>1. new = [[r EXCEPT !.marked = TRUE] EXCEPT !.accepted = FALSE]
    BY <1>2 DEF Stamped
  <2>2. new \in ScanRows /\ new.symbol = r.symbol /\ ~new.accepted
    BY <2>1 DEF ScanRows
  <2> QED BY <2>2
<1>3. CASE answer = "vetoed"
  <2>1. new = [r EXCEPT !.accepted = FALSE]
    BY <1>3 DEF Stamped
  <2>2. new \in ScanRows /\ new.symbol = r.symbol /\ ~new.accepted
    BY <2>1 DEF ScanRows
  <2> QED BY <2>2
<1> QED BY <1>1, <1>2, <1>3

LEMMA AnsweredKeeps ==
    ASSUME ScanInv, NEW r \in rows, NEW answer \in {"approved", "rejected", "vetoed"},
           Answered(r, answer)
    PROVE  ScanInv'
<1> DEFINE new == Stamped(r, answer)
           done == review.done \cup {r.symbol}
           answers == [s \in DOMAIN review.answers \cup {r.symbol} |->
                          IF s = r.symbol THEN answer ELSE review.answers[s]]
<1>1. /\ Reviewing(r) /\ UNCHANGED <<tape, mode, pool, scan>>
      /\ review' = [Reviewed(r) EXCEPT
                      !.answers = [s \in DOMAIN @ \cup {r.symbol} |->
                                      IF s = r.symbol THEN answer ELSE review.answers[s]]]
      /\ (rows' = rows \/ rows' = (rows \ {r}) \cup {new})
  BY DEF Answered, Replaced
<1>2. review = [done |-> review.done, answers |-> review.answers, readable |-> review.readable,
                handed |-> review.handed]
  BY DEF ScanInv, ScanIs
<1>3. Reviewed(r) = [review EXCEPT !.done = done] /\ Reviewed(r).answers = review.answers
  BY <1>2 DEF Reviewed
<1>4. Noted(done, answers)
  BY <1>1, <1>3 DEF Noted
<1>5. r \in ScanRows
  BY RowsAre
<1>6. /\ new \in ScanRows /\ new.symbol = r.symbol
      /\ new.accepted => /\ [new EXCEPT !.marked = FALSE] = [r EXCEPT !.marked = FALSE]
                         /\ answer = "approved"
  BY <1>5, StampIs
<1>7. r.symbol \notin review.done
  BY <1>1, DueIs
<1>8. \A s \in DOMAIN review.answers : s \in review.done => s \in DOMAIN answers /\ answers[s] = review.answers[s]
  BY <1>7
<1>9. r.symbol \in DOMAIN answers /\ answers[r.symbol] = answer
  OBVIOUS
<1>10. done = review.done \cup {r.symbol}
  OBVIOUS
<1>11. new.accepted => SameMark(new, r)
  BY <1>6 DEF SameMark
<1>12. new.accepted /\ new.marked => r.symbol \in DOMAIN answers /\ answers[r.symbol] = "approved"
  BY <1>6, <1>9
<1>13. new \in ScanRows /\ new.symbol = r.symbol
  BY <1>6
<1>14. Reviewing(r) /\ UNCHANGED <<tape, mode, pool, scan>>
  BY <1>1
<1>15. rows' = rows \/ rows' = (rows \ {r}) \cup {new}
  BY <1>1
<1> HIDE DEF new, done, answers
<1> QED BY <1>4, <1>8, <1>10, <1>11, <1>12, <1>13, <1>14, <1>15, AnswerKeeps

LEMMA HandOverKeeps == ASSUME ScanInv, HandOver PROVE ScanInv'
<1>1. PICK unread \in FaultComes("unreadable"), running \in BOOLEAN :
         review' = [review EXCEPT !.readable = ~unread,
                      !.handed = IF running /\ scan.live
                                 THEN {r \in rows : Deployable(r, mode.brain /\ ~unread)} ELSE {}]
  BY DEF HandOver
<1> DEFINE gets == IF running /\ scan.live
                   THEN {r \in rows : Deployable(r, mode.brain /\ ~unread)} ELSE {}
           seen == ~unread
<1>2. /\ scan.pc = "hand over" /\ scan' = [scan EXCEPT !.pc = "over"]
      /\ UNCHANGED <<tape, mode, pool, rows>>
  BY DEF HandOver
<1>3. review = [done |-> review.done, answers |-> review.answers, readable |-> review.readable,
                handed |-> review.handed]
      /\ scan \in ScanSteps
  BY DEF ScanInv, ScanIs
<1>4. review' = [[review EXCEPT !.readable = seen] EXCEPT !.handed = gets]
  BY <1>1, <1>3
<1>5. \A r \in gets : r \in rows /\ Deployable(r, mode.brain /\ seen)
  OBVIOUS
<1> HIDE DEF gets, seen
<1>6. /\ review'.handed = gets /\ review'.readable = seen /\ review'.done = review.done
      /\ review'.answers = review.answers
      /\ review' = [done |-> review'.done, answers |-> review'.answers,
                    readable |-> review'.readable, handed |-> review'.handed]
  BY <1>3, <1>4
<1>7. scan' \in ScanSteps /\ scan'.status = scan.status /\ scan'.pc = "over"
  BY <1>2, <1>3 DEF ScanSteps
<1>8. Active' = Active
  BY <1>2, ActiveStays
<1>9. ScanIs'
  BY <1>2, <1>6, <1>7 DEF ScanInv, ScanIs
<1>10. PoolInv(pool, Active, tape, mode)'
  BY <1>2, <1>8 DEF ScanInv
<1>11. StatusIs'
  <2>1. StatusIs
    BY DEF ScanInv
  <2>2. scan.status # "SUCCEEDED" => gets = {}
    BY <1>5, <2>1 DEF StatusIs
  <2> QED BY <1>2, <1>6, <1>7, <1>8, <2>1, <2>2 DEF StatusIs
<1>12. ReviewIs'
  <2>1. Approved(rows, review.answers, review.done)'
    BY <1>2, <1>6 DEF ScanInv, ReviewIs
  <2>2. (\A r \in review.handed : r \in rows /\ Deployable(r, mode.brain /\ review.readable))'
    BY <1>2, <1>5, <1>6 DEF Deployable
  <2> QED BY <1>7, <2>1, <2>2 DEF ReviewIs
<1> QED BY <1>7, <1>9, <1>10, <1>11, <1>12 DEF ScanInv

--------------------------------------------------------------------------
LEMMA ScanKeeps == MarketScanAssumption /\ ScanInv /\ [ScanNext]_scanVars => ScanInv'
<1> SUFFICES ASSUME MarketScanAssumption, ScanInv, [ScanNext]_scanVars PROVE ScanInv'
  OBVIOUS
<1>1. CASE BeginScan
  BY <1>1, BeginKeeps
<1>2. CASE FetchUniverse
  BY <1>2, FetchKeeps
<1>3. CASE CancelScan
  BY <1>3, CancelKeeps
<1>4. CASE Collect
  BY <1>4, CollectKeeps
<1>5. CASE SkipReview
  BY <1>5, SkipKeeps
<1>6. CASE HandOver
  BY <1>6, HandOverKeeps
<1>7. CASE ScanCrash
  BY <1>7, CrashKeeps
<1>8. ASSUME NEW h \in DOMAIN pool.hands, TakeJob(h) \/ Leave(h) \/ Judge(h) \/ Panic(h)
      PROVE  ScanInv'
  BY <1>8, TakeKeeps, LeaveKeeps, JudgeKeeps, PanicKeeps
<1>9. ASSUME NEW r \in rows,
             Unanswered(r) \/ \E a \in {"approved", "rejected", "vetoed"} : Answered(r, a)
      PROVE  ScanInv'
  BY <1>9, UnansweredKeeps, AnsweredKeeps
<1>10. CASE UNCHANGED scanVars
  <2>1. UNCHANGED <<tape, mode, scan, pool, rows, review>>
    BY <1>10 DEF scanVars
  <2>2. Active' = Active
    BY <2>1, ActiveStays
  <2>3. ScanIs' /\ PoolInv(pool, Active, tape, mode)'
    BY <2>1, <2>2 DEF ScanInv, ScanIs
  <2>4. StatusIs' /\ ReviewIs'
    BY <2>1, <2>2 DEF ScanInv, StatusIs, ReviewIs, Deployable
  <2>5. (scan.pc = "pool" /\ scan.live => PoolCovers(pool, Active))'
    BY <2>1, <2>2 DEF ScanInv
  <2> QED BY <2>3, <2>4, <2>5 DEF ScanInv
<1> QED BY <1>1, <1>2, <1>3, <1>4, <1>5, <1>6, <1>7, <1>8, <1>9, <1>10 DEF ScanNext

\* What a market scan keeps at every step: each symbol of the active universe
\* waits, is in one worker's hands or among the results; a result is what the
\* scoring makes of that symbol's reading; the rows written are the results,
\* with a mark only where the reviewer approved.
THEOREM ScanHolds == ScanSpec => []ScanInv
<1> USE MarketScanAssumption
<1>1. ScanInit => ScanInv
  BY ScanStarts
<1>2. ScanInv /\ [ScanNext]_scanVars => ScanInv'
  BY ScanKeeps
<1> QED BY <1>1, <1>2, PTL DEF ScanSpec

LEMMA HandedAre == ASSUME MarketScanAssumption, ScanInv PROVE HandedIsVetted
<1> SUFFICES ASSUME NEW r \in review.handed
             PROVE  /\ scan.status = "SUCCEEDED"
                    /\ ~tape[r.symbol].reading.poor /\ Fits(tape[r.symbol].reading, r.trend)
                    /\ (mode.brain /\ review.readable) =>
                          r.symbol \in DOMAIN review.answers /\ review.answers[r.symbol] = "approved"
  BY DEF HandedIsVetted
<1>1. scan.status = "SUCCEEDED"
  BY DEF ScanInv, StatusIs
<1>2. r \in rows /\ r.accepted /\ (mode.brain /\ review.readable => r.marked)
  BY DEF ScanInv, ReviewIs, Deployable
<1>3. (mode.brain /\ review.readable) =>
         r.symbol \in DOMAIN review.answers /\ review.answers[r.symbol] = "approved"
  BY <1>2 DEF ScanInv, ReviewIs, Approved
<1> DEFINE own == [r EXCEPT !.marked = FALSE]
<1>4. own \in pool.results
  BY <1>1, <1>2 DEF ScanInv, StatusIs, Written, RowsFrom
<1>5. own.symbol = r.symbol /\ own.trend = r.trend /\ own.accepted
  BY <1>2, RowsAre DEF ScanRows
<1> HIDE DEF own
<1>6. r.symbol \in Active
  BY <1>4, <1>5, PoolKnown DEF PoolIs, SymbolsOf
<1>7. Judges(own, tape, mode)
  BY <1>4, PoolKnown
<1>8. Judgement(tape[r.symbol].reading, mode).accepted
      /\ Judgement(tape[r.symbol].reading, mode).trend = r.trend
  BY <1>5, <1>7 DEF Judges
<1>9. tape[r.symbol].reading \in Readings
  BY <1>6, PoolKnown, ActiveIs
<1>10. mode \in ModesAre
  BY PoolKnown DEF MarketScanAssumption, ModesAre
<1>11. ~tape[r.symbol].reading.poor /\ Fits(tape[r.symbol].reading, r.trend)
  BY <1>8, <1>9, <1>10, JudgedFits
<1> QED BY <1>1, <1>3, <1>11

LEMMA PoolMovesOn == ASSUME MarketScanAssumption, ScanInv PROVE PoolMoves
<1> SUFFICES ASSUME NEW h \in DOMAIN pool.hands, Working(h) PROVE HasRoom
  BY DEF PoolMoves
<1>1. /\ PoolIs(pool, Active) /\ PoolWorks(pool, Active) /\ IsFiniteSet(Active)
  BY PoolKnown
<1> DEFINE k == pool.hands[h]   done == SymbolsOf(pool.results)
<1>2. k \in Active
  BY HandIs
<1>3. k \notin done /\ done \subseteq Active
  BY <1>1, <1>2 DEF PoolWorks, PoolIs
<1>4. Cardinality(pool.results) = Cardinality(done) /\ IsFiniteSet(done)
  BY <1>1, OneEachCounts DEF PoolIs
<1> HIDE DEF k, done
<1>5. Cardinality(done) <= Cardinality(Active) /\ Cardinality(done) # Cardinality(Active)
  BY <1>1, <1>2, <1>3, FS_Subset
<1>6. Cardinality(done) \in Nat /\ Cardinality(Active) \in Nat
  BY <1>1, <1>4, FS_CardinalityType
<1> QED BY <1>4, <1>5, <1>6 DEF HasRoom

LEMMA WholeIs == ASSUME MarketScanAssumption, ScanInv PROVE ScanIsWhole
<1>1. PoolMoves
  BY PoolMovesOn
<1>2. WroteTheBest
  <2> SUFFICES ASSUME scan.status = "SUCCEEDED"
               PROVE  /\ {r.symbol : r \in pool.results} = Active
                      /\ Cardinality(pool.results) = Cardinality(Active)
                      /\ Cardinality({r.symbol : r \in rows}) = Cardinality(rows)
                      /\ Cardinality(rows) = Min({MaxSymbols, Cardinality(Active)})
                      /\ \A r \in pool.results :
                            r.accepted => /\ r.symbol \in {kept.symbol : kept \in rows}
                                             \/ \A kept \in rows : kept \in pool.results => kept.accepted
                                          /\ Judgement(tape[r.symbol].reading, mode).accepted
                      /\ \A r \in rows : r.accepted => [r EXCEPT !.marked = FALSE] \in pool.results
    BY DEF WroteTheBest
  <2>1. Written(pool.results, rows, Active)
    BY DEF ScanInv, StatusIs
  <2>2. PoolIs(pool, Active) /\ \A r \in pool.results : Judges(r, tape, mode)
    BY PoolKnown
  <2>3. {r.symbol : r \in pool.results} = Active
    BY <2>1 DEF Written, SymbolsOf
  <2>4. Cardinality(pool.results) = Cardinality(Active)
    BY <2>1, <2>2, OneEachCounts DEF Written, PoolIs
  <2>5. Cardinality({r.symbol : r \in rows}) = Cardinality(rows)
    <3>1. Cardinality(SymbolsOf(rows)) = Cardinality(rows)
      BY <2>1, OneEachCounts DEF Written, RowsFrom
    <3> QED BY <3>1 DEF SymbolsOf
  <2>6. Cardinality(rows) = Min({MaxSymbols, Cardinality(Active)})
    BY <2>1 DEF Written
  <2>7. \A r \in pool.results :
            r.accepted => /\ r.symbol \in {kept.symbol : kept \in rows}
                             \/ \A kept \in rows : kept \in pool.results => kept.accepted
                          /\ Judgement(tape[r.symbol].reading, mode).accepted
    BY <2>1, <2>2 DEF Written, RowsFrom, SymbolsOf, Judges
  <2>8. \A r \in rows : r.accepted => [r EXCEPT !.marked = FALSE] \in pool.results
    BY <2>1 DEF Written, RowsFrom
  <2> QED BY <2>3, <2>4, <2>5, <2>6, <2>7, <2>8
<1> QED BY <1>1, <1>2 DEF ScanIsWhole

\* What reaches the deployers comes from a scan that SUCCEEDED, in a direction
\* its own candles support, and approved by the advisor when it is on and its
\* settings can be read, whichever answers and writes were lost.
THEOREM HandedAreVetted == ScanSpec => []HandedIsVetted
<1> USE MarketScanAssumption
<1>1. ScanInv => HandedIsVetted
  BY HandedAre
<1> QED BY <1>1, ScanHolds, PTL

\* No worker of the pool waits for room among the results, and a scan that
\* SUCCEEDED judged every symbol once and wrote one row per symbol up to
\* MaxSymbols, no accepted symbol cut while a rejected one was kept.
THEOREM ScansAreWhole == ScanSpec => []ScanIsWhole
<1> USE MarketScanAssumption
<1>1. ScanInv => ScanIsWhole
  BY WholeIs
<1> QED BY <1>1, ScanHolds, PTL

--------------------------------------------------------------------------
(* PaperBook: the row, the pass's copy of it and what the grid has earned. *)

Prices == 0 .. TopPrice
PaperRows ==
    [id : {1, 2}, direction : {"LONG", "NEUTRAL"}, status : {"RUNNING", "COMPLETED", "STOPPED"},
     settled : BOOLEAN, realized : Int, floating : Int, mark : Prices, level : Prices,
     middle : Prices, units : {1, 2}, cost : Int, paid : Int, opened : Nat, anchor : Nat,
     fees : Int, shifts : Nat, tranche : {1, 2}]
ManageSteps == {"idle", "fund", "decide", "close", "shift", "mark", "pour", "radar", "recenter",
                "ended", "redeploy", "stop"}
PaperShape ==
    /\ ticker \in [price : Prices, moves : Nat, boundary : Nat]
    /\ paper \in PaperRows /\ bought \in Int /\ walked \in Int
    /\ managing \in [pc : ManageSteps, row : PaperRows, price : Prices]
    /\ closer \in [pc : {"idle", "close", "done"}, row : PaperRows]
    /\ paper.status = "RUNNING" => ~paper.settled
    /\ paper.tranche = 1 => paper.units = 1

(* What the ledger says of a row: for a NEUTRAL grid, the pairs that the next
   mark will book are walked already. *)
Gained(row) == row.realized + row.paid + row.fees
LongBook(row, b) ==
    row.direction = "LONG" =>
        /\ row.settled => Gained(row) = row.units * row.mark - b - row.units
        /\ ~row.settled => Gained(row) = row.cost - b
PairsBook(row, w, p) ==
    row.direction = "NEUTRAL" /\ ~row.settled =>
        0 <= Gained(row) /\ Gained(row) + PairGain * Pairs(row, p) <= PairGain * w
FundBook(row) == row.direction = "LONG" /\ row.units = 1 => row.paid = row.anchor - row.opened
Sunk(row) == row.direction = "NEUTRAL" => ~(row.floating > 0)
Ledger(row, b, w, p) == LongBook(row, b) /\ PairsBook(row, w, p) /\ FundBook(row) /\ Sunk(row)

(* What the pass's copy has in common with the row as long as nobody else
   writes: the pairs it has booked are not in the row yet. *)
SamePosition(copy, row) ==
    /\ copy.id = row.id /\ copy.direction = row.direction /\ copy.units = row.units
    /\ copy.cost = row.cost /\ copy.paid = row.paid
Booked(copy, row, p) ==
    SamePosition(copy, row) /\ copy.realized = row.realized + PairGain * Pairs(row, p)
TotalAgrees(copy, row, p) ==
    row.direction = "LONG" => copy.realized + Floating(copy, p) = row.realized + Floating(row, p)
PassKnows(m, row) ==
    /\ m.pc # "idle" => m.price = ticker.price
    /\ m.pc \in {"fund", "stop"} => m.row = row /\ row.status = "RUNNING"
    /\ m.pc \in {"decide", "mark", "shift", "close"} =>
          Booked(m.row, row, m.price) /\ row.status = "RUNNING"
    /\ m.pc = "pour" => SamePosition(m.row, row) /\ m.row.realized = row.realized
    /\ m.pc = "radar" /\ "exit" \in paperWorld => TotalAgrees(m.row, row, m.price)
    /\ m.pc = "recenter" => m.row = row /\ row.status = "RUNNING"
Undivided ==
    /\ closer.pc = "idle" /\ PassKnows(managing, paper) /\ Ledger(paper, bought, walked, ticker.price)
PaperInv == PaperShape /\ (Alone => Undivided)

USE PaperBookAssumption

LEMMA DistanceIs == ASSUME NEW a \in Int, NEW b \in Int
                    PROVE  Distance(a, b) \in Nat /\ (Distance(a, b) = 0 <=> a = b)
  BY DEF Distance

LEMMA HeldIs == ASSUME NEW row \in PaperRows, NEW p \in Prices PROVE UnitsHeld(row, p) \in Nat
<1>1. row.units \in Nat /\ row.middle \in Int /\ p \in Int
  BY DEF PaperRows, Prices
<1>2. Distance(p, row.middle) \in Nat
  BY <1>1, DistanceIs
<1> QED BY <1>1, <1>2 DEF UnitsHeld

LEMMA ValueIs == ASSUME NEW row \in PaperRows, NEW p \in Prices
                 PROVE  /\ Value(row, p) \in Int /\ Floating(row, p) \in Int
                        /\ row.direction = "NEUTRAL" => ~(Floating(row, p) > 0) /\ ~(Value(row, p) > 0)
                        /\ row.direction = "LONG" => /\ Value(row, p) = row.units * p - row.cost
                                                     /\ Floating(row, p) = row.units * p - row.cost - row.units
<1>1. row.units \in Int /\ row.cost \in Int /\ row.middle \in Int /\ p \in Int /\ row.direction \in {"LONG", "NEUTRAL"}
  BY DEF PaperRows, Prices
<1> DEFINE d == Distance(p, row.middle)
<1>2. d \in Nat
  BY <1>1, DistanceIs
<1>3. UnitsHeld(row, p) = IF row.direction = "LONG" THEN row.units ELSE d
  BY DEF UnitsHeld
<1>4. Value(row, p) = IF row.direction = "LONG" THEN row.units * p - row.cost ELSE -(d * d)
  BY DEF Value
<1> HIDE DEF d
<1>5. row.units * p \in Int /\ d * d \in Nat
  BY <1>1, <1>2
<1> QED BY <1>1, <1>2, <1>3, <1>4, <1>5 DEF Floating

LEMMA PairsAre ==
    ASSUME NEW row \in PaperRows, NEW p \in Prices
    PROVE  /\ Pairs(row, p) \in Nat
           /\ row.direction = "LONG" \/ row.level = p => Pairs(row, p) = 0
<1>1. row.level \in Int /\ row.middle \in Int /\ p \in Int
  BY DEF PaperRows, Prices
<1>2. Distance(row.level, p) \in Nat /\ Distance(row.level, row.middle) \in Nat
      /\ (row.level = p => Distance(row.level, p) = 0)
  BY <1>1, DistanceIs
<1> QED BY <1>2 DEF Pairs

(* Pairs depend on the direction, the level and the middle alone. *)
LEMMA PairsOf ==
    ASSUME NEW a, NEW b, a.direction = b.direction, a.level = b.level, a.middle = b.middle, NEW p
    PROVE  Pairs(a, p) = Pairs(b, p)
  BY DEF Pairs

(* A step of the price books at most the pair it walks. *)
LEMMA PairsStep ==
    ASSUME NEW row \in PaperRows, NEW p \in Prices, NEW q \in Prices, q = p - 1 \/ q = p + 1
    PROVE  Pairs(row, q) <= Pairs(row, p)
             + (IF Distance(q, row.middle) < Distance(p, row.middle) THEN 1 ELSE 0)
<1>1. row.level \in Int /\ row.middle \in Int /\ p \in Int /\ q \in Int
  BY DEF PaperRows, Prices
<1> QED BY <1>1 DEF Pairs, Distance

LEMMA NewRowIs ==
    ASSUME NEW id \in {1, 2}, NEW direction \in {"LONG", "NEUTRAL"}, NEW p \in Prices,
           ticker.boundary \in Nat, NEW row, row = NewRow(id, direction, p)
    PROVE  row \in PaperRows /\ Ledger(row, p, 0, p) /\ row.status = "RUNNING" /\ ~row.settled
           /\ row.id = id /\ row.units = 1
<1>1. /\ row.id = id /\ row.direction = direction /\ row.status = "RUNNING" /\ row.settled = FALSE
      /\ row.realized = (IF direction = "LONG" THEN -1 ELSE 0) /\ row.paid = 0
      /\ row.fees = (IF direction = "LONG" THEN 1 ELSE 0)
      /\ row.level = p /\ row.cost = p /\ row.units = 1
      /\ row.opened = ticker.boundary /\ row.anchor = ticker.boundary
  BY DEF NewRow
<1>2. row \in PaperRows
  BY DEF NewRow, PaperRows, Prices
<1>3. Pairs(row, p) = 0
  BY <1>1, <1>2, PairsAre
<1>4. p \in Int
  BY DEF Prices
<1>5. LongBook(row, p)
  BY <1>1, <1>4 DEF LongBook, Gained
<1>6. PairsBook(row, 0, p)
  BY <1>1, <1>3 DEF PairsBook, Gained, PairGain
<1>7. FundBook(row)
  BY <1>1 DEF FundBook
<1>8. Sunk(row)
  <2>1. row.floating = 0
    BY DEF NewRow
  <2> QED BY <2>1 DEF Sunk
<1> QED BY <1>1, <1>2, <1>5, <1>6, <1>7, <1>8 DEF Ledger

LEMMA PaperStarts == PaperInit => PaperInv
<1> SUFFICES ASSUME PaperInit PROVE PaperInv
  OBVIOUS
<1>1. ticker = [price |-> TopPrice \div 2, moves |-> 0, boundary |-> 0] /\ bought = ticker.price /\ walked = 0
      /\ managing = [pc |-> "idle", row |-> paper, price |-> 0] /\ closer = [pc |-> "idle", row |-> paper]
  BY DEF PaperInit, IdleCloser
<1>2. TopPrice \div 2 \in Prices /\ 0 \in Prices
  BY DEF PaperBookAssumption, Prices
<1>3. PICK direction \in {"LONG", "NEUTRAL"} : paper = NewRow(1, direction, ticker.price)
  BY DEF PaperInit
<1>4. ticker.boundary \in Nat /\ ticker.price \in Prices /\ 1 \in {1, 2}
  BY <1>1, <1>2
<1>5. paper \in PaperRows /\ Ledger(paper, ticker.price, 0, ticker.price) /\ paper.status = "RUNNING"
      /\ ~paper.settled /\ paper.units = 1
  BY <1>3, <1>4, NewRowIs
<1>6. PaperShape
  BY <1>1, <1>2, <1>5 DEF PaperShape, ManageSteps, Prices
<1>7. Undivided
  BY <1>1, <1>5 DEF Undivided, PassKnows
<1> QED BY <1>6, <1>7 DEF PaperInv

(* A step of a pass or a close: the price stays. *)
LEMMA BookMoves ==
    ASSUME PaperInv, UNCHANGED <<paperWorld, ticker, closer>>,
           paper' \in PaperRows, bought' \in Int, walked' \in Int,
           managing' \in [pc : ManageSteps, row : PaperRows, price : Prices],
           paper'.status = "RUNNING" => ~paper'.settled,
           paper'.tranche = 1 => paper'.units = 1,
           Alone => PassKnows(managing, paper)' /\ Ledger(paper', bought', walked', ticker.price)
    PROVE  PaperInv'
<1>1. PaperShape'
  BY DEF PaperInv, PaperShape
<1>2. Alone' <=> Alone
  BY DEF Alone
<1>3. ASSUME Alone PROVE Undivided'
  <2>1. closer'.pc = "idle"
    BY <1>3 DEF PaperInv, Undivided
  <2>2. Ledger(paper', bought', walked', ticker'.price)
    BY <1>3
  <2>3. PassKnows(managing, paper)'
    BY <1>3
  <2> QED BY <2>1, <2>2, <2>3 DEF Undivided
<1> QED BY <1>1, <1>2, <1>3 DEF PaperInv

(* A step that leaves the row as it is. *)
LEMMA PassMoves ==
    ASSUME PaperInv, UNCHANGED <<paperWorld, ticker, closer, paper, bought, walked>>,
           managing' \in [pc : ManageSteps, row : PaperRows, price : Prices],
           Alone => PassKnows(managing, paper)'
    PROVE  PaperInv'
<1>1. /\ paper \in PaperRows /\ bought \in Int /\ walked \in Int
      /\ paper.status = "RUNNING" => ~paper.settled
      /\ paper.tranche = 1 => paper.units = 1
  BY DEF PaperInv, PaperShape
<1>2. Alone => Ledger(paper, bought, walked, ticker.price)
  BY DEF PaperInv, Undivided
<1>3. Alone => Ledger(paper', bought', walked', ticker.price)
  BY <1>2
<1>4. paper' = paper /\ bought' = bought /\ walked' = walked /\ UNCHANGED <<paperWorld, ticker, closer>>
  OBVIOUS
<1>5. /\ paper' \in PaperRows /\ bought' \in Int /\ walked' \in Int
      /\ paper'.status = "RUNNING" => ~paper'.settled
      /\ paper'.tranche = 1 => paper'.units = 1
  BY <1>1, <1>4
<1> QED BY <1>3, <1>4, <1>5, BookMoves

(* What a step finds. *)
LEMMA PaperIs ==
    ASSUME PaperInv
    PROVE  /\ paper \in PaperRows /\ bought \in Int /\ walked \in Int
           /\ ticker.price \in Prices /\ ticker.boundary \in Nat
           /\ managing \in [pc : ManageSteps, row : PaperRows, price : Prices]
           /\ managing.row \in PaperRows /\ managing.price \in Prices
           /\ closer \in [pc : {"idle", "close", "done"}, row : PaperRows]
           /\ paper.status = "RUNNING" => ~paper.settled
           /\ paper.tranche = 1 => paper.units = 1
           /\ Alone => /\ closer.pc = "idle" /\ PassKnows(managing, paper)
                       /\ Ledger(paper, bought, walked, ticker.price)
  BY DEF PaperInv, PaperShape, Undivided

LEMMA PassEnds ==
    ASSUME PaperInv, EndOfPass, paper' \in PaperRows
    PROVE  /\ managing' \in [pc : ManageSteps, row : PaperRows, price : Prices]
           /\ PassKnows(managing, paper)'
<1>1. 0 \in Prices
  BY DEF Prices, PaperBookAssumption
<1>2. managing' = [pc |-> "idle", row |-> paper', price |-> 0]
  BY DEF EndOfPass
<1>3. managing' \in [pc : ManageSteps, row : PaperRows, price : Prices]
  BY <1>1, <1>2 DEF ManageSteps
<1>4. managing'.pc = "idle"
  BY <1>2
<1> QED BY <1>3, <1>4 DEF PassKnows

LEMMA ReadKeeps ==
    ASSUME PaperInv, NEW pc \in {"fund", "stop"}, paper.status = "RUNNING",
           managing' = [pc |-> pc, row |-> paper, price |-> ticker.price],
           UNCHANGED <<paperWorld, ticker, paper, bought, walked, closer>>
    PROVE  PaperInv'
<1>1. managing' \in [pc : ManageSteps, row : PaperRows, price : Prices]
  BY PaperIs DEF ManageSteps
<1>2. PassKnows(managing, paper)'
  BY DEF PassKnows
<1> QED BY <1>1, <1>2, PassMoves

(* Writing a figure with its value at a price. *)
LEMMA MarkedIs ==
    ASSUME NEW row \in PaperRows, NEW r \in Int, NEW f \in Int, NEW p \in Prices,
           NEW next, next = [row EXCEPT !.realized = r, !.floating = f, !.mark = p]
    PROVE  next \in PaperRows
<1> DEFINE one == [row EXCEPT !.realized = r]
           two == [one EXCEPT !.floating = f]
<1>1. one \in PaperRows
  BY DEF PaperRows
<1> HIDE DEF one
<1>2. two \in PaperRows
  BY <1>1 DEF PaperRows
<1>3. next = [two EXCEPT !.mark = p]
  BY DEF one
<1> HIDE DEF two
<1> QED BY <1>2, <1>3 DEF PaperRows

(* A close: of the row that the copy is about, if it still runs. *)
LEMMA CloseIs ==
    ASSUME NEW row \in PaperRows, NEW copy \in PaperRows, NEW total \in Int, NEW p \in Prices,
           row.status = "RUNNING" => ~row.settled, row.tranche = 1 => row.units = 1,
           NEW after, after = CloseRunning(row, copy, total, p)
    PROVE  /\ after \in PaperRows /\ after.id = row.id
           /\ after.status = "RUNNING" => ~after.settled
           /\ after.tranche = 1 => after.units = 1
           /\ row.status # "RUNNING" => after = row
<1>1. CASE row.id = copy.id /\ row.status = "RUNNING"
  <2>1. after = [row EXCEPT !.status = "COMPLETED", !.settled = TRUE, !.realized = total,
                            !.floating = 0, !.mark = p]
    BY <1>1 DEF CloseRunning, Settled
  <2>2. after \in PaperRows
    <3> DEFINE ended == [row EXCEPT !.status = "COMPLETED", !.settled = TRUE]
    <3>1. ended \in PaperRows
      BY DEF PaperRows
    <3>2. after = [ended EXCEPT !.realized = total, !.floating = 0, !.mark = p]
      BY <2>1
    <3> HIDE DEF ended
    <3> DEFINE nothing == 0
    <3>3. nothing \in Int /\ after = [ended EXCEPT !.realized = total, !.floating = nothing, !.mark = p]
      BY <3>2
    <3> HIDE DEF nothing
    <3> QED BY <3>1, <3>3, MarkedIs
  <2>3. after.id = row.id /\ after.status = "COMPLETED" /\ after.tranche = row.tranche /\ after.units = row.units
    BY <2>1 DEF PaperRows
  <2> QED BY <1>1, <2>2, <2>3
<1>2. CASE ~(row.id = copy.id /\ row.status = "RUNNING")
  BY <1>2 DEF CloseRunning
<1> QED BY <1>1, <1>2

\* What a close adds to the book of a LONG grid is what its units sell for.
LEMMA SettlingAddsUp ==
    ASSUME NEW total \in Int, NEW realized \in Int, NEW worth \in Int, NEW cost \in Int,
           NEW units \in Int, NEW spent \in Int, NEW paid \in Int, NEW fees \in Int,
           total = realized + (worth - cost - units), realized + paid + fees = cost - spent
    PROVE  total + paid + fees = worth - spent - units
  OBVIOUS

LEMMA SettledBook ==
    ASSUME NEW row \in PaperRows, NEW copy \in PaperRows, NEW p \in Prices, NEW total,
           NEW b \in Int, NEW w \in Int, NEW q, Ledger(row, b, w, q),
           row.status = "RUNNING" => ~row.settled,
           row.direction = "LONG" => total = row.realized + Floating(row, p), total \in Int,
           NEW after, after = CloseRunning(row, copy, total, p)
    PROVE  Ledger(after, b, w, q)
<1>1. CASE row.id = copy.id /\ row.status = "RUNNING"
  <2>1. after = [row EXCEPT !.status = "COMPLETED", !.settled = TRUE, !.realized = total,
                            !.floating = 0, !.mark = p]
    BY <1>1 DEF CloseRunning, Settled
  <2>2. /\ after.direction = row.direction /\ after.units = row.units /\ after.paid = row.paid
        /\ after.anchor = row.anchor /\ after.opened = row.opened /\ after.fees = row.fees
        /\ after.realized = total /\ after.settled = TRUE /\ after.mark = p /\ after.floating = 0
    BY <2>1 DEF PaperRows
  <2>3. row.direction = "LONG" => Floating(row, p) = row.units * p - row.cost - row.units
    BY ValueIs
  <2>4. row.direction = "LONG" => row.realized + row.paid + row.fees = row.cost - b
    BY <1>1 DEF Ledger, LongBook, Gained
  <2>5. row.units \in Int /\ row.realized \in Int /\ row.paid \in Int /\ row.fees \in Int /\ row.cost \in Int
        /\ p \in Int
    BY DEF PaperRows, Prices
  <2>6. LongBook(after, b)
    <3> DEFINE worth == row.units * p
    <3>1. worth \in Int
      BY <2>5
    <3>2. row.direction = "LONG" => Floating(row, p) = worth - row.cost - row.units
      BY <2>3
    <3>3. after.units * after.mark = worth
      BY <2>2
    <3> HIDE DEF worth
    <3>5. row.direction = "LONG" => total = row.realized + (worth - row.cost - row.units)
      BY <3>2
    <3>4. row.direction = "LONG" => total + row.paid + row.fees = worth - b - row.units
      BY <2>4, <2>5, <3>1, <3>5, SettlingAddsUp
    <3> QED BY <2>2, <3>3, <3>4 DEF LongBook, Gained
  <2>7. PairsBook(after, w, q)
    BY <2>2 DEF PairsBook
  <2>8. FundBook(after)
    BY <2>2 DEF Ledger, FundBook
  <2>9. Sunk(after)
    BY <2>2 DEF Sunk
  <2> QED BY <2>6, <2>7, <2>8, <2>9 DEF Ledger
<1>2. CASE ~(row.id = copy.id /\ row.status = "RUNNING")
  BY <1>2 DEF CloseRunning
<1> QED BY <1>1, <1>2

(* As long as nobody else writes, the copy's units are worth what the row's are. *)
LEMMA SameFloats ==
    ASSUME NEW copy \in PaperRows, NEW row \in PaperRows, NEW p \in Prices,
           copy.direction = row.direction, copy.units = row.units, copy.cost = row.cost,
           row.direction = "LONG" => copy.realized = row.realized
    PROVE  TotalAgrees(copy, row, p)
<1>1. SUFFICES ASSUME row.direction = "LONG"
               PROVE  copy.realized + Floating(copy, p) = row.realized + Floating(row, p)
  BY DEF TotalAgrees
<1>2. Floating(row, p) = row.units * p - row.cost - row.units
  BY <1>1, ValueIs
<1>3. Floating(copy, p) = copy.units * p - copy.cost - copy.units
  BY <1>1, ValueIs
<1> QED BY <1>1, <1>2, <1>3

(* Pairs are not a LONG grid's: what the pass has booked is what the row says. *)
LEMMA BookedAgrees ==
    ASSUME NEW copy \in PaperRows, NEW row \in PaperRows, NEW p \in Prices, Booked(copy, row, p)
    PROVE  TotalAgrees(copy, row, p)
<1>1. row.direction = "LONG" => copy.realized = row.realized
  <2>1. row.direction = "LONG" => Pairs(row, p) = 0
    BY PairsAre
  <2>2. row.realized \in Int
    BY DEF PaperRows
  <2> QED BY <2>1, <2>2 DEF Booked, PairGain
<1> QED BY <1>1, SameFloats DEF Booked, SamePosition

LEMMA TotalIs ==
    ASSUME PaperInv
    PROVE  /\ Total(managing.row) \in Int
           /\ Total(managing.row) = managing.row.realized + Floating(managing.row, managing.price)
<1>1. managing.row \in PaperRows /\ managing.price \in Prices
  BY PaperIs
<1>2. Floating(managing.row, managing.price) \in Int /\ managing.row.realized \in Int
  BY <1>1, ValueIs DEF PaperRows
<1> QED BY <1>2 DEF Total

(* A pass closes the row: at its own price, with what its copy knows. *)
LEMMA PassCloses ==
    ASSUME PaperInv,
           managing.pc \in {"close", "stop"} \/ (managing.pc = "radar" /\ "exit" \in paperWorld),
           NEW after, after = CloseRunning(paper, managing.row, Total(managing.row), managing.price)
    PROVE  /\ after \in PaperRows /\ after.id = paper.id
           /\ after.status = "RUNNING" => ~after.settled
           /\ after.tranche = 1 => after.units = 1
           /\ Alone => Ledger(after, bought, walked, ticker.price)
<1> DEFINE copy == managing.row
           p == managing.price
           total == Total(managing.row)
<1>1. copy \in PaperRows /\ p \in Prices /\ paper \in PaperRows /\ bought \in Int /\ walked \in Int
      /\ (paper.status = "RUNNING" => ~paper.settled) /\ (paper.tranche = 1 => paper.units = 1)
  BY PaperIs
<1>2. total \in Int /\ total = copy.realized + Floating(copy, p)
  BY TotalIs
<1>3. ASSUME Alone
      PROVE  Ledger(paper, bought, walked, ticker.price) /\ TotalAgrees(copy, paper, p)
  <2>1. Ledger(paper, bought, walked, ticker.price) /\ PassKnows(managing, paper)
    BY <1>3, PaperIs
  <2>2. CASE managing.pc = "close"
    <3>1. Booked(copy, paper, p)
      BY <2>1, <2>2 DEF PassKnows
    <3> QED BY <1>1, <2>1, <3>1, BookedAgrees
  <2>3. CASE managing.pc = "stop"
    BY <2>1, <2>3 DEF PassKnows, TotalAgrees
  <2>4. CASE managing.pc = "radar" /\ "exit" \in paperWorld
    BY <2>1, <2>4 DEF PassKnows
  <2> QED BY <2>2, <2>3, <2>4
<1>4. after = CloseRunning(paper, copy, total, p)
  OBVIOUS
<1> HIDE DEF copy, p, total
<1>5. /\ after \in PaperRows /\ after.id = paper.id
      /\ after.status = "RUNNING" => ~after.settled
      /\ after.tranche = 1 => after.units = 1
  BY <1>1, <1>2, <1>4, CloseIs
<1>6. ASSUME Alone PROVE Ledger(after, bought, walked, ticker.price)
  <2>1. paper.direction = "LONG" => total = paper.realized + Floating(paper, p)
    BY <1>2, <1>3, <1>6 DEF TotalAgrees
  <2>3. Ledger(paper, bought, walked, ticker.price)
    BY <1>3, <1>6
  <2> QED BY <1>1, <1>2, <1>4, <2>1, <2>3, SettledBook
<1> QED BY <1>5, <1>6

LEMMA DeltaIs ==
    ASSUME NEW row \in PaperRows, NEW p \in Prices, ticker.boundary \in Nat
    PROVE  /\ FundingDelta(row, p) \in Int
           /\ row.direction = "LONG" /\ row.units = 1
                => FundingDelta(row, p) = ticker.boundary - row.anchor
<1> DEFINE held == UnitsHeld(row, p)
           due == Due(row)
<1>1. held \in Nat
  BY HeldIs
<1>2. due \in Int /\ due = ticker.boundary - row.anchor
  BY DEF Due, PaperRows
<1>3. row.direction = "LONG" => held = row.units
  BY DEF UnitsHeld
<1>4. FundingDelta(row, p) = IF row.direction = "LONG" \/ p < row.middle THEN held * due ELSE -(held * due)
  BY DEF FundingDelta
<1> HIDE DEF held, due
<1>5. held * due \in Int
  BY <1>1, <1>2
<1>6. held = 1 => held * due = due
  BY <1>1, <1>2
<1> QED BY <1>2, <1>3, <1>4, <1>5, <1>6

(* What a charge leaves, and what it changes. *)
Charged(row, delta, after) ==
    /\ after \in PaperRows /\ after.realized = row.realized - delta /\ after.paid = row.paid + delta
    /\ after.anchor = ticker.boundary /\ after.id = row.id /\ after.direction = row.direction
    /\ after.status = row.status /\ after.settled = row.settled /\ after.units = row.units
    /\ after.cost = row.cost /\ after.fees = row.fees /\ after.mark = row.mark
    /\ after.opened = row.opened /\ after.level = row.level /\ after.middle = row.middle
    /\ after.tranche = row.tranche /\ after.floating = row.floating

LEMMA ChargeIs ==
    ASSUME NEW row \in PaperRows, NEW delta \in Int, ticker.boundary \in Nat,
           NEW after, after = Charge(row, delta)
    PROVE  Charged(row, delta, after)
<1> DEFINE realized == row.realized - delta
           paid == row.paid + delta
<1>1. realized \in Int /\ paid \in Int
  BY DEF PaperRows
<1>2. after = [row EXCEPT !.realized = realized, !.paid = paid, !.anchor = ticker.boundary]
  BY DEF Charge
<1> HIDE DEF realized, paid
<1>3. after \in PaperRows /\ after.realized = realized /\ after.paid = paid
      /\ after.anchor = ticker.boundary
  BY <1>1, <1>2 DEF PaperRows
<1>4. /\ after.id = row.id /\ after.direction = row.direction /\ after.status = row.status
      /\ after.settled = row.settled /\ after.units = row.units /\ after.cost = row.cost
      /\ after.fees = row.fees /\ after.mark = row.mark /\ after.opened = row.opened
      /\ after.level = row.level /\ after.middle = row.middle /\ after.tranche = row.tranche
      /\ after.floating = row.floating
  <2>1. {"id", "direction", "status", "settled", "units", "cost", "fees", "mark", "opened", "level",
         "middle", "tranche", "floating"} \subseteq DOMAIN row
    BY DEF PaperRows
  <2>2. \A k \in DOMAIN row \ {"realized", "paid", "anchor"} : after[k] = row[k]
    BY <1>2
  <2> QED BY <2>1, <2>2
<1> QED BY <1>3, <1>4 DEF realized, paid, Charged

(* A charge moves money between two columns, and the anchor with it. *)
LEMMA ChargedBook ==
    ASSUME NEW row \in PaperRows, NEW p \in Prices, NEW q \in Prices, NEW b \in Int, NEW w \in Int,
           ticker.boundary \in Nat, Ledger(row, b, w, q),
           NEW after, after = Charge(row, FundingDelta(row, p))
    PROVE  Ledger(after, b, w, q)
<1> DEFINE delta == FundingDelta(row, p)
<1>1. delta \in Int /\ (row.direction = "LONG" /\ row.units = 1 => delta = ticker.boundary - row.anchor)
  BY DeltaIs
<1>2. after = Charge(row, delta)
  OBVIOUS
<1> HIDE DEF delta
<1>10. Charged(row, delta, after)
  BY <1>1, <1>2, ChargeIs
<1>3. /\ after \in PaperRows /\ after.realized = row.realized - delta /\ after.paid = row.paid + delta
      /\ after.anchor = ticker.boundary /\ after.direction = row.direction
      /\ after.settled = row.settled /\ after.units = row.units
      /\ after.cost = row.cost /\ after.fees = row.fees /\ after.mark = row.mark
      /\ after.opened = row.opened /\ after.level = row.level /\ after.middle = row.middle
  BY <1>10 DEF Charged
<1>4. row.realized \in Int /\ row.paid \in Int /\ row.fees \in Int /\ row.anchor \in Int /\ row.opened \in Int
  BY DEF PaperRows
<1>5. Gained(after) = Gained(row)
  BY <1>1, <1>3, <1>4 DEF Gained
<1>6. Pairs(after, q) = Pairs(row, q)
  BY <1>3, PairsOf
<1>7. LongBook(after, b)
  BY <1>3, <1>5 DEF Ledger, LongBook
<1>8. PairsBook(after, w, q)
  BY <1>3, <1>5, <1>6 DEF Ledger, PairsBook
<1>9. FundBook(after)
  <2>1. CASE row.direction = "LONG" /\ row.units = 1
    <3>1. row.paid = row.anchor - row.opened /\ delta = ticker.boundary - row.anchor
      BY <1>1, <2>1 DEF Ledger, FundBook
    <3> QED BY <1>3, <1>4, <3>1 DEF FundBook
  <2>2. CASE ~(row.direction = "LONG" /\ row.units = 1)
    BY <1>3, <2>2 DEF FundBook
  <2> QED BY <2>1, <2>2
<1>11. Sunk(after)
  BY <1>10 DEF Charged, Ledger, Sunk
<1> QED BY <1>7, <1>8, <1>9, <1>11 DEF Ledger

LEMMA FundKeeps == ASSUME PaperInv, PaperFund PROVE PaperInv'
<1> DEFINE copy == managing.row
           p == managing.price
           delta == FundingDelta(copy, p)
           figure == copy.realized + PairGain * Pairs(copy, p)
           earned == [copy EXCEPT !.realized = figure]
           spent == [earned EXCEPT !.realized = @ - delta, !.paid = @ + delta]
<1>1. /\ copy \in PaperRows /\ p \in Prices /\ paper \in PaperRows /\ bought \in Int /\ walked \in Int
      /\ ticker.boundary \in Nat /\ ticker.price \in Prices
      /\ (paper.status = "RUNNING" => ~paper.settled) /\ (paper.tranche = 1 => paper.units = 1)
      /\ managing \in [pc : ManageSteps, row : PaperRows, price : Prices]
  BY PaperIs
<1>2. managing.pc = "fund" /\ UNCHANGED <<paperWorld, ticker, bought, walked, closer>>
  BY DEF PaperFund
<1>3. \/ delta = 0 /\ paper' = paper /\ managing' = [managing EXCEPT !.pc = "decide", !.row = earned]
      \/ /\ managing' = [managing EXCEPT !.pc = "decide", !.row = spent]
         /\ \/ paper' = paper /\ ("write_lost" \in paperWorld \/ paper.id # copy.id)
            \/ paper' = Charge(paper, delta)
  BY DEF PaperFund, Lost
<1>4. figure \in Int /\ copy.realized \in Int /\ copy.paid \in Int
  BY <1>1, PairsAre DEF PaperRows, PairGain
<1>5. delta \in Int
  BY <1>1, DeltaIs
<1>6. Alone => copy = paper /\ paper.status = "RUNNING" /\ p = ticker.price
               /\ "write_lost" \notin paperWorld /\ Ledger(paper, bought, walked, ticker.price)
  BY <1>2, PaperIs DEF PassKnows, Alone
<1>7. Alone => figure = paper.realized + PairGain * Pairs(paper, p)
  BY <1>6
<1>8. Alone => delta = FundingDelta(paper, ticker.price)
  BY <1>6
<1> HIDE DEF figure, delta
<1>9. earned \in PaperRows /\ spent \in PaperRows
  <2>1. earned \in PaperRows
    BY <1>1, <1>4 DEF PaperRows
  <2> DEFINE less == figure - delta
             more == copy.paid + delta
  <2>2. less \in Int /\ more \in Int
    BY <1>4, <1>5
  <2>3. earned.realized = figure /\ earned.paid = copy.paid
    BY <1>1 DEF PaperRows
  <2>4. spent = [earned EXCEPT !.realized = less, !.paid = more]
    BY <2>3
  <2> HIDE DEF earned, less, more
  <2> QED BY <2>1, <2>2, <2>4 DEF PaperRows
<1>10. managing' \in [pc : ManageSteps, row : PaperRows, price : Prices] /\ managing'.pc = "decide"
       /\ managing'.price = p /\ managing'.row \in {earned, spent}
  BY <1>1, <1>3, <1>9 DEF ManageSteps
<1>11. CASE delta = 0 /\ paper' = paper /\ managing' = [managing EXCEPT !.pc = "decide", !.row = earned]
  <2>1. ASSUME Alone PROVE PassKnows(managing, paper)'
    <3>1. managing'.row = earned
      BY <1>1, <1>11
    <3>2. SamePosition(earned, paper) /\ earned.realized = figure
      BY <1>1, <1>6, <2>1 DEF SamePosition, PaperRows
    <3>3. Booked(managing'.row, paper', managing'.price)
      BY <1>7, <1>10, <1>11, <2>1, <3>1, <3>2 DEF Booked
    <3> QED BY <1>2, <1>6, <1>10, <1>11, <2>1, <3>3 DEF PassKnows
  <2>2. UNCHANGED <<paperWorld, ticker, closer, paper, bought, walked>>
    BY <1>2, <1>11
  <2> QED BY <1>10, <2>1, <2>2, PassMoves
<1>12. CASE /\ managing' = [managing EXCEPT !.pc = "decide", !.row = spent]
            /\ \/ paper' = paper /\ ("write_lost" \in paperWorld \/ paper.id # copy.id)
               \/ paper' = Charge(paper, delta)
  <2>4. paper' = Charge(paper, delta) => Charged(paper, delta, paper')
    BY <1>1, <1>5, ChargeIs
  <2>1. /\ paper' \in PaperRows /\ paper'.status = paper.status /\ paper'.settled = paper.settled
        /\ paper'.tranche = paper.tranche /\ paper'.units = paper.units
    BY <1>1, <1>12, <2>4 DEF Charged
  <2>2. ASSUME Alone PROVE PassKnows(managing, paper)' /\ Ledger(paper', bought', walked', ticker.price)
    <3>1. paper' = Charge(paper, delta)
      BY <1>6, <1>12, <2>2
    <3>2. Ledger(paper', bought', walked', ticker.price)
      <4>1. paper' = Charge(paper, FundingDelta(paper, ticker.price))
        BY <1>8, <2>2, <3>1
      <4>2. Ledger(paper', bought, walked, ticker.price)
        BY <1>1, <1>6, <2>2, <4>1, ChargedBook
      <4> QED BY <1>2, <4>2
    <3>3. /\ paper'.realized = paper.realized - delta /\ paper'.paid = paper.paid + delta
          /\ paper'.id = paper.id /\ paper'.direction = paper.direction /\ paper'.units = paper.units
          /\ paper'.cost = paper.cost /\ paper'.level = paper.level /\ paper'.middle = paper.middle
      BY <2>4, <3>1 DEF Charged
    <3>4. Pairs(paper', p) = Pairs(paper, p)
      BY <3>3, PairsOf
    <3>5. /\ spent.realized = figure - delta /\ spent.paid = paper.paid + delta /\ spent.id = paper.id
          /\ spent.direction = paper.direction /\ spent.units = paper.units /\ spent.cost = paper.cost
      BY <1>1, <1>6, <2>2 DEF PaperRows
    <3>6. Pairs(paper, p) \in Nat /\ paper.realized \in Int
      BY <1>1, PairsAre DEF PaperRows
    <3>7. figure - delta = (paper.realized - delta) + PairGain * Pairs(paper, p)
      BY <1>5, <1>7, <2>2, <3>6 DEF PairGain
    <3>8. managing'.row = spent
      BY <1>1, <1>12
    <3>9. Booked(managing'.row, paper', managing'.price)
      BY <1>10, <3>3, <3>4, <3>5, <3>7, <3>8 DEF Booked, SamePosition
    <3> QED BY <1>2, <1>6, <1>10, <2>1, <2>2, <3>2, <3>9 DEF PassKnows
  <2>3. UNCHANGED <<paperWorld, ticker, closer>> /\ bought' \in Int /\ walked' \in Int
        /\ (paper'.status = "RUNNING" => ~paper'.settled) /\ (paper'.tranche = 1 => paper'.units = 1)
    BY <1>1, <1>2, <2>1
  <2> QED BY <1>10, <2>1, <2>2, <2>3, BookMoves
<1> QED BY <1>3, <1>11, <1>12

(* A step of the pass to another place: its copy and its price stay. *)
LEMMA GoesTo ==
    ASSUME PaperInv, NEW pc \in ManageSteps, To(pc)
    PROVE  /\ managing' \in [pc : ManageSteps, row : PaperRows, price : Prices]
           /\ managing'.pc = pc /\ managing'.row = managing.row /\ managing'.price = managing.price
  BY PaperIs DEF To

LEMMA DecideKeeps == ASSUME PaperInv, PaperDecide PROVE PaperInv'
<1>1. managing.pc = "decide" /\ UNCHANGED <<paperWorld, ticker, paper, bought, walked, closer>>
  BY DEF PaperDecide
<1>2. PICK pc \in {"close", "mark", "shift", "radar"} : To(pc)
  BY DEF PaperDecide
<1>3. /\ managing' \in [pc : ManageSteps, row : PaperRows, price : Prices]
      /\ managing'.pc = pc /\ managing'.row = managing.row /\ managing'.price = managing.price
  <2>1. pc \in ManageSteps
    BY DEF ManageSteps
  <2> QED BY <1>2, <2>1, GoesTo
<1>4. ASSUME Alone PROVE PassKnows(managing, paper)'
  <2>1. PassKnows(managing, paper)
    BY <1>4, PaperIs
  <2>2. Booked(managing.row, paper, managing.price) /\ paper.status = "RUNNING"
        /\ managing.price = ticker.price
    BY <1>1, <2>1 DEF PassKnows
  <2>3. TotalAgrees(managing.row, paper, managing.price)
    BY <2>2, PaperIs, BookedAgrees
  <2> QED BY <1>1, <1>3, <2>2, <2>3 DEF PassKnows
<1> QED BY <1>1, <1>3, <1>4, PassMoves

(* The row after a mark or a shift without profit: the pass's figure, at its
   price. *)
Marked(row, copy, p, after) ==
    /\ after \in PaperRows /\ after.realized = copy.realized /\ after.level = p
    /\ after.paid \in {row.paid, copy.paid} /\ after.id = row.id /\ after.direction = row.direction
    /\ after.status = row.status /\ after.settled = row.settled /\ after.units = row.units
    /\ after.cost = row.cost /\ after.fees = row.fees /\ after.opened = row.opened
    /\ after.anchor = row.anchor /\ after.tranche = row.tranche
    /\ after.floating \in {Floating(copy, p), Value(copy, p)}
LEMMA MarkedBook ==
    ASSUME NEW row \in PaperRows, NEW copy \in PaperRows, NEW p \in Prices, NEW b \in Int, NEW w \in Int,
           Ledger(row, b, w, p), Booked(copy, row, p), ~row.settled, NEW after, Marked(row, copy, p, after)
    PROVE  Ledger(after, b, w, p) /\ TotalAgrees(copy, after, p)
<1>1. /\ after.realized = row.realized + PairGain * Pairs(row, p) /\ after.paid = row.paid
      /\ after.direction = row.direction /\ after.settled = FALSE /\ after.cost = row.cost
      /\ after.fees = row.fees /\ after.opened = row.opened /\ after.anchor = row.anchor
      /\ after.units = row.units /\ after \in PaperRows /\ after.level = p
  BY DEF Marked, Booked, SamePosition, PaperRows
<1>2. Pairs(row, p) \in Nat /\ (row.direction = "LONG" => Pairs(row, p) = 0) /\ Pairs(after, p) = 0
  BY <1>1, PairsAre
<1>3. row.realized \in Int /\ row.paid \in Int /\ row.fees \in Int
  BY DEF PaperRows
<1>4. Gained(after) = Gained(row) + PairGain * Pairs(row, p) /\ Gained(row) \in Int
  BY <1>1, <1>2, <1>3 DEF Gained, PairGain
<1>5. row.direction = "LONG" => Gained(after) = Gained(row)
  BY <1>2, <1>4 DEF PairGain
<1>6. LongBook(after, b)
  BY <1>1, <1>5 DEF Ledger, LongBook
<1>7. PairsBook(after, w, p)
  <2>1. SUFFICES ASSUME row.direction = "NEUTRAL"
                 PROVE  0 <= Gained(after) /\ Gained(after) + PairGain * Pairs(after, p) <= PairGain * w
    BY <1>1 DEF PairsBook
  <2>2. 0 <= Gained(row) /\ Gained(row) + PairGain * Pairs(row, p) <= PairGain * w
    BY <2>1 DEF Ledger, PairsBook
  <2> QED BY <1>2, <1>4, <2>2 DEF PairGain
<1>8. FundBook(after)
  BY <1>1 DEF Ledger, FundBook
<1>9. Sunk(after)
  <2>1. copy.direction = row.direction /\ after.direction = row.direction
    BY DEF Booked, SamePosition, Marked
  <2>2. copy.direction = "NEUTRAL" => ~(Floating(copy, p) > 0) /\ ~(Value(copy, p) > 0)
    BY ValueIs
  <2> QED BY <2>1, <2>2 DEF Sunk, Marked
<1>10. TotalAgrees(copy, after, p)
  <2>1. copy.direction = after.direction /\ copy.units = after.units /\ copy.cost = after.cost
        /\ copy.realized = after.realized
    BY DEF Marked, Booked, SamePosition
  <2> QED BY <1>1, <2>1, SameFloats
<1> QED BY <1>6, <1>7, <1>8, <1>9, <1>10 DEF Ledger

LEMMA MarkKeeps == ASSUME PaperInv, PaperMark PROVE PaperInv'
<1> DEFINE copy == managing.row
           p == managing.price
           floating == Floating(copy, p)
<1>1. /\ copy \in PaperRows /\ p \in Prices /\ paper \in PaperRows /\ bought \in Int /\ walked \in Int
      /\ (paper.status = "RUNNING" => ~paper.settled) /\ (paper.tranche = 1 => paper.units = 1)
  BY PaperIs
<1>2. managing.pc = "mark" /\ UNCHANGED <<paperWorld, ticker, bought, walked, closer>>
  BY DEF PaperMark
<1>3. To("pour")
  BY DEF PaperMark, To
<1>4. \/ paper' = paper /\ paper.id # copy.id
      \/ paper' = [paper EXCEPT !.mark = p, !.floating = floating, !.realized = copy.realized,
                                !.level = p, !.paid = copy.paid]
  BY DEF PaperMark
<1>5. floating \in Int /\ copy.realized \in Int /\ copy.paid \in Int
  BY <1>1, ValueIs DEF PaperRows
<1>6. Alone => /\ Booked(copy, paper, p) /\ paper.status = "RUNNING" /\ p = ticker.price
               /\ Ledger(paper, bought, walked, ticker.price)
  BY <1>2, PaperIs DEF PassKnows
<1>12. floating = Floating(copy, p)
  OBVIOUS
<1> HIDE DEF copy, p, floating
<1>7. \/ paper' = paper /\ paper.id # copy.id
      \/ Marked(paper, copy, p, paper') /\ paper'.paid = copy.paid
  <2>1. CASE paper' = paper /\ paper.id # copy.id
    BY <2>1
  <2>2. CASE paper' = [paper EXCEPT !.mark = p, !.floating = floating, !.realized = copy.realized,
                                    !.level = p, !.paid = copy.paid]
    <3> DEFINE one == [paper EXCEPT !.realized = copy.realized, !.floating = floating, !.mark = p]
    <3>1. one \in PaperRows
      BY <1>1, <1>5, MarkedIs
    <3>2. one.realized = copy.realized /\ one.floating = floating /\ \A k \in DOMAIN paper \ {"mark", "floating", "realized"} : one[k] = paper[k]
      BY <1>1 DEF PaperRows
    <3>3. paper' = [one EXCEPT !.level = p, !.paid = copy.paid]
      BY <2>2
    <3> HIDE DEF one
    <3>4. /\ paper' \in PaperRows /\ paper'.realized = one.realized /\ paper'.level = p /\ paper'.paid = copy.paid
          /\ paper'.id = one.id /\ paper'.direction = one.direction
          /\ paper'.status = one.status /\ paper'.settled = one.settled /\ paper'.units = one.units
          /\ paper'.cost = one.cost /\ paper'.fees = one.fees /\ paper'.opened = one.opened
          /\ paper'.anchor = one.anchor /\ paper'.tranche = one.tranche /\ paper'.floating = one.floating
      BY <1>1, <1>5, <3>1, <3>3 DEF PaperRows
    <3>5. /\ one.id = paper.id /\ one.direction = paper.direction
          /\ one.status = paper.status /\ one.settled = paper.settled /\ one.units = paper.units
          /\ one.cost = paper.cost /\ one.fees = paper.fees /\ one.opened = paper.opened
          /\ one.anchor = paper.anchor /\ one.tranche = paper.tranche
      BY <1>1, <3>2 DEF PaperRows
    <3> QED BY <1>12, <3>2, <3>4, <3>5 DEF Marked
  <2> QED BY <1>4, <2>1, <2>2
<1>8. /\ paper' \in PaperRows /\ (paper'.status = "RUNNING" => ~paper'.settled)
      /\ (paper'.tranche = 1 => paper'.units = 1)
  BY <1>1, <1>7 DEF Marked
<1>9. /\ managing' \in [pc : ManageSteps, row : PaperRows, price : Prices]
      /\ managing'.pc = "pour" /\ managing'.row = copy /\ managing'.price = p
  <2>1. "pour" \in ManageSteps
    BY DEF ManageSteps
  <2> QED BY <1>3, <2>1, GoesTo DEF copy, p
<1>10. ASSUME Alone PROVE PassKnows(managing, paper)' /\ Ledger(paper', bought', walked', ticker.price)
  <2>1. Marked(paper, copy, p, paper') /\ paper'.paid = copy.paid
    <3>1. paper.id = copy.id
      BY <1>6, <1>10 DEF Booked, SamePosition
    <3> QED BY <1>7, <3>1
  <2>2. Ledger(paper', bought, walked, p)
    BY <1>1, <1>6, <1>10, <2>1, MarkedBook
  <2>3. SamePosition(copy, paper') /\ copy.realized = paper'.realized
    BY <1>6, <1>10, <2>1 DEF Marked, Booked, SamePosition
  <2> QED BY <1>2, <1>6, <1>9, <1>10, <2>2, <2>3 DEF PassKnows
<1>11. UNCHANGED <<paperWorld, ticker, closer>> /\ bought' \in Int /\ walked' \in Int
  BY <1>1, <1>2
<1> QED BY <1>8, <1>9, <1>10, <1>11, BookMoves

(* A shift in profit books the value of a LONG grid and starts it anew. *)
Rebased(row, copy, p, after) ==
    /\ after \in PaperRows /\ after.realized = copy.realized + Value(copy, p)
    /\ after.cost = RebasedCost(copy, p)
    /\ after.paid = row.paid /\ after.id = row.id /\ after.direction = row.direction
    /\ after.status = row.status /\ after.settled = row.settled /\ after.units = row.units
    /\ after.fees = row.fees /\ after.opened = row.opened
    /\ after.anchor = row.anchor /\ after.tranche = row.tranche
LEMMA RebasedBook ==
    ASSUME NEW row \in PaperRows, NEW copy \in PaperRows, NEW p \in Prices, NEW b \in Int, NEW w \in Int,
           Ledger(row, b, w, p), Booked(copy, row, p), ~row.settled, row.direction = "LONG",
           NEW after, Rebased(row, copy, p, after)
    PROVE  Ledger(after, b, w, p) /\ TotalAgrees(copy, after, p)
<1>1. copy.direction = row.direction /\ copy.units = row.units /\ copy.cost = row.cost
      /\ copy.realized = row.realized + PairGain * Pairs(row, p)
  BY DEF Booked, SamePosition
<1>2. row.direction = "LONG"
  OBVIOUS
<1>3. Value(copy, p) = row.units * p - row.cost
  <2>1. copy.direction = "LONG"
    BY <1>1, <1>2
  <2>2. Value(copy, p) = copy.units * p - copy.cost
    BY <2>1 DEF Value
  <2> QED BY <1>1, <2>2
<1>4. Pairs(row, p) = 0 /\ row.realized \in Int /\ row.paid \in Int /\ row.fees \in Int /\ row.cost \in Int
      /\ row.units \in Int /\ p \in Int
  BY <1>2, PairsAre DEF PaperRows, Prices
<1> DEFINE worth == row.units * p
<1>5. worth \in Int /\ Value(copy, p) = worth - row.cost /\ RebasedCost(copy, p) = worth
  BY <1>1, <1>2, <1>3, <1>4 DEF RebasedCost
<1> HIDE DEF worth
<1>6. /\ after.direction = "LONG" /\ after.settled = FALSE /\ after.paid = row.paid /\ after.fees = row.fees
      /\ after.opened = row.opened /\ after.anchor = row.anchor /\ after.units = row.units
      /\ after.cost = worth
  BY <1>2, <1>5 DEF Rebased, PaperRows
<1>7. after.realized = row.realized + (worth - row.cost)
  <2>1. copy.realized = row.realized
    BY <1>1, <1>4 DEF PairGain
  <2> QED BY <1>5, <2>1 DEF Rebased
<1>8. row.realized + row.paid + row.fees = row.cost - b
  BY <1>2 DEF Ledger, LongBook, Gained
<1>9. LongBook(after, b)
  <2>1. after.realized + after.paid + after.fees = worth - b
    <3>1. after.realized + after.paid + after.fees
            = (row.realized + (worth - row.cost)) + row.paid + row.fees
      BY <1>6, <1>7
    <3>2. worth \in Int /\ row.realized \in Int /\ row.paid \in Int /\ row.fees \in Int /\ row.cost \in Int
      BY <1>4, <1>5
    <3>3. (row.realized + (worth - row.cost)) + row.paid + row.fees = worth - b
      BY <1>8, <3>2
    <3> QED BY <3>1, <3>3
  <2> QED BY <1>6, <2>1 DEF LongBook, Gained
<1>10. PairsBook(after, w, p) /\ FundBook(after)
  BY <1>2, <1>6 DEF PairsBook, FundBook, Ledger
<1>11. Sunk(after)
  BY <1>6 DEF Sunk
<1>12. TotalAgrees(copy, after, p)
  <2>1. Floating(copy, p) = Value(copy, p) - copy.units
    BY <1>1, <1>2 DEF Floating, UnitsHeld
  <2>2. Floating(after, p) = after.units * p - after.cost - after.units
    BY <1>6, ValueIs DEF Rebased
  <2>3. after.units * p = worth
    BY <1>6 DEF worth
  <2>4. after.realized = copy.realized + Value(copy, p) /\ after.units = copy.units
    BY <1>1, <1>6 DEF Rebased
  <2>5. copy.realized \in Int /\ Value(copy, p) \in Int /\ copy.units \in Int
    BY <1>1, <1>4, <1>5 DEF PaperRows
  <2>6. Floating(after, p) = -copy.units
    BY <1>5, <1>6, <2>2, <2>3, <2>4, <2>5
  <2> QED BY <2>1, <2>4, <2>5, <2>6 DEF TotalAgrees
<1> QED BY <1>9, <1>10, <1>11, <1>12 DEF Ledger

LEMMA ShiftKeeps == ASSUME PaperInv, PaperShift PROVE PaperInv'
<1> DEFINE copy == managing.row
           p == managing.price
           value == Value(copy, p)
           normal == Floating(copy, p) > 0
           cost == RebasedCost(copy, p)
           total == copy.realized + value
           shifts == paper.shifts + 1
           moved == [paper EXCEPT !.middle = p, !.level = p, !.mark = p, !.shifts = shifts]
<1>1. /\ copy \in PaperRows /\ p \in Prices /\ paper \in PaperRows /\ bought \in Int /\ walked \in Int
      /\ (paper.status = "RUNNING" => ~paper.settled) /\ (paper.tranche = 1 => paper.units = 1)
  BY PaperIs
<1>2. managing.pc = "shift" /\ UNCHANGED <<paperWorld, ticker, bought, walked, closer>> /\ To("radar")
  BY DEF PaperShift
<1>3. \/ paper' = paper /\ paper.id # copy.id
      \/ normal /\ paper' = [moved EXCEPT !.realized = total, !.floating = 0, !.cost = cost]
      \/ ~normal /\ paper' = [moved EXCEPT !.realized = copy.realized, !.floating = value]
  BY DEF PaperShift, ShiftedLevel
<1>4. value \in Int /\ copy.realized \in Int /\ total \in Int /\ shifts \in Nat
  BY <1>1, ValueIs DEF PaperRows
<1>5. cost \in Int
  <2>1. copy.units \in Int /\ copy.cost \in Int /\ p \in Int
    BY <1>1 DEF PaperRows, Prices
  <2>2. copy.units * p \in Int
    BY <2>1
  <2> QED BY <2>1, <2>2 DEF RebasedCost
<1>6. Alone => /\ Booked(copy, paper, p) /\ paper.status = "RUNNING" /\ p = ticker.price
               /\ Ledger(paper, bought, walked, ticker.price)
  BY <1>2, PaperIs DEF PassKnows
<1>7. total = copy.realized + Value(copy, p) /\ cost = RebasedCost(copy, p) /\ (normal <=> Floating(copy, p) > 0)
      /\ value = Value(copy, p)
  OBVIOUS
<1>14. /\ managing' \in [pc : ManageSteps, row : PaperRows, price : Prices]
       /\ managing'.pc = "radar" /\ managing'.row = copy /\ managing'.price = p
  <2>1. "radar" \in ManageSteps
    BY DEF ManageSteps
  <2> QED BY <1>2, <2>1, GoesTo
<1> HIDE DEF copy, p, value, normal, cost, total, shifts
<1>8. /\ moved \in PaperRows /\ moved.level = p
      /\ moved.paid = paper.paid /\ moved.id = paper.id /\ moved.direction = paper.direction
      /\ moved.status = paper.status /\ moved.settled = paper.settled /\ moved.units = paper.units
      /\ moved.fees = paper.fees /\ moved.opened = paper.opened
      /\ moved.anchor = paper.anchor /\ moved.tranche = paper.tranche /\ moved.cost = paper.cost
  BY <1>1, <1>4 DEF PaperRows
<1> HIDE DEF moved
<1>9. \/ paper' = paper /\ paper.id # copy.id
      \/ normal /\ Rebased(paper, copy, p, paper')
      \/ Marked(paper, copy, p, paper')
  <2>1. CASE normal /\ paper' = [moved EXCEPT !.realized = total, !.floating = 0, !.cost = cost]
    <3> DEFINE nothing == 0
    <3>2. nothing \in Int /\ paper' = [moved EXCEPT !.realized = total, !.floating = nothing, !.cost = cost]
      BY <2>1
    <3> HIDE DEF nothing
    <3>1. /\ paper' \in PaperRows /\ paper'.realized = total /\ paper'.cost = cost
          /\ paper'.paid = moved.paid /\ paper'.id = moved.id /\ paper'.direction = moved.direction
          /\ paper'.status = moved.status /\ paper'.settled = moved.settled /\ paper'.units = moved.units
          /\ paper'.fees = moved.fees /\ paper'.opened = moved.opened
          /\ paper'.anchor = moved.anchor /\ paper'.tranche = moved.tranche
      BY <1>4, <1>5, <1>8, <3>2 DEF PaperRows
    <3> QED BY <1>7, <1>8, <2>1, <3>1 DEF Rebased
  <2>2. CASE ~normal /\ paper' = [moved EXCEPT !.realized = copy.realized, !.floating = value]
    <3>1. /\ paper' \in PaperRows /\ paper'.realized = copy.realized /\ paper'.cost = moved.cost
          /\ paper'.paid = moved.paid /\ paper'.id = moved.id /\ paper'.direction = moved.direction
          /\ paper'.status = moved.status /\ paper'.settled = moved.settled /\ paper'.units = moved.units
          /\ paper'.fees = moved.fees /\ paper'.opened = moved.opened /\ paper'.level = moved.level
          /\ paper'.anchor = moved.anchor /\ paper'.tranche = moved.tranche /\ paper'.floating = value
      BY <1>4, <1>8, <2>2 DEF PaperRows
    <3> QED BY <1>7, <1>8, <3>1 DEF Marked
  <2> QED BY <1>3, <2>1, <2>2
<1>10. /\ paper' \in PaperRows /\ (paper'.status = "RUNNING" => ~paper'.settled)
       /\ (paper'.tranche = 1 => paper'.units = 1)
  BY <1>1, <1>9 DEF Marked, Rebased
<1>11. ASSUME Alone PROVE Ledger(paper', bought', walked', ticker.price) /\ TotalAgrees(copy, paper', p)
  <2>1. paper.id = copy.id /\ ~paper.settled /\ Booked(copy, paper, p) /\ Ledger(paper, bought, walked, p)
    BY <1>1, <1>6, <1>11 DEF Booked, SamePosition
  <2>2. CASE normal /\ Rebased(paper, copy, p, paper')
    <3>1. paper.direction = "LONG"
      <4>1. copy.direction = "LONG"
        BY <1>1, <1>7, <2>2, ValueIs DEF PaperRows
      <4> QED BY <2>1, <4>1 DEF Booked, SamePosition
    <3>2. Ledger(paper', bought, walked, p) /\ TotalAgrees(copy, paper', p)
      BY <1>1, <2>1, <2>2, <3>1, RebasedBook
    <3> QED BY <1>2, <1>6, <1>11, <3>2
  <2>3. CASE Marked(paper, copy, p, paper')
    <3>1. Ledger(paper', bought, walked, p) /\ TotalAgrees(copy, paper', p)
      BY <1>1, <2>1, <2>3, MarkedBook
    <3> QED BY <1>2, <1>6, <1>11, <3>1
  <2> QED BY <1>9, <2>1, <2>2, <2>3
<1>13. UNCHANGED <<paperWorld, ticker, closer>> /\ bought' \in Int /\ walked' \in Int
  BY <1>1, <1>2
<1>15. ASSUME Alone PROVE PassKnows(managing, paper)'
  BY <1>2, <1>6, <1>11, <1>14, <1>15 DEF PassKnows
<1> QED BY <1>10, <1>11, <1>13, <1>14, <1>15, BookMoves

LEMMA PaperCloseKeeps == ASSUME PaperInv, PaperClose PROVE PaperInv'
<1>1. managing.pc = "close" /\ UNCHANGED <<paperWorld, ticker, bought, walked, closer>>
      /\ paper' = CloseRunning(paper, managing.row, Total(managing.row), managing.price)
  BY DEF PaperClose
<1>2. \E pc \in {"redeploy", "ended"} : To(pc)
  BY DEF PaperClose, To
<1>3. PICK pc \in {"redeploy", "ended"} : To(pc)
  BY <1>2
<1>4. managing' \in [pc : ManageSteps, row : PaperRows, price : Prices]
      /\ managing'.pc = pc /\ managing'.price = managing.price
  <2>1. pc \in ManageSteps
    BY DEF ManageSteps
  <2> QED BY <1>3, <2>1, GoesTo
<1>5. /\ paper' \in PaperRows /\ (paper'.status = "RUNNING" => ~paper'.settled)
      /\ (paper'.tranche = 1 => paper'.units = 1)
      /\ (Alone => Ledger(paper', bought, walked, ticker.price))
  BY <1>1, PassCloses
<1>6. ASSUME Alone PROVE PassKnows(managing, paper)'
  <2>1. managing.price = ticker.price
    BY <1>1, <1>6, PaperIs DEF PassKnows
  <2> QED BY <1>1, <1>4, <2>1 DEF PassKnows
<1>7. UNCHANGED <<paperWorld, ticker, closer>> /\ bought' \in Int /\ walked' \in Int
  BY <1>1, PaperIs
<1>8. Alone => Ledger(paper', bought', walked', ticker.price)
  BY <1>1, <1>5
<1> QED BY <1>4, <1>5, <1>6, <1>7, <1>8, BookMoves

LEMMA RedeployKeeps == ASSUME PaperInv, PaperRedeploy PROVE PaperInv'
<1>1. managing.pc = "redeploy" /\ EndOfPass /\ UNCHANGED <<paperWorld, ticker, closer>>
  BY DEF PaperRedeploy
<1>2. \/ /\ paper' = NewRow(2, paper.direction, managing.price)
         /\ bought' = managing.price /\ walked' = 0
      \/ UNCHANGED <<paper, bought, walked>>
  BY DEF PaperRedeploy
<1>3. CASE UNCHANGED <<paper, bought, walked>>
  <2>1. paper' \in PaperRows /\ UNCHANGED <<paperWorld, ticker, closer, paper, bought, walked>>
    BY <1>1, <1>3, PaperIs
  <2>2. managing' \in [pc : ManageSteps, row : PaperRows, price : Prices] /\ PassKnows(managing, paper)'
    BY <1>1, <2>1, PassEnds
  <2> QED BY <2>1, <2>2, PassMoves
<1>4. CASE /\ paper' = NewRow(2, paper.direction, managing.price)
           /\ bought' = managing.price /\ walked' = 0
  <2>1. paper.direction \in {"LONG", "NEUTRAL"} /\ managing.price \in Prices /\ ticker.boundary \in Nat
        /\ 2 \in {1, 2}
    BY PaperIs DEF PaperRows
  <2>2. paper' \in PaperRows /\ Ledger(paper', managing.price, 0, managing.price) /\ ~paper'.settled
        /\ paper'.units = 1
    BY <1>4, <2>1, NewRowIs
  <2>3. managing' \in [pc : ManageSteps, row : PaperRows, price : Prices] /\ PassKnows(managing, paper)'
    BY <1>1, <2>2, PassEnds
  <2>4. Alone => managing.price = ticker.price
    BY <1>1, PaperIs DEF PassKnows
  <2>5. Alone => Ledger(paper', bought', walked', ticker.price)
    BY <1>4, <2>2, <2>4
  <2>6. bought' \in Int /\ walked' \in Int
    BY <1>4, <2>1 DEF Prices
  <2> QED BY <1>1, <2>2, <2>3, <2>5, <2>6, BookMoves
<1> QED BY <1>2, <1>3, <1>4

(* A pour buys a unit: its cost, its fee and the tranche. *)
Poured(row, p, after) ==
    /\ after \in PaperRows /\ after.cost = row.cost + p /\ after.realized = row.realized - 1
    /\ after.fees = row.fees + 1 /\ after.units = 2 /\ after.tranche = 2 /\ after.paid = row.paid
    /\ after.direction = row.direction /\ after.settled = row.settled /\ after.status = row.status

LEMMA PourIs ==
    ASSUME NEW row \in PaperRows, NEW p \in Prices, row.units = 1,
           NEW after, after = [row EXCEPT !.units = @ + 1, !.cost = @ + p, !.realized = @ - 1,
                                          !.fees = @ + 1, !.tranche = 2]
    PROVE  Poured(row, p, after)
<1> DEFINE cost == row.cost + p
           realized == row.realized - 1
           fees == row.fees + 1
           units == row.units + 1
           one == [row EXCEPT !.units = units, !.cost = cost]
<1>1. cost \in Int /\ realized \in Int /\ fees \in Int /\ units = 2
  BY DEF PaperRows, Prices
<1>2. after = [one EXCEPT !.realized = realized, !.fees = fees, !.tranche = 2]
  OBVIOUS
<1> HIDE DEF cost, realized, fees, units
<1>3. /\ one \in PaperRows /\ one.cost = cost /\ one.units = 2 /\ one.paid = row.paid
      /\ one.direction = row.direction /\ one.settled = row.settled /\ one.status = row.status
  BY <1>1 DEF PaperRows
<1> HIDE DEF one
<1> DEFINE two == [one EXCEPT !.realized = realized, !.fees = fees]
<1>4. /\ two \in PaperRows /\ two.cost = cost /\ two.units = 2 /\ two.paid = row.paid
      /\ two.direction = row.direction /\ two.settled = row.settled /\ two.status = row.status
      /\ two.realized = realized /\ two.fees = fees
  BY <1>1, <1>3 DEF PaperRows
<1>5. after = [two EXCEPT !.tranche = 2]
  BY <1>2
<1> HIDE DEF two
<1>6. after \in PaperRows /\ after.tranche = 2
  BY <1>4, <1>5 DEF PaperRows
<1>7. /\ after.cost = two.cost /\ after.units = two.units /\ after.paid = two.paid
      /\ after.direction = two.direction /\ after.settled = two.settled /\ after.status = two.status
      /\ after.realized = two.realized /\ after.fees = two.fees
  <2>1. {"cost", "units", "paid", "direction", "settled", "status", "realized", "fees"} \subseteq DOMAIN two
    BY <1>4 DEF PaperRows
  <2>2. \A k \in DOMAIN two \ {"tranche"} : after[k] = two[k]
    BY <1>5
  <2> QED BY <2>1, <2>2
<1> QED BY <1>4, <1>6, <1>7 DEF Poured, cost, realized, fees

LEMMA PouredBook ==
    ASSUME NEW row \in PaperRows, NEW p \in Prices, NEW b \in Int, NEW w \in Int, NEW q,
           Ledger(row, b, w, q), row.direction = "LONG", ~row.settled, NEW after, Poured(row, p, after)
    PROVE  Ledger(after, b + p, w, q)
<1>1. row.cost \in Int /\ row.realized \in Int /\ row.paid \in Int /\ row.fees \in Int /\ p \in Int
  BY DEF PaperRows, Prices
<1>2. row.realized + row.paid + row.fees = row.cost - b
  BY DEF Ledger, LongBook, Gained
<1>3. after.realized + after.paid + after.fees = (row.realized - 1) + row.paid + (row.fees + 1)
  BY DEF Poured
<1>4. (row.realized - 1) + row.paid + (row.fees + 1) = (row.cost + p) - (b + p)
  BY <1>1, <1>2
<1>5. LongBook(after, b + p)
  BY <1>3, <1>4 DEF LongBook, Gained, Poured
<1>6. PairsBook(after, w, q) /\ FundBook(after) /\ Sunk(after)
  BY DEF PairsBook, FundBook, Sunk, Poured
<1> QED BY <1>5, <1>6 DEF Ledger

LEMMA PaperPourKeeps == ASSUME PaperInv, PaperPour PROVE PaperInv'
<1> DEFINE copy == managing.row
           p == managing.price
<1>1. /\ copy \in PaperRows /\ p \in Prices /\ paper \in PaperRows /\ bought \in Int /\ walked \in Int
      /\ (paper.status = "RUNNING" => ~paper.settled) /\ (paper.tranche = 1 => paper.units = 1)
  BY PaperIs
<1>2. managing.pc = "pour" /\ To("radar") /\ UNCHANGED <<paperWorld, ticker, walked, closer>>
  BY DEF PaperPour
<1>3. \/ /\ "pour" \in paperWorld /\ PourDue(copy) /\ bought' = bought + p
         /\ paper' = [paper EXCEPT !.units = @ + 1, !.cost = @ + p, !.realized = @ - 1,
                                   !.fees = @ + 1, !.tranche = 2]
      \/ UNCHANGED <<paper, bought>>
  BY DEF PaperPour
<1>4. /\ managing' \in [pc : ManageSteps, row : PaperRows, price : Prices]
      /\ managing'.pc = "radar" /\ managing'.row = copy /\ managing'.price = p
  <2>1. "radar" \in ManageSteps
    BY DEF ManageSteps
  <2> QED BY <1>2, <2>1, GoesTo
<1>5. Alone => /\ p = ticker.price /\ SamePosition(copy, paper) /\ copy.realized = paper.realized
               /\ Ledger(paper, bought, walked, ticker.price)
  BY <1>2, PaperIs DEF PassKnows
<1> HIDE DEF copy, p
<1>6. CASE UNCHANGED <<paper, bought>>
  <2>1. ASSUME Alone PROVE PassKnows(managing, paper)'
    <3>1. TotalAgrees(copy, paper, p)
      BY <1>1, <1>5, <2>1, SameFloats DEF SamePosition
    <3> QED BY <1>2, <1>4, <1>5, <1>6, <2>1, <3>1 DEF PassKnows
  <2>2. UNCHANGED <<paperWorld, ticker, closer, paper, bought, walked>>
    BY <1>2, <1>6
  <2> QED BY <1>4, <2>1, <2>2, PassMoves
<1>7. CASE /\ "pour" \in paperWorld /\ PourDue(copy) /\ bought' = bought + p
           /\ paper' = [paper EXCEPT !.units = @ + 1, !.cost = @ + p, !.realized = @ - 1,
                                     !.fees = @ + 1, !.tranche = 2]
  <2>1. copy.direction = "LONG" /\ paper.status = "RUNNING" /\ paper.tranche = 1
    BY <1>7 DEF PourDue
  <2>2. ~paper.settled /\ paper.units = 1
    BY <1>1, <2>1
  <2>3. Poured(paper, p, paper')
    BY <1>1, <1>7, <2>2, PourIs
  <2>4. /\ paper' \in PaperRows /\ (paper'.status = "RUNNING" => ~paper'.settled)
        /\ (paper'.tranche = 1 => paper'.units = 1)
    BY <2>2, <2>3 DEF Poured
  <2>5. ASSUME Alone PROVE PassKnows(managing, paper)' /\ Ledger(paper', bought', walked', ticker.price)
    <3>1. "exit" \notin paperWorld
      BY <1>7, <2>5 DEF Alone
    <3>2. PassKnows(managing, paper)'
      BY <1>2, <1>4, <1>5, <2>5, <3>1 DEF PassKnows
    <3>3. paper.direction = "LONG"
      BY <1>5, <2>1, <2>5 DEF SamePosition
    <3>4. Ledger(paper, bought, walked, ticker.price)
      BY <1>5, <2>5
    <3>5. Ledger(paper', bought + p, walked, ticker.price)
      BY <1>1, <2>2, <2>3, <3>3, <3>4, PouredBook
    <3> QED BY <1>2, <1>7, <3>2, <3>5
  <2>6. UNCHANGED <<paperWorld, ticker, closer>> /\ bought' \in Int /\ walked' \in Int
    BY <1>1, <1>2, <1>7 DEF Prices
  <2> QED BY <1>4, <2>4, <2>5, <2>6, BookMoves
<1> QED BY <1>3, <1>6, <1>7

(* The last step of a pass, whatever it writes. *)
LEMMA LastStep ==
    ASSUME PaperInv, EndOfPass, UNCHANGED <<paperWorld, ticker, bought, walked, closer>>,
           paper' \in PaperRows, paper'.status = "RUNNING" => ~paper'.settled,
           paper'.tranche = 1 => paper'.units = 1,
           Alone => Ledger(paper', bought, walked, ticker.price)
    PROVE  PaperInv'
<1>1. managing' \in [pc : ManageSteps, row : PaperRows, price : Prices] /\ PassKnows(managing, paper)'
  BY PassEnds
<1>2. bought' \in Int /\ walked' \in Int
  BY PaperIs
<1>3. Alone => Ledger(paper', bought', walked', ticker.price)
  OBVIOUS
<1> QED BY <1>1, <1>2, <1>3, BookMoves

LEMMA ExitKeeps == ASSUME PaperInv, RadarExits PROVE PaperInv'
<1>1. /\ managing.pc = "radar" /\ "exit" \in paperWorld
      /\ paper' = CloseRunning(paper, managing.row, Total(managing.row), managing.price)
      /\ To("redeploy") \/ EndOfPass
      /\ UNCHANGED <<paperWorld, ticker, bought, walked, closer>>
  BY DEF RadarExits
<1>2. /\ paper' \in PaperRows /\ (paper'.status = "RUNNING" => ~paper'.settled)
      /\ (paper'.tranche = 1 => paper'.units = 1)
      /\ (Alone => Ledger(paper', bought, walked, ticker.price))
  BY <1>1, PassCloses
<1>3. CASE EndOfPass
  BY <1>1, <1>2, <1>3, LastStep
<1>4. CASE To("redeploy")
  <2>1. /\ managing' \in [pc : ManageSteps, row : PaperRows, price : Prices]
        /\ managing'.pc = "redeploy" /\ managing'.price = managing.price
    <3>1. "redeploy" \in ManageSteps
      BY DEF ManageSteps
    <3> QED BY <1>4, <3>1, GoesTo
  <2>2. ASSUME Alone PROVE PassKnows(managing, paper)'
    <3>1. managing.price = ticker.price
      BY <1>1, <2>2, PaperIs DEF PassKnows
    <3> QED BY <1>1, <2>1, <3>1 DEF PassKnows
  <2>3. bought' \in Int /\ walked' \in Int
    BY <1>1, PaperIs
  <2>4. Alone => Ledger(paper', bought', walked', ticker.price)
    BY <1>1, <1>2
  <2> QED BY <1>1, <1>2, <2>1, <2>2, <2>3, <2>4, BookMoves
<1> QED BY <1>1, <1>3, <1>4

(* A close of the row as it stands, at its own mark. *)
LEMMA AutocloseKeeps == ASSUME PaperInv, RadarAutocloses PROVE PaperInv'
<1> DEFINE p == paper.mark
           total == paper.realized + Floating(paper, p)
<1>1. /\ paper \in PaperRows /\ bought \in Int /\ walked \in Int
      /\ (paper.status = "RUNNING" => ~paper.settled) /\ (paper.tranche = 1 => paper.units = 1)
      /\ (Alone => Ledger(paper, bought, walked, ticker.price))
  BY PaperIs
<1>2. p \in Prices /\ paper.realized \in Int
  BY <1>1 DEF PaperRows
<1>3. total \in Int
  <2>1. Floating(paper, p) \in Int
    BY <1>1, <1>2, ValueIs
  <2> QED BY <1>2, <2>1
<1>4. paper' = CloseRunning(paper, paper, total, p) /\ EndOfPass
      /\ UNCHANGED <<paperWorld, ticker, bought, walked, closer>>
  BY DEF RadarAutocloses
<1>5. total = paper.realized + Floating(paper, p)
  OBVIOUS
<1> HIDE DEF p, total
<1>6. /\ paper' \in PaperRows /\ (paper'.status = "RUNNING" => ~paper'.settled)
      /\ (paper'.tranche = 1 => paper'.units = 1)
  BY <1>1, <1>2, <1>3, <1>4, CloseIs
<1>7. Alone => Ledger(paper', bought, walked, ticker.price)
  BY <1>1, <1>2, <1>3, <1>4, <1>5, SettledBook
<1> QED BY <1>4, <1>6, <1>7, LastStep

LEMMA RadarReadKeeps == ASSUME PaperInv, RadarReads PROVE PaperInv'
<1>1. /\ managing.pc = "radar" /\ paper.status = "RUNNING"
      /\ managing' = [managing EXCEPT !.pc = "recenter", !.row = paper]
      /\ UNCHANGED <<paperWorld, ticker, paper, bought, walked, closer>>
  BY DEF RadarReads
<1>2. /\ managing' \in [pc : ManageSteps, row : PaperRows, price : Prices]
      /\ managing'.pc = "recenter" /\ managing'.row = paper /\ managing'.price = managing.price
  BY <1>1, PaperIs DEF ManageSteps
<1>3. ASSUME Alone PROVE PassKnows(managing, paper)'
  <2>1. managing.price = ticker.price
    BY <1>1, <1>3, PaperIs DEF PassKnows
  <2> QED BY <1>1, <1>2, <2>1 DEF PassKnows
<1> QED BY <1>1, <1>2, <1>3, PassMoves

(* A shift under water moves the range alone. *)
Moved(row, p, after) ==
    /\ after \in PaperRows /\ after.realized = row.realized /\ after.level = p
    /\ after.paid = row.paid /\ after.id = row.id /\ after.direction = row.direction
    /\ after.status = row.status /\ after.settled = row.settled /\ after.units = row.units
    /\ after.cost = row.cost /\ after.fees = row.fees /\ after.opened = row.opened
    /\ after.anchor = row.anchor /\ after.tranche = row.tranche
    /\ after.floating = row.floating /\ after.mark = row.mark
LEMMA MovedBook ==
    ASSUME NEW row \in PaperRows, NEW p \in Prices, NEW b \in Int, NEW w \in Int,
           Ledger(row, b, w, p), NEW after, Moved(row, p, after)
    PROVE  Ledger(after, b, w, p)
<1>1. Gained(after) = Gained(row) /\ Gained(row) \in Int
  BY DEF Moved, Gained, PaperRows
<1>2. Pairs(after, p) = 0 /\ Pairs(row, p) \in Nat
  BY PairsAre DEF Moved
<1>3. LongBook(after, b)
  BY <1>1 DEF Ledger, LongBook, Moved
<1>4. PairsBook(after, w, p)
  <2>1. SUFFICES ASSUME row.direction = "NEUTRAL", ~row.settled
                 PROVE  0 <= Gained(after) /\ Gained(after) + PairGain * Pairs(after, p) <= PairGain * w
    BY DEF PairsBook, Moved
  <2>2. 0 <= Gained(row) /\ Gained(row) + PairGain * Pairs(row, p) <= PairGain * w
    BY <2>1 DEF Ledger, PairsBook
  <2> QED BY <1>1, <1>2, <2>2 DEF PairGain
<1>5. FundBook(after) /\ Sunk(after)
  BY DEF Ledger, FundBook, Sunk, Moved
<1> QED BY <1>3, <1>4, <1>5 DEF Ledger

LEMMA RecentredIs ==
    ASSUME NEW row \in PaperRows, NEW copy \in PaperRows, NEW p \in Prices,
           NEW after, after = Recentred(row, copy, p)
    PROVE  \/ after = row /\ (row.id # copy.id \/ row.status # "RUNNING")
           \/ copy.floating > 0 /\ Rebased(row, copy, p, after)
           \/ Moved(row, p, after)
<1> DEFINE total == copy.realized + Value(copy, p)
           cost == RebasedCost(copy, p)
           shifts == row.shifts + 1
           moved == [row EXCEPT !.middle = p, !.level = p, !.shifts = shifts]
<1>1. \/ after = row /\ (row.id # copy.id \/ row.status # "RUNNING")
      \/ copy.floating > 0 /\ after = [moved EXCEPT !.realized = total, !.floating = 0, !.mark = p, !.cost = cost]
      \/ after = moved
  BY DEF Recentred
<1>2. total \in Int /\ shifts \in Nat
  BY ValueIs DEF PaperRows
<1>3. cost \in Int
  <2>1. copy.units \in Int /\ copy.cost \in Int /\ p \in Int
    BY DEF PaperRows, Prices
  <2>2. copy.units * p \in Int
    BY <2>1
  <2> QED BY <2>1, <2>2 DEF RebasedCost
<1>4. total = copy.realized + Value(copy, p) /\ cost = RebasedCost(copy, p)
  OBVIOUS
<1> HIDE DEF total, cost, shifts
<1>5. Moved(row, p, moved)
  BY <1>2 DEF PaperRows, Moved
<1> HIDE DEF moved
<1>6. CASE copy.floating > 0 /\ after = [moved EXCEPT !.realized = total, !.floating = 0, !.mark = p, !.cost = cost]
  <2> DEFINE nothing == 0
  <2>1. nothing \in Int /\ after = [moved EXCEPT !.realized = total, !.floating = nothing, !.mark = p, !.cost = cost]
    BY <1>6
  <2> HIDE DEF nothing
  <2> DEFINE one == [moved EXCEPT !.realized = total, !.floating = nothing, !.mark = p]
  <2>2. moved \in PaperRows
    BY <1>5 DEF Moved
  <2>3. one \in PaperRows
    BY <1>2, <2>1, <2>2, MarkedIs
  <2>4. one.realized = total /\ \A k \in DOMAIN moved \ {"mark", "floating", "realized"} : one[k] = moved[k]
    BY <2>2 DEF PaperRows
  <2>5. after = [one EXCEPT !.cost = cost]
    BY <2>1
  <2> HIDE DEF one
  <2>6. after \in PaperRows /\ after.cost = cost /\ after.realized = total
    BY <1>3, <2>3, <2>4, <2>5 DEF PaperRows
  <2>7. \A k \in DOMAIN one \ {"cost"} : after[k] = one[k]
    BY <2>5
  <2>8. /\ after.paid = moved.paid /\ after.id = moved.id /\ after.direction = moved.direction
        /\ after.status = moved.status /\ after.settled = moved.settled /\ after.units = moved.units
        /\ after.fees = moved.fees /\ after.opened = moved.opened
        /\ after.anchor = moved.anchor /\ after.tranche = moved.tranche
    BY <2>2, <2>3, <2>4, <2>7 DEF PaperRows
  <2> QED BY <1>4, <1>5, <1>6, <2>6, <2>8 DEF Moved, Rebased
<1> QED BY <1>1, <1>5, <1>6

LEMMA RecenterKeeps == ASSUME PaperInv, RadarRecenters PROVE PaperInv'
<1> DEFINE copy == managing.row
           p == managing.price
<1>1. /\ copy \in PaperRows /\ p \in Prices /\ paper \in PaperRows /\ bought \in Int /\ walked \in Int
      /\ (paper.status = "RUNNING" => ~paper.settled) /\ (paper.tranche = 1 => paper.units = 1)
      /\ (Alone => Ledger(paper, bought, walked, ticker.price))
  BY PaperIs
<1>2. /\ managing.pc = "recenter" /\ EndOfPass /\ paper' = Recentred(paper, copy, p)
      /\ UNCHANGED <<paperWorld, ticker, bought, walked, closer>>
  BY DEF RadarRecenters
<1>3. Alone => copy = paper /\ p = ticker.price /\ paper.status = "RUNNING"
  BY <1>2, PaperIs DEF PassKnows
<1> HIDE DEF copy, p
<1>4. \/ paper' = paper
      \/ copy.floating > 0 /\ Rebased(paper, copy, p, paper')
      \/ Moved(paper, p, paper')
  BY <1>1, <1>2, RecentredIs
<1>5. /\ paper' \in PaperRows /\ (paper'.status = "RUNNING" => ~paper'.settled)
      /\ (paper'.tranche = 1 => paper'.units = 1)
  BY <1>1, <1>4 DEF Rebased, Moved
<1>6. ASSUME Alone PROVE Ledger(paper', bought, walked, ticker.price)
  <2>1. Ledger(paper, bought, walked, p) /\ ~paper.settled /\ copy = paper /\ p = ticker.price
    BY <1>1, <1>3, <1>6
  <2>2. CASE copy.floating > 0 /\ Rebased(paper, copy, p, paper')
    <3>1. paper.direction = "LONG"
      <4>1. Sunk(paper) /\ paper.direction \in {"LONG", "NEUTRAL"}
        BY <1>1, <2>1 DEF Ledger, PaperRows
      <4> QED BY <2>1, <2>2, <4>1 DEF Sunk
    <3>2. Booked(paper, paper, p)
      <4>1. Pairs(paper, p) = 0 /\ paper.realized \in Int
        BY <1>1, <3>1, PairsAre DEF PaperRows
      <4> QED BY <4>1 DEF Booked, SamePosition, PairGain
    <3>3. Rebased(paper, paper, p, paper')
      BY <2>1, <2>2
    <3>4. Ledger(paper', bought, walked, p)
      BY <1>1, <2>1, <3>1, <3>2, <3>3, RebasedBook
    <3> QED BY <2>1, <3>4
  <2>3. CASE Moved(paper, p, paper')
    <3>1. Ledger(paper', bought, walked, p)
      BY <1>1, <2>1, <2>3, MovedBook
    <3> QED BY <2>1, <3>1
  <2> QED BY <1>1, <1>4, <1>6, <2>2, <2>3
<1> QED BY <1>2, <1>5, <1>6, LastStep

LEMMA RadarPassKeeps == ASSUME PaperInv, RadarPasses PROVE PaperInv'
<1>1. EndOfPass /\ UNCHANGED <<paperWorld, ticker, paper, bought, walked, closer>>
  BY DEF RadarPasses
<1>2. /\ paper' \in PaperRows /\ (paper'.status = "RUNNING" => ~paper'.settled)
      /\ (paper'.tranche = 1 => paper'.units = 1)
      /\ (Alone => Ledger(paper', bought, walked, ticker.price))
  BY <1>1, PaperIs
<1> QED BY <1>1, <1>2, LastStep

LEMMA StopIs ==
    ASSUME NEW row \in PaperRows, NEW after, after = [row EXCEPT !.status = "STOPPED"]
    PROVE  /\ after \in PaperRows /\ after.status = "STOPPED" /\ after.tranche = row.tranche
           /\ after.units = row.units
           /\ \A b, w, q : Ledger(row, b, w, q) => Ledger(after, b, w, q)
<1>1. /\ after \in PaperRows /\ after.status = "STOPPED" /\ after.tranche = row.tranche
      /\ after.units = row.units /\ after.direction = row.direction /\ after.settled = row.settled
      /\ after.realized = row.realized /\ after.paid = row.paid /\ after.fees = row.fees
      /\ after.cost = row.cost /\ after.mark = row.mark /\ after.anchor = row.anchor
      /\ after.opened = row.opened /\ after.level = row.level /\ after.middle = row.middle
      /\ after.floating = row.floating
  BY DEF PaperRows
<1>2. \A q : Pairs(after, q) = Pairs(row, q)
  BY <1>1, PairsOf
<1>3. \A b, w, q : Ledger(row, b, w, q) => Ledger(after, b, w, q)
  <2>1. SUFFICES ASSUME NEW b, NEW w, NEW q, Ledger(row, b, w, q) PROVE Ledger(after, b, w, q)
    OBVIOUS
  <2>2. Gained(after) = Gained(row)
    BY <1>1 DEF Gained
  <2>3. LongBook(after, b)
    BY <1>1, <2>1, <2>2 DEF Ledger, LongBook
  <2>4. PairsBook(after, w, q)
    BY <1>1, <1>2, <2>1, <2>2 DEF Ledger, PairsBook
  <2>5. FundBook(after) /\ Sunk(after)
    BY <1>1, <2>1 DEF Ledger, FundBook, Sunk
  <2> QED BY <2>3, <2>4, <2>5 DEF Ledger
<1> QED BY <1>1, <1>3

LEMMA FleetStopKeeps == ASSUME PaperInv, FleetStopSettles PROVE PaperInv'
<1>1. managing.pc = "stop" /\ EndOfPass /\ UNCHANGED <<paperWorld, ticker, bought, walked, closer>>
  BY DEF FleetStopSettles
<1>2. \/ paper' = CloseRunning(paper, managing.row, Total(managing.row), managing.price)
      \/ paper' = [paper EXCEPT !.status = "STOPPED"]
      \/ paper' = paper
  BY DEF FleetStopSettles
<1>3. /\ paper' \in PaperRows /\ (paper'.status = "RUNNING" => ~paper'.settled)
      /\ (paper'.tranche = 1 => paper'.units = 1)
      /\ (Alone => Ledger(paper', bought, walked, ticker.price))
  <2>1. CASE paper' = paper
    BY <2>1, PaperIs
  <2>2. CASE paper' = CloseRunning(paper, managing.row, Total(managing.row), managing.price)
    BY <1>1, <2>2, PassCloses
  <2>3. CASE paper' = [paper EXCEPT !.status = "STOPPED"]
    BY <2>3, StopIs, PaperIs
  <2> QED BY <1>2, <2>1, <2>2, <2>3
<1>4. managing' \in [pc : ManageSteps, row : PaperRows, price : Prices] /\ PassKnows(managing, paper)'
  BY <1>1, <1>3, PassEnds
<1>5. UNCHANGED <<paperWorld, ticker, closer>> /\ bought' \in Int /\ walked' \in Int
  BY <1>1, PaperIs
<1>6. Alone => Ledger(paper', bought', walked', ticker.price)
  BY <1>1, <1>3
<1> QED BY <1>3, <1>4, <1>5, <1>6, BookMoves

LEMMA OperatorKeeps == ASSUME PaperInv, OperatorReads \/ OperatorCloses PROVE PaperInv'
<1>1. UNCHANGED <<paperWorld, ticker, bought, walked, managing>>
  BY DEF OperatorReads, OperatorCloses
<1>2. ~Alone
  <2>1. CASE OperatorReads
    BY <2>1 DEF OperatorReads, Alone
  <2>2. CASE OperatorCloses
    BY <2>2, PaperIs DEF OperatorCloses
  <2> QED BY <2>1, <2>2
<1>3. ~Alone'
  BY <1>1, <1>2 DEF Alone
<1>4. /\ paper' \in PaperRows /\ (paper'.status = "RUNNING" => ~paper'.settled)
      /\ (paper'.tranche = 1 => paper'.units = 1)
      /\ closer' \in [pc : {"idle", "close", "done"}, row : PaperRows]
  <2>1. CASE OperatorReads
    BY <2>1, PaperIs DEF OperatorReads
  <2>2. CASE OperatorCloses
    <3> DEFINE copy == closer.row
               total == copy.realized + Floating(copy, copy.mark)
    <3>1. copy \in PaperRows
      BY PaperIs
    <3>2. copy.mark \in Prices /\ copy.realized \in Int
      BY <3>1 DEF PaperRows
    <3>3. total \in Int
      <4>1. Floating(copy, copy.mark) \in Int
        BY <3>1, <3>2, ValueIs
      <4> QED BY <3>2, <4>1
    <3>4. paper' = CloseRunning(paper, copy, total, copy.mark) /\ closer' = [pc |-> "done", row |-> paper']
      BY <2>2 DEF OperatorCloses
    <3> HIDE DEF copy, total
    <3>5. /\ paper' \in PaperRows /\ (paper'.status = "RUNNING" => ~paper'.settled)
          /\ (paper'.tranche = 1 => paper'.units = 1)
      BY <3>1, <3>2, <3>3, <3>4, CloseIs, PaperIs
    <3> QED BY <3>4, <3>5
  <2> QED BY <2>1, <2>2
<1>5. PaperShape'
  BY <1>1, <1>4 DEF PaperInv, PaperShape
<1> QED BY <1>3, <1>5 DEF PaperInv

LEMMA PriceKeeps == ASSUME PaperInv, PriceMoves PROVE PaperInv'
<1>1. managing.pc = "idle" /\ UNCHANGED <<paperWorld, paper, bought, managing, closer>>
  BY DEF PriceMoves
<1>2. PICK q \in {ticker.price - 1, ticker.price + 1} \cap (0 .. TopPrice) :
        /\ ticker' = [ticker EXCEPT !.price = q, !.moves = @ + 1]
        /\ walked' = IF Approaches(ticker.price, q) THEN walked + 1 ELSE walked
  BY DEF PriceMoves
<1> DEFINE p == ticker.price
<1>3. q \in Prices /\ p \in Prices /\ (q = p - 1 \/ q = p + 1)
  BY <1>2, PaperIs DEF Prices
<1>4. ticker' \in [price : Prices, moves : Nat, boundary : Nat] /\ ticker'.price = q
  <2>1. ticker \in [price : Prices, moves : Nat, boundary : Nat]
    BY DEF PaperInv, PaperShape
  <2> DEFINE more == ticker.moves + 1
  <2>2. more \in Nat
    BY <2>1
  <2>3. ticker' = [ticker EXCEPT !.price = q, !.moves = more]
    BY <1>2, <2>1
  <2> HIDE DEF more
  <2> QED BY <1>3, <2>1, <2>2, <2>3
<1>5. paper \in PaperRows /\ walked \in Int
  BY PaperIs
<1>6. walked' \in Int
  BY <1>2, <1>5
<1>7. PaperShape'
  BY <1>1, <1>4, <1>6 DEF PaperInv, PaperShape
<1>8. ASSUME Alone PROVE Undivided'
  <2>1. closer.pc = "idle" /\ Ledger(paper, bought, walked, p)
    BY <1>8, PaperIs
  <2>2. PassKnows(managing, paper)'
    BY <1>1 DEF PassKnows
  <2>3. PairsBook(paper, walked', q)
    <3> DEFINE step == IF Distance(q, paper.middle) < Distance(p, paper.middle) THEN 1 ELSE 0
    <3>1. Pairs(paper, q) <= Pairs(paper, p) + step
      BY <1>3, <1>5, PairsStep
    <3>2. walked' = walked + step
      BY <1>2, <1>5 DEF Approaches
    <3> HIDE DEF p
    <3>3. step \in Int /\ Pairs(paper, q) \in Int /\ Pairs(paper, p) \in Int
      <4>1. Pairs(paper, q) \in Nat
        BY <1>3, <1>5, PairsAre
      <4>2. Pairs(paper, p) \in Nat
        BY <1>3, <1>5, PairsAre
      <4> QED BY <4>1, <4>2
    <3> USE DEF p
    <3>4. Gained(paper) \in Int
      BY <1>5 DEF Gained, PaperRows
    <3> HIDE DEF step
    <3>5. SUFFICES ASSUME paper.direction = "NEUTRAL", ~paper.settled
                   PROVE  0 <= Gained(paper) /\ Gained(paper) + PairGain * Pairs(paper, q) <= PairGain * walked'
      BY DEF PairsBook
    <3>6. 0 <= Gained(paper) /\ Gained(paper) + PairGain * Pairs(paper, p) <= PairGain * walked
      BY <2>1, <3>5 DEF Ledger, PairsBook
    <3> QED BY <1>5, <3>1, <3>2, <3>3, <3>4, <3>6 DEF PairGain
  <2>4. Ledger(paper, bought, walked', q)
    BY <2>1, <2>3 DEF Ledger
  <2> QED BY <1>1, <1>4, <2>1, <2>2, <2>4 DEF Undivided
<1>9. Alone' => Alone
  BY <1>1 DEF Alone
<1> QED BY <1>7, <1>8, <1>9 DEF PaperInv

LEMMA BoundaryKeeps == ASSUME PaperInv, BoundaryPasses PROVE PaperInv'
<1>1. managing.pc = "idle" /\ UNCHANGED <<paperWorld, paper, bought, walked, managing, closer>>
      /\ ticker' = [ticker EXCEPT !.boundary = @ + 1]
  BY DEF BoundaryPasses
<1>2. ticker' \in [price : Prices, moves : Nat, boundary : Nat] /\ ticker'.price = ticker.price
  BY <1>1 DEF PaperInv, PaperShape
<1>3. PaperShape'
  BY <1>1, <1>2 DEF PaperInv, PaperShape
<1>4. PassKnows(managing, paper)'
  BY <1>1 DEF PassKnows
<1>5. Alone' => Undivided'
  <2>1. Alone' => Alone
    BY <1>1 DEF Alone
  <2>2. Alone => closer.pc = "idle" /\ Ledger(paper, bought, walked, ticker.price)
    BY PaperIs
  <2> QED BY <1>1, <1>2, <1>4, <2>1, <2>2 DEF Undivided
<1> QED BY <1>3, <1>5 DEF PaperInv

LEMMA PaperCrashKeeps == ASSUME PaperInv, PaperCrash PROVE PaperInv'
<1>1. UNCHANGED <<paperWorld, ticker, paper, bought, walked, closer>>
      /\ managing' = [pc |-> "idle", row |-> paper, price |-> 0]
  BY DEF PaperCrash
<1>2. EndOfPass /\ paper' \in PaperRows
  BY <1>1, PaperIs DEF EndOfPass
<1>3. managing' \in [pc : ManageSteps, row : PaperRows, price : Prices] /\ PassKnows(managing, paper)'
  BY <1>2, PassEnds
<1>4. UNCHANGED <<paperWorld, ticker, closer, paper, bought, walked>>
  BY <1>1
<1> QED BY <1>3, <1>4, PassMoves

LEMMA PaperStutters == ASSUME PaperInv, UNCHANGED paperVars PROVE PaperInv'
<1>1. PaperShape' /\ (Alone' <=> Alone)
  BY DEF PaperInv, PaperShape, paperVars, Alone
<1>2. Alone => Undivided'
  BY DEF PaperInv, Undivided, PassKnows, paperVars
<1> QED BY <1>1, <1>2 DEF PaperInv

LEMMA PaperInductive == PaperInv /\ [PaperNext]_paperVars => PaperInv'
<1> SUFFICES ASSUME PaperInv, [PaperNext]_paperVars PROVE PaperInv'
  OBVIOUS
<1>1. CASE PaperRead
  <2>1. /\ paper.status = "RUNNING" /\ UNCHANGED <<paperWorld, ticker, paper, bought, walked, closer>>
        /\ managing' = [pc |-> "fund", row |-> paper, price |-> ticker.price]
    BY <1>1 DEF PaperRead
  <2> QED BY <2>1, ReadKeeps
<1>2. CASE FleetStopReads
  <2>1. /\ paper.status = "RUNNING" /\ UNCHANGED <<paperWorld, ticker, paper, bought, walked, closer>>
        /\ managing' = [pc |-> "stop", row |-> paper, price |-> ticker.price]
    BY <1>2 DEF FleetStopReads
  <2> QED BY <2>1, ReadKeeps
<1>3. CASE PaperFund
  BY <1>3, FundKeeps
<1>4. CASE PaperDecide
  BY <1>4, DecideKeeps
<1>5. CASE PaperMark
  BY <1>5, MarkKeeps
<1>6. CASE PaperShift
  BY <1>6, ShiftKeeps
<1>7. CASE PaperClose
  BY <1>7, PaperCloseKeeps
<1>8. CASE PaperRedeploy
  BY <1>8, RedeployKeeps
<1>9. CASE PaperPour
  BY <1>9, PaperPourKeeps
<1>10. CASE RadarExits \/ RadarAutocloses \/ RadarReads \/ RadarRecenters \/ RadarPasses
  BY <1>10, ExitKeeps, AutocloseKeeps, RadarReadKeeps, RecenterKeeps, RadarPassKeeps
<1>11. CASE FleetStopSettles
  BY <1>11, FleetStopKeeps
<1>12. CASE OperatorReads \/ OperatorCloses
  BY <1>12, OperatorKeeps
<1>13. CASE PriceMoves
  BY <1>13, PriceKeeps
<1>14. CASE BoundaryPasses
  BY <1>14, BoundaryKeeps
<1>15. CASE PaperCrash
  BY <1>15, PaperCrashKeeps
<1>16. CASE UNCHANGED paperVars
  BY <1>16, PaperStutters
<1> QED BY <1>1, <1>2, <1>3, <1>4, <1>5, <1>6, <1>7, <1>8, <1>9, <1>10, <1>11, <1>12, <1>13, <1>14,
           <1>15, <1>16 DEF PaperNext

LEMMA BookFollows == PaperInv => BookIsKept
<1> SUFFICES ASSUME PaperInv PROVE BookIsKept
  OBVIOUS
<1>1. paper \in PaperRows
  BY PaperIs
<1>2. CASE ~Alone
  BY <1>2 DEF BookIsKept, BookExact, PairsAreWalked, FundedOnce
<1>3. CASE Alone
  <2>1. LongBook(paper, bought) /\ PairsBook(paper, walked, ticker.price) /\ FundBook(paper)
    BY <1>3, PaperIs DEF Ledger
  <2>2. BookExact
    BY <2>1 DEF BookExact, LongBook, Gained
  <2>3. PairsAreWalked
    <3>1. Pairs(paper, ticker.price) \in Nat /\ walked \in Int /\ Gained(paper) \in Int
      BY <1>1, PaperIs, PairsAre DEF Gained, PaperRows
    <3>2. SUFFICES ASSUME paper.direction = "NEUTRAL", ~paper.settled
                   PROVE  0 <= Gained(paper) /\ Gained(paper) <= PairGain * walked
      BY <1>3, <3>1 DEF PairsAreWalked, Gained
    <3>3. 0 <= Gained(paper) /\ Gained(paper) + PairGain * Pairs(paper, ticker.price) <= PairGain * walked
      BY <2>1, <3>2 DEF PairsBook
    <3> QED BY <3>1, <3>3 DEF PairGain
  <2>4. FundedOnce
    BY <2>1 DEF FundedOnce, FundBook
  <2> QED BY <2>2, <2>3, <2>4 DEF BookIsKept
<1> QED BY <1>2, <1>3

(* What an UPDATE of the row may do to one that has ended: nothing to its end. *)
SameEnd(row, after) == after.status = row.status /\ after.settled = row.settled

LEMMA LateCloseIsLost ==
    ASSUME NEW row, row.status # "RUNNING", NEW copy, NEW total, NEW p
    PROVE  CloseRunning(row, copy, total, p) = row
  BY DEF CloseRunning

LEMMA ChargeSparesTheEnd ==
    ASSUME NEW row \in PaperRows, NEW delta PROVE SameEnd(row, Charge(row, delta))
  BY DEF Charge, SameEnd, PaperRows

(* A pass that is late with an UPDATE by id leaves the end of the row alone. *)
LEMMA PassSparesTheEnd ==
    ASSUME PaperInv, paper.status # "RUNNING",
           PaperFund \/ PaperMark \/ PaperShift \/ PaperPour
    PROVE  SameEnd(paper, paper')
<1>1. paper \in PaperRows
  BY PaperIs
<1>2. CASE PaperFund
  <2>1. paper' = paper \/ \E delta : paper' = Charge(paper, delta)
    BY <1>2 DEF PaperFund
  <2> QED BY <1>1, <2>1, ChargeSparesTheEnd DEF SameEnd
<1>3. CASE PaperMark
  <2>1. \/ paper' = paper
        \/ \E a, b, c, d, e : paper' = [paper EXCEPT !.mark = a, !.floating = b, !.realized = c,
                                                   !.level = d, !.paid = e]
    BY <1>3 DEF PaperMark
  <2> QED BY <1>1, <2>1 DEF SameEnd, PaperRows
<1>4. CASE PaperShift
  <2> DEFINE copy == managing.row
             p == managing.price
             moved == [paper EXCEPT !.middle = p, !.level = ShiftedLevel(copy, p), !.mark = p,
                                    !.shifts = @ + 1]
  <2>1. \/ paper' = paper
        \/ paper' = [moved EXCEPT !.realized = copy.realized + Value(copy, p),
                                  !.floating = 0, !.cost = RebasedCost(copy, p)]
        \/ paper' = [moved EXCEPT !.realized = copy.realized, !.floating = Value(copy, p)]
    BY <1>4 DEF PaperShift
  <2>2. SameEnd(paper, moved)
    BY <1>1 DEF SameEnd, PaperRows
  <2>3. DOMAIN moved = DOMAIN paper /\ "status" \in DOMAIN paper /\ "settled" \in DOMAIN paper
    BY <1>1 DEF PaperRows
  <2> HIDE DEF copy, p, moved
  <2> QED BY <2>1, <2>2, <2>3 DEF SameEnd
<1>5. CASE PaperPour
  BY <1>5 DEF PaperPour, PourDue, SameEnd
<1> QED BY <1>2, <1>3, <1>4, <1>5

LEMMA EndedStaysEnded ==
    ASSUME PaperInv, [PaperNext]_paperVars, paper.status # "RUNNING", paper'.id = paper.id
    PROVE  SameEnd(paper, paper')
<1>1. CASE PaperFund \/ PaperMark \/ PaperShift \/ PaperPour
  BY <1>1, PassSparesTheEnd
<1>2. CASE PaperClose \/ RadarExits \/ RadarAutocloses \/ OperatorCloses
  <2>1. \E copy, total, p : paper' = CloseRunning(paper, copy, total, p)
    BY <1>2 DEF PaperClose, RadarExits, RadarAutocloses, OperatorCloses
  <2> QED BY <2>1, LateCloseIsLost DEF SameEnd
<1>3. CASE FleetStopSettles
  <2>1. paper' = paper \/ \E copy, total, p : paper' = CloseRunning(paper, copy, total, p)
    BY <1>3 DEF FleetStopSettles
  <2> QED BY <2>1, LateCloseIsLost DEF SameEnd
<1>4. CASE PaperRedeploy
  <2>1. paper' = paper \/ (paper.id = 1 /\ \E d, p : paper' = NewRow(2, d, p))
    BY <1>4 DEF PaperRedeploy
  <2>2. \A d, p : NewRow(2, d, p).id = 2
    BY DEF NewRow
  <2> QED BY <2>1, <2>2 DEF SameEnd
<1>5. CASE \/ PaperRead \/ PaperDecide \/ RadarReads \/ RadarPasses \/ FleetStopReads \/ OperatorReads
           \/ PriceMoves \/ BoundaryPasses \/ PaperCrash \/ UNCHANGED paperVars
  <2>1. paper' = paper
    BY <1>5 DEF PaperRead, PaperDecide, RadarReads, RadarPasses, FleetStopReads, OperatorReads,
                PriceMoves, BoundaryPasses, PaperCrash, paperVars
  <2> QED BY <2>1 DEF SameEnd
<1>6. CASE RadarRecenters
  BY <1>6 DEF RadarRecenters, Recentred, SameEnd
<1> QED BY <1>1, <1>2, <1>3, <1>4, <1>5, <1>6 DEF PaperNext

(* Whatever interleaves with the manage pass - the fleet's stop, the radar,  *)
(* an operator, a crash, a lost write -, an ended PAPER row is not ended     *)
(* again.  While the worker alone writes the row, the book of a LONG grid    *)
(* says exactly what its units, funding and fees came to, and each funding   *)
(* boundary once; a NEUTRAL grid has booked no pair that the price did not   *)
(* walk.  What a NEUTRAL grid's units are worth is no part of this: a shift  *)
(* under water forgets it.                                                   *)
THEOREM PaperHistoryIsKept == PaperSpec => PaperHistoryHolds
<1> USE PaperBookAssumption
<1> DEFINE Ended == paper.status # "RUNNING" /\ paper'.id = paper.id
                      => paper'.status = paper.status /\ paper'.settled = paper.settled
<1>1. PaperInit => PaperInv
  BY PaperStarts
<1>2. PaperInv /\ [PaperNext]_paperVars => PaperInv'
  BY PaperInductive
<1>3. PaperInv => BookIsKept
  BY BookFollows
<1>4. PaperInv /\ [PaperNext]_paperVars => [Ended]_paperVars
  BY EndedStaysEnded DEF SameEnd
<1>5. [][Ended]_paperVars => EndedOnce
  BY PTL DEF EndedOnce
<1> HIDE DEF Ended
<1>6. PaperSpec => []BookIsKept /\ [][Ended]_paperVars
  BY <1>1, <1>2, <1>3, <1>4, PTL DEF PaperSpec
<1> QED BY <1>5, <1>6, PTL DEF PaperHistoryHolds

--------------------------------------------------------------------------
(* What the code of the three components can write, for each of them and    *)
(* for the suite that plays one of them.                                    *)

LEMMA RiskTypes == RiskInv => TypeOK
  BY DEF RiskInv, SettingsAre, WorkIs, LocksAre, GridsAre, EntriesAre, TypeOK

\* The faults of a scan are counted down, and its rows are of the market.
ScanSpares == scanLeft \in 0 .. ScanBudget /\ SymbolsOf(rows) \subseteq DOMAIN tape

LEMMA FaultsAreSpent ==
    ASSUME ScanSpares, NEW kind, NEW comes \in FaultComes(kind), Spend(comes)
    PROVE  scanLeft' \in 0 .. ScanBudget
<1>1. scanLeft \in 0 .. ScanBudget /\ ScanBudget \in Nat
  BY MarketScanAssumption DEF ScanSpares
<1>2. comes = FALSE \/ (comes = TRUE /\ scanLeft > 0)
  BY DEF FaultComes
<1> QED BY <1>1, <1>2 DEF Spend

LEMMA ScanSparesKept ==
    ASSUME ScanInv, ScanSpares, [ScanNext]_scanVars PROVE ScanSpares'
<1>1. MarketScanAssumption
  BY MarketScanAssumption DEF MarketScanAssumption
<1>2. CASE BeginScan
  BY <1>2 DEF BeginScan, ScanSpares
<1>3. CASE FetchUniverse
  <2>1. PICK lost \in FaultComes("universe") : Spend(lost)
    BY <1>3 DEF FetchUniverse
  <2> QED BY <1>3, <2>1, FaultsAreSpent DEF FetchUniverse, ScanSpares
<1>4. CASE CancelScan
  BY <1>4, FaultsAreSpent DEF CancelScan, ScanSpares
<1>5. CASE Collect
  <2>1. PICK lost \in FaultComes("write"), kept \in Best(pool.results) :
             Spend(lost) /\ rows' \in {rows, kept}
    BY <1>5 DEF Collect
  <2>2. SymbolsOf(kept) \subseteq DOMAIN tape
    <3>1. kept \subseteq pool.results
      BY DEF Best
    <3>2. SymbolsOf(pool.results) \subseteq Active
      BY DEF ScanInv, PoolInv, PoolIs
    <3>3. Active \subseteq DOMAIN tape
      BY <1>1, ActiveIs DEF ScanInv, ScanIs
    <3> QED BY <3>1, <3>2, <3>3 DEF SymbolsOf
  <2>3. scanLeft' \in 0 .. ScanBudget
    BY <2>1, FaultsAreSpent
  <2> QED BY <1>5, <2>1, <2>2, <2>3 DEF Collect, ScanSpares
<1>6. CASE SkipReview
  <2>1. PICK unread \in FaultComes("unreadable") : Spend(unread)
    BY <1>6 DEF SkipReview
  <2> QED BY <1>6, <2>1, FaultsAreSpent DEF SkipReview, ScanSpares
<1>7. CASE HandOver
  <2>1. PICK unread \in FaultComes("unreadable") : Spend(unread)
    BY <1>7 DEF HandOver
  <2> QED BY <1>7, <2>1, FaultsAreSpent DEF HandOver, ScanSpares
<1>8. CASE ScanCrash
  BY <1>8, FaultsAreSpent DEF ScanCrash, ScanSpares
<1>9. ASSUME NEW h \in DOMAIN pool.hands, TakeJob(h) \/ Leave(h) \/ Judge(h) \/ Panic(h)
      PROVE  ScanSpares'
  <2>1. CASE TakeJob(h) \/ Leave(h)
    BY <2>1 DEF TakeJob, Leave, ScanSpares
  <2>2. CASE Judge(h)
    <3>1. PICK lost \in FaultComes("fetch") : Spend(lost)
      BY <2>2 DEF Judge
    <3> QED BY <2>2, <3>1, FaultsAreSpent DEF Judge, ScanSpares
  <2>3. CASE Panic(h)
    BY <2>3, FaultsAreSpent DEF Panic, ScanSpares
  <2> QED BY <1>9, <2>1, <2>2, <2>3
<1>10. ASSUME NEW r \in rows,
              Unanswered(r) \/ \E a \in {"approved", "rejected", "vetoed"} : Answered(r, a)
       PROVE  ScanSpares'
  <2>1. r \in ScanRows
    BY RowsAre
  <2>2. CASE Unanswered(r)
    <3> DEFINE new == [r EXCEPT !.accepted = FALSE]
    <3>1. new.symbol = r.symbol
      BY <2>1 DEF ScanRows
    <3>2. rows' = rows \/ rows' = (rows \ {r}) \cup {new}
      BY <2>2 DEF Unanswered, Replaced
    <3>3. TRUE \in FaultComes("silence") /\ Spend(TRUE) /\ tape' = tape
      BY <2>2 DEF Unanswered
    <3>4. scanLeft' \in 0 .. ScanBudget
      BY <3>3, FaultsAreSpent
    <3> HIDE DEF new
    <3> QED BY <3>1, <3>2, <3>3, <3>4 DEF ScanSpares, SymbolsOf
  <2>3. ASSUME NEW a \in {"approved", "rejected", "vetoed"}, Answered(r, a) PROVE ScanSpares'
    <3> DEFINE new == Stamped(r, a)
    <3>1. new.symbol = r.symbol
      BY <2>1, StampIs
    <3>2. PICK lost \in FaultComes("write") :
               Spend(lost) /\ (rows' = rows \/ rows' = (rows \ {r}) \cup {new})
      BY <2>3 DEF Answered, Replaced
    <3>3. scanLeft' \in 0 .. ScanBudget /\ tape' = tape
      BY <2>3, <3>2, FaultsAreSpent DEF Answered
    <3> HIDE DEF new
    <3> QED BY <3>1, <3>2, <3>3 DEF ScanSpares, SymbolsOf
  <2> QED BY <1>10, <2>2, <2>3
<1>11. CASE UNCHANGED scanVars
  BY <1>11 DEF scanVars, ScanSpares
<1> QED BY <1>2, <1>3, <1>4, <1>5, <1>6, <1>7, <1>8, <1>9, <1>10, <1>11 DEF ScanNext

LEMMA ScanTypes == ScanInv /\ ScanSpares => ScanTypeOK
<1> SUFFICES ASSUME ScanInv, ScanSpares PROVE ScanTypeOK
  OBVIOUS
<1>1. scan \in ScanSteps /\ (rows # {} => scan.status = "SUCCEEDED")
  BY DEF ScanInv, ScanIs, StatusIs
<1>2. ASSUME NEW r \in rows
      PROVE  r \in [symbol : DOMAIN tape, trend : Ways, accepted : BOOLEAN, score : 0 .. 2,
                    marked : BOOLEAN]
  <2>1. r \in ScanRows /\ r.symbol \in DOMAIN tape
    BY RowsAre DEF ScanSpares, SymbolsOf
  <2> QED BY <2>1 DEF ScanRows
<1> QED BY <1>1, <1>2 DEF ScanTypeOK, ScanSpares, ScanSteps

(* What is counted of a row besides its money: boundaries, shifts, tranches. *)
SameCounts(row, after) ==
    after.id = row.id /\ after.anchor = row.anchor /\ after.shifts = row.shifts
    /\ after.units = row.units /\ after.tranche = row.tranche
CountsFit(row, boundary) ==
    row.anchor <= boundary /\ row.shifts <= MaxShifts + 1 /\ row.units = row.tranche
(* A pass that has yet to decide or to shift knows how often its row was shifted. *)
KnowsShifts(pass, row) ==
    pass.row.id = row.id =>
        /\ pass.pc \in {"fund", "decide"} => pass.row.shifts = row.shifts
        /\ pass.pc = "shift" => row.shifts < MaxShifts
        /\ pass.pc = "recenter" => row.shifts <= MaxShifts
PaperSpares == CountsFit(paper, ticker.boundary) /\ KnowsShifts(managing, paper)

LEMMA SpareCounts ==
    ASSUME PaperSpares, SameCounts(paper, paper'), UNCHANGED <<ticker, managing>>
    PROVE  PaperSpares'
  BY DEF PaperSpares, SameCounts, CountsFit, KnowsShifts

\* The pass is elsewhere when its step has nothing to do with the shifts.
LEMMA SparePass ==
    ASSUME PaperSpares, SameCounts(paper, paper'), UNCHANGED ticker,
           managing'.pc \notin {"fund", "decide", "shift", "recenter"}
    PROVE  PaperSpares'
  BY DEF PaperSpares, SameCounts, CountsFit, KnowsShifts

LEMMA ClosedCounts ==
    ASSUME NEW row \in PaperRows, NEW copy, NEW total, NEW p
    PROVE  SameCounts(row, CloseRunning(row, copy, total, p))
<1>1. CASE row.id = copy.id /\ row.status = "RUNNING"
  <2>1. CloseRunning(row, copy, total, p) =
          [row EXCEPT !.status = "COMPLETED", !.settled = TRUE, !.realized = total,
                      !.floating = 0, !.mark = p]
    BY <1>1 DEF CloseRunning, Settled
  <2> QED BY <2>1 DEF SameCounts, PaperRows
<1>2. CASE ~(row.id = copy.id /\ row.status = "RUNNING")
  BY <1>2 DEF CloseRunning, SameCounts
<1> QED BY <1>1, <1>2

LEMMA FundSpares == ASSUME PaperInv, PaperSpares, PaperFund PROVE PaperSpares'
<1> DEFINE copy == managing.row
           delta == FundingDelta(copy, managing.price)
<1>1. copy \in PaperRows /\ paper \in PaperRows /\ ticker.boundary \in Nat
  BY PaperIs
<1>2. /\ managing.pc = "fund" /\ UNCHANGED ticker
      /\ \E a, b : managing' = [managing EXCEPT !.pc = "decide",
                                 !.row = [copy EXCEPT !.realized = a, !.paid = b]]
                   \/ managing' = [managing EXCEPT !.pc = "decide", !.row = [copy EXCEPT !.realized = a]]
      /\ paper' = paper \/ paper' = Charge(paper, delta)
  <2>1. managing.pc = "fund" /\ UNCHANGED ticker /\ (paper' = paper \/ paper' = Charge(paper, delta))
    BY DEF PaperFund
  <2>2. CASE delta = 0
    <3>1. \E a : managing' = [managing EXCEPT !.pc = "decide", !.row = [copy EXCEPT !.realized = a]]
      BY <2>2 DEF PaperFund
    <3> QED BY <2>1, <3>1
  <2>3. CASE delta # 0
    <3> DEFINE pairs == PairGain * Pairs(copy, managing.price)
               earned == [copy EXCEPT !.realized = @ + pairs]
    <3>1. managing' = [managing EXCEPT !.pc = "decide",
                         !.row = [earned EXCEPT !.realized = @ - delta, !.paid = @ + delta]]
      BY <2>3 DEF PaperFund
    <3> HIDE DEF delta, pairs
    <3>2. [earned EXCEPT !.realized = @ - delta, !.paid = @ + delta]
          = [copy EXCEPT !.realized = earned.realized - delta, !.paid = earned.paid + delta]
      BY <1>1 DEF PaperRows
    <3> QED BY <2>1, <3>1, <3>2
  <2> QED BY <2>1, <2>2, <2>3
<1>3. managing'.pc = "decide" /\ managing'.row.id = copy.id /\ managing'.row.shifts = copy.shifts
  <2>1. \A new : LET pass == [managing EXCEPT !.pc = "decide", !.row = new]
                 IN  pass.pc = "decide" /\ pass.row = new
    BY PaperIs
  <2>2. PICK a, b : \/ managing' = [managing EXCEPT !.pc = "decide",
                                    !.row = [copy EXCEPT !.realized = a, !.paid = b]]
                   \/ managing' = [managing EXCEPT !.pc = "decide", !.row = [copy EXCEPT !.realized = a]]
    BY <1>2
  <2>3. CASE managing' = [managing EXCEPT !.pc = "decide",
                           !.row = [copy EXCEPT !.realized = a, !.paid = b]]
    <3> DEFINE new == [copy EXCEPT !.realized = a, !.paid = b]
    <3>1. new.id = copy.id /\ new.shifts = copy.shifts
      BY <1>1 DEF PaperRows
    <3> HIDE DEF new, copy
    <3>2. managing'.pc = "decide" /\ managing'.row = new
      BY <2>1, <2>3 DEF new
    <3> QED BY <3>1, <3>2
  <2>4. CASE managing' = [managing EXCEPT !.pc = "decide", !.row = [copy EXCEPT !.realized = a]]
    <3> DEFINE new == [copy EXCEPT !.realized = a]
    <3>1. new.id = copy.id /\ new.shifts = copy.shifts
      BY <1>1 DEF PaperRows
    <3> HIDE DEF new, copy
    <3>2. managing'.pc = "decide" /\ managing'.row = new
      BY <2>1, <2>4 DEF new
    <3> QED BY <3>1, <3>2
  <2> QED BY <2>2, <2>3, <2>4
<1>4. /\ paper'.id = paper.id /\ paper'.shifts = paper.shifts
      /\ paper'.units = paper.units /\ paper'.tranche = paper.tranche
      /\ paper'.anchor \in {paper.anchor, ticker.boundary}
  <2>1. LET row == Charge(paper, delta)
        IN  row.id = paper.id /\ row.shifts = paper.shifts /\ row.units = paper.units
            /\ row.tranche = paper.tranche /\ row.anchor = ticker.boundary
    <3> HIDE DEF delta
    <3> QED BY <1>1 DEF Charge, PaperRows
  <2> QED BY <1>2, <2>1
<1>5. managing.row.id = paper.id => managing.row.shifts = paper.shifts
  BY <1>2 DEF PaperSpares, KnowsShifts
<1> HIDE DEF copy, delta
<1>6. CountsFit(paper', ticker'.boundary)
  BY <1>1, <1>2, <1>4 DEF PaperSpares, CountsFit
<1>7. KnowsShifts(managing', paper')
  BY <1>3, <1>4, <1>5 DEF KnowsShifts, copy
<1> QED BY <1>6, <1>7 DEF PaperSpares

LEMMA DecideSpares == ASSUME PaperInv, PaperSpares, PaperDecide PROVE PaperSpares'
<1>1. /\ managing.pc = "decide" /\ UNCHANGED <<ticker, paper>>
      /\ managing \in [pc : ManageSteps, row : PaperRows, price : Prices] /\ paper \in PaperRows
  BY PaperIs DEF PaperDecide
<1>2. SameCounts(paper, paper')
  BY <1>1 DEF SameCounts
<1>3. \A pc : LET pass == [managing EXCEPT !.pc = pc] IN pass.pc = pc /\ pass.row = managing.row
  BY <1>1
<1>4. CASE To("close") \/ To("mark") \/ To("radar")
  <2>1. managing'.pc \notin {"fund", "decide", "shift", "recenter"}
    <3>1. CASE To("close")
      BY <1>3, <3>1 DEF To
    <3>2. CASE To("mark")
      BY <1>3, <3>2 DEF To
    <3>3. CASE To("radar")
      BY <1>3, <3>3 DEF To
    <3> QED BY <1>4, <3>1, <3>2, <3>3
  <2> QED BY <1>1, <1>2, <2>1, SparePass
<1>5. CASE ShiftDue(managing.row, managing.price) /\ To("shift")
  <2>1. managing'.pc = "shift" /\ managing'.row = managing.row /\ managing.row.shifts < MaxShifts
    BY <1>3, <1>5 DEF To, ShiftDue
  <2> QED BY <1>1, <2>1 DEF PaperSpares, KnowsShifts
<1> QED BY <1>4, <1>5 DEF PaperDecide

LEMMA ShiftSpares == ASSUME PaperInv, PaperSpares, PaperShift PROVE PaperSpares'
<1> DEFINE copy == managing.row
           p == managing.price
           moved == [paper EXCEPT !.middle = p, !.level = ShiftedLevel(copy, p), !.mark = p,
                                  !.shifts = @ + 1]
<1>1. paper \in PaperRows /\ UNCHANGED ticker /\ managing.pc = "shift" /\ managing'.pc = "radar"
  <2>1. managing \in [pc : ManageSteps, row : PaperRows, price : Prices] /\ managing.pc = "shift"
        /\ managing' = [managing EXCEPT !.pc = "radar"] /\ UNCHANGED ticker /\ paper \in PaperRows
    BY PaperIs DEF PaperShift, To
  <2> QED BY <2>1
<1>2. \/ paper' = paper
      \/ /\ paper.id = copy.id
         /\ \/ paper' = [moved EXCEPT !.realized = copy.realized + Value(copy, p),
                                      !.floating = 0, !.cost = RebasedCost(copy, p)]
            \/ paper' = [moved EXCEPT !.realized = copy.realized, !.floating = Value(copy, p)]
  BY DEF PaperShift
<1>3. /\ moved.id = paper.id /\ moved.anchor = paper.anchor /\ moved.shifts = paper.shifts + 1
      /\ moved.units = paper.units /\ moved.tranche = paper.tranche
      /\ DOMAIN moved = DOMAIN paper
      /\ {"id", "anchor", "shifts", "units", "tranche"} \subseteq DOMAIN paper
  BY <1>1 DEF PaperRows
<1> HIDE DEF moved, p
<1>4. CASE paper' = paper
  <2>1. SameCounts(paper, paper')
    BY <1>4 DEF SameCounts
  <2> QED BY <1>1, <2>1, SparePass
<1>5. CASE paper.id = copy.id /\ SameCounts(moved, paper')
  <2>1. paper.shifts < MaxShifts /\ paper.shifts \in Nat /\ MaxShifts \in Nat
    BY <1>1, <1>5 DEF PaperSpares, KnowsShifts, PaperRows, PaperBookAssumption
  <2> QED BY <1>1, <1>3, <1>5, <2>1 DEF PaperSpares, CountsFit, KnowsShifts, SameCounts
<1>6. paper' = paper \/ (paper.id = copy.id /\ SameCounts(moved, paper'))
  BY <1>2, <1>3 DEF SameCounts
<1> QED BY <1>4, <1>5, <1>6

LEMMA RedeploySpares == ASSUME PaperInv, PaperSpares, PaperRedeploy PROVE PaperSpares'
<1>1. UNCHANGED ticker /\ managing'.pc = "idle" /\ ticker.boundary \in Nat
      /\ (paper' = paper \/ paper' = NewRow(2, paper.direction, managing.price))
  BY PaperIs DEF PaperRedeploy, EndOfPass
<1>2. CASE paper' = paper
  <2>1. SameCounts(paper, paper')
    BY <1>2 DEF SameCounts
  <2> QED BY <1>1, <2>1, SparePass
<1>3. CASE paper' = NewRow(2, paper.direction, managing.price)
  <2>1. paper'.anchor = ticker.boundary /\ paper'.shifts = 0 /\ paper'.units = 1 /\ paper'.tranche = 1
    BY <1>3 DEF NewRow
  <2>2. MaxShifts \in Nat
    BY DEF PaperBookAssumption
  <2> QED BY <1>1, <2>1, <2>2 DEF PaperSpares, CountsFit, KnowsShifts
<1> QED BY <1>1, <1>2, <1>3

LEMMA PourSpares == ASSUME PaperInv, PaperSpares, PaperPour PROVE PaperSpares'
<1>1. /\ paper \in PaperRows /\ UNCHANGED ticker
      /\ managing \in [pc : ManageSteps, row : PaperRows, price : Prices]
  BY PaperIs DEF PaperPour
<1>2. managing'.pc = "radar"
  BY <1>1 DEF PaperPour, To
<1>3. \/ paper' = paper
      \/ /\ paper.tranche = 1
         /\ paper' = [paper EXCEPT !.units = @ + 1, !.cost = @ + managing.price,
                                   !.realized = @ - 1, !.fees = @ + 1, !.tranche = 2]
  BY DEF PaperPour, PourDue
<1>4. CASE paper' = paper
  <2>1. SameCounts(paper, paper')
    BY <1>4 DEF SameCounts
  <2> QED BY <1>1, <1>2, <2>1, SparePass
<1>5. CASE paper.tranche = 1 /\ paper' = [paper EXCEPT !.units = @ + 1, !.cost = @ + managing.price,
                                             !.realized = @ - 1, !.fees = @ + 1, !.tranche = 2]
  <2>1. paper'.id = paper.id /\ paper'.anchor = paper.anchor /\ paper'.shifts = paper.shifts
        /\ paper'.units = paper.units + 1 /\ paper'.tranche = 2
    BY <1>1, <1>5 DEF PaperRows
  <2>2. paper.units = 1
    BY <1>5 DEF PaperSpares, CountsFit
  <2> QED BY <1>1, <1>2, <2>1, <2>2 DEF PaperSpares, CountsFit, KnowsShifts
<1> QED BY <1>3, <1>4, <1>5

LEMMA RecenterSpares == ASSUME PaperInv, PaperSpares, RadarRecenters PROVE PaperSpares'
<1> DEFINE copy == managing.row
           p == managing.price
           moved == [paper EXCEPT !.middle = p, !.level = p, !.shifts = @ + 1]
<1>1. paper \in PaperRows /\ UNCHANGED ticker /\ managing.pc = "recenter" /\ managing'.pc = "idle"
  BY PaperIs DEF RadarRecenters, EndOfPass
<1>2. \/ paper' = paper
      \/ /\ paper.id = copy.id
         /\ \/ paper' = [moved EXCEPT !.realized = copy.realized + Value(copy, p), !.floating = 0,
                                      !.mark = p, !.cost = RebasedCost(copy, p)]
            \/ paper' = moved
  BY DEF RadarRecenters, Recentred
<1>3. /\ moved.id = paper.id /\ moved.anchor = paper.anchor /\ moved.shifts = paper.shifts + 1
      /\ moved.units = paper.units /\ moved.tranche = paper.tranche
      /\ DOMAIN moved = DOMAIN paper
      /\ {"id", "anchor", "shifts", "units", "tranche"} \subseteq DOMAIN paper
  BY <1>1 DEF PaperRows
<1> HIDE DEF moved, p
<1>4. CASE paper' = paper
  <2>1. SameCounts(paper, paper')
    BY <1>4 DEF SameCounts
  <2> QED BY <1>1, <2>1, SparePass
<1>5. CASE paper.id = copy.id /\ SameCounts(moved, paper')
  <2>1. paper.shifts <= MaxShifts /\ paper.shifts \in Nat /\ MaxShifts \in Nat
    BY <1>1, <1>5 DEF PaperSpares, KnowsShifts, PaperRows, PaperBookAssumption
  <2> QED BY <1>1, <1>3, <1>5, <2>1 DEF PaperSpares, CountsFit, KnowsShifts, SameCounts
<1>6. paper' = paper \/ (paper.id = copy.id /\ SameCounts(moved, paper'))
  BY <1>2, <1>3 DEF SameCounts
<1> QED BY <1>4, <1>5, <1>6

LEMMA PaperSparesKept ==
    ASSUME PaperInv, PaperSpares, [PaperNext]_paperVars PROVE PaperSpares'
<1>1. paper \in PaperRows /\ managing \in [pc : ManageSteps, row : PaperRows, price : Prices]
  BY PaperIs
<1>2. CASE PaperRead \/ FleetStopReads
  <2>1. managing'.row = paper /\ managing'.pc \in {"fund", "stop"} /\ UNCHANGED <<ticker, paper>>
    BY <1>2 DEF PaperRead, FleetStopReads
  <2> QED BY <2>1 DEF PaperSpares, KnowsShifts
<1>3. CASE PaperMark
  <2>1. UNCHANGED ticker /\ managing'.pc = "pour"
    BY <1>1, <1>3 DEF PaperMark
  <2>2. \/ paper' = paper
        \/ \E a, b, c, d, e : paper' = [paper EXCEPT !.mark = a, !.floating = b, !.realized = c,
                                                   !.level = d, !.paid = e]
    BY <1>3 DEF PaperMark
  <2>3. SameCounts(paper, paper')
    BY <1>1, <2>2 DEF SameCounts, PaperRows
  <2> QED BY <2>1, <2>3, SparePass
<1>4. CASE PaperClose \/ RadarExits \/ RadarAutocloses \/ RadarPasses \/ FleetStopSettles
  <2>1. UNCHANGED ticker /\ managing'.pc \notin {"fund", "decide", "shift", "recenter"}
    BY <1>1, <1>4 DEF PaperClose, RadarExits, RadarAutocloses, RadarPasses, FleetStopSettles, EndOfPass, To
  <2>2. \/ paper' = paper \/ paper' = [paper EXCEPT !.status = "STOPPED"]
        \/ \E copy, total, p : paper' = CloseRunning(paper, copy, total, p)
    BY <1>4 DEF PaperClose, RadarExits, RadarAutocloses, RadarPasses, FleetStopSettles
  <2>3. SameCounts(paper, paper) /\ SameCounts(paper, [paper EXCEPT !.status = "STOPPED"])
    BY <1>1 DEF SameCounts, PaperRows
  <2>4. SameCounts(paper, paper')
    BY <1>1, <2>2, <2>3, ClosedCounts
  <2> QED BY <2>1, <2>4, SparePass
<1>5. CASE OperatorReads \/ OperatorCloses
  <2>1. UNCHANGED <<ticker, managing>>
    BY <1>5 DEF OperatorReads, OperatorCloses
  <2>2. paper' = paper \/ \E copy, total, p : paper' = CloseRunning(paper, copy, total, p)
    BY <1>5 DEF OperatorReads, OperatorCloses
  <2>3. SameCounts(paper, paper')
    BY <1>1, <2>2, ClosedCounts DEF SameCounts
  <2> QED BY <2>1, <2>3, SpareCounts
<1>6. CASE PriceMoves \/ BoundaryPasses
  <2>1. UNCHANGED <<paper, managing>> /\ ticker.boundary \in Nat
        /\ ticker'.boundary \in {ticker.boundary, ticker.boundary + 1}
    BY <1>6, PaperIs DEF PriceMoves, BoundaryPasses, PaperInv, PaperShape
  <2>2. paper.anchor \in Nat
    BY <1>1 DEF PaperRows
  <2> QED BY <2>1, <2>2 DEF PaperSpares, CountsFit, KnowsShifts
<1>7. CASE PaperCrash
  <2>1. UNCHANGED <<ticker, paper>> /\ managing'.pc = "idle"
    BY <1>7 DEF PaperCrash
  <2> QED BY <2>1 DEF PaperSpares, KnowsShifts
<1>8. CASE UNCHANGED paperVars
  BY <1>8 DEF paperVars, PaperSpares
<1>9. CASE RadarReads
  <2>1. managing'.row = paper /\ managing'.pc = "recenter" /\ UNCHANGED <<ticker, paper>>
        /\ paper.shifts <= MaxShifts
    BY <1>1, <1>9 DEF RadarReads
  <2> QED BY <2>1 DEF PaperSpares, KnowsShifts
<1>10. CASE RadarRecenters
  BY <1>10, RecenterSpares
<1> QED BY <1>2, <1>3, <1>4, <1>5, <1>6, <1>7, <1>8, <1>9, <1>10, FundSpares, DecideSpares, ShiftSpares,
           RedeploySpares, PourSpares DEF PaperNext

LEMMA PaperTypes == PaperInv /\ PaperSpares => PaperTypeOK
<1> SUFFICES ASSUME PaperInv, PaperSpares PROVE PaperTypeOK
  OBVIOUS
<1>1. paper \in PaperRows /\ ticker.boundary \in Nat /\ MaxShifts \in Nat
      /\ (paper.status = "RUNNING" => ~paper.settled)
  BY PaperIs DEF PaperBookAssumption
<1>2. /\ paper.status \in {"RUNNING", "COMPLETED", "STOPPED"} /\ paper.anchor \in Nat
      /\ paper.shifts \in Nat /\ paper.mark \in Prices /\ paper.level \in Prices
      /\ paper.tranche \in {1, 2}
  BY <1>1 DEF PaperRows
<1> QED BY <1>1, <1>2 DEF PaperTypeOK, PaperSpares, CountsFit, Prices

\* Whatever interleaves in the risk engine, the paper fleet's book and the
\* market scan, their rows, locks and counters keep to the values the code
\* writes: no more shifts than max_adjustments_per_bot, no boundary charged
\* ahead of time, units as many as tranches, rows of a scan only when it
\* SUCCEEDED.
THEOREM PlatformTypesHold == MCSpec => []PlatformTypeOK
<1> DEFINE Held == RiskInv /\ PaperInv /\ PaperSpares /\ ScanInv /\ ScanSpares
<1>1. MCInit => Held
  <2> SUFFICES ASSUME MCInit PROVE Held
    OBVIOUS
  <2>1. Init /\ PaperInit /\ ScanInit
    BY DEF MCInit
  <2>2. RiskInv /\ PaperInv /\ ScanInv
    BY <2>1, RiskAssumption, RiskStarts, PaperStarts, MarketScanAssumption, ScanStarts
  <2>3. PaperSpares
    <3>1. /\ managing.pc = "idle" /\ ticker.boundary = 0
          /\ \E direction : paper = NewRow(1, direction, ticker.price)
      BY <2>1 DEF PaperInit
    <3>2. paper.anchor = 0 /\ paper.shifts = 0 /\ paper.units = 1 /\ paper.tranche = 1
      BY <3>1 DEF NewRow
    <3>3. MaxShifts \in Nat
      BY DEF PaperBookAssumption
    <3> QED BY <3>1, <3>2, <3>3 DEF PaperSpares, CountsFit, KnowsShifts
  <2>4. ScanSpares
    BY <2>1, MarketScanAssumption DEF ScanInit, ScanSpares, SymbolsOf
  <2> QED BY <2>2, <2>3, <2>4
<1>2. Held /\ [MCNext]_<<part, vars, paperVars, scanVars>> => Held'
  <2> SUFFICES ASSUME Held, [MCNext]_<<part, vars, paperVars, scanVars>> PROVE Held'
    OBVIOUS
  <2>1. [Next]_vars /\ [PaperNext]_paperVars /\ [ScanNext]_scanVars
    BY DEF MCNext, Entries, Settings
  <2>2. RiskInv' /\ PaperInv' /\ ScanInv'
    BY <2>1, RiskAssumption, RiskSteps, PaperInductive, MarketScanAssumption, ScanKeeps
  <2> QED BY <2>1, <2>2, PaperSparesKept, ScanSparesKept
<1>3. Held => PlatformTypeOK
  BY RiskTypes, PaperTypes, ScanTypes DEF PlatformTypeOK
<1> QED BY <1>1, <1>2, <1>3, PTL DEF MCSpec
==============================================================================
