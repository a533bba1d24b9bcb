-------------------------- MODULE CommandQueueProofs --------------------------
(***************************************************************************)
(* What holds of CommandQueue for every set of keys, kinds and handlers and *)
(* every value of the limits and bounds.                                    *)
(***************************************************************************)
EXTENDS CommandQueue, FiniteSetTheorems, TLAPS

USE QueueAssumption

-----------------------------------------------------------------------------
(* Type correctness.                                                       *)

\* What a confirmation makes of its row, and of the budget of guesses.
LEMMA ConfirmedStatusFacts ==
    ASSUME TypeOK, NEW k \in Keys, NEW right \in BOOLEAN
    PROVE  /\ ConfirmedStatus(k, right)
                  \in {"EXPIRED", "EXECUTING", "CONFIRMATION_REQUIRED"}
           /\ ConfirmedStatus(k, right) = "EXECUTING" => age[k] = 0 /\ right
           /\ ConfirmedStatus(k, right) = "CONFIRMATION_REQUIRED" =>
                  age[k] = 0 /\ ~right /\ guesses[k] + 1 < ConfirmAttempts
<1>1. age[k] \in 0..2 /\ guesses[k] \in Nat
  BY DEF TypeOK
<1>2. CASE right
  BY <1>1, <1>2 DEF ConfirmedStatus
<1>3. CASE ~right
  BY <1>1, <1>3 DEF ConfirmedStatus
<1> QED BY <1>2, <1>3

\* A step of an HTTP handler keeps the types.
LEMMA HandlerType ==
    ASSUME TypeOK, NEW h \in Handlers, HandlerStep(h)
    PROVE  TypeOK'
<1> USE DEF TypeOK, Statuses, FinalStatuses, workerVars
<1>1. ASSUME NEW k \in Keys, NEW c \in Kinds, PrepareCommand(h, k, c) PROVE TypeOK'
  <2>1. Cardinality({j \in Keys : status[j] # "ABSENT"}) \in Nat
    BY FS_Subset, FS_CardinalityType
  <2> QED BY <1>1, <2>1 DEF PrepareCommand, Insert, HandlerTakes, handlerVars
<1>2. ASSUME NEW k \in Keys, NEW right \in BOOLEAN, ConfirmCommand(h, k, right)
      PROVE  TypeOK'
  <2> DEFINE new == ConfirmedStatus(k, right)
  <2>1. new \in {"EXPIRED", "EXECUTING", "CONFIRMATION_REQUIRED"}
    BY ConfirmedStatusFacts
  <2>2. status' \in [Keys -> Statuses]
    <3> HIDE DEF new
    <3>1. status' = [status EXCEPT ![k] = new]
      BY <1>2 DEF ConfirmCommand, new
    <3> QED BY <2>1, <3>1
  <2>3. guesses' \in [Keys -> Nat]
    BY <1>2 DEF ConfirmCommand
  <2>4. CASE new = "EXECUTING"
    <3>1. confirmed' = [confirmed EXCEPT ![k] = TRUE] /\ HandlerTakes(h, k)
      BY <1>2, <2>4 DEF ConfirmCommand
    <3>2. confirmed' \in [Keys -> BOOLEAN]
      BY <3>1
    <3> QED BY <1>2, <2>2, <2>3, <3>1, <3>2 DEF ConfirmCommand, HandlerTakes
  <2>5. CASE new # "EXECUTING"
    <3>1. UNCHANGED <<confirmed, handlerVars>>
      BY <1>2, <2>5 DEF ConfirmCommand
    <3> QED BY <1>2, <2>2, <2>3, <3>1 DEF ConfirmCommand, handlerVars
  <2> QED BY <2>4, <2>5
<1>3. CASE ExecuteCommand(h)
  BY <1>3 DEF ExecuteCommand, Outcomes, rowVars
<1>4. CASE FinalizeCommand(h)
  BY <1>4 DEF FinalizeCommand, HandlerReturns
<1>5. CASE HandlerAborts(h)
  BY <1>5 DEF HandlerAborts, HandlerReturns, rowVars
<1> QED BY <1>1, <1>2, <1>3, <1>4, <1>5 DEF HandlerStep

\* So does a step of the worker, the dashboard, the clock or a restart.
LEMMA SystemType ==
    ASSUME TypeOK,
           \/ WorkerStep \/ WorkerPanics \/ Dashboard \/ Crash
           \/ \E k \in Keys : QueueScan(k) \/ Age(k) \/ LeaseLapses(k)
    PROVE  TypeOK'
<1> USE DEF TypeOK, Statuses, FinalStatuses, Leases, ExpireThose
<1>1. CASE SweepRestartGhosts
  BY <1>1 DEF SweepRestartGhosts, handlerVars
<1>2. ASSUME NEW k \in Keys, Claim(k) PROVE TypeOK'
  BY <1>2 DEF Claim, handlerVars
<1>3. CASE ClaimNothing \/ Dashboard
  BY <1>3 DEF ClaimNothing, Dashboard, handlerVars, workerVars
<1>4. CASE RunCommand
  <2>1. effects' \in [Keys -> Nat]
    <3>1. effects' = [effects EXCEPT ![wkey] = effects[wkey] + 1]
      BY <1>4 DEF RunCommand
    <3>2. CASE wkey \in Keys
      BY <3>1, <3>2
    <3>3. CASE wkey \notin Keys
      BY <3>1, <3>3
    <3> QED BY <3>2, <3>3
  <2>2. UNCHANGED <<status, kind, born, age, confirmed, guesses, attempts, lease,
                    handlerVars, wkey, swept, crashes>>
    BY <1>4 DEF RunCommand, rowVars
  <2>3. wpc' = "finish" /\ wout' \in {"SUCCEEDED", "FAILED"}
    BY <1>4 DEF RunCommand
  <2> QED BY <2>1, <2>2, <2>3 DEF handlerVars
<1>5. CASE FinishCommand
  BY <1>5 DEF FinishCommand, handlerVars
<1>6. CASE WorkerPanics
  BY <1>6 DEF WorkerPanics, rowVars, handlerVars
<1>7. CASE Crash
  <2>1. swept' \in BOOLEAN
    BY <1>7, Zenon DEF Crash
  <2>2. /\ lease' = [k \in Keys |-> IF lease[k] = "held" THEN "foreign" ELSE lease[k]]
        /\ hpc' = [h \in Handlers |-> "idle"] /\ hkey' = [h \in Handlers |-> NoKey]
        /\ wpc' = "idle" /\ wkey' = NoKey /\ crashes' = crashes + 1
        /\ UNCHANGED <<status, kind, born, age, confirmed, guesses, attempts, effects,
                       hout, wout>>
    BY <1>7 DEF Crash
  <2> QED BY <2>1, <2>2
<1>8. ASSUME NEW k \in Keys, QueueScan(k) PROVE TypeOK'
  <2>1. Cardinality({j \in Keys : status[j] # "ABSENT"}) \in Nat
    BY FS_Subset, FS_CardinalityType
  <2> QED BY <1>8, <2>1 DEF QueueScan, Insert, handlerVars, workerVars
<1>9. ASSUME NEW k \in Keys, Age(k) \/ LeaseLapses(k) PROVE TypeOK'
  BY <1>9 DEF Age, LeaseLapses, handlerVars, workerVars
<1> QED BY <1>1, <1>2, <1>3, <1>4, <1>5, <1>6, <1>7, <1>8, <1>9 DEF WorkerStep

\* Columns and program positions keep to their values.
THEOREM TypeCorrect == Spec => []TypeOK
<1>1. Init => TypeOK
  <2> SUFFICES ASSUME Init PROVE TypeOK
    OBVIOUS
  <2>1. (CHOOSE c \in Kinds : TRUE) \in Kinds
    OBVIOUS
  <2>2. kind \in [Keys -> Kinds]
    BY <2>1 DEF Init
  <2>3. swept \in BOOLEAN
    BY Zenon DEF Init
  <2>4. confirmed \in [Keys -> BOOLEAN]
    BY DEF Init
  <2> QED BY <2>2, <2>3, <2>4 DEF Init, TypeOK, Statuses, Leases
<1>2. TypeOK /\ [Next]_vars => TypeOK'
  <2> SUFFICES ASSUME TypeOK, [Next]_vars PROVE TypeOK'
    OBVIOUS
  <2>1. CASE UNCHANGED vars
    BY <2>1 DEF TypeOK, vars, rowVars, handlerVars, workerVars
  <2>2. CASE Next
    BY <2>2, HandlerType, SystemType DEF Next
  <2> QED BY <2>1, <2>2
<1> QED BY <1>1, <1>2, PTL DEF Spec

-----------------------------------------------------------------------------
(* Custody: at any time one party at most may still carry out a command.    *)

\* Custody holds before the first command.
LEMMA CustodyInit == Init /\ TypeOK => Custody
BY DEF Init, Custody, TypeOK, OneHandlerEach, HandlerCustody, WorkerCustody,
       WaitingIsUntouched, AtMostOnce, ReportIsTrue, ConfirmedFirst

\* A prepared command is new: nobody else holds it, nothing of it was done.
LEMMA PrepareCustody ==
    ASSUME Custody, TypeOK', NEW h \in Handlers, NEW k \in Keys, NEW c \in Kinds, PrepareCommand(h, k, c)
    PROVE  Custody'
<1> USE DEF Custody, TypeOK
<1>1. OneHandlerEach'
  BY DEF OneHandlerEach, HandlerCustody, HandlerHolds, PrepareCommand, Insert,
         HandlerTakes, handlerVars
<1>2. HandlerCustody'
  <2>1. ASSUME NEW g \in Handlers, hpc[g] # "idle" PROVE hkey[g] # k /\ g # h
    BY <2>1 DEF HandlerCustody, HandlerHolds, PrepareCommand, Insert
  <2>2. CASE UNCHANGED handlerVars
    BY <2>1, <2>2 DEF HandlerCustody, HandlerHolds, PrepareCommand, Insert, handlerVars
  <2>3. CASE Insert(k, c, "PREPARED") /\ HandlerTakes(h, k) /\ c \notin Dangerous
    <3>1. status[k] = "ABSENT" /\ effects[k] = 0 /\ attempts[k] = 0 /\ lease[k] = "none"
      BY <2>3 DEF WaitingIsUntouched, Insert
    <3> QED BY <2>1, <2>3, <3>1 DEF HandlerCustody, HandlerHolds, Insert, HandlerTakes
  <2> QED BY <2>2, <2>3 DEF PrepareCommand
<1>3. WorkerCustody'
  BY DEF WorkerCustody, PrepareCommand, Insert, workerVars
<1>4. WaitingIsUntouched'
  BY DEF WaitingIsUntouched, PrepareCommand, Insert
<1>5. AtMostOnce'
  BY DEF AtMostOnce, PrepareCommand, Insert
<1>6. ReportIsTrue'
  BY DEF ReportIsTrue, PrepareCommand, Insert
<1>7. ConfirmedFirst'
  BY DEF ConfirmedFirst, WaitingIsUntouched, PrepareCommand, Insert
<1> QED BY <1>1, <1>2, <1>3, <1>4, <1>5, <1>6, <1>7

\* The right code hands the command to one handler; any other leaves it unheld.
LEMMA ConfirmCustody ==
    ASSUME Custody, TypeOK', NEW h \in Handlers, NEW k \in Keys, NEW right \in BOOLEAN, ConfirmCommand(h, k, right)
    PROVE  Custody'
<1> USE DEF Custody, TypeOK
<1> DEFINE new == ConfirmedStatus(k, right)
<1>a. /\ new \in {"EXPIRED", "EXECUTING", "CONFIRMATION_REQUIRED"}
      /\ new = "EXECUTING" => age[k] = 0 /\ right
      /\ new = "CONFIRMATION_REQUIRED" =>
             age[k] = 0 /\ ~right /\ guesses[k] + 1 < ConfirmAttempts
  BY ConfirmedStatusFacts
<1>b. /\ hpc[h] = "idle" /\ status[k] = "CONFIRMATION_REQUIRED"
      /\ status' = [status EXCEPT ![k] = new]
      /\ guesses' = [guesses EXCEPT ![k] = IF age[k] = 0 /\ ~right THEN @ + 1 ELSE @]
      /\ UNCHANGED <<kind, age, attempts, lease, effects, workerVars>>
  BY DEF ConfirmCommand
<1>c. new = "EXECUTING" => /\ confirmed' = [confirmed EXCEPT ![k] = TRUE]
                           /\ HandlerTakes(h, k)
  BY DEF ConfirmCommand
<1>d. new # "EXECUTING" => UNCHANGED <<confirmed, handlerVars>>
  BY DEF ConfirmCommand
<1>e. /\ attempts[k] = 0 /\ lease[k] = "none" /\ effects[k] = 0
      /\ ~confirmed[k] /\ guesses[k] < ConfirmAttempts
  BY <1>b DEF WaitingIsUntouched
<1> HIDE DEF new
<1>1. OneHandlerEach'
  BY <1>b, <1>c, <1>d DEF OneHandlerEach, HandlerCustody, HandlerHolds, HandlerTakes,
                          handlerVars
<1>2. HandlerCustody'
  <2>1. ASSUME NEW g \in Handlers, hpc[g] # "idle" PROVE hkey[g] # k /\ g # h
    BY <1>b, <2>1 DEF HandlerCustody, HandlerHolds
  <2>2. CASE new = "EXECUTING"
    BY <1>b, <1>c, <1>e, <2>1, <2>2 DEF HandlerCustody, HandlerHolds, HandlerTakes
  <2>3. CASE new # "EXECUTING"
    BY <1>b, <1>d, <2>1, <2>3 DEF HandlerCustody, HandlerHolds, handlerVars
  <2> QED BY <2>2, <2>3
<1>3. WorkerCustody'
  <2>1. wpc # "idle" => wkey # k
    BY <1>b DEF WorkerCustody
  <2> QED BY <1>b, <1>c, <1>d, <2>1 DEF WorkerCustody, workerVars
<1>4. WaitingIsUntouched'
  <2> SUFFICES ASSUME NEW j \in Keys
               PROVE  /\ status'[j] \in {"ABSENT", "CONFIRMATION_REQUIRED", "QUEUED"} =>
                             /\ attempts'[j] = 0 /\ lease'[j] = "none"
                             /\ \/ status'[j] = "QUEUED" /\ kind'[j] \notin WorkerKinds
                                \/ effects'[j] = 0
                      /\ status'[j] = "QUEUED" /\ kind'[j] \in Dangerous => confirmed'[j]
                      /\ status'[j] \in {"ABSENT", "CONFIRMATION_REQUIRED"} => ~confirmed'[j]
                      /\ status'[j] = "ABSENT" => guesses'[j] = 0
                      /\ status'[j] = "CONFIRMATION_REQUIRED" \/ confirmed'[j] =>
                             guesses'[j] < ConfirmAttempts
    BY DEF WaitingIsUntouched
  <2>1. CASE j # k
    BY <1>b, <1>c, <1>d, <2>1 DEF WaitingIsUntouched
  <2>2. CASE j = k
    BY <1>a, <1>b, <1>c, <1>d, <1>e, <2>2
  <2> QED BY <2>1, <2>2
<1>5. AtMostOnce'
  BY <1>b DEF AtMostOnce
<1>6. ReportIsTrue'
  BY <1>a, <1>b DEF ReportIsTrue
<1>7. ConfirmedFirst'
  BY <1>b, <1>c, <1>d, <1>e DEF ConfirmedFirst
<1> QED BY <1>1, <1>2, <1>3, <1>4, <1>5, <1>6, <1>7

\* The handler that holds a command is the only one to carry it out.
LEMMA ExecuteCustody ==
    ASSUME Custody, TypeOK', NEW h \in Handlers, ExecuteCommand(h)
    PROVE  Custody'
<1> USE DEF Custody, TypeOK
<1>1. OneHandlerEach'
  BY DEF OneHandlerEach, ExecuteCommand
<1>2. HandlerCustody'
  <2>1. hpc[h] # "idle" /\ HandlerHolds(h) /\ effects[hkey[h]] = 0
    BY DEF ExecuteCommand, HandlerCustody, HandlerHolds
  <2>2. PICK out \in Outcomes(kind[hkey[h]]) :
          /\ hout' = [hout EXCEPT ![h] = out]
          /\ \/ /\ kind[hkey[h]] \notin WorkerKinds
                /\ effects' = [effects EXCEPT ![hkey[h]] = @ + 1]
             \/ /\ kind[hkey[h]] \in WorkerKinds \/ out = "FAILED"
                /\ UNCHANGED effects
    BY DEF ExecuteCommand
  <2>3. /\ hpc' = [hpc EXCEPT ![h] = "finalize"]
        /\ UNCHANGED <<status, kind, confirmed, attempts, lease, hkey>>
    BY DEF ExecuteCommand, rowVars
  <2>4. kind[hkey[h]] \in WorkerKinds => out # "SUCCEEDED"
    BY <2>2 DEF Outcomes, InlineKinds, WorkerKinds
  <2>5. ASSUME NEW g \in Handlers, g # h, hpc'[g] # "idle" PROVE HandlerHolds(g)'
    <3>1. hpc[g] # "idle" /\ HandlerHolds(g) /\ hkey[g] # hkey[h]
      BY <2>1, <2>3, <2>5 DEF HandlerCustody, OneHandlerEach
    <3> QED BY <2>1, <2>2, <2>3, <2>5, <3>1 DEF HandlerHolds
  <2>6. HandlerHolds(h)'
    BY <2>1, <2>2, <2>3, <2>4 DEF HandlerHolds
  <2> QED BY <2>5, <2>6 DEF HandlerCustody
<1>3. WorkerCustody'
  BY DEF WorkerCustody, HandlerCustody, HandlerHolds, ExecuteCommand, rowVars, workerVars
<1>4. WaitingIsUntouched'
  BY DEF WaitingIsUntouched, HandlerCustody, HandlerHolds, ExecuteCommand, rowVars
<1>5. AtMostOnce'
  BY DEF AtMostOnce, HandlerCustody, HandlerHolds, ExecuteCommand, rowVars
<1>6. ReportIsTrue'
  BY DEF ReportIsTrue, HandlerCustody, HandlerHolds, ExecuteCommand, rowVars
<1>7. ConfirmedFirst'
  BY DEF ConfirmedFirst, HandlerCustody, HandlerHolds, WaitingIsUntouched, ExecuteCommand,
         rowVars
<1> QED BY <1>1, <1>2, <1>3, <1>4, <1>5, <1>6, <1>7

\* The unconditional final write is the holder's own: no answer is overwritten.
LEMMA FinalizeCustody ==
    ASSUME Custody, TypeOK', NEW h \in Handlers, FinalizeCommand(h)
    PROVE  Custody'
<1> USE DEF Custody, TypeOK
<1>1. OneHandlerEach'
  BY DEF OneHandlerEach, FinalizeCommand, HandlerReturns
<1>2. HandlerCustody'
  BY DEF HandlerCustody, HandlerHolds, OneHandlerEach, FinalizeCommand, HandlerReturns
<1>3. WorkerCustody'
  BY DEF WorkerCustody, HandlerCustody, HandlerHolds, FinalizeCommand, workerVars
<1>4. WaitingIsUntouched'
  BY DEF WaitingIsUntouched, HandlerCustody, HandlerHolds, FinalizeCommand
<1>5. AtMostOnce'
  BY DEF AtMostOnce, FinalizeCommand
<1>6. ReportIsTrue'
  <2>1. HandlerHolds(h) /\ hout[h] \in Outcomes(kind[hkey[h]])
    BY DEF FinalizeCommand, HandlerCustody, HandlerHolds
  <2>2. hout[h] = "DENIED" => effects[hkey[h]] = 0
    BY <2>1 DEF HandlerHolds, Outcomes, WorkerKinds
  <2>3. hout[h] = "SUCCEEDED" => effects[hkey[h]] = 1
    BY <2>1 DEF HandlerHolds, FinalizeCommand
  <2> QED BY <2>1, <2>2, <2>3 DEF ReportIsTrue, FinalizeCommand
<1>7. ConfirmedFirst'
  BY DEF ConfirmedFirst, FinalizeCommand
<1> QED BY <1>1, <1>2, <1>3, <1>4, <1>5, <1>6, <1>7

\* A handler that goes away lets its command go, in the status it has.
LEMMA AbortCustody ==
    ASSUME Custody, TypeOK', NEW h \in Handlers, HandlerAborts(h)
    PROVE  Custody'
<1> USE DEF Custody, TypeOK
<1>1. OneHandlerEach'
  BY DEF OneHandlerEach, HandlerAborts, HandlerReturns
<1>2. HandlerCustody'
  BY DEF HandlerCustody, HandlerHolds, HandlerAborts, HandlerReturns, rowVars
<1>3. WorkerCustody'
  BY DEF WorkerCustody, HandlerAborts, rowVars, workerVars
<1>4. WaitingIsUntouched'
  BY DEF WaitingIsUntouched, HandlerAborts, rowVars
<1>5. AtMostOnce'
  BY DEF AtMostOnce, HandlerAborts, rowVars
<1>6. ReportIsTrue'
  BY DEF ReportIsTrue, HandlerAborts, rowVars
<1>7. ConfirmedFirst'
  BY DEF ConfirmedFirst, HandlerAborts, rowVars
<1> QED BY <1>1, <1>2, <1>3, <1>4, <1>5, <1>6, <1>7

\* The dashboard expires what waits for a code, or what the worker has given up.
LEMMA DashboardCustody ==
    ASSUME Custody, TypeOK', Dashboard
    PROVE  Custody'
<1> USE DEF Custody, TypeOK
<1>1. OneHandlerEach'
  BY DEF OneHandlerEach, Dashboard, handlerVars
<1>2. HandlerCustody'
  BY DEF HandlerCustody, HandlerHolds, Dashboard, ExpireThose, handlerVars
<1>3. WorkerCustody'
  BY DEF WorkerCustody, Dashboard, DashboardStale, ExpireThose, workerVars
<1>4. WaitingIsUntouched'
  BY DEF WaitingIsUntouched, Dashboard, ExpireThose
<1>5. AtMostOnce'
  BY DEF AtMostOnce, Dashboard
<1>6. ReportIsTrue'
  BY DEF ReportIsTrue, Dashboard, ExpireThose
<1>7. ConfirmedFirst'
  BY DEF ConfirmedFirst, Dashboard
<1> QED BY <1>1, <1>2, <1>3, <1>4, <1>5, <1>6, <1>7

\* The ghost sweep may expire a command a handler holds, which stays its holder's.
LEMMA SweepCustody ==
    ASSUME Custody, TypeOK', SweepRestartGhosts
    PROVE  Custody'
<1> USE DEF Custody, TypeOK
<1>1. OneHandlerEach'
  BY DEF OneHandlerEach, SweepRestartGhosts, handlerVars
<1>2. HandlerCustody'
  BY DEF HandlerCustody, HandlerHolds, SweepRestartGhosts, ExpireThose, handlerVars
<1>3. WorkerCustody'
  BY DEF WorkerCustody, SweepRestartGhosts
<1>4. WaitingIsUntouched'
  BY DEF WaitingIsUntouched, SweepRestartGhosts, ExpireThose
<1>5. AtMostOnce'
  BY DEF AtMostOnce, SweepRestartGhosts
<1>6. ReportIsTrue'
  BY DEF ReportIsTrue, SweepRestartGhosts, ExpireThose
<1>7. ConfirmedFirst'
  BY DEF ConfirmedFirst, SweepRestartGhosts
<1> QED BY <1>1, <1>2, <1>3, <1>4, <1>5, <1>6, <1>7

\* A scan the worker queues is a new command.
LEMMA QueueScanCustody ==
    ASSUME Custody, TypeOK', NEW k \in Keys, QueueScan(k)
    PROVE  Custody'
<1> USE DEF Custody, TypeOK
<1>1. OneHandlerEach'
  BY DEF OneHandlerEach, QueueScan, handlerVars
<1>2. HandlerCustody'
  BY DEF HandlerCustody, HandlerHolds, QueueScan, Insert, handlerVars
<1>3. WorkerCustody'
  BY DEF WorkerCustody, QueueScan, workerVars
<1>4. WaitingIsUntouched'
  BY DEF WaitingIsUntouched, Dangerous, QueueScan, Insert
<1>5. AtMostOnce'
  BY DEF AtMostOnce, QueueScan, Insert
<1>6. ReportIsTrue'
  BY DEF ReportIsTrue, QueueScan, Insert
<1>7. ConfirmedFirst'
  BY DEF ConfirmedFirst, WaitingIsUntouched, QueueScan, Insert
<1> QED BY <1>1, <1>2, <1>3, <1>4, <1>5, <1>6, <1>7

\* A claim takes a waiting command, never one that a handler holds.
LEMMA ClaimCustody ==
    ASSUME Custody, TypeOK', NEW k \in Keys, Claim(k)
    PROVE  Custody'
<1> USE DEF Custody, TypeOK
<1>1. OneHandlerEach'
  BY DEF OneHandlerEach, Claim, handlerVars
<1>2. HandlerCustody'
  BY DEF HandlerCustody, HandlerHolds, Claim, Claimable, handlerVars
<1>3. WorkerCustody'
  BY DEF WorkerCustody, WaitingIsUntouched, Claim, Claimable
<1>4. WaitingIsUntouched'
  BY DEF WaitingIsUntouched, Claim
<1>5. AtMostOnce'
  BY DEF AtMostOnce, WaitingIsUntouched, Claim, Claimable
<1>6. ReportIsTrue'
  BY DEF ReportIsTrue, Claim
<1>7. ConfirmedFirst'
  BY DEF ConfirmedFirst, Claim
<1> QED BY <1>1, <1>2, <1>3, <1>4, <1>5, <1>6, <1>7

\* The expiry of stale commands spares the held ones.
LEMMA ClaimNothingCustody ==
    ASSUME Custody, TypeOK', ClaimNothing
    PROVE  Custody'
<1> USE DEF Custody, TypeOK
<1>1. OneHandlerEach'
  BY DEF OneHandlerEach, ClaimNothing, handlerVars
<1>2. HandlerCustody'
  BY DEF HandlerCustody, HandlerHolds, ClaimNothing, ExpireThose, handlerVars
<1>3. WorkerCustody'
  BY DEF WorkerCustody, ClaimNothing, workerVars
<1>4. WaitingIsUntouched'
  BY DEF WaitingIsUntouched, ClaimNothing, ExpireThose
<1>5. AtMostOnce'
  BY DEF AtMostOnce, ClaimNothing
<1>6. ReportIsTrue'
  BY DEF ReportIsTrue, ClaimNothing, ExpireThose
<1>7. ConfirmedFirst'
  BY DEF ConfirmedFirst, ClaimNothing
<1> QED BY <1>1, <1>2, <1>3, <1>4, <1>5, <1>6, <1>7

\* The worker carries out what it claimed, once.
LEMMA RunCustody ==
    ASSUME Custody, TypeOK', RunCommand
    PROVE  Custody'
<1> USE DEF Custody, TypeOK
<1>1. OneHandlerEach'
  BY DEF OneHandlerEach, RunCommand, handlerVars
<1>2. HandlerCustody'
  BY DEF HandlerCustody, HandlerHolds, WorkerCustody, RunCommand, rowVars, handlerVars
<1>3. WorkerCustody'
  BY DEF WorkerCustody, RunCommand, rowVars
<1>4. WaitingIsUntouched'
  BY DEF WaitingIsUntouched, WorkerCustody, RunCommand, rowVars
<1>5. AtMostOnce'
  BY DEF AtMostOnce, WorkerCustody, RunCommand, rowVars
<1>6. ReportIsTrue'
  BY DEF ReportIsTrue, WorkerCustody, RunCommand, rowVars
<1>7. ConfirmedFirst'
  BY DEF ConfirmedFirst, WorkerCustody, WaitingIsUntouched, RunCommand, rowVars
<1> QED BY <1>1, <1>2, <1>3, <1>4, <1>5, <1>6, <1>7

\* The worker's final write is about the command it ran.
LEMMA FinishCustody ==
    ASSUME Custody, TypeOK', FinishCommand
    PROVE  Custody'
<1> USE DEF Custody, TypeOK
<1>1. OneHandlerEach'
  BY DEF OneHandlerEach, FinishCommand, handlerVars
<1>2. HandlerCustody'
  BY DEF HandlerCustody, HandlerHolds, WorkerCustody, FinishCommand, handlerVars
<1>3. WorkerCustody'
  BY DEF WorkerCustody, FinishCommand
<1>4. WaitingIsUntouched'
  BY DEF WaitingIsUntouched, FinishCommand
<1>5. AtMostOnce'
  BY DEF AtMostOnce, FinishCommand
<1>6. ReportIsTrue'
  BY DEF ReportIsTrue, WorkerCustody, FinishCommand
<1>7. ConfirmedFirst'
  BY DEF ConfirmedFirst, FinishCommand
<1> QED BY <1>1, <1>2, <1>3, <1>4, <1>5, <1>6, <1>7

\* A panic lets the command go; its lease keeps it from the queue.
LEMMA PanicCustody ==
    ASSUME Custody, TypeOK', WorkerPanics
    PROVE  Custody'
<1> USE DEF Custody, TypeOK
<1>1. OneHandlerEach'
  BY DEF OneHandlerEach, WorkerPanics, handlerVars
<1>2. HandlerCustody'
  BY DEF HandlerCustody, HandlerHolds, WorkerPanics, rowVars, handlerVars
<1>3. WorkerCustody'
  BY DEF WorkerCustody, WorkerPanics
<1>4. WaitingIsUntouched'
  BY DEF WaitingIsUntouched, WorkerPanics, rowVars
<1>5. AtMostOnce'
  BY DEF AtMostOnce, WorkerPanics, rowVars
<1>6. ReportIsTrue'
  BY DEF ReportIsTrue, WorkerPanics, rowVars
<1>7. ConfirmedFirst'
  BY DEF ConfirmedFirst, WorkerPanics, rowVars
<1> QED BY <1>1, <1>2, <1>3, <1>4, <1>5, <1>6, <1>7

\* Waiting changes nothing but the age.
LEMMA AgeCustody ==
    ASSUME Custody, TypeOK', NEW k \in Keys, Age(k)
    PROVE  Custody'
<1> USE DEF Custody, TypeOK
<1>1. OneHandlerEach'
  BY DEF OneHandlerEach, Age, handlerVars
<1>2. HandlerCustody'
  BY DEF HandlerCustody, HandlerHolds, Age, handlerVars
<1>3. WorkerCustody'
  BY DEF WorkerCustody, Age, workerVars
<1>4. WaitingIsUntouched'
  BY DEF WaitingIsUntouched, Age
<1>5. AtMostOnce'
  BY DEF AtMostOnce, Age
<1>6. ReportIsTrue'
  BY DEF ReportIsTrue, Age
<1>7. ConfirmedFirst'
  BY DEF ConfirmedFirst, Age
<1> QED BY <1>1, <1>2, <1>3, <1>4, <1>5, <1>6, <1>7

\* The lease of the command that runs does not lapse.
LEMMA LapseCustody ==
    ASSUME Custody, TypeOK', NEW k \in Keys, LeaseLapses(k)
    PROVE  Custody'
<1> USE DEF Custody, TypeOK
<1>1. OneHandlerEach'
  BY DEF OneHandlerEach, LeaseLapses, handlerVars
<1>2. HandlerCustody'
  BY DEF HandlerCustody, HandlerHolds, LeaseLapses, handlerVars
<1>3. WorkerCustody'
  BY DEF WorkerCustody, LeaseLapses, workerVars
<1>4. WaitingIsUntouched'
  BY DEF WaitingIsUntouched, LeaseLapses
<1>5. AtMostOnce'
  BY DEF AtMostOnce, LeaseLapses
<1>6. ReportIsTrue'
  BY DEF ReportIsTrue, LeaseLapses
<1>7. ConfirmedFirst'
  BY DEF ConfirmedFirst, LeaseLapses
<1> QED BY <1>1, <1>2, <1>3, <1>4, <1>5, <1>6, <1>7

\* A restart frees every command and turns held leases into foreign ones.
LEMMA CrashCustody ==
    ASSUME Custody, TypeOK', Crash
    PROVE  Custody'
<1> USE DEF Custody, TypeOK
<1>1. OneHandlerEach'
  BY DEF OneHandlerEach, Crash
<1>2. HandlerCustody'
  BY DEF HandlerCustody, Crash
<1>3. WorkerCustody'
  BY DEF WorkerCustody, Crash
<1>4. WaitingIsUntouched'
  BY DEF WaitingIsUntouched, Crash
<1>5. AtMostOnce'
  BY DEF AtMostOnce, Crash
<1>6. ReportIsTrue'
  BY DEF ReportIsTrue, Crash
<1>7. ConfirmedFirst'
  BY DEF ConfirmedFirst, Crash
<1> QED BY <1>1, <1>2, <1>3, <1>4, <1>5, <1>6, <1>7

\* Every step keeps custody.
LEMMA CustodyStep ==
    ASSUME Custody, TypeOK', [Next]_vars
    PROVE  Custody'
<1>1. CASE UNCHANGED vars
  BY <1>1 DEF Custody, OneHandlerEach, HandlerCustody, HandlerHolds, WorkerCustody,
              WaitingIsUntouched, AtMostOnce, ReportIsTrue, ConfirmedFirst, vars, rowVars,
              handlerVars, workerVars
<1>2. ASSUME NEW h \in Handlers, HandlerStep(h) PROVE Custody'
  BY <1>2, PrepareCustody, ConfirmCustody, ExecuteCustody, FinalizeCustody, AbortCustody
     DEF HandlerStep
<1>3. CASE WorkerStep \/ WorkerPanics
  BY <1>3, SweepCustody, ClaimCustody, ClaimNothingCustody, RunCustody, FinishCustody,
     PanicCustody DEF WorkerStep
<1>4. CASE Dashboard \/ Crash
  BY <1>4, DashboardCustody, CrashCustody
<1>5. ASSUME NEW k \in Keys, QueueScan(k) \/ Age(k) \/ LeaseLapses(k) PROVE Custody'
  BY <1>5, QueueScanCustody, AgeCustody, LapseCustody
<1> QED BY <1>1, <1>2, <1>3, <1>4, <1>5 DEF Next

\* At any time one party at most may still carry out a command, and the rows say
\* what was done (the inductive invariant of the queue).
THEOREM CustodyHolds == Spec => []Custody
<1>1. Init /\ TypeOK => Custody
  BY CustodyInit
<1>2. Custody /\ TypeOK' /\ [Next]_vars => Custody'
  BY CustodyStep
<1> QED BY <1>1, <1>2, TypeCorrect, PTL DEF Spec

-----------------------------------------------------------------------------
(* What custody gives.                                                     *)

\* A command is carried out, and claimed, at most once per idempotency key.
THEOREM CarriedOutAtMostOnce == Spec => []AtMostOnce
<1>1. Custody => AtMostOnce
  BY DEF Custody
<1> QED BY <1>1, CustodyHolds, PTL

\* A command reported SUCCEEDED was carried out, one reported DENIED was not.
THEOREM ReportsAreTrue == Spec => []ReportIsTrue
<1>1. Custody => ReportIsTrue
  BY DEF Custody
<1> QED BY <1>1, CustodyHolds, PTL

\* A dangerous command is carried out only once it was confirmed, within the
\* budget of guesses.
THEOREM DangerousAreConfirmed == Spec => []ConfirmedFirst
<1>1. Custody => ConfirmedFirst
  BY DEF Custody
<1> QED BY <1>1, CustodyHolds, PTL

\* No step changes a final answer, given custody.
LEMMA AnswerStep ==
    ASSUME Custody, Next,
           NEW k \in Keys, status[k] \in {"SUCCEEDED", "FAILED", "DENIED"}
    PROVE  status'[k] = status[k]
<1>1. /\ status \in [Keys -> Statuses]
      /\ wpc # "idle" => wkey # k
      /\ \A h \in Handlers : hpc[h] # "idle" => hkey[h] # k /\ hkey[h] \in Keys
  BY DEF Custody, TypeOK, WorkerCustody, HandlerCustody, HandlerHolds
<1>2. ASSUME NEW h \in Handlers, HandlerStep(h) PROVE status'[k] = status[k]
  BY <1>1, <1>2 DEF HandlerStep, PrepareCommand, Insert, ConfirmCommand, ExecuteCommand,
                    FinalizeCommand, HandlerAborts, rowVars
<1>3. CASE WorkerStep \/ WorkerPanics
  BY <1>1, <1>3 DEF WorkerStep, WorkerPanics, SweepRestartGhosts, GhostStale, Claim,
                    Claimable, ClaimNothing, ClaimStale, ExpireThose, RunCommand,
                    FinishCommand, rowVars
<1>4. CASE Dashboard \/ Crash
  BY <1>4 DEF Dashboard, DashboardStale, ExpireThose, Crash
<1>5. ASSUME NEW j \in Keys, QueueScan(j) \/ Age(j) \/ LeaseLapses(j)
      PROVE  status'[k] = status[k]
  BY <1>1, <1>5 DEF QueueScan, Insert, Age, LeaseLapses
<1> QED BY <1>2, <1>3, <1>4, <1>5 DEF Next

\* No late writer, sweep or expiry replaces a final answer.
THEOREM AnswersAreFinal == Spec => AnswerIsFinal
<1>1. Custody /\ [Next]_vars =>
        [\A k \in Keys : status[k] \in {"SUCCEEDED", "FAILED", "DENIED"}
                         => status'[k] = status[k]]_vars
  BY AnswerStep
<1> QED BY <1>1, CustodyHolds, PTL DEF Spec, AnswerIsFinal

-----------------------------------------------------------------------------
(* CommandQueue implements CommandContract.                                 *)

\* The phase in the next state.
NextPhase(k) == PhaseOf(k)'

\* Commands given up together are one step of the contract.
GivesUp(k) ==
    \/ NextPhase(k) = PhaseOf(k)
    \/ PhaseOf(k) \in {"asking", "cleared"} /\ NextPhase(k) = "refused"

\* Commands that nobody holds any more are refused, all at once: a step of the
\* contract, or a stutter.
LEMMA GivingUp ==
    ASSUME UNCHANGED kind, \A k \in Keys : GivesUp(k)
    PROVE  Contract!ContractNext
<1> DEFINE given == {k \in Keys : NextPhase(k) # PhaseOf(k)}
<1>1. given \in SUBSET Keys /\ \A k \in given : PhaseOf(k) \in {"asking", "cleared"}
  BY DEF GivesUp
<1>2. [k \in Keys |-> NextPhase(k)] =
          [k \in Keys |-> IF k \in given THEN "refused" ELSE PhaseOf(k)]
  BY DEF GivesUp
<1>3. Contract!Refuse(given)
  BY <1>1, <1>2 DEF Contract!Refuse, NextPhase
<1> QED BY <1>1, <1>3 DEF Contract!ContractNext

\* A prepared command is accepted by the contract.
LEMMA PrepareContract ==
    ASSUME Custody, NEW k \in Keys, NEW c \in Kinds, 
           \/ \E h \in Handlers : PrepareCommand(h, k, c)
           \/ c = "autogrid.scan" /\ QueueScan(k)
    PROVE  Contract!ContractNext
<1>1. /\ status[k] = "ABSENT" /\ effects[k] = 0
      /\ kind' = [kind EXCEPT ![k] = c]
      /\ UNCHANGED effects
      /\ \/ c \in Dangerous /\ status' = [status EXCEPT ![k] = "CONFIRMATION_REQUIRED"]
         \/ c \notin Dangerous /\ status' = [status EXCEPT ![k] = "PREPARED"]
         \/ c \notin Dangerous /\ status' = [status EXCEPT ![k] = "QUEUED"]
  BY DEF PrepareCommand, QueueScan, Insert, Custody, WaitingIsUntouched, Dangerous
<1>2. \A j \in Keys \ {k} : Held(j)' <=> Held(j)
  BY DEF PrepareCommand, QueueScan, HandlerTakes, Held, HeldByHandler, HeldByWorker,
         handlerVars, workerVars, Custody, TypeOK
<1>3. status \in [Keys -> Statuses]
  BY DEF Custody, TypeOK
<1>4. PhaseOf(k) = "new"
  BY <1>1 DEF PhaseOf, FinalStatuses
<1>5. NextPhase(k) = IF c \in Dangerous THEN "asking" ELSE "cleared"
  BY <1>1, <1>3 DEF NextPhase, PhaseOf, FinalStatuses
<1>6. \A j \in Keys \ {k} : NextPhase(j) = PhaseOf(j)
  BY <1>1, <1>2, <1>3 DEF NextPhase, PhaseOf
<1>7. Contract!Accept(k, c)
  BY <1>1, <1>4, <1>5, <1>6 DEF Contract!Accept, NextPhase
<1> QED BY <1>7 DEF Contract!ContractNext

\* A confirmation clears the command, refuses it, or leaves it asking.
LEMMA ConfirmContract ==
    ASSUME Custody, NEW h \in Handlers, NEW k \in Keys, NEW right \in BOOLEAN,
           ConfirmCommand(h, k, right)
    PROVE  Contract!ContractNext
<1> DEFINE new == ConfirmedStatus(k, right)
<1>1. new \in {"EXPIRED", "EXECUTING", "CONFIRMATION_REQUIRED"}
  BY ConfirmedStatusFacts DEF Custody
<1>2. /\ hpc[h] = "idle" /\ status[k] = "CONFIRMATION_REQUIRED" /\ effects[k] = 0
      /\ status' = [status EXCEPT ![k] = new]
      /\ UNCHANGED <<kind, effects, workerVars>>
  BY DEF ConfirmCommand, Custody, WaitingIsUntouched
<1>3. new = "EXECUTING" => HandlerTakes(h, k)
  BY DEF ConfirmCommand
<1>4. new # "EXECUTING" => UNCHANGED handlerVars
  BY DEF ConfirmCommand
<1>5. status \in [Keys -> Statuses] /\ hpc \in [Handlers -> {"idle", "execute", "finalize"}]
      /\ hkey \in [Handlers -> Keys \cup {NoKey}] /\ ~Held(k)
  BY <1>2 DEF Custody, TypeOK, HandlerCustody, HandlerHolds, WorkerCustody, Held,
              HeldByHandler, HeldByWorker
<1> HIDE DEF new
<1>6. \A j \in Keys \ {k} : Held(j)' <=> Held(j)
  BY <1>1, <1>2, <1>3, <1>4, <1>5 DEF HandlerTakes, Held, HeldByHandler, HeldByWorker,
                                      handlerVars, workerVars
<1>7. \A j \in Keys \ {k} : NextPhase(j) = PhaseOf(j)
  BY <1>2, <1>5, <1>6 DEF NextPhase, PhaseOf
<1>8. PhaseOf(k) = "asking"
  BY <1>2 DEF PhaseOf, FinalStatuses
<1>9. CASE new = "EXECUTING"
  <2>1. NextPhase(k) = "cleared"
    BY <1>2, <1>5, <1>9 DEF NextPhase, PhaseOf, FinalStatuses
  <2>2. Contract!Clear(k)
    BY <1>2, <1>7, <1>8, <2>1 DEF Contract!Clear, NextPhase
  <2> QED BY <2>2 DEF Contract!ContractNext
<1>10. CASE new = "EXPIRED"
  <2>1. ~(Held(k)')
    BY <1>2, <1>4, <1>5, <1>10 DEF Held, HeldByHandler, HeldByWorker, handlerVars,
                                   workerVars
  <2>2. NextPhase(k) = "refused"
    BY <1>2, <1>5, <1>10, <2>1 DEF NextPhase, PhaseOf, FinalStatuses
  <2> QED BY <1>2, <1>7, <1>8, <2>2, GivingUp DEF GivesUp
<1>11. CASE new = "CONFIRMATION_REQUIRED"
  <2>1. NextPhase(k) = "asking"
    BY <1>2, <1>5, <1>11 DEF NextPhase, PhaseOf, FinalStatuses
  <2> QED BY <1>2, <1>7, <1>8, <2>1, GivingUp DEF GivesUp
<1> QED BY <1>1, <1>9, <1>10, <1>11

\* A step that carries a command out.
LEMMA PerformContract ==
    ASSUME Custody, NEW k \in Keys, effects[k] = 0,
           effects' = [effects EXCEPT ![k] = @ + 1],
           status[k] \in {"PREPARED", "EXECUTING", "EXPIRED"}, Held(k),
           UNCHANGED <<kind, status>>, \A j \in Keys : Held(j)' <=> Held(j)
    PROVE  Contract!ContractNext
<1>1. effects \in [Keys -> Nat]
  BY DEF Custody, TypeOK
<1>2. PhaseOf(k) = "cleared"
  BY DEF PhaseOf, FinalStatuses
<1>3. NextPhase(k) = "performed"
  BY <1>1 DEF NextPhase, PhaseOf
<1>4. \A j \in Keys \ {k} : NextPhase(j) = PhaseOf(j)
  BY <1>1 DEF NextPhase, PhaseOf
<1>5. Contract!Perform(k)
  BY <1>2, <1>3, <1>4 DEF Contract!Perform, NextPhase
<1> QED BY <1>5 DEF Contract!ContractNext

\* Every step of a handler is a step of the contract, or a stutter.
LEMMA HandlerContract ==
    ASSUME Custody, NEW h \in Handlers, HandlerStep(h)
    PROVE  Contract!ContractNext
<1> USE DEF Custody, TypeOK
<1>1. ASSUME NEW k \in Keys, NEW c \in Kinds, PrepareCommand(h, k, c)
      PROVE  Contract!ContractNext
  BY <1>1, PrepareContract
<1>2. ASSUME NEW k \in Keys, NEW right \in BOOLEAN, ConfirmCommand(h, k, right)
      PROVE  Contract!ContractNext
  BY <1>2, ConfirmContract
<1>3. ASSUME ExecuteCommand(h) PROVE Contract!ContractNext
  <2>1. /\ hkey[h] \in Keys /\ Held(hkey[h]) /\ effects[hkey[h]] = 0
        /\ status[hkey[h]] \in {"PREPARED", "EXECUTING", "EXPIRED"}
    BY <1>3 DEF ExecuteCommand, HandlerCustody, HandlerHolds, Held, HeldByHandler
  <2>2. UNCHANGED <<kind, status, hkey, wpc, wkey>>
    BY <1>3 DEF ExecuteCommand, rowVars, workerVars
  <2>3. \A k \in Keys : Held(k)' <=> Held(k)
    BY <1>3, <2>2 DEF ExecuteCommand, Held, HeldByHandler, HeldByWorker
  <2>4. CASE UNCHANGED effects
    <3>1. \A k \in Keys : NextPhase(k) = PhaseOf(k)
      BY <2>2, <2>3, <2>4 DEF NextPhase, PhaseOf
    <3> QED BY <2>2, <3>1, GivingUp DEF GivesUp
  <2>5. CASE effects' = [effects EXCEPT ![hkey[h]] = @ + 1]
    BY <2>1, <2>2, <2>3, <2>5, PerformContract
  <2> QED BY <1>3, <2>4, <2>5 DEF ExecuteCommand
<1>4. ASSUME FinalizeCommand(h) PROVE Contract!ContractNext
  <2>0. PICK key \in Keys : key = hkey[h]
    BY <1>4 DEF FinalizeCommand, HandlerCustody, HandlerHolds
  <2>1. /\ Held(key) /\ hout[h] \in {"QUEUED", "SUCCEEDED", "FAILED", "DENIED"}
        /\ status[key] \in {"PREPARED", "EXECUTING", "EXPIRED"}
    BY <1>4, <2>0 DEF FinalizeCommand, HandlerCustody, HandlerHolds, Held, HeldByHandler
  <2>2. /\ status' = [status EXCEPT ![key] = hout[h]]
        /\ UNCHANGED <<kind, effects, wpc, wkey>>
    BY <1>4, <2>0 DEF FinalizeCommand, workerVars
  <2>3. \A k \in Keys \ {key} : Held(k)' <=> Held(k)
    BY <1>4, <2>0, <2>2 DEF FinalizeCommand, HandlerReturns, Held, HeldByHandler,
                            HeldByWorker
  <2>4. \A k \in Keys \ {key} : NextPhase(k) = PhaseOf(k)
    BY <2>2, <2>3 DEF NextPhase, PhaseOf
  <2>5. CASE effects[key] > 0
    <3>1. NextPhase(key) = PhaseOf(key)
      BY <2>1, <2>2, <2>5 DEF NextPhase, PhaseOf
    <3> QED BY <2>1, <2>2, <2>4, <3>1, GivingUp DEF GivesUp
  <2>6. CASE effects[key] = 0
    <3>1. PhaseOf(key) = "cleared"
      BY <2>1, <2>6 DEF PhaseOf, FinalStatuses
    <3>2. NextPhase(key) \in {"cleared", "refused"}
      BY <2>1, <2>2, <2>6 DEF NextPhase, PhaseOf, FinalStatuses
    <3> QED BY <2>1, <2>2, <2>4, <3>1, <3>2, GivingUp DEF GivesUp
  <2> QED BY <2>1, <2>5, <2>6
<1>5. ASSUME HandlerAborts(h) PROVE Contract!ContractNext
  <2>0. PICK key \in Keys : key = hkey[h]
    BY <1>5 DEF HandlerAborts, HandlerCustody, HandlerHolds
  <2>1. /\ Held(key)
        /\ status[key] \in {"PREPARED", "EXECUTING", "EXPIRED"}
    BY <1>5, <2>0 DEF HandlerAborts, HandlerCustody, HandlerHolds, Held, HeldByHandler
  <2>2. UNCHANGED <<kind, status, effects, wpc, wkey>>
    BY <1>5 DEF HandlerAborts, rowVars, workerVars
  <2>3. \A k \in Keys \ {key} : Held(k)' <=> Held(k)
    BY <1>5, <2>0, <2>2 DEF HandlerAborts, HandlerReturns, Held, HeldByHandler,
                            HeldByWorker
  <2>4. \A k \in Keys \ {key} : NextPhase(k) = PhaseOf(k)
    BY <2>2, <2>3 DEF NextPhase, PhaseOf
  <2>5. CASE effects[key] > 0
    <3>1. NextPhase(key) = PhaseOf(key)
      BY <2>1, <2>2, <2>5 DEF NextPhase, PhaseOf
    <3> QED BY <2>1, <2>2, <2>4, <3>1, GivingUp DEF GivesUp
  <2>6. CASE effects[key] = 0
    <3>1. PhaseOf(key) = "cleared"
      BY <2>1, <2>6 DEF PhaseOf, FinalStatuses
    <3>2. NextPhase(key) \in {"cleared", "refused"}
      BY <2>1, <2>2, <2>6 DEF NextPhase, PhaseOf, FinalStatuses
    <3> QED BY <2>1, <2>2, <2>4, <3>1, <3>2, GivingUp DEF GivesUp
  <2> QED BY <2>1, <2>5, <2>6
<1> QED BY <1>1, <1>2, <1>3, <1>4, <1>5 DEF HandlerStep

\* An expiry of commands that nobody holds any more.
LEMMA ExpiryContract ==
    ASSUME Custody, NEW stale \in SUBSET Keys, UNCHANGED <<kind, effects>>,
           \A k \in stale : status'[k] = "EXPIRED" /\ ~(Held(k)')
                            /\ status[k] \in {"CONFIRMATION_REQUIRED", "QUEUED", "EXECUTING"},
           \A k \in Keys \ stale : NextPhase(k) = PhaseOf(k)
    PROVE  Contract!ContractNext
<1>1. effects \in [Keys -> Nat]
  BY DEF Custody, TypeOK
<1>2. ASSUME NEW k \in stale PROVE GivesUp(k)
  <2>1. CASE effects[k] > 0
    BY <2>1 DEF GivesUp, NextPhase, PhaseOf
  <2>2. CASE effects[k] = 0
    <3>1. PhaseOf(k) \in {"asking", "cleared"}
      BY <2>2 DEF PhaseOf, FinalStatuses
    <3>2. NextPhase(k) = "refused"
      BY <2>2 DEF NextPhase, PhaseOf, FinalStatuses
    <3> QED BY <3>1, <3>2 DEF GivesUp
  <2> QED BY <1>1, <2>1, <2>2
<1> QED BY <1>2, GivingUp DEF GivesUp

\* So is every step of the worker, the dashboard, the clock and a restart.
LEMMA SystemContract ==
    ASSUME Custody, Custody',
           \/ WorkerStep \/ WorkerPanics \/ Dashboard \/ Crash
           \/ \E k \in Keys : QueueScan(k) \/ Age(k) \/ LeaseLapses(k)
    PROVE  Contract!ContractNext
<1>1. /\ effects \in [Keys -> Nat] /\ status \in [Keys -> Statuses]
      /\ hpc \in [Handlers -> {"idle", "execute", "finalize"}]
      /\ \A h \in Handlers : hpc[h] # "idle" =>
            /\ status[hkey[h]] \in {"PREPARED", "EXECUTING", "EXPIRED"}
            /\ attempts[hkey[h]] = 0 /\ lease[hkey[h]] = "none"
      /\ wpc # "idle" =>
            /\ swept /\ wkey \in Keys /\ status[wkey] = "EXECUTING" /\ lease[wkey] = "held"
            /\ effects[wkey] = IF wpc = "run" THEN 0 ELSE 1
  BY DEF Custody, TypeOK, HandlerCustody, HandlerHolds, WorkerCustody
<1>2. CASE Dashboard
  <2> DEFINE stale == {k \in Keys : DashboardStale(k)}
  <2>1. /\ status' = [k \in Keys |-> IF k \in stale THEN "EXPIRED" ELSE status[k]]
        /\ UNCHANGED <<kind, effects, handlerVars, workerVars>>
    BY <1>2 DEF Dashboard, ExpireThose
  <2>2. \A k \in Keys : Held(k)' <=> Held(k)
    BY <2>1 DEF Held, HeldByHandler, HeldByWorker, handlerVars, workerVars
  <2>3. \A k \in stale : ~Held(k) /\ status[k] \in {"CONFIRMATION_REQUIRED", "EXECUTING"}
    BY <1>1 DEF DashboardStale, Held, HeldByHandler, HeldByWorker
  <2>4. \A k \in Keys \ stale : NextPhase(k) = PhaseOf(k)
    BY <2>1, <2>2 DEF NextPhase, PhaseOf
  <2> QED BY <2>1, <2>2, <2>3, <2>4, ExpiryContract
<1>3. CASE ClaimNothing
  <2> DEFINE stale == {k \in Keys : ClaimStale(k)}
  <2>1. /\ status' = [k \in Keys |-> IF k \in stale THEN "EXPIRED" ELSE status[k]]
        /\ UNCHANGED <<kind, effects, handlerVars, workerVars>> /\ wpc = "idle"
    BY <1>3 DEF ClaimNothing, ExpireThose
  <2>2. \A k \in Keys : Held(k)' <=> Held(k)
    BY <2>1 DEF Held, HeldByHandler, HeldByWorker, handlerVars, workerVars
  <2>3. \A k \in stale : ~Held(k) /\ status[k] \in {"QUEUED", "EXECUTING"}
    BY <1>1, <2>1 DEF ClaimStale, Held, HeldByHandler, HeldByWorker
  <2>4. \A k \in Keys \ stale : NextPhase(k) = PhaseOf(k)
    BY <2>1, <2>2 DEF NextPhase, PhaseOf
  <2> QED BY <2>1, <2>2, <2>3, <2>4, ExpiryContract
<1>4. ASSUME NEW k \in Keys, Claim(k) PROVE Contract!ContractNext
  <2> DEFINE stale == {j \in Keys : ClaimStale(j)}
  <2>1. /\ status' = [j \in Keys |-> IF j = k THEN "EXECUTING"
                                     ELSE IF j \in stale THEN "EXPIRED" ELSE status[j]]
        /\ UNCHANGED <<kind, effects, handlerVars>> /\ wpc = "idle"
        /\ wkey' = k /\ status[k] = "QUEUED" /\ k \notin stale
    BY <1>4 DEF Claim, Claimable
  <2>2. \A j \in Keys \ {k} : Held(j)' <=> Held(j)
    BY <2>1 DEF Held, HeldByHandler, HeldByWorker, handlerVars
  <2>3. \A j \in stale : ~Held(j) /\ status[j] \in {"QUEUED", "EXECUTING"}
    BY <1>1, <2>1 DEF ClaimStale, Held, HeldByHandler, HeldByWorker
  <2>4. \A j \in Keys \ (stale \cup {k}) : NextPhase(j) = PhaseOf(j)
    BY <2>1, <2>2 DEF NextPhase, PhaseOf
  <2>5. NextPhase(k) = PhaseOf(k)
    BY <1>1, <2>1 DEF NextPhase, PhaseOf, FinalStatuses
  <2>6. \A j \in Keys \ stale : NextPhase(j) = PhaseOf(j)
    BY <2>4, <2>5
  <2>7. \A j \in stale : status'[j] = "EXPIRED" /\ ~(Held(j)')
    BY <2>1, <2>2, <2>3
  <2> QED BY <2>1, <2>3, <2>6, <2>7, ExpiryContract
<1>5. CASE SweepRestartGhosts
  <2> DEFINE given == {k \in Keys : GhostStale(k)}
  <2>1. /\ status' = [k \in Keys |-> IF k \in given THEN "EXPIRED" ELSE status[k]]
        /\ UNCHANGED <<kind, effects, handlerVars, wpc, wkey>> /\ wpc = "idle"
    BY <1>1, <1>5 DEF SweepRestartGhosts, ExpireThose
  <2>2. \A k \in Keys : Held(k)' <=> Held(k)
    BY <2>1 DEF Held, HeldByHandler, HeldByWorker, handlerVars
  <2>3. ASSUME NEW k \in Keys PROVE GivesUp(k)
    <3>1. CASE effects[k] > 0 \/ k \notin given
      BY <2>1, <2>2, <3>1 DEF GivesUp, NextPhase, PhaseOf
    <3>2. CASE effects[k] = 0 /\ k \in given
      <4>1. PhaseOf(k) = "cleared"
        BY <3>2 DEF PhaseOf, GhostStale, FinalStatuses
      <4>2. NextPhase(k) \in {"cleared", "refused"}
        BY <2>1, <3>2 DEF NextPhase, PhaseOf, FinalStatuses
      <4> QED BY <4>1, <4>2 DEF GivesUp
    <3> QED BY <1>1, <3>1, <3>2
  <2> QED BY <2>1, <2>3, GivingUp
<1>6. CASE Crash
  <2>1. /\ UNCHANGED <<kind, status, effects>>
        /\ wpc' = "idle" /\ hpc' = [h \in Handlers |-> "idle"]
    BY <1>6 DEF Crash
  <2>2. \A k \in Keys : ~(Held(k)')
    BY <2>1 DEF Held, HeldByHandler, HeldByWorker
  <2>3. ASSUME NEW k \in Keys PROVE GivesUp(k)
    <3>1. CASE effects[k] > 0 \/ status[k] \notin FinalStatuses \/ ~Held(k)
      BY <1>1, <2>1, <2>2, <3>1 DEF GivesUp, NextPhase, PhaseOf
    <3>2. CASE effects[k] = 0 /\ status[k] \in FinalStatuses /\ Held(k)
      <4>1. PhaseOf(k) = "cleared"
        BY <3>2 DEF PhaseOf, FinalStatuses
      <4>2. NextPhase(k) = "refused"
        BY <2>1, <2>2, <3>2 DEF NextPhase, PhaseOf, FinalStatuses
      <4> QED BY <4>1, <4>2 DEF GivesUp
    <3> QED BY <1>1, <3>1, <3>2
  <2> QED BY <2>1, <2>3, GivingUp
<1>7. CASE RunCommand
  <2>1. PICK key \in Keys : key = wkey
    BY <1>1, <1>7 DEF RunCommand
  <2>2. /\ Held(key) /\ effects[key] = 0 /\ status[key] = "EXECUTING"
        /\ effects' = [effects EXCEPT ![key] = @ + 1]
        /\ UNCHANGED <<kind, status, hpc, hkey, wkey>> /\ wpc # "idle" /\ wpc' # "idle"
    BY <1>1, <1>7, <2>1 DEF RunCommand, Held, HeldByWorker, rowVars, handlerVars
  <2>3. \A k \in Keys : Held(k)' <=> Held(k)
    BY <2>2 DEF Held, HeldByHandler, HeldByWorker
  <2> QED BY <2>2, <2>3, PerformContract
<1>8. CASE FinishCommand
  <2>1. PICK key \in Keys : key = wkey
    BY <1>1, <1>8 DEF FinishCommand
  <2>2. /\ effects[key] = 1 /\ status' = [status EXCEPT ![key] = wout]
        /\ UNCHANGED <<kind, effects, hpc, hkey>> /\ wpc # "idle" /\ wpc' = "idle"
    BY <1>1, <1>8, <2>1 DEF FinishCommand, handlerVars
  <2>3. \A k \in Keys \ {key} : Held(k)' <=> Held(k)
    BY <2>1, <2>2 DEF Held, HeldByHandler, HeldByWorker
  <2>4. \A k \in Keys \ {key} : NextPhase(k) = PhaseOf(k)
    BY <2>2, <2>3 DEF NextPhase, PhaseOf
  <2>5. NextPhase(key) = PhaseOf(key)
    BY <2>2 DEF NextPhase, PhaseOf
  <2> QED BY <2>2, <2>4, <2>5, GivingUp DEF GivesUp
<1>9. CASE WorkerPanics
  <2>1. PICK key \in Keys : key = wkey
    BY <1>1, <1>9 DEF WorkerPanics
  <2>2. /\ status[key] = "EXECUTING" /\ wpc # "idle" /\ wpc' = "idle"
        /\ UNCHANGED <<kind, status, effects, hpc, hkey>>
    BY <1>1, <1>9, <2>1 DEF WorkerPanics, rowVars, handlerVars
  <2>3. \A k \in Keys \ {key} : Held(k)' <=> Held(k)
    BY <2>1, <2>2 DEF Held, HeldByHandler, HeldByWorker
  <2>4. \A k \in Keys \ {key} : NextPhase(k) = PhaseOf(k)
    BY <2>2, <2>3 DEF NextPhase, PhaseOf
  <2>5. NextPhase(key) = PhaseOf(key)
    BY <2>2 DEF NextPhase, PhaseOf, FinalStatuses
  <2> QED BY <2>2, <2>4, <2>5, GivingUp DEF GivesUp
<1>10. ASSUME NEW k \in Keys, Age(k) \/ LeaseLapses(k) PROVE Contract!ContractNext
  <2>1. UNCHANGED <<kind, status, effects, hpc, hkey, wpc, wkey>>
    BY <1>10 DEF Age, LeaseLapses, handlerVars, workerVars
  <2>2. \A j \in Keys : NextPhase(j) = PhaseOf(j)
    BY <2>1 DEF NextPhase, PhaseOf, Held, HeldByHandler, HeldByWorker
  <2> QED BY <2>1, <2>2, GivingUp DEF GivesUp
<1>11. ASSUME NEW k \in Keys, QueueScan(k) PROVE Contract!ContractNext
  <2>1. "autogrid.scan" \in Kinds
    BY <1>11 DEF QueueScan
  <2> QED BY <1>11, <2>1, PrepareContract
<1> QED BY <1>2, <1>3, <1>4, <1>5, <1>6, <1>7, <1>8, <1>9, <1>10, <1>11 DEF WorkerStep

\* Every behaviour of the queue is, seen through PhaseOf, one of the contract:
\* a command is asked for, cleared, performed once, or refused.
THEOREM QueueKeepsContract == Spec => KeepsContract
<1>1. Init /\ Custody => Contract!ContractInit
  <2> SUFFICES ASSUME Init, Custody PROVE Contract!ContractInit
    OBVIOUS
  <2>1. \A k \in Keys : PhaseOf(k) = "new"
    BY DEF Init, PhaseOf, FinalStatuses
  <2>2. kind \in [Keys -> Kinds]
    BY DEF Custody, TypeOK
  <2> QED BY <2>1, <2>2 DEF Contract!ContractInit
<1>2. Custody /\ Custody' /\ [Next]_vars => [Contract!ContractNext]_(Contract!contractVars)
  <2> SUFFICES ASSUME Custody, Custody', [Next]_vars
               PROVE  [Contract!ContractNext]_(Contract!contractVars)
    OBVIOUS
  <2>1. CASE UNCHANGED vars
    <3>1. UNCHANGED <<kind, status, effects, hpc, hkey, wpc, wkey>>
      BY <2>1 DEF vars, rowVars, handlerVars, workerVars
    <3>2. \A k \in Keys : NextPhase(k) = PhaseOf(k)
      BY <3>1 DEF NextPhase, PhaseOf, Held, HeldByHandler, HeldByWorker
    <3> QED BY <3>1, <3>2, GivingUp DEF GivesUp
  <2>2. CASE Next
    BY <2>2, HandlerContract, SystemContract DEF Next
  <2> QED BY <2>1, <2>2
<1> QED BY <1>1, <1>2, CustodyHolds, PTL DEF Spec, KeepsContract, Contract!ContractSpec

=============================================================================
