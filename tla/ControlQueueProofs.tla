------------------------- MODULE ControlQueueProofs -------------------------
(***************************************************************************)
(* Theorems about ControlQueue, for any set of tasks and hosts, any        *)
(* terminal limit and any bound on attempts and faults.                    *)
(***************************************************************************)
EXTENDS ControlQueue, TLAPS

(***************************************************************************)
(* What the steps need to be ledger steps: types, an outcome wherever a    *)
(* client reports one, and batches that hold only their host's tasks.      *)
(* That past runs and rights together never exceed what people asked for   *)
(* is then a fact about the ledger.                                        *)
(***************************************************************************)
HeldState ==
    \A c \in Client : phase[c] \in {"executed", "posting"} => held[c] \in Result

ClientState ==
    \A c \in Client :
        /\ \A t \in batch[c] : Target[t] = c
        /\ phase[c] \in {"idle", "awaiting"} => batch[c] = {}
        /\ c \in polls => phase[c] = "awaiting"

RunsAreGranted == \A t \in Task : ran[t] + Rights[t] <= granted[t]

IInv == TypeOK /\ HeldState /\ ClientState

(***************************************************************************)
(* What persist_tasks leaves in memory and in the journal.                 *)
(***************************************************************************)
LEMMA PersistRows ==
    ASSUME NEW rs \in [Task -> Row], NEW order \in SUBSET (Task \X Task),
           NEW w \in BOOLEAN, PersistTasks(rs, order, w)
    PROVE  /\ tasks' \in [Task -> Row]
           /\ ended' \in SUBSET (Task \X Task)
           /\ journal' = IF w THEN [tasks |-> tasks', ended |-> ended'] ELSE journal
           /\ \A t \in Task : tasks'[t] = rs[t] \/ tasks'[t] = NoRow
           /\ \A t \in Task : rs[t].status \in Active => tasks'[t] = rs[t]
<1>1. NoRow \in Row
  BY BoundAssumption DEF NoRow, Row
<1>2. Pruned(rs, order) \in [Task -> Row]
  BY <1>1 DEF Pruned
<1>3. \A t \in Task : rs[t].status \in Active => t \in Selected(rs, order)
  BY DEF Selected
<1> QED
  BY <1>2, <1>3 DEF PersistTasks, Pruned, AmongTerminal

LEMMA PersistType ==
    ASSUME TypeOK, NEW rs \in [Task -> Row], NEW order \in SUBSET (Task \X Task),
           NEW w \in BOOLEAN, PersistTasks(rs, order, w)
    PROVE  /\ tasks' \in [Task -> Row]
           /\ ended' \in SUBSET (Task \X Task)
           /\ journal' \in [tasks : [Task -> Row], ended : SUBSET (Task \X Task)]
<1>1. journal \in [tasks : [Task -> Row], ended : SUBSET (Task \X Task)]
  BY DEF TypeOK
<1>2. /\ tasks' \in [Task -> Row]
      /\ ended' \in SUBSET (Task \X Task)
      /\ journal' = IF w THEN [tasks |-> tasks', ended |-> ended'] ELSE journal
  BY PersistRows
<1>3. CASE w
  BY <1>2, <1>3
<1>4. CASE ~w
  BY <1>1, <1>2, <1>4
<1> QED
  BY <1>3, <1>4

LEMMA EndsNowType ==
    ASSUME NEW t \in Task, NEW order \in SUBSET (Task \X Task)
    PROVE  EndsNow(order, t) \in SUBSET (Task \X Task)
  BY DEF EndsNow

LEMMA SpendType ==
    ASSUME TypeOK, NEW n \in Nat, Spend(n)
    PROVE  faults' \in 0 .. MaxFaults
  BY BoundAssumption DEF TypeOK, Spend

LEMMA CostType == \A b \in BOOLEAN : Cost(b) \in Nat
  BY DEF Cost

LEMMA AfterClaimType ==
    ASSUME TypeOK, NEW c \in Client
    PROVE  AfterClaim(c) \in [Task -> Row]
<1>1. 1 \in 0 .. MaxAttempt
  BY BoundAssumption
<1> QED
  BY <1>1 DEF AfterClaim, TypeOK, Row, Active

LEMMA RecoveredType ==
    ASSUME NEW row \in Row
    PROVE  Recovered(row) \in Row
  BY DEF Recovered, Row, Active, Terminal

(***************************************************************************)
(* Type correctness, one step per action.                                  *)
(***************************************************************************)
LEMMA InitType == Init => TypeOK
<1> SUFFICES ASSUME Init PROVE TypeOK
  OBVIOUS
<1>1. NoRow \in Row
  BY BoundAssumption DEF NoRow, Row
<1> QED
  BY <1>1, BoundAssumption DEF Init, TypeOK

LEMMA SubmitType ==
    ASSUME TypeOK, NEW t \in Task, Submit(t)
    PROVE  TypeOK'
<1> DEFINE rs == [tasks EXCEPT ![t] = [status |-> "queued", attempt |-> 0]]
<1>1. PICK written \in BOOLEAN, heard \in BOOLEAN :
        /\ Spend(Cost(written))
        /\ PersistTasks(rs, ended, written)
        /\ acked' = IF heard THEN acked \cup {t} ELSE acked
  BY DEF Submit
<1>2. rs \in [Task -> Row]
  BY BoundAssumption DEF TypeOK, Row, Active
<1>e. ended \in SUBSET (Task \X Task)
  BY DEF TypeOK
<1>3. /\ tasks' \in [Task -> Row]
      /\ ended' \in SUBSET (Task \X Task)
      /\ journal' \in [tasks : [Task -> Row], ended : SUBSET (Task \X Task)]
  <2> HIDE DEF rs
  <2> QED
    BY <1>1, <1>2, <1>e, PersistType
<1>4. faults' \in 0 .. MaxFaults
  BY <1>1, SpendType, CostType
<1>5. acked' \in SUBSET Task /\ granted' \in [Task -> Nat]
  BY <1>1 DEF Submit, TypeOK
<1> QED
  BY <1>3, <1>4, <1>5 DEF Submit, TypeOK, clientVars, networkVars

LEMMA RetryType ==
    ASSUME TypeOK, NEW t \in Task, RetryTask(t)
    PROVE  TypeOK'
<1> DEFINE row == [status |-> "queued", attempt |-> tasks[t].attempt + 1]
           rs == [tasks EXCEPT ![t] = row]
<1>1. PICK written \in BOOLEAN :
        Spend(Cost(written)) /\ PersistTasks(rs, ended, written)
  BY DEF RetryTask
<1>2. row \in Row
  BY BoundAssumption DEF RetryTask, TypeOK, Row, Active
<1>3. rs \in [Task -> Row]
  BY <1>2 DEF TypeOK
<1>e. ended \in SUBSET (Task \X Task)
  BY DEF TypeOK
<1>4. /\ tasks' \in [Task -> Row]
      /\ ended' \in SUBSET (Task \X Task)
      /\ journal' \in [tasks : [Task -> Row], ended : SUBSET (Task \X Task)]
  <2> HIDE DEF rs
  <2> QED
    BY <1>1, <1>3, <1>e, PersistType
<1>5. faults' \in 0 .. MaxFaults
  BY <1>1, SpendType, CostType
<1>6. settled' \in SUBSET Task /\ granted' \in [Task -> Nat]
  BY DEF RetryTask, TypeOK
<1> QED
  BY <1>4, <1>5, <1>6 DEF RetryTask, TypeOK, clientVars, networkVars

LEMMA ClaimType ==
    ASSUME TypeOK, NEW c \in Client, NEW w \in BOOLEAN, ClaimTasksForHost(c, w)
    PROVE  /\ tasks' \in [Task -> Row]
           /\ ended' \in SUBSET (Task \X Task)
           /\ journal' \in [tasks : [Task -> Row], ended : SUBSET (Task \X Task)]
           /\ claimed' \in SUBSET Task
<1>1. claimed' \in SUBSET Task
  BY DEF ClaimTasksForHost, Claimable, TypeOK
<1>2. CASE Claimable(c) = {}
  BY <1>1, <1>2 DEF ClaimTasksForHost, TypeOK
<1>3. CASE Claimable(c) # {}
  <2>1. ended \in SUBSET (Task \X Task)
    BY DEF TypeOK
  <2>2. PersistTasks(AfterClaim(c), ended, w)
    BY <1>3 DEF ClaimTasksForHost
  <2>3. AfterClaim(c) \in [Task -> Row]
    BY AfterClaimType
  <2>4. /\ tasks' \in [Task -> Row]
        /\ ended' \in SUBSET (Task \X Task)
        /\ journal' \in [tasks : [Task -> Row], ended : SUBSET (Task \X Task)]
    BY <2>1, <2>2, <2>3, PersistType, Zenon
  <2> QED
    BY <1>1, <2>4
<1> QED
  BY <1>2, <1>3

LEMMA ServePollType ==
    ASSUME TypeOK, NEW c \in Client, ServePoll(c)
    PROVE  TypeOK'
<1>1. PICK written \in BOOLEAN, heard \in BOOLEAN :
        /\ Spend(Cost(heard))
        /\ ClaimTasksForHost(c, written)
        /\ phase' = [phase EXCEPT ![c] = IF heard THEN "batch" ELSE "idle"]
        /\ batch' = [batch EXCEPT ![c] = IF heard THEN Claimable(c) ELSE {}]
  BY DEF ServePoll
<1>2. faults' \in 0 .. MaxFaults
  BY <1>1, SpendType, CostType
<1>3. batch' \in [Client -> SUBSET Task]
  BY <1>1 DEF TypeOK, Claimable
<1>4. phase' \in [Client -> {"idle", "awaiting", "batch", "executed", "posting"}]
  BY <1>1 DEF TypeOK
<1>5. polls' \in SUBSET Client /\ stale' = stale
  BY DEF ServePoll, TypeOK
<1> QED
  BY <1>1, <1>2, <1>3, <1>4, <1>5, ClaimType DEF TypeOK, ClaimTasksForHost

LEMMA ServeStalePollType ==
    ASSUME TypeOK, NEW c \in Client, ServeStalePoll(c)
    PROVE  TypeOK'
<1>1. PICK written \in BOOLEAN :
        Spend(Cost(written)) /\ ClaimTasksForHost(c, written)
  BY DEF ServeStalePoll
<1>2. faults' \in 0 .. MaxFaults
  BY <1>1, SpendType, CostType
<1>3. stale' \in SUBSET Client /\ UNCHANGED <<polls, phase, batch>>
  BY DEF ServeStalePoll, TypeOK
<1> QED
  BY <1>1, <1>2, <1>3, ClaimType DEF TypeOK, ClaimTasksForHost

LEMMA AnsweredType ==
    ASSUME TypeOK, NEW c \in Client, NEW r \in Result, NEW heard \in BOOLEAN,
           Answered(c, r, heard)
    PROVE  /\ phase' \in [Client -> {"idle", "awaiting", "batch", "executed", "posting"}]
           /\ batch' \in [Client -> SUBSET Task]
           /\ held' \in [Client -> Result \cup {Nothing}]
<1>1. CASE Waits(c, r)
  BY <1>1 DEF Answered, TypeOK
<1>2. CASE ~Waits(c, r)
  BY <1>2 DEF Answered, TypeOK, clientVars
<1> QED
  BY <1>1, <1>2

LEMMA CompleteType ==
    ASSUME TypeOK, NEW c \in Client, NEW r \in Result, CompleteTask(c, r)
    PROVE  TypeOK'
<1> DEFINE rs == [tasks EXCEPT ![r.task].status = IF r.ok THEN "done" ELSE "failed"]
<1>1. PICK written \in BOOLEAN, heard \in BOOLEAN :
        /\ Spend(Cost(IF Waits(c, r) THEN heard ELSE written))
        /\ PersistTasks(rs, EndsNow(ended, r.task), written)
        /\ Answered(c, r, heard)
        /\ settled' = IF heard THEN settled \cup {r.task} ELSE settled
  BY DEF CompleteTask
<1>2. r.task \in Task /\ r.ok \in BOOLEAN
  BY DEF Result
<1>3. rs \in [Task -> Row]
  BY <1>2 DEF TypeOK, Row, Terminal
<1>4. EndsNow(ended, r.task) \in SUBSET (Task \X Task)
  BY <1>2, EndsNowType DEF TypeOK
<1>5. /\ tasks' \in [Task -> Row]
      /\ ended' \in SUBSET (Task \X Task)
      /\ journal' \in [tasks : [Task -> Row], ended : SUBSET (Task \X Task)]
  <2> HIDE DEF rs
  <2> QED
    BY <1>1, <1>3, <1>4, PersistType
<1>6. faults' \in 0 .. MaxFaults
  <2>1. (IF Waits(c, r) THEN heard ELSE written) \in BOOLEAN
    OBVIOUS
  <2> QED
    BY <1>1, <2>1, SpendType, CostType
<1>7. settled' \in SUBSET Task /\ results' \in SUBSET (Client \X Result)
  BY <1>1, <1>2 DEF TypeOK, CompleteTask
<1> QED
  BY <1>1, <1>5, <1>6, <1>7, AnsweredType DEF TypeOK, CompleteTask

LEMMA RejectType ==
    ASSUME TypeOK, NEW c \in Client, NEW r \in Result, RejectUnknownTask(c, r)
    PROVE  TypeOK'
<1>1. results' \in SUBSET (Client \X Result)
  BY DEF TypeOK, RejectUnknownTask
<1>2. Answered(c, r, FALSE)
  BY DEF RejectUnknownTask
<1> QED
  BY <1>1, <1>2, AnsweredType
     DEF TypeOK, RejectUnknownTask, serverVars, historyVars

LEMMA CrashType ==
    ASSUME TypeOK, Crash
    PROVE  TypeOK'
<1>1. faults' \in 0 .. MaxFaults
  BY SpendType DEF Crash
<1>2. NoRow \in Row
  BY BoundAssumption DEF NoRow, Row
<1> QED
  BY <1>1, <1>2 DEF TypeOK, Crash, clientVars, historyVars

LEMMA LoadType ==
    ASSUME TypeOK, LoadTasks
    PROVE  TypeOK'
<1> DEFINE lost == {t \in Task : journal.tasks[t].status = "delivered"}
           restored == [t \in Task |-> Recovered(journal.tasks[t])]
<1>1. journal.tasks \in [Task -> Row] /\ journal.ended \in SUBSET (Task \X Task)
  BY DEF TypeOK
<1>2. restored \in [Task -> Row]
  BY <1>1, RecoveredType
<1>3. PICK ties \in SUBSET (lost \X lost) :
        IF lost = {}
        THEN tasks' = restored /\ ended' = journal.ended /\ UNCHANGED journal
        ELSE PersistTasks(restored,
                journal.ended \cup ties \cup (lost \X (Task \ lost)), TRUE)
  BY DEF LoadTasks
<1>4. journal.ended \cup ties \cup (lost \X (Task \ lost)) \in SUBSET (Task \X Task)
  BY <1>1
<1>5. /\ tasks' \in [Task -> Row]
      /\ ended' \in SUBSET (Task \X Task)
      /\ journal' \in [tasks : [Task -> Row], ended : SUBSET (Task \X Task)]
  <2>1. CASE lost = {}
    BY <2>1, <1>1, <1>2, <1>3 DEF TypeOK
  <2>2. CASE lost # {}
    BY <2>2, <1>2, <1>3, <1>4, PersistType
  <2> QED
    BY <2>1, <2>2
<1> QED
  BY <1>5 DEF LoadTasks, TypeOK, clientVars, networkVars, historyVars

LEMMA ClientStepType ==
    ASSUME TypeOK, HeldState, NEW c \in Client, ClientStep(c)
    PROVE  TypeOK'
<1> USE DEF TypeOK, serverVars, networkVars, historyVars, Nothing
<1>1. ASSUME SendPoll(c) PROVE TypeOK'
  BY <1>1 DEF SendPoll
<1>2. ASSUME PostResult(c) PROVE TypeOK'
  <2>1. held[c] \in Result
    BY <1>2 DEF PostResult, HeldState
  <2> QED
    BY <1>2, <2>1 DEF PostResult
<1>3. ASSUME FinishBatch(c) PROVE TypeOK'
  BY <1>3 DEF FinishBatch
<1>4. ASSUME CallFails(c) PROVE TypeOK'
  BY <1>4 DEF CallFails
<1>5. ASSUME CallTimesOut(c) PROVE TypeOK'
  <2>1. faults' \in 0 .. MaxFaults
    BY <1>5, SpendType DEF CallTimesOut
  <2> QED
    BY <1>5, <2>1 DEF CallTimesOut
<1>6. ASSUME ClientRestart(c) PROVE TypeOK'
  <2>1. faults' \in 0 .. MaxFaults
    BY <1>6, SpendType DEF ClientRestart
  <2> QED
    BY <1>6, <2>1 DEF ClientRestart
<1>7. ASSUME NEW t \in Task, Execute(c, t) PROVE TypeOK'
  BY <1>7 DEF Execute, Result
<1> QED
  BY <1>1, <1>2, <1>3, <1>4, <1>5, <1>6, <1>7 DEF ClientStep

LEMMA NextType ==
    ASSUME TypeOK, HeldState, Next
    PROVE  TypeOK'
  BY SubmitType, RetryType, ServePollType, ServeStalePollType, CompleteType,
     RejectType, CrashType, LoadType, ClientStepType
     DEF Next, ServerStep

(***************************************************************************)
(* A client that has executed a task holds an outcome of it.               *)
(***************************************************************************)
LEMMA NextHeld ==
    ASSUME TypeOK, HeldState, Next
    PROVE  HeldState'
<1> USE DEF TypeOK, HeldState
<1>1. ASSUME UNCHANGED clientVars PROVE HeldState'
  BY <1>1 DEF clientVars
<1>2. ASSUME NEW t \in Task, Submit(t) \/ RetryTask(t) PROVE HeldState'
  BY <1>1, <1>2 DEF Submit, RetryTask
<1>3. ASSUME NEW c \in Client, ServePoll(c) PROVE HeldState'
  BY <1>3 DEF ServePoll, ClaimTasksForHost
<1>4. ASSUME NEW c \in Client, ServeStalePoll(c) PROVE HeldState'
  BY <1>4 DEF ServeStalePoll, ClaimTasksForHost
<1>5. ASSUME NEW c \in Client, NEW r \in Result,
             CompleteTask(c, r) \/ RejectUnknownTask(c, r)
      PROVE  HeldState'
  <2>1. PICK heard \in BOOLEAN : Answered(c, r, heard)
    BY <1>5 DEF CompleteTask, RejectUnknownTask
  <2>2. CASE Waits(c, r)
    BY <2>1, <2>2 DEF Answered
  <2>3. CASE ~Waits(c, r)
    BY <1>1, <2>1, <2>3 DEF Answered
  <2> QED
    BY <2>2, <2>3
<1>6. ASSUME Crash \/ LoadTasks PROVE HeldState'
  BY <1>1, <1>6 DEF Crash, LoadTasks
<1>7. ASSUME NEW c \in Client, ClientStep(c) PROVE HeldState'
  <2>1. ASSUME NEW t \in Task, Execute(c, t) PROVE HeldState'
    BY <2>1 DEF Execute, Result
  <2>2. CASE SendPoll(c)
    BY <2>2 DEF SendPoll
  <2>3. CASE PostResult(c)
    BY <2>3 DEF PostResult
  <2>4. CASE FinishBatch(c)
    BY <2>4 DEF FinishBatch
  <2>5. CASE CallFails(c) \/ CallTimesOut(c) \/ ClientRestart(c)
    BY <2>5 DEF CallFails, CallTimesOut, ClientRestart
  <2> QED
    BY <1>7, <2>1, <2>2, <2>3, <2>4, <2>5 DEF ClientStep
<1> QED
  BY <1>2, <1>3, <1>4, <1>5, <1>6, <1>7 DEF Next, ServerStep

LEMMA StutterType ==
    ASSUME TypeOK, HeldState, UNCHANGED vars
    PROVE  TypeOK' /\ HeldState'
  BY DEF TypeOK, HeldState, vars, serverVars, clientVars, networkVars, historyVars

\* Type correctness: every variable keeps its type (and a client that ran a
\* task holds its outcome) whatever crashes, is lost or arrives late.
THEOREM TypeCorrect == Spec => []TypeOK
<1>1. Init => TypeOK /\ HeldState
  BY InitType DEF Init, HeldState
<1>2. TypeOK /\ HeldState /\ [Next]_vars => TypeOK' /\ HeldState'
  BY NextType, NextHeld, StutterType
<1> QED
  BY <1>1, <1>2, PTL DEF Spec

(***************************************************************************)
(* The client side of the invariant: a batch holds only its host's tasks,  *)
(* and is empty while the client waits for a poll.                         *)
(***************************************************************************)
LEMMA NextClient ==
    ASSUME TypeOK, ClientState, Next
    PROVE  ClientState'
<1> USE DEF TypeOK, ClientState
<1>1. ASSUME NEW t \in Task, Submit(t) \/ RetryTask(t) PROVE ClientState'
  BY <1>1 DEF Submit, RetryTask, clientVars, networkVars
<1>2. ASSUME NEW c \in Client, ServePoll(c) PROVE ClientState'
  BY <1>2 DEF ServePoll, Claimable
<1>3. ASSUME NEW c \in Client, ServeStalePoll(c) PROVE ClientState'
  BY <1>3 DEF ServeStalePoll
<1>4. ASSUME NEW c \in Client, NEW r \in Result,
             CompleteTask(c, r) \/ RejectUnknownTask(c, r)
      PROVE  ClientState'
  <2>1. PICK heard \in BOOLEAN : Answered(c, r, heard) /\ polls' = polls
    BY <1>4 DEF CompleteTask, RejectUnknownTask
  <2>2. CASE Waits(c, r)
    BY <2>1, <2>2 DEF Answered, Waits
  <2>3. CASE ~Waits(c, r)
    BY <2>1, <2>3 DEF Answered, clientVars
  <2> QED
    BY <2>2, <2>3
<1>5. ASSUME Crash \/ LoadTasks PROVE ClientState'
  BY <1>5 DEF Crash, LoadTasks, clientVars, networkVars
<1>6. ASSUME NEW c \in Client, ClientStep(c) PROVE ClientState'
  <2>1. ASSUME NEW t \in Task, Execute(c, t) PROVE ClientState'
    BY <2>1 DEF Execute, networkVars
  <2>2. CASE SendPoll(c)
    BY <2>2 DEF SendPoll
  <2>3. CASE PostResult(c)
    BY <2>3 DEF PostResult
  <2>4. CASE FinishBatch(c)
    BY <2>4 DEF FinishBatch, networkVars
  <2>5. CASE CallFails(c)
    BY <2>5 DEF CallFails, networkVars
  <2>6. CASE CallTimesOut(c)
    BY <2>6 DEF CallTimesOut
  <2>7. CASE ClientRestart(c)
    BY <2>7 DEF ClientRestart, networkVars
  <2> QED
    BY <1>6, <2>1, <2>2, <2>3, <2>4, <2>5, <2>6, <2>7 DEF ClientStep
<1> QED
  BY <1>1, <1>2, <1>3, <1>4, <1>5, <1>6 DEF Next, ServerStep

(***************************************************************************)
(* A step that runs nothing, grants nothing, gives no client a task and    *)
(* queues no row only loses rights.                                        *)
(***************************************************************************)
LEMMA RightsType == Rights \in [Task -> Nat] /\ (Rights \in [Task -> Nat])'
  BY DEF Rights, Right

LEMMA RightsOnlyShrink ==
    ASSUME UNCHANGED <<ran, granted>>,
           \A t \in Task : t \in batch'[Target[t]] => t \in batch[Target[t]],
           \A t \in Task : Queued(t)' => Queued(t)
    PROVE  Ledger!Lose
<1>1. ASSUME NEW t \in Task PROVE Rights'[t] <= Rights[t]
  <2>1. Right(t \in batch'[Target[t]]) <= Right(t \in batch[Target[t]])
    BY DEF Right
  <2>2. Right(Queued(t)') <= Right(Queued(t))
    BY DEF Right
  <2>3. /\ Rights[t] = Right(t \in batch[Target[t]]) + Right(Queued(t))
        /\ Rights'[t] = Right(t \in batch'[Target[t]]) + Right(Queued(t)')
    BY DEF Rights
  <2>4. /\ Right(t \in batch'[Target[t]]) \in Nat
        /\ Right(t \in batch[Target[t]]) \in Nat
        /\ Right(Queued(t)') \in Nat
        /\ Right(Queued(t)) \in Nat
    BY DEF Right
  <2> QED
    BY <2>1, <2>2, <2>3, <2>4
<1> QED
  BY <1>1, RightsType DEF Ledger!Lose, Ledger!AtMost

\* Persisting rs queues, in memory or in the journal, only what rs queues or
\* the journal queued already.
LEMMA PersistQueued ==
    ASSUME NEW rs \in [Task -> Row], NEW order \in SUBSET (Task \X Task),
           NEW w \in BOOLEAN, PersistTasks(rs, order, w), NEW t \in Task
    PROVE  /\ tasks'[t].status = "queued" => rs[t].status = "queued"
           /\ Queued(t)' => \/ rs[t].status = "queued"
                            \/ ~w /\ journal.tasks[t].status = "queued"
<1>1. tasks'[t] = rs[t] \/ tasks'[t] = NoRow
  BY PersistRows
<1>2. journal' = IF w THEN [tasks |-> tasks', ended |-> ended'] ELSE journal
  BY PersistRows
<1>3. NoRow.status # "queued"
  BY DEF NoRow
<1>4. CASE w
  BY <1>1, <1>2, <1>3, <1>4 DEF Queued
<1>5. CASE ~w
  BY <1>1, <1>2, <1>3, <1>5 DEF Queued
<1> QED
  BY <1>4, <1>5

\* Submitting or retrying t grants one more attempt and queues only t.
LEMMA GrantOne ==
    ASSUME NEW t \in Task,
           granted' = [granted EXCEPT ![t] = @ + 1],
           UNCHANGED <<ran, batch>>,
           \A u \in Task \ {t} : Queued(u)' => Queued(u)
    PROVE  Ledger!Grant(t)
<1> DEFINE most == [Rights EXCEPT ![t] = @ + 1]
<1>1. ASSUME NEW u \in Task PROVE Rights'[u] <= most[u]
  <2>1. /\ Rights[u] = Right(u \in batch[Target[u]]) + Right(Queued(u))
        /\ Rights'[u] = Right(u \in batch[Target[u]]) + Right(Queued(u)')
    BY DEF Rights
  <2>2. /\ Right(u \in batch[Target[u]]) \in Nat
        /\ Right(Queued(u)') \in {0, 1}
        /\ Right(Queued(u)) \in {0, 1}
    BY DEF Right
  <2>3. CASE u = t
    <3>1. most[u] = Rights[u] + 1
      BY <2>3, RightsType
    <3> QED
      BY <2>1, <2>2, <3>1
  <2>4. CASE u # t
    <3>1. most[u] = Rights[u]
      BY <2>4, RightsType
    <3>2. Right(Queued(u)') <= Right(Queued(u))
      BY <2>4 DEF Right
    <3> QED
      BY <2>1, <2>2, <3>1, <3>2
  <2> QED
    BY <2>3, <2>4
<1> QED
  BY <1>1, RightsType DEF Ledger!Grant, Ledger!AtMost

LEMMA SubmitGrants ==
    ASSUME TypeOK, NEW t \in Task, Submit(t)
    PROVE  Ledger!Grant(t)
<1> DEFINE rs == [tasks EXCEPT ![t] = [status |-> "queued", attempt |-> 0]]
<1>1. PICK written \in BOOLEAN : PersistTasks(rs, ended, written)
  BY DEF Submit
<1>2. rs \in [Task -> Row]
  BY BoundAssumption DEF TypeOK, Row, Active
<1>3. \A u \in Task \ {t} : rs[u] = tasks[u]
  BY DEF TypeOK
<1>4. ended \in SUBSET (Task \X Task)
  BY DEF TypeOK
<1>5. \A u \in Task \ {t} : Queued(u)' => Queued(u)
  <2> HIDE DEF rs
  <2> TAKE u \in Task \ {t}
  <2>1. Queued(u)' => rs[u].status = "queued" \/ journal.tasks[u].status = "queued"
    BY <1>1, <1>2, <1>4, PersistQueued
  <2> QED
    BY <2>1, <1>3 DEF Queued
<1>6. granted' = [granted EXCEPT ![t] = @ + 1] /\ UNCHANGED <<ran, batch>>
  BY DEF Submit, clientVars, TypeOK
<1> QED
  BY <1>5, <1>6, GrantOne

LEMMA RetryGrants ==
    ASSUME TypeOK, NEW t \in Task, RetryTask(t)
    PROVE  Ledger!Grant(t)
<1> DEFINE row == [status |-> "queued", attempt |-> tasks[t].attempt + 1]
           rs == [tasks EXCEPT ![t] = row]
<1>1. PICK written \in BOOLEAN : PersistTasks(rs, ended, written)
  BY DEF RetryTask
<1>2. rs \in [Task -> Row]
  BY BoundAssumption DEF RetryTask, TypeOK, Row, Active
<1>3. \A u \in Task \ {t} : rs[u] = tasks[u]
  BY DEF TypeOK
<1>4. ended \in SUBSET (Task \X Task)
  BY DEF TypeOK
<1>5. \A u \in Task \ {t} : Queued(u)' => Queued(u)
  <2> HIDE DEF rs
  <2> TAKE u \in Task \ {t}
  <2>1. Queued(u)' => rs[u].status = "queued" \/ journal.tasks[u].status = "queued"
    BY <1>1, <1>2, <1>4, PersistQueued
  <2> QED
    BY <2>1, <1>3 DEF Queued
<1>6. granted' = [granted EXCEPT ![t] = @ + 1] /\ UNCHANGED <<ran, batch>>
  BY DEF RetryTask, clientVars
<1> QED
  BY <1>5, <1>6, GrantOne

\* A claim moves the rights of the rows it hands out from the table to the
\* poll reply: once the write succeeded they are queued nowhere.
LEMMA ClaimMovesRights ==
    ASSUME TypeOK, NEW c \in Client, NEW w \in BOOLEAN, ClaimTasksForHost(c, w),
           NEW t \in Task
    PROVE  /\ Queued(t)' => Queued(t)
           /\ w /\ t \in Claimable(c) => ~Queued(t)'
<1>1. CASE Claimable(c) = {}
  BY <1>1 DEF ClaimTasksForHost, Queued
<1>2. CASE Claimable(c) # {}
  <2>1. PersistTasks(AfterClaim(c), ended, w) /\ ended \in SUBSET (Task \X Task)
    BY <1>2 DEF ClaimTasksForHost, TypeOK
  <2>2. Queued(t)' => \/ AfterClaim(c)[t].status = "queued"
                      \/ ~w /\ journal.tasks[t].status = "queued"
    BY <2>1, AfterClaimType, PersistQueued
  <2>3. AfterClaim(c)[t].status = "queued" =>
            tasks[t].status = "queued" /\ t \notin Claimable(c)
    BY DEF AfterClaim
  <2> QED
    BY <2>2, <2>3 DEF Queued
<1> QED
  BY <1>1, <1>2

LEMMA ServePollMoves ==
    ASSUME TypeOK, ClientState, NEW c \in Client, ServePoll(c)
    PROVE  Ledger!Lose
<1>1. PICK written \in BOOLEAN, heard \in BOOLEAN :
        /\ heard => written
        /\ ClaimTasksForHost(c, written)
        /\ batch' = [batch EXCEPT ![c] = IF heard THEN Claimable(c) ELSE {}]
  BY DEF ServePoll
<1>2. batch[c] = {}
  BY DEF ServePoll, ClientState
<1>3. \A t \in Task : Queued(t)' => Queued(t)
  BY <1>1, ClaimMovesRights
<1>4. UNCHANGED <<ran, granted>>
  BY <1>1 DEF ClaimTasksForHost
<1>5. ASSUME NEW t \in Task PROVE Rights'[t] <= Rights[t]
  <2>1. /\ Rights[t] = Right(t \in batch[Target[t]]) + Right(Queued(t))
        /\ Rights'[t] = Right(t \in batch'[Target[t]]) + Right(Queued(t)')
    BY DEF Rights
  <2>2. Target[t] \in Client
    BY TargetAssumption
  <2>3. CASE heard /\ t \in Claimable(c)
    <3>1. Queued(t) /\ Target[t] = c
      BY <2>3 DEF Claimable, Queued
    <3>2. ~Queued(t)'
      BY <1>1, <2>3, ClaimMovesRights
    <3>3. Right(Queued(t)) = 1 /\ Right(Queued(t)') = 0
      BY <3>1, <3>2 DEF Right
    <3>4. Right(t \in batch[Target[t]]) = 0 /\ Right(t \in batch'[Target[t]]) \in {0, 1}
      BY <1>2, <3>1 DEF Right
    <3> QED
      BY <2>1, <3>3, <3>4
  <2>4. CASE ~(heard /\ t \in Claimable(c))
    <3>1. t \in batch'[Target[t]] => t \in batch[Target[t]]
      BY <1>1, <2>2, <2>4 DEF TypeOK
    <3>2. /\ Right(t \in batch'[Target[t]]) <= Right(t \in batch[Target[t]])
          /\ Right(Queued(t)') <= Right(Queued(t))
      BY <1>3, <3>1 DEF Right
    <3>3. /\ Right(t \in batch'[Target[t]]) \in Nat
          /\ Right(t \in batch[Target[t]]) \in Nat
          /\ Right(Queued(t)') \in Nat
          /\ Right(Queued(t)) \in Nat
      BY DEF Right
    <3> QED
      BY <2>1, <3>2, <3>3
  <2> QED
    BY <2>3, <2>4
<1> QED
  BY <1>4, <1>5, RightsType DEF Ledger!Lose, Ledger!AtMost

LEMMA CompleteLoses ==
    ASSUME TypeOK, NEW c \in Client, NEW r \in Result,
           CompleteTask(c, r) \/ RejectUnknownTask(c, r)
    PROVE  Ledger!Lose
<1>1. UNCHANGED <<ran, granted>>
  BY DEF CompleteTask, RejectUnknownTask, historyVars
<1>2. \A t \in Task : t \in batch'[Target[t]] => t \in batch[Target[t]]
  <2>1. PICK heard \in BOOLEAN : Answered(c, r, heard)
    BY DEF CompleteTask, RejectUnknownTask
  <2>2. \A t \in Task : Target[t] \in Client
    BY TargetAssumption
  <2> QED
    BY <2>1, <2>2 DEF Answered, TypeOK, clientVars
<1>3. \A t \in Task : Queued(t)' => Queued(t)
  <2>1. CASE RejectUnknownTask(c, r)
    BY <2>1 DEF RejectUnknownTask, serverVars, Queued
  <2>2. CASE CompleteTask(c, r)
    <3> DEFINE rs == [tasks EXCEPT ![r.task].status = IF r.ok THEN "done" ELSE "failed"]
    <3>1. PICK w \in BOOLEAN : PersistTasks(rs, EndsNow(ended, r.task), w)
      BY <2>2 DEF CompleteTask
    <3>2. r.task \in Task /\ rs \in [Task -> Row]
      BY DEF Result, TypeOK, Row, Terminal
    <3>3. EndsNow(ended, r.task) \in SUBSET (Task \X Task)
      BY <3>2, EndsNowType DEF TypeOK
    <3>4. \A t \in Task : rs[t].status = "queued" => tasks[t].status = "queued"
      BY <3>2 DEF TypeOK
    <3>5. TAKE t \in Task
    <3>6. Queued(t)' => rs[t].status = "queued" \/ journal.tasks[t].status = "queued"
      <4> HIDE DEF rs
      <4> QED
        BY <3>1, <3>2, <3>3, PersistQueued
    <3> QED
      BY <3>4, <3>6 DEF Queued
  <2> QED
    BY <2>1, <2>2
<1> QED
  BY <1>1, <1>2, <1>3, RightsOnlyShrink

LEMMA CrashLoadLoses ==
    ASSUME TypeOK, Crash \/ LoadTasks
    PROVE  Ledger!Lose
<1>1. UNCHANGED <<ran, granted, batch>>
  BY DEF Crash, LoadTasks, historyVars, clientVars
<1>2. \A t \in Task : Queued(t)' => Queued(t)
  <2>1. CASE Crash
    BY <2>1 DEF Crash, Queued, NoRow
  <2>2. CASE LoadTasks
    <3> DEFINE lost == {t \in Task : journal.tasks[t].status = "delivered"}
               restored == [t \in Task |-> Recovered(journal.tasks[t])]
    <3>1. PICK ties \in SUBSET (lost \X lost) :
            IF lost = {}
            THEN tasks' = restored /\ UNCHANGED journal
            ELSE PersistTasks(restored,
                    journal.ended \cup ties \cup (lost \X (Task \ lost)), TRUE)
      BY <2>2 DEF LoadTasks
    <3>2. journal.tasks \in [Task -> Row] /\ journal.ended \in SUBSET (Task \X Task)
      BY DEF TypeOK
    <3>3. restored \in [Task -> Row]
      BY <3>2, RecoveredType
    <3>4. \A t \in Task : restored[t].status = "queued" => journal.tasks[t].status = "queued"
      BY <3>2 DEF Recovered, Row
    <3>5. CASE lost = {}
      BY <3>1, <3>4, <3>5 DEF Queued
    <3>6. CASE lost # {}
      <4> DEFINE order == journal.ended \cup ties \cup (lost \X (Task \ lost))
      <4>1. order \in SUBSET (Task \X Task)
        BY <3>2
      <4>2. PersistTasks(restored, order, TRUE)
        BY <3>1, <3>6
      <4> HIDE DEF order, restored
      <4>3. \A t \in Task : Queued(t)' => restored[t].status = "queued"
        BY <3>3, <4>1, <4>2, PersistQueued
      <4> QED
        BY <3>4, <4>3 DEF Queued
    <3> QED
      BY <3>5, <3>6
  <2> QED
    BY <2>1, <2>2
<1> QED
  BY <1>1, <1>2, RightsOnlyShrink

LEMMA ExecuteRuns ==
    ASSUME TypeOK, ClientState, NEW c \in Client, NEW t \in Task, Execute(c, t)
    PROVE  Ledger!Run(t)
<1>1. t \in batch[c] /\ Target[t] = c
  BY DEF Execute, ClientState
<1>2. /\ batch' = [batch EXCEPT ![c] = @ \ {t}]
      /\ ran' = [ran EXCEPT ![t] = @ + 1]
      /\ UNCHANGED <<granted, tasks, journal>>
  BY DEF Execute, serverVars
<1>3. ASSUME NEW u \in Task
      PROVE  Rights'[u] = IF u = t THEN Rights[u] - 1 ELSE Rights[u]
  <2>1. /\ Rights[u] = Right(u \in batch[Target[u]]) + Right(Queued(u))
        /\ Rights'[u] = Right(u \in batch'[Target[u]]) + Right(Queued(u)')
    BY DEF Rights
  <2>2. Right(Queued(u)') = Right(Queued(u)) /\ Right(Queued(u)) \in Nat
    BY <1>2 DEF Queued, Right
  <2>3. CASE u = t
    <3>1. u \notin batch'[Target[u]] /\ u \in batch[Target[u]]
      BY <1>1, <1>2, <2>3 DEF TypeOK
    <3>2. Right(u \in batch'[Target[u]]) = 0 /\ Right(u \in batch[Target[u]]) = 1
      BY <3>1 DEF Right
    <3> QED
      BY <2>1, <2>2, <2>3, <3>2
  <2>4. CASE u # t
    <3>1. u \in batch'[Target[u]] <=> u \in batch[Target[u]]
      BY <1>2, <2>4, TargetAssumption DEF TypeOK
    <3>2. Right(u \in batch'[Target[u]]) = Right(u \in batch[Target[u]])
      BY <3>1 DEF Right
    <3> QED
      BY <2>1, <2>2, <2>4, <3>2
  <2> QED
    BY <2>3, <2>4
<1>4. Rights[t] > 0
  <2>1. Rights[t] = Right(t \in batch[Target[t]]) + Right(Queued(t))
    BY DEF Rights
  <2>2. Right(t \in batch[Target[t]]) = 1 /\ Right(Queued(t)) \in Nat
    BY <1>1 DEF Right
  <2> QED
    BY <2>1, <2>2
<1>5. Rights' = [Rights EXCEPT ![t] = @ - 1]
  BY <1>3, RightsType
<1> QED
  BY <1>2, <1>4, <1>5 DEF Ledger!Run

LEMMA ClientLoses ==
    ASSUME TypeOK, NEW c \in Client, ClientStep(c),
           ~(\E t \in Task : Execute(c, t))
    PROVE  Ledger!Lose
<1>1. UNCHANGED <<ran, granted, tasks, journal>>
  BY DEF ClientStep, SendPoll, PostResult, FinishBatch, CallFails, CallTimesOut,
         ClientRestart, serverVars, historyVars
<1>2. batch' = batch \/ batch' = [batch EXCEPT ![c] = {}]
  BY DEF ClientStep, SendPoll, PostResult, FinishBatch, CallFails, CallTimesOut,
         ClientRestart
<1>3. \A t \in Task : t \in batch'[Target[t]] => t \in batch[Target[t]]
  BY <1>2, TargetAssumption DEF TypeOK
<1>4. \A t \in Task : Queued(t)' => Queued(t)
  BY <1>1 DEF Queued
<1> QED
  BY <1>1, <1>3, <1>4, RightsOnlyShrink

(***************************************************************************)
(* Every step of the queue and its clients is a step of the ledger.        *)
(***************************************************************************)
LEMMA NextLedger ==
    ASSUME TypeOK, ClientState, Next
    PROVE  Ledger!Next
<1>1. ASSUME NEW t \in Task, Submit(t) \/ RetryTask(t) PROVE Ledger!Next
  BY <1>1, SubmitGrants, RetryGrants DEF Ledger!Next
<1>2. ASSUME NEW c \in Client, ServePoll(c) PROVE Ledger!Next
  BY <1>2, ServePollMoves DEF Ledger!Next
<1>3. ASSUME NEW c \in Client, ServeStalePoll(c) PROVE Ledger!Next
  <2>1. PICK w \in BOOLEAN : ClaimTasksForHost(c, w) /\ UNCHANGED batch
    BY <1>3 DEF ServeStalePoll
  <2>2. UNCHANGED <<ran, granted>>
    BY <2>1 DEF ClaimTasksForHost
  <2>3. \A t \in Task : Queued(t)' => Queued(t)
    BY <2>1, ClaimMovesRights
  <2>4. Ledger!Lose
    BY <2>1, <2>2, <2>3, RightsOnlyShrink
  <2> QED
    BY <2>4 DEF Ledger!Next
<1>4. ASSUME NEW c \in Client, NEW r \in Result,
             CompleteTask(c, r) \/ RejectUnknownTask(c, r)
      PROVE  Ledger!Next
  BY <1>4, CompleteLoses DEF Ledger!Next
<1>5. ASSUME Crash \/ LoadTasks PROVE Ledger!Next
  BY <1>5, CrashLoadLoses DEF Ledger!Next
<1>6. ASSUME NEW c \in Client, ClientStep(c) PROVE Ledger!Next
  <2>1. ASSUME NEW t \in Task, Execute(c, t) PROVE Ledger!Next
    BY <2>1, ExecuteRuns DEF Ledger!Next
  <2>2. CASE ~(\E t \in Task : Execute(c, t))
    <3>1. Ledger!Lose
      BY <1>6, <2>2, ClientLoses
    <3> QED
      BY <3>1 DEF Ledger!Next
  <2> QED
    BY <2>1, <2>2
<1> QED
  BY <1>1, <1>2, <1>3, <1>4, <1>5, <1>6 DEF Next, ServerStep

LEMMA InitAll == Init => IInv /\ Ledger!Init
<1> SUFFICES ASSUME Init PROVE IInv /\ Ledger!Init
  OBVIOUS
<1>1. \A t \in Task : Target[t] \in Client
  BY TargetAssumption
<1>2. ClientState /\ HeldState
  BY DEF Init, ClientState, HeldState
<1>3. \A t \in Task : ~Queued(t) /\ t \notin batch[Target[t]]
  BY <1>1 DEF Init, Queued, NoRow
<1>4. Rights = [t \in Task |-> 0]
  BY <1>3 DEF Rights, Right
<1> QED
  BY <1>2, <1>4, InitType DEF IInv, Init, Ledger!Init

LEMMA NextAll == IInv /\ [Next]_vars => IInv' /\ [Ledger!Next]_<<granted, Rights, ran>>
<1>1. ASSUME IInv, Next PROVE IInv' /\ Ledger!Next
  BY <1>1, NextType, NextHeld, NextClient, NextLedger DEF IInv
<1>2. ASSUME IInv, UNCHANGED vars PROVE IInv' /\ UNCHANGED <<granted, Rights, ran>>
  <2>1. ClientState' /\ UNCHANGED <<granted, Rights, ran>>
    BY <1>2 DEF IInv, ClientState, Rights, Queued, vars, serverVars,
                clientVars, networkVars, historyVars
  <2> QED
    BY <1>2, <2>1, StutterType DEF IInv
<1> QED
  BY <1>1, <1>2

\* The refinement: for any tasks, hosts, limits and faults every behaviour of
\* the queue is one of the ledger, so rights to run come from people only.
THEOREM LedgerImplemented == Spec => ImplementsLedger
<1>1. Init => IInv /\ Ledger!Init
  BY InitAll
<1>2. IInv /\ [Next]_vars => IInv' /\ [Ledger!Next]_<<granted, Rights, ran>>
  BY NextAll
<1> QED
  BY <1>1, <1>2, PTL DEF Spec, ImplementsLedger, Ledger!Spec

(***************************************************************************)
(* In the ledger runs and permits together are never more than the grants; *)
(* the queue inherits it.                                                  *)
(***************************************************************************)
LEMMA LedgerBudget ==
    ASSUME TypeOK, RunsAreGranted, Ledger!Next
    PROVE  RunsAreGranted'
<1> SUFFICES ASSUME NEW t \in Task
             PROVE  ran'[t] + Rights'[t] <= granted'[t]
  BY DEF RunsAreGranted
<1>1. /\ ran[t] + Rights[t] <= granted[t]
      /\ ran \in [Task -> Nat] /\ granted \in [Task -> Nat]
      /\ Rights \in [Task -> Nat] /\ Rights' \in [Task -> Nat]
  BY RightsType DEF RunsAreGranted, TypeOK
<1>2. CASE Ledger!Lose
  BY <1>1, <1>2 DEF Ledger!Lose, Ledger!AtMost
<1>3. ASSUME NEW u \in Task, Ledger!Grant(u)
      PROVE  ran'[t] + Rights'[t] <= granted'[t]
  BY <1>1, <1>3 DEF Ledger!Grant, Ledger!AtMost
<1>4. ASSUME NEW u \in Task, Ledger!Run(u)
      PROVE  ran'[t] + Rights'[t] <= granted'[t]
  BY <1>1, <1>4 DEF Ledger!Run
<1> QED
  BY <1>2, <1>3, <1>4 DEF Ledger!Next

\* The invariant together with the ledger's budget holds always.
LEMMA GrantedAlways == Spec => [](IInv /\ RunsAreGranted)
<1>1. Init => IInv /\ RunsAreGranted
  <2> SUFFICES ASSUME Init PROVE IInv /\ RunsAreGranted
    OBVIOUS
  <2>1. IInv /\ Ledger!Init
    BY InitAll
  <2> QED
    BY <2>1 DEF Ledger!Init, RunsAreGranted
<1>2. IInv /\ RunsAreGranted /\ [Next]_vars => IInv' /\ RunsAreGranted'
  <2> SUFFICES ASSUME IInv, RunsAreGranted, [Next]_vars PROVE IInv' /\ RunsAreGranted'
    OBVIOUS
  <2>1. IInv' /\ [Ledger!Next]_<<granted, Rights, ran>>
    BY NextAll
  <2>2. CASE Ledger!Next
    BY <2>1, <2>2, LedgerBudget DEF IInv
  <2>3. CASE UNCHANGED <<granted, Rights, ran>>
    BY <2>1, <2>3 DEF RunsAreGranted
  <2> QED
    BY <2>1, <2>2, <2>3
<1> QED
  BY <1>1, <1>2, PTL DEF Spec

\* No automatic duplicate: in every reachable state of every instance each
\* command has run at most as often as people submitted or retried it.
THEOREM NoDuplicate == Spec => []NoAutomaticDuplicate
<1>1. IInv /\ RunsAreGranted => NoAutomaticDuplicate
  <2> SUFFICES ASSUME IInv, RunsAreGranted, NEW t \in Task PROVE ran[t] <= granted[t]
    BY DEF NoAutomaticDuplicate
  <2>1. ran[t] + Rights[t] <= granted[t] /\ Rights[t] \in Nat
    BY RightsType DEF RunsAreGranted
  <2>2. ran[t] \in Nat /\ granted[t] \in Nat
    BY DEF IInv, TypeOK
  <2> QED
    BY <2>1, <2>2
<1> QED
  BY <1>1, GrantedAlways, PTL

(***************************************************************************)
(* What the records say.  Whatever a client holds or reports was handed    *)
(* out by a poll and has run (Earned).  What memory and the journal say of *)
(* it agrees with the acknowledgements given (Kept): memory may be ahead   *)
(* of the journal after a write that failed, but not for a command whose   *)
(* submission or outcome was confirmed.                                    *)
(***************************************************************************)
Finished == {"done", "failed"}
Gone == {"done", "failed", "absent"}

Earned ==
    /\ \A c \in Client : batch[c] \subseteq claimed
    /\ \A c \in Client : phase[c] \in {"executed", "posting"} =>
            held[c].task \in claimed /\ ran[held[c].task] > 0
    /\ \A c \in Client, r \in Result : <<c, r>> \in results =>
            r.task \in claimed /\ ran[r.task] > 0
    /\ \A t \in settled : ran[t] > 0

Kept ==
    /\ \A t \in Task : t \in acked /\ t \notin claimed =>
            journal.tasks[t].status = "queued" /\ (up => tasks[t].status = "queued")
    /\ \A t \in Task : t \in settled =>
            journal.tasks[t].status \in Gone /\ tasks[t].status \in Gone
    /\ \A t \in Task : /\ tasks[t].status \in Finished => ran[t] > 0
                       /\ journal.tasks[t].status \in Finished => ran[t] > 0

Records == Earned /\ Kept

\* persist_tasks keeps the records true when the rows it is given are, and when
\* what it may fail to write was in the journal already.
LEMMA PersistKept ==
    ASSUME TypeOK, Kept, NEW rs \in [Task -> Row], NEW order \in SUBSET (Task \X Task),
           NEW w \in BOOLEAN, PersistTasks(rs, order, w), ran' = ran,
           \A t \in Task : t \in acked' /\ t \notin claimed' =>
               rs[t].status = "queued" /\ (~w => journal.tasks[t].status = "queued"),
           \A t \in Task : t \in settled' =>
               rs[t].status \in Gone /\ (~w => journal.tasks[t].status \in Gone),
           \A t \in Task : rs[t].status \in Finished => ran[t] > 0
    PROVE  Kept'
<1>1. /\ journal' = IF w THEN [tasks |-> tasks', ended |-> ended'] ELSE journal
      /\ \A t \in Task : tasks'[t] = rs[t] \/ tasks'[t] = NoRow
      /\ \A t \in Task : rs[t].status \in Active => tasks'[t] = rs[t]
  BY PersistRows
<1>2. NoRow.status = "absent"
  BY DEF NoRow
<1>3. ASSUME NEW t \in Task
      PROVE  /\ t \in acked' /\ t \notin claimed' => tasks'[t].status = "queued"
             /\ t \in settled' => tasks'[t].status \in Gone
             /\ tasks'[t].status \in Finished => ran[t] > 0
  BY <1>1, <1>2, <1>3 DEF Active, Gone, Finished
<1>4. CASE w
  BY <1>1, <1>3, <1>4 DEF Kept
<1>5. CASE ~w
  BY <1>1, <1>3, <1>5 DEF Kept
<1> QED
  BY <1>4, <1>5

\* Steps that do not touch what the server keeps.
LEMMA UnchangedKept ==
    ASSUME Kept, UNCHANGED <<up, tasks, journal, claimed, acked, settled>>,
           TypeOK, \A t \in Task : ran'[t] \in Nat /\ ran'[t] >= ran[t]
    PROVE  Kept'
<1>1. \A t \in Task : ran[t] \in Nat /\ ran'[t] >= ran[t]
  BY DEF TypeOK
<1>2. \A t \in Task : ran[t] > 0 => ran'[t] > 0
  BY <1>1
<1>3. \A t \in Task : t \in acked' /\ t \notin claimed' =>
         journal'.tasks[t].status = "queued" /\ (up' => tasks'[t].status = "queued")
  BY DEF Kept
<1>4. \A t \in Task : t \in settled' =>
         journal'.tasks[t].status \in Gone /\ tasks'[t].status \in Gone
  BY DEF Kept
<1>5. \A t \in Task : /\ tasks'[t].status \in Finished => ran'[t] > 0
                      /\ journal'.tasks[t].status \in Finished => ran'[t] > 0
  BY <1>2 DEF Kept
<1> QED
  BY <1>3, <1>4, <1>5 DEF Kept

LEMMA SubmitRecords ==
    ASSUME IInv, Records, NoAutomaticDuplicate, NEW t \in Task, Submit(t)
    PROVE  Records'
<1> DEFINE rs == [tasks EXCEPT ![t] = [status |-> "queued", attempt |-> 0]]
<1>1. PICK written \in BOOLEAN, heard \in BOOLEAN :
        /\ heard => written
        /\ PersistTasks(rs, ended, written)
        /\ acked' = IF heard THEN acked \cup {t} ELSE acked
  BY DEF Submit
<1>2. /\ up /\ granted[t] = 0
      /\ UNCHANGED <<up, phase, batch, held, results, ran, claimed, settled>>
  BY DEF Submit, clientVars, networkVars
<1>3. /\ rs \in [Task -> Row] /\ ended \in SUBSET (Task \X Task) /\ TypeOK
      /\ rs[t].status = "queued" /\ \A u \in Task : u # t => rs[u] = tasks[u]
  BY BoundAssumption DEF IInv, TypeOK, Row, Active
<1> HIDE DEF rs
<1>4. t \notin settled
  <2>1. ~(ran[t] > 0)
    BY <1>2 DEF NoAutomaticDuplicate, IInv, TypeOK
  <2> QED
    BY <2>1 DEF Records, Earned
<1>5. Earned'
  BY <1>2 DEF Records, Earned
<1>6. \A u \in Task : u \in acked' /\ u \notin claimed' =>
         rs[u].status = "queued" /\ (~written => journal.tasks[u].status = "queued")
  BY <1>1, <1>2, <1>3 DEF Records, Kept
<1>7. \A u \in Task : u \in settled' =>
         rs[u].status \in Gone /\ (~written => journal.tasks[u].status \in Gone)
  BY <1>2, <1>3, <1>4 DEF Records, Kept
<1>8. \A u \in Task : rs[u].status \in Finished => ran[u] > 0
  BY <1>3 DEF Records, Kept, Finished
<1>9. Kept'
  BY <1>1, <1>2, <1>3, <1>6, <1>7, <1>8, PersistKept DEF Records
<1> QED
  BY <1>5, <1>9 DEF Records

LEMMA RetryRecords ==
    ASSUME IInv, Records, NEW t \in Task, RetryTask(t)
    PROVE  Records'
<1> DEFINE row == [status |-> "queued", attempt |-> tasks[t].attempt + 1]
           rs == [tasks EXCEPT ![t] = row]
<1>1. PICK written \in BOOLEAN : PersistTasks(rs, ended, written)
  BY DEF RetryTask
<1>2. /\ up /\ tasks[t].status \in {"failed", "uncertain"}
      /\ UNCHANGED <<up, phase, batch, held, results, ran, claimed, acked>>
      /\ settled' = settled \ {t}
  BY DEF RetryTask, clientVars, networkVars
<1>3. row \in Row
  BY BoundAssumption DEF RetryTask, IInv, TypeOK, Row, Active
<1>4. /\ rs \in [Task -> Row] /\ ended \in SUBSET (Task \X Task) /\ TypeOK
      /\ rs[t].status = "queued" /\ \A u \in Task : u # t => rs[u] = tasks[u]
  BY <1>3 DEF IInv, TypeOK
<1> HIDE DEF rs, row
<1>5. Earned'
  BY <1>2 DEF Records, Earned
<1>6. \A u \in Task : u \in acked' /\ u \notin claimed' =>
         rs[u].status = "queued" /\ (~written => journal.tasks[u].status = "queued")
  BY <1>2, <1>4 DEF Records, Kept
<1>7. \A u \in Task : u \in settled' =>
         rs[u].status \in Gone /\ (~written => journal.tasks[u].status \in Gone)
  BY <1>2, <1>4 DEF Records, Kept
<1>8. \A u \in Task : rs[u].status \in Finished => ran[u] > 0
  BY <1>4 DEF Records, Kept, Finished
<1>9. Kept'
  BY <1>1, <1>2, <1>4, <1>6, <1>7, <1>8, PersistKept DEF Records
<1> QED
  BY <1>5, <1>9 DEF Records

\* A poll hands out queued rows, whose submission need not be kept any longer.
LEMMA ClaimKept ==
    ASSUME IInv, Records, NEW c \in Client, NEW w \in BOOLEAN, ClaimTasksForHost(c, w), up
    PROVE  Kept'
<1>1. /\ UNCHANGED <<up, ran, acked, settled>> /\ claimed' = claimed \cup Claimable(c)
      /\ TypeOK /\ ended \in SUBSET (Task \X Task)
  BY DEF ClaimTasksForHost, IInv, TypeOK
<1>2. CASE Claimable(c) = {}
  <2>1. UNCHANGED <<tasks, journal, claimed>>
    BY <1>1, <1>2 DEF ClaimTasksForHost
  <2> QED
    BY <1>1, <2>1, UnchangedKept DEF Records, TypeOK
<1>3. CASE Claimable(c) # {}
  <2> DEFINE rs == AfterClaim(c)
  <2>1. PersistTasks(rs, ended, w) /\ rs \in [Task -> Row]
    BY <1>1, <1>3, AfterClaimType DEF ClaimTasksForHost
  <2>2. \A t \in Task : IF t \in Claimable(c) THEN rs[t].status = "delivered"
                        ELSE rs[t] = tasks[t]
    BY DEF AfterClaim
  <2> HIDE DEF rs
  <2>3. \A t \in Task : t \in acked' /\ t \notin claimed' =>
           rs[t].status = "queued" /\ (~w => journal.tasks[t].status = "queued")
    BY <1>1, <2>2 DEF Records, Kept
  <2>4. \A t \in Task : t \in settled' =>
           rs[t].status \in Gone /\ (~w => journal.tasks[t].status \in Gone)
    BY <1>1, <2>2 DEF Records, Kept, Claimable, Gone
  <2>5. \A t \in Task : rs[t].status \in Finished => ran[t] > 0
    BY <2>2 DEF Records, Kept, Finished
  <2> QED
    BY <1>1, <2>1, <2>3, <2>4, <2>5, PersistKept DEF Records
<1> QED
  BY <1>2, <1>3

LEMMA PollRecords ==
    ASSUME IInv, Records, NEW c \in Client, ServePoll(c) \/ ServeStalePoll(c)
    PROVE  Records'
<1>1. up /\ \E w \in BOOLEAN : ClaimTasksForHost(c, w)
  BY DEF ServePoll, ServeStalePoll
<1>2. /\ UNCHANGED <<results, held, ran, settled>> /\ claimed \subseteq claimed'
      /\ Claimable(c) \subseteq claimed'
  BY <1>1 DEF ClaimTasksForHost
<1>3. ASSUME NEW d \in Client
      PROVE  /\ batch'[d] \subseteq claimed'
             /\ phase'[d] \in {"executed", "posting"} => phase[d] \in {"executed", "posting"}
  <2>1. CASE ServeStalePoll(c)
    BY <1>2, <2>1 DEF ServeStalePoll, Records, Earned
  <2>2. CASE ServePoll(c)
    <3>1. PICK heard \in BOOLEAN :
            /\ phase' = [phase EXCEPT ![c] = IF heard THEN "batch" ELSE "idle"]
            /\ batch' = [batch EXCEPT ![c] = IF heard THEN Claimable(c) ELSE {}]
      BY <2>2 DEF ServePoll
    <3> QED
      BY <1>2, <3>1 DEF IInv, TypeOK, Records, Earned
  <2> QED
    BY <2>1, <2>2
<1>4. Earned'
  BY <1>2, <1>3 DEF Records, Earned
<1> QED
  BY <1>1, <1>4, ClaimKept DEF Records

\* What an answer does to its client makes no claim.
LEMMA AnsweredEarned ==
    ASSUME IInv, Records, NEW c \in Client, NEW r \in Result, NEW heard \in BOOLEAN,
           Answered(c, r, heard), results' \subseteq results,
           UNCHANGED <<ran, claimed>>, \A t \in settled' : ran[t] > 0
    PROVE  Earned'
<1>1. CASE Waits(c, r)
  <2>1. /\ phase' = [phase EXCEPT ![c] = IF heard THEN "batch" ELSE "idle"]
        /\ batch' = [batch EXCEPT ![c] = IF heard THEN @ ELSE {}]
        /\ held' = [held EXCEPT ![c] = Nothing]
    BY <1>1 DEF Answered
  <2>2. ASSUME NEW d \in Client
        PROVE  /\ batch'[d] \subseteq claimed'
               /\ phase'[d] \in {"executed", "posting"} =>
                    held'[d].task \in claimed' /\ ran'[held'[d].task] > 0
    <3>1. CASE d = c
      BY <2>1, <3>1 DEF IInv, TypeOK, Records, Earned
    <3>2. CASE d # c
      BY <2>1, <3>2 DEF IInv, TypeOK, Records, Earned
    <3> QED
      BY <3>1, <3>2
  <2> QED
    BY <2>2 DEF Records, Earned
<1>2. CASE ~Waits(c, r)
  BY <1>2 DEF Answered, clientVars, Records, Earned
<1> QED
  BY <1>1, <1>2

LEMMA CompleteRecords ==
    ASSUME IInv, Records, NEW c \in Client, NEW r \in Result, CompleteTask(c, r)
    PROVE  Records'
<1> DEFINE t == r.task
           status == IF r.ok THEN "done" ELSE "failed"
           rs == [tasks EXCEPT ![r.task].status = IF r.ok THEN "done" ELSE "failed"]
           order == EndsNow(ended, r.task)
<1>1. PICK written \in BOOLEAN, heard \in BOOLEAN :
        /\ heard => written
        /\ PersistTasks(rs, order, written)
        /\ Answered(c, r, heard)
        /\ settled' = IF heard THEN settled \cup {r.task} ELSE settled
  BY DEF CompleteTask
<1>2. /\ up /\ t \in Task /\ r.ok \in BOOLEAN /\ results' \subseteq results
      /\ UNCHANGED <<up, ran, claimed, acked>> /\ TypeOK
      /\ t \in claimed /\ ran[t] > 0
  BY DEF CompleteTask, Result, IInv, Records, Earned
<1>3. /\ rs \in [Task -> Row] /\ order \in SUBSET (Task \X Task)
      /\ rs[t].status \in Finished /\ \A u \in Task : u # t => rs[u] = tasks[u]
  <2> DEFINE row == [tasks[t] EXCEPT !.status = status]
  <2>1. order \in SUBSET (Task \X Task)
    BY <1>2, EndsNowType DEF TypeOK
  <2>2. status \in {"done", "failed"} /\ tasks \in [Task -> Row]
    BY <1>2 DEF TypeOK
  <2>3. rs = [tasks EXCEPT ![t] = row]
    BY <2>2
  <2> HIDE DEF rs, order, status
  <2>4. row \in Row /\ row.status \in Finished
    BY <1>2, <2>2 DEF Row, Terminal, Finished
  <2> HIDE DEF row
  <2> QED
    BY <1>2, <2>1, <2>2, <2>3, <2>4
<1> HIDE DEF rs, order, status
<1>4. \A u \in settled' : ran[u] > 0
  BY <1>1, <1>2 DEF Records, Earned
<1>5. Earned'
  BY <1>1, <1>2, <1>4, AnsweredEarned
<1>6. \A u \in Task : u \in acked' /\ u \notin claimed' =>
         rs[u].status = "queued" /\ (~written => journal.tasks[u].status = "queued")
  BY <1>2, <1>3 DEF Records, Kept
<1>7. \A u \in Task : u \in settled' =>
         rs[u].status \in Gone /\ (~written => journal.tasks[u].status \in Gone)
  BY <1>1, <1>2, <1>3 DEF Records, Kept, Gone, Finished
<1>8. \A u \in Task : rs[u].status \in Finished => ran[u] > 0
  BY <1>2, <1>3 DEF Records, Kept
<1>9. Kept'
  BY <1>1, <1>2, <1>3, <1>6, <1>7, <1>8, PersistKept DEF Records
<1> QED
  BY <1>5, <1>9 DEF Records

LEMMA RejectRecords ==
    ASSUME IInv, Records, NEW c \in Client, NEW r \in Result, RejectUnknownTask(c, r)
    PROVE  Records'
<1>1. /\ Answered(c, r, FALSE) /\ results' \subseteq results
      /\ UNCHANGED <<up, tasks, journal, ran, claimed, acked, settled>>
  BY DEF RejectUnknownTask, serverVars, historyVars
<1>2. Earned'
  BY <1>1, AnsweredEarned DEF Records, Earned
<1>3. Kept'
  BY <1>1, UnchangedKept DEF Records, IInv, TypeOK
<1> QED
  BY <1>2, <1>3 DEF Records

\* After a crash the journal alone is left, and of it nothing was lost that
\* was confirmed.
LEMMA CrashRecords ==
    ASSUME IInv, Records, Crash
    PROVE  Records'
<1>1. /\ up' = FALSE /\ tasks' = [t \in Task |-> NoRow] /\ results' = {}
      /\ UNCHANGED <<journal, phase, batch, held, ran, claimed, acked, settled>>
  BY DEF Crash, clientVars, historyVars
<1>2. NoRow.status = "absent"
  BY DEF NoRow
<1> QED
  BY <1>1, <1>2 DEF Records, Earned, Kept, Gone, Finished

LEMMA LoadRecords ==
    ASSUME IInv, Records, LoadTasks
    PROVE  Records'
<1> DEFINE lost == {t \in Task : journal.tasks[t].status = "delivered"}
           rs == [t \in Task |-> Recovered(journal.tasks[t])]
<1>1. /\ journal.tasks \in [Task -> Row] /\ journal.ended \in SUBSET (Task \X Task) /\ TypeOK
  BY DEF IInv, TypeOK
<1>2. rs \in [Task -> Row]
  BY <1>1, RecoveredType
<1>3. PICK ties \in SUBSET (lost \X lost) :
        IF lost = {}
        THEN tasks' = rs /\ ended' = journal.ended /\ UNCHANGED journal
        ELSE PersistTasks(rs,
                journal.ended \cup ties \cup (lost \X (Task \ lost)), TRUE)
  BY DEF LoadTasks
<1> DEFINE order == journal.ended \cup ties \cup (lost \X (Task \ lost))
<1>4. order \in SUBSET (Task \X Task)
  BY <1>1
<1>5. UNCHANGED <<phase, batch, held, results, ran, claimed, acked, settled>>
  BY DEF LoadTasks, clientVars, networkVars, historyVars
<1>6. \A t \in Task : \/ rs[t] = journal.tasks[t]
                      \/ rs[t].status = "uncertain" /\ journal.tasks[t].status = "delivered"
  BY <1>1 DEF Recovered, Row
<1>7. /\ \A t \in Task : t \in acked' /\ t \notin claimed' => rs[t].status = "queued"
      /\ \A t \in Task : t \in settled' => rs[t].status \in Gone
      /\ \A t \in Task : rs[t].status \in Finished => ran[t] > 0
  BY <1>5, <1>6 DEF Records, Kept, Gone, Finished
<1> HIDE DEF rs, order
<1>8. Kept'
  <2>1. CASE lost = {}
    BY <1>3, <1>5, <1>7, <2>1 DEF Records, Kept
  <2>2. CASE lost # {}
    <3>1. PersistTasks(rs, order, TRUE)
      BY <1>3, <2>2 DEF order
    <3> QED
      BY <1>1, <1>2, <1>4, <1>5, <1>7, <3>1, PersistKept DEF Records
  <2> QED
    BY <2>1, <2>2
<1>9. Earned'
  BY <1>5 DEF Records, Earned
<1> QED
  BY <1>8, <1>9 DEF Records

LEMMA ClientRecords ==
    ASSUME IInv, Records, NEW c \in Client, ClientStep(c)
    PROVE  Records'
<1>1. /\ UNCHANGED <<up, tasks, journal, claimed, acked, settled>>
      /\ \A t \in Task : ran'[t] \in Nat /\ ran'[t] >= ran[t]
  BY DEF ClientStep, SendPoll, PostResult, FinishBatch, CallFails, CallTimesOut,
         ClientRestart, Execute, serverVars, historyVars, IInv, TypeOK
<1>2. Kept'
  BY <1>1, UnchangedKept DEF Records, IInv
<1>3. CASE \E t \in Task : Execute(c, t)
  <2>1. PICK t \in Task, ok \in BOOLEAN :
          /\ t \in batch[c] /\ batch' = [batch EXCEPT ![c] = @ \ {t}]
          /\ ran' = [ran EXCEPT ![t] = @ + 1]
          /\ phase' = [phase EXCEPT ![c] = "executed"]
          /\ held' = [held EXCEPT ![c] = [task |-> t, ok |-> ok]]
          /\ results' = results
    BY <1>3 DEF Execute, networkVars
  <2>2. \A u \in Task : ran[u] > 0 => ran'[u] > 0
    <3>1. \A u \in Task : ran[u] \in Nat /\ ran'[u] \in Nat /\ ran'[u] >= ran[u]
      BY <1>1 DEF IInv, TypeOK
    <3> QED
      BY <3>1
  <2>3. ran'[t] > 0
    BY <2>1 DEF IInv, TypeOK
  <2>4. \A d \in Client : batch'[d] \subseteq claimed'
    BY <1>1, <2>1 DEF Records, Earned, IInv, TypeOK
  <2>5. ASSUME NEW d \in Client, phase'[d] \in {"executed", "posting"}
        PROVE  held'[d].task \in claimed' /\ ran'[held'[d].task] > 0
    <3>1. CASE d = c
      BY <1>1, <2>1, <2>3, <3>1 DEF Records, Earned, IInv, TypeOK
    <3>2. CASE d # c
      <4>1. held'[d] = held[d] /\ phase'[d] = phase[d]
        BY <2>1, <3>2 DEF IInv, TypeOK
      <4>2. held[d].task \in claimed /\ ran[held[d].task] > 0 /\ claimed \subseteq Task
        BY <2>5, <4>1 DEF Records, Earned, IInv, TypeOK
      <4> QED
        BY <1>1, <2>2, <4>1, <4>2
    <3> QED
      BY <3>1, <3>2
  <2>6. \A d \in Client, r \in Result : <<d, r>> \in results' =>
           r.task \in claimed' /\ ran'[r.task] > 0
    BY <1>1, <2>1, <2>2 DEF Records, Earned, Result
  <2>7. \A u \in settled' : ran'[u] > 0
    BY <1>1, <2>2 DEF Records, Earned, IInv, TypeOK
  <2> QED
    BY <1>2, <2>4, <2>5, <2>6, <2>7 DEF Records, Earned
<1>4. CASE PostResult(c)
  <2>1. /\ phase[c] = "executed" /\ results' = results \cup {<<c, held[c]>>}
        /\ phase' = [phase EXCEPT ![c] = "posting"] /\ UNCHANGED <<batch, held, ran>>
    BY <1>4 DEF PostResult, historyVars
  <2>2. held[c].task \in claimed /\ ran[held[c].task] > 0
    BY <2>1 DEF Records, Earned
  <2>3. ASSUME NEW d \in Client, NEW r \in Result, <<d, r>> \in results'
        PROVE  r.task \in claimed' /\ ran'[r.task] > 0
    BY <1>1, <2>1, <2>2, <2>3 DEF Records, Earned
  <2>4. \A d \in Client : phase'[d] \in {"executed", "posting"} =>
           held'[d].task \in claimed' /\ ran'[held'[d].task] > 0
    BY <1>1, <2>1 DEF Records, Earned, IInv, TypeOK
  <2> QED
    BY <1>1, <1>2, <2>1, <2>3, <2>4 DEF Records, Earned
<1>5. CASE \/ SendPoll(c) \/ FinishBatch(c) \/ CallFails(c) \/ CallTimesOut(c)
           \/ ClientRestart(c)
  <2>1. UNCHANGED <<results, ran>>
    BY <1>5 DEF SendPoll, FinishBatch, CallFails, CallTimesOut, ClientRestart,
                networkVars, historyVars
  <2>2. ASSUME NEW d \in Client
        PROVE  /\ batch'[d] \subseteq batch[d]
               /\ phase'[d] \in {"executed", "posting"} =>
                    phase'[d] = phase[d] /\ held'[d] = held[d]
    BY <1>5 DEF SendPoll, FinishBatch, CallFails, CallTimesOut, ClientRestart, IInv, TypeOK
  <2>3. Earned'
    BY <1>1, <2>1, <2>2 DEF Records, Earned
  <2> QED
    BY <1>2, <2>3 DEF Records
<1> QED
  BY <1>3, <1>4, <1>5 DEF ClientStep

LEMMA NextRecords ==
    ASSUME IInv, NoAutomaticDuplicate, Records, [Next]_vars
    PROVE  Records'
<1>1. ASSUME NEW t \in Task, Submit(t) \/ RetryTask(t) PROVE Records'
  BY <1>1, SubmitRecords, RetryRecords
<1>2. ASSUME NEW c \in Client, ServePoll(c) \/ ServeStalePoll(c) PROVE Records'
  BY <1>2, PollRecords
<1>3. ASSUME NEW c \in Client, NEW r \in Result,
             CompleteTask(c, r) \/ RejectUnknownTask(c, r)
      PROVE  Records'
  BY <1>3, CompleteRecords, RejectRecords
<1>4. CASE Crash \/ LoadTasks
  BY <1>4, CrashRecords, LoadRecords
<1>5. ASSUME NEW c \in Client, ClientStep(c) PROVE Records'
  BY <1>5, ClientRecords
<1>6. CASE UNCHANGED vars
  BY <1>6 DEF vars, serverVars, clientVars, networkVars, historyVars, Records, Earned, Kept
<1> QED
  BY <1>1, <1>2, <1>3, <1>4, <1>5, <1>6 DEF Next, ServerStep

\* What the table and the journal say is true: an acknowledged command that no
\* poll handed out is queued in the journal, a confirmed outcome survives every
\* crash until a retry, and done or failed is said only of a command that ran
\* (persist_tasks, complete_task, load_tasks), for any tasks, hosts and faults.
THEOREM RecordsAreTrueAlways == Spec => []RecordsAreTrue
<1>1. Init => Records
  BY DEF Init, Records, Earned, Kept, NoRow, Finished
<1>2. IInv /\ Records => RecordsAreTrue
  <2> SUFFICES ASSUME IInv, Records PROVE RecordsAreTrue
    OBVIOUS
  <2>1. acked \subseteq Task /\ settled \subseteq Task
    BY DEF IInv, TypeOK
  <2>2. /\ \A t \in acked \ claimed : journal.tasks[t].status = "queued"
        /\ \A t \in settled : journal.tasks[t].status \in {"done", "failed", "absent"}
    BY <2>1 DEF Records, Kept, Gone
  <2>3. \A t \in Task : \A row \in {tasks[t], journal.tasks[t]} :
           row.status \in {"done", "failed"} => ran[t] > 0
    BY DEF Records, Kept, Finished
  <2> QED
    BY <2>2, <2>3 DEF RecordsAreTrue
<1> QED
  BY <1>1, <1>2, NextRecords, GrantedAlways, NoDuplicate, PTL DEF Spec
=============================================================================
