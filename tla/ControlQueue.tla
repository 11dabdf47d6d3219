---------------------------- MODULE ControlQueue ----------------------------
(***************************************************************************)
(* The durable control queue: bin/queue-server.py (the task table TASKS,   *)
(* its journal run/control-queue.json, the handlers /task/submit,          *)
(* /task/poll, /task/result, /task/retry and the load at start) together   *)
(* with the polling loop of bin/queue-client.py, one client per host.      *)
(*                                                                         *)
(* Every handler holds LOCK while it updates TASKS and writes the journal, *)
(* so one handler is one action.  What is not atomic is modelled as such:  *)
(* the journal write can fail after TASKS was updated, the server can die  *)
(* at any point, a request can outlive the client that gave up on it, and  *)
(* a reply can be lost.  Each of these spends one unit of MaxFaults.       *)
(***************************************************************************)
EXTENDS Naturals, FiniteSets

CONSTANTS
    Task,           \* identities secrets.token_hex can hand out
    Client,         \* the hosts, one queue-client each
    Target,         \* the host part of target_agent: [Task -> Client]
    TerminalLimit,  \* TERMINAL_TASK_LIMIT
    MaxAttempt,     \* bound: attempts an operator grants to one command
    MaxFaults       \* bound: crashes, failed writes and lost replies

ASSUME TargetAssumption == Target \in [Task -> Client]
ASSUME LimitAssumption  == TerminalLimit \in Nat \ {0}
ASSUME BoundAssumption  == MaxAttempt \in Nat \ {0} /\ MaxFaults \in Nat

Active   == {"queued", "delivered"}
Terminal == {"done", "failed", "uncertain"}
NoRow    == [status |-> "absent", attempt |-> 0]
Row      == [status : Active \cup Terminal \cup {"absent"}, attempt : 0 .. MaxAttempt]

\* An outcome travelling from a client to /task/result.  The body carries the
\* task and ok; it does not say which attempt produced it.
Result   == [task : Task, ok : BOOLEAN]
Nothing  == [task |-> "none", ok |-> FALSE]

VARIABLES
    up,         \* the queue-server process is running
    tasks,      \* TASKS
    ended,      \* <<t, u>>: t became terminal after u did (the sort key)
    journal,    \* control-queue.json: [tasks, ended] as last replaced
    phase,      \* where each client is in its loop
    batch,      \* tasks of the current poll reply not yet executed
    held,       \* the outcome a client has to report
    polls,      \* clients whose poll request waits at the server
    stale,      \* clients whose abandoned poll request still waits there
    results,    \* /task/result requests waiting at the server
    granted,    \* history: attempts a person asked for (submit, retry)
    ran,        \* history: times execute() was entered for the task
    claimed,    \* history: tasks handed out by at least one poll
    acked,      \* history: tasks whose task_id reached the submitter
    settled,    \* history: tasks whose outcome was confirmed, not retried since
    faults      \* bound counter

serverVars  == <<up, tasks, ended, journal>>
clientVars  == <<phase, batch, held>>
networkVars == <<polls, stale, results>>
historyVars == <<granted, ran, claimed, acked, settled>>
vars == <<serverVars, clientVars, networkVars, historyVars, faults>>

-----------------------------------------------------------------------------
(* Server                                                                  *)

\* The pairs of `order' that still relate two terminal rows of rs.
AmongTerminal(rs, order) ==
    {p \in order : rs[p[1]].status \in Terminal /\ rs[p[2]].status \in Terminal}

\* active + terminal[:TERMINAL_TASK_LIMIT], newest first.
Selected(rs, order) ==
    {t \in Task :
        \/ rs[t].status \in Active
        \/ /\ rs[t].status \in Terminal
           /\ Cardinality({u \in Task : <<u, t>> \in AmongTerminal(rs, order)})
                < TerminalLimit}

Pruned(rs, order) ==
    [t \in Task |-> IF t \in Selected(rs, order) THEN rs[t] ELSE NoRow]

\* t has just become terminal: it is newer than every other task.
EndsNow(order, t) ==
    {p \in order : p[1] # t /\ p[2] # t} \cup {<<t, u>> : u \in Task \ {t}}

Spend(n) == faults + n <= MaxFaults /\ faults' = faults + n
Cost(ok) == IF ok THEN 0 ELSE 1

\* Mutant: the journal is written before TASKS takes the new rows.
PersistTasksFirst(rs, order, written) ==
    LET kept == Pruned(rs, order)
    IN  /\ tasks' = kept
        /\ ended' = AmongTerminal(kept, order)
        /\ journal' = IF written THEN [tasks |-> tasks, ended |-> ended]
                                 ELSE journal

\* persist_tasks: TASKS is pruned in memory first; then the journal is
\* replaced, or the write raises and only memory has moved.
PersistTasks(rs, order, written) ==
    LET kept  == Pruned(rs, order)
        after == AmongTerminal(kept, order)
    IN  /\ tasks' = kept
        /\ ended' = after
        /\ journal' = IF written THEN [tasks |-> kept, ended |-> after]
                                 ELSE journal

Init ==
    /\ up = TRUE
    /\ tasks = [t \in Task |-> NoRow]
    /\ ended = {}
    /\ journal = [tasks |-> [t \in Task |-> NoRow], ended |-> {}]
    /\ phase = [c \in Client |-> "idle"]
    /\ batch = [c \in Client |-> {}]
    /\ held = [c \in Client |-> Nothing]
    /\ polls = {} /\ stale = {} /\ results = {}
    /\ granted = [t \in Task |-> 0]
    /\ ran = [t \in Task |-> 0]
    /\ claimed = {} /\ acked = {} /\ settled = {}
    /\ faults = 0

\* POST /task/submit; the reply is sent only after the journal was written.
Submit(t) ==
    /\ up
    /\ granted[t] = 0
    /\ \E written, heard \in BOOLEAN :
        /\ heard => written
        /\ Spend(Cost(written))
        /\ PersistTasks(
             [tasks EXCEPT ![t] = [status |-> "queued", attempt |-> 0]],
             ended, written)
        /\ acked' = IF heard THEN acked \cup {t} ELSE acked
    /\ granted' = [granted EXCEPT ![t] = 1]
    /\ UNCHANGED <<up, clientVars, networkVars, ran, claimed, settled>>

\* POST /task/retry, the only way an ended command is queued again.
RetryTask(t) ==
    /\ up
    /\ tasks[t].status \in {"failed", "uncertain"}
    /\ tasks[t].attempt < MaxAttempt
    /\ \E written \in BOOLEAN :
        /\ Spend(Cost(written))
        /\ PersistTasks(
             [tasks EXCEPT ![t] = [status  |-> "queued",
                                   attempt |-> tasks[t].attempt + 1]],
             ended, written)
    /\ granted' = [granted EXCEPT ![t] = @ + 1]
    /\ settled' = settled \ {t}
    /\ UNCHANGED <<up, clientVars, networkVars, ran, claimed, acked>>

\* Mutant: a poll takes only rows that were never delivered before.
ClaimableFresh(c) ==
    {t \in Task : tasks[t].status = "queued" /\ tasks[t].attempt = 0 /\ Target[t] = c}

\* The rows a poll of host c hands out, and TASKS after it did.
Claimable(c) == {t \in Task : tasks[t].status = "queued" /\ Target[t] = c}
\* (First a mutant in which a claim counts an attempt, as a retry does.)
AfterClaimCounting(c) ==
    [t \in Task |->
        IF t \in Claimable(c)
        THEN [status |-> "delivered", attempt |-> tasks[t].attempt + 1]
        ELSE tasks[t]]
AfterClaim(c) ==
    [t \in Task |->
        IF t \in Claimable(c)
        THEN [status  |-> "delivered",
              attempt |-> IF tasks[t].attempt = 0 THEN 1 ELSE tasks[t].attempt]
        ELSE tasks[t]]

\* claim_tasks_for_host writes the journal only when it handed something out.
ClaimTasksForHost(c, written) ==
    /\ IF Claimable(c) = {}
       THEN written /\ UNCHANGED <<tasks, ended, journal>>
       ELSE PersistTasks(AfterClaim(c), ended, written)
    /\ claimed' = claimed \cup Claimable(c)
    /\ UNCHANGED <<up, results, held, granted, ran, acked, settled>>

\* GET /task/poll for a client that is still waiting: it receives the rows,
\* or the write failed or the reply was lost and it goes back to its loop.
ServePoll(c) ==
    /\ up
    /\ c \in polls
    /\ polls' = polls \ {c}
    /\ \E written, heard \in BOOLEAN :
        /\ heard => written
        /\ Spend(Cost(heard))
        /\ ClaimTasksForHost(c, written)
        /\ phase' = [phase EXCEPT ![c] = IF heard THEN "batch" ELSE "idle"]
        /\ batch' = [batch EXCEPT ![c] = IF heard THEN Claimable(c) ELSE {}]
    /\ UNCHANGED stale

\* The same handler for a request whose client timed out: nobody reads the
\* rows it hands out.
ServeStalePoll(c) ==
    /\ up
    /\ c \in stale
    /\ stale' = stale \ {c}
    /\ \E written \in BOOLEAN :
        /\ Spend(Cost(written))
        /\ ClaimTasksForHost(c, written)
    /\ UNCHANGED <<polls, phase, batch>>

\* What the answer to c's POST of r does to c, if c still waits for it: heard,
\* it goes on with the batch, otherwise it leaves the for-loop.
Waits(c, r) == phase[c] = "posting" /\ held[c] = r
Answered(c, r, heard) ==
    IF Waits(c, r)
    THEN /\ phase' = [phase EXCEPT ![c] = IF heard THEN "batch" ELSE "idle"]
         /\ batch' = [batch EXCEPT ![c] = IF heard THEN @ ELSE {}]
         /\ held' = [held EXCEPT ![c] = Nothing]
    ELSE UNCHANGED clientVars

\* POST /task/result.  complete_task looks only for the task_id: it accepts a
\* result whatever the row's present status is.
CompleteTask(c, r) ==
    /\ up
    /\ <<c, r>> \in results
    /\ results' = results \ {<<c, r>>}
    /\ tasks[r.task] # NoRow
    /\ \E written, heard \in BOOLEAN :
        /\ heard => written /\ Waits(c, r)
        /\ Spend(Cost(IF Waits(c, r) THEN heard ELSE written))
        /\ PersistTasks(
             [tasks EXCEPT ![r.task].status = IF r.ok THEN "done" ELSE "failed"],
             EndsNow(ended, r.task), written)
        /\ Answered(c, r, heard)
        /\ settled' = IF heard THEN settled \cup {r.task} ELSE settled
    /\ UNCHANGED <<up, polls, stale, granted, ran, claimed, acked>>

\* The row was pruned meanwhile: 404 unknown_task, which the client raises.
RejectUnknownTask(c, r) ==
    /\ up
    /\ <<c, r>> \in results
    /\ results' = results \ {<<c, r>>}
    /\ tasks[r.task] = NoRow
    /\ Answered(c, r, FALSE)
    /\ UNCHANGED <<serverVars, polls, stale, historyVars, faults>>

\* The server process dies: TASKS and every request it had accepted are gone.
Crash ==
    /\ up
    /\ Spend(1)
    /\ up' = FALSE
    /\ tasks' = [t \in Task |-> NoRow]
    /\ ended' = {}
    /\ polls' = {} /\ stale' = {} /\ results' = {}
    /\ UNCHANGED <<journal, clientVars, historyVars>>

\* Mutants: a restart queues a delivered row again, or calls it failed.
RecoveredAsQueued(row) ==
    IF row.status = "delivered" THEN [row EXCEPT !.status = "queued"] ELSE row
RecoveredAsFailed(row) ==
    IF row.status = "delivered" THEN [row EXCEPT !.status = "failed"] ELSE row

\* The row load_tasks makes of a journaled one.
Recovered(row) ==
    IF row.status = "delivered" THEN [row EXCEPT !.status = "uncertain"] ELSE row

\* load_tasks: every delivered row becomes uncertain.  The rows recovered
\* together share one recovered_at, so their mutual order is arbitrary.
LoadTasks ==
    LET lost     == {t \in Task : journal.tasks[t].status = "delivered"}
        restored == [t \in Task |-> Recovered(journal.tasks[t])]
    IN  /\ ~up
        /\ up' = TRUE
        /\ \E ties \in SUBSET (lost \X lost) :
            /\ \A t, u \in lost : t # u => (<<t, u>> \in ties) # (<<u, t>> \in ties)
            /\ \A t, u, v \in lost :
                 (<<t, u>> \in ties /\ <<u, v>> \in ties) => <<t, v>> \in ties
            /\ \A t \in lost : <<t, t>> \notin ties
            /\ IF lost = {}
               THEN /\ tasks' = restored
                    /\ ended' = journal.ended
                    /\ UNCHANGED journal
               ELSE PersistTasks(restored,
                        journal.ended \cup ties \cup (lost \X (Task \ lost)), TRUE)
        /\ UNCHANGED <<clientVars, networkVars, historyVars, faults>>

-----------------------------------------------------------------------------
(* Client                                                                  *)

\* http_json("/task/poll"): against a dead server the call raises at once and
\* the loop comes round again, which changes nothing.
SendPoll(c) ==
    /\ up
    /\ phase[c] = "idle"
    /\ phase' = [phase EXCEPT ![c] = "awaiting"]
    /\ polls' = polls \cup {c}
    /\ UNCHANGED <<serverVars, batch, held, stale, results, historyVars, faults>>

\* for task in tasks: execute(task), whose exceptions become ok=False.
Execute(c, t) ==
    /\ phase[c] = "batch"
    /\ t \in batch[c]
    /\ batch' = [batch EXCEPT ![c] = @ \ {t}]
    /\ ran' = [ran EXCEPT ![t] = @ + 1]
    /\ phase' = [phase EXCEPT ![c] = "executed"]
    /\ \E ok \in BOOLEAN :
         held' = [held EXCEPT ![c] = [task |-> t, ok |-> ok]]
    /\ UNCHANGED <<serverVars, networkVars, granted, claimed, acked, settled, faults>>

\* The POST of the outcome.
PostResult(c) ==
    /\ up
    /\ phase[c] = "executed"
    /\ phase' = [phase EXCEPT ![c] = "posting"]
    /\ results' = results \cup {<<c, held[c]>>}
    /\ UNCHANGED <<serverVars, batch, held, polls, stale, historyVars, faults>>

\* The for-loop ran out of tasks; the client sleeps and starts over.
FinishBatch(c) ==
    /\ phase[c] = "batch"
    /\ batch[c] = {}
    /\ phase' = [phase EXCEPT ![c] = "idle"]
    /\ UNCHANGED <<serverVars, batch, held, networkVars, historyVars, faults>>

\* The server is gone under a call: connection refused or reset.  The outer
\* except leaves the for-loop and with it the rest of the batch.
CallFails(c) ==
    /\ \/ phase[c] = "executed" /\ ~up
       \/ phase[c] = "awaiting" /\ c \notin polls
       \/ phase[c] = "posting" /\ <<c, held[c]>> \notin results
    /\ phase' = [phase EXCEPT ![c] = "idle"]
    /\ batch' = [batch EXCEPT ![c] = {}]
    /\ held' = [held EXCEPT ![c] = Nothing]
    /\ UNCHANGED <<serverVars, networkVars, historyVars, faults>>

\* The client's 15 s timeout expires first: it leaves the loop the same way
\* while its request stays at the server.
CallTimesOut(c) ==
    /\ \/ phase[c] = "awaiting" /\ c \in polls
       \/ phase[c] = "posting" /\ <<c, held[c]>> \in results
    /\ Spend(1)
    /\ phase' = [phase EXCEPT ![c] = "idle"]
    /\ batch' = [batch EXCEPT ![c] = {}]
    /\ held' = [held EXCEPT ![c] = Nothing]
    /\ polls' = polls \ {c}
    /\ stale' = IF c \in polls THEN stale \cup {c} ELSE stale
    /\ UNCHANGED <<serverVars, results, historyVars>>

\* The client process dies between two statements and is started again.
ClientRestart(c) ==
    /\ phase[c] \in {"batch", "executed"}
    /\ Spend(1)
    /\ phase' = [phase EXCEPT ![c] = "idle"]
    /\ batch' = [batch EXCEPT ![c] = {}]
    /\ held' = [held EXCEPT ![c] = Nothing]
    /\ UNCHANGED <<serverVars, networkVars, historyVars>>

-----------------------------------------------------------------------------
ServerStep ==
    \/ \E t \in Task : Submit(t) \/ RetryTask(t)
    \/ \E c \in Client : ServePoll(c) \/ ServeStalePoll(c)
    \/ \E c \in Client, r \in Result : CompleteTask(c, r) \/ RejectUnknownTask(c, r)
    \/ Crash \/ LoadTasks

ClientStep(c) ==
    \/ SendPoll(c) \/ PostResult(c) \/ FinishBatch(c)
    \/ CallFails(c) \/ CallTimesOut(c) \/ ClientRestart(c)
    \/ \E t \in Task : Execute(c, t)

Next == ServerStep \/ \E c \in Client : ClientStep(c)

Spec == Init /\ [][Next]_vars

\* The supervisor restarts a dead server, its handler threads run, and every
\* client keeps turning its loop.  Submitting, retrying and failing are free.
Fairness ==
    /\ WF_vars(LoadTasks)
    /\ \A c \in Client :
        /\ WF_vars(ServePoll(c))
        /\ WF_vars(SendPoll(c))
        /\ WF_vars(PostResult(c))
        /\ WF_vars(FinishBatch(c))
        /\ WF_vars(CallFails(c))
        /\ WF_vars(\E t \in Task : Execute(c, t))
        /\ WF_vars(\E r \in Result : CompleteTask(c, r) \/ RejectUnknownTask(c, r))

FairSpec == Spec /\ Fairness

-----------------------------------------------------------------------------
(* Properties                                                              *)

TypeOK ==
    /\ up \in BOOLEAN
    /\ tasks \in [Task -> Row]
    /\ ended \in SUBSET (Task \X Task)
    /\ journal \in [tasks : [Task -> Row], ended : SUBSET (Task \X Task)]
    /\ phase \in [Client -> {"idle", "awaiting", "batch", "executed", "posting"}]
    /\ batch \in [Client -> SUBSET Task]
    /\ held \in [Client -> Result \cup {Nothing}]
    /\ polls \in SUBSET Client /\ stale \in SUBSET Client
    /\ results \in SUBSET (Client \X Result)
    /\ granted \in [Task -> Nat] /\ ran \in [Task -> Nat]
    /\ claimed \in SUBSET Task /\ acked \in SUBSET Task /\ settled \in SUBSET Task
    /\ faults \in 0 .. MaxFaults

\* No automatic duplicate of a side effect (README.md:153-156): whatever is
\* lost, crashes or is repeated, a command is executed at most as often as a
\* person submitted or retried it (claim_tasks_for_host, load_tasks, retry_task).
NoAutomaticDuplicate == \A t \in Task : ran[t] <= granted[t]

(***************************************************************************)
(* The rights to run a command, as the queue holds them: a queued row, in  *)
(* memory or in the journal a restart would load, and the task waiting in  *)
(* its client's batch.                                                     *)
(***************************************************************************)
Queued(t) == tasks[t].status = "queued" \/ journal.tasks[t].status = "queued"
Right(b) == IF b THEN 1 ELSE 0
Rights == [t \in Task |-> Right(t \in batch[Target[t]]) + Right(Queued(t))]

Ledger == INSTANCE CommandLedger WITH Command <- Task, permits <- Rights

\* The queue implements the ledger: only submit and retry make a right to run
\* a command, execute() spends one, and no crash and restart, failed journal
\* write, late request or replayed reply ever brings one back.
ImplementsLedger == Ledger!Spec

\* What the table and the journal say is true.  A submission that was
\* acknowledged and that no poll handed out yet is queued in the journal, so a
\* crash at this moment cannot lose it; an outcome the server confirmed to the
\* client survives every crash until a person retries the command (the journal
\* says done or failed or has pruned the row); and a row says done or failed
\* only of a command that execute() really ran (submit, persist_tasks,
\* complete_task, load_tasks).
RecordsAreTrue ==
    /\ \A t \in acked \ claimed : journal.tasks[t].status = "queued"
    /\ \A t \in settled : journal.tasks[t].status \in {"done", "failed", "absent"}
    /\ \A t \in Task : \A row \in {tasks[t], journal.tasks[t]} :
            row.status \in {"done", "failed"} => ran[t] > 0

\* A queued command does not stay queued: with crashes bounded, some poll of
\* its host hands it out (or the crash of an unjournaled submit removes it).
QueuedIsHandedOut ==
    \A t \in Task : tasks[t].status = "queued" ~> tasks[t].status # "queued"
=============================================================================
