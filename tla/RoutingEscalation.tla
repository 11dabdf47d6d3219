-------------------------- MODULE RoutingEscalation --------------------------
(***************************************************************************)
(* Lossless escalation of one worker to the next model: mp fail,           *)
(* mp escalate and execute_routing_escalation (bin/mp) over the request    *)
(* and transaction records of bin/routing_escalation.py and the lock file  *)
(* of bin/provider_transaction.py, beside the supervisor that revives lost *)
(* windows.                                                                *)
(*                                                                         *)
(* Several mp processes may execute escalations: the queue client runs     *)
(* them and kills them after 120 seconds, and anybody may run mp escalate. *)
(* They and the supervisor's reconcile interleave between any two accesses *)
(* to the roster, to tmux and to a record.  A route is the position of a   *)
(* model in the escalation order and stands for the model with its routing *)
(* receipt.  Cooldowns and the limit on attempts are in AgentRecovery.     *)
(***************************************************************************)
EXTENDS Naturals, Sequences, FiniteSets

CONSTANTS
    Exec,           \* processes that run mp escalate
    Req,            \* request ids
    NoReq,          \* no request: a free lock, an idle process
    Supervised,     \* whether the Boss supervisor runs beside the executors
    MaxRoute,       \* the last route the policy allows
    MaxCrashes,     \* bound: executors killed half-way
    MaxDeaths,      \* bound: times a window of the worker dies
    MaxWindows      \* bound: windows of the worker's name

ASSUME RequestAssumption == NoReq \notin Req
ASSUME ProcessAssumption == Supervised \in BOOLEAN /\ "sup" \notin Exec
ASSUME BoundAssumption ==
    /\ MaxRoute \in Nat \ {0} /\ MaxCrashes \in Nat /\ MaxDeaths \in Nat
    /\ MaxWindows \in Nat \ {0, 1}

Proc == Exec \cup {"sup"}
Route == 0 .. MaxRoute

Terminal == {"committed", "rolled_back", "recovery_required"}
RequestState == {"none", "prepared", "queued", "processing"} \cup Terminal
Forward == {"prepared", "stopped", "resuming", "verifying"}
Phase == {"none", "rolling_back"} \cup Forward \cup Terminal

RequestTransitions ==
    {<<"prepared", "queued">>, <<"prepared", "processing">>, <<"queued", "processing">>}
    \cup ({"processing"} \X Terminal)
TransactionTransitions ==
    {<<"none", "prepared">>, <<"prepared", "stopped">>, <<"stopped", "resuming">>,
     <<"resuming", "verifying">>, <<"verifying", "committed">>,
     <<"rolling_back", "rolled_back">>, <<"rolling_back", "recovery_required">>}
    \cup (Forward \X {"rolling_back"})

\* The steps of execute_routing_escalation; the critical section is between
\* the lock and its release.  The steps of spawn are the supervisor's too.
Spawning == {"target", "window", "row", "record"}
Critical == Spawning \cup
    {"revalidate", "stop_row", "kill", "mark_stopped", "mark_resuming",
     "mark_verifying", "verify", "send", "commit", "commit_request",
     "roll_back", "roll_row", "roll_done", "roll_request",
     "block_row", "block_done", "block_request", "release"}
Label == {"idle", "check", "prepare", "lock",
          "read", "decide", "load", "mark", "found", "restore", "fail"} \cup Critical

VARIABLES
    request,    \* request[r]: the state in r's request file
    based,      \* based[r]: the route whose receipt r names (routingSha256)
    submitted,  \* submitted[r]: the queue has a command for r
    txn,        \* txn[r]: the phase in r's transaction file
    lock,       \* the request named in provider-switch.lock
    row,        \* the worker's roster row
    windows,    \* the routes of the processes in windows of the worker's name
    sent,       \* sent[r]: continuation messages r delivered
    job,        \* what each process is doing
    worker,     \* the worker's own mp fail
    crashes,    \* bound counter
    deaths      \* bound counter

records == <<request, based, submitted, txn>>
bounds  == <<crashes, deaths>>
vars    == <<records, lock, row, windows, sent, job, worker, bounds>>

\* The state of a row stands for recovery_state too: "alive" is healthy,
\* "dead" is blocked or cooling down.
Row == [route : Route, state : {"alive", "switching", "recovering", "dead"}]
FirstRow == [route |-> 0, state |-> "alive"]
Job == [pc      : Label,
        req     : Req \cup {NoReq},
        own     : Row,          \* the row reconcile read at the start of its turn
        held    : Row,          \* `original' of an escalation, `snapshot' of revive
        rolling : BOOLEAN]      \* in rollback_routing_escalation
NoJob == [pc |-> "idle", req |-> NoReq, own |-> FirstRow, held |-> FirstRow,
          rolling |-> FALSE]
Worker == [pc : {"idle", "submit", "load", "write"}, req : Req \cup {NoReq},
           seen : RequestState]
IdleWorker == [pc |-> "idle", req |-> NoReq, seen |-> "none"]

TypeOK ==
    /\ request \in [Req -> RequestState] /\ based \in [Req -> Route]
    /\ submitted \in [Req -> BOOLEAN] /\ txn \in [Req -> Phase]
    /\ lock \in Req \cup {NoReq}
    /\ row \in Row /\ windows \in Seq(Route) /\ Len(windows) <= MaxWindows
    /\ sent \in [Req -> Nat]
    /\ job \in [Proc -> Job] /\ worker \in Worker
    /\ crashes \in 0 .. MaxCrashes /\ deaths \in 0 .. MaxDeaths

Init ==
    /\ request = [r \in Req |-> "none"] /\ based = [r \in Req |-> 0]
    /\ submitted = [r \in Req |-> FALSE] /\ txn = [r \in Req |-> "none"]
    /\ lock = NoReq
    /\ row = FirstRow /\ windows = <<0>>
    /\ sent = [r \in Req |-> 0]
    /\ job = [p \in Proc |-> NoJob] /\ worker = IdleWorker
    /\ crashes = 0 /\ deaths = 0

-----------------------------------------------------------------------------
(* Records and processes                                                   *)

\* tmux finds a window by its name only while the name is unique.
Found == Len(windows) = 1

At(p, label) == job[p].pc = label
Goto(p, label) ==
    job' = [job EXCEPT ![p] = IF label = "idle" THEN NoJob ELSE [@ EXCEPT !.pc = label]]

\* Where a process continues when spawn, verification or a record fails.
Failed(p) ==
    IF p = "sup" THEN "restore" ELSE IF job[p].rolling THEN "block_row" ELSE "roll_back"

MayBecome(r, state) == request[r] = state \/ <<request[r], state>> \in RequestTransitions
MayMark(r, phase) == txn[r] = phase \/ <<txn[r], phase>> \in TransactionTransitions

\* write_transaction_state, then the next step; a refused write raises.
Mark(e, label, phase, next, refused) ==
    LET r == job[e].req IN
    /\ At(e, label)
    /\ IF MayMark(r, phase)
       THEN txn' = [txn EXCEPT ![r] = phase] /\ Goto(e, next)
       ELSE UNCHANGED txn /\ Goto(e, refused)
    /\ UNCHANGED <<request, based, submitted, lock, row, windows, sent,
                   worker, bounds>>

\* write_request_state, likewise.
MarkRequest(e, label, state, next, refused) ==
    LET r == job[e].req IN
    /\ At(e, label)
    /\ IF MayBecome(r, state)
       THEN request' = [request EXCEPT ![r] = state] /\ Goto(e, next)
       ELSE UNCHANGED request /\ Goto(e, refused)
    /\ UNCHANGED <<based, submitted, txn, lock, row, windows, sent,
                   worker, bounds>>

\* A step that only looks.
Look(p, label) ==
    /\ Goto(p, label)
    /\ UNCHANGED <<records, lock, row, windows, sent, worker, bounds>>

\* update_roster: the whole row is replaced by what the process made of its copy.
PutRow(p, new, next) ==
    /\ row' = new
    /\ Goto(p, next)
    /\ UNCHANGED <<records, lock, windows, sent, worker, bounds>>

-----------------------------------------------------------------------------
(* mp fail, run by the worker                                              *)

FailCreate(r) ==
    /\ worker.pc = "idle" /\ row.state = "alive" /\ windows # <<>>
    /\ request[r] = "none"
    /\ request' = [request EXCEPT ![r] = "prepared"]
    /\ based' = [based EXCEPT ![r] = row.route]
    /\ worker' = [IdleWorker EXCEPT !.pc = "submit", !.req = r]
    /\ UNCHANGED <<submitted, txn, lock, row, windows, sent, job, bounds>>

FailSubmit ==
    /\ worker.pc = "submit"
    /\ \/ /\ submitted' = [submitted EXCEPT ![worker.req] = TRUE]
          /\ worker' = [worker EXCEPT !.pc = "load"]
       \/ /\ worker' = IdleWorker       \* the queue did not answer
          /\ UNCHANGED submitted
    /\ UNCHANGED <<request, based, txn, lock, row, windows, sent, job, bounds>>

\* write_request_state(..., "queued") reads the file and then replaces it.
FailLoad ==
    /\ worker.pc = "load"
    /\ worker' = IF request[worker.req] \in {"prepared", "queued"}
                 THEN [worker EXCEPT !.pc = "write", !.seen = request[worker.req]]
                 ELSE IdleWorker
    /\ UNCHANGED <<records, lock, row, windows, sent, job, bounds>>

\* Mutant: the worker's status is written where the request's state belongs.
FailWriteStatus ==
    /\ worker.pc = "write"
    /\ request' = [request EXCEPT ![worker.req] = "blocked"]
    /\ worker' = IdleWorker
    /\ UNCHANGED <<based, submitted, txn, lock, row, windows, sent, job, bounds>>

FailWrite ==
    /\ worker.pc = "write"
    /\ request' = IF worker.seen = "prepared"
                  THEN [request EXCEPT ![worker.req] = "queued"] ELSE request
    /\ worker' = IdleWorker
    /\ UNCHANGED <<based, submitted, txn, lock, row, windows, sent, job, bounds>>

-----------------------------------------------------------------------------
(* mp escalate                                                             *)

Started(r) == [NoJob EXCEPT !.pc = "check", !.req = r]

\* mp escalate --request-id: from the queue, or by hand.
Start(e, r) ==
    /\ At(e, "idle") /\ submitted[r] /\ row.state = "alive"
    /\ request[r] \in Terminal \/ MayBecome(r, "processing")
    /\ request' = [request EXCEPT ![r] = IF @ \in Terminal THEN @ ELSE "processing"]
    /\ job' = [job EXCEPT ![e] = Started(r)]
    /\ UNCHANGED <<based, submitted, txn, lock, row, windows, sent, worker, bounds>>

\* mp escalate --failure: Boss or the operator creates the request.
StartNew(e, r) ==
    /\ At(e, "idle") /\ request[r] = "none" /\ row.state = "alive"
    /\ request' = [request EXCEPT ![r] = "processing"]
    /\ based' = [based EXCEPT ![r] = row.route]
    /\ job' = [job EXCEPT ![e] = Started(r)]
    /\ UNCHANGED <<submitted, txn, lock, row, windows, sent, worker, bounds>>

\* escalation_subject, the receipts and next_route: the subject the request
\* was made for, with a higher route left.
Eligible(r) ==
    row.state = "alive" /\ row.route = based[r] /\ row.route < MaxRoute

\* A transaction that ended is only copied to its request; one that has not
\* is refused; otherwise the subject is validated (`ok' stands for the board,
\* the profile and the policy).
Check(e) ==
    LET r == job[e].req IN
    /\ At(e, "check")
    /\ \E ok \in BOOLEAN :
        job' = [job EXCEPT ![e] =
                  IF txn[r] = "none" /\ ok /\ Eligible(r) /\ request[r] = "processing"
                  THEN [@ EXCEPT !.pc = "prepare", !.held = row] ELSE NoJob]
    /\ request' = IF txn[r] \in Terminal /\ MayBecome(r, txn[r])
                  THEN [request EXCEPT ![r] = txn[r]] ELSE request
    /\ UNCHANGED <<based, submitted, txn, lock, row, windows, sent, worker, bounds>>

Prepare(e) == Mark(e, "prepare", "prepared", "lock", "idle")

\* Mutant: without O_EXCL.
LockShared(e) ==
    /\ At(e, "lock")
    /\ lock' = job[e].req /\ Goto(e, "revalidate")
    /\ UNCHANGED <<records, row, windows, sent, worker, bounds>>

\* O_CREAT | O_EXCL; a lock that exists raises before the try block.
Lock(e) ==
    /\ At(e, "lock")
    /\ IF lock = NoReq
       THEN lock' = job[e].req /\ Goto(e, "revalidate")
       ELSE UNCHANGED lock /\ Goto(e, "idle")
    /\ UNCHANGED <<records, row, windows, sent, worker, bounds>>

\* The gates once more; a refusal raises before anything was stopped.
Revalidate(e) ==
    /\ At(e, "revalidate")
    /\ \E ok \in BOOLEAN :
        Look(e, IF ok /\ Eligible(job[e].req) /\ row = job[e].held
                THEN "stop_row" ELSE "release")

\* Mutant: the rollback brings the candidate up again.
WantedForward(p) == job[p].held.route + (IF p = "sup" THEN 0 ELSE 1)

\* The route the process brings up: the next one, or the one it had.
Wanted(p) ==
    LET held == job[p].held.route
    IN  IF p = "sup" \/ job[p].rolling THEN held ELSE held + 1

\* stop_selected_worker_process: the row first, then the window.
StopRow(e) ==
    /\ At(e, "stop_row")
    /\ PutRow(e, [route |-> Wanted(e), state |-> "switching"], "kill")

\* tmux kill-window, of the stop and of the rollback.
Kill(e) ==
    /\ At(e, "kill")
    /\ windows' = IF Found THEN <<>> ELSE windows
    /\ Goto(e, IF job[e].rolling THEN "roll_row" ELSE "mark_stopped")
    /\ UNCHANGED <<records, lock, row, sent, worker, bounds>>

MarkStopped(e)   == Mark(e, "mark_stopped", "stopped", "mark_resuming", "roll_back")
MarkResuming(e)  == Mark(e, "mark_resuming", "resuming", "target", "roll_back")
MarkVerifying(e) == Mark(e, "mark_verifying", "verifying", "verify", "roll_back")

\* verify_forward_escalation and verify_restored_escalation: the row, the
\* window and (`ok') the other workers and the receipts are as expected.
Verify(e) ==
    /\ At(e, "verify")
    /\ \E ok \in BOOLEAN :
        Look(e, IF ok /\ Found /\ row = [route |-> Wanted(e), state |-> "alive"]
                THEN IF job[e].rolling THEN "roll_done" ELSE "send"
                ELSE Failed(e))

\* Mutant: a message that was delivered may be reported as failed.
SendContinuationUnsure(e) ==
    /\ At(e, "send") /\ Found
    /\ sent' = [sent EXCEPT ![job[e].req] = @ + 1]
    /\ Goto(e, "commit") \/ Goto(e, "roll_back")
    /\ UNCHANGED <<records, lock, row, windows, worker, bounds>>

SendContinuation(e) ==
    /\ At(e, "send")
    /\ \/ /\ Found
          /\ sent' = [sent EXCEPT ![job[e].req] = @ + 1]
          /\ Goto(e, "commit")
       \/ /\ Goto(e, "roll_back")
          /\ UNCHANGED sent
    /\ UNCHANGED <<records, lock, row, windows, worker, bounds>>

\* Mutant: the request is written before the transaction.
CommitRequestFirst(e) ==
    MarkRequest(e, "commit", "committed", "commit_request", "roll_back")

Commit(e) == Mark(e, "commit", "committed", "commit_request", "roll_back")
CommitRequest(e) == MarkRequest(e, "commit_request", "committed", "release", "roll_back")

-----------------------------------------------------------------------------
(* spawn with resume_session, of a worker that owns a task: called by      *)
(* execute_routing_escalation, by its rollback and by revive               *)

\* Mutant: a window that is there is taken over, as for an agent without a task.
SpawnTargetTaken(p) ==
    /\ At(p, "target")
    /\ \E ok \in BOOLEAN :
        Look(p, IF ~ok THEN Failed(p) ELSE IF Found THEN "row" ELSE "window")

\* target_exists is read; a task's owner with a window is refused (`ok'
\* stands for the TaskSpec, provider and receipt checks).
SpawnTarget(p) ==
    /\ At(p, "target")
    /\ \E ok \in BOOLEAN : Look(p, IF ok /\ ~Found THEN "window" ELSE Failed(p))

\* tmux does not refuse a second window of the name, but set-option then does.
SpawnWindow(p) ==
    /\ At(p, "window")
    /\ windows' = IF Len(windows) < MaxWindows THEN Append(windows, Wanted(p)) ELSE windows
    /\ Goto(p, IF windows = <<>> THEN "row" ELSE Failed(p))
    /\ UNCHANGED <<records, lock, row, sent, worker, bounds>>

\* A process that shows its composer is recorded, any other is killed.
SpawnRow(p) ==
    /\ At(p, "row")
    /\ \/ /\ Found
          /\ row' = [route |-> Wanted(p), state |-> "alive"]
          /\ Goto(p, "record")
          /\ UNCHANGED windows
       \/ /\ windows' = IF Found THEN <<>> ELSE windows
          /\ Goto(p, Failed(p))
          /\ UNCHANGED row
    /\ UNCHANGED <<records, lock, sent, worker, bounds>>

\* The same row once more, when the recorder has started.
SpawnRecord(p) ==
    /\ At(p, "record")
    /\ PutRow(p, [route |-> Wanted(p), state |-> "alive"],
              IF p = "sup" THEN "found"
              ELSE IF job[p].rolling THEN "verify" ELSE "mark_verifying")

-----------------------------------------------------------------------------
(* rollback_routing_escalation                                             *)

\* Mutant: selected_stopped is not yet set when the first record is refused.
RollBackNever(e) == At(e, "roll_back") /\ Look(e, "release")

RollBack(e) ==
    LET r == job[e].req IN
    /\ At(e, "roll_back")
    /\ IF MayMark(r, "rolling_back")
       THEN /\ txn' = [txn EXCEPT ![r] = "rolling_back"]
            /\ job' = [job EXCEPT ![e].pc = "kill", ![e].rolling = TRUE]
       ELSE UNCHANGED txn /\ Goto(e, "release")
    /\ UNCHANGED <<request, based, submitted, lock, row, windows, sent,
                   worker, bounds>>

RollRow(e) ==
    /\ At(e, "roll_row")
    /\ PutRow(e, [job[e].held EXCEPT !.state = "recovering"], "target")

RollDone(e)    == Mark(e, "roll_done", "rolled_back", "roll_request", "block_row")
RollRequest(e) == MarkRequest(e, "roll_request", "rolled_back", "release", "block_row")

\* The rollback failed: the worker is blocked, and so is its card if the
\* board answers (the card is not modelled).
BlockRow(e) ==
    /\ At(e, "block_row")
    /\ PutRow(e, [job[e].held EXCEPT !.state = "dead"], "block_done")

BlockDone(e) ==
    Mark(e, "block_done", "recovery_required", "block_request", "release")
BlockRequest(e) ==
    MarkRequest(e, "block_request", "recovery_required", "release", "release")

\* Mutant: the lock is released on success only.
ReleaseOnSuccess(e) ==
    /\ At(e, "release")
    /\ lock' = IF txn[job[e].req] = "committed" THEN NoReq ELSE lock
    /\ Goto(e, "idle")
    /\ UNCHANGED <<records, row, windows, sent, worker, bounds>>

\* finally: release_lock, if the file still names this transaction.
Release(e) ==
    /\ At(e, "release")
    /\ lock' = IF lock = job[e].req THEN NoReq ELSE lock
    /\ Goto(e, "idle")
    /\ UNCHANGED <<records, row, windows, sent, worker, bounds>>

-----------------------------------------------------------------------------
(* The supervisor: reconcile and revive                                    *)

\* boss-supervisor.sh skips its turn while the lock file exists ...
SupTurn ==
    /\ Supervised /\ At("sup", "idle") /\ lock = NoReq
    /\ Look("sup", "read")

\* ... and then starts mp reconcile, which reads the roster once.
SupRead ==
    /\ At("sup", "read")
    /\ job' = [job EXCEPT !["sup"].pc = "decide", !["sup"].own = row]
    /\ UNCHANGED <<records, lock, row, windows, sent, worker, bounds>>

\* A window that is there is healed if the row says otherwise; a lost one is
\* launched, whatever the row's recovery_state.
SupDecide ==
    LET own == job["sup"].own IN
    /\ At("sup", "decide")
    /\ IF Found /\ own.state = "alive"
       THEN Look("sup", "idle")
       ELSE PutRow("sup", [own EXCEPT !.state = IF Found THEN "alive" ELSE "recovering"],
                   IF Found THEN "idle" ELSE "load")

\* revive reads the row again and checks it (`ok').
SupLoad ==
    /\ At("sup", "load")
    /\ \E ok \in BOOLEAN :
        job' = [job EXCEPT !["sup"] =
                  IF ok /\ ~Found THEN [@ EXCEPT !.pc = "mark", !.held = row]
                  ELSE [@ EXCEPT !.pc = "fail"]]
    /\ UNCHANGED <<records, lock, row, windows, sent, worker, bounds>>

SupMark ==
    /\ At("sup", "mark")
    /\ PutRow("sup", [job["sup"].held EXCEPT !.state = "recovering"], "target")

\* After spawn: the window must be there and (`same') be the agent's.
SupFound ==
    /\ At("sup", "found")
    /\ \E same \in BOOLEAN : Look("sup", IF Found /\ same THEN "idle" ELSE "restore")

\* revive's update_roster(snapshot), then reconcile's own except clause.
SupRestore ==
    /\ At("sup", "restore")
    /\ PutRow("sup", job["sup"].held, "fail")

SupFail ==
    /\ At("sup", "fail")
    /\ PutRow("sup", [job["sup"].own EXCEPT !.state = "dead"], "idle")

-----------------------------------------------------------------------------

\* The queue client's 120 seconds are over, or the machine restarts: mp is
\* gone, its files stay.
Crash(e) ==
    /\ ~At(e, "idle") /\ crashes < MaxCrashes
    /\ crashes' = crashes + 1
    /\ Goto(e, "idle")
    /\ UNCHANGED <<records, lock, row, windows, sent, worker, deaths>>

WindowDies ==
    /\ deaths < MaxDeaths
    /\ \E i \in DOMAIN windows :
        windows' = SubSeq(windows, 1, i - 1) \o SubSeq(windows, i + 1, Len(windows))
    /\ deaths' = deaths + 1
    /\ UNCHANGED <<records, lock, row, sent, job, worker, crashes>>

Fail == FailSubmit \/ FailLoad \/ FailWrite

Spawn(p) == SpawnTarget(p) \/ SpawnWindow(p) \/ SpawnRow(p) \/ SpawnRecord(p)

Execute(e) ==
    \/ Check(e) \/ Prepare(e) \/ Lock(e) \/ Revalidate(e)
    \/ StopRow(e) \/ Kill(e) \/ MarkStopped(e) \/ MarkResuming(e)
    \/ Spawn(e) \/ MarkVerifying(e) \/ Verify(e)
    \/ SendContinuation(e) \/ Commit(e) \/ CommitRequest(e)
    \/ RollBack(e) \/ RollRow(e) \/ RollDone(e) \/ RollRequest(e)
    \/ BlockRow(e) \/ BlockDone(e) \/ BlockRequest(e)
    \/ Release(e)

Supervise ==
    \/ SupTurn \/ SupRead \/ SupDecide \/ SupLoad \/ SupMark
    \/ Spawn("sup") \/ SupFound \/ SupRestore \/ SupFail

Next ==
    \/ \E r \in Req : FailCreate(r)
    \/ Fail
    \/ \E e \in Exec, r \in Req : Start(e, r) \/ StartNew(e, r)
    \/ \E e \in Exec : Execute(e) \/ Crash(e)
    \/ Supervise
    \/ WindowDies

Spec == Init /\ [][Next]_vars

\* Every mp process and the supervisor's loop go on by themselves.
LiveSpec == Spec /\ (\A e \in Exec : WF_vars(Execute(e))) /\ WF_vars(Supervise)

-----------------------------------------------------------------------------
(* Properties                                                              *)

\* At most one escalation works on the worker at a time, and it holds the
\* lock, also when two processes execute the same request.
OneAtATime ==
    /\ \A e \in Exec : job[e].pc \in Critical => lock = job[e].req
    /\ Cardinality({e \in Exec : job[e].pc \in Critical}) <= 1

\* However often a request is executed, replayed or crashed, the worker gets
\* at most one continuation message for it, and none when it was rolled back.
OneContinuation ==
    \A r \in Req : sent[r] <= IF txn[r] \in {"rolled_back", "recovery_required"}
                              THEN 0 ELSE 1

\* A request file never claims an outcome its transaction does not have.
RequestMatchesTransaction ==
    \A r \in Req : request[r] \in Terminal => txn[r] = request[r]

\* So an escalation works alone under its lock, and what its files say of it
\* agrees, at every point where a process may be killed.
LockedAndRecorded == OneAtATime /\ RequestMatchesTransaction

\* When an escalation is committed, the process that tmux finds under the
\* worker's name, if one is left, is the candidate's; when it is rolled back, it
\* is the prior model's, also after a turn of the supervisor that overlapped.
\* Nobody looks at which process a window runs, so this holds until a window
\* dies by itself: of two windows the wrong one may be left.
SettledRunsItsRuntime ==
    [][\A r \in Req : txn'[r] # txn[r] /\ Found /\ deaths = 0 =>
         /\ txn'[r] = "committed" => windows = <<based[r] + 1>>
         /\ txn'[r] = "rolled_back" => windows = <<based[r]>>]_vars

\* A worker that was stopped for an escalation is brought to an outcome, and
\* the supervisor gets its turn again and again.
StoppedIsSettled ==
    /\ \A r \in Req : txn[r] = "stopped" ~> txn[r] \in Terminal
    /\ []<>(lock = NoReq)
=============================================================================
