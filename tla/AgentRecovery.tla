---------------------------- MODULE AgentRecovery ----------------------------
(***************************************************************************)
(* Life cycle of one managed Codex agent: bin/mp kill, revive, switch,     *)
(* reconcile and spawn, and the loop of bin/boss-supervisor.sh that calls  *)
(* reconcile (and, for Boss, spawn).  The shared state is the agent's row  *)
(* in run/roster.json and its tmux window.  update_roster replaces the row *)
(* under a file lock, but every command reads the row, works for seconds   *)
(* to minutes on its copy and writes the copy back, so commands interleave *)
(* between any two reads, writes and tmux calls.  An agent that owns a     *)
(* task is refused by spawn while it has a window; that is one of the      *)
(* refusals `proof' stands for in SpawnTarget.                             *)
(*                                                                         *)
(* Of the row, `state' is left out (alive only in rows with retired FALSE, *)
(* so it decides nothing that retired does not) and so is resume_state     *)
(* (for Codex it is "available" exactly when a session is recorded).  Time *)
(* is abstract: a cooldown or startup deadline may be over or not whenever *)
(* it is looked at.                                                        *)
(***************************************************************************)
EXTENDS Naturals

CONSTANTS
    Op,             \* operator processes running mp: the HUD's, a shell's
    Agents,         \* the kinds of agent: "worker", or "Boss"
    RecoveryMax,    \* RECOVERY_MAX
    BootstrapMax,   \* BOOTSTRAP_MAX
    MaxCommands,    \* bound: operator commands
    MaxDeaths,      \* bound: times a provider window dies
    MaxSessions,    \* bound: provider sessions
    MaxWindows      \* bound: windows that are told apart

ASSUME BoundsAssumption ==
    /\ RecoveryMax \in Nat \ {0} /\ BootstrapMax \in 1 .. RecoveryMax
    /\ MaxCommands \in Nat /\ MaxDeaths \in Nat /\ MaxSessions \in Nat \ {0}
    /\ MaxWindows \in Nat \ {0, 1}
ASSUME ProcessAssumption == Agents \subseteq {"worker", "Boss"} /\ "sup" \notin Op

Proc == Op \cup {"sup"}

\* Session 0 is the empty session_id.  A retired row has stop_intent "deliberate".
Row == [retired  : BOOLEAN,
        recovery : {"healthy", "recovering", "cooldown", "blocked", "stopped"},
        attempts : 0 .. RecoveryMax,
        session  : 0 .. MaxSessions]
NoRow == [retired |-> FALSE, recovery |-> "healthy", attempts |-> 0, session |-> 0]

Command == {"none", "kill", "revive", "switch", "reconcile", "boss", "bootstrap"}
Label == {"idle", "decide", "fail", "done",
          "load", "mark", "check", "restore",
          "target", "previous", "window", "wait", "write", "record",
          "kill_mark", "kill_window", "kill_final",
          "switch_mark", "switch_window", "switch_restore"}

\* A process: the command it runs, its next step and its local variables.
Job == [cmd   : Command,
        pc    : Label,
        own   : Row,        \* the row kill, switch or reconcile read first
        held  : Row,        \* revive: its snapshot of the row
        prev  : Row,        \* spawn: `previous'
        fresh : BOOLEAN,    \* spawn: without resume_session
        made  : BOOLEAN,    \* spawn: target_exists was false
        got   : 0 .. MaxSessions]   \* spawn: the session it will record
NoJob == [cmd |-> "none", pc |-> "idle", own |-> NoRow, held |-> NoRow,
          prev |-> NoRow, fresh |-> FALSE, made |-> FALSE, got |-> 0]

VARIABLES
    agent,      \* which kind of agent this is; never changes
    rec,        \* the agent's row in run/roster.json
    windows,    \* tmux windows with the agent's name
    starting,   \* the status file says "starting"
    minted,     \* provider sessions created so far
    job,        \* what each process is doing
    stopAsked,  \* history: a kill was completed and no start was asked since
    stopAlone,  \* history: it recorded the stop while no other command ran
    tries,      \* history: supervisor launches since a success or a command
    commands,   \* bound counter
    deaths      \* bound counter

history == <<stopAsked, stopAlone, tries>>
bounds  == <<commands, deaths, agent>>
vars    == <<rec, windows, starting, minted, job, history, bounds>>

\* The supervisor also bootstraps the Boss.
IsBoss == agent = "Boss"

TypeOK ==
    /\ agent \in Agents
    /\ rec \in Row /\ windows \in 0 .. MaxWindows /\ starting \in BOOLEAN
    /\ minted \in 1 .. MaxSessions
    /\ job \in [Proc -> Job]
    /\ stopAsked \in BOOLEAN /\ stopAlone \in BOOLEAN /\ tries \in Nat
    /\ commands \in 0 .. MaxCommands /\ deaths \in 0 .. MaxDeaths

\* tmux looks a window up by its name and finds it only while the name is
\* unique: window_exists, kill-window and set-option fail for a shared name.
Found == windows = 1

At(p, label) == job[p].pc = label
Become(p, j) == job' = [job EXCEPT ![p] = j]
Goto(p, label) ==
    Become(p, IF label = "idle" THEN NoJob ELSE [job[p] EXCEPT !.pc = label])

\* Where the command that called revive or spawn continues: when that raised,
\* and when it returned.
AfterFailure(p) ==
    CASE job[p].cmd \in {"reconcile", "boss"} -> "fail"
      [] job[p].cmd = "switch"    -> "switch_restore"
      [] job[p].cmd = "bootstrap" -> "done"
      [] OTHER                    -> "idle"
AfterSuccess(p) == IF p = "sup" THEN "done" ELSE "idle"

\* A running agent, with its session captured or not.
Init ==
    /\ agent \in Agents
    /\ \E known \in {0, 1} : rec = [NoRow EXCEPT !.session = known]
    /\ starting \in BOOLEAN
    /\ windows = 1 /\ minted = 1
    /\ job = [p \in Proc |-> NoJob]
    /\ stopAsked = FALSE /\ stopAlone = FALSE
    /\ tries = 0 /\ commands = 0 /\ deaths = 0

-----------------------------------------------------------------------------
(* reconcile, run by the supervisor                                        *)

\* One turn of boss-supervisor.sh: reconcile reads the roster.  A Boss without
\* a window is first reconciled on its own.  The script leaves a turn out while
\* provider launch is paused or provider-switch.lock exists; to leave one out is
\* to take this step later.
SupStart ==
    /\ At("sup", "idle")
    /\ Become("sup", [NoJob EXCEPT
            !.cmd = IF IsBoss /\ ~Found THEN "boss" ELSE "reconcile",
            !.pc = "decide", !.own = rec])
    /\ UNCHANGED <<rec, windows, starting, minted, history, bounds>>

own == job["sup"].own

\* The row is retired, or its window is there and nothing is left to heal.
ReconcileSkip ==
    /\ At("sup", "decide")
    /\ \/ own.retired
       \/ Found /\ (own.session = 0 \/ (own.recovery = "healthy" /\ own.attempts = 0))
    /\ Goto("sup", "done")
    /\ UNCHANGED <<rec, windows, starting, minted, history, bounds>>

\* A lost window, but next_recovery_at is ahead, or a process that never
\* established a session is younger than STARTING_STALE.
ReconcileEarly ==
    /\ At("sup", "decide")
    /\ ~own.retired /\ ~Found
    /\ \/ own.recovery \in {"cooldown", "recovering"}
       \/ own.session = 0 /\ own.attempts < RecoveryMax /\ starting
    /\ Goto("sup", "done")
    /\ UNCHANGED <<rec, windows, starting, minted, history, bounds>>

\* The window is back: update_roster({**rec, alive, healthy, ...}).
ReconcileHeal ==
    /\ At("sup", "decide")
    /\ ~own.retired /\ Found /\ own.session # 0
    /\ own.recovery # "healthy" \/ own.attempts # 0
    /\ rec' = [own EXCEPT !.recovery = "healthy", !.attempts = 0]
    /\ tries' = 0
    /\ Goto("sup", "done")
    /\ UNCHANGED <<windows, starting, minted, stopAsked, stopAlone, bounds>>

\* Mutant: one attempt too many.
GiveUpLate ==
    \/ own.attempts > RecoveryMax
    \/ own.session = 0 /\ (~starting \/ own.attempts > BootstrapMax)

\* recovery_attempts_exhausted or session_missing.
GiveUp ==
    \/ own.attempts >= RecoveryMax
    \/ own.session = 0 /\ (~starting \/ own.attempts >= BootstrapMax)

\* Mutant: the agent is reported as blocked but its row is not written.
ReconcileBlockSilent ==
    /\ At("sup", "decide")
    /\ ~own.retired /\ ~Found /\ GiveUp
    /\ Goto("sup", "done")
    /\ UNCHANGED <<rec, windows, starting, minted, history, bounds>>

\* The typed blocked state.
ReconcileBlock ==
    /\ At("sup", "decide")
    /\ ~own.retired /\ ~Found /\ GiveUp
    /\ rec' = [own EXCEPT !.recovery = "blocked"]
    /\ Goto("sup", "done")
    /\ UNCHANGED <<windows, starting, minted, history, bounds>>

\* Mutant: the retired flag is not looked at.
ReconcileLaunchAny ==
    /\ At("sup", "decide")
    /\ ~Found /\ ~GiveUp
    /\ rec' = [own EXCEPT !.recovery = "recovering", !.attempts = @ + 1]
    /\ tries' = tries + 1
    /\ Become("sup", [job["sup"] EXCEPT
            !.pc = IF own.session = 0 THEN "target" ELSE "load",
            !.fresh = own.session = 0])
    /\ UNCHANGED <<windows, starting, minted, stopAsked, stopAlone, bounds>>

\* The attempt is counted first; then revive, or, for a process that never
\* established a session, a fresh spawn.
ReconcileLaunch ==
    /\ At("sup", "decide")
    /\ ~own.retired /\ ~Found /\ ~GiveUp
    /\ rec' = [own EXCEPT !.recovery = "recovering", !.attempts = @ + 1]
    /\ tries' = tries + 1
    /\ Become("sup", [job["sup"] EXCEPT
            !.pc = IF own.session = 0 THEN "target" ELSE "load",
            !.fresh = own.session = 0])
    /\ UNCHANGED <<windows, starting, minted, stopAsked, stopAlone, bounds>>

\* Mutant: the except clause forgets the attempt.
ReconcileFailUncounted ==
    /\ At("sup", "fail")
    /\ rec' = [own EXCEPT !.recovery = "cooldown"]
    /\ Goto("sup", "done")
    /\ UNCHANGED <<windows, starting, minted, history, bounds>>

\* The except clause around revive or spawn.
ReconcileFail ==
    /\ At("sup", "fail")
    /\ LET next  == own.attempts + 1
           limit == IF own.session = 0 THEN BootstrapMax ELSE RecoveryMax
       IN  rec' = [own EXCEPT !.attempts = next,
                       !.recovery = IF next >= limit THEN "blocked" ELSE "cooldown"]
    /\ Goto("sup", "done")
    /\ UNCHANGED <<windows, starting, minted, history, bounds>>

\* After reconcile --agent Boss the script looks at tmux again and spawns a
\* fresh Boss if there still is no window.
BossBootstrap ==
    /\ At("sup", "done")
    /\ job["sup"].cmd = "boss" /\ ~Found
    /\ Become("sup", [NoJob EXCEPT !.cmd = "bootstrap", !.pc = "target", !.fresh = TRUE])
    /\ UNCHANGED <<rec, windows, starting, minted, history, bounds>>

\* The end of a turn, or of the Boss part of it.
SupDone ==
    /\ At("sup", "done")
    /\ ~(job["sup"].cmd = "boss" /\ ~Found)
    /\ Goto("sup", "idle")
    /\ UNCHANGED <<rec, windows, starting, minted, history, bounds>>

-----------------------------------------------------------------------------
(* revive, called by an operator, by switch or by reconcile                *)

\* The checks.  `proof' stands for the board, provider, receipt and transcript
\* checks, any of which may refuse; a refusal leaves the row alone.
ReviveLoad(p) ==
    /\ At(p, "load")
    /\ \E proof \in BOOLEAN :
        IF proof /\ rec.session # 0 /\ (rec.retired \/ ~Found)
        THEN Become(p, [job[p] EXCEPT !.pc = "mark", !.held = rec])
        ELSE Goto(p, AfterFailure(p))
    /\ UNCHANGED <<rec, windows, starting, minted, history, bounds>>

ReviveMark(p) ==
    /\ At(p, "mark")
    /\ rec' = [job[p].held EXCEPT !.recovery = "recovering"]
    /\ Goto(p, "target")
    /\ UNCHANGED <<windows, starting, minted, history, bounds>>

\* After spawn returned: the window, the row's session and (`same') the
\* identity of the process must be the expected ones.
ReviveCheck(p) ==
    /\ At(p, "check")
    /\ \E same \in BOOLEAN :
        LET ok == Found /\ rec.session = job[p].held.session /\ same
        IN  /\ Goto(p, IF ok THEN AfterSuccess(p) ELSE "restore")
            /\ tries' = IF ok THEN 0 ELSE tries
    /\ UNCHANGED <<rec, windows, starting, minted, stopAsked, stopAlone, bounds>>

\* update_roster(snapshot), then the exception goes on.
ReviveRestore(p) ==
    /\ At(p, "restore")
    /\ rec' = job[p].held
    /\ Goto(p, AfterFailure(p))
    /\ UNCHANGED <<windows, starting, minted, history, bounds>>

-----------------------------------------------------------------------------
(* spawn                                                                   *)

\* target_exists is read, then come the owner, routing and provider checks
\* (`proof'), any of which may refuse.
SpawnTarget(p) ==
    /\ At(p, "target")
    /\ \E proof \in BOOLEAN :
        IF proof THEN Become(p, [job[p] EXCEPT !.pc = "previous", !.made = ~Found])
        ELSE Goto(p, IF job[p].fresh THEN AfterFailure(p) ELSE "restore")
    /\ UNCHANGED <<rec, windows, starting, minted, history, bounds>>

SpawnPrevious(p) ==
    /\ At(p, "previous")
    /\ Become(p, [job[p] EXCEPT !.pc = "window", !.prev = rec])
    /\ UNCHANGED <<rec, windows, starting, minted, history, bounds>>

\* tmux new-window unless target_exists was true.  tmux does not refuse a
\* second window of the same name, but then set-option fails and spawn raises.
SpawnWindow(p) ==
    /\ At(p, "window")
    /\ windows' = IF job[p].made /\ windows < MaxWindows THEN windows + 1 ELSE windows
    /\ Goto(p, IF ~job[p].made THEN "write"
               ELSE IF windows = 0 THEN "wait"
               ELSE IF job[p].fresh THEN AfterFailure(p) ELSE "restore")
    /\ UNCHANGED <<rec, starting, minted, history, bounds>>

\* A fresh process either shows a new session or is recorded without one.
SpawnCapture(p) ==
    /\ At(p, "wait") /\ job[p].fresh
    /\ \/ /\ minted < MaxSessions
          /\ minted' = minted + 1
          /\ Become(p, [job[p] EXCEPT !.pc = "write", !.got = minted + 1])
       \/ /\ Goto(p, "write")
          /\ UNCHANGED minted
    /\ UNCHANGED <<rec, windows, starting, history, bounds>>

\* A resumed process must show its composer and keep its window; if not, the
\* window is killed and spawn raises.
SpawnAwait(p) ==
    /\ At(p, "wait") /\ ~job[p].fresh
    /\ \/ /\ Found
          /\ Goto(p, "write")
          /\ UNCHANGED windows
       \/ /\ windows' = IF Found THEN 0 ELSE windows
          /\ Goto(p, "restore")
    /\ UNCHANGED <<rec, starting, minted, history, bounds>>

\* Mutant: a resumed session is not written to the row.
SpawnedUnnamed(j) == [j.prev EXCEPT !.retired = FALSE, !.session = j.got]

\* {**previous, alive, retired False, stop_intent "", **session_identity}.
Spawned(j) ==
    CASE ~j.fresh          -> [NoRow EXCEPT !.session = j.held.session]
      [] j.fresh /\ j.made -> [j.prev EXCEPT !.retired = FALSE, !.session = j.got]
      [] OTHER             -> [j.prev EXCEPT !.retired = FALSE]

SpawnWrite(p) ==
    /\ At(p, "write")
    /\ rec' = Spawned(job[p])
    /\ starting' = TRUE
    /\ Goto(p, "record")
    /\ UNCHANGED <<windows, minted, history, bounds>>

\* The same row once more, with recording_state, when the recorder has started.
SpawnRecord(p) ==
    /\ At(p, "record")
    /\ rec' = Spawned(job[p])
    /\ Goto(p, IF job[p].fresh THEN AfterSuccess(p) ELSE "check")
    /\ tries' = IF job[p].got # 0 THEN 0 ELSE tries
    /\ UNCHANGED <<windows, starting, minted, stopAsked, stopAlone, bounds>>

-----------------------------------------------------------------------------
(* Operator commands                                                       *)

Begin(p, j) ==
    /\ At(p, "idle")
    /\ commands < MaxCommands
    /\ commands' = commands + 1
    /\ Become(p, j)
    /\ UNCHANGED <<rec, windows, starting, minted, deaths, agent>>

BeginKill(p) ==
    /\ Begin(p, [NoJob EXCEPT !.cmd = "kill", !.pc = "kill_mark", !.own = rec])
    /\ UNCHANGED history

BeginRevive(p) ==
    /\ Begin(p, [NoJob EXCEPT !.cmd = "revive", !.pc = "load"])
    /\ stopAsked' = FALSE /\ stopAlone' = FALSE /\ tries' = 0

\* mp switch --model within the same backend.
BeginSwitch(p) ==
    /\ Begin(p, [NoJob EXCEPT !.cmd = "switch", !.pc = "switch_mark", !.own = rec])
    /\ stopAsked' = FALSE /\ stopAlone' = FALSE /\ tries' = 0

Retired(row) == [row EXCEPT !.retired = TRUE, !.recovery = "stopped"]

\* The deliberate stop is recorded before tmux is touched.
KillMark(p) ==
    /\ At(p, "kill_mark")
    /\ rec' = Retired(job[p].own)
    /\ stopAlone' = (stopAlone \/ \A q \in Proc \ {p} : At(q, "idle"))
    /\ Goto(p, "kill_window")
    /\ UNCHANGED <<windows, starting, minted, stopAsked, tries, bounds>>

\* tmux kill-window, of kill and of switch.
KillWindow(p) ==
    /\ job[p].pc \in {"kill_window", "switch_window"}
    /\ windows' = IF Found THEN 0 ELSE windows
    /\ Goto(p, IF At(p, "kill_window") THEN "kill_final" ELSE "load")
    /\ UNCHANGED <<rec, starting, minted, history, bounds>>

KillFinal(p) ==
    /\ At(p, "kill_final")
    /\ rec' = Retired(job[p].own)
    /\ stopAsked' = TRUE
    /\ Goto(p, "idle")
    /\ UNCHANGED <<windows, starting, minted, stopAlone, tries, bounds>>

\* A model switch marks the row, kills the window and revives; when that
\* fails it puts the row it read back.
SwitchMark(p) ==
    /\ At(p, "switch_mark")
    /\ rec' = [job[p].own EXCEPT !.retired = FALSE]
    /\ Goto(p, "switch_window")
    /\ UNCHANGED <<windows, starting, minted, history, bounds>>

SwitchRestore(p) ==
    /\ At(p, "switch_restore")
    /\ rec' = job[p].own
    /\ Goto(p, "idle")
    /\ UNCHANGED <<windows, starting, minted, history, bounds>>

\* The HUD gives mp 90 seconds and then kills it, wherever it is.
Timeout(p) ==
    /\ ~At(p, "idle")
    /\ Goto(p, "idle")
    /\ UNCHANGED <<rec, windows, starting, minted, history, bounds>>

-----------------------------------------------------------------------------
(* Environment                                                             *)

\* A provider process exits and tmux closes its window.
WindowDies ==
    /\ windows > 0 /\ deaths < MaxDeaths
    /\ windows' = windows - 1
    /\ deaths' = deaths + 1
    /\ UNCHANGED <<rec, starting, minted, job, history, commands, agent>>

\* live_roster of the queue client: a heartbeat that sees the window of an
\* agent that is not retired ends "starting".
Heartbeat ==
    /\ Found /\ ~rec.retired /\ starting
    /\ starting' = FALSE
    /\ UNCHANGED <<rec, windows, minted, job, history, bounds>>

Reconcile ==
    \/ ReconcileSkip \/ ReconcileHeal \/ ReconcileBlock \/ ReconcileLaunch
    \/ ReconcileFail \/ BossBootstrap \/ SupDone

Revive(p) == ReviveLoad(p) \/ ReviveMark(p) \/ ReviveCheck(p) \/ ReviveRestore(p)

Spawn(p) ==
    \/ SpawnTarget(p) \/ SpawnPrevious(p) \/ SpawnWindow(p)
    \/ SpawnCapture(p) \/ SpawnAwait(p) \/ SpawnWrite(p) \/ SpawnRecord(p)

Operate(p) ==
    \/ BeginKill(p) \/ BeginRevive(p) \/ BeginSwitch(p)
    \/ KillMark(p) \/ KillWindow(p) \/ KillFinal(p)
    \/ SwitchMark(p) \/ SwitchRestore(p) \/ Timeout(p)

Next ==
    \/ SupStart \/ Reconcile \/ ReconcileEarly
    \/ \E p \in Proc : Revive(p) \/ Spawn(p)
    \/ \E p \in Op : Operate(p)
    \/ WindowDies \/ Heartbeat

Spec == Init /\ [][Next]_vars

\* The supervisor's loop goes on by itself and is not held back for ever, by a
\* pause or a lock file that stays; a cooldown and a startup deadline pass, so a
\* turn that could act is not put off for ever.
LiveSpec ==
    /\ Spec
    /\ WF_vars(SupStart \/ Reconcile \/ ReconcileEarly \/ Revive("sup") \/ Spawn("sup"))
    /\ SF_vars(ReconcileLaunch \/ ReconcileBlock)

-----------------------------------------------------------------------------
(* Properties                                                              *)

\* A kill that recorded its stop while no other command was under way is
\* never undone by the supervisor, nor by the commands that were started
\* before it: the row stays retired until a revive or a switch is asked for.
\* True of a worker; the supervisor starts a stopped Boss (BossBootstrap).
DeliberateStopHolds == stopAsked /\ stopAlone => rec.retired

\* After such a kill nothing opens a window for the agent again.
StoppedStaysStopped ==
    [][stopAsked /\ stopAlone /\ stopAlone' => windows' <= windows]_vars

\* The supervisor launches a lost worker at most RECOVERY_MAX times before it
\* succeeds or somebody intervenes, and what it gave up it leaves alone while
\* no window appears, whichever writer restored or counted the attempts; and
\* it resumes the recorded session, which is never replaced by a fresh one nor
\* forgotten.
RecoveryIsExact ==
    [][~IsBoss =>
        /\ tries' <= RecoveryMax
        /\ rec.recovery = "blocked" /\ ~Found => rec'.recovery = "blocked"
        /\ rec.session # 0 => rec'.session = rec.session]_vars

\* A lost window of an agent nobody stopped comes back or the agent is blocked.
LostIsHandled ==
    (~Found /\ ~rec.retired)
        ~> (Found \/ rec.retired \/ rec.recovery = "blocked")
=============================================================================
