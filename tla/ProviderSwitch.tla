---------------------------- MODULE ProviderSwitch ----------------------------
(***************************************************************************)
(* The switch of agents to another provider profile.  A Windows script     *)
(* (Switch-MyPeopleProviderProfile.ps1) runs the phases of                 *)
(* bin/provider-session in the container one after the other, each with a  *)
(* timeout that ends it half-way; the phases run mp kill, mp fresh-handoff *)
(* and mp revive per agent, over the roster, the windows, a transaction    *)
(* directory and the lock file that the Boss supervisor looks at before    *)
(* its turn.  Somebody may start a second switch, a supervisor's turn may  *)
(* have begun before the lock was taken, and windows die.                  *)
(*                                                                         *)
(* All agents are Codex agents.  Credentials, models, handoff texts and    *)
(* receipts are left out: where only their check matters, `ok' stands for  *)
(* it.  Agents are taken in one order, the roster's.                       *)
(* Attempts, cooldowns and starts without a session are in AgentRecovery,  *)
(* the discovery of a session in TaskLaunch.                               *)
(***************************************************************************)
EXTENDS Naturals, Sequences, FiniteSets

CONSTANTS
    Agent,
    Profile,
    FirstProfile,   \* the global profile at the beginning
    Own,            \* the agents that have it as their own at the beginning
    Switch,         \* runs of the script; each is a transaction
    Free,           \* no transaction: the lock file does not exist
    All,            \* a switch without -Agent
    Inherit,        \* -InheritGlobal, and an agent without a profile of its own
    Requests,       \* bound: what the scripts are started with
    MaxEvents,      \* bound: phases that end by their timeout, windows that die
                    \* and turns of the supervisor, together
    MaxWindows      \* bound: windows of one name

ASSUME NameAssumption ==
    /\ FirstProfile \in Profile /\ Inherit \notin Profile /\ Own \subseteq Agent
    /\ All \notin Agent /\ Free \notin Switch /\ "sup" \notin Switch
ASSUME RequestAssumption ==
    \A q \in Requests :
        /\ q \in [agent : Agent \cup {All}, profile : Profile \cup {Inherit}]
        /\ q.agent = All => q.profile # Inherit
ASSUME BoundAssumption ==
    MaxEvents \in Nat /\ MaxWindows \in Nat \ {0, 1}

Proc == Switch \cup {"sup"}

Bindings == [global : Profile, own : [Agent -> Profile \cup {Inherit}]]

\* `home' is session_profile; session 0 is the empty session_id.
Row == [alive : BOOLEAN, retired : BOOLEAN, profile : Profile,
        home : Profile, session : Nat]
FirstRow == [alive |-> TRUE, retired |-> FALSE, profile |-> FirstProfile,
             home |-> FirstProfile, session |-> 1]
Window == [profile : Profile, session : Nat]

\* The steps of a switch.  The script's own are read, copy, activate, bind,
\* restore and done, the others a phase's.
Spawning == {"target", "window", "row"}
Killing  == {"kill_row", "kill_window", "kill_final"}
Reviving == {"load", "mark", "found", "put_back"}
RollingBack == {"roll_read", "roll_stop", "roll_bind", "roll_save", "roll_revive", "roll_done"}
Forward == {"stop", "revive", "authorize", "verify_rows", "verify_windows", "commit"}
InPhase == {"lock", "save", "prepared", "abort", "unlock", "exit"}
           \cup Spawning \cup Killing \cup Reviving \cup RollingBack \cup Forward
Label == InPhase \cup {"read", "copy", "activate", "bind", "restore", "done",
                       "idle", "decide", "fail"}
Phase == {"none", "prepared", "stopped", "revived", "verified", "committed",
          "aborted", "rolled-back"}

VARIABLES
    host,       \* provider-bindings.json on Windows
    bindings,   \* run/provider-bindings.json in the container
    roster,     \* run/roster.json
    windows,    \* windows[a]: the processes in tmux windows of a's name
    minted,     \* minted[a]: provider sessions that a has had
    lock,       \* the transaction named in provider-switch.lock
    phase,      \* phase[s]: the phase in s's state.json
    file,       \* file[s]: what the script and prepare have written down
    job,        \* what each process is doing
    late,       \* history: the commit released the lock and was reported failed
    cut,        \* history: a phase ended where nobody else releases the lock
    alone,      \* history: no turn of the supervisor was under way at the lock
    single,     \* history: no agent had two windows at the lock
    terms,      \* bound counter
    deaths,     \* bound counter
    turns       \* bound counter

agents  == <<roster, windows, minted>>
history == <<late, cut, alone, single>>
bounds  == <<terms, deaths, turns>>
vars    == <<host, bindings, agents, lock, phase, file, job, history, bounds>>

\* The transaction directory and the script's variables.
File == [asked  : Requests,
         prev   : Bindings,             \* $previousBindings
         saved  : Bindings,             \* bindings.json of the snapshot
         snap   : [Agent -> Row],       \* roster.json of the snapshot
         active : SUBSET Agent]         \* active-roster.json
Job == [pc      : Label,
        agent   : Agent \cup {All},     \* the agent mp is run for
        left    : SUBSET Agent,         \* agents the phase has still to do
        copy    : [Agent -> Row],       \* a roster read at the start
        held    : Row,                  \* the row mp read
        using   : Profile,              \* spawn: the profile it resolved
        new     : Nat,                  \* spawn: the session of its window
        made    : BOOLEAN,              \* spawn: it opened a window
        rolling : BOOLEAN]              \* the phase is rollback

FirstBindings ==
    [global |-> FirstProfile, own |-> [a \in Agent |-> IF a \in Own THEN FirstProfile ELSE Inherit]]
NoJob(label) ==
    [pc |-> label, agent |-> All, left |-> {}, copy |-> [a \in Agent |-> FirstRow],
     held |-> FirstRow, using |-> FirstProfile, new |-> 0, made |-> FALSE,
     rolling |-> FALSE]

TypeOK ==
    /\ host \in Bindings /\ bindings \in Bindings
    /\ roster \in [Agent -> Row]
    /\ windows \in [Agent -> Seq(Window)]
    /\ \A a \in Agent : Len(windows[a]) <= MaxWindows
    /\ minted \in [Agent -> Nat]
    /\ lock \in Switch \cup {Free}
    /\ phase \in [Switch -> Phase] /\ file \in [Switch -> File]
    /\ job \in [Proc -> Job]
    /\ late \in [Switch -> BOOLEAN] /\ cut \in [Switch -> BOOLEAN]
    /\ alone \in [Switch -> BOOLEAN] /\ single \in [Switch -> BOOLEAN]
    /\ terms \in Nat /\ deaths \in Nat /\ turns \in Nat
    /\ terms + deaths + turns <= MaxEvents

Init ==
    /\ host = FirstBindings /\ bindings = FirstBindings
    /\ roster = [a \in Agent |-> FirstRow]
    /\ windows = [a \in Agent |-> <<[profile |-> FirstProfile, session |-> 1]>>]
    /\ minted = [a \in Agent |-> 1]
    /\ lock = Free
    /\ phase = [s \in Switch |-> "none"]
    /\ file \in [Switch -> [asked : Requests, prev : {FirstBindings}, saved : {FirstBindings},
                            snap : {[a \in Agent |-> FirstRow]}, active : {{}}]]
    /\ job = [p \in Proc |-> NoJob(IF p = "sup" THEN "idle" ELSE "read")]
    /\ late = [s \in Switch |-> FALSE] /\ cut = [s \in Switch |-> FALSE]
    /\ alone = [s \in Switch |-> FALSE] /\ single = [s \in Switch |-> FALSE]
    /\ terms = 0 /\ deaths = 0 /\ turns = 0

-----------------------------------------------------------------------------
(* Bindings, rows, processes                                               *)

\* Mutant: an agent's own binding is taken as it stands.
EffectiveOwn(b, a) == b.own[a]

\* resolve_profile: an agent's own profile, else the global one.
Effective(b, a) == IF b.own[a] # Inherit THEN b.own[a] ELSE b.global

\* What the script makes of the bindings it read.
Rebound(b, q) ==
    IF q.agent # All THEN [b EXCEPT !.own[q.agent] = q.profile]
    ELSE [b EXCEPT !.global = q.profile]

\* targetProfiles in state.json: the target for the agent that was named,
\* else what each agent has of its own or the target.
Target(s, a) ==
    LET q == file[s].asked
        profile == IF q.profile = Inherit THEN file[s].prev.global ELSE q.profile
    IN  IF q.agent = All /\ file[s].saved.own[a] # Inherit THEN file[s].saved.own[a] ELSE profile

\* tmux finds a window by its name only while the name is unique.
Found(a) == Len(windows[a]) = 1

At(p, label) == job[p].pc = label
Goto(p, label) == job' = [job EXCEPT ![p].pc = label]

\* The roster's order, in which revival_order leaves all but Boss and Nightwatch.
FirstOf(left) == CHOOSE a \in left : TRUE

\* The phase, or the supervisor's turn, goes on with another agent.
GoOn(p, label, left) ==
    job' = [job EXCEPT ![p] = [NoJob(label) EXCEPT !.left = left, !.copy = job[p].copy,
                                                   !.rolling = job[p].rolling]]
GoTo(p, label) == GoOn(p, label, job[p].left)

\* Where a process goes on when mp ended well or failed for its agent.
Handled(p) ==
    GoOn(p, IF p = "sup" THEN "decide" ELSE IF job[p].rolling THEN "roll_revive" ELSE "revive",
         job[p].left \ {job[p].agent})
Failed(p) == IF p = "sup" THEN "fail" ELSE IF job[p].rolling THEN "unlock" ELSE "restore"

\* spawn with a session to resume, not with an authorized handoff.
Resumes(p) == p = "sup" \/ job[p].rolling

MayHappen == terms + deaths + turns < MaxEvents

\* A step that only looks, and one that replaces a row (update_roster).
Look(p, label) ==
    /\ Goto(p, label)
    /\ UNCHANGED <<host, bindings, agents, lock, phase, file, history, bounds>>
PutRow(p, new) ==
    /\ roster' = [roster EXCEPT ![job[p].agent] = new]
    /\ UNCHANGED <<host, bindings, windows, minted, lock, phase, file, history, bounds>>

WritePhase(s, label, to, next) ==
    /\ At(s, label)
    /\ phase' = [phase EXCEPT ![s] = to]
    /\ GoOn(s, next, {})
    /\ UNCHANGED <<host, bindings, agents, lock, file, history, bounds>>

-----------------------------------------------------------------------------
(* The script, and provider-session prepare                                *)

Read(s) ==
    /\ At(s, "read")
    /\ file' = [file EXCEPT ![s].prev = host]
    /\ Goto(s, "lock")
    /\ UNCHANGED <<host, bindings, agents, lock, phase, history, bounds>>

\* acquire_lock with O_EXCL; a lock that exists ends the switch.
Lock(s) ==
    /\ At(s, "lock")
    /\ IF lock = Free THEN lock' = s /\ Goto(s, "save") ELSE UNCHANGED lock /\ Goto(s, "done")
    /\ alone' = [alone EXCEPT ![s] = At("sup", "idle")]
    /\ single' = [single EXCEPT ![s] = \A a \in Agent : Len(windows[a]) <= 1]
    /\ UNCHANGED <<host, bindings, agents, phase, file, late, cut, bounds>>

Selected(s) ==
    {a \in Agent : /\ file[s].asked.agent \in {All, a}
                   /\ roster[a].alive /\ ~ roster[a].retired}

\* The rest of command_prepare.  A named agent that is not active, and any
\* other exception (~ ok), release the lock again.
Save(s) ==
    /\ At(s, "save")
    /\ \E ok \in BOOLEAN :
        IF ok /\ (file[s].asked.agent # All => Selected(s) # {})
        THEN /\ file' = [file EXCEPT ![s].saved = bindings, ![s].snap = roster,
                                     ![s].active = Selected(s)]
             /\ phase' = [phase EXCEPT ![s] = "prepared"]
             /\ Goto(s, "prepared") /\ UNCHANGED lock
        ELSE lock' = Free /\ Goto(s, "done") /\ UNCHANGED <<file, phase>>
    /\ UNCHANGED <<host, bindings, agents, history, bounds>>

Prepared(s) == At(s, "prepared") /\ Look(s, "copy")

\* The checks of the profiles and the copy of the handoff.
Copy(s) ==
    /\ At(s, "copy")
    /\ \E ok \in BOOLEAN : GoOn(s, IF ok THEN "stop" ELSE "abort", IF ok THEN file[s].active ELSE {})
    /\ UNCHANGED <<host, bindings, agents, lock, phase, file, history, bounds>>

\* The target profiles are installed in the container and tried.
Activate(s) == At(s, "activate") /\ \E ok \in BOOLEAN : Look(s, IF ok THEN "bind" ELSE "restore")

\* Set-MyPeopleProviderBindings writes the host's file and copies it into the
\* container; docker may fail before or after the copy.
Bind(s) ==
    LET new == Rebound(file[s].prev, file[s].asked) IN
    /\ At(s, "bind")
    /\ host' = new
    /\ \/ bindings' = new /\ GoOn(s, "revive", file[s].active)
       \/ bindings' \in {bindings, new} /\ GoTo(s, "restore")
    /\ UNCHANGED <<agents, lock, phase, file, history, bounds>>

\* The catch clause after the stop: the same with the bindings read first,
\* whether it fails or not, and then the rollback.
Restore(s) ==
    /\ At(s, "restore")
    /\ host' = file[s].prev
    /\ bindings' \in {bindings, file[s].prev}
    /\ job' = [job EXCEPT ![s] = [NoJob("roll_read") EXCEPT !.rolling = TRUE]]
    /\ UNCHANGED <<agents, lock, phase, file, history, bounds>>

-----------------------------------------------------------------------------
(* provider-session stop: mp kill for each agent                           *)

Stop(s) ==
    /\ At(s, "stop") \/ At(s, "roll_stop")
    /\ job[s].left # {}
    /\ job' = [job EXCEPT ![s].pc = "kill_row", ![s].agent = FirstOf(job[s].left),
                          ![s].left = @ \ {FirstOf(@)}]
    /\ UNCHANGED <<host, bindings, agents, lock, phase, file, history, bounds>>

KillRow(s) ==
    LET stopping == [roster[job[s].agent] EXCEPT !.retired = TRUE, !.alive = FALSE] IN
    /\ At(s, "kill_row")
    /\ PutRow(s, stopping)
    /\ job' = [job EXCEPT ![s].pc = "kill_window", ![s].held = stopping]

KillWindow(s) ==
    /\ At(s, "kill_window")
    /\ windows' = [windows EXCEPT ![job[s].agent] = IF Len(@) = 1 THEN <<>> ELSE @]
    /\ Goto(s, "kill_final")
    /\ UNCHANGED <<host, bindings, roster, minted, lock, phase, file, history, bounds>>

KillFinal(s) ==
    /\ At(s, "kill_final")
    /\ PutRow(s, job[s].held)
    /\ GoTo(s, IF job[s].rolling THEN "roll_stop" ELSE "stop")

Stopped(s) == job[s].left = {} /\ WritePhase(s, "stop", "stopped", "activate")

-----------------------------------------------------------------------------
(* provider-session revive: mp fresh-handoff for each agent, Boss first    *)

Revive(s) ==
    /\ At(s, "revive") /\ phase[s] = "stopped" /\ job[s].left # {}
    /\ job' = [job EXCEPT ![s].pc = "authorize", ![s].agent = FirstOf(job[s].left)]
    /\ UNCHANGED <<host, bindings, agents, lock, phase, file, history, bounds>>

\* validate_fresh_handoff, and the profile that is bound is the target.
Authorize(s) ==
    LET a == job[s].agent IN
    /\ At(s, "authorize")
    /\ \E ok \in BOOLEAN :
        Look(s, IF ok /\ lock = s /\ phase[s] = "stopped" /\ Effective(bindings, a) = Target(s, a)
                THEN "target" ELSE "restore")

Revived(s) == job[s].left = {} /\ WritePhase(s, "revive", "revived", "verify_rows")

-----------------------------------------------------------------------------
(* spawn, called by fresh-handoff and revive                               *)

\* The profile and target_exists are read, and the row that was there; a
\* window that exists is taken over, unless (~ ok) the agent owns a task.
SpawnTarget(p) ==
    LET a == job[p].agent IN
    /\ At(p, "target")
    /\ \E ok \in BOOLEAN :
        IF ok
        THEN job' = [job EXCEPT ![p].pc = IF Found(a) THEN "row" ELSE "window",
                                ![p].held = IF Resumes(p) THEN @ ELSE roster[a],
                                ![p].using = Effective(bindings, a)]
        ELSE Goto(p, IF Resumes(p) THEN "put_back" ELSE Failed(p))
    /\ UNCHANGED <<host, bindings, agents, lock, phase, file, history, bounds>>

\* A second window of the name is opened all the same; then set-option fails.
SpawnWindow(p) ==
    LET a == job[p].agent
        n == IF Resumes(p) THEN job[p].held.session ELSE minted[a] + 1
    IN
    /\ At(p, "window")
    /\ windows' = [windows EXCEPT ![a] =
          IF Len(@) < MaxWindows THEN Append(@, [profile |-> job[p].using, session |-> n]) ELSE @]
    /\ minted' = [minted EXCEPT ![a] = IF Resumes(p) THEN @ ELSE n]
    /\ IF windows[a] = <<>>
       THEN job' = [job EXCEPT ![p].pc = "row", ![p].made = TRUE, ![p].new = n]
       ELSE Goto(p, IF Resumes(p) THEN "put_back" ELSE Failed(p))
    /\ UNCHANGED <<host, bindings, roster, lock, phase, file, history, bounds>>

\* The fresh session is discovered, or not; in a window that was taken over
\* the agent keeps the session it had.
SpawnFresh(p) ==
    LET held == job[p].held
        got  == IF job[p].made THEN {0, job[p].new} ELSE {held.session}
    IN
    /\ At(p, "row") /\ ~ Resumes(p)
    /\ \E n \in got :
        PutRow(p, [alive |-> TRUE, retired |-> FALSE, profile |-> job[p].using, session |-> n,
                   home |-> IF job[p].made THEN job[p].using ELSE held.home])
    /\ Handled(p)

\* A resumed process shows its composer and is recorded, or is killed.
SpawnResumed(p) ==
    LET a == job[p].agent IN
    /\ At(p, "row") /\ Resumes(p)
    /\ \/ /\ job[p].made => Found(a)
          /\ PutRow(p, [alive |-> TRUE, retired |-> FALSE, profile |-> job[p].using,
                        home |-> job[p].using, session |-> job[p].held.session])
          /\ Goto(p, "found")
       \/ /\ job[p].made
          /\ windows' = [windows EXCEPT ![a] = IF Len(@) = 1 THEN <<>> ELSE @]
          /\ Goto(p, "put_back")
          /\ UNCHANGED <<host, bindings, roster, minted, lock, phase, file, history, bounds>>

-----------------------------------------------------------------------------
(* mp revive, called by rollback and by the supervisor's reconcile         *)

\* An agent that is there, one without a session and one whose session belongs
\* to another profile than the one bound are refused.
ReviveLoad(p) ==
    LET a == job[p].agent IN
    /\ At(p, "load")
    /\ \E ok \in BOOLEAN :
        IF /\ ok /\ roster[a].session # 0 /\ roster[a].home = Effective(bindings, a)
           /\ ~ (Found(a) /\ (roster[a].alive \/ ~ roster[a].retired))
        THEN job' = [job EXCEPT ![p].pc = "mark", ![p].held = roster[a]]
        ELSE Goto(p, Failed(p))
    /\ UNCHANGED <<host, bindings, agents, lock, phase, file, history, bounds>>

ReviveMark(p) ==
    /\ At(p, "mark")
    /\ PutRow(p, [job[p].held EXCEPT !.alive = FALSE])
    /\ Goto(p, "target")

\* After spawn: the window is there, the row names the session, and the
\* process is of the row's profile (and ok).
ReviveFound(p) ==
    LET a == job[p].agent IN
    /\ At(p, "found")
    /\ \/ /\ Found(a) /\ roster[a].session = job[p].held.session
          /\ windows[a][1].profile = roster[a].profile
          /\ Handled(p)
       \/ Goto(p, "put_back")
    /\ UNCHANGED <<host, bindings, agents, lock, phase, file, history, bounds>>

\* update_roster(snapshot), and the exception goes on.
ReviveFails(p) ==
    /\ At(p, "put_back")
    /\ PutRow(p, job[p].held)
    /\ Goto(p, Failed(p))

-----------------------------------------------------------------------------
(* provider-session verify, commit, abort                                  *)

\* Mutant: an empty session counts as another one than the snapshot's.
VerifyRowsBlank(s) ==
    /\ At(s, "verify_rows")
    /\ \E ok \in BOOLEAN :
        Look(s, IF ok /\ \A a \in file[s].active :
                    /\ roster[a].alive
                    /\ roster[a].profile = Effective(bindings, a)
                    /\ roster[a].home = roster[a].profile
                    /\ roster[a].session # file[s].snap[a].session
                THEN "verify_windows" ELSE "restore")

\* verify_roles reads the roster once: each agent is alive with the profile
\* that is bound and a session of it that is not the snapshot's ...
VerifyRows(s) ==
    /\ At(s, "verify_rows")
    /\ \E ok \in BOOLEAN :
        Look(s, IF ok /\ \A a \in file[s].active :
                    /\ roster[a].alive /\ roster[a].session # 0
                    /\ roster[a].profile = Effective(bindings, a)
                    /\ roster[a].home = roster[a].profile
                    /\ roster[a].session # file[s].snap[a].session
                THEN "verify_windows" ELSE "restore")

\* ... and has a window; then the phase is written.
VerifyWindows(s) ==
    IF \A a \in file[s].active : Found(a)
    THEN WritePhase(s, "verify_windows", "verified", "commit")
    ELSE At(s, "verify_windows") /\ Look(s, "restore")

Commit(s) == WritePhase(s, "commit", "committed", "unlock")
Abort(s)  == WritePhase(s, "abort", "aborted", "unlock")

\* release_lock.
Unlock(s) ==
    /\ At(s, "unlock")
    /\ lock' = IF lock = s THEN Free ELSE lock
    /\ GoTo(s, "exit")
    /\ UNCHANGED <<host, bindings, agents, phase, file, history, bounds>>

Exit(s) ==
    /\ At(s, "exit")
    /\ job' = [job EXCEPT ![s] = NoJob("done")]
    /\ UNCHANGED <<host, bindings, agents, lock, phase, file, history, bounds>>

-----------------------------------------------------------------------------
(* provider-session rollback                                               *)

RollRead(s) ==
    /\ At(s, "roll_read")
    /\ job' = [job EXCEPT ![s].pc = "roll_stop", ![s].copy = roster, ![s].left = file[s].active]
    /\ UNCHANGED <<host, bindings, agents, lock, phase, file, history, bounds>>

RollStopped(s) ==
    /\ At(s, "roll_stop") /\ job[s].left = {}
    /\ Goto(s, "roll_bind")
    /\ UNCHANGED <<host, bindings, agents, lock, phase, file, history, bounds>>

RollBind(s) ==
    /\ At(s, "roll_bind")
    /\ bindings' = file[s].saved
    /\ Goto(s, "roll_save")
    /\ UNCHANGED <<host, agents, lock, phase, file, history, bounds>>

\* Mutant: the rows stay as the switch left them.
RollSaveNot(s) ==
    /\ At(s, "roll_save")
    /\ GoOn(s, "roll_revive", file[s].active)
    /\ UNCHANGED <<host, bindings, agents, lock, phase, file, history, bounds>>

\* save_roster writes the whole file: the snapshot's rows for the agents of the
\* switch, and for the others what was read before the stops.
RollSave(s) ==
    /\ At(s, "roll_save")
    /\ roster' = [a \in Agent |-> IF a \in file[s].active THEN file[s].snap[a] ELSE job[s].copy[a]]
    /\ job' = [job EXCEPT ![s] = [NoJob("roll_revive") EXCEPT !.left = file[s].active,
                                                              !.rolling = TRUE]]
    /\ UNCHANGED <<host, bindings, windows, minted, lock, phase, file, history, bounds>>

RollRevive(s) ==
    /\ At(s, "roll_revive") /\ job[s].left # {}
    /\ job' = [job EXCEPT ![s].pc = "load", ![s].agent = FirstOf(job[s].left)]
    /\ UNCHANGED <<host, bindings, agents, lock, phase, file, history, bounds>>

\* All agents are back.
RollDone(s) == job[s].left = {} /\ WritePhase(s, "roll_revive", "rolled-back", "unlock")

-----------------------------------------------------------------------------
(* A phase is ended: by `timeout --signal=TERM', or docker fails to run it *)

Interrupted(s, label) ==
    /\ MayHappen /\ terms' = terms + 1
    /\ job' = [job EXCEPT ![s] = [NoJob(label) EXCEPT !.rolling = label = "unlock"]]
    /\ UNCHANGED <<host, bindings, agents, phase, file, deaths, turns>>

\* The `except' of command_prepare.
TermPrepare(s) ==
    /\ At(s, "save")
    /\ lock' = Free /\ Interrupted(s, "done") /\ UNCHANGED history

\* Nobody else will release the lock if it is still held: prepare had it and
\* was not believed, or abort or rollback did not get to it.
TermLast(s) ==
    /\ \/ job[s].pc \in {"lock", "prepared", "abort", "roll_read"}
       \/ job[s].pc \in {"unlock", "exit"} /\ (job[s].rolling \/ phase[s] = "aborted")
    /\ cut' = [cut EXCEPT ![s] = lock = s]
    /\ Interrupted(s, "done") /\ UNCHANGED <<lock, late, alone, single>>

\* Mutant: a phase that is ended gives the lock back, as prepare does.
TermForwardFrees(s) ==
    /\ ~ job[s].rolling /\ phase[s] # "aborted"
    /\ job[s].pc \in InPhase \ {"lock", "save", "prepared", "abort"}
    /\ late' = [late EXCEPT ![s] = At(s, "exit")]
    /\ lock' = Free
    /\ Interrupted(s, "restore") /\ UNCHANGED <<cut, alone, single>>

\* The script goes on to the rollback, also from a commit that was complete.
TermForward(s) ==
    /\ ~ job[s].rolling /\ phase[s] # "aborted"
    /\ job[s].pc \in InPhase \ {"lock", "save", "prepared", "abort"}
    /\ late' = [late EXCEPT ![s] = At(s, "exit")]
    /\ Interrupted(s, "restore") /\ UNCHANGED <<lock, cut, alone, single>>

\* Mutant: rollback without `finally'.
TermRollbackStuck(s) ==
    /\ job[s].rolling /\ job[s].pc \in InPhase \ {"roll_read", "unlock", "exit"}
    /\ Interrupted(s, "done") /\ UNCHANGED <<lock, history>>

\* The `finally' of rollback.
TermRollback(s) ==
    /\ job[s].rolling /\ job[s].pc \in InPhase \ {"roll_read", "unlock", "exit"}
    /\ Interrupted(s, "unlock") /\ UNCHANGED <<lock, history>>

WindowDies(a) ==
    /\ MayHappen
    /\ \E i \in DOMAIN windows[a] :
        windows' = [windows EXCEPT ![a] = SubSeq(@, 1, i - 1) \o SubSeq(@, i + 1, Len(@))]
    /\ deaths' = deaths + 1
    /\ UNCHANGED <<host, bindings, roster, minted, lock, phase, file, job, history, terms, turns>>

-----------------------------------------------------------------------------
(* The supervisor: one turn of mp reconcile over the roster it read        *)

\* Mutant: the turn does not look for the lock file.
SupTurnLocked ==
    /\ At("sup", "idle")
    /\ MayHappen /\ turns' = turns + 1
    /\ job' = [job EXCEPT !["sup"] = [NoJob("decide") EXCEPT !.left = Agent, !.copy = roster]]
    /\ UNCHANGED <<host, bindings, agents, lock, phase, file, history, terms, deaths>>

SupTurn ==
    /\ At("sup", "idle") /\ lock = Free
    /\ MayHappen /\ turns' = turns + 1
    /\ job' = [job EXCEPT !["sup"] = [NoJob("decide") EXCEPT !.left = Agent, !.copy = roster]]
    /\ UNCHANGED <<host, bindings, agents, lock, phase, file, history, terms, deaths>>

\* A stopped agent is passed over, and so is one that is well, or whose next
\* attempt is not due.
SupPass ==
    LET a == FirstOf(job["sup"].left)
        own == job["sup"].copy[a]
    IN
    /\ At("sup", "decide") /\ job["sup"].left # {}
    /\ own.retired \/ own.alive \/ ~ Found(a)
    /\ GoOn("sup", "decide", job["sup"].left \ {a})
    /\ UNCHANGED <<host, bindings, agents, lock, phase, file, history, bounds>>

\* The row of an agent that is there is healed; one that is lost is blocked,
\* or launched if it has a session.
SupDecide ==
    LET a == FirstOf(job["sup"].left)
        own == job["sup"].copy[a]
    IN
    /\ At("sup", "decide") /\ job["sup"].left # {}
    /\ ~ own.retired /\ (Found(a) => own.session # 0)
    /\ roster' = [roster EXCEPT ![a] = [own EXCEPT !.alive = Found(a)]]
    /\ \/ GoOn("sup", "decide", job["sup"].left \ {a})
       \/ ~ Found(a) /\ own.session # 0
          /\ job' = [job EXCEPT !["sup"].pc = "load", !["sup"].agent = a]
    /\ UNCHANGED <<host, bindings, windows, minted, lock, phase, file, history, bounds>>

\* reconcile's own except clause.
SupFail ==
    LET a == job["sup"].agent IN
    /\ At("sup", "fail")
    /\ PutRow("sup", [job["sup"].copy[a] EXCEPT !.alive = FALSE])
    /\ Handled("sup")

SupDone ==
    /\ At("sup", "decide") /\ job["sup"].left = {}
    /\ job' = [job EXCEPT !["sup"] = NoJob("idle")]
    /\ UNCHANGED <<host, bindings, agents, lock, phase, file, history, bounds>>

-----------------------------------------------------------------------------

Spawn(p) ==
    SpawnTarget(p) \/ SpawnWindow(p) \/ SpawnFresh(p) \/ SpawnResumed(p)
MpRevive(p) ==
    ReviveLoad(p) \/ ReviveMark(p) \/ Spawn(p) \/ ReviveFound(p) \/ ReviveFails(p)

Run(s) ==
    \/ Read(s) \/ Lock(s) \/ Save(s) \/ Prepared(s) \/ Copy(s)
    \/ Stop(s) \/ KillRow(s) \/ KillWindow(s) \/ KillFinal(s) \/ Stopped(s)
    \/ Activate(s) \/ Bind(s)
    \/ Revive(s) \/ Authorize(s) \/ MpRevive(s) \/ Revived(s)
    \/ VerifyRows(s) \/ VerifyWindows(s) \/ Commit(s) \/ Abort(s) \/ Unlock(s) \/ Exit(s)
    \/ Restore(s) \/ RollRead(s) \/ RollStopped(s) \/ RollBind(s) \/ RollSave(s)
    \/ RollRevive(s) \/ RollDone(s)

Term(s) == TermPrepare(s) \/ TermLast(s) \/ TermForward(s) \/ TermRollback(s)

Supervise ==
    \/ SupTurn \/ SupPass \/ SupDecide
    \/ MpRevive("sup") \/ SupFail \/ SupDone

Next ==
    \/ \E s \in Switch : Run(s) \/ Term(s)
    \/ Supervise
    \/ \E a \in Agent : WindowDies(a)

Spec == Init /\ [][Next]_vars

\* A script and what it started go on, and so does a turn of the supervisor.
LiveSpec == Spec /\ (\A s \in Switch : WF_vars(Run(s))) /\ WF_vars(Supervise)

-----------------------------------------------------------------------------
(* Properties                                                              *)

\* From the snapshot to the last step of its commit, abort or rollback a
\* transaction has the lock, so that no turn of the supervisor and no other
\* switch begins meanwhile.  The one exception is a rollback because of a
\* commit that had completed.
WorksUnderLock ==
    \A s \in Switch :
        ~ late[s] /\ job[s].pc \notin {"read", "lock", "exit", "done"} => lock = s

\* When a transaction counts as verified, every agent it stopped runs, in the
\* one window tmux finds, a new session of the target profile, and its row
\* names that session; when it counts as rolled back, the container's bindings
\* and the agents' rows are the former ones, with the profile that the session
\* belongs to, and whatever tmux finds of an agent is that session under that
\* profile.  This needs that no turn of the supervisor was under way when the
\* lock was taken and none had left a second window: nobody closes two.
SwitchIsWhole ==
    [][\A s \in Switch :
         phase'[s] # phase[s] /\ lock = s /\ alone[s] /\ single[s] /\ (\A o \in Switch : ~ late[o]) =>
         /\ phase'[s] = "verified" => \A a \in file[s].active :
              /\ Found(a) /\ windows[a][1].profile = Target(s, a)
              /\ roster[a].session = windows[a][1].session
              /\ roster[a].session # file[s].snap[a].session
         /\ phase'[s] = "rolled-back" =>
              /\ bindings = file[s].saved
              /\ \A a \in file[s].active :
                   LET was == file[s].snap[a] IN
                   /\ roster[a] = [was EXCEPT !.profile = was.home]
                   /\ Found(a) => windows[a][1] = [profile |-> was.home, session |-> was.session]]_vars

\* A switch that has the lock gives it back, unless it is cut off where nobody
\* else does; and if no phase was ended from outside and no turn of the
\* supervisor was under way, it leaves no agent stopped, whichever of its steps
\* failed.
SwitchEnds ==
    \A s \in Switch :
        lock = s ~> \/ cut[s]
                    \/ lock = Free /\ (terms = 0 /\ alone[s] => \A a \in Agent : ~ roster[a].retired)
===============================================================================
