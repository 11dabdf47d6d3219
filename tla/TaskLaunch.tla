------------------------------ MODULE TaskLaunch ------------------------------
(***************************************************************************)
(* The launch of an owner agent: `mp spawn <agent> --owner-task <card>`    *)
(* compiles the card's TaskSpec, recalls project memory into it when the   *)
(* global memory control allows, starts the provider's window, captures    *)
(* the session the provider opened and writes the roster row; the agent    *)
(* later hands the card over, may die, and is revived on the session its   *)
(* row names.  Several launches run at once, in processes of their own,    *)
(* and share four things no single lock protects: the control file, the    *)
(* TaskSpec file of a card, the receipts of the memory canary and the      *)
(* directory of the provider's sessions.                                   *)
(*                                                                         *)
(* Sources: src/bin/memory_canary.py, project_context.py,                  *)
(* memory_recovery.py, automatic_memory.py, agent_session.py, and the      *)
(* callers in src/bin/mp and src/bin/todo-server.py.                       *)
(*                                                                         *)
(* A launch is identified with the agent it starts, with the attempt it    *)
(* may open and with the session file its provider opens: each is new in   *)
(* every launch.  Characters are abstracted to the number of claims that   *)
(* still fit behind the local contract (`room`).                           *)
(***************************************************************************)
EXTENDS Integers, Sequences, FiniteSets, FiniteSetsExt

CONSTANTS Launches,          \* the launches, agents, attempts and session files
          Users,             \* sessions people open in the same provider home
          Cards,
          Contract,          \* what each card says: see ContractAssumption
          Profiles,          \* the profile files a project may have
          AllowHttp,         \* MYPEOPLE_MEMORY_ALLOW_HTTP
          ComparisonEnabled, \* MYPEOPLE_MEMORY_COMPARISON_ENABLED
          MaxAssessments,    \* bound on the assessments of the operator
          MaxSwitches,       \* bound on the changes of the memory control
          MaxDeaths          \* bound on the agents that die

Project == "project-factory"         \* ALLOWED_PROJECT
Slugs == {Project, "other"}
Modes == {"off", "manual_canary", "automatic"}
Cwds == {"work", "elsewhere"}
None == "none"
Tokens == 300                        \* max_estimated_tokens
MaxClaims == 3                       \* RecoveryLimits.max_claims, MAX_MEMORY_TOP_K

ASSUME LaunchAssumption ==
    /\ IsFiniteSet(Launches \cup Users) /\ IsFiniteSet(Cards)
    /\ Launches \cap Users = {} /\ None \notin Launches \cup Users
    /\ AllowHttp \in BOOLEAN /\ ComparisonEnabled \in BOOLEAN
    /\ MaxAssessments \in Nat /\ MaxSwitches \in Nat /\ MaxDeaths \in Nat

ASSUME ContractAssumption ==
    Contract \in [Cards -> [slug : Slugs, canary : BOOLEAN,
                            question : BOOLEAN, baseline : BOOLEAN]]

\* What the validated fields of a profile file are compared with.
ASSUME ProfileAssumption == \A p \in Profiles :
    p.topK \in Int /\ p.room \in Int /\ p.enabled \in BOOLEAN

VARIABLES
    mode,      \* memory-canary-control.json
    switches,  \* number of changes of the control so far
    profile,   \* the project's profile file
    launch,    \* the local state of each launch
    taskspec,  \* the TaskSpec file of each card
    receipts,  \* memory-canary-receipts.jsonl
    holder,    \* the launch that holds the capture lock
    sessions,  \* the provider's session files
    copies,    \* session ids of which somebody keeps a second file
    proc,      \* the provider process of each launch
    row,       \* the roster row of each agent
    overlapped \* history: launches beside which another one of their card ran

vars == <<mode, switches, profile, launch, taskspec, receipts, holder,
          sessions, copies, proc, row, overlapped>>
control == <<mode, switches>>
provider == <<sessions, copies, proc>>

-----------------------------------------------------------------------------
(* The profile of a project                                                *)

\* A profile that validate_profile accepts.
ValidUrl(url) == url \in {"https", "canary"} \/ (AllowHttp /\ url = "http-local")

ValidProfile(p) ==
    /\ ~p.secret                                \* _reject_secret_fields
    /\ p.fields = "exact"                       \* no unknown, no missing one
    /\ p.revision >= 1
    /\ p.commands = "plain"                     \* _verification_commands
    /\ p.topK \in 1 .. MaxClaims /\ p.hops = 0
    /\ ValidUrl(p.url)
    /\ p.reference \in {"env", "file"}          \* credentialRef

\* load_profile: the file exists, is valid and names the slug it is filed under.
LoadedProfile(slug) == profile.slug = slug /\ ValidProfile(profile)

\* resolve_memory_credential
Credential(p) == p.token

-----------------------------------------------------------------------------
(* The ordered recall: memory_recovery.recover over the four adapters      *)

Levels == 1 .. 4                     \* fast, deep, exhaustive, emergency

\* What an adapter answers: nothing, one or three claims, claims above the
\* token budget, more claims than asked or an ill-formed answer, no answer.
Outcomes == {"empty", "one", "three", "long", "bad", "down"}
Sufficient(outcome) == outcome \in {"one", "three", "long"}
Rows(outcome) == IF outcome = "one" THEN 1 ELSE MaxClaims

Answer(status, selected, tried, claims, tokens) ==
    [error |-> None, typed |-> TRUE, foreign |-> FALSE, truncated |-> FALSE,
     status |-> status, selected |-> selected, tried |-> tried,
     claims |-> claims, tokens |-> tokens]

\* Mutant: the last sufficient level is taken instead of the first.
FirstSufficientLast(out, begun) ==
    LET good == {i \in 1 .. begun : Sufficient(out[i])}
    IN IF good = {} THEN 0 ELSE Max(good)

\* The deadline passed when `begun` levels had been tried (4: it did not).
FirstSufficient(out, begun) ==
    LET good == {i \in 1 .. begun : Sufficient(out[i])}
    IN IF good = {} THEN 0 ELSE Min(good)

Recover(out, begun) ==
    LET best == FirstSufficient(out, begun)
        met(outcome) == \E i \in Levels : out[i] = outcome
    IN IF best # 0
       THEN IF out[best] = "long"
            THEN Answer("memory_budget_exceeded", best, best, 0, Tokens + 1)
            ELSE Answer("memory_applied", best, best, Rows(out[best]), Tokens)
       ELSE Answer(IF begun < 4 THEN "memory_unavailable"
                   ELSE IF met("bad") THEN "memory_invalid_response"
                   ELSE IF met("down") THEN "memory_unavailable"
                   ELSE "insufficient_evidence", 0, begun, 0, 0)

\* The smallest level whose adapter gave enough, said without the search.
Reference(out, begun) ==
    IF \E i \in 1 .. begun : Sufficient(out[i])
    THEN CHOOSE i \in 1 .. begun :
             Sufficient(out[i]) /\ \A j \in 1 .. i - 1 : ~Sufficient(out[j])
    ELSE 0

\* What the gateway may return, each with the level that should have been used.
Recalled == {[reply |-> Recover(out, begun), first |-> Reference(out, begun)] :
                 out \in [Levels -> Outcomes], begun \in 0 .. 4}

Failed(code) == [Answer(None, 0, 0, 0, 0) EXCEPT !.error = code]

Transported ==
    {[reply |-> Failed(code), first |-> 0] :
        code \in {"timeout", "budget_exceeded", "invalid_response"}}
    \cup {[reply |-> r, first |-> 1] :
        r \in {[Answer("memory_applied", 1, 1, 1, Tokens) EXCEPT !.foreign = TRUE],
               [Answer("memory_applied", 0, 1, 1, Tokens) EXCEPT !.typed = FALSE],
               [Answer("memory_applied", 1, 1, 2, Tokens) EXCEPT !.truncated = TRUE]}}

-----------------------------------------------------------------------------
(* The TaskSpec                                                            *)

NoSpec == [status |-> None, claims |-> 0, level |-> 0, first |-> 0]

Without(status) == [NoSpec EXCEPT !.status = status]

\* Mutant: the gateway's code is taken for the status.
ErrorStatusRaw(code) == code

\* _automatic_error_status
ErrorStatus(code) ==
    IF code = "budget_exceeded" THEN "memory_budget_exceeded"
    ELSE IF code = "invalid_response" THEN "memory_invalid_response"
    ELSE "memory_unavailable"

\* What _apply_automatic_response refuses.
Invalid(reply, p) ==
    \/ ~reply.typed
    \/ reply.claims > p.topK
    \/ reply.tokens > Tokens
    \/ /\ reply.status # "memory_applied"
       /\ reply.claims > 0 \/ reply.selected # 0
    \/ /\ reply.status = "memory_applied"
       /\ reply.selected \notin 1 .. reply.tried \/ reply.foreign

AutomaticStatus(reply, p) ==
    IF reply.error # None THEN ErrorStatus(reply.error)
    ELSE IF Invalid(reply, p) THEN "memory_invalid_response"
    ELSE IF reply.claims > p.room THEN "memory_budget_exceeded"
    ELSE reply.status

\* The TaskSpec of an automatic recall: a failure leaves it without claims.
AutomaticSpec(a, p) ==
    LET status == AutomaticStatus(a.reply, p)
    IN IF status # "memory_applied" THEN Without(status)
       ELSE [status |-> status, claims |-> a.reply.claims,
             level |-> a.reply.selected, first |-> a.first]

\* What makes a manual recall fail the launch.
ManualRefused(reply, p) ==
    reply.error # None \/ reply.claims > p.topK \/ reply.foreign

\* The TaskSpec of a manual recall: the claims that fit, the last one cut.
ManualSpec(a, p) ==
    [status |-> IF a.reply.truncated \/ a.reply.claims > p.room
                THEN "truncated" ELSE "ok",
     claims |-> Min({a.reply.claims, p.room}), level |-> 0, first |-> 0]

-----------------------------------------------------------------------------
(* Which memory a launch may ask for                                       *)

\* memory_eligibility: every card has a text, so its query is never empty.
Eligible(c) == Contract[c].slug = Project /\ ~Contract[c].baseline

AutomaticRequested(c, m) == m = "automatic" /\ Eligible(c) /\ profile.enabled

\* The branch of the canary: an attempt with a receipt.
Attempted(c, m) == Contract[c].canary /\ m # "automatic"

\* assert_task_allowed
TaskAllowed(c, m) ==
    /\ Contract[c].canary
    /\ m = "manual_canary"
    /\ Contract[c].slug = Project
    /\ Contract[c].question

\* The reasons for which the TaskSpec is not compiled at all.
Refused(c, bypass, m) ==
    \/ ~LoadedProfile(Contract[c].slug)
    \/ profile.room < 0
    \/ /\ bypass /\ ~Contract[c].canary /\ ~AutomaticRequested(c, m)
       /\ ~(ComparisonEnabled /\ Contract[c].baseline)
    \/ Attempted(c, m) /\ ~bypass /\ ~TaskAllowed(c, m)

\* The recall the compilation makes, if any.
Recall(c, bypass, m) ==
    IF bypass \/ ~profile.enabled THEN None
    ELSE IF Attempted(c, m) THEN "manual_canary"
    ELSE IF AutomaticRequested(c, m) THEN "automatic" ELSE None

\* call_memory_gateway before it asks: the credential, then the control again.
GatewayError(m) ==
    IF ~Credential(profile) THEN "unauthorized"
    ELSE IF profile.url = "canary" /\ m = "off" THEN "unavailable" ELSE None

-----------------------------------------------------------------------------
(* The receipts                                                            *)

Receipt(kind, attempt, c, by) ==
    [kind |-> kind, attempt |-> attempt, card |-> c, by |-> by]

\* Mutant: the last receipt of the file, whichever card it is of.
LatestReceiptAny(c) ==
    IF receipts = <<>> THEN Receipt(None, None, c, None)
    ELSE [receipts[Len(receipts)] EXCEPT !.card = c]

\* latest_receipt: the last receipt of the card, of whatever kind.
LatestReceipt(c) ==
    LET mine == {i \in DOMAIN receipts : receipts[i].card = c}
    IN IF mine = {} THEN Receipt(None, None, c, None) ELSE receipts[Max(mine)]

\* resolve_owner_runtime: the attempt this launch believes to be its own.
CurrentAttempt(c) ==
    IF LatestReceipt(c).kind = "start" THEN LatestReceipt(c).attempt ELSE None

\* _attempt_start
HasStart(attempt, c) ==
    \E i \in DOMAIN receipts :
        /\ receipts[i].kind = "start"
        /\ receipts[i].attempt = attempt /\ receipts[i].card = c

-----------------------------------------------------------------------------
Idle == [pc |-> "idle", card |-> None, bypass |-> FALSE, recall |-> None,
         read |-> "off", spec |-> NoSpec, digest |-> None, attempt |-> None,
         before |-> {}]

NoRow == [card |-> None, digest |-> None, attempt |-> None, session |-> None]

Init ==
    /\ mode \in Modes                    \* the file outlives a restart
    /\ switches = 0
    /\ profile \in Profiles
    /\ launch = [l \in Launches |-> Idle]
    /\ taskspec = [c \in Cards |-> None]
    /\ receipts = <<>>
    /\ holder = None
    /\ sessions = {}
    /\ copies = {}
    /\ proc = [l \in Launches |-> "none"]
    /\ row = [l \in Launches |-> NoRow]
    /\ overlapped = {}

\* set_control, by `mp memory` or the board's Disable: the file is read without a
\* lock and replaced when the mode differs.  What was read decides no more than
\* that, so the change is one step, at the replacement, in whatever order several
\* writers come to it.  (Nobody acts on the control any more when every launch has
\* sent its question.)
SetControl(m) ==
    /\ m # mode
    /\ switches < MaxSwitches
    /\ \E l \in Launches : launch[l].pc \in {"idle", "read", "confirmed"}
    /\ mode' = m
    /\ switches' = switches + 1
    /\ UNCHANGED <<profile, launch, taskspec, receipts, holder,
                   row, overlapped>>
    /\ UNCHANGED provider

-----------------------------------------------------------------------------
(* compile_owner_task_spec and resolve_owner_runtime                       *)

\* Moves a launch on, to the next step of spawn.
Goes(l, pc) == launch' = [launch EXCEPT ![l].pc = pc]

\* spawn ends; what it held in memory is gone.
Stops(l, pc) == launch' = [launch EXCEPT ![l] = [Idle EXCEPT !.pc = pc]]

UnderWay(l) == launch[l].pc \notin {"idle", "recorded", "blocked"}

\* The launches of the card that are under way.
Beside(c) == {k \in Launches : UnderWay(k) /\ launch[k].card = c}

\* The card, the profile and the control are read.
Begin(l, c, bypass) ==
    /\ launch[l].pc = "idle"
    /\ IF Refused(c, bypass, mode) THEN Stops(l, "blocked") /\ UNCHANGED overlapped
       ELSE /\ launch' = [launch EXCEPT ![l] =
                  [Idle EXCEPT !.pc = "read", !.card = c, !.bypass = bypass,
                               !.read = mode, !.recall = Recall(c, bypass, mode)]]
            /\ overlapped' = IF Beside(c) = {} THEN overlapped
                             ELSE overlapped \cup Beside(c) \cup {l}
    /\ UNCHANGED <<profile, taskspec, receipts, holder, row>>
    /\ UNCHANGED control /\ UNCHANGED provider

Compiled(l, spec) ==
    launch' = [launch EXCEPT ![l].spec = spec, ![l].pc =
        IF Attempted(launch[l].card, launch[l].read) THEN "compiled" ELSE "receipted"]

\* The status of a TaskSpec nothing is recalled into.
PlainStatus(l) ==
    IF Contract[launch[l].card].question THEN "disabled" ELSE "not_requested"

\* Where a failure of the memory leaves a TaskSpec without claims.
Tolerant(l) == launch[l].recall = "automatic"

\* Nothing to recall, no room for it, or the gateway refuses at once.
CompileWithout(l) ==
    LET recall == launch[l].recall
        short == recall # None /\ profile.room = 0
        error == GatewayError(mode)
    IN /\ launch[l].pc = "read"
       /\ recall = None \/ short \/ error # None
       /\ IF recall = None THEN Compiled(l, Without(PlainStatus(l)))
          ELSE IF ~Tolerant(l) THEN Stops(l, "blocked")
          ELSE Compiled(l, Without(IF short THEN "memory_budget_exceeded"
                                    ELSE ErrorStatus(error)))
       /\ UNCHANGED <<profile, taskspec, receipts, holder, row, overlapped>>
       /\ UNCHANGED control /\ UNCHANGED provider

\* call_memory_gateway finds nothing against the question: it has looked at the
\* control once more where the address is the canary's.
ConfirmControl(l) ==
    /\ launch[l].pc = "read"
    /\ launch[l].recall # None /\ profile.room > 0
    /\ GatewayError(mode) = None
    /\ Goes(l, "confirmed")
    /\ UNCHANGED <<profile, taskspec, receipts, holder, row, overlapped>>
    /\ UNCHANGED control /\ UNCHANGED provider

\* The gateway is started, whatever the control says by now.
Ask(l) ==
    /\ launch[l].pc = "confirmed"
    /\ Goes(l, "asked")
    /\ UNCHANGED <<profile, taskspec, receipts, holder, row, overlapped>>
    /\ UNCHANGED control /\ UNCHANGED provider

AnswerArrives(l, a) ==
    /\ launch[l].pc = "asked"
    /\ IF Tolerant(l)
       THEN Compiled(l, AutomaticSpec(a, profile))
       ELSE IF ManualRefused(a.reply, profile) THEN Stops(l, "blocked")
       ELSE Compiled(l, ManualSpec(a, profile))
    /\ UNCHANGED <<profile, taskspec, receipts, holder, row, overlapped>>
    /\ UNCHANGED control /\ UNCHANGED provider

AppendStart(l) ==
    /\ launch[l].pc = "compiled"
    /\ receipts' = Append(receipts, Receipt("start", l, launch[l].card, l))
    /\ Goes(l, "receipted")
    /\ UNCHANGED <<profile, taskspec, holder, row, overlapped>>
    /\ UNCHANGED control /\ UNCHANGED provider

\* Mutant: a TaskSpec that is there already is kept.
WriteTaskSpecOnce(l) ==
    /\ launch[l].pc = "receipted"
    /\ taskspec' = [taskspec EXCEPT ![launch[l].card] = IF @ = None THEN l ELSE @]
    /\ launch' = [launch EXCEPT ![l] =
           [Idle EXCEPT !.pc = "written", !.card = launch[l].card]]
    /\ UNCHANGED <<profile, receipts, holder, row, overlapped>>
    /\ UNCHANGED control /\ UNCHANGED provider

WriteTaskSpec(l) ==
    /\ launch[l].pc = "receipted"
    /\ taskspec' = [taskspec EXCEPT ![launch[l].card] = l]
    /\ launch' = [launch EXCEPT ![l] =
           [Idle EXCEPT !.pc = "written", !.card = launch[l].card]]
    /\ UNCHANGED <<profile, receipts, holder, row, overlapped>>
    /\ UNCHANGED control /\ UNCHANGED provider

\* The file is read back for its digest, then the receipts for the attempt.
ReadContext(l) ==
    /\ launch[l].pc = "written"
    /\ launch' = [launch EXCEPT ![l].pc = "ready",
                                ![l].digest = taskspec[launch[l].card],
                                ![l].attempt = CurrentAttempt(launch[l].card)]
    /\ UNCHANGED <<profile, taskspec, receipts, holder, row, overlapped>>
    /\ UNCHANGED control /\ UNCHANGED provider

-----------------------------------------------------------------------------
(* The window, the capture of the session and the roster row               *)

\* Mutant: the lock is not exclusive.
FreeAlways(l) == TRUE

\* capture_lock: taken when nobody holds it.
Free(l) == holder = None

\* session_capture_busy: the lock was not free for five seconds.
LockTimesOut(l) ==
    /\ launch[l].pc = "ready"
    /\ holder # None
    /\ Stops(l, "blocked")
    /\ UNCHANGED <<profile, taskspec, receipts, holder, row, overlapped>>
    /\ UNCHANGED control /\ UNCHANGED provider

\* Under the lock the files are listed and then the window is made; a session
\* file that comes in between might as well come after.
OpenWindow(l) ==
    /\ launch[l].pc = "ready"
    /\ Free(l)
    /\ holder' = l
    /\ launch' = [launch EXCEPT ![l].pc = "capturing", ![l].before = sessions]
    /\ proc' = [proc EXCEPT ![l] = "fresh"]
    /\ UNCHANGED <<profile, taskspec, receipts, sessions, copies,
                   row, overlapped>>
    /\ UNCHANGED control

\* The capture ends: the lock is released and the roster row is written.
Record(l, session) ==
    /\ row' = [row EXCEPT ![l] =
           [card |-> launch[l].card, digest |-> launch[l].digest,
            attempt |-> launch[l].attempt, session |-> session]]
    /\ Stops(l, "recorded")
    /\ holder' = None
    /\ UNCHANGED <<profile, taskspec, receipts, overlapped>>
    /\ UNCHANGED control /\ UNCHANGED provider

New(l) == sessions \ launch[l].before

\* discover_codex_session: one new file, and it is of the agent's directory.
Discover(l) ==
    /\ launch[l].pc = "capturing"
    /\ \E f \in New(l) : New(l) = {f} /\ f.cwd = "work" /\ Record(l, f.id)

\* Not ready, several new files, an unreadable one, or nothing in time.
CaptureFails(l) ==
    /\ launch[l].pc = "capturing"
    /\ Record(l, None)

\* The `mp spawn` process is killed before it has the lock ...
KilledEarly(l) ==
    /\ UnderWay(l) /\ launch[l].pc # "capturing"
    /\ Stops(l, "blocked")
    /\ UNCHANGED <<profile, taskspec, receipts, holder, row, overlapped>>
    /\ UNCHANGED control /\ UNCHANGED provider

\* ... or while it captures; the kernel releases the lock.
Killed(l) ==
    /\ launch[l].pc = "capturing"
    /\ Stops(l, "blocked")
    /\ holder' = None
    /\ UNCHANGED <<profile, taskspec, receipts, row, overlapped>>
    /\ UNCHANGED control /\ UNCHANGED provider

-----------------------------------------------------------------------------
(* The provider, the agent and the operator                                *)

\* A process opens its session file with its first message, whenever that is.
\* (A file that comes while nobody captures is in every later listing and makes
\* no difference; so with the sessions of other people.)
SessionAppears(l) ==
    /\ holder # None
    /\ proc[l] = "fresh" /\ \A f \in sessions : f.id # l
    /\ sessions' = sessions \cup {[id |-> l, cwd |-> "work"]}
    /\ UNCHANGED <<profile, launch, taskspec, receipts, holder, copies, proc,
                   row, overlapped>>
    /\ UNCHANGED control

\* Somebody opens a session of his own in the same provider home.
UserSession(u, cwd) ==
    /\ holder # None
    /\ \A f \in sessions : f.id # u
    /\ sessions' = sessions \cup {[id |-> u, cwd |-> cwd]}
    /\ UNCHANGED <<profile, launch, taskspec, receipts, holder, copies, proc,
                   row, overlapped>>
    /\ UNCHANGED control

\* Somebody keeps a second file of a session under its id: it matters for the
\* revival of an agent that is down (a bound: one such session).
UserCopies(u) ==
    /\ copies = {} /\ \E l \in Launches : proc[l] = "down" /\ row[l].session = u
    /\ copies' = copies \cup {u}
    /\ UNCHANGED <<profile, launch, taskspec, receipts, holder, sessions, proc,
                   row, overlapped>>
    /\ UNCHANGED control

\* complete: the hand-over of the card closes the attempt the row names.
Complete(l) ==
    /\ launch[l].pc = "recorded" /\ proc[l] # "down"
    /\ row[l].attempt # None
    /\ HasStart(row[l].attempt, row[l].card)
    /\ \A i \in DOMAIN receipts :
           ~(receipts[i].kind = "completion" /\ receipts[i].by = l)
    /\ receipts' = Append(receipts,
                        Receipt("completion", row[l].attempt, row[l].card, l))
    /\ UNCHANGED <<profile, launch, taskspec, holder, row, overlapped>>
    /\ UNCHANGED control /\ UNCHANGED provider

\* The board's Assess: a verdict on the attempt of the latest receipt.
Assess(c) ==
    /\ Contract[c].canary
    /\ LatestReceipt(c).attempt # None
    /\ Cardinality({i \in DOMAIN receipts : receipts[i].kind = "assessment"})
           < MaxAssessments
    /\ receipts' = Append(receipts,
                        Receipt("assessment", LatestReceipt(c).attempt, c, None))
    /\ UNCHANGED <<profile, launch, taskspec, holder, row, overlapped>>
    /\ UNCHANGED control /\ UNCHANGED provider

\* The provider dies.  Where no row or no session is left to go on with, that
\* is no more than the process taking no further step.
AgentDies(l) ==
    /\ row[l].session # None /\ proc[l] # "down"
    /\ Cardinality({k \in Launches \ {l} : proc[k] \in {"down", "resumed"}}) < MaxDeaths
    /\ proc' = [proc EXCEPT ![l] = "down"]
    /\ UNCHANGED <<profile, launch, taskspec, receipts, holder, sessions, copies,
                   row, overlapped>>
    /\ UNCHANGED control

\* validate_resume_evidence: one file of that id, of the agent's directory.
Evidence(session) ==
    /\ session \notin copies
    /\ \E f \in sessions : f.id = session /\ f.cwd = "work"

\* revive: the receipts still match and the session is found; the provider
\* goes on in the session the row names.
Revive(l) ==
    /\ launch[l].pc = "recorded" /\ proc[l] = "down"
    /\ row[l].session # None
    /\ taskspec[row[l].card] = row[l].digest
    /\ Evidence(row[l].session)
    /\ proc' = [proc EXCEPT ![l] = "resumed"]
    /\ UNCHANGED <<profile, launch, taskspec, receipts, holder, sessions, copies,
                   row, overlapped>>
    /\ UNCHANGED control

-----------------------------------------------------------------------------
Step(l) ==
    \/ CompileWithout(l) \/ ConfirmControl(l) \/ Ask(l)
    \/ \E a \in Recalled \cup Transported : AnswerArrives(l, a)
    \/ AppendStart(l) \/ WriteTaskSpec(l) \/ ReadContext(l)
    \/ LockTimesOut(l) \/ OpenWindow(l)
    \/ Discover(l) \/ CaptureFails(l)

Next ==
    \/ \E m \in Modes : SetControl(m)
    \/ \E l \in Launches, c \in Cards, bypass \in BOOLEAN : Begin(l, c, bypass)
    \/ \E l \in Launches :
           \/ Step(l) \/ KilledEarly(l) \/ Killed(l)
           \/ SessionAppears(l) \/ AgentDies(l) \/ Complete(l) \/ Revive(l)
    \/ \E u \in Users, cwd \in Cwds : UserSession(u, cwd)
    \/ \E u \in Launches \cup Users : UserCopies(u)
    \/ \E c \in Cards : Assess(c)

Spec == Init /\ [][Next]_vars

-----------------------------------------------------------------------------
(* Properties                                                              *)

SpecType == [status : {None, "ok", "truncated", "disabled", "not_requested",
                       "memory_applied", "memory_unavailable", "insufficient_evidence",
                       "memory_budget_exceeded", "memory_invalid_response"},
             claims : 0 .. MaxClaims, level : 0 .. 4, first : 0 .. 4]

Ids == Launches \cup Users
OrNone(S) == S \cup {None}

\* Every variable keeps its type; no TaskSpec a launch compiles holds more
\* claims than the contract allows.
TypeOK ==
    /\ mode \in Modes /\ profile \in Profiles
    /\ launch \in [Launches ->
           [pc : {"idle", "read", "confirmed", "asked", "compiled", "receipted",
                  "written", "ready", "capturing", "recorded", "blocked"},
            card : OrNone(Cards), bypass : BOOLEAN, read : Modes,
            recall : OrNone({"automatic", "manual_canary"}), spec : SpecType,
            digest : OrNone(Launches), attempt : OrNone(Launches),
            before : SUBSET sessions]]
    /\ taskspec \in [Cards -> OrNone(Launches)]
    /\ receipts \in Seq([kind : {"start", "completion", "assessment"},
                        attempt : Launches, card : Cards, by : OrNone(Launches)])
    /\ holder \in OrNone(Launches)
    /\ sessions \subseteq [id : Ids, cwd : Cwds] /\ copies \subseteq Ids
    /\ proc \in [Launches -> {"none", "fresh", "down", "resumed"}]
    /\ row \in [Launches ->
           [card : OrNone(Cards), digest : OrNone(Launches),
            attempt : OrNone(Launches), session : OrNone(Ids)]]
    /\ overlapped \subseteq Launches

\* Two agents never record the same provider session, however their launches,
\* late session files and people's own sessions interleave: capture_lock keeps
\* the listing and the discovery of two launches apart.
NoSharedSession ==
    \A a, b \in Launches :
        a # b /\ row[a].session # None => row[a].session # row[b].session

\* The claims a launch writes into a TaskSpec were recalled for a project card,
\* by a launch that was not told to go without memory and read a control that
\* lets it; they fit the profile, and an automatic recall took them from the
\* first level that had enough.
ClaimsAreEarned ==
    \A l \in Launches :
        LET c == launch[l].card
            spec == launch[l].spec
        IN launch[l].pc \in {"compiled", "receipted"} /\ spec.claims > 0 =>
            /\ ~launch[l].bypass /\ profile.enabled /\ Contract[c].slug = Project
            /\ spec.claims <= Min({profile.topK, profile.room})
            /\ IF Contract[c].canary /\ launch[l].read = "manual_canary" THEN TRUE
               ELSE /\ launch[l].read = "automatic" /\ ~Contract[c].baseline
                    /\ spec.level # 0 /\ spec.level = spec.first

\* Each completion and each assessment is of an attempt that an earlier receipt
\* of the same card opened, although the row takes the attempt from the latest
\* receipt of the card and the operator assesses whatever came last.
ReceiptsBelongTogether ==
    \A i \in DOMAIN receipts : receipts[i].kind # "start" =>
        \E j \in 1 .. i - 1 :
            /\ receipts[j].kind = "start"
            /\ receipts[j].attempt = receipts[i].attempt
            /\ receipts[j].card = receipts[i].card

\* Launches of one card that run one after the other do not get in each other's
\* way, although they share the TaskSpec file and the receipts: unless another
\* launch of its card ran beside it, the row an agent gets has the digest of the
\* TaskSpec its own launch wrote, and where that launch opened an attempt the row
\* has that one or, when an older agent's hand-over or an assessment came between,
\* none, but never an older one.
RowsAreTheirOwn ==
    \A l \in Launches : row[l].card # None /\ l \notin overlapped =>
        /\ row[l].digest = l
        /\ HasStart(l, row[l].card) => row[l].attempt \in {l, None}

=============================================================================
