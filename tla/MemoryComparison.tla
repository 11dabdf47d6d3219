--------------------------- MODULE MemoryComparison ---------------------------
(***************************************************************************)
(* The paired comparison of workers with and without memory: the run file  *)
(* of bin/memory_comparison.py, written by the requests that               *)
(* bin/todo-server.py serves, and the scoring of the results in            *)
(* experiments/memory-gate-b/comparison.                                   *)
(*                                                                         *)
(* The server has a thread per request and takes no lock here.  A request  *)
(* loads state.json and computes the new state, replaces the file, and     *)
(* appends an event: three steps, between which other requests run and     *)
(* the process may fail.  The new state depends on the loaded one only, so *)
(* a request in flight is known by what it is going to write.  Of the      *)
(* events only the step that appends one is kept.                          *)
(*                                                                         *)
(* A request has passed the gates of its handler: feature flag, machine    *)
(* token, local address, and the test card that carries the marker of the  *)
(* arm.  Times, digests, metrics and the syntax of labels are left out.    *)
(***************************************************************************)
EXTENDS Naturals, Sequences, FiniteSets, SequencesExt, FiniteSetsExt

CONSTANTS
    Case,       \* aliases of the live cases
    Plan,       \* the cases in their order, each with the order of its arms
    Evidence,   \* identifiers of evidence
    Gold,       \* per case: allowed, rejected, decision, commands
    Resource,   \* [worker, card, conversation] a controller may bring
    Offered,    \* bound: the resources brought for an arm
    Answers,    \* bound: the envelopes that workers return for an arm
    Caller,
    Asks        \* which operations a caller requests

Arm  == {"baseline", "memory"}
Slot == Case \X Arm

ASSUME PlanAssumption ==
    /\ Plan \in Seq([alias : Case, order : {<<"baseline", "memory">>, <<"memory", "baseline">>}])
    /\ Plan /= <<>> /\ Len(Plan) = Cardinality(Case)
    /\ \A c \in Case : \E i \in DOMAIN Plan : Plan[i].alias = c
ASSUME GoldAssumption == \A c \in Case :
    /\ Gold[c].allowed \cup Gold[c].rejected \subseteq Evidence
    /\ Gold[c].allowed \cap Gold[c].rejected = {}
ASSUME InputAssumption ==
    /\ Offered \in [Slot -> SUBSET Resource] /\ DOMAIN Answers = Slot

-----------------------------------------------------------------------------
(***************************************************************************)
(* Scoring.  An envelope: the decision, the evidence selected and rejected,*)
(* the commands and those that succeeded, and violations seen by the       *)
(* caller.                                                                 *)
(***************************************************************************)

\* The worker's result has the closed schema, else scoring refuses it.
WellFormed(c, e) ==
    /\ e.selected \cap e.rejected = {}
    /\ e.ran /= {} /\ e.ran \subseteq Gold[c].commands /\ e.passed \subseteq e.ran

Harmful(c, e) ==
    \/ e.violations
    \/ ~ (e.selected \cup e.rejected) \subseteq (Gold[c].allowed \cup Gold[c].rejected)
    \/ e.selected \cap Gold[c].rejected /= {}

Points(earned, n) == IF earned THEN n ELSE 0

\* Mutant: the share of the evidence weighs as little as the verification.
ComponentsFlat(c, e) ==
    Points(e.decision = Gold[c].decision, 45) + Points(e.selected = Gold[c].allowed, 20)
      + Points(e.passed = Gold[c].commands, 20)
      + Points(e.selected \cap Gold[c].rejected = {} /\ Gold[c].rejected \subseteq e.rejected, 10)
      + 5

Components(c, e) ==
    Points(e.decision = Gold[c].decision, 40) + Points(e.selected = Gold[c].allowed, 25)
      + Points(e.passed = Gold[c].commands, 20)
      + Points(e.selected \cap Gold[c].rejected = {} /\ Gold[c].rejected \subseteq e.rejected, 10)
      + 5

Receipt(c, e) ==
    LET score == IF Harmful(c, e) THEN 0 ELSE Components(c, e)
    IN  [score |-> score, successful |-> score >= 80 /\ ~ Harmful(c, e),
         harmful |-> Harmful(c, e), envelope |-> e]

\* What a worker's answer becomes; a refused one is submitted without receipt.
NoReceipt == [score |-> 0, successful |-> FALSE, harmful |-> FALSE, envelope |-> "refused"]
Scored(c, e) == IF WellFormed(c, e) THEN Receipt(c, e) ELSE NoReceipt
Receipts == {NoReceipt} \cup UNION {{Scored(s[1], e) : e \in Answers[s]} : s \in Slot}

-----------------------------------------------------------------------------
(***************************************************************************)
(* The run file and what each operation makes of it.                       *)
(***************************************************************************)

Status == {"planned", "offline_qualified", "arm_started", "arm_recorded", "arm_cleaned",
           "pair_completed", "completed", "aborted"}
NoRow  == [taken |-> {}, result |-> NoReceipt, recorded |-> FALSE, cleaned |-> FALSE]
NoSlot == <<>>

\* `pairs' counts the completed pairs: complete_pair takes them in order.
\* `taken' holds the resources of an arm that was started, else nothing.
Run == [status : Status, pairs : 0..Len(Plan), rows : [Slot -> [taken : SUBSET Resource,
        result : Receipts, recorded : BOOLEAN, cleaned : BOOLEAN]],
        active : Slot \cup {NoSlot}, used : SUBSET Resource, cleanup : BOOLEAN]
NoRun == <<>>
NewRun == [status |-> "planned", pairs |-> 0, rows |-> [s \in Slot |-> NoRow],
           active |-> NoSlot, used |-> {}, cleanup |-> FALSE]

VARIABLES
    file,   \* state.json, or NoRun
    doing   \* per caller: its operation, and the state it is going to write

vars == <<file, doing>>

Idle == [at |-> "idle", op |-> "", new |-> NoRun]

\* Mutant: the status has a name the other operations do not know.
AbortedUnknown(r) == [r EXCEPT !.status = "stopped", !.cleanup = TRUE]

\* _violate: the run is aborted and asks for a cleanup.
Aborted(r) == [r EXCEPT !.status = "aborted", !.cleanup = TRUE]

Open(r) == r.status \notin {"aborted", "completed"}

\* _next_arm: the arm of the first open pair that comes next; NoSlot when
\* an arm waits for its cleanup or the pair for its completion.
PairDue(r) == IF r.pairs < Len(Plan) THEN Plan[r.pairs + 1].alias ELSE ""
ArmsDue(r) ==
    LET p == Plan[r.pairs + 1]
    IN  {k \in 1..2 : ~ r.rows[<<p.alias, p.order[k]>>].cleaned}
NextArm(r) ==
    IF r.pairs = Len(Plan) \/ ArmsDue(r) = {} THEN NoSlot
    ELSE LET s == <<PairDue(r), Plan[r.pairs + 1].order[Min(ArmsDue(r))]>>
         IN  IF r.rows[s].taken = {} THEN s ELSE NoSlot
PairIsDone(r) == r.pairs < Len(Plan) /\ ArmsDue(r) = {}

\* Mutant: only the worker is compared.
ReusedWorker(r, q) == \E u \in r.used : u.worker = q.worker

Reused(r, q) == \E u \in r.used :
    u.worker = q.worker \/ u.card = q.card \/ u.conversation = q.conversation

\* `digest': the digest is well formed.
Qualified(r, digest) ==
    IF r.status = "planned" /\ digest THEN [r EXCEPT !.status = "offline_qualified"]
                                      ELSE Aborted(r)

Started(r, s, q) ==
    IF r.active = NoSlot /\ NextArm(r) = s /\ ~ Reused(r, q)
    THEN [r EXCEPT !.status = "arm_started", !.active = s, !.used = @ \cup {q},
                   !.rows[s].taken = {q}]
    ELSE Aborted(r)

\* Mutant: a result is taken for whatever arm it names.
RecordedAny(r, s, receipt) ==
    IF r.status = "arm_started" /\ receipt /= NoReceipt
    THEN [r EXCEPT !.status = "arm_recorded", !.rows[s].result = receipt,
                   !.rows[s].recorded = TRUE]
    ELSE Aborted(r)

Recorded(r, s, receipt) ==
    IF r.status = "arm_started" /\ r.active = s /\ receipt /= NoReceipt
    THEN [r EXCEPT !.status = "arm_recorded", !.rows[s].result = receipt,
                   !.rows[s].recorded = TRUE]
    ELSE Aborted(r)

Marked(r) == IF r.active = NoSlot THEN r.rows
             ELSE [r.rows EXCEPT ![r.active].cleaned = TRUE]

\* Mutant: a run that was aborted forgets its arm without marking it.
ReleasedUnmarked(r) == [r EXCEPT !.active = NoSlot, !.cleanup = FALSE,
    !.rows = IF r.status = "aborted" THEN r.rows ELSE Marked(r)]

Released(r) == [r EXCEPT !.rows = Marked(r), !.active = NoSlot, !.cleanup = FALSE]

\* record_cleanup, the one operation that does not ask whether the run is
\* open: an aborted run is released, a completed one is aborted.
Cleaned(r) ==
    IF r.status = "aborted" THEN Released(r)
    ELSE IF r.status = "arm_recorded" THEN [Released(r) EXCEPT !.status = "arm_cleaned"]
    ELSE Aborted(r)

\* Mutant: a pair is completed after its first arm.
PairCompletedEarly(r, c) ==
    IF r.status = "arm_cleaned" /\ PairDue(r) = c
    THEN [r EXCEPT !.status = "pair_completed", !.pairs = @ + 1]
    ELSE Aborted(r)

PairCompleted(r, c) ==
    IF r.status = "arm_cleaned" /\ PairDue(r) = c /\ PairIsDone(r)
    THEN [r EXCEPT !.status = "pair_completed", !.pairs = @ + 1]
    ELSE Aborted(r)

RunCompleted(r) ==
    IF r.status = "pair_completed" /\ r.pairs = Len(Plan)
    THEN [r EXCEPT !.status = "completed"]
    ELSE Aborted(r)

-----------------------------------------------------------------------------
(***************************************************************************)
(* Requests.  A refused request answers an error and writes nothing.       *)
(***************************************************************************)

Init ==
    /\ file = NoRun
    /\ doing = [c \in Caller |-> Idle]

Request(c, op, new) ==
    /\ op \in Asks[c] /\ doing[c].at = "idle"
    /\ doing' = [doing EXCEPT ![c] = [at |-> "write", op |-> op, new |-> new]]
    /\ UNCHANGED file

\* initialize: start_run, and then the qualification of the run it made.
StartRun(c) == file = NoRun /\ Request(c, "initialize", NewRun)

Qualify(c) ==
    /\ doing[c].at = "qualify"
    /\ IF Open(file)
       THEN \E digest \in BOOLEAN : doing' = [doing EXCEPT ![c] =
                [at |-> "write", op |-> "qualify", new |-> Qualified(file, digest)]]
       ELSE doing' = [doing EXCEPT ![c] = Idle]
    /\ UNCHANGED file

Loaded == file /= NoRun /\ Open(file)

StartArm(c) ==
    Loaded /\ \E s \in Slot : \E q \in Offered[s] : Request(c, "start_arm", Started(file, s, q))

SubmitResult(c) ==
    Loaded /\ \E s \in Slot : \E e \in Answers[s] :
        Request(c, "submit_result", Recorded(file, s, Scored(s[1], e)))

\* Evidence with a gap is refused before anything is written.
Cleanup(c) == file /= NoRun /\ Request(c, "cleanup", Cleaned(file))

CompletePair(c) ==
    Loaded /\ \E k \in Case : Request(c, "complete_pair", PairCompleted(file, k))

CompleteRun(c) == Loaded /\ Request(c, "complete_run", RunCompleted(file))

AbortRun(c) == Loaded /\ Request(c, "abort", Aborted(file))

-----------------------------------------------------------------------------
(***************************************************************************)
(* _persist: the state file is replaced, then the event is appended.       *)
(***************************************************************************)

WriteState(c) ==
    /\ doing[c].at = "write"
    /\ file' = doing[c].new
    /\ doing' = [doing EXCEPT ![c].at = "append", ![c].new = NoRun]

AppendEvent(c) ==
    /\ doing[c].at = "append"
    /\ doing' = [doing EXCEPT ![c] = IF @.op = "initialize" THEN [Idle EXCEPT !.at = "qualify"]
                                                            ELSE Idle]
    /\ UNCHANGED file

\* A write that fails, a client that is gone, or the end of the server.
Fail(c) ==
    /\ doing[c].at /= "idle"
    /\ doing' = [doing EXCEPT ![c] = Idle]
    /\ UNCHANGED file

Next ==
    \E c \in Caller :
        \/ StartRun(c) \/ Qualify(c) \/ StartArm(c) \/ SubmitResult(c) \/ Cleanup(c)
        \/ CompletePair(c) \/ CompleteRun(c) \/ AbortRun(c)
        \/ WriteState(c) \/ AppendEvent(c) \/ Fail(c)

Spec == Init /\ [][Next]_vars

-----------------------------------------------------------------------------
(***************************************************************************)
(* The summary that is published, and what must hold of the run file.      *)
(***************************************************************************)

Exists == file /= NoRun
Taken(s) == file.rows[s].taken /= {}
CleanupComplete == ~ file.cleanup /\ file.active = NoSlot

\* Position of an arm in the plan of the run.
Rank(s) ==
    LET i == CHOOSE i \in DOMAIN Plan : Plan[i].alias = s[1]
    IN  2 * i + (IF Plan[i].order[1] = s[2] THEN 0 ELSE 1)

\* The run file and the requests in flight are records of their types.
TypeOK ==
    /\ file \in Run \cup {NoRun}
    /\ \A c \in Caller :
        /\ doing[c].at \in {"idle", "write", "append", "qualify"}
        /\ doing[c].new \in Run \cup {NoRun}
        /\ doing[c].at = "write" => doing[c].new /= NoRun

\* Arms run in the approved order, each after the one before was scored and
\* cleaned away, and a completed run has them all, whichever requests raced
\* or died half way; no two arms share a worker, a card or a conversation.
Finished(s) == Taken(s) /\ file.rows[s].recorded /\ file.rows[s].cleaned
Apart(q, u) == q.worker /= u.worker /\ q.card /= u.card /\ q.conversation /= u.conversation
ArmsAreComparable ==
    Exists =>
        /\ \A s, t \in Slot : Taken(t) /\ Rank(s) < Rank(t) => Finished(s)
        /\ file.status = "completed" => \A s \in Slot : Finished(s)
        /\ \A s, t \in Slot : s /= t =>
            \A q \in file.rows[s].taken, u \in file.rows[t].taken : Apart(q, u)

\* A summary that says the cleanup is complete has no arm left that was
\* started and not cleaned, aborted or not.
CleanupIsComplete ==
    Exists /\ CleanupComplete => \A s \in Slot : Taken(s) => file.rows[s].cleaned

\* A result counts as successful only with the right decision on exactly the
\* allowed evidence and no violation: the score alone reaches the threshold
\* on no other way.
SuccessIsEarned ==
    Exists => \A s \in Slot :
        LET e == file.rows[s].result.envelope
        IN  file.rows[s].result.successful =>
                /\ e.decision = Gold[s[1]].decision
                /\ e.selected = Gold[s[1]].allowed
                /\ ~ e.violations

=============================================================================
