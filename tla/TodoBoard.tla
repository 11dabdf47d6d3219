------------------------------ MODULE TodoBoard ------------------------------
(***************************************************************************)
(* The priority board: the handlers of bin/todo-server.py that change a    *)
(* card, and the fleet monitor that watches the cards: a worker thread of  *)
(* the server and the ledger of bin/fleet_monitor.py.                      *)
(*                                                                         *)
(* A handler runs under STORE_LOCK from load_board to save_board, so it is *)
(* one step.  The worker takes the lock twice and reads the roster in      *)
(* between; fleet_task_revision tells it whether the card was touched      *)
(* meanwhile.  Every handler stamps `updated', so a boolean stands for the *)
(* comparison of the two revisions.                                        *)
(*                                                                         *)
(* Left out: titles, pins and their order, the texts of comments, proof    *)
(* files, the messages of fanout, and the one-use token of Nightwatch.     *)
(***************************************************************************)
EXTENDS Naturals, FiniteSets, Sequences, SequencesExt

CONSTANTS
    Card,       \* identities of cards
    Test,       \* test cards: not monitored
    Agent,
    NoAgent,
    Start,      \* bound: boards and rosters to start from
    Wanted,     \* bound: the states clients ask for
    Shown,      \* bound: what rows of live agents change to
    MaxEvents,  \* size of FLEET_EVENTS
    MaxEdits,   \* bound: requests that change a card
    MaxReports, \* bound: changes in the life of agents
    MaxFaults   \* bound: failed sends and crashes

ASSUME CardAssumption ==
    /\ Test \subseteq Card /\ IsFiniteSet(Card) /\ Card # {} /\ NoAgent \notin Agent
ASSUME BoundAssumption ==
    /\ MaxEvents \in Nat \ {0} /\ MaxEdits \in Nat /\ MaxReports \in Nat /\ MaxFaults \in Nat

State    == {"needs_brainstorm", "working", "review", "done", "blocked",
             "cancelled", "recurring"}
Terminal == {"done", "cancelled"}

Monitor == {"review_ready", "blocked", "waiting_instruction", "benign_idle", "stale"}
Target  == {"nightwatch", "boss"}
Status  == {"missing", "gone", "blocked", "silent", "idle", "working"}
ASSUME ChoiceAssumption ==
    /\ Wanted \subseteq State /\ Shown \subseteq Status \ {"missing"}

\* `handoff': a Worker handoff of the current owner; `asked': the last comment
\* is the CEO's and the owner has not been heard of since.
CardRecord == [state : State, owner : Agent \cup {NoAgent}, required : BOOLEAN,
               proof : BOOLEAN, verified : BOOLEAN, replace : BOOLEAN,
               handoff : BOOLEAN, asked : BOOLEAN, monitor : Monitor \cup {""}]
NewCard == [state |-> "needs_brainstorm", owner |-> NoAgent, required |-> TRUE,
            proof |-> FALSE, verified |-> FALSE, replace |-> FALSE,
            handoff |-> FALSE, asked |-> FALSE, monitor |-> ""]

\* A board to start from is one that the handlers may have made of an empty
\* one: closed cards went through the evidence rule, open ones through owner's.
ASSUME StartAssumption == \A start \in Start :
    LET b == start.board IN
    /\ DOMAIN b \subseteq Card /\ b \in [DOMAIN b -> CardRecord]
    /\ start.roster \in [Agent -> [card : Card, status : Status]]
    /\ \A c \in DOMAIN b :
         b[c].state = "done" => b[c].verified /\ (b[c].required => b[c].proof)
    /\ \A c, d \in DOMAIN b :
         c # d /\ {b[c].state, b[d].state} \cap Terminal = {} /\ b[c].owner # NoAgent
         => b[c].owner # b[d].owner

\* What the monitor's notification digest is computed from.
Digest == [state : Monitor \cup {""}, owner : Agent \cup {NoAgent},
           handoff : BOOLEAN, proof : BOOLEAN]
Entry  == [digest : Digest, delivered : SUBSET Target]
NoEntry == [digest |-> [state |-> "", owner |-> NoAgent, handoff |-> FALSE,
                        proof |-> FALSE],
            delivered |-> Target]

VARIABLES
    live,       \* cards on the board
    unused,     \* identities not handed out yet
    board,      \* the cards
    roster,     \* agents: their card and what their row says
    events,     \* FLEET_EVENTS
    worker,     \* the fleet worker thread
    ledger,     \* run/fleet-monitor.json
    sent,       \* history: targets the current digest of a card was sent to
    loose,      \* history: cards reopened by someone else than the CEO
    edits, reports, faults      \* bound counters

cards  == <<live, unused, board, loose>>
fleet  == <<events, worker, ledger, sent>>
vars   == <<cards, roster, fleet, edits, reports, faults>>

\* `pending': the targets still to be told; `row' and `asked' are what the
\* worker found in the roster; `same': the card was not touched since.
Worker == [pc : {"wait", "look", "observe", "send", "ack"}, card : Card,
           owner : Agent \cup {NoAgent}, row : Status, asked : BOOLEAN,
           same : BOOLEAN, pending : SUBSET Target]
NoWork == [pc |-> "wait", card |-> CHOOSE c \in Card : TRUE, owner |-> NoAgent,
           row |-> "missing", asked |-> FALSE, same |-> TRUE, pending |-> {}]

TypeOK ==
    /\ live \in SUBSET Card /\ unused \in SUBSET Card /\ loose \in SUBSET Card
    /\ board \in [Card -> CardRecord]
    /\ roster \in [Agent -> [card : Card, status : Status]]
    /\ events \in Seq(Card) /\ Len(events) <= MaxEvents
    /\ worker \in Worker
    /\ ledger \in [Card -> Entry]
    /\ sent \in [Card -> SUBSET Target]
    /\ edits \in 0 .. MaxEdits /\ reports \in 0 .. MaxReports /\ faults \in 0 .. MaxFaults

Alive(a) == roster[a].status \notin {"missing", "gone"}

Init ==
    /\ \E start \in Start :
        /\ live = DOMAIN start.board /\ unused = Card \ live
        /\ board = [c \in Card |-> IF c \in live THEN start.board[c] ELSE NewCard]
        /\ roster = start.roster
    /\ loose = {}
    /\ events = <<>> /\ worker = NoWork
    /\ ledger = [c \in Card |-> NoEntry] /\ sent = [c \in Card |-> {}]
    /\ edits = 0 /\ reports = 0 /\ faults = 0

-----------------------------------------------------------------------------
(* Handlers                                                                *)

\* Mutant: the queue has no limit.
QueuedAlways(c, q) == IF c \in Test THEN q ELSE Append(q, c)

\* put_nowait: an event that finds the queue full is dropped.
Queued(c, q) == IF c \in Test \/ Len(q) >= MaxEvents THEN q ELSE Append(q, c)

\* The card gets a new `updated' and the board is saved.  Handlers remove one
\* card at a time, which save_board's guard against a shrink always lets pass.
Touch(c) ==
    /\ edits < MaxEdits
    /\ edits' = edits + 1
    /\ worker' = IF worker.pc \in {"look", "observe"} /\ worker.card = c
                 THEN [worker EXCEPT !.same = FALSE] ELSE worker
    /\ UNCHANGED <<roster, ledger, sent, reports, faults>>

Add ==
    \E c \in unused, required \in BOOLEAN :
        /\ Touch(c)
        /\ live' = live \cup {c} /\ unused' = unused \ {c}
        /\ board' = [board EXCEPT ![c].required = required]
        /\ UNCHANGED <<events, loose>>

Delete ==
    \E c \in live :
        /\ Touch(c)
        /\ live' = live \ {c}
        /\ board' = [board EXCEPT ![c] = NewCard]
        /\ loose' = loose \ {c}
        /\ UNCHANGED <<unused, events>>

Verified(old, new, requested, current) ==
    CASE new = "done" /\ old # "done" -> requested = "yes"
      [] old \in Terminal /\ new \notin Terminal -> FALSE
      [] OTHER -> IF requested = "none" THEN current ELSE requested = "yes"

\* Mutant: the evidence rule looks at the policy the card had.
DoneAllowedOld(card, required, verified) ==
    (card.required => card.proof) /\ verified

DoneAllowed(card, required, verified) == (required => card.proof) /\ verified

\* Mutant: a card reopened by the CEO keeps its owner.
ReopenedKept(card, new, by) == card.replace

\* close_reopen: the CEO reopens a card for a fresh owner.
Reopened(card, new, by) ==
    card.replace \/ (by = "CEO" /\ card.state \in Terminal /\ new \notin Terminal)

\* Nightwatch may not close a card.
ChangeState(c, by, new, requested, required) ==
    LET card     == board[c]
        verified == Verified(card.state, new, requested, card.verified)
    IN  /\ ~(by = "Nightwatch" /\ new = "done")
        /\ new = "done" => DoneAllowed(card, required, verified)
        /\ Touch(c)
        /\ board' = [board EXCEPT ![c] =
                        [@ EXCEPT !.state = new, !.required = required,
                                  !.verified = verified,
                                  !.replace = Reopened(card, new, by)]]
        /\ loose' = IF by # "CEO" /\ card.state \in Terminal /\ new \notin Terminal
                    THEN loose \cup {c} ELSE loose
        /\ events' = Queued(c, events)
        /\ UNCHANGED <<live, unused>>

Request == {"none", "yes", "no"}
Writer  == {"CEO", "Boss", "Nightwatch"}

SetCard ==
    \E c \in live, by \in Writer, new \in Wanted, requested \in Request,
       required \in BOOLEAN :
        ChangeState(c, by, new, requested, required)

\* A request with a stale expected_updated is refused; without one, or with the
\* card's own, it is this.
SetStatus ==
    \E c \in live, by \in Writer, new \in Wanted, requested \in Request :
        ChangeState(c, by, new, requested, board[c].required)

\* Only the monitor reads comments, and not those of test cards.
Comment ==
    \E c \in live \ Test : \E by \in {"CEO", "Boss", board[c].owner} :
        /\ Touch(c)
        /\ board' = [board EXCEPT ![c].asked = (by = "CEO"),
                                  ![c].handoff = @ \/ by \in Agent]
        /\ events' = Queued(c, events)
        /\ UNCHANGED <<live, unused, loose>>

Proof ==
    \E c \in live :
        /\ Touch(c)
        /\ board' = [board EXCEPT ![c].proof = TRUE]
        /\ UNCHANGED <<live, unused, loose, events>>

ValidOwner(c, a) == Alive(a) /\ roster[a].card = c

OwnerInUse(c, a) ==
    \E d \in live \ {c} : board[d].owner = a /\ board[d].state \notin Terminal

\* assign wants no other owner, reopen a pending replacement and a fresh agent;
\* replace takes any.
OwnerAllowed(card, a, action) ==
    CASE action = "assign"  -> card.owner \in {NoAgent, a}
      [] action = "reopen"  -> card.replace /\ card.owner # a
      [] action = "replace" -> TRUE

\* A card that waits goes back to work with its new owner.
OwnedCard(card, a) ==
    LET waiting == card.state \in {"needs_brainstorm", "review"} IN
    [card EXCEPT !.owner = a, !.replace = FALSE, !.handoff = FALSE,
                 !.state = IF waiting THEN "working" ELSE @,
                 !.verified = @ /\ ~waiting]

Owner ==
    \E c \in live, a \in Agent, action \in {"assign", "replace", "reopen"} :
        /\ ValidOwner(c, a)
        /\ ~OwnerInUse(c, a)
        /\ OwnerAllowed(board[c], a, action)
        /\ Touch(c)
        /\ board' = [board EXCEPT ![c] = OwnedCard(board[c], a)]
        /\ loose' = loose \ {c}
        /\ events' = Queued(c, events)
        /\ UNCHANGED <<live, unused>>

\* The queue client reports an end, a stop or a heartbeat of a card's owner.
MonitorEvent ==
    \E c \in live :
        /\ board[c].state \notin Terminal /\ ~board[c].replace
        /\ events # Queued(c, events) /\ events' = Queued(c, events)
        /\ UNCHANGED <<cards, roster, worker, ledger, sent, edits, reports,
                       faults>>

-----------------------------------------------------------------------------
(* The agents, external to this component                                  *)

\* mp spawn --owner-task, under a name no live agent has.
Spawn ==
    \E a \in Agent, c \in live :
        /\ ~Alive(a) /\ reports < MaxReports
        /\ roster' = [roster EXCEPT ![a] = [card |-> c, status |-> "working"]]
        /\ reports' = reports + 1
        /\ UNCHANGED <<cards, fleet, edits, faults>>

\* The row of a live agent changes.  A heartbeat is newer than any comment.
Report ==
    \E a \in Agent, s \in Shown :
        /\ Alive(a) /\ roster[a].status # s /\ reports < MaxReports
        /\ roster' = [roster EXCEPT ![a].status = s]
        /\ board' = IF s \in {"gone", "silent"} THEN board
                    ELSE [c \in Card |-> IF board[c].owner = a
                                         THEN [board[c] EXCEPT !.asked = FALSE]
                                         ELSE board[c]]
        /\ reports' = reports + 1
        /\ UNCHANGED <<live, unused, loose, fleet, edits, faults>>

-----------------------------------------------------------------------------
(* The fleet monitor                                                       *)

Room == MaxEvents - Len(events)

\* idle_watch puts every card on the queue, every few minutes, in the order of
\* the board and as long as there is room.
Heartbeat ==
    /\ \E order \in SetToSeqs(live \ Test) : events' = events \o SubSeq(order, 1, Min({Len(order), Room}))
    /\ events' # events
    /\ UNCHANGED <<cards, roster, worker, ledger, sent, edits, reports, faults>>

\* process_fleet_event: a copy of the card, under the lock.
Take ==
    /\ worker.pc = "wait" /\ events # <<>>
    /\ events' = Tail(events)
    /\ worker' = IF Head(events) \in live
                 THEN [NoWork EXCEPT !.pc = "look", !.card = Head(events),
                                     !.owner = board[Head(events)].owner]
                 ELSE NoWork
    /\ UNCHANGED <<cards, roster, ledger, sent, edits, reports, faults>>

\* The row of the copy's owner, without the lock.
LookUp ==
    /\ worker.pc = "look"
    /\ worker' = [worker EXCEPT
                    !.pc = "observe",
                    !.row = IF worker.owner \in Agent THEN roster[worker.owner].status
                            ELSE "missing",
                    !.asked = board[worker.card].asked]
    /\ UNCHANGED <<cards, roster, events, ledger, sent, edits, reports, faults>>

Classify(card, row, asked) ==
    CASE card.state \in Terminal \/ card.replace      -> "benign_idle"
      [] card.owner = NoAgent \/ row = "gone"         -> "stale"
      [] card.state = "review" /\ card.handoff        -> "review_ready"
      [] card.state = "blocked" \/ row = "blocked"    -> "blocked"
      [] row \in {"missing", "silent"}                -> "stale"
      [] row = "idle" /\ asked                        -> "waiting_instruction"
      [] OTHER                                        -> "benign_idle"

Observed == LET card == board[worker.card] IN
    [state |-> Classify(card, worker.row, worker.asked), owner |-> card.owner,
     handoff |-> card.handoff, proof |-> card.proof]

\* Ledger.observe: a digest that changed starts a new notification; a benign
\* one has nothing to deliver.
ObservedEntry ==
    IF ledger[worker.card].digest = Observed THEN ledger[worker.card]
    ELSE [digest |-> Observed,
          delivered |-> IF Observed.state = "benign_idle" THEN Target ELSE {}]

LedgerWrite ==
    /\ ledger' = [ledger EXCEPT ![worker.card] = ObservedEntry]
    /\ sent' = IF ObservedEntry = ledger[worker.card] THEN sent
               ELSE [sent EXCEPT ![worker.card] = {}]

\* Mutant: the copy's revision is not compared with the card's.
SameCardAlways == TRUE

SameCard == worker.same

Requeue ==
    /\ worker.pc = "observe" /\ ~SameCard
    /\ worker' = NoWork
    /\ events' = IF worker.card \in live THEN Queued(worker.card, events) ELSE events
    /\ UNCHANGED <<cards, roster, ledger, sent, edits, reports, faults>>

Observing == worker.pc = "observe" /\ SameCard /\ worker.card \in live

\* Mutant: only a new notification is sent.
UntoldOnce == IF ledger[worker.card].digest = Observed THEN {} ELSE Target

Untold == Target \ ObservedEntry.delivered

\* The projection is stored on the card, and the targets not told are next.
Observe ==
    /\ Observing
    /\ LedgerWrite
    /\ board' = [board EXCEPT ![worker.card].monitor = Observed.state]
    /\ worker' = IF Untold = {} THEN NoWork
                 ELSE [NoWork EXCEPT !.pc = "send", !.card = worker.card, !.pending = Untold]
    /\ UNCHANGED <<live, unused, loose, roster, events, edits, reports, faults>>

\* Nightwatch is told before Boss.
Addressee == IF "nightwatch" \in worker.pending THEN "nightwatch" ELSE "boss"
Others    == worker.pending \ {Addressee}
NextSend(others) == IF others = {} THEN NoWork
                    ELSE [worker EXCEPT !.pc = "send", !.pending = others]

Send ==
    /\ worker.pc = "send"
    /\ worker' = [worker EXCEPT !.pc = "ack"]
    /\ sent' = [sent EXCEPT ![worker.card] = @ \cup {Addressee}]
    /\ UNCHANGED <<cards, roster, events, ledger, edits, reports, faults>>

\* mp send fails, or takes more than its fifteen seconds: the exception ends
\* the round for the other target too.
SendFails ==
    /\ worker.pc = "send" /\ faults < MaxFaults
    /\ faults' = faults + 1
    /\ worker' \in {NextSend(Others), NoWork}
    /\ UNCHANGED <<cards, roster, events, ledger, sent, edits, reports>>

Acked(delivered) == delivered \cup {Addressee}

\* Ledger.ack.  Nobody else writes the ledger, so the digest is still the one
\* that was sent.
Ack ==
    /\ worker.pc = "ack"
    /\ ledger' = [ledger EXCEPT ![worker.card].delivered = Acked(@)]
    /\ worker' = NextSend(Others)
    /\ UNCHANGED <<cards, roster, events, sent, edits, reports, faults>>

\* The server dies and is started again: the queue and the worker's round are
\* gone, also between the write of the ledger and that of the board.
Crash ==
    /\ faults < MaxFaults /\ (events # <<>> \/ worker # NoWork)
    /\ faults' = faults + 1
    /\ events' = <<>> /\ worker' = NoWork
    /\ \/ UNCHANGED <<ledger, sent>>
       \/ Observing /\ LedgerWrite
    /\ UNCHANGED <<cards, roster, edits, reports>>

-----------------------------------------------------------------------------
Edit    == Add \/ Delete \/ SetCard \/ SetStatus \/ Comment \/ Proof \/ Owner
Environment == Edit \/ MonitorEvent \/ Spawn \/ Report
Fleet   == Take \/ LookUp \/ Requeue \/ Observe \/ Send \/ SendFails \/ Ack

Next == Environment \/ Heartbeat \/ Fleet \/ Crash

Spec == Init /\ [][Next]_vars

\* The worker loops for ever and idle_watch every few minutes; a failed send is
\* a fault, and those are bounded.
FairSpec == Spec /\ WF_vars(Fleet) /\ WF_vars(Heartbeat)

-----------------------------------------------------------------------------
(* Properties                                                              *)

\* Whatever handlers wrote it, a card that is done was verified, and one that
\* requires evidence has some: the rule of update and status holds for every
\* later change of its policy, state and owner too.
DoneIsProven ==
    \A c \in live : board[c].state = "done" =>
        board[c].verified /\ (board[c].required => board[c].proof)

\* Two open cards have one owner only when one of them waits for its
\* replacement, or was reopened by someone else than the CEO: owner's check
\* looks at open cards, and cards open again without it.
OneCardPerOwner ==
    \A c, d \in live :
        \/ c = d \/ board[c].owner = NoAgent \/ board[c].owner # board[d].owner
        \/ {board[c].state, board[d].state} \cap Terminal # {}
        \/ board[c].replace \/ board[d].replace
        \/ {c, d} \cap loose # {}

\* The monitor judges a card by the roster row of that card's owner, though it
\* read the row before it took the lock.
ObservesItsOwner ==
    [][\A c \in Card : ledger'[c].digest # ledger[c].digest => worker.owner = board[c].owner]_vars

\* What the monitor noticed about a card gets to Nightwatch and to Boss, or is
\* overtaken: lost events, failed sends and restarts only delay it.
AlarmIsDelivered ==
    \A c \in Card \ Test :
        (c \in live /\ ledger[c].delivered # Target) ~> (c \notin live \/ sent[c] = Target
                                            \/ ledger[c].digest.state = "benign_idle")
=============================================================================
