--------------------------- MODULE TodoBoardProofs ---------------------------
(***************************************************************************)
(* Theorems about TodoBoard, for any cards, agents and boards to start     *)
(* from, any size of the event queue and any number of edits, reports and  *)
(* faults.                                                                 *)
(***************************************************************************)
EXTENDS TodoBoard, SequenceTheorems, FiniteSetTheorems, TLAPS

-----------------------------------------------------------------------------
(* Types                                                                   *)

LEMMA NewCardType == NewCard \in CardRecord
BY DEF NewCard, CardRecord, State

LEMMA NoWorkType == NoWork \in Worker /\ NoWork.pc = "wait"
<1>1. (CHOOSE c \in Card : TRUE) \in Card
  BY CardAssumption
<1> QED
  BY <1>1 DEF NoWork, Worker, Status, Target

LEMMA NoEntryType == NoEntry \in Entry
BY DEF NoEntry, Entry, Digest

\* The queue takes a card, or stays as it was.
LEMMA QueuedType ==
    ASSUME NEW c \in Card, NEW q \in Seq(Card), Len(q) <= MaxEvents
    PROVE  Queued(c, q) \in Seq(Card) /\ Len(Queued(c, q)) <= MaxEvents
BY BoundAssumption DEF Queued

LEMMA SmallerOf ==
    ASSUME NEW a \in Nat, NEW b \in Nat
    PROVE  Min({a, b}) \in Nat /\ Min({a, b}) <= a /\ Min({a, b}) <= b
<1>1. \E x \in {a, b} : \A y \in {a, b} : x <= y
  OBVIOUS
<1>2. Min({a, b}) \in {a, b} /\ \A y \in {a, b} : Min({a, b}) <= y
  BY <1>1 DEF Min
<1> QED
  BY <1>2

\* A whole heartbeat fits into the queue.
LEMMA HeartbeatType ==
    ASSUME TypeOK, NEW order \in SetToSeqs(live \ Test)
    PROVE  LET q == events \o SubSeq(order, 1, Min({Len(order), Room}))
           IN  q \in Seq(Card) /\ Len(q) <= MaxEvents
<1> DEFINE n == Min({Len(order), Room})
           s == SubSeq(order, 1, n)
<1>1. IsFiniteSet(live \ Test) /\ live \subseteq Card
  BY CardAssumption, FS_Subset DEF TypeOK
<1>2. Cardinality(live \ Test) \in Nat
  BY <1>1, FS_CardinalityType
<1>3. order \in [1 .. Cardinality(live \ Test) -> live \ Test]
  BY DEF SetToSeqs
<1>4. order \in Seq(Card) /\ Len(order) = Cardinality(live \ Test)
  <2>1. order \in [1 .. Cardinality(live \ Test) -> Card]
    BY <1>1, <1>3
  <2>2. \A m \in Nat : \A f \in [1 .. m -> Card] : f \in Seq(Card) /\ Len(f) = m
    OBVIOUS
  <2> QED
    BY <1>2, <2>1, <2>2
<1>5. events \in Seq(Card) /\ Len(events) \in Nat /\ Len(events) <= MaxEvents
  BY DEF TypeOK
<1>6. Room \in Nat /\ Len(events) + Room = MaxEvents
  BY <1>5, BoundAssumption DEF Room
<1>7. n \in Nat /\ n <= Len(order) /\ n <= Room
  BY <1>2, <1>4, <1>6, SmallerOf
<1> HIDE DEF n
<1>8. \A i \in 1 .. n : order[i] \in Card
  BY <1>4, <1>7
<1>9. s \in Seq(Card) /\ Len(s) = n
  BY <1>7, <1>8, SubSeqProperties
<1>10. events \o s \in Seq(Card) /\ Len(events \o s) = Len(events) + n
  BY <1>5, <1>9, ConcatProperties
<1>11. Len(events \o s) <= MaxEvents
  BY <1>5, <1>6, <1>7, <1>10
<1> QED
  BY <1>10, <1>11 DEF n

\* The types of the queue, and of what an edit leaves alone beside it.
QueueType == events \in Seq(Card) /\ Len(events) <= MaxEvents
RestTypes ==
    /\ roster \in [Agent -> [card : Card, status : Status]]
    /\ worker \in Worker
    /\ ledger \in [Card -> Entry] /\ sent \in [Card -> SUBSET Target]
    /\ edits \in 0 .. MaxEdits /\ reports \in 0 .. MaxReports /\ faults \in 0 .. MaxFaults

\* What a handler changes beside the cards.
LEMMA TouchType ==
    ASSUME TypeOK, NEW c \in Card, Touch(c)
    PROVE  RestTypes'
<1>1. edits' \in 0 .. MaxEdits
  BY BoundAssumption DEF TypeOK, Touch
<1>2. worker' \in Worker
  BY DEF TypeOK, Touch, Worker
<1> QED
  BY <1>1, <1>2 DEF TypeOK, RestTypes, Touch

LEMMA InitType == Init => TypeOK
<1> SUFFICES ASSUME Init PROVE TypeOK
  OBVIOUS
<1>1. PICK start \in Start :
        /\ live = DOMAIN start.board /\ unused = Card \ live
        /\ board = [c \in Card |-> IF c \in live THEN start.board[c] ELSE NewCard]
        /\ roster = start.roster
  BY DEF Init
<1>2. /\ DOMAIN start.board \subseteq Card
      /\ start.board \in [DOMAIN start.board -> CardRecord]
      /\ start.roster \in [Agent -> [card : Card, status : Status]]
  BY StartAssumption
<1>3. /\ live \in SUBSET Card /\ unused \in SUBSET Card
      /\ board \in [Card -> CardRecord]
      /\ roster \in [Agent -> [card : Card, status : Status]]
  BY <1>1, <1>2, NewCardType
<1>4. events \in Seq(Card) /\ Len(events) <= MaxEvents
  BY BoundAssumption DEF Init
<1>5. /\ loose \in SUBSET Card /\ worker \in Worker
      /\ ledger \in [Card -> Entry] /\ sent \in [Card -> SUBSET Target]
  BY NoWorkType, NoEntryType DEF Init
<1>6. edits \in 0 .. MaxEdits /\ reports \in 0 .. MaxReports /\ faults \in 0 .. MaxFaults
  BY BoundAssumption DEF Init
<1> QED
  BY <1>3, <1>4, <1>5, <1>6 DEF TypeOK

LEMMA AddType == ASSUME TypeOK, Add PROVE TypeOK'
<1>1. PICK c \in unused, required \in BOOLEAN :
        /\ Touch(c)
        /\ live' = live \cup {c} /\ unused' = unused \ {c}
        /\ board' = [board EXCEPT ![c].required = required]
        /\ UNCHANGED <<events, loose>>
  BY DEF Add
<1>2. c \in Card
  BY DEF TypeOK
<1>3. board' \in [Card -> CardRecord]
  <2>1. board[c] \in CardRecord
    BY <1>2 DEF TypeOK
  <2>2. [board[c] EXCEPT !.required = required] \in CardRecord
    BY <2>1 DEF CardRecord
  <2> QED
    BY <1>1, <1>2, <2>2 DEF TypeOK
<1>4. RestTypes'
  BY <1>1, <1>2, TouchType
<1> QED
  BY <1>1, <1>2, <1>3, <1>4 DEF TypeOK, RestTypes

LEMMA DeleteType == ASSUME TypeOK, Delete PROVE TypeOK'
<1>1. PICK c \in live :
        /\ Touch(c)
        /\ live' = live \ {c}
        /\ board' = [board EXCEPT ![c] = NewCard]
        /\ loose' = loose \ {c}
        /\ UNCHANGED <<unused, events>>
  BY DEF Delete
<1>2. c \in Card
  BY DEF TypeOK
<1>3. board' \in [Card -> CardRecord]
  BY <1>1, <1>2, NewCardType DEF TypeOK
<1>4. RestTypes'
  BY <1>1, <1>2, TouchType
<1> QED
  BY <1>1, <1>2, <1>3, <1>4 DEF TypeOK, RestTypes

\* How update and status change a card.
ChangedCard(card, by, new, requested, required) ==
    [card EXCEPT !.state = new, !.required = required,
                 !.verified = Verified(card.state, new, requested, card.verified),
                 !.replace = Reopened(card, new, by)]

LEMMA ChangedCardType ==
    ASSUME NEW card \in CardRecord, NEW by \in Writer, NEW new \in State,
           NEW requested \in Request, NEW required \in BOOLEAN
    PROVE  LET changed == ChangedCard(card, by, new, requested, required)
           IN  /\ changed \in CardRecord
               /\ changed.owner = card.owner /\ changed.proof = card.proof
               /\ changed.state = new /\ changed.required = required
               /\ changed.verified = Verified(card.state, new, requested, card.verified)
               /\ changed.replace = Reopened(card, new, by)
<1>1. Verified(card.state, new, requested, card.verified) \in BOOLEAN
  BY DEF Verified, CardRecord
<1>2. Reopened(card, new, by) \in BOOLEAN
  BY DEF Reopened, CardRecord
<1> QED
  BY <1>1, <1>2 DEF ChangedCard, CardRecord

LEMMA ChangeStateType ==
    ASSUME TypeOK, NEW c \in live, NEW by \in Writer, NEW new \in State,
           NEW requested \in Request, NEW required \in BOOLEAN,
           ChangeState(c, by, new, requested, required)
    PROVE  TypeOK'
<1>1. c \in Card /\ board[c] \in CardRecord
  BY DEF TypeOK
<1>2. board' = [board EXCEPT ![c] = ChangedCard(board[c], by, new, requested, required)]
  BY <1>1 DEF ChangeState, ChangedCard, TypeOK
<1>3. board' \in [Card -> CardRecord]
  BY <1>1, <1>2, ChangedCardType DEF TypeOK
<1>4. Touch(c) /\ events' = Queued(c, events) /\ UNCHANGED <<live, unused>>
  BY DEF ChangeState
<1>5. loose' \in SUBSET Card
  BY <1>1 DEF ChangeState, TypeOK
<1>6. events' \in Seq(Card) /\ Len(events') <= MaxEvents
  BY <1>1, <1>4, QueuedType DEF TypeOK
<1>7. RestTypes'
  BY <1>1, <1>4, TouchType
<1> QED
  BY <1>3, <1>4, <1>5, <1>6, <1>7 DEF TypeOK, RestTypes

\* update and status are one step: a change of state, with the policy or not.
LEMMA ChangeStateOf ==
    ASSUME TypeOK, SetCard \/ SetStatus
    PROVE  \E c \in live, by \in Writer, new \in State, requested \in Request,
              required \in BOOLEAN : ChangeState(c, by, new, requested, required)
<1>1. CASE SetCard
  BY <1>1, ChoiceAssumption DEF SetCard
<1>2. CASE SetStatus
  <2>1. PICK c \in live, by \in Writer, new \in Wanted, requested \in Request :
            ChangeState(c, by, new, requested, board[c].required)
    BY <1>2 DEF SetStatus
  <2>2. board[c].required \in BOOLEAN
    BY DEF TypeOK, CardRecord
  <2> QED
    BY <2>1, <2>2, ChoiceAssumption
<1> QED
  BY <1>1, <1>2

LEMMA CommentType == ASSUME TypeOK, Comment PROVE TypeOK'
<1>1. PICK c \in live \ Test : \E by \in {"CEO", "Boss", board[c].owner} :
        /\ Touch(c)
        /\ board' = [board EXCEPT ![c].asked = (by = "CEO"),
                                  ![c].handoff = @ \/ by \in Agent]
        /\ events' = Queued(c, events)
        /\ UNCHANGED <<live, unused, loose>>
  BY DEF Comment
<1>2. PICK by \in {"CEO", "Boss", board[c].owner} :
        board' = [board EXCEPT ![c].asked = (by = "CEO"),
                               ![c].handoff = @ \/ by \in Agent]
  BY <1>1
<1>3. c \in Card /\ board[c] \in CardRecord
  BY DEF TypeOK
<1>4. \A b1, b2 \in BOOLEAN : [board[c] EXCEPT !.asked = b1, !.handoff = b2] \in CardRecord
  BY <1>3 DEF CardRecord
<1> DEFINE asked_ == (by = "CEO")
           handoff_ == board[c].handoff \/ by \in Agent
<1>5. asked_ \in BOOLEAN /\ handoff_ \in BOOLEAN
  OBVIOUS
<1>6. board' = [board EXCEPT ![c] = [board[c] EXCEPT !.asked = asked_, !.handoff = handoff_]]
  BY <1>2, <1>3 DEF TypeOK, CardRecord
<1> HIDE DEF asked_, handoff_
<1>7. board' \in [Card -> CardRecord]
  BY <1>3, <1>4, <1>5, <1>6 DEF TypeOK
<1>8. QueueType'
  BY <1>1, <1>3, QueuedType DEF TypeOK, QueueType
<1>9. RestTypes'
  BY <1>1, <1>3, TouchType
<1> QED
  BY <1>1, <1>7, <1>8, <1>9 DEF TypeOK, QueueType, RestTypes

LEMMA ProofType == ASSUME TypeOK, Proof PROVE TypeOK'
<1>1. PICK c \in live :
        /\ Touch(c)
        /\ board' = [board EXCEPT ![c].proof = TRUE]
        /\ UNCHANGED <<live, unused, loose, events>>
  BY DEF Proof
<1>2. c \in Card /\ board[c] \in CardRecord
  BY DEF TypeOK
<1>3. [board[c] EXCEPT !.proof = TRUE] \in CardRecord
  BY <1>2 DEF CardRecord
<1>4. board' \in [Card -> CardRecord]
  BY <1>1, <1>2, <1>3 DEF TypeOK
<1>5. RestTypes'
  BY <1>1, <1>2, TouchType
<1> QED
  BY <1>1, <1>4, <1>5 DEF RestTypes, TypeOK

LEMMA OwnedCardType ==
    ASSUME NEW card \in CardRecord, NEW a \in Agent
    PROVE  LET owned == OwnedCard(card, a)
           IN  /\ owned \in CardRecord
               /\ owned.owner = a /\ owned.proof = card.proof
               /\ owned.required = card.required /\ ~owned.replace
               /\ \/ owned.state = card.state /\ (owned.verified = card.verified)
                  \/ owned.state = "working" /\ card.state \notin Terminal
<1> DEFINE waiting == card.state \in {"needs_brainstorm", "review"}
           state_ == IF waiting THEN "working" ELSE card.state
           verified_ == card.verified /\ ~waiting
<1>1. state_ \in State /\ verified_ \in BOOLEAN
  BY DEF CardRecord, State
<1>2. \/ state_ = card.state /\ (verified_ = card.verified)
      \/ state_ = "working" /\ card.state \notin Terminal
  BY DEF CardRecord, Terminal
<1>3. OwnedCard(card, a) = [card EXCEPT !.owner = a, !.replace = FALSE, !.handoff = FALSE,
                                        !.state = state_, !.verified = verified_]
  BY DEF OwnedCard
<1> HIDE DEF state_, verified_
<1>4. OwnedCard(card, a) \in CardRecord
  BY <1>1, <1>3 DEF CardRecord
<1>5. /\ OwnedCard(card, a).owner = a /\ OwnedCard(card, a).proof = card.proof
      /\ OwnedCard(card, a).required = card.required /\ ~OwnedCard(card, a).replace
      /\ OwnedCard(card, a).state = state_ /\ OwnedCard(card, a).verified = verified_
  BY <1>3 DEF CardRecord
<1> QED
  BY <1>2, <1>4, <1>5

LEMMA OwnerSteps ==
    ASSUME Owner
    PROVE  \E c \in live, a \in Agent :
            /\ ~OwnerInUse(c, a) /\ Touch(c)
            /\ board' = [board EXCEPT ![c] = OwnedCard(board[c], a)]
            /\ loose' = loose \ {c} /\ events' = Queued(c, events)
            /\ UNCHANGED <<live, unused>>
BY DEF Owner

LEMMA OwnerType == ASSUME TypeOK, Owner PROVE TypeOK'
<1>1. PICK c \in live, a \in Agent :
        /\ Touch(c)
        /\ board' = [board EXCEPT ![c] = OwnedCard(board[c], a)]
        /\ loose' = loose \ {c} /\ events' = Queued(c, events)
        /\ UNCHANGED <<live, unused>>
  BY OwnerSteps
<1>2. c \in Card /\ board[c] \in CardRecord
  BY DEF TypeOK
<1>3. board' \in [Card -> CardRecord]
  BY <1>1, <1>2, OwnedCardType DEF TypeOK
<1>4. QueueType'
  BY <1>1, <1>2, QueuedType DEF TypeOK, QueueType
<1>5. RestTypes'
  BY <1>1, <1>2, TouchType
<1> QED
  BY <1>1, <1>3, <1>4, <1>5 DEF TypeOK, QueueType, RestTypes

LEMMA EnvironmentType ==
    ASSUME TypeOK, MonitorEvent \/ Spawn \/ Report
    PROVE  TypeOK'
<1>1. CASE MonitorEvent
  <2>1. PICK c \in live : events' = Queued(c, events)
    BY <1>1 DEF MonitorEvent
  <2>2. QueueType'
    BY <2>1, QueuedType DEF TypeOK, QueueType
  <2> QED
    BY <1>1, <2>2 DEF MonitorEvent, cards, TypeOK, QueueType
<1>2. CASE Spawn
  <2>1. PICK a \in Agent, c \in live :
            roster' = [roster EXCEPT ![a] = [card |-> c, status |-> "working"]]
    BY <1>2 DEF Spawn
  <2>2. roster' \in [Agent -> [card : Card, status : Status]]
    BY <2>1 DEF TypeOK, Status
  <2>3. reports' \in 0 .. MaxReports
    BY <1>2, BoundAssumption DEF Spawn, TypeOK
  <2> QED
    BY <1>2, <2>2, <2>3 DEF Spawn, cards, fleet, TypeOK
<1>3. CASE Report
  <2>1. PICK a \in Agent, s \in Shown :
            /\ roster' = [roster EXCEPT ![a].status = s]
            /\ board' = IF s \in {"gone", "silent"} THEN board
                        ELSE [c \in Card |-> IF board[c].owner = a
                                             THEN [board[c] EXCEPT !.asked = FALSE]
                                             ELSE board[c]]
    BY <1>3 DEF Report
  <2>2. roster' \in [Agent -> [card : Card, status : Status]]
    BY <2>1, ChoiceAssumption DEF TypeOK
  <2>3. \A card \in CardRecord : [card EXCEPT !.asked = FALSE] \in CardRecord
    BY DEF CardRecord
  <2>4. board' \in [Card -> CardRecord]
    BY <2>1, <2>3 DEF TypeOK
  <2>5. reports' \in 0 .. MaxReports
    BY <1>3, BoundAssumption DEF Report, TypeOK
  <2> QED
    BY <1>3, <2>2, <2>4, <2>5 DEF Report, fleet, TypeOK
<1> QED
  BY <1>1, <1>2, <1>3

LEMMA ObservedType == ASSUME TypeOK PROVE Observed \in Digest
<1>1. board[worker.card] \in CardRecord
  BY DEF TypeOK, Worker
<1>2. Classify(board[worker.card], worker.row, worker.asked) \in Monitor
  BY DEF Classify, Monitor
<1> QED
  BY <1>1, <1>2 DEF Observed, Digest, CardRecord

LEMMA LedgerWriteType ==
    ASSUME TypeOK, LedgerWrite
    PROVE  ledger' \in [Card -> Entry] /\ sent' \in [Card -> SUBSET Target]
<1>1. worker.card \in Card /\ ledger[worker.card] \in Entry
  BY DEF TypeOK, Worker
<1>2. ObservedEntry \in Entry
  BY <1>1, ObservedType DEF ObservedEntry, Entry
<1> QED
  BY <1>1, <1>2 DEF LedgerWrite, TypeOK

LEMMA NextSendType ==
    ASSUME TypeOK
    PROVE  NextSend(Others) \in Worker /\ Addressee \in Target
BY NoWorkType DEF TypeOK, NextSend, Others, Addressee, Target, Worker

LEMMA LookType == ASSUME TypeOK, Take \/ LookUp PROVE TypeOK'
<1>1. CASE Take
  <2>1. /\ Head(events) \in Card /\ Tail(events) \in Seq(Card)
        /\ Len(Tail(events)) = Len(events) - 1 /\ Len(events) \in Nat
    BY <1>1, HeadTailProperties DEF TypeOK, Take
  <2>2. QueueType'
    BY <1>1, <2>1, BoundAssumption DEF TypeOK, Take, QueueType
  <2>3. worker' \in Worker
    BY <1>1, <2>1, NoWorkType DEF TypeOK, Take, Worker, CardRecord
  <2> QED
    BY <1>1, <2>2, <2>3 DEF Take, TypeOK, QueueType, cards
<1>2. CASE LookUp
  <2>1. board[worker.card] \in CardRecord
    BY DEF TypeOK, Worker
  <2>2. board[worker.card].asked \in BOOLEAN
    BY <2>1 DEF CardRecord
  <2>3. worker.owner \in Agent => roster[worker.owner].status \in Status
    BY DEF TypeOK
  <2>4. worker' \in Worker
    BY <1>2, <2>2, <2>3 DEF LookUp, TypeOK, Worker, Status
  <2> QED
    BY <1>2, <2>4 DEF LookUp, TypeOK, cards
<1> QED
  BY <1>1, <1>2

LEMMA ObserveType == ASSUME TypeOK, Requeue \/ Observe PROVE TypeOK'
<1>0. worker.card \in Card
  BY DEF TypeOK, Worker
<1>1. CASE Requeue
  <2>1. QueueType'
    BY <1>0, <1>1, QueuedType DEF TypeOK, Requeue, QueueType
  <2> QED
    BY <1>1, <2>1, NoWorkType DEF Requeue, TypeOK, QueueType, cards
<1>2. CASE Observe
  <2>1. LedgerWrite /\ board' = [board EXCEPT ![worker.card].monitor = Observed.state]
    BY <1>2 DEF Observe
  <2>2. ledger' \in [Card -> Entry] /\ sent' \in [Card -> SUBSET Target]
    BY <2>1, LedgerWriteType
  <2>3. board[worker.card] \in CardRecord /\ Observed.state \in Monitor \cup {""}
    BY <1>0, ObservedType DEF TypeOK, Digest
  <2>4. [board[worker.card] EXCEPT !.monitor = Observed.state] \in CardRecord
    BY <2>3 DEF CardRecord
  <2>5. board' \in [Card -> CardRecord]
    BY <1>0, <2>1, <2>4 DEF TypeOK
  <2>6. worker' \in Worker
    <3>1. Untold \in SUBSET Target
      BY DEF Untold
    <3> QED
      BY <1>0, <1>2, <3>1, NoWorkType DEF Observe, Worker
  <2> QED
    BY <1>2, <2>2, <2>5, <2>6 DEF Observe, TypeOK
<1> QED
  BY <1>1, <1>2

LEMMA SendType == ASSUME TypeOK, Send \/ SendFails \/ Ack PROVE TypeOK'
<1>0. /\ worker.card \in Card /\ worker \in Worker /\ NextSend(Others) \in Worker
      /\ Addressee \in Target
  BY NextSendType DEF TypeOK, Worker
<1>1. CASE Send
  <2>1. worker' \in Worker
    BY <1>0, <1>1 DEF Send, Worker
  <2>2. sent' \in [Card -> SUBSET Target]
    BY <1>0, <1>1 DEF Send, TypeOK
  <2> QED
    BY <1>1, <2>1, <2>2 DEF Send, TypeOK, cards
<1>2. CASE SendFails
  <2>1. worker' \in Worker
    BY <1>0, <1>2, NoWorkType DEF SendFails
  <2>2. faults' \in 0 .. MaxFaults
    BY <1>2, BoundAssumption DEF SendFails, TypeOK
  <2> QED
    BY <1>2, <2>1, <2>2 DEF SendFails, TypeOK, cards
<1>3. CASE Ack
  <2>1. ledger[worker.card] \in Entry
    BY <1>0 DEF TypeOK
  <2>2. [ledger[worker.card] EXCEPT !.delivered = Acked(ledger[worker.card].delivered)] \in Entry
    BY <1>0, <2>1 DEF Entry, Acked
  <2>3. ledger' \in [Card -> Entry]
    BY <1>0, <1>3, <2>2 DEF Ack, TypeOK
  <2> QED
    BY <1>0, <1>3, <2>3 DEF Ack, TypeOK, cards
<1> QED
  BY <1>1, <1>2, <1>3

LEMMA CrashType == ASSUME TypeOK, Crash PROVE TypeOK'
<1>1. ledger' \in [Card -> Entry] /\ sent' \in [Card -> SUBSET Target]
  BY LedgerWriteType DEF Crash, TypeOK
<1>2. faults' \in 0 .. MaxFaults
  BY BoundAssumption DEF Crash, TypeOK
<1>3. QueueType'
  BY BoundAssumption DEF Crash, QueueType
<1> QED
  BY <1>1, <1>2, <1>3, NoWorkType DEF Crash, TypeOK, QueueType, cards

LEMMA NextType == ASSUME TypeOK, [Next]_vars PROVE TypeOK'
<1>1. CASE SetCard \/ SetStatus
  BY <1>1, ChangeStateOf, ChangeStateType
<1>2. CASE Heartbeat
  <2>1. PICK order \in SetToSeqs(live \ Test) :
            events' = events \o SubSeq(order, 1, Min({Len(order), Room}))
    BY <1>2 DEF Heartbeat
  <2>2. QueueType'
    BY <2>1, HeartbeatType DEF QueueType
  <2> QED
    BY <1>2, <2>2 DEF Heartbeat, TypeOK, QueueType, cards
<1>3. CASE UNCHANGED vars
  BY <1>3 DEF vars, cards, fleet, TypeOK
<1> QED
  BY <1>1, <1>2, <1>3, AddType, DeleteType, CommentType, ProofType, OwnerType,
     EnvironmentType, LookType, ObserveType, SendType, CrashType
  DEF Next, Environment, Edit, Fleet

\* Every variable keeps its type: handlers and worker store complete cards and
\* ledger entries, and the queue never grows past FLEET_EVENTS' size, whatever
\* the heartbeat puts into it.
THEOREM TypeCorrect == Spec => []TypeOK
<1>1. Init => TypeOK
  BY InitType
<1>2. TypeOK /\ [Next]_vars => TypeOK'
  BY NextType
<1> QED
  BY <1>1, <1>2, PTL DEF Spec

-----------------------------------------------------------------------------
(* What each step does to the cards.  An identity that is not on the board  *)
(* holds a blank card, so that it comes without an owner and not closed.   *)

Blank ==
    /\ live \cap unused = {}
    /\ \A c \in Card \ live : board[c].owner = NoAgent /\ board[c].state # "done"

\* The cards keep what the rules look at.
Kept(c) ==
    /\ board'[c].state = board[c].state /\ board'[c].owner = board[c].owner
    /\ board'[c].verified = board[c].verified /\ board'[c].required = board[c].required
    /\ board'[c].replace = board[c].replace
    /\ board[c].proof => board'[c].proof

\* A step that is neither Add, Delete, a change of state nor an assignment
\* leaves the rules' fields of every card alone; at most it adds a proof.
LEMMA OthersKeep ==
    ASSUME TypeOK, [Next]_vars
    PROVE  \/ Add \/ Delete \/ SetCard \/ SetStatus \/ Owner
           \/ UNCHANGED <<live, unused, loose>> /\ \A c \in Card : Kept(c)
<1>0. \A c \in Card : board[c] \in CardRecord
  BY DEF TypeOK
<1> DEFINE Same == UNCHANGED <<live, unused, loose>> /\ \A c \in Card : Kept(c)
<1>1. CASE Comment
  <2>1. PICK c \in live \ Test : \E by \in {"CEO", "Boss", board[c].owner} :
          /\ board' = [board EXCEPT ![c].asked = (by = "CEO"),
                                    ![c].handoff = @ \/ by \in Agent]
          /\ UNCHANGED <<live, unused, loose>>
    BY <1>1, Zenon DEF Comment
  <2>2. PICK by \in {"CEO", "Boss", board[c].owner} :
            board' = [board EXCEPT ![c].asked = (by = "CEO"),
                                   ![c].handoff = @ \/ by \in Agent]
    BY <2>1
  <2>3. ASSUME NEW d \in Card PROVE Kept(d)
    <3>1. CASE d # c
      BY <2>2, <3>1 DEF Kept, TypeOK
    <3>2. CASE d = c
      <4> DEFINE asked_ == (by = "CEO")
                 handoff_ == board[c].handoff \/ by \in Agent
      <4>1. board'[c] = [board[c] EXCEPT !.asked = asked_, !.handoff = handoff_]
        BY <1>0, <2>2, <3>2 DEF TypeOK, CardRecord
      <4> HIDE DEF asked_, handoff_
      <4> QED
        BY <1>0, <3>2, <4>1 DEF Kept, CardRecord
    <3> QED
      BY <3>1, <3>2
  <2> QED
    BY <2>1, <2>3
<1>2. CASE Proof
  <2>1. PICK c \in live :
          /\ board' = [board EXCEPT ![c].proof = TRUE]
          /\ UNCHANGED <<live, unused, loose, events>>
    BY <1>2 DEF Proof
  <2>2. ASSUME NEW d \in Card PROVE Kept(d)
    BY <1>0, <2>1 DEF Kept, TypeOK, CardRecord
  <2> QED
    BY <2>1, <2>2
<1>3. CASE Report
  <2>1. PICK a \in Agent, s \in Shown :
            board' = IF s \in {"gone", "silent"} THEN board
                     ELSE [c \in Card |-> IF board[c].owner = a
                                          THEN [board[c] EXCEPT !.asked = FALSE]
                                          ELSE board[c]]
    BY <1>3 DEF Report
  <2>2. ASSUME NEW d \in Card PROVE Kept(d)
    <3>1. board'[d] = board[d] \/ board'[d] = [board[d] EXCEPT !.asked = FALSE]
      BY <2>1
    <3> QED
      BY <1>0, <3>1 DEF Kept, CardRecord
  <2> QED
    BY <1>3, <2>2 DEF Report
<1>4. CASE Observe
  <2>1. board' = [board EXCEPT ![worker.card].monitor = Observed.state]
    BY <1>4 DEF Observe
  <2>2. ASSUME NEW d \in Card PROVE Kept(d)
    <3>1. board'[d] = board[d] \/ board'[d] = [board[d] EXCEPT !.monitor = Observed.state]
      BY <2>1 DEF TypeOK
    <3> QED
      BY <1>0, <3>1 DEF Kept, CardRecord
  <2> QED
    BY <1>4, <2>2 DEF Observe
<1>5. CASE UNCHANGED <<live, unused, loose, board>>
  BY <1>5 DEF Kept
<1>6. ASSUME MonitorEvent \/ Spawn \/ Heartbeat \/ Take \/ LookUp \/ Requeue \/ Send
             \/ SendFails \/ Ack \/ Crash \/ UNCHANGED vars
      PROVE  UNCHANGED <<live, unused, loose, board>>
  BY <1>6 DEF MonitorEvent, Spawn, Heartbeat, Take, LookUp, Requeue, Send, SendFails, Ack,
     Crash, vars, cards
<1> QED
  BY <1>1, <1>2, <1>3, <1>4, <1>5, <1>6 DEF Next, Environment, Edit, Fleet

LEMMA BlankHolds ==
    ASSUME TypeOK, Blank, [Next]_vars
    PROVE  Blank'
<1>0. \A c \in Card : board[c] \in CardRecord
  BY DEF TypeOK
<1>1. CASE Add
  <2>1. PICK c \in unused, required \in BOOLEAN :
          /\ live' = live \cup {c}
          /\ board' = [board EXCEPT ![c].required = required]
    BY <1>1 DEF Add
  <2>2. \A d \in Card \ live' : d # c /\ d \in Card \ live /\ board'[d] = board[d]
    BY <2>1 DEF TypeOK
  <2>3. live' \cap unused' = {}
    BY <1>1 DEF Add, Blank
  <2> QED
    BY <2>2, <2>3 DEF Blank
<1>2. CASE Delete
  <2>1. PICK c \in live : live' = live \ {c} /\ board' = [board EXCEPT ![c] = NewCard]
    BY <1>2 DEF Delete
  <2>2. ASSUME NEW d \in Card \ live' PROVE board'[d].owner = NoAgent /\ board'[d].state # "done"
    <3>1. CASE d = c
      BY <2>1, <3>1 DEF TypeOK, NewCard
    <3>2. CASE d # c
      BY <2>1, <2>2, <3>2 DEF TypeOK, Blank
    <3> QED
      BY <3>1, <3>2
  <2>3. live' \cap unused' = {}
    BY <1>2 DEF Delete, Blank
  <2> QED
    BY <2>2, <2>3 DEF Blank
<1>3. ASSUME NEW c \in live, NEW card \in CardRecord, UNCHANGED <<live, unused>>,
             board' = [board EXCEPT ![c] = card]
      PROVE  Blank'
  BY <1>3 DEF Blank, TypeOK
<1>4. CASE SetCard \/ SetStatus
  <2>1. PICK c \in live, by \in Writer, new \in State, requested \in Request,
            required \in BOOLEAN : ChangeState(c, by, new, requested, required)
    BY <1>4, ChangeStateOf
  <2>2. c \in Card /\ board[c] \in CardRecord
    BY <1>0 DEF TypeOK
  <2>3. board' = [board EXCEPT ![c] = ChangedCard(board[c], by, new, requested, required)]
    BY <2>1, <2>2 DEF ChangeState, ChangedCard, TypeOK
  <2>4. ChangedCard(board[c], by, new, requested, required) \in CardRecord
    BY <2>2, ChangedCardType
  <2>5. UNCHANGED <<live, unused>>
    BY <2>1 DEF ChangeState
  <2> QED
    BY <1>3, <2>3, <2>4, <2>5
<1>5. CASE Owner
  <2>1. PICK c \in live, a \in Agent :
          UNCHANGED <<live, unused>> /\ board' = [board EXCEPT ![c] = OwnedCard(board[c], a)]
    BY <1>5, OwnerSteps
  <2>2. OwnedCard(board[c], a) \in CardRecord
    BY <1>0, OwnedCardType DEF TypeOK
  <2> QED
    BY <1>3, <2>1, <2>2
<1>6. CASE UNCHANGED <<live, unused, loose>> /\ \A c \in Card : Kept(c)
  BY <1>6 DEF Blank, Kept
<1> QED
  BY <1>1, <1>2, <1>4, <1>5, <1>6, OthersKeep

\* What the rules look at, in a step that changes one card of the board.
LEMMA ChangedFields ==
    ASSUME TypeOK, NEW c \in live, NEW by \in Writer, NEW new \in State,
           NEW requested \in Request, NEW required \in BOOLEAN,
           ChangeState(c, by, new, requested, required)
    PROVE  /\ live' = live
           /\ \A d \in Card \ {c} : board'[d] = board[d]
           /\ board'[c].owner = board[c].owner /\ board'[c].proof = board[c].proof
           /\ board'[c].state = new /\ board'[c].required = required
           /\ board'[c].verified = Verified(board[c].state, new, requested, board[c].verified)
           /\ board'[c].replace = Reopened(board[c], new, by)
<1>1. c \in Card /\ board[c] \in CardRecord
  BY DEF TypeOK
<1>2. board' = [board EXCEPT ![c] = ChangedCard(board[c], by, new, requested, required)]
  BY <1>1 DEF ChangeState, ChangedCard, TypeOK
<1>3. board'[c] = ChangedCard(board[c], by, new, requested, required)
  BY <1>1, <1>2 DEF TypeOK
<1>4. \A d \in Card \ {c} : board'[d] = board[d]
  BY <1>2 DEF TypeOK
<1>5. live' = live
  BY DEF ChangeState
<1> QED
  BY <1>1, <1>3, <1>4, <1>5, ChangedCardType

LEMMA OwnedFields ==
    ASSUME TypeOK, Owner
    PROVE  \E c \in live, a \in Agent :
            /\ live' = live /\ loose' = loose \ {c} /\ ~OwnerInUse(c, a)
            /\ \A d \in Card \ {c} : board'[d] = board[d]
            /\ board'[c].owner = a /\ board'[c].proof = board[c].proof
            /\ board'[c].required = board[c].required /\ ~board'[c].replace
            /\ \/ board'[c].state = board[c].state /\ (board'[c].verified = board[c].verified)
               \/ board'[c].state = "working" /\ board[c].state \notin Terminal
<1>1. PICK c \in live, a \in Agent :
        /\ ~OwnerInUse(c, a)
        /\ board' = [board EXCEPT ![c] = OwnedCard(board[c], a)]
        /\ loose' = loose \ {c}
        /\ UNCHANGED <<live, unused>>
  BY OwnerSteps
<1>2. c \in Card /\ board[c] \in CardRecord
  BY DEF TypeOK
<1>3. board'[c] = OwnedCard(board[c], a) /\ \A d \in Card \ {c} : board'[d] = board[d]
  BY <1>1, <1>2 DEF TypeOK
<1> QED
  BY <1>1, <1>2, <1>3, OwnedCardType

-----------------------------------------------------------------------------
(* Evidence                                                                *)

Proven(c) ==
    board[c].state = "done" => board[c].verified /\ (board[c].required => board[c].proof)

LEMMA ProvenHolds ==
    ASSUME TypeOK, Blank, \A c \in live : Proven(c), [Next]_vars
    PROVE  \A c \in live' : Proven(c)'
<1>0. \A c \in Card : board[c] \in CardRecord
  BY DEF TypeOK
<1>1. CASE Add
  <2>1. PICK c \in unused, required \in BOOLEAN :
          /\ live' = live \cup {c}
          /\ board' = [board EXCEPT ![c].required = required]
    BY <1>1 DEF Add
  <2>2. board'[c].state = board[c].state /\ board'[c].verified = board[c].verified
        /\ board'[c].proof = board[c].proof /\ c \in Card
    <3>1. c \in Card /\ board[c] \in CardRecord
      BY <1>0, <2>1 DEF TypeOK
    <3>2. board'[c] = [board[c] EXCEPT !.required = required]
      BY <2>1, <3>1 DEF TypeOK
    <3> QED
      BY <3>1, <3>2 DEF CardRecord
  <2>3. ASSUME NEW d \in live' PROVE Proven(d)'
    <3>1. CASE d \in live /\ d # c
      BY <2>1, <3>1 DEF TypeOK, Proven
    <3>2. CASE d = c /\ c \notin live
      BY <2>2, <3>2 DEF Proven, Blank
    <3> QED
      BY <2>1, <3>1, <3>2 DEF Blank
  <2> QED
    BY <2>3
<1>2. CASE Delete
  <2>1. PICK c \in live : live' = live \ {c} /\ board' = [board EXCEPT ![c] = NewCard]
    BY <1>2 DEF Delete
  <2>2. \A d \in live' : d \in live /\ board'[d] = board[d]
    BY <2>1 DEF TypeOK
  <2> QED
    BY <2>2 DEF Proven
<1>3. CASE SetCard \/ SetStatus
  <2>1. PICK c \in live, by \in Writer, new \in State, requested \in Request,
            required \in BOOLEAN : ChangeState(c, by, new, requested, required)
    BY <1>3, ChangeStateOf
  <2>2. /\ live' = live /\ \A d \in Card \ {c} : board'[d] = board[d]
        /\ board'[c].proof = board[c].proof /\ board'[c].required = required
        /\ board'[c].state = new
        /\ board'[c].verified = Verified(board[c].state, new, requested, board[c].verified)
    BY <2>1, ChangedFields
  <2>3. new = "done" => DoneAllowed(board[c], required, board'[c].verified)
    BY <2>1, <2>2 DEF ChangeState
  <2>4. Proven(c)'
    BY <2>2, <2>3 DEF Proven, DoneAllowed
  <2> QED
    BY <2>2, <2>4 DEF Proven, TypeOK
<1>4. CASE Owner
  <2>1. PICK c \in live, a \in Agent :
            /\ live' = live /\ \A d \in Card \ {c} : board'[d] = board[d]
            /\ board'[c].proof = board[c].proof
            /\ board'[c].required = board[c].required
            /\ \/ board'[c].state = board[c].state /\ (board'[c].verified = board[c].verified)
               \/ board'[c].state = "working" /\ board[c].state \notin Terminal
    BY <1>4, OwnedFields
  <2>2. Proven(c)'
    BY <2>1 DEF Proven
  <2> QED
    BY <2>1, <2>2 DEF Proven, TypeOK
<1>5. CASE UNCHANGED <<live, unused, loose>> /\ \A c \in Card : Kept(c)
  BY <1>5 DEF Proven, Kept, TypeOK
<1> QED
  BY <1>1, <1>2, <1>3, <1>4, <1>5, OthersKeep

LEMMA BoardStarts == Init => Blank /\ DoneIsProven /\ OneCardPerOwner
<1> SUFFICES ASSUME Init PROVE Blank /\ DoneIsProven /\ OneCardPerOwner
  OBVIOUS
<1>1. PICK start \in Start :
        /\ live = DOMAIN start.board /\ unused = Card \ live
        /\ board = [c \in Card |-> IF c \in live THEN start.board[c] ELSE NewCard]
  BY DEF Init
<1>2. live \subseteq Card
  BY <1>1, StartAssumption
<1>3. Blank
  BY <1>1 DEF Blank, NewCard
<1>4. \A c \in live : board[c] = start.board[c]
  BY <1>1, <1>2
<1>5. DoneIsProven
  BY <1>1, <1>4, StartAssumption DEF DoneIsProven
<1>6. OneCardPerOwner
  <2>1. ASSUME NEW c \in live, NEW d \in live, c # d, board[c].owner # NoAgent,
               {board[c].state, board[d].state} \cap Terminal = {}
        PROVE  board[c].owner # board[d].owner
    BY <1>1, <1>4, <2>1, StartAssumption
  <2> QED
    BY <2>1 DEF OneCardPerOwner
<1> QED
  BY <1>3, <1>5, <1>6

LEMMA DoneIsProvenStep ==
    ASSUME TypeOK, Blank, DoneIsProven, [Next]_vars
    PROVE  DoneIsProven'
<1>1. \A c \in live : Proven(c)
  BY DEF DoneIsProven, Proven
<1>2. \A c \in live' : Proven(c)'
  BY <1>1, ProvenHolds
<1> QED
  BY <1>2 DEF DoneIsProven, Proven

\* A card that is done was verified, and has evidence if it requires some: in
\* every order of updates, status changes, assignments, deletions and reuses
\* of the board, and whatever the policy of the card became in between.
THEOREM DoneIsProvenAlways == Spec => []DoneIsProven
<1>1. Init => TypeOK /\ Blank /\ DoneIsProven
  BY InitType, BoardStarts
<1>2. TypeOK /\ Blank /\ DoneIsProven /\ [Next]_vars => (TypeOK /\ Blank /\ DoneIsProven)'
  BY NextType, BlankHolds, DoneIsProvenStep
<1> QED
  BY <1>1, <1>2, PTL DEF Spec

-----------------------------------------------------------------------------
(* Owners                                                                  *)

\* A card whose owner counts: open, not waiting for a replacement, and not
\* reopened by someone else than the CEO.
Held(c) ==
    /\ board[c].owner # NoAgent /\ board[c].state \notin Terminal
    /\ ~board[c].replace /\ c \notin loose

LEMMA OwnersApart ==
    OneCardPerOwner <=>
        \A c, d \in live : c # d /\ Held(c) /\ Held(d) => board[c].owner # board[d].owner
BY DEF OneCardPerOwner, Held

\* The same of the next state.
LEMMA OwnersApartNext ==
    OneCardPerOwner' <=>
        \A c, d \in live' : c # d /\ Held(c)' /\ Held(d)' => board'[c].owner # board'[d].owner
BY DEF OneCardPerOwner, Held

\* A step that makes no card held and no new owner keeps the owners apart.
LEMMA HeldShrinks ==
    ASSUME OneCardPerOwner,
           \A c \in live' : Held(c)' => c \in live /\ Held(c) /\ board'[c].owner = board[c].owner
    PROVE  OneCardPerOwner'
<1>1. ASSUME NEW c \in live', NEW d \in live', c # d, Held(c)', Held(d)'
      PROVE  board'[c].owner # board'[d].owner
  BY <1>1, OwnersApart
<1> QED
  BY <1>1, OwnersApartNext

LEMMA OneCardPerOwnerStep ==
    ASSUME TypeOK, Blank, OneCardPerOwner, [Next]_vars
    PROVE  OneCardPerOwner'
<1>0. \A c \in Card : board[c] \in CardRecord
  BY DEF TypeOK
<1>1. CASE Add
  <2>1. PICK c \in unused, required \in BOOLEAN :
          /\ live' = live \cup {c}
          /\ board' = [board EXCEPT ![c].required = required]
          /\ loose' = loose
    BY <1>1 DEF Add
  <2>2. c \in Card /\ board'[c].owner = board[c].owner
    BY <1>0, <2>1 DEF TypeOK, CardRecord
  <2>3. ~Held(c)'
    BY <2>1, <2>2 DEF Blank, Held
  <2>4. \A d \in live' : d # c => board'[d] = board[d] /\ d \in live
    BY <2>1 DEF TypeOK
  <2> QED
    BY <2>1, <2>3, <2>4, HeldShrinks DEF Held
<1>2. CASE Delete
  <2>1. PICK c \in live : /\ live' = live \ {c} /\ board' = [board EXCEPT ![c] = NewCard]
                          /\ loose' = loose \ {c}
    BY <1>2 DEF Delete
  <2>2. \A d \in live' : d \in live /\ board'[d] = board[d] /\ (d \in loose' <=> d \in loose)
    BY <2>1 DEF TypeOK
  <2> QED
    BY <2>2, HeldShrinks DEF Held
<1>3. CASE SetCard \/ SetStatus
  <2>1. PICK c \in live, by \in Writer, new \in State, requested \in Request,
            required \in BOOLEAN : ChangeState(c, by, new, requested, required)
    BY <1>3, ChangeStateOf
  <2>2. /\ live' = live /\ \A d \in Card \ {c} : board'[d] = board[d]
        /\ board'[c].owner = board[c].owner /\ board'[c].state = new
        /\ board'[c].replace = Reopened(board[c], new, by)
    BY <2>1, ChangedFields
  <2>3. loose' = IF by # "CEO" /\ board[c].state \in Terminal /\ new \notin Terminal
                 THEN loose \cup {c} ELSE loose
    BY <2>1 DEF ChangeState
  <2>4. Held(c)' => Held(c)
    BY <2>2, <2>3 DEF Held, Reopened
  <2>5. \A d \in live : d # c => (Held(d)' => Held(d)) /\ board'[d].owner = board[d].owner
    BY <2>2, <2>3 DEF Held, TypeOK
  <2> QED
    BY <2>2, <2>4, <2>5, HeldShrinks
<1>4. CASE Owner
  <2>1. PICK c \in live, a \in Agent :
            /\ live' = live /\ loose' = loose \ {c} /\ ~OwnerInUse(c, a)
            /\ \A d \in Card \ {c} : board'[d] = board[d]
            /\ board'[c].owner = a
    BY <1>4, OwnedFields
  <2>2. \A d \in live \ {c} : Held(d)' => board'[d].owner # a
    BY <2>1 DEF OwnerInUse, Held, TypeOK
  <2>3. \A d \in live \ {c} : (Held(d)' => Held(d)) /\ board'[d].owner = board[d].owner
    BY <2>1 DEF Held, TypeOK
  <2>4. ASSUME NEW d \in live', NEW e \in live', d # e, Held(d)', Held(e)'
        PROVE  board'[d].owner # board'[e].owner
    <3>1. CASE d = c
      BY <2>1, <2>2, <2>4, <3>1
    <3>2. CASE e = c
      BY <2>1, <2>2, <2>4, <3>2
    <3>3. CASE d # c /\ e # c
      BY <2>1, <2>3, <2>4, <3>3, OwnersApart
    <3> QED
      BY <3>1, <3>2, <3>3
  <2> QED
    BY <2>4, OwnersApartNext
<1>5. CASE UNCHANGED <<live, unused, loose>> /\ \A c \in Card : Kept(c)
  <2>1. \A c \in live : c \in Card
    BY DEF TypeOK
  <2> QED
    BY <1>5, <2>1, HeldShrinks DEF Held, Kept
<1> QED
  BY <1>1, <1>2, <1>3, <1>4, <1>5, OthersKeep

\* An agent owns one open card at a time, but for cards that wait for another
\* owner and cards somebody else than the CEO reopened: owner asks the cards
\* that are open at that moment, and this is enough for every later order of
\* closing, reopening, reassigning and deleting.
THEOREM OneCardPerOwnerAlways == Spec => []OneCardPerOwner
<1>1. Init => TypeOK /\ Blank /\ OneCardPerOwner
  BY InitType, BoardStarts
<1>2. TypeOK /\ Blank /\ OneCardPerOwner /\ [Next]_vars
        => (TypeOK /\ Blank /\ OneCardPerOwner)'
  BY NextType, BlankHolds, OneCardPerOwnerStep
<1> QED
  BY <1>1, <1>2, PTL DEF Spec

-----------------------------------------------------------------------------
(* The monitor's copy                                                      *)

\* As long as the revisions agree, the owner the worker took from its copy is
\* the card's owner.
CopyIsFresh ==
    worker.pc \in {"look", "observe"} /\ worker.same /\ worker.card \in live
        => worker.owner = board[worker.card].owner

\* A handler that touches the card the worker looks at is seen by it.
LEMMA TouchedIsStale ==
    ASSUME TypeOK, CopyIsFresh, NEW c \in Card, Touch(c),
           \A d \in Card \ {c} : board'[d].owner = board[d].owner /\ (d \in live' => d \in live)
    PROVE  CopyIsFresh'
<1>1. CASE worker.pc \in {"look", "observe"} /\ worker.card = c
  <2>1. worker'.same = FALSE
    BY <1>1 DEF Touch, TypeOK, Worker
  <2> QED
    BY <2>1 DEF CopyIsFresh
<1>2. CASE ~(worker.pc \in {"look", "observe"} /\ worker.card = c)
  <2>1. worker' = worker
    BY <1>2 DEF Touch
  <2> QED
    BY <1>2, <2>1 DEF CopyIsFresh, TypeOK, Worker
<1> QED
  BY <1>1, <1>2

LEMMA CopyIsFreshStep ==
    ASSUME TypeOK, CopyIsFresh, [Next]_vars
    PROVE  CopyIsFresh'
<1>0. \A c \in Card : board[c] \in CardRecord
  BY DEF TypeOK
<1>1. CASE Add
  <2>1. PICK c \in unused, required \in BOOLEAN :
          /\ Touch(c) /\ live' = live \cup {c}
          /\ board' = [board EXCEPT ![c].required = required]
    BY <1>1 DEF Add
  <2>2. c \in Card /\ \A d \in Card \ {c} : board'[d] = board[d]
    BY <2>1 DEF TypeOK
  <2> QED
    BY <2>1, <2>2, TouchedIsStale
<1>2. CASE Delete
  <2>1. PICK c \in live : /\ Touch(c) /\ live' = live \ {c}
                          /\ board' = [board EXCEPT ![c] = NewCard]
    BY <1>2 DEF Delete
  <2>2. c \in Card /\ \A d \in Card \ {c} : board'[d] = board[d]
    BY <2>1 DEF TypeOK
  <2> QED
    BY <2>1, <2>2, TouchedIsStale
<1>3. CASE SetCard \/ SetStatus
  <2>1. PICK c \in live, by \in Writer, new \in State, requested \in Request,
            required \in BOOLEAN : ChangeState(c, by, new, requested, required)
    BY <1>3, ChangeStateOf
  <2>2. live' = live /\ \A d \in Card \ {c} : board'[d] = board[d]
    BY <2>1, ChangedFields
  <2>3. c \in Card /\ Touch(c)
    BY <2>1 DEF ChangeState, TypeOK
  <2> QED
    BY <2>2, <2>3, TouchedIsStale
<1>4. CASE Owner
  <2>1. PICK c \in live, a \in Agent :
            /\ Touch(c) /\ UNCHANGED <<live, unused>>
            /\ board' = [board EXCEPT ![c] = OwnedCard(board[c], a)]
    BY <1>4, OwnerSteps
  <2>2. c \in Card /\ \A d \in Card \ {c} : board'[d] = board[d]
    BY <2>1 DEF TypeOK
  <2> QED
    BY <2>1, <2>2, TouchedIsStale
<1>5. CASE UNCHANGED <<live, unused, loose>> /\ \A c \in Card : Kept(c)
  <2>1. CASE UNCHANGED worker
    BY <1>5, <2>1 DEF CopyIsFresh, Kept, TypeOK
  <2>2. ASSUME worker'.pc \notin {"look", "observe"} PROVE CopyIsFresh'
    BY <2>2 DEF CopyIsFresh
  <2>3. CASE Take
    <3>1. CASE Head(events) \in live
      <4>1. worker' = [NoWork EXCEPT !.pc = "look", !.card = Head(events),
                                     !.owner = board[Head(events)].owner]
        BY <2>3, <3>1 DEF Take
      <4>2. worker'.card = Head(events) /\ worker'.owner = board[Head(events)].owner
        BY <4>1 DEF NoWork
      <4> QED
        BY <2>3, <4>2 DEF Take, CopyIsFresh, cards
    <3>2. CASE Head(events) \notin live
      BY <2>2, <2>3, <3>2, NoWorkType DEF Take
    <3> QED
      BY <3>1, <3>2
  <2>4. CASE LookUp
    <3>1. /\ worker'.card = worker.card /\ worker'.owner = worker.owner
          /\ worker'.same = worker.same /\ worker.pc = "look"
      BY <2>4 DEF LookUp, TypeOK, Worker
    <3> QED
      BY <2>4, <3>1 DEF LookUp, CopyIsFresh, cards
  <2>5. CASE Requeue \/ Crash
    BY <2>2, <2>5, NoWorkType DEF Requeue, Crash
  <2>6. CASE Observe
    <3>1. worker'.pc \in {"wait", "send"}
      BY <2>6, NoWorkType DEF Observe, NoWork
    <3> QED
      BY <2>2, <3>1
  <2>7. CASE Send \/ SendFails \/ Ack
    <3>1. NextSend(Others).pc \in {"wait", "send"}
      BY NoWorkType DEF NextSend, TypeOK, Worker
    <3>2. worker'.pc \in {"wait", "send", "ack"}
      BY <2>7, <3>1, NoWorkType DEF Send, SendFails, Ack, TypeOK, Worker
    <3> QED
      BY <2>2, <3>2
  <2>8. CASE Comment \/ Proof
    <3>1. PICK c \in Card : Touch(c)
      BY <2>8 DEF Comment, Proof, TypeOK
    <3> QED
      BY <1>5, <3>1, TouchedIsStale DEF Kept
  <2>9. ASSUME MonitorEvent \/ Spawn \/ Report \/ Heartbeat \/ UNCHANGED vars
        PROVE  UNCHANGED worker
    BY <2>9 DEF MonitorEvent, Spawn, Report, Heartbeat, vars, fleet
  <2> QED
    BY <1>1, <1>2, <1>3, <1>4, <2>1, <2>3, <2>4, <2>5, <2>6, <2>7, <2>8, <2>9
    DEF Next, Environment, Edit, Fleet
<1> QED
  BY <1>1, <1>2, <1>3, <1>4, <1>5, OthersKeep

LEMMA DigestOfOwner ==
    ASSUME TypeOK, CopyIsFresh, [Next]_vars, NEW c \in Card,
           ledger'[c].digest # ledger[c].digest
    PROVE  worker.owner = board[c].owner
<1>1. CASE LedgerWrite /\ Observing
  <2>1. c = worker.card
    BY <1>1 DEF LedgerWrite, TypeOK
  <2> QED
    BY <1>1, <2>1 DEF Observing, SameCard, CopyIsFresh
<1>2. ASSUME Observe PROVE LedgerWrite /\ Observing
  BY <1>2 DEF Observe
<1>3. CASE Ack
  <2>1. worker.card \in Card /\ ledger[worker.card] \in Entry
    BY DEF TypeOK, Worker
  <2>2. ledger'[c].digest = ledger[c].digest
    BY <1>3, <2>1 DEF Ack, TypeOK, Entry
  <2> QED
    BY <2>2
<1>4. ASSUME Crash, ~(LedgerWrite /\ Observing) PROVE UNCHANGED ledger
  BY <1>4 DEF Crash
<1>5. ASSUME Add \/ Delete \/ Comment \/ Proof PROVE UNCHANGED ledger
  BY <1>5 DEF Add, Delete, Comment, Proof, Touch
<1>6. ASSUME SetCard \/ SetStatus \/ Owner PROVE UNCHANGED ledger
  <2>1. CASE SetCard \/ SetStatus
    <3>1. PICK d \in live, by \in Writer, new \in State, requested \in Request,
              required \in BOOLEAN : ChangeState(d, by, new, requested, required)
      BY <2>1, ChangeStateOf
    <3>2. Touch(d)
      BY <3>1 DEF ChangeState
    <3> QED
      BY <3>2 DEF Touch
  <2>2. CASE Owner
    BY <2>2, OwnerSteps DEF Touch
  <2> QED
    BY <1>6, <2>1, <2>2
<1>7. ASSUME \/ MonitorEvent \/ Spawn \/ Report \/ Heartbeat \/ Take \/ LookUp \/ Requeue
             \/ Send \/ SendFails \/ UNCHANGED vars
      PROVE  UNCHANGED ledger
  BY <1>7 DEF MonitorEvent, Spawn, Report, Heartbeat, Take, LookUp, Requeue, Send, SendFails,
     vars, fleet
<1> QED
  BY <1>1, <1>2, <1>3, <1>4, <1>5, <1>6, <1>7 DEF Next, Environment, Edit, Fleet

\* What the monitor writes about a card was judged by the roster row of the
\* card's owner: a card that changed between the copy and the write, in
\* whatever way and however often, is put back on the queue.
THEOREM ObservesItsOwnerAlways == Spec => ObservesItsOwner
<1>1. Init => TypeOK /\ CopyIsFresh
  BY InitType, NoWorkType DEF Init, CopyIsFresh
<1>2. TypeOK /\ CopyIsFresh /\ [Next]_vars => (TypeOK /\ CopyIsFresh)'
  BY NextType, CopyIsFreshStep
<1>3. TypeOK /\ CopyIsFresh /\ [Next]_vars =>
        [\A c \in Card : ledger'[c].digest # ledger[c].digest => worker.owner = board[c].owner]_vars
  BY DigestOfOwner
<1> QED
  BY <1>1, <1>2, <1>3, PTL DEF Spec, ObservesItsOwner
==============================================================================
