------------------------ MODULE MemoryComparisonProofs ------------------------
(***************************************************************************)
(* Theorems about MemoryComparison, for any cases, plan, gold answers,     *)
(* resources, answers of workers and callers.                              *)
(***************************************************************************)
EXTENDS MemoryComparison, FiniteSetTheorems, FunctionTheorems, TLAPS

-----------------------------------------------------------------------------
(* The plan                                                                *)

\* Every case has one place in the plan.
LEMMA PlanIsInjective ==
    /\ Len(Plan) \in Nat /\ DOMAIN Plan = 1 .. Len(Plan)
    /\ \A i \in 1 .. Len(Plan) :
           /\ Plan[i].alias \in Case
           /\ Plan[i].order \in {<<"baseline", "memory">>, <<"memory", "baseline">>}
    /\ \A i, j \in 1 .. Len(Plan) : Plan[i].alias = Plan[j].alias => i = j
<1> DEFINE n == Len(Plan)
           f == [i \in 1 .. n |-> Plan[i].alias]
           Pair == [alias : Case, order : {<<"baseline", "memory">>, <<"memory", "baseline">>}]
<1>1. Plan \in Seq(Pair) /\ n = Cardinality(Case)
  BY PlanAssumption
<1>2. n \in Nat /\ DOMAIN Plan = 1 .. n /\ \A i \in 1 .. n : Plan[i] \in Pair
  <2> HIDE DEF Pair
  <2> QED
    BY <1>1
<1>3. \A c \in Case : \E i \in 1 .. n : f[i] = c
  BY <1>2, PlanAssumption
<1>4. f \in [1 .. n -> Case]
  BY <1>2
<1>5. f \in Surjection(1 .. n, Case)
  <2> HIDE DEF f
  <2> QED
    BY <1>3, <1>4 DEF Surjection
<1>6. IsFiniteSet(1 .. n) /\ Cardinality(1 .. n) = n
  BY <1>2, FS_Interval
<1>7. f \in Injection(1 .. n, Case)
  <2> HIDE DEF f, n
  <2> QED
    BY <1>1, <1>5, <1>6, FS_SurjSameCardinalityImpliesInj
<1>8. \A i, j \in 1 .. n : f[i] = f[j] => i = j
  <2> HIDE DEF f
  <2> QED
    BY <1>4, <1>7 DEF Injection, IsInjective
<1> QED
  BY <1>2, <1>8

\* The rank of an arm is that of its pair and its place in it.
LEMMA RankOfArm ==
    ASSUME NEW j \in 1 .. Len(Plan), NEW a \in Arm
    PROVE  Rank(<<Plan[j].alias, a>>) = 2 * j + (IF Plan[j].order[1] = a THEN 0 ELSE 1)
<1>1. j = CHOOSE i \in DOMAIN Plan : Plan[i].alias = Plan[j].alias
  <2>1. \A i \in DOMAIN Plan : Plan[i].alias = Plan[j].alias => i = j
    BY PlanIsInjective
  <2> QED
    BY <2>1, PlanIsInjective
<1> QED
  BY <1>1 DEF Rank

LEMMA SlotHasPlace ==
    ASSUME NEW s \in Slot
    PROVE  \E j \in 1 .. Len(Plan) : s = <<Plan[j].alias, s[2]>> /\ s[2] \in Arm
<1>1. s = <<s[1], s[2]>> /\ s[1] \in Case /\ s[2] \in Arm
  BY DEF Slot
<1>2. \E j \in 1 .. Len(Plan) : Plan[j].alias = s[1]
  BY <1>1, PlanAssumption, PlanIsInjective
<1> QED
  BY <1>1, <1>2

-----------------------------------------------------------------------------
(* Scoring                                                                 *)

\* The threshold is reached only with the decision and the evidence of the gold.
LEMMA ThresholdIsEarned ==
    ASSUME NEW c, NEW e, Scored(c, e).successful
    PROVE  /\ e.decision = Gold[c].decision /\ e.selected = Gold[c].allowed
           /\ ~e.violations /\ Scored(c, e).envelope = e
<1>1. Scored(c, e) = Receipt(c, e)
  BY DEF Scored, NoReceipt
<1>2. ~Harmful(c, e) /\ Components(c, e) >= 80
  <2> DEFINE harm == Harmful(c, e)
             score == IF harm THEN 0 ELSE Components(c, e)
  <2>1. Receipt(c, e).successful = (score >= 80 /\ ~ harm)
    BY DEF Receipt
  <2> HIDE DEF harm
  <2>2. score >= 80 /\ ~ harm
    BY <1>1, <2>1
  <2> QED
    BY <2>2 DEF harm
<1>3. e.decision = Gold[c].decision /\ e.selected = Gold[c].allowed
  BY <1>2 DEF Components, Points
<1> QED
  BY <1>1, <1>2, <1>3 DEF Harmful, Receipt

-----------------------------------------------------------------------------
(* What is true of a run, in the file and in a request that will write it  *)

IsTaken(r, s) == r.rows[s].taken /= {}
IsFinished(r, s) == IsTaken(r, s) /\ r.rows[s].recorded /\ r.rows[s].cleaned

\* The arm that is not cleaned yet is the active one; an active arm was started.
ActiveIsOpen(r) ==
    /\ r.active /= NoSlot => IsTaken(r, r.active)
    /\ \A s \in Slot : IsTaken(r, s) /\ ~ r.rows[s].cleaned => r.active = s
    /\ r.status \in {"arm_started", "arm_recorded"} => r.active /= NoSlot
    /\ r.status = "arm_recorded" => r.rows[r.active].recorded

\* Unless the run is aborted, an arm is cleaned after it was recorded.
CleanedIsRecorded(r) ==
    r.status /= "aborted" => \A s \in Slot : r.rows[s].cleaned => IsFinished(r, s)

PairsAreFinished(r) ==
    /\ \A i \in 1 .. r.pairs : \A a \in Arm : IsFinished(r, <<Plan[i].alias, a>>)
    /\ r.status = "completed" => r.pairs = Len(Plan)

InOrder(r) ==
    \A s, t \in Slot : IsTaken(r, t) /\ Rank(s) < Rank(t) => IsFinished(r, s)

KeptApart(r) ==
    /\ \A s \in Slot : r.rows[s].taken \subseteq r.used
    /\ \A s, t \in Slot : s /= t =>
           \A q \in r.rows[s].taken, u \in r.rows[t].taken : Apart(q, u)

Earned(r) ==
    \A s \in Slot :
        r.rows[s].result = NoReceipt \/ \E e \in Answers[s] : r.rows[s].result = Scored(s[1], e)

Good(r) ==
    /\ r \in Run
    /\ ActiveIsOpen(r) /\ CleanedIsRecorded(r) /\ PairsAreFinished(r)
    /\ InOrder(r) /\ KeptApart(r) /\ Earned(r)

RowType == [taken : SUBSET Resource, result : Receipts, recorded : BOOLEAN, cleaned : BOOLEAN]

LEMMA RunIsTyped ==
    ASSUME NEW r \in Run
    PROVE  /\ r.status \in Status /\ r.pairs \in 0 .. Len(Plan) /\ r.rows \in [Slot -> RowType]
           /\ r.active \in Slot \cup {NoSlot} /\ r.used \in SUBSET Resource
           /\ r.cleanup \in BOOLEAN /\ r /= NoRun
<1>1. /\ r.status \in Status /\ r.pairs \in 0 .. Len(Plan) /\ r.rows \in [Slot -> RowType]
      /\ r.active \in Slot \cup {NoSlot} /\ r.used \in SUBSET Resource /\ r.cleanup \in BOOLEAN
  BY DEF Run, RowType
<1>2. "status" \in DOMAIN r /\ DOMAIN NoRun = {}
  BY DEF Run, NoRun
<1> QED
  BY <1>1, <1>2

LEMMA NoSlotIsNone == NoSlot \notin Slot
BY DEF NoSlot, Slot, Arm

\* A run that changes neither its rows nor its pairs, but perhaps its status.
LEMMA SameRowsIsGood ==
    ASSUME NEW r, Good(r), NEW q \in Run,
           q.rows = r.rows, q.pairs = r.pairs, q.active = r.active, q.used = r.used,
           q.status \notin {"arm_started", "arm_recorded"},
           q.status /= "aborted" => r.status /= "aborted",
           q.status = "completed" => r.pairs = Len(Plan)
    PROVE  Good(q)
BY DEF Good, ActiveIsOpen, CleanedIsRecorded, PairsAreFinished, InOrder, KeptApart, Earned,
       IsTaken, IsFinished

LEMMA NewRunIsGood == Good(NewRun)
<1>1. NoReceipt \in Receipts
  BY DEF Receipts
<1>2. NoRow \in RowType /\ NoRow.taken = {} /\ ~NoRow.cleaned /\ NoRow.result = NoReceipt
  BY <1>1 DEF NoRow, RowType
<1>3. NewRun \in Run
  <2> HIDE DEF NoRow
  <2> QED
    BY <1>2, PlanIsInjective DEF NewRun, Run, RowType, Status, NoRow
<1>4. /\ \A s \in Slot : NewRun.rows[s] = NoRow
      /\ NewRun.pairs = 0 /\ NewRun.status = "planned" /\ NewRun.active = NoSlot
      /\ NewRun.used = {}
  BY DEF NewRun
<1>5. \A s \in Slot : ~IsTaken(NewRun, s) /\ ~NewRun.rows[s].cleaned
  BY <1>2, <1>4 DEF IsTaken
<1> HIDE DEF NewRun
<1> QED
  BY <1>2, <1>3, <1>4, <1>5 DEF Good, ActiveIsOpen, CleanedIsRecorded, PairsAreFinished, InOrder,
     KeptApart, Earned, IsTaken

LEMMA AbortedIsGood ==
    ASSUME NEW r, Good(r)
    PROVE  Good(Aborted(r))
<1> DEFINE q == Aborted(r)
<1>1. r \in Run
  BY DEF Good
<1>2. /\ q \in Run /\ q.rows = r.rows /\ q.pairs = r.pairs /\ q.active = r.active
      /\ q.used = r.used /\ q.status = "aborted"
  BY <1>1 DEF Aborted, Run, Status
<1> HIDE DEF q
<1>3. Good(q)
  BY <1>2, SameRowsIsGood
<1> QED
  BY <1>3 DEF q

LEMMA QualifiedIsGood ==
    ASSUME NEW r, Good(r), NEW digest \in BOOLEAN
    PROVE  Good(Qualified(r, digest))
<1>1. CASE r.status = "planned" /\ digest
  <2> DEFINE q == [r EXCEPT !.status = "offline_qualified"]
  <2>1. r \in Run
    BY DEF Good
  <2>2. /\ q \in Run /\ q.rows = r.rows /\ q.pairs = r.pairs /\ q.active = r.active
        /\ q.used = r.used /\ q.status = "offline_qualified"
    BY <2>1 DEF Run, Status
  <2>3. Qualified(r, digest) = q
    BY <1>1 DEF Qualified
  <2> HIDE DEF q
  <2> QED
    BY <1>1, <2>2, <2>3, SameRowsIsGood
<1> QED
  BY <1>1, AbortedIsGood DEF Qualified

LEMMA RunCompletedIsGood ==
    ASSUME NEW r, Good(r)
    PROVE  Good(RunCompleted(r))
<1>1. CASE r.status = "pair_completed" /\ r.pairs = Len(Plan)
  <2> DEFINE q == [r EXCEPT !.status = "completed"]
  <2>1. r \in Run
    BY DEF Good
  <2>2. /\ q \in Run /\ q.rows = r.rows /\ q.pairs = r.pairs /\ q.active = r.active
        /\ q.used = r.used /\ q.status = "completed"
    BY <2>1 DEF Run, Status
  <2>3. RunCompleted(r) = q
    BY <1>1 DEF RunCompleted
  <2> HIDE DEF q
  <2> QED
    BY <1>1, <2>2, <2>3, SameRowsIsGood
<1> QED
  BY <1>1, AbortedIsGood DEF RunCompleted

\* The arm that comes next: it is not started, and the arms before it are
\* those of the completed pairs and, when it is the second, the first of its pair.
LEMMA NextArmIsFirstDue ==
    ASSUME NEW r \in Run, NextArm(r) /= NoSlot
    PROVE  LET s == NextArm(r)
               i == r.pairs + 1
           IN  /\ i \in 1 .. Len(Plan) /\ s \in Slot
               /\ r.rows[s].taken = {} /\ ~ r.rows[s].cleaned
               /\ \E a \in Arm :
                      /\ s = <<Plan[i].alias, a>>
                      /\ \A b \in Arm : b /= a /\ Plan[i].order[1] = b
                             => r.rows[<<Plan[i].alias, b>>].cleaned
<1> DEFINE i == r.pairs + 1
           due == ArmsDue(r)
           k == Min(due)
           s == <<Plan[i].alias, Plan[i].order[k]>>
<1>1. r.pairs \in 0 .. Len(Plan) /\ Len(Plan) \in Nat
  BY RunIsTyped, PlanIsInjective
<1>2. r.pairs /= Len(Plan) /\ due /= {}
  BY DEF NextArm
<1>3. i \in 1 .. Len(Plan) /\ r.pairs < Len(Plan)
  BY <1>1, <1>2
<1>4. /\ Plan[i].alias \in Case
      /\ Plan[i].order \in {<<"baseline", "memory">>, <<"memory", "baseline">>}
  BY <1>3, PlanIsInjective
<1>5. due = {m \in 1 .. 2 : ~ r.rows[<<Plan[i].alias, Plan[i].order[m]>>].cleaned}
  BY DEF ArmsDue
<1>6. k \in due /\ \A m \in due : k <= m
  <2>1. due \in SUBSET (1 .. 2)
    BY <1>5
  <2>2. \E x \in due : \A m \in due : x <= m
    <3>1. CASE 1 \in due
      BY <2>1, <3>1
    <3>2. CASE 1 \notin due
      BY <1>2, <2>1, <3>2
    <3> QED
      BY <3>1, <3>2
  <2> HIDE DEF due
  <2> QED
    BY <2>2 DEF Min
<1>7. NextArm(r) = s /\ r.rows[s].taken = {}
  <2>1. PairDue(r) = Plan[i].alias
    BY <1>3 DEF PairDue
  <2>2. NextArm(r) = IF r.rows[s].taken = {} THEN s ELSE NoSlot
    BY <1>2, <2>1 DEF NextArm
  <2> HIDE DEF s
  <2> QED
    BY <2>2
<1>8. k \in 1 .. 2 /\ Plan[i].order[k] \in Arm /\ s \in Slot /\ ~ r.rows[s].cleaned
  <2>1. k \in 1 .. 2 /\ ~ r.rows[s].cleaned
    BY <1>5, <1>6
  <2> HIDE DEF k, due
  <2> QED
    BY <1>4, <2>1 DEF Slot, Arm
<1>9. \A b \in Arm : b /= Plan[i].order[k] /\ Plan[i].order[1] = b
          => r.rows[<<Plan[i].alias, b>>].cleaned
  <2> SUFFICES ASSUME NEW b \in Arm, b /= Plan[i].order[k], Plan[i].order[1] = b
               PROVE  r.rows[<<Plan[i].alias, b>>].cleaned
    OBVIOUS
  <2>1. k = 2
    <3> HIDE DEF k, due
    <3> QED
      BY <1>8
  <2>2. 1 \notin due
    <3> HIDE DEF k, due
    <3> QED
      BY <1>6, <2>1
  <2>3. ~ (1 \in 1 .. 2 /\ ~ r.rows[<<Plan[i].alias, Plan[i].order[1]>>].cleaned)
    BY <1>5, <2>2
  <2>4. r.rows[<<Plan[i].alias, Plan[i].order[1]>>].cleaned
    BY <2>3
  <2> QED
    BY <2>4
<1> HIDE DEF k, due
<1> QED
  BY <1>3, <1>7, <1>8, <1>9

LEMMA StartedIsGood ==
    ASSUME NEW r, Good(r), Open(r), NEW s \in Slot, NEW q \in Resource
    PROVE  Good(Started(r, s, q))
<1> SUFFICES ASSUME r.active = NoSlot, NextArm(r) = s, ~ Reused(r, q)
             PROVE  Good(Started(r, s, q))
  BY AbortedIsGood DEF Started
<1> DEFINE row == [r.rows[s] EXCEPT !.taken = {q}]
           n == [r EXCEPT !.status = "arm_started", !.active = s, !.used = @ \cup {q},
                          !.rows = [@ EXCEPT ![s] = row]]
<1>1. Started(r, s, q) = n
  BY DEF Started
<1>2. /\ r \in Run
      /\ ActiveIsOpen(r) /\ CleanedIsRecorded(r) /\ PairsAreFinished(r)
      /\ InOrder(r) /\ KeptApart(r) /\ Earned(r)
  BY DEF Good
<1>3. /\ r.pairs \in 0 .. Len(Plan) /\ r.rows \in [Slot -> RowType]
      /\ r.used \in SUBSET Resource /\ r.cleanup \in BOOLEAN
  BY <1>2, RunIsTyped
<1>4. r.status /= "aborted"
  BY DEF Open
<1>5. PICK a \in Arm :
          /\ s = <<Plan[r.pairs + 1].alias, a>>
          /\ \A b \in Arm : b /= a /\ Plan[r.pairs + 1].order[1] = b
                 => r.rows[<<Plan[r.pairs + 1].alias, b>>].cleaned
  BY <1>2, NextArmIsFirstDue, NoSlotIsNone
<1>6. /\ r.pairs + 1 \in 1 .. Len(Plan)
      /\ r.rows[s].taken = {} /\ ~ r.rows[s].cleaned
  BY <1>2, NextArmIsFirstDue, NoSlotIsNone
<1>7. /\ row \in RowType /\ row.taken = {q} /\ row.result = r.rows[s].result
      /\ row.cleaned = r.rows[s].cleaned /\ row.recorded = r.rows[s].recorded
  <2>1. r.rows[s] \in RowType
    BY <1>3
  <2> QED
    BY <2>1 DEF RowType
<1> HIDE DEF row
<1>8. /\ n \in Run /\ n.status = "arm_started" /\ n.pairs = r.pairs /\ n.active = s
      /\ n.used = r.used \cup {q}
  <2>1. [r.rows EXCEPT ![s] = row] \in [Slot -> RowType]
    BY <1>3, <1>7
  <2>2. r.used \cup {q} \in SUBSET Resource
    BY <1>3
  <2> QED
    BY <1>2, <1>3, <2>1, <2>2 DEF Run, RowType, Status
<1>9. n.rows[s] = row /\ \A t \in Slot : t /= s => n.rows[t] = r.rows[t]
  BY <1>2, <1>3 DEF Run
<1> HIDE DEF n
<1>10. ~ IsTaken(r, s) /\ \A t \in Slot : t /= s =>
          (IsTaken(n, t) <=> IsTaken(r, t)) /\ (IsFinished(n, t) <=> IsFinished(r, t))
  BY <1>6, <1>9 DEF IsTaken, IsFinished
<1>11. \A t \in Slot : ~ IsTaken(r, t) \/ r.rows[t].cleaned
  BY <1>2, NoSlotIsNone DEF ActiveIsOpen
<1>12. ActiveIsOpen(n)
  <2>1. IsTaken(n, s)
    BY <1>7, <1>9 DEF IsTaken
  <2>2. \A t \in Slot : IsTaken(n, t) /\ ~ n.rows[t].cleaned => n.active = t
    BY <1>8, <1>9, <1>10, <1>11
  <2>3. n.active = s /\ s /= NoSlot /\ n.status /= "arm_recorded"
    BY <1>8, NoSlotIsNone
  <2> QED
    BY <2>1, <2>2, <2>3 DEF ActiveIsOpen
<1>13. CleanedIsRecorded(n)
  BY <1>2, <1>4, <1>6, <1>7, <1>9, <1>10 DEF CleanedIsRecorded
<1>14. PairsAreFinished(n)
  <2> SUFFICES ASSUME NEW i \in 1 .. r.pairs, NEW b \in Arm
               PROVE  IsFinished(n, <<Plan[i].alias, b>>)
    BY <1>8 DEF PairsAreFinished
  <2>1. IsFinished(r, <<Plan[i].alias, b>>)
    BY <1>2 DEF PairsAreFinished
  <2>2. i \in 1 .. Len(Plan)
    BY <1>3, PlanIsInjective
  <2>3. <<Plan[i].alias, b>> \in Slot
    BY <2>2, PlanIsInjective DEF Slot
  <2>4. <<Plan[i].alias, b>> /= s
    BY <1>10, <2>1 DEF IsFinished
  <2> QED
    BY <1>10, <2>1, <2>3, <2>4
<1>15. InOrder(n)
  <2> SUFFICES ASSUME NEW p \in Slot, NEW t \in Slot, IsTaken(n, t), Rank(p) < Rank(t)
               PROVE  IsFinished(n, p)
    BY DEF InOrder
  <2>1. CASE t /= s
    <3>1. IsFinished(r, p)
      BY <1>2, <1>10, <2>1 DEF InOrder
    <3> QED
      BY <1>10, <3>1 DEF IsFinished
  <2>2. CASE t = s
    <3> DEFINE m == r.pairs + 1
    <3>1. PICK j \in 1 .. Len(Plan) : p = <<Plan[j].alias, p[2]>> /\ p[2] \in Arm
      BY SlotHasPlace
    <3>2. Rank(p) = 2 * j + (IF Plan[j].order[1] = p[2] THEN 0 ELSE 1)
      BY <3>1, RankOfArm
    <3>3. Rank(s) = 2 * m + (IF Plan[m].order[1] = a THEN 0 ELSE 1)
      BY <1>5, <1>6, RankOfArm
    <3>4. r.pairs \in Nat /\ j \in Nat
      BY <1>3, PlanIsInjective
    <3>5. \/ j <= r.pairs
          \/ j = m /\ Plan[m].order[1] = p[2] /\ Plan[m].order[1] /= a
      BY <2>2, <3>2, <3>3, <3>4
    <3>6. p /= s
      BY <2>2, <3>2, <3>3, <3>4
    <3>7. CASE j <= r.pairs
      BY <1>2, <1>10, <3>1, <3>4, <3>6, <3>7 DEF PairsAreFinished
    <3>8. CASE j = m /\ Plan[m].order[1] = p[2] /\ Plan[m].order[1] /= a
      <4>1. r.rows[p].cleaned
        BY <1>5, <3>1, <3>8
      <4> QED
        BY <1>2, <1>4, <1>10, <3>6, <4>1 DEF CleanedIsRecorded
    <3> QED
      BY <3>5, <3>7, <3>8
  <2> QED
    BY <2>1, <2>2
<1>16. KeptApart(n)
  <2>1. \A u \in r.used : Apart(q, u) /\ Apart(u, q)
    BY DEF Reused, Apart
  <2>2. \A t \in Slot : r.rows[t].taken \subseteq r.used
    BY <1>2 DEF KeptApart
  <2>3. \A t \in Slot : n.rows[t].taken \subseteq n.used
    BY <1>7, <1>8, <1>9, <2>2
  <2>4. ASSUME NEW p \in Slot, NEW t \in Slot, p /= t,
               NEW v \in n.rows[p].taken, NEW u \in n.rows[t].taken
        PROVE  Apart(v, u)
    <3>1. CASE p = s
      BY <1>7, <1>9, <2>1, <2>2, <2>4, <3>1
    <3>2. CASE t = s
      BY <1>7, <1>9, <2>1, <2>2, <2>4, <3>2
    <3>3. CASE p /= s /\ t /= s
      BY <1>2, <1>9, <2>4, <3>3 DEF KeptApart
    <3> QED
      BY <3>1, <3>2, <3>3
  <2> QED
    BY <2>3, <2>4 DEF KeptApart
<1>17. Earned(n)
  BY <1>2, <1>7, <1>9 DEF Earned
<1> QED
  BY <1>1, <1>8, <1>12, <1>13, <1>14, <1>15, <1>16, <1>17 DEF Good

LEMMA ScoredIsReceipt ==
    ASSUME NEW s \in Slot, NEW e \in Answers[s]
    PROVE  Scored(s[1], e) \in Receipts
BY DEF Receipts

LEMMA RecordedIsGood ==
    ASSUME NEW r, Good(r), NEW s \in Slot, NEW e \in Answers[s]
    PROVE  Good(Recorded(r, s, Scored(s[1], e)))
<1> DEFINE rec == Scored(s[1], e)
<1>1. rec \in Receipts
  BY ScoredIsReceipt
<1> SUFFICES ASSUME r.status = "arm_started", r.active = s, rec /= NoReceipt
             PROVE  Good(Recorded(r, s, rec))
  BY AbortedIsGood DEF Recorded
<1> DEFINE row == [r.rows[s] EXCEPT !.result = rec, !.recorded = TRUE]
           n == [r EXCEPT !.status = "arm_recorded", !.rows = [@ EXCEPT ![s] = row]]
<1>2. /\ r \in Run
      /\ ActiveIsOpen(r) /\ CleanedIsRecorded(r) /\ PairsAreFinished(r)
      /\ InOrder(r) /\ KeptApart(r) /\ Earned(r)
  BY DEF Good
<1>3. /\ r.pairs \in 0 .. Len(Plan) /\ r.rows \in [Slot -> RowType]
      /\ r.used \in SUBSET Resource /\ r.cleanup \in BOOLEAN
  BY <1>2, RunIsTyped
<1>4. Recorded(r, s, rec) = n
  <2>1. Recorded(r, s, rec) = [r EXCEPT !.status = "arm_recorded", !.rows[s].result = rec,
                                        !.rows[s].recorded = TRUE]
    BY DEF Recorded
  <2>2. r.rows[s] \in RowType
    BY <1>3
  <2> DEFINE m == [r EXCEPT !.rows[s].result = rec, !.rows[s].recorded = TRUE]
  <2> HIDE DEF rec
  <2>3. m.rows = [r.rows EXCEPT ![s] = row]
    BY <1>2, <1>3, <2>2 DEF Run, RowType
  <2>4. /\ Recorded(r, s, rec) = [m EXCEPT !.status = "arm_recorded"]
        /\ m = [r EXCEPT !.rows = m.rows]
    BY <1>2, <1>3, <2>1, <2>2 DEF Run, RowType
  <2> HIDE DEF m, row
  <2> QED
    BY <1>2, <2>3, <2>4 DEF Run
<1>5. /\ row \in RowType /\ row.taken = r.rows[s].taken /\ row.result = rec
      /\ row.cleaned = r.rows[s].cleaned /\ row.recorded
  <2>1. r.rows[s] \in RowType
    BY <1>3
  <2> HIDE DEF rec
  <2> QED
    BY <1>1, <2>1 DEF RowType
<1> HIDE DEF row
<1>6. /\ n \in Run /\ n.status = "arm_recorded" /\ n.pairs = r.pairs /\ n.active = s
      /\ n.used = r.used
  <2>1. [r.rows EXCEPT ![s] = row] \in [Slot -> RowType]
    BY <1>3, <1>5
  <2> QED
    BY <1>2, <1>3, <2>1 DEF Run, RowType, Status
<1>7. n.rows[s] = row /\ \A t \in Slot : t /= s => n.rows[t] = r.rows[t]
  BY <1>2, <1>3 DEF Run
<1> HIDE DEF n
<1>8. \A t \in Slot :
          /\ n.rows[t].taken = r.rows[t].taken /\ n.rows[t].cleaned = r.rows[t].cleaned
          /\ r.rows[t].recorded => n.rows[t].recorded
  BY <1>5, <1>7
<1>9. \A t \in Slot : (IsTaken(n, t) <=> IsTaken(r, t)) /\ (IsFinished(r, t) => IsFinished(n, t))
  BY <1>8 DEF IsTaken, IsFinished
<1>10. ActiveIsOpen(n)
  <2>1. IsTaken(n, s) /\ s /= NoSlot
    BY <1>2, <1>9, NoSlotIsNone DEF ActiveIsOpen
  <2>2. \A t \in Slot : IsTaken(n, t) /\ ~ n.rows[t].cleaned => n.active = t
    BY <1>2, <1>6, <1>8, <1>9 DEF ActiveIsOpen
  <2>3. n.active = s /\ n.rows[s].recorded
    BY <1>5, <1>6, <1>7
  <2> QED
    BY <2>1, <2>2, <2>3 DEF ActiveIsOpen
<1>11. CleanedIsRecorded(n)
  BY <1>2, <1>8, <1>9 DEF CleanedIsRecorded
<1>12. PairsAreFinished(n)
  <2>1. ASSUME NEW i \in 1 .. r.pairs, NEW b \in Arm
        PROVE  IsFinished(n, <<Plan[i].alias, b>>)
    <3>1. i \in 1 .. Len(Plan)
      BY <1>3, PlanIsInjective
    <3>2. <<Plan[i].alias, b>> \in Slot
      BY <3>1, PlanIsInjective DEF Slot
    <3> QED
      BY <1>2, <1>9, <3>2 DEF PairsAreFinished
  <2> QED
    BY <1>6, <2>1 DEF PairsAreFinished
<1>13. InOrder(n)
  BY <1>2, <1>9 DEF InOrder
<1>14. KeptApart(n)
  BY <1>2, <1>6, <1>8 DEF KeptApart
<1>15. Earned(n)
  BY <1>2, <1>5, <1>7 DEF Earned
<1> QED
  BY <1>4, <1>6, <1>10, <1>11, <1>12, <1>13, <1>14, <1>15 DEF Good

\* The active arm is cleaned away: an aborted run keeps its status, another
\* one has recorded the arm before.
LEMMA ReleasedIsGood ==
    ASSUME NEW r, Good(r), NEW st \in Status,
           st = "aborted" \/ (st = "arm_cleaned" /\ r.status = "arm_recorded")
    PROVE  Good([Released(r) EXCEPT !.status = st])
<1> DEFINE n == [Released(r) EXCEPT !.status = st]
           rows == Marked(r)
<1>1. /\ r \in Run
      /\ ActiveIsOpen(r) /\ CleanedIsRecorded(r) /\ PairsAreFinished(r)
      /\ InOrder(r) /\ KeptApart(r) /\ Earned(r)
  BY DEF Good
<1>2. /\ r.pairs \in 0 .. Len(Plan) /\ r.rows \in [Slot -> RowType]
      /\ r.used \in SUBSET Resource /\ r.active \in Slot \cup {NoSlot}
  BY <1>1, RunIsTyped
<1>3. /\ rows \in [Slot -> RowType]
      /\ \A t \in Slot :
             /\ rows[t].taken = r.rows[t].taken /\ rows[t].recorded = r.rows[t].recorded
             /\ rows[t].result = r.rows[t].result
             /\ rows[t].cleaned <=> r.rows[t].cleaned \/ t = r.active
  <2>1. CASE r.active = NoSlot
    BY <1>2, <2>1, NoSlotIsNone DEF Marked
  <2>2. CASE r.active \in Slot
    <3> DEFINE row == [r.rows[r.active] EXCEPT !.cleaned = TRUE]
    <3>1. rows = [r.rows EXCEPT ![r.active] = row]
      BY <2>2, NoSlotIsNone DEF Marked
    <3>2. r.rows[r.active] \in RowType
      BY <1>2, <2>2
    <3>3. /\ row \in RowType /\ row.taken = r.rows[r.active].taken /\ row.cleaned
          /\ row.recorded = r.rows[r.active].recorded /\ row.result = r.rows[r.active].result
      BY <3>2 DEF RowType
    <3> HIDE DEF row, rows
    <3> QED
      BY <1>2, <2>2, <3>1, <3>3
  <2> QED
    BY <1>2, <2>1, <2>2
<1> HIDE DEF rows
<1>4. /\ n \in Run /\ n.status = st /\ n.pairs = r.pairs /\ n.active = NoSlot
      /\ n.used = r.used /\ n.rows = rows
  <2>1. Released(r) = [r EXCEPT !.rows = rows, !.active = NoSlot, !.cleanup = FALSE]
    BY DEF Released, rows
  <2> QED
    BY <1>1, <1>3, <2>1 DEF Run, RowType
<1> HIDE DEF n
<1>5. \A t \in Slot : (IsTaken(n, t) <=> IsTaken(r, t)) /\ (IsFinished(r, t) => IsFinished(n, t))
  BY <1>3, <1>4 DEF IsTaken, IsFinished
<1>6. ActiveIsOpen(n)
  <2>1. \A t \in Slot : IsTaken(n, t) => n.rows[t].cleaned
    BY <1>1, <1>3, <1>4, <1>5 DEF ActiveIsOpen
  <2> QED
    BY <1>4, <2>1 DEF ActiveIsOpen
<1>7. CleanedIsRecorded(n)
  <2> SUFFICES ASSUME st /= "aborted", NEW t \in Slot, n.rows[t].cleaned
               PROVE  IsFinished(n, t)
    BY <1>4 DEF CleanedIsRecorded
  <2>1. CASE r.rows[t].cleaned
    BY <1>1, <1>5, <2>1 DEF CleanedIsRecorded
  <2>2. CASE t = r.active
    BY <1>1, <1>3, <1>4, <2>2, NoSlotIsNone DEF ActiveIsOpen, IsFinished, IsTaken
  <2> QED
    BY <1>3, <1>4, <2>1, <2>2
<1>8. PairsAreFinished(n)
  <2>1. ASSUME NEW i \in 1 .. r.pairs, NEW b \in Arm
        PROVE  IsFinished(n, <<Plan[i].alias, b>>)
    <3>1. i \in 1 .. Len(Plan)
      BY <1>2, PlanIsInjective
    <3>2. <<Plan[i].alias, b>> \in Slot
      BY <3>1, PlanIsInjective DEF Slot
    <3> QED
      BY <1>1, <1>5, <3>2 DEF PairsAreFinished
  <2> QED
    BY <1>4, <2>1 DEF PairsAreFinished
<1>9. InOrder(n)
  BY <1>1, <1>5 DEF InOrder
<1>10. KeptApart(n)
  BY <1>1, <1>3, <1>4 DEF KeptApart
<1>11. Earned(n)
  BY <1>1, <1>3, <1>4 DEF Earned
<1>12. Good(n)
  BY <1>4, <1>6, <1>7, <1>8, <1>9, <1>10, <1>11 DEF Good
<1> QED
  BY <1>12 DEF n

LEMMA CleanedIsGood ==
    ASSUME NEW r, Good(r)
    PROVE  Good(Cleaned(r))
<1>1. CASE r.status = "aborted"
  <2>1. Cleaned(r) = [Released(r) EXCEPT !.status = "aborted"]
    <3>1. r \in Run
      BY DEF Good
    <3>2. Cleaned(r) = Released(r)
      BY <1>1 DEF Cleaned
    <3> QED
      BY <1>1, <3>1, <3>2 DEF Released, Run
  <2>2. "aborted" \in Status
    BY DEF Status
  <2>3. Good([Released(r) EXCEPT !.status = "aborted"])
    BY <2>2, ReleasedIsGood
  <2> QED
    BY <2>1, <2>3
<1>2. CASE r.status = "arm_recorded"
  <2>1. Cleaned(r) = [Released(r) EXCEPT !.status = "arm_cleaned"]
    BY <1>2 DEF Cleaned
  <2> QED
    BY <1>2, <2>1, ReleasedIsGood DEF Status
<1>3. CASE r.status \notin {"aborted", "arm_recorded"}
  <2>1. Cleaned(r) = Aborted(r)
    BY <1>3 DEF Cleaned
  <2> QED
    BY <2>1, AbortedIsGood
<1> QED
  BY <1>1, <1>2, <1>3

LEMMA PairCompletedIsGood ==
    ASSUME NEW r, Good(r), NEW c \in Case
    PROVE  Good(PairCompleted(r, c))
<1> SUFFICES ASSUME r.status = "arm_cleaned", PairIsDone(r)
             PROVE  Good([r EXCEPT !.status = "pair_completed", !.pairs = @ + 1])
  BY AbortedIsGood DEF PairCompleted
<1> DEFINE n == [r EXCEPT !.status = "pair_completed", !.pairs = @ + 1]
           i == r.pairs + 1
<1>1. /\ r \in Run
      /\ ActiveIsOpen(r) /\ CleanedIsRecorded(r) /\ PairsAreFinished(r)
      /\ InOrder(r) /\ KeptApart(r) /\ Earned(r)
  BY DEF Good
<1>2. r.pairs \in 0 .. Len(Plan) /\ r.pairs < Len(Plan) /\ Len(Plan) \in Nat
  BY <1>1, RunIsTyped, PlanIsInjective DEF PairIsDone
<1>3. /\ n \in Run /\ n.status = "pair_completed" /\ n.pairs = i /\ n.active = r.active
      /\ n.used = r.used /\ n.rows = r.rows
  <2>1. i \in 0 .. Len(Plan)
    BY <1>2
  <2>2. n = [r EXCEPT !.status = "pair_completed", !.pairs = i]
    OBVIOUS
  <2> HIDE DEF i, n
  <2> QED
    BY <1>1, <2>1, <2>2 DEF Run, Status
<1> HIDE DEF n
<1>4. \A b \in Arm : IsFinished(r, <<Plan[i].alias, b>>)
  <2> SUFFICES ASSUME NEW b \in Arm
               PROVE  IsFinished(r, <<Plan[i].alias, b>>)
    OBVIOUS
  <2>1. /\ i \in 1 .. Len(Plan) /\ Plan[i].alias \in Case
        /\ Plan[i].order \in {<<"baseline", "memory">>, <<"memory", "baseline">>}
    BY <1>2, PlanIsInjective
  <2>2. PICK k \in 1 .. 2 : b = Plan[i].order[k]
    <3>1. b = Plan[i].order[1] \/ b = Plan[i].order[2]
      BY <2>1 DEF Arm
    <3> QED
      BY <3>1
  <2>3. r.rows[<<Plan[i].alias, b>>].cleaned
    BY <2>2 DEF PairIsDone, ArmsDue
  <2>4. <<Plan[i].alias, b>> \in Slot
    BY <2>1 DEF Slot
  <2> QED
    BY <1>1, <2>3, <2>4 DEF CleanedIsRecorded
<1>5. PairsAreFinished(n)
  <2>1. \A j \in 1 .. i : \A b \in Arm : IsFinished(r, <<Plan[j].alias, b>>)
    BY <1>1, <1>2, <1>4 DEF PairsAreFinished
  <2> QED
    BY <1>3, <2>1 DEF PairsAreFinished, IsFinished, IsTaken
<1>6. ActiveIsOpen(n) /\ CleanedIsRecorded(n) /\ InOrder(n) /\ KeptApart(n) /\ Earned(n)
  BY <1>1, <1>3 DEF ActiveIsOpen, CleanedIsRecorded, InOrder, KeptApart, Earned, IsTaken, IsFinished
<1>7. Good(n)
  BY <1>1, <1>3, <1>5, <1>6 DEF Good
<1> QED
  BY <1>7 DEF n

-----------------------------------------------------------------------------
(* The invariant                                                           *)

GoodRun == {r \in Run : Good(r)}

\* A request has computed its state from a file it has read, so what it is
\* going to write is as good as the file was, however stale it has become.
Inv ==
    /\ file \in GoodRun \cup {NoRun}
    /\ DOMAIN doing = Caller
    /\ \A c \in Caller :
           /\ doing[c].at \in {"idle", "write", "append", "qualify"}
           /\ doing[c].at = "write" => doing[c].new \in GoodRun
           /\ doing[c].at /= "write" => doing[c].new = NoRun
           /\ doing[c].at \in {"append", "qualify"} => file /= NoRun

LEMMA GoodRuns ==
    /\ \A r : Good(r) <=> r \in GoodRun
    /\ GoodRun \subseteq Run /\ NoRun \notin GoodRun
BY RunIsTyped DEF Good, GoodRun

LEMMA InitInv == Init => Inv
<1> SUFFICES ASSUME Init
             PROVE  Inv
  OBVIOUS
<1>1. file = NoRun /\ DOMAIN doing = Caller /\ \A c \in Caller : doing[c] = Idle
  BY DEF Init
<1>2. Idle.at = "idle" /\ Idle.new = NoRun
  BY DEF Idle
<1> QED
  BY <1>1, <1>2 DEF Inv

\* A request that is going to write a good state keeps the invariant.
LEMMA RequestKeepsInv ==
    ASSUME Inv, NEW c \in Caller, NEW op, NEW new \in GoodRun, Request(c, op, new)
    PROVE  Inv'
<1> DEFINE req == [at |-> "write", op |-> op, new |-> new]
<1>1. /\ file' = file /\ DOMAIN doing' = Caller /\ doing'[c] = req
      /\ \A d \in Caller : d /= c => doing'[d] = doing[d]
  BY DEF Request, Inv
<1>2. req.at = "write" /\ req.new = new
  OBVIOUS
<1> HIDE DEF req
<1> QED
  BY <1>1, <1>2 DEF Inv

\* A step that gives one request a new state, not one that writes.
LEMMA StepKeepsInv ==
    ASSUME Inv, NEW c \in Caller, NEW d, doing' = [doing EXCEPT ![c] = d],
           d.at \in {"idle", "append", "qualify"}, d.new = NoRun,
           file' \in GoodRun \cup {NoRun}, file' = NoRun => file = NoRun,
           d.at \in {"append", "qualify"} => file' /= NoRun
    PROVE  Inv'
<1>1. /\ DOMAIN doing' = Caller /\ doing'[c] = d
      /\ \A e \in Caller : e /= c => doing'[e] = doing[e]
  BY DEF Inv
<1> QED
  BY <1>1 DEF Inv

LEMMA NextInv == Inv /\ [Next]_vars => Inv'
<1> SUFFICES ASSUME Inv, [Next]_vars
             PROVE  Inv'
  OBVIOUS
<1>1. CASE UNCHANGED vars
  BY <1>1 DEF Inv, vars
<1>2. CASE Next
  <2> PICK c \in Caller :
        \/ StartRun(c) \/ Qualify(c) \/ StartArm(c) \/ SubmitResult(c) \/ Cleanup(c)
        \/ CompletePair(c) \/ CompleteRun(c) \/ AbortRun(c)
        \/ WriteState(c) \/ AppendEvent(c) \/ Fail(c)
    BY <1>2 DEF Next
  <2> USE GoodRuns
  <2>0. file /= NoRun => Good(file)
    BY DEF Inv
  <2>1. CASE StartRun(c)
    BY <2>1, NewRunIsGood, RequestKeepsInv DEF StartRun
  <2>2. CASE Qualify(c)
    <3>1. doing[c].at = "qualify" /\ file' = file /\ file /= NoRun /\ Good(file)
      BY <2>0, <2>2 DEF Qualify, Inv
    <3>2. CASE Open(file)
      <4>1. PICK digest \in BOOLEAN : doing' = [doing EXCEPT ![c] =
                [at |-> "write", op |-> "qualify", new |-> Qualified(file, digest)]]
        BY <2>2, <3>2 DEF Qualify
      <4> DEFINE new == Qualified(file, digest)
                 req == [at |-> "write", op |-> "qualify", new |-> new]
      <4>2. new \in GoodRun
        BY <3>1, QualifiedIsGood
      <4> HIDE DEF new
      <4>3. req.at = "write" /\ req.new = new
        OBVIOUS
      <4>4. doing' = [doing EXCEPT ![c] = req]
        BY <4>1 DEF new
      <4> HIDE DEF req
      <4>5. /\ DOMAIN doing' = Caller /\ doing'[c] = req
            /\ \A d \in Caller : d /= c => doing'[d] = doing[d]
        BY <4>4 DEF Inv
      <4> QED
        BY <3>1, <4>2, <4>3, <4>5 DEF Inv
    <3>3. CASE ~ Open(file)
      <4>1. doing' = [doing EXCEPT ![c] = Idle]
        BY <2>2, <3>3 DEF Qualify
      <4>2. Idle.at = "idle" /\ Idle.new = NoRun
        BY DEF Idle
      <4> QED
        BY <3>1, <4>1, <4>2, StepKeepsInv
    <3> QED
      BY <3>2, <3>3
  <2>3. CASE StartArm(c)
    <3> PICK s \in Slot : \E q \in Offered[s] : Request(c, "start_arm", Started(file, s, q))
      BY <2>3 DEF StartArm
    <3>1. PICK q \in Offered[s] : Request(c, "start_arm", Started(file, s, q))
      OBVIOUS
    <3>2. q \in Resource
      BY InputAssumption
    <3>3. Good(Started(file, s, q))
      BY <2>0, <2>3, <3>2, StartedIsGood DEF StartArm, Loaded
    <3> QED
      BY <3>1, <3>3, RequestKeepsInv
  <2>4. CASE SubmitResult(c)
    <3> PICK s \in Slot : \E e \in Answers[s] :
              Request(c, "submit_result", Recorded(file, s, Scored(s[1], e)))
      BY <2>4 DEF SubmitResult
    <3>1. PICK e \in Answers[s] : Request(c, "submit_result", Recorded(file, s, Scored(s[1], e)))
      OBVIOUS
    <3>2. Good(Recorded(file, s, Scored(s[1], e)))
      BY <2>0, <2>4, RecordedIsGood DEF SubmitResult, Loaded
    <3> QED
      BY <3>1, <3>2, RequestKeepsInv
  <2>5. CASE Cleanup(c)
    BY <2>0, <2>5, CleanedIsGood, RequestKeepsInv DEF Cleanup
  <2>6. CASE CompletePair(c)
    BY <2>0, <2>6, PairCompletedIsGood, RequestKeepsInv DEF CompletePair, Loaded
  <2>7. CASE CompleteRun(c)
    BY <2>0, <2>7, RunCompletedIsGood, RequestKeepsInv DEF CompleteRun, Loaded
  <2>8. CASE AbortRun(c)
    BY <2>0, <2>8, AbortedIsGood, RequestKeepsInv DEF AbortRun, Loaded
  <2>9. CASE WriteState(c)
    <3> DEFINE d == [doing[c] EXCEPT !.at = "append", !.new = NoRun]
    <3>1. file' = doing[c].new /\ doing[c].new \in GoodRun /\ doing' = [doing EXCEPT ![c] = d]
      BY <2>9 DEF WriteState, Inv
    <3>2. d.at = "append" /\ d.new = NoRun
      BY <2>9 DEF WriteState
    <3> HIDE DEF d
    <3> QED
      BY <3>1, <3>2, StepKeepsInv
  <2>10. CASE AppendEvent(c)
    <3> DEFINE d == IF doing[c].op = "initialize" THEN [Idle EXCEPT !.at = "qualify"] ELSE Idle
    <3>1. doing[c].at = "append" /\ file' = file /\ doing' = [doing EXCEPT ![c] = d]
      BY <2>10 DEF AppendEvent
    <3>2. d.at \in {"idle", "qualify"} /\ d.new = NoRun
      BY DEF Idle
    <3>3. file /= NoRun
      BY <3>1 DEF Inv
    <3> HIDE DEF d
    <3> QED
      BY <2>0, <3>1, <3>2, <3>3, StepKeepsInv
  <2>11. CASE Fail(c)
    <3>1. file' = file /\ doing' = [doing EXCEPT ![c] = Idle]
      BY <2>11 DEF Fail
    <3>2. Idle.at = "idle" /\ Idle.new = NoRun
      BY DEF Idle
    <3> QED
      BY <3>1, <3>2, StepKeepsInv DEF Inv
  <2> QED
    BY <2>1, <2>2, <2>3, <2>4, <2>5, <2>6, <2>7, <2>8, <2>9, <2>10, <2>11
<1> QED
  BY <1>1, <1>2

\* At every moment each request in flight will write a sound run.
THEOREM InvAlways == Spec => []Inv
<1>1. Init => Inv
  BY InitInv
<1>2. Inv /\ [Next]_vars => Inv'
  BY NextInv
<1> QED
  BY <1>1, <1>2, PTL DEF Spec

-----------------------------------------------------------------------------
(* What the runs check                                                     *)

\* The run file and every pending write keep their types.
THEOREM TypeCorrect == Spec => []TypeOK
<1>1. Inv => TypeOK
  BY GoodRuns DEF Inv, TypeOK
<1> QED
  BY <1>1, InvAlways, PTL

\* The arms of the plan are worked off in its order, one after the other, on
\* resources no two of them share, however the requests of the controller
\* and of an operator interleave and wherever they fail; a completed run has
\* finished them all.
THEOREM ArmsAreComparableAlways == Spec => []ArmsAreComparable
<1>1. Inv => ArmsAreComparable
  <2> SUFFICES ASSUME Inv, file /= NoRun
               PROVE  ArmsAreComparable
    BY DEF ArmsAreComparable, Exists
  <2>1. file \in Run /\ PairsAreFinished(file) /\ InOrder(file) /\ KeptApart(file)
    BY GoodRuns DEF Inv, Good
  <2>2. ASSUME NEW s \in Slot, NEW t \in Slot, Taken(t), Rank(s) < Rank(t)
        PROVE  Finished(s)
    BY <2>1, <2>2 DEF InOrder, IsTaken, IsFinished, Taken, Finished
  <2>3. ASSUME file.status = "completed", NEW s \in Slot
        PROVE  Finished(s)
    <3>1. file.pairs = Len(Plan)
      BY <2>1, <2>3 DEF PairsAreFinished
    <3>2. PICK j \in 1 .. Len(Plan) : s = <<Plan[j].alias, s[2]>> /\ s[2] \in Arm
      BY SlotHasPlace
    <3>3. IsFinished(file, <<Plan[j].alias, s[2]>>)
      BY <2>1, <3>1, <3>2 DEF PairsAreFinished
    <3> QED
      BY <3>2, <3>3 DEF IsTaken, IsFinished, Taken, Finished
  <2>4. \A s, t \in Slot : s /= t =>
            \A q \in file.rows[s].taken, u \in file.rows[t].taken : Apart(q, u)
    BY <2>1 DEF KeptApart
  <2> QED
    BY <2>2, <2>3, <2>4 DEF ArmsAreComparable
<1> QED
  BY <1>1, InvAlways, PTL

\* A summary whose cleanup is complete leaves no arm behind that was started
\* and never cleaned, whether the run went on or was aborted.
THEOREM CleanupIsCompleteAlways == Spec => []CleanupIsComplete
<1>1. Inv => CleanupIsComplete
  BY GoodRuns, NoSlotIsNone
     DEF Inv, Good, CleanupIsComplete, CleanupComplete, Exists, ActiveIsOpen, IsTaken, Taken
<1> QED
  BY <1>1, InvAlways, PTL

\* No result is published as successful unless its worker took the decision
\* and selected the evidence of the gold answer, and broke no rule.
THEOREM SuccessIsEarnedAlways == Spec => []SuccessIsEarned
<1>1. Inv => SuccessIsEarned
  <2> SUFFICES ASSUME Inv, Exists, NEW s \in Slot, file.rows[s].result.successful
               PROVE  LET e == file.rows[s].result.envelope
                      IN  /\ e.decision = Gold[s[1]].decision
                          /\ e.selected = Gold[s[1]].allowed
                          /\ ~ e.violations
    BY DEF SuccessIsEarned
  <2>1. Earned(file)
    BY GoodRuns DEF Inv, Exists, Good
  <2>2. ~ NoReceipt.successful
    BY DEF NoReceipt
  <2>3. PICK e \in Answers[s] : file.rows[s].result = Scored(s[1], e)
    BY <2>1, <2>2 DEF Earned
  <2> QED
    BY <2>3, ThresholdIsEarned
<1> QED
  BY <1>1, InvAlways, PTL
===============================================================================
