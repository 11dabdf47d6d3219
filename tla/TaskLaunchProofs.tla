--------------------------- MODULE TaskLaunchProofs ---------------------------
(***************************************************************************)
(* Theorems about TaskLaunch, for any launches, cards, contracts, profile  *)
(* files, people's sessions and any number of assessments and switches.    *)
(***************************************************************************)
EXTENDS TaskLaunch, SequenceTheorems, WellFoundedInduction, TLAPS

-----------------------------------------------------------------------------
(* Least and greatest elements                                             *)

LEMMA LeastExists ==
    ASSUME NEW T \in SUBSET Nat, T # {}
    PROVE  \E x \in T : \A y \in T : x <= y
<1> DEFINE R == {ss \in Nat \X Nat : ss[1] < ss[2]}
<1>1. IsWellFoundedOn(R, Nat)
  <2>1. R = OpToRel(<, Nat)
    BY DEF OpToRel
  <2> QED
    BY <2>1, NatLessThanWellFounded
<1>2. PICK x \in T : \A y \in T : ~ (<<y, x>> \in R)
  <2> HIDE DEF R
  <2> QED
    BY <1>1, WFMin
<1>3. ASSUME NEW y \in T PROVE x <= y
  <2>1. ~ (<<y, x>> \in R)
    BY <1>2
  <2> QED
    BY <2>1
<1> QED
  BY <1>3

LEMMA GreatestExists ==
    ASSUME NEW n \in Nat, NEW S \in SUBSET (1 .. n), S # {}
    PROVE  Max(S) \in S /\ \A y \in S : y <= Max(S)
<1> DEFINE T == {n - i : i \in S}
<1>1. PICK x \in T : \A y \in T : x <= y
  <2>1. \A i \in S : n - i \in Nat
    OBVIOUS
  <2>2. T \in SUBSET Nat /\ T # {}
    BY <2>1
  <2> HIDE DEF T
  <2> QED
    BY <2>2, LeastExists
<1>2. PICK i \in S : x = n - i
  BY <1>1
<1>3. ASSUME NEW y \in S PROVE i >= y
  <2>1. n - y \in T
    OBVIOUS
  <2>2. x <= n - y
    BY <1>1, <2>1
  <2> QED
    BY <1>2, <2>2
<1> QED
  BY <1>2, <1>3 DEF Max

LEMMA GreatestIsTop ==
    ASSUME NEW n \in Nat, NEW S \in SUBSET (1 .. n), n \in S
    PROVE  Max(S) = n
<1>1. Max(S) \in S /\ \A y \in S : y <= Max(S)
  BY GreatestExists
<1>2. Max(S) \in 1 .. n /\ n <= Max(S)
  BY <1>1
<1> QED
  BY <1>2

LEMMA MinIsLeast ==
    ASSUME NEW S \in SUBSET Nat, S # {}
    PROVE  Min(S) \in S /\ \A y \in S : Min(S) <= y
BY LeastExists DEF Min

LEMMA MinOfTwo ==
    ASSUME NEW a \in Int, NEW b \in Int
    PROVE  /\ Min({a, b}) \in {a, b}
           /\ Min({a, b}) <= a /\ Min({a, b}) <= b
<1>1. \E x \in {a, b} : \A y \in {a, b} : x <= y
  OBVIOUS
<1>2. Min({a, b}) \in {a, b} /\ \A y \in {a, b} : Min({a, b}) <= y
  BY <1>1 DEF Min
<1> QED
  BY <1>2

-----------------------------------------------------------------------------
(* What the gateway answers                                                *)

\* The first sufficient level is found by the search and by its definition.
LEMMA FirstIsReference ==
    ASSUME NEW out \in [Levels -> Outcomes], NEW begun \in 0 .. 4
    PROVE  /\ FirstSufficient(out, begun) = Reference(out, begun)
           /\ FirstSufficient(out, begun) \in 0 .. begun
           /\ FirstSufficient(out, begun) # 0 => Sufficient(out[FirstSufficient(out, begun)])
<1> DEFINE good == {i \in 1 .. begun : Sufficient(out[i])}
           first(i) == Sufficient(out[i]) /\ \A j \in 1 .. i - 1 : ~Sufficient(out[j])
<1>1. CASE good = {}
  BY <1>1 DEF FirstSufficient, Reference
<1>2. CASE good # {}
  <2>1. good \in SUBSET Nat
    OBVIOUS
  <2>2. Min(good) \in good /\ \A i \in good : Min(good) <= i
    <3> HIDE DEF good
    <3> QED
      BY <1>2, <2>1, MinIsLeast
  <2>3. FirstSufficient(out, begun) = Min(good)
    BY <1>2 DEF FirstSufficient
  <2> DEFINE m == Min(good)
  <2>4. m \in 1 .. begun /\ Sufficient(out[m]) /\ \A i \in 1 .. begun : Sufficient(out[i]) => m <= i
    BY <2>2
  <2> HIDE DEF m
  <2>5. first(m)
    BY <2>4
  <2>6. \A i \in 1 .. begun : first(i) => i = m
    BY <2>4
  <2> HIDE DEF first
  <2>7. m = CHOOSE i \in 1 .. begun : first(i)
    BY <2>4, <2>5, <2>6
  <2>8. Reference(out, begun) = m
    BY <1>2, <2>7 DEF Reference, first
  <2> QED
    BY <2>3, <2>4, <2>8 DEF m
<1> QED
  BY <1>1, <1>2

Statuses == {"memory_applied", "memory_unavailable", "insufficient_evidence",
             "memory_budget_exceeded", "memory_invalid_response"}
Reply == [error : {None, "timeout", "budget_exceeded", "invalid_response"},
          typed : BOOLEAN, foreign : BOOLEAN, truncated : BOOLEAN,
          status : Statuses \cup {None}, selected : 0 .. 4, tried : 0 .. 4,
          claims : 0 .. MaxClaims, tokens : Nat]

\* Claims that pass the checks of a reply are of the first sufficient level.
Faithful(a) ==
    a.reply.status = "memory_applied" /\ a.reply.typed /\ ~a.reply.foreign
    /\ a.reply.selected # 0 => a.reply.selected = a.first

LEMMA RepliesAreFaithful ==
    ASSUME NEW a \in Recalled \cup Transported
    PROVE  a.reply \in Reply /\ a.first \in 0 .. 4 /\ Faithful(a)
<1>1. CASE a \in Recalled
  <2>1. PICK out \in [Levels -> Outcomes], begun \in 0 .. 4 :
            a = [reply |-> Recover(out, begun), first |-> Reference(out, begun)]
    BY <1>1 DEF Recalled
  <2> DEFINE best == FirstSufficient(out, begun)
  <2>2. best = Reference(out, begun) /\ best \in 0 .. 4
    BY FirstIsReference
  <2>3. \A o \in Outcomes : Rows(o) \in 0 .. MaxClaims
    BY DEF Rows, MaxClaims
  <2>4. best # 0 => out[best] \in Outcomes
    BY <2>2 DEF Levels
  <2> HIDE DEF best
  <2>5. /\ Recover(out, begun) \in Reply
        /\ Recover(out, begun).status = "memory_applied" => Recover(out, begun).selected = best
    BY <2>3, <2>4, <2>2 DEF Recover, Answer, Reply, Statuses, Tokens, MaxClaims, best
  <2> QED
    BY <2>1, <2>2, <2>5 DEF Faithful
<1>2. CASE a \in Transported
  <2> DEFINE ok(r) == r \in Reply /\ (r.status = "memory_applied" /\ r.typed /\ ~r.foreign
                                      /\ r.selected # 0 => r.selected = 1)
             good == Answer("memory_applied", 1, 1, 1, Tokens)
             bare == Answer("memory_applied", 0, 1, 1, Tokens)
             two == Answer("memory_applied", 1, 1, 2, Tokens)
  <2>1. \A code \in {"timeout", "budget_exceeded", "invalid_response"} :
            Failed(code) \in Reply /\ Failed(code).status # "memory_applied"
    <3> DEFINE blank == Answer(None, 0, 0, 0, 0)
    <3>1. blank \in Reply /\ blank.status # "memory_applied"
      BY DEF Answer, Reply, Statuses, MaxClaims, None
    <3> HIDE DEF blank
    <3>2. \A code \in {"timeout", "budget_exceeded", "invalid_response"} :
              LET r == [blank EXCEPT !.error = code]
              IN r \in Reply /\ r.status # "memory_applied"
      BY <3>1 DEF Reply
    <3> QED
      BY <3>2 DEF Failed, blank
  <2>2. good \in Reply /\ bare \in Reply /\ two \in Reply /\ good.selected = 1
        /\ bare.selected = 0 /\ two.selected = 1
    BY DEF Answer, Reply, Statuses, Tokens, MaxClaims, None
  <2>3. ok([good EXCEPT !.foreign = TRUE]) /\ ok([two EXCEPT !.truncated = TRUE])
        /\ ok([bare EXCEPT !.typed = FALSE])
    <3> HIDE DEF good, bare, two
    <3>1. ok([good EXCEPT !.foreign = TRUE])
      BY <2>2 DEF Reply
    <3>2. ok([two EXCEPT !.truncated = TRUE])
      BY <2>2 DEF Reply
    <3>3. ok([bare EXCEPT !.typed = FALSE])
      BY <2>2 DEF Reply
    <3> QED
      BY <3>1, <3>2, <3>3
  <2>4. CASE \E code \in {"timeout", "budget_exceeded", "invalid_response"} :
                 a = [reply |-> Failed(code), first |-> 0]
    BY <2>1, <2>4 DEF Faithful
  <2>5. CASE \E r \in {[good EXCEPT !.foreign = TRUE], [bare EXCEPT !.typed = FALSE],
                       [two EXCEPT !.truncated = TRUE]} : a = [reply |-> r, first |-> 1]
    <3>1. PICK r \in {[good EXCEPT !.foreign = TRUE], [bare EXCEPT !.typed = FALSE],
                      [two EXCEPT !.truncated = TRUE]} : a = [reply |-> r, first |-> 1]
      BY <2>5
    <3>2. ok(r)
      BY <2>3
    <3> QED
      BY <3>1, <3>2 DEF Faithful
  <2> QED
    BY <1>2, <2>4, <2>5 DEF Transported
<1> QED
  BY <1>1, <1>2

\* The TaskSpecs of an answer hold what the profile allows, and an automatic one
\* takes its claims from the first sufficient level.
LEMMA SpecsFit ==
    ASSUME NEW a \in Recalled \cup Transported, NEW p, p.topK \in Int, p.room \in Int,
           p.room > 0
    PROVE  /\ AutomaticSpec(a, p) \in SpecType
           /\ AutomaticSpec(a, p).claims > 0 =>
                  /\ AutomaticSpec(a, p).claims <= Min({p.topK, p.room})
                  /\ AutomaticSpec(a, p).level # 0
                  /\ AutomaticSpec(a, p).level = AutomaticSpec(a, p).first
           /\ ~ManualRefused(a.reply, p) =>
                  /\ ManualSpec(a, p) \in SpecType
                  /\ ManualSpec(a, p).claims <= Min({p.topK, p.room})
<1>1. a.reply \in Reply /\ a.first \in 0 .. 4 /\ Faithful(a)
  BY RepliesAreFaithful
<1> DEFINE reply == a.reply
           status == AutomaticStatus(reply, p)
<1>2. /\ reply.claims \in 0 .. 3 /\ reply.selected \in 0 .. 4 /\ reply.tried \in 0 .. 4
      /\ reply.typed \in BOOLEAN /\ reply.foreign \in BOOLEAN /\ reply.error # None => TRUE
      /\ reply.status \in Statuses \cup {None}
  BY <1>1 DEF Reply, MaxClaims
<1>3. Min({p.topK, p.room}) \in {p.topK, p.room}
  BY MinOfTwo
<1> DEFINE spec == AutomaticSpec(a, p)
           fits == /\ spec \in SpecType
                   /\ spec.claims > 0 => /\ spec.claims <= Min({p.topK, p.room})
                                         /\ spec.level # 0 /\ spec.level = spec.first
<1>4. ASSUME status = "memory_applied" PROVE fits
  <2>1. reply.error = None /\ ~Invalid(reply, p) /\ reply.claims <= p.room
        /\ reply.status = "memory_applied"
    BY <1>2, <1>4 DEF AutomaticStatus, ErrorStatus
  <2>2. reply.claims <= p.topK /\ reply.selected # 0 /\ reply.typed /\ ~reply.foreign
    BY <1>2, <2>1 DEF Invalid
  <2>3. reply.selected = a.first
    BY <1>1, <2>1, <2>2 DEF Faithful
  <2>4. AutomaticSpec(a, p) = [status |-> status, claims |-> reply.claims,
                               level |-> reply.selected, first |-> a.first]
    BY <1>4 DEF AutomaticSpec
  <2>5. AutomaticSpec(a, p) \in SpecType
    <3> HIDE DEF status, reply
    <3> QED
      BY <1>1, <1>2, <1>4, <2>4 DEF SpecType, MaxClaims
  <2>6. /\ AutomaticSpec(a, p).claims = reply.claims /\ AutomaticSpec(a, p).first = a.first
        /\ AutomaticSpec(a, p).level = reply.selected
    BY <2>4
  <2>7. reply.claims <= Min({p.topK, p.room})
    BY <1>3, <2>1, <2>2
  <2> HIDE DEF status, reply
  <2> QED
    BY <2>2, <2>3, <2>5, <2>6, <2>7
<1>5. ASSUME status # "memory_applied" PROVE fits
  <2>1. status \in {"memory_unavailable", "insufficient_evidence", None,
                    "memory_budget_exceeded", "memory_invalid_response"}
    BY <1>2, <1>5 DEF AutomaticStatus, ErrorStatus, Statuses
  <2>2. AutomaticSpec(a, p) = [NoSpec EXCEPT !.status = status]
    BY <1>5 DEF AutomaticSpec, Without
  <2>3. NoSpec \in SpecType /\ NoSpec.claims = 0
    BY DEF SpecType, NoSpec, MaxClaims, None
  <2> HIDE DEF status
  <2>4. [NoSpec EXCEPT !.status = status] \in SpecType
        /\ [NoSpec EXCEPT !.status = status].claims = 0
    BY <2>1, <2>3 DEF SpecType
  <2> QED
    BY <2>2, <2>4
<1>6. ASSUME ~ManualRefused(reply, p)
      PROVE  /\ ManualSpec(a, p) \in SpecType
             /\ ManualSpec(a, p).claims <= Min({p.topK, p.room})
  <2>1. reply.claims <= p.topK
    BY <1>2, <1>6 DEF ManualRefused
  <2> DEFINE m == Min({reply.claims, p.room})
  <2>2. m \in {reply.claims, p.room} /\ m <= reply.claims /\ m <= p.room
    <3>1. reply.claims \in Int
      BY <1>2
    <3> HIDE DEF reply
    <3> QED
      BY <3>1, MinOfTwo
  <2>3. ManualSpec(a, p).claims = m
    BY DEF ManualSpec
  <2> HIDE DEF m, reply
  <2>4. m \in 0 .. 3
    BY <1>2, <2>2
  <2>5. m <= Min({p.topK, p.room})
    BY <1>2, <1>3, <2>1, <2>2
  <2>6. ManualSpec(a, p) \in SpecType
    BY <2>4 DEF ManualSpec, SpecType, MaxClaims, m, reply
  <2> QED
    BY <2>3, <2>5, <2>6
<1> HIDE DEF fits
<1>7. fits
  BY <1>4, <1>5
<1> QED
  BY <1>6, <1>7 DEF fits

-----------------------------------------------------------------------------
(* What is true of the local state of a launch                             *)

LaunchRecord(ss) ==
    [pc : {"idle", "read", "confirmed", "asked", "compiled", "receipted", "written",
           "ready", "capturing", "recorded", "blocked"},
     card : OrNone(Cards), bypass : BOOLEAN, read : Modes,
     recall : OrNone({"automatic", "manual_canary"}), spec : SpecType,
     digest : OrNone(Launches), attempt : OrNone(Launches), before : SUBSET ss]

Placed(r) ==
    r.pc \in {"read", "confirmed", "asked", "compiled", "receipted", "written", "ready",
             "capturing"} => r.card \in Cards

\* The launch may make the recall that it goes for.
Entitled(r) ==
    r.pc \in {"read", "confirmed", "asked"} =>
        /\ r.recall # None =>
               /\ ~r.bypass /\ profile.enabled /\ Contract[r.card].slug = Project
               /\ \/ /\ r.recall = "manual_canary"
                     /\ r.read = "manual_canary" /\ Contract[r.card].canary
                  \/ /\ r.recall = "automatic"
                     /\ r.read = "automatic" /\ ~Contract[r.card].baseline
        /\ r.pc # "read" => r.recall # None /\ profile.room > 0

Earned(r) ==
    r.pc \in {"compiled", "receipted"} /\ r.spec.claims > 0 =>
        /\ ~r.bypass /\ profile.enabled /\ Contract[r.card].slug = Project
        /\ r.spec.claims <= Min({profile.topK, profile.room})
        /\ IF Contract[r.card].canary /\ r.read = "manual_canary" THEN TRUE
           ELSE /\ r.read = "automatic" /\ ~Contract[r.card].baseline
                /\ r.spec.level # 0 /\ r.spec.level = r.spec.first

Sound(r) == r \in LaunchRecord(sessions) /\ Placed(r) /\ Entitled(r) /\ Earned(r)

LaunchesAreSound ==
    launch \in [Launches -> LaunchRecord(sessions)] /\ \A l \in Launches : Sound(launch[l])

LEMMA IdleIsRecord == Idle \in LaunchRecord(sessions)
<1>1. NoSpec \in SpecType
  BY DEF SpecType, NoSpec, MaxClaims, None
<1> QED
  BY <1>1 DEF Idle, LaunchRecord, OrNone, Modes

LEMMA IdleIsSound ==
    ASSUME NEW pc \in {"idle", "recorded", "blocked"}
    PROVE  Sound([Idle EXCEPT !.pc = pc])
<1>1. Idle \in LaunchRecord(sessions)
  BY IdleIsRecord
<1> DEFINE r == [Idle EXCEPT !.pc = pc]
<1>2. r \in LaunchRecord(sessions) /\ r.pc = pc
  <2> SUFFICES ASSUME NEW i, i = Idle
               PROVE  [i EXCEPT !.pc = pc] \in LaunchRecord(sessions)
                      /\ [i EXCEPT !.pc = pc].pc = pc
    OBVIOUS
  <2> QED
    BY <1>1 DEF LaunchRecord
<1> HIDE DEF r
<1>3. Sound(r)
  BY <1>2 DEF Sound, Placed, Entitled, Earned
<1> QED
  BY <1>3 DEF r

\* A step of launch l gives it a sound record and leaves the others alone.
SoundStep(l) == \E r : Sound(r) /\ launch' = [launch EXCEPT ![l] = r]

LEMMA BeginIsSound ==
    ASSUME LaunchesAreSound, TypeOK, NEW l \in Launches, NEW c \in Cards,
           NEW bypass \in BOOLEAN, Begin(l, c, bypass)
    PROVE  SoundStep(l)
<1>1. CASE Refused(c, bypass, mode)
  BY <1>1, IdleIsSound DEF Begin, Stops, SoundStep
<1>2. CASE ~Refused(c, bypass, mode)
  <2> DEFINE recall == Recall(c, bypass, mode)
             r == [Idle EXCEPT !.pc = "read", !.card = c, !.bypass = bypass,
                               !.read = mode, !.recall = recall]
  <2>1. recall \in OrNone({"automatic", "manual_canary"})
    BY DEF Recall, OrNone
  <2>2. recall # None =>
          /\ ~bypass /\ profile.enabled /\ Contract[c].slug = Project
          /\ \/ recall = "manual_canary" /\ mode = "manual_canary" /\ Contract[c].canary
             \/ recall = "automatic" /\ mode = "automatic" /\ ~Contract[c].baseline
    BY <1>2 DEF Recall, Refused, Attempted, TaskAllowed, AutomaticRequested, Eligible, None
  <2> HIDE DEF recall
  <2>3. r \in LaunchRecord(sessions)
    <3>1. Idle \in LaunchRecord(sessions)
      BY IdleIsRecord
    <3>2. mode \in Modes /\ c \in OrNone(Cards)
      BY DEF TypeOK, OrNone
    <3> QED
      BY <2>1, <3>1, <3>2 DEF LaunchRecord
  <2>4. r.pc = "read" /\ r.card = c /\ r.bypass = bypass /\ r.read = mode /\ r.recall = recall
    BY DEF Idle
  <2>5. launch' = [launch EXCEPT ![l] = r]
    BY <1>2 DEF Begin, recall
  <2> HIDE DEF r
  <2> QED
    BY <2>2, <2>3, <2>4, <2>5 DEF Sound, Placed, Entitled, Earned, SoundStep
<1> QED
  BY <1>1, <1>2

LEMMA StopsIsSound ==
    ASSUME NEW l \in Launches, NEW pc \in {"recorded", "blocked"}, Stops(l, pc)
    PROVE  SoundStep(l)
BY IdleIsSound DEF Stops, SoundStep

\* Past the recall nothing but the card and the TaskSpec of a launch matters.
LEMMA GoesIsSound ==
    ASSUME LaunchesAreSound, NEW l \in Launches, Goes(l, "receipted"),
           launch[l].pc = "compiled"
    PROVE  SoundStep(l)
<1> DEFINE r == [launch[l] EXCEPT !.pc = "receipted"]
<1>1. Sound(launch[l]) /\ launch[l] \in LaunchRecord(sessions)
  BY DEF LaunchesAreSound
<1>2. /\ r \in LaunchRecord(sessions) /\ r.pc = "receipted"
      /\ r.card = launch[l].card /\ r.bypass = launch[l].bypass /\ r.read = launch[l].read
      /\ r.spec = launch[l].spec
  BY <1>1 DEF LaunchRecord
<1>3. launch' = [launch EXCEPT ![l] = r]
  BY DEF Goes, LaunchesAreSound
<1> HIDE DEF r
<1> QED
  BY <1>1, <1>2, <1>3 DEF Sound, Placed, Entitled, Earned, SoundStep

LEMMA CompiledIsSound ==
    ASSUME LaunchesAreSound, NEW l \in Launches, NEW spec \in SpecType,
           Compiled(l, spec), launch[l].pc \in {"read", "asked"},
           spec.claims > 0 =>
               /\ ~launch[l].bypass /\ profile.enabled
               /\ Contract[launch[l].card].slug = Project
               /\ spec.claims <= Min({profile.topK, profile.room})
               /\ IF Contract[launch[l].card].canary /\ launch[l].read = "manual_canary"
                  THEN TRUE
                  ELSE /\ launch[l].read = "automatic"
                       /\ ~Contract[launch[l].card].baseline
                       /\ spec.level # 0 /\ spec.level = spec.first
    PROVE  SoundStep(l)
<1> DEFINE pc == IF Attempted(launch[l].card, launch[l].read) THEN "compiled" ELSE "receipted"
           r == [launch[l] EXCEPT !.spec = spec, !.pc = pc]
<1>1. Sound(launch[l]) /\ launch[l] \in LaunchRecord(sessions)
  BY DEF LaunchesAreSound
<1>2. pc \in {"compiled", "receipted"}
  OBVIOUS
<1>3. launch' = [launch EXCEPT ![l] = r]
  BY DEF Compiled, LaunchesAreSound
<1> HIDE DEF pc
<1>4. /\ r \in LaunchRecord(sessions) /\ r.pc = pc
      /\ r.card = launch[l].card /\ r.bypass = launch[l].bypass /\ r.read = launch[l].read
      /\ r.spec = spec
  BY <1>1, <1>2 DEF LaunchRecord
<1> HIDE DEF r
<1>5. Placed(r) /\ Entitled(r)
  BY <1>1, <1>2, <1>4 DEF Sound, Placed, Entitled
<1>6. Earned(r)
  BY <1>4 DEF Earned
<1> QED
  BY <1>3, <1>4, <1>5, <1>6 DEF Sound, SoundStep

LEMMA WithoutHasNoClaims ==
    ASSUME NEW status \in {"disabled", "not_requested", "memory_budget_exceeded",
                           "memory_unavailable", "memory_invalid_response"}
    PROVE  Without(status) \in SpecType /\ Without(status).claims = 0
<1>1. NoSpec \in SpecType /\ NoSpec.claims = 0
  BY DEF SpecType, NoSpec, MaxClaims, None
<1> QED
  BY <1>1 DEF Without, SpecType

LEMMA CompileWithoutIsSound ==
    ASSUME LaunchesAreSound, NEW l \in Launches, CompileWithout(l)
    PROVE  SoundStep(l)
<1>1. CASE launch[l].recall # None /\ ~Tolerant(l)
  BY <1>1, StopsIsSound DEF CompileWithout
<1>2. CASE launch[l].recall = None \/ Tolerant(l)
  <2>1. PICK status \in {"disabled", "not_requested", "memory_budget_exceeded",
                         "memory_unavailable", "memory_invalid_response"} :
            Compiled(l, Without(status))
    BY <1>2 DEF CompileWithout, PlainStatus, ErrorStatus
  <2>2. Without(status) \in SpecType /\ ~(Without(status).claims > 0)
    BY WithoutHasNoClaims
  <2> QED
    BY <2>1, <2>2, CompiledIsSound DEF CompileWithout
<1> QED
  BY <1>1, <1>2

\* Looking at the control again and sending the question change the place only.
LEMMA AskingIsSound ==
    ASSUME LaunchesAreSound, NEW l \in Launches, ConfirmControl(l) \/ Ask(l)
    PROVE  SoundStep(l)
<1>1. PICK pc \in {"confirmed", "asked"} : Goes(l, pc)
  BY DEF ConfirmControl, Ask
<1> DEFINE r == [launch[l] EXCEPT !.pc = pc]
<1>2. Sound(launch[l]) /\ launch[l] \in LaunchRecord(sessions)
  BY DEF LaunchesAreSound
<1>3. /\ r \in LaunchRecord(sessions) /\ r.pc = pc
      /\ r.card = launch[l].card /\ r.bypass = launch[l].bypass /\ r.read = launch[l].read
      /\ r.recall = launch[l].recall
  BY <1>2 DEF LaunchRecord
<1>4. launch' = [launch EXCEPT ![l] = r]
  BY <1>1 DEF Goes, LaunchesAreSound
<1>5. /\ launch[l].pc \in {"read", "confirmed"}
      /\ launch[l].pc = "read" => launch[l].recall # None /\ profile.room > 0
  BY DEF ConfirmControl, Ask
<1> HIDE DEF r
<1> QED
  BY <1>2, <1>3, <1>4, <1>5 DEF Sound, Placed, Entitled, Earned, SoundStep

\* An answer gives claims only to a launch that was entitled to ask.
LEMMA AnswerIsSound ==
    ASSUME LaunchesAreSound, TypeOK, NEW l \in Launches,
           NEW a \in Recalled \cup Transported, AnswerArrives(l, a)
    PROVE  SoundStep(l)
<1>1. launch[l].pc = "asked" /\ Sound(launch[l])
  BY DEF AnswerArrives, LaunchesAreSound
<1>2. /\ launch[l].recall # None /\ profile.room > 0
      /\ ~launch[l].bypass /\ profile.enabled /\ Contract[launch[l].card].slug = Project
      /\ \/ /\ launch[l].recall = "manual_canary"
            /\ launch[l].read = "manual_canary" /\ Contract[launch[l].card].canary
         \/ /\ launch[l].recall = "automatic"
            /\ launch[l].read = "automatic" /\ ~Contract[launch[l].card].baseline
  BY <1>1 DEF Sound, Entitled
<1>3. profile.topK \in Int /\ profile.room \in Int
  BY ProfileAssumption DEF TypeOK
<1>4. CASE Tolerant(l)
  <2>1. Compiled(l, AutomaticSpec(a, profile)) /\ launch[l].recall = "automatic"
    BY <1>4 DEF AnswerArrives, Tolerant
  <2> DEFINE spec == AutomaticSpec(a, profile)
  <2>2. /\ spec \in SpecType
        /\ spec.claims > 0 => /\ spec.claims <= Min({profile.topK, profile.room})
                              /\ spec.level # 0 /\ spec.level = spec.first
    BY <1>2, <1>3, SpecsFit
  <2> HIDE DEF spec
  <2>3. Compiled(l, spec)
    BY <2>1 DEF spec
  <2> QED
    BY <1>1, <1>2, <2>1, <2>2, <2>3, CompiledIsSound
<1>5. CASE ~Tolerant(l) /\ ManualRefused(a.reply, profile)
  BY <1>5, StopsIsSound DEF AnswerArrives
<1>6. CASE ~Tolerant(l) /\ ~ManualRefused(a.reply, profile)
  <2> DEFINE spec == ManualSpec(a, profile)
  <2>1. spec \in SpecType /\ spec.claims <= Min({profile.topK, profile.room})
    BY <1>2, <1>3, <1>6, SpecsFit
  <2>2. Compiled(l, spec)
    BY <1>6 DEF AnswerArrives
  <2>3. launch[l].read = "manual_canary" /\ Contract[launch[l].card].canary
    BY <1>2, <1>6 DEF Tolerant
  <2> HIDE DEF spec
  <2> QED
    BY <1>1, <1>2, <2>1, <2>2, <2>3, CompiledIsSound
<1> QED
  BY <1>4, <1>5, <1>6

-----------------------------------------------------------------------------
(* The receipts                                                            *)

ReceiptRecord == [kind : {"start", "completion", "assessment"}, attempt : Launches,
                  card : Cards, by : OrNone(Launches)]

LEMMA ReceiptsAreTyped ==
    ASSUME TypeOK
    PROVE  \A i \in DOMAIN receipts : receipts[i] \in ReceiptRecord
<1>1. receipts \in Seq(ReceiptRecord)
  BY DEF TypeOK, ReceiptRecord
<1> QED
  BY <1>1, ElementOfSeq

\* The latest receipt of a card, unless it has none, is a receipt of that card.
LEMMA LatestIsOfTheCard ==
    ASSUME TypeOK, NEW c \in Cards
    PROVE  \/ \E i \in DOMAIN receipts :
                  LatestReceipt(c) = receipts[i] /\ receipts[i].card = c
           \/ LatestReceipt(c) = Receipt(None, None, c, None)
<1> DEFINE mine == {i \in DOMAIN receipts : receipts[i].card = c}
<1>1. Len(receipts) \in Nat /\ DOMAIN receipts = 1 .. Len(receipts)
  BY DEF TypeOK
<1>2. CASE mine # {}
  <2>1. mine \in SUBSET (1 .. Len(receipts))
    BY <1>1
  <2>2. Max(mine) \in mine
    <3> HIDE DEF mine
    <3> QED
      BY <1>1, <1>2, <2>1, GreatestExists
  <2>3. LatestReceipt(c) = receipts[Max(mine)]
    BY <1>2 DEF LatestReceipt
  <2> QED
    BY <2>2, <2>3
<1>3. CASE mine = {}
  BY <1>3 DEF LatestReceipt
<1> QED
  BY <1>2, <1>3

LEMMA CurrentAttemptIsTyped ==
    ASSUME TypeOK, NEW c \in Cards
    PROVE  CurrentAttempt(c) \in OrNone(Launches)
<1>1. \A i \in DOMAIN receipts : receipts[i] \in ReceiptRecord
  BY ReceiptsAreTyped
<1>2. CASE LatestReceipt(c) = Receipt(None, None, c, None)
  BY <1>2 DEF CurrentAttempt, Receipt, OrNone
<1>3. CASE \E i \in DOMAIN receipts : LatestReceipt(c) = receipts[i]
  BY <1>1, <1>3 DEF CurrentAttempt, OrNone, ReceiptRecord
<1> QED
  BY <1>2, <1>3, LatestIsOfTheCard

\* A receipt that closes or assesses an attempt some receipt of its card opened.
LEMMA AppendKeepsTogether ==
    ASSUME TypeOK, ReceiptsBelongTogether, NEW r \in ReceiptRecord,
           receipts' = Append(receipts, r),
           r.kind # "start" =>
               \E j \in DOMAIN receipts :
                   /\ receipts[j].kind = "start"
                   /\ receipts[j].attempt = r.attempt /\ receipts[j].card = r.card
    PROVE  receipts' \in Seq(ReceiptRecord) /\ ReceiptsBelongTogether'
<1> DEFINE n == Len(receipts)
<1>1. n \in Nat /\ DOMAIN receipts = 1 .. n /\ receipts \in Seq(ReceiptRecord)
  BY DEF TypeOK, ReceiptRecord
<1>2. /\ receipts' \in Seq(ReceiptRecord) /\ DOMAIN receipts' = 1 .. n + 1
      /\ \A i \in 1 .. n : receipts'[i] = receipts[i]
      /\ receipts'[n + 1] = r
  BY <1>1, AppendProperties
<1> HIDE DEF n
<1>3. ASSUME NEW i \in DOMAIN receipts', receipts'[i].kind # "start"
      PROVE  \E j \in 1 .. i - 1 :
                 /\ receipts'[j].kind = "start"
                 /\ receipts'[j].attempt = receipts'[i].attempt
                 /\ receipts'[j].card = receipts'[i].card
  <2>1. CASE i \in 1 .. n
    <3>1. PICK j \in 1 .. i - 1 : /\ receipts[j].kind = "start"
                                  /\ receipts[j].attempt = receipts[i].attempt
                                  /\ receipts[j].card = receipts[i].card
      BY <1>1, <1>2, <1>3, <2>1 DEF ReceiptsBelongTogether
    <3>2. j \in 1 .. n
      BY <1>1, <2>1
    <3> QED
      BY <1>2, <2>1, <3>1, <3>2
  <2>2. CASE i = n + 1
    <3>1. PICK j \in 1 .. n : /\ receipts[j].kind = "start"
                              /\ receipts[j].attempt = r.attempt
                              /\ receipts[j].card = r.card
      BY <1>1, <1>2, <1>3, <2>2
    <3>2. j \in 1 .. i - 1
      BY <1>1, <2>2
    <3> QED
      BY <1>2, <2>2, <3>1, <3>2
  <2> QED
    BY <1>1, <1>2, <2>1, <2>2
<1> QED
  BY <1>2, <1>3 DEF ReceiptsBelongTogether

\* The three actions that append a receipt append one that belongs to a start.
LEMMA ReceiptsStayTogether ==
    ASSUME TypeOK, LaunchesAreSound, ReceiptsBelongTogether,
           \/ \E l \in Launches : AppendStart(l) \/ Complete(l)
           \/ \E c \in Cards : Assess(c)
    PROVE  receipts' \in Seq(ReceiptRecord) /\ ReceiptsBelongTogether'
<1>0. \A i \in DOMAIN receipts : receipts[i] \in ReceiptRecord
  BY ReceiptsAreTyped
<1>1. ASSUME NEW l \in Launches, AppendStart(l)
      PROVE  receipts' \in Seq(ReceiptRecord) /\ ReceiptsBelongTogether'
  <2> DEFINE r == Receipt("start", l, launch[l].card, l)
  <2>1. launch[l].card \in Cards
    BY <1>1 DEF AppendStart, LaunchesAreSound, Sound, Placed
  <2>2. r \in ReceiptRecord /\ r.kind = "start"
    BY <2>1 DEF Receipt, ReceiptRecord, OrNone
  <2>3. receipts' = Append(receipts, r)
    BY <1>1 DEF AppendStart
  <2> HIDE DEF r
  <2> QED
    BY <2>2, <2>3, AppendKeepsTogether
<1>2. ASSUME NEW l \in Launches, Complete(l)
      PROVE  receipts' \in Seq(ReceiptRecord) /\ ReceiptsBelongTogether'
  <2> DEFINE r == Receipt("completion", row[l].attempt, row[l].card, l)
  <2>1. PICK j \in DOMAIN receipts :
            /\ receipts[j].kind = "start"
            /\ receipts[j].attempt = row[l].attempt /\ receipts[j].card = row[l].card
    BY <1>2 DEF Complete, HasStart
  <2>2. r \in ReceiptRecord /\ r.attempt = row[l].attempt /\ r.card = row[l].card
    BY <1>0, <2>1 DEF Receipt, ReceiptRecord, OrNone
  <2>3. receipts' = Append(receipts, r)
    BY <1>2 DEF Complete
  <2> HIDE DEF r
  <2> QED
    BY <2>1, <2>2, <2>3, AppendKeepsTogether
<1>3. ASSUME NEW c \in Cards, Assess(c)
      PROVE  receipts' \in Seq(ReceiptRecord) /\ ReceiptsBelongTogether'
  <2> DEFINE r == Receipt("assessment", LatestReceipt(c).attempt, c, None)
  <2>1. PICK i \in DOMAIN receipts : LatestReceipt(c) = receipts[i] /\ receipts[i].card = c
    BY <1>3, LatestIsOfTheCard DEF Assess, Receipt
  <2>2. r \in ReceiptRecord /\ r.attempt = receipts[i].attempt /\ r.card = c
    BY <1>0, <2>1 DEF Receipt, ReceiptRecord, OrNone
  <2>3. \E j \in DOMAIN receipts :
            /\ receipts[j].kind = "start"
            /\ receipts[j].attempt = receipts[i].attempt /\ receipts[j].card = c
    <3>1. DOMAIN receipts = 1 .. Len(receipts) /\ Len(receipts) \in Nat
      BY DEF TypeOK
    <3>2. CASE receipts[i].kind # "start"
      <4>1. PICK j \in 1 .. i - 1 : /\ receipts[j].kind = "start"
                                    /\ receipts[j].attempt = receipts[i].attempt
                                    /\ receipts[j].card = receipts[i].card
        BY <3>2 DEF ReceiptsBelongTogether
      <4>2. j \in DOMAIN receipts
        BY <3>1
      <4> QED
        BY <2>1, <4>1, <4>2
    <3> QED
      BY <2>1, <3>2
  <2>4. receipts' = Append(receipts, r)
    BY <1>3 DEF Assess
  <2> HIDE DEF r
  <2> QED
    BY <2>2, <2>3, <2>4, AppendKeepsTogether
<1> QED
  BY <1>1, <1>2, <1>3

-----------------------------------------------------------------------------
(* The launch after the recall                                             *)

LEMMA WriteTaskSpecIsSound ==
    ASSUME LaunchesAreSound, NEW l \in Launches, WriteTaskSpec(l)
    PROVE  SoundStep(l)
<1> DEFINE r == [Idle EXCEPT !.pc = "written", !.card = launch[l].card]
<1>1. launch[l].card \in Cards
  BY DEF WriteTaskSpec, LaunchesAreSound, Sound, Placed
<1>2. r \in LaunchRecord(sessions) /\ r.pc = "written" /\ r.card = launch[l].card
  <2> DEFINE i == Idle
             c == launch[l].card
  <2>1. i \in LaunchRecord(sessions) /\ c \in OrNone(Cards)
    BY <1>1, IdleIsRecord DEF OrNone
  <2> HIDE DEF i, c
  <2>2. LET q == [i EXCEPT !.pc = "written", !.card = c]
        IN q \in LaunchRecord(sessions) /\ q.pc = "written" /\ q.card = c
    BY <2>1 DEF LaunchRecord
  <2> QED
    BY <2>2 DEF i, c
<1>3. launch' = [launch EXCEPT ![l] = r]
  BY DEF WriteTaskSpec
<1> HIDE DEF r
<1> QED
  BY <1>1, <1>2, <1>3 DEF Sound, Placed, Entitled, Earned, SoundStep

LEMMA ReadContextIsSound ==
    ASSUME LaunchesAreSound, TypeOK, NEW l \in Launches, ReadContext(l)
    PROVE  SoundStep(l)
<1> DEFINE c == launch[l].card
           r == [launch[l] EXCEPT !.pc = "ready", !.digest = taskspec[c],
                                  !.attempt = CurrentAttempt(c)]
<1>1. Sound(launch[l]) /\ launch[l] \in LaunchRecord(sessions) /\ launch[l].card \in Cards
  BY DEF ReadContext, LaunchesAreSound, Sound, Placed
<1>2. taskspec[c] \in OrNone(Launches) /\ CurrentAttempt(c) \in OrNone(Launches)
  BY <1>1, CurrentAttemptIsTyped DEF TypeOK
<1>3. launch' = [launch EXCEPT ![l] = r]
  BY DEF ReadContext, LaunchesAreSound
<1>4. r \in LaunchRecord(sessions) /\ r.pc = "ready" /\ r.card = launch[l].card
  BY <1>1, <1>2 DEF LaunchRecord
<1> HIDE DEF r
<1> QED
  BY <1>1, <1>3, <1>4 DEF Sound, Placed, Entitled, Earned, SoundStep

LEMMA OpenWindowIsSound ==
    ASSUME LaunchesAreSound, NEW l \in Launches, OpenWindow(l)
    PROVE  SoundStep(l) /\ launch'[l].before = sessions /\ launch'[l].pc = "capturing"
<1> DEFINE r == [launch[l] EXCEPT !.pc = "capturing", !.before = sessions]
<1>1. Sound(launch[l]) /\ launch[l] \in LaunchRecord(sessions) /\ launch[l].card \in Cards
  BY DEF OpenWindow, LaunchesAreSound, Sound, Placed
<1>2. launch' = [launch EXCEPT ![l] = r]
  BY DEF OpenWindow, LaunchesAreSound
<1>3. /\ r \in LaunchRecord(sessions) /\ r.pc = "capturing" /\ r.card = launch[l].card
      /\ r.before = sessions
  BY <1>1 DEF LaunchRecord
<1> HIDE DEF r
<1>4. launch'[l] = r
  BY <1>2 DEF LaunchesAreSound
<1> QED
  BY <1>1, <1>2, <1>3, <1>4 DEF Sound, Placed, Entitled, Earned, SoundStep

\* Whatever one launch does, every launch stays sound.
LEMMA LaunchesStaySound ==
    ASSUME LaunchesAreSound, sessions \subseteq sessions', profile' = profile,
           UNCHANGED launch \/ \E l \in Launches : SoundStep(l)
    PROVE  LaunchesAreSound'
<1>1. LaunchRecord(sessions) \subseteq LaunchRecord(sessions')
  BY DEF LaunchRecord
<1>2. \A r : Sound(r) => Sound(r)'
  BY <1>1 DEF Sound, Placed, Entitled, Earned
<1>3. CASE UNCHANGED launch
  BY <1>1, <1>2, <1>3 DEF LaunchesAreSound
<1>4. CASE \E l \in Launches : SoundStep(l)
  <2> PICK l \in Launches : SoundStep(l)
    BY <1>4
  <2>1. PICK r : Sound(r) /\ launch' = [launch EXCEPT ![l] = r]
    BY DEF SoundStep
  <2>2. \A k \in Launches : launch'[k] = IF k = l THEN r ELSE launch[k]
    BY <2>1 DEF LaunchesAreSound
  <2>3. \A k \in Launches : Sound(launch'[k])
    BY <2>1, <2>2 DEF LaunchesAreSound
  <2>4. launch' \in [Launches -> LaunchRecord(sessions)]
    BY <2>1, <2>3 DEF LaunchesAreSound, Sound
  <2> QED
    BY <1>1, <1>2, <2>3, <2>4 DEF LaunchesAreSound
<1> QED
  BY <1>3, <1>4

-----------------------------------------------------------------------------
(* The capture of the session                                              *)

Recorded(ss) ==
    \A b \in Launches : row[b].session # None => \E f \in ss : f.id = row[b].session

\* A launch that captures holds the lock and has listed every recorded session.
Captured ==
    /\ \A f, g \in sessions : f.id = g.id => f = g
    /\ Recorded(sessions)
    /\ \A l \in Launches :
           launch[l].pc = "capturing" => holder = l /\ Recorded(launch[l].before)

\* The actions before the window is made, and what they leave alone.
Compiles(l) ==
    \/ \E c \in Cards, bypass \in BOOLEAN : Begin(l, c, bypass)
    \/ CompileWithout(l) \/ ConfirmControl(l) \/ Ask(l)
    \/ \E a \in Recalled \cup Transported : AnswerArrives(l, a)
    \/ AppendStart(l) \/ WriteTaskSpec(l) \/ ReadContext(l) \/ LockTimesOut(l)
    \/ KilledEarly(l)

LEMMA CompilesIsSound ==
    ASSUME LaunchesAreSound, TypeOK, NEW l \in Launches, Compiles(l)
    PROVE  /\ SoundStep(l)
           /\ UNCHANGED <<profile, holder, row, mode, switches>>
           /\ UNCHANGED <<sessions, copies, proc>>
           /\ \A k \in Launches :
                  launch'[k].pc = "capturing" =>
                      launch[k].pc = "capturing" /\ launch'[k] = launch[k]
<1> DEFINE keeps == \A k \in Launches :
                        launch'[k].pc = "capturing" =>
                            launch[k].pc = "capturing" /\ launch'[k] = launch[k]
           frame == /\ UNCHANGED <<profile, holder, row, mode, switches>>
                    /\ UNCHANGED <<sessions, copies, proc>>
<1>0. launch \in [Launches -> LaunchRecord(sessions)]
  BY DEF LaunchesAreSound
<1>a. ASSUME NEW pc \in {"confirmed", "asked", "blocked", "receipted"}, Goes(l, pc) \/ Stops(l, pc)
      PROVE  keeps
  BY <1>0, <1>a DEF Goes, Stops, Idle, LaunchRecord
<1>b. ASSUME NEW spec, Compiled(l, spec)
      PROVE  keeps
  BY <1>0, <1>b DEF Compiled, LaunchRecord
<1>1. ASSUME NEW c \in Cards, NEW bypass \in BOOLEAN, Begin(l, c, bypass)
      PROVE  SoundStep(l) /\ keeps /\ frame
  <2>1. frame
    BY <1>1 DEF Begin, control, provider
  <2>2. CASE Stops(l, "blocked")
    BY <1>1, <1>a, <2>1, <2>2, BeginIsSound
  <2>3. CASE ~Refused(c, bypass, mode)
    <3>1. keeps
      BY <1>0, <1>1, <2>3 DEF Begin, Idle
    <3> QED
      BY <1>1, <2>1, <3>1, BeginIsSound
  <2> QED
    BY <1>1, <2>2, <2>3 DEF Begin
<1>2. ASSUME CompileWithout(l) PROVE SoundStep(l) /\ keeps /\ frame
  <2>1. Stops(l, "blocked") \/ \E spec : Compiled(l, spec)
    BY <1>2 DEF CompileWithout
  <2>2. keeps
    BY <1>a, <1>b, <2>1
  <2> QED
    BY <1>2, <2>2, CompileWithoutIsSound DEF CompileWithout, control, provider
<1>3. ASSUME ConfirmControl(l) \/ Ask(l) PROVE SoundStep(l) /\ keeps /\ frame
  <2>1. keeps
    BY <1>3, <1>a DEF ConfirmControl, Ask
  <2> QED
    BY <1>3, <2>1, AskingIsSound DEF ConfirmControl, Ask, control, provider
<1>4. ASSUME NEW a \in Recalled \cup Transported, AnswerArrives(l, a)
      PROVE  SoundStep(l) /\ keeps /\ frame
  <2>1. Stops(l, "blocked") \/ \E spec : Compiled(l, spec)
    BY <1>4 DEF AnswerArrives
  <2>2. keeps
    BY <1>a, <1>b, <2>1
  <2> QED
    BY <1>4, <2>2, AnswerIsSound DEF AnswerArrives, control, provider
<1>5. ASSUME AppendStart(l) PROVE SoundStep(l) /\ keeps /\ frame
  <2>1. keeps
    BY <1>5, <1>a DEF AppendStart
  <2> QED
    BY <1>5, <2>1, GoesIsSound DEF AppendStart, control, provider
<1>6. ASSUME WriteTaskSpec(l) PROVE SoundStep(l) /\ keeps /\ frame
  <2>1. keeps
    BY <1>0, <1>6 DEF WriteTaskSpec, Idle
  <2> QED
    BY <1>6, <2>1, WriteTaskSpecIsSound DEF WriteTaskSpec, control, provider
<1>7. ASSUME ReadContext(l) PROVE SoundStep(l) /\ keeps /\ frame
  <2>1. keeps
    BY <1>0, <1>7 DEF ReadContext, LaunchRecord
  <2> QED
    BY <1>7, <2>1, ReadContextIsSound DEF ReadContext, control, provider
<1>8. ASSUME LockTimesOut(l) \/ KilledEarly(l) PROVE SoundStep(l) /\ keeps /\ frame
  <2>1. keeps
    BY <1>8, <1>a DEF LockTimesOut, KilledEarly
  <2> QED
    BY <1>8, <2>1, StopsIsSound DEF LockTimesOut, KilledEarly, control, provider
<1> HIDE DEF keeps, frame
<1>9. SoundStep(l) /\ keeps /\ frame
  BY <1>1, <1>2, <1>3, <1>4, <1>5, <1>6, <1>7, <1>8 DEF Compiles
<1> QED
  BY <1>9 DEF keeps, frame

\* The steps that leave launches, rows and the lock alone.
Background ==
    \/ \E m \in Modes : SetControl(m)
    \/ \E l \in Launches : SessionAppears(l) \/ AgentDies(l) \/ Complete(l) \/ Revive(l)
    \/ \E u \in Users, cwd \in Cwds : UserSession(u, cwd)
    \/ \E u \in Launches \cup Users : UserCopies(u)
    \/ \E c \in Cards : Assess(c)

LEMMA BackgroundFrame ==
    ASSUME Background
    PROVE  /\ UNCHANGED <<profile, launch, holder, row>>
           /\ sessions \subseteq sessions'
           /\ \/ UNCHANGED sessions
              \/ \E id, cwd : /\ \A f \in sessions : f.id # id
                              /\ sessions' = sessions \cup {[id |-> id, cwd |-> cwd]}
<1>1. ASSUME NEW m \in Modes, SetControl(m)
      PROVE  UNCHANGED <<profile, launch, holder, row, sessions>>
  BY <1>1 DEF SetControl, provider
<1>2. ASSUME NEW l \in Launches, AgentDies(l) \/ Revive(l)
      PROVE  UNCHANGED <<profile, launch, holder, row, sessions>>
  BY <1>2 DEF AgentDies, Revive
<1>3. ASSUME NEW l \in Launches, Complete(l)
      PROVE  UNCHANGED <<profile, launch, holder, row, sessions>>
  BY <1>3 DEF Complete, provider
<1>4. ASSUME NEW u \in Launches \cup Users, UserCopies(u)
      PROVE  UNCHANGED <<profile, launch, holder, row, sessions>>
  BY <1>4 DEF UserCopies
<1>5. ASSUME NEW c \in Cards, Assess(c)
      PROVE  UNCHANGED <<profile, launch, holder, row, sessions>>
  BY <1>5 DEF Assess, provider
<1>6. CASE \E l \in Launches : SessionAppears(l)
  BY <1>6 DEF SessionAppears
<1>7. CASE \E u \in Users, cwd \in Cwds : UserSession(u, cwd)
  BY <1>7 DEF UserSession
<1> QED
  BY <1>1, <1>2, <1>3, <1>4, <1>5, <1>6, <1>7 DEF Background, Modes

LEMMA NextSplits ==
    ASSUME Next
    PROVE  \/ Background
           \/ \E l \in Launches :
                  \/ Compiles(l) \/ OpenWindow(l)
                  \/ Discover(l) \/ CaptureFails(l) \/ Killed(l)
BY DEF Next, Step, Background, Compiles

\* The end of a capture: what it says of the launches, the lock and the rows.
LEMMA CaptureEnds ==
    ASSUME LaunchesAreSound, TypeOK, NEW l \in Launches,
           Discover(l) \/ CaptureFails(l) \/ Killed(l)
    PROVE  /\ SoundStep(l) /\ launch[l].pc = "capturing" /\ holder' = None
           /\ \A k \in Launches : k # l => launch'[k] = launch[k]
           /\ launch'[l].pc # "capturing"
           /\ UNCHANGED <<profile, taskspec, receipts, sessions, copies, proc,
                          mode, switches, overlapped>>
           /\ \/ UNCHANGED row
              \/ \E session \in {None} \cup {f.id : f \in sessions} :
                     /\ row' = [row EXCEPT ![l] =
                            [card |-> launch[l].card, digest |-> launch[l].digest,
                             attempt |-> launch[l].attempt, session |-> session]]
                     /\ session # None =>
                            \E f \in New(l) : New(l) = {f} /\ f.id = session
<1>0. launch \in [Launches -> LaunchRecord(sessions)]
  BY DEF LaunchesAreSound
<1>1. ASSUME NEW pc \in {"recorded", "blocked"}, Stops(l, pc)
      PROVE  /\ SoundStep(l) /\ launch'[l].pc # "capturing"
             /\ \A k \in Launches : k # l => launch'[k] = launch[k]
  BY <1>0, <1>1, StopsIsSound DEF Stops, Idle
<1>2. ASSUME Killed(l)
      PROVE  /\ Stops(l, "blocked") /\ launch[l].pc = "capturing" /\ holder' = None
             /\ UNCHANGED row
             /\ UNCHANGED <<profile, taskspec, receipts, sessions, copies, proc,
                            mode, switches, overlapped>>
  BY <1>2 DEF Killed, control, provider
<1>3. ASSUME NEW session, Record(l, session)
      PROVE  /\ Stops(l, "recorded") /\ holder' = None
             /\ UNCHANGED <<profile, taskspec, receipts, sessions, copies, proc,
                            mode, switches, overlapped>>
             /\ row' = [row EXCEPT ![l] =
                    [card |-> launch[l].card, digest |-> launch[l].digest,
                     attempt |-> launch[l].attempt, session |-> session]]
  BY <1>3 DEF Record, control, provider
<1>4. ASSUME Discover(l) \/ CaptureFails(l)
      PROVE  /\ launch[l].pc = "capturing"
             /\ \E session \in {None} \cup {f.id : f \in sessions} :
                    /\ Record(l, session)
                    /\ session # None => \E f \in New(l) : New(l) = {f} /\ f.id = session
  <2>1. CASE CaptureFails(l)
    BY <2>1 DEF CaptureFails
  <2>2. CASE Discover(l)
    <3>1. PICK f \in New(l) : New(l) = {f} /\ Record(l, f.id)
      BY <2>2 DEF Discover
    <3> QED
      BY <2>2, <3>1 DEF Discover, New
  <2> QED
    BY <1>4, <2>1, <2>2
<1>5. CASE Killed(l)
  BY <1>1, <1>2, <1>5
<1>6. CASE Discover(l) \/ CaptureFails(l)
  <2>1. launch[l].pc = "capturing"
    BY <1>4, <1>6
  <2>2. PICK session \in {None} \cup {f.id : f \in sessions} :
            /\ Record(l, session)
            /\ session # None => \E f \in New(l) : New(l) = {f} /\ f.id = session
    BY <1>4, <1>6
  <2> QED
    BY <1>1, <1>3, <2>1, <2>2
<1> QED
  BY <1>5, <1>6

\* The session a capture records is in no row: every recorded one was listed.
LEMMA RecordedSessionIsNew ==
    ASSUME Captured, LaunchesAreSound, NEW l \in Launches, launch[l].pc = "capturing",
           NEW f \in New(l), NEW b \in Launches, row[b].session # None
    PROVE  row[b].session # f.id
<1>1. PICK g \in launch[l].before : g.id = row[b].session
  BY DEF Captured, Recorded
<1>2. g # f /\ g \in sessions
  BY <1>1 DEF New, LaunchesAreSound, LaunchRecord
<1> QED
  BY <1>1, <1>2 DEF Captured, New

\* The inductive invariant of the launches.
Inv == TypeOK /\ LaunchesAreSound /\ Captured /\ NoSharedSession /\ ReceiptsBelongTogether

LEMMA CapturedStays ==
    ASSUME Inv, Next
    PROVE  Captured' /\ NoSharedSession' /\ LaunchesAreSound'
<1> USE DEF Inv
<1>0. launch \in [Launches -> LaunchRecord(sessions)] /\ DOMAIN row = Launches
  BY DEF LaunchesAreSound, TypeOK
<1>1. CASE Background
  <2>1. /\ UNCHANGED <<profile, launch, holder, row>> /\ sessions \subseteq sessions'
        /\ \/ UNCHANGED sessions
           \/ \E id, cwd : /\ \A f \in sessions : f.id # id
                           /\ sessions' = sessions \cup {[id |-> id, cwd |-> cwd]}
    BY <1>1, BackgroundFrame
  <2>2. LaunchesAreSound'
    BY <2>1, LaunchesStaySound
  <2>3. (\A f, g \in sessions : f.id = g.id => f = g)'
    BY <2>1 DEF Captured
  <2>4. Recorded(sessions)'
    BY <2>1 DEF Captured, Recorded
  <2>5. (\A l \in Launches :
             launch[l].pc = "capturing" => holder = l /\ Recorded(launch[l].before))'
    BY <2>1 DEF Captured, Recorded
  <2>6. NoSharedSession'
    BY <2>1 DEF NoSharedSession
  <2> QED
    BY <2>2, <2>3, <2>4, <2>5, <2>6 DEF Captured
<1>2. ASSUME NEW l \in Launches, Compiles(l)
      PROVE  Captured' /\ NoSharedSession' /\ LaunchesAreSound'
  <2>1. /\ SoundStep(l) /\ UNCHANGED <<profile, holder, row, sessions>>
        /\ \A k \in Launches :
               launch'[k].pc = "capturing" =>
                   launch[k].pc = "capturing" /\ launch'[k] = launch[k]
    BY <1>2, CompilesIsSound
  <2>2. LaunchesAreSound'
    BY <2>1, LaunchesStaySound
  <2>3. Captured' /\ NoSharedSession'
    BY <2>1 DEF Captured, NoSharedSession, Recorded
  <2> QED
    BY <2>2, <2>3
<1>3. ASSUME NEW l \in Launches, OpenWindow(l)
      PROVE  Captured' /\ NoSharedSession' /\ LaunchesAreSound'
  <2>1. SoundStep(l) /\ launch'[l].before = sessions
    BY <1>3, OpenWindowIsSound
  <2>2. /\ UNCHANGED <<profile, row, sessions>> /\ holder = None /\ holder' = l
        /\ \A k \in Launches : k # l => launch'[k] = launch[k]
    BY <1>0, <1>3 DEF OpenWindow, Free
  <2>3. LaunchesAreSound'
    BY <2>1, <2>2, LaunchesStaySound
  <2>4. \A k \in Launches : launch[k].pc # "capturing"
    BY <2>2, LaunchAssumption DEF Captured
  <2>5. Captured' /\ NoSharedSession'
    BY <2>1, <2>2, <2>4 DEF Captured, NoSharedSession, Recorded
  <2> QED
    BY <2>3, <2>5
<1>4. ASSUME NEW l \in Launches, Discover(l) \/ CaptureFails(l) \/ Killed(l)
      PROVE  Captured' /\ NoSharedSession' /\ LaunchesAreSound'
  <2>1. /\ SoundStep(l) /\ launch[l].pc = "capturing" /\ launch'[l].pc # "capturing"
        /\ \A k \in Launches : k # l => launch'[k] = launch[k]
        /\ UNCHANGED <<profile, sessions>>
        /\ \/ UNCHANGED row
           \/ \E session \in {None} \cup {f.id : f \in sessions} :
                  /\ row' = [row EXCEPT ![l] =
                         [card |-> launch[l].card, digest |-> launch[l].digest,
                          attempt |-> launch[l].attempt, session |-> session]]
                  /\ session # None => \E f \in New(l) : New(l) = {f} /\ f.id = session
    BY <1>4, CaptureEnds
  <2>2. LaunchesAreSound'
    BY <2>1, LaunchesStaySound
  <2>3. \A k \in Launches : launch'[k].pc # "capturing"
    BY <2>1 DEF Captured
  <2>4. CASE UNCHANGED row
    BY <2>1, <2>2, <2>3, <2>4 DEF Captured, NoSharedSession, Recorded
  <2>5. CASE \E session \in {None} \cup {f.id : f \in sessions} :
                 /\ row' = [row EXCEPT ![l] =
                        [card |-> launch[l].card, digest |-> launch[l].digest,
                         attempt |-> launch[l].attempt, session |-> session]]
                 /\ session # None => \E f \in New(l) : New(l) = {f} /\ f.id = session
    <3>1. PICK session \in {None} \cup {f.id : f \in sessions} :
              /\ row' = [row EXCEPT ![l] =
                     [card |-> launch[l].card, digest |-> launch[l].digest,
                      attempt |-> launch[l].attempt, session |-> session]]
              /\ session # None => \E f \in New(l) : New(l) = {f} /\ f.id = session
      BY <2>5
    <3>2. row'[l].session = session /\ \A k \in Launches : k # l => row'[k] = row[k]
      BY <1>0, <3>1
    <3>3. session # None =>
              \A b \in Launches : row[b].session # None => row[b].session # session
      BY <2>1, <3>1, RecordedSessionIsNew
    <3>4. NoSharedSession'
      BY <3>2, <3>3 DEF NoSharedSession
    <3>5. Recorded(sessions)'
      BY <2>1, <3>1, <3>2 DEF Captured, Recorded
    <3>6. Captured'
      BY <2>1, <2>3, <3>5 DEF Captured
    <3> QED
      BY <2>2, <3>4, <3>6
  <2> QED
    BY <2>1, <2>2, <2>4, <2>5
<1> QED
  BY <1>1, <1>2, <1>3, <1>4, NextSplits

-----------------------------------------------------------------------------
(* Types                                                                   *)

\* Every conjunct of TypeOK but the one of the launches and the receipts.
RestTyped ==
    /\ mode \in Modes /\ profile \in Profiles
    /\ taskspec \in [Cards -> OrNone(Launches)]
    /\ holder \in OrNone(Launches)
    /\ sessions \subseteq [id : Ids, cwd : Cwds] /\ copies \subseteq Ids
    /\ proc \in [Launches -> {"none", "fresh", "down", "resumed"}]
    /\ row \in [Launches ->
           [card : OrNone(Cards), digest : OrNone(Launches),
            attempt : OrNone(Launches), session : OrNone(Ids)]]
    /\ overlapped \subseteq Launches

LEMMA TypeOKSplits ==
    TypeOK <=> /\ RestTyped /\ launch \in [Launches -> LaunchRecord(sessions)]
               /\ receipts \in Seq(ReceiptRecord)
BY DEF TypeOK, RestTyped, LaunchRecord, ReceiptRecord

LEMMA RestStaysTyped ==
    ASSUME Inv, Next
    PROVE  RestTyped'
<1> USE DEF Inv
<1>0. RestTyped
  BY TypeOKSplits
<1>1. CASE Background
  <2>1. ASSUME NEW m \in Modes, SetControl(m)
        PROVE  RestTyped'
    BY <1>0, <2>1 DEF RestTyped, SetControl, provider
  <2>2. ASSUME NEW l \in Launches, AgentDies(l) \/ Revive(l)
        PROVE  RestTyped'
    BY <1>0, <2>2 DEF RestTyped, AgentDies, Revive, control
  <2>3. ASSUME NEW l \in Launches, Complete(l)
        PROVE  RestTyped'
    BY <1>0, <2>3 DEF RestTyped, Complete, control, provider
  <2>4. ASSUME NEW c \in Cards, Assess(c)
        PROVE  RestTyped'
    BY <1>0, <2>4 DEF RestTyped, Assess, control, provider
  <2>5. ASSUME NEW l \in Launches, SessionAppears(l)
        PROVE  RestTyped'
    <3>1. [id |-> l, cwd |-> "work"] \in [id : Ids, cwd : Cwds]
      BY DEF Ids, Cwds
    <3>2. sessions' \subseteq [id : Ids, cwd : Cwds]
      BY <1>0, <2>5, <3>1 DEF RestTyped, SessionAppears
    <3> QED
      BY <1>0, <2>5, <3>2 DEF RestTyped, SessionAppears, control
  <2>6. ASSUME NEW u \in Users, NEW cwd \in Cwds, UserSession(u, cwd)
        PROVE  RestTyped'
    <3>1. [id |-> u, cwd |-> cwd] \in [id : Ids, cwd : Cwds]
      BY DEF Ids
    <3>2. sessions' \subseteq [id : Ids, cwd : Cwds]
      BY <1>0, <2>6, <3>1 DEF RestTyped, UserSession
    <3> QED
      BY <1>0, <2>6, <3>2 DEF RestTyped, UserSession, control
  <2>7. ASSUME NEW u \in Launches \cup Users, UserCopies(u)
        PROVE  RestTyped'
    BY <1>0, <2>7 DEF RestTyped, UserCopies, control, Ids
  <2> QED
    BY <1>1, <2>1, <2>2, <2>3, <2>4, <2>5, <2>6, <2>7 DEF Background, Modes
<1>2. ASSUME NEW l \in Launches, Compiles(l)
      PROVE  RestTyped'
  <2>1. UNCHANGED <<profile, holder, row, mode, switches, sessions, copies, proc>>
    BY <1>2, CompilesIsSound
  <2>2. UNCHANGED taskspec \/ taskspec' = [taskspec EXCEPT ![launch[l].card] = l]
    BY <1>2 DEF Compiles, Begin, CompileWithout, ConfirmControl, Ask, AnswerArrives,
                AppendStart, WriteTaskSpec, ReadContext, LockTimesOut, KilledEarly
  <2>3. taskspec' \in [Cards -> OrNone(Launches)]
    BY <1>0, <2>2 DEF RestTyped, OrNone
  <2>4. overlapped' \subseteq Launches
    BY <1>0, <1>2 DEF RestTyped, Compiles, Begin, CompileWithout, ConfirmControl, Ask,
                      AnswerArrives, AppendStart, WriteTaskSpec, ReadContext, LockTimesOut,
                      KilledEarly, Beside
  <2> QED
    BY <1>0, <2>1, <2>3, <2>4 DEF RestTyped
<1>3. ASSUME NEW l \in Launches, OpenWindow(l)
      PROVE  RestTyped'
  BY <1>0, <1>3 DEF RestTyped, OpenWindow, control, OrNone
<1>4. ASSUME NEW l \in Launches, Discover(l) \/ CaptureFails(l) \/ Killed(l)
      PROVE  RestTyped'
  <2>1. /\ holder' = None
        /\ UNCHANGED <<profile, taskspec, sessions, copies, proc, mode, switches,
                       overlapped>>
        /\ \/ UNCHANGED row
           \/ \E session \in {None} \cup {f.id : f \in sessions} :
                  row' = [row EXCEPT ![l] =
                         [card |-> launch[l].card, digest |-> launch[l].digest,
                          attempt |-> launch[l].attempt, session |-> session]]
    BY <1>4, CaptureEnds
  <2>2. launch[l].card \in OrNone(Cards) /\ launch[l].digest \in OrNone(Launches)
        /\ launch[l].attempt \in OrNone(Launches)
    BY DEF LaunchesAreSound, LaunchRecord
  <2>3. {None} \cup {f.id : f \in sessions} \subseteq OrNone(Ids)
    BY <1>0 DEF RestTyped, OrNone
  <2>4. row' \in [Launches ->
             [card : OrNone(Cards), digest : OrNone(Launches),
              attempt : OrNone(Launches), session : OrNone(Ids)]]
    BY <1>0, <2>1, <2>2, <2>3 DEF RestTyped
  <2> QED
    BY <1>0, <2>1, <2>4 DEF RestTyped, OrNone
<1> QED
  BY <1>1, <1>2, <1>3, <1>4, NextSplits

-----------------------------------------------------------------------------
(* The theorems                                                            *)

LEMMA ReceiptsFrame ==
    ASSUME Next
    PROVE  \/ UNCHANGED receipts
           \/ \E l \in Launches : AppendStart(l) \/ Complete(l)
           \/ \E c \in Cards : Assess(c)
BY DEF Next, Step, SetControl, Begin, CompileWithout, ConfirmControl, Ask, AnswerArrives,
       WriteTaskSpec, ReadContext, LockTimesOut, OpenWindow, Discover, CaptureFails,
       Record, KilledEarly, Killed, SessionAppears, AgentDies, Revive, UserSession, UserCopies

LEMMA InvInductive ==
    ASSUME Inv, [Next]_vars
    PROVE  Inv'
<1>1. CASE Next
  <2>1. Captured' /\ NoSharedSession' /\ LaunchesAreSound'
    BY <1>1, CapturedStays
  <2>2. RestTyped'
    BY <1>1, RestStaysTyped
  <2>3. receipts' \in Seq(ReceiptRecord) /\ ReceiptsBelongTogether'
    <3>1. CASE UNCHANGED receipts
      BY <3>1, TypeOKSplits DEF Inv, ReceiptsBelongTogether
    <3>2. CASE \/ \E l \in Launches : AppendStart(l) \/ Complete(l)
               \/ \E c \in Cards : Assess(c)
      BY <3>2, ReceiptsStayTogether DEF Inv
    <3> QED
      BY <1>1, <3>1, <3>2, ReceiptsFrame
  <2>4. TypeOK'
    BY <2>1, <2>2, <2>3 DEF TypeOK, RestTyped, LaunchesAreSound, LaunchRecord, ReceiptRecord
  <2> QED
    BY <2>1, <2>3, <2>4 DEF Inv
<1>2. CASE UNCHANGED vars
  <2>1. LaunchesAreSound'
    BY <1>2, LaunchesStaySound DEF vars, Inv
  <2>2. Captured' /\ NoSharedSession' /\ ReceiptsBelongTogether'
    BY <1>2 DEF vars, Inv, Captured, Recorded, NoSharedSession, ReceiptsBelongTogether
  <2>3. TypeOK'
    BY <1>2 DEF vars, Inv, TypeOK
  <2> QED
    BY <2>1, <2>2, <2>3 DEF Inv
<1> QED
  BY <1>1, <1>2

LEMMA InvInitially == Init => Inv
<1> SUFFICES ASSUME Init PROVE Inv
  OBVIOUS
<1>1. Sound([Idle EXCEPT !.pc = "idle"]) /\ [Idle EXCEPT !.pc = "idle"] = Idle
  <2>1. [Idle EXCEPT !.pc = "idle"] = Idle
    <3> DEFINE i == Idle
    <3>1. i \in LaunchRecord(sessions) /\ i.pc = "idle"
      BY IdleIsRecord DEF Idle
    <3> HIDE DEF i
    <3>2. [i EXCEPT !.pc = "idle"] = i
      BY <3>1 DEF LaunchRecord
    <3> QED
      BY <3>2 DEF i
  <2> QED
    BY <2>1, IdleIsSound
<1>2. LaunchesAreSound
  BY <1>1 DEF Init, LaunchesAreSound, Sound
<1>3. \A l \in Launches : launch[l].pc = "idle"
  BY DEF Init, Idle
<1>4. \A l \in Launches : row[l].session = None
  BY DEF Init, NoRow
<1>5. receipts = <<>> /\ sessions = {}
  BY DEF Init
<1>6. Captured /\ NoSharedSession
  BY <1>3, <1>4, <1>5 DEF Captured, Recorded, NoSharedSession
<1>7. ReceiptsBelongTogether /\ receipts \in Seq(ReceiptRecord)
  BY <1>5 DEF ReceiptsBelongTogether
<1>8. RestTyped
  BY DEF Init, RestTyped, Modes, OrNone, NoRow
<1>9. TypeOK
  BY <1>2, <1>7, <1>8, TypeOKSplits DEF LaunchesAreSound
<1> QED
  BY <1>2, <1>6, <1>7, <1>9 DEF Inv

\* The inductive invariant holds in every behaviour.
THEOREM InvAlways == Spec => []Inv
BY InvInitially, InvInductive, PTL DEF Spec

\* Every variable keeps its type in every launch and the agents' life after it.
THEOREM TypeCorrect == Spec => []TypeOK
<1>1. Inv => TypeOK
  BY DEF Inv
<1> QED
  BY <1>1, InvAlways, PTL

\* No two agents record one provider session, however many launches capture and
\* however many sessions people open meanwhile.
THEOREM NoSharedSessionAlways == Spec => []NoSharedSession
<1>1. Inv => NoSharedSession
  BY DEF Inv
<1> QED
  BY <1>1, InvAlways, PTL

\* A TaskSpec with claims was compiled by a launch that was entitled to them.
THEOREM ClaimsAreEarnedAlways == Spec => []ClaimsAreEarned
<1>1. Inv => ClaimsAreEarned
  BY DEF Inv, ClaimsAreEarned, LaunchesAreSound, Sound, Earned
<1> QED
  BY <1>1, InvAlways, PTL

\* Completions and assessments name an attempt that a receipt of the card opened.
THEOREM ReceiptsBelongTogetherAlways == Spec => []ReceiptsBelongTogether
<1>1. Inv => ReceiptsBelongTogether
  BY DEF Inv
<1> QED
  BY <1>1, InvAlways, PTL

-----------------------------------------------------------------------------
(* The row of a launch that had its card to itself                         *)

Early == {"idle", "read", "confirmed", "asked", "compiled"}

\* Launches of one card that are under way together know of each other.
Private ==
    \A k, l \in Launches :
        k # l /\ UnderWay(k) /\ UnderWay(l) /\ launch[k].card = launch[l].card
        => k \in overlapped /\ l \in overlapped

OwnDigest(l) ==
    /\ launch[l].pc = "written" => taskspec[launch[l].card] = l
    /\ launch[l].pc \in {"ready", "capturing"} => launch[l].digest = l
    /\ row[l].card # None => row[l].digest = l

\* Of a launch that opened an attempt.
OwnAttempt(l) ==
    /\ launch[l].pc \in {"receipted", "written"} /\ HasStart(l, launch[l].card)
       => CurrentAttempt(launch[l].card) \in {l, None}
    /\ launch[l].pc \in {"ready", "capturing"} /\ HasStart(l, launch[l].card)
       => launch[l].attempt \in {l, None}
    /\ row[l].card # None /\ HasStart(l, row[l].card) => row[l].attempt \in {l, None}

\* What the row of a launch follows from, step by step.
Isolated(l) ==
    /\ launch[l].pc \in Early => \A c \in Cards : ~HasStart(l, c)
    /\ row[l].card # None => launch[l].pc = "recorded"
    /\ l \notin overlapped => OwnDigest(l) /\ OwnAttempt(l)

RowsInv == Private /\ \A l \in Launches : Isolated(l)

\* What a receipt more means for the attempts of the cards.
LEMMA AppendedReceipt ==
    ASSUME TypeOK, NEW r \in ReceiptRecord, receipts' = Append(receipts, r),
           NEW c \in Cards
    PROVE  /\ \A a : HasStart(a, c)' <=>
                  HasStart(a, c) \/ (r.kind = "start" /\ r.attempt = a /\ r.card = c)
           /\ CurrentAttempt(c)' =
                  IF r.card # c THEN CurrentAttempt(c)
                  ELSE IF r.kind = "start" THEN r.attempt ELSE None
<1> DEFINE n == Len(receipts)
           mine == {i \in DOMAIN receipts : receipts[i].card = c}
           theirs == {i \in DOMAIN receipts' : receipts'[i].card = c}
<1>1. n \in Nat /\ DOMAIN receipts = 1 .. n /\ receipts \in Seq(ReceiptRecord)
  BY DEF TypeOK, ReceiptRecord
<1>2. /\ DOMAIN receipts' = 1 .. n + 1
      /\ \A i \in 1 .. n : receipts'[i] = receipts[i]
      /\ receipts'[n + 1] = r
  BY <1>1, AppendProperties
<1> HIDE DEF n
<1>3. ASSUME NEW a
      PROVE  HasStart(a, c)' <=>
                 HasStart(a, c) \/ (r.kind = "start" /\ r.attempt = a /\ r.card = c)
  BY <1>1, <1>2 DEF HasStart
<1>4. LatestReceipt(c) = IF mine = {} THEN Receipt(None, None, c, None) ELSE receipts[Max(mine)]
  BY DEF LatestReceipt
<1>5. LatestReceipt(c)' = IF theirs = {} THEN Receipt(None, None, c, None)
                          ELSE receipts'[Max(theirs)]
  BY DEF LatestReceipt
<1>6. CASE r.card # c
  <2>1. theirs = mine /\ mine \in SUBSET (1 .. n)
    BY <1>1, <1>2, <1>6
  <2>2. mine # {} => Max(mine) \in 1 .. n
    <3> HIDE DEF mine
    <3> QED
      BY <1>1, <2>1, GreatestExists
  <2> HIDE DEF mine, theirs
  <2>3. LatestReceipt(c)' = LatestReceipt(c)
    <3>1. CASE mine = {}
      BY <1>4, <1>5, <2>1, <3>1
    <3>2. CASE mine # {}
      <4>1. receipts'[Max(mine)] = receipts[Max(mine)]
        BY <1>2, <2>2, <3>2
      <4> QED
        BY <1>4, <1>5, <2>1, <3>2, <4>1
    <3> QED
      BY <3>1, <3>2
  <2> QED
    BY <1>3, <1>6, <2>3 DEF CurrentAttempt
<1>7. CASE r.card = c
  <2>1. theirs \in SUBSET (1 .. n + 1) /\ n + 1 \in theirs
    BY <1>1, <1>2, <1>7
  <2>2. Max(theirs) = n + 1
    <3> HIDE DEF theirs
    <3> QED
      BY <1>1, <2>1, GreatestIsTop
  <2> HIDE DEF theirs
  <2>3. LatestReceipt(c)' = r
    BY <1>2, <1>5, <2>1, <2>2
  <2> QED
    BY <1>3, <1>7, <2>3 DEF CurrentAttempt
<1> QED
  BY <1>3, <1>6, <1>7

\* A step appends no receipt or one; a start is of the launch that takes the step.
LEMMA ReceiptSteps ==
    ASSUME Inv, Next
    PROVE  \/ UNCHANGED receipts
           \/ \E r \in ReceiptRecord :
                  /\ receipts' = Append(receipts, r)
                  /\ r.kind = "start" =>
                         \E l \in Launches : /\ AppendStart(l)
                                             /\ r.attempt = l /\ r.card = launch[l].card
<1>0. /\ \A i \in DOMAIN receipts : receipts[i] \in ReceiptRecord
      /\ LaunchesAreSound /\ TypeOK
  BY ReceiptsAreTyped DEF Inv
<1>1. ASSUME NEW l \in Launches, AppendStart(l)
      PROVE  \E r \in ReceiptRecord : /\ receipts' = Append(receipts, r)
                                      /\ r.attempt = l /\ r.card = launch[l].card
  <2> DEFINE r == Receipt("start", l, launch[l].card, l)
  <2>1. launch[l].card \in Cards
    BY <1>0, <1>1 DEF AppendStart, LaunchesAreSound, Sound, Placed
  <2>2. r \in ReceiptRecord /\ r.attempt = l /\ r.card = launch[l].card
    BY <2>1 DEF Receipt, ReceiptRecord, OrNone
  <2> QED
    BY <1>1, <2>2 DEF AppendStart
<1>2. ASSUME NEW l \in Launches, Complete(l)
      PROVE  \E r \in ReceiptRecord : receipts' = Append(receipts, r) /\ r.kind # "start"
  <2> DEFINE r == Receipt("completion", row[l].attempt, row[l].card, l)
  <2>1. row[l].attempt \in Launches /\ row[l].card \in Cards
    BY <1>0, <1>2 DEF Complete, HasStart, ReceiptRecord
  <2>2. r \in ReceiptRecord /\ r.kind # "start"
    BY <2>1 DEF Receipt, ReceiptRecord, OrNone
  <2> QED
    BY <1>2, <2>2 DEF Complete
<1>3. ASSUME NEW c \in Cards, Assess(c)
      PROVE  \E r \in ReceiptRecord : receipts' = Append(receipts, r) /\ r.kind # "start"
  <2> DEFINE r == Receipt("assessment", LatestReceipt(c).attempt, c, None)
  <2>1. LatestReceipt(c).attempt \in Launches
    BY <1>0, <1>3, LatestIsOfTheCard DEF Assess, Receipt, ReceiptRecord
  <2>2. r \in ReceiptRecord /\ r.kind # "start"
    BY <2>1 DEF Receipt, ReceiptRecord, OrNone
  <2> QED
    BY <1>3, <2>2 DEF Assess
<1> QED
  BY <1>1, <1>2, <1>3, ReceiptsFrame

\* The launch that moves is the one that acts.
LEMMA WhoActs ==
    ASSUME Inv, Next, NEW l \in Launches, launch'[l] # launch[l]
    PROVE  \/ Compiles(l) \/ OpenWindow(l)
           \/ Discover(l) \/ CaptureFails(l) \/ Killed(l)
<1>0. launch \in [Launches -> LaunchRecord(sessions)] /\ LaunchesAreSound /\ TypeOK
  BY DEF Inv, LaunchesAreSound
<1>1. CASE Background
  BY <1>1, BackgroundFrame
<1>2. ASSUME NEW k \in Launches, Compiles(k) PROVE k = l
  <2>1. PICK r : launch' = [launch EXCEPT ![k] = r]
    BY <1>0, <1>2, CompilesIsSound DEF SoundStep
  <2> QED
    BY <1>0, <2>1
<1>3. ASSUME NEW k \in Launches, OpenWindow(k) PROVE k = l
  BY <1>0, <1>3 DEF OpenWindow
<1>4. ASSUME NEW k \in Launches, Discover(k) \/ CaptureFails(k) \/ Killed(k) PROVE k = l
  BY <1>0, <1>4, CaptureEnds
<1> QED
  BY <1>1, <1>2, <1>3, <1>4, NextSplits

\* What a step leaves alone: a row whose launch does not move, a TaskSpec nobody
\* writes, and the launches that overlapped before.
LEMMA RowsFrame ==
    ASSUME Inv, Next
    PROVE  /\ overlapped \subseteq overlapped'
           /\ \A l \in Launches : launch'[l] = launch[l] => row'[l] = row[l]
           /\ \/ UNCHANGED taskspec
              \/ \E k \in Launches : WriteTaskSpec(k)
<1>0. LaunchesAreSound /\ TypeOK /\ row \in [Launches -> [card : OrNone(Cards),
          digest : OrNone(Launches), attempt : OrNone(Launches), session : OrNone(Ids)]]
  BY DEF Inv, TypeOK
<1>1. CASE Background
  <2>1. UNCHANGED <<overlapped, taskspec>>
    BY <1>1 DEF Background, SetControl, SessionAppears, AgentDies, Complete, Revive,
                UserSession, UserCopies, Assess
  <2> QED
    BY <1>1, <2>1, BackgroundFrame
<1>2. ASSUME NEW k \in Launches, Compiles(k)
      PROVE  overlapped \subseteq overlapped' /\ UNCHANGED row
             /\ (UNCHANGED taskspec \/ WriteTaskSpec(k))
  <2>1. overlapped \subseteq overlapped' /\ (UNCHANGED taskspec \/ WriteTaskSpec(k))
    BY <1>2 DEF Compiles, Begin, CompileWithout, ConfirmControl, Ask, AnswerArrives,
                AppendStart, ReadContext, LockTimesOut, KilledEarly, WriteTaskSpec
  <2> QED
    BY <1>0, <1>2, <2>1, CompilesIsSound
<1>3. ASSUME NEW k \in Launches, OpenWindow(k)
      PROVE  UNCHANGED <<overlapped, row, taskspec>>
  BY <1>3 DEF OpenWindow
<1>4. ASSUME NEW k \in Launches, Discover(k) \/ CaptureFails(k) \/ Killed(k)
      PROVE  /\ UNCHANGED <<overlapped, taskspec>>
             /\ \A l \in Launches : launch'[l] = launch[l] => row'[l] = row[l]
  <2>1. /\ launch[k].pc = "capturing" /\ launch'[k].pc # "capturing"
        /\ UNCHANGED <<overlapped, taskspec>>
        /\ UNCHANGED row \/ \E v : row' = [row EXCEPT ![k] = v]
    BY <1>0, <1>4, CaptureEnds
  <2> QED
    BY <1>0, <2>1
<1> QED
  BY <1>1, <1>2, <1>3, <1>4, NextSplits

\* A launch that is under way was so before, with its card, or has just begun.
LEMMA PrivateStays ==
    ASSUME Inv, Private, Next
    PROVE  Private'
<1>0. /\ launch \in [Launches -> LaunchRecord(sessions)] /\ LaunchesAreSound /\ TypeOK
      /\ overlapped \subseteq overlapped'
  BY RowsFrame DEF Inv, LaunchesAreSound
<1>1. ASSUME NEW l \in Launches, NEW c \in Cards, NEW bypass \in BOOLEAN,
             Begin(l, c, bypass)
      PROVE  Private'
  <2>1. CASE Stops(l, "blocked")
    <3>1. ~UnderWay(l)' /\ \A k \in Launches : k # l => launch'[k] = launch[k]
      BY <1>0, <2>1 DEF Stops, UnderWay, Idle
    <3> QED
      BY <1>0, <3>1 DEF Private, UnderWay
  <2>2. CASE ~Refused(c, bypass, mode)
    <3>1. /\ launch'[l].card = c
          /\ \A k \in Launches : k # l => launch'[k] = launch[k]
          /\ overlapped' = IF Beside(c) = {} THEN overlapped
                           ELSE overlapped \cup Beside(c) \cup {l}
      BY <1>0, <1>1, <2>2 DEF Begin, Idle
    <3>2. \A k \in Launches : k # l /\ UnderWay(k)' /\ launch'[k].card = c
              => k \in overlapped' /\ l \in overlapped'
      BY <3>1 DEF Beside, UnderWay
    <3> QED
      BY <1>0, <3>1, <3>2 DEF Private, UnderWay
  <2> QED
    BY <1>1, <2>1, <2>2 DEF Begin
<1>2. ASSUME NEW l \in Launches,
             \A c \in Cards, bypass \in BOOLEAN : ~Begin(l, c, bypass),
             launch'[l] # launch[l]
      PROVE  UnderWay(l)' => UnderWay(l) /\ launch'[l].card = launch[l].card
  <2>a. ASSUME NEW pc, Stops(l, pc), pc \in {"recorded", "blocked"}
        PROVE  ~UnderWay(l)'
    BY <1>0, <2>a DEF Stops, UnderWay, Idle
  <2>b. ASSUME NEW pc, Goes(l, pc)
        PROVE  launch'[l].card = launch[l].card
    BY <1>0, <2>b DEF Goes, LaunchRecord
  <2>c. ASSUME NEW spec, Compiled(l, spec)
        PROVE  launch'[l].card = launch[l].card
    BY <1>0, <2>c DEF Compiled, LaunchRecord
  <2>1. CASE CompileWithout(l)
    BY <2>1, <2>a, <2>c DEF CompileWithout, UnderWay
  <2>2. CASE ConfirmControl(l) \/ Ask(l) \/ AppendStart(l)
    BY <2>2, <2>b DEF ConfirmControl, Ask, AppendStart, UnderWay
  <2>3. CASE \E a \in Recalled \cup Transported : AnswerArrives(l, a)
    BY <2>3, <2>a, <2>c DEF AnswerArrives, UnderWay
  <2>4. CASE WriteTaskSpec(l)
    BY <1>0, <2>4 DEF WriteTaskSpec, UnderWay, Idle
  <2>5. CASE ReadContext(l) \/ OpenWindow(l)
    BY <1>0, <2>5 DEF ReadContext, OpenWindow, UnderWay, LaunchRecord
  <2>6. CASE \/ LockTimesOut(l) \/ KilledEarly(l)
             \/ Discover(l) \/ CaptureFails(l) \/ Killed(l)
    BY <2>6, <2>a DEF LockTimesOut, KilledEarly, Discover, CaptureFails, Killed, Record
  <2> QED
    BY <1>2, <2>1, <2>2, <2>3, <2>4, <2>5, <2>6, WhoActs DEF Compiles
<1>3. CASE \A l \in Launches, c \in Cards, bypass \in BOOLEAN : ~Begin(l, c, bypass)
  <2>1. \A l \in Launches :
            UnderWay(l)' => UnderWay(l) /\ launch'[l].card = launch[l].card
    BY <1>2, <1>3 DEF UnderWay
  <2> QED
    BY <1>0, <2>1 DEF Private
<1> QED
  BY <1>1, <1>3

\* The steps of others do not touch what the row of a launch follows from.
LEMMA UntouchedStays ==
    ASSUME Inv, RowsInv, Next, NEW l \in Launches, launch'[l] = launch[l]
    PROVE  Isolated(l)'
<1>0. /\ launch \in [Launches -> LaunchRecord(sessions)] /\ LaunchesAreSound /\ TypeOK
      /\ Isolated(l) /\ row'[l] = row[l] /\ overlapped \subseteq overlapped'
  BY RowsFrame DEF Inv, LaunchesAreSound, RowsInv
<1>1. ASSUME NEW k \in Launches, launch'[k] # launch[k], UnderWay(k), UnderWay(l),
             l \notin overlapped
      PROVE  launch[k].card # launch[l].card
  BY <1>1 DEF RowsInv, Private
<1>2. ASSUME NEW c \in Cards
      PROVE  HasStart(l, c)' <=> HasStart(l, c)
  <2>1. CASE UNCHANGED receipts
    BY <2>1 DEF HasStart
  <2>2. ASSUME NEW r \in ReceiptRecord, receipts' = Append(receipts, r),
               r.kind = "start" => \E k \in Launches : AppendStart(k) /\ r.attempt = k
        PROVE  HasStart(l, c)' <=> HasStart(l, c)
    <3>1. r.kind = "start" => r.attempt # l
      BY <1>0, <2>2 DEF AppendStart, Goes, LaunchRecord
    <3> QED
      BY <1>0, <2>2, <3>1, AppendedReceipt
  <2> QED
    BY <2>1, <2>2, ReceiptSteps
<1>3. ASSUME UnderWay(l), l \notin overlapped, launch[l].card \in Cards
      PROVE  taskspec'[launch[l].card] = taskspec[launch[l].card]
  <2>1. ASSUME NEW k \in Launches, WriteTaskSpec(k)
        PROVE  launch[k].card # launch[l].card
    <3>1. launch'[k] # launch[k] /\ UnderWay(k)
      BY <1>0, <2>1 DEF WriteTaskSpec, UnderWay, Idle
    <3> QED
      BY <1>1, <1>3, <3>1
  <2>2. CASE UNCHANGED taskspec
    BY <2>2
  <2>3. CASE \E k \in Launches : WriteTaskSpec(k)
    BY <1>0, <1>3, <2>1, <2>3 DEF WriteTaskSpec, TypeOK
  <2> QED
    BY <2>2, <2>3, RowsFrame
<1>4. ASSUME UnderWay(l), l \notin overlapped, launch[l].card \in Cards
      PROVE  CurrentAttempt(launch[l].card)' \in {CurrentAttempt(launch[l].card), None}
  <2> DEFINE c == launch[l].card
  <2>0. c \in Cards /\ launch'[l].card = c
    BY <1>4
  <2>1. CASE UNCHANGED receipts
    BY <2>0, <2>1 DEF CurrentAttempt, LatestReceipt
  <2>2. ASSUME NEW r \in ReceiptRecord, receipts' = Append(receipts, r),
               r.kind = "start" =>
                   \E k \in Launches : AppendStart(k) /\ r.card = launch[k].card
        PROVE  CurrentAttempt(c)' \in {CurrentAttempt(c), None}
    <3>1. r.kind = "start" => r.card # c
      <4>1. ASSUME NEW k \in Launches, AppendStart(k)
            PROVE  launch[k].card # c
        <5>1. launch'[k] # launch[k] /\ UnderWay(k)
          BY <1>0, <4>1 DEF AppendStart, Goes, UnderWay, LaunchRecord
        <5> QED
          BY <1>1, <1>4, <5>1
      <4> QED
        BY <2>2, <4>1
    <3>2. \A d \in Cards : CurrentAttempt(d)' =
              IF r.card # d THEN CurrentAttempt(d)
              ELSE IF r.kind = "start" THEN r.attempt ELSE None
      BY <1>0, <2>2, AppendedReceipt
    <3> QED
      BY <2>0, <3>1, <3>2
  <2> QED
    BY <2>1, <2>2, ReceiptSteps
<1>5. UnderWay(l) => launch[l].card \in Cards
  BY <1>0 DEF LaunchesAreSound, Sound, Placed, UnderWay, LaunchRecord
<1>6. row[l].card # None => row[l].card \in Cards
  BY <1>0 DEF TypeOK, OrNone
<1>7. (launch[l].pc \in Early => \A c \in Cards : ~HasStart(l, c))'
  BY <1>0, <1>2 DEF Isolated
<1>8. (row[l].card # None => launch[l].pc = "recorded")'
  BY <1>0 DEF Isolated
<1>9. ASSUME l \notin overlapped
      PROVE  OwnDigest(l)' /\ OwnAttempt(l)'
  <2>1. OwnDigest(l) /\ OwnAttempt(l)
    BY <1>0, <1>9 DEF Isolated
  <2>2. launch[l].pc \in {"receipted", "written", "ready", "capturing"} => UnderWay(l)
    BY DEF UnderWay
  <2>3. OwnDigest(l)'
    BY <1>0, <1>3, <1>5, <1>9, <2>1, <2>2 DEF OwnDigest
  <2>4. OwnAttempt(l)'
    BY <1>0, <1>2, <1>4, <1>5, <1>6, <1>9, <2>1, <2>2 DEF OwnAttempt
  <2> QED
    BY <2>3, <2>4
<1> QED
  BY <1>0, <1>7, <1>8, <1>9 DEF Isolated

\* Before it opens an attempt, and where it opens none, a launch has none.
LEMMA EarlyStays ==
    ASSUME Inv, NEW l \in Launches, Isolated(l), launch[l].pc \in Early,
           launch'[l].pc \in Early \cup {"receipted", "blocked"},
           launch'[l].card \in OrNone(Cards),
           launch'[l].pc = "receipted" => launch'[l].card \in Cards,
           UNCHANGED <<receipts, row>>
    PROVE  Isolated(l)'
<1>1. \A c \in Cards : ~HasStart(l, c)'
  BY DEF Isolated, HasStart
<1>2. row[l].card = None
  BY DEF Isolated, Early
<1>3. OwnDigest(l)' /\ OwnAttempt(l)'
  BY <1>1, <1>2 DEF OwnDigest, OwnAttempt, Early
<1> QED
  BY <1>1, <1>2, <1>3 DEF Isolated

LEMMA CompilesStaysIsolated ==
    ASSUME Inv, NEW l \in Launches, Isolated(l), LaunchesAreSound',
           \/ \E c \in Cards, bypass \in BOOLEAN : Begin(l, c, bypass)
           \/ CompileWithout(l) \/ ConfirmControl(l) \/ Ask(l)
           \/ \E a \in Recalled \cup Transported : AnswerArrives(l, a)
    PROVE  Isolated(l)'
<1>0. launch \in [Launches -> LaunchRecord(sessions)]
  BY DEF Inv, LaunchesAreSound
<1>1. launch[l].pc \in Early /\ UNCHANGED <<receipts, row>>
  BY DEF Begin, CompileWithout, ConfirmControl, Ask, AnswerArrives, Early
<1>2. ASSUME NEW c \in Cards, NEW bypass \in BOOLEAN, Begin(l, c, bypass)
      PROVE  Stops(l, "blocked") \/ launch'[l].pc = "read"
  BY <1>0, <1>2 DEF Begin, Idle
<1>3. launch'[l].pc \in Early \cup {"receipted", "blocked"}
  <2>1. ASSUME Stops(l, "blocked") PROVE launch'[l].pc = "blocked"
    BY <1>0, <2>1 DEF Stops, Idle
  <2>2. ASSUME NEW pc, Goes(l, pc) PROVE launch'[l].pc = pc
    BY <1>0, <2>2 DEF Goes, LaunchRecord
  <2>3. ASSUME NEW spec, Compiled(l, spec)
        PROVE  launch'[l].pc \in {"compiled", "receipted"}
    BY <1>0, <2>3 DEF Compiled, LaunchRecord
  <2>4. CASE CompileWithout(l)
    BY <2>1, <2>3, <2>4 DEF CompileWithout, Early
  <2>5. CASE ConfirmControl(l) \/ Ask(l)
    BY <2>2, <2>5 DEF ConfirmControl, Ask, Early
  <2>6. CASE \E a \in Recalled \cup Transported : AnswerArrives(l, a)
    BY <2>1, <2>3, <2>6 DEF AnswerArrives, Early
  <2> QED
    BY <1>2, <2>1, <2>4, <2>5, <2>6 DEF Early
<1>4. /\ launch'[l].card \in OrNone(Cards)
      /\ launch'[l].pc = "receipted" => launch'[l].card \in Cards
  BY DEF LaunchesAreSound, Sound, Placed, LaunchRecord
<1> QED
  BY <1>1, <1>3, <1>4, EarlyStays

\* A launch that comes to nothing has no row.
LEMMA StoppedIsIsolated ==
    ASSUME NEW l \in Launches, Isolated(l), launch[l].pc # "recorded",
           launch'[l].pc = "blocked", UNCHANGED row
    PROVE  Isolated(l)'
BY DEF Isolated, OwnDigest, OwnAttempt, Early

\* The steps of the launch itself, from its receipt to its row.
LEMMA LateStaysIsolated ==
    ASSUME Inv, Next, NEW l \in Launches, Isolated(l),
           \/ AppendStart(l) \/ WriteTaskSpec(l) \/ ReadContext(l) \/ LockTimesOut(l)
           \/ KilledEarly(l) \/ OpenWindow(l) \/ Discover(l) \/ CaptureFails(l) \/ Killed(l)
    PROVE  Isolated(l)'
<1>0. /\ launch \in [Launches -> LaunchRecord(sessions)] /\ LaunchesAreSound /\ TypeOK
      /\ row \in [Launches -> [card : OrNone(Cards), digest : OrNone(Launches),
                              attempt : OrNone(Launches), session : OrNone(Ids)]]
      /\ overlapped \subseteq overlapped'
  BY RowsFrame DEF Inv, TypeOK, LaunchesAreSound
<1> PICK c \in Cards : launch[l].card = c /\ row[l].card = None
  BY <1>0 DEF AppendStart, WriteTaskSpec, ReadContext, LockTimesOut, OpenWindow, Discover,
              CaptureFails, KilledEarly, Killed, UnderWay, LaunchesAreSound, Sound, Placed,
              LaunchRecord, Isolated
<1>1. ASSUME UNCHANGED receipts
      PROVE  \A d : HasStart(l, d)' <=> HasStart(l, d)
  BY <1>1 DEF HasStart
<1>2. CASE AppendStart(l)
  <2> DEFINE r == Receipt("start", l, c, l)
  <2>1. r \in ReceiptRecord /\ r.kind = "start" /\ r.attempt = l /\ r.card = c
    BY DEF Receipt, ReceiptRecord, OrNone
  <2>2. receipts' = Append(receipts, r)
    BY <1>2 DEF AppendStart
  <2> HIDE DEF r
  <2>3. CurrentAttempt(c)' = l
    BY <1>0, <2>1, <2>2, AppendedReceipt
  <2>4. launch'[l].pc = "receipted" /\ launch'[l].card = c /\ UNCHANGED row
    BY <1>0, <1>2 DEF AppendStart, Goes, LaunchRecord
  <2>5. OwnDigest(l)' /\ OwnAttempt(l)'
    BY <2>3, <2>4 DEF OwnDigest, OwnAttempt
  <2> QED
    BY <2>4, <2>5 DEF Isolated, Early
<1>3. CASE WriteTaskSpec(l)
  <2>1. /\ launch'[l].pc = "written" /\ launch'[l].card = c /\ UNCHANGED <<row, receipts>>
        /\ taskspec'[c] = l /\ launch[l].pc = "receipted"
    BY <1>0, <1>3 DEF WriteTaskSpec, Idle, TypeOK
  <2>2. CurrentAttempt(c)' = CurrentAttempt(c)
    BY <2>1 DEF CurrentAttempt, LatestReceipt
  <2>3. ASSUME l \notin overlapped
        PROVE  OwnDigest(l)' /\ OwnAttempt(l)'
    <3>1. HasStart(l, c) => CurrentAttempt(c) \in {l, None}
      BY <2>1, <2>3 DEF Isolated, OwnAttempt
    <3> QED
      BY <1>1, <2>1, <2>2, <3>1 DEF OwnDigest, OwnAttempt
  <2> QED
    BY <1>0, <2>1, <2>3 DEF Isolated, Early
<1>4. CASE ReadContext(l)
  <2>1. /\ launch'[l].pc = "ready" /\ launch'[l].card = c /\ UNCHANGED <<row, receipts>>
        /\ launch'[l].digest = taskspec[c] /\ launch'[l].attempt = CurrentAttempt(c)
        /\ launch[l].pc = "written"
    BY <1>0, <1>4 DEF ReadContext, LaunchRecord
  <2>2. ASSUME l \notin overlapped
        PROVE  OwnDigest(l)' /\ OwnAttempt(l)'
    <3>1. taskspec[c] = l /\ (HasStart(l, c) => CurrentAttempt(c) \in {l, None})
      BY <2>1, <2>2 DEF Isolated, OwnDigest, OwnAttempt
    <3> QED
      BY <1>1, <2>1, <3>1 DEF OwnDigest, OwnAttempt
  <2> QED
    BY <1>0, <2>1, <2>2 DEF Isolated, Early
<1>5. CASE OpenWindow(l)
  <2>1. /\ launch'[l].pc = "capturing" /\ launch'[l].card = c
        /\ UNCHANGED <<row, receipts>> /\ launch'[l].digest = launch[l].digest
        /\ launch'[l].attempt = launch[l].attempt /\ launch[l].pc = "ready"
    BY <1>0, <1>5 DEF OpenWindow, LaunchRecord
  <2>2. ASSUME l \notin overlapped
        PROVE  OwnDigest(l)' /\ OwnAttempt(l)'
    <3>1. launch[l].digest = l /\ (HasStart(l, c) => launch[l].attempt \in {l, None})
      BY <2>1, <2>2 DEF Isolated, OwnDigest, OwnAttempt
    <3> QED
      BY <1>1, <2>1, <3>1 DEF OwnDigest, OwnAttempt
  <2> QED
    BY <1>0, <2>1, <2>2 DEF Isolated, Early
<1>6. CASE LockTimesOut(l) \/ KilledEarly(l) \/ Killed(l)
  <2>1. /\ launch[l].pc # "recorded" /\ UNCHANGED row
        /\ Stops(l, "blocked")
    BY <1>6 DEF LockTimesOut, KilledEarly, Killed, UnderWay
  <2>2. launch'[l].pc = "blocked"
    BY <1>0, <2>1 DEF Stops, Idle
  <2> QED
    BY <2>1, <2>2, StoppedIsIsolated
<1>7. ASSUME NEW session, launch[l].pc = "capturing", Record(l, session)
      PROVE  Isolated(l)'
  <2>1. /\ launch'[l].pc = "recorded" /\ UNCHANGED receipts
        /\ row'[l].card = c /\ row'[l].digest = launch[l].digest
        /\ row'[l].attempt = launch[l].attempt
    BY <1>0, <1>7 DEF Record, Stops, Idle
  <2>2. ASSUME l \notin overlapped
        PROVE  OwnDigest(l)' /\ OwnAttempt(l)'
    <3>1. launch[l].digest = l /\ (HasStart(l, c) => launch[l].attempt \in {l, None})
      BY <1>7, <2>2 DEF Isolated, OwnDigest, OwnAttempt
    <3> QED
      BY <1>1, <2>1, <3>1 DEF OwnDigest, OwnAttempt
  <2> QED
    BY <1>0, <2>1, <2>2 DEF Isolated, Early
<1> QED
  BY <1>2, <1>3, <1>4, <1>5, <1>6, <1>7 DEF Discover, CaptureFails

LEMMA RowsInvInductive ==
    ASSUME Inv, RowsInv, [Next]_vars
    PROVE  RowsInv'
<1>1. CASE UNCHANGED vars
  <2>1. Private'
    BY <1>1 DEF vars, RowsInv, Private, UnderWay
  <2>2. ASSUME NEW l \in Launches
        PROVE  Isolated(l)'
    <3>1. UNCHANGED <<launch, taskspec, receipts, row, overlapped>> /\ Isolated(l)
      BY <1>1 DEF vars, RowsInv
    <3>2. \A c : HasStart(l, c)' <=> HasStart(l, c)
      BY <3>1 DEF HasStart
    <3>3. CurrentAttempt(launch[l].card)' = CurrentAttempt(launch[l].card)
      BY <3>1 DEF CurrentAttempt, LatestReceipt
    <3> QED
      BY <3>1, <3>2, <3>3 DEF Isolated, OwnDigest, OwnAttempt
  <2> QED
    BY <2>1, <2>2 DEF RowsInv
<1>2. CASE Next
  <2>1. Private'
    BY <1>2, PrivateStays DEF RowsInv
  <2>2. ASSUME NEW l \in Launches
        PROVE  Isolated(l)'
    <3>1. CASE launch'[l] = launch[l]
      BY <1>2, <3>1, UntouchedStays
    <3>2. CASE launch'[l] # launch[l]
      <4>1. Inv'
        BY <1>2, InvInductive
      <4>2. Isolated(l) /\ LaunchesAreSound'
        BY <4>1 DEF RowsInv, Inv
      <4> QED
        BY <1>2, <3>2, <4>2, WhoActs, CompilesStaysIsolated, LateStaysIsolated DEF Compiles
    <3> QED
      BY <3>1, <3>2
  <2> QED
    BY <2>1, <2>2 DEF RowsInv
<1> QED
  BY <1>1, <1>2

\* Launches of one card that run one after the other get rows of their own: the
\* TaskSpec is the one the launch wrote, and the attempt is never an older one.
THEOREM RowsAreTheirOwnAlways == Spec => []RowsAreTheirOwn
<1>1. Init => RowsInv
  <2> SUFFICES ASSUME Init PROVE RowsInv
    OBVIOUS
  <2>1. \A l \in Launches : launch[l].pc = "idle" /\ row[l].card = None
    BY DEF Init, Idle, NoRow
  <2>2. \A l \in Launches, c \in Cards : ~HasStart(l, c)
    BY DEF Init, HasStart
  <2>3. Private
    BY <2>1 DEF Private, UnderWay
  <2> QED
    BY <2>1, <2>2, <2>3 DEF RowsInv, Isolated, OwnDigest, OwnAttempt
<1>2. Inv /\ RowsInv /\ [Next]_vars => RowsInv'
  BY RowsInvInductive
<1>3. RowsInv => RowsAreTheirOwn
  BY DEF RowsInv, Isolated, OwnDigest, OwnAttempt, RowsAreTheirOwn
<1> QED
  BY <1>1, <1>2, <1>3, InvAlways, PTL DEF Spec

==============================================================================
