----------------------- MODULE RoutingEscalationProofs -----------------------
(***************************************************************************)
(* Theorems about RoutingEscalation, for any executors, requests, routes   *)
(* and any number of crashes and lost windows, with or without the         *)
(* supervisor; and, at the end, about TaskRouting, which says what route   *)
(* an escalation goes on.                                                  *)
(***************************************************************************)
EXTENDS RoutingEscalation, TaskRouting, SequenceTheorems, FiniteSetTheorems, TLAPS

(***************************************************************************)
(* What the types rest on: past its check an executor has a next route,    *)
(* and whoever is not idle works on a request.                             *)
(***************************************************************************)
ExecutorReady(e) ==
    /\ job[e].pc # "idle" => job[e].req \in Req
    /\ job[e].pc \notin {"idle", "check"} => job[e].held.route < MaxRoute

Ready ==
    /\ \A e \in Exec : ExecutorReady(e)
    /\ worker.pc # "idle" => worker.req \in Req

TypeInv == TypeOK /\ Ready

LEMMA JobTypes ==
    /\ FirstRow \in Row /\ NoJob \in Job
    /\ \A j \in Job, l \in Label : [j EXCEPT !.pc = l] \in Job
    /\ \A j \in Job, row_ \in Row : [j EXCEPT !.held = row_] \in Job
    /\ \A j \in Job, row_ \in Row : [j EXCEPT !.own = row_] \in Job
    /\ \A j \in Job, b \in BOOLEAN : [j EXCEPT !.rolling = b] \in Job
    /\ \A r \in Req : Started(r) \in Job
<1>1. FirstRow \in Row
  BY BoundAssumption DEF FirstRow, Row, Route
<1>2. NoJob \in Job
  BY <1>1 DEF NoJob, Job, Label, Critical, Spawning
<1>3. \A j \in Job, l \in Label : [j EXCEPT !.pc = l] \in Job
  BY DEF Job
<1>4. \A j \in Job, row_ \in Row : [j EXCEPT !.held = row_] \in Job
  BY DEF Job
<1>5. \A j \in Job, row_ \in Row : [j EXCEPT !.own = row_] \in Job
  BY DEF Job
<1>6. \A j \in Job, b \in BOOLEAN : [j EXCEPT !.rolling = b] \in Job
  BY DEF Job
<1>7. \A r \in Req : Started(r) \in Job
  BY <1>1 DEF Started, NoJob, Job, Label
<1> QED
  BY <1>1, <1>2, <1>3, <1>4, <1>5, <1>6, <1>7

LEMMA RowStates ==
    ASSUME NEW row_ \in Row, NEW s \in {"alive", "switching", "recovering", "dead"}
    PROVE  [row_ EXCEPT !.state = s] \in Row
BY DEF Row

\* A step of one process to another label: what it changes and what it keeps.
Moves(p, l) ==
    /\ job' \in [Proc -> Job]
    /\ job'[p].pc = l
    /\ l # "idle" => /\ job'[p].req = job[p].req /\ job'[p].own = job[p].own
                     /\ job'[p].held = job[p].held
                     /\ job'[p].rolling = job[p].rolling
    /\ \A q \in Proc \ {p} : job'[q] = job[q]

LEMMA GotoMoves ==
    ASSUME job \in [Proc -> Job], NEW p \in Proc, NEW l \in Label, Goto(p, l)
    PROVE  Moves(p, l)
<1>1. job[p] \in Job /\ [job[p] EXCEPT !.pc = l] \in Job /\ NoJob \in Job
  BY JobTypes
<1>2. CASE l = "idle"
  <2>1. job' = [job EXCEPT ![p] = NoJob]
    BY <1>2 DEF Goto
  <2> QED
    BY <2>1, <1>1, <1>2 DEF Moves, NoJob
<1>3. CASE l # "idle"
  <2>1. job' = [job EXCEPT ![p] = [job[p] EXCEPT !.pc = l]]
    BY <1>3 DEF Goto
  <2>2. /\ [job[p] EXCEPT !.pc = l].pc = l
        /\ [job[p] EXCEPT !.pc = l].req = job[p].req
        /\ [job[p] EXCEPT !.pc = l].own = job[p].own
        /\ [job[p] EXCEPT !.pc = l].held = job[p].held
        /\ [job[p] EXCEPT !.pc = l].rolling = job[p].rolling
    BY <1>1 DEF Job
  <2> QED
    BY <2>1, <2>2, <1>1, <1>3 DEF Moves
<1> QED
  BY <1>2, <1>3


LEMMA NextLabels ==
    \A p \in Proc : Failed(p) \in Label
BY DEF Failed, Label, Critical, Spawning

\* Before its check an executor may be anywhere; past it, and for the
\* supervisor always, it goes on with what it holds.
Past(p) == p \in Proc /\ (p \in Exec => job[p].pc \notin {"idle", "check"})

LEMMA Onward ==
    ASSUME TypeInv, NEW p \in Proc, NEW l \in Label, Past(p), Goto(p, l)
    PROVE  job' \in [Proc -> Job] /\ \A e \in Exec : ExecutorReady(e)'
<1>1. Moves(p, l)
  BY GotoMoves DEF TypeInv, TypeOK
<1>2. ASSUME NEW e \in Exec PROVE ExecutorReady(e)'
  <2>1. ExecutorReady(e) /\ e \in Proc
    BY DEF TypeInv, Ready, Proc
  <2>2. CASE e = p
    BY <1>1, <2>1, <2>2 DEF Moves, ExecutorReady, Past
  <2>3. CASE e # p
    BY <1>1, <2>1, <2>3 DEF Moves, ExecutorReady
  <2> QED
    BY <2>2, <2>3
<1> QED
  BY <1>1, <1>2 DEF Moves

LEMMA WantedType ==
    ASSUME TypeInv, NEW p \in Proc, Past(p)
    PROVE  Wanted(p) \in Route
<1>1. job[p].held.route \in Route
  BY DEF TypeInv, TypeOK, Job, Row
<1>2. p # "sup" => job[p].held.route < MaxRoute
  BY DEF Past, Proc, TypeInv, Ready, ExecutorReady
<1> QED
  BY <1>1, <1>2, BoundAssumption DEF Wanted, Route

LEMMA LookTypes ==
    ASSUME TypeInv, NEW p \in Proc, NEW l \in Label, Past(p), Look(p, l)
    PROVE  TypeInv'
<1>1. job' \in [Proc -> Job] /\ \A e \in Exec : ExecutorReady(e)'
  BY Onward DEF Look
<1> QED
  BY <1>1 DEF Look, TypeInv, TypeOK, Ready, records, bounds

LEMMA PutRowTypes ==
    ASSUME TypeInv, NEW p \in Proc, NEW new \in Row, NEW l \in Label, Past(p),
           PutRow(p, new, l)
    PROVE  TypeInv'
<1>1. job' \in [Proc -> Job] /\ \A e \in Exec : ExecutorReady(e)'
  BY Onward DEF PutRow
<1> QED
  BY <1>1 DEF PutRow, TypeInv, TypeOK, Ready, records, bounds

LEMMA MarkTypes ==
    ASSUME TypeInv, NEW e \in Exec, NEW label, NEW phase \in Phase,
           NEW next \in Label, NEW refused \in Label,
           label \notin {"idle", "check"}, Mark(e, label, phase, next, refused)
    PROVE  TypeInv'
<1>1. e \in Proc /\ Past(e) /\ job[e].req \in Req
  BY DEF Proc, Past, Mark, At, TypeInv, Ready, ExecutorReady
<1>2. Goto(e, next) \/ Goto(e, refused)
  BY DEF Mark
<1>3. job' \in [Proc -> Job] /\ \A f \in Exec : ExecutorReady(f)'
  BY <1>1, <1>2, Onward
<1>4. txn' \in [Req -> Phase]
  BY <1>1 DEF Mark, TypeInv, TypeOK
<1> QED
  BY <1>3, <1>4 DEF Mark, TypeInv, TypeOK, Ready, bounds

LEMMA MarkRequestTypes ==
    ASSUME TypeInv, NEW e \in Exec, NEW label, NEW state \in RequestState,
           NEW next \in Label, NEW refused \in Label,
           label \notin {"idle", "check"}, MarkRequest(e, label, state, next, refused)
    PROVE  TypeInv'
<1>1. e \in Proc /\ Past(e) /\ job[e].req \in Req
  BY DEF Proc, Past, MarkRequest, At, TypeInv, Ready, ExecutorReady
<1>2. Goto(e, next) \/ Goto(e, refused)
  BY DEF MarkRequest
<1>3. job' \in [Proc -> Job] /\ \A f \in Exec : ExecutorReady(f)'
  BY <1>1, <1>2, Onward
<1>4. request' \in [Req -> RequestState]
  BY <1>1 DEF MarkRequest, TypeInv, TypeOK
<1> QED
  BY <1>3, <1>4 DEF MarkRequest, TypeInv, TypeOK, Ready, bounds

\* A step that may open or close a window and leaves the rest.
LEMMA WindowTypes ==
    ASSUME TypeInv, NEW p \in Proc, NEW l \in Label, Past(p), Goto(p, l),
           windows' \in Seq(Route), Len(windows') <= MaxWindows,
           row' \in Row, UNCHANGED <<records, lock, sent, worker, bounds>>
    PROVE  TypeInv'
<1>1. job' \in [Proc -> Job] /\ \A e \in Exec : ExecutorReady(e)'
  BY Onward
<1> QED
  BY <1>1 DEF TypeInv, TypeOK, Ready, records, bounds

LEMMA NoWindow == <<>> \in Seq(Route) /\ Len(<<>>) <= MaxWindows
BY BoundAssumption, EmptySeq

\* Spawn, of an executor past its check or of the supervisor.
LEMMA SpawnTypes ==
    ASSUME TypeInv, NEW p \in Proc, Past(p), Spawn(p)
    PROVE  TypeInv'
<1>1. Wanted(p) \in Route /\ Failed(p) \in Label
  BY WantedType, NextLabels
<1>2. [route |-> Wanted(p), state |-> "alive"] \in Row
  BY <1>1 DEF Row
<1>3. CASE SpawnTarget(p)
  <2>1. PICK l \in {"window", Failed(p)} : Look(p, l)
    BY <1>3 DEF SpawnTarget
  <2> QED
    BY <1>1, <2>1, LookTypes DEF Label, Critical, Spawning
<1>4. CASE SpawnWindow(p)
  <2>1. PICK l \in {"row", Failed(p)} : Goto(p, l)
    BY <1>4 DEF SpawnWindow
  <2>2. windows \in Seq(Route) /\ Len(windows) <= MaxWindows
    BY DEF TypeInv, TypeOK
  <2>3. /\ Append(windows, Wanted(p)) \in Seq(Route)
        /\ Len(Append(windows, Wanted(p))) = Len(windows) + 1
    BY <1>1, <2>2, AppendProperties
  <2>4. windows' \in Seq(Route) /\ Len(windows') <= MaxWindows
    BY <1>4, <2>2, <2>3, LenProperties, BoundAssumption DEF SpawnWindow
  <2>5. row' \in Row /\ l \in Label
    BY <1>1, <1>4, <2>1 DEF SpawnWindow, TypeInv, TypeOK, Label, Critical, Spawning
  <2> QED
    BY <1>4, <2>1, <2>4, <2>5, WindowTypes DEF SpawnWindow
<1>5. CASE SpawnRow(p)
  <2>1. PICK l \in {"record", Failed(p)} : Goto(p, l)
    BY <1>5 DEF SpawnRow
  <2>2. windows' \in Seq(Route) /\ Len(windows') <= MaxWindows
    BY <1>5, NoWindow DEF SpawnRow, TypeInv, TypeOK
  <2>3. row' \in Row /\ l \in Label
    BY <1>1, <1>2, <1>5, <2>1 DEF SpawnRow, TypeInv, TypeOK, Label, Critical, Spawning
  <2> QED
    BY <1>5, <2>1, <2>2, <2>3, WindowTypes DEF SpawnRow
<1>6. CASE SpawnRecord(p)
  <2>1. PICK l \in {"found", "verify", "mark_verifying"} :
          PutRow(p, [route |-> Wanted(p), state |-> "alive"], l)
    BY <1>6 DEF SpawnRecord
  <2>2. l \in Label
    BY <2>1 DEF Label, Critical
  <2> QED
    BY <1>2, <2>1, <2>2, PutRowTypes
<1> QED
  BY <1>3, <1>4, <1>5, <1>6 DEF Spawn


LEMMA ExecuteTypes ==
    ASSUME TypeInv, NEW e \in Exec, Execute(e)
    PROVE  TypeInv'
<1> USE DEF Label, Critical, Spawning
<1>1. /\ job[e] \in Job /\ e \in Proc /\ e # "sup" /\ row \in Row
      /\ \A s \in {"alive", "switching", "recovering", "dead"} :
           [job[e].held EXCEPT !.state = s] \in Row
  BY ProcessAssumption, RowStates DEF TypeInv, TypeOK, Proc, Job
<1>2. CASE Check(e)
  <2>1. job[e].req \in Req
    BY <1>2 DEF Check, At, TypeInv, Ready, ExecutorReady
  <2>2. PICK ok \in BOOLEAN :
          job' = [job EXCEPT ![e] =
             IF txn[job[e].req] = "none" /\ ok /\ Eligible(job[e].req)
                /\ request[job[e].req] = "processing"
             THEN [job[e] EXCEPT !.pc = "prepare", !.held = row] ELSE NoJob]
    BY <1>2 DEF Check
  <2>3. /\ [job[e] EXCEPT !.pc = "prepare", !.held = row] \in Job
        /\ [job[e] EXCEPT !.pc = "prepare", !.held = row].held = row
        /\ [job[e] EXCEPT !.pc = "prepare", !.held = row].req = job[e].req
        /\ NoJob \in Job /\ NoJob.pc = "idle"
    <3>1. [job[e] EXCEPT !.pc = "prepare", !.held = row] \in Job
      BY <1>1 DEF Job
    <3>2. /\ [job[e] EXCEPT !.pc = "prepare", !.held = row].held = row
          /\ [job[e] EXCEPT !.pc = "prepare", !.held = row].req = job[e].req
      BY <1>1 DEF Job
    <3>3. NoJob \in Job /\ NoJob.pc = "idle"
      BY JobTypes DEF NoJob
    <3> QED
      BY <3>1, <3>2, <3>3
  <2>4. job' \in [Proc -> Job]
    BY <1>1, <2>2, <2>3 DEF TypeInv, TypeOK
  <2>5. ASSUME NEW f \in Exec PROVE ExecutorReady(f)'
    <3>1. f \in Proc /\ ExecutorReady(f)
      BY DEF Proc, TypeInv, Ready
    <3>2. CASE f # e
      BY <2>2, <3>1, <3>2 DEF ExecutorReady, TypeInv, TypeOK
    <3>3. CASE f = e /\ job'[e] = NoJob
      BY <2>3, <3>3 DEF ExecutorReady
    <3>4. CASE f = e /\ Eligible(job[e].req)
               /\ job'[e] = [job[e] EXCEPT !.pc = "prepare", !.held = row]
      BY <2>1, <2>3, <3>4 DEF ExecutorReady, Eligible
    <3> QED
      BY <1>1, <2>2, <3>2, <3>3, <3>4 DEF TypeInv, TypeOK
  <2>6. request' \in [Req -> RequestState]
    BY <1>2, <2>1 DEF Check, Terminal, RequestState, TypeInv, TypeOK
  <2> QED
    BY <1>2, <2>4, <2>5, <2>6 DEF Check, TypeInv, TypeOK, Ready, bounds
<1>3. CASE \/ Prepare(e) \/ MarkStopped(e) \/ MarkResuming(e) \/ MarkVerifying(e)
           \/ Commit(e) \/ RollDone(e) \/ BlockDone(e)
  <2>1. {"prepared", "stopped", "resuming", "verifying", "committed", "rolled_back",
         "recovery_required"} \subseteq Phase
    BY DEF Phase, Forward, Terminal
  <2>2. CASE Prepare(e)
    BY <2>1, <2>2, MarkTypes DEF Prepare
  <2>3. CASE MarkStopped(e)
    BY <2>1, <2>3, MarkTypes DEF MarkStopped
  <2>4. CASE MarkResuming(e)
    BY <2>1, <2>4, MarkTypes DEF MarkResuming
  <2>5. CASE MarkVerifying(e)
    BY <2>1, <2>5, MarkTypes DEF MarkVerifying
  <2>6. CASE Commit(e)
    BY <2>1, <2>6, MarkTypes DEF Commit
  <2>7. CASE RollDone(e)
    BY <2>1, <2>7, MarkTypes DEF RollDone
  <2>8. CASE BlockDone(e)
    BY <2>1, <2>8, MarkTypes DEF BlockDone
  <2> QED
    BY <1>3, <2>2, <2>3, <2>4, <2>5, <2>6, <2>7, <2>8
<1>4. CASE CommitRequest(e) \/ RollRequest(e) \/ BlockRequest(e)
  <2>1. {"committed", "rolled_back", "recovery_required"} \subseteq RequestState
    BY DEF RequestState, Terminal
  <2>2. CASE CommitRequest(e)
    BY <2>1, <2>2, MarkRequestTypes DEF CommitRequest
  <2>3. CASE RollRequest(e)
    BY <2>1, <2>3, MarkRequestTypes DEF RollRequest
  <2>4. CASE BlockRequest(e)
    BY <2>1, <2>4, MarkRequestTypes DEF BlockRequest
  <2> QED
    BY <1>4, <2>2, <2>3, <2>4
<1>5. ASSUME job[e].pc \notin {"idle", "check"} PROVE Past(e) /\ job[e].req \in Req
  BY <1>1, <1>5 DEF Past, TypeInv, Ready, ExecutorReady
<1>6. CASE Lock(e)
  <2>1. PICK l \in {"revalidate", "idle"} : Goto(e, l)
    BY <1>6 DEF Lock
  <2>2. Past(e) /\ job[e].req \in Req
    BY <1>5, <1>6 DEF Lock, At
  <2>3. job' \in [Proc -> Job] /\ \A f \in Exec : ExecutorReady(f)'
    BY <1>1, <2>1, <2>2, Onward
  <2> QED
    BY <1>6, <2>2, <2>3 DEF Lock, TypeInv, TypeOK, Ready, records, bounds
<1>7. CASE Release(e)
  <2>1. Past(e)
    BY <1>5, <1>7 DEF Release, At
  <2>2. job' \in [Proc -> Job] /\ \A f \in Exec : ExecutorReady(f)'
    BY <1>1, <1>7, <2>1, Onward DEF Release
  <2> QED
    BY <1>7, <2>2 DEF Release, TypeInv, TypeOK, Ready, records, bounds
<1>8. CASE Revalidate(e)
  <2>1. PICK l \in {"stop_row", "release"} : Look(e, l)
    BY <1>8 DEF Revalidate
  <2> QED
    BY <1>1, <1>5, <1>8, <2>1, LookTypes DEF Revalidate, At
<1>9. CASE Verify(e)
  <2>1. PICK l \in {"roll_done", "send", Failed(e)} : Look(e, l)
    BY <1>9 DEF Verify
  <2>2. l \in Label
    BY <1>1, <2>1, NextLabels
  <2> QED
    BY <1>1, <1>5, <1>9, <2>1, <2>2, LookTypes DEF Verify, At
<1>10. CASE StopRow(e)
  <2>1. Past(e)
    BY <1>5, <1>10 DEF StopRow, At
  <2>2. [route |-> Wanted(e), state |-> "switching"] \in Row
    BY <1>1, <2>1, WantedType DEF Row
  <2> QED
    BY <1>1, <1>10, <2>1, <2>2, PutRowTypes DEF StopRow
<1>11. CASE RollRow(e) \/ BlockRow(e)
  <2>1. Past(e)
    BY <1>5, <1>11 DEF RollRow, BlockRow, At
  <2> QED
    BY <1>1, <1>11, <2>1, PutRowTypes DEF RollRow, BlockRow
<1>12. CASE Kill(e)
  <2>1. PICK l \in {"roll_row", "mark_stopped"} : Goto(e, l)
    BY <1>12 DEF Kill
  <2>2. windows' \in Seq(Route) /\ Len(windows') <= MaxWindows
    BY <1>12, NoWindow DEF Kill, TypeInv, TypeOK
  <2>3. Past(e)
    BY <1>5, <1>12 DEF Kill, At
  <2> QED
    BY <1>1, <1>12, <2>1, <2>2, <2>3, WindowTypes DEF Kill
<1>13. CASE Spawn(e)
  BY <1>1, <1>5, <1>13, SpawnTypes
     DEF Spawn, SpawnTarget, SpawnWindow, SpawnRow, SpawnRecord, At
<1>14. CASE SendContinuation(e)
  <2>1. PICK l \in {"commit", "roll_back"} : Goto(e, l)
    BY <1>14 DEF SendContinuation
  <2>2. Past(e) /\ job[e].req \in Req
    BY <1>5, <1>14 DEF SendContinuation, At
  <2>3. job' \in [Proc -> Job] /\ \A f \in Exec : ExecutorReady(f)'
    BY <1>1, <2>1, <2>2, Onward
  <2>4. sent' \in [Req -> Nat]
    <3>1. sent \in [Req -> Nat]
      BY DEF TypeInv, TypeOK
    <3>2. sent' \in {sent, [sent EXCEPT ![job[e].req] = @ + 1]}
      BY <1>14 DEF SendContinuation
    <3> QED
      BY <2>2, <3>1, <3>2
  <2> QED
    BY <1>14, <2>3, <2>4 DEF SendContinuation, TypeInv, TypeOK, Ready, records, bounds
<1>15. CASE RollBack(e)
  <2>1. Past(e) /\ job[e].req \in Req
    BY <1>5, <1>15 DEF RollBack, At
  <2>2. CASE Goto(e, "release") /\ UNCHANGED txn
    <3>1. job' \in [Proc -> Job] /\ \A f \in Exec : ExecutorReady(f)'
      BY <1>1, <2>1, <2>2, Onward
    <3> QED
      BY <1>15, <2>2, <3>1 DEF RollBack, TypeInv, TypeOK, Ready, bounds
  <2>3. CASE /\ txn' = [txn EXCEPT ![job[e].req] = "rolling_back"]
             /\ job' = [job EXCEPT ![e].pc = "kill", ![e].rolling = TRUE]
    <3>1. /\ job' = [job EXCEPT ![e] = [job[e] EXCEPT !.pc = "kill", !.rolling = TRUE]]
          /\ [job[e] EXCEPT !.pc = "kill", !.rolling = TRUE] \in Job
          /\ [job[e] EXCEPT !.pc = "kill", !.rolling = TRUE].req = job[e].req
          /\ [job[e] EXCEPT !.pc = "kill", !.rolling = TRUE].held = job[e].held
      BY <1>1, <2>3 DEF Job, TypeInv, TypeOK
    <3>2. job[e].held.route < MaxRoute
      BY <1>15 DEF RollBack, At, TypeInv, Ready, ExecutorReady
    <3>3. job' \in [Proc -> Job]
      BY <1>1, <3>1 DEF TypeInv, TypeOK
    <3>4. ASSUME NEW f \in Exec PROVE ExecutorReady(f)'
      BY <1>1, <2>1, <3>1, <3>2 DEF ExecutorReady, TypeInv, TypeOK, Ready, Proc
    <3>5. txn' \in [Req -> Phase]
      BY <2>1, <2>3 DEF Phase, TypeInv, TypeOK
    <3> QED
      BY <1>15, <3>3, <3>4, <3>5 DEF RollBack, TypeInv, TypeOK, Ready, bounds
  <2> QED
    BY <1>15, <2>2, <2>3 DEF RollBack
<1> QED
  BY <1>2, <1>3, <1>4, <1>6, <1>7, <1>8, <1>9, <1>10, <1>11, <1>12, <1>13, <1>14,
     <1>15 DEF Execute


LEMMA SuperviseTypes ==
    ASSUME TypeInv, Supervise
    PROVE  TypeInv'
<1> USE DEF Label, Critical, Spawning
<1>1. /\ job["sup"] \in Job /\ "sup" \in Proc /\ "sup" \notin Exec /\ row \in Row
      /\ job["sup"].held \in Row
      /\ \A s \in {"alive", "switching", "recovering", "dead"} :
           /\ [job["sup"].held EXCEPT !.state = s] \in Row
           /\ [job["sup"].own EXCEPT !.state = s] \in Row
  BY ProcessAssumption, RowStates DEF TypeInv, TypeOK, Proc, Job
<1>2. Past("sup")
  BY <1>1 DEF Past
<1>3. CASE SupTurn
  BY <1>1, <1>2, <1>3, LookTypes DEF SupTurn
<1>4. ASSUME NEW j \in Job, job' = [job EXCEPT !["sup"] = j],
             UNCHANGED <<records, lock, row, windows, sent, worker, bounds>>
      PROVE  TypeInv'
  <2>1. job' \in [Proc -> Job] /\ \A e \in Exec : job'[e] = job[e]
    BY <1>1, <1>4 DEF TypeInv, TypeOK, Proc
  <2>2. \A e \in Exec : ExecutorReady(e)'
    BY <2>1 DEF ExecutorReady, TypeInv, Ready
  <2> QED
    BY <1>4, <2>1, <2>2 DEF TypeInv, TypeOK, Ready, records, bounds
<1>5. CASE SupRead
  <2>1. job' = [job EXCEPT !["sup"] = [job["sup"] EXCEPT !.pc = "decide", !.own = row]]
    BY <1>1, <1>5 DEF SupRead, TypeInv, TypeOK
  <2>2. [job["sup"] EXCEPT !.pc = "decide", !.own = row] \in Job
    BY <1>1 DEF Job
  <2> QED
    BY <1>4, <1>5, <2>1, <2>2 DEF SupRead
<1>6. CASE SupDecide
  <2>1. PICK l \in {"idle", "load"}, s \in {"alive", "recovering"} :
          \/ Look("sup", l)
          \/ PutRow("sup", [job["sup"].own EXCEPT !.state = s], l)
    BY <1>6 DEF SupDecide
  <2> QED
    BY <1>1, <1>2, <2>1, LookTypes, PutRowTypes
<1>7. CASE SupLoad
  <2>1. /\ [job["sup"] EXCEPT !.pc = "mark", !.held = row] \in Job
        /\ [job["sup"] EXCEPT !.pc = "fail"] \in Job
    BY <1>1 DEF Job
  <2>2. \/ job' = [job EXCEPT !["sup"] = [job["sup"] EXCEPT !.pc = "mark", !.held = row]]
        \/ job' = [job EXCEPT !["sup"] = [job["sup"] EXCEPT !.pc = "fail"]]
    BY <1>7 DEF SupLoad
  <2> QED
    BY <1>4, <1>7, <2>1, <2>2 DEF SupLoad
<1>8. CASE SupMark
  BY <1>1, <1>2, <1>8, PutRowTypes DEF SupMark
<1>9. CASE Spawn("sup")
  BY <1>1, <1>2, <1>9, SpawnTypes
<1>10. CASE SupFound
  <2>1. PICK l \in {"idle", "restore"} : Look("sup", l)
    BY <1>10 DEF SupFound
  <2> QED
    BY <1>1, <1>2, <2>1, LookTypes
<1>11. CASE SupRestore
  BY <1>1, <1>2, <1>11, PutRowTypes DEF SupRestore
<1>12. CASE SupFail
  BY <1>1, <1>2, <1>12, PutRowTypes DEF SupFail
<1> QED
  BY <1>3, <1>5, <1>6, <1>7, <1>8, <1>9, <1>10, <1>11, <1>12 DEF Supervise

LEMMA WorkerTypes ==
    ASSUME TypeInv, Fail \/ \E r \in Req : FailCreate(r)
    PROVE  TypeInv'
<1> USE DEF TypeInv, TypeOK, Ready
<1>1. ASSUME UNCHANGED job PROVE \A e \in Exec : ExecutorReady(e)'
  BY <1>1 DEF ExecutorReady
<1>2. worker \in Worker /\ IdleWorker \in Worker
  BY DEF IdleWorker, Worker, RequestState
<1>3. CASE \E r \in Req : FailCreate(r)
  <2>1. PICK r \in Req : FailCreate(r)
    BY <1>3
  <2>2. [IdleWorker EXCEPT !.pc = "submit", !.req = r] \in Worker
    BY DEF IdleWorker, Worker, RequestState
  <2>3. [IdleWorker EXCEPT !.pc = "submit", !.req = r].req = r
    BY DEF IdleWorker
  <2>4. request' \in [Req -> RequestState] /\ based' \in [Req -> Route]
    BY <2>1 DEF FailCreate, RequestState, Row
  <2> QED
    BY <1>1, <2>1, <2>2, <2>3, <2>4 DEF FailCreate, bounds
<1>4. CASE FailSubmit
  <2>1. /\ [worker EXCEPT !.pc = "load"] \in Worker
        /\ [worker EXCEPT !.pc = "load"].req = worker.req
    BY <1>2 DEF Worker
  <2>2. IdleWorker.pc = "idle" /\ submitted' \in [Req -> BOOLEAN]
    BY <1>4 DEF FailSubmit, IdleWorker
  <2> QED
    BY <1>1, <1>2, <1>4, <2>1, <2>2 DEF FailSubmit, bounds
<1>5. CASE FailLoad
  <2>1. worker.req \in Req
    BY <1>5 DEF FailLoad
  <2>2. /\ [worker EXCEPT !.pc = "write", !.seen = request[worker.req]] \in Worker
        /\ [worker EXCEPT !.pc = "write", !.seen = request[worker.req]].req = worker.req
    BY <1>2, <2>1 DEF Worker
  <2>3. IdleWorker.pc = "idle"
    BY DEF IdleWorker
  <2> QED
    BY <1>1, <1>2, <1>5, <2>1, <2>2, <2>3 DEF FailLoad, records, bounds
<1>6. CASE FailWrite
  <2>1. IdleWorker.pc = "idle" /\ request' \in [Req -> RequestState]
    BY <1>6 DEF FailWrite, IdleWorker, RequestState
  <2> QED
    BY <1>1, <1>2, <1>6, <2>1 DEF FailWrite, bounds
<1> QED
  BY <1>3, <1>4, <1>5, <1>6 DEF Fail

LEMMA StartTypes ==
    ASSUME TypeInv, NEW e \in Exec, NEW r \in Req, Start(e, r) \/ StartNew(e, r)
    PROVE  TypeInv'
<1>1. /\ e \in Proc /\ Started(r) \in Job
      /\ Started(r).pc = "check" /\ Started(r).req = r
  BY JobTypes DEF Proc, Started, NoJob
<1>2. job' = [job EXCEPT ![e] = Started(r)]
  BY DEF Start, StartNew
<1>3. job' \in [Proc -> Job]
  BY <1>1, <1>2 DEF TypeInv, TypeOK
<1>4. ASSUME NEW f \in Exec PROVE ExecutorReady(f)'
  BY <1>1, <1>2 DEF ExecutorReady, TypeInv, TypeOK, Ready, Proc
<1>5. request' \in [Req -> RequestState] /\ based' \in [Req -> Route]
  BY DEF Start, StartNew, TypeInv, TypeOK, RequestState, Row
<1> QED
  BY <1>3, <1>4, <1>5 DEF Start, StartNew, TypeInv, TypeOK, Ready, bounds

LEMMA CrashTypes ==
    ASSUME TypeInv, NEW e \in Exec, Crash(e)
    PROVE  TypeInv'
<1>1. e \in Proc /\ "idle" \in Label
  BY DEF Proc, Label
<1>2. Moves(e, "idle")
  BY <1>1, GotoMoves DEF Crash, TypeInv, TypeOK
<1>3. ASSUME NEW f \in Exec PROVE ExecutorReady(f)'
  BY <1>2 DEF Moves, ExecutorReady, TypeInv, Ready, Proc
<1>4. crashes' \in 0 .. MaxCrashes
  BY BoundAssumption DEF Crash, TypeInv, TypeOK
<1> QED
  BY <1>2, <1>3, <1>4 DEF Crash, Moves, TypeInv, TypeOK, Ready, records

LEMMA DeathTypes ==
    ASSUME TypeInv, WindowDies
    PROVE  TypeInv'
<1>1. PICK i \in DOMAIN windows :
        windows' = SubSeq(windows, 1, i - 1) \o SubSeq(windows, i + 1, Len(windows))
  BY DEF WindowDies
<1>2. windows \in Seq(Route) /\ i \in 1 .. Len(windows) /\ Len(windows) \in Nat
      /\ Len(windows) <= MaxWindows
  BY LenProperties DEF TypeInv, TypeOK
<1>3. /\ SubSeq(windows, 1, i - 1) \in Seq(Route)
      /\ Len(SubSeq(windows, 1, i - 1)) = i - 1
  BY <1>2, SubSeqProperties
<1>4. /\ SubSeq(windows, i + 1, Len(windows)) \in Seq(Route)
      /\ Len(SubSeq(windows, i + 1, Len(windows))) = Len(windows) - i
  BY <1>2, SubSeqProperties
<1>5. windows' \in Seq(Route) /\ Len(windows') = Len(windows) - 1
  <2> DEFINE left == SubSeq(windows, 1, i - 1)
             right == SubSeq(windows, i + 1, Len(windows))
  <2>1. left \in Seq(Route) /\ right \in Seq(Route) /\ windows' = left \o right
        /\ Len(left) = i - 1 /\ Len(right) = Len(windows) - i
    BY <1>1, <1>3, <1>4
  <2> HIDE DEF left, right
  <2>2. left \o right \in Seq(Route) /\ Len(left \o right) = Len(left) + Len(right)
    BY <2>1, ConcatProperties
  <2> QED
    BY <1>2, <2>1, <2>2
<1>6. Len(windows') <= MaxWindows /\ deaths' \in 0 .. MaxDeaths
  BY <1>2, <1>5, BoundAssumption DEF WindowDies, TypeInv, TypeOK
<1>7. \A e \in Exec : ExecutorReady(e)'
  BY DEF WindowDies, ExecutorReady, TypeInv, Ready
<1> QED
  BY <1>5, <1>6, <1>7 DEF WindowDies, TypeInv, TypeOK, Ready, records

LEMMA TypeInvInit == Init => TypeInv
<1> SUFFICES ASSUME Init PROVE TypeInv
  OBVIOUS
<1>1. row \in Row /\ NoJob \in Job /\ NoJob.pc = "idle" /\ 0 \in Route
  BY JobTypes, BoundAssumption DEF Init, Route, NoJob
<1>2. windows \in Seq(Route) /\ Len(windows) <= MaxWindows
  BY <1>1, BoundAssumption DEF Init
<1>3. worker \in Worker /\ worker.pc = "idle"
  BY DEF Init, IdleWorker, Worker, RequestState
<1>4. \A e \in Exec : ExecutorReady(e)
  BY <1>1 DEF Init, ExecutorReady, Proc
<1>5. crashes \in 0 .. MaxCrashes /\ deaths \in 0 .. MaxDeaths
  BY BoundAssumption DEF Init
<1> QED
  BY <1>1, <1>2, <1>3, <1>4, <1>5 DEF Init, TypeInv, TypeOK, Ready, RequestState, Phase

LEMMA TypeInvNext == TypeInv /\ [Next]_vars => TypeInv'
<1> SUFFICES ASSUME TypeInv, [Next]_vars PROVE TypeInv'
  OBVIOUS
<1>1. CASE UNCHANGED vars
  <2>1. \A e \in Exec : ExecutorReady(e)'
    BY <1>1 DEF vars, ExecutorReady, TypeInv, Ready
  <2> QED
    BY <1>1, <2>1 DEF vars, records, bounds, TypeInv, TypeOK, Ready
<1> QED
  BY <1>1, ExecuteTypes, SuperviseTypes, WorkerTypes, StartTypes, CrashTypes,
     DeathTypes DEF Next

(***************************************************************************)
(* Every row, record and window of the model is of its type, whatever is   *)
(* interrupted or lost: the receipt a candidate is given is always one of  *)
(* the policy's.                                                           *)
(***************************************************************************)
THEOREM TypeCorrect == Spec => []TypeOK
<1>1. TypeInv => TypeOK
  BY DEF TypeInv
<1> QED
  BY <1>1, TypeInvInit, TypeInvNext, PTL DEF Spec


-----------------------------------------------------------------------------
(***************************************************************************)
(* The safety theorems look at a step from afar: either nobody executes,   *)
(* and then the lock, the transactions and the messages stay and nobody    *)
(* comes to a step past the check; or an executor moves, as follows.       *)
(***************************************************************************)
Quiet ==
    /\ UNCHANGED <<txn, lock, sent>>
    /\ \A e \in Exec : job'[e] = job[e] \/ job'[e].pc \in {"idle", "check"}
    /\ \A r \in Req : request'[r] = request[r] \/ request'[r] \notin Terminal

Marked(r, phase) ==
    MayMark(r, phase) /\ txn' = [txn EXCEPT ![r] = phase]

\* Who enters the critical section takes the free lock; who leaves it gives
\* the lock back.
LockMoves(e) ==
    /\ job'[e].pc \in Critical =>
         \/ job[e].pc \in Critical /\ job[e].pc # "release" /\ lock' = lock
         \/ job[e].pc = "lock" /\ lock = NoReq /\ lock' = job[e].req
    /\ job'[e].pc \notin Critical =>
         \/ lock' = lock
         \/ job[e].pc = "release" /\ lock = job[e].req /\ lock' = NoReq

\* Where the outcome of the transaction is copied to the request.
Copying == {"commit_request", "roll_request", "block_request"}
OutcomeAt(label) ==
    IF label = "commit_request" THEN "committed"
    ELSE IF label = "roll_request" THEN "rolled_back" ELSE "recovery_required"

\* Which record a process wrote to get where it is.
Arrival(e) ==
    LET r == job[e].req  at == job'[e].pc IN
    /\ at \in Copying => Marked(r, OutcomeAt(at))
    /\ at = "verify" /\ ~job'[e].rolling =>
         job[e].pc = "mark_verifying" /\ Marked(r, "verifying")
    /\ at = "send" => job[e].pc = "verify" /\ ~job[e].rolling /\ txn' = txn
    /\ at = "commit" => /\ job[e].pc = "send" /\ txn' = txn
                        /\ sent' = [sent EXCEPT ![r] = @ + 1]
    /\ sent' = sent \/ at = "commit"

TxnMoves(e) ==
    \/ txn' = txn
    \/ job[e].pc = "prepare" /\ Marked(job[e].req, "prepared")
    \/ /\ job[e].pc \in Critical
       /\ \E phase \in Phase \ {"none", "prepared"} : Marked(job[e].req, phase)

\* Only a refused record keeps an executor from committing.
CommitMoves(e) ==
    job[e].pc = "commit" /\ MayMark(job[e].req, "committed") =>
        Marked(job[e].req, "committed") /\ job'[e].pc = "commit_request"

Moved(e) ==
    /\ \A f \in Exec \ {e} : job'[f] = job[f]
    /\ job[e].pc # "idle" /\ job[e].req \in Req
    /\ job'[e].pc # "idle" => job'[e].req = job[e].req
    /\ LockMoves(e) /\ Arrival(e) /\ TxnMoves(e) /\ CommitMoves(e)

\* The steps that write no record and leave lock and messages alone.
LEMMA PlainMoved ==
    ASSUME TypeInv, NEW e \in Exec, NEW l \in Label, Goto(e, l),
           job[e].pc \in Critical \ {"release", "commit"}, UNCHANGED <<lock, txn, sent>>,
           l \in Critical,
           l \notin {"commit_request", "roll_request", "block_request", "commit"},
           l = "verify" => job[e].rolling,
           l = "send" => job[e].pc = "verify" /\ ~job[e].rolling
    PROVE  Moved(e)
<1>1. e \in Proc /\ Moves(e, l)
  BY GotoMoves DEF Proc, TypeInv, TypeOK
<1>2. job[e].pc # "idle" /\ job[e].req \in Req
  BY DEF Critical, Spawning, TypeInv, Ready, ExecutorReady
<1>3. l # "idle"
  BY DEF Critical, Spawning
<1> QED
  BY <1>1, <1>2, <1>3 DEF Moves, Moved, LockMoves, Arrival, Copying,
           OutcomeAt, TxnMoves, CommitMoves, Proc

\* write_transaction_state within the critical section.
LEMMA MarkMoved ==
    ASSUME TypeInv, NEW e \in Exec, NEW label \in Critical \ {"release"},
           NEW phase \in Phase \ {"none", "prepared"},
           NEW next \in Critical, NEW refused \in Critical,
           Mark(e, label, phase, next, refused),
           next \notin {"commit", "send"},
           next = "commit_request" => phase = "committed",
           next = "roll_request" => phase = "rolled_back",
           next = "block_request" => phase = "recovery_required",
           next = "verify" => label = "mark_verifying" /\ phase = "verifying",
           label = "commit" => phase = "committed" /\ next = "commit_request",
           refused \in {"roll_back", "block_row", "release"}
    PROVE  Moved(e)
<1>1. e \in Proc /\ next \in Label /\ refused \in Label
  BY DEF Proc, Label
<1>2. job[e].pc = label /\ job[e].pc # "idle" /\ job[e].req \in Req
  BY DEF Mark, At, Critical, Spawning, TypeInv, Ready, ExecutorReady
<1>3. UNCHANGED <<lock, sent>>
  BY DEF Mark
<1>4. next # "idle" /\ refused # "idle"
  BY DEF Critical, Spawning
<1>5. CASE Marked(job[e].req, phase) /\ Goto(e, next)
  <2>1. Moves(e, next)
    BY <1>1, <1>5, GotoMoves DEF TypeInv, TypeOK
  <2> QED
    BY <1>1, <1>2, <1>3, <1>4, <1>5, <2>1
       DEF Moves, Moved, LockMoves, Arrival, Copying,
           OutcomeAt, TxnMoves, CommitMoves, Proc
<1>6. CASE UNCHANGED txn /\ Goto(e, refused) /\ ~MayMark(job[e].req, phase)
  <2>1. Moves(e, refused)
    BY <1>1, <1>6, GotoMoves DEF TypeInv, TypeOK
  <2> QED
    BY <1>1, <1>2, <1>3, <1>4, <1>6, <2>1
       DEF Moves, Moved, LockMoves, Arrival, Copying,
           OutcomeAt, TxnMoves, CommitMoves, Proc
<1> QED
  BY <1>5, <1>6 DEF Mark, Marked


LEMMA SpawnMoved ==
    ASSUME TypeInv, NEW e \in Exec, Spawn(e)
    PROVE  Moved(e)
<1> USE DEF Label, Critical, Spawning
<1>1. e # "sup"
  BY ProcessAssumption
<1>2. Failed(e) \in {"block_row", "roll_back"}
  BY <1>1 DEF Failed
<1>3. CASE SpawnTarget(e)
  <2>1. PICK l \in {"window", Failed(e)} : Look(e, l)
    BY <1>3 DEF SpawnTarget
  <2> QED
    BY <1>2, <1>3, <2>1, PlainMoved DEF SpawnTarget, Look, At, records
<1>4. CASE SpawnWindow(e)
  <2>1. PICK l \in {"row", Failed(e)} : Goto(e, l)
    BY <1>4 DEF SpawnWindow
  <2> QED
    BY <1>2, <1>4, <2>1, PlainMoved DEF SpawnWindow, At, records
<1>5. CASE SpawnRow(e)
  <2>1. PICK l \in {"record", Failed(e)} : Goto(e, l)
    BY <1>5 DEF SpawnRow
  <2> QED
    BY <1>2, <1>5, <2>1, PlainMoved DEF SpawnRow, At, records
<1>6. CASE SpawnRecord(e)
  <2>1. PICK l \in {"verify", "mark_verifying"} :
          Goto(e, l) /\ (l = "verify" => job[e].rolling)
    BY <1>1, <1>6 DEF SpawnRecord, PutRow
  <2> QED
    BY <1>6, <2>1, PlainMoved DEF SpawnRecord, PutRow, At, records
<1> QED
  BY <1>3, <1>4, <1>5, <1>6 DEF Spawn

LEMMA ExecuteMoved ==
    ASSUME TypeInv, NEW e \in Exec, Execute(e)
    PROVE  Moved(e)
<1> USE DEF Label, Critical, Spawning
<1>1. e \in Proc /\ e # "sup"
  BY ProcessAssumption DEF Proc
<1>2. job[e].pc # "idle" => job[e].req \in Req
  BY DEF TypeInv, Ready, ExecutorReady
<1>3. Failed(e) \in {"block_row", "roll_back"}
  BY <1>1 DEF Failed
<1>4. CASE Check(e)
  <2>1. \A f \in Exec \ {e} : job'[f] = job[f]
    BY <1>1, <1>4 DEF Check, TypeInv, TypeOK
  <2>2. /\ [job[e] EXCEPT !.pc = "prepare", !.held = row].pc = "prepare"
        /\ [job[e] EXCEPT !.pc = "prepare", !.held = row].req = job[e].req
        /\ NoJob.pc = "idle"
    BY <1>1 DEF TypeInv, TypeOK, Job, NoJob
  <2>3. \/ job'[e].pc = "idle"
        \/ job'[e].pc = "prepare" /\ job'[e].req = job[e].req
    BY <1>1, <1>4, <2>2 DEF Check, TypeInv, TypeOK
  <2> QED
    BY <1>2, <1>4, <2>1, <2>3 DEF Check, At, Moved, LockMoves, Arrival, Copying,
           OutcomeAt, TxnMoves, CommitMoves
<1>5. CASE Prepare(e)
  <2>1. PICK l \in {"lock", "idle"} :
          Goto(e, l) /\ (Marked(job[e].req, "prepared") \/ txn' = txn)
    BY <1>5 DEF Prepare, Mark, Marked
  <2>2. Moves(e, l)
    BY <1>1, <2>1, GotoMoves DEF TypeInv, TypeOK
  <2> QED
    BY <1>1, <1>2, <1>5, <2>1, <2>2
       DEF Prepare, Mark, At, Moves, Moved, LockMoves, Arrival, Copying,
           OutcomeAt, TxnMoves, CommitMoves, Proc
<1>6. CASE Lock(e)
  <2>1. PICK l \in {"revalidate", "idle"} : /\ Goto(e, l)
          /\ IF l = "idle" THEN lock' = lock ELSE lock = NoReq /\ lock' = job[e].req
    BY <1>6 DEF Lock
  <2>2. Moves(e, l)
    BY <1>1, <2>1, GotoMoves DEF TypeInv, TypeOK
  <2> QED
    BY <1>1, <1>2, <1>6, <2>1, <2>2
       DEF Lock, At, Moves, Moved, LockMoves, Arrival, Copying,
           OutcomeAt, TxnMoves, CommitMoves, Proc, records
<1>7. CASE Release(e)
  <2>1. Moves(e, "idle")
    BY <1>1, <1>7, GotoMoves DEF Release, TypeInv, TypeOK
  <2> QED
    BY <1>1, <1>2, <1>7, <2>1
       DEF Release, At, Moves, Moved, LockMoves, Arrival, Copying,
           OutcomeAt, TxnMoves, CommitMoves, Proc, records
<1>8. CASE Revalidate(e)
  <2>1. PICK l \in {"stop_row", "release"} : Look(e, l)
    BY <1>8 DEF Revalidate
  <2> QED
    BY <1>8, <2>1, PlainMoved DEF Revalidate, Look, At, records
<1>9. CASE Verify(e)
  <2>1. PICK l \in {"roll_done", "send", Failed(e)} :
          Look(e, l) /\ (l = "send" => ~job[e].rolling)
    BY <1>3, <1>9 DEF Verify
  <2> QED
    BY <1>3, <1>9, <2>1, PlainMoved DEF Verify, Look, At, records
<1>10. CASE StopRow(e)
  BY <1>10, PlainMoved DEF StopRow, PutRow, At, records
<1>11. CASE RollRow(e)
  BY <1>11, PlainMoved DEF RollRow, PutRow, At, records
<1>12. CASE BlockRow(e)
  BY <1>12, PlainMoved DEF BlockRow, PutRow, At, records
<1>13. CASE Kill(e)
  <2>1. PICK l \in {"roll_row", "mark_stopped"} : Goto(e, l)
    BY <1>13 DEF Kill
  <2> QED
    BY <1>13, <2>1, PlainMoved DEF Kill, At, records
<1>14. CASE CommitRequest(e)
  <2>1. PICK l \in {"release", "roll_back"} : Goto(e, l)
    BY <1>14 DEF CommitRequest, MarkRequest
  <2> QED
    BY <1>14, <2>1, PlainMoved DEF CommitRequest, MarkRequest, At
<1>15. CASE RollRequest(e)
  <2>1. PICK l \in {"release", "block_row"} : Goto(e, l)
    BY <1>15 DEF RollRequest, MarkRequest
  <2> QED
    BY <1>15, <2>1, PlainMoved DEF RollRequest, MarkRequest, At
<1>16. CASE BlockRequest(e)
  <2>1. Goto(e, "release")
    BY <1>16 DEF BlockRequest, MarkRequest
  <2> QED
    BY <1>16, <2>1, PlainMoved DEF BlockRequest, MarkRequest, At
<1>17. {"stopped", "resuming", "verifying", "committed", "rolled_back",
        "recovery_required", "rolling_back"} \subseteq Phase \ {"none", "prepared"}
  BY DEF Phase, Forward, Terminal
<1>18. CASE MarkStopped(e)
  BY <1>17, <1>18, MarkMoved DEF MarkStopped
<1>19. CASE MarkResuming(e)
  BY <1>17, <1>19, MarkMoved DEF MarkResuming
<1>20. CASE MarkVerifying(e)
  BY <1>17, <1>20, MarkMoved DEF MarkVerifying
<1>21. CASE Commit(e)
  BY <1>17, <1>21, MarkMoved DEF Commit
<1>22. CASE RollDone(e)
  BY <1>17, <1>22, MarkMoved DEF RollDone
<1>23. CASE BlockDone(e)
  BY <1>17, <1>23, MarkMoved DEF BlockDone
<1>24. CASE Spawn(e)
  BY <1>24, SpawnMoved
<1>25. CASE SendContinuation(e)
  <2>1. PICK l \in {"commit", "roll_back"} :
          /\ Goto(e, l)
          /\ IF l = "commit" THEN sent' = [sent EXCEPT ![job[e].req] = @ + 1]
                             ELSE sent' = sent
    BY <1>25 DEF SendContinuation
  <2>2. Moves(e, l)
    BY <1>1, <2>1, GotoMoves DEF TypeInv, TypeOK
  <2> QED
    BY <1>1, <1>2, <1>25, <2>1, <2>2
       DEF SendContinuation, At, Moves, Moved, LockMoves, Arrival, Copying,
           OutcomeAt, TxnMoves, CommitMoves, Proc, records
<1>26. CASE RollBack(e)
  <2>1. /\ job[e].req \in Req /\ job[e].pc = "roll_back" /\ job[e] \in Job
    BY <1>1, <1>2, <1>26 DEF RollBack, At, TypeInv, TypeOK
  <2>2. CASE Goto(e, "release") /\ UNCHANGED txn
    BY <1>26, <2>1, <2>2, PlainMoved DEF RollBack
  <2>3. CASE /\ Marked(job[e].req, "rolling_back")
             /\ job' = [job EXCEPT ![e].pc = "kill", ![e].rolling = TRUE]
    <3>1. job' = [job EXCEPT ![e] = [job[e] EXCEPT !.pc = "kill", !.rolling = TRUE]]
      BY <1>1, <2>1, <2>3 DEF TypeInv, TypeOK
    <3>2. /\ [job[e] EXCEPT !.pc = "kill", !.rolling = TRUE].pc = "kill"
          /\ [job[e] EXCEPT !.pc = "kill", !.rolling = TRUE].req = job[e].req
      BY <2>1 DEF Job
    <3>3. /\ job'[e].pc = "kill" /\ job'[e].req = job[e].req
          /\ \A f \in Exec \ {e} : job'[f] = job[f]
      BY <1>1, <3>1, <3>2 DEF TypeInv, TypeOK
    <3> QED
      BY <1>17, <1>26, <2>1, <2>3, <3>3 DEF RollBack, Moved, LockMoves, Arrival, Copying,
           OutcomeAt, TxnMoves, CommitMoves
  <2> QED
    BY <1>26, <2>2, <2>3 DEF RollBack, Marked
<1> QED
  BY <1>4, <1>5, <1>6, <1>7, <1>8, <1>9, <1>10, <1>11, <1>12, <1>13, <1>14, <1>15,
     <1>16, <1>18, <1>19, <1>20, <1>21, <1>22, <1>23, <1>24, <1>25, <1>26 DEF Execute


LEMMA StepKinds ==
    ASSUME TypeInv, [Next]_vars
    PROVE  Quiet \/ \E e \in Exec : Execute(e) /\ Moved(e)
<1>1. "sup" \in Proc /\ "sup" \notin Exec /\ job \in [Proc -> Job]
  BY ProcessAssumption DEF Proc, TypeInv, TypeOK
<1>2. ASSUME NEW l \in Label, Goto("sup", l)
      PROVE  \A e \in Exec : job'[e] = job[e]
  BY <1>1, <1>2, GotoMoves DEF Moves, Proc
<1>3. ASSUME NEW e \in Exec, NEW r \in Req, Start(e, r) \/ StartNew(e, r)
      PROVE  Quiet
  <2>1. job' = [job EXCEPT ![e] = Started(r)] /\ Started(r).pc = "check"
    BY <1>3 DEF Start, StartNew, Started, NoJob
  <2>2. \A f \in Exec : job'[f] = job[f] \/ job'[f].pc = "check"
    BY <1>1, <2>1 DEF Proc
  <2> QED
    BY <1>3, <2>2 DEF Quiet, Start, StartNew, Terminal, TypeInv, TypeOK
<1>4. ASSUME NEW e \in Exec, Crash(e) PROVE Quiet
  <2>1. Moves(e, "idle")
    BY <1>1, <1>4, GotoMoves DEF Crash, Proc, Label
  <2> QED
    BY <1>4, <2>1 DEF Moves, Crash, Quiet, Proc, records
<1>5. CASE Fail \/ \E r \in Req : FailCreate(r)
  BY <1>5 DEF Fail, FailSubmit, FailLoad, FailWrite, FailCreate, Quiet, Terminal,
              records, TypeInv, TypeOK
<1>6. CASE Supervise
  <2>1. ASSUME NEW l \in Label, Goto("sup", l), UNCHANGED <<records, lock, sent>>
        PROVE  Quiet
    BY <1>2, <2>1 DEF Quiet, records
  <2>2. CASE SupTurn
    BY <2>1, <2>2 DEF SupTurn, Look, Label
  <2>3. CASE SupRead \/ SupLoad
    BY <1>1, <2>3 DEF SupRead, SupLoad, Quiet, records, Proc
  <2>4. CASE SupDecide
    BY <2>1, <2>4 DEF SupDecide, Look, PutRow, Label
  <2>5. CASE SupMark
    BY <2>1, <2>5 DEF SupMark, PutRow, Label, Critical, Spawning
  <2>6. CASE Spawn("sup")
    <3>1. Failed("sup") = "restore"
      BY DEF Failed
    <3>2. PICK l \in {"window", "row", "record", "found", "restore"} : Goto("sup", l)
      BY <2>6, <3>1 DEF Spawn, SpawnTarget, SpawnWindow, SpawnRow, SpawnRecord, Look, PutRow
    <3> QED
      BY <2>1, <2>6, <3>2
         DEF Spawn, SpawnTarget, SpawnWindow, SpawnRow, SpawnRecord, Look, PutRow,
             Label, Critical, Spawning
  <2>7. CASE SupFound
    BY <2>1, <2>7 DEF SupFound, Look, Label
  <2>8. CASE SupRestore
    BY <2>1, <2>8 DEF SupRestore, PutRow, Label
  <2>9. CASE SupFail
    BY <2>1, <2>9 DEF SupFail, PutRow, Label
  <2> QED
    BY <1>6, <2>2, <2>3, <2>4, <2>5, <2>6, <2>7, <2>8, <2>9 DEF Supervise
<1>7. CASE WindowDies \/ UNCHANGED vars
  BY <1>7 DEF WindowDies, vars, records, Quiet
<1> QED
  BY <1>3, <1>4, <1>5, <1>6, <1>7, ExecuteMoved DEF Next

(***************************************************************************)
(* One escalation at a time: whoever is in the critical section created    *)
(* the lock file, which nobody else removes.                               *)
(***************************************************************************)
Inside(e) == job[e].pc \in Critical

Mutex ==
    /\ \A e \in Exec : Inside(e) => lock = job[e].req
    /\ \A e, f \in Exec : Inside(e) /\ Inside(f) => e = f

LEMMA MutexNext == TypeInv /\ Mutex /\ [Next]_vars => Mutex'
<1> SUFFICES ASSUME TypeInv, Mutex, [Next]_vars PROVE Mutex'
  OBVIOUS
<1>1. CASE Quiet
  <2>1. \A e \in Exec : Inside(e)' => Inside(e) /\ job'[e] = job[e]
    BY <1>1 DEF Quiet, Inside, Critical, Spawning
  <2> QED
    BY <1>1, <2>1 DEF Mutex, Quiet
<1>2. ASSUME NEW e \in Exec, Moved(e) PROVE Mutex'
  <2>1. /\ \A f \in Exec \ {e} : job'[f] = job[f] /\ (Inside(f)' <=> Inside(f))
        /\ job[e].req \in Req /\ LockMoves(e)
    BY <1>2 DEF Moved, Inside
  <2>2. CASE Inside(e)'
    <3>1. job'[e].req = job[e].req /\ job'[e].pc # "idle"
      BY <1>2, <2>2 DEF Moved, Inside, Critical, Spawning
    <3>2. CASE Inside(e) /\ lock' = lock
      <4>1. \A f \in Exec : Inside(f)' => f = e
        BY <2>1, <3>2 DEF Mutex
      <4> QED
        BY <3>1, <3>2, <4>1 DEF Mutex
    <3>3. CASE lock = NoReq /\ lock' = job[e].req
      <4>1. ASSUME NEW f \in Exec \ {e} PROVE ~Inside(f)
        <5>1. Inside(f) => job[f].req \in Req
          BY DEF Inside, Critical, Spawning, TypeInv, Ready, ExecutorReady
        <5> QED
          BY <3>3, <5>1, RequestAssumption DEF Mutex
      <4>2. \A f \in Exec : Inside(f)' => f = e
        BY <2>1, <4>1
      <4> QED
        BY <3>1, <3>3, <4>2 DEF Mutex
    <3> QED
      BY <2>1, <2>2, <3>2, <3>3 DEF LockMoves, Inside
  <2>3. CASE ~Inside(e)'
    <3>1. \A f \in Exec : Inside(f)' => f # e /\ Inside(f) /\ job'[f] = job[f]
      BY <2>1, <2>3
    <3>2. CASE lock' = lock
      BY <3>1, <3>2 DEF Mutex
    <3>3. CASE Inside(e)
      BY <3>1, <3>3 DEF Mutex
    <3> QED
      BY <2>1, <2>3, <3>2, <3>3 DEF LockMoves, Inside, Critical
  <2> QED
    BY <2>2, <2>3
<1> QED
  BY <1>1, <1>2, StepKinds

(***************************************************************************)
(* At most one process is between its lock and its release, and the lock   *)
(* names its request, whatever was killed before and however many          *)
(* processes execute the same request.                                     *)
(***************************************************************************)
THEOREM OneAtATimeAlways == Spec => []OneAtATime
<1>1. Init => Mutex
  BY DEF Init, Mutex, Inside, NoJob, Critical, Spawning, Proc
<1>2. Mutex => OneAtATime
  <2> SUFFICES ASSUME Mutex PROVE OneAtATime
    OBVIOUS
  <2> DEFINE S == {e \in Exec : job[e].pc \in Critical}
  <2>1. S = {} \/ \E e : S = {e}
    <3>1. \A e, f \in S : e = f
      BY DEF Mutex, Inside
    <3> QED
      BY <3>1
  <2>2. Cardinality({}) = 0 /\ \A e : Cardinality({e}) = 1
    BY FS_EmptySet, FS_Singleton
  <2>3. Cardinality(S) <= 1
    <3> HIDE DEF S
    <3>1. Cardinality(S) = 0 \/ Cardinality(S) = 1
      BY <2>1, <2>2, Zenon
    <3> QED
      BY <3>1
  <2> QED
    BY <2>3 DEF OneAtATime, Mutex, Inside
<1> QED
  BY <1>1, <1>2, TypeInvInit, TypeInvNext, MutexNext, PTL DEF Spec


-----------------------------------------------------------------------------
(***************************************************************************)
(* The request file against the transaction file.  A transaction that has  *)
(* ended stays as it is; a process about to copy an outcome has written it *)
(* to the transaction before.                                              *)
(***************************************************************************)
LEMMA EndedStays ==
    ASSUME TypeInv, NEW r \in Req, NEW q \in Req, NEW phase, Marked(q, phase),
           txn[r] \in Terminal
    PROVE  txn'[r] = txn[r]
BY DEF Marked, MayMark, TransactionTransitions, Forward, Terminal, TypeInv, TypeOK

Copied ==
    /\ \A r \in Req : request[r] \in Terminal => txn[r] = request[r]
    /\ \A e \in Exec : job[e].pc \in Copying => txn[job[e].req] = OutcomeAt(job[e].pc)

\* What an executor may write to a request.
RequestMoves(e) ==
    LET r == job[e].req IN
    \/ request' = request
    \/ txn' = txn /\ txn[r] \in Terminal /\ request' = [request EXCEPT ![r] = txn[r]]
    \/ /\ txn' = txn /\ job[e].pc \in Copying
       /\ request' = [request EXCEPT ![r] = OutcomeAt(job[e].pc)]

LEMMA ExecuteRequest ==
    ASSUME NEW e \in Exec, Execute(e)
    PROVE  RequestMoves(e)
<1>1. e # "sup"
  BY ProcessAssumption
<1>2. CASE Check(e)
  <2>1. UNCHANGED txn
    BY <1>2 DEF Check
  <2> QED
    BY <1>2, <2>1 DEF Check, RequestMoves
<1>3. CASE CommitRequest(e) \/ RollRequest(e) \/ BlockRequest(e)
  BY <1>3 DEF CommitRequest, RollRequest, BlockRequest, MarkRequest, At,
              RequestMoves, Copying, OutcomeAt
<1>4. CASE \/ Prepare(e) \/ MarkStopped(e) \/ MarkResuming(e) \/ MarkVerifying(e)
           \/ Commit(e) \/ RollDone(e) \/ BlockDone(e)
  BY <1>4 DEF Prepare, MarkStopped, MarkResuming, MarkVerifying, Commit, RollDone,
              BlockDone, Mark, RequestMoves
<1>5. CASE Spawn(e)
  BY <1>5 DEF Spawn, SpawnTarget, SpawnWindow, SpawnRow, SpawnRecord, Look, PutRow,
              records, RequestMoves
<1>6. CASE \/ Lock(e) \/ Revalidate(e) \/ StopRow(e) \/ Kill(e) \/ Verify(e)
           \/ SendContinuation(e) \/ RollBack(e) \/ RollRow(e) \/ BlockRow(e)
           \/ Release(e)
  BY <1>6 DEF Lock, Revalidate, StopRow, Kill, Verify, SendContinuation, RollBack,
              RollRow, BlockRow, Release, Look, PutRow, records, RequestMoves
<1> QED
  BY <1>2, <1>3, <1>4, <1>5, <1>6 DEF Execute

LEMMA CopiedNext == TypeInv /\ Copied /\ [Next]_vars => Copied'
<1> SUFFICES ASSUME TypeInv, Copied, [Next]_vars PROVE Copied'
  OBVIOUS
<1>1. CASE Quiet
  <2>1. \A e \in Exec : job'[e].pc \in Copying => job'[e] = job[e]
    BY <1>1 DEF Quiet, Copying
  <2> QED
    BY <1>1, <2>1 DEF Quiet, Copied
<1>2. ASSUME NEW e \in Exec, Moved(e), RequestMoves(e) PROVE Copied'
  <2>1. job[e].req \in Req /\ request \in [Req -> RequestState]
    BY <1>2 DEF Moved, TypeInv, TypeOK
  <2>2. \A r \in Req : txn[r] \in Terminal => txn'[r] = txn[r]
    <3>1. TxnMoves(e)
      BY <1>2 DEF Moved
    <3> QED
      BY <2>1, <3>1, EndedStays DEF TxnMoves
  <2>3. ASSUME NEW r \in Req, request'[r] \in Terminal PROVE txn'[r] = request'[r]
    <3>1. CASE request'[r] = request[r]
      BY <2>2, <2>3, <3>1 DEF Copied
    <3>2. CASE request'[r] # request[r]
      BY <1>2, <2>1, <3>2 DEF RequestMoves, Copied
    <3> QED
      BY <3>1, <3>2
  <2>4. ASSUME NEW f \in Exec, job'[f].pc \in Copying
        PROVE  txn'[job'[f].req] = OutcomeAt(job'[f].pc)
    <3>1. CASE f = e
      <4>1. job'[e].req = job[e].req /\ Marked(job[e].req, OutcomeAt(job'[e].pc))
        BY <1>2, <2>4, <3>1 DEF Moved, Arrival, Copying
      <4> QED
        BY <2>1, <3>1, <4>1 DEF Marked, TypeInv, TypeOK
    <3>2. CASE f # e
      <4>1. job'[f] = job[f] /\ job[f].req \in Req
        BY <1>2, <2>4, <3>2 DEF Moved, Copying, TypeInv, Ready, ExecutorReady
      <4>2. txn[job[f].req] = OutcomeAt(job[f].pc) /\ txn[job[f].req] \in Terminal
        BY <2>4, <4>1 DEF Copied, OutcomeAt, Terminal
      <4> QED
        BY <2>2, <4>1, <4>2
    <3> QED
      BY <3>1, <3>2
  <2> QED
    BY <2>3, <2>4 DEF Copied
<1> QED
  BY <1>1, <1>2, StepKinds, ExecuteRequest

(***************************************************************************)
(* A request file that names an outcome names the one its transaction has, *)
(* also after a replay, a crash between the two writes, and the worker's   *)
(* own late write of "queued".                                             *)
(***************************************************************************)
THEOREM RequestMatchesAlways == Spec => []RequestMatchesTransaction
<1>1. Init => Copied
  BY DEF Init, Copied, Terminal, Copying, NoJob, Proc
<1>2. Copied => RequestMatchesTransaction
  BY DEF Copied, RequestMatchesTransaction
<1> QED
  BY <1>1, <1>2, TypeInvInit, TypeInvNext, CopiedNext, PTL DEF Spec

(***************************************************************************)
(* The lock and the records together, for any executors and requests.      *)
(***************************************************************************)
THEOREM LockedAndRecordedAlways == Spec => []LockedAndRecorded
<1>1. OneAtATime /\ RequestMatchesTransaction => LockedAndRecorded
  BY DEF LockedAndRecorded
<1> QED
  BY <1>1, OneAtATimeAlways, RequestMatchesAlways, PTL


-----------------------------------------------------------------------------
(***************************************************************************)
(* Continuation messages.  A message is sent from "verifying" and before   *)
(* the transaction can leave it; should its sender be killed there, the    *)
(* lock that is left behind keeps every other executor out.                *)
(***************************************************************************)
Sending(e) == job[e].pc = "send" \/ (job[e].pc = "verify" /\ ~job[e].rolling)

Messages ==
    /\ \A r \in Req :
         /\ sent[r] \in {0, 1}
         /\ sent[r] = 1 => txn[r] \in {"verifying", "committed"}
         /\ sent[r] = 1 /\ txn[r] = "verifying" =>
              /\ lock = r
              /\ \A e \in Exec : Inside(e) => job[e].pc = "commit"
    /\ \A e \in Exec :
         /\ Sending(e) => txn[job[e].req] = "verifying" /\ sent[job[e].req] = 0
         /\ job[e].pc = "commit" => txn[job[e].req] = "verifying"

LEMMA VerifyingStays ==
    ASSUME TypeInv, NEW e \in Exec, TxnMoves(e), NEW r \in Req, txn[r] = "verifying",
           job[e].req \in Req, Inside(e) => job[e].req # r
    PROVE  txn'[r] = "verifying"
<1>1. CASE job[e].req # r
  BY <1>1 DEF TxnMoves, Marked, TypeInv, TypeOK
<1>2. CASE job[e].req = r /\ job[e].pc = "prepare" /\ Marked(r, "prepared")
  BY <1>2 DEF Marked, MayMark, TransactionTransitions, Forward, Terminal
<1> QED
  BY <1>1, <1>2 DEF TxnMoves, Inside

LEMMA MovedMessages ==
    ASSUME TypeInv, Mutex, Messages, NEW e \in Exec, Moved(e)
    PROVE  Messages'
<1> DEFINE r0 == job[e].req
<1>1. /\ r0 \in Req /\ LockMoves(e) /\ Arrival(e) /\ TxnMoves(e) /\ CommitMoves(e)
      /\ \A f \in Exec \ {e} : job'[f] = job[f]
      /\ txn \in [Req -> Phase] /\ sent \in [Req -> Nat]
  BY DEF Moved, TypeInv, TypeOK
<1>2. Sending(e) \/ job[e].pc = "commit" => Inside(e)
  BY DEF Sending, Inside, Critical, Spawning
<1>3. ASSUME NEW r \in Req, sent'[r] # sent[r]
      PROVE  /\ r = r0 /\ job[e].pc = "send" /\ sent'[r] = 1 /\ txn' = txn
             /\ txn[r] = "verifying" /\ job'[e].pc = "commit"
  <2>1. job'[e].pc = "commit" /\ sent' = [sent EXCEPT ![r0] = @ + 1]
        /\ job[e].pc = "send" /\ txn' = txn
    BY <1>1, <1>3 DEF Arrival
  <2>2. r = r0
    BY <1>1, <1>3, <2>1
  <2> QED
    BY <1>1, <2>1, <2>2 DEF Messages, Sending
<1>4. ASSUME NEW r \in Req
      PROVE  /\ sent'[r] \in {0, 1}
             /\ sent'[r] = 1 => txn'[r] \in {"verifying", "committed"}
             /\ sent'[r] = 1 /\ txn'[r] = "verifying" =>
                  lock' = r /\ \A f \in Exec : Inside(f)' => job'[f].pc = "commit"
  <2>1. CASE sent'[r] # sent[r]
    <3>1. Inside(e) /\ lock = r /\ lock' = lock
      BY <1>1, <1>2, <1>3, <2>1 DEF Mutex, LockMoves, Sending, Critical
    <3>2. \A f \in Exec \ {e} : ~Inside(f)'
      BY <1>1, <3>1 DEF Mutex, Inside
    <3> QED
      BY <1>3, <2>1, <3>1, <3>2
  <2>2. CASE sent'[r] = sent[r] /\ sent[r] = 0
    BY <2>2
  <2>3. CASE sent'[r] = sent[r] /\ sent[r] = 1 /\ txn[r] = "committed"
    <3>1. txn'[r] = "committed"
      BY <1>1, <2>3, EndedStays DEF TxnMoves, Terminal
    <3> QED
      BY <2>3, <3>1
  <2>4. CASE sent'[r] = sent[r] /\ sent[r] = 1 /\ txn[r] = "verifying"
    <3>1. lock = r /\ r # NoReq /\ \A f \in Exec : Inside(f) => job[f].pc = "commit"
      BY <2>4, RequestAssumption DEF Messages
    <3>2. CASE Inside(e)
      <4>1. job[e].pc = "commit" /\ r0 = r
        BY <3>1, <3>2 DEF Mutex
      <4>2. MayMark(r, "committed")
        BY <2>4 DEF MayMark, TransactionTransitions
      <4>3. txn'[r] = "committed"
        BY <1>1, <4>1, <4>2 DEF CommitMoves, Marked
      <4> QED
        BY <2>4, <4>3
    <3>3. CASE ~Inside(e)
      <4>1. txn'[r] = "verifying"
        BY <1>1, <2>4, <3>3, VerifyingStays
      <4>2. lock' = lock /\ ~Inside(e)'
        BY <1>1, <3>1, <3>3 DEF LockMoves, Inside, Critical
      <4>3. \A f \in Exec : Inside(f)' => job'[f].pc = "commit"
        BY <1>1, <3>1, <4>2 DEF Inside
      <4> QED
        BY <2>4, <3>1, <4>1, <4>2, <4>3
    <3> QED
      BY <3>2, <3>3
  <2> QED
    BY <2>1, <2>2, <2>3, <2>4 DEF Messages
<1>5. ASSUME NEW f \in Exec
      PROVE  /\ Sending(f)' => txn'[job'[f].req] = "verifying" /\ sent'[job'[f].req] = 0
             /\ job'[f].pc = "commit" => txn'[job'[f].req] = "verifying"
  <2>1. CASE f = e /\ (Sending(e)' \/ job'[e].pc = "commit")
    <3>1. job'[e].req = r0
      BY <2>1 DEF Moved, Sending
    <3>2. CASE job'[e].pc = "commit"
      BY <1>1, <2>1, <3>1, <3>2 DEF Arrival, Messages, Sending
    <3>3. CASE job'[e].pc = "send"
      BY <1>1, <2>1, <3>1, <3>3 DEF Arrival, Messages, Sending
    <3>4. CASE job'[e].pc = "verify" /\ ~job'[e].rolling
      <4>1. job[e].pc = "mark_verifying" /\ Marked(r0, "verifying") /\ sent' = sent
        BY <1>1, <3>4 DEF Arrival
      <4>2. Inside(e)
        BY <4>1 DEF Inside, Critical
      <4>3. txn'[r0] = "verifying"
        BY <1>1, <4>1 DEF Marked
      <4>4. txn[r0] # "committed"
        BY <4>1 DEF Marked, MayMark, TransactionTransitions, Forward, Terminal
      <4>5. sent[r0] = 0
        BY <1>1, <4>1, <4>2, <4>4 DEF Messages
      <4> QED
        BY <2>1, <3>1, <3>4, <4>1, <4>3, <4>5
    <3> QED
      BY <2>1, <3>2, <3>3, <3>4 DEF Sending
  <2>2. CASE f # e /\ (Sending(f)' \/ job'[f].pc = "commit")
    <3>1. job'[f] = job[f] /\ (Sending(f) \/ job[f].pc = "commit")
      BY <1>1, <2>2 DEF Sending
    <3>2. Inside(f) /\ ~Inside(e) /\ job[f].req \in Req
      BY <2>2, <3>1 DEF Sending, Inside, Critical, Spawning, Mutex, TypeInv, Ready,
                        ExecutorReady
    <3>3. txn[job[f].req] = "verifying"
      BY <3>1 DEF Messages
    <3>4. txn'[job[f].req] = "verifying"
      BY <1>1, <3>2, <3>3, VerifyingStays
    <3>5. sent'[job[f].req] = sent[job[f].req]
      BY <1>3, <3>2 DEF Inside, Critical
    <3> QED
      BY <3>1, <3>4, <3>5 DEF Messages, Sending
  <2> QED
    BY <2>1, <2>2
<1> QED
  BY <1>4, <1>5 DEF Messages

LEMMA MessagesNext == TypeInv /\ Mutex /\ Messages /\ [Next]_vars => Messages'
<1> SUFFICES ASSUME TypeInv, Mutex, Messages, [Next]_vars PROVE Messages'
  OBVIOUS
<1>1. CASE Quiet
  <2>1. \A e \in Exec : Inside(e)' => job'[e] = job[e]
    BY <1>1 DEF Quiet, Inside, Critical, Spawning
  <2>2. \A e \in Exec : Sending(e)' \/ job'[e].pc = "commit" => Inside(e)'
    BY DEF Sending, Inside, Critical
  <2> QED
    BY <1>1, <2>1, <2>2 DEF Quiet, Messages, Inside, Sending
<1> QED
  BY <1>1, StepKinds, MovedMessages

(***************************************************************************)
(* However often a request is executed, replayed or crashed, the worker    *)
(* gets at most one continuation message for it, and none for one that was *)
(* rolled back.                                                            *)
(***************************************************************************)
THEOREM OneContinuationAlways == Spec => []OneContinuation
<1>1. Init => Mutex /\ Messages
  BY DEF Init, Mutex, Messages, Inside, Sending, NoJob, Critical, Spawning, Proc
<1>2. Messages => OneContinuation
  BY DEF Messages, OneContinuation
<1> QED
  BY <1>1, <1>2, TypeInvInit, TypeInvNext, MutexNext, MessagesNext, PTL DEF Spec

-----------------------------------------------------------------------------
(***************************************************************************)
(* The window that is left.  From the moment an executor has opened its    *)
(* window until it reports an outcome, the window tmux finds, if any, is   *)
(* that one: the supervisor may still open a second one, and then tmux     *)
(* finds none of the two, but with no window left it has no turn under way *)
(* that could open one.  All this until a window dies by itself.           *)
(***************************************************************************)
Opened == {"row", "record", "mark_verifying", "verify", "send", "commit", "roll_done"}
BeforeWindow == {"read", "decide", "load", "mark", "target", "window"}

OwnWindow ==
    deaths = 0 =>
        \A e \in Exec : job[e].pc \in Opened =>
            /\ Found => windows = <<Wanted(e)>>
            /\ windows = <<>> => job["sup"].pc \notin BeforeWindow

\* An executor holds the row its request was made for, and knows its direction.
HoldsBase ==
    \A e \in Exec :
        /\ job[e].pc # "idle" => request[job[e].req] # "none"
        /\ job[e].pc \notin {"idle", "check"} => job[e].held.route = based[job[e].req]
        /\ job[e].pc \in {"send", "commit"} => ~job[e].rolling
        /\ job[e].pc = "roll_done" => job[e].rolling

\* What a step of an executor does to its job, to the windows and to the
\* outcome of its transaction.
WindowMoves(e) ==
    /\ windows' = windows \/ Inside(e)
    /\ job'[e].pc \in Opened =>
         \/ job[e].pc \in Opened /\ windows' = windows
         \/ job[e].pc = "window" /\ windows' = <<Wanted(e)>>
Outcomes(e) ==
    \A r \in Req : txn'[r] # txn[r] =>
        /\ r = job[e].req
        /\ txn'[r] = "committed" => job[e].pc = "commit"
        /\ txn'[r] = "rolled_back" => job[e].pc = "roll_done"
HeldMoves(e) ==
    LET j == job[e]  k == job'[e] IN
    k.pc # "idle" =>
        /\ k.pc # "check" /\ k.req = j.req
        /\ \/ j.pc = "check" /\ k.pc = "prepare" /\ k.held.route = based[j.req]
           \/ j.pc \notin {"idle", "check"} /\ k.held = j.held
        /\ k.pc \in Opened => k.rolling = j.rolling
        /\ k.pc = "send" => ~k.rolling
        /\ k.pc = "commit" => j.pc = "send"
        /\ k.pc = "roll_done" => k.rolling
Runs(e) ==
    /\ \A q \in Proc \ {e} : job'[q] = job[q]
    /\ UNCHANGED <<based, deaths>>
    /\ \A r \in Req : request[r] # "none" => request'[r] # "none"
    /\ job[e].pc # "idle" /\ job[e].req \in Req
    /\ WindowMoves(e) /\ Outcomes(e) /\ HeldMoves(e)

LEMMA GotoRuns ==
    ASSUME TypeInv, NEW e \in Exec, NEW l \in Label \ {"check"}, Goto(e, l),
           job[e].pc \notin {"idle", "check"}, UNCHANGED <<based, deaths>>,
           \A r \in Req : request[r] # "none" => request'[r] # "none",
           windows' = windows \/ Inside(e),
           l \in Opened => \/ job[e].pc \in Opened /\ windows' = windows
                           \/ job[e].pc = "window" /\ windows' = <<Wanted(e)>>,
           Outcomes(e),
           l = "send" => ~job[e].rolling, l = "commit" => job[e].pc = "send",
           l = "roll_done" => job[e].rolling
    PROVE  Runs(e)
<1>1. e \in Proc /\ Moves(e, l)
  BY GotoMoves DEF Proc, TypeInv, TypeOK
<1>2. job[e].req \in Req
  BY DEF TypeInv, Ready, ExecutorReady
<1> QED
  BY <1>1, <1>2 DEF Moves, Runs, WindowMoves, HeldMoves

\* Steps that leave windows and transactions alone.
LEMMA PlainRuns ==
    ASSUME TypeInv, NEW e \in Exec, NEW l \in Label \ {"check"}, Goto(e, l),
           job[e].pc \notin {"idle", "check"}, UNCHANGED <<based, deaths, windows, txn>>,
           \A r \in Req : request[r] # "none" => request'[r] # "none",
           l \in Opened => job[e].pc \in Opened,
           l = "send" => ~job[e].rolling, l = "commit" => job[e].pc = "send",
           l = "roll_done" => job[e].rolling
    PROVE  Runs(e)
<1>1. Outcomes(e)
  BY DEF Outcomes
<1> QED
  BY <1>1, GotoRuns

LEMMA MarkRuns ==
    ASSUME TypeInv, NEW e \in Exec, NEW label, NEW phase,
           NEW next \in Label \ {"check", "send", "commit", "roll_done"},
           NEW refused \in Label \ {"check", "send", "commit", "roll_done"},
           label \notin {"idle", "check"}, Mark(e, label, phase, next, refused),
           {next, refused} \cap Opened # {} => label \in Opened,
           phase = "committed" => label = "commit",
           phase = "rolled_back" => label = "roll_done"
    PROVE  Runs(e)
<1>1. /\ job[e].pc = label /\ UNCHANGED <<based, deaths, windows, request>>
      /\ Goto(e, next) \/ Goto(e, refused)
      /\ txn' = txn \/ txn' = [txn EXCEPT ![job[e].req] = phase]
  BY DEF Mark, At, bounds
<1>2. Outcomes(e)
  BY <1>1 DEF Outcomes, TypeInv, TypeOK
<1>3. ASSUME NEW l \in {next, refused}, Goto(e, l) PROVE Runs(e)
  <2>1. l \in Label \ {"check", "send", "commit", "roll_done"}
    OBVIOUS
  <2>2. l \in Opened => job[e].pc \in Opened
    BY <1>1
  <2> QED
    BY <1>1, <1>2, <1>3, <2>1, <2>2, GotoRuns
<1> QED
  BY <1>1, <1>3

LEMMA MarkRequestRuns ==
    ASSUME TypeInv, NEW e \in Exec, NEW label, NEW state \in Terminal,
           NEW next \in {"release", "roll_back", "block_row"},
           NEW refused \in {"release", "roll_back", "block_row"},
           label \notin {"idle", "check"}, MarkRequest(e, label, state, next, refused)
    PROVE  Runs(e)
<1>1. /\ job[e].pc = label /\ UNCHANGED <<based, deaths, windows, txn>>
      /\ Goto(e, next) \/ Goto(e, refused)
      /\ request' = request \/ request' = [request EXCEPT ![job[e].req] = state]
  BY DEF MarkRequest, At, bounds
<1>2. \A r \in Req : request[r] # "none" => request'[r] # "none"
  BY <1>1 DEF Terminal, TypeInv, TypeOK
<1> QED
  BY <1>1, <1>2, PlainRuns DEF Opened, Label, Critical, Spawning

LEMMA SpawnRuns ==
    ASSUME TypeInv, NEW e \in Exec, Spawn(e)
    PROVE  Runs(e)
<1> USE DEF Label, Critical, Spawning
<1>1. e # "sup" /\ Failed(e) \in {"block_row", "roll_back"}
  BY ProcessAssumption DEF Failed
<1>2. CASE SpawnTarget(e)
  <2>1. PICK l \in {"window", Failed(e)} : Look(e, l)
    BY <1>2 DEF SpawnTarget
  <2> QED
    BY <1>1, <1>2, <2>1, PlainRuns DEF SpawnTarget, Look, At, records, bounds, Opened
<1>3. CASE SpawnWindow(e)
  <2>1. PICK l \in {"row", Failed(e)} : Goto(e, l) /\ (l = "row" => windows = <<>>)
    BY <1>1, <1>3 DEF SpawnWindow
  <2>2. windows = <<>> => windows' = <<Wanted(e)>>
    <3>1. Len(<<>>) < MaxWindows /\ Append(<<>>, Wanted(e)) = <<Wanted(e)>>
      BY BoundAssumption
    <3> QED
      BY <1>3, <3>1 DEF SpawnWindow
  <2>3. Outcomes(e)
    BY <1>3 DEF SpawnWindow, records, Outcomes
  <2>4. job[e].pc = "window" /\ Inside(e) /\ UNCHANGED <<based, deaths, request>>
    BY <1>3 DEF SpawnWindow, At, Inside, records, bounds
  <2> QED
    BY <1>1, <2>1, <2>2, <2>3, <2>4, GotoRuns DEF Opened
<1>4. CASE SpawnRow(e)
  <2>1. PICK l \in {"record", Failed(e)} : Goto(e, l) /\ (l = "record" => windows' = windows)
    BY <1>1, <1>4 DEF SpawnRow
  <2>2. Outcomes(e)
    BY <1>4 DEF SpawnRow, records, Outcomes
  <2>3. job[e].pc = "row" /\ Inside(e) /\ UNCHANGED <<based, deaths, request>>
    BY <1>4 DEF SpawnRow, At, Inside, records, bounds
  <2> QED
    BY <1>1, <2>1, <2>2, <2>3, GotoRuns DEF Opened
<1>5. CASE SpawnRecord(e)
  <2>1. PICK l \in {"verify", "mark_verifying"} : Goto(e, l)
    BY <1>1, <1>5 DEF SpawnRecord, PutRow
  <2> QED
    BY <1>5, <2>1, PlainRuns DEF SpawnRecord, PutRow, At, records, bounds, Opened
<1> QED
  BY <1>2, <1>3, <1>4, <1>5 DEF Spawn

LEMMA ExecuteRuns ==
    ASSUME TypeInv, NEW e \in Exec, Execute(e)
    PROVE  Runs(e)
<1> USE DEF Label, Critical, Spawning, Opened
<1>1. e \in Proc /\ e # "sup" /\ job[e] \in Job
  BY ProcessAssumption DEF Proc, TypeInv, TypeOK
<1>2. job[e].pc # "idle" => job[e].req \in Req
  BY DEF TypeInv, Ready, ExecutorReady
<1>3. CASE Check(e)
  <2>1. PICK k \in {[job[e] EXCEPT !.pc = "prepare", !.held = row], NoJob} :
          job' = [job EXCEPT ![e] = k] /\ (k # NoJob => row.route = based[job[e].req])
    BY <1>3 DEF Check, Eligible
  <2>2. /\ k.pc # "idle" => /\ k.pc = "prepare" /\ k.req = job[e].req
                           /\ k.held.route = based[job[e].req]
        /\ k.pc \in {"idle", "prepare"}
    <3>1. CASE k = NoJob
      BY <3>1 DEF NoJob
    <3>2. CASE k # NoJob
      <4>1. k = [job[e] EXCEPT !.pc = "prepare", !.held = row]
        BY <2>1, <3>2
      <4>2. k.pc = "prepare" /\ k.req = job[e].req /\ k.held = row
        BY <1>1, <4>1 DEF Job
      <4> QED
        BY <2>1, <3>2, <4>2
    <3> QED
      BY <3>1, <3>2
  <2>3. job'[e] = k /\ \A q \in Proc \ {e} : job'[q] = job[q]
    BY <1>1, <2>1 DEF TypeInv, TypeOK
  <2>4. \A r \in Req : request[r] # "none" => request'[r] # "none"
    BY <1>1, <1>2, <1>3 DEF Check, At, Terminal, TypeInv, TypeOK
  <2>5. job[e].pc = "check" /\ UNCHANGED <<based, deaths, windows, txn>>
    BY <1>3 DEF Check, At, bounds
  <2>6. WindowMoves(e) /\ Outcomes(e) /\ HeldMoves(e)
    BY <2>2, <2>3, <2>5 DEF WindowMoves, Outcomes, HeldMoves
  <2> QED
    BY <1>2, <2>3, <2>4, <2>5, <2>6 DEF Runs
<1>4. CASE \/ Prepare(e) \/ MarkStopped(e) \/ MarkResuming(e) \/ MarkVerifying(e)
           \/ Commit(e) \/ RollDone(e) \/ BlockDone(e)
  <2>1. CASE Prepare(e)
    BY <2>1, MarkRuns DEF Prepare
  <2>2. CASE MarkStopped(e) \/ MarkResuming(e)
    BY <2>2, MarkRuns DEF MarkStopped, MarkResuming
  <2>3. CASE MarkVerifying(e)
    BY <2>3, MarkRuns DEF MarkVerifying
  <2>4. CASE Commit(e)
    BY <2>4, MarkRuns DEF Commit
  <2>5. CASE RollDone(e) \/ BlockDone(e)
    BY <2>5, MarkRuns DEF RollDone, BlockDone
  <2> QED
    BY <1>4, <2>1, <2>2, <2>3, <2>4, <2>5
<1>5. CASE CommitRequest(e) \/ RollRequest(e) \/ BlockRequest(e)
  <2>1. {"committed", "rolled_back", "recovery_required"} \subseteq Terminal
    BY DEF Terminal
  <2> QED
    BY <1>5, <2>1, MarkRequestRuns DEF CommitRequest, RollRequest, BlockRequest
<1>6. CASE Lock(e)
  <2>1. PICK l \in {"revalidate", "idle"} : Goto(e, l)
    BY <1>6 DEF Lock
  <2> QED
    BY <1>6, <2>1, PlainRuns DEF Lock, At, records, bounds
<1>7. CASE Release(e)
  BY <1>7, PlainRuns DEF Release, At, records, bounds
<1>8. CASE Revalidate(e)
  <2>1. PICK l \in {"stop_row", "release"} : Look(e, l)
    BY <1>8 DEF Revalidate
  <2> QED
    BY <1>8, <2>1, PlainRuns DEF Revalidate, Look, At, records, bounds
<1>9. CASE Verify(e)
  <2>1. Failed(e) \in {"block_row", "roll_back"}
    BY <1>1 DEF Failed
  <2>2. PICK l \in {"roll_done", "send", Failed(e)} :
          /\ Look(e, l)
          /\ l = "send" => ~job[e].rolling
          /\ l = "roll_done" => job[e].rolling
    BY <1>9, <2>1 DEF Verify
  <2> QED
    BY <1>9, <2>1, <2>2, PlainRuns DEF Verify, Look, At, records, bounds
<1>10. CASE StopRow(e)
  BY <1>10, PlainRuns DEF StopRow, PutRow, At, records, bounds
<1>11. CASE RollRow(e)
  BY <1>11, PlainRuns DEF RollRow, PutRow, At, records, bounds
<1>12. CASE BlockRow(e)
  BY <1>12, PlainRuns DEF BlockRow, PutRow, At, records, bounds
<1>13. CASE Kill(e)
  <2>1. PICK l \in {"roll_row", "mark_stopped"} : Goto(e, l)
    BY <1>13 DEF Kill
  <2>2. Outcomes(e) /\ Inside(e)
    BY <1>13 DEF Kill, records, Outcomes, Inside, At
  <2> QED
    BY <1>13, <2>1, <2>2, GotoRuns DEF Kill, At, records, bounds
<1>14. CASE SendContinuation(e)
  <2>1. PICK l \in {"commit", "roll_back"} : Goto(e, l)
    BY <1>14 DEF SendContinuation
  <2> QED
    BY <1>14, <2>1, PlainRuns DEF SendContinuation, At, records, bounds
<1>15. CASE RollBack(e)
  <2>1. job[e].pc = "roll_back" /\ UNCHANGED <<based, deaths, windows, request>>
    BY <1>15 DEF RollBack, At, bounds
  <2>2. CASE Goto(e, "release") /\ UNCHANGED txn
    BY <2>1, <2>2, PlainRuns
  <2>3. CASE /\ txn' = [txn EXCEPT ![job[e].req] = "rolling_back"]
             /\ job' = [job EXCEPT ![e].pc = "kill", ![e].rolling = TRUE]
    <3>1. job' = [job EXCEPT ![e] = [job[e] EXCEPT !.pc = "kill", !.rolling = TRUE]]
      BY <1>1, <2>3 DEF TypeInv, TypeOK
    <3>2. /\ [job[e] EXCEPT !.pc = "kill", !.rolling = TRUE].pc = "kill"
          /\ [job[e] EXCEPT !.pc = "kill", !.rolling = TRUE].req = job[e].req
          /\ [job[e] EXCEPT !.pc = "kill", !.rolling = TRUE].held = job[e].held
      BY <1>1 DEF Job
    <3>3. /\ job'[e].pc = "kill" /\ job'[e].req = job[e].req /\ job'[e].held = job[e].held
          /\ \A q \in Proc \ {e} : job'[q] = job[q]
      BY <1>1, <3>1, <3>2 DEF TypeInv, TypeOK
    <3>4. Outcomes(e)
      BY <2>3 DEF Outcomes, TypeInv, TypeOK
    <3> QED
      BY <1>2, <2>1, <3>3, <3>4 DEF Runs, WindowMoves, HeldMoves
  <2> QED
    BY <1>15, <2>2, <2>3 DEF RollBack
<1>16. CASE Spawn(e)
  BY <1>16, SpawnRuns
<1> QED
  BY <1>3, <1>4, <1>5, <1>6, <1>7, <1>8, <1>9, <1>10, <1>11, <1>12, <1>13, <1>14,
     <1>15, <1>16 DEF Execute

LEMMA RunsBase ==
    ASSUME TypeInv, HoldsBase, NEW e \in Exec, Runs(e)
    PROVE  HoldsBase'
<1> SUFFICES ASSUME NEW f \in Exec
             PROVE  /\ job'[f].pc # "idle" => request'[job'[f].req] # "none"
                    /\ job'[f].pc \notin {"idle", "check"} =>
                         job'[f].held.route = based'[job'[f].req]
                    /\ job'[f].pc \in {"send", "commit"} => ~job'[f].rolling
                    /\ job'[f].pc = "roll_done" => job'[f].rolling
  BY DEF HoldsBase
<1>1. job[f].pc # "idle" => job[f].req \in Req
  BY DEF TypeInv, Ready, ExecutorReady
<1>2. CASE f # e
  BY <1>1, <1>2 DEF Runs, HoldsBase, Proc
<1>3. CASE f = e
  BY <1>1, <1>3 DEF Runs, HeldMoves, HoldsBase, Opened
<1> QED
  BY <1>2, <1>3

LEMMA RunsWindow ==
    ASSUME TypeInv, Mutex, OwnWindow, NEW e \in Exec, Runs(e)
    PROVE  OwnWindow'
<1> SUFFICES ASSUME deaths = 0, NEW f \in Exec, job'[f].pc \in Opened
             PROVE  /\ Found' => windows' = <<Wanted(f)>>'
                    /\ windows' = <<>> => job'["sup"].pc \notin BeforeWindow
  BY DEF OwnWindow, Runs
<1>1. job'["sup"] = job["sup"] /\ f # "sup" /\ e # "sup"
  BY ProcessAssumption DEF Runs, Proc
<1>2. CASE f # e
  <2>1. job'[f] = job[f] /\ Inside(f)
    BY <1>2 DEF Runs, Proc, Opened, Inside, Critical, Spawning
  <2>2. windows' = windows
    BY <1>2, <2>1 DEF Runs, WindowMoves, Mutex
  <2> QED
    BY <1>1, <2>1, <2>2 DEF OwnWindow, Found, Wanted
<1>3. CASE f = e
  <2>1. job'[e].held = job[e].held /\ job'[e].rolling = job[e].rolling
    BY <1>3 DEF Runs, HeldMoves, Opened
  <2>2. Wanted(e)' = Wanted(e)
    BY <2>1 DEF Wanted
  <2>3. CASE job[e].pc \in Opened /\ windows' = windows
    BY <1>1, <1>3, <2>2, <2>3 DEF OwnWindow, Found
  <2>4. CASE windows' = <<Wanted(e)>>
    BY <1>3, <2>2, <2>4
  <2> QED
    BY <1>3, <2>3, <2>4 DEF Runs, WindowMoves
<1> QED
  BY <1>2, <1>3

\* A turn of the supervisor opens a window only before its own, closes one only
\* after it, and begins only while the lock is free.
SupRuns ==
    /\ \A e \in Exec : job'[e] = job[e]
    /\ UNCHANGED <<records, lock, deaths>>
    /\ \/ /\ windows' = windows
          /\ job'["sup"].pc \in BeforeWindow => job["sup"].pc \in BeforeWindow \/ lock = NoReq
       \/ /\ job["sup"].pc = "window" /\ job'["sup"].pc \notin BeforeWindow
          /\ \/ windows' = windows /\ Len(windows) >= MaxWindows
             \/ \E w \in Route : windows' = Append(windows, w)
       \/ windows' = <<>> /\ job'["sup"].pc \notin BeforeWindow

LEMMA SuperviseRuns ==
    ASSUME TypeInv, Supervise
    PROVE  SupRuns
<1> USE DEF Label, Critical, Spawning, BeforeWindow
<1>1. /\ "sup" \in Proc /\ job \in [Proc -> Job] /\ job["sup"] \in Job
      /\ \A e \in Exec : e \in Proc /\ e # "sup"
  BY ProcessAssumption DEF Proc, TypeInv, TypeOK
<1>2. ASSUME NEW l \in Label, Goto("sup", l), UNCHANGED <<records, lock, deaths, windows>>,
             l \in BeforeWindow => job["sup"].pc \in BeforeWindow \/ lock = NoReq
      PROVE  SupRuns
  BY <1>1, <1>2, GotoMoves DEF Moves, SupRuns
<1>3. CASE SupTurn
  BY <1>2, <1>3 DEF SupTurn, Look, bounds
<1>4. CASE SupRead
  BY <1>1, <1>4 DEF SupRead, At, SupRuns, bounds
<1>5. CASE SupDecide
  BY <1>2, <1>5 DEF SupDecide, Look, PutRow, At, bounds
<1>6. CASE SupLoad
  BY <1>1, <1>6 DEF SupLoad, At, SupRuns, bounds
<1>7. CASE SupMark
  BY <1>2, <1>7 DEF SupMark, PutRow, At, bounds
<1>8. CASE SupFound
  BY <1>2, <1>8 DEF SupFound, Look, bounds
<1>9. CASE SupRestore
  BY <1>2, <1>9 DEF SupRestore, PutRow, bounds
<1>10. CASE SupFail
  BY <1>2, <1>10 DEF SupFail, PutRow, bounds
<1>11. Failed("sup") = "restore" /\ Wanted("sup") \in Route
  BY <1>1, WantedType DEF Failed, Past
<1>12. CASE SpawnTarget("sup")
  BY <1>2, <1>11, <1>12 DEF SpawnTarget, Look, At, bounds
<1>13. CASE SpawnWindow("sup")
  <2>1. PICK l \in {"row", "restore"} : Goto("sup", l)
    BY <1>11, <1>13 DEF SpawnWindow
  <2>2. Moves("sup", l)
    BY <1>1, <2>1, GotoMoves
  <2>3. \/ windows' = windows /\ Len(windows) >= MaxWindows
        \/ windows' = Append(windows, Wanted("sup"))
    BY <1>13, BoundAssumption, LenProperties DEF SpawnWindow, TypeInv, TypeOK
  <2> QED
    BY <1>1, <1>11, <1>13, <2>1, <2>2, <2>3 DEF SpawnWindow, Moves, SupRuns, At, bounds
<1>14. CASE SpawnRow("sup")
  <2>1. PICK l \in {"record", "restore"} : Goto("sup", l)
    BY <1>11, <1>14 DEF SpawnRow
  <2>2. Moves("sup", l)
    BY <1>1, <2>1, GotoMoves
  <2>3. windows' = windows \/ windows' = <<>>
    BY <1>14 DEF SpawnRow
  <2> QED
    BY <1>1, <1>14, <2>1, <2>2, <2>3 DEF SpawnRow, Moves, SupRuns, bounds
<1>15. CASE SpawnRecord("sup")
  BY <1>2, <1>15 DEF SpawnRecord, PutRow, bounds
<1> QED
  BY <1>3, <1>4, <1>5, <1>6, <1>7, <1>8, <1>9, <1>10, <1>12, <1>13, <1>14, <1>15
     DEF Supervise, Spawn

LEMMA SupWindow ==
    ASSUME TypeInv, Mutex, OwnWindow, SupRuns
    PROVE  OwnWindow'
<1> SUFFICES ASSUME deaths = 0, NEW e \in Exec, job'[e].pc \in Opened
             PROVE  /\ Found' => windows' = <<Wanted(e)>>'
                    /\ windows' = <<>> => job'["sup"].pc \notin BeforeWindow
  BY DEF OwnWindow, SupRuns
<1>1. job'[e] = job[e] /\ job[e].pc \in Opened /\ Wanted(e)' = Wanted(e)
  BY DEF SupRuns, Wanted
<1>2. /\ Found => windows = <<Wanted(e)>>
      /\ windows = <<>> => job["sup"].pc \notin BeforeWindow
  BY <1>1 DEF OwnWindow
<1>3. lock # NoReq
  <2>1. Inside(e) /\ job[e].req \in Req
    BY <1>1 DEF Inside, Opened, Critical, Spawning, TypeInv, Ready, ExecutorReady
  <2> QED
    BY <2>1, RequestAssumption DEF Mutex
<1>4. CASE /\ windows' = windows
           /\ job'["sup"].pc \in BeforeWindow => job["sup"].pc \in BeforeWindow \/ lock = NoReq
  BY <1>1, <1>2, <1>3, <1>4 DEF Found
<1>5. CASE /\ job["sup"].pc = "window" /\ job'["sup"].pc \notin BeforeWindow
           /\ \/ windows' = windows /\ Len(windows) >= MaxWindows
              \/ \E w \in Route : windows' = Append(windows, w)
  <2>1. windows # <<>> /\ windows \in Seq(Route)
    BY <1>2, <1>5 DEF BeforeWindow, TypeInv, TypeOK
  <2>2. Len(windows) \in Nat /\ Len(windows) # 0
    BY <2>1, LenProperties, EmptySeq
  <2>3. ~Found'
    <3>1. CASE windows' = windows /\ Len(windows) >= MaxWindows
      <4>1. MaxWindows \in Nat /\ MaxWindows >= 2
        BY BoundAssumption
      <4>2. \A n, m \in Nat : n >= m /\ m >= 2 => n # 1
        OBVIOUS
      <4>3. Len(windows) # 1
        BY <2>2, <3>1, <4>1, <4>2, Zenon
      <4> QED
        BY <3>1, <4>3 DEF Found
    <3>2. ASSUME NEW w \in Route, windows' = Append(windows, w) PROVE ~Found'
      <4>1. Len(windows') = Len(windows) + 1
        BY <2>1, <3>2, AppendProperties
      <4> QED
        BY <2>2, <4>1 DEF Found
    <3> QED
      BY <1>5, <3>1, <3>2
  <2> QED
    BY <1>5, <2>3
<1>6. CASE windows' = <<>> /\ job'["sup"].pc \notin BeforeWindow
  BY <1>6 DEF Found
<1> QED
  BY <1>4, <1>5, <1>6 DEF SupRuns

\* A process that starts or dies, and the worker's own steps.
LEMMA OtherSteps ==
    ASSUME TypeInv, OwnWindow, HoldsBase,
           \/ Fail \/ \E r \in Req : FailCreate(r)
           \/ \E e \in Exec, r \in Req : Start(e, r) \/ StartNew(e, r)
           \/ \E e \in Exec : Crash(e)
    PROVE  OwnWindow' /\ HoldsBase' /\ txn' = txn
<1>1. /\ "sup" \in Proc /\ "sup" \notin Exec /\ job \in [Proc -> Job]
      /\ \A e \in Exec : e \in Proc /\ (job[e].pc # "idle" => job[e].req \in Req)
  BY ProcessAssumption DEF Proc, TypeInv, TypeOK, Ready, ExecutorReady
<1>2. UNCHANGED <<windows, deaths, txn>>
  BY DEF Fail, FailSubmit, FailLoad, FailWrite, FailCreate, Start, StartNew, Crash, records, bounds
<1>3. /\ job'["sup"] = job["sup"]
      /\ \A f \in Exec : \/ job'[f] = job[f] \/ job'[f].pc = "idle"
                         \/ /\ job'[f].pc = "check" /\ job'[f].req \in Req
                            /\ request'[job'[f].req] # "none"
  <2>1. CASE Fail \/ \E r \in Req : FailCreate(r)
    BY <2>1 DEF Fail, FailSubmit, FailLoad, FailWrite, FailCreate
  <2>2. ASSUME NEW e \in Exec, NEW r \in Req, Start(e, r) \/ StartNew(e, r)
        PROVE  /\ job'["sup"] = job["sup"]
               /\ \A f \in Exec : \/ job'[f] = job[f]
                                  \/ /\ job'[f].pc = "check" /\ job'[f].req \in Req
                                     /\ request'[job'[f].req] # "none"
    <3>1. job' = [job EXCEPT ![e] = Started(r)] /\ Started(r).pc = "check" /\ Started(r).req = r
      BY <2>2 DEF Start, StartNew, Started, NoJob
    <3>2. request'[r] # "none"
      BY <2>2 DEF Start, StartNew, Terminal, TypeInv, TypeOK
    <3> QED
      BY <1>1, <3>1, <3>2
  <2>3. ASSUME NEW e \in Exec, Crash(e)
        PROVE  /\ job'["sup"] = job["sup"]
               /\ \A f \in Exec : job'[f] = job[f] \/ job'[f].pc = "idle"
    <3>1. Moves(e, "idle")
      BY <1>1, <2>3, GotoMoves DEF Crash, Label
    <3> QED
      BY <1>1, <3>1 DEF Moves
  <2> QED
    BY <2>1, <2>2, <2>3
<1>4. \A r \in Req : request[r] # "none" => request'[r] # "none" /\ based'[r] = based[r]
  BY DEF Fail, FailSubmit, FailLoad, FailWrite, FailCreate, Start, StartNew, Crash, records,
         Terminal, TypeInv, TypeOK, Ready
<1>5. OwnWindow'
  BY <1>2, <1>3 DEF OwnWindow, Opened, Found, Wanted
<1>6. HoldsBase'
  BY <1>1, <1>3, <1>4 DEF HoldsBase
<1> QED
  BY <1>2, <1>5, <1>6

\* A step records an outcome only of the route that runs.
Recorded ==
    \A r \in Req : txn'[r] # txn[r] /\ Found /\ deaths = 0 =>
        /\ txn'[r] = "committed" => windows = <<based[r] + 1>>
        /\ txn'[r] = "rolled_back" => windows = <<based[r]>>

LEMMA RunsRecorded ==
    ASSUME TypeInv, OwnWindow, HoldsBase, NEW e \in Exec, Runs(e)
    PROVE  Recorded
<1> SUFFICES ASSUME NEW r \in Req, txn'[r] # txn[r], Found, deaths = 0
             PROVE  /\ txn'[r] = "committed" => windows = <<based[r] + 1>>
                    /\ txn'[r] = "rolled_back" => windows = <<based[r]>>
  BY DEF Recorded
<1>1. /\ r = job[e].req /\ e # "sup"
      /\ txn'[r] = "committed" => job[e].pc = "commit"
      /\ txn'[r] = "rolled_back" => job[e].pc = "roll_done"
  BY ProcessAssumption DEF Runs, Outcomes
<1>2. ASSUME job[e].pc \in {"commit", "roll_done"}
      PROVE  windows = <<Wanted(e)>> /\ job[e].held.route = based[r]
  BY <1>1, <1>2 DEF OwnWindow, HoldsBase, Opened
<1>3. job[e].pc = "commit" => Wanted(e) = based[r] + 1
  BY <1>1, <1>2 DEF Wanted, HoldsBase
<1>4. job[e].pc = "roll_done" => Wanted(e) = based[r]
  BY <1>1, <1>2 DEF Wanted, HoldsBase
<1> QED
  BY <1>1, <1>2, <1>3, <1>4

LEMMA WindowNext ==
    ASSUME TypeInv, Mutex, OwnWindow, HoldsBase, [Next]_vars
    PROVE  OwnWindow' /\ HoldsBase' /\ Recorded
<1>1. ASSUME NEW e \in Exec, Execute(e) PROVE OwnWindow' /\ HoldsBase' /\ Recorded
  BY <1>1, ExecuteRuns, RunsWindow, RunsBase, RunsRecorded
<1>2. CASE Supervise
  <2>1. SupRuns
    BY <1>2, SuperviseRuns
  <2>2. HoldsBase' /\ Recorded
    BY <2>1 DEF SupRuns, records, HoldsBase, Recorded
  <2> QED
    BY <2>1, <2>2, SupWindow
<1>3. CASE \/ Fail \/ \E r \in Req : FailCreate(r)
           \/ \E e \in Exec, r \in Req : Start(e, r) \/ StartNew(e, r)
           \/ \E e \in Exec : Crash(e)
  BY <1>3, OtherSteps DEF Recorded
<1>4. CASE WindowDies
  <2>1. deaths' # 0
    BY <1>4 DEF WindowDies, TypeInv, TypeOK
  <2>2. HoldsBase' /\ Recorded
    BY <1>4 DEF WindowDies, records, HoldsBase, Recorded
  <2> QED
    BY <2>1, <2>2 DEF OwnWindow
<1>5. CASE UNCHANGED vars
  BY <1>5 DEF vars, records, bounds, OwnWindow, HoldsBase, Recorded, Found, Wanted
<1> QED
  BY <1>1, <1>2, <1>3, <1>4, <1>5 DEF Next

\* Whatever turn of the supervisor overlaps the escalation, whoever is killed and
\* however many processes execute the request: as long as no window died by
\* itself, the process tmux finds when the transaction is committed is the
\* candidate's, and when it is rolled back the prior model's.
THEOREM SettledRunsItsRuntimeAlways == Spec => SettledRunsItsRuntime
<1>1. Init => OwnWindow /\ HoldsBase
  BY DEF Init, OwnWindow, HoldsBase, NoJob, Opened, Proc
<1>2. Init => Mutex
  BY DEF Init, Mutex, Inside, NoJob, Critical, Spawning, Proc
<1>3. TypeInv /\ Mutex /\ OwnWindow /\ HoldsBase /\ [Next]_vars => OwnWindow' /\ HoldsBase'
  BY WindowNext
<1>4. TypeInv /\ Mutex /\ OwnWindow /\ HoldsBase /\ [Next]_vars =>
        [\A r \in Req : txn'[r] # txn[r] /\ Found /\ deaths = 0 =>
           /\ txn'[r] = "committed" => windows = <<based[r] + 1>>
           /\ txn'[r] = "rolled_back" => windows = <<based[r]>>]_vars
  BY WindowNext DEF Recorded
<1> QED
  BY <1>1, <1>2, <1>3, <1>4, TypeInvInit, TypeInvNext, MutexNext, PTL
     DEF Spec, SettledRunsItsRuntime

-----------------------------------------------------------------------------
(***************************************************************************)
(* Which route a worker gets: the theorems about TaskRouting, for any      *)
(* models, policies, task specifications, failures and backends.           *)
(***************************************************************************)
LEMMA SmallSetsHaveMin ==
    ASSUME NEW S \in SUBSET (1 .. 3), S # {}
    PROVE  \E x \in S : \A y \in S : x <= y
<1>1. CASE 1 \in S
  BY <1>1
<1>2. CASE 1 \notin S /\ 2 \in S
  BY <1>2
<1>3. CASE 1 \notin S /\ 2 \notin S
  <2>1. \A y \in S : y = 3
    BY <1>3
  <2>2. PICK x \in S : TRUE
    OBVIOUS
  <2> QED
    BY <2>1, <2>2
<1> QED
  BY <1>1, <1>2, <1>3

LEMMA SmallSetsHaveMax ==
    ASSUME NEW S \in SUBSET (0 .. 3), S # {}
    PROVE  \E x \in S : \A y \in S : x >= y
<1>1. CASE 3 \in S
  BY <1>1
<1>2. CASE 3 \notin S /\ 2 \in S
  BY <1>2
<1>3. CASE 3 \notin S /\ 2 \notin S /\ 1 \in S
  BY <1>3
<1>4. CASE 3 \notin S /\ 2 \notin S /\ 1 \notin S
  <2>1. \A y \in S : y = 0
    BY <1>4
  <2>2. PICK x \in S : TRUE
    OBVIOUS
  <2> QED
    BY <2>1, <2>2
<1> QED
  BY <1>1, <1>2, <1>3, <1>4

\* The limits of a valid policy, a project's own over the defaults.
LEMMA PolicyLimits ==
    ASSUME NEW p \in Policy, ValidPolicy(p)
    PROVE  /\ Cap(p) \in 1 .. 3 /\ Attempts(p) \in Nat \ {0}
           /\ Escalations(p) \in Nat
           /\ Escalations(p) <= Attempts(p) - 1
           /\ \A t \in 1 .. 3 : p.models[t] \in Model
           /\ p.tier \in 1 .. 3
BY DEF ValidPolicy, ValidLimits, Policy, Tier

\* Class, risk and demand of a task.
LEMMA TaskIsClassified ==
    ASSUME NEW s \in TaskSpec
    PROVE  /\ SignalClass(s) \in 1 .. 3 /\ TaskClass(s) \in 1 .. 3
           /\ TaskRisk(s) \in 1 .. 3
           /\ s.class \in 0 .. 3 /\ s.risk \in 0 .. 3 /\ s.maxTier \in 0 .. 3
           /\ s.structural \in BOOLEAN
<1>1. /\ s.class \in 0 .. 3 /\ s.risk \in 0 .. 3 /\ s.maxTier \in 0 .. 3
      /\ s.structural \in BOOLEAN
  BY DEF TaskSpec, Class, Risk, Tier
<1>2. SignalClass(s) \in 1 .. 3
  BY DEF SignalClass
<1>3. TaskClass(s) \in 1 .. 3
  BY <1>1, <1>2 DEF TaskClass, Larger
<1>4. TaskRisk(s) \in 1 .. 3
  BY <1>1, <1>3 DEF TaskRisk, Larger, Smaller
<1> QED
  BY <1>1, <1>2, <1>3, <1>4

\* What the code asks for is at least the reference demand.
LEMMA DesiredMeetsDemand ==
    ASSUME NEW s \in TaskSpec, NEW p \in Policy, ValidPolicy(p)
    PROVE  /\ Desired(s, p) \in 1 .. 3 /\ Demand(s) \in 0 .. 3
           /\ Demand(s) <= Desired(s, p)
<1> DEFINE a == SignalClass(s)
           S == {a, s.class, s.risk}
           m == Max(S)
           n == Smaller(m + 1, 3)
           T == S \cup (IF s.structural THEN {n} ELSE {})
<1>1. /\ a \in 1 .. 3 /\ s.class \in 0 .. 3 /\ s.risk \in 0 .. 3 /\ s.structural \in BOOLEAN
      /\ TaskClass(s) \in 1 .. 3 /\ TaskRisk(s) \in 1 .. 3
  BY TaskIsClassified
<1>2. p.tier \in 1 .. 3
  BY PolicyLimits
<1>3. m \in S /\ \A y \in S : m >= y
  <2>1. S \in SUBSET (0 .. 3) /\ S # {}
    BY <1>1
  <2>2. \E x \in S : \A y \in S : x >= y
    BY <2>1, SmallSetsHaveMax
  <2> HIDE DEF S
  <2> QED
    BY <2>2 DEF Max
<1>4. m = Larger(TaskClass(s), s.risk)
  <2> HIDE DEF m
  <2> QED
    BY <1>1, <1>3 DEF TaskClass, Larger
<1>5. TaskRisk(s) = IF s.structural THEN n ELSE m
  BY <1>4 DEF TaskRisk
<1>6. m \in 0 .. 3 /\ n \in 0 .. 3 /\ n >= m
  <2> HIDE DEF m
  <2> QED
    BY <1>1, <1>3 DEF Smaller
<1>7. Demand(s) \in T /\ Demand(s) <= TaskRisk(s)
  <2>1. T \in SUBSET (0 .. 3) /\ T # {}
    <3> HIDE DEF n
    <3> QED
      BY <1>1, <1>6
  <2>2. \E x \in T : \A y \in T : x >= y
    <3> HIDE DEF T
    <3> QED
      BY <2>1, SmallSetsHaveMax
  <2>3. Demand(s) = Max(T)
    BY DEF Demand
  <2>4. Demand(s) \in T
    <3> HIDE DEF T
    <3> QED
      BY <2>2, <2>3 DEF Max
  <2>5. \A y \in T : y <= TaskRisk(s)
    <3> HIDE DEF n, m
    <3> QED
      BY <1>1, <1>3, <1>5, <1>6
  <2> QED
    BY <2>4, <2>5
<1>8. Demand(s) \in 0 .. 3
  <2> HIDE DEF n
  <2> QED
    BY <1>1, <1>6, <1>7
<1>9. /\ Desired(s, p) \in 1 .. 3
      /\ Desired(s, p) >= TaskRisk(s)
  BY <1>1, <1>2 DEF Desired, Larger
<1> QED
  BY <1>1, <1>7, <1>8, <1>9

LEMMA CeilingHolds ==
    ASSUME NEW s \in TaskSpec, NEW p \in Policy, ValidPolicy(p)
    PROVE  /\ Ceiling(s, p) \in 1 .. 3 /\ Ceiling(s, p) <= Cap(p)
           /\ s.maxTier # 0 => Ceiling(s, p) <= s.maxTier
BY PolicyLimits, TaskIsClassified DEF Ceiling, Smaller

LEMMA NextTierHolds ==
    ASSUME NEW p, NEW t, NEW c
    PROVE  LET n == NextTier(p, t, c)
           IN  n # 0 => n = t + 1 /\ n \in 1 .. 3 /\ n <= c /\ p.models[n] \in p.allowed
BY DEF NextTier, Permitted, Tier

\* A decision of the right type, within the task's ceiling, and allowed by p.
Frozen(d, s, p) ==
    /\ d \in Decision /\ Canonical(d) /\ d # None
    /\ d.escalations = 0
    /\ d.model = p.models[d.tier] /\ d.model \in p.allowed /\ d.tier <= Cap(p)
    /\ s.maxTier # 0 => d.tier <= s.maxTier /\ d.next <= s.maxTier

LEMMA DecisionIsRecord ==
    ASSUME NEW d \in Decision
    PROVE  /\ d.tier \in 1 .. 3 /\ d.next \in 0 .. 3 /\ d # None
           /\ d.attempts \in Nat /\ d.escalations \in Nat
           /\ d.maxAttempts \in Nat /\ d.maxEscalations \in Nat
<1>1. /\ d.tier \in 1 .. 3 /\ d.next \in 0 .. 3
      /\ d.attempts \in Nat /\ d.escalations \in Nat
      /\ d.maxAttempts \in Nat /\ d.maxEscalations \in Nat
  BY DEF Decision, Tier
<1>2. "tier" \in DOMAIN d /\ DOMAIN None = {}
  BY DEF Decision, None
<1> QED
  BY <1>1, <1>2

LEMMA DecideIsFrozen ==
    ASSUME NEW s \in TaskSpec, NEW p \in Policy, ValidPolicy(p),
           NEW t \in 1 .. 3, t <= Ceiling(s, p), p.models[t] \in p.allowed,
           NEW manual \in BOOLEAN
    PROVE  Frozen(Decide(s, p, t, manual), s, p)
<1> DEFINE d == Decide(s, p, t, manual)
           next == NextTier(p, t, Ceiling(s, p))
           why == Reasons(s, p, t, manual)
<1>1. /\ TaskClass(s) \in 1 .. 3 /\ TaskRisk(s) \in 1 .. 3
      /\ s.maxTier \in 0 .. 3
  BY TaskIsClassified
<1>2. /\ Cap(p) \in 1 .. 3 /\ Attempts(p) \in Nat \ {0}
      /\ Escalations(p) \in Nat
      /\ Escalations(p) <= Attempts(p) - 1
      /\ p.models[t] \in Model
  BY PolicyLimits
<1>3. /\ Ceiling(s, p) \in 1 .. 3 /\ Ceiling(s, p) <= Cap(p)
      /\ s.maxTier # 0 => Ceiling(s, p) <= s.maxTier
  BY CeilingHolds
<1>4. next # 0 => next \in 1 .. 3 /\ next <= Ceiling(s, p)
  BY NextTierHolds
<1>5. why \in SUBSET Reason
  BY DEF Reasons
<1> HIDE DEF next, why
<1>6. d = [class |-> TaskClass(s), risk |-> TaskRisk(s), tier |-> t,
           model |-> p.models[t],
           selection |-> IF manual THEN "manual" ELSE "automatic", reasons |-> why,
           maxAttempts |-> Attempts(p), maxEscalations |-> Escalations(p),
           attempts |-> 1, escalations |-> 0, next |-> next]
  BY DEF Decide, next, why
<1> HIDE DEF d
<1>7. d \in Decision
  BY <1>1, <1>2, <1>4, <1>5, <1>6
     DEF Decision, Class, Risk, Tier
<1>8. /\ d.tier = t /\ d.model = p.models[t] /\ d.attempts = 1 /\ d.escalations = 0
      /\ d.maxAttempts = Attempts(p) /\ d.maxEscalations = Escalations(p)
      /\ d.next = next
  BY <1>6
<1>9. Canonical(d)
  BY <1>2, <1>8 DEF Canonical, Smaller
<1>10. s.maxTier # 0 => d.tier <= s.maxTier /\ d.next <= s.maxTier
  BY <1>1, <1>3, <1>4, <1>8
<1>11. d.tier <= Cap(p)
  BY <1>2, <1>3, <1>8
<1>12. Frozen(d, s, p)
  BY <1>7, <1>8, <1>9, <1>10, <1>11, DecisionIsRecord DEF Frozen
<1> QED
  BY <1>12 DEF d

\* The first decision meets the demand of the task, or names the ceiling.
LEMMA RouteTaskHolds ==
    ASSUME NEW s \in TaskSpec, NEW p \in Policy, NEW requested,
           NEW d \in RouteTask(s, p, requested)
    PROVE  /\ Frozen(d, s, p)
           /\ d.selection = "automatic" =>
                  d.tier >= Demand(s) \/ "tier_ceiling" \in d.reasons
<1>1. ValidPolicy(p)
  BY DEF RouteTask
<1>2. CASE d \in Automatic(s, p)
  <2> DEFINE S == Candidates(s, p)
             t == Min(S)
             low == Smaller(Desired(s, p), Ceiling(s, p))
  <2>1. S # {} /\ d = Decide(s, p, t, FALSE)
    BY <1>2 DEF Automatic
  <2>2. /\ Ceiling(s, p) \in 1 .. 3 /\ Desired(s, p) \in 1 .. 3
        /\ Demand(s) \in 0 .. 3 /\ Demand(s) <= Desired(s, p)
    BY <1>1, CeilingHolds, DesiredMeetsDemand
  <2>3. \A x \in S : /\ x \in low .. Ceiling(s, p)
                     /\ x <= Ceiling(s, p) /\ p.models[x] \in p.allowed
    BY DEF Candidates, Permitted
  <2>4. low \in 1 .. 3
    BY <2>2 DEF Smaller
  <2>5. t \in S
    <3>1. S \in SUBSET (1 .. 3)
      <4> HIDE DEF S, low
      <4> QED
        BY <2>2, <2>3, <2>4
    <3> HIDE DEF S
    <3>2. \E x \in S : \A y \in S : x <= y
      BY <2>1, <3>1, SmallSetsHaveMin
    <3> QED
      BY <3>2 DEF Min
  <2> HIDE DEF S, t
  <2>6. /\ t \in 1 .. 3 /\ t <= Ceiling(s, p) /\ p.models[t] \in p.allowed
        /\ t >= low
    <3> HIDE DEF low
    <3> QED
      BY <2>2, <2>3, <2>4, <2>5
  <2>7. Frozen(d, s, p)
    BY <1>1, <2>1, <2>6, DecideIsFrozen
  <2>8. d.tier = t /\ d.reasons = Reasons(s, p, t, FALSE)
    BY <2>1 DEF Decide
  <2>9. t >= Demand(s) \/ "tier_ceiling" \in d.reasons
    <3>1. CASE Ceiling(s, p) < Desired(s, p)
      BY <2>8, <3>1 DEF Reasons, Reason
    <3>2. CASE ~ (Ceiling(s, p) < Desired(s, p))
      BY <2>2, <2>6, <3>2 DEF Smaller
    <3> QED
      BY <3>1, <3>2
  <2> QED
    BY <2>7, <2>8, <2>9
<1>3. CASE d \in Manual(s, p, requested)
  <2>1. PICK t \in 1 .. 3 : /\ Permitted(p, t, Ceiling(s, p))
                            /\ d = Decide(s, p, t, TRUE)
    BY <1>3 DEF Manual, Tier
  <2>2. Frozen(d, s, p)
    BY <1>1, <2>1, DecideIsFrozen DEF Permitted
  <2>3. d.selection = "manual"
    BY <2>1 DEF Decide
  <2> QED
    BY <2>2, <2>3
<1> QED
  BY <1>1, <1>2, <1>3 DEF RouteTask

\* next_route leads to the next tier, which the policy of the moment allows,
\* and stays in both budgets.
LEMMA NextRouteHolds ==
    ASSUME NEW p \in Policy, NEW d \in Decision,
           NEW n \in NextRoute(d, p)
    PROVE  /\ n \in Decision /\ Canonical(n) /\ n # None
           /\ n.selection = "automatic_escalation"
           /\ n.tier = d.tier + 1 /\ n.tier = d.next
           /\ n.model = p.models[n.tier] /\ n.model \in p.allowed /\ n.tier <= Cap(p)
           /\ n.escalations = d.escalations + 1
           /\ n.attempts <= Smaller(d.maxAttempts, Attempts(p))
           /\ n.escalations <= Smaller(d.maxEscalations, Escalations(p))
<1> DEFINE e == Expected(d, p)
           next == NextTier(p, e, Cap(p))
<1>1. /\ ValidPolicy(p) /\ Canonical(d) /\ Budgeted(d, p)
      /\ e # 0 /\ d.next = e
      /\ n = [d EXCEPT !.tier = e, !.model = p.models[e],
                       !.selection = "automatic_escalation",
                       !.attempts = @ + 1, !.escalations = @ + 1, !.next = next]
  BY DEF NextRoute
<1>2. e = d.tier + 1 /\ e \in 1 .. 3 /\ e <= Cap(p) /\ p.models[e] \in p.allowed
  BY <1>1, NextTierHolds DEF Expected
<1>3. next \in 0 .. 3
  BY NextTierHolds
<1>4. p.models[e] \in Model
  BY <1>1, <1>2, PolicyLimits
<1> HIDE DEF e, next
<1>5. /\ n.tier = e /\ n.model = p.models[e] /\ n.selection = "automatic_escalation"
      /\ n.attempts = d.attempts + 1 /\ n.escalations = d.escalations + 1
      /\ n.maxAttempts = d.maxAttempts /\ n.maxEscalations = d.maxEscalations
  BY <1>1 DEF Decision
<1>6. n \in Decision
  <2> DEFINE a == d.attempts + 1
             x == d.escalations + 1
             m == p.models[e]
  <2>1. a \in Nat /\ x \in Nat /\ m \in Model
    BY <1>4, DecisionIsRecord
  <2>2. n = [d EXCEPT !.tier = e, !.model = m, !.selection = "automatic_escalation",
                      !.attempts = a, !.escalations = x, !.next = next]
    BY <1>1
  <2>3. e \in Tier /\ next \in {0} \cup Tier
    BY <1>2, <1>3 DEF Tier
  <2> HIDE DEF a, x, m
  <2> QED
    BY <2>1, <2>2, <2>3 DEF Decision
<1>7. /\ d.attempts \in Nat /\ d.escalations \in Nat
      /\ d.maxAttempts \in Nat /\ d.maxEscalations \in Nat
      /\ Attempts(p) \in Nat /\ Escalations(p) \in Nat
  BY <1>1, DecisionIsRecord, PolicyLimits
<1>8. Canonical(n)
  BY <1>1, <1>5, <1>7 DEF Canonical, Budgeted, Smaller
<1>9. /\ n.attempts <= Smaller(d.maxAttempts, Attempts(p))
      /\ n.escalations <= Smaller(d.maxEscalations, Escalations(p))
  BY <1>1, <1>5, <1>7 DEF Budgeted, Smaller
<1> QED
  BY <1>1, <1>2, <1>5, <1>6, <1>8, <1>9, DecisionIsRecord

\* Until the first step up the receipt announces a tier within the task's ceiling.
RoutingInv ==
    /\ RoutingTypeOK /\ RouteFitsTask
    /\ decision # None /\ task.maxTier # 0 /\ decision.escalations = 0
           => decision.next <= task.maxTier

LEMMA RoutesAreCanonical ==
    ASSUME NEW s \in TaskSpecs, NEW p \in Policies
    PROVE  \A d \in RouteTask(s, p, Absent) : Canonical(d)
BY InputAssumption, RouteTaskHolds DEF Frozen

LEMMA SpawnRoutes ==
    ASSUME RoutingInv, SpawnRouted
    PROVE  /\ decision = None /\ Frozen(decision', task, policy)
           /\ decision'.selection = "automatic" =>
                  decision'.tier >= Demand(task) \/ "tier_ceiling" \in decision'.reasons
           /\ UNCHANGED <<policy, task>>
<1>1. task \in TaskSpec /\ policy \in Policy
  BY InputAssumption DEF RoutingInv, RoutingTypeOK
<1>2. PICK requested \in {Absent} \cup Model :
          decision' \in RouteTask(task, policy, requested)
  BY DEF SpawnRouted
<1>3. decision = None /\ UNCHANGED <<policy, task>>
  BY DEF SpawnRouted
<1> QED
  BY <1>1, <1>2, <1>3, RouteTaskHolds

LEMMA EscalateRoutes ==
    ASSUME RoutingInv, Escalate
    PROVE  /\ decision # None /\ decision \in Decision
           /\ policy \in Policy
           /\ decision' \in NextRoute(decision, policy)
           /\ UNCHANGED <<policy, task>>
BY InputAssumption DEF RoutingInv, RoutingTypeOK, Escalate

LEMMA RoutingInductive ==
    ASSUME RoutingInv, [RoutingNext]_routingVars
    PROVE  RoutingInv'
<1>0. policy \in Policies /\ task \in TaskSpecs
  BY DEF RoutingInv, RoutingTypeOK
<1>1. ASSUME policy' \in Policies, task' \in TaskSpecs
      PROVE  \A d \in RouteTask(task', policy', Absent) : Canonical(d)
  BY <1>1, RoutesAreCanonical
<1>2. CASE UNCHANGED routingVars
  <2>1. policy' = policy /\ task' = task /\ decision' = decision
    BY <1>2 DEF routingVars
  <2> QED
    BY <1>0, <1>1, <2>1 DEF RoutingInv, RoutingTypeOK, RouteFitsTask
<1>3. CASE EditPolicy
  <2>1. policy' \in Policies /\ task' = task /\ decision' = decision
    BY <1>3 DEF EditPolicy
  <2> QED
    BY <1>0, <1>1, <2>1 DEF RoutingInv, RoutingTypeOK, RouteFitsTask
<1>4. CASE SpawnRouted
  <2>1. /\ Frozen(decision', task, policy)
        /\ decision'.selection = "automatic" =>
               decision'.tier >= Demand(task) \/ "tier_ceiling" \in decision'.reasons
        /\ policy' = policy /\ task' = task
    BY <1>4, SpawnRoutes
  <2> QED
    BY <1>0, <1>1, <2>1 DEF RoutingInv, RoutingTypeOK, RouteFitsTask, Frozen
<1>5. CASE Escalate
  <2>1. /\ decision # None /\ decision \in Decision
        /\ policy \in Policy
        /\ decision' \in NextRoute(decision, policy)
        /\ policy' = policy /\ task' = task
    BY <1>5, EscalateRoutes
  <2>2. /\ decision' \in Decision /\ Canonical(decision')
        /\ decision'.selection = "automatic_escalation"
        /\ decision'.tier = decision.next
        /\ decision'.escalations = decision.escalations + 1
    BY <2>1, NextRouteHolds
  <2>3. decision.escalations \in Nat
    BY <2>1, DecisionIsRecord
  <2>4. RoutingTypeOK'
    BY <1>0, <1>1, <2>1, <2>2 DEF RoutingTypeOK
  <2>5. RouteFitsTask' /\ decision'.escalations # 0
    BY <2>1, <2>2, <2>3 DEF RoutingInv, RouteFitsTask
  <2> QED
    BY <2>4, <2>5 DEF RoutingInv
<1>6. CASE Retire
  <2>1. policy' = policy /\ task' = task /\ decision' = None
    BY <1>6 DEF Retire
  <2> QED
    BY <1>0, <1>1, <2>1 DEF RoutingInv, RoutingTypeOK, RouteFitsTask
<1> QED
  BY <1>2, <1>3, <1>4, <1>5, <1>6 DEF RoutingNext

LEMMA RoutingInitially == RoutingInit => RoutingInv
BY InputAssumption, RoutesAreCanonical
   DEF RoutingInv, RoutingInit, RoutingTypeOK, RouteFitsTask

\* Every receipt is one its reader accepts, and no decision that route_task or
\* next_route makes is refused by write_decision.
THEOREM RoutingTypeCorrect == RoutingSpec => []RoutingTypeOK
<1>1. RoutingInit => RoutingInv
  BY RoutingInitially
<1>2. RoutingInv /\ [RoutingNext]_routingVars => RoutingInv'
  BY RoutingInductive
<1>3. RoutingInv => RoutingTypeOK
  BY DEF RoutingInv
<1> QED
  BY <1>1, <1>2, <1>3, PTL DEF RoutingSpec

\* An automatic route meets the demand of its task or names the ceiling that cut
\* it, and the task's own ceiling holds up to the first step up, under any
\* policies an operator writes in between.
THEOREM RouteFitsTaskAlways == RoutingSpec => []RouteFitsTask
<1>1. RoutingInit => RoutingInv
  BY RoutingInitially
<1>2. RoutingInv /\ [RoutingNext]_routingVars => RoutingInv'
  BY RoutingInductive
<1>3. RoutingInv => RouteFitsTask
  BY DEF RoutingInv
<1> QED
  BY <1>1, <1>2, <1>3, PTL DEF RoutingSpec

\* A worker gets only models and tiers that the policy of that moment allows,
\* one tier up at a time and in the budgets of the receipt and of the policy.
THEOREM EveryRouteIsAllowedAlways == RoutingSpec => EveryRouteIsAllowed
<1> DEFINE Allowed ==
        decision' # decision /\ decision' # None =>
            /\ decision'.model = policy.models[decision'.tier]
            /\ decision'.model \in policy.allowed /\ decision'.tier <= Cap(policy)
            /\ decision # None =>
                /\ decision'.tier = decision.tier + 1
                /\ decision'.attempts
                     <= Smaller(decision.maxAttempts, Attempts(policy))
                /\ decision'.escalations
                     <= Smaller(decision.maxEscalations, Escalations(policy))
<1>1. RoutingInit => RoutingInv
  BY RoutingInitially
<1>2. RoutingInv /\ [RoutingNext]_routingVars => RoutingInv'
  BY RoutingInductive
<1>3. RoutingInv /\ [RoutingNext]_routingVars => [Allowed]_routingVars
  <2> SUFFICES ASSUME RoutingInv, [RoutingNext]_routingVars,
                      decision' # decision, decision' # None
               PROVE  Allowed
    OBVIOUS
  <2>1. CASE SpawnRouted
    BY <2>1, SpawnRoutes DEF Frozen
  <2>2. CASE Escalate
    BY <2>2, EscalateRoutes, NextRouteHolds
  <2>3. SpawnRouted \/ Escalate
    BY DEF RoutingNext, EditPolicy, Retire, routingVars
  <2> QED
    BY <2>1, <2>2, <2>3
<1> QED
  BY <1>1, <1>2, <1>3, PTL DEF RoutingSpec, EveryRouteIsAllowed
=============================================================================
