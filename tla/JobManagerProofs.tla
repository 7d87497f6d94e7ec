-------------------------- MODULE JobManagerProofs --------------------------
(***************************************************************************)
(* Theorems about JobManager, for any number of jobs, sources and permits. *)
(***************************************************************************)
EXTENDS JobManager, FiniteSetTheorems, SequenceTheorems, TLAPS

USE DEF LC!JobState, LC!Live, LC!Terminal, LC!NoJob

-----------------------------------------------------------------------------
(***************************************************************************)
(* The edits to the Job object keep it a row.                              *)
(***************************************************************************)
LEMMA ToRow ==
  ASSUME NEW r \in Row, NEW s \in LC!JobState
  PROVE  To(r, s) \in Row /\ To(r, s).state = s
BY DEF To, Row

LEMMA NewRowRow == NewRow \in Row
<1>1. <<>> \in Seq(Attempt)
  BY EmptySeq
<1>. QED BY <1>1 DEF NewRow, Row

LEMMA SucceededRow ==
  ASSUME NEW r \in Row, NEW key \in Sources \cup {NoSource}
  PROVE  Succeeded(r, key) \in Row
BY DEF Succeeded, To, Row

LEMMA FailedRow ==
  ASSUME NEW r \in Row
  PROVE  Failed(r) \in Row
BY DEF Failed, To, Row

LEMMA GuardedRow ==
  ASSUME NEW r \in Row
  PROVE  Guarded(r) \in Row
BY DEF Guarded, To, Row

LEMMA AddAttemptRow ==
  ASSUME NEW r \in Row, NEW index \in Int, NEW src \in Sources \cup {NoSource},
         NEW tb \in BOOLEAN
  PROVE  AddAttempt(r, index, src, tb) \in Row
<1>. DEFINE a == [index |-> index, source |-> src, traceback |-> tb,
                  escalated |-> r.escalated]
<1>0. index + 1 \in Int
  OBVIOUS
<1>1. a \in Attempt /\ r.trace \in Seq(Attempt)
  BY DEF Attempt, Row
<1>2. Append(r.trace, a) \in Seq(Attempt)
  BY <1>1, AppendProperties
<1>3. ASSUME NEW t \in Seq(Attempt), NEW k \in Int
      PROVE  [r EXCEPT !.attempt = k, !.trace = t] \in Row
  BY <1>3 DEF Row
<1>4. AddAttempt(r, index, src, tb) =
        [r EXCEPT !.attempt = index + 1, !.trace = Append(r.trace, a)]
  BY DEF AddAttempt
<1>. QED BY <1>2, <1>3, <1>4, <1>0

\* Marking the candidate at any position keeps the history a sequence.
LEMMA MarkedHistory ==
  ASSUME NEW h \in Seq(Candidate), NEW n, NEW mode \in Modes
  PROVE  MarkAt(h, n, mode) \in Seq(Candidate)
<1>1. /\ Len(h) \in Nat
      /\ \A f \in [1..Len(h) -> Candidate] : f \in Seq(Candidate)
      /\ h \in [1..Len(h) -> Candidate]
  BY LenProperties, SeqDef
<1>2. CASE n \in 1..Len(h)
  <2>1. h[n] \in Candidate
    BY <1>1, <1>2
  <2>2. [source |-> h[n].source, passed |-> h[n].passed \cup {mode}] \in Candidate
    BY <2>1 DEF Candidate
  <2>. QED BY <1>1, <1>2, <2>2 DEF MarkAt
<1>3. CASE n \notin 1..Len(h)
  BY <1>1, <1>3 DEF MarkAt
<1>. QED BY <1>2, <1>3

-----------------------------------------------------------------------------
(***************************************************************************)
(* Type correctness, one building block of the handlers at a time.         *)
(***************************************************************************)
LEMMA PoolType ==
  ASSUME TypeOK, NEW j \in Jobs
  PROVE  /\ Pool(j) \in Pools
         /\ IsGenerate(j) => req[j].budget \in Int
         /\ IsRender(j) => req[j] \in [tool : {"render"}, source : Sources,
                                       scene : Scenes \cup {NoScene}]
BY ConstantsOK DEF TypeOK, Requests, Pool, Pools, IsGenerate, IsRender

LEMMA SaveType ==
  ASSUME TypeOK, NEW j \in Jobs, NEW r \in Row, Save(j, r)
  PROVE  mem' \in [Jobs -> Row] /\ row' \in [Jobs -> Row]
BY DEF TypeOK, Save

LEMMA SuspendType ==
  ASSUME TypeOK, NEW j \in Jobs, NEW at \in Awaits, Suspend(j, at)
  PROVE  /\ task' \in [Jobs -> {"none", "queued", "done"} \cup Awaits]
         /\ permits' \in [Pools -> SUBSET Jobs]
         /\ containers' \in [Jobs -> Modes \cup {Idle}]
BY PoolType DEF TypeOK, Suspend, Awaits

LEMMA EndType ==
  ASSUME TypeOK, NEW j \in Jobs, End(j)
  PROVE  /\ task' \in [Jobs -> {"none", "queued", "done"} \cup Awaits]
         /\ permits' \in [Pools -> SUBSET Jobs]
         /\ containers' \in [Jobs -> Modes \cup {Idle}]
BY PoolType DEF TypeOK, End, Release

LEMMA AdmissionType ==
  ASSUME TypeOK, NEW j \in Jobs, Admission(j)
  PROVE  line' \in [Pools -> Seq(Jobs)]
<1>1. Tail(line[Pool(j)]) \in Seq(Jobs)
  BY PoolType, HeadTailProperties DEF TypeOK, Admission
<1>. QED BY <1>1 DEF TypeOK, Admission

LEMMA HistoryType ==
  ASSUME TypeOK, NEW j \in Jobs
  PROVE  /\ \A mode \in Modes : Passed(j, mode) => history' \in [Jobs -> Seq(Candidate)]
         /\ \A src \in Sources : Tested(j, src) => history' \in [Jobs -> Seq(Candidate)]
<1>1. \A mode \in Modes : MarkAt(history[j], Len(history[j]), mode) \in Seq(Candidate)
  BY MarkedHistory DEF TypeOK
<1>2. ASSUME NEW src \in Sources
      PROVE  Append(history[j], [source |-> src, passed |-> {}]) \in Seq(Candidate)
  <2>1. [source |-> src, passed |-> {}] \in Candidate
    BY DEF Candidate
  <2>2. history[j] \in Seq(Candidate)
    BY DEF TypeOK
  <2>. QED BY <2>1, <2>2, AppendProperties
<1>. QED BY <1>1, <1>2 DEF TypeOK, Passed, Tested

LEMMA RetryType ==
  ASSUME TypeOK, NEW j \in Jobs, IsGenerate(j), NEW r \in Row,
         NEW src \in Sources \cup {NoSource}, Retry(j, r, src)
  PROVE  /\ task' \in [Jobs -> {"none", "queued", "done"} \cup Awaits]
         /\ permits' \in [Pools -> SUBSET Jobs]
         /\ containers' \in [Jobs -> Modes \cup {Idle}]
         /\ mem' \in [Jobs -> Row] /\ row' \in [Jobs -> Row]
         /\ cand' \in [Jobs -> [index : Int, source : Sources \cup {NoSource}]]
         /\ egress' \in SUBSET Jobs
<1>1. To(r, "CANCELLED") \in Row /\ To(r, "GENERATING") \in Row /\ Failed(r) \in Row
  BY ToRow, FailedRow
<1>2. \/ /\ Finish(j, To(r, "CANCELLED"))
         /\ UNCHANGED <<cand, egress>>
      \/ /\ Save(j, To(r, "GENERATING"))
         /\ Suspend(j, "generator")
         /\ cand' = [cand EXCEPT ![j] = [index |-> cand[j].index + 1, source |-> src]]
         /\ UNCHANGED egress
      \/ /\ Save(j, To(r, "GENERATING"))
         /\ Suspend(j, "escalation")
         /\ cand' = [cand EXCEPT ![j] = [index |-> req[j].budget, source |-> src]]
         /\ egress' = egress \cup {j}
      \/ /\ Finish(j, Failed(r))
         /\ UNCHANGED <<cand, egress>>
  BY DEF Retry
<1>3. cand[j].index + 1 \in Int /\ req[j].budget \in Int
  BY PoolType DEF TypeOK
<1>4. "generator" \in Awaits /\ "escalation" \in Awaits
  BY DEF Awaits
<1>5. mem' \in [Jobs -> Row] /\ row' \in [Jobs -> Row]
  BY <1>1, <1>2, SaveType DEF Finish
<1>6. /\ task' \in [Jobs -> {"none", "queued", "done"} \cup Awaits]
      /\ permits' \in [Pools -> SUBSET Jobs]
      /\ containers' \in [Jobs -> Modes \cup {Idle}]
  BY <1>2, <1>4, SuspendType, EndType DEF Finish
<1>7. cand' \in [Jobs -> [index : Int, source : Sources \cup {NoSource}]]
  <2>. DEFINE L == [index : Int, source : Sources \cup {NoSource}]
  <2>1. \A k \in Int : [index |-> k, source |-> src] \in L
    OBVIOUS
  <2>2. cand \in [Jobs -> L]
    BY DEF TypeOK
  <2>3. \A l \in L : [cand EXCEPT ![j] = l] \in [Jobs -> L]
    BY <2>2
  <2>. QED BY <1>2, <1>3, <2>1, <2>2, <2>3
<1>8. egress' \in SUBSET Jobs
  BY <1>2 DEF TypeOK
<1>. QED BY <1>5, <1>6, <1>7, <1>8

LEMMA StartCandidateType ==
  ASSUME TypeOK, NEW j \in Jobs, IsGenerate(j), NEW r \in Row,
         NEW src \in Sources, StartCandidate(j, r, src)
  PROVE  /\ task' \in [Jobs -> {"none", "queued", "done"} \cup Awaits]
         /\ permits' \in [Pools -> SUBSET Jobs]
         /\ containers' \in [Jobs -> Modes \cup {Idle}]
         /\ mem' \in [Jobs -> Row] /\ row' \in [Jobs -> Row]
         /\ cand' \in [Jobs -> [index : Int, source : Sources \cup {NoSource}]]
         /\ egress' \in SUBSET Jobs
         /\ history' \in [Jobs -> Seq(Candidate)]
<1>1. history' \in [Jobs -> Seq(Candidate)]
  BY HistoryType DEF StartCandidate
<1>2. CASE src \notin Accepted
  <2>1. AddAttempt(r, cand[j].index, src, TRUE) \in Row
    BY AddAttemptRow DEF TypeOK
  <2>. QED BY <1>1, <1>2, <2>1, RetryType DEF StartCandidate
<1>3. CASE src \in Accepted
  <2>1. To(r, "CANCELLED") \in Row /\ To(r, "RENDERING") \in Row /\ "probe" \in Awaits
    BY ToRow DEF Awaits, Modes
  <2>2. /\ cand' = [cand EXCEPT ![j].source = src]
        /\ egress' = egress
        /\ \/ Finish(j, To(r, "CANCELLED"))
           \/ Save(j, To(r, "RENDERING")) /\ Suspend(j, "probe")
    BY <1>3 DEF StartCandidate
  <2>3. /\ mem' \in [Jobs -> Row] /\ row' \in [Jobs -> Row]
        /\ task' \in [Jobs -> {"none", "queued", "done"} \cup Awaits]
        /\ permits' \in [Pools -> SUBSET Jobs]
        /\ containers' \in [Jobs -> Modes \cup {Idle}]
    BY <2>1, <2>2, SaveType, SuspendType, EndType DEF Finish
  <2>4. cand' \in [Jobs -> [index : Int, source : Sources \cup {NoSource}]]
        /\ egress' \in SUBSET Jobs
    BY <2>2 DEF TypeOK
  <2>. QED BY <1>1, <2>3, <2>4
<1>. QED BY <1>2, <1>3

LEMMA PutType ==
  ASSUME TypeOK, NEW key, NEW scene \in Scenes \cup {NoScene}, Put(key, scene)
  PROVE  store' \in [Sources -> Scenes \cup {NoScene, NoArtifact}]
BY DEF TypeOK, Put

LEMMA ResolvedType ==
  ASSUME NEW q \in [tool : {"render"}, source : Sources, scene : Scenes \cup {NoScene}]
  PROVE  Resolved(q) \in Scenes \cup {NoScene}
<1>1. CASE q.scene = NoScene /\ ScenesIn[q.source] # {}
  <2>1. ScenesIn[q.source] \subseteq Scenes
    BY ConstantsOK
  <2>. QED BY <1>1, <2>1 DEF Resolved
<1>2. CASE ~(q.scene = NoScene /\ ScenesIn[q.source] # {})
  BY <1>2 DEF Resolved
<1>. QED BY <1>1, <1>2

-----------------------------------------------------------------------------
(***************************************************************************)
(* Type correctness, action by action.                                     *)
(***************************************************************************)
LEMMA SubmitType == ASSUME TypeOK, NEW j \in Jobs, Submit(j) PROVE TypeOK'
<1>1. To(NewRow, "QUEUED") \in Row
  BY NewRowRow, ToRow
<1>2. mem' \in [Jobs -> Row] /\ row' \in [Jobs -> Row]
  BY <1>1, SaveType DEF Submit
<1>3. Append(line[Pool(j)], j) \in Seq(Jobs)
  BY PoolType, AppendProperties DEF TypeOK
<1>4. line' \in [Pools -> Seq(Jobs)]
  BY <1>3 DEF TypeOK, Submit
<1>5. task' \in [Jobs -> {"none", "queued", "done"} \cup Awaits]
  BY DEF TypeOK, Submit
<1>. QED BY <1>2, <1>4, <1>5 DEF TypeOK, Submit, Requests

LEMMA CancelType == ASSUME TypeOK, NEW j \in Jobs, Cancel(j) PROVE TypeOK'
<1>1. ASSUME containers[j] # Idle
      PROVE  [job |-> j, mode |-> containers[j], nth |-> Len(history[j])] \in Kill
  <2>1. containers[j] \in Modes
    BY <1>1 DEF TypeOK
  <2>2. Len(history[j]) \in Nat
    BY LenProperties DEF TypeOK
  <2>. QED BY <2>1, <2>2 DEF Kill
<1>2. kills' \in SUBSET Kill
  BY <1>1 DEF Cancel, TypeOK
<1>3. cancelled' \in SUBSET Jobs
  BY DEF Cancel, TypeOK
<1>. QED BY <1>2, <1>3 DEF TypeOK, Cancel, workerVars, Requests

LEMMA RenderStepType == ASSUME TypeOK, NEW j \in Jobs, RenderStep(j) PROVE TypeOK'
<1>1. /\ IsRender(j)
      /\ req[j] \in [tool : {"render"}, source : Sources, scene : Scenes \cup {NoScene}]
      /\ mem[j] \in Row
      /\ "full" \in Modes /\ "full" \in Awaits
  BY PoolType DEF RenderStep, TypeOK, Modes, Awaits
<1>2. CASE BeginRender(j)
  <2>1. /\ To(mem[j], "CANCELLED") \in Row /\ To(mem[j], "RENDERING") \in Row
        /\ Failed(mem[j]) \in Row /\ Succeeded(mem[j], req[j].source) \in Row
    BY <1>1, ToRow, FailedRow, SucceededRow
  <2>2. mem' \in [Jobs -> Row] /\ row' \in [Jobs -> Row]
    BY <1>2, <2>1, SaveType DEF BeginRender, Finish
  <2>3. /\ task' \in [Jobs -> {"none", "queued", "done"} \cup Awaits]
        /\ permits' \in [Pools -> SUBSET Jobs]
        /\ containers' \in [Jobs -> Modes \cup {Idle}]
    BY <1>1, <1>2, SuspendType, EndType DEF BeginRender, Finish
  <2>4. history' \in [Jobs -> Seq(Candidate)]
    BY <1>1, <1>2, HistoryType DEF BeginRender, TypeOK
  <2>5. cand' \in [Jobs -> [index : Int, source : Sources \cup {NoSource}]]
    <3>1. cand' = cand \/ cand' = [cand EXCEPT ![j].source = req[j].source]
      BY <1>2 DEF BeginRender
    <3>2. req[j].source \in Sources
      BY <1>1
    <3>3. /\ cand \in [Jobs -> [index : Int, source : Sources \cup {NoSource}]]
          /\ \A src \in Sources : [cand[j] EXCEPT !.source = src]
                                  \in [index : Int, source : Sources \cup {NoSource}]
      BY DEF TypeOK
    <3>. QED BY <3>1, <3>2, <3>3
  <2>6. line' \in [Pools -> Seq(Jobs)]
    BY <1>2, AdmissionType DEF BeginRender
  <2>. QED BY <1>2, <2>2, <2>3, <2>4, <2>5, <2>6 DEF TypeOK, BeginRender, Requests
<1>3. CASE EndRender(j)
  <2>1. PICK ok \in BOOLEAN :
          LET r == AddAttempt(mem[j], 0, cand[j].source, ~ok)
          IN /\ IF ok THEN Passed(j, "full") ELSE history' = history
             /\ \/ Finish(j, To(r, "CANCELLED")) /\ store' = store
                \/ /\ Put(cand[j].source, Resolved(req[j]))
                   /\ Finish(j, Succeeded(r, cand[j].source))
                \/ Finish(j, Failed(r)) /\ store' = store
    BY <1>3 DEF EndRender
  <2>. DEFINE r == AddAttempt(mem[j], 0, cand[j].source, ~ok)
  <2>2. cand[j].source \in Sources \cup {NoSource}
    BY DEF TypeOK
  <2>3. r \in Row
    <3>1. 0 \in Int /\ (~ok) \in BOOLEAN
      OBVIOUS
    <3>. QED BY <1>1, <2>2, <3>1, AddAttemptRow
  <2>4. /\ To(r, "CANCELLED") \in Row /\ Failed(r) \in Row
        /\ Succeeded(r, cand[j].source) \in Row
    BY <2>2, <2>3, ToRow, FailedRow, SucceededRow
  <2>5. mem' \in [Jobs -> Row] /\ row' \in [Jobs -> Row]
    BY <2>1, <2>4, SaveType DEF Finish
  <2>6. /\ task' \in [Jobs -> {"none", "queued", "done"} \cup Awaits]
        /\ permits' \in [Pools -> SUBSET Jobs]
        /\ containers' \in [Jobs -> Modes \cup {Idle}]
    BY <2>1, EndType DEF Finish
  <2>7. history' \in [Jobs -> Seq(Candidate)]
    BY <1>1, <2>1, HistoryType DEF TypeOK
  <2>8. store' \in [Sources -> Scenes \cup {NoScene, NoArtifact}]
    BY <1>1, <2>1, ResolvedType, PutType DEF TypeOK
  <2>. QED BY <1>3, <2>5, <2>6, <2>7, <2>8 DEF TypeOK, EndRender, Requests
<1>. QED BY <1>2, <1>3 DEF RenderStep

LEMMA GenerateStepType == ASSUME TypeOK, NEW j \in Jobs, GenerateStep(j) PROVE TypeOK'
<1>1. /\ IsGenerate(j)
      /\ mem[j] \in Row
      /\ cand[j].index \in Int
      /\ cand[j].source \in Sources \cup {NoSource}
      /\ NoScene \in Scenes \cup {NoScene}
  BY DEF GenerateStep, TypeOK
<1>2. /\ {"grounding", "generator", "probe", "full"} \subseteq Awaits
      /\ {"probe", "full"} \subseteq Modes
  BY DEF Awaits, Modes
<1>3. To(mem[j], "CANCELLED") \in Row /\ To(mem[j], "GENERATING") \in Row
  BY <1>1, ToRow
<1>4. CASE BeginGenerate(j)
  <2>1. /\ mem' \in [Jobs -> Row] /\ row' \in [Jobs -> Row]
        /\ task' \in [Jobs -> {"none", "queued", "done"} \cup Awaits]
        /\ permits' \in [Pools -> SUBSET Jobs]
        /\ containers' \in [Jobs -> Modes \cup {Idle}]
    BY <1>2, <1>3, <1>4, SaveType, SuspendType, EndType DEF BeginGenerate, Finish, TypeOK
  <2>2. line' \in [Pools -> Seq(Jobs)]
    BY <1>4, AdmissionType DEF BeginGenerate
  <2>. QED BY <1>4, <2>1, <2>2 DEF TypeOK, BeginGenerate, Requests
<1>5. CASE Grounded(j)
  <2>1. /\ mem' \in [Jobs -> Row] /\ row' \in [Jobs -> Row]
        /\ task' \in [Jobs -> {"none", "queued", "done"} \cup Awaits]
        /\ permits' \in [Pools -> SUBSET Jobs]
        /\ containers' \in [Jobs -> Modes \cup {Idle}]
    BY <1>2, <1>3, <1>5, SaveType, SuspendType, EndType DEF Grounded, Finish
  <2>. QED BY <1>5, <2>1 DEF TypeOK, Grounded, Requests
<1>6. CASE Generated(j)
  <2>1. PICK src \in Sources : StartCandidate(j, mem[j], src)
    BY <1>6 DEF Generated
  <2>. QED BY <1>1, <1>6, <2>1, StartCandidateType DEF TypeOK, Generated, Requests
<1>7. CASE Escalated(j)
  <2>1. PICK src \in Sources : StartCandidate(j, [mem[j] EXCEPT !.escalated = TRUE], src)
    BY <1>7 DEF Escalated
  <2>2. [mem[j] EXCEPT !.escalated = TRUE] \in Row
    BY <1>1 DEF Row
  <2>3. receipts' \in SUBSET Jobs
    BY <1>7 DEF Escalated, TypeOK
  <2>. QED BY <1>1, <1>7, <2>1, <2>2, <2>3, StartCandidateType DEF TypeOK, Escalated, Requests
<1>8. CASE Probed(j)
  <2>. DEFINE r == AddAttempt(mem[j], cand[j].index, cand[j].source, TRUE)
  <2>1. r \in Row
    BY <1>1, AddAttemptRow
  <2>2. CASE Retry(j, r, cand[j].source) /\ UNCHANGED history
    BY <1>1, <1>8, <2>1, <2>2, RetryType DEF TypeOK, Probed, Requests
  <2>3. CASE /\ Passed(j, "probe")
             /\ UNCHANGED <<cand, egress>>
             /\ \/ Finish(j, To(mem[j], "CANCELLED"))
                \/ Suspend(j, "full") /\ UNCHANGED <<mem, row>>
    <3>1. /\ mem' \in [Jobs -> Row] /\ row' \in [Jobs -> Row]
          /\ task' \in [Jobs -> {"none", "queued", "done"} \cup Awaits]
          /\ permits' \in [Pools -> SUBSET Jobs]
          /\ containers' \in [Jobs -> Modes \cup {Idle}]
      BY <1>2, <1>3, <2>3, SaveType, SuspendType, EndType DEF Finish, TypeOK
    <3>2. history' \in [Jobs -> Seq(Candidate)]
      BY <1>2, <2>3, HistoryType
    <3>. QED BY <1>8, <2>3, <3>1, <3>2 DEF TypeOK, Probed, Requests
  <2>. QED BY <1>8, <2>2, <2>3 DEF Probed
<1>9. CASE EndGenerate(j)
  <2>1. PICK ok \in BOOLEAN :
          LET r == AddAttempt(mem[j], cand[j].index, cand[j].source, ~ok)
          IN /\ IF ok THEN Passed(j, "full") ELSE history' = history
             /\ \/ Finish(j, To(r, "CANCELLED")) /\ UNCHANGED <<cand, egress, store>>
                \/ /\ Put(cand[j].source, NoScene)
                   /\ Finish(j, Succeeded(r, cand[j].source))
                   /\ UNCHANGED <<cand, egress>>
                \/ Retry(j, r, cand[j].source) /\ store' = store
    BY <1>9 DEF EndGenerate
  <2>. DEFINE r == AddAttempt(mem[j], cand[j].index, cand[j].source, ~ok)
  <2>2. r \in Row
    <3>1. (~ok) \in BOOLEAN
      OBVIOUS
    <3>. QED BY <1>1, <3>1, AddAttemptRow
  <2>3. To(r, "CANCELLED") \in Row /\ Succeeded(r, cand[j].source) \in Row
    BY <1>1, <2>2, ToRow, SucceededRow
  <2>4. history' \in [Jobs -> Seq(Candidate)]
    BY <1>2, <2>1, HistoryType DEF TypeOK
  <2>5. store' \in [Sources -> Scenes \cup {NoScene, NoArtifact}]
    BY <1>1, <2>1, PutType DEF TypeOK
  <2>6. /\ mem' \in [Jobs -> Row] /\ row' \in [Jobs -> Row]
        /\ task' \in [Jobs -> {"none", "queued", "done"} \cup Awaits]
        /\ permits' \in [Pools -> SUBSET Jobs]
        /\ containers' \in [Jobs -> Modes \cup {Idle}]
        /\ cand' \in [Jobs -> [index : Int, source : Sources \cup {NoSource}]]
        /\ egress' \in SUBSET Jobs
    <3>1. CASE Finish(j, To(r, "CANCELLED")) /\ UNCHANGED <<cand, egress, store>>
      BY <2>3, <3>1, SaveType, EndType DEF Finish, TypeOK
    <3>2. CASE /\ Finish(j, Succeeded(r, cand[j].source))
               /\ UNCHANGED <<cand, egress>>
      BY <2>3, <3>2, SaveType, EndType DEF Finish, TypeOK
    <3>3. CASE Retry(j, r, cand[j].source)
      BY <1>1, <2>2, <3>3, RetryType
    <3>. QED BY <2>1, <3>1, <3>2, <3>3
  <2>. QED BY <1>9, <2>4, <2>5, <2>6 DEF TypeOK, EndGenerate, Requests
<1>. QED BY <1>4, <1>5, <1>6, <1>7, <1>8, <1>9 DEF GenerateStep

LEMMA RaiseType == ASSUME TypeOK, NEW j \in Jobs, Raise(j) PROVE TypeOK'
<1>1. Guarded(row[j]) \in Row
  BY GuardedRow DEF TypeOK
<1>2. row' \in [Jobs -> Row] /\ mem' = mem
  BY <1>1 DEF Raise, Guard, TypeOK
<1>3. /\ task' \in [Jobs -> {"none", "queued", "done"} \cup Awaits]
      /\ permits' \in [Pools -> SUBSET Jobs]
      /\ containers' \in [Jobs -> Modes \cup {Idle}]
  BY EndType DEF Raise, Guard
<1>4. line' \in [Pools -> Seq(Jobs)]
  BY AdmissionType DEF Raise, TypeOK
<1>. QED BY <1>2, <1>3, <1>4 DEF TypeOK, Raise, Requests

LEMMA ReapType ==
  ASSUME TypeOK, NEW keys, NEW elapsed, Reap(keys, elapsed)
  PROVE  TypeOK'
<1>1. \A r \in Row : [To(r, "EXPIRED") EXCEPT !.artifact = NoSource] \in Row
  BY DEF To, Row
<1>2. row' \in [Jobs -> Row]
  BY <1>1 DEF Reap, TypeOK
<1>3. store' \in [Sources -> Scenes \cup {NoScene, NoArtifact}]
  BY DEF Reap, TypeOK
<1>. QED BY <1>2, <1>3 DEF TypeOK, Reap, Requests

\* Every variable keeps its shape: in particular every saved row is a Job and
\* no handler indexes outside the pools, the sources or the jobs.
THEOREM TypeCorrect == Spec => []TypeOK
<1>1. Init => TypeOK
  BY NewRowRow, EmptySeq, ConstantsOK DEF Init, TypeOK, Requests
<1>2. TypeOK /\ [Next]_vars => TypeOK'
  <2>. SUFFICES ASSUME TypeOK, [Next]_vars PROVE TypeOK'
    OBVIOUS
  <2>1. ASSUME NEW j \in Jobs,
               Submit(j) \/ Cancel(j) \/ RenderStep(j) \/ GenerateStep(j) \/ Raise(j)
        PROVE  TypeOK'
    BY <2>1, SubmitType, CancelType, RenderStepType, GenerateStepType, RaiseType
  <2>2. ASSUME NEW k \in kills, KillDone(k) PROVE TypeOK'
    BY <2>2 DEF KillDone, TypeOK, workerVars, Requests
  <2>3. ASSUME NEW keys, NEW elapsed, Reap(keys, elapsed) PROVE TypeOK'
    BY <2>3, ReapType
  <2>4. CASE UNCHANGED vars
    BY <2>4 DEF vars, TypeOK, Requests
  <2>. QED BY <2>1, <2>2, <2>3, <2>4 DEF Next, Terminating
<1>. QED BY <1>1, <1>2, PTL DEF Spec

-----------------------------------------------------------------------------
(***************************************************************************)
(* The inductive invariant.  Each part is an invariant the runs check; they*)
(* need each other: a worker's next row is built from its object, so what  *)
(* a step does to the row is known only where the two are equal, and the   *)
(* object's state only where the status matches the await.                 *)
(***************************************************************************)
IInv ==
  /\ TypeOK
  /\ PermitsExact
  /\ StatusMatchesWork
  /\ RowsFresh
  /\ ResultsOnFinished
  /\ CancelNeverSucceeds

StateAt(at) ==
  IF at = "grounding" THEN "QUEUED" ELSE IF at \in Modes THEN "RENDERING" ELSE "GENERATING"

\* What a step of a worker amounts to, whichever handler it ran.
GoesOn(j) ==
  \E at \in Awaits : \E r \in Row :
    /\ Suspend(j, at) /\ Save(j, r) /\ ~CheckCancel(j)
    /\ r.state = StateAt(at) /\ r.artifact = NoSource /\ ~r.expires
    /\ at = "grounding" => task[j] = "queued"
EndsItself(j) ==
  \E r \in Row :
    /\ Finish(j, r)
    /\ r.state \in {"SUCCEEDED", "FAILED", "CANCELLED"}
    /\ r.artifact # NoSource => r.state = "SUCCEEDED"
    /\ CheckCancel(j) => r.state # "SUCCEEDED"
WorkerStep(j) == GoesOn(j) \/ EndsItself(j) \/ Guard(j)

\* A live worker's object: saved, unfinished, in the state its await calls for.
Unfinished(r) == r \in Row /\ r.artifact = NoSource /\ ~r.expires

LEMMA LiveObject ==
  ASSUME IInv, NEW j \in Jobs, task[j] \in Awaits \cup {"queued"}
  PROVE  /\ Unfinished(mem[j])
         /\ row[j] = mem[j]
         /\ mem[j].state = IF task[j] = "queued" THEN "QUEUED" ELSE StateAt(task[j])
<1>1. row[j] = mem[j] /\ mem[j] \in Row
  BY DEF IInv, RowsFresh, TypeOK
<1>2. mem[j].state = IF task[j] = "queued" THEN "QUEUED" ELSE StateAt(task[j])
  BY <1>1 DEF IInv, StatusMatchesWork, StateAt, Awaits, Modes
<1>3. task[j] # "done"
  BY DEF Awaits, Modes
<1>4. row[j].state \notin LC!Terminal
  BY <1>3 DEF IInv, ResultsOnFinished
<1>. QED BY <1>1, <1>2, <1>4 DEF IInv, ResultsOnFinished, Unfinished

LEMMA EditsUnfinished ==
  ASSUME NEW r, Unfinished(r)
  PROVE  /\ \A s \in LC!JobState : Unfinished(To(r, s)) /\ To(r, s).state = s
         /\ \A index \in Int, src \in Sources \cup {NoSource}, tb \in BOOLEAN :
              Unfinished(AddAttempt(r, index, src, tb))
         /\ Failed(r) \in Row /\ Failed(r).state = "FAILED" /\ Failed(r).artifact = NoSource
         /\ \A key \in Sources \cup {NoSource} :
              Succeeded(r, key) \in Row /\ Succeeded(r, key).state = "SUCCEEDED"
<1>1. \A s \in LC!JobState : Unfinished(To(r, s)) /\ To(r, s).state = s
  BY ToRow DEF Unfinished, To, Row
<1>2. ASSUME NEW index \in Int, NEW src \in Sources \cup {NoSource}, NEW tb \in BOOLEAN
      PROVE  Unfinished(AddAttempt(r, index, src, tb))
  <2>1. AddAttempt(r, index, src, tb) \in Row
    BY AddAttemptRow DEF Unfinished
  <2>2. /\ AddAttempt(r, index, src, tb).artifact = r.artifact
        /\ AddAttempt(r, index, src, tb).expires = r.expires
    BY DEF AddAttempt, Unfinished, Row
  <2>. QED BY <2>1, <2>2 DEF Unfinished
<1>3. Failed(r) \in Row /\ Failed(r).state = "FAILED" /\ Failed(r).artifact = NoSource
  BY FailedRow DEF Unfinished, Failed, To, Row
<1>4. \A key \in Sources \cup {NoSource} :
        Succeeded(r, key) \in Row /\ Succeeded(r, key).state = "SUCCEEDED"
  BY SucceededRow DEF Unfinished, Succeeded, To, Row
<1>. QED BY <1>1, <1>2, <1>3, <1>4

LEMMA RetryStep ==
  ASSUME NEW j \in Jobs, NEW r, Unfinished(r), NEW src, Retry(j, r, src)
  PROVE  WorkerStep(j)
<1>1. \/ Finish(j, To(r, "CANCELLED"))
      \/ ~CheckCancel(j) /\ Save(j, To(r, "GENERATING")) /\ Suspend(j, "generator")
      \/ ~CheckCancel(j) /\ Save(j, To(r, "GENERATING")) /\ Suspend(j, "escalation")
      \/ Finish(j, Failed(r))
  BY DEF Retry
<1>2. CASE Finish(j, To(r, "CANCELLED"))
  BY <1>2, EditsUnfinished DEF WorkerStep, EndsItself, Unfinished
<1>3. CASE Finish(j, Failed(r))
  BY <1>3, EditsUnfinished DEF WorkerStep, EndsItself
<1>4. ASSUME NEW at \in {"generator", "escalation"},
             ~CheckCancel(j), Save(j, To(r, "GENERATING")), Suspend(j, at)
      PROVE  WorkerStep(j)
  <2>1. at \in Awaits /\ at # "grounding" /\ StateAt(at) = "GENERATING"
    BY DEF Awaits, StateAt, Modes
  <2>. QED BY <1>4, <2>1, EditsUnfinished DEF WorkerStep, GoesOn, Unfinished
<1>. QED BY <1>1, <1>2, <1>3, <1>4

LEMMA StartCandidateStep ==
  ASSUME TypeOK, NEW j \in Jobs, NEW r, Unfinished(r), NEW src \in Sources,
         StartCandidate(j, r, src)
  PROVE  WorkerStep(j)
<1>1. CASE src \notin Accepted
  <2>1. Unfinished(AddAttempt(r, cand[j].index, src, TRUE))
    BY EditsUnfinished DEF TypeOK
  <2>. QED BY <1>1, <2>1, RetryStep DEF StartCandidate
<1>2. CASE src \in Accepted
  <2>1. \/ Finish(j, To(r, "CANCELLED"))
        \/ ~CheckCancel(j) /\ Save(j, To(r, "RENDERING")) /\ Suspend(j, "probe")
    BY <1>2 DEF StartCandidate
  <2>2. CASE Finish(j, To(r, "CANCELLED"))
    BY <2>2, EditsUnfinished DEF WorkerStep, EndsItself, Unfinished
  <2>3. CASE ~CheckCancel(j) /\ Save(j, To(r, "RENDERING")) /\ Suspend(j, "probe")
    <3>1. "probe" \in Awaits /\ StateAt("probe") = "RENDERING"
      BY DEF Awaits, StateAt, Modes
    <3>. QED BY <2>3, <3>1, EditsUnfinished DEF WorkerStep, GoesOn, Unfinished
  <2>. QED BY <2>1, <2>2, <2>3
<1>. QED BY <1>1, <1>2

\* Suspending without a save is suspending with the object as it is.
LEMMA SaveUnchanged ==
  ASSUME TypeOK, NEW j \in Jobs, row[j] = mem[j], UNCHANGED <<mem, row>>
  PROVE  Save(j, mem[j])
BY DEF TypeOK, Save

LEMMA RenderStepStep ==
  ASSUME IInv, NEW j \in Jobs, RenderStep(j)
  PROVE  WorkerStep(j)
<1>1. task[j] \in Awaits \cup {"queued"}
  BY DEF RenderStep, BeginRender, EndRender, Admission, Awaits, Modes
<1>2. Unfinished(mem[j])
  BY <1>1, LiveObject
<1>3. TypeOK /\ "full" \in Awaits /\ StateAt("full") = "RENDERING"
  BY DEF IInv, Awaits, StateAt, Modes
<1>4. CASE BeginRender(j)
  <2>1. req[j].source \in Sources
    BY <1>3, PoolType DEF RenderStep
  <2>2. \/ Finish(j, To(mem[j], "CANCELLED"))
        \/ Finish(j, Failed(mem[j]))
        \/ ~CheckCancel(j) /\ Finish(j, Succeeded(mem[j], req[j].source))
        \/ ~CheckCancel(j) /\ Save(j, To(mem[j], "RENDERING")) /\ Suspend(j, "full")
    BY <1>4 DEF BeginRender
  <2>3. CASE Finish(j, To(mem[j], "CANCELLED"))
    BY <1>2, <2>3, EditsUnfinished DEF WorkerStep, EndsItself, Unfinished
  <2>4. CASE Finish(j, Failed(mem[j]))
    BY <1>2, <2>4, EditsUnfinished DEF WorkerStep, EndsItself
  <2>5. CASE ~CheckCancel(j) /\ Finish(j, Succeeded(mem[j], req[j].source))
    BY <1>2, <2>1, <2>5, EditsUnfinished DEF WorkerStep, EndsItself
  <2>6. CASE ~CheckCancel(j) /\ Save(j, To(mem[j], "RENDERING")) /\ Suspend(j, "full")
    BY <1>2, <1>3, <2>6, EditsUnfinished DEF WorkerStep, GoesOn, Unfinished
  <2>. QED BY <2>2, <2>3, <2>4, <2>5, <2>6
<1>5. CASE EndRender(j)
  <2>1. PICK ok \in BOOLEAN :
          LET r == AddAttempt(mem[j], 0, cand[j].source, ~ok)
          IN \/ Finish(j, To(r, "CANCELLED"))
             \/ ~CheckCancel(j) /\ Finish(j, Succeeded(r, cand[j].source))
             \/ Finish(j, Failed(r))
    BY <1>5 DEF EndRender
  <2>. DEFINE r == AddAttempt(mem[j], 0, cand[j].source, ~ok)
  <2>2. cand[j].source \in Sources \cup {NoSource} /\ 0 \in Int /\ (~ok) \in BOOLEAN
    BY <1>3 DEF TypeOK
  <2>3. Unfinished(r)
    BY <1>2, <2>2, EditsUnfinished
  <2>. HIDE DEF r
  <2>4. CASE Finish(j, To(r, "CANCELLED"))
    BY <2>3, <2>4, EditsUnfinished DEF WorkerStep, EndsItself, Unfinished
  <2>5. CASE ~CheckCancel(j) /\ Finish(j, Succeeded(r, cand[j].source))
    BY <2>2, <2>3, <2>5, EditsUnfinished DEF WorkerStep, EndsItself
  <2>6. CASE Finish(j, Failed(r))
    BY <2>3, <2>6, EditsUnfinished DEF WorkerStep, EndsItself
  <2>. QED BY <2>1, <2>4, <2>5, <2>6 DEF r
<1>. QED BY <1>4, <1>5 DEF RenderStep

LEMMA GenerateStepStep ==
  ASSUME IInv, NEW j \in Jobs, GenerateStep(j)
  PROVE  WorkerStep(j)
<1>1. task[j] \in Awaits \cup {"queued"}
  BY DEF GenerateStep, BeginGenerate, Grounded, Generated, Escalated, Probed, EndGenerate,
         Admission, Awaits, Modes
<1>2. Unfinished(mem[j]) /\ row[j] = mem[j]
      /\ mem[j].state = IF task[j] = "queued" THEN "QUEUED" ELSE StateAt(task[j])
  BY <1>1, LiveObject
<1>3. TypeOK
  BY DEF IInv
<1>4. cand[j].index \in Int /\ cand[j].source \in Sources \cup {NoSource}
  BY <1>3 DEF TypeOK
<1>5. CASE BeginGenerate(j)
  <2>1. CASE Finish(j, To(mem[j], "CANCELLED"))
    BY <1>2, <2>1, EditsUnfinished DEF WorkerStep, EndsItself, Unfinished
  <2>2. CASE ~CheckCancel(j) /\ Suspend(j, "grounding") /\ UNCHANGED <<mem, row>>
    <3>1. Save(j, mem[j])
      BY <1>2, <1>3, <2>2, SaveUnchanged
    <3>2. task[j] = "queued"
      BY <1>5 DEF BeginGenerate, Admission
    <3>3. "grounding" \in Awaits /\ mem[j].state = StateAt("grounding")
      BY <1>2, <3>2 DEF Awaits, StateAt
    <3>. QED BY <1>2, <2>2, <3>1, <3>2, <3>3 DEF WorkerStep, GoesOn, Unfinished
  <2>. QED BY <1>5, <2>1, <2>2 DEF BeginGenerate
<1>6. CASE Grounded(j)
  <2>1. CASE Finish(j, To(mem[j], "CANCELLED"))
    BY <1>2, <2>1, EditsUnfinished DEF WorkerStep, EndsItself, Unfinished
  <2>2. CASE ~CheckCancel(j) /\ Save(j, To(mem[j], "GENERATING")) /\ Suspend(j, "generator")
    <3>1. "generator" \in Awaits /\ StateAt("generator") = "GENERATING"
      BY DEF Awaits, StateAt, Modes
    <3>. QED BY <1>2, <2>2, <3>1, EditsUnfinished DEF WorkerStep, GoesOn, Unfinished
  <2>. QED BY <1>6, <2>1, <2>2 DEF Grounded
<1>7. CASE Generated(j)
  <2>1. PICK src \in Sources : StartCandidate(j, mem[j], src)
    BY <1>7 DEF Generated
  <2>. QED BY <1>2, <1>3, <2>1, StartCandidateStep
<1>8. CASE Escalated(j)
  <2>1. PICK src \in Sources : StartCandidate(j, [mem[j] EXCEPT !.escalated = TRUE], src)
    BY <1>8 DEF Escalated
  <2>2. Unfinished([mem[j] EXCEPT !.escalated = TRUE])
    BY <1>2 DEF Unfinished, Row
  <2>. QED BY <1>3, <2>1, <2>2, StartCandidateStep
<1>9. CASE Probed(j)
  <2>. DEFINE r == AddAttempt(mem[j], cand[j].index, cand[j].source, TRUE)
  <2>1. Unfinished(r)
    BY <1>2, <1>4, EditsUnfinished
  <2>2. CASE Retry(j, r, cand[j].source)
    BY <2>1, <2>2, RetryStep
  <2>3. CASE Finish(j, To(mem[j], "CANCELLED"))
    BY <1>2, <2>3, EditsUnfinished DEF WorkerStep, EndsItself, Unfinished
  <2>4. CASE ~CheckCancel(j) /\ Suspend(j, "full") /\ UNCHANGED <<mem, row>>
    <3>1. Save(j, mem[j])
      BY <1>2, <1>3, <2>4, SaveUnchanged
    <3>2. "full" \in Awaits /\ mem[j].state = StateAt("full")
      BY <1>2, <1>9 DEF Probed, Awaits, StateAt, Modes
    <3>. QED BY <1>2, <2>4, <3>1, <3>2 DEF WorkerStep, GoesOn, Unfinished
  <2>. QED BY <1>9, <2>2, <2>3, <2>4 DEF Probed
<1>10. CASE EndGenerate(j)
  <2>1. PICK ok \in BOOLEAN :
          LET r == AddAttempt(mem[j], cand[j].index, cand[j].source, ~ok)
          IN \/ Finish(j, To(r, "CANCELLED"))
             \/ ~CheckCancel(j) /\ Finish(j, Succeeded(r, cand[j].source))
             \/ Retry(j, r, cand[j].source)
    BY <1>10 DEF EndGenerate
  <2>. DEFINE r == AddAttempt(mem[j], cand[j].index, cand[j].source, ~ok)
  <2>2. (~ok) \in BOOLEAN
    OBVIOUS
  <2>3. Unfinished(r)
    BY <1>2, <1>4, <2>2, EditsUnfinished
  <2>. HIDE DEF r
  <2>4. CASE Finish(j, To(r, "CANCELLED"))
    BY <2>3, <2>4, EditsUnfinished DEF WorkerStep, EndsItself, Unfinished
  <2>5. CASE ~CheckCancel(j) /\ Finish(j, Succeeded(r, cand[j].source))
    BY <1>4, <2>3, <2>5, EditsUnfinished DEF WorkerStep, EndsItself
  <2>6. CASE Retry(j, r, cand[j].source)
    BY <2>3, <2>6, RetryStep
  <2>. QED BY <2>1, <2>4, <2>5, <2>6 DEF r
<1>. QED BY <1>5, <1>6, <1>7, <1>8, <1>9, <1>10 DEF GenerateStep

\* What every worker step leaves alone, and the permit it needed.
LEMMA WorkerFrame ==
  ASSUME NEW j \in Jobs, RenderStep(j) \/ GenerateStep(j) \/ Raise(j)
  PROVE  /\ UNCHANGED <<req, cancelled>>
         /\ task[j] \in Awaits \cup {"queued"}
         /\ task[j] = "queued" => Cardinality(permits[Pool(j)]) < Capacity(Pool(j))
<1>1. UNCHANGED <<req, cancelled>>
  BY DEF RenderStep, GenerateStep, Raise, BeginRender, EndRender, BeginGenerate, Grounded,
         Generated, Escalated, Probed, EndGenerate
<1>2. task[j] \in Awaits \/ Admission(j)
  BY DEF RenderStep, GenerateStep, Raise, BeginRender, EndRender, BeginGenerate, Grounded,
         Generated, Escalated, Probed, EndGenerate, Awaits, Modes
<1>3. "queued" \notin Awaits
  BY DEF Awaits, Modes
<1>. QED BY <1>1, <1>2, <1>3 DEF Admission

-----------------------------------------------------------------------------
(***************************************************************************)
(* A worker step preserves each part of the invariant.                     *)
(***************************************************************************)
\* A step of j's worker in shape: what becomes of every job.
LEMMA StepShape ==
  ASSUME TypeOK, NEW j \in Jobs, WorkerStep(j)
  PROVE  /\ \A i \in Jobs : i # j => /\ task'[i] = task[i] /\ row'[i] = row[i]
                                     /\ mem'[i] = mem[i] /\ containers'[i] = containers[i]
         /\ \/ /\ task'[j] \in Awaits /\ ~CheckCancel(j)
               /\ row'[j] = mem'[j] /\ Unfinished(row'[j])
               /\ row'[j].state = StateAt(task'[j])
               /\ task'[j] = "grounding" => task[j] = "queued"
               /\ containers'[j] = IF task'[j] \in Modes THEN task'[j] ELSE Idle
               /\ permits' = [permits EXCEPT ![Pool(j)] = permits[Pool(j)] \cup {j}]
            \/ /\ task'[j] = "done"
               /\ \/ /\ row'[j].state \in {"SUCCEEDED", "FAILED", "CANCELLED"}
                     /\ row'[j].artifact # NoSource => row'[j].state = "SUCCEEDED"
                     /\ CheckCancel(j) => row'[j].state # "SUCCEEDED"
                  \/ row'[j] = Guarded(row[j])
               /\ containers'[j] = Idle
               /\ permits' = [permits EXCEPT ![Pool(j)] = permits[Pool(j)] \ {j}]
<1>1. CASE GoesOn(j)
  <2>1. PICK at \in Awaits, r \in Row :
          /\ Suspend(j, at) /\ Save(j, r) /\ ~CheckCancel(j)
          /\ r.state = StateAt(at) /\ r.artifact = NoSource /\ ~r.expires
          /\ at = "grounding" => task[j] = "queued"
    BY <1>1 DEF GoesOn
  <2>. QED BY <2>1 DEF TypeOK, Suspend, Save, Unfinished
<1>2. CASE EndsItself(j)
  <2>1. PICK r \in Row :
          /\ Finish(j, r)
          /\ r.state \in {"SUCCEEDED", "FAILED", "CANCELLED"}
          /\ r.artifact # NoSource => r.state = "SUCCEEDED"
          /\ CheckCancel(j) => r.state # "SUCCEEDED"
    BY <1>2 DEF EndsItself
  <2>. QED BY <1>2, <2>1 DEF TypeOK, Finish, Save, End, Release
<1>3. CASE Guard(j)
  BY <1>3 DEF TypeOK, Guard, End, Release
<1>. QED BY <1>1, <1>2, <1>3 DEF WorkerStep

LEMMA AwaitsAreLive ==
  /\ \A at \in Awaits : at \notin {"none", "queued", "done"}
  /\ \A at \in Awaits : StateAt(at) \in {"QUEUED", "GENERATING", "RENDERING"}
BY DEF Awaits, Modes, StateAt

LEMMA StepPermits ==
  ASSUME IInv, NEW j \in Jobs, WorkerStep(j), UNCHANGED req,
         task[j] \in Awaits \cup {"queued"},
         task[j] = "queued" => Cardinality(permits[Pool(j)]) < Capacity(Pool(j))
  PROVE  PermitsExact'
<1>. SUFFICES ASSUME NEW p \in Pools
              PROVE  /\ permits'[p] = {i \in Jobs : Pool(i) = p /\ task'[i] \in Awaits}
                     /\ Cardinality(permits'[p]) <= Capacity(p)
  BY DEF PermitsExact, Pool
<1>1. /\ permits[p] = {i \in Jobs : Pool(i) = p /\ task[i] \in Awaits}
      /\ Cardinality(permits[p]) <= Capacity(p)
      /\ TypeOK
  BY DEF IInv, PermitsExact
<1>2. \A i \in Jobs : i # j => task'[i] = task[i]
  BY <1>1, StepShape
<1>3. IsFiniteSet(permits[p]) /\ Cardinality(permits[p]) \in Nat /\ Capacity(p) \in Nat
  BY <1>1, ConstantsOK, FS_Subset, FS_CardinalityType DEF Capacity
<1>4. CASE p # Pool(j)
  <2>1. permits'[p] = permits[p]
    BY <1>1, <1>4, StepShape DEF TypeOK
  <2>2. {i \in Jobs : Pool(i) = p /\ task'[i] \in Awaits}
          = {i \in Jobs : Pool(i) = p /\ task[i] \in Awaits}
    BY <1>2, <1>4
  <2>. QED BY <1>1, <2>1, <2>2
<1>5. CASE p = Pool(j)
  <2>1. CASE /\ task'[j] \in Awaits
             /\ permits' = [permits EXCEPT ![Pool(j)] = permits[Pool(j)] \cup {j}]
    <3>1. permits'[p] = permits[p] \cup {j}
      BY <1>1, <1>5, <2>1 DEF TypeOK
    <3>2. permits[p] \cup {j} = {i \in Jobs : Pool(i) = p /\ task'[i] \in Awaits}
      BY <1>1, <1>2, <1>5, <2>1
    <3>3. Cardinality(permits[p] \cup {j}) =
            IF j \in permits[p] THEN Cardinality(permits[p]) ELSE Cardinality(permits[p]) + 1
      BY <1>3, FS_AddElement
    <3>4. j \notin permits[p] => Cardinality(permits[p]) < Capacity(p)
      BY <1>1, <1>5
    <3>. QED BY <1>1, <1>3, <3>1, <3>2, <3>3, <3>4
  <2>2. CASE /\ task'[j] = "done"
             /\ permits' = [permits EXCEPT ![Pool(j)] = permits[Pool(j)] \ {j}]
    <3>1. permits'[p] = permits[p] \ {j}
      BY <1>1, <1>5, <2>2 DEF TypeOK
    <3>2. permits[p] \ {j} = {i \in Jobs : Pool(i) = p /\ task'[i] \in Awaits}
      BY <1>1, <1>2, <1>5, <2>2, AwaitsAreLive
    <3>3. Cardinality(permits[p] \ {j}) =
            IF j \in permits[p] THEN Cardinality(permits[p]) - 1 ELSE Cardinality(permits[p])
      BY <1>3, FS_RemoveElement
    <3>. QED BY <1>1, <1>3, <3>1, <3>2, <3>3
  <2>. QED BY <1>1, <2>1, <2>2, StepShape
<1>. QED BY <1>4, <1>5

LEMMA StepStatus ==
  ASSUME IInv, NEW j \in Jobs, WorkerStep(j), UNCHANGED cancelled,
         task[j] \in Awaits \cup {"queued"}
  PROVE  StatusMatchesWork' /\ RowsFresh' /\ ResultsOnFinished' /\ CancelNeverSucceeds'
<1>1. TypeOK /\ StatusMatchesWork /\ RowsFresh /\ ResultsOnFinished /\ CancelNeverSucceeds
  BY DEF IInv
<1>2. row[j] = mem[j] /\ Unfinished(row[j])
      /\ row[j].state \in {"QUEUED", "GENERATING", "RENDERING"}
  BY LiveObject, AwaitsAreLive
<1>3. /\ Guarded(row[j]) \in Row /\ Guarded(row[j]).state = "FAILED"
      /\ Guarded(row[j]).artifact = NoSource /\ ~Guarded(row[j]).expires
  BY <1>2, GuardedRow DEF Guarded, To, Unfinished, Row
<1>4. \/ /\ task'[j] \in Awaits /\ ~CheckCancel(j)
         /\ row'[j] = mem'[j] /\ Unfinished(row'[j])
         /\ row'[j].state = StateAt(task'[j])
         /\ containers'[j] = IF task'[j] \in Modes THEN task'[j] ELSE Idle
      \/ /\ task'[j] = "done"
         /\ row'[j].state \in {"SUCCEEDED", "FAILED", "CANCELLED"}
         /\ row'[j].artifact # NoSource => row'[j].state = "SUCCEEDED"
         /\ CheckCancel(j) => row'[j].state # "SUCCEEDED"
         /\ containers'[j] = Idle
  <2>1. \/ /\ task'[j] \in Awaits /\ ~CheckCancel(j)
           /\ row'[j] = mem'[j] /\ Unfinished(row'[j])
           /\ row'[j].state = StateAt(task'[j])
           /\ containers'[j] = IF task'[j] \in Modes THEN task'[j] ELSE Idle
        \/ /\ task'[j] = "done"
           /\ \/ /\ row'[j].state \in {"SUCCEEDED", "FAILED", "CANCELLED"}
                 /\ row'[j].artifact # NoSource => row'[j].state = "SUCCEEDED"
                 /\ CheckCancel(j) => row'[j].state # "SUCCEEDED"
              \/ row'[j] = Guarded(row[j])
           /\ containers'[j] = Idle
    BY <1>1, StepShape, Zenon
  <2>2. CASE row'[j] = Guarded(row[j])
    <3>1. row'[j].state = "FAILED" /\ row'[j].artifact = NoSource
      BY <1>3, <2>2
    <3>. QED BY <2>1, <3>1
  <2>. QED BY <2>1, <2>2
<1>5. \A i \in Jobs : i # j => /\ task'[i] = task[i] /\ row'[i] = row[i]
                               /\ mem'[i] = mem[i] /\ containers'[i] = containers[i]
  BY <1>1, StepShape
<1>6. StatusMatchesWork'
  <2>. SUFFICES ASSUME NEW i \in Jobs
                PROVE  /\ task'[i] = "none" <=> row'[i].state = LC!NoJob
                       /\ task'[i] \in {"queued", "grounding"} => row'[i].state = "QUEUED"
                       /\ task'[i] \in {"generator", "escalation"} => row'[i].state = "GENERATING"
                       /\ task'[i] \in Modes => row'[i].state = "RENDERING"
                       /\ containers'[i] = IF task'[i] \in Modes THEN task'[i] ELSE Idle
    BY DEF StatusMatchesWork
  <2>1. CASE i # j
    BY <1>1, <1>5, <2>1 DEF StatusMatchesWork
  <2>2. CASE i = j
    BY <1>4, <2>2, AwaitsAreLive DEF StateAt, Modes
  <2>. QED BY <2>1, <2>2
<1>7. RowsFresh'
  BY <1>1, <1>4, <1>5, AwaitsAreLive DEF RowsFresh
<1>8. ResultsOnFinished'
  <2>. SUFFICES ASSUME NEW i \in Jobs
                PROVE  /\ row'[i].expires \/ row'[i].artifact # NoSource
                            => row'[i].state \in LC!Terminal
                       /\ task'[i] = "done" <=> row'[i].state \in LC!Terminal
    BY DEF ResultsOnFinished
  <2>1. CASE i # j
    BY <1>1, <1>5, <2>1 DEF ResultsOnFinished
  <2>2. CASE i = j
    BY <1>4, <2>2, AwaitsAreLive DEF Unfinished
  <2>. QED BY <2>1, <2>2
<1>9. CancelNeverSucceeds'
  <2>. SUFFICES ASSUME NEW i \in cancelled
                PROVE  /\ task'[i] # "none"
                       /\ row'[i].state # "SUCCEEDED" /\ row'[i].artifact = NoSource
    BY DEF CancelNeverSucceeds
  <2>1. i \in Jobs
    BY <1>1 DEF TypeOK
  <2>2. CASE i # j
    BY <1>1, <1>5, <2>1, <2>2 DEF CancelNeverSucceeds
  <2>3. CASE i = j
    BY <1>4, <2>3 DEF CheckCancel
  <2>. QED BY <2>2, <2>3
<1>. QED BY <1>6, <1>7, <1>8, <1>9

-----------------------------------------------------------------------------
(***************************************************************************)
(* The steps that are not a worker's.                                      *)
(***************************************************************************)
LEMMA SubmitStep ==
  ASSUME IInv, NEW j \in Jobs, Submit(j)
  PROVE  PermitsExact' /\ StatusMatchesWork' /\ RowsFresh' /\ ResultsOnFinished'
         /\ CancelNeverSucceeds'
<1>1. /\ TypeOK /\ PermitsExact /\ StatusMatchesWork /\ RowsFresh /\ ResultsOnFinished
      /\ CancelNeverSucceeds
  BY DEF IInv
<1>2. /\ To(NewRow, "QUEUED").state = "QUEUED" /\ ~To(NewRow, "QUEUED").expires
      /\ To(NewRow, "QUEUED").artifact = NoSource
  BY DEF To, NewRow
<1>3. /\ task[j] = "none" /\ task'[j] = "queued"
      /\ row'[j] = To(NewRow, "QUEUED") /\ mem'[j] = row'[j]
      /\ \A i \in Jobs : i # j => task'[i] = task[i] /\ row'[i] = row[i] /\ mem'[i] = mem[i]
      /\ UNCHANGED <<req, permits, containers, cancelled>>
  BY <1>1 DEF Submit, Save, TypeOK
<1>4. PermitsExact'
  BY <1>1, <1>3, AwaitsAreLive DEF PermitsExact, Pool, Capacity
<1>5. StatusMatchesWork'
  BY <1>1, <1>2, <1>3 DEF StatusMatchesWork, Modes
<1>6. RowsFresh'
  BY <1>1, <1>3 DEF RowsFresh
<1>7. ResultsOnFinished'
  BY <1>1, <1>2, <1>3 DEF ResultsOnFinished
<1>8. CancelNeverSucceeds'
  BY <1>1, <1>3 DEF CancelNeverSucceeds, TypeOK
<1>. QED BY <1>4, <1>5, <1>6, <1>7, <1>8

LEMMA CancelStep ==
  ASSUME IInv, NEW j \in Jobs, Cancel(j)
  PROVE  PermitsExact' /\ StatusMatchesWork' /\ RowsFresh' /\ ResultsOnFinished'
         /\ CancelNeverSucceeds'
<1>1. /\ TypeOK /\ PermitsExact /\ StatusMatchesWork /\ RowsFresh /\ ResultsOnFinished
      /\ CancelNeverSucceeds
  BY DEF IInv
<1>2. row[j].state \in LC!Live /\ UNCHANGED <<req, task, mem, row, permits, containers>>
  BY DEF Cancel, workerVars
<1>3. task[j] # "none" /\ row[j].artifact = NoSource /\ row[j].state # "SUCCEEDED"
  BY <1>1, <1>2 DEF StatusMatchesWork, ResultsOnFinished
<1>4. CancelNeverSucceeds'
  BY <1>1, <1>2, <1>3 DEF CancelNeverSucceeds, Cancel
<1>. QED BY <1>1, <1>2, <1>4
        DEF PermitsExact, StatusMatchesWork, RowsFresh, ResultsOnFinished, Pool, Capacity

\* Only finished rows are reapable, and they may all move to EXPIRED.
LEMMA ReapShape ==
  ASSUME IInv, NEW keys, NEW elapsed \in SUBSET Reapable, Reap(keys, elapsed)
  PROVE  \A j \in Jobs :
           \/ row'[j] = row[j]
           \/ /\ row[j].state \in {"SUCCEEDED", "FAILED", "CANCELLED"}
              /\ row'[j].state = "EXPIRED" /\ row'[j].artifact = NoSource
<1>. SUFFICES ASSUME NEW j \in Jobs, row'[j] # row[j]
              PROVE  /\ row[j].state \in {"SUCCEEDED", "FAILED", "CANCELLED"}
                     /\ row'[j].state = "EXPIRED" /\ row'[j].artifact = NoSource
  OBVIOUS
<1>1. /\ j \in Reapable
      /\ row'[j] = [To(row[j], "EXPIRED") EXCEPT !.artifact = NoSource]
  BY DEF Reap
<1>2. row[j].state \in {"SUCCEEDED", "FAILED", "CANCELLED"}
  BY <1>1 DEF Reapable, IInv, ResultsOnFinished
<1>3. row[j] \in Row
  BY DEF IInv, TypeOK
<1>4. row'[j].state = "EXPIRED" /\ row'[j].artifact = NoSource
  BY <1>1, <1>3 DEF To, Row
<1>. QED BY <1>2, <1>4

LEMMA ReapStep ==
  ASSUME IInv, NEW keys, NEW elapsed \in SUBSET Reapable, Reap(keys, elapsed)
  PROVE  PermitsExact' /\ StatusMatchesWork' /\ RowsFresh' /\ ResultsOnFinished'
         /\ CancelNeverSucceeds'
<1>1. /\ TypeOK /\ PermitsExact /\ StatusMatchesWork /\ RowsFresh /\ ResultsOnFinished
      /\ CancelNeverSucceeds
  BY DEF IInv
<1>2. UNCHANGED <<req, task, mem, permits, containers, cancelled>>
  BY DEF Reap
<1>3. \A j \in Jobs :
        \/ row'[j] = row[j]
        \/ /\ row[j].state \in {"SUCCEEDED", "FAILED", "CANCELLED"}
           /\ row'[j].state = "EXPIRED" /\ row'[j].artifact = NoSource
  BY ReapShape
<1>4. \A j \in Jobs : row[j].state \in {"SUCCEEDED", "FAILED", "CANCELLED"} => task[j] = "done"
  BY <1>1 DEF ResultsOnFinished
<1>5. PermitsExact'
  BY <1>1, <1>2 DEF PermitsExact, Pool, Capacity
<1>6. StatusMatchesWork'
  BY <1>1, <1>2, <1>3, <1>4 DEF StatusMatchesWork, Modes
<1>7. RowsFresh'
  BY <1>1, <1>2, <1>3, <1>4, AwaitsAreLive DEF RowsFresh
<1>8. ResultsOnFinished'
  BY <1>1, <1>2, <1>3, <1>4 DEF ResultsOnFinished
<1>9. CancelNeverSucceeds'
  BY <1>1, <1>2, <1>3 DEF CancelNeverSucceeds, TypeOK
<1>. QED BY <1>5, <1>6, <1>7, <1>8, <1>9

-----------------------------------------------------------------------------
(***************************************************************************)
(* The theorems.                                                           *)
(***************************************************************************)
LEMMA WorkerStepHolds ==
  ASSUME IInv, NEW j \in Jobs, RenderStep(j) \/ GenerateStep(j) \/ Raise(j)
  PROVE  WorkerStep(j)
BY RenderStepStep, GenerateStepStep DEF WorkerStep, Raise

LEMMA InvInit == Init => IInv
<1>. SUFFICES ASSUME Init PROVE IInv
  OBVIOUS
<1>1. TypeOK
  BY NewRowRow, EmptySeq, ConstantsOK DEF Init, TypeOK, Requests
<1>2. /\ NewRow.state = LC!NoJob /\ ~NewRow.expires /\ NewRow.artifact = NoSource
      /\ "none" \notin Awaits \cup {"queued", "done"} \cup Modes
  BY DEF NewRow, Awaits, Modes
<1>3. PermitsExact
  <2>1. Cardinality({}) = 0 /\ \A p \in Pools : 0 <= Capacity(p)
    BY FS_EmptySet, ConstantsOK DEF Capacity
  <2>. QED BY <1>2, <2>1 DEF Init, PermitsExact
<1>4. StatusMatchesWork /\ RowsFresh /\ ResultsOnFinished /\ CancelNeverSucceeds
  BY <1>2 DEF Init, StatusMatchesWork, RowsFresh, ResultsOnFinished, CancelNeverSucceeds
<1>. QED BY <1>1, <1>3, <1>4 DEF IInv

LEMMA InvNext == IInv /\ TypeOK' /\ [Next]_vars => IInv'
<1>. SUFFICES ASSUME IInv, TypeOK', [Next]_vars PROVE IInv'
  OBVIOUS
<1>1. ASSUME NEW j \in Jobs, RenderStep(j) \/ GenerateStep(j) \/ Raise(j) PROVE IInv'
  <2>1. WorkerStep(j)
    BY <1>1, WorkerStepHolds
  <2>2. UNCHANGED req /\ UNCHANGED cancelled
    BY <1>1, WorkerFrame
  <2>3. task[j] \in Awaits \cup {"queued"}
    BY <1>1, WorkerFrame
  <2>4. task[j] = "queued" => Cardinality(permits[Pool(j)]) < Capacity(Pool(j))
    BY <1>1, WorkerFrame
  <2>5. PermitsExact'
    BY <2>1, <2>2, <2>3, <2>4, StepPermits, Zenon
  <2>6. StatusMatchesWork' /\ RowsFresh' /\ ResultsOnFinished' /\ CancelNeverSucceeds'
    BY <2>1, <2>2, <2>3, StepStatus, Zenon
  <2>. QED BY <2>5, <2>6 DEF IInv
<1>2. ASSUME NEW j \in Jobs, Submit(j) PROVE IInv'
  BY <1>2, SubmitStep DEF IInv
<1>3. ASSUME NEW j \in Jobs, Cancel(j) PROVE IInv'
  BY <1>3, CancelStep DEF IInv
<1>4. ASSUME NEW keys, NEW elapsed \in SUBSET Reapable, Reap(keys, elapsed) PROVE IInv'
  BY <1>4, ReapStep DEF IInv
<1>5. CASE UNCHANGED <<workerVars, req, cancelled>>
  <2>1. /\ TypeOK /\ PermitsExact /\ StatusMatchesWork /\ RowsFresh /\ ResultsOnFinished
        /\ CancelNeverSucceeds
    BY DEF IInv
  <2>2. UNCHANGED <<task, mem, row, permits, containers, req, cancelled>>
    BY <1>5 DEF workerVars
  <2>3. PermitsExact'
    BY <2>1, <2>2 DEF PermitsExact, Pool, Capacity
  <2>4. StatusMatchesWork'
    BY <2>1, <2>2 DEF StatusMatchesWork
  <2>5. RowsFresh' /\ ResultsOnFinished' /\ CancelNeverSucceeds'
    BY <2>1, <2>2 DEF RowsFresh, ResultsOnFinished, CancelNeverSucceeds
  <2>. QED BY <2>3, <2>4, <2>5 DEF IInv
<1>6. ASSUME NEW k \in kills, KillDone(k) PROVE IInv'
  BY <1>5, <1>6 DEF KillDone
<1>7. CASE UNCHANGED vars
  BY <1>5, <1>7 DEF vars, workerVars
<1>. QED BY <1>1, <1>2, <1>3, <1>4, <1>6, <1>7 DEF Next, Terminating

\* The inductive invariant holds of every behaviour.
LEMMA Invariance == Spec => []IInv
<1>1. Init => IInv
  BY InvInit
<1>2. IInv /\ TypeOK' /\ [Next]_vars => IInv'
  BY InvNext
<1>. QED BY <1>1, <1>2, TypeCorrect, PTL DEF Spec

\* No exit of a worker, exceptions included, leaks a permit, and neither
\* semaphore is ever over-subscribed, for any limits and any number of jobs.
THEOREM PermitsNeverLeak == Spec => []PermitsExact
<1>1. IInv => PermitsExact
  BY DEF IInv
<1>. QED BY <1>1, Invariance, PTL

\* job_status always names what the worker is doing, and a container name is
\* registered exactly while its sandbox call runs.
THEOREM StatusIsTrue == Spec => []StatusMatchesWork
<1>1. IInv => StatusMatchesWork
  BY DEF IInv
<1>. QED BY <1>1, Invariance, PTL

\* The saved row of a live job is its worker's object: no unsaved progress and
\* no write by anybody else.
THEOREM RowsAreFresh == Spec => []RowsFresh
<1>1. IInv => RowsFresh
  BY DEF IInv
<1>. QED BY <1>1, Invariance, PTL

\* The reaper only ever touches finished jobs, and a worker ends iff its row
\* is terminal.
THEOREM OnlyFinishedHaveResults == Spec => []ResultsOnFinished
<1>1. IInv => ResultsOnFinished
  BY DEF IInv
<1>. QED BY <1>1, Invariance, PTL

\* A job flagged for cancellation never ends SUCCEEDED nor with an artifact.
THEOREM CancelledNeverSucceed == Spec => []CancelNeverSucceeds
<1>1. IInv => CancelNeverSucceeds
  BY DEF IInv
<1>. QED BY <1>1, Invariance, PTL
-----------------------------------------------------------------------------
(***************************************************************************)
(* A flagged job's next resumption is its last.                            *)
(***************************************************************************)
LEMMA FlaggedStep ==
  ASSUME IInv, [Next]_vars, NEW i \in cancelled, task'[i] # task[i]
  PROVE  task'[i] = "done"
<1>1. TypeOK /\ i \in Jobs /\ task[i] # "none"
  BY DEF IInv, TypeOK, CancelNeverSucceeds
<1>2. ASSUME NEW j \in Jobs, RenderStep(j) \/ GenerateStep(j) \/ Raise(j)
      PROVE  task'[i] = "done"
  <2>1. WorkerStep(j)
    BY <1>2, WorkerStepHolds
  <2>2. /\ i # j => task'[i] = task[i]
        /\ \/ task'[j] \in Awaits /\ ~CheckCancel(j)
           \/ task'[j] = "done"
    BY <1>1, <2>1, StepShape, Zenon
  <2>. QED BY <2>2 DEF CheckCancel
<1>3. ASSUME NEW j \in Jobs, Submit(j) PROVE task'[i] = "done"
  BY <1>1, <1>3 DEF Submit, TypeOK
<1>4. ASSUME NEW j \in Jobs, Cancel(j) PROVE task'[i] = "done"
  BY <1>4 DEF Cancel, workerVars
<1>5. ASSUME NEW k \in kills, KillDone(k) PROVE task'[i] = "done"
  BY <1>5 DEF KillDone, workerVars
<1>6. ASSUME NEW keys, NEW elapsed, Reap(keys, elapsed) PROVE task'[i] = "done"
  BY <1>6 DEF Reap
<1>7. CASE UNCHANGED vars
  BY <1>7 DEF vars
<1>. QED BY <1>2, <1>3, <1>4, <1>5, <1>6, <1>7 DEF Next, Terminating

\* After a cancel the worker starts no further container, generator call or
\* escalation: whatever it resumes from next, it ends there.
THEOREM CancelIsFinal == Spec => CancelStopsWork
<1>1. IInv /\ [Next]_vars =>
        [\A j \in cancelled : task'[j] # task[j] => task'[j] = "done"]_vars
  BY FlaggedStep
<1>. QED BY <1>1, Invariance, PTL DEF Spec, CancelStopsWork

-----------------------------------------------------------------------------
(***************************************************************************)
(* The rows implement the transition table of JobLifecycle.                *)
(***************************************************************************)
\* From where a worker suspends, the table reaches wherever it suspends next
\* or ends in at most three edges.
LEMMA WorkerEdges ==
  ASSUME NEW src \in {"QUEUED", "GENERATING", "RENDERING"},
         NEW dst \in {"GENERATING", "RENDERING", "SUCCEEDED", "FAILED", "CANCELLED"},
         src # dst
  PROVE  LC!Onward(src, dst)
<1>1. /\ LC!Allowed["QUEUED"] = {"GENERATING", "VALIDATING", "CANCELLED", "FAILED"}
      /\ LC!Allowed["GENERATING"] = {"VALIDATING", "CANCELLED", "FAILED"}
      /\ LC!Allowed["VALIDATING"] = {"RENDERING", "GENERATING", "CANCELLED", "FAILED"}
      /\ LC!Allowed["RENDERING"] = {"SUCCEEDED", "FAILED", "GENERATING", "CANCELLED"}
  BY DEF LC!Allowed
<1>2. CASE dst \in {"GENERATING", "FAILED", "CANCELLED"}
  BY <1>1, <1>2 DEF LC!Onward, LC!CanTransition
<1>3. CASE dst = "RENDERING"
  BY <1>1, <1>3 DEF LC!Onward, LC!CanTransition
<1>4. CASE dst = "SUCCEEDED"
  <2>1. CASE src = "RENDERING"
    BY <1>1, <1>4, <2>1 DEF LC!Onward, LC!CanTransition
  <2>2. CASE src \in {"QUEUED", "GENERATING"}
    <3>1. /\ "VALIDATING" \in LC!Allowed[src]
          /\ "RENDERING" \in LC!Allowed["VALIDATING"]
          /\ "SUCCEEDED" \in LC!Allowed["RENDERING"]
      BY <1>1, <2>2
    <3>. QED BY <1>4, <3>1 DEF LC!Onward, LC!CanTransition
  <2>. QED BY <2>1, <2>2
<1>. QED BY <1>2, <1>3, <1>4

LEMMA ExpiryEdges ==
  ASSUME NEW src \in {"SUCCEEDED", "FAILED", "CANCELLED"}
  PROVE  LC!Onward(src, "EXPIRED")
BY DEF LC!Onward, LC!CanTransition, LC!Allowed

\* What a step does to the state of one row.
Moves(i) ==
  \/ row'[i].state = row[i].state
  \/ row[i].state = LC!NoJob /\ row'[i].state = "QUEUED"
  \/ row[i].state \in LC!JobState /\ LC!Onward(row[i].state, row'[i].state)

LEMMA WorkerMoves ==
  ASSUME IInv, NEW j \in Jobs, WorkerStep(j), task[j] \in Awaits \cup {"queued"}, NEW i \in Jobs
  PROVE  Moves(i)
<1>1. TypeOK
  BY DEF IInv
<1>2. /\ i # j => row'[i] = row[i]
      /\ \/ /\ task'[j] \in Awaits
            /\ row'[j].state = StateAt(task'[j])
            /\ task'[j] = "grounding" => task[j] = "queued"
         \/ \/ row'[j].state \in {"SUCCEEDED", "FAILED", "CANCELLED"}
            \/ row'[j] = Guarded(row[j])
  BY <1>1, StepShape, Zenon
<1>3. /\ row[j].state = IF task[j] = "queued" THEN "QUEUED" ELSE StateAt(task[j])
      /\ row[j].state \in {"QUEUED", "GENERATING", "RENDERING"}
      /\ row[j] \in Row
  BY LiveObject, AwaitsAreLive DEF Unfinished
<1>4. Guarded(row[j]).state = "FAILED"
  BY <1>3 DEF Guarded, To, Row
<1>5. row'[j].state \in {"GENERATING", "RENDERING", "SUCCEEDED", "FAILED", "CANCELLED"}
      \/ row'[j].state = row[j].state
  BY <1>2, <1>3, <1>4 DEF StateAt, Awaits, Modes
<1>6. CASE i # j
  BY <1>2, <1>6 DEF Moves
<1>7. CASE i = j
  BY <1>3, <1>5, <1>7, WorkerEdges DEF Moves
<1>. QED BY <1>6, <1>7

LEMMA StepMoves ==
  ASSUME IInv, [Next]_vars, NEW i \in Jobs
  PROVE  Moves(i)
<1>1. TypeOK /\ StatusMatchesWork
  BY DEF IInv
<1>2. ASSUME NEW j \in Jobs, RenderStep(j) \/ GenerateStep(j) \/ Raise(j) PROVE Moves(i)
  <2>1. WorkerStep(j) /\ task[j] \in Awaits \cup {"queued"}
    BY <1>2, WorkerStepHolds, WorkerFrame
  <2>. QED BY <2>1, WorkerMoves
<1>3. ASSUME NEW j \in Jobs, Submit(j) PROVE Moves(i)
  <2>1. /\ task[j] = "none" /\ row'[j].state = "QUEUED"
        /\ i # j => row'[i] = row[i]
    BY <1>1, <1>3 DEF Submit, Save, To, NewRow, TypeOK
  <2>. QED BY <1>1, <2>1 DEF Moves, StatusMatchesWork
<1>4. ASSUME NEW keys, NEW elapsed \in SUBSET Reapable, Reap(keys, elapsed) PROVE Moves(i)
  BY <1>4, ReapShape, ExpiryEdges DEF Moves
<1>5. CASE UNCHANGED row
  BY <1>5 DEF Moves
<1>6. ASSUME NEW j \in Jobs, Cancel(j) PROVE Moves(i)
  BY <1>5, <1>6 DEF Cancel, workerVars
<1>7. ASSUME NEW k \in kills, KillDone(k) PROVE Moves(i)
  BY <1>5, <1>7 DEF KillDone, workerVars
<1>8. CASE UNCHANGED vars
  BY <1>5, <1>8 DEF vars
<1>. QED BY <1>2, <1>3, <1>4, <1>6, <1>7, <1>8 DEF Next, Terminating

\* What polls read of the detailed machine is a behaviour of JobLifecycle:
\* every worker step, guarded exception and reaper sweep follows the table.
THEOREM ImplementsLifecycle == Spec => Lifecycle
<1>1. Init => LC!Init
  BY DEF Init, LC!Init, NewRow
<1>2. IInv /\ TypeOK' /\ [Next]_vars => LC!Next
  <2>. SUFFICES ASSUME IInv, TypeOK', [Next]_vars PROVE LC!Next
    OBVIOUS
  <2>1. \A j \in Jobs : row'[j].state \in LC!JobState \cup {LC!NoJob}
    BY DEF TypeOK, Row
  <2>2. \A j \in Jobs : LC!Move(j)
    BY StepMoves DEF LC!Move, Moves
  <2>. QED BY <2>1, <2>2 DEF LC!Next
<1>. QED BY <1>1, <1>2, Invariance, TypeCorrect, PTL DEF Spec, Lifecycle, LC!Spec

-----------------------------------------------------------------------------
\* Renders of both phases together never exceed the sum of the two limits,
\* for any limits and any number of jobs.
THEOREM ContainersAreBounded == Spec => []ContainersBounded
<1>1. IInv => ContainersBounded
  <2>. SUFFICES ASSUME IInv PROVE ContainersBounded
    OBVIOUS
  <2>. DEFINE running == {j \in Jobs : containers[j] # Idle}
              holding == permits["render"] \cup permits["generate"]
  <2>1. /\ TypeOK /\ StatusMatchesWork
        /\ \A p \in Pools : /\ permits[p] = {j \in Jobs : Pool(j) = p /\ task[j] \in Awaits}
                            /\ Cardinality(permits[p]) <= Capacity(p)
    BY DEF IInv, PermitsExact
  <2>2. running \subseteq holding
    <3>. SUFFICES ASSUME NEW j \in Jobs, containers[j] # Idle PROVE j \in holding
      OBVIOUS
    <3>1. task[j] \in Awaits
      BY <2>1 DEF StatusMatchesWork, Awaits
    <3>2. Pool(j) \in Pools
      BY <2>1, PoolType
    <3>. QED BY <2>1, <3>1, <3>2 DEF Pools
  <2>3. \A p \in Pools : IsFiniteSet(permits[p])
    BY <2>1, ConstantsOK, FS_Subset
  <2>4. /\ IsFiniteSet(permits["render"]) /\ IsFiniteSet(permits["generate"])
        /\ Cardinality(permits["render"]) <= MaxRenders
        /\ Cardinality(permits["generate"]) <= MaxGenerations
    BY <2>1, <2>3 DEF Pools, Capacity
  <2>5. /\ IsFiniteSet(holding)
        /\ Cardinality(holding) = Cardinality(permits["render"]) + Cardinality(permits["generate"])
             - Cardinality(permits["render"] \cap permits["generate"])
    BY <2>4, FS_Union
  <2>6. /\ Cardinality(running) <= Cardinality(holding)
        /\ IsFiniteSet(running)
        /\ IsFiniteSet(permits["render"] \cap permits["generate"])
    BY <2>2, <2>4, <2>5, FS_Subset
  <2>7. /\ Cardinality(running) \in Nat /\ Cardinality(holding) \in Nat
        /\ Cardinality(permits["render"]) \in Nat /\ Cardinality(permits["generate"]) \in Nat
        /\ Cardinality(permits["render"] \cap permits["generate"]) \in Nat
        /\ MaxRenders \in Nat /\ MaxGenerations \in Nat
    BY <2>4, <2>5, <2>6, FS_CardinalityType, ConstantsOK
  <2>8. Cardinality(running) <= MaxRenders + MaxGenerations
    <3>. HIDE DEF running, holding
    <3>. QED BY <2>4, <2>5, <2>6, <2>7
  <2>. QED BY <2>8 DEF ContainersBounded
<1>. QED BY <1>1, Invariance, PTL
=============================================================================
