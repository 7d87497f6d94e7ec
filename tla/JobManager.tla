----------------------------- MODULE JobManager -----------------------------
(***************************************************************************)
(* core/job_manager.py: the asyncio job manager, with the job rows it      *)
(* saves, the cancel handler and the reaper that run beside its workers.   *)
(*                                                                         *)
(* There is one event loop, so the code between two awaits is one atomic   *)
(* step: an action runs a worker from the await it is suspended at to the  *)
(* next one, with every call made on the way.  task[j] names the await.    *)
(* What the ports answer (sandbox, generators, validator verdict of a      *)
(* generated source) is chosen freely; any of them may raise.              *)
(*                                                                         *)
(* A definition that stands right before another and shares its name's     *)
(* beginning (ReleaseNothing before Release) is a slip the second one      *)
(* could have had: no behaviour uses it, it shows what the properties see. *)
(***************************************************************************)
EXTENDS Integers, Sequences, FiniteSets

CONSTANTS
  Jobs,                \* job ids
  Sources,             \* scene sources, each at one quality: also the store's keys
  NoSource,            \* "no artifact"
  Scenes,              \* scene names
  NoScene,             \* scene_name not given / no scene class found
  Accepted,            \* the sources validator.validate accepts
  ScenesIn,            \* [Sources -> SUBSET Scenes]: validator.scene_names
  RenderRequests,      \* the render_animation calls clients make
  GenerateRequests,    \* the generate_animation calls; empty when render-only
  MaxRenders,          \* config.max_concurrent_renders
  MaxGenerations,      \* config.max_concurrent_generations
  EscalationPermitted  \* config.generate.allow_escalation

Requests == RenderRequests \cup GenerateRequests

ASSUME ConstantsOK ==
  /\ IsFiniteSet(Jobs)
  /\ NoSource \notin Sources
  /\ NoScene \notin Scenes
  /\ Accepted \subseteq Sources
  /\ ScenesIn \in [Sources -> SUBSET Scenes]
  /\ RenderRequests \subseteq
       [tool : {"render"}, source : Sources, scene : Scenes \cup {NoScene}]
  /\ GenerateRequests \subseteq
       [tool : {"generate"}, budget : Int, allow : BOOLEAN]
  /\ MaxRenders \in Nat \ {0} /\ MaxGenerations \in Nat \ {0}
  /\ EscalationPermitted \in BOOLEAN

VARIABLES
  req,         \* the request behind each job (Job.tool, Job.params, Job.source)
  task,        \* where each job's worker is suspended
  mem,         \* the Job object the worker holds
  row,         \* the row of the job in the job store
  cand,        \* the worker's locals: loop index and current source
  line,        \* jobs waiting for a permit, per semaphore, in FIFO order
  permits,     \* jobs holding a permit, per semaphore
  containers,  \* _containers: the mode of the job's running container
  cancelled,   \* _cancelled
  kills,       \* cancel calls suspended in sandbox.kill
  store,       \* the artifact under each key: the scene it shows, or NoArtifact
  receipts,    \* jobs with an escalation receipt
  egress,      \* history: jobs whose prompt was sent to the hosted model
  history      \* history: the candidates of each job and the renders they passed

workerVars == <<task, mem, row, cand, permits, containers>>
vars == <<req, task, mem, row, cand, line, permits, containers, cancelled,
          kills, store, receipts, egress, history>>

-----------------------------------------------------------------------------
(***************************************************************************)
(* Vocabulary.                                                             *)
(***************************************************************************)
LC == INSTANCE JobLifecycle WITH state <- [j \in Jobs |-> row[j].state]

Pools  == {"render", "generate"}
Modes  == {"probe", "full"}                         \* RenderMode
Awaits == {"grounding", "generator", "escalation"} \cup Modes
Idle   == "none"                                    \* no container
NoArtifact == "absent"

Attempt == [index : Int, source : Sources \cup {NoSource}, traceback : BOOLEAN, escalated : BOOLEAN]
Row == [state : LC!JobState \cup {LC!NoJob}, attempt : Int, trace : Seq(Attempt),
        artifact : Sources \cup {NoSource}, expires : BOOLEAN, escalated : BOOLEAN]
Candidate == [source : Sources, passed : SUBSET Modes]

NewRow == [state |-> LC!NoJob, attempt |-> 0, trace |-> <<>>,
           artifact |-> NoSource, expires |-> FALSE, escalated |-> FALSE]

PoolOneSemaphore(j) == "generate"
\* The semaphore a job runs under: `async with self._render_sem` or `_gen_sem`.
Pool(j) == req[j].tool

Capacity(p) == IF p = "render" THEN MaxRenders ELSE MaxGenerations

IsRender(j)   == req[j].tool = "render"
IsGenerate(j) == req[j].tool = "generate"

-----------------------------------------------------------------------------
(***************************************************************************)
(* The Job object: one operator per edit the handlers make to it.          *)
(***************************************************************************)
\* _transition: the state the object has after it (and after any table edge
\* the worker passed through on the way, none of which can be observed).
To(r, s) == [r EXCEPT !.state = s]

SucceededUnchecked(r, key) ==
  [To(r, "SUCCEEDED") EXCEPT !.artifact = NoArtifact, !.expires = TRUE]
Succeeded(r, key) ==
  [To(r, "SUCCEEDED") EXCEPT !.artifact = key, !.expires = TRUE]

Failed(r) == [To(r, "FAILED") EXCEPT !.expires = TRUE]

AddAttemptCounterOnly(r, index, src, tb) == [r EXCEPT !.attempt = index + 1]
\* Job.add_attempt: append to the trace and move the attempt counter.
AddAttempt(r, index, src, tb) ==
  [r EXCEPT !.attempt = index + 1,
            !.trace = Append(@, [index |-> index, source |-> src,
                                 traceback |-> tb, escalated |-> r.escalated])]

\* _resolve_scene.
Ambiguous(q) == q.scene = NoScene /\ Cardinality(ScenesIn[q.source]) > 1
Resolved(q) ==
  IF q.scene = NoScene /\ ScenesIn[q.source] # {}
  THEN CHOOSE s \in ScenesIn[q.source] : TRUE
  ELSE q.scene

\* ArtifactStore.put: the first artifact stored under a key is kept.
Put(key, scene) ==
  store' = IF store[key] = NoArtifact THEN [store EXCEPT ![key] = scene] ELSE store

-----------------------------------------------------------------------------
(***************************************************************************)
(* A worker runs until it suspends at an await or ends.                    *)
(***************************************************************************)
CheckCancelNotAfterFull(j) == j \in cancelled /\ task[j] # "full"
CheckCancelNotAfterProbe(j) == j \in cancelled /\ task[j] # "probe"
CheckCancelNotInLoop(j) == j \in cancelled /\ task[j] # "generator"
CheckCancelNotAtGate(j) == j \in cancelled /\ task[j] # "queued"
\* _check_cancel, at a checkpoint of a live worker.
CheckCancel(j) == j \in cancelled

\* job_store.save: the row becomes the object.
Save(j, r) == mem' = [mem EXCEPT ![j] = r] /\ row' = [row EXCEPT ![j] = r]

ReleaseNothing(j) == permits' = permits
\* Leaving `async with sem`.
Release(j) == permits' = [permits EXCEPT ![Pool(j)] = @ \ {j}]

SuspendKeepsContainer(j, at) ==
  /\ task' = [task EXCEPT ![j] = at]
  /\ permits' = [permits EXCEPT ![Pool(j)] = @ \cup {j}]
  /\ containers' = [containers EXCEPT ![j] = IF at \in Modes THEN at ELSE @]
\* The worker suspends at `at`; on its first suspension it keeps the permit it
\* was admitted with.  Awaiting the sandbox is _render: the container is
\* registered for the time of the call.
Suspend(j, at) ==
  /\ task' = [task EXCEPT ![j] = at]
  /\ permits' = [permits EXCEPT ![Pool(j)] = @ \cup {j}]
  /\ containers' = [containers EXCEPT ![j] = IF at \in Modes THEN at ELSE Idle]

\* The coroutine returns, with or without a last save.
End(j) ==
  /\ task' = [task EXCEPT ![j] = "done"]
  /\ Release(j)
  /\ containers' = [containers EXCEPT ![j] = Idle]

Finish(j, r) == Save(j, r) /\ End(j)

GuardedSwallow(r) == r
GuardedRequeue(r) == To(r, "QUEUED")
\* _guard: a port raised.  The saved row, not the object, is failed; nothing
\* asserts the transition and no retention window is set.
Guarded(r) == IF r.state \in LC!Terminal THEN r ELSE To(r, "FAILED")
Guard(j) ==
  /\ row' = [row EXCEPT ![j] = Guarded(@)]
  /\ mem' = mem
  /\ End(j)

OverAdmission(j) ==
  /\ task[j] = "queued"
  /\ line[Pool(j)] # <<>> /\ Head(line[Pool(j)]) = j
  /\ line' = [line EXCEPT ![Pool(j)] = Tail(@)]
\* Semaphore.acquire returns: permits are handed out in FIFO order, and a
\* newcomer never passes a waiter.  A job not started yet is in line as well.
Admission(j) ==
  /\ task[j] = "queued"
  /\ line[Pool(j)] # <<>> /\ Head(line[Pool(j)]) = j
  /\ Cardinality(permits[Pool(j)]) < Capacity(Pool(j))
  /\ line' = [line EXCEPT ![Pool(j)] = Tail(@)]

MarkAt(h, n, mode) ==
  [h EXCEPT ![n] = [source |-> h[n].source, passed |-> h[n].passed \cup {mode}]]

\* The running container's verdict is noted against the latest candidate.
Passed(j, mode) ==
  history' = [history EXCEPT ![j] = MarkAt(history[j], Len(history[j]), mode)]
Tested(j, src) ==
  history' = [history EXCEPT ![j] = Append(@, [source |-> src, passed |-> {}])]

-----------------------------------------------------------------------------
(***************************************************************************)
(* The tools.                                                              *)
(***************************************************************************)
Init ==
  /\ req \in [Jobs -> Requests]
  /\ task = [j \in Jobs |-> "none"]
  /\ mem = [j \in Jobs |-> NewRow]
  /\ row = [j \in Jobs |-> NewRow]
  /\ cand = [j \in Jobs |-> [index |-> 0, source |-> NoSource]]
  /\ line = [p \in Pools |-> <<>>]
  /\ permits = [p \in Pools |-> {}]
  /\ containers = [j \in Jobs |-> Idle]
  /\ cancelled = {}
  /\ kills = {}
  /\ store = [s \in Sources |-> NoArtifact]
  /\ receipts = {}
  /\ egress = {}
  /\ history = [j \in Jobs |-> <<>>]

\* submit_render, submit_generate: the row is created and the task spawned.
Submit(j) ==
  /\ task[j] = "none"
  /\ Save(j, To(NewRow, "QUEUED"))
  /\ task' = [task EXCEPT ![j] = "queued"]
  /\ line' = [line EXCEPT ![Pool(j)] = Append(@, j)]
  /\ UNCHANGED <<req, cand, permits, containers, cancelled, kills, store,
                 receipts, egress, history>>

CancelWritesRow(j) ==
  /\ row[j].state \in LC!Live
  /\ row' = [row EXCEPT ![j] = To(@, "CANCELLED")]
  /\ UNCHANGED <<req, task, mem, cand, line, permits, containers, cancelled,
                 kills, store, receipts, egress, history>>
\* cancel, up to its await: it flags a job whose saved row is not terminal and,
\* if a container is registered, asks the engine to kill it by name.  On an
\* unknown or a terminal job it only answers.
Cancel(j) ==
  /\ row[j].state \in LC!Live
  /\ cancelled' = cancelled \cup {j}
  /\ kills' = IF containers[j] = Idle THEN kills
              ELSE kills \cup {[job |-> j, mode |-> containers[j],
                                nth |-> Len(history[j])]}
  /\ UNCHANGED <<workerVars, req, line, store, receipts, egress, history>>

\* The kill reached the engine and cancel answers.  Whether it met a running
\* container shows only in the verdict of the sandbox, which is free anyway.
KillDone(k) ==
  /\ kills' = kills \ {k}
  /\ UNCHANGED <<workerVars, req, line, cancelled, store, receipts, egress, history>>

-----------------------------------------------------------------------------
(***************************************************************************)
(* _process_render.                                                        *)
(***************************************************************************)
\* Admission to the first await: a cache hit, a rejected source and an
\* ambiguous scene end the job at once.
BeginRender(j) ==
  /\ Admission(j)
  /\ LET q      == req[j]
         usable == q.source \in Accepted /\ ~Ambiguous(q)
         cached == store[q.source] # NoArtifact
     IN \/ /\ CheckCancel(j)
           /\ Finish(j, To(mem[j], "CANCELLED"))
           /\ UNCHANGED <<cand, history>>
        \/ /\ ~CheckCancel(j)
           /\ ~usable
           /\ Finish(j, Failed(mem[j]))
           /\ UNCHANGED <<cand, history>>
        \/ /\ ~CheckCancel(j)
           /\ usable /\ cached
           /\ Finish(j, Succeeded(mem[j], q.source))
           /\ UNCHANGED <<cand, history>>
        \/ /\ ~CheckCancel(j)
           /\ usable /\ ~cached
           /\ Save(j, To(mem[j], "RENDERING"))
           /\ Suspend(j, "full")
           /\ cand' = [cand EXCEPT ![j].source = q.source]
           /\ Tested(j, q.source)
  /\ UNCHANGED <<req, cancelled, kills, store, receipts, egress>>

\* The sandbox answered: record the attempt, then notice a cancel, then publish.
EndRender(j) ==
  /\ task[j] = "full"
  /\ \E ok \in BOOLEAN :
       LET r == AddAttempt(mem[j], 0, cand[j].source, ~ok)
       IN /\ IF ok THEN Passed(j, "full") ELSE history' = history
          /\ \/ /\ CheckCancel(j)
                /\ Finish(j, To(r, "CANCELLED"))
                /\ store' = store
             \/ /\ ~CheckCancel(j)
                /\ ok
                /\ Put(cand[j].source, Resolved(req[j]))
                /\ Finish(j, Succeeded(r, cand[j].source))
             \/ /\ ~CheckCancel(j)
                /\ ~ok
                /\ Finish(j, Failed(r))
                /\ store' = store
  /\ UNCHANGED <<req, cand, line, cancelled, kills, receipts, egress>>

-----------------------------------------------------------------------------
(***************************************************************************)
(* _process_generate.                                                      *)
(***************************************************************************)
\* range(max(1, budget))
MaxTries(q) == IF q.budget > 1 THEN q.budget ELSE 1

ShouldEscalateAnyCall(permits_, allows, exhausted) == permits_ /\ exhausted
\* should_escalate; the hosted generator is built iff the server permits it.
ShouldEscalate(permits_, allows, exhausted) == permits_ /\ allows /\ exhausted

RetryForgetsBudget(j, r, src) ==
  /\ cand' = [cand EXCEPT ![j].source = src]
  /\ Save(j, To(r, "GENERATING"))
  /\ Suspend(j, "generator")
  /\ UNCHANGED egress
\* The candidate at hand failed and r records it: another local try, the one
\* escalated try, or the end of the job.
Retry(j, r, src) ==
  LET again    == ~r.escalated /\ cand[j].index + 1 < MaxTries(req[j])
      escalate == ~r.escalated /\ ~again
                  /\ ShouldEscalate(EscalationPermitted, req[j].allow, ~again)
  IN \/ /\ again \/ escalate
        /\ CheckCancel(j)
        /\ Finish(j, To(r, "CANCELLED"))
        /\ UNCHANGED <<cand, egress>>
     \/ /\ again
        /\ ~CheckCancel(j)
        /\ Save(j, To(r, "GENERATING"))
        /\ Suspend(j, "generator")
        /\ cand' = [cand EXCEPT ![j] = [index |-> @.index + 1, source |-> src]]
        /\ UNCHANGED egress
     \/ /\ escalate
        /\ ~CheckCancel(j)
        /\ Save(j, To(r, "GENERATING"))
        /\ Suspend(j, "escalation")
        /\ cand' = [cand EXCEPT ![j] = [index |-> req[j].budget, source |-> src]]
        /\ egress' = egress \cup {j}
     \/ /\ ~again /\ ~escalate
        /\ Finish(j, Failed(r))
        /\ UNCHANGED <<cand, egress>>

\* _attempt_candidate up to its first await: a rejected source is a failed
\* try, an accepted one goes to the probe.
StartCandidate(j, r, src) ==
  /\ Tested(j, src)
  /\ \/ /\ src \notin Accepted
        /\ Retry(j, AddAttempt(r, cand[j].index, src, TRUE), src)
     \/ /\ src \in Accepted
        /\ cand' = [cand EXCEPT ![j].source = src]
        /\ egress' = egress
        /\ \/ /\ CheckCancel(j)
              /\ Finish(j, To(r, "CANCELLED"))
           \/ /\ ~CheckCancel(j)
              /\ Save(j, To(r, "RENDERING"))
              /\ Suspend(j, "probe")

BeginGenerate(j) ==
  /\ Admission(j)
  /\ \/ /\ CheckCancel(j)
        /\ Finish(j, To(mem[j], "CANCELLED"))
     \/ /\ ~CheckCancel(j)
        /\ Suspend(j, "grounding")
        /\ UNCHANGED <<mem, row>>
  /\ UNCHANGED <<req, cand, cancelled, kills, store, receipts, egress, history>>

\* grounding.retrieve answered: the head of the attempt loop.
Grounded(j) ==
  /\ task[j] = "grounding"
  /\ \/ /\ CheckCancel(j)
        /\ Finish(j, To(mem[j], "CANCELLED"))
     \/ /\ ~CheckCancel(j)
        /\ Save(j, To(mem[j], "GENERATING"))
        /\ Suspend(j, "generator")
  /\ UNCHANGED <<req, cand, line, cancelled, kills, store, receipts, egress, history>>

\* The local generator answered with some source.
Generated(j) ==
  /\ task[j] = "generator"
  /\ \E src \in Sources : StartCandidate(j, mem[j], src)
  /\ UNCHANGED <<req, line, cancelled, kills, store, receipts>>

\* The hosted generator answered: the receipt is written only now.
Escalated(j) ==
  /\ task[j] = "escalation"
  /\ receipts' = receipts \cup {j}
  /\ \E src \in Sources : StartCandidate(j, [mem[j] EXCEPT !.escalated = TRUE], src)
  /\ UNCHANGED <<req, line, cancelled, kills, store>>

ProbedIsEnough(j) ==
  /\ task[j] = "probe"
  /\ Passed(j, "probe")
  /\ Finish(j, Succeeded(mem[j], cand[j].source))
  /\ UNCHANGED <<req, cand, line, cancelled, kills, store, receipts, egress>>
\* The probe's verdict.
Probed(j) ==
  /\ task[j] = "probe"
  /\ \/ /\ Retry(j, AddAttempt(mem[j], cand[j].index, cand[j].source, TRUE), cand[j].source)
        /\ UNCHANGED history
     \/ /\ Passed(j, "probe")
        /\ UNCHANGED <<cand, egress>>
        /\ \/ /\ CheckCancel(j)
              /\ Finish(j, To(mem[j], "CANCELLED"))
           \/ /\ ~CheckCancel(j)
              /\ Suspend(j, "full")
              /\ UNCHANGED <<mem, row>>
  /\ UNCHANGED <<req, line, cancelled, kills, store, receipts>>

\* The full render's verdict.
EndGenerate(j) ==
  /\ task[j] = "full"
  /\ \E ok \in BOOLEAN :
       LET r == AddAttempt(mem[j], cand[j].index, cand[j].source, ~ok)
       IN /\ IF ok THEN Passed(j, "full") ELSE history' = history
          /\ \/ /\ CheckCancel(j)
                /\ Finish(j, To(r, "CANCELLED"))
                /\ UNCHANGED <<cand, egress, store>>
             \/ /\ ~CheckCancel(j)
                /\ ok
                /\ Put(cand[j].source, NoScene)
                /\ Finish(j, Succeeded(r, cand[j].source))
                /\ UNCHANGED <<cand, egress>>
             \/ /\ ~CheckCancel(j)
                /\ ~ok
                /\ Retry(j, r, cand[j].source)
                /\ store' = store
  /\ UNCHANGED <<req, line, cancelled, kills, receipts>>

-----------------------------------------------------------------------------
(***************************************************************************)
(* Failure, retention, and the system.                                     *)
(***************************************************************************)
\* A port raises: the awaited one, the store's put after a full render, or the
\* store and the validator of a render job at its start.
Raise(j) ==
  /\ \/ task[j] \in Awaits /\ line' = line
     \/ IsRender(j) /\ ~CheckCancel(j) /\ Admission(j)
  /\ Guard(j)
  /\ UNCHANGED <<req, cand, cancelled, kills, store, receipts, egress, history>>

\* job_store.expired: rows with a retention window, not expired yet.  Which
\* windows have elapsed is left open here; Retention has the clock.
Reapable == {j \in Jobs : row[j].expires /\ row[j].state # "EXPIRED"}

\* Reaper.reap: some stored artifacts go, then some rows expire.
Reap(keys, elapsed) ==
  /\ store' = [s \in Sources |-> IF s \in keys THEN NoArtifact ELSE store[s]]
  /\ row' = [j \in Jobs |->
               IF j \in elapsed /\ LC!CanTransition(row[j].state, "EXPIRED")
               THEN [To(row[j], "EXPIRED") EXCEPT !.artifact = NoSource]
               ELSE row[j]]
  /\ UNCHANGED <<req, task, mem, cand, line, permits, containers, cancelled,
                 kills, receipts, egress, history>>

\* Every job has been served: the server is idle.
Terminating == (\A j \in Jobs : task[j] = "done") /\ UNCHANGED vars

\* submit_render spawns _process_render, submit_generate _process_generate.
RenderStep(j) == IsRender(j) /\ (BeginRender(j) \/ EndRender(j))
GenerateStep(j) ==
  /\ IsGenerate(j)
  /\ \/ BeginGenerate(j) \/ Grounded(j) \/ Generated(j)
     \/ Escalated(j) \/ Probed(j) \/ EndGenerate(j)

Next ==
  \/ \E j \in Jobs : Submit(j) \/ Cancel(j) \/ RenderStep(j) \/ GenerateStep(j) \/ Raise(j)
  \/ \E k \in kills : KillDone(k)
  \/ \E keys \in SUBSET {s \in Sources : store[s] # NoArtifact} :
       \E elapsed \in SUBSET Reapable :
         keys \cup elapsed # {} /\ Reap(keys, elapsed)
  \/ Terminating

Spec == Init /\ [][Next]_vars

\* Every port answers: a render is bounded by its wall-clock budget, an HTTP
\* call by its client's timeout.  Nobody has to call a tool.
AllPortsAnswer == \A j \in Jobs : WF_vars(RenderStep(j) \/ GenerateStep(j))

\* Only the sandbox answers: the grounding store and the models may hang.
OnlySandboxAnswers == \A j \in Jobs : WF_vars(RenderStep(j))

-----------------------------------------------------------------------------
(***************************************************************************)
(* Types.                                                                  *)
(***************************************************************************)
Kill == [job : Jobs, mode : Modes, nth : Nat]

\* The shape of every variable.
TypeOK ==
  /\ req \in [Jobs -> Requests]
  /\ task \in [Jobs -> {"none", "queued", "done"} \cup Awaits]
  /\ mem \in [Jobs -> Row]
  /\ row \in [Jobs -> Row]
  /\ cand \in [Jobs -> [index : Int, source : Sources \cup {NoSource}]]
  /\ line \in [Pools -> Seq(Jobs)]
  /\ permits \in [Pools -> SUBSET Jobs]
  /\ containers \in [Jobs -> Modes \cup {Idle}]
  /\ cancelled \in SUBSET Jobs
  /\ kills \in SUBSET Kill
  /\ store \in [Sources -> Scenes \cup {NoScene, NoArtifact}]
  /\ receipts \in SUBSET Jobs
  /\ egress \in SUBSET Jobs
  /\ history \in [Jobs -> Seq(Candidate)]

-----------------------------------------------------------------------------
(***************************************************************************)
(* Safety.                                                                 *)
(***************************************************************************)
\* Every exit of a worker (return at a checkpoint, failure, exception) gives
\* its permit back and no worker runs without one, so neither semaphore leaks
\* or is over-subscribed (`async with`, job_manager.py:132,171).
PermitsExact ==
  \A p \in Pools :
    /\ permits[p] = {j \in Jobs : Pool(j) = p /\ task[j] \in Awaits}
    /\ Cardinality(permits[p]) <= Capacity(p)

\* What job_status reports is what the worker is really doing, and _containers
\* holds a name exactly while that container's sandbox call runs: a stale name
\* would let cancel kill something else (job_manager.py:270-278, 294-299).
StatusMatchesWork ==
  \A j \in Jobs :
    /\ task[j] = "none" <=> row[j].state = LC!NoJob
    /\ task[j] \in {"queued", "grounding"} => row[j].state = "QUEUED"
    /\ task[j] \in {"generator", "escalation"} => row[j].state = "GENERATING"
    /\ task[j] \in Modes => row[j].state = "RENDERING"
    /\ containers[j] = IF task[j] \in Modes THEN task[j] ELSE Idle

\* The load the two semaphores put on the host together: a generate job
\* renders under its generation permit, so the containers are bounded by the
\* sum of the two limits (job_manager.py:171,249,257,270-278).
ContainersBounded ==
  Cardinality({j \in Jobs : containers[j] # Idle}) <= MaxRenders + MaxGenerations

\* What a poll reads is the worker's own view: a worker suspended anywhere has
\* saved all it did, and nobody else has touched its row
\* (add_attempt saves nothing by itself, job_manager.py:159,242,251,258; the
\* reaper writes rows too, reaper.py:30-37).
RowsFresh ==
  \A j \in Jobs : task[j] \in Awaits \cup {"queued"} => row[j] = mem[j]

\* Only a finished job has a retention window or an artifact, so the reaper
\* cannot expire a job under its worker and job_result cannot hand out half a
\* result; and a finished worker never leaves a live row behind
\* (job_manager.py:301-312 fill the object before the transition).
ResultsOnFinished ==
  \A j \in Jobs :
    /\ row[j].expires \/ row[j].artifact # NoSource => row[j].state \in LC!Terminal
    /\ task[j] = "done" <=> row[j].state \in LC!Terminal

\* A job that was flagged while live never ends SUCCEEDED nor with an artifact,
\* whatever the container managed to produce before the kill
\* (job_manager.py:160,259).
CancelNeverSucceeds ==
  \A j \in cancelled :
    /\ task[j] # "none"
    /\ row[j].state # "SUCCEEDED" /\ row[j].artifact = NoSource

\* On the render path cancel is exact: a flagged render job ends CANCELLED
\* unless a port raised (the guard's FAILED has no retention window).
RenderCancelExact ==
  \A j \in cancelled :
    IsRender(j) /\ task[j] = "done" =>
      \/ row[j].state = "CANCELLED"
      \/ row[j].state = "FAILED" /\ ~row[j].expires

\* A kill by name meets the container it was meant for or none: container names
\* repeat across attempts (job_manager.py:271), and a kill may be slow.
KillsHitTheirTarget ==
  \A k \in kills :
    containers[k.job] # Idle =>
      containers[k.job] = k.mode /\ Len(history[k.job]) = k.nth

\* "SUCCEEDED means the scene actually rendered" (openspec/project.md:30): the
\* source handed back passed the probe and the full render as the last
\* candidate of its job, or, for a render job, some job rendered that source.
VerifiedSuccess ==
  \A j \in Jobs :
    row[j].state = "SUCCEEDED" =>
      IF IsGenerate(j)
      THEN history[j] # <<>> /\ history[j][Len(history[j])] =
             [source |-> row[j].artifact, passed |-> Modes]
      ELSE \E i \in Jobs : \E n \in 1..Len(history[i]) :
             history[i][n].source = row[j].artifact /\ "full" \in history[i][n].passed

\* "A successful result does not conceal a difficult path to it" (jobs
\* spec.md:45-50): a job that SUCCEEDED or ran out of tries shows one trace
\* entry per candidate, in order, with a traceback exactly where the candidate
\* failed; its attempt count is their number, escalated one included, unless the
\* call asked for no tries at all (the escalated one then counts as the first).
HonestTrace ==
  \A j \in Jobs :
    row[j].expires =>
      /\ Len(row[j].trace) = Len(history[j])
      /\ (IsGenerate(j) => req[j].budget > 0) => row[j].attempt = Len(row[j].trace)
      /\ \A n \in 1..Len(history[j]) :
           /\ row[j].trace[n].source = history[j][n].source
           /\ row[j].trace[n].traceback <=> "full" \notin history[j][n].passed

\* Escalation is deny-by-default: a prompt leaves the host only with the server
\* gate and the call gate open and after every local try failed
\* (escalation.py:21-26, job_manager.py:201-205).
EscalationGated ==
  \A j \in egress :
    /\ EscalationPermitted /\ IsGenerate(j) /\ req[j].allow
    /\ LET local == {n \in 1..Len(row[j].trace) : ~row[j].trace[n].escalated}
       IN /\ Cardinality(local) = MaxTries(req[j])
          /\ \A n \in local : row[j].trace[n].traceback

\* The generator is called at most max(1, repair_budget) times, and the hosted
\* one at most once more (generate spec.md:67-68, job_manager.py:185).
TriesBounded ==
  \A j \in Jobs :
    IsGenerate(j) =>
      Len(history[j]) <= MaxTries(req[j]) + (IF j \in egress THEN 1 ELSE 0)

-----------------------------------------------------------------------------
(***************************************************************************)
(* What a step may never do.                                               *)
(***************************************************************************)
\* Once a job is flagged its worker's next resumption is its last: no
\* container, no generator call and no escalation starts for it
\* (the checkpoints of job_manager.py:133,160,186,206,247,255,259).
CancelStopsWork ==
  [][\A j \in cancelled : task'[j] # task[j] => task'[j] = "done"]_vars

\* A row moves as the state machine allows, also through the guard, which
\* asserts nothing, and through the reaper (state_machine.py:15-35).
Lifecycle == LC!Spec

-----------------------------------------------------------------------------
(***************************************************************************)
(* Liveness.                                                               *)
(***************************************************************************)
\* No submitted job is forgotten: if every port answers, then behind any queue
\* and through any number of repairs it reaches a terminal state
\* (job_manager.py:131-228).
AllSettleIfPortsAnswer ==
  AllPortsAnswer =>
    \A j \in Jobs : task[j] = "queued" ~> row[j].state \in LC!Terminal

\* "render_animation never depends on the generator" (project.md:35): a render
\* job settles although every generator call and grounding query hangs.
RenderNeedsNoGenerator ==
  \A j \in Jobs : task[j] = "queued" /\ IsRender(j) ~> row[j].state \in LC!Terminal

-----------------------------------------------------------------------------
(***************************************************************************)
(* What the documents say and the code does not do.                        *)
(***************************************************************************)
\* "cancel_job ... MUST transition a running job to CANCELLED" (jobs
\* spec.md:54-55): an acknowledged cancel of a job whose ports all answered.
CancelledEndsCancelled ==
  \A j \in cancelled :
    row[j].state \in LC!Terminal /\ (row[j].state = "FAILED" => row[j].expires)
      => row[j].state = "CANCELLED"

\* A receipt is "emitted whenever escalation fires ... so an escalation is
\* always auditable" (escalation.py:31-34).
EveryEgressHasReceipt ==
  \A j \in egress : task[j] = "done" => j \in receipts

\* "SUCCEEDED means the scene actually rendered" (project.md:30): the artifact
\* of a render job shows the scene it named.
SceneAskedIsSceneServed ==
  \A j \in Jobs :
    IsRender(j) /\ row[j].state = "SUCCEEDED" /\ req[j].scene # NoScene
      /\ store[row[j].artifact] # NoArtifact
    => store[row[j].artifact] = req[j].scene
=============================================================================
