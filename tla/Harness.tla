------------------------------- MODULE Harness -------------------------------
(***************************************************************************)
(* One run of the load harness: the submitters of a profile (profiles/),   *)
(* the client they share (client.py), what they record (record.py) and     *)
(* the state history of their jobs (instrument.py); what becomes of the    *)
(* records and of the other measurements is in Metrics, Analysis and       *)
(* Campaign.  The server is the transition table of JobLifecycle: a job    *)
(* moves on, or hangs, as it likes.                                        *)
(*                                                                         *)
(* Submission i is the i-th planned call of the run and its job.  A call   *)
(* is one step, at the moment the server answers it: until its next call   *)
(* the submitter touches nothing that another one reads, so reading the    *)
(* answer later changes nothing but the time.                              *)
(*                                                                         *)
(* A definition that stands right before another and shares its name's     *)
(* beginning is a slip the second one could have had; no behaviour uses it.*)
(***************************************************************************)
EXTENDS Naturals, Sequences, FiniteSets

CONSTANTS
  N,         \* planned submissions
  Profiles,  \* load shapes [limit, wave, timed]
  Seen,      \* states in which the jobs are to be found, QUEUED among them
  Traces,    \* traces job_result may carry: per attempt, whether it failed
  MaxPolls   \* bound: polls after which the deadline has passed at the latest

ASSUME ConstantsOK ==
  /\ N \in Nat
  /\ Profiles \subseteq [limit : Nat \ {0}, wave : Nat \ {0}, timed : BOOLEAN]
  /\ "QUEUED" \in Seen
  /\ Traces \subseteq Seq(BOOLEAN)
  /\ MaxPolls \in Nat

VARIABLES
  profile,   \* soak, repair-heavy and control: limit 1; burst: limit = wave; mixed: one wave per round
  phase,     \* of Profile.run
  sampling,  \* the background sampler is alive
  pc,        \* what each submitter waits for
  server,    \* the state of its job
  polls,     \* polls that found the job unfinished
  logged,    \* ManimaMetrics._transitions: the latest state of each job
  lines,     \* attempts.jsonl: the lines of each job
  runs       \* runs.jsonl: the lines of each job

Subs == 1..N   \* in the order they are planned

client == <<pc, polls, logged>>
disk   == <<lines, runs>>
vars   == <<profile, phase, sampling, server, client, disk>>

LC == INSTANCE JobLifecycle WITH Jobs <- Subs, state <- server

Waiting == {"submitting", "asking", "sleeping", "fetching"}
Active  == {i \in Subs : pc[i] \in Waiting}
Wave(i) == (i - 1) \div profile.wave

RunRecord == [state : LC!JobState, succeeded : BOOLEAN, attempts : Nat, first : BOOLEAN]

-----------------------------------------------------------------------------
Init ==
  /\ profile \in Profiles
  /\ phase = "running"
  /\ sampling = TRUE
  /\ pc = [i \in Subs |-> "planned"]
  /\ server = [i \in Subs |-> LC!NoJob]
  /\ polls = [i \in Subs |-> 0]
  /\ logged = [i \in Subs |-> LC!NoJob]
  /\ lines = [i \in Subs |-> <<>>]
  /\ runs = [i \in Subs |-> <<>>]

\* A cancelled task gets no further than its next await.
Goes(i, where) ==
  pc' = [pc EXCEPT ![i] = IF phase = "aborting" /\ where \in Waiting THEN "gone" ELSE where]

\* An exception leaves submitter i: its task group, or the loop, is done for.
Raised(i) == Goes(i, "gone") /\ phase' = "aborting"

-----------------------------------------------------------------------------
(***************************************************************************)
(* The server.                                                             *)
(***************************************************************************)
\* A job is followed as long as the run waits for it.
ServerMoves(i) ==
  /\ phase = "running" /\ i \in Active /\ server[i] \in LC!JobState
  /\ \E s \in Seen : LC!Onward(server[i], s) /\ server' = [server EXCEPT ![i] = s]
  /\ UNCHANGED <<profile, phase, sampling, client, disk>>

-----------------------------------------------------------------------------
(***************************************************************************)
(* Submitters.                                                             *)
(***************************************************************************)
Starts(i) ==
  /\ phase = "running" /\ pc[i] = "planned"
  /\ \A k \in Subs : k < i => pc[k] # "planned"
  /\ Goes(i, "submitting")
  /\ UNCHANGED <<profile, phase, sampling, server, polls, logged, disk>>

LaunchLimitsEnqueue(i) ==
  /\ Cardinality({k \in Subs : pc[k] = "submitting"}) < profile.limit
  /\ \A k \in Subs : Wave(k) < Wave(i) => pc[k] = "recorded"
  /\ Starts(i)
\* start_soon in order, `async with limiter` around the whole job; the task
\* group of one wave ends before the next begins.
Launch(i) ==
  /\ Cardinality(Active) < profile.limit
  /\ \A k \in Subs : Wave(k) < Wave(i) => pc[k] = "recorded"
  /\ Starts(i)

\* The enqueue call.
Enqueue(i) ==
  /\ pc[i] = "submitting"
  /\ server' = [server EXCEPT ![i] = "QUEUED"]
  /\ Goes(i, "asking")
  /\ UNCHANGED <<profile, phase, sampling, polls, logged, disk>>

\* observe_state
Log(i) == logged' = [logged EXCEPT ![i] = server[i]]
Finished(i) ==
  /\ server[i] \in LC!Terminal
  /\ Goes(i, "fetching")
  /\ polls' = [polls EXCEPT ![i] = 0]
  /\ UNCHANGED phase
SleepsOn(i) ==
  /\ server[i] \notin LC!Terminal /\ polls[i] < MaxPolls
  /\ Goes(i, "sleeping")
  /\ polls' = [polls EXCEPT ![i] = @ + 1]
  /\ UNCHANGED phase
\* HarnessTimeout: the deadline has passed.
TimesOut(i) == server[i] \notin LC!Terminal /\ Raised(i) /\ polls' = [polls EXCEPT ![i] = 0]

Polled(i) ==
  /\ pc[i] = "asking"
  /\ UNCHANGED <<profile, sampling, server, disk>>

ObserveLast(i) ==
  /\ Polled(i) /\ (IF server[i] \in LC!Terminal THEN UNCHANGED logged ELSE Log(i))
  /\ Finished(i) \/ SleepsOn(i) \/ TimesOut(i)
\* (late polls are not counted, or there would be no end to the states)
ObserveNoDeadline(i) ==
  \/ Polled(i) /\ Log(i) /\ (Finished(i) \/ SleepsOn(i))
  \/ /\ pc[i] = "asking" /\ server[i] \in LC!Live /\ polls[i] = MaxPolls
     /\ Goes(i, "sleeping") /\ Log(i)
     /\ UNCHANGED <<profile, phase, sampling, server, polls, disk>>
ObserveFetchesLate(i) ==
  /\ Polled(i) /\ Log(i)
  /\ \/ Finished(i) \/ SleepsOn(i)
     \/ Goes(i, "fetching") /\ UNCHANGED <<polls, phase>>
ObserveUncapped(i) ==
  /\ Polled(i) /\ Log(i)
  /\ Goes(i, "sleeping") /\ polls' = [polls EXCEPT ![i] = @ + 1] /\ UNCHANGED phase
\* One turn of _poll_to_terminal.
Observe(i) ==
  /\ Polled(i) /\ Log(i)
  /\ Finished(i) \/ SleepsOn(i) \/ TimesOut(i)

WakeUp(i) ==
  /\ pc[i] = "sleeping"
  /\ Goes(i, "asking")
  /\ UNCHANGED <<profile, phase, sampling, server, polls, logged, disk>>

\* The trace of an expired job is gone; a cache hit and a job that failed
\* before its first render have none.
Carries(state, trace) ==
  /\ state = "EXPIRED" => trace = <<>>
  /\ state = "SUCCEEDED" /\ trace # <<>> => ~trace[Len(trace)]

\* _synthetic_single_attempt: no trace is still one attempt.
Attempts(state, trace) == IF trace = <<>> THEN <<state = "FAILED">> ELSE trace

Summary(state, attempts) ==
  [state |-> state, succeeded |-> state = "SUCCEEDED", attempts |-> attempts,
   first |-> state = "SUCCEEDED" /\ attempts <= 1]

\* RecordStore.record_result: every attempt, then the run's summary.
RecordResult(i, state, trace) ==
  /\ lines' = [lines EXCEPT ![i] = @ \o Attempts(state, trace)]
  /\ runs' = [runs EXCEPT ![i] = Append(@, Summary(state, Len(Attempts(state, trace))))]

\* The end of _generate_job and _render_job.
Fetch(i) ==
  /\ pc[i] = "fetching"
  /\ \E trace \in Traces : Carries(server[i], trace) /\ RecordResult(i, server[i], trace)
  /\ Goes(i, "recorded")
  /\ UNCHANGED <<profile, phase, sampling, server, polls, logged>>

\* A write of record_result raises: the attempts before it keep their lines,
\* and the run gets none.
RecordingFails(i) ==
  /\ pc[i] = "fetching"
  /\ \E trace \in Traces : \E n \in 1..Len(Attempts(server[i], trace)) :
       /\ Carries(server[i], trace)
       /\ lines' = [lines EXCEPT ![i] = @ \o SubSeq(Attempts(server[i], trace), 1, n)]
  /\ Raised(i)
  /\ UNCHANGED <<profile, sampling, server, polls, logged, runs>>

\* ToolCallError, ContractError (an unknown job, a server that cannot
\* generate), or a broken pipe, out of any call.
CallFails(i) ==
  /\ pc[i] \in Waiting \ {"sleeping"}
  /\ Raised(i)
  /\ polls' = [polls EXCEPT ![i] = 0]
  /\ UNCHANGED <<profile, sampling, server, logged, disk>>

-----------------------------------------------------------------------------
(***************************************************************************)
(* The run.                                                                *)
(***************************************************************************)
\* A sibling of a task that raised is cancelled at its next await; its job
\* stays where it is.
CancelTask(i) ==
  /\ phase = "aborting" /\ i \in Active
  /\ Goes(i, "gone")
  /\ polls' = [polls EXCEPT ![i] = 0]
  /\ UNCHANGED <<profile, phase, sampling, server, logged, disk>>

\* A probe raises something other than an OSError: the sampler's task group
\* cancels the profile.
SamplerRaises ==
  /\ phase = "running" /\ sampling
  /\ phase' = "aborting" /\ sampling' = FALSE
  /\ UNCHANGED <<profile, server, client, disk>>

\* All is recorded (or a soak's duration is over): the sampler is cancelled
\* and the metrics are written.
End ==
  /\ phase = "running" /\ Active = {}
  /\ profile.timed \/ \A i \in Subs : pc[i] = "recorded"
  /\ phase' = "done" /\ sampling' = FALSE
  /\ UNCHANGED <<profile, server, client, disk>>

\* The exception passes _sampling and _finalize.
EndFailed ==
  /\ phase = "aborting" /\ Active = {}
  /\ phase' = "failed" /\ sampling' = FALSE
  /\ UNCHANGED <<profile, server, client, disk>>

Submitter(i) == Launch(i) \/ Enqueue(i) \/ Observe(i) \/ WakeUp(i) \/ Fetch(i)

Next ==
  \/ \E i \in Subs : Submitter(i) \/ ServerMoves(i) \/ CallFails(i) \/ RecordingFails(i) \/ CancelTask(i)
  \/ SamplerRaises \/ End \/ EndFailed

Spec == Init /\ [][Next]_vars

\* Every call is answered (no tool of the server waits for a job), every task
\* runs, a cancellation arrives; no job has to move.
FairSpec ==
  /\ Spec
  /\ \A i \in Subs : WF_vars(Submitter(i)) /\ WF_vars(CancelTask(i))
  /\ WF_vars(End \/ EndFailed)

Recorded == {i \in Subs : runs[i] # <<>>}
Run(i)   == runs[i][1]

-----------------------------------------------------------------------------
TypeOK ==
  /\ profile \in Profiles
  /\ phase \in {"running", "aborting", "done", "failed"}
  /\ sampling \in BOOLEAN
  /\ pc \in [Subs -> Waiting \cup {"planned", "recorded", "gone"}]
  /\ LC!TypeOK
  /\ polls \in [Subs -> 0..MaxPolls]
  /\ logged \in [Subs -> LC!JobState \cup {LC!NoJob}]
  /\ lines \in [Subs -> Seq(BOOLEAN)]
  /\ runs \in [Subs -> Seq(RunRecord)]

\* The concurrency a burst or mixed run is labelled with
\* (__main__.py:264-267), which the throughput curve is drawn over, bounds the
\* load on the server: as long as the run goes well there are never more
\* unfinished jobs, although the harness knows them only from old polls.
LabelMatchesLoad ==
  phase \in {"running", "done"} =>
    Cardinality({i \in Subs : server[i] \in LC!Live}) <= profile.limit

\* "Return one RunRecord per job completed" (profiles/__init__.py:56): a job
\* is recorded once, when it is over, with the state it ended in, whatever the
\* reaper, the deadline, a failing sibling and the sampler do meanwhile; and
\* "the raw source and traceback of each attempt hit disk" (record.py:98-100):
\* as many lines as the run says it took, in the order it took them, so that a
\* success is the last of its lines and a first-pass success the only one.
\* Attempts without a run can only be those of a submitter that raised while it
\* recorded them, never of one that may still come back to its job.
RecordedOnce ==
  \A i \in Subs :
    /\ Len(runs[i]) = (IF pc[i] = "recorded" THEN 1 ELSE 0)
    /\ pc[i] \notin {"recorded", "gone"} => Len(lines[i]) = 0
    /\ pc[i] = "recorded" =>
         /\ Len(lines[i]) = Run(i).attempts
         /\ Run(i).state \in LC!Terminal /\ server[i] = Run(i).state
         /\ Run(i).succeeded => ~lines[i][Len(lines[i])]
         /\ Run(i).first => Len(lines[i]) = 1

\* "Recording every transition seen" (profiles/__init__.py:111): the end of a
\* recorded job is among them, in the state it was recorded in unless it
\* expired between the last poll and the result.
FinishIsLogged ==
  \A i \in Recorded :
    logged[i] \in LC!Terminal /\ Run(i).state \in {logged[i], "EXPIRED"}

\* The run ends although jobs hang: the deadline is the safety net
\* (client.py:105-127), and a failure takes its siblings with it.
RunEnds == <>(phase \in {"done", "failed"})
=============================================================================
