---------------------------- MODULE DockerSandbox ----------------------------
(***************************************************************************)
(* adapters/docker_sandbox.py: one sandbox.run after another for each job, *)
(* the `docker run` client each of them waits for, the wall-clock timeout  *)
(* that kills by name, and the kill of cancel_job, which may come from     *)
(* outside at any time.                                                    *)
(*                                                                         *)
(* Container names repeat: job_manager.py:271 builds them from the job and *)
(* the mode.  The engine and its client are modelled from how run and kill *)
(* use them: a name is taken from the creation of its container to its     *)
(* removal (--rm), and the client returns when the container is gone and   *)
(* all its output is read.  preflight has seen the CLI at startup:         *)
(* starting a process succeeds.  The working directory and the copy of the *)
(* artifact out of it lie in one synchronous stretch after the last await  *)
(* and are left out.                                                       *)
(*                                                                         *)
(* A definition that stands right before another and shares its name's     *)
(* beginning is a slip the second one could have had; no behaviour uses it.*)
(***************************************************************************)
EXTENDS Naturals

CONSTANTS
  Jobs,
  MaxRuns    \* bound: calls of sandbox.run per job

ASSUME ConstantsOK == MaxRuns \in Nat

VARIABLES
  phase,     \* the await each job's run is at; "idle" between two runs
  mode,      \* RenderMode of the run at hand
  client,    \* the `docker run` process: what it waits for, or its exit code
  box,       \* the engine: the container under each name
  kills,     \* `docker kill` processes still running
  flagged,   \* jobs whose cancel was acknowledged: they start no further run
  outcome,   \* the last RenderOutcome
  runs,      \* runs started so far
  killed     \* history: the names whose latest container a kill has ended

vars == <<phase, mode, client, box, kills, flagged, outcome, runs, killed>>

Modes == {"probe", "full"}
Names == Jobs \X Modes
Codes == {"zero", "nonzero", "137", "taken"}    \* exit codes of the client
Kills == [name : Names, by : {"timeout", "cancel"}]
Name(j) == <<j, mode[j]>>

-----------------------------------------------------------------------------
(***************************************************************************)
(* The engine and its client.                                              *)
(***************************************************************************)
\* The daemon creates and starts the container, unless its name is taken.
Create(j) ==
  /\ client[j] = "connecting"
  /\ \/ /\ box[Name(j)] = "absent"
        /\ box' = [box EXCEPT ![Name(j)] = "running"]
        /\ client' = [client EXCEPT ![j] = "attached"]
        /\ killed' = killed \ {Name(j)}
     \/ /\ box[Name(j)] # "absent"
        /\ client' = [client EXCEPT ![j] = "taken"]
        /\ UNCHANGED <<box, killed>>
  /\ UNCHANGED <<phase, mode, kills, flagged, outcome, runs>>

\* manim ends by itself or hits the memory cap; a scene may also loop forever.
Exit(n, code) ==
  /\ box[n] = "running"
  /\ box' = [box EXCEPT ![n] = code]
  /\ UNCHANGED <<phase, mode, client, kills, flagged, outcome, runs, killed>>

\* The engine handles a kill: without a running container it changes nothing.
Kill(k) ==
  /\ k \in kills
  /\ kills' = kills \ {k}
  /\ IF box[k.name] = "running"
     THEN box' = [box EXCEPT ![k.name] = "137"] /\ killed' = killed \cup {k.name}
     ELSE UNCHANGED <<box, killed>>
  /\ UNCHANGED <<phase, mode, client, flagged, outcome, runs>>

\* Nobody reads the two pipes once communicate is cancelled: a scene that has
\* more to print than they hold leaves the client stuck in its write for ever.
Block(j) ==
  /\ client[j] = "attached" /\ phase[j] \in {"killing", "waiting"}
  /\ client' = [client EXCEPT ![j] = "blocked"]
  /\ UNCHANGED <<phase, mode, box, kills, flagged, outcome, runs, killed>>

\* --rm: the container goes, and the client that was attached to it exits with
\* its code.
Remove(j) ==
  /\ client[j] \in {"attached", "blocked"} /\ box[Name(j)] \in Codes
  /\ client' = IF client[j] = "attached" THEN [client EXCEPT ![j] = box[Name(j)]] ELSE client
  /\ box' = [box EXCEPT ![Name(j)] = "absent"]
  /\ UNCHANGED <<phase, mode, kills, flagged, outcome, runs, killed>>

-----------------------------------------------------------------------------
(***************************************************************************)
(* DockerSandbox.run.                                                      *)
(***************************************************************************)
Init ==
  /\ phase = [j \in Jobs |-> "idle"]
  /\ mode = [j \in Jobs |-> "probe"]
  /\ client = [j \in Jobs |-> "none"]
  /\ box = [n \in Names |-> "absent"]
  /\ kills = {}
  /\ flagged = {}
  /\ outcome = [j \in Jobs |-> "none"]
  /\ runs = [j \in Jobs |-> 0]
  /\ killed = {}

\* The job manager starts a run.
Begin(j, m) ==
  /\ phase[j] = "idle" /\ j \notin flagged /\ runs[j] < MaxRuns
  /\ phase' = [phase EXCEPT ![j] = "communicating"]
  /\ mode' = [mode EXCEPT ![j] = m]
  /\ client' = [client EXCEPT ![j] = "connecting"]
  /\ outcome' = [outcome EXCEPT ![j] = "none"]
  /\ runs' = [runs EXCEPT ![j] = @ + 1]
  /\ UNCHANGED <<box, kills, flagged, killed>>

\* The run returns or raises.
Return(j, what) ==
  /\ phase' = [phase EXCEPT ![j] = "idle"]
  /\ outcome' = [outcome EXCEPT ![j] = what]
  /\ UNCHANGED <<mode, client, box, kills, flagged, runs, killed>>

\* communicate returned within the budget.  An exit code 0 without an output
\* file is a failure too, and the copy of a full render's video may raise.
Answer(j) ==
  /\ phase[j] = "communicating" /\ client[j] \in Codes
  /\ \/ client[j] = "zero" /\ Return(j, "ok")
     \/ client[j] = "zero" /\ mode[j] = "full" /\ Return(j, "raised")
     \/ Return(j, IF client[j] = "137" THEN "oom" ELSE "failed")

TimeoutForgetsKill(j) ==
  /\ phase[j] = "communicating"
  /\ phase' = [phase EXCEPT ![j] = "killing"]
  /\ UNCHANGED <<mode, client, box, kills, flagged, outcome, runs, killed>>
\* The budget elapses, wherever the client is, and the kill is sent.
Timeout(j) ==
  /\ phase[j] = "communicating"
  /\ phase' = [phase EXCEPT ![j] = "killing"]
  /\ kills' = kills \cup {[name |-> Name(j), by |-> "timeout"]}
  /\ UNCHANGED <<mode, client, box, flagged, outcome, runs, killed>>

KilledAtOnce(j) ==
  /\ phase[j] = "killing"
  /\ phase' = [phase EXCEPT ![j] = "waiting"]
  /\ UNCHANGED <<mode, client, box, kills, flagged, outcome, runs, killed>>
\* The kill process has ended: now wait for the client.
Killed(j) ==
  /\ phase[j] = "killing"
  /\ [name |-> Name(j), by |-> "timeout"] \notin kills
  /\ phase' = [phase EXCEPT ![j] = "waiting"]
  /\ UNCHANGED <<mode, client, box, kills, flagged, outcome, runs, killed>>

WaitedNot(j) == phase[j] = "waiting" /\ Return(j, "timeout")
\* await proc.wait(), which has no timeout of its own.
Waited(j) ==
  /\ phase[j] = "waiting" /\ client[j] \in Codes
  /\ Return(j, "timeout")

\* cancel_job while a container name is registered: flag the job, send a kill.
Cancel(j) ==
  /\ phase[j] # "idle"
  /\ flagged' = flagged \cup {j}
  /\ kills' = kills \cup {[name |-> Name(j), by |-> "cancel"]}
  /\ UNCHANGED <<phase, mode, client, box, outcome, runs, killed>>

\* No run left to start, none in progress, no kill on its way.
Terminating ==
  /\ kills = {}
  /\ \A j \in Jobs : phase[j] = "idle" /\ (j \in flagged \/ runs[j] = MaxRuns)
  /\ UNCHANGED vars

Next ==
  \/ \E j \in Jobs :
       \/ \E m \in Modes : Begin(j, m)
       \/ Create(j) \/ Block(j) \/ Remove(j) \/ Answer(j) \/ Timeout(j) \/ Killed(j) \/ Waited(j) \/ Cancel(j)
  \/ \E n \in Names : \E code \in Codes \ {"taken"} : Exit(n, code)
  \/ \E k \in kills : Kill(k)
  \/ Terminating

Spec == Init /\ [][Next]_vars

\* The engine serves what it is asked, the event loop resumes what is ready and
\* the budget elapses; nothing makes a scene end.
FairSpec ==
  /\ Spec
  /\ \A k \in Kills : WF_vars(Kill(k))
  /\ \A j \in Jobs :
       WF_vars(Create(j)) /\ WF_vars(Remove(j))
         /\ WF_vars(Answer(j) \/ Timeout(j) \/ Killed(j) \/ Waited(j))

-----------------------------------------------------------------------------
\* The shape of every variable; a run is over only when its client is.
TypeOK ==
  /\ phase \in [Jobs -> {"idle", "communicating", "killing", "waiting"}]
  /\ mode \in [Jobs -> Modes]
  /\ client \in [Jobs -> {"none", "connecting", "attached", "blocked"} \cup Codes]
  /\ box \in [Names -> {"absent", "running", "zero", "nonzero", "137"}]
  /\ kills \in SUBSET Kills
  /\ flagged \in SUBSET Jobs
  /\ outcome \in [Jobs -> {"none", "ok", "failed", "oom", "raised", "timeout"}]
  /\ \A j \in Jobs : phase[j] = "idle" => client[j] \in {"none"} \cup Codes
  /\ runs \in [Jobs -> 0..MaxRuns]
  /\ killed \in SUBSET Names

\* When run is over its container is gone, even if the timeout's kill came
\* before the container existed: else the next run of the same mode would find
\* its name taken and fail a good candidate (docker_sandbox.py:106-107).
NoContainerOutlivesItsRun ==
  \A j \in Jobs :
    /\ client[j] # "taken"
    /\ phase[j] = "idle" => \A m \in Modes : box[<<j, m>>] = "absent"

\* A verdict is the scene's own: without a cancel of the job, no kill, late or
\* of an earlier run under the same name, has ended the container it is about,
\* so that 137 "without a timeout is the OOM-kill signature"
\* (docker_sandbox.py:131) and a repair is told the truth.
VerdictIsOwn ==
  \A j \in Jobs \ flagged :
    outcome[j] \in {"ok", "failed", "oom", "raised"} => Name(j) \notin killed

\* A timeout of a run whose container is up ends the run, whatever else is
\* killed meanwhile, unless the scene has more to print than the pipes hold:
\* then the wait of line 108 may be for ever (docker_sandbox.py:104-113).
TimeoutEndsRunningScene ==
  \A j \in Jobs :
    phase[j] = "communicating" /\ box[Name(j)] = "running"
      ~> phase[j] = "idle" \/ client[j] = "blocked"

-----------------------------------------------------------------------------
\* "WHEN a scene loops forever THEN the wall-clock timeout elapses AND the
\* container is killed" (sandbox spec.md:46-51): every run comes to an end.
EveryRunEnds == \A j \in Jobs : phase[j] # "idle" ~> phase[j] = "idle"
=============================================================================
