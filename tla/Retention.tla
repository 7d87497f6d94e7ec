------------------------------ MODULE Retention ------------------------------
(***************************************************************************)
(* How long a result lives: the job rows of adapters/sqlite_jobs.py, the   *)
(* artifact files of adapters/fs_store.py, the sweep of core/reaper.py and *)
(* the restart of the server process.                                      *)
(*                                                                         *)
(* Rows and files are durable; workers and the synchronous call in         *)
(* progress are not.  What a worker does between its first and its last    *)
(* save is JobManager's subject: here it is one row, RENDERING.  A put and *)
(* a sweep are single calls on the event loop, so nothing else runs until  *)
(* they return; but the process may die after any of their steps, and time *)
(* passes between any two of them.  So four readings of the clock decide   *)
(* on one result, each taken at its own moment: copyfile gives the file    *)
(* its mtime, _succeed the row its expires_at, the reaper's loop reads     *)
(* `now` for the rows and the store its own `now` for the files.  The      *)
(* wall clock is not set back.                                             *)
(*                                                                         *)
(* A definition that stands right before another and shares its name's     *)
(* beginning is a slip the second one could have had; no behaviour uses it.*)
(***************************************************************************)
EXTENDS Naturals

CONSTANTS
  Jobs,        \* job ids
  Keys,        \* content keys
  NoKey,       \* "no artifact"
  Never,       \* expires_at is None
  TTL,         \* config.artifact_ttl_s
  MaxTime,     \* bound: the clock stops here
  MaxCrashes   \* bound: restarts of the server

ASSUME ConstantsOK ==
  /\ NoKey \notin Keys
  /\ Never \notin Nat
  /\ TTL \in Nat \ {0} /\ MaxTime \in Nat /\ MaxCrashes \in Nat

VARIABLES
  clock,    \* time.time()
  row,      \* the jobs table
  file,     \* <key>.mp4: when it was written and whether it is a whole video
  shown,    \* history: how old was the file a job's path led to at its success
  made,     \* history: the jobs whose own put created that file
  workers,  \* jobs with a live asyncio task
  call,     \* the put or the sweep in progress
  crashes   \* restarts so far

vars == <<clock, row, file, shown, made, workers, call, crashes>>

LC == INSTANCE JobLifecycle WITH state <- [j \in Jobs |-> row[j].state]

Row   == [state : LC!JobState \cup {LC!NoJob}, expires : Nat \cup {Never},
          artifact : Keys \cup {NoKey}]
Gone  == [since |-> 0, whole |-> FALSE, there |-> FALSE]
File  == [since : Nat, whole : BOOLEAN, there : BOOLEAN]
Quiet == [does |-> "nothing"]
Put   == [does : {"copying", "recording"}, job : Jobs, key : Keys, since : Nat]
Call  == {Quiet} \cup Put \cup [does : {"waking", "expiring"}, now : Nat]
           \cup [does : {"unlinking"}, now : Nat, at : Nat]

Stored(k) == file[k].there

\* A worker runs only while the event loop is free.
Free == call = Quiet
Runs(j, state) == Free /\ j \in workers /\ row[j].state = state

-----------------------------------------------------------------------------
(***************************************************************************)
(* Workers.                                                                *)
(***************************************************************************)
Init ==
  /\ clock = 0
  /\ row = [j \in Jobs |-> [state |-> LC!NoJob, expires |-> Never, artifact |-> NoKey]]
  /\ file = [k \in Keys |-> Gone]
  /\ shown = [j \in Jobs |-> Never]
  /\ made = {}
  /\ workers = {}
  /\ call = Quiet
  /\ crashes = 0

Moved(j, s) == row' = [row EXCEPT ![j].state = s]

\* The worker of j returns after saving its row.
Ended(j, s, expires, key) ==
  /\ row' = [row EXCEPT ![j] = [state |-> s, expires |-> expires, artifact |-> key]]
  /\ workers' = workers \ {j}

SucceedBlank(j, k) ==
  Ended(j, "SUCCEEDED", clock + TTL, NoKey) /\ shown' = [shown EXCEPT ![j] = file[k].since]
\* _succeed: the window is counted from now, however old the file is.
Succeed(j, k) ==
  /\ Ended(j, "SUCCEEDED", clock + TTL, k)
  /\ shown' = [shown EXCEPT ![j] = file[k].since]

Submit(j) ==
  /\ Free
  /\ row[j].state = LC!NoJob
  /\ Moved(j, "QUEUED")
  /\ workers' = workers \cup {j}
  /\ UNCHANGED <<clock, file, shown, made, call, crashes>>

\* store.get found the artifact of an identical request.
Hit(j, k) ==
  /\ Runs(j, "QUEUED") /\ Stored(k)
  /\ Succeed(j, k)
  /\ UNCHANGED <<clock, file, made, call, crashes>>

Start(j) ==
  /\ Runs(j, "QUEUED")
  /\ Moved(j, "RENDERING")
  /\ UNCHANGED <<clock, file, shown, made, workers, call, crashes>>

\* _fail, a noticed cancel, and the guard of a worker whose port raised: only
\* the first of them opens a window.
Fail(j) ==
  /\ Runs(j, "QUEUED") \/ Runs(j, "RENDERING")
  /\ \/ Ended(j, "FAILED", clock + TTL, NoKey)
     \/ Ended(j, "CANCELLED", Never, NoKey)
     \/ Ended(j, "FAILED", Never, NoKey)
  /\ UNCHANGED <<clock, file, shown, made, call, crashes>>

-----------------------------------------------------------------------------
(***************************************************************************)
(* FsArtifactStore.put after a full render.                                *)
(***************************************************************************)
\* Idempotent: an artifact stored meanwhile under the same key is kept.
Reuse(j, k) ==
  /\ Runs(j, "RENDERING") /\ Stored(k)
  /\ Succeed(j, k)
  /\ UNCHANGED <<clock, file, made, call, crashes>>

CopyInPlace(j, k) ==
  /\ Runs(j, "RENDERING") /\ ~Stored(k)
  /\ call' = [does |-> "copying", job |-> j, key |-> k, since |-> clock]
  /\ file' = [file EXCEPT ![k] = [since |-> clock, whole |-> FALSE, there |-> TRUE]]
  /\ UNCHANGED <<clock, row, shown, made, workers, crashes>>
\* copyfile into <key>.mp4.partial, which no get and no sweep ever looks at
\* and the next put of the key overwrites.  Its mtime is that of the copy.
Copy(j, k) ==
  /\ Runs(j, "RENDERING") /\ ~Stored(k)
  /\ call' = [does |-> "copying", job |-> j, key |-> k, since |-> clock]
  /\ UNCHANGED <<clock, row, file, shown, made, workers, crashes>>

\* tmp.replace(dst): a rename keeps the mtime.
Replace ==
  /\ call.does = "copying"
  /\ file' = [file EXCEPT ![call.key] = [since |-> call.since, whole |-> TRUE, there |-> TRUE]]
  /\ call' = [call EXCEPT !.does = "recording"]
  /\ UNCHANGED <<clock, row, shown, made, workers, crashes>>

\* copyfile or the rename raised: the guard fails the job, the .partial stays.
PutRaises ==
  /\ call.does = "copying"
  /\ Ended(call.job, "FAILED", Never, NoKey)
  /\ call' = Quiet
  /\ UNCHANGED <<clock, file, shown, made, crashes>>

\* put returned: _succeed.
Record ==
  /\ call.does = "recording"
  /\ Succeed(call.job, call.key)
  /\ made' = made \cup {call.job}
  /\ call' = Quiet
  /\ UNCHANGED <<clock, file, crashes>>

-----------------------------------------------------------------------------
(***************************************************************************)
(* Reaper.reap: the files first, then the rows.                            *)
(***************************************************************************)
FileDueOnTheDot(k) == Stored(k) /\ call.at - file[k].since >= TTL
FileDueIfHandedOut(k) ==
  Stored(k) /\ call.at - file[k].since > TTL /\ \E j \in Jobs : row[j].artifact = k
\* FsArtifactStore.reap: by mtime, strictly.
FileDue(k) == Stored(k) /\ call.at - file[k].since > TTL

RowDueIfSucceeded(j) ==
  row[j].expires # Never /\ row[j].expires <= call.now /\ row[j].state = "SUCCEEDED"
\* SqliteJobStore.expired: by expires_at, not strictly.
RowDue(j) ==
  row[j].expires # Never /\ row[j].expires <= call.now /\ row[j].state # "EXPIRED"

\* The reaper's loop wakes up and reads the clock for the rows.
Wake ==
  /\ Free
  /\ call' = [does |-> "waking", now |-> clock]
  /\ UNCHANGED <<clock, row, file, shown, made, workers, crashes>>

\* The store reads the clock for the files.
ReapFiles ==
  /\ call.does = "waking"
  /\ call' = [does |-> "unlinking", now |-> call.now, at |-> clock]
  /\ UNCHANGED <<clock, row, file, shown, made, workers, crashes>>

Unlink(k) ==
  /\ call.does = "unlinking" /\ FileDue(k)
  /\ file' = [file EXCEPT ![k] = Gone]
  /\ UNCHANGED <<clock, row, shown, made, workers, call, crashes>>

Unlinked ==
  /\ call.does = "unlinking" /\ \A k \in Keys : ~FileDue(k)
  /\ call' = [does |-> "expiring", now |-> call.now]
  /\ UNCHANGED <<clock, row, file, shown, made, workers, crashes>>

Expire(j) ==
  /\ call.does = "expiring" /\ RowDue(j)
  /\ LC!CanTransition(row[j].state, "EXPIRED")
  /\ row' = [row EXCEPT ![j].state = "EXPIRED", ![j].artifact = NoKey]
  /\ UNCHANGED <<clock, file, shown, made, workers, call, crashes>>

Expired ==
  /\ call.does = "expiring" /\ \A j \in Jobs : ~RowDue(j)
  /\ call' = Quiet
  /\ UNCHANGED <<clock, row, file, shown, made, workers, crashes>>

Sweep == Wake \/ ReapFiles \/ (\E k \in Keys : Unlink(k)) \/ Unlinked
           \/ (\E j \in Jobs : Expire(j)) \/ Expired

-----------------------------------------------------------------------------
Tick ==
  /\ clock < MaxTime
  /\ clock' = clock + 1
  /\ UNCHANGED <<row, file, shown, made, workers, call, crashes>>

\* The process dies and main runs again: the rows and the files are all it
\* finds, and nothing goes through the rows of the jobs that were running.
Crash ==
  /\ crashes < MaxCrashes
  /\ crashes' = crashes + 1
  /\ workers' = {}
  /\ call' = Quiet
  /\ UNCHANGED <<clock, row, file, shown, made>>

Work(j) == Submit(j) \/ Start(j) \/ Fail(j)
             \/ \E k \in Keys : Hit(j, k) \/ Reuse(j, k) \/ Copy(j, k)

Next == (\E j \in Jobs : Work(j)) \/ Replace \/ PutRaises \/ Record \/ Tick \/ Sweep \/ Crash

Spec == Init /\ [][Next]_vars

\* Time passes, a call returns, and the reaper's loop keeps waking up.
FairSpec == Spec /\ WF_vars(Tick) /\ WF_vars(Replace \/ Record)
              /\ WF_vars(Sweep)

-----------------------------------------------------------------------------
\* The shape of every variable: a path goes with SUCCEEDED and nothing else.
TypeOK ==
  /\ clock \in 0..MaxTime
  /\ row \in [Jobs -> Row]
  /\ \A j \in Jobs : row[j].state = "SUCCEEDED" <=> row[j].artifact \in Keys
  /\ file \in [Keys -> File]
  /\ shown \in [Jobs -> Nat \cup {Never}]
  /\ made \in SUBSET Jobs
  /\ workers \in SUBSET Jobs
  /\ call \in Call
  /\ crashes \in 0..MaxCrashes

\* "a crash mid-copy never leaves a truncated artifact under a valid key"
\* (fs_store.py:57-58): whatever path a SUCCEEDED job hands out, of its own put
\* or of a later cache hit, holds a whole video as long as it exists.
OnlyWholeVideosServed ==
  \A j \in Jobs :
    row[j].state = "SUCCEEDED" /\ Stored(row[j].artifact) => file[row[j].artifact].whole

\* A path that was handed out leads to its video until the file is older than
\* its retention: through the clock readings of sweeps under way, puts of the
\* same key and restarts, no sweep takes a file that is not due, and no job
\* succeeds with a path to nothing (fs_store.py:52-62,71-76,
\* job_manager.py:141-155).  The row's own window may well be longer.
KeptSinceWritten ==
  \A j \in Jobs :
    row[j].state = "SUCCEEDED" /\ clock <= shown[j] + TTL => Stored(row[j].artifact)

\* Every window that elapses while the clock runs closes: the job becomes
\* EXPIRED although sweeps are cut short by restarts (reaper.py:23-39,
\* server.py:180-183).
WindowsClose ==
  \A j \in Jobs : row[j].expires \in 0..MaxTime ~> row[j].state = "EXPIRED"

\* No artifact outlives its retention, not even one whose job died between the
\* rename and the save of its row (fs_store.py:64-77).
FilesGo ==
  \A k \in Keys : \A t \in 0..MaxTime :
    (Stored(k) /\ file[k].since = t /\ t + TTL < MaxTime)
      ~> ~(Stored(k) /\ file[k].since = t)

-----------------------------------------------------------------------------
(***************************************************************************)
(* What the documents say and the code does not do.                        *)
(***************************************************************************)
\* "job_result on an expired job reports expiry rather than returning a
\* dangling path" (jobs spec.md:92-93): while its window is open, the path of a
\* job that found its video in the store leads to a file, but for the sweep at
\* work.
NoDanglingPath ==
  \A j \in Jobs \ made :
    /\ row[j].state = "SUCCEEDED" /\ clock < row[j].expires
    /\ Free /\ crashes = 0
    => Stored(row[j].artifact)

\* "Artifacts and job logs SHALL be removed once their retention window
\* elapses, and the job SHALL transition to EXPIRED" (jobs spec.md:85-86).
FinishedJobsExpire ==
  \A j \in Jobs :
    row[j].state \in LC!Terminal /\ clock + TTL < MaxTime ~> row[j].state = "EXPIRED"
=============================================================================
