---------------------------- MODULE HarnessProofs ----------------------------
(***************************************************************************)
(* The safety theorems of Harness, for any number of submissions, any load *)
(* shapes, any traces and any number of polls.                             *)
(***************************************************************************)
EXTENDS Harness, FiniteSetTheorems, SequenceTheorems, TLAPS

-----------------------------------------------------------------------------
(***************************************************************************)
(* The lifecycle a client sees.                                            *)
(***************************************************************************)
\* A chain of edges ends at a state, and from a terminal one at EXPIRED.
LEMMA OnwardState ==
  ASSUME NEW src \in LC!JobState, NEW dst, LC!Onward(src, dst)
  PROVE  dst \in LC!JobState \ {"QUEUED"}
<1>. USE DEF LC!Allowed, LC!JobState, LC!Live, LC!Terminal
<1>1. \A s \in LC!JobState : LC!Allowed[s] \subseteq LC!JobState \ {"QUEUED"}
  OBVIOUS
<1>. HIDE DEF LC!Allowed, LC!JobState, LC!Live, LC!Terminal
<1>. QED BY <1>1 DEF LC!Onward, LC!CanTransition

LEMMA OnwardTerminal ==
  ASSUME NEW src \in LC!Terminal, NEW dst, LC!Onward(src, dst)
  PROVE  dst = "EXPIRED"
BY DEF LC!Onward, LC!CanTransition, LC!Allowed, LC!JobState, LC!Live, LC!Terminal

LEMMA StateKinds ==
  /\ "QUEUED" \in LC!Live /\ "EXPIRED" \in LC!Terminal
  /\ LC!Live \cap LC!Terminal = {} /\ LC!JobState = LC!Live \cup LC!Terminal
  /\ LC!NoJob \notin LC!JobState
BY DEF LC!JobState, LC!Live, LC!Terminal, LC!NoJob

-----------------------------------------------------------------------------
(***************************************************************************)
(* The inductive invariant: what each place of a submitter says about its  *)
(* job, its log entry and its files.                                       *)
(***************************************************************************)
Followed ==
  \A i \in Subs :
    /\ pc[i] \in {"planned", "submitting"} => server[i] = LC!NoJob
    /\ pc[i] \in {"asking", "sleeping"} => server[i] \in LC!JobState
    /\ pc[i] \in {"fetching", "recorded"} =>
         logged[i] \in LC!Terminal /\ server[i] \in {logged[i], "EXPIRED"}

Written(i) ==
  /\ Len(runs[i]) = 1
  /\ Len(lines[i]) = Run(i).attempts
  /\ Run(i).state = server[i]
  /\ Run(i).succeeded => ~lines[i][Len(lines[i])]
  /\ Run(i).first => Run(i).attempts = 1
OnDisk ==
  \A i \in Subs :
    IF pc[i] = "recorded" THEN Written(i)
    ELSE runs[i] = <<>> /\ (pc[i] # "gone" => lines[i] = <<>>)

-----------------------------------------------------------------------------
(***************************************************************************)
(* Types.                                                                  *)
(***************************************************************************)
Places == Waiting \cup {"planned", "recorded", "gone"}

\* A submitter that goes somewhere gets there, or is gone.
LEMMA GoesType ==
  ASSUME TypeOK, NEW i \in Subs, NEW where \in Places, Goes(i, where)
  PROVE  /\ pc' \in [Subs -> Places]
         /\ pc'[i] \in {where, "gone"}
         /\ pc'[i] = "gone" => where = "gone" \/ phase = "aborting"
         /\ where \notin Waiting => pc'[i] = where
         /\ \A k \in Subs : k # i => pc'[k] = pc[k]
BY DEF TypeOK, Goes, Places, Waiting

\* What record_result writes.
LEMMA SummaryType ==
  ASSUME NEW state \in LC!JobState, NEW n \in Nat
  PROVE  Summary(state, n) \in RunRecord
BY DEF Summary, RunRecord

LEMMA AttemptsType ==
  ASSUME NEW state, NEW trace \in Seq(BOOLEAN)
  PROVE  /\ Attempts(state, trace) \in Seq(BOOLEAN)
         /\ Len(Attempts(state, trace)) \in Nat \ {0}
<1>1. ASSUME NEW b \in BOOLEAN PROVE <<b>> \in Seq(BOOLEAN) /\ Len(<<b>>) = 1
  OBVIOUS
<1>2. CASE trace = <<>>
  <2>1. (state = "FAILED") \in BOOLEAN
    BY Zenon
  <2>2. Attempts(state, trace) = <<state = "FAILED">>
    BY <1>2 DEF Attempts
  <2>3. <<state = "FAILED">> \in Seq(BOOLEAN) /\ Len(<<state = "FAILED">>) = 1
    BY <1>1, <2>1
  <2>. QED BY <2>2, <2>3
<1>3. CASE trace # <<>>
  <2>1. Attempts(state, trace) = trace
    BY <1>3 DEF Attempts
  <2>2. Len(trace) \in Nat \ {0}
    BY <1>3
  <2>. QED BY <2>1, <2>2
<1>. QED BY <1>2, <1>3

LEMMA RecordType ==
  ASSUME TypeOK, NEW i \in Subs, NEW state \in LC!JobState, NEW trace \in Seq(BOOLEAN),
         RecordResult(i, state, trace)
  PROVE  /\ lines' = [lines EXCEPT ![i] = @ \o Attempts(state, trace)]
         /\ runs' = [runs EXCEPT ![i] = Append(@, Summary(state, Len(Attempts(state, trace))))]
         /\ lines' \in [Subs -> Seq(BOOLEAN)]
         /\ runs' \in [Subs -> Seq(RunRecord)]
<1>1. Attempts(state, trace) \in Seq(BOOLEAN) /\ Len(Attempts(state, trace)) \in Nat
  BY AttemptsType
<1>2. Summary(state, Len(Attempts(state, trace))) \in RunRecord
  BY <1>1, SummaryType
<1>3. lines[i] \in Seq(BOOLEAN) /\ runs[i] \in Seq(RunRecord)
  BY DEF TypeOK
<1>4. /\ lines[i] \o Attempts(state, trace) \in Seq(BOOLEAN)
      /\ Append(runs[i], Summary(state, Len(Attempts(state, trace)))) \in Seq(RunRecord)
  BY <1>1, <1>2, <1>3
<1>. QED BY <1>4 DEF TypeOK, RecordResult

\* What a recording that breaks off leaves.
LEMMA BrokenOff ==
  ASSUME TypeOK, NEW i \in Subs, RecordingFails(i)
  PROVE  /\ pc[i] = "fetching" /\ UNCHANGED <<profile, sampling, server, polls, logged, runs>>
         /\ phase' = "aborting" /\ pc'[i] = "gone" /\ pc' \in [Subs -> Places]
         /\ \A k \in Subs : k # i => pc'[k] = pc[k] /\ lines'[k] = lines[k]
         /\ lines' \in [Subs -> Seq(BOOLEAN)]
<1>0. PICK trace \in Traces :
             \E n \in 1..Len(Attempts(server[i], trace)) :
               lines' = [lines EXCEPT ![i] = @ \o SubSeq(Attempts(server[i], trace), 1, n)]
  BY DEF RecordingFails
<1>1. PICK n \in 1..Len(Attempts(server[i], trace)) :
             lines' = [lines EXCEPT ![i] = @ \o SubSeq(Attempts(server[i], trace), 1, n)]
  BY <1>0
<1>. DEFINE att == Attempts(server[i], trace)
<1>2. att \in Seq(BOOLEAN)
  BY AttemptsType, ConstantsOK
<1>. HIDE DEF att
<1>3. n \in 1..Len(att)
  BY DEF att
<1>4. SubSeq(att, 1, n) \in Seq(BOOLEAN)
  BY <1>2, <1>3, SubSeqProperties
<1>5. lines[i] \o SubSeq(att, 1, n) \in Seq(BOOLEAN)
  BY <1>4 DEF TypeOK
<1>6. lines' = [lines EXCEPT ![i] = @ \o SubSeq(att, 1, n)]
  BY <1>1 DEF att
<1>7. /\ lines' \in [Subs -> Seq(BOOLEAN)]
      /\ \A k \in Subs : k # i => lines'[k] = lines[k]
  BY <1>5, <1>6 DEF TypeOK
<1>8. "gone" \in Places /\ "gone" \notin Waiting
  BY DEF Places, Waiting
<1>. QED BY <1>7, <1>8, GoesType DEF RecordingFails, Raised

\* One turn of the poll loop.
LEMMA ObserveType ==
  ASSUME TypeOK, NEW i \in Subs, Observe(i)
  PROVE  /\ pc' \in [Subs -> Places]
         /\ \A k \in Subs : k # i => pc'[k] = pc[k]
         /\ logged' = [logged EXCEPT ![i] = server[i]]
         /\ polls' \in [Subs -> 0..MaxPolls]
         /\ phase' \in {phase, "aborting"}
         /\ UNCHANGED <<profile, sampling, server, disk>>
         /\ pc[i] = "asking"
         /\ \/ server[i] \in LC!Terminal /\ pc'[i] \in {"fetching", "gone"} /\ phase' = phase
            \/ server[i] \notin LC!Terminal /\ pc'[i] \in {"sleeping", "gone"}
         /\ pc'[i] = "gone" => phase' = "aborting"
<1>0. /\ {"fetching", "sleeping", "gone"} \subseteq Places
      /\ pc[i] = "asking" /\ logged' = [logged EXCEPT ![i] = server[i]]
      /\ UNCHANGED <<profile, sampling, server, disk>>
  BY DEF Observe, Polled, Log, Places, Waiting
<1>1. CASE Finished(i)
  BY <1>0, <1>1, GoesType, ConstantsOK DEF Finished, TypeOK
<1>2. CASE SleepsOn(i)
  <2>1. polls' \in [Subs -> 0..MaxPolls]
    BY <1>2, ConstantsOK DEF SleepsOn, TypeOK
  <2>. QED BY <1>0, <1>2, <2>1, GoesType DEF SleepsOn
<1>3. CASE TimesOut(i)
  BY <1>0, <1>3, GoesType, ConstantsOK DEF TimesOut, Raised, TypeOK
<1>. QED BY <1>1, <1>2, <1>3 DEF Observe

LEMMA TypeStep == TypeOK /\ Followed /\ [Next]_vars => TypeOK'
<1>. SUFFICES ASSUME TypeOK, Followed, [Next]_vars PROVE TypeOK'
  OBVIOUS
<1>. USE ConstantsOK DEF Places
<1>p. /\ Waiting \subseteq Places /\ {"gone", "recorded"} \subseteq Places
      /\ {"submitting", "asking", "sleeping", "fetching"} \subseteq Waiting
  BY DEF Places, Waiting
<1>1. ASSUME NEW i \in Subs, Launch(i) PROVE TypeOK'
  <2>1. pc' \in [Subs -> Places]
    BY <1>1, <1>p, GoesType DEF Launch, Starts
  <2>. QED BY <1>1, <2>1 DEF TypeOK, Launch, Starts, disk, LC!TypeOK
<1>2. ASSUME NEW i \in Subs, Enqueue(i) PROVE TypeOK'
  <2>1. pc' \in [Subs -> Places]
    BY <1>2, <1>p, GoesType DEF Enqueue
  <2>2. server' \in [Subs -> LC!JobState \cup {LC!NoJob}]
    BY <1>2, StateKinds DEF TypeOK, Enqueue, LC!TypeOK
  <2>. QED BY <1>2, <2>1, <2>2 DEF TypeOK, Enqueue, disk, LC!TypeOK
<1>3. ASSUME NEW i \in Subs, Observe(i) PROVE TypeOK'
  <2>1. logged' \in [Subs -> LC!JobState \cup {LC!NoJob}]
    BY <1>3, ObserveType DEF TypeOK, LC!TypeOK
  <2>2. phase' \in {"running", "aborting", "done", "failed"}
    BY <1>3, ObserveType DEF TypeOK
  <2>. QED BY <1>3, <2>1, <2>2, ObserveType DEF TypeOK, disk, LC!TypeOK
<1>4. ASSUME NEW i \in Subs, WakeUp(i) PROVE TypeOK'
  <2>1. pc' \in [Subs -> Places]
    BY <1>4, <1>p, GoesType DEF WakeUp
  <2>. QED BY <1>4, <2>1 DEF TypeOK, WakeUp, disk, LC!TypeOK
<1>5. ASSUME NEW i \in Subs, Fetch(i) PROVE TypeOK'
  <2>0. server[i] \in LC!JobState
    BY <1>5, StateKinds DEF Followed, Fetch
  <2>1. pc' \in [Subs -> Places]
    BY <1>5, <1>p, GoesType DEF Fetch
  <2>2. PICK trace \in Traces : RecordResult(i, server[i], trace)
    BY <1>5 DEF Fetch
  <2>3. lines' \in [Subs -> Seq(BOOLEAN)] /\ runs' \in [Subs -> Seq(RunRecord)]
    BY <1>5, <2>0, <2>2, RecordType, ConstantsOK
  <2>. QED BY <1>5, <2>1, <2>3 DEF TypeOK, Fetch, LC!TypeOK
<1>6. ASSUME NEW i \in Subs, ServerMoves(i) PROVE TypeOK'
  <2>1. server' \in [Subs -> LC!JobState \cup {LC!NoJob}]
    BY <1>6, OnwardState DEF TypeOK, ServerMoves, LC!TypeOK
  <2>. QED BY <1>6, <2>1 DEF TypeOK, ServerMoves, client, disk, LC!TypeOK
<1>7. ASSUME NEW i \in Subs, CallFails(i) PROVE TypeOK'
  <2>1. pc' \in [Subs -> Places]
    BY <1>7, <1>p, GoesType DEF CallFails, Raised
  <2>2. polls' \in [Subs -> 0..MaxPolls]
    BY <1>7 DEF TypeOK, CallFails
  <2>. QED BY <1>7, <2>1, <2>2 DEF TypeOK, CallFails, Raised, disk, LC!TypeOK
<1>8. ASSUME NEW i \in Subs, CancelTask(i) PROVE TypeOK'
  <2>1. pc' \in [Subs -> Places]
    BY <1>8, <1>p, GoesType DEF CancelTask
  <2>2. polls' \in [Subs -> 0..MaxPolls]
    BY <1>8 DEF TypeOK, CancelTask
  <2>. QED BY <1>8, <2>1, <2>2 DEF TypeOK, CancelTask, disk, LC!TypeOK
<1>9. CASE SamplerRaises \/ End \/ EndFailed
  BY <1>9 DEF TypeOK, SamplerRaises, End, EndFailed, client, disk, LC!TypeOK
<1>10. CASE UNCHANGED vars
  BY <1>10 DEF TypeOK, vars, client, disk, LC!TypeOK
<1>11. ASSUME NEW i \in Subs, RecordingFails(i) PROVE TypeOK'
  BY <1>11, BrokenOff DEF TypeOK, LC!TypeOK
<1>. QED
  BY <1>1, <1>2, <1>3, <1>4, <1>5, <1>6, <1>7, <1>8, <1>9, <1>10, <1>11 DEF Next, Submitter
-----------------------------------------------------------------------------
(***************************************************************************)
(* The submitters follow their jobs.                                       *)
(***************************************************************************)
\* A step that takes submitter i somewhere and leaves the others' jobs alone.
LEMMA FollowedIfOne ==
  ASSUME Followed, NEW i \in Subs,
         \A k \in Subs : k # i => pc'[k] = pc[k] /\ server'[k] = server[k] /\ logged'[k] = logged[k],
         pc'[i] \in {"planned", "submitting"} => server'[i] = LC!NoJob,
         pc'[i] \in {"asking", "sleeping"} => server'[i] \in LC!JobState,
         pc'[i] \in {"fetching", "recorded"} =>
           logged'[i] \in LC!Terminal /\ server'[i] \in {logged'[i], "EXPIRED"}
  PROVE  Followed'
BY DEF Followed

LEMMA FollowedStep == TypeOK /\ Followed /\ [Next]_vars => Followed'
<1>. SUFFICES ASSUME TypeOK, Followed, [Next]_vars PROVE Followed'
  OBVIOUS
<1>p. /\ Waiting = {"submitting", "asking", "sleeping", "fetching"}
      /\ Waiting \subseteq Places /\ {"gone", "recorded"} \subseteq Places
  BY DEF Places, Waiting
<1>1. ASSUME NEW i \in Subs, Launch(i) PROVE Followed'
  <2>1. pc'[i] \in {"submitting", "gone"} /\ \A k \in Subs : k # i => pc'[k] = pc[k]
    BY <1>1, <1>p, GoesType DEF Launch, Starts
  <2>2. pc[i] = "planned" /\ UNCHANGED <<server, logged>>
    BY <1>1 DEF Launch, Starts
  <2>. QED BY <2>1, <2>2, FollowedIfOne DEF Followed
<1>2. ASSUME NEW i \in Subs, Enqueue(i) PROVE Followed'
  <2>1. pc'[i] \in {"asking", "gone"} /\ \A k \in Subs : k # i => pc'[k] = pc[k]
    BY <1>2, <1>p, GoesType DEF Enqueue
  <2>2. /\ server'[i] = "QUEUED" /\ \A k \in Subs : k # i => server'[k] = server[k]
        /\ UNCHANGED logged
    BY <1>2 DEF Enqueue, TypeOK, LC!TypeOK
  <2>. QED BY <2>1, <2>2, StateKinds, FollowedIfOne
<1>3. ASSUME NEW i \in Subs, Observe(i) PROVE Followed'
  <2>1. server[i] \in LC!JobState
    BY <1>3, ObserveType DEF Followed
  <2>2. logged'[i] = server[i] /\ \A k \in Subs : k # i => logged'[k] = logged[k]
    BY <1>3, ObserveType DEF TypeOK
  <2>. QED BY <1>3, <2>1, <2>2, ObserveType, FollowedIfOne
<1>4. ASSUME NEW i \in Subs, WakeUp(i) PROVE Followed'
  <2>1. pc'[i] \in {"asking", "gone"} /\ \A k \in Subs : k # i => pc'[k] = pc[k]
    BY <1>4, <1>p, GoesType DEF WakeUp
  <2>2. pc[i] = "sleeping" /\ UNCHANGED <<server, logged>>
    BY <1>4 DEF WakeUp
  <2>. QED BY <2>1, <2>2, FollowedIfOne DEF Followed
<1>5. ASSUME NEW i \in Subs, Fetch(i) PROVE Followed'
  <2>1. pc'[i] = "recorded" /\ \A k \in Subs : k # i => pc'[k] = pc[k]
    BY <1>5, <1>p, GoesType DEF Fetch
  <2>2. pc[i] = "fetching" /\ UNCHANGED <<server, logged>>
    BY <1>5 DEF Fetch
  <2>. QED BY <2>1, <2>2, FollowedIfOne DEF Followed
<1>6. ASSUME NEW i \in Subs, ServerMoves(i) PROVE Followed'
  <2>1. PICK s \in Seen : LC!Onward(server[i], s) /\ server' = [server EXCEPT ![i] = s]
    BY <1>6 DEF ServerMoves
  <2>2. UNCHANGED <<pc, logged>> /\ server[i] \in LC!JobState /\ pc[i] \in Waiting
    BY <1>6 DEF ServerMoves, client, Active
  <2>3. server'[i] = s /\ \A k \in Subs : k # i => server'[k] = server[k]
    BY <2>1 DEF TypeOK, LC!TypeOK
  <2>4. s \in LC!JobState
    BY <2>1, <2>2, OnwardState
  <2>5. server[i] \in LC!Terminal => s = "EXPIRED"
    BY <2>1, OnwardTerminal
  <2>6. server[i] # LC!NoJob
    BY <2>2, StateKinds
  <2>7. pc[i] = "fetching" => logged[i] \in LC!Terminal /\ server[i] \in LC!Terminal
    BY StateKinds DEF Followed
  <2>8. pc[i] \in {"asking", "sleeping", "fetching"}
    BY <1>p, <2>2, <2>6 DEF Followed
  <2>. QED BY <2>2, <2>3, <2>4, <2>5, <2>7, <2>8, FollowedIfOne
<1>7. ASSUME NEW i \in Subs, CallFails(i) \/ CancelTask(i) PROVE Followed'
  <2>1. pc'[i] = "gone" /\ \A k \in Subs : k # i => pc'[k] = pc[k]
    BY <1>7, <1>p, GoesType DEF CallFails, CancelTask, Raised
  <2>2. UNCHANGED <<server, logged>>
    BY <1>7 DEF CallFails, CancelTask
  <2>. QED BY <2>1, <2>2, FollowedIfOne
<1>8. CASE SamplerRaises \/ End \/ EndFailed \/ UNCHANGED vars
  BY <1>8 DEF Followed, SamplerRaises, End, EndFailed, client, vars
<1>9. ASSUME NEW i \in Subs, RecordingFails(i) PROVE Followed'
  BY <1>9, BrokenOff, FollowedIfOne
<1>. QED
  BY <1>1, <1>2, <1>3, <1>4, <1>5, <1>6, <1>7, <1>8, <1>9 DEF Next, Submitter

LEMMA Typed == Spec => [](TypeOK /\ Followed)
<1>1. Init => TypeOK /\ Followed
  BY ConstantsOK, StateKinds DEF Init, TypeOK, Followed, LC!TypeOK, Waiting
<1>. QED BY <1>1, TypeStep, FollowedStep, PTL DEF Spec

\* Every variable keeps its shape; above all the polls stay within the deadline.
THEOREM TypeCorrect == Spec => []TypeOK
BY Typed, PTL
-----------------------------------------------------------------------------
(***************************************************************************)
(* What is on disk.                                                        *)
(***************************************************************************)
LEMMA OneLine ==
  ASSUME NEW S, NEW e \in S
  PROVE  Len(Append(<<>>, e)) = 1 /\ Append(<<>>, e)[1] = e
<1>1. ASSUME NEW s \in Seq(S), Len(s) = 0
      PROVE  Len(Append(s, e)) = 1 /\ Append(s, e)[1] = e
  BY <1>1
<1>2. <<>> \in Seq(S) /\ Len(<<>>) = 0
  OBVIOUS
<1>. QED BY <1>1, <1>2

\* What record_result leaves of a job that was not recorded before.
LEMMA WrittenOnce ==
  ASSUME TypeOK, NEW i \in Subs, runs[i] = <<>>, lines[i] = <<>>,
         server[i] \in LC!JobState, NEW trace \in Seq(BOOLEAN), Carries(server[i], trace),
         RecordResult(i, server[i], trace), server' = server
  PROVE  Written(i)'
<1>. DEFINE att == Attempts(server[i], trace)
<1>1. att \in Seq(BOOLEAN) /\ Len(att) \in Nat \ {0}
  BY AttemptsType
<1>2. server[i] = "SUCCEEDED" => ~att[Len(att)]
  <2>1. CASE trace = <<>>
    <3>1. att = <<server[i] = "FAILED">> /\ Len(att) = 1 /\ att[1] = (server[i] = "FAILED")
      BY <2>1 DEF Attempts
    <3>. QED BY <3>1
  <2>2. CASE trace # <<>>
    BY <2>2 DEF Attempts, Carries
  <2>. QED BY <2>1, <2>2
<1>. DEFINE sum == Summary(server[i], Len(att))
<1>3. sum \in RunRecord
  BY <1>1, SummaryType
<1>4. lines' = [lines EXCEPT ![i] = <<>> \o att] /\ runs' = [runs EXCEPT ![i] = Append(<<>>, sum)]
  BY DEF RecordResult
<1>5. sum.attempts = Len(att) /\ sum.state = server[i]
      /\ (sum.succeeded => server[i] = "SUCCEEDED") /\ (sum.first => Len(att) <= 1)
  BY DEF Summary
<1>. HIDE DEF att, sum
<1>6. lines'[i] = <<>> \o att /\ runs'[i] = Append(<<>>, sum)
  BY <1>4 DEF TypeOK
<1>7. <<>> \o att = att
  BY <1>1, ConcatEmptySeq
<1>8. Len(Append(<<>>, sum)) = 1 /\ Append(<<>>, sum)[1] = sum
  BY <1>3, OneLine
<1>9. lines'[i] = att /\ Len(runs'[i]) = 1 /\ runs'[i][1] = sum /\ (Len(att) <= 1 => Len(att) = 1)
  <2>0. \A n \in Nat \ {0} : n <= 1 => n = 1
    OBVIOUS
  <2>1. Len(att) <= 1 => Len(att) = 1
    BY <1>1, <2>0, Zenon
  <2>. QED BY <1>6, <1>7, <1>8, <2>1, Zenon
<1>. QED BY <1>2, <1>5, <1>9 DEF Written, Run

\* A step that writes nothing, and after which the same submitters have
\* recorded, with their jobs where they were.
LEMMA OnDiskIfSame ==
  ASSUME OnDisk, UNCHANGED disk,
         \A i \in Subs : pc'[i] = "recorded" <=> pc[i] = "recorded",
         \A i \in Subs : pc[i] = "gone" => pc'[i] = "gone",
         \A i \in Subs : pc[i] = "recorded" => server'[i] = server[i]
  PROVE  OnDisk'
<1>1. \A i \in Subs : Written(i) /\ server'[i] = server[i] => Written(i)'
  BY DEF Written, Run, disk
<1>. QED BY <1>1 DEF OnDisk, disk

LEMMA OnDiskStep == TypeOK /\ Followed /\ OnDisk /\ [Next]_vars => OnDisk'
<1>. SUFFICES ASSUME TypeOK, Followed, OnDisk, [Next]_vars PROVE OnDisk'
  OBVIOUS
<1>p. /\ Waiting = {"submitting", "asking", "sleeping", "fetching"}
      /\ Waiting \subseteq Places /\ {"gone", "recorded"} \subseteq Places
  BY DEF Places, Waiting
<1>1. ASSUME NEW i \in Subs, pc[i] \in Waiting \cup {"planned"}, pc'[i] # "recorded",
             \A k \in Subs : k # i => pc'[k] = pc[k] /\ server'[k] = server[k],
             UNCHANGED disk
      PROVE  OnDisk'
  BY <1>1, <1>p, OnDiskIfSame
<1>2. ASSUME NEW i \in Subs, Launch(i) PROVE OnDisk'
  <2>1. pc[i] = "planned" /\ UNCHANGED <<server, disk>>
    BY <1>2 DEF Launch, Starts
  <2>2. pc'[i] # "recorded" /\ \A k \in Subs : k # i => pc'[k] = pc[k]
    BY <1>2, <1>p, GoesType DEF Launch, Starts
  <2>. QED BY <1>1, <1>p, <2>1, <2>2
<1>3. ASSUME NEW i \in Subs, Enqueue(i) PROVE OnDisk'
  <2>1. /\ pc[i] = "submitting" /\ UNCHANGED disk
        /\ \A k \in Subs : k # i => server'[k] = server[k]
    BY <1>3 DEF Enqueue, TypeOK, LC!TypeOK
  <2>2. pc'[i] # "recorded" /\ \A k \in Subs : k # i => pc'[k] = pc[k]
    BY <1>3, <1>p, GoesType DEF Enqueue
  <2>. QED BY <1>1, <1>p, <2>1, <2>2
<1>4. ASSUME NEW i \in Subs, Observe(i) PROVE OnDisk'
  BY <1>1, <1>p, <1>4, ObserveType
<1>5. ASSUME NEW i \in Subs, WakeUp(i) PROVE OnDisk'
  <2>1. pc[i] = "sleeping" /\ UNCHANGED <<server, disk>>
    BY <1>5 DEF WakeUp
  <2>2. pc'[i] # "recorded" /\ \A k \in Subs : k # i => pc'[k] = pc[k]
    BY <1>5, <1>p, GoesType DEF WakeUp
  <2>. QED BY <1>1, <1>p, <2>1, <2>2
<1>6. ASSUME NEW i \in Subs, Fetch(i) PROVE OnDisk'
  <2>1. pc[i] = "fetching" /\ UNCHANGED server
    BY <1>6 DEF Fetch
  <2>2. pc'[i] = "recorded" /\ \A k \in Subs : k # i => pc'[k] = pc[k]
    BY <1>6, <1>p, GoesType DEF Fetch
  <2>3. PICK trace \in Traces : Carries(server[i], trace) /\ RecordResult(i, server[i], trace)
    BY <1>6 DEF Fetch
  <2>4. server[i] \in LC!JobState /\ trace \in Seq(BOOLEAN) /\ runs[i] = <<>> /\ lines[i] = <<>>
    BY <2>1, StateKinds, ConstantsOK DEF Followed, OnDisk
  <2>5. Written(i)'
    BY <2>1, <2>3, <2>4, WrittenOnce
  <2>6. \A k \in Subs : k # i => runs'[k] = runs[k] /\ lines'[k] = lines[k]
    BY <2>3, <2>4, RecordType DEF TypeOK
  <2>7. \A k \in Subs : k # i /\ Written(k) => Written(k)'
    BY <2>1, <2>6 DEF Written, Run
  <2>. QED BY <2>2, <2>5, <2>6, <2>7 DEF OnDisk
<1>7. ASSUME NEW i \in Subs, ServerMoves(i) PROVE OnDisk'
  <2>1. UNCHANGED <<pc, disk>> /\ pc[i] \in Waiting
    BY <1>7, <1>p DEF ServerMoves, client, Active
  <2>2. \A k \in Subs : k # i => server'[k] = server[k]
    BY <1>7 DEF ServerMoves, TypeOK, LC!TypeOK
  <2>. QED BY <1>1, <1>p, <2>1, <2>2
<1>8. ASSUME NEW i \in Subs, CallFails(i) \/ CancelTask(i) PROVE OnDisk'
  <2>1. pc[i] \in Waiting /\ UNCHANGED <<server, disk>>
    BY <1>8, <1>p DEF CallFails, CancelTask, Active
  <2>2. pc'[i] = "gone" /\ \A k \in Subs : k # i => pc'[k] = pc[k]
    BY <1>8, <1>p, GoesType DEF CallFails, CancelTask, Raised
  <2>. QED BY <1>1, <1>p, <2>1, <2>2
<1>9. CASE SamplerRaises \/ End \/ EndFailed \/ UNCHANGED vars
  <2>1. UNCHANGED <<pc, server, disk>>
    BY <1>9 DEF SamplerRaises, End, EndFailed, client, vars
  <2>. QED BY <2>1, OnDiskIfSame
<1>10. ASSUME NEW i \in Subs, RecordingFails(i) PROVE OnDisk'
  <2>1. /\ runs' = runs /\ server' = server /\ pc[i] = "fetching" /\ pc'[i] = "gone"
        /\ \A k \in Subs : k # i => pc'[k] = pc[k] /\ lines'[k] = lines[k]
    BY <1>10, BrokenOff
  <2>2. \A k \in Subs : k # i /\ Written(k) => Written(k)'
    BY <2>1 DEF Written, Run
  <2>. QED BY <2>1, <2>2 DEF OnDisk
<1>. QED
  BY <1>2, <1>3, <1>4, <1>5, <1>6, <1>7, <1>8, <1>9, <1>10 DEF Next, Submitter

\* The state history has the end of every recorded job, in the state it was
\* recorded in unless it expired in between (profiles/__init__.py:111-118).
THEOREM FinishesLogged == Spec => []FinishIsLogged
<1>1. Init => TypeOK /\ Followed /\ OnDisk
  BY ConstantsOK, StateKinds DEF Init, TypeOK, Followed, OnDisk, LC!TypeOK, Waiting
<1>2. TypeOK /\ Followed /\ OnDisk => FinishIsLogged
  BY DEF Followed, OnDisk, Written, FinishIsLogged, Recorded
<1>. QED BY <1>1, <1>2, TypeStep, FollowedStep, OnDiskStep, PTL DEF Spec

\* Every job that ends under a live submitter is recorded once, with every
\* attempt; nothing else has a run, and attempts only if the recording broke
\* off (profiles/__init__.py:56, record.py:98-100).
THEOREM RecordsExact == Spec => []RecordedOnce
<1>1. Init => TypeOK /\ Followed /\ OnDisk
  BY ConstantsOK, StateKinds DEF Init, TypeOK, Followed, OnDisk, LC!TypeOK, Waiting
<1>2. TypeOK /\ Followed /\ OnDisk => RecordedOnce
  <2>. SUFFICES ASSUME TypeOK, Followed, OnDisk, NEW i \in Subs
                PROVE  /\ Len(runs[i]) = (IF pc[i] = "recorded" THEN 1 ELSE 0)
                       /\ pc[i] \notin {"recorded", "gone"} => Len(lines[i]) = 0
                       /\ pc[i] = "recorded" =>
                            /\ Len(lines[i]) = Run(i).attempts
                            /\ Run(i).state \in LC!Terminal /\ server[i] = Run(i).state
                            /\ Run(i).succeeded => ~lines[i][Len(lines[i])]
                            /\ Run(i).first => Len(lines[i]) = 1
    BY DEF RecordedOnce
  <2>1. CASE pc[i] = "recorded"
    <3>1. Written(i) /\ server[i] \in LC!Terminal
      BY <2>1, StateKinds DEF OnDisk, Followed
    <3>. QED BY <2>1, <3>1 DEF Written
  <2>2. CASE pc[i] # "recorded"
    BY <2>2 DEF OnDisk
  <2>. QED BY <2>1, <2>2
<1>. QED BY <1>1, <1>2, TypeStep, FollowedStep, OnDiskStep, PTL DEF Spec

-----------------------------------------------------------------------------
(***************************************************************************)
(* The load on the server.  While nothing has gone wrong only a submitter  *)
(* that waits has an unfinished job, and the limiter counts those.         *)
(***************************************************************************)
Within ==
  phase \in {"running", "done"} =>
    /\ Cardinality(Active) <= profile.limit
    /\ \A i \in Subs : server[i] \in LC!Live => i \in Active

LEMMA ActiveFinite ==
  \A S \in SUBSET Subs : IsFiniteSet(S) /\ Cardinality(S) \in Nat
<1>. SUFFICES ASSUME NEW S \in SUBSET Subs
              PROVE  IsFiniteSet(S) /\ Cardinality(S) \in Nat
  OBVIOUS
<1>1. IsFiniteSet(Subs)
  BY ConstantsOK, FS_Interval DEF Subs
<1>. QED BY <1>1, FS_Subset, FS_CardinalityType

LEMMA LimitType == ASSUME TypeOK PROVE profile.limit \in Nat \ {0}
BY ConstantsOK DEF TypeOK

\* A step with which no submitter begins to wait, and after which every
\* unfinished job is waited for.
LEMMA WithinIfFewer ==
  ASSUME TypeOK, Within, phase' \in {"running", "done"} => phase \in {"running", "done"},
         profile' = profile, Active' \subseteq Active,
         phase' \in {"running", "done"} =>
           \A i \in Subs : server'[i] \in LC!Live => i \in Active'
  PROVE  Within'
<1>1. /\ Active \in SUBSET Subs
      /\ IsFiniteSet(Active) /\ Cardinality(Active) \in Nat
      /\ Cardinality(Active') <= Cardinality(Active) /\ Cardinality(Active') \in Nat
  <2>1. Active \in SUBSET Subs
    BY DEF Active
  <2>2. IsFiniteSet(Active)
    BY <2>1, ActiveFinite
  <2>. QED BY <2>1, <2>2, FS_Subset, FS_CardinalityType
<1>2. ASSUME phase' \in {"running", "done"} PROVE Cardinality(Active') <= profile.limit
  BY <1>1, <1>2, LimitType DEF Within
<1>. QED BY <1>2 DEF Within

LEMMA WithinStep == TypeOK /\ Followed /\ Within /\ [Next]_vars => Within'
<1>. SUFFICES ASSUME TypeOK, Followed, Within, [Next]_vars PROVE Within'
  OBVIOUS
<1>p. /\ Waiting = {"submitting", "asking", "sleeping", "fetching"}
      /\ Waiting \subseteq Places /\ {"gone", "recorded"} \subseteq Places
      /\ {"gone", "recorded", "planned"} \cap Waiting = {}
  BY DEF Places, Waiting
\* A submitter that waited and whose job is not finished goes on waiting,
\* unless it takes the run with it.
<1>1. ASSUME NEW i \in Subs, pc[i] \in Waiting,
             \A k \in Subs : k # i => pc'[k] = pc[k] /\ server'[k] = server[k],
             profile' = profile,
             phase' \in {"running", "done"} =>
               /\ phase \in {"running", "done"}
               /\ server'[i] \in LC!Live => pc'[i] \in Waiting
      PROVE  Within'
  <2>1. Active' \subseteq Active
    BY <1>1 DEF Active
  <2>2. ASSUME phase' \in {"running", "done"}, NEW k \in Subs, server'[k] \in LC!Live
        PROVE  k \in Active'
    BY <1>1, <2>2 DEF Active, Within
  <2>. QED BY <1>1, <2>1, <2>2, WithinIfFewer
<1>2. ASSUME NEW i \in Subs, Launch(i) PROVE Within'
  <2>1. /\ phase = "running" /\ pc[i] = "planned"
        /\ UNCHANGED <<phase, profile, server>> /\ Cardinality(Active) < profile.limit
    BY <1>2 DEF Launch, Starts
  <2>2. pc'[i] = "submitting" /\ \A k \in Subs : k # i => pc'[k] = pc[k]
    BY <1>2, <1>p, <2>1, GoesType DEF Launch, Starts
  <2>3. Active' = Active \cup {i} /\ i \notin Active /\ Active \in SUBSET Subs
    BY <1>p, <2>1, <2>2 DEF Active
  <2>4. IsFiniteSet(Active) /\ Cardinality(Active) \in Nat
    BY <2>3, ActiveFinite
  <2>5. Cardinality(Active') = Cardinality(Active) + 1
    BY <2>3, <2>4, FS_AddElement
  <2>6. Cardinality(Active') <= profile.limit
    BY <2>1, <2>4, <2>5, LimitType
  <2>. QED BY <2>1, <2>3, <2>6 DEF Within
<1>3. ASSUME NEW i \in Subs, Enqueue(i) PROVE Within'
  <2>1. phase' = phase /\ profile' = profile /\ pc[i] = "submitting"
    BY <1>3 DEF Enqueue
  <2>2. pc'[i] \in {"asking", "gone"} /\ (\A k \in Subs : k # i => pc'[k] = pc[k])
    BY <1>3, <1>p, GoesType DEF Enqueue
  <2>3. pc'[i] = "gone" => phase = "aborting"
    BY <1>3, <1>p, GoesType DEF Enqueue
  <2>4. \A k \in Subs : k # i => server'[k] = server[k]
    BY <1>3 DEF Enqueue, TypeOK, LC!TypeOK
  <2>. QED BY <1>1, <1>p, <2>1, <2>2, <2>3, <2>4
<1>4. ASSUME NEW i \in Subs, Observe(i) PROVE Within'
  BY <1>1, <1>4, <1>p, ObserveType, StateKinds
<1>5. ASSUME NEW i \in Subs, WakeUp(i) PROVE Within'
  <2>1. phase' = phase /\ profile' = profile /\ server' = server /\ pc[i] = "sleeping"
    BY <1>5 DEF WakeUp
  <2>2. pc'[i] \in {"asking", "gone"} /\ (\A k \in Subs : k # i => pc'[k] = pc[k])
    BY <1>5, <1>p, GoesType DEF WakeUp
  <2>3. pc'[i] = "gone" => phase = "aborting"
    BY <1>5, <1>p, GoesType DEF WakeUp
  <2>. QED BY <1>1, <1>p, <2>1, <2>2, <2>3
<1>6. ASSUME NEW i \in Subs, Fetch(i) PROVE Within'
  <2>1. phase' = phase /\ profile' = profile /\ server' = server /\ pc[i] = "fetching"
    BY <1>6 DEF Fetch
  <2>2. \A k \in Subs : k # i => pc'[k] = pc[k]
    BY <1>6, <1>p, GoesType DEF Fetch
  <2>3. server'[i] \notin LC!Live
    BY <2>1, StateKinds DEF Followed
  <2>. QED BY <1>1, <1>p, <2>1, <2>2, <2>3
<1>7. ASSUME NEW i \in Subs, ServerMoves(i) PROVE Within'
  <2>1. phase' = phase /\ profile' = profile /\ pc' = pc /\ pc[i] \in Waiting
    BY <1>7 DEF ServerMoves, client, Active
  <2>2. \A k \in Subs : k # i => server'[k] = server[k]
    BY <1>7 DEF ServerMoves, TypeOK, LC!TypeOK
  <2>. QED BY <1>1, <2>1, <2>2
<1>8. ASSUME NEW i \in Subs, CallFails(i) PROVE Within'
  <2>1. phase' = "aborting"
    BY <1>8 DEF CallFails, Raised
  <2>. QED BY <2>1 DEF Within
<1>9. ASSUME NEW i \in Subs, CancelTask(i) PROVE Within'
  <2>1. phase' = "aborting"
    BY <1>9 DEF CancelTask
  <2>. QED BY <2>1 DEF Within
<1>10. CASE SamplerRaises \/ EndFailed
  BY <1>10 DEF SamplerRaises, EndFailed, Within
<1>11. CASE End
  <2>1. phase = "running" /\ Active' = Active /\ profile' = profile /\ server' = server
    BY <1>11 DEF End, client, Active
  <2>. QED BY <2>1 DEF Within
<1>12. ASSUME NEW i \in Subs, RecordingFails(i) PROVE Within'
  <2>1. phase' = "aborting"
    BY <1>12, BrokenOff
  <2>. QED BY <2>1 DEF Within
<1>13. CASE UNCHANGED vars
  <2>1. Active' = Active /\ profile' = profile /\ server' = server /\ phase' = phase
    BY <1>13 DEF vars, client, Active
  <2>. QED BY <2>1 DEF Within
<1>. QED
  BY <1>2, <1>3, <1>4, <1>5, <1>6, <1>7, <1>8, <1>9, <1>10, <1>11, <1>12, <1>13 DEF Next, Submitter

\* As long as a run goes well the server never carries more unfinished jobs
\* than the concurrency the run is labelled with (mixed.py:55-88).
THEOREM LabelsMatchLoad == Spec => []LabelMatchesLoad
<1>1. Init => TypeOK /\ Followed /\ Within
  <2>. SUFFICES ASSUME Init PROVE TypeOK /\ Followed /\ Within
    OBVIOUS
  <2>1. TypeOK /\ Followed
    BY ConstantsOK, StateKinds DEF Init, TypeOK, Followed, LC!TypeOK, Waiting
  <2>2. Active = {}
    BY DEF Init, Active, Waiting
  <2>3. Cardinality(Active) = 0
    BY <2>2, FS_EmptySet
  <2>4. \A i \in Subs : server[i] \notin LC!Live
    BY StateKinds DEF Init
  <2>. QED BY <2>1, <2>3, <2>4, LimitType DEF Within
<1>2. TypeOK /\ Within => LabelMatchesLoad
  <2>. SUFFICES ASSUME TypeOK, Within, phase \in {"running", "done"}
                PROVE  Cardinality({i \in Subs : server[i] \in LC!Live}) <= profile.limit
    BY DEF LabelMatchesLoad
  <2>. DEFINE load == {i \in Subs : server[i] \in LC!Live}
  <2>1. load \subseteq Active /\ Active \in SUBSET Subs
    BY DEF Within, Active
  <2>2. IsFiniteSet(Active) /\ Cardinality(Active) \in Nat /\ Cardinality(load) \in Nat
    BY <2>1, ActiveFinite
  <2>3. Cardinality(load) <= Cardinality(Active)
    BY <2>1, <2>2, FS_Subset
  <2>. QED BY <2>2, <2>3, LimitType DEF Within
<1>. QED BY <1>1, <1>2, TypeStep, FollowedStep, WithinStep, PTL DEF Spec
=============================================================================
