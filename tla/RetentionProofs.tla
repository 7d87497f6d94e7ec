--------------------------- MODULE RetentionProofs ---------------------------
(***************************************************************************)
(* The theorems of Retention, for any window, any number of jobs, keys and *)
(* restarts.                                                               *)
(***************************************************************************)
EXTENDS Retention, TLAPS

USE DEF LC!JobState, LC!Live, LC!Terminal, LC!NoJob

-----------------------------------------------------------------------------
(***************************************************************************)
(* Types.                                                                  *)
(***************************************************************************)
\* A row after _transition to a live state, after the end of its worker, and
\* after expiry.
LEMMA MovedType ==
  ASSUME TypeOK, NEW j \in Jobs, row[j].state # "SUCCEEDED",
         NEW s \in LC!Live, Moved(j, s)
  PROVE  /\ row' \in [Jobs -> Row]
         /\ \A i \in Jobs : row'[i].state = "SUCCEEDED" <=> row'[i].artifact \in Keys
         /\ row'[j].state = s
         /\ \A i \in Jobs : i # j => row'[i] = row[i]
<1>1. row[j] \in Row /\ [row[j] EXCEPT !.state = s] \in Row
  BY DEF TypeOK, Row
<1>2. row' = [row EXCEPT ![j] = [row[j] EXCEPT !.state = s]]
  BY DEF Moved
<1>3. row'[j] = [row[j] EXCEPT !.state = s] /\ \A i \in Jobs : i # j => row'[i] = row[i]
  BY <1>2 DEF TypeOK
<1>4. row'[j].state = s /\ row'[j].artifact = row[j].artifact /\ s # "SUCCEEDED"
  BY <1>1, <1>3 DEF Row
<1>5. row' \in [Jobs -> Row]
  BY <1>1, <1>2 DEF TypeOK
<1>. QED BY <1>3, <1>4, <1>5 DEF TypeOK

LEMMA EndedType ==
  ASSUME TypeOK, NEW j \in Jobs, NEW s \in LC!JobState, NEW e \in Nat \cup {Never},
         NEW k \in Keys \cup {NoKey}, s = "SUCCEEDED" <=> k \in Keys,
         Ended(j, s, e, k)
  PROVE  /\ row' \in [Jobs -> Row]
         /\ \A i \in Jobs : row'[i].state = "SUCCEEDED" <=> row'[i].artifact \in Keys
         /\ workers' \in SUBSET Jobs
         /\ row'[j] = [state |-> s, expires |-> e, artifact |-> k]
         /\ \A i \in Jobs : i # j => row'[i] = row[i]
<1>. DEFINE r == [state |-> s, expires |-> e, artifact |-> k]
<1>1. r \in Row /\ r.state = s /\ r.artifact = k
  BY DEF Row
<1>2. row' = [row EXCEPT ![j] = r] /\ workers' = workers \ {j}
  BY DEF Ended
<1>. HIDE DEF r
<1>3. row'[j] = r /\ (\A i \in Jobs : i # j => row'[i] = row[i]) /\ row' \in [Jobs -> Row]
  BY <1>1, <1>2 DEF TypeOK
<1>4. workers' \in SUBSET Jobs
  BY <1>2 DEF TypeOK
<1>5. \A i \in Jobs : row'[i].state = "SUCCEEDED" <=> row'[i].artifact \in Keys
  BY <1>1, <1>3 DEF TypeOK
<1>. QED BY <1>3, <1>4, <1>5 DEF r

\* The end of a worker that did not succeed.
LEMMA EndedUnsuccessful ==
  ASSUME TypeOK, NEW j \in Jobs, NEW s \in {"FAILED", "CANCELLED"}, NEW e, Ended(j, s, e, NoKey)
  PROVE  /\ row'[j].state \in {"FAILED", "CANCELLED"}
         /\ \A i \in Jobs : i # j => row'[i] = row[i]
<1>1. row' = [row EXCEPT ![j] = [state |-> s, expires |-> e, artifact |-> NoKey]]
  BY DEF Ended
<1>2. row'[j] = [state |-> s, expires |-> e, artifact |-> NoKey]
      /\ \A i \in Jobs : i # j => row'[i] = row[i]
  BY <1>1 DEF TypeOK
<1>. QED BY <1>2

\* What the call in progress carries.
LEMMA CallFields ==
  ASSUME call \in Call, call.does \in {"copying", "recording"}
  PROVE  call \in Put /\ call.job \in Jobs /\ call.key \in Keys /\ call.since \in Nat
BY DEF Call, Put, Quiet

\* What a success hands out has its type.
LEMMA SucceedType ==
  ASSUME TypeOK, NEW j \in Jobs, NEW k \in Keys, Succeed(j, k)
  PROVE  /\ row' \in [Jobs -> Row]
         /\ \A i \in Jobs : row'[i].state = "SUCCEEDED" <=> row'[i].artifact \in Keys
         /\ workers' \in SUBSET Jobs
         /\ shown' \in [Jobs -> Nat \cup {Never}]
         /\ row'[j].state = "SUCCEEDED" /\ row'[j].artifact = k /\ shown'[j] = file[k].since
         /\ file[k].since \in Nat
         /\ \A i \in Jobs : i # j => row'[i] = row[i] /\ shown'[i] = shown[i]
<1>1. clock + TTL \in Nat /\ file[k] \in File
  BY ConstantsOK DEF TypeOK
<1>2. Ended(j, "SUCCEEDED", clock + TTL, k) /\ shown' = [shown EXCEPT ![j] = file[k].since]
  BY DEF Succeed
<1>3. /\ row' \in [Jobs -> Row]
      /\ \A i \in Jobs : row'[i].state = "SUCCEEDED" <=> row'[i].artifact \in Keys
      /\ workers' \in SUBSET Jobs
      /\ row'[j] = [state |-> "SUCCEEDED", expires |-> clock + TTL, artifact |-> k]
      /\ \A i \in Jobs : i # j => row'[i] = row[i]
  BY <1>1, <1>2, EndedType
<1>4. file[k].since \in Nat
  BY <1>1 DEF File
<1>5. shown' \in [Jobs -> Nat \cup {Never}] /\ shown'[j] = file[k].since
      /\ \A i \in Jobs : i # j => shown'[i] = shown[i]
  BY <1>2, <1>4 DEF TypeOK
<1>6. row'[j].state = "SUCCEEDED" /\ row'[j].artifact = k
  BY <1>3
<1>. QED BY <1>3, <1>4, <1>5, <1>6

\* A finished row after Expire.
LEMMA ExpireType ==
  ASSUME TypeOK, NEW j \in Jobs, Expire(j)
  PROVE  /\ row' \in [Jobs -> Row]
         /\ \A i \in Jobs : row'[i].state = "SUCCEEDED" <=> row'[i].artifact \in Keys
         /\ row'[j].state = "EXPIRED"
         /\ \A i \in Jobs : i # j => row'[i] = row[i]
<1>. DEFINE r == [[row[j] EXCEPT !.state = "EXPIRED"] EXCEPT !.artifact = NoKey]
<1>1. row[j] \in Row /\ NoKey \notin Keys
  BY ConstantsOK DEF TypeOK
<1>2. r \in Row /\ r.state = "EXPIRED" /\ r.artifact = NoKey
  BY <1>1 DEF Row
<1>3. row' = [row EXCEPT ![j] = r]
  BY <1>1 DEF Expire, TypeOK
<1>. HIDE DEF r
<1>4. row'[j] = r /\ (\A i \in Jobs : i # j => row'[i] = row[i]) /\ row' \in [Jobs -> Row]
  BY <1>2, <1>3 DEF TypeOK
<1>. QED BY <1>1, <1>2, <1>4 DEF TypeOK

-----------------------------------------------------------------------------
(***************************************************************************)
(* Every step keeps the types.                                             *)
(***************************************************************************)
\* Stored says of a file that it is there; a new file is a File.
LEMMA FileTypes ==
  /\ Gone \in File /\ ~Gone.there
  /\ \A t \in Nat : [since |-> t, whole |-> TRUE, there |-> TRUE] \in File
BY DEF Gone, File

\* A worker's own step, the put's first included.
LEMMA WorkType ==
  ASSUME TypeOK, NEW j \in Jobs, Work(j)
  PROVE  TypeOK'
<1>1. CASE Submit(j)
  <2>1. row[j].state # "SUCCEEDED" /\ Moved(j, "QUEUED")
    BY <1>1 DEF Submit
  <2>2. /\ row' \in [Jobs -> Row]
        /\ \A i \in Jobs : row'[i].state = "SUCCEEDED" <=> row'[i].artifact \in Keys
    BY <2>1, MovedType
  <2>. QED BY <1>1, <2>2 DEF Submit, TypeOK
<1>2. CASE Start(j)
  <2>1. row[j].state # "SUCCEEDED" /\ Moved(j, "RENDERING")
    BY <1>2 DEF Start, Runs
  <2>2. /\ row' \in [Jobs -> Row]
        /\ \A i \in Jobs : row'[i].state = "SUCCEEDED" <=> row'[i].artifact \in Keys
    BY <2>1, MovedType
  <2>. QED BY <1>2, <2>2 DEF Start, TypeOK
<1>3. CASE Fail(j)
  <2>1. clock + TTL \in Nat /\ NoKey \notin Keys
    BY ConstantsOK DEF TypeOK
  <2>2. /\ row' \in [Jobs -> Row]
        /\ \A i \in Jobs : row'[i].state = "SUCCEEDED" <=> row'[i].artifact \in Keys
        /\ workers' \in SUBSET Jobs
    <3>1. CASE Ended(j, "FAILED", clock + TTL, NoKey)
      BY <2>1, <3>1, EndedType
    <3>2. CASE Ended(j, "CANCELLED", Never, NoKey)
      BY <2>1, <3>2, EndedType
    <3>3. CASE Ended(j, "FAILED", Never, NoKey)
      BY <2>1, <3>3, EndedType
    <3>. QED BY <1>3, <3>1, <3>2, <3>3 DEF Fail
  <2>. QED BY <1>3, <2>2 DEF Fail, TypeOK
<1>4. ASSUME NEW k \in Keys, Succeed(j, k), UNCHANGED <<clock, file, made, call, crashes>>
      PROVE  TypeOK'
  BY <1>4, SucceedType DEF TypeOK
<1>5. ASSUME NEW k \in Keys, Copy(j, k)
      PROVE  TypeOK'
  <2>1. call' \in Call
    BY <1>5 DEF Copy, Call, Put, TypeOK
  <2>. QED BY <1>5, <2>1 DEF Copy, TypeOK
<1>. QED BY <1>1, <1>2, <1>3, <1>4, <1>5 DEF Work, Hit, Reuse

\* The end of a put.
LEMMA PutType ==
  ASSUME TypeOK, Replace \/ PutRaises \/ Record
  PROVE  TypeOK'
<1>. Quiet \in Call /\ clock \in Nat /\ clock + TTL \in Nat /\ NoKey \notin Keys
  BY ConstantsOK DEF Call, TypeOK
<1>0. call \in Call
  BY DEF TypeOK
<1>1. CASE Replace
  <2>1. call \in Put /\ call.key \in Keys /\ call.since \in Nat
    BY <1>0, <1>1, CallFields DEF Replace
  <2>2. file' \in [Keys -> File]
    BY <1>1, <2>1, FileTypes DEF Replace, TypeOK
  <2>3. call' \in Call
    BY <1>1, <2>1 DEF Replace, Call, Put
  <2>. QED BY <1>1, <2>2, <2>3 DEF Replace, TypeOK
<1>2. CASE PutRaises
  <2>1. call.job \in Jobs
    BY <1>0, <1>2, CallFields DEF PutRaises
  <2>2. /\ row' \in [Jobs -> Row]
        /\ \A i \in Jobs : row'[i].state = "SUCCEEDED" <=> row'[i].artifact \in Keys
        /\ workers' \in SUBSET Jobs
    BY <1>2, <2>1, EndedType DEF PutRaises
  <2>. QED BY <1>2, <2>2 DEF PutRaises, TypeOK
<1>3. CASE Record
  <2>1. call.job \in Jobs /\ call.key \in Keys
    BY <1>0, <1>3, CallFields DEF Record
  <2>2. Succeed(call.job, call.key)
    BY <1>3 DEF Record
  <2>. QED BY <1>3, <2>1, <2>2, SucceedType DEF Record, TypeOK
<1>. QED BY <1>1, <1>2, <1>3

\* The reaper, the clock and a restart.
LEMMA RestType ==
  ASSUME TypeOK, Sweep \/ Tick \/ Crash
  PROVE  TypeOK'
<1>1. Quiet \in Call
  BY DEF Call
<1>0. call \in Call /\ clock \in Nat
  BY DEF TypeOK
<1>2. CASE Wake
  <2>1. call' \in Call
    BY <1>0, <1>2 DEF Wake, Call
  <2>. QED BY <1>2, <2>1 DEF Wake, TypeOK
<1>9. CASE ReapFiles
  <2>1. call' \in Call
    BY <1>0, <1>9 DEF ReapFiles, Call, Put, Quiet
  <2>. QED BY <1>9, <2>1 DEF ReapFiles, TypeOK
<1>3. ASSUME NEW k \in Keys, Unlink(k)
      PROVE  TypeOK'
  <2>1. file' \in [Keys -> File]
    BY <1>3, FileTypes DEF Unlink, TypeOK
  <2>. QED BY <1>3, <2>1 DEF Unlink, TypeOK
<1>4. CASE Unlinked
  <2>1. call' \in Call
    BY <1>0, <1>4 DEF Unlinked, Call, Put, Quiet
  <2>. QED BY <1>4, <2>1 DEF Unlinked, TypeOK
<1>5. ASSUME NEW j \in Jobs, Expire(j)
      PROVE  TypeOK'
  <2>1. /\ row' \in [Jobs -> Row]
        /\ \A i \in Jobs : row'[i].state = "SUCCEEDED" <=> row'[i].artifact \in Keys
    BY <1>5, ExpireType
  <2>. QED BY <1>5, <2>1 DEF Expire, TypeOK
<1>6. CASE Expired
  BY <1>1, <1>6 DEF Expired, TypeOK
<1>7. CASE Tick
  BY <1>7, ConstantsOK DEF Tick, TypeOK
<1>8. CASE Crash
  BY <1>1, <1>8, ConstantsOK DEF Crash, TypeOK
<1>. QED BY <1>2, <1>3, <1>4, <1>5, <1>6, <1>7, <1>8, <1>9 DEF Sweep

LEMMA TypeStep == TypeOK /\ [Next]_vars => TypeOK'
<1>. SUFFICES ASSUME TypeOK, [Next]_vars
              PROVE  TypeOK'
  OBVIOUS
<1>1. CASE UNCHANGED vars
  BY <1>1 DEF vars, TypeOK
<1>. QED BY <1>1, WorkType, PutType, RestType DEF Next

LEMMA TypeInit == Init => TypeOK
<1>. SUFFICES ASSUME Init
              PROVE  TypeOK
  OBVIOUS
<1>1. row \in [Jobs -> Row] /\ \A j \in Jobs : row[j].state = LC!NoJob /\ row[j].artifact = NoKey
  BY DEF Init, Row
<1>2. file \in [Keys -> File]
  BY FileTypes DEF Init
<1>. QED BY <1>1, <1>2, ConstantsOK DEF Init, TypeOK, Call

\* Every row, file and call in progress has its shape in every reachable
\* state, and a row holds a path exactly while it says SUCCEEDED (job_result's
\* own condition, server.py).
THEOREM RetentionType == Spec => []TypeOK
BY TypeInit, TypeStep, PTL DEF Spec

-----------------------------------------------------------------------------
(***************************************************************************)
(* The inductive invariant.  Neither property is inductive: what a sweep   *)
(* may unlink follows from when it read the clock, and that a path leads   *)
(* to a whole video from what a put in progress has and has not done.      *)
(***************************************************************************)
\* What a name in the store holds is whole, with or without a row.
WholeFiles == \A k \in Keys : Stored(k) => file[k].whole

\* A put in progress: the job that waits for it, and what it has stored.  A
\* sweep in progress has not read a time to come.
CallInv ==
  /\ call.does \in {"copying", "recording"} => row[call.job].state = "RENDERING"
  /\ call.does = "copying" => ~Stored(call.key)
  /\ call.does = "recording" => Stored(call.key)
  /\ call.does = "unlinking" => call.at <= clock

\* A path leads to a file at least as young as the one it was handed out for,
\* or that one was past its retention.
Kept(j) ==
  \/ Stored(row[j].artifact) /\ shown[j] <= file[row[j].artifact].since
  \/ shown[j] + TTL < clock
KeptInv == \A j \in Jobs : row[j].state = "SUCCEEDED" => shown[j] \in Nat /\ Kept(j)

RetentionInv == TypeOK /\ WholeFiles /\ CallInv /\ KeptInv

\* A step that leaves the files and the clock alone, and every job that has
\* succeeded before.
LEMMA KeptOn ==
  ASSUME TypeOK, KeptInv, UNCHANGED file, UNCHANGED clock,
         \A j \in Jobs : row'[j].state = "SUCCEEDED"
                         => row'[j] = row[j] /\ shown'[j] = shown[j]
  PROVE  KeptInv'
BY DEF KeptInv, Kept, Stored

\* A success hands out a path to a file that is there.
LEMMA KeptBySuccess ==
  ASSUME TypeOK, KeptInv, NEW j \in Jobs, NEW k \in Keys, Stored(k), Succeed(j, k),
         UNCHANGED file, UNCHANGED clock
  PROVE  KeptInv'
<1>1. /\ row'[j].state = "SUCCEEDED" /\ row'[j].artifact = k
      /\ shown'[j] = file[k].since /\ file[k].since \in Nat
      /\ \A i \in Jobs : i # j => row'[i] = row[i] /\ shown'[i] = shown[i]
  BY SucceedType
<1>2. shown'[j] \in Nat /\ Kept(j)'
  BY <1>1 DEF Kept, Stored
<1>3. ASSUME NEW i \in Jobs, i # j, row'[i].state = "SUCCEEDED"
      PROVE  shown'[i] \in Nat /\ Kept(i)'
  BY <1>1, <1>3 DEF KeptInv, Kept, Stored
<1>. QED BY <1>2, <1>3 DEF KeptInv

\* A worker's own step.
LEMMA WorkStep ==
  ASSUME RetentionInv, NEW j \in Jobs, Work(j), TypeOK'
  PROVE  WholeFiles' /\ CallInv' /\ KeptInv'
<1>0. TypeOK /\ WholeFiles /\ CallInv /\ KeptInv
  BY DEF RetentionInv
<1>1. UNCHANGED file /\ UNCHANGED clock
  BY DEF Work, Submit, Start, Fail, Hit, Reuse, Copy
<1>2. call = Quiet
  BY DEF Work, Submit, Start, Fail, Hit, Reuse, Copy, Runs, Free
<1>5. KeptInv'
  <2>1. ASSUME NEW k \in Keys, Hit(j, k) \/ Reuse(j, k) PROVE KeptInv'
    BY <1>0, <1>1, <2>1, KeptBySuccess DEF Hit, Reuse
  <2>2. CASE Submit(j) \/ Start(j) \/ Fail(j) \/ \E k \in Keys : Copy(j, k)
    <3>1. UNCHANGED shown
      BY <2>2 DEF Submit, Start, Fail, Copy
    <3>2. \A i \in Jobs : i # j => row'[i] = row[i]
      BY <1>0, <2>2 DEF Submit, Start, Fail, Copy, Moved, Ended, TypeOK
    <3>3. row'[j].state # "SUCCEEDED"
      <4>1. CASE Submit(j) \/ Start(j)
        BY <1>0, <4>1, MovedType DEF Submit, Start, Runs
      <4>2. CASE Fail(j)
        BY <1>0, <4>2, EndedUnsuccessful DEF Fail
      <4>3. CASE \E k \in Keys : Copy(j, k)
        BY <4>3 DEF Copy, Runs
      <4>. QED BY <2>2, <4>1, <4>2, <4>3
    <3>4. \A i \in Jobs : row'[i].state = "SUCCEEDED" => row'[i] = row[i] /\ shown'[i] = shown[i]
      BY <3>1, <3>2, <3>3
    <3>. QED BY <1>0, <1>1, <3>4, KeptOn
  <2>. QED BY <2>1, <2>2 DEF Work
<1>6. WholeFiles'
  BY <1>0, <1>1 DEF WholeFiles, Stored
<1>7. CallInv'
  <2>1. CASE UNCHANGED call
    BY <1>2, <2>1 DEF CallInv, Quiet
  <2>2. ASSUME NEW k \in Keys, Copy(j, k)
        PROVE  CallInv'
    <3>1. /\ call' = [does |-> "copying", job |-> j, key |-> k, since |-> clock]
          /\ row'[j].state = "RENDERING" /\ ~Stored(k)'
      BY <2>2 DEF Copy, Runs, Stored
    <3>2. call'.does = "copying" /\ call'.job = j /\ call'.key = k
      BY <3>1
    <3>. QED BY <3>1, <3>2 DEF CallInv, Stored
  <2>. QED BY <2>1, <2>2 DEF Work, Submit, Start, Fail, Hit, Reuse
<1>. QED BY <1>5, <1>6, <1>7

\* The put's rename and its end.
LEMMA PutStep ==
  ASSUME RetentionInv, Replace \/ PutRaises \/ Record, TypeOK'
  PROVE  WholeFiles' /\ CallInv' /\ KeptInv'
<1>0. TypeOK /\ WholeFiles /\ CallInv /\ KeptInv
  BY DEF RetentionInv
<1>1. call.does \in {"copying", "recording"} /\ call \in Call
  BY <1>0 DEF Replace, PutRaises, Record, TypeOK
<1>2. /\ call \in Put /\ call.job \in Jobs /\ call.key \in Keys /\ call.since \in Nat
      /\ row[call.job].state = "RENDERING"
  BY <1>0, <1>1, CallFields DEF CallInv
<1>. clock \in Nat /\ TTL \in Nat
  BY <1>0, ConstantsOK DEF TypeOK
<1>4. CASE Replace
  <2>. DEFINE f == [since |-> call.since, whole |-> TRUE, there |-> TRUE]
  <2>1. f.whole /\ f.there
    OBVIOUS
  <2>2. file' = [file EXCEPT ![call.key] = f] /\ UNCHANGED <<clock, row, shown>>
    BY <1>4 DEF Replace
  <2>. HIDE DEF f
  <2>3. file'[call.key] = f /\ \A k \in Keys : k # call.key => file'[k] = file[k]
    BY <1>0, <1>2, <2>2 DEF TypeOK
  <2>4. ~Stored(call.key)
    BY <1>0, <1>4 DEF CallInv, Replace
  <2>5. WholeFiles'
    BY <1>0, <2>1, <2>3 DEF WholeFiles, Stored
  <2>6. CallInv'
    <3>2. call'.does = "recording" /\ call'.job = call.job /\ call'.key = call.key
      BY <1>2, <1>4 DEF Replace, Put
    <3>. QED BY <1>2, <2>1, <2>2, <2>3, <3>2 DEF CallInv, Stored
  <2>7. KeptInv'
    <3>1. ASSUME NEW i \in Jobs, row[i].state = "SUCCEEDED"
          PROVE  shown[i] \in Nat /\ Kept(i)'
      <4>1. row[i].artifact \in Keys /\ shown[i] \in Nat /\ Kept(i)
        BY <1>0, <3>1 DEF TypeOK, KeptInv
      <4>2. CASE row[i].artifact = call.key
        BY <2>2, <2>4, <4>1, <4>2 DEF Kept
      <4>3. CASE row[i].artifact # call.key
        BY <2>2, <2>3, <4>1, <4>3 DEF Kept, Stored
      <4>. QED BY <4>1, <4>2, <4>3
    <3>. QED BY <2>2, <3>1 DEF KeptInv
  <2>. QED BY <2>5, <2>6, <2>7
<1>5. CASE PutRaises
  <2>1. /\ row'[call.job].state # "SUCCEEDED"
        /\ \A i \in Jobs : i # call.job => row'[i] = row[i]
    BY <1>0, <1>2, <1>5, EndedUnsuccessful DEF PutRaises
  <2>3. UNCHANGED file /\ UNCHANGED clock /\ UNCHANGED shown /\ call' = Quiet
    BY <1>5 DEF PutRaises
  <2>4. \A i \in Jobs : row'[i].state = "SUCCEEDED" => row'[i] = row[i] /\ shown'[i] = shown[i]
    BY <2>1, <2>3
  <2>5. KeptInv'
    BY <1>0, <2>3, <2>4, KeptOn
  <2>. QED BY <1>0, <2>3, <2>5 DEF WholeFiles, CallInv, Quiet, Stored
<1>6. CASE Record
  <2>1. /\ Succeed(call.job, call.key) /\ Stored(call.key)
        /\ UNCHANGED file /\ UNCHANGED clock /\ call' = Quiet
    BY <1>0, <1>6 DEF Record, CallInv
  <2>2. KeptInv'
    BY <1>0, <1>2, <2>1, KeptBySuccess
  <2>. QED BY <1>0, <2>1, <2>2 DEF WholeFiles, CallInv, Quiet, Stored
<1>. QED BY <1>4, <1>5, <1>6

\* A sweep's unlink comes after the retention of the file, by a reading of the
\* clock that is past; a restart and the clock take no file.
LEMMA RestStep ==
  ASSUME RetentionInv, Sweep \/ Tick \/ Crash, TypeOK'
  PROVE  WholeFiles' /\ CallInv' /\ KeptInv'
<1>0. TypeOK /\ WholeFiles /\ CallInv /\ KeptInv /\ call \in Call
  BY DEF RetentionInv, TypeOK
<1>. clock \in Nat /\ TTL \in Nat
  BY <1>0, ConstantsOK DEF TypeOK
<1>1. CASE Wake \/ ReapFiles \/ Unlinked \/ Expired \/ Crash
  <2>1. UNCHANGED file /\ UNCHANGED clock /\ UNCHANGED shown /\ UNCHANGED row
    BY <1>1 DEF Wake, ReapFiles, Unlinked, Expired, Crash
  <2>2. CallInv'
    <3>1. call'.does \notin {"copying", "recording", "unlinking"} \/ (call'.does = "unlinking" /\ call'.at = clock)
      BY <1>1 DEF Wake, ReapFiles, Unlinked, Expired, Crash, Quiet
    <3>. QED BY <2>1, <3>1 DEF CallInv
  <2>3. KeptInv'
    BY <1>0, <2>1, KeptOn
  <2>. QED BY <1>0, <2>1, <2>2, <2>3 DEF WholeFiles, Stored
<1>2. ASSUME NEW k \in Keys, Unlink(k)
      PROVE  WholeFiles' /\ CallInv' /\ KeptInv'
  <2>1. /\ call.does = "unlinking" /\ FileDue(k)
        /\ UNCHANGED <<clock, row, shown, call>>
        /\ file'[k] = Gone /\ \A i \in Keys : i # k => file'[i] = file[i]
    BY <1>0, <1>2 DEF Unlink, TypeOK
  <2>2. WholeFiles'
    BY <1>0, <2>1, FileTypes DEF WholeFiles, Stored
  <2>3. CallInv'
    BY <1>0, <2>1 DEF CallInv
  <2>4. ASSUME NEW i \in Jobs, row[i].state = "SUCCEEDED"
        PROVE  shown[i] \in Nat /\ Kept(i)'
    <3>1. row[i].artifact \in Keys /\ shown[i] \in Nat /\ Kept(i)
      BY <1>0, <2>4 DEF TypeOK, KeptInv
    <3>2. CASE row[i].artifact = k
      <4>1. file[k].since \in Nat
        BY <1>0 DEF TypeOK, File
      <4>2. call.at \in Nat /\ call.at <= clock
        BY <1>0, <2>1 DEF CallInv, Call, Put, Quiet
      <4>3. shown[i] + TTL < clock
        BY <2>1, <3>1, <3>2, <4>1, <4>2 DEF Kept, FileDue
      <4>. QED BY <2>1, <3>1, <4>3 DEF Kept
    <3>3. CASE row[i].artifact # k
      BY <2>1, <3>1, <3>3 DEF Kept, Stored
    <3>. QED BY <3>2, <3>3
  <2>5. KeptInv'
    BY <2>1, <2>4 DEF KeptInv
  <2>. QED BY <2>2, <2>3, <2>5
<1>3. ASSUME NEW j \in Jobs, Expire(j)
      PROVE  WholeFiles' /\ CallInv' /\ KeptInv'
  <2>1. row'[j].state = "EXPIRED" /\ \A i \in Jobs : i # j => row'[i] = row[i]
    BY <1>0, <1>3, ExpireType
  <2>2. UNCHANGED file /\ UNCHANGED clock /\ UNCHANGED shown /\ UNCHANGED call /\ call.does = "expiring"
    BY <1>3 DEF Expire
  <2>3. \A i \in Jobs : row'[i].state = "SUCCEEDED" => row'[i] = row[i] /\ shown'[i] = shown[i]
    BY <2>1, <2>2
  <2>4. KeptInv'
    BY <1>0, <2>2, <2>3, KeptOn
  <2>. QED BY <1>0, <2>2, <2>4 DEF WholeFiles, CallInv, Stored
<1>4. CASE Tick
  <2>1. clock' = clock + 1 /\ UNCHANGED <<row, file, shown, call>>
    BY <1>4 DEF Tick
  <2>2. ASSUME NEW i \in Jobs, row[i].state = "SUCCEEDED"
        PROVE  shown[i] \in Nat /\ Kept(i)'
    BY <1>0, <2>1, <2>2 DEF KeptInv, Kept, Stored
  <2>3. KeptInv'
    BY <2>1, <2>2 DEF KeptInv
  <2>4. CallInv'
    <3>1. call.does = "unlinking" => call.at \in Nat
      BY <1>0 DEF Call, Put, Quiet
    <3>. QED BY <1>0, <2>1, <3>1 DEF CallInv, Stored
  <2>. QED BY <1>0, <2>1, <2>3, <2>4 DEF WholeFiles, Stored
<1>. QED BY <1>1, <1>2, <1>3, <1>4 DEF Sweep

LEMMA RetentionStep == RetentionInv /\ [Next]_vars => RetentionInv'
<1>. SUFFICES ASSUME RetentionInv, [Next]_vars
              PROVE  RetentionInv'
  OBVIOUS
<1>0. TypeOK /\ WholeFiles /\ CallInv /\ KeptInv /\ TypeOK'
  BY TypeStep DEF RetentionInv
<1>1. CASE UNCHANGED vars
  <2>1. UNCHANGED file /\ UNCHANGED clock /\ UNCHANGED shown /\ UNCHANGED row /\ UNCHANGED call
    BY <1>1 DEF vars
  <2>2. KeptInv'
    BY <1>0, <2>1, KeptOn
  <2>. QED BY <1>0, <2>1, <2>2 DEF RetentionInv, WholeFiles, CallInv, Stored
<1>2. CASE Next
  <2>1. WholeFiles' /\ CallInv' /\ KeptInv'
    BY <1>0, <1>2, WorkStep, PutStep, RestStep DEF Next
  <2>. QED BY <1>0, <2>1 DEF RetentionInv
<1>. QED BY <1>1, <1>2

LEMMA RetentionInit == Init => RetentionInv
<1>. SUFFICES ASSUME Init
              PROVE  RetentionInv
  OBVIOUS
<1>1. WholeFiles /\ CallInv /\ KeptInv
  BY FileTypes DEF Init, WholeFiles, CallInv, KeptInv, Quiet, Stored
<1>. QED BY <1>1, TypeInit DEF RetentionInv

LEMMA RetentionInvariant == Spec => []RetentionInv
BY RetentionInit, RetentionStep, PTL DEF Spec

-----------------------------------------------------------------------------
\* Whatever path a SUCCEEDED job hands out leads to a whole video as long as
\* it leads to a file: no crash, failed copy or sweep, in any order, leaves a
\* truncated artifact under a valid key (FsArtifactStore.put).
THEOREM WholeVideos == Spec => []OnlyWholeVideosServed
<1>1. RetentionInv => OnlyWholeVideosServed
  BY DEF RetentionInv, TypeOK, WholeFiles, OnlyWholeVideosServed
<1>. QED BY <1>1, RetentionInvariant, PTL

\* Any path handed out leads to its video until the video is past its
\* retention, wherever between the steps of puts, sweeps and restarts time
\* passes (FsArtifactStore.reap, FsArtifactStore.put, JobManager._succeed).
THEOREM KeptUntilDue == Spec => []KeptSinceWritten
<1>1. ASSUME RetentionInv
      PROVE  KeptSinceWritten
  <2>1. clock \in Nat /\ TTL \in Nat /\ KeptInv
    BY <1>1, ConstantsOK DEF RetentionInv, TypeOK
  <2>2. ASSUME NEW j \in Jobs, row[j].state = "SUCCEEDED", clock <= shown[j] + TTL
        PROVE  Stored(row[j].artifact)
    BY <2>1, <2>2 DEF KeptInv, Kept
  <2>. QED BY <2>2 DEF KeptSinceWritten
<1>. QED BY <1>1, RetentionInvariant, PTL

-----------------------------------------------------------------------------
(***************************************************************************)
(* The rows implement JobLifecycle across calls, sweeps and restarts.      *)
(***************************************************************************)
\* The chains of table edges a row makes: a worker that skips the states this
\* module does not tell apart, its end, and expiry.
LEMMA RowEdges ==
  /\ LC!Onward("QUEUED", "RENDERING")
  /\ \A src \in {"QUEUED", "RENDERING"} :
       \A dst \in {"SUCCEEDED", "FAILED", "CANCELLED"} : LC!Onward(src, dst)
<1>. DEFINE A == LC!Allowed
<1>1. /\ {"VALIDATING", "FAILED", "CANCELLED"} \subseteq A["QUEUED"]
      /\ "RENDERING" \in A["VALIDATING"]
      /\ {"SUCCEEDED", "FAILED", "CANCELLED"} \subseteq A["RENDERING"]
  BY DEF LC!Allowed
<1>. HIDE DEF A
<1>2. LC!Onward("QUEUED", "RENDERING") /\ LC!Onward("QUEUED", "SUCCEEDED")
  BY <1>1 DEF LC!Onward, LC!CanTransition, A
<1>. QED BY <1>1, <1>2 DEF LC!Onward, LC!CanTransition, A

\* What one step may do to one row, as JobLifecycle states it.
Moves(i) ==
  \/ row'[i].state = row[i].state
  \/ row[i].state = LC!NoJob /\ row'[i].state = "QUEUED"
  \/ row[i].state \in LC!JobState /\ LC!Onward(row[i].state, row'[i].state)

\* The end of a worker whose row says QUEUED or RENDERING.
LEMMA EndMoves ==
  ASSUME TypeOK, NEW i \in Jobs, NEW j \in Jobs, NEW e, NEW k,
         row[j].state \in {"QUEUED", "RENDERING"},
         NEW s \in {"SUCCEEDED", "FAILED", "CANCELLED"}, Ended(j, s, e, k)
  PROVE  Moves(i)
<1>1. row' = [row EXCEPT ![j] = [state |-> s, expires |-> e, artifact |-> k]]
  BY DEF Ended
<1>2. row'[j].state = s /\ (i # j => row'[i] = row[i])
  BY <1>1 DEF TypeOK
<1>. QED BY <1>2, RowEdges DEF Moves

\* A job that was never submitted has no window: no sweep finds it due.
NoWindowYet == \A i \in Jobs : row[i].state = LC!NoJob => row[i].expires = Never

LEMMA WindowStep ==
  ASSUME TypeOK, NoWindowYet, [Next]_vars
  PROVE  NoWindowYet'
<1>1. ASSUME UNCHANGED row PROVE NoWindowYet'
  BY <1>1 DEF NoWindowYet
<1>2. ASSUME NEW j \in Jobs, row'[j].state # LC!NoJob, \A i \in Jobs : i # j => row'[i] = row[i]
      PROVE  NoWindowYet'
  BY <1>2 DEF NoWindowYet
<1>3. ASSUME NEW j \in Jobs, NEW s \in LC!JobState, NEW e, NEW k, Ended(j, s, e, k)
      PROVE  NoWindowYet'
  <2>1. row' = [row EXCEPT ![j] = [state |-> s, expires |-> e, artifact |-> k]]
    BY <1>3 DEF Ended
  <2>2. row'[j].state = s /\ \A i \in Jobs : i # j => row'[i] = row[i]
    BY <2>1 DEF TypeOK
  <2>. QED BY <1>2, <2>2
<1>4. ASSUME NEW j \in Jobs, Work(j) PROVE NoWindowYet'
  <2>1. CASE Submit(j)
    BY <1>2, <2>1, MovedType DEF Submit
  <2>2. CASE Start(j)
    BY <1>2, <2>2, MovedType DEF Start, Runs
  <2>. QED BY <1>1, <1>3, <1>4, <2>1, <2>2 DEF Work, Fail, Hit, Reuse, Copy, Succeed
<1>5. CASE PutRaises \/ Record
  <2>1. call.job \in Jobs
    BY <1>5, CallFields DEF PutRaises, Record, TypeOK
  <2>. QED BY <1>3, <1>5, <2>1 DEF PutRaises, Record, Succeed
<1>6. ASSUME NEW j \in Jobs, Expire(j) PROVE NoWindowYet'
  BY <1>2, <1>6, ExpireType
<1>. QED BY <1>1, <1>4, <1>5, <1>6
  DEF Next, Replace, Sweep, Wake, ReapFiles, Unlink, Unlinked, Expired, Tick, Crash, vars

\* A put that returns or raises finds the row as RENDERING as it left it: the
\* call in progress keeps every other writer of the row away.
LEMMA RowMoves ==
  ASSUME RetentionInv, NoWindowYet, [Next]_vars, NEW i \in Jobs
  PROVE  Moves(i)
<1>0. TypeOK /\ CallInv /\ call \in Call
  BY DEF RetentionInv, TypeOK
<1>1. CASE UNCHANGED row
  BY <1>1 DEF Moves
<1>2. ASSUME NEW j \in Jobs, Work(j) PROVE Moves(i)
  <2>1. CASE Submit(j)
    <3>1. row[j].state = LC!NoJob /\ row'[j].state = "QUEUED" /\ (i # j => row'[i] = row[i])
      BY <1>0, <2>1, MovedType DEF Submit
    <3>. QED BY <3>1 DEF Moves
  <2>2. CASE Start(j)
    <3>1. row[j].state = "QUEUED" /\ row'[j].state = "RENDERING" /\ (i # j => row'[i] = row[i])
      BY <1>0, <2>2, MovedType DEF Start, Runs
    <3>. QED BY <3>1, RowEdges DEF Moves
  <2>3. CASE Fail(j)
    BY <1>0, <2>3, EndMoves DEF Fail, Runs
  <2>4. ASSUME NEW k \in Keys, Hit(j, k) \/ Reuse(j, k) PROVE Moves(i)
    BY <1>0, <2>4, EndMoves DEF Hit, Reuse, Succeed, Runs
  <2>5. ASSUME NEW k \in Keys, Copy(j, k) PROVE Moves(i)
    BY <1>1, <2>5 DEF Copy
  <2>. QED BY <1>2, <2>1, <2>2, <2>3, <2>4, <2>5 DEF Work
<1>3. CASE PutRaises \/ Record
  <2>1. call.job \in Jobs /\ row[call.job].state = "RENDERING"
    BY <1>0, <1>3, CallFields DEF CallInv, PutRaises, Record
  <2>. QED BY <1>0, <1>3, <2>1, EndMoves DEF PutRaises, Record, Succeed
<1>4. ASSUME NEW j \in Jobs, Expire(j) PROVE Moves(i)
  <2>1. row'[j].state = "EXPIRED" /\ (i # j => row'[i] = row[i])
    BY <1>0, <1>4, ExpireType
  <2>2. row[j].state \in LC!JobState /\ LC!Onward(row[j].state, "EXPIRED")
    BY <1>0, <1>4 DEF Expire, RowDue, NoWindowYet, LC!Onward, TypeOK, Row
  <2>. QED BY <1>4, <2>1, <2>2 DEF Moves
<1>. QED BY <1>1, <1>2, <1>3, <1>4
  DEF Next, Replace, Sweep, Wake, ReapFiles, Unlink, Unlinked, Expired, Tick, Crash, vars

\* What polls read stays a behaviour of the transition table although calls
\* fail, sweeps are cut short and the server restarts in the middle of any of
\* them: no row is resurrected, or expired while its job runs (Reaper.reap,
\* JobManager._succeed, the restart in server.main).
THEOREM RowsFollowTheTable == Spec => LC!Spec
<1>1. Init => LC!Init /\ NoWindowYet
  BY DEF Init, LC!Init, NoWindowYet
<1>2. RetentionInv /\ RetentionInv' /\ NoWindowYet /\ [Next]_vars => LC!Next /\ NoWindowYet'
  <2>. SUFFICES ASSUME RetentionInv, RetentionInv', NoWindowYet, [Next]_vars
                PROVE  LC!Next /\ NoWindowYet'
    OBVIOUS
  <2>1. \A j \in Jobs : row'[j].state \in LC!JobState \cup {LC!NoJob}
    BY DEF RetentionInv, TypeOK, Row
  <2>2. \A j \in Jobs : LC!Move(j)
    BY RowMoves DEF LC!Move, Moves
  <2>. QED BY <2>1, <2>2, WindowStep DEF LC!Next, RetentionInv
<1>. QED BY <1>1, <1>2, RetentionInvariant, PTL DEF Spec, LC!Spec
=============================================================================
