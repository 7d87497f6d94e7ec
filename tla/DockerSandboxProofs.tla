------------------------ MODULE DockerSandboxProofs ------------------------
(***************************************************************************)
(* The safety theorems of DockerSandbox, for any number of jobs and runs.  *)
(***************************************************************************)
EXTENDS DockerSandbox, TLAPS

USE ConstantsOK DEF Modes, Names, Codes, Kills, Name

-----------------------------------------------------------------------------
(***************************************************************************)
(* Types.                                                                  *)
(***************************************************************************)
\* A run ends with the client's exit code at hand.
LEMMA ReturnType ==
  ASSUME TypeOK, NEW j \in Jobs, client[j] \in Codes,
         NEW what \in {"ok", "failed", "oom", "raised", "timeout"},
         Return(j, what)
  PROVE  TypeOK'
BY DEF TypeOK, Return

LEMMA TypeStep == TypeOK /\ [Next]_vars => TypeOK'
<1>. SUFFICES ASSUME TypeOK, [Next]_vars PROVE TypeOK'
  OBVIOUS
<1>1. ASSUME NEW j \in Jobs, NEW m \in Modes, Begin(j, m) PROVE TypeOK'
  BY <1>1 DEF TypeOK, Begin
<1>2. ASSUME NEW j \in Jobs, Create(j) PROVE TypeOK'
  BY <1>2 DEF TypeOK, Create
<1>3. ASSUME NEW j \in Jobs, Remove(j) \/ Block(j) PROVE TypeOK'
  BY <1>3 DEF TypeOK, Remove, Block
<1>4. ASSUME NEW j \in Jobs, Answer(j) PROVE TypeOK'
  BY <1>4, ReturnType DEF Answer
<1>5. ASSUME NEW j \in Jobs, Timeout(j) PROVE TypeOK'
  BY <1>5 DEF TypeOK, Timeout
<1>6. ASSUME NEW j \in Jobs, Killed(j) PROVE TypeOK'
  BY <1>6 DEF TypeOK, Killed
<1>7. ASSUME NEW j \in Jobs, Waited(j) PROVE TypeOK'
  BY <1>7, ReturnType DEF Waited
<1>8. ASSUME NEW j \in Jobs, Cancel(j) PROVE TypeOK'
  BY <1>8 DEF TypeOK, Cancel
<1>9. ASSUME NEW n \in Names, NEW code \in Codes \ {"taken"}, Exit(n, code) PROVE TypeOK'
  BY <1>9 DEF TypeOK, Exit
<1>10. ASSUME NEW k \in kills, Kill(k) PROVE TypeOK'
  BY <1>10 DEF TypeOK, Kill
<1>11. CASE Terminating
  BY <1>11 DEF TypeOK, Terminating, vars
<1>12. CASE UNCHANGED vars
  BY <1>12 DEF TypeOK, vars
<1>. QED
  BY <1>1, <1>2, <1>3, <1>4, <1>5, <1>6, <1>7, <1>8, <1>9, <1>10, <1>11, <1>12 DEF Next

\* Every variable keeps its shape, and a run that is over has seen its client
\* exit (docker_sandbox.py:104-135).
THEOREM TypeCorrect == Spec => []TypeOK
<1>1. Init => TypeOK
  BY DEF Init, TypeOK
<1>. QED BY <1>1, TypeStep, PTL DEF Spec

-----------------------------------------------------------------------------
(***************************************************************************)
(* A container is there exactly while the client of its run is attached to *)
(* it: so a run that has its client's exit code leaves the name free, and  *)
(* the next one finds it so.                                               *)
(***************************************************************************)
Held == {"attached", "blocked"}
USE DEF Held
Holder(n) == client[n[1]] \in Held /\ n[2] = mode[n[1]]
Attached ==
  /\ \A j \in Jobs : phase[j] = "idle" => client[j] \notin {"connecting"} \cup Held
  /\ \A j \in Jobs : client[j] # "taken"
  /\ \A n \in Names : box[n] # "absent" => Holder(n)

\* A name is a job and a mode.
LEMMA NameParts ==
  /\ \A n \in Names : n[1] \in Jobs /\ n[2] \in Modes /\ n = <<n[1], n[2]>>
  /\ \A j \in Jobs, m \in Modes : <<j, m>> \in Names /\ <<j, m>>[1] = j /\ <<j, m>>[2] = m
OBVIOUS

\* A step after which no more containers are there than before, and which
\* leaves the holders of these alone.
LEMMA AttachedIfFewer ==
  ASSUME Attached,
         \A n \in Names : box'[n] # "absent" => box[n] # "absent" /\ (Holder(n) => Holder(n)'),
         \A j \in Jobs : phase'[j] = "idle" => client'[j] \notin {"connecting"} \cup Held,
         \A j \in Jobs : client'[j] # "taken"
  PROVE  Attached'
BY DEF Attached

LEMMA AttachedStep == TypeOK /\ Attached /\ [Next]_vars => Attached'
<1>. SUFFICES ASSUME TypeOK, Attached, [Next]_vars PROVE Attached'
  OBVIOUS
<1>1. ASSUME NEW j \in Jobs, NEW m \in Modes, Begin(j, m) PROVE Attached'
  <2>1. phase[j] = "idle" /\ client[j] \notin Held
    BY <1>1 DEF Attached, Begin
  <2>2. \A i \in Jobs : i # j => phase'[i] = phase[i] /\ mode'[i] = mode[i] /\ client'[i] = client[i]
    BY <1>1 DEF TypeOK, Begin
  <2>3. phase'[j] = "communicating" /\ client'[j] = "connecting" /\ box' = box
    BY <1>1 DEF TypeOK, Begin
  <2>4. ASSUME NEW n \in Names, box'[n] # "absent"
        PROVE  box[n] # "absent" /\ (Holder(n) => Holder(n)')
    <3>1. n[1] \in Jobs /\ n[1] # j
      BY <2>1, <2>3, <2>4, NameParts DEF Attached, Holder
    <3>. QED BY <2>2, <2>3, <2>4, <3>1 DEF Holder
  <2>5. \A i \in Jobs : client'[i] # "taken"
    BY <2>2, <2>3 DEF Attached
  <2>6. \A i \in Jobs : phase'[i] = "idle" => client'[i] \notin {"connecting"} \cup Held
    BY <2>2, <2>3 DEF Attached
  <2>. QED BY <2>4, <2>5, <2>6, AttachedIfFewer
<1>2. ASSUME NEW j \in Jobs, Create(j) PROVE Attached'
  <2>. DEFINE own == <<j, mode[j]>>
  <2>1. own \in Names /\ own[1] = j /\ own[2] = mode[j]
    BY DEF TypeOK
  <2>2. client[j] = "connecting" /\ phase[j] # "idle"
    BY <1>2 DEF Create, Attached
  <2>3. box[own] = "absent"
    BY <2>1, <2>2 DEF Attached, Holder
  <2>. HIDE DEF own
  <2>4. /\ box' = [box EXCEPT ![own] = "running"]
        /\ client' = [client EXCEPT ![j] = "attached"]
        /\ phase' = phase /\ mode' = mode
    BY <1>2, <2>3 DEF Create, own
  <2>5. \A n \in Names : n # own => box'[n] = box[n]
    BY <2>4 DEF TypeOK
  <2>6. client'[j] = "attached" /\ \A i \in Jobs : i # j => client'[i] = client[i]
    BY <2>4 DEF TypeOK
  <2>7. ASSUME NEW n \in Names, box'[n] # "absent" PROVE Holder(n)'
    <3>1. CASE n = own
      BY <2>1, <2>4, <2>6, <3>1 DEF Holder
    <3>2. CASE n # own
      <4>1. Holder(n)
        BY <2>5, <2>7, <3>2 DEF Attached
      <4>2. n[1] \in Jobs
        BY NameParts
      <4>. QED BY <2>2, <2>4, <2>6, <4>1, <4>2 DEF Holder
    <3>. QED BY <3>1, <3>2
  <2>8. \A i \in Jobs : client'[i] # "taken"
    BY <2>6 DEF Attached
  <2>9. \A i \in Jobs : phase'[i] = "idle" => client'[i] \notin {"connecting"} \cup Held
    BY <2>2, <2>4, <2>6 DEF Attached
  <2>. QED BY <2>7, <2>8, <2>9 DEF Attached
<1>3. ASSUME NEW j \in Jobs, Remove(j) PROVE Attached'
  <2>. DEFINE own == <<j, mode[j]>>
  <2>1. own \in Names
    BY DEF TypeOK
  <2>2. /\ box' = [box EXCEPT ![own] = "absent"]
        /\ client' = IF client[j] = "attached" THEN [client EXCEPT ![j] = box[own]] ELSE client
        /\ client[j] \in Held
        /\ phase' = phase /\ mode' = mode
        /\ box[own] \in Codes
    BY <1>3 DEF Remove
  <2>. HIDE DEF own
  <2>3. box[own] \in {"zero", "nonzero", "137"}
    BY <2>1, <2>2 DEF TypeOK
  <2>4. box'[own] = "absent" /\ \A n \in Names : n # own => box'[n] = box[n]
    BY <2>1, <2>2 DEF TypeOK
  <2>5. client'[j] \in {box[own], "blocked"} /\ \A i \in Jobs : i # j => client'[i] = client[i]
    BY <2>2 DEF TypeOK
  <2>6. ASSUME NEW n \in Names, box'[n] # "absent"
        PROVE  box[n] # "absent" /\ (Holder(n) => Holder(n)')
    <3>1. n # own /\ box[n] # "absent"
      BY <2>4, <2>6
    <3>2. ASSUME Holder(n) PROVE n[1] # j
      BY <3>1, <3>2, NameParts DEF Holder, own
    <3>3. n[1] \in Jobs
      BY NameParts
    <3>. QED BY <2>2, <2>5, <3>1, <3>2, <3>3 DEF Holder
  <2>7. \A i \in Jobs : client'[i] # "taken"
    BY <2>3, <2>5 DEF Attached
  <2>8. \A i \in Jobs : phase'[i] = "idle" => client'[i] \notin {"connecting"} \cup Held
    BY <2>2, <2>3, <2>5 DEF Attached
  <2>. QED BY <2>6, <2>7, <2>8, AttachedIfFewer
<1>4. ASSUME NEW j \in Jobs, client[j] \in Codes,
             phase' = [phase EXCEPT ![j] = "idle"], UNCHANGED <<mode, client, box>>
      PROVE  Attached'
  <2>1. \A i \in Jobs : phase'[i] = "idle" => client'[i] \notin {"connecting"} \cup Held
    BY <1>4 DEF TypeOK, Attached
  <2>. QED BY <1>4, <2>1 DEF Attached, Holder
<1>5. ASSUME NEW j \in Jobs, NEW p \in {"killing", "waiting"},
             phase' = [phase EXCEPT ![j] = p], UNCHANGED <<mode, client, box>>
      PROVE  Attached'
  <2>1. \A i \in Jobs : phase'[i] = "idle" => client'[i] \notin {"connecting"} \cup Held
    BY <1>5 DEF TypeOK, Attached
  <2>. QED BY <1>5, <2>1 DEF Attached, Holder
<1>6. ASSUME NEW n \in Names, NEW s \in Codes, box[n] = "running",
             box' = [box EXCEPT ![n] = s], UNCHANGED <<phase, mode, client>>
      PROVE  Attached'
  <2>1. \A x \in Names : box'[x] # "absent" => box[x] # "absent"
    BY <1>6 DEF TypeOK
  <2>. QED BY <1>6, <2>1 DEF Attached, Holder
<1>7. ASSUME UNCHANGED <<phase, mode, client, box>> PROVE Attached'
  BY <1>7 DEF Attached, Holder
<1>14. ASSUME NEW j \in Jobs, Block(j) PROVE Attached'
  <2>1. \A i \in Jobs : client'[i] = IF i = j THEN "blocked" ELSE client[i]
    BY <1>14 DEF TypeOK, Block
  <2>2. phase' = phase /\ mode' = mode /\ box' = box /\ phase[j] # "idle" /\ client[j] \in Held
    BY <1>14 DEF Block
  <2>3. \A n \in Names : Holder(n) => Holder(n)'
    BY <2>1, <2>2, NameParts DEF Holder
  <2>4. \A i \in Jobs : phase'[i] = "idle" => client'[i] \notin {"connecting"} \cup Held
    BY <2>1, <2>2 DEF Attached
  <2>5. \A i \in Jobs : client'[i] # "taken"
    BY <2>1 DEF Attached
  <2>. QED BY <2>2, <2>3, <2>4, <2>5, AttachedIfFewer
<1>8. ASSUME NEW j \in Jobs, Answer(j) \/ Waited(j) PROVE Attached'
  BY <1>4, <1>8 DEF Answer, Waited, Return
<1>9. ASSUME NEW j \in Jobs, Timeout(j) \/ Killed(j) PROVE Attached'
  BY <1>5, <1>9 DEF Timeout, Killed
<1>10. ASSUME NEW n \in Names, NEW code \in Codes \ {"taken"}, Exit(n, code) PROVE Attached'
  BY <1>6, <1>10 DEF Exit
<1>11. ASSUME NEW k \in kills, Kill(k) PROVE Attached'
  <2>1. k.name \in Names
    BY DEF TypeOK
  <2>2. CASE box[k.name] = "running"
    BY <1>6, <1>11, <2>1, <2>2 DEF Kill
  <2>3. CASE box[k.name] # "running"
    BY <1>7, <1>11, <2>3 DEF Kill
  <2>. QED BY <2>2, <2>3
<1>12. ASSUME NEW j \in Jobs, Cancel(j) PROVE Attached'
  BY <1>7, <1>12 DEF Cancel
<1>13. CASE Terminating \/ UNCHANGED vars
  BY <1>7, <1>13 DEF Terminating, vars
<1>. QED
  BY <1>1, <1>2, <1>3, <1>14, <1>8, <1>9, <1>10, <1>11, <1>12, <1>13 DEF Next

\* After a run its container is gone and no run finds its name taken, whatever
\* is killed when (docker_sandbox.py:104-113).
THEOREM ContainersGoWithTheirRun == Spec => []NoContainerOutlivesItsRun
<1>1. Init => TypeOK /\ Attached
  BY DEF Init, TypeOK, Attached
<1>2. TypeOK /\ Attached => NoContainerOutlivesItsRun
  <2>1. ASSUME Attached, NEW j \in Jobs, NEW m \in Modes, phase[j] = "idle"
        PROVE  box[<<j, m>>] = "absent"
    <3>1. <<j, m>> \in Names /\ <<j, m>>[1] = j
      OBVIOUS
    <3>2. client[j] \notin Held
      BY <2>1 DEF Attached
    <3>. QED BY <2>1, <3>1, <3>2 DEF Attached, Holder
  <2>. QED BY <2>1 DEF Attached, NoContainerOutlivesItsRun
<1>. QED BY <1>1, <1>2, TypeStep, AttachedStep, PTL DEF Spec

-----------------------------------------------------------------------------
(***************************************************************************)
(* The kill of a timeout is over before its run leaves "killing", and the  *)
(* kill of a cancel names a flagged job: so none ends a container whose    *)
(* run will answer for a job that was not cancelled.                       *)
(***************************************************************************)
Verdicts == {"ok", "failed", "oom", "raised"}
Answering(j) == (phase[j] = "communicating" /\ client[j] # "connecting") \/ outcome[j] \in Verdicts
KillsKept ==
  \A k \in kills :
    \/ k.name[1] \in flagged
    \/ k.by = "timeout" /\ phase[k.name[1]] = "killing" /\ k.name = Name(k.name[1])
RunsOpen == \A j \in Jobs : phase[j] # "idle" => outcome[j] = "none"
OwnVerdicts == \A j \in Jobs \ flagged : Answering(j) => Name(j) \notin killed
VerdictInv == KillsKept /\ RunsOpen /\ OwnVerdicts

\* A kill belongs to the job in its name.
LEMMA KillParts ==
  ASSUME TypeOK, NEW k \in kills
  PROVE  k.name \in Names /\ k.name[1] \in Jobs /\ k.by \in {"timeout", "cancel"}
BY NameParts DEF TypeOK

LEMMA KillsKeptStep == TypeOK /\ KillsKept /\ [Next]_vars => KillsKept'
<1>. SUFFICES ASSUME TypeOK, KillsKept, [Next]_vars PROVE KillsKept'
  OBVIOUS
<1>1. ASSUME kills' \subseteq kills, UNCHANGED <<mode, flagged>>,
             \A i \in Jobs : phase[i] = "killing" => phase'[i] = "killing"
      PROVE  KillsKept'
  BY <1>1, KillParts DEF KillsKept
<1>2. ASSUME NEW j \in Jobs, NEW m \in Modes, Begin(j, m) PROVE KillsKept'
  <2>1. ASSUME NEW i \in Jobs, phase[i] = "killing" PROVE phase'[i] = "killing" /\ mode'[i] = mode[i]
    BY <1>2, <2>1 DEF Begin, TypeOK
  <2>. QED BY <1>2, <2>1, KillParts DEF KillsKept, Begin
<1>3. ASSUME NEW j \in Jobs, Timeout(j) PROVE KillsKept'
  <2>1. \A i \in Jobs : phase[i] = "killing" \/ i = j => phase'[i] = "killing"
    BY <1>3 DEF Timeout, TypeOK
  <2>2. Name(j)[1] = j
    OBVIOUS
  <2>. QED BY <1>3, <2>1, <2>2, KillParts DEF KillsKept, Timeout
<1>4. ASSUME NEW j \in Jobs, Killed(j) PROVE KillsKept'
  <2>1. \A i \in Jobs : i # j => phase'[i] = phase[i]
    BY <1>4 DEF Killed, TypeOK
  <2>2. ASSUME NEW k \in kills, k.by = "timeout" PROVE k.name # Name(j)
    <3>1. k = [name |-> k.name, by |-> "timeout"]
      BY <2>2 DEF TypeOK
    <3>. QED BY <1>4, <3>1 DEF Killed
  <2>. QED BY <1>4, <2>1, <2>2, KillParts DEF KillsKept, Killed
<1>5. ASSUME NEW j \in Jobs, Cancel(j) PROVE KillsKept'
  <2>1. Name(j)[1] = j
    OBVIOUS
  <2>. QED BY <1>5, <2>1, KillParts DEF KillsKept, Cancel
<1>6. ASSUME NEW j \in Jobs, Answer(j) \/ Waited(j) PROVE KillsKept'
  <2>1. phase[j] # "killing" /\ phase' = [phase EXCEPT ![j] = "idle"]
         /\ UNCHANGED <<mode, kills, flagged>>
    BY <1>6 DEF Answer, Waited, Return
  <2>. QED BY <1>1, <2>1 DEF TypeOK
<1>7. ASSUME NEW j \in Jobs, Create(j) \/ Block(j) \/ Remove(j) PROVE KillsKept'
  BY <1>1, <1>7 DEF Create, Block, Remove
<1>8. ASSUME NEW n \in Names, NEW code \in Codes \ {"taken"}, Exit(n, code) PROVE KillsKept'
  BY <1>1, <1>8 DEF Exit
<1>9. ASSUME NEW k \in kills, Kill(k) PROVE KillsKept'
  BY <1>1, <1>9 DEF Kill
<1>10. CASE Terminating \/ UNCHANGED vars
  BY <1>1, <1>10 DEF Terminating, vars
<1>. QED
  BY <1>2, <1>3, <1>4, <1>5, <1>6, <1>7, <1>8, <1>9, <1>10 DEF Next

LEMMA RunsOpenStep == TypeOK /\ RunsOpen /\ [Next]_vars => RunsOpen'
<1>. SUFFICES ASSUME TypeOK, RunsOpen, [Next]_vars PROVE RunsOpen'
  OBVIOUS
<1>1. ASSUME NEW j \in Jobs, NEW m \in Modes, Begin(j, m) PROVE RunsOpen'
  BY <1>1 DEF TypeOK, RunsOpen, Begin
<1>2. ASSUME NEW j \in Jobs, Answer(j) \/ Waited(j) PROVE RunsOpen'
  BY <1>2 DEF TypeOK, RunsOpen, Answer, Waited, Return
<1>3. ASSUME NEW j \in Jobs, Timeout(j) \/ Killed(j) PROVE RunsOpen'
  BY <1>3 DEF TypeOK, RunsOpen, Timeout, Killed
<1>4. ASSUME UNCHANGED <<phase, outcome>> PROVE RunsOpen'
  BY <1>4 DEF RunsOpen
<1>5. \/ \E j \in Jobs : (\E m \in Modes : Begin(j, m)) \/ Answer(j) \/ Waited(j)
                        \/ Timeout(j) \/ Killed(j)
      \/ UNCHANGED <<phase, outcome>>
  BY DEF Next, vars, Create, Block, Remove, Cancel, Exit, Kill, Terminating
<1>. QED BY <1>1, <1>2, <1>3, <1>4, <1>5

LEMMA OwnVerdictsStep == TypeOK /\ Attached /\ VerdictInv /\ [Next]_vars => OwnVerdicts'
<1>. SUFFICES ASSUME TypeOK, Attached, VerdictInv, [Next]_vars PROVE OwnVerdicts'
  OBVIOUS
<1>1. ASSUME killed' \subseteq killed, flagged \subseteq flagged', UNCHANGED mode,
             \A j \in Jobs \ flagged : Answering(j)' => Answering(j) \/ Name(j) \notin killed'
      PROVE  OwnVerdicts'
  BY <1>1 DEF OwnVerdicts, VerdictInv
<1>2. ASSUME NEW j \in Jobs, NEW m \in Modes, Begin(j, m) PROVE OwnVerdicts'
  <2>1. ~ Answering(j)'
    BY <1>2 DEF Answering, Begin, TypeOK, Verdicts
  <2>2. \A i \in Jobs : i # j => (Answering(i)' <=> Answering(i)) /\ mode'[i] = mode[i]
    BY <1>2 DEF Answering, Begin, TypeOK
  <2>. QED BY <1>2, <2>1, <2>2 DEF OwnVerdicts, VerdictInv, Begin
<1>3. ASSUME NEW j \in Jobs, Create(j) PROVE OwnVerdicts'
  <2>1. Name(j) \in Names /\ ~ Holder(Name(j))
    BY <1>3 DEF TypeOK, Create, Holder
  <2>2. box[Name(j)] = "absent"
    BY <2>1 DEF Attached
  <2>3. killed' = killed \ {Name(j)} /\ \A i \in Jobs : i # j => client'[i] = client[i]
    BY <1>3, <2>2 DEF Create, TypeOK
  <2>. QED BY <1>1, <1>3, <2>3 DEF Create, Answering
<1>4. ASSUME NEW j \in Jobs, Block(j) PROVE OwnVerdicts'
  <2>1. \A i \in Jobs : Answering(i)' => Answering(i)
    BY <1>4 DEF Block, Answering, TypeOK
  <2>. QED BY <1>1, <1>4, <2>1 DEF Block
<1>5. ASSUME NEW j \in Jobs, Remove(j) PROVE OwnVerdicts'
  <2>1. client[j] # "connecting" /\ \A i \in Jobs : i # j => client'[i] = client[i]
    BY <1>5 DEF Remove, TypeOK
  <2>2. \A i \in Jobs : Answering(i)' => Answering(i)
    BY <1>5, <2>1 DEF Remove, Answering
  <2>. QED BY <1>1, <1>5, <2>2 DEF Remove
<1>6. ASSUME NEW j \in Jobs, Answer(j) PROVE OwnVerdicts'
  <2>1. Answering(j) /\ \A i \in Jobs : i # j => phase'[i] = phase[i] /\ outcome'[i] = outcome[i]
    BY <1>6 DEF Answer, Return, Answering, TypeOK
  <2>2. UNCHANGED <<mode, client, flagged, killed>>
    BY <1>6 DEF Answer, Return
  <2>. QED BY <1>1, <2>1, <2>2 DEF Answering
<1>7. ASSUME NEW j \in Jobs, Waited(j) PROVE OwnVerdicts'
  <2>1. \A i \in Jobs : Answering(i)' => Answering(i)
    BY <1>7 DEF Waited, Return, Answering, TypeOK, Verdicts
  <2>. QED BY <1>1, <1>7, <2>1 DEF Waited, Return
<1>8. ASSUME NEW j \in Jobs, Timeout(j) \/ Killed(j) PROVE OwnVerdicts'
  <2>1. \A i \in Jobs : Answering(i)' => Answering(i)
    BY <1>8 DEF Timeout, Killed, Answering, TypeOK
  <2>. QED BY <1>1, <1>8, <2>1 DEF Timeout, Killed
<1>9. ASSUME NEW j \in Jobs, Cancel(j) PROVE OwnVerdicts'
  BY <1>1, <1>9 DEF Cancel, Answering
<1>10. ASSUME NEW n \in Names, NEW code \in Codes \ {"taken"}, Exit(n, code) PROVE OwnVerdicts'
  BY <1>1, <1>10 DEF Exit, Answering
<1>11. ASSUME NEW k \in kills, Kill(k) PROVE OwnVerdicts'
  <2>1. UNCHANGED <<phase, mode, client, flagged, outcome>> /\ killed' \subseteq killed \cup {k.name}
    BY <1>11 DEF Kill
  <2>2. ASSUME NEW j \in Jobs \ flagged, Answering(j), Name(j) = k.name PROVE FALSE
    <3>1. k.name[1] = j
      BY <2>2, NameParts DEF TypeOK
    <3>2. phase[j] = "killing"
      BY <3>1 DEF VerdictInv, KillsKept
    <3>. QED BY <2>2, <3>2 DEF Answering, VerdictInv, RunsOpen, Verdicts
  <2>. QED BY <2>1, <2>2 DEF OwnVerdicts, VerdictInv, Answering
<1>12. CASE Terminating \/ UNCHANGED vars
  BY <1>1, <1>12 DEF Terminating, vars, Answering
<1>. QED
  BY <1>2, <1>3, <1>4, <1>5, <1>6, <1>7, <1>8, <1>9, <1>10, <1>11, <1>12 DEF Next

\* The verdict on a job that was not cancelled is about a container no kill has
\* ended, whatever kills are on their way when (docker_sandbox.py:106-107,131).
THEOREM VerdictsAreOwn == Spec => []VerdictIsOwn
<1>1. Init => TypeOK /\ Attached /\ VerdictInv
  BY DEF Init, TypeOK, Attached, VerdictInv, KillsKept, RunsOpen, OwnVerdicts
<1>2. VerdictInv => VerdictIsOwn
  BY DEF VerdictInv, OwnVerdicts, Answering, Verdicts, VerdictIsOwn
<1>3. TypeOK /\ Attached /\ VerdictInv /\ [Next]_vars => VerdictInv'
  BY KillsKeptStep, RunsOpenStep, OwnVerdictsStep DEF VerdictInv
<1>. QED BY <1>1, <1>2, <1>3, TypeStep, AttachedStep, PTL DEF Spec
=============================================================================
