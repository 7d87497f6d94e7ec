--------------------------- MODULE JobTraceProofs ---------------------------
(***************************************************************************)
(* Theorems about what JobManager tells of a job that is over: its trace,  *)
(* its tries, its escalation, its artifact, and what cancelled it.         *)
(***************************************************************************)
EXTENDS JobManagerProofs

USE DEF LC!JobState, LC!Live, LC!Terminal, LC!NoJob

-----------------------------------------------------------------------------
(***************************************************************************)
(* What the trace of a generate job tells, by where its worker is: of all  *)
(* candidates so far, or of all but the one being tried.  q is the request,*)
(* i the loop index, h the history, out whether the prompt went out.       *)
(***************************************************************************)
Faithful(r, h) ==
  \A n \in 1..Len(r.trace) :
    /\ r.trace[n].source = h[n].source
    /\ r.trace[n].traceback <=> "full" \notin h[n].passed
Told(r, h) == Len(r.trace) = Len(h) /\ Faithful(r, h)

Gate(q) == EscalationPermitted /\ q.allow

\* Where the loop stands, and that every try so far was a local one and failed.
Counted(q, r, i, out) ==
  /\ r.attempt = Len(r.trace)
  /\ \A n \in 1..Len(r.trace) : r.trace[n].traceback /\ ~r.trace[n].escalated
  /\ IF out THEN Gate(q) /\ Len(r.trace) = MaxTries(q) /\ i = q.budget
            ELSE Len(r.trace) = i /\ i < MaxTries(q)

Asking(q, at, r, i, h, out) ==
  /\ Counted(q, r, i, out)
  /\ ~r.escalated /\ (out <=> at = "escalation")
  /\ Told(r, h)

Trying(q, r, i, h, out, last) ==
  /\ Counted(q, r, i, out)
  /\ out <=> r.escalated
  /\ Faithful(r, h) /\ Len(h) = Len(r.trace) + 1 /\ h[Len(h)] = last

\* The try at hand has been added to the trace.
Tried(q, r, i, h, out) ==
  /\ Told(r, h) /\ Len(h) >= 1
  /\ out <=> r.escalated
  /\ r.attempt = i + 1
  /\ \A n \in 1..Len(r.trace) : n < Len(r.trace) => r.trace[n].traceback /\ ~r.trace[n].escalated
  /\ r.trace[Len(r.trace)].escalated <=> out
  /\ IF out THEN Gate(q) /\ Len(r.trace) = MaxTries(q) + 1 /\ i = q.budget
            ELSE Len(r.trace) = i + 1 /\ i < MaxTries(q)

\* The candidate a worker that awaits a container has at hand.
AtHand(c, at) == [source |-> c.source, passed |-> IF at = "full" THEN {"probe"} ELSE {}]

Underway(q, at, r, c, h, out) ==
  IF at \in Modes THEN Trying(q, r, c.index, h, out, AtHand(c, at))
                  ELSE Asking(q, at, r, c.index, h, out)

\* What is left of it in the row once the worker has ended.
Over(q, r, h, out) ==
  /\ Len(h) <= MaxTries(q) + (IF out THEN 1 ELSE 0)
  /\ out => /\ Gate(q) /\ Len(r.trace) >= MaxTries(q)
            /\ \A n \in 1..Len(r.trace) : /\ ~r.trace[n].escalated <=> n <= MaxTries(q)
                                          /\ n <= MaxTries(q) => r.trace[n].traceback
  /\ r.expires => Told(r, h) /\ (q.budget > 0 => r.attempt = Len(r.trace))
  /\ r.state = "SUCCEEDED" => h # <<>> /\ h[Len(h)] = [source |-> r.artifact, passed |-> Modes]

GenerateTold(j) ==
  /\ task[j] = "none" => mem[j] = NewRow
  /\ task[j] # "done" => Underway(req[j], task[j], mem[j], cand[j], history[j], j \in egress)
  /\ task[j] = "done" => Over(req[j], row[j], history[j], j \in egress)

\* A render job makes one try, or none.
Rendered(key) ==
  \E i \in Jobs : \E n \in 1..Len(history[i]) :
    history[i][n].source = key /\ "full" \in history[i][n].passed
RenderTold(j) ==
  /\ j \notin egress
  /\ task[j] = "none" => mem[j] = NewRow
  /\ task[j] # "done" => mem[j].trace = <<>> /\ mem[j].attempt = 0
  /\ task[j] \notin {"full", "done"} => history[j] = <<>>
  /\ task[j] = "full" => history[j] = <<[source |-> cand[j].source, passed |-> {}]>>
  /\ task[j] = "done" /\ row[j].expires => Told(row[j], history[j]) /\ row[j].attempt = Len(row[j].trace)
  /\ row[j].state = "SUCCEEDED" => Rendered(row[j].artifact)

\* Only what some job has rendered is in the store.
StoreTold == \A key \in Sources : store[key] # NoArtifact => Rendered(key)

\* The invariant behind the theorems: where a live worker stands decides what its
\* object, its loop index and its candidates have to do with each other, and what
\* is left of that in the row of a job that is over.
JobTold(j) == IF IsGenerate(j) THEN GenerateTold(j) ELSE RenderTold(j)
TraceInv == (\A j \in Jobs : JobTold(j)) /\ StoreTold

-----------------------------------------------------------------------------
(***************************************************************************)
(* Data only: a try begins, a verdict is noted, the try joins the trace.   *)
(***************************************************************************)
Budgeted(q) == MaxTries(q) \in Nat \ {0} /\ (q.budget > 0 => MaxTries(q) = q.budget)

LEMMA TriesType ==
  ASSUME TypeOK, NEW j \in Jobs, IsGenerate(j)
  PROVE  Budgeted(req[j]) /\ MaxTries(req[j]) \in Nat \ {0} /\ req[j].budget \in Int
<1>1. req[j].budget \in Int
  BY PoolType
<1>. QED BY <1>1 DEF Budgeted, MaxTries

LEMMA TestedTrying ==
  ASSUME NEW q, NEW at, NEW r \in Row, NEW i, NEW h \in Seq(Candidate), NEW out \in BOOLEAN,
         Asking(q, at, r, i, h, out), NEW src \in Sources, NEW r2 \in Row,
         r2.trace = r.trace, r2.attempt = r.attempt, r2.escalated <=> at = "escalation"
  PROVE  Trying(q, r2, i, Append(h, [source |-> src, passed |-> {}]), out,
                [source |-> src, passed |-> {}])
<1>. DEFINE last == [source |-> src, passed |-> {}]
            g == Append(h, last)
<1>0. last \in Candidate
  BY DEF Candidate
<1>. HIDE DEF last
<1>1. /\ Len(h) \in Nat /\ Len(g) = Len(h) + 1 /\ g[Len(h) + 1] = last
      /\ \A n \in 1..Len(h) : g[n] = h[n]
  BY <1>0
<1>. HIDE DEF g
<1>2. Len(r.trace) = Len(h) /\ Faithful(r, h)
  BY DEF Asking, Told
<1>3. Faithful(r2, g)
  BY <1>1, <1>2 DEF Faithful
<1>4. Counted(q, r2, i, out)
  BY DEF Asking, Counted
<1>. QED BY <1>1, <1>2, <1>3, <1>4 DEF Trying, Asking, g, last

LEMMA MarkedTrying ==
  ASSUME NEW q, NEW r \in Row, NEW i, NEW h \in Seq(Candidate), NEW out, NEW src, NEW modes,
         Trying(q, r, i, h, out, [source |-> src, passed |-> modes]), NEW mode
  PROVE  Trying(q, r, i, MarkAt(h, Len(h), mode), out, [source |-> src, passed |-> modes \cup {mode}])
<1>. DEFINE g == MarkAt(h, Len(h), mode)
<1>1. /\ Len(r.trace) \in Nat /\ Len(h) = Len(r.trace) + 1
      /\ h[Len(h)] = [source |-> src, passed |-> modes]
  BY DEF Trying, Row
<1>2. /\ Len(g) = Len(h) /\ g[Len(h)] = [source |-> src, passed |-> modes \cup {mode}]
      /\ \A n \in 1..Len(r.trace) : g[n] = h[n]
  BY <1>1 DEF MarkAt
<1>. HIDE DEF g
<1>3. Faithful(r, g)
  BY <1>2 DEF Trying, Faithful
<1>. QED BY <1>1, <1>2, <1>3 DEF Trying, g

\* s is r with one more try.
Added(s, r, index, src, tb) ==
  /\ s \in Row /\ Len(r.trace) \in Nat /\ Len(s.trace) = Len(r.trace) + 1
  /\ \A n \in 1..Len(r.trace) : s.trace[n] = r.trace[n]
  /\ s.trace[Len(r.trace) + 1].source = src
  /\ s.trace[Len(r.trace) + 1].traceback = tb
  /\ s.trace[Len(r.trace) + 1].escalated = r.escalated
  /\ s.attempt = index + 1 /\ s.escalated = r.escalated /\ s.expires = r.expires

LEMMA AddedAttempt ==
  ASSUME NEW r \in Row, NEW index \in Int, NEW src \in Sources \cup {NoSource}, NEW tb \in BOOLEAN
  PROVE  Added(AddAttempt(r, index, src, tb), r, index, src, tb)
<1>. DEFINE a == [index |-> index, source |-> src, traceback |-> tb, escalated |-> r.escalated]
            t == Append(r.trace, a)
<1>1. a \in Attempt /\ r.trace \in Seq(Attempt)
  BY DEF Attempt, Row
<1>2. a.source = src /\ a.traceback = tb /\ a.escalated = r.escalated
  OBVIOUS
<1>. HIDE DEF a
<1>3. /\ Len(r.trace) \in Nat /\ Len(t) = Len(r.trace) + 1 /\ t[Len(r.trace) + 1] = a
      /\ \A n \in 1..Len(r.trace) : t[n] = r.trace[n]
  BY <1>1
<1>4. AddAttempt(r, index, src, tb) = [r EXCEPT !.attempt = index + 1, !.trace = t]
  BY DEF AddAttempt, a
<1>. HIDE DEF t
<1>5. LET s == AddAttempt(r, index, src, tb) IN
        /\ s.trace = t /\ s.attempt = index + 1 /\ s.escalated = r.escalated
        /\ s.expires = r.expires
  BY <1>4 DEF Row
<1>. QED BY <1>2, <1>3, <1>5, AddAttemptRow DEF Added

\* There is a traceback iff the full render did not pass.
Verdict(tb, c) == tb <=> "full" \notin c.passed

LEMMA AddedTried ==
  ASSUME NEW q, NEW r \in Row, NEW i \in Int, NEW h \in Seq(Candidate), NEW out \in BOOLEAN,
         NEW src \in Sources \cup {NoSource}, NEW last,
         MaxTries(q) \in Nat,
         Trying(q, r, i, h, out, last), last.source = src,
         NEW tb \in BOOLEAN, Verdict(tb, last)
  PROVE  /\ Tried(q, AddAttempt(r, i, src, tb), i, h, out)
         /\ AddAttempt(r, i, src, tb).trace[Len(h)].traceback = tb
         /\ Len(AddAttempt(r, i, src, tb).trace) = Len(h)
<1>. DEFINE s == AddAttempt(r, i, src, tb)
            k == Len(r.trace)
<1>1. /\ s \in Row /\ k \in Nat /\ Len(s.trace) = k + 1
      /\ \A n \in 1..k : s.trace[n] = r.trace[n]
      /\ s.trace[k + 1].source = src /\ s.trace[k + 1].traceback = tb
      /\ s.trace[k + 1].escalated = r.escalated
      /\ s.attempt = i + 1 /\ s.escalated = r.escalated
  <2>1. Added(s, r, i, src, tb)
    BY AddedAttempt
  <2>. QED BY <2>1 DEF Added
<1>2. /\ Counted(q, r, i, out) /\ (out <=> r.escalated) /\ Faithful(r, h) /\ Len(h) = k + 1
      /\ h[k + 1] = last
  BY DEF Trying
<1>. HIDE DEF s, k
<1>3. \A n \in 1..(k + 1) : n \in 1..k \/ n = k + 1
  BY <1>1
<1>4. Faithful(s, h)
  <2>1. \A n \in 1..k : /\ s.trace[n].source = h[n].source
                        /\ s.trace[n].traceback <=> "full" \notin h[n].passed
    BY <1>1, <1>2 DEF Faithful, k
  <2>2. /\ s.trace[k + 1].source = h[k + 1].source
        /\ s.trace[k + 1].traceback <=> "full" \notin h[k + 1].passed
    BY <1>1, <1>2 DEF Verdict
  <2>. QED BY <1>1, <1>3, <2>1, <2>2 DEF Faithful
<1>5. \A n \in 1..Len(s.trace) : n < Len(s.trace) => s.trace[n].traceback /\ ~s.trace[n].escalated
  <2>1. \A n \in 1..k : r.trace[n].traceback /\ ~r.trace[n].escalated
    BY <1>2 DEF Counted, k
  <2>2. \A n \in 1..k : s.trace[n].traceback /\ ~s.trace[n].escalated
    BY <1>1, <2>1
  <2>3. \A n \in 1..(k + 1) : n < k + 1 => n \in 1..k
    BY <1>1
  <2>. QED BY <1>1, <2>2, <2>3
<1>6. IF out THEN Gate(q) /\ k + 1 = MaxTries(q) + 1 /\ i = q.budget
             ELSE k + 1 = i + 1 /\ i < MaxTries(q)
  BY <1>1, <1>2 DEF Counted, k
<1>7. Len(h) >= 1
  BY <1>1, <1>2
<1>8. s.trace[Len(s.trace)].escalated <=> out
  BY <1>1, <1>2
<1>9. Tried(q, s, i, h, out)
  BY <1>1, <1>2, <1>4, <1>5, <1>6, <1>7, <1>8 DEF Tried, Told
<1>10. s.trace[Len(h)].traceback = tb /\ Len(s.trace) = Len(h)
  BY <1>1, <1>2
<1>. QED BY <1>9, <1>10 DEF s

-----------------------------------------------------------------------------
(***************************************************************************)
(* What a worker leaves behind wherever it stops.                          *)
(***************************************************************************)
LEMMA CountedOver ==
  ASSUME NEW q, NEW r \in Row, NEW i \in Int, NEW h \in Seq(Candidate), NEW out \in BOOLEAN,
         MaxTries(q) \in Nat, Counted(q, r, i, out),
         Len(h) = Len(r.trace) \/ Len(h) = Len(r.trace) + 1,
         NEW s \in Row, s.trace = r.trace, ~s.expires, s.state # "SUCCEEDED"
  PROVE  Over(q, s, h, out)
<1>. DEFINE m == MaxTries(q)
            k == Len(r.trace)
<1>1. m \in Nat /\ k \in Nat /\ Len(s.trace) = k
  BY DEF Row
<1>2. \A n \in 1..k : r.trace[n].traceback /\ ~r.trace[n].escalated
  BY DEF Counted
<1>3. IF out THEN Gate(q) /\ k = m ELSE k = i /\ i < m
  BY DEF Counted
<1>. HIDE DEF m, k
<1>4. Len(h) <= m + (IF out THEN 1 ELSE 0)
  BY <1>1, <1>3 DEF k
<1>5. out => \A n \in 1..k : /\ ~s.trace[n].escalated <=> n <= m
                             /\ n <= m => s.trace[n].traceback
  BY <1>1, <1>2, <1>3
<1>6. out => Gate(q) /\ k >= m
  BY <1>1, <1>3
<1>. QED BY <1>1, <1>4, <1>5, <1>6 DEF Over, m

LEMMA UnderwayOver ==
  ASSUME NEW q, NEW at, NEW r \in Row, NEW c, c.index \in Int, NEW h \in Seq(Candidate), NEW out \in BOOLEAN,
         MaxTries(q) \in Nat, Underway(q, at, r, c, h, out),
         NEW s \in Row, s.trace = r.trace, ~s.expires, s.state # "SUCCEEDED"
  PROVE  Over(q, s, h, out)
<1>1. Counted(q, r, c.index, out) /\ (Len(h) = Len(r.trace) \/ Len(h) = Len(r.trace) + 1)
  BY DEF Underway, Trying, Asking, Told
<1>. QED BY <1>1, CountedOver

\* A success names the last candidate, which passed both renders.
Proven(s, h) == s.state = "SUCCEEDED" => h[Len(h)] = [source |-> s.artifact, passed |-> Modes]

LEMMA TriedOver ==
  ASSUME NEW q, NEW r \in Row, NEW i \in Int, NEW h \in Seq(Candidate), NEW out \in BOOLEAN,
         Budgeted(q), Tried(q, r, i, h, out),
         NEW s \in Row, s.trace = r.trace, s.attempt = r.attempt, Proven(s, h)
  PROVE  Over(q, s, h, out)
<1>. DEFINE m == MaxTries(q)
            k == Len(r.trace)
<1>1. /\ m \in Nat \ {0} /\ k \in Nat /\ Len(s.trace) = k /\ Len(h) = k /\ k >= 1
      /\ Told(s, h) /\ r.attempt = i + 1
  BY DEF Row, Tried, Told, Faithful, Budgeted
<1>2. /\ \A n \in 1..k : n < k => r.trace[n].traceback /\ ~r.trace[n].escalated
      /\ r.trace[k].escalated <=> out
  BY DEF Tried
<1>3. IF out THEN Gate(q) /\ k = m + 1 /\ i = q.budget ELSE k = i + 1 /\ i < m
  BY DEF Tried
<1>. HIDE DEF k
<1>4. k <= m + (IF out THEN 1 ELSE 0)
  BY <1>1, <1>3
<1>5. ASSUME out
      PROVE  \A n \in 1..k : /\ ~s.trace[n].escalated <=> n <= m
                             /\ n <= m => s.trace[n].traceback
  <2>. SUFFICES ASSUME NEW n \in 1..k
                PROVE  /\ ~s.trace[n].escalated <=> n <= m
                       /\ n <= m => s.trace[n].traceback
    OBVIOUS
  <2>1. k = m + 1
    BY <1>3, <1>5
  <2>. HIDE DEF m
  <2>2. n < k <=> n <= m
    BY <1>1, <2>1
  <2>3. n < k \/ n = k
    BY <1>1
  <2>. QED BY <1>2, <1>5, <2>1, <2>2, <2>3, <1>1
<1>6. out => Gate(q) /\ k >= m
  BY <1>1, <1>3
<1>7. q.budget > 0 => s.attempt = k
  <2>1. q.budget > 0 => m = q.budget
    BY DEF Budgeted
  <2>. HIDE DEF m
  <2>. QED BY <1>1, <1>3, <2>1
<1>8. h # <<>>
  BY <1>1
<1>. QED BY <1>1, <1>4, <1>5, <1>6, <1>7, <1>8 DEF Over, Proven

LEMMA TriedAgain ==
  ASSUME NEW q, NEW r \in Row, NEW i \in Int, NEW h \in Seq(Candidate), NEW out \in BOOLEAN,
         MaxTries(q) \in Nat \ {0}, Tried(q, r, i, h, out),
         r.trace[Len(r.trace)].traceback, ~r.escalated,
         NEW s \in Row, s.trace = r.trace, s.attempt = r.attempt, s.escalated = r.escalated,
         NEW now \in BOOLEAN
  PROVE  /\ i + 1 < MaxTries(q) /\ ~now => Asking(q, "generator", s, i + 1, h, now)
         /\ ~(i + 1 < MaxTries(q)) /\ Gate(q) /\ now => Asking(q, "escalation", s, q.budget, h, now)
         /\ ~out
<1>. DEFINE m == MaxTries(q)
            k == Len(r.trace)
<1>1. /\ m \in Nat \ {0} /\ k \in Nat /\ Len(s.trace) = k /\ Len(h) = k /\ k >= 1
      /\ Told(s, h) /\ r.attempt = i + 1 /\ ~out /\ ~s.escalated
      /\ k = i + 1 /\ i < m
  BY DEF Row, Tried, Told, Faithful
<1>2. \A n \in 1..k : s.trace[n].traceback /\ ~s.trace[n].escalated
  <2>1. \A n \in 1..k : n < k => r.trace[n].traceback /\ ~r.trace[n].escalated
    BY DEF Tried
  <2>2. ~r.trace[k].escalated /\ r.trace[k].traceback
    BY <1>1 DEF Tried
  <2>3. \A n \in 1..k : n < k \/ n = k
    BY <1>1
  <2>. QED BY <2>1, <2>2, <2>3
<1>. HIDE DEF m, k
<1>3. s.attempt = k
  BY <1>1
<1>4. ASSUME i + 1 < m, ~now PROVE Asking(q, "generator", s, i + 1, h, now)
  <2>1. Counted(q, s, i + 1, now)
    BY <1>1, <1>2, <1>3, <1>4 DEF Counted, m
  <2>. QED BY <1>1, <1>4, <2>1 DEF Asking
<1>5. ASSUME ~(i + 1 < m), Gate(q), now PROVE Asking(q, "escalation", s, q.budget, h, now)
  <2>1. k = m
    BY <1>1, <1>5
  <2>2. Counted(q, s, q.budget, now)
    BY <1>1, <1>2, <1>3, <1>5, <2>1 DEF Counted, m
  <2>. QED BY <1>1, <1>5, <2>2 DEF Asking
<1>. QED BY <1>1, <1>4, <1>5 DEF m

-----------------------------------------------------------------------------
(***************************************************************************)
(* The handlers of a generate job.                                         *)
(***************************************************************************)
\* The worker of j stops at `at` with object r, or ends with row r.
Stops(j, at, r) == task'[j] = at /\ mem'[j] = r
Ends(j, r) == task'[j] = "done" /\ row'[j] = r

LEMMA StopsOrEnds ==
  ASSUME TypeOK, NEW j \in Jobs, NEW r
  PROVE  /\ Finish(j, r) => Ends(j, r)
         /\ Guard(j) => Ends(j, Guarded(row[j]))
         /\ \A at : Save(j, r) /\ Suspend(j, at) => Stops(j, at, r)
BY DEF TypeOK, Finish, Save, End, Guard, Suspend, Stops, Ends

LEMMA EndsTold ==
  ASSUME NEW j \in Jobs, NEW r, Ends(j, r), UNCHANGED req,
         Over(req[j], r, history'[j], j \in egress')
  PROVE  GenerateTold(j)'
BY DEF GenerateTold, Ends

LEMMA StopsTold ==
  ASSUME NEW j \in Jobs, NEW at \in Awaits, NEW r, Stops(j, at, r), UNCHANGED req,
         Underway(req[j], at, r, cand'[j], history'[j], j \in egress')
  PROVE  GenerateTold(j)'
<1>1. at \notin {"none", "done"}
  BY DEF Awaits, Modes
<1>. QED BY <1>1 DEF GenerateTold, Stops

\* Edits of a row that leave its trace alone.
LEMMA SameTrace ==
  ASSUME NEW r \in Row
  PROVE  /\ \A s \in LC!JobState :
              /\ To(r, s) \in Row /\ To(r, s).trace = r.trace /\ To(r, s).attempt = r.attempt
              /\ To(r, s).escalated = r.escalated /\ To(r, s).expires = r.expires
              /\ To(r, s).state = s
         /\ Failed(r) \in Row /\ Failed(r).trace = r.trace /\ Failed(r).attempt = r.attempt
         /\ Failed(r).state = "FAILED"
         /\ \A key \in Sources \cup {NoSource} :
              /\ Succeeded(r, key) \in Row /\ Succeeded(r, key).trace = r.trace
              /\ Succeeded(r, key).attempt = r.attempt /\ Succeeded(r, key).artifact = key
              /\ Succeeded(r, key).expires /\ Succeeded(r, key).state = "SUCCEEDED"
         /\ Guarded(r) \in Row /\ Guarded(r).trace = r.trace /\ Guarded(r).attempt = r.attempt
         /\ Guarded(r).expires = r.expires
         /\ r.state \notin LC!Terminal => Guarded(r).state = "FAILED"
<1>1. \A s \in LC!JobState :
              /\ To(r, s) \in Row /\ To(r, s).trace = r.trace /\ To(r, s).attempt = r.attempt
              /\ To(r, s).escalated = r.escalated /\ To(r, s).expires = r.expires
              /\ To(r, s).state = s
  BY DEF To, Row
<1>2. /\ Failed(r) \in Row /\ Failed(r).trace = r.trace /\ Failed(r).attempt = r.attempt
      /\ Failed(r).state = "FAILED"
  BY DEF Failed, To, Row
<1>3. \A key \in Sources \cup {NoSource} :
              /\ Succeeded(r, key) \in Row /\ Succeeded(r, key).trace = r.trace
              /\ Succeeded(r, key).attempt = r.attempt /\ Succeeded(r, key).artifact = key
              /\ Succeeded(r, key).expires /\ Succeeded(r, key).state = "SUCCEEDED"
  BY DEF Succeeded, To, Row
<1>4. /\ Guarded(r) \in Row /\ Guarded(r).trace = r.trace /\ Guarded(r).attempt = r.attempt
      /\ Guarded(r).expires = r.expires
      /\ r.state \notin LC!Terminal => Guarded(r).state = "FAILED"
  BY DEF Guarded, To, Row
<1>. QED BY <1>1, <1>2, <1>3, <1>4

LEMMA RetryTold ==
  ASSUME TypeOK, NEW j \in Jobs, IsGenerate(j), NEW r \in Row, NEW src,
         NEW h \in Seq(Candidate), history'[j] = h,
         Tried(req[j], r, cand[j].index, h, j \in egress), r.trace[Len(r.trace)].traceback,
         Retry(j, r, src), UNCHANGED req
  PROVE  GenerateTold(j)'
<1>. DEFINE q == req[j]
            i == cand[j].index
            out == j \in egress
            now == j \in egress'
            g == To(r, "GENERATING")
<1>0. /\ i \in Int /\ out \in BOOLEAN /\ now \in BOOLEAN
      /\ Budgeted(q) /\ MaxTries(q) \in Nat \ {0}
      /\ cand[j] \in [index : Int, source : Sources \cup {NoSource}]
      /\ cand \in [Jobs -> [index : Int, source : Sources \cup {NoSource}]]
      /\ egress \in SUBSET Jobs
  BY TriesType DEF TypeOK
<1>1. g \in Row /\ g.trace = r.trace /\ g.attempt = r.attempt /\ g.escalated = r.escalated
  BY SameTrace
<1>a. Tried(q, r, i, h, out)
  OBVIOUS
<1>2. "generator" \in Awaits \ Modes /\ "escalation" \in Awaits \ Modes
  BY DEF Awaits, Modes
<1>3. CASE Finish(j, To(r, "CANCELLED")) /\ UNCHANGED <<cand, egress>>
  <2>1. Ends(j, To(r, "CANCELLED"))
    BY <1>3, StopsOrEnds
  <2>. DEFINE s == To(r, "CANCELLED")
  <2>2. s \in Row /\ s.trace = r.trace /\ s.attempt = r.attempt /\ Proven(s, h)
    BY SameTrace DEF Proven
  <2>3. Over(q, s, h, out)
    <3>. HIDE DEF q, i, out, s
    <3>. QED BY <1>0, <1>a, <2>2, TriedOver
  <2>. QED BY <1>3, <2>1, <2>3, EndsTold
<1>4. CASE Finish(j, Failed(r)) /\ UNCHANGED <<cand, egress>>
  <2>1. Ends(j, Failed(r))
    BY <1>4, StopsOrEnds
  <2>. DEFINE s == Failed(r)
  <2>2. s \in Row /\ s.trace = r.trace /\ s.attempt = r.attempt /\ Proven(s, h)
    BY SameTrace DEF Proven
  <2>3. Over(q, s, h, out)
    <3>. HIDE DEF q, i, out, s
    <3>. QED BY <1>0, <1>a, <2>2, TriedOver
  <2>. QED BY <1>4, <2>1, <2>3, EndsTold
<1>5. CASE /\ ~r.escalated /\ i + 1 < MaxTries(q)
           /\ Save(j, g) /\ Suspend(j, "generator")
           /\ cand' = [cand EXCEPT ![j] = [index |-> cand[j].index + 1, source |-> src]]
           /\ UNCHANGED egress
  <2>1. Stops(j, "generator", g)
    BY <1>5, StopsOrEnds
  <2>2. cand'[j].index = i + 1
    BY <1>0, <1>5
  <2>3. ~out
    BY <1>0, <1>1, <1>5, TriedAgain
  <2>4. ~now
    BY <1>5, <2>3
  <2>5. Asking(q, "generator", g, i + 1, h, now)
    <3>. HIDE DEF now, g, q, i, out
    <3>. QED BY <1>0, <1>1, <1>a, <1>5, <2>4, TriedAgain
  <2>6. Underway(q, "generator", g, cand'[j], h, now)
    BY <1>2, <2>2, <2>5 DEF Underway
  <2>. QED BY <1>2, <2>1, <2>6, StopsTold
<1>6. CASE /\ ~r.escalated /\ ~(i + 1 < MaxTries(q)) /\ Gate(q)
           /\ Save(j, g) /\ Suspend(j, "escalation")
           /\ cand' = [cand EXCEPT ![j] = [index |-> req[j].budget, source |-> src]]
           /\ egress' = egress \cup {j}
  <2>1. Stops(j, "escalation", g)
    BY <1>6, StopsOrEnds
  <2>2. cand'[j].index = q.budget
    BY <1>0, <1>6
  <2>4. now
    BY <1>6
  <2>5. Asking(q, "escalation", g, q.budget, h, now)
    <3>. HIDE DEF now, g, q, i, out
    <3>. QED BY <1>0, <1>1, <1>a, <1>6, <2>4, TriedAgain
  <2>6. Underway(q, "escalation", g, cand'[j], h, now)
    BY <1>2, <2>2, <2>5 DEF Underway
  <2>. QED BY <1>2, <2>1, <2>6, StopsTold
<1>. QED BY <1>3, <1>4, <1>5, <1>6 DEF Retry, ShouldEscalate, Gate

\* Only the trace, the attempt count and the flag of an object matter.
LEMMA SameUnderway ==
  ASSUME NEW q, NEW r, NEW i, NEW h, NEW out,
         NEW s, s.trace = r.trace, s.attempt = r.attempt, s.escalated = r.escalated
  PROVE  /\ \A last : Trying(q, r, i, h, out, last) => Trying(q, s, i, h, out, last)
         /\ \A at, to : Asking(q, at, r, i, h, out) /\ at # "escalation" /\ to # "escalation"
                          => Asking(q, to, s, i, h, out)
BY DEF Trying, Asking, Counted, Faithful, Told

\* A worker that is under way and ends without a verdict.
LEMMA CutShort ==
  ASSUME TypeOK, NEW j \in Jobs, IsGenerate(j), UNCHANGED req,
         NEW r \in Row, NEW h \in Seq(Candidate), history'[j] = h,
         Counted(req[j], r, cand[j].index, j \in egress),
         Len(h) = Len(r.trace) \/ Len(h) = Len(r.trace) + 1,
         NEW s \in Row, s.trace = r.trace, ~s.expires, s.state # "SUCCEEDED",
         Ends(j, s), (j \in egress') <=> (j \in egress)
  PROVE  GenerateTold(j)'
<1>. DEFINE q == req[j]
            i == cand[j].index
            out == j \in egress
<1>1. /\ MaxTries(q) \in Nat /\ i \in Int /\ out \in BOOLEAN /\ Counted(q, r, i, out)
  BY TriesType DEF TypeOK
<1>2. Over(q, s, h, out)
  <2>. HIDE DEF q, i, out
  <2>. QED BY <1>1, CountedOver
<1>3. Over(q, s, h, j \in egress')
  BY <1>2
<1>. QED BY <1>3, EndsTold

LEMMA StartTold ==
  ASSUME TypeOK, NEW j \in Jobs, IsGenerate(j), UNCHANGED req,
         NEW r0 \in Row, NEW r \in Row, r.trace = r0.trace, r.attempt = r0.attempt, ~r.expires,
         NEW at, r.escalated <=> at = "escalation",
         Asking(req[j], at, r0, cand[j].index, history[j], j \in egress),
         NEW src \in Sources, StartCandidate(j, r, src)
  PROVE  GenerateTold(j)'
<1>. DEFINE q == req[j]
            i == cand[j].index
            out == j \in egress
            last == [source |-> src, passed |-> {}]
            h == Append(history[j], last)
<1>0. /\ i \in Int /\ out \in BOOLEAN /\ MaxTries(q) \in Nat /\ history[j] \in Seq(Candidate)
      /\ cand \in [Jobs -> [index : Int, source : Sources \cup {NoSource}]]
  BY TriesType DEF TypeOK
<1>5. last \in Candidate /\ Asking(q, at, r0, i, history[j], out)
  BY DEF Candidate
<1>1. history'[j] = h /\ h \in Seq(Candidate)
  BY <1>0, <1>5 DEF StartCandidate, Tested, TypeOK
<1>2. Trying(q, r, i, h, out, last)
  <2>. HIDE DEF q, i, out
  <2>. QED BY <1>0, <1>5, TestedTrying
<1>. HIDE DEF h
<1>3. CASE src \notin Accepted
  <2>. DEFINE s == AddAttempt(r, i, src, TRUE)
  <2>1. /\ Tried(q, s, i, h, out) /\ s.trace[Len(h)].traceback = TRUE /\ Len(s.trace) = Len(h)
    <3>1. src \in Sources \cup {NoSource} /\ last.source = src /\ "full" \notin last.passed
      OBVIOUS
    <3>2. ASSUME NEW tb \in BOOLEAN, tb
          PROVE  /\ Tried(q, AddAttempt(r, i, src, tb), i, h, out)
                 /\ AddAttempt(r, i, src, tb).trace[Len(h)].traceback = tb
                 /\ Len(AddAttempt(r, i, src, tb).trace) = Len(h)
      <4>. HIDE DEF q, i, out, last
      <4>1. Verdict(tb, last)
        BY <3>1, <3>2 DEF Verdict
      <4>. QED BY <1>0, <1>1, <1>2, <3>1, <4>1, AddedTried
    <3>. QED BY <3>2
  <2>2. s \in Row /\ s.trace[Len(s.trace)].traceback
    BY <1>0, <2>1, AddAttemptRow
  <2>3. Retry(j, s, src)
    BY <1>3 DEF StartCandidate
  <2>. HIDE DEF s
  <2>. QED BY <1>1, <2>1, <2>2, <2>3, RetryTold
<1>4. CASE src \in Accepted
  <2>1. /\ cand' = [cand EXCEPT ![j].source = src] /\ egress' = egress
        /\ \/ Finish(j, To(r, "CANCELLED"))
           \/ Save(j, To(r, "RENDERING")) /\ Suspend(j, "probe")
    BY <1>4 DEF StartCandidate
  <2>2. cand'[j].source = src /\ cand'[j].index = i
    BY <1>0, <2>1
  <2>3. CASE Finish(j, To(r, "CANCELLED"))
    <3>. DEFINE s == To(r, "CANCELLED")
    <3>1. s \in Row /\ s.trace = r.trace /\ ~s.expires /\ s.state # "SUCCEEDED"
      BY SameTrace
    <3>2. Ends(j, s)
      BY <2>3, StopsOrEnds
    <3>3. Counted(q, r, i, out) /\ Len(h) = Len(r.trace) + 1
      BY <1>2 DEF Trying
    <3>. HIDE DEF s
    <3>. QED BY <1>1, <2>1, <3>1, <3>2, <3>3, CutShort
  <2>4. CASE Save(j, To(r, "RENDERING")) /\ Suspend(j, "probe")
    <3>. DEFINE s == To(r, "RENDERING")
    <3>1. s.trace = r.trace /\ s.attempt = r.attempt /\ s.escalated = r.escalated
      BY SameTrace
    <3>2. Stops(j, "probe", s)
      BY <2>4, StopsOrEnds
    <3>3. Trying(q, s, i, h, out, last)
      BY <1>2, <3>1, SameUnderway
    <3>4. AtHand(cand'[j], "probe") = last
      BY <2>2 DEF AtHand
    <3>5. "probe" \in Modes /\ "probe" \in Awaits
      BY DEF Modes, Awaits
    <3>6. Underway(q, "probe", s, cand'[j], h, out)
      BY <2>2, <3>3, <3>4, <3>5 DEF Underway
    <3>7. Underway(q, "probe", s, cand'[j], history'[j], j \in egress')
      BY <1>1, <2>1, <3>6
    <3>. QED BY <3>2, <3>5, <3>7, StopsTold
  <2>. QED BY <2>1, <2>3, <2>4
<1>. QED BY <1>3, <1>4

LEMMA UnderwayParts ==
  ASSUME NEW q, NEW at, NEW r \in Row, NEW c, NEW h, NEW out, Underway(q, at, r, c, h, out)
  PROVE  /\ Counted(q, r, c.index, out)
         /\ Len(h) = Len(r.trace) \/ Len(h) = Len(r.trace) + 1
         /\ at \in Modes => Trying(q, r, c.index, h, out, AtHand(c, at))
         /\ at \notin Modes => Asking(q, at, r, c.index, h, out)
BY DEF Underway, Trying, Asking, Told

\* The flag is set for an instant before the escalated source is looked at.
LEMMA FlaggedRow ==
  ASSUME NEW r \in Row
  PROVE  LET s == [r EXCEPT !.escalated = TRUE] IN
         s \in Row /\ s.trace = r.trace /\ s.attempt = r.attempt /\ s.escalated /\ s.expires = r.expires
BY DEF Row

LEMMA ProbedTold ==
  ASSUME IInv, NEW j \in Jobs, IsGenerate(j), UNCHANGED req, Probed(j),
         Underway(req[j], task[j], mem[j], cand[j], history[j], j \in egress)
  PROVE  GenerateTold(j)'
<1>. DEFINE q == req[j]
            i == cand[j].index
            r == mem[j]
            src == cand[j].source
            h == history[j]
            out == j \in egress
            last == AtHand(cand[j], "probe")
<1>0. TypeOK
  BY DEF IInv
<1>1. /\ r \in Row /\ h \in Seq(Candidate) /\ i \in Int /\ src \in Sources \cup {NoSource}
      /\ out \in BOOLEAN /\ MaxTries(q) \in Nat
      /\ cand[j] \in [index : Int, source : Sources \cup {NoSource}]
      /\ history \in [Jobs -> Seq(Candidate)]
  BY <1>0, TriesType DEF TypeOK
<1>2. task[j] = "probe" /\ "probe" \in Modes /\ "probe" \in Awaits /\ "full" \in Modes /\ "full" \in Awaits
  BY DEF Probed, Modes, Awaits
<1>3. ~r.expires /\ row[j] = r
  BY <1>2, LiveObject DEF Unfinished
<1>4. Trying(q, r, i, h, out, last)
  BY <1>1, <1>2, UnderwayParts
<1>5. last.source = src /\ last.passed = {} /\ last = [source |-> src, passed |-> {}]
  BY DEF AtHand
<1>6. CASE Retry(j, AddAttempt(r, i, src, TRUE), src) /\ UNCHANGED history
  <2>. DEFINE s == AddAttempt(r, i, src, TRUE)
  <2>1. ASSUME NEW tb \in BOOLEAN, tb
        PROVE  /\ Tried(q, AddAttempt(r, i, src, tb), i, h, out)
               /\ AddAttempt(r, i, src, tb).trace[Len(h)].traceback = tb
               /\ Len(AddAttempt(r, i, src, tb).trace) = Len(h)
    <3>1. Verdict(tb, last)
      BY <1>5, <2>1 DEF Verdict
    <3>2. /\ r \in Row /\ h \in Seq(Candidate) /\ i \in Int /\ src \in Sources \cup {NoSource}
          /\ out \in BOOLEAN /\ MaxTries(q) \in Nat /\ last.source = src
          /\ Trying(q, r, i, h, out, last)
      BY <1>1, <1>4, <1>5
    <3>. HIDE DEF q, i, out, last, h, r, src, s
    <3>. QED BY <3>1, <3>2, AddedTried, Z3
  <2>2. s \in Row
    BY <1>1, AddAttemptRow
  <2>3. Tried(q, s, i, h, out) /\ s.trace[Len(s.trace)].traceback
    BY <2>1
  <2>4. history'[j] = h
    BY <1>6
  <2>. HIDE DEF s
  <2>5. Retry(j, s, src)
    BY <1>6 DEF s
  <2>. QED BY <1>0, <1>1, <2>2, <2>3, <2>4, <2>5, RetryTold
<1>7. CASE /\ Passed(j, "probe")
           /\ UNCHANGED <<cand, egress>>
           /\ \/ Finish(j, To(r, "CANCELLED"))
              \/ Suspend(j, "full") /\ UNCHANGED <<mem, row>>
  <2>. DEFINE g == MarkAt(h, Len(h), "probe")
              now == [source |-> src, passed |-> {} \cup {"probe"}]
  <2>1. g \in Seq(Candidate) /\ history'[j] = g
    BY <1>1, <1>2, <1>7, MarkedHistory DEF Passed
  <2>2. Trying(q, r, i, g, out, now)
    <3>. HIDE DEF q, i, out, h, r, src
    <3>. QED BY <1>1, <1>4, <1>5, MarkedTrying
  <2>. HIDE DEF g
  <2>3. CASE Finish(j, To(r, "CANCELLED"))
    <3>. DEFINE s == To(r, "CANCELLED")
    <3>1. s \in Row /\ s.trace = r.trace /\ ~s.expires /\ s.state # "SUCCEEDED"
      BY <1>1, <1>3, SameTrace
    <3>2. Ends(j, s)
      BY <1>0, <2>3, StopsOrEnds
    <3>3. Counted(q, r, i, out) /\ Len(g) = Len(r.trace) + 1
      BY <2>2 DEF Trying
    <3>. HIDE DEF s
    <3>. QED BY <1>0, <1>1, <1>7, <2>1, <3>1, <3>2, <3>3, CutShort
  <2>4. CASE Suspend(j, "full") /\ UNCHANGED <<mem, row>>
    <3>1. Save(j, r)
      BY <1>0, <1>3, <2>4, SaveUnchanged
    <3>2. Stops(j, "full", r)
      BY <1>0, <2>4, <3>1, StopsOrEnds
    <3>3. cand'[j] = cand[j] /\ ((j \in egress') <=> (j \in egress))
      BY <1>7
    <3>4. AtHand(cand'[j], "full") = now
      BY <3>3 DEF AtHand
    <3>5. Underway(q, "full", r, cand'[j], g, out)
      BY <1>2, <2>2, <3>3, <3>4 DEF Underway
    <3>6. Underway(q, "full", r, cand'[j], history'[j], j \in egress')
      BY <2>1, <3>3, <3>5
    <3>. QED BY <1>2, <3>2, <3>6, StopsTold
  <2>. QED BY <1>7, <2>3, <2>4
<1>. QED BY <1>6, <1>7 DEF Probed

LEMMA EndGenerateTold ==
  ASSUME IInv, NEW j \in Jobs, IsGenerate(j), UNCHANGED req, EndGenerate(j),
         Underway(req[j], task[j], mem[j], cand[j], history[j], j \in egress)
  PROVE  GenerateTold(j)'
<1>. DEFINE q == req[j]
            i == cand[j].index
            r == mem[j]
            src == cand[j].source
            h == history[j]
            out == j \in egress
            last == AtHand(cand[j], "full")
<1>0. TypeOK
  BY DEF IInv
<1>1. /\ r \in Row /\ h \in Seq(Candidate) /\ i \in Int /\ src \in Sources \cup {NoSource}
      /\ out \in BOOLEAN /\ MaxTries(q) \in Nat /\ Budgeted(q)
      /\ history \in [Jobs -> Seq(Candidate)]
  BY <1>0, TriesType DEF TypeOK
<1>2. task[j] = "full" /\ "full" \in Modes
  BY DEF EndGenerate, Modes
<1>3. ~r.expires
  BY <1>2, LiveObject DEF Unfinished, Awaits
<1>4. Trying(q, r, i, h, out, last)
  BY <1>1, <1>2, UnderwayParts
<1>5. last.source = src /\ last.passed = {"probe"} /\ last = [source |-> src, passed |-> {"probe"}]
  BY DEF AtHand
<1>6. PICK ok \in BOOLEAN :
        LET s == AddAttempt(r, i, src, ~ok)
        IN /\ IF ok THEN Passed(j, "full") ELSE history' = history
           /\ \/ Finish(j, To(s, "CANCELLED")) /\ UNCHANGED <<cand, egress>>
              \/ ok /\ Finish(j, Succeeded(s, src)) /\ UNCHANGED <<cand, egress>>
              \/ ~ok /\ Retry(j, s, src)
  BY DEF EndGenerate
<1>. DEFINE g == IF ok THEN MarkAt(h, Len(h), "full") ELSE h
            now == [source |-> src, passed |-> IF ok THEN Modes ELSE {"probe"}]
            s == AddAttempt(r, i, src, ~ok)
<1>7. g \in Seq(Candidate) /\ history'[j] = g
  <2>1. CASE ok
    BY <1>1, <1>2, <1>6, <2>1, MarkedHistory DEF Passed
  <2>2. CASE ~ok
    BY <1>1, <1>6, <2>2
  <2>. QED BY <2>1, <2>2
<1>8. Trying(q, r, i, g, out, now)
  <2>1. CASE ok
    <3>1. Trying(q, r, i, MarkAt(h, Len(h), "full"), out,
                 [source |-> src, passed |-> {"probe"} \cup {"full"}])
      <4>. HIDE DEF q, i, out, h, r, src
      <4>. QED BY <1>1, <1>4, <1>5, MarkedTrying
    <3>2. {"probe"} \cup {"full"} = Modes
      BY DEF Modes
    <3>. QED BY <2>1, <3>1, <3>2
  <2>2. CASE ~ok
    BY <1>4, <1>5, <2>2
  <2>. QED BY <2>1, <2>2
<1>. HIDE DEF g
<1>9. Tried(q, s, i, g, out) /\ s.trace[Len(g)].traceback = ~ok /\ Len(s.trace) = Len(g) /\ s \in Row
  <2>1. ASSUME NEW tb \in BOOLEAN, tb = ~ok
        PROVE  /\ Tried(q, AddAttempt(r, i, src, tb), i, g, out)
               /\ AddAttempt(r, i, src, tb).trace[Len(g)].traceback = tb
               /\ Len(AddAttempt(r, i, src, tb).trace) = Len(g)
    <3>1. Verdict(tb, now) /\ now.source = src
      BY <2>1 DEF Verdict, Modes
    <3>. HIDE DEF q, i, out, now, h, r, src
    <3>. QED BY <1>1, <1>7, <1>8, <3>1, AddedTried
  <2>2. AddAttempt(r, i, src, ~ok) \in Row
    BY <1>1, AddAttemptRow
  <2>. QED BY <2>1, <2>2
<1>. HIDE DEF s
<1>10. ASSUME NEW e \in Row, e.trace = s.trace, e.attempt = s.attempt, Ends(j, e),
              Proven(e, g), UNCHANGED <<cand, egress>>
       PROVE  GenerateTold(j)'
  <2>1. Over(q, e, g, out)
    <3>. HIDE DEF q, i, out, h, r, src
    <3>. QED BY <1>1, <1>7, <1>9, <1>10, TriedOver
  <2>2. Over(q, e, history'[j], j \in egress')
    BY <1>7, <1>10, <2>1
  <2>. QED BY <1>10, <2>2, EndsTold
<1>11. CASE Finish(j, To(s, "CANCELLED")) /\ UNCHANGED <<cand, egress>>
  <2>. DEFINE e == To(s, "CANCELLED")
  <2>1. e \in Row /\ e.trace = s.trace /\ e.attempt = s.attempt /\ Proven(e, g)
    BY <1>9, SameTrace DEF Proven
  <2>2. Ends(j, e)
    BY <1>0, <1>11, StopsOrEnds
  <2>. HIDE DEF e
  <2>. QED BY <1>10, <1>11, <2>1, <2>2
<1>12. CASE ok /\ Finish(j, Succeeded(s, src)) /\ UNCHANGED <<cand, egress>>
  <2>. DEFINE e == Succeeded(s, src)
  <2>1. e \in Row /\ e.trace = s.trace /\ e.attempt = s.attempt /\ e.artifact = src
    BY <1>1, <1>9, SameTrace
  <2>2. Ends(j, e)
    BY <1>0, <1>12, StopsOrEnds
  <2>3. Proven(e, g)
    <3>1. g[Len(g)] = now
      BY <1>8 DEF Trying
    <3>. QED BY <1>12, <2>1, <3>1 DEF Proven
  <2>. HIDE DEF e
  <2>. QED BY <1>10, <1>12, <2>1, <2>2, <2>3
<1>13. CASE ~ok /\ Retry(j, s, src)
  <2>1. s.trace[Len(s.trace)].traceback
    BY <1>9, <1>13
  <2>. QED BY <1>0, <1>7, <1>9, <1>13, <2>1, RetryTold
<1>. QED BY <1>6, <1>11, <1>12, <1>13 DEF s

LEMMA BeganTold ==
  ASSUME IInv, NEW j \in Jobs, IsGenerate(j), UNCHANGED req, BeginGenerate(j) \/ Grounded(j),
         Underway(req[j], task[j], mem[j], cand[j], history[j], j \in egress)
  PROVE  GenerateTold(j)'
<1>. DEFINE q == req[j]
            i == cand[j].index
            r == mem[j]
            h == history[j]
            out == j \in egress
<1>0. TypeOK
  BY DEF IInv
<1>1. task[j] \in {"queued", "grounding"}
  BY DEF BeginGenerate, Grounded, Admission
<1>2. /\ task[j] \in Awaits \cup {"queued"} /\ task[j] \notin Modes
      /\ "grounding" \in Awaits \ Modes /\ "generator" \in Awaits \ Modes
  BY <1>1 DEF Awaits, Modes
<1>3. r \in Row /\ ~r.expires /\ row[j] = r
  BY <1>2, LiveObject DEF Unfinished
<1>4. Asking(q, task[j], r, i, h, out)
  BY <1>2 DEF Underway
<1>5. /\ h \in Seq(Candidate) /\ history'[j] = h /\ cand'[j] = cand[j]
      /\ (j \in egress') <=> (j \in egress)
  BY <1>0 DEF BeginGenerate, Grounded, TypeOK
<1>6. CASE Finish(j, To(r, "CANCELLED"))
  <2>. DEFINE s == To(r, "CANCELLED")
  <2>1. s \in Row /\ s.trace = r.trace /\ ~s.expires /\ s.state # "SUCCEEDED"
    BY <1>3, SameTrace
  <2>2. Ends(j, s)
    BY <1>0, <1>6, StopsOrEnds
  <2>3. Counted(q, r, i, out) /\ Len(h) = Len(r.trace)
    BY <1>4 DEF Asking, Told
  <2>. HIDE DEF s
  <2>. QED BY <1>0, <1>3, <1>5, <2>1, <2>2, <2>3, CutShort
<1>7. ASSUME NEW at \in {"grounding", "generator"}, NEW s, Save(j, s), Suspend(j, at),
             s.trace = r.trace, s.attempt = r.attempt, s.escalated = r.escalated
      PROVE  GenerateTold(j)'
  <2>1. Stops(j, at, s)
    BY <1>0, <1>7, StopsOrEnds
  <2>2. Asking(q, at, s, i, h, out)
    BY <1>1, <1>4, <1>7, SameUnderway
  <2>3. Underway(q, at, s, cand'[j], history'[j], j \in egress')
    BY <1>2, <1>5, <2>2 DEF Underway
  <2>. QED BY <1>2, <2>1, <2>3, StopsTold
<1>8. CASE BeginGenerate(j) /\ Suspend(j, "grounding") /\ UNCHANGED <<mem, row>>
  <2>1. Save(j, r)
    BY <1>0, <1>3, <1>8, SaveUnchanged
  <2>. QED BY <1>7, <1>8, <2>1
<1>9. CASE Grounded(j) /\ Suspend(j, "generator") /\ Save(j, To(r, "GENERATING"))
  BY <1>3, <1>7, <1>9, SameTrace
<1>. QED BY <1>6, <1>8, <1>9 DEF BeginGenerate, Grounded

LEMMA GenerateStepTold ==
  ASSUME IInv, NEW j \in Jobs, GenerateStep(j), GenerateTold(j)
  PROVE  GenerateTold(j)'
<1>. DEFINE r == mem[j]
<1>1. TypeOK /\ IsGenerate(j) /\ UNCHANGED req /\ task[j] \in Awaits \cup {"queued"}
  BY WorkerFrame DEF IInv, GenerateStep
<1>2. Underway(req[j], task[j], mem[j], cand[j], history[j], j \in egress)
  BY <1>1 DEF GenerateTold, Awaits, Modes
<1>3. r \in Row /\ ~r.expires
  BY <1>1, LiveObject DEF Unfinished
<1>4. CASE Generated(j) \/ Escalated(j)
  <2>1. task[j] \in {"generator", "escalation"} /\ task[j] \notin Modes
    BY <1>4 DEF Generated, Escalated, Modes
  <2>2. Asking(req[j], task[j], r, cand[j].index, history[j], j \in egress) /\ ~r.escalated
    BY <1>2, <2>1 DEF Underway, Asking
  <2>3. CASE Generated(j)
    <3>1. task[j] = "generator"
      BY <2>3 DEF Generated
    <3>2. PICK src \in Sources : StartCandidate(j, r, src)
      BY <2>3 DEF Generated
    <3>3. r.escalated <=> task[j] = "escalation"
      BY <2>2, <3>1
    <3>. HIDE DEF r
    <3>. QED BY <1>1, <1>3, <2>2, <3>2, <3>3, StartTold
  <2>4. CASE Escalated(j)
    <3>. DEFINE s == [r EXCEPT !.escalated = TRUE]
    <3>1. task[j] = "escalation"
      BY <2>4 DEF Escalated
    <3>2. PICK src \in Sources : StartCandidate(j, s, src)
      BY <2>4 DEF Escalated
    <3>3. /\ s \in Row /\ s.trace = r.trace /\ s.attempt = r.attempt /\ ~s.expires
          /\ s.escalated <=> task[j] = "escalation"
      BY <1>3, <3>1, FlaggedRow
    <3>. HIDE DEF r, s
    <3>. QED BY <1>1, <1>3, <2>2, <3>2, <3>3, StartTold
  <2>. QED BY <1>4, <2>3, <2>4
<1>. QED BY <1>1, <1>2, <1>4, BeganTold, ProbedTold, EndGenerateTold DEF GenerateStep

LEMMA RaiseTold ==
  ASSUME IInv, NEW j \in Jobs, IsGenerate(j), Raise(j), GenerateTold(j)
  PROVE  GenerateTold(j)'
<1>. DEFINE q == req[j]
            i == cand[j].index
            r == mem[j]
            h == history[j]
            out == j \in egress
            s == Guarded(r)
<1>1. TypeOK /\ UNCHANGED req /\ task[j] \in Awaits \cup {"queued"}
  BY WorkerFrame DEF IInv
<1>2. Underway(q, task[j], r, cand[j], h, out)
  BY <1>1 DEF GenerateTold, Awaits, Modes
<1>3. /\ r \in Row /\ ~r.expires /\ row[j] = r
      /\ r.state \in {"QUEUED", "GENERATING", "RENDERING"}
  BY <1>1, LiveObject DEF Unfinished, StateAt
<1>4. s \in Row /\ s.trace = r.trace /\ ~s.expires /\ s.state # "SUCCEEDED"
  BY <1>3, SameTrace
<1>5. Counted(q, r, i, out) /\ (Len(h) = Len(r.trace) \/ Len(h) = Len(r.trace) + 1)
  BY <1>2, <1>3, UnderwayParts
<1>6. h \in Seq(Candidate) /\ history'[j] = h /\ ((j \in egress') <=> (j \in egress))
  BY <1>1 DEF Raise, TypeOK
<1>7. Ends(j, s)
  BY <1>1, <1>3, StopsOrEnds DEF Raise
<1>. HIDE DEF s
<1>. QED BY <1>1, <1>3, <1>4, <1>5, <1>6, <1>7, CutShort

-----------------------------------------------------------------------------
(***************************************************************************)
(* What a worker step leaves alone: the other jobs, and what the histories *)
(* say already.                                                            *)
(***************************************************************************)
HistoryStep(j) ==
  \/ history' = history
  \/ \E mode \in Modes : Passed(j, mode)
  \/ \E src \in Sources : Tested(j, src)

LEMMA WorkerHistory ==
  ASSUME IInv, NEW j \in Jobs, RenderStep(j) \/ GenerateStep(j) \/ Raise(j)
  PROVE  HistoryStep(j)
<1>1. CASE Raise(j)
  BY <1>1 DEF Raise, HistoryStep
<1>2. CASE RenderStep(j)
  <2>1. req[j].source \in Sources
    BY <1>2, PoolType DEF RenderStep, IInv
  <2>. QED BY <1>2, <2>1 DEF RenderStep, BeginRender, EndRender, HistoryStep, Modes
<1>3. CASE GenerateStep(j)
  <2>1. CASE BeginGenerate(j) \/ Grounded(j)
    BY <2>1 DEF BeginGenerate, Grounded, HistoryStep
  <2>2. CASE Generated(j) \/ Escalated(j)
    BY <2>2 DEF Generated, Escalated, StartCandidate, HistoryStep
  <2>3. CASE Probed(j) \/ EndGenerate(j)
    BY <2>3 DEF Probed, EndGenerate, HistoryStep, Modes
  <2>. QED BY <1>3, <2>1, <2>2, <2>3 DEF GenerateStep
<1>. QED BY <1>1, <1>2, <1>3

\* A history only grows, and what a candidate has passed stays noted.
Kept(g, h) ==
  \A n \in 1..Len(g) : /\ n \in 1..Len(h) /\ h[n].source = g[n].source
                       /\ g[n].passed \subseteq h[n].passed

LEMMA HistoryKept ==
  ASSUME TypeOK, NEW j \in Jobs, HistoryStep(j)
  PROVE  \A i \in Jobs : /\ Kept(history[i], history'[i])
                         /\ i # j => history'[i] = history[i]
<1>1. history \in [Jobs -> Seq(Candidate)]
  BY DEF TypeOK
<1>2. CASE history' = history
  BY <1>2 DEF Kept
<1>3. ASSUME NEW mode \in Modes, Passed(j, mode)
      PROVE  \A i \in Jobs : /\ Kept(history[i], history'[i])
                             /\ i # j => history'[i] = history[i]
  <2>. DEFINE g == history[j]
              h == MarkAt(g, Len(g), mode)
  <2>1. \A i \in Jobs : history'[i] = IF i = j THEN h ELSE history[i]
    BY <1>1, <1>3 DEF Passed
  <2>2. g \in Seq(Candidate)
    BY <1>1
  <2>. HIDE DEF g
  <2>3. Kept(g, h)
    BY <2>2 DEF Kept, MarkAt
  <2>. HIDE DEF h
  <2>. QED BY <2>1, <2>3 DEF Kept, g
<1>4. ASSUME NEW src \in Sources, Tested(j, src)
      PROVE  \A i \in Jobs : /\ Kept(history[i], history'[i])
                             /\ i # j => history'[i] = history[i]
  <2>. DEFINE g == history[j]
              new == [source |-> src, passed |-> {}]
              h == Append(g, new)
  <2>1. \A i \in Jobs : history'[i] = IF i = j THEN h ELSE history[i]
    BY <1>1, <1>4 DEF Tested
  <2>2. g \in Seq(Candidate) /\ new \in Candidate
    BY <1>1 DEF Candidate
  <2>. HIDE DEF g, new
  <2>3. Kept(g, h)
    BY <2>2 DEF Kept
  <2>. HIDE DEF h
  <2>. QED BY <2>1, <2>3 DEF Kept, g
<1>. QED BY <1>2, <1>3, <1>4 DEF HistoryStep

\* Where one job stands, for the invariant.
SameJob(i) ==
  /\ UNCHANGED req /\ task'[i] = task[i] /\ mem'[i] = mem[i]
  /\ cand'[i] = cand[i] /\ history'[i] = history[i]
  /\ (i \in egress') = (i \in egress)

LEMMA OtherJobs ==
  ASSUME IInv, NEW j \in Jobs, RenderStep(j) \/ GenerateStep(j) \/ Raise(j), NEW i \in Jobs, i # j
  PROVE  SameJob(i) /\ row'[i] = row[i]
<1>1. TypeOK /\ UNCHANGED req /\ HistoryStep(j) /\ WorkerStep(j)
  BY WorkerFrame, WorkerHistory, WorkerStepHolds DEF IInv
<1>2. task'[i] = task[i] /\ mem'[i] = mem[i] /\ row'[i] = row[i]
  BY <1>1, StepShape, Zenon
<1>3. history'[i] = history[i]
  BY <1>1, HistoryKept
<1>4. cand'[i] = cand[i] /\ ((i \in egress') <=> (i \in egress))
  <2>1. /\ cand' = cand \/ \E c : cand' = [cand EXCEPT ![j] = c]
        /\ egress' = egress \/ egress' = egress \cup {j}
    <3>1. CASE Raise(j)
      BY <3>1 DEF Raise
    <3>2. CASE RenderStep(j)
      BY <3>2 DEF RenderStep, BeginRender, EndRender
    <3>3. CASE GenerateStep(j)
      <4>1. CASE BeginGenerate(j) \/ Grounded(j)
        BY <4>1 DEF BeginGenerate, Grounded
      <4>2. ASSUME NEW r, NEW src, Retry(j, r, src)
            PROVE  /\ cand' = cand \/ \E c : cand' = [cand EXCEPT ![j] = c]
                   /\ egress' = egress \/ egress' = egress \cup {j}
        BY <4>2 DEF Retry
      <4>3. CASE Generated(j) \/ Escalated(j)
        <5>1. PICK r, src : StartCandidate(j, r, src)
          BY <4>3 DEF Generated, Escalated
        <5>. QED BY <4>2, <5>1 DEF StartCandidate
      <4>4. CASE Probed(j) \/ EndGenerate(j)
        BY <4>2, <4>4 DEF Probed, EndGenerate
      <4>. QED BY <3>3, <4>1, <4>3, <4>4 DEF GenerateStep
    <3>. QED BY <3>1, <3>2, <3>3
  <2>. QED BY <1>1, <2>1 DEF TypeOK
<1>. QED BY <1>1, <1>2, <1>3, <1>4 DEF SameJob

-----------------------------------------------------------------------------
(***************************************************************************)
(* The handlers of a render job, and what is put in the store.             *)
(***************************************************************************)
\* Rendered, in the state after a step.
RenderedNext(key) ==
  \E i \in Jobs : \E n \in 1..Len(history'[i]) :
    history'[i][n].source = key /\ "full" \in history'[i][n].passed

\* A row without a try, and the last row of a job with its history.
Untried(r) ==
  /\ r.trace = <<>> /\ r.attempt = 0
  /\ r.state = "SUCCEEDED" => Rendered(r.artifact)
LastTold(r, h) ==
  /\ r.expires => Told(r, h) /\ r.attempt = Len(r.trace)
  /\ r.state = "SUCCEEDED" => RenderedNext(r.artifact)

LEMMA RenderEnds ==
  ASSUME NEW j \in Jobs, NEW r, Ends(j, r), j \notin egress', LastTold(r, history'[j])
  PROVE  RenderTold(j)'
BY DEF RenderTold, Ends, LastTold, RenderedNext, Rendered

LEMMA RenderedStays ==
  ASSUME \A i \in Jobs : Kept(history[i], history'[i]), NEW key, Rendered(key)
  PROVE  RenderedNext(key)
<1>1. PICK i \in Jobs : \E n \in 1..Len(history[i]) :
        history[i][n].source = key /\ "full" \in history[i][n].passed
  BY DEF Rendered
<1>2. PICK n \in 1..Len(history[i]) :
        history[i][n].source = key /\ "full" \in history[i][n].passed
  BY <1>1
<1>3. /\ n \in 1..Len(history'[i]) /\ history'[i][n].source = key
      /\ "full" \in history'[i][n].passed
  BY <1>2 DEF Kept
<1>. QED BY <1>3 DEF RenderedNext

LEMMA StoreStays ==
  ASSUME \A i \in Jobs : Kept(history[i], history'[i]), StoreTold,
         \A key \in Sources : store'[key] # NoArtifact => store[key] # NoArtifact \/ RenderedNext(key)
  PROVE  StoreTold'
<1>1. \A key \in Sources : store'[key] # NoArtifact => RenderedNext(key)
  BY RenderedStays DEF StoreTold
<1>. QED BY <1>1 DEF StoreTold, Rendered, RenderedNext

LEMMA BeginRenderTold ==
  ASSUME IInv, NEW j \in Jobs, RenderStep(j), BeginRender(j), RenderTold(j), StoreTold
  PROVE  RenderTold(j)' /\ StoreTold'
<1>. DEFINE r == mem[j]
            src == req[j].source
<1>1. /\ TypeOK /\ task[j] = "queued" /\ j \notin egress /\ src \in Sources
      /\ history[j] = <<>> /\ r.trace = <<>> /\ r.attempt = 0
      /\ history \in [Jobs -> Seq(Candidate)]
      /\ \A i \in Jobs : Kept(history[i], history'[i])
  <2>1. TypeOK /\ task[j] = "queued"
    BY DEF IInv, BeginRender, Admission
  <2>2. HistoryStep(j)
    BY WorkerHistory
  <2>. QED BY <2>1, <2>2, HistoryKept, PoolType DEF RenderTold, RenderStep, TypeOK
<1>2. r \in Row /\ ~r.expires
  BY <1>1, LiveObject DEF Unfinished
<1>3. j \notin egress' /\ store' = store
  BY <1>1 DEF BeginRender
<1>4. StoreTold'
  BY <1>1, <1>3, StoreStays
<1>5. ASSUME NEW s \in Row, Untried(s), Finish(j, s), history' = history
      PROVE  RenderTold(j)'
  <2>1. Ends(j, s)
    BY <1>1, <1>5, StopsOrEnds
  <2>2. Told(s, history'[j]) /\ s.attempt = Len(s.trace)
    BY <1>1, <1>5 DEF Told, Faithful, Untried
  <2>3. s.state = "SUCCEEDED" => RenderedNext(s.artifact)
    BY <1>1, <1>5, RenderedStays DEF Untried
  <2>4. LastTold(s, history'[j])
    BY <2>2, <2>3 DEF LastTold
  <2>. QED BY <1>3, <2>1, <2>4, RenderEnds
<1>6. CASE Finish(j, To(r, "CANCELLED")) /\ history' = history
  <2>. DEFINE s == To(r, "CANCELLED")
  <2>1. s \in Row /\ Untried(s)
    BY <1>1, <1>2, SameTrace DEF Untried
  <2>2. Finish(j, s)
    BY <1>6
  <2>. HIDE DEF s
  <2>. QED BY <1>4, <1>5, <1>6, <2>1, <2>2
<1>7. CASE Finish(j, Failed(r)) /\ history' = history
  <2>. DEFINE s == Failed(r)
  <2>1. s \in Row /\ Untried(s)
    BY <1>1, <1>2, SameTrace DEF Untried
  <2>2. Finish(j, s)
    BY <1>7
  <2>. HIDE DEF s
  <2>. QED BY <1>4, <1>5, <1>7, <2>1, <2>2
<1>8. CASE Finish(j, Succeeded(r, src)) /\ history' = history /\ store[src] # NoArtifact
  <2>. DEFINE s == Succeeded(r, src)
  <2>1. Rendered(src)
    BY <1>1, <1>8 DEF StoreTold
  <2>2. s \in Row /\ s.trace = <<>> /\ s.attempt = 0 /\ s.artifact = src
    <3>1. r \in Row /\ src \in Sources \cup {NoSource} /\ r.trace = <<>> /\ r.attempt = 0
      BY <1>1, <1>2
    <3>. HIDE DEF r, src
    <3>. QED BY <3>1, SameTrace
  <2>3. Finish(j, s)
    BY <1>8
  <2>. HIDE DEF s, src
  <2>4. Untried(s)
    BY <2>1, <2>2 DEF Untried
  <2>. QED BY <1>4, <1>5, <1>8, <2>2, <2>3, <2>4
<1>9. CASE /\ Save(j, To(r, "RENDERING")) /\ Suspend(j, "full")
           /\ cand' = [cand EXCEPT ![j].source = src] /\ Tested(j, src)
  <2>1. task'[j] = "full" /\ mem'[j] = To(r, "RENDERING") /\ row'[j] = To(r, "RENDERING")
    BY <1>1, <1>9 DEF TypeOK, Save, Suspend
  <2>2. cand'[j].source = src
    BY <1>1, <1>9 DEF TypeOK
  <2>3. history'[j] = <<[source |-> cand'[j].source, passed |-> {}]>>
    <3>. DEFINE new == [source |-> src, passed |-> {}]
    <3>1. history'[j] = Append(history[j], new)
      BY <1>1, <1>9 DEF Tested
    <3>. HIDE DEF new
    <3>2. Append(<<>>, new) = <<new>>
      OBVIOUS
    <3>. QED BY <1>1, <2>2, <3>1, <3>2 DEF new
  <2>4. /\ mem'[j].trace = <<>> /\ mem'[j].attempt = 0 /\ ~row'[j].expires
        /\ row'[j].state = "RENDERING"
    BY <1>1, <1>2, <2>1, SameTrace
  <2>5. task'[j] \notin {"none", "done"} /\ row'[j].state # "SUCCEEDED"
    BY <2>1, <2>4
  <2>. HIDE DEF src, r
  <2>. QED BY <1>3, <1>4, <2>1, <2>3, <2>4, <2>5 DEF RenderTold
<1>. QED BY <1>4, <1>6, <1>7, <1>8, <1>9 DEF BeginRender

\* What is put in the store has just been rendered.
LEMMA PutTold ==
  ASSUME TypeOK, StoreTold, \A i \in Jobs : Kept(history[i], history'[i]),
         NEW key, NEW scene, Put(key, scene), RenderedNext(key)
  PROVE  StoreTold'
<1>1. \A k \in Sources : k # key => store'[k] = store[k]
  BY DEF Put, TypeOK
<1>. QED BY <1>1, StoreStays

LEMMA RenderedNow ==
  ASSUME NEW j \in Jobs, NEW n \in 1..Len(history'[j]), NEW key,
         history'[j][n].source = key, "full" \in history'[j][n].passed
  PROVE  RenderedNext(key)
BY DEF RenderedNext

LEMMA EndRenderTold ==
  ASSUME IInv, NEW j \in Jobs, RenderStep(j), EndRender(j), RenderTold(j), StoreTold
  PROVE  RenderTold(j)' /\ StoreTold'
<1>. DEFINE r == mem[j]
            src == cand[j].source
<1>1. /\ TypeOK /\ task[j] = "full" /\ j \notin egress /\ src \in Sources \cup {NoSource}
      /\ history[j] = <<[source |-> src, passed |-> {}]>> /\ r.trace = <<>>
      /\ history \in [Jobs -> Seq(Candidate)]
      /\ \A i \in Jobs : Kept(history[i], history'[i])
  <2>1. TypeOK /\ task[j] = "full"
    BY DEF IInv, EndRender
  <2>2. HistoryStep(j)
    BY WorkerHistory
  <2>. QED BY <2>1, <2>2, HistoryKept DEF RenderTold, TypeOK
<1>2. r \in Row /\ ~r.expires
  BY <1>1, LiveObject DEF Unfinished, Awaits, Modes
<1>3. j \notin egress'
  BY <1>1 DEF EndRender
<1>4. PICK ok \in BOOLEAN :
        LET s == AddAttempt(r, 0, src, ~ok)
        IN /\ IF ok THEN Passed(j, "full") ELSE history' = history
           /\ \/ Finish(j, To(s, "CANCELLED")) /\ store' = store
              \/ ok /\ Put(src, Resolved(req[j])) /\ Finish(j, Succeeded(s, src))
              \/ Finish(j, Failed(s)) /\ store' = store
  BY DEF EndRender
<1>. DEFINE s == AddAttempt(r, 0, src, ~ok)
            now == [source |-> src, passed |-> IF ok THEN {"full"} ELSE {}]
<1>5. history'[j] = <<now>>
  <2>1. CASE ok
    <3>1. history'[j] = MarkAt(history[j], Len(history[j]), "full")
      BY <1>1, <1>4, <2>1 DEF Passed
    <3>2. MarkAt(<<[source |-> src, passed |-> {}]>>, 1, "full")
            = <<[source |-> src, passed |-> {} \cup {"full"}]>>
      BY DEF MarkAt
    <3>. QED BY <1>1, <2>1, <3>1, <3>2
  <2>2. CASE ~ok
    BY <1>1, <1>4, <2>2
  <2>. QED BY <2>1, <2>2
<1>6. /\ s \in Row /\ Len(s.trace) = 1 /\ s.attempt = 1 /\ s.trace[1].source = src
      /\ s.trace[1].traceback = ~ok
  <2>1. ASSUME NEW tb \in BOOLEAN PROVE Added(AddAttempt(r, 0, src, tb), r, 0, src, tb)
    BY <1>1, <1>2, AddedAttempt
  <2>2. Added(s, r, 0, src, ~ok)
    BY <2>1
  <2>. HIDE DEF s
  <2>. QED BY <1>1, <2>2 DEF Added
<1>. HIDE DEF s
<1>7. ok => RenderedNext(src)
  <2>1. ASSUME ok PROVE /\ 1 \in 1..Len(history'[j]) /\ history'[j][1].source = src
                        /\ "full" \in history'[j][1].passed
    BY <1>5, <2>1
  <2>. HIDE DEF src
  <2>. QED BY <2>1, RenderedNow
<1>8. ASSUME NEW e \in Row, e.trace = s.trace, e.attempt = s.attempt, Finish(j, e),
             e.state = "SUCCEEDED" => RenderedNext(e.artifact)
      PROVE  RenderTold(j)'
  <2>1. Ends(j, e)
    BY <1>1, <1>8, StopsOrEnds
  <2>2. Told(e, history'[j]) /\ e.attempt = Len(e.trace)
    <3>1. now.source = src /\ ("full" \in now.passed <=> ok)
      OBVIOUS
    <3>. DEFINE h == history'[j]
    <3>2. Len(h) = 1 /\ h[1] = now
      BY <1>5
    <3>. HIDE DEF now, src, h
    <3>3. /\ e.trace[1].source = h[1].source
          /\ e.trace[1].traceback <=> "full" \notin h[1].passed
      BY <1>6, <1>8, <3>1, <3>2
    <3>4. \A n \in 1..1 : n = 1
      OBVIOUS
    <3>5. Told(e, h)
      BY <1>6, <1>8, <3>2, <3>3, <3>4 DEF Told, Faithful
    <3>. QED BY <1>6, <1>8, <3>5 DEF h
  <2>3. LastTold(e, history'[j])
    BY <1>8, <2>2 DEF LastTold
  <2>. QED BY <1>3, <2>1, <2>3, RenderEnds
<1>9. CASE Finish(j, To(s, "CANCELLED")) /\ store' = store
  <2>1. RenderTold(j)'
    BY <1>6, <1>8, <1>9, SameTrace
  <2>. QED BY <1>1, <1>9, <2>1, StoreStays
<1>10. CASE Finish(j, Failed(s)) /\ store' = store
  <2>1. RenderTold(j)'
    BY <1>6, <1>8, <1>10, SameTrace
  <2>. QED BY <1>1, <1>10, <2>1, StoreStays
<1>11. CASE ok /\ Put(src, Resolved(req[j])) /\ Finish(j, Succeeded(s, src))
  <2>. DEFINE e == Succeeded(s, src)
  <2>1. e \in Row /\ e.trace = s.trace /\ e.attempt = s.attempt /\ e.artifact = src
    BY <1>1, <1>6, SameTrace
  <2>2. e.state = "SUCCEEDED" => RenderedNext(e.artifact)
    <3>. HIDE DEF e, src
    <3>. QED BY <1>7, <1>11, <2>1
  <2>3. RenderTold(j)'
    <3>1. Finish(j, e)
      BY <1>11
    <3>. HIDE DEF e
    <3>. QED BY <1>8, <2>1, <2>2, <3>1
  <2>4. StoreTold'
    <3>1. RenderedNext(src) /\ Put(src, Resolved(req[j]))
      BY <1>7, <1>11
    <3>. HIDE DEF src
    <3>. QED BY <1>1, <3>1, PutTold
  <2>. QED BY <2>3, <2>4
<1>. QED BY <1>4, <1>9, <1>10, <1>11 DEF s

-----------------------------------------------------------------------------
(***************************************************************************)
(* The invariant, step by step.                                            *)
(***************************************************************************)
LEMMA RaiseRenderTold ==
  ASSUME IInv, NEW j \in Jobs, Raise(j), RenderTold(j)
  PROVE  RenderTold(j)'
<1>. DEFINE s == Guarded(row[j])
<1>1. TypeOK /\ task[j] \in Awaits \cup {"queued"}
  BY WorkerFrame DEF IInv
<1>2. /\ mem[j] \in Row /\ ~mem[j].expires /\ row[j] = mem[j]
      /\ mem[j].state \in {"QUEUED", "GENERATING", "RENDERING"}
  BY <1>1, LiveObject DEF Unfinished, StateAt
<1>3. ~s.expires /\ s.state # "SUCCEEDED"
  BY <1>2, SameTrace
<1>4. Ends(j, s)
  BY <1>1, StopsOrEnds DEF Raise
<1>5. j \notin egress'
  BY DEF RenderTold, Raise
<1>. HIDE DEF s
<1>6. LastTold(s, history'[j])
  BY <1>3 DEF LastTold
<1>. QED BY <1>4, <1>5, <1>6, RenderEnds

LEMMA GenerateStoreTold ==
  ASSUME IInv, NEW j \in Jobs, GenerateStep(j), GenerateTold(j), StoreTold
  PROVE  StoreTold'
<1>. DEFINE src == cand[j].source
            h == history[j]
<1>1. TypeOK /\ HistoryStep(j) /\ h \in Seq(Candidate)
  BY WorkerHistory DEF IInv, TypeOK
<1>2. \A i \in Jobs : Kept(history[i], history'[i])
  BY <1>1, HistoryKept
<1>3. CASE store' = store
  BY <1>2, <1>3, StoreStays
<1>4. CASE task[j] = "full" /\ Passed(j, "full") /\ Put(src, NoScene)
  <2>1. task[j] # "done" /\ "full" \in Modes
    BY <1>4 DEF Modes
  <2>2. Underway(req[j], "full", mem[j], cand[j], h, j \in egress)
    BY <1>4, <2>1 DEF GenerateTold
  <2>3. Trying(req[j], mem[j], cand[j].index, h, j \in egress, AtHand(cand[j], "full"))
    BY <2>1, <2>2 DEF Underway
  <2>4. Len(h) = Len(mem[j].trace) + 1 /\ h[Len(h)].source = src
    BY <2>3 DEF Trying, AtHand
  <2>5. Len(mem[j].trace) \in Nat
    BY <1>1 DEF TypeOK, Row
  <2>6. history'[j] = MarkAt(h, Len(h), "full")
    BY <1>1, <1>4 DEF Passed, TypeOK
  <2>. HIDE DEF h, src
  <2>7. Len(h) \in 1..Len(h)
    BY <1>1, <2>4, <2>5
  <2>8. /\ Len(history'[j]) = Len(h) /\ history'[j][Len(h)].source = src
        /\ "full" \in history'[j][Len(h)].passed
    BY <1>1, <2>4, <2>6, <2>7 DEF MarkAt
  <2>9. RenderedNext(src)
    BY <2>7, <2>8, RenderedNow
  <2>10. Put(src, NoScene)
    BY <1>4
  <2>. QED BY <1>1, <1>2, <2>9, <2>10, PutTold
<1>5. store' = store \/ EndGenerate(j)
  BY DEF GenerateStep, BeginGenerate, Grounded, Generated, Escalated, Probed
<1>. QED BY <1>3, <1>4, <1>5 DEF EndGenerate

LEMMA OverKept ==
  ASSUME NEW q, NEW r, NEW h, NEW out, Over(q, r, h, out), NEW s, s.trace = r.trace,
         s.attempt = r.attempt, s.expires = r.expires, s.state # "SUCCEEDED"
  PROVE  Over(q, s, h, out)
BY DEF Over, Told, Faithful

\* The reaper changes the state and the artifact of a row, nothing else.
Expired(s, r) ==
  s.state = "EXPIRED" /\ s.trace = r.trace /\ s.attempt = r.attempt /\ s.expires = r.expires

LEMMA SameJobTold ==
  ASSUME NEW i \in Jobs, JobTold(i), SameJob(i), \A k \in Jobs : Kept(history[k], history'[k]),
         row'[i] = row[i] \/ Expired(row'[i], row[i])
  PROVE  JobTold(i)'
<1>1. IsGenerate(i)' = IsGenerate(i)
  BY DEF SameJob, IsGenerate
<1>2. CASE IsGenerate(i)
  <2>1. GenerateTold(i)
    BY <1>2 DEF JobTold
  <2>2. task'[i] = "none" => mem'[i] = NewRow
    BY <2>1 DEF GenerateTold, SameJob
  <2>3. task'[i] # "done" =>
          Underway(req'[i], task'[i], mem'[i], cand'[i], history'[i], i \in egress')
    BY <2>1 DEF GenerateTold, SameJob
  <2>4. task'[i] = "done" => Over(req'[i], row'[i], history'[i], i \in egress')
    BY <2>1, OverKept DEF GenerateTold, SameJob, Expired
  <2>5. GenerateTold(i)'
    BY <2>2, <2>3, <2>4 DEF GenerateTold
  <2>. QED BY <1>1, <1>2, <2>5 DEF JobTold
<1>3. CASE ~IsGenerate(i)
  <2>1. RenderTold(i)
    BY <1>3 DEF JobTold
  <2>2. i \notin egress' /\ (task'[i] = "none" => mem'[i] = NewRow)
    BY <2>1 DEF RenderTold, SameJob
  <2>3. row'[i].state = "SUCCEEDED" => RenderedNext(row'[i].artifact)
    BY <2>1, RenderedStays DEF RenderTold, Expired
  <2>4. task'[i] = "done" /\ row'[i].expires =>
          Told(row'[i], history'[i]) /\ row'[i].attempt = Len(row'[i].trace)
    BY <2>1 DEF RenderTold, SameJob, Expired, Told, Faithful
  <2>5. /\ task'[i] # "done" => mem'[i].trace = <<>> /\ mem'[i].attempt = 0
        /\ task'[i] \notin {"full", "done"} => history'[i] = <<>>
        /\ task'[i] = "full" => history'[i] = <<[source |-> cand'[i].source, passed |-> {}]>>
    BY <2>1 DEF RenderTold, SameJob
  <2>6. RenderTold(i)'
    BY <2>2, <2>3, <2>4, <2>5 DEF RenderTold, RenderedNext, Rendered
  <2>. QED BY <1>1, <1>3, <2>6 DEF JobTold
<1>. QED BY <1>2, <1>3

LEMMA WorkerTold ==
  ASSUME IInv, TraceInv, NEW j \in Jobs, RenderStep(j) \/ GenerateStep(j) \/ Raise(j)
  PROVE  TraceInv'
<1>1. TypeOK /\ HistoryStep(j) /\ UNCHANGED req
  BY WorkerHistory, WorkerFrame DEF IInv
<1>2. \A i \in Jobs : Kept(history[i], history'[i])
  BY <1>1, HistoryKept
<1>3. StoreTold /\ JobTold(j) /\ \A i \in Jobs : JobTold(i)
  BY DEF TraceInv
<1>4. ASSUME NEW i \in Jobs, i # j PROVE JobTold(i)'
  BY <1>2, <1>3, <1>4, OtherJobs, SameJobTold
<1>5. JobTold(j)' /\ StoreTold'
  <2>1. IsGenerate(j)' = IsGenerate(j) /\ (IsRender(j) => ~IsGenerate(j))
    BY <1>1 DEF IsGenerate, IsRender
  <2>2. CASE RenderStep(j)
    <3>1. RenderTold(j) /\ ~IsGenerate(j)
      BY <1>3, <2>1, <2>2 DEF JobTold, RenderStep
    <3>2. RenderTold(j)' /\ StoreTold'
      BY <1>3, <2>2, <3>1, BeginRenderTold, EndRenderTold DEF RenderStep
    <3>. QED BY <2>1, <3>1, <3>2 DEF JobTold
  <2>3. CASE GenerateStep(j)
    <3>1. GenerateTold(j) /\ IsGenerate(j)
      BY <1>3, <2>3 DEF JobTold, GenerateStep
    <3>2. GenerateTold(j)' /\ StoreTold'
      BY <1>3, <2>3, <3>1, GenerateStepTold, GenerateStoreTold
    <3>. QED BY <2>1, <3>1, <3>2 DEF JobTold
  <2>4. CASE Raise(j)
    <3>1. StoreTold'
      BY <1>2, <1>3, <2>4, StoreStays DEF Raise
    <3>2. CASE IsGenerate(j)
      BY <1>3, <2>1, <2>4, <3>1, <3>2, RaiseTold DEF JobTold
    <3>3. CASE ~IsGenerate(j)
      BY <1>3, <2>1, <2>4, <3>1, <3>3, RaiseRenderTold DEF JobTold
    <3>. QED BY <3>2, <3>3
  <2>. QED BY <2>2, <2>3, <2>4
<1>. QED BY <1>4, <1>5 DEF TraceInv

LEMMA SubmitTold ==
  ASSUME IInv, TraceInv, NEW j \in Jobs, Submit(j)
  PROVE  TraceInv'
<1>. DEFINE s == To(NewRow, "QUEUED")
<1>1. /\ TypeOK /\ task[j] = "none" /\ StoreTold /\ (\A i \in Jobs : JobTold(i))
      /\ UNCHANGED <<req, cand, store, egress, history>>
      /\ \A i \in Jobs : Kept(history[i], history'[i])
  BY DEF IInv, TraceInv, Submit, Kept
<1>2. task'[j] = "queued" /\ mem'[j] = s /\ row'[j] = s
  BY <1>1 DEF Submit, Save, TypeOK
<1>3. /\ s.trace = <<>> /\ s.trace = NewRow.trace /\ s.attempt = NewRow.attempt /\ s.attempt = 0
      /\ s.escalated = NewRow.escalated /\ s.state = "QUEUED" /\ ~s.expires
  BY DEF To, NewRow
<1>. HIDE DEF s
<1>4. StoreTold'
  BY <1>1, StoreStays
<1>5. ASSUME NEW i \in Jobs, i # j PROVE JobTold(i)'
  <2>1. SameJob(i) /\ row'[i] = row[i]
    BY <1>1, <1>5 DEF Submit, Save, SameJob, TypeOK
  <2>. QED BY <1>1, <2>1, SameJobTold
<1>6. JobTold(j)'
  <2>1. IsGenerate(j)' = IsGenerate(j)
    BY <1>1 DEF IsGenerate
  <2>2. CASE IsGenerate(j)
    <3>1. "none" \notin Modes /\ "queued" \notin Modes
      BY DEF Modes
    <3>2. mem[j] = NewRow /\ Asking(req[j], "none", mem[j], cand[j].index, history[j], j \in egress)
      BY <1>1, <2>2, <3>1 DEF JobTold, GenerateTold, Underway
    <3>3. Asking(req[j], "queued", s, cand[j].index, history[j], j \in egress)
      BY <1>3, <3>2, SameUnderway
    <3>4. Underway(req'[j], "queued", s, cand'[j], history'[j], j \in egress')
      BY <1>1, <3>1, <3>3 DEF Underway
    <3>5. GenerateTold(j)'
      BY <1>2, <3>4 DEF GenerateTold
    <3>. QED BY <2>1, <2>2, <3>5 DEF JobTold
  <2>3. CASE ~IsGenerate(j)
    <3>1. RenderTold(j)
      BY <1>1, <2>3 DEF JobTold
    <3>2. RenderTold(j)'
      BY <1>1, <1>2, <1>3, <3>1 DEF RenderTold
    <3>. QED BY <2>1, <2>3, <3>2 DEF JobTold
  <2>. QED BY <2>2, <2>3
<1>. QED BY <1>4, <1>5, <1>6 DEF TraceInv

LEMMA ReapTold ==
  ASSUME IInv, TraceInv, NEW keys, NEW elapsed, Reap(keys, elapsed)
  PROVE  TraceInv'
<1>1. /\ TypeOK /\ StoreTold /\ (\A i \in Jobs : JobTold(i))
      /\ \A i \in Jobs : Kept(history[i], history'[i])
  BY DEF IInv, TraceInv, Reap, Kept
<1>2. \A r \in Row : Expired([To(r, "EXPIRED") EXCEPT !.artifact = NoSource], r)
  BY DEF Expired, To, Row
<1>3. ASSUME NEW i \in Jobs PROVE JobTold(i)'
  <2>1. SameJob(i) /\ (row'[i] = row[i] \/ Expired(row'[i], row[i]))
    BY <1>1, <1>2 DEF Reap, SameJob, TypeOK
  <2>. QED BY <1>1, <2>1, SameJobTold
<1>4. StoreTold'
  <2>1. \A key \in Sources : store'[key] # NoArtifact => store[key] # NoArtifact
    BY DEF Reap
  <2>. QED BY <1>1, <2>1, StoreStays
<1>. QED BY <1>3, <1>4 DEF TraceInv

LEMMA FrameTold ==
  ASSUME IInv, TraceInv, UNCHANGED <<req, task, mem, row, cand, store, egress, history>>
  PROVE  TraceInv'
<1>1. /\ TypeOK /\ StoreTold /\ (\A i \in Jobs : JobTold(i))
      /\ \A i \in Jobs : Kept(history[i], history'[i])
  BY DEF IInv, TraceInv, Kept
<1>2. StoreTold'
  BY <1>1, StoreStays
<1>3. \A i \in Jobs : JobTold(i)'
  BY <1>1, SameJobTold DEF SameJob
<1>. QED BY <1>2, <1>3 DEF TraceInv

LEMMA TraceInit == Init => TraceInv
<1>. SUFFICES ASSUME Init PROVE TraceInv
  OBVIOUS
<1>1. TypeOK
  BY NewRowRow, EmptySeq, ConstantsOK DEF Init, TypeOK, Requests
<1>2. StoreTold
  BY DEF Init, StoreTold
<1>3. ASSUME NEW j \in Jobs PROVE JobTold(j)
  <2>1. /\ task[j] = "none" /\ mem[j] = NewRow /\ row[j] = NewRow /\ history[j] = <<>>
        /\ cand[j].index = 0 /\ j \notin egress
    BY <1>3 DEF Init
  <2>2. /\ NewRow.trace = <<>> /\ NewRow.attempt = 0 /\ ~NewRow.escalated
        /\ NewRow.state # "SUCCEEDED"
    BY DEF NewRow
  <2>3. CASE IsGenerate(j)
    <3>1. MaxTries(req[j]) \in Nat \ {0}
      BY <1>1, <2>3, TriesType
    <3>2. Told(mem[j], history[j])
      BY <2>1, <2>2 DEF Told, Faithful
    <3>3. Counted(req[j], mem[j], cand[j].index, j \in egress)
      BY <2>1, <2>2, <3>1 DEF Counted
    <3>4. Underway(req[j], task[j], mem[j], cand[j], history[j], j \in egress)
      BY <2>1, <2>2, <3>2, <3>3 DEF Underway, Asking, Modes
    <3>. QED BY <2>1, <2>3, <3>4 DEF JobTold, GenerateTold
  <2>4. CASE ~IsGenerate(j)
    BY <2>1, <2>2, <2>4 DEF JobTold, RenderTold
  <2>. QED BY <2>3, <2>4
<1>. QED BY <1>2, <1>3 DEF TraceInv

\* The traces are faithful in every behaviour.
LEMMA Faithfulness == Spec => []TraceInv
<1>1. IInv /\ TraceInv /\ [Next]_vars => TraceInv'
  <2>. SUFFICES ASSUME IInv, TraceInv, [Next]_vars PROVE TraceInv'
    OBVIOUS
  <2>1. ASSUME NEW j \in Jobs, RenderStep(j) \/ GenerateStep(j) \/ Raise(j) PROVE TraceInv'
    BY <2>1, WorkerTold
  <2>2. ASSUME NEW j \in Jobs, Submit(j) PROVE TraceInv'
    BY <2>2, SubmitTold
  <2>3. ASSUME NEW j \in Jobs, Cancel(j) PROVE TraceInv'
    BY <2>3, FrameTold DEF Cancel, workerVars
  <2>4. ASSUME NEW k \in kills, KillDone(k) PROVE TraceInv'
    BY <2>4, FrameTold DEF KillDone, workerVars
  <2>5. ASSUME NEW keys, NEW elapsed, Reap(keys, elapsed) PROVE TraceInv'
    BY <2>5, ReapTold
  <2>6. CASE UNCHANGED vars
    BY <2>6, FrameTold DEF vars
  <2>. QED BY <2>1, <2>2, <2>3, <2>4, <2>5, <2>6 DEF Next, Terminating
<1>. QED BY <1>1, TraceInit, Invariance, PTL DEF Spec

-----------------------------------------------------------------------------
(***************************************************************************)
(* The theorems.                                                           *)
(***************************************************************************)
\* Where the job of a request has got to: its object while it is live, its row
\* once it is over.
LEMMA LiveTold ==
  ASSUME IInv, TraceInv, NEW j \in Jobs, IsGenerate(j), task[j] # "done"
  PROVE  /\ mem[j] \in Row
         /\ Counted(req[j], mem[j], cand[j].index, j \in egress)
         /\ Len(history[j]) = Len(mem[j].trace) \/ Len(history[j]) = Len(mem[j].trace) + 1
         /\ j \in egress => row[j] = mem[j]
<1>1. mem[j] \in Row /\ task[j] \in {"none", "queued"} \cup Awaits
  BY DEF IInv, TypeOK
<1>2. Underway(req[j], task[j], mem[j], cand[j], history[j], j \in egress)
  BY DEF TraceInv, JobTold, GenerateTold
<1>3. task[j] = "none" => j \notin egress
  BY <1>2 DEF Underway, Asking, Modes
<1>4. row[j] = mem[j] \/ task[j] = "none"
  BY <1>1 DEF IInv, RowsFresh
<1>. QED BY <1>1, <1>2, <1>3, <1>4, UnderwayParts

LEMMA DoneTold ==
  ASSUME TraceInv, NEW j \in Jobs, IsGenerate(j), task[j] = "done"
  PROVE  Over(req[j], row[j], history[j], j \in egress)
BY DEF TraceInv, JobTold, GenerateTold

\* The generator is called at most max(1, repair_budget) times and the hosted
\* one at most once more, for any budget (the attempt loop and its escalation,
\* job_manager.py:185-224).
THEOREM TriesAreBounded == Spec => []TriesBounded
<1>1. IInv /\ TraceInv => TriesBounded
  <2>. SUFFICES ASSUME IInv, TraceInv, NEW j \in Jobs, IsGenerate(j)
                PROVE  Len(history[j]) <= MaxTries(req[j]) + (IF j \in egress THEN 1 ELSE 0)
    BY DEF TriesBounded
  <2>1. CASE task[j] = "done"
    BY <2>1, DoneTold DEF Over
  <2>2. CASE task[j] # "done"
    <3>1. MaxTries(req[j]) \in Nat \ {0} /\ cand[j].index \in Int
      BY TriesType DEF IInv, TypeOK
    <3>2. mem[j] \in Row /\ Counted(req[j], mem[j], cand[j].index, j \in egress)
          /\ (Len(history[j]) = Len(mem[j].trace) \/ Len(history[j]) = Len(mem[j].trace) + 1)
      BY <2>2, LiveTold
    <3>3. Len(mem[j].trace) \in Nat
      BY <3>2 DEF Row
    <3>4. IF j \in egress THEN Len(mem[j].trace) = MaxTries(req[j])
                          ELSE Len(mem[j].trace) < MaxTries(req[j])
      BY <3>2 DEF Counted
    <3>. QED BY <3>1, <3>2, <3>3, <3>4
  <2>. QED BY <2>1, <2>2
<1>. QED BY <1>1, Invariance, Faithfulness, PTL

\* A prompt leaves the host only with the server's gate and the call's open and
\* after exactly the local tries the call asked for, each failed with a
\* traceback (escalation.py:21-26, job_manager.py:201-205).
THEOREM EscalationIsGated == Spec => []EscalationGated
<1>1. IInv /\ TraceInv => EscalationGated
  <2>. SUFFICES ASSUME IInv, TraceInv, NEW j \in Jobs, j \in egress
                PROVE  /\ Gate(req[j]) /\ IsGenerate(j)
                       /\ LET local == {n \in 1..Len(row[j].trace) : ~row[j].trace[n].escalated}
                          IN /\ Cardinality(local) = MaxTries(req[j])
                             /\ \A n \in local : row[j].trace[n].traceback
    BY DEF EscalationGated, Gate, IInv, TypeOK
  <2>. DEFINE t == row[j].trace
              m == MaxTries(req[j])
  <2>1. IsGenerate(j)
    BY DEF TraceInv, JobTold, RenderTold
  <2>2. m \in Nat \ {0} /\ Len(t) \in Nat
    BY <2>1, TriesType DEF IInv, TypeOK, Row
  <2>3. /\ Gate(req[j]) /\ Len(t) >= m
        /\ \A n \in 1..Len(t) : /\ ~t[n].escalated <=> n <= m
                                /\ n <= m => t[n].traceback
    <3>1. CASE task[j] = "done"
      BY <2>1, <3>1, DoneTold DEF Over
    <3>2. CASE task[j] # "done"
      <4>1. row[j] = mem[j] /\ Counted(req[j], mem[j], cand[j].index, j \in egress)
        BY <2>1, <3>2, LiveTold
      <4>2. /\ Gate(req[j]) /\ Len(t) = m
            /\ \A n \in 1..Len(t) : t[n].traceback /\ ~t[n].escalated
        BY <4>1 DEF Counted
      <4>. HIDE DEF t, m
      <4>. QED BY <2>2, <4>2
    <3>. QED BY <3>1, <3>2
  <2>. HIDE DEF t, m
  <2>. DEFINE local == {n \in 1..Len(t) : ~t[n].escalated}
  <2>4. local = 1..m
    BY <2>2, <2>3
  <2>5. Cardinality(1..m) = m
    BY <2>2, FS_Interval
  <2>6. Cardinality(local) = m
    BY <2>4, <2>5
  <2>7. \A n \in local : t[n].traceback
    BY <2>2, <2>3
  <2>. QED BY <2>1, <2>3, <2>6, <2>7 DEF t, m
<1>. QED BY <1>1, Invariance, Faithfulness, PTL

\* A result shows the whole path to it: one entry per candidate, in order, a
\* traceback where it failed, and the number of tries as the attempt count,
\* for any budget (add_attempt and its callers, job_manager.py:159,242,251,258).
THEOREM TraceIsHonest == Spec => []HonestTrace
<1>1. IInv /\ TraceInv => HonestTrace
  <2>. SUFFICES ASSUME IInv, TraceInv, NEW j \in Jobs, row[j].expires
                PROVE  /\ Told(row[j], history[j])
                       /\ (IsGenerate(j) => req[j].budget > 0)
                            => row[j].attempt = Len(row[j].trace)
    BY DEF HonestTrace, Told, Faithful
  <2>1. task[j] = "done"
    BY DEF IInv, ResultsOnFinished
  <2>2. CASE IsGenerate(j)
    BY <2>1, <2>2, DoneTold DEF Over
  <2>3. CASE ~IsGenerate(j)
    BY <2>1, <2>3 DEF TraceInv, JobTold, RenderTold
  <2>. QED BY <2>2, <2>3
<1>. QED BY <1>1, Invariance, Faithfulness, PTL

\* A job that SUCCEEDED hands back a source that passed both renders as its
\* last candidate or, for a render job served from the store, a source some
\* job has fully rendered (job_manager.py:141-164, 257-265).
THEOREM SuccessIsVerified == Spec => []VerifiedSuccess
<1>1. IInv /\ TraceInv => VerifiedSuccess
  <2>. SUFFICES ASSUME IInv, TraceInv, NEW j \in Jobs, row[j].state = "SUCCEEDED"
                PROVE  IF IsGenerate(j)
                       THEN history[j] # <<>> /\ history[j][Len(history[j])] =
                              [source |-> row[j].artifact, passed |-> Modes]
                       ELSE Rendered(row[j].artifact)
    BY DEF VerifiedSuccess, Rendered
  <2>1. task[j] = "done"
    BY DEF IInv, ResultsOnFinished
  <2>2. CASE IsGenerate(j)
    BY <2>1, <2>2, DoneTold DEF Over
  <2>3. CASE ~IsGenerate(j)
    BY <2>3 DEF TraceInv, JobTold, RenderTold
  <2>. QED BY <2>2, <2>3
<1>. QED BY <1>1, Invariance, Faithfulness, PTL

-----------------------------------------------------------------------------
(***************************************************************************)
(* Cancellation.                                                           *)
(***************************************************************************)
\* A flagged worker's step ends it, and a flagged render ends CANCELLED or
\* with what the guard leaves.
Flagged(j) ==
  IsRender(j) /\ task[j] = "done" => row[j].state \in {"CANCELLED", "FAILED"} /\ ~row[j].expires

LEMMA FlaggedRender ==
  ASSUME IInv, NEW j \in cancelled, IsRender(j), RenderStep(j) \/ Raise(j)
  PROVE  row'[j].state \in {"CANCELLED", "FAILED"} /\ ~row'[j].expires
<1>1. TypeOK /\ j \in Jobs /\ task[j] \in Awaits \cup {"queued"}
  BY WorkerFrame DEF IInv, TypeOK
<1>2. /\ mem[j] \in Row /\ ~mem[j].expires /\ row[j] = mem[j]
      /\ mem[j].state \in {"QUEUED", "GENERATING", "RENDERING"}
      /\ cand[j].source \in Sources \cup {NoSource}
  BY <1>1, LiveObject DEF Unfinished, StateAt, TypeOK
<1>3. ASSUME NEW r \in Row, ~r.expires, Finish(j, To(r, "CANCELLED"))
      PROVE  row'[j].state = "CANCELLED" /\ ~row'[j].expires
  <2>1. row'[j] = To(r, "CANCELLED")
    BY <1>1, <1>3 DEF Finish, Save, TypeOK
  <2>. QED BY <1>3, <2>1, SameTrace
<1>4. CASE BeginRender(j)
  <2>1. Finish(j, To(mem[j], "CANCELLED"))
    BY <1>4 DEF BeginRender, CheckCancel
  <2>. QED BY <1>2, <1>3, <2>1
<1>5. CASE EndRender(j)
  <2>1. PICK ok \in BOOLEAN : Finish(j, To(AddAttempt(mem[j], 0, cand[j].source, ~ok), "CANCELLED"))
    BY <1>5 DEF EndRender, CheckCancel
  <2>. DEFINE r == AddAttempt(mem[j], 0, cand[j].source, ~ok)
  <2>2. (~ok) \in BOOLEAN /\ 0 \in Int
    OBVIOUS
  <2>3. r \in Row
    BY <1>2, <2>2, AddAttemptRow
  <2>4. ~r.expires
    BY <1>2 DEF AddAttempt, Row
  <2>5. Finish(j, To(r, "CANCELLED"))
    BY <2>1
  <2>. HIDE DEF r
  <2>. QED BY <1>3, <2>3, <2>4, <2>5
<1>6. CASE Raise(j)
  <2>1. row'[j] = Guarded(row[j])
    BY <1>1, <1>6 DEF Raise, Guard, TypeOK
  <2>. QED BY <1>2, <2>1, SameTrace
<1>. QED BY <1>4, <1>5, <1>6 DEF RenderStep

FlagInv ==
  /\ \A k \in kills : k.job \in cancelled
  /\ KillsHitTheirTarget
  /\ \A j \in cancelled : Flagged(j)

LEMMA FlagWorker ==
  ASSUME IInv, FlagInv, NEW j \in Jobs, RenderStep(j) \/ GenerateStep(j) \/ Raise(j)
  PROVE  FlagInv'
<1>1. /\ TypeOK /\ WorkerStep(j) /\ UNCHANGED <<req, cancelled>> /\ UNCHANGED kills
      /\ cancelled \subseteq Jobs /\ \A k \in kills : k.job \in cancelled
  <2>1. UNCHANGED kills
    BY DEF RenderStep, GenerateStep, Raise, BeginRender, EndRender, BeginGenerate, Grounded,
           Generated, Escalated, Probed, EndGenerate
  <2>. QED BY <2>1, WorkerStepHolds, WorkerFrame DEF IInv, TypeOK, FlagInv
<1>2. \A i \in Jobs : i # j => /\ task'[i] = task[i] /\ row'[i] = row[i]
                               /\ containers'[i] = containers[i]
  BY <1>1, StepShape, Zenon
<1>3. \A i \in Jobs : i # j => history'[i] = history[i]
  BY OtherJobs DEF SameJob
<1>4. CheckCancel(j) => containers'[j] = Idle
  BY <1>1, StepShape, Zenon
<1>5. KillsHitTheirTarget'
  <2>. SUFFICES ASSUME NEW k \in kills, containers'[k.job] # Idle
                PROVE  containers'[k.job] = k.mode /\ Len(history'[k.job]) = k.nth
    BY <1>1 DEF KillsHitTheirTarget
  <2>1. k.job \in cancelled /\ k.job \in Jobs
    BY <1>1
  <2>2. k.job # j
    BY <1>4, <2>1 DEF CheckCancel
  <2>. QED BY <1>2, <1>3, <2>1, <2>2 DEF FlagInv, KillsHitTheirTarget
<1>6. ASSUME NEW i \in cancelled PROVE Flagged(i)'
  <2>1. CASE i # j
    BY <1>1, <1>2, <1>6, <2>1 DEF FlagInv, Flagged, IsRender
  <2>2. CASE i = j /\ IsRender(j)
    <3>1. RenderStep(j) \/ Raise(j)
      BY <2>2 DEF GenerateStep, IsGenerate, IsRender
    <3>. QED BY <1>6, <2>2, <3>1, FlaggedRender DEF Flagged
  <2>3. CASE ~IsRender(i)
    BY <1>1, <2>3 DEF Flagged, IsRender
  <2>. QED BY <2>1, <2>2, <2>3
<1>. QED BY <1>1, <1>5, <1>6 DEF FlagInv

LEMMA FlagCancel ==
  ASSUME IInv, FlagInv, NEW j \in Jobs, Cancel(j)
  PROVE  FlagInv'
<1>1. /\ UNCHANGED <<req, task, row, containers, history>>
      /\ row[j].state \in LC!Live /\ cancelled' = cancelled \cup {j}
  BY DEF Cancel, workerVars
<1>2. task[j] # "done"
  BY <1>1 DEF IInv, ResultsOnFinished
<1>3. \A k \in kills' : k \in kills \/ /\ k.job = j /\ k.mode = containers[j]
                                       /\ k.nth = Len(history[j])
  BY DEF Cancel
<1>4. \A k \in kills' : k.job \in cancelled'
  BY <1>1, <1>3 DEF FlagInv
<1>5. KillsHitTheirTarget'
  BY <1>1, <1>3 DEF FlagInv, KillsHitTheirTarget
<1>6. \A i \in cancelled' : Flagged(i)'
  BY <1>1, <1>2 DEF FlagInv, Flagged, IsRender
<1>. QED BY <1>4, <1>5, <1>6 DEF FlagInv

LEMMA FlagFrame ==
  ASSUME FlagInv, kills' \subseteq kills, UNCHANGED <<req, task, row, containers, cancelled, history>>
  PROVE  FlagInv'
BY DEF FlagInv, KillsHitTheirTarget, Flagged, IsRender

LEMMA FlagSubmit ==
  ASSUME IInv, FlagInv, NEW j \in Jobs, Submit(j)
  PROVE  FlagInv'
<1>1. j \notin cancelled
  BY DEF IInv, CancelNeverSucceeds, Submit
<1>2. /\ UNCHANGED <<req, containers, cancelled, kills, history>>
      /\ \A i \in Jobs : i # j => task'[i] = task[i] /\ row'[i] = row[i]
      /\ cancelled \subseteq Jobs
  BY DEF Submit, Save, IInv, TypeOK
<1>3. \A i \in cancelled : Flagged(i)'
  BY <1>1, <1>2 DEF FlagInv, Flagged, IsRender
<1>. QED BY <1>2, <1>3 DEF FlagInv, KillsHitTheirTarget

LEMMA FlagReap ==
  ASSUME IInv, FlagInv, NEW keys, NEW elapsed \in SUBSET Reapable, Reap(keys, elapsed)
  PROVE  FlagInv'
<1>1. /\ UNCHANGED <<req, task, containers, cancelled, kills, history>>
      /\ cancelled \subseteq Jobs
      /\ \A i \in Jobs : ~row[i].expires => row'[i] = row[i]
  BY DEF Reap, Reapable, IInv, TypeOK
<1>2. \A i \in cancelled : Flagged(i)'
  BY <1>1 DEF FlagInv, Flagged, IsRender
<1>. QED BY <1>1, <1>2 DEF FlagInv, KillsHitTheirTarget

LEMMA Flags == Spec => []FlagInv
<1>1. Init => FlagInv
  BY DEF Init, FlagInv, KillsHitTheirTarget
<1>2. IInv /\ FlagInv /\ [Next]_vars => FlagInv'
  <2>. SUFFICES ASSUME IInv, FlagInv, [Next]_vars PROVE FlagInv'
    OBVIOUS
  <2>1. ASSUME NEW j \in Jobs, RenderStep(j) \/ GenerateStep(j) \/ Raise(j) PROVE FlagInv'
    BY <2>1, FlagWorker
  <2>2. ASSUME NEW j \in Jobs, Submit(j) PROVE FlagInv'
    BY <2>2, FlagSubmit
  <2>3. ASSUME NEW j \in Jobs, Cancel(j) PROVE FlagInv'
    BY <2>3, FlagCancel
  <2>4. ASSUME NEW k \in kills, KillDone(k) PROVE FlagInv'
    BY <2>4, FlagFrame DEF KillDone, workerVars
  <2>5. ASSUME NEW keys, NEW elapsed \in SUBSET Reapable, Reap(keys, elapsed) PROVE FlagInv'
    BY <2>5, FlagReap
  <2>6. CASE UNCHANGED vars
    BY <2>6, FlagFrame DEF vars
  <2>. QED BY <2>1, <2>2, <2>3, <2>4, <2>5, <2>6 DEF Next, Terminating
<1>. QED BY <1>1, <1>2, Invariance, PTL DEF Spec

\* However long a kill takes, it meets the container it was aimed at or none:
\* the flag is set before the kill is sent, and a flagged worker's next step
\* ends it, so that no later container takes the name (job_manager.py:109-120,
\* 270-278, 314-318).
THEOREM KillsAreExact == Spec => []KillsHitTheirTarget
<1>1. FlagInv => KillsHitTheirTarget
  BY DEF FlagInv
<1>. QED BY <1>1, Flags, PTL

\* A flagged render job ends CANCELLED unless a port raised, for any number of
\* jobs and permits (job_manager.py:133, 160).
THEOREM RenderCancelIsExact == Spec => []RenderCancelExact
<1>1. FlagInv => RenderCancelExact
  BY DEF FlagInv, Flagged, RenderCancelExact
<1>. QED BY <1>1, Flags, PTL
=============================================================================
