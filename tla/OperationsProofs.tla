-------------------------- MODULE OperationsProofs --------------------------
(***************************************************************************)
(* Proofs about Operations.  A stale update does no harm to these          *)
(* properties because what an invocation read was true when it read it and *)
(* stays true: done only grows, and an error once recorded stays recorded. *)
(***************************************************************************)
EXTENDS Operations, TLAPS

LEMMA StageOfIdle == Idle.stage = "idle" /\ Idle \in Calls
  BY DEF Idle, Calls

LEMMA RecordCallTyped ==
  ASSUME OpsTypeOK, NEW w \in Invocations, call[w].stage = "record"
  PROVE  /\ call[w].record \in Records /\ call[w].read \in RecordRows
         /\ call[w].action \in RecordActions /\ call[w].actor \in Users
         /\ call[w].at \in Times
  BY DEF OpsTypeOK, Calls, Idle

LEMMA JobCallTyped ==
  ASSUME OpsTypeOK, NEW w \in Invocations, call[w].stage = "job"
  PROVE  /\ call[w].job \in Jobs /\ call[w].action \in JobActions
         /\ call[w].attempts \in Nat
  BY DEF OpsTypeOK, Calls, Idle

(* The rows the two updates write. *)
LEMMA RecordAfterTyped ==
  ASSUME OpsTypeOK, NEW w \in Invocations, call[w].stage = "record", NEW row
  PROVE  /\ RecordAfter(row, call[w]) \in RecordRows
         /\ call[w].action = "publish" =>
              /\ RecordAfter(row, call[w]).status = "published"
              /\ RecordAfter(row, call[w]).publishedBy = call[w].actor
              /\ RecordAfter(row, call[w]).publishedAt = call[w].at
         /\ call[w].action # "publish" =>
              /\ RecordAfter(row, call[w]).status = "archived"
              /\ RecordAfter(row, call[w]).publishedBy = call[w].read.publishedBy
              /\ RecordAfter(row, call[w]).publishedAt = call[w].read.publishedAt
              /\ RecordAfter(row, call[w]).archivedAt = call[w].at
  BY RecordCallTyped DEF RecordAfter, RecordRows

LEMMA JobToTyped ==
  ASSUME NEW action \in JobActions
  PROVE  /\ action = "start" => JobTo(action) = "running"
         /\ action = "succeed" => JobTo(action) = "succeeded"
         /\ action = "fail" => JobTo(action) = "failed"
         /\ action = "retry" => JobTo(action) = "queued"
         /\ action = "cancel" => JobTo(action) = "canceled"
  BY DEF JobTo, JobActions

LEMMA JobAfterTyped ==
  ASSUME NEW row \in JobRows, NEW c, c.action \in JobActions, c.attempts \in Nat
  PROVE  /\ JobAfter(row, c) \in JobRows
         /\ JobAfter(row, c).status = JobTo(c.action)
         /\ JobAfter(row, c).started =
              (c.action = "start" \/ (row.started /\ c.action # "retry"))
         /\ JobAfter(row, c).finished =
              (c.action \in {"succeed", "fail"} \/ (row.finished /\ c.action # "retry"))
         /\ JobAfter(row, c).error = (c.action = "fail" \/ row.error)
         /\ JobAfter(row, c).attempts =
              IF c.action = "retry" THEN c.attempts + 1 ELSE row.attempts
  <1>1. JobTo(c.action) \in {"queued", "running", "succeeded", "failed", "canceled"}
    BY JobToTyped DEF JobActions
  <1>2. (c.action = "start" \/ (row.started /\ c.action # "retry")) \in BOOLEAN
    OBVIOUS
  <1>3. (c.action \in {"succeed", "fail"} \/ (row.finished /\ c.action # "retry"))
          \in BOOLEAN
    OBVIOUS
  <1>4. (c.action = "fail" \/ row.error) \in BOOLEAN OBVIOUS
  <1>5. (IF c.action = "retry" THEN c.attempts + 1 ELSE row.attempts) \in Nat
    BY DEF JobRows
  <1> QED BY <1>1, <1>2, <1>3, <1>4, <1>5 DEF JobAfter, JobRows
-----------------------------------------------------------------------------
LEMMA InitType == Init => OpsTypeOK
  BY TimeAssumption
     DEF Init, OpsTypeOK, Times, JobRows, NewJob, Metrics, NoMetric, Calls, NoRow, Idle

LEMMA StepType ==
  ASSUME OpsTypeOK, [Next]_vars
  PROVE  OpsTypeOK'
  <1>1. CASE UNCHANGED vars BY <1>1 DEF OpsTypeOK, vars
  <1>2. ASSUME NEW w \in Invocations, NEW r \in Records, NEW action \in RecordActions,
               NEW u \in Users, ReadRecord(w, r, action, u)
        PROVE  OpsTypeOK'
    <2>1. record[r] \in RecordRows
      BY <1>2 DEF OpsTypeOK, ReadRecord, RecordFrom, NoRow
    <2>2. clock' \in Times BY <1>2, TimeAssumption DEF OpsTypeOK, ReadRecord, Tick, Times
    <2>3. [stage |-> "record", record |-> r, read |-> record[r], action |-> action,
           actor |-> u, at |-> clock] \in Calls
      BY <2>1 DEF Calls, OpsTypeOK
    <2> QED BY <1>2, <2>2, <2>3 DEF OpsTypeOK, ReadRecord, Become
  <1>3. ASSUME NEW w \in Invocations, NEW j \in Jobs, NEW action \in JobActions,
               ReadJob(w, j, action)
        PROVE  OpsTypeOK'
    <2>1. job[j].attempts \in Nat BY DEF OpsTypeOK, JobRows
    <2>2. clock' \in Times BY <1>3, TimeAssumption DEF OpsTypeOK, ReadJob, Tick, Times
    <2>3. [stage |-> "job", job |-> j, action |-> action,
           attempts |-> job[j].attempts] \in Calls
      BY <2>1 DEF Calls
    <2> QED BY <1>3, <2>2, <2>3 DEF OpsTypeOK, ReadJob, Become
  <1>4. ASSUME NEW w \in Invocations, UpdateRecord(w) PROVE OpsTypeOK'
    <2>1. /\ call[w].record \in Records /\ call[w].action \in RecordActions
          /\ call[w].actor \in Users /\ call[w].at \in Times
      BY <1>4, RecordCallTyped DEF UpdateRecord
    <2>2. RecordAfter(record[call[w].record], call[w]) \in RecordRows
      BY <1>4, RecordAfterTyped DEF UpdateRecord
    <2>3. done' \subseteq Transitions
      BY <1>4, <2>1 DEF UpdateRecord, OpsTypeOK, Transitions
    <2> QED BY <1>4, <2>1, <2>2, <2>3, StageOfIdle DEF OpsTypeOK, UpdateRecord, Become
  <1>5. ASSUME NEW w \in Invocations, UpdateJob(w) PROVE OpsTypeOK'
    <2>1. /\ call[w].job \in Jobs /\ call[w].action \in JobActions
          /\ call[w].attempts \in Nat
      BY <1>5, JobCallTyped DEF UpdateJob
    <2>2. JobAfter(job[call[w].job], call[w]) \in JobRows
      BY <2>1, JobAfterTyped DEF OpsTypeOK
    <2> QED BY <1>5, <2>1, <2>2, StageOfIdle DEF OpsTypeOK, UpdateJob, Become
  <1>6. ASSUME NEW w \in Invocations, Die(w) PROVE OpsTypeOK'
    BY <1>6, StageOfIdle DEF OpsTypeOK, Die, Become
  <1>7. ASSUME NEW r \in Records, CreateRecord(r) PROVE OpsTypeOK'
    BY <1>7 DEF OpsTypeOK, CreateRecord, NewRecord, RecordRows
  <1>8. ASSUME NEW d \in Days, NEW n \in Increments, RecordEvent(d, n) PROVE OpsTypeOK'
    <2>1. metric[d] \in Metrics /\ n \in Nat BY GroupAssumption DEF OpsTypeOK
    <2> DEFINE flag == IF metric[d].exists THEN FlagAfter(metric[d], n)
                                           ELSE n >= MinGroupSize
               row == [exists |-> TRUE, count |-> metric[d].count + n, flag |-> flag]
    <2>2. metric[d].count + n \in Nat BY <2>1 DEF Metrics
    <2>3. flag \in BOOLEAN
      <3>1. FlagAfter(metric[d], n) \in BOOLEAN BY DEF FlagAfter
      <3>2. (n >= MinGroupSize) \in BOOLEAN OBVIOUS
      <3> QED BY <3>1, <3>2
    <2> HIDE DEF flag
    <2>4. row \in Metrics BY <2>2, <2>3 DEF Metrics
    <2>5. metric' = [metric EXCEPT ![d] = row] /\ UNCHANGED <<record, job, clock, done, call>>
      BY <1>8 DEF RecordEvent, flag
    <2> HIDE DEF row
    <2> QED BY <2>4, <2>5 DEF OpsTypeOK
  <1> QED BY <1>1, <1>2, <1>3, <1>4, <1>5, <1>6, <1>7, <1>8 DEF Next

(* OpsTypeOK: the rows and what each invocation has read. *)
THEOREM OperationsTyped == Spec => []OpsTypeOK
  BY InitType, StepType, PTL DEF Spec
-----------------------------------------------------------------------------
(* The trail.  What a transition read was stamped truly when it read it,    *)
(* and done only grows.                                                     *)
ReadsStamped ==
    \A w \in Invocations : call[w].stage = "record" =>
      StampedTruly(call[w].record, call[w].read)
TrailInv == OpsTypeOK /\ TrailIsTrue /\ ReadsStamped

LEMMA StampKept ==
  ASSUME NEW r, NEW row, StampedTruly(r, row), done \subseteq done'
  PROVE  StampedTruly(r, row)'
  BY DEF StampedTruly

LEMMA StepTrail ==
  ASSUME TrailInv, [Next]_vars
  PROVE  TrailIsTrue' /\ ReadsStamped'
  <1>1. OpsTypeOK /\ TrailIsTrue /\ ReadsStamped BY DEF TrailInv
  <1>2. ASSUME NEW r, NEW row, StampedTruly(r, row), done' = done
        PROVE  StampedTruly(r, row)'
    BY <1>2, StampKept
  <1>3. ASSUME UNCHANGED <<record, done>>
        PROVE  TrailIsTrue'
    BY <1>1, <1>3 DEF TrailIsTrue, StampedTruly
  <1>4. ASSUME UNCHANGED <<call, done>>
        PROVE  ReadsStamped'
    BY <1>1, <1>4 DEF ReadsStamped, StampedTruly
  <1>5. ASSUME NEW w \in Invocations, NEW state, Become(w, state), done' = done,
               state.stage = "record" => StampedTruly(state.record, state.read)
        PROVE  ReadsStamped'
    <2>1. \A v \in Invocations : call'[v] = IF v = w THEN state ELSE call[v]
      BY <1>1, <1>5 DEF Become, OpsTypeOK
    <2> QED BY <1>1, <1>5, <2>1 DEF ReadsStamped, StampedTruly
  <1>6. CASE UNCHANGED vars BY <1>3, <1>4, <1>6 DEF vars
  <1>7. ASSUME NEW w \in Invocations, NEW r \in Records, NEW action \in RecordActions,
               NEW u \in Users, ReadRecord(w, r, action, u)
        PROVE  TrailIsTrue' /\ ReadsStamped'
    <2> DEFINE state == [stage |-> "record", record |-> r, read |-> record[r],
                         action |-> action, actor |-> u, at |-> clock]
    <2>1. record[r] # NoRow BY <1>7 DEF ReadRecord, RecordFrom, NoRow
    <2>2. StampedTruly(r, record[r]) BY <1>1, <2>1 DEF TrailIsTrue
    <2>3. state.record = r /\ state.read = record[r] OBVIOUS
    <2>4. Become(w, state) /\ UNCHANGED <<record, done>> BY <1>7 DEF ReadRecord
    <2> HIDE DEF state
    <2> QED BY <1>3, <1>5, <2>2, <2>3, <2>4
  <1>8. ASSUME NEW w \in Invocations, NEW j \in Jobs, NEW action \in JobActions,
               ReadJob(w, j, action)
        PROVE  TrailIsTrue' /\ ReadsStamped'
    <2> DEFINE state == [stage |-> "job", job |-> j, action |-> action,
                         attempts |-> job[j].attempts]
    <2>1. state.stage # "record" OBVIOUS
    <2>2. Become(w, state) /\ UNCHANGED <<record, done>> BY <1>8 DEF ReadJob
    <2> HIDE DEF state
    <2> QED BY <1>3, <1>5, <2>1, <2>2
  <1>9. ASSUME NEW w \in Invocations, UpdateRecord(w) PROVE TrailIsTrue' /\ ReadsStamped'
    <2> DEFINE c == call[w]
               row == RecordAfter(record[c.record], c)
               entry == [record |-> c.record, action |-> c.action, actor |-> c.actor,
                         at |-> c.at]
    <2>1. /\ c.stage = "record" /\ done' = done \cup {entry} /\ call' = [call EXCEPT ![w] = Idle]
          /\ record' = [record EXCEPT ![c.record] = row]
      BY <1>9 DEF UpdateRecord, Become
    <2>2. /\ c.record \in Records /\ c.read \in RecordRows /\ c.action \in RecordActions
          /\ c.actor \in Users /\ c.at \in Times
      BY <1>1, <2>1, RecordCallTyped
    <2>3. c.actor # None /\ c.at # None BY <2>2, NullAssumption DEF Times
    <2>4. StampedTruly(c.record, c.read) BY <1>1, <2>1 DEF ReadsStamped
    <2>5. /\ \/ row.publishedBy = None /\ row.publishedAt = None
             \/ [record |-> c.record, action |-> "publish",
                 actor |-> row.publishedBy, at |-> row.publishedAt] \in done'
          /\ row.status = "published" => row.publishedBy # None
          /\ row.status = "archived" => row.archivedAt # None
      <3>1. CASE c.action = "publish"
        <4>1. /\ row.status = "published" /\ row.publishedBy = c.actor
              /\ row.publishedAt = c.at
          BY <1>1, <2>1, <3>1, RecordAfterTyped
        <4>2. [record |-> c.record, action |-> "publish", actor |-> c.actor,
               at |-> c.at] \in done'
          BY <2>1, <3>1
        <4> HIDE DEF row, c
        <4> QED BY <2>3, <4>1, <4>2
      <3>2. CASE c.action # "publish"
        <4>1. /\ row.status = "archived" /\ row.publishedBy = c.read.publishedBy
              /\ row.publishedAt = c.read.publishedAt /\ row.archivedAt = c.at
          BY <1>1, <2>1, <3>2, RecordAfterTyped
        <4> HIDE DEF row, c, entry
        <4>2. done \subseteq done' BY <2>1
        <4> QED BY <2>3, <2>4, <4>1, <4>2 DEF StampedTruly
      <3> QED BY <3>1, <3>2
    <2>6. TrailIsTrue'
      <3> SUFFICES ASSUME NEW r \in Records, record'[r] # NoRow
                   PROVE  StampedTruly(r, record[r])'
        BY DEF TrailIsTrue
      <3>1. CASE r = c.record
        <4>1. record'[r] = row BY <1>1, <2>1, <3>1 DEF OpsTypeOK
        <4> HIDE DEF row
        <4> QED BY <2>5, <3>1, <4>1 DEF StampedTruly
      <3>2. CASE r # c.record
        <4>1. record'[r] = record[r] BY <1>1, <2>1, <2>2, <3>2 DEF OpsTypeOK
        <4>2. StampedTruly(r, record[r]) BY <1>1, <4>1 DEF TrailIsTrue
        <4> HIDE DEF entry
        <4>3. done \subseteq done' BY <2>1
        <4> QED BY <4>1, <4>2, <4>3 DEF StampedTruly
      <3> QED BY <3>1, <3>2
    <2>7. ReadsStamped'
      <3> SUFFICES ASSUME NEW v \in Invocations, call'[v].stage = "record"
                   PROVE  StampedTruly(call[v].record, call[v].read)'
        BY DEF ReadsStamped
      <3>1. call'[v] = call[v] BY <1>1, <2>1, StageOfIdle DEF OpsTypeOK
      <3>2. StampedTruly(call[v].record, call[v].read) BY <1>1, <3>1 DEF ReadsStamped
      <3> HIDE DEF entry
      <3>3. done \subseteq done' BY <2>1
      <3> QED BY <3>1, <3>2, <3>3 DEF StampedTruly
    <2> QED BY <2>6, <2>7
  <1>10. ASSUME NEW w \in Invocations, UpdateJob(w) PROVE TrailIsTrue' /\ ReadsStamped'
    BY <1>3, <1>5, <1>10, StageOfIdle DEF UpdateJob
  <1>11. ASSUME NEW w \in Invocations, Die(w) PROVE TrailIsTrue' /\ ReadsStamped'
    BY <1>3, <1>5, <1>11, StageOfIdle DEF Die
  <1>12. ASSUME NEW r \in Records, CreateRecord(r) PROVE TrailIsTrue' /\ ReadsStamped'
    <2>1. \A s \in Records : record'[s] = IF s = r THEN NewRecord ELSE record[s]
      BY <1>1, <1>12 DEF CreateRecord, OpsTypeOK
    <2>2. TrailIsTrue'
      BY <1>1, <1>12, <2>1 DEF TrailIsTrue, StampedTruly, NewRecord, CreateRecord
    <2>3. ReadsStamped' BY <1>4, <1>12 DEF CreateRecord
    <2> QED BY <2>2, <2>3
  <1>13. ASSUME NEW d \in Days, NEW n \in Increments, RecordEvent(d, n)
         PROVE  TrailIsTrue' /\ ReadsStamped'
    BY <1>3, <1>4, <1>13 DEF RecordEvent
  <1> QED BY <1>6, <1>7, <1>8, <1>9, <1>10, <1>11, <1>12, <1>13 DEF Next

(* TrailIsTrue: stale transitions may write an earlier publication back or  *)
(* out, but the publisher and the time of a row are always of one           *)
(* publication that took place, and a published row has them.               *)
THEOREM TrailHolds == Spec => []TrailIsTrue
  <1>1. Init => TrailInv
    BY InitType, StageOfIdle DEF Init, TrailInv, TrailIsTrue, ReadsStamped
  <1>2. TrailInv /\ [Next]_vars => TrailInv' BY StepType, StepTrail DEF TrailInv
  <1>3. Spec => []TrailInv BY <1>1, <1>2, PTL DEF Spec
  <1> QED BY <1>3, PTL DEF TrailInv
-----------------------------------------------------------------------------
(* Jobs.  A retry found an error on record, and errors are never removed.   *)
RetriesFailed ==
    \A w \in Invocations : call[w].stage = "job" /\ call[w].action = "retry" =>
      job[call[w].job].error
JobInv == OpsTypeOK /\ JobsAuditable /\ RetriesFailed

LEMMA StepJobs ==
  ASSUME JobInv, [Next]_vars
  PROVE  JobsAuditable' /\ RetriesFailed'
  <1>1. OpsTypeOK /\ JobsAuditable /\ RetriesFailed BY DEF JobInv
  <1>2. ASSUME UNCHANGED job PROVE JobsAuditable'
    BY <1>1, <1>2 DEF JobsAuditable
  <1>3. ASSUME UNCHANGED <<job, call>> PROVE RetriesFailed'
    BY <1>1, <1>3 DEF RetriesFailed
  <1>4. ASSUME NEW w \in Invocations, NEW state, Become(w, state), job' = job,
               state.stage = "job" /\ state.action = "retry" => job[state.job].error
        PROVE  RetriesFailed'
    <2>1. \A v \in Invocations : call'[v] = IF v = w THEN state ELSE call[v]
      BY <1>1, <1>4 DEF Become, OpsTypeOK
    <2> QED BY <1>1, <1>4, <2>1 DEF RetriesFailed
  <1>5. CASE UNCHANGED vars BY <1>2, <1>3, <1>5 DEF vars
  <1>6. ASSUME NEW w \in Invocations, NEW r \in Records, NEW action \in RecordActions,
               NEW u \in Users, ReadRecord(w, r, action, u)
        PROVE  JobsAuditable' /\ RetriesFailed'
    <2> DEFINE state == [stage |-> "record", record |-> r, read |-> record[r],
                         action |-> action, actor |-> u, at |-> clock]
    <2>1. state.stage # "job" OBVIOUS
    <2>2. Become(w, state) /\ UNCHANGED job BY <1>6 DEF ReadRecord
    <2> HIDE DEF state
    <2> QED BY <1>2, <1>4, <2>1, <2>2
  <1>7. ASSUME NEW w \in Invocations, NEW j \in Jobs, NEW action \in JobActions,
               ReadJob(w, j, action)
        PROVE  JobsAuditable' /\ RetriesFailed'
    <2> DEFINE state == [stage |-> "job", job |-> j, action |-> action,
                         attempts |-> job[j].attempts]
    <2>1. state.action = action /\ state.job = j OBVIOUS
    <2>2. Become(w, state) /\ UNCHANGED job BY <1>7 DEF ReadJob
    <2>3. action = "retry" => job[j].error
      BY <1>1, <1>7 DEF ReadJob, JobFrom, JobsAuditable, JobFits
    <2> HIDE DEF state
    <2> QED BY <1>2, <1>4, <2>1, <2>2, <2>3
  <1>8. ASSUME NEW w \in Invocations, UpdateRecord(w) PROVE JobsAuditable' /\ RetriesFailed'
    BY <1>2, <1>4, <1>8, StageOfIdle DEF UpdateRecord
  <1>9. ASSUME NEW w \in Invocations, UpdateJob(w) PROVE JobsAuditable' /\ RetriesFailed'
    <2> DEFINE c == call[w]
               row == job[c.job]
    <2>1. /\ c.stage = "job" /\ call' = [call EXCEPT ![w] = Idle]
          /\ job' = [job EXCEPT ![c.job] = JobAfter(row, c)]
      BY <1>9 DEF UpdateJob, Become
    <2>2. c.job \in Jobs /\ c.action \in JobActions /\ c.attempts \in Nat
      BY <1>1, <2>1, JobCallTyped
    <2>3. row \in JobRows BY <1>1, <2>2 DEF OpsTypeOK
    <2>4. JobFits(row) BY <1>1, <2>2 DEF JobsAuditable
    <2>5. c.action = "retry" => row.error BY <1>1, <2>1 DEF RetriesFailed
    <2>6. \A j \in Jobs : job'[j] = IF j = c.job THEN JobAfter(row, c) ELSE job[j]
      BY <1>1, <2>1 DEF OpsTypeOK
    <2>7. /\ JobAfter(row, c).status = JobTo(c.action)
          /\ JobAfter(row, c).started =
               (c.action = "start" \/ (row.started /\ c.action # "retry"))
          /\ JobAfter(row, c).finished =
               (c.action \in {"succeed", "fail"} \/ (row.finished /\ c.action # "retry"))
          /\ JobAfter(row, c).error = (c.action = "fail" \/ row.error)
          /\ JobAfter(row, c).attempts =
               IF c.action = "retry" THEN c.attempts + 1 ELSE row.attempts
      BY <2>2, <2>3, JobAfterTyped
    <2>8. JobFits(JobAfter(row, c))
      <3>1. /\ c.action = "start" => JobTo(c.action) = "running"
            /\ c.action = "succeed" => JobTo(c.action) = "succeeded"
            /\ c.action = "fail" => JobTo(c.action) = "failed"
            /\ c.action = "retry" => JobTo(c.action) = "queued"
            /\ c.action = "cancel" => JobTo(c.action) = "canceled"
        BY <2>2, JobToTyped
      <3>2. \/ c.action = "start" \/ c.action = "succeed" \/ c.action = "fail"
            \/ c.action = "retry" \/ c.action = "cancel"
        BY <2>2 DEF JobActions
      <3> HIDE DEF row, c
      <3> QED BY <2>4, <2>5, <2>7, <3>1, <3>2 DEF JobFits
    <2>9. JobsAuditable' BY <1>1, <2>6, <2>8 DEF JobsAuditable
    <2>10. ASSUME NEW v \in Invocations, call'[v].stage = "job", call'[v].action = "retry"
           PROVE  job'[call'[v].job].error
      <3>1. call'[v] = call[v] BY <1>1, <2>1, <2>10, StageOfIdle DEF OpsTypeOK
      <3>2. call[v].job \in Jobs /\ job[call[v].job].error
        BY <1>1, <2>10, <3>1, JobCallTyped DEF RetriesFailed
      <3> HIDE DEF c, row
      <3>3. CASE call[v].job = c.job BY <2>6, <2>7, <3>1, <3>2, <3>3 DEF row
      <3>4. CASE call[v].job # c.job BY <2>6, <3>1, <3>2, <3>4
      <3> QED BY <3>3, <3>4
    <2> QED BY <2>9, <2>10 DEF RetriesFailed
  <1>10. ASSUME NEW w \in Invocations, Die(w) PROVE JobsAuditable' /\ RetriesFailed'
    BY <1>2, <1>4, <1>10, StageOfIdle DEF Die
  <1>11. ASSUME NEW r \in Records, CreateRecord(r) PROVE JobsAuditable' /\ RetriesFailed'
    BY <1>2, <1>3, <1>11 DEF CreateRecord
  <1>12. ASSUME NEW d \in Days, NEW n \in Increments, RecordEvent(d, n)
         PROVE  JobsAuditable' /\ RetriesFailed'
    BY <1>2, <1>3, <1>12 DEF RecordEvent
  <1> QED BY <1>5, <1>6, <1>7, <1>8, <1>9, <1>10, <1>11, <1>12 DEF Next

(* JobsAuditable: whatever order the actions of several consoles come in, a *)
(* queued job shows no run, a finished one when it finished, and one that   *)
(* failed or was retried its error.                                         *)
THEOREM JobsStayAuditable == Spec => []JobsAuditable
  <1>1. Init => JobInv
    BY InitType, StageOfIdle DEF Init, JobInv, JobsAuditable, JobFits, NewJob, RetriesFailed
  <1>2. JobInv /\ [Next]_vars => JobInv' BY StepType, StepJobs DEF JobInv
  <1>3. Spec => []JobInv BY <1>1, <1>2, PTL DEF Spec
  <1> QED BY <1>3, PTL DEF JobInv
-----------------------------------------------------------------------------
(* Metrics *)
NoUsersWithoutRow ==
    \A d \in Days : ~metric[d].exists => metric[d].count = 0 /\ ~metric[d].flag
MetricInv == OpsTypeOK /\ LargeGroupsFlagged /\ FlagMeansHalf /\ NoUsersWithoutRow

LEMMA StepMetric ==
  ASSUME MetricInv, [Next]_vars
  PROVE  LargeGroupsFlagged' /\ FlagMeansHalf' /\ NoUsersWithoutRow'
  <1>1. OpsTypeOK /\ LargeGroupsFlagged /\ FlagMeansHalf /\ NoUsersWithoutRow
    BY DEF MetricInv
  <1>2. CASE UNCHANGED metric
    BY <1>1, <1>2 DEF LargeGroupsFlagged, FlagMeansHalf, NoUsersWithoutRow
  <1>3. CASE \E d \in Days, n \in Increments : RecordEvent(d, n)
    <2>1. PICK d \in Days, n \in Increments : RecordEvent(d, n) BY <1>3
    <2> DEFINE flag == IF metric[d].exists THEN FlagAfter(metric[d], n)
                                           ELSE n >= MinGroupSize
               row == [exists |-> TRUE, count |-> metric[d].count + n, flag |-> flag]
    <2>2. \A e \in Days : metric'[e] = IF e = d THEN row ELSE metric[e]
      BY <1>1, <2>1 DEF RecordEvent, OpsTypeOK
    <2>3. row.exists /\ row.count = metric[d].count + n /\ row.flag = flag OBVIOUS
    <2>4. /\ metric[d].count \in Nat /\ metric[d].flag \in BOOLEAN
          /\ metric[d].exists \in BOOLEAN /\ n \in Nat /\ MinGroupSize \in Nat
      BY <1>1, GroupAssumption DEF OpsTypeOK, Metrics
    <2>5. /\ metric[d].count >= MinGroupSize => metric[d].flag
          /\ metric[d].flag => 2 * metric[d].count >= MinGroupSize
          /\ ~metric[d].exists => metric[d].count = 0
      BY <1>1 DEF LargeGroupsFlagged, FlagMeansHalf, NoUsersWithoutRow
    <2>6. /\ metric[d].count + n >= MinGroupSize => flag
          /\ flag => 2 * (metric[d].count + n) >= MinGroupSize
      <3>1. CASE metric[d].exists
        <4>1. flag <=> metric[d].flag \/ metric[d].count + n + n >= MinGroupSize
          BY <3>1 DEF FlagAfter
        <4> HIDE DEF flag
        <4> QED BY <2>4, <2>5, <4>1
      <3>2. CASE ~metric[d].exists
        <4>1. flag <=> n >= MinGroupSize BY <3>2
        <4> HIDE DEF flag
        <4> QED BY <2>4, <2>5, <3>2, <4>1
      <3> QED BY <3>1, <3>2
    <2> HIDE DEF flag, row
    <2> QED BY <1>1, <2>2, <2>3, <2>6
            DEF LargeGroupsFlagged, FlagMeansHalf, NoUsersWithoutRow
  <1> QED BY <1>2, <1>3 DEF Next, vars, ReadRecord, ReadJob, UpdateRecord, UpdateJob,
             Die, CreateRecord

LEMMA MetricsInvariant == Spec => []MetricInv
  <1>1. Init => MetricInv
    <2> SUFFICES ASSUME Init PROVE MetricInv OBVIOUS
    <2>1. \A d \in Days : metric[d].count = 0 /\ ~metric[d].exists /\ ~metric[d].flag
      BY DEF Init, NoMetric
    <2>2. NoUsersWithoutRow /\ FlagMeansHalf
      BY <2>1 DEF NoUsersWithoutRow, FlagMeansHalf
    <2>3. LargeGroupsFlagged
      BY <2>1, GroupAssumption DEF LargeGroupsFlagged
    <2> QED BY <2>2, <2>3, InitType DEF MetricInv
  <1>2. MetricInv /\ [Next]_vars => MetricInv' BY StepType, StepMetric DEF MetricInv
  <1> QED BY <1>1, <1>2, PTL DEF Spec

(* LargeGroupsFlagged: a day with MIN_GROUP_SIZE distinct users is flagged  *)
(* whatever increments made them up.                                        *)
THEOREM GroupsFlagged == Spec => []LargeGroupsFlagged
  BY MetricsInvariant, PTL DEF MetricInv

(* FlagMeansHalf: the increment that raised the flag counts twice, and no   *)
(* more than that, for every MIN_GROUP_SIZE and all increments.             *)
THEOREM FlagsMeanHalf == Spec => []FlagMeansHalf
  BY MetricsInvariant, PTL DEF MetricInv
=============================================================================
