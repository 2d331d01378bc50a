----------------------------- MODULE Operations -----------------------------
(***************************************************************************)
(* The console's daily work: notices, recommendation policies, the status  *)
(* of publish jobs and the daily metrics of a destination.  None of it is  *)
(* one transaction: a transition reads a row, checks it, and updates it by *)
(* id with a second statement that trusts what was read.  A notice and a   *)
(* policy are written back whole, a job in the columns of its action, and  *)
(* the metrics of a day by one atomic upsert.                              *)
(***************************************************************************)
EXTENDS Naturals

CONSTANTS
    Records,        \* admin_notices.id and admin_recommendation_policies.id
    Jobs,           \* admin_publish_jobs.id
    Days,           \* (monthly_curated_destination_id, metric_date) pairs
    Users,          \* users.id of administrators
    Invocations,    \* concurrent Lambda invocations
    Increments,     \* values of distinctUserIncrement the API takes
    MinGroupSize,   \* MIN_GROUP_SIZE
    MaxTime,        \* bounds the clock, and with it the transitions
    MaxUsers,       \* bounds distinct_user_count
    None            \* NULL

ASSUME GroupAssumption == MinGroupSize \in Nat \ {0} /\ Increments \subseteq Nat
ASSUME NullAssumption == None \notin Users /\ None \notin Nat
ASSUME TimeAssumption == MaxTime \in Nat

VARIABLES
    record,     \* record id -> row of a notice or a policy, or NoRow
    job,        \* job id -> row of a publish job
    metric,     \* day -> row of destination_metrics_daily, or NoMetric
    clock,      \* time, which every transition reads first
    done,       \* transitions of records that were carried out
    call        \* invocation -> what it read and will write, or Idle

vars == <<record, job, metric, clock, done, call>>

NoRow == [status |-> "no_row"]
NoMetric == [exists |-> FALSE, count |-> 0, flag |-> FALSE]
Idle == [stage |-> "idle"]

(* NOTICE_TRANSITIONS; POLICY_TRANSITIONS says activate and active for      *)
(* publish and published.                                                   *)
RecordActions == {"publish", "archive"}
RecordFrom(action) ==
    IF action = "publish" THEN {"draft", "archived"} ELSE {"draft", "published"}

(* PUBLISH_JOB_TRANSITIONS *)
JobActions == {"start", "succeed", "fail", "retry", "cancel"}
JobFrom(action) ==
    CASE action = "start"   -> {"queued"}
      [] action = "succeed" -> {"running"}
      [] action = "fail"    -> {"queued", "running"}
      [] action = "retry"   -> {"failed"}
      [] action = "cancel"  -> {"queued", "running"}
(* A job's status is set to the action itself. *)
BugStatusIsAction(action) == action
JobTo(action) ==
    CASE action = "start"   -> "running"
      [] action = "succeed" -> "succeeded"
      [] action = "fail"    -> "failed"
      [] action = "retry"   -> "queued"
      [] action = "cancel"  -> "canceled"

(* _build_notice, _build_policy *)
NewRecord ==
    [status |-> "draft", publishedBy |-> None, publishedAt |-> None,
     archivedAt |-> None]

(* _build_job; lastErrorCode as whether there is one. *)
NewJob ==
    [status |-> "queued", attempts |-> 0, started |-> FALSE, finished |-> FALSE,
     error |-> FALSE]

Init ==
    /\ record = [r \in Records |-> NoRow]
    /\ job = [j \in Jobs |-> NewJob]
    /\ metric = [d \in Days |-> NoMetric]
    /\ clock = 0
    /\ done = {}
    /\ call = [w \in Invocations |-> Idle]

Become(w, state) == call' = [call EXCEPT ![w] = state]
Tick == clock < MaxTime /\ clock' = clock + 1
-----------------------------------------------------------------------------
(* Notices and policies *)
CreateRecord(r) ==
    /\ record[r] = NoRow
    /\ record' = [record EXCEPT ![r] = NewRecord]
    /\ UNCHANGED <<job, metric, clock, done, call>>

(* transition_notice and transition_policy, up to the UPDATE *)
ReadRecord(w, r, action, u) ==
    /\ call[w] = Idle
    /\ record[r].status \in RecordFrom(action)
    /\ Tick
    /\ Become(w, [stage |-> "record", record |-> r, read |-> record[r],
                  action |-> action, actor |-> u, at |-> clock])
    /\ UNCHANGED <<record, job, metric, done>>

(* The UPDATE leaves published_by out of its SET. *)
BugPublisherNotSet(row, c) ==
    IF c.action = "publish"
      THEN [c.read EXCEPT !.status = "published", !.publishedAt = c.at,
                          !.publishedBy = row.publishedBy]
      ELSE [c.read EXCEPT !.status = "archived", !.archivedAt = c.at]

(* The row the UPDATE leaves: all of it is what was read, with the stamps   *)
(* of the action.                                                           *)
RecordAfter(row, c) ==
    IF c.action = "publish"
      THEN [c.read EXCEPT !.status = "published", !.publishedAt = c.at,
                          !.publishedBy = c.actor]
      ELSE [c.read EXCEPT !.status = "archived", !.archivedAt = c.at]

UpdateRecord(w) ==
    LET c == call[w] IN
    /\ c.stage = "record"
    /\ record' = [record EXCEPT ![c.record] = RecordAfter(@, c)]
    /\ done' = done \cup
                 {[record |-> c.record, action |-> c.action, actor |-> c.actor,
                   at |-> c.at]}
    /\ Become(w, Idle)
    /\ UNCHANGED <<job, metric, clock>>
-----------------------------------------------------------------------------
(* Publish jobs *)
ReadJob(w, j, action) ==
    /\ call[w] = Idle
    /\ job[j].status \in JobFrom(action)
    /\ Tick
    /\ Become(w, [stage |-> "job", job |-> j, action |-> action,
                  attempts |-> job[j].attempts])
    /\ UNCHANGED <<record, job, metric, done>>

(* retry clears the error of the last run and keeps when that run ended. *)
BugRetryClearsError(row, c) ==
    [row EXCEPT
       !.status = JobTo(c.action),
       !.started = c.action = "start" \/ (@ /\ c.action # "retry"),
       !.finished = c.action \in {"succeed", "fail"} \/ @,
       !.error = c.action = "fail" \/ (@ /\ c.action # "retry"),
       !.attempts = IF c.action = "retry" THEN c.attempts + 1 ELSE @]

(* _transition_updates and _row_params_subset *)
JobAfter(row, c) ==
    [row EXCEPT
       !.status = JobTo(c.action),
       !.started = c.action = "start" \/ (@ /\ c.action # "retry"),
       !.finished = c.action \in {"succeed", "fail"} \/ (@ /\ c.action # "retry"),
       !.error = c.action = "fail" \/ @,
       !.attempts = IF c.action = "retry" THEN c.attempts + 1 ELSE @]

UpdateJob(w) ==
    /\ call[w].stage = "job"
    /\ job' = [job EXCEPT ![call[w].job] = JobAfter(@, call[w])]
    /\ Become(w, Idle)
    /\ UNCHANGED <<record, metric, clock, done>>
-----------------------------------------------------------------------------
(* Metrics *)

(* An existing row is flagged by the size of one event alone. *)
BugEventAlone(row, n) == row.flag \/ n >= MinGroupSize
(* The flag adds :increment, the number of events, where it means users. *)
BugWrongIncrement(row, n) == row.flag \/ row.count + n + 3 >= MinGroupSize

(* IF(distinct_user_count + :distinct_user_increment >= ...) comes after    *)
(* distinct_user_count = distinct_user_count + :distinct_user_increment in  *)
(* ON DUPLICATE KEY UPDATE, and MySQL assigns from left to right: it has n  *)
(* in it twice.                                                             *)
FlagAfter(row, n) == row.flag \/ row.count + n + n >= MinGroupSize

(* record_event: a first event inserts the row of its day. *)
RecordEvent(d, n) ==
    /\ metric[d].count + n <= MaxUsers
    /\ metric' = [metric EXCEPT ![d] =
         [exists |-> TRUE, count |-> @.count + n,
          flag |-> IF @.exists THEN FlagAfter(@, n) ELSE n >= MinGroupSize]]
    /\ UNCHANGED <<record, job, clock, done, call>>
-----------------------------------------------------------------------------
(* The invocation ends before its UPDATE. *)
Die(w) ==
    /\ call[w] # Idle
    /\ Become(w, Idle)
    /\ UNCHANGED <<record, job, metric, clock, done>>

Next ==
    \/ \E w \in Invocations :
         \/ \E r \in Records, action \in RecordActions, u \in Users :
              ReadRecord(w, r, action, u)
         \/ \E j \in Jobs, action \in JobActions : ReadJob(w, j, action)
         \/ UpdateRecord(w) \/ UpdateJob(w) \/ Die(w)
    \/ \E r \in Records : CreateRecord(r)
    \/ \E d \in Days, n \in Increments : RecordEvent(d, n)

Spec == Init /\ [][Next]_vars
-----------------------------------------------------------------------------
(* Properties *)
Times == 0 .. MaxTime
RecordRows ==
    [status : {"draft", "published", "archived"}, publishedBy : Users \cup {None},
     publishedAt : Times \cup {None}, archivedAt : Times \cup {None}]
JobRows ==
    [status : {"queued", "running", "succeeded", "failed", "canceled"},
     attempts : Nat, started : BOOLEAN, finished : BOOLEAN, error : BOOLEAN]
Metrics == [exists : BOOLEAN, count : Nat, flag : BOOLEAN]
Calls ==
    {Idle}
      \cup [stage : {"record"}, record : Records, read : RecordRows,
            action : RecordActions, actor : Users, at : Times]
      \cup [stage : {"job"}, job : Jobs, action : JobActions, attempts : Nat]
Transitions ==
    [record : Records, action : RecordActions, actor : Users, at : Times]

(* Type invariant: the rows and what each invocation has read.              *)
OpsTypeOK ==
    /\ record \in [Records -> {NoRow} \cup RecordRows]
    /\ job \in [Jobs -> JobRows]
    /\ metric \in [Days -> Metrics]
    /\ clock \in Times
    /\ done \subseteq Transitions
    /\ call \in [Invocations -> Calls]

(* The trail names publications that took place: the publisher and the time *)
(* of a row are of one publication, and a published row has them, although  *)
(* a stale transition may write back, or out, those of an earlier one.      *)
StampedTruly(r, row) ==
    /\ \/ row.publishedBy = None /\ row.publishedAt = None
       \/ [record |-> r, action |-> "publish", actor |-> row.publishedBy,
           at |-> row.publishedAt] \in done
    /\ row.status = "published" => row.publishedBy # None
    /\ row.status = "archived" => row.archivedAt # None
TrailIsTrue ==
    \A r \in Records : record[r] # NoRow => StampedTruly(r, record[r])

(* What a job says of its runs fits its status whatever order the actions   *)
(* of two consoles come in: a queued job shows no run, a finished one when  *)
(* it finished, and a failed or retried one keeps an error on record.       *)
JobFits(row) ==
    /\ row.status = "queued" => ~row.started /\ ~row.finished
    /\ row.status \in {"succeeded", "failed"} => row.finished
    /\ row.status = "failed" \/ row.attempts > 0 => row.error
JobsAuditable == \A j \in Jobs : JobFits(job[j])

(* A day with MIN_GROUP_SIZE distinct users is flagged whatever increments  *)
(* made them up.                                                            *)
LargeGroupsFlagged ==
    \A d \in Days : metric[d].count >= MinGroupSize => metric[d].flag

(* metrics_repository.py: "a day's row is only marked min_group_size_met    *)
(* once it has at least this many distinct users".                          *)
MarkedOnceLarge ==
    \A d \in Days : metric[d].flag => metric[d].count >= MinGroupSize

(* A flagged day has at least half of MIN_GROUP_SIZE users: the increment   *)
(* that raised the flag counts twice, and no more than that.                *)
FlagMeansHalf ==
    \A d \in Days : metric[d].flag => 2 * metric[d].count >= MinGroupSize
=============================================================================
