------------------------------ MODULE Curation ------------------------------
(***************************************************************************)
(* From a data proposal to a published destination: the admin routes over  *)
(* RdsDataAdminProposalRepository, RdsDataMonthlyDestinationRepository and *)
(* RdsDataPublishJobRepository.enqueue_for_destination.                    *)
(*                                                                         *)
(* Outside the high-risk approvals every statement commits on its own, so  *)
(* an invocation is cut between statements: what it read may be stale when *)
(* it writes, and it may die with the rest of its statements unexecuted.   *)
(* A refused request (403, 404, 409) writes nothing and is a stutter.      *)
(* A bulk publication is one transaction that has locked its rows (HighRisk*)
(* models its statements), so it is one step here.                         *)
(***************************************************************************)
EXTENDS Naturals, Sequences, FiniteSets

CONSTANTS
    Proposals,          \* admin_data_proposals.id
    Destinations,       \* monthly_curated_destinations.id
    Slots,              \* (city_id, curation_month) pairs
    Users,              \* users.id
    Invocations,        \* concurrent Lambda invocations
    PublishJobTypes,    \* PUBLISH_JOB_TYPES, in the order of the tuple
    BulkMinimum, BulkMaximum,   \* as in ChangeModel
    MaxPublications,    \* bounds the publications of a destination
    None                \* NULL

ASSUME NoneAssumption == None \notin Users
ASSUME JobTypesAssumption ==
    /\ PublishJobTypes \in Seq(STRING) /\ Len(PublishJobTypes) > 0
    /\ \A i, j \in DOMAIN PublishJobTypes :
         PublishJobTypes[i] = PublishJobTypes[j] => i = j
ASSUME InvocationsAssumption == IsFiniteSet(Invocations)

VARIABLES
    proposal,       \* proposal id -> row, or NoRow
    history,        \* rows of admin_data_proposal_history
    destination,    \* destination id -> row, or NoRow
    jobs,           \* destination id -> jobs enqueued so far, per job type
    cut,            \* destination id -> publications cut by a death half way
    call            \* invocation -> what it still has to do, or Idle

vars == <<proposal, history, destination, jobs, cut, call>>

NoRow == [status |-> "no_row"]
Idle == [stage |-> "idle"]
ProposalStatuses ==
    {"submitted", "change_requested", "in_review", "approved", "rejected"}
ASSUME StatusAssumption == None \notin ProposalStatuses
MonthlyStatuses ==
    {"candidate", "scheduled", "published", "hidden", "expired", "rejected"}
JobKinds == {PublishJobTypes[i] : i \in DOMAIN PublishJobTypes}

(* PROPOSAL_REVIEW_ACTIONS: an action is the status it moves to. *)
ReviewActions == {"in_review", "approved", "rejected"}
ReviewFrom(action) ==
    CASE action = "in_review" -> {"submitted", "change_requested"}
      [] action = "approved"  -> {"in_review"}
      [] action = "rejected"  -> {"submitted", "in_review", "change_requested"}

(* MONTHLY_TRANSITIONS *)
MonthlyActions == {"schedule", "publish", "hide", "expire", "reject"}
MonthlyFrom(action) ==
    CASE action = "schedule" -> {"candidate"}
      [] action = "publish"  -> {"candidate", "scheduled", "hidden"}
      [] action = "hide"     -> {"published"}
      [] action = "expire"   -> {"scheduled", "published", "hidden"}
      [] action = "reject"   -> {"candidate", "scheduled"}
MonthlyTo(action) ==
    CASE action = "schedule" -> "scheduled"
      [] action = "publish"  -> "published"
      [] action = "hide"     -> "hidden"
      [] action = "expire"   -> "expired"
      [] action = "reject"   -> "rejected"

(* _build_proposal; the content of a proposal never changes.  hashed stands *)
(* for approved_content_hash IS NOT NULL.                                   *)
NewProposal(u) ==
    [status |-> "submitted", createdBy |-> u, reviewedBy |-> None,
     hashed |-> FALSE]

(* _append_history *)
Entry(p, action, from, u) ==
    [proposal |-> p, action |-> action, from |-> from, actor |-> u]

(* _build_destination, of _merge_promotion_payload *)
NewDestination(p, slot) ==
    [status |-> "candidate", source |-> p, slot |-> slot,
     publishedBy |-> None, hiddenBy |-> None]

Init ==
    /\ proposal = [p \in Proposals |-> NoRow]
    /\ history = {}
    /\ destination = [d \in Destinations |-> NoRow]
    /\ jobs = [d \in Destinations |-> [t \in JobKinds |-> 0]]
    /\ cut = [d \in Destinations |-> 0]
    /\ call = [w \in Invocations |-> Idle]
-----------------------------------------------------------------------------
(* Proposals *)
CreateProposal(w, p, u) ==
    /\ call[w] = Idle
    /\ proposal[p] = NoRow
    /\ proposal' = [proposal EXCEPT ![p] = NewProposal(u)]
    /\ call' = [call EXCEPT ![w] =
                  [stage |-> "append", entry |-> Entry(p, "submitted", None, u)]]
    /\ UNCHANGED <<history, destination, jobs, cut>>

(* PROPOSAL_REVIEW_ACTIONS lets a submitted proposal be approved unread. *)
BugApproveUnread(p, u, action) ==
    /\ proposal[p] # NoRow
    /\ proposal[p].createdBy # u
    /\ proposal[p].status \in ReviewFrom(action) \cup {"submitted"}

(* _validate_transition of a proposal *)
MayReview(p, u, action) ==
    /\ proposal[p] # NoRow
    /\ proposal[p].createdBy # u
    /\ proposal[p].status \in ReviewFrom(action)

(* transition, up to the UPDATE *)
ReadProposal(w, p, u, action) ==
    /\ call[w] = Idle
    /\ MayReview(p, u, action)
    /\ call' = [call EXCEPT ![w] =
                  [stage |-> "review",
                   entry |-> Entry(p, action, proposal[p].status, u)]]
    /\ UNCHANGED <<proposal, history, destination, jobs, cut>>

(* UPDATE ... WHERE id = :id, without AND status = :from_status. *)
BugBlindUpdate(e) == proposal[e.proposal] # NoRow

(* UPDATE ... WHERE id = :id AND status = :from_status matches a row. *)
StillAsRead(e) == proposal[e.proposal].status = e.from

(* The UPDATE of a review that matched. *)
UpdateProposal(w) ==
    LET e == call[w].entry IN
    /\ call[w].stage = "review"
    /\ StillAsRead(e)
    /\ proposal' = [proposal EXCEPT ![e.proposal].status = e.action,
                                    ![e.proposal].reviewedBy = e.actor,
                                    ![e.proposal].hashed = e.action = "approved"]
    /\ call' = [call EXCEPT ![w] = [stage |-> "append", entry |-> e]]
    /\ UNCHANGED <<history, destination, jobs, cut>>

(* numberOfRecordsUpdated # 1: 409 INVALID_PROPOSAL_STATE *)
LoseReview(w) ==
    /\ call[w].stage = "review"
    /\ ~StillAsRead(call[w].entry)
    /\ call' = [call EXCEPT ![w] = Idle]
    /\ UNCHANGED <<proposal, history, destination, jobs, cut>>

AppendHistory(w) ==
    /\ call[w].stage = "append"
    /\ history' = history \cup {call[w].entry}
    /\ call' = [call EXCEPT ![w] = Idle]
    /\ UNCHANGED <<proposal, destination, jobs, cut>>
-----------------------------------------------------------------------------
(* Curated destinations *)
ReadSource(w, p, slot) ==
    /\ call[w] = Idle
    /\ proposal[p].status = "approved"
    /\ call' = [call EXCEPT ![w] =
                  [stage |-> "promote", source |-> p, slot |-> slot]]
    /\ UNCHANGED <<proposal, history, destination, jobs, cut>>

SlotFree(slot) ==
    \A d \in Destinations : destination[d] # NoRow => destination[d].slot # slot

InsertCandidate(w, d) ==
    /\ call[w].stage = "promote"
    /\ destination[d] = NoRow
    /\ SlotFree(call[w].slot)
    /\ destination' = [destination EXCEPT
                         ![d] = NewDestination(call[w].source, call[w].slot)]
    /\ call' = [call EXCEPT ![w] = Idle]
    /\ UNCHANGED <<proposal, history, jobs, cut>>

(* uq_monthly_destination_city_month refuses the row. *)
LosePromotion(w) ==
    /\ call[w].stage = "promote"
    /\ ~SlotFree(call[w].slot)
    /\ call' = [call EXCEPT ![w] = Idle]
    /\ UNCHANGED <<proposal, history, destination, jobs, cut>>

(* The jobs are enqueued as soon as the transition is found valid. *)
BugEnqueueFirst(w, d, u, action) ==
    /\ call[w] = Idle
    /\ destination[d] # NoRow
    /\ destination[d].status \in MonthlyFrom(action)
    /\ call' = [call EXCEPT ![w] =
                  IF action = "publish"
                    THEN [stage |-> "enqueue", destination |-> d, next |-> 1]
                    ELSE [stage |-> "transition", destination |-> d,
                          action |-> action, actor |-> u, read |-> destination[d]]]
    /\ UNCHANGED <<proposal, history, destination, jobs, cut>>

(* transition, up to the UPDATE: get and _validate_transition *)
ReadDestination(w, d, u, action) ==
    /\ call[w] = Idle
    /\ destination[d] # NoRow
    /\ destination[d].status \in MonthlyFrom(action)
    /\ call' = [call EXCEPT ![w] =
                  [stage |-> "transition", destination |-> d, action |-> action,
                   actor |-> u, read |-> destination[d]]]
    /\ UNCHANGED <<proposal, history, destination, jobs, cut>>

(* UPDATE of the whole row, as transition_notice does. *)
BugWholeRow(row, c) ==
    [c.read EXCEPT
       !.status = MonthlyTo(c.action),
       !.publishedBy = IF c.action = "publish" THEN c.actor ELSE @,
       !.hiddenBy = IF c.action = "hide" THEN c.actor ELSE @]

(* _transition_updates and _row_params_subset: the columns of an action. *)
RowAfter(row, c) ==
    [row EXCEPT
       !.status = MonthlyTo(c.action),
       !.publishedBy = IF c.action = "publish" THEN c.actor ELSE @,
       !.hiddenBy = IF c.action = "hide" THEN c.actor ELSE @]

MayPublishAgain(d) == jobs[d][PublishJobTypes[1]] < MaxPublications

(* UPDATE ... WHERE id = :id: the status may no longer be the one read. *)
UpdateDestination(w) ==
    LET d == call[w].destination IN
    /\ call[w].stage = "transition"
    /\ call[w].action = "publish" => MayPublishAgain(d)
    /\ destination' = [destination EXCEPT ![d] = RowAfter(@, call[w])]
    /\ call' = [call EXCEPT ![w] =
                  IF call[w].action = "publish"
                    THEN [stage |-> "enqueue", destination |-> d, next |-> 1]
                    ELSE Idle]
    /\ UNCHANGED <<proposal, history, jobs, cut>>

(* The loop over PUBLISH_JOB_TYPES runs one past the end. *)
BugPastTheEnd(n) == n > Len(PublishJobTypes)
LastType(n) == n = Len(PublishJobTypes)

(* One iteration of enqueue_for_destination *)
EnqueueJob(w) ==
    LET d == call[w].destination
        n == call[w].next
    IN  /\ call[w].stage = "enqueue"
        /\ jobs' = [jobs EXCEPT ![d][PublishJobTypes[n]] = @ + 1]
        /\ call' = [call EXCEPT ![w] =
                      IF LastType(n) THEN Idle ELSE [@ EXCEPT !.next = n + 1]]
        /\ UNCHANGED <<proposal, history, destination, cut>>

(* _bulk_publish of an approved high-risk request *)
BulkPublish(u, ids) ==
    /\ \A d \in ids :
         /\ destination[d].status \in MonthlyFrom("publish")
         /\ MayPublishAgain(d)
    /\ destination' = [d \in Destinations |->
         IF d \in ids
           THEN [destination[d] EXCEPT !.status = "published", !.publishedBy = u]
           ELSE destination[d]]
    /\ jobs' = [d \in Destinations |->
         IF d \in ids THEN [t \in JobKinds |-> jobs[d][t] + 1] ELSE jobs[d]]
    /\ UNCHANGED <<proposal, history, cut, call>>
-----------------------------------------------------------------------------
(* The invocation times out, is killed, or loses the database. *)
Die(w) ==
    /\ call[w] # Idle
    /\ call' = [call EXCEPT ![w] = Idle]
    /\ cut' = IF call[w].stage = "enqueue" /\ call[w].next > 1
                THEN [cut EXCEPT ![call[w].destination] = @ + 1] ELSE cut
    /\ UNCHANGED <<proposal, history, destination, jobs>>

BulkSets ==
    {ids \in SUBSET Destinations : Cardinality(ids) \in BulkMinimum .. BulkMaximum}

Review(w) ==
    \/ \E p \in Proposals, u \in Users :
         \/ CreateProposal(w, p, u)
         \/ \E action \in ReviewActions : ReadProposal(w, p, u, action)
    \/ UpdateProposal(w)
    \/ LoseReview(w)
    \/ AppendHistory(w)

Curate(w) ==
    \/ \E p \in Proposals, slot \in Slots : ReadSource(w, p, slot)
    \/ \E d \in Destinations : InsertCandidate(w, d)
    \/ LosePromotion(w)
    \/ \E d \in Destinations, u \in Users, action \in MonthlyActions :
         ReadDestination(w, d, u, action)
    \/ UpdateDestination(w)
    \/ EnqueueJob(w)

Next ==
    \/ \E w \in Invocations : Review(w) \/ Curate(w) \/ Die(w)
    \/ \E u \in Users, ids \in BulkSets : BulkPublish(u, ids)

Spec == Init /\ [][Next]_vars
-----------------------------------------------------------------------------
(* Properties *)
Entries ==
    [proposal : Proposals, action : ReviewActions \cup {"submitted"},
     from : ProposalStatuses \cup {None}, actor : Users]
ProposalRows ==
    [status : ProposalStatuses, createdBy : Users, reviewedBy : Users \cup {None},
     hashed : BOOLEAN]
DestinationRows ==
    [status : MonthlyStatuses, source : Proposals, slot : Slots,
     publishedBy : Users \cup {None}, hiddenBy : Users \cup {None}]
Calls ==
    {Idle} \cup [stage : {"append", "review"}, entry : Entries]
      \cup [stage : {"promote"}, source : Proposals, slot : Slots]
      \cup [stage : {"transition"}, destination : Destinations,
            action : MonthlyActions, actor : Users, read : DestinationRows]
      \cup [stage : {"enqueue"}, destination : Destinations,
            next : DOMAIN PublishJobTypes]

(* Type invariant: the rows, the history and what each invocation holds.    *)
CurationTypeOK ==
    /\ proposal \in [Proposals -> {NoRow} \cup ProposalRows]
    /\ history \subseteq Entries
    /\ destination \in [Destinations -> {NoRow} \cup DestinationRows]
    /\ jobs \in [Destinations -> [JobKinds -> Nat]]
    /\ cut \in [Destinations -> Nat]
    /\ call \in [Invocations -> Calls]

(* Whatever two reviewers race for, the history of a proposal never claims  *)
(* two outcomes of one status: of two rows that leave the same status there *)
(* is one, and a row that says approved or rejected is what the proposal    *)
(* still is, by the reviewer it still names.  (A death may lose a row.)     *)
HistoryTellsTruth ==
    /\ \A e, f \in history :
         e.proposal = f.proposal /\ e.from = f.from => e = f
    /\ \A e \in history : e.action \in {"approved", "rejected"} =>
         /\ proposal[e.proposal].status = e.action
         /\ proposal[e.proposal].reviewedBy = e.actor

(* A destination comes from a proposal that is approved, with the hash of   *)
(* what was approved, however long ago promote read it and whoever reviewed *)
(* it since.                                                                *)
PromotedWereApproved ==
    \A d \in Destinations : destination[d] # NoRow =>
      /\ proposal[destination[d].source].status = "approved"
      /\ proposal[destination[d].source].hashed

(* Jobs exist for destinations that have been published; and once nobody is *)
(* enqueueing for it, a destination's downstream surfaces have as many jobs *)
(* as one another, console and bulk publications of several operators taken *)
(* together.  A publication cut half way costs the later surfaces one job   *)
(* each at most, and never an earlier one what a later one has.             *)
Enqueueing(d) ==
    \E w \in Invocations : call[w].stage = "enqueue" /\ call[w].destination = d
JobsAccounted ==
    \A d \in Destinations :
      /\ (\E t \in JobKinds : jobs[d][t] > 0) =>
           destination[d] # NoRow /\ destination[d].publishedBy # None
      /\ ~Enqueueing(d) =>
           \A i, j \in DOMAIN PublishJobTypes :
             LET earlier == jobs[d][PublishJobTypes[i]]
                 later == jobs[d][PublishJobTypes[j]]
             IN  i < j => later <= earlier /\ earlier <= later + cut[d]

(* Who published and who hid a destination is never erased, although every  *)
(* transition writes a row it read before: it writes its own columns only.  *)
StampsKept ==
    [][\A d \in Destinations : destination[d] # NoRow =>
         /\ destination[d].publishedBy # None => destination'[d].publishedBy # None
         /\ destination[d].hiddenBy # None => destination'[d].hiddenBy # None]_vars

(* The review of proposals implements the board that knows no snapshots.    *)
ReviewOf(row) ==
    IF row = NoRow
      THEN [status |-> "unsubmitted", author |-> None, reviewer |-> None]
      ELSE [status |-> row.status, author |-> row.createdBy,
            reviewer |-> row.reviewedBy]
Board == INSTANCE ReviewBoard WITH
    review <- [p \in Proposals |-> ReviewOf(proposal[p])],
    promoted <- {destination[d].source : d \in
                   {x \in Destinations : destination[x] # NoRow}}
BoardImplemented == Board!BoardSpec
=============================================================================
