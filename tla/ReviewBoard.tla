---------------------------- MODULE ReviewBoard ----------------------------
(***************************************************************************)
(* What the data proposal review promises, with no invocations, snapshots  *)
(* or separate statements: a proposal is reviewed by somebody other than   *)
(* its author, one step at a time along the review state machine, and only *)
(* a proposal that is approved, which is for good, becomes a curated       *)
(* destination.  Curation implements this module.                          *)
(***************************************************************************)
CONSTANTS Proposals, Users, None

VARIABLES
    review,         \* proposal id -> its status, author and last reviewer
    promoted        \* proposals that became a destination

Unsubmitted == [status |-> "unsubmitted", author |-> None, reviewer |-> None]
Reviewed(status, author, reviewer) ==
    [status |-> status, author |-> author, reviewer |-> reviewer]

Open == {"submitted", "change_requested"}
Steps ==
    (Open \X {"in_review"}) \cup {<<"in_review", "approved">>}
      \cup ((Open \cup {"in_review"}) \X {"rejected"})

Init ==
    /\ review = [p \in Proposals |-> Unsubmitted]
    /\ promoted = {}

Submit(p, u) ==
    /\ review[p] = Unsubmitted
    /\ review' = [review EXCEPT ![p] = Reviewed("submitted", u, None)]
    /\ UNCHANGED promoted

Judge(p, u, status) ==
    /\ <<review[p].status, status>> \in Steps
    /\ review[p].author # u
    /\ review' = [review EXCEPT ![p] = Reviewed(status, @.author, u)]
    /\ UNCHANGED promoted

Promote(p) ==
    /\ review[p].status = "approved"
    /\ promoted' = promoted \cup {p}
    /\ UNCHANGED review

Next ==
    \E p \in Proposals :
      \/ Promote(p)
      \/ \E u \in Users :
           \/ Submit(p, u)
           \/ \E status \in {"in_review", "approved", "rejected"} :
                Judge(p, u, status)

BoardSpec == Init /\ [][Next]_<<review, promoted>>
=============================================================================
