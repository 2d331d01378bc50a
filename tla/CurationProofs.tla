--------------------------- MODULE CurationProofs ---------------------------
(***************************************************************************)
(* Proofs about Curation.  Everything rests on what a review or a          *)
(* transition still knows when it writes: the compare-and-swap makes the   *)
(* status of a proposal climb (Rank), and approved and rejected are final, *)
(* so an approval read long ago still holds.  The jobs of a destination are*)
(* counted together with those that publications under way still owe it.   *)
(***************************************************************************)
EXTENDS Curation, FiniteSetTheorems, TLAPS

LEMMA StageOfIdle == Idle.stage = "idle" /\ Idle \in Calls
  BY DEF Idle, Calls

LEMMA ReviewCallTyped ==
  ASSUME CurationTypeOK, NEW w \in Invocations, call[w].stage \in {"append", "review"}
  PROVE  /\ call[w].entry \in Entries
         /\ call[w].entry.proposal \in Proposals
         /\ call[w].entry.action \in ReviewActions \cup {"submitted"}
         /\ call[w].entry.from \in ProposalStatuses \cup {None}
         /\ call[w].entry.actor \in Users
  <1>1. call[w].entry \in Entries BY DEF CurationTypeOK, Calls, Idle
  <1> QED BY <1>1 DEF Entries

LEMMA PromoteCallTyped ==
  ASSUME CurationTypeOK, NEW w \in Invocations, call[w].stage = "promote"
  PROVE  call[w].source \in Proposals /\ call[w].slot \in Slots
  BY DEF CurationTypeOK, Calls, Idle

LEMMA TransitionCallTyped ==
  ASSUME CurationTypeOK, NEW w \in Invocations, call[w].stage = "transition"
  PROVE  /\ call[w].destination \in Destinations /\ call[w].action \in MonthlyActions
         /\ call[w].actor \in Users
  BY DEF CurationTypeOK, Calls, Idle

LEMMA EnqueueCallTyped ==
  ASSUME CurationTypeOK, NEW w \in Invocations, call[w].stage = "enqueue"
  PROVE  /\ call[w].destination \in Destinations
         /\ call[w].next \in DOMAIN PublishJobTypes
         /\ [call[w] EXCEPT !.next = call[w].next + 1] =
              [stage |-> "enqueue", destination |-> call[w].destination,
               next |-> call[w].next + 1]
  BY DEF CurationTypeOK, Calls, Idle

LEMMA MonthlyToTyped ==
  ASSUME NEW action \in MonthlyActions
  PROVE  MonthlyTo(action) \in MonthlyStatuses
  BY DEF MonthlyTo, MonthlyActions, MonthlyStatuses

(* A row that is there, by its status. *)
LEMMA ProposalThere ==
  ASSUME CurationTypeOK, NEW p \in Proposals
  PROVE  /\ proposal[p].status \in ProposalStatuses => proposal[p] \in ProposalRows
         /\ proposal[p] \in ProposalRows =>
              proposal[p] # NoRow /\ proposal[p].status \in ProposalStatuses
         /\ proposal[p] # NoRow => proposal[p] \in ProposalRows
  BY DEF CurationTypeOK, NoRow, ProposalStatuses, ProposalRows

LEMMA DestinationThere ==
  ASSUME CurationTypeOK, NEW d \in Destinations
  PROVE  /\ destination[d].status \in MonthlyStatuses => destination[d] \in DestinationRows
         /\ destination[d] \in DestinationRows => destination[d] # NoRow
         /\ destination[d] # NoRow => destination[d] \in DestinationRows
  BY DEF CurationTypeOK, NoRow, MonthlyStatuses, DestinationRows

LEMMA FromStatuses ==
  /\ \A action \in ReviewActions : ReviewFrom(action) \subseteq ProposalStatuses
  /\ \A action \in MonthlyActions : MonthlyFrom(action) \subseteq MonthlyStatuses
  BY DEF ReviewActions, ReviewFrom, ProposalStatuses, MonthlyActions, MonthlyFrom,
     MonthlyStatuses

(* What the update of a review, a transition and a bulk publication leave.  *)
LEMMA ReviewedRow ==
  ASSUME NEW row \in ProposalRows, NEW e \in Entries, e.action \in ReviewActions
  PROVE  LET new == [[[row EXCEPT !.status = e.action] EXCEPT !.reviewedBy = e.actor]
                       EXCEPT !.hashed = (e.action = "approved")]
         IN  /\ new \in ProposalRows /\ new.status = e.action
             /\ new.createdBy = row.createdBy /\ new.reviewedBy = e.actor
             /\ new.hashed = (e.action = "approved")
  BY DEF ProposalRows, Entries, ReviewActions, ProposalStatuses

LEMMA TransitionedRow ==
  ASSUME NEW row \in DestinationRows, NEW c, c.action \in MonthlyActions, c.actor \in Users
  PROVE  /\ RowAfter(row, c) \in DestinationRows
         /\ RowAfter(row, c).source = row.source
         /\ row.publishedBy # None => RowAfter(row, c).publishedBy # None
         /\ row.hiddenBy # None => RowAfter(row, c).hiddenBy # None
  <1>1. MonthlyTo(c.action) \in MonthlyStatuses BY MonthlyToTyped
  <1>2. /\ (IF c.action = "publish" THEN c.actor ELSE row.publishedBy) \in Users \cup {None}
        /\ (IF c.action = "hide" THEN c.actor ELSE row.hiddenBy) \in Users \cup {None}
    BY DEF DestinationRows
  <1> QED BY <1>1, <1>2, NoneAssumption DEF RowAfter, DestinationRows

LEMMA PublishedRow ==
  ASSUME NEW row \in DestinationRows, NEW u \in Users
  PROVE  LET new == [[row EXCEPT !.status = "published"] EXCEPT !.publishedBy = u]
         IN  /\ new \in DestinationRows /\ new.source = row.source
             /\ new.publishedBy = u /\ new.hiddenBy = row.hiddenBy
  BY DEF DestinationRows, MonthlyStatuses
-----------------------------------------------------------------------------
(* What a call knows of the rows it has read. *)
ReviewKnows(c) ==
    c.stage = "review" =>
      /\ c.entry.action \in ReviewActions
      /\ c.entry.from \in ReviewFrom(c.entry.action)
      /\ proposal[c.entry.proposal] # NoRow
      /\ proposal[c.entry.proposal].createdBy # c.entry.actor
PromoteKnows(c) == c.stage = "promote" => proposal[c.source].status = "approved"
CurateKnows(c) ==
    c.stage \in {"transition", "enqueue"} => destination[c.destination] # NoRow
CallsKnow ==
    \A w \in Invocations :
      ReviewKnows(call[w]) /\ PromoteKnows(call[w]) /\ CurateKnows(call[w])
ApprovedHashed ==
    \A p \in Proposals : proposal[p].status = "approved" => proposal[p].hashed
CurationInv ==
    CurationTypeOK /\ CallsKnow /\ ApprovedHashed /\ PromotedWereApproved

LEMMA FirstJob == 1 \in DOMAIN PublishJobTypes
  BY JobTypesAssumption

LEMMA InitType == Init => CurationTypeOK
  BY StageOfIdle DEF Init, CurationTypeOK

LEMMA InitCuration == Init => CurationInv
  BY InitType, StageOfIdle
     DEF Init, CurationInv, CallsKnow, ReviewKnows, PromoteKnows, CurateKnows,
         ApprovedHashed, PromotedWereApproved, NoRow
-----------------------------------------------------------------------------
(* The steps that write rows, row by row. *)
LEMMA CreateEffect ==
  ASSUME CurationInv, NEW w \in Invocations, NEW p \in Proposals, NEW u \in Users,
         CreateProposal(w, p, u)
  PROVE  /\ proposal[p] = NoRow /\ NewProposal(u) \in ProposalRows
         /\ proposal' \in [Proposals -> {NoRow} \cup ProposalRows]
         /\ \A q \in Proposals : proposal'[q] = IF q = p THEN NewProposal(u) ELSE proposal[q]
         /\ Entry(p, "submitted", None, u) \in Entries
  <1>1. proposal' = [proposal EXCEPT ![p] = NewProposal(u)] /\ proposal[p] = NoRow
    BY DEF CreateProposal
  <1>2. NewProposal(u) \in ProposalRows BY DEF NewProposal, ProposalRows, ProposalStatuses
  <1>3. Entry(p, "submitted", None, u) \in Entries BY DEF Entry, Entries
  <1> QED BY <1>1, <1>2, <1>3 DEF CurationInv, CurationTypeOK

LEMMA ReviewEffect ==
  ASSUME CurationInv, NEW w \in Invocations, UpdateProposal(w)
  PROVE  LET e == call[w].entry
             p == e.proposal
         IN  /\ p \in Proposals /\ e \in Entries /\ e.action \in ReviewActions
             /\ proposal[p] \in ProposalRows /\ proposal[p].status = e.from
             /\ e.from \in ReviewFrom(e.action) /\ proposal[p].createdBy # e.actor
             /\ e.actor \in Users
             /\ proposal' \in [Proposals -> {NoRow} \cup ProposalRows]
             /\ \A q \in Proposals : q # p => proposal'[q] = proposal[q]
             /\ proposal'[p] \in ProposalRows
             /\ proposal'[p].status = e.action
             /\ proposal'[p].createdBy = proposal[p].createdBy
             /\ proposal'[p].reviewedBy = e.actor
             /\ proposal'[p].hashed = (e.action = "approved")
  <1> DEFINE e == call[w].entry
             p == e.proposal
             new == [[[proposal[p] EXCEPT !.status = e.action] EXCEPT !.reviewedBy = e.actor]
                       EXCEPT !.hashed = (e.action = "approved")]
  <1>1. CurationTypeOK /\ call[w].stage = "review"
    BY DEF CurationInv, UpdateProposal
  <1>2. p \in Proposals /\ e \in Entries /\ e.actor \in Users BY <1>1, ReviewCallTyped
  <1>3. /\ e.action \in ReviewActions /\ e.from \in ReviewFrom(e.action)
        /\ proposal[p] # NoRow /\ proposal[p].createdBy # e.actor
    BY <1>1 DEF CurationInv, CallsKnow, ReviewKnows
  <1>4. proposal[p] \in ProposalRows /\ proposal[p].status = e.from
    BY <1>1, <1>2, <1>3, ProposalThere DEF UpdateProposal, StillAsRead
  <1>5. proposal' = [proposal EXCEPT ![p] = new]
    BY <1>1, <1>2 DEF UpdateProposal, CurationTypeOK
  <1>6. /\ new \in ProposalRows /\ new.status = e.action
        /\ new.createdBy = proposal[p].createdBy /\ new.reviewedBy = e.actor
        /\ new.hashed = (e.action = "approved")
    BY <1>2, <1>3, <1>4, ReviewedRow
  <1> HIDE DEF new
  <1>7. /\ proposal'[p] = new /\ \A q \in Proposals : q # p => proposal'[q] = proposal[q]
        /\ proposal' \in [Proposals -> {NoRow} \cup ProposalRows]
    BY <1>1, <1>2, <1>5, <1>6 DEF CurationTypeOK
  <1> QED BY <1>2, <1>3, <1>4, <1>6, <1>7

LEMMA InsertEffect ==
  ASSUME CurationInv, NEW w \in Invocations, NEW d \in Destinations, InsertCandidate(w, d)
  PROVE  LET new == NewDestination(call[w].source, call[w].slot)
         IN  /\ destination[d] = NoRow /\ new \in DestinationRows
             /\ new.source = call[w].source /\ call[w].source \in Proposals
             /\ destination' \in [Destinations -> {NoRow} \cup DestinationRows]
             /\ \A x \in Destinations :
                  destination'[x] = IF x = d THEN new ELSE destination[x]
  <1> DEFINE new == NewDestination(call[w].source, call[w].slot)
  <1>1. CurationTypeOK /\ call[w].stage = "promote" BY DEF CurationInv, InsertCandidate
  <1>2. call[w].source \in Proposals /\ call[w].slot \in Slots BY <1>1, PromoteCallTyped
  <1>3. new \in DestinationRows /\ new.source = call[w].source
    BY <1>2 DEF NewDestination, DestinationRows, MonthlyStatuses
  <1>4. destination' = [destination EXCEPT ![d] = new] /\ destination[d] = NoRow
    BY DEF InsertCandidate
  <1> HIDE DEF new
  <1>5. /\ destination' \in [Destinations -> {NoRow} \cup DestinationRows]
        /\ \A x \in Destinations : destination'[x] = IF x = d THEN new ELSE destination[x]
    BY <1>1, <1>3, <1>4 DEF CurationTypeOK
  <1> QED BY <1>2, <1>3, <1>4, <1>5 DEF new

LEMMA TransitionEffect ==
  ASSUME CurationInv, NEW w \in Invocations, UpdateDestination(w)
  PROVE  LET d == call[w].destination
             new == RowAfter(destination[d], call[w])
         IN  /\ d \in Destinations /\ destination[d] \in DestinationRows
             /\ new \in DestinationRows /\ new.source = destination[d].source
             /\ destination[d].publishedBy # None => new.publishedBy # None
             /\ destination[d].hiddenBy # None => new.hiddenBy # None
             /\ destination' \in [Destinations -> {NoRow} \cup DestinationRows]
             /\ \A x \in Destinations :
                  destination'[x] = IF x = d THEN new ELSE destination[x]
  <1> DEFINE d == call[w].destination
             new == RowAfter(destination[d], call[w])
  <1>1. CurationTypeOK /\ call[w].stage = "transition" BY DEF CurationInv, UpdateDestination
  <1>2. d \in Destinations /\ call[w].action \in MonthlyActions /\ call[w].actor \in Users
    BY <1>1, TransitionCallTyped
  <1>3. destination[d] \in DestinationRows
    BY <1>1, <1>2, DestinationThere DEF CurationInv, CallsKnow, CurateKnows
  <1>4. /\ new \in DestinationRows /\ new.source = destination[d].source
        /\ destination[d].publishedBy # None => new.publishedBy # None
        /\ destination[d].hiddenBy # None => new.hiddenBy # None
    BY <1>2, <1>3, TransitionedRow
  <1>5. destination' = [destination EXCEPT ![d] = new] BY DEF UpdateDestination
  <1> HIDE DEF new
  <1>6. /\ destination' \in [Destinations -> {NoRow} \cup DestinationRows]
        /\ \A x \in Destinations : destination'[x] = IF x = d THEN new ELSE destination[x]
    BY <1>1, <1>2, <1>4, <1>5 DEF CurationTypeOK
  <1> QED BY <1>2, <1>3, <1>4, <1>6 DEF new

LEMMA BulkEffect ==
  ASSUME CurationInv, NEW u \in Users, NEW ids \in BulkSets, BulkPublish(u, ids)
  PROVE  /\ destination' \in [Destinations -> {NoRow} \cup DestinationRows]
         /\ \A d \in Destinations \ ids : destination'[d] = destination[d]
         /\ \A d \in ids :
              /\ d \in Destinations
              /\ destination[d] \in DestinationRows /\ destination'[d] \in DestinationRows
              /\ destination'[d].source = destination[d].source
              /\ destination'[d].publishedBy = u
              /\ destination'[d].hiddenBy = destination[d].hiddenBy
  <1> DEFINE new(d) == [[destination[d] EXCEPT !.status = "published"]
                          EXCEPT !.publishedBy = u]
  <1>1. CurationTypeOK /\ ids \subseteq Destinations BY DEF CurationInv, BulkSets
  <1>2. ASSUME NEW d \in ids PROVE destination[d] \in DestinationRows
    <2>1. destination[d].status \in MonthlyStatuses
      BY <1>2, FromStatuses DEF BulkPublish, MonthlyActions
    <2> QED BY <1>1, <2>1, DestinationThere
  <1>3. \A d \in ids : /\ new(d) \in DestinationRows
                       /\ new(d).source = destination[d].source /\ new(d).publishedBy = u
                       /\ new(d).hiddenBy = destination[d].hiddenBy
    BY <1>2, PublishedRow
  <1>4. destination' = [d \in Destinations |-> IF d \in ids THEN new(d) ELSE destination[d]]
    BY DEF BulkPublish
  <1> HIDE DEF new
  <1>5. destination' \in [Destinations -> {NoRow} \cup DestinationRows]
    BY <1>1, <1>3, <1>4 DEF CurationTypeOK
  <1> QED BY <1>1, <1>2, <1>3, <1>4, <1>5

(* The other steps leave both tables alone. *)
LEMMA NoWrite ==
  ASSUME [Next]_vars,
         \A w \in Invocations :
           /\ \A p \in Proposals, u \in Users : ~CreateProposal(w, p, u)
           /\ ~UpdateProposal(w) /\ ~UpdateDestination(w)
           /\ \A d \in Destinations : ~InsertCandidate(w, d),
         \A u \in Users, ids \in BulkSets : ~BulkPublish(u, ids)
  PROVE  UNCHANGED <<proposal, destination>>
  BY DEF Next, vars, Review, Curate, ReadProposal, LoseReview, AppendHistory, ReadSource,
     LosePromotion, ReadDestination, EnqueueJob, Die

(* Rows stay; approved and rejected are final; a destination keeps its      *)
(* source and its stamps.                                                   *)
RowsKept ==
    /\ \A p \in Proposals : proposal[p] # NoRow =>
         /\ proposal'[p] # NoRow /\ proposal'[p].createdBy = proposal[p].createdBy
         /\ proposal[p].status \in {"approved", "rejected"} => proposal'[p] = proposal[p]
    /\ \A d \in Destinations : destination[d] # NoRow =>
         /\ destination'[d] # NoRow /\ destination'[d].source = destination[d].source
         /\ destination[d].publishedBy # None => destination'[d].publishedBy # None
         /\ destination[d].hiddenBy # None => destination'[d].hiddenBy # None

LEMMA StepRows ==
  ASSUME CurationInv, [Next]_vars
  PROVE  /\ RowsKept
         /\ proposal' \in [Proposals -> {NoRow} \cup ProposalRows]
         /\ destination' \in [Destinations -> {NoRow} \cup DestinationRows]
  <1>1. CurationTypeOK BY DEF CurationInv
  <1>2. ASSUME NEW w \in Invocations, NEW p \in Proposals, NEW u \in Users,
               CreateProposal(w, p, u)
        PROVE  RowsKept /\ proposal' \in [Proposals -> {NoRow} \cup ProposalRows]
                        /\ UNCHANGED destination
    <2>1. UNCHANGED destination BY <1>2 DEF CreateProposal
    <2> QED BY <1>2, <2>1, CreateEffect DEF RowsKept
  <1>3. ASSUME NEW w \in Invocations, UpdateProposal(w)
        PROVE  RowsKept /\ proposal' \in [Proposals -> {NoRow} \cup ProposalRows]
                        /\ UNCHANGED destination
    <2>1. UNCHANGED destination BY <1>3 DEF UpdateProposal
    <2> DEFINE p == call[w].entry.proposal
    <2>2. /\ p \in Proposals /\ proposal[p] \in ProposalRows /\ proposal'[p] \in ProposalRows
          /\ proposal[p].status = call[w].entry.from
          /\ call[w].entry.from \in ReviewFrom(call[w].entry.action)
          /\ call[w].entry.action \in ReviewActions
          /\ proposal'[p].createdBy = proposal[p].createdBy
          /\ \A q \in Proposals : q # p => proposal'[q] = proposal[q]
          /\ proposal' \in [Proposals -> {NoRow} \cup ProposalRows]
      BY <1>3, ReviewEffect
    <2>3. proposal[p].status \notin {"approved", "rejected"}
      BY <2>2 DEF ReviewFrom, ReviewActions
    <2>4. proposal'[p] # NoRow BY <2>2 DEF NoRow, ProposalRows
    <2> HIDE DEF p
    <2> QED BY <2>1, <2>2, <2>3, <2>4 DEF RowsKept
  <1>4. ASSUME NEW w \in Invocations, NEW d \in Destinations, InsertCandidate(w, d)
        PROVE  RowsKept /\ destination' \in [Destinations -> {NoRow} \cup DestinationRows]
                        /\ UNCHANGED proposal
    <2>1. UNCHANGED proposal BY <1>4 DEF InsertCandidate
    <2> QED BY <1>4, <2>1, InsertEffect DEF RowsKept
  <1>5. ASSUME NEW w \in Invocations, UpdateDestination(w)
        PROVE  RowsKept /\ destination' \in [Destinations -> {NoRow} \cup DestinationRows]
                        /\ UNCHANGED proposal
    <2>1. UNCHANGED proposal BY <1>5 DEF UpdateDestination
    <2>2. \A row \in DestinationRows : row # NoRow BY DEF DestinationRows, NoRow
    <2> QED BY <1>5, <2>1, <2>2, TransitionEffect DEF RowsKept
  <1>6. ASSUME NEW u \in Users, NEW ids \in BulkSets, BulkPublish(u, ids)
        PROVE  RowsKept /\ destination' \in [Destinations -> {NoRow} \cup DestinationRows]
                        /\ UNCHANGED proposal
    <2>1. UNCHANGED proposal BY <1>6 DEF BulkPublish
    <2>2. \A row \in DestinationRows : row # NoRow BY DEF DestinationRows, NoRow
    <2>3. ASSUME NEW d \in Destinations, destination[d] # NoRow
          PROVE  /\ destination'[d] # NoRow /\ destination'[d].source = destination[d].source
                 /\ destination[d].publishedBy # None => destination'[d].publishedBy # None
                 /\ destination[d].hiddenBy # None => destination'[d].hiddenBy # None
      <3>1. CASE d \in ids BY <1>6, <2>2, <3>1, BulkEffect, NoneAssumption
      <3>2. CASE d \notin ids BY <1>6, <2>3, <3>2, BulkEffect
      <3> QED BY <3>1, <3>2
    <2>4. destination' \in [Destinations -> {NoRow} \cup DestinationRows]
      BY <1>6, BulkEffect
    <2> QED BY <2>1, <2>3, <2>4 DEF RowsKept
  <1>7. ASSUME UNCHANGED <<proposal, destination>> PROVE RowsKept
    BY <1>7 DEF RowsKept
  <1> QED BY <1>1, <1>2, <1>3, <1>4, <1>5, <1>6, <1>7, NoWrite DEF CurationTypeOK

LEMMA StepCalls ==
  ASSUME CurationInv, [Next]_vars
  PROVE  call' \in [Invocations -> Calls] /\ CallsKnow'
  <1>1. CurationTypeOK /\ CallsKnow BY DEF CurationInv
  <1>2. RowsKept BY StepRows
  <1>3. ASSUME NEW v \in Invocations, call'[v] = call[v]
        PROVE  ReviewKnows(call[v])' /\ PromoteKnows(call[v])' /\ CurateKnows(call[v])'
    <2>1. ReviewKnows(call[v])'
      <3>1. CASE call[v].stage = "review"
        <4>1. call[v].entry.proposal \in Proposals BY <1>1, <3>1, ReviewCallTyped
        <4>2. ReviewKnows(call[v]) BY <1>1 DEF CallsKnow
        <4> QED BY <1>2, <1>3, <3>1, <4>1, <4>2 DEF ReviewKnows, RowsKept
      <3>2. CASE call[v].stage # "review" BY <1>3, <3>2 DEF ReviewKnows
      <3> QED BY <3>1, <3>2
    <2>2. PromoteKnows(call[v])'
      <3>1. CASE call[v].stage = "promote"
        <4>1. call[v].source \in Proposals BY <1>1, <3>1, PromoteCallTyped
        <4>2. proposal[call[v].source].status = "approved"
          BY <1>1, <3>1 DEF CallsKnow, PromoteKnows
        <4>3. proposal[call[v].source] # NoRow BY <4>2 DEF NoRow
        <4> QED BY <1>2, <1>3, <4>1, <4>2, <4>3 DEF PromoteKnows, RowsKept
      <3>2. CASE call[v].stage # "promote" BY <1>3, <3>2 DEF PromoteKnows
      <3> QED BY <3>1, <3>2
    <2>3. CurateKnows(call[v])'
      <3>1. CASE call[v].stage \in {"transition", "enqueue"}
        <4>1. call[v].destination \in Destinations
          BY <1>1, <3>1, TransitionCallTyped, EnqueueCallTyped
        <4>2. destination[call[v].destination] # NoRow
          BY <1>1, <3>1 DEF CallsKnow, CurateKnows
        <4> QED BY <1>2, <1>3, <4>1, <4>2 DEF CurateKnows, RowsKept
      <3>2. CASE call[v].stage \notin {"transition", "enqueue"}
        BY <1>3, <3>2 DEF CurateKnows
      <3> QED BY <3>1, <3>2
    <2> QED BY <2>1, <2>2, <2>3
  <1>4. ASSUME UNCHANGED call PROVE call' \in [Invocations -> Calls] /\ CallsKnow'
    BY <1>1, <1>3, <1>4 DEF CurationTypeOK, CallsKnow
  <1>5. ASSUME NEW w \in Invocations, NEW state \in Calls,
               call' = [call EXCEPT ![w] = state],
               state.stage = "review" =>
                 /\ state.entry.action \in ReviewActions
                 /\ state.entry.from \in ReviewFrom(state.entry.action)
                 /\ proposal'[state.entry.proposal] # NoRow
                 /\ proposal'[state.entry.proposal].createdBy # state.entry.actor,
               state.stage = "promote" => proposal'[state.source].status = "approved",
               state.stage \in {"transition", "enqueue"} =>
                 destination'[state.destination] # NoRow
        PROVE  call' \in [Invocations -> Calls] /\ CallsKnow'
    <2>1. call' \in [Invocations -> Calls] BY <1>1, <1>5 DEF CurationTypeOK
    <2>2. call'[w] = state /\ \A v \in Invocations \ {w} : call'[v] = call[v]
      BY <1>1, <1>5 DEF CurationTypeOK
    <2>3. ReviewKnows(call[w])' /\ PromoteKnows(call[w])' /\ CurateKnows(call[w])'
      BY <1>5, <2>2 DEF ReviewKnows, PromoteKnows, CurateKnows
    <2> QED BY <1>3, <2>1, <2>2, <2>3 DEF CallsKnow
  <1>6. ASSUME NEW w \in Invocations, call' = [call EXCEPT ![w] = Idle]
        PROVE  call' \in [Invocations -> Calls] /\ CallsKnow'
    BY <1>5, <1>6, StageOfIdle
  <1>7. ASSUME NEW w \in Invocations, NEW e \in Entries,
               call' = [call EXCEPT ![w] = [stage |-> "append", entry |-> e]]
        PROVE  call' \in [Invocations -> Calls] /\ CallsKnow'
    <2> DEFINE state == [stage |-> "append", entry |-> e]
    <2>1. state \in Calls /\ state.stage = "append" BY DEF Calls
    <2>2. call' = [call EXCEPT ![w] = state] BY <1>7
    <2> HIDE DEF state
    <2> QED BY <1>5, <2>1, <2>2
  <1>8. ASSUME NEW w \in Invocations, NEW d \in Destinations, destination[d] # NoRow,
               NEW n \in DOMAIN PublishJobTypes,
               call' = [call EXCEPT ![w] =
                          [stage |-> "enqueue", destination |-> d, next |-> n]]
        PROVE  call' \in [Invocations -> Calls] /\ CallsKnow'
    <2> DEFINE state == [stage |-> "enqueue", destination |-> d, next |-> n]
    <2>1. state \in Calls /\ state.stage = "enqueue" /\ state.destination = d
      BY DEF Calls
    <2>2. call' = [call EXCEPT ![w] = state] BY <1>8
    <2>3. destination'[d] # NoRow BY <1>2, <1>8 DEF RowsKept
    <2> HIDE DEF state
    <2> QED BY <1>5, <2>1, <2>2, <2>3
  <1>9. CASE UNCHANGED vars BY <1>4, <1>9 DEF vars
  <1>10. ASSUME NEW w \in Invocations, NEW p \in Proposals, NEW u \in Users,
                CreateProposal(w, p, u)
         PROVE  call' \in [Invocations -> Calls] /\ CallsKnow'
    BY <1>7, <1>10, CreateEffect DEF CreateProposal
  <1>11. ASSUME NEW w \in Invocations, NEW p \in Proposals, NEW u \in Users,
                NEW action \in ReviewActions, ReadProposal(w, p, u, action)
         PROVE  call' \in [Invocations -> Calls] /\ CallsKnow'
    <2> DEFINE e == Entry(p, action, proposal[p].status, u)
               state == [stage |-> "review", entry |-> e]
    <2>1. /\ proposal[p] # NoRow /\ proposal[p].createdBy # u
          /\ proposal[p].status \in ReviewFrom(action) /\ UNCHANGED proposal
      BY <1>11 DEF ReadProposal, MayReview
    <2>2. proposal[p].status \in ProposalStatuses BY <2>1, FromStatuses
    <2>3. e \in Entries BY <2>2 DEF Entry, Entries
    <2>4. state \in Calls /\ state.stage = "review" /\ state.entry = e
      BY <2>3 DEF Calls
    <2>5. /\ e.action = action /\ e.from = proposal[p].status /\ e.proposal = p
          /\ e.actor = u
      BY DEF Entry
    <2>6. call' = [call EXCEPT ![w] = state] BY <1>11 DEF ReadProposal
    <2> HIDE DEF state, e
    <2> QED BY <1>5, <2>1, <2>4, <2>5, <2>6
  <1>12. ASSUME NEW w \in Invocations, UpdateProposal(w)
         PROVE  call' \in [Invocations -> Calls] /\ CallsKnow'
    <2>1. call[w].entry \in Entries BY <1>12, ReviewEffect
    <2>2. call' = [call EXCEPT ![w] = [stage |-> "append", entry |-> call[w].entry]]
      BY <1>12 DEF UpdateProposal
    <2> QED BY <1>7, <2>1, <2>2
  <1>13. ASSUME NEW w \in Invocations, NEW p \in Proposals, NEW slot \in Slots,
                ReadSource(w, p, slot)
         PROVE  call' \in [Invocations -> Calls] /\ CallsKnow'
    <2> DEFINE state == [stage |-> "promote", source |-> p, slot |-> slot]
    <2>1. state \in Calls /\ state.stage = "promote" /\ state.source = p BY DEF Calls
    <2>2. /\ proposal[p].status = "approved" /\ UNCHANGED proposal
          /\ call' = [call EXCEPT ![w] = state]
      BY <1>13 DEF ReadSource
    <2> HIDE DEF state
    <2> QED BY <1>5, <2>1, <2>2
  <1>14. ASSUME NEW w \in Invocations, NEW d \in Destinations, NEW u \in Users,
                NEW action \in MonthlyActions, ReadDestination(w, d, u, action)
         PROVE  call' \in [Invocations -> Calls] /\ CallsKnow'
    <2> DEFINE state == [stage |-> "transition", destination |-> d, action |-> action,
                         actor |-> u, read |-> destination[d]]
    <2>1. destination[d] \in DestinationRows /\ destination[d] # NoRow
      BY <1>1, <1>14, DestinationThere DEF ReadDestination
    <2>2. state \in Calls /\ state.stage = "transition" /\ state.destination = d
      BY <2>1 DEF Calls
    <2>3. call' = [call EXCEPT ![w] = state] /\ UNCHANGED destination
      BY <1>14 DEF ReadDestination
    <2> HIDE DEF state
    <2> QED BY <1>5, <2>1, <2>2, <2>3
  <1>15. ASSUME NEW w \in Invocations, UpdateDestination(w)
         PROVE  call' \in [Invocations -> Calls] /\ CallsKnow'
    <2> DEFINE d == call[w].destination
    <2>1. d \in Destinations /\ destination[d] # NoRow
      BY <1>1, <1>15, TransitionCallTyped DEF UpdateDestination, CallsKnow, CurateKnows
    <2>2. \/ call' = [call EXCEPT ![w] =
                        [stage |-> "enqueue", destination |-> d, next |-> 1]]
          \/ call' = [call EXCEPT ![w] = Idle]
      BY <1>15 DEF UpdateDestination
    <2> HIDE DEF d
    <2> QED BY <1>6, <1>8, <2>1, <2>2, FirstJob
  <1>16. ASSUME NEW w \in Invocations, EnqueueJob(w)
         PROVE  call' \in [Invocations -> Calls] /\ CallsKnow'
    <2> DEFINE d == call[w].destination
               n == call[w].next
    <2>1. /\ d \in Destinations /\ n \in DOMAIN PublishJobTypes /\ destination[d] # NoRow
          /\ [call[w] EXCEPT !.next = n + 1] =
               [stage |-> "enqueue", destination |-> d, next |-> n + 1]
      BY <1>1, <1>16, EnqueueCallTyped DEF EnqueueJob, CallsKnow, CurateKnows
    <2>2. \/ call' = [call EXCEPT ![w] = Idle]
          \/ /\ ~LastType(n)
             /\ call' = [call EXCEPT ![w] = [call[w] EXCEPT !.next = n + 1]]
      BY <1>16 DEF EnqueueJob
    <2>3. ~LastType(n) => n + 1 \in DOMAIN PublishJobTypes
      BY <2>1, JobTypesAssumption DEF LastType
    <2> HIDE DEF d, n
    <2> QED BY <1>6, <1>8, <2>1, <2>2, <2>3
  <1>17. ASSUME NEW w \in Invocations,
                \/ LoseReview(w) \/ AppendHistory(w) \/ LosePromotion(w) \/ Die(w)
                \/ \E d \in Destinations : InsertCandidate(w, d)
         PROVE  call' = [call EXCEPT ![w] = Idle]
    BY <1>17 DEF LoseReview, AppendHistory, LosePromotion, Die, InsertCandidate
  <1>18. ASSUME NEW u \in Users, NEW ids \in BulkSets, BulkPublish(u, ids)
         PROVE  call' \in [Invocations -> Calls] /\ CallsKnow'
    BY <1>4, <1>18 DEF BulkPublish
  <1> QED BY <1>6, <1>9, <1>10, <1>11, <1>12, <1>13, <1>14, <1>15, <1>16, <1>17, <1>18
          DEF Next, Review, Curate

LEMMA StepType ==
  ASSUME CurationInv, [Next]_vars
  PROVE  CurationTypeOK'
  <1>1. CurationTypeOK BY DEF CurationInv
  <1>2. history' \subseteq Entries
    <2>1. CASE \E w \in Invocations : AppendHistory(w)
      <3>1. PICK w \in Invocations : AppendHistory(w) BY <2>1
      <3>2. call[w].entry \in Entries BY <1>1, <3>1, ReviewCallTyped DEF AppendHistory
      <3> QED BY <1>1, <3>1, <3>2 DEF AppendHistory, CurationTypeOK
    <2>2. CASE ~\E w \in Invocations : AppendHistory(w)
      <3>1. UNCHANGED history
        BY <2>2, ZenonT(40) DEF Next, vars, Review, Curate, CreateProposal, ReadProposal,
           UpdateProposal, LoseReview, ReadSource, InsertCandidate, LosePromotion,
           ReadDestination, UpdateDestination, EnqueueJob, Die, BulkPublish
      <3> QED BY <1>1, <3>1 DEF CurationTypeOK
    <2> QED BY <2>1, <2>2
  <1>3. jobs' \in [Destinations -> [JobKinds -> Nat]]
    <2>1. CASE \E w \in Invocations : EnqueueJob(w)
      <3>1. PICK w \in Invocations : EnqueueJob(w) BY <2>1
      <3>2. call[w].destination \in Destinations /\ call[w].next \in DOMAIN PublishJobTypes
        BY <1>1, <3>1, EnqueueCallTyped DEF EnqueueJob
      <3>3. PublishJobTypes[call[w].next] \in JobKinds BY <3>2 DEF JobKinds
      <3> QED BY <1>1, <3>1, <3>2, <3>3 DEF EnqueueJob, CurationTypeOK
    <2>2. CASE \E u \in Users, ids \in BulkSets : BulkPublish(u, ids)
      <3>1. PICK u \in Users, ids \in BulkSets : BulkPublish(u, ids) BY <2>2
      <3>2. ASSUME NEW d \in Destinations PROVE jobs'[d] \in [JobKinds -> Nat]
        <4>1. jobs[d] \in [JobKinds -> Nat] BY <1>1 DEF CurationTypeOK
        <4>2. [t \in JobKinds |-> jobs[d][t] + 1] \in [JobKinds -> Nat] BY <4>1
        <4> QED BY <3>1, <4>1, <4>2 DEF BulkPublish
      <3>3. jobs' = [d \in Destinations |-> jobs'[d]] BY <3>1 DEF BulkPublish
      <3> QED BY <3>2, <3>3
    <2>3. CASE /\ ~\E w \in Invocations : EnqueueJob(w)
               /\ ~\E u \in Users, ids \in BulkSets : BulkPublish(u, ids)
      <3>1. UNCHANGED jobs
        BY <2>3, ZenonT(40) DEF Next, vars, Review, Curate, CreateProposal, ReadProposal,
           UpdateProposal, LoseReview, AppendHistory, ReadSource, InsertCandidate,
           LosePromotion, ReadDestination, UpdateDestination, Die
      <3> QED BY <1>1, <3>1 DEF CurationTypeOK
    <2> QED BY <2>1, <2>2, <2>3
  <1>4. cut' \in [Destinations -> Nat]
    <2>1. CASE \E w \in Invocations : Die(w)
      <3>1. PICK w \in Invocations : Die(w) BY <2>1
      <3>2. cut' = cut \/ cut' = [cut EXCEPT ![call[w].destination] = @ + 1]
        BY <3>1 DEF Die
      <3> QED BY <1>1, <3>2 DEF CurationTypeOK
    <2>2. CASE ~\E w \in Invocations : Die(w)
      <3>1. UNCHANGED cut
        BY <2>2, ZenonT(40) DEF Next, vars, Review, Curate, CreateProposal, ReadProposal,
           UpdateProposal, LoseReview, AppendHistory, ReadSource, InsertCandidate,
           LosePromotion, ReadDestination, UpdateDestination, EnqueueJob, BulkPublish
      <3> QED BY <1>1, <3>1 DEF CurationTypeOK
    <2> QED BY <2>1, <2>2
  <1> QED BY <1>2, <1>3, <1>4, StepRows, StepCalls DEF CurationTypeOK

LEMMA StepApproved ==
  ASSUME CurationInv, [Next]_vars
  PROVE  ApprovedHashed' /\ PromotedWereApproved'
  <1>1. CurationTypeOK /\ CallsKnow /\ ApprovedHashed /\ PromotedWereApproved
    BY DEF CurationInv
  <1>2. RowsKept BY StepRows
  <1>3. ApprovedHashed'
    <2>1. ASSUME NEW w \in Invocations, NEW p \in Proposals, NEW u \in Users,
                 CreateProposal(w, p, u)
          PROVE  ApprovedHashed'
      <3>1. \A q \in Proposals :
              proposal'[q] = IF q = p THEN NewProposal(u) ELSE proposal[q]
        BY <2>1, CreateEffect
      <3>2. NewProposal(u).status # "approved" BY DEF NewProposal
      <3> QED BY <1>1, <3>1, <3>2 DEF ApprovedHashed
    <2>2. ASSUME NEW w \in Invocations, UpdateProposal(w) PROVE ApprovedHashed'
      <3> DEFINE e == call[w].entry
      <3>1. /\ \A q \in Proposals : q # e.proposal => proposal'[q] = proposal[q]
            /\ proposal'[e.proposal].status = e.action
            /\ proposal'[e.proposal].hashed = (e.action = "approved")
        BY <2>2, ReviewEffect
      <3> HIDE DEF e
      <3> QED BY <1>1, <3>1 DEF ApprovedHashed
    <2>3. CASE UNCHANGED proposal BY <1>1, <2>3 DEF ApprovedHashed
    <2>4. ASSUME NEW w \in Invocations, UpdateDestination(w) PROVE UNCHANGED proposal
      BY <2>4 DEF UpdateDestination
    <2>5. ASSUME NEW w \in Invocations, NEW d \in Destinations, InsertCandidate(w, d)
          PROVE  UNCHANGED proposal
      BY <2>5 DEF InsertCandidate
    <2>6. ASSUME NEW u \in Users, NEW ids \in BulkSets, BulkPublish(u, ids)
          PROVE  UNCHANGED proposal
      BY <2>6 DEF BulkPublish
    <2> QED BY <2>1, <2>2, <2>3, <2>4, <2>5, <2>6, NoWrite
  <1>4. ASSUME NEW p \in Proposals, proposal[p].status = "approved"
        PROVE  proposal'[p].status = "approved" /\ proposal'[p].hashed
    <2>1. proposal[p] # NoRow BY <1>4 DEF NoRow
    <2> QED BY <1>1, <1>2, <1>4, <2>1 DEF RowsKept, ApprovedHashed
  <1>5. ASSUME NEW d \in Destinations, destination'[d] # NoRow
        PROVE  /\ proposal'[destination'[d].source].status = "approved"
               /\ proposal'[destination'[d].source].hashed
    <2>1. CASE destination[d] # NoRow
      <3>1. destination'[d].source = destination[d].source BY <1>2, <2>1 DEF RowsKept
      <3>2. destination[d].source \in Proposals
        BY <1>1, <2>1, DestinationThere DEF DestinationRows
      <3>3. proposal[destination[d].source].status = "approved"
        BY <1>1, <2>1 DEF PromotedWereApproved
      <3> QED BY <1>4, <3>1, <3>2, <3>3
    <2>2. CASE destination[d] = NoRow
      <3>1. ~UNCHANGED destination BY <1>5, <2>2
      <3>2. ASSUME NEW w \in Invocations, NEW p \in Proposals, NEW u \in Users,
                   CreateProposal(w, p, u)
            PROVE  FALSE
        BY <3>1, <3>2 DEF CreateProposal
      <3>3. ASSUME NEW w \in Invocations, UpdateProposal(w) PROVE FALSE
        BY <3>1, <3>3 DEF UpdateProposal
      <3>4. ASSUME NEW w \in Invocations, UpdateDestination(w) PROVE FALSE
        <4>1. \A row \in DestinationRows : row # NoRow BY DEF DestinationRows, NoRow
        <4> QED BY <1>5, <2>2, <3>4, <4>1, TransitionEffect
      <3>5. ASSUME NEW u \in Users, NEW ids \in BulkSets, BulkPublish(u, ids) PROVE FALSE
        <4>1. \A row \in DestinationRows : row # NoRow BY DEF DestinationRows, NoRow
        <4> QED BY <1>5, <2>2, <3>5, <4>1, BulkEffect
      <3>6. PICK w \in Invocations, x \in Destinations : InsertCandidate(w, x)
        BY <3>1, <3>2, <3>3, <3>4, <3>5, NoWrite
      <3>7. /\ call[w].source \in Proposals /\ destination'[d].source = call[w].source
        BY <1>5, <2>2, <3>6, InsertEffect
      <3>8. proposal[call[w].source].status = "approved"
        BY <1>1, <3>6 DEF InsertCandidate, CallsKnow, PromoteKnows
      <3> QED BY <1>4, <3>7, <3>8
    <2> QED BY <2>1, <2>2
  <1> QED BY <1>3, <1>5 DEF PromotedWereApproved

LEMMA CurationInvariant == Spec => []CurationInv
  <1>1. CurationInv /\ [Next]_vars => CurationInv'
    BY StepType, StepCalls, StepApproved DEF CurationInv
  <1> QED BY <1>1, InitCuration, PTL DEF Spec

(* CurationTypeOK: the rows, the history and what each invocation holds.    *)
THEOREM CurationTyped == Spec => []CurationTypeOK
  BY CurationInvariant, PTL DEF CurationInv

(* PromotedWereApproved: a destination comes from a proposal that is        *)
(* approved, with its hash, however long ago promote read it.               *)
THEOREM PromotionsApproved == Spec => []PromotedWereApproved
  BY CurationInvariant, PTL DEF CurationInv

(* StampsKept: no transition, fresh or stale, and no bulk publication       *)
(* erases who published or who hid a destination.                           *)
THEOREM StampsAreKept == Spec => StampsKept
  <1>1. CurationInv /\ [Next]_vars =>
          [\A d \in Destinations : destination[d] # NoRow =>
             /\ destination[d].publishedBy # None => destination'[d].publishedBy # None
             /\ destination[d].hiddenBy # None => destination'[d].hiddenBy # None]_vars
    BY StepRows DEF RowsKept
  <1> QED BY <1>1, CurationInvariant, PTL DEF Spec, StampsKept
-----------------------------------------------------------------------------
(* The review of proposals implements the board. *)
Reviews == [p \in Proposals |-> ReviewOf(proposal[p])]
Sources ==
    {destination[d].source : d \in {x \in Destinations : destination[x] # NoRow}}

LEMMA ReviewOfRow ==
  /\ ReviewOf(NoRow) = [status |-> "unsubmitted", author |-> None, reviewer |-> None]
  /\ \A row \in ProposalRows :
       /\ row # NoRow
       /\ ReviewOf(row) = [status |-> row.status, author |-> row.createdBy,
                           reviewer |-> row.reviewedBy]
  BY DEF ReviewOf, ProposalRows, NoRow, ProposalStatuses

LEMMA SourcesKept ==
  ASSUME CurationInv, [Next]_vars,
         \A d \in Destinations : destination[d] = NoRow => destination'[d] = NoRow
  PROVE  Sources' = Sources
  <1>1. \A d \in Destinations : destination[d] # NoRow =>
          destination'[d] # NoRow /\ destination'[d].source = destination[d].source
    BY StepRows DEF RowsKept
  <1> QED BY <1>1 DEF Sources

LEMMA BoardInit == Init => Board!Init
  BY ReviewOfRow DEF Init, Board!Init, Board!Unsubmitted

LEMMA BoardStep ==
  ASSUME CurationInv, [Next]_vars
  PROVE  [Board!Next]_<<Reviews, Sources>>
  <1>1. CurationTypeOK BY DEF CurationInv
  <1>2. \A row \in DestinationRows : row # NoRow BY DEF DestinationRows, NoRow
  <1>3. ASSUME NEW w \in Invocations, NEW p \in Proposals, NEW u \in Users,
               CreateProposal(w, p, u)
        PROVE  Board!Next
    <2>1. /\ proposal[p] = NoRow /\ NewProposal(u) \in ProposalRows
          /\ \A q \in Proposals :
               proposal'[q] = IF q = p THEN NewProposal(u) ELSE proposal[q]
      BY <1>3, CreateEffect DEF CurationInv
    <2>2. ReviewOf(NewProposal(u)) =
            [status |-> "submitted", author |-> u, reviewer |-> None]
      BY <2>1, ReviewOfRow DEF NewProposal
    <2>3. Reviews[p] = Board!Unsubmitted
      BY <2>1, ReviewOfRow DEF Reviews, Board!Unsubmitted
    <2>4. Reviews' = [Reviews EXCEPT ![p] = Board!Reviewed("submitted", u, None)]
      BY <2>1, <2>2 DEF Reviews, Board!Reviewed
    <2>5. Sources' = Sources BY <1>3 DEF CreateProposal, Sources
    <2>6. Board!Submit(p, u)
      BY <2>3, <2>4, <2>5 DEF Board!Submit, Reviews, Sources
    <2> QED BY <2>6 DEF Board!Next
  <1>4. ASSUME NEW w \in Invocations, UpdateProposal(w) PROVE Board!Next
    <2> DEFINE e == call[w].entry
               p == e.proposal
    <2>1. /\ p \in Proposals /\ e.action \in ReviewActions
          /\ proposal[p] \in ProposalRows /\ proposal[p].status = e.from
          /\ e.from \in ReviewFrom(e.action) /\ proposal[p].createdBy # e.actor
          /\ e.actor \in Users
          /\ \A q \in Proposals : q # p => proposal'[q] = proposal[q]
          /\ proposal'[p] \in ProposalRows /\ proposal'[p].status = e.action
          /\ proposal'[p].createdBy = proposal[p].createdBy
          /\ proposal'[p].reviewedBy = e.actor
      BY <1>4, ReviewEffect
    <2> HIDE DEF p
    <2>2. /\ Reviews[p] = [status |-> proposal[p].status, author |-> proposal[p].createdBy,
                           reviewer |-> proposal[p].reviewedBy]
          /\ ReviewOf(proposal'[p]) =
               [status |-> e.action, author |-> proposal[p].createdBy, reviewer |-> e.actor]
      BY <2>1, ReviewOfRow DEF Reviews
    <2>3. Reviews' = [Reviews EXCEPT
                        ![p] = Board!Reviewed(e.action, Reviews[p].author, e.actor)]
      <3>1. Board!Reviewed(e.action, Reviews[p].author, e.actor) = ReviewOf(proposal'[p])
        BY <2>2 DEF Board!Reviewed
      <3> HIDE DEF e
      <3>2. \A q \in Proposals : q # p => ReviewOf(proposal'[q]) = ReviewOf(proposal[q])
        BY <2>1
      <3>3. Reviews' = [q \in Proposals |-> ReviewOf(proposal'[q])] BY DEF Reviews, ReviewOf
      <3> QED BY <2>1, <3>1, <3>2, <3>3 DEF Reviews
    <2>4. <<Reviews[p].status, e.action>> \in Board!Steps
      <3>1. Reviews[p].status = e.from BY <2>1, <2>2
      <3>2. \/ e.action = "in_review" /\ e.from \in {"submitted", "change_requested"}
            \/ e.action = "approved" /\ e.from = "in_review"
            \/ e.action = "rejected"
                 /\ e.from \in {"submitted", "in_review", "change_requested"}
        BY <2>1 DEF ReviewFrom, ReviewActions
      <3> HIDE DEF e
      <3> QED BY <3>1, <3>2 DEF Board!Steps, Board!Open
    <2>5. Reviews[p].author # e.actor BY <2>1, <2>2
    <2>6. Sources' = Sources BY <1>4 DEF UpdateProposal, Sources
    <2>7. e.action \in {"in_review", "approved", "rejected"} BY <2>1 DEF ReviewActions
    <2>8. p \in Proposals /\ e.actor \in Users BY <2>1
    <2> HIDE DEF e
    <2>9. Board!Judge(p, e.actor, e.action)
      BY <2>3, <2>4, <2>5, <2>6 DEF Board!Judge, Reviews, Sources
    <2> QED BY <2>7, <2>8, <2>9 DEF Board!Next
  <1>5. ASSUME NEW w \in Invocations, NEW d \in Destinations, InsertCandidate(w, d)
        PROVE  Board!Next
    <2>1. PICK p \in Proposals : p = call[w].source BY <1>5, InsertEffect
    <2> DEFINE new == NewDestination(p, call[w].slot)
    <2>2. /\ destination[d] = NoRow /\ new \in DestinationRows /\ new.source = p
          /\ \A x \in Destinations : destination'[x] = IF x = d THEN new ELSE destination[x]
      BY <1>5, <2>1, InsertEffect
    <2>3. proposal[p].status = "approved"
      BY <1>5, <2>1 DEF InsertCandidate, CurationInv, CallsKnow, PromoteKnows
    <2>4. proposal[p] \in ProposalRows
      BY <1>1, <2>3, ProposalThere DEF ProposalStatuses
    <2> HIDE DEF new
    <2>5. Reviews[p].status = "approved" BY <2>3, <2>4, ReviewOfRow DEF Reviews
    <2>6. Sources' = Sources \cup {p} BY <1>2, <2>2 DEF Sources
    <2>7. Reviews' = Reviews BY <1>5 DEF InsertCandidate, Reviews, ReviewOf
    <2>8. Board!Promote(p) BY <2>5, <2>6, <2>7 DEF Board!Promote, Reviews, Sources
    <2> QED BY <2>8 DEF Board!Next
  <1>6. ASSUME NEW w \in Invocations, UpdateDestination(w)
        PROVE  UNCHANGED <<Reviews, Sources>>
    <2>1. \A d \in Destinations : destination[d] = NoRow => destination'[d] = NoRow
      BY <1>2, <1>6, TransitionEffect
    <2>2. Reviews' = Reviews BY <1>6 DEF UpdateDestination, Reviews, ReviewOf
    <2> QED BY <2>1, <2>2, SourcesKept
  <1>7. ASSUME NEW u \in Users, NEW ids \in BulkSets, BulkPublish(u, ids)
        PROVE  UNCHANGED <<Reviews, Sources>>
    <2>1. \A d \in Destinations : destination[d] = NoRow => destination'[d] = NoRow
      BY <1>2, <1>7, BulkEffect
    <2>2. Reviews' = Reviews BY <1>7 DEF BulkPublish, Reviews, ReviewOf
    <2> QED BY <2>1, <2>2, SourcesKept
  <1>8. ASSUME UNCHANGED <<proposal, destination>> PROVE UNCHANGED <<Reviews, Sources>>
    BY <1>8 DEF Reviews, Sources, ReviewOf
  <1> QED BY <1>3, <1>4, <1>5, <1>6, <1>7, <1>8, NoWrite

(* BoardImplemented: cut into statements, raced for and left half done, the *)
(* review still is the board's, for any number of reviewers and proposals.  *)
THEOREM ReviewImplementsBoard == Spec => BoardImplemented
  <1>1. CurationInv /\ [Next]_vars => [Board!Next]_<<Reviews, Sources>> BY BoardStep
  <1>2. Spec => Board!Init /\ [][Board!Next]_<<Reviews, Sources>>
    BY <1>1, BoardInit, CurationInvariant, PTL DEF Spec
  <1> QED BY <1>2, PTL DEF BoardImplemented, Board!BoardSpec, Reviews, Sources
-----------------------------------------------------------------------------
(* The history.  Each status a proposal leaves is below the one it has, so  *)
(* no second entry can leave the same one.  An entry whose row is not yet   *)
(* appended counts as past.                                                 *)
Rank(status) ==
    CASE status = "submitted" -> 1
      [] status = "change_requested" -> 1
      [] status = "in_review" -> 2
      [] status = "approved" -> 3
      [] status = "rejected" -> 3
      [] OTHER -> 0
Past(e) ==
    \/ e \in history
    \/ \E w \in Invocations : call[w].stage = "append" /\ call[w].entry = e
Happened(e) ==
    /\ proposal[e.proposal] # NoRow
    /\ Rank(e.from) < Rank(proposal[e.proposal].status)
    /\ e.action \in {"approved", "rejected"} =>
         /\ proposal[e.proposal].status = e.action
         /\ proposal[e.proposal].reviewedBy = e.actor
PastHappened == \A e \in Entries : Past(e) => Happened(e)
PastUnique ==
    \A e, f \in Entries :
      Past(e) /\ Past(f) /\ e.proposal = f.proposal /\ e.from = f.from => e = f
HistoryInv == CurationInv /\ PastHappened /\ PastUnique

LEMMA Ranks ==
  /\ \A status : Rank(status) \in 0 .. 3
  /\ \A status \in ProposalStatuses : Rank(status) > 0
  /\ \A action \in ReviewActions : \A from \in ReviewFrom(action) :
       Rank(from) < Rank(action)
  /\ Rank("submitted") = 1
  BY DEF Rank, ProposalStatuses, ReviewActions, ReviewFrom

LEMMA EntryFields ==
  ASSUME NEW e \in Entries
  PROVE  e.proposal \in Proposals /\ e.actor \in Users
  BY DEF Entries

(* A step adds one entry to the past, with its change of the row, or none.  *)
LEMMA StepPast ==
  ASSUME CurationInv, [Next]_vars
  PROVE  \/ /\ proposal' = proposal
            /\ \A e \in Entries : Past(e)' => Past(e)
         \/ \E w \in Invocations, p \in Proposals, u \in Users :
              /\ CreateProposal(w, p, u)
              /\ \A e \in Entries : Past(e)' => Past(e) \/ e = Entry(p, "submitted", None, u)
         \/ \E w \in Invocations :
              /\ UpdateProposal(w)
              /\ \A e \in Entries : Past(e)' => Past(e) \/ e = call[w].entry
  <1>1. CurationTypeOK BY DEF CurationInv
  <1>2. ASSUME NEW w \in Invocations, NEW state, state.stage # "append",
               call' = [call EXCEPT ![w] = state], UNCHANGED <<proposal, history>>
        PROVE  proposal' = proposal /\ \A e \in Entries : Past(e)' => Past(e)
    <2>1. \A v \in Invocations : call'[v] = IF v = w THEN state ELSE call[v]
      BY <1>1, <1>2 DEF CurationTypeOK
    <2> QED BY <1>2, <2>1 DEF Past
  <1>3. ASSUME NEW w \in Invocations, NEW f,
               call' = [call EXCEPT ![w] = [stage |-> "append", entry |-> f]],
               UNCHANGED history
        PROVE  \A e \in Entries : Past(e)' => Past(e) \/ e = f
    <2>1. \A v \in Invocations :
            call'[v] = IF v = w THEN [stage |-> "append", entry |-> f] ELSE call[v]
      BY <1>1, <1>3 DEF CurationTypeOK
    <2> QED BY <1>3, <2>1 DEF Past
  <1>4. ASSUME UNCHANGED <<proposal, history, call>>
        PROVE  proposal' = proposal /\ \A e \in Entries : Past(e)' => Past(e)
    BY <1>4 DEF Past
  <1>5. ASSUME NEW w \in Invocations, AppendHistory(w)
        PROVE  proposal' = proposal /\ \A e \in Entries : Past(e)' => Past(e)
    <2>1. \A v \in Invocations : call'[v] = IF v = w THEN Idle ELSE call[v]
      BY <1>1, <1>5 DEF CurationTypeOK, AppendHistory
    <2>2. /\ history' = history \cup {call[w].entry} /\ call[w].stage = "append"
          /\ UNCHANGED proposal
      BY <1>5 DEF AppendHistory
    <2> QED BY <2>1, <2>2, StageOfIdle DEF Past
  <1>6. ASSUME NEW w \in Invocations, NEW p \in Proposals, NEW u \in Users,
               CreateProposal(w, p, u)
        PROVE  \A e \in Entries : Past(e)' => Past(e) \/ e = Entry(p, "submitted", None, u)
    BY <1>3, <1>6 DEF CreateProposal
  <1>7. ASSUME NEW w \in Invocations, UpdateProposal(w)
        PROVE  \A e \in Entries : Past(e)' => Past(e) \/ e = call[w].entry
    BY <1>3, <1>7 DEF UpdateProposal
  <1>8. ASSUME NEW w \in Invocations,
               \/ LoseReview(w) \/ LosePromotion(w) \/ Die(w)
               \/ \E d \in Destinations : InsertCandidate(w, d)
        PROVE  proposal' = proposal /\ \A e \in Entries : Past(e)' => Past(e)
    <2>1. call' = [call EXCEPT ![w] = Idle] /\ UNCHANGED <<proposal, history>>
      BY <1>8 DEF LoseReview, LosePromotion, Die, InsertCandidate
    <2> QED BY <1>2, <2>1, StageOfIdle
  <1>9. ASSUME NEW w \in Invocations, NEW p \in Proposals, NEW u \in Users,
               NEW action \in ReviewActions, ReadProposal(w, p, u, action)
        PROVE  proposal' = proposal /\ \A e \in Entries : Past(e)' => Past(e)
    BY <1>2, <1>9 DEF ReadProposal
  <1>10. ASSUME NEW w \in Invocations, NEW p \in Proposals, NEW slot \in Slots,
                ReadSource(w, p, slot)
         PROVE  proposal' = proposal /\ \A e \in Entries : Past(e)' => Past(e)
    BY <1>2, <1>10 DEF ReadSource
  <1>11. ASSUME NEW w \in Invocations, NEW d \in Destinations, NEW u \in Users,
                NEW action \in MonthlyActions, ReadDestination(w, d, u, action)
         PROVE  proposal' = proposal /\ \A e \in Entries : Past(e)' => Past(e)
    BY <1>2, <1>11 DEF ReadDestination
  <1>12. ASSUME NEW w \in Invocations, UpdateDestination(w)
         PROVE  proposal' = proposal /\ \A e \in Entries : Past(e)' => Past(e)
    <2>1. /\ UNCHANGED <<proposal, history>>
          /\ \/ call' = [call EXCEPT ![w] = [stage |-> "enqueue",
                           destination |-> call[w].destination, next |-> 1]]
             \/ call' = [call EXCEPT ![w] = Idle]
      BY <1>12 DEF UpdateDestination
    <2> QED BY <1>2, <2>1, StageOfIdle
  <1>13. ASSUME NEW w \in Invocations, EnqueueJob(w)
         PROVE  proposal' = proposal /\ \A e \in Entries : Past(e)' => Past(e)
    <2>1. /\ UNCHANGED <<proposal, history>>
          /\ \/ call' = [call EXCEPT ![w] = Idle]
             \/ call' = [call EXCEPT ![w] = [stage |-> "enqueue",
                   destination |-> call[w].destination, next |-> call[w].next + 1]]
      BY <1>1, <1>13, EnqueueCallTyped DEF EnqueueJob
    <2> QED BY <1>2, <2>1, StageOfIdle
  <1>14. ASSUME NEW u \in Users, NEW ids \in BulkSets, BulkPublish(u, ids)
         PROVE  proposal' = proposal /\ \A e \in Entries : Past(e)' => Past(e)
    BY <1>4, <1>14 DEF BulkPublish
  <1>15. CASE UNCHANGED vars BY <1>4, <1>15 DEF vars
  <1> QED BY <1>5, <1>6, <1>7, <1>8, <1>9, <1>10, <1>11, <1>12, <1>13, <1>14, <1>15
          DEF Next, Review, Curate

LEMMA StepHistory ==
  ASSUME HistoryInv, [Next]_vars
  PROVE  PastHappened' /\ PastUnique'
  <1>1. CurationInv /\ PastHappened /\ PastUnique BY DEF HistoryInv
  <1>2. RowsKept BY <1>1, StepRows
  <1>3. CASE proposal' = proposal /\ \A e \in Entries : Past(e)' => Past(e)
    BY <1>1, <1>3 DEF PastHappened, PastUnique, Happened
  <1>4. ASSUME NEW w \in Invocations, NEW p \in Proposals, NEW u \in Users,
               CreateProposal(w, p, u),
               \A e \in Entries : Past(e)' => Past(e) \/ e = Entry(p, "submitted", None, u)
        PROVE  PastHappened' /\ PastUnique'
    <2> DEFINE new == Entry(p, "submitted", None, u)
    <2>1. /\ proposal[p] = NoRow /\ NewProposal(u) \in ProposalRows
          /\ \A q \in Proposals : proposal'[q] = IF q = p THEN NewProposal(u) ELSE proposal[q]
      BY <1>1, <1>4, CreateEffect
    <2>2. \A e \in Entries : Past(e) => e.proposal \in Proposals /\ e.proposal # p
      BY <1>1, <2>1, EntryFields DEF PastHappened, Happened
    <2>3. /\ new.proposal = p /\ new.from = None /\ new.action = "submitted"
      BY DEF Entry
    <2>4. NewProposal(u).status = "submitted" /\ NewProposal(u) # NoRow
      BY DEF NewProposal, NoRow
    <2>5. Rank(None) < Rank("submitted")
      <3>1. None \notin {"submitted", "change_requested", "in_review", "approved", "rejected"}
        BY StatusAssumption DEF ProposalStatuses
      <3> QED BY <3>1 DEF Rank
    <2> HIDE DEF new
    <2>6. \A e \in Entries : Past(e)' => Past(e) \/ e = new BY <1>4 DEF new
    <2>7. PastHappened'
      BY <1>1, <2>1, <2>2, <2>3, <2>4, <2>5, <2>6 DEF PastHappened, Happened
    <2>8. PastUnique' BY <1>1, <2>2, <2>3, <2>6 DEF PastUnique
    <2> QED BY <2>7, <2>8
  <1>5. ASSUME NEW w \in Invocations, UpdateProposal(w),
               \A e \in Entries : Past(e)' => Past(e) \/ e = call[w].entry
        PROVE  PastHappened' /\ PastUnique'
    <2>1. PICK new \in Entries : new = call[w].entry BY <1>1, <1>5, ReviewEffect
    <2> DEFINE p == new.proposal
    <2>2. /\ p \in Proposals /\ new.action \in ReviewActions
          /\ proposal[p] \in ProposalRows /\ proposal[p].status = new.from
          /\ new.from \in ReviewFrom(new.action)
          /\ \A q \in Proposals : q # p => proposal'[q] = proposal[q]
          /\ proposal'[p] \in ProposalRows /\ proposal'[p].status = new.action
          /\ proposal'[p].reviewedBy = new.actor
      BY <1>1, <1>5, <2>1, ReviewEffect
    <2>3. Rank(new.from) < Rank(new.action) BY <2>2, Ranks
    <2>4. proposal'[p] # NoRow BY <2>2, ReviewOfRow
    <2>5. new.from \notin {"approved", "rejected"} BY <2>2 DEF ReviewActions, ReviewFrom
    <2> HIDE DEF p
    <2>6. Happened(new)' BY <2>2, <2>3, <2>4 DEF Happened, p
    <2>7. ASSUME NEW e \in Entries, Past(e)
          PROVE  Happened(e)' /\ (e.proposal = p => Rank(e.from) < Rank(new.from))
      <3>1. Happened(e) /\ e.proposal \in Proposals
        BY <1>1, <2>7, EntryFields DEF PastHappened
      <3>2. CASE e.proposal # p BY <2>2, <3>1, <3>2 DEF Happened
      <3>3. CASE e.proposal = p
        <4>1. Rank(e.from) < Rank(new.from) BY <2>2, <3>1, <3>3 DEF Happened
        <4>2. Rank(e.from) < Rank(new.action)
          <5>1. /\ Rank(e.from) \in 0 .. 3 /\ Rank(new.from) \in 0 .. 3
                /\ Rank(new.action) \in 0 .. 3
            BY Ranks
          <5> QED BY <2>3, <4>1, <5>1
        <4>3. e.action \notin {"approved", "rejected"}
          BY <2>2, <2>5, <3>1, <3>3 DEF Happened
        <4> QED BY <2>2, <2>4, <3>3, <4>1, <4>2, <4>3 DEF Happened
      <3> QED BY <3>2, <3>3
    <2>8. \A e \in Entries : Past(e)' => Past(e) \/ e = new BY <1>5, <2>1
    <2>9. PastHappened' BY <2>6, <2>7, <2>8 DEF PastHappened
    <2>10. ASSUME NEW e \in Entries, Past(e), e.proposal = p, e.from = new.from
           PROVE  FALSE
      <3>1. Rank(new.from) < Rank(new.from) /\ Rank(new.from) \in 0 .. 3
        BY <2>7, <2>10, Ranks
      <3> QED BY <3>1
    <2>11. PastUnique' BY <1>1, <2>8, <2>10 DEF PastUnique, p
    <2> QED BY <2>9, <2>11
  <1> QED BY <1>1, <1>3, <1>4, <1>5, StepPast

(* HistoryTellsTruth: of two entries that leave the same status of a        *)
(* proposal there is one, and an entry that says approved or rejected is    *)
(* what the proposal still is, by the reviewer it names.                    *)
THEOREM HistoryIsTrue == Spec => []HistoryTellsTruth
  <1>1. Init => HistoryInv
    BY InitCuration, StageOfIdle
       DEF Init, HistoryInv, PastHappened, PastUnique, Past
  <1>2. HistoryInv /\ [Next]_vars => HistoryInv'
    <2>1. HistoryInv /\ [Next]_vars => CurationInv'
      BY StepType, StepCalls, StepApproved DEF CurationInv, HistoryInv
    <2> QED BY <2>1, StepHistory DEF HistoryInv
  <1>3. HistoryInv => HistoryTellsTruth
    <2> SUFFICES ASSUME HistoryInv PROVE HistoryTellsTruth OBVIOUS
    <2>1. history \subseteq Entries BY DEF HistoryInv, CurationInv, CurationTypeOK
    <2>2. \A e \in history : Past(e) BY DEF Past
    <2>3. PastHappened /\ PastUnique BY DEF HistoryInv
    <2>4. \A e, f \in history : e.proposal = f.proposal /\ e.from = f.from => e = f
      BY <2>1, <2>2, <2>3 DEF PastUnique
    <2>5. \A e \in history : e.action \in {"approved", "rejected"} =>
            /\ proposal[e.proposal].status = e.action
            /\ proposal[e.proposal].reviewedBy = e.actor
      BY <2>1, <2>2, <2>3 DEF PastHappened, Happened
    <2> QED BY <2>4, <2>5 DEF HistoryTellsTruth
  <1> QED BY <1>1, <1>2, <1>3, PTL DEF Spec
-----------------------------------------------------------------------------
(* The jobs.  A publication owes a destination one job of each type; those  *)
(* still enqueueing have jobs of the last types to come.  Counted together  *)
(* with the jobs that are there, a later type has no more than an earlier   *)
(* one, and no fewer but for the publications that were cut half way.       *)
IsDue(c, d, i) == c.stage = "enqueue" /\ c.destination = d /\ c.next <= i
Due(calls, d, i) == {w \in Invocations : IsDue(calls[w], d, i)}
Owed(d, i) == jobs[d][PublishJobTypes[i]] + Cardinality(Due(call, d, i))
Stamped(d) == destination[d] # NoRow /\ destination[d].publishedBy # None
OwedInOrder(d) ==
    \A i, j \in DOMAIN PublishJobTypes :
      i <= j => Owed(d, j) <= Owed(d, i) /\ Owed(d, i) <= Owed(d, j) + cut[d]
JobsInv ==
    \A d \in Destinations :
      /\ OwedInOrder(d)
      /\ (\E t \in JobKinds : jobs[d][t] > 0) => Stamped(d)
      /\ \A w \in Invocations :
           call[w].stage = "enqueue" /\ call[w].destination = d => Stamped(d)

LEMMA DueFinite ==
  ASSUME NEW calls, NEW d, NEW i
  PROVE  IsFiniteSet(Due(calls, d, i)) /\ Cardinality(Due(calls, d, i)) \in Nat
  <1>1. Due(calls, d, i) \in SUBSET Invocations BY DEF Due
  <1> QED BY <1>1, InvocationsAssumption, FS_Subset, FS_CardinalityType

(* An invocation that moves on is counted by what it was and what it is.    *)
MovesOn(calls, later, w, state) ==
    /\ \A v \in Invocations : v # w => later[v] = calls[v]
    /\ later[w] = state

LEMMA DueStays ==
  ASSUME NEW calls, NEW later, NEW w \in Invocations, NEW state, NEW d, NEW i,
         MovesOn(calls, later, w, state),
         IsDue(calls[w], d, i) <=> IsDue(state, d, i)
  PROVE  Due(later, d, i) = Due(calls, d, i)
  BY DEF Due, MovesOn, IsDue

LEMMA DueJoins ==
  ASSUME NEW calls, NEW later, NEW w \in Invocations, NEW state, NEW d, NEW i,
         MovesOn(calls, later, w, state),
         ~IsDue(calls[w], d, i), IsDue(state, d, i)
  PROVE  Cardinality(Due(later, d, i)) = Cardinality(Due(calls, d, i)) + 1
  <1>1. w \notin Due(calls, d, i) BY DEF Due
  <1>2. Due(later, d, i) = Due(calls, d, i) \cup {w} BY DEF Due, MovesOn, IsDue
  <1> QED BY <1>1, <1>2, DueFinite, FS_AddElement

LEMMA DueLeaves ==
  ASSUME NEW calls, NEW later, NEW w \in Invocations, NEW state, NEW d, NEW i,
         MovesOn(calls, later, w, state),
         IsDue(calls[w], d, i), ~IsDue(state, d, i)
  PROVE  Cardinality(Due(later, d, i)) = Cardinality(Due(calls, d, i)) - 1
  <1>1. w \in Due(calls, d, i) BY DEF Due
  <1>2. Due(later, d, i) = Due(calls, d, i) \ {w} BY DEF Due, MovesOn, IsDue
  <1> QED BY <1>1, <1>2, DueFinite, FS_RemoveElement

LEMMA Moving ==
  ASSUME CurationTypeOK, NEW w \in Invocations, NEW state,
         call' = [call EXCEPT ![w] = state]
  PROVE  MovesOn(call, call', w, state)
  BY DEF CurationTypeOK, MovesOn

LEMMA JobsTyped ==
  ASSUME CurationTypeOK, NEW d \in Destinations, NEW i \in DOMAIN PublishJobTypes
  PROVE  PublishJobTypes[i] \in JobKinds /\ jobs[d][PublishJobTypes[i]] \in Nat
  <1>1. PublishJobTypes[i] \in JobKinds BY DEF JobKinds
  <1>2. jobs[d] \in [JobKinds -> Nat] BY DEF CurationTypeOK
  <1> QED BY <1>1, <1>2

(* Who moves on without being or becoming one that enqueues owes what it    *)
(* owed.                                                                    *)
LEMMA OwedKept ==
  ASSUME CurationTypeOK, NEW w \in Invocations, NEW state,
         call' = [call EXCEPT ![w] = state], jobs' = jobs,
         NEW d \in Destinations, state.stage # "enqueue",
         call[w].stage = "enqueue" => call[w].destination # d
  PROVE  \A i \in DOMAIN PublishJobTypes : Owed(d, i)' = Owed(d, i)
  <1> TAKE i \in DOMAIN PublishJobTypes
  <1>1. ~IsDue(state, d, i) /\ ~IsDue(call[w], d, i) BY DEF IsDue
  <1>2. MovesOn(call, call', w, state) BY Moving
  <1>3. IsDue(call[w], d, i) <=> IsDue(state, d, i) BY <1>1
  <1>4. Due(call', d, i) = Due(call, d, i) BY <1>2, <1>3, DueStays
  <1> QED BY <1>4 DEF Owed

(* A publication on the console owes a job of each type.                    *)
LEMMA OwedByPublication ==
  ASSUME CurationTypeOK, NEW w \in Invocations, NEW d \in Destinations,
         UpdateDestination(w), call[w].action = "publish"
  PROVE  \A i \in DOMAIN PublishJobTypes :
           Owed(d, i)' = IF d = call[w].destination THEN Owed(d, i) + 1
                                                    ELSE Owed(d, i)
  <1> TAKE i \in DOMAIN PublishJobTypes
  <1>1. PICK state : state = [stage |-> "enqueue", next |-> 1,
                              destination |-> call[w].destination]
    OBVIOUS
  <1>2. /\ call' = [call EXCEPT ![w] = state] /\ jobs' = jobs
        /\ call[w].stage = "transition"
    BY <1>1 DEF UpdateDestination
  <1>3. ~IsDue(call[w], d, i) BY <1>2 DEF IsDue
  <1>4. 1 <= i BY JobTypesAssumption
  <1>5. IsDue(state, d, i) <=> d = call[w].destination BY <1>1, <1>4 DEF IsDue
  <1>6. Cardinality(Due(call, d, i)) \in Nat BY DueFinite
  <1>7. jobs[d][PublishJobTypes[i]] \in Nat BY JobsTyped
  <1>8. MovesOn(call, call', w, state) BY <1>2, Moving
  <1>9. CASE d = call[w].destination
    <2>1. IsDue(state, d, i) BY <1>5, <1>9
    <2>2. Cardinality(Due(call', d, i)) = Cardinality(Due(call, d, i)) + 1
      BY <1>3, <1>8, <2>1, DueJoins
    <2> QED BY <1>2, <1>6, <1>7, <1>9, <2>2 DEF Owed
  <1>10. CASE d # call[w].destination
    <2>1. IsDue(call[w], d, i) <=> IsDue(state, d, i) BY <1>3, <1>5, <1>10
    <2>2. Due(call', d, i) = Due(call, d, i) BY <1>8, <2>1, DueStays
    <2> QED BY <1>2, <1>10, <2>2 DEF Owed
  <1> QED BY <1>9, <1>10

(* A job enqueued is one less to come, of its type alone.                   *)
LEMMA OwedByEnqueueing ==
  ASSUME CurationTypeOK, NEW w \in Invocations, NEW d \in Destinations,
         EnqueueJob(w)
  PROVE  \A i \in DOMAIN PublishJobTypes : Owed(d, i)' = Owed(d, i)
  <1> TAKE i \in DOMAIN PublishJobTypes
  <1>1. PICK e, n : e = call[w].destination /\ n = call[w].next OBVIOUS
  <1>2. PICK state :
          state = IF LastType(n) THEN Idle ELSE [call[w] EXCEPT !.next = n + 1]
    OBVIOUS
  <1>3. /\ call' = [call EXCEPT ![w] = state] /\ call[w].stage = "enqueue"
        /\ jobs' = [jobs EXCEPT ![e][PublishJobTypes[n]] = @ + 1]
    BY <1>1, <1>2 DEF EnqueueJob, CurationTypeOK
  <1>4. /\ e \in Destinations /\ n \in DOMAIN PublishJobTypes
        /\ [call[w] EXCEPT !.next = n + 1] =
             [stage |-> "enqueue", destination |-> e, next |-> n + 1]
    BY <1>1, <1>3, EnqueueCallTyped
  <1>5. n \in Nat /\ i \in Nat /\ i <= Len(PublishJobTypes)
    BY <1>4, JobTypesAssumption
  <1>6. IsDue(call[w], d, i) <=> e = d /\ n <= i BY <1>1, <1>3 DEF IsDue
  <1>7. IsDue(state, d, i) <=> e = d /\ n + 1 <= i
    <2>1. CASE LastType(n)
      <3>1. ~(n + 1 <= i) BY <1>5, <2>1 DEF LastType
      <3>2. state.stage = "idle" BY <1>2, <2>1, StageOfIdle
      <3> QED BY <3>1, <3>2 DEF IsDue
    <2>2. CASE ~LastType(n)
      <3>1. state = [stage |-> "enqueue", destination |-> e, next |-> n + 1]
        BY <1>2, <1>4, <2>2
      <3> QED BY <3>1 DEF IsDue
    <2> QED BY <2>1, <2>2
  <1>8. Cardinality(Due(call, d, i)) \in Nat BY DueFinite
  <1>9. /\ PublishJobTypes[i] \in JobKinds /\ PublishJobTypes[n] \in JobKinds
        /\ jobs[d][PublishJobTypes[i]] \in Nat
    BY <1>4, JobsTyped
  <1>10. MovesOn(call, call', w, state) BY <1>3, Moving
  <1>11. CASE d = e /\ i = n
    <2>1. jobs'[d][PublishJobTypes[i]] = jobs[d][PublishJobTypes[i]] + 1
      BY <1>3, <1>9, <1>11 DEF CurationTypeOK
    <2>2. IsDue(call[w], d, i) /\ ~IsDue(state, d, i)
      BY <1>5, <1>6, <1>7, <1>11
    <2>3. Cardinality(Due(call', d, i)) = Cardinality(Due(call, d, i)) - 1
      BY <1>10, <2>2, DueLeaves
    <2> QED BY <1>8, <1>9, <2>1, <2>3 DEF Owed
  <1>12. CASE ~(d = e /\ i = n)
    <2>1. jobs'[d][PublishJobTypes[i]] = jobs[d][PublishJobTypes[i]]
      <3>1. i # n => PublishJobTypes[i] # PublishJobTypes[n]
        BY <1>4, JobTypesAssumption
      <3> QED BY <1>3, <1>9, <1>12, <3>1 DEF CurationTypeOK
    <2>2. IsDue(call[w], d, i) <=> IsDue(state, d, i)
      BY <1>5, <1>6, <1>7, <1>12
    <2>3. Due(call', d, i) = Due(call, d, i) BY <1>10, <2>2, DueStays
    <2> QED BY <2>1, <2>3 DEF Owed
  <1> QED BY <1>11, <1>12

LEMMA OwedByBulk ==
  ASSUME CurationTypeOK, NEW u \in Users, NEW ids \in BulkSets, BulkPublish(u, ids),
         NEW d \in Destinations
  PROVE  \A i \in DOMAIN PublishJobTypes :
           Owed(d, i)' = IF d \in ids THEN Owed(d, i) + 1 ELSE Owed(d, i)
  <1> TAKE i \in DOMAIN PublishJobTypes
  <1>1. PublishJobTypes[i] \in JobKinds /\ jobs[d][PublishJobTypes[i]] \in Nat
    BY JobsTyped
  <1>2. jobs'[d] = IF d \in ids THEN [t \in JobKinds |-> jobs[d][t] + 1] ELSE jobs[d]
    BY DEF BulkPublish
  <1>3. Due(call', d, i) = Due(call, d, i) BY DEF BulkPublish, Due
  <1>4. Cardinality(Due(call, d, i)) \in Nat BY DueFinite
  <1>5. jobs'[d][PublishJobTypes[i]] =
          IF d \in ids THEN jobs[d][PublishJobTypes[i]] + 1
                       ELSE jobs[d][PublishJobTypes[i]]
    BY <1>1, <1>2
  <1> QED BY <1>1, <1>3, <1>4, <1>5 DEF Owed

(* Whoever dies enqueueing no longer owes the types it had still to come;   *)
(* unless they are all of them, the publication counts as cut.              *)
DiesOwing(w) == Die(w) /\ call[w].stage = "enqueue"

LEMMA OwedByDeath ==
  ASSUME CurationTypeOK, NEW w \in Invocations, NEW d \in Destinations, DiesOwing(w)
  PROVE  LET n == call[w].next
         IN  /\ n \in DOMAIN PublishJobTypes
             /\ \A i \in DOMAIN PublishJobTypes :
                  Owed(d, i)' = IF d = call[w].destination /\ n <= i
                                  THEN Owed(d, i) - 1 ELSE Owed(d, i)
             /\ cut'[d] = IF d = call[w].destination /\ n > 1
                            THEN cut[d] + 1 ELSE cut[d]
  <1> DEFINE n == call[w].next
  <1>1. /\ call' = [call EXCEPT ![w] = Idle] /\ jobs' = jobs
        /\ call[w].stage = "enqueue"
    BY DEF DiesOwing, Die
  <1>2. n \in DOMAIN PublishJobTypes BY <1>1, EnqueueCallTyped
  <1>3. ASSUME NEW i \in DOMAIN PublishJobTypes
        PROVE  Owed(d, i)' = IF d = call[w].destination /\ n <= i
                               THEN Owed(d, i) - 1 ELSE Owed(d, i)
    <2>1. IsDue(call[w], d, i) <=> d = call[w].destination /\ n <= i
      BY <1>1 DEF IsDue
    <2>2. ~IsDue(Idle, d, i) BY StageOfIdle DEF IsDue
    <2>3. MovesOn(call, call', w, Idle) BY <1>1, Moving
    <2>4. Cardinality(Due(call, d, i)) \in Nat BY DueFinite
    <2>5. jobs[d][PublishJobTypes[i]] \in Nat BY JobsTyped
    <2>6. CASE IsDue(call[w], d, i)
      <3>1. Cardinality(Due(call', d, i)) = Cardinality(Due(call, d, i)) - 1
        BY <2>2, <2>3, <2>6, DueLeaves
      <3> QED BY <1>1, <2>1, <2>4, <2>5, <2>6, <3>1 DEF Owed
    <2>7. CASE ~IsDue(call[w], d, i)
      <3>1. Due(call', d, i) = Due(call, d, i) BY <2>2, <2>3, <2>7, DueStays
      <3> QED BY <1>1, <2>1, <2>7, <3>1 DEF Owed
    <2> QED BY <2>6, <2>7
  <1>4. cut'[d] = IF d = call[w].destination /\ n > 1 THEN cut[d] + 1 ELSE cut[d]
    BY <1>1 DEF DiesOwing, Die, CurationTypeOK
  <1> QED BY <1>2, <1>3, <1>4

(* Every other step moves one invocation that neither was nor becomes one   *)
(* that enqueues.                                                           *)
Passes(w) ==
    /\ call' = [call EXCEPT ![w] = call'[w]] /\ jobs' = jobs /\ cut' = cut
    /\ call'[w].stage # "enqueue" /\ call[w].stage # "enqueue"

LEMMA OtherSteps ==
  ASSUME CurationInv, Next
  PROVE  \/ \E w \in Invocations : UpdateDestination(w) /\ call[w].action = "publish"
         \/ \E w \in Invocations : EnqueueJob(w)
         \/ \E u \in Users, ids \in BulkSets : BulkPublish(u, ids)
         \/ \E w \in Invocations : DiesOwing(w)
         \/ \E w \in Invocations : Passes(w)
  <1>1. call \in [Invocations -> Calls] BY DEF CurationInv, CurationTypeOK
  <1>2. \A w \in Invocations : \A state :
          call' = [call EXCEPT ![w] = state] =>
            call'[w] = state /\ call' = [call EXCEPT ![w] = call'[w]]
    BY <1>1
  <1>3. ASSUME NEW w \in Invocations, Review(w) PROVE Passes(w)
    <2>1. ASSUME NEW p \in Proposals, NEW u \in Users, CreateProposal(w, p, u)
          PROVE  Passes(w)
      <3>1. PICK state : state = [stage |-> "append",
                                  entry |-> Entry(p, "submitted", None, u)]
        OBVIOUS
      <3>2. call' = [call EXCEPT ![w] = state] BY <2>1, <3>1 DEF CreateProposal
      <3>3. call'[w] = state /\ call' = [call EXCEPT ![w] = call'[w]]
        BY <1>2, <3>2
      <3>4. state.stage # "enqueue" BY <3>1
      <3> QED BY <2>1, <3>3, <3>4, StageOfIdle DEF CreateProposal, Passes
    <2>2. ASSUME NEW p \in Proposals, NEW u \in Users, NEW action \in ReviewActions,
                 ReadProposal(w, p, u, action)
          PROVE  Passes(w)
      <3>1. PICK state :
              state = [stage |-> "review",
                       entry |-> Entry(p, action, proposal[p].status, u)]
        OBVIOUS
      <3>2. call' = [call EXCEPT ![w] = state] BY <2>2, <3>1 DEF ReadProposal
      <3>3. call'[w] = state /\ call' = [call EXCEPT ![w] = call'[w]]
        BY <1>2, <3>2
      <3>4. state.stage # "enqueue" BY <3>1
      <3> QED BY <2>2, <3>3, <3>4, StageOfIdle DEF ReadProposal, Passes
    <2>3. CASE UpdateProposal(w)
      <3>1. PICK state : state = [stage |-> "append", entry |-> call[w].entry]
        OBVIOUS
      <3>2. call' = [call EXCEPT ![w] = state] BY <2>3, <3>1 DEF UpdateProposal
      <3>3. call'[w] = state /\ call' = [call EXCEPT ![w] = call'[w]]
        BY <1>2, <3>2
      <3>4. state.stage # "enqueue" BY <3>1
      <3> QED BY <2>3, <3>3, <3>4 DEF UpdateProposal, Passes
    <2>4. CASE LoseReview(w) BY <1>2, <2>4, StageOfIdle DEF LoseReview, Passes
    <2>5. CASE AppendHistory(w) BY <1>2, <2>5, StageOfIdle DEF AppendHistory, Passes
    <2> QED BY <1>3, <2>1, <2>2, <2>3, <2>4, <2>5 DEF Review
  <1>4. ASSUME NEW w \in Invocations, Curate(w), ~EnqueueJob(w),
               ~(UpdateDestination(w) /\ call[w].action = "publish")
        PROVE  Passes(w)
    <2>1. ASSUME NEW p \in Proposals, NEW slot \in Slots, ReadSource(w, p, slot)
          PROVE  Passes(w)
      <3>1. PICK state : state = [stage |-> "promote", source |-> p, slot |-> slot]
        OBVIOUS
      <3>2. call' = [call EXCEPT ![w] = state] BY <2>1, <3>1 DEF ReadSource
      <3>3. call'[w] = state /\ call' = [call EXCEPT ![w] = call'[w]]
        BY <1>2, <3>2
      <3>4. state.stage # "enqueue" BY <3>1
      <3> QED BY <2>1, <3>3, <3>4, StageOfIdle DEF ReadSource, Passes
    <2>2. ASSUME NEW d \in Destinations, InsertCandidate(w, d) PROVE Passes(w)
      BY <1>2, <2>2, StageOfIdle DEF InsertCandidate, Passes
    <2>3. CASE LosePromotion(w) BY <1>2, <2>3, StageOfIdle DEF LosePromotion, Passes
    <2>4. ASSUME NEW d \in Destinations, NEW u \in Users, NEW action \in MonthlyActions,
                 ReadDestination(w, d, u, action)
          PROVE  Passes(w)
      <3>1. PICK state :
              state = [stage |-> "transition", destination |-> d, action |-> action,
                       actor |-> u, read |-> destination[d]]
        OBVIOUS
      <3>2. call' = [call EXCEPT ![w] = state] BY <2>4, <3>1 DEF ReadDestination
      <3>3. call'[w] = state /\ call' = [call EXCEPT ![w] = call'[w]]
        BY <1>2, <3>2
      <3>4. state.stage # "enqueue" BY <3>1
      <3> QED BY <2>4, <3>3, <3>4, StageOfIdle DEF ReadDestination, Passes
    <2>5. CASE UpdateDestination(w)
      BY <1>2, <1>4, <2>5, StageOfIdle DEF UpdateDestination, Passes
    <2> QED BY <1>4, <2>1, <2>2, <2>3, <2>4, <2>5 DEF Curate
  <1>5. ASSUME NEW w \in Invocations, Die(w), ~DiesOwing(w) PROVE Passes(w)
    BY <1>2, <1>5, StageOfIdle DEF Die, DiesOwing, Passes
  <1> QED BY <1>3, <1>4, <1>5 DEF Next

LEMMA OwedNat ==
  ASSUME CurationTypeOK, NEW d \in Destinations, NEW i \in DOMAIN PublishJobTypes
  PROVE  Owed(d, i) \in Nat
  BY DueFinite, JobsTyped DEF Owed

(* The order of what is owed survives each step.                            *)
LEMMA StepOwed ==
  ASSUME CurationInv, [Next]_vars, NEW d \in Destinations, OwedInOrder(d)
  PROVE  OwedInOrder(d)'
  <1>1. CurationTypeOK /\ cut[d] \in Nat BY DEF CurationInv, CurationTypeOK
  <1> DEFINE owed(i) == Owed(d, i)
  <1>2. /\ \A i \in DOMAIN PublishJobTypes : i \in Nat /\ owed(i) \in Nat
        /\ \A i, j \in DOMAIN PublishJobTypes :
             i <= j => owed(j) <= owed(i) /\ owed(i) <= owed(j) + cut[d]
    BY <1>1, OwedNat, JobTypesAssumption DEF OwedInOrder
  <1>3. ASSUME \A i \in DOMAIN PublishJobTypes : Owed(d, i)' = owed(i), cut'[d] = cut[d]
        PROVE  OwedInOrder(d)'
    BY <1>2, <1>3 DEF OwedInOrder
  <1> HIDE DEF owed
  <1>4. ASSUME \A i \in DOMAIN PublishJobTypes : Owed(d, i)' = owed(i) + 1,
               cut'[d] = cut[d]
        PROVE  OwedInOrder(d)'
    BY <1>1, <1>2, <1>4 DEF OwedInOrder
  <1>5. ASSUME NEW w \in Invocations, UpdateDestination(w), call[w].action = "publish"
        PROVE  OwedInOrder(d)'
    <2>1. cut'[d] = cut[d] BY <1>5 DEF UpdateDestination
    <2>2. CASE d = call[w].destination
      BY <1>1, <1>4, <1>5, <2>1, <2>2, OwedByPublication DEF owed
    <2>3. CASE d # call[w].destination
      BY <1>1, <1>3, <1>5, <2>1, <2>3, OwedByPublication DEF owed
    <2> QED BY <2>2, <2>3
  <1>6. ASSUME NEW w \in Invocations, EnqueueJob(w) PROVE OwedInOrder(d)'
    <2>1. cut'[d] = cut[d] BY <1>6 DEF EnqueueJob
    <2> QED BY <1>1, <1>3, <1>6, <2>1, OwedByEnqueueing DEF owed
  <1>7. ASSUME NEW u \in Users, NEW ids \in BulkSets, BulkPublish(u, ids)
        PROVE  OwedInOrder(d)'
    <2>1. cut'[d] = cut[d] BY <1>7 DEF BulkPublish
    <2>2. CASE d \in ids BY <1>1, <1>4, <1>7, <2>1, <2>2, OwedByBulk DEF owed
    <2>3. CASE d \notin ids BY <1>1, <1>3, <1>7, <2>1, <2>3, OwedByBulk DEF owed
    <2> QED BY <2>2, <2>3
  <1>8. ASSUME NEW w \in Invocations, DiesOwing(w) PROVE OwedInOrder(d)'
    <2> DEFINE n == call[w].next
    <2>1. /\ n \in DOMAIN PublishJobTypes
          /\ \A i \in DOMAIN PublishJobTypes :
               Owed(d, i)' = IF d = call[w].destination /\ n <= i
                               THEN owed(i) - 1 ELSE owed(i)
          /\ cut'[d] = IF d = call[w].destination /\ n > 1
                         THEN cut[d] + 1 ELSE cut[d]
      BY <1>1, <1>8, OwedByDeath DEF owed
    <2>2. CASE d # call[w].destination BY <1>3, <2>1, <2>2
    <2>3. CASE d = call[w].destination
      <3> SUFFICES ASSUME NEW i \in DOMAIN PublishJobTypes,
                          NEW j \in DOMAIN PublishJobTypes, i <= j
                   PROVE  /\ Owed(d, j)' <= Owed(d, i)'
                          /\ Owed(d, i)' <= Owed(d, j)' + cut'[d]
        BY DEF OwedInOrder
      <3>1. /\ n \in Nat /\ 1 <= n /\ i \in Nat /\ 1 <= i /\ j \in Nat
        BY <2>1, JobTypesAssumption
      <3> HIDE DEF n
      <3>2. /\ owed(i) \in Nat /\ owed(j) \in Nat
            /\ owed(j) <= owed(i) /\ owed(i) <= owed(j) + cut[d]
        BY <1>2
      <3>3. CASE n <= i BY <1>1, <2>1, <2>3, <3>1, <3>2, <3>3
      <3>4. CASE i < n /\ n <= j BY <1>1, <2>1, <2>3, <3>1, <3>2, <3>4
      <3>5. CASE j < n BY <1>1, <2>1, <2>3, <3>1, <3>2, <3>5
      <3> QED BY <3>1, <3>3, <3>4, <3>5
    <2> QED BY <2>2, <2>3
  <1>9. ASSUME NEW w \in Invocations, Passes(w) PROVE OwedInOrder(d)'
    <2>1. PICK state : state = call'[w] OBVIOUS
    <2>2. \A i \in DOMAIN PublishJobTypes : Owed(d, i)' = Owed(d, i)
      BY <1>1, <1>9, <2>1, OwedKept DEF Passes
    <2> QED BY <1>3, <1>9, <2>2 DEF Passes, owed
  <1>10. CASE UNCHANGED vars
    BY <1>3, <1>10 DEF vars, Owed, owed
  <1> QED BY <1>5, <1>6, <1>7, <1>8, <1>9, <1>10, OtherSteps

LEMMA InitJobs == Init => JobsInv
  <1> SUFFICES ASSUME Init, NEW d \in Destinations
               PROVE  /\ OwedInOrder(d)
                      /\ ~\E t \in JobKinds : jobs[d][t] > 0
                      /\ \A w \in Invocations : call[w].stage # "enqueue"
    BY DEF JobsInv
  <1>1. \A w \in Invocations : call[w].stage # "enqueue" BY StageOfIdle DEF Init
  <1>2. \A i : Due(call, d, i) = {} BY <1>1 DEF Due, IsDue
  <1>3. \A t \in JobKinds : jobs[d][t] = 0 BY DEF Init
  <1>4. cut[d] = 0 BY DEF Init
  <1>5. \A i \in DOMAIN PublishJobTypes : Owed(d, i) = 0
    BY <1>2, <1>3, FS_EmptySet DEF Owed, JobKinds
  <1>6. OwedInOrder(d) BY <1>4, <1>5 DEF OwedInOrder
  <1> QED BY <1>1, <1>3, <1>6

(* Whoever enqueues published, and a stamp is never erased.                 *)
LEMMA StepStamped ==
  ASSUME CurationInv, JobsInv, [Next]_vars, NEW d \in Destinations
  PROVE  /\ (\E t \in JobKinds : jobs'[d][t] > 0) => Stamped(d)'
         /\ \A w \in Invocations :
              call'[w].stage = "enqueue" /\ call'[w].destination = d => Stamped(d)'
  <1>1. CurationTypeOK BY DEF CurationInv
  <1>2. Stamped(d) => Stamped(d)' BY StepRows DEF RowsKept, Stamped
  <1>3. /\ (\E t \in JobKinds : jobs[d][t] > 0) => Stamped(d)
        /\ \A w \in Invocations :
             call[w].stage = "enqueue" /\ call[w].destination = d => Stamped(d)
    BY DEF JobsInv
  <1>4. ASSUME NEW w \in Invocations, UpdateDestination(w), call[w].action = "publish"
        PROVE  /\ jobs' = jobs /\ \A v \in Invocations : v # w => call'[v] = call[v]
               /\ call'[w].destination = d => Stamped(d)'
    <2>1. /\ jobs' = jobs /\ call'[w].destination = call[w].destination
          /\ \A v \in Invocations : v # w => call'[v] = call[v]
      BY <1>1, <1>4 DEF UpdateDestination, CurationTypeOK
    <2>2. PICK e \in Destinations : e = call[w].destination
      BY <1>4, TransitionEffect
    <2>3. /\ destination'[e] = RowAfter(destination[e], call[w])
          /\ destination[e] \in DestinationRows /\ destination'[e] # NoRow
      <3>1. \A row \in DestinationRows : row # NoRow BY DEF DestinationRows, NoRow
      <3> QED BY <1>4, <2>2, <3>1, TransitionEffect
    <2>4. call[w].actor \in Users
      BY <1>1, <1>4, TransitionCallTyped DEF UpdateDestination
    <2>5. RowAfter(destination[e], call[w]).publishedBy = call[w].actor
      BY <1>4, <2>3 DEF RowAfter, DestinationRows
    <2> QED BY <2>1, <2>2, <2>3, <2>4, <2>5, NoneAssumption DEF Stamped
  <1>5. ASSUME NEW w \in Invocations, EnqueueJob(w)
        PROVE  /\ call[w].destination # d => jobs'[d] = jobs[d]
               /\ call[w].destination = d => Stamped(d)
               /\ \A v \in Invocations : v # w => call'[v] = call[v]
               /\ call'[w].stage = "enqueue" => call'[w].destination = call[w].destination
    <2>1. call[w].stage = "enqueue" BY <1>5 DEF EnqueueJob
    <2>2. call[w].destination # d => jobs'[d] = jobs[d]
      BY <1>1, <1>5 DEF EnqueueJob, CurationTypeOK
    <2>3. call[w].destination = d => Stamped(d) BY <1>3, <2>1
    <2>4. \A v \in Invocations : v # w => call'[v] = call[v]
      BY <1>1, <1>5 DEF EnqueueJob, CurationTypeOK
    <2>5. call'[w].stage = "enqueue" => call'[w].destination = call[w].destination
      BY <1>1, <1>5, <2>1, StageOfIdle, EnqueueCallTyped DEF EnqueueJob, CurationTypeOK
    <2> QED BY <2>2, <2>3, <2>4, <2>5
  <1>6. ASSUME NEW u \in Users, NEW ids \in BulkSets, BulkPublish(u, ids)
        PROVE  /\ call' = call
               /\ d \in ids => Stamped(d)'
               /\ d \notin ids => jobs'[d] = jobs[d]
    <2>1. d \in ids => destination'[d] \in DestinationRows /\ destination'[d].publishedBy = u
      BY <1>6, BulkEffect
    <2>2. \A row \in DestinationRows : row # NoRow BY DEF DestinationRows, NoRow
    <2> QED BY <1>6, <2>1, <2>2, NoneAssumption DEF BulkPublish, Stamped
  <1>7. ASSUME NEW w \in Invocations, Passes(w)
        PROVE  /\ jobs' = jobs /\ call'[w].stage # "enqueue"
               /\ \A v \in Invocations : v # w => call'[v] = call[v]
    BY <1>1, <1>7 DEF Passes, CurationTypeOK
  <1>8. ASSUME NEW w \in Invocations, DiesOwing(w)
        PROVE  /\ jobs' = jobs /\ call'[w].stage # "enqueue"
               /\ \A v \in Invocations : v # w => call'[v] = call[v]
    BY <1>1, <1>8, StageOfIdle DEF DiesOwing, Die, CurationTypeOK
  <1>9. CASE UNCHANGED vars BY <1>2, <1>3, <1>9 DEF vars
  <1>10. CASE Next
    BY <1>2, <1>3, <1>4, <1>5, <1>6, <1>7, <1>8, <1>10, OtherSteps
  <1> QED BY <1>9, <1>10

LEMMA StepJobs ==
  ASSUME CurationInv, JobsInv, [Next]_vars
  PROVE  JobsInv'
  <1>1. ASSUME NEW d \in Destinations PROVE OwedInOrder(d)'
    BY <1>1, StepOwed DEF JobsInv
  <1> QED BY <1>1, StepStamped DEF JobsInv

(* JobsAccounted: jobs exist for what was published, and where nobody is    *)
(* still enqueueing, nothing is owed, so the jobs that are there are in     *)
(* order: a later type short of an earlier one by the publications cut half *)
(* way, at most.                                                            *)
THEOREM JobsAreAccounted == Spec => []JobsAccounted
  <1>1. CurationInv /\ JobsInv /\ [Next]_vars => JobsInv' BY StepJobs
  <1>2. CurationInv /\ JobsInv => JobsAccounted
    <2> SUFFICES ASSUME CurationInv, JobsInv, NEW d \in Destinations, ~Enqueueing(d),
                        NEW i \in DOMAIN PublishJobTypes,
                        NEW j \in DOMAIN PublishJobTypes, i < j
                 PROVE  LET earlier == jobs[d][PublishJobTypes[i]]
                            later == jobs[d][PublishJobTypes[j]]
                        IN  later <= earlier /\ earlier <= later + cut[d]
      BY DEF JobsAccounted, JobsInv, Stamped
    <2>1. ASSUME NEW k \in DOMAIN PublishJobTypes
          PROVE  Owed(d, k) = jobs[d][PublishJobTypes[k]]
      <3>1. Due(call, d, k) = {} BY DEF Due, IsDue, Enqueueing
      <3>2. jobs[d][PublishJobTypes[k]] \in Nat BY JobsTyped DEF CurationInv
      <3> QED BY <3>1, <3>2, FS_EmptySet DEF Owed
    <2>2. i <= j BY JobTypesAssumption
    <2>3. Owed(d, j) <= Owed(d, i) /\ Owed(d, i) <= Owed(d, j) + cut[d]
      BY <2>2 DEF JobsInv, OwedInOrder
    <2> QED BY <2>1, <2>3
  <1> QED BY <1>1, <1>2, InitJobs, CurationInvariant, PTL DEF Spec
=============================================================================
