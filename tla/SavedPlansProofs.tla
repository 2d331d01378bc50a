-------------------------- MODULE SavedPlansProofs --------------------------
(***************************************************************************)
(* Proofs about SavedPlans and about the Feeds that are computed from it.  *)
(* What an invocation knows of a plan is that it exists and whose it is,   *)
(* which never changes; and of the snapshot it writes, that its user       *)
(* submitted it or that a public plan has shown it.  What it may not count *)
(* on is that it is alone with a plan it restores: damaged takes over      *)
(* there.  What a feed shows follows from who may like what, from which    *)
(* likes are read, and from how the first of an order are cut off.         *)
(***************************************************************************)
EXTENDS Feeds, FiniteSetTheorems, WellFoundedInduction, TLAPS

SaveStages == {"deleted_by_key", "by_hash", "deleted_by_hash", "insert"}
RestoreStages == {"restore", "unlike", "clear"}

LEMMA Quiet ==
  /\ Idle.stage = "idle" /\ Idle \in Calls
  /\ Done.stage = "done" /\ Done \in Calls
  BY DEF Idle, Done, Calls

LEMMA SaveCallTyped ==
  ASSUME SavedTypeOK, NEW w \in Invocations, call[w].stage \in SaveStages
  PROVE  /\ call[w].user \in Users /\ call[w].key \in Keys \cup {None}
         /\ call[w].content \in Contents
         /\ \A stage \in SaveStages :
              LET c == [call[w] EXCEPT !.stage = stage]
              IN  /\ c \in Calls /\ c.stage = stage /\ c.user = call[w].user
                  /\ c.content = call[w].content
         /\ \A p \in Plans :
              LET c == [[call[w] EXCEPT !.stage = "restore"] EXCEPT !.plan = p]
              IN  /\ c \in Calls /\ c.stage = "restore" /\ c.user = call[w].user
                  /\ c.content = call[w].content /\ c.plan = p
  <1>1. call[w] \in SaveCalls
    BY DEF SavedTypeOK, Calls, SaveCalls, RestoreCalls, SaveStages, Idle, Done
  <1> QED BY <1>1 DEF SaveCalls, RestoreCalls, Calls, SaveStages

LEMMA RestoreCallTyped ==
  ASSUME SavedTypeOK, NEW w \in Invocations, call[w].stage \in RestoreStages
  PROVE  /\ call[w].user \in Users /\ call[w].key \in Keys \cup {None}
         /\ call[w].content \in Contents /\ call[w].plan \in Plans
         /\ \A stage \in RestoreStages :
              LET c == [call[w] EXCEPT !.stage = stage]
              IN  /\ c \in Calls /\ c.stage = stage /\ c.user = call[w].user
                  /\ c.content = call[w].content /\ c.plan = call[w].plan
                  /\ c.key = call[w].key
  <1>1. call[w] \in RestoreCalls
    BY DEF SavedTypeOK, Calls, SaveCalls, RestoreCalls, RestoreStages, Idle, Done
  <1> QED BY <1>1 DEF RestoreCalls, Calls, RestoreStages

LEMMA ItemsCallTyped ==
  ASSUME SavedTypeOK, NEW w \in Invocations, call[w].stage = "items"
  PROVE  /\ call[w].plan \in Plans /\ call[w].itinerary \in Itineraries
         /\ call[w].next \in Positions
         /\ call[w].next + 1 \in Positions =>
              LET c == [call[w] EXCEPT !.next = call[w].next + 1]
              IN  /\ c \in Calls /\ c.stage = "items" /\ c.plan = call[w].plan
                  /\ c.itinerary = call[w].itinerary /\ c.next = call[w].next + 1
  <1>1. call[w] \in [stage : {"items"}, plan : Plans, itinerary : Itineraries,
                     next : Positions]
    BY DEF SavedTypeOK, Calls, SaveCalls, RestoreCalls, Idle, Done
  <1> QED BY <1>1 DEF Calls

LEMMA CloneCallTyped ==
  ASSUME SavedTypeOK, NEW w \in Invocations, call[w].stage \in {"source", "clone"}
  PROVE  /\ call[w].user \in Users /\ call[w].source \in Plans
         /\ call[w].hash \in Contents /\ call[w].itinerary \in Itineraries
         /\ \A it \in Itineraries :
              LET c == [[call[w] EXCEPT !.stage = "clone"] EXCEPT !.itinerary = it]
              IN  /\ c \in Calls /\ c.stage = "clone" /\ c.user = call[w].user
                  /\ c.hash = call[w].hash
  <1>1. call[w] \in [stage : {"source", "clone"}, user : Users, source : Plans,
                     hash : Contents, itinerary : Itineraries]
    BY DEF SavedTypeOK, Calls, SaveCalls, RestoreCalls, Idle, Done
  <1> QED BY <1>1 DEF Calls

LEMMA LikeCallTyped ==
  ASSUME SavedTypeOK, NEW w \in Invocations, call[w].stage = "like"
  PROVE  call[w].user \in Users /\ call[w].plan \in Plans
  <1>1. call[w] \in [stage : {"like"}, user : Users, plan : Plans, liked : BOOLEAN]
    BY DEF SavedTypeOK, Calls, SaveCalls, RestoreCalls, Idle, Done
  <1> QED BY <1>1

LEMMA PlanThere ==
  ASSUME SavedTypeOK, NEW p \in Plans
  PROVE  /\ plan[p] # NoRow => plan[p] \in Rows
         /\ plan[p] \in Rows => plan[p] # NoRow
  BY NullAssumption DEF SavedTypeOK, Rows, NoRow

LEMMA NewPlanTyped ==
  ASSUME NEW u \in Users, NEW k \in Keys \cup {None}, NEW c \in Contents
  PROVE  /\ NewPlan(u, k, c) \in Rows /\ NewPlan(u, k, c).owner = u
         /\ NewPlan(u, k, c).hash = c
         /\ NewPlan(u, k, c).itinerary \in Itineraries
         /\ NewPlan(u, k, c).deleted = FALSE
         /\ NewPlan(u, k, c).public = (c \in SharedContents)
  <1>1. [n \in Positions |-> c] \in Itineraries BY DEF Itineraries
  <1>2. (c \in SharedContents) \in BOOLEAN OBVIOUS
  <1> QED BY <1>1, <1>2 DEF NewPlan, Rows

LEMMA CloneRowTyped ==
  ASSUME SavedTypeOK, NEW w \in Invocations, call[w].stage = "clone"
  PROVE  /\ CloneRow(call[w]) \in Rows /\ CloneRow(call[w]).owner = call[w].user
         /\ CloneRow(call[w]).hash = call[w].hash /\ CloneRow(call[w]).public = FALSE
         /\ CloneRow(call[w]).itinerary \in Itineraries
  BY CloneCallTyped DEF CloneRow, Rows

LEMMA ShownRow ==
  ASSUME NEW row \in Rows
  PROVE  /\ Shown(row) \subseteq Contents
         /\ row.public => row.hash \in Shown(row)
  <1>1. \A n \in Positions : row.itinerary[n] \in Contents \cup {None}
    BY DEF Rows, Itineraries
  <1> QED BY <1>1, NullAssumption DEF Shown, Rows
-----------------------------------------------------------------------------
(* What an invocation knows of rows that others may have changed since.     *)
CallKnows(c) ==
    /\ c.stage \in SaveStages \cup RestoreStages => c.content \in Submits[c.user]
    /\ c.stage \in RestoreStages \cup {"like"} =>
         plan[c.plan] # NoRow /\ plan[c.plan].owner = c.user
    /\ c.stage = "items" => plan[c.plan] # NoRow
    /\ c.stage \in {"source", "clone"} => c.hash \in Submits[c.user] \cup exposed
CallsKnow == \A w \in Invocations : CallKnows(call[w])
PublicExposed ==
    \A p \in Plans : plan[p] # NoRow /\ plan[p].public => plan[p].hash \in exposed
SavedInv ==
    /\ SavedTypeOK /\ CallsKnow /\ PublicExposed
    /\ PrivateStaysPrivate /\ LikesByOwner

LEMMA InitType == Init => SavedTypeOK
  BY Quiet DEF Init, SavedTypeOK, NoItems, Itineraries

LEMMA InitSaved == Init => SavedInv
  <1> SUFFICES ASSUME Init PROVE SavedInv OBVIOUS
  <1>1. CallsKnow
    BY Quiet DEF Init, CallsKnow, CallKnows, SaveStages, RestoreStages
  <1>2. PublicExposed /\ PrivateStaysPrivate /\ LikesByOwner
    BY DEF Init, PublicExposed, PrivateStaysPrivate, LikesByOwner
  <1> QED BY <1>1, <1>2, InitType DEF SavedInv
-----------------------------------------------------------------------------
(* Rows stay and keep their owner; contents stay exposed.                   *)
RowsKept ==
    /\ exposed \subseteq exposed'
    /\ \A p \in Plans : plan[p] # NoRow =>
         plan'[p] # NoRow /\ plan'[p].owner = plan[p].owner
RowsGood ==
    /\ RowsKept /\ PublicExposed' /\ PrivateStaysPrivate'
    /\ plan' \in [Plans -> {NoRow} \cup Rows] /\ exposed' \subseteq Contents

LEMMA RowWritten ==
  ASSUME SavedInv, NEW p \in Plans, NEW row \in Rows, plan' = [plan EXCEPT ![p] = row],
         exposed \subseteq exposed', exposed' \subseteq Contents,
         plan[p] # NoRow => row.owner = plan[p].owner,
         row.hash \in Submits[row.owner] \cup exposed,
         row.public => row.hash \in exposed'
  PROVE  RowsGood
  <1>1. SavedTypeOK /\ PublicExposed /\ PrivateStaysPrivate BY DEF SavedInv
  <1>2. \A q \in Plans : plan'[q] = IF q = p THEN row ELSE plan[q]
    BY <1>1 DEF SavedTypeOK
  <1>3. row # NoRow BY NullAssumption DEF Rows, NoRow
  <1>4. RowsKept BY <1>2, <1>3 DEF RowsKept
  <1>5. PublicExposed' BY <1>1, <1>2 DEF PublicExposed
  <1>6. PrivateStaysPrivate' BY <1>1, <1>2 DEF PrivateStaysPrivate
  <1>7. plan' \in [Plans -> {NoRow} \cup Rows] BY <1>1 DEF SavedTypeOK
  <1> QED BY <1>4, <1>5, <1>6, <1>7 DEF RowsGood

LEMMA NoRowWritten ==
  ASSUME SavedInv, UNCHANGED <<plan, exposed>>
  PROVE  RowsGood
  BY DEF SavedInv, RowsGood, RowsKept, PublicExposed, PrivateStaysPrivate, SavedTypeOK

LEMMA InsertRows ==
  ASSUME SavedInv, NEW w \in Invocations, NEW p \in Plans, NEW row \in Rows,
         Insert(w, p, row), row.hash \in Submits[row.owner] \cup exposed
  PROVE  RowsGood
  <1>1. /\ plan[p] = NoRow /\ plan' = [plan EXCEPT ![p] = row]
        /\ exposed' = exposed \cup Shown(row) /\ exposed \subseteq Contents
    BY DEF Insert, SavedInv, SavedTypeOK
  <1> QED BY <1>1, RowWritten, ShownRow

LEMMA RestoreRows ==
  ASSUME SavedInv, NEW w \in Invocations, RestoreRow(w)
  PROVE  /\ RowsGood /\ NewRow(w) \in Rows /\ call[w].plan \in Plans
         /\ plan' = [plan EXCEPT ![call[w].plan] = NewRow(w)]
         /\ plan[call[w].plan] # NoRow
  <1>1. SavedTypeOK /\ CallsKnow /\ call[w].stage \in RestoreStages
    BY DEF SavedInv, RestoreRow, RestoreStages
  <1>2. PICK p \in Plans : p = call[w].plan BY <1>1, RestoreCallTyped
  <1>3. PICK row \in Rows : row = NewRow(w) /\ row.owner = call[w].user
                              /\ row.hash = call[w].content
    <2>1. /\ call[w].user \in Users /\ call[w].key \in Keys \cup {None}
          /\ call[w].content \in Contents
      BY <1>1, RestoreCallTyped
    <2>2. PICK u \in Users, k \in Keys \cup {None}, c \in Contents :
            u = call[w].user /\ k = call[w].key /\ c = call[w].content
      BY <2>1
    <2>3. NewRow(w) = NewPlan(u, k, c) BY <2>2 DEF NewRow
    <2>4. /\ NewPlan(u, k, c) \in Rows /\ NewPlan(u, k, c).owner = u
          /\ NewPlan(u, k, c).hash = c
      BY NewPlanTyped
    <2> QED BY <2>2, <2>3, <2>4
  <1>4. /\ plan[p] # NoRow /\ plan[p].owner = row.owner
        /\ row.hash \in Submits[row.owner]
    BY <1>1, <1>2, <1>3 DEF CallsKnow, CallKnows
  <1>5. /\ plan' = [plan EXCEPT ![p] = row] /\ exposed' = exposed \cup Shown(row)
        /\ exposed \subseteq Contents
    BY <1>1, <1>2, <1>3 DEF RestoreRow, SavedTypeOK
  <1>6. RowsGood BY <1>4, <1>5, RowWritten, ShownRow
  <1> QED BY <1>2, <1>3, <1>4, <1>5, <1>6

LEMMA InsertPlanRow ==
  ASSUME SavedInv, NEW w \in Invocations, NEW p \in Plans, InsertPlan(w, p)
  PROVE  /\ NewRow(w) \in Rows /\ NewRow(w).hash \in Submits[NewRow(w).owner]
         /\ NewRow(w).itinerary \in Itineraries
  <1>1. SavedTypeOK /\ CallsKnow /\ call[w].stage \in SaveStages
    BY DEF SavedInv, InsertPlan, SaveStages
  <1>2. call[w].content \in Submits[call[w].user]
    BY <1>1 DEF CallsKnow, CallKnows
  <1>3. /\ call[w].user \in Users /\ call[w].key \in Keys \cup {None}
        /\ call[w].content \in Contents
    BY <1>1, SaveCallTyped
  <1>4. PICK u \in Users, k \in Keys \cup {None}, c \in Contents :
          u = call[w].user /\ k = call[w].key /\ c = call[w].content
    BY <1>3
  <1>5. NewRow(w) = NewPlan(u, k, c) BY <1>4 DEF NewRow
  <1>6. /\ NewPlan(u, k, c) \in Rows /\ NewPlan(u, k, c).owner = u
        /\ NewPlan(u, k, c).hash = c /\ NewPlan(u, k, c).itinerary \in Itineraries
    BY NewPlanTyped
  <1> QED BY <1>2, <1>4, <1>5, <1>6

LEMMA InsertCloneRow ==
  ASSUME SavedInv, NEW w \in Invocations, NEW p \in Plans, InsertClone(w, p)
  PROVE  /\ CloneRow(call[w]) \in Rows
         /\ CloneRow(call[w]).hash \in Submits[CloneRow(call[w]).owner] \cup exposed
         /\ CloneRow(call[w]).itinerary \in Itineraries
  <1>1. SavedTypeOK /\ CallsKnow /\ call[w].stage = "clone"
    BY DEF SavedInv, InsertClone
  <1>2. call[w].hash \in Submits[call[w].user] \cup exposed
    BY <1>1 DEF CallsKnow, CallKnows
  <1> QED BY <1>1, <1>2, CloneRowTyped

LEMMA ShareRows ==
  ASSUME SavedInv, NEW u \in Users, NEW p \in Plans, NEW public \in BOOLEAN,
         Share(u, p, public)
  PROVE  /\ RowsGood /\ plan'[p].deleted = plan[p].deleted
         /\ plan'[p].itinerary = plan[p].itinerary /\ plan'[p].hash = plan[p].hash
         /\ \A q \in Plans \ {p} : plan'[q] = plan[q]
  <1> DEFINE row == [plan[p] EXCEPT !.public = public]
  <1>1. SavedTypeOK /\ PrivateStaysPrivate /\ plan[p] # NoRow
    BY DEF SavedInv, Share, Live
  <1>2. plan[p] \in Rows BY <1>1, PlanThere
  <1>3. /\ row \in Rows /\ row.owner = plan[p].owner /\ row.hash = plan[p].hash
        /\ row.deleted = plan[p].deleted /\ row.itinerary = plan[p].itinerary
    BY <1>2 DEF Rows
  <1>4. /\ plan' = [plan EXCEPT ![p] = row] /\ exposed' = exposed \cup Shown(row)
        /\ exposed \subseteq Contents
    BY <1>1, <1>2 DEF Share, SavedTypeOK
  <1>5. row.hash \in Submits[row.owner] \cup exposed
    BY <1>1, <1>3 DEF PrivateStaysPrivate
  <1> HIDE DEF row
  <1>6. RowsGood BY <1>3, <1>4, <1>5, RowWritten, ShownRow
  <1> QED BY <1>1, <1>3, <1>4, <1>6 DEF SavedTypeOK

LEMMA DeleteRows ==
  ASSUME SavedInv, NEW u \in Users, NEW p \in Plans, Delete(u, p)
  PROVE  /\ RowsGood /\ plan'[p].deleted
         /\ plan'[p].itinerary = plan[p].itinerary /\ plan'[p].hash = plan[p].hash
         /\ \A q \in Plans \ {p} : plan'[q] = plan[q]
  <1> DEFINE row == [plan[p] EXCEPT !.deleted = TRUE]
  <1>1. SavedTypeOK /\ PrivateStaysPrivate /\ PublicExposed /\ plan[p] # NoRow
    BY DEF SavedInv, Delete, Live
  <1>2. plan[p] \in Rows BY <1>1, PlanThere
  <1>3. /\ row \in Rows /\ row.owner = plan[p].owner /\ row.hash = plan[p].hash
        /\ row.deleted /\ row.itinerary = plan[p].itinerary /\ row.public = plan[p].public
    BY <1>2 DEF Rows
  <1>4. /\ plan' = [plan EXCEPT ![p] = row] /\ exposed' = exposed
        /\ exposed \subseteq Contents
    BY <1>1, <1>2 DEF Delete, SavedTypeOK
  <1>5. /\ row.hash \in Submits[row.owner] \cup exposed
        /\ row.public => row.hash \in exposed
    BY <1>1, <1>3 DEF PrivateStaysPrivate, PublicExposed
  <1> HIDE DEF row
  <1>6. RowsGood BY <1>3, <1>4, <1>5, RowWritten
  <1> QED BY <1>1, <1>3, <1>4, <1>6 DEF SavedTypeOK

(* The steps that write no row of itineraries. *)
LEMMA NoRowStep ==
  ASSUME [Next]_vars,
         \A w \in Invocations :
           ~RestoreRow(w) /\ \A p \in Plans : ~InsertPlan(w, p) /\ ~InsertClone(w, p),
         \A u \in Users, p \in Plans :
           ~Delete(u, p) /\ \A public \in BOOLEAN : ~Share(u, p, public)
  PROVE  UNCHANGED <<plan, exposed>>
  BY ZenonT(40) DEF Next, vars, Save, Clone, Like, Die, BeginSave, FindDeletedByKey, FindByHash,
     FindDeletedByHash, FoundDeleted, DuplicateRow, DeleteReactions, ClearItems, InsertItem,
     DuplicateItem, ReadSource, ReadSourceItems, DuplicateClone, ReadLiked, SetLike,
     UnchangedTables

LEMMA StepRows ==
  ASSUME SavedInv, [Next]_vars
  PROVE  RowsGood
  <1>1. ASSUME NEW w \in Invocations, NEW p \in Plans, InsertPlan(w, p) PROVE RowsGood
    BY <1>1, InsertPlanRow, InsertRows DEF InsertPlan
  <1>2. ASSUME NEW w \in Invocations, NEW p \in Plans, InsertClone(w, p) PROVE RowsGood
    BY <1>2, InsertCloneRow, InsertRows DEF InsertClone
  <1>3. ASSUME NEW w \in Invocations, RestoreRow(w) PROVE RowsGood
    BY <1>3, RestoreRows
  <1>4. ASSUME NEW u \in Users, NEW p \in Plans, Delete(u, p) PROVE RowsGood
    BY <1>4, DeleteRows
  <1>5. ASSUME NEW u \in Users, NEW p \in Plans, NEW public \in BOOLEAN,
               Share(u, p, public)
        PROVE  RowsGood
    BY <1>5, ShareRows
  <1> QED BY <1>1, <1>2, <1>3, <1>4, <1>5, NoRowStep, NoRowWritten

(* What each invocation holds is typed and still true. *)
Held == call' \in [Invocations -> Calls] /\ CallsKnow'

LEMMA HeldKept ==
  ASSUME SavedInv, RowsKept, NEW w \in Invocations, call'[w] = call[w]
  PROVE  CallKnows(call[w])'
  <1>1. SavedTypeOK /\ CallKnows(call[w]) BY DEF SavedInv, CallsKnow
  <1>2. call[w].stage \in RestoreStages \cup {"items", "like"} => call[w].plan \in Plans
    BY <1>1, RestoreCallTyped, ItemsCallTyped, LikeCallTyped
  <1>3. exposed \subseteq exposed' BY DEF RowsKept
  <1>4. call[w].stage \in RestoreStages \cup {"like"} =>
          plan'[call[w].plan] # NoRow /\ plan'[call[w].plan].owner = call[w].user
    BY <1>1, <1>2 DEF CallKnows, RowsKept
  <1>5. call[w].stage = "items" => plan'[call[w].plan] # NoRow
    BY <1>1, <1>2 DEF CallKnows, RowsKept
  <1> QED BY <1>1, <1>3, <1>4, <1>5 DEF CallKnows

LEMMA HeldBecome ==
  ASSUME SavedInv, RowsKept, NEW w \in Invocations, NEW state \in Calls, Become(w, state),
         state.stage \in SaveStages \cup RestoreStages =>
           state.content \in Submits[state.user],
         state.stage \in RestoreStages \cup {"like"} =>
           plan'[state.plan] # NoRow /\ plan'[state.plan].owner = state.user,
         state.stage = "items" => plan'[state.plan] # NoRow,
         state.stage \in {"source", "clone"} =>
           state.hash \in Submits[state.user] \cup exposed'
  PROVE  Held
  <1>1. SavedTypeOK BY DEF SavedInv
  <1>2. /\ call' \in [Invocations -> Calls] /\ call'[w] = state
        /\ \A v \in Invocations \ {w} : call'[v] = call[v]
    BY <1>1 DEF SavedTypeOK, Become
  <1>3. CallKnows(call[w])' BY <1>2 DEF CallKnows
  <1> QED BY <1>2, <1>3, HeldKept DEF Held, CallsKnow

LEMMA HeldSame ==
  ASSUME SavedInv, RowsKept, UNCHANGED call
  PROVE  Held
  BY HeldKept DEF Held, CallsKnow, SavedInv, SavedTypeOK

LEMMA HeldDone ==
  ASSUME SavedInv, RowsKept, NEW w \in Invocations, Become(w, Done)
  PROVE  Held
  BY HeldBecome, Quiet DEF SaveStages, RestoreStages

(* The look-ups of a save. *)
LEMMA HeldSave ==
  ASSUME SavedInv, RowsKept, NEW w \in Invocations, call[w].stage \in SaveStages,
         NEW stage \in SaveStages, Goto(w, stage)
  PROVE  Held
  <1>1. SavedTypeOK /\ CallKnows(call[w]) BY DEF SavedInv, CallsKnow
  <1>2. PICK c \in Calls : /\ c = [call[w] EXCEPT !.stage = stage] /\ c.stage = stage
                           /\ c.user = call[w].user /\ c.content = call[w].content
    <2> DEFINE state == [call[w] EXCEPT !.stage = stage]
    <2>1. /\ state \in Calls /\ state.stage = stage
          /\ state.user = call[w].user /\ state.content = call[w].content
      BY <1>1, SaveCallTyped
    <2> HIDE DEF state
    <2>2. \E c : c = state OBVIOUS
    <2> QED BY <2>1, <2>2 DEF state
  <1>3. Become(w, c) BY <1>2 DEF Goto
  <1>4. c.content \in Submits[c.user] BY <1>1, <1>2 DEF CallKnows
  <1>5. stage \notin RestoreStages \cup {"like", "items", "source", "clone"}
    BY DEF SaveStages, RestoreStages
  <1> QED BY <1>2, <1>3, <1>4, <1>5, HeldBecome

LEMMA HeldFound ==
  ASSUME SavedInv, RowsKept, NEW w \in Invocations, call[w].stage \in SaveStages,
         NEW p \in Plans, FoundDeleted(w, p)
  PROVE  Held
  <1>1. SavedTypeOK /\ CallKnows(call[w]) BY DEF SavedInv, CallsKnow
  <1>2. PICK c \in Calls :
          /\ c = [[call[w] EXCEPT !.stage = "restore"] EXCEPT !.plan = p]
          /\ c.stage = "restore" /\ c.user = call[w].user
          /\ c.content = call[w].content /\ c.plan = p
    BY <1>1, SaveCallTyped
  <1>3. /\ Become(w, c) /\ plan[p] # NoRow /\ plan[p].owner = call[w].user
    BY <1>2 DEF FoundDeleted, Restorable, Deleted
  <1>4. c.content \in Submits[c.user] BY <1>1, <1>2 DEF CallKnows
  <1>5. plan'[p] # NoRow /\ plan'[p].owner = c.user BY <1>2, <1>3 DEF RowsKept
  <1>6. "restore" \notin {"items", "source", "clone"} OBVIOUS
  <1> QED BY <1>2, <1>3, <1>4, <1>5, <1>6, HeldBecome

LEMMA HeldRestore ==
  ASSUME SavedInv, RowsKept, NEW w \in Invocations, call[w].stage \in RestoreStages,
         NEW stage \in RestoreStages, Goto(w, stage)
  PROVE  Held
  <1>1. SavedTypeOK /\ CallKnows(call[w]) BY DEF SavedInv, CallsKnow
  <1>2. PICK c \in Calls : /\ c = [call[w] EXCEPT !.stage = stage] /\ c.stage = stage
                           /\ c.user = call[w].user /\ c.content = call[w].content
                           /\ c.plan = call[w].plan /\ c.plan \in Plans
    <2> DEFINE state == [call[w] EXCEPT !.stage = stage]
    <2>1. /\ state \in Calls /\ state.stage = stage
          /\ state.user = call[w].user /\ state.content = call[w].content
          /\ state.plan = call[w].plan /\ call[w].plan \in Plans
      BY <1>1, RestoreCallTyped
    <2> HIDE DEF state
    <2>2. \E c : c = state OBVIOUS
    <2> QED BY <2>1, <2>2 DEF state
  <1>3. Become(w, c) BY <1>2 DEF Goto
  <1>4. c.content \in Submits[c.user] BY <1>1, <1>2 DEF CallKnows
  <1>5. plan[c.plan] # NoRow /\ plan[c.plan].owner = c.user
    BY <1>1, <1>2 DEF CallKnows
  <1>6. plan'[c.plan] # NoRow /\ plan'[c.plan].owner = c.user
    BY <1>2, <1>5 DEF RowsKept
  <1>7. stage \notin {"items", "source", "clone"} BY DEF RestoreStages
  <1> QED BY <1>2, <1>3, <1>4, <1>6, <1>7, HeldBecome

(* The items of a plan that is there. *)
LEMMA HeldItems ==
  ASSUME SavedInv, RowsKept, NEW w \in Invocations, NEW p \in Plans,
         NEW it \in Itineraries, Become(w, WriteItems(p, it)), plan'[p] # NoRow
  PROVE  Held
  <1>1. 1 \in Positions BY ItemsAssumption DEF Positions
  <1>2. PICK c \in Calls : c = WriteItems(p, it) /\ c.stage = "items" /\ c.plan = p
    BY <1>1 DEF WriteItems, Calls
  <1>3. Become(w, c) BY <1>2
  <1>4. "items" \notin SaveStages \cup RestoreStages \cup {"like", "source", "clone"}
    BY DEF SaveStages, RestoreStages
  <1> QED BY <1>2, <1>3, <1>4, HeldBecome

LEMMA StepCalls ==
  ASSUME SavedInv, [Next]_vars
  PROVE  Held
  <1>1. SavedTypeOK /\ CallsKnow /\ RowsKept BY StepRows DEF SavedInv, RowsGood
  <1>2. ASSUME NEW w \in Invocations, NEW u \in Users, NEW k \in Keys \cup {None},
               NEW c \in Contents, BeginSave(w, u, k, c)
        PROVE  Held
    <2>1. PICK state \in Calls :
            /\ Become(w, state) /\ state.stage \in SaveStages
            /\ state.content = c /\ state.user = u
      <3>1. ASSUME NEW stage \in {"by_hash", "deleted_by_key"}
            PROVE  SaveCall(stage, u, k, c) \in Calls
        BY DEF SaveCall, Calls, SaveCalls
      <3>2. \A stage : /\ SaveCall(stage, u, k, c).stage = stage
                       /\ SaveCall(stage, u, k, c).content = c
                       /\ SaveCall(stage, u, k, c).user = u
        BY DEF SaveCall
      <3>3. \/ Become(w, SaveCall("by_hash", u, k, c))
            \/ Become(w, SaveCall("deleted_by_key", u, k, c))
        BY <1>2 DEF BeginSave
      <3> QED BY <3>1, <3>2, <3>3 DEF SaveStages
    <2>2. c \in Submits[u] BY <1>2 DEF BeginSave
    <2>3. state.stage \notin RestoreStages \cup {"like", "items", "source", "clone"}
      BY <2>1 DEF SaveStages, RestoreStages
    <2> QED BY <1>1, <2>1, <2>2, <2>3, HeldBecome
  <1>3. ASSUME NEW w \in Invocations,
               FindDeletedByKey(w) \/ FindByHash(w) \/ FindDeletedByHash(w)
        PROVE  Held
    <2>1. call[w].stage \in SaveStages
      BY <1>3 DEF FindDeletedByKey, FindByHash, FindDeletedByHash, SaveStages
    <2>2. \/ \E p \in Plans : FoundDeleted(w, p)
          \/ \E stage \in SaveStages : Goto(w, stage)
          \/ Become(w, Done)
      BY <1>3 DEF FindDeletedByKey, FindByHash, FindDeletedByHash, SaveStages
    <2> QED BY <1>1, <2>1, <2>2, HeldFound, HeldSave, HeldDone
  <1>4. ASSUME NEW w \in Invocations, NEW p \in Plans, NEW row \in Rows, Insert(w, p, row)
        PROVE  Held
    <2>1. row.itinerary \in Itineraries /\ row # NoRow
      BY NullAssumption DEF Rows, NoRow
    <2>2. /\ plan' = [plan EXCEPT ![p] = row] /\ Become(w, WriteItems(p, row.itinerary))
      BY <1>4 DEF Insert
    <2>3. plan'[p] # NoRow BY <1>1, <2>1, <2>2 DEF SavedTypeOK
    <2> QED BY <1>1, <2>1, <2>2, <2>3, HeldItems
  <1>5. ASSUME NEW w \in Invocations, NEW p \in Plans, InsertPlan(w, p) PROVE Held
    BY <1>4, <1>5, InsertPlanRow DEF InsertPlan
  <1>6. ASSUME NEW w \in Invocations, NEW p \in Plans, InsertClone(w, p) PROVE Held
    BY <1>4, <1>6, InsertCloneRow DEF InsertClone
  <1>7. ASSUME NEW w \in Invocations, RestoreRow(w) \/ DeleteReactions(w) PROVE Held
    BY <1>1, <1>7, HeldRestore DEF RestoreRow, DeleteReactions, RestoreStages
  <1>8. ASSUME NEW w \in Invocations, ClearItems(w) PROVE Held
    <2>1. call[w].stage \in RestoreStages BY <1>8 DEF ClearItems, RestoreStages
    <2>2. PICK p \in Plans : p = call[w].plan BY <1>1, <2>1, RestoreCallTyped
    <2>3. NewRow(w).itinerary \in Itineraries
      <3>1. /\ call[w].user \in Users /\ call[w].key \in Keys \cup {None}
            /\ call[w].content \in Contents
        BY <1>1, <2>1, RestoreCallTyped
      <3> QED BY <3>1, NewPlanTyped DEF NewRow
    <2>4. plan'[p] # NoRow BY <1>1, <2>1, <2>2 DEF CallsKnow, CallKnows, RowsKept
    <2>5. Become(w, WriteItems(p, NewRow(w).itinerary)) BY <1>8, <2>2 DEF ClearItems
    <2> QED BY <1>1, <2>3, <2>4, <2>5, HeldItems
  <1>9. ASSUME NEW w \in Invocations, InsertItem(w) PROVE Held
    <2>1. call[w].stage = "items" BY <1>9 DEF InsertItem
    <2>2. /\ call[w].plan \in Plans /\ call[w].next \in Positions
          /\ plan[call[w].plan] # NoRow
      BY <1>1, <2>1, ItemsCallTyped DEF CallsKnow, CallKnows
    <2>3. CASE LastItem(call[w].next) BY <1>1, <1>9, <2>3, HeldDone DEF InsertItem
    <2>4. CASE ~LastItem(call[w].next)
      <3>1. call[w].next + 1 \in Positions
        BY <2>2, <2>4, ItemsAssumption DEF LastItem, Positions
      <3>2. PICK c \in Calls :
              /\ c = [call[w] EXCEPT !.next = call[w].next + 1]
              /\ c.stage = "items" /\ c.plan = call[w].plan
        BY <1>1, <2>1, <3>1, ItemsCallTyped
      <3>3. Become(w, c) BY <1>9, <2>4, <3>2 DEF InsertItem
      <3>4. plan'[c.plan] # NoRow BY <1>1, <2>2, <3>2 DEF RowsKept
      <3>5. "items" \notin SaveStages \cup RestoreStages \cup {"like", "source", "clone"}
        BY DEF SaveStages, RestoreStages
      <3> QED BY <1>1, <3>2, <3>3, <3>4, <3>5, HeldBecome
    <2> QED BY <2>3, <2>4
  <1>10. ASSUME NEW w \in Invocations,
                \/ DuplicateRow(w) \/ DuplicateItem(w) \/ DuplicateClone(w)
                \/ SetLike(w) \/ Die(w)
         PROVE  Held
    BY <1>1, <1>10, HeldDone
       DEF DuplicateRow, DuplicateItem, DuplicateClone, SetLike, Die
  <1>11. ASSUME NEW w \in Invocations, NEW u \in Users, NEW p \in Plans, ReadSource(w, u, p)
         PROVE  Held
    <2>1. plan[p] \in Rows /\ Visible(u, p)
      BY <1>1, <1>11, PlanThere DEF ReadSource, Visible, Live
    <2> DEFINE state == [stage |-> "source", user |-> u, source |-> p,
                         hash |-> plan[p].hash, itinerary |-> plan[p].itinerary]
    <2>2. state \in Calls BY <2>1 DEF Calls, Rows
    <2>3. plan[p].hash \in Submits[u] \cup exposed
      BY <2>1 DEF SavedInv, PublicExposed, PrivateStaysPrivate, Visible, Live
    <2>4. state.stage = "source" /\ state.hash = plan[p].hash /\ state.user = u OBVIOUS
    <2>5. Become(w, state) BY <1>11 DEF ReadSource
    <2>6. exposed \subseteq exposed' BY <1>1 DEF RowsKept
    <2>7. "source" \notin SaveStages \cup RestoreStages \cup {"like", "items"}
      BY DEF SaveStages, RestoreStages
    <2> HIDE DEF state
    <2> QED BY <1>1, <2>2, <2>3, <2>4, <2>5, <2>6, <2>7, HeldBecome
  <1>12. ASSUME NEW w \in Invocations, ReadSourceItems(w) PROVE Held
    <2>1. call[w].stage = "source" BY <1>12 DEF ReadSourceItems
    <2>2. PICK it \in Itineraries : it = Merged(call[w].itinerary, item[call[w].source])
      BY <1>1, <2>1, CloneCallTyped DEF Merged, SavedTypeOK
    <2>3. PICK c \in Calls :
            /\ c = [[call[w] EXCEPT !.stage = "clone"] EXCEPT !.itinerary = it]
            /\ c.stage = "clone" /\ c.user = call[w].user /\ c.hash = call[w].hash
      BY <1>1, <2>1, CloneCallTyped
    <2>4. Become(w, c)
      <3>1. [call[w] EXCEPT !.stage = "clone",
               !.itinerary = Merged(@, item[call[w].source])] = c
        BY <2>2, <2>3
      <3> QED BY <1>12, <3>1 DEF ReadSourceItems
    <2>5. c.hash \in Submits[c.user] \cup exposed'
      BY <1>1, <2>1, <2>3 DEF CallsKnow, CallKnows, RowsKept
    <2>6. "clone" \notin SaveStages \cup RestoreStages \cup {"like", "items"}
      BY DEF SaveStages, RestoreStages
    <2> QED BY <1>1, <2>3, <2>4, <2>5, <2>6, HeldBecome
  <1>13. ASSUME NEW w \in Invocations, NEW u \in Users, NEW p \in Plans,
                NEW liked \in BOOLEAN, ReadLiked(w, u, p, liked)
         PROVE  Held
    <2> DEFINE state == [stage |-> "like", user |-> u, plan |-> p, liked |-> liked]
    <2>1. state \in Calls BY DEF Calls
    <2>2. state.stage = "like" /\ state.plan = p /\ state.user = u OBVIOUS
    <2>3. Become(w, state) /\ plan[p] # NoRow /\ plan[p].owner = u
      BY <1>13 DEF ReadLiked, Likeable, Live
    <2>4. plan'[p] # NoRow /\ plan'[p].owner = u BY <1>1, <2>3 DEF RowsKept
    <2>5. "like" \notin SaveStages \cup RestoreStages \cup {"items", "source", "clone"}
      BY DEF SaveStages, RestoreStages
    <2> HIDE DEF state
    <2> QED BY <1>1, <2>1, <2>2, <2>3, <2>4, <2>5, HeldBecome
  <1>14. ASSUME NEW u \in Users, NEW p \in Plans,
                Delete(u, p) \/ \E public \in BOOLEAN : Share(u, p, public)
         PROVE  Held
    BY <1>1, <1>14, HeldSame DEF Delete, Share
  <1>15. CASE UNCHANGED vars BY <1>1, <1>15, HeldSame DEF vars
  <1> QED BY <1>2, <1>3, <1>5, <1>6, <1>7, <1>8, <1>9, <1>10, <1>11, <1>12, <1>13, <1>14,
             <1>15 DEF Next, Save, Clone, Like

LEMMA StepType ==
  ASSUME SavedInv, [Next]_vars
  PROVE  SavedTypeOK'
  <1>1. SavedTypeOK BY DEF SavedInv
  <1>2. item' \in [Plans -> Itineraries]
    <2>1. ASSUME NEW w \in Invocations, InsertItem(w)
          PROVE  item' \in [Plans -> Itineraries]
      <3>1. /\ call[w].plan \in Plans /\ call[w].itinerary \in Itineraries
            /\ call[w].next \in Positions
        BY <1>1, <2>1, ItemsCallTyped DEF InsertItem
      <3>2. PICK x \in Contents \cup {None} :
              x = IF call[w].itinerary[call[w].next] = None
                    THEN item[call[w].plan][call[w].next]
                    ELSE call[w].itinerary[call[w].next]
        BY <1>1, <3>1 DEF SavedTypeOK, Itineraries
      <3>3. item' = [item EXCEPT ![call[w].plan][call[w].next] = x]
        BY <1>1, <2>1, <3>1, <3>2 DEF InsertItem, SavedTypeOK, Itineraries
      <3> QED BY <1>1, <3>1, <3>3 DEF SavedTypeOK, Itineraries
    <2>2. ASSUME NEW w \in Invocations, ClearItems(w)
          PROVE  item' \in [Plans -> Itineraries]
      BY <1>1, <2>2 DEF ClearItems, SavedTypeOK, NoItems, Itineraries
    <2>3. CASE \A w \in Invocations : ~InsertItem(w) /\ ~ClearItems(w)
      <3>1. UNCHANGED item
        BY <2>3, ZenonT(40) DEF Next, vars, Save, Clone, Like, Die, BeginSave, FindDeletedByKey,
           FindByHash, FindDeletedByHash, FoundDeleted, InsertPlan, InsertClone, Insert,
           RestoreRow, DuplicateRow, DeleteReactions, DuplicateItem, ReadSource,
           ReadSourceItems, DuplicateClone, ReadLiked, SetLike, Delete, Share,
           UnchangedTables
      <3> QED BY <1>1, <3>1 DEF SavedTypeOK
    <2> QED BY <2>1, <2>2, <2>3
  <1>3. likes' \subseteq Users \X Plans
    <2>1. ASSUME NEW w \in Invocations, SetLike(w) PROVE likes' \subseteq Users \X Plans
      <3>1. call[w].user \in Users /\ call[w].plan \in Plans
        BY <1>1, <2>1, LikeCallTyped DEF SetLike
      <3> QED BY <1>1, <2>1, <3>1 DEF SetLike, SavedTypeOK
    <2>2. CASE \A w \in Invocations : ~SetLike(w)
      <3>1. likes' \subseteq likes
        BY <2>2, ZenonT(40) DEF Next, vars, Save, Clone, Like, Die, BeginSave, FindDeletedByKey,
           FindByHash, FindDeletedByHash, FoundDeleted, InsertPlan, InsertClone, Insert,
           RestoreRow, DuplicateRow, DeleteReactions, ClearItems, InsertItem,
           DuplicateItem, ReadSource, ReadSourceItems, DuplicateClone, ReadLiked, Delete,
           Share, UnchangedTables
      <3> QED BY <1>1, <3>1 DEF SavedTypeOK
    <2> QED BY <2>1, <2>2
  <1>4. damaged' \subseteq Plans
    <2>1. ASSUME NEW w \in Invocations, DuplicateItem(w) \/ Die(w)
          PROVE  damaged' \subseteq Plans
      <3>1. call[w].stage \in {"unlike", "clear", "items"} => call[w].plan \in Plans
        BY <1>1, RestoreCallTyped, ItemsCallTyped DEF RestoreStages
      <3> QED BY <1>1, <2>1, <3>1 DEF DuplicateItem, Die, SavedTypeOK
    <2>2. ASSUME NEW w \in Invocations, NEW p \in Plans, FoundDeleted(w, p)
          PROVE  damaged' \subseteq Plans
      BY <1>1, <2>2 DEF FoundDeleted, SavedTypeOK
    <2>3. CASE /\ \A w \in Invocations : ~DuplicateItem(w) /\ ~Die(w)
               /\ \A w \in Invocations, p \in Plans : ~FoundDeleted(w, p)
      <3>1. UNCHANGED damaged
        BY <2>3, ZenonT(40) DEF Next, vars, Save, Clone, Like, BeginSave, FindDeletedByKey,
           FindByHash, FindDeletedByHash, InsertPlan, InsertClone, Insert, RestoreRow,
           DuplicateRow, DeleteReactions, ClearItems, InsertItem, ReadSource,
           ReadSourceItems, DuplicateClone, ReadLiked, SetLike, Delete, Share,
           UnchangedTables
      <3> QED BY <1>1, <3>1 DEF SavedTypeOK
    <2> QED BY <2>1, <2>2, <2>3
  <1> QED BY <1>2, <1>3, <1>4, StepRows, StepCalls DEF SavedTypeOK, RowsGood, Held

LEMMA StepLikes ==
  ASSUME SavedInv, [Next]_vars
  PROVE  LikesByOwner'
  <1>1. SavedTypeOK /\ LikesByOwner /\ CallsKnow /\ RowsKept
    BY StepRows DEF SavedInv, RowsGood
  <1>2. ASSUME NEW pair \in likes
        PROVE  plan'[pair[2]] # NoRow /\ plan'[pair[2]].owner = pair[1]
    BY <1>1, <1>2 DEF LikesByOwner, RowsKept, SavedTypeOK
  <1>3. ASSUME NEW w \in Invocations, SetLike(w) PROVE LikesByOwner'
    <2>1. PICK u \in Users, p \in Plans : u = call[w].user /\ p = call[w].plan
      BY <1>1, <1>3, LikeCallTyped DEF SetLike
    <2>2. plan[p] # NoRow /\ plan[p].owner = u
      BY <1>1, <1>3, <2>1 DEF SetLike, CallsKnow, CallKnows
    <2>3. plan'[p] # NoRow /\ plan'[p].owner = u BY <1>1, <2>2 DEF RowsKept
    <2>4. likes' \subseteq likes \cup {<<u, p>>} BY <1>3, <2>1 DEF SetLike
    <2> QED BY <1>2, <2>3, <2>4 DEF LikesByOwner
  <1>4. CASE \A w \in Invocations : ~SetLike(w)
    <2>1. likes' \subseteq likes
      BY <1>4, ZenonT(40) DEF Next, vars, Save, Clone, Like, Die, BeginSave, FindDeletedByKey,
         FindByHash, FindDeletedByHash, FoundDeleted, InsertPlan, InsertClone, Insert,
         RestoreRow, DuplicateRow, DeleteReactions, ClearItems, InsertItem, DuplicateItem,
         ReadSource, ReadSourceItems, DuplicateClone, ReadLiked, Delete, Share,
         UnchangedTables
    <2> QED BY <1>2, <2>1 DEF LikesByOwner
  <1> QED BY <1>3, <1>4

LEMMA SavedInvariant == Spec => []SavedInv
  <1>1. SavedInv /\ [Next]_vars => SavedInv'
    BY StepRows, StepCalls, StepType, StepLikes DEF SavedInv, RowsGood, Held
  <1> QED BY <1>1, InitSaved, PTL DEF Spec

(* SavedTypeOK: the three tables and what each invocation holds.            *)
THEOREM SavedPlansTyped == Spec => []SavedTypeOK
  BY SavedInvariant, PTL DEF SavedInv

(* PrivateStaysPrivate: a plan is of a snapshot its owner submitted or that *)
(* some public plan has shown, although a clone is inserted two statements  *)
(* after its source was found to be public.                                 *)
THEOREM PrivateSnapshots == Spec => []PrivateStaysPrivate
  BY SavedInvariant, PTL DEF SavedInv

(* LikesByOwner: only its owner likes a plan, whatever became of it since   *)
(* set_like looked it up.                                                   *)
THEOREM OwnersLike == Spec => []LikesByOwner
  BY SavedInvariant, PTL DEF SavedInv
-----------------------------------------------------------------------------
(* A plan that is not damaged has at most one writer, and its rows are what *)
(* that writer has got to.                                                  *)
Progress(p, c) ==
    /\ plan[p].itinerary = c.itinerary
    /\ \A n \in Positions :
         item[p][n] = IF n < c.next THEN c.itinerary[n] ELSE None
WriterSound(w, p) ==
    /\ call[w].stage = "restore" => plan[p].deleted
    /\ call[w].stage \in {"unlike", "clear"} => plan[p].itinerary = NewRow(w).itinerary
    /\ call[w].stage = "items" => Progress(p, call[w])
PlanSound(p) ==
    /\ \A w, v \in Invocations : Writes(w, p) /\ Writes(v, p) => w = v
    /\ \A w \in Invocations : Writes(w, p) => WriterSound(w, p)
    /\ plan[p] = NoRow => item[p] = NoItems
    /\ plan[p] # NoRow /\ ~BeingWritten(p) => item[p] = plan[p].itinerary
PlansSound == \A p \in Plans \ damaged : PlanSound(p)
DamageInv == SavedInv /\ PlansSound

LEMMA WritersThere ==
  ASSUME SavedInv, NEW w \in Invocations, NEW p, Writes(w, p)
  PROVE  p \in Plans /\ plan[p] # NoRow
  <1>1. SavedTypeOK /\ CallKnows(call[w]) BY DEF SavedInv, CallsKnow
  <1>2. call[w].plan = p /\ call[w].stage \in RestoreStages \cup {"items"}
    BY DEF Writes, RestoreStages
  <1> QED BY <1>1, <1>2, RestoreCallTyped, ItemsCallTyped DEF CallKnows

LEMMA BecomeCall ==
  ASSUME SavedTypeOK, NEW w \in Invocations, NEW state, Become(w, state)
  PROVE  call'[w] = state /\ \A v \in Invocations \ {w} : call'[v] = call[v]
  BY DEF SavedTypeOK, Become

LEMMA QuietWrites ==
  ASSUME SavedTypeOK, NEW w \in Invocations, NEW state, Become(w, state),
         state.stage \notin {"restore", "unlike", "clear", "items"}
  PROVE  \A p : ~Writes(w, p)'
  BY BecomeCall DEF Writes

(* Steps that leave the rows of a plan and its remaining writers alone. *)
LEMMA SoundKept ==
  ASSUME NEW p \in Plans, PlanSound(p), item'[p] = item[p],
         plan'[p] = NoRow <=> plan[p] = NoRow,
         plan'[p].itinerary = plan[p].itinerary,
         plan[p].deleted => plan'[p].deleted,
         \A w \in Invocations : Writes(w, p)' => Writes(w, p) /\ call'[w] = call[w],
         \A w \in Invocations : Writes(w, p) /\ call[w].stage # "restore" => Writes(w, p)'
  PROVE  PlanSound(p)'
  <1>1. \A w, v \in Invocations : Writes(w, p)' /\ Writes(v, p)' => w = v
    BY DEF PlanSound
  <1>2. ASSUME NEW w \in Invocations, Writes(w, p)' PROVE WriterSound(w, p)'
    <2>1. WriterSound(w, p) /\ call'[w] = call[w] BY <1>2 DEF PlanSound
    <2>2. NewRow(w)' = NewRow(w) BY <2>1 DEF NewRow, NewPlan
    <2> QED BY <2>1, <2>2 DEF WriterSound, Progress
  <1>3. BeingWritten(p) => BeingWritten(p)' BY DEF BeingWritten
  <1> QED BY <1>1, <1>2, <1>3 DEF PlanSound

(* An invocation that ends, and did not write the plan unless to restore it.*)
LEMMA SoundWithout ==
  ASSUME SavedTypeOK, NEW p \in Plans, PlanSound(p), NEW w \in Invocations, NEW state,
         Become(w, state), UNCHANGED <<plan, item>>,
         state.stage \notin {"restore", "unlike", "clear", "items"},
         Writes(w, p) => call[w].stage = "restore"
  PROVE  PlanSound(p)'
  <1>1. \A v \in Invocations \ {w} : Writes(v, p)' = Writes(v, p) /\ call'[v] = call[v]
    BY BecomeCall DEF Writes
  <1>2. ~Writes(w, p)' BY QuietWrites
  <1> QED BY <1>1, <1>2, SoundKept

(* A step of an invocation on another plan. *)
LEMMA SoundElsewhere ==
  ASSUME SavedTypeOK, NEW p \in Plans, PlanSound(p), NEW w \in Invocations, NEW state,
         Become(w, state), plan'[p] = plan[p], item'[p] = item[p],
         ~Writes(w, p), ~(state.stage \in {"restore", "unlike", "clear", "items"}
                            /\ state.plan = p)
  PROVE  PlanSound(p)'
  <1>1. \A v \in Invocations \ {w} : Writes(v, p)' = Writes(v, p) /\ call'[v] = call[v]
    BY BecomeCall DEF Writes
  <1>2. ~Writes(w, p)' BY BecomeCall DEF Writes
  <1> QED BY <1>1, <1>2, SoundKept

LEMMA SoundInsert ==
  ASSUME SavedInv, NEW p \in Plans, PlanSound(p), NEW w \in Invocations,
         NEW q \in Plans, NEW row \in Rows, Insert(w, q, row),
         call[w].stage \in {"insert", "clone"}
  PROVE  PlanSound(p)'
  <1>1. SavedTypeOK BY DEF SavedInv
  <1>2. /\ plan[q] = NoRow /\ plan' = [plan EXCEPT ![q] = row] /\ UNCHANGED item
        /\ Become(w, WriteItems(q, row.itinerary))
    BY DEF Insert
  <1>3. ~Writes(w, p) BY DEF Writes
  <1>4. /\ WriteItems(q, row.itinerary).plan = q /\ WriteItems(q, row.itinerary).next = 1
        /\ WriteItems(q, row.itinerary).stage = "items"
        /\ WriteItems(q, row.itinerary).itinerary = row.itinerary
    BY DEF WriteItems
  <1>5. CASE p # q
    <2>1. plan'[p] = plan[p] /\ item'[p] = item[p] BY <1>1, <1>2, <1>5 DEF SavedTypeOK
    <2> QED BY <1>1, <1>2, <1>3, <1>4, <1>5, <2>1, SoundElsewhere
  <1>6. CASE p = q
    <2>1. \A v \in Invocations : ~Writes(v, p) BY <1>2, <1>6, WritersThere
    <2>2. /\ call'[w] = WriteItems(p, row.itinerary)
          /\ \A v \in Invocations \ {w} : call'[v] = call[v]
      BY <1>1, <1>2, <1>6, BecomeCall
    <2>3. \A v \in Invocations : Writes(v, p)' => v = w BY <2>1, <2>2 DEF Writes
    <2>4. Writes(w, p)' BY <1>4, <1>6, <2>2 DEF Writes
    <2>5. plan'[p] = row /\ plan'[p] # NoRow /\ item'[p] = NoItems
      BY <1>1, <1>2, <1>6, NullAssumption DEF SavedTypeOK, PlanSound, Rows, NoRow
    <2>6. WriterSound(w, p)'
      <3>1. \A n \in Positions : ~(n < 1) /\ item'[p][n] = None
        BY <2>5 DEF Positions, NoItems
      <3> QED BY <1>4, <1>6, <2>2, <2>5, <3>1 DEF WriterSound, Progress
    <2>7. BeingWritten(p)' BY <1>4, <1>6, <2>2, <2>4 DEF BeingWritten
    <2> QED BY <2>3, <2>5, <2>6, <2>7 DEF PlanSound
  <1> QED BY <1>5, <1>6

LEMMA SoundFound ==
  ASSUME SavedInv, NEW p \in Plans \ damaged', PlanSound(p), NEW w \in Invocations,
         NEW q \in Plans, FoundDeleted(w, q), call[w].stage \in SaveStages
  PROVE  PlanSound(p)'
  <1>1. SavedTypeOK BY DEF SavedInv
  <1>2. ~Writes(w, p) BY DEF Writes, SaveStages
  <1>3. PICK c : /\ Become(w, c) /\ c.stage = "restore" /\ c.plan = q
                 /\ UNCHANGED <<plan, item>> /\ plan[q].deleted /\ plan[q] # NoRow
    <2> DEFINE state == [[call[w] EXCEPT !.stage = "restore"] EXCEPT !.plan = q]
    <2>1. state.stage = "restore" /\ state.plan = q BY <1>1, SaveCallTyped
    <2>2. Become(w, state) /\ UNCHANGED <<plan, item>> /\ plan[q].deleted /\ plan[q] # NoRow
      BY DEF FoundDeleted, Restorable, Deleted
    <2> HIDE DEF state
    <2> QED BY <2>1, <2>2
  <1>4. CASE p # q BY <1>1, <1>2, <1>3, <1>4, SoundElsewhere
  <1>5. CASE p = q
    <2>1. \A v \in Invocations \ {w} : ~Writes(v, p)
      BY <1>5 DEF FoundDeleted, Contended
    <2>2. call'[w] = c /\ \A v \in Invocations \ {w} : call'[v] = call[v]
      BY <1>1, <1>3, BecomeCall
    <2>3. \A v \in Invocations : Writes(v, p)' => v = w BY <2>1, <2>2 DEF Writes
    <2>4. WriterSound(w, p)' BY <1>3, <1>5, <2>2 DEF WriterSound
    <2>5. ~BeingWritten(p) BY <1>2, <2>1 DEF BeingWritten
    <2>6. item'[p] = item[p] /\ plan'[p] = plan[p] /\ plan[p] # NoRow
          /\ item[p] = plan[p].itinerary
      BY <1>3, <1>5, <2>5 DEF PlanSound
    <2> QED BY <2>3, <2>4, <2>6 DEF PlanSound
  <1> QED BY <1>4, <1>5

(* A step of the only writer of a plan. *)
LEMMA SoundWriter ==
  ASSUME SavedTypeOK, NEW p \in Plans, PlanSound(p), NEW w \in Invocations, Writes(w, p),
         NEW c, Become(w, c), c.stage # "restore", c.plan = p, plan'[p] # NoRow,
         c.stage \in {"unlike", "clear", "items"}, WriterSound(w, p)'
  PROVE  PlanSound(p)'
  <1>1. \A v \in Invocations \ {w} : ~Writes(v, p) BY DEF PlanSound
  <1>2. call'[w] = c /\ \A v \in Invocations \ {w} : call'[v] = call[v] BY BecomeCall
  <1>3. \A v \in Invocations : Writes(v, p)' => v = w BY <1>1, <1>2 DEF Writes
  <1>4. BeingWritten(p)' BY <1>2 DEF BeingWritten, Writes
  <1> QED BY <1>3, <1>4 DEF PlanSound

LEMMA SoundRestore ==
  ASSUME SavedInv, NEW p \in Plans, PlanSound(p), NEW w \in Invocations, RestoreRow(w)
  PROVE  PlanSound(p)'
  <1>1. SavedTypeOK /\ call[w].stage = "restore" BY DEF SavedInv, RestoreRow
  <1>2. PICK c : /\ Become(w, c) /\ c.stage = "unlike" /\ c.plan = call[w].plan
                 /\ c.user = call[w].user /\ c.key = call[w].key
                 /\ c.content = call[w].content
    <2> DEFINE state == [call[w] EXCEPT !.stage = "unlike"]
    <2>1. /\ state.stage = "unlike" /\ state.plan = call[w].plan
          /\ state.user = call[w].user /\ state.key = call[w].key
          /\ state.content = call[w].content
      BY <1>1, RestoreCallTyped DEF RestoreStages
    <2>2. Become(w, state) BY DEF RestoreRow, Goto
    <2> HIDE DEF state
    <2> QED BY <2>1, <2>2
  <1>3. /\ plan' = [plan EXCEPT ![call[w].plan] = NewRow(w)] /\ UNCHANGED item
        /\ NewRow(w) \in Rows /\ call[w].plan \in Plans
    BY RestoreRows DEF RestoreRow
  <1>4. CASE p # call[w].plan
    <2>1. ~Writes(w, p) BY <1>4 DEF Writes
    <2>2. plan'[p] = plan[p] BY <1>1, <1>3, <1>4 DEF SavedTypeOK
    <2> QED BY <1>1, <1>2, <1>3, <1>4, <2>1, <2>2, SoundElsewhere
  <1>5. CASE p = call[w].plan
    <2>1. Writes(w, p) BY <1>1, <1>5 DEF Writes
    <2>2. plan'[p] = NewRow(w) /\ plan'[p] # NoRow
      BY <1>1, <1>3, <1>5, NullAssumption DEF SavedTypeOK, Rows, NoRow
    <2>3. call'[w] = c BY <1>1, <1>2, BecomeCall
    <2>4. NewRow(w)' = NewRow(w) BY <1>2, <2>3 DEF NewRow, NewPlan
    <2>5. WriterSound(w, p)' BY <1>2, <2>2, <2>3, <2>4 DEF WriterSound
    <2> QED BY <1>1, <1>2, <1>5, <2>1, <2>2, <2>5, SoundWriter
  <1> QED BY <1>4, <1>5

LEMMA SoundUnlike ==
  ASSUME SavedInv, NEW p \in Plans, PlanSound(p), NEW w \in Invocations, DeleteReactions(w)
  PROVE  PlanSound(p)'
  <1>1. SavedTypeOK /\ call[w].stage = "unlike" /\ UNCHANGED <<plan, item>>
    BY DEF SavedInv, DeleteReactions
  <1>2. PICK c : /\ Become(w, c) /\ c.stage = "clear" /\ c.plan = call[w].plan
                 /\ c.user = call[w].user /\ c.key = call[w].key
                 /\ c.content = call[w].content
    <2> DEFINE state == [call[w] EXCEPT !.stage = "clear"]
    <2>1. /\ state.stage = "clear" /\ state.plan = call[w].plan
          /\ state.user = call[w].user /\ state.key = call[w].key
          /\ state.content = call[w].content
      BY <1>1, RestoreCallTyped DEF RestoreStages
    <2>2. Become(w, state) BY DEF DeleteReactions, Goto
    <2> HIDE DEF state
    <2> QED BY <2>1, <2>2
  <1>3. CASE p # call[w].plan
    <2>1. ~Writes(w, p) BY <1>3 DEF Writes
    <2> QED BY <1>1, <1>2, <1>3, <2>1, SoundElsewhere
  <1>4. CASE p = call[w].plan
    <2>1. Writes(w, p) BY <1>1, <1>4 DEF Writes
    <2>2. plan[p] # NoRow BY <2>1, WritersThere
    <2>3. call'[w] = c BY <1>1, <1>2, BecomeCall
    <2>4. NewRow(w)' = NewRow(w) BY <1>2, <2>3 DEF NewRow, NewPlan
    <2>5. WriterSound(w, p) BY <2>1 DEF PlanSound
    <2>6. WriterSound(w, p)' BY <1>1, <1>2, <2>3, <2>4, <2>5 DEF WriterSound
    <2> QED BY <1>1, <1>2, <1>4, <2>1, <2>2, <2>6, SoundWriter
  <1> QED BY <1>3, <1>4

LEMMA SoundClear ==
  ASSUME SavedInv, NEW p \in Plans, PlanSound(p), NEW w \in Invocations, ClearItems(w)
  PROVE  PlanSound(p)'
  <1> DEFINE c == WriteItems(call[w].plan, NewRow(w).itinerary)
  <1>1. /\ SavedTypeOK /\ call[w].stage = "clear" /\ UNCHANGED plan /\ Become(w, c)
        /\ item' = [item EXCEPT ![call[w].plan] = NoItems]
    BY DEF SavedInv, ClearItems
  <1>2. /\ c.stage = "items" /\ c.plan = call[w].plan /\ c.next = 1
        /\ c.itinerary = NewRow(w).itinerary
    BY DEF WriteItems
  <1> HIDE DEF c
  <1>3. CASE p # call[w].plan
    <2>1. ~Writes(w, p) BY <1>3 DEF Writes
    <2>2. item'[p] = item[p] BY <1>1, <1>3 DEF SavedTypeOK
    <2> QED BY <1>1, <1>2, <1>3, <2>1, <2>2, SoundElsewhere
  <1>4. CASE p = call[w].plan
    <2>1. Writes(w, p) BY <1>1, <1>4 DEF Writes
    <2>2. plan[p] # NoRow /\ WriterSound(w, p) BY <2>1, WritersThere DEF PlanSound
    <2>3. plan[p].itinerary = c.itinerary BY <1>1, <1>2, <2>2 DEF WriterSound
    <2>4. call'[w] = c BY <1>1, BecomeCall
    <2>5. \A n \in Positions : ~(n < 1) /\ item'[p][n] = None
      BY <1>1, <1>4 DEF SavedTypeOK, Positions, NoItems
    <2>6. WriterSound(w, p)' BY <1>1, <1>2, <2>3, <2>4, <2>5 DEF WriterSound, Progress
    <2> QED BY <1>1, <1>2, <1>4, <2>1, <2>2, <2>6, SoundWriter
  <1> QED BY <1>3, <1>4

LEMMA SoundItem ==
  ASSUME SavedInv, NEW p \in Plans, PlanSound(p), NEW w \in Invocations, InsertItem(w)
  PROVE  PlanSound(p)'
  <1> DEFINE q == call[w].plan
             n == call[w].next
             it == call[w].itinerary
  <1>1. /\ SavedTypeOK /\ call[w].stage = "items" /\ UNCHANGED plan
        /\ q \in Plans /\ n \in Positions /\ it \in Itineraries
    BY ItemsCallTyped DEF SavedInv, InsertItem
  <1>2. /\ \A x \in Plans \ {q} : item'[x] = item[x]
        /\ \A m \in Positions \ {n} : item'[q][m] = item[q][m]
        /\ item'[q][n] = IF it[n] = None THEN item[q][n] ELSE it[n]
        /\ item'[q] \in [Positions -> Contents \cup {None}]
    <2>1. item' = [item EXCEPT ![q][n] = IF it[n] = None THEN item[q][n] ELSE it[n]]
      BY <1>1 DEF InsertItem, SavedTypeOK, Itineraries
    <2> QED BY <1>1, <2>1 DEF SavedTypeOK, Itineraries
  <1>3. CASE p # q
    <2>1. ~Writes(w, p) BY <1>3 DEF Writes
    <2>2. \/ Become(w, Done)
          \/ /\ n + 1 \in Positions /\ Become(w, [call[w] EXCEPT !.next = n + 1])
      BY <1>1, ItemsAssumption DEF InsertItem, LastItem, Positions
    <2>3. n + 1 \in Positions => [call[w] EXCEPT !.next = n + 1].plan = q
      BY <1>1, ItemsCallTyped
    <2> QED BY <1>1, <1>2, <1>3, <2>1, <2>2, <2>3, SoundElsewhere, Quiet
  <1>4. CASE p = q
    <2>1. Writes(w, p) BY <1>1, <1>4 DEF Writes
    <2>2. plan[p] # NoRow /\ Progress(p, call[w])
      BY <1>1, <2>1, WritersThere DEF PlanSound, WriterSound
    <2>3. plan[p].itinerary = it BY <2>2 DEF Progress
    <2>4. \A m \in Positions : item'[p][m] = IF m < n + 1 THEN it[m] ELSE None
      <3> SUFFICES ASSUME NEW m \in Positions
                   PROVE  item'[p][m] = IF m < n + 1 THEN it[m] ELSE None
        OBVIOUS
      <3>0. \A x \in Positions : x \in Nat BY ItemsAssumption DEF Positions
      <3>1. item[p][m] = IF m < n THEN it[m] ELSE None BY <2>2 DEF Progress
      <3>2. m \in Nat /\ n \in Nat BY <1>1, <3>0
      <3> HIDE DEF q, n, it
      <3>3. CASE m = n BY <1>2, <1>4, <3>1, <3>2, <3>3
      <3>4. CASE m # n BY <1>2, <1>4, <3>1, <3>2, <3>4
      <3> QED BY <3>3, <3>4
    <2>5. CASE LastItem(n)
      <3>1. Become(w, Done) BY <2>5 DEF InsertItem
      <3>2. ~Writes(w, p)' BY <1>1, <3>1, QuietWrites, Quiet
      <3>3. \A v \in Invocations \ {w} : ~Writes(v, p) BY <2>1 DEF PlanSound
      <3>4. \A v \in Invocations : ~Writes(v, p)'
        BY <1>1, <3>1, <3>2, <3>3, BecomeCall DEF Writes
      <3>5. item'[p] = it
        <4>1. \A m \in Positions : m < n + 1 BY <2>5, ItemsAssumption DEF LastItem, Positions
        <4> HIDE DEF q, n, it
        <4> QED BY <1>1, <1>2, <1>4, <2>4, <4>1 DEF Itineraries
      <3>6. plan'[p] = plan[p] BY <1>1
      <3> HIDE DEF q, n, it
      <3> QED BY <2>2, <2>3, <3>4, <3>5, <3>6 DEF PlanSound, BeingWritten
    <2>6. CASE ~LastItem(n)
      <3>1. n + 1 \in Positions BY <1>1, <2>6, ItemsAssumption DEF LastItem, Positions
      <3>2. PICK c : /\ c.stage = "items" /\ c.plan = p /\ c.itinerary = it
                     /\ c.next = n + 1 /\ Become(w, c)
        <4> DEFINE state == [call[w] EXCEPT !.next = n + 1]
        <4>1. /\ state.stage = "items" /\ state.plan = p /\ state.itinerary = it
              /\ state.next = n + 1
          BY <1>1, <1>4, <3>1, ItemsCallTyped
        <4>2. Become(w, state) BY <2>6 DEF InsertItem
        <4> HIDE DEF state
        <4> QED BY <4>1, <4>2
      <3>3. call'[w] = c BY <1>1, <3>2, BecomeCall
      <3> HIDE DEF q, n, it
      <3>4. WriterSound(w, p)'
        BY <1>1, <2>3, <2>4, <3>2, <3>3 DEF WriterSound, Progress
      <3> QED BY <1>1, <2>1, <2>2, <3>2, <3>4, SoundWriter
    <2> QED BY <2>5, <2>6
  <1> QED BY <1>3, <1>4

LEMMA DamageKept ==
  ASSUME [Next]_vars
  PROVE  damaged \subseteq damaged'
  BY ZenonT(40) DEF Next, vars, Save, Clone, Like, Die, BeginSave, FindDeletedByKey, FindByHash,
     FindDeletedByHash, FoundDeleted, InsertPlan, InsertClone, Insert, RestoreRow,
     DuplicateRow, DeleteReactions, ClearItems, InsertItem, DuplicateItem, ReadSource,
     ReadSourceItems, DuplicateClone, ReadLiked, SetLike, Delete, Share, UnchangedTables

LEMMA StepSound ==
  ASSUME DamageInv, [Next]_vars
  PROVE  PlansSound'
  <1> SUFFICES ASSUME NEW p \in Plans \ damaged' PROVE PlanSound(p)'
    BY DEF PlansSound
  <1>1. SavedInv /\ SavedTypeOK /\ PlanSound(p)
    BY DamageKept DEF DamageInv, SavedInv, PlansSound
  <1>2. ASSUME UNCHANGED <<plan, item, call>> PROVE PlanSound(p)'
    <2>1. \A w \in Invocations : Writes(w, p)' = Writes(w, p) BY <1>2 DEF Writes
    <2> QED BY <1>1, <1>2, <2>1, SoundKept
  <1>3. ASSUME NEW w \in Invocations, NEW state, Become(w, state),
               UNCHANGED <<plan, item>>, call[w].stage \notin {"unlike", "clear", "items"},
               state.stage \notin {"restore", "unlike", "clear", "items"}
        PROVE  PlanSound(p)'
    <2>1. Writes(w, p) => call[w].stage = "restore" BY <1>3 DEF Writes
    <2> QED BY <1>1, <1>3, <2>1, SoundWithout
  <1>4. ASSUME NEW w \in Invocations, NEW u \in Users, NEW k \in Keys \cup {None},
               NEW c \in Contents, BeginSave(w, u, k, c)
        PROVE  PlanSound(p)'
    <2>1. \A stage : SaveCall(stage, u, k, c).stage = stage BY DEF SaveCall
    <2>2. PICK stage \in {"by_hash", "deleted_by_key"} :
            Become(w, SaveCall(stage, u, k, c))
      BY <1>4 DEF BeginSave
    <2>3. call[w].stage = "idle" /\ UNCHANGED <<plan, item>>
      BY <1>4, Quiet DEF BeginSave, UnchangedTables
    <2> QED BY <1>3, <2>1, <2>2, <2>3
  <1>5. ASSUME NEW w \in Invocations, call[w].stage \in SaveStages,
               NEW stage \in SaveStages, Goto(w, stage), UNCHANGED <<plan, item>>
        PROVE  PlanSound(p)'
    <2> DEFINE state == [call[w] EXCEPT !.stage = stage]
    <2>1. state.stage = stage BY <1>1, <1>5, SaveCallTyped
    <2>2. Become(w, state) BY <1>5 DEF Goto
    <2> HIDE DEF state
    <2> QED BY <1>3, <1>5, <2>1, <2>2 DEF SaveStages
  <1>6. ASSUME NEW w \in Invocations,
               FindDeletedByKey(w) \/ FindByHash(w) \/ FindDeletedByHash(w)
        PROVE  PlanSound(p)'
    <2>1. call[w].stage \in SaveStages
      BY <1>6 DEF FindDeletedByKey, FindByHash, FindDeletedByHash, SaveStages
    <2>2. \/ \E q \in Plans : FoundDeleted(w, q)
          \/ /\ \/ \E stage \in SaveStages : Goto(w, stage)
                \/ Become(w, Done)
             /\ UNCHANGED <<plan, item>>
      BY <1>6 DEF FindDeletedByKey, FindByHash, FindDeletedByHash, SaveStages,
         UnchangedTables
    <2>3. call[w].stage \notin {"unlike", "clear", "items"} BY <2>1 DEF SaveStages
    <2> QED BY <1>1, <1>3, <1>5, <2>1, <2>2, <2>3, SoundFound, Quiet
  <1>7. ASSUME NEW w \in Invocations, NEW q \in Plans, InsertPlan(w, q)
        PROVE  PlanSound(p)'
    BY <1>1, <1>7, InsertPlanRow, SoundInsert DEF InsertPlan
  <1>8. ASSUME NEW w \in Invocations, NEW q \in Plans, InsertClone(w, q)
        PROVE  PlanSound(p)'
    BY <1>1, <1>8, InsertCloneRow, SoundInsert DEF InsertClone
  <1>9. ASSUME NEW w \in Invocations,
               RestoreRow(w) \/ DeleteReactions(w) \/ ClearItems(w) \/ InsertItem(w)
        PROVE  PlanSound(p)'
    BY <1>1, <1>9, SoundRestore, SoundUnlike, SoundClear, SoundItem
  <1>10. ASSUME NEW w \in Invocations, DuplicateItem(w) PROVE PlanSound(p)'
    <2>1. /\ Become(w, Done) /\ call[w].stage = "items" /\ call[w].plan # p
          /\ UNCHANGED <<plan, item>>
      BY <1>10 DEF DuplicateItem
    <2>2. ~Writes(w, p) BY <2>1 DEF Writes
    <2> QED BY <1>1, <2>1, <2>2, SoundElsewhere, Quiet
  <1>11. ASSUME NEW w \in Invocations, Die(w) PROVE PlanSound(p)'
    <2>1. Become(w, Done) /\ UNCHANGED <<plan, item>> BY <1>11 DEF Die
    <2>2. Writes(w, p) => call[w].stage = "restore" BY <1>11 DEF Die, Writes
    <2> QED BY <1>1, <2>1, <2>2, SoundWithout, Quiet
  <1>12. ASSUME NEW w \in Invocations, DuplicateRow(w) \/ DuplicateClone(w) \/ SetLike(w)
         PROVE  PlanSound(p)'
    <2>1. /\ Become(w, Done) /\ UNCHANGED <<plan, item>>
          /\ call[w].stage \in {"insert", "restore", "clone", "like"}
      BY <1>12 DEF DuplicateRow, DuplicateClone, SetLike, UnchangedTables
    <2> QED BY <1>3, <2>1, Quiet
  <1>13. ASSUME NEW w \in Invocations, NEW u \in Users, NEW q \in Plans, ReadSource(w, u, q)
         PROVE  PlanSound(p)'
    <2> DEFINE state == [stage |-> "source", user |-> u, source |-> q,
                         hash |-> plan[q].hash, itinerary |-> plan[q].itinerary]
    <2>1. state.stage = "source" OBVIOUS
    <2>2. Become(w, state) /\ UNCHANGED <<plan, item>> /\ call[w].stage = "idle"
      BY <1>13, Quiet DEF ReadSource, UnchangedTables
    <2> HIDE DEF state
    <2> QED BY <1>3, <2>1, <2>2
  <1>14. ASSUME NEW w \in Invocations, ReadSourceItems(w) PROVE PlanSound(p)'
    <2> DEFINE it == Merged(call[w].itinerary, item[call[w].source])
               state == [[call[w] EXCEPT !.stage = "clone"] EXCEPT !.itinerary = it]
    <2>1. call[w].stage = "source" /\ UNCHANGED <<plan, item>>
      BY <1>14 DEF ReadSourceItems, UnchangedTables
    <2>2. it \in Itineraries BY <1>1, <2>1, CloneCallTyped DEF Merged, SavedTypeOK
    <2> HIDE DEF it
    <2>3. state.stage = "clone" BY <1>1, <2>1, <2>2, CloneCallTyped
    <2>4. Become(w, state) BY <1>14 DEF ReadSourceItems, it
    <2> HIDE DEF state
    <2> QED BY <1>3, <2>1, <2>3, <2>4
  <1>15. ASSUME NEW w \in Invocations, NEW u \in Users, NEW q \in Plans,
                NEW liked \in BOOLEAN, ReadLiked(w, u, q, liked)
         PROVE  PlanSound(p)'
    <2> DEFINE state == [stage |-> "like", user |-> u, plan |-> q, liked |-> liked]
    <2>1. state.stage = "like" OBVIOUS
    <2>2. Become(w, state) /\ UNCHANGED <<plan, item>> /\ call[w].stage = "idle"
      BY <1>15, Quiet DEF ReadLiked, UnchangedTables
    <2> HIDE DEF state
    <2> QED BY <1>3, <2>1, <2>2
  <1>16. ASSUME NEW u \in Users, NEW q \in Plans,
                Delete(u, q) \/ \E public \in BOOLEAN : Share(u, q, public)
         PROVE  PlanSound(p)'
    <2>1. /\ UNCHANGED <<item, call>> /\ plan[q] # NoRow
          /\ plan[q].deleted = FALSE
      <3>1. Live(q) /\ UNCHANGED <<item, call>> BY <1>16 DEF Delete, Share
      <3>2. plan[q] \in Rows BY <1>1, <3>1, PlanThere DEF Live
      <3> QED BY <3>1, <3>2 DEF Live, Rows
    <2>2. /\ plan'[q].itinerary = plan[q].itinerary /\ RowsKept
          /\ \A x \in Plans \ {q} : plan'[x] = plan[x]
      BY <1>1, <1>16, ShareRows, DeleteRows DEF RowsGood
    <2>3. \A w \in Invocations : Writes(w, p)' = Writes(w, p) BY <2>1 DEF Writes
    <2>4. /\ plan'[p] = NoRow <=> plan[p] = NoRow
          /\ plan'[p].itinerary = plan[p].itinerary
          /\ plan[p].deleted => plan'[p].deleted
      BY <2>1, <2>2 DEF RowsKept
    <2> QED BY <1>1, <2>1, <2>3, <2>4, SoundKept
  <1>17. CASE UNCHANGED vars BY <1>2, <1>17 DEF vars
  <1> QED BY <1>4, <1>6, <1>7, <1>8, <1>9, <1>10, <1>11, <1>12, <1>13, <1>14, <1>15,
             <1>16, <1>17 DEF Next, Save, Clone, Like

LEMMA DamageInvariant == Spec => []DamageInv
  <1>1. Init => DamageInv
    <2> SUFFICES ASSUME Init PROVE DamageInv OBVIOUS
    <2>1. \A w \in Invocations, p \in Plans : ~Writes(w, p) BY Quiet DEF Init, Writes
    <2> QED BY <2>1, InitSaved DEF Init, DamageInv, PlansSound, PlanSound
  <1>2. DamageInv /\ [Next]_vars => DamageInv'
    <2>1. SavedInv /\ [Next]_vars => SavedInv'
      BY StepRows, StepCalls, StepType, StepLikes DEF SavedInv, RowsGood, Held
    <2> QED BY <2>1, StepSound DEF DamageInv
  <1> QED BY <1>1, <1>2, PTL DEF Spec

(* ItemsFollowPlan: once no save is at work on a plan its item rows are its *)
(* itinerary, unless a save of it died, failed half way or met another.     *)
THEOREM ItemsAreFollowing == Spec => []ItemsFollowPlan
  <1>1. DamageInv => ItemsFollowPlan
    BY DEF DamageInv, PlansSound, PlanSound, ItemsFollowPlan
  <1> QED BY <1>1, DamageInvariant, PTL

(* LivePlansKept: a live plan that no two saves restored at once keeps its  *)
(* owner, hash and itinerary whatever is saved, cloned or shared.           *)
THEOREM LivePlansAreKept == Spec => LivePlansKept
  <1> DEFINE Kept(p) == /\ plan'[p].owner = plan[p].owner
                       /\ plan'[p].hash = plan[p].hash
                       /\ plan'[p].itinerary = plan[p].itinerary
  <1>1. ASSUME DamageInv, [Next]_vars, NEW p \in Plans, Live(p), p \notin damaged
        PROVE  Kept(p)
    <2>1. SavedInv /\ SavedTypeOK /\ PlanSound(p) /\ plan[p] \in Rows
      BY <1>1, PlanThere DEF DamageInv, SavedInv, PlansSound, Live
    <2>2. ASSUME NEW w \in Invocations, NEW q \in Plans, NEW row \in Rows,
                 Insert(w, q, row)
          PROVE  Kept(p)
      BY <1>1, <2>1, <2>2 DEF Insert, Live, SavedTypeOK
    <2>3. ASSUME NEW w \in Invocations, NEW q \in Plans,
                 InsertPlan(w, q) \/ InsertClone(w, q)
          PROVE  Kept(p)
      <3>1. CASE InsertPlan(w, q) BY <2>1, <2>2, <3>1, InsertPlanRow DEF InsertPlan
      <3>2. CASE InsertClone(w, q) BY <2>1, <2>2, <3>2, InsertCloneRow DEF InsertClone
      <3> QED BY <2>3, <3>1, <3>2
    <2>4. ASSUME NEW w \in Invocations, RestoreRow(w) PROVE Kept(p)
      <3>1. call[w].plan # p
        <4>1. ASSUME call[w].plan = p PROVE FALSE
          <5>1. Writes(w, p) /\ call[w].stage = "restore"
            BY <2>4, <4>1 DEF RestoreRow, Writes
          <5>2. plan[p].deleted BY <2>1, <5>1 DEF PlanSound, WriterSound
          <5> QED BY <1>1, <5>2 DEF Live
        <4> QED BY <4>1
      <3>2. plan'[p] = plan[p] BY <2>1, <2>4, <3>1, RestoreRows DEF SavedTypeOK
      <3> QED BY <3>2
    <2>5. ASSUME NEW u \in Users, NEW q \in Plans,
                 Delete(u, q) \/ \E public \in BOOLEAN : Share(u, q, public)
          PROVE  Kept(p)
      <3>1. /\ plan'[q].itinerary = plan[q].itinerary /\ plan'[q].hash = plan[q].hash
            /\ RowsKept /\ \A x \in Plans \ {q} : plan'[x] = plan[x]
        BY <2>1, <2>5, ShareRows, DeleteRows DEF RowsGood
      <3> QED BY <1>1, <3>1 DEF RowsKept, Live
    <2>6. CASE UNCHANGED plan BY <2>6
    <2> QED BY <1>1, <2>3, <2>4, <2>5, <2>6, NoRowStep
  <1>2. DamageInv /\ [Next]_vars =>
        [\A p \in Plans : Live(p) /\ p \notin damaged =>
           /\ plan'[p].owner = plan[p].owner
           /\ plan'[p].hash = plan[p].hash
           /\ plan'[p].itinerary = plan[p].itinerary]_vars
    BY <1>1
  <1> QED BY <1>2, DamageInvariant, PTL DEF Spec, LivePlansKept
-----------------------------------------------------------------------------
(* AgeGroupsOfTwo: of an eligible city, two users keep a plan of their own, *)
(* and what they keep is liked by somebody, who can only be themselves.     *)
LEMMA TwoOfMany ==
  ASSUME NEW T, Cardinality(T) >= 2
  PROVE  \E u, v \in T : u # v
  <1>1. T # {} BY FS_EmptySet
  <1>2. PICK u \in T : TRUE BY <1>1
  <1>3. T # {u} BY FS_Singleton
  <1> QED BY <1>2, <1>3

LEMMA LikedByOwner ==
  ASSUME LikesByOwner, NEW p \in Plans, Live(p), ReactionCount(p) > 0
  PROVE  p \in LikedPlans(plan[p].owner)
  <1>1. PICK T : T = {u \in Users : <<u, p>> \in likes} OBVIOUS
  <1>2. Cardinality(T) > 0 BY <1>1 DEF ReactionCount
  <1>3. T # {} BY <1>2, FS_EmptySet
  <1>4. PICK u \in Users : <<u, p>> \in likes BY <1>1, <1>3
  <1>5. plan[p].owner = u BY <1>4 DEF LikesByOwner
  <1> QED BY <1>4, <1>5 DEF LikedPlans

LEMMA FirstsOffered ==
  ASSUME NEW T, NEW ahead, DOMAIN ahead = T, NEW n, NEW S \in Firsts(ahead, n)
  PROVE  /\ S \subseteq T /\ Cardinality(S) = Fewest(n, Cardinality(T))
         /\ \A x \in S : ahead[x] \subseteq S
  BY DEF Firsts

THEOREM GroupsOfTwo == Spec => []AgeGroupsOfTwo
  <1>1. SavedInv => AgeGroupsOfTwo
    <2> SUFFICES ASSUME SavedInv, NEW S \in PopularSignals, NEW group,
                        NEW items \in AgeGroupItems(S, group), NEW city \in items
                 PROVE  \E u, v \in Users :
                          /\ u # v /\ AgeGroup(u) = group /\ AgeGroup(v) = group
                          /\ \A w \in {u, v} : \E p \in LikedPlans(w) :
                               plan[p].owner = w /\ Destination(p) = city
      BY DEF AgeGroupsOfTwo
    <2>1. \A p \in S : p \in Plans /\ Live(p) /\ ReactionCount(p) > 0
      BY FirstsOffered DEF PopularSignals
    <2>2. Eligible(Aggregate(S, group, city)) BY FirstsOffered DEF AgeGroupItems
    <2>3. \A p \in S : p \in LikedPlans(plan[p].owner) /\ plan[p].owner \in Users
      <3>1. SavedTypeOK /\ LikesByOwner BY DEF SavedInv
      <3>2. \A p \in S : plan[p] \in Rows BY <2>1, <3>1, PlanThere DEF Live
      <3> QED BY <2>1, <3>1, <3>2, LikedByOwner DEF Rows
    <2>4. PICK u, v \in UserIds(Aggregate(S, group, city)) : u # v
      BY <2>2, TwoOfMany DEF Eligible
    <2>5. \A w \in {u, v} : \E p \in S :
            plan[p].owner = w /\ AgeGroup(w) = group /\ Destination(p) = city
      BY DEF UserIds, Aggregate
    <2> QED BY <2>3, <2>4, <2>5
  <1> QED BY <1>1, SavedInvariant, PTL
-----------------------------------------------------------------------------
(* Every set of naturals that is not empty has a least element.             *)
LEMMA LeastNumber ==
  ASSUME NEW T \in SUBSET Nat, T # {}
  PROVE  \E n \in T : \A m \in T : n <= m
  <1>1. \E x \in T : \A y \in T : ~(<<y, x>> \in OpToRel(<, Nat))
    BY NatLessThanWellFounded, WFMin, Zenon
  <1>2. OpToRel(<, Nat) = {pair \in Nat \X Nat : pair[1] < pair[2]}
    BY Zenon DEF OpToRel
  <1>3. \A y, x \in Nat : y < x => <<y, x>> \in OpToRel(<, Nat)
    <2>1. \A y, x \in Nat :
            y < x => <<y, x>> \in {pair \in Nat \X Nat : pair[1] < pair[2]}
      OBVIOUS
    <2> QED BY <1>2, <2>1, Zenon
  <1>4. PICK x \in T : \A y \in T : ~(<<y, x>> \in OpToRel(<, Nat)) BY <1>1, Zenon
  <1>5. \A y \in T : ~(y < x) BY <1>3, <1>4, Zenon
  <1> QED BY <1>5

(* The candidates after each signal. *)
NoCandidates == [city \in Cities |-> [score |-> 0, signal |-> 0]]
Considered(before, s, k) ==
    [city \in Cities |->
       IF /\ Recommendable(city, s, k)
          /\ Score(city, s[k]) > before[city].score
         THEN [score |-> Score(city, s[k]), signal |-> k]
         ELSE before[city]]
Considers(f, s, n) ==
    f = [k \in 0 .. n |-> IF k = 0 THEN NoCandidates ELSE Considered(f[k - 1], s, k)]

LEMMA Considering ==
  ASSUME NEW s, NEW n \in Nat
  PROVE  \E f : Considers(f, s, n)
  <1> DEFINE Bad == {m \in Nat : ~\E f : Considers(f, s, m)}
  <1> SUFFICES ASSUME Bad # {} PROVE FALSE OBVIOUS
  <1>1. PICK m \in Bad : \A k \in Bad : m <= k BY LeastNumber
  <1>2. m \in Nat /\ ~\E f : Considers(f, s, m) OBVIOUS
  <1>3. CASE m = 0
    <2>1. Considers([k \in 0 .. 0 |-> NoCandidates], s, m) BY <1>3 DEF Considers
    <2> QED BY <1>2, <2>1
  <1>4. CASE m # 0
    <2>1. m - 1 \in Nat /\ m - 1 \notin Bad BY <1>1, <1>2, <1>4
    <2>2. PICK f : Considers(f, s, m - 1) BY <2>1
    <2> DEFINE g == [k \in 0 .. m |->
                       IF k = m THEN Considered(f[m - 1], s, m) ELSE f[k]]
    <2>3. \A k \in 0 .. m - 1 :
            f[k] = IF k = 0 THEN NoCandidates ELSE Considered(f[k - 1], s, k)
      BY <2>2 DEF Considers
    <2>4. \A k \in 0 .. m :
            g[k] = IF k = 0 THEN NoCandidates ELSE Considered(g[k - 1], s, k)
      <3> TAKE k \in 0 .. m
      <3>1. CASE k = m
        <4>1. g[m] = Considered(f[m - 1], s, m) /\ g[m - 1] = f[m - 1]
          BY <1>2, <1>4
        <4> QED BY <1>4, <3>1, <4>1
      <3>2. CASE k # m /\ k # 0
        <4>1. g[k] = f[k] /\ g[k - 1] = f[k - 1] /\ k \in 0 .. m - 1
          BY <1>2, <3>2
        <4> HIDE DEF g
        <4> QED BY <2>3, <3>2, <4>1
      <3>3. CASE k # m /\ k = 0
        <4>1. g[k] = f[k] /\ k \in 0 .. m - 1 BY <1>2, <3>3
        <4> HIDE DEF g
        <4> QED BY <2>3, <3>3, <4>1
      <3> QED BY <3>1, <3>2, <3>3
    <2>5. Considers(g, s, m)
      <3> DEFINE h == [k \in 0 .. m |->
                         IF k = 0 THEN NoCandidates ELSE Considered(g[k - 1], s, k)]
      <3>1. \A k \in 0 .. m : g[k] = h[k] BY <2>4
      <3>2. g = h BY <3>1
      <3> HIDE DEF g
      <3> QED BY <3>2 DEF Considers
    <2> QED BY <1>2, <2>5
  <1> QED BY <1>3, <1>4

LEMMA CandidatesConsidered ==
  ASSUME NEW s, Len(s) \in Nat
  PROVE  \E f : Considers(f, s, Len(s)) /\ Candidates(s) = f[Len(s)]
  <1> DEFINE F == CHOOSE f : Considers(f, s, Len(s))
  <1>1. Considers(F, s, Len(s)) BY Considering
  <1>2. Candidates(s) = F[Len(s)] BY DEF Candidates, Considers, Considered, NoCandidates
  <1> QED BY <1>1, <1>2

(* After n signals a candidate has the best of the scores they give it, and *)
(* the signal that gave it.                                                 *)
BestOf(x, city, s, n) ==
    /\ x.score \in Nat /\ x.signal \in 0 .. n
    /\ x.score > 0 =>
         /\ x.signal \in 1 .. n /\ Recommendable(city, s, x.signal)
         /\ x.score = Score(city, s[x.signal])
    /\ \A k \in 1 .. n : Recommendable(city, s, k) => Score(city, s[k]) <= x.score

LEMMA Scores ==
  ASSUME NEW city \in Cities, NEW p \in Plans, plan[p] \in Rows
  PROVE  Score(city, p) \in Nat
  <1>1. PICK T : T = Themes[city] \cap Themes[plan[p].hash] OBVIOUS
  <1>2. Cardinality(T) \in Nat
    BY <1>1, CatalogueAssumption, FS_Intersection, FS_CardinalityType
  <1>3. Score(city, p) = 30 * Cardinality(T) + (IF city \in Pictured THEN 4 ELSE 0)
    BY <1>1 DEF Score
  <1> QED BY <1>2, <1>3

LEMMA BestBegins ==
  ASSUME NEW city \in Cities, NEW s
  PROVE  BestOf(NoCandidates[city], city, s, 0)
  BY DEF BestOf, NoCandidates

LEMMA BestGoesOn ==
  ASSUME NEW city \in Cities, NEW s, NEW n \in Nat, NEW before,
         Score(city, s[n + 1]) \in Nat, BestOf(before[city], city, s, n),
         \A k \in 1 .. n : Score(city, s[k]) \in Nat
  PROVE  BestOf(Considered(before, s, n + 1)[city], city, s, n + 1)
  <1> DEFINE x == before[city]
             y == Considered(before, s, n + 1)[city]
  <1>1. \A k \in 1 .. n + 1 : k \in 1 .. n \/ k = n + 1 OBVIOUS
  <1>2. CASE Recommendable(city, s, n + 1) /\ Score(city, s[n + 1]) > x.score
    <2>1. y = [score |-> Score(city, s[n + 1]), signal |-> n + 1]
      BY <1>2 DEF Considered
    <2> HIDE DEF y
    <2>2. y.score = Score(city, s[n + 1]) /\ y.signal = n + 1 BY <2>1
    <2>3. \A k \in 1 .. n : Recommendable(city, s, k) => Score(city, s[k]) <= y.score
      BY <1>2, <2>2 DEF BestOf
    <2> QED BY <1>1, <1>2, <2>2, <2>3 DEF BestOf, y
  <1>3. CASE ~(Recommendable(city, s, n + 1) /\ Score(city, s[n + 1]) > x.score)
    <2>1. y = x BY <1>3 DEF Considered
    <2> HIDE DEF y
    <2> QED BY <1>1, <1>3, <2>1 DEF BestOf, y
  <1> QED BY <1>2, <1>3

(* Of the likes of a user, read as s, every candidate is the best.          *)
LEMMA CandidatesBest ==
  ASSUME SavedTypeOK, NEW s, NEW n \in Nat, Len(s) = n,
         \A k \in 1 .. n : s[k] \in Plans /\ plan[s[k]] \in Rows,
         NEW city \in Cities
  PROVE  BestOf(Candidates(s)[city], city, s, n)
  <1>1. PICK f : Considers(f, s, n) /\ Candidates(s) = f[n]
    BY CandidatesConsidered
  <1>2. \A k \in 0 .. n :
          f[k] = IF k = 0 THEN NoCandidates ELSE Considered(f[k - 1], s, k)
    BY <1>1 DEF Considers
  <1>3. \A k \in 1 .. n : Score(city, s[k]) \in Nat BY Scores
  <1> DEFINE Bad == {m \in Nat : m <= n /\ ~BestOf(f[m][city], city, s, m)}
  <1>4. SUFFICES ASSUME Bad # {} PROVE FALSE
    BY <1>1
  <1>5. PICK m \in Bad : \A k \in Bad : m <= k BY <1>4, LeastNumber
  <1>6. m \in Nat /\ m <= n /\ ~BestOf(f[m][city], city, s, m) BY <1>5
  <1>7. CASE m = 0
    <2>1. f[m] = NoCandidates BY <1>2, <1>6, <1>7
    <2> QED BY <1>6, <1>7, <2>1, BestBegins
  <1>8. CASE m # 0
    <2>1. PICK l \in Nat : m = l + 1 BY <1>6, <1>8
    <2>2. BestOf(f[l][city], city, s, l) BY <1>5, <1>6, <2>1
    <2>3. f[m] = Considered(f[l], s, l + 1) BY <1>2, <1>6, <2>1
    <2>4. /\ Score(city, s[l + 1]) \in Nat
          /\ \A k \in 1 .. l : Score(city, s[k]) \in Nat
      BY <1>3, <1>6, <2>1
    <2> QED BY <1>6, <2>1, <2>2, <2>3, <2>4, BestGoesOn
  <1> QED BY <1>7, <1>8

(* The page, in whatever order ties come.                                   *)
Offered(all) == {city \in Cities : all[city].score > 0}
Ahead(all) ==
    [city \in Offered(all) |-> {other \in Offered(all) :
       \/ all[other].score > all[city].score
       \/ all[other].score = all[city].score /\ all[other].signal < all[city].signal}]

LEMMA OnThePage ==
  ASSUME NEW s, NEW all, all = Candidates(s), NEW page \in ReactionCities(s),
         \A city \in Cities : all[city].score \in Nat
  PROVE  /\ page \subseteq Offered(all)
         /\ \A city \in page, other \in Cities \ page :
              all[other].score <= all[city].score
         /\ Cardinality(page) < Limit => page = Offered(all)
  <1>1. page \in Firsts(Ahead(all), Limit) BY DEF ReactionCities, Offered, Ahead
  <1>2. /\ page \subseteq Offered(all)
        /\ Cardinality(page) = Fewest(Limit, Cardinality(Offered(all)))
        /\ \A city \in page : Ahead(all)[city] \subseteq page
    <2>1. DOMAIN Ahead(all) = Offered(all) BY DEF Ahead
    <2> QED BY <1>1, <2>1, FirstsOffered
  <1>3. ASSUME NEW city \in page, NEW other \in Cities \ page
        PROVE  all[other].score <= all[city].score
    <2>1. city \in Cities /\ all[city].score > 0 BY <1>2 DEF Offered
    <2>2. CASE other \in Offered(all)
      <3>1. other \notin Ahead(all)[city] /\ city \in Offered(all) BY <1>2
      <3>2. ~(all[other].score > all[city].score) BY <2>2, <3>1 DEF Ahead
      <3> QED BY <2>1, <3>2
    <2>3. CASE other \notin Offered(all) BY <2>1, <2>3 DEF Offered
    <2> QED BY <2>2, <2>3
  <1>4. ASSUME Cardinality(page) < Limit PROVE page = Offered(all)
    <2>1. Offered(all) \in SUBSET Cities BY DEF Offered
    <2>2. IsFiniteSet(Offered(all)) /\ Cardinality(Offered(all)) \in Nat
      BY <2>1, CatalogueAssumption, FS_Subset, FS_CardinalityType
    <2>3. Cardinality(page) = Cardinality(Offered(all))
      BY <1>2, <1>4, <2>2, LimitsAssumption DEF Fewest
    <2> QED BY <1>2, <2>2, <2>3, FS_Subset
  <1> QED BY <1>2, <1>3, <1>4
-----------------------------------------------------------------------------
(* As many likes as the LIMIT are read, or all there are.                   *)
LEMMA LikesRead ==
  ASSUME NEW u, IsFiniteSet(LikedPlans(u)), NEW limit \in SignalLimits,
         NEW s \in LikedSignals(u, limit), NEW read, read = {s[k] : k \in DOMAIN s}
  PROVE  /\ read \subseteq LikedPlans(u)
         /\ Cardinality(read) = Fewest(limit, Cardinality(LikedPlans(u)))
         /\ Cardinality(LikedPlans(u)) <= limit => read = LikedPlans(u)
         /\ \E n \in Nat : Len(s) = n /\ DOMAIN s = 1 .. n
  <1>1. limit \in Nat /\ Cardinality(LikedPlans(u)) \in Nat
    BY FS_CardinalityType, LimitsAssumption
  <1>2. PICK n \in Nat : n = Fewest(limit, Cardinality(LikedPlans(u)))
    BY <1>1 DEF Fewest
  <1>3. /\ s \in [1 .. n -> LikedPlans(u)]
        /\ \A i, j \in 1 .. n : s[i] = s[j] => i = j
    BY <1>2 DEF LikedSignals
  <1>4. read \subseteq LikedPlans(u) BY <1>3
  <1>5. s \in Injection(1 .. n, read) BY <1>3 DEF Injection, IsInjective
  <1>6. s \in Surjection(1 .. n, read) BY <1>3, <1>5 DEF Injection, Surjection
  <1>7. IsFiniteSet(1 .. n) /\ Cardinality(1 .. n) = n BY FS_Interval
  <1>8. Cardinality(read) = n BY <1>5, <1>6, <1>7, FS_Surjection
  <1>9. Cardinality(LikedPlans(u)) <= limit => read = LikedPlans(u)
    BY <1>1, <1>2, <1>4, <1>8, FS_Subset DEF Fewest
  <1>10. Len(s) = n
    <2>1. s \in Seq(LikedPlans(u)) BY <1>3
    <2> QED BY <1>3, <2>1
  <1> QED BY <1>2, <1>3, <1>4, <1>8, <1>9, <1>10

(* A candidate is worth what the plans read make of it, and the cities of   *)
(* these plans are no candidates.                                           *)
LEMMA Worth ==
  ASSUME SavedTypeOK, NEW s, NEW n \in Nat, Len(s) = n, DOMAIN s = 1 .. n,
         NEW read, read = {s[k] : k \in DOMAIN s}, read \subseteq Plans,
         \A p \in read : plan[p] \in Rows, NEW city \in Cities
  PROVE  /\ Candidates(s)[city].score \in Nat
         /\ city \in Unvisited(read) => BestScore(read, city) = Candidates(s)[city].score
         /\ city \notin Unvisited(read) => Candidates(s)[city].score = 0
  <1>1. \A k \in 1 .. n : s[k] \in read OBVIOUS
  <1>2. PICK x : x = Candidates(s)[city] OBVIOUS
  <1>3. BestOf(x, city, s, n)
    <2>1. \A k \in 1 .. n : s[k] \in Plans /\ plan[s[k]] \in Rows BY <1>1
    <2> QED BY <1>2, <2>1, CandidatesBest
  <1>4. \A k \in 1 .. n : Recommendable(city, s, k) <=>
          city \in Unvisited(read) /\ SpeaksFor(s[k], city)
    BY <1>1 DEF Recommendable, Unvisited
  <1>5. CASE city \notin Unvisited(read) BY <1>2, <1>3, <1>4, <1>5 DEF BestOf
  <1>6. CASE city \in Unvisited(read)
    <2> DEFINE scores == {Score(city, p) : p \in {q \in read : SpeaksFor(q, city)}}
    <2>1. scores \subseteq Nat BY Scores
    <2>2. \A m \in scores : m <= x.score
      <3> TAKE m \in scores
      <3>1. PICK p \in read : SpeaksFor(p, city) /\ m = Score(city, p)
        OBVIOUS
      <3>2. PICK k \in 1 .. n : s[k] = p OBVIOUS
      <3> QED BY <1>3, <1>4, <1>6, <3>1, <3>2 DEF BestOf
    <2>3. x.score \in scores \cup {0}
      <3>1. CASE x.score > 0
        <4>1. /\ x.signal \in 1 .. n /\ Recommendable(city, s, x.signal)
              /\ x.score = Score(city, s[x.signal])
          BY <1>3, <3>1 DEF BestOf
        <4> QED BY <1>1, <1>4, <4>1
      <3>2. CASE ~(x.score > 0) BY <1>3, <3>2 DEF BestOf
      <3> QED BY <3>1, <3>2
    <2>4. BestScore(read, city) = CHOOSE m \in scores \cup {0} : \A l \in scores : l <= m
      BY DEF BestScore
    <2> HIDE DEF scores
    <2>5. \E m \in scores \cup {0} : \A l \in scores : l <= m BY <2>2, <2>3
    <2>6. /\ BestScore(read, city) \in scores \cup {0}
          /\ \A l \in scores : l <= BestScore(read, city)
      BY <2>4, <2>5
    <2>7. x.score \in Nat BY <1>3 DEF BestOf
    <2>8. BestScore(read, city) = x.score
      <3>1. PICK b \in scores \cup {0} :
              b = BestScore(read, city) /\ \A l \in scores : l <= b
        BY <2>6
      <3>2. PICK m \in scores \cup {0} : m = x.score BY <2>3
      <3>3. m <= b BY <2>1, <2>7, <3>1, <3>2
      <3>4. b <= m BY <2>1, <2>2, <2>7, <3>1, <3>2
      <3>5. b \in Nat /\ m \in Nat
        <4>1. b \in scores \/ b = 0 BY <3>1
        <4>2. m \in scores \/ m = 0 BY <3>2
        <4> QED BY <2>1, <4>1, <4>2
      <3>6. b = m BY <3>3, <3>4, <3>5
      <3> QED BY <3>1, <3>2, <3>6
    <2> QED BY <1>2, <1>3, <1>6, <2>8 DEF BestOf
  <1> QED BY <1>2, <1>3, <1>5, <1>6 DEF BestOf

LikesFinite == IsFiniteSet(likes)
LEMMA FiniteLikes == Spec => []LikesFinite
  <1>1. Init => LikesFinite BY FS_EmptySet DEF Init, LikesFinite
  <1>2. LikesFinite /\ [Next]_vars => LikesFinite'
    <2> SUFFICES ASSUME LikesFinite, [Next]_vars PROVE LikesFinite' OBVIOUS
    <2>1. \E pair : likes' \in SUBSET (likes \cup {pair})
      <3>1. ASSUME NEW w \in Invocations, SetLike(w)
            PROVE  likes' \subseteq likes \cup {<<call[w].user, call[w].plan>>}
        BY <3>1 DEF SetLike
      <3>2. CASE \A w \in Invocations : ~SetLike(w)
        BY <3>2 DEF Next, vars, Save, Clone, Like, Die, BeginSave,
           FindDeletedByKey, FindByHash, FindDeletedByHash, FoundDeleted, InsertPlan,
           InsertClone, Insert, RestoreRow, DuplicateRow, DeleteReactions, ClearItems,
           InsertItem, DuplicateItem, ReadSource, ReadSourceItems, DuplicateClone,
           ReadLiked, Delete, Share, UnchangedTables
      <3> QED BY <3>1, <3>2
    <2> QED BY <2>1, FS_AddElement, FS_Subset DEF LikesFinite
  <1> QED BY <1>1, <1>2, PTL DEF Spec

(* ReactionsFollowLikes: what the loop over the signals makes of the plans  *)
(* read is their best scores, in whatever order it reads them; a page holds *)
(* the best of those.  A city on it is that of no plan read, so a liked     *)
(* plan to it was cut off by as many others as the LIMIT.                   *)
THEOREM FeedFollowsLikes == Spec => []ReactionsFollowLikes
  <1>1. SavedTypeOK /\ LikesFinite => ReactionsFollowLikes
    <2> SUFFICES ASSUME SavedTypeOK, LikesFinite, NEW u \in Users,
                        NEW limit \in SignalLimits, NEW s \in LikedSignals(u, limit)
                 PROVE  LET liked == LikedPlans(u)
                            read == {s[i] : i \in DOMAIN s}
                        IN  /\ Cardinality(liked) <= limit => read = liked
                            /\ \A page \in ReactionCities(s) :
                                 /\ FollowsWhatWasRead(read, page)
                                 /\ \A p \in liked : Destination(p) \in page =>
                                      Cardinality({q \in liked :
                                        Destination(q) # Destination(p)}) >= limit
      BY DEF ReactionsFollowLikes
    <2>1. IsFiniteSet(LikedPlans(u))
      <3>1. PICK f : f = [p \in LikedPlans(u) |-> <<u, p>>] OBVIOUS
      <3>2. f \in [LikedPlans(u) -> likes] BY <3>1 DEF LikedPlans
      <3>3. \A p, q \in LikedPlans(u) : f[p] = f[q] => p = q BY <3>1
      <3>4. f \in Injection(LikedPlans(u), likes)
        BY <3>2, <3>3 DEF Injection, IsInjective
      <3> QED BY <3>4, FS_Injection DEF LikesFinite
    <2>2. \A p \in LikedPlans(u) : p \in Plans /\ plan[p] \in Rows
      BY PlanThere DEF LikedPlans, Live
    <2>3. PICK read : read = {s[i] : i \in DOMAIN s} OBVIOUS
    <2>4. PICK n \in Nat : Len(s) = n /\ DOMAIN s = 1 .. n BY <2>1, <2>3, LikesRead
    <2>5. /\ read \subseteq LikedPlans(u)
          /\ Cardinality(read) = Fewest(limit, Cardinality(LikedPlans(u)))
          /\ Cardinality(LikedPlans(u)) <= limit => read = LikedPlans(u)
      BY <2>1, <2>3, LikesRead
    <2>6. PICK all : all = Candidates(s) OBVIOUS
    <2>7. \A city \in Cities :
            /\ all[city].score \in Nat
            /\ city \in Unvisited(read) => BestScore(read, city) = all[city].score
            /\ city \notin Unvisited(read) => all[city].score = 0
      <3>1. read \subseteq Plans /\ \A p \in read : plan[p] \in Rows BY <2>2, <2>5
      <3> QED BY <2>3, <2>4, <2>6, <3>1, Worth
    <2>8. Unvisited(read) \subseteq Cities BY DEF Unvisited
    <2>9. ASSUME NEW page \in ReactionCities(s)
          PROVE  /\ FollowsWhatWasRead(read, page)
                 /\ page \subseteq Unvisited(read)
      <3>1. /\ page \subseteq Offered(all)
            /\ \A city \in page, other \in Cities \ page :
                 all[other].score <= all[city].score
            /\ Cardinality(page) < Limit => page = Offered(all)
        BY <2>6, <2>7, <2>9, OnThePage
      <3>2. page \subseteq {city \in Unvisited(read) : BestScore(read, city) > 0}
        BY <2>7, <3>1 DEF Offered
      <3>3. \A city \in page, other \in Unvisited(read) \ page :
              BestScore(read, other) <= BestScore(read, city)
        BY <2>7, <2>8, <3>1, <3>2
      <3>4. ASSUME Cardinality(page) < Limit, NEW other \in Unvisited(read) \ page
            PROVE  BestScore(read, other) = 0
        <4>1. other \in Cities /\ ~(all[other].score > 0)
          BY <2>8, <3>1, <3>4 DEF Offered
        <4> QED BY <2>7, <4>1
      <3> QED BY <3>2, <3>3, <3>4 DEF FollowsWhatWasRead
    <2>10. ASSUME NEW page \in ReactionCities(s), NEW p \in LikedPlans(u),
                  Destination(p) \in page
           PROVE  Cardinality({q \in LikedPlans(u) : Destination(q) # Destination(p)})
                    >= limit
      <3> DEFINE elsewhere == {q \in LikedPlans(u) : Destination(q) # Destination(p)}
      <3>1. Destination(p) \in Unvisited(read) BY <2>9, <2>10
      <3>2. read \in SUBSET elsewhere BY <2>5, <3>1 DEF Unvisited
      <3>3. p \notin read BY <3>2
      <3>4. Cardinality(read) = limit
        BY <2>1, <2>5, <2>10, <3>3, FS_CardinalityType, LimitsAssumption DEF Fewest
      <3>5. elsewhere \in SUBSET LikedPlans(u) OBVIOUS
      <3>6. IsFiniteSet(elsewhere) /\ Cardinality(elsewhere) \in Nat
        BY <2>1, <3>5, FS_Subset, FS_CardinalityType
      <3>7. Cardinality(read) <= Cardinality(elsewhere) BY <3>2, <3>6, FS_Subset
      <3> HIDE DEF elsewhere
      <3>8. limit \in Nat BY LimitsAssumption
      <3> QED BY <3>4, <3>6, <3>7, <3>8 DEF elsewhere
    <2> QED BY <2>3, <2>5, <2>9, <2>10
  <1> QED BY <1>1, SavedPlansTyped, FiniteLikes, PTL
=============================================================================
