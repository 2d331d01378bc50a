----------------------------- MODULE SavedPlans -----------------------------
(***************************************************************************)
(* RdsDataSavedPlanRepository: saving, restoring, cloning, sharing,        *)
(* deleting and liking itineraries.  Every statement commits on its own, so*)
(* a save is cut at each of its statements: four look-ups, the INSERT or   *)
(* the UPDATE that restores a deleted row, the DELETEs and one INSERT per  *)
(* itinerary item.  An invocation may die between any two of them.         *)
(*                                                                         *)
(* A client payload without its idempotency key is one value, a content:   *)
(* snapshot_hash is a hash of all of it, sourceRecommendationId and        *)
(* isPublic included, so two payloads with one hash are one content.  An   *)
(* itinerary says which content each of its positions (a day and a sort    *)
(* order) shows: only a clone's can differ from position to position.      *)
(* Nothing reads copied_from_itinerary_id back, which is left out: a clone *)
(* sets it, a client may, and a foreign key that refuses it ends the call  *)
(* where it might have died.                                               *)
(***************************************************************************)
EXTENDS Naturals, FiniteSets

CONSTANTS
    Users, Plans,       \* users.id and itineraries.id
    Keys,               \* idempotency keys clients use
    Contents,           \* payloads without their key
    Submits,            \* user -> the contents this user's client sends
    SharedContents,     \* contents with isPublic set
    Items,              \* number of itinerary items of a content
    Invocations,        \* Lambda invocations, one request each
    None                \* NULL

ASSUME SubmitsAssumption == Submits \in [Users -> SUBSET Contents]
ASSUME SharedAssumption == SharedContents \subseteq Contents
ASSUME ItemsAssumption == Items \in Nat \ {0}
ASSUME NullAssumption == None \notin Users \cup Contents \cup Keys \cup Plans

VARIABLES
    plan,       \* plan id -> row of itineraries, or NoRow
    item,       \* plan id -> position -> content of its itinerary_items row
    likes,      \* (user, plan) pairs of plan_reactions
    call,       \* invocation -> what it is doing, or Idle
    exposed,    \* contents that some public plan has shown
    damaged     \* plans a save left half written, or two saves wrote at once

vars == <<plan, item, likes, call, exposed, damaged>>

Positions == 1 .. Items
Itineraries == [Positions -> Contents \cup {None}]
NoItems == [n \in Positions |-> None]
NoRow == [owner |-> None]
Idle == [stage |-> "idle"]
Done == [stage |-> "done"]

(* _build_plan, _row_params *)
NewPlan(u, k, c) ==
    [owner |-> u, key |-> k, hash |-> c,
     itinerary |-> [n \in Positions |-> c],
     public |-> c \in SharedContents, deleted |-> FALSE]

Live(p) == plan[p] # NoRow /\ ~plan[p].deleted
Deleted(p) == plan[p] # NoRow /\ plan[p].deleted

(* _merge_itinerary_snapshot_with_item_rows: the rows decide which entries  *)
(* there are, unless there is no row at all.                                *)
Merged(itinerary, rows) == IF rows = NoItems THEN itinerary ELSE rows

(* uq_itinerary_user_idempotency and uq_itinerary_user_source_snapshot,     *)
(* which deleted rows occupy too.                                           *)
Unique(p, row) ==
    \A q \in Plans \ {p} : plan[q] # NoRow /\ plan[q].owner = row.owner =>
      /\ plan[q].hash # row.hash
      /\ row.key # None => plan[q].key # row.key

Shown(row) ==
    IF row.public
      THEN ({row.hash} \cup {row.itinerary[n] : n \in Positions}) \ {None}
      ELSE {}

(* The invocation is to write, or writes, the row and items of this plan. *)
Writes(w, p) ==
    /\ call[w].stage \in {"restore", "unlike", "clear", "items"}
    /\ call[w].plan = p
Contended(w, p) == \E v \in Invocations \ {w} : Writes(v, p)

Init ==
    /\ plan = [p \in Plans |-> NoRow]
    /\ item = [p \in Plans |-> NoItems]
    /\ likes = {}
    /\ call = [w \in Invocations |-> Idle]
    /\ exposed = {}
    /\ damaged = {}

Become(w, state) == call' = [call EXCEPT ![w] = state]
Goto(w, stage) == Become(w, [call[w] EXCEPT !.stage = stage])
UnchangedTables == UNCHANGED <<plan, item, likes, exposed, damaged>>
-----------------------------------------------------------------------------
(* save: the look-ups *)
SaveCall(stage, u, k, c) ==
    [stage |-> stage, user |-> u, key |-> k, content |-> c, plan |-> None]

(* _find_by_idempotency_key finds nothing, or there is no key.  When it     *)
(* finds a live plan the answer is that plan, or 409 if its hash differs,   *)
(* and nothing is written.                                                  *)
BeginSave(w, u, k, c) ==
    /\ call[w] = Idle
    /\ c \in Submits[u]
    /\ \A p \in Plans : Live(p) /\ plan[p].owner = u =>
         k = None \/ plan[p].key # k
    /\ Become(w, SaveCall(IF k = None THEN "by_hash" ELSE "deleted_by_key", u, k, c))
    /\ UnchangedTables

(* The look-up of deleted rows forgets AND deleted_at IS NOT NULL. *)
BugAnyRow(p) == plan[p] # NoRow
Restorable(p) == Deleted(p)

(* A deleted row was found: the save goes on to restore it.                 *)
FoundDeleted(w, p) ==
    /\ Restorable(p)
    /\ plan[p].owner = call[w].user
    /\ Become(w, [call[w] EXCEPT !.stage = "restore", !.plan = p])
    /\ damaged' = IF Contended(w, p) THEN damaged \cup {p} ELSE damaged
    /\ UNCHANGED <<plan, item, likes, exposed>>

FindDeletedByKey(w) ==
    /\ call[w].stage = "deleted_by_key"
    /\ \/ \E p \in Plans : plan[p] # NoRow /\ plan[p].key = call[w].key
                           /\ FoundDeleted(w, p)
       \/ /\ \A p \in Plans : Restorable(p) /\ plan[p].owner = call[w].user =>
               plan[p].key # call[w].key
          /\ Goto(w, "by_hash")
          /\ UnchangedTables

(* A live plan with this hash is the answer. *)
FindByHash(w) ==
    /\ call[w].stage = "by_hash"
    /\ \/ /\ \E p \in Plans : Live(p) /\ plan[p].owner = call[w].user
                              /\ plan[p].hash = call[w].content
          /\ Become(w, Done)
       \/ /\ \A p \in Plans : Live(p) /\ plan[p].owner = call[w].user =>
               plan[p].hash # call[w].content
          /\ Goto(w, "deleted_by_hash")
    /\ UnchangedTables

FindDeletedByHash(w) ==
    /\ call[w].stage = "deleted_by_hash"
    /\ \/ \E p \in Plans : plan[p] # NoRow /\ plan[p].hash = call[w].content
                           /\ FoundDeleted(w, p)
       \/ /\ \A p \in Plans : Restorable(p) /\ plan[p].owner = call[w].user =>
               plan[p].hash # call[w].content
          /\ Goto(w, "insert")
          /\ UnchangedTables
-----------------------------------------------------------------------------
(* save and clone_itinerary: the writes *)
WriteItems(p, itinerary) ==
    [stage |-> "items", plan |-> p, itinerary |-> itinerary, next |-> 1]

Insert(w, p, row) ==
    /\ plan[p] = NoRow
    /\ Unique(p, row)
    /\ plan' = [plan EXCEPT ![p] = row]
    /\ exposed' = exposed \cup Shown(row)
    /\ Become(w, WriteItems(p, row.itinerary))
    /\ UNCHANGED <<item, likes, damaged>>

NewRow(w) == NewPlan(call[w].user, call[w].key, call[w].content)

InsertPlan(w, p) == call[w].stage = "insert" /\ Insert(w, p, NewRow(w))

(* UPDATE ... SET deleted_at = NULL WHERE id = :id AND user_id = :user_id *)
RestoreRow(w) ==
    LET p == call[w].plan IN
    /\ call[w].stage = "restore"
    /\ Unique(p, NewRow(w))
    /\ plan' = [plan EXCEPT ![p] = NewRow(w)]
    /\ exposed' = exposed \cup Shown(NewRow(w))
    /\ Goto(w, "unlike")
    /\ UNCHANGED <<item, likes, damaged>>

(* The INSERT or the UPDATE meets a unique key: 500, nothing written.       *)
DuplicateRow(w) ==
    /\ \/ /\ call[w].stage = "insert"
          /\ \E p \in Plans : plan[p] = NoRow /\ ~Unique(p, NewRow(w))
       \/ /\ call[w].stage = "restore"
          /\ ~Unique(call[w].plan, NewRow(w))
    /\ Become(w, Done)
    /\ UnchangedTables

(* _delete_reactions *)
DeleteReactions(w) ==
    /\ call[w].stage = "unlike"
    /\ likes' = likes \ {<<call[w].user, call[w].plan>>}
    /\ Goto(w, "clear")
    /\ UNCHANGED <<plan, item, exposed, damaged>>

(* _restore leaves the rows of the deleted plan in place. *)
BugKeepItems(w) ==
    /\ call[w].stage = "clear"
    /\ Become(w, Done)
    /\ UnchangedTables

(* _replace_itinerary_items: the DELETE *)
ClearItems(w) ==
    LET p == call[w].plan IN
    /\ call[w].stage = "clear"
    /\ item' = [item EXCEPT ![p] = NoItems]
    /\ Become(w, WriteItems(p, NewRow(w).itinerary))
    /\ UNCHANGED <<plan, likes, exposed, damaged>>

(* The loop over _item_rows runs one past the end. *)
BugPastTheEnd(n) == n > Items
LastItem(n) == n = Items

(* _insert_itinerary_items: one INSERT per entry of the itinerary.          *)
InsertItem(w) ==
    LET p == call[w].plan
        n == call[w].next
    IN  /\ call[w].stage = "items"
        /\ call[w].itinerary[n] # None => item[p][n] = None
        /\ item' = [item EXCEPT
             ![p][n] = IF call[w].itinerary[n] = None THEN @ ELSE call[w].itinerary[n]]
        /\ Become(w, IF LastItem(n) THEN Done ELSE [call[w] EXCEPT !.next = n + 1])
        /\ UNCHANGED <<plan, likes, exposed, damaged>>

(* uq_item_day_order: another save has put a row at this position.          *)
DuplicateItem(w) ==
    LET p == call[w].plan IN
    /\ call[w].stage = "items"
    /\ call[w].itinerary[call[w].next] # None
    /\ item[p][call[w].next] # None
    /\ Become(w, Done)
    /\ damaged' = damaged \cup {p}
    /\ UNCHANGED <<plan, item, likes, exposed>>
-----------------------------------------------------------------------------
(* clone_itinerary: get_public_or_owned is two SELECTs, row then items.     *)
BugCloneAnything(u, p) == Live(p)
Visible(u, p) == Live(p) /\ (plan[p].owner = u \/ plan[p].public)

ReadSource(w, u, p) ==
    /\ call[w] = Idle
    /\ Visible(u, p)
    /\ Become(w, [stage |-> "source", user |-> u, source |-> p,
                  hash |-> plan[p].hash, itinerary |-> plan[p].itinerary])
    /\ UnchangedTables

ReadSourceItems(w) ==
    /\ call[w].stage = "source"
    /\ Become(w, [call[w] EXCEPT !.stage = "clone",
                    !.itinerary = Merged(@, item[call[w].source])])
    /\ UnchangedTables

CloneRow(c) ==
    [owner |-> c.user, key |-> None, hash |-> c.hash, itinerary |-> c.itinerary,
     public |-> FALSE, deleted |-> FALSE]

InsertClone(w, p) == call[w].stage = "clone" /\ Insert(w, p, CloneRow(call[w]))

(* The user has this snapshot already, if only as a deleted row or as the   *)
(* plan being cloned: 500.                                                  *)
DuplicateClone(w) ==
    /\ call[w].stage = "clone"
    /\ \E p \in Plans : plan[p] = NoRow /\ ~Unique(p, CloneRow(call[w]))
    /\ Become(w, Done)
    /\ UnchangedTables
-----------------------------------------------------------------------------
(* update_share_status and delete_owned: their UPDATEs check the owner and  *)
(* deleted_at again, so what they read before does not matter.              *)
Share(u, p, public) ==
    /\ Live(p) /\ plan[p].owner = u
    /\ plan' = [plan EXCEPT ![p].public = public]
    /\ exposed' = exposed \cup Shown([plan[p] EXCEPT !.public = public])
    /\ UNCHANGED <<item, likes, call, damaged>>

Delete(u, p) ==
    /\ Live(p) /\ plan[p].owner = u
    /\ plan' = [plan EXCEPT ![p].deleted = TRUE]
    /\ UNCHANGED <<item, likes, call, exposed, damaged>>

(* set_like with the look-up of a detail page. *)
BugLikeVisible(u, p) == Visible(u, p)
Likeable(u, p) == Live(p) /\ plan[p].owner = u

(* set_like: get_owned, then the INSERT or the DELETE, whatever has become  *)
(* of the plan.                                                             *)
ReadLiked(w, u, p, liked) ==
    /\ call[w] = Idle
    /\ Likeable(u, p)
    /\ Become(w, [stage |-> "like", user |-> u, plan |-> p, liked |-> liked])
    /\ UnchangedTables

SetLike(w) ==
    LET pair == <<call[w].user, call[w].plan>> IN
    /\ call[w].stage = "like"
    /\ likes' = IF call[w].liked THEN likes \cup {pair} ELSE likes \ {pair}
    /\ Become(w, Done)
    /\ UNCHANGED <<plan, item, exposed, damaged>>

(* The invocation dies; if it had begun to write a plan, half of it stays.  *)
Die(w) ==
    /\ call[w] \notin {Idle, Done}
    /\ Become(w, Done)
    /\ damaged' = IF call[w].stage \in {"unlike", "clear", "items"}
                    THEN damaged \cup {call[w].plan} ELSE damaged
    /\ UNCHANGED <<plan, item, likes, exposed>>

Save(w) ==
    \/ \E u \in Users, k \in Keys \cup {None}, c \in Contents : BeginSave(w, u, k, c)
    \/ FindDeletedByKey(w) \/ FindByHash(w) \/ FindDeletedByHash(w)
    \/ \E p \in Plans : InsertPlan(w, p)
    \/ RestoreRow(w) \/ DuplicateRow(w)
    \/ DeleteReactions(w) \/ ClearItems(w) \/ InsertItem(w) \/ DuplicateItem(w)

Clone(w) ==
    \/ \E u \in Users, p \in Plans : ReadSource(w, u, p)
    \/ ReadSourceItems(w) \/ DuplicateClone(w)
    \/ \E p \in Plans : InsertClone(w, p)

Like(w) ==
    \/ \E u \in Users, p \in Plans, liked \in BOOLEAN : ReadLiked(w, u, p, liked)
    \/ SetLike(w)

Next ==
    \/ \E w \in Invocations : Save(w) \/ Clone(w) \/ Like(w) \/ Die(w)
    \/ \E u \in Users, p \in Plans :
         Delete(u, p) \/ \E public \in BOOLEAN : Share(u, p, public)

Spec == Init /\ [][Next]_vars
-----------------------------------------------------------------------------
(* Properties *)
Rows ==
    [owner : Users, key : Keys \cup {None}, hash : Contents,
     itinerary : Itineraries, public : BOOLEAN, deleted : BOOLEAN]
SaveCalls ==
    [stage : {"deleted_by_key", "by_hash", "deleted_by_hash", "insert"},
     user : Users, key : Keys \cup {None}, content : Contents, plan : {None}]
RestoreCalls ==
    [stage : {"restore", "unlike", "clear"},
     user : Users, key : Keys \cup {None}, content : Contents, plan : Plans]
Calls ==
    {Idle, Done} \cup SaveCalls \cup RestoreCalls
      \cup [stage : {"items"}, plan : Plans, itinerary : Itineraries,
            next : Positions]
      \cup [stage : {"source", "clone"}, user : Users, source : Plans,
            hash : Contents, itinerary : Itineraries]
      \cup [stage : {"like"}, user : Users, plan : Plans, liked : BOOLEAN]

(* Type invariant: the three tables and what each invocation holds.         *)
SavedTypeOK ==
    /\ plan \in [Plans -> {NoRow} \cup Rows]
    /\ item \in [Plans -> Itineraries]
    /\ likes \subseteq Users \X Plans
    /\ call \in [Invocations -> Calls]
    /\ exposed \subseteq Contents
    /\ damaged \subseteq Plans

(* A reader is shown what was saved: once no save is at work on a plan, its *)
(* item rows are its itinerary, through any sequence of deletes, restores   *)
(* with other contents and clones, unless a save of it died or failed half  *)
(* way or two saves of it overlapped.                                       *)
BeingWritten(p) ==
    \E w \in Invocations : Writes(w, p) /\ call[w].stage # "restore"
ItemsFollowPlan ==
    \A p \in Plans \ damaged :
      plan[p] # NoRow /\ ~BeingWritten(p) => item[p] = plan[p].itinerary

(* What nobody made public stays its owner's: a plan is of a snapshot that  *)
(* its owner submitted or that some public plan has shown, although a clone *)
(* is inserted two statements after the source was found to be public.      *)
(* (Of the snapshot only: the items a clone reads with its second statement *)
(* may be those of a restore in between, which nobody made public.)         *)
PrivateStaysPrivate ==
    \A p \in Plans : plan[p] # NoRow =>
      plan[p].hash \in Submits[plan[p].owner] \cup exposed

(* Only its owner likes a plan, whatever became of the plan since set_like  *)
(* looked it up.                                                            *)
LikesByOwner ==
    \A pair \in likes :
      plan[pair[2]] # NoRow /\ plan[pair[2]].owner = pair[1]

(* A plan its owner can see is never overwritten: a save with its key or its*)
(* hash answers it or is refused, and only a deleted row is restored over,  *)
(* unless two saves restored it at once.                                    *)
LivePlansKept ==
    [][\A p \in Plans : Live(p) /\ p \notin damaged =>
         /\ plan'[p].owner = plan[p].owner
         /\ plan'[p].hash = plan[p].hash
         /\ plan'[p].itinerary = plan[p].itinerary]_vars
=============================================================================
