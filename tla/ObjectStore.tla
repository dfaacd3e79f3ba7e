---------------------------- MODULE ObjectStore ----------------------------
(***************************************************************************)
(* The message index of the object database with its undo sessions and    *)
(* the message_receiver_index secondary index (message_object.cpp), and   *)
(* messaging_api::get_message_objects (api.cpp), which reads them.         *)
(*                                                                         *)
(* object_database forwards every create, modify and remove to            *)
(* undo_database (save_undo_add, save_undo, save_undo_remove); the        *)
(* primary index and undo_database are not part of the repository, so the *)
(* store, the sessions and their delta logs follow the spec (sections 4.1  *)
(* and 4.2): each mutation runs the secondary index's hook and, while a    *)
(* session is open, appends an entry to the top session's log; undo       *)
(* replays the log in reverse through the same index operations, so the   *)
(* hooks run again; commit merges the top log into the enclosing one.      *)
(* A message_object is abstracted to its sender and its set of receivers. *)
(***************************************************************************)
EXTENDS Integers, Sequences, SequencesExt

CONSTANTS
    Accounts,    \* account ids
    MaxId,       \* bound on allocated instance ids
    MaxDepth,    \* bound on nested sessions
    MaxLog,      \* bound on the undo entries of all open sessions
    MaxCounts,   \* max_count values a query asks for
    NoAccount,   \* an absent fc::optional<account_id_type>
    Messages     \* the message images the evaluators write

Ids == 0..(MaxId - 1)

Message == [sender : Accounts, receivers : SUBSET Accounts]

ASSUME Messages \subseteq Message

VARIABLES
    store,     \* the message index: instance id -> message_object
    nextId,    \* the index's next instance id
    members,   \* message_to_receiver_memberships
    sessions   \* open sessions, outermost first: [next, log]

vars == <<store, nextId, members, sessions>>

LogLen == FoldLeft(LAMBDA acc, s : acc + Len(s.log), 0, sessions)

\* save_undo_add / save_undo / save_undo_remove: the undo entry goes to
\* the top session's log, and nowhere when no session is open.
SaveUndo(e) ==
    IF sessions = <<>> THEN sessions
    ELSE [sessions EXCEPT ![Len(sessions)].log = Append(@, e)]

(***************************************************************************)
(* message_receiver_index hooks.                                           *)
(***************************************************************************)

\* object_inserted: add the id to the membership set of every receiver.
ObjectInserted(m, id, obj) == [a \in Accounts |-> IF a \in obj.receivers THEN m[a] \cup {id} ELSE m[a]]

\* object_removed: erase the id from the set of every receiver.
ObjectRemoved(m, id, obj) == [a \in Accounts |-> IF a \in obj.receivers THEN m[a] \ {id} ELSE m[a]]

\* about_to_modify and object_modified have empty bodies.
ObjectModified(m, before, after) == m

(***************************************************************************)
(* Index operations, on an image [store, members].                         *)
(***************************************************************************)

IndexInsert(img, id, obj) ==
    [store |-> (id :> obj) @@ img.store, members |-> ObjectInserted(img.members, id, obj)]

IndexRemove(img, id) ==
    [store |-> [i \in DOMAIN img.store \ {id} |-> img.store[i]],
     members |-> ObjectRemoved(img.members, id, img.store[id])]

IndexModify(img, id, obj) ==
    [store |-> [img.store EXCEPT ![id] = obj],
     members |-> ObjectModified(img.members, img.store[id], obj)]

TypeOK ==
    /\ DOMAIN store \subseteq 0..(nextId - 1)
    /\ store \in [DOMAIN store -> Message]
    /\ nextId \in 0..MaxId
    /\ members \in [Accounts -> SUBSET Ids]
    /\ sessions \in Seq([next : 0..MaxId, log : Seq([kind : {"created", "modified", "removed"},
                                                      id : Ids, old : Message \cup {<<>>}])])

Init ==
    /\ store = <<>>
    /\ nextId = 0
    /\ members = [a \in Accounts |-> {}]
    /\ sessions = <<>>

(***************************************************************************)
(* Mutations (the message evaluators' db.create/modify/remove).            *)
(***************************************************************************)

Create(obj) ==
    /\ nextId < MaxId
    /\ LogLen < MaxLog
    /\ LET img == IndexInsert([store |-> store, members |-> members], nextId, obj)
       IN  /\ store' = img.store
           /\ members' = img.members
    /\ nextId' = nextId + 1
    /\ sessions' = SaveUndo([kind |-> "created", id |-> nextId, old |-> <<>>])

Modify(id, obj) ==
    /\ id \in DOMAIN store
    /\ LogLen < MaxLog
    /\ LET img == IndexModify([store |-> store, members |-> members], id, obj)
       IN  /\ store' = img.store
           /\ members' = img.members
    /\ sessions' = SaveUndo([kind |-> "modified", id |-> id, old |-> store[id]])
    /\ UNCHANGED nextId

RemoveObject(id) ==
    /\ id \in DOMAIN store
    /\ LogLen < MaxLog
    /\ LET img == IndexRemove([store |-> store, members |-> members], id)
       IN  /\ store' = img.store
           /\ members' = img.members
    /\ sessions' = SaveUndo([kind |-> "removed", id |-> id, old |-> store[id]])
    /\ UNCHANGED nextId

(***************************************************************************)
(* Sessions.                                                               *)
(***************************************************************************)

StartSession ==
    /\ Len(sessions) < MaxDepth
    /\ sessions' = Append(sessions, [next |-> nextId, log |-> <<>>])
    /\ UNCHANGED <<store, nextId, members>>

\* Reverting one entry: delete what it created, restore the image it
\* modified, re-insert what it removed under the same id.
UndoEntry(e, img) ==
    CASE e.kind = "created"  -> IndexRemove(img, e.id)
      [] e.kind = "modified" -> IndexModify(img, e.id, e.old)
      [] e.kind = "removed"  -> IndexInsert(img, e.id, e.old)

\* The log replayed newest entry first.
RevertLog(log, img) == FoldRight(UndoEntry, log, img)

\* The database image the sessions from the k-th up roll back to.
RollbackTo(k) ==
    LET img == FoldRight(LAMBDA s, acc : RevertLog(s.log, acc), SubSeq(sessions, k, Len(sessions)),
                         [store |-> store, members |-> members])
    IN  [store |-> img.store, next |-> sessions[k].next, members |-> img.members]

Undo ==
    /\ sessions # <<>>
    /\ LET img == RevertLog(sessions[Len(sessions)].log, [store |-> store, members |-> members])
       IN  /\ store' = img.store
           /\ members' = img.members
    /\ nextId' = sessions[Len(sessions)].next
    /\ sessions' = SubSeq(sessions, 1, Len(sessions) - 1)

\* Commit: the top log joins the enclosing session's, or is dropped when
\* the outermost session commits.
Commit ==
    /\ sessions # <<>>
    /\ sessions' = IF Len(sessions) = 1 THEN <<>>
                   ELSE [SubSeq(sessions, 1, Len(sessions) - 1) EXCEPT
                            ![Len(sessions) - 1].log = @ \o sessions[Len(sessions)].log]
    /\ UNCHANGED <<store, nextId, members>>

Next ==
    \/ \E obj \in Messages : Create(obj)
    \/ \E id \in Ids, obj \in Messages : Modify(id, obj)
    \/ \E id \in Ids : RemoveObject(id)
    \/ StartSession
    \/ Undo
    \/ Commit

Spec == Init /\ [][Next]_vars

(***************************************************************************)
(* messaging_api::get_message_objects with a receiver: the receiver's     *)
(* membership set, newest id first, skipping ids no longer in the index   *)
(* and, when a sender is given, messages of other senders; at most        *)
(* max_count results.                                                      *)
(***************************************************************************)

Matches(id, sender) == id \in DOMAIN store /\ (sender = NoAccount \/ store[id].sender = sender)

FirstAtMost(seq, n) == SubSeq(seq, 1, IF n < Len(seq) THEN n ELSE Len(seq))

FindMessageObjects(objs, maxCount, sender) ==
    FirstAtMost(SelectSeq(SetToSortSeq(objs, >), LAMBDA id : Matches(id, sender)), maxCount)

GetMessageObjects(sender, receiver, maxCount) == FindMessageObjects(members[receiver], maxCount, sender)

\* The messages addressed to receiver, newest first.
RefReceiverQuery(sender, receiver, maxCount) ==
    FirstAtMost(SetToSortSeq({id \in DOMAIN store : receiver \in store[id].receivers /\ Matches(id, sender)}, >),
                maxCount)

(***************************************************************************)
(* The sessions' snapshots are what their logs roll back to.              *)
(***************************************************************************)

DbImages == [store : UNION {[D -> Message] : D \in SUBSET Ids}, next : 0..MaxId,
             members : [Accounts -> SUBSET Ids]]

AbsWithSecondary == INSTANCE UndoSessions WITH
                        DbStates <- DbImages,
                        db <- [store |-> store, next |-> nextId, members |-> members],
                        snaps <- [k \in 1..Len(sessions) |-> RollbackTo(k)]

(***************************************************************************)
(* Properties                                                              *)
(***************************************************************************)

\* Undoing a session, after any interleaving of creates, modifies,
\* removes, nested sessions and commits, restores the objects, the next
\* instance id and message_to_receiver_memberships as they were when the
\* session started (spec 8, idempotent rollback "including secondary-index
\* contents"): the delta logs, replayed through the index hooks, implement
\* UndoSessions.
UndoRestoresSecondaryIndex == AbsWithSecondary!Spec

\* get_message_objects(sender, receiver, max_count) returns exactly the
\* stored messages addressed to receiver (from sender, if given), newest
\* first: message_to_receiver_memberships is never stale (spec 4.1).
ReceiverQueryMatches ==
    \A r \in Accounts, s \in Accounts \cup {NoAccount}, m \in MaxCounts :
        GetMessageObjects(s, r, m) = RefReceiverQuery(s, r, m)

=============================================================================
