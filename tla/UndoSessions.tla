---------------------------- MODULE UndoSessions ----------------------------
(***************************************************************************)
(* What the undo/session manager promises (spec sections 4.2 and 8),      *)
(* stated without delta logs: a session remembers the whole database as   *)
(* it was when the session started.  Any change may happen to the         *)
(* database while sessions are open; committing the top session forgets   *)
(* its snapshot (the enclosing session still rolls back to its own one);  *)
(* undoing it restores the snapshot exactly, objects, secondary indexes   *)
(* and next-instance counter alike.                                        *)
(***************************************************************************)
EXTENDS Naturals, Sequences

CONSTANTS
    DbStates,    \* the database images
    MaxDepth     \* bound on nested sessions

VARIABLES
    db,      \* the current database image
    snaps    \* one snapshot per open session, outermost first

Init ==
    /\ db \in DbStates
    /\ snaps = <<>>

StartSession ==
    /\ Len(snaps) < MaxDepth
    /\ snaps' = Append(snaps, db)
    /\ UNCHANGED db

Change ==
    /\ db' \in DbStates
    /\ UNCHANGED snaps

Commit ==
    /\ snaps # <<>>
    /\ snaps' = SubSeq(snaps, 1, Len(snaps) - 1)
    /\ UNCHANGED db

Undo ==
    /\ snaps # <<>>
    /\ db' = snaps[Len(snaps)]
    /\ snaps' = SubSeq(snaps, 1, Len(snaps) - 1)

Next == StartSession \/ Change \/ Commit \/ Undo

Spec == Init /\ [][Next]_<<db, snaps>>

=============================================================================
