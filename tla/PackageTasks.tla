---------------------------- MODULE PackageTasks ----------------------------
(***************************************************************************)
(* One PackageInfo of package.cpp and the tasks its methods start: create, *)
(* unpack, check and remove each set _current_task and start it; the task  *)
(* runs on its own thread and moves the package's data and manipulation    *)
(* states (the PACKAGE_INFO_CHANGE_* macros, under PackageInfo::_mutex)    *)
(* while it works on the package directory.                                *)
(*                                                                         *)
(* PackageTask (start, stop, the destructor, PACKAGE_TASK_EXIT_IF_REQUESTED)*)
(* is declared in package/detail.hpp, which is not in the repository.      *)
(* start(false) runs task() on a new thread; stop() requests the stop and  *)
(* waits for the thread.  What is unknown is chosen in Init:               *)
(*   - exitMode: the exit macro returns, or throws into the task's catch;  *)
(*   - destructor: a task dropped by _current_task.reset is stopped and    *)
(*     joined ("stop"), or its thread keeps running ("detach").            *)
(* The create task is also held by _create_task, so replacing it never    *)
(* destroys it.  The content file is abstracted to the hash of what is on  *)
(* disk: "absent", "partial" (a failed copy or removal) or a hash.         *)
(* Calls are made with block = false; a blocking call is one that waits    *)
(* for its task, which the model also contains.                            *)
(***************************************************************************)
EXTENDS Integers, FiniteSets

CONSTANTS
    MaxStarts,      \* bound on the tasks started
    ExitModes,      \* "throw" and/or "return"
    Destructors,    \* "stop" and/or "detach"
    RemoveAllFails, \* whether remove_all may throw
    NoTask          \* _current_task is empty

\* Slot CreateSlot is the task _create_task holds; the others are the
\* tasks unpack, check and remove allocate.
CreateSlot == 0

Slots == 0..MaxStarts

Hashes == {"h0", "h1"}   \* h0: a package restored by hash; h1: what create produces

VARIABLES
    data,        \* _data_state
    manip,       \* _manipulation_state
    disk,        \* the package directory's content: "absent", "partial" or a hash
    pkgHash,     \* _hash ("none" before create computes it)
    prepared,    \* whether _create_task exists
    tasks,       \* slot -> [kind, pc, stop, seen]
    current,     \* _current_task: a slot or NoTask
    waiting,     \* the caller blocked in stop(): [slot, op] or NoTask
    starts,      \* tasks started so far
    exitMode, destructor

vars == <<data, manip, disk, pkgHash, prepared, tasks, current, waiting, starts, exitMode, destructor>>

Idle == [kind |-> "none", pc |-> "none", stop |-> FALSE, seen |-> "absent"]

Running(s) == tasks[s].pc \notin {"none", "done"}

Quiescent == \A s \in Slots : ~Running(s)

TypeOK ==
    /\ data \in {"DS_UNINITIALIZED", "PARTIAL", "CHECKED", "INVALID"}
    /\ manip \in {"MS_IDLE", "PACKING", "ENCRYPTING", "STAGING", "DECRYPTING", "UNPACKING",
                  "CHECKING", "DELETTING"}
    /\ disk \in {"absent", "partial"} \cup Hashes
    /\ pkgHash \in Hashes \cup {"none"}
    /\ current \in Slots \cup {NoTask}
    /\ starts \in 0..MaxStarts
    /\ waiting = NoTask \/ waiting.slot \in Slots
    /\ \A s \in Slots : tasks[s].seen \in {"absent", "partial"} \cup Hashes

\* A PackageInfo made for creation (content and samples paths, key), or
\* one restored by hash whose constructor checked it (lines 544-597).
Init ==
    /\ \/ /\ data = "DS_UNINITIALIZED" /\ disk = "absent" /\ pkgHash = "none" /\ prepared = TRUE
       \/ /\ data = "CHECKED" /\ disk = "h0" /\ pkgHash = "h0" /\ prepared = FALSE
    /\ manip = "MS_IDLE"
    /\ tasks = [s \in Slots |-> Idle]
    /\ current = NoTask
    /\ waiting = NoTask
    /\ starts = 0
    /\ exitMode \in ExitModes
    /\ destructor \in Destructors

(***************************************************************************)
(* Task steps.  Each step runs from one PACKAGE_TASK_EXIT_IF_REQUESTED or  *)
(* state change to the next.                                               *)
(***************************************************************************)

Goto(s, pc) == tasks' = [tasks EXCEPT ![s].pc = pc]

Finish(s) == Goto(s, "done")

\* The create task's catch blocks: unlock_dir, INVALID, MS_IDLE, rethrow.
CreateFailed(s) ==
    /\ data' = "INVALID" /\ manip' = "MS_IDLE" /\ Finish(s)
    /\ UNCHANGED <<disk, pkgHash>>

\* Mutant: the unpack catch blocks leave the manipulation state as it is.
UnpackFailedKeepsState(s) ==
    /\ Finish(s) /\ UNCHANGED <<data, manip, disk, pkgHash>>

\* The unpack task's catch blocks: MS_IDLE (INVALID is commented out).
UnpackFailed(s) ==
    /\ manip' = "MS_IDLE" /\ Finish(s)
    /\ UNCHANGED <<data, disk, pkgHash>>

\* The check task's catch blocks: INVALID, MS_IDLE.
CheckFailed(s) == CreateFailed(s)

\* PACKAGE_TASK_EXIT_IF_REQUESTED inside a task's try block: a return ends
\* the task where it is; a throw lands in the catch blocks.
ExitInTry(s, failed) ==
    /\ tasks[s].stop
    /\ IF exitMode = "return"
       THEN Finish(s) /\ UNCHANGED <<data, manip, disk, pkgHash>>
       ELSE failed

\* A step that passes the exit test and then either completes or throws.
Passes(s) == ~tasks[s].stop

CreateStep(s) ==
    LET pc == tasks[s].pc IN
    \/ ExitInTry(s, CreateFailed(s))
    \/ /\ Passes(s)
       /\ \/ CreateFailed(s)     \* a path check, the temp directory, the space check
          \/ /\ pc = "c0" /\ manip' = "PACKING" /\ Goto(s, "c1")
             /\ UNCHANGED <<data, disk, pkgHash>>
          \/ /\ pc = "c1" /\ manip' = "ENCRYPTING" /\ Goto(s, "c2")
             /\ UNCHANGED <<data, disk, pkgHash>>
          \/ /\ pc = "c2" /\ pkgHash' = "h1" /\ Goto(s, "c3")
             /\ UNCHANGED <<data, manip, disk>>
          \/ /\ pc = "c3" /\ manip' = "STAGING" /\ Goto(s, "c4")
             /\ UNCHANGED <<data, disk, pkgHash>>
          \/ /\ pc = "c4" /\ data' = "PARTIAL" /\ disk' = "absent" /\ Goto(s, "c5")
             /\ UNCHANGED <<manip, pkgHash>>
          \/ /\ pc = "c5" /\ disk' = "h1" /\ data' = "CHECKED" /\ manip' = "MS_IDLE"
             /\ Finish(s) /\ UNCHANGED pkgHash
          \/ /\ pc = "c5" /\ disk' = "partial" /\ data' = "INVALID" /\ manip' = "MS_IDLE"
             /\ Finish(s) /\ UNCHANGED pkgHash      \* move_all_except throws

\* Mutant: AES_decrypt_file's result is not tested, so a missing content
\* file decrypts to an empty archive and the unpack succeeds.
UnpackStepIgnoresDecrypt(s) ==
    LET pc == tasks[s].pc IN
    \/ ExitInTry(s, UnpackFailed(s))
    \/ /\ Passes(s)
       /\ \/ UnpackFailed(s)
          \/ /\ pc = "u0" /\ manip' = "DECRYPTING" /\ Goto(s, "u1")
             /\ UNCHANGED <<data, disk, pkgHash>>
          \/ /\ pc = "u1" /\ data' = "CHECKED" /\ manip' = "MS_IDLE" /\ Finish(s)
             /\ UNCHANGED <<disk, pkgHash>>

\* UnpackPackageTask::task: DECRYPTING and the decryption of the content
\* file (which needs a complete file); UNPACKING, the extraction, CHECKED.
UnpackStep(s) ==
    LET pc == tasks[s].pc IN
    \/ ExitInTry(s, UnpackFailed(s))
    \/ /\ Passes(s)
       /\ \/ UnpackFailed(s)     \* the target directory, the space check, the extraction
          \/ /\ pc = "u0" /\ disk \in Hashes /\ manip' = "DECRYPTING" /\ Goto(s, "u1")
             /\ UNCHANGED <<data, disk, pkgHash>>
          \/ /\ pc = "u1" /\ data' = "CHECKED" /\ manip' = "MS_IDLE" /\ Finish(s)
             /\ UNCHANGED <<disk, pkgHash>>

\* Mutant: the check hashes _hash instead of the content file.
CheckStepHashesHash(s) ==
    LET pc == tasks[s].pc IN
    \/ ExitInTry(s, CheckFailed(s))
    \/ /\ Passes(s) /\ pc = "k0"
       /\ manip' = "CHECKING"
       /\ tasks' = [tasks EXCEPT ![s].pc = "k1", ![s].seen = pkgHash]
       /\ UNCHANGED <<data, disk, pkgHash>>
    \/ /\ pc = "k1"
       /\ IF tasks[s].seen = pkgHash
          THEN data' = "CHECKED" /\ manip' = "MS_IDLE" /\ Finish(s) /\ UNCHANGED <<disk, pkgHash>>
          ELSE CheckFailed(s)

\* CheckPackageTask::task: CHECKING and the hash of the content file, then
\* the comparison with _hash and the new data state.
CheckStep(s) ==
    LET pc == tasks[s].pc IN
    \/ ExitInTry(s, CheckFailed(s))
    \/ /\ Passes(s) /\ pc = "k0"
       /\ manip' = "CHECKING"
       /\ tasks' = [tasks EXCEPT ![s].pc = "k1", ![s].seen = disk]
       /\ UNCHANGED <<data, disk, pkgHash>>
    \/ /\ pc = "k1"
       /\ IF tasks[s].seen = pkgHash
          THEN data' = "CHECKED" /\ manip' = "MS_IDLE" /\ Finish(s) /\ UNCHANGED <<disk, pkgHash>>
          ELSE CheckFailed(s)

\* RemovePackageTask::task has no try block: the exit macro and a throwing
\* remove_all end the task with the states as they are.
RemoveStep(s) ==
    LET pc == tasks[s].pc IN
    \/ /\ pc = "r0" /\ tasks[s].stop /\ Finish(s)
       /\ UNCHANGED <<data, manip, disk, pkgHash>>
    \/ /\ pc = "r0" /\ ~tasks[s].stop /\ manip' = "DELETTING" /\ Goto(s, "r1")
       /\ UNCHANGED <<data, disk, pkgHash>>
    \/ /\ pc = "r1" /\ disk' = "absent" /\ Goto(s, "r2")
       /\ UNCHANGED <<data, manip, pkgHash>>
    \/ /\ pc = "r1" /\ RemoveAllFails /\ disk' = "partial" /\ Finish(s)
       /\ UNCHANGED <<data, manip, pkgHash>>
    \/ /\ pc = "r2" /\ data' = "DS_UNINITIALIZED" /\ manip' = "MS_IDLE" /\ Finish(s)
       /\ UNCHANGED <<disk, pkgHash>>

TaskStep(s) ==
    /\ Running(s)
    /\ CASE tasks[s].kind = "create" -> CreateStep(s)
         [] tasks[s].kind = "unpack" -> UnpackStep(s)
         [] tasks[s].kind = "check"  -> CheckStep(s)
         [] tasks[s].kind = "remove" -> RemoveStep(s)
    /\ UNCHANGED <<prepared, current, waiting, starts, exitMode, destructor>>

(***************************************************************************)
(* PackageInfo's methods, each under _task_mutex.                          *)
(***************************************************************************)

FirstPc == [create |-> "c0", unpack |-> "u0", check |-> "k0", remove |-> "r0"]

NewSlot(op) == IF op = "create" THEN CreateSlot ELSE starts + 1

\* _current_task->start(false): the task's thread begins.
Start(op) ==
    /\ tasks' = [tasks EXCEPT ![NewSlot(op)] = [kind |-> op, pc |-> FirstPc[op],
                                                stop |-> FALSE, seen |-> "absent"]]
    /\ current' = NewSlot(op)
    /\ starts' = starts + 1

\* The task destroyed when _current_task is given the new task: the old
\* current one, unless _create_task still holds it.  Its destructor stops
\* and joins it, or leaves its thread running.
Dropped(op) ==
    IF /\ current \notin {NoTask, CreateSlot}
       /\ Running(current)
       /\ destructor = "stop"
       /\ NewSlot(op) # current
    THEN current ELSE NoTask

\* Stop task t and block the caller in stop() until its thread ends.
StopAndJoin(t, op, assigned) ==
    /\ tasks' = [tasks EXCEPT ![t].stop = TRUE]
    /\ waiting' = [slot |-> t, op |-> op, assigned |-> assigned]
    /\ UNCHANGED <<current, starts>>

\* _current_task = the new task (destroying the old one), then start().
Assign(op) ==
    IF Dropped(op) = NoTask
    THEN Start(op) /\ waiting' = NoTask
    ELSE StopAndJoin(Dropped(op), op, TRUE)

\* create (619-630): _create_task->stop() first; unpack, check and remove
\* (632-637, 690-704) go straight to the assignment.
Call(op) ==
    /\ waiting = NoTask
    /\ starts < MaxStarts
    /\ op = "create" => prepared
    /\ IF op = "create" /\ Running(CreateSlot)
       THEN StopAndJoin(CreateSlot, op, FALSE)
       ELSE Assign(op)
    /\ UNCHANGED <<data, manip, disk, pkgHash, prepared, exitMode, destructor>>

\* ~PackageInfo, after cancel_current_task(true) has joined the current
\* task: destroying _create_task runs the task destructor, which stops and
\* joins a create task still running, or leaves it running ("detach").
DestroyCreateTask ==
    IF destructor = "stop" /\ prepared /\ Running(CreateSlot)
    THEN StopAndJoin(CreateSlot, "destroy", FALSE)
    ELSE waiting' = NoTask /\ UNCHANGED <<tasks, current, starts>>

\* stop() returns once the stopped task's thread has ended.
Resume ==
    /\ waiting # NoTask
    /\ ~Running(waiting.slot)
    /\ CASE waiting.op = "cancel" -> waiting' = NoTask /\ UNCHANGED <<tasks, current, starts>>
         [] waiting.op = "destroy" -> DestroyCreateTask
         [] waiting.assigned      -> Start(waiting.op) /\ waiting' = NoTask
         [] OTHER                 -> Assign(waiting.op)
    /\ UNCHANGED <<data, manip, disk, pkgHash, prepared, exitMode, destructor>>

\* cancel_current_task (726-732): stop the current task.
CancelCurrentTask ==
    /\ waiting = NoTask
    /\ current # NoTask /\ Running(current)
    /\ StopAndJoin(current, "cancel", FALSE)
    /\ UNCHANGED <<data, manip, disk, pkgHash, prepared, exitMode, destructor>>

Next ==
    \/ \E s \in Slots : TaskStep(s)
    \/ \E op \in {"create", "unpack", "check", "remove"} : Call(op)
    \/ Resume
    \/ CancelCurrentTask

\* Every task thread, once started, keeps being scheduled, and a caller
\* blocked in stop() is woken when the thread it joins has ended.
Spec == Init /\ [][Next]_vars /\ WF_vars(Resume) /\ \A s \in Slots : WF_vars(TaskStep(s))

(***************************************************************************)
(* Properties                                                              *)
(***************************************************************************)

\* When no task runs, get_manipulation_state() says MS_IDLE: every way a
\* task ends (completion, a caught exception, a stop request) puts the
\* package back to idle, whatever order concurrent tasks ran in.
IdleWhenQuiescent == Quiescent => manip = "MS_IDLE"

\* Once every task has ended, a package whose data state is CHECKED has on
\* disk exactly the content of its _hash: PackageManager::get_package(url,
\* hash) hands out CHECKED packages for seeding and unpacking without
\* looking at the files.  Nothing in PackageInfo keeps a check or an unpack
\* from running beside a create that rewrites the package directory.
CheckedMeansContent == Quiescent /\ data = "CHECKED" => disk = pkgHash

\* Once every task has ended, a package restored by hash (the one
\* PackageManager::get_package(url, hash) reuses) is CHECKED only if its file
\* holds the content of _hash, under any interleaving of unpack, check,
\* remove and cancel calls: each call's reset of _current_task stops and
\* joins the task it replaces, and unpack, check and remove trust the
\* content file only after decrypting or hashing it.
RestoredCheckedMeansContent == ~prepared => CheckedMeansContent

=============================================================================
