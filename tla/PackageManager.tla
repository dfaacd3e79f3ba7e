--------------------------- MODULE PackageManager ---------------------------
(***************************************************************************)
(* PackageManager of package.cpp (lines 822-989) composed with the        *)
(* PackageInfo of PackageTasks.  _packages is a set of shared pointers;    *)
(* every get_package and find_package copies one out to the caller, and    *)
(* the release functions erase entries and report whether a released      *)
(* PackageInfo is still used elsewhere (use_count).                        *)
(*                                                                         *)
(* Three PackageInfo objects can exist:                                    *)
(*   - "A", the detailed one of PackageTasks, made by get_package(content, *)
(*     samples, key) or get_package(hash), registered and held once; a     *)
(*     further get_package(content, samples, key) call makes another       *)
(*     detailed PackageInfo, which this model does not contain;            *)
(*   - "B", one more PackageInfo(manager, hash) made by get_package(hash)  *)
(*     or recover_all_packages when no registered entry has that hash; its *)
(*     constructor checks the content file (lines 544-597);                *)
(*   - "U", a PackageInfo(manager, url) of an ipfs url made by             *)
(*     get_package(url, hash) (lines 599-612): DS_UNINITIALIZED, no hash.  *)
(* B and U start no task.  A's methods run only while A is alive (in the   *)
(* set or held); when its last pointer goes, ~PackageInfo runs             *)
(* cancel_current_task(true) and then destroys its task members.           *)
(*                                                                         *)
(* One package directory exists, A's: packages/h0 for a restored A,        *)
(* packages/h1 for a created one.  Every other hash has no directory.      *)
(***************************************************************************)
EXTENDS PackageTasks

CONSTANT MaxRefs   \* bound on the pointers callers hold to one PackageInfo

Handles == {"A", "B", "U"}

VARIABLES
    registered,  \* the PackageInfo objects in _packages
    refs,        \* handle -> pointers held outside _packages
    bHash        \* B's _hash, or "none" while B has not been made

mvars == <<registered, refs, bHash>>

allvars == <<vars, mvars>>

\* The directory A works on, and what get_package(hash) finds on disk.
DirHash == IF prepared THEN "h1" ELSE "h0"

DiskOf(h) == IF h = DirHash THEN disk ELSE "absent"

\* _hash of each object: A's is pkgHash; U's is the default (zero) hash.
HashOf(x) == CASE x = "A" -> pkgHash
               [] x = "B" -> bHash
               [] x = "U" -> "none"

\* get_data_state(): B is only ever kept CHECKED; U stays DS_UNINITIALIZED.
DataOf(x) == CASE x = "A" -> data
               [] x = "B" -> "CHECKED"
               [] x = "U" -> "DS_UNINITIALIZED"

\* shared_ptr::use_count: the copy in _packages and the callers' copies.
UseCount(x) == refs[x] + (IF x \in registered THEN 1 ELSE 0)

Alive(x) == UseCount(x) > 0

MTypeOK ==
    /\ TypeOK
    /\ registered \subseteq Handles
    /\ refs \in [Handles -> 0..MaxRefs]
    /\ bHash \in Hashes \cup {"none"}

\* A was made by get_package and returned: in the set and held once.
MInit ==
    /\ Init
    /\ registered = {"A"}
    /\ refs = [x \in Handles |-> IF x = "A" THEN 1 ELSE 0]
    /\ bHash = "none"

\* The caller gets a copy of the pointer to x.
HandOut(x) ==
    /\ refs[x] < MaxRefs
    /\ refs' = [refs EXCEPT ![x] = @ + 1]

\* A caller drops its pointer.
Drop(x) ==
    /\ refs[x] > 0
    /\ refs' = [refs EXCEPT ![x] = @ - 1]

\* The call leaves A with no pointer.
DiesA == Alive("A") /\ refs'["A"] = 0 /\ "A" \notin registered'

DestructorOfA ==
    IF DiesA /\ \E s \in {current, CreateSlot} \ {NoTask} : Running(s)
    THEN /\ waiting = NoTask
         /\ IF current # NoTask /\ Running(current)
            THEN StopAndJoin(current, "destroy", FALSE)
            ELSE DestroyCreateTask
         /\ UNCHANGED <<data, manip, disk, pkgHash, prepared, exitMode, destructor>>
    ELSE UNCHANGED vars

\* The constructor PackageInfo(manager, hash): PARTIAL, the directory
\* must exist, the content file's hash must equal _hash, then CHECKED;
\* any failure is rethrown, so the object is not inserted.
RestoreOk(h) == DiskOf(h) = h

\* get_package(hash) (lines 874-888): the first entry with that _hash, or
\* a new PackageInfo(manager, hash) inserted and returned.
GetPackageByHash(h) ==
    IF \E x \in registered : HashOf(x) = h
    THEN \E x \in registered : HashOf(x) = h /\ HandOut(x) /\ UNCHANGED <<registered, bHash>>
    ELSE /\ bHash = "none" /\ RestoreOk(h)
         /\ bHash' = h /\ registered' = registered \cup {"B"} /\ HandOut("B")

\* get_package(url, hash) (lines 860-872): an entry with that _hash whose
\* data state is CHECKED gets the url and is returned; otherwise a new
\* PackageInfo(manager, url) is inserted and returned.
GetPackageByUrl(h) ==
    IF \E x \in registered : HashOf(x) = h /\ DataOf(x) = "CHECKED"
    THEN \E x \in registered : HashOf(x) = h /\ DataOf(x) = "CHECKED" /\ HandOut(x)
            /\ UNCHANGED registered
    ELSE /\ ~Alive("U")
         /\ registered' = registered \cup {"U"} /\ HandOut("U")

\* find_package(hash) (lines 902-915): the entry with that _hash or nullptr.
FindPackageByHash(h) ==
    /\ \E x \in registered : HashOf(x) = h /\ HandOut(x)
    /\ UNCHANGED registered

\* Erase the set e of entries.  The result, other_uses (whether an erased
\* entry's use_count exceeded 1), is only returned to the caller.
Erase(e) ==
    /\ registered' = registered \ e
    /\ UNCHANGED refs

\* release_package(hash) (lines 963-979): every entry with that _hash.
ReleasePackageByHash(h) == Erase({x \in registered : HashOf(x) = h})

\* release_all_packages (lines 946-961), also run by ~PackageManager.
ReleaseAllPackages == Erase(registered)

\* release_package(package) (lines 981-989): erase the caller's entry,
\* then reset the caller's pointer.
ReleasePackage(x) ==
    /\ refs[x] > 0
    /\ registered' = registered \ {x}
    /\ Drop(x)

\* recover_all_packages (lines 922-944): every directory named by a hash
\* goes through get_package(hash) and the returned pointer is dropped at
\* once; a constructor's exception is logged.  A's directory exists
\* unless it was removed.
RecoverAllPackages ==
    /\ disk # "absent"
    /\ ~\E x \in registered : HashOf(x) = DirHash
    /\ bHash = "none" /\ RestoreOk(DirHash)
    /\ bHash' = DirHash /\ registered' = registered \cup {"B"}
    /\ UNCHANGED refs

(***************************************************************************)
(* The composition: A's own steps, while A is alive for the calls, and     *)
(* the manager's calls, each under PackageManager::_mutex.                 *)
(***************************************************************************)

\* A caller blocked in stop() inside one of A's methods still holds the
\* pointer it called through, so no other caller's call drops it.
BlockedCallerHolds ==
    waiting # NoTask /\ waiting.op # "destroy" => refs'["A"] > 0

Manager(act) == act /\ BlockedCallerHolds /\ DestructorOfA

MNext ==
    \/ \E s \in Slots : TaskStep(s) /\ UNCHANGED mvars
    \/ Resume /\ UNCHANGED mvars
    \/ Alive("A") /\ CancelCurrentTask /\ UNCHANGED mvars
    \/ \E op \in {"create", "unpack", "check", "remove"} :
           Alive("A") /\ Call(op) /\ UNCHANGED mvars
    \/ \E h \in Hashes : Manager(GetPackageByHash(h))
    \/ \E h \in Hashes : Manager(GetPackageByUrl(h) /\ UNCHANGED bHash)
    \/ \E h \in Hashes : Manager(FindPackageByHash(h) /\ UNCHANGED bHash)
    \/ Manager(RecoverAllPackages)
    \/ \E h \in Hashes : Manager(ReleasePackageByHash(h) /\ UNCHANGED bHash)
    \/ Manager(ReleaseAllPackages /\ UNCHANGED bHash)
    \/ \E x \in Handles : Manager(ReleasePackage(x) /\ UNCHANGED bHash)
    \/ \E x \in Handles : Manager(Drop(x) /\ UNCHANGED <<registered, bHash>>)

MSpec == MInit /\ [][MNext]_allvars
         /\ WF_allvars(Resume /\ UNCHANGED mvars)
         /\ \A s \in Slots : WF_allvars(TaskStep(s) /\ UNCHANGED mvars)

(***************************************************************************)
(* Properties                                                              *)
(***************************************************************************)

RegisteredCheckedMeansContent ==
    Quiescent =>
        \A x \in registered : DataOf(x) = "CHECKED" /\ HashOf(x) # "none" =>
            DiskOf(HashOf(x)) = HashOf(x)

=============================================================================
