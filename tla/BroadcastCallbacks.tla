------------------------- MODULE BroadcastCallbacks -------------------------
(***************************************************************************)
(* network_broadcast_api's confirmation callbacks (api.cpp).               *)
(* Every session has its own login_api; login's enable_api makes that     *)
(* session's own network_broadcast_api (api.cpp:78), which holds its own  *)
(* _callbacks map and connects its own on_applied_block to the            *)
(* database's applied_block signal (146).                                 *)
(* broadcast_transaction_with_callback stores the client's callback under *)
(* the transaction id in the session's _callbacks and pushes the          *)
(* transaction; on_applied_block, for every transaction of the block      *)
(* that has a callback in that session's map, schedules the callback with *)
(* fc::async; the fc scheduler runs it later.  The chain database         *)
(* (push_transaction, block production, popping a block on a fork switch) *)
(* is not part of the repository and follows the spec (section 6): a     *)
(* pushed transaction is pending until a block applies it; a popped       *)
(* block's transactions return to the pending set.                        *)
(*                                                                         *)
(* A client reaches network_broadcast_api only through its session's      *)
(* login_api: login(user, password) checks the password against the       *)
(* node's api_access entry and enables that user's allowed APIs;          *)
(* network_broadcast() throws api_not_available_exception until the       *)
(* broadcast API has been enabled.  A repeated login makes a new          *)
(* network_broadcast_api; the client's connection still holds the one it  *)
(* was handed, so the session's callbacks are kept.                      *)
(***************************************************************************)
EXTENDS Integers, Sequences, FiniteSets, Bags, BagsExt

CONSTANTS
    Trxs,        \* transaction ids
    Sessions,    \* the client sessions, each with its own login_api
    Callbacks,   \* the callbacks a client passes
    Invalid,     \* transactions push_transaction rejects (bad authority...)
    MaxBlocks,   \* bound on the chain length
    MaxPops,     \* bound on blocks popped by fork switches
    Access,      \* api_access: user -> [hash, allowed]; hash is "*", or the
                 \* password whose salted sha256 it stores, or BadLength
    LoginInputs  \* the (user, password) pairs clients pass to login

\* The salted sha256 of a password equals the stored hash exactly when the
\* stored hash was made from that password (collisions are not modelled);
\* a stored hash of the wrong length (BadLength) matches no password.
BroadcastApi == "network_broadcast_api"

\* The API names enable_api recognises.
KnownApis == {"database_api", BroadcastApi, "history_api", "network_node_api",
              "crypto_api", "messaging_api", "monitoring_api"}

ASSUME Invalid \subseteq Trxs

VARIABLES
    callbacks,   \* per session: its _callbacks, transaction id -> callback
    pending,     \* transactions pushed and not in a block
    chain,       \* the blocks applied, each the set of its transactions
    pops,        \* blocks popped so far
    tasks,       \* fc::async tasks not yet run: bag of [s, trx, cb, num]
    invoked,     \* callback invocations: bag of [s, trx, cb]
    accepted,    \* ghost: the [s, trx, cb] calls whose push succeeded
    enabled,     \* per session: the APIs login_api holds (non-null pointers)
    authorised   \* ghost: per session, whether it ever passed login a user
                 \* allowed network_broadcast_api with that user's password

vars == <<callbacks, pending, chain, pops, tasks, invoked, accepted, enabled, authorised>>

InChain(t) == \E i \in DOMAIN chain : t \in chain[i]

Call == [s : Sessions, trx : Trxs, cb : Callbacks]

TypeOK ==
    /\ DOMAIN callbacks = Sessions
    /\ \A c \in Sessions : DOMAIN callbacks[c] \subseteq Trxs
                           /\ callbacks[c] \in [DOMAIN callbacks[c] -> Callbacks]
    /\ pending \subseteq Trxs \ Invalid
    /\ chain \in Seq(SUBSET (Trxs \ Invalid))
    /\ IsABag(tasks) /\ BagToSet(tasks) \subseteq [s : Sessions, trx : Trxs, cb : Callbacks, num : 1..MaxBlocks]
    /\ IsABag(invoked) /\ BagToSet(invoked) \subseteq Call
    /\ accepted \subseteq Call
    /\ enabled \in [Sessions -> SUBSET UNION {Access[u].allowed : u \in DOMAIN Access}]
    /\ authorised \in [Sessions -> BOOLEAN]

\* Mutant: the memcmp of the hashes ignored.
PasswordMatchesNoCompare(u, pw) ==
    Access[u].hash # "BadLength"

\* login's password check: "*" accepts any password; otherwise the decoded
\* hash must have sha256's length and equal sha256(password + salt).
PasswordMatches(u, pw) ==
    \/ Access[u].hash = "*"
    \/ /\ Access[u].hash # "BadLength"
       /\ Access[u].hash = pw

\* login_api::login(user, password): an unknown user, a hash of the wrong
\* length or a mismatch returns false; otherwise enable_api runs for every
\* allowed API name, creating (or re-creating) that API.  enable_api
\* ignores names it does not know, so only the known names become enabled.
\* The reference condition for a session to be allowed to broadcast.
Authorises(u, pw) ==
    /\ u \in DOMAIN Access
    /\ BroadcastApi \in Access[u].allowed
    /\ Access[u].hash \in {"*", pw}

Login(c, u, pw) ==
    /\ authorised' = [authorised EXCEPT ![c] = @ \/ Authorises(u, pw)]
    /\ enabled' = IF u \in DOMAIN Access /\ PasswordMatches(u, pw)
                  THEN [enabled EXCEPT ![c] = @ \cup (Access[u].allowed \cap KnownApis)]
                  ELSE enabled
    /\ UNCHANGED <<callbacks, pending, chain, pops, tasks, invoked, accepted>>

\* No session has logged in; no network_broadcast_api exists yet.
Init ==
    /\ callbacks = [c \in Sessions |-> <<>>]
    /\ pending = {}
    /\ chain = <<>>
    /\ pops = 0
    /\ tasks = EmptyBag
    /\ invoked = EmptyBag
    /\ accepted = {}
    /\ enabled = [c \in Sessions |-> {}]
    /\ authorised = [c \in Sessions |-> FALSE]

\* Mutant: push_transaction without the transaction's validity checks.
PushOkNoValidation(t) == t \notin pending /\ ~InChain(t)

\* database::push_transaction: rejects an invalid or duplicate transaction.
PushOk(t) == t \notin Invalid /\ t \notin pending /\ ~InChain(t)

\* broadcast_transaction_with_callback(cb, trx) on session c's API:
\* _callbacks[trx.id()] = cb before push_transaction, which may throw; a
\* pushed transaction is then broadcast to the peers.  The session reaches
\* it through login_api::network_broadcast(), which throws while the API is
\* not enabled.
BroadcastTransactionWithCallback(c, t, k) ==
    /\ BroadcastApi \in enabled[c]
    /\ callbacks' = [callbacks EXCEPT ![c] = (t :> k) @@ @]
    /\ pending' = IF PushOk(t) THEN pending \cup {t} ELSE pending
    /\ accepted' = IF PushOk(t) THEN accepted \cup {[s |-> c, trx |-> t, cb |-> k]}
                                ELSE accepted
    /\ UNCHANGED <<chain, pops, tasks, invoked, enabled, authorised>>

\* Mutant: the callbacks looked up only when there are several.
OnAppliedBlockSeveral(c, b, num) ==
    IF Cardinality(DOMAIN callbacks[c]) > 1
    THEN {[s |-> c, trx |-> t, cb |-> callbacks[c][t], num |-> num] : t \in b \cap DOMAIN callbacks[c]}
    ELSE {}

\* Session c's on_applied_block(b): a task per transaction of b with a
\* callback in c's map, carrying the callback and the block number.
OnAppliedBlock(c, b, num) ==
    {[s |-> c, trx |-> t, cb |-> callbacks[c][t], num |-> num] : t \in b \cap DOMAIN callbacks[c]}

\* A block applying some pending transactions, and the applied_block
\* signal's call of every connected on_applied_block.
ApplyBlock(b) ==
    /\ Len(chain) < MaxBlocks
    /\ b # {} /\ b \subseteq pending
    /\ chain' = Append(chain, b)
    /\ pending' = pending \ b
    /\ tasks' = tasks (+) SetToBag(UNION {OnAppliedBlock(c, b, Len(chain) + 1) : c \in Sessions})
    /\ UNCHANGED <<callbacks, pops, invoked, accepted, enabled, authorised>>

\* A fork switch pops the head block; its transactions are pending again.
PopBlock ==
    /\ chain # <<>>
    /\ pops < MaxPops
    /\ chain' = SubSeq(chain, 1, Len(chain) - 1)
    /\ pending' = pending \cup chain[Len(chain)]
    /\ pops' = pops + 1
    /\ UNCHANGED <<callbacks, tasks, invoked, accepted, enabled, authorised>>

\* The fc scheduler runs a task: callback(confv).
RunTask(task) ==
    /\ BagIn(task, tasks)
    /\ tasks' = BagRemove(tasks, task)
    /\ invoked' = BagAdd(invoked, [s |-> task.s, trx |-> task.trx, cb |-> task.cb])
    /\ UNCHANGED <<callbacks, pending, chain, pops, accepted, enabled, authorised>>

Next ==
    \/ \E c \in Sessions, in \in LoginInputs : Login(c, in[1], in[2])
    \/ \E c \in Sessions, t \in Trxs, k \in Callbacks : BroadcastTransactionWithCallback(c, t, k)
    \/ \E b \in SUBSET Trxs : ApplyBlock(b)
    \/ PopBlock
    \/ \E task \in BagToSet(tasks) : RunTask(task)

\* fc::async tasks are run by the fc thread's scheduler once it gets to
\* them; nothing obliges a block to be produced or a fork to happen.
Spec == Init /\ [][Next]_vars /\ WF_vars(\E task \in BagToSet(tasks) : RunTask(task))

(***************************************************************************)
(* Properties                                                              *)
(***************************************************************************)

\* A client whose broadcast_transaction_with_callback returned normally
\* hears, through that callback, of its transaction once a block applies
\* it: its session's on_applied_block schedules the callback and the fc
\* scheduler runs it, whatever other sessions broadcast and whatever
\* blocks are applied or popped meanwhile.
AcceptedEventuallyConfirmed ==
    \A a \in Call : (a \in accepted /\ InChain(a.trx)) ~> BagIn(a, invoked)

\* A callback is invoked at most once for its transaction.
AtMostOneConfirmation ==
    \A a \in Call : CopiesIn(a, invoked) <= 1

\* A confirmation reaches the client only while the transaction is in the
\* chain: confirmations are dispatched for committed blocks (spec 5).
ConfirmedOnlyIfInChain ==
    [][\A task \in BagToSet(tasks) : RunTask(task) => InChain(task.trx)]_vars

\* An accepted broadcast comes from a session that, at some point, passed
\* login a user and password that api_access accepts for a user allowed
\* network_broadcast_api: login's password check, enable_api's name
\* dispatch and network_broadcast()'s null check together keep a session
\* without those credentials from pushing transactions.
AcceptedOnlyWithCredentials ==
    \A a \in accepted : authorised[a.s]

=============================================================================
