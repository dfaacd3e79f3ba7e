--------------------------- MODULE WalletConnect ---------------------------
(***************************************************************************)
(* WalletAPI (wallet_utility.cpp): client threads call Connect and         *)
(* RunTask; both test is_connected() (which takes m_mutex for the read of  *)
(* m_pimpl), then hold m_mutex while a task posted to the single          *)
(* "wallet_api_service" fc thread runs and they wait for its future.      *)
(* Connect's task builds an Impl (websocket connection, login, wallet      *)
(* file), which may fail with an exception turned into an error string;   *)
(* m_pimpl.reset(new Impl) replaces the Impl only when the construction   *)
(* succeeded.  RunTask's task calls into the Impl through m_pimpl.         *)
(* m_pimpl is an Impl generation number, 0 for nullptr.                    *)
(***************************************************************************)
EXTENDS Integers, Sequences, FiniteSets

CONSTANTS
    Threads,     \* client threads
    MaxCalls,    \* bound on the calls each thread makes
    NoThread     \* m_mutex is free

VARIABLES
    pc,          \* each client thread's place in its call
    calls,       \* calls each thread has made
    mutex,       \* m_mutex: the holding thread or NoThread
    queue,       \* tasks posted to m_pthread, in order: [thread, kind]
    ready,       \* futures ready for their thread: thread -> "ok" / "error"
    pimpl,       \* m_pimpl: Impl generation, 0 = nullptr
    connected,   \* ghost: Connect calls that returned normally, per thread
    used         \* ghost: Impl generations RunTask's task dereferenced

vars == <<pc, calls, mutex, queue, ready, pimpl, connected, used>>

Places == {"idle", "conn_check", "conn_lock", "conn_wait", "run_check", "run_lock", "run_wait"}

TypeOK ==
    /\ pc \in [Threads -> Places]
    /\ calls \in [Threads -> 0..MaxCalls]
    /\ mutex \in Threads \cup {NoThread}
    /\ queue \in Seq([thread : Threads, kind : {"connect", "run"}])
    /\ Len(queue) <= Cardinality(Threads)
    /\ ready \in [Threads -> {"none", "ok", "error"}]
    /\ pimpl \in Nat
    /\ connected \in [Threads -> Nat]

Init ==
    /\ pc = [t \in Threads |-> "idle"]
    /\ calls = [t \in Threads |-> 0]
    /\ mutex = NoThread
    /\ queue = <<>>
    /\ ready = [t \in Threads |-> "none"]
    /\ pimpl = 0
    /\ connected = [t \in Threads |-> 0]
    /\ used = {}

\* A thread enters Connect or RunTask.
Call(t, place) ==
    /\ pc[t] = "idle"
    /\ calls[t] < MaxCalls
    /\ pc' = [pc EXCEPT ![t] = place]
    /\ calls' = [calls EXCEPT ![t] = @ + 1]
    /\ UNCHANGED <<mutex, queue, ready, pimpl, connected, used>>

\* is_connected(): lock_guard on m_mutex around the read of m_pimpl; the
\* call throws when the test fails ("already connected" for Connect,
\* "not yet connected" for RunTask).
IsConnectedCheck(t, from, to, wantConnected) ==
    /\ pc[t] = from
    /\ mutex = NoThread
    /\ pc' = [pc EXCEPT ![t] = IF (pimpl # 0) = wantConnected THEN to ELSE "idle"]
    /\ UNCHANGED <<calls, mutex, queue, ready, pimpl, connected, used>>

\* std::lock_guard lock(m_mutex); m_pthread->async(...).
LockAndPost(t, from, to, kind) ==
    /\ pc[t] = from
    /\ mutex = NoThread
    /\ mutex' = t
    /\ queue' = Append(queue, [thread |-> t, kind |-> kind])
    /\ pc' = [pc EXCEPT ![t] = to]
    /\ UNCHANGED <<calls, ready, pimpl, connected, used>>

\* Connect's task: m_pimpl.reset(new Impl(wallet_file, ws)); an exception
\* from Impl's constructor leaves m_pimpl as it was and is returned as
\* the error string.
\* Mutant: a failed construction leaves m_pimpl empty.
ImplConstructedOrNull(ok) == IF ok THEN pimpl + 1 ELSE 0

ImplConstructed(ok) == IF ok THEN pimpl + 1 ELSE pimpl

\* Mutant: the Impl's construction needs m_mutex (an is_connected() call).
RunConnectTaskLocking(ok) ==
    /\ queue # <<>> /\ Head(queue).kind = "connect"
    /\ mutex = NoThread
    /\ pimpl' = ImplConstructed(ok)
    /\ ready' = [ready EXCEPT ![Head(queue).thread] = IF ok THEN "ok" ELSE "error"]
    /\ queue' = Tail(queue)
    /\ UNCHANGED <<pc, calls, mutex, connected, used>>

RunConnectTask(ok) ==
    /\ queue # <<>> /\ Head(queue).kind = "connect"
    /\ pimpl' = ImplConstructed(ok)
    /\ ready' = [ready EXCEPT ![Head(queue).thread] = IF ok THEN "ok" ELSE "error"]
    /\ queue' = Tail(queue)
    /\ UNCHANGED <<pc, calls, mutex, connected, used>>

\* RunTask's task: pimpl->m_ptr_fc_api_connection->receive_call(...).
RunCommandTask ==
    /\ queue # <<>> /\ Head(queue).kind = "run"
    /\ used' = used \cup {pimpl}
    /\ ready' = [ready EXCEPT ![Head(queue).thread] = "ok"]
    /\ queue' = Tail(queue)
    /\ UNCHANGED <<pc, calls, mutex, pimpl, connected>>

\* Mutant: the call returns without waiting for its future.
ReturnNoWait(t, from) ==
    /\ pc[t] = from
    /\ mutex' = NoThread
    /\ ready' = [ready EXCEPT ![t] = "none"]
    /\ connected' = IF from = "conn_wait" /\ ready[t] = "ok" THEN [connected EXCEPT ![t] = @ + 1]
                    ELSE connected
    /\ pc' = [pc EXCEPT ![t] = "idle"]
    /\ UNCHANGED <<calls, queue, pimpl, used>>

\* future.wait() returns; the lock_guard releases m_mutex; Connect throws
\* wallet_exception on an error string.
Return(t, from) ==
    /\ pc[t] = from
    /\ ready[t] # "none"
    /\ mutex' = NoThread
    /\ ready' = [ready EXCEPT ![t] = "none"]
    /\ connected' = IF from = "conn_wait" /\ ready[t] = "ok" THEN [connected EXCEPT ![t] = @ + 1]
                    ELSE connected
    /\ pc' = [pc EXCEPT ![t] = "idle"]
    /\ UNCHANGED <<calls, queue, pimpl, used>>

\* A thread's steps inside a call.
ThreadProgress(t) ==
    \/ IsConnectedCheck(t, "conn_check", "conn_lock", FALSE)
    \/ IsConnectedCheck(t, "run_check", "run_lock", TRUE)
    \/ LockAndPost(t, "conn_lock", "conn_wait", "connect")
    \/ LockAndPost(t, "run_lock", "run_wait", "run")
    \/ Return(t, "conn_wait") \/ Return(t, "run_wait")

ThreadStep(t) == Call(t, "conn_check") \/ Call(t, "run_check") \/ ThreadProgress(t)

FcThreadStep == RunConnectTask(TRUE) \/ RunConnectTask(FALSE) \/ RunCommandTask

Next == (\E t \in Threads : ThreadStep(t)) \/ FcThreadStep

\* A thread inside a call and the fc thread keep being scheduled; nothing
\* obliges a thread to make another call.
Spec == Init /\ [][Next]_vars /\ (\A t \in Threads : WF_vars(ThreadProgress(t))) /\ WF_vars(FcThreadStep)

(***************************************************************************)
(* Properties                                                              *)
(***************************************************************************)

\* Every Connect or RunTask call returns (normally or by an exception):
\* a caller holding m_mutex waits only for the fc thread, and the fc
\* thread's tasks never wait for m_mutex.
CallsReturn == \A t \in Threads : pc[t] # "idle" ~> pc[t] = "idle"

\* RunTask's task never dereferences a null m_pimpl: the is_connected()
\* test it passed before taking m_mutex still holds when the fc thread
\* runs the task, because nothing resets m_pimpl to nullptr.
RunTaskUsesImpl == 0 \notin used

\* At most one Impl is ever installed: Connect throws "already connected"
\* once a connection exists, so no Impl is replaced under its users.
ImplNeverReplaced == pimpl <= 1

=============================================================================
