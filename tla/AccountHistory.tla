--------------------------- MODULE AccountHistory ---------------------------
(***************************************************************************)
(* The account-history queries of history_api (api.cpp).  The chain's      *)
(* operation history is a sequence hist: hist[i] is the operation with id  *)
(* i - 1 (operation_history_id_type 1.11.(i-1)), recording the accounts it *)
(* impacts (each gets an account_transaction_history entry) and those for  *)
(* which it passes search_account_balance_history's filters (a non-zero    *)
(* balance or fee delta, the asset list, the partner account and the block *)
(* range, abstracted to one flag per account).  The queries are operators  *)
(* over hist; a client pages through search_account_balance_history while  *)
(* blocks keep appending operations.                                       *)
(***************************************************************************)
EXTENDS Integers, Sequences, SequencesExt

CONSTANTS
    Accounts,    \* account ids, ordered as account_id_type
    MaxOps,      \* bound on the number of operations in the history
    PageSize,    \* 100: CURRENT_OUTPUT_LIMIT_100 and the page search fetches
    Limits,      \* the limits a paging client asks for
    OpChoices    \* the operations a block may apply

ASSUME PageSize \in Nat \ {0} /\ Limits \subseteq Nat \ {0}

VARIABLES
    hist,     \* the operation history objects, oldest first
    pager     \* a client paging through search_account_balance_history

vars == <<hist, pager>>

Operation == [accts : SUBSET Accounts, rel : SUBSET Accounts]

ASSUME \A op \in OpChoices : op \in Operation /\ op.accts # {} /\ op.rel \subseteq op.accts

(***************************************************************************)
(* The account_transaction_history index.                                  *)
(***************************************************************************)

\* The operation ids of a's history, ascending; the last one is
\* account_statistics_object::most_recent_op and the k-th has sequence k.
AccountOps(a) == SelectSeq([i \in 1..Len(hist) |-> i - 1], LAMBDA o : a \in hist[o + 1].accts)

\* The by_op index: (account, operation id) pairs in lexicographic order,
\* that is each account's entries in account order.
KeyLess(x, y) == x[1] < y[1] \/ (x[1] = y[1] /\ x[2] < y[2])

AccountOrder == SetToSortSeq(Accounts, <)

ByOp ==
    FlattenSeq([k \in DOMAIN AccountOrder |->
                    LET ops == AccountOps(AccountOrder[k])
                    IN  [j \in DOMAIN ops |-> <<AccountOrder[k], ops[j]>>]])

\* by_op_idx.lower_bound(key): the first position not below key (Len + 1
\* is end()).
LowerBound(idx, key) ==
    LET P == {p \in DOMAIN idx : ~KeyLess(idx[p], key)}
    IN  IF P = {} THEN Len(idx) + 1 ELSE Min(P)

(***************************************************************************)
(* history_api::get_account_history.  The walk steps back from             *)
(* lower_bound(account, start) while the iterator is not the index's       *)
(* begin(), is an entry of the account above stop and the result is not   *)
(* full; the entry it stops on is added afterwards only when stop is the   *)
(* default id.  Reading idx[p] at p = Len(idx) + 1 is a dereference of     *)
(* end(), which TLC reports as an error.                                   *)
(***************************************************************************)
RECURSIVE HistoryWalk(_, _, _, _, _, _, _)
HistoryWalk(idx, a, stop, limit, start, p, res) ==
    IF p # 1 /\ idx[p][1] = a /\ idx[p][2] > stop /\ Len(res) < limit
    THEN HistoryWalk(idx, a, stop, limit, start, p - 1,
                     IF idx[p][2] <= start THEN Append(res, idx[p][2]) ELSE res)
    ELSE [pos |-> p, res |-> res]

\* The start the walk begins at: the default id 0 and ids past the most
\* recent operation stand for the most recent operation.
StartOf(a, start) ==
    LET ops == AccountOps(a)
    IN  IF start = 0 \/ start > Last(ops) THEN Last(ops) ELSE start

\* Mutant: the entry the walk stops on is never added.
AddStopEntryNever(idx, a, stop, limit, s, w) == w.res

\* After the walk w, the entry under the iterator is added when stop is the
\* default id, it is the account's, it is at or below start and there is room.
AddStopEntry(idx, a, stop, limit, s, w) ==
    IF stop = 0 /\ idx[w.pos][1] = a /\ idx[w.pos][2] <= s /\ Len(w.res) < limit
    THEN Append(w.res, idx[w.pos][2])
    ELSE w.res

HistoryFrom(idx, a, stop, limit, s) ==
    AddStopEntry(idx, a, stop, limit, s, HistoryWalk(idx, a, stop, limit, s, LowerBound(idx, <<a, s>>), <<>>))

GetAccountHistory(a, stop, limit, start) ==
    IF AccountOps(a) = <<>> THEN <<>> ELSE HistoryFrom(ByOp, a, stop, limit, StartOf(a, start))

(***************************************************************************)
(* history_api::get_relative_account_history.  Sequence k of a is          *)
(* AccountOps(a)[k]; the walk runs from upper_bound(a, start) down to      *)
(* lower_bound(a, stop), pushing each entry after stepping onto it, so the *)
(* entry at lower_bound(a, stop) is included.                              *)
(***************************************************************************)
GetRelativeAccountHistory(a, stop, limit, start) ==
    LET ops == AccountOps(a)
        s == IF start = 0 THEN Len(ops) ELSE Min({Len(ops), start})
        n == Min({limit, s + 1 - Max({stop, 1})})
    IN  IF s >= stop THEN [j \in 1..n |-> ops[s + 1 - j]] ELSE <<>>

(***************************************************************************)
(* history_api::search_account_balance_history: one pass of the do-while  *)
(* body over the loop state [res, cur, start, hoff, off, req]: fetch a     *)
(* page of get_account_history at cursor start when required, then either *)
(* examine entry hoff of the page or, past its end, move the cursor to the *)
(* id below the page's last entry.                                         *)
(***************************************************************************)
\* A page of get_account_history at the cursor, when one is required.
FetchPage(a, s) ==
    IF s.req THEN [s EXCEPT !.cur = GetAccountHistory(a, 0, PageSize, s.start), !.req = FALSE]
    ELSE s

\* Mutant: the search filters are not applied.
CountNoFilter(a, startOffset, s, o) ==
    [s EXCEPT !.res = IF s.off >= startOffset THEN Append(@, o) ELSE @, !.off = @ + 1]

\* Mutant: only the matches put into the result are counted.
CountOnlyPushed(a, startOffset, s, o) ==
    IF a \in hist[o + 1].rel /\ s.off >= startOffset
    THEN [s EXCEPT !.res = Append(@, o), !.off = @ + 1]
    ELSE s

\* Operation o passes the filters: it is put into the result once
\* start_offset matches have been skipped, and counted as a match.
Count(a, startOffset, s, o) ==
    IF a \in hist[o + 1].rel
    THEN [s EXCEPT !.res = IF s.off >= startOffset THEN Append(@, o) ELSE @, !.off = @ + 1]
    ELSE s

\* Past the end of a non-empty page: require a page at the id below its
\* last entry (the default id 0 when that entry is operation 0).
Roll(s) ==
    [s EXCEPT !.req = TRUE, !.hoff = 0, !.start = IF Last(s.cur) # 0 THEN Last(s.cur) - 1 ELSE 0]

Examine(a, startOffset, s) ==
    IF s.hoff < Len(s.cur) THEN Count(a, startOffset, s, s.cur[s.hoff + 1])
    ELSE IF s.cur # <<>> THEN Roll(s)
    ELSE s

Advance(s) == IF ~s.req THEN [s EXCEPT !.hoff = @ + 1] ELSE s

SearchBody(a, startOffset, s) == Advance(Examine(a, startOffset, FetchPage(a, s)))

\* The do-while condition.
SearchContinues(s, limit) ==
    /\ Len(s.res) < limit
    /\ s.cur # <<>>
    /\ s.hoff <= Len(s.cur)
    /\ s.hoff # 0 \/ s.start # 0

RECURSIVE SearchLoop(_, _, _, _)
SearchLoop(a, startOffset, limit, s) ==
    LET s2 == SearchBody(a, startOffset, s)
    IN  IF SearchContinues(s2, limit) THEN SearchLoop(a, startOffset, limit, s2) ELSE s2.res

SearchAccountBalanceHistory(a, startOffset, limit) ==
    IF limit > 0
    THEN SearchLoop(a, startOffset, limit,
                    [res |-> <<>>, cur |-> <<>>, start |-> 0, hoff |-> 0, off |-> 0, req |-> TRUE])
    ELSE <<>>

\* history_api::get_account_balance_for_transaction: the first entry of
\* get_account_history(a, default, 1, x), if any.
GetAccountBalanceForTransaction(a, x) ==
    LET l == GetAccountHistory(a, 0, 1, x)
    IN  IF l = <<>> THEN <<>> ELSE <<Head(l)>>

(***************************************************************************)
(* The state machine: blocks append operations; a client asks for the      *)
(* first n matches of an account and then, in a later call, for the next  *)
(* m with start_offset n.  Each API call reads committed state atomically *)
(* (calls and block application are serialised).  The client's ghost      *)
(* field whole is the answer one call with limit n + m would have given   *)
(* at the time of the first call; appended records whether operations     *)
(* were applied between the two calls.                                     *)
(***************************************************************************)
Idle == [pc |-> "idle", acct |-> CHOOSE a \in Accounts : TRUE, n |-> 0, m |-> 0,
         r1 |-> <<>>, r2 |-> <<>>, whole |-> <<>>, appended |-> FALSE]

TypeOK ==
    /\ hist \in Seq(Operation) /\ Len(hist) <= MaxOps
    /\ \A i \in DOMAIN hist : hist[i].accts # {} /\ hist[i].rel \subseteq hist[i].accts
    /\ pager.pc \in {"idle", "first", "done"}
    /\ pager.acct \in Accounts /\ pager.appended \in BOOLEAN
    /\ pager.n \in {0} \cup Limits /\ pager.m \in {0} \cup Limits

Init ==
    /\ hist = <<>>
    /\ pager = Idle

\* A block applies an operation impacting the accounts accts; the history
\* plugin appends its operation_history_object and one
\* account_transaction_history entry per account.
\* Mutant: the operation is recorded as matching for every account.
AppendOperationAllRel(accts, rel) ==
    /\ Len(hist) < MaxOps
    /\ hist' = Append(hist, [accts |-> accts, rel |-> Accounts])
    /\ pager' = IF pager.pc = "first" THEN [pager EXCEPT !.appended = TRUE] ELSE pager

AppendOperation(accts, rel) ==
    /\ Len(hist) < MaxOps
    /\ hist' = Append(hist, [accts |-> accts, rel |-> rel])
    /\ pager' = IF pager.pc = "first" THEN [pager EXCEPT !.appended = TRUE] ELSE pager

FirstCall(a, n, m) ==
    /\ pager.pc = "idle"
    /\ pager' = [pc |-> "first", acct |-> a, n |-> n, m |-> m,
                  r1 |-> SearchAccountBalanceHistory(a, 0, n), r2 |-> <<>>,
                  whole |-> SearchAccountBalanceHistory(a, 0, n + m), appended |-> FALSE]
    /\ UNCHANGED hist

SecondCall ==
    /\ pager.pc = "first"
    /\ pager' = [pager EXCEPT !.pc = "done",
                  !.r2 = SearchAccountBalanceHistory(pager.acct, pager.n, pager.m)]
    /\ UNCHANGED hist

\* The client starts over.
Restart ==
    /\ pager.pc = "done"
    /\ pager' = Idle
    /\ UNCHANGED hist

Next ==
    \/ \E op \in OpChoices : AppendOperation(op.accts, op.rel)
    \/ \E a \in Accounts, n, m \in Limits : FirstCall(a, n, m)
    \/ SecondCall
    \/ Restart

Spec == Init /\ [][Next]_vars

(***************************************************************************)
(* Reference semantics (spec 4.5), written over AccountOps directly.       *)
(***************************************************************************)
Take(s, n) == SubSeq(s, 1, Min({n, Len(s)}))

\* The operations of a with stop < id <= start, newest first, at most limit;
\* the default start is the most recent operation and the default stop (the
\* id 0) bounds nothing.
RefHistory(a, stop, limit, start) ==
    LET ops == AccountOps(a)
        s == IF start = 0 /\ ops # <<>> THEN Last(ops) ELSE start
    IN  Take(Reverse(SelectSeq(ops, LAMBDA o : (o > stop \/ stop = 0) /\ o <= s)), limit)

\* The operations of a with sequence in (stop, start], newest first.
RefRelativeHistory(a, stop, limit, start) ==
    LET ops == AccountOps(a)
        s == IF start = 0 THEN Len(ops) ELSE Min({Len(ops), start})
    IN  Take([j \in 1..Max({s - stop, 0}) |-> ops[s + 1 - j]], limit)

\* The matches of a, newest first, after skipping startOffset of them.
RefSearch(a, startOffset, limit) ==
    LET R == Reverse(SelectSeq(AccountOps(a), LAMBDA o : a \in hist[o + 1].rel))
    IN  SubSeq(R, startOffset + 1, Min({startOffset + limit, Len(R)}))

OpIds == 0..Len(hist)

(***************************************************************************)
(* Properties.                                                             *)
(***************************************************************************)

\* With the default stop, get_account_history returns exactly the newest
\* limit operations of the account at or below start, whatever the place of
\* the account in the by_op index: the walk that stops at begin(), at the
\* previous account's entries or at operation 0 adds the entry it stopped
\* on exactly when it belongs to the answer.
HistoryFromBeginningMatches ==
    \A a \in Accounts, start \in OpIds, limit \in 1..PageSize :
        GetAccountHistory(a, 0, limit, start) = RefHistory(a, 0, limit, start)

\* Spec 4.5: get_account_history walks down to stop (exclusive) for every
\* stop, not only the default one.
HistoryMatchesSpec ==
    \A a \in Accounts, stop, start \in OpIds, limit \in 1..PageSize :
        GetAccountHistory(a, stop, limit, start) = RefHistory(a, stop, limit, start)

\* Spec 4.5: get_relative_account_history has the same semantics indexed by
\* sequence number: stop is exclusive.
RelativeHistoryMatchesSpec ==
    \A a \in Accounts, stop, start \in OpIds, limit \in 1..PageSize :
        GetRelativeAccountHistory(a, stop, limit, start) = RefRelativeHistory(a, stop, limit, start)

\* Spec 4.5: search_account_balance_history returns the matches after the
\* first start_offset, newest first, until limit or the history runs out.
SearchMatchesSpec ==
    \A a \in Accounts, off \in 0..1, limit \in 1..PageSize + 1 :
        SearchAccountBalanceHistory(a, off, limit) = RefSearch(a, off, limit)

\* Every answer of search_account_balance_history is a strictly descending
\* sequence of operations that match for the account: moving the cursor to
\* the id below each page's last entry never revisits or skips upward.
SearchResultsDescendingMatches ==
    \A a \in Accounts, off \in 0..1, limit \in 1..PageSize + 1 :
        LET r == SearchAccountBalanceHistory(a, off, limit)
        IN  /\ Len(r) <= limit
            /\ \A i \in DOMAIN r : a \in hist[r[i] + 1].accts /\ a \in hist[r[i] + 1].rel
            /\ \A i \in 1..Len(r) - 1 : r[i] > r[i + 1]

\* Spec 8 (pagination equivalence), when no block is applied between the two
\* calls: the first n matches followed by the next m from start_offset n are
\* the answer of one call with limit n + m.
PaginationEquivalentWithoutAppends ==
    pager.pc = "done" /\ ~pager.appended => pager.r1 \o pager.r2 = pager.whole

\* Spec 8 (pagination equivalence) as stated, with queries running between
\* block applications (spec 5).
PaginationEquivalent ==
    pager.pc = "done" => pager.r1 \o pager.r2 = pager.whole

\* Spec 4.5: get_account_balance_for_transaction reports the operation it is
\* asked about, and nothing when that operation is not in the account's
\* history.
BalanceForTransactionIsThatOperation ==
    \A a \in Accounts, x \in 0..Len(hist) - 1 :
        GetAccountBalanceForTransaction(a, x) =
            IF \E i \in DOMAIN AccountOps(a) : AccountOps(a)[i] = x THEN <<x>> ELSE <<>>

=============================================================================
