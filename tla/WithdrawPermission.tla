------------------------- MODULE WithdrawPermission -------------------------
(***************************************************************************)
(* The withdraw_permission evaluators (withdraw_permission_evaluator.cpp). *)
(* One account (From) lets another (To) withdraw up to a limit per period  *)
(* of withdrawal_period_sec seconds, from period_start_time until          *)
(* expiration.  The model holds one withdraw_permission_object slot (the   *)
(* evaluators touch one object each), the head block time, and the two    *)
(* balances the claim moves.  time_point_sec is an unsigned number of      *)
(* seconds: it is kept to TimeWidth bits, scaled down from 32, and every   *)
(* sum and product the evaluators form in it wraps.                        *)
(*                                                                         *)
(* withdraw_permission_object::available_this_period is declared in a     *)
(* header that is not part of the repository; the claim's amount check is *)
(* abstracted to amount <= withdrawal_limit, so the model admits at least  *)
(* every claim the node admits while a period has nothing claimed, and    *)
(* the properties below do not depend on it.  Operations whose accounts   *)
(* do not match the permission fail their FC_ASSERTs and change nothing;   *)
(* they are left out.                                                      *)
(***************************************************************************)
EXTENDS Integers

CONSTANTS
    TimeWidth,       \* bits of time_point_sec, scaled down from 32
    MaxTime,         \* bound on the head block time
    BlockInterval,   \* parameters.block_interval
    PeriodSecs,      \* withdrawal_period_sec values an operation may carry
    PeriodCounts,    \* periods_until_expiration values
    Limits,          \* withdrawal_limit amounts
    Amounts,         \* amount_to_withdraw values (positive)
    InitBalance      \* From's balance in the withdrawn asset

ASSUME MaxTime < 2^TimeWidth /\ BlockInterval \in Nat \ {0}

VARIABLES
    now,        \* d.head_block_time()
    permit,     \* the withdraw_permission_object, or NoPermit
    balance,    \* [From, To] balances of the withdrawn asset
    sched,      \* ghost: period_start_time set by the last create/update
    claimedSinceSched   \* ghost: amounts claimed since that create/update

vars == <<now, permit, balance, sched, claimedSinceSched>>

NoPermit == [exists |-> FALSE]

Times == 0..(2^TimeWidth - 1)

\* uint32 (time_point_sec) wrap-around, scaled to TimeWidth bits.
U(x) == x % (2^TimeWidth)

\* period_start_time + periods_until_expiration * withdrawal_period_sec.
ExpirationOf(start, n, w) == U(start + U(n * w))

\* Signed 64-bit division, truncating toward zero.
TruncDiv(a, b) == IF a >= 0 THEN a \div b ELSE -((-a) \div b)

\* (head_block_time() - period_start_time).to_seconds() / withdrawal_period_sec
Periods(t, p) == TruncDiv(t - p.period_start_time, p.withdrawal_period_sec)

\* Mutant: the start moved by the number of periods, not their length.
AdvancedStartNoScale(t, p) == U(p.period_start_time + U(Periods(t, p)))

\* p.period_start_time += static_cast<uint32_t>(periods * withdrawal_period_sec)
AdvancedStart(t, p) == U(p.period_start_time + U(Periods(t, p) * p.withdrawal_period_sec))

Permit == [exists : {TRUE}, withdrawal_limit : Limits, withdrawal_period_sec : PeriodSecs,
           period_start_time : Times, expiration : Times, claimed_this_period : Nat]

TypeOK ==
    /\ now \in 0..MaxTime
    /\ permit \in Permit \cup {NoPermit}
    /\ balance \in [{"From", "To"} -> 0..InitBalance]
    /\ balance["From"] + balance["To"] = InitBalance

Init ==
    /\ now = 0
    /\ permit = NoPermit
    /\ balance = [a \in {"From", "To"} |-> IF a = "From" THEN InitBalance ELSE 0]
    /\ sched = 0
    /\ claimedSinceSched = 0

\* The head block time advances by one block.
NextBlock ==
    /\ now + BlockInterval <= MaxTime
    /\ now' = now + BlockInterval
    /\ UNCHANGED <<permit, balance, sched, claimedSinceSched>>

\* The period_start_time, expiration and period checks of the create and
\* update evaluators; create wants a start after the head time, update
\* accepts the head time itself.
ScheduleValid(start, n, w) ==
    /\ ExpirationOf(start, n, w) > now
    /\ w >= BlockInterval

\* withdraw_permission_create: evaluate, then create the object.
Create(start, n, w, lim) ==
    /\ ~permit.exists
    /\ start > now
    /\ ScheduleValid(start, n, w)
    /\ permit' = [exists |-> TRUE, withdrawal_limit |-> lim, withdrawal_period_sec |-> w,
                  period_start_time |-> start, expiration |-> ExpirationOf(start, n, w),
                  claimed_this_period |-> 0]
    /\ sched' = start
    /\ claimedSinceSched' = 0
    /\ UNCHANGED <<now, balance>>

\* The claim's modify: move the period start by whole periods, then add to
\* or restart claimed_this_period.
ClaimModify(t, p, amt) ==
    [p EXCEPT !.period_start_time = AdvancedStart(t, p),
              !.claimed_this_period = IF Periods(t, p) = 0 THEN @ + amt ELSE amt]

\* Mutant: the claim without the balance check.
ClaimNoBalanceCheck(amt) ==
    /\ permit.exists
    /\ permit.expiration > now
    /\ amt <= permit.withdrawal_limit
    /\ permit' = ClaimModify(now, permit, amt)
    /\ balance' = [balance EXCEPT !["From"] = @ - amt, !["To"] = @ + amt]
    /\ claimedSinceSched' = claimedSinceSched + amt
    /\ UNCHANGED <<now, sched>>

\* withdraw_permission_claim: evaluate, modify the permit, move the funds.
Claim(amt) ==
    /\ permit.exists
    /\ permit.expiration > now
    /\ amt <= permit.withdrawal_limit
    /\ balance["From"] >= amt
    /\ permit' = ClaimModify(now, permit, amt)
    /\ balance' = [balance EXCEPT !["From"] = @ - amt, !["To"] = @ + amt]
    /\ claimedSinceSched' = claimedSinceSched + amt
    /\ UNCHANGED <<now, sched>>

\* withdraw_permission_update: evaluate, then modify the schedule and limit.
Update(start, n, w, lim) ==
    /\ permit.exists
    /\ start >= now
    /\ ScheduleValid(start, n, w)
    /\ permit' = [permit EXCEPT !.period_start_time = start,
                                !.expiration = ExpirationOf(start, n, w),
                                !.withdrawal_limit = lim,
                                !.withdrawal_period_sec = w]
    /\ sched' = start
    /\ claimedSinceSched' = 0
    /\ UNCHANGED <<now, balance>>

\* withdraw_permission_delete: remove the object.
Delete ==
    /\ permit.exists
    /\ permit' = NoPermit
    /\ UNCHANGED <<now, balance, sched, claimedSinceSched>>

Next ==
    \/ NextBlock
    \/ \E start \in Times, n \in PeriodCounts, w \in PeriodSecs, lim \in Limits :
           Create(start, n, w, lim) \/ Update(start, n, w, lim)
    \/ \E amt \in Amounts : Claim(amt)
    \/ Delete

Spec == Init /\ [][Next]_vars

ClaimStep == \E amt \in Amounts : Claim(amt)

(***************************************************************************)
(* Properties                                                              *)
(***************************************************************************)

\* A claim moves period_start_time by whole withdrawal periods (through the
\* signed division and the uint32 cast of the claim's modify), and a claim
\* made once the period has started leaves a period that contains the
\* head block time, so claimed_this_period counts the current period.
ClaimKeepsSchedule ==
    [][ClaimStep =>
          LET w == permit.withdrawal_period_sec
          IN  /\ (permit'.period_start_time - permit.period_start_time) % w = 0
              /\ now >= permit.period_start_time =>
                    /\ permit'.period_start_time <= now
                    /\ now < permit'.period_start_time + w]_vars

\* No funds move to the authorized account before the period_start_time
\* the withdrawing account chose in its create or update operation.
NoClaimBeforeStart ==
    [][ClaimStep => now >= sched]_vars

\* claimed_this_period only counts amounts claimed under the schedule the
\* last create or update set: an update starts the new schedule afresh.
ClaimedOnlyCountsCurrentSchedule ==
    permit.exists => permit.claimed_this_period <= claimedSinceSched

\* A permission never expires before the period_start_time it was given:
\* the expiration create and update store lies after the schedule's start.
ExpiresAfterStart ==
    permit.exists => permit.expiration > sched

=============================================================================
