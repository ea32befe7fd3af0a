---------------------------- MODULE Withdrawals -----------------------------
(***************************************************************************)
(* On-chain sends: LedgerService.createWithdrawal in the API, the          *)
(* "Withdrawal" table, the jobs of the worker that broadcast and confirm,  *)
(* and the chain behind Privy.                                             *)
(*                                                                         *)
(* The API starts the INSERT of the Withdrawal row without awaiting it and *)
(* then debits the user: two database calls in flight at once.  A run of   *)
(* processCryptoWithdrawals claims every due PENDING row in one            *)
(* transaction and works through them one by one; several runs are live at *)
(* the same time.  A row that stays PROCESSING with no hash is given back  *)
(* by recoverStaleProcessingWithdrawals.                                   *)
(*                                                                         *)
(* What the surroundings may do wrong is the constant Faults:              *)
(*   "crash"       a process dies, or a run of the job throws, at any step *)
(*   "lostAnswer"  Privy or the RPC node acts and the answer never arrives *)
(*   "lateLanding" a transaction lands after its confirmation timed out    *)
(*   "dbError"     a write of the API or of the worker is refused          *)
(*   "slow"        a live run holds a row for longer than the five minutes *)
(*                 after which the row counts as stale                     *)
(*   "netting"     the user's wallet covers only a part of the amount      *)
(***************************************************************************)
EXTENDS LedgerStore, Sequences

CONSTANTS
    Workers,        \* the live runs of processCryptoWithdrawals
    Faults,
    MaxAttempts,    \* attempts before a withdrawal fails (3 in the code)
    BatchLimit,     \* rows one run claims at most (10 in the code)
    MaxClaims,      \* bound: claims of one row
    MaxSends        \* bound: transactions broadcast for one reference

AllFaults == {"crash", "lostAnswer", "lateLanding", "dbError", "slow", "netting"}

ASSUME WithdrawalsAssumption ==
    /\ Faults \subseteq AllFaults
    /\ {MaxAttempts, BatchLimit, MaxClaims, MaxSends} \subseteq Nat \ {0}

VARIABLES
    request,        \* the two database calls of createWithdrawal
    row,            \* the "Withdrawal" rows
    sends,          \* the transactions given to the chain, per reference
    worker          \* the live runs of the job

vars == <<account, journal, latest, limitRow, today, request, row, sends, worker>>

\* The amount has two parts: netting pays part 1 from the user's wallet and
\* part 2 from the treasury, every other send pays both at once.
Parts == {1, 2}

Statuses == {"NONE", "PENDING", "PROCESSING", "BROADCAST", "CONFIRMED", "FAILED"}
Final == {"CONFIRMED", "FAILED"}

Sends == [parts : SUBSET Parts, state : {"pending", "landed", "dropped"}]

\* A job: its reference and the attempts its row had when it was claimed.
Jobs == [ref : Refs, attempts : Nat]

\* What a run does next with its current job.
Stages == {"idle", "choose", "send", "direct", "cover", "broadcast", "wait", "confirm",
           "failed", "verify", "markFailed", "reverse", "refund"}

\* persistWithdrawal and debitBalanceAtomic for one reference.
Calls == [persist : {"idle", "inflight", "done", "lost"},
          debit : {"idle", "inflight", "ok", "refused"}]

\* hash is an index in sends[r], 0 for none.
Rows == [status : Statuses, hash : Nat, attempts : Nat, due : BOOLEAN]
Runs == [stage : Stages, job : Jobs, todo : SUBSET Jobs, hash : Nat]
IdleRuns == [stage : {"idle"}]

TypeOK ==
    /\ StoreTypeOK
    /\ request \in [Refs -> Calls]
    /\ row \in [Refs -> Rows]
    /\ sends \in [Refs -> Seq(Sends)]
    /\ worker \in [Workers -> Runs \cup IdleRuns]

Idle == [stage |-> "idle"]

Init ==
    /\ StoreInit
    /\ request = [r \in Refs |-> [persist |-> "idle", debit |-> "idle"]]
    /\ row = [r \in Refs |-> [status |-> "NONE", hash |-> 0, attempts |-> 0, due |-> FALSE]]
    /\ sends = [r \in Refs |-> <<>>]
    /\ worker = [w \in Workers |-> Idle]

-----------------------------------------------------------------------------
(* The API.                                                                *)

\* spendOnChain: the checks passed, createWithdrawal issues both calls.
Request(r) ==
    /\ request[r].persist = "idle"
    /\ request' = [request EXCEPT ![r] = [persist |-> "inflight", debit |-> "inflight"]]
    /\ UNCHANGED <<storeVars, row, sends, worker>>

\* persistWithdrawal: the row exists from here on, debited or not.
PersistRow(r) ==
    /\ request[r].persist = "inflight"
    /\ request' = [request EXCEPT ![r].persist = "done"]
    /\ row' = [row EXCEPT ![r].status = "PENDING", ![r].due = TRUE]
    /\ UNCHANGED <<storeVars, sends, worker>>

\* The INSERT fails: persistWithdrawal only logs it.
PersistFails(r) ==
    /\ "dbError" \in Faults
    /\ request[r].persist = "inflight"
    /\ request' = [request EXCEPT ![r].persist = "lost"]
    /\ UNCHANGED <<storeVars, row, sends, worker>>

\* debitBalanceAtomic, without a daily limit: crypto sends are exempt.
DebitOk(r) ==
    /\ request[r].debit = "inflight"
    /\ DebitTx(r, FALSE)
    /\ request' = [request EXCEPT ![r].debit = "ok"]
    /\ UNCHANGED <<row, sends, worker>>

DebitRefused(r) ==
    /\ request[r].debit = "inflight"
    /\ ~CanDebit(r, FALSE) \/ "dbError" \in Faults
    /\ request' = [request EXCEPT ![r].debit = "refused"]
    /\ UNCHANGED <<storeVars, row, sends, worker>>

\* The API dies with calls in flight: each is rolled back, the other may have
\* been committed.
ApiCrash(r) ==
    /\ "crash" \in Faults
    /\ "inflight" \in {request[r].persist, request[r].debit}
    /\ request' = [request EXCEPT ![r] =
                     [persist |-> IF @.persist = "inflight" THEN "lost" ELSE @.persist,
                      debit |-> IF @.debit = "inflight" THEN "refused" ELSE @.debit]]
    /\ UNCHANGED <<storeVars, row, sends, worker>>

-----------------------------------------------------------------------------
(* Claiming rows and giving them back.                                     *)

Busy(w) == worker[w].stage # "idle"

\* The run has claimed r and is not done with it.
Holds(w, r) ==
    /\ Busy(w)
    /\ r \in {j.ref : j \in worker[w].todo \cup {worker[w].job}}

Due == {r \in Refs : row[r].status = "PENDING" /\ row[r].due /\ row[r].attempts < MaxClaims}

Start(job, todo) == [stage |-> "choose", job |-> job, todo |-> todo, hash |-> 0]

\* (mutant) the rows are read but not marked
Claim_Unmarked(w) ==
    /\ ~Busy(w)
    /\ Due # {}
    /\ \E r \in Due :
         worker' = [worker EXCEPT ![w] =
                      Start([ref |-> r, attempts |-> row[r].attempts], {})]
    /\ UNCHANGED <<storeVars, request, row, sends>>

\* claimPendingWithdrawals: SELECT ... FOR UPDATE SKIP LOCKED and the UPDATE
\* are one transaction.  The jobs carry the attempts from before it.
Claim(w) ==
    /\ ~Busy(w)
    /\ \E batch \in SUBSET Due :
         LET jobs == {[ref |-> r, attempts |-> row[r].attempts] : r \in batch} IN
         /\ batch # {}
         /\ batch = Due \/ Cardinality(batch) = BatchLimit
         /\ Cardinality(batch) <= BatchLimit
         /\ row' = [r \in Refs |->
                      IF r \in batch
                      THEN [row[r] EXCEPT !.status = "PROCESSING", !.attempts = @ + 1]
                      ELSE row[r]]
         /\ \E first \in jobs :
              worker' = [worker EXCEPT ![w] = Start(first, jobs \ {first})]
    /\ UNCHANGED <<storeVars, request, sends>>

\* nextAttemptAt has passed.  The backoff (15 s and more) outlasts the debit's
\* transaction, which Prisma ends after 5 s.
BackoffElapses(r) ==
    /\ row[r].status = "PENDING"
    /\ ~row[r].due
    /\ request[r].debit # "inflight"
    /\ row' = [row EXCEPT ![r].due = TRUE]
    /\ UNCHANGED <<storeVars, request, sends, worker>>

\* (mutant) the status is not asked for
RecoverStale_AnyStatus(r) ==
    /\ row[r].status # "NONE"
    /\ row[r].hash = 0
    /\ request[r].debit # "inflight"
    /\ "slow" \in Faults \/ \A w \in Workers : ~Holds(w, r)
    /\ row' = [row EXCEPT ![r].status = "PENDING", ![r].due = TRUE]
    /\ UNCHANGED <<storeVars, request, sends, worker>>

\* recoverStaleProcessingWithdrawals, every minute and when the worker starts:
\* the row was last written five minutes ago, longer than a debit can take.
RecoverStale(r) ==
    /\ row[r].status = "PROCESSING"
    /\ row[r].hash = 0
    /\ request[r].debit # "inflight"
    /\ "slow" \in Faults \/ \A w \in Workers : ~Holds(w, r)
    /\ row' = [row EXCEPT ![r].status = "PENDING", ![r].due = TRUE]
    /\ UNCHANGED <<storeVars, request, sends, worker>>

-----------------------------------------------------------------------------
(* One job of a run: send, mark, wait, mark.                               *)

Job(w) == worker[w].job
At(w, stage) == Busy(w) /\ worker[w].stage = stage
GoTo(w, stage) == worker' = [worker EXCEPT ![w].stage = stage]

\* The loop takes the next job of the batch, or the run ends.
NextJob(w) ==
    IF worker[w].todo = {}
    THEN worker' = [worker EXCEPT ![w] = Idle]
    ELSE \E job \in worker[w].todo :
           worker' = [worker EXCEPT ![w] = Start(job, worker[w].todo \ {job})]

\* The transaction reaches the chain.
Give(r, parts) ==
    /\ Len(sends[r]) < MaxSends
    /\ sends' = [sends EXCEPT ![r] = Append(@, [parts |-> parts, state |-> "pending"])]

\* Case A, one wallet pays everything, or Case B: the user's wallet covers a
\* part only, and the treasury the rest.
ChooseWallets(w) ==
    /\ At(w, "choose")
    /\ \/ GoTo(w, "send")
       \/ "netting" \in Faults /\ GoTo(w, "direct")
    /\ UNCHANGED <<storeVars, request, row, sends>>

\* What the transaction of a stage pays.  Case A, and Case B when the user's
\* wallet holds nothing: both parts.
Paying(w) ==
    CASE At(w, "send") -> Parts
      [] At(w, "direct") -> {1}
      [] OTHER -> {2}

\* The send whose hash is kept in primaryTxHash: the whole amount, or the
\* treasury's cover of the rest, whatever became of the direct leg.
Send(w) ==
    /\ At(w, "send") \/ At(w, "cover")
    /\ Give(Job(w).ref, Paying(w))
    /\ worker' = [worker EXCEPT ![w].stage = "broadcast",
                                ![w].hash = Len(sends[Job(w).ref]) + 1]
    /\ UNCHANGED <<storeVars, request, row>>

\* Case B, step 1: an error is only logged.
SendDirect(w) ==
    /\ At(w, "direct")
    /\ \/ Give(Job(w).ref, Paying(w))
       \/ UNCHANGED sends
    /\ GoTo(w, "cover")
    /\ UNCHANGED <<storeVars, request, row>>

\* sendCrypto throws and nothing reached the chain.
SendRefused(w) ==
    /\ At(w, "send") \/ At(w, "cover")
    /\ GoTo(w, "failed")
    /\ UNCHANGED <<storeVars, request, row, sends>>

\* sendCrypto throws although the transaction is out, and that ends the attempt.
SendAnswerLost(w) ==
    /\ "lostAnswer" \in Faults
    /\ At(w, "send") \/ At(w, "cover")
    /\ Give(Job(w).ref, Paying(w))
    /\ GoTo(w, "failed")
    /\ UNCHANGED <<storeVars, request, row>>

\* The same inside sendCryptoWithGasRetry: it will broadcast once more.
SendAgain(w) ==
    /\ "lostAnswer" \in Faults
    /\ At(w, "send") \/ At(w, "direct")
    /\ Give(Job(w).ref, Paying(w))
    /\ UNCHANGED <<storeVars, request, row, worker>>

\* markWithdrawal: the hash is kept when none is given (COALESCE), and nothing
\* is asked about the status the row has.
Mark(r, status, hash, due) ==
    row' = [row EXCEPT ![r].status = status,
                       ![r].hash = IF hash = 0 THEN @ ELSE hash,
                       ![r].due = due]

MarkBroadcast(w) ==
    /\ At(w, "broadcast")
    /\ Mark(Job(w).ref, "BROADCAST", worker[w].hash, row[Job(w).ref].due)
    /\ GoTo(w, "wait")
    /\ UNCHANGED <<storeVars, request, sends>>

Sent(w) == sends[Job(w).ref][worker[w].hash]

\* (mutant) a transaction that was found but not executed counts as confirmed
WaitConfirmed_Seen(w) ==
    /\ At(w, "wait")
    /\ Sent(w).state \in {"landed", "dropped"}
    /\ GoTo(w, "confirm")
    /\ UNCHANGED <<storeVars, request, row, sends>>

\* waitForConfirmation saw the transaction.
WaitConfirmed(w) ==
    /\ At(w, "wait")
    /\ Sent(w).state = "landed"
    /\ GoTo(w, "confirm")
    /\ UNCHANGED <<storeVars, request, row, sends>>

\* (mutant) one look at the chain instead of polling
WaitTimesOut_Impatient(w) ==
    /\ At(w, "wait")
    /\ Sent(w).state # "landed"
    /\ GoTo(w, "failed")
    /\ UNCHANGED <<storeVars, request, row, sends>>

\* waitForConfirmation gave up: the transaction was dropped, is still on its
\* way, or is there and the RPC node does not say so.
WaitTimesOut(w) ==
    /\ At(w, "wait")
    /\ \/ Sent(w).state = "dropped"
       \/ Sent(w).state = "pending" /\ "lateLanding" \in Faults
       \/ Sent(w).state = "landed" /\ "lostAnswer" \in Faults
    /\ GoTo(w, "failed")
    /\ UNCHANGED <<storeVars, request, row, sends>>

MarkConfirmed(w) ==
    /\ At(w, "confirm")
    /\ Mark(Job(w).ref, "CONFIRMED", worker[w].hash, row[Job(w).ref].due)
    /\ NextJob(w)
    /\ UNCHANGED <<storeVars, request, sends>>

\* One of the two UPDATEs of the try block throws.
MarkFails(w) ==
    /\ "dbError" \in Faults
    /\ At(w, "broadcast") \/ At(w, "confirm")
    /\ GoTo(w, "failed")
    /\ UNCHANGED <<storeVars, request, row, sends>>

-----------------------------------------------------------------------------
(* The catch block: retry, or verify, fail and refund.                     *)

LastAttempt(w) == Job(w).attempts + 1 >= MaxAttempts

\* The row is PENDING again, with the hash it has, after a backoff.
Retry(w) ==
    /\ At(w, "failed")
    /\ ~LastAttempt(w)
    /\ Mark(Job(w).ref, "PENDING", 0, FALSE)
    /\ NextJob(w)
    /\ UNCHANGED <<storeVars, request, sends>>

GiveUp(w) ==
    /\ At(w, "failed")
    /\ LastAttempt(w)
    /\ GoTo(w, IF worker[w].hash = 0 THEN "markFailed" ELSE "verify")
    /\ UNCHANGED <<storeVars, request, row, sends>>

\* The last look at the chain, for the hash of this attempt only.
VerifyConfirms(w) ==
    /\ At(w, "verify")
    /\ Sent(w).state = "landed"
    /\ Mark(Job(w).ref, "CONFIRMED", worker[w].hash, row[Job(w).ref].due)
    /\ NextJob(w)
    /\ UNCHANGED <<storeVars, request, sends>>

\* Not there, not seen, or seen while the UPDATE to CONFIRMED is refused: the
\* same catch takes both errors.
VerifyDenies(w) ==
    /\ At(w, "verify")
    /\ Sent(w).state # "landed" \/ {"lostAnswer", "dbError"} \cap Faults # {}
    /\ GoTo(w, "markFailed")
    /\ UNCHANGED <<storeVars, request, row, sends>>

\* (mutant) the refund is forgotten
MarkFailed_NoReversal(w) ==
    /\ At(w, "markFailed")
    /\ Mark(Job(w).ref, "FAILED", 0, row[Job(w).ref].due)
    /\ NextJob(w)
    /\ UNCHANGED <<storeVars, request, sends>>

MarkFailed(w) ==
    /\ At(w, "markFailed")
    /\ Mark(Job(w).ref, "FAILED", 0, row[Job(w).ref].due)
    /\ GoTo(w, "reverse")
    /\ UNCHANGED <<storeVars, request, sends>>

\* recordWithdrawalReversal, its two checks: no reversal yet, and a debit.
ReversalNeeded(w) ==
    /\ At(w, "reverse")
    /\ ~Booked("reversal", Job(w).ref)
    /\ ReversalAllowed("reversal", Job(w).ref)
    /\ GoTo(w, "refund")
    /\ UNCHANGED <<storeVars, request, row, sends>>

ReversalSkipped(w) ==
    /\ At(w, "reverse")
    /\ \/ Booked("reversal", Job(w).ref)
       \/ ~ReversalAllowed("reversal", Job(w).ref)
    /\ NextJob(w)
    /\ UNCHANGED <<storeVars, request, row, sends>>

\* (mutant) the balance is restored without an entry
ReversalApply_NoEntry(w) ==
    /\ At(w, "refund")
    /\ account' = [account EXCEPT ![Payer[Job(w).ref]] = @ + Amount[Job(w).ref]]
    /\ NextJob(w)
    /\ UNCHANGED <<journal, latest, limitRow, today, request, row, sends>>

\* The rest of the transaction: what was debited, fee included, goes back.
ReversalApply(w) ==
    /\ At(w, "refund")
    /\ CreditTx("reversal", Job(w).ref)
    /\ NextJob(w)
    /\ UNCHANGED <<request, row, sends>>

\* The worker dies, or the catch block throws and the rest of the batch is
\* dropped: rows keep what was committed.
RunEnds(w) ==
    /\ "crash" \in Faults
    /\ Busy(w)
    /\ worker' = [worker EXCEPT ![w] = Idle]
    /\ UNCHANGED <<storeVars, request, row, sends>>

-----------------------------------------------------------------------------
(* The chain.                                                              *)

\* A transaction is executed or dropped for good.  Unless transactions may
\* land late, that is settled while the run still waits for it.
Land(r, i) ==
    /\ sends[r][i].state = "pending"
    /\ sends' = [sends EXCEPT ![r][i].state = "landed"]
    /\ UNCHANGED <<storeVars, request, row, worker>>

Drop(r, i) ==
    /\ sends[r][i].state = "pending"
    /\ sends' = [sends EXCEPT ![r][i].state = "dropped"]
    /\ UNCHANGED <<storeVars, request, row, worker>>

-----------------------------------------------------------------------------

ApiNext(r) ==
    \/ Request(r) \/ PersistRow(r) \/ PersistFails(r)
    \/ DebitOk(r) \/ DebitRefused(r) \/ ApiCrash(r)

\* The steps of a run, its death excepted.
RunNext(w) ==
    \/ ChooseWallets(w) \/ Send(w) \/ SendDirect(w)
    \/ SendRefused(w) \/ SendAnswerLost(w) \/ SendAgain(w)
    \/ MarkBroadcast(w) \/ WaitConfirmed(w) \/ WaitTimesOut(w) \/ MarkConfirmed(w) \/ MarkFails(w)
    \/ Retry(w) \/ GiveUp(w) \/ VerifyConfirms(w) \/ VerifyDenies(w) \/ MarkFailed(w)
    \/ ReversalNeeded(w) \/ ReversalSkipped(w) \/ ReversalApply(w)

ChainNext(r) == \E i \in DOMAIN sends[r] : Land(r, i) \/ Drop(r, i)

Next ==
    \/ \E r \in Refs : ApiNext(r) \/ BackoffElapses(r) \/ RecoverStale(r) \/ ChainNext(r)
    \/ \E w \in Workers : Claim(w) \/ RunNext(w) \/ RunEnds(w)

Spec == Init /\ [][Next]_vars

\* Calls in flight return, the schedulers keep firing, a run that is alive
\* goes on, and the chain decides every transaction.
Fairness ==
    /\ \A r \in Refs :
         /\ WF_vars(PersistRow(r) \/ PersistFails(r))
         /\ WF_vars(DebitOk(r) \/ DebitRefused(r))
         /\ WF_vars(BackoffElapses(r))
         /\ WF_vars(RecoverStale(r))
         /\ WF_vars(ChainNext(r))
    /\ \A w \in Workers : WF_vars(Claim(w)) /\ WF_vars(RunNext(w))

FairSpec == Spec /\ Fairness

-----------------------------------------------------------------------------
(* Properties.                                                             *)

\* A withdrawal the user sees as CONFIRMED has a transaction on the chain,
\* through retries, crashes and rows given back: the status is written only
\* after the chain confirmed the hash that is written with it.
ConfirmedWasPaid ==
    \A r \in Refs : row[r].status = "CONFIRMED" =>
        /\ row[r].hash \in DOMAIN sends[r]
        /\ sends[r][row[r].hash].state = "landed"

\* At most one live run holds a row, through crashes and recoveries, unless a
\* run may outlive the five minutes.
ExclusiveHolder ==
    \A r \in Refs, v, w \in Workers : Holds(v, r) /\ Holds(w, r) => v = w

\* A CONFIRMED or FAILED row is never written again: nobody still holds it.
FinalStaysFinal ==
    [][\A r \in Refs : row[r].status \in Final => row'[r].status = row[r].status]_vars

\* The worker refunds only references that were debited.
RefundsWereDebited == \A r \in Refs : Booked("reversal", r) => Booked("debit", r)

\* The balances move as AccountBook promises whatever fails in between: no
\* refund is added twice, and none without the debit it gives back.
Accounts == INSTANCE AccountBook WITH
    balance <- [u \in Users |-> Available(u)],
    posted <- journal

ImplementsAccountBook == Accounts!BookSpec

Landed(r) == {i \in DOMAIN sends[r] : sends[r][i].state = "landed"}

\* How often each part of the amount was paid.
TimesPaid(r, part) == Cardinality({i \in Landed(r) : part \in sends[r][i].parts})

\* Nobody is paid twice for one reference.
PaidAtMostOnce == \A r \in Refs, part \in Parts : TimesPaid(r, part) <= 1

\* A withdrawal whose debit was refused is not paid.
RefusedIsNotPaid == \A r \in Refs : request[r].debit = "refused" => Landed(r) = {}

\* Without faults, and for a user whose wallet covers the amount, a withdrawal
\* settles as Settlement promises: paid once, or refunded once, never both.
Outcome == INSTANCE Settlement WITH
    paid <- [r \in Refs |-> TimesPaid(r, 1)],
    refunded <- {r \in Refs : Booked("reversal", r)}

ImplementsSettlement == Outcome!SettlementSpec

\* A debited withdrawal is paid or refunded in the end.
EveryDebitSettles ==
    \A r \in Refs : Booked("debit", r) ~> (Landed(r) # {} \/ Booked("reversal", r))
=============================================================================
