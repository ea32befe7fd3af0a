------------------------------- MODULE Custody -------------------------------
(***************************************************************************)
(* The requests of payout.controller.ts and bills.controller.ts as a whole *)
(* -- spendToUser, payBill, spendToBank with its transfer to the treasury, *)
(* and cashout -- together with the tokens behind the ledger: the users'   *)
(* deposit wallets, Kudi's treasury and the Deposit rows the worker and    *)
(* the reconciliation snapshot see.                                        *)
(*                                                                         *)
(* Every request is one execution that pauses at each await, so requests   *)
(* interleave; a credit is Ledger's creditBalanceAtomic, in flight in      *)
(* call[r].  An external deposit is a reference too: its tokens arrive,    *)
(* then the worker credits them (module Deposits says when it does).       *)
(*                                                                         *)
(*   wallet      tokens in each user's deposit wallet                      *)
(*   treasury    tokens in the treasury wallet                             *)
(*   moving      the transaction wallet -> treasury of a reference         *)
(*   userRow     the users whose User row is in the database: registerUser *)
(*               answers from memory and writes the row without await      *)
(*   depositRow  "Deposit" rows: <<r, cashOutStatus>>                      *)
(*   stage       how far the request of a reference is                     *)
(*   answer      what the client was told                                  *)
(*   payout      the references whose naira transfer a provider accepted   *)
(*   snap        the reconciliation snapshot being taken, or the last one  *)
(***************************************************************************)
EXTENDS Ledger, Sequences

CONSTANTS
    Route,          \* Route[r]: what kind of request draws r
    NewUsers,       \* users that exist in memory only, until their row is written
    WalletAtStart,  \* WalletAtStart[u]: tokens in u's deposit wallet
    TreasuryAtStart,
    Faults          \* which of FaultKinds may happen

Routes == {"deposit", "transfer", "bill", "bank", "cashout", "cashoutNGN"}
FaultKinds == {"crash", "lost_answer", "slow_chain", "db_error"}

Stages == {"new", "swept", "sent", "confirmed", "debited", "recorded",
           "released", "crediting", "failing", "done"}
Answers == {"none", "ok", "refused", "reversed", "failed"}

ASSUME CustodyAssumption ==
    /\ Callers = Refs
    /\ Route \in [Refs -> Routes]
    /\ NewUsers \subseteq Users
    /\ WalletAtStart \in [Users -> Nat]
    /\ TreasuryAtStart \in Nat
    /\ Faults \subseteq FaultKinds

VARIABLES wallet, treasury, moving, userRow, depositRow, stage, answer, payout, snap

chainVars == <<wallet, treasury, moving>>
requestVars == <<stage, answer, payout>>
otherVars == <<userRow, depositRow, snap>>
custodyVars == <<storeVars, call, chainVars, requestVars, otherVars>>

CustodyTypeOK ==
    /\ TypeOK
    /\ wallet \in [Users -> Int]
    /\ treasury \in Int
    /\ moving \in [Refs -> {"none", "submitted", "landed", "dropped"}]
    /\ userRow \subseteq Users
    /\ depositRow \subseteq Refs \X {"NULL", "CONFIRMED", "FAILED"}
    /\ stage \in [Refs -> Stages]
    /\ answer \in [Refs -> Answers]
    /\ payout \subseteq Refs
    /\ snap \in [stage : {"idle", "reading", "recorded"}, liability : Int, pending : Nat]

CustodyInit ==
    /\ Init
    /\ wallet = WalletAtStart
    /\ treasury = TreasuryAtStart
    /\ moving = [r \in Refs |-> "none"]
    /\ userRow = Users \ NewUsers
    /\ depositRow = {}
    /\ stage \in [Refs -> {"new", "done"}]    \* "done": a request never made
    /\ answer = [r \in Refs |-> "none"]
    /\ payout = {}
    /\ snap = [stage |-> "idle", liability |-> 0, pending |-> 0]

Goes(r, from, to) == stage[r] = from /\ stage' = [stage EXCEPT ![r] = to]

Answers_(r, from, said) ==
    /\ Goes(r, from, "done")
    /\ answer' = [answer EXCEPT ![r] = said]

IsCashout(r) == Route[r] \in {"cashout", "cashoutNGN"}

-----------------------------------------------------------------------------
(* The chain.                                                              *)

\* Somebody sends tokens to a deposit wallet.
Arrive(r) ==
    /\ Route[r] = "deposit"
    /\ Goes(r, "new", "confirmed")
    /\ wallet' = [wallet EXCEPT ![Payee[r]] = @ + Amount[r]]
    /\ UNCHANGED <<storeVars, call, treasury, moving, answer, payout, otherVars>>

\* A submitted transfer executes if the wallet covers it by then.
Land(r) ==
    /\ moving[r] = "submitted"
    /\ wallet[Payer[r]] >= Amount[r]
    /\ moving' = [moving EXCEPT ![r] = "landed"]
    /\ wallet' = [wallet EXCEPT ![Payer[r]] = @ - Amount[r]]
    /\ treasury' = treasury + Amount[r]
    /\ UNCHANGED <<storeVars, call, requestVars, otherVars>>

Drop(r) ==
    /\ moving[r] = "submitted"
    /\ wallet[Payer[r]] < Amount[r] \/ "slow_chain" \in Faults
    /\ moving' = [moving EXCEPT ![r] = "dropped"]
    /\ UNCHANGED <<storeVars, call, wallet, treasury, requestVars, otherVars>>

\* What sendCrypto leaves on the chain: a transaction if it returns one, none if
\* it throws -- unless the answer was lost on the way back.
SendReturns(r) == moving' = [moving EXCEPT ![r] = "submitted"]

SendThrows(r) ==
    \/ UNCHANGED moving
    \/ "lost_answer" \in Faults /\ SendReturns(r)

-----------------------------------------------------------------------------
(* The worker credits a deposit: one transaction on ProcessedSignature, the *)
(* account, the journal and the Deposit row.                               *)

\* (mutant) the signature is not marked processed
CreditDeposit_Again(r) ==
    /\ Route[r] = "deposit"
    /\ stage[r] = "confirmed"
    /\ Available(Payee[r]) < 9
    /\ CreditTx("credit", r)
    /\ depositRow' = depositRow \cup {<<r, "NULL">>}
    /\ UNCHANGED <<call, chainVars, userRow, requestVars, snap>>

CreditDeposit(r) ==
    /\ Route[r] = "deposit"
    /\ Payee[r] \in userRow
    /\ Goes(r, "confirmed", "done")
    /\ CreditTx("credit", r)
    /\ depositRow' = depositRow \cup {<<r, "NULL">>}
    /\ UNCHANGED <<call, chainVars, userRow, answer, payout, snap>>

-----------------------------------------------------------------------------
(* The debit every spend makes, and its refusal.                           *)

\* (mutant) the sweep's outcome is not waited for
DebitFrom_Unconfirmed(r) ==
    CASE Route[r] \in {"transfer", "bill"} -> "new"
      [] Route[r] = "bank" -> "swept"
      [] IsCashout(r) -> "sent"
      [] OTHER -> "done"

\* Where in its handler the debit stands.
DebitFrom(r) ==
    CASE Route[r] \in {"transfer", "bill"} -> "new"
      [] Route[r] = "bank" -> "swept"
      [] IsCashout(r) -> "confirmed"
      [] OTHER -> "done"

\* cashout debits as CASHOUT_CRYPTO and without a daily limit.
Affordable(r) ==
    IF IsCashout(r) THEN Available(Payer[r]) >= Amount[r] ELSE CanDebit(r, TRUE)

DebitNow(r) ==
    IF IsCashout(r)
    THEN /\ Book("cashout", r, Available(Payer[r]) - Amount[r])
         /\ UNCHANGED limitVars
    ELSE DebitTx(r, TRUE)

DebitOk(r) ==
    /\ Route[r] \in {"transfer", "bank", "cashout", "cashoutNGN"}
    /\ Goes(r, DebitFrom(r), "debited")
    /\ Affordable(r)
    /\ DebitNow(r)
    /\ UNCHANGED <<call, chainVars, answer, payout, otherVars>>

\* payBill answers "success" as soon as the debit is made: no biller is called.
PayBill(r) ==
    /\ Route[r] = "bill"
    /\ Affordable(r)
    /\ DebitNow(r)
    /\ Answers_(r, "new", "ok")
    /\ UNCHANGED <<call, chainVars, payout, otherVars>>

\* (mutant) a transfer whose debit is refused goes on to the credit
DebitRefused_GoesOn(r) ==
    /\ Route[r] = "transfer"
    /\ ~Affordable(r)
    /\ Goes(r, "new", "debited")
    /\ UNCHANGED <<storeVars, call, chainVars, answer, payout, otherVars>>

\* The debit throws: INSUFFICIENT_BALANCE, DAILY_LIMIT_EXCEEDED or the database.
DebitRefused(r) ==
    /\ ~Affordable(r) \/ "db_error" \in Faults
    /\ IF IsCashout(r)
       THEN Goes(r, DebitFrom(r), "failing") /\ UNCHANGED answer
       ELSE Route[r] # "deposit" /\ Answers_(r, DebitFrom(r), "refused")
    /\ UNCHANGED <<storeVars, call, chainVars, payout, otherVars>>

-----------------------------------------------------------------------------
(* spendToUser: a debit, then a credit under rec_.                         *)

\* The row of a user that registerUser made up for the handle is written in the
\* background, some time after the request began.
PersistUser(r) ==
    /\ stage[r] # "new"
    /\ Payee[r] \notin userRow
    /\ userRow' = userRow \cup {Payee[r]}
    /\ UNCHANGED <<storeVars, call, chainVars, requestVars, depositRow, snap>>

StartCredit(r) ==
    /\ \/ Route[r] = "transfer" /\ Goes(r, "debited", "crediting") /\ BeginCredit(r, "credit", r)
       \/ Route[r] = "bank" /\ Goes(r, "released", "crediting") /\ BeginCredit(r, "reversal", r)
    /\ UNCHANGED <<chainVars, answer, payout, otherVars>>

LockNothing(r) ==
    /\ ReadUnlocked(r)
    /\ UNCHANGED <<chainVars, requestVars, otherVars>>

\* creditBalanceAtomic returns.  The rows it inserts refer to the User row.
CreditReturns(r) ==
    /\ \/ FinishUnchanged(r)
       \/ FinishLocked(r)
       \/ FinishUnlocked(r) /\ Owner(r) \in userRow
    /\ Answers_(r, "crediting", IF Route[r] = "bank" THEN "reversed" ELSE "ok")
    /\ UNCHANGED <<chainVars, payout, otherVars>>

\* creditBalanceAtomic throws; neither handler undoes the debit.
CreditThrows(r) ==
    /\ "db_error" \in Faults \/ (call[r] # NoCall /\ Owner(r) \notin userRow)
    /\ Abort(r)
    /\ Answers_(r, "crediting", "failed")
    /\ UNCHANGED <<chainVars, payout, otherVars>>

-----------------------------------------------------------------------------
(* spendToBank: sweep, debit, provider, refund.                            *)

\* The transfer to the treasury is tried first; no wallet, no treasury address
\* and every error of the send are ignored.
BankSweep(r) ==
    /\ Route[r] = "bank"
    /\ Goes(r, "new", "swept")
    /\ SendReturns(r) \/ SendThrows(r)
    /\ UNCHANGED <<storeVars, call, wallet, treasury, answer, payout, otherVars>>

ProviderAccepts(r) ==
    /\ \/ Route[r] = "bank" /\ Answers_(r, "debited", "ok")
       \/ Route[r] = "cashoutNGN" /\ Answers_(r, "recorded", "ok")
    /\ payout' = payout \cup {r}
    /\ UNCHANGED <<storeVars, call, chainVars, otherVars>>

\* (mutant) the answer promises a refund that was never started
BankFails_NoRefund(r) ==
    /\ Route[r] = "bank"
    /\ Answers_(r, "debited", "reversed")
    /\ ReleaseSpendLimit(r)
    /\ UNCHANGED <<call, chainVars, payout, otherVars>>

\* The limit is released, then the balance is credited under rev_.
BankFails(r) ==
    /\ Route[r] = "bank"
    /\ Goes(r, "debited", "released")
    /\ ReleaseSpendLimit(r)
    /\ UNCHANGED <<call, chainVars, answer, payout, otherVars>>

-----------------------------------------------------------------------------
(* cashout: balance check, sweep, confirmation, debit, row, provider.      *)

CashoutRefused(r) ==
    /\ IsCashout(r)
    /\ wallet[Payer[r]] < Amount[r]
    /\ Answers_(r, "new", "refused")
    /\ UNCHANGED <<storeVars, call, chainVars, payout, otherVars>>

\* The balance was enough when it was read; it is sent afterwards.
CashoutSends(r) ==
    /\ IsCashout(r)
    /\ wallet[Payer[r]] >= Amount[r]
    /\ \/ Goes(r, "new", "sent") /\ SendReturns(r)
       \/ Goes(r, "new", "failing") /\ SendThrows(r)
    /\ UNCHANGED <<storeVars, call, wallet, treasury, answer, payout, otherVars>>

WaitConfirmed(r) ==
    /\ IsCashout(r)
    /\ moving[r] = "landed"
    /\ Goes(r, "sent", "confirmed")
    /\ UNCHANGED <<storeVars, call, chainVars, answer, payout, otherVars>>

WaitTimesOut(r) ==
    /\ IsCashout(r)
    /\ moving[r] = "dropped" \/ "slow_chain" \in Faults
    /\ Goes(r, "sent", "failing")
    /\ UNCHANGED <<storeVars, call, chainVars, answer, payout, otherVars>>

RecordCashout(r) ==
    /\ IsCashout(r)
    /\ \/ /\ Goes(r, "debited", "recorded")
          /\ depositRow' = depositRow \cup {<<r, "CONFIRMED">>}
       \/ "db_error" \in Faults /\ Goes(r, "debited", "failing") /\ UNCHANGED depositRow
    /\ UNCHANGED <<storeVars, call, chainVars, userRow, answer, payout, snap>>

CashoutDone(r) ==
    /\ Route[r] = "cashout"
    /\ Answers_(r, "recorded", "ok")
    /\ UNCHANGED <<storeVars, call, chainVars, payout, otherVars>>

\* Every provider refused: the debit stays and the request fails.
CashoutNGNFails(r) ==
    /\ Route[r] = "cashoutNGN"
    /\ Goes(r, "recorded", "failing")
    /\ UNCHANGED <<storeVars, call, chainVars, answer, payout, otherVars>>

\* The catch of cashout: a FAILED row under the reference, nothing undone.
CashoutFails(r) ==
    /\ IsCashout(r)
    /\ Answers_(r, "failing", "failed")
    /\ \/ depositRow' = depositRow \cup {<<r, "FAILED">>}
       \/ "db_error" \in Faults /\ UNCHANGED depositRow
    /\ UNCHANGED <<storeVars, call, chainVars, payout, userRow, snap>>

-----------------------------------------------------------------------------
(* recordReconciliationSnapshot: separate statements, balances first.      *)

Total(f) == SumFunctionOnSet(f, DOMAIN f)

LiabilityNow == SumFunctionOnSet(account, {u \in Users : HasAccount(u)})

PendingNow == SumFunctionOnSet(Amount, {r \in Refs : <<r, "NULL">> \in depositRow})

\* (mutant) the deposits are read before the balances
TableOrder_Reversed == <<"deposits", "balances">>

TableOrder == <<"balances", "deposits">>

Reads(table) ==
    IF table = "balances"
    THEN [snap EXCEPT !.liability = LiabilityNow]
    ELSE [snap EXCEPT !.pending = PendingNow]

SnapStart ==
    /\ snap.stage # "reading"
    /\ snap' = [Reads(TableOrder[1]) EXCEPT !.stage = "reading"]
    /\ UNCHANGED <<storeVars, call, chainVars, requestVars, userRow, depositRow>>

SnapEnd ==
    /\ snap.stage = "reading"
    /\ snap' = [Reads(TableOrder[2]) EXCEPT !.stage = "recorded"]
    /\ UNCHANGED <<storeVars, call, chainVars, requestVars, userRow, depositRow>>

-----------------------------------------------------------------------------

\* The API restarts: every request and every open transaction is gone, the
\* users that were only in memory too, unless their rows were written.
Restart ==
    /\ "crash" \in Faults
    /\ \E r \in Refs : stage[r] \notin {"new", "done"} /\ Route[r] # "deposit"
    /\ stage' = [r \in Refs |-> IF stage[r] = "new" \/ Route[r] = "deposit"
                                THEN stage[r] ELSE "done"]
    /\ call' = [p \in Callers |-> NoCall]
    /\ UNCHANGED <<storeVars, chainVars, answer, payout, otherVars>>

CustodyNext ==
    \/ \E r \in Refs :
          \/ Arrive(r) \/ CreditDeposit(r) \/ Land(r) \/ Drop(r)
          \/ DebitOk(r) \/ DebitRefused(r) \/ PayBill(r)
          \/ PersistUser(r) \/ StartCredit(r) \/ LockNothing(r)
          \/ CreditReturns(r) \/ CreditThrows(r)
          \/ BankSweep(r) \/ ProviderAccepts(r) \/ BankFails(r)
          \/ CashoutRefused(r) \/ CashoutSends(r)
          \/ WaitConfirmed(r) \/ WaitTimesOut(r)
          \/ RecordCashout(r) \/ CashoutDone(r) \/ CashoutNGNFails(r) \/ CashoutFails(r)
    \/ SnapStart \/ SnapEnd
    \/ Restart

CustodySpec == CustodyInit /\ [][CustodyNext]_custodyVars

-----------------------------------------------------------------------------
(* Properties.                                                             *)

\* Kudi never owes its users more than the tokens it holds for them in deposit
\* wallets and treasury, whatever requests overlap, fail half-way or are cut off
\* by a restart: each handler's order of moving, debiting, crediting and
\* refunding errs to the user's cost, never to Kudi's.
Solvent ==
    Total([u \in Users |-> Available(u)]) <= Total(wallet) + treasury

\* Money received from another user was taken from that user: spendToUser's
\* credit, a transaction of its own, never runs without its debit.
ReceivedWasSent ==
    \A r \in Refs : Route[r] = "transfer" /\ Booked("credit", r) => Booked("debit", r)

\* Naira is paid out only for what left the user's balance, and for a cashout
\* only after its tokens have reached the treasury.
PaidWasDebited ==
    \A r \in payout :
        IF IsCashout(r)
        THEN Booked("cashout", r) /\ moving[r] = "landed"
        ELSE Booked("debit", r)

\* What the client is told is so: "ok" means the movements are booked, and
\* "PAYOUT_FAILED_REVERSED ... Balance has been restored" (spendToBank) that the
\* refund is booked and the limit no longer counts the spend.
AnswerIsTrue ==
    \A r \in Refs :
        /\ answer[r] = "reversed" => Booked("reversal", r) /\ limitRow[r] # "APPLIED"
        /\ answer[r] = "ok" /\ Route[r] = "transfer" => Booked("credit", r)
        /\ answer[r] = "ok" /\ IsCashout(r) => <<r, "CONFIRMED">> \in depositRow
        /\ answer[r] = "ok" /\ Route[r] = "cashoutNGN" => r \in payout

\* In a recorded snapshot the liability is covered by what the same snapshot says
\* came in: the balances are read before the deposits, so a deposit credited
\* between the two statements is never owed without being counted.
SnapshotIsBacked ==
    snap.stage = "recorded" => snap.liability <= Total(Opening) + snap.pending

-----------------------------------------------------------------------------
(* What Solvent and SnapshotIsBacked need of the state the API starts in.  *)

\* A user without an account row has had no balance yet.
NoHiddenBalance ==
    /\ IsFiniteSet(Users)
    /\ \A u \in Users \ HasRow : Opening[u] = 0

\* The balances of the start are covered.
BackedAtStart == Total(Opening) <= Total(WalletAtStart) + TreasuryAtStart
=============================================================================
