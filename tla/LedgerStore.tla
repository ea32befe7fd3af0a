----------------------------- MODULE LedgerStore -----------------------------
(***************************************************************************)
(* The Postgres tables that hold a Kudi user's money, and the transactions *)
(* of the API and of the worker that move it.  No process state is kept    *)
(* here: the modules of the callers (Ledger, Withdrawals, ...) extend this *)
(* one and decide when each transaction runs.                              *)
(*                                                                         *)
(*   account   "BalanceAccount".availableUSDC, NoRow while the user has no *)
(*             row (rows are created by the first transaction or read)     *)
(*   journal   the "LedgerEntry" rows, unique on (type, referenceId)       *)
(*   latest    resultingBalanceUSDC of the user's newest LedgerEntry       *)
(*   limitRow  the status of the "SpendLimitEntry" of a reference          *)
(*   today     the references whose SpendLimitEntry is dated today         *)
(*                                                                         *)
(* A reference (generateReference: time and random bytes) is drawn once    *)
(* per request and has one amount, one payer and one payee.  A row of the  *)
(* journal is a pair of a kind and a reference:                            *)
(*   "debit"     SPEND_DEBIT    under the reference                        *)
(*   "credit"    DEPOSIT_CREDIT under the reference (or its rec_ form)     *)
(*   "reversal"  DEPOSIT_CREDIT under rev_ and the reference               *)
(*   "cashout"   CASHOUT_CRYPTO under the reference                        *)
(***************************************************************************)
EXTENDS Integers, FiniteSets, Functions

CONSTANTS
    Users,          \* the user ids
    Refs,           \* the references requests draw
    Amount,         \* Amount[r]: what the request of reference r moves
    Payer,          \* Payer[r]: the user debited under r and refunded by rev_r
    Payee,          \* Payee[r]: the user credited under r
    DailyLimit,     \* DailyLimit[u]: the user's daily limit, in the same unit
    Opening,        \* Opening[u]: the balance the user's newest entry left
    HasRow,         \* the users who have a BalanceAccount row at the start
    NoRow           \* "this row does not exist"

Kinds == {"debit", "credit", "reversal", "cashout"}

ASSUME StoreAssumption ==
    /\ Amount \in [Refs -> Nat \ {0}]
    /\ Payer \in [Refs -> Users]
    /\ Payee \in [Refs -> Users]
    /\ DailyLimit \in [Users -> Nat]
    /\ Opening \in [Users -> Nat]
    /\ HasRow \subseteq Users
    /\ NoRow \notin Int

VARIABLES account, journal, latest, limitRow, today

storeVars == <<account, journal, latest, limitRow, today>>
limitVars == <<limitRow, today>>

StoreTypeOK ==
    /\ account \in [Users -> Int \cup {NoRow}]
    /\ journal \subseteq Kinds \X Refs
    /\ latest \in [Users -> Int]
    /\ limitRow \in [Refs -> {"NONE", "APPLIED", "RELEASED"}]
    /\ today \subseteq Refs

StoreInit ==
    /\ account = [u \in Users |-> IF u \in HasRow THEN Opening[u] ELSE NoRow]
    /\ journal = {}
    /\ latest = Opening
    /\ limitRow = [r \in Refs |-> "NONE"]
    /\ today = {}

-----------------------------------------------------------------------------
(* What the transactions read.                                             *)

\* The user a row of the journal belongs to.
Party(kind, r) == IF kind = "credit" THEN Payee[r] ELSE Payer[r]

Booked(kind, r) == <<kind, r>> \in journal

HasAccount(u) == account[u] # NoRow

\* The balance a transaction starts from: the account row, or, while there is
\* none, the seed taken from the newest entry.
Available(u) == IF HasAccount(u) THEN account[u] ELSE latest[u]

\* SUM(amountNGN) over the user's APPLIED SpendLimitEntry rows of today.
SpentToday(u) ==
    SumFunctionOnSet(Amount, {r \in today : Payer[r] = u /\ limitRow[r] = "APPLIED"})

\* (mutant) the limit is compared before this spend is added
WithinLimit_PastSpendsOnly(r) == SpentToday(Payer[r]) <= DailyLimit[Payer[r]]

WithinLimit(r) ==
    /\ DailyLimit[Payer[r]] > 0
    /\ SpentToday(Payer[r]) + Amount[r] <= DailyLimit[Payer[r]]

-----------------------------------------------------------------------------
(* What the transactions write.                                            *)

\* UPDATE "BalanceAccount" to the balance computed by the caller, creating the
\* row first when it is missing, and INSERT the entry ON CONFLICT DO NOTHING:
\* the balance moves even when the entry was there already.
Book(kind, r, balance) ==
    LET u == Party(kind, r) IN
    /\ account' = [account EXCEPT ![u] = balance]
    /\ journal' = journal \cup {<<kind, r>>}
    /\ latest' = IF Booked(kind, r) THEN latest ELSE [latest EXCEPT ![u] = balance]

\* debitBalanceAtomic: one transaction, serialised by the lock on the account
\* row, which it creates before it locks.  It throws, and leaves no trace, when
\* the balance or the limit does not cover the amount.
CanDebit(r, limited) ==
    /\ Available(Payer[r]) >= Amount[r]
    /\ limited => WithinLimit(r)

DebitTx(r, limited) ==
    /\ CanDebit(r, limited)
    /\ Book("debit", r, Available(Payer[r]) - Amount[r])
    /\ IF limited /\ limitRow[r] = "NONE"
       THEN /\ limitRow' = [limitRow EXCEPT ![r] = "APPLIED"]
            /\ today' = today \cup {r}
       ELSE UNCHANGED limitVars

\* A credit that locks the row it adds to (creditBalanceAtomic on an existing
\* row; the worker's deposit and reversal transactions, which create the row
\* before they lock it).
CreditTx(kind, r) ==
    /\ Book(kind, r, Available(Party(kind, r)) + Amount[r])
    /\ UNCHANGED limitVars

\* The reversal safety check: a rev_ credit needs the SPEND_DEBIT it reverses.
ReversalAllowed(kind, r) == kind = "reversal" => Booked("debit", r)

\* releaseSpendLimitEntry: a single UPDATE ... WHERE status = 'APPLIED'.
ReleaseSpendLimit(r) ==
    /\ limitRow' = IF limitRow[r] = "APPLIED"
                   THEN [limitRow EXCEPT ![r] = "RELEASED"] ELSE limitRow
    /\ UNCHANGED <<account, journal, latest, today>>

\* ensureBalanceAccount, reached by getBalanceAsync: create the missing row
\* from the newest entry.
EnsureAccount(u) ==
    /\ ~HasAccount(u)
    /\ account' = [account EXCEPT ![u] = latest[u]]
    /\ UNCHANGED <<journal, latest, limitRow, today>>

\* Midnight: date_trunc('day', NOW()) no longer matches the rows written so far.
NewDay ==
    /\ today # {}
    /\ today' = {}
    /\ UNCHANGED <<account, journal, latest, limitRow>>

-----------------------------------------------------------------------------
(* What the journal says the balance of a user should be.                  *)

Posted(kind, u) == SumFunctionOnSet(Amount, {r \in Refs : Booked(kind, r) /\ Party(kind, r) = u})

JournalBalance(u) ==
    Opening[u] + Posted("credit", u) + Posted("reversal", u) - Posted("debit", u)
=============================================================================
