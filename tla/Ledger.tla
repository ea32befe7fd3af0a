------------------------------- MODULE Ledger -------------------------------
(***************************************************************************)
(* LedgerService's balance transactions under concurrent callers: HTTP     *)
(* requests, webhook handlers and pollers of the API that share one        *)
(* Postgres database at its default isolation level (READ COMMITTED).      *)
(*                                                                         *)
(* debitBalanceAtomic locks the account row before every read it decides   *)
(* on, so it is one step.  creditBalanceAtomic looks for an existing entry *)
(* BEFORE it locks, and its lock finds nothing to lock while the user has  *)
(* no account row, so it is two or three steps and other callers can come  *)
(* in between.                                                             *)
(***************************************************************************)
EXTENDS LedgerStore

CONSTANTS
    Callers,        \* the concurrent executions of creditBalanceAtomic
    SameKeyOverlap, \* may two callers credit the same key at the same time?
    NoCall          \* "this caller is not inside creditBalanceAtomic"

CreditKinds == {"credit", "reversal"}

Calls == [stage : {"checked", "unlocked"}, kind : CreditKinds, ref : Refs,
          seen : BOOLEAN, base : Int]

ASSUME LedgerAssumption ==
    /\ SameKeyOverlap \in BOOLEAN
    /\ NoCall \notin Calls

VARIABLE call

vars == <<account, journal, latest, limitRow, today, call>>

TypeOK ==
    /\ StoreTypeOK
    /\ call \in [Callers -> Calls \cup {NoCall}]

Init ==
    /\ StoreInit
    /\ call = [p \in Callers |-> NoCall]

-----------------------------------------------------------------------------

\* A spend draws a fresh reference and debits it once.
Debit(r) ==
    /\ ~Booked("debit", r)
    /\ \E limited \in BOOLEAN : DebitTx(r, limited)
    /\ UNCHANGED call

Busy(p) == call[p] # NoCall

BeingCredited(kind, r) ==
    \E q \in Callers : Busy(q) /\ call[q].kind = kind /\ call[q].ref = r

\* (mutant) the idempotency check is skipped
BeginCredit_Unchecked(p, kind, r) ==
    /\ ~Busy(p)
    /\ BeingCredited(kind, r) => SameKeyOverlap
    /\ call' = [call EXCEPT ![p] =
                    [stage |-> "checked", kind |-> kind, ref |-> r,
                     seen |-> FALSE, base |-> 0]]
    /\ UNCHANGED storeVars

\* The idempotency check, read before the lock.
BeginCredit(p, kind, r) ==
    /\ ~Busy(p)
    /\ BeingCredited(kind, r) => SameKeyOverlap
    /\ call' = [call EXCEPT ![p] =
                    [stage |-> "checked", kind |-> kind, ref |-> r,
                     seen |-> Booked(kind, r), base |-> 0]]
    /\ UNCHANGED storeVars

Return(p) == call' = [call EXCEPT ![p] = NoCall]

Owner(p) == Party(call[p].kind, call[p].ref)

\* The entry was there, or the reversal has no debit to reverse: nothing moves.
FinishUnchanged(p) ==
    /\ Busy(p)
    /\ \/ call[p].seen
       \/ ~ReversalAllowed(call[p].kind, call[p].ref)
    /\ Return(p)
    /\ UNCHANGED storeVars

\* (mutant) the balance is written but the entry is not
FinishLocked_NoEntry(p) ==
    /\ Busy(p)
    /\ call[p].stage = "checked"
    /\ ~call[p].seen
    /\ HasAccount(Owner(p))
    /\ ReversalAllowed(call[p].kind, call[p].ref)
    /\ account' = [account EXCEPT ![Owner(p)] = @ + Amount[call[p].ref]]
    /\ UNCHANGED <<journal, latest, limitRow, today>>
    /\ Return(p)

\* SELECT ... FOR UPDATE returned the row: the rest runs under its lock.
FinishLocked(p) ==
    /\ Busy(p)
    /\ call[p].stage = "checked"
    /\ ~call[p].seen
    /\ HasAccount(Owner(p))
    /\ ReversalAllowed(call[p].kind, call[p].ref)
    /\ CreditTx(call[p].kind, call[p].ref)
    /\ Return(p)

\* SELECT ... FOR UPDATE returned no row: the newest entry is the base, and
\* nothing is locked.
ReadUnlocked(p) ==
    /\ Busy(p)
    /\ call[p].stage = "checked"
    /\ ~call[p].seen
    /\ ~HasAccount(Owner(p))
    /\ call' = [call EXCEPT ![p].stage = "unlocked", ![p].base = latest[Owner(p)]]
    /\ UNCHANGED storeVars

\* INSERT the account ON CONFLICT DO NOTHING, then UPDATE it to base + amount,
\* whatever it holds by now.
FinishUnlocked(p) ==
    /\ Busy(p)
    /\ call[p].stage = "unlocked"
    /\ ReversalAllowed(call[p].kind, call[p].ref)
    /\ Book(call[p].kind, call[p].ref, call[p].base + Amount[call[p].ref])
    /\ UNCHANGED limitVars
    /\ Return(p)

\* The process dies or the database refuses: the transaction rolls back.
Abort(p) ==
    /\ Busy(p)
    /\ Return(p)
    /\ UNCHANGED storeVars

\* A caller that gave up on a payout releases its limit entry.
Release(r) ==
    /\ limitRow[r] = "APPLIED"
    /\ ReleaseSpendLimit(r)
    /\ UNCHANGED call

ReadBalance(u) == EnsureAccount(u) /\ UNCHANGED call

Midnight == NewDay /\ UNCHANGED call

Next ==
    \/ \E r \in Refs : Debit(r) \/ Release(r)
    \/ \E p \in Callers, kind \in CreditKinds, r \in Refs : BeginCredit(p, kind, r)
    \/ \E p \in Callers : \/ FinishUnchanged(p)
                          \/ FinishLocked(p)
                          \/ ReadUnlocked(p)
                          \/ FinishUnlocked(p)
                          \/ Abort(p)
    \/ \E u \in Users : ReadBalance(u)
    \/ Midnight

Spec == Init /\ [][Next]_vars

-----------------------------------------------------------------------------
(* Properties.                                                             *)

\* No balance goes below zero, whatever debits and credits overlap and even
\* while a credit works on a row it could not lock: debitBalanceAtomic decides
\* on the locked row, and a credit never writes less than zero.
NonNegative == \A u \in Users : HasAccount(u) => account[u] >= 0

\* A reversal is booked only for a reference whose debit is booked: the
\* matching-debit check of creditBalanceAtomic, made long after the caller
\* decided to refund.
ReversalHasDebit == \A r \in Refs : Booked("reversal", r) => Booked("debit", r)

\* The spends counted against today's limit never exceed it, through releases,
\* refunds and the change of day.
LimitRespected == \A u \in Users : SpentToday(u) <= DailyLimit[u]

\* The balance is the opening balance plus what the journal says: no booked
\* movement is lost and no unbooked one is in the balance.
BalanceExplained == \A u \in Users : Available(u) = JournalBalance(u)

\* The ledger does what AccountBook promises: every step is one posting, made
\* once and covered, or leaves balances and postings alone.
Abstract == INSTANCE AccountBook WITH
    balance <- [u \in Users |-> Available(u)],
    posted <- journal

ImplementsAccountBook == Abstract!BookSpec
=============================================================================
