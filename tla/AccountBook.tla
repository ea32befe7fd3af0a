----------------------------- MODULE AccountBook -----------------------------
(***************************************************************************)
(* What the ledger promises its callers: every movement of money is posted *)
(* at most once under its key, it changes the balance of its user by its   *)
(* amount in the same step, a debit is covered by the balance, and a       *)
(* reversal gives back only what was debited.                              *)
(***************************************************************************)
EXTENDS Integers

CONSTANTS Users, Refs, Amount, Payer, Payee, Opening

VARIABLES balance, posted

bookVars == <<balance, posted>>

BookInit ==
    /\ balance = Opening
    /\ posted = {}

PostDebit(r) ==
    /\ <<"debit", r>> \notin posted
    /\ balance[Payer[r]] >= Amount[r]
    /\ balance' = [balance EXCEPT ![Payer[r]] = @ - Amount[r]]
    /\ posted' = posted \cup {<<"debit", r>>}

PostCredit(r) ==
    /\ <<"credit", r>> \notin posted
    /\ balance' = [balance EXCEPT ![Payee[r]] = @ + Amount[r]]
    /\ posted' = posted \cup {<<"credit", r>>}

PostReversal(r) ==
    /\ <<"debit", r>> \in posted
    /\ <<"reversal", r>> \notin posted
    /\ balance' = [balance EXCEPT ![Payer[r]] = @ + Amount[r]]
    /\ posted' = posted \cup {<<"reversal", r>>}

BookNext == \E r \in Refs : PostDebit(r) \/ PostCredit(r) \/ PostReversal(r)

BookSpec == BookInit /\ [][BookNext]_bookVars
=============================================================================
