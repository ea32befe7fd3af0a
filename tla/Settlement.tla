----------------------------- MODULE Settlement -----------------------------
(***************************************************************************)
(* What a payout rail promises about a reference: the recipient is paid at *)
(* most once, the payer is refunded at most once, and never both.          *)
(***************************************************************************)
EXTENDS Integers

CONSTANT Refs

VARIABLES
    paid,           \* paid[r]: how many times the recipient was paid
    refunded        \* the references whose payer has the money back

settlementVars == <<paid, refunded>>

SettlementInit ==
    /\ paid = [r \in Refs |-> 0]
    /\ refunded = {}

Pay(r) ==
    /\ paid[r] = 0
    /\ r \notin refunded
    /\ paid' = [paid EXCEPT ![r] = 1]
    /\ UNCHANGED refunded

Refund(r) ==
    /\ paid[r] = 0
    /\ r \notin refunded
    /\ refunded' = refunded \cup {r}
    /\ UNCHANGED paid

SettlementNext == \E r \in Refs : Pay(r) \/ Refund(r)

SettlementSpec == SettlementInit /\ [][SettlementNext]_settlementVars
=============================================================================
