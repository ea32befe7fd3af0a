----------------------------- MODULE MCDeposits ------------------------------
(* Instances of Deposits for TLC: two transfers, to a user with and a user  *)
(* without an account row, and two workers.  The first poll of a worker     *)
(* sees the whole chain.                                                    *)
EXTENDS Deposits, TLC

CONSTANTS alice, bob, first1, second1, p1, p2

MCUsers == {alice, bob}
MCHasRow == {alice}
MCRefs == {first1, second1}
MCPollers == {p1, p2}

MCAmount == (first1 :> 1 @@ second1 :> 2)
MCPayee == (first1 :> alice @@ second1 :> bob)
MCOneUser == [r \in Refs |-> alice]
MCNoLimit == [u \in Users |-> 0]
MCOpening == [u \in Users |-> 1]

\* A transaction per transfer, and one transaction that makes both.
MCOwnHash == [r \in Refs |-> r]
MCSameHash == [r \in Refs |-> first1]

MCSymmetry == Permutations(MCPollers)
=============================================================================
