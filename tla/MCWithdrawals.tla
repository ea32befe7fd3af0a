--------------------------- MODULE MCWithdrawals ----------------------------
(* Instances of Withdrawals for TLC: one user, one or two withdrawals of 1 *)
(* from a balance that may cover only one of them.                         *)
EXTENDS Withdrawals, TLC

CONSTANTS alice, first, second, w1, w2

MCUsers == {alice}
MCTwo == {first, second}
MCWorkers == {w1, w2}

MCAmount == [r \in Refs |-> 1]
MCParty == [r \in Refs |-> alice]
MCDailyLimit == (alice :> 0)
MCOpening == (alice :> 1)

MCSymmetry == Permutations(MCWorkers)
=============================================================================
