------------------------------ MODULE MCWallet -------------------------------
(* Small instances for TLC of what surrounds the withdrawals of             *)
(* MCWithdrawals: the wallet app before them, the chain services behind     *)
(* them, and the withdrawals as one more part.                              *)
EXTENDS Wallet, MCWithdrawals

CONSTANTS l1, l2

MCSignIns == {l1, l2}
MCWalletSymmetry == MCSymmetry \cup Permutations(MCSignIns)

\* The sends whose gas may be dripped are of one wallet.
MCSigner == [c \in DripCalls |-> "wallet"]

-----------------------------------------------------------------------------

\* The withdrawals have a state where they do not move: their invariants speak of it.
MCInit ==
    /\ part \in WalletParts \cup {"withdrawals"}
    /\ Init
    /\ ComponentsInit

WithdrawalsMove == part = "withdrawals" /\ OthersStay(part) /\ Next

MCNext ==
    \/ WithdrawalsMove
    \/ UNCHANGED vars /\ WalletNext

MCSpec == MCInit /\ [][MCNext]_<<walletVars, vars>>
=============================================================================
