------------------------------ MODULE MCCustody ------------------------------
(* The constants of Custody for TLC: every kind of request, in groups of two*)
(* or three that compete for a balance or for a wallet; the requests of one *)
(* group are made, the others are not.                                      *)
EXTENDS Custody, TLC

CONSTANTS alice, bob, carol, received, sent, bill, payout1, sweep1, sweep2

MCUsers == {alice, bob, carol}
MCRefs == {received, sent, bill, payout1, sweep1, sweep2}

\* alice has 2 and tries to send 1 to carol (a new user), to pay a bill of 1 and
\* to cash out 2 in naira; bob has 1, receives 1, and tries to pay out 1 to a
\* bank and to cash out 1.
MCRoute == (received :> "deposit") @@ (sent :> "transfer") @@ (bill :> "bill")
        @@ (payout1 :> "bank") @@ (sweep1 :> "cashoutNGN") @@ (sweep2 :> "cashout")
MCAmount == [r \in MCRefs |-> IF r = sweep1 THEN 2 ELSE 1]
MCPayer == [r \in MCRefs |-> IF r \in {payout1, sweep2} THEN bob ELSE alice]
MCPayee == [r \in MCRefs |-> IF r = received THEN bob
                             ELSE IF r = sent THEN carol ELSE MCPayer[r]]
MCDailyLimit == [u \in MCUsers |-> IF u = carol THEN 0 ELSE 2]
MCOpening == (alice :> 2) @@ (bob :> 1) @@ (carol :> 0)
MCHasRow == {alice, bob}
MCNewUsers == {carol}
MCWallet == MCOpening

MCGroups == { {received, sent, payout1}, {received, payout1, sweep2},
              {sent, bill, sweep1}, {payout1, sweep1} }

\* The instance starts as the theorems about money suppose.
ASSUME StartAssumption == NoHiddenBalance /\ BackedAtStart
=============================================================================
