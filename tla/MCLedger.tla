------------------------------ MODULE MCLedger ------------------------------
(* Instances of Ledger for TLC: two users, and two or three references.    *)
EXTENDS Ledger, TLC

CONSTANTS alice, bob, spend, transfer, payout, c1, c2

MCUsers == {alice, bob}
MCRefs == {spend, transfer, payout}
MCRaceRefs == {transfer, payout}
MCCallers == {c1, c2}
MCHasRow == {alice}

\* alice spends 2 and 1, and sends 2 to bob; the limit covers only some of it.
\* Under the serial instance alice pays for everything and bob, who has no row
\* yet, receives once; under the races both credits go to bob.
MCAmount == (transfer :> 2) @@ (payout :> 1) @@ (spend :> 2)
MCPayer == [r \in MCRefs |-> alice]
MCPayee == (spend :> alice) @@ (transfer :> bob) @@ (payout :> alice)
MCDailyLimit == (alice :> 3) @@ (bob :> 0)
MCOpening == (alice :> 4) @@ (bob :> 0)

MCRaceAmount == [r \in MCRaceRefs |-> MCAmount[r]]
MCRacePayer == [r \in MCRaceRefs |-> alice]
MCRacePayee == [r \in MCRaceRefs |-> bob]
MCRaceOpening == (alice :> 2) @@ (bob :> 0)

\* The callers are interchangeable: nothing but their number matters.
MCSymmetry == Permutations(MCCallers)
=============================================================================
