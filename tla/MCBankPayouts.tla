--------------------------- MODULE MCBankPayouts ----------------------------
(* Instances of BankPayouts for TLC: one user, a payout of 1 that balance   *)
(* and daily limit cover, one of 3 that neither covers, and two handlers.   *)
EXTENDS BankPayouts, TLC

CONSTANTS alice, first, large, h1, h2

MCUsers == {alice}
MCHandlers == {h1, h2}

MCAmount == [r \in Refs |-> IF r = large THEN 3 ELSE 1]
MCParty == [r \in Refs |-> alice]
MCDailyLimit == (alice :> 1)
MCOpening == (alice :> 2)

\* One of the two is asked for.  (Fairness says nothing of requests.)
OneRequest == \A r, s \in Refs : Stage(r)' # "none" /\ Stage(s)' # "none" => r = s

MCNext == Next /\ OneRequest

MCSpec == Init /\ [][MCNext]_vars /\ Fairness
=============================================================================
