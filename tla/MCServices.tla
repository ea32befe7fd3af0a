------------------------------ MODULE MCServices ------------------------------
(* Small instances of the components of the API for TLC in one run, with    *)
(* the requests of Custody as one more part.                                *)
EXTENDS Services, MCCustody

CONSTANTS a1, a2

\* One person who logs in three times.
MCWho == [q \in Logins |-> "ann"]

\* A session at Dojah, open when the screen is mounted, and one without provider;
\* one session at Sumsub, and every fault.
MCKycSessions == [kyc |-> {"s1", "s2"}, sumsub |-> {"s1"}]
MCKycProvider == [kyc |-> ("s1" :> "DOJAH") @@ ("s2" :> "SIMULATED"),
                  sumsub |-> ("s1" :> "SUMSUB")]
MCKycOpened == [kyc |-> {"s1"}, sumsub |-> {}]
MCKycFaults == [kyc |-> {"start", "profile"},
                sumsub |-> {"restart", "start", "status", "database", "profile"}]

\* A verification and a retry of one user, a verification of another.
MCAsker == [q \in Asks |-> IF q = "v2" THEN "ben" ELSE "ann"]
MCAskFlow == [q \in Asks |-> IF q = "r1" THEN "retry" ELSE "verify"]

-----------------------------------------------------------------------------

\* Where custody does not move, only what its invariants read has a value.
MCInit ==
    /\ part \in ServiceParts \cup {"custody"}
    /\ ComponentsInit
    /\ IF part = "custody"
       THEN CustodyInit /\ {r \in Refs : stage[r] = "new"} \in MCGroups
       ELSE /\ account = Opening /\ latest = Opening /\ wallet = Opening /\ treasury = 0
            /\ answer = [r \in Refs |-> "none"] /\ snap = [stage |-> "idle"]
            /\ journal = {} /\ limitRow = {} /\ today = {} /\ call = {} /\ moving = {}
            /\ userRow = {} /\ depositRow = {} /\ stage = {} /\ payout = {}

CustodyMoves == part = "custody" /\ CustodyNext /\ OthersStay(part)

MCNext ==
    \/ CustodyMoves
    \/ ServicesNext /\ UNCHANGED custodyVars

MCSpec == MCInit /\ [][MCNext]_<<servicesVars, custodyVars>>
=============================================================================
