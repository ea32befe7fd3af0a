------------------------------- MODULE GasDrips -------------------------------
(***************************************************************************)
(* sendCryptoWithGasRetry of selfCustody.ts with the drip guard of         *)
(* drips.ts: a sponsored send that fails makes the treasury drip native    *)
(* gas to the sending wallet, and the send is tried again at the wallet's  *)
(* own cost.                                                               *)
(*                                                                         *)
(* An element of Calls is one call.  A call of SweepService passes hooks:  *)
(* checkDripEligibility before the drip and recordDrip after it; a call of *)
(* the withdrawal job passes none (Guarded).  The check reads rows that    *)
(* other calls write only after their drips are broadcast and waited for.  *)
(* The model is one sliding window of 24 hours: no row leaves it.          *)
(***************************************************************************)
EXTENDS Integers, FiniteSets

CONSTANTS
    Calls,          \* the calls of sendCryptoWithGasRetry
    Signer,         \* Signer[c]: the wallet that sends
    Guarded,        \* the calls that pass drip hooks
    Concurrent,     \* calls in flight at once
    MaxPerWallet,   \* maxDripsPerWalletPerDay (1)
    DailyCap,       \* dailyCapSol, dailyCapMon, in drips
    TreasuryFloor,  \* treasuryFloorSol, treasuryFloorMon, in drips
    TreasuryGas     \* native balance of the treasury at the start, in drips

GasDripsConstants ==
    /\ IsFiniteSet(Calls) /\ Guarded \subseteq Calls
    /\ Concurrent \in Nat \ {0} /\ MaxPerWallet \in Nat /\ DailyCap \in Nat
    /\ TreasuryFloor \in Nat /\ TreasuryGas \in Nat

VARIABLES
    at,             \* at[c]: where call c is
    gas,            \* gas[w]: native balance of a wallet, in drips
    drip,           \* drip[c]: the drip of call c on the chain
    rows,           \* the "GasDrip" rows, by call
    uncounted       \* (history) drips the guard was not asked about or no row tells of

dripVars == <<at, gas, drip, rows, uncounted>>

Points == {"new", "send", "resend", "check", "drip", "confirming", "record",
           "wait", "visible", "retry", "sent", "failed"}

GasDripsTypeOK ==
    /\ at \in [Calls -> Points]
    /\ gas \in [{Signer[c] : c \in Calls} -> Nat]
    /\ drip \in [Calls -> {"none", "pending", "landed"}]
    /\ rows \subseteq Calls
    /\ uncounted \subseteq Calls

GasDripsInit ==
    /\ at = [c \in Calls |-> "new"]
    /\ gas \in [{Signer[c] : c \in Calls} -> {0, 1}]
    /\ drip = [c \in Calls |-> "none"]
    /\ rows = {}
    /\ uncounted = {}

Goes(c, from, to) == at[c] = from /\ at' = [at EXCEPT ![c] = to]

InFlight == {c \in Calls : at[c] \notin {"new", "sent", "failed"}}

-----------------------------------------------------------------------------
(* The chain.                                                              *)

\* A drip may land long after its call gave it up, or never.
DripLands(c) ==
    /\ drip[c] = "pending"
    /\ drip' = [drip EXCEPT ![c] = "landed"]
    /\ gas' = [gas EXCEPT ![Signer[c]] = @ + 1]
    /\ UNCHANGED <<at, rows, uncounted>>

-----------------------------------------------------------------------------
(* A call.                                                                 *)

Start(c) ==
    /\ Cardinality(InFlight) < Concurrent
    /\ Goes(c, "new", "send")
    /\ UNCHANGED <<gas, drip, rows, uncounted>>

SponsoredSend(c) ==
    /\ \/ Goes(c, "send", "sent")
       \/ Goes(c, "send", "resend")         \* Blockhash not found
       \/ Goes(c, "send", "check")          \* any other failure
    /\ UNCHANGED <<gas, drip, rows, uncounted>>

\* Once, without a drip.
SendAgain(c) ==
    /\ Goes(c, "resend", "sent") \/ Goes(c, "resend", "failed")
    /\ UNCHANGED <<gas, drip, rows, uncounted>>

DripsOf(w) == Cardinality({c \in rows : Signer[c] = w})

\* What the treasury has left when the transfers that landed are counted.
TreasuryLeft == TreasuryGas - Cardinality({c \in Calls : drip[c] = "landed"})

\* checkDripEligibility: per wallet, per chain, then the treasury's live balance.
Eligible(c) ==
    /\ DripsOf(Signer[c]) < MaxPerWallet
    /\ Cardinality(rows) + 1 <= DailyCap
    /\ TreasuryLeft >= TreasuryFloor

\* Every failure is eligible by itself; hooks may forbid it, and a hook that
\* throws does not.
Check(c) ==
    /\ \/ /\ IF c \in Guarded => Eligible(c) THEN Goes(c, "check", "drip")
                                             ELSE Goes(c, "check", "failed")
          /\ UNCHANGED uncounted
       \/ /\ c \in Guarded
          /\ Goes(c, "check", "drip")
          /\ uncounted' = uncounted \cup {c}
    /\ UNCHANGED <<gas, drip, rows>>

\* dripNativeGas does not drip to a wallet that has gas, unless the failure was
\* about the balance (force).
SkipDrip(c) ==
    /\ gas[Signer[c]] > 0
    /\ Goes(c, "drip", "visible")
    /\ UNCHANGED <<gas, drip, rows, uncounted>>

Drip(c) ==
    /\ Goes(c, "drip", "confirming")
    /\ drip' = [drip EXCEPT ![c] = "pending"]
    /\ UNCHANGED <<gas, rows, uncounted>>

\* The broadcast throws.
DripRefused(c) ==
    /\ Goes(c, "drip", "failed")
    /\ UNCHANGED <<gas, drip, rows, uncounted>>

\* waitForConfirmation inside dripNativeGas: the outcome is CONFIRMED or TIMEOUT.
DripWaited(c) ==
    /\ Goes(c, "confirming", "record")
    /\ UNCHANGED <<gas, drip, rows, uncounted>>

\* (mutant) only a confirmed drip is recorded
Record_Confirmed(c) ==
    /\ Goes(c, "record", "wait")
    /\ rows' = IF c \in Guarded /\ drip[c] = "landed" THEN rows \cup {c} ELSE rows
    /\ UNCHANGED <<gas, drip, uncounted>>

\* recordDrip, whatever the outcome; its error is logged and swallowed.
Record(c) ==
    /\ Goes(c, "record", "wait")
    /\ \/ /\ rows' = IF c \in Guarded THEN rows \cup {c} ELSE rows
          /\ UNCHANGED uncounted
       \/ /\ c \in Guarded
          /\ uncounted' = uncounted \cup {c}
          /\ UNCHANGED rows
    /\ UNCHANGED <<gas, drip>>

\* waitForConfirmation again.
DripConfirmed(c) ==
    /\ drip[c] = "landed"
    /\ Goes(c, "wait", "visible")
    /\ UNCHANGED <<gas, drip, rows, uncounted>>

DripTimesOut(c) ==
    /\ Goes(c, "wait", "failed")
    /\ UNCHANGED <<gas, drip, rows, uncounted>>

\* The balance is read until it is positive, for a minute.
Visible(c) ==
    /\ \/ gas[Signer[c]] > 0 /\ Goes(c, "visible", "retry")
       \/ Goes(c, "visible", "failed")
    /\ UNCHANGED <<gas, drip, rows, uncounted>>

\* The unsponsored send, paid from the wallet: three tries at most, the later ones
\* only after a balance error.
UnsponsoredSend(c) ==
    /\ \/ /\ gas[Signer[c]] > 0
          /\ gas' = [gas EXCEPT ![Signer[c]] = @ - 1]
          /\ Goes(c, "retry", "sent")
       \/ Goes(c, "retry", "failed") /\ UNCHANGED gas
    /\ UNCHANGED <<drip, rows, uncounted>>

CallStep(c) ==
    \/ SponsoredSend(c) \/ SendAgain(c) \/ Check(c)
    \/ SkipDrip(c) \/ Drip(c) \/ DripRefused(c) \/ DripWaited(c) \/ Record(c)
    \/ DripConfirmed(c) \/ DripTimesOut(c) \/ Visible(c) \/ UnsponsoredSend(c)

GasDripsNext ==
    \E c \in Calls : Start(c) \/ CallStep(c) \/ DripLands(c)

GasDripsSpec == GasDripsInit /\ [][GasDripsNext]_dripVars

-----------------------------------------------------------------------------
(* Properties.                                                             *)

Dripped == {c \in Guarded : drip[c] # "none"}

\* The guard holds up to what overlaps: the drips to a wallet, and all drips,
\* exceed the limits of a day by no more than the calls that may be between their
\* check and their row at once, and by drips no row tells of.
DripsWithinBudget ==
    LET slack == Concurrent - 1 + Cardinality(uncounted) IN
    /\ \A w \in DOMAIN gas :
          Cardinality({c \in Dripped : Signer[c] = w}) <= MaxPerWallet + slack
    /\ Cardinality(Dripped) <= DailyCap + slack
=============================================================================
