---------------------------- MODULE WalletProofs ----------------------------
(***************************************************************************)
(* What the wallet app and the chain services behind it promise, for any   *)
(* number of sign-ins, sends, accounts, notifications and calls, and for   *)
(* every set of faults.                                                    *)
(*                                                                         *)
(* Each section is of one component: an inductive invariant, its           *)
(* preservation by each action, and the theorem.  Part (the lemma) is what *)
(* lets a section speak of one component alone.                            *)
(***************************************************************************)
EXTENDS Wallet, Integers, FiniteSets, FiniteSetTheorems, TLAPS

\* A step is one of the component that moves, or none.
LEMMA Part ==
    ASSUME [WalletNext]_walletVars
    PROVE  /\ UNCHANGED part
           /\ part = "app" => [App!SessionNext]_sessionVars
           /\ part = "onchain" => [Onc!OnchainNext]_onchainSendVars
           /\ part = "bank" => [Bank!BankNext]_bankSendVars
           /\ part = "notes" => [Note!NotesNext]_notesVars
           /\ part = "pay" => [Pay!ChainSendNext]_payVars
           /\ part = "drips" => [Drip!GasDripsNext]_dripVars
<1>1. CASE UNCHANGED walletVars
  BY <1>1 DEF walletVars
<1>2. CASE AppMoves
  BY <1>2 DEF AppMoves, OthersStay
<1>3. CASE OnchainMoves
  BY <1>3 DEF OnchainMoves, OthersStay
<1>4. CASE BankMoves
  BY <1>4 DEF BankMoves, OthersStay
<1>5. CASE NotesMove
  BY <1>5 DEF NotesMove, OthersStay
<1>6. CASE PayMoves
  BY <1>6 DEF PayMoves, OthersStay
<1>7. CASE DripsMove
  BY <1>7 DEF DripsMove, OthersStay
<1> QED
  BY <1>1, <1>2, <1>3, <1>4, <1>5, <1>6, <1>7 DEF WalletNext

-----------------------------------------------------------------------------
(* The bank transfer.                                                      *)

\* The recipient on the screen; once the amount is asked for there are an account
\* and a name.
RecipientInv ==
    /\ Bank!BankTypeOK
    /\ prefilled \in {NoTarget, typed}
    /\ name \in {NoTarget, MadeUp, typed}
    /\ lookups \subseteq {typed}
    /\ screen.review => screen.step = "amount"
    /\ screen.step = "amount" => typed # NoTarget /\ name # NoTarget

\* A name and the account it is paid or kept with.
Fits(r) == r.target \in Targets /\ r.name \in {MadeUp, r.target}

\* What has left the screen.
PaidInv ==
    /\ \A q \in bankPrompts : Fits(q)
    /\ \A r \in book : Fits(r)
    /\ \A p \in Payments :
         /\ payment[p].name \in {NoTarget, MadeUp, payment[p].target}
         /\ payment[p].at \in {"asked", "paid", "failed"} => Fits(payment[p])

BankInv == RecipientInv /\ PaidInv

\* The account on the screen, once there is one, with its name.
LEMMA OnScreen ==
    ASSUME BankInv, typed # NoTarget, name # NoTarget
    PROVE  typed \in Targets /\ name \in {MadeUp, typed}
  BY DEF BankInv, RecipientInv, Bank!BankTypeOK

LEMMA RecipientSteps ==
    ASSUME BankInv,
           \/ \E t \in Targets \cup {NoTarget} : Bank!Type(t)
           \/ \E r \in book : Bank!Pick(r)
           \/ \E t \in lookups : Bank!Resolved(t)
           \/ Bank!GoOn \/ Bank!GoBack \/ Bank!OpenReview \/ Bank!CloseReview
    PROVE  BankInv'
<1> USE WalletAssumption DEF Bank!BankConstants
<1>1. ASSUME NEW t \in Targets \cup {NoTarget}, Bank!Type(t) PROVE RecipientInv'
  <2>1. /\ typed' = t /\ screen.step = "account" /\ ~screen.review
        /\ UNCHANGED <<book, bankPrompts, payment, result>>
    BY <1>1 DEF Bank!Type, Bank!Bare
  <2>2. /\ prefilled' = NoTarget /\ name' = NoTarget
        /\ lookups' = IF t = NoTarget THEN {} ELSE {t}
        /\ screen' = [screen EXCEPT !.resolving = (t # NoTarget)]
    BY <1>1 DEF Bank!Type, Bank!Lookups, BankInv, RecipientInv
  <2>3. Bank!BankTypeOK'
    BY <2>1, <2>2 DEF BankInv, RecipientInv, Bank!BankTypeOK
  <2>4. screen'.step = "account" /\ ~screen'.review
    BY <2>1, <2>2 DEF BankInv, RecipientInv, Bank!BankTypeOK
  <2> QED
    BY <2>1, <2>2, <2>3, <2>4 DEF RecipientInv
<1>2. ASSUME NEW r \in book, Bank!Pick(r) PROVE RecipientInv'
  <2>1. r.target \in Targets /\ r.name \in {MadeUp, r.target} /\ r.target # NoTarget
    BY DEF BankInv, PaidInv, Fits
  <2> QED
    BY <1>2, <2>1 DEF Bank!Pick, Bank!Bare, BankInv, RecipientInv, Bank!BankTypeOK, Bank!Names
<1>3. ASSUME NEW t \in lookups, Bank!Resolved(t) PROVE RecipientInv'
  BY <1>3 DEF Bank!Resolved, BankInv, RecipientInv, Bank!BankTypeOK, Bank!Names
<1>4. CASE Bank!GoOn \/ Bank!GoBack \/ Bank!OpenReview \/ Bank!CloseReview
  <2>1. /\ UNCHANGED <<book, typed, prefilled, name, lookups, bankPrompts, payment, result>>
        /\ \/ screen' = [screen EXCEPT !.step = "amount"] /\ typed # NoTarget /\ name # NoTarget
           \/ screen' = [screen EXCEPT !.step = "account"] /\ ~screen.review
           \/ screen' = [screen EXCEPT !.review = TRUE] /\ screen.step = "amount"
           \/ screen' = [screen EXCEPT !.review = FALSE]
    BY <1>4 DEF Bank!GoOn, Bank!GoBack, Bank!OpenReview, Bank!CloseReview, Bank!Bare, Bank!recipient
  <2>2. RecipientInv'
    BY <2>1 DEF BankInv, RecipientInv, Bank!BankTypeOK
  <2> QED
    BY <2>1, <2>2 DEF BankInv, PaidInv, Fits
<1> QED
  BY <1>1, <1>2, <1>3, <1>4 DEF Bank!Type, Bank!Pick, Bank!Resolved, BankInv, PaidInv, Fits

LEMMA ApprovalSteps ==
    ASSUME BankInv,
           \/ Bank!Confirm \/ Bank!PinOpens \/ Bank!ClosePin \/ Bank!PinBiometric \/ Bank!Leave
           \/ \E q \in bankPrompts : Bank!PromptDismissed(q)
    PROVE  BankInv'
<1> USE WalletAssumption DEF Bank!BankConstants
<1>1. ASSUME NEW from \in {"sheet", "modal"}, Bank!Prompt(from),
             typed # NoTarget, name # NoTarget,
             UNCHANGED <<book, typed, prefilled, name, lookups, payment, result>>,
             \/ UNCHANGED screen
             \/ Bank!ToPin
      PROVE  BankInv'
  <2>1. PICK q : q = [from |-> from, target |-> typed, name |-> name, here |-> TRUE]
    OBVIOUS
  <2>2. Fits(q) /\ q \in [from : {"sheet", "modal"}, target : Targets, name : Bank!Names, here : BOOLEAN]
    BY <2>1, <1>1, OnScreen DEF Fits, Bank!Names
  <2>3. bankPrompts' = bankPrompts \cup {q}
    BY <1>1, <2>1 DEF Bank!Prompt
  <2>4. RecipientInv'
    BY <1>1, <2>2, <2>3 DEF Bank!ToPin, BankInv, RecipientInv, Bank!BankTypeOK
  <2> QED
    BY <1>1, <2>2, <2>3, <2>4 DEF BankInv, PaidInv, Fits
<1>2. CASE Bank!Confirm
  <2>1. typed # NoTarget /\ name # NoTarget
    BY <1>2 DEF Bank!Confirm, BankInv, RecipientInv
  <2>2. CASE Biometrics
    BY <1>1, <1>2, <2>1, <2>2 DEF Bank!Confirm, Bank!recipient
  <2>3. CASE ~Biometrics
    <3>1. RecipientInv'
      BY <1>2, <2>3 DEF Bank!Confirm, Bank!ToPin, Bank!recipient, BankInv, RecipientInv, Bank!BankTypeOK
    <3> QED
      BY <1>2, <2>3, <3>1 DEF Bank!Confirm, BankInv, PaidInv, Fits
  <2> QED
    BY <2>2, <2>3
<1>3. CASE Bank!PinBiometric
  BY <1>1, <1>3 DEF Bank!PinBiometric, Bank!recipient
<1>4. CASE Bank!PinOpens \/ Bank!ClosePin
  <2>1. RecipientInv'
    BY <1>4 DEF Bank!PinOpens, Bank!ClosePin, Bank!recipient, BankInv, RecipientInv, Bank!BankTypeOK
  <2> QED
    BY <1>4, <2>1 DEF Bank!PinOpens, Bank!ClosePin, BankInv, PaidInv, Fits
<1>5. ASSUME NEW q \in bankPrompts, Bank!PromptDismissed(q) PROVE BankInv'
  <2>1. RecipientInv'
    BY <1>5 DEF Bank!PromptDismissed, Bank!ToPin, Bank!recipient, BankInv, RecipientInv, Bank!BankTypeOK
  <2> QED
    BY <1>5, <2>1 DEF Bank!PromptDismissed, BankInv, PaidInv, Fits
<1>6. CASE Bank!Leave
  <2>1. \A q \in bankPrompts' :
           q \in [from : {"sheet", "modal"}, target : Targets, name : Bank!Names, here : BOOLEAN]
             /\ Fits(q)
    <3>1. SUFFICES ASSUME NEW r \in bankPrompts, NEW q, q = [r EXCEPT !.here = FALSE]
                   PROVE  /\ q \in [from : {"sheet", "modal"}, target : Targets,
                                     name : Bank!Names, here : BOOLEAN]
                          /\ Fits(q)
      BY <1>6 DEF Bank!Leave
    <3>2. /\ r \in [from : {"sheet", "modal"}, target : Targets, name : Bank!Names, here : BOOLEAN]
          /\ Fits(r)
      BY DEF BankInv, RecipientInv, Bank!BankTypeOK, PaidInv
    <3> QED
      BY <3>1, <3>2 DEF Fits
  <2>2. DOMAIN payment' = Payments /\ payment' = [p \in Payments |-> payment'[p]]
    BY <1>6 DEF Bank!Leave
  <2>3. ASSUME NEW p \in Payments
        PROVE  /\ payment'[p] \in [at : {"none", "asked", "paid", "failed", "over"},
                     target : Targets \cup {NoTarget}, name : Bank!Names \cup {NoTarget},
                     here : BOOLEAN]
               /\ payment'[p].at = payment[p].at /\ payment'[p].target = payment[p].target
               /\ payment'[p].name = payment[p].name
    <3>1. PICK s : s = payment[p]
      OBVIOUS
    <3>2. PICK b \in BOOLEAN : b = (s.at \notin {"asked", "paid", "failed"})
      OBVIOUS
    <3>3. payment'[p] = [s EXCEPT !.here = b]
      BY <1>6, <3>1, <3>2 DEF Bank!Leave
    <3>4. s \in [at : {"none", "asked", "paid", "failed", "over"},
                 target : Targets \cup {NoTarget}, name : Bank!Names \cup {NoTarget},
                 here : BOOLEAN]
      BY <3>1 DEF BankInv, RecipientInv, Bank!BankTypeOK
    <3> QED
      BY <3>1, <3>3, <3>4
  <2>4. payment' \in [Payments -> [at : {"none", "asked", "paid", "failed", "over"},
           target : Targets \cup {NoTarget}, name : Bank!Names \cup {NoTarget}, here : BOOLEAN]]
    BY <2>2, <2>3
  <2>5. RecipientInv'
    BY <1>6, <2>1, <2>4 DEF Bank!Leave, Bank!Fresh, BankInv, RecipientInv, Bank!BankTypeOK
  <2> QED
    BY <1>6, <2>1, <2>3, <2>5 DEF Bank!Leave, BankInv, PaidInv, Fits
<1> QED
  BY <1>2, <1>3, <1>4, <1>5, <1>6

\* A payment goes out with an account and a name that fits it.
LEMMA SendStep ==
    ASSUME BankInv, NEW p \in Payments, NEW t, NEW n, NEW here \in BOOLEAN, Bank!Send(p, t, n, here),
           t \in Targets, n \in {MadeUp, t}, bankPrompts' \subseteq bankPrompts
    PROVE  BankInv'
<1> USE WalletAssumption DEF Bank!BankConstants
<1>1. PICK s : s = [at |-> "asked", target |-> t, name |-> n, here |-> here]
  OBVIOUS
<1>2. payment' = [payment EXCEPT ![p] = s]
  BY <1>1 DEF Bank!Send
<1>3. /\ Fits(s) /\ s.name \in {NoTarget, MadeUp, s.target}
      /\ s \in [at : {"none", "asked", "paid", "failed", "over"},
                target : Targets \cup {NoTarget}, name : Bank!Names \cup {NoTarget}, here : BOOLEAN]
  BY <1>1 DEF Fits, Bank!Names
<1>4. /\ UNCHANGED <<book, typed, prefilled, name, lookups, result>>
      /\ screen' = [screen EXCEPT !.submitting = TRUE] \/ screen' = screen
  BY DEF Bank!Send, Bank!recipient
<1>5. Bank!BankTypeOK'
  BY <1>2, <1>3, <1>4 DEF BankInv, RecipientInv, Bank!BankTypeOK
<1>6. screen'.step = screen.step /\ screen'.review = screen.review
  BY <1>4 DEF BankInv, RecipientInv, Bank!BankTypeOK
<1>7. RecipientInv'
  BY <1>4, <1>5, <1>6 DEF BankInv, RecipientInv
<1> QED
  BY <1>2, <1>3, <1>4, <1>7 DEF BankInv, RecipientInv, Bank!BankTypeOK, PaidInv, Fits

LEMMA PaymentSteps ==
    ASSUME BankInv, NEW p \in Payments,
           \/ Bank!EnterPin(p) \/ \E q \in bankPrompts : Bank!PromptApproves(q, p)
           \/ Bank!Decided(p) \/ \E lost \in BOOLEAN : Bank!Answered(p, lost)
    PROVE  BankInv'
<1> USE WalletAssumption DEF Bank!BankConstants
<1>1. CASE Bank!EnterPin(p)
  BY <1>1, SendStep, OnScreen DEF Bank!EnterPin, Bank!Send
<1>2. ASSUME NEW q \in bankPrompts, Bank!PromptApproves(q, p) PROVE BankInv'
  <2>1. Fits(q) /\ q.here \in BOOLEAN
    BY DEF BankInv, PaidInv, RecipientInv, Bank!BankTypeOK
  <2> QED
    BY <1>2, <2>1, SendStep DEF Bank!PromptApproves, Fits
<1>3. CASE Bank!Decided(p)
  <2>1. PICK to \in {"paid", "failed"} : payment' = [payment EXCEPT ![p].at = to]
    BY <1>3 DEF Bank!Decided
  <2>2. RecipientInv'
    BY <1>3, <2>1 DEF Bank!Decided, Bank!recipient, BankInv, RecipientInv, Bank!BankTypeOK
  <2> QED
    BY <1>3, <2>1, <2>2 DEF Bank!Decided, BankInv, RecipientInv, Bank!BankTypeOK, PaidInv, Fits
<1>4. ASSUME NEW lost \in BOOLEAN, Bank!Answered(p, lost) PROVE BankInv'
  <2>1. PICK r : r = [target |-> payment[p].target, name |-> payment[p].name]
    OBVIOUS
  <2>2. Fits(r) /\ r \in [target : Targets, name : Bank!Names]
    BY <1>4, <2>1 DEF Bank!Answered, BankInv, PaidInv, Fits, Bank!Names
  <2>3. book' \subseteq book \cup {r}
    BY <1>4, <2>1 DEF Bank!Answered
  <2>4. PICK s : s = [Bank!NoPayment EXCEPT !.at = "over"]
    OBVIOUS
  <2>5. payment' = [payment EXCEPT ![p] = s]
    BY <1>4, <2>4 DEF Bank!Answered
  <2>6. s.at = "over" /\ s.target = NoTarget /\ s.name = NoTarget /\ s.here = TRUE
        /\ s \in [at : {"none", "asked", "paid", "failed", "over"},
                  target : Targets \cup {NoTarget}, name : Bank!Names \cup {NoTarget}, here : BOOLEAN]
    BY <2>4 DEF Bank!NoPayment
  <2>7. /\ UNCHANGED <<typed, prefilled, name, lookups, bankPrompts>>
        /\ \/ screen' = [screen EXCEPT !.submitting = FALSE, !.pin = FALSE, !.review = FALSE]
           \/ screen' = screen
        /\ result' \in {"success", "failed", result}
    BY <1>4 DEF Bank!Answered, Bank!recipient
  <2>8. Bank!BankTypeOK'
    <3>1. payment' \in [Payments -> [at : {"none", "asked", "paid", "failed", "over"},
            target : Targets \cup {NoTarget}, name : Bank!Names \cup {NoTarget}, here : BOOLEAN]]
      BY <2>5, <2>6 DEF BankInv, RecipientInv, Bank!BankTypeOK
    <3>2. book' \subseteq [target : Targets, name : Bank!Names]
      BY <2>2, <2>3 DEF BankInv, RecipientInv, Bank!BankTypeOK
    <3> QED
      BY <2>7, <3>1, <3>2 DEF BankInv, RecipientInv, Bank!BankTypeOK
  <2>9. screen'.step = screen.step /\ (screen'.review => screen.review)
    BY <2>7 DEF BankInv, RecipientInv, Bank!BankTypeOK
  <2>10. RecipientInv'
    BY <2>7, <2>8, <2>9 DEF BankInv, RecipientInv
  <2> QED
    BY <2>2, <2>3, <2>5, <2>6, <2>7, <2>10
      DEF BankInv, RecipientInv, Bank!BankTypeOK, PaidInv, Fits
<1> QED
  BY <1>1, <1>2, <1>3, <1>4

\* The name paid is that of the account, or made up: NameIsOfAccount, for any
\* accounts and payments, with and without biometrics.
THEOREM NamesFitTheirAccounts == WalletSpec => []NameIsOfAccount
<1> DEFINE Inv == part = "bank" => BankInv
<1>1. WalletInit => Inv
  <2>1. SUFFICES ASSUME WalletInit, part = "bank" PROVE BankInv
    OBVIOUS
  <2>2. Bank!BankInit
    BY <2>1 DEF WalletInit, ComponentsInit
  <2>3. RecipientInv
    BY <2>2 DEF Bank!BankInit, Bank!Fresh, Bank!NoPayment, RecipientInv, Bank!BankTypeOK
  <2>4. PaidInv
    BY <2>2 DEF Bank!BankInit, Bank!NoPayment, PaidInv
  <2> QED
    BY <2>3, <2>4 DEF BankInv
<1>2. Inv /\ [WalletNext]_walletVars => Inv'
  <2>1. SUFFICES ASSUME BankInv, [Bank!BankNext]_bankSendVars PROVE BankInv'
    BY Part
  <2>2. CASE UNCHANGED bankSendVars
    <3>1. RecipientInv'
      BY <2>1, <2>2 DEF bankSendVars, BankInv, RecipientInv, Bank!BankTypeOK
    <3> QED
      BY <2>1, <2>2, <3>1 DEF bankSendVars, BankInv, PaidInv, Fits
  <2>3. ASSUME NEW p \in Payments,
               \/ Bank!EnterPin(p) \/ \E q \in bankPrompts : Bank!PromptApproves(q, p)
               \/ Bank!Decided(p) \/ \E lost \in BOOLEAN : Bank!Answered(p, lost)
        PROVE  BankInv'
    BY <2>1, <2>3, PaymentSteps
  <2> QED
    BY <2>1, <2>2, <2>3, RecipientSteps, ApprovalSteps DEF Bank!BankNext
<1>3. Inv => NameIsOfAccount
  BY DEF BankInv, RecipientInv, PaidInv, Fits, NameIsOfAccount, Bank!NameIsOfAccount
<1> QED
  BY <1>1, <1>2, <1>3, PTL DEF WalletSpec

-----------------------------------------------------------------------------
(* The drips of gas.                                                       *)

DripLimits ==
    /\ MaxPerWallet \in Nat /\ DailyCap \in Nat /\ Concurrent \in Nat /\ Concurrent > 0
    /\ IsFiniteSet(DripCalls) /\ Guarded \subseteq DripCalls

LEMMA DripNumbers == DripLimits
  BY WalletAssumption DEF DripLimits, Drip!GasDripsConstants, Drip!IsFiniteSet, IsFiniteSet

LEMMA UnionBound ==
    ASSUME NEW A, NEW B, IsFiniteSet(A), IsFiniteSet(B)
    PROVE  /\ IsFiniteSet(A \cup B) /\ Cardinality(A \cup B) \in Nat
           /\ Cardinality(A \cup B) <= Cardinality(A) + Cardinality(B)
<1>1. /\ IsFiniteSet(A \cup B)
      /\ Cardinality(A \cup B) = Cardinality(A) + Cardinality(B) - Cardinality(A \cap B)
  BY FS_Union
<1>2. IsFiniteSet(A \cap B)
  BY FS_Subset, A \cap B \subseteq A
<1>3. /\ Cardinality(A) \in Nat /\ Cardinality(B) \in Nat
      /\ Cardinality(A \cap B) \in Nat /\ Cardinality(A \cup B) \in Nat
  BY <1>1, <1>2, FS_CardinalityType
<1> QED
  BY <1>1, <1>3

\* The guarded calls that the guard has let through, or that have dripped.
Admitted == {c \in Guarded : (drip[c] # "none" \/ at[c] = "drip") /\ c \notin uncounted}

AdmittedTo(w) == {c \in Admitted : Signer[c] = w}

CallsOf(w) == {c \in DripCalls : Signer[c] = w}

\* A drip has a row, is about to have one or is known to have none; so what the
\* guard lets through beside what it counts is in flight.
DripInv ==
    /\ Drip!GasDripsTypeOK
    /\ Cardinality(Drip!InFlight) <= Concurrent
    /\ \A c \in Guarded : drip[c] # "none" =>
         c \in rows \cup uncounted \/ at[c] \in {"confirming", "record"}
    /\ \A w \in DOMAIN gas : Cardinality(AdmittedTo(w)) <= MaxPerWallet + Concurrent - 1
    /\ Cardinality(Admitted) <= DailyCap + Concurrent - 1

LEMMA DripSets ==
    ASSUME Drip!GasDripsTypeOK
    PROVE  /\ IsFiniteSet(Admitted) /\ Cardinality(Admitted) \in Nat
           /\ \A w : IsFiniteSet(AdmittedTo(w)) /\ Cardinality(AdmittedTo(w)) \in Nat
           /\ IsFiniteSet(Drip!InFlight) /\ Cardinality(Drip!InFlight) \in Nat
           /\ IsFiniteSet(rows) /\ IsFiniteSet(uncounted) /\ Cardinality(uncounted) \in Nat
<1>1. /\ Admitted \subseteq DripCalls /\ Drip!InFlight \subseteq DripCalls
      /\ rows \subseteq DripCalls /\ uncounted \subseteq DripCalls
      /\ \A w : AdmittedTo(w) \subseteq DripCalls
  BY DripNumbers DEF DripLimits, Admitted, AdmittedTo, Drip!InFlight, Drip!GasDripsTypeOK
<1>2. \A S \in SUBSET DripCalls : IsFiniteSet(S)
  BY DripNumbers, FS_Subset DEF DripLimits
<1> QED
  BY <1>1, <1>2, FS_CardinalityType

\* Fewer are admitted, and no more in flight: the bounds stay.
LEMMA FewerStay ==
    ASSUME DripInv, Drip!GasDripsTypeOK', Admitted' \subseteq Admitted,
           Cardinality(Drip!InFlight)' <= Concurrent,
           (\A c \in Guarded : drip[c] # "none" =>
              c \in rows \cup uncounted \/ at[c] \in {"confirming", "record"})'
    PROVE  DripInv'
<1>1. Cardinality(Admitted') <= Cardinality(Admitted) /\ Cardinality(Admitted') \in Nat
  BY DripSets, FS_Subset, FS_CardinalityType DEF DripInv
<1>2. ASSUME NEW w
      PROVE  Cardinality(AdmittedTo(w)') <= Cardinality(AdmittedTo(w)) /\ Cardinality(AdmittedTo(w)') \in Nat
  <2>1. AdmittedTo(w)' \subseteq AdmittedTo(w)
    BY DEF AdmittedTo
  <2> QED
    BY <2>1, DripSets, FS_Subset, FS_CardinalityType DEF DripInv
<1>3. DOMAIN gas' = DOMAIN gas
  BY DEF DripInv, Drip!GasDripsTypeOK
<1>4. Cardinality(Admitted') <= DailyCap + Concurrent - 1
  BY <1>1, DripSets, DripNumbers DEF DripInv, DripLimits
<1>5. \A w \in DOMAIN gas' : Cardinality(AdmittedTo(w)') <= MaxPerWallet + Concurrent - 1
  BY <1>2, <1>3, DripSets, DripNumbers DEF DripInv, DripLimits
<1> QED
  BY <1>4, <1>5 DEF DripInv

\* A call that moves within its flight, or ends it, leaves no more in flight.
LEMMA FlightStays ==
    ASSUME DripInv, Drip!GasDripsTypeOK', NEW c \in DripCalls, NEW to, c \in Drip!InFlight,
           at' = [at EXCEPT ![c] = to] \/ UNCHANGED at
    PROVE  Cardinality(Drip!InFlight)' <= Concurrent
<1>1. Drip!InFlight' \subseteq Drip!InFlight
  BY DEF Drip!InFlight, DripInv, Drip!GasDripsTypeOK
<1>2. Cardinality(Drip!InFlight') <= Cardinality(Drip!InFlight) /\ Cardinality(Drip!InFlight') \in Nat
  BY <1>1, DripSets, FS_Subset, FS_CardinalityType DEF DripInv
<1> QED
  BY <1>2, DripSets, DripNumbers DEF DripInv, DripLimits

LEMMA DripTypes ==
    ASSUME Drip!GasDripsTypeOK, Drip!GasDripsNext
    PROVE  Drip!GasDripsTypeOK'
<1>1. PICK c \in DripCalls : Drip!Start(c) \/ Drip!CallStep(c) \/ Drip!DripLands(c)
  BY DEF Drip!GasDripsNext
<1>2. Signer[c] \in {Signer[b] : b \in DripCalls}
  OBVIOUS
<1>3. CASE Drip!DripLands(c)
  BY <1>2, <1>3 DEF Drip!DripLands, Drip!GasDripsTypeOK
<1>4. CASE Drip!UnsponsoredSend(c)
  BY <1>2, <1>4 DEF Drip!UnsponsoredSend, Drip!Goes, Drip!GasDripsTypeOK, Drip!Points
<1>5. CASE Drip!Start(c) \/ Drip!SponsoredSend(c) \/ Drip!SendAgain(c) \/ Drip!SkipDrip(c)
  BY <1>5 DEF Drip!Start, Drip!SponsoredSend, Drip!SendAgain, Drip!SkipDrip, Drip!Goes,
              Drip!GasDripsTypeOK, Drip!Points
<1>6. CASE Drip!Check(c) \/ Drip!Drip(c) \/ Drip!DripRefused(c) \/ Drip!DripWaited(c)
  BY <1>6 DEF Drip!Check, Drip!Drip, Drip!DripRefused, Drip!DripWaited, Drip!Goes,
              Drip!GasDripsTypeOK, Drip!Points
<1>7. CASE Drip!Record(c) \/ Drip!DripConfirmed(c) \/ Drip!DripTimesOut(c) \/ Drip!Visible(c)
  BY <1>7 DEF Drip!Record, Drip!DripConfirmed, Drip!DripTimesOut, Drip!Visible, Drip!Goes,
              Drip!GasDripsTypeOK, Drip!Points
<1> QED
  BY <1>1, <1>3, <1>4, <1>5, <1>6, <1>7 DEF Drip!CallStep

LEMMA StartStep ==
    ASSUME DripInv, NEW c \in DripCalls, Drip!Start(c), Drip!GasDripsTypeOK'
    PROVE  DripInv'
<1>1. Drip!InFlight' \subseteq Drip!InFlight \cup {c}
  BY DEF Drip!Start, Drip!Goes, Drip!InFlight, DripInv, Drip!GasDripsTypeOK
<1>2. Cardinality(Drip!InFlight) < Concurrent
  BY DEF Drip!Start, Drip!Cardinality, Cardinality
<1>3. /\ Cardinality(Drip!InFlight') <= Cardinality(Drip!InFlight \cup {c})
      /\ Cardinality(Drip!InFlight \cup {c}) \in {Cardinality(Drip!InFlight), Cardinality(Drip!InFlight) + 1}
      /\ Cardinality(Drip!InFlight') \in Nat
  BY <1>1, DripSets, FS_AddElement, FS_Subset, FS_CardinalityType DEF DripInv
<1>4. Cardinality(Drip!InFlight)' <= Concurrent
  BY <1>2, <1>3, DripSets, DripNumbers DEF DripInv, DripLimits
<1>5. Admitted' \subseteq Admitted
  BY DEF Admitted, Drip!Start, Drip!Goes, DripInv, Drip!GasDripsTypeOK
<1> QED
  BY <1>4, <1>5, FewerStay DEF Drip!Start, Drip!Goes, DripInv, Drip!GasDripsTypeOK

\* The guard lets a call through: what it counts, with what is in flight, bounds what
\* has been admitted.
LEMMA CheckStep ==
    ASSUME DripInv, NEW c \in DripCalls, Drip!Check(c), Drip!GasDripsTypeOK'
    PROVE  DripInv'
<1>0. PICK to \in {"drip", "failed"} :
        /\ at' = [at EXCEPT ![c] = to]
        /\ UNCHANGED <<gas, drip, rows>> /\ uncounted \subseteq uncounted'
        /\ to = "drip" /\ c \in Guarded /\ c \notin uncounted'
             => Drip!Eligible(c) /\ UNCHANGED uncounted
  BY DEF Drip!Check, Drip!Goes
<1>1. at[c] = "check" /\ c \in Drip!InFlight
  BY DEF Drip!Check, Drip!Goes, Drip!InFlight
<1>2. Cardinality(Drip!InFlight)' <= Concurrent
  BY <1>0, <1>1, FlightStays
<1>3. (\A b \in Guarded : drip[b] # "none" =>
         b \in rows \cup uncounted \/ at[b] \in {"confirming", "record"})'
  BY <1>0, <1>1 DEF DripInv, Drip!GasDripsTypeOK
<1>4. CASE c \notin Guarded \/ c \in uncounted' \/ at'[c] = "failed"
  <2>1. Admitted' \subseteq Admitted
    BY <1>0, <1>1, <1>4 DEF Admitted, DripInv, Drip!GasDripsTypeOK
  <2> QED
    BY <1>2, <1>3, <2>1, FewerStay
<1>5. CASE c \in Guarded /\ c \notin uncounted' /\ at'[c] # "failed"
  <2>1. Drip!Eligible(c) /\ at' = [at EXCEPT ![c] = "drip"] /\ UNCHANGED <<gas, drip, rows, uncounted>>
    BY <1>0, <1>5 DEF DripInv, Drip!GasDripsTypeOK
  <2>2. Admitted' \subseteq rows \cup Drip!InFlight
    BY <1>1, <2>1, DripNumbers DEF Admitted, Drip!InFlight, DripInv, Drip!GasDripsTypeOK, DripLimits
  <2>3. Cardinality(rows) \in Nat /\ Cardinality(rows) + 1 <= DailyCap
    BY <2>1, DripSets, FS_CardinalityType DEF Drip!Eligible, Drip!Cardinality, Cardinality, DripInv
  <2>4. /\ IsFiniteSet(rows \cup Drip!InFlight)
        /\ Cardinality(rows \cup Drip!InFlight) <= Cardinality(rows) + Cardinality(Drip!InFlight)
        /\ Cardinality(rows \cup Drip!InFlight) \in Nat
    BY DripSets, UnionBound DEF DripInv
  <2>5. Cardinality(Admitted') <= DailyCap + Concurrent - 1
    <3>1. Cardinality(Admitted') <= Cardinality(rows \cup Drip!InFlight) /\ Cardinality(Admitted') \in Nat
      BY <2>2, <2>4, FS_Subset, FS_CardinalityType
    <3> QED
      BY <2>3, <2>4, <3>1, DripSets, DripNumbers DEF DripInv, DripLimits
  <2>6. ASSUME NEW w \in DOMAIN gas
        PROVE  Cardinality(AdmittedTo(w)') <= MaxPerWallet + Concurrent - 1
    <3>1. CASE Signer[c] # w
      <4>1. AdmittedTo(w)' = AdmittedTo(w)
        BY <2>1, <3>1 DEF AdmittedTo, Admitted, DripInv, Drip!GasDripsTypeOK
      <4> QED
        BY <4>1 DEF DripInv
    <3>2. CASE Signer[c] = w
      <4>1. PICK R : R = {b \in rows : Signer[b] = w}
        OBVIOUS
      <4>2. IsFiniteSet(R) /\ Cardinality(R) \in Nat
        BY <4>1, DripSets, FS_Subset, FS_CardinalityType DEF DripInv
      <4>3. Cardinality(R) < MaxPerWallet
        BY <2>1, <3>2, <4>1 DEF Drip!Eligible, Drip!DripsOf, Drip!Cardinality, Cardinality
      <4>4. AdmittedTo(w)' \subseteq R \cup Drip!InFlight
        BY <2>2, <4>1 DEF AdmittedTo
      <4>5. /\ IsFiniteSet(R \cup Drip!InFlight)
            /\ Cardinality(R \cup Drip!InFlight) <= Cardinality(R) + Cardinality(Drip!InFlight)
            /\ Cardinality(R \cup Drip!InFlight) \in Nat
        BY <4>2, DripSets, UnionBound DEF DripInv
      <4>6. Cardinality(AdmittedTo(w)') <= Cardinality(R \cup Drip!InFlight)
            /\ Cardinality(AdmittedTo(w)') \in Nat
        BY <4>4, <4>5, FS_Subset, FS_CardinalityType
      <4> QED
        BY <4>2, <4>3, <4>5, <4>6, DripSets, DripNumbers DEF DripInv, DripLimits
    <3> QED
      BY <3>1, <3>2
  <2> QED
    BY <1>2, <1>3, <2>1, <2>5, <2>6 DEF DripInv
<1> QED
  BY <1>4, <1>5

LEMMA DripSteps ==
    ASSUME DripInv, Drip!GasDripsNext
    PROVE  DripInv'
<1>t. Drip!GasDripsTypeOK'
  BY DripTypes DEF DripInv
<1>0. PICK c \in DripCalls : Drip!Start(c) \/ Drip!CallStep(c) \/ Drip!DripLands(c)
  BY DEF Drip!GasDripsNext
<1>1. CASE Drip!Start(c)
  BY <1>1, <1>t, StartStep
<1>2. CASE Drip!Check(c)
  BY <1>2, <1>t, CheckStep
<1>3. CASE Drip!DripLands(c)
  <2>1. Admitted' \subseteq Admitted /\ Drip!InFlight' = Drip!InFlight
    BY <1>3 DEF Drip!DripLands, Admitted, Drip!InFlight, DripInv, Drip!GasDripsTypeOK
  <2>2. Cardinality(Drip!InFlight)' <= Concurrent
    BY <2>1 DEF DripInv
  <2> QED
    BY <1>3, <1>t, <2>1, <2>2, FewerStay DEF Drip!DripLands, DripInv, Drip!GasDripsTypeOK
<1>4. CASE \/ Drip!SponsoredSend(c) \/ Drip!SendAgain(c) \/ Drip!SkipDrip(c) \/ Drip!DripRefused(c)
           \/ Drip!DripConfirmed(c) \/ Drip!DripTimesOut(c) \/ Drip!Visible(c)
           \/ Drip!UnsponsoredSend(c)
  <2>1. PICK to \in Drip!Points \ {"drip"} : at' = [at EXCEPT ![c] = to]
    BY <1>4 DEF Drip!SponsoredSend, Drip!SendAgain, Drip!SkipDrip, Drip!DripRefused,
                Drip!DripConfirmed, Drip!DripTimesOut, Drip!Visible, Drip!UnsponsoredSend,
                Drip!Goes, Drip!Points
  <2>2. /\ UNCHANGED <<drip, rows, uncounted>> /\ c \in Drip!InFlight
        /\ at[c] \notin {"confirming", "record"}
    BY <1>4 DEF Drip!SponsoredSend, Drip!SendAgain, Drip!SkipDrip, Drip!DripRefused,
                Drip!DripConfirmed, Drip!DripTimesOut, Drip!Visible, Drip!UnsponsoredSend,
                Drip!Goes, Drip!InFlight
  <2>3. Admitted' \subseteq Admitted
    BY <2>1, <2>2 DEF Admitted, DripInv, Drip!GasDripsTypeOK
  <2>4. Cardinality(Drip!InFlight)' <= Concurrent
    BY <1>t, <2>1, <2>2, FlightStays
  <2> QED
    BY <1>t, <2>1, <2>2, <2>3, <2>4, FewerStay DEF DripInv, Drip!GasDripsTypeOK
<1>5. CASE Drip!Drip(c) \/ Drip!DripWaited(c) \/ Drip!Record(c)
  <2>1. c \in Drip!InFlight
    BY <1>5 DEF Drip!Drip, Drip!DripWaited, Drip!Record, Drip!Goes, Drip!InFlight
  <2>2. PICK to \in {"confirming", "record", "wait"} : at' = [at EXCEPT ![c] = to]
    BY <1>5 DEF Drip!Drip, Drip!DripWaited, Drip!Record, Drip!Goes
  <2>3. Cardinality(Drip!InFlight)' <= Concurrent
    BY <1>t, <2>1, <2>2, FlightStays
  <2>4. CASE Drip!Drip(c)
    <3>1. /\ at[c] = "drip" /\ at' = [at EXCEPT ![c] = "confirming"]
          /\ drip' = [drip EXCEPT ![c] = "pending"] /\ UNCHANGED <<rows, uncounted>>
      BY <2>4 DEF Drip!Drip, Drip!Goes
    <3>2. Admitted' \subseteq Admitted
      BY <3>1 DEF Admitted, DripInv, Drip!GasDripsTypeOK
    <3>3. (\A b \in Guarded : drip[b] # "none" =>
             b \in rows \cup uncounted \/ at[b] \in {"confirming", "record"})'
      BY <3>1, DripNumbers DEF DripInv, Drip!GasDripsTypeOK, DripLimits
    <3> QED
      BY <1>t, <2>3, <3>2, <3>3, FewerStay
  <2>5. CASE Drip!DripWaited(c)
    <3>1. /\ at[c] = "confirming" /\ at' = [at EXCEPT ![c] = "record"]
          /\ UNCHANGED <<drip, rows, uncounted>>
      BY <2>5 DEF Drip!DripWaited, Drip!Goes
    <3>2. Admitted' \subseteq Admitted
      BY <3>1 DEF Admitted, DripInv, Drip!GasDripsTypeOK
    <3> QED
      BY <1>t, <2>3, <3>1, <3>2, FewerStay DEF DripInv, Drip!GasDripsTypeOK
  <2>6. CASE Drip!Record(c)
    <3>1. /\ at[c] = "record" /\ at' = [at EXCEPT ![c] = "wait"] /\ UNCHANGED drip
          /\ rows \subseteq rows' /\ uncounted \subseteq uncounted'
          /\ c \in Guarded => c \in rows' \cup uncounted'
      BY <2>6 DEF Drip!Record, Drip!Goes
    <3>2. Admitted' \subseteq Admitted
      BY <3>1 DEF Admitted, DripInv, Drip!GasDripsTypeOK
    <3>3. (\A b \in Guarded : drip[b] # "none" =>
             b \in rows \cup uncounted \/ at[b] \in {"confirming", "record"})'
      BY <3>1 DEF DripInv, Drip!GasDripsTypeOK
    <3> QED
      BY <1>t, <2>3, <3>2, <3>3, FewerStay
  <2> QED
    BY <1>5, <2>4, <2>5, <2>6
<1> QED
  BY <1>0, <1>1, <1>2, <1>3, <1>4, <1>5 DEF Drip!CallStep

\* Drips stay within the budget, up to what overlaps: DripsWithinBudget, for any
\* calls, wallets and limits.
THEOREM DripsAreBudgeted == WalletSpec => []DripsWithinBudget
<1> DEFINE Inv == part = "drips" => DripInv
<1>1. WalletInit => Inv
  <2>1. SUFFICES ASSUME WalletInit, part = "drips" PROVE DripInv
    OBVIOUS
  <2>2. Drip!GasDripsInit
    BY <2>1 DEF WalletInit, ComponentsInit
  <2>3. Drip!GasDripsTypeOK
    BY <2>2 DEF Drip!GasDripsInit, Drip!GasDripsTypeOK, Drip!Points
  <2>4. Drip!InFlight = {} /\ Admitted = {} /\ \A w : AdmittedTo(w) = {}
    BY <2>2, DripNumbers DEF Drip!GasDripsInit, Drip!InFlight, Admitted, AdmittedTo, DripLimits
  <2> QED
    <3>1. /\ Cardinality(Drip!InFlight) = 0 /\ Cardinality(Admitted) = 0
          /\ \A w : Cardinality(AdmittedTo(w)) = 0
      BY <2>4, FS_EmptySet
    <3>2. \A c \in Guarded : drip[c] = "none"
      BY <2>2, DripNumbers DEF Drip!GasDripsInit, DripLimits
    <3>3. 0 <= MaxPerWallet + Concurrent - 1 /\ 0 <= DailyCap + Concurrent - 1 /\ 0 <= Concurrent
      BY DripNumbers DEF DripLimits
    <3> QED
      BY <2>3, <3>1, <3>2, <3>3 DEF DripInv
<1>2. Inv /\ [WalletNext]_walletVars => Inv'
  <2>1. SUFFICES ASSUME DripInv, [Drip!GasDripsNext]_dripVars PROVE DripInv'
    BY Part
  <2>2. CASE UNCHANGED dripVars
    <3>1. Drip!InFlight' = Drip!InFlight /\ Admitted' = Admitted /\ \A w : AdmittedTo(w)' = AdmittedTo(w)
      BY <2>2 DEF dripVars, Drip!InFlight, Admitted, AdmittedTo
    <3> QED
      BY <2>1, <2>2, <3>1 DEF dripVars, DripInv, Drip!GasDripsTypeOK
  <2> QED
    BY <2>1, <2>2, DripSteps
<1>3. Inv => DripsWithinBudget
  <2>1. SUFFICES ASSUME DripInv PROVE Drip!GasDripsTypeOK /\ Drip!DripsWithinBudget
    BY DEF DripsWithinBudget
  <2>2. PICK u \in Nat : u = Cardinality(uncounted)
    BY <2>1, DripSets DEF DripInv
  <2>3. ASSUME NEW D, NEW A, NEW n \in Int, D \subseteq A \cup uncounted, IsFiniteSet(A),
               Cardinality(A) <= n
        PROVE  Cardinality(D) <= n + u
    <3>1. IsFiniteSet(uncounted)
      BY <2>1, DripSets DEF DripInv
    <3>2. /\ IsFiniteSet(A \cup uncounted)
          /\ Cardinality(A \cup uncounted) <= Cardinality(A) + u
          /\ Cardinality(A \cup uncounted) \in Nat /\ Cardinality(A) \in Nat
      BY <2>2, <2>3, <3>1, UnionBound, FS_CardinalityType
    <3>3. Cardinality(D) <= Cardinality(A \cup uncounted) /\ Cardinality(D) \in Nat
      BY <2>3, <3>2, FS_Subset, FS_CardinalityType
    <3> QED
      BY <2>2, <2>3, <3>2, <3>3
  <2>4. Drip!Dripped \subseteq Admitted \cup uncounted
    BY DEF Drip!Dripped, Admitted
  <2>5. Cardinality(Drip!Dripped) <= DailyCap + Concurrent - 1 + u
    BY <2>1, <2>3, <2>4, DripSets, DripNumbers DEF DripInv, DripLimits
  <2>6. ASSUME NEW w \in DOMAIN gas
        PROVE  Cardinality({c \in Drip!Dripped : Signer[c] = w}) <= MaxPerWallet + Concurrent - 1 + u
    <3>1. {c \in Drip!Dripped : Signer[c] = w} \subseteq AdmittedTo(w) \cup uncounted
      BY <2>4 DEF AdmittedTo
    <3> QED
      BY <2>1, <2>3, <3>1, DripSets, DripNumbers DEF DripInv, DripLimits
  <2>7. Drip!DripsWithinBudget
    <3>1. u = Drip!Cardinality(uncounted)
      BY <2>2 DEF Drip!Cardinality, Cardinality
    <3>2. Drip!Cardinality(Drip!Dripped) <= DailyCap + (Concurrent - 1 + u)
      BY <2>5, DripNumbers DEF DripLimits, Drip!Cardinality, Cardinality
    <3>3. \A w \in DOMAIN gas :
            Drip!Cardinality({c \in Drip!Dripped : Signer[c] = w}) <= MaxPerWallet + (Concurrent - 1 + u)
      <4>1. SUFFICES ASSUME NEW w \in DOMAIN gas, NEW S, S = {c \in Drip!Dripped : Signer[c] = w}
                     PROVE  Drip!Cardinality(S) <= MaxPerWallet + (Concurrent - 1 + u)
        OBVIOUS
      <4>2. Cardinality(S) <= MaxPerWallet + Concurrent - 1 + u
        BY <2>6, <4>1
      <4>3. Cardinality(S) <= MaxPerWallet + (Concurrent - 1 + u)
        BY <4>2, DripNumbers DEF DripLimits
      <4> QED
        BY <4>3 DEF Drip!Cardinality, Cardinality
    <3> QED
      BY <3>1, <3>2, <3>3 DEF Drip!DripsWithinBudget
  <2> QED
    BY <2>1, <2>7 DEF DripInv
<1> QED
  BY <1>1, <1>2, <1>3, PTL DEF WalletSpec

-----------------------------------------------------------------------------
(* The send on chain.                                                      *)

SendStatus == {"CONFIRMED", "FAILED", "PENDING", "BROADCAST", NoSend}
Settled == {"CONFIRMED", "FAILED"}

SendConstants ==
    /\ IsFiniteSet(ChainSends) /\ NoSend \notin ChainSends
    /\ NoSend \notin {"PENDING", "BROADCAST", "CONFIRMED", "FAILED", "pending", "success", "failed"}
    /\ MaxChainPrompts \in Nat /\ MaxFailures \in Nat

LEMMA SendConstantsHold == SendConstants
  BY WalletAssumption DEF SendConstants, Onc!OnchainConstants, Onc!IsFiniteSet, IsFiniteSet

\* The sends approved, and those debited.
Approved == {s \in ChainSends : sendRequest[s] # "none"}
Debited == {s \in ChainSends : sendKnown[s] # NoSend}

\* What the memory of the API, an answered poll and the modal have of a send is
\* what its row has, once that is final; a request that has not been handled has
\* left no trace; debits and approvals are counted by the sends they are of.
StatusInv ==
    /\ \A s \in ChainSends :
         /\ sendRequest[s] \in {"none", "asked", "again"} => sendRow[s] = NoSend /\ sendKnown[s] = NoSend
         /\ sendRow[s] # NoSend => sendKnown[s] # NoSend
         /\ sendRequest[s] \in {"done", "closing"} => sendKnown[s] # NoSend
         /\ sendKnown[s] \in Settled => sendRow[s] = sendKnown[s]
    /\ \A q \in sendPolls : q.status \in Settled => sendRow[q.send] = q.status

ModalInv ==
    /\ shown.type # NoSend => shown.ref \in ChainSends
    /\ Onc!ResultIsTrue

CountInv == debits = Cardinality(Debited) /\ approvals = Cardinality(Approved)

OnchainInv == Onc!OnchainTypeOK /\ StatusInv /\ ModalInv /\ CountInv

LEMMA SendFacts ==
    ASSUME Onc!OnchainTypeOK
    PROVE  /\ \A s \in ChainSends : sendRow[s] \in SendStatus /\ sendKnown[s] \in SendStatus
           /\ DOMAIN sendRow = ChainSends /\ DOMAIN sendKnown = ChainSends
           /\ DOMAIN sendRequest = ChainSends
           /\ \A q \in sendPolls : q.send \in ChainSends /\ q.status \in SendStatus
           /\ sendPolls \subseteq [send : ChainSends, status : SendStatus]
           /\ shown.type \in {NoSend, "pending", "success", "failed"}
  BY DEF Onc!OnchainTypeOK, Onc!Statuses, Onc!Final, SendStatus

\* What the sheet and its prompts do, until a request is made.
LEMMA SheetSteps ==
    ASSUME OnchainInv,
           \/ Onc!OpenSheet \/ Onc!CloseSheet \/ Onc!Swipe
           \/ \E k \in {"swipe", "pad"} : Onc!AskPrompt(k) \/ Onc!PromptDismissed(k)
    PROVE  OnchainInv'
<1>1. UNCHANGED <<sendRow, sendKnown, debits, sendRequest, interval, sendPolls, shown,
                  approvals, failures>>
  BY DEF Onc!OpenSheet, Onc!CloseSheet, Onc!Swipe, Onc!AskPrompt, Onc!PromptDismissed,
         Onc!api, Onc!polling
<1>2. Onc!OnchainTypeOK'
  <2>1. sheet' \in [open : BOOLEAN, pinMode : BOOLEAN, submitting : BOOLEAN]
    <3>1. \/ UNCHANGED sheet
          \/ sheet' = [sheet EXCEPT !.open = TRUE]
          \/ sheet' = [sheet EXCEPT !.open = FALSE, !.pinMode = FALSE]
          \/ sheet' = [sheet EXCEPT !.pinMode = TRUE]
      BY DEF Onc!OpenSheet, Onc!CloseSheet, Onc!Swipe, Onc!AskPrompt, Onc!PromptDismissed
    <3> QED
      BY <3>1 DEF OnchainInv, Onc!OnchainTypeOK
  <2>2. sendPrompts' \in [{"swipe", "pad"} -> 0..MaxChainPrompts]
    <3>1. sendPrompts \in [{"swipe", "pad"} -> 0..MaxChainPrompts] /\ MaxChainPrompts \in Nat
      BY SendConstantsHold DEF OnchainInv, Onc!OnchainTypeOK, SendConstants
    <3>2. ASSUME NEW k \in {"swipe", "pad"}, Onc!AskPrompt(k) \/ Onc!PromptDismissed(k)
          PROVE  sendPrompts' \in [{"swipe", "pad"} -> 0..MaxChainPrompts]
      BY <3>1, <3>2 DEF Onc!AskPrompt, Onc!PromptDismissed
    <3> QED
      BY <3>1, <3>2 DEF Onc!OpenSheet, Onc!CloseSheet, Onc!Swipe
  <2> QED
    BY <1>1, <2>1, <2>2 DEF OnchainInv, Onc!OnchainTypeOK
<1>3. Debited' = Debited /\ Approved' = Approved
  BY <1>1 DEF Debited, Approved
<1> QED
  BY <1>1, <1>2, <1>3 DEF OnchainInv, StatusInv, ModalInv, CountInv, Onc!ResultIsTrue

\* An approval makes one request.
LEMMA SubmitStep ==
    ASSUME OnchainInv, NEW s \in ChainSends, Onc!Submit(s),
           sendPrompts' \in [{"swipe", "pad"} -> 0..MaxChainPrompts]
    PROVE  OnchainInv'
<1>1. /\ sendRequest[s] = "none" /\ sendRequest' = [sendRequest EXCEPT ![s] = "asked"]
      /\ approvals' = approvals + 1 /\ sheet' = [sheet EXCEPT !.submitting = TRUE]
      /\ UNCHANGED <<sendRow, sendKnown, debits, interval, sendPolls, shown, failures>>
  BY DEF Onc!Submit, Onc!api, Onc!polling
<1>2. Onc!OnchainTypeOK'
  <2>1. sheet' \in [open : BOOLEAN, pinMode : BOOLEAN, submitting : BOOLEAN]
    BY <1>1 DEF OnchainInv, Onc!OnchainTypeOK
  <2> QED
    BY <1>1, <2>1 DEF OnchainInv, Onc!OnchainTypeOK
<1>3. StatusInv' /\ ModalInv'
  BY <1>1 DEF OnchainInv, Onc!OnchainTypeOK, StatusInv, ModalInv, Onc!ResultIsTrue
<1>4. CountInv'
  <2>1. Approved' = Approved \cup {s} /\ s \notin Approved /\ Debited' = Debited
    BY <1>1 DEF Approved, Debited, OnchainInv, Onc!OnchainTypeOK
  <2>2. IsFiniteSet(Approved)
    BY SendConstantsHold, FS_Subset, Approved \subseteq ChainSends DEF SendConstants, Approved
  <2>3. Cardinality(Approved') = Cardinality(Approved) + 1
    BY <2>1, <2>2, FS_AddElement
  <2> QED
    BY <1>1, <2>1, <2>3 DEF OnchainInv, CountInv
<1> QED
  BY <1>2, <1>3, <1>4 DEF OnchainInv

LEMMA ApprovalOfSend ==
    ASSUME OnchainInv, NEW s \in ChainSends,
           Onc!EnterPin(s) \/ \E k \in {"swipe", "pad"} : Onc!PromptApproves(k, s)
    PROVE  OnchainInv'
<1>1. sendPrompts \in [{"swipe", "pad"} -> 0..MaxChainPrompts] /\ MaxChainPrompts \in Nat
  BY SendConstantsHold DEF OnchainInv, Onc!OnchainTypeOK, SendConstants
<1>2. CASE Onc!EnterPin(s)
  BY <1>1, <1>2, SubmitStep DEF Onc!EnterPin
<1>3. ASSUME NEW k \in {"swipe", "pad"}, Onc!PromptApproves(k, s) PROVE OnchainInv'
  <2>1. sendPrompts' \in [{"swipe", "pad"} -> 0..MaxChainPrompts]
    BY <1>1, <1>3 DEF Onc!PromptApproves
  <2> QED
    BY <1>3, <2>1, SubmitStep DEF Onc!PromptApproves
<1> QED
  BY <1>2, <1>3

\* A request that is handled makes one debit.
LEMMA DebitStep ==
    ASSUME OnchainInv, NEW s \in ChainSends, Onc!Debit(s)
    PROVE  OnchainInv'
<1>1. /\ sendRequest[s] \in {"asked", "again"}
      /\ sendRequest' = [sendRequest EXCEPT ![s] = "done"]
      /\ debits' = debits + 1 /\ sendKnown' = [sendKnown EXCEPT ![s] = "PENDING"]
      /\ sendRow' = [sendRow EXCEPT ![s] = "PENDING"] \/ sendRow' = sendRow
      /\ UNCHANGED <<sheet, sendPrompts, interval, sendPolls, shown, approvals, failures>>
  BY DEF Onc!Debit, Onc!UnderWay, Onc!polling
<1>2. sendRow[s] = NoSend /\ sendKnown[s] = NoSend
  BY <1>1 DEF OnchainInv, StatusInv
<1>3. Onc!OnchainTypeOK'
  BY <1>1 DEF OnchainInv, Onc!OnchainTypeOK, Onc!Statuses
<1>4. StatusInv'
  BY <1>1, <1>2, SendFacts, SendConstantsHold DEF OnchainInv, Onc!OnchainTypeOK, StatusInv, Settled, SendConstants
<1>5. ModalInv'
  BY <1>1, <1>2, SendFacts, SendConstantsHold DEF OnchainInv, ModalInv, Onc!ResultIsTrue, SendConstants
<1>6. CountInv'
  <2>1. Debited' = Debited \cup {s} /\ s \notin Debited /\ Approved' = Approved
    BY <1>1, <1>2, SendFacts, SendConstantsHold DEF Approved, Debited, OnchainInv, SendConstants
  <2>2. IsFiniteSet(Debited)
    BY SendConstantsHold, FS_Subset, Debited \subseteq ChainSends DEF SendConstants, Debited
  <2>3. Cardinality(Debited') = Cardinality(Debited) + 1
    BY <2>1, <2>2, FS_AddElement
  <2> QED
    BY <1>1, <2>1, <2>3 DEF OnchainInv, CountInv
<1> QED
  BY <1>3, <1>4, <1>5, <1>6 DEF OnchainInv

LEMMA RequestSteps ==
    ASSUME OnchainInv, NEW s \in ChainSends,
           \/ Onc!Refuse(s) \/ Onc!Unauthorized(s) \/ Onc!Lost(s) \/ Onc!Answered(s)
           \/ Onc!ShowResult(s) \/ Onc!ShowError(s)
    PROVE  OnchainInv'
<1>1. PICK to \in {"failed", "again", "closing", "over"} :
        /\ sendRequest[s] # "none" /\ sendRequest' = [sendRequest EXCEPT ![s] = to]
        /\ to = "again" => sendRequest[s] = "asked"
        /\ to = "closing" => sendRequest[s] = "done"
        /\ \/ UNCHANGED shown
           \/ sendRequest[s] = "closing" /\ shown' = [type |-> "pending", ref |-> s]
  BY DEF Onc!Refuse, Onc!Unauthorized, Onc!Lost, Onc!Answered, Onc!ShowResult, Onc!ShowError,
         Onc!UnderWay, Onc!polling
<1>2. UNCHANGED <<sendRow, sendKnown, debits, sendPrompts, sendPolls, approvals>>
  BY DEF Onc!Refuse, Onc!Unauthorized, Onc!Lost, Onc!Answered, Onc!ShowResult, Onc!ShowError,
         Onc!polling, Onc!api
<1>3. /\ sheet' \in [open : BOOLEAN, pinMode : BOOLEAN, submitting : BOOLEAN]
      /\ interval' \in ChainSends \cup {NoSend}
  <2>1. /\ \/ UNCHANGED sheet
           \/ sheet' = Onc!Closed
           \/ sheet' = [sheet EXCEPT !.submitting = FALSE]
        /\ interval' \in {interval, s}
    BY DEF Onc!Refuse, Onc!Unauthorized, Onc!Lost, Onc!Answered, Onc!ShowResult, Onc!ShowError,
           Onc!polling
  <2>2. sheet' \in [open : BOOLEAN, pinMode : BOOLEAN, submitting : BOOLEAN]
    <3>1. Onc!Closed \in [open : BOOLEAN, pinMode : BOOLEAN, submitting : BOOLEAN]
      BY DEF Onc!Closed
    <3>2. sheet \in [open : BOOLEAN, pinMode : BOOLEAN, submitting : BOOLEAN]
      BY DEF OnchainInv, Onc!OnchainTypeOK
    <3> QED
      BY <2>1, <3>1, <3>2
  <2> QED
    BY <2>1, <2>2 DEF OnchainInv, Onc!OnchainTypeOK
<1>4. failures' \in 0..MaxFailures
  <2>1. failures \in 0..MaxFailures /\ MaxFailures \in Nat
    BY SendConstantsHold DEF OnchainInv, Onc!OnchainTypeOK, SendConstants
  <2>2. UNCHANGED failures \/ (failures < MaxFailures /\ failures' = failures + 1)
    BY DEF Onc!Refuse, Onc!Unauthorized, Onc!Lost, Onc!Answered, Onc!ShowResult, Onc!ShowError
  <2> QED
    BY <2>1, <2>2
<1>5. Onc!OnchainTypeOK'
  BY <1>1, <1>2, <1>3, <1>4 DEF OnchainInv, Onc!OnchainTypeOK
<1>6. StatusInv'
  BY <1>1, <1>2 DEF OnchainInv, Onc!OnchainTypeOK, StatusInv
<1>7. ModalInv'
  BY <1>1, <1>2 DEF OnchainInv, StatusInv, ModalInv, Onc!ResultIsTrue
<1>8. CountInv'
  <2>1. Debited' = Debited /\ Approved' = Approved
    BY <1>1, <1>2 DEF Debited, Approved, OnchainInv, Onc!OnchainTypeOK
  <2> QED
    BY <1>2, <2>1 DEF OnchainInv, CountInv
<1> QED
  BY <1>5, <1>6, <1>7, <1>8 DEF OnchainInv

LEMMA StatusSteps ==
    ASSUME OnchainInv,
           \/ \E s \in ChainSends : Onc!WorkerMoves(s)
           \/ Onc!Poll
           \/ \E q \in sendPolls : Onc!ReadStatus(q) \/ Onc!PollLost(q) \/ Onc!PollAnswered(q)
    PROVE  OnchainInv'
<1> USE SendConstantsHold DEF SendConstants
<1>1. ASSUME NEW s \in ChainSends, Onc!WorkerMoves(s) PROVE OnchainInv'
  <2>1. PICK t \in {"CONFIRMED", "FAILED", "BROADCAST"} :
          sendRow[s] \in {"PENDING", "BROADCAST"} /\ sendRow' = [sendRow EXCEPT ![s] = t]
    BY <1>1 DEF Onc!WorkerMoves, Onc!Statuses, Onc!Final
  <2>2. UNCHANGED <<sendKnown, debits, sheet, sendPrompts, sendRequest, interval, sendPolls,
                    shown, approvals, failures>>
    BY <1>1 DEF Onc!WorkerMoves, Onc!polling
  <2>3. Onc!OnchainTypeOK'
    BY <2>1, <2>2 DEF OnchainInv, Onc!OnchainTypeOK, Onc!Statuses, Onc!Final
  <2>4. StatusInv'
    BY <2>1, <2>2, SendFacts DEF OnchainInv, StatusInv, Settled
  <2>5. ModalInv'
    BY <2>1, <2>2, SendFacts DEF OnchainInv, ModalInv, Onc!ResultIsTrue
  <2> QED
    BY <2>2, <2>3, <2>4, <2>5 DEF OnchainInv, CountInv, Debited, Approved
<1>2. CASE Onc!Poll
  <2>1. PICK q : q = [send |-> interval, status |-> NoSend]
    OBVIOUS
  <2>2. /\ sendPolls' = sendPolls \cup {q} /\ interval # NoSend
        /\ UNCHANGED <<sendRow, sendKnown, debits, sheet, sendPrompts, sendRequest, interval, shown,
                       approvals, failures>>
    BY <1>2, <2>1 DEF Onc!Poll, Onc!api
  <2>3. q \in [send : ChainSends, status : Onc!Statuses \cup {NoSend}] /\ q.status \notin Settled
    BY <2>1, <2>2 DEF OnchainInv, Onc!OnchainTypeOK, Settled
  <2>4. Onc!OnchainTypeOK'
    BY <2>2, <2>3 DEF OnchainInv, Onc!OnchainTypeOK
  <2> QED
    BY <2>2, <2>3, <2>4 DEF OnchainInv, StatusInv, ModalInv, Onc!ResultIsTrue, CountInv, Debited, Approved
<1>3. ASSUME NEW q \in sendPolls, Onc!ReadStatus(q) PROVE OnchainInv'
  <2>1. PICK v : v = sendKnown'[q.send]
    OBVIOUS
  <2>2. PICK r : r = [q EXCEPT !.status = v]
    OBVIOUS
  <2>3. /\ \/ sendRow[q.send] # NoSend /\ sendKnown' = [sendKnown EXCEPT ![q.send] = sendRow[q.send]]
           \/ sendKnown' = sendKnown
        /\ sendPolls' = (sendPolls \ {q}) \cup {r}
        /\ UNCHANGED <<sendRow, debits, sheet, sendPrompts, sendRequest, interval, shown,
                       approvals, failures>>
    BY <1>3, <2>1, <2>2 DEF Onc!ReadStatus
  <2>4. q.send \in ChainSends /\ q \in [send : ChainSends, status : SendStatus]
    BY SendFacts DEF OnchainInv
  <2>5. v \in SendStatus /\ (v \in Settled => sendRow[q.send] = v)
    BY <2>1, <2>3, <2>4, SendFacts DEF OnchainInv, StatusInv
  <2>6. r.send = q.send /\ r.status = v /\ r \in [send : ChainSends, status : SendStatus]
    BY <2>2, <2>4, <2>5
  <2>7. Onc!OnchainTypeOK'
    <3>1. sendKnown' \in [ChainSends -> SendStatus]
      BY <2>3, <2>4, SendFacts DEF OnchainInv, Onc!OnchainTypeOK, Onc!Statuses, Onc!Final, SendStatus
    <3>2. sendPolls' \subseteq [send : ChainSends, status : SendStatus]
      BY <2>3, <2>6, SendFacts DEF OnchainInv
    <3>3. SendStatus = Onc!Statuses \cup {NoSend}
      BY DEF SendStatus, Onc!Statuses, Onc!Final
    <3> QED
      BY <2>3, <3>1, <3>2, <3>3 DEF OnchainInv, Onc!OnchainTypeOK
  <2>8. StatusInv'
    BY <2>3, <2>4, <2>5, <2>6, SendFacts DEF OnchainInv, StatusInv
  <2>9. \A s \in ChainSends : sendKnown'[s] # NoSend <=> sendKnown[s] # NoSend
    BY <2>3, <2>4, SendFacts DEF OnchainInv, StatusInv
  <2>10. ModalInv'
    BY <2>3, <2>9 DEF OnchainInv, ModalInv, Onc!ResultIsTrue
  <2>11. Debited' = Debited /\ Approved' = Approved
    BY <2>3, <2>9 DEF Debited, Approved
  <2> QED
    BY <2>3, <2>7, <2>8, <2>10, <2>11 DEF OnchainInv, CountInv
<1>4. ASSUME NEW q \in sendPolls, Onc!PollLost(q) \/ Onc!PollAnswered(q) PROVE OnchainInv'
  <2>1. /\ sendPolls' = sendPolls \ {q} /\ interval' \in {interval, NoSend}
        /\ UNCHANGED <<sendRow, sendKnown, debits, sheet, sendPrompts, sendRequest, approvals, failures>>
    BY <1>4 DEF Onc!PollLost, Onc!PollAnswered, Onc!api
  <2>2. \/ UNCHANGED shown
        \/ q.status = "CONFIRMED" /\ shown' = [type |-> "success", ref |-> q.send]
        \/ q.status = "FAILED" /\ shown' = [type |-> "failed", ref |-> q.send]
    BY <1>4 DEF Onc!PollLost, Onc!PollAnswered, Onc!Promoted
  <2>3. q.send \in ChainSends /\ (q.status \in Settled => sendRow[q.send] = q.status)
    BY SendFacts DEF OnchainInv, StatusInv
  <2>4. Onc!OnchainTypeOK'
    BY <2>1, <2>2, <2>3 DEF OnchainInv, Onc!OnchainTypeOK
  <2>5. ModalInv'
    BY <2>1, <2>2, <2>3 DEF OnchainInv, ModalInv, Onc!ResultIsTrue, Settled
  <2> QED
    BY <2>1, <2>4, <2>5 DEF OnchainInv, StatusInv, CountInv, Debited, Approved
<1> QED
  BY <1>1, <1>2, <1>3, <1>4

\* A send on chain is told as it is, and debited as approved: OnchainSendIsHonest,
\* for any sends, prompts and lost requests, and every set of faults.
THEOREM OnchainSendsAreHonest == WalletSpec => []OnchainSendIsHonest
<1> DEFINE Inv == part = "onchain" => OnchainInv
<1>1. WalletInit => Inv
  <2>1. SUFFICES ASSUME WalletInit, part = "onchain" PROVE OnchainInv
    OBVIOUS
  <2>2. Onc!OnchainInit
    BY <2>1 DEF WalletInit, ComponentsInit
  <2>3. Onc!OnchainTypeOK
    BY <2>2, SendConstantsHold DEF Onc!OnchainInit, Onc!Closed, Onc!Hidden, Onc!OnchainTypeOK, SendConstants
  <2>4. StatusInv /\ ModalInv
    BY <2>2, SendConstantsHold DEF Onc!OnchainInit, Onc!Hidden, StatusInv, ModalInv, Settled,
                                   Onc!ResultIsTrue, SendConstants
  <2>5. Debited = {} /\ Approved = {}
    BY <2>2 DEF Onc!OnchainInit, Debited, Approved
  <2> QED
    BY <2>2, <2>3, <2>4, <2>5, FS_EmptySet DEF Onc!OnchainInit, CountInv, OnchainInv
<1>2. Inv /\ [WalletNext]_walletVars => Inv'
  <2>1. SUFFICES ASSUME OnchainInv, [Onc!OnchainNext]_onchainSendVars PROVE OnchainInv'
    BY Part
  <2>2. CASE UNCHANGED onchainSendVars
    <3>1. Onc!OnchainTypeOK' /\ StatusInv' /\ ModalInv'
      BY <2>1, <2>2 DEF onchainSendVars, OnchainInv, Onc!OnchainTypeOK, StatusInv, ModalInv, Onc!ResultIsTrue
    <3> QED
      BY <2>1, <2>2, <3>1 DEF onchainSendVars, OnchainInv, CountInv, Debited, Approved
  <2>3. CASE Onc!OnchainNext
    BY <2>1, <2>3, SheetSteps, ApprovalOfSend, DebitStep, RequestSteps, StatusSteps DEF Onc!OnchainNext
  <2> QED
    BY <2>1, <2>2, <2>3
<1>3. Inv => OnchainSendIsHonest
  <2>1. SUFFICES ASSUME OnchainInv PROVE debits <= approvals
    BY DEF OnchainInv, ModalInv, OnchainSendIsHonest, Onc!OnchainSendIsHonest, Onc!DebitsAreApproved
  <2>2. Debited \subseteq Approved
    BY <2>1 DEF Debited, Approved, OnchainInv, StatusInv
  <2>3. IsFiniteSet(Approved)
    BY SendConstantsHold, FS_Subset, Approved \subseteq ChainSends DEF SendConstants, Approved
  <2> QED
    BY <2>1, <2>2, <2>3, FS_Subset DEF OnchainInv, CountInv
<1> QED
  BY <1>1, <1>2, <1>3, PTL DEF WalletSpec

-----------------------------------------------------------------------------
(* The notifications.                                                      *)

NoteConstants ==
    /\ IsFiniteSet(Notes) /\ "all" \notin Notes /\ Marks \subseteq Notes \cup {"all"}
    /\ "none" \notin NoteGets

LEMMA NoteConstantsHold == NoteConstants
  BY WalletAssumption DEF NoteConstants, Note!NotesConstants, Note!IsFiniteSet, IsFiniteSet

UnreadOf(c) == {n \in Notes : c[n] = "unread"}

\* What has been marked is read, and stays so: a row that is not written yet is none.
RowsInv ==
    /\ \A n \in inserts : noteRows[n] = "none"
    /\ \A n \in marked : noteRows[n] = "read"

\* A request for the list knows what was marked when it was made, and its rows, once
\* read, have no such note unread; the one waited for knows all that was ever shown.
GetsInv ==
    /\ \A g \in NoteGets :
         /\ noteGet[g].after \subseteq marked
         /\ noteGet[g].at \in {"read", "answered"} /\ noteGet[g].source = "database" =>
              \A n \in noteGet[g].after : noteGet[g].notes[n] # "unread"
    /\ current # "none" => noteGet[current].at # "none" /\ settled \subseteq noteGet[current].after

ShownInv ==
    /\ noteCache.source = "database" => \A n \in settled : noteCache.notes[n] # "unread"
    /\ noteCache.badge = Cardinality(UnreadOf(noteCache.notes))

NotesInv == Note!NotesTypeOK /\ RowsInv /\ GetsInv /\ ShownInv

Getting == [at : {"none", "asked", "read", "answered"}, notes : Note!Contents,
            source : {"none", "database", "memory"}, after : SUBSET Notes]

LEMMA NoteTypes ==
    ASSUME Note!NotesTypeOK
    PROVE  /\ noteRows \in Note!Contents /\ list \in Note!Contents
           /\ noteCache.notes \in Note!Contents
           /\ noteGet \in [NoteGets -> Getting]
           /\ settled \subseteq marked /\ marked \subseteq Notes
           /\ DOMAIN noteGet = NoteGets
  BY DEF Note!NotesTypeOK, Getting

LEMMA UnreadCount ==
    ASSUME NEW c
    PROVE  /\ Note!Unread(c) = Cardinality(UnreadOf(c))
           /\ IsFiniteSet(UnreadOf(c)) /\ Cardinality(UnreadOf(c)) \in Nat
<1>1. UnreadOf(c) \subseteq Notes /\ IsFiniteSet(Notes)
  BY NoteConstantsHold DEF UnreadOf, NoteConstants
<1>2. IsFiniteSet(UnreadOf(c)) /\ Cardinality(UnreadOf(c)) \in Nat
  BY <1>1, FS_Subset, FS_CardinalityType
<1>3. Note!Unread(c) = Note!Cardinality(UnreadOf(c))
  BY DEF Note!Unread, UnreadOf
<1> QED
  BY <1>2, <1>3 DEF Note!Cardinality, Cardinality

LEMMA EmptyIsContents == Note!Empty \in Note!Contents /\ UnreadOf(Note!Empty) = {}
  BY DEF Note!Empty, Note!Contents, UnreadOf

\* Reading makes unread notes read, and no others.
LEMMA ReadContents ==
    ASSUME NEW c \in Note!Contents, NEW m \in Marks
    PROVE  /\ Note!Read(c, m) \in Note!Contents
           /\ \A n \in Notes : /\ c[n] = "read" => Note!Read(c, m)[n] = "read"
                               /\ c[n] # "unread" => Note!Read(c, m)[n] # "unread"
                               /\ c[n] = "none" => Note!Read(c, m)[n] = "none"
           /\ UnreadOf(Note!Read(c, m)) = UnreadOf(c) \ Note!Meant(m)
  BY DEF Note!Read, Note!Contents, UnreadOf

\* A request that is made knows what is marked.
LEMMA AskStep ==
    ASSUME Note!NotesTypeOK, GetsInv, NEW g \in NoteGets, Note!Ask(g),
           marked \subseteq marked', marked' \subseteq Notes, UNCHANGED settled
    PROVE  /\ noteGet' \in [NoteGets -> Getting] /\ current' \in NoteGets \cup {"none"}
           /\ GetsInv'
<1>1. PICK r : r = [Note!NoGet EXCEPT !.at = "asked", !.after = marked']
  OBVIOUS
<1>2. r.at = "asked" /\ r.after = marked' /\ r \in Getting
  BY <1>1, EmptyIsContents DEF Note!NoGet, Getting
<1>3. noteGet' = [noteGet EXCEPT ![g] = r] /\ current' = g
  BY <1>1 DEF Note!Ask
<1>4. noteGet' \in [NoteGets -> Getting]
  BY <1>2, <1>3, NoteTypes
<1> QED
  BY <1>2, <1>3, <1>4, NoteTypes DEF GetsInv

\* New notifications.
LEMMA InsertSteps ==
    ASSUME NotesInv, NEW n \in Notes, Note!AddNotification(n) \/ Note!Insert(n)
    PROVE  NotesInv'
<1>1. /\ UNCHANGED <<noteGet, patch, noteCache, current, marked, settled>>
      /\ list' \in {list, [list EXCEPT ![n] = "unread"]}
      /\ noteRows' \in {noteRows, [noteRows EXCEPT ![n] = "unread"]}
      /\ inserts' \in {inserts \cup {n}, inserts \ {n}}
      /\ noteRows[n] = "none"
      /\ n \in inserts' => noteRows' = noteRows
  BY DEF Note!AddNotification, Note!Insert, NotesInv, RowsInv
<1>2. Note!NotesTypeOK'
  <2>1. noteRows' \in Note!Contents /\ list' \in Note!Contents
    BY <1>1, NoteTypes DEF NotesInv, Note!Contents
  <2> QED
    BY <1>1, <2>1 DEF NotesInv, Note!NotesTypeOK
<1>3. RowsInv'
  <2>1. \A k \in Notes : k # n => noteRows'[k] = noteRows[k]
    BY <1>1, NoteTypes DEF NotesInv, Note!Contents
  <2>2. n \notin marked /\ marked \subseteq Notes /\ inserts \subseteq Notes
    BY <1>1, NoteTypes DEF NotesInv, RowsInv, Note!NotesTypeOK
  <2> QED
    BY <1>1, <2>1, <2>2 DEF NotesInv, RowsInv
<1> QED
  BY <1>1, <1>2, <1>3 DEF NotesInv, GetsInv, ShownInv

\* The API reads the list.
LEMMA ReadSteps ==
    ASSUME NotesInv, NEW g \in NoteGets, Note!ReadRows(g) \/ Note!KeepRows(g)
    PROVE  NotesInv'
<1>1. /\ UNCHANGED <<noteRows, inserts, patch, noteCache, current, marked, settled>>
      /\ list' \in {list, noteGet[g].notes}
  BY DEF Note!ReadRows, Note!KeepRows
<1>2. PICK r : r = noteGet[g]
  OBVIOUS
<1>3. PICK s : noteGet' = [noteGet EXCEPT ![g] = s]
               /\ \/ s = [r EXCEPT !.at = "read", !.notes = noteRows, !.source = "database"]
                  \/ s = [r EXCEPT !.at = "answered", !.notes = list, !.source = "memory"]
                  \/ r.at = "read" /\ s = [r EXCEPT !.at = "answered"]
  <2>1. CASE noteGet' = [noteGet EXCEPT ![g].at = "read", ![g].notes = noteRows, ![g].source = "database"]
    BY <1>2, <2>1, NoteTypes DEF NotesInv, Getting
  <2>2. CASE noteGet' = [noteGet EXCEPT ![g].at = "answered", ![g].notes = list, ![g].source = "memory"]
    BY <1>2, <2>2, NoteTypes DEF NotesInv, Getting
  <2>3. CASE noteGet[g].at = "read" /\ noteGet' = [noteGet EXCEPT ![g].at = "answered"]
    BY <1>2, <2>3, NoteTypes DEF NotesInv, Getting
  <2> QED
    BY <2>1, <2>2, <2>3 DEF Note!ReadRows, Note!KeepRows
<1>4. r \in Getting
  BY <1>2, NoteTypes DEF NotesInv
<1>5. s \in Getting /\ s.after = r.after /\ s.at # "none"
      /\ (s.source = "database" => \/ s.notes = noteRows
                                   \/ r.at = "read" /\ s.notes = r.notes /\ r.source = "database")
  BY <1>3, <1>4, NoteTypes DEF NotesInv, Getting
<1>6. noteGet' \in [NoteGets -> Getting]
  BY <1>3, <1>5, NoteTypes DEF NotesInv
<1>7. Note!NotesTypeOK'
  <2>1. list' \in Note!Contents
    BY <1>1, <1>2, <1>4, NoteTypes DEF NotesInv, Getting
  <2> QED
    BY <1>1, <1>6, <2>1 DEF NotesInv, Note!NotesTypeOK, Getting
<1>8. GetsInv'
  <2>1. \A n \in r.after : noteRows[n] # "unread"
    BY <1>2 DEF NotesInv, GetsInv, RowsInv
  <2>2. s.source = "database" => \A n \in s.after : s.notes[n] # "unread"
    BY <1>2, <1>5, <2>1 DEF NotesInv, GetsInv
  <2> QED
    BY <1>1, <1>2, <1>3, <1>5, <2>2, NoteTypes DEF NotesInv, GetsInv
<1> QED
  BY <1>1, <1>7, <1>8 DEF NotesInv, RowsInv, ShownInv

\* The wallet hears of the list, or gives it up.
LEMMA AnswerSteps ==
    ASSUME NotesInv, NEW g \in NoteGets,
           Note!GetAnswered(g) \/ Note!GetLost(g) \/ Note!GetRefused(g)
    PROVE  NotesInv'
<1>1. /\ UNCHANGED <<noteRows, list, inserts, patch, marked>>
      /\ noteGet[g].at # "none" /\ noteGet' = [noteGet EXCEPT ![g] = Note!NoGet]
      /\ current' = IF current = g THEN "none" ELSE current
  BY DEF Note!GetAnswered, Note!GetLost, Note!GetRefused
<1>2. Note!NoGet \in Getting /\ Note!NoGet.at = "none" /\ Note!NoGet.after = {}
  BY EmptyIsContents DEF Note!NoGet, Getting
<1>3. noteGet[g] \in Getting
  BY NoteTypes DEF NotesInv
<1>4. /\ settled \subseteq settled' /\ settled' \subseteq marked
      /\ current' # "none" => settled' = settled
      /\ noteCache' \in [notes : Note!Contents, badge : Nat, source : {"none", "database", "memory"}]
      /\ ShownInv'
  <2>1. CASE UNCHANGED <<noteCache, settled>>
    BY <2>1 DEF NotesInv, Note!NotesTypeOK, ShownInv
  <2>2. CASE noteCache' = Note!Blank /\ settled' = settled
    <3>1. Note!Blank.source = "none" /\ Note!Blank.badge = 0 /\ Note!Blank.notes = Note!Empty
      BY DEF Note!Blank
    <3>2. Note!Blank \in [notes : Note!Contents, badge : Nat, source : {"none", "database", "memory"}]
      BY EmptyIsContents DEF Note!Blank
    <3>3. ShownInv'
      BY <2>2, <3>1, EmptyIsContents, FS_EmptySet DEF ShownInv
    <3> QED
      BY <2>2, <3>2, <3>3, NoteTypes DEF NotesInv
  <2>3. CASE Note!GetAnswered(g) /\ current = g
    <3>1. /\ noteCache' = [notes |-> noteGet[g].notes, badge |-> Note!Unread(noteGet[g].notes),
                           source |-> noteGet[g].source]
          /\ settled' = settled \cup noteGet[g].after /\ noteGet[g].at = "answered"
      BY <2>3 DEF Note!GetAnswered
    <3>2. settled \subseteq noteGet[g].after /\ noteGet[g].after \subseteq marked /\ g # "none"
      BY <2>3, NoteConstantsHold DEF NotesInv, GetsInv, NoteConstants
    <3>3. settled' = noteGet[g].after
      BY <3>1, <3>2
    <3>4. /\ noteCache'.notes = noteGet[g].notes /\ noteCache'.source = noteGet[g].source
          /\ noteCache'.badge = Cardinality(UnreadOf(noteGet[g].notes))
      BY <3>1, UnreadCount
    <3>5. noteCache' \in [notes : Note!Contents, badge : Nat, source : {"none", "database", "memory"}]
      BY <1>3, <3>1, UnreadCount DEF Getting
    <3>6. ShownInv'
      BY <3>1, <3>3, <3>4 DEF ShownInv, NotesInv, GetsInv
    <3> QED
      BY <1>1, <2>3, <3>2, <3>3, <3>5, <3>6
  <2> QED
    BY <2>1, <2>2, <2>3 DEF Note!GetAnswered, Note!GetLost, Note!GetRefused
<1>5. noteGet' \in [NoteGets -> Getting]
  BY <1>1, <1>2, NoteTypes DEF NotesInv
<1>6. Note!NotesTypeOK'
  BY <1>1, <1>4, <1>5 DEF NotesInv, Note!NotesTypeOK, Getting
<1>7. GetsInv'
  BY <1>1, <1>2, <1>4, NoteTypes DEF NotesInv, GetsInv
<1> QED
  BY <1>1, <1>4, <1>6, <1>7 DEF NotesInv, RowsInv

\* The wallet's copy is changed first, ...
LEMMA MarkStep ==
    ASSUME NotesInv, NEW m \in Marks, Note!Mark(m)
    PROVE  NotesInv'
<1>1. PICK c : c = noteCache.notes
  OBVIOUS
<1>2. PICK b : b = IF m = "all" THEN 0 ELSE IF noteCache.badge = 0 THEN 0 ELSE noteCache.badge - 1
  OBVIOUS
<1>3. /\ noteCache' = [noteCache EXCEPT !.notes = Note!Read(c, m), !.badge = b]
      /\ patch' = [patch EXCEPT ![m] = "asked"]
      /\ UNCHANGED <<noteRows, list, inserts, noteGet, current, marked, settled>>
      /\ m = "all" \/ c[m] = "unread"
  BY <1>1, <1>2 DEF Note!Mark
<1>4. c \in Note!Contents
  BY <1>1, NoteTypes DEF NotesInv
<1>5. b = Cardinality(UnreadOf(Note!Read(c, m))) /\ b \in Nat
  <2>1. CASE m = "all"
    <3>1. UnreadOf(Note!Read(c, m)) = {}
      BY <1>4, <2>1, ReadContents DEF Note!Meant, UnreadOf
    <3> QED
      BY <1>2, <2>1, <3>1, FS_EmptySet
  <2>2. CASE m # "all"
    <3>1. m \in UnreadOf(c) /\ UnreadOf(Note!Read(c, m)) = UnreadOf(c) \ {m}
      BY <1>3, <1>4, <2>2, ReadContents, NoteConstantsHold DEF Note!Meant, UnreadOf, NoteConstants
    <3>2. Cardinality(UnreadOf(c) \ {m}) = Cardinality(UnreadOf(c)) - 1
      BY <3>1, UnreadCount, FS_RemoveElement
    <3>3. Cardinality(UnreadOf(c) \ {m}) \in Nat
      BY <3>1, UnreadCount
    <3>4. noteCache.badge = Cardinality(UnreadOf(c))
      BY <1>1 DEF NotesInv, ShownInv
    <3> QED
      BY <1>2, <2>2, <3>1, <3>2, <3>3, <3>4, UnreadCount
  <2> QED
    BY <2>1, <2>2
<1>6. /\ noteCache' \in [notes : Note!Contents, badge : Nat, source : {"none", "database", "memory"}]
      /\ noteCache'.notes = Note!Read(c, m) /\ noteCache'.badge = b
      /\ noteCache'.source = noteCache.source
  BY <1>3, <1>4, <1>5, ReadContents DEF NotesInv, Note!NotesTypeOK
<1>7. Note!NotesTypeOK'
  BY <1>3, <1>6 DEF NotesInv, Note!NotesTypeOK
<1>8. ShownInv'
  BY <1>1, <1>3, <1>4, <1>5, <1>6, ReadContents, NoteTypes DEF NotesInv, ShownInv
<1> QED
  BY <1>3, <1>7, <1>8 DEF NotesInv, RowsInv, GetsInv

\* ... then the API's list and the rows.
LEMMA MarkedRows ==
    ASSUME NotesInv, NEW m \in Marks,
           noteRows' \in {noteRows, Note!Read(noteRows, m)},
           list' \in {list, Note!Read(list, m)}
    PROVE  /\ noteRows' \in Note!Contents /\ list' \in Note!Contents
           /\ \A n \in Notes : noteRows[n] = "none" => noteRows'[n] = "none"
           /\ \A n \in Notes : noteRows[n] = "read" => noteRows'[n] = "read"
  BY ReadContents, NoteTypes DEF NotesInv

LEMMA MarkApiSteps ==
    ASSUME NotesInv, NEW m \in Marks, Note!MarkList(m) \/ Note!MarkRows(m)
    PROVE  NotesInv'
<1>1. /\ UNCHANGED <<inserts, noteGet, noteCache, current, marked, settled>>
      /\ noteRows' \in {noteRows, Note!Read(noteRows, m)}
      /\ list' \in {list, Note!Read(list, m)}
      /\ \E to \in {"listed", "stored", "refused"} : patch' = [patch EXCEPT ![m] = to]
  BY DEF Note!MarkList, Note!MarkRows
<1>2. Note!NotesTypeOK'
  BY <1>1, MarkedRows DEF NotesInv, Note!NotesTypeOK
<1>3. RowsInv'
  BY <1>1, MarkedRows DEF NotesInv, Note!NotesTypeOK, RowsInv
<1> QED
  BY <1>1, <1>2, <1>3 DEF NotesInv, GetsInv, ShownInv

\* The change is answered, or lost, and the list is asked for again.
LEMMA MarkEnds ==
    ASSUME NotesInv, NEW m \in Marks, NEW g \in NoteGets,
           Note!MarkAnswered(m, g) \/ Note!MarkLost(m, g)
    PROVE  NotesInv'
<1>1. /\ UNCHANGED <<inserts, noteCache, settled>> /\ Note!Ask(g)
      /\ noteRows' \in {noteRows, Note!Read(noteRows, m)}
      /\ list' \in {list, Note!Read(list, m)}
      /\ patch' = [patch EXCEPT ![m] = "none"]
      /\ \/ UNCHANGED marked
         \/ marked' = marked \cup {n \in Note!Meant(m) : noteRows[n] = "read"} /\ UNCHANGED noteRows
  BY DEF Note!MarkAnswered, Note!MarkLost
<1>2. Note!Meant(m) \subseteq Notes
  BY NoteConstantsHold DEF NoteConstants, Note!Meant
<1>3. marked \subseteq marked' /\ marked' \subseteq Notes
  BY <1>1, <1>2, NoteTypes DEF NotesInv
<1>4. noteGet' \in [NoteGets -> Getting] /\ current' \in NoteGets \cup {"none"} /\ GetsInv'
  BY <1>1, <1>3, AskStep DEF NotesInv
<1>5. Note!NotesTypeOK'
  BY <1>1, <1>3, <1>4, MarkedRows DEF NotesInv, Note!NotesTypeOK, Getting
<1>6. RowsInv'
  BY <1>1, MarkedRows, NoteTypes DEF NotesInv, Note!NotesTypeOK, RowsInv
<1> QED
  BY <1>1, <1>4, <1>5, <1>6 DEF NotesInv, ShownInv

LEMMA RestartStep ==
    ASSUME NotesInv, Note!Restart
    PROVE  NotesInv'
<1>1. /\ list' = noteRows /\ inserts' = {} /\ current' = "none"
      /\ noteGet' = [g \in NoteGets |-> Note!NoGet] /\ patch' = [m \in Marks |-> "none"]
      /\ UNCHANGED <<noteRows, noteCache, marked, settled>>
  BY DEF Note!Restart
<1>2. Note!NoGet \in Getting /\ Note!NoGet.at = "none" /\ Note!NoGet.after = {}
  BY EmptyIsContents DEF Note!NoGet, Getting
<1>3. noteGet' \in [NoteGets -> Getting]
  BY <1>1, <1>2
<1>4. Note!NotesTypeOK'
  BY <1>1, <1>3 DEF NotesInv, Note!NotesTypeOK, Getting
<1>5. GetsInv'
  BY <1>1, <1>2 DEF GetsInv
<1> QED
  BY <1>1, <1>4, <1>5 DEF NotesInv, RowsInv, ShownInv

\* A notification that was read is not shown as unread again, and the badge counts
\* what is shown: ReadStaysRead, for any notifications and requests, and every set of
\* faults.
THEOREM ReadNotesStayRead == WalletSpec => []ReadStaysRead
<1> DEFINE Inv == part = "notes" => NotesInv
<1>1. WalletInit => Inv
  <2>1. SUFFICES ASSUME WalletInit, part = "notes" PROVE NotesInv
    OBVIOUS
  <2>2. Note!NotesInit
    BY <2>1 DEF WalletInit, ComponentsInit
  <2>3. /\ Note!NoGet \in Getting /\ Note!NoGet.at = "none" /\ Note!NoGet.after = {}
        /\ Note!Blank.source = "none" /\ Note!Blank.badge = 0 /\ Note!Blank.notes = Note!Empty
        /\ Note!Blank \in [notes : Note!Contents, badge : Nat, source : {"none", "database", "memory"}]
    BY EmptyIsContents DEF Note!NoGet, Note!Blank, Getting
  <2>4. Note!NotesTypeOK
    BY <2>2, <2>3, EmptyIsContents DEF Note!NotesInit, Note!NotesTypeOK, Getting
  <2>5. RowsInv /\ GetsInv
    BY <2>2, <2>3 DEF Note!NotesInit, RowsInv, GetsInv
  <2>6. ShownInv
    BY <2>2, <2>3, EmptyIsContents, FS_EmptySet DEF Note!NotesInit, ShownInv
  <2> QED
    BY <2>4, <2>5, <2>6 DEF NotesInv
<1>2. Inv /\ [WalletNext]_walletVars => Inv'
  <2>1. SUFFICES ASSUME NotesInv, [Note!NotesNext]_notesVars PROVE NotesInv'
    BY Part
  <2>2. CASE UNCHANGED notesVars
    BY <2>1, <2>2 DEF notesVars, NotesInv, Note!NotesTypeOK, RowsInv, GetsInv, ShownInv
  <2>3. ASSUME NEW g \in NoteGets, Note!Refetch(g) PROVE NotesInv'
    <3>1. noteGet' \in [NoteGets -> Getting] /\ current' \in NoteGets \cup {"none"} /\ GetsInv'
      BY <2>1, <2>3, AskStep, NoteTypes DEF Note!Refetch, NotesInv
    <3>2. Note!NotesTypeOK'
      BY <2>1, <2>3, <3>1 DEF Note!Refetch, NotesInv, Note!NotesTypeOK, Getting
    <3> QED
      BY <2>1, <2>3, <3>1, <3>2 DEF Note!Refetch, NotesInv, RowsInv, ShownInv
  <2>4. CASE Note!NotesNext
    BY <2>1, <2>3, <2>4, InsertSteps, ReadSteps, AnswerSteps, MarkStep, MarkApiSteps, MarkEnds,
       RestartStep DEF Note!NotesNext
  <2> QED
    BY <2>1, <2>2, <2>4
<1>3. Inv => ReadStaysRead
  BY UnreadCount DEF NotesInv, ShownInv, ReadStaysRead, Note!ReadStaysRead
<1> QED
  BY <1>1, <1>2, <1>3, PTL DEF WalletSpec

-----------------------------------------------------------------------------
(* A payment on chain.                                                     *)

PayConstants == Chains \subseteq {"solana", "monad"} /\ Nodes \in Nat /\ Polls \in Nat

LEMMA PayConstantsHold == PayConstants
  BY WalletAssumption DEF PayConstants, Pay!ChainSendConstants

Made(i) == tx[i].state # "none"
Receivers == {"recipient", "treasury"}

\* How many blockhashes and requests a call has behind it: at most two of each on
\* Solana but for the second request that goes without sponsorship.
Progress ==
    /\ payAt \in {"start", "lookup", "hash"} => hashes = 0 /\ requests = 0
    /\ payAt \in {"lookup", "hash"} => payChain = "solana"
    /\ payAt = "send" =>
         \/ payChain = "solana" /\ hashes = 1 /\ requests = 0
         \/ payChain = "solana" /\ hashes = 2 /\ requests <= 2
         \/ payChain = "monad" /\ hashes = 0 /\ requests = 0
    /\ payAt = "plain" =>
         \/ payChain = "solana" /\ hashes = 1 /\ requests = 1
         \/ payChain = "solana" /\ hashes = 2 /\ requests <= 3
         \/ payChain = "monad" /\ hashes = 0 /\ requests = 1
    /\ payAt = "rehash" => payChain = "solana" /\ hashes = 1 /\ requests <= 2

\* Nothing was made while a request may still be.
Unmade ==
    payAt \in {"start", "lookup", "hash", "send", "plain", "rehash"} =>
        payHash = 0 /\ \A i \in 1..4 : ~Made(i)

Alone ==
    /\ \A i, j \in 1..4 : Made(i) /\ Made(j) => i = j
    /\ payHash # 0 => \A i \in 1..4 : Made(i) => i = payHash
    /\ payAt \in {"answer", "poll", "asking", "confirmed", "timedOut"} => payHash # 0

\* The receivers have accounts, or the transaction creates them.
Provided ==
    payChain = "solana" =>
        /\ payAt \in {"hash", "send", "plain", "rehash"} => Receivers \subseteq atas \cup creates
        /\ (\E i \in 1..4 : Made(i)) => Receivers \subseteq atas \cup creates

PayInv ==
    /\ Pay!ChainSendTypeOK /\ Progress /\ Unmade /\ Alone /\ Provided
    /\ Pay!ConfirmedHasLanded /\ Pay!AccountsAreThere

TxRecords == [state : Pay!TxStates, err : Pay!TxErrors]

LEMMA PayTypes ==
    ASSUME Pay!ChainSendTypeOK
    PROVE  /\ tx \in [1..4 -> TxRecords] /\ DOMAIN tx = 1..4
           /\ payHash \in 0..4 /\ requests \in 0..4 /\ hashes \in 0..2
           /\ payChain \in {"solana", "monad"} /\ creates \subseteq Receivers
  BY PayConstantsHold DEF Pay!ChainSendTypeOK, Pay!MaxTx, TxRecords, PayConstants, Receivers

\* The chain moves a transaction that was made, and settles it for good.
LEMMA TxStep ==
    ASSUME PayInv, NEW i \in 1..4, NEW from, NEW to \in Pay!TxStates \ {"none"},
           from \notin {"none", "settled"}, Pay!TxMoves(i, from, to),
           atas \subseteq atas', atas' \subseteq {"sender", "recipient", "treasury"}
    PROVE  PayInv'
<1>1. PICK e \in Pay!TxErrors :
        /\ tx[i].state = from
        /\ tx' = [tx EXCEPT ![i] = [state |-> to, err |-> e]]
        /\ e # "account"
  <2>1. PICK e \in (IF to = "included" THEN Pay!Outcomes ELSE {tx[i].err}) :
          tx[i].state = from /\ tx' = [tx EXCEPT ![i] = [state |-> to, err |-> e]]
    BY DEF Pay!TxMoves
  <2>2. tx[i].err \in Pay!TxErrors /\ tx[i].err # "account" /\ Made(i)
    BY <2>1, PayTypes DEF PayInv, Pay!AccountsAreThere, Pay!MaxTx, TxRecords, Made
  <2>3. Pay!Outcomes = {"none", "funds"}
    BY <2>2 DEF Pay!Outcomes, PayInv, Provided, Receivers
  <2> QED
    BY <2>1, <2>2, <2>3 DEF Pay!TxErrors
<1>2. UNCHANGED <<payChain, sponsor, creates, payAt, hashes, requests, payHash, ask, polls>>
  BY DEF Pay!TxMoves
<1>3. PICK r : r = [state |-> to, err |-> e]
  OBVIOUS
<1>4. r \in TxRecords /\ r.state = to /\ r.err = e
  BY <1>3 DEF TxRecords
<1>5. tx' = [tx EXCEPT ![i] = r] /\ tx' \in [1..4 -> TxRecords]
  BY <1>1, <1>3, <1>4, PayTypes DEF PayInv
<1>6. Pay!ChainSendTypeOK'
  BY <1>2, <1>5 DEF PayInv, Pay!ChainSendTypeOK, Pay!MaxTx, TxRecords
<1>7. \A j \in 1..4 : Made(j)' <=> Made(j)
  BY <1>1, <1>4, <1>5, PayTypes DEF PayInv, Made
<1>8. (Progress /\ Unmade /\ Alone)'
  BY <1>2, <1>7 DEF PayInv, Progress, Unmade, Alone
<1>9. Provided'
  BY <1>2, <1>7 DEF PayInv, Provided
<1>10. Pay!ConfirmedHasLanded'
  BY <1>1, <1>2, <1>5, PayTypes DEF PayInv, Pay!ConfirmedHasLanded
<1>11. Pay!AccountsAreThere'
  BY <1>1, <1>4, <1>5, PayTypes DEF PayInv, Pay!AccountsAreThere, Pay!MaxTx
<1> QED
  BY <1>6, <1>8, <1>9, <1>10, <1>11 DEF PayInv

LEMMA ChainSteps ==
    ASSUME PayInv, Pay!ChainStep
    PROVE  PayInv'
<1>t. /\ atas \subseteq {"sender", "recipient", "treasury"} /\ creates \subseteq Receivers
      /\ {"pool", "included", "settled", "dropped"} \subseteq Pay!TxStates \ {"none"}
  BY PayTypes DEF PayInv, Pay!ChainSendTypeOK, Pay!TxStates
<1>1. ASSUME NEW i \in 1..4, Pay!Include(i) \/ Pay!Fork(i) \/ Pay!Drop(i) PROVE PayInv'
  BY <1>1, <1>t, TxStep DEF Pay!Include, Pay!Fork, Pay!Drop
<1>2. ASSUME NEW i \in 1..4, Pay!Settle(i) PROVE PayInv'
  <2>1. atas \subseteq atas' /\ atas' \subseteq {"sender", "recipient", "treasury"}
    BY <1>2, <1>t DEF Pay!Settle, Receivers
  <2> QED
    BY <1>2, <1>t, <2>1, TxStep DEF Pay!Settle
<1>3. CASE Pay!AtaAppears
  <2>1. /\ atas \subseteq atas' /\ atas' \subseteq {"sender", "recipient", "treasury"}
        /\ UNCHANGED <<payChain, sponsor, creates, payAt, hashes, requests, tx, payHash, ask, polls>>
    BY <1>3, <1>t DEF Pay!AtaAppears
  <2> QED
    BY <2>1 DEF PayInv, Pay!ChainSendTypeOK, Progress, Unmade, Alone, Provided, Made,
                Pay!ConfirmedHasLanded, Pay!AccountsAreThere
<1> QED
  BY <1>1, <1>2, <1>3 DEF Pay!ChainStep, Pay!MaxTx

\* Before a request to Privy.
LEMMA PrepareSteps ==
    ASSUME PayInv, Pay!Begin \/ Pay!LookUpAccounts \/ Pay!FetchBlockhash
    PROVE  PayInv'
<1>1. UNCHANGED <<payChain, sponsor, atas, requests, tx, payHash, ask, polls>>
  BY DEF Pay!Begin, Pay!LookUpAccounts, Pay!FetchBlockhash, Pay!unsent
<1>2. \A i \in 1..4 : ~Made(i) /\ ~Made(i)'
  BY <1>1 DEF Pay!Begin, Pay!LookUpAccounts, Pay!FetchBlockhash, Pay!Goes, PayInv, Unmade, Made
<1>3. payHash = 0 /\ payAt' \in {"failed", "lookup", "send", "hash"}
  BY PayTypes DEF Pay!Begin, Pay!LookUpAccounts, Pay!FetchBlockhash, Pay!Goes, PayInv, Unmade
<1>4. Pay!ChainSendTypeOK' /\ Progress' /\ Provided'
  <2>1. CASE Pay!Begin
    BY <1>1, <1>2, <1>3, <2>1, PayTypes
      DEF Pay!Begin, Pay!Goes, PayInv, Pay!ChainSendTypeOK, Pay!Points, Progress, Provided
  <2>2. CASE Pay!LookUpAccounts
    <3>1. creates' \in {creates, creates'} /\ creates' \subseteq Receivers
          /\ (payAt' = "hash" => Receivers \subseteq atas \cup creates')
          /\ payAt = "lookup" /\ payAt' \in {"hash", "failed"} /\ UNCHANGED hashes
      BY <2>2, PayTypes DEF Pay!LookUpAccounts, Pay!Goes, PayInv, Receivers
    <3> QED
      BY <1>1, <1>2, <3>1, PayTypes
        DEF PayInv, Pay!ChainSendTypeOK, Pay!Points, Progress, Provided, Receivers
  <2>3. CASE Pay!FetchBlockhash
    <3>1. /\ UNCHANGED creates /\ payAt \in {"hash", "rehash"}
          /\ \/ payAt' = "send" /\ hashes' = hashes + 1
             \/ payAt' = "failed" /\ hashes' = hashes
      BY <2>3 DEF Pay!FetchBlockhash, Pay!Goes
    <3>2. Progress'
      BY <1>1, <3>1, PayTypes DEF PayInv, Progress
    <3>3. hashes' \in 0..2
      BY <3>1, PayTypes DEF PayInv, Progress
    <3> QED
      BY <1>1, <1>2, <3>1, <3>2, <3>3 DEF PayInv, Pay!ChainSendTypeOK, Pay!Points, Provided
  <2> QED
    BY <2>1, <2>2, <2>3
<1>5. Unmade' /\ Alone'
  BY <1>1, <1>2, <1>3 DEF Unmade, Alone
<1>6. Pay!ConfirmedHasLanded' /\ Pay!AccountsAreThere'
  BY <1>1, <1>3 DEF PayInv, Pay!ConfirmedHasLanded, Pay!AccountsAreThere
<1> QED
  BY <1>4, <1>5, <1>6 DEF PayInv

\* A request: a transaction is made only when no other request follows.
LEMMA PrivySteps ==
    ASSUME PayInv,
           Pay!NotSponsored \/ \E step \in {"send", "plain"} : Pay!ToPrivy(step)
    PROVE  PayInv'
<1>1. /\ UNCHANGED <<payChain, sponsor, atas, creates, hashes, ask, polls>>
      /\ payAt \in {"send", "plain"} /\ requests' = requests + 1
  BY DEF Pay!NotSponsored, Pay!ToPrivy, Pay!Accepted, Pay!BlockhashUnknown, Pay!Thrown,
         Pay!Request, Pay!unsent
<1>2. requests \in 0..3 /\ Pay!Bytes \in 1..4 /\ requests' \in 0..4
  BY <1>1, PayTypes DEF PayInv, Progress, Pay!Bytes
<1>3. payHash = 0 /\ \A i \in 1..4 : ~Made(i)
  BY <1>1 DEF PayInv, Unmade
<1>4. CASE UNCHANGED <<tx, payHash>> /\ payAt' \in {"plain", "rehash", "failed"}
  <2>1. /\ payAt' = "plain" => payAt = "send"
        /\ payAt' = "rehash" => payChain = "solana" /\ hashes = 1
    BY <1>1, <1>4 DEF Pay!NotSponsored, Pay!ToPrivy, Pay!Accepted, Pay!BlockhashUnknown,
                      Pay!Thrown, Pay!Request
  <2>2. Progress'
    BY <1>1, <1>2, <1>4, <2>1, PayTypes DEF PayInv, Progress
  <2>3. Pay!ChainSendTypeOK'
    BY <1>1, <1>2, <1>4 DEF PayInv, Pay!ChainSendTypeOK, Pay!MaxTx, Pay!Points
  <2> QED
    BY <1>1, <1>3, <1>4, <2>2, <2>3
      DEF PayInv, Unmade, Alone, Provided, Made, Pay!ConfirmedHasLanded, Pay!AccountsAreThere
<1>5. CASE /\ Pay!Broadcast \/ UNCHANGED tx
           /\ \/ payAt' = "answer" /\ payHash' = Pay!Bytes
              \/ payAt' = "failed" /\ payHash' = 0
  <2>1. PICK b \in 1..4 : b = Pay!Bytes
    BY <1>2
  <2>2. PICK r : r = [tx[b] EXCEPT !.state = "pool"]
    OBVIOUS
  <2>3. tx' = tx \/ tx' = [tx EXCEPT ![b] = r]
    BY <1>5, <2>1, <2>2, PayTypes DEF Pay!Broadcast, PayInv
  <2>4. r \in TxRecords /\ r.err = tx[b].err
    BY <2>2, PayTypes DEF PayInv, TxRecords, Pay!TxStates
  <2>5. tx' \in [1..4 -> TxRecords] /\ \A i \in 1..4 : tx'[i].err = tx[i].err
    BY <2>3, <2>4, PayTypes DEF PayInv
  <2>6. \A i \in 1..4 : Made(i)' => i = b
    BY <1>3, <2>3, PayTypes DEF PayInv, Made
  <2>7. Pay!ChainSendTypeOK'
    BY <1>1, <1>2, <1>5, <2>1, <2>5
      DEF PayInv, Pay!ChainSendTypeOK, Pay!MaxTx, Pay!Points, TxRecords
  <2>8. (Progress /\ Unmade /\ Alone)'
    BY <1>5, <2>1, <2>6 DEF Progress, Unmade, Alone
  <2>9. Provided'
    BY <1>1, <1>5 DEF PayInv, Provided
  <2>10. Pay!ConfirmedHasLanded' /\ Pay!AccountsAreThere'
    BY <1>5, <2>5 DEF PayInv, Pay!ConfirmedHasLanded, Pay!AccountsAreThere, Pay!MaxTx
  <2> QED
    BY <2>7, <2>8, <2>9, <2>10 DEF PayInv
<1> QED
  BY <1>3, <1>4, <1>5 DEF Pay!NotSponsored, Pay!ToPrivy, Pay!Accepted, Pay!BlockhashUnknown,
                          Pay!Thrown

\* The questions: an answer confirms what has settled without an error.
LEMMA AskSteps ==
    ASSUME PayInv, Pay!Poll \/ Pay!Ask \/ Pay!Deadline
    PROVE  PayInv'
<1>1. /\ UNCHANGED <<payChain, sponsor, atas, creates, hashes, requests, tx, payHash>>
      /\ payAt \in {"answer", "poll", "asking"}
      /\ payAt' \in {"asking", "timedOut", "confirmed", "poll"}
  BY DEF Pay!Poll, Pay!Ask, Pay!Deadline, Pay!unsent, Pay!Goes
<1>2. payHash # 0 /\ payHash \in 1..4
  BY <1>1, PayTypes DEF PayInv, Alone
<1>3. ask' \in Nat /\ polls' \in 0..Polls
  <2>1. ask \in Nat /\ polls \in 0..Polls /\ Polls \in Nat
    BY PayConstantsHold DEF PayInv, Pay!ChainSendTypeOK, PayConstants
  <2>2. CASE Pay!Poll
    BY <2>1, <2>2 DEF Pay!Poll
  <2>3. CASE Pay!Deadline
    BY <2>1, <2>3 DEF Pay!Deadline
  <2>4. CASE Pay!Ask
    <3>1. ask' \in {0, ask + 1} /\ polls' = polls
      BY <2>4 DEF Pay!Ask
    <3> QED
      BY <2>1, <3>1
  <2> QED
    BY <2>2, <2>3, <2>4
<1>4. Pay!ConfirmedHasLanded'
  <2>1. SUFFICES ASSUME payAt' = "confirmed"
                 PROVE  tx[payHash] = [state |-> "settled", err |-> "none"]
    BY <1>1 DEF Pay!ConfirmedHasLanded
  <2>2. Pay!Ask
    BY <2>1 DEF Pay!Poll, Pay!Deadline, Pay!Goes
  <2>3. PICK report \in Pay!Reports(tx[payHash]) :
          Pay!Verdict(report, tx[payHash].err) = "confirmed"
    BY <2>1, <2>2 DEF Pay!Ask
  <2>4. report = "settled" /\ tx[payHash].err = "none"
    <3>1. report \in {"unknown", "processed", "settled"}
      BY <2>3 DEF Pay!Reports
    <3>2. report # "unknown" /\ tx[payHash].err = "none"
      BY <2>3, <3>1 DEF Pay!Verdict
    <3>3. report # "processed"
      BY <2>3, <3>2 DEF Pay!Verdict
    <3> QED
      BY <3>1, <3>2, <3>3
  <2>5. tx[payHash].state = "settled"
    BY <2>3, <2>4 DEF Pay!Reports
  <2>6. tx[payHash] \in TxRecords
    BY <1>2, PayTypes DEF PayInv
  <2> QED
    BY <2>4, <2>5, <2>6 DEF TxRecords
<1>5. Pay!ChainSendTypeOK'
  BY <1>1, <1>3 DEF PayInv, Pay!ChainSendTypeOK, Pay!Points
<1> QED
  BY <1>1, <1>2, <1>4, <1>5 DEF PayInv, Progress, Unmade, Alone, Provided, Made, Pay!AccountsAreThere

\* A payment is made once and confirmed when it has landed: SendIsHonest, for any
\* number of nodes and questions, on both chains.
THEOREM ChainSendsAreHonest == WalletSpec => []SendIsHonest
<1> DEFINE Inv == part = "pay" => PayInv
<1>1. WalletInit => Inv
  <2>1. SUFFICES ASSUME WalletInit, part = "pay" PROVE PayInv
    OBVIOUS
  <2>2. Pay!ChainSendInit
    BY <2>1 DEF WalletInit, ComponentsInit
  <2>3. \A i \in 1..4 : tx[i].state = "none" /\ tx[i].err = "none"
    BY <2>2 DEF Pay!ChainSendInit, Pay!MaxTx
  <2>4. Pay!ChainSendTypeOK
    BY <2>2, PayConstantsHold DEF Pay!ChainSendInit, Pay!ChainSendTypeOK, Pay!MaxTx, Pay!TxStates,
                                  Pay!TxErrors, Pay!Points, Pay!None, PayConstants
  <2> QED
    BY <2>2, <2>3, <2>4 DEF Pay!ChainSendInit, Pay!None, PayInv, Progress, Unmade, Alone, Provided,
                            Made, Pay!ConfirmedHasLanded, Pay!AccountsAreThere, Pay!MaxTx
<1>2. Inv /\ [WalletNext]_walletVars => Inv'
  <2>1. SUFFICES ASSUME PayInv, [Pay!ChainSendNext]_payVars PROVE PayInv'
    BY Part
  <2>2. CASE UNCHANGED payVars
    BY <2>1, <2>2 DEF payVars, PayInv, Pay!ChainSendTypeOK, Progress, Unmade, Alone, Provided, Made,
                      Pay!ConfirmedHasLanded, Pay!AccountsAreThere
  <2>3. CASE Pay!ChainSendNext
    BY <2>1, <2>3, ChainSteps, PrepareSteps, PrivySteps, AskSteps
      DEF Pay!ChainSendNext, Pay!CallStep
  <2> QED
    BY <2>1, <2>2, <2>3
<1>3. Inv => SendIsHonest
  <2>1. SUFFICES ASSUME PayInv PROVE Pay!PaysOnce
    BY DEF PayInv, SendIsHonest, Pay!SendIsHonest
  <2>2. PICK S : S = {i \in 1..4 : tx[i].state # "none"}
    OBVIOUS
  <2>3. Cardinality(S) <= 1
    <3>1. CASE S = {}
      BY <3>1, FS_EmptySet
    <3>2. ASSUME NEW i \in S PROVE Cardinality(S) <= 1
      <4>1. S = {i}
        BY <2>1, <2>2, <3>2 DEF PayInv, Alone, Made
      <4> QED
        BY <4>1, FS_Singleton, Cardinality({i}) = 1
    <3> QED
      BY <3>1, <3>2
  <2>4. Pay!Cardinality(S) <= 1
    BY <2>3 DEF Pay!Cardinality, Cardinality
  <2>5. payHash # 0 => \A i \in (1..4) \ {payHash} : tx[i].state = "none"
    BY <2>1 DEF PayInv, Alone, Made
  <2> QED
    BY <2>2, <2>4, <2>5 DEF Pay!PaysOnce, Pay!MaxTx, Pay!None
<1> QED
  BY <1>1, <1>2, <1>3, PTL DEF WalletSpec

-----------------------------------------------------------------------------
(* The session.                                                            *)

SessionConstants ==
    NoSession \notin SignIns /\ MaxSetbacks \in Nat /\ MaxSaves \in Nat

LEMMA SessionConstantsHold == SessionConstants
  BY WalletAssumption DEF SessionConstants, App!SessionConstants

LEMMA KeyOrder ==
    /\ App!Len(App!Deleted) = 4 /\ App!Len(App!Written) = 4
    /\ App!Deleted[1] = "access" /\ App!Deleted[2] = "refresh"
    /\ App!Deleted[3] = "user" /\ App!Deleted[4] = "wallets"
    /\ App!Written[1] = "access" /\ App!Written[2] = "refresh"
    /\ App!Written[3] = "user" /\ App!Written[4] = "wallets"
  BY DEF App!Deleted, App!Written

\* Every key is deleted, and nothing but keys is deleted or written.
LEMMA EveryKey ==
    /\ \A i \in 1..4 : App!Deleted[i] \in App!Keys /\ App!Written[i] \in App!Keys
    /\ \A k \in App!Keys : \E i \in 1..4 : App!Deleted[i] = k
    /\ "memory" \notin App!Keys
<1>1. ASSUME NEW i \in 1..4 PROVE App!Deleted[i] \in App!Keys /\ App!Written[i] \in App!Keys
  <2>1. i = 1 \/ i = 2 \/ i = 3 \/ i = 4
    OBVIOUS
  <2> QED
    BY <2>1, KeyOrder DEF App!Keys
<1> QED
  BY <1>1, KeyOrder DEF App!Keys

\* Nothing is stored under k, or what went astray.
Gone(k) == store[k] = NoSession \/ k \in astray

\* What is stored is of session l, but for what went astray.
Agrees(l) == \A k \in App!Keys : k \in astray \/ store[k] \in {l, NoSession}

SigningIn == signIn.who # NoSession
NoSignOut == logout["asked"] = 0 /\ logout["expired"] = 0
MemoryIsGood == app.auth /\ "memory" \notin astray

\* While the app starts there is nothing in memory or under way.
NothingAtStart ==
    using = "starting" =>
        /\ sdk = App!Nothing /\ app = App!Nobody /\ ~SigningIn /\ NoSignOut
        /\ refreshing = NoSession /\ pin = App!NoPin /\ landing = {}

\* Who is signed in, or sets a PIN, is known; a sign-in has the memory to itself.
Known ==
    /\ app.auth => app.user # NoSession
    /\ pin.at # "idle" => pin.who # NoSession
    /\ SigningIn => ~app.auth

\* The store is of one session: of the one signing in, or signed in.
StoreAgrees ==
    /\ \E l \in App!Held : Agrees(l)
    /\ SigningIn => Agrees(signIn.who)
    /\ MemoryIsGood => Agrees(app.user)

\* What a sign-out has deleted is gone.
DeletedSoFar ==
    \A o \in {"asked", "expired"} : \A i \in 1..4 : i < logout[o] => Gone(App!Deleted[i])

\* Nobody is signed in or signing in: everything is gone.
SignedOff ==
    using = "running" /\ ~app.auth /\ ~SigningIn => \A k \in App!Keys : Gone(k)

\* SDK and screen are of one session.
InMemory ==
    MemoryIsGood =>
        /\ app.wallets \in {app.user, NoSession}
        /\ NoSignOut => sdk.access = app.user /\ sdk.refresh \in {app.user, NoSession}

SessionCore == Known /\ StoreAgrees /\ DeletedSoFar /\ SignedOff /\ InMemory

SessionInv == App!SessionTypeOK /\ NothingAtStart /\ SessionCore

LEMMA SessionTypes ==
    ASSUME App!SessionTypeOK
    PROVE  /\ store \in [App!Keys -> SignIns \cup {NoSession}]
           /\ signIn.step \in 0..4 /\ signIn.who \in SignIns \cup {NoSession}
           /\ logout \in [{"asked", "expired"} -> 0..5] /\ DOMAIN logout = {"asked", "expired"}
           /\ App!Ending <=> ~NoSignOut
           /\ landing \subseteq {"access", "user"} \X SignIns
           /\ astray \subseteq App!Keys \cup {"memory"}
  BY KeyOrder DEF App!SessionTypeOK, App!Held, App!Ending, NoSignOut

-----------------------------------------------------------------------------
(* What the store does.                                                    *)

\* Nothing but k is disturbed.
Touches(k) ==
    /\ store' \in [App!Keys -> SignIns \cup {NoSession}]
    /\ astray' \subseteq App!Keys \cup {"memory"}
    /\ setbacks' \in 0..MaxSetbacks
    /\ \A j \in App!Keys \ {k} : store'[j] = store[j] /\ (j \in astray' <=> j \in astray)
    /\ "memory" \in astray' <=> "memory" \in astray

LEMMA RefusesEffect ==
    ASSUME App!SessionTypeOK, NEW fault, App!Refuses(fault)
    PROVE  store' = store /\ setbacks' \in 0..MaxSetbacks
  BY SessionConstantsHold DEF App!Refuses, App!SessionTypeOK, SessionConstants

LEMMA PutsEffect ==
    ASSUME App!SessionTypeOK, NEW k \in App!Keys, NEW l \in SignIns, App!Puts(k, l)
    PROVE  /\ Touches(k)
           /\ k \in astray' \/ store'[k] = l
           /\ ~NoSignOut => k \in astray'
<1>1. CASE /\ store' = [store EXCEPT ![k] = l]
           /\ astray' = IF App!Ending THEN astray \cup {k} ELSE astray \ {k}
           /\ UNCHANGED setbacks
  BY <1>1, SessionTypes, EveryKey DEF Touches, App!SessionTypeOK
<1>2. CASE App!Refuses("write") /\ astray' = astray \cup {k}
  BY <1>2, RefusesEffect, SessionTypes, EveryKey DEF Touches
<1> QED
  BY <1>1, <1>2 DEF App!Puts

LEMMA PutsLaterEffect ==
    ASSUME App!SessionTypeOK, NEW k \in App!Keys, NEW l \in SignIns, App!PutsLater(k, l)
    PROVE  /\ Touches(k)
           /\ \/ k \in astray'
              \/ store'[k] = l /\ ~App!Over(l)
              \/ store' = store /\ astray' = astray
<1>1. CASE /\ store' = [store EXCEPT ![k] = l]
           /\ astray' = IF App!Over(l) THEN astray \cup {k} ELSE astray
           /\ UNCHANGED setbacks
  BY <1>1, SessionTypes, EveryKey DEF Touches, App!SessionTypeOK
<1>2. CASE App!Refuses("write") /\ astray' = astray
  BY <1>2, RefusesEffect, SessionTypes, EveryKey DEF Touches
<1> QED
  BY <1>1, <1>2 DEF App!PutsLater

LEMMA DeletesEffect ==
    ASSUME App!SessionTypeOK, NEW k \in App!Keys, App!Deletes(k)
    PROVE  Touches(k) /\ Gone(k)'
<1>1. CASE /\ store' = [store EXCEPT ![k] = NoSession]
           /\ astray' = astray \ {k}
           /\ UNCHANGED setbacks
  BY <1>1, SessionTypes, EveryKey DEF Touches, Gone, App!SessionTypeOK
<1>2. CASE App!Refuses("delete") /\ astray' = astray \cup {k}
  BY <1>2, RefusesEffect, SessionTypes, EveryKey DEF Touches, Gone
<1> QED
  BY <1>1, <1>2 DEF App!Deletes

LEMMA GoneStays ==
    ASSUME NEW k, Touches(k), NEW j \in App!Keys, Gone(j), j # k \/ Gone(k)'
    PROVE  Gone(j)'
  BY DEF Touches, Gone

LEMMA AgreesStays ==
    ASSUME NEW k \in App!Keys, Touches(k), NEW l, Agrees(l),
           k \in astray' \/ store'[k] \in {l, NoSession}
    PROVE  Agrees(l)'
  BY DEF Touches, Agrees

-----------------------------------------------------------------------------
(* The steps.                                                              *)

\* What only begins, or ends with nothing to show, leaves store and memory alone.
LEMMA QuietStep ==
    ASSUME SessionInv,
           \/ App!SignOut \/ App!RefreshStarts \/ App!RefreshFails
           \/ App!SaveProfile \/ App!SetPin \/ App!PinRefused
    PROVE  SessionInv'
<1>1. UNCHANGED <<store, sdk, app, using, signIn, used, setbacks, astray>>
  BY DEF App!SignOut, App!RefreshStarts, App!RefreshFails, App!SaveProfile, App!SetPin, App!PinRefused
<1>2. using = "running"
  BY DEF SessionInv, NothingAtStart, App!SessionTypeOK, App!SignOut, App!RefreshStarts, App!RefreshFails,
         App!SaveProfile, App!SetPin, App!PinRefused, App!NoPin
<1>3. \/ logout' = logout
      \/ logout["asked"] = 0 /\ logout' = [logout EXCEPT !["asked"] = 1]
  BY DEF App!SignOut, App!RefreshStarts, App!RefreshFails, App!SaveProfile, App!SetPin, App!PinRefused
<1>4. refreshing' \in {refreshing, sdk.refresh, NoSession}
  BY DEF App!SignOut, App!RefreshStarts, App!RefreshFails, App!SaveProfile, App!SetPin, App!PinRefused
<1>5. /\ \/ landing' = landing
         \/ landing' = landing \cup {<<"user", app.user>>} /\ app.auth
      /\ \/ saves' = saves
         \/ saves' = saves + 1 /\ saves < MaxSaves
  BY DEF App!SignOut, App!RefreshStarts, App!RefreshFails, App!SaveProfile, App!SetPin, App!PinRefused
<1>6. \/ pin' = pin
      \/ pin' = App!NoPin
      \/ pin' = [who |-> app.user, at |-> "asked"] /\ app.auth
  BY DEF App!SignOut, App!RefreshStarts, App!RefreshFails, App!SaveProfile, App!SetPin, App!PinRefused
<1>7. /\ app.user \in App!Held /\ sdk.refresh \in App!Held
      /\ app.auth => app.user \in SignIns
  BY DEF SessionInv, SessionCore, Known, App!SessionTypeOK, App!Held
<1>8. App!SessionTypeOK'
  <2>1. logout' \in [{"asked", "expired"} -> 0..5]
    BY <1>3, SessionTypes DEF SessionInv
  <2>2. refreshing' \in App!Held
    BY <1>4, <1>7 DEF SessionInv, App!SessionTypeOK, App!Held
  <2>3. landing' \subseteq {"access", "user"} \X SignIns /\ saves' \in 0..MaxSaves
    BY <1>5, <1>7, SessionConstantsHold DEF SessionInv, App!SessionTypeOK, SessionConstants
  <2>4. pin' \in [who : App!Held, at : {"idle", "asked", "stored"}]
    BY <1>6, <1>7 DEF SessionInv, App!SessionTypeOK, App!NoPin, App!Held
  <2> QED
    BY <1>1, <2>1, <2>2, <2>3, <2>4, KeyOrder DEF SessionInv, App!SessionTypeOK
<1>9. Known'
  BY <1>1, <1>6 DEF SessionInv, SessionCore, Known, SigningIn, App!NoPin
<1>10. \A o \in {"asked", "expired"} : logout'[o] = logout[o] \/ logout'[o] = 1
  BY <1>3, SessionTypes DEF SessionInv
<1>11. DeletedSoFar' /\ (NoSignOut' => NoSignOut)
  BY <1>1, <1>3, <1>10, SessionTypes DEF SessionInv, SessionCore, DeletedSoFar, Gone, NoSignOut
<1> QED
  BY <1>1, <1>2, <1>8, <1>9, <1>11
    DEF SessionInv, NothingAtStart, SessionCore, StoreAgrees, SignedOff, InMemory, MemoryIsGood,
        SigningIn, Agrees, Gone

\* The app starts with a session the store agrees on, from keys that went astray, or
\* with none.
LEMMA HydrateStep ==
    ASSUME SessionInv, App!Hydrate
    PROVE  SessionInv'
<1>1. /\ using = "starting" /\ using' = "running"
      /\ UNCHANGED <<signIn, logout, refreshing, pin, landing, used, saves>>
      /\ sdk = App!Nothing /\ app = App!Nobody /\ ~SigningIn /\ NoSignOut
      /\ refreshing = NoSession /\ pin = App!NoPin /\ landing = {}
  BY DEF App!Hydrate, SessionInv, NothingAtStart
<1>2. PICK unread \in SUBSET App!Keys :
        LET found == [k \in App!Keys |-> IF k \in unread THEN NoSession ELSE store[k]] IN
        /\ IF unread = {} THEN UNCHANGED <<store, setbacks>> ELSE App!Refuses("read")
        /\ IF found["access"] # NoSession /\ found["user"] # NoSession
           THEN /\ sdk' = [access |-> found["access"], refresh |-> found["refresh"]]
                /\ app' = [user |-> found["user"], wallets |-> found["wallets"],
                           access |-> found["access"], auth |-> TRUE]
                /\ astray' = IF App!Keys \cap astray = {} THEN astray ELSE astray \cup {"memory"}
           ELSE /\ astray' = astray \cup {k \in App!Keys : store[k] # NoSession}
                /\ UNCHANGED <<sdk, app>>
  BY DEF App!Hydrate
<1> DEFINE found == [k \in App!Keys |-> IF k \in unread THEN NoSession ELSE store[k]]
<1>3. store' = store /\ setbacks' \in 0..MaxSetbacks
  BY <1>2, RefusesEffect DEF SessionInv, App!SessionTypeOK
<1>4. \A k \in App!Keys : found[k] \in {store[k], NoSession} /\ found[k] \in App!Held
  BY SessionTypes DEF SessionInv, App!Held
<1>5. {"access", "refresh", "user", "wallets"} = App!Keys
  BY DEF App!Keys
<1>6. Known' /\ DeletedSoFar' /\ NothingAtStart' /\ signIn'.who = NoSession
      /\ App!SessionTypeOK'
  <2>1. CASE found["access"] # NoSession /\ found["user"] # NoSession
    <3>1. /\ sdk' = [access |-> found["access"], refresh |-> found["refresh"]]
          /\ app' = [user |-> found["user"], wallets |-> found["wallets"],
                     access |-> found["access"], auth |-> TRUE]
          /\ astray' \subseteq astray \cup {"memory"} /\ astray \subseteq astray'
      BY <1>2, <2>1
    <3> HIDE DEF found
    <3>2. /\ sdk' \in [access : App!Held, refresh : App!Held]
          /\ app' \in [user : App!Held, wallets : App!Held, access : App!Held, auth : BOOLEAN]
          /\ app'.user = found["user"]
      BY <1>4, <1>5, <3>1
    <3> QED
      BY <1>1, <1>3, <2>1, <3>1, <3>2, SessionTypes
        DEF SessionInv, App!SessionTypeOK, Known, DeletedSoFar, NoSignOut, NothingAtStart, SigningIn,
            App!NoPin, App!Held
  <2>2. CASE ~(found["access"] # NoSession /\ found["user"] # NoSession)
    <3>1. UNCHANGED <<sdk, app>> /\ astray' = astray \cup {k \in App!Keys : store[k] # NoSession}
      BY <1>2, <2>2
    <3> HIDE DEF found
    <3> QED
      BY <1>1, <1>3, <3>1, SessionTypes
        DEF SessionInv, App!SessionTypeOK, Known, DeletedSoFar, NoSignOut, NothingAtStart, SigningIn,
            App!NoPin, App!Nobody, App!Held
  <2> QED
    BY <2>1, <2>2
<1>7. StoreAgrees' /\ SignedOff' /\ InMemory'
  <2>1. PICK l \in App!Held : Agrees(l)
    BY DEF SessionInv, SessionCore, StoreAgrees
  <2>2. CASE found["access"] # NoSession /\ found["user"] # NoSession
    <3>1. /\ sdk' = [access |-> found["access"], refresh |-> found["refresh"]]
          /\ app' = [user |-> found["user"], wallets |-> found["wallets"],
                     access |-> found["access"], auth |-> TRUE]
          /\ astray' = IF App!Keys \cap astray = {} THEN astray ELSE astray \cup {"memory"}
      BY <1>2, <2>2
    <3> HIDE DEF found
    <3>2. /\ sdk'.access = found["access"] /\ sdk'.refresh = found["refresh"]
          /\ app'.user = found["user"] /\ app'.wallets = found["wallets"] /\ app'.auth
      BY <3>1
    <3>3. CASE App!Keys \cap astray = {}
      <4>1. \A k \in App!Keys : store[k] \in {l, NoSession}
        BY <2>1, <3>3 DEF Agrees
      <4>2. \A k \in App!Keys : found[k] \in {l, NoSession}
        BY <1>4, <4>1
      <4>3. found["access"] = l /\ found["user"] = l
        BY <1>5, <2>2, <4>2
      <4>4. found["wallets"] \in {l, NoSession} /\ found["refresh"] \in {l, NoSession}
        BY <1>5, <4>2
      <4> QED
        BY <1>3, <1>6, <2>1, <3>2, <4>1, <4>3, <4>4
          DEF StoreAgrees, SignedOff, InMemory, SigningIn, Agrees
    <3>4. CASE App!Keys \cap astray # {}
      <4>1. astray' = astray \cup {"memory"} /\ Agrees(l)'
        BY <1>3, <2>1, <3>1, <3>4 DEF Agrees
      <4> QED
        BY <1>6, <2>1, <3>2, <4>1 DEF StoreAgrees, SignedOff, InMemory, MemoryIsGood, SigningIn
    <3> QED
      BY <3>3, <3>4
  <2>3. CASE ~(found["access"] # NoSession /\ found["user"] # NoSession)
    <3>1. UNCHANGED <<sdk, app>> /\ astray' = astray \cup {k \in App!Keys : store[k] # NoSession}
      BY <1>2, <2>3
    <3> HIDE DEF found
    <3>2. ~app'.auth
      BY <1>1, <3>1 DEF App!Nobody
    <3>3. \A k \in App!Keys : Gone(k)'
      BY <1>3, <3>1 DEF Gone
    <3> QED
      BY <1>3, <1>6, <2>1, <3>1, <3>2, <3>3
        DEF StoreAgrees, SignedOff, InMemory, MemoryIsGood, SigningIn, Agrees
  <2> QED
    BY <2>2, <2>3
<1> QED
  BY <1>6, <1>7 DEF SessionInv, SessionCore

LEMMA KillStep ==
    ASSUME SessionInv, App!Kill
    PROVE  SessionInv'
<1>1. /\ using = "running" /\ setbacks < MaxSetbacks /\ setbacks' = setbacks + 1
      /\ using' = "starting" /\ sdk' = App!Nothing /\ app' = App!Nobody /\ signIn' = App!NoLogin
      /\ logout' = [o \in DOMAIN logout |-> 0] /\ refreshing' = NoSession /\ pin' = App!NoPin
      /\ landing' = {} /\ astray' = astray \ {"memory"}
      /\ UNCHANGED <<store, used, saves>>
  BY DEF App!Kill
<1>2. /\ signIn'.who = NoSession /\ ~app'.auth /\ pin'.at = "idle"
      /\ logout' \in [{"asked", "expired"} -> 0..5]
      /\ logout'["asked"] = 0 /\ logout'["expired"] = 0
  BY <1>1, SessionTypes DEF App!Nobody, App!NoLogin, App!NoPin, SessionInv
<1>3. App!SessionTypeOK'
  <2>1. setbacks' \in 0..MaxSetbacks
    BY <1>1, SessionConstantsHold DEF SessionInv, App!SessionTypeOK, SessionConstants
  <2>2. /\ sdk' \in [access : App!Held, refresh : App!Held]
        /\ app' \in [user : App!Held, wallets : App!Held, access : App!Held, auth : BOOLEAN]
        /\ signIn' \in [who : App!Held, step : 0..4]
        /\ pin' \in [who : App!Held, at : {"idle", "asked", "stored"}]
    BY <1>1 DEF App!Nothing, App!Nobody, App!NoLogin, App!NoPin, App!Held
  <2> QED
    BY <1>1, <1>2, <2>1, <2>2, KeyOrder DEF SessionInv, App!SessionTypeOK, App!Held
<1>4. NothingAtStart'
  BY <1>1, <1>2 DEF NothingAtStart, SigningIn, NoSignOut
<1>5. \A l : Agrees(l) => Agrees(l)'
  BY <1>1, EveryKey DEF Agrees
<1>6. Known' /\ StoreAgrees'
  BY <1>2, <1>5 DEF SessionInv, SessionCore, Known, StoreAgrees, SigningIn, MemoryIsGood
<1>7. DeletedSoFar' /\ SignedOff' /\ InMemory'
  BY <1>1, <1>2 DEF DeletedSoFar, SignedOff, InMemory, MemoryIsGood
<1> QED
  BY <1>3, <1>4, <1>6, <1>7 DEF SessionInv, SessionCore

\* A sign-in begins with nobody signed in and everything gone, ...
LEMMA SignInStep ==
    ASSUME SessionInv, NEW l \in SignIns, App!SignIn(l)
    PROVE  SessionInv'
<1>1. /\ using = "running" /\ ~app.auth /\ ~SigningIn /\ NoSignOut
      /\ used' = used \cup {l} /\ signIn' = [who |-> l, step |-> 0]
      /\ UNCHANGED <<store, sdk, app, using, logout, refreshing, pin, landing, setbacks, saves,
                     astray>>
  BY SessionTypes DEF App!SignIn, App!NoLogin, SigningIn, SessionInv
<1>2. signIn'.who = l /\ signIn' \in [who : App!Held, step : 0..4]
  BY <1>1 DEF App!Held
<1>3. App!SessionTypeOK'
  BY <1>1, <1>2, KeyOrder DEF SessionInv, App!SessionTypeOK, App!Held
<1>4. Agrees(l)
  BY <1>1 DEF SessionInv, SessionCore, SignedOff, Agrees, Gone
<1>5. StoreAgrees'
  BY <1>1, <1>2, <1>4 DEF StoreAgrees, Agrees, MemoryIsGood, App!Held
<1> QED
  BY <1>1, <1>2, <1>3, <1>5
    DEF SessionInv, NothingAtStart, SessionCore, Known, DeletedSoFar, SignedOff, InMemory, MemoryIsGood,
        SigningIn, Gone, NoSignOut

\* ... writes its values, ...
LEMMA SignInWritesStep ==
    ASSUME SessionInv, App!SignInWrites
    PROVE  SessionInv'
<1>1. PICK l \in SignIns : signIn.who = l
  BY SessionTypes DEF SessionInv, App!SignInWrites
<1>2. SigningIn /\ signIn.step + 1 \in 1..4
  BY SessionTypes, KeyOrder DEF SessionInv, App!SignInWrites, SigningIn
<1>3. PICK k \in App!Keys : App!Puts(k, l)
  BY <1>1, <1>2, EveryKey DEF App!SignInWrites
<1>4. /\ signIn' = [signIn EXCEPT !.step = @ + 1]
      /\ UNCHANGED <<sdk, app, using, logout, refreshing, pin, landing, used, saves>>
  BY DEF App!SignInWrites
<1>5. /\ Touches(k)
      /\ k \in astray' \/ store'[k] = l
      /\ ~NoSignOut => k \in astray'
  BY <1>3, PutsEffect DEF SessionInv
<1>6. ~app.auth /\ using = "running"
  BY <1>2 DEF SessionInv, SessionCore, Known, NothingAtStart, App!SessionTypeOK
<1>7. signIn'.who = l /\ signIn' \in [who : App!Held, step : 0..4]
  BY <1>1, <1>2, <1>4, KeyOrder DEF SessionInv, App!SessionTypeOK
<1>8. App!SessionTypeOK'
  BY <1>4, <1>5, <1>7, KeyOrder DEF SessionInv, App!SessionTypeOK, Touches, App!Held
<1>9. StoreAgrees'
  <2>1. Agrees(l)'
    BY <1>1, <1>2, <1>5, AgreesStays DEF SessionInv, SessionCore, StoreAgrees
  <2> QED
    BY <1>4, <1>6, <1>7, <2>1 DEF StoreAgrees, MemoryIsGood, App!Held
<1>10. DeletedSoFar'
  <2>1. CASE NoSignOut
    BY <1>4, <2>1 DEF NoSignOut, DeletedSoFar
  <2>2. CASE ~NoSignOut
    <3>1. Gone(k)'
      BY <1>5, <2>2 DEF Gone
    <3>2. \A j \in App!Keys : Gone(j) => Gone(j)'
      BY <1>5, <3>1, GoneStays
    <3> QED
      BY <1>4, <3>2, EveryKey DEF SessionInv, SessionCore, DeletedSoFar
  <2> QED
    BY <2>1, <2>2
<1> QED
  BY <1>2, <1>4, <1>6, <1>7, <1>8, <1>9, <1>10
    DEF SessionInv, NothingAtStart, SessionCore, Known, SignedOff, InMemory, MemoryIsGood, SigningIn

\* ... and is complete.
LEMMA SignedInStep ==
    ASSUME SessionInv, App!SignedIn
    PROVE  SessionInv'
<1>1. /\ SigningIn /\ signIn' = App!NoLogin
      /\ sdk' = [access |-> signIn.who, refresh |-> signIn.who]
      /\ app' = [user |-> signIn.who, wallets |-> signIn.who, access |-> signIn.who, auth |-> TRUE]
      /\ astray' = astray \ {"memory"}
      /\ UNCHANGED <<store, using, logout, refreshing, pin, landing, used, setbacks, saves>>
  BY DEF App!SignedIn, SigningIn
<1>2. /\ signIn'.who = NoSession /\ app'.user = signIn.who /\ app'.wallets = signIn.who /\ app'.auth
      /\ sdk'.access = signIn.who /\ sdk'.refresh = signIn.who
  BY <1>1 DEF App!NoLogin
<1>3. App!SessionTypeOK'
  <2>1. /\ signIn' \in [who : App!Held, step : 0..4] /\ signIn.who \in App!Held
        /\ sdk' \in [access : App!Held, refresh : App!Held]
        /\ app' \in [user : App!Held, wallets : App!Held, access : App!Held, auth : BOOLEAN]
    BY <1>1, SessionTypes DEF App!NoLogin, App!Held, SessionInv
  <2> QED
    BY <1>1, <2>1, KeyOrder DEF SessionInv, App!SessionTypeOK
<1>4. using = "running"
  BY <1>1 DEF SessionInv, NothingAtStart, App!SessionTypeOK
<1>5. \A l : Agrees(l) => Agrees(l)'
  BY <1>1, EveryKey DEF Agrees
<1>6. StoreAgrees'
  BY <1>1, <1>2, <1>5 DEF SessionInv, SessionCore, StoreAgrees, SigningIn
<1>7. DeletedSoFar'
  BY <1>1, EveryKey DEF SessionInv, SessionCore, DeletedSoFar, Gone
<1> QED
  BY <1>1, <1>2, <1>3, <1>4, <1>6, <1>7
    DEF SessionInv, NothingAtStart, SessionCore, Known, SignedOff, InMemory, SigningIn

\* A sign-out deletes what nobody should put back, ...
LEMMA SignOutDeletesStep ==
    ASSUME SessionInv, NEW o \in DOMAIN logout, App!SignOutDeletes(o)
    PROVE  SessionInv'
<1>1. o \in {"asked", "expired"} /\ logout[o] \in 1..4
  BY SessionTypes, KeyOrder DEF SessionInv, App!SignOutDeletes
<1>2. PICK d \in 1..4, k \in App!Keys : d = logout[o] /\ k = App!Deleted[d] /\ App!Deletes(k)
  BY <1>1, EveryKey DEF App!SignOutDeletes
<1>3. /\ logout' = [logout EXCEPT ![o] = @ + 1]
      /\ UNCHANGED <<sdk, app, using, signIn, refreshing, pin, landing, used, saves>>
  BY DEF App!SignOutDeletes
<1>4. Touches(k) /\ Gone(k)'
  BY <1>2, DeletesEffect DEF SessionInv
<1>5. /\ logout'[o] = d + 1 /\ logout' \in [{"asked", "expired"} -> 0..5]
      /\ \A p \in {"asked", "expired"} : p # o => logout'[p] = logout[p]
  BY <1>1, <1>2, <1>3, SessionTypes DEF SessionInv
<1>6. App!SessionTypeOK'
  BY <1>3, <1>4, <1>5, KeyOrder DEF SessionInv, App!SessionTypeOK, Touches, App!Held
<1>7. using = "running" /\ ~NoSignOut /\ ~NoSignOut'
  BY <1>1, <1>2, <1>5 DEF SessionInv, NothingAtStart, App!SessionTypeOK, NoSignOut
<1>8. \A j \in App!Keys : Gone(j) => Gone(j)'
  BY <1>4, GoneStays
<1>9. \A l : Agrees(l) => Agrees(l)'
  <2>1. k \in astray' \/ store'[k] = NoSession
    BY <1>4 DEF Gone
  <2> QED
    BY <1>4, <2>1, AgreesStays
<1>10. StoreAgrees'
  BY <1>3, <1>4, <1>9
    DEF SessionInv, SessionCore, StoreAgrees, SigningIn, MemoryIsGood, Touches
<1>11. DeletedSoFar'
  <2>1. SUFFICES ASSUME NEW p \in {"asked", "expired"}, NEW i \in 1..4, i < logout'[p]
                 PROVE  Gone(App!Deleted[i])'
    BY DEF DeletedSoFar
  <2>2. CASE p = o /\ i = d
    BY <1>2, <1>4, <2>2
  <2>3. CASE ~(p = o /\ i = d)
    <3>1. i < logout[p]
      BY <1>2, <1>5, <2>1, <2>3
    <3> QED
      BY <1>8, <3>1, EveryKey DEF SessionInv, SessionCore, DeletedSoFar
  <2> QED
    BY <2>2, <2>3
<1>12. SignedOff'
  BY <1>3, <1>8 DEF SessionInv, SessionCore, SignedOff, SigningIn
<1> QED
  BY <1>3, <1>4, <1>6, <1>7, <1>10, <1>11, <1>12
    DEF SessionInv, NothingAtStart, SessionCore, Known, InMemory, MemoryIsGood, SigningIn, Touches

\* ... and when it is over, everything is gone.
LEMMA SignedOutStep ==
    ASSUME SessionInv, NEW o \in DOMAIN logout, App!SignedOut(o)
    PROVE  SessionInv'
<1>1. /\ o \in {"asked", "expired"} /\ logout[o] = 5 /\ logout' = [logout EXCEPT ![o] = 0]
      /\ sdk' = App!Nothing /\ app' = App!Nobody /\ astray' = astray \ {"memory"}
      /\ UNCHANGED <<store, using, signIn, refreshing, pin, landing, used, setbacks, saves>>
  BY SessionTypes, KeyOrder DEF SessionInv, App!SignedOut
<1>2. /\ logout'[o] = 0 /\ logout' \in [{"asked", "expired"} -> 0..5]
      /\ \A p \in {"asked", "expired"} : p # o => logout'[p] = logout[p]
  BY <1>1, SessionTypes DEF SessionInv
<1>3. App!SessionTypeOK'
  <2>1. /\ sdk' \in [access : App!Held, refresh : App!Held]
        /\ app' \in [user : App!Held, wallets : App!Held, access : App!Held, auth : BOOLEAN]
    BY <1>1 DEF App!Nothing, App!Nobody, App!Held
  <2> QED
    BY <1>1, <1>2, <2>1, KeyOrder DEF SessionInv, App!SessionTypeOK
<1>4. ~app'.auth /\ using = "running"
  <2>1. ~NoSignOut
    BY <1>1 DEF NoSignOut
  <2> QED
    BY <1>1, <2>1 DEF App!Nobody, App!SessionTypeOK, SessionInv, NothingAtStart
<1>5. \A j \in App!Keys : Gone(j)
  <2>1. \A i \in 1..4 : Gone(App!Deleted[i])
    BY <1>1 DEF SessionInv, SessionCore, DeletedSoFar
  <2> QED
    BY <2>1, EveryKey
<1>6. \A j \in App!Keys : Gone(j)'
  BY <1>1, <1>5, EveryKey DEF Gone
<1>7. \A l : Agrees(l) => Agrees(l)'
  BY <1>1, EveryKey DEF Agrees
<1>8. StoreAgrees'
  BY <1>1, <1>4, <1>7 DEF SessionInv, SessionCore, StoreAgrees, SigningIn, MemoryIsGood
<1>9. DeletedSoFar' /\ SignedOff'
  BY <1>6, EveryKey DEF DeletedSoFar, SignedOff
<1> QED
  BY <1>1, <1>3, <1>4, <1>8, <1>9
    DEF SessionInv, NothingAtStart, SessionCore, Known, InMemory, MemoryIsGood

\* Where a session is not over, it is the one signed in, and memory and store are good.
LEMMA NotOver ==
    ASSUME SessionInv, NEW l, ~App!Over(l)
    PROVE  /\ app.user = l /\ NoSignOut /\ MemoryIsGood /\ ~SigningIn
           /\ Agrees(l) /\ using = "running"
<1>1. app.user = l /\ NoSignOut /\ MemoryIsGood
  BY SessionTypes DEF SessionInv, App!Over, MemoryIsGood
<1>2. ~SigningIn /\ Agrees(l)
  BY <1>1 DEF SessionInv, SessionCore, Known, StoreAgrees, MemoryIsGood
<1>3. using = "running"
  BY <1>1 DEF SessionInv, NothingAtStart, App!SessionTypeOK, MemoryIsGood, App!Nobody
<1> QED
  BY <1>1, <1>2, <1>3

LEMMA RefreshedStep ==
    ASSUME SessionInv, App!Refreshed
    PROVE  SessionInv'
<1>1. /\ refreshing # NoSession /\ refreshing' = NoSession
      /\ sdk' = [sdk EXCEPT !.access = refreshing] /\ app' = [app EXCEPT !.access = refreshing]
      /\ landing' = landing \cup {<<"access", refreshing>>}
      /\ astray' = IF App!Over(refreshing) THEN astray \cup {"memory"} ELSE astray
      /\ UNCHANGED <<store, using, signIn, logout, pin, used, setbacks, saves>>
  BY DEF App!Refreshed, App!RemembersFor
<1>2. /\ refreshing \in SignIns /\ using = "running"
      /\ sdk \in [access : App!Held, refresh : App!Held]
      /\ app \in [user : App!Held, wallets : App!Held, access : App!Held, auth : BOOLEAN]
  BY <1>1 DEF SessionInv, App!SessionTypeOK, App!Held, NothingAtStart
<1>3. /\ sdk'.access = refreshing /\ sdk'.refresh = sdk.refresh
      /\ app'.user = app.user /\ app'.wallets = app.wallets /\ app'.auth = app.auth
      /\ sdk' \in [access : App!Held, refresh : App!Held]
      /\ app' \in [user : App!Held, wallets : App!Held, access : App!Held, auth : BOOLEAN]
  BY <1>1, <1>2 DEF App!Held
<1>4. astray \subseteq astray' /\ astray' \subseteq astray \cup {"memory"}
  BY <1>1
<1>5. App!SessionTypeOK'
  BY <1>1, <1>2, <1>3, <1>4, KeyOrder DEF SessionInv, App!SessionTypeOK, App!Held
<1>6. InMemory'
  <2>1. CASE App!Over(refreshing)
    BY <1>1, <2>1 DEF InMemory, MemoryIsGood
  <2>2. CASE ~App!Over(refreshing)
    BY <1>1, <1>3, <2>2, NotOver DEF SessionInv, SessionCore, InMemory
  <2> QED
    BY <2>1, <2>2
<1>7. StoreAgrees' /\ DeletedSoFar' /\ SignedOff'
  BY <1>1, <1>3, <1>4, EveryKey
    DEF SessionInv, SessionCore, StoreAgrees, DeletedSoFar, SignedOff, Agrees, Gone, SigningIn,
        MemoryIsGood
<1> QED
  BY <1>1, <1>2, <1>3, <1>5, <1>6, <1>7
    DEF SessionInv, NothingAtStart, SessionCore, Known, SigningIn

LEMMA RefreshRejectedStep ==
    ASSUME SessionInv, App!RefreshRejected
    PROVE  SessionInv'
<1>1. /\ refreshing # NoSession /\ refreshing' = NoSession /\ sdk' = App!Nothing
      /\ logout' = IF logout["expired"] = 0 THEN [logout EXCEPT !["expired"] = 1] ELSE logout
      /\ UNCHANGED <<store, app, using, signIn, pin, landing, used, setbacks, saves, astray>>
  BY DEF App!RefreshRejected
<1>2. /\ logout' \in [{"asked", "expired"} -> 0..5] /\ logout'["expired"] # 0
      /\ \A o \in {"asked", "expired"} : logout'[o] = logout[o] \/ logout'[o] = 1
  BY <1>1, SessionTypes DEF SessionInv
<1>3. App!SessionTypeOK'
  <2>1. sdk' \in [access : App!Held, refresh : App!Held]
    BY <1>1 DEF App!Nothing, App!Held
  <2> QED
    BY <1>1, <1>2, <2>1, KeyOrder DEF SessionInv, App!SessionTypeOK, App!Held
<1>4. using = "running" /\ ~NoSignOut'
  BY <1>1, <1>2 DEF SessionInv, App!SessionTypeOK, NothingAtStart, NoSignOut
<1>5. DeletedSoFar'
  BY <1>1, <1>2 DEF SessionInv, SessionCore, DeletedSoFar, Gone
<1> QED
  BY <1>1, <1>3, <1>4, <1>5
    DEF SessionInv, NothingAtStart, SessionCore, Known, StoreAgrees, SignedOff, InMemory, SigningIn,
        MemoryIsGood, Agrees, Gone

\* A write of a session that is over is marked; one of the session signed in changes
\* nothing it should not.
LEMMA LaterStep ==
    ASSUME SessionInv, NEW k \in App!Keys, NEW l \in SignIns, App!PutsLater(k, l),
           UNCHANGED <<sdk, app, using, signIn, logout>>, Known'
    PROVE  SessionCore'
<1>1. Touches(k)
  BY PutsLaterEffect DEF SessionInv
<1>2. MemoryIsGood' <=> MemoryIsGood
  BY <1>1 DEF MemoryIsGood, Touches
<1>3. InMemory'
  BY <1>2 DEF SessionInv, SessionCore, InMemory, NoSignOut
<1>4. CASE k \in astray'
  <2>1. \A j \in App!Keys : Gone(j) => Gone(j)'
    BY <1>1, <1>4, GoneStays DEF Gone
  <2>2. \A m : Agrees(m) => Agrees(m)'
    BY <1>1, <1>4, AgreesStays
  <2> QED
    BY <1>2, <1>3, <2>1, <2>2, EveryKey
      DEF SessionInv, SessionCore, StoreAgrees, DeletedSoFar, SignedOff, SigningIn
<1>5. CASE store'[k] = l /\ ~App!Over(l)
  <2>1. app.user = l /\ NoSignOut /\ MemoryIsGood /\ ~SigningIn /\ Agrees(l)
    BY <1>5, NotOver
  <2>2. Agrees(l)'
    BY <1>1, <1>5, <2>1, AgreesStays
  <2> QED
    BY <1>3, <2>1, <2>2
      DEF SessionCore, StoreAgrees, DeletedSoFar, SignedOff, SigningIn, NoSignOut, MemoryIsGood, App!Held
<1>6. CASE store' = store /\ astray' = astray
  BY <1>3, <1>6
    DEF SessionInv, SessionCore, StoreAgrees, DeletedSoFar, SignedOff, SigningIn, MemoryIsGood, Agrees,
        Gone
<1> QED
  BY <1>4, <1>5, <1>6, PutsLaterEffect DEF SessionInv

LEMMA WriteLandsStep ==
    ASSUME SessionInv, NEW w \in landing, App!WriteLands(w)
    PROVE  SessionInv'
<1>1. PICK k \in {"access", "user"}, l \in SignIns : w = <<k, l>>
  BY SessionTypes DEF SessionInv
<1>2. /\ App!PutsLater(k, l) /\ landing' = landing \ {w} /\ k \in App!Keys
      /\ UNCHANGED <<sdk, app, using, signIn, logout, refreshing, pin, used, saves>>
  BY <1>1 DEF App!WriteLands, App!Keys
<1>3. Touches(k)
  BY <1>2, PutsLaterEffect DEF SessionInv
<1>4. App!SessionTypeOK'
  BY <1>2, <1>3, KeyOrder DEF SessionInv, App!SessionTypeOK, Touches, App!Held
<1>5. using = "running"
  BY DEF SessionInv, NothingAtStart, App!SessionTypeOK
<1>6. Known'
  BY <1>2 DEF SessionInv, SessionCore, Known, SigningIn
<1> QED
  BY <1>2, <1>4, <1>5, <1>6, LaterStep DEF SessionInv, NothingAtStart

LEMMA PinWritesUserStep ==
    ASSUME SessionInv, App!PinWritesUser
    PROVE  SessionInv'
<1>1. /\ pin.at = "asked" /\ pin' = [pin EXCEPT !.at = "stored"]
      /\ App!PutsLater("user", pin.who)
      /\ UNCHANGED <<sdk, app, using, signIn, logout, refreshing, landing, used, saves>>
  BY DEF App!PinWritesUser
<1>2. PICK l \in SignIns : pin.who = l
  BY <1>1 DEF SessionInv, SessionCore, Known, App!SessionTypeOK, App!Held
<1>3. App!PutsLater("user", l) /\ "user" \in App!Keys
  BY <1>1, <1>2 DEF App!Keys
<1>4. Touches("user")
  BY <1>3, PutsLaterEffect DEF SessionInv
<1>5. pin' \in [who : App!Held, at : {"idle", "asked", "stored"}] /\ pin'.who = l
  BY <1>1, <1>2 DEF SessionInv, App!SessionTypeOK
<1>6. App!SessionTypeOK'
  BY <1>1, <1>4, <1>5, KeyOrder DEF SessionInv, App!SessionTypeOK, Touches, App!Held
<1>7. using = "running"
  BY <1>1 DEF SessionInv, NothingAtStart, App!SessionTypeOK, App!NoPin
<1>8. Known'
  BY <1>1, <1>5, SessionConstantsHold DEF SessionInv, SessionCore, Known, SigningIn, SessionConstants
<1> QED
  BY <1>1, <1>3, <1>6, <1>7, <1>8, LaterStep DEF SessionInv, NothingAtStart

\* The user a PIN was set for is remembered: of a session that is over, memory is marked.
LEMMA PinSetStep ==
    ASSUME SessionInv, App!PinSet
    PROVE  SessionInv'
<1>1. /\ pin.at = "stored" /\ pin' = App!NoPin /\ app' = [app EXCEPT !.user = pin.who]
      /\ astray' = IF App!Over(pin.who) THEN astray \cup {"memory"} ELSE astray
      /\ UNCHANGED <<store, sdk, using, signIn, logout, refreshing, landing, used, setbacks, saves>>
  BY DEF App!PinSet, App!RemembersFor
<1>2. PICK l \in SignIns : pin.who = l
  BY <1>1 DEF SessionInv, SessionCore, Known, App!SessionTypeOK, App!Held
<1>3. /\ app'.user = l /\ app'.wallets = app.wallets /\ app'.auth = app.auth
      /\ app' \in [user : App!Held, wallets : App!Held, access : App!Held, auth : BOOLEAN]
      /\ pin' \in [who : App!Held, at : {"idle", "asked", "stored"}] /\ pin'.at = "idle"
  BY <1>1, <1>2 DEF SessionInv, App!SessionTypeOK, App!Held, App!NoPin
<1>4. astray \subseteq astray' /\ astray' \subseteq astray \cup {"memory"}
  BY <1>1
<1>5. App!SessionTypeOK'
  BY <1>1, <1>3, <1>4, KeyOrder DEF SessionInv, App!SessionTypeOK, App!Held
<1>6. using = "running"
  BY <1>1 DEF SessionInv, NothingAtStart, App!SessionTypeOK, App!NoPin
<1>7. Known'
  BY <1>1, <1>3, SessionConstantsHold DEF SessionInv, SessionCore, Known, SigningIn, SessionConstants
<1>8. \/ ~MemoryIsGood'
      \/ MemoryIsGood /\ app.user = l /\ astray' = astray
  <2>1. CASE App!Over(l)
    BY <1>1, <1>2, <2>1 DEF MemoryIsGood
  <2>2. CASE ~App!Over(l)
    BY <1>1, <1>2, <2>2, NotOver
  <2> QED
    BY <2>1, <2>2
<1>9. StoreAgrees' /\ InMemory'
  BY <1>1, <1>3, <1>4, <1>8, EveryKey
    DEF SessionInv, SessionCore, StoreAgrees, InMemory, Agrees, SigningIn, NoSignOut
<1>10. DeletedSoFar' /\ SignedOff'
  BY <1>1, <1>3, <1>4 DEF SessionInv, SessionCore, DeletedSoFar, SignedOff, SigningIn, Gone
<1> QED
  BY <1>5, <1>6, <1>1, <1>7, <1>9, <1>10 DEF SessionInv, SessionCore, NothingAtStart

\* Signed out stays signed out, and signed in the SDK speaks for the user on the screen
\* and the addresses shown are that user's: SessionIsWhole, for any number of sign-ins,
\* kills, refusals of the store, and saved profiles and PINs.
THEOREM SessionsAreWhole == WalletSpec => []SessionIsWhole
<1> DEFINE Inv == part = "app" => SessionInv
<1>1. WalletInit => Inv
  <2>1. SUFFICES ASSUME WalletInit, part = "app" PROVE SessionInv
    OBVIOUS
  <2>2. App!SessionInit
    BY <2>1 DEF WalletInit, ComponentsInit
  <2>3. /\ store = [k \in App!Keys |-> NoSession] /\ sdk = App!Nothing /\ app = App!Nobody
        /\ using = "starting" /\ signIn = App!NoLogin
        /\ logout = [o \in {"asked", "expired"} |-> 0] /\ refreshing = NoSession
        /\ pin = App!NoPin /\ landing = {} /\ used = {} /\ setbacks = 0 /\ saves = 0 /\ astray = {}
    BY <2>2 DEF App!SessionInit
  <2>4. /\ signIn.who = NoSession /\ ~app.auth /\ pin.at = "idle"
        /\ logout["asked"] = 0 /\ logout["expired"] = 0
    BY <2>3 DEF App!NoLogin, App!Nobody, App!NoPin
  <2>5. App!SessionTypeOK
    <3>1. /\ sdk \in [access : App!Held, refresh : App!Held]
          /\ app \in [user : App!Held, wallets : App!Held, access : App!Held, auth : BOOLEAN]
          /\ signIn \in [who : App!Held, step : 0..4]
          /\ pin \in [who : App!Held, at : {"idle", "asked", "stored"}]
          /\ store \in [App!Keys -> App!Held]
          /\ logout \in [{"asked", "expired"} -> 0..5]
      BY <2>3 DEF App!Nothing, App!Nobody, App!NoLogin, App!NoPin, App!Held
    <3>2. setbacks \in 0..MaxSetbacks /\ saves \in 0..MaxSaves
      BY <2>3, SessionConstantsHold DEF SessionConstants
    <3> QED
      BY <2>3, <3>1, <3>2, KeyOrder DEF App!SessionTypeOK, App!Held
  <2>6. Agrees(NoSession) /\ NoSession \in App!Held
    BY <2>3 DEF Agrees, App!Held
  <2>7. SessionCore
    BY <2>3, <2>4, <2>6
      DEF SessionCore, Known, StoreAgrees, DeletedSoFar, SignedOff, InMemory, MemoryIsGood, SigningIn
  <2> QED
    BY <2>3, <2>4, <2>5, <2>7 DEF SessionInv, NothingAtStart, SigningIn, NoSignOut
<1>2. Inv /\ [WalletNext]_walletVars => Inv'
  <2>1. SUFFICES ASSUME SessionInv, [App!SessionNext]_sessionVars PROVE SessionInv'
    BY Part
  <2>2. CASE UNCHANGED sessionVars
    BY <2>1, <2>2
      DEF sessionVars, SessionInv, App!SessionTypeOK, NothingAtStart, SessionCore, Known, StoreAgrees,
          DeletedSoFar, SignedOff, InMemory, MemoryIsGood, SigningIn, NoSignOut, Agrees, Gone
  <2>3. CASE App!SessionNext
    BY <2>1, <2>3, QuietStep, HydrateStep, KillStep, SignInStep, SignInWritesStep, SignedInStep,
       SignOutDeletesStep, SignedOutStep, RefreshedStep, RefreshRejectedStep, WriteLandsStep,
       PinWritesUserStep, PinSetStep
      DEF App!SessionNext
  <2> QED
    BY <2>1, <2>2, <2>3
<1>3. Inv => SessionIsWhole
  <2>1. SUFFICES ASSUME SessionInv, App!Quiet
                 PROVE  /\ ~app.auth /\ ~({"access", "user"} \subseteq astray)
                              => store["access"] = NoSession \/ store["user"] = NoSession
                        /\ app.auth /\ "memory" \notin astray
                              => /\ sdk.access = app.user /\ sdk.refresh \in {app.user, NoSession}
                                 /\ app.wallets \in {app.user, NoSession}
    BY DEF SessionInv, SessionIsWhole, App!SessionIsWhole
  <2>2. SessionCore /\ using = "running" /\ ~SigningIn /\ NoSignOut
    BY <2>1, SessionTypes DEF SessionInv, App!Quiet, App!NoLogin, SigningIn
  <2>3. ASSUME ~app.auth, ~({"access", "user"} \subseteq astray)
        PROVE  store["access"] = NoSession \/ store["user"] = NoSession
    BY <2>2, <2>3 DEF SessionCore, SignedOff, Gone, App!Keys
  <2> QED
    BY <2>2, <2>3 DEF SessionCore, InMemory, MemoryIsGood
<1> QED
  BY <1>1, <1>2, <1>3, PTL DEF WalletSpec
=============================================================================
