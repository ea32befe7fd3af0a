------------------------------- MODULE BankSend -------------------------------
(***************************************************************************)
(* The wallet's screen for a bank transfer: the recipient is typed or      *)
(* picked, the account's name is looked up 400 ms after the last change,   *)
(* the user reviews, approves with PIN or biometrics, and sees the result. *)
(*                                                                         *)
(* A name stands for the account it belongs to; a failed lookup gives a    *)
(* made-up one.  React runs the effect of a change before the next touch,  *)
(* so it is part of the change.  A callback that waits keeps the account   *)
(* and the name it was rendered with.                                      *)
(***************************************************************************)
EXTENDS Naturals, FiniteSets

CONSTANTS
    Targets,        \* bank accounts: number and bank
    Nothing,        \* an incomplete account, or no name
    MadeUp,         \* 'Verified Account', 'Demo Account (GTBank)'
    Payments,       \* the payments that may be made
    Biometrics,     \* whether the device offers them
    MaxPrompts      \* bound of the model: biometric prompts pending together

\* Nothing is no account, no name and no result.
BankConstants == Nothing \notin Targets \cup {MadeUp, "success", "failed"}

VARIABLES
    book,           \* recent and saved recipients: [target, name]
    typed,          \* the account on the screen
    prefilled,      \* prefilledKey: the account whose name came from the book
    name,           \* accountName
    lookups,        \* accounts whose lookup will be heard of
    screen,         \* [step, review, pinTimer, pin, submitting], and isResolving
    prompts,        \* prompts pending: [from, target, name, here]
    payment,        \* payment[p]: [at, target, name, here]
    result          \* what the result modal says, Nothing if it is not up

bankVars == <<book, typed, prefilled, name, lookups, screen, prompts, payment, result>>

Fresh == [step |-> "account", review |-> FALSE, pinTimer |-> FALSE, pin |-> FALSE,
          submitting |-> FALSE, resolving |-> FALSE]
NoPayment == [at |-> "none", target |-> Nothing, name |-> Nothing, here |-> TRUE]

Names == Targets \cup {MadeUp}

BankTypeOK ==
    /\ book \subseteq [target : Targets, name : Names]
    /\ typed \in Targets \cup {Nothing} /\ prefilled \in Targets \cup {Nothing}
    /\ name \in Names \cup {Nothing}
    /\ lookups \subseteq Targets
    /\ screen \in [step : {"account", "amount"}, review : BOOLEAN, pinTimer : BOOLEAN,
                   pin : BOOLEAN, submitting : BOOLEAN, resolving : BOOLEAN]
    /\ prompts \subseteq [from : {"sheet", "modal"}, target : Targets, name : Names, here : BOOLEAN]
    /\ payment \in [Payments -> [at : {"none", "asked", "paid", "failed", "over"},
                       target : Targets \cup {Nothing}, name : Names \cup {Nothing}, here : BOOLEAN]]
    /\ result \in {Nothing, "success", "failed"}

BankInit ==
    /\ book = {}
    /\ typed = Nothing /\ prefilled = Nothing /\ name = Nothing /\ lookups = {}
    /\ screen = Fresh
    /\ prompts = {}
    /\ payment = [p \in Payments |-> NoPayment]
    /\ result = Nothing

recipient == <<typed, prefilled, name, lookups>>

\* No sheet or modal is over the screen.
Bare == ~screen.review /\ ~screen.pin /\ result = Nothing

-----------------------------------------------------------------------------
(* The recipient.                                                          *)

\* (mutant) a lookup under way is not cancelled by a change
Lookups_Kept(t) == lookups \cup (IF t = Nothing THEN {} ELSE {t})

\* The effect's cleanup cancels the lookup under way, the effect starts another.
Lookups(t) == IF t = Nothing THEN {} ELSE {t}

\* Number or bank changes by hand.
Type(t) ==
    /\ Bare /\ screen.step = "account"
    /\ t # typed
    /\ typed' = t
    /\ IF t # Nothing /\ prefilled = t
       THEN lookups' = {} /\ UNCHANGED <<prefilled, name, screen>>
       ELSE /\ prefilled' = Nothing /\ name' = Nothing
            /\ lookups' = Lookups(t)
            /\ screen' = [screen EXCEPT !.resolving = (t # Nothing)]
    /\ UNCHANGED <<book, prompts, payment, result>>

\* pickRecipient; if the account is the one typed already, the effect does not run
\* and a lookup under way goes on.
Pick(r) ==
    /\ Bare /\ screen.step = "account"
    /\ typed' = r.target /\ prefilled' = r.target /\ name' = r.name
    /\ lookups' = IF typed = r.target THEN lookups ELSE {}
    /\ screen' = [screen EXCEPT !.step = "amount", !.resolving = FALSE]
    /\ UNCHANGED <<book, prompts, payment, result>>

\* resolveAccount returns, with a made-up name if the API has none or fails.
Resolved(t) ==
    /\ t \in lookups
    /\ lookups' = lookups \ {t}
    /\ name' \in {t, MadeUp}
    /\ screen' = [screen EXCEPT !.resolving = FALSE]
    /\ UNCHANGED <<book, typed, prefilled, prompts, payment, result>>

\* Continue, with accountReady.
GoOn ==
    /\ Bare /\ screen.step = "account"
    /\ typed # Nothing /\ name # Nothing /\ ~screen.resolving
    /\ screen' = [screen EXCEPT !.step = "amount"]
    /\ UNCHANGED <<book, recipient, prompts, payment, result>>

GoBack ==
    /\ Bare /\ screen.step = "amount"
    /\ screen' = [screen EXCEPT !.step = "account"]
    /\ UNCHANGED <<book, recipient, prompts, payment, result>>

-----------------------------------------------------------------------------
(* The approval.                                                           *)

OpenReview ==
    /\ Bare /\ screen.step = "amount"
    /\ screen' = [screen EXCEPT !.review = TRUE]
    /\ UNCHANGED <<book, recipient, prompts, payment, result>>

CloseReview ==
    /\ screen.review /\ ~screen.submitting
    /\ screen' = [screen EXCEPT !.review = FALSE]
    /\ UNCHANGED <<book, recipient, prompts, payment, result>>

\* The sheet goes away, and the PIN modal comes 300 ms later.
ToPin == screen' = [screen EXCEPT !.review = FALSE, !.pinTimer = TRUE]

Prompt(from) ==
    /\ Cardinality(prompts) < MaxPrompts
    /\ prompts' = prompts \cup {[from |-> from, target |-> typed, name |-> name, here |-> TRUE]}

\* handleConfirmTransfer.
Confirm ==
    /\ screen.review /\ ~screen.submitting
    /\ IF Biometrics THEN Prompt("sheet") /\ UNCHANGED screen ELSE ToPin /\ UNCHANGED prompts
    /\ UNCHANGED <<book, recipient, payment, result>>

\* The timer fires, whatever the screen has become.
PinOpens ==
    /\ screen.pinTimer
    /\ screen' = [screen EXCEPT !.pinTimer = FALSE, !.pin = TRUE]
    /\ UNCHANGED <<book, recipient, prompts, payment, result>>

ClosePin ==
    /\ screen.pin /\ ~screen.submitting
    /\ screen' = [screen EXCEPT !.pin = FALSE]
    /\ UNCHANGED <<book, recipient, prompts, payment, result>>

\* The PIN modal's biometric button; without a name its callback does nothing.
PinBiometric ==
    /\ Biometrics /\ screen.pin /\ ~screen.submitting /\ typed # Nothing /\ name # Nothing
    /\ Prompt("modal")
    /\ UNCHANGED <<book, recipient, screen, payment, result>>

\* handleConfirmPin sends what its closure holds; which payment it is makes no
\* difference.
Send(p, t, n, here) ==
    /\ payment[p].at = "none"
    /\ p = CHOOSE q \in Payments : payment[q].at = "none"
    /\ t # Nothing /\ n # Nothing
    /\ payment' = [payment EXCEPT ![p] = [at |-> "asked", target |-> t, name |-> n, here |-> here]]
    /\ screen' = IF here THEN [screen EXCEPT !.submitting = TRUE] ELSE screen
    /\ UNCHANGED <<book, recipient, result>>

EnterPin(p) ==
    /\ screen.pin /\ ~screen.submitting
    /\ Send(p, typed, name, TRUE)
    /\ UNCHANGED prompts

PromptApproves(q, p) ==
    /\ prompts' = prompts \ {q}
    /\ Send(p, q.target, q.name, q.here)

PromptDismissed(q) ==
    /\ prompts' = prompts \ {q}
    /\ IF q.from = "sheet" /\ q.here THEN ToPin ELSE UNCHANGED screen
    /\ UNCHANGED <<book, recipient, payment, result>>

-----------------------------------------------------------------------------
(* The payment.                                                            *)

\* spendToBank at the API accepts or refuses, or does not hear of it.
Decided(p) ==
    /\ payment[p].at = "asked"
    /\ \E to \in {"paid", "failed"} : payment' = [payment EXCEPT ![p].at = to]
    /\ UNCHANGED <<book, recipient, screen, prompts, result>>

\* The answer, or its loss, which the hook makes a failure; a success puts the
\* recipient among the recent ones, and a saved one keeps the name it was saved
\* with.  A screen left in the meantime shows nothing.
Answered(p, lost) ==
    LET ok == payment[p].at = "paid" /\ ~lost
        r == [target |-> payment[p].target, name |-> payment[p].name] IN
    /\ payment[p].at \in {"paid", "failed"}
    /\ payment' = [payment EXCEPT ![p] = [NoPayment EXCEPT !.at = "over"]]
    /\ \E kept \in {book, {e \in book : e.target # r.target}} :
         book' = IF ok THEN kept \cup {r} ELSE book
    /\ IF payment[p].here
       THEN /\ screen' = [screen EXCEPT !.submitting = FALSE, !.pin = FALSE, !.review = FALSE]
            /\ result' = IF ok THEN "success" ELSE "failed"
       ELSE UNCHANGED <<screen, result>>
    /\ UNCHANGED <<recipient, prompts>>

\* The result is closed, or the user goes back from the first step: the next
\* transfer starts on a new screen.
Leave ==
    /\ result # Nothing \/ (Bare /\ screen.step = "account")
    /\ typed' = Nothing /\ prefilled' = Nothing /\ name' = Nothing /\ lookups' = {}
    /\ screen' = Fresh
    /\ result' = Nothing
    /\ prompts' = {[q EXCEPT !.here = FALSE] : q \in prompts}
    /\ payment' = [p \in Payments |->
                     [payment[p] EXCEPT !.here = payment[p].at \notin {"asked", "paid", "failed"}]]
    /\ UNCHANGED book

BankNext ==
    \/ \E t \in Targets \cup {Nothing} : Type(t)
    \/ \E r \in book : Pick(r)
    \/ \E t \in lookups : Resolved(t)
    \/ GoOn \/ GoBack \/ OpenReview \/ CloseReview \/ Confirm \/ PinOpens \/ ClosePin
    \/ PinBiometric \/ Leave
    \/ \E q \in prompts : PromptDismissed(q) \/ \E p \in Payments : PromptApproves(q, p)
    \/ \E p \in Payments : EnterPin(p) \/ Decided(p) \/ \E lost \in BOOLEAN : Answered(p, lost)

BankSpec == BankInit /\ [][BankNext]_bankVars

-----------------------------------------------------------------------------

\* The name the user sees, pays and keeps in the book is the one looked up for that
\* very account, or made up, and never that of another: lookups that are late,
\* recipients picked while one is under way and a PIN modal that comes when the
\* screen has moved on do not mix them up.
NameIsOfAccount ==
    /\ name \in {Nothing, MadeUp, typed}
    /\ \A r \in book : r.name \in {MadeUp, r.target}
    /\ \A p \in Payments : payment[p].name \in {Nothing, MadeUp, payment[p].target}
=============================================================================
