----------------------------- MODULE OnchainSend -----------------------------
(***************************************************************************)
(* The wallet's screen for a send on chain, from the review sheet to the   *)
(* result, over the hook and the SDK it calls.  A send is approved by the  *)
(* PIN or by the device's biometric prompt, asked for once or, after a 401, *)
(* twice, and its status is then polled every three seconds.               *)
(*                                                                         *)
(* A prompt comes up some time after it is asked for; until then the sheet *)
(* takes touches, so two sends may be under way.  The worker moves the row *)
(* as module Withdrawals says when no run outlives the stale recovery: a   *)
(* final status stays.                                                     *)
(***************************************************************************)
EXTENDS Naturals, FiniteSets

CONSTANTS
    Sends,          \* the requests the screen may make
    Nothing,
    MaxPrompts,     \* bound of the model: biometric prompts pending together
    MaxFailures,    \* bound of the model: requests of either kind that are lost
    Faults          \* which of {"lost", "database"} may happen

\* Nothing is no send, no status and no result.
OnchainConstants ==
    /\ IsFiniteSet(Sends)
    /\ Nothing \notin Sends \cup {"PENDING", "BROADCAST", "CONFIRMED", "FAILED",
                               "pending", "success", "failed"}
    /\ MaxPrompts \in Nat /\ MaxFailures \in Nat

VARIABLES
    \* the API and the database
    row,            \* row[s]: status of the "Withdrawal" row, Nothing if there is none
    known,          \* known[s]: status in LedgerService.withdrawals
    debits,         \* debits made
    \* the wallet
    sheet,          \* the review sheet: [open, pinMode, submitting]
    prompts,        \* biometric prompts pending: how many of each kind
    request,        \* request[s]: where the request of send s is
    interval,       \* the send whose status is polled, Nothing if none
    polls,          \* status requests in flight: [send, status], Nothing until read
    shown,          \* what the result modal shows: [type, ref]
    approvals,      \* (history) approvals given
    failures        \* (bound) requests lost so far

onchainVars == <<row, known, debits, sheet, prompts, request, interval, polls,
                 shown, approvals, failures>>

Final == {"CONFIRMED", "FAILED"}
Statuses == Final \cup {"PENDING", "BROADCAST"}
Closed == [open |-> FALSE, pinMode |-> FALSE, submitting |-> FALSE]
Hidden == [type |-> Nothing, ref |-> Nothing]

OnchainTypeOK ==
    /\ row \in [Sends -> Statuses \cup {Nothing}]
    /\ known \in [Sends -> Statuses \cup {Nothing}]
    /\ debits \in Nat
    /\ sheet \in [open : BOOLEAN, pinMode : BOOLEAN, submitting : BOOLEAN]
    /\ prompts \in [{"swipe", "pad"} -> 0..MaxPrompts]
    /\ request \in [Sends -> {"none", "asked", "again", "done", "failed", "closing", "over"}]
    /\ interval \in Sends \cup {Nothing}
    /\ polls \subseteq [send : Sends, status : Statuses \cup {Nothing}]
    /\ shown \in [type : {Nothing, "pending", "success", "failed"}, ref : Sends \cup {Nothing}]
    /\ approvals \in Nat /\ failures \in 0..MaxFailures

OnchainInit ==
    /\ row = [s \in Sends |-> Nothing] /\ known = [s \in Sends |-> Nothing]
    /\ debits = 0
    /\ sheet = Closed
    /\ prompts = [k \in {"swipe", "pad"} |-> 0]
    /\ request = [s \in Sends |-> "none"]
    /\ interval = Nothing /\ polls = {} /\ shown = Hidden
    /\ approvals = 0 /\ failures = 0

api == <<row, known, debits>>
polling == <<interval, polls, shown>>

\* The result modal covers the screen until it is closed, and the screen with it.
Touchable == shown = Hidden

-----------------------------------------------------------------------------
(* The review sheet.                                                       *)

OpenSheet ==
    /\ Touchable /\ ~sheet.open
    /\ sheet' = [sheet EXCEPT !.open = TRUE]
    /\ UNCHANGED <<api, prompts, request, polling, approvals, failures>>

CloseSheet ==
    /\ Touchable /\ sheet.open /\ ~sheet.submitting
    /\ sheet' = [sheet EXCEPT !.open = FALSE, !.pinMode = FALSE]
    /\ UNCHANGED <<api, prompts, request, polling, approvals, failures>>

\* handleConfirmPin: one request for the approval just given.
Submit(s) ==
    /\ request[s] = "none"
    /\ s = CHOOSE o \in Sends : request[o] = "none"     \* whichever it is
    /\ sheet' = [sheet EXCEPT !.submitting = TRUE]
    /\ request' = [request EXCEPT ![s] = "asked"]
    /\ approvals' = approvals + 1
    /\ UNCHANGED <<api, polling, failures>>

\* handleSwipeComplete and handleBiometricInPin ask for the prompt ...
AskPrompt(k) ==
    /\ Touchable /\ sheet.open /\ ~sheet.submitting
    /\ sheet.pinMode = (k = "pad")
    /\ prompts["swipe"] + prompts["pad"] < MaxPrompts
    /\ prompts' = [prompts EXCEPT ![k] = @ + 1]
    /\ UNCHANGED <<api, sheet, request, polling, approvals, failures>>

\* ... which approves, whatever the sheet has become in the meantime ...
PromptApproves(k, s) ==
    /\ prompts[k] > 0
    /\ prompts' = [prompts EXCEPT ![k] = @ - 1]
    /\ Submit(s)

\* ... or is dismissed: a swipe then goes on to the PIN pad.
PromptDismissed(k) ==
    /\ prompts[k] > 0
    /\ prompts' = [prompts EXCEPT ![k] = @ - 1]
    /\ sheet' = IF k = "swipe" THEN [sheet EXCEPT !.pinMode = TRUE] ELSE sheet
    /\ UNCHANGED <<api, request, polling, approvals, failures>>

\* A swipe without biometrics.
Swipe ==
    /\ Touchable /\ sheet.open /\ ~sheet.pinMode /\ ~sheet.submitting
    /\ sheet' = [sheet EXCEPT !.pinMode = TRUE]
    /\ UNCHANGED <<api, prompts, request, polling, approvals, failures>>

\* The fourth digit.
EnterPin(s) ==
    /\ Touchable /\ sheet.open /\ sheet.pinMode /\ ~sheet.submitting
    /\ Submit(s)
    /\ UNCHANGED prompts

-----------------------------------------------------------------------------
(* The request.                                                            *)

UnderWay(s) == request[s] \in {"asked", "again"}

\* spendOnchain: the debit is made and the row inserted, or the insertion fails.
Debit(s) ==
    /\ UnderWay(s)
    /\ request' = [request EXCEPT ![s] = "done"]
    /\ debits' = debits + 1
    /\ known' = [known EXCEPT ![s] = "PENDING"]
    /\ \/ row' = [row EXCEPT ![s] = "PENDING"]
       \/ "database" \in Faults /\ UNCHANGED row
    /\ UNCHANGED <<sheet, prompts, polling, approvals, failures>>

\* A wrong PIN, or not enough balance; the row a refused debit may leave behind is
\* not polled (see module Withdrawals for what becomes of it).
Refuse(s) ==
    /\ UnderWay(s)
    /\ request' = [request EXCEPT ![s] = "failed"]
    /\ UNCHANGED <<api, sheet, prompts, polling, approvals, failures>>

\* send's 401: the token has expired, or the PIN is wrong.  The token is refreshed and
\* the request repeated, once.
Unauthorized(s) ==
    /\ request[s] = "asked"
    /\ request' = [request EXCEPT ![s] = "again"]
    /\ UNCHANGED <<api, sheet, prompts, polling, approvals, failures>>

\* (mutant) a request whose answer is lost is repeated too
Lost_Repeated(s) ==
    /\ UnderWay(s) \/ request[s] = "done"
    /\ "lost" \in Faults /\ failures < MaxFailures /\ failures' = failures + 1
    /\ request' = [request EXCEPT ![s] = "again"]
    /\ UNCHANGED <<api, sheet, prompts, polling, approvals>>

\* The request is lost before it arrives, or its answer on the way back.
Lost(s) ==
    /\ UnderWay(s) \/ request[s] = "done"
    /\ "lost" \in Faults /\ failures < MaxFailures /\ failures' = failures + 1
    /\ request' = [request EXCEPT ![s] = "failed"]
    /\ UNCHANGED <<api, sheet, prompts, polling, approvals>>

\* sendCrypto returns: the poll of an earlier send is stopped, this one's started,
\* and the sheet goes away.
Answered(s) ==
    /\ request[s] = "done"
    /\ request' = [request EXCEPT ![s] = "closing"]
    /\ interval' = s
    /\ sheet' = Closed
    /\ UNCHANGED <<api, prompts, polls, shown, approvals, failures>>

\* 300 ms later.
ShowResult(s) ==
    /\ request[s] = "closing"
    /\ request' = [request EXCEPT ![s] = "over"]
    /\ shown' = [type |-> "pending", ref |-> s]
    /\ UNCHANGED <<api, sheet, prompts, interval, polls, approvals, failures>>

\* The error is shown in the sheet, which may be used again.
ShowError(s) ==
    /\ request[s] = "failed"
    /\ request' = [request EXCEPT ![s] = "over"]
    /\ sheet' = [sheet EXCEPT !.submitting = FALSE]
    /\ UNCHANGED <<api, prompts, polling, approvals, failures>>

-----------------------------------------------------------------------------
(* The status.                                                             *)

\* The worker's job.
WorkerMoves(s) ==
    /\ \/ row[s] = "PENDING" /\ \E t \in Statuses \ {"PENDING"} : row' = [row EXCEPT ![s] = t]
       \/ row[s] = "BROADCAST" /\ \E t \in Final : row' = [row EXCEPT ![s] = t]
    /\ UNCHANGED <<known, debits, sheet, prompts, request, polling, approvals, failures>>

\* The interval ticks; the first time is long after the 300 ms of the sheet.
Poll ==
    /\ interval # Nothing /\ request[interval] = "over"
    /\ polls' = polls \cup {[send |-> interval, status |-> Nothing]}
    /\ UNCHANGED <<api, sheet, prompts, request, interval, shown, approvals, failures>>

\* getWithdrawalAsync: the row, which memory takes over, or what memory has when
\* there is no row or the database refuses.
ReadStatus(q) ==
    /\ q.status = Nothing
    /\ \/ /\ row[q.send] # Nothing
          /\ known' = [known EXCEPT ![q.send] = row[q.send]]
       \/ /\ row[q.send] = Nothing \/ "database" \in Faults
          /\ UNCHANGED known
    /\ polls' = (polls \ {q}) \cup {[q EXCEPT !.status = known'[q.send]]}
    /\ UNCHANGED <<row, debits, sheet, prompts, request, interval, shown, approvals, failures>>

PollLost(q) ==
    /\ "lost" \in Faults
    /\ polls' = polls \ {q}
    /\ UNCHANGED <<api, sheet, prompts, request, interval, shown, approvals, failures>>

\* (mutant) what the network has taken is shown as sent
Promoted_Broadcast(status) ==
    IF status \in {"CONFIRMED", "BROADCAST"} THEN "success"
    ELSE IF status = "FAILED" THEN "failed" ELSE Nothing

\* What a status makes of the modal.
Promoted(status) ==
    IF status = "CONFIRMED" THEN "success"
    ELSE IF status = "FAILED" THEN "failed" ELSE Nothing

\* The answer.  A final status stops the interval, whichever send it polls by now,
\* and is shown if the modal is up.
PollAnswered(q) ==
    /\ q.status # Nothing
    /\ polls' = polls \ {q}
    /\ interval' = IF q.status \in Final THEN Nothing ELSE interval
    /\ shown' = IF shown # Hidden /\ Promoted(q.status) # Nothing
                THEN [type |-> Promoted(q.status), ref |-> q.send] ELSE shown
    /\ UNCHANGED <<api, sheet, prompts, request, approvals, failures>>

OnchainNext ==
    \/ OpenSheet \/ CloseSheet \/ Swipe \/ Poll
    \/ \E k \in {"swipe", "pad"} :
         AskPrompt(k) \/ PromptDismissed(k) \/ \E s \in Sends : PromptApproves(k, s)
    \/ \E s \in Sends :
         \/ EnterPin(s) \/ Debit(s) \/ Refuse(s) \/ Unauthorized(s) \/ Lost(s)
         \/ Answered(s) \/ ShowResult(s) \/ ShowError(s) \/ WorkerMoves(s)
    \/ \E q \in polls : ReadStatus(q) \/ PollLost(q) \/ PollAnswered(q)

OnchainSpec == OnchainInit /\ [][OnchainNext]_onchainVars

-----------------------------------------------------------------------------

\* What the modal says of a send is what became of it, however late the answers of
\* polls arrive and whatever sends they are of: "confirmed" only of a CONFIRMED
\* row and "failed, balance restored" only of a FAILED one.
ResultIsTrue ==
    /\ shown.type = "success" => row[shown.ref] = "CONFIRMED"
    /\ shown.type = "failed" => row[shown.ref] = "FAILED"
    /\ shown.type = "pending" => known[shown.ref] # Nothing

\* The user is debited at most once for an approval: neither the repetition after
\* a 401 nor a lost answer makes the request twice.
DebitsAreApproved == debits <= approvals

OnchainSendIsHonest == ResultIsTrue /\ DebitsAreApproved
=============================================================================
