----------------------------- MODULE BankPayouts -----------------------------
(***************************************************************************)
(* Naira payouts to a bank account: the two routes that start one          *)
(* (spendToBank and the NGN leg of cashout), the providers behind the      *)
(* failover chain, their webhooks, and the reconciler that polls them.     *)
(*                                                                         *)
(* All of it runs in the API process.  A payout is known in two places:    *)
(* the map `spends` of that process (memory), written at once, and the     *)
(* "SpendTransaction" row (spend), written by an upsert nobody awaits.     *)
(* Webhook handlers and the reconciler interleave at every await; a        *)
(* restart loses the map, the writes in flight and the handlers, but not   *)
(* the webhook keys they reserved.                                         *)
(*                                                                         *)
(* What the surroundings may do is the constant Faults:                    *)
(*   "crash"       the API restarts, or a handler's await throws           *)
(*   "lostAnswer"  a provider accepts a payout and the answer is an error  *)
(*   "early"       a provider settles a payout before the API recorded it  *)
(*   "dbError"     a write whose error the code swallows is refused        *)
(* struck remembers which of them happened, for the properties that hold   *)
(* until one does.                                                         *)
(*                                                                         *)
(* Left out: the platform fee (a webhook refund does not return it) and    *)
(* the on-chain transfer to the treasury that precedes the debit.          *)
(***************************************************************************)
EXTENDS LedgerStore

CONSTANTS
    Handlers,       \* webhook handlers and reconciler passes under way
    Faults,
    MaxPolls        \* polls of one row before the reconciler gives up (24)

AllFaults == {"crash", "lostAnswer", "early", "dbError"}

ASSUME PayoutsAssumption ==
    /\ Faults \subseteq AllFaults
    /\ MaxPolls \in Nat \ {0}

VARIABLES
    request,        \* the HTTP request that starts the payout
    payout,         \* what each provider made of it
    memory,         \* status in the map `spends`
    spend,          \* status of the "SpendTransaction" row
    writes,         \* recordSpend's two writes that are still in flight
    reserved,       \* the "ProcessedWebhook" keys
    handler,        \* the handlers under way
    polls,          \* pollCounts of the reconciler
    struck          \* (history) the kinds of faults that happened

vars == <<account, journal, latest, limitRow, today,
          request, payout, memory, spend, writes, reserved, handler, polls, struck>>

Providers == {"bachs", "squad"}
Outcomes == {"paid", "failed"}

\* spendToBank records the provider's word, "pending"; cashout writes
\* "PENDING".  The reconciler asks for the latter only.
Statuses == {"NONE", "pending", "PENDING", "SUCCESS", "REVERSED"}

RequestStages == {"none", "debit", "transfer", "record", "release", "check", "refund", "done"}
Requests == [stage : RequestStages, route : {"spend", "cashout"}, to : Providers,
             tried : SUBSET Providers]

HandlerStages == {"confirm", "confirmRow", "reverse", "resume", "markRow", "release",
                  "check", "refund"}
IdleHandlers == [stage : {"idle"}]
BusyHandlers == [stage : HandlerStages, ref : Refs, found : Statuses, by : {"webhook", "poll"}]

Keys == [by : Providers, ref : Refs, event : Outcomes \cup {"any"}]

TypeOK ==
    /\ StoreTypeOK
    /\ request \in [Refs -> Requests]
    /\ payout \in [Refs -> [Providers -> {"none", "accepted"} \cup Outcomes]]
    /\ memory \in [Refs -> Statuses]
    /\ spend \in [Refs -> Statuses]
    /\ writes \in [Refs -> SUBSET {"row", "entry"}]
    /\ reserved \subseteq Keys
    /\ handler \in [Handlers -> BusyHandlers \cup IdleHandlers]
    /\ polls \in [Refs -> Nat]
    /\ struck \subseteq Faults

Idle == [stage |-> "idle"]

Init ==
    /\ StoreInit
    /\ request = [r \in Refs |-> [stage |-> "none", route |-> "spend", to |-> "bachs", tried |-> {}]]
    /\ payout = [r \in Refs |-> [p \in Providers |-> "none"]]
    /\ memory = [r \in Refs |-> "NONE"]
    /\ spend = [r \in Refs |-> "NONE"]
    /\ writes = [r \in Refs |-> {}]
    /\ reserved = {}
    /\ handler = [h \in Handlers |-> Idle]
    /\ polls = [r \in Refs |-> 0]
    /\ struck = {}

Strike(fault) == struck' = struck \cup {fault}

-----------------------------------------------------------------------------
(* The request.                                                            *)

Stage(r) == request[r].stage
Advance(r, stage) == request' = [request EXCEPT ![r].stage = stage]
IsCashout(r) == request[r].route = "cashout"

\* What a request leaves alone until it records the payout.
recordVars == <<memory, spend, writes, reserved, handler, polls>>
requestVars == <<recordVars, struck>>

\* The checks passed.  The active provider is the administrator's choice.
Request(r) ==
    /\ Stage(r) = "none"
    /\ \E route \in {"spend", "cashout"}, active \in Providers :
         request' = [request EXCEPT ![r] = [stage |-> "debit", route |-> route,
                                            to |-> active, tried |-> {}]]
    /\ UNCHANGED <<storeVars, payout, requestVars>>

\* spendToBank debits within the daily limit; cashout debits as CASHOUT_CRYPTO
\* without one.
Debit(r) ==
    /\ Stage(r) = "debit"
    /\ \/ ~IsCashout(r) /\ DebitTx(r, TRUE)
       \/ /\ IsCashout(r)
          /\ CanDebit(r, FALSE)
          /\ Book("cashout", r, Available(Payer[r]) - Amount[r])
          /\ UNCHANGED limitVars
    /\ Advance(r, "transfer")
    /\ UNCHANGED <<payout, requestVars>>

DebitRefused(r) ==
    /\ Stage(r) = "debit"
    /\ ~CanDebit(r, ~IsCashout(r))
    /\ Advance(r, "done")
    /\ UNCHANGED <<storeVars, payout, requestVars>>

To(r) == request[r].to

Give(r) ==
    /\ payout[r][To(r)] = "none"
    /\ payout' = [payout EXCEPT ![r][To(r)] = "accepted"]

\* (mutant) every provider of the chain is asked, whatever was answered
Accepted_NextToo(r) ==
    /\ Stage(r) = "transfer"
    /\ Give(r)
    /\ LET left == {p \in Providers \ (request[r].tried \cup {To(r)}) : payout[r][p] = "none"} IN
       IF left = {}
       THEN Advance(r, "record")
       ELSE request' = [request EXCEPT ![r].to = CHOOSE p \in left : TRUE]
    /\ UNCHANGED <<storeVars, requestVars>>

\* The provider answers "pending": the chain ends here.
Accepted(r) ==
    /\ Stage(r) = "transfer"
    /\ Give(r)
    /\ Advance(r, "record")
    /\ UNCHANGED <<storeVars, requestVars>>

\* "failed" or an exception: the next provider, or the end of the chain.  The
\* catch of spendToBank refunds; the catch of cashout does not.
TryNext(r) ==
    LET tried == request[r].tried \cup {To(r)}
        left == Providers \ tried
    IN  IF left # {}
        THEN request' = [request EXCEPT ![r].to = CHOOSE p \in left : TRUE,
                                        ![r].tried = tried]
        ELSE request' = [request EXCEPT ![r].stage = IF IsCashout(r) THEN "done" ELSE "release",
                                        ![r].tried = tried]

\* The provider made nothing of it.
Refused(r) ==
    /\ Stage(r) = "transfer"
    /\ TryNext(r)
    /\ UNCHANGED <<storeVars, payout, requestVars>>

\* Bachs creates the payout and answers it as failed: the chain goes on, and
\* the failed payout stays with Bachs, which reports it by an event.
RefusedOnRecord(r) ==
    /\ Stage(r) = "transfer"
    /\ To(r) = "bachs"
    /\ payout[r][To(r)] = "none"
    /\ payout' = [payout EXCEPT ![r][To(r)] = "failed"]
    /\ TryNext(r)
    /\ UNCHANGED <<storeVars, requestVars>>

AnswerLost(r) ==
    /\ "lostAnswer" \in Faults
    /\ Stage(r) = "transfer"
    /\ Give(r)
    /\ TryNext(r)
    /\ Strike("lostAnswer")
    /\ UNCHANGED <<storeVars, recordVars>>

\* recordSpend: the map at once; the upsert and the SPEND_DEBIT entry are
\* started and not awaited.
Record(r) ==
    /\ Stage(r) = "record"
    /\ memory' = [memory EXCEPT ![r] = IF IsCashout(r) THEN "PENDING" ELSE "pending"]
    /\ writes' = [writes EXCEPT ![r] = {"row", "entry"}]
    /\ Advance(r, "done")
    /\ UNCHANGED <<storeVars, payout, spend, reserved, handler, polls, struck>>

\* No row exists yet: the upsert creates it with the status of the record as
\* it was handed over.
WriteRow(r) ==
    /\ "row" \in writes[r]
    /\ spend' = [spend EXCEPT ![r] = IF IsCashout(r) THEN "PENDING" ELSE "pending"]
    /\ writes' = [writes EXCEPT ![r] = @ \ {"row"}]
    /\ UNCHANGED <<storeVars, request, payout, memory, reserved, handler, polls, struck>>

\* For a spend the entry is there already.  For a cashout it is the SPEND_DEBIT
\* a reversal will look for; the balance has moved under CASHOUT_CRYPTO.
WriteEntry(r) ==
    /\ "entry" \in writes[r]
    /\ journal' = journal \cup {<<"debit", r>>}
    /\ latest' = IF Booked("debit", r) THEN latest
                 ELSE [latest EXCEPT ![Payer[r]] = Available(Payer[r])]
    /\ writes' = [writes EXCEPT ![r] = @ \ {"entry"}]
    /\ UNCHANGED <<account, limitVars, request, payout, memory, spend, reserved, handler, polls,
                   struck>>

\* A write is refused and the error only logged.
WriteFails(r) ==
    /\ "dbError" \in Faults
    /\ \E w \in writes[r] : writes' = [writes EXCEPT ![r] = @ \ {w}]
    /\ Strike("dbError")
    /\ UNCHANGED <<storeVars, request, payout, memory, spend, reserved, handler, polls>>

\* The catch of spendToBank: release the limit, then credit rev_ the reference.
ReleaseFailed(r) ==
    /\ Stage(r) = "release"
    /\ ReleaseSpendLimit(r)
    /\ Advance(r, "check")
    /\ UNCHANGED <<payout, requestVars>>

\* creditBalanceAtomic looks for the entry before it locks the row (the payer
\* was debited and has one), and for the debit after.
CheckFailed(r) ==
    /\ Stage(r) = "check"
    /\ Advance(r, IF Booked("reversal", r) THEN "done" ELSE "refund")
    /\ UNCHANGED <<storeVars, payout, requestVars>>

Refund(r) ==
    IF ReversalAllowed("reversal", r) THEN CreditTx("reversal", r) ELSE UNCHANGED storeVars

RefundFailed(r) ==
    /\ Stage(r) = "refund"
    /\ Refund(r)
    /\ Advance(r, "done")
    /\ UNCHANGED <<payout, requestVars>>

-----------------------------------------------------------------------------
(* The providers.                                                          *)

Recorded(r) == Stage(r) = "done" /\ writes[r] = {}

\* The bank paid or refused, and the provider will say so.
Settle(r, p, outcome) ==
    /\ payout[r][p] = "accepted"
    /\ \/ Recorded(r) /\ UNCHANGED struck
       \/ ~Recorded(r) /\ "early" \in Faults /\ Strike("early")
    /\ payout' = [payout EXCEPT ![r][p] = outcome]
    /\ UNCHANGED <<storeVars, request, recordVars>>

-----------------------------------------------------------------------------
(* Webhook handlers and the reconciler.                                    *)

Busy(h) == handler[h].stage # "idle"
In(h, stage) == Busy(h) /\ handler[h].stage = stage
Ref(h) == handler[h].ref
GoTo(h, stage) == handler' = [handler EXCEPT ![h].stage = stage]

Begin(h, r, outcome, by) ==
    handler' = [handler EXCEPT ![h] =
        [stage |-> IF outcome = "paid" THEN "confirm" ELSE "reverse",
         ref |-> r, found |-> "NONE", by |-> by]]

\* The end of a handler; the reconciler forgets the row's poll count.
Finish(h) ==
    /\ handler' = [handler EXCEPT ![h] = Idle]
    /\ polls' = IF handler[h].by = "poll" THEN [polls EXCEPT ![Ref(h)] = 0] ELSE polls

\* What a handler leaves alone.
otherVars == <<request, payout, writes>>
handlerVars == <<otherVars, struck>>

\* Squad's events carry no id of their own: the key is the reference.
Key(p, r, outcome) ==
    [by |-> p, ref |-> r, event |-> IF p = "squad" THEN "any" ELSE outcome]

\* reserveWebhookEvent: the key is committed before anything is done about the
\* event, and a second delivery of it is skipped.
Deliver(h, p, r) ==
    /\ ~Busy(h)
    /\ payout[r][p] \in Outcomes
    /\ Key(p, r, payout[r][p]) \notin reserved
    /\ reserved' = reserved \cup {Key(p, r, payout[r][p])}
    /\ Begin(h, r, payout[r][p], "webhook")
    /\ UNCHANGED <<storeVars, handlerVars, memory, spend, polls>>

\* (mutant) anything that is not paid counts as failed
Says_PaidOrFailed(r, p) == IF payout[r][p] = "paid" THEN "paid" ELSE "failed"

\* (mutant) a payout the provider has accepted counts as paid
Says_AcceptedIsPaid(r, p) == IF payout[r][p] = "accepted" THEN "paid" ELSE payout[r][p]

\* What checkTransferStatus says: Squad's never says "failed".
Says(r, p) ==
    IF p = "squad" /\ payout[r][p] = "failed" THEN "accepted" ELSE payout[r][p]

\* reconcileRow, one pass at a time, over rows whose status is "PENDING".
Poll(h, r) ==
    /\ ~Busy(h)
    /\ \A g \in Handlers : Busy(g) => handler[g].by # "poll"
    /\ spend[r] = "PENDING"
    /\ polls[r] < MaxPolls
    /\ polls' = [polls EXCEPT ![r] = @ + 1]
    /\ IF Says(r, To(r)) \in Outcomes
       THEN Begin(h, r, Says(r, To(r)), "poll")
       ELSE UNCHANGED handler
    /\ UNCHANGED <<storeVars, handlerVars, memory, spend, reserved>>

\* confirmSpendTransaction: the map, then the row, if they know the reference.
Confirm(h) ==
    /\ In(h, "confirm")
    /\ memory' = IF memory[Ref(h)] = "NONE" THEN memory
                 ELSE [memory EXCEPT ![Ref(h)] = "SUCCESS"]
    /\ GoTo(h, "confirmRow")
    /\ UNCHANGED <<storeVars, handlerVars, spend, reserved, polls>>

\* UPDATE of the row: there may be none, and an error is swallowed.
MarkSpend(r, status) ==
    \/ /\ spend[r] # "NONE"
       /\ spend' = [spend EXCEPT ![r] = status]
       /\ UNCHANGED struck
    \/ /\ spend[r] = "NONE"
       /\ UNCHANGED <<spend, struck>>
    \/ /\ "dbError" \in Faults
       /\ Strike("dbError")
       /\ UNCHANGED spend

ConfirmRow(h) ==
    /\ In(h, "confirmRow")
    /\ MarkSpend(Ref(h), "SUCCESS")
    /\ Finish(h)
    /\ UNCHANGED <<storeVars, otherVars, memory, reserved>>

\* reverseSpendTransaction for a payout the map knows.  The check and the mark
\* are not separated by an await.
ReverseKnown(h) ==
    /\ In(h, "reverse")
    /\ memory[Ref(h)] # "NONE"
    /\ IF memory[Ref(h)] = "REVERSED"
       THEN Finish(h) /\ UNCHANGED memory
       ELSE /\ memory' = [memory EXCEPT ![Ref(h)] = "REVERSED"]
            /\ GoTo(h, "markRow")
            /\ UNCHANGED polls
    /\ UNCHANGED <<storeVars, handlerVars, spend, reserved>>

\* The map does not know it: read the row.
ReverseLookup(h) ==
    /\ In(h, "reverse")
    /\ memory[Ref(h)] = "NONE"
    /\ handler' = [handler EXCEPT ![h].stage = "resume", ![h].found = spend[Ref(h)]]
    /\ UNCHANGED <<storeVars, handlerVars, memory, spend, reserved, polls>>

\* The row as it was read goes into the map and is checked; another handler
\* may have marked the payout since.
ReverseResume(h) ==
    /\ In(h, "resume")
    /\ LET found == handler[h].found IN
       /\ memory' = IF found = "NONE" THEN memory
                    ELSE [memory EXCEPT ![Ref(h)] = "REVERSED"]
       /\ IF found \in {"NONE", "REVERSED"}
          THEN Finish(h)
          ELSE GoTo(h, "markRow") /\ UNCHANGED polls
    /\ UNCHANGED <<storeVars, handlerVars, spend, reserved>>

\* (mutant) the handler returns once the row is marked
MarkRow_Returns(h) ==
    /\ In(h, "markRow")
    /\ MarkSpend(Ref(h), "REVERSED")
    /\ Finish(h)
    /\ UNCHANGED <<storeVars, otherVars, memory, reserved>>

MarkRow(h) ==
    /\ In(h, "markRow")
    /\ MarkSpend(Ref(h), "REVERSED")
    /\ GoTo(h, "release")
    /\ UNCHANGED <<storeVars, otherVars, memory, reserved, polls>>

ReleaseReversed(h) ==
    /\ In(h, "release")
    /\ ReleaseSpendLimit(Ref(h))
    /\ GoTo(h, "check")
    /\ UNCHANGED <<handlerVars, memory, spend, reserved, polls>>

CheckReversed(h) ==
    /\ In(h, "check")
    /\ IF Booked("reversal", Ref(h))
       THEN Finish(h)
       ELSE GoTo(h, "refund") /\ UNCHANGED polls
    /\ UNCHANGED <<storeVars, handlerVars, memory, spend, reserved>>

\* (mutant) the refund is forgotten
RefundReversed_Nothing(h) ==
    /\ In(h, "refund")
    /\ Finish(h)
    /\ UNCHANGED <<storeVars, handlerVars, memory, spend, reserved>>

RefundReversed(h) ==
    /\ In(h, "refund")
    /\ Refund(Ref(h))
    /\ Finish(h)
    /\ UNCHANGED <<handlerVars, memory, spend, reserved>>

\* An await of the handler throws: the webhook is answered with an error, and
\* its key stays.
HandlerThrows(h) ==
    /\ "crash" \in Faults
    /\ Busy(h)
    /\ handler' = [handler EXCEPT ![h] = Idle]
    /\ Strike("crash")
    /\ UNCHANGED <<storeVars, otherVars, memory, spend, reserved, polls>>

\* The API restarts: the maps, the writes in flight, the handlers and the
\* requests under way are gone.
Restart ==
    /\ "crash" \in Faults
    /\ Strike("crash")
    /\ memory' = [r \in Refs |-> "NONE"]
    /\ writes' = [r \in Refs |-> {}]
    /\ handler' = [h \in Handlers |-> Idle]
    /\ polls' = [r \in Refs |-> 0]
    /\ request' = [r \in Refs |-> IF Stage(r) = "none" THEN request[r]
                                  ELSE [request[r] EXCEPT !.stage = "done"]]
    /\ UNCHANGED <<storeVars, payout, spend, reserved>>

-----------------------------------------------------------------------------

RequestNext(r) ==
    \/ Debit(r) \/ DebitRefused(r) \/ Accepted(r) \/ Refused(r) \/ RefusedOnRecord(r)
    \/ AnswerLost(r) \/ Record(r) \/ ReleaseFailed(r) \/ CheckFailed(r) \/ RefundFailed(r)

WritesNext(r) == WriteRow(r) \/ WriteEntry(r) \/ WriteFails(r)

HandlerNext(h) ==
    \/ Confirm(h) \/ ConfirmRow(h)
    \/ ReverseKnown(h) \/ ReverseLookup(h) \/ ReverseResume(h)
    \/ MarkRow(h) \/ ReleaseReversed(h) \/ CheckReversed(h) \/ RefundReversed(h)

Next ==
    \/ \E r \in Refs : Request(r) \/ RequestNext(r) \/ WritesNext(r)
    \/ \E r \in Refs, p \in Providers, outcome \in Outcomes : Settle(r, p, outcome)
    \/ \E h \in Handlers, r \in Refs : Poll(h, r) \/ \E p \in Providers : Deliver(h, p, r)
    \/ \E h \in Handlers : HandlerNext(h) \/ HandlerThrows(h)
    \/ Restart

Spec == Init /\ [][Next]_vars

\* The event loop runs what is ready, and a provider repeats an event until it
\* is answered.
Fairness ==
    /\ \A r \in Refs : WF_vars(RequestNext(r)) /\ WF_vars(WritesNext(r))
    /\ \A h \in Handlers : WF_vars(HandlerNext(h))
    /\ \A r \in Refs, p \in Providers : WF_vars(\E h \in Handlers : Deliver(h, p, r))

FairSpec == Spec /\ Fairness

-----------------------------------------------------------------------------
(* Properties.                                                             *)

\* A payout shown as SUCCESS was paid by some provider, whatever restarts,
\* repeated events, failovers and polls came in between.
SuccessWasPaid ==
    \A r \in Refs : "SUCCESS" \in {memory[r], spend[r]} =>
        \E p \in Providers : payout[r][p] = "paid"

\* Nobody is refunded on a guess: a provider failed the payout, or every
\* provider was tried and none recorded.
RefundIsJustified ==
    \A r \in Refs : Booked("reversal", r) =>
        \/ \E p \in Providers : payout[r][p] = "failed"
        \/ /\ Stage(r) \in {"refund", "done"}
           /\ request[r].tried = Providers
           /\ spend[r] = "NONE"

\* The spend limit is given back only together with the money: until a handler
\* or the API dies on the way, a payout whose limit is free again and that
\* nobody still works on is refunded.
ReleasedIsRefunded ==
    "crash" \notin struck =>
        \A r \in Refs : limitRow[r] = "RELEASED" =>
            \/ Booked("reversal", r)
            \/ Stage(r) \in {"check", "refund"}
            \/ \E h \in Handlers : Busy(h) /\ Ref(h) = r /\ handler[h].stage \in {"check", "refund"}

\* The balance is what the journal says it is: a refund reaches it once,
\* though webhook and reconciler may both come to make it.
BalanceExplained ==
    \A u \in Users : Available(u) =
        Opening[u] + Posted("reversal", u) - Posted("cashout", u)
        - SumFunctionOnSet(Amount, {r \in Refs : /\ Booked("debit", r)
                                                 /\ ~IsCashout(r)
                                                 /\ Payer[r] = u})

\* Every provider that answered "failed" has nothing on record: no answer was
\* lost, and Bachs did not create the payout it failed.
Faithful(r) == \A p \in request[r].tried : payout[r][p] = "none"

\* The row of a payout that is decided is not written again, unless a provider
\* that answered "failed" has the payout too and reports it.
DecidedRowsStay ==
    [][\A r \in Refs : Faithful(r) /\ spend[r] \in {"SUCCESS", "REVERSED"} => spend'[r] = spend[r]]_vars

\* The bank is paid at most once, the user refunded at most once, never both,
\* whatever restarts, throws, comes early or is refused by the database: all
\* it takes is that the providers that answered "failed" have no payout.
Outcome == INSTANCE Settlement WITH
    paid <- [r \in Refs |-> IF Faithful(r)
                             THEN Cardinality({p \in Providers : payout[r][p] = "paid"})
                             ELSE 0],
    refunded <- {r \in Refs : Faithful(r) /\ Booked("reversal", r)}

ImplementsSettlement == Outcome!SettlementSpec

\* Failing over to the next provider stands in for the refund: a payout that
\* some provider paid is not refunded.
PaidIsNotRefunded ==
    \A r \in Refs : Booked("reversal", r) => \A p \in Providers : payout[r][p] # "paid"

\* As long as no fault happens, a payout that the provider that took it failed,
\* or that no provider took, is refunded in the end.  Nothing refunds a cashout
\* that no provider took; and the event of a provider that failed a cashout on
\* record may come before the entry the refund looks for, and uses it up.
EveryFailedPayoutIsRefunded ==
    \A r \in Refs :
        (/\ struck = {}
         /\ \/ /\ memory[r] # "NONE" /\ payout[r][To(r)] = "failed"
               /\ Faithful(r) \/ ~IsCashout(r)
            \/ Stage(r) = "release") ~> (Booked("reversal", r) \/ struck # {})
=============================================================================
