-------------------------- MODULE BankPayoutsProofs --------------------------
(***************************************************************************)
(* What the runs of BankPayouts check on one or two references and two     *)
(* handlers, for every number of them and every set of faults.             *)
(***************************************************************************)
EXTENDS BankPayouts, LedgerStoreProofs

-----------------------------------------------------------------------------
(* Types.                                                                  *)

\* The stages, statuses and kinds the steps name.
LEMMA Names ==
    /\ {"none", "debit", "transfer", "record", "release", "check", "refund", "done"}
         \subseteq RequestStages
    /\ {"confirm", "confirmRow", "reverse", "resume", "markRow", "release", "check", "refund"}
         \subseteq HandlerStages
    /\ {"NONE", "pending", "PENDING", "SUCCESS", "REVERSED"} \subseteq Statuses
    /\ {"debit", "reversal", "cashout"} \subseteq Kinds
    /\ {"bachs", "squad"} = Providers
  BY DEF RequestStages, HandlerStages, Statuses, Kinds, Providers

\* What a busy handler carries.
LEMMA BusyHandler ==
    ASSUME TypeOK, NEW h \in Handlers, Busy(h)
    PROVE  /\ handler[h] \in BusyHandlers
           /\ Ref(h) \in Refs
           /\ handler[h].found \in Statuses
  BY DEF TypeOK, Busy, IdleHandlers, BusyHandlers, Ref

\* A handler that moves on keeps what it carries.
LEMMA GoToHandler ==
    ASSUME TypeOK, NEW h \in Handlers, Busy(h), NEW stage \in HandlerStages, GoTo(h, stage)
    PROVE  /\ handler' \in [Handlers -> BusyHandlers \cup IdleHandlers]
           /\ handler'[h].stage = stage
           /\ handler'[h].ref = handler[h].ref
           /\ \A g \in Handlers : g # h => handler'[g] = handler[g]
  <1>1. handler[h] \in BusyHandlers
    BY BusyHandler
  <1>2. [handler[h] EXCEPT !.stage = stage] \in BusyHandlers
    BY <1>1 DEF BusyHandlers
  <1> QED
    BY <1>1, <1>2 DEF TypeOK, GoTo, BusyHandlers

\* A handler that finishes is idle, and only a poll count is reset.
LEMMA FinishHandler ==
    ASSUME TypeOK, NEW h \in Handlers, Busy(h), Finish(h)
    PROVE  /\ handler' \in [Handlers -> BusyHandlers \cup IdleHandlers]
           /\ handler'[h] = Idle
           /\ \A g \in Handlers : g # h => handler'[g] = handler[g]
           /\ polls' \in [Refs -> Nat]
  <1>1. Idle \in IdleHandlers
    BY DEF Idle, IdleHandlers
  <1> QED
    BY <1>1 DEF TypeOK, Finish

\* A handler that starts knows its reference and how it began.
LEMMA BeginHandler ==
    ASSUME TypeOK, NEW h \in Handlers, NEW r \in Refs, NEW outcome,
           NEW by \in {"webhook", "poll"}, Begin(h, r, outcome, by)
    PROVE  /\ handler' \in [Handlers -> BusyHandlers \cup IdleHandlers]
           /\ handler'[h].stage = IF outcome = "paid" THEN "confirm" ELSE "reverse"
           /\ handler'[h].ref = r
           /\ \A g \in Handlers : g # h => handler'[g] = handler[g]
  <1> DEFINE new == [stage |-> IF outcome = "paid" THEN "confirm" ELSE "reverse",
                     ref |-> r, found |-> "NONE", by |-> by]
  <1>1. new \in BusyHandlers
    BY Names DEF BusyHandlers
  <1>2. handler' = [handler EXCEPT ![h] = new]
    BY DEF Begin
  <1> HIDE DEF new
  <1>3. /\ handler' \in [Handlers -> BusyHandlers \cup IdleHandlers]
        /\ handler'[h] = new
        /\ \A g \in Handlers : g # h => handler'[g] = handler[g]
    BY <1>1, <1>2 DEF TypeOK
  <1> QED
    BY <1>3 DEF new

\* A request that moves on keeps its route and the providers it tried.
LEMMA AdvanceRequest ==
    ASSUME TypeOK, NEW r \in Refs, NEW stage \in RequestStages, Advance(r, stage)
    PROVE  /\ request' \in [Refs -> Requests]
           /\ request'[r].stage = stage
           /\ request'[r].to = request[r].to
           /\ request'[r].tried = request[r].tried
           /\ \A q \in Refs : q # r => request'[q] = request[q]
  <1>1. request[r] \in Requests
    BY DEF TypeOK
  <1>2. [request[r] EXCEPT !.stage = stage] \in Requests
    BY <1>1 DEF Requests
  <1> QED
    BY <1>1, <1>2 DEF TypeOK, Advance, Requests

\* The chain goes to a provider not tried yet, or ends when all were.
LEMMA TryNextRequest ==
    ASSUME TypeOK, NEW r \in Refs, Stage(r) = "transfer", TryNext(r)
    PROVE  /\ request' \in [Refs -> Requests]
           /\ \A q \in Refs : q # r => request'[q] = request[q]
           /\ request'[r].tried = request[r].tried \cup {request[r].to}
           /\ \/ /\ request'[r].stage = "transfer"
                 /\ request'[r].to \notin request'[r].tried
              \/ /\ request'[r].stage \in {"done", "release"}
                 /\ request'[r].tried = Providers
  <1> DEFINE tried == request[r].tried \cup {To(r)}
             left == Providers \ tried
  <1>1. request[r] \in Requests /\ tried \subseteq Providers
    BY DEF TypeOK, Requests, To
  <1>2. CASE left # {}
    <2> DEFINE next == CHOOSE p \in left : TRUE
    <2>1. next \in left
      BY <1>2
    <2> HIDE DEF next
    <2>2. request' = [request EXCEPT ![r].to = next, ![r].tried = tried]
      BY <1>2 DEF TryNext, next
    <2> DEFINE new == [request[r] EXCEPT !.to = next, !.tried = tried]
    <2>3. /\ new \in Requests /\ new.stage = "transfer"
          /\ new.tried = tried /\ new.to = next
      BY <1>1, <2>1 DEF Requests, To, Stage
    <2>4. request' = [request EXCEPT ![r] = new]
      BY <2>2
    <2> QED
      BY <2>1, <2>3, <2>4 DEF TypeOK, To
  <1>3. CASE left = {}
    <2> DEFINE last == IF IsCashout(r) THEN "done" ELSE "release"
               new == [request[r] EXCEPT !.stage = last, !.tried = tried]
    <2>1. request' = [request EXCEPT ![r].stage = last, ![r].tried = tried]
      BY <1>3 DEF TryNext
    <2>2. request' = [request EXCEPT ![r] = new]
      BY <2>1
    <2>3. /\ new \in Requests /\ new.stage = last
          /\ new.tried = tried /\ new.to = request[r].to
      BY <1>1, Names DEF Requests
    <2>4. tried = Providers
      BY <1>1, <1>3
    <2> QED
      BY <2>2, <2>3, <2>4 DEF TypeOK, To
  <1> QED
    BY <1>2, <1>3

\* A provider takes a payout.
LEMMA GiveTypes ==
    ASSUME TypeOK, NEW r \in Refs, Give(r)
    PROVE  payout' \in [Refs -> [Providers -> {"none", "accepted"} \cup Outcomes]]
  BY DEF TypeOK, Give

\* A refund keeps the types of the tables.
LEMMA RefundTypes ==
    ASSUME TypeOK, NEW r \in Refs, Refund(r)
    PROVE  StoreTypeOK'
  <1>1. CASE ReversalAllowed("reversal", r)
    BY <1>1, CreditTypes, Names DEF Refund, TypeOK
  <1>2. CASE ~ReversalAllowed("reversal", r)
    BY <1>2 DEF Refund, TypeOK, StoreTypeOK, storeVars
  <1> QED
    BY <1>1, <1>2

\* Releasing a limit keeps the types of the tables.
LEMMA ReleaseTypes ==
    ASSUME TypeOK, NEW r \in Refs, ReleaseSpendLimit(r)
    PROVE  StoreTypeOK'
  BY DEF ReleaseSpendLimit, TypeOK, StoreTypeOK

\* Every variable keeps its type, whatever the surroundings do.
THEOREM TypeCorrect == Spec => []TypeOK
<1>1. Init => TypeOK
  BY StoreAssumption, Names DEF Init, StoreInit, TypeOK, StoreTypeOK, Requests, Idle, IdleHandlers
<1>2. TypeOK /\ [Next]_vars => TypeOK'
  <2> SUFFICES ASSUME TypeOK, [Next]_vars PROVE TypeOK'
    OBVIOUS
  <2>t. /\ StoreTypeOK
        /\ request \in [Refs -> Requests]
        /\ payout \in [Refs -> [Providers -> {"none", "accepted"} \cup Outcomes]]
        /\ memory \in [Refs -> Statuses]
        /\ spend \in [Refs -> Statuses]
        /\ writes \in [Refs -> SUBSET {"row", "entry"}]
        /\ reserved \subseteq Keys
        /\ handler \in [Handlers -> BusyHandlers \cup IdleHandlers]
        /\ polls \in [Refs -> Nat]
        /\ struck \subseteq Faults
    BY DEF TypeOK
  <2>s. UNCHANGED storeVars => StoreTypeOK'
    BY <2>t DEF storeVars, StoreTypeOK
  <2>1. ASSUME NEW r \in Refs, Request(r)
        PROVE  TypeOK'
    <3>1. PICK route \in {"spend", "cashout"}, active \in Providers :
            request' = [request EXCEPT ![r] = [stage |-> "debit", route |-> route,
                                               to |-> active, tried |-> {}]]
      BY <2>1 DEF Request
    <3>2. [stage |-> "debit", route |-> route, to |-> active, tried |-> {}] \in Requests
      BY Names DEF Requests
    <3> QED
      BY <2>1, <2>s, <2>t, <3>1, <3>2 DEF Request, recordVars, requestVars, TypeOK
  <2>2. ASSUME NEW r \in Refs, Debit(r)
        PROVE  TypeOK'
    <3>1. StoreTypeOK'
      <4>1. CASE DebitTx(r, TRUE)
        BY <2>t, <4>1, DebitTypes
      <4>2. CASE Book("cashout", r, Available(Payer[r]) - Amount[r]) /\ UNCHANGED limitVars
        <5>1. Available(Payer[r]) - Amount[r] \in Int
          BY <2>t, AvailableInt, StoreAssumption
        <5>2. /\ account' \in [Users -> Int \cup {NoRow}]
              /\ journal' \subseteq Kinds \X Refs
              /\ latest' \in [Users -> Int]
          BY <2>t, <4>2, <5>1, BookTypes, Names
        <5> QED
          BY <2>t, <4>2, <5>2 DEF limitVars, StoreTypeOK
      <4> QED
        BY <2>2, <4>1, <4>2 DEF Debit
    <3>2. request' \in [Refs -> Requests]
      BY <2>2, AdvanceRequest, Names DEF Debit
    <3> QED
      BY <2>2, <2>t, <3>1, <3>2 DEF Debit, recordVars, requestVars, TypeOK
  <2>3. ASSUME NEW r \in Refs, DebitRefused(r) \/ CheckFailed(r)
        PROVE  TypeOK'
    <3>1. \E stage \in {"done", "refund"} : Advance(r, stage)
      BY <2>3 DEF DebitRefused, CheckFailed
    <3>2. request' \in [Refs -> Requests]
      BY <3>1, AdvanceRequest, Names
    <3> QED
      BY <2>3, <2>s, <2>t, <3>2 DEF DebitRefused, CheckFailed, recordVars, requestVars, TypeOK
  <2>4. ASSUME NEW r \in Refs, Accepted(r)
        PROVE  TypeOK'
    BY <2>4, <2>s, <2>t, AdvanceRequest, GiveTypes, Names DEF Accepted, recordVars, requestVars, TypeOK
  <2>5. ASSUME NEW r \in Refs, Refused(r) \/ RefusedOnRecord(r) \/ AnswerLost(r)
        PROVE  TypeOK'
    <3>1. request' \in [Refs -> Requests]
      BY <2>5, TryNextRequest DEF Refused, RefusedOnRecord, AnswerLost
    <3>2. payout' \in [Refs -> [Providers -> {"none", "accepted"} \cup Outcomes]]
      BY <2>5, <2>t, GiveTypes DEF Refused, RefusedOnRecord, AnswerLost, Outcomes
    <3> QED
      BY <2>5, <2>s, <2>t, <3>1, <3>2 DEF Refused, RefusedOnRecord, AnswerLost, Strike, recordVars, requestVars, TypeOK
  <2>6. ASSUME NEW r \in Refs, Record(r)
        PROVE  TypeOK'
    BY <2>6, <2>s, <2>t, AdvanceRequest, Names DEF Record, TypeOK
  <2>7. ASSUME NEW r \in Refs, WritesNext(r)
        PROVE  TypeOK'
    <3>1. writes' \in [Refs -> SUBSET {"row", "entry"}] /\ spend' \in [Refs -> Statuses]
      <4>w. writes \in [Refs -> SUBSET {"row", "entry"}] /\ spend \in [Refs -> Statuses]
        BY <2>t
      <4>1. CASE WriteRow(r)
        BY <4>1, <4>w, Names DEF WriteRow
      <4>2. CASE WriteEntry(r)
        BY <4>2, <4>w DEF WriteEntry
      <4>3. CASE WriteFails(r)
        BY <4>3, <4>w DEF WriteFails
      <4> QED
        BY <2>7, <4>1, <4>2, <4>3 DEF WritesNext
    <3>2. StoreTypeOK'
      <4>1. CASE WriteRow(r) \/ WriteFails(r)
        BY <2>s, <4>1 DEF WriteRow, WriteFails
      <4>2. CASE WriteEntry(r)
        <5>1. Available(Payer[r]) \in Int
          BY <2>t, AvailableInt, StoreAssumption
        <5>2. journal' \subseteq Kinds \X Refs
          BY <2>t, <4>2, Names DEF WriteEntry, StoreTypeOK
        <5>3. latest' \in [Users -> Int]
          BY <2>t, <4>2, <5>1 DEF WriteEntry, StoreTypeOK
        <5> QED
          BY <2>t, <4>2, <5>2, <5>3 DEF WriteEntry, limitVars, StoreTypeOK
      <4> QED
        BY <2>7, <4>1, <4>2 DEF WritesNext
    <3> QED
      BY <2>7, <2>t, <3>1, <3>2 DEF WritesNext, WriteRow, WriteEntry, WriteFails, Strike, TypeOK
  <2>8. ASSUME NEW r \in Refs, ReleaseFailed(r)
        PROVE  TypeOK'
    BY <2>8, <2>t, AdvanceRequest, ReleaseTypes, Names DEF ReleaseFailed, recordVars, requestVars, TypeOK
  <2>9. ASSUME NEW r \in Refs, RefundFailed(r)
        PROVE  TypeOK'
    BY <2>9, <2>t, AdvanceRequest, RefundTypes, Names DEF RefundFailed, recordVars, requestVars, TypeOK
  <2>10. ASSUME NEW r \in Refs, NEW p \in Providers, NEW outcome \in Outcomes,
                Settle(r, p, outcome)
         PROVE  TypeOK'
    BY <2>10, <2>s, <2>t DEF Settle, Strike, recordVars, requestVars, TypeOK
  <2>11. ASSUME NEW h \in Handlers, NEW r \in Refs, NEW p \in Providers, Deliver(h, p, r)
         PROVE  TypeOK'
    <3>1. handler' \in [Handlers -> BusyHandlers \cup IdleHandlers]
      BY <2>11, BeginHandler DEF Deliver
    <3>2. Key(p, r, payout[r][p]) \in Keys
      BY <2>11 DEF Deliver, Key, Keys
    <3> QED
      BY <2>11, <2>s, <2>t, <3>1, <3>2 DEF Deliver, otherVars, handlerVars, TypeOK
  <2>12. ASSUME NEW h \in Handlers, NEW r \in Refs, Poll(h, r)
         PROVE  TypeOK'
    <3>1. handler' \in [Handlers -> BusyHandlers \cup IdleHandlers]
      BY <2>12, <2>t, BeginHandler DEF Poll
    <3> QED
      BY <2>12, <2>s, <2>t, <3>1 DEF Poll, otherVars, handlerVars, TypeOK
  <2>13. ASSUME NEW h \in Handlers, HandlerNext(h)
         PROVE  TypeOK'
    <3>b. Busy(h) /\ Ref(h) \in Refs /\ handler[h].found \in Statuses
      <4>1. Busy(h)
        BY <2>13 DEF HandlerNext, In, Confirm, ConfirmRow, ReverseKnown, ReverseLookup,
             ReverseResume, MarkRow, ReleaseReversed, CheckReversed, RefundReversed
      <4> QED
        BY <4>1, BusyHandler
    <3>1. CASE Confirm(h)
      BY <2>s, <2>t, <3>b, <3>1, GoToHandler, Names DEF Confirm, otherVars, handlerVars, TypeOK
    <3>8. CASE MarkRow(h)
      BY <2>s, <2>t, <3>b, <3>8, GoToHandler, Names DEF MarkRow, MarkSpend, Strike, otherVars, handlerVars, TypeOK
    <3>2. CASE ConfirmRow(h)
      BY <2>s, <2>t, <3>b, <3>2, FinishHandler, Names DEF ConfirmRow, MarkSpend, Strike, otherVars, handlerVars, TypeOK
    <3>3. CASE ReverseKnown(h) \/ ReverseResume(h)
      <4>1. /\ handler' \in [Handlers -> BusyHandlers \cup IdleHandlers]
            /\ polls' \in [Refs -> Nat]
        <5>1. Finish(h) \/ (GoTo(h, "markRow") /\ UNCHANGED polls)
          BY <3>3 DEF ReverseKnown, ReverseResume
        <5> QED
          BY <2>t, <3>b, <5>1, FinishHandler, GoToHandler, Names
      <4>2. memory' \in [Refs -> Statuses]
        BY <2>t, <3>b, <3>3, Names DEF ReverseKnown, ReverseResume
      <4> QED
        BY <2>s, <2>t, <3>3, <4>1, <4>2 DEF ReverseKnown, ReverseResume, otherVars, handlerVars, TypeOK
    <3>4. CASE ReverseLookup(h)
      <4> DEFINE new == [handler[h] EXCEPT !.stage = "resume", !.found = spend[Ref(h)]]
      <4>1. new \in BusyHandlers
        BY <2>t, <3>b, BusyHandler, Names DEF BusyHandlers
      <4>2. handler' = [handler EXCEPT ![h] = new]
        BY <3>4 DEF ReverseLookup
      <4> QED
        BY <2>s, <2>t, <3>4, <4>1, <4>2 DEF ReverseLookup, otherVars, handlerVars, TypeOK
    <3>5. CASE ReleaseReversed(h)
      BY <2>t, <3>b, <3>5, GoToHandler, ReleaseTypes, Names DEF ReleaseReversed, otherVars, handlerVars, TypeOK
    <3>6. CASE CheckReversed(h)
      <4>1. Finish(h) \/ (GoTo(h, "refund") /\ UNCHANGED polls)
        BY <3>6 DEF CheckReversed
      <4>2. /\ handler' \in [Handlers -> BusyHandlers \cup IdleHandlers]
            /\ polls' \in [Refs -> Nat]
        BY <2>t, <3>b, <4>1, FinishHandler, GoToHandler, Names
      <4> QED
        BY <2>s, <2>t, <3>6, <4>2 DEF CheckReversed, otherVars, handlerVars, TypeOK
    <3>7. CASE RefundReversed(h)
      BY <2>t, <3>b, <3>7, FinishHandler, RefundTypes DEF RefundReversed, otherVars, handlerVars, TypeOK
    <3> QED
      BY <2>13, <3>1, <3>2, <3>3, <3>4, <3>5, <3>6, <3>7, <3>8 DEF HandlerNext
  <2>14. ASSUME NEW h \in Handlers, HandlerThrows(h)
         PROVE  TypeOK'
    BY <2>14, <2>s, <2>t DEF HandlerThrows, Strike, Idle, IdleHandlers, otherVars, handlerVars, TypeOK
  <2>15. CASE Restart
    <3>1. ASSUME NEW r \in Refs
          PROVE  [request[r] EXCEPT !.stage = "done"] \in Requests
      <4>1. request[r] \in Requests
        BY <2>t
      <4> QED
        BY <4>1, Names DEF Requests
    <3>2. request' \in [Refs -> Requests]
      BY <2>15, <2>t, <3>1 DEF Restart
    <3> QED
      BY <2>15, <2>s, <2>t, <3>2, Names DEF Restart, Strike, Idle, IdleHandlers, TypeOK
  <2>16. CASE UNCHANGED vars
    BY <2>16, <2>s, <2>t DEF vars, storeVars, TypeOK
  <2> QED
    BY <2>1, <2>2, <2>3, <2>4, <2>5, <2>6, <2>7, <2>8, <2>9, <2>10, <2>11, <2>12, <2>13,
       <2>14, <2>15, <2>16 DEF Next, RequestNext
<1> QED
  BY <1>1, <1>2, PTL DEF Spec

-----------------------------------------------------------------------------
(* What a handler acts on.                                                 *)

PaidOut(r) == \E p \in Providers : payout[r][p] = "paid"
FailedOut(r) == \E p \in Providers : payout[r][p] = "failed"

\* A handler that confirms was told "paid" by a provider, and one that reverses
\* was told "failed"; a provider does not take its word back.
WordInv ==
    \A h \in Handlers : Busy(h) =>
        IF handler[h].stage \in {"confirm", "confirmRow"} THEN PaidOut(Ref(h))
        ELSE FailedOut(Ref(h))

\* A provider's outcome stays.
LEMMA OutcomeStays ==
    ASSUME TypeOK, [Next]_vars
    PROVE  \A r \in Refs, p \in Providers :
             payout[r][p] \in Outcomes => payout'[r][p] = payout[r][p]
  <1> SUFFICES ASSUME NEW r \in Refs, NEW p \in Providers, payout[r][p] \in Outcomes
               PROVE  payout'[r][p] = payout[r][p]
    OBVIOUS
  <1>t. /\ payout \in [Refs -> [Providers -> {"none", "accepted"} \cup Outcomes]]
        /\ payout[r][p] \notin {"none", "accepted"}
    BY DEF TypeOK, Outcomes
  <1>1. ASSUME NEW q \in Refs, Give(q)
        PROVE  payout'[r][p] = payout[r][p]
    BY <1>1, <1>t DEF Give
  <1>2. ASSUME NEW q \in Refs, NEW o \in Providers, NEW outcome \in Outcomes, Settle(q, o, outcome)
        PROVE  payout'[r][p] = payout[r][p]
    BY <1>2, <1>t DEF Settle
  <1>3. ASSUME NEW q \in Refs, RefusedOnRecord(q)
        PROVE  payout'[r][p] = payout[r][p]
    BY <1>3, <1>t DEF RefusedOnRecord
  <1>4. \/ \E q \in Refs : Give(q) \/ RefusedOnRecord(q)
        \/ \E q \in Refs, o \in Providers, outcome \in Outcomes : Settle(q, o, outcome)
        \/ UNCHANGED payout
    BY DEF Next, RequestNext, WritesNext, HandlerNext, Request, Debit, DebitRefused, Accepted,
       Refused, AnswerLost, Record, ReleaseFailed, CheckFailed, RefundFailed, WriteRow, WriteEntry,
       WriteFails, Poll, Deliver, Confirm, ConfirmRow, ReverseKnown, ReverseLookup, ReverseResume,
       MarkRow, ReleaseReversed, CheckReversed, RefundReversed, HandlerThrows, Restart,
       recordVars, requestVars, otherVars, handlerVars, vars
  <1> QED
    BY <1>1, <1>2, <1>3, <1>4

\* Where a handler comes from: a provider's word, or its own stage before.
LEMMA HandlerSteps ==
    ASSUME TypeOK, [Next]_vars, NEW h \in Handlers, Busy(h)'
    PROVE  \/ /\ Busy(h)
              /\ Ref(h)' = Ref(h)
              /\ \/ handler'[h].stage = handler[h].stage
                 \/ handler[h].stage = "confirm" /\ handler'[h].stage = "confirmRow"
                 \/ /\ handler[h].stage \notin {"confirm", "confirmRow"}
                    /\ handler'[h].stage \notin {"confirm", "confirmRow"}
           \/ \E r \in Refs :
                /\ Ref(h)' = r
                /\ \/ handler'[h].stage = "confirm" /\ PaidOut(r)
                   \/ handler'[h].stage = "reverse" /\ FailedOut(r)
  <1>1. CASE UNCHANGED handler
    BY <1>1 DEF Busy, Ref
  <1>2. ASSUME NEW g \in Handlers, NEW r \in Refs, NEW outcome \in Outcomes,
               NEW by \in {"webhook", "poll"}, Begin(g, r, outcome, by),
               (outcome = "paid" /\ PaidOut(r)) \/ (outcome = "failed" /\ FailedOut(r))
        PROVE  \/ handler'[h] = handler[h]
               \/ \E q \in Refs :
                    /\ Ref(h)' = q
                    /\ \/ handler'[h].stage = "confirm" /\ PaidOut(q)
                       \/ handler'[h].stage = "reverse" /\ FailedOut(q)
    BY <1>2, BeginHandler DEF Ref
  <1>3. ASSUME NEW g \in Handlers, NEW r \in Refs, NEW p \in Providers, Deliver(g, p, r)
        PROVE  \E outcome \in Outcomes, by \in {"webhook", "poll"} :
                 /\ Begin(g, r, outcome, by)
                 /\ (outcome = "paid" /\ PaidOut(r)) \/ (outcome = "failed" /\ FailedOut(r))
    BY <1>3 DEF Deliver, Outcomes, PaidOut, FailedOut
  <1>4. ASSUME NEW g \in Handlers, NEW r \in Refs, Poll(g, r), ~UNCHANGED handler
        PROVE  \E outcome \in Outcomes, by \in {"webhook", "poll"} :
                 /\ Begin(g, r, outcome, by)
                 /\ (outcome = "paid" /\ PaidOut(r)) \/ (outcome = "failed" /\ FailedOut(r))
    <2>1. Says(r, To(r)) \in Outcomes /\ Begin(g, r, Says(r, To(r)), "poll")
      BY <1>4 DEF Poll
    <2>2. Says(r, To(r)) = payout[r][To(r)] /\ To(r) \in Providers
      BY <2>1 DEF Says, Outcomes, TypeOK, Requests, To
    <2> QED
      BY <2>1, <2>2 DEF Outcomes, PaidOut, FailedOut
  <1>5. ASSUME NEW g \in Handlers, HandlerNext(g)
        PROVE  \/ handler'[h] = handler[h]
               \/ /\ Busy(h) /\ handler'[h].ref = handler[h].ref
                  /\ \/ handler[h].stage = "confirm" /\ handler'[h].stage = "confirmRow"
                     \/ /\ handler[h].stage \notin {"confirm", "confirmRow"}
                        /\ handler'[h].stage \notin {"confirm", "confirmRow"}
    <2>b. Busy(g)
      BY <1>5 DEF HandlerNext, In, Confirm, ConfirmRow, ReverseKnown, ReverseLookup,
           ReverseResume, MarkRow, ReleaseReversed, CheckReversed, RefundReversed
    <2>1. CASE Finish(g)
      BY <2>1, <2>b, FinishHandler DEF Busy, Idle
    <2>2. ASSUME NEW stage \in HandlerStages, GoTo(g, stage),
                 \/ handler[g].stage = "confirm" /\ stage = "confirmRow"
                 \/ /\ handler[g].stage \notin {"confirm", "confirmRow"}
                    /\ stage \notin {"confirm", "confirmRow"}
          PROVE  \/ handler'[h] = handler[h]
                 \/ /\ Busy(h) /\ handler'[h].ref = handler[h].ref
                    /\ \/ handler[h].stage = "confirm" /\ handler'[h].stage = "confirmRow"
                       \/ /\ handler[h].stage \notin {"confirm", "confirmRow"}
                          /\ handler'[h].stage \notin {"confirm", "confirmRow"}
      BY <2>2, <2>b, GoToHandler
    <2>3. CASE ReverseLookup(g)
      <3>1. handler[g] \in BusyHandlers
        BY <2>b, BusyHandler
      <3>2. handler' = [handler EXCEPT
              ![g] = [handler[g] EXCEPT !.stage = "resume", !.found = spend[Ref(g)]]]
        BY <2>3 DEF ReverseLookup
      <3> QED
        BY <2>3, <2>b, <3>1, <3>2 DEF ReverseLookup, In, BusyHandlers, TypeOK
    <2>4. \/ Finish(g)
          \/ ReverseLookup(g)
          \/ handler[g].stage = "confirm" /\ GoTo(g, "confirmRow")
          \/ \E stage \in {"markRow", "release", "check", "refund"} :
               /\ handler[g].stage \notin {"confirm", "confirmRow"}
               /\ GoTo(g, stage)
      BY <1>5 DEF HandlerNext, In, Confirm, ConfirmRow, ReverseKnown, ReverseResume,
         MarkRow, ReleaseReversed, CheckReversed, RefundReversed
    <2> QED
      BY <2>1, <2>2, <2>3, <2>4, Names
  <1>6. CASE Restart \/ \E g \in Handlers : HandlerThrows(g)
    BY <1>6 DEF Restart, HandlerThrows, Busy, Ref, Idle, TypeOK
  <1>7. \/ UNCHANGED handler
        \/ \E g \in Handlers, r \in Refs : Poll(g, r) \/ \E p \in Providers : Deliver(g, p, r)
        \/ \E g \in Handlers : HandlerNext(g) \/ HandlerThrows(g)
        \/ Restart
    BY DEF Next, RequestNext, WritesNext, Request, Debit, DebitRefused, Accepted, Refused, RefusedOnRecord,
       AnswerLost, Record, ReleaseFailed, CheckFailed, RefundFailed, WriteRow, WriteEntry,
       WriteFails, Settle, recordVars, requestVars, vars
  <1> QED
    BY <1>1, <1>2, <1>3, <1>4, <1>5, <1>6, <1>7 DEF Busy, Ref

\* The inductive step of WordInv.
LEMMA WordStep ==
    ASSUME TypeOK, WordInv, [Next]_vars
    PROVE  WordInv'
  <1> SUFFICES ASSUME NEW h \in Handlers, Busy(h)'
               PROVE  IF handler'[h].stage \in {"confirm", "confirmRow"} THEN PaidOut(Ref(h))'
                      ELSE FailedOut(Ref(h))'
    BY DEF WordInv
  <1>1. PICK r \in Refs :
          /\ Ref(h)' = r
          /\ IF handler'[h].stage \in {"confirm", "confirmRow"} THEN PaidOut(r) ELSE FailedOut(r)
    <2>1. CASE Busy(h) /\ Ref(h)' = Ref(h)
      BY <2>1, HandlerSteps, BusyHandler DEF WordInv
    <2> QED
      BY <2>1, HandlerSteps
  <1>2. /\ PaidOut(r) => \E p \in Providers : payout'[r][p] = "paid"
        /\ FailedOut(r) => \E p \in Providers : payout'[r][p] = "failed"
    BY OutcomeStays DEF PaidOut, FailedOut, Outcomes
  <1> QED
    BY <1>1, <1>2 DEF PaidOut, FailedOut

-----------------------------------------------------------------------------
(* SUCCESS.                                                                *)

\* Only a handler that confirms writes SUCCESS.
LEMMA SuccessSteps ==
    ASSUME TypeOK, [Next]_vars, NEW r \in Refs, "SUCCESS" \in {memory'[r], spend'[r]}
    PROVE  \/ "SUCCESS" \in {memory[r], spend[r]}
           \/ \E h \in Handlers : /\ Busy(h) /\ Ref(h) = r
                                   /\ handler[h].stage \in {"confirm", "confirmRow"}
  <1>t. memory \in [Refs -> Statuses] /\ spend \in [Refs -> Statuses]
    BY DEF TypeOK
  <1>1. ASSUME NEW q \in Refs, Record(q) \/ WriteRow(q)
        PROVE  "SUCCESS" \in {memory[r], spend[r]}
    BY <1>1, <1>t DEF Record, WriteRow
  <1>2. ASSUME NEW h \in Handlers, Confirm(h)
        PROVE  \/ "SUCCESS" \in {memory[r], spend[r]}
               \/ Busy(h) /\ Ref(h) = r /\ handler[h].stage = "confirm"
    BY <1>2, <1>t DEF Confirm, In
  <1>3. ASSUME NEW h \in Handlers, ConfirmRow(h)
        PROVE  \/ "SUCCESS" \in {memory[r], spend[r]}
               \/ Busy(h) /\ Ref(h) = r /\ handler[h].stage = "confirmRow"
    BY <1>3, <1>t DEF ConfirmRow, MarkSpend, In
  <1>4. ASSUME NEW h \in Handlers, ReverseKnown(h) \/ ReverseResume(h) \/ MarkRow(h)
        PROVE  "SUCCESS" \in {memory[r], spend[r]}
    BY <1>4, <1>t DEF ReverseKnown, ReverseResume, MarkRow, MarkSpend
  <1>5. CASE Restart
    BY <1>5 DEF Restart
  <1>6. \/ UNCHANGED <<memory, spend>>
        \/ \E q \in Refs : Record(q) \/ WriteRow(q)
        \/ \E h \in Handlers : Confirm(h) \/ ConfirmRow(h) \/ ReverseKnown(h)
                                \/ ReverseResume(h) \/ MarkRow(h)
        \/ Restart
    BY DEF Next, RequestNext, WritesNext, HandlerNext, Request, Debit, DebitRefused, Accepted,
       Refused, RefusedOnRecord, AnswerLost, ReleaseFailed, CheckFailed, RefundFailed, WriteEntry, WriteFails,
       Settle, Poll, Deliver, ReverseLookup, ReleaseReversed, CheckReversed, RefundReversed,
       HandlerThrows, recordVars, requestVars, otherVars, handlerVars, vars
  <1> QED
    BY <1>1, <1>2, <1>3, <1>4, <1>5, <1>6

\* A payout recorded as SUCCESS was paid by a provider, whatever crashes, lost
\* answers, early webhooks and refused writes the API meets: no failover,
\* repeated event, poll or restart turns a guess into a SUCCESS.
THEOREM SuccessfulPayoutsArePaid == Spec => []SuccessWasPaid
<1>1. Init => WordInv /\ SuccessWasPaid
  BY DEF Init, Idle, Busy, WordInv, SuccessWasPaid
<1>2. TypeOK /\ WordInv /\ SuccessWasPaid /\ [Next]_vars => WordInv' /\ SuccessWasPaid'
  <2> SUFFICES ASSUME TypeOK, WordInv, SuccessWasPaid, [Next]_vars
               PROVE  WordInv' /\ SuccessWasPaid'
    OBVIOUS
  <2>1. WordInv'
    BY WordStep
  <2>2. ASSUME NEW r \in Refs, "SUCCESS" \in {memory'[r], spend'[r]}
        PROVE  \E p \in Providers : payout'[r][p] = "paid"
    <3>1. PaidOut(r)
      BY <2>2, SuccessSteps DEF SuccessWasPaid, WordInv, PaidOut
    <3> QED
      BY <3>1, OutcomeStays DEF PaidOut, Outcomes
  <2> QED
    BY <2>1, <2>2 DEF SuccessWasPaid
<1> QED
  BY <1>1, <1>2, TypeCorrect, PTL DEF Spec

-----------------------------------------------------------------------------
(* Refunds.                                                                *)

AllTried(r) == request[r].tried = Providers

Unrecorded(r) == writes[r] = {} /\ spend[r] = "NONE"

\* Nothing is recorded before the request is done; spendToBank gives up only
\* when all providers were tried; and a refund without a provider's "failed"
\* belongs to a request that gave up, so that nothing will be recorded later.
RefundInv ==
    \A r \in Refs :
      /\ Stage(r) # "done" => Unrecorded(r)
      /\ Stage(r) \in {"release", "check", "refund"} => AllTried(r)
      /\ Booked("reversal", r) =>
            FailedOut(r) \/ (Stage(r) = "done" /\ AllTried(r) /\ Unrecorded(r))

\* Where a request goes.
LEMMA RequestSteps ==
    ASSUME TypeOK, [Next]_vars, NEW r \in Refs
    PROVE  \/ request'[r] = request[r]
           \/ /\ Stage(r) \notin {"release", "check", "refund", "done"}
              /\ Stage(r)' \notin {"release", "check", "refund"}
           \/ Stage(r) = "transfer" /\ AllTried(r)'
           \/ /\ Stage(r)' = "done" \/ Stage(r) # "done"
              /\ AllTried(r)' = AllTried(r)
              /\ Stage(r)' \in {"check", "refund"} => Stage(r) \in {"release", "check"}
              /\ Stage(r)' \in {"check", "refund", "done"}
  <1>1. CASE Request(r)
    BY <1>1 DEF Request, Stage, TypeOK
  <1>2. ASSUME NEW stage \in RequestStages, Advance(r, stage),
               \/ /\ Stage(r) \notin {"release", "check", "refund", "done"}
                  /\ stage \notin {"release", "check", "refund"}
               \/ Stage(r) = "release" /\ stage = "check"
               \/ Stage(r) = "check" /\ stage \in {"refund", "done"}
               \/ Stage(r) = "refund" /\ stage = "done"
        PROVE  \/ /\ Stage(r) \notin {"release", "check", "refund", "done"}
                  /\ Stage(r)' \notin {"release", "check", "refund"}
               \/ /\ Stage(r)' = "done" \/ Stage(r) # "done"
                  /\ AllTried(r)' = AllTried(r)
                  /\ Stage(r)' \in {"check", "refund"} => Stage(r) \in {"release", "check"}
                  /\ Stage(r)' \in {"check", "refund", "done"}
    <2>1. /\ request'[r].stage = stage
          /\ request'[r].to = request[r].to
          /\ request'[r].tried = request[r].tried
      BY <1>2, AdvanceRequest
    <2> QED
      BY <1>2, <2>1 DEF Stage, AllTried, To
  <1>3. CASE Refused(r) \/ RefusedOnRecord(r) \/ AnswerLost(r)
    BY <1>3, TryNextRequest DEF Refused, RefusedOnRecord, AnswerLost, Stage, AllTried, To
  <1>4. CASE Restart
    <2>1. request[r] \in Requests
      BY DEF TypeOK
    <2>2. request'[r] = request[r] \/ request'[r] = [request[r] EXCEPT !.stage = "done"]
      BY <1>4 DEF Restart
    <2> QED
      BY <2>1, <2>2 DEF Requests, Stage, AllTried, To
  <1>5. ASSUME NEW q \in Refs, q # r, Request(q) \/ RequestNext(q)
        PROVE  request'[r] = request[r]
    <2>1. CASE Refused(q) \/ RefusedOnRecord(q) \/ AnswerLost(q)
      BY <1>5, <2>1, TryNextRequest DEF Refused, RefusedOnRecord, AnswerLost
    <2>2. CASE ~(Refused(q) \/ RefusedOnRecord(q) \/ AnswerLost(q))
      BY <1>5, <2>2 DEF RequestNext, Advance, Request, Debit, DebitRefused, Accepted, Record,
         ReleaseFailed, CheckFailed, RefundFailed, TypeOK
    <2> QED
      BY <2>1, <2>2
  <1>6. RequestNext(r) =>
          \/ Refused(r) \/ RefusedOnRecord(r) \/ AnswerLost(r)
          \/ \E stage \in RequestStages :
                /\ Advance(r, stage)
                /\ \/ /\ Stage(r) \notin {"release", "check", "refund", "done"}
                      /\ stage \notin {"release", "check", "refund"}
                   \/ Stage(r) = "release" /\ stage = "check"
                   \/ Stage(r) = "check" /\ stage \in {"refund", "done"}
                   \/ Stage(r) = "refund" /\ stage = "done"
    BY Names DEF RequestNext, Debit, DebitRefused, Accepted, Record, ReleaseFailed, CheckFailed,
       RefundFailed
  <1>7. \/ UNCHANGED request
        \/ \E q \in Refs : Request(q) \/ RequestNext(q)
        \/ Restart
    BY DEF Next, WritesNext, HandlerNext, WriteRow, WriteEntry, WriteFails, Settle, Poll, Deliver,
       Confirm, ConfirmRow, ReverseKnown, ReverseLookup, ReverseResume, MarkRow, ReleaseReversed,
       CheckReversed, RefundReversed, HandlerThrows, recordVars, requestVars, otherVars, handlerVars, vars
  <1> QED
    BY <1>1, <1>2, <1>3, <1>4, <1>5, <1>6, <1>7

\* A payout without a record gets one from recordSpend only.
LEMMA RecordSteps ==
    ASSUME TypeOK, [Next]_vars, NEW r \in Refs, Unrecorded(r)
    PROVE  Unrecorded(r)' \/ (Stage(r) = "record" /\ Stage(r)' = "done")
  <1>t. writes \in [Refs -> SUBSET {"row", "entry"}] /\ spend \in [Refs -> Statuses]
    BY DEF TypeOK
  <1>1. CASE Record(r)
    BY <1>1, AdvanceRequest, Names DEF Record, Stage
  <1>2. ASSUME NEW q \in Refs, q # r, Record(q)
        PROVE  Unrecorded(r)'
    BY <1>2, <1>t DEF Record, Unrecorded
  <1>3. ASSUME NEW q \in Refs, WritesNext(q)
        PROVE  Unrecorded(r)'
    BY <1>3, <1>t DEF WritesNext, WriteRow, WriteEntry, WriteFails, Unrecorded
  <1>4. ASSUME NEW h \in Handlers, ConfirmRow(h) \/ MarkRow(h)
        PROVE  Unrecorded(r)'
    BY <1>4, <1>t DEF ConfirmRow, MarkRow, MarkSpend, otherVars, handlerVars, Unrecorded
  <1>5. CASE Restart
    BY <1>5 DEF Restart, Unrecorded
  <1>6. \/ UNCHANGED <<writes, spend>>
        \/ \E q \in Refs : Record(q) \/ WritesNext(q)
        \/ \E h \in Handlers : ConfirmRow(h) \/ MarkRow(h)
        \/ Restart
    BY DEF Next, RequestNext, HandlerNext, Request, Debit, DebitRefused, Accepted, Refused, RefusedOnRecord,
       AnswerLost, ReleaseFailed, CheckFailed, RefundFailed, Settle, Poll, Deliver, Confirm,
       ReverseKnown, ReverseLookup, ReverseResume, ReleaseReversed, CheckReversed,
       RefundReversed, HandlerThrows, recordVars, requestVars, otherVars, handlerVars, vars
  <1> QED
    BY <1>1, <1>2, <1>3, <1>4, <1>5, <1>6 DEF Unrecorded

\* The two places that book a refund.
LEMMA RefundSteps ==
    ASSUME TypeOK, [Next]_vars, NEW r \in Refs, Booked("reversal", r)'
    PROVE  \/ Booked("reversal", r)
           \/ Stage(r) = "refund" /\ Stage(r)' = "done"
           \/ \E h \in Handlers : Busy(h) /\ Ref(h) = r /\ handler[h].stage = "refund"
  <1>1. ASSUME NEW q \in Refs, Refund(q)
        PROVE  Booked("reversal", r) \/ q = r
    BY <1>1 DEF Refund, CreditTx, Book, Booked, storeVars
  <1>2. ASSUME NEW q \in Refs, RefundFailed(q)
        PROVE  Booked("reversal", r) \/ (Stage(r) = "refund" /\ Stage(r)' = "done")
    BY <1>1, <1>2, AdvanceRequest, Names DEF RefundFailed, Stage
  <1>3. ASSUME NEW h \in Handlers, RefundReversed(h)
        PROVE  Booked("reversal", r) \/ (Busy(h) /\ Ref(h) = r /\ handler[h].stage = "refund")
    BY <1>1, <1>3, BusyHandler DEF RefundReversed, In
  <1>4. ASSUME NEW q \in Refs, Debit(q) \/ WriteEntry(q)
        PROVE  Booked("reversal", r)
    <2>1. \E kind \in {"debit", "cashout"} : journal' = journal \cup {<<kind, q>>}
      BY <1>4 DEF Debit, DebitTx, Book, WriteEntry
    <2> QED
      BY <2>1 DEF Booked
  <1>5. \/ UNCHANGED journal
        \/ \E q \in Refs : RefundFailed(q) \/ Debit(q) \/ WriteEntry(q)
        \/ \E h \in Handlers : RefundReversed(h)
    BY DEF Next, RequestNext, WritesNext, HandlerNext, Request, DebitRefused, Accepted, Refused, RefusedOnRecord,
       AnswerLost, Record, ReleaseFailed, ReleaseSpendLimit, CheckFailed, WriteRow, WriteFails,
       Settle, Poll, Deliver, Confirm, ConfirmRow, ReverseKnown, ReverseLookup, ReverseResume,
       MarkRow, ReleaseReversed, CheckReversed, HandlerThrows, Restart, storeVars, vars
  <1> QED
    BY <1>2, <1>3, <1>4, <1>5 DEF Booked

\* The inductive step of RefundInv.
LEMMA RefundStep ==
    ASSUME TypeOK, WordInv, RefundInv, [Next]_vars
    PROVE  RefundInv'
  <1> SUFFICES ASSUME NEW r \in Refs
               PROVE  /\ Stage(r)' # "done" => Unrecorded(r)'
                      /\ Stage(r)' \in {"release", "check", "refund"} => AllTried(r)'
                      /\ Booked("reversal", r)' =>
                            FailedOut(r)' \/ (Stage(r)' = "done" /\ AllTried(r)' /\ Unrecorded(r)')
    BY DEF RefundInv
  <1>i. /\ Stage(r) # "done" => Unrecorded(r)
        /\ Stage(r) \in {"release", "check", "refund"} => AllTried(r)
        /\ Booked("reversal", r) =>
              FailedOut(r) \/ (Stage(r) = "done" /\ AllTried(r) /\ Unrecorded(r))
    BY DEF RefundInv
  <1>s. request'[r] = request[r] => Stage(r)' = Stage(r) /\ AllTried(r)' = AllTried(r)
    BY DEF Stage, AllTried, To
  <1>1. Stage(r)' # "done" => Unrecorded(r)'
    BY <1>i, <1>s, RequestSteps, RecordSteps
  <1>2. Stage(r)' \in {"release", "check", "refund"} => AllTried(r)'
    BY <1>i, <1>s, RequestSteps
  <1>3. ASSUME Booked("reversal", r)'
        PROVE  FailedOut(r)' \/ (Stage(r)' = "done" /\ AllTried(r)' /\ Unrecorded(r)')
    <2>1. CASE FailedOut(r)
      BY <2>1, OutcomeStays DEF FailedOut, Outcomes
    <2>2. CASE Booked("reversal", r) /\ ~FailedOut(r)
      BY <1>i, <1>s, <2>2, RequestSteps, RecordSteps
    <2>3. CASE Stage(r) = "refund" /\ Stage(r)' = "done"
      BY <1>i, <1>s, <2>3, RequestSteps, RecordSteps
    <2>4. CASE \E h \in Handlers : Busy(h) /\ Ref(h) = r /\ handler[h].stage = "refund"
      BY <2>1, <2>4 DEF WordInv, FailedOut
    <2> QED
      BY <1>3, <2>1, <2>2, <2>3, <2>4, RefundSteps
  <1> QED
    BY <1>1, <1>2, <1>3

\* Nobody is refunded on a guess, whatever faults the API meets: a refund
\* follows a provider's "failed", or the end of the whole failover chain with
\* nothing recorded that a webhook could refund again.
THEOREM RefundsAreJustified == Spec => []RefundIsJustified
<1>1. Init => WordInv /\ RefundInv
  BY DEF Init, StoreInit, Idle, Busy, Booked, Stage, Unrecorded, WordInv, RefundInv
<1>2. TypeOK /\ WordInv /\ RefundInv /\ [Next]_vars => WordInv' /\ RefundInv'
  BY WordStep, RefundStep
<1>3. RefundInv => RefundIsJustified
  BY DEF RefundInv, RefundIsJustified, FailedOut, AllTried, Unrecorded
<1> QED
  BY <1>1, <1>2, <1>3, TypeCorrect, PTL DEF Spec

-----------------------------------------------------------------------------
(* The spend limit.                                                        *)

\* A limit entry belongs to a debit, and once it is given back a refund is
\* booked or on its way, unless what was on its way died.
ReleaseInv ==
    /\ \A r \in Refs : limitRow[r] # "NONE" => Booked("debit", r)
    /\ ReleasedIsRefunded

\* On its way to the refund: the request or a handler has released the limit.
Refunding(r) ==
    \/ Stage(r) \in {"check", "refund"}
    \/ \E h \in Handlers : Busy(h) /\ Ref(h) = r /\ handler[h].stage \in {"check", "refund"}

\* What is booked stays, and a limit entry comes with its debit.
LEMMA BookedStays ==
    ASSUME TypeOK, [Next]_vars
    PROVE  /\ journal \subseteq journal'
           /\ \A r \in Refs : limitRow'[r] # "NONE" => limitRow[r] # "NONE" \/ Booked("debit", r)'
  <1>t. limitRow \in [Refs -> {"NONE", "APPLIED", "RELEASED"}]
    BY DEF TypeOK, StoreTypeOK
  <1>1. ASSUME NEW q \in Refs, Debit(q)
        PROVE  /\ journal \subseteq journal'
               /\ \A r \in Refs : limitRow'[r] # "NONE" => limitRow[r] # "NONE" \/ Booked("debit", r)'
    BY <1>1, <1>t DEF Debit, DebitTx, Book, Booked, limitVars
  <1>2. ASSUME NEW q \in Refs, ReleaseSpendLimit(q)
        PROVE  /\ journal \subseteq journal'
               /\ \A r \in Refs : limitRow'[r] # "NONE" => limitRow[r] # "NONE" \/ Booked("debit", r)'
    BY <1>2, <1>t DEF ReleaseSpendLimit
  <1>3. \/ \E q \in Refs : Debit(q) \/ ReleaseSpendLimit(q)
        \/ UNCHANGED limitRow /\ journal \subseteq journal'
    <2>1. ASSUME NEW q \in Refs, Refund(q)
          PROVE  UNCHANGED limitRow /\ journal \subseteq journal'
      BY <2>1 DEF Refund, CreditTx, Book, storeVars, limitVars
    <2>2. ASSUME NEW h \in Handlers, ReleaseReversed(h)
          PROVE  \E q \in Refs : ReleaseSpendLimit(q)
      BY <2>2, BusyHandler DEF ReleaseReversed, In
    <2>3. ASSUME NEW h \in Handlers, RefundReversed(h)
          PROVE  \E q \in Refs : Refund(q)
      BY <2>3, BusyHandler DEF RefundReversed, In
    <2> QED
      BY <2>1, <2>2, <2>3
      DEF Next, RequestNext, WritesNext, HandlerNext, Request, DebitRefused, Accepted, Refused, RefusedOnRecord,
          AnswerLost, Record, ReleaseFailed, CheckFailed, RefundFailed, WriteRow, WriteEntry,
          WriteFails, Settle, Poll, Deliver, Confirm, ConfirmRow, ReverseKnown, ReverseLookup,
          ReverseResume, MarkRow, CheckReversed, HandlerThrows, Restart, storeVars, limitVars, vars
  <1> QED
    BY <1>1, <1>2, <1>3

\* A limit is given back on the way to a refund, and nobody leaves that way
\* without one, unless a handler or the API dies.
LEMMA ReleaseSteps ==
    ASSUME TypeOK, [Next]_vars, "crash" \notin struck', NEW r \in Refs, limitRow'[r] = "RELEASED",
           \/ limitRow[r] # "RELEASED"
           \/ Refunding(r) /\ Booked("debit", r)
    PROVE  Booked("reversal", r)' \/ Refunding(r)'
  <1>t. /\ limitRow \in [Refs -> {"NONE", "APPLIED", "RELEASED"}]
        /\ request \in [Refs -> Requests]
    BY DEF TypeOK, StoreTypeOK
  <1>1. CASE limitRow[r] # "RELEASED"
    <2>1. \/ ReleaseFailed(r)
          \/ \E h \in Handlers : ReleaseReversed(h) /\ Ref(h) = r
      <3>1. ASSUME NEW q \in Refs, ReleaseSpendLimit(q)
            PROVE  q = r
        BY <1>1, <1>t, <3>1 DEF ReleaseSpendLimit
      <3>2. ASSUME NEW q \in Refs, Debit(q)
            PROVE  FALSE
        BY <1>1, <1>t, <3>2 DEF Debit, DebitTx, limitVars
      <3>3. ASSUME NEW q \in Refs, Refund(q)
            PROVE  UNCHANGED limitRow
        BY <3>3 DEF Refund, CreditTx, storeVars, limitVars
      <3>4. ASSUME NEW h \in Handlers, ReleaseReversed(h) \/ RefundReversed(h)
            PROVE  Ref(h) \in Refs
        BY <3>4, BusyHandler DEF ReleaseReversed, RefundReversed, In
      <3>5. \/ UNCHANGED limitRow
            \/ \E q \in Refs : ReleaseFailed(q)
            \/ \E h \in Handlers : ReleaseReversed(h)
        BY <3>2, <3>3, <3>4
        DEF Next, RequestNext, WritesNext, HandlerNext, Request, DebitRefused, Accepted, Refused, RefusedOnRecord,
            AnswerLost, Record, CheckFailed, RefundFailed, WriteRow, WriteEntry, WriteFails,
            Settle, Poll, Deliver, Confirm, ConfirmRow, ReverseKnown, ReverseLookup,
            ReverseResume, MarkRow, CheckReversed, RefundReversed, HandlerThrows, Restart,
            storeVars, limitVars, vars
      <3> QED
        BY <1>1, <3>1, <3>4, <3>5 DEF ReleaseFailed, ReleaseReversed
    <2>2. CASE ReleaseFailed(r)
      <3>1. Stage(r)' = "check"
        BY <2>2, AdvanceRequest, Names DEF ReleaseFailed, Stage
      <3> QED
        BY <3>1 DEF Refunding
    <2>3. ASSUME NEW h \in Handlers, ReleaseReversed(h), Ref(h) = r
          PROVE  Refunding(r)'
      <3>1. handler'[h].stage = "check" /\ handler'[h].ref = r
        BY <2>3, GoToHandler, Names DEF ReleaseReversed, In, Ref
      <3> QED
        BY <3>1 DEF Refunding, Busy, Ref
    <2> QED
      BY <2>1, <2>2, <2>3
  <1>2. CASE Stage(r) \in {"check", "refund"} /\ Booked("debit", r)
    <2>1. CASE request'[r] = request[r]
      BY <1>2, <2>1 DEF Refunding, Stage
    <2>2. CASE CheckFailed(r)
      <3>1. \/ Booked("reversal", r)
            \/ Advance(r, "refund")
        BY <2>2 DEF CheckFailed
      <3>2. Advance(r, "refund") => Stage(r)' = "refund"
        BY AdvanceRequest, Names DEF Stage
      <3> QED
        BY <3>1, <3>2, BookedStays DEF Refunding, Booked
    <2>3. CASE RefundFailed(r)
      <3>1. CreditTx("reversal", r)
        BY <1>2, <2>3 DEF RefundFailed, Refund, ReversalAllowed
      <3> QED
        BY <3>1 DEF CreditTx, Book, Booked
    <2>4. ~Restart
      BY DEF Restart, Strike
    <2>5. ASSUME NEW q \in Refs, q # r, Request(q) \/ RequestNext(q)
          PROVE  request'[r] = request[r]
      <3>1. CASE Refused(q) \/ RefusedOnRecord(q) \/ AnswerLost(q)
        BY <2>5, <3>1, TryNextRequest DEF Refused, RefusedOnRecord, AnswerLost
      <3>2. CASE ~(Refused(q) \/ RefusedOnRecord(q) \/ AnswerLost(q))
        BY <2>5, <3>2, <1>t DEF RequestNext, Advance, Request, Debit, DebitRefused, Accepted, Record,
           ReleaseFailed, CheckFailed, RefundFailed
      <3> QED
        BY <3>1, <3>2
    <2>6. Request(r) \/ RequestNext(r) => CheckFailed(r) \/ RefundFailed(r)
      BY <1>2 DEF RequestNext, Request, Debit, DebitRefused, Accepted, Refused, RefusedOnRecord, AnswerLost, Record,
         ReleaseFailed
    <2>7. \/ UNCHANGED request
          \/ \E q \in Refs : Request(q) \/ RequestNext(q)
      BY <2>4 DEF Next, WritesNext, HandlerNext, WriteRow, WriteEntry, WriteFails, Settle, Poll, Deliver,
         Confirm, ConfirmRow, ReverseKnown, ReverseLookup, ReverseResume, MarkRow, ReleaseReversed,
         CheckReversed, RefundReversed, HandlerThrows, recordVars, requestVars, otherVars, handlerVars, vars
    <2> QED
      BY <2>1, <2>2, <2>3, <2>5, <2>6, <2>7
  <1>3. ASSUME NEW h \in Handlers, Busy(h), Ref(h) = r, handler[h].stage \in {"check", "refund"},
               Booked("debit", r)
        PROVE  Booked("reversal", r)' \/ Refunding(r)'
    <2>1. CASE handler'[h] = handler[h]
      BY <1>3, <2>1 DEF Refunding, Busy, Ref
    <2>2. CASE CheckReversed(h)
      <3>1. \/ Booked("reversal", r)
            \/ GoTo(h, "refund")
        BY <1>3, <2>2 DEF CheckReversed
      <3>2. GoTo(h, "refund") => handler'[h].stage = "refund" /\ handler'[h].ref = r
        BY <1>3, GoToHandler, Names DEF Ref
      <3> QED
        BY <3>1, <3>2, BookedStays DEF Refunding, Booked, Busy, Ref
    <2>3. CASE RefundReversed(h)
      <3>1. CreditTx("reversal", r)
        BY <1>3, <2>3 DEF RefundReversed, Refund, ReversalAllowed
      <3> QED
        BY <3>1 DEF CreditTx, Book, Booked
    <2>4. ASSUME NEW g \in Handlers, g # h,
                 \/ HandlerNext(g)
                 \/ \E q \in Refs : Poll(g, q) \/ \E p \in Providers : Deliver(g, p, q)
          PROVE  handler'[h] = handler[h]
      BY <2>4 DEF HandlerNext, Confirm, ConfirmRow, ReverseKnown, ReverseLookup, ReverseResume,
         MarkRow, ReleaseReversed, CheckReversed, RefundReversed, GoTo, Finish, Poll, Deliver,
         Begin, TypeOK
    <2>5. HandlerNext(h) => CheckReversed(h) \/ RefundReversed(h)
      BY <1>3 DEF HandlerNext, Confirm, ConfirmRow, ReverseKnown, ReverseLookup, ReverseResume,
         MarkRow, ReleaseReversed, In
    <2>6. ~(\E q \in Refs : Poll(h, q) \/ \E p \in Providers : Deliver(h, p, q))
      BY <1>3 DEF Poll, Deliver
    <2>7. ~Restart /\ \A g \in Handlers : ~HandlerThrows(g)
      BY DEF Restart, HandlerThrows, Strike
    <2>8. \/ UNCHANGED handler
          \/ \E g \in Handlers : \/ HandlerNext(g)
                                 \/ \E q \in Refs : Poll(g, q) \/ \E p \in Providers : Deliver(g, p, q)
      BY <2>7 DEF Next, RequestNext, WritesNext, Request, Debit, DebitRefused, Accepted, Refused, RefusedOnRecord,
         AnswerLost, Record, ReleaseFailed, CheckFailed, RefundFailed, WriteRow, WriteEntry,
         WriteFails, Settle, recordVars, requestVars, vars
    <2> QED
      BY <2>1, <2>2, <2>3, <2>4, <2>5, <2>6, <2>8
  <1> QED
    BY <1>1, <1>2, <1>3 DEF Refunding

\* What happened has happened.
LEMMA StruckStays ==
    ASSUME [Next]_vars
    PROVE  struck \subseteq struck'
  <1>1. UNCHANGED struck \/ \E fault \in AllFaults : Strike(fault)
    BY DEF AllFaults, Next, RequestNext, WritesNext, HandlerNext, Request, Debit, DebitRefused,
       Accepted, Refused, RefusedOnRecord, AnswerLost, Record, ReleaseFailed, CheckFailed,
       RefundFailed, WriteRow, WriteEntry, WriteFails, Settle, Poll, Deliver, Confirm, ConfirmRow,
       MarkSpend, ReverseKnown, ReverseLookup, ReverseResume, MarkRow, ReleaseReversed,
       CheckReversed, RefundReversed, HandlerThrows, Restart, requestVars, handlerVars, vars
  <1> QED
    BY <1>1 DEF Strike

\* Until a handler or the API dies on the way, a limit given back means that
\* the money is back or on its way back, whatever else goes wrong.
THEOREM ReleasedLimitsAreRefunded == Spec => []ReleasedIsRefunded
<1>d. ReleasedIsRefunded <=>
          ("crash" \notin struck =>
             \A r \in Refs : limitRow[r] = "RELEASED" => Booked("reversal", r) \/ Refunding(r))
  BY DEF ReleasedIsRefunded, Refunding
<1>1. Init => ReleaseInv
  BY DEF Init, StoreInit, ReleaseInv, ReleasedIsRefunded
<1>2. TypeOK /\ ReleaseInv /\ [Next]_vars => ReleaseInv'
  <2> SUFFICES ASSUME TypeOK, ReleaseInv, [Next]_vars PROVE ReleaseInv'
    OBVIOUS
  <2>1. \A r \in Refs : limitRow'[r] # "NONE" => Booked("debit", r)'
    BY BookedStays DEF ReleaseInv, Booked
  <2>2. ASSUME NEW r \in Refs, limitRow'[r] = "RELEASED", "crash" \notin struck'
        PROVE  Booked("reversal", r)' \/ Refunding(r)'
    <3>1. CASE Booked("reversal", r)
      BY <3>1, BookedStays DEF Booked
    <3>2. CASE ~Booked("reversal", r)
      <4>1. limitRow[r] = "RELEASED" => Refunding(r) /\ Booked("debit", r)
        BY <2>2, <3>2, <1>d, StruckStays DEF ReleaseInv
      <4> QED
        BY <2>2, <4>1, ReleaseSteps
    <3> QED
      BY <3>1, <3>2
  <2>3. ReleasedIsRefunded'
    BY <2>2 DEF ReleasedIsRefunded, Refunding
  <2> QED
    BY <2>1, <2>3 DEF ReleaseInv
<1> QED
  BY <1>1, <1>2, TypeCorrect, PTL DEF Spec, ReleaseInv

-----------------------------------------------------------------------------
(* One provider at a time.                                                 *)

Untaken(r) == \A p \in Providers : payout[r][p] = "none"

OneTaker(r) == \A p, q \in Providers : payout[r][p] # "none" /\ payout[r][q] # "none" => p = q

\* Each provider is asked once, and before the request records the payout or
\* gives up only providers that were asked in vain have anything of it.  As long
\* as those have nothing, one provider at most has the payout, and a refund means
\* that it failed, or that none will ever have it.
ChainInv ==
    \A r \in Refs :
      /\ Stage(r) \in {"none", "debit"} => request[r].tried = {}
      /\ Stage(r) = "transfer" => To(r) \notin request[r].tried
      /\ Stage(r) \notin {"record", "done"} =>
            \A p \in Providers : payout[r][p] # "none" => p \in request[r].tried
      /\ Faithful(r) =>
            /\ OneTaker(r)
            /\ Booked("reversal", r) => FailedOut(r) \/ (Stage(r) = "done" /\ Untaken(r))

\* Nobody has a payout whose chain is not at its end, if nobody asked in vain has.
LEMMA OpenIsUntaken ==
    ASSUME ChainInv, NEW r \in Refs, Faithful(r), Stage(r) \notin {"record", "done"}
    PROVE  Untaken(r)
  BY DEF ChainInv, Faithful, Untaken

\* Where the chain of a request goes.
LEMMA AskSteps ==
    ASSUME TypeOK, [Next]_vars, NEW r \in Refs
    PROVE  \/ request'[r] = request[r]
           \/ /\ Stage(r) = "none" /\ Stage(r)' = "debit"
              /\ request'[r].tried = {}
           \/ /\ Stage(r) = "debit" /\ Stage(r)' = "transfer"
              /\ request'[r].tried = request[r].tried
           \/ /\ Stage(r) = "transfer" /\ Stage(r)' = "transfer"
              /\ To(r)' \notin request'[r].tried
           \/ Stage(r)' \notin {"none", "debit", "transfer"}
  <1>1. CASE Request(r)
    BY <1>1 DEF Request, Stage, TypeOK
  <1>2. CASE Refused(r) \/ RefusedOnRecord(r) \/ AnswerLost(r)
    BY <1>2, TryNextRequest DEF Refused, RefusedOnRecord, AnswerLost, Stage, To
  <1>3. ASSUME NEW stage \in RequestStages, Advance(r, stage),
               stage \notin {"none", "debit", "transfer"} \/ (Stage(r) = "debit" /\ stage = "transfer")
        PROVE  \/ Stage(r)' \notin {"none", "debit", "transfer"}
               \/ /\ Stage(r) = "debit" /\ Stage(r)' = "transfer"
                  /\ request'[r].tried = request[r].tried
    BY <1>3, AdvanceRequest DEF Stage
  <1>4. CASE Restart
    <2>1. request[r] \in Requests
      BY DEF TypeOK
    <2>2. request'[r] = request[r] \/ request'[r] = [request[r] EXCEPT !.stage = "done"]
      BY <1>4 DEF Restart
    <2> QED
      BY <2>1, <2>2 DEF Requests, Stage
  <1>5. ASSUME NEW q \in Refs, q # r, Request(q) \/ RequestNext(q)
        PROVE  request'[r] = request[r]
    <2>1. CASE Refused(q) \/ RefusedOnRecord(q) \/ AnswerLost(q)
      BY <1>5, <2>1, TryNextRequest DEF Refused, RefusedOnRecord, AnswerLost
    <2>2. CASE ~(Refused(q) \/ RefusedOnRecord(q) \/ AnswerLost(q))
      BY <1>5, <2>2 DEF RequestNext, Advance, Request, Debit, DebitRefused, Accepted, Record,
         ReleaseFailed, CheckFailed, RefundFailed, TypeOK
    <2> QED
      BY <2>1, <2>2
  <1>6. RequestNext(r) =>
          \/ Refused(r) \/ RefusedOnRecord(r) \/ AnswerLost(r)
          \/ \E stage \in RequestStages :
                /\ Advance(r, stage)
                /\ \/ stage \notin {"none", "debit", "transfer"}
                   \/ Stage(r) = "debit" /\ stage = "transfer"
    BY Names DEF RequestNext, Debit, DebitRefused, Accepted, Record, ReleaseFailed, CheckFailed,
       RefundFailed
  <1>7. \/ UNCHANGED request
        \/ \E q \in Refs : Request(q) \/ RequestNext(q)
        \/ Restart
    BY DEF Next, WritesNext, HandlerNext, WriteRow, WriteEntry, WriteFails, Settle, Poll, Deliver,
       Confirm, ConfirmRow, ReverseKnown, ReverseLookup, ReverseResume, MarkRow, ReleaseReversed,
       CheckReversed, RefundReversed, HandlerThrows, recordVars, requestVars, otherVars,
       handlerVars, vars
  <1> QED
    BY <1>1, <1>2, <1>3, <1>4, <1>5, <1>6, <1>7

\* A request that has recorded or is done does not go back.
LEMMA OpenSteps ==
    ASSUME TypeOK, [Next]_vars, NEW r \in Refs, Stage(r)' \notin {"record", "done"}
    PROVE  Stage(r) \notin {"record", "done"}
  <1>1. CASE request'[r] = request[r]
    BY <1>1 DEF Stage
  <1>2. Request(r) => Stage(r) = "none"
    BY DEF Request
  <1>3. RequestNext(r) => Stage(r) # "done" /\ (Stage(r) = "record" => Record(r))
    BY DEF RequestNext, Debit, DebitRefused, Accepted, Refused, RefusedOnRecord, AnswerLost, ReleaseFailed,
       CheckFailed, RefundFailed, Record
  <1>4. ~Record(r)
    BY AdvanceRequest, Names DEF Record, Stage
  <1>5. CASE Restart
    <2>1. request[r] \in Requests
      BY DEF TypeOK
    <2>2. request'[r] = request[r] \/ request'[r] = [request[r] EXCEPT !.stage = "done"]
      BY <1>5 DEF Restart
    <2> QED
      BY <2>1, <2>2 DEF Requests, Stage
  <1>6. ASSUME NEW q \in Refs, q # r, Request(q) \/ RequestNext(q)
        PROVE  request'[r] = request[r]
    <2>1. CASE Refused(q) \/ RefusedOnRecord(q) \/ AnswerLost(q)
      BY <1>6, <2>1, TryNextRequest DEF Refused, RefusedOnRecord, AnswerLost
    <2>2. CASE ~(Refused(q) \/ RefusedOnRecord(q) \/ AnswerLost(q))
      BY <1>6, <2>2 DEF RequestNext, Advance, Request, Debit, DebitRefused, Accepted, Record,
         ReleaseFailed, CheckFailed, RefundFailed, TypeOK
    <2> QED
      BY <2>1, <2>2
  <1>7. \/ UNCHANGED request
        \/ \E q \in Refs : Request(q) \/ RequestNext(q)
        \/ Restart
    BY DEF Next, WritesNext, HandlerNext, WriteRow, WriteEntry, WriteFails, Settle, Poll, Deliver,
       Confirm, ConfirmRow, ReverseKnown, ReverseLookup, ReverseResume, MarkRow, ReleaseReversed,
       CheckReversed, RefundReversed, HandlerThrows, recordVars, requestVars, otherVars, handlerVars, vars
  <1> QED
    BY <1>1, <1>2, <1>3, <1>4, <1>5, <1>6, <1>7

\* What a step may make of a payout: leave it, ask a provider for it in vain,
\* have a provider take it, or settle it.
Untouched(r) == payout'[r] = payout[r] /\ request'[r].tried = request[r].tried

AskedInVain(r) ==
    /\ UNCHANGED journal
    /\ Stage(r) = "transfer"
    /\ request'[r].tried = request[r].tried \cup {To(r)}
    /\ \/ payout'[r] = payout[r]
       \/ \E word \in {"accepted", "failed"} : payout'[r] = [payout[r] EXCEPT ![To(r)] = word]

Taken(r) ==
    /\ UNCHANGED journal
    /\ Stage(r) = "transfer" /\ Stage(r)' = "record"
    /\ request'[r].tried = request[r].tried
    /\ payout'[r] = [payout[r] EXCEPT ![To(r)] = "accepted"]

Settled(r) ==
    /\ UNCHANGED <<journal, request>>
    /\ \E p \in Providers, outcome \in Outcomes :
         /\ payout[r][p] = "accepted"
         /\ payout'[r] = [payout[r] EXCEPT ![p] = outcome]

\* Every step does one of the four, to one payout.
LEMMA PayoutSteps ==
    ASSUME TypeOK, ChainInv, [Next]_vars
    PROVE  \/ \A r \in Refs : Untouched(r)
           \/ \E q \in Refs : /\ AskedInVain(q) \/ Taken(q) \/ Settled(q)
                              /\ \A r \in Refs : r # q => Untouched(r)
  <1>t. /\ payout \in [Refs -> [Providers -> {"none", "accepted"} \cup Outcomes]]
        /\ request \in [Refs -> Requests]
    BY DEF TypeOK
  <1>1. ASSUME NEW q \in Refs, Accepted(q)
        PROVE  Taken(q) /\ \A r \in Refs : r # q => Untouched(r)
    <2>1. /\ Stage(q)' = "record"
          /\ request'[q].tried = request[q].tried
          /\ \A r \in Refs : r # q => request'[r] = request[r]
      BY <1>1, AdvanceRequest, Names DEF Accepted, Stage
    <2>2. /\ payout'[q] = [payout[q] EXCEPT ![To(q)] = "accepted"]
          /\ \A r \in Refs : r # q => payout'[r] = payout[r]
      BY <1>1, <1>t DEF Accepted, Give
    <2> QED
      BY <1>1, <2>1, <2>2 DEF Accepted, Taken, Untouched, storeVars
  <1>2. ASSUME NEW q \in Refs, Refused(q) \/ RefusedOnRecord(q) \/ AnswerLost(q)
        PROVE  AskedInVain(q) /\ \A r \in Refs : r # q => Untouched(r)
    <2>1. /\ Stage(q) = "transfer"
          /\ request'[q].tried = request[q].tried \cup {To(q)}
          /\ \A r \in Refs : r # q => request'[r] = request[r]
      BY <1>2, TryNextRequest DEF Refused, RefusedOnRecord, AnswerLost, To
    <2>2. \/ UNCHANGED payout
          \/ \E word \in {"accepted", "failed"} : payout' = [payout EXCEPT ![q][To(q)] = word]
      BY <1>2 DEF Refused, RefusedOnRecord, AnswerLost, Give
    <2>3. /\ \/ payout'[q] = payout[q]
             \/ \E word \in {"accepted", "failed"} : payout'[q] = [payout[q] EXCEPT ![To(q)] = word]
          /\ \A r \in Refs : r # q => payout'[r] = payout[r]
      BY <1>t, <2>2
    <2>4. UNCHANGED journal
      BY <1>2 DEF Refused, RefusedOnRecord, AnswerLost, storeVars
    <2> QED
      BY <2>1, <2>3, <2>4 DEF AskedInVain, Untouched
  <1>3. ASSUME NEW q \in Refs, NEW p \in Providers, NEW outcome \in Outcomes, Settle(q, p, outcome)
        PROVE  Settled(q) /\ \A r \in Refs : r # q => Untouched(r)
    BY <1>3, <1>t DEF Settle, Settled, Untouched, storeVars
  <1>4. CASE Restart
    <2>1. ASSUME NEW r \in Refs
          PROVE  request'[r].tried = request[r].tried
      <3>1. request[r] \in Requests
        BY <1>t
      <3>2. request'[r] = request[r] \/ request'[r] = [request[r] EXCEPT !.stage = "done"]
        BY <1>4 DEF Restart
      <3> QED
        BY <3>1, <3>2 DEF Requests
    <2> QED
      BY <1>4, <2>1 DEF Restart, Untouched
  <1>5. ASSUME NEW q \in Refs, Request(q)
        PROVE  \A r \in Refs : Untouched(r)
    <2>1. /\ request[q].tried = {} /\ request'[q].tried = {}
          /\ \A r \in Refs : r # q => request'[r] = request[r]
      BY <1>5, <1>t DEF Request, ChainInv
    <2> QED
      BY <1>5, <2>1 DEF Request, Untouched
  <1>6. ASSUME NEW q \in Refs, NEW stage \in RequestStages, Advance(q, stage), UNCHANGED payout
        PROVE  \A r \in Refs : Untouched(r)
    BY <1>6, AdvanceRequest DEF Untouched
  <1>7. ASSUME NEW q \in Refs, RequestNext(q)
        PROVE  \/ Accepted(q) \/ Refused(q) \/ RefusedOnRecord(q) \/ AnswerLost(q)
               \/ UNCHANGED payout /\ \E stage \in RequestStages : Advance(q, stage)
    BY <1>7, Names DEF RequestNext, Debit, DebitRefused, Record, ReleaseFailed, CheckFailed,
       RefundFailed
  <1>8. \/ UNCHANGED <<request, payout>>
        \/ \E q \in Refs : Request(q) \/ RequestNext(q)
        \/ \E q \in Refs, p \in Providers, outcome \in Outcomes : Settle(q, p, outcome)
        \/ Restart
    BY DEF Next, WritesNext, HandlerNext, WriteRow, WriteEntry, WriteFails, Poll, Deliver,
       Confirm, ConfirmRow, ReverseKnown, ReverseLookup, ReverseResume, MarkRow, ReleaseReversed,
       CheckReversed, RefundReversed, HandlerThrows, otherVars, handlerVars, vars
  <1> QED
    BY <1>1, <1>2, <1>3, <1>4, <1>5, <1>6, <1>7, <1>8 DEF Untouched

\* A payout nobody has by mistake is one step before too, and a provider asked
\* for it in vain has nothing of it.
LEMMA FaithfulSteps ==
    ASSUME TypeOK, ChainInv, NEW r \in Refs,
           Untouched(r) \/ AskedInVain(r) \/ Taken(r) \/ Settled(r)
    PROVE  /\ Faithful(r)' => Faithful(r)
           /\ Untouched(r) \/ Settled(r) => (Faithful(r)' <=> Faithful(r))
           /\ AskedInVain(r) /\ Faithful(r)' => payout'[r] = payout[r]
  <1>t. /\ payout[r] \in [Providers -> {"none", "accepted"} \cup Outcomes]
        /\ request[r] \in Requests
        /\ request[r].tried \subseteq Providers
        /\ To(r) \in Providers
    BY DEF TypeOK, Requests, To
  <1>1. CASE Untouched(r)
    BY <1>1 DEF Untouched, Faithful, AskedInVain
  <1>2. CASE AskedInVain(r)
    <2>1. To(r) \notin request[r].tried
      BY <1>2 DEF AskedInVain, ChainInv
    <2>2. \A p \in request[r].tried : payout'[r][p] = payout[r][p]
      BY <1>2, <1>t, <2>1 DEF AskedInVain
    <2>3. Faithful(r)' => Faithful(r) /\ payout'[r] = payout[r]
      BY <1>2, <1>t, <2>2 DEF AskedInVain, Faithful
    <2>4. ~Untouched(r) /\ ~Settled(r)
      BY <1>2, <2>1 DEF AskedInVain, Untouched, Settled
    <2> QED
      BY <2>3, <2>4
  <1>3. CASE Taken(r)
    <2>1. To(r) \notin request[r].tried
      BY <1>3 DEF Taken, ChainInv
    <2>2. \A p \in request[r].tried : payout'[r][p] = payout[r][p]
      BY <1>3, <1>t, <2>1 DEF Taken
    <2>3. Faithful(r)' <=> Faithful(r)
      BY <1>3, <2>2 DEF Taken, Faithful
    <2>4. ~AskedInVain(r)
      BY <1>3, <2>1 DEF Taken, AskedInVain
    <2> QED
      BY <2>3, <2>4
  <1>4. CASE Settled(r)
    <2>1. \A p \in Providers : payout'[r][p] = "none" <=> payout[r][p] = "none"
      BY <1>4, <1>t DEF Settled, Outcomes
    <2>2. Faithful(r)' <=> Faithful(r)
      BY <1>4, <1>t, <2>1 DEF Settled, Faithful
    <2>3. ~AskedInVain(r)
      BY <1>4 DEF Settled, AskedInVain, ChainInv
    <2> QED
      BY <2>2, <2>3
  <1> QED
    BY <1>1, <1>2, <1>3, <1>4

\* The inductive step of ChainInv.
LEMMA ChainStep ==
    ASSUME TypeOK, WordInv, ChainInv, [Next]_vars
    PROVE  ChainInv'
  <1> SUFFICES ASSUME NEW r \in Refs
               PROVE  /\ Stage(r)' \in {"none", "debit"} => request'[r].tried = {}
                      /\ Stage(r)' = "transfer" => To(r)' \notin request'[r].tried
                      /\ Stage(r)' \notin {"record", "done"} =>
                            \A p \in Providers : payout'[r][p] # "none" => p \in request'[r].tried
                      /\ Faithful(r)' =>
                            /\ OneTaker(r)'
                            /\ Booked("reversal", r)' =>
                                  FailedOut(r)' \/ (Stage(r)' = "done" /\ Untaken(r)')
    BY DEF ChainInv
  <1>t. /\ payout[r] \in [Providers -> {"none", "accepted"} \cup Outcomes]
        /\ To(r) \in Providers
    BY DEF TypeOK, Requests, To
  <1>i. /\ Stage(r) \in {"none", "debit"} => request[r].tried = {}
        /\ Stage(r) = "transfer" => To(r) \notin request[r].tried
        /\ Stage(r) \notin {"record", "done"} =>
              \A p \in Providers : payout[r][p] # "none" => p \in request[r].tried
        /\ Faithful(r) =>
              /\ OneTaker(r)
              /\ Booked("reversal", r) => FailedOut(r) \/ (Stage(r) = "done" /\ Untaken(r))
    BY DEF ChainInv
  <1>p. Untouched(r) \/ AskedInVain(r) \/ Taken(r) \/ Settled(r)
    BY PayoutSteps
  <1>s. request'[r] = request[r] => Stage(r)' = Stage(r) /\ To(r)' = To(r)
    BY DEF Stage, To
  <1>1. Stage(r)' \in {"none", "debit"} => request'[r].tried = {}
    BY <1>i, <1>s, AskSteps
  <1>2. Stage(r)' = "transfer" => To(r)' \notin request'[r].tried
    <2>1. CASE Stage(r) = "debit" /\ request'[r].tried = request[r].tried
      BY <1>i, <2>1
    <2> QED
      BY <1>i, <1>s, <2>1, AskSteps
  <1>3. ASSUME Stage(r)' \notin {"record", "done"}
        PROVE  \A p \in Providers : payout'[r][p] # "none" => p \in request'[r].tried
    <2>1. \A p \in Providers : payout[r][p] # "none" => p \in request[r].tried
      BY <1>3, <1>i, OpenSteps
    <2>2. ~Taken(r)
      BY <1>3 DEF Taken
    <2>3. CASE Untouched(r)
      BY <2>1, <2>3 DEF Untouched
    <2>4. CASE AskedInVain(r)
      <3>1. \A p \in Providers : p # To(r) => payout'[r][p] = payout[r][p]
        BY <1>t, <2>4 DEF AskedInVain
      <3> QED
        BY <2>1, <2>4, <3>1 DEF AskedInVain
    <2>5. CASE Settled(r)
      <3>1. \A p \in Providers : payout'[r][p] # "none" => payout[r][p] # "none"
        BY <1>t, <2>5 DEF Settled
      <3> QED
        BY <2>1, <2>5, <3>1 DEF Settled
    <2> QED
      BY <1>p, <2>2, <2>3, <2>4, <2>5
  <1>4. ASSUME Faithful(r)'
        PROVE  /\ OneTaker(r)'
               /\ Booked("reversal", r)' => FailedOut(r)' \/ (Stage(r)' = "done" /\ Untaken(r)')
    <2>f. Faithful(r) /\ (AskedInVain(r) => payout'[r] = payout[r])
      BY <1>4, <1>p, FaithfulSteps
    <2>1. CASE payout'[r] = payout[r]
      <3>1. OneTaker(r)' /\ (Untaken(r) => Untaken(r)') /\ (FailedOut(r) => FailedOut(r)')
        BY <1>i, <2>f, <2>1 DEF OneTaker, Untaken, FailedOut
      <3>2. Stage(r) = "done" => Stage(r)' = "done"
        BY RequestSteps DEF Stage
      <3>3. Stage(r) = "refund" => Untaken(r)
        BY <2>f, OpenIsUntaken
      <3>4. Booked("reversal", r)' => FailedOut(r)' \/ (Stage(r)' = "done" /\ Untaken(r)')
        BY <1>i, <2>f, <3>1, <3>2, <3>3, RefundSteps DEF WordInv, FailedOut
      <3> QED
        BY <3>1, <3>4
    <2>2. CASE Taken(r)
      <3>1. Untaken(r)
        BY <2>2, <2>f, OpenIsUntaken DEF Taken
      <3>2. OneTaker(r)'
        BY <1>t, <2>2, <3>1 DEF Taken, Untaken, OneTaker
      <3>3. ~Booked("reversal", r)'
        BY <1>i, <2>f, <2>2, <3>1 DEF Taken, Booked, Untaken, FailedOut
      <3> QED
        BY <3>2, <3>3
    <2>3. CASE Settled(r)
      <3>1. ~Untaken(r) /\ Stage(r)' = Stage(r)
        BY <2>3 DEF Settled, Untaken, Stage
      <3>2. \A q \in Providers : payout'[r][q] # "none" <=> payout[r][q] # "none"
        BY <1>t, <2>3 DEF Settled, Outcomes
      <3>3. OneTaker(r)'
        BY <1>i, <2>f, <3>2 DEF OneTaker
      <3>4. FailedOut(r) => FailedOut(r)'
        BY OutcomeStays DEF FailedOut, Outcomes
      <3> QED
        BY <1>i, <2>f, <2>3, <3>1, <3>3, <3>4 DEF Settled, Booked
    <2> QED
      BY <1>p, <2>f, <2>1, <2>2, <2>3 DEF Untouched
  <1> QED
    BY <1>1, <1>2, <1>3, <1>4

LEMMA ChainInvariant == Spec => [](TypeOK /\ WordInv /\ ChainInv)
<1>1. Init => WordInv /\ ChainInv
  BY DEF Init, StoreInit, Idle, Busy, Booked, Stage, WordInv, ChainInv, OneTaker
<1>2. TypeOK /\ WordInv /\ ChainInv /\ [Next]_vars => WordInv' /\ ChainInv'
  BY WordStep, ChainStep
<1> QED
  BY <1>1, <1>2, TypeCorrect, PTL DEF Spec

-----------------------------------------------------------------------------
(* Decided rows.                                                           *)

\* The row is inserted once, before anything can be decided, and a row that says
\* REVERSED was failed.
RowInv ==
    \A r \in Refs :
      /\ "row" \in writes[r] => spend[r] = "NONE"
      /\ spend[r] = "REVERSED" => FailedOut(r)

\* Who writes the row of a payout.
LEMMA RowSteps ==
    ASSUME TypeOK, [Next]_vars, NEW r \in Refs
    PROVE  \/ spend'[r] = spend[r]
           \/ "row" \in writes[r] /\ "row" \notin writes'[r] /\ spend'[r] \in {"PENDING", "pending"}
           \/ /\ spend[r] # "NONE" /\ UNCHANGED writes
              /\ \E h \in Handlers : Busy(h) /\ Ref(h) = r /\
                    \/ handler[h].stage = "confirmRow" /\ spend'[r] = "SUCCESS"
                    \/ handler[h].stage = "markRow" /\ spend'[r] = "REVERSED"
  <1>t. spend \in [Refs -> Statuses] /\ writes \in [Refs -> SUBSET {"row", "entry"}]
    BY DEF TypeOK
  <1>1. ASSUME NEW q \in Refs, WriteRow(q)
        PROVE  \/ spend'[r] = spend[r]
               \/ "row" \in writes[r] /\ "row" \notin writes'[r] /\ spend'[r] \in {"PENDING", "pending"}
    BY <1>1, <1>t DEF WriteRow
  <1>2. ASSUME NEW h \in Handlers, ConfirmRow(h) \/ MarkRow(h)
        PROVE  \/ spend'[r] = spend[r]
               \/ /\ spend[r] # "NONE" /\ UNCHANGED writes
                  /\ Busy(h) /\ Ref(h) = r
                  /\ \/ handler[h].stage = "confirmRow" /\ spend'[r] = "SUCCESS"
                     \/ handler[h].stage = "markRow" /\ spend'[r] = "REVERSED"
    BY <1>2, <1>t DEF ConfirmRow, MarkRow, MarkSpend, In, otherVars, handlerVars
  <1>3. \/ UNCHANGED spend
        \/ \E q \in Refs : WriteRow(q)
        \/ \E h \in Handlers : ConfirmRow(h) \/ MarkRow(h)
    BY DEF Next, RequestNext, WritesNext, HandlerNext, Request, Debit, DebitRefused, Accepted,
       Refused, RefusedOnRecord, AnswerLost, Record, ReleaseFailed, CheckFailed, RefundFailed, WriteEntry,
       WriteFails, Settle, Poll, Deliver, Confirm, ReverseKnown, ReverseLookup, ReverseResume,
       ReleaseReversed, CheckReversed, RefundReversed, HandlerThrows, Restart, recordVars, requestVars,
       otherVars, handlerVars, vars
  <1> QED
    BY <1>1, <1>2, <1>3

\* Only recordSpend starts the insert.
LEMMA InsertSteps ==
    ASSUME TypeOK, [Next]_vars, NEW r \in Refs, "row" \in writes'[r], "row" \notin writes[r]
    PROVE  Stage(r) = "record" /\ UNCHANGED spend
  <1>t. writes \in [Refs -> SUBSET {"row", "entry"}]
    BY DEF TypeOK
  <1>1. ASSUME NEW q \in Refs, Record(q)
        PROVE  Stage(r) = "record" /\ UNCHANGED spend
    BY <1>1, <1>t DEF Record
  <1>2. ASSUME NEW q \in Refs, WritesNext(q)
        PROVE  FALSE
    BY <1>2, <1>t DEF WritesNext, WriteRow, WriteEntry, WriteFails
  <1>3. ~Restart
    BY DEF Restart
  <1>4. \/ UNCHANGED writes
        \/ \E q \in Refs : Record(q) \/ WritesNext(q)
    BY <1>3 DEF Next, RequestNext, HandlerNext, Request, Debit, DebitRefused, Accepted,
       Refused, RefusedOnRecord, AnswerLost, ReleaseFailed, CheckFailed, RefundFailed, Settle, Poll, Deliver,
       Confirm, ConfirmRow, ReverseKnown, ReverseLookup, ReverseResume, MarkRow,
       ReleaseReversed, CheckReversed, RefundReversed, HandlerThrows, recordVars, requestVars, otherVars, handlerVars, vars
  <1> QED
    BY <1>1, <1>2, <1>4

LEMMA RowStep ==
    ASSUME TypeOK, WordInv, RefundInv, RowInv, [Next]_vars
    PROVE  RowInv'
  <1> SUFFICES ASSUME NEW r \in Refs
               PROVE  /\ "row" \in writes'[r] => spend'[r] = "NONE"
                      /\ spend'[r] = "REVERSED" => FailedOut(r)'
    BY DEF RowInv, FailedOut
  <1>1. ASSUME "row" \in writes'[r]
        PROVE  spend'[r] = "NONE"
    <2>1. CASE "row" \in writes[r]
      BY <1>1, <2>1, RowSteps DEF RowInv
    <2>2. CASE "row" \notin writes[r]
      BY <1>1, <2>2, InsertSteps DEF RefundInv, Unrecorded
    <2> QED
      BY <2>1, <2>2
  <1>2. ASSUME spend'[r] = "REVERSED"
        PROVE  FailedOut(r)'
    <2>1. FailedOut(r)
      BY <1>2, RowSteps DEF RowInv, WordInv
    <2> QED
      BY <2>1, OutcomeStays DEF FailedOut, Outcomes
  <1> QED
    BY <1>1, <1>2

\* Unless a provider that answered "failed" has the payout, a row that says
\* SUCCESS or REVERSED keeps saying it, whatever events, polls, restarts and
\* late writes follow.
THEOREM DecidedPayoutsStay == Spec => DecidedRowsStay
<1>1. Init => RefundInv /\ RowInv
  BY DEF Init, StoreInit, Booked, Stage, Unrecorded, RefundInv, RowInv
<1>2. TypeOK /\ WordInv /\ RefundInv /\ RowInv /\ [Next]_vars => RefundInv' /\ RowInv'
  BY RefundStep, RowStep
<1>3. ASSUME TypeOK, WordInv, ChainInv, RowInv, SuccessWasPaid, [Next]_vars
      PROVE  [\A r \in Refs : Faithful(r) /\ spend[r] \in {"SUCCESS", "REVERSED"}
                                => spend'[r] = spend[r]]_vars
  <2> SUFFICES ASSUME NEW r \in Refs, Faithful(r), spend[r] \in {"SUCCESS", "REVERSED"}, spend'[r] # spend[r]
               PROVE  FALSE
    OBVIOUS
  <2>1. PaidOut(r) /\ FailedOut(r)
    BY <1>3, RowSteps DEF RowInv, WordInv, SuccessWasPaid, PaidOut
  <2> QED
    BY <1>3, <2>1 DEF ChainInv, OneTaker, PaidOut, FailedOut
<1> QED
  BY <1>1, <1>2, <1>3, ChainInvariant, SuccessfulPayoutsArePaid, PTL DEF Spec, DecidedRowsStay

-----------------------------------------------------------------------------
(* The settlement.                                                         *)

\* One provider at most: the count of those who paid is zero or one.
LEMMA PaidCount ==
    ASSUME NEW f, \A p, q \in Providers : f[p] # "none" /\ f[q] # "none" => p = q
    PROVE  Cardinality({p \in Providers : f[p] = "paid"}) =
               IF \E p \in Providers : f[p] = "paid" THEN 1 ELSE 0
<1> DEFINE S == {p \in Providers : f[p] = "paid"}
<1>1. \A p, q \in S : p = q
  OBVIOUS
<1>2. Cardinality(S) = IF S = {} THEN 0 ELSE 1
  <2> HIDE DEF S
  <2> QED
    BY <1>1, AtMostOne
<1> QED
  BY <1>2

\* A refund is booked for one reference at a time.
LEMMA OneRefund ==
    ASSUME TypeOK, WordInv, [Next]_vars
    PROVE  \/ \A r \in Refs : Booked("reversal", r)' <=> Booked("reversal", r)
           \/ \E q \in Refs : /\ FailedOut(q) \/ Stage(q) = "refund"
                              /\ UNCHANGED payout
                              /\ journal' = journal \cup {<<"reversal", q>>}
  <1>1. ASSUME NEW q \in Refs, Refund(q)
        PROVE  UNCHANGED journal \/ journal' = journal \cup {<<"reversal", q>>}
    BY <1>1 DEF Refund, CreditTx, Book, storeVars
  <1>2. ASSUME NEW q \in Refs, RefundFailed(q)
        PROVE  UNCHANGED journal \/ (/\ Stage(q) = "refund" /\ UNCHANGED payout
                                     /\ journal' = journal \cup {<<"reversal", q>>})
    BY <1>1, <1>2 DEF RefundFailed
  <1>3. ASSUME NEW h \in Handlers, RefundReversed(h)
        PROVE  UNCHANGED journal \/ (\E q \in Refs :
                  /\ FailedOut(q) /\ UNCHANGED payout
                  /\ journal' = journal \cup {<<"reversal", q>>})
    BY <1>1, <1>3, BusyHandler DEF RefundReversed, In, otherVars, handlerVars, WordInv
  <1>4. ASSUME NEW q \in Refs, Debit(q) \/ WriteEntry(q)
        PROVE  \A r \in Refs : Booked("reversal", r)' <=> Booked("reversal", r)
    <2>1. \E kind \in {"debit", "cashout"} : journal' = journal \cup {<<kind, q>>}
      BY <1>4 DEF Debit, DebitTx, Book, WriteEntry
    <2> QED
      BY <2>1 DEF Booked
  <1>5. \/ UNCHANGED journal
        \/ \E q \in Refs : RefundFailed(q) \/ Debit(q) \/ WriteEntry(q)
        \/ \E h \in Handlers : RefundReversed(h)
    BY DEF Next, RequestNext, WritesNext, HandlerNext, Request, DebitRefused, Accepted, Refused, RefusedOnRecord,
       AnswerLost, Record, ReleaseFailed, ReleaseSpendLimit, CheckFailed, WriteRow, WriteFails,
       Settle, Poll, Deliver, Confirm, ConfirmRow, ReverseKnown, ReverseLookup, ReverseResume,
       MarkRow, ReleaseReversed, CheckReversed, HandlerThrows, Restart, storeVars, vars
  <1> QED
    BY <1>2, <1>3, <1>4, <1>5 DEF Booked

\* Whatever faults it meets, the rail keeps Settlement's promise of every payout
\* that no provider has after it answered "failed": paid once at most, refunded
\* once at most, and never both.
THEOREM PayoutsImplementSettlement == Spec => ImplementsSettlement
<1> DEFINE paid == [r \in Refs |-> IF Faithful(r)
                                   THEN Cardinality({p \in Providers : payout[r][p] = "paid"})
                                   ELSE 0]
           refunded == {r \in Refs : Faithful(r) /\ Booked("reversal", r)}
<1>1. Init => Outcome!SettlementInit
  <2> SUFFICES ASSUME Init PROVE Outcome!SettlementInit
    OBVIOUS
  <2>1. ASSUME NEW r \in Refs
        PROVE  Cardinality({p \in Providers : payout[r][p] = "paid"}) = 0
    <3>1. {p \in Providers : payout[r][p] = "paid"} = {}
      BY DEF Init
    <3> QED
      BY <3>1, FS_EmptySet
  <2>2. paid = [r \in Refs |-> 0] /\ refunded = {}
    BY <2>1 DEF Init, StoreInit, Booked
  <2> QED
    BY <2>2 DEF Outcome!SettlementInit
<1>2. TypeOK /\ WordInv /\ ChainInv /\ ChainInv' /\ [Next]_vars
        => [Outcome!SettlementNext]_(Outcome!settlementVars)
  <2> SUFFICES ASSUME TypeOK, WordInv, ChainInv, ChainInv', [Next]_vars
               PROVE  Outcome!SettlementNext \/ UNCHANGED <<paid, refunded>>
    BY DEF Outcome!settlementVars
  <2>p. \A r \in Refs :
          /\ paid[r] = IF Faithful(r) /\ PaidOut(r) THEN 1 ELSE 0
          /\ paid'[r] = IF Faithful(r)' /\ \E p \in Providers : payout'[r][p] = "paid" THEN 1 ELSE 0
    BY PaidCount DEF ChainInv, OneTaker, PaidOut
  <2> HIDE DEF paid
  <2>d. paid = [r \in Refs |-> paid[r]] /\ paid' = [r \in Refs |-> paid'[r]]
    BY DEF paid
  <2>u. ASSUME NEW r \in Refs, Untouched(r)
        PROVE  paid'[r] = paid[r] /\ (Faithful(r)' <=> Faithful(r))
    <3>1. Faithful(r)' <=> Faithful(r)
      BY <2>u, FaithfulSteps
    <3> QED
      BY <2>p, <2>u, <3>1 DEF Untouched, PaidOut
  <2>1. CASE \A r \in Refs : Untouched(r)
    <3>1. paid' = paid /\ \A r \in Refs : Faithful(r)' <=> Faithful(r)
      BY <2>1, <2>u, <2>d
    <3>2. CASE \A r \in Refs : Booked("reversal", r)' <=> Booked("reversal", r)
      BY <3>1, <3>2
    <3>3. ASSUME NEW q \in Refs, FailedOut(q) \/ Stage(q) = "refund",
                 journal' = journal \cup {<<"reversal", q>>}
          PROVE  Outcome!SettlementNext \/ UNCHANGED <<paid, refunded>>
      <4>1. Faithful(q) => ~PaidOut(q)
        BY <3>3, OpenIsUntaken DEF ChainInv, OneTaker, Untaken, PaidOut, FailedOut
      <4>2. refunded' = IF Faithful(q) THEN refunded \cup {q} ELSE refunded
        BY <3>1, <3>3 DEF Booked
      <4>3. CASE q \in refunded \/ ~Faithful(q)
        BY <3>1, <4>2, <4>3
      <4>4. CASE q \notin refunded /\ Faithful(q)
        <5>1. paid[q] = 0
          BY <2>p, <4>1, <4>4
        <5>2. Outcome!Refund(q)
          BY <3>1, <4>2, <4>4, <5>1 DEF Outcome!Refund, paid
        <5> QED
          BY <5>2 DEF Outcome!SettlementNext
      <4> QED
        BY <4>3, <4>4
    <3> QED
      BY <3>2, <3>3, OneRefund
  <2>2. ASSUME NEW q \in Refs, AskedInVain(q) \/ Taken(q), \A r \in Refs : r # q => Untouched(r)
        PROVE  UNCHANGED <<paid, refunded>>
    <3>t. payout[q] \in [Providers -> {"none", "accepted"} \cup Outcomes]
      BY DEF TypeOK
    <3>1. Faithful(q) => Untaken(q) /\ ~Booked("reversal", q)
      BY <2>2, OpenIsUntaken DEF AskedInVain, Taken, ChainInv, Untaken, FailedOut
    <3>2. Faithful(q)' => Faithful(q) /\ ~\E p \in Providers : payout'[q][p] = "paid"
      <4>1. Faithful(q)' => Faithful(q) /\ (AskedInVain(q) => payout'[q] = payout[q])
        BY <2>2, FaithfulSteps
      <4> QED
        BY <2>2, <3>t, <3>1, <4>1 DEF Taken, Untaken
    <3>3. paid'[q] = paid[q]
      BY <2>p, <3>1, <3>2 DEF Untaken, PaidOut
    <3>4. paid' = paid
      BY <2>2, <2>u, <2>d, <3>3
    <3>5. \A r \in Refs : Booked("reversal", r)' <=> Booked("reversal", r)
      BY <2>2 DEF AskedInVain, Taken, Booked
    <3>6. \A r \in Refs : r # q => (Faithful(r)' <=> Faithful(r))
      BY <2>2, <2>u
    <3>7. refunded' = refunded
      BY <3>1, <3>2, <3>5, <3>6
    <3> QED
      BY <3>4, <3>7
  <2>3. ASSUME NEW q \in Refs, Settled(q), \A r \in Refs : r # q => Untouched(r)
        PROVE  Outcome!SettlementNext \/ UNCHANGED <<paid, refunded>>
    <3>t. payout[q] \in [Providers -> {"none", "accepted"} \cup Outcomes]
      BY DEF TypeOK
    <3>f. \A r \in Refs : Faithful(r)' <=> Faithful(r)
      BY <2>3, <2>u, FaithfulSteps
    <3>1. refunded' = refunded
      BY <2>3, <3>f DEF Settled, Booked
    <3>2. \A r \in Refs : r # q => paid'[r] = paid[r]
      BY <2>3, <2>u
    <3>3. CASE ~Faithful(q)
      <4>1. paid'[q] = paid[q]
        BY <2>p, <3>f, <3>3
      <4> QED
        BY <2>d, <3>1, <3>2, <4>1
    <3>4. CASE Faithful(q)
      <4>1. PICK p \in Providers, outcome \in Outcomes :
              payout[q][p] = "accepted" /\ payout'[q] = [payout[q] EXCEPT ![p] = outcome]
        BY <2>3 DEF Settled
      <4>2. ~PaidOut(q) /\ ~FailedOut(q) /\ ~Untaken(q)
        BY <3>4, <4>1 DEF ChainInv, OneTaker, PaidOut, FailedOut, Untaken
      <4>3. q \notin refunded
        BY <3>4, <4>2 DEF ChainInv
      <4>4. CASE outcome = "paid"
        <5>1. payout'[q][p] = "paid"
          BY <3>t, <4>1, <4>4
        <5>2. paid'[q] = 1 /\ paid[q] = 0
          BY <2>p, <3>f, <3>4, <4>2, <5>1
        <5>3. paid' = [paid EXCEPT ![q] = 1]
          BY <2>d, <3>2, <5>2
        <5>4. Outcome!Pay(q)
          BY <3>1, <4>3, <5>2, <5>3 DEF Outcome!Pay, paid
        <5> QED
          BY <5>4 DEF Outcome!SettlementNext
      <4>5. CASE outcome = "failed"
        <5>1. ~\E o \in Providers : payout'[q][o] = "paid"
          BY <3>t, <4>1, <4>2, <4>5 DEF PaidOut
        <5>2. paid'[q] = paid[q]
          BY <2>p, <4>2, <5>1
        <5> QED
          BY <2>d, <3>1, <3>2, <5>2
      <4> QED
        BY <4>4, <4>5 DEF Outcomes
    <3> QED
      BY <3>3, <3>4
  <2> QED
    BY <2>1, <2>2, <2>3, PayoutSteps
<1> QED
  BY <1>1, <1>2, ChainInvariant, PTL DEF Spec, ImplementsSettlement, Outcome!SettlementSpec
=============================================================================
