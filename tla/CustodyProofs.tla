---------------------------- MODULE CustodyProofs ----------------------------
(***************************************************************************)
(* What the requests of Custody owe their users, for every set of users,   *)
(* requests and faults, every amount and every limit: money received was   *)
(* sent, money paid out was debited, and answers are true.                 *)
(*                                                                         *)
(* Every step but a restart is of one request and leaves the others' state *)
(* and rows alone (Apart), so the inductive invariant is of one request at *)
(* a time (FlowInv).                                                       *)
(***************************************************************************)
EXTENDS Custody, LedgerProofs

\* The types the argument needs; the amounts in wallets and snapshots are not
\* among them.
FlowTypes ==
    /\ TypeOK
    /\ moving \in [Refs -> {"none", "submitted", "landed", "dropped"}]
    /\ stage \in [Refs -> Stages]
    /\ answer \in [Refs -> Answers]
    /\ payout \subseteq Refs

-----------------------------------------------------------------------------
(* The invariant of one request.                                           *)

\* The kind under which its handler credits: spendToUser the recipient,
\* spendToBank the refund.
CreditKind(r) == IF Route[r] = "transfer" THEN "credit" ELSE "reversal"

\* A request moves tokens once, gets its answer last, and pays before that.
InOrder(r) ==
    /\ stage[r] = "new" => moving[r] = "none"
    /\ answer[r] # "none" => stage[r] = "done"
    /\ r \in payout => stage[r] = "done"
    /\ stage[r] = "crediting" => Route[r] \in {"transfer", "bank"}
    /\ stage[r] = "released" => Route[r] = "bank"
    /\ stage[r] = "recorded" => IsCashout(r)

\* What a request that is past its debit has booked before.
DebitIsBooked(r) ==
    /\ ~IsCashout(r) /\ stage[r] \in {"debited", "released", "crediting"} => Booked("debit", r)
    /\ IsCashout(r) /\ stage[r] \in {"debited", "recorded"} => Booked("cashout", r)

\* A cashout past its wait has its tokens in the treasury, and past its record a
\* row.
TokensLanded(r) ==
    /\ IsCashout(r) /\ stage[r] \in {"confirmed", "debited", "recorded"} => moving[r] = "landed"
    /\ stage[r] = "recorded" => <<r, "CONFIRMED">> \in depositRow

\* A spend about to be refunded no longer counts against the limit.
LimitIsReleased(r) ==
    Route[r] = "bank" /\ stage[r] \in {"released", "crediting"} => limitRow[r] # "APPLIED"

\* A credit in flight is that of its request, and what its check saw is still so.
CreditInFlight(r) ==
    Busy(r) => /\ stage[r] = "crediting"
               /\ call[r].kind = CreditKind(r) /\ call[r].ref = r
               /\ call[r].seen => Booked(CreditKind(r), r)

\* The three properties, of one request.
Received(r) == Route[r] = "transfer" /\ Booked("credit", r) => Booked("debit", r)

Paid(r) ==
    r \in payout => IF IsCashout(r) THEN Booked("cashout", r) /\ moving[r] = "landed"
                                    ELSE Booked("debit", r)

Answered(r) ==
    /\ answer[r] = "reversed" => Booked("reversal", r) /\ limitRow[r] # "APPLIED"
    /\ answer[r] = "ok" /\ Route[r] = "transfer" => Booked("credit", r)
    /\ answer[r] = "ok" /\ IsCashout(r) => <<r, "CONFIRMED">> \in depositRow
    /\ answer[r] = "ok" /\ Route[r] = "cashoutNGN" => r \in payout

FlowInv(r) ==
    /\ InOrder(r) /\ DebitIsBooked(r) /\ TokensLanded(r) /\ LimitIsReleased(r)
    /\ CreditInFlight(r) /\ Received(r) /\ Paid(r) /\ Answered(r)

CustodyInv == FlowTypes /\ \A r \in Refs : FlowInv(r)

-----------------------------------------------------------------------------
(* A step of another request.                                              *)

\* The step leaves all that belongs to request q alone.
Apart(q) ==
    /\ stage'[q] = stage[q] /\ answer'[q] = answer[q] /\ moving'[q] = moving[q]
    /\ limitRow'[q] = limitRow[q] /\ call'[q] = call[q]
    /\ q \in payout' <=> q \in payout
    /\ \A kind \in Kinds : <<kind, q>> \in journal' <=> <<kind, q>> \in journal
    /\ \A status : <<q, status>> \in depositRow' <=> <<q, status>> \in depositRow

LEMMA ApartKeepsFlow ==
    ASSUME NEW q \in Refs, FlowInv(q), Apart(q)
    PROVE  FlowInv(q)'
  <1>1. \A kind \in Kinds : Booked(kind, q)' <=> Booked(kind, q)
    BY DEF Apart, Booked
  <1>2. /\ Booked("debit", q)' <=> Booked("debit", q)
        /\ Booked("credit", q)' <=> Booked("credit", q)
        /\ Booked("reversal", q)' <=> Booked("reversal", q)
        /\ Booked("cashout", q)' <=> Booked("cashout", q)
    BY <1>1 DEF Kinds
  <1>3. Booked(CreditKind(q), q)' <=> Booked(CreditKind(q), q)
    BY <1>2 DEF CreditKind
  <1>4. Busy(q)' <=> Busy(q)
    BY DEF Apart, Busy
  <1>5. InOrder(q)' /\ DebitIsBooked(q)'
    BY <1>2 DEF Apart, FlowInv, InOrder, DebitIsBooked, IsCashout
  <1>6. TokensLanded(q)' /\ LimitIsReleased(q)'
    BY DEF Apart, FlowInv, TokensLanded, LimitIsReleased, IsCashout
  <1>7. CreditInFlight(q)'
    BY <1>3, <1>4 DEF Apart, FlowInv, CreditInFlight, CreditKind
  <1>8. Received(q)' /\ Paid(q)' /\ Answered(q)'
    BY <1>2 DEF Apart, FlowInv, Received, Paid, Answered, IsCashout
  <1> QED
    BY <1>5, <1>6, <1>7, <1>8 DEF FlowInv

\* A step of request r that leaves the others alone needs to be looked at for r only.
LEMMA OneRequest ==
    ASSUME CustodyInv, NEW r \in Refs, FlowTypes', FlowInv(r)',
           \A q \in Refs : q # r => Apart(q)
    PROVE  CustodyInv'
  BY ApartKeepsFlow DEF CustodyInv

\* Where a request goes, and what that does to the others.
LEMMA GoesTypes ==
    ASSUME FlowTypes, NEW r \in Refs, NEW from, NEW to \in Stages, Goes(r, from, to)
    PROVE  /\ stage[r] = from /\ stage'[r] = to
           /\ stage' \in [Refs -> Stages]
           /\ \A q \in Refs : q # r => stage'[q] = stage[q]
  BY DEF FlowTypes, Goes

LEMMA AnswersTypes ==
    ASSUME FlowTypes, NEW r \in Refs, NEW from, NEW said \in Answers, Answers_(r, from, said)
    PROVE  /\ stage[r] = from /\ stage'[r] = "done" /\ answer'[r] = said
           /\ stage' \in [Refs -> Stages] /\ answer' \in [Refs -> Answers]
           /\ \A q \in Refs : q # r => stage'[q] = stage[q] /\ answer'[q] = answer[q]
  BY GoesTypes DEF FlowTypes, Answers_, Goes, Stages

\* A transfer to the treasury that may have been submitted.
LEMMA SendTypes ==
    ASSUME FlowTypes, NEW r \in Refs, SendReturns(r) \/ SendThrows(r)
    PROVE  /\ moving' \in [Refs -> {"none", "submitted", "landed", "dropped"}]
           /\ \A q \in Refs : q # r => moving'[q] = moving[q]
  BY DEF FlowTypes, SendReturns, SendThrows

-----------------------------------------------------------------------------
(* Steps that leave the ledger alone.                                      *)

\* The ledger's types when nothing of it moves.
LEMMA LedgerRests ==
    ASSUME TypeOK, UNCHANGED <<storeVars, call>>
    PROVE  TypeOK'
  BY DEF TypeOK, StoreTypeOK, storeVars

\* A step of r without the ledger.
Quiet(r) ==
    /\ UNCHANGED <<storeVars, call>>
    /\ stage' \in [Refs -> Stages] /\ answer' \in [Refs -> Answers]
    /\ moving' \in [Refs -> {"none", "submitted", "landed", "dropped"}]
    /\ \A q \in Refs : q # r => /\ stage'[q] = stage[q] /\ answer'[q] = answer[q]
                               /\ moving'[q] = moving[q]
    /\ payout' \in {payout, payout \cup {r}}
    /\ \/ UNCHANGED depositRow
       \/ \E status \in {"NULL", "CONFIRMED", "FAILED"} :
             depositRow' = depositRow \cup {<<r, status>>}

LEMMA QuietStep ==
    ASSUME CustodyInv, NEW r \in Refs, Quiet(r), FlowInv(r)'
    PROVE  CustodyInv'
  <1>1. FlowTypes'
    BY LedgerRests DEF CustodyInv, FlowTypes, Quiet
  <1>2. \A q \in Refs : q # r => Apart(q)
    BY DEF Apart, Quiet, storeVars
  <1> QED
    BY <1>1, <1>2, OneRequest

\* What stays of r in such a step.
LEMMA QuietRows ==
    ASSUME FlowTypes, NEW r \in Refs, Quiet(r)
    PROVE  /\ \A kind \in Kinds : Booked(kind, r)' <=> Booked(kind, r)
           /\ Busy(r)' <=> Busy(r)
           /\ call'[r] = call[r] /\ limitRow'[r] = limitRow[r]
           /\ <<r, "CONFIRMED">> \in depositRow => <<r, "CONFIRMED">> \in depositRow'
           /\ r \in payout => r \in payout'
  BY DEF Quiet, Booked, Busy, storeVars

\* The chain: tokens arrive, a transfer lands or is dropped.
LEMMA ChainSteps ==
    ASSUME CustodyInv, NEW r \in Refs, Arrive(r) \/ Land(r) \/ Drop(r)
    PROVE  CustodyInv'
  <1>t. FlowTypes /\ FlowInv(r)
    BY DEF CustodyInv
  <1>1. CASE Arrive(r)
    <2>1. /\ stage[r] = "new" /\ stage'[r] = "confirmed" /\ ~IsCashout(r)
          /\ Route[r] = "deposit"
          /\ UNCHANGED <<moving, answer, payout, depositRow>>
      BY <1>1, <1>t, GoesTypes DEF Arrive, Stages, IsCashout, otherVars
    <2>2. Quiet(r)
      BY <1>1, <1>t, GoesTypes DEF Arrive, Stages, FlowTypes, Quiet, otherVars
    <2>3. FlowInv(r)'
      BY <1>t, <2>1, <2>2, QuietRows DEF FlowInv, InOrder, DebitIsBooked, TokensLanded,
         LimitIsReleased, CreditInFlight, Received, Paid, Answered, IsCashout, CreditKind, Kinds
    <2> QED
      BY <2>2, <2>3, QuietStep
  <1>2. CASE Land(r) \/ Drop(r)
    <2>1. /\ moving[r] = "submitted" /\ UNCHANGED <<stage, answer, payout, depositRow>>
      BY <1>2 DEF Land, Drop, otherVars, requestVars
    <2>2. Quiet(r)
      BY <1>2, <1>t DEF Land, Drop, FlowTypes, Quiet, otherVars, requestVars
    <2>3. FlowInv(r)'
      BY <1>t, <2>1, <2>2, QuietRows DEF FlowInv, InOrder, DebitIsBooked, TokensLanded,
         LimitIsReleased, CreditInFlight, Received, Paid, Answered, IsCashout, CreditKind, Kinds
    <2> QED
      BY <2>2, <2>3, QuietStep
  <1> QED
    BY <1>1, <1>2

LEMMA Choices ==
    /\ {"new", "swept", "sent", "confirmed", "recorded", "failing", "done"} \subseteq Stages
    /\ {"ok", "refused", "failed"} \subseteq Answers
  BY DEF Stages, Answers

\* Where the debit stands in each handler.
LEMMA BeforeDebit ==
    ASSUME NEW r \in Refs, Route[r] # "deposit"
    PROVE  /\ DebitFrom(r) \in {"new", "swept", "confirmed"}
           /\ IsCashout(r) => DebitFrom(r) = "confirmed"
  BY CustodyAssumption DEF DebitFrom, IsCashout, Routes

\* The handlers between the movements of the ledger: sends, waits, rows, answers.
LEMMA HandlerSteps ==
    ASSUME CustodyInv, NEW r \in Refs,
           \/ DebitRefused(r) \/ BankSweep(r) \/ ProviderAccepts(r)
           \/ CashoutRefused(r) \/ CashoutSends(r) \/ WaitConfirmed(r) \/ WaitTimesOut(r)
           \/ RecordCashout(r) \/ CashoutDone(r) \/ CashoutNGNFails(r) \/ CashoutFails(r)
    PROVE  CustodyInv'
  <1>t. FlowTypes /\ FlowInv(r)
    BY DEF CustodyInv
  <1> USE DEF FlowInv, InOrder, DebitIsBooked, TokensLanded, LimitIsReleased, CreditInFlight,
      Received, Paid, Answered, IsCashout, CreditKind, Kinds
  <1>1. CASE DebitRefused(r)
    <2>1. /\ UNCHANGED <<moving, payout, depositRow>>
          /\ stage[r] \in {"new", "swept", "confirmed"}
          /\ \/ stage'[r] = "failing" /\ IsCashout(r) /\ UNCHANGED answer
             \/ stage'[r] = "done" /\ answer'[r] = "refused"
      BY <1>1, <1>t, GoesTypes, AnswersTypes, BeforeDebit, Choices DEF DebitRefused, chainVars, otherVars
    <2>2. Quiet(r)
      BY <1>1, <1>t, GoesTypes, AnswersTypes, SendTypes, BeforeDebit, Choices DEF DebitRefused, chainVars, otherVars, FlowTypes, Quiet
    <2> QED
      BY <1>t, <2>1, <2>2, QuietRows, QuietStep
  <1>2. CASE BankSweep(r)
    <2>1. /\ UNCHANGED <<answer, payout, depositRow>>
          /\ stage[r] = "new" /\ stage'[r] = "swept" /\ Route[r] = "bank"
      BY <1>2, <1>t, GoesTypes, AnswersTypes, Choices DEF BankSweep, otherVars
    <2>2. Quiet(r)
      BY <1>2, <1>t, GoesTypes, AnswersTypes, SendTypes, Choices DEF BankSweep, otherVars, FlowTypes, Quiet
    <2> QED
      BY <1>t, <2>1, <2>2, QuietRows, QuietStep
  <1>3. CASE ProviderAccepts(r)
    <2>1. /\ UNCHANGED <<moving, depositRow>> /\ payout' = payout \cup {r}
          /\ stage'[r] = "done" /\ answer'[r] = "ok"
          /\ \/ Route[r] = "bank" /\ stage[r] = "debited"
             \/ Route[r] = "cashoutNGN" /\ stage[r] = "recorded"
      BY <1>3, <1>t, GoesTypes, AnswersTypes, Choices DEF ProviderAccepts, chainVars, otherVars
    <2>2. Quiet(r)
      BY <1>3, <1>t, GoesTypes, AnswersTypes, SendTypes, Choices DEF ProviderAccepts, chainVars, otherVars, FlowTypes, Quiet
    <2> QED
      BY <1>t, <2>1, <2>2, QuietRows, QuietStep
  <1>4. CASE CashoutRefused(r)
    <2>1. /\ UNCHANGED <<moving, payout, depositRow>> /\ IsCashout(r)
          /\ stage[r] = "new" /\ stage'[r] = "done" /\ answer'[r] = "refused"
      BY <1>4, <1>t, GoesTypes, AnswersTypes, Choices DEF CashoutRefused, chainVars, otherVars
    <2>2. Quiet(r)
      BY <1>4, <1>t, GoesTypes, AnswersTypes, SendTypes, Choices DEF CashoutRefused, chainVars, otherVars, FlowTypes, Quiet
    <2> QED
      BY <1>t, <2>1, <2>2, QuietRows, QuietStep
  <1>5. CASE CashoutSends(r)
    <2>1. /\ UNCHANGED <<answer, payout, depositRow>> /\ IsCashout(r)
          /\ stage[r] = "new" /\ stage'[r] \in {"sent", "failing"}
      BY <1>5, <1>t, GoesTypes, AnswersTypes, Choices DEF CashoutSends, otherVars
    <2>2. Quiet(r)
      BY <1>5, <1>t, GoesTypes, AnswersTypes, SendTypes, Choices DEF CashoutSends, otherVars, FlowTypes, Quiet
    <2> QED
      BY <1>t, <2>1, <2>2, QuietRows, QuietStep
  <1>6. CASE WaitConfirmed(r)
    <2>1. /\ UNCHANGED <<moving, answer, payout, depositRow>> /\ IsCashout(r)
          /\ stage[r] = "sent" /\ stage'[r] = "confirmed" /\ moving[r] = "landed"
      BY <1>6, <1>t, GoesTypes, AnswersTypes, Choices DEF WaitConfirmed, chainVars, otherVars
    <2>2. Quiet(r)
      BY <1>6, <1>t, GoesTypes, AnswersTypes, SendTypes, Choices DEF WaitConfirmed, chainVars, otherVars, FlowTypes, Quiet
    <2> QED
      BY <1>t, <2>1, <2>2, QuietRows, QuietStep
  <1>7. CASE WaitTimesOut(r)
    <2>1. /\ UNCHANGED <<moving, answer, payout, depositRow>> /\ IsCashout(r)
          /\ stage[r] = "sent" /\ stage'[r] = "failing"
      BY <1>7, <1>t, GoesTypes, AnswersTypes, Choices DEF WaitTimesOut, chainVars, otherVars
    <2>2. Quiet(r)
      BY <1>7, <1>t, GoesTypes, AnswersTypes, SendTypes, Choices DEF WaitTimesOut, chainVars, otherVars, FlowTypes, Quiet
    <2> QED
      BY <1>t, <2>1, <2>2, QuietRows, QuietStep
  <1>8. CASE RecordCashout(r)
    <2>1. /\ UNCHANGED <<moving, answer, payout>> /\ IsCashout(r)
          /\ stage[r] = "debited" /\ stage'[r] \in {"recorded", "failing"}
          /\ stage'[r] = "recorded" => <<r, "CONFIRMED">> \in depositRow'
      BY <1>8, <1>t, GoesTypes, AnswersTypes, Choices DEF RecordCashout, chainVars, otherVars
    <2>2. Quiet(r)
      BY <1>8, <1>t, GoesTypes, AnswersTypes, SendTypes, Choices DEF RecordCashout, chainVars, otherVars, FlowTypes, Quiet
    <2> QED
      BY <1>t, <2>1, <2>2, QuietRows, QuietStep
  <1>9. CASE CashoutDone(r)
    <2>1. /\ UNCHANGED <<moving, payout, depositRow>> /\ Route[r] = "cashout"
          /\ stage[r] = "recorded" /\ stage'[r] = "done" /\ answer'[r] = "ok"
      BY <1>9, <1>t, GoesTypes, AnswersTypes, Choices DEF CashoutDone, chainVars, otherVars
    <2>2. Quiet(r)
      BY <1>9, <1>t, GoesTypes, AnswersTypes, SendTypes, Choices DEF CashoutDone, chainVars, otherVars, FlowTypes, Quiet
    <2> QED
      BY <1>t, <2>1, <2>2, QuietRows, QuietStep
  <1>10. CASE CashoutNGNFails(r)
    <2>1. /\ UNCHANGED <<moving, answer, payout, depositRow>> /\ IsCashout(r)
          /\ stage[r] = "recorded" /\ stage'[r] = "failing"
      BY <1>10, <1>t, GoesTypes, AnswersTypes, Choices DEF CashoutNGNFails, chainVars, otherVars
    <2>2. Quiet(r)
      BY <1>10, <1>t, GoesTypes, AnswersTypes, SendTypes, Choices DEF CashoutNGNFails, chainVars, otherVars, FlowTypes, Quiet
    <2> QED
      BY <1>t, <2>1, <2>2, QuietRows, QuietStep
  <1>11. CASE CashoutFails(r)
    <2>1. /\ UNCHANGED <<moving, payout>> /\ IsCashout(r)
          /\ stage[r] = "failing" /\ stage'[r] = "done" /\ answer'[r] = "failed"
      BY <1>11, <1>t, GoesTypes, AnswersTypes, Choices DEF CashoutFails, chainVars, otherVars
    <2>2. Quiet(r)
      BY <1>11, <1>t, GoesTypes, AnswersTypes, SendTypes, Choices DEF CashoutFails, chainVars, otherVars, FlowTypes, Quiet
    <2> QED
      BY <1>t, <2>1, <2>2, QuietRows, QuietStep
  <1> QED
    BY <1>1, <1>2, <1>3, <1>4, <1>5, <1>6, <1>7, <1>8, <1>9, <1>10, <1>11

\* A user's row is written, a snapshot is read: nothing of a request changes.
LEMMA OtherSteps ==
    ASSUME CustodyInv, (\E r \in Refs : PersistUser(r)) \/ SnapStart \/ SnapEnd \/ UNCHANGED custodyVars
    PROVE  CustodyInv'
  <1>1. UNCHANGED <<storeVars, call, moving, requestVars, depositRow>>
    BY DEF PersistUser, SnapStart, SnapEnd, custodyVars, chainVars, otherVars
  <1>2. FlowTypes'
    BY <1>1, LedgerRests DEF CustodyInv, FlowTypes, requestVars
  <1>3. \A q \in Refs : Apart(q)
    BY <1>1 DEF Apart, storeVars, requestVars
  <1> QED
    BY <1>2, <1>3, ApartKeepsFlow DEF CustodyInv

-----------------------------------------------------------------------------
(* Steps that move the ledger.                                             *)

DebitKind(r) == IF IsCashout(r) THEN "cashout" ELSE "debit"

\* What the debit of a request writes.
LEMMA DebitWrites ==
    ASSUME FlowTypes, NEW r \in Refs, DebitNow(r)
    PROVE  /\ StoreTypeOK'
           /\ journal' = journal \cup {<<DebitKind(r), r>>}
           /\ \A q \in Refs : q # r => limitRow'[q] = limitRow[q]
  <1>t. StoreTypeOK /\ limitRow \in [Refs -> {"NONE", "APPLIED", "RELEASED"}]
    BY DEF FlowTypes, TypeOK, StoreTypeOK
  <1>1. CASE IsCashout(r)
    <2>1. /\ Book("cashout", r, Available(Payer[r]) - Amount[r])
          /\ UNCHANGED limitVars
      BY <1>1 DEF DebitNow
    <2>2. "cashout" \in Kinds /\ Available(Payer[r]) - Amount[r] \in Int
      BY <1>t, AvailableInt, StoreAssumption DEF Kinds
    <2>3. journal' = journal \cup {<<"cashout", r>>}
      BY <2>1 DEF Book
    <2> QED
      BY <1>1, <1>t, <2>1, <2>2, <2>3, BookTypes DEF StoreTypeOK, limitVars, DebitKind
  <1>2. CASE ~IsCashout(r)
    <2>1. DebitTx(r, TRUE)
      BY <1>2 DEF DebitNow
    <2>2. StoreTypeOK'
      BY <1>t, <2>1, DebitTypes
    <2>3. journal' = journal \cup {<<"debit", r>>}
      BY <2>1 DEF DebitTx, Book
    <2>4. \A q \in Refs : q # r => limitRow'[q] = limitRow[q]
      BY <1>t, <2>1 DEF DebitTx, limitVars
    <2> QED
      BY <1>2, <2>2, <2>3, <2>4 DEF DebitKind
  <1> QED
    BY <1>1, <1>2

\* The debit of a spend or a cashout, and of a bill.
LEMMA DebitSteps ==
    ASSUME CustodyInv, NEW r \in Refs, DebitOk(r) \/ PayBill(r)
    PROVE  CustodyInv'
  <1>t. FlowTypes /\ FlowInv(r) /\ TypeOK
    BY DEF CustodyInv, FlowTypes
  <1>1. /\ UNCHANGED <<call, moving, payout, depositRow>> /\ DebitNow(r)
        /\ stage' \in [Refs -> Stages] /\ answer' \in [Refs -> Answers]
        /\ \A q \in Refs : q # r => stage'[q] = stage[q] /\ answer'[q] = answer[q]
        /\ \/ stage'[r] = "debited" /\ UNCHANGED answer
              /\ Route[r] \in {"transfer", "bank", "cashout", "cashoutNGN"}
           \/ stage'[r] = "done" /\ answer'[r] = "ok" /\ Route[r] = "bill"
        /\ stage[r] \in {"new", "swept", "confirmed"}
        /\ IsCashout(r) => stage[r] = "confirmed"
    BY <1>t, GoesTypes, AnswersTypes, BeforeDebit
    DEF DebitOk, PayBill, chainVars, otherVars, FlowTypes, Stages, Answers, IsCashout, DebitFrom
  <1>2. FlowTypes'
    BY <1>t, <1>1, DebitWrites DEF FlowTypes, TypeOK
  <1>3. \A q \in Refs : q # r => Apart(q)
    BY <1>t, <1>1, DebitWrites DEF Apart
  <1>4. /\ Booked(DebitKind(r), r)'
        /\ Busy(r)' <=> Busy(r)
        /\ \A kind \in Kinds : Booked(kind, r) => Booked(kind, r)'
        /\ Booked("credit", r)' <=> Booked("credit", r)
    BY <1>t, <1>1, DebitWrites DEF Booked, Busy, DebitKind
  <1>5. answer[r] = "none" /\ r \notin payout /\ ~Busy(r)
        /\ (IsCashout(r) => moving[r] = "landed")
    BY <1>t, <1>1 DEF FlowInv, InOrder, CreditInFlight, TokensLanded
  <1>6. IF IsCashout(r) THEN Booked("cashout", r)' ELSE Booked("debit", r)'
    BY <1>4 DEF DebitKind
  <1>7. stage'[r] \in {"debited", "done"} /\ moving'[r] = moving[r]
    BY <1>1
  <1>8. InOrder(r)' /\ TokensLanded(r)' /\ LimitIsReleased(r)'
    BY <1>1, <1>5, <1>7 DEF InOrder, TokensLanded, LimitIsReleased, IsCashout
  <1>9. DebitIsBooked(r)'
    BY <1>6, <1>7 DEF DebitIsBooked, IsCashout
  <1>10. CreditInFlight(r)' /\ Paid(r)' /\ Answered(r)'
    <2>1. r \notin payout' /\ ~Busy(r)'
      BY <1>1, <1>4, <1>5
    <2>2. answer'[r] = "none" \/ (answer'[r] = "ok" /\ Route[r] = "bill")
      BY <1>1, <1>5
    <2> QED
      BY <2>1, <2>2 DEF CreditInFlight, Paid, Answered, IsCashout
  <1>11. Received(r)'
    BY <1>t, <1>6 DEF Received, IsCashout
  <1>12. FlowInv(r)'
    BY <1>8, <1>9, <1>10, <1>11 DEF FlowInv
  <1> QED
    BY <1>2, <1>3, <1>12, OneRequest

\* The worker's credit of a deposit.
LEMMA DepositSteps ==
    ASSUME CustodyInv, NEW r \in Refs, CreditDeposit(r)
    PROVE  CustodyInv'
  <1>t. FlowTypes /\ FlowInv(r) /\ TypeOK /\ StoreTypeOK
    BY DEF CustodyInv, FlowTypes, TypeOK
  <1>1. /\ UNCHANGED <<call, moving, answer, payout>> /\ CreditTx("credit", r)
        /\ stage' \in [Refs -> Stages]
        /\ \A q \in Refs : q # r => stage'[q] = stage[q]
        /\ stage[r] = "confirmed" /\ stage'[r] = "done" /\ Route[r] = "deposit"
        /\ depositRow' = depositRow \cup {<<r, "NULL">>}
    BY <1>t, GoesTypes DEF CreditDeposit, chainVars, Stages
  <1>2. /\ StoreTypeOK' /\ UNCHANGED limitRow
        /\ journal' = journal \cup {<<"credit", r>>}
    BY <1>t, <1>1, CreditTypes DEF CreditTx, Book, Kinds, limitVars
  <1>3. FlowTypes'
    BY <1>t, <1>1, <1>2 DEF FlowTypes, TypeOK
  <1>4. \A q \in Refs : q # r => Apart(q)
    BY <1>1, <1>2 DEF Apart
  <1>5. (Busy(r)' <=> Busy(r)) /\ \A kind \in Kinds : Booked(kind, r) => Booked(kind, r)'
    BY <1>1, <1>2 DEF Booked, Busy
  <1>6. FlowInv(r)'
    BY <1>t, <1>1, <1>2, <1>5 DEF FlowInv, InOrder, DebitIsBooked, TokensLanded, LimitIsReleased,
       CreditInFlight, Received, Paid, Answered, IsCashout, CreditKind, Kinds
  <1> QED
    BY <1>3, <1>4, <1>6, OneRequest

\* The limit is given back before the refund starts.
LEMMA ReleaseSteps ==
    ASSUME CustodyInv, NEW r \in Refs, BankFails(r)
    PROVE  CustodyInv'
  <1>t. FlowTypes /\ FlowInv(r) /\ TypeOK /\ StoreTypeOK
    BY DEF CustodyInv, FlowTypes, TypeOK
  <1>1. /\ UNCHANGED <<call, moving, answer, payout, depositRow, journal>>
        /\ stage' \in [Refs -> Stages]
        /\ \A q \in Refs : q # r => stage'[q] = stage[q]
        /\ stage[r] = "debited" /\ stage'[r] = "released" /\ Route[r] = "bank"
    BY <1>t, GoesTypes DEF BankFails, ReleaseSpendLimit, chainVars, otherVars, Stages
  <1>2. /\ StoreTypeOK' /\ limitRow'[r] # "APPLIED"
        /\ \A q \in Refs : q # r => limitRow'[q] = limitRow[q]
    BY <1>t DEF BankFails, ReleaseSpendLimit, StoreTypeOK
  <1>3. FlowTypes'
    BY <1>t, <1>1, <1>2 DEF FlowTypes, TypeOK
  <1>4. \A q \in Refs : q # r => Apart(q)
    BY <1>1, <1>2 DEF Apart
  <1>5. (Busy(r)' <=> Busy(r)) /\ \A kind \in Kinds : Booked(kind, r)' <=> Booked(kind, r)
    BY <1>1 DEF Booked, Busy
  <1>6. FlowInv(r)'
    BY <1>t, <1>1, <1>2, <1>5 DEF FlowInv, InOrder, DebitIsBooked, TokensLanded, LimitIsReleased,
       CreditInFlight, Received, Paid, Answered, IsCashout, CreditKind, Kinds
  <1> QED
    BY <1>3, <1>4, <1>6, OneRequest

\* A credit begins, or finds no row to lock: the ledger's call is of this request.
LEMMA CallSteps ==
    ASSUME CustodyInv, NEW r \in Refs, StartCredit(r) \/ LockNothing(r)
    PROVE  CustodyInv'
  <1>t. FlowTypes /\ FlowInv(r) /\ TypeOK /\ StoreTypeOK /\ r \in Callers
    BY CustodyAssumption DEF CustodyInv, FlowTypes, TypeOK
  <1>1. CASE StartCredit(r)
    <2> DEFINE started == [stage |-> "checked", kind |-> CreditKind(r), ref |-> r,
                           seen |-> Booked(CreditKind(r), r), base |-> 0]
    <2>1. /\ UNCHANGED <<storeVars, moving, answer, payout, depositRow>>
          /\ stage' \in [Refs -> Stages]
          /\ \A q \in Refs : q # r => stage'[q] = stage[q]
          /\ stage'[r] = "crediting"
          /\ \/ Route[r] = "transfer" /\ stage[r] = "debited"
             \/ Route[r] = "bank" /\ stage[r] = "released"
          /\ call' = [call EXCEPT ![r] = started]
      BY <1>1, <1>t, GoesTypes
      DEF StartCredit, BeginCredit, CreditKind, chainVars, otherVars, Stages
    <2>2. started \in Calls
      BY DEF Calls, CreditKinds, CreditKind, Booked
    <2>3. TypeOK' /\ call'[r] = started
      BY <1>t, <2>1, <2>2 DEF TypeOK, StoreTypeOK, storeVars
    <2>4. FlowTypes'
      BY <1>t, <2>1, <2>3 DEF FlowTypes
    <2>5. \A q \in Refs : q # r => Apart(q)
      BY <1>t, <2>1 DEF Apart, storeVars, TypeOK
    <2>6. /\ \A kind \in Kinds : Booked(kind, r)' <=> Booked(kind, r)
          /\ limitRow' = limitRow
      BY <2>1 DEF Booked, storeVars
    <2>7. /\ call'[r].kind = CreditKind(r) /\ call'[r].ref = r
          /\ call'[r].seen => Booked(CreditKind(r), r)
      BY <2>3
    <2>8. FlowInv(r)'
      BY <1>t, <2>1, <2>6, <2>7 DEF FlowInv, InOrder, DebitIsBooked, TokensLanded, LimitIsReleased,
         CreditInFlight, Received, Paid, Answered, IsCashout, CreditKind, Kinds
    <2> QED
      BY <2>4, <2>5, <2>8, OneRequest
  <1>2. CASE LockNothing(r)
    <2>1. /\ UNCHANGED <<storeVars, moving, stage, answer, payout, depositRow>> /\ Busy(r)
          /\ call' = [call EXCEPT ![r].stage = "unlocked", ![r].base = latest[Owner(r)]]
      BY <1>2 DEF LockNothing, ReadUnlocked, chainVars, requestVars, otherVars
    <2>2. call[r] \in Calls /\ latest[Owner(r)] \in Int
      BY <1>t, <2>1, BusyCall DEF StoreTypeOK
    <2>3. [[call[r] EXCEPT !.stage = "unlocked"] EXCEPT !.base = latest[Owner(r)]] \in Calls
      BY <2>2 DEF Calls
    <2>4. TypeOK'
      BY <1>t, <2>1, <2>3 DEF TypeOK, StoreTypeOK, storeVars
    <2>5. /\ call'[r].kind = call[r].kind /\ call'[r].ref = call[r].ref
          /\ call'[r].seen = call[r].seen
      BY <1>t, <2>1, <2>2 DEF TypeOK, Calls
    <2>6. FlowTypes'
      BY <1>t, <2>1, <2>4 DEF FlowTypes
    <2>7. \A q \in Refs : q # r => Apart(q)
      <3>1. \A q \in Refs : q # r => call'[q] = call[q]
        BY <1>t, <2>1, CustodyAssumption DEF TypeOK
      <3> QED
        BY <2>1, <3>1 DEF Apart, storeVars
    <2>8. /\ \A kind \in Kinds : Booked(kind, r)' <=> Booked(kind, r)
          /\ limitRow' = limitRow
      BY <2>1 DEF Booked, storeVars
    <2>9. FlowInv(r)'
      BY <1>t, <2>1, <2>5, <2>8 DEF FlowInv, InOrder, DebitIsBooked, TokensLanded, LimitIsReleased,
         CreditInFlight, Received, Paid, Answered, IsCashout, CreditKind, Kinds
    <2> QED
      BY <2>6, <2>7, <2>9, OneRequest
  <1> QED
    BY <1>1, <1>2

\* creditBalanceAtomic returns or throws: the entry is there, or nothing moved.
LEMMA CreditSteps ==
    ASSUME CustodyInv, NEW r \in Refs, CreditReturns(r) \/ CreditThrows(r)
    PROVE  CustodyInv'
  <1>t. FlowTypes /\ FlowInv(r) /\ TypeOK /\ StoreTypeOK /\ r \in Callers
    BY CustodyAssumption DEF CustodyInv, FlowTypes, TypeOK
  <1>1. /\ UNCHANGED <<moving, payout, depositRow>> /\ Return(r) /\ Busy(r)
    BY DEF CreditReturns, CreditThrows, FinishUnchanged, FinishLocked, FinishUnlocked, Abort,
       chainVars, otherVars
  <1>2. /\ stage' \in [Refs -> Stages] /\ answer' \in [Refs -> Answers]
        /\ stage[r] = "crediting" /\ stage'[r] = "done"
        /\ \A q \in Refs : q # r => stage'[q] = stage[q] /\ answer'[q] = answer[q]
        /\ \/ answer'[r] = (IF Route[r] = "bank" THEN "reversed" ELSE "ok") /\ CreditReturns(r)
           \/ answer'[r] = "failed" /\ CreditThrows(r)
    BY <1>t, AnswersTypes DEF CreditReturns, CreditThrows, Answers
  <1>3. /\ call' \in [Callers -> Calls \cup {NoCall}] /\ ~Busy(r)'
        /\ \A q \in Refs : q # r => call'[q] = call[q]
    BY <1>t, <1>1, CustodyAssumption DEF Return, TypeOK, Busy
  <1>4. /\ call[r].kind = CreditKind(r) /\ call[r].ref = r /\ CreditKind(r) \in Kinds
        /\ Booked("debit", r) /\ Route[r] \in {"transfer", "bank"}
        /\ call[r].seen => Booked(CreditKind(r), r)
        /\ r \notin payout /\ ~IsCashout(r)
    BY <1>t, <1>1, <1>2 DEF FlowInv, CreditInFlight, InOrder, DebitIsBooked, CreditKind, Kinds,
       IsCashout
  <1>5. /\ StoreTypeOK' /\ limitRow' = limitRow
        /\ \/ journal' = journal /\ (CreditReturns(r) => Booked(CreditKind(r), r))
           \/ journal' = journal \cup {<<CreditKind(r), r>>}
    <2>1. CASE FinishUnchanged(r)
      BY <1>t, <1>4, <2>1 DEF FinishUnchanged, ReversalAllowed, storeVars, StoreTypeOK
    <2>2. CASE FinishLocked(r)
      <3>1. CreditTx(CreditKind(r), r)
        BY <1>4, <2>2 DEF FinishLocked
      <3> QED
        BY <1>t, <1>4, <3>1, CreditTypes DEF CreditTx, Book, limitVars
    <2>3. CASE FinishUnlocked(r)
      <3>1. Book(CreditKind(r), r, call[r].base + Amount[r]) /\ UNCHANGED limitVars
        BY <1>4, <2>3 DEF FinishUnlocked
      <3>2. call[r].base + Amount[r] \in Int
        BY <1>t, <1>1, <1>4, BusyCall
      <3>3. journal' = journal \cup {<<CreditKind(r), r>>}
        BY <3>1 DEF Book
      <3> QED
        BY <1>t, <1>4, <3>1, <3>2, <3>3, BookTypes DEF limitVars, StoreTypeOK
    <2>4. CASE CreditThrows(r) /\ ~CreditReturns(r)
      BY <1>t, <2>4 DEF CreditThrows, Abort, storeVars, StoreTypeOK
    <2> QED
      BY <2>1, <2>2, <2>3, <2>4 DEF CreditReturns
  <1>6. FlowTypes'
    BY <1>t, <1>1, <1>2, <1>3, <1>5 DEF FlowTypes, TypeOK
  <1>7. \A q \in Refs : q # r => Apart(q)
    BY <1>1, <1>2, <1>3, <1>5 DEF Apart
  <1>8. /\ \A kind \in Kinds : Booked(kind, r) => Booked(kind, r)'
        /\ CreditReturns(r) => Booked(CreditKind(r), r)'
    BY <1>5 DEF Booked
  <1>9. FlowInv(r)'
    BY <1>t, <1>1, <1>2, <1>3, <1>4, <1>5, <1>8 DEF FlowInv, InOrder, DebitIsBooked, TokensLanded,
       LimitIsReleased, CreditInFlight, Received, Paid, Answered, CreditKind, Kinds, IsCashout
  <1> QED
    BY <1>6, <1>7, <1>9, OneRequest

-----------------------------------------------------------------------------
(* A restart ends every request, and takes nothing back.                   *)

LEMMA RestartStep ==
    ASSUME CustodyInv, Restart
    PROVE  CustodyInv'
  <1>t. FlowTypes /\ TypeOK /\ StoreTypeOK
    BY DEF CustodyInv, FlowTypes, TypeOK
  <1>1. /\ UNCHANGED <<storeVars, moving, answer, payout, depositRow>>
        /\ call' = [p \in Callers |-> NoCall]
        /\ stage' \in [Refs -> Stages]
        /\ \A r \in Refs : stage'[r] = stage[r] \/ stage'[r] = "done"
    BY <1>t DEF Restart, chainVars, otherVars, FlowTypes, Stages
  <1>2. FlowTypes'
    BY <1>t, <1>1 DEF FlowTypes, TypeOK, StoreTypeOK, storeVars
  <1>3. ASSUME NEW r \in Refs
        PROVE  FlowInv(r)'
    <2>1. FlowInv(r) /\ ~Busy(r)'
      BY <1>1, CustodyAssumption DEF CustodyInv, Busy
    <2>2. /\ \A kind \in Kinds : Booked(kind, r)' <=> Booked(kind, r)
          /\ limitRow' = limitRow
      BY <1>1 DEF Booked, storeVars
    <2>3. stage'[r] = stage[r] \/ stage'[r] = "done"
      BY <1>1
    <2> QED
      BY <1>1, <2>1, <2>2, <2>3 DEF FlowInv, InOrder, DebitIsBooked, TokensLanded, LimitIsReleased,
         CreditInFlight, Received, Paid, Answered, IsCashout, CreditKind, Kinds
  <1> QED
    BY <1>2, <1>3 DEF CustodyInv

-----------------------------------------------------------------------------
(* The theorems.                                                           *)

LEMMA CustodyStarts == CustodyInit => CustodyInv
  <1> SUFFICES ASSUME CustodyInit PROVE CustodyInv
    OBVIOUS
  <1>1. TypeOK
    BY StoreAssumption DEF CustodyInit, Init, StoreInit, TypeOK, StoreTypeOK
  <1>2. FlowTypes
    BY <1>1 DEF CustodyInit, FlowTypes, Stages, Answers
  <1>3. ASSUME NEW r \in Refs
        PROVE  FlowInv(r)
    BY CustodyAssumption DEF CustodyInit, Init, StoreInit, Booked, Busy, FlowInv, InOrder,
       DebitIsBooked, TokensLanded, LimitIsReleased, CreditInFlight, Received, Paid, Answered
  <1> QED
    BY <1>2, <1>3 DEF CustodyInv

LEMMA CustodyStep == CustodyInv /\ [CustodyNext]_custodyVars => CustodyInv'
  BY ChainSteps, HandlerSteps, OtherSteps, DebitSteps, DepositSteps, ReleaseSteps, CallSteps,
     CreditSteps, RestartStep
  DEF CustodyNext

LEMMA CustodyAlways == CustodySpec => []CustodyInv
  BY CustodyStarts, CustodyStep, PTL DEF CustodySpec

\* Money received from another user was taken from that user, whatever requests
\* overlap, fail or are cut off.
THEOREM ReceivedMoneyWasSent == CustodySpec => []ReceivedWasSent
<1>1. CustodyInv => ReceivedWasSent
  BY DEF CustodyInv, FlowInv, Received, ReceivedWasSent
<1> QED
  BY <1>1, CustodyAlways, PTL

\* Naira is paid out only for a debit, and for a cashout only for tokens that
\* reached the treasury.
THEOREM PaidMoneyWasDebited == CustodySpec => []PaidWasDebited
<1>1. CustodyInv => PaidWasDebited
  BY DEF CustodyInv, FlowTypes, FlowInv, Paid, PaidWasDebited
<1> QED
  BY <1>1, CustodyAlways, PTL

\* What a client is told about its request is so, and stays so.
THEOREM AnswersAreTrue == CustodySpec => []AnswerIsTrue
<1>1. CustodyInv => AnswerIsTrue
  BY DEF CustodyInv, FlowInv, Answered, AnswerIsTrue
<1> QED
  BY <1>1, CustodyAlways, PTL

-----------------------------------------------------------------------------
(* The money of the whole.  The sum of all balances moves with the tokens   *)
(* held only once what is under way is counted: tokens that came in and are *)
(* not credited, and debits of a transfer or a payout that may still be     *)
(* credited or refunded.  A credit or a refund given up, by an error or a   *)
(* restart, lowers what is owed.                                            *)
(*                                                                          *)
(* A user without an account row is taken to have had no balance: a credit  *)
(* that found no row to lock writes its stale base (see the run             *)
(* ledger_first_credit), which hands out no money only while that is zero.  *)

\* Debited, and still to be credited to somebody.
OnTheWay == {r \in Refs : /\ Route[r] \in {"transfer", "bank"}
                          /\ stage[r] \in {"debited", "released", "crediting"}}

\* Deposits the worker has credited, and those that have reached their wallet.
Credited == {r \in Refs : <<r, "NULL">> \in depositRow}

Came == {r \in Refs : Route[r] = "deposit" /\ stage[r] = "confirmed"} \cup Credited

AmountOf(S) == SumFunctionOnSet(Amount, S)

Owed == Total([u \in Users |-> Available(u)])

Held == Total(wallet) + treasury

\* No balance is negative, and a base that will be written is zero.
BasesAreZero ==
    /\ \A u \in Users : Available(u) >= 0
    /\ \A u \in Users : ~HasAccount(u) => latest[u] = 0
    /\ \A r \in Refs : Busy(r) /\ call[r].stage = "unlocked" => call[r].base = 0

\* The wallets hold numbers, and what is under way is finite.
FundTypes ==
    /\ wallet \in [Users -> Int] /\ treasury \in Int
    /\ IsFiniteSet(OnTheWay) /\ IsFiniteSet(Came)
    /\ \A r \in Credited : Route[r] = "deposit" /\ stage[r] = "done"

\* Balances, and the credits under way, come from the start and from deposits.
Covered == Owed + AmountOf(OnTheWay) <= Total(Opening) + AmountOf(Credited)

\* Tokens come from outside alone.
Conserved == Held = Total(WalletAtStart) + TreasuryAtStart + AmountOf(Came)

\* What the snapshot read is covered by what it will read.
SnapInv ==
    /\ snap.stage = "reading" => snap.liability <= Total(Opening) + AmountOf(Credited)
    /\ SnapshotIsBacked

-----------------------------------------------------------------------------
(* Sums of amounts and of balances.                                        *)

LEMMA AmountOfType ==
    ASSUME NEW S \in SUBSET Refs, IsFiniteSet(S)
    PROVE  /\ AmountOf(S) \in Nat
           /\ \A T \in SUBSET S : AmountOf(T) \in Nat /\ AmountOf(T) <= AmountOf(S)
           /\ \A r \in Refs : r \notin S => AmountOf(S \cup {r}) = AmountOf(S) + Amount[r]
           /\ \A r \in S : AmountOf(S \ {r}) = AmountOf(S) - Amount[r]
<1>1. \A r \in Refs : Amount[r] \in Nat
  BY StoreAssumption
<1>2. ASSUME NEW T \in SUBSET S
      PROVE  AmountOf(T) \in Nat
  <2>1. IsFiniteSet(T) /\ \A r \in T : Amount[r] \in Int /\ Amount[r] >= 0
    BY <1>1, FS_Subset
  <2>2. SumFunctionOnSet(Amount, T) \in Int /\ SumFunctionOnSet(Amount, T) >= 0
    BY <2>1, SumType
  <2> QED
    BY <2>2 DEF AmountOf
<1>3. ASSUME NEW T \in SUBSET S
      PROVE  AmountOf(T) <= AmountOf(S)
  <2>1. \A r \in S : Amount[r] \in Nat
    BY <1>1
  <2> QED
    BY <2>1, SumSubset DEF AmountOf
<1>4. ASSUME NEW r \in Refs, r \notin S
      PROVE  AmountOf(S \cup {r}) = AmountOf(S) + Amount[r]
  <2>1. \A x \in S \cup {r} : Amount[x] \in Int
    BY <1>1
  <2>2. SumFunctionOnSet(Amount, S \cup {r}) = Amount[r] + SumFunctionOnSet(Amount, S)
    BY <1>4, <2>1, SumInsert
  <2>3. SumFunctionOnSet(Amount, S) \in Int /\ Amount[r] \in Int
    BY <1>1, <1>2 DEF AmountOf
  <2> QED
    BY <2>2, <2>3 DEF AmountOf
<1>5. ASSUME NEW r \in S
      PROVE  AmountOf(S \ {r}) = AmountOf(S) - Amount[r]
  <2>1. \A x \in S : Amount[x] \in Int
    BY <1>1
  <2>2. SumFunctionOnSet(Amount, S) = Amount[r] + SumFunctionOnSet(Amount, S \ {r})
    BY <2>1, SumRemove
  <2>3. SumFunctionOnSet(Amount, S \ {r}) \in Int /\ Amount[r] \in Int
    BY <2>1, <1>2 DEF AmountOf
  <2> QED
    BY <2>2, <2>3 DEF AmountOf
<1> QED
  BY <1>2, <1>3, <1>4, <1>5

LEMMA OwedType ==
    ASSUME StoreTypeOK, NoHiddenBalance
    PROVE  Owed \in Int
<1> DEFINE f == [u \in Users |-> Available(u)]
<1>1. \A u \in Users : f[u] \in Int
  BY AvailableInt
<1>2. SumFunctionOnSet(f, Users) \in Int
  BY <1>1, SumType DEF NoHiddenBalance
<1> QED
  BY <1>2 DEF Owed, Total

\* A booking changes what is owed by as much as the one balance it sets.
LEMMA OwedMoves ==
    ASSUME StoreTypeOK, NoHiddenBalance, NEW kind \in Kinds, NEW r \in Refs,
           NEW balance \in Int, Book(kind, r, balance)
    PROVE  Owed' = Owed + balance - Available(Party(kind, r))
<1> DEFINE f == [u \in Users |-> Available(u)]
           v == Party(kind, r)
<1>1. v \in Users /\ IsFiniteSet(Users)
  BY PartyIsUser DEF NoHiddenBalance
<1>2. f' = [f EXCEPT ![v] = balance]
  BY BookMovesBalance
<1> DEFINE h == [f EXCEPT ![v] = balance]
<1>3. /\ \A u \in Users : f[u] \in Int /\ h[u] \in Int
      /\ \A u \in Users \ {v} : f[u] = h[u]
      /\ h[v] = balance /\ f[v] = Available(v)
      /\ DOMAIN f = Users /\ DOMAIN h = Users
  BY <1>1, AvailableInt
<1>4. Owed' = SumFunctionOnSet(h, Users) /\ Owed = SumFunctionOnSet(f, Users)
  BY <1>2, <1>3 DEF Owed, Total
<1> HIDE DEF f, h, v
<1>5. SumFunctionOnSet(h, Users) = SumFunctionOnSet(f, Users) + h[v] - f[v]
  BY <1>1, <1>3, SumExcept
<1> QED
  BY <1>3, <1>4, <1>5 DEF v

\* The snapshot's sum over the rows is at most what is owed.
LEMMA LiabilityIsOwed ==
    ASSUME StoreTypeOK, NoHiddenBalance, BasesAreZero
    PROVE  LiabilityNow \in Int /\ LiabilityNow <= Owed
<1> DEFINE f == [u \in Users |-> Available(u)]
           S == {u \in Users : HasAccount(u)}
<1>1. /\ IsFiniteSet(Users) /\ S \in SUBSET Users /\ IsFiniteSet(S) /\ DOMAIN f = Users
      /\ \A u \in Users : f[u] \in Nat
      /\ \A u \in S : account[u] = f[u] /\ f[u] \in Int
  BY AvailableInt, FS_Subset DEF NoHiddenBalance, BasesAreZero, Available
<1>2. LiabilityNow = SumFunctionOnSet(account, S) /\ Owed = SumFunctionOnSet(f, Users)
  BY DEF LiabilityNow, Owed, Total
<1> HIDE DEF f, S
<1>3. SumFunctionOnSet(account, S) = SumFunctionOnSet(f, S)
  BY <1>1, SumSame
<1>4. SumFunctionOnSet(f, S) \in Int
  BY <1>1, SumType
<1>5. SumFunctionOnSet(f, S) <= SumFunctionOnSet(f, Users)
  BY <1>1, SumSubset
<1> QED
  BY <1>2, <1>3, <1>4, <1>5

-----------------------------------------------------------------------------
(* What the steps do to what is under way.                                 *)

\* A step that moves no balance puts no credit on the way and credits no deposit.
MoneyRests ==
    /\ UNCHANGED <<account, latest>>
    /\ OnTheWay' \subseteq OnTheWay
    /\ Credited' = Credited

LEMMA RestingSteps ==
    ASSUME CustodyInv, NEW r \in Refs,
           \/ Arrive(r) \/ Land(r) \/ Drop(r)
           \/ DebitRefused(r) \/ BankSweep(r) \/ ProviderAccepts(r) \/ BankFails(r)
           \/ CashoutRefused(r) \/ CashoutSends(r) \/ WaitConfirmed(r) \/ WaitTimesOut(r)
           \/ RecordCashout(r) \/ CashoutDone(r) \/ CashoutNGNFails(r) \/ CashoutFails(r)
           \/ PersistUser(r) \/ StartCredit(r) \/ LockNothing(r)
           \/ (FinishUnchanged(r) /\ CreditReturns(r)) \/ CreditThrows(r)
    PROVE  MoneyRests
<1>t. FlowTypes /\ FlowInv(r)
  BY DEF CustodyInv
<1>1. UNCHANGED <<account, latest>>
  BY DEF Arrive, Land, Drop, DebitRefused, BankSweep, ProviderAccepts, BankFails,
     CashoutRefused, CashoutSends, WaitConfirmed, WaitTimesOut, RecordCashout, CashoutDone,
     CashoutNGNFails, CashoutFails, PersistUser, StartCredit, BeginCredit, LockNothing,
     ReadUnlocked, FinishUnchanged, CreditThrows, Abort, ReleaseSpendLimit, storeVars
<1>2. Credited' = Credited
  <2>1. \/ UNCHANGED depositRow
        \/ \E status \in {"CONFIRMED", "FAILED"} : depositRow' = depositRow \cup {<<r, status>>}
    BY DEF Arrive, Land, Drop, DebitRefused, BankSweep, ProviderAccepts, BankFails,
       CashoutRefused, CashoutSends, WaitConfirmed, WaitTimesOut, RecordCashout, CashoutDone,
       CashoutNGNFails, CashoutFails, PersistUser, StartCredit, LockNothing, CreditReturns,
       CreditThrows, otherVars
  <2> QED
    BY <2>1 DEF Credited
<1>3. OnTheWay' \subseteq OnTheWay
  <2>1. \A q \in Refs : q # r => stage'[q] = stage[q]
    BY <1>t DEF FlowTypes, Arrive, Land, Drop, DebitRefused, BankSweep, ProviderAccepts, BankFails,
       CashoutRefused, CashoutSends, WaitConfirmed, WaitTimesOut, RecordCashout, CashoutDone,
       CashoutNGNFails, CashoutFails, PersistUser, StartCredit, LockNothing, CreditReturns,
       CreditThrows, Answers_, Goes, requestVars
  <2>2. \/ stage'[r] = stage[r]
        \/ stage'[r] \in {"swept", "sent", "confirmed", "recorded", "failing", "done"}
        \/ stage[r] \in {"debited", "released"}
    BY <1>t DEF FlowTypes, Arrive, Land, Drop, DebitRefused, BankSweep, ProviderAccepts, BankFails,
       CashoutRefused, CashoutSends, WaitConfirmed, WaitTimesOut, RecordCashout, CashoutDone,
       CashoutNGNFails, CashoutFails, PersistUser, StartCredit, LockNothing, CreditReturns,
       CreditThrows, Answers_, Goes, requestVars
  <2> QED
    BY <2>1, <2>2 DEF OnTheWay
<1> QED
  BY <1>1, <1>2, <1>3 DEF MoneyRests

\* So does a step of no request, or of all: a snapshot, a restart.
LEMMA RestingOthers ==
    ASSUME CustodyInv, SnapStart \/ SnapEnd \/ Restart \/ UNCHANGED custodyVars
    PROVE  MoneyRests
<1>1. UNCHANGED <<account, latest, depositRow>>
  BY DEF SnapStart, SnapEnd, Restart, custodyVars, storeVars, otherVars
<1>2. \A r \in Refs : stage'[r] = stage[r] \/ stage'[r] = "done"
  BY DEF SnapStart, SnapEnd, Restart, custodyVars, requestVars
<1> QED
  BY <1>1, <1>2 DEF MoneyRests, Credited, OnTheWay

\* A debit takes the amount from the payer, and may put it on the way.
LEMMA DebitMoves ==
    ASSUME CustodyInv, NEW r \in Refs, DebitOk(r) \/ PayBill(r)
    PROVE  /\ DebitKind(r) \in Kinds
           /\ Available(Payer[r]) >= Amount[r] /\ Party(DebitKind(r), r) = Payer[r]
           /\ Book(DebitKind(r), r, Available(Payer[r]) - Amount[r])
           /\ OnTheWay' \subseteq OnTheWay \cup {r} /\ Credited' = Credited
           /\ UNCHANGED call
<1>t. FlowTypes
  BY DEF CustodyInv
<1>1. DebitNow(r) /\ Affordable(r) /\ UNCHANGED <<depositRow, call>>
  BY DEF DebitOk, PayBill, otherVars
<1>2. \A q \in Refs : q # r => stage'[q] = stage[q]
  BY <1>t DEF DebitOk, PayBill, FlowTypes, Answers_, Goes
<1>3. DebitKind(r) \in Kinds /\ Party(DebitKind(r), r) = Payer[r]
  BY DEF DebitKind, Kinds, Party
<1>4. Available(Payer[r]) >= Amount[r] /\ Book(DebitKind(r), r, Available(Payer[r]) - Amount[r])
  BY <1>1 DEF DebitNow, Affordable, CanDebit, DebitTx, DebitKind
<1> QED
  BY <1>1, <1>2, <1>3, <1>4 DEF OnTheWay, Credited

\* The worker's credit.
LEMMA DepositMoves ==
    ASSUME CustodyInv, FundTypes, NEW r \in Refs, CreditDeposit(r)
    PROVE  /\ "credit" \in Kinds
           /\ Book("credit", r, Available(Party("credit", r)) + Amount[r])
           /\ OnTheWay' = OnTheWay /\ r \in Came /\ Came' = Came
           /\ r \notin Credited /\ Credited' = Credited \cup {r}
           /\ Route[r] = "deposit" /\ stage'[r] = "done"
           /\ \A q \in Refs : q # r => stage'[q] = stage[q]
           /\ UNCHANGED call
<1>t. FlowTypes
  BY DEF CustodyInv
<1>1. /\ stage[r] = "confirmed" /\ stage'[r] = "done" /\ Route[r] = "deposit"
      /\ \A q \in Refs : q # r => stage'[q] = stage[q]
  BY <1>t DEF CreditDeposit, Goes, FlowTypes
<1>2. Credited' = Credited \cup {r} /\ r \notin Credited
  BY <1>1 DEF CreditDeposit, Credited, FundTypes
<1>3. Came' = Came /\ r \in Came
  BY <1>1, <1>2 DEF Came
<1>4. OnTheWay' = OnTheWay
  BY <1>1 DEF OnTheWay
<1> QED
  BY <1>1, <1>2, <1>3, <1>4 DEF CreditDeposit, CreditTx, Kinds

\* The credit of a transfer and the refund of a payout take their amount off the
\* way, and add it at most.
LEMMA CreditMoves ==
    ASSUME CustodyInv, BasesAreZero, NEW r \in Refs, CreditReturns(r),
           FinishLocked(r) \/ FinishUnlocked(r)
    PROVE  /\ CreditKind(r) \in Kinds
           /\ \E balance \in Nat : /\ balance <= Available(Party(CreditKind(r), r)) + Amount[r]
                                   /\ Book(CreditKind(r), r, balance)
           /\ r \in OnTheWay /\ OnTheWay' \subseteq OnTheWay \ {r} /\ Credited' = Credited
<1>t. FlowTypes /\ FlowInv(r) /\ TypeOK /\ StoreTypeOK /\ r \in Callers
  BY CustodyAssumption DEF CustodyInv, FlowTypes, TypeOK
<1>1. /\ Busy(r) /\ UNCHANGED depositRow
      /\ stage[r] = "crediting" /\ stage'[r] = "done"
      /\ \A q \in Refs : q # r => stage'[q] = stage[q]
  BY <1>t DEF CreditReturns, FinishLocked, FinishUnlocked, Answers_, Goes, FlowTypes, otherVars
<1>2. /\ call[r].kind = CreditKind(r) /\ call[r].ref = r /\ CreditKind(r) \in Kinds
      /\ Route[r] \in {"transfer", "bank"}
  BY <1>t, <1>1 DEF FlowInv, CreditInFlight, InOrder, CreditKind, Kinds
<1>3. r \in OnTheWay /\ OnTheWay' \subseteq OnTheWay \ {r} /\ Credited' = Credited
  BY <1>1, <1>2 DEF OnTheWay, Credited
<1>4. Party(CreditKind(r), r) \in Users /\ Amount[r] \in Nat
  BY <1>2, PartyIsUser, StoreAssumption
<1>5. /\ Available(Party(CreditKind(r), r)) \in Nat
  BY <1>t, <1>4, AvailableInt DEF BasesAreZero
<1>6. CASE FinishLocked(r)
  BY <1>2, <1>3, <1>4, <1>5, <1>6 DEF FinishLocked, CreditTx
<1>7. CASE FinishUnlocked(r)
  <2>1. Book(CreditKind(r), r, 0 + Amount[r])
    BY <1>1, <1>2, <1>7 DEF FinishUnlocked, BasesAreZero
  <2> QED
    BY <1>2, <1>3, <1>4, <1>5, <2>1
<1> QED
  BY <1>6, <1>7

-----------------------------------------------------------------------------
(* The invariant on money, step by step.                                   *)

BalancesAtZero ==
    /\ \A u \in Users : Available(u) >= 0
    /\ \A u \in Users : ~HasAccount(u) => latest[u] = 0

LEMMA BookKeepsZero ==
    ASSUME StoreTypeOK, BalancesAtZero, NEW kind \in Kinds, NEW r \in Refs,
           NEW balance \in Nat, Book(kind, r, balance)
    PROVE  BalancesAtZero'
<1> DEFINE f == [u \in Users |-> Available(u)]
           v == Party(kind, r)
<1>1. v \in Users /\ f' = [f EXCEPT ![v] = balance]
  BY PartyIsUser, BookMovesBalance
<1>2. \A u \in Users : Available(u)' >= 0
  <2> SUFFICES ASSUME NEW u \in Users PROVE Available(u)' >= 0
    OBVIOUS
  <2>1. Available(u)' = IF u = v THEN balance ELSE Available(u)
    BY <1>1
  <2> QED
    BY <2>1 DEF BalancesAtZero
<1>3. \A u \in Users : ~HasAccount(u)' => u # v
  BY <1>1, StoreAssumption DEF StoreTypeOK, HasAccount, Book
<1>4. \A u \in Users : u # v => latest'[u] = latest[u] /\ (HasAccount(u)' <=> HasAccount(u))
  BY DEF StoreTypeOK, HasAccount, Book
<1> QED
  BY <1>2, <1>3, <1>4 DEF BalancesAtZero

\* The calls: one that could not lock reads a zero.
LEMMA BasesStep ==
    ASSUME CustodyInv, BasesAreZero, [CustodyNext]_custodyVars, NEW r \in Refs,
           Busy(r)', call'[r].stage = "unlocked"
    PROVE  call'[r].base = 0
<1>t. /\ r \in Callers /\ StoreTypeOK
      /\ call \in [Callers -> Calls \cup {NoCall}]
  BY CustodyAssumption DEF CustodyInv, FlowTypes, TypeOK
<1>1. CASE call'[r] = call[r]
  BY <1>1 DEF BasesAreZero, Busy
<1>2. CASE LockNothing(r)
  <2>1. /\ Busy(r) /\ ~HasAccount(Owner(r))
        /\ call' = [call EXCEPT ![r].stage = "unlocked", ![r].base = latest[Owner(r)]]
    BY <1>2 DEF LockNothing, ReadUnlocked
  <2>2. call[r] \in Calls /\ Owner(r) \in Users
    <3>1. TypeOK
      BY DEF CustodyInv, FlowTypes
    <3> QED
      BY <1>t, <2>1, <3>1, BusyCall
  <2>3. latest[Owner(r)] = 0
    BY <2>1, <2>2 DEF BasesAreZero
  <2>4. call'[r].base = latest[Owner(r)]
    BY <1>t, <2>1, <2>2 DEF Calls
  <2> QED
    BY <2>3, <2>4
<1>3. CASE StartCredit(r)
  <2>1. call'[r].stage = "checked"
    BY <1>3, <1>t DEF StartCredit, BeginCredit
  <2> QED
    BY <2>1
<1>4. CASE call'[r] = NoCall
  BY <1>4 DEF Busy
<1>5. \/ call'[r] = call[r] \/ call'[r] = NoCall \/ LockNothing(r) \/ StartCredit(r)
  <2>1. CASE UNCHANGED call
    BY <2>1
  <2>2. CASE Restart
    BY <2>2, <1>t DEF Restart
  <2>3. CASE \E q \in Refs : LockNothing(q) \/ StartCredit(q)
    BY <2>3, <1>t, CustodyAssumption DEF LockNothing, ReadUnlocked, StartCredit, BeginCredit
  <2>4. CASE \E q \in Refs : CreditReturns(q) \/ CreditThrows(q)
    <3>1. PICK q \in Refs : Return(q)
      BY <2>4 DEF CreditReturns, CreditThrows, FinishUnchanged, FinishLocked, FinishUnlocked, Abort
    <3> QED
      BY <3>1, <1>t, CustodyAssumption DEF Return
  <2>5. CASE \E q \in Refs :
          \/ Arrive(q) \/ CreditDeposit(q) \/ Land(q) \/ Drop(q)
          \/ DebitOk(q) \/ DebitRefused(q) \/ PayBill(q) \/ PersistUser(q)
          \/ BankSweep(q) \/ ProviderAccepts(q) \/ BankFails(q)
          \/ CashoutRefused(q) \/ CashoutSends(q)
          \/ WaitConfirmed(q) \/ WaitTimesOut(q)
          \/ RecordCashout(q) \/ CashoutDone(q) \/ CashoutNGNFails(q) \/ CashoutFails(q)
    BY <2>1, <2>5 DEF Arrive, CreditDeposit, Land, Drop, DebitOk, DebitRefused, PayBill,
       PersistUser, BankSweep, ProviderAccepts, BankFails, CashoutRefused, CashoutSends,
       WaitConfirmed, WaitTimesOut, RecordCashout, CashoutDone, CashoutNGNFails, CashoutFails
  <2>6. CASE SnapStart \/ SnapEnd \/ UNCHANGED custodyVars
    BY <2>1, <2>6 DEF SnapStart, SnapEnd, custodyVars
  <2> QED
    BY <2>1, <2>2, <2>3, <2>4, <2>5, <2>6 DEF CustodyNext
<1> QED
  BY <1>1, <1>2, <1>3, <1>4, <1>5

\* What the steps are to the balances: nothing, a debit, a deposit, or a credit.
LEMMA MoneySteps ==
    ASSUME CustodyInv, [CustodyNext]_custodyVars
    PROVE  \/ MoneyRests
           \/ \E r \in Refs : DebitOk(r) \/ PayBill(r)
           \/ \E r \in Refs : CreditDeposit(r)
           \/ \E r \in Refs : CreditReturns(r) /\ (FinishLocked(r) \/ FinishUnlocked(r))
  BY RestingSteps, RestingOthers DEF CustodyNext, CreditReturns

\* The balances, the types and the cover.
LEMMA CoverStep ==
    ASSUME NoHiddenBalance, CustodyInv, BasesAreZero, FundTypes, Covered,
           Total(Opening) \in Int, CustodyInv', [CustodyNext]_custodyVars
    PROVE  BalancesAtZero' /\ IsFiniteSet(OnTheWay') /\ Covered'
<1>t. StoreTypeOK /\ StoreTypeOK' /\ BalancesAtZero
  BY DEF CustodyInv, FlowTypes, TypeOK, BasesAreZero, BalancesAtZero
<1>o. Owed \in Int /\ OnTheWay \in SUBSET Refs /\ Credited \in SUBSET Refs
  BY <1>t, OwedType DEF OnTheWay, Credited
<1>f. IsFiniteSet(OnTheWay) /\ IsFiniteSet(Came) /\ IsFiniteSet(Credited)
  <2>1. Credited \in SUBSET Came
    BY DEF Came
  <2> QED
    BY <2>1, FS_Subset DEF FundTypes
<1>n. AmountOf(OnTheWay) \in Nat /\ AmountOf(Credited) \in Nat
  BY <1>o, <1>f, AmountOfType
<1>c. Owed + AmountOf(OnTheWay) <= Total(Opening) + AmountOf(Credited)
  BY DEF Covered
<1>p. Covered' <=> Owed' + AmountOf(OnTheWay') <= Total(Opening) + AmountOf(Credited')
  BY DEF Covered, AmountOf, Total
<1>1. CASE MoneyRests
  <2>1. \A u \in Users : Available(u)' = Available(u) /\ (HasAccount(u)' <=> HasAccount(u))
    BY <1>1 DEF MoneyRests, Available, HasAccount
  <2>2. BalancesAtZero'
    BY <1>1, <1>t, <2>1 DEF BalancesAtZero, MoneyRests
  <2>3. Owed' = Owed
    BY <2>1 DEF Owed
  <2>4. OnTheWay' \in SUBSET OnTheWay /\ Credited' = Credited
    BY <1>1 DEF MoneyRests
  <2>5. IsFiniteSet(OnTheWay')
    BY <1>f, <2>4, FS_Subset
  <2>6. AmountOf(OnTheWay') \in Nat /\ AmountOf(OnTheWay') <= AmountOf(OnTheWay)
    BY <1>o, <1>f, <2>4, AmountOfType
  <2> QED
    BY <1>o, <1>n, <1>c, <1>p, <2>2, <2>3, <2>4, <2>5, <2>6
<1>2. ASSUME NEW r \in Refs, DebitOk(r) \/ PayBill(r)
      PROVE  BalancesAtZero' /\ IsFiniteSet(OnTheWay') /\ Covered'
  <2> DEFINE balance == Available(Payer[r]) - Amount[r]
  <2>1. /\ DebitKind(r) \in Kinds /\ Party(DebitKind(r), r) = Payer[r]
        /\ Available(Payer[r]) >= Amount[r] /\ Book(DebitKind(r), r, balance)
        /\ OnTheWay' \subseteq OnTheWay \cup {r} /\ Credited' = Credited
    BY <1>2, DebitMoves
  <2>2. Available(Payer[r]) \in Int /\ Amount[r] \in Nat
    BY <1>t, AvailableInt, StoreAssumption
  <2>3. balance \in Nat /\ balance \in Int
    BY <2>1, <2>2
  <2>4. Owed' = Owed + balance - Available(Payer[r])
    BY <1>t, <2>1, <2>3, OwedMoves
  <2>5. BalancesAtZero'
    BY <1>t, <2>1, <2>3, BookKeepsZero
  <2>6. /\ OnTheWay \cup {r} \in SUBSET Refs /\ IsFiniteSet(OnTheWay \cup {r})
        /\ OnTheWay' \in SUBSET (OnTheWay \cup {r})
    BY <1>o, <1>f, <2>1, FS_AddElement
  <2>7. IsFiniteSet(OnTheWay')
    BY <2>6, FS_Subset
  <2>8. AmountOf(OnTheWay') \in Nat /\ AmountOf(OnTheWay') <= AmountOf(OnTheWay \cup {r})
    BY <2>6, AmountOfType
  <2>9. AmountOf(OnTheWay \cup {r}) <= AmountOf(OnTheWay) + Amount[r]
    <3>1. CASE r \in OnTheWay
      <4>1. OnTheWay \cup {r} = OnTheWay
        BY <3>1
      <4>2. AmountOf(OnTheWay \cup {r}) = AmountOf(OnTheWay)
        BY <4>1, Zenon
      <4> QED
        BY <4>2, <1>n, <2>2
    <3>2. CASE r \notin OnTheWay
      <4>1. AmountOf(OnTheWay \cup {r}) = AmountOf(OnTheWay) + Amount[r]
        BY <3>2, <1>o, <1>f, AmountOfType
      <4> QED
        BY <4>1, <1>n, <2>2
    <3> QED
      BY <3>1, <3>2
  <2>10. AmountOf(OnTheWay \cup {r}) \in Nat
    BY <2>6, AmountOfType
  <2>11. AmountOf(OnTheWay') <= AmountOf(OnTheWay) + Amount[r]
    BY <1>n, <2>2, <2>8, <2>9, <2>10
  <2>12. Owed' = Owed - Amount[r]
    BY <1>o, <2>2, <2>4
  <2> HIDE DEF balance
  <2>13. Covered'
    BY <1>o, <1>n, <1>c, <1>p, <2>1, <2>2, <2>8, <2>11, <2>12
  <2> QED
    BY <2>5, <2>7, <2>13
<1>3. ASSUME NEW r \in Refs, CreditDeposit(r)
      PROVE  BalancesAtZero' /\ IsFiniteSet(OnTheWay') /\ Covered'
  <2> DEFINE v == Party("credit", r)
             balance == Available(v) + Amount[r]
  <2>1. /\ "credit" \in Kinds /\ Book("credit", r, balance)
        /\ OnTheWay' = OnTheWay
        /\ r \notin Credited /\ Credited' = Credited \cup {r}
    BY <1>3, DepositMoves
  <2>2. v \in Users /\ Amount[r] \in Nat
    BY <2>1, PartyIsUser, StoreAssumption
  <2>3. Available(v) \in Int /\ Available(v) >= 0
    BY <1>t, <2>2, AvailableInt DEF BalancesAtZero
  <2>4. balance \in Nat /\ balance \in Int
    BY <2>2, <2>3
  <2>5. Owed' = Owed + balance - Available(v)
    BY <1>t, <2>1, <2>4, OwedMoves
  <2>6. BalancesAtZero'
    BY <1>t, <2>1, <2>4, BookKeepsZero
  <2>7. AmountOf(Credited') = AmountOf(Credited) + Amount[r]
    BY <1>o, <1>f, <2>1, AmountOfType
  <2>8. Owed' = Owed + Amount[r]
    BY <1>o, <2>2, <2>3, <2>5
  <2> HIDE DEF v, balance
  <2>9. Covered'
    BY <1>o, <1>n, <1>c, <1>p, <2>1, <2>2, <2>7, <2>8
  <2> QED
    BY <1>f, <2>1, <2>6, <2>9
<1>4. ASSUME NEW r \in Refs, CreditReturns(r), FinishLocked(r) \/ FinishUnlocked(r)
      PROVE  BalancesAtZero' /\ IsFiniteSet(OnTheWay') /\ Covered'
  <2> DEFINE v == Party(CreditKind(r), r)
  <2>1. /\ CreditKind(r) \in Kinds
        /\ \E b \in Nat : b <= Available(v) + Amount[r] /\ Book(CreditKind(r), r, b)
        /\ r \in OnTheWay /\ OnTheWay' \subseteq OnTheWay \ {r} /\ Credited' = Credited
    BY <1>4, CreditMoves
  <2>2. PICK b \in Nat : b <= Available(v) + Amount[r] /\ Book(CreditKind(r), r, b)
    BY <2>1
  <2>3. v \in Users /\ Amount[r] \in Nat /\ b \in Int
    BY <2>1, PartyIsUser, StoreAssumption
  <2>4. Available(v) \in Int
    BY <1>t, <2>3, AvailableInt
  <2>5. Owed' = Owed + b - Available(v)
    BY <1>t, <2>1, <2>2, <2>3, OwedMoves
  <2>6. BalancesAtZero'
    BY <1>t, <2>1, <2>2, BookKeepsZero
  <2>7. /\ OnTheWay \ {r} \in SUBSET OnTheWay /\ OnTheWay' \in SUBSET (OnTheWay \ {r})
        /\ IsFiniteSet(OnTheWay \ {r}) /\ OnTheWay \ {r} \in SUBSET Refs
    BY <1>o, <1>f, <2>1, FS_Subset
  <2>8. IsFiniteSet(OnTheWay')
    BY <2>7, FS_Subset
  <2>9. AmountOf(OnTheWay \ {r}) = AmountOf(OnTheWay) - Amount[r]
    BY <1>o, <1>f, <2>1, AmountOfType
  <2>10. AmountOf(OnTheWay') \in Nat /\ AmountOf(OnTheWay') <= AmountOf(OnTheWay \ {r})
    BY <2>7, AmountOfType
  <2>11. AmountOf(OnTheWay') <= AmountOf(OnTheWay) - Amount[r]
    BY <2>9, <2>10
  <2>12. Owed' \in Int /\ Owed' <= Owed + Amount[r]
    BY <1>o, <2>2, <2>3, <2>4, <2>5
  <2> HIDE DEF v
  <2>13. Covered'
    BY <1>o, <1>n, <1>c, <1>p, <2>1, <2>3, <2>10, <2>11, <2>12
  <2> QED
    BY <2>6, <2>8, <2>13
<1> QED
  BY <1>1, <1>2, <1>3, <1>4, MoneySteps

\* The tokens: what arrives comes from outside, what lands was in a wallet.
LEMMA TokensStep ==
    ASSUME NoHiddenBalance, CustodyInv, FundTypes, Conserved,
           Total(WalletAtStart) \in Int, [CustodyNext]_custodyVars
    PROVE  /\ wallet' \in [Users -> Int] /\ treasury' \in Int
           /\ IsFiniteSet(Came') /\ Conserved'
           /\ \A r \in Credited' : Route[r] = "deposit" /\ stage'[r] = "done"
<1>t. FlowTypes /\ IsFiniteSet(Users) /\ TreasuryAtStart \in Int
  BY CustodyAssumption DEF CustodyInv, NoHiddenBalance
<1>f. /\ Came \in SUBSET Refs /\ IsFiniteSet(Came)
      /\ wallet \in [Users -> Int] /\ treasury \in Int
  BY DEF Came, Credited, FundTypes
<1>w. Total(wallet) = SumFunctionOnSet(wallet, Users) /\ Total(wallet) \in Int
  <2>1. DOMAIN wallet = Users /\ \A u \in Users : wallet[u] \in Int
    BY <1>f
  <2> QED
    BY <2>1, <1>t, SumType DEF Total
<1>n. AmountOf(Came) \in Nat
  BY <1>f, AmountOfType
<1>c. Total(wallet) + treasury = Total(WalletAtStart) + TreasuryAtStart + AmountOf(Came)
  BY DEF Conserved, Held
<1>p. Conserved' <=>
          Total(wallet') + treasury' = Total(WalletAtStart) + TreasuryAtStart + AmountOf(Came')
  BY DEF Conserved, Held, AmountOf, Total
<1>1. ASSUME NEW r \in Refs, Arrive(r)
      PROVE  /\ wallet' \in [Users -> Int] /\ treasury' \in Int
             /\ IsFiniteSet(Came') /\ Conserved'
             /\ \A q \in Credited' : Route[q] = "deposit" /\ stage'[q] = "done"
  <2>1. /\ Route[r] = "deposit" /\ stage[r] = "new" /\ stage'[r] = "confirmed"
        /\ \A q \in Refs : q # r => stage'[q] = stage[q]
        /\ wallet' = [wallet EXCEPT ![Payee[r]] = @ + Amount[r]]
        /\ treasury' = treasury /\ Credited' = Credited
    BY <1>1, <1>t DEF Arrive, Goes, FlowTypes, otherVars, Credited
  <2>2. r \notin Credited /\ r \notin Came
    BY <2>1 DEF FundTypes, Came
  <2>3. Came' = Came \cup {r}
    BY <2>1 DEF Came
  <2>4. IsFiniteSet(Came')
    BY <1>f, <2>3, FS_AddElement
  <2>5. AmountOf(Came') = AmountOf(Came) + Amount[r]
    BY <1>f, <2>2, <2>3, AmountOfType
  <2>6. Payee[r] \in Users /\ Amount[r] \in Nat
    BY StoreAssumption
  <2>7. wallet' \in [Users -> Int]
    BY <1>f, <2>1, <2>6
  <2>8. Total(wallet') = Total(wallet) + Amount[r]
    <3> DEFINE w == wallet'
    <3>1. /\ \A u \in Users : wallet[u] \in Int /\ w[u] \in Int
          /\ \A u \in Users \ {Payee[r]} : wallet[u] = w[u]
          /\ w[Payee[r]] = wallet[Payee[r]] + Amount[r] /\ DOMAIN w = Users
      BY <1>f, <2>1, <2>6, <2>7
    <3> HIDE DEF w
    <3>2. SumFunctionOnSet(w, Users) = SumFunctionOnSet(wallet, Users) + w[Payee[r]] - wallet[Payee[r]]
      BY <1>t, <2>6, <3>1, SumExcept
    <3>3. wallet[Payee[r]] \in Int
      BY <2>6, <3>1
    <3>4. Total(w) = Total(wallet) + Amount[r]
      BY <1>w, <2>6, <3>1, <3>2, <3>3 DEF Total
    <3> QED
      BY <3>4 DEF w
  <2>9. Conserved'
    BY <1>t, <1>f, <1>w, <1>n, <1>c, <1>p, <2>1, <2>5, <2>6, <2>8
  <2>10. \A q \in Credited' : Route[q] = "deposit" /\ stage'[q] = "done"
    BY <2>1, <2>2 DEF FundTypes, Credited
  <2> QED
    BY <1>f, <2>1, <2>4, <2>7, <2>9, <2>10
<1>2. ASSUME NEW r \in Refs, Land(r)
      PROVE  /\ wallet' \in [Users -> Int] /\ treasury' \in Int
             /\ IsFiniteSet(Came') /\ Conserved'
             /\ \A q \in Credited' : Route[q] = "deposit" /\ stage'[q] = "done"
  <2>1. /\ UNCHANGED <<stage, depositRow>>
        /\ wallet' = [wallet EXCEPT ![Payer[r]] = @ - Amount[r]]
        /\ treasury' = treasury + Amount[r]
    BY <1>2 DEF Land, requestVars, otherVars
  <2>2. Came' = Came /\ Credited' = Credited
    BY <2>1 DEF Came, Credited
  <2>3. Payer[r] \in Users /\ Amount[r] \in Nat
    BY StoreAssumption
  <2>4. wallet' \in [Users -> Int] /\ treasury' \in Int
    BY <1>f, <2>1, <2>3
  <2>5. Total(wallet') = Total(wallet) - Amount[r]
    <3> DEFINE w == wallet'
    <3>1. /\ \A u \in Users : wallet[u] \in Int /\ w[u] \in Int
          /\ \A u \in Users \ {Payer[r]} : wallet[u] = w[u]
          /\ w[Payer[r]] = wallet[Payer[r]] - Amount[r] /\ DOMAIN w = Users
      BY <1>f, <2>1, <2>3, <2>4
    <3> HIDE DEF w
    <3>2. SumFunctionOnSet(w, Users) = SumFunctionOnSet(wallet, Users) + w[Payer[r]] - wallet[Payer[r]]
      BY <1>t, <2>3, <3>1, SumExcept
    <3>3. wallet[Payer[r]] \in Int
      BY <2>3, <3>1
    <3>4. Total(w) = Total(wallet) - Amount[r]
      BY <1>w, <2>3, <3>1, <3>2, <3>3 DEF Total
    <3> QED
      BY <3>4 DEF w
  <2>6. Conserved'
    BY <1>t, <1>f, <1>w, <1>n, <1>c, <1>p, <2>1, <2>2, <2>3, <2>5
  <2> QED
    BY <1>f, <2>1, <2>2, <2>4, <2>6 DEF FundTypes
<1>3. ASSUME UNCHANGED <<wallet, treasury>>, Came' = Came,
             \A q \in Credited' : Route[q] = "deposit" /\ stage'[q] = "done"
      PROVE  /\ wallet' \in [Users -> Int] /\ treasury' \in Int
             /\ IsFiniteSet(Came') /\ Conserved'
             /\ \A q \in Credited' : Route[q] = "deposit" /\ stage'[q] = "done"
  BY <1>f, <1>3, <1>c, <1>p
<1>4. ASSUME NEW r \in Refs, CreditDeposit(r)
      PROVE  /\ UNCHANGED <<wallet, treasury>> /\ Came' = Came
             /\ \A q \in Credited' : Route[q] = "deposit" /\ stage'[q] = "done"
  BY <1>4, DepositMoves DEF CreditDeposit, chainVars, FundTypes, Credited
<1>5. ASSUME NEW r \in Refs,
             \/ Drop(r) \/ DebitOk(r) \/ DebitRefused(r) \/ PayBill(r)
             \/ PersistUser(r) \/ StartCredit(r) \/ LockNothing(r)
             \/ CreditReturns(r) \/ CreditThrows(r)
             \/ BankSweep(r) \/ ProviderAccepts(r) \/ BankFails(r)
             \/ CashoutRefused(r) \/ CashoutSends(r)
             \/ WaitConfirmed(r) \/ WaitTimesOut(r)
             \/ RecordCashout(r) \/ CashoutDone(r) \/ CashoutNGNFails(r) \/ CashoutFails(r)
      PROVE  /\ UNCHANGED <<wallet, treasury>> /\ Came' = Came
             /\ \A q \in Credited' : Route[q] = "deposit" /\ stage'[q] = "done"
  <2>1. UNCHANGED <<wallet, treasury>>
    BY <1>5 DEF Drop, DebitOk, DebitRefused, PayBill, PersistUser, StartCredit, LockNothing,
       CreditReturns, CreditThrows, BankSweep, ProviderAccepts, BankFails, CashoutRefused,
       CashoutSends, WaitConfirmed, WaitTimesOut, RecordCashout, CashoutDone, CashoutNGNFails,
       CashoutFails, chainVars
  <2>2. Credited' = Credited
    <3>1. \/ UNCHANGED depositRow
          \/ \E status \in {"CONFIRMED", "FAILED"} : depositRow' = depositRow \cup {<<r, status>>}
      BY <1>5 DEF Drop, DebitOk, DebitRefused, PayBill, PersistUser, StartCredit, LockNothing,
         CreditReturns, CreditThrows, BankSweep, ProviderAccepts, BankFails, CashoutRefused,
         CashoutSends, WaitConfirmed, WaitTimesOut, RecordCashout, CashoutDone, CashoutNGNFails,
         CashoutFails, otherVars
    <3> QED
      BY <3>1 DEF Credited
  <2>3. \A q \in Refs : q # r => stage'[q] = stage[q]
    BY <1>5, <1>t DEF FlowTypes, Drop, DebitOk, DebitRefused, PayBill, PersistUser, StartCredit,
       LockNothing, CreditReturns, CreditThrows, BankSweep, ProviderAccepts, BankFails,
       CashoutRefused, CashoutSends, WaitConfirmed, WaitTimesOut, RecordCashout, CashoutDone,
       CashoutNGNFails, CashoutFails, Answers_, Goes, requestVars
  <2>4. Route[r] = "deposit" => stage'[r] = stage[r]
    <3> SUFFICES ASSUME Route[r] = "deposit" PROVE stage'[r] = stage[r]
      OBVIOUS
    <3>1. FlowInv(r) /\ ~IsCashout(r)
      BY DEF CustodyInv, IsCashout
    <3>2. stage[r] # "crediting"
      BY <3>1 DEF FlowInv, InOrder
    <3> QED
      BY <1>5, <3>1, <3>2 DEF Drop, DebitOk, DebitRefused, PayBill, PersistUser, StartCredit,
         LockNothing, CreditReturns, CreditThrows, BankSweep, ProviderAccepts, BankFails,
         CashoutRefused, CashoutSends, WaitConfirmed, WaitTimesOut, RecordCashout, CashoutDone,
         CashoutNGNFails, CashoutFails, Answers_, Goes, requestVars
  <2>5. \A q \in Refs : Route[q] = "deposit" => stage'[q] = stage[q]
    BY <2>3, <2>4
  <2> QED
    BY <2>1, <2>2, <2>5 DEF Came, Credited, FundTypes
<1>6. ASSUME SnapStart \/ SnapEnd \/ Restart \/ UNCHANGED custodyVars
      PROVE  /\ UNCHANGED <<wallet, treasury>> /\ Came' = Came
             /\ \A q \in Credited' : Route[q] = "deposit" /\ stage'[q] = "done"
  <2>1. UNCHANGED <<wallet, treasury, depositRow>>
    BY <1>6 DEF SnapStart, SnapEnd, Restart, custodyVars, chainVars, otherVars
  <2>2. \A r \in Refs : Route[r] = "deposit" => stage'[r] = stage[r]
    BY <1>6 DEF SnapStart, SnapEnd, Restart, custodyVars, requestVars
  <2> QED
    BY <2>1, <2>2 DEF Came, Credited, FundTypes
<1> QED
  BY <1>1, <1>2, <1>3, <1>4, <1>5, <1>6 DEF CustodyNext

\* The snapshot: what it reads second covers what it read first.
SnapTypes == snap \in [stage : {"idle", "reading", "recorded"}, liability : Int, pending : Int]

LEMMA SnapStep ==
    ASSUME NoHiddenBalance, CustodyInv, BasesAreZero, FundTypes, Covered, SnapTypes, SnapInv,
           Total(Opening) \in Int, IsFiniteSet(Came'), [CustodyNext]_custodyVars
    PROVE  SnapTypes' /\ SnapInv'
<1>f. /\ OnTheWay \in SUBSET Refs /\ IsFiniteSet(OnTheWay)
      /\ Credited \in SUBSET Refs /\ Credited' \in SUBSET Refs
      /\ IsFiniteSet(Credited) /\ IsFiniteSet(Credited')
  <2>1. Credited \in SUBSET Came /\ Credited' \in SUBSET Came'
    BY DEF Came
  <2> QED
    BY <2>1, FS_Subset DEF FundTypes, OnTheWay, Credited
<1>n. AmountOf(OnTheWay) \in Nat /\ AmountOf(Credited) \in Nat /\ AmountOf(Credited') \in Nat
  BY <1>f, AmountOfType
<1>p. /\ PendingNow = AmountOf(Credited)
      /\ SnapInv' <=>
            /\ snap'.stage = "reading" => snap'.liability <= Total(Opening) + AmountOf(Credited')
            /\ snap'.stage = "recorded" => snap'.liability <= Total(Opening) + snap'.pending
  BY DEF PendingNow, AmountOf, Credited, SnapInv, SnapshotIsBacked, Total
<1>1. CASE SnapStart
  <2>1. Credited' = Credited /\ snap.stage # "reading"
        /\ snap' = [[snap EXCEPT !.liability = LiabilityNow] EXCEPT !.stage = "reading"]
    BY <1>1 DEF SnapStart, Reads, TableOrder, Credited
  <2>2. LiabilityNow \in Int /\ LiabilityNow <= Owed /\ Owed \in Int
    BY LiabilityIsOwed, OwedType DEF CustodyInv, FlowTypes, TypeOK
  <2>3. LiabilityNow <= Total(Opening) + AmountOf(Credited)
    BY <1>n, <2>2 DEF Covered
  <2>4. snap'.stage = "reading" /\ snap'.liability = LiabilityNow /\ SnapTypes'
    BY <2>1, <2>2 DEF SnapTypes
  <2> QED
    BY <1>p, <2>1, <2>3, <2>4
<1>2. CASE SnapEnd
  <2>1. Credited' = Credited /\ snap.stage = "reading"
        /\ snap' = [[snap EXCEPT !.pending = PendingNow] EXCEPT !.stage = "recorded"]
    BY <1>2 DEF SnapEnd, Reads, TableOrder, Credited
  <2>2. /\ snap'.stage = "recorded" /\ snap'.liability = snap.liability
        /\ snap'.pending = AmountOf(Credited) /\ SnapTypes'
    <3>1. PendingNow \in Int /\ PendingNow = AmountOf(Credited)
      BY <1>n, <1>p
    <3> QED
      BY <2>1, <3>1 DEF SnapTypes
  <2>3. snap.liability <= Total(Opening) + AmountOf(Credited)
    BY <2>1 DEF SnapInv
  <2> QED
    BY <1>p, <2>2, <2>3
<1>3. CASE ~SnapStart /\ ~SnapEnd
  <2>1. UNCHANGED snap
    BY <1>3 DEF CustodyNext, Arrive, CreditDeposit, Land, Drop, DebitOk, DebitRefused, PayBill,
       PersistUser, StartCredit, LockNothing, CreditReturns, CreditThrows, BankSweep,
       ProviderAccepts, BankFails, CashoutRefused, CashoutSends, WaitConfirmed, WaitTimesOut,
       RecordCashout, CashoutDone, CashoutNGNFails, CashoutFails, Restart, custodyVars, otherVars
  <2>2. Credited \in SUBSET Credited'
    BY MoneySteps, DepositMoves, DebitMoves, CreditMoves DEF MoneyRests
  <2>3. AmountOf(Credited) <= AmountOf(Credited')
    BY <1>f, <2>2, AmountOfType
  <2>4. snap.liability \in Int
    BY DEF SnapTypes
  <2> QED
    BY <1>n, <1>p, <2>1, <2>3, <2>4 DEF SnapTypes, SnapInv, SnapshotIsBacked
<1> QED
  BY <1>1, <1>2, <1>3

-----------------------------------------------------------------------------
(* The theorems about money.                                               *)

FundsInv == BasesAreZero /\ FundTypes /\ Covered /\ Conserved /\ SnapTypes /\ SnapInv

\* The totals at the start are numbers.
LEMMA StartTotals ==
    ASSUME NoHiddenBalance
    PROVE  Total(Opening) \in Int /\ Total(WalletAtStart) \in Int /\ TreasuryAtStart \in Int
<1>1. /\ IsFiniteSet(Users) /\ DOMAIN Opening = Users /\ DOMAIN WalletAtStart = Users
      /\ \A u \in Users : Opening[u] \in Int /\ WalletAtStart[u] \in Int
      /\ TreasuryAtStart \in Int
  BY StoreAssumption, CustodyAssumption DEF NoHiddenBalance
<1> QED
  BY <1>1, SumType DEF Total

LEMMA FundsStart ==
    ASSUME NoHiddenBalance, CustodyInit
    PROVE  FundsInv
<1>1. OnTheWay = {} /\ Came = {} /\ Credited = {}
  BY DEF CustodyInit, OnTheWay, Came, Credited
<1>2. AmountOf(OnTheWay) = 0 /\ AmountOf(Came) = 0 /\ AmountOf(Credited) = 0
  BY <1>1, SumEmpty DEF AmountOf
<1>3. \A u \in Users : Available(u) = Opening[u]
  BY StoreAssumption DEF CustodyInit, Init, StoreInit, Available, HasAccount
<1>4. [u \in Users |-> Available(u)] = Opening
  BY <1>3, StoreAssumption
<1>5. Owed = Total(Opening) /\ Held = Total(WalletAtStart) + TreasuryAtStart
  BY <1>4 DEF Owed, Held, CustodyInit
<1>6. BasesAreZero
  <2>1. \A u \in Users : Opening[u] \in Nat /\ (~HasAccount(u) => u \notin HasRow)
    BY StoreAssumption DEF CustodyInit, Init, StoreInit, HasAccount
  <2>2. \A u \in Users : ~HasAccount(u) => latest[u] = 0
    BY <2>1 DEF CustodyInit, Init, StoreInit, NoHiddenBalance
  <2>3. \A r \in Refs : ~Busy(r)
    BY CustodyAssumption DEF CustodyInit, Init, Busy
  <2> QED
    BY <1>3, <2>1, <2>2, <2>3 DEF BasesAreZero
<1>7. FundTypes
  <2>1. wallet \in [Users -> Int] /\ treasury \in Int
    BY CustodyAssumption DEF CustodyInit
  <2> QED
    BY <1>1, <2>1, FS_EmptySet DEF FundTypes
<1>8. Covered /\ Conserved
  BY <1>2, <1>5, StartTotals DEF Covered, Conserved
<1>9. SnapTypes /\ SnapInv
  BY DEF CustodyInit, SnapTypes, SnapInv, SnapshotIsBacked
<1> QED
  BY <1>6, <1>7, <1>8, <1>9 DEF FundsInv

LEMMA FundsStep ==
    ASSUME NoHiddenBalance, CustodyInv, CustodyInv', FundsInv, [CustodyNext]_custodyVars
    PROVE  FundsInv'
<1>1. BasesAreZero /\ FundTypes /\ Covered /\ Conserved /\ SnapTypes /\ SnapInv
  BY DEF FundsInv
<1>2. BalancesAtZero' /\ IsFiniteSet(OnTheWay') /\ Covered'
  BY <1>1, CoverStep, StartTotals
<1>3. BasesAreZero'
  BY <1>1, <1>2, BasesStep DEF BasesAreZero, BalancesAtZero
<1>4. FundTypes' /\ Conserved'
  BY <1>1, <1>2, TokensStep, StartTotals DEF FundTypes
<1>5. IsFiniteSet(Came')
  BY <1>1, TokensStep, StartTotals
<1>6. SnapTypes' /\ SnapInv'
  BY <1>1, <1>5, SnapStep, StartTotals
<1> QED
  BY <1>2, <1>3, <1>4, <1>6 DEF FundsInv

LEMMA FundsAlways == NoHiddenBalance => (CustodySpec => []FundsInv)
<1> SUFFICES ASSUME NoHiddenBalance PROVE CustodySpec => []FundsInv
  OBVIOUS
<1>1. CustodyInit => FundsInv
  BY FundsStart
<1>2. CustodyInv /\ CustodyInv' /\ FundsInv /\ [CustodyNext]_custodyVars => FundsInv'
  BY FundsStep
<1> QED
  BY <1>1, <1>2, CustodyAlways, PTL DEF CustodySpec

\* What is owed is covered by what is held, in every state of the invariant.
LEMMA CoverIsSolvent ==
    ASSUME NoHiddenBalance, BackedAtStart, CustodyInv, FundsInv
    PROVE  Solvent
<1>1. Owed + AmountOf(OnTheWay) <= Total(Opening) + AmountOf(Credited)
  BY DEF FundsInv, Covered
<1>2. Held = Total(WalletAtStart) + TreasuryAtStart + AmountOf(Came)
  BY DEF FundsInv, Conserved
<1>3. /\ OnTheWay \in SUBSET Refs /\ Came \in SUBSET Refs /\ Credited \in SUBSET Came
      /\ IsFiniteSet(OnTheWay) /\ IsFiniteSet(Came)
  BY DEF FundsInv, FundTypes, OnTheWay, Came, Credited
<1>4. /\ AmountOf(OnTheWay) \in Nat /\ AmountOf(Came) \in Nat /\ AmountOf(Credited) \in Nat
      /\ AmountOf(Credited) <= AmountOf(Came)
  BY <1>3, AmountOfType
<1>5. Owed \in Int
  BY OwedType DEF CustodyInv, FlowTypes, TypeOK
<1>6. Total(Opening) <= Total(WalletAtStart) + TreasuryAtStart
  BY DEF BackedAtStart
<1>7. Owed <= Held
  BY <1>1, <1>2, <1>4, <1>5, <1>6, StartTotals
<1> QED
  BY <1>7 DEF Solvent, Owed, Held

\* Kudi, solvent at the start, never owes its users more than the tokens it
\* holds, whatever requests overlap, fail half-way or are cut off.
THEOREM KudiStaysSolvent ==
    NoHiddenBalance /\ BackedAtStart => (CustodySpec => []Solvent)
<1> SUFFICES ASSUME NoHiddenBalance, BackedAtStart PROVE CustodySpec => []Solvent
  OBVIOUS
<1>1. CustodyInv /\ FundsInv => Solvent
  BY CoverIsSolvent
<1> QED
  BY <1>1, CustodyAlways, FundsAlways, PTL

\* A recorded snapshot's liability is covered by the deposits it counted.
THEOREM SnapshotsAreBacked ==
    NoHiddenBalance => (CustodySpec => []SnapshotIsBacked)
<1> SUFFICES ASSUME NoHiddenBalance PROVE CustodySpec => []SnapshotIsBacked
  OBVIOUS
<1>1. FundsInv => SnapshotIsBacked
  BY DEF FundsInv, SnapInv
<1> QED
  BY <1>1, FundsAlways, PTL
=============================================================================
