------------------------- MODULE WithdrawalsProofs --------------------------
(***************************************************************************)
(* What the runs of Withdrawals check on one or two references and two     *)
(* live runs of the job, for every number of them, every batch and attempt *)
(* limit and every set of faults a theorem does not exclude.  Each property *)
(* comes from an inductive invariant: PaidInv under every fault, HolderInv *)
(* and MoneyInv while no run outlives the stale limit, SettleInv without   *)
(* faults.                                                                 *)
(***************************************************************************)
EXTENDS Withdrawals, LedgerStoreProofs, SequenceTheorems

-----------------------------------------------------------------------------
(* Types.                                                                  *)

\* The stages and statuses the steps name.
LEMMA Names ==
    /\ {"choose", "send", "direct", "cover", "broadcast", "wait", "confirm", "failed", "verify",
        "markFailed", "reverse", "refund"} \subseteq Stages
    /\ {"PENDING", "PROCESSING", "BROADCAST", "CONFIRMED", "FAILED"} \subseteq Statuses
    /\ Parts \in SUBSET Parts /\ {1} \in SUBSET Parts /\ {2} \in SUBSET Parts
    /\ {"debit", "credit", "reversal"} \subseteq Kinds
  BY DEF Stages, Statuses, Parts, Kinds

\* What a live run carries.
LEMMA BusyRun ==
    ASSUME TypeOK, NEW w \in Workers, Busy(w)
    PROVE  /\ worker[w] \in Runs
           /\ worker[w].stage \in Stages
           /\ Job(w) \in Jobs
           /\ Job(w).ref \in Refs
           /\ Job(w).attempts \in Nat
           /\ worker[w].todo \subseteq Jobs
           /\ worker[w].hash \in Nat
  <1>1. worker[w] \in Runs
    BY DEF TypeOK, Busy, IdleRuns
  <1> QED
    BY <1>1 DEF Runs, Jobs, Job

\* A new run, or the next job of a run, is a run.
LEMMA StartTypes ==
    ASSUME NEW job \in Jobs, NEW todo \in SUBSET Jobs
    PROVE  Start(job, todo) \in Runs
  BY DEF Start, Runs, Stages

\* A run that goes to another stage keeps everything else.
LEMMA GoToRun ==
    ASSUME TypeOK, NEW w \in Workers, Busy(w), NEW stage \in Stages, GoTo(w, stage)
    PROVE  /\ worker' \in [Workers -> Runs \cup IdleRuns]
           /\ worker'[w].stage = stage
           /\ worker'[w].job = worker[w].job
           /\ worker'[w].todo = worker[w].todo
           /\ worker'[w].hash = worker[w].hash
           /\ \A v \in Workers : v # w => worker'[v] = worker[v]
  <1>1. worker[w] \in Runs
    BY BusyRun
  <1>2. [worker[w] EXCEPT !.stage = stage] \in Runs
    BY <1>1 DEF Runs
  <1> QED
    BY <1>1, <1>2 DEF TypeOK, GoTo, Runs

\* A run that is done with its job starts another of its batch or is idle.
LEMMA NextJobRun ==
    ASSUME TypeOK, NEW w \in Workers, Busy(w), NextJob(w)
    PROVE  /\ worker' \in [Workers -> Runs \cup IdleRuns]
           /\ \/ worker'[w] = Idle
              \/ \E job \in worker[w].todo :
                   worker'[w] = Start(job, worker[w].todo \ {job})
           /\ \A v \in Workers : v # w => worker'[v] = worker[v]
  <1>1. worker[w].todo \subseteq Jobs
    BY BusyRun
  <1>2. Idle \in IdleRuns
    BY DEF Idle, IdleRuns
  <1>3. CASE worker[w].todo = {}
    BY <1>2, <1>3 DEF NextJob, TypeOK
  <1>4. CASE worker[w].todo # {}
    <2>1. PICK job \in worker[w].todo :
            worker' = [worker EXCEPT ![w] = Start(job, worker[w].todo \ {job})]
      BY <1>4 DEF NextJob
    <2>2. Start(job, worker[w].todo \ {job}) \in Runs
      BY <1>1, StartTypes
    <2> QED
      BY <2>1, <2>2 DEF TypeOK
  <1> QED
    BY <1>3, <1>4

\* A call of the API that starts or returns changes one reference: a row that
\* was persisted stays so, and a debit is open only until it is booked.
LEMMA CallSteps ==
    ASSUME TypeOK, NEW r \in Refs, ApiNext(r)
    PROVE  /\ request' \in [Refs -> Calls]
           /\ \A q \in Refs : q # r => request'[q] = request[q]
           /\ request[r].persist = "done" => request'[r].persist = "done"
           /\ request'[r].persist = "idle" =>
                request[r].persist = "idle" /\ request[r].debit # "idle"
           /\ request'[r].debit \in {"idle", "inflight"} =>
                /\ UNCHANGED storeVars
                /\ \/ request[r].debit \in {"idle", "inflight"}
                   \/ request[r].persist = "idle"
  <1>t. request \in [Refs -> Calls] /\ request[r] \in Calls
    BY DEF TypeOK
  <1>1. CASE Request(r)
    <2> DEFINE new == [persist |-> "inflight", debit |-> "inflight"]
    <2>1. new \in Calls
      BY DEF Calls
    <2> QED
      BY <1>t, <1>1, <2>1 DEF Request
  <1>2. CASE PersistRow(r) \/ PersistFails(r)
    <2>1. PICK p \in {"done", "lost"} :
            /\ request' = [request EXCEPT ![r].persist = p]
            /\ request[r].persist = "inflight"
            /\ UNCHANGED storeVars
      BY <1>2 DEF PersistRow, PersistFails
    <2> DEFINE new == [request[r] EXCEPT !.persist = p]
    <2>2. new \in Calls /\ new.persist = p /\ new.debit = request[r].debit
      BY <1>t DEF Calls
    <2>3. request' = [request EXCEPT ![r] = new]
      BY <2>1
    <2> QED
      BY <1>t, <2>1, <2>2, <2>3
  <1>3. CASE DebitOk(r) \/ DebitRefused(r)
    <2>1. PICK d \in {"ok", "refused"} :
            /\ request' = [request EXCEPT ![r].debit = d]
            /\ request[r].debit = "inflight"
      BY <1>3 DEF DebitOk, DebitRefused
    <2> DEFINE new == [request[r] EXCEPT !.debit = d]
    <2>2. new \in Calls /\ new.debit = d /\ new.persist = request[r].persist
      BY <1>t DEF Calls
    <2>3. request' = [request EXCEPT ![r] = new]
      BY <2>1
    <2> QED
      BY <1>t, <2>1, <2>2, <2>3
  <1>4. CASE ApiCrash(r)
    <2> DEFINE p == IF request[r].persist = "inflight" THEN "lost" ELSE request[r].persist
               d == IF request[r].debit = "inflight" THEN "refused" ELSE request[r].debit
               new == [persist |-> p, debit |-> d]
    <2>1. new \in Calls
      BY <1>t DEF Calls
    <2>2. /\ request' = [request EXCEPT ![r] = new]
          /\ UNCHANGED storeVars
          /\ "inflight" \in {request[r].persist, request[r].debit}
      BY <1>4 DEF ApiCrash
    <2> HIDE DEF p, d
    <2> QED
      BY <1>t, <2>1, <2>2 DEF p, d
  <1> QED
    BY <1>1, <1>2, <1>3, <1>4 DEF ApiNext

\* markWithdrawal writes a row and keeps the others.
LEMMA MarkRow ==
    ASSUME TypeOK, NEW r \in Refs, NEW status \in Statuses, NEW hash \in Nat,
           NEW due \in BOOLEAN, Mark(r, status, hash, due)
    PROVE  /\ row' \in [Refs -> Rows]
           /\ row'[r].status = status
           /\ row'[r].hash = IF hash = 0 THEN row[r].hash ELSE hash
           /\ \A q \in Refs : q # r => row'[q] = row[q]
  <1>1. row[r] \in Rows
    BY DEF TypeOK
  <1> DEFINE new == [row[r] EXCEPT !.status = status,
                                   !.hash = IF hash = 0 THEN row[r].hash ELSE hash,
                                   !.due = due]
  <1>2. /\ new \in Rows
        /\ new.status = status
        /\ new.hash = IF hash = 0 THEN row[r].hash ELSE hash
    BY <1>1 DEF Rows
  <1>3. row' = [row EXCEPT ![r] = new]
    BY <1>1 DEF Mark, Rows, TypeOK
  <1> QED
    BY <1>2, <1>3 DEF TypeOK

\* A row that is given back keeps its hash.
LEMMA GivenBackRow ==
    ASSUME TypeOK, NEW r \in Refs, BackoffElapses(r) \/ RecoverStale(r)
    PROVE  /\ row' \in [Refs -> Rows]
           /\ row'[r].status = "PENDING"
           /\ row'[r].hash = row[r].hash
           /\ \A q \in Refs : q # r => row'[q] = row[q]
  <1>1. row[r] \in Rows
    BY DEF TypeOK
  <1> DEFINE new == [row[r] EXCEPT !.status = "PENDING", !.due = TRUE]
  <1>2. /\ new \in Rows
        /\ new.status = "PENDING"
        /\ new.hash = row[r].hash
    BY <1>1, Names DEF Rows
  <1>3. CASE BackoffElapses(r)
    <2>1. [row[r] EXCEPT !.due = TRUE] = new
      BY <1>1, <1>3 DEF BackoffElapses, Rows
    <2>2. row' = [row EXCEPT ![r] = [row[r] EXCEPT !.due = TRUE]]
      BY <1>3 DEF BackoffElapses
    <2>3. row' = [row EXCEPT ![r] = new]
      BY <2>1, <2>2
    <2> QED
      BY <1>2, <2>3 DEF TypeOK
  <1>4. CASE RecoverStale(r)
    <2>1. row' = [row EXCEPT ![r] = new]
      BY <1>1, <1>4 DEF RecoverStale, TypeOK, Rows
    <2> QED
      BY <1>2, <2>1 DEF TypeOK
  <1> QED
    BY <1>3, <1>4

\* A broadcast appends a pending transaction and keeps the others.
LEMMA GiveSends ==
    ASSUME TypeOK, NEW r \in Refs, NEW parts \in SUBSET Parts, Give(r, parts)
    PROVE  /\ sends' \in [Refs -> Seq(Sends)]
           /\ Len(sends'[r]) = Len(sends[r]) + 1
           /\ sends'[r][Len(sends[r]) + 1].state = "pending"
           /\ \A i \in 1..Len(sends[r]) : sends'[r][i] = sends[r][i]
           /\ \A q \in Refs : q # r => sends'[q] = sends[q]
  <1>1. sends[r] \in Seq(Sends)
    BY DEF TypeOK
  <1>2. [parts |-> parts, state |-> "pending"] \in Sends
    BY DEF Sends
  <1>3. sends' = [sends EXCEPT ![r] = Append(sends[r], [parts |-> parts, state |-> "pending"])]
    BY DEF Give
  <1> QED
    BY <1>1, <1>2, <1>3, AppendProperties DEF TypeOK

\* The chain decides one transaction and keeps the others.
LEMMA ChainSends ==
    ASSUME TypeOK, NEW r \in Refs, NEW i \in DOMAIN sends[r], Land(r, i) \/ Drop(r, i)
    PROVE  /\ sends' \in [Refs -> Seq(Sends)]
           /\ Len(sends'[r]) = Len(sends[r])
           /\ sends[r][i].state # "landed"
           /\ \A j \in 1..Len(sends[r]) : j # i => sends'[r][j] = sends[r][j]
           /\ \A q \in Refs : q # r => sends'[q] = sends[q]
  <1>1. /\ sends[r] \in Seq(Sends)
        /\ i \in 1..Len(sends[r])
        /\ sends[r][i] \in Sends
    BY ElementOfSeq, LenProperties DEF TypeOK
  <1>2. PICK state \in {"landed", "dropped"} :
          sends' = [sends EXCEPT ![r] = [sends[r] EXCEPT ![i] =
                      [sends[r][i] EXCEPT !.state = state]]]
    BY <1>1 DEF Land, Drop, TypeOK
  <1>3. [sends[r][i] EXCEPT !.state = state] \in Sends
    BY <1>1 DEF Sends
  <1>4. /\ [sends[r] EXCEPT ![i] = [sends[r][i] EXCEPT !.state = state]] \in Seq(Sends)
        /\ Len([sends[r] EXCEPT ![i] = [sends[r][i] EXCEPT !.state = state]]) = Len(sends[r])
    BY <1>1, <1>3, ExceptSeq
  <1> QED
    BY <1>1, <1>2, <1>4 DEF Land, Drop, TypeOK

\* A run that has broadcast carries the index of its transaction.
LEMMA BroadcastRun ==
    ASSUME TypeOK, NEW w \in Workers, Busy(w),
           worker' = [worker EXCEPT ![w].stage = "broadcast",
                                    ![w].hash = Len(sends[Job(w).ref]) + 1]
    PROVE  /\ worker' \in [Workers -> Runs \cup IdleRuns]
           /\ worker'[w].stage = "broadcast"
           /\ worker'[w].job = worker[w].job
           /\ worker'[w].todo = worker[w].todo
           /\ worker'[w].hash = Len(sends[Job(w).ref]) + 1
           /\ \A v \in Workers : v # w => worker'[v] = worker[v]
  <1>1. worker[w] \in Runs /\ Len(sends[Job(w).ref]) + 1 \in Nat
    BY BusyRun, LenProperties DEF TypeOK
  <1> DEFINE new == [worker[w] EXCEPT !.stage = "broadcast",
                                      !.hash = Len(sends[Job(w).ref]) + 1]
  <1>2. /\ new \in Runs
        /\ new.stage = "broadcast"
        /\ new.job = worker[w].job
        /\ new.todo = worker[w].todo
        /\ new.hash = Len(sends[Job(w).ref]) + 1
    BY <1>1 DEF Runs, Stages
  <1>3. worker' = [worker EXCEPT ![w] = new]
    BY <1>1 DEF TypeOK, Runs
  <1> QED
    BY <1>2, <1>3 DEF TypeOK

\* What a transaction pays is a part of the amount.
LEMMA PayingParts ==
    ASSUME NEW w \in Workers
    PROVE  Paying(w) \in SUBSET Parts
  BY DEF Paying, Parts

\* A claim writes the rows of its batch and starts a run on them.
LEMMA ClaimStep ==
    ASSUME TypeOK, NEW w \in Workers, Claim(w)
    PROVE  \E batch \in SUBSET Due :
             LET jobs == {[ref |-> r, attempts |-> row[r].attempts] : r \in batch} IN
             /\ row' \in [Refs -> Rows]
             /\ \A r \in Refs : row'[r].hash = row[r].hash
             /\ \A r \in batch : row'[r].status = "PROCESSING"
             /\ \A r \in Refs \ batch : row'[r] = row[r]
             /\ jobs \subseteq Jobs
             /\ worker' \in [Workers -> Runs \cup IdleRuns]
             /\ \E job \in jobs : worker'[w] = Start(job, jobs \ {job})
             /\ \A v \in Workers : v # w => worker'[v] = worker[v]
  <1>1. PICK batch \in SUBSET Due :
          LET jobs == {[ref |-> r, attempts |-> row[r].attempts] : r \in batch} IN
          /\ row' = [r \in Refs |->
                       IF r \in batch
                       THEN [row[r] EXCEPT !.status = "PROCESSING", !.attempts = @ + 1]
                       ELSE row[r]]
          /\ \E first \in jobs : worker' = [worker EXCEPT ![w] = Start(first, jobs \ {first})]
    BY DEF Claim
  <1> DEFINE jobs == {[ref |-> r, attempts |-> row[r].attempts] : r \in batch}
  <1>2. batch \subseteq Refs /\ \A r \in Refs : row[r] \in Rows
    BY DEF Due, TypeOK
  <1>3. jobs \subseteq Jobs
    BY <1>2 DEF Jobs, Rows
  <1>4. PICK job \in jobs : worker' = [worker EXCEPT ![w] = Start(job, jobs \ {job})]
    BY <1>1
  <1>5. Start(job, jobs \ {job}) \in Runs
    BY <1>3, StartTypes
  <1>6. /\ worker' \in [Workers -> Runs \cup IdleRuns]
        /\ worker'[w] = Start(job, jobs \ {job})
        /\ \A v \in Workers : v # w => worker'[v] = worker[v]
    BY <1>4, <1>5 DEF TypeOK
  <1> DEFINE marked(r) == [row[r] EXCEPT !.status = "PROCESSING", !.attempts = @ + 1]
  <1>7. ASSUME NEW r \in Refs
        PROVE  /\ marked(r) \in Rows
               /\ marked(r).hash = row[r].hash
               /\ marked(r).status = "PROCESSING"
    <2>1. row[r] \in Rows
      BY <1>2
    <2>2. row[r].attempts + 1 \in Nat
      BY <2>1 DEF Rows
    <2> QED
      BY <2>1, <2>2, Names DEF Rows
  <1>8. row' = [r \in Refs |-> IF r \in batch THEN marked(r) ELSE row[r]]
    BY <1>1
  <1> HIDE DEF marked
  <1>9. /\ row' \in [Refs -> Rows]
        /\ \A r \in Refs : row'[r].hash = row[r].hash
        /\ \A r \in batch : row'[r].status = "PROCESSING"
        /\ \A r \in Refs \ batch : row'[r] = row[r]
    BY <1>2, <1>7, <1>8
  <1> QED
    BY <1>3, <1>6, <1>9

\* The tables, the rows, the runs and the chain keep their types through every
\* step, each fault included.
THEOREM TypeCorrect == Spec => []TypeOK
<1>1. Init => TypeOK
  BY StoreAssumption, EmptySeq
  DEF Init, StoreInit, TypeOK, StoreTypeOK, Calls, Rows, Statuses, Idle, IdleRuns
<1>2. TypeOK /\ [Next]_vars => TypeOK'
  <2> SUFFICES ASSUME TypeOK, [Next]_vars
               PROVE  TypeOK'
    OBVIOUS
  <2>t. /\ StoreTypeOK
        /\ request \in [Refs -> Calls]
        /\ row \in [Refs -> Rows]
        /\ sends \in [Refs -> Seq(Sends)]
        /\ worker \in [Workers -> Runs \cup IdleRuns]
    BY DEF TypeOK
  <2>s. ASSUME UNCHANGED storeVars
        PROVE  StoreTypeOK'
    BY <2>s, <2>t DEF storeVars, StoreTypeOK
  <2>1. ASSUME NEW r \in Refs, Request(r) \/ PersistFails(r) \/ DebitRefused(r) \/ ApiCrash(r)
        PROVE  TypeOK'
    <3>1. UNCHANGED <<storeVars, row, sends, worker>>
      BY <2>1 DEF Request, PersistFails, DebitRefused, ApiCrash
    <3> QED
      BY <2>1, <3>1, <2>s, <2>t, CallSteps DEF ApiNext, TypeOK
  <2>2. ASSUME NEW r \in Refs, PersistRow(r)
        PROVE  TypeOK'
    <3>1. /\ row' = [row EXCEPT ![r].status = "PENDING", ![r].due = TRUE]
          /\ UNCHANGED <<storeVars, sends, worker>>
      BY <2>2 DEF PersistRow
    <3>2. request' \in [Refs -> Calls]
      BY <2>2, CallSteps DEF ApiNext
    <3> QED
      BY <3>1, <3>2, <2>s, <2>t, Names DEF TypeOK, Rows
  <2>3. ASSUME NEW r \in Refs, DebitOk(r)
        PROVE  TypeOK'
    <3>1. DebitTx(r, FALSE) /\ UNCHANGED <<row, sends, worker>>
      BY <2>3 DEF DebitOk
    <3>2. request' \in [Refs -> Calls]
      BY <2>3, CallSteps DEF ApiNext
    <3> QED
      BY <3>1, <3>2, <2>t, DebitTypes DEF TypeOK
  <2>4. ASSUME NEW r \in Refs, BackoffElapses(r) \/ RecoverStale(r)
        PROVE  TypeOK'
    BY <2>4, <2>s, <2>t, GivenBackRow DEF BackoffElapses, RecoverStale, TypeOK
  <2>5. ASSUME NEW w \in Workers, Claim(w)
        PROVE  TypeOK'
    BY <2>5, <2>s, <2>t, ClaimStep DEF Claim, TypeOK
  <2>6. ASSUME NEW w \in Workers, Send(w)
        PROVE  TypeOK'
    <3>1. Busy(w) /\ Job(w).ref \in Refs
      BY <2>6, BusyRun DEF Send, At
    <3> QED
      BY <2>6, <2>s, <2>t, <3>1, PayingParts, GiveSends, BroadcastRun DEF Send, TypeOK
  <2>7. ASSUME NEW w \in Workers, SendDirect(w) \/ SendAnswerLost(w)
        PROVE  TypeOK'
    <3>1. Busy(w) /\ Job(w).ref \in Refs
      BY <2>7, BusyRun DEF SendDirect, SendAnswerLost, At
    <3>2. /\ \E stage \in Stages : GoTo(w, stage)
          /\ Give(Job(w).ref, Paying(w)) \/ UNCHANGED sends
          /\ UNCHANGED <<storeVars, request, row>>
      BY <2>7, Names DEF SendDirect, SendAnswerLost
    <3>3. sends' \in [Refs -> Seq(Sends)]
      BY <2>t, <3>1, <3>2, PayingParts, GiveSends
    <3>4. worker' \in [Workers -> Runs \cup IdleRuns]
      BY <3>1, <3>2, GoToRun
    <3> QED
      BY <2>s, <2>t, <3>2, <3>3, <3>4 DEF TypeOK
  <2>8. ASSUME NEW w \in Workers, SendAgain(w)
        PROVE  TypeOK'
    <3>1. Busy(w) /\ Job(w).ref \in Refs
      BY <2>8, BusyRun DEF SendAgain, At
    <3> QED
      BY <2>8, <2>s, <2>t, <3>1, PayingParts, GiveSends DEF SendAgain, TypeOK
  <2>9. ASSUME NEW w \in Workers,
               \/ ChooseWallets(w) \/ SendRefused(w) \/ WaitConfirmed(w) \/ WaitTimesOut(w) \/ MarkFails(w)
               \/ GiveUp(w) \/ VerifyDenies(w) \/ ReversalNeeded(w)
        PROVE  TypeOK'
    <3>1. /\ Busy(w)
          /\ \E stage \in Stages : GoTo(w, stage)
          /\ UNCHANGED <<storeVars, request, row, sends>>
      BY <2>9, Names DEF At, ChooseWallets, SendRefused, WaitConfirmed, WaitTimesOut, MarkFails, GiveUp,
           VerifyDenies, ReversalNeeded
    <3> QED
      BY <3>1, <2>s, <2>t, GoToRun DEF TypeOK
  <2>10. ASSUME NEW w \in Workers, MarkBroadcast(w) \/ MarkFailed(w)
         PROVE  TypeOK'
    <3>1. /\ Busy(w) /\ Job(w).ref \in Refs /\ worker[w].hash \in Nat
          /\ row[Job(w).ref].due \in BOOLEAN
      BY <2>10, <2>t, BusyRun DEF MarkBroadcast, MarkFailed, At, Rows
    <3> QED
      BY <2>10, <2>s, <2>t, <3>1, Names, GoToRun, MarkRow DEF MarkBroadcast, MarkFailed, TypeOK
  <2>11. ASSUME NEW w \in Workers, MarkConfirmed(w) \/ VerifyConfirms(w) \/ Retry(w)
         PROVE  TypeOK'
    <3>1. /\ Busy(w) /\ Job(w).ref \in Refs /\ worker[w].hash \in Nat
          /\ row[Job(w).ref].due \in BOOLEAN
      BY <2>11, <2>t, BusyRun DEF MarkConfirmed, VerifyConfirms, Retry, At, Rows
    <3>2. \E status \in Statuses, hash \in Nat, due \in BOOLEAN : Mark(Job(w).ref, status, hash, due)
      <4>1. CASE MarkConfirmed(w) \/ VerifyConfirms(w)
        BY <3>1, <4>1, Names DEF MarkConfirmed, VerifyConfirms
      <4>2. CASE Retry(w)
        BY <4>2, Names DEF Retry
      <4> QED
        BY <2>11, <4>1, <4>2
    <3>3. NextJob(w) /\ UNCHANGED <<storeVars, request, sends>>
      BY <2>11 DEF MarkConfirmed, VerifyConfirms, Retry
    <3>4. row' \in [Refs -> Rows]
      BY <3>1, <3>2, MarkRow
    <3>5. worker' \in [Workers -> Runs \cup IdleRuns]
      BY <3>1, <3>3, NextJobRun
    <3> QED
      BY <2>s, <2>t, <3>3, <3>4, <3>5 DEF TypeOK
  <2>12. ASSUME NEW w \in Workers, ReversalSkipped(w)
         PROVE  TypeOK'
    BY <2>12, <2>s, <2>t, NextJobRun DEF ReversalSkipped, At, TypeOK
  <2>13. ASSUME NEW w \in Workers, ReversalApply(w)
         PROVE  TypeOK'
    <3>1. Busy(w) /\ Job(w).ref \in Refs
      BY <2>13, BusyRun DEF ReversalApply, At
    <3> QED
      BY <2>13, <2>t, <3>1, Names, NextJobRun, CreditTypes DEF ReversalApply, TypeOK
  <2>14. ASSUME NEW w \in Workers, RunEnds(w)
         PROVE  TypeOK'
    BY <2>14, <2>s, <2>t DEF RunEnds, Idle, IdleRuns, TypeOK
  <2>15. ASSUME NEW r \in Refs, ChainNext(r)
         PROVE  TypeOK'
    <3>1. /\ sends' \in [Refs -> Seq(Sends)]
          /\ UNCHANGED <<storeVars, request, row, worker>>
      BY <2>15, ChainSends DEF ChainNext, Land, Drop
    <3> QED
      BY <3>1, <2>s, <2>t DEF TypeOK
  <2>16. CASE UNCHANGED vars
    BY <2>16, <2>s, <2>t DEF vars, storeVars, TypeOK
  <2> QED
    BY <2>1, <2>2, <2>3, <2>4, <2>5, <2>6, <2>7, <2>8, <2>9, <2>10, <2>11, <2>12,
       <2>13, <2>14, <2>15, <2>16 DEF Next, ApiNext, RunNext
<1> QED
  BY <1>1, <1>2, PTL DEF Spec

-----------------------------------------------------------------------------
(* A CONFIRMED withdrawal is on the chain.                                 *)

\* The chain forgets no transaction and takes none back.
LEMMA SendsGrow ==
    ASSUME TypeOK, [Next]_vars, NEW r \in Refs
    PROVE  /\ Len(sends[r]) \in Nat /\ Len(sends'[r]) \in Nat
           /\ Len(sends[r]) <= Len(sends'[r])
           /\ \A i \in 1..Len(sends[r]) :
                sends[r][i].state = "landed" => sends'[r][i].state = "landed"
  <1>t. \A q \in Refs : sends[q] \in Seq(Sends) /\ Len(sends[q]) \in Nat
    BY LenProperties DEF TypeOK
  <1>1. ASSUME NEW w \in Workers, Send(w) \/ SendDirect(w) \/ SendAnswerLost(w) \/ SendAgain(w),
               ~UNCHANGED sends
        PROVE  \E q \in Refs, parts \in SUBSET Parts : Give(q, parts)
    <2>1. Busy(w) /\ Job(w).ref \in Refs /\ Paying(w) \in SUBSET Parts
      BY <1>1, BusyRun, PayingParts DEF Send, SendDirect, SendAnswerLost, SendAgain, At
    <2> QED
      BY <1>1, <2>1, Names DEF Send, SendDirect, SendAnswerLost, SendAgain
  <1>2. ASSUME NEW q \in Refs, NEW parts \in SUBSET Parts, Give(q, parts)
        PROVE  /\ Len(sends[r]) \in Nat /\ Len(sends'[r]) \in Nat
               /\ Len(sends[r]) <= Len(sends'[r])
               /\ \A i \in 1..Len(sends[r]) : sends'[r][i] = sends[r][i]
    <2>1. /\ Len(sends'[q]) = Len(sends[q]) + 1
          /\ \A i \in 1..Len(sends[q]) : sends'[q][i] = sends[q][i]
          /\ q # r => sends'[r] = sends[r]
      BY <1>2, GiveSends
    <2> QED
      BY <1>t, <2>1
  <1>3. ASSUME NEW q \in Refs, ChainNext(q)
        PROVE  /\ Len(sends'[r]) = Len(sends[r])
               /\ \A i \in 1..Len(sends[r]) :
                    sends[r][i].state = "landed" => sends'[r][i].state = "landed"
    <2>1. PICK j \in DOMAIN sends[q] : Land(q, j) \/ Drop(q, j)
      BY <1>3 DEF ChainNext
    <2>2. /\ Len(sends'[q]) = Len(sends[q])
          /\ sends[q][j].state # "landed"
          /\ \A i \in 1..Len(sends[q]) : i # j => sends'[q][i] = sends[q][i]
          /\ q # r => sends'[r] = sends[r]
      BY <2>1, ChainSends
    <2> QED
      BY <2>2
  <1>4. \/ UNCHANGED sends
        \/ \E w \in Workers : Send(w) \/ SendDirect(w) \/ SendAnswerLost(w) \/ SendAgain(w)
        \/ \E q \in Refs : ChainNext(q)
    BY DEF Next, ApiNext, RunNext, vars, Request, PersistRow, PersistFails, DebitOk,
       DebitRefused, ApiCrash, BackoffElapses, RecoverStale, Claim, RunEnds,
       ChooseWallets, SendRefused, MarkBroadcast, WaitConfirmed, WaitTimesOut, MarkConfirmed,
       MarkFails, Retry, GiveUp, VerifyConfirms, VerifyDenies, MarkFailed, ReversalNeeded,
       ReversalSkipped, ReversalApply
  <1> QED
    BY <1>t, <1>1, <1>2, <1>3, <1>4

\* A run that has a hash has the hash of a transaction of its reference, and
\* one that is about to confirm has seen it on the chain.
KnownHash(w) ==
    Busy(w) =>
        /\ worker[w].hash \in 0..Len(sends[Job(w).ref])
        /\ worker[w].stage \in {"broadcast", "wait", "confirm", "verify"} => worker[w].hash # 0
        /\ worker[w].stage = "confirm" => Sent(w).state = "landed"

PaidInv ==
    /\ TypeOK
    /\ ConfirmedWasPaid
    /\ \A w \in Workers : KnownHash(w)

\* What a run knows stays true until the run itself takes a step.
LEMMA KnownHashKept ==
    ASSUME TypeOK, [Next]_vars, NEW w \in Workers, KnownHash(w), worker'[w] = worker[w]
    PROVE  KnownHash(w)'
  <1> SUFFICES ASSUME Busy(w) PROVE KnownHash(w)'
    BY DEF KnownHash, Busy
  <1>1. Job(w).ref \in Refs
    BY BusyRun
  <1> DEFINE n == Len(sends[Job(w).ref])
             m == Len(sends'[Job(w).ref])
  <1>2. /\ n \in Nat /\ m \in Nat /\ n <= m
        /\ \A i \in 1..n : sends[Job(w).ref][i].state = "landed" =>
                           sends'[Job(w).ref][i].state = "landed"
    BY <1>1, SendsGrow
  <1>3. /\ worker[w].hash \in 0..n
        /\ worker[w].stage \in {"broadcast", "wait", "confirm", "verify"} => worker[w].hash # 0
        /\ worker[w].stage = "confirm" => sends[Job(w).ref][worker[w].hash].state = "landed"
    BY DEF KnownHash, Sent
  <1> QED
    BY <1>2, <1>3 DEF KnownHash, Sent, Job

\* A new job of a run has no hash yet.
LEMMA KnownHashFresh ==
    ASSUME TypeOK', NEW w \in Workers,
           \/ worker'[w] = Idle
           \/ \E job \in Jobs, todo \in SUBSET Jobs : worker'[w] = Start(job, todo)
    PROVE  KnownHash(w)'
  <1>1. CASE worker'[w] = Idle
    BY <1>1 DEF KnownHash, Busy, Idle
  <1>2. CASE \E job \in Jobs, todo \in SUBSET Jobs : worker'[w] = Start(job, todo)
    <2>1. PICK job \in Jobs, todo \in SUBSET Jobs : worker'[w] = Start(job, todo)
      BY <1>2
    <2>2. worker'[w].stage = "choose" /\ worker'[w].hash = 0 /\ worker'[w].job = job /\ job.ref \in Refs
      BY <2>1 DEF Start, Jobs
    <2>3. Len(sends'[job.ref]) \in Nat
      BY <2>2, LenProperties DEF TypeOK
    <2> QED
      BY <2>2, <2>3 DEF KnownHash, Sent, Job
  <1> QED
    BY <1>1, <1>2

\* A run that keeps its job and its hash knows what its next stage needs.
LEMMA KnownHashGoTo ==
    ASSUME TypeOK, [Next]_vars, NEW w \in Workers, KnownHash(w), Busy(w),
           worker'[w].job = worker[w].job, worker'[w].hash = worker[w].hash,
           worker'[w].stage \in {"broadcast", "wait", "confirm", "verify"} => worker[w].hash # 0,
           worker'[w].stage = "confirm" => Sent(w).state = "landed"
    PROVE  KnownHash(w)'
  <1>1. Job(w).ref \in Refs
    BY BusyRun
  <1> DEFINE n == Len(sends[Job(w).ref])
             m == Len(sends'[Job(w).ref])
  <1>2. /\ n \in Nat /\ m \in Nat /\ n <= m
        /\ \A i \in 1..n : sends[Job(w).ref][i].state = "landed" =>
                           sends'[Job(w).ref][i].state = "landed"
    BY <1>1, SendsGrow
  <1>3. /\ worker[w].hash \in 0..n
        /\ worker'[w].stage = "confirm" => sends[Job(w).ref][worker[w].hash].state = "landed"
    BY DEF KnownHash, Sent
  <1> QED
    BY <1>2, <1>3 DEF KnownHash, Sent, Job

\* Which runs a step leaves alone, and what it does to the one it moves.
LEMMA RunSteps ==
    ASSUME TypeOK, [Next]_vars, NEW w \in Workers, worker'[w] # worker[w]
    PROVE  \/ Claim(w)
           \/ RunNext(w)
           \/ RunEnds(w)
  <1>1. \/ UNCHANGED worker
        \/ \E v \in Workers : Claim(v) \/ RunNext(v) \/ RunEnds(v)
    BY DEF Next, ApiNext, ChainNext, vars, Request, PersistRow, PersistFails, DebitOk,
       DebitRefused, ApiCrash, BackoffElapses, RecoverStale, Land, Drop
  <1>2. ASSUME NEW v \in Workers, v # w, Claim(v) \/ RunNext(v) \/ RunEnds(v)
        PROVE  worker'[w] = worker[w]
    <2>1. CASE Claim(v)
      BY <1>2, <2>1, ClaimStep
    <2>2. CASE RunEnds(v)
      BY <1>2, <2>2 DEF RunEnds, TypeOK
    <2>3. CASE RunNext(v)
      <3>1. \/ UNCHANGED worker
            \/ \E new : worker' = [worker EXCEPT ![v] = new]
        BY <2>3 DEF RunNext, ChooseWallets, Send, SendDirect, SendRefused, SendAnswerLost, SendAgain,
           MarkBroadcast, WaitConfirmed, WaitTimesOut, MarkConfirmed, MarkFails, Retry,
           GiveUp, VerifyConfirms, VerifyDenies, MarkFailed, ReversalNeeded,
           ReversalSkipped, ReversalApply, GoTo, NextJob
      <3> QED
        BY <1>2, <3>1 DEF TypeOK
    <2> QED
      BY <1>2, <2>1, <2>2, <2>3
  <1> QED
    BY <1>1, <1>2

\* A step leaves every run with the hash its stage needs.
LEMMA KnownHashStep ==
    ASSUME TypeOK, TypeOK', [Next]_vars, NEW w \in Workers, KnownHash(w)
    PROVE  KnownHash(w)'
  <1>1. CASE worker'[w] = worker[w]
    BY <1>1, KnownHashKept
  <1>2. ASSUME worker'[w] # worker[w]
        PROVE  KnownHash(w)'
    <2>1. CASE \/ MarkConfirmed(w) \/ VerifyConfirms(w) \/ Retry(w)
               \/ ReversalSkipped(w) \/ ReversalApply(w)
      <3>1. Busy(w) /\ NextJob(w)
        BY <2>1 DEF MarkConfirmed, VerifyConfirms, Retry, ReversalSkipped, ReversalApply, At
      <3>2. worker[w].todo \subseteq Jobs
        BY <3>1, BusyRun
      <3> QED
        BY <3>1, <3>2, NextJobRun, KnownHashFresh
    <2>2. CASE Claim(w)
      BY <2>2, ClaimStep, KnownHashFresh
    <2>3. CASE RunEnds(w)
      BY <2>3, KnownHashFresh DEF RunEnds, TypeOK
    <2>4. CASE ChooseWallets(w) \/ SendDirect(w) \/ SendRefused(w) \/ SendAnswerLost(w)
               \/ WaitTimesOut(w) \/ MarkFails(w) \/ VerifyDenies(w) \/ MarkFailed(w)
               \/ ReversalNeeded(w)
      <3>1. /\ Busy(w)
            /\ \E stage \in {"send", "direct", "cover", "failed", "markFailed", "reverse", "refund"} :
                 GoTo(w, stage)
        BY <2>4 DEF ChooseWallets, SendDirect, SendRefused, SendAnswerLost, WaitTimesOut,
           MarkFails, VerifyDenies, MarkFailed, ReversalNeeded, At
      <3> QED
        BY <3>1, Names, GoToRun, KnownHashGoTo
    <2>5. CASE GiveUp(w)
      <3>1. /\ Busy(w)
            /\ \/ GoTo(w, "markFailed")
               \/ GoTo(w, "verify") /\ worker[w].hash # 0
        BY <2>5 DEF GiveUp, At
      <3> QED
        BY <3>1, Names, GoToRun, KnownHashGoTo
    <2>6. CASE MarkBroadcast(w)
      <3>1. Busy(w) /\ GoTo(w, "wait") /\ worker[w].hash # 0
        BY <2>6 DEF MarkBroadcast, At, KnownHash
      <3> QED
        BY <3>1, Names, GoToRun, KnownHashGoTo
    <2>7. CASE WaitConfirmed(w)
      <3>1. Busy(w) /\ GoTo(w, "confirm") /\ worker[w].hash # 0 /\ Sent(w).state = "landed"
        BY <2>7 DEF WaitConfirmed, At, KnownHash
      <3> QED
        BY <3>1, Names, GoToRun, KnownHashGoTo
    <2>8. CASE SendAgain(w)
      BY <1>2, <2>8 DEF SendAgain
    <2>9. CASE Send(w)
      <3>1. /\ Busy(w)
            /\ Job(w).ref \in Refs
        BY <2>9, BusyRun DEF Send, At
      <3>2. /\ worker' = [worker EXCEPT ![w].stage = "broadcast",
                                        ![w].hash = Len(sends[Job(w).ref]) + 1]
            /\ \E parts \in SUBSET Parts : Give(Job(w).ref, parts)
        BY <2>9, PayingParts DEF Send
      <3>3. /\ worker'[w].stage = "broadcast"
            /\ worker'[w].job = worker[w].job
            /\ worker'[w].hash = Len(sends[Job(w).ref]) + 1
        BY <3>1, <3>2, BroadcastRun
      <3>4. /\ Len(sends[Job(w).ref]) \in Nat
            /\ Len(sends'[Job(w).ref]) = Len(sends[Job(w).ref]) + 1
        BY <3>1, <3>2, GiveSends, SendsGrow
      <3> QED
        BY <3>3, <3>4 DEF KnownHash, Job
    <2> QED
      BY <1>2, <2>1, <2>2, <2>3, <2>4, <2>5, <2>6, <2>7, <2>8, <2>9, RunSteps DEF RunNext
  <1> QED
    BY <1>1, <1>2

\* Who writes a row, and what it says before and after.
LEMMA RowSteps ==
    ASSUME TypeOK, [Next]_vars, NEW r \in Refs, row'[r] # row[r]
    PROVE  \/ PersistRow(r) /\ row'[r].status = "PENDING"
           \/ BackoffElapses(r) /\ row'[r].status = "PENDING"
           \/ RecoverStale(r) /\ row'[r].status = "PENDING"
           \/ \E w \in Workers : /\ Claim(w)
                                 /\ row[r].status = "PENDING"
                                 /\ row'[r].status = "PROCESSING"
           \/ \E w \in Workers :
                /\ Busy(w)
                /\ Job(w).ref = r
                /\ \/ MarkBroadcast(w) /\ row'[r].status = "BROADCAST"
                   \/ Retry(w) /\ row'[r].status = "PENDING"
                   \/ MarkFailed(w) /\ row'[r].status = "FAILED"
                   \/ /\ MarkConfirmed(w) \/ VerifyConfirms(w)
                      /\ row'[r].status = "CONFIRMED"
                      /\ worker[w].hash # 0 => row'[r].hash = worker[w].hash
  <1>t. row \in [Refs -> Rows] /\ row[r] \in Rows
    BY DEF TypeOK
  <1>1. \/ \E q \in Refs : PersistRow(q) \/ BackoffElapses(q) \/ RecoverStale(q)
        \/ \E w \in Workers : \/ Claim(w) \/ MarkBroadcast(w) \/ Retry(w) \/ MarkFailed(w)
                              \/ MarkConfirmed(w) \/ VerifyConfirms(w)
    BY DEF Next, ApiNext, RunNext, ChainNext, vars, Request, PersistFails, DebitOk,
       DebitRefused, ApiCrash, RunEnds, ChooseWallets, Send, SendDirect, SendRefused, SendAgain,
       SendAnswerLost, WaitConfirmed, WaitTimesOut, MarkFails, GiveUp, VerifyDenies,
       ReversalNeeded, ReversalSkipped, ReversalApply, Land, Drop
  <1>2. ASSUME NEW q \in Refs, PersistRow(q)
        PROVE  q = r /\ row'[r].status = "PENDING"
    <2>1. row' = [row EXCEPT ![q] = [row[q] EXCEPT !.status = "PENDING", !.due = TRUE]]
      BY <1>2, <1>t DEF PersistRow, Rows
    <2> QED
      BY <2>1, <1>t DEF Rows
  <1>3. ASSUME NEW q \in Refs, BackoffElapses(q) \/ RecoverStale(q)
        PROVE  q = r /\ row'[r].status = "PENDING"
    BY <1>3, GivenBackRow
  <1>4. ASSUME NEW w \in Workers, Claim(w)
        PROVE  row[r].status = "PENDING" /\ row'[r].status = "PROCESSING"
    <2>1. PICK batch \in SUBSET Due :
             /\ \A q \in batch : row'[q].status = "PROCESSING"
             /\ \A q \in Refs \ batch : row'[q] = row[q]
      BY <1>4, ClaimStep
    <2> QED
      BY <2>1 DEF Due
  <1>5. ASSUME NEW w \in Workers,
               \/ MarkBroadcast(w) \/ Retry(w) \/ MarkFailed(w)
               \/ MarkConfirmed(w) \/ VerifyConfirms(w)
        PROVE  Busy(w) /\ Job(w).ref \in Refs /\ worker[w].hash \in Nat
               /\ row[Job(w).ref].due \in BOOLEAN
    BY <1>5, <1>t, BusyRun
    DEF MarkBroadcast, Retry, MarkFailed, MarkConfirmed, VerifyConfirms, At, Rows
  <1>6. ASSUME NEW w \in Workers, MarkBroadcast(w)
        PROVE  Job(w).ref = r /\ row'[r].status = "BROADCAST"
    BY <1>5, <1>6, MarkRow, Names DEF MarkBroadcast
  <1>7. ASSUME NEW w \in Workers, Retry(w)
        PROVE  Job(w).ref = r /\ row'[r].status = "PENDING"
    <2>1. /\ Mark(Job(w).ref, "PENDING", 0, FALSE)
          /\ Job(w).ref \in Refs
          /\ "PENDING" \in Statuses /\ 0 \in Nat /\ FALSE \in BOOLEAN
      BY <1>5, <1>7, Names DEF Retry
    <2> QED
      BY <2>1, MarkRow
  <1>8. ASSUME NEW w \in Workers, MarkFailed(w)
        PROVE  Job(w).ref = r /\ row'[r].status = "FAILED"
    BY <1>5, <1>8, MarkRow, Names DEF MarkFailed
  <1>9. ASSUME NEW w \in Workers, MarkConfirmed(w) \/ VerifyConfirms(w)
        PROVE  /\ Job(w).ref = r
               /\ row'[r].status = "CONFIRMED"
               /\ worker[w].hash # 0 => row'[r].hash = worker[w].hash
    BY <1>5, <1>9, MarkRow, Names DEF MarkConfirmed, VerifyConfirms
  <1> QED
    BY <1>1, <1>2, <1>3, <1>4, <1>5, <1>6, <1>7, <1>8, <1>9

\* A withdrawal that is CONFIRMED has a transaction on the chain, whatever
\* fails, and however many runs hold the row: the status is only ever written
\* together with a hash the chain has confirmed.
THEOREM ConfirmedWithdrawalsArePaid == Spec => []ConfirmedWasPaid
<1>1. Init => ConfirmedWasPaid /\ \A w \in Workers : KnownHash(w)
  BY DEF Init, ConfirmedWasPaid, KnownHash, Busy, Idle
<1>2. PaidInv /\ TypeOK' /\ [Next]_vars => PaidInv'
  <2> SUFFICES ASSUME PaidInv, TypeOK', [Next]_vars
               PROVE  PaidInv'
    OBVIOUS
  <2>1. TypeOK /\ \A w \in Workers : KnownHash(w)
    BY DEF PaidInv
  <2>2. \A w \in Workers : KnownHash(w)'
    BY <2>1, KnownHashStep
  <2>3. ASSUME NEW r \in Refs, row'[r].status = "CONFIRMED"
        PROVE  /\ row'[r].hash \in DOMAIN sends'[r]
               /\ sends'[r][row'[r].hash].state = "landed"
    <3>1. /\ Len(sends[r]) \in Nat /\ Len(sends'[r]) \in Nat
          /\ Len(sends[r]) <= Len(sends'[r])
          /\ \A i \in 1..Len(sends[r]) :
               sends[r][i].state = "landed" => sends'[r][i].state = "landed"
          /\ DOMAIN sends[r] = 1..Len(sends[r])
          /\ DOMAIN sends'[r] = 1..Len(sends'[r])
      BY <2>1, <2>3, SendsGrow, LenProperties DEF TypeOK
    <3>2. /\ row'[r].hash \in 1..Len(sends[r])
          /\ sends[r][row'[r].hash].state = "landed"
      <4>1. CASE row'[r] = row[r]
        BY <2>3, <3>1, <4>1 DEF PaidInv, ConfirmedWasPaid
      <4>2. CASE row'[r] # row[r]
        <5>1. PICK w \in Workers :
                /\ Busy(w) /\ Job(w).ref = r
                /\ MarkConfirmed(w) \/ VerifyConfirms(w)
                /\ worker[w].hash # 0 => row'[r].hash = worker[w].hash
          BY <2>1, <2>3, <4>2, RowSteps
        <5>2. /\ worker[w].hash # 0
              /\ worker[w].hash \in 0..Len(sends[r])
              /\ Sent(w).state = "landed"
          BY <2>1, <5>1 DEF KnownHash, MarkConfirmed, VerifyConfirms, At
        <5> QED
          BY <3>1, <5>1, <5>2 DEF Sent
      <4> QED
        BY <4>1, <4>2
    <3> QED
      BY <3>1, <3>2
  <2> QED
    BY <2>2, <2>3 DEF PaidInv, ConfirmedWasPaid
<1>3. PaidInv => ConfirmedWasPaid
  BY DEF PaidInv
<1>4. Init /\ TypeOK => PaidInv
  BY <1>1 DEF PaidInv
<1> QED
  BY <1>2, <1>3, <1>4, TypeCorrect, PTL DEF Spec

-----------------------------------------------------------------------------
(* One run holds a row, as long as no run outlives the stale limit.        *)

\* The status the row of the job of a run has at a stage.
StatusFits(stage, status) ==
    /\ stage \in {"choose", "send", "direct", "cover", "broadcast"} => status = "PROCESSING"
    /\ stage \in {"wait", "confirm"} => status = "BROADCAST"
    /\ stage \in {"failed", "verify", "markFailed"} => status \in {"PROCESSING", "BROADCAST"}
    /\ stage \in {"reverse", "refund"} => status = "FAILED"

\* The rows a run holds are the ones of its jobs, one job per row, and their
\* status is the one the run left them with.
HeldRows(w) ==
    Busy(w) =>
        /\ \A j \in worker[w].todo : j.ref # Job(w).ref
        /\ \A i, j \in worker[w].todo : i.ref = j.ref => i = j
        /\ \A j \in worker[w].todo : row[j.ref].status = "PROCESSING"
        /\ StatusFits(worker[w].stage, row[Job(w).ref].status)

HolderInv ==
    /\ TypeOK
    /\ ExclusiveHolder
    /\ \A r \in Refs : request[r].persist # "done" => row[r].status = "NONE"
    /\ \A w \in Workers : HeldRows(w)

InTime == "slow" \notin Faults

\* What it means to hold a row.
LEMMA HoldsJob ==
    ASSUME NEW w \in Workers, NEW r
    PROVE  Holds(w, r) <=> /\ Busy(w)
                           /\ \/ Job(w).ref = r
                              \/ \E j \in worker[w].todo : j.ref = r
  BY DEF Holds, Job

\* A row that is held is neither waiting for a run nor decided by the chain.
LEMMA HeldStatus ==
    ASSUME TypeOK, NEW w \in Workers, HeldRows(w), NEW r \in Refs, Holds(w, r)
    PROVE  /\ row[r].status \in {"PROCESSING", "BROADCAST", "FAILED"}
           /\ row[r].status = "FAILED" =>
                Job(w).ref = r /\ worker[w].stage \in {"reverse", "refund"}
  <1>1. Busy(w) /\ (Job(w).ref = r \/ \E j \in worker[w].todo : j.ref = r)
    BY HoldsJob
  <1>2. CASE \E j \in worker[w].todo : j.ref = r
    BY <1>1, <1>2 DEF HeldRows
  <1>3. CASE Job(w).ref = r
    <2>1. worker[w].stage \in Stages /\ worker[w].stage # "idle"
      BY <1>1, BusyRun DEF Busy
    <2> QED
      BY <1>1, <1>3, <2>1 DEF HeldRows, StatusFits, Stages
  <1> QED
    BY <1>1, <1>2, <1>3

\* Only the run that holds a row writes it, at the end of a stage of the job.
LEMMA HeldRowWritten ==
    ASSUME InTime, HolderInv, [Next]_vars,
           NEW w \in Workers, NEW r \in Refs, Holds(w, r), row'[r] # row[r]
    PROVE  /\ Busy(w)
           /\ Job(w).ref = r
           /\ \/ MarkBroadcast(w) /\ row'[r].status = "BROADCAST"
              \/ Retry(w) /\ row'[r].status = "PENDING"
              \/ MarkFailed(w) /\ row'[r].status = "FAILED"
              \/ MarkConfirmed(w) \/ VerifyConfirms(w)
  <1>1. TypeOK /\ HeldRows(w)
    BY DEF HolderInv
  <1>2. row[r].status \in {"PROCESSING", "BROADCAST", "FAILED"}
    BY <1>1, HeldStatus
  <1>3. ~PersistRow(r) /\ ~BackoffElapses(r) /\ ~RecoverStale(r)
    BY <1>2 DEF HolderInv, PersistRow, BackoffElapses, RecoverStale, InTime
  <1>4. PICK v \in Workers :
          /\ Busy(v)
          /\ Job(v).ref = r
          /\ \/ MarkBroadcast(v) /\ row'[r].status = "BROADCAST"
             \/ Retry(v) /\ row'[r].status = "PENDING"
             \/ MarkFailed(v) /\ row'[r].status = "FAILED"
             \/ MarkConfirmed(v) \/ VerifyConfirms(v)
    BY <1>1, <1>2, <1>3, RowSteps
  <1>5. Holds(v, r)
    BY <1>4, HoldsJob
  <1> QED
    BY <1>4, <1>5 DEF HolderInv, ExclusiveHolder

\* The rows behind a run that keeps its jobs are still as it left them.
LEMMA HeldRowsKept ==
    ASSUME InTime, HolderInv, [Next]_vars, NEW w \in Workers, worker'[w] = worker[w]
    PROVE  HeldRows(w)'
  <1> SUFFICES ASSUME Busy(w) PROVE HeldRows(w)'
    BY DEF HeldRows, Busy
  <1>1. TypeOK /\ HeldRows(w)
    BY DEF HolderInv
  <1>2. /\ Job(w).ref \in Refs
        /\ \A j \in worker[w].todo : j.ref \in Refs
    BY <1>1, BusyRun DEF Jobs
  <1>3. \A r \in Refs : Holds(w, r) => row'[r] = row[r]
    <2> SUFFICES ASSUME NEW r \in Refs, Holds(w, r), row'[r] # row[r] PROVE FALSE
      OBVIOUS
    <2>1. CASE MarkBroadcast(w)
      BY <1>1, <2>1, GoToRun, Names DEF MarkBroadcast, At
    <2>2. CASE MarkFailed(w)
      BY <1>1, <2>2, GoToRun, Names DEF MarkFailed, At
    <2>3. CASE Retry(w) \/ MarkConfirmed(w) \/ VerifyConfirms(w)
      <3>1. NextJob(w) /\ worker[w].stage \in {"failed", "confirm", "verify"}
        BY <2>3 DEF Retry, MarkConfirmed, VerifyConfirms, At
      <3>2. worker'[w] = Idle \/ \E job \in worker[w].todo :
                                 worker'[w] = Start(job, worker[w].todo \ {job})
        BY <1>1, <3>1, NextJobRun
      <3>3. Idle.stage = "idle" /\ \A job, todo : Start(job, todo).stage = "choose"
        BY DEF Idle, Start
      <3>4. worker'[w].stage \in {"idle", "choose"}
        BY <3>2, <3>3
      <3> QED
        BY <3>1, <3>4
    <2> QED
      BY <2>1, <2>2, <2>3, HeldRowWritten
  <1>4. /\ row'[Job(w).ref] = row[Job(w).ref]
        /\ \A j \in worker[w].todo : row'[j.ref] = row[j.ref]
    BY <1>2, <1>3, HoldsJob
  <1> QED
    BY <1>1, <1>4 DEF HeldRows, Job, Busy

\* A run that goes to another stage without writing a row leaves the rows of
\* its jobs as they were.
LEMMA HeldRowsGoTo ==
    ASSUME TypeOK, NEW w \in Workers, HeldRows(w), Busy(w), UNCHANGED row,
           worker'[w].job = worker[w].job, worker'[w].todo = worker[w].todo,
           StatusFits(worker'[w].stage, row[Job(w).ref].status)
    PROVE  HeldRows(w)'
  BY DEF HeldRows, Job

\* A run that goes on to the next job of its batch finds its row PROCESSING.
LEMMA HeldRowsNext ==
    ASSUME TypeOK, NEW w \in Workers, HeldRows(w), Busy(w), NextJob(w),
           \A r \in Refs : r # Job(w).ref => row'[r] = row[r]
    PROVE  HeldRows(w)'
  <1>1. CASE worker'[w] = Idle
    BY <1>1 DEF HeldRows, Busy, Idle
  <1>2. ASSUME NEW job \in worker[w].todo,
               worker'[w] = Start(job, worker[w].todo \ {job})
        PROVE  HeldRows(w)'
    <2>1. /\ worker'[w].stage = "choose"
          /\ worker'[w].job = job
          /\ worker'[w].todo = worker[w].todo \ {job}
      BY <1>2 DEF Start
    <2>2. /\ \A j \in worker[w].todo : j.ref # Job(w).ref /\ j.ref \in Refs
          /\ \A i, j \in worker[w].todo : i.ref = j.ref => i = j
          /\ \A j \in worker[w].todo : row[j.ref].status = "PROCESSING"
      BY BusyRun DEF HeldRows, Jobs
    <2>3. \A j \in worker[w].todo : row'[j.ref].status = "PROCESSING"
      BY <2>2
    <2>4. /\ \A j \in worker'[w].todo : j.ref # job.ref
          /\ \A i, j \in worker'[w].todo : i.ref = j.ref => i = j
          /\ \A j \in worker'[w].todo : row'[j.ref].status = "PROCESSING"
          /\ row'[job.ref].status = "PROCESSING"
      BY <2>1, <2>2, <2>3
    <2> QED
      BY <2>1, <2>4 DEF HeldRows, StatusFits, Job
  <1> QED
    BY <1>1, <1>2, NextJobRun

\* A run that writes its row and keeps the job leaves the status of its stage.
LEMMA HeldRowsMarked ==
    ASSUME TypeOK, NEW w \in Workers, HeldRows(w), Busy(w),
           \A r \in Refs : r # Job(w).ref => row'[r] = row[r],
           worker'[w].job = worker[w].job, worker'[w].todo = worker[w].todo,
           StatusFits(worker'[w].stage, row'[Job(w).ref].status)
    PROVE  HeldRows(w)'
  <1>1. /\ \A j \in worker[w].todo : j.ref # Job(w).ref /\ j.ref \in Refs
        /\ \A j \in worker[w].todo : row[j.ref].status = "PROCESSING"
    BY BusyRun DEF HeldRows, Jobs
  <1> QED
    BY <1>1 DEF HeldRows, Job

\* A batch that was just claimed holds rows that are PROCESSING.
LEMMA HeldRowsClaimed ==
    ASSUME TypeOK, NEW w \in Workers, Claim(w)
    PROVE  HeldRows(w)'
  <1>1. PICK batch \in SUBSET Due, job \in Jobs :
          LET jobs == {[ref |-> r, attempts |-> row[r].attempts] : r \in batch} IN
          /\ \A r \in batch : row'[r].status = "PROCESSING"
          /\ job \in jobs
          /\ worker'[w] = Start(job, jobs \ {job})
    BY ClaimStep
  <1> DEFINE jobs == {[ref |-> r, attempts |-> row[r].attempts] : r \in batch}
  <1>2. /\ worker'[w].stage = "choose"
        /\ worker'[w].job = job
        /\ worker'[w].todo = jobs \ {job}
    BY <1>1 DEF Start
  <1>3. /\ \A j \in jobs : j.ref \in batch
        /\ \A i, j \in jobs : i.ref = j.ref => i = j
    OBVIOUS
  <1>4. job \in jobs
    BY <1>1
  <1> HIDE DEF jobs
  <1>5. /\ \A j \in worker'[w].todo : j.ref # job.ref
        /\ \A i, j \in worker'[w].todo : i.ref = j.ref => i = j
        /\ \A j \in worker'[w].todo : row'[j.ref].status = "PROCESSING"
        /\ row'[job.ref].status = "PROCESSING"
    BY <1>1, <1>2, <1>3, <1>4
  <1> QED
    BY <1>2, <1>5 DEF HeldRows, StatusFits, Job

\* Every step leaves the rows of a run as the run left them.
LEMMA HeldRowsStep ==
    ASSUME InTime, HolderInv, [Next]_vars, NEW w \in Workers
    PROVE  HeldRows(w)'
  <1>1. TypeOK /\ HeldRows(w)
    BY DEF HolderInv
  <1>2. CASE worker'[w] = worker[w]
    BY <1>2, HeldRowsKept
  <1>3. ASSUME worker'[w] # worker[w]
        PROVE  HeldRows(w)'
    <2>1. CASE Claim(w)
      BY <1>1, <2>1, HeldRowsClaimed
    <2>2. CASE RunEnds(w)
      BY <1>1, <2>2 DEF RunEnds, TypeOK, HeldRows, Busy, Idle
    <2>3. CASE MarkConfirmed(w) \/ VerifyConfirms(w) \/ Retry(w)
               \/ ReversalSkipped(w) \/ ReversalApply(w)
      <3>1. Busy(w) /\ NextJob(w)
        BY <2>3 DEF MarkConfirmed, VerifyConfirms, Retry, ReversalSkipped, ReversalApply, At
      <3>2. \A r \in Refs : r # Job(w).ref => row'[r] = row[r]
        BY <1>1, <2>3
        DEF MarkConfirmed, VerifyConfirms, Retry, ReversalSkipped, ReversalApply, Mark, TypeOK
      <3> QED
        BY <1>1, <3>1, <3>2, HeldRowsNext
    <2>4. CASE MarkBroadcast(w) \/ MarkFailed(w)
      <3>1. /\ Busy(w)
            /\ Job(w).ref \in Refs
            /\ row[Job(w).ref].due \in BOOLEAN
            /\ worker[w].hash \in Nat
        BY <1>1, <2>4, BusyRun DEF MarkBroadcast, MarkFailed, At, TypeOK, Rows
      <3>2. \A r \in Refs : r # Job(w).ref => row'[r] = row[r]
        BY <1>1, <2>4 DEF MarkBroadcast, MarkFailed, Mark, TypeOK
      <3>3. /\ worker'[w].job = worker[w].job
            /\ worker'[w].todo = worker[w].todo
        BY <1>1, <2>4, <3>1, GoToRun, Names DEF MarkBroadcast, MarkFailed
      <3>4. CASE MarkBroadcast(w)
        <4>1. worker'[w].stage = "wait" /\ row'[Job(w).ref].status = "BROADCAST"
          BY <1>1, <3>1, <3>4, GoToRun, MarkRow, Names DEF MarkBroadcast
        <4> QED
          BY <1>1, <3>1, <3>2, <3>3, <4>1, HeldRowsMarked DEF StatusFits
      <3>5. CASE MarkFailed(w)
        <4>1. worker'[w].stage = "reverse" /\ row'[Job(w).ref].status = "FAILED"
          BY <1>1, <3>1, <3>5, GoToRun, MarkRow, Names DEF MarkFailed
        <4> QED
          BY <1>1, <3>1, <3>2, <3>3, <4>1, HeldRowsMarked DEF StatusFits
      <3> QED
        BY <2>4, <3>4, <3>5
    <2>5. CASE \/ SendRefused(w) \/ SendAnswerLost(w) \/ WaitTimesOut(w) \/ MarkFails(w)
               \/ GiveUp(w) \/ VerifyDenies(w)
      <3>1. /\ Busy(w) /\ UNCHANGED row
            /\ \E stage \in {"failed", "verify", "markFailed"} : GoTo(w, stage)
            /\ worker[w].stage \in {"send", "cover", "broadcast", "wait", "confirm",
                                    "failed", "verify"}
        BY <1>3, <2>5 DEF SendRefused, SendAnswerLost, WaitTimesOut, MarkFails, GiveUp,
           VerifyDenies, At
      <3>2. /\ worker'[w].stage \in {"failed", "verify", "markFailed"}
            /\ worker'[w].job = worker[w].job
            /\ worker'[w].todo = worker[w].todo
        BY <1>1, <3>1, GoToRun, Names
      <3>3. row[Job(w).ref].status \in {"PROCESSING", "BROADCAST"}
        BY <1>1, <3>1 DEF HeldRows, StatusFits
      <3> QED
        BY <1>1, <3>1, <3>2, <3>3, HeldRowsGoTo DEF StatusFits
    <2>6. CASE ChooseWallets(w) \/ SendDirect(w) \/ WaitConfirmed(w) \/ ReversalNeeded(w)
      <3>1. /\ Busy(w) /\ UNCHANGED row
            /\ \/ worker[w].stage = "choose" /\ GoTo(w, "send")
               \/ worker[w].stage = "choose" /\ GoTo(w, "direct")
               \/ worker[w].stage = "direct" /\ GoTo(w, "cover")
               \/ worker[w].stage = "wait" /\ GoTo(w, "confirm")
               \/ worker[w].stage = "reverse" /\ GoTo(w, "refund")
        BY <2>6 DEF ChooseWallets, SendDirect, WaitConfirmed, ReversalNeeded, At
      <3>2. /\ \/ worker[w].stage = "choose" /\ worker'[w].stage = "send"
               \/ worker[w].stage = "choose" /\ worker'[w].stage = "direct"
               \/ worker[w].stage = "direct" /\ worker'[w].stage = "cover"
               \/ worker[w].stage = "wait" /\ worker'[w].stage = "confirm"
               \/ worker[w].stage = "reverse" /\ worker'[w].stage = "refund"
            /\ worker'[w].job = worker[w].job
            /\ worker'[w].todo = worker[w].todo
        BY <1>1, <3>1, GoToRun, Names
      <3>3. StatusFits(worker'[w].stage, row[Job(w).ref].status)
        BY <1>1, <3>1, <3>2 DEF HeldRows, StatusFits
      <3> QED
        BY <1>1, <3>1, <3>2, <3>3, HeldRowsGoTo
    <2>7. CASE Send(w)
      <3>1. /\ Busy(w) /\ UNCHANGED row
            /\ worker[w].stage \in {"send", "cover"}
        BY <2>7 DEF Send, At
      <3>2. /\ worker'[w].stage = "broadcast"
            /\ worker'[w].job = worker[w].job
            /\ worker'[w].todo = worker[w].todo
        BY <1>1, <2>7, <3>1, BroadcastRun DEF Send
      <3>3. row[Job(w).ref].status = "PROCESSING"
        BY <1>1, <3>1 DEF HeldRows, StatusFits
      <3> QED
        BY <1>1, <3>1, <3>2, <3>3, HeldRowsGoTo DEF StatusFits
    <2>8. CASE SendAgain(w)
      BY <1>3, <2>8 DEF SendAgain
    <2> QED
      BY <1>1, <1>3, <2>1, <2>2, <2>3, <2>4, <2>5, <2>6, <2>7, <2>8, RunSteps DEF RunNext
  <1> QED
    BY <1>2, <1>3

\* A run comes to hold a row only by claiming it.
LEMMA HoldsStep ==
    ASSUME TypeOK, [Next]_vars, NEW w \in Workers, NEW r \in Refs, Holds(w, r)'
    PROVE  Holds(w, r) \/ (Claim(w) /\ row[r].status = "PENDING")
  <1>1. CASE worker'[w] = worker[w]
    BY <1>1 DEF Holds, Busy
  <1>2. CASE Claim(w)
    <2>1. PICK batch \in SUBSET Due, job \in Jobs :
            LET jobs == {[ref |-> q, attempts |-> row[q].attempts] : q \in batch} IN
            job \in jobs /\ worker'[w] = Start(job, jobs \ {job})
      BY <1>2, ClaimStep
    <2>2. r \in batch
      BY <2>1 DEF Holds, Start
    <2> QED
      BY <1>2, <2>2 DEF Due
  <1>3. CASE RunEnds(w)
    BY <1>3 DEF RunEnds, TypeOK, Holds, Busy, Idle
  <1>4. CASE RunNext(w)
    <2>1. Busy(w)
      BY <1>4 DEF RunNext, ChooseWallets, Send, SendDirect, SendRefused, SendAnswerLost, SendAgain,
         MarkBroadcast, WaitConfirmed, WaitTimesOut, MarkConfirmed, MarkFails, Retry, GiveUp,
         VerifyConfirms, VerifyDenies, MarkFailed, ReversalNeeded, ReversalSkipped,
         ReversalApply, At
    <2>2. \/ NextJob(w)
          \/ \E stage \in Stages : GoTo(w, stage)
          \/ UNCHANGED worker
          \/ worker' = [worker EXCEPT ![w].stage = "broadcast",
                                      ![w].hash = Len(sends[Job(w).ref]) + 1]
      BY <1>4, Names DEF RunNext, ChooseWallets, Send, SendDirect, SendRefused, SendAnswerLost, SendAgain,
         MarkBroadcast, WaitConfirmed, WaitTimesOut, MarkConfirmed, MarkFails, Retry, GiveUp,
         VerifyConfirms, VerifyDenies, MarkFailed, ReversalNeeded, ReversalSkipped,
         ReversalApply
    <2>3. CASE NextJob(w)
      <3>1. \/ worker'[w] = Idle
            \/ \E job \in worker[w].todo :
                 worker'[w] = Start(job, worker[w].todo \ {job})
        BY <2>1, <2>3, NextJobRun
      <3>2. ~(worker'[w] = Idle)
        BY DEF Holds, Busy, Idle
      <3>3. PICK job \in worker[w].todo : worker'[w] = Start(job, worker[w].todo \ {job})
        BY <3>1, <3>2
      <3>4. worker'[w].todo \cup {worker'[w].job} \subseteq worker[w].todo
        BY <3>3 DEF Start
      <3> QED
        BY <2>1, <3>4 DEF Holds
    <2>4. CASE ~NextJob(w)
      <3>1. worker'[w].job = worker[w].job /\ worker'[w].todo = worker[w].todo
        BY <2>1, <2>2, <2>4, GoToRun, BroadcastRun
      <3> QED
        BY <2>1, <3>1 DEF Holds
    <2> QED
      BY <2>3, <2>4
  <1> QED
    BY <1>1, <1>2, <1>3, <1>4, RunSteps

\* Only the API changes the state of its calls.
LEMMA RequestSteps ==
    ASSUME [Next]_vars
    PROVE  UNCHANGED request \/ \E r \in Refs : ApiNext(r)
  BY DEF Next, RunNext, ChainNext, vars, BackoffElapses, RecoverStale, Claim, RunEnds,
     ChooseWallets, Send, SendDirect, SendRefused, SendAnswerLost, SendAgain, MarkBroadcast,
     WaitConfirmed, WaitTimesOut, MarkConfirmed, MarkFails, Retry, GiveUp, VerifyConfirms,
     VerifyDenies, MarkFailed, ReversalNeeded, ReversalSkipped, ReversalApply, Land, Drop

\* Rows exist from persistWithdrawal on.
RowsPersisted == \A r \in Refs : request[r].persist # "done" => row[r].status = "NONE"

\* A step that writes a row finds it persisted or persists it.
LEMMA RowsPersistedStep ==
    ASSUME TypeOK, TypeOK', [Next]_vars, RowsPersisted, \A w \in Workers : HeldRows(w)
    PROVE  RowsPersisted'
  <1> SUFFICES ASSUME NEW r \in Refs, row'[r].status # "NONE"
               PROVE  request'[r].persist = "done"
    BY DEF RowsPersisted
  <1>1. request[r].persist = "done" => request'[r].persist = "done"
    <2>1. UNCHANGED request \/ \E q \in Refs : ApiNext(q)
      BY RequestSteps
    <2> QED
      BY <2>1, CallSteps
  <1>2. CASE row'[r] = row[r]
    BY <1>1, <1>2 DEF RowsPersisted
  <1>3. CASE PersistRow(r)
    <2>1. request[r] \in Calls
      BY DEF TypeOK
    <2> QED
      BY <1>3, <2>1 DEF PersistRow, TypeOK, Calls
  <1>4. CASE row'[r] # row[r] /\ ~PersistRow(r)
    <2>1. row[r].status # "NONE"
      <3>1. ASSUME NEW w \in Workers, Busy(w), Job(w).ref = r
            PROVE  row[r].status # "NONE"
        <4>1. Holds(w, r) /\ HeldRows(w)
          BY <3>1, HoldsJob
        <4> QED
          BY <4>1, HeldStatus
      <3> QED
        BY <1>4, <3>1, RowSteps DEF BackoffElapses, RecoverStale
    <2> QED
      BY <1>1, <2>1 DEF RowsPersisted
  <1> QED
    BY <1>2, <1>3, <1>4

\* While no run outlives the stale limit, the rows of the runs are as they
\* left them and no two runs share one.
THEOREM HolderInvariant == InTime => (Spec => []HolderInv)
<1> SUFFICES ASSUME InTime PROVE Spec => []HolderInv
  OBVIOUS
<1>1. Init => ExclusiveHolder /\ RowsPersisted /\ \A w \in Workers : HeldRows(w)
  BY DEF Init, ExclusiveHolder, RowsPersisted, HeldRows, Holds, Busy, Idle
<1>2. HolderInv /\ TypeOK' /\ [Next]_vars => HolderInv'
  <2> SUFFICES ASSUME HolderInv, TypeOK', [Next]_vars
               PROVE  HolderInv'
    OBVIOUS
  <2>1. TypeOK /\ RowsPersisted /\ \A w \in Workers : HeldRows(w)
    BY DEF HolderInv, RowsPersisted
  <2>2. \A w \in Workers : HeldRows(w)'
    BY HeldRowsStep
  <2>3. RowsPersisted'
    BY <2>1, RowsPersistedStep
  <2>4. ExclusiveHolder'
    <3> SUFFICES ASSUME NEW r \in Refs, NEW v \in Workers, NEW w \in Workers,
                        Holds(v, r)', Holds(w, r)', v # w
                 PROVE  FALSE
      BY DEF ExclusiveHolder
    <3>1. \A u \in Workers : Holds(u, r) => row[r].status # "PENDING"
      BY <2>1, HeldStatus
    <3>2. Holds(v, r) \/ (Claim(v) /\ row[r].status = "PENDING")
      BY <2>1, HoldsStep
    <3>3. Holds(w, r) \/ (Claim(w) /\ row[r].status = "PENDING")
      BY <2>1, HoldsStep
    <3>4. ~(Holds(v, r) /\ Holds(w, r))
      BY DEF HolderInv, ExclusiveHolder
    <3>5. Claim(v) /\ Claim(w)
      BY <3>1, <3>2, <3>3, <3>4
    <3>6. worker'[w] = worker[w] /\ ~Busy(w)
      BY <2>1, <3>5, ClaimStep DEF Claim
    <3> QED
      BY <3>6 DEF Holds, Busy
  <2> QED
    BY <2>2, <2>3, <2>4 DEF HolderInv, RowsPersisted
<1>3. Init /\ TypeOK => HolderInv
  BY <1>1 DEF HolderInv, RowsPersisted
<1> QED
  BY <1>2, <1>3, TypeCorrect, PTL DEF Spec

\* No two live runs of the job ever hold the same row: the claim takes only
\* PENDING rows, and none that a run still holds becomes PENDING again.
THEOREM OneRunHoldsARow == InTime => (Spec => []ExclusiveHolder)
<1>1. HolderInv => ExclusiveHolder
  BY DEF HolderInv
<1> QED
  BY <1>1, HolderInvariant, PTL

\* A row that is decided is not written again: no UPDATE of the worker asks for
\* the status it overwrites, but whoever could write one no longer holds the row.
LEMMA FinalRowsStay ==
    ASSUME InTime, HolderInv, [Next]_vars, NEW r \in Refs, row[r].status \in Final
    PROVE  row'[r] = row[r]
  <1> SUFFICES ASSUME row'[r] # row[r] PROVE FALSE
    OBVIOUS
  <1>1. TypeOK /\ \A w \in Workers : HeldRows(w)
    BY DEF HolderInv
  <1>2. ~PersistRow(r)
    BY DEF PersistRow, HolderInv, Final
  <1>3. PICK w \in Workers :
          /\ Busy(w) /\ Job(w).ref = r
          /\ \/ MarkBroadcast(w) \/ Retry(w) \/ MarkFailed(w)
             \/ MarkConfirmed(w) \/ VerifyConfirms(w)
    BY <1>1, <1>2, RowSteps DEF BackoffElapses, RecoverStale, Final
  <1>4. worker[w].stage \in {"broadcast", "failed", "markFailed", "confirm", "verify"}
    BY <1>3 DEF MarkBroadcast, Retry, MarkFailed, MarkConfirmed, VerifyConfirms, At
  <1> QED
    BY <1>1, <1>3, <1>4 DEF HeldRows, StatusFits, Final

\* A withdrawal that is CONFIRMED or FAILED stays so, whatever the faults, while
\* no run outlives the stale limit.
THEOREM DecidedRowsStay == InTime => (Spec => FinalStaysFinal)
<1> SUFFICES ASSUME InTime PROVE Spec => FinalStaysFinal
  OBVIOUS
<1>1. HolderInv /\ [Next]_vars =>
        [\A r \in Refs : row[r].status \in Final => row'[r].status = row[r].status]_vars
  BY FinalRowsStay
<1> QED
  BY <1>1, HolderInvariant, PTL DEF Spec, FinalStaysFinal

-----------------------------------------------------------------------------
(* The money.                                                              *)

\* What a step posts: the debit of a call in flight, or the refund of a run.
LEMMA JournalSteps ==
    ASSUME TypeOK, [Next]_vars
    PROVE  \/ UNCHANGED storeVars
           \/ \E r \in Refs : /\ DebitOk(r)
                              /\ journal' = journal \cup {<<"debit", r>>}
           \/ \E w \in Workers : /\ Busy(w)
                                 /\ Job(w).ref \in Refs
                                 /\ ReversalApply(w)
                                 /\ journal' = journal \cup {<<"reversal", Job(w).ref>>}
  <1>1. \/ UNCHANGED storeVars
        \/ \E r \in Refs : DebitOk(r)
        \/ \E w \in Workers : ReversalApply(w)
    <2>1. CASE UNCHANGED vars
      BY <2>1 DEF vars, storeVars
    <2>2. CASE Next
      BY <2>2 DEF Next, ApiNext, RunNext, ChainNext, Request, PersistRow, PersistFails,
         DebitRefused, ApiCrash, BackoffElapses, RecoverStale, Claim, RunEnds, ChooseWallets,
         Send, SendDirect, SendRefused, SendAnswerLost, SendAgain, MarkBroadcast, WaitConfirmed,
         WaitTimesOut, MarkConfirmed, MarkFails, Retry, GiveUp, VerifyConfirms,
         VerifyDenies, MarkFailed, ReversalNeeded, ReversalSkipped, Land, Drop
    <2> QED
      BY <2>1, <2>2
  <1>2. ASSUME NEW r \in Refs, DebitOk(r)
        PROVE  journal' = journal \cup {<<"debit", r>>}
    BY <1>2 DEF DebitOk, DebitTx, Book
  <1>3. ASSUME NEW w \in Workers, ReversalApply(w)
        PROVE  /\ Busy(w) /\ Job(w).ref \in Refs
               /\ journal' = journal \cup {<<"reversal", Job(w).ref>>}
    BY <1>3, BusyRun DEF ReversalApply, At, CreditTx, Book
  <1> QED
    BY <1>1, <1>2, <1>3

\* A run reaches its refund from the check before it.
LEMMA RefundStage ==
    ASSUME TypeOK, [Next]_vars, NEW w \in Workers, At(w, "refund")'
    PROVE  \/ worker'[w] = worker[w] /\ At(w, "refund")
           \/ ReversalNeeded(w) /\ Busy(w) /\ Job(w)' = Job(w)
  <1>1. CASE worker'[w] = worker[w]
    BY <1>1 DEF At, Busy
  <1>2. ASSUME worker'[w] # worker[w], ~ReversalNeeded(w)
        PROVE  FALSE
    <2>1. worker'[w].stage = "refund"
      BY DEF At
    <2>2. CASE Claim(w)
      <3>1. PICK batch \in SUBSET Due, job \in Jobs :
              LET jobs == {[ref |-> r, attempts |-> row[r].attempts] : r \in batch} IN
              job \in jobs /\ worker'[w] = Start(job, jobs \ {job})
        BY <2>2, ClaimStep
      <3> QED
        BY <2>1, <3>1 DEF Start
    <2>3. CASE RunEnds(w)
      BY <2>1, <2>3 DEF RunEnds, TypeOK, Idle
    <2>4. CASE RunNext(w)
      <3>1. Busy(w)
        BY <2>4 DEF RunNext, ChooseWallets, Send, SendDirect, SendRefused, SendAnswerLost, SendAgain,
           MarkBroadcast, WaitConfirmed, WaitTimesOut, MarkConfirmed, MarkFails, Retry, GiveUp,
           VerifyConfirms, VerifyDenies, MarkFailed, ReversalNeeded, ReversalSkipped,
           ReversalApply, At
      <3>2. \/ NextJob(w)
            \/ \E stage \in Stages \ {"refund"} : GoTo(w, stage)
            \/ worker' = [worker EXCEPT ![w].stage = "broadcast",
                                        ![w].hash = Len(sends[Job(w).ref]) + 1]
        BY <1>2, <2>4, Names
        DEF RunNext, ChooseWallets, Send, SendDirect, SendRefused, SendAgain,
           SendAnswerLost, MarkBroadcast, WaitConfirmed, WaitTimesOut, MarkConfirmed,
           MarkFails, Retry, GiveUp, VerifyConfirms, VerifyDenies, MarkFailed,
           ReversalSkipped, ReversalApply
      <3>3. CASE NextJob(w)
        <4>1. worker'[w] = Idle \/ \E job \in worker[w].todo :
                                     worker'[w] = Start(job, worker[w].todo \ {job})
          BY <3>1, <3>3, NextJobRun
        <4>2. Idle.stage = "idle" /\ \A job, todo : Start(job, todo).stage = "choose"
          BY DEF Idle, Start
        <4> QED
          BY <2>1, <4>1, <4>2
      <3>4. CASE ~NextJob(w)
        <4>1. worker'[w].stage \in Stages \ {"refund"}
          <5>1. ASSUME NEW stage \in Stages \ {"refund"}, GoTo(w, stage)
                PROVE  worker'[w].stage = stage
            BY <3>1, <5>1, Names, GoToRun
          <5> QED
            BY <3>1, <3>2, <3>4, <5>1, Names, BroadcastRun
        <4> QED
          BY <2>1, <4>1
      <3> QED
        BY <3>3, <3>4
    <2> QED
      BY <1>2, <2>2, <2>3, <2>4, RunSteps
  <1>3. CASE ReversalNeeded(w)
    <2>1. Busy(w) /\ GoTo(w, "refund")
      BY <1>3 DEF ReversalNeeded, At
    <2> QED
      BY <1>3, <2>1, GoToRun, Names DEF Job
  <1> QED
    BY <1>1, <1>2, <1>3

RefundsHaveDebits ==
    /\ RefundsWereDebited
    /\ \A w \in Workers : At(w, "refund") => Booked("debit", Job(w).ref)

\* Every refund gives back a debit, whatever fails and however many runs hold
\* the row: the check reads the journal before the refund is written, and the
\* journal never loses an entry.
THEOREM RefundsGiveBackDebits == Spec => []RefundsWereDebited
<1>1. Init => RefundsHaveDebits
  BY DEF Init, StoreInit, RefundsHaveDebits, RefundsWereDebited, Booked, At, Busy, Idle
<1>2. TypeOK /\ RefundsHaveDebits /\ [Next]_vars => RefundsHaveDebits'
  <2> SUFFICES ASSUME TypeOK, RefundsHaveDebits, [Next]_vars
               PROVE  RefundsHaveDebits'
    OBVIOUS
  <2>1. \A kind, r : Booked(kind, r) => Booked(kind, r)'
    BY JournalSteps DEF Booked, storeVars
  <2>2. ASSUME NEW w \in Workers, At(w, "refund")'
        PROVE  Booked("debit", Job(w).ref)'
    <3>1. CASE worker'[w] = worker[w] /\ At(w, "refund")
      BY <2>1, <3>1 DEF RefundsHaveDebits, Job
    <3>2. CASE ReversalNeeded(w) /\ Job(w)' = Job(w)
      <4>1. Booked("debit", Job(w).ref)
        BY <3>2 DEF ReversalNeeded, ReversalAllowed
      <4> QED
        BY <2>1, <3>2, <4>1
    <3> QED
      BY <2>2, <3>1, <3>2, RefundStage
  <2>3. ASSUME NEW r \in Refs, Booked("reversal", r)'
        PROVE  Booked("debit", r)'
    <3>1. CASE Booked("reversal", r)
      BY <2>1, <3>1 DEF RefundsHaveDebits, RefundsWereDebited
    <3>2. CASE ~Booked("reversal", r)
      <4>1. PICK w \in Workers : ReversalApply(w) /\ Job(w).ref = r
        BY <2>3, <3>2, JournalSteps DEF Booked, storeVars
      <4> QED
        BY <2>1, <4>1 DEF RefundsHaveDebits, ReversalApply
    <3> QED
      BY <3>1, <3>2
  <2> QED
    BY <2>2, <2>3 DEF RefundsHaveDebits, RefundsWereDebited
<1>3. RefundsHaveDebits => RefundsWereDebited
  BY DEF RefundsHaveDebits
<1> QED
  BY <1>1, <1>2, <1>3, TypeCorrect, PTL DEF Spec

\* A debit is booked once, and a refund about to be written is still due.
MoneyInv ==
    /\ HolderInv
    /\ \A r \in Refs : /\ request[r].persist = "idle" => request[r].debit = "idle"
                       /\ request[r].debit \in {"idle", "inflight"} => ~Booked("debit", r)
    /\ \A w \in Workers : At(w, "refund") =>
          Booked("debit", Job(w).ref) /\ ~Booked("reversal", Job(w).ref)

\* Every step keeps MoneyInv while no run outlives the stale limit.
LEMMA MoneyInvariant == InTime => (Spec => []MoneyInv)
<1> SUFFICES ASSUME InTime PROVE Spec => []MoneyInv
  OBVIOUS
<1>1. Init /\ HolderInv => MoneyInv
  BY DEF Init, StoreInit, MoneyInv, Booked, At, Busy, Idle
<1>2. MoneyInv /\ HolderInv' /\ [Next]_vars => MoneyInv'
  <2> SUFFICES ASSUME MoneyInv, HolderInv', [Next]_vars
               PROVE  MoneyInv'
    OBVIOUS
  <2>1. HolderInv /\ TypeOK
    BY DEF MoneyInv, HolderInv
  <2>2. ASSUME NEW r \in Refs
        PROVE  /\ request'[r].persist = "idle" => request'[r].debit = "idle"
               /\ request'[r].debit \in {"idle", "inflight"} => ~Booked("debit", r)'
    <3>1. CASE request'[r] = request[r]
      <4>1. ASSUME NEW q \in Refs, DebitOk(q)
            PROVE  q # r \/ request[r].debit \notin {"idle", "inflight"}
        <5>1. request[q] \in Calls /\ request[q].debit = "inflight"
          BY <2>1, <4>1 DEF DebitOk, TypeOK
        <5>2. request'[q].debit = "ok"
          BY <2>1, <4>1, <5>1 DEF DebitOk, TypeOK, Calls
        <5> QED
          BY <3>1, <5>2
      <4>2. request[r].debit \in {"idle", "inflight"} => ~Booked("debit", r)'
        BY <2>1, <4>1, JournalSteps DEF MoneyInv, Booked, storeVars
      <4> QED
        BY <3>1, <4>2 DEF MoneyInv
    <3>2. CASE request'[r] # request[r]
      <4>1. PICK q \in Refs : ApiNext(q)
        BY <3>2, RequestSteps
      <4>2. q = r
        BY <2>1, <3>2, <4>1, CallSteps
      <4>3. /\ request'[r].persist # "idle"
            /\ request'[r].debit \in {"idle", "inflight"} =>
                 /\ UNCHANGED storeVars
                 /\ request[r].debit \in {"idle", "inflight"}
        BY <2>1, <4>1, <4>2, CallSteps DEF MoneyInv
      <4> QED
        BY <4>3 DEF MoneyInv, Booked, storeVars
    <3> QED
      BY <3>1, <3>2
  <2>3. ASSUME NEW w \in Workers, At(w, "refund")'
        PROVE  Booked("debit", Job(w).ref)' /\ ~Booked("reversal", Job(w).ref)'
    <3>1. CASE worker'[w] = worker[w] /\ At(w, "refund")
      <4>1. /\ Booked("debit", Job(w).ref) /\ ~Booked("reversal", Job(w).ref)
            /\ Job(w)' = Job(w)
        BY <3>1 DEF MoneyInv, Job
      <4>2. ASSUME NEW v \in Workers, ReversalApply(v)
            PROVE  Job(v).ref # Job(w).ref
        <5>1. CASE v = w
          <6>1. Busy(w) /\ NextJob(w)
            BY <4>2, <5>1 DEF ReversalApply, At
          <6>2. worker'[w] = Idle \/ \E job \in worker[w].todo :
                                       worker'[w] = Start(job, worker[w].todo \ {job})
            BY <2>1, <6>1, NextJobRun
          <6>3. Idle.stage = "idle" /\ \A job, todo : Start(job, todo).stage = "choose"
            BY DEF Idle, Start
          <6> QED
            BY <2>3, <6>2, <6>3 DEF At
        <5>2. CASE v # w
          <6>1. Busy(v) /\ Busy(w)
            BY <4>2, <3>1 DEF ReversalApply, At
          <6>2. Job(w).ref \in Refs
            BY <2>1, <6>1, BusyRun
          <6>3. Holds(w, Job(w).ref) /\ (Job(v).ref = Job(w).ref => Holds(v, Job(w).ref))
            BY <6>1, HoldsJob
          <6> QED
            BY <2>1, <5>2, <6>2, <6>3 DEF HolderInv, ExclusiveHolder
        <5> QED
          BY <5>1, <5>2
      <4> QED
        BY <2>1, <4>1, <4>2, JournalSteps DEF Booked, storeVars
    <3>2. CASE ReversalNeeded(w) /\ Job(w)' = Job(w)
      BY <3>2 DEF ReversalNeeded, ReversalAllowed, Booked, storeVars
    <3> QED
      BY <2>1, <2>3, <3>1, <3>2, RefundStage
  <2> QED
    BY <2>2, <2>3 DEF MoneyInv
<1> QED
  BY <1>1, <1>2, HolderInvariant, PTL DEF Spec

\* Through every fault but a run that outlives the stale limit, the balances
\* move as AccountBook promises: one debit and one refund per reference, the
\* refund after the debit, and each with the entry that explains it.
THEOREM WithdrawalsImplementAccountBook == InTime => (Spec => ImplementsAccountBook)
<1> SUFFICES ASSUME InTime PROVE Spec => ImplementsAccountBook
  OBVIOUS
<1> DEFINE bal == [u \in Users |-> Available(u)]
<1>1. Init => Accounts!BookInit
  BY StoreAssumption DEF Init, StoreInit, Available, HasAccount, Accounts!BookInit
<1>2. MoneyInv /\ [Next]_vars => [Accounts!BookNext]_(Accounts!bookVars)
  <2> SUFFICES ASSUME MoneyInv, [Next]_vars
               PROVE  Accounts!BookNext \/ UNCHANGED <<bal, journal>>
    BY DEF Accounts!bookVars
  <2>1. TypeOK /\ StoreTypeOK
    BY DEF MoneyInv, HolderInv, TypeOK
  <2>2. CASE UNCHANGED storeVars
    BY <2>2 DEF storeVars, Available, HasAccount
  <2>3. ASSUME NEW r \in Refs, DebitOk(r)
        PROVE  Accounts!PostDebit(r)
    <3>1. /\ "debit" \in Kinds
          /\ Party("debit", r) = Payer[r]
          /\ Payer[r] \in Users
          /\ Available(Payer[r]) - Amount[r] \in Int
          /\ Available(Payer[r]) >= Amount[r]
          /\ Book("debit", r, Available(Payer[r]) - Amount[r])
      BY <2>1, <2>3, DebitBooks DEF DebitOk
    <3>2. bal' = [bal EXCEPT ![Payer[r]] = Available(Payer[r]) - Amount[r]]
      BY <2>1, <3>1, BookMovesBalance
    <3>3. bal[Payer[r]] = Available(Payer[r])
      BY <3>1
    <3>4. <<"debit", r>> \notin journal
      BY <2>3 DEF MoneyInv, DebitOk, Booked
    <3> QED
      BY <3>1, <3>2, <3>3, <3>4 DEF Book, Accounts!PostDebit
  <2>4. ASSUME NEW w \in Workers, Busy(w), Job(w).ref \in Refs, ReversalApply(w)
        PROVE  Accounts!PostReversal(Job(w).ref)
    <3> DEFINE r == Job(w).ref
    <3>1. /\ "reversal" \in Kinds
          /\ Party("reversal", r) = Payer[r]
          /\ CreditTx("reversal", r)
      BY <2>4 DEF ReversalApply, Party, Kinds
    <3>2. /\ Payer[r] \in Users
          /\ Available(Payer[r]) + Amount[r] \in Int
          /\ Book("reversal", r, Available(Payer[r]) + Amount[r])
      BY <2>1, <2>4, <3>1, CreditBooks
    <3>3. bal' = [bal EXCEPT ![Payer[r]] = Available(Payer[r]) + Amount[r]]
      BY <2>1, <2>4, <3>1, <3>2, BookMovesBalance
    <3>4. bal[Payer[r]] = Available(Payer[r])
      BY <3>2
    <3>5. <<"debit", r>> \in journal /\ <<"reversal", r>> \notin journal
      BY <2>4 DEF MoneyInv, ReversalApply, Booked
    <3> QED
      BY <3>2, <3>3, <3>4, <3>5 DEF Book, Accounts!PostReversal
  <2> QED
    BY <2>1, <2>2, <2>3, <2>4, JournalSteps DEF Accounts!BookNext
<1> QED
  BY <1>1, <1>2, MoneyInvariant, PTL
  DEF Spec, ImplementsAccountBook, Accounts!BookSpec

-----------------------------------------------------------------------------
(* The settlement.                                                         *)

\* The run w has broadcast transaction i of r and has yet to see it confirmed
\* and to say so.
Awaits(w, r, i) ==
    /\ Busy(w)
    /\ Job(w).ref = r
    /\ worker[w].hash = i
    /\ worker[w].stage \in {"broadcast", "wait", "confirm"}

\* The transactions that may have paid, or may yet pay.
Live(r) == {i \in DOMAIN sends[r] : sends[r][i].state # "dropped"}

\* A reference has one live transaction at most; a run awaits it, or its row is
\* CONFIRMED; and the row of what was refunded is FAILED.
SettleInv ==
    /\ \A r \in Refs : \A i, j \in Live(r) : i = j
    /\ \A r \in Refs : \A i \in Live(r) :
          row[r].status = "CONFIRMED" \/ \E w \in Workers : Awaits(w, r, i)
    /\ \A r \in Refs : Booked("reversal", r) => row[r].status = "FAILED"
    /\ \A w \in Workers : worker[w].stage \notin {"direct", "cover"}

\* What was refunded was not paid, and nothing of it is on its way.
LEMMA FailedIsDead ==
    ASSUME HolderInv, SettleInv, NEW r \in Refs, row[r].status = "FAILED"
    PROVE  Live(r) = {}
  <1> SUFFICES ASSUME NEW i \in Live(r) PROVE FALSE
    OBVIOUS
  <1>1. PICK w \in Workers : Awaits(w, r, i)
    BY DEF SettleInv
  <1> QED
    BY <1>1 DEF HolderInv, HeldRows, StatusFits, Awaits

\* Who gives the chain a transaction, and what the chain does with it.
LEMMA SendSteps ==
    ASSUME TypeOK, SettleInv, [Next]_vars, Faults = {}
    PROVE  \/ UNCHANGED sends
           \/ \E w \in Workers : /\ At(w, "send") /\ Send(w)
                                 /\ Job(w).ref \in Refs
                                 /\ UNCHANGED <<journal, row>>
           \/ \E r \in Refs : \E i \in DOMAIN sends[r] :
                (Land(r, i) \/ Drop(r, i)) /\ UNCHANGED <<journal, row>>
  <1>1. ASSUME NEW w \in Workers, Send(w)
        PROVE  At(w, "send") /\ Job(w).ref \in Refs /\ UNCHANGED <<journal, row>>
    BY <1>1, BusyRun DEF Send, At, SettleInv, storeVars
  <1>2. ASSUME NEW r \in Refs, ChainNext(r)
        PROVE  \E i \in DOMAIN sends[r] : /\ Land(r, i) \/ Drop(r, i)
                                          /\ UNCHANGED <<journal, row>>
    BY <1>2 DEF ChainNext, Land, Drop, storeVars
  <1>3. ASSUME NEW w \in Workers
        PROVE  ~SendDirect(w) /\ ~SendAnswerLost(w) /\ ~SendAgain(w)
    BY DEF SendDirect, SendAnswerLost, SendAgain, At, SettleInv
  <1>4. \/ UNCHANGED sends
        \/ \E w \in Workers : Send(w)
        \/ \E r \in Refs : ChainNext(r)
    BY <1>3 DEF Next, ApiNext, RunNext, vars, Request, PersistRow, PersistFails, DebitOk,
       DebitRefused, ApiCrash, BackoffElapses, RecoverStale, Claim, RunEnds,
       ChooseWallets, SendRefused, MarkBroadcast, WaitConfirmed, WaitTimesOut, MarkConfirmed,
       MarkFails, Retry, GiveUp, VerifyConfirms, VerifyDenies, MarkFailed, ReversalNeeded,
       ReversalSkipped, ReversalApply
  <1> QED
    BY <1>1, <1>2, <1>4

\* A transaction goes live when a run that has none broadcasts it.
LEMMA LiveSteps ==
    ASSUME TypeOK, SettleInv, [Next]_vars, Faults = {}, NEW r \in Refs
    PROVE  \/ Live(r)' \subseteq Live(r)
           \/ \E w \in Workers : \E n \in Nat :
                /\ At(w, "send") /\ Job(w).ref = r
                /\ Awaits(w, r, n)'
                /\ Live(r)' \subseteq Live(r) \cup {n}
  <1>t. \A q \in Refs : sends[q] \in Seq(Sends) /\ sends'[q] = sends[q] => Live(q)' = Live(q)
    BY DEF Live
  <1>1. ASSUME NEW w \in Workers, At(w, "send"), Send(w), Job(w).ref \in Refs
        PROVE  \/ Live(r)' \subseteq Live(r)
               \/ \E n \in Nat : /\ Job(w).ref = r
                                 /\ Awaits(w, r, n)'
                                 /\ Live(r)' \subseteq Live(r) \cup {n}
    <2>q. PICK q \in Refs : q = Job(w).ref
      BY <1>1
    <2>1. Busy(w) /\ sends[q] \in Seq(Sends) /\ Len(sends[q]) \in Nat
      BY <1>1, LenProperties DEF At, TypeOK
    <2>n. PICK n \in Nat : n = Len(sends[q]) + 1
      BY <2>1
    <2>2. /\ worker' = [worker EXCEPT ![w].stage = "broadcast", ![w].hash = n]
          /\ Give(q, Paying(w))
      BY <1>1, <2>q, <2>n DEF Send
    <2>3. Awaits(w, q, n)'
      BY <2>q, <2>n, <2>1, <2>2, BroadcastRun DEF Awaits, Busy, Job
    <2>4. /\ sends'[q] \in Seq(Sends)
          /\ Len(sends'[q]) = n
          /\ \A i \in 1..Len(sends[q]) : sends'[q][i] = sends[q][i]
          /\ \A p \in Refs : p # q => sends'[p] = sends[p]
      BY <1>1, <2>n, <2>2, GiveSends, PayingParts
    <2>5. DOMAIN sends[q] = 1..Len(sends[q]) /\ DOMAIN sends'[q] = 1..n
      BY <2>1, <2>4, LenProperties
    <2>6. Live(q)' \subseteq Live(q) \cup {n}
      BY <2>n, <2>1, <2>4, <2>5 DEF Live
    <2>7. r # q => Live(r)' = Live(r)
      BY <2>4 DEF Live
    <2> QED
      BY <2>q, <2>3, <2>6, <2>7
  <1>2. ASSUME NEW q \in Refs, NEW i \in DOMAIN sends[q], Land(q, i) \/ Drop(q, i)
        PROVE  Live(r)' \subseteq Live(r)
    <2>1. /\ sends[q] \in Seq(Sends) /\ sends'[q] \in Seq(Sends)
          /\ Len(sends'[q]) = Len(sends[q])
          /\ \A j \in 1..Len(sends[q]) : j # i => sends'[q][j] = sends[q][j]
          /\ \A p \in Refs : p # q => sends'[p] = sends[p]
      BY <1>2, ChainSends DEF TypeOK
    <2>2. sends[q][i].state = "pending"
      BY <1>2 DEF Land, Drop
    <2>3. DOMAIN sends[q] = 1..Len(sends[q]) /\ DOMAIN sends'[q] = 1..Len(sends[q])
      BY <2>1, LenProperties
    <2> QED
      BY <2>1, <2>2, <2>3 DEF Live
  <1>3. CASE UNCHANGED sends
    BY <1>3 DEF Live
  <1> QED
    BY <1>1, <1>2, <1>3, SendSteps

\* A run gives a live transaction up only to call it confirmed.
LEMMA AwaitStep ==
    ASSUME TypeOK, [Next]_vars, Faults = {}, NEW w \in Workers, NEW r \in Refs,
           NEW i \in Live(r), Awaits(w, r, i)
    PROVE  row'[r].status = "CONFIRMED" \/ Awaits(w, r, i)'
  <1>0. Busy(w) /\ Job(w).ref = r /\ Sent(w).state # "dropped"
    BY DEF Awaits, Live, Sent
  <1>1. CASE worker'[w] = worker[w]
    BY <1>1 DEF Awaits, Busy, Job
  <1>2. CASE MarkBroadcast(w) \/ WaitConfirmed(w)
    <2>1. GoTo(w, "wait") \/ GoTo(w, "confirm")
      BY <1>2 DEF MarkBroadcast, WaitConfirmed
    <2> QED
      BY <1>0, <2>1, GoToRun, Names DEF Awaits, Busy, Job
  <1>3. CASE MarkConfirmed(w)
    <2>1. /\ Mark(r, "CONFIRMED", worker[w].hash, row[r].due)
          /\ worker[w].hash \in Nat /\ row[r].due \in BOOLEAN
      BY <1>0, <1>3, BusyRun DEF MarkConfirmed, TypeOK, Rows
    <2> QED
      BY <2>1, MarkRow, Names
  <1>4. ~WaitTimesOut(w) /\ ~MarkFails(w) /\ ~RunEnds(w) /\ ~Claim(w) /\ ~SendAgain(w)
    BY <1>0 DEF WaitTimesOut, MarkFails, RunEnds, Claim, SendAgain
  <1>5. worker[w].stage \in {"broadcast", "wait", "confirm"}
    BY DEF Awaits
  <1>6. RunNext(w) => MarkBroadcast(w) \/ WaitConfirmed(w) \/ MarkConfirmed(w)
    BY <1>4, <1>5 DEF RunNext, ChooseWallets, Send, SendDirect, SendRefused, SendAnswerLost,
       Retry, GiveUp, VerifyConfirms, VerifyDenies, MarkFailed, ReversalNeeded,
       ReversalSkipped, ReversalApply, At
  <1> QED
    BY <1>1, <1>2, <1>3, <1>4, <1>6, RunSteps

\* No run covers a part of an amount unless wallets are netted.
LEMMA NotNettedStep ==
    ASSUME TypeOK, [Next]_vars, Faults = {}, NEW w \in Workers,
           worker[w].stage \notin {"direct", "cover"}
    PROVE  worker'[w].stage \notin {"direct", "cover"}
  <1>1. CASE worker'[w] = worker[w]
    BY <1>1
  <1>2. CASE Claim(w)
    <2>1. PICK batch \in SUBSET Due, job \in Jobs :
            LET jobs == {[ref |-> r, attempts |-> row[r].attempts] : r \in batch} IN
            worker'[w] = Start(job, jobs \ {job})
      BY <1>2, ClaimStep
    <2> QED
      BY <2>1 DEF Start
  <1>3. ~RunEnds(w)
    BY DEF RunEnds
  <1>4. CASE RunNext(w)
    <2>1. Busy(w)
      BY <1>4 DEF RunNext, ChooseWallets, Send, SendDirect, SendRefused, SendAnswerLost, SendAgain,
         MarkBroadcast, WaitConfirmed, WaitTimesOut, MarkConfirmed, MarkFails, Retry, GiveUp,
         VerifyConfirms, VerifyDenies, MarkFailed, ReversalNeeded, ReversalSkipped,
         ReversalApply, At
    <2>2. \/ NextJob(w)
          \/ UNCHANGED worker
          \/ \E stage \in Stages \ {"direct", "cover"} : GoTo(w, stage)
          \/ worker' = [worker EXCEPT ![w].stage = "broadcast",
                                      ![w].hash = Len(sends[Job(w).ref]) + 1]
      BY <1>4, Names
      DEF RunNext, ChooseWallets, Send, SendDirect, SendRefused, SendAgain,
         SendAnswerLost, MarkBroadcast, WaitConfirmed, WaitTimesOut, MarkConfirmed,
         MarkFails, Retry, GiveUp, VerifyConfirms, VerifyDenies, MarkFailed,
         ReversalNeeded, ReversalSkipped, ReversalApply, At
    <2>3. CASE NextJob(w)
      <3>1. worker'[w] = Idle \/ \E job \in worker[w].todo :
                                   worker'[w] = Start(job, worker[w].todo \ {job})
        BY <2>1, <2>3, NextJobRun
      <3>2. Idle.stage = "idle" /\ \A job, todo : Start(job, todo).stage = "choose"
        BY DEF Idle, Start
      <3> QED
        BY <3>1, <3>2
    <2>4. ASSUME NEW stage \in Stages \ {"direct", "cover"}, GoTo(w, stage)
          PROVE  worker'[w].stage = stage
      BY <2>1, <2>4, GoToRun
    <2> QED
      BY <2>1, <2>2, <2>3, <2>4, BroadcastRun
  <1> QED
    BY <1>1, <1>2, <1>3, <1>4, RunSteps

\* The inductive step of SettleInv.
LEMMA SettleStep ==
    ASSUME HolderInv, SettleInv, [Next]_vars, Faults = {}
    PROVE  SettleInv'
  <1>t. TypeOK /\ InTime /\ \A w \in Workers : HeldRows(w)
    BY DEF HolderInv, InTime
  <1>1. ASSUME NEW r \in Refs
        PROVE  /\ \A i, j \in Live(r)' : i = j
               /\ \A i \in Live(r)' :
                     row'[r].status = "CONFIRMED" \/ \E w \in Workers : Awaits(w, r, i)'
    <2>1. CASE Live(r)' \subseteq Live(r)
      <3>1. ASSUME NEW i \in Live(r)
            PROVE  row'[r].status = "CONFIRMED" \/ \E w \in Workers : Awaits(w, r, i)'
        <4>1. CASE row[r].status = "CONFIRMED"
          BY <1>t, <4>1, FinalRowsStay DEF Final
        <4>2. CASE \E w \in Workers : Awaits(w, r, i)
          BY <1>t, <4>2, AwaitStep
        <4> QED
          BY <4>1, <4>2 DEF SettleInv
      <3> QED
        BY <2>1, <3>1 DEF SettleInv
    <2>2. ASSUME NEW w \in Workers, NEW n \in Nat, At(w, "send"), Job(w).ref = r,
                 Awaits(w, r, n)', Live(r)' \subseteq Live(r) \cup {n}
          PROVE  /\ \A i, j \in Live(r)' : i = j
                 /\ \A i \in Live(r)' : \E v \in Workers : Awaits(v, r, i)'
      <3>1. ASSUME NEW i \in Live(r) PROVE FALSE
        <4>1. row[r].status = "PROCESSING" /\ Holds(w, r)
          BY <1>t, <2>2, HoldsJob DEF HeldRows, StatusFits, At
        <4>2. PICK v \in Workers : Awaits(v, r, i)
          BY <4>1 DEF SettleInv
        <4>3. Holds(v, r)
          BY <4>2, HoldsJob DEF Awaits
        <4>4. v = w
          BY <4>1, <4>3 DEF HolderInv, ExclusiveHolder
        <4> QED
          BY <2>2, <4>2, <4>4 DEF At, Awaits
      <3> QED
        BY <2>2, <3>1
    <2> QED
      BY <1>t, <2>1, <2>2, LiveSteps
  <1>2. ASSUME NEW r \in Refs, Booked("reversal", r)'
        PROVE  row'[r].status = "FAILED"
    <2>1. CASE Booked("reversal", r)
      BY <1>t, <2>1, FinalRowsStay DEF SettleInv, Final
    <2>2. CASE ~Booked("reversal", r)
      <3>1. PICK w \in Workers : Busy(w) /\ ReversalApply(w) /\ Job(w).ref = r
        BY <1>t, <1>2, <2>2, JournalSteps DEF Booked, storeVars
      <3> QED
        BY <1>t, <3>1 DEF ReversalApply, At, HeldRows, StatusFits
    <2> QED
      BY <2>1, <2>2
  <1>3. \A w \in Workers : worker'[w].stage \notin {"direct", "cover"}
    BY <1>t, NotNettedStep DEF SettleInv
  <1>4. /\ \A r \in Refs : \A i, j \in Live(r)' : i = j
        /\ \A r \in Refs : \A i \in Live(r)' :
              row'[r].status = "CONFIRMED" \/ \E w \in Workers : Awaits(w, r, i)'
    BY <1>1
  <1> QED
    BY <1>2, <1>3, <1>4 DEF SettleInv

LEMMA SettleInvariant == Faults = {} => (Spec => [](MoneyInv /\ SettleInv))
<1> SUFFICES ASSUME Faults = {} PROVE Spec => [](MoneyInv /\ SettleInv)
  OBVIOUS
<1>0. InTime
  BY DEF InTime
<1>1. Init => SettleInv
  BY EmptySeq DEF Init, StoreInit, SettleInv, Live, Booked, Idle
<1>2. MoneyInv /\ SettleInv /\ [Next]_vars => SettleInv'
  BY SettleStep DEF MoneyInv
<1> QED
  BY <1>0, <1>1, <1>2, MoneyInvariant, PTL DEF Spec

\* The transactions that paid the first part of the amount.
PaidBy(r) == {i \in Landed(r) : 1 \in sends[r][i].parts}

\* What a step does to what was paid: nothing, or the chain executes a
\* transaction of a reference that was not paid.
LEMMA PaidSteps ==
    ASSUME TypeOK, SettleInv, [Next]_vars, Faults = {}
    PROVE  \/ \A r \in Refs : PaidBy(r)' = PaidBy(r)
           \/ /\ UNCHANGED journal
              /\ \E r \in Refs : /\ PaidBy(r) = {} /\ Live(r) # {}
                                 /\ \A q \in Refs : q # r => PaidBy(q)' = PaidBy(q)
  <1>1. CASE UNCHANGED sends
    BY <1>1 DEF PaidBy, Landed
  <1>2. ASSUME NEW w \in Workers, At(w, "send"), Send(w), Job(w).ref \in Refs
        PROVE  \A r \in Refs : PaidBy(r)' = PaidBy(r)
    <2>q. PICK q \in Refs : q = Job(w).ref
      BY <1>2
    <2>1. /\ sends[q] \in Seq(Sends) /\ Len(sends[q]) \in Nat
          /\ Give(q, Paying(w))
      BY <1>2, <2>q, LenProperties DEF TypeOK, Send
    <2>n. PICK n \in Nat : n = Len(sends[q]) + 1
      BY <2>1
    <2>2. /\ sends'[q] \in Seq(Sends)
          /\ Len(sends'[q]) = n
          /\ sends'[q][n].state = "pending"
          /\ \A i \in 1..Len(sends[q]) : sends'[q][i] = sends[q][i]
          /\ \A p \in Refs : p # q => sends'[p] = sends[p]
      BY <1>2, <2>n, <2>1, GiveSends, PayingParts
    <2>3. DOMAIN sends[q] = 1..Len(sends[q]) /\ DOMAIN sends'[q] = 1..n
      BY <2>1, <2>2, LenProperties
    <2>4. PaidBy(q)' = PaidBy(q)
      BY <2>n, <2>1, <2>2, <2>3 DEF PaidBy, Landed
    <2>5. \A r \in Refs : r # q => PaidBy(r)' = PaidBy(r)
      BY <2>2 DEF PaidBy, Landed
    <2> QED
      BY <2>4, <2>5
  <1>3. ASSUME NEW r \in Refs, NEW i \in DOMAIN sends[r], Land(r, i) \/ Drop(r, i)
        PROVE  /\ PaidBy(r) = {} /\ Live(r) # {}
               /\ \A q \in Refs : q # r => PaidBy(q)' = PaidBy(q)
    <2>1. sends[r][i].state = "pending"
      BY <1>3 DEF Land, Drop
    <2>2. i \in Live(r)
      BY <2>1 DEF Live
    <2>3. \A j \in Landed(r) : j \in Live(r) /\ j # i
      BY <2>1 DEF Live, Landed
    <2>4. Landed(r) = {}
      BY <2>2, <2>3 DEF SettleInv
    <2>5. \A q \in Refs : q # r => sends'[q] = sends[q]
      BY <1>3, ChainSends
    <2> QED
      BY <2>2, <2>4, <2>5 DEF PaidBy, Landed
  <1> QED
    BY <1>1, <1>2, <1>3, SendSteps

\* Without faults, and for wallets that cover the amount, withdrawals keep
\* Settlement's promise: paid once or refunded once, and never both.
THEOREM WithdrawalsImplementSettlement == Faults = {} => (Spec => ImplementsSettlement)
<1> SUFFICES ASSUME Faults = {} PROVE Spec => ImplementsSettlement
  OBVIOUS
<1> DEFINE paid == [r \in Refs |-> TimesPaid(r, 1)]
           refunded == {r \in Refs : Booked("reversal", r)}
<1>1. Init => Outcome!SettlementInit
  <2> SUFFICES ASSUME Init PROVE Outcome!SettlementInit
    OBVIOUS
  <2>1. ASSUME NEW r \in Refs PROVE TimesPaid(r, 1) = 0
    <3>1. {i \in Landed(r) : 1 \in sends[r][i].parts} = {}
      BY EmptySeq DEF Init, Landed
    <3> QED
      BY <3>1, FS_EmptySet DEF TimesPaid
  <2>2. paid = [r \in Refs |-> 0] /\ refunded = {}
    BY <2>1 DEF Init, StoreInit, Booked
  <2> QED
    BY <2>2 DEF Outcome!SettlementInit
<1>2. MoneyInv /\ SettleInv /\ SettleInv' /\ [Next]_vars
        => [Outcome!SettlementNext]_(Outcome!settlementVars)
  <2> SUFFICES ASSUME MoneyInv, SettleInv, SettleInv', [Next]_vars
               PROVE  Outcome!SettlementNext \/ UNCHANGED <<paid, refunded>>
    BY DEF Outcome!settlementVars
  <2>t. TypeOK /\ HolderInv /\ \A w \in Workers : HeldRows(w)
    BY DEF MoneyInv, HolderInv
  <2>p. \A r \in Refs : /\ paid[r] = IF PaidBy(r) = {} THEN 0 ELSE 1
                        /\ paid'[r] = IF PaidBy(r)' = {} THEN 0 ELSE 1
    <3>1. ASSUME NEW r \in Refs
          PROVE  /\ \A i, j \in PaidBy(r) : i = j
                 /\ \A i, j \in PaidBy(r)' : i = j
      BY DEF SettleInv, PaidBy, Landed, Live
    <3>2. ASSUME NEW r \in Refs
          PROVE  /\ paid[r] = Cardinality(PaidBy(r))
                 /\ paid'[r] = Cardinality(PaidBy(r)')
      BY DEF TimesPaid, PaidBy
    <3> HIDE DEF paid
    <3> QED
      BY <3>1, <3>2, AtMostOne
  <2> HIDE DEF paid
  <2>d. paid = [r \in Refs |-> paid[r]] /\ paid' = [r \in Refs |-> paid'[r]]
    BY DEF paid
  <2>f. \A r \in Refs : r \in refunded => PaidBy(r) = {} /\ Live(r) = {}
    BY <2>t, FailedIsDead DEF SettleInv, PaidBy, Landed, Live
  <2>1. CASE \A r \in Refs : PaidBy(r)' = PaidBy(r)
    <3>1. paid' = paid
      BY <2>p, <2>d, <2>1
    <3>2. CASE \A r \in Refs : Booked("reversal", r)' <=> Booked("reversal", r)
      BY <3>1, <3>2
    <3>3. ASSUME NEW w \in Workers, Busy(w), Job(w).ref \in Refs, ReversalApply(w),
                 journal' = journal \cup {<<"reversal", Job(w).ref>>}
          PROVE  Outcome!SettlementNext
      <4> DEFINE r == Job(w).ref
      <4>1. row[r].status = "FAILED" /\ ~Booked("reversal", r)
        BY <2>t, <3>3 DEF ReversalApply, At, HeldRows, StatusFits, MoneyInv
      <4>2. PaidBy(r) = {}
        BY <2>t, <3>3, <4>1, FailedIsDead DEF PaidBy, Landed, Live
      <4>3. paid[r] = 0
        BY <2>p, <3>3, <4>2
      <4>4. refunded' = refunded \cup {r} /\ r \notin refunded
        BY <3>3, <4>1 DEF Booked
      <4>5. Outcome!Refund(r)
        BY <3>1, <4>3, <4>4 DEF Outcome!Refund, paid
      <4> QED
        BY <3>3, <4>5 DEF Outcome!SettlementNext
    <3>4. ASSUME NEW r \in Refs, journal' = journal \cup {<<"debit", r>>}
          PROVE  \A q \in Refs : Booked("reversal", q)' <=> Booked("reversal", q)
      BY <3>4 DEF Booked
    <3>5. UNCHANGED storeVars => \A q \in Refs : Booked("reversal", q)' <=> Booked("reversal", q)
      BY DEF storeVars, Booked
    <3> QED
      BY <2>t, <3>2, <3>3, <3>4, <3>5, JournalSteps
  <2>2. ASSUME UNCHANGED journal, NEW r \in Refs, PaidBy(r) = {}, Live(r) # {},
               \A q \in Refs : q # r => PaidBy(q)' = PaidBy(q)
        PROVE  Outcome!SettlementNext \/ UNCHANGED <<paid, refunded>>
    <3>1. refunded' = refunded /\ r \notin refunded
      BY <2>2, <2>f DEF Booked
    <3>2. \A q \in Refs : q # r => paid'[q] = paid[q]
      BY <2>2, <2>p
    <3>3. CASE PaidBy(r)' = {}
      <4>1. paid' = paid
        BY <2>2, <2>p, <2>d, <3>2, <3>3
      <4> QED
        BY <3>1, <4>1
    <3>4. CASE PaidBy(r)' # {}
      <4>1. paid[r] = 0 /\ paid' = [paid EXCEPT ![r] = 1]
        BY <2>2, <2>p, <2>d, <3>2, <3>4
      <4>2. Outcome!Pay(r)
        BY <3>1, <4>1 DEF Outcome!Pay, paid
      <4> QED
        BY <4>2 DEF Outcome!SettlementNext
    <3> QED
      BY <3>3, <3>4
  <2> QED
    BY <2>t, <2>1, <2>2, PaidSteps
<1> QED
  BY <1>1, <1>2, SettleInvariant, PTL DEF Spec, ImplementsSettlement, Outcome!SettlementSpec
=============================================================================
