------------------------------ MODULE Deposits -------------------------------
(***************************************************************************)
(* Token transfers to the users' EVM deposit addresses, and the worker's   *)
(* poller that looks for them and credits the ledger.                      *)
(*                                                                         *)
(* A poll reads the newest block number, asks for the transfer logs of a   *)
(* range of blocks in chunks, and then credits the confirmed ones one by   *)
(* one.  The range starts Overlap blocks before the end of the last one;   *)
(* the first range of a process starts Lookback blocks before the newest   *)
(* block.  The end of the last range is kept in memory only; what was      *)
(* credited is kept in the database ("ProcessedSignature").                *)
(*                                                                         *)
(* What the surroundings may do is the constant Faults (MaxFaults times    *)
(* altogether):                                                            *)
(*   "crash"     a worker process starts again                             *)
(*   "rpcError"  the RPC node refuses a chunk, or does not answer          *)
(*   "dbError"   the transaction of a credit fails                         *)
(*                                                                         *)
(* A reference is one transfer log.  Left out: addresses registered while  *)
(* the worker runs, chain reorganisations, and the API's manual rescan,    *)
(* whose INSERT lists 21 columns and 22 values and so never commits.       *)
(***************************************************************************)
EXTENDS LedgerStore

CONSTANTS
    Pollers,        \* the worker processes that poll this chain
    Hash,           \* Hash[r]: the transaction that made transfer r
    Faults,
    Overlap,        \* blocks scanned again by the next poll (10)
    Lookback,       \* blocks the first poll of a process looks back (500)
    Chunk,          \* blocks per request (100)
    Threshold,      \* confirmations before a transfer is credited (1)
    MaxBlock,       \* bound of the model: the chain stops here
    MaxFaults       \* bound of the model: faults of all kinds together

AllFaults == {"crash", "rpcError", "dbError"}

Hashes == {Hash[r] : r \in Refs}

ASSUME DepositsAssumption ==
    /\ DOMAIN Hash = Refs
    /\ Faults \subseteq AllFaults
    /\ Overlap \in Nat /\ Lookback \in Nat /\ Threshold \in Nat
    /\ Threshold <= Overlap
    /\ Chunk \in Nat \ {0}
    /\ MaxBlock \in Nat /\ MaxFaults \in Nat

VARIABLES
    head,           \* number of the newest block
    block,          \* block[r]: the block of transfer r, 0 before it is made
    processed,      \* the "ProcessedSignature" rows
    lastScanned,    \* lastScannedBlockMap of each worker, 0 when unset
    first,          \* (history) first block a worker looked at since it started
    poller,         \* the poll each worker is in
    dropped,        \* (history) confirmed transfers a failed step skipped
    faults          \* (bound) faults so far

chainVars == <<head, block>>
pollVars == <<lastScanned, first, poller>>
faultVars == <<dropped, faults>>
vars == <<account, journal, latest, limitRow, today,
          head, block, processed, lastScanned, first, poller, dropped, faults>>

Polls == [stage : {"idle", "scanning", "crediting"}, latest : Nat, next : Nat, found : SUBSET Refs]

Idle == [stage |-> "idle", latest |-> 0, next |-> 0, found |-> {}]

TypeOK ==
    /\ StoreTypeOK
    /\ head \in Nat
    /\ block \in [Refs -> Nat]
    /\ processed \subseteq Hashes
    /\ lastScanned \in [Pollers -> Nat]
    /\ first \in [Pollers -> Nat]
    /\ poller \in [Pollers -> Polls]
    /\ dropped \subseteq Refs
    /\ faults \in Nat

Init ==
    /\ StoreInit
    /\ head = 0
    /\ block = [r \in Refs |-> 0]
    /\ processed = {}
    /\ lastScanned = [p \in Pollers |-> 0]
    /\ first = [p \in Pollers |-> 0]
    /\ poller = [p \in Pollers |-> Idle]
    /\ dropped = {}
    /\ faults = 0

-----------------------------------------------------------------------------
(* The chain.                                                              *)

\* A block with some of the transactions not made yet.
NewBlock ==
    /\ head < MaxBlock
    /\ head' = head + 1
    /\ \E made \in SUBSET Hashes :
         block' = [r \in Refs |-> IF block[r] = 0 /\ Hash[r] \in made
                                 THEN head' ELSE block[r]]
    /\ UNCHANGED <<storeVars, processed, pollVars, faultVars>>

-----------------------------------------------------------------------------
(* A poll.                                                                 *)

In(p, stage) == poller[p].stage = stage
Fault(kind) == kind \in Faults /\ faults < MaxFaults /\ faults' = faults + 1
AtLeastZero(n) == IF n < 0 THEN 0 ELSE n

\* (mutant) a poll goes on where the last one ended
From_NoOverlap(p) ==
    IF lastScanned[p] # 0 THEN lastScanned[p] + 1 ELSE AtLeastZero(head - Lookback)

\* fromBlock of a poll that starts now.
From(p) == AtLeastZero(IF lastScanned[p] # 0 THEN lastScanned[p] - Overlap ELSE head - Lookback)

StartPoll(p) ==
    /\ In(p, "idle")
    /\ head > 0
    /\ poller' = [poller EXCEPT ![p] = [stage |-> "scanning", latest |-> head,
                                        next |-> From(p), found |-> {}]]
    /\ first' = IF lastScanned[p] = 0 THEN [first EXCEPT ![p] = From(p)] ELSE first
    /\ UNCHANGED <<storeVars, chainVars, processed, lastScanned, faultVars>>

\* (mutant) a log counts as soon as it is there
Confirmed_Seen(r, newest) == block[r] # 0 /\ block[r] <= newest

\* Confirmations are counted from the block number the poll started with.
Confirmed(r, newest) == block[r] # 0 /\ newest - block[r] >= Threshold

\* The confirmed transfers of the chunk that is next.
InChunk(p) ==
    {r \in Refs : /\ poller[p].next <= block[r] /\ block[r] < poller[p].next + Chunk
                  /\ block[r] <= poller[p].latest
                  /\ Confirmed(r, poller[p].latest)}

\* One eth_getLogs request.
ScanChunk(p) ==
    /\ In(p, "scanning")
    /\ poller[p].next <= poller[p].latest
    /\ poller' = [poller EXCEPT ![p].found = @ \cup InChunk(p), ![p].next = @ + Chunk]
    /\ UNCHANGED <<storeVars, chainVars, processed, lastScanned, first, faultVars>>

\* The node answers with an error: the chunk is left out of this poll.
ChunkFails(p) ==
    /\ Fault("rpcError")
    /\ In(p, "scanning")
    /\ poller[p].next <= poller[p].latest
    /\ poller' = [poller EXCEPT ![p].next = @ + Chunk]
    /\ dropped' = dropped \cup InChunk(p)
    /\ UNCHANGED <<storeVars, chainVars, processed, lastScanned, first>>

\* The node does not answer three times: what was found so far is returned and
\* the end of the range is not recorded.
ScanThrows(p) ==
    /\ Fault("rpcError")
    /\ In(p, "scanning")
    /\ poller[p].next <= poller[p].latest
    /\ poller' = [poller EXCEPT ![p].stage = "crediting"]
    /\ UNCHANGED <<storeVars, chainVars, processed, lastScanned, first, dropped>>

\* The end of the range is recorded before anything found is credited.
EndScan(p) ==
    /\ In(p, "scanning")
    /\ poller[p].next > poller[p].latest
    /\ poller' = [poller EXCEPT ![p].stage = "crediting"]
    /\ lastScanned' = [lastScanned EXCEPT ![p] = poller[p].latest]
    /\ UNCHANGED <<storeVars, chainVars, processed, first, faultVars>>

\* (mutant) the "ProcessedSignature" row is written but not looked at
Credit_Unchecked(p, r) ==
    /\ In(p, "crediting")
    /\ r \in poller[p].found
    /\ CreditTx("credit", r)
    /\ processed' = processed \cup {Hash[r]}
    /\ poller' = [poller EXCEPT ![p].found = @ \ {r}]
    /\ UNCHANGED <<chainVars, lastScanned, first, faultVars>>

\* processDepositEvent: one transaction, which does nothing when the row of the
\* transaction hash is there.
Credit(p, r) ==
    /\ In(p, "crediting")
    /\ r \in poller[p].found
    /\ IF Hash[r] \in processed THEN UNCHANGED storeVars ELSE CreditTx("credit", r)
    /\ processed' = processed \cup {Hash[r]}
    /\ poller' = [poller EXCEPT ![p].found = @ \ {r}]
    /\ UNCHANGED <<chainVars, lastScanned, first, faultVars>>

\* The error is logged, and the poll goes on with the next transfer.
CreditFails(p, r) ==
    /\ Fault("dbError")
    /\ In(p, "crediting")
    /\ r \in poller[p].found
    /\ poller' = [poller EXCEPT ![p].found = @ \ {r}]
    /\ dropped' = dropped \cup {r}
    /\ UNCHANGED <<storeVars, chainVars, processed, lastScanned, first>>

\* (mutant) the end of a poll does not make the worker free for the next one
EndPoll_StaysBusy(p) ==
    /\ In(p, "crediting")
    /\ poller[p].found = {}
    /\ UNCHANGED vars

EndPoll(p) ==
    /\ In(p, "crediting")
    /\ poller[p].found = {}
    /\ poller' = [poller EXCEPT ![p] = Idle]
    /\ UNCHANGED <<storeVars, chainVars, processed, lastScanned, first, faultVars>>

\* The map lastScannedBlockMap is gone with the process.
Crash(p) ==
    /\ Fault("crash")
    /\ poller' = [poller EXCEPT ![p] = Idle]
    /\ lastScanned' = [lastScanned EXCEPT ![p] = 0]
    /\ UNCHANGED <<storeVars, chainVars, processed, first, dropped>>

-----------------------------------------------------------------------------

PollNext(p) ==
    \/ StartPoll(p) \/ ScanChunk(p) \/ ChunkFails(p) \/ ScanThrows(p) \/ EndScan(p)
    \/ \E r \in Refs : Credit(p, r) \/ CreditFails(p, r)
    \/ EndPoll(p)

Next == NewBlock \/ \E p \in Pollers : PollNext(p) \/ Crash(p)

Spec == Init /\ [][Next]_vars

\* The job scheduler starts a poll every 15 seconds, and the chain goes on.
Fairness == WF_vars(NewBlock) /\ \A p \in Pollers : WF_vars(PollNext(p))

FairSpec == Spec /\ Fairness

-----------------------------------------------------------------------------
(* Properties.                                                             *)

\* What a worker has scanned is credited: after a poll, every transfer that was
\* confirmed then, from the first block the worker looked at on, is in the
\* ledger, whichever worker credited it and however often they restarted. Only
\* what a failed request or a failed credit skipped may be missing, as the end
\* of the range is recorded all the same.
ScannedIsCredited ==
    \A p \in Pollers, r \in Refs :
        /\ In(p, "idle")
        /\ lastScanned[p] # 0
        /\ first[p] <= block[r]
        /\ Confirmed(r, lastScanned[p])
        => Booked("credit", r) \/ r \in dropped

\* Nothing is credited that the chain has not made and confirmed.
CreditedIsConfirmed ==
    \A r \in Refs : Booked("credit", r) => block[r] # 0 /\ block[r] + Threshold <= head

\* Two workers, overlapping ranges and restarts move the balance once for a
\* transfer.
Accounts == INSTANCE AccountBook WITH
    balance <- [u \in Users |-> Available(u)],
    posted <- journal

ImplementsAccountBook == Accounts!BookSpec

\* A confirmed transfer that no failed step skipped is credited in the end, if
\* workers that start look back far enough.
EveryDepositIsCredited ==
    \A r \in Refs : Confirmed(r, head) ~> Booked("credit", r) \/ r \in dropped
=============================================================================
