--------------------------- MODULE DepositsProofs ----------------------------
(***************************************************************************)
(* What Deposits keeps for any number of workers and transfers, whatever   *)
(* faults happen.                                                          *)
(***************************************************************************)
EXTENDS Deposits, LedgerStoreProofs

\* No transaction makes two transfers.
OwnHash == \A r, q \in Refs : Hash[r] = Hash[q] => r = q

-----------------------------------------------------------------------------
(* Types.                                                                  *)

\* A poll starts at a block number.
LEMMA FromIsBlock ==
    ASSUME TypeOK, NEW p \in Pollers
    PROVE  From(p) \in Nat
  BY DepositsAssumption DEF TypeOK, From, AtLeastZero

\* The tables of the ledger keep their types.
LEMMA StoreStep ==
    ASSUME TypeOK, [Next]_vars
    PROVE  StoreTypeOK'
  <1>1. StoreTypeOK
    BY DEF TypeOK
  <1>2. CASE UNCHANGED storeVars
    BY <1>1, <1>2 DEF storeVars, StoreTypeOK
  <1>3. ASSUME NEW r \in Refs, CreditTx("credit", r)
        PROVE  StoreTypeOK'
    BY <1>1, <1>3, CreditTypes DEF Kinds
  <1> QED
    BY <1>2, <1>3 DEF Next, PollNext, NewBlock, StartPoll, ScanChunk, ChunkFails,
       ScanThrows, EndScan, Credit, CreditFails, EndPoll, Crash, vars, storeVars

\* The state of the poll of a worker keeps its type.
LEMMA PollStep ==
    ASSUME TypeOK, NEW p \in Pollers, PollNext(p) \/ Crash(p)
    PROVE  /\ processed' \subseteq Hashes
           /\ lastScanned' \in [Pollers -> Nat]
           /\ first' \in [Pollers -> Nat]
           /\ poller' \in [Pollers -> Polls]
           /\ dropped' \subseteq Refs
           /\ faults' \in Nat
  <1> USE DEF TypeOK
  <1>0. /\ poller[p].next + Chunk \in Nat
        /\ poller[p].latest \in Nat
        /\ poller[p].found \subseteq Refs
        /\ InChunk(p) \subseteq Refs
        /\ Idle \in Polls
    BY DepositsAssumption DEF Polls, InChunk, Idle
  <1>f. \A f \in SUBSET Refs : [poller EXCEPT ![p].found = f] \in [Pollers -> Polls]
    BY DEF Polls
  <1>n. \A n \in Nat : [poller EXCEPT ![p].next = n] \in [Pollers -> Polls]
    BY DEF Polls
  <1>b. \A f \in SUBSET Refs, n \in Nat :
          [poller EXCEPT ![p].found = f, ![p].next = n] \in [Pollers -> Polls]
    BY DEF Polls
  <1>s. [poller EXCEPT ![p].stage = "crediting"] \in [Pollers -> Polls]
    BY DEF Polls
  <1>1. CASE StartPoll(p)
    <2>1. From(p) \in Nat
      BY FromIsBlock
    <2>2. [stage |-> "scanning", latest |-> head, next |-> From(p), found |-> {}] \in Polls
      BY <2>1 DEF Polls
    <2> QED
      BY <1>1, <2>1, <2>2 DEF StartPoll, faultVars, StoreTypeOK
  <1>2. CASE ScanChunk(p)
    <2>1. /\ poller[p].found \cup InChunk(p) \in SUBSET Refs
          /\ poller' = [poller EXCEPT ![p].found = poller[p].found \cup InChunk(p),
                                      ![p].next = poller[p].next + Chunk]
      BY <1>0, <1>2 DEF ScanChunk
    <2>2. poller' \in [Pollers -> Polls]
      <3> HIDE DEF TypeOK
      <3> QED
        BY <1>0, <1>b, <2>1
    <2> QED
      BY <1>2, <2>2 DEF ScanChunk, faultVars
  <1>3. CASE ChunkFails(p)
    BY <1>0, <1>3, <1>n DEF ChunkFails, Fault
  <1>4. CASE ScanThrows(p)
    BY <1>0, <1>4, <1>s DEF ScanThrows, Fault
  <1>5. CASE EndScan(p)
    BY <1>0, <1>5, <1>s DEF EndScan, faultVars
  <1>6. ASSUME NEW r \in Refs, Credit(p, r)
        PROVE  /\ processed' \subseteq Hashes
               /\ UNCHANGED <<lastScanned, first, dropped, faults>>
               /\ poller' \in [Pollers -> Polls]
    <2>1. /\ poller[p].found \ {r} \in SUBSET Refs
          /\ poller' = [poller EXCEPT ![p].found = poller[p].found \ {r}]
      BY <1>0, <1>6 DEF Credit
    <2>2. processed' \subseteq Hashes
      BY <1>6 DEF Credit, Hashes
    <2>3. UNCHANGED <<lastScanned, first, dropped, faults>>
      BY <1>6 DEF Credit, faultVars
    <2> QED
      BY <1>f, <2>1, <2>2, <2>3
  <1>7. ASSUME NEW r \in Refs, CreditFails(p, r)
        PROVE  /\ UNCHANGED <<processed, lastScanned, first>>
               /\ poller' \in [Pollers -> Polls]
               /\ dropped' \subseteq Refs
               /\ faults' \in Nat
    <2>1. /\ poller[p].found \ {r} \in SUBSET Refs
          /\ poller' = [poller EXCEPT ![p].found = poller[p].found \ {r}]
      BY <1>0, <1>7 DEF CreditFails
    <2>2. /\ UNCHANGED <<processed, lastScanned, first>>
          /\ dropped' = dropped \cup {r}
          /\ faults' = faults + 1
      BY <1>7 DEF CreditFails, Fault
    <2> QED
      BY <1>f, <2>1, <2>2
  <1>8. CASE EndPoll(p)
    BY <1>0, <1>8 DEF EndPoll, faultVars
  <1>9. CASE Crash(p)
    BY <1>0, <1>9 DEF Crash, Fault
  <1> QED
    BY <1>1, <1>2, <1>3, <1>4, <1>5, <1>6, <1>7, <1>8, <1>9 DEF PollNext

\* Every variable has its type.
THEOREM TypeCorrect == Spec => []TypeOK
<1>1. Init => TypeOK
  BY StoreAssumption, DepositsAssumption
  DEF Init, StoreInit, TypeOK, StoreTypeOK, Polls, Idle
<1>2. TypeOK /\ [Next]_vars => TypeOK'
  <2> SUFFICES ASSUME TypeOK, [Next]_vars PROVE TypeOK'
    OBVIOUS
  <2>1. StoreTypeOK'
    BY StoreStep
  <2>2. CASE NewBlock
    BY <2>1, <2>2 DEF NewBlock, TypeOK, pollVars, faultVars
  <2>3. ASSUME NEW p \in Pollers, PollNext(p) \/ Crash(p)
        PROVE  TypeOK'
    <3>1. UNCHANGED chainVars
      BY <2>3 DEF PollNext, StartPoll, ScanChunk, ChunkFails, ScanThrows, EndScan,
         Credit, CreditFails, EndPoll, Crash
    <3> QED
      BY <2>1, <2>3, <3>1, PollStep DEF TypeOK, chainVars
  <2>4. CASE UNCHANGED vars
    BY <2>1, <2>4 DEF vars, TypeOK
  <2> QED
    BY <2>2, <2>3, <2>4 DEF Next
<1> QED
  BY <1>1, <1>2, PTL DEF Spec

-----------------------------------------------------------------------------
(* What is credited is on the chain, and marked.                           *)

\* What a poll found is confirmed at the block it started with, which is not
\* beyond the newest; what is credited is confirmed, and its hash is marked.
FoundInv ==
    /\ TypeOK
    /\ \A r \in Refs : block[r] <= head
    /\ \A p \in Pollers :
         /\ poller[p].latest <= head
         /\ \A r \in poller[p].found : Confirmed(r, poller[p].latest)
    /\ \A r \in Refs : Booked("credit", r) => Confirmed(r, head) /\ Hash[r] \in processed

\* What is confirmed at a block is confirmed at every later one.
LEMMA ConfirmedLater ==
    ASSUME TypeOK, NEW r \in Refs, NEW n \in Nat, NEW m \in Nat,
           n <= m, Confirmed(r, n)
    PROVE  Confirmed(r, m)
  BY DepositsAssumption DEF TypeOK, Confirmed

LEMMA FoundInvariant == Spec => []FoundInv
<1>1. Init => FoundInv
  <2> SUFFICES ASSUME Init PROVE FoundInv
    OBVIOUS
  <2>1. TypeOK
    BY StoreAssumption, DepositsAssumption
    DEF Init, StoreInit, TypeOK, StoreTypeOK, Polls, Idle
  <2>2. /\ \A r \in Refs : block[r] = 0
        /\ head = 0
        /\ \A p \in Pollers : poller[p].latest = 0 /\ poller[p].found = {}
        /\ journal = {}
    BY DEF Init, StoreInit, Idle
  <2>3. \A r \in Refs : ~Booked("credit", r)
    BY <2>2 DEF Booked
  <2>4. \A r \in Refs : block[r] <= head
    BY <2>2
  <2> QED
    BY <2>1, <2>2, <2>3, <2>4 DEF FoundInv
<1>2. TypeOK' /\ FoundInv /\ [Next]_vars => FoundInv'
  <2> SUFFICES ASSUME TypeOK', FoundInv, [Next]_vars PROVE FoundInv'
    OBVIOUS
  <2> USE DEF FoundInv
  <2>1. CASE NewBlock
    <3>1. /\ head' = head + 1 /\ head \in Nat
          /\ \A r \in Refs : block'[r] = block[r] \/ (block[r] = 0 /\ block'[r] = head')
          /\ UNCHANGED <<journal, poller, processed>>
      BY <2>1 DEF NewBlock, TypeOK, storeVars, pollVars
    <3>2. \A r \in Refs : block'[r] <= head'
      BY <3>1 DEF TypeOK
    <3>3. \A r \in Refs, n \in Nat, m \in Nat :
            n <= m /\ Confirmed(r, n) => block[r] # 0 /\ m - block[r] >= Threshold
      BY ConfirmedLater DEF Confirmed
    <3>4. \A p \in Pollers : poller[p].latest \in Nat /\ poller[p].found \subseteq Refs
      BY DEF TypeOK, Polls
    <3>5. \A p \in Pollers : \A r \in poller[p].found : Confirmed(r, poller[p].latest)'
      BY <3>1, <3>4 DEF Confirmed
    <3>6. \A p \in Pollers : poller[p].latest <= head'
      BY <3>1, <3>4
    <3>7. (\A r \in Refs : Booked("credit", r) => Confirmed(r, head))'
      BY <3>1, <3>3 DEF Booked, Confirmed
    <3> QED
      BY <3>1, <3>2, <3>5, <3>6, <3>7 DEF Booked
  <2>2. ASSUME NEW p \in Pollers, PollNext(p) \/ Crash(p)
        PROVE  FoundInv'
    <3>0. /\ UNCHANGED <<head, block>>
          /\ poller \in [Pollers -> Polls] /\ poller[p] \in Polls
          /\ head \in Nat
      BY <2>2 DEF PollNext, StartPoll, ScanChunk, ChunkFails, ScanThrows, EndScan,
         Credit, CreditFails, EndPoll, Crash, TypeOK, chainVars
    <3>1. \A q \in Pollers \ {p} : poller'[q] = poller[q]
      BY <2>2, <3>0 DEF PollNext, StartPoll, ScanChunk, ChunkFails, ScanThrows, EndScan,
         Credit, CreditFails, EndPoll, Crash
    <3>2. /\ poller'[p].latest <= head
          /\ \A r \in poller'[p].found : Confirmed(r, poller'[p].latest)
      <4>1. CASE StartPoll(p)
        BY <4>1, <3>0 DEF StartPoll
      <4>2. CASE ScanChunk(p)
        BY <4>2, <3>0 DEF ScanChunk, InChunk, Polls
      <4>3. CASE ChunkFails(p) \/ ScanThrows(p) \/ EndScan(p)
        BY <4>3, <3>0 DEF ChunkFails, ScanThrows, EndScan, Polls
      <4>4. ASSUME NEW r \in Refs, Credit(p, r) \/ CreditFails(p, r)
            PROVE  /\ poller'[p].latest = poller[p].latest
                   /\ poller'[p].found \subseteq poller[p].found
        BY <4>4, <3>0 DEF Credit, CreditFails, Polls
      <4>5. CASE EndPoll(p) \/ Crash(p)
        BY <4>5, <3>0 DEF EndPoll, Crash, Idle
      <4> QED
        BY <2>2, <4>1, <4>2, <4>3, <4>4, <4>5 DEF PollNext
    <3>3. \A n, r : Confirmed(r, n)' <=> Confirmed(r, n')
      BY <3>0 DEF Confirmed
    <3>4. \A r \in Refs : Booked("credit", r)' =>
              Confirmed(r, head) /\ Hash[r] \in processed'
      <4>1. ASSUME NEW r \in Refs, Credit(p, r)
            PROVE  /\ journal' \in {journal, journal \cup {<<"credit", r>>}}
                   /\ processed' = processed \cup {Hash[r]}
                   /\ Confirmed(r, head)
        <5>1. poller[p].latest \in Nat
          BY <3>0 DEF Polls
        <5>2. Confirmed(r, poller[p].latest)
          BY <4>1 DEF Credit
        <5> QED
          BY <3>0, <4>1, <5>1, <5>2, ConfirmedLater DEF Credit, CreditTx, Book, storeVars
      <4>2. CASE UNCHANGED <<journal, processed>>
        BY <4>2 DEF Booked
      <4>3. \/ UNCHANGED <<journal, processed>>
            \/ \E r \in Refs : Credit(p, r)
        BY <2>2 DEF PollNext, StartPoll, ScanChunk, ChunkFails, ScanThrows, EndScan,
           CreditFails, EndPoll, Crash, storeVars
      <4> QED
        BY <4>1, <4>2, <4>3 DEF Booked
    <3> QED
      BY <3>0, <3>1, <3>2, <3>4 DEF Confirmed
  <2>3. CASE UNCHANGED vars
    BY <2>3 DEF vars, Booked, Confirmed
  <2> QED
    BY <2>1, <2>2, <2>3 DEF Next
<1> QED
  BY <1>1, <1>2, TypeCorrect, PTL DEF Spec

\* Nothing is credited that is not confirmed on the chain.
THEOREM CreditsAreConfirmed == Spec => []CreditedIsConfirmed
<1>1. FoundInv => CreditedIsConfirmed
  BY DepositsAssumption DEF FoundInv, TypeOK, Confirmed, CreditedIsConfirmed
<1> QED
  BY <1>1, FoundInvariant, PTL

-----------------------------------------------------------------------------
(* What is scanned is credited.                                            *)

\* The inductive invariant.  While a worker scans, what was confirmed when the
\* poll started is accounted for up to the next chunk; always, what was
\* confirmed at the end of its last range is: credited, found, or dropped.
Accounted(p, r) == Booked("credit", r) \/ r \in dropped \/ r \in poller[p].found

ScannedSoFar(p) ==
    In(p, "scanning") =>
        \A r \in Refs : first[p] <= block[r] /\ block[r] < poller[p].next
                        /\ Confirmed(r, poller[p].latest) => Accounted(p, r)

ScannedBefore(p) ==
    lastScanned[p] # 0 =>
        \A r \in Refs : first[p] <= block[r] /\ Confirmed(r, lastScanned[p])
                        => Accounted(p, r)

ScanInv ==
    /\ FoundInv
    /\ \A r \in Refs : Hash[r] \in processed => Booked("credit", r)
    /\ \A p \in Pollers :
         /\ In(p, "idle") => poller[p].found = {}
         /\ lastScanned[p] <= head
         /\ ScannedSoFar(p)
         /\ ScannedBefore(p)

LEMMA ScanInvariant == OwnHash => (Spec => []ScanInv)
<1> SUFFICES ASSUME OwnHash PROVE Spec => []ScanInv
  OBVIOUS
<1>1. Init /\ FoundInv => ScanInv
  BY DEF Init, ScanInv, ScannedSoFar, ScannedBefore, Idle, In
<1>2. FoundInv' /\ ScanInv /\ [Next]_vars => ScanInv'
  <2> SUFFICES ASSUME FoundInv', ScanInv, [Next]_vars PROVE ScanInv'
    OBVIOUS
  <2>0. /\ TypeOK /\ TypeOK'
        /\ poller \in [Pollers -> Polls]
        /\ \A p \in Pollers :
             /\ poller[p].latest \in Nat /\ poller[p].latest <= head
             /\ poller[p].next \in Nat
             /\ lastScanned[p] \in Nat /\ lastScanned[p] <= head
        /\ head \in Nat
    BY DEF ScanInv, FoundInv, TypeOK, Polls
  <2>1. CASE NewBlock
    <3>1. /\ head' = head + 1
          /\ \A r \in Refs : block'[r] = block[r] \/ (block[r] = 0 /\ block'[r] = head')
          /\ UNCHANGED <<journal, poller, processed, lastScanned, first, dropped>>
      BY <2>0, <2>1 DEF NewBlock, TypeOK, storeVars, pollVars, faultVars
    <3>2. \A r \in Refs, n \in Nat :
            n <= head /\ Confirmed(r, n)' => Confirmed(r, n) /\ block'[r] = block[r]
      BY <2>0, <3>1, DepositsAssumption DEF Confirmed, TypeOK
    <3>3. \A p \in Pollers : ScannedSoFar(p)' /\ ScannedBefore(p)'
      BY <2>0, <3>1, <3>2
      DEF ScanInv, ScannedSoFar, ScannedBefore, Accounted, Booked, In, Confirmed
    <3> QED
      BY <2>0, <3>1, <3>3 DEF ScanInv, In, Booked
  <2>2. ASSUME NEW p \in Pollers, PollNext(p) \/ Crash(p)
        PROVE  ScanInv'
    <3>0. UNCHANGED <<head, block>>
      BY <2>2 DEF PollNext, StartPoll, ScanChunk, ChunkFails, ScanThrows, EndScan,
         Credit, CreditFails, EndPoll, Crash, chainVars
    <3>1. \A q \in Pollers \ {p} :
            poller'[q] = poller[q] /\ lastScanned'[q] = lastScanned[q] /\ first'[q] = first[q]
      BY <2>0, <2>2 DEF PollNext, StartPoll, ScanChunk, ChunkFails, ScanThrows, EndScan,
         Credit, CreditFails, EndPoll, Crash, TypeOK
    <3>2. \/ UNCHANGED <<journal, processed>>
          \/ \E r \in Refs : Credit(p, r)
      BY <2>2 DEF PollNext, StartPoll, ScanChunk, ChunkFails, ScanThrows, EndScan,
         CreditFails, EndPoll, Crash, storeVars
    <3>3. ASSUME NEW r \in Refs, Credit(p, r)
          PROVE  /\ journal \subseteq journal'
                 /\ processed' = processed \cup {Hash[r]}
                 /\ Booked("credit", r)'
      <4>1. CASE Hash[r] \in processed
        BY <3>3, <4>1 DEF Credit, ScanInv, storeVars, Booked
      <4>2. CASE Hash[r] \notin processed
        BY <3>3, <4>2 DEF Credit, CreditTx, Book, Booked
      <4> QED
        BY <3>3, <4>1, <4>2 DEF Credit
    <3>4. \A r \in Refs : Hash[r] \in processed' => Booked("credit", r)'
      BY <3>2, <3>3 DEF ScanInv, OwnHash, Booked
    <3>5. /\ \A r \in Refs : Booked("credit", r) => Booked("credit", r)'
          /\ dropped \subseteq dropped'
      <4>1. journal \subseteq journal'
        BY <3>2, <3>3
      <4>2. dropped \subseteq dropped'
        BY <2>2 DEF PollNext, StartPoll, ScanChunk, ChunkFails, ScanThrows, EndScan,
           Credit, CreditFails, EndPoll, Crash, faultVars
      <4> QED
        BY <4>1, <4>2 DEF Booked
    <3>6. \A q \in Pollers \ {p} :
            /\ In(q, "idle")' => poller'[q].found = {}
            /\ lastScanned'[q] <= head'
            /\ ScannedSoFar(q)'
            /\ ScannedBefore(q)'
      BY <3>0, <3>1, <3>5
      DEF ScanInv, ScannedSoFar, ScannedBefore, Accounted, In, Confirmed
    <3> DEFINE OwnInv == /\ In(p, "idle")' => poller'[p].found = {}
                         /\ lastScanned'[p] <= head'
                         /\ ScannedSoFar(p)'
                         /\ ScannedBefore(p)'
    <3>7. ASSUME StartPoll(p) PROVE OwnInv
      <4>1. /\ poller'[p] = [stage |-> "scanning", latest |-> head,
                             next |-> From(p), found |-> {}]
            /\ UNCHANGED <<lastScanned, journal, dropped>>
            /\ poller[p].found = {}
            /\ lastScanned[p] # 0 => first' = first
            /\ lastScanned[p] = 0 => first'[p] = From(p)
        BY <2>0, <3>7 DEF StartPoll, ScanInv, storeVars, faultVars, TypeOK
      <4>2. ScannedBefore(p)'
        BY <3>0, <4>1 DEF ScanInv, ScannedBefore, Accounted, Booked, Confirmed
      <4>3. ASSUME NEW r \in Refs, first'[p] <= block[r], block[r] < From(p), Confirmed(r, head)
            PROVE  Booked("credit", r) \/ r \in dropped
        <5>1. /\ block[r] \in Nat /\ From(p) \in Nat
          BY <2>0, FromIsBlock DEF TypeOK
        <5>2. lastScanned[p] # 0
          BY <4>1, <4>3, <5>1
        <5>3. block[r] < lastScanned[p] - Overlap
          BY <2>0, <4>3, <5>1, <5>2, DepositsAssumption DEF From, AtLeastZero
        <5>4. Confirmed(r, lastScanned[p])
          BY <2>0, <4>3, <5>1, <5>3, DepositsAssumption DEF Confirmed
        <5> QED
          BY <4>1, <4>3, <5>2, <5>4 DEF ScanInv, ScannedBefore, Accounted
      <4>4. ScannedSoFar(p)'
        BY <3>0, <4>1, <4>3 DEF ScannedSoFar, Accounted, Booked, Confirmed, In
      <4> QED
        BY <2>0, <3>0, <4>1, <4>2, <4>4 DEF In
    <3>8. ASSUME ScanChunk(p) \/ ChunkFails(p) PROVE OwnInv
      <4>1. /\ In(p, "scanning") /\ In(p, "scanning")'
            /\ poller'[p].next = poller[p].next + Chunk
            /\ poller'[p].latest = poller[p].latest
            /\ poller[p].found \subseteq poller'[p].found
            /\ InChunk(p) \subseteq poller'[p].found \cup dropped'
            /\ UNCHANGED <<lastScanned, first, journal>>
        BY <2>0, <3>8 DEF ScanChunk, ChunkFails, In, Polls, storeVars, faultVars
      <4>2. ASSUME NEW r \in Refs, poller[p].next <= block[r],
                   block[r] < poller[p].next + Chunk, Confirmed(r, poller[p].latest)
            PROVE  r \in InChunk(p)
        BY <2>0, <4>2, DepositsAssumption DEF InChunk, Confirmed, TypeOK
      <4>3. \A r \in Refs : block[r] \in Nat
        BY <2>0 DEF TypeOK
      <4>4. ScannedSoFar(p)'
        BY <2>0, <3>0, <3>5, <4>1, <4>2, <4>3, DepositsAssumption
        DEF ScanInv, ScannedSoFar, Accounted, Confirmed
      <4>5. ScannedBefore(p)'
        BY <3>0, <3>5, <4>1 DEF ScanInv, ScannedBefore, Accounted, Confirmed
      <4> QED
        BY <2>0, <3>0, <4>1, <4>4, <4>5 DEF In
    <3>9. ASSUME ScanThrows(p) PROVE OwnInv
      <4>1. /\ poller'[p].stage = "crediting"
            /\ poller'[p].found = poller[p].found
            /\ UNCHANGED <<lastScanned, first>>
        BY <2>0, <3>9 DEF ScanThrows, Polls
      <4> QED
        BY <2>0, <3>0, <3>5, <4>1 DEF ScanInv, ScannedBefore, ScannedSoFar, Accounted, Confirmed, In
    <3>10. ASSUME EndScan(p) PROVE OwnInv
      <4>1. /\ In(p, "scanning")
            /\ poller[p].next > poller[p].latest
            /\ poller'[p].stage = "crediting"
            /\ poller'[p].found = poller[p].found
            /\ lastScanned'[p] = poller[p].latest
            /\ UNCHANGED first
        BY <2>0, <3>10 DEF EndScan, Polls, TypeOK
      <4>2. ASSUME NEW r \in Refs, Confirmed(r, poller[p].latest)
            PROVE  block[r] < poller[p].next
        BY <2>0, <4>1, <4>2, DepositsAssumption DEF Confirmed, TypeOK
      <4>3. ScannedBefore(p)'
        BY <3>0, <3>5, <4>1, <4>2 DEF ScanInv, ScannedBefore, ScannedSoFar, Accounted, Confirmed
      <4> QED
        BY <2>0, <3>0, <4>1, <4>3 DEF ScannedSoFar, In
    <3>11. ASSUME NEW r \in Refs, Credit(p, r) \/ CreditFails(p, r)
           PROVE  OwnInv
      <4>1. /\ poller'[p].stage = "crediting"
            /\ poller'[p].found = poller[p].found \ {r}
            /\ UNCHANGED <<lastScanned, first>>
        BY <2>0, <3>11 DEF Credit, CreditFails, In, Polls
      <4>2. Booked("credit", r)' \/ r \in dropped'
        BY <3>3, <3>11 DEF CreditFails
      <4> QED
        BY <2>0, <3>0, <3>5, <4>1, <4>2
        DEF ScanInv, ScannedBefore, ScannedSoFar, Accounted, Confirmed, In
    <3>12. ASSUME EndPoll(p) PROVE OwnInv
      <4>1. /\ poller'[p] = Idle /\ poller[p].found = {}
            /\ UNCHANGED <<lastScanned, first>>
        BY <2>0, <3>12 DEF EndPoll
      <4> QED
        BY <2>0, <3>0, <3>5, <4>1
        DEF ScanInv, ScannedBefore, ScannedSoFar, Accounted, Confirmed, In, Idle
    <3>13. ASSUME Crash(p) PROVE OwnInv
      <4>1. poller'[p] = Idle /\ lastScanned'[p] = 0
        BY <2>0, <3>13 DEF Crash, TypeOK
      <4> QED
        BY <2>0, <3>0, <4>1 DEF ScannedBefore, ScannedSoFar, In, Idle
    <3>14. OwnInv
      BY <2>2, <3>7, <3>8, <3>9, <3>10, <3>11, <3>12, <3>13 DEF PollNext
    <3> QED
      BY <3>4, <3>6, <3>14 DEF ScanInv
  <2>3. CASE UNCHANGED vars
    BY <2>3 DEF vars, ScanInv, ScannedBefore, ScannedSoFar, Accounted, Confirmed, In, Booked
  <2> QED
    BY <2>1, <2>2, <2>3 DEF Next
<1> QED
  BY <1>1, <1>2, FoundInvariant, PTL DEF Spec

\* When every transfer has a transaction of its own, a worker between two polls
\* has credited all it scanned, but for what a failed step skipped.
THEOREM ScannedTransfersAreCredited == OwnHash => (Spec => []ScannedIsCredited)
<1>1. ScanInv => ScannedIsCredited
  BY DEF ScanInv, ScannedBefore, Accounted, ScannedIsCredited
<1> QED
  BY <1>1, ScanInvariant, PTL

-----------------------------------------------------------------------------
(* The account book.                                                       *)

\* Any number of workers move the balance of a user as an account book does:
\* once for a transfer.
THEOREM DepositsImplementAccountBook == Spec => ImplementsAccountBook
<1> DEFINE bal == [u \in Users |-> Available(u)]
<1>1. Init => Accounts!BookInit
  BY StoreAssumption DEF Init, StoreInit, Available, HasAccount, Accounts!BookInit
<1>2. FoundInv /\ [Next]_vars => [Accounts!BookNext]_(Accounts!bookVars)
  <2> SUFFICES ASSUME FoundInv, [Next]_vars
               PROVE  Accounts!BookNext \/ UNCHANGED <<bal, journal>>
    BY DEF Accounts!bookVars
  <2>1. StoreTypeOK
    BY DEF FoundInv, TypeOK
  <2>2. CASE UNCHANGED storeVars
    BY <2>2 DEF storeVars, Available, HasAccount
  <2>3. ASSUME NEW r \in Refs, Hash[r] \notin processed, CreditTx("credit", r)
        PROVE  Accounts!PostCredit(r)
    <3>1. "credit" \in Kinds /\ Party("credit", r) = Payee[r]
      BY DEF Kinds, Party
    <3>2. /\ Payee[r] \in Users
          /\ Available(Payee[r]) + Amount[r] \in Int
          /\ Book("credit", r, Available(Payee[r]) + Amount[r])
      BY <2>1, <2>3, <3>1, CreditBooks
    <3>3. bal' = [bal EXCEPT ![Payee[r]] = Available(Payee[r]) + Amount[r]]
      BY <2>1, <3>1, <3>2, BookMovesBalance
    <3>4. bal[Payee[r]] = Available(Payee[r])
      BY <3>2
    <3>5. <<"credit", r>> \notin journal
      BY <2>3 DEF FoundInv, Booked
    <3> QED
      BY <3>2, <3>3, <3>4, <3>5 DEF Book, Accounts!PostCredit
  <2>4. \/ UNCHANGED storeVars
        \/ \E r \in Refs : Hash[r] \notin processed /\ CreditTx("credit", r)
    BY DEF Next, PollNext, NewBlock, StartPoll, ScanChunk, ChunkFails, ScanThrows,
       EndScan, Credit, CreditFails, EndPoll, Crash, vars, storeVars
  <2> QED
    BY <2>2, <2>3, <2>4 DEF Accounts!BookNext
<1> QED
  BY <1>1, <1>2, FoundInvariant, PTL
  DEF Spec, ImplementsAccountBook, Accounts!BookSpec
=============================================================================
