------------------------------- MODULE ChainSend ------------------------------
(***************************************************************************)
(* One payment by SelfCustodyService of selfCustody.ts: sendCrypto builds  *)
(* a transaction and has Privy sign and broadcast it, and the caller then  *)
(* asks waitForConfirmation what became of it.                             *)
(*                                                                         *)
(* On Solana a transaction is identified by its blockhash, so that the     *)
(* same bytes broadcast twice are one transaction; on Monad every request  *)
(* Privy accepts is a transaction with a nonce of its own.  Privy refuses  *)
(* a request (no gas sponsorship, blockhash not found) before it signs;    *)
(* any other error may hide a broadcast.                                   *)
(*                                                                         *)
(* The chain: a broadcast transaction may be included, may leave the chain *)
(* again with a fork, and once settled stays.  A node lags: it reports any *)
(* state the transaction has been through since, or fails to answer.       *)
(* Stellar is not modelled: its hash is never looked up.                   *)
(***************************************************************************)
EXTENDS Integers, FiniteSets

CONSTANTS
    Chains,     \* a subset of {"solana", "monad"}
    Nodes,      \* the RPC nodes asked in turn: the primary and its fallback
    Polls       \* verifyDepositTransaction runs before the deadline passes

ChainSendConstants == Chains \subseteq {"solana", "monad"} /\ Nodes \in Nat /\ Polls \in Nat

VARIABLES
    chain,      \* the chain paid on
    sponsor,    \* gasPaymentMode is PRIVY_SPONSOR, with a gas wallet
    atas,       \* the token accounts on the chain, of the parties named
    creates,    \* the accounts the transaction creates first
    at,         \* where the call is
    hashes,     \* blockhashes fetched
    requests,   \* requests to Privy
    tx,         \* tx[i]: the transactions of this call
    txHash,     \* what sendCrypto returned
    ask,        \* the next question of verifyDepositTransaction
    polls       \* how often it ran

sendVars == <<chain, sponsor, atas, creates, at, hashes, requests, tx, txHash, ask, polls>>

MaxTx == 4
None == 0

Points == {"start", "lookup", "hash", "send", "plain", "rehash",
           "answer", "poll", "asking", "confirmed", "timedOut", "failed"}

TxStates == {"none", "pool", "included", "settled", "dropped"}
TxErrors == {"none", "funds", "account"}

ChainSendTypeOK ==
    /\ chain \in Chains
    /\ sponsor \in BOOLEAN
    /\ atas \subseteq {"sender", "recipient", "treasury"}
    /\ creates \subseteq {"recipient", "treasury"}
    /\ at \in Points
    /\ hashes \in 0..2
    /\ requests \in 0..MaxTx
    /\ tx \in [1..MaxTx -> [state : TxStates, err : TxErrors]]
    /\ txHash \in 0..MaxTx
    /\ ask \in Nat
    /\ polls \in 0..Polls

ChainSendInit ==
    /\ chain \in Chains
    /\ sponsor \in BOOLEAN
    /\ atas \in SUBSET {"sender", "recipient", "treasury"}
    /\ creates = {}
    /\ at = "start"
    /\ hashes = 0 /\ requests = 0
    /\ tx = [i \in 1..MaxTx |-> [state |-> "none", err |-> "none"]]
    /\ txHash = None /\ ask = 0 /\ polls = 0

Goes(from, to) == at = from /\ at' = to

unsent == <<chain, sponsor, atas>>

-----------------------------------------------------------------------------
(* The chain.                                                              *)

\* A transfer needs the token accounts of both receivers; creating one that
\* exists is no error (CreateIdempotent).
Outcomes ==
    IF chain = "solana" /\ {"recipient", "treasury"} \ (atas \cup creates) /= {}
      THEN {"account"} ELSE {"none", "funds"}

TxMoves(i, from, to) ==
    /\ tx[i].state = from
    /\ \E e \in IF to = "included" THEN Outcomes ELSE {tx[i].err} :
          tx' = [tx EXCEPT ![i] = [state |-> to, err |-> e]]
    /\ UNCHANGED <<chain, sponsor, creates, at, hashes, requests, txHash, ask, polls>>

Include(i) == TxMoves(i, "pool", "included") /\ UNCHANGED atas
Fork(i) == TxMoves(i, "included", "pool") /\ UNCHANGED atas
Drop(i) == TxMoves(i, "pool", "dropped") /\ UNCHANGED atas
Settle(i) ==
    /\ TxMoves(i, "included", "settled")
    /\ atas' = IF tx[i].err = "none" THEN atas \cup creates ELSE atas

\* Another payment gives a receiver its account, between a lookup and its use.
AtaAppears ==
    /\ \E a \in {"recipient", "treasury"} \ atas : atas' = atas \cup {a}
    /\ UNCHANGED <<chain, sponsor, creates, at, hashes, requests, tx, txHash, ask, polls>>

-----------------------------------------------------------------------------
(* sendCrypto.                                                             *)

\* Without credentials or a wallet id it throws.
Begin ==
    /\ \/ Goes("start", "failed")
       \/ Goes("start", IF chain = "solana" THEN "lookup" ELSE "send")
    /\ UNCHANGED <<unsent, creates, hashes, requests, tx, txHash, ask, polls>>

\* A lookup that fails reads as an account that does not exist: the sender's
\* ends the call, a receiver's is created.
LookUpAccounts ==
    \E answered \in SUBSET {"sender", "recipient", "treasury"} :
       LET found == atas \cap answered IN
       /\ IF "sender" \in found THEN Goes("lookup", "hash") ELSE Goes("lookup", "failed")
       /\ creates' = IF "sender" \in found THEN {"recipient", "treasury"} \ found
                                           ELSE creates
       /\ UNCHANGED <<unsent, hashes, requests, tx, txHash, ask, polls>>

\* getLatestBlockhash, after the slow lookups; again for the one retry.
FetchBlockhash ==
    /\ \/ /\ Goes("hash", "send") \/ Goes("rehash", "send")
          /\ hashes' = hashes + 1
       \/ /\ Goes("hash", "failed") \/ Goes("rehash", "failed")
          /\ UNCHANGED hashes
    /\ UNCHANGED <<unsent, creates, requests, tx, txHash, ask, polls>>

\* The transaction that the request on its way to Privy makes.
Bytes == IF chain = "solana" THEN hashes ELSE requests + 1

Broadcast ==
    tx' = IF tx[Bytes].state = "none" THEN [tx EXCEPT ![Bytes].state = "pool"] ELSE tx

Request(step) == at = step /\ requests' = requests + 1

\* Privy's answer with a hash or signature.
Accepted(step) ==
    /\ Request(step)
    /\ Broadcast
    /\ txHash' = Bytes
    /\ at' = "answer"
    /\ UNCHANGED <<unsent, creates, hashes, ask, polls>>

\* "Gas sponsorship is not configured": once more, without the flag.
NotSponsored ==
    /\ sponsor
    /\ Request("send")
    /\ at' = "plain"
    /\ UNCHANGED <<unsent, creates, hashes, tx, txHash, ask, polls>>

\* "Blockhash not found": one retry with a fresh one, on Solana.
BlockhashUnknown(step) ==
    /\ chain = "solana"
    /\ Request(step)
    /\ at' = IF hashes = 1 THEN "rehash" ELSE "failed"
    /\ UNCHANGED <<unsent, creates, hashes, tx, txHash, ask, polls>>

\* A plausible bug: every error is retried.
Thrown_Retried(step) ==
    /\ Request(step)
    /\ Broadcast \/ UNCHANGED tx
    /\ at' = IF chain = "solana" /\ hashes = 1 THEN "rehash" ELSE "failed"
    /\ UNCHANGED <<unsent, creates, hashes, txHash, ask, polls>>

\* Any other error, an answer without a hash or none at all: thrown to the
\* caller, whether or not the transaction is on its way.
Thrown(step) ==
    /\ Request(step)
    /\ Broadcast \/ UNCHANGED tx
    /\ at' = "failed"
    /\ UNCHANGED <<unsent, creates, hashes, txHash, ask, polls>>

ToPrivy(step) == Accepted(step) \/ BlockhashUnknown(step) \/ Thrown(step)

-----------------------------------------------------------------------------
(* waitForConfirmation: a run of verifyDepositTransaction at a time, until *)
(* one confirms or the deadline passes.                                    *)

Poll ==
    /\ at \in {"answer", "poll"} /\ polls < Polls
    /\ at' = "asking" /\ ask' = 1 /\ polls' = polls + 1
    /\ UNCHANGED <<unsent, creates, hashes, requests, tx, txHash>>

Deadline ==
    /\ Goes("poll", "timedOut")
    /\ UNCHANGED <<unsent, creates, hashes, requests, tx, txHash, ask, polls>>

\* On Solana each node is asked for the signature's status at three commitments,
\* then each for the transaction at three; on Monad each for the receipt.
Questions == IF chain = "solana" THEN 6 * Nodes ELSE Nodes
AsksStatus == chain = "solana" /\ ask <= 3 * Nodes
AsksProcessed == chain = "solana" /\ ask % 3 = 1

\* What a node may say of a transaction; getTransaction serves no commitment
\* below confirmed, and a receipt is that of a settled block.
Reports(t) ==
    {"unknown"} \cup (IF t.state \in {"included", "settled"} /\ AsksStatus
                        THEN {"processed"} ELSE {})
                \cup (IF t.state = "settled" /\ (AsksStatus \/ ~AsksProcessed)
                        THEN {"settled"} ELSE {})

\* The verdict of one answer: an error that is reported ends the run; a status
\* below confirmed, like no answer, leads to the next question.
Verdict(report, err) ==
    IF report = "unknown" THEN "next"
    ELSE IF err /= "none" THEN "unconfirmed"
    ELSE IF report = "settled" THEN "confirmed" ELSE "next"

Ask ==
    /\ at = "asking"
    /\ \E report \in Reports(tx[txHash]) :
          LET verdict == Verdict(report, tx[txHash].err) IN
          \/ verdict = "confirmed" /\ at' = "confirmed" /\ ask' = 0
          \/ verdict = "unconfirmed" /\ at' = "poll" /\ ask' = 0
          \/ verdict = "next" /\ ask < Questions /\ at' = "asking" /\ ask' = ask + 1
          \/ verdict = "next" /\ ask >= Questions /\ at' = "poll" /\ ask' = 0
    /\ UNCHANGED <<unsent, creates, hashes, requests, tx, txHash, polls>>

-----------------------------------------------------------------------------

CallStep ==
    \/ Begin \/ LookUpAccounts \/ FetchBlockhash
    \/ ToPrivy("send") \/ ToPrivy("plain") \/ NotSponsored
    \/ Poll \/ Ask \/ Deadline

ChainStep ==
    \/ \E i \in 1..MaxTx : Include(i) \/ Fork(i) \/ Drop(i) \/ Settle(i)
    \/ AtaAppears

ChainSendNext == CallStep \/ ChainStep

-----------------------------------------------------------------------------

\* A call pays at most once, through both of its retries and whatever answers
\* are lost; a hash it returns is that of the only transaction it made.  "This
\* is always safe ... there is no double-spend risk" (selfCustody.ts, the
\* blockhash retry).
PaysOnce ==
    /\ Cardinality({i \in 1..MaxTx : tx[i].state /= "none"}) <= 1
    /\ txHash /= None => \A i \in 1..MaxTx \ {txHash} : tx[i].state = "none"

\* A confirmation is of a transaction that settled without an error, whatever
\* forks, lags or failures of the nodes came before (waitForConfirmation,
\* verifyDepositTransaction: "fail closed").
ConfirmedHasLanded ==
    at = "confirmed" => tx[txHash] = [state |-> "settled", err |-> "none"]

\* No payment fails on the chain for want of a receiver's token account, though
\* the lookups that decide what is created may fail or be overtaken.
AccountsAreThere == \A i \in 1..MaxTx : tx[i].err /= "account"

\* The three together: what a caller of sendCrypto relies on.
SendIsHonest == PaysOnce /\ ConfirmedHasLanded /\ AccountsAreThere
=============================================================================
