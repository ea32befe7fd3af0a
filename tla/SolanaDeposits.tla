---------------------------- MODULE SolanaDeposits ----------------------------
(***************************************************************************)
(* SolanaListener.pollSolanaForDeposits as the worker's job runs it: which *)
(* signatures of a wallet a poll looks at, and whether every deposit is    *)
(* looked at in the end.  Unlike the EVM scan (module Deposits) a poll has *)
(* no position of its own: it asks for the newest signatures each time and *)
(* drops those it knows to be processed.                                   *)
(*                                                                         *)
(* One wallet stands for all: wallets are polled one after the other and   *)
(* share only the set of processed signatures, read when the poll starts.  *)
(* Credit is the transaction of processDepositEvent, modelled in Deposits; *)
(* here it only leaves the "ProcessedSignature" row.                       *)
(***************************************************************************)
EXTENDS Naturals, Sequences, FiniteSets, SequencesExt

CONSTANTS
    Sigs,           \* the transactions that may touch the wallet
    Incoming,       \* those that raise its token balance
    Failed,         \* those that executed with an error
    OnToken,        \* those that name its token account
    OnOwner,        \* those that name the wallet itself
    Polls,          \* the polls that may overlap
    Limit,          \* signatures asked for per address (25)
    Window,         \* transactions fetched per wallet and poll (8)
    KnownLimit,     \* processed signatures read per poll (5000)
    MaxErrors       \* bound of the model: failed requests altogether

VARIABLES
    history,        \* the finalized transactions, oldest first
    processed,      \* the "ProcessedSignature" rows, oldest first
    poll,           \* the poll in flight of each element of Polls
    errors          \* (bound) failed requests so far

solVars == <<history, processed, poll, errors>>

Stages == {"idle", "token", "owner", "fetch", "credit"}

Idle == [stage |-> "idle", known |-> {}, seen |-> <<>>, found |-> {}]

SolanaTypeOK ==
    /\ history \in Seq(Sigs) /\ IsInjective(history)
    /\ processed \in Seq(Incoming)
    /\ \A p \in Polls : /\ poll[p].stage \in Stages
                        /\ poll[p].known \subseteq Incoming
                        /\ poll[p].seen \in Seq(Sigs)
                        /\ poll[p].found \subseteq Incoming
    /\ errors \in 0..MaxErrors

SolanaInit ==
    /\ history = <<>>
    /\ processed = <<>>
    /\ poll = [p \in Polls |-> Idle]
    /\ errors = 0

Newest(s, n) == SubSeq(Reverse(s), 1, IF Len(s) < n THEN Len(s) ELSE n)

Goes(p, from, rec) == poll[p].stage = from /\ poll' = [poll EXCEPT ![p] = rec]

RequestFails == errors < MaxErrors /\ errors' = errors + 1

-----------------------------------------------------------------------------

\* A transaction is finalized.
Finalize(s) ==
    /\ s \notin ToSet(history)
    /\ history' = Append(history, s)
    /\ UNCHANGED <<processed, poll, errors>>

\* getRecentProcessedSignatures; if it fails, nothing is known.
StartPoll(p) ==
    LET Knowing(known) == [Idle EXCEPT !.stage = "token", !.known = known] IN
    /\ \/ /\ Goes(p, "idle", Knowing(ToSet(Newest(processed, KnownLimit))))
          /\ UNCHANGED errors
       \/ Goes(p, "idle", Knowing({})) /\ RequestFails
    /\ UNCHANGED <<history, processed>>

\* getTokenAccountsByOwner fails or has no answer: the wallet is passed over.
NoTokenAccount(p) ==
    /\ Goes(p, "token", Idle)
    /\ RequestFails
    /\ UNCHANGED <<history, processed>>

\* getSignaturesForAddress of the token account, then of the wallet; a failure
\* leaves that address out.  The Map keeps the order of first insertion.
List(p, from, to, address) ==
    LET listed == Newest(SelectSeq(history, LAMBDA s : s \in address), Limit)
        new == SelectSeq(listed, LAMBDA s : s \notin ToSet(poll[p].seen))
    IN /\ \/ /\ Goes(p, from, [poll[p] EXCEPT !.stage = to, !.seen = @ \o new])
             /\ UNCHANGED errors
          \/ Goes(p, from, [poll[p] EXCEPT !.stage = to]) /\ RequestFails
       /\ UNCHANGED <<history, processed>>

ListToken(p) == List(p, "token", "owner", OnToken)
ListOwner(p) == List(p, "owner", "fetch", OnOwner)

\* (mutant) the window is cut before the processed signatures are dropped
ToFetch_CutFirst(p) ==
    SelectSeq(SubSeq(poll[p].seen, 1, IF Len(poll[p].seen) < Window
                                      THEN Len(poll[p].seen) ELSE Window),
              LAMBDA s : s \notin poll[p].known)

\* The signatures whose transactions this poll fetches.
ToFetch(p) ==
    LET unknown == SelectSeq(poll[p].seen, LAMBDA s : s \notin poll[p].known)
    IN SubSeq(unknown, 1, IF Len(unknown) < Window THEN Len(unknown) ELSE Window)

\* getTransaction of each, then one getSignatureStatuses for the candidates.
\* What fails is left out and stays unprocessed: one transaction, or all if the
\* batch fails.
Fetch(p) ==
    LET found == (ToSet(ToFetch(p)) \cap Incoming) \ Failed
        Finding(f) == [poll[p] EXCEPT !.stage = "credit", !.found = f]
    IN /\ \/ Goes(p, "fetch", Finding(found)) /\ UNCHANGED errors
          \/ /\ \E s \in found : Goes(p, "fetch", Finding(found \ {s})) \/ Goes(p, "fetch", Finding({}))
             /\ RequestFails
       /\ UNCHANGED <<history, processed>>

\* processDepositEvent; its errors are logged and the loop goes on.
Credit(p, s) ==
    /\ s \in poll[p].found
    /\ Goes(p, "credit", [poll[p] EXCEPT !.found = @ \ {s}])
    /\ \/ /\ processed' = IF s \in ToSet(processed) THEN processed ELSE Append(processed, s)
          /\ UNCHANGED errors
       \/ RequestFails /\ UNCHANGED processed
    /\ UNCHANGED history

EndPoll(p) ==
    /\ poll[p].found = {}
    /\ Goes(p, "credit", Idle)
    /\ UNCHANGED <<history, processed, errors>>

\* The process restarts: nothing of a poll is kept.
WorkerRestarts(p) ==
    /\ poll[p].stage # "idle"
    /\ poll' = [poll EXCEPT ![p] = Idle]
    /\ RequestFails
    /\ UNCHANGED <<history, processed>>

PollStep(p) ==
    \/ StartPoll(p) \/ NoTokenAccount(p) \/ ListToken(p) \/ ListOwner(p)
    \/ Fetch(p) \/ (\E s \in Incoming : Credit(p, s)) \/ EndPoll(p)

SolanaNext ==
    \/ \E s \in Sigs : Finalize(s)
    \/ \E p \in Polls : PollStep(p) \/ WorkerRestarts(p)

SolanaSpec ==
    /\ SolanaInit /\ [][SolanaNext]_solVars
    /\ \A p \in Polls : WF_solVars(PollStep(p))

-----------------------------------------------------------------------------
(* Properties.                                                             *)

Newer(s) == {t \in Sigs : \E i, j \in DOMAIN history :
                i < j /\ history[i] = s /\ history[j] = t}

\* Transactions that are never marked processed -- outgoing and failed ones --
\* fill the window for good, and the node lists only Limit signatures.
Buried(s) ==
    \/ Cardinality((Newer(s) \cap OnToken) \ (Incoming \ Failed)) >= Window
    \/ Cardinality(Newer(s) \cap OnToken) >= Limit
    \/ Len(processed) > KnownLimit

\* A finalized deposit is credited in the end, whatever requests fail on the way,
\* unless as many transactions that are no deposits as a poll fetches come after
\* it: newer deposits alone, and transactions of the wallet that do not touch its
\* token account, never hide it.
EverySolanaDepositIsCredited ==
    \A s \in Incoming \ Failed :
        s \in ToSet(history) ~> s \in ToSet(processed) \/ Buried(s)
=============================================================================
