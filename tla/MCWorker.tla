------------------------------ MODULE MCWorker -------------------------------
(* The two jobs of the worker that must get something done in the end, one  *)
(* at a time (job): payment of withdrawals, as MCWithdrawals has it, and    *)
(* the scan of a Solana wallet.  They share no state.                       *)
EXTENDS MCWithdrawals

VARIABLES
    job,
    history, processed, poll, errors    \* SolanaDeposits

solanaVars == <<history, processed, poll, errors>>
workerVars == <<job, vars, solanaVars>>

\* Two deposits, a transfer out and one that only pays gas; a window of one.
Sol == INSTANCE SolanaDeposits WITH
    Sigs <- {"in1", "in2", "out1", "gas1"}, Incoming <- {"in1", "in2"}, Failed <- {},
    OnToken <- {"in1", "in2", "out1"}, OnOwner <- {"out1", "gas1"},
    Polls <- {1}, Limit <- 3, Window <- 1, KnownLimit <- 9, MaxErrors <- 1

MCInit == job \in {"withdrawals", "solana"} /\ Init /\ Sol!SolanaInit

Pays(A) == job = "withdrawals" /\ A /\ UNCHANGED <<job, solanaVars>>
Scans(A) == job = "solana" /\ A /\ UNCHANGED <<job, vars>>

WithdrawalsMove == job = "withdrawals" /\ Next /\ UNCHANGED <<job, solanaVars>>
SolanaMoves == job = "solana" /\ Sol!SolanaNext /\ UNCHANGED <<job, vars>>

\* The fairness of Withdrawals' FairSpec and of SolanaSpec.
MCSpec ==
    /\ MCInit /\ [][WithdrawalsMove \/ SolanaMoves]_workerVars
    /\ \A r \in Refs :
         /\ WF_workerVars(Pays(PersistRow(r) \/ PersistFails(r)))
         /\ WF_workerVars(Pays(DebitOk(r) \/ DebitRefused(r)))
         /\ WF_workerVars(Pays(BackoffElapses(r)))
         /\ WF_workerVars(Pays(RecoverStale(r)))
         /\ WF_workerVars(Pays(ChainNext(r)))
    /\ \A w \in Workers :
         WF_workerVars(Pays(Claim(w))) /\ WF_workerVars(Pays(RunNext(w)))
    /\ WF_workerVars(Scans(Sol!PollStep(1)))

SolanaTypeOK == Sol!SolanaTypeOK
EverySolanaDepositIsCredited == Sol!EverySolanaDepositIsCredited
=============================================================================
