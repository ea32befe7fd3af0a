---------------------------- MODULE NairaDeposits ----------------------------
(***************************************************************************)
(* Naira paid into a user's virtual account.  The webhooks of Squad and    *)
(* Bachs credit it with creditUserBalance, which adds to the balance the   *)
(* API has in memory and leaves the database to two calls that nobody      *)
(* waits for: ensureBalanceAccount inserts the account row unless there is *)
(* one, createLedgerEntry the journal entry.                               *)
(*                                                                         *)
(* The same row and the newest entry are used by debits, by reads of the   *)
(* balance and by the worker's credits of chain deposits; the API's calls  *)
(* refresh its memory when they return.  One user; every movement moves    *)
(* one unit.  A debit and a worker's credit are one step (module Ledger    *)
(* says why), but the memory hears of a debit later.                       *)
(***************************************************************************)
EXTENDS Integers, FiniteSets

CONSTANTS
    Naira,          \* the naira deposits, each with its webhook event
    Chain,          \* the deposits on chain
    Spends,         \* the debits
    Readers,        \* the reads of the balance that may overlap
    NoRow,
    Faults          \* which of {"restart", "database"} may happen

VARIABLES
    account,        \* "BalanceAccount".availableUSDC, NoRow if there is no row
    newest,         \* resultingBalanceUSDC of the newest entry, NoRow if none
    memory,         \* LedgerService.ledger of the user, 0 if unknown
    reserved,       \* the events with a "ProcessedWebhook" row
    event,          \* event[n]: the handler that reserved event n
    ensure,         \* ensure[n]: its ensureBalanceAccount, or that of a read
    entry,          \* entry[n]: its createLedgerEntry
    hears,          \* balances that calls under way will leave in memory
    credited, received, spent   \* (history) movements made

nairaVars == <<account, newest, memory, reserved, event, ensure, entry, hears,
               credited, received, spent>>

\* Movements are counted, and a task is that of a deposit or of a read.
NairaConstants ==
    /\ IsFiniteSet(Naira) /\ IsFiniteSet(Chain) /\ IsFiniteSet(Spends)
    /\ Naira \cap Readers = {}
    /\ NoRow \notin Int

NoTask == [at |-> "none", balance |-> 0]
Task(where, b) == [at |-> where, balance |-> b]

NairaTypeOK ==
    /\ account \in Int \cup {NoRow} /\ newest \in Int \cup {NoRow} /\ memory \in Int
    /\ reserved \subseteq Naira
    /\ event \in [Naira -> {"new", "resolving", "over"}]
    /\ ensure \in [Naira \cup Readers -> [at : {"none", "select", "insert"}, balance : Int]]
    /\ entry \in [Naira -> [at : {"none", "insert"}, balance : Int]]
    /\ hears \subseteq Int
    /\ credited \subseteq Naira /\ received \subseteq Chain /\ spent \subseteq Spends

NairaInit ==
    /\ account = NoRow /\ newest = NoRow /\ memory = 0
    /\ reserved = {}
    /\ event = [n \in Naira |-> "new"]
    /\ ensure = [n \in Naira \cup Readers |-> NoTask] /\ entry = [n \in Naira |-> NoTask]
    /\ hears = {}
    /\ credited = {} /\ received = {} /\ spent = {}

movements == <<credited, received, spent>>
tasks == <<event, ensure, entry>>

-----------------------------------------------------------------------------
(* The webhook.  Providers deliver an event until it is answered.          *)

\* (mutant) an event is handled every time it is delivered
Deliver_Always(n) ==
    /\ event[n] # "resolving"
    /\ reserved' = reserved \cup {n}
    /\ event' = [event EXCEPT ![n] = "resolving"]
    /\ UNCHANGED <<account, newest, memory, ensure, entry, hears, movements>>

\* reserveWebhookEvent; a repeated delivery is answered as a duplicate.
Deliver(n) ==
    /\ n \notin reserved
    /\ reserved' = reserved \cup {n}
    /\ event' = [event EXCEPT ![n] = "resolving"]
    /\ UNCHANGED <<account, newest, memory, ensure, entry, hears, movements>>

\* creditUserBalance, when the user of the virtual account has been found.
CreditUserBalance(n) ==
    /\ event[n] = "resolving"
    /\ event' = [event EXCEPT ![n] = "over"]
    /\ memory' = memory + 1
    /\ ensure' = [ensure EXCEPT ![n] = Task("select", memory + 1)]
    /\ entry' = [entry EXCEPT ![n] = Task("insert", memory + 1)]
    /\ credited' = credited \cup {n}
    /\ UNCHANGED <<account, newest, reserved, hears, received, spent>>

\* The user is not found, or the lookup throws; the key stays reserved.
NotResolved(n) ==
    /\ event[n] = "resolving"
    /\ event' = [event EXCEPT ![n] = "over"]
    /\ UNCHANGED <<account, newest, memory, reserved, ensure, entry, hears, movements>>

\* ensureBalanceAccount looks for the row ...
EnsureSelects(n) ==
    /\ ensure[n].at = "select"
    /\ IF account # NoRow
       THEN /\ hears' = hears \cup {account}
            /\ ensure' = [ensure EXCEPT ![n] = NoTask]
       ELSE ensure' = [ensure EXCEPT ![n].at = "insert"] /\ UNCHANGED hears
    /\ UNCHANGED <<account, newest, memory, reserved, event, entry, movements>>

\* (mutant) ON CONFLICT DO UPDATE
Seeded_Overwritten(b) == b

\* INSERT ... ON CONFLICT DO NOTHING.
Seeded(b) == IF account = NoRow THEN b ELSE account

\* ... and inserts it with the balance it was given.
EnsureInserts(n) ==
    /\ ensure[n].at = "insert"
    /\ account' = Seeded(ensure[n].balance)
    /\ hears' = hears \cup {ensure[n].balance}
    /\ ensure' = [ensure EXCEPT ![n] = NoTask]
    /\ UNCHANGED <<newest, memory, reserved, event, entry, movements>>

EntryInserts(n) ==
    /\ entry[n].at = "insert"
    /\ newest' = entry[n].balance
    /\ entry' = [entry EXCEPT ![n] = NoTask]
    /\ UNCHANGED <<account, memory, reserved, event, ensure, hears, movements>>

\* The database refuses; both errors are logged and swallowed.
TaskFails(n) ==
    /\ "database" \in Faults
    /\ \/ ensure[n] # NoTask /\ ensure' = [ensure EXCEPT ![n] = NoTask] /\ UNCHANGED entry
       \/ entry[n] # NoTask /\ entry' = [entry EXCEPT ![n] = NoTask] /\ UNCHANGED ensure
    /\ UNCHANGED <<account, newest, memory, reserved, event, hears, movements>>

-----------------------------------------------------------------------------
(* The others.                                                             *)

\* What a row is created with: the newest entry's balance, or the memory's.
Latest == IF newest # NoRow THEN newest ELSE memory

\* debitBalanceAtomic.
Debit(s) ==
    LET b == IF account = NoRow THEN Latest ELSE account IN
    /\ s \notin spent
    /\ b >= 1
    /\ account' = b - 1 /\ newest' = b - 1
    /\ hears' = hears \cup {b - 1}
    /\ spent' = spent \cup {s}
    /\ UNCHANGED <<memory, reserved, tasks, credited, received>>

\* The worker's transaction; the API's memory does not hear of it.
ChainCredit(c) ==
    LET b == IF account # NoRow THEN account ELSE IF newest # NoRow THEN newest ELSE 0 IN
    /\ c \notin received
    /\ account' = b + 1 /\ newest' = b + 1
    /\ received' = received \cup {c}
    /\ UNCHANGED <<memory, reserved, tasks, hears, credited, spent>>

\* getBalanceAsync: the row, or, if it is missing, an ensureBalanceAccount that
\* inserts the balance read now.
GetBalance(g) ==
    /\ ensure[g] = NoTask
    /\ IF account # NoRow
       THEN hears' = hears \cup {account} /\ UNCHANGED ensure
       ELSE ensure' = [ensure EXCEPT ![g] = Task("insert", Latest)] /\ UNCHANGED hears
    /\ UNCHANGED <<account, newest, memory, reserved, event, entry, movements>>

\* An answer arrives: answers overtake each other.
Hear(b) ==
    /\ b \in hears
    /\ memory' = b
    /\ hears' = hears \ {b}
    /\ UNCHANGED <<account, newest, reserved, tasks, movements>>

\* The process restarts; syncFromDatabase takes the newest entry for the balance.
Restart ==
    /\ "restart" \in Faults
    /\ memory' = IF newest # NoRow THEN newest ELSE 0
    /\ hears' = {}
    /\ event' = [n \in Naira |-> IF event[n] = "resolving" THEN "over" ELSE event[n]]
    /\ ensure' = [n \in Naira \cup Readers |-> NoTask] /\ entry' = [n \in Naira |-> NoTask]
    /\ UNCHANGED <<account, newest, reserved, movements>>

NairaNext ==
    \/ \E n \in Naira : \/ Deliver(n) \/ CreditUserBalance(n) \/ NotResolved(n)
                        \/ EnsureSelects(n) \/ EntryInserts(n) \/ TaskFails(n)
    \/ \E n \in Naira \cup Readers : EnsureInserts(n)
    \/ \E g \in Readers : GetBalance(g)
    \/ \E s \in Spends : Debit(s)
    \/ \E c \in Chain : ChainCredit(c)
    \/ (\E b \in hears : Hear(b)) \/ Restart

NairaSpec == NairaInit /\ [][NairaNext]_nairaVars

-----------------------------------------------------------------------------

\* A naira credit, computed from a balance that may be stale, never takes anything
\* away that the row holds, and none counts twice, however often its event is
\* delivered and whatever answers overtake each other.  More the code does not
\* give: a credit that finds an account row is not added to it.
NairaNeverOverwrites ==
    account # NoRow =>
        /\ Cardinality(received) - Cardinality(spent) <= account
        /\ account <= Cardinality(received) + Cardinality(credited) - Cardinality(spent)
=============================================================================
