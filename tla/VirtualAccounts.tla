---------------------------- MODULE VirtualAccounts ---------------------------
(***************************************************************************)
(* The naira accounts users pay into.  A verification (verifyID) or, later *)
(* on, retryVirtualAccount has a provider issue a number; addVirtualAccount*)
(* of LedgerService puts it into memory and awaits its "VirtualAccount"    *)
(* row.  The webhook of a deposit looks the number up among the rows,      *)
(* unless Squad names the customer, and consumes its key either way.       *)
(*                                                                         *)
(* A number is called by the request it was issued for.  The provider may  *)
(* answer a further request of a user with the number he has (lib/bachs.ts:*)
(* "creating twice is idempotent"), or issue another.  Simulated accounts  *)
(* and the match of a sender's name with an e-mail are not modelled.       *)
(***************************************************************************)
EXTENDS FiniteSets

CONSTANTS
    Requests,       \* the requests for an account
    User,           \* User[q]: who asks
    Flow,           \* Flow[q]: "verify" or "retry"
    Deposits,       \* the transfers that may be made
    Nobody,         \* no user
    MayFail         \* which of {"restart", "dbError", "provider"} may happen

Owners == {User[q] : q \in Requests}

VARIABLES
    issued,         \* the numbers that exist at the provider
    request,        \* request[q]: where it is, and the number it got
    verified,       \* verified[u]: updateUserKYC has happened in memory, in the row
    memory,         \* memory[u]: the numbers in virtualAccounts
    rows,           \* the "VirtualAccount" rows, <<number, user>>
    reading,        \* reading[u]: the rows a list request has read, if one is under way
    shown,          \* numbers the app has been told of
    promised,       \* (history) numbers in an answer that knew of no failure
    deposit         \* deposit[d]: its number, who was credited, what it was told

accountVars == <<issued, request, verified, memory, rows, reading, shown, promised, deposit>>

Numbers == Requests
None == "none"

NumberConstants == None \notin Numbers
Stages == {"new", "issuing", "writing", "done", "failed"}

VirtualAccountsTypeOK ==
    /\ issued \subseteq Numbers
    /\ request \in [Requests -> [at : Stages, number : Numbers \cup {None}]]
    /\ verified \in [Owners -> {"no", "memory", "row"}]
    /\ memory \in [Owners -> SUBSET Numbers]
    /\ rows \subseteq Numbers \X Owners
    /\ reading \in [Owners -> (SUBSET Numbers) \cup {{None}}]
    /\ shown \subseteq Numbers /\ promised \subseteq shown
    /\ deposit \in [Deposits -> [at : {"none", "paid", "credited", "parked", "lost"},
                       number : Numbers \cup {None}, to : Owners \cup {Nobody},
                       promised : BOOLEAN]]

VirtualAccountsInit ==
    /\ issued = {} /\ rows = {} /\ shown = {} /\ promised = {}
    /\ request = [q \in Requests |-> [at |-> "new", number |-> None]]
    /\ verified = [u \in Owners |-> "no"]
    /\ memory = [u \in Owners |-> {}]
    /\ reading = [u \in Owners |-> {None}]
    /\ deposit = [d \in Deposits |-> [at |-> "none", number |-> None, to |-> Nobody,
                                      promised |-> FALSE]]

RowsOf(u) == {n \in Numbers : <<n, u>> \in rows}

Moves(q, from, to, n) ==
    /\ request[q].at = from
    /\ request' = [request EXCEPT ![q] = [at |-> to, number |-> n]]

-----------------------------------------------------------------------------
(* A number for a user.                                                    *)

\* verifyID asks for the identity first, which may fail; retryVirtualAccount wants
\* the row to say VERIFIED.
Start(q) ==
    /\ \/ Moves(q, "new", "failed", None)
       \/ /\ Flow[q] = "retry" => verified[User[q]] = "row"
          /\ Moves(q, "new", "issuing", None)
    /\ UNCHANGED <<issued, verified, memory, rows, reading, shown, promised, deposit>>

Issuable(q) == {q} \cup {n \in issued : User[n] = User[q]}

\* provisionVirtualAccount throws, whether or not the number now exists; nothing is
\* made up in its place.
IssueFails(q) ==
    /\ "provider" \in MayFail
    /\ Moves(q, "issuing", "failed", None)
    /\ \/ UNCHANGED issued
       \/ \E n \in Issuable(q) : issued' = issued \cup {n}
    /\ UNCHANGED <<verified, memory, rows, reading, shown, promised, deposit>>

\* The rest of the handler up to the upsert: KYC, then the number into memory.
Issued(q) ==
    /\ \E n \in Issuable(q) :
          /\ Moves(q, "issuing", "writing", n)
          /\ issued' = issued \cup {n}
          /\ memory' = [memory EXCEPT ![User[q]] = @ \cup {n}]
    /\ verified' = [verified EXCEPT ![User[q]] = IF @ = "no" THEN "memory" ELSE @]
    /\ UNCHANGED <<rows, reading, shown, promised, deposit>>

\* updateUserKYC's upsert, which nobody awaits.
VerifiedRow(u) ==
    /\ verified[u] = "memory"
    /\ verified' = [verified EXCEPT ![u] = "row"]
    /\ UNCHANGED <<issued, request, memory, rows, reading, shown, promised, deposit>>

\* (mutant) a number that the rows' copy in memory has is not written again
Written_Once(q) ==
    LET n == request[q].number IN
    /\ Moves(q, "writing", "done", n)
    /\ rows' = IF n = q THEN rows \cup {<<n, User[q]>>} ELSE rows
    /\ shown' = shown \cup {n}
    /\ promised' = promised \cup {n}
    /\ UNCHANGED <<issued, verified, memory, reading, deposit>>

\* The upsert of the row, and the answer.
Written(q) ==
    LET n == request[q].number IN
    /\ Moves(q, "writing", "done", n)
    /\ rows' = rows \cup {<<n, User[q]>>}
    /\ shown' = shown \cup {n}
    /\ promised' = promised \cup {n}
    /\ UNCHANGED <<issued, verified, memory, reading, deposit>>

\* The upsert fails: verifyID logs it and answers with the account all the same,
\* retryVirtualAccount answers with the error.
WriteFails(q) ==
    LET n == request[q].number IN
    /\ "dbError" \in MayFail
    /\ IF Flow[q] = "verify" THEN Moves(q, "writing", "done", n) /\ shown' = shown \cup {n}
                             ELSE Moves(q, "writing", "failed", n) /\ UNCHANGED shown
    /\ UNCHANGED <<issued, verified, memory, rows, reading, promised, deposit>>

-----------------------------------------------------------------------------
(* The list of a user's accounts.                                          *)

\* getUserVirtualAccountsAsync: memory, ...
List(u) ==
    /\ memory[u] # {}
    /\ shown' = shown \cup memory[u]
    /\ UNCHANGED <<issued, request, verified, memory, rows, reading, promised, deposit>>

\* ... or the rows, ...
ListReads(u) ==
    /\ memory[u] = {} /\ reading[u] = {None}
    /\ reading' = [reading EXCEPT ![u] = RowsOf(u)]
    /\ UNCHANGED <<issued, request, verified, memory, rows, shown, promised, deposit>>

\* ... which replace what memory has by now.
ListKeeps(u) ==
    /\ reading[u] # {None}
    /\ memory' = [memory EXCEPT ![u] = IF reading[u] = {} THEN @ ELSE reading[u]]
    /\ shown' = shown \cup memory'[u]
    /\ reading' = [reading EXCEPT ![u] = {None}]
    /\ UNCHANGED <<issued, request, verified, rows, promised, deposit>>

\* The copy at the start of the process fills memory as a list request does.
Restart ==
    /\ "restart" \in MayFail
    /\ memory' = [u \in Owners |-> {}]
    /\ reading' = [u \in Owners |-> {None}]
    /\ request' = [q \in Requests |-> IF request[q].at \in {"issuing", "writing"}
                                      THEN [request[q] EXCEPT !.at = "failed"] ELSE request[q]]
    /\ verified' = [u \in Owners |-> IF verified[u] = "memory" THEN "no" ELSE verified[u]]
    /\ UNCHANGED <<issued, rows, shown, promised, deposit>>

-----------------------------------------------------------------------------
(* Deposits.                                                               *)

Pay(d, n) ==
    /\ deposit[d].at = "none" /\ n \in shown
    /\ deposit' = [deposit EXCEPT ![d] = [at |-> "paid", number |-> n, to |-> Nobody,
                                          promised |-> n \in promised]]
    /\ UNCHANGED <<issued, request, verified, memory, rows, reading, shown, promised>>

Resolve(d, at, u) ==
    /\ deposit[d].at = "paid"
    /\ deposit' = [deposit EXCEPT ![d].at = at, ![d].to = u]
    /\ UNCHANGED <<issued, request, verified, memory, rows, reading, shown, promised>>

\* Squad may name the customer, KUDI_VA_ and the user's id.
NamedCustomer(d) == Resolve(d, "credited", User[deposit[d].number])

\* The row of the number, the first of them if there were several.
ByRow(d) == \E row \in rows : row[1] = deposit[d].number /\ Resolve(d, "credited", row[2])

\* No row: the transfer is journaled for user_acc_ and the number, and nobody is
\* credited.  The webhook's key is consumed.
Parked(d) ==
    /\ \A row \in rows : row[1] # deposit[d].number
    /\ Resolve(d, "parked", Nobody)

\* The lookup throws after the key was consumed.
LookupFails(d) == "dbError" \in MayFail /\ Resolve(d, "lost", Nobody)

VirtualAccountsNext ==
    \/ \E q \in Requests : Start(q) \/ IssueFails(q) \/ Issued(q) \/ Written(q) \/ WriteFails(q)
    \/ \E u \in Owners : VerifiedRow(u) \/ List(u) \/ ListReads(u) \/ ListKeeps(u)
    \/ Restart
    \/ \E d \in Deposits : \/ \E n \in Numbers : Pay(d, n)
                           \/ NamedCustomer(d) \/ ByRow(d) \/ Parked(d) \/ LookupFails(d)

-----------------------------------------------------------------------------

\* A transfer to a number that an answer without a failure gave the user is not
\* parked: whatever writes failed before, lists were read and restarts came, its
\* row is there.  And what is credited is credited to the user of the number.
PromisedIsCredited ==
    \A d \in Deposits :
        /\ deposit[d].at = "parked" => ~deposit[d].promised
        /\ deposit[d].at = "credited" => deposit[d].to = User[deposit[d].number]

\* No user is shown the number of another.
ListsAreOwn ==
    /\ \A u \in Owners : \A n \in memory[u] \cup RowsOf(u) : User[n] = u
    /\ \A n \in promised : <<n, User[n]>> \in rows

AccountsReachTheirUser == PromisedIsCredited /\ ListsAreOwn
=============================================================================
