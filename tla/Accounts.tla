------------------------------- MODULE Accounts -------------------------------
(***************************************************************************)
(* How a person becomes a user: the logins of auth.controller.ts           *)
(* (verifyPrivyOTP, authenticatePrivy), the map of users that              *)
(* LedgerService keeps in memory, the database behind it, and the copy     *)
(* from the database that starts with the process and is not awaited.      *)
(*                                                                         *)
(* Every request draws an id (usr_ and the time in milliseconds: two       *)
(* requests that draw one in the same millisecond are not modelled) and,   *)
(* if its user has none, a pair of deposit wallets from Privy.  The id and *)
(* the wallets a request would make are both called by its name.           *)
(***************************************************************************)
EXTENDS FiniteSets

CONSTANTS
    Logins,         \* the login requests
    Who,            \* Who[q]: the person logging in, by e-mail or Privy id
    MayFail,        \* which of {"restart", "dbError"} may happen
    Nobody          \* "no such user"

People == {Who[q] : q \in Logins}

\* "Nobody" is no user, and no set of wallets either.
AccountsConstants == Nobody \notin Logins /\ \A ws \in SUBSET Logins : ws # Nobody

VARIABLES
    users,          \* users[i]: the wallets of user i in memory, Nobody if unknown
    userRow,        \* userRow[p]: the id in the "User" row of p; the e-mail is unique
    walletRow,      \* the "Wallet" rows, <<id, wallets>>
    login,          \* login[q]: a request in flight or answered
    writes,         \* upserts not awaited: <<"user", i>>, <<"wallet", i, w>>
    sync,           \* syncFromDatabase: the rows it read and has not copied yet
    doubtful        \* (history) ids and wallets a fault has cut off from their rows

accountVars == <<users, userRow, walletRow, login, writes, sync, doubtful>>

Points == {"new", "query", "resume", "generating", "answered", "gone"}

NewLogin == [at |-> "new", id |-> Nobody, row |-> Nobody, wallets |-> {}, told |-> {}]

AccountsTypeOK ==
    /\ users \in [Logins -> (SUBSET Logins) \cup {Nobody}]
    /\ userRow \in [People -> Logins \cup {Nobody}]
    /\ walletRow \subseteq Logins \X Logins
    /\ login \in [Logins -> [at : Points, id : Logins \cup {Nobody}, row : Logins \cup {Nobody},
                             wallets : SUBSET Logins, told : SUBSET Logins]]
    /\ writes \subseteq ({"user"} \X Logins) \cup ({"wallet"} \X Logins \X Logins)
    /\ sync \subseteq (Logins \X SUBSET Logins)
    /\ doubtful \subseteq Logins

AccountsInit ==
    /\ users = [i \in Logins |-> Nobody]
    /\ userRow = [p \in People |-> Nobody]
    /\ walletRow = {}
    /\ login = [q \in Logins |-> NewLogin]
    /\ writes = {}
    /\ sync = {}
    /\ doubtful = {}

Known(i) == users[i] # Nobody

\* findUserByPrivyOrEmail: the ids under which a person is in memory.
InMemory(p) == {i \in Logins : Known(i) /\ Who[i] = p}

WalletsOf(i) == {w \in Logins : <<i, w>> \in walletRow}

Step(q, from, rec) == login[q].at = from /\ login' = [login EXCEPT ![q] = rec]

-----------------------------------------------------------------------------
(* A login.                                                                *)

\* The rest of the handler up to its next await: the wallets w that user i has are
\* reused, or Privy is asked for new ones.
Enter(q, from, i, w) ==
    Step(q, from, IF w # {} THEN [login[q] EXCEPT !.at = "answered", !.id = i, !.told = w]
                            ELSE [login[q] EXCEPT !.at = "generating", !.id = i])

Begin(q) ==
    /\ \/ \E i \in InMemory(Who[q]) : Enter(q, "new", i, users[i])
       \/ InMemory(Who[q]) = {} /\ Step(q, "new", [login[q] EXCEPT !.at = "query"])
    /\ UNCHANGED <<users, userRow, walletRow, writes, sync, doubtful>>

\* (mutant) as before the fallback was added: only the memory is asked
Query_MemoryOnly(q) ==
    /\ Step(q, "query", [login[q] EXCEPT !.at = "resume"])
    /\ UNCHANGED <<users, userRow, walletRow, writes, sync, doubtful>>

\* The fallback of findOrFetchUserByIdentifier reads the User row and its wallets.
\* An error is taken for "no such user".
Query(q) ==
    LET row == userRow[Who[q]] IN
    \/ /\ Step(q, "query", [login[q] EXCEPT !.at = "resume", !.row = row,
                            !.wallets = IF row = Nobody THEN {} ELSE WalletsOf(row)])
       /\ UNCHANGED <<users, userRow, walletRow, writes, sync, doubtful>>
    \/ /\ "dbError" \in MayFail
       /\ Step(q, "query", [login[q] EXCEPT !.at = "resume"])
       /\ doubtful' = doubtful \cup {q}
       /\ UNCHANGED <<users, userRow, walletRow, writes, sync>>

\* The answer is there: the user in the row replaces the one in memory, or
\* registerUser looks in memory again and then makes a user.  (The handlers read the
\* ledger balance before they ask for wallets; that changes nothing here.)
Resume(q) ==
    LET row == login[q].row IN
    /\ \/ /\ row # Nobody
          /\ Enter(q, "resume", row, login[q].wallets)
          /\ users' = [users EXCEPT ![row] = login[q].wallets]
          /\ UNCHANGED writes
       \/ /\ row = Nobody
          /\ \E i \in InMemory(Who[q]) :
                Enter(q, "resume", i, users[i]) /\ writes' = writes \cup {<<"user", i>>}
          /\ UNCHANGED users
       \/ /\ row = Nobody /\ InMemory(Who[q]) = {}
          /\ Enter(q, "resume", q, {})
          /\ users' = [users EXCEPT ![q] = {}]
          /\ writes' = writes \cup {<<"user", q>>}
    /\ UNCHANGED <<userRow, walletRow, sync, doubtful>>

\* (mutant) new wallets are kept in memory only
WalletWrites_None(i, w) == {}

\* syncWalletToDb of both wallets, not awaited.
WalletWrites(i, w) == {<<"wallet", i, w>>}

\* setUserWallets: whatever the memory holds by now is replaced.
WalletsMade(q) ==
    LET i == login[q].id IN
    /\ Step(q, "generating", [login[q] EXCEPT !.at = "answered", !.told = {q}])
    /\ users' = [users EXCEPT ![i] = {q}]
    /\ writes' = writes \cup WalletWrites(i, q)
    /\ UNCHANGED <<userRow, walletRow, sync, doubtful>>

PrivyFails(q) ==
    /\ Step(q, "generating", [login[q] EXCEPT !.at = "gone"])
    /\ UNCHANGED <<users, userRow, walletRow, writes, sync, doubtful>>

-----------------------------------------------------------------------------
(* The writes that nobody waits for.                                       *)

\* syncUserToDb: an upsert by id; another id under the same e-mail makes it fail,
\* which is logged and swallowed.
UserRowAfter(i) == IF userRow[Who[i]] = Nobody
                   THEN [userRow EXCEPT ![Who[i]] = i] ELSE userRow

WriteUser(i) ==
    /\ <<"user", i>> \in writes
    /\ userRow' = UserRowAfter(i)
    /\ writes' = writes \ {<<"user", i>>}
    /\ UNCHANGED <<users, walletRow, login, sync, doubtful>>

\* syncWalletToDb: the user's row first, then the wallets', which refer to it.
WriteWallet(i, w) ==
    /\ <<"wallet", i, w>> \in writes
    /\ userRow' = IF Known(i) THEN UserRowAfter(i) ELSE userRow
    /\ walletRow' = IF userRow'[Who[i]] = i THEN walletRow \cup {<<i, w>>} ELSE walletRow
    /\ writes' = writes \ {<<"wallet", i, w>>}
    /\ UNCHANGED <<users, login, sync, doubtful>>

WriteFails(x) ==
    /\ "dbError" \in MayFail
    /\ x \in writes
    /\ writes' = writes \ {x}
    /\ doubtful' = doubtful \cup {x[Cardinality(DOMAIN x)]}
    /\ UNCHANGED <<users, userRow, walletRow, login, sync>>

-----------------------------------------------------------------------------
(* The process.                                                            *)

\* syncFromDatabase copies what it read, one user after the other, over what the
\* memory has got in the meantime.
SyncUser ==
    \E x \in sync :
        /\ users' = [users EXCEPT ![x[1]] = x[2]]
        /\ sync' = sync \ {x}
        /\ UNCHANGED <<userRow, walletRow, login, writes, doubtful>>

\* A restart forgets the memory, the requests and the writes under way, and
\* reads the rows there are.
Restart ==
    /\ "restart" \in MayFail
    /\ users' = [i \in Logins |-> Nobody]
    /\ login' = [q \in Logins |-> IF login[q].at \in {"new", "answered"} THEN login[q]
                                  ELSE [login[q] EXCEPT !.at = "gone"]]
    /\ writes' = {}
    /\ doubtful' = doubtful \cup {x[Cardinality(DOMAIN x)] : x \in writes}
    /\ sync' = {<<userRow[p], WalletsOf(userRow[p])>> : p \in {o \in People : userRow[o] # Nobody}}
    /\ UNCHANGED <<userRow, walletRow>>

Write == \/ \E i \in Logins : WriteUser(i)
         \/ \E i, w \in Logins : WriteWallet(i, w)

AccountsNext ==
    \/ \E q \in Logins : \/ Begin(q) \/ Query(q) \/ Resume(q)
                         \/ WalletsMade(q) \/ PrivyFails(q)
    \/ Write
    \/ \E x \in writes : WriteFails(x)
    \/ SyncUser \/ Restart

AccountsSpec == AccountsInit /\ [][AccountsNext]_accountVars

-----------------------------------------------------------------------------
(* Properties.                                                             *)

\* Two logins of one person are answered with one id, however they overlap each
\* other, the copy from the database and a restart -- unless the id was made
\* without the database's answer, or its row was lost with the process.
OneIdPerPerson ==
    \A q, o \in Logins :
        /\ Who[q] = Who[o]
        /\ login[q].at = "answered" /\ login[o].at = "answered"
        /\ {login[q].id, login[o].id} \cap doubtful = {}
        => login[q].id = login[o].id

\* A deposit wallet shown to a user is among the rows the deposit poller reads, or
\* its write is still to come, although nobody waits for the write and memory may
\* have moved on to other wallets -- unless a fault cut the write off.
ShownWalletsAreWatched ==
    \A q \in Logins :
        LET i == login[q].id IN
        login[q].at = "answered" /\ i \notin doubtful =>
            \A w \in login[q].told :
                <<i, w>> \in walletRow \/ <<"wallet", i, w>> \in writes \/ w \in doubtful
=============================================================================
