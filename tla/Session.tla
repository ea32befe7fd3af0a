------------------------------- MODULE Session -------------------------------
(***************************************************************************)
(* The session of a wallet app: what auth.store.ts keeps in the secure     *)
(* store and in memory, and the tokens the SDK holds.  Signing in, signing *)
(* out, the SDK's refresh of an access token, the saving of a profile and  *)
(* the setting of a PIN each await several times, and the app may be       *)
(* killed between any two awaits and be started again.  The secure store   *)
(* may refuse each read, write and deletion: the error is swallowed and    *)
(* the flow goes on.                                                       *)
(*                                                                         *)
(* A session is called by the sign-in that began it: a token, a user and   *)
(* the wallets of session l are all l, also after a refresh.               *)
(***************************************************************************)
EXTENDS Naturals, Sequences

CONSTANTS
    SignIns,        \* the sign-ins, each of a user of its own
    None,
    MaxSetbacks,    \* bound of the model: how often the app is killed or the store
                    \* refuses
    MaxSaves,       \* bound of the model: how many profiles and PINs are saved
    StoreFaults     \* which of {"read", "write", "delete"} the store may refuse

SessionConstants == None \notin SignIns /\ MaxSetbacks \in Nat /\ MaxSaves \in Nat

Keys == {"access", "refresh", "user", "wallets"}

VARIABLES
    store,          \* the secure store: kudi_access_token and so on
    sdk,            \* authToken and refreshTokenValue of the SDK
    app,            \* user, wallets, accessToken and isAuthenticated of the zustand
                    \* store
    using,          \* whether the app is starting or in use
    login,          \* a sign-in under way: which, and the writes it has left
    logout,         \* how many deletions each sign-out under way has made
    refreshing,     \* the refresh token of the refresh in flight
    pin,            \* setPin: the user it was called for, and where it is
    writes,         \* writes that are not awaited: <<key, session>>
    used,           \* the sign-ins there have been
    setbacks, saves,   \* (bounds)
    astray          \* (history) the keys whose value the session in progress, or
                    \* its absence, did not put there: written when its session had
                    \* ended or was ending; left by a write or a deletion that the
                    \* store refused, or by a start that found no session;
                    \* "memory" if SDK and memory were filled from such keys, or
                    \* after the session had ended

sessionVars == <<store, sdk, app, using, login, logout, refreshing, pin, writes, used,
                 setbacks, saves, astray>>

Held == SignIns \cup {None}

\* (mutant) the user stays in the store
Deleted_KeepsUser == <<"access", "refresh", "wallets">>

\* logout deletes in this order, each with an await.
Deleted == <<"access", "refresh", "user", "wallets">>

\* verifyPrivyOTP and loginWithPrivy write in this order.
Written == <<"access", "refresh", "user", "wallets">>

NoLogin == [who |-> None, step |-> 0]

SessionTypeOK ==
    /\ store \in [Keys -> Held]
    /\ sdk \in [access : Held, refresh : Held]
    /\ app \in [user : Held, wallets : Held, access : Held, auth : BOOLEAN]
    /\ using \in {"starting", "running"}
    /\ login \in [who : Held, step : 0..Len(Written)]
    /\ logout \in [{"asked", "expired"} -> 0..(Len(Deleted) + 1)]
    /\ refreshing \in Held
    /\ pin \in [who : Held, at : {"idle", "asked", "stored"}]
    /\ writes \subseteq {"access", "user"} \X SignIns
    /\ used \subseteq SignIns
    /\ setbacks \in 0..MaxSetbacks /\ saves \in 0..MaxSaves
    /\ astray \subseteq Keys \cup {"memory"}

Nothing == [access |-> None, refresh |-> None]
Nobody == [user |-> None, wallets |-> None, access |-> None, auth |-> FALSE]
NoPin == [who |-> None, at |-> "idle"]

SessionInit ==
    /\ store = [k \in Keys |-> None]
    /\ sdk = Nothing
    /\ app = Nobody
    /\ using = "starting"
    /\ login = NoLogin
    /\ logout = [o \in {"asked", "expired"} |-> 0]
    /\ refreshing = None
    /\ pin = NoPin
    /\ writes = {}
    /\ used = {}
    /\ setbacks = 0 /\ saves = 0
    /\ astray = {}

-----------------------------------------------------------------------------
(* The secure store.                                                       *)

\* A sign-out is under way.
Ending == \E o \in DOMAIN logout : logout[o] # 0

\* The session a token or a user belongs to is over, or ending, or memory shows the
\* user of a session that is.
Over(l) == ~app.auth \/ app.user # l \/ Ending \/ "memory" \in astray

\* The store refuses: the error is swallowed and what it holds stays.
Refuses(fault) ==
    /\ fault \in StoreFaults /\ setbacks < MaxSetbacks
    /\ setbacks' = setbacks + 1
    /\ UNCHANGED store

\* setSecureItem: a sign-in writes what is its own, unless a sign-out runs into it.
Puts(k, l) ==
    \/ /\ store' = [store EXCEPT ![k] = l]
       /\ astray' = IF Ending THEN astray \cup {k} ELSE astray \ {k}
       /\ UNCHANGED setbacks
    \/ /\ Refuses("write") /\ store[k] # l
       /\ astray' = astray \cup {k}

\* The same for a session that may have ended since.
PutsLater(k, l) ==
    \/ /\ store' = [store EXCEPT ![k] = l]
       /\ astray' = IF Over(l) THEN astray \cup {k} ELSE astray
       /\ UNCHANGED setbacks
    \/ /\ Refuses("write") /\ store[k] # l
       /\ UNCHANGED astray

\* deleteSecureItem.
Deletes(k) ==
    \/ /\ store' = [store EXCEPT ![k] = None]
       /\ astray' = astray \ {k}
       /\ UNCHANGED setbacks
    \/ /\ Refuses("delete") /\ store[k] # None
       /\ astray' = astray \cup {k}

\* What is set in memory for a session that may have ended since.
RemembersFor(l) == astray' = IF Over(l) THEN astray \cup {"memory"} ELSE astray

-----------------------------------------------------------------------------
(* Starting the app.                                                       *)

\* hydrate: a session is restored if a token and a user are found; the tokens are
\* taken as they are found.  A key that cannot be read is not found.
Hydrate ==
    /\ using = "starting"
    /\ using' = "running"
    /\ \E unread \in SUBSET Keys :
         LET found == [k \in Keys |-> IF k \in unread THEN None ELSE store[k]] IN
         /\ IF unread = {} THEN UNCHANGED <<store, setbacks>> ELSE Refuses("read")
         /\ IF found["access"] # None /\ found["user"] # None
            THEN /\ sdk' = [access |-> found["access"], refresh |-> found["refresh"]]
                 /\ app' = [user |-> found["user"], wallets |-> found["wallets"],
                            access |-> found["access"], auth |-> TRUE]
                 /\ astray' = IF Keys \cap astray = {} THEN astray ELSE astray \cup {"memory"}
            ELSE /\ astray' = astray \cup {k \in Keys : store[k] # None}
                 /\ UNCHANGED <<sdk, app>>
    /\ UNCHANGED <<login, logout, refreshing, pin, writes, used, saves>>

\* The app is killed: what is in memory and under way is gone.
Kill ==
    /\ using = "running" /\ setbacks < MaxSetbacks
    /\ setbacks' = setbacks + 1
    /\ using' = "starting"
    /\ sdk' = Nothing /\ app' = Nobody
    /\ login' = NoLogin
    /\ logout' = [o \in DOMAIN logout |-> 0]
    /\ refreshing' = None
    /\ pin' = NoPin
    /\ writes' = {}
    /\ astray' = astray \ {"memory"}
    /\ UNCHANGED <<store, used, saves>>

-----------------------------------------------------------------------------
(* Signing in: the server has answered; four writes, then SDK and memory.  *)
(* The sign-outs under way are over by the time a code has been entered.   *)

SignIn(l) ==
    /\ using = "running" /\ ~app.auth /\ login = NoLogin
    /\ ~Ending
    /\ l \notin used
    /\ used' = used \cup {l}
    /\ login' = [who |-> l, step |-> 0]
    /\ UNCHANGED <<store, sdk, app, using, logout, refreshing, pin, writes, setbacks, saves,
                   astray>>

SignInWrites ==
    /\ login.who # None /\ login.step < Len(Written)
    /\ Puts(Written[login.step + 1], login.who)
    /\ login' = [login EXCEPT !.step = @ + 1]
    /\ UNCHANGED <<sdk, app, using, logout, refreshing, pin, writes, used, saves>>

SignedIn ==
    /\ login.who # None /\ login.step = Len(Written)
    /\ sdk' = [access |-> login.who, refresh |-> login.who]
    /\ app' = [user |-> login.who, wallets |-> login.who, access |-> login.who, auth |-> TRUE]
    /\ login' = NoLogin
    /\ astray' = astray \ {"memory"}
    /\ UNCHANGED <<store, using, logout, refreshing, pin, writes, used, setbacks, saves>>

-----------------------------------------------------------------------------
(* Signing out, asked for by the user or because a refresh was rejected.   *)

SignOut ==
    /\ using = "running" /\ app.auth /\ logout["asked"] = 0
    /\ logout' = [logout EXCEPT !["asked"] = 1]
    /\ UNCHANGED <<store, sdk, app, using, login, refreshing, pin, writes, used, setbacks, saves,
                   astray>>

\* The deletions come one by one; then the tokens and the memory are cleared.
SignOutDeletes(o) ==
    /\ logout[o] \in 1..Len(Deleted)
    /\ Deletes(Deleted[logout[o]])
    /\ logout' = [logout EXCEPT ![o] = @ + 1]
    /\ UNCHANGED <<sdk, app, using, login, refreshing, pin, writes, used, saves>>

SignedOut(o) ==
    /\ logout[o] = Len(Deleted) + 1
    /\ logout' = [logout EXCEPT ![o] = 0]
    /\ sdk' = Nothing
    /\ app' = Nobody
    /\ astray' = astray \ {"memory"}
    /\ UNCHANGED <<store, using, login, refreshing, pin, writes, used, setbacks, saves>>

-----------------------------------------------------------------------------
(* The SDK refreshes: one refresh at a time, started by a 401.             *)

RefreshStarts ==
    /\ using = "running" /\ sdk.refresh # None /\ refreshing = None
    /\ refreshing' = sdk.refresh
    /\ UNCHANGED <<store, sdk, app, using, login, logout, pin, writes, used, setbacks, saves,
                   astray>>

\* onTokenRefreshed, whoever is signed in by now.
Refreshed ==
    /\ refreshing # None
    /\ sdk' = [sdk EXCEPT !.access = refreshing]
    /\ app' = [app EXCEPT !.access = refreshing]
    /\ writes' = writes \cup {<<"access", refreshing>>}
    /\ RemembersFor(refreshing)
    /\ refreshing' = None
    /\ UNCHANGED <<store, using, login, logout, pin, used, setbacks, saves>>

\* handleAuthExpired, and the sign-out it starts -- of whoever is signed in, or
\* signing in, by now.
RefreshRejected ==
    /\ refreshing # None
    /\ sdk' = Nothing
    /\ logout' = IF logout["expired"] = 0 THEN [logout EXCEPT !["expired"] = 1] ELSE logout
    /\ refreshing' = None
    /\ UNCHANGED <<store, app, using, login, pin, writes, used, setbacks, saves, astray>>

RefreshFails ==
    /\ refreshing # None
    /\ refreshing' = None
    /\ UNCHANGED <<store, sdk, app, using, login, logout, pin, writes, used, setbacks, saves,
                   astray>>

-----------------------------------------------------------------------------
(* Writes under way when something else happens: the refreshed token, and  *)
(* the user of updateProfile and of the check of hasPin after a start.     *)

SaveProfile ==
    /\ using = "running" /\ app.auth /\ saves < MaxSaves
    /\ saves' = saves + 1
    /\ writes' = writes \cup {<<"user", app.user>>}
    /\ UNCHANGED <<store, sdk, app, using, login, logout, refreshing, pin, used, setbacks, astray>>

WriteLands(w) ==
    /\ w \in writes
    /\ writes' = writes \ {w}
    /\ PutsLater(w[1], w[2])
    /\ UNCHANGED <<sdk, app, using, login, logout, refreshing, pin, used, saves>>

-----------------------------------------------------------------------------
(* setPin keeps the user it was called for over its awaits: the server's   *)
(* answer, then the write of the user, then memory.                        *)

SetPin ==
    /\ using = "running" /\ app.auth /\ pin = NoPin /\ saves < MaxSaves
    /\ saves' = saves + 1
    /\ pin' = [who |-> app.user, at |-> "asked"]
    /\ UNCHANGED <<store, sdk, app, using, login, logout, refreshing, writes, used, setbacks,
                   astray>>

\* The server did not take the PIN, or could not be asked.
PinRefused ==
    /\ pin.at = "asked"
    /\ pin' = NoPin
    /\ UNCHANGED <<store, sdk, app, using, login, logout, refreshing, writes, used, setbacks, saves,
                   astray>>

PinWritesUser ==
    /\ pin.at = "asked"
    /\ pin' = [pin EXCEPT !.at = "stored"]
    /\ PutsLater("user", pin.who)
    /\ UNCHANGED <<sdk, app, using, login, logout, refreshing, writes, used, saves>>

PinSet ==
    /\ pin.at = "stored"
    /\ pin' = NoPin
    /\ app' = [app EXCEPT !.user = pin.who]
    /\ RemembersFor(pin.who)
    /\ UNCHANGED <<store, sdk, using, login, logout, refreshing, writes, used, setbacks, saves>>

SessionNext ==
    \/ Hydrate \/ Kill
    \/ (\E l \in SignIns : SignIn(l)) \/ SignInWrites \/ SignedIn
    \/ SignOut \/ \E o \in DOMAIN logout : SignOutDeletes(o) \/ SignedOut(o)
    \/ RefreshStarts \/ Refreshed \/ RefreshRejected \/ RefreshFails
    \/ SaveProfile \/ (\E w \in writes : WriteLands(w))
    \/ SetPin \/ PinRefused \/ PinWritesUser \/ PinSet

SessionSpec == SessionInit /\ [][SessionNext]_sessionVars

-----------------------------------------------------------------------------

Quiet == /\ using = "running" /\ login = NoLogin /\ writes = {} /\ refreshing = None
         /\ pin = NoPin /\ ~Ending

\* Signed out stays signed out: when nothing is under way, the next start of the
\* app finds no session -- although a refreshed token or a user may land in the
\* store after the sign-out deleted it, or the store refuse a deletion -- unless
\* both the token and the user went astray.  Signed in, the SDK speaks for the user
\* the screen shows, and the addresses shown for deposits are that user's, also
\* after the app was killed between any two writes of a sign-in or any two deletions
\* of a sign-out, unless it was started from a key that had gone astray, or memory
\* was set for a session that had ended.
SessionIsWhole ==
    Quiet =>
        /\ ~app.auth /\ ~({"access", "user"} \subseteq astray)
               => store["access"] = None \/ store["user"] = None
        /\ app.auth /\ "memory" \notin astray
               => /\ sdk.access = app.user /\ sdk.refresh \in {app.user, None}
                  /\ app.wallets \in {app.user, None}
=============================================================================
