---------------------------- MODULE LedgerProofs ----------------------------
(***************************************************************************)
(* What the runs of Ledger check on small instances, for every number of   *)
(* users, references and callers and for every amount and limit.           *)
(***************************************************************************)
EXTENDS Ledger, LedgerStoreProofs

\* What a caller inside creditBalanceAtomic carries.
LEMMA BusyCall ==
    ASSUME TypeOK, NEW p \in Callers, Busy(p)
    PROVE  /\ call[p] \in Calls
           /\ call[p].kind \in CreditKinds
           /\ call[p].kind \in Kinds
           /\ call[p].ref \in Refs
           /\ call[p].base \in Int
           /\ Owner(p) \in Users
           /\ Amount[call[p].ref] \in Nat
  <1>1. call[p] \in Calls
    BY DEF TypeOK, Busy
  <1>2. /\ call[p].kind \in CreditKinds
        /\ call[p].ref \in Refs
        /\ call[p].base \in Int
    BY <1>1 DEF Calls
  <1>3. call[p].kind \in Kinds
    BY <1>2 DEF CreditKinds, Kinds
  <1> QED
    BY <1>1, <1>2, <1>3, PartyIsUser, StoreAssumption DEF Owner

\* Leaving creditBalanceAtomic keeps the type of the calls.
LEMMA ReturnTypes ==
    ASSUME call \in [Callers -> Calls \cup {NoCall}], NEW p \in Callers, Return(p)
    PROVE  call' \in [Callers -> Calls \cup {NoCall}]
  BY DEF Return

-----------------------------------------------------------------------------
(* Types.                                                                  *)

\* The tables and the calls keep their types: no transaction writes a value
\* the columns cannot hold.
THEOREM TypeCorrect == Spec => []TypeOK
<1>1. Init => TypeOK
  BY StoreAssumption DEF Init, StoreInit, TypeOK, StoreTypeOK
<1>2. TypeOK /\ [Next]_vars => TypeOK'
  <2> SUFFICES ASSUME TypeOK, [Next]_vars
               PROVE  TypeOK'
    OBVIOUS
  <2> USE DEF TypeOK
  <2>1. ASSUME NEW r \in Refs, Debit(r)
        PROVE  TypeOK'
    BY <2>1, DebitTypes DEF Debit
  <2>2. ASSUME NEW p \in Callers, NEW kind \in CreditKinds, NEW r \in Refs,
               BeginCredit(p, kind, r)
        PROVE  TypeOK'
    <3>1. [stage |-> "checked", kind |-> kind, ref |-> r,
           seen |-> Booked(kind, r), base |-> 0] \in Calls
      BY DEF Calls, Booked
    <3> QED
      BY <2>2, <3>1 DEF BeginCredit, StoreTypeOK, storeVars
  <2>3. ASSUME NEW p \in Callers, FinishUnchanged(p) \/ Abort(p)
        PROVE  TypeOK'
    BY <2>3, ReturnTypes DEF FinishUnchanged, Abort, StoreTypeOK, storeVars
  <2>4. ASSUME NEW p \in Callers, FinishLocked(p)
        PROVE  TypeOK'
    <3>1. CreditTx(call[p].kind, call[p].ref) /\ Return(p)
      BY <2>4 DEF FinishLocked
    <3>2. call[p].kind \in Kinds /\ call[p].ref \in Refs
      BY <2>4, BusyCall DEF FinishLocked
    <3> QED
      BY <3>1, <3>2, CreditTypes, ReturnTypes
  <2>5. ASSUME NEW p \in Callers, ReadUnlocked(p)
        PROVE  TypeOK'
    <3>1. call[p] \in Calls /\ latest[Owner(p)] \in Int
      BY <2>5, BusyCall DEF ReadUnlocked, StoreTypeOK
    <3>2. [[call[p] EXCEPT !.stage = "unlocked"] EXCEPT !.base = latest[Owner(p)]] \in Calls
      BY <3>1 DEF Calls
    <3> QED
      BY <2>5, <3>2 DEF ReadUnlocked, StoreTypeOK, storeVars
  <2>6. ASSUME NEW p \in Callers, FinishUnlocked(p)
        PROVE  TypeOK'
    <3>1. /\ call[p].kind \in Kinds /\ call[p].ref \in Refs
          /\ call[p].base + Amount[call[p].ref] \in Int
      BY <2>6, BusyCall DEF FinishUnlocked
    <3> QED
      BY <2>6, <3>1, BookTypes, ReturnTypes
      DEF FinishUnlocked, limitVars, StoreTypeOK
  <2>7. ASSUME NEW r \in Refs, Release(r)
        PROVE  TypeOK'
    BY <2>7 DEF Release, ReleaseSpendLimit, StoreTypeOK
  <2>8. ASSUME NEW u \in Users, ReadBalance(u)
        PROVE  TypeOK'
    BY <2>8 DEF ReadBalance, EnsureAccount, StoreTypeOK
  <2>9. ASSUME Midnight
        PROVE  TypeOK'
    BY <2>9 DEF Midnight, NewDay, StoreTypeOK
  <2>10. CASE UNCHANGED vars
    BY <2>10 DEF vars, StoreTypeOK
  <2> QED
    BY <2>1, <2>2, <2>3, <2>4, <2>5, <2>6, <2>7, <2>8, <2>9, <2>10 DEF Next
<1> QED
  BY <1>1, <1>2, PTL DEF Spec

-----------------------------------------------------------------------------
(* No balance goes below zero.  NonNegative alone is not inductive: a row  *)
(* that is missing is seeded from the newest entry, and a credit that      *)
(* could not lock writes the base it read earlier plus its amount.         *)

NonNegativeInv ==
    /\ TypeOK
    /\ NonNegative
    /\ \A u \in Users : latest[u] >= 0
    /\ \A p \in Callers : Busy(p) => call[p].base >= 0

\* A transaction starts from a balance that is not negative.
LEMMA AvailableNonNegative ==
    ASSUME NonNegativeInv, NEW u \in Users
    PROVE  Available(u) \in Int /\ Available(u) >= 0
  BY DEF NonNegativeInv, TypeOK, StoreTypeOK, NonNegative, Available, HasAccount

\* A booking that writes a balance that is not negative keeps the tables so.
LEMMA BookNonNegative ==
    ASSUME StoreTypeOK, NonNegative, \A u \in Users : latest[u] >= 0,
           NEW kind \in Kinds, NEW r \in Refs, NEW balance \in Int, balance >= 0,
           Book(kind, r, balance)
    PROVE  NonNegative' /\ \A u \in Users : latest'[u] >= 0
  BY PartyIsUser DEF StoreTypeOK, NonNegative, HasAccount, Book

\* A caller that returned carries no base, the others keep theirs.
LEMMA ReturnKeepsBases ==
    ASSUME TypeOK, NEW p \in Callers, Return(p),
           \A q \in Callers : Busy(q) => call[q].base >= 0
    PROVE  \A q \in Callers : Busy(q)' => call'[q].base >= 0
  BY DEF TypeOK, Return, Busy

\* Every balance stays at zero or above, whatever debits, credits, reversals
\* and aborted transactions overlap, on every key and without an account row.
THEOREM BalancesNonNegative == Spec => []NonNegative
<1>1. Init => NonNegativeInv
  <2> SUFFICES ASSUME Init PROVE NonNegativeInv
    OBVIOUS
  <2>1. TypeOK
    BY StoreAssumption DEF Init, StoreInit, TypeOK, StoreTypeOK
  <2> QED
    BY <2>1, StoreAssumption, LedgerAssumption
    DEF Init, StoreInit, NonNegativeInv, NonNegative, HasAccount, Busy
<1>2. NonNegativeInv /\ TypeOK' /\ [Next]_vars => NonNegativeInv'
  <2> SUFFICES ASSUME NonNegativeInv, TypeOK', [Next]_vars
               PROVE  NonNegativeInv'
    OBVIOUS
  <2>t. TypeOK /\ StoreTypeOK
    BY DEF NonNegativeInv, TypeOK
  <2> DEFINE Tables == NonNegative /\ \A u \in Users : latest[u] >= 0
             Bases == \A q \in Callers : Busy(q) => call[q].base >= 0
  <2>i. Tables /\ Bases
    BY DEF NonNegativeInv
  <2> SUFFICES Tables' /\ Bases'
    BY DEF NonNegativeInv
  <2>1. ASSUME NEW r \in Refs, Debit(r)
        PROVE  Tables' /\ Bases'
    <3>1. PICK limited \in BOOLEAN : DebitTx(r, limited)
      BY <2>1 DEF Debit
    <3>2. /\ Payer[r] \in Users /\ Amount[r] \in Nat
          /\ "debit" \in Kinds
      BY StoreAssumption DEF Kinds
    <3>3. /\ Available(Payer[r]) - Amount[r] \in Int
          /\ Available(Payer[r]) - Amount[r] >= 0
      BY <3>1, <3>2, AvailableNonNegative DEF DebitTx, CanDebit
    <3>4. Tables'
      BY <3>1, <3>2, <3>3, <2>t, <2>i, BookNonNegative DEF DebitTx
    <3>5. Bases'
      BY <2>1, <2>i DEF Debit, Busy
    <3> QED
      BY <3>4, <3>5
  <2>2. ASSUME NEW p \in Callers, NEW kind \in CreditKinds, NEW r \in Refs,
               BeginCredit(p, kind, r)
        PROVE  Tables' /\ Bases'
    <3>1. Tables'
      BY <2>2, <2>i DEF BeginCredit, storeVars, NonNegative, HasAccount
    <3>2. Bases'
      BY <2>2, <2>i, <2>t DEF BeginCredit, Busy, TypeOK
    <3> QED
      BY <3>1, <3>2
  <2>3. ASSUME NEW p \in Callers, FinishUnchanged(p) \/ Abort(p)
        PROVE  Tables' /\ Bases'
    <3>1. Tables'
      BY <2>3, <2>i DEF FinishUnchanged, Abort, storeVars, NonNegative, HasAccount
    <3>2. Bases'
      BY <2>3, <2>i, <2>t, ReturnKeepsBases DEF FinishUnchanged, Abort
    <3> QED
      BY <3>1, <3>2
  <2>4. ASSUME NEW p \in Callers, FinishLocked(p)
        PROVE  Tables' /\ Bases'
    <3>1. Busy(p) /\ CreditTx(call[p].kind, call[p].ref) /\ Return(p)
      BY <2>4 DEF FinishLocked
    <3>2. /\ call[p].kind \in Kinds /\ call[p].ref \in Refs
          /\ Owner(p) \in Users /\ Amount[call[p].ref] \in Nat
      BY <3>1, <2>t, BusyCall
    <3>3. /\ Available(Owner(p)) + Amount[call[p].ref] \in Int
          /\ Available(Owner(p)) + Amount[call[p].ref] >= 0
      BY <3>2, AvailableNonNegative
    <3>4. Tables'
      BY <3>1, <3>2, <3>3, <2>t, <2>i, BookNonNegative DEF CreditTx, Owner
    <3>5. Bases'
      BY <3>1, <2>i, <2>t, ReturnKeepsBases
    <3> QED
      BY <3>4, <3>5
  <2>5. ASSUME NEW p \in Callers, ReadUnlocked(p)
        PROVE  Tables' /\ Bases'
    <3>1. Tables'
      BY <2>5, <2>i DEF ReadUnlocked, storeVars, NonNegative, HasAccount
    <3>2. call[p] \in Calls /\ Owner(p) \in Users
      BY <2>5, <2>t, BusyCall DEF ReadUnlocked
    <3>3. call'[p].base = latest[Owner(p)]
      BY <2>5, <2>t, <3>2 DEF ReadUnlocked, TypeOK, Calls
    <3>4. \A q \in Callers : q # p => call'[q] = call[q]
      BY <2>5, <2>t DEF ReadUnlocked, TypeOK
    <3>5. Bases'
      BY <3>2, <3>3, <3>4, <2>i DEF Busy
    <3> QED
      BY <3>1, <3>5
  <2>6. ASSUME NEW p \in Callers, FinishUnlocked(p)
        PROVE  Tables' /\ Bases'
    <3>1. /\ Busy(p) /\ Return(p)
          /\ Book(call[p].kind, call[p].ref, call[p].base + Amount[call[p].ref])
      BY <2>6 DEF FinishUnlocked
    <3>2. /\ call[p].kind \in Kinds /\ call[p].ref \in Refs
          /\ call[p].base \in Int /\ Amount[call[p].ref] \in Nat
      BY <3>1, <2>t, BusyCall
    <3>3. /\ call[p].base + Amount[call[p].ref] \in Int
          /\ call[p].base + Amount[call[p].ref] >= 0
      BY <3>1, <3>2, <2>i
    <3>4. Tables'
      BY <3>1, <3>2, <3>3, <2>t, <2>i, BookNonNegative
    <3>5. Bases'
      BY <3>1, <2>i, <2>t, ReturnKeepsBases
    <3> QED
      BY <3>4, <3>5
  <2>7. ASSUME NEW r \in Refs, Release(r)
        PROVE  Tables' /\ Bases'
    BY <2>7, <2>i DEF Release, ReleaseSpendLimit, NonNegative, HasAccount, Busy
  <2>8. ASSUME NEW u \in Users, ReadBalance(u)
        PROVE  Tables' /\ Bases'
    BY <2>8, <2>i, <2>t
    DEF ReadBalance, EnsureAccount, NonNegative, HasAccount, Busy, StoreTypeOK
  <2>9. ASSUME Midnight
        PROVE  Tables' /\ Bases'
    BY <2>9, <2>i DEF Midnight, NewDay, NonNegative, HasAccount, Busy
  <2>10. CASE UNCHANGED vars
    BY <2>10, <2>i DEF vars, NonNegative, HasAccount, Busy
  <2> QED
    BY <2>1, <2>2, <2>3, <2>4, <2>5, <2>6, <2>7, <2>8, <2>9, <2>10 DEF Next
<1>3. NonNegativeInv => NonNegative
  BY DEF NonNegativeInv
<1> QED
  BY <1>1, <1>2, <1>3, TypeCorrect, PTL DEF Spec

-----------------------------------------------------------------------------
(* Reversals.                                                              *)

\* A reversal is in the journal only if the debit it gives back is: the check
\* inside creditBalanceAtomic is enough, with no help from its callers, since
\* the journal only grows.
THEOREM ReversalsHaveDebits == Spec => []ReversalHasDebit
<1>1. Init => ReversalHasDebit
  BY DEF Init, StoreInit, ReversalHasDebit, Booked
<1>2. ReversalHasDebit /\ TypeOK /\ [Next]_vars => ReversalHasDebit'
  <2> SUFFICES ASSUME ReversalHasDebit, TypeOK, [Next]_vars
               PROVE  ReversalHasDebit'
    OBVIOUS
  <2>1. ASSUME NEW kind \in Kinds, NEW r \in Refs, NEW balance,
               Book(kind, r, balance), ReversalAllowed(kind, r)
        PROVE  ReversalHasDebit'
    BY <2>1 DEF Book, ReversalAllowed, ReversalHasDebit, Booked
  <2>2. ASSUME NEW r \in Refs, Debit(r)
        PROVE  ReversalHasDebit'
    <3>1. PICK limited \in BOOLEAN : DebitTx(r, limited)
      BY <2>2 DEF Debit
    <3>2. "debit" \in Kinds /\ ReversalAllowed("debit", r)
      BY DEF Kinds, ReversalAllowed
    <3> QED
      BY <3>1, <3>2, <2>1 DEF DebitTx
  <2>3. ASSUME NEW p \in Callers, FinishLocked(p) \/ FinishUnlocked(p)
        PROVE  ReversalHasDebit'
    <3>1. call[p].kind \in Kinds /\ call[p].ref \in Refs
      BY <2>3, BusyCall DEF FinishLocked, FinishUnlocked
    <3> QED
      BY <3>1, <2>1, <2>3 DEF FinishLocked, FinishUnlocked, CreditTx
  <2>4. ASSUME UNCHANGED journal
        PROVE  ReversalHasDebit'
    BY <2>4 DEF ReversalHasDebit, Booked
  <2> QED
    BY <2>2, <2>3, <2>4
    DEF Next, BeginCredit, FinishUnchanged, ReadUnlocked, Abort, Release,
        ReleaseSpendLimit, ReadBalance, EnsureAccount, Midnight, NewDay,
        storeVars, vars
<1> QED
  BY <1>1, <1>2, TypeCorrect, PTL DEF Spec

-----------------------------------------------------------------------------
(* The ledger implements AccountBook while no two callers credit the same  *)
(* key at once and every user has an account row: what the module's two    *)
(* races need is exactly what Serial denies.                               *)

Serial == ~SameKeyOverlap /\ HasRow = Users

SerialInv ==
    /\ TypeOK
    /\ \A u \in Users : HasAccount(u)
    /\ \A p \in Callers : Busy(p) =>
           /\ call[p].stage = "checked"
           /\ ~call[p].seen => ~Booked(call[p].kind, call[p].ref)
    /\ \A p, q \in Callers :
           Busy(p) /\ Busy(q) /\ p # q =>
               ~(call[p].kind = call[q].kind /\ call[p].ref = call[q].ref)

\* Under Serial the strengthened invariant holds initially and every step
\* keeps it.
LEMMA SerialInvariant == Serial => (Spec => []SerialInv)
<1> SUFFICES ASSUME Serial PROVE Spec => []SerialInv
  OBVIOUS
<1>1. Init => SerialInv
  <2> SUFFICES ASSUME Init PROVE SerialInv
    OBVIOUS
  <2>1. TypeOK
    BY StoreAssumption DEF Init, StoreInit, TypeOK, StoreTypeOK
  <2> QED
    BY <2>1, StoreAssumption DEF Init, StoreInit, SerialInv, Serial, HasAccount, Busy
<1>2. SerialInv /\ TypeOK' /\ [Next]_vars => SerialInv'
  <2> SUFFICES ASSUME SerialInv, TypeOK', [Next]_vars
               PROVE  SerialInv'
    OBVIOUS
  <2> DEFINE Rows == \A u \in Users : HasAccount(u)
             Fresh == \A p \in Callers : Busy(p) =>
                        /\ call[p].stage = "checked"
                        /\ ~call[p].seen => ~Booked(call[p].kind, call[p].ref)
             Apart == \A p, q \in Callers :
                        Busy(p) /\ Busy(q) /\ p # q =>
                          ~(call[p].kind = call[q].kind /\ call[p].ref = call[q].ref)
  <2>i. TypeOK /\ StoreTypeOK /\ Rows /\ Fresh /\ Apart
    BY DEF SerialInv, TypeOK
  <2> SUFFICES Rows' /\ Fresh' /\ Apart'
    BY DEF SerialInv
  <2>1. ASSUME NEW r \in Refs, Debit(r)
        PROVE  Rows' /\ Fresh' /\ Apart'
    <3>1. PICK limited \in BOOLEAN : DebitTx(r, limited)
      BY <2>1 DEF Debit
    <3>2. /\ "debit" \in Kinds
          /\ Available(Payer[r]) - Amount[r] \in Int
      BY StoreAssumption, AvailableInt, <2>i DEF Kinds
    <3>3. Rows'
      BY <3>1, <3>2, <2>i, BookKeepsRows DEF DebitTx
    <3>4. \A p \in Callers : Busy(p) => call[p].kind # "debit"
      BY <2>i, BusyCall DEF CreditKinds
    <3>5. Fresh' /\ Apart'
      BY <3>1, <3>4, <2>1, <2>i DEF Debit, DebitTx, Book, Booked, Busy
    <3> QED
      BY <3>3, <3>5
  <2>2. ASSUME NEW p \in Callers, NEW kind \in CreditKinds, NEW r \in Refs,
               BeginCredit(p, kind, r)
        PROVE  Rows' /\ Fresh' /\ Apart'
    <3>1. /\ ~BeingCredited(kind, r)
          /\ UNCHANGED storeVars
          /\ ~Busy(p)
      BY <2>2 DEF BeginCredit, Serial
    <3>2. /\ call'[p] = [stage |-> "checked", kind |-> kind, ref |-> r,
                         seen |-> Booked(kind, r), base |-> 0]
          /\ \A q \in Callers : q # p => call'[q] = call[q]
      BY <2>2, <2>i DEF BeginCredit, TypeOK
    <3>3. /\ call'[p].stage = "checked" /\ call'[p].seen = Booked(kind, r)
          /\ call'[p].kind = kind /\ call'[p].ref = r
      BY <3>2
    <3>4. Rows'
      BY <3>1, <2>i DEF storeVars, HasAccount
    <3>5. Fresh'
      BY <3>1, <3>2, <3>3, <2>i DEF storeVars, Booked, Busy
    <3>6. Apart'
      BY <3>1, <3>2, <3>3, <2>i DEF BeingCredited, Busy
    <3> QED
      BY <3>4, <3>5, <3>6
  <2>3. ASSUME NEW p \in Callers, FinishUnchanged(p) \/ Abort(p)
        PROVE  Rows' /\ Fresh' /\ Apart'
    <3>1. UNCHANGED storeVars /\ Return(p)
      BY <2>3 DEF FinishUnchanged, Abort
    <3>2. call'[p] = NoCall /\ \A q \in Callers : q # p => call'[q] = call[q]
      BY <3>1, <2>i DEF Return, TypeOK
    <3> QED
      BY <3>1, <3>2, <2>i DEF storeVars, HasAccount, Booked, Busy
  <2>4. ASSUME NEW p \in Callers, FinishLocked(p)
        PROVE  Rows' /\ Fresh' /\ Apart'
    <3>1. Busy(p) /\ CreditTx(call[p].kind, call[p].ref) /\ Return(p)
      BY <2>4 DEF FinishLocked
    <3>2. /\ call[p].kind \in Kinds /\ call[p].ref \in Refs
          /\ Available(Owner(p)) + Amount[call[p].ref] \in Int
      BY <3>1, <2>i, BusyCall, AvailableInt
    <3>3. call'[p] = NoCall /\ \A q \in Callers : q # p => call'[q] = call[q]
      BY <3>1, <2>i DEF Return, TypeOK
    <3>4. Rows'
      BY <3>1, <3>2, <2>i, BookKeepsRows DEF CreditTx, Owner
    <3>5. journal' = journal \cup {<<call[p].kind, call[p].ref>>}
      BY <3>1 DEF CreditTx, Book
    <3>6. Fresh'
      BY <3>1, <3>3, <3>5, <2>i DEF Booked, Busy
    <3>7. Apart'
      BY <3>3, <2>i DEF Busy
    <3> QED
      BY <3>4, <3>6, <3>7
  <2>5. ASSUME NEW p \in Callers, ReadUnlocked(p) \/ FinishUnlocked(p)
        PROVE  FALSE
    BY <2>5, <2>i, BusyCall DEF ReadUnlocked, FinishUnlocked
  <2>6. ASSUME NEW r \in Refs, Release(r)
        PROVE  Rows' /\ Fresh' /\ Apart'
    BY <2>6, <2>i DEF Release, ReleaseSpendLimit, HasAccount, Booked, Busy
  <2>7. ASSUME NEW u \in Users, ReadBalance(u)
        PROVE  FALSE
    BY <2>7, <2>i DEF ReadBalance, EnsureAccount
  <2>8. ASSUME Midnight
        PROVE  Rows' /\ Fresh' /\ Apart'
    BY <2>8, <2>i DEF Midnight, NewDay, HasAccount, Booked, Busy
  <2>9. CASE UNCHANGED vars
    BY <2>9, <2>i DEF vars, HasAccount, Booked, Busy
  <2> QED
    BY <2>1, <2>2, <2>3, <2>4, <2>5, <2>6, <2>7, <2>8, <2>9 DEF Next
<1> QED
  BY <1>1, <1>2, TypeCorrect, PTL DEF Spec

\* One caller per key and an account row for every user are enough for the
\* ledger to keep AccountBook's promise: each step is one covered posting,
\* made once, or changes neither a balance nor the journal.
THEOREM SerialLedgerImplementsAccountBook ==
    Serial => (Spec => ImplementsAccountBook)
<1> SUFFICES ASSUME Serial PROVE Spec => ImplementsAccountBook
  OBVIOUS
<1> DEFINE bal == [u \in Users |-> Available(u)]
<1>1. Init => Abstract!BookInit
  BY StoreAssumption
  DEF Init, StoreInit, Serial, Available, HasAccount, Abstract!BookInit
<1>2. SerialInv /\ SerialInv' /\ [Next]_vars => [Abstract!BookNext]_(Abstract!bookVars)
  <2> SUFFICES ASSUME SerialInv, SerialInv', [Next]_vars
               PROVE  Abstract!BookNext \/ UNCHANGED <<bal, journal>>
    BY DEF Abstract!bookVars
  <2>i. /\ TypeOK /\ StoreTypeOK
        /\ \A u \in Users : HasAccount(u)
    BY DEF SerialInv, TypeOK
  <2>1. ASSUME NEW r \in Refs, Debit(r)
        PROVE  Abstract!PostDebit(r)
    <3>1. PICK limited \in BOOLEAN : DebitTx(r, limited)
      BY <2>1 DEF Debit
    <3>2. /\ "debit" \in Kinds /\ Payer[r] \in Users
          /\ Available(Payer[r]) - Amount[r] \in Int
          /\ Party("debit", r) = Payer[r]
      BY StoreAssumption, AvailableInt, <2>i DEF Kinds, Party
    <3>3. bal' = [bal EXCEPT ![Payer[r]] = Available(Payer[r]) - Amount[r]]
      BY <3>1, <3>2, <2>i, BookMovesBalance DEF DebitTx
    <3>4. bal[Payer[r]] = Available(Payer[r]) /\ bal[Payer[r]] >= Amount[r]
      BY <3>1, <3>2 DEF DebitTx, CanDebit
    <3>5. bal' = [bal EXCEPT ![Payer[r]] = @ - Amount[r]]
      BY <3>3, <3>4
    <3> QED
      BY <3>1, <3>4, <3>5, <2>1 DEF Debit, DebitTx, Book, Booked, Abstract!PostDebit
  <2>2. ASSUME NEW p \in Callers, FinishLocked(p)
        PROVE  \E r \in Refs : Abstract!PostCredit(r) \/ Abstract!PostReversal(r)
    <3> DEFINE kind == call[p].kind
               r == call[p].ref
    <3>1. /\ Busy(p) /\ CreditTx(kind, r) /\ ReversalAllowed(kind, r)
          /\ ~Booked(kind, r)
      BY <2>2 DEF FinishLocked, SerialInv
    <3>2. /\ kind \in CreditKinds /\ kind \in Kinds /\ r \in Refs
          /\ Party(kind, r) \in Users
          /\ Available(Party(kind, r)) + Amount[r] \in Int
      BY <3>1, <2>i, BusyCall, AvailableInt, PartyIsUser
    <3>3. bal' = [bal EXCEPT ![Party(kind, r)] = Available(Party(kind, r)) + Amount[r]]
      BY <3>1, <3>2, <2>i, BookMovesBalance DEF CreditTx
    <3>4. bal' = [bal EXCEPT ![Party(kind, r)] = @ + Amount[r]]
      BY <3>2, <3>3
    <3>5. journal' = journal \cup {<<kind, r>>}
      BY <3>1 DEF CreditTx, Book
    <3>6. CASE kind = "credit"
      BY <3>1, <3>2, <3>4, <3>5, <3>6 DEF Party, Booked, Abstract!PostCredit
    <3>7. CASE kind = "reversal"
      BY <3>1, <3>2, <3>4, <3>5, <3>7
      DEF Party, Booked, ReversalAllowed, Abstract!PostReversal
    <3> QED
      BY <3>2, <3>6, <3>7 DEF CreditKinds
  <2>3. ASSUME NEW p \in Callers, ReadUnlocked(p) \/ FinishUnlocked(p)
        PROVE  FALSE
    BY <2>3, BusyCall, <2>i DEF ReadUnlocked, FinishUnlocked, SerialInv
  <2>4. ASSUME NEW u \in Users, ReadBalance(u)
        PROVE  FALSE
    BY <2>4, <2>i DEF ReadBalance, EnsureAccount
  <2>5. ASSUME UNCHANGED <<account, latest, journal>>
        PROVE  UNCHANGED <<bal, journal>>
    BY <2>5 DEF Available, HasAccount
  <2>6. CASE \E p \in Callers : FinishUnchanged(p) \/ Abort(p)
    BY <2>5, <2>6 DEF FinishUnchanged, Abort, storeVars
  <2>7. CASE \E p \in Callers, kind \in CreditKinds, r \in Refs : BeginCredit(p, kind, r)
    BY <2>5, <2>7 DEF BeginCredit, storeVars
  <2>8. CASE Midnight \/ \E r \in Refs : Release(r)
    BY <2>5, <2>8 DEF Midnight, NewDay, Release, ReleaseSpendLimit
  <2>9. CASE UNCHANGED vars
    BY <2>5, <2>9 DEF vars
  <2>10. (\E r \in Refs : \/ Abstract!PostDebit(r)
                          \/ Abstract!PostCredit(r)
                          \/ Abstract!PostReversal(r)) => Abstract!BookNext
    BY DEF Abstract!BookNext
  <2> QED
    BY <2>1, <2>2, <2>3, <2>4, <2>6, <2>7, <2>8, <2>9, <2>10 DEF Next
<1> QED
  BY <1>1, <1>2, SerialInvariant, PTL
  DEF Spec, ImplementsAccountBook, Abstract!BookSpec

-----------------------------------------------------------------------------
(* Sums.  The tables are finite at every moment, though nothing bounds the  *)
(* number of references: each step adds one row at most.                    *)

\* What the steps of the ledger do to the tables, for the invariants on sums: a
\* debit, a booking that was checked, or nothing that adds to a table.
LEMMA StepOfTables ==
    ASSUME TypeOK, [Next]_vars
    PROVE  \/ \E r \in Refs, limited \in BOOLEAN :
                 ~Booked("debit", r) /\ DebitTx(r, limited)
           \/ \E p \in Callers :
                 /\ FinishLocked(p) \/ FinishUnlocked(p)
                 /\ call[p].kind \in CreditKinds /\ call[p].ref \in Refs
                 /\ journal' = journal \cup {<<call[p].kind, call[p].ref>>}
                 /\ UNCHANGED limitVars
           \/ /\ UNCHANGED journal
              /\ \/ UNCHANGED limitVars
                 \/ today' = {}
                 \/ \E r \in Refs : ReleaseSpendLimit(r)
<1>1. ASSUME NEW r \in Refs, Debit(r)
      PROVE  \E limited \in BOOLEAN : ~Booked("debit", r) /\ DebitTx(r, limited)
  BY <1>1 DEF Debit
<1>2. ASSUME NEW p \in Callers, FinishLocked(p) \/ FinishUnlocked(p)
      PROVE  /\ call[p].kind \in CreditKinds /\ call[p].ref \in Refs
             /\ journal' = journal \cup {<<call[p].kind, call[p].ref>>}
             /\ UNCHANGED limitVars
  BY <1>2, BusyCall DEF FinishLocked, FinishUnlocked, CreditTx, Book
<1> QED
  BY <1>1, <1>2
  DEF Next, BeginCredit, FinishUnchanged, ReadUnlocked, Abort, Release, ReleaseSpendLimit,
      ReadBalance, EnsureAccount, Midnight, NewDay, storeVars, limitVars, vars

LimitInv == FiniteTables /\ LimitRespected

LEMMA LimitInvariant == Spec => []LimitInv
<1>1. Init => LimitInv
  <2> SUFFICES ASSUME Init PROVE LimitInv
    OBVIOUS
  <2>1. FiniteTables
    BY FiniteAtFirst DEF Init
  <2>2. ASSUME NEW u \in Users PROVE SpentToday(u) <= DailyLimit[u]
    <3>1. Counted(u) = {}
      BY DEF Init, StoreInit, Counted
    <3>2. SpentToday(u) = SumFunctionOnSet(Amount, Counted(u))
      BY DEF SpentToday, Counted
    <3>3. DailyLimit[u] \in Nat
      BY StoreAssumption
    <3> QED
      BY <3>1, <3>2, <3>3, SumEmpty
  <2> QED
    BY <2>1, <2>2 DEF LimitInv, LimitRespected
<1>2. LimitInv /\ TypeOK /\ TypeOK' /\ [Next]_vars => LimitInv'
  <2> SUFFICES ASSUME LimitInv, TypeOK, TypeOK', [Next]_vars PROVE LimitInv'
    OBVIOUS
  <2>i. FiniteTables /\ StoreTypeOK /\ \A u \in Users : SpentToday(u) <= DailyLimit[u]
    BY DEF LimitInv, LimitRespected, TypeOK
  <2>1. CASE \E r \in Refs, limited \in BOOLEAN : ~Booked("debit", r) /\ DebitTx(r, limited)
    <3>1. PICK r \in Refs, limited \in BOOLEAN : DebitTx(r, limited)
      BY <2>1
    <3>2. FiniteTables'
      <4>1. "debit" \in Kinds /\ journal' = journal \cup {<<"debit", r>>}
        BY <2>i, <3>1, DebitBooks DEF Book
      <4>2. IsFiniteSet(today')
        BY <2>i, <3>1, FS_AddElement DEF FiniteTables, DebitTx, limitVars
      <4> QED
        BY <2>i, <4>1, <4>2, BookKeepsFinite DEF FiniteTables
    <3>3. \A u \in Users : SpentToday(u)' <= DailyLimit[u]
      BY <2>i, <3>1, DebitWithinLimit
    <3> QED
      BY <3>2, <3>3 DEF LimitInv, LimitRespected
  <2>2. ASSUME NEW p \in Callers, call[p].kind \in CreditKinds, call[p].ref \in Refs,
               journal' = journal \cup {<<call[p].kind, call[p].ref>>}, UNCHANGED limitVars
        PROVE  LimitInv'
    <3>1. call[p].kind \in Kinds
      BY <2>2 DEF CreditKinds, Kinds
    <3>2. FiniteTables'
      BY <2>2, <2>i, <3>1, BookKeepsFinite DEF FiniteTables, limitVars
    <3> QED
      BY <2>2, <2>i, <3>2 DEF LimitInv, LimitRespected, SpentToday, limitVars
  <2>3. CASE /\ UNCHANGED journal
             /\ \/ UNCHANGED limitVars
                \/ today' = {}
                \/ \E r \in Refs : ReleaseSpendLimit(r)
    <3>1. today' \in SUBSET today
      BY <2>3 DEF limitVars, ReleaseSpendLimit
    <3>2. FiniteTables'
      BY <2>3, <2>i, <3>1, FS_Subset DEF FiniteTables, Postings, Booked
    <3>3. \A u \in Users : Counted(u)' \subseteq Counted(u)
      BY <2>3, <2>i DEF Counted, limitVars, ReleaseSpendLimit, StoreTypeOK
    <3>4. \A u \in Users : SpentToday(u)' \in Nat /\ SpentToday(u)' <= SpentToday(u)
      BY <2>i, <3>3, SpentShrinks
    <3>5. \A u \in Users : SpentToday(u) \in Nat /\ DailyLimit[u] \in Nat
      BY <2>i, SpentType, StoreAssumption
    <3> QED
      BY <2>i, <3>2, <3>4, <3>5 DEF LimitInv, LimitRespected
  <2> QED
    BY <2>i, <2>1, <2>2, <2>3, StepOfTables DEF TypeOK, LimitInv
<1> QED
  BY <1>1, <1>2, TypeCorrect, PTL DEF Spec

\* The spends of the day never exceed the limit, whatever debits, releases,
\* refunds and midnights come in between, with no help from the callers.
THEOREM LimitsAreRespected == Spec => []LimitRespected
<1>1. LimitInv => LimitRespected
  BY DEF LimitInv
<1> QED
  BY <1>1, LimitInvariant, PTL

\* While no two callers credit one key at once and every user has an account
\* row, every balance is the opening balance plus what the journal says of it.
THEOREM SerialBalancesAreExplained == Serial => (Spec => []BalanceExplained)
<1> SUFFICES ASSUME Serial PROVE Spec => []BalanceExplained
  OBVIOUS
<1>1. Init => Explained
  <2> SUFFICES ASSUME Init, NEW u \in Users PROVE Available(u) = JournalBalance(u)
    BY DEF Explained
  <2>1. Available(u) = Opening[u] /\ Opening[u] \in Nat
    BY StoreAssumption DEF Init, StoreInit, Serial, Available, HasAccount
  <2>2. \A kind \in Kinds : Posted(kind, u) = 0
    <3> SUFFICES ASSUME NEW kind \in Kinds PROVE Posted(kind, u) = 0
      OBVIOUS
    <3>1. {r \in Refs : Booked(kind, r) /\ Party(kind, r) = u} = {}
      BY DEF Init, StoreInit, Booked
    <3> QED
      BY <3>1, SumEmpty DEF Posted
  <2> QED
    BY <2>1, <2>2 DEF JournalBalance, Kinds
<1>2. Explained /\ LimitInv /\ SerialInv /\ [Next]_vars => Explained'
  <2> SUFFICES ASSUME Explained, LimitInv, SerialInv, [Next]_vars PROVE Explained'
    OBVIOUS
  <2>i. /\ TypeOK /\ StoreTypeOK /\ FiniteTables
        /\ \A u \in Users : HasAccount(u)
    BY DEF SerialInv, TypeOK, LimitInv
  <2>1. ASSUME NEW r \in Refs, Debit(r)
        PROVE  Explained'
    <3>1. PICK limited \in BOOLEAN : DebitTx(r, limited)
      BY <2>1 DEF Debit
    <3>2. ~Booked("debit", r) /\ Party("debit", r) = Payer[r]
      BY <2>1 DEF Debit, Party
    <3>3. Book("debit", r, Available(Party("debit", r)) - Amount[r])
      BY <3>1, <3>2 DEF DebitTx
    <3> QED
      BY <2>i, <3>2, <3>3, PostingExplained
  <2>2. ASSUME NEW p \in Callers, FinishLocked(p)
        PROVE  Explained'
    <3> DEFINE kind == call[p].kind
               r == call[p].ref
    <3>1. /\ Busy(p) /\ ~Booked(kind, r)
          /\ Book(kind, r, Available(Party(kind, r)) + Amount[r])
      BY <2>2 DEF FinishLocked, SerialInv, CreditTx
    <3>2. kind \in {"credit", "reversal"} /\ kind # "debit" /\ r \in Refs
      BY <2>i, <3>1, BusyCall DEF CreditKinds
    <3> HIDE DEF kind, r
    <3> QED
      BY <2>i, <3>1, <3>2, PostingExplained
  <2>3. ASSUME NEW p \in Callers, ReadUnlocked(p) \/ FinishUnlocked(p)
        PROVE  FALSE
    BY <2>3, BusyCall, <2>i DEF ReadUnlocked, FinishUnlocked, SerialInv
  <2>4. ASSUME NEW u \in Users, ReadBalance(u)
        PROVE  FALSE
    BY <2>4, <2>i DEF ReadBalance, EnsureAccount
  <2>5. ASSUME UNCHANGED <<account, latest, journal>>
        PROVE  Explained'
    <3>1. \A u \in Users : Available(u)' = Available(u) /\ JournalBalance(u)' = JournalBalance(u)
      BY <2>5 DEF Available, HasAccount, JournalBalance, Posted, Booked
    <3> QED
      BY <3>1 DEF Explained
  <2>6. CASE \E p \in Callers : FinishUnchanged(p) \/ Abort(p)
    BY <2>5, <2>6 DEF FinishUnchanged, Abort, storeVars
  <2>7. CASE \E p \in Callers, kind \in CreditKinds, r \in Refs : BeginCredit(p, kind, r)
    BY <2>5, <2>7 DEF BeginCredit, storeVars
  <2>8. CASE Midnight \/ \E r \in Refs : Release(r)
    BY <2>5, <2>8 DEF Midnight, NewDay, Release, ReleaseSpendLimit
  <2>9. CASE UNCHANGED vars
    BY <2>5, <2>9 DEF vars
  <2> QED
    BY <2>1, <2>2, <2>3, <2>4, <2>6, <2>7, <2>8, <2>9 DEF Next
<1>3. Explained <=> BalanceExplained
  BY DEF Explained, BalanceExplained
<1> QED
  BY <1>1, <1>2, <1>3, LimitInvariant, SerialInvariant, PTL DEF Spec
=============================================================================
