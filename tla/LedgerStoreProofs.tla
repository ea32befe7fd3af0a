------------------------- MODULE LedgerStoreProofs --------------------------
(***************************************************************************)
(* Facts about the transactions of LedgerStore that the proofs about their *)
(* callers rest on, and about the sums its tables are read with.           *)
(***************************************************************************)
EXTENDS LedgerStore, FiniteSetTheorems, TLAPS

\* A set whose members are all the same has one of them or none.
LEMMA AtMostOne ==
    ASSUME NEW S, \A x, y \in S : x = y
    PROVE  Cardinality(S) = IF S = {} THEN 0 ELSE 1
<1>1. CASE S = {}
  BY <1>1, FS_EmptySet
<1>2. ASSUME NEW x \in S
      PROVE  Cardinality(S) = 1
  <2>1. S = {x}
    OBVIOUS
  <2> QED
    BY <2>1, FS_Singleton
<1> QED
  BY <1>1, <1>2

-----------------------------------------------------------------------------
(* Sums.  SumFunctionOnSet folds a function over a finite set in an order   *)
(* that is left open.  What follows shows that the order does not matter,   *)
(* from the well-foundedness of the subsets of a finite set.                *)

\* A set of subsets of a finite set has a smallest member: what takes the
\* place of an induction over finite sets.
LEMMA SmallestSubset ==
    ASSUME NEW S, IsFiniteSet(S), NEW B \in SUBSET (SUBSET S), B # {}
    PROVE  \E T \in B : \A U \in B : U \subseteq T => U = T
<1>1. IsWellFoundedOn(StrictSubsetOrdering(S), SUBSET S)
  BY FS_StrictSubsetOrderingWellFounded, FS_FiniteSubsetsOfFinite
<1>2. PICK T \in B : \A U \in B : ~(<<U, T>> \in StrictSubsetOrdering(S))
  BY <1>1, WFMin, Zenon
<1> QED
  BY <1>2 DEF StrictSubsetOrdering

\* The function on the subsets of S that SumFunctionOnSet(f, S) is the value of.
First(s) == CHOOSE x \in s : TRUE

Adds(f, S, g) ==
    g = [s \in SUBSET S |-> IF s = {} THEN 0 ELSE f[First(s)] + g[s \ {First(s)}]]

\* What such a function returns.
LEMMA AddsValue ==
    ASSUME NEW f, NEW S, NEW g, Adds(f, S, g), NEW T \in SUBSET S
    PROVE  /\ T = {} => g[T] = 0
           /\ T # {} => /\ First(T) \in T
                        /\ T \ {First(T)} \in SUBSET S
                        /\ g[T] = f[First(T)] + g[T \ {First(T)}]
<1>1. g[T] = IF T = {} THEN 0 ELSE f[First(T)] + g[T \ {First(T)}]
  BY DEF Adds
<1>2. T # {} => First(T) \in T
  BY DEF First
<1> QED
  BY <1>1, <1>2

\* Two of them agree where both are defined.
LEMMA AddsUnique ==
    ASSUME NEW f, NEW S, NEW T, IsFiniteSet(S), NEW g, NEW h, Adds(f, S, g), Adds(f, T, h),
           NEW U \in SUBSET S, U \in SUBSET T
    PROVE  g[U] = h[U]
<1> DEFINE B == {V \in SUBSET S : V \subseteq T /\ g[V] # h[V]}
<1> SUFFICES ASSUME B # {} PROVE FALSE
  OBVIOUS
<1>0. B \in SUBSET (SUBSET S)
  OBVIOUS
<1> HIDE DEF B
<1>1. PICK V \in B : \A W \in B : W \subseteq V => W = V
  BY <1>0, SmallestSubset
<1> USE DEF B
<1>2. V # {}
  BY AddsValue
<1>3. /\ First(V) \in V
      /\ g[V] = f[First(V)] + g[V \ {First(V)}]
      /\ h[V] = f[First(V)] + h[V \ {First(V)}]
  BY <1>2, AddsValue
<1>4. V \ {First(V)} \notin B
  BY <1>1, <1>3
<1> QED
  BY <1>1, <1>3, <1>4

\* There is one.
LEMMA AddsExists ==
    ASSUME NEW f, NEW S, IsFiniteSet(S)
    PROVE  \E g : Adds(f, S, g)
<1> DEFINE B == {T \in SUBSET S : ~\E g : Adds(f, T, g)}
<1> SUFFICES ASSUME B # {} PROVE FALSE
  OBVIOUS
<1>0. B \in SUBSET (SUBSET S)
  OBVIOUS
<1> HIDE DEF B
<1>1. PICK T \in B : \A U \in B : U \subseteq T => U = T
  BY <1>0, SmallestSubset
<1> USE DEF B
<1> DEFINE G(U) == CHOOSE g : Adds(f, U, g)
           v(U) == IF U = {} THEN 0 ELSE f[First(U)] + G(U \ {First(U)})[U \ {First(U)}]
           h == [U \in SUBSET T |-> v(U)]
<1>2. \A U \in SUBSET T : U # T => Adds(f, U, G(U)) /\ IsFiniteSet(U)
  BY <1>1, FS_Subset
<1> HIDE DEF G, B
<1>3. ASSUME NEW V \in SUBSET T, V # T
      PROVE  h[V] = G(V)[V]
  <2>1. Adds(f, V, G(V)) /\ IsFiniteSet(V) /\ V \in SUBSET V
    BY <1>2, <1>3
  <2>2. CASE V = {}
    BY <2>1, <2>2, AddsValue
  <2>3. CASE V # {}
    <3> DEFINE W == V \ {First(V)}
    <3>1. First(V) \in V
      BY <2>3 DEF First
    <3>2. W \in SUBSET T /\ W # T /\ W \in SUBSET V /\ W \in SUBSET W
      BY <3>1
    <3>3. Adds(f, W, G(W)) /\ IsFiniteSet(W)
      BY <3>2, <1>2
    <3>4. G(V)[V] = f[First(V)] + G(V)[W]
      BY <2>1, <2>3, AddsValue
    <3>5. h[V] = f[First(V)] + G(W)[W]
      BY <2>3
    <3> HIDE DEF W
    <3>6. G(V)[W] = G(W)[W]
      BY <3>2, <3>3, <2>1, AddsUnique
    <3> QED
      BY <3>4, <3>5, <3>6
  <2> QED
    BY <2>2, <2>3
<1>4. ASSUME NEW U \in SUBSET T
      PROVE  v(U) = IF U = {} THEN 0 ELSE f[First(U)] + h[U \ {First(U)}]
  <2>1. CASE U = {}
    BY <2>1
  <2>2. CASE U # {}
    <3>1. First(U) \in U
      BY <2>2 DEF First
    <3>2. h[U \ {First(U)}] = G(U \ {First(U)})[U \ {First(U)}]
      BY <1>3, <3>1
    <3> QED
      BY <2>2, <3>2
  <2> QED
    BY <2>1, <2>2
<1>5. Adds(f, T, h)
  <2> HIDE DEF v
  <2>1. h = [U \in SUBSET T |-> IF U = {} THEN 0 ELSE f[First(U)] + h[U \ {First(U)}]]
    BY <1>4
  <2> QED
    BY <2>1 DEF Adds
<1> QED
  BY <1>1, <1>5 DEF B

\* The sum is the value of any such function.
LEMMA SumIsAdded ==
    ASSUME NEW f, NEW S, IsFiniteSet(S), NEW g, Adds(f, S, g), NEW T \in SUBSET S
    PROVE  SumFunctionOnSet(f, T) = g[T]
<1>1. IsFiniteSet(T)
  BY FS_Subset
<1>2. PICK h : Adds(f, T, h)
  BY <1>1, AddsExists
<1>3. Adds(f, T, CHOOSE i : Adds(f, T, i))
  BY <1>2
<1>4. SumFunctionOnSet(f, T) = (CHOOSE i : Adds(f, T, i))[T]
  BY DEF SumFunctionOnSet, FoldFunctionOnSet, MapThenFoldSet, Adds, First
<1> QED
  BY <1>1, <1>3, <1>4, AddsUnique

\* A sum of integers is one; of naturals, a natural.
LEMMA SumType ==
    ASSUME NEW f, NEW S, IsFiniteSet(S), \A x \in S : f[x] \in Int
    PROVE  /\ SumFunctionOnSet(f, S) \in Int
           /\ (\A x \in S : f[x] >= 0) => SumFunctionOnSet(f, S) >= 0
<1>1. PICK g : Adds(f, S, g)
  BY AddsExists
<1> DEFINE Good(T) == g[T] \in Int /\ ((\A x \in S : f[x] >= 0) => g[T] >= 0)
           B == {T \in SUBSET S : ~Good(T)}
<1>2. B = {}
  <2> SUFFICES ASSUME B # {} PROVE FALSE
    OBVIOUS
  <2>0. B \in SUBSET (SUBSET S)
    OBVIOUS
  <2> HIDE DEF B
  <2>1. PICK T \in B : \A U \in B : U \subseteq T => U = T
    BY <2>0, SmallestSubset
  <2> USE DEF B
  <2>2. CASE T = {}
    <3>1. T \in SUBSET S /\ ~Good(T)
      OBVIOUS
    <3>2. g[T] = 0
      BY <1>1, <2>2, <3>1, AddsValue
    <3> QED
      BY <3>1, <3>2
  <2>3. CASE T # {}
    <3>1. /\ First(T) \in T /\ T \ {First(T)} \in SUBSET S
          /\ g[T] = f[First(T)] + g[T \ {First(T)}]
      BY <1>1, <2>3, AddsValue
    <3>2. Good(T \ {First(T)})
      BY <3>1, <2>1
    <3> QED
      BY <3>1, <3>2
  <2> QED
    BY <2>2, <2>3
<1>3. Good(S) /\ S \in SUBSET S
  BY <1>2
<1>4. SumFunctionOnSet(f, S) = g[S]
  BY <1>1, <1>3, SumIsAdded
<1> QED
  BY <1>3, <1>4

\* Nothing sums to nothing.
LEMMA SumEmpty ==
    ASSUME NEW f
    PROVE  SumFunctionOnSet(f, {}) = 0
<1>1. IsFiniteSet({})
  BY FS_EmptySet
<1>2. PICK g : Adds(f, {}, g)
  BY <1>1, AddsExists
<1>3. {} \in SUBSET {}
  OBVIOUS
<1>4. SumFunctionOnSet(f, {}) = g[{}]
  BY <1>1, <1>2, <1>3, SumIsAdded
<1>5. g[{}] = 0
  BY <1>2, <1>3, AddsValue
<1> QED
  BY <1>4, <1>5

\* The sum is the same whichever element is taken first.
LEMMA SumRemove ==
    ASSUME NEW f, NEW S, IsFiniteSet(S), \A x \in S : f[x] \in Int, NEW y \in S
    PROVE  SumFunctionOnSet(f, S) = f[y] + SumFunctionOnSet(f, S \ {y})
<1>1. PICK g : Adds(f, S, g)
  BY AddsExists
<1>2. ASSUME NEW T \in SUBSET S
      PROVE  g[T] \in Int
  <2>1. IsFiniteSet(T)
    BY FS_Subset
  <2>2. SumFunctionOnSet(f, T) = g[T]
    BY <1>1, SumIsAdded
  <2>3. SumFunctionOnSet(f, T) \in Int
    BY <2>1, SumType
  <2> QED
    BY <2>2, <2>3
<1> DEFINE B == {T \in SUBSET S : \E z \in T : g[T] # f[z] + g[T \ {z}]}
<1>3. B = {}
  <2> SUFFICES ASSUME B # {} PROVE FALSE
    OBVIOUS
  <2>0. B \in SUBSET (SUBSET S)
    OBVIOUS
  <2> HIDE DEF B
  <2>1. PICK T \in B : \A U \in B : U \subseteq T => U = T
    BY <2>0, SmallestSubset
  <2>2. PICK z \in T : T \in SUBSET S /\ g[T] # f[z] + g[T \ {z}]
    BY DEF B
  <2> DEFINE p == First(T)
             V == (T \ {p}) \ {z}
  <2>3. /\ p \in T /\ T \ {p} \in SUBSET S
        /\ g[T] = f[p] + g[T \ {p}]
    BY <1>1, <2>2, AddsValue
  <2> HIDE DEF p
  <2>4. p # z
    BY <2>2, <2>3
  <2>5. T \ {p} \notin B /\ T \ {z} \notin B /\ T \ {z} \in SUBSET S
    BY <2>1, <2>2, <2>3
  <2>6. g[T \ {p}] = f[z] + g[V]
    BY <2>5, <2>4, <2>3 DEF B
  <2>7. g[T \ {z}] = f[p] + g[(T \ {z}) \ {p}]
    BY <2>5, <2>4, <2>3 DEF B
  <2>8. (T \ {z}) \ {p} = V /\ V \in SUBSET S
    BY <2>5
  <2>9. f[p] \in Int /\ f[z] \in Int /\ g[V] \in Int
    BY <1>2, <2>2, <2>3, <2>8
  <2> HIDE DEF V
  <2>10. g[T] = f[p] + (f[z] + g[V]) /\ g[T \ {z}] = f[p] + g[V]
    BY <2>3, <2>6, <2>7, <2>8
  <2>11. f[p] + (f[z] + g[V]) = f[z] + (f[p] + g[V])
    BY <2>9
  <2> QED
    BY <2>2, <2>10, <2>11
<1>4. S \in SUBSET S /\ S \ {y} \in SUBSET S
  OBVIOUS
<1>5. g[S] = f[y] + g[S \ {y}]
  BY <1>3, <1>4
<1> QED
  BY <1>1, <1>4, <1>5, SumIsAdded

\* Adding an element adds its value.
LEMMA SumInsert ==
    ASSUME NEW f, NEW S, IsFiniteSet(S), NEW y, y \notin S,
           \A x \in S \cup {y} : f[x] \in Int
    PROVE  SumFunctionOnSet(f, S \cup {y}) = f[y] + SumFunctionOnSet(f, S)
<1> DEFINE T == S \cup {y}
<1>1. IsFiniteSet(T) /\ T \ {y} = S /\ y \in T
  BY FS_AddElement
<1> HIDE DEF T
<1>2. SumFunctionOnSet(f, T) = f[y] + SumFunctionOnSet(f, T \ {y})
  BY <1>1, SumRemove DEF T
<1> QED
  BY <1>1, <1>2 DEF T

\* A sum depends on the values it adds alone.
LEMMA SumSame ==
    ASSUME NEW f, NEW h, NEW S, IsFiniteSet(S), \A x \in S : f[x] = h[x]
    PROVE  SumFunctionOnSet(f, S) = SumFunctionOnSet(h, S)
<1>1. PICK g : Adds(f, S, g)
  BY AddsExists
<1>2. \A s \in SUBSET S : s # {} => f[First(s)] = h[First(s)]
  BY DEF First
<1>3. Adds(h, S, g)
  BY <1>1, <1>2 DEF Adds
<1> QED
  BY <1>1, <1>3, SumIsAdded

\* Changing one value of what is summed changes the sum by as much.
LEMMA SumExcept ==
    ASSUME NEW f, NEW h, NEW S, IsFiniteSet(S), NEW y \in S,
           \A x \in S : f[x] \in Int /\ h[x] \in Int,
           \A x \in S \ {y} : f[x] = h[x]
    PROVE  SumFunctionOnSet(h, S) = SumFunctionOnSet(f, S) + h[y] - f[y]
<1> DEFINE T == S \ {y}
<1>1. IsFiniteSet(T) /\ T \in SUBSET S
  BY FS_Subset
<1>2. SumFunctionOnSet(f, T) = SumFunctionOnSet(h, T) /\ SumFunctionOnSet(f, T) \in Int
  BY <1>1, SumSame, SumType
<1>3. /\ SumFunctionOnSet(f, S) = f[y] + SumFunctionOnSet(f, T)
      /\ SumFunctionOnSet(h, S) = h[y] + SumFunctionOnSet(h, T)
  BY SumRemove
<1> HIDE DEF T
<1> QED
  BY <1>2, <1>3

\* A sum of naturals over fewer elements is no larger.
LEMMA SumSubset ==
    ASSUME NEW f, NEW S, IsFiniteSet(S), NEW T \in SUBSET S, \A x \in S : f[x] \in Nat
    PROVE  SumFunctionOnSet(f, T) <= SumFunctionOnSet(f, S)
<1>1. PICK g : Adds(f, S, g)
  BY AddsExists
<1>2. ASSUME NEW U \in SUBSET S
      PROVE  g[U] = SumFunctionOnSet(f, U) /\ g[U] \in Int /\ IsFiniteSet(U)
  <2>1. IsFiniteSet(U)
    BY FS_Subset
  <2>2. SumFunctionOnSet(f, U) = g[U]
    BY <1>1, SumIsAdded
  <2>3. SumFunctionOnSet(f, U) \in Int
    BY <2>1, SumType
  <2> QED
    BY <2>1, <2>2, <2>3
<1> DEFINE B == {U \in SUBSET S : T \subseteq U /\ ~(g[T] <= g[U])}
<1>3. B = {}
  <2> SUFFICES ASSUME B # {} PROVE FALSE
    OBVIOUS
  <2>0. B \in SUBSET (SUBSET S)
    OBVIOUS
  <2> HIDE DEF B
  <2>1. PICK U \in B : \A V \in B : V \subseteq U => V = U
    BY <2>0, SmallestSubset
  <2>2. U \in SUBSET S /\ T \subseteq U /\ ~(g[T] <= g[U])
    BY DEF B
  <2>3. PICK y \in U : y \notin T
    BY <2>2, <1>2
  <2>4. g[U] = f[y] + g[U \ {y}]
    BY <1>2, <2>2, SumRemove
  <2>5. U \ {y} \notin B /\ U \ {y} \in SUBSET S
    BY <2>1, <2>2
  <2>6. g[T] <= g[U \ {y}]
    BY <2>2, <2>3, <2>5 DEF B
  <2> QED
    BY <1>2, <2>2, <2>4, <2>5, <2>6
<1> QED
  BY <1>2, <1>3

-----------------------------------------------------------------------------
(* Transactions.                                                           *)

\* Every row of the journal belongs to a user.
LEMMA PartyIsUser ==
    \A kind \in Kinds, r \in Refs : Party(kind, r) \in Users
  BY StoreAssumption DEF Party

\* The balance a transaction starts from is a number.
LEMMA AvailableInt ==
    ASSUME StoreTypeOK, NEW u \in Users
    PROVE  Available(u) \in Int
  BY DEF StoreTypeOK, Available, HasAccount

\* A booking with an integer balance keeps the types of the tables it writes.
LEMMA BookTypes ==
    ASSUME StoreTypeOK, NEW kind \in Kinds, NEW r \in Refs, NEW balance \in Int,
           Book(kind, r, balance)
    PROVE  /\ account' \in [Users -> Int \cup {NoRow}]
           /\ journal' \subseteq Kinds \X Refs
           /\ latest' \in [Users -> Int]
  BY PartyIsUser DEF StoreTypeOK, Book

\* What a debit books.
LEMMA DebitBooks ==
    ASSUME StoreTypeOK, NEW r \in Refs, NEW limited \in BOOLEAN, DebitTx(r, limited)
    PROVE  /\ "debit" \in Kinds
           /\ Party("debit", r) = Payer[r]
           /\ Payer[r] \in Users
           /\ Available(Payer[r]) - Amount[r] \in Int
           /\ Available(Payer[r]) >= Amount[r]
           /\ Book("debit", r, Available(Payer[r]) - Amount[r])
  BY StoreAssumption, AvailableInt DEF DebitTx, CanDebit, Kinds, Party

\* What a credit books.
LEMMA CreditBooks ==
    ASSUME StoreTypeOK, NEW kind \in Kinds, NEW r \in Refs, CreditTx(kind, r)
    PROVE  /\ Party(kind, r) \in Users
           /\ Available(Party(kind, r)) + Amount[r] \in Int
           /\ Book(kind, r, Available(Party(kind, r)) + Amount[r])
  BY StoreAssumption, PartyIsUser, AvailableInt DEF CreditTx

\* A debit keeps the types of every table.
LEMMA DebitTypes ==
    ASSUME StoreTypeOK, NEW r \in Refs, NEW limited \in BOOLEAN, DebitTx(r, limited)
    PROVE  StoreTypeOK'
  <1>1. /\ account' \in [Users -> Int \cup {NoRow}]
        /\ journal' \subseteq Kinds \X Refs
        /\ latest' \in [Users -> Int]
    BY DebitBooks, BookTypes
  <1>2. /\ limitRow' \in [Refs -> {"NONE", "APPLIED", "RELEASED"}]
        /\ today' \subseteq Refs
    BY DEF DebitTx, limitVars, StoreTypeOK
  <1> QED
    BY <1>1, <1>2 DEF StoreTypeOK

\* A credit keeps the types of every table.
LEMMA CreditTypes ==
    ASSUME StoreTypeOK, NEW kind \in Kinds, NEW r \in Refs, CreditTx(kind, r)
    PROVE  StoreTypeOK'
  <1>1. /\ account' \in [Users -> Int \cup {NoRow}]
        /\ journal' \subseteq Kinds \X Refs
        /\ latest' \in [Users -> Int]
    BY CreditBooks, BookTypes
  <1> QED
    BY <1>1 DEF CreditTx, limitVars, StoreTypeOK

\* A booking leaves every user who had an account row with one.
LEMMA BookKeepsRows ==
    ASSUME StoreTypeOK, \A u \in Users : HasAccount(u),
           NEW kind \in Kinds, NEW r \in Refs, NEW balance \in Int,
           Book(kind, r, balance)
    PROVE  \A u \in Users : HasAccount(u)'
  BY PartyIsUser, StoreAssumption DEF StoreTypeOK, HasAccount, Book

\* A booking sets the balance of the user of the row it adds, and no other.
LEMMA BookMovesBalance ==
    ASSUME StoreTypeOK, NEW kind \in Kinds, NEW r \in Refs, NEW balance \in Int,
           Book(kind, r, balance)
    PROVE  [u \in Users |-> Available(u)]' =
               [[u \in Users |-> Available(u)] EXCEPT ![Party(kind, r)] = balance]
  <1>1. account' = [account EXCEPT ![Party(kind, r)] = balance]
    BY DEF Book
  <1>2. \A u \in Users : u # Party(kind, r) => latest'[u] = latest[u]
    BY DEF Book, StoreTypeOK
  <1>3. \A u \in Users : Available(u)' = IF account'[u] # NoRow THEN account'[u] ELSE latest'[u]
    BY DEF Available, HasAccount
  <1>4. \A u \in Users : Available(u) = IF account[u] # NoRow THEN account[u] ELSE latest[u]
    BY DEF Available, HasAccount
  <1>5. balance # NoRow
    BY StoreAssumption
  <1> QED
    BY <1>1, <1>2, <1>3, <1>4, <1>5, PartyIsUser DEF StoreTypeOK

-----------------------------------------------------------------------------
(* Sums over the tables: what the limit counts, what the journal explains.  *)

Postings(kind) == {r \in Refs : Booked(kind, r)}

FiniteTables ==
    /\ IsFiniteSet(today)
    /\ \A kind \in Kinds : IsFiniteSet(Postings(kind))

Explained == \A u \in Users : Available(u) = JournalBalance(u)

PostedRefs(kind, u) == {r \in Refs : Booked(kind, r) /\ Party(kind, r) = u}

\* The tables are finite to begin with, and stay so as rows are added to them.
LEMMA FiniteAtFirst == StoreInit => FiniteTables
<1> SUFFICES ASSUME StoreInit PROVE FiniteTables
  OBVIOUS
<1>1. today = {} /\ \A kind \in Kinds : Postings(kind) = {}
  BY DEF StoreInit, Postings, Booked
<1> QED
  BY <1>1, FS_EmptySet DEF FiniteTables

LEMMA BookKeepsFinite ==
    ASSUME FiniteTables, NEW kind \in Kinds, NEW r \in Refs,
           journal' = journal \cup {<<kind, r>>}
    PROVE  \A k \in Kinds : IsFiniteSet(Postings(k)')
<1> SUFFICES ASSUME NEW k \in Kinds PROVE IsFiniteSet(Postings(k)')
  OBVIOUS
<1>1. IsFiniteSet(Postings(k)) /\ IsFiniteSet(Postings(k) \cup {r})
  BY FS_AddElement DEF FiniteTables
<1>2. Postings(k)' = IF k = kind THEN Postings(k) \cup {r} ELSE Postings(k)
  BY DEF Postings, Booked
<1> QED
  BY <1>1, <1>2

\* What is posted for a user is a sum of finitely many amounts.
LEMMA PostedType ==
    ASSUME FiniteTables, NEW kind \in Kinds, NEW u
    PROVE  /\ IsFiniteSet(PostedRefs(kind, u))
           /\ Posted(kind, u) = SumFunctionOnSet(Amount, PostedRefs(kind, u))
           /\ Posted(kind, u) \in Nat
<1>1. PostedRefs(kind, u) \in SUBSET Postings(kind) /\ IsFiniteSet(Postings(kind))
  BY DEF PostedRefs, Postings, FiniteTables
<1>2. IsFiniteSet(PostedRefs(kind, u))
  BY <1>1, FS_Subset
<1>3. \A r \in PostedRefs(kind, u) : Amount[r] \in Int /\ Amount[r] >= 0
  BY StoreAssumption DEF PostedRefs
<1>4. Posted(kind, u) = SumFunctionOnSet(Amount, PostedRefs(kind, u))
  BY DEF Posted, PostedRefs
<1>5. Posted(kind, u) \in Int /\ Posted(kind, u) >= 0
  BY <1>2, <1>3, <1>4, SumType
<1> QED
  BY <1>2, <1>4, <1>5

\* A row that was not in the journal adds its amount to what is posted for its
\* user under its kind, and to nothing else.
LEMMA PostingAdds ==
    ASSUME FiniteTables, NEW kind \in Kinds, NEW r \in Refs, ~Booked(kind, r),
           journal' = journal \cup {<<kind, r>>}, NEW k \in Kinds, NEW u
    PROVE  Posted(k, u)' =
               Posted(k, u) + (IF k = kind /\ u = Party(kind, r) THEN Amount[r] ELSE 0)
<1> DEFINE S == PostedRefs(k, u)
<1>0. Posted(k, u)' = SumFunctionOnSet(Amount, S')
  BY DEF Posted, PostedRefs
<1>1. /\ Posted(k, u) = SumFunctionOnSet(Amount, S)
      /\ Posted(k, u) \in Nat /\ IsFiniteSet(S) /\ Amount[r] \in Int
  BY PostedType, StoreAssumption
<1>2. CASE k = kind /\ u = Party(kind, r)
  <2>1. S' = S \cup {r} /\ r \notin S
    BY <1>2 DEF PostedRefs, Booked, Party
  <2>2. \A x \in S \cup {r} : Amount[x] \in Int
    BY StoreAssumption DEF PostedRefs
  <2> HIDE DEF S
  <2>3. SumFunctionOnSet(Amount, S \cup {r}) = Amount[r] + SumFunctionOnSet(Amount, S)
    BY <1>1, <2>1, <2>2, SumInsert
  <2> QED
    BY <1>0, <1>1, <1>2, <2>1, <2>3
<1>3. CASE ~(k = kind /\ u = Party(kind, r))
  <2>1. S' = S
    BY <1>3 DEF PostedRefs, Booked, Party
  <2> HIDE DEF S
  <2> QED
    BY <1>0, <1>1, <1>3, <2>1
<1> QED
  BY <1>2, <1>3

\* A posting made once that moves the balance by its amount keeps every balance
\* explained by the journal.
LEMMA PostingExplained ==
    ASSUME StoreTypeOK, FiniteTables, Explained, NEW kind \in {"debit", "credit", "reversal"},
           NEW r \in Refs, ~Booked(kind, r),
           Book(kind, r, IF kind = "debit" THEN Available(Party(kind, r)) - Amount[r]
                                           ELSE Available(Party(kind, r)) + Amount[r])
    PROVE  Explained'
<1> DEFINE v == Party(kind, r)
           balance == IF kind = "debit" THEN Available(v) - Amount[r] ELSE Available(v) + Amount[r]
           bal == [u \in Users |-> Available(u)]
<1>1. kind \in Kinds /\ v \in Users /\ Amount[r] \in Nat /\ balance \in Int
  BY PartyIsUser, AvailableInt, StoreAssumption DEF Kinds
<1>2. bal' = [bal EXCEPT ![v] = balance]
  BY <1>1, BookMovesBalance
<1>3. journal' = journal \cup {<<kind, r>>}
  BY DEF Book
<1> SUFFICES ASSUME NEW u \in Users PROVE Available(u)' = JournalBalance(u)'
  BY DEF Explained
<1>4. Available(u)' = IF u = v THEN balance ELSE Available(u)
  BY <1>2
<1> DEFINE moved(k) == IF k = kind /\ u = v THEN Amount[r] ELSE 0
<1>5. \A k \in {"debit", "credit", "reversal"} :
          /\ Posted(k, u)' = Posted(k, u) + moved(k)
          /\ Posted(k, u) \in Nat
  BY <1>1, <1>3, PostingAdds, PostedType DEF Kinds
<1>6. Available(u) = Opening[u] + Posted("credit", u) + Posted("reversal", u) - Posted("debit", u)
  BY DEF Explained, JournalBalance
<1>7. JournalBalance(u)' = Opening[u] + Posted("credit", u)' + Posted("reversal", u)'
                               - Posted("debit", u)'
  BY DEF JournalBalance
<1>8. Opening[u] \in Int
  BY StoreAssumption
<1> HIDE DEF v
<1>9. CASE u = v
  BY <1>1, <1>4, <1>5, <1>6, <1>7, <1>8, <1>9
<1>10. CASE u # v
  BY <1>4, <1>5, <1>6, <1>7, <1>8, <1>10
<1> QED
  BY <1>9, <1>10

-----------------------------------------------------------------------------

\* The references that count against a user's limit.
Counted(u) == {r \in today : Payer[r] = u /\ limitRow[r] = "APPLIED"}

LEMMA SpentType ==
    ASSUME StoreTypeOK, FiniteTables, NEW u
    PROVE  /\ IsFiniteSet(Counted(u))
           /\ SpentToday(u) = SumFunctionOnSet(Amount, Counted(u))
           /\ SpentToday(u) \in Nat
<1>1. Counted(u) \in SUBSET today /\ IsFiniteSet(today) /\ today \subseteq Refs
  BY DEF Counted, FiniteTables, StoreTypeOK
<1>2. IsFiniteSet(Counted(u))
  BY <1>1, FS_Subset
<1>3. \A r \in Counted(u) : Amount[r] \in Int /\ Amount[r] >= 0
  BY <1>1, StoreAssumption
<1>4. SpentToday(u) = SumFunctionOnSet(Amount, Counted(u))
  BY DEF SpentToday, Counted
<1>5. SpentToday(u) \in Int /\ SpentToday(u) >= 0
  BY <1>2, <1>3, <1>4, SumType
<1> QED
  BY <1>2, <1>4, <1>5

\* Counting fewer references counts no more money.
LEMMA SpentShrinks ==
    ASSUME StoreTypeOK, FiniteTables, NEW u, Counted(u)' \subseteq Counted(u)
    PROVE  SpentToday(u)' \in Nat /\ SpentToday(u)' <= SpentToday(u)
<1>1. /\ IsFiniteSet(Counted(u))
      /\ SpentToday(u) = SumFunctionOnSet(Amount, Counted(u))
      /\ \A r \in Counted(u) : Amount[r] \in Nat
  BY SpentType, StoreAssumption DEF Counted, StoreTypeOK
<1>2. SpentToday(u)' = SumFunctionOnSet(Amount, Counted(u)')
  BY DEF SpentToday, Counted
<1>3. /\ IsFiniteSet(Counted(u)')
      /\ \A r \in Counted(u)' : Amount[r] \in Int /\ Amount[r] >= 0
  BY <1>1, FS_Subset
<1>4. SpentToday(u)' \in Int /\ SpentToday(u)' >= 0
  BY <1>2, <1>3, SumType
<1> QED
  BY <1>1, <1>2, <1>4, SumSubset

\* A debit leaves the spends of the day within the limit, and the tables finite.
LEMMA DebitWithinLimit ==
    ASSUME StoreTypeOK, FiniteTables, NEW r \in Refs, NEW limited \in BOOLEAN,
           DebitTx(r, limited), NEW u \in Users, SpentToday(u) <= DailyLimit[u]
    PROVE  /\ SpentToday(u)' <= DailyLimit[u]
           /\ FiniteTables'
<1>1. FiniteTables'
  <2>1. "debit" \in Kinds /\ journal' = journal \cup {<<"debit", r>>}
    BY DebitBooks DEF Book
  <2>2. IsFiniteSet(today')
    BY FS_AddElement DEF FiniteTables, DebitTx, limitVars
  <2> QED
    BY <2>1, <2>2, BookKeepsFinite DEF FiniteTables
<1>2. CASE ~(limited /\ limitRow[r] = "NONE")
  BY <1>1, <1>2 DEF DebitTx, limitVars, SpentToday
<1>3. CASE limited /\ limitRow[r] = "NONE"
  <2>1. /\ limitRow' = [limitRow EXCEPT ![r] = "APPLIED"]
        /\ today' = today \cup {r}
        /\ SpentToday(Payer[r]) + Amount[r] <= DailyLimit[Payer[r]]
    BY <1>3 DEF DebitTx, CanDebit, WithinLimit
  <2>2. /\ r \notin Counted(u)
        /\ Counted(u)' = IF u = Payer[r] THEN Counted(u) \cup {r} ELSE Counted(u)
    BY <1>3, <2>1 DEF Counted, StoreTypeOK
  <2>3. /\ IsFiniteSet(Counted(u)) /\ SpentToday(u) \in Nat
        /\ SpentToday(u) = SumFunctionOnSet(Amount, Counted(u))
    BY SpentType
  <2>4. SpentToday(u)' = SumFunctionOnSet(Amount, Counted(u)')
    BY DEF SpentToday, Counted
  <2>5. \A x \in Counted(u) \cup {r} : Amount[x] \in Int
    BY StoreAssumption DEF Counted, StoreTypeOK
  <2>6. SumFunctionOnSet(Amount, Counted(u) \cup {r}) = Amount[r] + SumFunctionOnSet(Amount, Counted(u))
    BY <2>2, <2>3, <2>5, SumInsert
  <2>7. Amount[r] \in Nat /\ DailyLimit[u] \in Nat
    BY StoreAssumption
  <2> QED
    BY <1>1, <2>1, <2>2, <2>3, <2>4, <2>6, <2>7
<1> QED
  BY <1>1, <1>2, <1>3
=============================================================================
