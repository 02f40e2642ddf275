------------------------ MODULE InvoiceLedgerProofs ------------------------
(***************************************************************************)
(* Proofs about InvoiceLedger, for every finite set of invoices, payments, *)
(* prices and concurrent requests: what an invoice says was paid is what   *)
(* its settled payments add up to, its columns agree, a paid invoice is    *)
(* activated and the numbers of a month have no gap.                       *)
(*                                                                         *)
(* The sums are folds over sets.  What a fold computes is shown by         *)
(* induction over finite sets, stated through the least element of the set *)
(* of counterexamples, which needs no operator as a parameter.             *)
(***************************************************************************)
EXTENDS InvoiceLedger, FiniteSetTheorems, WellFoundedInduction, TLAPS

-----------------------------------------------------------------------------
(***************************************************************************)
(* The inductive invariant.                                                *)
(***************************************************************************)

Whys    == {"race", "crash", "again", "restated", "skipped", "forced", "grown", "deleted"}
Steps   == {"idle", "invoice", "item", "sum", "load", "totals", "status", "payment", "apply",
            "credit", "activate"}
RowRec  == [status : InvoiceStatus \cup {None}, total : Int, paid : Int, balance : Int]
PayRec  == [status : PaymentStatus \cup {None}, amount : Nat, of : Invoices \cup {None}]
ReqRec  == [pc : Steps, inv : Invoices \cup {None}, pays : SUBSET Payments,
            to : InvoiceStatus \cup PaymentStatus \cup {None},
            by : {None, "create", "verify", "bulk", "process"},
            no : Nat \X Nat, amount : Nat, sum : Nat, seen : RowRec]

\* The sets the variables range over.
Types ==
    /\ month \in 1 .. MaxMonth
    /\ inv \in [Invoices -> RowRec]
    /\ items \in [Invoices -> SUBSET Prices]
    /\ number \in [Invoices -> Nat \X Nat]
    /\ pay \in [Payments -> PayRec]
    /\ payno \in [Payments -> Nat \X Nat]
    /\ req \in [Requests -> ReqRec]
    /\ flaws \in [Invoices -> SUBSET Whys]

\* What a row refers to is there.
RowRefs ==
    /\ \A i \in Invoices :
          /\ Exists(i) <=> number[i] # NoNumber
          /\ items[i] # {} => Exists(i)
    /\ \A p \in Payments :
          /\ payno[p] # NoNumber => Recorded(p)
          /\ Recorded(p) => pay[p].amount \in Amounts /\ pay[p].of \in Invoices
                            /\ Exists(pay[p].of)

\* The sum of the amounts of rows or requests.  SumOf(ps) is AmountSum(pay, ps).
AmountSum(F, S) == MapThenSumSet(LAMBDA x : F[x].amount, S)

\* What the record r of an operation says at each of its steps, about the rows rs
\* and the payments ps.  One that settles payments carries the sum of theirs,
\* although others may change them meanwhile.
Carries(r, rs, ps) ==
    /\ r.pc \notin {"idle", "invoice"} => r.inv \in Invoices /\ rs[r.inv].status # None
    /\ r.pc = "item" => r.amount \in Prices
    /\ r.pc = "payment" => r.amount \in Amounts
    /\ r.pc = "status" => r.to \in {"paid", "overdue"}
    /\ r.pc \in {"totals", "status", "credit"} => r.seen.status # None
    /\ r.by # None => r.pc = "credit"
    /\ r.pc # "credit" => r.pays = {}
    /\ r.pc = "credit" =>
          /\ \A p \in r.pays : ps[p].status # None /\ ps[p].of = r.inv
          /\ r.by = "create" => r.pays = {}
          /\ r.by # "create" => r.to \in Counted /\ r.amount = AmountSum(ps, r.pays)

ReqRefs == \A h \in Requests : Carries(req[h], inv, pay)

\* The rows numbered in month m; a number that was drawn as count plus one.
Mine(numbers, m)   == {r \in DOMAIN numbers : numbers[r][1] = m}
Drawn(numbers, no) ==
    no[1] \in 1 .. MaxMonth /\ no[2] \in 1 .. (Cardinality(Mine(numbers, no[1])) + 1)

Numbers ==
    /\ NumbersGapless
    /\ \A h \in Requests :
          /\ req[h].pc = "invoice" => Drawn(number, req[h].no)
          /\ req[h].pc = "payment" => Drawn(payno, req[h].no)

IInv == /\ Types /\ RowRefs /\ ReqRefs /\ Numbers
        /\ BalanceAddsUp /\ TotalFollowsItems /\ PaidIsActivated /\ PaidMatchesPayments

-----------------------------------------------------------------------------
(***************************************************************************)
(* Sums over finite sets.                                                  *)
(***************************************************************************)

\* The element that the folds of FiniteSetsExt take next.
Pick(s) == CHOOSE x \in s : TRUE

\* What is picked is an element.
LEMMA PickIn == ASSUME NEW s, s # {} PROVE Pick(s) \in s
  BY DEF Pick

\* AmountSum, its folds expanded: a function over the subsets that satisfies the
\* recursion, if there is one.
LEMMA AmountSumDef ==
    ASSUME NEW F, NEW S
    PROVE  AmountSum(F, S) =
             (CHOOSE g : g = [s \in SUBSET S |-> IF s = {} THEN 0
                                ELSE F[Pick(s)].amount + g[s \ {Pick(s)}]])[S]
  BY DEF AmountSum, MapThenSumSet, MapThenFoldSet, Pick

\* The same of SumSet.
LEMMA SumSetDef ==
    ASSUME NEW S
    PROVE  SumSet(S) =
             (CHOOSE g : g = [s \in SUBSET S |-> IF s = {} THEN 0
                                ELSE Pick(s) + g[s \ {Pick(s)}]])[S]
  BY DEF SumSet, FoldSet, MapThenFoldSet, Pick

\* Induction over the subsets of a finite set: a set of them has a least one.
LEMMA LeastSubset ==
    ASSUME NEW S, IsFiniteSet(S), NEW T, T \subseteq SUBSET S, T # {}
    PROVE  \E x \in T : \A y \in T : y \subseteq x => y = x
<1>1. IsWellFoundedOn(StrictSubsetOrdering(S), FiniteSubsetsOf(S))
  BY FS_StrictSubsetOrderingWellFounded
<1>2. T \subseteq FiniteSubsetsOf(S)
  BY FS_Subset DEF FiniteSubsetsOf
<1>3. \E x \in T : \A y \in T : ~ (<<y, x>> \in StrictSubsetOrdering(S))
  BY <1>1, <1>2, WFMin
<1> QED
  BY <1>3 DEF StrictSubsetOrdering

\* Induction over the natural numbers: a set of them has a least one.
LEMMA LeastNatural ==
    ASSUME NEW S \in SUBSET Nat, S # {}
    PROVE  \E m \in S : \A n \in S : m <= n
<1> DEFINE less == {ss \in Nat \X Nat : ss[1] < ss[2]}
<1>1. IsWellFoundedOn(less, Nat)
  BY NatLessThanWellFounded, Zenon DEF OpToRel
<1> HIDE DEF less
<1>2. PICK m \in S : \A n \in S : <<n, m>> \notin less
  BY <1>1, WFMin
<1>3. ASSUME NEW n \in S
      PROVE  m <= n
  <2>1. n \in Nat /\ m \in Nat /\ <<n, m>> \notin less
    BY <1>2
  <2>2. <<n, m>> \in Nat \X Nat /\ <<n, m>>[1] = n /\ <<n, m>>[2] = m
    BY <2>1
  <2>3. ~ (n < m)
    BY <2>1, <2>2 DEF less
  <2> QED
    BY <2>1, <2>3
<1> QED
  BY <1>3

\* g adds up G over every subset of S, one picked element after the other.
Adds(g, G, S) ==
    \A s \in SUBSET S : g[s] = IF s = {} THEN 0 ELSE G[Pick(s)] + g[s \ {Pick(s)}]

\* The same, of natural numbers.
AddsNats(g, G, S) == G \in [S -> Nat] /\ g \in [SUBSET S -> Nat] /\ Adds(g, G, S)

\* A function that adds up G exists: one that does so for the subsets of up to n
\* elements can be extended to those of n + 1.
LEMMA SumExists ==
    ASSUME NEW S, IsFiniteSet(S), NEW G \in [S -> Nat]
    PROVE  \E g \in [SUBSET S -> Nat] : Adds(g, G, S)
<1> DEFINE Rest(g, s) == IF s = {} THEN 0 ELSE G[Pick(s)] + g[s \ {Pick(s)}]
           Upto(n) == \E g \in [SUBSET S -> Nat] :
                        \A s \in SUBSET S : Cardinality(s) <= n => g[s] = Rest(g, s)
           Bad == {n \in Nat : ~ Upto(n)}
<1>1. Upto(0)
  <2> DEFINE g == [s \in SUBSET S |-> 0]
  <2>1. g \in [SUBSET S -> Nat]
    OBVIOUS
  <2>2. ASSUME NEW s \in SUBSET S, Cardinality(s) <= 0
        PROVE  g[s] = Rest(g, s)
    <3>1. IsFiniteSet(s)
      BY FS_Subset
    <3>2. s = {}
      BY <2>2, <3>1, FS_CardinalityType, FS_EmptySet
    <3> QED
      BY <3>2
  <2> QED
    BY <2>1, <2>2
<1>2. ASSUME NEW n \in Nat, Upto(n)
      PROVE  Upto(n + 1)
  <2>1. PICK g \in [SUBSET S -> Nat] :
           \A s \in SUBSET S : Cardinality(s) <= n => g[s] = Rest(g, s)
    BY <1>2
  <2> DEFINE k == [s \in SUBSET S |-> Rest(g, s)]
  <2>2. k \in [SUBSET S -> Nat]
    <3>1. ASSUME NEW s \in SUBSET S PROVE Rest(g, s) \in Nat
      <4>1. CASE s = {}
        BY <4>1
      <4>2. CASE s # {}
        <5>1. Pick(s) \in S /\ s \ {Pick(s)} \in SUBSET S
          BY <4>2, PickIn
        <5>2. G[Pick(s)] \in Nat /\ g[s \ {Pick(s)}] \in Nat
          BY <5>1
        <5> QED
          BY <4>2, <5>2
      <4> QED
        BY <4>1, <4>2
    <3> HIDE DEF Rest
    <3> QED
      BY <3>1
  <2>3. ASSUME NEW s \in SUBSET S, Cardinality(s) <= n + 1
        PROVE  k[s] = Rest(k, s)
    <3>1. CASE s = {}
      BY <3>1
    <3>2. CASE s # {}
      <4> DEFINE t == s \ {Pick(s)}
      <4>1. Pick(s) \in s /\ t \in SUBSET S /\ IsFiniteSet(s)
        BY <3>2, PickIn, FS_Subset
      <4>2. Cardinality(t) <= n
        <5>1. Cardinality(s) \in Nat
          BY <4>1, FS_CardinalityType
        <5>2. Cardinality(t) = Cardinality(s) - 1
          <6>1. IsFiniteSet(s) /\ Pick(s) \in s
            BY <4>1
          <6> QED
            BY ONLY <6>1, FS_RemoveElement
        <5> HIDE DEF t
        <5> QED
          BY <2>3, <5>1, <5>2
      <4>3. g[t] = Rest(g, t)
        BY <2>1, <4>1, <4>2
      <4>4. k[t] = g[t]
        <5> HIDE DEF Rest, t
        <5> QED
          BY <4>1, <4>3
      <4>5. k[s] = G[Pick(s)] + g[t]
        BY <3>2
      <4> QED
        BY <3>2, <4>4, <4>5
    <3> QED
      BY <3>1, <3>2
  <2> HIDE DEF k, Rest
  <2> QED
    BY <2>2, <2>3
<1> HIDE DEF Upto
<1>3. Bad = {}
  <2> SUFFICES ASSUME Bad # {} PROVE FALSE
    OBVIOUS
  <2>1. PICK m \in Bad : \A n \in Bad : m <= n
    BY LeastNatural
  <2>2. m \in Nat /\ m # 0 /\ ~ Upto(m)
    BY <1>1, <2>1
  <2>3. m - 1 \in Nat /\ m - 1 \notin Bad
    BY <2>1, <2>2
  <2>4. Upto((m - 1) + 1)
    BY <1>2, <2>3
  <2> QED
    BY <2>2, <2>4
<1>4. Upto(Cardinality(S))
  BY <1>3, FS_CardinalityType
<1>5. PICK g \in [SUBSET S -> Nat] :
         \A s \in SUBSET S : Cardinality(s) <= Cardinality(S) => g[s] = Rest(g, s)
  BY <1>4 DEF Upto
<1>6. \A s \in SUBSET S : g[s] = Rest(g, s)
  BY <1>5, FS_Subset
<1> QED
  BY <1>6 DEF Adds

\* There is only one, even for another function that has the same values.
LEMMA SumsAgree ==
    ASSUME NEW S, IsFiniteSet(S), NEW g, NEW G, Adds(g, G, S),
           NEW T, NEW k, NEW K, Adds(k, K, T), S \subseteq T,
           \A x \in S : G[x] = K[x]
    PROVE  g[S] = k[S]
<1> DEFINE Bad == {s \in SUBSET S : g[s] # k[s]}
<1>1. SUFFICES Bad = {}
  OBVIOUS
<1>2. SUFFICES ASSUME Bad # {} PROVE FALSE
  OBVIOUS
<1>3. PICK s \in Bad : \A t \in Bad : t \subseteq s => t = s
  <2>1. Bad \subseteq SUBSET S
    OBVIOUS
  <2> HIDE DEF Bad
  <2> QED
    BY <1>2, <2>1, LeastSubset
<1>4. s # {}
  BY <1>3 DEF Adds
<1>5. Pick(s) \in s
  BY <1>4, PickIn
<1>6. g[s] = G[Pick(s)] + g[s \ {Pick(s)}] /\ k[s] = K[Pick(s)] + k[s \ {Pick(s)}]
  BY <1>3, <1>4 DEF Adds
<1>7. s \ {Pick(s)} \notin Bad
  BY <1>3, <1>5
<1>8. g[s \ {Pick(s)}] = k[s \ {Pick(s)}]
  BY <1>3, <1>7
<1>9. G[Pick(s)] = K[Pick(s)]
  BY <1>3, <1>5
<1> QED
  BY <1>3, <1>6, <1>8, <1>9

\* The sum of a set is that of the set without x, and x, whichever is picked first.
LEMMA SumWithout ==
    ASSUME NEW S, IsFiniteSet(S), NEW G, NEW g, AddsNats(g, G, S)
    PROVE  \A x \in S : g[S] = G[x] + g[S \ {x}]
<1> USE DEF AddsNats
<1> DEFINE Bad == {s \in SUBSET S : \E y \in s : g[s] # G[y] + g[s \ {y}]}
<1>1. SUFFICES ASSUME Bad # {} PROVE FALSE
  OBVIOUS
<1>2. PICK s \in Bad : \A t \in Bad : t \subseteq s => t = s
  <2>1. Bad \subseteq SUBSET S
    OBVIOUS
  <2> HIDE DEF Bad
  <2> QED
    BY <1>1, <2>1, LeastSubset
<1>3. PICK y \in s : g[s] # G[y] + g[s \ {y}]
  BY <1>2
<1> DEFINE c == Pick(s)
<1>4. c \in s /\ g[s] = G[c] + g[s \ {c}]
  BY <1>2, <1>3, PickIn DEF Adds
<1>5. c # y
  BY <1>3, <1>4
<1> HIDE DEF c
<1>6. s \ {c} \notin Bad /\ s \ {y} \notin Bad
  BY <1>2, <1>3, <1>4
<1>7. g[s \ {c}] = G[y] + g[(s \ {c}) \ {y}]
  BY <1>2, <1>3, <1>5, <1>6
<1>8. g[s \ {y}] = G[c] + g[(s \ {y}) \ {c}]
  BY <1>2, <1>4, <1>5, <1>6
<1>9. (s \ {c}) \ {y} = (s \ {y}) \ {c}
  OBVIOUS
<1> DEFINE r == g[(s \ {y}) \ {c}]
<1>10. G[c] \in Nat /\ G[y] \in Nat /\ r \in Nat
  BY <1>2, <1>3, <1>4
<1>11. g[s] = G[c] + (G[y] + r) /\ g[s \ {y}] = G[c] + r
  BY <1>4, <1>7, <1>8, <1>9
<1> HIDE DEF r
<1> QED
  BY <1>3, <1>10, <1>11

\* What AmountSum chooses adds up the amounts.
LEMMA AmountSumIs ==
    ASSUME NEW S, IsFiniteSet(S), NEW F, \A x \in S : F[x].amount \in Nat
    PROVE  \E g \in [SUBSET S -> Nat] :
              Adds(g, [x \in S |-> F[x].amount], S) /\ g[S] = AmountSum(F, S)
<1> DEFINE G == [x \in S |-> F[x].amount]
           Folds(g) == g = [s \in SUBSET S |-> IF s = {} THEN 0
                              ELSE F[Pick(s)].amount + g[s \ {Pick(s)}]]
           c == CHOOSE g : Folds(g)
<1>1. G \in [S -> Nat]
  OBVIOUS
<1>2. PICK k \in [SUBSET S -> Nat] : Adds(k, G, S)
  BY <1>1, SumExists
<1>3. \A s \in SUBSET S : s # {} => G[Pick(s)] = F[Pick(s)].amount
  BY PickIn
<1>4. Folds(k)
  <2> HIDE DEF G
  <2> QED
    BY <1>2, <1>3 DEF Adds
<1>5. Folds(c)
  <2> HIDE DEF Folds
  <2> QED
    BY <1>4
<1>6. AmountSum(F, S) = c[S]
  BY AmountSumDef
<1> HIDE DEF c
<1>7. Adds(c, G, S)
  <2> HIDE DEF G
  <2> QED
    BY <1>3, <1>5 DEF Adds
<1> HIDE DEF G
<1>8. c[S] = k[S]
  BY <1>2, <1>7, SumsAgree
<1> QED
  BY <1>2, <1>6, <1>8 DEF G

\* A sum of natural numbers is one.
LEMMA AmountSumNat ==
    ASSUME NEW S, IsFiniteSet(S), NEW F, \A x \in S : F[x].amount \in Nat
    PROVE  AmountSum(F, S) \in Nat
<1>1. PICK g \in [SUBSET S -> Nat] : g[S] = AmountSum(F, S)
  BY AmountSumIs
<1> QED
  BY <1>1

\* Nothing adds up to zero.
LEMMA AmountSumEmpty == \A F : AmountSum(F, {}) = 0
<1> TAKE F
<1>1. PICK g \in [SUBSET {} -> Nat] :
         Adds(g, [x \in {} |-> F[x].amount], {}) /\ g[{}] = AmountSum(F, {})
  BY AmountSumIs, FS_EmptySet
<1> QED
  BY <1>1 DEF Adds

\* Tables with the same amounts have the same sum.
LEMMA AmountSumSame ==
    ASSUME NEW S, IsFiniteSet(S), NEW F, NEW H,
           \A x \in S : F[x].amount \in Nat /\ F[x].amount = H[x].amount
    PROVE  AmountSum(F, S) = AmountSum(H, S)
<1> DEFINE G == [x \in S |-> F[x].amount]
           K == [x \in S |-> H[x].amount]
<1>1. PICK g \in [SUBSET S -> Nat] : Adds(g, G, S) /\ g[S] = AmountSum(F, S)
  BY AmountSumIs
<1>2. PICK k \in [SUBSET S -> Nat] : Adds(k, K, S) /\ k[S] = AmountSum(H, S)
  BY AmountSumIs
<1>3. \A x \in S : G[x] = K[x]
  OBVIOUS
<1> HIDE DEF G, K
<1>4. g[S] = k[S]
  BY <1>1, <1>2, <1>3, SumsAgree
<1> QED
  BY <1>1, <1>2, <1>4

\* A new element adds its amount.
LEMMA AmountSumAdd ==
    ASSUME NEW S, IsFiniteSet(S), NEW x, x \notin S, NEW F,
           \A y \in S \cup {x} : F[y].amount \in Nat
    PROVE  AmountSum(F, S \cup {x}) = AmountSum(F, S) + F[x].amount
<1> DEFINE U == S \cup {x}
           G == [y \in S |-> F[y].amount]
           K == [y \in U |-> F[y].amount]
<1>1. IsFiniteSet(U) /\ S \subseteq U /\ x \in U /\ U \ {x} = S
  BY FS_AddElement
<1>2. PICK g \in [SUBSET S -> Nat] : Adds(g, G, S) /\ g[S] = AmountSum(F, S)
  BY AmountSumIs
<1>3. PICK k \in [SUBSET U -> Nat] : Adds(k, K, U) /\ k[U] = AmountSum(F, U)
  BY <1>1, AmountSumIs
<1>4. K \in [U -> Nat] /\ K[x] = F[x].amount /\ \A y \in S : G[y] = K[y]
  OBVIOUS
<1> HIDE DEF U, G, K
<1>5. g[S] = k[S]
  BY <1>1, <1>2, <1>3, <1>4, SumsAgree
<1>6. k[U] = K[x] + k[S]
  <2>1. AddsNats(k, K, U)
    BY <1>3, <1>4 DEF AddsNats
  <2>2. k[U] = K[x] + k[U \ {x}]
    BY <1>1, <2>1, SumWithout
  <2> QED
    BY <1>1, <2>2
<1>7. k[S] \in Nat /\ K[x] \in Nat
  BY <1>1, <1>3, <1>4
<1>8. AmountSum(F, U) = AmountSum(F, S) + F[x].amount
  <2>1. AmountSum(F, U) = k[U] /\ AmountSum(F, S) = k[S] /\ K[x] = F[x].amount
    BY <1>2, <1>3, <1>4, <1>5
  <2> QED
    BY <1>6, <1>7, <2>1
<1> QED
  BY <1>8 DEF U

\* The sum over two disjoint sets is the sum of their sums.
LEMMA AmountSumUnion ==
    ASSUME NEW A, IsFiniteSet(A), NEW B, IsFiniteSet(B), A \cap B = {}, NEW F,
           \A y \in A \cup B : F[y].amount \in Nat
    PROVE  AmountSum(F, A \cup B) = AmountSum(F, A) + AmountSum(F, B)
<1> DEFINE Bad == {b \in SUBSET B : AmountSum(F, A \cup b) # AmountSum(F, A) + AmountSum(F, b)}
<1>1. SUFFICES ASSUME Bad # {} PROVE FALSE
  OBVIOUS
<1>2. PICK b \in Bad : \A t \in Bad : t \subseteq b => t = b
  <2>1. Bad \subseteq SUBSET B
    OBVIOUS
  <2> HIDE DEF Bad
  <2> QED
    BY <1>1, <2>1, LeastSubset
<1>3. AmountSum(F, A) \in Nat
  BY AmountSumNat
<1>4. b # {}
  <2>1. A \cup {} = A
    OBVIOUS
  <2>2. AmountSum(F, A \cup {}) = AmountSum(F, A) + AmountSum(F, {})
    BY <1>3, <2>1, AmountSumEmpty
  <2> QED
    BY <1>2, <2>2
<1>5. PICK x \in b : TRUE
  BY <1>4
<1> DEFINE r == b \ {x}
<1>6. r \notin Bad /\ r \in SUBSET B /\ x \notin r /\ r \cup {x} = b
      /\ x \notin A \cup r /\ (A \cup r) \cup {x} = A \cup b
  BY <1>2, <1>5
<1>7. IsFiniteSet(r) /\ IsFiniteSet(A \cup r)
  BY <1>6, FS_Subset, FS_Union
<1>8. AmountSum(F, A \cup r) = AmountSum(F, A) + AmountSum(F, r)
  BY <1>6
<1>9. /\ \A y \in r \cup {x} : F[y].amount \in Nat
      /\ \A y \in (A \cup r) \cup {x} : F[y].amount \in Nat
      /\ F[x].amount \in Nat
  BY <1>2, <1>5
<1> HIDE DEF r
<1>10. AmountSum(F, b) = AmountSum(F, r) + F[x].amount
  BY <1>6, <1>7, <1>9, AmountSumAdd
<1>11. AmountSum(F, A \cup b) = AmountSum(F, A \cup r) + F[x].amount
  BY <1>6, <1>7, <1>9, AmountSumAdd
<1>12. AmountSum(F, r) \in Nat
  BY <1>7, <1>9, AmountSumNat
<1>13. AmountSum(F, A \cup b) = AmountSum(F, A) + AmountSum(F, b)
  BY <1>3, <1>8, <1>9, <1>10, <1>11, <1>12
<1> QED
  BY <1>2, <1>13

\* The sum of a set of prices is a natural number.
LEMMA SumSetNat ==
    ASSUME NEW S \in SUBSET Nat, IsFiniteSet(S)
    PROVE  SumSet(S) \in Nat
<1> DEFINE G == [x \in S |-> x]
           Folds(g) == g = [s \in SUBSET S |-> IF s = {} THEN 0 ELSE Pick(s) + g[s \ {Pick(s)}]]
           c == CHOOSE g : Folds(g)
<1>1. G \in [S -> Nat]
  OBVIOUS
<1>2. PICK k \in [SUBSET S -> Nat] : Adds(k, G, S)
  BY <1>1, SumExists
<1>3. \A s \in SUBSET S : s # {} => G[Pick(s)] = Pick(s)
  BY PickIn
<1>4. Folds(k)
  <2> HIDE DEF G
  <2> QED
    BY <1>2, <1>3 DEF Adds
<1>5. Folds(c)
  <2> HIDE DEF Folds
  <2> QED
    BY <1>4
<1>6. SumSet(S) = c[S]
  BY SumSetDef
<1> HIDE DEF c
<1>7. Adds(c, G, S)
  <2> HIDE DEF G
  <2> QED
    BY <1>3, <1>5 DEF Adds
<1> HIDE DEF G
<1>8. c[S] = k[S]
  BY <1>2, <1>7, SumsAgree
<1> QED
  BY <1>2, <1>6, <1>8

\* Flush of the row a, loaded as s and changed to n.
FlushOf(a, s, n) == [c \in DOMAIN n |-> IF n[c] = s[c] THEN a[c] ELSE n[c]]

\* The columns of a row.
LEMMA RowDomain ==
    ASSUME NEW n \in RowRec
    PROVE  DOMAIN n = {"status", "total", "paid", "balance"}
  BY DEF RowRec

\* What a commit writes, column by column.
LEMMA FlushFields ==
    ASSUME NEW a \in RowRec, NEW s \in RowRec, NEW n \in RowRec
    PROVE  LET f == FlushOf(a, s, n) IN
           /\ f.status  = IF n.status = s.status THEN a.status ELSE n.status
           /\ f.total   = IF n.total = s.total THEN a.total ELSE n.total
           /\ f.paid    = IF n.paid = s.paid THEN a.paid ELSE n.paid
           /\ f.balance = IF n.balance = s.balance THEN a.balance ELSE n.balance
<1>1. DOMAIN n = {"status", "total", "paid", "balance"}
  BY RowDomain
<1> QED
  BY <1>1 DEF FlushOf

\* What a commit writes is a row.
LEMMA FlushIn ==
    ASSUME NEW a \in RowRec, NEW s \in RowRec, NEW n \in RowRec
    PROVE  FlushOf(a, s, n) \in RowRec
<1> DEFINE f == FlushOf(a, s, n)
<1>1. DOMAIN n = {"status", "total", "paid", "balance"}
  BY RowDomain
<1>2. f = [c \in {"status", "total", "paid", "balance"} |-> f[c]]
  BY <1>1 DEF FlushOf
<1>3. f.status \in InvoiceStatus \cup {None} /\ f.total \in Int /\ f.paid \in Int /\ f.balance \in Int
  BY FlushFields DEF RowRec
<1>4. f = [status |-> f.status, total |-> f.total, paid |-> f.paid, balance |-> f.balance]
  <2> HIDE DEF f
  <2> QED BY <1>2
<1> QED
  BY <1>3, <1>4 DEF RowRec

-----------------------------------------------------------------------------
(***************************************************************************)
(* The two sides of PaidMatchesPayments.                                   *)
(***************************************************************************)

\* An operation that has booked a payment and not yet credited it; those of
\* invoice i in the table rq; the settled payments of i in the table ps.
Waits(r)       == r.pc = "apply" \/ r.by = "create"
Waiting(rq, i) == {h \in Requests : rq[h].inv = i /\ (rq[h].pc = "apply" \/ rq[h].by = "create")}
Settled(ps, i) == {p \in Payments : ps[p].of = i /\ ps[p].status \in Counted}
OpenSum(rq, i) == AmountSum(rq, Waiting(rq, i))
PaidSum(ps, i) == AmountSum(ps, Settled(ps, i))

Matches(i, rs, rq, ps, fl) ==
    rs[i].status # None /\ fl[i] \cap {"race", "crash", "again", "restated"} = {} =>
        rs[i].paid + OpenSum(rq, i) = PaidSum(ps, i)

\* PaidMatchesPayments, now and in the next state, in terms of the tables.
LEMMA MatchesIs ==
    /\ PaidMatchesPayments <=> \A i \in Invoices : Matches(i, inv, req, pay, flaws)
    /\ PaidMatchesPayments' <=> \A i \in Invoices : Matches(i, inv', req', pay', flaws')
<1>1. PaidMatchesPayments <=> \A i \in Invoices : Matches(i, inv, req, pay, flaws)
  BY DEF PaidMatchesPayments, Matches, Clean, Exists, Unapplied, SumOf, OpenSum, PaidSum,
         AmountSum, Waiting, Settled
<1>2. PaidMatchesPayments' <=> \A i \in Invoices : Matches(i, inv', req', pay', flaws')
  <2>1. ASSUME NEW i
        PROVE  Unapplied(i)' = OpenSum(req', i)
    BY DEF Unapplied, OpenSum, Waiting, AmountSum, MapThenSumSet, MapThenFoldSet
  <2>2. ASSUME NEW i
        PROVE  SumOf({p \in Payments : pay[p].of = i /\ pay[p].status \in Counted})'
               = PaidSum(pay', i)
    BY DEF SumOf, PaidSum, Settled, AmountSum, MapThenSumSet, MapThenFoldSet
  <2> QED
    BY <2>1, <2>2 DEF PaidMatchesPayments, Matches, Clean, Exists
<1> QED
  BY <1>1, <1>2

\* SumOf in terms of AmountSum.
LEMMA SumOfIs == \A ps : SumOf(ps) = AmountSum(pay, ps)
  BY DEF SumOf, AmountSum

\* The sets are finite and their amounts are numbers.
LEMMA TablesFinite ==
    /\ \A f \in [Requests -> ReqRec] : \A i : 
          /\ IsFiniteSet(Waiting(f, i)) /\ Waiting(f, i) \subseteq Requests
          /\ \A h \in Waiting(f, i) : f[h].amount \in Nat
    /\ \A f \in [Payments -> PayRec] : \A i : 
          /\ IsFiniteSet(Settled(f, i)) /\ Settled(f, i) \subseteq Payments
          /\ \A p \in Settled(f, i) : f[p].amount \in Nat
<1>1. ASSUME NEW f \in [Requests -> ReqRec], NEW i
      PROVE  /\ IsFiniteSet(Waiting(f, i)) /\ Waiting(f, i) \subseteq Requests
             /\ \A h \in Waiting(f, i) : f[h].amount \in Nat
  <2>1. Waiting(f, i) \subseteq Requests
    BY DEF Waiting
  <2>2. \A h \in Requests : f[h].amount \in Nat
    BY DEF ReqRec
  <2> QED
    BY <2>1, <2>2, LedgerAssumption, FS_Subset
<1>2. ASSUME NEW f \in [Payments -> PayRec], NEW i
      PROVE  /\ IsFiniteSet(Settled(f, i)) /\ Settled(f, i) \subseteq Payments
             /\ \A p \in Settled(f, i) : f[p].amount \in Nat
  <2>1. Settled(f, i) \subseteq Payments
    BY DEF Settled
  <2>2. \A p \in Payments : f[p].amount \in Nat
    BY DEF PayRec
  <2> QED
    BY <2>1, <2>2, LedgerAssumption, FS_Subset
<1> QED
  BY <1>1, <1>2

\* The sums are numbers.
LEMMA OpenNat ==
    ASSUME NEW f \in [Requests -> ReqRec]
    PROVE  \A i : OpenSum(f, i) \in Nat
<1> TAKE i
<1>1. IsFiniteSet(Waiting(f, i)) /\ \A h \in Waiting(f, i) : f[h].amount \in Nat
  BY TablesFinite
<1> QED
  BY <1>1, AmountSumNat DEF OpenSum

\* f and g are tables of operations that differ at most in h.
Replaces(f, g, h) ==
    /\ f \in [Requests -> ReqRec] /\ g \in [Requests -> ReqRec]
    /\ \A k \in Requests : k # h => g[k] = f[k]

\* A step of one operation that changes neither what it waits for nor how much.
LEMMA OpenSame ==
    ASSUME NEW f, NEW g, NEW h \in Requests, Replaces(f, g, h),
           Waits(g[h]) <=> Waits(f[h]),
           Waits(f[h]) => g[h].inv = f[h].inv /\ g[h].amount = f[h].amount
    PROVE  \A i : OpenSum(g, i) = OpenSum(f, i)
<1> USE DEF Replaces
<1> TAKE i
<1>1. Waiting(g, i) = Waiting(f, i)
  BY DEF Waiting, Waits
<1>2. \A k \in Waiting(f, i) : f[k].amount \in Nat /\ f[k].amount = g[k].amount
  BY TablesFinite DEF Waiting, Waits
<1>3. AmountSum(f, Waiting(f, i)) = AmountSum(g, Waiting(f, i))
  BY <1>2, TablesFinite, AmountSumSame
<1> QED
  BY <1>1, <1>3 DEF OpenSum

\* An operation that begins to wait adds its amount.
LEMMA OpenMore ==
    ASSUME NEW f, NEW g, NEW h \in Requests, Replaces(f, g, h),
           Waits(g[h]), ~ Waits(f[h])
    PROVE  \A i : OpenSum(g, i) = OpenSum(f, i) + (IF i = g[h].inv THEN g[h].amount ELSE 0)
<1> USE DEF Replaces
<1> TAKE i
<1> DEFINE W == Waiting(f, i)
<1>1. /\ h \notin W /\ IsFiniteSet(W) /\ W \subseteq Requests
      /\ \A k \in W : f[k].amount \in Nat
  BY TablesFinite DEF Waiting, Waits
<1>2. \A k \in W : f[k].amount = g[k].amount
  BY <1>1
<1>3. \A k \in W \cup {h} : g[k].amount \in Nat
  BY <1>1 DEF ReqRec
<1>4. Waiting(g, i) = IF i = g[h].inv THEN W \cup {h} ELSE W
  BY DEF Waiting, Waits
<1> HIDE DEF W
<1>5. AmountSum(f, W) = AmountSum(g, W)
  BY <1>1, <1>2, AmountSumSame
<1>6. AmountSum(g, W \cup {h}) = AmountSum(g, W) + g[h].amount
  BY <1>1, <1>3, AmountSumAdd
<1>7. AmountSum(g, W) \in Nat
  BY <1>1, <1>3, AmountSumNat
<1>8. OpenSum(f, i) = AmountSum(f, W) /\ OpenSum(g, i) = AmountSum(g, Waiting(g, i))
  BY DEF OpenSum, W
<1>9. CASE i = g[h].inv
  BY <1>4, <1>5, <1>6, <1>8, <1>9
<1>10. CASE i # g[h].inv
  BY <1>4, <1>5, <1>7, <1>8, <1>10
<1> QED
  BY <1>9, <1>10

\* A step of an operation that waits for one invoice changes nothing for another.
LEMMA OpenOther ==
    ASSUME NEW f, NEW g, NEW h \in Requests, Replaces(f, g, h), NEW i,
           Waits(f[h]) => f[h].inv # i, Waits(g[h]) => g[h].inv # i
    PROVE  OpenSum(g, i) = OpenSum(f, i)
<1> USE DEF Replaces
<1>1. Waiting(g, i) = Waiting(f, i)
  BY DEF Waiting, Waits
<1>2. \A k \in Waiting(f, i) : f[k].amount \in Nat /\ f[k].amount = g[k].amount
  <2>1. \A k \in Waiting(f, i) : k # h
    BY DEF Waiting, Waits
  <2> QED
    BY <2>1, TablesFinite
<1>3. AmountSum(f, Waiting(f, i)) = AmountSum(g, Waiting(f, i))
  BY <1>2, TablesFinite, AmountSumSame
<1> QED
  BY <1>1, <1>3 DEF OpenSum

\* f and g are tables of payments.
PayTables(f, g) == f \in [Payments -> PayRec] /\ g \in [Payments -> PayRec]

\* A change of payments that leaves the settled ones of an invoice, and their
\* amounts, as they are.
LEMMA PaidSame ==
    ASSUME NEW f, NEW g, PayTables(f, g), NEW i,
           Settled(g, i) = Settled(f, i),
           \A p \in Settled(f, i) : g[p].amount = f[p].amount
    PROVE  PaidSum(g, i) = PaidSum(f, i)
<1> USE DEF PayTables
<1>1. AmountSum(f, Settled(f, i)) = AmountSum(g, Settled(f, i))
  BY TablesFinite, AmountSumSame
<1> QED
  BY <1>1 DEF PaidSum

\* Payments of an invoice that become settled add their amounts.
LEMMA PaidMore ==
    ASSUME NEW f, NEW g, PayTables(f, g), NEW i,
           NEW N \in SUBSET Payments, Settled(f, i) \cap N = {},
           Settled(g, i) = Settled(f, i) \cup N,
           \A p \in Settled(f, i) : g[p].amount = f[p].amount
    PROVE  PaidSum(g, i) = PaidSum(f, i) + AmountSum(g, N)
<1> USE DEF PayTables
<1> DEFINE A == Settled(f, i)
<1>1. IsFiniteSet(A) /\ A \subseteq Payments /\ \A p \in A : f[p].amount \in Nat
  BY TablesFinite
<1>2. IsFiniteSet(N)
  BY LedgerAssumption, FS_Subset
<1>3. \A p \in A \cup N : g[p].amount \in Nat
  BY <1>1 DEF PayRec
<1> HIDE DEF A
<1>4. AmountSum(g, A \cup N) = AmountSum(g, A) + AmountSum(g, N)
  BY <1>1, <1>2, <1>3, AmountSumUnion DEF A
<1>5. AmountSum(f, A) = AmountSum(g, A)
  BY <1>1, AmountSumSame DEF A
<1> QED
  BY <1>4, <1>5 DEF PaidSum, A

-----------------------------------------------------------------------------
(***************************************************************************)
(* Numbers.                                                                *)
(***************************************************************************)

\* Gapless in terms of Mine.
LEMMA GaplessIs ==
    \A f : Gapless(f) <=> \A m \in 1 .. MaxMonth :
                             {f[r][2] : r \in Mine(f, m)} = 1 .. Cardinality(Mine(f, m))
  BY DEF Gapless, Mine

\* Nothing is numbered in the beginning.
LEMMA GaplessInit ==
    ASSUME NEW R
    PROVE  Gapless([r \in R |-> NoNumber])
<1> DEFINE f == [r \in R |-> NoNumber]
<1>1. ASSUME NEW m \in 1 .. MaxMonth
      PROVE  {f[r][2] : r \in Mine(f, m)} = 1 .. Cardinality(Mine(f, m))
  <2>1. Mine(f, m) = {}
    BY LedgerAssumption DEF Mine, NoNumber
  <2>2. Cardinality(Mine(f, m)) = 0
    BY <2>1, FS_EmptySet
  <2> QED
    BY <2>1, <2>2
<1> QED
  BY <1>1, GaplessIs

\* Row r of f, one of the rows R, gets the number no.
Gives(f, g, R, r, no) == f \in [R -> Nat \X Nat] /\ g = [f EXCEPT ![r] = no]

\* A number that was drawn as the count plus one, and is not taken by now, is the
\* next one: whoever else drew it has not used it.
LEMMA GaplessStep ==
    ASSUME NEW R, IsFiniteSet(R), NEW f, NEW g, Gapless(f),
           NEW r \in R, f[r] = NoNumber,
           NEW no \in Nat \X Nat, Drawn(f, no), ~ Taken(f, no), Gives(f, g, R, r, no)
    PROVE  /\ Gapless(g)
           /\ \A x \in Nat \X Nat : Drawn(f, x) => Drawn(g, x)
<1> USE DEF Gives
<1> DEFINE m == no[1]
           M == Mine(f, m)
           c == Cardinality(M)
<1>1. /\ m \in 1 .. MaxMonth /\ m \in Nat /\ m # 0 /\ no[2] \in Nat /\ no[2] \in 1 .. (c + 1)
      /\ no = <<m, no[2]>>
  BY LedgerAssumption DEF Drawn
<1>2. M \subseteq R /\ IsFiniteSet(M) /\ c \in Nat
  <2>1. M \in SUBSET R
    BY DEF Mine
  <2> QED
    BY <2>1, FS_Subset, FS_CardinalityType
<1>3. {f[x][2] : x \in M} = 1 .. c
  BY <1>1, GaplessIs
<1>4. no[2] = c + 1
  <2>1. ASSUME no[2] \in 1 .. c PROVE FALSE
    <3>1. PICK x \in M : f[x][2] = no[2]
      BY <1>3, <2>1
    <3>2. x \in R /\ f[x] \in Nat \X Nat /\ f[x][1] = m
      BY <1>2, <3>1 DEF Mine
    <3>3. f[x] = no
      BY <1>1, <3>1, <3>2
    <3> QED
      BY <3>2, <3>3 DEF Taken
  <2> QED
    BY <1>1, <1>2, <2>1
<1>5. /\ g \in [R -> Nat \X Nat] /\ g[r] = no
      /\ \A x \in R : x # r => g[x] = f[x]
  OBVIOUS
<1>6. f[r][1] = 0
  BY DEF NoNumber
<1>7. ASSUME NEW n \in 1 .. MaxMonth, n # m
      PROVE  Mine(g, n) = Mine(f, n) /\ \A x \in Mine(f, n) : g[x] = f[x]
  BY <1>5, <1>6, <1>7, LedgerAssumption DEF Mine
<1>8. Mine(g, m) = M \cup {r} /\ r \notin M /\ \A x \in M : g[x] = f[x]
  BY <1>1, <1>5, <1>6 DEF Mine
<1>9. Cardinality(Mine(g, m)) = c + 1
  BY <1>2, <1>8, FS_AddElement
<1>10. {g[x][2] : x \in Mine(g, m)} = 1 .. (c + 1)
  <2> HIDE DEF M, c
  <2>1. {g[x][2] : x \in M} = 1 .. c
    BY <1>3, <1>8
  <2>2. {g[x][2] : x \in M \cup {r}} = {g[x][2] : x \in M} \cup {c + 1}
    BY <1>4, <1>5
  <2>3. (1 .. c) \cup {c + 1} = 1 .. (c + 1)
    BY <1>2
  <2> QED
    BY <1>8, <2>1, <2>2, <2>3
<1> HIDE DEF m, M, c
<1>11. Gapless(g)
  <2>1. ASSUME NEW n \in 1 .. MaxMonth
        PROVE  {g[x][2] : x \in Mine(g, n)} = 1 .. Cardinality(Mine(g, n))
    <3>1. CASE n = m
      BY <1>9, <1>10, <3>1
    <3>2. CASE n # m
      <4>1. {f[x][2] : x \in Mine(f, n)} = 1 .. Cardinality(Mine(f, n))
        BY GaplessIs
      <4>2. Mine(g, n) = Mine(f, n) /\ \A x \in Mine(f, n) : g[x] = f[x]
        BY <1>7, <3>2
      <4>3. {g[x][2] : x \in Mine(f, n)} = {f[x][2] : x \in Mine(f, n)}
        BY <4>2
      <4> QED
        BY <4>1, <4>2, <4>3
    <3> QED
      BY <3>1, <3>2
  <2> QED
    BY <2>1, GaplessIs
<1>12. ASSUME NEW x \in Nat \X Nat, Drawn(f, x)
       PROVE  Drawn(g, x)
  <2>1. CASE x[1] = m
    <3>1. Cardinality(Mine(f, x[1])) = c /\ Cardinality(Mine(g, x[1])) = c + 1
      BY <1>9, <2>1 DEF c, M
    <3> QED
      BY <1>2, <1>12, <3>1 DEF Drawn
  <2>2. CASE x[1] # m
    BY <1>7, <1>12, <2>2 DEF Drawn
  <2> QED
    BY <2>1, <2>2
<1> QED
  BY <1>11, <1>12

\* The number that is drawn.
LEMMA NextIsDrawn ==
    ASSUME month \in 1 .. MaxMonth, NEW R, IsFiniteSet(R), NEW f \in [R -> Nat \X Nat]
    PROVE  NextNumber(f) \in Nat \X Nat /\ Drawn(f, NextNumber(f))
<1>1. Mine(f, month) \in SUBSET R
  BY DEF Mine
<1>2. Cardinality(Mine(f, month)) \in Nat
  BY <1>1, FS_Subset, FS_CardinalityType
<1>3. NextNumber(f) = <<month, Cardinality(Mine(f, month)) + 1>>
  BY DEF NextNumber, Mine
<1> QED
  BY <1>2, <1>3, LedgerAssumption DEF Drawn

-----------------------------------------------------------------------------
(***************************************************************************)
(* The records, and the first state.                                       *)
(***************************************************************************)

\* The fields of a row, of a payment and of an operation.
LEMMA Shapes ==
    ASSUME Types
    PROVE  /\ \A i \in Invoices :
                 /\ inv[i] \in RowRec /\ inv[i].status \in InvoiceStatus \cup {None}
                 /\ inv[i].total \in Int /\ inv[i].paid \in Int /\ inv[i].balance \in Int
           /\ \A p \in Payments :
                 /\ pay[p] \in PayRec /\ pay[p].status \in PaymentStatus \cup {None}
                 /\ pay[p].amount \in Nat /\ pay[p].of \in Invoices \cup {None}
           /\ \A h \in Requests :
                 /\ req[h] \in ReqRec /\ req[h].pc \in Steps /\ req[h].inv \in Invoices \cup {None}
                 /\ req[h].pays \subseteq Payments /\ req[h].no \in Nat \X Nat
                 /\ req[h].amount \in Nat /\ req[h].sum \in Nat /\ req[h].seen \in RowRec
                 /\ req[h].by \in {None, "create", "verify", "bulk", "process"}
<1>1. ASSUME NEW i \in Invoices
      PROVE  /\ inv[i] \in RowRec /\ inv[i].status \in InvoiceStatus \cup {None}
             /\ inv[i].total \in Int /\ inv[i].paid \in Int /\ inv[i].balance \in Int
  BY DEF Types, RowRec
<1>2. ASSUME NEW p \in Payments
      PROVE  /\ pay[p] \in PayRec /\ pay[p].status \in PaymentStatus \cup {None}
             /\ pay[p].amount \in Nat /\ pay[p].of \in Invoices \cup {None}
  BY DEF Types, PayRec
<1>3. ASSUME NEW h \in Requests
      PROVE  /\ req[h] \in ReqRec /\ req[h].pc \in Steps /\ req[h].inv \in Invoices \cup {None}
             /\ req[h].pays \subseteq Payments /\ req[h].no \in Nat \X Nat
             /\ req[h].amount \in Nat /\ req[h].sum \in Nat /\ req[h].seen \in RowRec
             /\ req[h].by \in {None, "create", "verify", "bulk", "process"}
  <2>1. req[h] \in ReqRec
    BY DEF Types
  <2> QED
    BY <2>1 DEF ReqRec
<1> QED
  BY <1>1, <1>2, <1>3

\* A step that replaces the record of one operation leaves the others alone.
Moves(h, q) == req' = [req EXCEPT ![h] = q]

\* What the record of the operation, and those of the others, are after it.
LEMMA ReqStep ==
    ASSUME Types, NEW h \in Requests, NEW q \in ReqRec, Moves(h, q)
    PROVE  /\ req' \in [Requests -> ReqRec]
           /\ req'[h] = q
           /\ \A g \in Requests : g # h => req'[g] = req[g]
           /\ Replaces(req, req', h) /\ Replaces(req', req, h)
  BY DEF Types, Moves, Replaces

\* The record of an operation that is not under way.
LEMMA IdleShape ==
    /\ Idle \in ReqRec /\ Idle.pc = "idle" /\ Idle.by = None /\ Idle.inv = None
    /\ Idle.pays = {} /\ ~ Waits(Idle)
<1>1. NoRow \in RowRec /\ NoNumber \in Nat \X Nat
  BY DEF NoRow, RowRec, NoNumber
<1> QED
  BY <1>1 DEF Idle, ReqRec, Steps, Waits, None

\* Nothing is said about an operation that is not under way.
LEMMA IdleCarries == \A rs, ps : Carries(Idle, rs, ps)
  BY IdleShape DEF Carries

\* The first state satisfies the invariant.
LEMMA InitIInv == Init => IInv
<1> SUFFICES ASSUME Init PROVE IInv
  OBVIOUS
<1> USE DEF Init
<1>1. Types
  <2>1. NoRow \in RowRec /\ NoNumber \in Nat \X Nat /\ NoPay \in PayRec
    BY DEF NoRow, RowRec, NoNumber, NoPay, PayRec
  <2>2. 1 \in 1 .. MaxMonth
    BY LedgerAssumption
  <2> QED
    BY <2>1, <2>2, IdleShape DEF Types
<1>2. RowRefs
  BY DEF RowRefs, Exists, Recorded, NoRow, NoPay
<1>3. ReqRefs
  BY IdleCarries DEF ReqRefs
<1>4. Numbers
  BY IdleShape, GaplessInit DEF Numbers, NumbersGapless
<1>5. BalanceAddsUp /\ TotalFollowsItems /\ PaidIsActivated
  BY DEF BalanceAddsUp, TotalFollowsItems, PaidIsActivated, Clean, Exists, NoRow
<1>6. PaidMatchesPayments
  BY DEF PaidMatchesPayments, Clean, Exists, NoRow
<1> QED
  BY <1>1, <1>2, <1>3, <1>4, <1>5, <1>6 DEF IInv

-----------------------------------------------------------------------------
(***************************************************************************)
(* Steps that change no row.                                               *)
(***************************************************************************)

\* An operation goes from r to q.  It may give up totals that it owes, an
\* activation or money that it has not credited only if the invoice is marked.
LEMMA OperationKeeps ==
    ASSUME IInv, NEW h \in Requests, NEW q \in ReqRec, Moves(h, q),
           UNCHANGED <<inv, items, number, pay, payno, activated>>, month' \in 1 .. MaxMonth,
           flaws' \in [Invoices -> SUBSET Whys],
           \A i \in Invoices : flaws[i] \subseteq flaws'[i],
           Carries(q, inv, pay),
           q.pc = "invoice" => Drawn(number, q.no),
           q.pc = "payment" => Drawn(payno, q.no),
           Waits(q) => Waits(req[h]) /\ q.inv = req[h].inv /\ q.amount = req[h].amount,
           \/ /\ req[h].pc \in {"sum", "load", "totals"} =>
                    q.pc \in {"sum", "load", "totals"} /\ q.inv = req[h].inv
              /\ req[h].pc # "activate"
              /\ Waits(req[h]) => Waits(q)
           \/ req[h].inv \in Invoices /\ "crash" \in flaws'[req[h].inv]
    PROVE  IInv'
<1> USE DEF IInv
<1>a. /\ req' \in [Requests -> ReqRec] /\ req'[h] = q
      /\ \A g \in Requests : g # h => req'[g] = req[g]
  BY ReqStep
<1>1. Types'
  BY <1>a DEF Types
<1>2. RowRefs'
  BY DEF RowRefs, Exists, Recorded
<1>3. ReqRefs'
  BY <1>a DEF ReqRefs
<1>4. Numbers'
  BY <1>a DEF Numbers, NumbersGapless
<1>5. BalanceAddsUp'
  BY DEF BalanceAddsUp, Clean, Exists
<1>6. TotalFollowsItems'
  <2> SUFFICES ASSUME NEW i \in Invoices, Clean(i, {"race", "crash", "deleted"})', items'[i] # {}
               PROVE  \/ inv'[i].total = SumSet(items'[i]) + Adjust
                      \/ \E g \in Requests : req'[g].pc \in {"sum", "load", "totals"} /\ req'[g].inv = i
    BY DEF TotalFollowsItems
  <2>1. \/ inv[i].total = SumSet(items[i]) + Adjust
        \/ \E g \in Requests : req[g].pc \in {"sum", "load", "totals"} /\ req[g].inv = i
    BY DEF TotalFollowsItems, Clean, Exists
  <2>2. ~ (req[h].inv = i /\ "crash" \in flaws'[i])
    BY DEF Clean
  <2> QED
    BY <1>a, <2>1, <2>2
<1>7. PaidIsActivated'
  <2> SUFFICES ASSUME NEW i \in Invoices, inv'[i].status = "paid",
                      Clean(i, {"skipped", "forced", "crash"})'
               PROVE  \/ i \in activated'
                      \/ \E g \in Requests : req'[g].pc = "activate" /\ req'[g].inv = i
    BY DEF PaidIsActivated
  <2>1. \/ i \in activated
        \/ \E g \in Requests : req[g].pc = "activate" /\ req[g].inv = i
    BY DEF PaidIsActivated, Clean, Exists
  <2>2. ~ (req[h].inv = i /\ "crash" \in flaws'[i])
    BY DEF Clean
  <2> QED
    BY <1>a, <2>1, <2>2
<1>8. PaidMatchesPayments'
  <2> SUFFICES ASSUME NEW i \in Invoices, inv[i].status # None,
                      flaws'[i] \cap {"race", "crash", "again", "restated"} = {}
               PROVE  inv[i].paid + OpenSum(req', i) = PaidSum(pay, i)
    BY MatchesIs DEF Matches
  <2>1. inv[i].paid + OpenSum(req, i) = PaidSum(pay, i)
    <3>1. flaws[i] \cap {"race", "crash", "again", "restated"} = {}
      OBVIOUS
    <3> QED
      BY <3>1, MatchesIs DEF Matches
  <2>2. Replaces(req, req', h) /\ Replaces(req', req, h)
    BY ReqStep
  <2>3. OpenSum(req', i) = OpenSum(req, i)
    <3>1. CASE Waits(req[h]) <=> Waits(q)
      BY <1>a, <2>2, <3>1, OpenSame
    <3>2. CASE Waits(req[h]) /\ ~ Waits(q)
      <4>1. \A j : OpenSum(req, j) = OpenSum(req', j) + (IF j = req[h].inv THEN req[h].amount ELSE 0)
        BY <1>a, <2>2, <3>2, OpenMore
      <4>2. i # req[h].inv
        BY <3>2
      <4>3. OpenSum(req', i) \in Nat
        BY <1>a, OpenNat
      <4> QED
        BY <4>1, <4>2, <4>3
    <3> QED
      BY <3>1, <3>2
  <2> QED
    BY <2>1, <2>3
<1> QED
  BY <1>1, <1>2, <1>3, <1>4, <1>5, <1>6, <1>7, <1>8

\* create_invoice draws a number.
LEMMA InvoiceCountKeeps ==
    ASSUME IInv, NEW h \in Requests, InvoiceCount(h)
    PROVE  IInv'
<1> USE DEF IInv
<1> DEFINE q == [Idle EXCEPT !.pc = "invoice", !.no = _generate_invoice_number]
<1>0. _generate_invoice_number \in Nat \X Nat /\ Drawn(number, _generate_invoice_number)
  BY LedgerAssumption, NextIsDrawn DEF _generate_invoice_number, Types
<1>1. Moves(h, q) /\ UNCHANGED <<month, inv, items, number, pay, payno, activated, flaws>>
  BY DEF InvoiceCount, Begin, Moves, rowVars
<1>2. req[h] = Idle
  BY DEF InvoiceCount, Begin
<1>3. Idle \in ReqRec /\ _generate_invoice_number \in Nat \X Nat
  BY <1>0, IdleShape
<1>4. q \in ReqRec
  BY <1>3, ZenonT(60) DEF ReqRec, Steps, InvoiceStatus, PaymentStatus
<1>5. q.pc = "invoice" /\ q.by = Idle.by /\ q.pays = Idle.pays /\ q.no = _generate_invoice_number
  BY <1>3 DEF ReqRec
<1> HIDE DEF q
<1>6. Carries(q, inv, pay)
  BY <1>5, IdleShape DEF Carries, Exists, Recorded
<1>7. ~ Waits(q)
  BY <1>2, <1>5, IdleShape DEF Waits, None
<1> QED
  BY <1>1, <1>2, <1>4, <1>5, <1>6, <1>7, IdleShape, OperationKeeps, <1>0 DEF Types, None

\* add_invoice_item is called.
LEMMA AddItemKeeps ==
    ASSUME IInv, NEW h \in Requests, NEW i \in Invoices, NEW price \in Prices, AddItem(h, i, price)
    PROVE  IInv'
<1> USE DEF IInv
<1> DEFINE q == [Idle EXCEPT !.pc = "item", !.inv = i, !.amount = price]
<1>8. Exists(i)
  BY DEF AddItem
<1>1. Moves(h, q) /\ UNCHANGED <<month, inv, items, number, pay, payno, activated, flaws>>
  BY DEF AddItem, Begin, Moves, rowVars
<1>2. req[h] = Idle
  BY DEF AddItem, Begin
<1>3. Idle \in ReqRec /\ price \in Nat
  BY IdleShape, <1>2, Shapes, LedgerAssumption DEF Types
<1>4. q \in ReqRec
  BY <1>3, ZenonT(60) DEF ReqRec, Steps, InvoiceStatus, PaymentStatus
<1>5. q.pc = "item" /\ q.by = Idle.by /\ q.pays = Idle.pays /\ q.inv = i /\ q.amount = price
  BY <1>3 DEF ReqRec
<1> HIDE DEF q
<1>6. Carries(q, inv, pay)
  BY <1>5, <1>8, IdleShape DEF Carries, Exists, Recorded
<1>7. ~ Waits(q)
  BY <1>2, <1>5, IdleShape DEF Waits, None
<1> QED
  BY <1>1, <1>2, <1>4, <1>5, <1>6, <1>7, IdleShape, OperationKeeps DEF Types, None

\* update_invoice_status reads the invoice.
LEMMA StatusLoadKeeps ==
    ASSUME IInv, NEW h \in Requests, NEW i \in Invoices, NEW to \in InvoiceStatus \ {"draft"}, StatusLoad(h, i, to)
    PROVE  IInv'
<1> USE DEF IInv
<1> DEFINE q == [Idle EXCEPT !.pc = "status", !.inv = i, !.to = to, !.seen = inv[i]]
<1>8. Exists(i)
  BY DEF StatusLoad
<1>1. Moves(h, q) /\ UNCHANGED <<month, inv, items, number, pay, payno, activated, flaws>>
  BY DEF StatusLoad, Begin, Moves, rowVars
<1>2. req[h] = Idle
  BY DEF StatusLoad, Begin
<1>3. Idle \in ReqRec /\ inv[i] \in RowRec
  BY IdleShape, <1>2, Shapes, LedgerAssumption DEF Types
<1>4. q \in ReqRec
  BY <1>3, ZenonT(60) DEF ReqRec, Steps, InvoiceStatus, PaymentStatus
<1>5. q.pc = "status" /\ q.by = Idle.by /\ q.pays = Idle.pays /\ q.inv = i /\ q.to = to /\ q.seen = inv[i]
  BY <1>3 DEF ReqRec
<1> HIDE DEF q
<1>6. Carries(q, inv, pay)
  BY <1>5, <1>8, IdleShape DEF InvoiceStatus, Carries, Exists, Recorded
<1>7. ~ Waits(q)
  BY <1>2, <1>5, IdleShape DEF Waits, None
<1> QED
  BY <1>1, <1>2, <1>4, <1>5, <1>6, <1>7, IdleShape, OperationKeeps DEF Types, None

\* create_payment draws a number.
LEMMA PaymentCountKeeps ==
    ASSUME IInv, NEW h \in Requests, NEW i \in Invoices, NEW amount \in Amounts, PaymentCount(h, i, amount)
    PROVE  IInv'
<1> USE DEF IInv
<1> DEFINE q == [Idle EXCEPT !.pc = "payment", !.inv = i, !.amount = amount,
                             !.no = _generate_payment_number]
<1>0. _generate_payment_number \in Nat \X Nat /\ Drawn(payno, _generate_payment_number)
  BY LedgerAssumption, NextIsDrawn DEF _generate_payment_number, Types
<1>8. Exists(i)
  BY DEF PaymentCount
<1>1. Moves(h, q) /\ UNCHANGED <<month, inv, items, number, pay, payno, activated, flaws>>
  BY DEF PaymentCount, Begin, Moves, rowVars
<1>2. req[h] = Idle
  BY DEF PaymentCount, Begin
<1>3. Idle \in ReqRec /\ amount \in Nat /\ _generate_payment_number \in Nat \X Nat
  BY <1>0, IdleShape, LedgerAssumption
<1>4. q \in ReqRec
  BY <1>3, ZenonT(60) DEF ReqRec, Steps, InvoiceStatus, PaymentStatus
<1>5. /\ q.pc = "payment" /\ q.by = Idle.by /\ q.pays = Idle.pays /\ q.inv = i /\ q.amount = amount
      /\ q.no = _generate_payment_number
  BY <1>3 DEF ReqRec
<1> HIDE DEF q
<1>6. Carries(q, inv, pay)
  BY <1>5, <1>8, IdleShape DEF Carries, Exists, Recorded
<1>7. ~ Waits(q)
  BY <1>2, <1>5, IdleShape DEF Waits, None
<1> QED
  BY <1>1, <1>2, <1>4, <1>5, <1>6, <1>7, IdleShape, OperationKeeps, <1>0 DEF Types, None

\* _update_invoice_totals adds up the items.
LEMMA TotalsSumKeeps ==
    ASSUME IInv, NEW h \in Requests, TotalsSum(h)
    PROVE  IInv'
<1> USE DEF IInv
<1> DEFINE q == [req[h] EXCEPT !.pc = "load", !.sum = SumSet(items[req[h].inv])]
<1>8. req[h].inv \in Invoices /\ Exists(req[h].inv) /\ req[h].by = None /\ req[h].pays = {}
  BY DEF TotalsSum, ReqRefs, Carries, Exists
<1>1. Moves(h, q) /\ UNCHANGED <<month, inv, items, number, pay, payno, activated, flaws>>
  BY DEF TotalsSum, Goto, Moves, rowVars
<1>2. req[h].pc = "sum"
  BY DEF TotalsSum, Goto
<1>3. req[h] \in ReqRec /\ SumSet(items[req[h].inv]) \in Nat
  <2>1. items[req[h].inv] \subseteq Prices
    BY <1>8 DEF Types
  <2>2. items[req[h].inv] \in SUBSET Nat /\ IsFiniteSet(items[req[h].inv])
    BY <2>1, LedgerAssumption, FS_Subset
  <2> QED
    BY <2>2, Shapes, SumSetNat
<1>4. q \in ReqRec
  BY <1>3, ZenonT(60) DEF ReqRec, Steps, InvoiceStatus, PaymentStatus
<1>5. q.pc = "load" /\ q.by = req[h].by /\ q.pays = req[h].pays /\ q.inv = req[h].inv
  BY <1>3 DEF ReqRec
<1> HIDE DEF q
<1>6. Carries(q, inv, pay)
  BY <1>2, <1>5, <1>8 DEF Carries, Exists, Recorded
<1>7. ~ Waits(q) /\ ~ Waits(req[h])
  BY <1>2, <1>5, <1>8 DEF Waits, None
<1> QED
  BY <1>1, <1>2, <1>4, <1>5, <1>6, <1>7, IdleShape, OperationKeeps DEF Types, None

\* _update_invoice_totals reads the invoice.
LEMMA TotalsLoadKeeps ==
    ASSUME IInv, NEW h \in Requests, TotalsLoad(h)
    PROVE  IInv'
<1> USE DEF IInv
<1> DEFINE q == [req[h] EXCEPT !.pc = "totals", !.seen = inv[req[h].inv]]
<1>8. req[h].inv \in Invoices /\ Exists(req[h].inv) /\ req[h].by = None /\ req[h].pays = {}
  BY DEF TotalsLoad, ReqRefs, Carries, Exists
<1>1. Moves(h, q) /\ UNCHANGED <<month, inv, items, number, pay, payno, activated, flaws>>
  BY DEF TotalsLoad, Goto, Moves, rowVars
<1>2. req[h].pc = "load"
  BY DEF TotalsLoad, Goto
<1>3. req[h] \in ReqRec /\ inv[req[h].inv] \in RowRec
  BY <1>8, Shapes
<1>4. q \in ReqRec
  BY <1>3, ZenonT(60) DEF ReqRec, Steps, InvoiceStatus, PaymentStatus
<1>5. q.pc = "totals" /\ q.by = req[h].by /\ q.pays = req[h].pays /\ q.inv = req[h].inv /\ q.seen = inv[req[h].inv]
  BY <1>3 DEF ReqRec
<1> HIDE DEF q
<1>6. Carries(q, inv, pay)
  BY <1>2, <1>5, <1>8 DEF Carries, Exists, Recorded
<1>7. ~ Waits(q) /\ ~ Waits(req[h])
  BY <1>2, <1>5, <1>8 DEF Waits, None
<1> QED
  BY <1>1, <1>2, <1>4, <1>5, <1>6, <1>7, IdleShape, OperationKeeps DEF Types, None

\* _apply_payment_to_invoice reads the invoice.
LEMMA ApplyLoadKeeps ==
    ASSUME IInv, NEW h \in Requests, ApplyLoad(h)
    PROVE  IInv'
<1> USE DEF IInv
<1> DEFINE q == [req[h] EXCEPT !.pc = "credit", !.seen = inv[req[h].inv], !.by = "create"]
<1>8. /\ req[h].inv \in Invoices /\ Exists(req[h].inv) /\ req[h].by = None
      /\ req[h].pays = {}
  BY DEF ApplyLoad, ReqRefs, Carries, Exists
<1>1. Moves(h, q) /\ UNCHANGED <<month, inv, items, number, pay, payno, activated, flaws>>
  BY DEF ApplyLoad, Goto, Moves, rowVars
<1>2. req[h].pc = "apply"
  BY DEF ApplyLoad, Goto
<1>3. req[h] \in ReqRec /\ inv[req[h].inv] \in RowRec
  BY <1>8, Shapes
<1>4. q \in ReqRec
  BY <1>3, ZenonT(60) DEF ReqRec, Steps, InvoiceStatus, PaymentStatus
<1>5. /\ q.pc = "credit" /\ q.by = "create" /\ q.inv = req[h].inv /\ q.seen = inv[req[h].inv]
      /\ q.amount = req[h].amount /\ q.pays = req[h].pays
  BY <1>3 DEF ReqRec
<1> HIDE DEF q
<1>6. Carries(q, inv, pay)
  BY <1>2, <1>5, <1>8 DEF Carries, Exists, Recorded
<1>7. Waits(q) /\ Waits(req[h])
  BY <1>2, <1>5 DEF Waits, None
<1> QED
  BY <1>1, <1>2, <1>4, <1>5, <1>6, <1>7, IdleShape, OperationKeeps DEF Types, None

\* verify_payment, bulk_update_payment_status and process_payment read the invoice
\* and carry the sum of their payments.
LEMMA SettleLoadKeeps ==
    ASSUME IInv, NEW h \in Requests, NEW ps \in SUBSET Payments, NEW i, NEW to \in Counted,
           NEW by \in {"verify", "bulk", "process"}, SettleLoad(h, ps, i, to, by)
    PROVE  IInv'
<1> USE DEF IInv
<1> DEFINE q == [Idle EXCEPT !.pc = "credit", !.inv = i, !.pays = ps, !.to = to, !.by = by,
                             !.amount = SumOf(ps), !.seen = inv[i]]
<1>1. /\ Moves(h, q) /\ UNCHANGED <<month, inv, items, number, pay, payno, activated, flaws>>
      /\ req[h] = Idle
  BY DEF SettleLoad, Begin, Moves, rowVars
<1>2. /\ \A p \in ps : Recorded(p) /\ pay[p].of = i
      /\ i \in Invoices /\ Exists(i)
  BY DEF SettleLoad, RowRefs
<1>3. SumOf(ps) = AmountSum(pay, ps) /\ SumOf(ps) \in Nat
  <2>1. IsFiniteSet(ps) /\ \A p \in ps : pay[p].amount \in Nat
    BY LedgerAssumption, FS_Subset, Shapes
  <2> QED
    BY <2>1, SumOfIs, AmountSumNat
<1>4. Idle \in ReqRec /\ inv[i] \in RowRec
  BY <1>2, IdleShape, Shapes
<1>5. q \in ReqRec
  BY <1>2, <1>3, <1>4, ZenonT(60) DEF ReqRec, Steps, PaymentStatus, Counted
<1>6. /\ q.pc = "credit" /\ q.inv = i /\ q.pays = ps /\ q.to = to /\ q.by = by
      /\ q.amount = AmountSum(pay, ps) /\ q.seen = inv[i]
  BY <1>3, <1>4 DEF ReqRec
<1> HIDE DEF q
<1>7. Carries(q, inv, pay)
  BY <1>2, <1>6 DEF Carries, Exists, Recorded
<1>8. ~ Waits(q)
  BY <1>6 DEF Waits
<1> QED
  BY <1>1, <1>5, <1>6, <1>7, <1>8, IdleShape, OperationKeeps DEF Types

\* An operation that is given up (its insert is refused, or its process dies)
\* keeps the invariant if it marks what it owes.
LEMMA GiveUpKeeps ==
    ASSUME IInv, NEW h \in Requests, Moves(h, Idle),
           UNCHANGED <<month, inv, items, number, pay, payno, activated>>,
           \/ /\ req[h].pc \notin {"apply", "sum", "load", "totals", "activate"}
              /\ req[h].by # "create" /\ flaws' = flaws
           \/ req[h].inv \in Invoices /\ flaws' = [flaws EXCEPT ![req[h].inv] = @ \cup {"crash"}]
    PROVE  IInv'
<1> USE DEF IInv
<1>1. /\ flaws' \in [Invoices -> SUBSET Whys]
      /\ \A i \in Invoices : flaws[i] \subseteq flaws'[i]
      /\ \/ /\ req[h].pc \notin {"apply", "sum", "load", "totals", "activate"}
            /\ req[h].by # "create"
         \/ req[h].inv \in Invoices /\ "crash" \in flaws'[req[h].inv]
  BY ZenonT(60) DEF Types, Whys
<1>2. ~ Waits(Idle) /\ Idle \in ReqRec /\ Idle.pc = "idle" /\ Carries(Idle, inv, pay)
  BY IdleShape, IdleCarries
<1>3. month' \in 1 .. MaxMonth
  BY DEF Types
<1> QED
  BY <1>1, <1>2, <1>3, OperationKeeps DEF Waits

\* The process dies.
LEMMA CrashKeeps ==
    ASSUME IInv, NEW h \in Requests, Crash(h)
    PROVE  IInv'
<1> USE DEF IInv
<1>1. Moves(h, Idle) /\ UNCHANGED <<month, inv, items, number, pay, payno, activated>>
  BY DEF Crash, Goto, Moves, rowVars
<1>2. req[h].by # None => req[h].pc = "credit"
  BY DEF ReqRefs, Carries
<1>3. req[h].pc \in {"apply", "sum", "load", "totals", "activate", "credit"} => req[h].inv \in Invoices
  BY DEF ReqRefs, Carries
<1> QED
  BY <1>1, <1>2, <1>3, GiveUpKeeps DEF Crash, Mark, None

-----------------------------------------------------------------------------
(***************************************************************************)
(* Steps that change rows.                                                 *)
(***************************************************************************)

\* What an operation carries outlives every change that deletes nothing and
\* leaves a payment on record its amount and its invoice.
LEMMA CarriesKept ==
    ASSUME NEW rs, NEW rt, \A i \in Invoices : rs[i].status # None => rt[i].status # None,
           NEW ps \in [Payments -> PayRec], NEW pt,
           \A p \in Payments : ps[p].status # None =>
              pt[p].status # None /\ pt[p].amount = ps[p].amount /\ pt[p].of = ps[p].of,
           NEW r \in ReqRec, Carries(r, rs, ps)
    PROVE  Carries(r, rt, pt)
<1>1. r.pays \subseteq Payments
  BY DEF ReqRec
<1>2. CASE r.pc = "credit" /\ r.by # "create"
  <2>1. IsFiniteSet(r.pays)
    BY <1>1, LedgerAssumption, FS_Subset
  <2>2. \A p \in r.pays : ps[p].amount \in Nat /\ ps[p].amount = pt[p].amount
    BY <1>1, <1>2 DEF Carries, PayRec
  <2>3. AmountSum(ps, r.pays) = AmountSum(pt, r.pays)
    BY <2>1, <2>2, AmountSumSame
  <2> QED
    BY <1>1, <1>2, <2>3 DEF Carries
<1>3. CASE ~ (r.pc = "credit" /\ r.by # "create")
  BY <1>1, <1>3 DEF Carries
<1> QED
  BY <1>2, <1>3

\* References outlive such a change too, if what is new is in order.
LEMMA RefsKept ==
    ASSUME Types, RowRefs, ReqRefs, Types',
           \A i \in Invoices : Exists(i) => inv'[i].status # None,
           \A i \in Invoices : inv'[i].status # None <=> number'[i] # NoNumber,
           \A i \in Invoices : items'[i] # {} => inv'[i].status # None,
           \A p \in Payments : Recorded(p) =>
              pay'[p].status # None /\ pay'[p].amount = pay[p].amount /\ pay'[p].of = pay[p].of,
           \A p \in Payments : ~ Recorded(p) /\ pay'[p].status # None =>
              pay'[p].amount \in Amounts /\ pay'[p].of \in Invoices /\ inv'[pay'[p].of].status # None,
           \A p \in Payments : payno'[p] # NoNumber => pay'[p].status # None,
           \A h \in Requests : req'[h] = req[h] \/ Carries(req'[h], inv', pay')
    PROVE  RowRefs' /\ ReqRefs'
<1>1. RowRefs'
  BY DEF RowRefs, Exists, Recorded
<1>2. ASSUME NEW h \in Requests, req'[h] = req[h]
      PROVE  Carries(req'[h], inv', pay')
  <2>1. Carries(req[h], inv, pay) /\ req[h] \in ReqRec /\ pay \in [Payments -> PayRec]
    BY Shapes DEF ReqRefs, Types
  <2>2. Carries(req[h], inv', pay')
    BY <2>1, CarriesKept DEF Exists, Recorded
  <2> QED
    BY <1>2, <2>2
<1>3. ReqRefs'
  BY <1>2 DEF ReqRefs
<1> QED
  BY <1>1, <1>3

\* A mark stays, and marks nothing else.
LEMMA MarkIs ==
    ASSUME Types, NEW i \in Invoices, NEW why \in SUBSET Whys, Mark(i, why)
    PROVE  /\ flaws' \in [Invoices -> SUBSET Whys]
           /\ flaws'[i] = flaws[i] \cup why
           /\ \A j \in Invoices : j # i => flaws'[j] = flaws[j]
           /\ \A j \in Invoices : flaws[j] \subseteq flaws'[j]
  BY DEF Types, Mark

\* The numbers are as they were, and no new number is drawn.
LEMMA NumbersKept ==
    ASSUME Numbers, UNCHANGED <<number, payno>>,
           \A h \in Requests : req'[h] = req[h] \/ req'[h].pc \notin {"invoice", "payment"}
    PROVE  Numbers'
  BY DEF Numbers, NumbersGapless

\* create_invoice inserts the row: a number that was drawn and is free is the next.
LEMMA InvoiceInsertKeeps ==
    ASSUME IInv, NEW h \in Requests, NEW i \in Invoices, NEW subtotal \in Subtotals,
           NEW item \in Prices \cup {NoItem}, InvoiceInsert(h, i, subtotal, item)
    PROVE  IInv'
<1> USE DEF IInv
<1>a. req[h].pc = "invoice" /\ ~ Exists(i) /\ req[h].by = None
      /\ UNCHANGED <<month, items, pay, payno, activated, flaws>>
  BY DEF InvoiceInsert, ReqRefs, Carries
<1>b. CASE Taken(number, req[h].no)
  <2>1. Moves(h, Idle) /\ UNCHANGED <<inv, number>>
    BY <1>b DEF InvoiceInsert, Goto, Moves
  <2> QED
    BY <1>a, <2>1, GiveUpKeeps DEF None
<1>c. CASE ~ Taken(number, req[h].no)
  <2> DEFINE t == subtotal + Adjust
             x == [status |-> "draft", total |-> t, paid |-> 0, balance |-> t]
             q == IF item = NoItem THEN Idle
                  ELSE [Idle EXCEPT !.pc = "item", !.inv = i, !.amount = item]
  <2>a. /\ inv' = [inv EXCEPT ![i] = x] /\ number' = [number EXCEPT ![i] = req[h].no]
        /\ Moves(h, q)
    BY <1>c DEF InvoiceInsert, Goto, Moves
  <2>b. x \in RowRec
    <3>1. t \in Int
      BY LedgerAssumption
    <3> HIDE DEF t
    <3> QED
      BY <3>1 DEF RowRec, InvoiceStatus
  <2>c. x.status = "draft" /\ x.paid = 0 /\ x.balance = x.total /\ x.total \in Int
    BY LedgerAssumption
  <2>d. q \in ReqRec /\ q.pc \in {"idle", "item"} /\ q.by = None /\ q.pays = {}
        /\ (q.pc = "item" => q.inv = i /\ q.amount \in Prices)
    <3>1. CASE item = NoItem
      BY <3>1, IdleShape
    <3>2. CASE item # NoItem
      <4>1. item \in Prices /\ item \in Nat /\ Idle \in ReqRec
        BY <3>2, IdleShape, LedgerAssumption
      <4>2. [Idle EXCEPT !.pc = "item", !.inv = i, !.amount = item] \in ReqRec
        BY <4>1 DEF ReqRec, Steps
      <4>3. q = [Idle EXCEPT !.pc = "item", !.inv = i, !.amount = item]
        BY <3>2
      <4>4. q.pc = "item" /\ q.by = Idle.by /\ q.pays = Idle.pays /\ q.inv = i /\ q.amount = item
        BY <4>1, <4>3 DEF ReqRec
      <4> QED
        BY <4>1, <4>2, <4>3, <4>4, IdleShape
    <3> QED
      BY <3>1, <3>2
  <2> HIDE DEF t, x, q
  <2>e. /\ req' \in [Requests -> ReqRec] /\ req'[h] = q
        /\ \A g \in Requests : g # h => req'[g] = req[g]
        /\ Replaces(req, req', h)
    BY <2>a, <2>d, ReqStep
  <2>f. /\ inv' \in [Invoices -> RowRec] /\ inv'[i] = x
        /\ \A j \in Invoices : j # i => inv'[j] = inv[j]
        /\ number' \in [Invoices -> Nat \X Nat] /\ number'[i] = req[h].no
        /\ \A j \in Invoices : j # i => number'[j] = number[j]
    BY <2>a, <2>b, Shapes DEF Types
  <2>g. Drawn(number, req[h].no) /\ req[h].no \in Nat \X Nat /\ req[h].no # NoNumber
    <3>1. Drawn(number, req[h].no) /\ req[h].no \in Nat \X Nat
      BY <1>a, Shapes DEF Numbers
    <3>2. req[h].no[1] # 0
      BY <3>1, LedgerAssumption DEF Drawn
    <3> QED
      BY <3>1, <3>2 DEF NoNumber
  <2>1. Types'
    BY <1>a, <2>e, <2>f DEF Types
  <2>2. RowRefs' /\ ReqRefs'
    <3>1. Carries(q, inv', pay')
      BY <2>c, <2>d, <2>f DEF Carries, None
    <3>2. x.status # None
      BY <2>c DEF None
    <3>3. \A j \in Invoices : inv'[j].status # None <=> number'[j] # NoNumber
      BY <2>f, <2>g, <3>2 DEF RowRefs, Exists
    <3>4. \A j \in Invoices : Exists(j) => inv'[j].status # None
      BY <1>a, <2>f DEF Exists
    <3>5. \A j \in Invoices : items'[j] # {} => inv'[j].status # None
      BY <1>a, <3>4 DEF RowRefs
    <3>6. \A p \in Payments : payno'[p] # NoNumber => pay'[p].status # None
      BY <1>a DEF RowRefs, Recorded
    <3>7. \A g \in Requests : req'[g] = req[g] \/ Carries(req'[g], inv', pay')
      BY <2>e, <3>1
    <3>8. pay' = pay
      BY <1>a
    <3> QED
      BY <2>1, <3>3, <3>4, <3>5, <3>6, <3>7, <3>8, RefsKept DEF Recorded
  <2>3. Numbers'
    <3>1. number[i] = NoNumber
      BY <1>a DEF RowRefs
    <3>2. number \in [Invoices -> Nat \X Nat] /\ IsFiniteSet(Invoices) /\ Gapless(number)
      BY LedgerAssumption DEF Types, Numbers, NumbersGapless
    <3>3. Gapless(number') /\ \A no \in Nat \X Nat : Drawn(number, no) => Drawn(number', no)
      <4>1. Gives(number, number', Invoices, i, req[h].no)
        BY <2>a, <3>2 DEF Gives
      <4> QED
        BY <1>c, <2>g, <3>1, <3>2, <4>1, GaplessStep
    <3>4. ASSUME NEW g \in Requests
          PROVE  /\ req'[g].pc = "invoice" => Drawn(number', req'[g].no)
                 /\ req'[g].pc = "payment" => Drawn(payno', req'[g].no)
      <4>1. CASE g = h
        BY <2>d, <2>e, <4>1
      <4>2. CASE g # h
        BY <1>a, <2>e, <3>3, <4>2, Shapes DEF Numbers
      <4> QED
        BY <4>1, <4>2
    <3>5. Gapless(payno')
      BY <1>a DEF Numbers, NumbersGapless
    <3> QED
      BY <3>3, <3>4, <3>5 DEF Numbers, NumbersGapless
  <2>4. BalanceAddsUp'
    <3>1. ASSUME NEW j \in Invoices, Clean(j, {"race", "forced"})'
          PROVE  /\ inv'[j].balance = inv'[j].total - inv'[j].paid
                 /\ inv'[j].status = "paid" /\ "grown" \notin flaws'[j] => inv'[j].balance <= 0
      <4>1. CASE j = i
        BY <2>c, <2>f, <4>1
      <4>2. CASE j # i
        BY <1>a, <2>f, <3>1, <4>2 DEF BalanceAddsUp, Clean, Exists
      <4> QED
        BY <4>1, <4>2
    <3> QED
      BY <3>1 DEF BalanceAddsUp
  <2>5. TotalFollowsItems'
    <3> SUFFICES ASSUME NEW j \in Invoices, Clean(j, {"race", "crash", "deleted"})', items'[j] # {}
                 PROVE  \/ inv'[j].total = SumSet(items'[j]) + Adjust
                        \/ \E g \in Requests : /\ req'[g].pc \in {"sum", "load", "totals"}
                                               /\ req'[g].inv = j
      BY DEF TotalFollowsItems
    <3>1. j # i
      BY <1>a DEF RowRefs
    <3>2. Clean(j, {"race", "crash", "deleted"}) /\ inv'[j] = inv[j] /\ items'[j] = items[j]
      BY <1>a, <2>f, <3>1 DEF Clean, Exists
    <3>3. \/ inv[j].total = SumSet(items[j]) + Adjust
          \/ \E g \in Requests : req[g].pc \in {"sum", "load", "totals"} /\ req[g].inv = j
      BY <3>2 DEF TotalFollowsItems
    <3> QED
      BY <1>a, <2>e, <3>2, <3>3
  <2>6. PaidIsActivated'
    <3> SUFFICES ASSUME NEW j \in Invoices, inv'[j].status = "paid",
                        Clean(j, {"skipped", "forced", "crash"})'
                 PROVE  \/ j \in activated'
                        \/ \E g \in Requests : req'[g].pc = "activate" /\ req'[g].inv = j
      BY DEF PaidIsActivated
    <3>1. j # i
      BY <2>c, <2>f
    <3>2. Clean(j, {"skipped", "forced", "crash"}) /\ inv'[j] = inv[j]
      BY <1>a, <2>f, <3>1 DEF Clean, Exists
    <3>3. \/ j \in activated
          \/ \E g \in Requests : req[g].pc = "activate" /\ req[g].inv = j
      BY <3>2 DEF PaidIsActivated
    <3> QED
      BY <1>a, <2>e, <3>3
  <2>7. PaidMatchesPayments'
    <3>1. ~ Waits(req[h]) /\ ~ Waits(req'[h])
      BY <1>a, <2>d, <2>e DEF Waits, None
    <3>2. \A j : OpenSum(req', j) = OpenSum(req, j)
      BY <2>e, <3>1, OpenSame
    <3>3. OpenSum(req, i) = 0 /\ PaidSum(pay, i) = 0
      <4>1. Waiting(req, i) = {}
        BY <1>a DEF Waiting, ReqRefs, Carries, Exists, None
      <4>2. Settled(pay, i) = {}
        BY <1>a DEF Settled, RowRefs, Recorded, Counted, None
      <4> QED
        BY <4>1, <4>2, AmountSumEmpty DEF OpenSum, PaidSum
    <3>4. ASSUME NEW j \in Invoices
          PROVE  Matches(j, inv', req', pay', flaws')
      <4>1. CASE j = i
        BY <1>a, <2>c, <2>f, <3>2, <3>3, <4>1 DEF Matches
      <4>2. CASE j # i
        <5>1. Matches(j, inv, req, pay, flaws)
          BY MatchesIs
        <5> QED
          BY <1>a, <2>f, <3>2, <4>2, <5>1 DEF Matches
      <4> QED
        BY <4>1, <4>2
    <3> QED
      BY <3>4, MatchesIs
  <2> QED
    BY <2>1, <2>2, <2>3, <2>4, <2>5, <2>6, <2>7
<1> QED
  BY <1>b, <1>c

-----------------------------------------------------------------------------
(***************************************************************************)
(* Steps that change one invoice and its payments.                         *)
(***************************************************************************)

\* What the invariant says of one invoice, with its row r, its items its and its
\* flaws fl; rq are the operations under way, act the activated invoices.
Balanced(r, fl) ==
    r.status # None /\ fl \cap {"race", "forced"} = {} =>
        /\ r.balance = r.total - r.paid
        /\ r.status = "paid" /\ "grown" \notin fl => r.balance <= 0

Totalled(i, r, its, rq, fl) ==
    r.status # None /\ fl \cap {"race", "crash", "deleted"} = {} /\ its # {} =>
        \/ r.total = SumSet(its) + Adjust
        \/ \E h \in Requests : rq[h].pc \in {"sum", "load", "totals"} /\ rq[h].inv = i

Activated(i, r, rq, act, fl) ==
    r.status = "paid" /\ fl \cap {"skipped", "forced", "crash"} = {} =>
        \/ i \in act
        \/ \E h \in Requests : rq[h].pc = "activate" /\ rq[h].inv = i

\* The three invariants, now and in the next state, invoice by invoice.
LEMMA LocalIs ==
    /\ BalanceAddsUp <=> \A i \in Invoices : Balanced(inv[i], flaws[i])
    /\ BalanceAddsUp' <=> \A i \in Invoices : Balanced(inv'[i], flaws'[i])
    /\ TotalFollowsItems <=> \A i \in Invoices : Totalled(i, inv[i], items[i], req, flaws[i])
    /\ TotalFollowsItems' <=>
          \A i \in Invoices : Totalled(i, inv'[i], items'[i], req', flaws'[i])
    /\ PaidIsActivated <=> \A i \in Invoices : Activated(i, inv[i], req, activated, flaws[i])
    /\ PaidIsActivated' <=>
          \A i \in Invoices : Activated(i, inv'[i], req', activated', flaws'[i])
<1>1. /\ BalanceAddsUp <=> \A i \in Invoices : Balanced(inv[i], flaws[i])
      /\ BalanceAddsUp' <=> \A i \in Invoices : Balanced(inv'[i], flaws'[i])
  BY DEF BalanceAddsUp, Balanced, Clean, Exists
<1>2. /\ TotalFollowsItems <=> \A i \in Invoices : Totalled(i, inv[i], items[i], req, flaws[i])
      /\ TotalFollowsItems' <=>
            \A i \in Invoices : Totalled(i, inv'[i], items'[i], req', flaws'[i])
  BY DEF TotalFollowsItems, Totalled, Clean, Exists
<1>3. /\ PaidIsActivated <=> \A i \in Invoices : Activated(i, inv[i], req, activated, flaws[i])
      /\ PaidIsActivated' <=>
            \A i \in Invoices : Activated(i, inv'[i], req', activated', flaws'[i])
  BY DEF PaidIsActivated, Activated, Clean, Exists, None
<1> QED
  BY <1>1, <1>2, <1>3

\* A step that changes no invoice but i, and forgets nothing that happened to it.
OnlyInvoice(i) ==
    /\ inv' \in [Invoices -> RowRec] /\ items' \in [Invoices -> SUBSET Prices]
    /\ flaws' \in [Invoices -> SUBSET Whys]
    /\ Exists(i) /\ inv'[i].status # None
    /\ \A j \in Invoices :
          j # i => inv'[j] = inv[j] /\ items'[j] = items[j] /\ flaws'[j] = flaws[j]
    /\ month' = month /\ number' = number /\ activated \subseteq activated'

\* A step that changes payments of invoice i only, and no amount.
OnlyPaymentsOf(i) ==
    /\ pay' \in [Payments -> PayRec] /\ payno' \in [Payments -> Nat \X Nat]
    /\ \A p \in Payments :
          /\ pay'[p] # pay[p] => pay'[p].of = i /\ (Recorded(p) => pay[p].of = i)
          /\ Recorded(p) =>
                pay'[p].status # None /\ pay'[p].amount = pay[p].amount /\ pay'[p].of = pay[p].of
          /\ ~ Recorded(p) /\ pay'[p].status # None => pay'[p].amount \in Amounts
          /\ payno'[p] # NoNumber => pay'[p].status # None

\* An operation that goes from r to q and serves no invoice but i.
Serves(i, r, q) ==
    /\ Waits(r) => r.inv = i
    /\ Waits(q) => q.inv = i
    /\ r.pc \in {"sum", "load", "totals", "activate"} => r.inv = i

\* A step of that kind keeps the invariant if it keeps what it says of invoice i.
LEMMA RowKeeps ==
    ASSUME IInv, NEW h \in Requests, NEW q \in ReqRec, Moves(h, q), Carries(q, inv', pay'),
           NEW i \in Invoices, OnlyInvoice(i), OnlyPaymentsOf(i), Serves(i, req[h], q), Numbers',
           Balanced(inv'[i], flaws'[i]),
           Totalled(i, inv'[i], items'[i], req', flaws'[i]),
           Activated(i, inv'[i], req', activated', flaws'[i]),
           Matches(i, inv', req', pay', flaws')
    PROVE  IInv'
<1> USE DEF IInv
<1>a. /\ req' \in [Requests -> ReqRec] /\ req'[h] = q
      /\ \A g \in Requests : g # h => req'[g] = req[g]
      /\ Replaces(req, req', h)
  BY ReqStep
<1>1. Types'
  BY <1>a DEF Types, OnlyInvoice, OnlyPaymentsOf
<1>2. RowRefs' /\ ReqRefs'
  <2>1. \A j \in Invoices : Exists(j) <=> inv'[j].status # None
    BY DEF OnlyInvoice, Exists
  <2>2. \A j \in Invoices : inv'[j].status # None <=> number'[j] # NoNumber
    BY <2>1 DEF OnlyInvoice, RowRefs
  <2>3. \A j \in Invoices : items'[j] # {} => inv'[j].status # None
    BY <2>1 DEF OnlyInvoice, RowRefs
  <2>4. \A p \in Payments : ~ Recorded(p) /\ pay'[p].status # None =>
           pay'[p].amount \in Amounts /\ pay'[p].of \in Invoices /\ inv'[pay'[p].of].status # None
    BY DEF OnlyInvoice, OnlyPaymentsOf, Recorded
  <2>5. \A p \in Payments : Recorded(p) =>
           pay'[p].status # None /\ pay'[p].amount = pay[p].amount /\ pay'[p].of = pay[p].of
    BY DEF OnlyPaymentsOf
  <2>6. \A p \in Payments : payno'[p] # NoNumber => pay'[p].status # None
    BY DEF OnlyPaymentsOf
  <2>7. \A g \in Requests : req'[g] = req[g] \/ Carries(req'[g], inv', pay')
    BY <1>a
  <2> QED
    BY <1>1, <2>1, <2>2, <2>3, <2>4, <2>5, <2>6, <2>7, RefsKept
<1>3. ASSUME NEW j \in Invoices, j # i
      PROVE  /\ Balanced(inv'[j], flaws'[j])
             /\ Totalled(j, inv'[j], items'[j], req', flaws'[j])
             /\ Activated(j, inv'[j], req', activated', flaws'[j])
             /\ Matches(j, inv', req', pay', flaws')
  <2>1. inv'[j] = inv[j] /\ items'[j] = items[j] /\ flaws'[j] = flaws[j]
    BY <1>3 DEF OnlyInvoice
  <2>2. Balanced(inv'[j], flaws'[j])
    BY <2>1, LocalIs
  <2>3. Totalled(j, inv'[j], items'[j], req', flaws'[j])
    <3>1. Totalled(j, inv[j], items[j], req, flaws[j])
      BY LocalIs
    <3> QED
      BY <1>3, <1>a, <2>1, <3>1 DEF Totalled, Serves
  <2>4. Activated(j, inv'[j], req', activated', flaws'[j])
    <3>1. Activated(j, inv[j], req, activated, flaws[j])
      BY LocalIs
    <3> QED
      BY <1>3, <1>a, <2>1, <3>1 DEF Activated, Serves, OnlyInvoice
  <2>5. Matches(j, inv', req', pay', flaws')
    <3>1. Matches(j, inv, req, pay, flaws)
      BY MatchesIs
    <3>2. OpenSum(req', j) = OpenSum(req, j)
      BY <1>3, <1>a, OpenOther DEF Serves
    <3>3. Settled(pay', j) = Settled(pay, j)
      BY <1>3 DEF Settled, OnlyPaymentsOf, Recorded, Counted, None
    <3>4. \A p \in Settled(pay, j) : pay'[p].amount = pay[p].amount
      BY DEF Settled, OnlyPaymentsOf, Recorded, Counted, None
    <3>5. PayTables(pay, pay')
      BY DEF PayTables, OnlyPaymentsOf, Types
    <3>6. PaidSum(pay', j) = PaidSum(pay, j)
      BY <3>3, <3>4, <3>5, PaidSame
    <3> QED
      BY <2>1, <3>1, <3>2, <3>6 DEF Matches
  <2> QED
    BY <2>2, <2>3, <2>4, <2>5
<1>4. BalanceAddsUp' /\ TotalFollowsItems' /\ PaidIsActivated' /\ PaidMatchesPayments'
  <2>1. BalanceAddsUp'
    BY <1>3, LocalIs
  <2>2. TotalFollowsItems'
    BY <1>3, LocalIs
  <2>3. PaidIsActivated'
    BY <1>3, LocalIs
  <2>4. PaidMatchesPayments'
    BY <1>3, MatchesIs
  <2> QED
    BY <2>1, <2>2, <2>3, <2>4
<1> QED
  BY <1>1, <1>2, <1>4

\* A step that changes no payment.
LEMMA SamePayments ==
    ASSUME IInv, UNCHANGED <<pay, payno>>
    PROVE  \A i : OnlyPaymentsOf(i)
  BY DEF IInv, Types, RowRefs, OnlyPaymentsOf, Recorded

\* More marks excuse more.
LEMMA MoreMarks ==
    ASSUME NEW fl, NEW fm, fl \subseteq fm, NEW i, NEW r, NEW rs, NEW its, NEW rq, NEW act, NEW ps,
           NEW f, NEW g, f[i] \subseteq g[i]
    PROVE  /\ Balanced(r, fl) => Balanced(r, fm)
           /\ Totalled(i, r, its, rq, fl) => Totalled(i, r, its, rq, fm)
           /\ Activated(i, r, rq, act, fl) => Activated(i, r, rq, act, fm)
           /\ Matches(i, rs, rq, ps, f) => Matches(i, rs, rq, ps, g)
<1>1. Balanced(r, fl) => Balanced(r, fm)
  BY DEF Balanced
<1>2. Totalled(i, r, its, rq, fl) => Totalled(i, r, its, rq, fm)
  BY DEF Totalled
<1>3. Activated(i, r, rq, act, fl) => Activated(i, r, rq, act, fm)
  BY DEF Activated
<1>4. Matches(i, rs, rq, ps, f) => Matches(i, rs, rq, ps, g)
  BY DEF Matches
<1> QED
  BY <1>1, <1>2, <1>3, <1>4

\* add_invoice_item commits the item; its totals are still to come.
LEMMA ItemKeeps ==
    ASSUME IInv, NEW h \in Requests, add_invoice_item(h)
    PROVE  IInv'
<1> USE DEF IInv
<1> DEFINE i == req[h].inv
           q == [req[h] EXCEPT !.pc = "sum"]
           why == IF inv[i].status = "paid" THEN {"grown"} ELSE {}
<1>1. /\ req[h].pc = "item" /\ i \in Invoices /\ Exists(i) /\ req[h].by = None
      /\ req[h].pays = {} /\ req[h].amount \in Prices
  BY DEF add_invoice_item, ReqRefs, Carries, Exists
<1>2. /\ Moves(h, q) /\ items' = [items EXCEPT ![i] = @ \cup {req[h].amount}] /\ Mark(i, why)
      /\ UNCHANGED <<month, inv, number, pay, payno, activated>>
  BY DEF add_invoice_item, Goto, Moves
<1>3. req[h] \in ReqRec
  BY Shapes
<1>4. q \in ReqRec
  BY <1>3 DEF ReqRec, Steps
<1>5. q.pc = "sum" /\ q.by = req[h].by /\ q.pays = req[h].pays /\ q.inv = i
  BY <1>3 DEF ReqRec
<1>6. why \in SUBSET Whys
  BY DEF Whys
<1> HIDE DEF i, q, why
<1>7. /\ flaws' \in [Invoices -> SUBSET Whys] /\ flaws[i] \subseteq flaws'[i]
      /\ \A j \in Invoices : j # i => flaws'[j] = flaws[j]
  BY <1>1, <1>2, <1>6, MarkIs
<1>8. req'[h] = q /\ Replaces(req, req', h)
  BY <1>2, <1>4, ReqStep
<1>9. Carries(q, inv', pay')
  BY <1>1, <1>2, <1>5 DEF Carries, Exists, None
<1>10. OnlyInvoice(i)
  BY <1>1, <1>2, <1>7 DEF OnlyInvoice, Types, Exists
<1>11. OnlyPaymentsOf(i)
  BY <1>2, SamePayments
<1>12. ~ Waits(req[h]) /\ ~ Waits(q)
  BY <1>1, <1>5 DEF Waits, None
<1>13. Serves(i, req[h], q)
  BY <1>1, <1>12 DEF Serves
<1>14. Numbers'
  BY <1>2, <1>4, <1>5, ReqStep, NumbersKept
<1>15. Balanced(inv'[i], flaws'[i])
  BY <1>1, <1>2, <1>7, LocalIs, MoreMarks
<1>16. Totalled(i, inv'[i], items'[i], req', flaws'[i])
  BY <1>5, <1>8 DEF Totalled
<1>17. Activated(i, inv'[i], req', activated', flaws'[i])
  <2>1. Activated(i, inv[i], req, activated, flaws[i])
    BY <1>1, LocalIs
  <2> QED
    BY <1>1, <1>2, <1>4, <1>7, <2>1, ReqStep DEF Activated
<1>18. Matches(i, inv', req', pay', flaws')
  <2>1. Matches(i, inv, req, pay, flaws)
    BY <1>1, MatchesIs
  <2>2. OpenSum(req', i) = OpenSum(req, i)
    BY <1>8, <1>12, OpenOther
  <2> QED
    BY <1>2, <1>7, <2>1, <2>2 DEF Matches
<1> QED
  BY <1>1, <1>2, <1>4, <1>9, <1>10, <1>11, <1>13, <1>14, <1>15, <1>16, <1>17, <1>18, RowKeeps

\* _update_invoice_totals commits.  If nobody has written the invoice since it was
\* loaded, and the items are those that were added up, the columns agree again.
LEMMA TotalsKeeps ==
    ASSUME IInv, NEW h \in Requests, _update_invoice_totals(h)
    PROVE  IInv'
<1> USE DEF IInv
<1> DEFINE i == req[h].inv
           s == req[h].seen
           n == NewTotals(s, req[h].sum)
           x == FlushOf(inv[i], s, n)
           why == Stale(i, s, {"total", "paid", "balance"})
                  \cup (IF SumSet(items[i]) # req[h].sum THEN {"race"} ELSE {})
                  \cup (IF inv[i].status = "paid" THEN {"grown"} ELSE {})
<1>1. /\ req[h].pc = "totals" /\ i \in Invoices /\ Exists(i) /\ req[h].by = None
      /\ s.status # None
  BY DEF _update_invoice_totals, ReqRefs, Carries, Exists
<1>2. /\ Moves(h, Idle) /\ inv' = [inv EXCEPT ![i] = x] /\ Mark(i, why)
      /\ UNCHANGED <<month, items, number, pay, payno, activated>>
  BY DEF _update_invoice_totals, Goto, Moves, Flush, FlushOf
<1>3. s \in RowRec /\ req[h].sum \in Nat /\ inv[i] \in RowRec
  BY <1>1, Shapes
<1>4. /\ n \in RowRec /\ n.status = s.status /\ n.paid = s.paid
      /\ n.total = req[h].sum + Adjust /\ n.balance = req[h].sum + Adjust - s.paid
  <2>1. s.paid \in Int /\ req[h].sum + Adjust \in Int /\ req[h].sum + Adjust - s.paid \in Int
    BY <1>3, LedgerAssumption DEF RowRec
  <2> HIDE DEF s
  <2> QED
    BY <1>3, <2>1 DEF NewTotals, RowRec
<1>5. why \in SUBSET Whys
  BY DEF Whys, Stale
<1>6. \/ "race" \in why
      \/ /\ inv[i].total = s.total /\ inv[i].paid = s.paid /\ inv[i].balance = s.balance
         /\ SumSet(items[i]) = req[h].sum
  <2>1. CASE \E c \in {"total", "paid", "balance"} : inv[i][c] # s[c]
    <3>1. "race" \in Stale(i, s, {"total", "paid", "balance"})
      BY <2>1 DEF Stale
    <3> QED
      BY <3>1
  <2>2. CASE SumSet(items[i]) # req[h].sum
    BY <2>2
  <2>3. CASE /\ ~ \E c \in {"total", "paid", "balance"} : inv[i][c] # s[c]
             /\ SumSet(items[i]) = req[h].sum
    BY <2>3
  <2> QED
    BY <2>1, <2>2, <2>3
<1>7. inv[i].status = "paid" => "grown" \in why
  OBVIOUS
<1> HIDE DEF i, s, n, why
<1>8. x \in RowRec
  BY <1>3, <1>4, FlushIn
<1>9. /\ x.status = inv[i].status /\ x.paid = inv[i].paid
      /\ x.total = (IF n.total = s.total THEN inv[i].total ELSE n.total)
      /\ x.balance = (IF n.balance = s.balance THEN inv[i].balance ELSE n.balance)
  BY <1>3, <1>4, FlushFields
<1> HIDE DEF x
<1>10. /\ flaws' \in [Invoices -> SUBSET Whys] /\ flaws'[i] = flaws[i] \cup why
       /\ \A j \in Invoices : j # i => flaws'[j] = flaws[j]
  BY <1>1, <1>2, <1>5, MarkIs
<1>11. req'[h] = Idle /\ Replaces(req, req', h)
       /\ \A g \in Requests : g # h => req'[g] = req[g]
  BY <1>2, IdleShape, ReqStep
<1>12. /\ inv' \in [Invoices -> RowRec] /\ inv'[i] = x
       /\ \A j \in Invoices : j # i => inv'[j] = inv[j]
  BY <1>1, <1>2, <1>8 DEF Types
<1>13. OnlyInvoice(i)
  BY <1>1, <1>2, <1>9, <1>10, <1>12 DEF OnlyInvoice, Types, Exists
<1>14. OnlyPaymentsOf(i)
  BY <1>2, SamePayments
<1>15. ~ Waits(req[h]) /\ ~ Waits(Idle)
  BY <1>1, IdleShape DEF Waits, None
<1>16. Serves(i, req[h], Idle)
  BY <1>15 DEF Serves, i
<1>17. Numbers'
  BY <1>2, <1>11, IdleShape, NumbersKept
<1>18. \/ "race" \in flaws'[i]
       \/ x.total = SumSet(items'[i]) + Adjust /\ x.balance = x.total - x.paid
  <2>1. CASE "race" \in why
    BY <1>10, <2>1
  <2>2. CASE "race" \notin why
    <3>1. x.total = n.total /\ x.balance = n.balance
      BY <1>6, <1>9, <2>2
    <3>2. s.paid \in Int /\ req[h].sum \in Int /\ Adjust \in Int
      BY <1>3, LedgerAssumption DEF RowRec
    <3>3. x.paid = s.paid /\ items'[i] = items[i] /\ SumSet(items[i]) = req[h].sum
      BY <1>2, <1>6, <1>9, <2>2
    <3>4. x.total = SumSet(items'[i]) + Adjust
      BY <1>4, <3>1, <3>3
    <3>5. x.balance = x.total - x.paid
      BY <1>4, <3>1, <3>2, <3>3
    <3> QED
      BY <3>4, <3>5
  <2> QED
    BY <2>1, <2>2
<1>19. Balanced(inv'[i], flaws'[i])
  BY <1>7, <1>9, <1>10, <1>12, <1>18 DEF Balanced
<1>20. Totalled(i, inv'[i], items'[i], req', flaws'[i])
  BY <1>12, <1>18 DEF Totalled
<1>21. Activated(i, inv'[i], req', activated', flaws'[i])
  <2>1. Activated(i, inv[i], req, activated, flaws[i])
    BY <1>1, LocalIs
  <2> QED
    BY <1>1, <1>2, <1>9, <1>10, <1>11, <1>12, <2>1 DEF Activated
<1>22. Matches(i, inv', req', pay', flaws')
  <2>1. Matches(i, inv, req, pay, flaws)
    BY <1>1, MatchesIs
  <2>2. OpenSum(req', i) = OpenSum(req, i)
    BY <1>11, <1>15, OpenOther
  <2> QED
    BY <1>2, <1>9, <1>10, <1>12, <2>1, <2>2 DEF Matches
<1> QED
  BY <1>1, <1>2, <1>13, <1>14, <1>16, <1>17, <1>19, <1>20, <1>21, <1>22, IdleShape, IdleCarries,
     RowKeeps

\* delete_invoice_item leaves the totals as they are, which the mark excuses.
LEMMA DeleteItemKeeps ==
    ASSUME IInv, NEW h \in Requests, NEW i \in Invoices, NEW price \in Prices,
           delete_invoice_item(h, i, price)
    PROVE  IInv'
<1> USE DEF IInv
<1>1. /\ items' = [items EXCEPT ![i] = @ \ {price}] /\ Mark(i, {"deleted"})
      /\ req[h] = Idle /\ Moves(h, Idle) /\ items[i] # {}
      /\ UNCHANGED <<month, inv, number, pay, payno, activated, req>>
  BY DEF delete_invoice_item, Alone, Moves, Types
<1>2. Exists(i)
  BY <1>1 DEF RowRefs
<1>3. /\ flaws' \in [Invoices -> SUBSET Whys] /\ flaws'[i] = flaws[i] \cup {"deleted"}
      /\ \A j \in Invoices : j # i => flaws'[j] = flaws[j]
  <2>1. {"deleted"} \in SUBSET Whys
    BY DEF Whys
  <2> QED
    BY <1>1, <2>1, MarkIs
<1>4. OnlyInvoice(i)
  BY <1>1, <1>2, <1>3 DEF OnlyInvoice, Types, Exists
<1>5. OnlyPaymentsOf(i)
  BY <1>1, SamePayments
<1>6. Serves(i, req[h], Idle)
  BY <1>1, IdleShape DEF Serves
<1>7. Numbers'
  BY <1>1, NumbersKept
<1>8. Balanced(inv'[i], flaws'[i])
  BY <1>1, <1>3, LocalIs, MoreMarks
<1>9. Totalled(i, inv'[i], items'[i], req', flaws'[i])
  BY <1>3 DEF Totalled
<1>10. Activated(i, inv'[i], req', activated', flaws'[i])
  BY <1>1, <1>3, LocalIs, MoreMarks
<1>11. Matches(i, inv', req', pay', flaws')
  BY <1>1, <1>3, MatchesIs DEF Matches
<1> QED
  BY <1>1, <1>4, <1>5, <1>6, <1>7, <1>8, <1>9, <1>10, <1>11, IdleShape, IdleCarries, RowKeeps

\* update_invoice_status: the mark excuses the columns and the activation; the
\* total and what was paid stay.
LEMMA StatusKeeps ==
    ASSUME IInv, NEW h \in Requests, update_invoice_status(h)
    PROVE  IInv'
<1> USE DEF IInv
<1> DEFINE i == req[h].inv
           s == req[h].seen
           to == req[h].to
           n == IF to = "paid" THEN [s EXCEPT !.status = to, !.balance = 0]
                               ELSE [s EXCEPT !.status = to]
           x == FlushOf(inv[i], s, n)
<1>1. /\ req[h].pc = "status" /\ i \in Invoices /\ Exists(i) /\ req[h].by = None
      /\ s.status # None /\ to \in {"paid", "overdue"}
  BY DEF update_invoice_status, ReqRefs, Carries, Exists
<1>2. /\ Moves(h, Idle) /\ inv' = [inv EXCEPT ![i] = x] /\ Mark(i, {"forced"})
      /\ UNCHANGED <<month, items, number, pay, payno, activated>>
  BY DEF update_invoice_status, Goto, Moves, Flush, FlushOf
<1>3. s \in RowRec /\ inv[i] \in RowRec
  BY <1>1, Shapes
<1>4. n \in RowRec /\ n.status = to /\ n.paid = s.paid /\ n.total = s.total
  <2> HIDE DEF s, to
  <2>1. CASE to = "paid"
    <3>1. n = [[s EXCEPT !.status = to] EXCEPT !.balance = 0]
      BY <1>3, <2>1 DEF RowRec
    <3>2. [s EXCEPT !.status = to] \in RowRec
      BY <1>1, <1>3 DEF RowRec, InvoiceStatus
    <3>3. /\ [s EXCEPT !.status = to].status = to /\ [s EXCEPT !.status = to].paid = s.paid
          /\ [s EXCEPT !.status = to].total = s.total
      BY <1>3 DEF RowRec
    <3> DEFINE a == [s EXCEPT !.status = to]
    <3> HIDE DEF a, n
    <3>4. n = [a EXCEPT !.balance = 0] /\ a \in RowRec
      BY <3>1, <3>2 DEF a
    <3>5. n \in RowRec /\ n.status = a.status /\ n.paid = a.paid /\ n.total = a.total
      BY <3>4 DEF RowRec
    <3> QED
      BY <3>3, <3>5 DEF a
  <2>2. CASE to # "paid"
    BY <1>1, <1>3, <2>2 DEF RowRec, InvoiceStatus
  <2> QED
    BY <2>1, <2>2
<1> HIDE DEF i, s, to, n
<1>8. x \in RowRec
  BY <1>3, <1>4, FlushIn
<1>9. /\ x.status # None /\ x.paid = inv[i].paid /\ x.total = inv[i].total
  <2>1. /\ x.status = (IF n.status = s.status THEN inv[i].status ELSE n.status)
        /\ x.paid = inv[i].paid /\ x.total = inv[i].total
    BY <1>3, <1>4, FlushFields
  <2> QED
    BY <1>1, <1>4, <2>1 DEF Exists, None
<1> HIDE DEF x
<1>10. /\ flaws' \in [Invoices -> SUBSET Whys] /\ flaws'[i] = flaws[i] \cup {"forced"}
       /\ \A j \in Invoices : j # i => flaws'[j] = flaws[j]
  <2>1. {"forced"} \in SUBSET Whys
    BY DEF Whys
  <2> QED
    BY <1>1, <1>2, <2>1, MarkIs
<1>11. req'[h] = Idle /\ Replaces(req, req', h)
       /\ \A g \in Requests : g # h => req'[g] = req[g]
  BY <1>2, IdleShape, ReqStep
<1>12. /\ inv' \in [Invoices -> RowRec] /\ inv'[i] = x
       /\ \A j \in Invoices : j # i => inv'[j] = inv[j]
  BY <1>1, <1>2, <1>8 DEF Types
<1>13. OnlyInvoice(i)
  BY <1>1, <1>2, <1>9, <1>10, <1>12 DEF OnlyInvoice, Types, Exists
<1>14. OnlyPaymentsOf(i)
  BY <1>2, SamePayments
<1>15. ~ Waits(req[h]) /\ ~ Waits(Idle)
  BY <1>1, IdleShape DEF Waits, None
<1>16. Serves(i, req[h], Idle)
  BY <1>1, <1>15 DEF Serves
<1>17. Numbers'
  BY <1>2, <1>11, IdleShape, NumbersKept
<1>18. Balanced(inv'[i], flaws'[i]) /\ Activated(i, inv'[i], req', activated', flaws'[i])
  BY <1>10 DEF Balanced, Activated
<1>19. Totalled(i, inv'[i], items'[i], req', flaws'[i])
  <2>1. Totalled(i, inv[i], items[i], req, flaws[i])
    BY <1>1, LocalIs
  <2> QED
    BY <1>1, <1>2, <1>9, <1>10, <1>11, <1>12, <2>1 DEF Totalled, Exists
<1>20. Matches(i, inv', req', pay', flaws')
  <2>1. Matches(i, inv, req, pay, flaws)
    BY <1>1, MatchesIs
  <2>2. OpenSum(req', i) = OpenSum(req, i)
    BY <1>11, <1>15, OpenOther
  <2> QED
    BY <1>1, <1>2, <1>9, <1>10, <1>12, <2>1, <2>2 DEF Matches, Exists
<1> QED
  BY <1>1, <1>2, <1>13, <1>14, <1>16, <1>17, <1>18, <1>19, <1>20, IdleShape, IdleCarries,
     RowKeeps

\* A step that leaves every invoice as it is.
LEMMA SameInvoices ==
    ASSUME IInv, UNCHANGED <<month, inv, items, number, activated, flaws>>,
           NEW i \in Invoices, Exists(i)
    PROVE  OnlyInvoice(i)
  BY DEF IInv, Types, OnlyInvoice, Exists

\* The row of one payment is written.
Writes(p, x) == pay' = [pay EXCEPT ![p] = x]

\* What the payments are after it.
LEMMA WriteIs ==
    ASSUME Types, NEW p \in Payments, NEW x \in PayRec, Writes(p, x)
    PROVE  /\ pay' \in [Payments -> PayRec] /\ pay'[p] = x /\ PayTables(pay, pay')
           /\ \A o \in Payments : o # p => pay'[o] = pay[o]
  BY DEF Types, Writes, PayTables

\* record_manual_payment: the new payment does not count yet.
LEMMA ManualKeeps ==
    ASSUME IInv, NEW h \in Requests, NEW p \in Payments, NEW i \in Invoices, NEW amount \in Amounts,
           record_manual_payment(h, p, i, amount)
    PROVE  IInv'
<1> USE DEF IInv
<1> DEFINE x == [status |-> "unchecked", amount |-> amount, of |-> i]
<1>1. /\ Exists(i) /\ ~ Recorded(p) /\ Writes(p, x) /\ req[h] = Idle /\ Moves(h, Idle)
      /\ UNCHANGED <<month, inv, items, number, payno, activated, flaws, req>>
  BY DEF record_manual_payment, Alone, Moves, Types, Writes
<1>2. x \in PayRec /\ x.status = "unchecked" /\ x.amount = amount /\ x.of = i
  <2>1. amount \in Nat
    BY LedgerAssumption
  <2> QED
    BY <2>1 DEF PayRec, PaymentStatus
<1> HIDE DEF x
<1>3. /\ pay' \in [Payments -> PayRec] /\ pay'[p] = x /\ PayTables(pay, pay')
      /\ \A o \in Payments : o # p => pay'[o] = pay[o]
  BY <1>1, <1>2, WriteIs
<1>4. OnlyInvoice(i)
  BY <1>1, SameInvoices
<1>5. OnlyPaymentsOf(i)
  BY <1>1, <1>2, <1>3 DEF OnlyPaymentsOf, Recorded, Types, RowRefs, None
<1>6. Serves(i, req[h], Idle)
  BY <1>1, IdleShape DEF Serves
<1>7. Numbers'
  BY <1>1, NumbersKept
<1>8. /\ Balanced(inv'[i], flaws'[i]) /\ Totalled(i, inv'[i], items'[i], req', flaws'[i])
      /\ Activated(i, inv'[i], req', activated', flaws'[i])
  BY <1>1, LocalIs
<1>9. Matches(i, inv', req', pay', flaws')
  <2>1. Settled(pay', i) = Settled(pay, i) /\ p \notin Settled(pay, i)
    BY <1>1, <1>2, <1>3 DEF Settled, Counted, Recorded, None
  <2>2. \A o \in Settled(pay, i) : pay'[o].amount = pay[o].amount
    BY <1>3, <2>1 DEF Settled
  <2>3. PaidSum(pay', i) = PaidSum(pay, i)
    BY <1>3, <2>1, <2>2, PaidSame
  <2> QED
    BY <1>1, <2>3, MatchesIs DEF Matches
<1> QED
  BY <1>1, <1>4, <1>5, <1>6, <1>7, <1>8, <1>9, IdleShape, IdleCarries, RowKeeps

\* A payment is set to a status that is not credited: if it begins or ceases to
\* count by that, it is marked.
LEMMA RestateKeeps ==
    ASSUME IInv, NEW h \in Requests, NEW p \in Payments, NEW to \in PaymentStatus \ {"checked"},
           Restate(h, p, to)
    PROVE  IInv'
<1> USE DEF IInv
<1> DEFINE i == pay[p].of
           x == [pay[p] EXCEPT !.status = to]
           why == IF pay[p].status \in Counted <=> to \in Counted THEN {} ELSE {"restated"}
<1>1. /\ Recorded(p) /\ Writes(p, x) /\ req[h] = Idle /\ Moves(h, Idle) /\ Mark(i, why)
      /\ UNCHANGED <<month, inv, items, number, payno, activated, req>>
  BY DEF Restate, Alone, Moves, Types, Writes
<1>2. i \in Invoices /\ Exists(i)
  BY <1>1 DEF RowRefs
<1>3. x \in PayRec /\ x.status = to /\ x.amount = pay[p].amount /\ x.of = i
  <2>1. pay[p] \in PayRec
    BY Shapes
  <2> QED
    BY <2>1 DEF PayRec, PaymentStatus
<1>4. why \in SUBSET Whys /\ (~(pay[p].status \in Counted <=> to \in Counted) => "restated" \in why)
  BY DEF Whys
<1> HIDE DEF i, x, why
<1>5. /\ pay' \in [Payments -> PayRec] /\ pay'[p] = x /\ PayTables(pay, pay')
      /\ \A o \in Payments : o # p => pay'[o] = pay[o]
  BY <1>1, <1>3, WriteIs
<1>6. /\ flaws' \in [Invoices -> SUBSET Whys] /\ flaws'[i] = flaws[i] \cup why
      /\ \A j \in Invoices : j # i => flaws'[j] = flaws[j]
  BY <1>1, <1>2, <1>4, MarkIs
<1>7. OnlyInvoice(i)
  BY <1>1, <1>2, <1>6 DEF OnlyInvoice, Types, Exists
<1>8. OnlyPaymentsOf(i)
  <2>1. pay[p].of = i /\ pay[p].status # None /\ pay'[p].status # None
    BY <1>1, <1>3, <1>5 DEF i, Recorded, None, PaymentStatus
  <2> QED
    BY <1>1, <1>3, <1>5, <2>1 DEF OnlyPaymentsOf, Recorded, Types, RowRefs
<1>9. Serves(i, req[h], Idle)
  BY <1>1, IdleShape DEF Serves
<1>10. Numbers'
  BY <1>1, NumbersKept
<1>11. flaws[i] \subseteq flaws'[i]
  BY <1>6
<1>12. Balanced(inv'[i], flaws'[i])
  BY <1>1, <1>2, <1>11, LocalIs, MoreMarks
<1>13. Totalled(i, inv'[i], items'[i], req', flaws'[i])
  BY <1>1, <1>2, <1>11, LocalIs, MoreMarks
<1>14. Activated(i, inv'[i], req', activated', flaws'[i])
  BY <1>1, <1>2, <1>11, LocalIs, MoreMarks
<1>15. Matches(i, inv', req', pay', flaws')
  <2>1. CASE ~(pay[p].status \in Counted <=> to \in Counted)
    BY <1>4, <1>6, <2>1 DEF Matches
  <2>2. CASE pay[p].status \in Counted <=> to \in Counted
    <3>0. pay'[p].of = pay[p].of /\ pay'[p].amount = pay[p].amount
          /\ (pay'[p].status \in Counted <=> pay[p].status \in Counted)
      BY <1>3, <1>5, <2>2 DEF i
    <3>1. Settled(pay', i) = Settled(pay, i)
      BY <1>5, <3>0 DEF Settled
    <3>2. \A o \in Settled(pay, i) : pay'[o].amount = pay[o].amount
      BY <1>5, <3>0 DEF Settled
    <3>3. PaidSum(pay', i) = PaidSum(pay, i)
      BY <1>5, <3>1, <3>2, PaidSame
    <3>4. Matches(i, inv, req, pay, flaws)
      BY <1>2, MatchesIs
    <3> QED
      BY <1>1, <1>11, <3>3, <3>4 DEF Matches
  <2> QED
    BY <2>1, <2>2
<1> QED
  BY <1>1, <1>2, <1>7, <1>8, <1>9, <1>10, <1>12, <1>13, <1>14, <1>15, IdleShape, IdleCarries,
     RowKeeps

\* The subscription of a paid invoice is activated.
LEMMA ActivateKeeps ==
    ASSUME IInv, NEW h \in Requests, _activate_subscription_on_payment(h)
    PROVE  IInv'
<1> USE DEF IInv
<1> DEFINE i == req[h].inv
<1>1. /\ req[h].pc = "activate" /\ i \in Invoices /\ Exists(i) /\ req[h].by = None
      /\ activated' = activated \cup {i} /\ Moves(h, Idle)
      /\ UNCHANGED <<month, inv, items, number, pay, payno, flaws>>
  BY DEF _activate_subscription_on_payment, Goto, Moves, ReqRefs, Carries, Exists
<1> HIDE DEF i
<1>2. req'[h] = Idle /\ Replaces(req, req', h)
      /\ \A g \in Requests : g # h => req'[g] = req[g]
  BY <1>1, IdleShape, ReqStep
<1>3. OnlyInvoice(i)
  BY <1>1 DEF OnlyInvoice, Types, Exists
<1>4. OnlyPaymentsOf(i)
  BY <1>1, SamePayments
<1>5. ~ Waits(req[h]) /\ ~ Waits(Idle)
  BY <1>1, IdleShape DEF Waits, None
<1>6. Serves(i, req[h], Idle)
  BY <1>5 DEF Serves, i
<1>7. Numbers'
  BY <1>1, <1>2, IdleShape, NumbersKept
<1>8. Balanced(inv'[i], flaws'[i])
  BY <1>1, LocalIs
<1>9. Totalled(i, inv'[i], items'[i], req', flaws'[i])
  <2>1. Totalled(i, inv[i], items[i], req, flaws[i])
    BY <1>1, LocalIs
  <2> QED
    BY <1>1, <1>2, <2>1 DEF Totalled
<1>10. Activated(i, inv'[i], req', activated', flaws'[i])
  BY <1>1 DEF Activated
<1>11. Matches(i, inv', req', pay', flaws')
  <2>1. Matches(i, inv, req, pay, flaws)
    BY <1>1, MatchesIs
  <2>2. OpenSum(req', i) = OpenSum(req, i)
    BY <1>2, <1>5, OpenOther
  <2> QED
    BY <1>1, <2>1, <2>2 DEF Matches
<1> QED
  BY <1>1, <1>3, <1>4, <1>6, <1>7, <1>8, <1>9, <1>10, <1>11, IdleShape, IdleCarries, RowKeeps

\* create_payment inserts the row.  A payment that counts at once is money on its
\* way to the invoice.
LEMMA CreatePaymentKeeps ==
    ASSUME IInv, NEW h \in Requests, NEW p \in Payments, NEW offline \in BOOLEAN,
           create_payment(h, p, offline)
    PROVE  IInv'
<1> USE DEF IInv
<1> DEFINE i == req[h].inv
<1>1. /\ req[h].pc = "payment" /\ ~ Recorded(p) /\ i \in Invoices /\ Exists(i)
      /\ req[h].by = None /\ req[h].pays = {} /\ req[h].amount \in Amounts
      /\ UNCHANGED <<month, inv, items, number, activated, flaws>>
  BY DEF create_payment, ReqRefs, Carries, Exists
<1>2. CASE Taken(payno, req[h].no)
  <2>1. Moves(h, Idle) /\ UNCHANGED <<pay, payno>>
    BY <1>2 DEF create_payment, Goto, Moves
  <2> QED
    BY <1>1, <2>1, GiveUpKeeps DEF None
<1>3. CASE ~ Taken(payno, req[h].no)
  <2> DEFINE st == IF offline THEN "completed" ELSE "pending"
             x == [status |-> st, amount |-> req[h].amount, of |-> i]
             q == IF offline THEN [req[h] EXCEPT !.pc = "apply"] ELSE Idle
  <2>1. Writes(p, x) /\ payno' = [payno EXCEPT ![p] = req[h].no] /\ Moves(h, q)
    BY <1>3 DEF create_payment, Goto, Moves, Writes
  <2>2. req[h] \in ReqRec /\ req[h].amount \in Nat /\ req[h].no \in Nat \X Nat
    BY Shapes
  <2>3. /\ st \in PaymentStatus /\ st # None /\ (offline => st = "completed")
        /\ (~ offline => st = "pending")
    BY DEF PaymentStatus, None
  <2>4. q \in ReqRec /\ (offline => q.pc = "apply" /\ q.by = None /\ q.pays = {} /\ q.inv = i
                                    /\ q.amount = req[h].amount)
        /\ (~ offline => q = Idle)
    <3>1. [req[h] EXCEPT !.pc = "apply"] \in ReqRec
      BY <2>2 DEF ReqRec, Steps
    <3>2. /\ [req[h] EXCEPT !.pc = "apply"].pc = "apply"
          /\ [req[h] EXCEPT !.pc = "apply"].by = req[h].by
          /\ [req[h] EXCEPT !.pc = "apply"].pays = req[h].pays
          /\ [req[h] EXCEPT !.pc = "apply"].inv = i
          /\ [req[h] EXCEPT !.pc = "apply"].amount = req[h].amount
      BY <2>2 DEF ReqRec
    <3> QED
      BY <1>1, <3>1, <3>2, IdleShape
  <2> HIDE DEF i, st, q
  <2>5. x \in PayRec /\ x.status = st /\ x.amount = req[h].amount /\ x.of = i
    BY <1>1, <2>2, <2>3 DEF PayRec
  <2> HIDE DEF x
  <2>6. /\ pay' \in [Payments -> PayRec] /\ pay'[p] = x /\ PayTables(pay, pay')
        /\ \A o \in Payments : o # p => pay'[o] = pay[o]
    BY <2>1, <2>5, WriteIs
  <2>7. /\ req'[h] = q /\ Replaces(req, req', h)
        /\ \A g \in Requests : g # h => req'[g] = req[g]
    BY <2>1, <2>4, ReqStep
  <2>8. /\ payno' \in [Payments -> Nat \X Nat] /\ payno'[p] = req[h].no
        /\ \A o \in Payments : o # p => payno'[o] = payno[o]
    BY <2>1, <2>2 DEF Types
  <2>9. ~ Waits(req[h]) /\ (Waits(q) <=> offline)
    BY <1>1, <2>4, IdleShape DEF Waits, None
  <2>10. Carries(q, inv', pay')
    <3>1. CASE offline
      BY <1>1, <2>4, <3>1 DEF Carries, Exists, None
    <3>2. CASE ~ offline
      BY <2>4, <3>2, IdleCarries
    <3> QED
      BY <3>1, <3>2
  <2>11. OnlyInvoice(i)
    BY <1>1, SameInvoices
  <2>12. OnlyPaymentsOf(i)
    BY <1>1, <2>3, <2>5, <2>6, <2>8 DEF OnlyPaymentsOf, Recorded, Types, RowRefs
  <2>13. Serves(i, req[h], q)
    BY <1>1, <2>4, <2>9 DEF Serves
  <2>14. Numbers'
    <3>1. payno[p] = NoNumber
      BY <1>1 DEF RowRefs
    <3>2. IsFiniteSet(Payments) /\ Gapless(payno) /\ Drawn(payno, req[h].no)
      BY <1>1, LedgerAssumption DEF Numbers, NumbersGapless
    <3>3. Gives(payno, payno', Payments, p, req[h].no)
      BY <2>1 DEF Gives, Types
    <3>4. Gapless(payno') /\ \A no \in Nat \X Nat : Drawn(payno, no) => Drawn(payno', no)
      BY <1>3, <2>2, <3>1, <3>2, <3>3, GaplessStep
    <3>5. ASSUME NEW g \in Requests
          PROVE  /\ req'[g].pc = "invoice" => Drawn(number', req'[g].no)
                 /\ req'[g].pc = "payment" => Drawn(payno', req'[g].no)
      <4>1. CASE g = h
        BY <2>4, <2>7, <4>1, IdleShape
      <4>2. CASE g # h
        BY <1>1, <2>7, <3>4, <4>2, Shapes DEF Numbers
      <4> QED
        BY <4>1, <4>2
    <3>6. Gapless(number')
      BY <1>1 DEF Numbers, NumbersGapless
    <3> QED
      BY <3>4, <3>5, <3>6 DEF Numbers, NumbersGapless
  <2>15. Balanced(inv'[i], flaws'[i])
    BY <1>1, LocalIs
  <2>16. Totalled(i, inv'[i], items'[i], req', flaws'[i])
    <3>1. Totalled(i, inv[i], items[i], req, flaws[i])
      BY <1>1, LocalIs
    <3> QED
      BY <1>1, <2>7, <3>1 DEF Totalled
  <2>17. Activated(i, inv'[i], req', activated', flaws'[i])
    <3>1. Activated(i, inv[i], req, activated, flaws[i])
      BY <1>1, LocalIs
    <3> QED
      BY <1>1, <2>7, <3>1 DEF Activated
  <2>18. Matches(i, inv', req', pay', flaws')
    <3>1. Matches(i, inv, req, pay, flaws)
      BY <1>1, MatchesIs
    <3>2. p \notin Settled(pay, i)
      BY <1>1 DEF Settled, Recorded, Counted, None
    <3>3. \A o \in Settled(pay, i) : pay'[o].amount = pay[o].amount
      BY <2>6, <3>2 DEF Settled
    <3>4. CASE offline
      <4>1. OpenSum(req', i) = OpenSum(req, i) + req[h].amount
        BY <2>4, <2>7, <2>9, <3>4, OpenMore
      <4>2. Settled(pay', i) = Settled(pay, i) \cup {p}
        BY <2>3, <2>5, <2>6, <3>4 DEF Settled, Counted
      <4>3. PaidSum(pay', i) = PaidSum(pay, i) + AmountSum(pay', {p})
        BY <2>6, <3>2, <3>3, <4>2, PaidMore
      <4>4. AmountSum(pay', {} \cup {p}) = AmountSum(pay', {}) + pay'[p].amount
        BY <2>2, <2>5, <2>6, AmountSumAdd, FS_EmptySet
      <4>5. AmountSum(pay', {p}) = req[h].amount
        BY <2>2, <2>5, <2>6, <4>4, AmountSumEmpty
      <4>6. OpenSum(req, i) \in Nat /\ inv[i].paid \in Int
        BY <1>1, OpenNat, Shapes DEF Types
      <4> QED
        BY <1>1, <2>2, <3>1, <4>1, <4>3, <4>5, <4>6 DEF Matches
    <3>5. CASE ~ offline
      <4>1. OpenSum(req', i) = OpenSum(req, i)
        BY <2>7, <2>9, <3>5, OpenOther
      <4>2. Settled(pay', i) = Settled(pay, i)
        BY <2>3, <2>5, <2>6, <3>2, <3>5 DEF Settled, Counted
      <4>3. PaidSum(pay', i) = PaidSum(pay, i)
        BY <2>6, <3>3, <4>2, PaidSame
      <4> QED
        BY <1>1, <3>1, <4>1, <4>3 DEF Matches
    <3> QED
      BY <3>4, <3>5
  <2> QED
    BY <1>1, <2>1, <2>4, <2>10, <2>11, <2>12, <2>13, <2>14, <2>15, <2>16, <2>17, <2>18, RowKeeps
<1> QED
  BY <1>2, <1>3

\* What a payment makes of the row that was loaded.
LEMMA CreditIs ==
    ASSUME NEW s \in RowRec, NEW a \in Nat
    PROVE  LET n == Credit(s, a) IN
           /\ n \in RowRec /\ n.total = s.total /\ n.paid = s.paid + a
           /\ n.balance = s.total - (s.paid + a) /\ n.balance \in Int
           /\ n.status = IF n.balance <= 0 THEN "paid" ELSE s.status
<1> DEFINE paid == s.paid + a
           left == s.total - paid
           st == IF left <= 0 THEN "paid" ELSE s.status
           n == [s EXCEPT !.paid = paid, !.balance = left, !.status = st]
<1>1. paid \in Int /\ left \in Int /\ st \in InvoiceStatus \cup {None}
  BY DEF RowRec, InvoiceStatus
<1>2. Credit(s, a) = n
  BY DEF Credit
<1>3. n \in RowRec /\ n.total = s.total /\ n.paid = paid /\ n.balance = left /\ n.status = st
  <2> HIDE DEF paid, left, st
  <2> QED
    BY <1>1 DEF RowRec
<1> HIDE DEF n
<1> QED
  BY <1>1, <1>2, <1>3

\* The row that a credit commits.  Unless somebody has written the invoice since it
\* was loaded, it is the row that was computed.
LEMMA CreditFlush ==
    ASSUME NEW a \in RowRec, NEW s \in RowRec, NEW n \in RowRec, a.status # None, n.total = s.total,
           n.status \in {"paid", s.status}
    PROVE  LET x == FlushOf(a, s, n) IN
           /\ x \in RowRec /\ x.total = a.total /\ x.status # None
           /\ x.status \in {"paid", a.status}
           /\ n.status = s.status => x.status = a.status
           /\ a = s => x.paid = n.paid /\ x.balance = n.balance /\ x.status = n.status
<1>1. FlushOf(a, s, n) \in RowRec
  BY FlushIn
<1>2. /\ FlushOf(a, s, n).status = IF n.status = s.status THEN a.status ELSE n.status
      /\ FlushOf(a, s, n).total = IF n.total = s.total THEN a.total ELSE n.total
      /\ FlushOf(a, s, n).paid = IF n.paid = s.paid THEN a.paid ELSE n.paid
      /\ FlushOf(a, s, n).balance = IF n.balance = s.balance THEN a.balance ELSE n.balance
  BY FlushFields
<1> QED
  BY <1>1, <1>2 DEF None

\* Rows that agree in their columns are equal.
LEMMA RowsEqual ==
    ASSUME NEW a \in RowRec, NEW s \in RowRec,
           \A c \in {"total", "paid", "balance", "status"} : a[c] = s[c]
    PROVE  a = s
  BY DEF RowRec

\* Payments are credited to an invoice and settled.
LEMMA CreditKeeps ==
    ASSUME IInv, NEW h \in Requests, CreditWrite(h)
    PROVE  IInv'
<1> USE DEF IInv
<1> DEFINE r == req[h]
           i == r.inv
           s == r.seen
           n == Credit(s, r.amount)
           x == FlushOf(inv[i], s, n)
           act == Activates(r.by, n)
           q == IF act THEN [Idle EXCEPT !.pc = "activate", !.inv = i] ELSE Idle
           why == Stale(i, s, {"total", "paid", "balance", "status"})
                  \cup (IF \E p \in r.pays : pay[p].status \in Counted THEN {"again"} ELSE {})
                  \cup (IF n.balance <= 0 /\ r.by = "bulk" THEN {"skipped"} ELSE {})
<1>1. /\ r.pc = "credit" /\ i \in Invoices /\ Exists(i) /\ s.status # None
      /\ \A p \in r.pays : pay[p].status # None /\ pay[p].of = i
      /\ r.by = "create" => r.pays = {}
      /\ r.by # "create" => r.to \in Counted /\ r.amount = AmountSum(pay, r.pays)
  BY DEF CreditWrite, ReqRefs, Carries, Exists
<1>2. /\ inv' = [inv EXCEPT ![i] = x]
      /\ pay' = [p \in Payments |-> IF p \in r.pays THEN [pay[p] EXCEPT !.status = r.to] ELSE pay[p]]
      /\ Moves(h, q) /\ Mark(i, why) /\ UNCHANGED <<month, items, number, payno, activated>>
  BY DEF CreditWrite, Goto, Moves, Flush, FlushOf
<1>3. /\ s \in RowRec /\ inv[i] \in RowRec /\ r.amount \in Nat /\ r.pays \subseteq Payments
      /\ inv[i].total \in Int /\ inv[i].paid \in Int
  BY <1>1, Shapes
<1>4. why \in SUBSET Whys
  BY DEF Whys, Stale
<1>5. "race" \notin why => inv[i] = s
  <2>1. ASSUME "race" \notin why PROVE \A c \in {"total", "paid", "balance", "status"} : inv[i][c] = s[c]
    <3>1. "race" \notin Stale(i, s, {"total", "paid", "balance", "status"})
      BY <2>1
    <3> HIDE DEF s, i
    <3> QED
      BY <3>1 DEF Stale
  <2> QED
    BY <1>3, <2>1, RowsEqual
<1>6. /\ "again" \notin why => \A p \in r.pays : pay[p].status \notin Counted
      /\ n.balance <= 0 /\ r.by = "bulk" => "skipped" \in why
  OBVIOUS
<1>7. act <=> n.balance <= 0 /\ r.by # "bulk"
  BY DEF Activates
<1>8. /\ q \in ReqRec /\ q.by = None /\ q.pays = {}
      /\ (act => q.pc = "activate" /\ q.inv = i) /\ (~ act => q = Idle)
  <2>1. CASE act
    <3>1. q = [Idle EXCEPT !.pc = "activate", !.inv = i] /\ Idle \in ReqRec
      BY <2>1, IdleShape
    <3> HIDE DEF q, i
    <3>2. q \in ReqRec
      BY <1>1, <3>1, ZenonT(60) DEF ReqRec, Steps
    <3>3. q.by = Idle.by /\ q.pays = Idle.pays /\ q.pc = "activate" /\ q.inv = i
      BY <3>1 DEF ReqRec
    <3> QED
      BY <2>1, <3>2, <3>3, IdleShape
  <2>2. CASE ~ act
    BY <2>2, IdleShape
  <2> QED
    BY <2>1, <2>2
<1> HIDE DEF act, q, why, i, s
<1>9. /\ n \in RowRec /\ n.total = s.total /\ n.paid = s.paid + r.amount
      /\ n.balance = s.total - (s.paid + r.amount) /\ n.balance \in Int
      /\ n.status = (IF n.balance <= 0 THEN "paid" ELSE s.status)
  BY <1>3, CreditIs
<1> HIDE DEF n
<1>10. /\ x \in RowRec /\ x.total = inv[i].total /\ x.status # None
       /\ x.status \in {"paid", inv[i].status}
       /\ n.status = s.status => x.status = inv[i].status
       /\ inv[i] = s => x.paid = n.paid /\ x.balance = n.balance /\ x.status = n.status
  BY <1>1, <1>3, <1>9, CreditFlush DEF Exists
<1> HIDE DEF x, r
<1>11. /\ flaws' \in [Invoices -> SUBSET Whys] /\ flaws'[i] = flaws[i] \cup why
       /\ \A j \in Invoices : j # i => flaws'[j] = flaws[j]
  BY <1>1, <1>2, <1>4, MarkIs
<1>12. r = req[h] /\ req'[h] = q /\ Replaces(req, req', h) /\ Replaces(req', req, h)
       /\ \A g \in Requests : g # h => req'[g] = req[g]
  BY <1>2, <1>8, ReqStep DEF r
<1>13. /\ inv' \in [Invoices -> RowRec] /\ inv'[i] = x
       /\ \A j \in Invoices : j # i => inv'[j] = inv[j]
  BY <1>1, <1>2, <1>10 DEF Types
<1>14. /\ pay' \in [Payments -> PayRec] /\ PayTables(pay, pay')
       /\ \A p \in Payments : p \notin r.pays => pay'[p] = pay[p]
       /\ \A p \in r.pays : /\ pay'[p].status = r.to /\ r.to \in Counted
                            /\ pay'[p].amount = pay[p].amount /\ pay'[p].of = pay[p].of
  <2>1. ASSUME NEW p \in r.pays
        PROVE  /\ p \in Payments /\ r.to \in Counted /\ pay'[p] \in PayRec
               /\ pay'[p].status = r.to
               /\ pay'[p].amount = pay[p].amount /\ pay'[p].of = pay[p].of
    <3>1. p \in Payments /\ r.to \in Counted /\ pay[p] \in PayRec
      BY <1>1, <1>3, Shapes
    <3>2. pay'[p] = [pay[p] EXCEPT !.status = r.to]
      BY <1>2, <3>1
    <3>3. r.to \in PaymentStatus
      BY <3>1 DEF Counted, PaymentStatus
    <3> QED
      BY <3>1, <3>2, <3>3 DEF PayRec
  <2>2. ASSUME NEW p \in Payments, p \notin r.pays
        PROVE  pay'[p] = pay[p] /\ pay[p] \in PayRec
    BY <1>2, <2>2, Shapes
  <2>3. pay' = [p \in Payments |-> pay'[p]]
    BY <1>2
  <2>4. pay' \in [Payments -> PayRec]
    BY <2>1, <2>2, <2>3
  <2> QED
    BY <2>1, <2>2, <2>4 DEF PayTables, Types
<1>15. Carries(q, inv', pay')
  <2>1. CASE act
    BY <1>1, <1>8, <1>10, <1>13, <2>1 DEF Carries, None
  <2>2. CASE ~ act
    BY <1>8, <2>2, IdleCarries
  <2> QED
    BY <2>1, <2>2
<1>16. OnlyInvoice(i)
  BY <1>1, <1>2, <1>10, <1>11, <1>13 DEF OnlyInvoice, Types, Exists
<1>17. OnlyPaymentsOf(i)
  <2>1. ASSUME NEW p \in Payments
        PROVE  /\ pay'[p] # pay[p] => pay'[p].of = i /\ (Recorded(p) => pay[p].of = i)
               /\ Recorded(p) => pay'[p].status # None /\ pay'[p].amount = pay[p].amount
                                 /\ pay'[p].of = pay[p].of
               /\ ~ Recorded(p) => pay'[p].status = None
    <3>1. CASE p \in r.pays
      BY <1>1, <1>14, <3>1 DEF Recorded, Counted, None
    <3>2. CASE p \notin r.pays
      BY <1>14, <3>2 DEF Recorded
    <3> QED
      BY <3>1, <3>2
  <2>2. payno' \in [Payments -> Nat \X Nat]
    BY <1>2 DEF Types
  <2>3. \A p \in Payments : payno'[p] # NoNumber => pay'[p].status # None
    BY <1>2, <2>1 DEF RowRefs
  <2> QED
    BY <1>14, <2>1, <2>2, <2>3 DEF OnlyPaymentsOf
<1>18. /\ ~ Waits(q) /\ (Waits(req[h]) <=> r.by = "create") /\ req[h].inv = i
       /\ req[h].pc = "credit"
  BY <1>1, <1>8, <1>12, IdleShape DEF Waits, None, i
<1>19. Serves(i, req[h], q)
  BY <1>18 DEF Serves
<1>20. Numbers'
  BY <1>2, <1>8, <1>12, IdleShape, NumbersKept
<1>21. Balanced(inv'[i], flaws'[i])
  <2> SUFFICES ASSUME flaws'[i] \cap {"race", "forced"} = {}
               PROVE  /\ x.balance = x.total - x.paid
                      /\ x.status = "paid" /\ "grown" \notin flaws'[i] => x.balance <= 0
    BY <1>13 DEF Balanced
  <2>1. inv[i] = s /\ flaws[i] \cap {"race", "forced"} = {}
    BY <1>5, <1>11
  <2>2. /\ x.paid = s.paid + r.amount /\ x.balance = s.total - (s.paid + r.amount)
        /\ x.total = s.total /\ x.status = n.status /\ x.balance = n.balance
    BY <1>9, <1>10, <2>1
  <2>3. x.balance = x.total - x.paid
    BY <2>2
  <2>4. ASSUME x.status = "paid", "grown" \notin flaws'[i], ~ (x.balance <= 0) PROVE FALSE
    <3>1. s.status = "paid"
      BY <1>9, <2>2, <2>4
    <3>2. "grown" \notin flaws[i]
      BY <1>11, <2>4
    <3>3. inv[i].balance = inv[i].total - inv[i].paid /\ inv[i].balance <= 0
      BY <1>1, <2>1, <3>1, <3>2, LocalIs DEF Balanced, None
    <3>4. s.total \in Int /\ s.paid \in Int /\ s.total - s.paid <= 0
      BY <1>3, <2>1, <3>3
    <3> QED
      BY <1>3, <2>2, <2>4, <3>4
  <2> QED
    BY <2>3, <2>4
<1>22. Totalled(i, inv'[i], items'[i], req', flaws'[i])
  <2>1. Totalled(i, inv[i], items[i], req, flaws[i])
    BY <1>1, LocalIs
  <2> QED
    BY <1>1, <1>2, <1>10, <1>11, <1>12, <1>13, <2>1 DEF Totalled, Exists
<1>23. Activated(i, inv'[i], req', activated', flaws'[i])
  <2> SUFFICES ASSUME x.status = "paid", flaws'[i] \cap {"skipped", "forced", "crash"} = {}
               PROVE  \/ i \in activated
                      \/ \E g \in Requests : req'[g].pc = "activate" /\ req'[g].inv = i
    BY <1>2, <1>13 DEF Activated
  <2>1. CASE n.balance <= 0
    <3>1. act
      BY <1>6, <1>7, <1>11, <2>1
    <3> QED
      BY <1>8, <1>12, <3>1
  <2>2. CASE ~ (n.balance <= 0)
    <3>1. inv[i].status = "paid"
      BY <1>9, <1>10, <2>2
    <3>2. flaws[i] \cap {"skipped", "forced", "crash"} = {}
      BY <1>11
    <3>3. \/ i \in activated
          \/ \E g \in Requests : req[g].pc = "activate" /\ req[g].inv = i
      BY <1>1, <3>1, <3>2, LocalIs DEF Activated
    <3> QED
      BY <1>12, <1>18, <3>3
  <2> QED
    BY <2>1, <2>2
<1>24. Matches(i, inv', req', pay', flaws')
  <2> SUFFICES ASSUME flaws'[i] \cap {"race", "crash", "again", "restated"} = {}
               PROVE  x.paid + OpenSum(req', i) = PaidSum(pay', i)
    BY <1>13 DEF Matches
  <2>1. "race" \notin why /\ "again" \notin why
        /\ flaws[i] \cap {"race", "crash", "again", "restated"} = {}
    BY <1>11
  <2>2. inv[i].paid + OpenSum(req, i) = PaidSum(pay, i)
    BY <1>1, <2>1, MatchesIs DEF Matches, Exists
  <2>3. x.paid = inv[i].paid + r.amount
    BY <1>5, <1>9, <1>10, <2>1
  <2>4. OpenSum(req, i) \in Nat /\ OpenSum(req', i) \in Nat
    BY <1>2, <1>8, OpenNat, ReqStep DEF Types
  <2>5. CASE r.by = "create"
    <3>1. OpenSum(req, i) = OpenSum(req', i) + r.amount
      BY <1>12, <1>18, <2>5, OpenMore
    <3>2. r.pays = {}
      BY <1>1, <2>5
    <3>3. Settled(pay', i) = Settled(pay, i)
      BY <1>14, <3>2 DEF Settled
    <3>4. \A p \in Settled(pay, i) : pay'[p].amount = pay[p].amount
      BY <1>14, <3>2 DEF Settled
    <3>5. PaidSum(pay', i) = PaidSum(pay, i)
      BY <1>14, <3>3, <3>4, PaidSame
    <3> QED
      BY <1>3, <2>2, <2>3, <2>4, <3>1, <3>5
  <2>6. CASE r.by # "create"
    <3>1. OpenSum(req', i) = OpenSum(req, i)
      BY <1>12, <1>18, <2>6, OpenOther
    <3>2. \A p \in r.pays : pay[p].status \notin Counted
      BY <1>6, <2>1
    <3>3. Settled(pay, i) \cap r.pays = {}
      BY <3>2 DEF Settled
    <3>4. Settled(pay', i) = Settled(pay, i) \cup r.pays
      BY <1>1, <1>3, <1>14, <3>2 DEF Settled
    <3>5. \A p \in Settled(pay, i) : pay'[p].amount = pay[p].amount
      BY <1>14, <3>3 DEF Settled
    <3>6. PaidSum(pay', i) = PaidSum(pay, i) + AmountSum(pay', r.pays)
      BY <1>3, <1>14, <3>3, <3>4, <3>5, PaidMore
    <3>7. AmountSum(pay, r.pays) = AmountSum(pay', r.pays)
      <4>1. IsFiniteSet(r.pays)
        BY <1>3, LedgerAssumption, FS_Subset
      <4>2. \A p \in r.pays : pay[p].amount \in Nat /\ pay[p].amount = pay'[p].amount
        BY <1>3, <1>14, Shapes
      <4> QED
        BY <4>1, <4>2, AmountSumSame
    <3>8. PaidSum(pay', i) = PaidSum(pay, i) + r.amount
      BY <1>1, <2>6, <3>6, <3>7
    <3> QED
      BY <1>3, <2>2, <2>3, <2>4, <3>1, <3>8
  <2> QED
    BY <2>5, <2>6
<1> QED
  BY <1>1, <1>2, <1>8, <1>15, <1>16, <1>17, <1>19, <1>20, <1>21, <1>22, <1>23, <1>24, RowKeeps

\* The month changes and nothing else, or nothing at all.
LEMMA MonthKeeps ==
    ASSUME IInv, month' \in 1 .. MaxMonth, UNCHANGED <<rowVars, req, flaws>>
    PROVE  IInv'
<1> USE DEF IInv, rowVars
<1>1. Types'
  BY DEF Types
<1>2. RowRefs'
  BY DEF RowRefs, Exists, Recorded
<1>3. ReqRefs'
  BY DEF ReqRefs
<1>4. Numbers'
  BY DEF Numbers, NumbersGapless
<1>5. BalanceAddsUp' /\ TotalFollowsItems' /\ PaidIsActivated' /\ PaidMatchesPayments'
  <2>1. BalanceAddsUp'
    BY LocalIs
  <2>2. TotalFollowsItems'
    BY LocalIs
  <2>3. PaidIsActivated'
    BY LocalIs
  <2>4. PaidMatchesPayments'
    BY MatchesIs DEF Matches
  <2> QED
    BY <2>1, <2>2, <2>3, <2>4
<1> QED
  BY <1>1, <1>2, <1>3, <1>4, <1>5

-----------------------------------------------------------------------------
(***************************************************************************)
(* The theorems.                                                           *)
(***************************************************************************)

\* Every step keeps the invariant.
LEMMA NextKeeps == IInv /\ [Next]_vars => IInv'
<1> SUFFICES ASSUME IInv, [Next]_vars PROVE IInv'
  OBVIOUS
<1>1. ASSUME NEW h \in Requests, InvoiceOps(h)
      PROVE  IInv'
  BY <1>1, InvoiceCountKeeps, InvoiceInsertKeeps, AddItemKeeps, DeleteItemKeeps,
     StatusLoadKeeps,
     ItemKeeps, TotalsSumKeeps, TotalsLoadKeeps, TotalsKeeps, StatusKeeps DEF InvoiceOps
<1>2. ASSUME NEW h \in Requests, PaymentOps(h)
      PROVE  IInv'
  <2>0. {"checked", "completed"} \subseteq Counted
    BY DEF Counted
  <2>1. ASSUME NEW i \in Invoices, NEW ps \in SUBSET Payments, bulk_update_payment_status(h, ps, i)
        PROVE  IInv'
    BY <2>0, <2>1, SettleLoadKeeps DEF bulk_update_payment_status
  <2>2. ASSUME NEW p \in Payments, verify_payment(h, p) \/ process_payment(h, p)
        PROVE  IInv'
    <3>1. {p} \in SUBSET Payments
      OBVIOUS
    <3> QED
      BY <2>0, <2>2, <3>1, SettleLoadKeeps DEF verify_payment, process_payment
  <2> QED
    BY <1>2, <2>1, <2>2, PaymentCountKeeps, ManualKeeps, CreatePaymentKeeps, RestateKeeps,
       ApplyLoadKeeps, CreditKeeps, ActivateKeeps DEF PaymentOps
<1>3. ASSUME NextMonth PROVE IInv'
  <2>1. month' \in 1 .. MaxMonth
    BY <1>3, LedgerAssumption DEF NextMonth, IInv, Types
  <2> QED
    BY <1>3, <2>1, MonthKeeps DEF NextMonth
<1>4. ASSUME UNCHANGED vars PROVE IInv'
  BY <1>4, MonthKeeps DEF vars, IInv, Types
<1> QED
  BY <1>1, <1>2, <1>3, <1>4, CrashKeeps DEF Next

\* The invariant holds in every reachable state.
THEOREM LedgerInvariant == Spec => []IInv
  BY InitIInv, NextKeeps, PTL DEF Spec

\* The columns, the items and the number of an invoice agree, whatever operations
\* are under way at once: InvoiceInv of the run, for every set of invoices,
\* payments, prices, amounts and requests.
THEOREM InvoicesCorrect == Spec => []InvoiceInv
<1>1. IInv => InvoiceInv
  <2> SUFFICES ASSUME IInv PROVE LedgerTypeOK
    BY DEF IInv, InvoiceInv
  <2>1. \A i \in Invoices :
           /\ inv[i].status \in InvoiceStatus \cup {None}
           /\ {inv[i].total, inv[i].paid, inv[i].balance} \subseteq Int
           /\ Exists(i) <=> number[i] # NoNumber
           /\ items[i] \subseteq Prices /\ (items[i] # {} => Exists(i))
    BY Shapes DEF IInv, Types, RowRefs
  <2>2. \A p \in Payments :
           /\ pay[p].status \in PaymentStatus \cup {None}
           /\ payno[p] # NoNumber => Recorded(p)
           /\ Recorded(p) => pay[p].amount \in Amounts /\ Exists(pay[p].of)
    BY Shapes DEF IInv, RowRefs
  <2>3. \A h \in Requests : req[h].pc \notin {"idle", "invoice"} => Exists(req[h].inv)
    BY DEF IInv, ReqRefs, Carries, Exists
  <2> QED
    BY <2>1, <2>2, <2>3 DEF LedgerTypeOK, IInv, Types
<1> QED
  BY <1>1, LedgerInvariant, PTL

\* What an invoice says was paid is what its settled payments add up to, but for the
\* money under way and the histories that the property excuses.
THEOREM PaidIsWhatWasPaid == Spec => []PaidMatchesPayments
<1>1. IInv => PaidMatchesPayments
  BY DEF IInv
<1> QED
  BY <1>1, LedgerInvariant, PTL

\* A paid invoice has had its subscription activated, or an operation is about to.
THEOREM PaidAreActivated == Spec => []PaidIsActivated
<1>1. IInv => PaidIsActivated
  BY DEF IInv
<1> QED
  BY <1>1, LedgerInvariant, PTL

\* The invoice numbers and the payment numbers of a month have no gap and no repeat,
\* although numbers are drawn by counting and requests count at the same time.
THEOREM NumbersHaveNoGap == Spec => []NumbersGapless
<1>1. IInv => NumbersGapless
  BY DEF IInv, Numbers
<1> QED
  BY <1>1, LedgerInvariant, PTL
=============================================================================
