------------------------- MODULE CreateTransactionProofs -------------------------
(***************************************************************************)
(* Proofs about the create transaction, for any number of requests and     *)
(* connections and any decimals: first about decimals, by the least        *)
(* counterexample where one would use induction, then that the statements  *)
(* amount to the one step of PaymentCreation.                              *)
(***************************************************************************)
EXTENDS CreateTransaction, PaymentCreationProofs, FiniteSetTheorems, WellFoundedInduction

\* A set of natural numbers that has a member has a least one.
LEMMA LeastNat ==
  ASSUME NEW S \in SUBSET Nat, NEW x \in S
  PROVE  \E m \in S : \A n \in S : m <= n
<1>1. PICK m \in S : \A n \in S : ~ (<<n, m>> \in OpToRel(<, Nat))
  BY WFMin, NatLessThanWellFounded
<1>2. \A a, b \in Nat : a < b => <<a, b>> \in OpToRel(<, Nat)
  BY DEF OpToRel
<1>3. ASSUME NEW n \in S PROVE m <= n
  <2>1. ~ (n < m)
    BY <1>1, <1>2
  <2> QED BY <2>1
<1> QED BY <1>3

\* The powers of ten up to n, as tables.
PowersUpTo(n) == {g \in [0..n -> Nat] :
                    /\ g[0] = 1
                    /\ \A i \in 1..n : g[i] = 10 * g[i - 1]}

\* There is such a table for each n ...
LEMMA PowersExist == \A n \in Nat : \E g \in [0..n -> Nat] : g \in PowersUpTo(n)
<1> DEFINE Bad == {n \in Nat : ~ \E g \in [0..n -> Nat] : g \in PowersUpTo(n)}
<1> SUFFICES ASSUME NEW x \in Bad PROVE FALSE
  OBVIOUS
<1>1. PICK m \in Bad : \A n \in Bad : m <= n
  BY LeastNat
<1>2. CASE m = 0
  <2>1. [i \in 0..0 |-> 1] \in PowersUpTo(0)
    BY DEF PowersUpTo
  <2> QED BY <2>1, <1>2 DEF PowersUpTo
<1>3. CASE m # 0
  <2>1. m - 1 \in Nat /\ m - 1 \notin Bad
    <3>1. m \in Nat
      OBVIOUS
    <3> HIDE DEF Bad
    <3> QED BY <1>1, <1>3, <3>1
  <2>2. PICK g \in [0..m-1 -> Nat] : g \in PowersUpTo(m - 1)
    BY <2>1
  <2> DEFINE h == [i \in 0..m |-> IF i = 0 THEN 1 ELSE 10 * g[i - 1]]
  <2>3. h \in [0..m -> Nat] /\ h[0] = 1
    BY <2>1
  <2>4. ASSUME NEW i \in 1..m PROVE h[i] = 10 * h[i - 1]
    <3>1. h[i] = 10 * g[i - 1]
      BY <2>1
    <3>2. h[i - 1] = g[i - 1]
      BY <2>1, <2>2 DEF PowersUpTo
    <3> QED BY <3>1, <3>2
  <2>5. h \in PowersUpTo(m)
    BY <2>3, <2>4 DEF PowersUpTo
  <2> QED BY <2>3, <2>5, <1>1
<1> QED BY <1>2, <1>3

\* ... two of them agree as far as both go ...
LEMMA PowersAgree ==
  ASSUME NEW m \in Nat, NEW n \in Nat, NEW g \in PowersUpTo(m), NEW h \in PowersUpTo(n),
         NEW i \in 0..m, i <= n
  PROVE  g[i] = h[i]
<1> DEFINE Bad == {j \in Nat : j <= m /\ j <= n /\ g[j] # h[j]}
<1> SUFFICES ASSUME NEW x \in Bad PROVE FALSE
  OBVIOUS
<1>1. PICK b \in Bad : \A j \in Bad : b <= j
  BY LeastNat
<1>2. b # 0
  BY <1>1 DEF PowersUpTo
<1>3. b - 1 \in Nat /\ b - 1 \notin Bad
  BY <1>1, <1>2
<1>4. b \in 1..m /\ b \in 1..n /\ g[b - 1] = h[b - 1]
  BY <1>1, <1>2, <1>3
<1> QED BY <1>1, <1>4 DEF PowersUpTo

\* ... so that the recursive definition defines a function.
LEMMA PowerOfTenIsDefined ==
  PowerOfTen = [n \in Nat |-> IF n = 0 THEN 1 ELSE 10 * PowerOfTen[n - 1]]
<1> DEFINE T(n) == CHOOSE g \in [0..n -> Nat] : g \in PowersUpTo(n)
           F == [n \in Nat |-> T(n)[n]]
<1>1. \A n \in Nat : T(n) \in PowersUpTo(n)
  BY PowersExist
<1>2. ASSUME NEW n \in Nat PROVE F[n] = IF n = 0 THEN 1 ELSE 10 * F[n - 1]
  <2>1. CASE n = 0
    BY <1>1, <2>1 DEF PowersUpTo
  <2>2. CASE n # 0
    <3>1. n - 1 \in Nat /\ n - 1 \in 0..n /\ n \in 1..n
      BY <2>2
    <3>2. T(n)[n] = 10 * T(n)[n - 1]
      BY <1>1, <3>1 DEF PowersUpTo
    <3>3. T(n)[n - 1] = T(n - 1)[n - 1]
      <4> HIDE DEF T
      <4> QED BY <1>1, <3>1, PowersAgree
    <3> QED BY <3>1, <3>2, <3>3, <2>2
  <2> QED BY <2>1, <2>2
<1>3. F = [n \in Nat |-> IF n = 0 THEN 1 ELSE 10 * F[n - 1]]
  <2> HIDE DEF T
  <2>1. F = [n \in Nat |-> F[n]]
    OBVIOUS
  <2> HIDE DEF F
  <2> QED BY <1>2, <2>1
<1> HIDE DEF F
<1> QED BY <1>3 DEF PowerOfTen

\* Its values, and the law of exponents.
LEMMA PowerOfTenSteps ==
  /\ PowerOfTen[0] = 1
  /\ \A n \in Nat : PowerOfTen[n + 1] = 10 * PowerOfTen[n]
<1> DEFINE P == PowerOfTen
<1>1. P = [n \in Nat |-> IF n = 0 THEN 1 ELSE 10 * P[n - 1]]
  BY PowerOfTenIsDefined
<1> HIDE DEF P
<1>2. P[0] = 1 /\ \A n \in Nat : P[n + 1] = 10 * P[n]
  BY <1>1
<1> QED BY <1>2 DEF P

\* A power of ten is a positive number.
LEMMA PowerOfTenType == \A n \in Nat : PowerOfTen[n] \in Nat /\ PowerOfTen[n] > 0
<1> DEFINE Bad == {n \in Nat : ~ (PowerOfTen[n] \in Nat /\ PowerOfTen[n] > 0)}
<1> SUFFICES ASSUME NEW x \in Bad PROVE FALSE
  OBVIOUS
<1>1. PICK m \in Bad : \A n \in Bad : m <= n
  BY LeastNat
<1>2. m \in Nat /\ m # 0
  BY PowerOfTenSteps
<1>3. m - 1 \in Nat /\ m - 1 \notin Bad
  <2> HIDE DEF Bad
  <2> QED BY <1>1, <1>2
<1>4. PowerOfTen[m - 1] \in Nat /\ PowerOfTen[m - 1] > 0
  BY <1>3
<1>5. PowerOfTen[m] = 10 * PowerOfTen[m - 1]
  BY <1>2, <1>3, PowerOfTenSteps
<1> QED BY <1>4, <1>5

\* The law of exponents.
LEMMA PowerOfTenSum ==
  ASSUME NEW m \in Nat
  PROVE  \A n \in Nat : PowerOfTen[m + n] = PowerOfTen[m] * PowerOfTen[n]
<1> DEFINE Bad == {n \in Nat : PowerOfTen[m + n] # PowerOfTen[m] * PowerOfTen[n]}
<1> SUFFICES ASSUME NEW x \in Bad PROVE FALSE
  OBVIOUS
<1>1. PICK b \in Bad : \A n \in Bad : b <= n
  BY LeastNat
<1>2. b \in Nat /\ b # 0
  <2>1. PowerOfTen[m + 0] = PowerOfTen[m] * PowerOfTen[0]
    BY PowerOfTenSteps, PowerOfTenType
  <2> QED BY <2>1
<1>3. b - 1 \in Nat /\ b - 1 \notin Bad
  <2> HIDE DEF Bad
  <2> QED BY <1>1, <1>2
<1>4. PowerOfTen[m + (b - 1)] = PowerOfTen[m] * PowerOfTen[b - 1]
  BY <1>3
<1>5. /\ PowerOfTen[b] = 10 * PowerOfTen[b - 1]
      /\ PowerOfTen[m + b] = 10 * PowerOfTen[m + (b - 1)]
  <2>1. b = (b - 1) + 1 /\ m + b = (m + (b - 1)) + 1 /\ m + (b - 1) \in Nat
    BY <1>2, <1>3
  <2> QED BY <1>3, <2>1, PowerOfTenSteps
<1>6. \A x1, y1 \in Nat : 10 * (x1 * y1) = x1 * (10 * y1)
  OBVIOUS
<1>7. PowerOfTen[m + b] = PowerOfTen[m] * PowerOfTen[b]
  BY <1>3, <1>4, <1>5, <1>6, PowerOfTenType
<1> QED BY <1>7

\* What divides is what there is a quotient for.
LEMMA ExactQuotient ==
  ASSUME NEW x \in Nat, NEW d \in Nat, d > 0, NEW q \in Nat, x = d * q
  PROVE  x % d = 0 /\ x \div d = q
<1> DEFINE p == x \div d
           r == x % d
<1>1. p \in Nat /\ r \in Nat /\ r < d /\ x = d * p + r
  OBVIOUS
<1> HIDE DEF p, r
<1>2. CASE q = p
  BY <1>1, <1>2 DEF p, r
<1>3. CASE q >= p + 1
  <2>1. PICK k \in Nat : q = p + 1 + k
    <3>1. q - p - 1 \in Nat /\ q = p + 1 + (q - p - 1)
      BY <1>1, <1>3
    <3> QED BY <3>1
  <2>2. d * q = d * p + d + d * k /\ d * k \in Nat /\ d * p \in Nat
    BY <2>1, <1>1
  <2> QED BY <1>1, <2>2
<1>4. CASE p >= q + 1
  <2>1. PICK k \in Nat : p = q + 1 + k
    <3>1. p - q - 1 \in Nat /\ p = q + 1 + (p - q - 1)
      BY <1>1, <1>4
    <3> QED BY <3>1
  <2>2. d * p = d * q + d + d * k /\ d * k \in Nat /\ d * q \in Nat
    BY <2>1, <1>1
  <2> QED BY <1>1, <2>2
<1> QED BY <1>1, <1>2, <1>3, <1>4

\* Scaling dividend and divisor changes neither divisibility nor quotient.
LEMMA ScaledQuotient ==
  ASSUME NEW x \in Nat, NEW d \in Nat, d > 0, NEW c \in Nat, c > 0
  PROVE  /\ (x * c) % (d * c) = 0 <=> x % d = 0
         /\ x % d = 0 => (x * c) \div (d * c) = x \div d
<1>0. x * c \in Nat /\ d * c \in Nat /\ d * c > 0
  OBVIOUS
<1>1. ASSUME x % d = 0
      PROVE  (x * c) % (d * c) = 0 /\ (x * c) \div (d * c) = x \div d
  <2>1. x \div d \in Nat /\ x = d * (x \div d)
    BY <1>1
  <2>2. x * c = (d * c) * (x \div d)
    BY <2>1
  <2> QED BY <1>0, <2>1, <2>2, ExactQuotient
<1>2. ASSUME (x * c) % (d * c) = 0
      PROVE  x % d = 0
  <2> DEFINE q == (x * c) \div (d * c)
  <2>1. q \in Nat /\ x * c = (d * c) * q
    BY <1>0, <1>2
  <2> HIDE DEF q
  <2>2. x = d * q
    BY <2>1
  <2> QED BY <2>1, <2>2, ExactQuotient
<1> QED BY <1>1, <1>2

-----------------------------------------------------------------------------
\* a without its last a.scale - s digits, which are zeros.
CutsTo(a, s) == s \in 0..a.scale /\ a.mantissa % PowerOfTen[a.scale - s] = 0

\* normalize cuts all the zeros it can.
LEMMA NormalizeCuts ==
  ASSUME NEW a \in Decimal, a.mantissa \in Nat
  PROVE  \E s \in 0..a.scale :
            /\ CutsTo(a, s)
            /\ \A u \in 0..a.scale : CutsTo(a, u) => s <= u
            /\ Normalize(a) = [mantissa |-> a.mantissa \div PowerOfTen[a.scale - s], scale |-> s]
<1> DEFINE shorter == {s \in 0..a.scale : a.mantissa % PowerOfTen[a.scale - s] = 0}
           t == CHOOSE t \in shorter : \A u \in shorter : t <= u
<1>1. a.scale \in Nat
  BY DEF Decimal
<1>2. a.scale \in shorter
  <2>1. a.scale - a.scale = 0 /\ a.mantissa % 1 = 0
    BY <1>1
  <2> QED BY <1>1, <2>1, PowerOfTenSteps
<1>3. \E s \in shorter : \A u \in shorter : s <= u
  <2>1. shorter \in SUBSET Nat
    BY <1>1
  <2> HIDE DEF shorter
  <2> QED BY <1>2, <2>1, LeastNat
<1>4. t \in shorter /\ \A u \in shorter : t <= u
  <2> HIDE DEF shorter
  <2> QED BY <1>3
<1>5. Normalize(a) = [mantissa |-> a.mantissa \div PowerOfTen[a.scale - t], scale |-> t]
  BY DEF Normalize
<1> HIDE DEF t
<1> QED BY <1>4, <1>5 DEF CutsTo

\* So zeros at its end make no difference to it.
LEMMA NormalizeScaled ==
  ASSUME NEW a \in Decimal, a.mantissa \in Nat, NEW k \in Nat
  PROVE  Normalize([mantissa |-> a.mantissa * PowerOfTen[k], scale |-> a.scale + k])
           = Normalize(a)
<1> DEFINE b == [mantissa |-> a.mantissa * PowerOfTen[k], scale |-> a.scale + k]
<1>1. /\ a.scale \in Nat /\ PowerOfTen[k] \in Nat /\ PowerOfTen[k] > 0
      /\ b \in Decimal /\ b.mantissa \in Nat
      /\ b.mantissa = a.mantissa * PowerOfTen[k] /\ b.scale = a.scale + k
  BY PowerOfTenType DEF Decimal
<1>2. PICK s \in 0..a.scale :
        /\ CutsTo(a, s)
        /\ \A u \in 0..a.scale : CutsTo(a, u) => s <= u
        /\ Normalize(a) = [mantissa |-> a.mantissa \div PowerOfTen[a.scale - s], scale |-> s]
  BY NormalizeCuts
<1>3. PICK t \in 0..b.scale :
        /\ CutsTo(b, t)
        /\ \A u \in 0..b.scale : CutsTo(b, u) => t <= u
        /\ Normalize(b) = [mantissa |-> b.mantissa \div PowerOfTen[b.scale - t], scale |-> t]
  <2> HIDE DEF b
  <2> QED BY <1>1, NormalizeCuts
<1> HIDE DEF b
<1>4. ASSUME NEW u \in 0..a.scale
      PROVE  /\ CutsTo(b, u) <=> CutsTo(a, u)
             /\ CutsTo(a, u) => b.mantissa \div PowerOfTen[b.scale - u]
                                  = a.mantissa \div PowerOfTen[a.scale - u]
  <2>1. a.scale - u \in Nat /\ b.scale - u = (a.scale - u) + k /\ u \in 0..b.scale
    BY <1>1
  <2>2. PowerOfTen[b.scale - u] = PowerOfTen[a.scale - u] * PowerOfTen[k]
    BY <2>1, PowerOfTenSum
  <2>3. PowerOfTen[a.scale - u] \in Nat /\ PowerOfTen[a.scale - u] > 0
    BY <2>1, PowerOfTenType
  <2> DEFINE d == PowerOfTen[a.scale - u]
             c == PowerOfTen[k]
             x == a.mantissa
  <2>4. x \in Nat /\ d \in Nat /\ d > 0 /\ c \in Nat /\ c > 0
    BY <1>1, <2>3
  <2>5. b.mantissa = x * c /\ PowerOfTen[b.scale - u] = d * c
    BY <1>1, <2>2
  <2> HIDE DEF x, d, c
  <2>6. /\ (x * c) % (d * c) = 0 <=> x % d = 0
        /\ x % d = 0 => (x * c) \div (d * c) = x \div d
    BY <2>4, ScaledQuotient
  <2>7. CutsTo(b, u) <=> (x * c) % (d * c) = 0
    BY <2>1, <2>5 DEF CutsTo
  <2>8. CutsTo(a, u) <=> x % d = 0
    BY DEF CutsTo, x, d
  <2> QED BY <2>5, <2>6, <2>7, <2>8 DEF x, d
<1>5. s = t
  <2>1. s \in 0..b.scale /\ CutsTo(b, s)
    BY <1>1, <1>2, <1>4
  <2>2. t <= s
    BY <1>3, <2>1
  <2>3. t \in 0..a.scale
    BY <1>1, <2>2
  <2>4. s <= t
    BY <1>2, <1>3, <1>4, <2>3
  <2> QED BY <1>1, <2>2, <2>3, <2>4
<1>6. Normalize(b) = Normalize(a)
  BY <1>2, <1>3, <1>4, <1>5
<1> QED BY <1>6 DEF b

\* What normalize leaves is the value it was given, however many digits that
\* is paid with.
LEMMA NormalizeKeepsValue ==
  ASSUME NEW a \in Decimal, a.mantissa \in Nat, NEW k \in Nat
  PROVE  SameAmount(Normalize(a), [mantissa |-> a.mantissa * PowerOfTen[k], scale |-> a.scale + k])
<1>1. PICK s \in 0..a.scale :
        /\ CutsTo(a, s)
        /\ Normalize(a) = [mantissa |-> a.mantissa \div PowerOfTen[a.scale - s], scale |-> s]
  BY NormalizeCuts
<1> DEFINE cut == PowerOfTen[a.scale - s]
           q == a.mantissa \div cut
<1>2. /\ a.scale \in Nat /\ s \in Nat /\ a.scale - s \in Nat
      /\ a.scale + k = (s + (a.scale - s)) + k
  BY DEF Decimal
<1>3. /\ cut \in Nat /\ cut > 0 /\ PowerOfTen[s] \in Nat /\ PowerOfTen[k] \in Nat
  BY <1>2, PowerOfTenType
<1>4. PowerOfTen[a.scale + k] = (PowerOfTen[s] * cut) * PowerOfTen[k]
  <2>1. PowerOfTen[s + (a.scale - s)] = PowerOfTen[s] * cut
    BY <1>2, PowerOfTenSum
  <2>2. s + (a.scale - s) \in Nat
    BY <1>2
  <2>3. PowerOfTen[(s + (a.scale - s)) + k] = PowerOfTen[s + (a.scale - s)] * PowerOfTen[k]
    BY <2>2, PowerOfTenSum
  <2> QED BY <1>2, <2>1, <2>3
<1>5. Normalize(a).mantissa = q /\ Normalize(a).scale = s /\ a.mantissa % cut = 0
  BY <1>1 DEF CutsTo
<1> HIDE DEF cut
<1>6. q \in Nat /\ a.mantissa = cut * q
  BY <1>3, <1>5
<1> HIDE DEF q
<1>7. q * ((PowerOfTen[s] * cut) * PowerOfTen[k]) = ((cut * q) * PowerOfTen[k]) * PowerOfTen[s]
  BY <1>3, <1>6
<1> QED BY <1>4, <1>5, <1>6, <1>7 DEF SameAmount

\* The column holds what validate_amount let through to the last digit, if it
\* has at least as many fractional digits as that accepts.
LEMMA ColumnIsExact ==
  ASSUME NEW a \in Decimal, Validate(a), MaxScale <= NumericScale
  PROVE  \E k \in Nat :
            /\ k = NumericScale - a.scale
            /\ ToNumeric(a) = [mantissa |-> a.mantissa * PowerOfTen[k], scale |-> a.scale + k]
<1>1. a.scale \in Nat /\ a.scale <= MaxScale /\ MaxScale \in Nat /\ NumericScale \in Nat
  BY AmountsAssumption DEF Validate, Decimal
<1>2. a.scale <= NumericScale /\ NumericScale - a.scale \in Nat
      /\ a.scale + (NumericScale - a.scale) = NumericScale
  BY <1>1
<1> QED BY <1>2 DEF ToNumeric

\* So the row made of a body says what the body said.
LEMMA RowAmountIsTheBodys ==
  ASSUME NEW a \in Decimal, Validate(a), MaxScale <= NumericScale
  PROVE  Normalize(ToNumeric(a)) = Normalize(a)
<1>1. a.mantissa \in Nat
  BY DEF Validate, Decimal
<1> QED BY <1>1, ColumnIsExact, NormalizeScaled

-----------------------------------------------------------------------------
\* A transaction that has made an INSERT holds its value: nothing committed has
\* it, and no other open transaction.
LocksHeld ==
  \A r \in Requests :
    /\ tx[r] \in {"row", "keyed"} =>
         /\ ~ ReferenceTaken(Reference(r))
         /\ \A q \in Requests \ {r} : ~ HoldsReference(q, Reference(r))
    /\ tx[r] = "keyed" =>
         /\ call[r].key # None
         /\ ~ KeyTaken(call[r].key)
         /\ \A q \in Requests \ {r} : ~ HoldsKey(q, call[r].key)

\* Bodies at work have passed validate_amount, and a row says what its body said.
AmountsKept ==
  \A r \in Requests :
     call[r] \in Call =>
       /\ Validate(Amount(r))
       /\ call[r].id \in Stored => payments[call[r].id].amount = Normalize(Amount(r))

TxInv ==
  /\ TableInv
  /\ OwnRows
  /\ TxTypeOK
  /\ IsFiniteSet(Open)
  /\ LocksHeld
  /\ AmountsKept

\* The row of a commit is a row, with the amount of the body.
LEMMA InsertedRowIs ==
  ASSUME TxInv, MaxScale <= NumericScale, NEW r \in Requests, call[r] \in Call
  PROVE  /\ InsertedRow(r) \in Payment
         /\ InsertedRow(r) = NewPayment(call[r].id, Normal(call[r].draft), 0)
         /\ InsertedRow(r).id = call[r].id
         /\ InsertedRow(r).reference = Reference(r)
         /\ InsertedRow(r).amount = Normalize(Amount(r))
<1> DEFINE d == call[r].draft
<1>1. /\ d \in Draft /\ call[r].id \in PaymentIds
      /\ Amount(r) = d.amount /\ Reference(r) = d.reference
  BY CreationAssumption DEF Call, Amount, Reference
<1>2. d.amount \in Decimal /\ Validate(d.amount) /\ Normalize(d.amount) \in Amounts
  BY <1>1, TransactionAssumption DEF Draft, TxInv, AmountsKept
<1>3. Normalize(ToNumeric(d.amount)) = Normalize(d.amount)
  BY <1>2, RowAmountIsTheBodys
<1> DEFINE row == [id |-> call[r].id, reference |-> d.reference, amount |-> Normalize(d.amount),
                   memo |-> d.memo, status |-> "pending", stellar_tx_hash |-> None,
                   created_at |-> 0]
<1>4. InsertedRow(r) = row
  BY <1>3 DEF InsertedRow, NewPayment
<1>5. NewPayment(call[r].id, Normal(d), 0) = row
  BY <1>1 DEF NewPayment, Normal, Draft
<1>6. row \in Payment
  BY <1>1, <1>2 DEF Payment, Draft, PaymentStatuses
<1> QED BY <1>1, <1>4, <1>5, <1>6

\* What the commit does, in the words of PaymentCreationProofs.
LEMMA CommitCommits ==
  ASSUME TxInv, MaxScale <= NumericScale, NEW r \in Requests, Commit(r)
  PROVE  /\ Commits(r)
         /\ call[r] \in Call
         /\ call[r].id \notin Stored
         /\ ~ CreateConflicts(call[r].draft, call[r].key)
<1>1. call[r] \in Call
  BY DEF TxInv, TableInv, CallsKnown, Commit
<1>2. call[r].id \notin Stored
  BY <1>1 DEF TxInv, OwnRows, Commit
<1>3. tx[r] \in {"row", "keyed"} /\ (call[r].key # None => tx[r] = "keyed")
  BY DEF Commit
<1>4. ~ CreateConflicts(call[r].draft, call[r].key)
  BY <1>3 DEF TxInv, LocksHeld, CreateConflicts, KeyTaken, Reference
<1>5. \E row \in Payment :
         /\ row.id = call[r].id /\ row.reference = call[r].draft.reference
         /\ payments' = [payments EXCEPT ![call[r].id] = row]
  BY <1>1, InsertedRowIs DEF Commit, Reference
<1> QED BY <1>1, <1>2, <1>4, <1>5 DEF Commit, Commits

\* A statement other than the commit leaves the tables alone, and every step
\* is one the proofs about PaymentCreation cover.
LEMMA TxStepIsLoose ==
  ASSUME TxInv, MaxScale <= NumericScale, [TxNext]_txVars
  PROVE  [LooseNext]_vars
<1>1. CASE UNCHANGED txVars
  BY <1>1 DEF txVars
<1>2. ASSUME NEW r \in Requests, TxSubmit(r) \/ TxReject(r)
      PROVE  LooseNext
  BY <1>2 DEF TxSubmit, TxReject, LooseNext
<1>3. ASSUME NEW r \in Requests, TxLookup(r)
      PROVE  LooseNext
  BY <1>3 DEF TxLookup, LooseNext
<1>4. ASSUME NEW r \in Requests, Begin(r) \/ InsertPayment(r) \/ InsertKey(r)
      PROVE  UNCHANGED vars
  BY <1>4 DEF Begin, InsertPayment, InsertKey, Advanced
<1>5. ASSUME NEW r \in Requests, Commit(r)
      PROVE  LooseNext
  BY <1>5, CommitCommits DEF LooseNext
<1>6. ASSUME NEW r \in Requests, Refused(r)
      PROVE  InsertRefused(r)
  BY <1>6 DEF Refused, InsertRefused, CreateConflicts, Reference
<1>7. ASSUME NEW r \in Requests, Overflows(r)
      PROVE  DatabaseFails(r)
  BY <1>7 DEF Overflows, DatabaseFails
<1>8. ASSUME NEW r \in Requests, TxFails(r) \/ TxCrash(r)
      PROVE  LooseNext
  BY <1>8 DEF TxFails, TxCrash, LooseNext
<1>9. ASSUME NEW r \in Requests, Refused(r) \/ Overflows(r)
      PROVE  LooseNext
  BY <1>6, <1>7, <1>9 DEF LooseNext
<1> QED BY <1>1, <1>2, <1>3, <1>4, <1>5, <1>8, <1>9 DEF TxNext, TxAdvance

\* The steps by what they do to the transactions.
QuietStep ==
  /\ UNCHANGED tableVars
  /\ \A q \in Requests : \/ tx'[q] = "none"
                         \/ tx'[q] = tx[q] /\ call'[q] = call[q] /\ pc'[q] = pc[q]

Statement(r) == Begin(r) \/ InsertPayment(r) \/ InsertKey(r)

\* A step is quiet, a statement, or a commit.
LEMMA TxSteps ==
  ASSUME TxInv, [TxNext]_txVars
  PROVE  /\ tx' \in [Requests -> {"none", "begun", "row", "keyed"}]
         /\ QuietStep \/ \E r \in Requests : Statement(r) \/ Commit(r)
<1>0. /\ tx \in [Requests -> {"none", "begun", "row", "keyed"}]
      /\ pc \in [Requests -> {"idle", "lookup", "insert", "done"}]
      /\ call \in [Requests -> Call \union {NoCall}]
      /\ \A q \in Requests : tx[q] # "none" => pc[q] = "insert"
  BY DEF TxInv, TxTypeOK, CreationTypeOK, Open
<1>1. CASE UNCHANGED txVars
  BY <1>0, <1>1 DEF txVars, vars, tableVars, requestVars, QuietStep
<1>2. ASSUME NEW r \in Requests, TxSubmit(r) \/ TxReject(r) \/ TxLookup(r)
      PROVE  tx' = tx /\ QuietStep
  <2>1. /\ pc[r] \in {"idle", "lookup"} /\ tx' = tx
        /\ UNCHANGED tableVars
        /\ \A q \in Requests \ {r} : call'[q] = call[q] /\ pc'[q] = pc[q]
    BY <1>0, <1>2 DEF TxSubmit, TxReject, TxLookup, Submit, Reject, Replay, KeyUnknown, Respond
  <2>2. tx[r] = "none"
    BY <1>0, <2>1
  <2> QED BY <2>1, <2>2 DEF QuietStep
<1>3. ASSUME NEW r \in Requests, Rollback(r), UNCHANGED <<tableVars, call>>,
             \A q \in Requests \ {r} : pc'[q] = pc[q]
      PROVE  tx' \in [Requests -> {"none", "begun", "row", "keyed"}] /\ QuietStep
  BY <1>0, <1>3 DEF Rollback, QuietStep
<1>4. ASSUME NEW r \in Requests, Refused(r) \/ Overflows(r) \/ TxFails(r) \/ TxCrash(r)
      PROVE  tx' \in [Requests -> {"none", "begun", "row", "keyed"}] /\ QuietStep
  <2>1. /\ Rollback(r) /\ UNCHANGED <<tableVars, call>>
        /\ \A q \in Requests \ {r} : pc'[q] = pc[q]
    BY <1>0, <1>4 DEF Refused, Overflows, TxFails, TxCrash, DatabaseFails, Crash, Respond
  <2> QED BY <1>3, <2>1
<1>5. ASSUME NEW r \in Requests, Statement(r) \/ Commit(r)
      PROVE  tx' \in [Requests -> {"none", "begun", "row", "keyed"}]
  BY <1>0, <1>5 DEF Statement, Begin, InsertPayment, InsertKey, Advanced, Commit
<1> QED BY <1>0, <1>1, <1>2, <1>4, <1>5 DEF TxNext, TxAdvance, Statement

\* No more transactions are open than there are connections.
LEMMA NextOpen ==
  ASSUME TxInv, [TxNext]_txVars
  PROVE  /\ IsFiniteSet(Open) /\ IsFiniteSet(Open)'
         /\ \A r \in Open' : pc'[r] = "insert"
         /\ (Cardinality(Open) <= MaxConnections)'
<1>0. /\ tx \in [Requests -> {"none", "begun", "row", "keyed"}]
      /\ IsFiniteSet(Open) /\ Cardinality(Open) <= MaxConnections
      /\ Cardinality(Open) \in Nat /\ MaxConnections \in Nat
      /\ \A q \in Requests : tx[q] # "none" => pc[q] = "insert"
  BY FS_CardinalityType, TransactionAssumption DEF TxInv, TxTypeOK, Open
<1>1. ASSUME Open' \subseteq Open
      PROVE  IsFiniteSet(Open') /\ Cardinality(Open') <= MaxConnections
  <2>1. IsFiniteSet(Open') /\ Cardinality(Open') <= Cardinality(Open)
    BY <1>0, <1>1, FS_Subset
  <2>2. Cardinality(Open') \in Nat
    BY <2>1, FS_CardinalityType
  <2> QED BY <1>0, <2>1, <2>2
<1>2. CASE QuietStep
  <2>1. Open' \subseteq Open /\ \A r \in Open' : pc'[r] = "insert"
    BY <1>0, <1>2 DEF QuietStep, Open
  <2> QED BY <1>0, <1>1, <2>1
<1>3. ASSUME NEW r \in Requests, Begin(r)
      PROVE  /\ IsFiniteSet(Open') /\ Cardinality(Open') <= MaxConnections
             /\ \A q \in Open' : pc'[q] = "insert"
  <2>1. /\ Cardinality(Open) < MaxConnections /\ pc[r] = "insert" /\ tx[r] = "none"
        /\ tx' = [tx EXCEPT ![r] = "begun"] /\ pc' = pc
    BY <1>3 DEF Begin, ConnectionFree, Advanced, vars, requestVars
  <2>2. Open' = Open \union {r} /\ r \notin Open
    BY <1>0, <2>1 DEF Open
  <2>3. IsFiniteSet(Open') /\ Cardinality(Open') = Cardinality(Open) + 1
    BY <1>0, <2>2, FS_AddElement
  <2>4. \A q \in Open' : pc'[q] = "insert"
    BY <1>0, <2>1, <2>2 DEF Open
  <2> QED BY <1>0, <2>1, <2>3, <2>4
<1>4. ASSUME NEW r \in Requests, InsertPayment(r) \/ InsertKey(r)
      PROVE  Open' = Open /\ pc' = pc
  BY <1>0, <1>4 DEF InsertPayment, InsertKey, Advanced, Open, vars, requestVars
<1>5. ASSUME NEW r \in Requests, Commit(r)
      PROVE  Open' \subseteq Open /\ \A q \in Open' : pc'[q] = "insert"
  <2>1. /\ tx' = [tx EXCEPT ![r] = "none"]
        /\ pc' = [pc EXCEPT ![r] = "done"]
    BY <1>5 DEF Commit, Respond
  <2>2. pc \in [Requests -> {"idle", "lookup", "insert", "done"}]
    BY DEF TxInv, TxTypeOK, CreationTypeOK
  <2> QED BY <1>0, <2>1, <2>2 DEF Open
<1>6. ASSUME NEW r \in Requests, Statement(r) \/ Commit(r)
      PROVE  /\ IsFiniteSet(Open') /\ Cardinality(Open') <= MaxConnections
             /\ \A q \in Open' : pc'[q] = "insert"
  <2>1. CASE Begin(r)
    BY <1>3, <2>1
  <2>2. CASE InsertPayment(r) \/ InsertKey(r)
    BY <1>0, <1>1, <1>4, <2>2 DEF Open
  <2>3. CASE Commit(r)
    BY <1>1, <1>5, <2>3
  <2> QED BY <1>6, <2>1, <2>2, <2>3 DEF Statement
<1> QED BY <1>0, <1>2, <1>6, TxSteps

\* What r's transaction must hold, by how far it is.
Holds(r) ==
  /\ tx[r] \in {"row", "keyed"} =>
       /\ ~ ReferenceTaken(Reference(r))
       /\ \A q \in Requests \ {r} : ~ HoldsReference(q, Reference(r))
  /\ tx[r] = "keyed" =>
       /\ call[r].key # None
       /\ ~ KeyTaken(call[r].key)
       /\ \A q \in Requests \ {r} : ~ HoldsKey(q, call[r].key)

\* An INSERT waits for those that hold its value, and a commit takes only the
\* values its own transaction held.
LEMMA NextLocks ==
  ASSUME TxInv, MaxScale <= NumericScale, [TxNext]_txVars
  PROVE  LocksHeld'
<1>0. /\ tx \in [Requests -> {"none", "begun", "row", "keyed"}]
      /\ call \in [Requests -> Call \union {NoCall}]
      /\ idempotency_keys \in [Keys -> PaymentIds \union {None}]
      /\ \A q \in Requests : Holds(q)
      /\ \A q \in Requests : tx[q] # "none" => call[q] \in Call
  BY DEF TxInv, TxTypeOK, CreationTypeOK, RepositoryTypeOK, LocksHeld, Holds, Open,
         TableInv, CallsKnown
<1>1. SUFFICES \A q \in Requests : Holds(q)'
  BY DEF LocksHeld, Holds
<1>2. CASE QuietStep
  <2>1. ASSUME NEW q \in Requests PROVE Holds(q)'
    <3>1. /\ \A key : KeyTaken(key)' <=> KeyTaken(key)
          /\ \A reference : ReferenceTaken(reference)' <=> ReferenceTaken(reference)
      BY <1>2 DEF QuietStep, tableVars, KeyTaken, ReferenceTaken, Stored
    <3>2. ASSUME tx'[q] # "none" PROVE Holds(q)'
      <4>1. tx'[q] = tx[q] /\ call'[q] = call[q]
        BY <1>2, <3>2 DEF QuietStep
      <4>2. \A o \in Requests \ {q} :
              /\ HoldsReference(o, Reference(q))' => HoldsReference(o, Reference(q))
              /\ HoldsKey(o, call[q].key)' => HoldsKey(o, call[q].key)
        BY <1>2, <4>1 DEF QuietStep, HoldsReference, HoldsKey, Reference
      <4> QED BY <1>0, <3>1, <4>1, <4>2 DEF Holds, Reference
    <3> QED BY <3>2 DEF Holds
  <2> QED BY <2>1
<1>3. ASSUME NEW r \in Requests, Statement(r)
      PROVE  \A q \in Requests : Holds(q)'
  <2>1. UNCHANGED vars /\ \A q \in Requests \ {r} : tx'[q] = tx[q]
    BY <1>0, <1>3 DEF Statement, Begin, InsertPayment, InsertKey, Advanced
  <2>2. UNCHANGED <<payments, idempotency_keys, call>>
    BY <2>1 DEF vars, tableVars, requestVars
  <2>3. CASE Begin(r)
    <3>1. tx'[r] = "begun"
      BY <1>0, <2>3 DEF Begin, Advanced
    <3> QED BY <1>0, <2>1, <2>2, <3>1
            DEF Holds, HoldsReference, HoldsKey, Reference, KeyTaken, ReferenceTaken, Stored
  <2>4. CASE InsertPayment(r)
    <3>1. /\ tx'[r] = "row"
          /\ ~ ReferenceTaken(Reference(r))
          /\ \A q \in Requests \ {r} : ~ HoldsReference(q, Reference(r))
      BY <1>0, <2>4 DEF InsertPayment, Advanced
    <3> QED BY <1>0, <2>1, <2>2, <3>1
            DEF Holds, HoldsReference, HoldsKey, Reference, KeyTaken, ReferenceTaken, Stored
  <2>5. CASE InsertKey(r)
    <3>1. /\ tx[r] = "row" /\ tx'[r] = "keyed" /\ call[r].key # None
          /\ ~ KeyTaken(call[r].key)
          /\ \A q \in Requests \ {r} : ~ HoldsKey(q, call[r].key)
      BY <1>0, <2>5 DEF InsertKey, Advanced
    <3> QED BY <1>0, <2>1, <2>2, <3>1
            DEF Holds, HoldsReference, HoldsKey, Reference, KeyTaken, ReferenceTaken, Stored
  <2> QED BY <1>3, <2>3, <2>4, <2>5 DEF Statement
<1>4. ASSUME NEW r \in Requests, Commit(r)
      PROVE  \A q \in Requests : Holds(q)'
  <2>1. PICK row \in Payment :
          /\ call[r] \in Call /\ call[r].id \in PaymentIds
          /\ row.reference = Reference(r)
          /\ payments' = [payments EXCEPT ![call[r].id] = row]
          /\ Stored' = Stored \union {call[r].id}
    BY <1>4, CommitCommits, CommitEffect DEF TxInv, Reference
  <2>2. /\ tx[r] \in {"row", "keyed"} /\ tx' = [tx EXCEPT ![r] = "none"] /\ call' = call
        /\ idempotency_keys' = IF call[r].key = None THEN idempotency_keys
                               ELSE [idempotency_keys EXCEPT ![call[r].key] = call[r].id]
        /\ call[r].key # None => tx[r] = "keyed" /\ call[r].key \in Keys
    BY <1>0, <1>4 DEF Commit, Respond, Call
  <2>3. payments \in [PaymentIds -> Payment \union {NoPayment}]
    BY DEF TxInv, TxTypeOK, CreationTypeOK, RepositoryTypeOK
  <2>4. \A reference : ReferenceTaken(reference)' => ReferenceTaken(reference) \/ reference = Reference(r)
    BY <2>1, <2>3 DEF ReferenceTaken, Stored
  <2>5. \A key \in Keys : KeyTaken(key)' => KeyTaken(key) \/ (key = call[r].key /\ tx[r] = "keyed")
    BY <1>0, <2>2 DEF KeyTaken
  <2>6. ASSUME NEW q \in Requests PROVE Holds(q)'
    <3>1. CASE q = r
      BY <1>0, <2>2, <3>1 DEF Holds
    <3>2. CASE q # r
      <4>1. tx'[q] = tx[q] /\ call'[q] = call[q] /\ Reference(q)' = Reference(q)
        BY <1>0, <2>2, <3>2 DEF Reference
      <4>2. tx[q] = "keyed" => call[q].key \in Keys
        BY <1>0 DEF Call, Holds
      <4>3. \A o \in Requests \ {q} :
              /\ HoldsReference(o, Reference(q))' => HoldsReference(o, Reference(q))
              /\ HoldsKey(o, call[q].key)' => HoldsKey(o, call[q].key)
        BY <1>0, <2>2, <4>1 DEF HoldsReference, HoldsKey, Reference
      <4>4. HoldsReference(r, Reference(r)) /\ (tx[r] = "keyed" => HoldsKey(r, call[r].key))
        BY <2>2 DEF HoldsReference, HoldsKey, Reference
      <4>5. tx[q] \in {"row", "keyed"} =>
              ~ ReferenceTaken(Reference(q)) /\ Reference(q) # Reference(r)
        BY <1>0, <3>2, <4>4 DEF Holds
      <4>6. tx[q] = "keyed" =>
              ~ KeyTaken(call[q].key) /\ (tx[r] = "keyed" => call[q].key # call[r].key)
        BY <1>0, <3>2, <4>4 DEF Holds
      <4>7. tx[q] \in {"row", "keyed"} => ~ ReferenceTaken(Reference(q))'
        BY <2>4, <4>1, <4>5
      <4>8. tx[q] = "keyed" => ~ KeyTaken(call[q].key)'
        BY <2>5, <4>1, <4>2, <4>6
      <4> QED BY <1>0, <4>1, <4>3, <4>7, <4>8 DEF Holds
    <3> QED BY <3>1, <3>2
  <2> QED BY <2>6
<1> QED BY <1>2, <1>3, <1>4, TxSteps

\* Bodies come validated, and a row is written once, from its body.
LEMMA NextAmounts ==
  ASSUME TxInv, MaxScale <= NumericScale, [TxNext]_txVars
  PROVE  AmountsKept'
<1> DEFINE Kept(q) == call[q] \in Call =>
                        /\ Validate(Amount(q))
                        /\ call[q].id \in Stored =>
                             payments[call[q].id].amount = Normalize(Amount(q))
<1>0. /\ call \in [Requests -> Call \union {NoCall}]
      /\ payments \in [PaymentIds -> Payment \union {NoPayment}]
      /\ \A q \in Requests : Kept(q)
      /\ \A q, r \in Requests :
            call[q] \in Call /\ call[r] \in Call /\ call[q].id = call[r].id => q = r
  BY DEF TxInv, TxTypeOK, CreationTypeOK, RepositoryTypeOK, AmountsKept, OwnRows
<1>1. SUFFICES ASSUME NEW q \in Requests PROVE Kept(q)'
  BY DEF AmountsKept
<1>2. ASSUME call'[q] = call[q], UNCHANGED payments
      PROVE  Kept(q)'
  BY <1>0, <1>2 DEF Amount, Stored
<1>3. ASSUME NEW r \in Requests, TxSubmit(r)
      PROVE  Kept(q)'
  <2>1. PICK draft \in Drafts, key \in Keys \union {None}, id \in PaymentIds :
          /\ \A o \in Requests : call[o].id # id
          /\ call' = [call EXCEPT ![r] = [draft |-> draft, key |-> key, id |-> id]]
    BY <1>3, Zenon DEF TxSubmit, Submit
  <2>2. UNCHANGED payments /\ Validate(call'[r].draft.amount)
    BY <1>3 DEF TxSubmit, Submit, tableVars
  <2>3. CASE q = r
    <3>1. id \notin Stored
      BY <2>1 DEF TxInv, OwnRows
    <3>2. call'[q].id = id /\ Stored' = Stored
      BY <1>0, <2>1, <2>2, <2>3 DEF Stored
    <3> QED BY <2>2, <2>3, <3>1, <3>2 DEF Amount
  <2>4. CASE q # r
    BY <1>0, <1>2, <2>1, <2>2, <2>4
  <2> QED BY <2>3, <2>4
<1>4. ASSUME NEW r \in Requests, Commit(r)
      PROVE  Kept(q)'
  <2>1. /\ call[r] \in Call /\ call[r].id \notin Stored
        /\ InsertedRow(r).amount = Normalize(Amount(r))
        /\ call[r].id \in PaymentIds
    BY <1>4, CommitCommits, InsertedRowIs DEF Call
  <2>2. call' = call /\ payments' = [payments EXCEPT ![call[r].id] = InsertedRow(r)]
    BY <1>4 DEF Commit, Respond
  <2>3. CASE q = r
    BY <1>0, <2>1, <2>2, <2>3 DEF Amount
  <2>4. CASE q # r
    <3>1. call[q] \in Call => call[q].id # call[r].id /\ call[q].id \in PaymentIds
      BY <1>0, <2>1, <2>4 DEF Call
    <3>2. call[q] \in Call => payments'[call[q].id] = payments[call[q].id]
      BY <1>0, <2>2, <3>1
    <3> QED BY <1>0, <2>2, <3>1, <3>2 DEF Amount, Stored
  <2> QED BY <2>3, <2>4
<1>5. CASE UNCHANGED txVars
  BY <1>2, <1>5 DEF txVars, vars, tableVars, requestVars
<1>6. ASSUME NEW r \in Requests, TxReject(r) \/ TxLookup(r) \/ TxFails(r) \/ TxCrash(r)
      PROVE  Kept(q)'
  BY <1>2, <1>6 DEF TxReject, TxLookup, TxFails, TxCrash, Reject, Replay, KeyUnknown,
       DatabaseFails, Crash, Respond, tableVars
<1>7. ASSUME NEW r \in Requests, Begin(r) \/ InsertPayment(r) \/ InsertKey(r)
      PROVE  Kept(q)'
  BY <1>2, <1>7 DEF Begin, InsertPayment, InsertKey, Advanced, vars, tableVars, requestVars
<1>8. ASSUME NEW r \in Requests, Refused(r) \/ Overflows(r)
      PROVE  Kept(q)'
  BY <1>2, <1>8 DEF Refused, Overflows, Respond, tableVars
<1> QED BY <1>3, <1>4, <1>5, <1>6, <1>7, <1>8 DEF TxNext, TxAdvance

\* At first there is nothing.
LEMMA InitTx == TxInit => TxInv
<1> SUFFICES ASSUME TxInit PROVE TxInv
  OBVIOUS
<1>1. TableInv
  BY InitTable DEF TxInit
<1>2. OwnRows /\ AmountsKept
  <2>1. Stored = {} /\ \A r \in Requests : call[r] \notin Call /\ answer[r].code = "none"
    BY RepositoryAssumption DEF TxInit, Init, RepositoryInit, Stored, NoCall, NoAnswer, Call
  <2> QED BY <2>1 DEF OwnRows, AmountsKept
<1>3. Open = {} /\ tx \in [Requests -> {"none", "begun", "row", "keyed"}]
  BY DEF TxInit, Open
<1>4. IsFiniteSet(Open) /\ Cardinality(Open) <= MaxConnections
  BY <1>3, FS_EmptySet, TransactionAssumption
<1>5. TxTypeOK
  BY <1>1, <1>3, <1>4 DEF TxTypeOK, TableInv
<1>6. LocksHeld
  BY DEF TxInit, LocksHeld
<1> QED BY <1>1, <1>2, <1>4, <1>5, <1>6 DEF TxInv

\* Every step keeps the invariant.
LEMMA NextTx ==
  ASSUME TxInv, MaxScale <= NumericScale, [TxNext]_txVars
  PROVE  TxInv'
<1>1. [LooseNext]_vars
  BY TxStepIsLoose
<1>2. TableInv' /\ CreationTypeOK'
  BY <1>1, NextTables, NextCalls DEF TxInv, TableInv
<1>3. OwnRows'
  BY <1>1, NextOwnRows DEF TxInv
<1>4. TxTypeOK' /\ IsFiniteSet(Open)'
  BY <1>2, NextOpen, TxSteps DEF TxTypeOK
<1> QED BY <1>2, <1>3, <1>4, NextLocks, NextAmounts DEF TxInv

\* What an open transaction holds, and what a row says, in every behaviour of
\* the statements.
THEOREM TransactionInvariant ==
  ASSUME MaxScale <= NumericScale
  PROVE  TxSpec => []TxInv
<1>1. TxInv /\ [TxNext]_txVars => TxInv'
  BY NextTx
<1> QED BY InitTx, <1>1, PTL DEF TxSpec

\* A transaction is open only while its request is at the insert, and no more
\* are open than there are connections, whatever was refused, failed or crashed.
THEOREM TransactionTypeCorrect ==
  ASSUME MaxScale <= NumericScale
  PROVE  TxSpec => []TxTypeOK
<1>1. TxInv => TxTypeOK
  BY DEF TxInv
<1> QED BY TransactionInvariant, <1>1, PTL

\* The behaviours of the statements are among those PaymentCreationProofs is
\* about.
LEMMA TxSpecIsLoose ==
  ASSUME MaxScale <= NumericScale
  PROVE  TxSpec => LooseSpec
<1>1. TxInv /\ [TxNext]_txVars => [LooseNext]_vars
  BY TxStepIsLoose
<1>2. TxInit => Init
  BY DEF TxInit
<1> QED BY TransactionInvariant, <1>1, <1>2, PTL DEF TxSpec, LooseSpec

\* With the statements interleaved, over Postgres, tables stay consistent, one
\* key means one payment, retries replay, and answers match the tables.
THEOREM StatementsKeepPromises ==
  ASSUME MaxScale <= NumericScale, Backend = "postgres"
  PROVE  TxSpec => [](TablesConsistent /\ SameKeySamePayment /\ RetryReplays /\ AnswerIsTheTables)
<1>1. TableInv => TablesConsistent
  BY DEF TableInv
<1> QED BY TxSpecIsLoose, LooseTables, LooseKeys, LooseOwnRows, <1>1, PTL

\* A transaction that pays what was asked for, to the ledger's last digit,
\* matches the body and the row made of it, whatever their trailing zeros.
THEOREM AmountsRoundTrip ==
  ASSUME MaxScale <= NumericScale
  PROVE  TxSpec => []AmountRoundTrips
<1>1. ASSUME TxInv
      PROVE  AmountRoundTrips
  <2> DEFINE paid(a) == [mantissa |-> (a.mantissa * PowerOfTen[NumericScale])
                                        \div PowerOfTen[a.scale],
                         scale |-> NumericScale]
  <2>1. SUFFICES ASSUME NEW r \in Requests, answer[r].code = "created"
                 PROVE  /\ SameAmount(Amount(r), paid(Amount(r)))
                        /\ answer[r].payment = call[r].id =>
                             SameAmount(payments[call[r].id].amount, paid(Amount(r)))
    BY DEF AmountRoundTrips
  <2> DEFINE a == Amount(r)
  <2>2. call[r] \in Call /\ a \in Decimal /\ Validate(a)
    <3>1. call[r] \in Call
      BY <1>1, <2>1 DEF TxInv, TableInv, CallsKnown
    <3>2. a \in Amounts
      BY <3>1, CreationAssumption DEF Call, Draft, Amount
    <3> QED BY <1>1, <3>1, <3>2, TransactionAssumption DEF TxInv, AmountsKept
  <2>3. answer[r].payment = call[r].id => payments[call[r].id].amount = Normalize(a)
    BY <1>1, <2>1, <2>2 DEF TxInv, OwnRows, AmountsKept
  <2> HIDE DEF a
  <2>4. PICK k \in Nat : k = NumericScale - a.scale
    BY <2>2, ColumnIsExact
  <2>5. /\ a.mantissa \in Nat /\ a.scale \in Nat
        /\ NumericScale = a.scale + k
    BY <2>2, <2>4, AmountsAssumption DEF Decimal, Validate
  <2> DEFINE m == a.mantissa
             p == PowerOfTen[a.scale]
             c == PowerOfTen[k]
  <2>6. PowerOfTen[NumericScale] = p * c
    BY <2>5, PowerOfTenSum
  <2>7. m \in Nat /\ p \in Nat /\ p > 0 /\ c \in Nat
    BY <2>5, PowerOfTenType
  <2>8. (m * (p * c)) \div p = m * c
    <3> HIDE DEF m, p, c
    <3>1. m * (p * c) \in Nat /\ m * c \in Nat /\ m * (p * c) = p * (m * c)
      BY <2>7
    <3> QED BY <2>7, <3>1, ExactQuotient
  <2>9. paid(a) = [mantissa |-> m * c, scale |-> a.scale + k]
    BY <2>5, <2>6, <2>8
  <2>10. SameAmount(a, paid(a))
    <3>1. m * (p * c) = (m * c) * p
      <4> HIDE DEF m, p, c
      <4> QED BY <2>7
    <3>2. paid(a).mantissa = m * c /\ paid(a).scale = NumericScale
      BY <2>5, <2>9
    <3> QED BY <2>6, <3>1, <3>2 DEF SameAmount
  <2>11. SameAmount(Normalize(a), paid(a))
    BY <2>2, <2>5, <2>9, NormalizeKeepsValue
  <2> QED BY <2>3, <2>10, <2>11 DEF a
<1> QED BY TransactionInvariant, <1>1, PTL

-----------------------------------------------------------------------------
\* The refinement: what PaymentCreation sees of the requests.
CallOf == [r \in Requests |-> IF call[r] = NoCall THEN NoCall
                              ELSE [call[r] EXCEPT !.draft = Normal(@)]]

\* A body at work keeps its key and its id, no body stays no body ...
LEMMA CallOfIs ==
  ASSUME TxInv, NEW r \in Requests
  PROVE  /\ CallOf[r].id = call[r].id /\ CallOf[r].key = call[r].key
         /\ call[r] \in Call =>
              CallOf[r].draft = Normal(call[r].draft)
<1>1. call[r] \in Call \union {NoCall}
  BY DEF TxInv, TxTypeOK, CreationTypeOK
<1>2. NoCall \notin Call
  BY RepositoryAssumption DEF NoCall, Call
<1> QED BY <1>1, <1>2 DEF CallOf, Call

\* ... and its reference stays too.
LEMMA CallOfBody ==
  ASSUME TxInv, NEW r \in Requests, call[r] \in Call
  PROVE  CallOf[r].draft.reference = Reference(r)
<1>1. call[r].draft \in Draft
  BY CreationAssumption DEF Call
<1>2. Normal(call[r].draft).reference = Reference(r)
  BY <1>1 DEF Normal, Draft, Reference
<1>3. CallOf[r].draft = Normal(call[r].draft)
  BY CallOfIs
<1> QED BY <1>2, <1>3

\* The instance has its own copies of the operators on the tables.
LEMMA SameTables ==
  /\ Atomically!Stored = Stored
  /\ Atomically!tableVars = tableVars
  /\ \A reference : Atomically!ReferenceTaken(reference) <=> ReferenceTaken(reference)
  /\ \A key : Atomically!KeyTaken(key) <=> KeyTaken(key)
  /\ \A key : Atomically!FindByIdempotencyKey(key) = FindByIdempotencyKey(key)
BY DEF Atomically!Stored, Stored, Atomically!ReferenceTaken, ReferenceTaken, Atomically!tableVars,
       tableVars, Atomically!KeyTaken, KeyTaken, Atomically!FindByIdempotencyKey, FindByIdempotencyKey

\* A step that leaves the requests' bodies alone is answered alike.
LEMMA SameAnswer ==
  ASSUME NEW r \in Requests, NEW code \in Codes, NEW id \in PaymentIds \union {None},
         Respond(r, code, id)
  PROVE  Atomically!Respond(r, code, id)
BY DEF Respond, Atomically!Respond

\* The empty tables are PaymentCreation's initial state.
LEMMA InitRefines == TxInit => Atomically!Init
BY DEF TxInit, Init, RepositoryInit, Atomically!Init, Atomically!RepositoryInit, NoCall,
       Atomically!NoCall, NoAnswer, Atomically!NoAnswer

\* A body that comes in comes in normalised.
LEMMA SubmitRefines ==
  ASSUME TxInv, NEW r \in Requests, TxSubmit(r)
  PROVE  Atomically!Submit(r)
<1>1. PICK draft \in Drafts, key \in Keys \union {None}, id \in PaymentIds :
        /\ \A q \in Requests : call[q].id # id
        /\ call' = [call EXCEPT ![r] = [draft |-> draft, key |-> key, id |-> id]]
        /\ bound' = [bound EXCEPT ![r] = IF key = None THEN None ELSE idempotency_keys[key]]
        /\ pc' = [pc EXCEPT ![r] = IF key = None THEN "insert" ELSE "lookup"]
  BY Zenon DEF TxSubmit, Submit
<1>2. pc[r] = "idle" /\ UNCHANGED <<tableVars, answer>>
  BY DEF TxSubmit, Submit
<1> DEFINE body == [draft |-> Normal(draft), key |-> key, id |-> id]
<1>3. Normal(draft) \in {Normal(d) : d \in Drafts}
  OBVIOUS
<1>4. \A q \in Requests : CallOf[q].id # id
  BY <1>1, CallOfIs
<1>5. CallOf' = [CallOf EXCEPT ![r] = body]
  <2>1. call \in [Requests -> Call \union {NoCall}] /\ NoCall \notin Call
    BY RepositoryAssumption DEF TxInv, TxTypeOK, CreationTypeOK, NoCall, Call
  <2>2. call'[r] = [draft |-> draft, key |-> key, id |-> id] /\ call'[r] \in Call
    BY <1>1, <2>1 DEF Call
  <2>3. call'[r] # NoCall /\ [call'[r] EXCEPT !.draft = Normal(@)] = body
    BY <2>1, <2>2
  <2>4. \A q \in Requests \ {r} : call'[q] = call[q]
    BY <1>1, <2>1
  <2> QED BY <2>3, <2>4 DEF CallOf
<1> HIDE DEF body
<1>6. /\ \A q \in Requests : CallOf[q].id # id
      /\ CallOf' = [CallOf EXCEPT ![r] = [draft |-> Normal(draft), key |-> key, id |-> id]]
  BY <1>4, <1>5 DEF body
<1> QED BY <1>1, <1>2, <1>3, <1>6, SameTables DEF Atomically!Submit, CallOf, tableVars, Atomically!tableVars

\* A lookup asks for the same key.
LEMMA LookupRefines ==
  ASSUME TxInv, NEW r \in Requests, TxLookup(r)
  PROVE  Atomically!Replay(r) \/ Atomically!KeyUnknown(r)
<1>1. Atomically!Existing(r) = Existing(r)
  BY CallOfIs, SameTables DEF Atomically!Existing, Existing, CallOf
<1>2. CASE Replay(r)
  <2>1. Existing(r).id \in PaymentIds
    BY <1>2, ExistingIsStored DEF Replay, TxInv
  <2> QED BY <1>1, <1>2, <2>1, SameAnswer, SameTables DEF Replay, Atomically!Replay, Codes, tableVars, Atomically!tableVars
<1>3. CASE KeyUnknown(r)
  BY <1>1, <1>3, SameTables DEF KeyUnknown, Atomically!KeyUnknown, tableVars, Atomically!tableVars
<1> QED BY <1>2, <1>3 DEF TxLookup

\* The commit is the one step of the insert.
LEMMA CommitRefines ==
  ASSUME TxInv, MaxScale <= NumericScale, NEW r \in Requests, Commit(r)
  PROVE  Atomically!Insert(r)
<1>1. /\ call[r] \in Call /\ call[r].id \notin Stored
      /\ ~ CreateConflicts(call[r].draft, call[r].key)
  BY CommitCommits
<1>2. /\ CallOf[r].id = call[r].id /\ CallOf[r].key = call[r].key
      /\ CallOf[r].draft = Normal(call[r].draft)
      /\ CallOf[r].draft.reference = call[r].draft.reference
      /\ call[r].id \in PaymentIds
  BY <1>1, CallOfIs, CallOfBody DEF Call, Reference
<1>3. InsertedRow(r) = Atomically!NewPayment(CallOf[r].id, CallOf[r].draft, 0)
  BY <1>1, <1>2, InsertedRowIs DEF NewPayment, Atomically!NewPayment
<1>4. ~ Atomically!CreateConflicts(CallOf[r].draft, CallOf[r].key)
  BY <1>1, <1>2, SameTables DEF CreateConflicts, Atomically!CreateConflicts
<1>5. Atomically!CreateWithIdempotencyKey(CallOf[r].id, CallOf[r].draft, CallOf[r].key, 0)
  BY <1>1, <1>2, <1>3, <1>4, SameTables DEF Commit, Atomically!CreateWithIdempotencyKey
<1>6. \/ Atomically!Respond(r, "created", CallOf[r].id)
      \/ Atomically!Respond(r, "error", None)
  BY <1>2, SameAnswer DEF Commit, Codes
<1> QED BY <1>5, <1>6 DEF Commit, Atomically!Insert, CallOf

\* The other ends of a request.
LEMMA EndRefines ==
  ASSUME TxInv, NEW r \in Requests,
         TxReject(r) \/ Refused(r) \/ Overflows(r) \/ TxFails(r) \/ TxCrash(r)
  PROVE  \/ Atomically!Reject(r) \/ Atomically!InsertRefused(r)
         \/ Atomically!DatabaseFails(r) \/ Atomically!Crash(r)
<1>1. CASE TxReject(r)
  BY <1>1, SameAnswer, SameTables DEF TxReject, Reject, Atomically!Reject, Codes, tableVars, Atomically!tableVars
<1>2. CASE Refused(r)
  <2>1. call[r] \in Call
    BY <1>2 DEF TxInv, TableInv, CallsKnown, Refused
  <2>2. /\ CallOf[r].key = call[r].key
        /\ CallOf[r].draft.reference = Reference(r)
    BY <2>1, CallOfIs, CallOfBody
  <2>3. Atomically!CreateConflicts(CallOf[r].draft, CallOf[r].key)
    BY <1>2, <2>2, SameTables DEF Refused, Atomically!CreateConflicts
  <2> QED BY <1>2, <2>3, SameAnswer, SameTables
          DEF Refused, Atomically!InsertRefused, Codes, tableVars, Atomically!tableVars, CallOf
<1>3. CASE Overflows(r) \/ TxFails(r)
  BY <1>3, SameAnswer, SameTables
     DEF Overflows, TxFails, DatabaseFails, Atomically!DatabaseFails, Codes, tableVars, Atomically!tableVars
<1>4. CASE TxCrash(r)
  BY <1>4, SameTables DEF TxCrash, Crash, Atomically!Crash, tableVars, Atomically!tableVars
<1> QED BY <1>1, <1>2, <1>3, <1>4

\* Every statement is a step of PaymentCreation, or none.
LEMMA StepRefines ==
  ASSUME TxInv, MaxScale <= NumericScale, [TxNext]_txVars
  PROVE  [Atomically!Next]_(Atomically!vars)
<1>1. ASSUME UNCHANGED vars
      PROVE  UNCHANGED Atomically!vars
  BY <1>1 DEF vars, tableVars, requestVars, Atomically!vars, Atomically!tableVars,
              Atomically!requestVars
<1>2. CASE UNCHANGED txVars
  BY <1>1, <1>2 DEF txVars
<1>3. ASSUME NEW r \in Requests, Begin(r) \/ InsertPayment(r) \/ InsertKey(r)
      PROVE  UNCHANGED Atomically!vars
  BY <1>1, <1>3 DEF Begin, InsertPayment, InsertKey, Advanced
<1>4. ASSUME NEW r \in Requests, TxSubmit(r)
      PROVE  Atomically!Next
  BY <1>4, SubmitRefines DEF Atomically!Next
<1>5. ASSUME NEW r \in Requests, TxLookup(r)
      PROVE  Atomically!Next
  BY <1>5, LookupRefines DEF Atomically!Next
<1>6. ASSUME NEW r \in Requests, Commit(r)
      PROVE  Atomically!Next
  BY <1>6, CommitRefines DEF Atomically!Next
<1>7. ASSUME NEW r \in Requests,
             TxReject(r) \/ Refused(r) \/ Overflows(r) \/ TxFails(r) \/ TxCrash(r)
      PROVE  Atomically!Next
  BY <1>7, EndRefines DEF Atomically!Next
<1> QED BY <1>2, <1>3, <1>4, <1>5, <1>6, <1>7 DEF TxNext, TxAdvance

\* The statements, locks and rollbacks of the transaction do what one step of
\* PaymentCreation does, for any number of requests and connections.
THEOREM StatementsImplementCreation ==
  ASSUME MaxScale <= NumericScale
  PROVE  TxSpec => ImplementsCreation
<1>1. TxInv /\ [TxNext]_txVars => [Atomically!Next]_(Atomically!vars)
  BY StepRefines
<1> QED BY TransactionInvariant, InitRefines, <1>1, PTL DEF TxSpec, ImplementsCreation, Atomically!Spec
=============================================================================
