-------------------------- MODULE PaymentListingProofs --------------------------
(***************************************************************************)
(* Proofs about the listing and a client that walks it, for any number of  *)
(* payments, any page size and any query, while payments are created and   *)
(* move.                                                                   *)
(*                                                                         *)
(* The argument of the walk: a payment that a page does not show yet has,  *)
(* before and after the page's query, at least as many newer payments as   *)
(* the pages so far could hold; newer payments only become more.           *)
(***************************************************************************)
EXTENDS PaymentListing, FiniteSetTheorems, TLAPS

\* What can be said of the rows that a payment is listed behind.
Newer(ids, id) == {other \in ids : payments[other].created_at > payments[id].created_at}

\* Nothing else was created at the same time.
Alone(ids, id) ==
  \A other \in ids \ {id} : payments[other].created_at # payments[id].created_at

\* Finitely many payments, and a request of the handler's once there is one.
Requested ==
  /\ IsFiniteSet(Stored)
  /\ pc # "idle" => query \in Clamped

\* What TotalCoversPage says, before the count as well.
PageCounted ==
  (pc \in {"second", "reply"} /\ data # {} /\ Stays(query.status) /\ ~ Overflows(query)) =>
    Offset(query) + Cardinality(data)
      <= IF pc = "second" THEN Cardinality(Matching(query.status)) ELSE total

ListingInv ==
  /\ ListingTypeOK
  /\ Requested
  /\ PageCounted

\* Where the page ends.
PageEnd(q) == q.page * q.per_page

\* A walk from the first page through a listing that payments stay in.
Walking == pc \in {"first", "second", "reply", "done"} /\ first = 1 /\ Stays(query.status)

\* What the walk has not shown of what was there is behind the pages read so
\* far, and then the last total says that there is more.
Behind(id) ==
  LET ahead == Cardinality(Newer(Matching(query.status), id))
  IN
  /\ pc = "first"  => id \in got \/ ahead >= Offset(query)
  /\ pc = "second" => id \in got \union data \/ ahead >= PageEnd(query)
  /\ pc = "reply"  => id \in got \union data
                      \/ (ahead >= PageEnd(query) /\ total > PageEnd(query))
  /\ pc = "done"   => id \in got

WalkInv ==
  /\ ListingInv
  /\ Walking =>
       /\ pc # "done" => Offset(query) < U32
       /\ original \subseteq Matching(query.status)
       /\ \A id \in original : Alone(Stored, id) => Behind(id)

-----------------------------------------------------------------------------
\* The sizes of finite sets are natural numbers.
LEMMA SizeIsNat ==
  ASSUME NEW ids, IsFiniteSet(ids)
  PROVE  \A some \in SUBSET ids :
            /\ IsFiniteSet(some) /\ Cardinality(some) \in Nat
            /\ Cardinality(some) <= Cardinality(ids)
BY FS_Subset, FS_CardinalityType

\* The sizes of two sets with nothing in common add up.
LEMMA DisjointUnion ==
  ASSUME NEW some, IsFiniteSet(some), NEW others, IsFiniteSet(others),
         some \cap others = {}
  PROVE  Cardinality(some \union others) = Cardinality(some) + Cardinality(others)
<1>1. Cardinality(some \union others)
        = Cardinality(some) + Cardinality(others) - Cardinality(some \cap others)
  BY FS_Union
<1>2. Cardinality(some \cap others) = 0
  BY FS_EmptySet
<1>3. Cardinality(some) \in Nat /\ Cardinality(others) \in Nat
  BY FS_CardinalityType
<1> QED BY <1>1, <1>2, <1>3

\* What LIMIT keeps, it keeps from the front, and all it may.
LEMMA NewestKeepsFront ==
  ASSUME NEW ids \in SUBSET PaymentIds, IsFiniteSet(ids), NEW n \in Nat,
         NEW kept \in Newest(ids, n),
         \A id \in ids : payments[id].created_at \in Nat
  PROVE  /\ kept \subseteq ids /\ IsFiniteSet(kept) /\ Cardinality(kept) <= n
         /\ ids \ kept # {} => Cardinality(kept) = n
         /\ \A id \in ids \ kept :
              Alone(ids, id) => kept \subseteq Newer(ids, id)
         /\ \A id \in kept :
              Alone(ids, id) => Newer(ids, id) \subseteq kept \ {id}
<1>1. /\ kept \subseteq ids
      /\ Cardinality(kept) = IF n < Cardinality(ids) THEN n ELSE Cardinality(ids)
      /\ \A id \in kept, other \in ids \ kept :
           payments[id].created_at >= payments[other].created_at
  BY DEF Newest
<1>2. IsFiniteSet(kept) /\ Cardinality(kept) \in Nat /\ Cardinality(ids) \in Nat
  BY <1>1, SizeIsNat
<1>3. Cardinality(kept) <= n
  BY <1>1, <1>2
<1>4. ASSUME ids \ kept # {} PROVE Cardinality(kept) = n
  <2>1. Cardinality(kept) # Cardinality(ids)
    BY <1>1, <1>4, FS_Subset
  <2> QED BY <1>1, <2>1
<1>5. ASSUME NEW id \in ids \ kept, Alone(ids, id), NEW other \in kept
      PROVE  other \in Newer(ids, id)
  <2>1. other \in ids /\ other # id
    BY <1>1, <1>5
  <2>2. payments[other].created_at >= payments[id].created_at
    BY <1>1, <1>5
  <2>3. payments[other].created_at # payments[id].created_at
    BY <1>5, <2>1 DEF Alone
  <2> QED BY <2>1, <2>2, <2>3 DEF Newer
<1>6. ASSUME NEW id \in kept, NEW other \in Newer(ids, id)
      PROVE  other \in kept \ {id}
  BY <1>1, <1>6 DEF Newer
<1> QED BY <1>1, <1>2, <1>3, <1>4, <1>5, <1>6

\* A page shows a payment that has no more than the page's end newer ones, if
\* it has as many as its beginning.
LEMMA PageShows ==
  ASSUME NEW ids \in SUBSET PaymentIds, IsFiniteSet(ids),
         \A id \in ids : payments[id].created_at \in Nat,
         NEW offset \in Nat, NEW n \in Nat,
         NEW skipped \in Newest(ids, offset), NEW page \in Newest(ids \ skipped, n),
         NEW id \in ids, Alone(ids, id), Cardinality(Newer(ids, id)) >= offset
  PROVE  id \in page \/ Cardinality(Newer(ids, id)) >= offset + n
<1>0. Newer(ids, id) \subseteq ids /\ IsFiniteSet(Newer(ids, id))
      /\ Cardinality(Newer(ids, id)) \in Nat
  BY SizeIsNat DEF Newer
<1>1. /\ skipped \subseteq ids /\ IsFiniteSet(skipped) /\ Cardinality(skipped) <= offset
      /\ ids \ skipped # {} => Cardinality(skipped) = offset
      /\ id \notin skipped => skipped \subseteq Newer(ids, id)
      /\ id \in skipped => Newer(ids, id) \subseteq skipped \ {id}
  BY NewestKeepsFront
<1>2. id \notin skipped
  <2> SUFFICES ASSUME id \in skipped PROVE FALSE
    OBVIOUS
  <2>1. IsFiniteSet(skipped \ {id}) /\ Cardinality(skipped \ {id}) = Cardinality(skipped) - 1
    BY <1>1, FS_RemoveElement
  <2>2. Cardinality(Newer(ids, id)) <= Cardinality(skipped \ {id})
    BY <1>1, <2>1, FS_Subset
  <2>3. Cardinality(skipped) \in Nat
    BY <1>1, FS_CardinalityType
  <2> QED BY <1>0, <1>1, <2>1, <2>2, <2>3
<1>3. ASSUME id \notin page
      PROVE  Cardinality(Newer(ids, id)) >= offset + n
  <2> DEFINE rest == ids \ skipped
  <2>1. rest \in SUBSET PaymentIds /\ IsFiniteSet(rest) /\ id \in rest /\ Alone(rest, id)
    BY <1>2, FS_Difference DEF Alone
  <2>2. \A other \in rest : payments[other].created_at \in Nat
    OBVIOUS
  <2>3. page \in Newest(rest, n)
    OBVIOUS
  <2> HIDE DEF rest
  <2>4. /\ page \subseteq rest /\ IsFiniteSet(page) /\ Cardinality(page) = n
        /\ page \subseteq Newer(rest, id)
    BY <1>3, <2>1, <2>2, <2>3, NewestKeepsFront
  <2>5. skipped \cap page = {} /\ skipped \union page \subseteq Newer(ids, id)
    BY <1>1, <1>2, <2>4 DEF Newer, rest
  <2>6. Cardinality(skipped) = offset
    BY <1>1, <1>2
  <2>7. Cardinality(skipped \union page) = offset + n
    BY <1>1, <2>4, <2>5, <2>6, DisjointUnion
  <2>8. Cardinality(skipped \union page) <= Cardinality(Newer(ids, id))
    BY <1>0, <2>5, FS_Subset
  <2> QED BY <2>7, <2>8
<1> QED BY <1>3

\* A page that is not empty and what it skips are all rows there are to list.
LEMMA PageIsCounted ==
  ASSUME NEW ids \in SUBSET PaymentIds, IsFiniteSet(ids),
         \A id \in ids : payments[id].created_at \in Nat,
         NEW offset \in Nat, NEW n \in Nat,
         NEW skipped \in Newest(ids, offset), NEW page \in Newest(ids \ skipped, n),
         page # {}
  PROVE  offset + Cardinality(page) <= Cardinality(ids)
<1>1. /\ skipped \subseteq ids /\ IsFiniteSet(skipped)
      /\ ids \ skipped # {} => Cardinality(skipped) = offset
  BY NewestKeepsFront
<1>2. page \subseteq ids \ skipped
  BY DEF Newest
<1>3. IsFiniteSet(page) /\ Cardinality(page) \in Nat /\ Cardinality(skipped) = offset
  BY <1>1, <1>2, SizeIsNat
<1>4. skipped \cap page = {} /\ skipped \union page \in SUBSET ids
  BY <1>1, <1>2
<1>5. Cardinality(skipped \union page) = offset + Cardinality(page)
  BY <1>1, <1>3, <1>4, DisjointUnion
<1> QED BY <1>4, <1>5, FS_Subset

-----------------------------------------------------------------------------
\* The arithmetic of the pages: one ends where the next begins.
LEMMA PageArithmetic ==
  ASSUME NEW q \in Clamped
  PROVE  /\ q.page \in 1..U32 - 1 /\ q.per_page \in Nat \ {0}
         /\ q.status \in PaymentStatuses \union {None}
         /\ Offset(q) \in Nat /\ PageEnd(q) \in Nat
         /\ PageEnd(q) = Offset(q) + q.per_page
         /\ PageEnd(q) >= q.page
         /\ Offset(q) % U32 \in Nat
         /\ ~ Overflows(q) => Offset(q) % U32 = Offset(q)
<1>1. q.page \in 1..U32 - 1 /\ q.per_page \in Nat \ {0}
      /\ q.status \in PaymentStatuses \union {None} /\ U32 \in Nat \ {0, 1}
  BY ListingAssumption DEF Clamped
<1> DEFINE p == q.page
           n == q.per_page
<1>2. p \in Nat /\ p >= 1 /\ n \in Nat /\ n >= 1
  BY <1>1
<1> HIDE DEF p, n
<1>3. (p - 1) * n \in Nat /\ p * n \in Nat /\ p * n = (p - 1) * n + n /\ p * n >= p
  <2>1. p * n \in Int /\ (p - 1) * n \in Int /\ p * n = (p - 1) * n + n
    BY <1>2, SMT
  <2>2. (p - 1) * n >= 0
    BY <1>2, SMT
  <2>3. p * n >= p
    BY <1>2, SMT
  <2> QED BY <1>2, <2>1, <2>2, <2>3
<1>4. Offset(q) \in Nat /\ PageEnd(q) \in Nat /\ PageEnd(q) = Offset(q) + q.per_page
      /\ PageEnd(q) >= q.page
  BY <1>3 DEF Offset, PageEnd, p, n
<1>5. Offset(q) % U32 \in Nat /\ (Offset(q) < U32 => Offset(q) % U32 = Offset(q))
  BY <1>1, <1>4
<1> QED BY <1>1, <1>4, <1>5 DEF Overflows

\* The handler asks the service for a page it has, of a size it allows.
LEMMA ClampType ==
  ASSUME NEW q \in Queries
  PROVE  Clamp(q) \in Clamped /\ Clamp(q).status = q.status
<1>1. q \in [page : 0..U32 - 1, per_page : 0..U32 - 1, status : PaymentStatuses \union {None}]
      /\ U32 \in Nat \ {0, 1} /\ MaxPerPage \in Nat \ {0}
  BY ListingAssumption
<1> DEFINE page == IF q.page = 0 THEN 1 ELSE q.page
           size == IF q.per_page = 0 THEN 1
                   ELSE IF q.per_page > MaxPerPage THEN MaxPerPage ELSE q.per_page
<1>2. page \in 1..U32 - 1 /\ size \in 1..MaxPerPage
  BY <1>1
<1> HIDE DEF page, size
<1>3. Clamp(q) = [q EXCEPT !.page = page, !.per_page = size]
  BY DEF Clamp, page, size
<1>4. Clamp(q) = [page |-> page, per_page |-> size, status |-> q.status]
  BY <1>1, <1>3
<1> QED BY <1>1, <1>2, <1>4 DEF Clamped

\* The rows there are, and when they were created.
LEMMA RowsTyped ==
  ASSUME ListingInv
  PROVE  /\ \A id \in Stored : payments[id] \in Payment /\ payments[id].created_at \in Nat
         /\ \A s : /\ Matching(s) \in SUBSET PaymentIds /\ Matching(s) \subseteq Stored
                   /\ IsFiniteSet(Matching(s)) /\ Cardinality(Matching(s)) \in Nat
                   /\ Cardinality(Matching(s)) <= Cardinality(Stored)
         /\ Cardinality(Stored) \in Nat
<1>1. \A id \in Stored : payments[id] \in Payment
  BY DEF ListingInv, ListingTypeOK, RepositoryTypeOK, Stored
<1>2. \A id \in Stored : payments[id].created_at \in Nat
  BY <1>1 DEF Payment
<1>3. \A s : Matching(s) \in SUBSET PaymentIds /\ Matching(s) \subseteq Stored
  BY DEF Matching, Stored
<1>4. IsFiniteSet(Stored)
  BY DEF ListingInv, Requested
<1> QED BY <1>1, <1>2, <1>3, <1>4, SizeIsNat

\* A payment that is created joins the rows, ...
LEMMA CreateEffect ==
  ASSUME ListingInv, Create
  PROVE  \E id \in PaymentIds :
            /\ RepositoryTypeOK' /\ Stored' = Stored \union {id}
            /\ \A other \in Stored : payments'[other] = payments[other]
<1>1. PICK id \in PaymentIds, draft \in Drafts, lag \in 0..MaxLag :
         lag <= now /\ CreateWithIdempotencyKey(id, draft, None, now - lag)
  BY DEF Create
<1>2. /\ id \notin Stored
      /\ payments' = [payments EXCEPT ![id] = NewPayment(id, draft, now - lag)]
      /\ idempotency_keys' = idempotency_keys
  BY <1>1 DEF CreateWithIdempotencyKey
<1>3. NewPayment(id, draft, now - lag) \in Payment
  <2>1. draft \in Draft /\ now - lag \in Nat
    BY <1>1, ListingAssumption DEF ListingInv, ListingTypeOK
  <2> QED BY <2>1 DEF NewPayment, Draft, Payment, PaymentStatuses
<1>4. NewPayment(id, draft, now - lag) # NoPayment
  BY <1>3, RepositoryAssumption
<1>5. RepositoryTypeOK' /\ \A other \in Stored : payments'[other] = payments[other]
  BY <1>2, <1>3 DEF ListingInv, ListingTypeOK, RepositoryTypeOK, Stored
<1>6. Stored' = Stored \union {id}
  BY <1>2, <1>4 DEF ListingInv, ListingTypeOK, RepositoryTypeOK, Stored
<1> QED BY <1>5, <1>6

\* ... and one that moves keeps its place, and its status if that is terminal.
LEMMA MoveEffect ==
  ASSUME ListingInv, MoveOn
  PROVE  /\ RepositoryTypeOK' /\ Stored' = Stored
         /\ \A id \in Stored :
              /\ payments'[id].created_at = payments[id].created_at
              /\ payments[id].status \notin OpenStatuses
                   => payments'[id].status = payments[id].status
<1>1. PICK id \in PaymentIds, next \in Moves : UpdateStatus(id, next, None)
  BY DEF MoveOn
<1> DEFINE row == payments[id]
<1>2. /\ id \in Stored /\ row.status \in ValidFromStates(next)
      /\ payments' = [payments EXCEPT ![id] = Updated(row, next, None)]
      /\ idempotency_keys' = idempotency_keys
  BY <1>1 DEF UpdateStatus, MayUpdate
<1>3. row \in Payment
  BY <1>2, RowsTyped
<1>4. next \in PaymentStatuses
  BY <1>1, ListingAssumption
<1>5. /\ Updated(row, next, None) \in Payment
      /\ Updated(row, next, None).created_at = row.created_at
  BY <1>3, <1>4 DEF Updated, Payment
<1>6. row.status \in OpenStatuses
  BY <1>2 DEF ValidFromStates, CanTransitionTo, OpenStatuses
<1>7. Updated(row, next, None) # NoPayment
  BY <1>5, RepositoryAssumption
<1> DEFINE new == Updated(row, next, None)
<1> HIDE DEF new
<1>8. payments \in [PaymentIds -> Payment \union {NoPayment}]
      /\ idempotency_keys \in [Keys -> PaymentIds \union {None}]
  BY DEF ListingInv, ListingTypeOK, RepositoryTypeOK
<1>9. RepositoryTypeOK' /\ Stored' = Stored
  BY <1>2, <1>5, <1>7, <1>8 DEF RepositoryTypeOK, Stored, new
<1>10. \A other \in Stored : other # id => payments'[other] = payments[other]
  BY <1>2, <1>8 DEF Stored
<1>11. payments'[id] = new
  BY <1>2, <1>8 DEF new, Stored
<1> QED BY <1>5, <1>6, <1>9, <1>10, <1>11 DEF new

\* Whatever happens to the rows, they become more, keep their places, and what
\* a listing that payments stay in holds it goes on holding.
LEMMA RowsGrow ==
  ASSUME ListingInv, Create \/ MoveOn
  PROVE  /\ RepositoryTypeOK' /\ IsFiniteSet(Stored') /\ Stored \subseteq Stored'
         /\ \A id \in Stored : payments'[id].created_at = payments[id].created_at
         /\ Stays(query.status) => Matching(query.status) \subseteq Matching(query.status)'
         /\ UNCHANGED clientVars
<1>0. UNCHANGED clientVars
  BY DEF Create, MoveOn
<1>1. IsFiniteSet(Stored)
  BY DEF ListingInv, Requested
<1>2. CASE Create
  <2>1. PICK id \in PaymentIds :
            /\ RepositoryTypeOK' /\ Stored' = Stored \union {id}
            /\ \A other \in Stored : payments'[other] = payments[other]
    BY <1>2, CreateEffect
  <2>2. IsFiniteSet(Stored')
    BY <1>1, <2>1, FS_AddElement
  <2>3. query' = query
    BY <1>0 DEF clientVars
  <2> QED BY <1>0, <2>1, <2>2, <2>3 DEF Matching
<1>3. CASE MoveOn
  <2>1. /\ RepositoryTypeOK' /\ Stored' = Stored
        /\ \A id \in Stored :
              /\ payments'[id].created_at = payments[id].created_at
              /\ payments[id].status \notin OpenStatuses
                   => payments'[id].status = payments[id].status
    BY <1>3, MoveEffect
  <2>2. query' = query
    BY <1>0 DEF clientVars
  <2> QED BY <1>0, <1>1, <2>1, <2>2 DEF Matching, Stays
<1> QED BY <1>2, <1>3

\* What the first query of a request answers.
LEMMA PageEffect ==
  ASSUME ListingInv, pc = "first", ListPaginated
  PROVE  LET listed == Matching(query.status)
         IN
         /\ data' \subseteq listed
         /\ ~ Overflows(query) /\ data' # {}
              => Offset(query) + Cardinality(data') <= Cardinality(listed)
         /\ ~ Overflows(query) =>
              \A id \in listed :
                 Alone(listed, id) /\ Cardinality(Newer(listed, id)) >= Offset(query) =>
                   id \in data' \/ Cardinality(Newer(listed, id)) >= PageEnd(query)
<1> DEFINE listed == Matching(query.status)
           offset == Offset(query) % U32
           n      == query.per_page
<1>1. query \in Clamped
  BY DEF ListingInv, Requested
<1>2. /\ n \in Nat /\ offset \in Nat /\ PageEnd(query) = Offset(query) + n
      /\ ~ Overflows(query) => offset = Offset(query)
  BY <1>1, PageArithmetic
<1>3. /\ listed \in SUBSET PaymentIds /\ IsFiniteSet(listed)
      /\ \A id \in listed : payments[id].created_at \in Nat
  BY RowsTyped
<1>4. PICK skipped \in Newest(listed, offset) : data' \in Newest(listed \ skipped, n)
  BY DEF ListPaginated
<1> HIDE DEF listed, offset, n
<1>5. data' \subseteq listed
  BY <1>4 DEF Newest
<1> DEFINE page == data'
<1>6. page \in Newest(listed \ skipped, n)
  BY <1>4
<1> HIDE DEF page
<1>7. page # {} => offset + Cardinality(page) <= Cardinality(listed)
  BY <1>2, <1>3, <1>4, <1>6, PageIsCounted
<1>8. \A id \in listed :
         Alone(listed, id) /\ Cardinality(Newer(listed, id)) >= offset =>
           id \in page \/ Cardinality(Newer(listed, id)) >= offset + n
  BY <1>2, <1>3, <1>4, <1>6, PageShows
<1> QED BY <1>2, <1>5, <1>7, <1>8 DEF page, listed, offset, n

-----------------------------------------------------------------------------
\* The first states satisfy the invariant.
LEMMA ListingInit == Init => ListingInv /\ WalkInv
<1> SUFFICES ASSUME Init PROVE ListingInv /\ WalkInv
  OBVIOUS
<1>1. Stored = {} /\ IsFiniteSet(Stored) /\ Cardinality(Stored) = 0
  BY FS_EmptySet DEF Init, RepositoryInit, Stored
<1>2. ListingTypeOK
  BY <1>1, ListingAssumption DEF Init, RepositoryInit, RepositoryTypeOK, ListingTypeOK
<1> QED BY <1>1, <1>2 DEF Init, ListingInv, Requested, PageCounted, WalkInv, Walking

\* Payments that come and move keep it.
LEMMA RowsKeep ==
  ASSUME ListingInv, Create \/ MoveOn
  PROVE  ListingInv'
<1>1. /\ RepositoryTypeOK' /\ IsFiniteSet(Stored') /\ Stored \subseteq Stored'
      /\ Stays(query.status) => Matching(query.status) \subseteq Matching(query.status)'
      /\ UNCHANGED clientVars /\ now' = now
  BY RowsGrow DEF Create, MoveOn
<1>2. /\ Cardinality(Stored) \in Nat /\ Cardinality(Stored') \in Nat
      /\ Cardinality(Stored) <= Cardinality(Stored')
  BY <1>1, RowsTyped, FS_Subset, FS_CardinalityType
<1>3. ListingTypeOK'
  BY <1>1, <1>2 DEF ListingInv, ListingTypeOK, clientVars
<1>4. Requested'
  BY <1>1 DEF ListingInv, Requested, clientVars
<1>5. Stays(query.status) =>
        Cardinality(Matching(query.status)) <= Cardinality(Matching(query.status)')
  <2>1. Matching(query.status)' \subseteq Stored'
    BY DEF Matching
  <2> QED BY <1>1, <2>1, FS_Subset
<1>6. PageCounted'
  <2> SUFFICES ASSUME pc' \in {"second", "reply"}, data' # {}, Stays(query'.status),
                      (~ Overflows(query))'
               PROVE  Offset(query)' + Cardinality(data')
                        <= IF pc' = "second" THEN Cardinality(Matching(query.status)') ELSE total'
    BY DEF PageCounted
  <2>1. /\ pc \in {"second", "reply"} /\ data # {} /\ Stays(query.status)
        /\ ~ Overflows(query) /\ query' = query /\ query \in Clamped
        /\ Offset(query)' = Offset(query) /\ data' = data /\ total' = total /\ pc' = pc
    BY <1>1 DEF clientVars, Overflows, Offset, ListingInv, Requested
  <2>2. Offset(query) + Cardinality(data)
          <= IF pc = "second" THEN Cardinality(Matching(query.status)) ELSE total
    BY <2>1 DEF ListingInv, PageCounted
  <2>3. Offset(query) \in Nat /\ Cardinality(Matching(query.status)) \in Nat
        /\ Cardinality(data) \in Nat /\ total \in Nat
        /\ Cardinality(Matching(query.status)') \in Nat
    <3>1. IsFiniteSet(Matching(query.status)') /\ IsFiniteSet(data)
      BY <1>1, FS_Subset DEF Matching, ListingInv, ListingTypeOK, Requested
    <3> QED BY <2>1, <3>1, PageArithmetic, RowsTyped, FS_CardinalityType
            DEF ListingInv, ListingTypeOK
  <2> QED BY <1>5, <2>1, <2>2, <2>3
<1> QED BY <1>3, <1>4, <1>6 DEF ListingInv

\* The steps of the request keep it.
LEMMA RequestKeeps ==
  ASSUME ListingInv, Ask \/ ListPayments \/ Panic \/ Read
  PROVE  ListingInv'
<1> USE DEF ListingInv
<1>0. /\ Stored' = Stored /\ RepositoryTypeOK' /\ now' = now
      /\ \A s : Matching(s)' = Matching(s)
  BY DEF Ask, ListPayments, Panic, Read, tableVars, ListingTypeOK, RepositoryTypeOK, Stored,
         Matching
<1>1. CASE Ask
  <2>1. PICK q \in Queries : /\ query' = Clamp(q) /\ first' = query'.page
                             /\ original' = Matching(q.status)
    BY <1>1 DEF Ask
  <2>2. Clamp(q) \in Clamped /\ Clamp(q).page \in 0..U32 - 1
    BY <2>1, ClampType DEF Clamped
  <2>3. pc' = "first" /\ UNCHANGED <<data, total, got>>
    BY <1>1 DEF Ask
  <2>4. Matching(q.status) \subseteq Stored
    BY DEF Matching
  <2> QED BY <1>0, <2>1, <2>2, <2>3, <2>4 DEF ListingTypeOK, Requested, PageCounted
<1>2. CASE pc = "first" /\ pc' = "second" /\ ListPayments
  <2>1. ListPaginated /\ UNCHANGED <<query, first, original, got, total>>
    BY <1>2 DEF ListPayments, ListPaginated, Count
  <2>2. /\ data' \subseteq Matching(query.status)
        /\ ~ Overflows(query) /\ data' # {}
             => Offset(query) + Cardinality(data') <= Cardinality(Matching(query.status))
    BY <1>2, <2>1, PageEffect
  <2>3. Matching(query.status) \subseteq Stored
    BY DEF Matching
  <2>4. ListingTypeOK' /\ Requested'
    BY <1>0, <1>2, <2>1, <2>2, <2>3 DEF ListingTypeOK, Requested
  <2>5. /\ Matching(query.status)' = Matching(query.status)
        /\ Overflows(query)' = Overflows(query) /\ Offset(query)' = Offset(query)
    BY <1>0, <2>1 DEF Matching, Overflows, Offset, ListPayments, tableVars
  <2>6. PageCounted'
    BY <1>2, <2>1, <2>2, <2>5 DEF PageCounted
  <2> QED BY <2>4, <2>6
<1>3. CASE pc = "second" /\ pc' = "reply" /\ ListPayments
  <2>1. /\ total' = Cardinality(Matching(query.status))
        /\ UNCHANGED <<query, first, original, got, data>>
    BY <1>3 DEF ListPayments, ListPaginated, Count
  <2>2. total' \in 0..Cardinality(Stored)
    BY <2>1, RowsTyped
  <2>3. ListingTypeOK' /\ Requested'
    BY <1>0, <1>3, <2>1, <2>2 DEF ListingTypeOK, Requested
  <2>4. Overflows(query)' = Overflows(query) /\ Offset(query)' = Offset(query)
    BY <2>1 DEF Overflows, Offset
  <2>5. PageCounted'
    BY <1>3, <2>1, <2>4 DEF PageCounted
  <2> QED BY <2>3, <2>5
<1>4. CASE Panic
  BY <1>0, <1>4 DEF Panic, ListingTypeOK, Requested, PageCounted
<1>5. CASE Read
  <2>1. /\ pc = "reply" /\ got' = got \union data /\ pc' \in {"done", "first"}
        /\ UNCHANGED <<data, total, first, original>>
    BY <1>5 DEF Read
  <2>2. query \in Clamped
    BY <2>1 DEF Requested
  <2>3. query' \in Clamped
    <3>1. CASE query' = query
      BY <2>2, <3>1
    <3>2. CASE query.page # U32 - 1 /\ query' = [query EXCEPT !.page = @ + 1]
      BY <2>2, <3>2, ListingAssumption DEF Clamped
    <3> QED BY <1>5, <3>1, <3>2 DEF Read
  <2> QED BY <1>0, <2>1, <2>3 DEF ListingTypeOK, Requested, PageCounted
<1> QED BY <1>1, <1>2, <1>3, <1>4, <1>5 DEF ListPayments

\* Every step keeps it.
LEMMA ListingNext == ListingInv /\ [Next]_vars => ListingInv'
<1> SUFFICES ASSUME ListingInv, [Next]_vars PROVE ListingInv'
  OBVIOUS
<1>1. CASE Create \/ MoveOn
  BY <1>1, RowsKeep
<1>2. CASE Ask \/ ListPayments \/ Panic \/ Read
  BY <1>2, RequestKeeps
<1>3. CASE Tick
  BY <1>3, ListingAssumption
  DEF Tick, tableVars, clientVars, ListingInv, ListingTypeOK, RepositoryTypeOK, Stored,
      Requested, PageCounted, Matching, Overflows, Offset
<1>4. CASE UNCHANGED vars
  BY <1>4 DEF vars, tableVars, clientVars, ListingInv, ListingTypeOK, RepositoryTypeOK, Stored,
              Requested, PageCounted, Matching, Overflows, Offset
<1> QED BY <1>1, <1>2, <1>3, <1>4 DEF Next

-----------------------------------------------------------------------------
\* A u32 counts the payments, so no page a walk comes to overflows.
FewPayments == IsFiniteSet(PaymentIds) /\ Cardinality(PaymentIds) < U32

\* What a payment is listed behind, and how much of the total it leaves.
LEMMA Ahead ==
  ASSUME ListingInv, NEW id \in Matching(query.status)
  PROVE  LET listed == Matching(query.status)
         IN  /\ Newer(listed, id) \subseteq listed /\ IsFiniteSet(Newer(listed, id))
             /\ Cardinality(Newer(listed, id)) \in Nat
             /\ Cardinality(Newer(listed, id)) < Cardinality(listed)
             /\ Alone(Stored, id) => Alone(listed, id)
<1> DEFINE listed == Matching(query.status)
<1>1. /\ IsFiniteSet(listed) /\ Cardinality(listed) \in Nat /\ listed \subseteq Stored
      /\ payments[id].created_at \in Nat
  BY RowsTyped
<1>2. Newer(listed, id) \subseteq listed \ {id}
  BY <1>1 DEF Newer
<1>3. IsFiniteSet(listed \ {id}) /\ Cardinality(listed \ {id}) = Cardinality(listed) - 1
  BY <1>1, FS_RemoveElement
<1>4. /\ IsFiniteSet(Newer(listed, id)) /\ Cardinality(Newer(listed, id)) \in Nat
      /\ Cardinality(Newer(listed, id)) <= Cardinality(listed \ {id})
  BY <1>2, <1>3, SizeIsNat
<1>5. Alone(Stored, id) => Alone(listed, id)
  BY <1>1 DEF Alone
<1> QED BY <1>1, <1>2, <1>3, <1>4, <1>5

\* Payments that come and move push what the walk has not shown further back.
LEMMA RowsKeepWalk ==
  ASSUME WalkInv, ListingInv', Create \/ MoveOn
  PROVE  WalkInv'
<1>1. ListingInv
  BY DEF WalkInv
<1>2. /\ IsFiniteSet(Stored') /\ Stored \subseteq Stored'
      /\ \A id \in Stored : payments'[id].created_at = payments[id].created_at
      /\ Stays(query.status) => Matching(query.status) \subseteq Matching(query.status)'
      /\ UNCHANGED <<pc, query, data, total, first, original, got>>
  BY <1>1, RowsGrow DEF clientVars
<1> SUFFICES ASSUME Walking'
             PROVE  /\ pc' # "done" => Offset(query)' < U32
                    /\ original' \subseteq Matching(query.status)'
                    /\ \A id \in original' : Alone(Stored, id)' => Behind(id)'
  BY DEF WalkInv
<1>3. /\ Walking /\ Stays(query.status) /\ original \subseteq Matching(query.status)
      /\ pc # "done" => Offset(query) < U32
  BY <1>2 DEF Walking, WalkInv
<1>4. Offset(query)' = Offset(query) /\ PageEnd(query)' = PageEnd(query)
  BY <1>2 DEF Offset, PageEnd
<1>5. ASSUME NEW id \in original, Alone(Stored, id)'
      PROVE  Behind(id)'
  <2> DEFINE ahead == Cardinality(Newer(Matching(query.status), id))
  <2>1. Alone(Stored, id) /\ id \in Matching(query.status) /\ id \in Stored
    <3>1. id \in Matching(query.status) /\ id \in Stored
      BY <1>3 DEF Matching
    <3> QED BY <1>2, <1>5, <3>1 DEF Alone
  <2>2. Behind(id)
    BY <1>3, <2>1 DEF WalkInv
  <2>3. Newer(Matching(query.status), id) \subseteq Newer(Matching(query.status), id)'
    BY <1>2, <1>3, <2>1 DEF Newer, Matching
  <2>4. IsFiniteSet(Newer(Matching(query.status), id)')
    <3>1. Newer(Matching(query.status), id)' \subseteq Stored'
      BY DEF Newer, Matching
    <3> QED BY <1>2, <3>1, FS_Subset
  <2>5. ahead \in Nat /\ ahead' \in Nat /\ ahead <= ahead'
    BY <2>3, <2>4, FS_Subset, FS_CardinalityType
  <2>6. pc # "idle"
    BY <1>3 DEF Walking
  <2>7. Offset(query) \in Nat /\ PageEnd(query) \in Nat
    BY <1>1, <2>6, PageArithmetic DEF ListingInv, Requested
  <2> HIDE DEF ahead
  <2>8. /\ pc = "first"  => id \in got \/ ahead >= Offset(query)
        /\ pc = "second" => id \in got \union data \/ ahead >= PageEnd(query)
        /\ pc = "reply"  => id \in got \union data
                            \/ (ahead >= PageEnd(query) /\ total > PageEnd(query))
        /\ pc = "done"   => id \in got
    BY <2>2 DEF Behind, ahead
  <2>9. /\ pc' = "first"  => id \in got' \/ ahead' >= Offset(query)'
        /\ pc' = "second" => id \in got' \union data' \/ ahead' >= PageEnd(query)'
        /\ pc' = "reply"  => id \in got' \union data'
                            \/ (ahead' >= PageEnd(query)' /\ total' > PageEnd(query)')
        /\ pc' = "done"   => id \in got'
    BY <1>2, <1>4, <2>5, <2>7, <2>8
  <2> QED BY <2>9 DEF Behind, ahead
<1> QED BY <1>2, <1>3, <1>4, <1>5

\* The first request starts at the front.
LEMMA AskStartsWalk ==
  ASSUME WalkInv, ListingInv', Ask
  PROVE  WalkInv'
<1>1. /\ payments' = payments /\ pc' = "first"
      /\ \E q \in Queries : /\ query' = Clamp(q) /\ first' = query'.page
                            /\ original' = Matching(q.status)
  BY DEF Ask, tableVars
<1>2. PICK q \in Queries : /\ query' = Clamp(q) /\ first' = query'.page
                           /\ original' = Matching(q.status)
  BY <1>1
<1>3. query' \in Clamped /\ query'.status = q.status
  BY <1>2, ClampType
<1>4. Matching(query.status)' = Matching(q.status)
  BY <1>1, <1>3 DEF Matching, Stored
<1> SUFFICES ASSUME Walking'
             PROVE  /\ Offset(query)' < U32
                    /\ \A id \in original' : Alone(Stored, id)' => Behind(id)'
  BY <1>2, <1>4 DEF WalkInv
<1>5. Offset(query)' = 0
  <2>1. query'.page = 1 /\ query'.per_page \in Nat
    BY <1>2, <1>3, PageArithmetic DEF Walking
  <2> QED BY <2>1 DEF Offset
<1>6. ASSUME NEW id \in original' PROVE Behind(id)'
  <2>1. Newer(Matching(query.status), id)' \subseteq Stored'
    BY DEF Newer, Matching
  <2>2. IsFiniteSet(Newer(Matching(query.status), id)')
    BY <2>1, FS_Subset DEF ListingInv, Requested
  <2>3. Cardinality(Newer(Matching(query.status), id)') >= 0
    BY <2>2, FS_CardinalityType
  <2> QED BY <1>1, <1>5, <2>3 DEF Behind
<1> QED BY <1>5, <1>6, ListingAssumption

\* The two queries of a request, and the reading of its reply, take the walk on
\* by a page.
LEMMA RequestKeepsWalk ==
  ASSUME WalkInv, ListingInv', ListPayments \/ Panic \/ Read, FewPayments
  PROVE  WalkInv'
<1>1. ListingInv
  BY DEF WalkInv
<1>2. /\ payments' = payments /\ UNCHANGED <<first, original>>
      /\ pc \in {"first", "second", "reply"}
  BY DEF ListPayments, Panic, Read, tableVars
<1>3. /\ query \in Clamped /\ Offset(query) \in Nat /\ PageEnd(query) \in Nat
      /\ PageEnd(query) >= query.page /\ query.page \in 1..U32 - 1
  BY <1>1, <1>2, PageArithmetic DEF ListingInv, Requested
<1> SUFFICES ASSUME Walking'
             PROVE  /\ pc' # "done" => Offset(query)' < U32
                    /\ original' \subseteq Matching(query.status)'
                    /\ \A id \in original' : Alone(Stored, id)' => Behind(id)'
  BY DEF WalkInv
<1>4. query'.status = query.status
  BY <1>3 DEF ListPayments, Panic, Read, Clamped
<1>5. /\ Walking /\ original \subseteq Matching(query.status) /\ Offset(query) < U32
      /\ \A id \in original : Alone(Stored, id) => Behind(id)
  BY <1>2, <1>4 DEF Walking, WalkInv
<1>6. /\ Matching(query.status)' = Matching(query.status) /\ Stored' = Stored
      /\ \A id : /\ Alone(Stored, id)' = Alone(Stored, id)
                 /\ Newer(Matching(query.status), id)' = Newer(Matching(query.status), id)
  BY <1>2, <1>4 DEF Matching, Stored, Alone, Newer
<1>7. CASE pc = "first" /\ pc' = "second" /\ ListPaginated /\ UNCHANGED <<query, got>>
  <2>1. ~ Overflows(query)
    BY <1>3, <1>5, ListingAssumption DEF Overflows
  <2>2. \A id \in Matching(query.status) :
          Alone(Matching(query.status), id)
            /\ Cardinality(Newer(Matching(query.status), id)) >= Offset(query) =>
               \/ id \in data'
               \/ Cardinality(Newer(Matching(query.status), id)) >= PageEnd(query)
    BY <1>1, <1>7, <2>1, PageEffect
  <2>3. PageEnd(query)' = PageEnd(query) /\ Offset(query)' = Offset(query)
    BY <1>7 DEF PageEnd, Offset
  <2>4. ASSUME NEW id \in original, Alone(Stored, id)
        PROVE  Behind(id)'
    <3>1. id \in got \/ Cardinality(Newer(Matching(query.status), id)) >= Offset(query)
      BY <1>5, <1>7, <2>4 DEF Behind
    <3>2. id \in Matching(query.status) /\ Alone(Matching(query.status), id)
      BY <1>1, <1>5, <2>4, Ahead
    <3>3. \/ id \in got \union data'
          \/ Cardinality(Newer(Matching(query.status), id)) >= PageEnd(query)
      BY <2>2, <3>1, <3>2
    <3> QED BY <1>6, <1>7, <2>3, <3>3 DEF Behind
  <2> QED BY <1>2, <1>5, <1>6, <2>3, <2>4
<1>8. CASE pc = "second" /\ pc' = "reply" /\ Count /\ UNCHANGED <<query, got>>
  <2>1. data' = data /\ total' = Cardinality(Matching(query.status))
    BY <1>8 DEF Count
  <2>2. PageEnd(query)' = PageEnd(query) /\ Offset(query)' = Offset(query)
    BY <1>8 DEF PageEnd, Offset
  <2>3. ASSUME NEW id \in original, Alone(Stored, id)
        PROVE  Behind(id)'
    <3>1. \/ id \in got \union data
          \/ Cardinality(Newer(Matching(query.status), id)) >= PageEnd(query)
      BY <1>5, <1>8, <2>3 DEF Behind
    <3>2. /\ Cardinality(Newer(Matching(query.status), id)) \in Nat
          /\ Cardinality(Newer(Matching(query.status), id))
               < Cardinality(Matching(query.status))
          /\ Cardinality(Matching(query.status)) \in Nat
      BY <1>1, <1>5, <2>3, Ahead, RowsTyped
    <3>3. \/ id \in got \union data
          \/ (Cardinality(Newer(Matching(query.status), id)) >= PageEnd(query)
              /\ total' > PageEnd(query))
      BY <1>3, <2>1, <3>1, <3>2
    <3> QED BY <1>6, <1>8, <2>1, <2>2, <3>3 DEF Behind
  <2> QED BY <1>2, <1>5, <1>6, <2>2, <2>3
<1>9. CASE Panic
  BY <1>9 DEF Panic, Walking
<1>10. CASE Read
  <2>1. /\ pc = "reply" /\ got' = got \union data /\ UNCHANGED <<data, total>>
    BY <1>10 DEF Read
  <2>2. total \in Nat /\ total < U32 /\ U32 \in Nat
    <3>1. Stored \subseteq PaymentIds
      BY DEF Stored
    <3>2. Cardinality(Stored) \in Nat /\ Cardinality(Stored) <= Cardinality(PaymentIds)
          /\ Cardinality(PaymentIds) \in Nat
      BY <3>1, SizeIsNat, FS_CardinalityType DEF FewPayments
    <3> QED BY <1>1, <3>2, ListingAssumption DEF FewPayments, ListingInv, ListingTypeOK
  <2>3. CASE pc' = "done"
    <3>1. LastPage \/ query.page = U32 - 1
      BY <1>10, <2>3 DEF Read
    <3>2. PageEnd(query) >= total
      BY <1>3, <2>2, <3>1 DEF LastPage, PageEnd
    <3>3. ASSUME NEW id \in original, Alone(Stored, id)
          PROVE  id \in got'
      BY <1>3, <1>5, <2>1, <2>2, <3>2, <3>3 DEF Behind
    <3> QED BY <1>2, <1>5, <1>6, <2>3, <3>3 DEF Behind
  <2>4. CASE pc' = "first" /\ ~ LastPage /\ query' = [query EXCEPT !.page = @ + 1]
    <3>1. query'.page - 1 = query.page /\ query'.per_page = query.per_page
      BY <1>3, <2>4 DEF Clamped
    <3>2. Offset(query)' = PageEnd(query)
      BY <3>1 DEF Offset, PageEnd
    <3>3. PageEnd(query) < total
      BY <1>3, <2>2, <2>4 DEF LastPage, PageEnd
    <3>4. ASSUME NEW id \in original, Alone(Stored, id)
          PROVE  id \in got' \/ Cardinality(Newer(Matching(query.status), id)) >= PageEnd(query)
      BY <1>5, <2>1, <3>4 DEF Behind
    <3> QED BY <1>2, <1>3, <1>5, <1>6, <2>2, <2>4, <3>2, <3>3, <3>4 DEF Behind
  <2> QED BY <1>10, <2>3, <2>4 DEF Read
<1> QED BY <1>7, <1>8, <1>9, <1>10 DEF ListPayments

\* Every step keeps the walk's invariant.
LEMMA WalkNext ==
  ASSUME FewPayments, WalkInv, [Next]_vars
  PROVE  WalkInv'
<1>1. ListingInv'
  BY ListingNext DEF WalkInv
<1>2. CASE Create \/ MoveOn
  BY <1>1, <1>2, RowsKeepWalk
<1>3. CASE Ask
  BY <1>1, <1>3, AskStartsWalk
<1>4. CASE ListPayments \/ Panic \/ Read
  BY <1>1, <1>4, RequestKeepsWalk
<1>5. CASE Tick \/ UNCHANGED vars
  BY <1>1, <1>5
  DEF Tick, vars, tableVars, clientVars, WalkInv, Walking, Behind, Newer, Alone, Matching,
      Stored, Offset, PageEnd
<1> QED BY <1>2, <1>3, <1>4, <1>5 DEF Next

-----------------------------------------------------------------------------
\* The types: what the service is asked for is what the handler allows
\* (api/src/handlers/payments.rs), and no total counts more than there is.
THEOREM ListingTypeCorrect == Spec => []ListingTypeOK
<1>1. Init => ListingInv
  BY ListingInit
<1>2. ListingInv /\ [Next]_vars => ListingInv'
  BY ListingNext
<1>3. ListingInv => ListingTypeOK
  BY DEF ListingInv
<1> QED BY <1>1, <1>2, <1>3, PTL DEF Spec

\* PaymentService::list_payments counts after it lists, so that no total is
\* short of its page, however many payments come and move in between.
THEOREM TotalsCoverPages == Spec => []TotalCoversPage
<1>1. Init => ListingInv
  BY ListingInit
<1>2. ListingInv /\ [Next]_vars => ListingInv'
  BY ListingNext
<1>3. ListingInv => TotalCoversPage
  BY DEF ListingInv, PageCounted, TotalCoversPage
<1> QED BY <1>1, <1>2, <1>3, PTL DEF Spec

\* As long as a u32 counts the payments, a client that asks for page after page
\* until the total says that there are no more has met every payment that was
\* there when it began, if it was alone in its instant.
THEOREM WalksMissNothing == ASSUME FewPayments PROVE Spec => []WalkMissesNothing
<1>1. Init => WalkInv
  BY ListingInit
<1>2. WalkInv /\ [Next]_vars => WalkInv'
  BY WalkNext
<1>3. WalkInv => WalkMissesNothing
  BY DEF WalkInv, Walking, Behind, Alone, WalkMissesNothing
<1> QED BY <1>1, <1>2, <1>3, PTL DEF Spec
=============================================================================
