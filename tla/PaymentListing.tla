----------------------------- MODULE PaymentListing -----------------------------
(***************************************************************************)
(* GET /v1/payments: the handler's clamping, PaymentService::list_payments *)
(* with its two queries, and a client that walks the pages while payments  *)
(* are created and move under it.  `total` is what the client stops by.    *)
(*                                                                         *)
(* created_at is drawn by Payment::new and its row committed later, so a   *)
(* payment may appear behind others; rows of one instant come in any order *)
(* and in another one for each query.  The page arithmetic is of u32: a    *)
(* build with overflow checks panics, any other wraps around.              *)
(***************************************************************************)
EXTENDS PaymentRepository, FiniteSets

CONSTANTS
  Drafts,
  MaxPerPage,   \* MAX_PER_PAGE, 100
  U32,          \* 2^32, the number of values of a u32
  Queries,      \* what clients ask for: [page, per_page, status]
  Moves,        \* bound on the moves: the statuses payments are moved to
  MaxLag,       \* bound on the time from Payment::new to the commit
  MaxTime       \* bound on the clock

ASSUME ListingAssumption ==
  /\ Drafts \subseteq Draft
  /\ MaxPerPage \in Nat \ {0} /\ U32 \in Nat \ {0, 1}
  /\ Queries \subseteq [page : 0..U32 - 1, per_page : 0..U32 - 1,
                        status : PaymentStatuses \union {None}]
  /\ Moves \subseteq PaymentStatuses
  /\ MaxLag \in Nat /\ MaxTime \in Nat

VARIABLES
  now,
  pc,         \* where the client's request is
  query,      \* what it asked for, clamped
  data,       \* ids of the page's rows
  total,      \* the count
  first,      \* history: the page the walk began with
  original,   \* history: the ids that matched when it began
  got         \* history: the ids of all its pages

tableVars  == <<payments, idempotency_keys>>
clientVars == <<pc, query, data, total, first, original, got>>
vars == <<tableVars, now, clientVars>>

Clamped == [page : 1..U32 - 1, per_page : 1..MaxPerPage,
            status : PaymentStatuses \union {None}]

\* The types; what the service is asked for is within the bounds of the handler,
\* and no reply counts more than there is.
ListingTypeOK ==
  /\ RepositoryTypeOK
  /\ now \in 0..MaxTime
  /\ pc \in {"idle", "first", "second", "reply", "done", "panicked"}
  /\ query \in Clamped \union {None}
  /\ data \subseteq Stored /\ got \subseteq Stored /\ original \subseteq Stored
  /\ total \in 0..Cardinality(Stored)
  /\ first \in 0..U32 - 1

Init ==
  /\ RepositoryInit
  /\ now = 0
  /\ pc = "idle" /\ query = None
  /\ data = {} /\ total = 0
  /\ first = 0 /\ original = {} /\ got = {}

-----------------------------------------------------------------------------
\* Merchants and workers.
Create ==
  /\ \E id \in PaymentIds, draft \in Drafts, lag \in 0..MaxLag :
       lag <= now /\ CreateWithIdempotencyKey(id, draft, None, now - lag)
  /\ UNCHANGED <<now, clientVars>>

MoveOn ==
  /\ \E id \in PaymentIds, next \in Moves : UpdateStatus(id, next, None)
  /\ UNCHANGED <<now, clientVars>>

Tick ==
  /\ now < MaxTime /\ now' = now + 1
  /\ UNCHANGED <<tableVars, clientVars>>

-----------------------------------------------------------------------------
\* WHERE status = $1
Matching(status) == {id \in Stored : status \in {None, payments[id].status}}

\* Mutant of Clamp: per_page as it was asked for.
Clamp_PageOnly(q) == [q EXCEPT !.page = IF @ = 0 THEN 1 ELSE @]

\* page.max(1), per_page.clamp(1, MAX_PER_PAGE)
Clamp(q) ==
  [q EXCEPT !.page     = IF @ = 0 THEN 1 ELSE @,
            !.per_page = IF @ = 0 THEN 1 ELSE IF @ > MaxPerPage THEN MaxPerPage ELSE @]

\* ORDER BY created_at DESC LIMIT n: the sets of rows it may keep of `ids`.
Newest(ids, n) ==
  {kept \in SUBSET ids :
     /\ Cardinality(kept) = IF n < Cardinality(ids) THEN n ELSE Cardinality(ids)
     /\ \A id \in kept, other \in ids \ kept :
           payments[id].created_at >= payments[other].created_at}

\* Mutant of Offset: pages counted from 0.
Offset_FromZero(q) == q.page * q.per_page

Offset(q) == (q.page - 1) * q.per_page

\* The multiplication overflows.
Overflows(q) == Offset(q) >= U32

\* list_paginated
ListPaginated ==
  /\ \E skipped \in Newest(Matching(query.status), Offset(query) % U32) :
       data' \in Newest(Matching(query.status) \ skipped, query.per_page)
  /\ UNCHANGED total

\* count
Count == total' = Cardinality(Matching(query.status)) /\ UNCHANGED data

\* Mutant of ListPayments: the rows are counted first.
ListPayments_CountFirst ==
  /\ \/ pc = "first"  /\ pc' = "second" /\ Count
     \/ pc = "second" /\ pc' = "reply"  /\ ListPaginated
  /\ UNCHANGED <<tableVars, now, query, first, original, got>>

\* PaymentService::list_payments, a query at a time.
ListPayments ==
  /\ \/ pc = "first"  /\ pc' = "second" /\ ListPaginated
     \/ pc = "second" /\ pc' = "reply"  /\ Count
  /\ UNCHANGED <<tableVars, now, query, first, original, got>>

Panic ==
  /\ pc = "first" /\ Overflows(query)
  /\ pc' = "panicked"
  /\ UNCHANGED <<tableVars, now, query, data, total, first, original, got>>

\* The walk: a first request, and the next page for as long as `total` says
\* that there is one.
Ask ==
  /\ pc = "idle"
  /\ \E q \in Queries :
       /\ query' = Clamp(q)
       /\ first' = query'.page
       /\ original' = Matching(q.status)
  /\ pc' = "first"
  /\ UNCHANGED <<tableVars, now, data, total, got>>

LastPage == query.page * query.per_page >= total

Read ==
  /\ pc = "reply"
  /\ got' = got \union data
  /\ IF LastPage \/ query.page = U32 - 1
     THEN pc' = "done" /\ UNCHANGED query
     ELSE pc' = "first" /\ query' = [query EXCEPT !.page = @ + 1]
  /\ UNCHANGED <<tableVars, now, data, total, first, original>>

Next ==
  \/ Create \/ MoveOn \/ Tick
  \/ Ask \/ ListPayments \/ Panic \/ Read

Spec == Init /\ [][Next]_vars

-----------------------------------------------------------------------------
\* A payment does not leave these listings once it is in them.
Stays(status) == status \in {None} \union (PaymentStatuses \ OpenStatuses)

\* A walk from the first page meets every payment that was there when it began
\* and shares its created_at with no other, whatever is created or moves
\* between its requests and between the two queries of one.
WalkMissesNothing ==
  (pc = "done" /\ first = 1 /\ Stays(query.status)) =>
    \A id \in original :
      (\A other \in Stored \ {id} : payments[other].created_at # payments[id].created_at)
        => id \in got

\* The total of a reply is never short of the page it comes with.
TotalCoversPage ==
  (pc = "reply" /\ data # {} /\ Stays(query.status) /\ ~ Overflows(query)) =>
    Offset(query) + Cardinality(data) <= total
=============================================================================
