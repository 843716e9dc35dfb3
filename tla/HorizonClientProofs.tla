-------------------------- MODULE HorizonClientProofs --------------------------
(***************************************************************************)
(* The loop of find_payment answers as the one step of HorizonLedger does, *)
(* but for the records it misread, for every feed, page limit, query and   *)
(* interleaving with the network, whichever calls fail.                    *)
(***************************************************************************)
EXTENDS HorizonClient, SequenceTheorems, TLAPS

\* The record the loop looks for, in terms of the raw feed.
IsMatch(i) ==
  /\ i \in 1..seen /\ i > seen - PageLimit
  /\ feed[i].created_at >= query.since
  /\ IsPayment(feed[i]) /\ ToAccount(feed[i]) /\ HasMemo(feed[i])

\* Ledgers close one after the other: the feed is in order of time.
FeedInOrder ==
  /\ \A i \in 1..Len(feed) : feed[i].created_at <= now
  /\ \A i, j \in 1..Len(feed) : i <= j => feed[i].created_at <= feed[j].created_at

\* What the loop has passed over does not match or was misread, what it has
\* yet to come to was not, and what it has stopped at passed the guards.
LoopInv ==
  /\ pc = "get_page" => misread = {}
  /\ pc \in {"loop", "get_memo"} =>
        /\ \A i \in 1..seen : IsMatch(i) => i <= next \/ i \in misread
        /\ \A i \in misread : i > next
  /\ pc = "get_memo" =>
        /\ next \in 1..seen /\ next > seen - PageLimit
        /\ IsPayment(feed[next]) /\ ~ IsOld(feed[next]) /\ ToAccount(feed[next])
  /\ pc = "some" =>
        /\ IsMatch(answer) /\ answer \notin misread
        /\ \A i \in 1..seen : IsMatch(i) => i <= answer \/ i \in misread
  /\ pc = "none" => \A i \in 1..seen : IsMatch(i) => i \in misread

ClientInv == TypeOK /\ FeedInOrder /\ LoopInv

-----------------------------------------------------------------------------
\* Types of what TypeOK ranges over.
LEMMA RecordTypes ==
  ASSUME TypeOK, NEW i \in 1..Len(feed)
  PROVE  /\ feed[i] \in Record
         /\ feed[i].created_at \in Nat
         /\ feed[i].transaction_hash \in TxHashes
         /\ MemoOf[feed[i].transaction_hash] \in Memos \union {None}
  <1>1. feed[i] \in Record
    BY ElementOfSeq DEF TypeOK
  <1>2. feed[i].created_at \in Nat /\ feed[i].transaction_hash \in TxHashes
    BY <1>1 DEF Record
  <1> QED BY <1>1, <1>2, ClientAssumption

\* HorizonLedger's Matches, over the feed as it was when the page was fetched,
\* are the records the loop looks for.
LEMMA MatchesAreMatches ==
  ASSUME TypeOK
  PROVE  Ledger!Matches(query.memo, query.since) = {i \in 1..seen : IsMatch(i)}
  <1>1. query.memo \in Memos /\ query.memo # None /\ query.since \in Nat
    BY ClientAssumption DEF TypeOK
  <1>2. seen \in Nat /\ seen <= Len(feed) /\ 1..seen \subseteq 1..Len(feed)
    <2>1. Len(feed) \in Nat
      BY LenProperties DEF TypeOK
    <2> QED BY <2>1 DEF TypeOK
  <1>3. DOMAIN AsSeen = 1..seen /\ Len(AsSeen) = seen
    <2>1. DOMAIN AsSeen = 1..seen
      BY DEF AsSeen
    <2> QED BY <1>2, <2>1, SMT
  <1>4. ASSUME NEW i \in 1..seen
        PROVE  (i > Len(AsSeen) - PageLimit /\ AsSeen[i].created_at >= query.since
                  /\ AsSeen[i].memo = query.memo) <=> IsMatch(i)
    <2>1. AsSeen[i].created_at = feed[i].created_at
      BY DEF AsSeen
    <2>2. AsSeen[i].memo = IF IsPayment(feed[i]) /\ ToAccount(feed[i])
                           THEN MemoOf[feed[i].transaction_hash] ELSE None
      BY DEF AsSeen
    <2> QED BY <1>1, <1>3, <2>1, <2>2 DEF IsMatch, HasMemo
  <1> QED BY <1>3, <1>4 DEF Ledger!Matches

-----------------------------------------------------------------------------
\* The search that has not started satisfies the invariant.
LEMMA ClientInvInit == Init => ClientInv
  <1> SUFFICES ASSUME Init PROVE ClientInv
    OBVIOUS
  <1>1. Len(feed) = 0 /\ feed \in Seq(Record)
    BY DEF Init
  <1>2. TypeOK
    BY <1>1, ClientAssumption DEF Init, TypeOK, NoRecord
  <1>3. FeedInOrder
    BY <1>1 DEF FeedInOrder
  <1>4. LoopInv
    BY DEF Init, LoopInv
  <1> QED BY <1>2, <1>3, <1>4 DEF ClientInv

\* A record the network appends leaves everything the loop has seen alone.
LEMMA OperationKeepsInv == ClientInv /\ Operation => ClientInv'
  <1> SUFFICES ASSUME ClientInv, Operation PROVE ClientInv'
    OBVIOUS
  <1> USE DEF ClientInv
  <1>1. PICK r \in Record : feed' = Append(feed, r) /\ r.created_at = now
    <2>1. PICK kind \in Kinds, hash \in TxHashes :
             feed' = Append(feed, [kind |-> kind, transaction_hash |-> hash, created_at |-> now])
      BY DEF Operation
    <2>2. [kind |-> kind, transaction_hash |-> hash, created_at |-> now] \in Record
      BY DEF TypeOK, Record
    <2> QED BY <2>1, <2>2
  <1>2. /\ now' = now /\ query' = query /\ pc' = pc
        /\ seen' = seen /\ next' = next /\ misread' = misread /\ answer' = answer
    BY DEF Operation, clientVars
  <1>3. feed \in Seq(Record) /\ Len(feed) \in Nat /\ now \in Nat /\ seen \in 0..Len(feed)
    BY LenProperties DEF TypeOK
  <1>4. /\ feed' \in Seq(Record) /\ Len(feed') = Len(feed) + 1
        /\ feed'[Len(feed) + 1] = r
        /\ \A i \in 1..Len(feed) : feed'[i] = feed[i]
    BY <1>1, <1>3, AppendProperties
  <1>5. \A i \in 1..Len(feed) : feed[i].created_at \in Nat
    BY RecordTypes
  <1>6. TypeOK'
    BY <1>2, <1>3, <1>4 DEF TypeOK
  <1>7. FeedInOrder'
    BY <1>1, <1>2, <1>3, <1>4, <1>5 DEF FeedInOrder
  <1>8. \A i \in 1..seen : IsMatch(i)' <=> IsMatch(i)
    BY <1>2, <1>3, <1>4 DEF IsMatch, IsPayment, ToAccount, HasMemo
  <1>9. LoopInv'
    <2>1. pc = "get_memo" => next \in 1..Len(feed) /\ feed'[next] = feed[next]
      BY <1>3, <1>4 DEF LoopInv
    <2>2. pc = "some" => answer \in 1..seen
      BY DEF LoopInv, IsMatch
    <2> QED BY <1>2, <1>8, <2>1, <2>2 DEF LoopInv, IsPayment, IsOld, ToAccount
  <1> QED BY <1>6, <1>7, <1>9

\* A ledger that closes appends to the feed behind the page being read.
LEMMA CloseLedgerKeepsInv == ClientInv /\ CloseLedger => ClientInv'
  <1> SUFFICES ASSUME ClientInv, CloseLedger PROVE ClientInv'
    OBVIOUS
  <1> USE DEF ClientInv
  <1>1. /\ feed' = feed /\ query' = query /\ pc' = pc /\ now' = now + 1
        /\ seen' = seen /\ next' = next /\ misread' = misread /\ answer' = answer
    BY DEF CloseLedger, clientVars
  <1>2. now \in Nat /\ Len(feed) \in Nat
    BY LenProperties DEF TypeOK
  <1>3. \A i \in 1..Len(feed) : feed[i].created_at \in Nat
    BY RecordTypes
  <1>4. TypeOK'
    BY <1>1, <1>2 DEF TypeOK
  <1>5. FeedInOrder'
    BY <1>1, <1>2, <1>3 DEF FeedInOrder
  <1>6. LoopInv'
    BY <1>1 DEF LoopInv, IsMatch, IsPayment, IsOld, ToAccount, HasMemo
  <1> QED BY <1>4, <1>5, <1>6

-----------------------------------------------------------------------------
\* The facts every step of the loop starts from.
LEMMA LoopFacts ==
  ASSUME ClientInv
  PROVE  /\ seen \in Nat /\ next \in Nat /\ Len(feed) \in Nat /\ PageLimit \in Nat \ {0}
         /\ next <= seen /\ seen <= Len(feed)
         /\ query.since \in Nat
         /\ \A i \in 1..seen : feed[i].created_at \in Nat
  <1>1. Len(feed) \in Nat
    BY LenProperties DEF ClientInv, TypeOK
  <1>2. \A i \in 1..Len(feed) : feed[i].created_at \in Nat
    BY RecordTypes DEF ClientInv
  <1> QED BY <1>1, <1>2, ClientAssumption DEF ClientInv, TypeOK

\* Stepping over a record that does not match, or that is misread.
LEMMA StepOver ==
  ASSUME ClientInv, pc \in {"loop", "get_memo"}, next \in 1..seen,
         \/ ~ IsMatch(next) /\ misread' = misread
         \/ misread' = misread \union {next},
         next' = next - 1, pc' = "loop", UNCHANGED <<feed, now, query, seen, answer>>
  PROVE  ClientInv'
  <1>1. misread' \subseteq misread \union {next} /\ misread \subseteq 1..seen
    BY DEF ClientInv, TypeOK
  <1>2. misread' \subseteq 1..seen /\ next - 1 \in 0..seen /\ seen \in Nat
    BY <1>1, LoopFacts
  <1>3. TypeOK'
    BY <1>2 DEF ClientInv, TypeOK
  <1>4. FeedInOrder'
    BY DEF ClientInv, FeedInOrder
  <1>5. \A i \in 1..seen : IsMatch(i)' <=> IsMatch(i)
    BY DEF IsMatch, IsPayment, ToAccount, HasMemo
  <1>6. \A i \in 1..seen : IsMatch(i) => i <= next - 1 \/ i \in misread'
    BY LoopFacts DEF ClientInv, LoopInv
  <1>7. ASSUME NEW i \in misread' PROVE i > next - 1
    <2>1. i \in Int /\ (i = next \/ i > next)
      BY <1>1 DEF ClientInv, LoopInv
    <2> QED BY <2>1, LoopFacts
  <1> QED BY <1>3, <1>4, <1>5, <1>6, <1>7 DEF ClientInv, LoopInv

\* Ending the search without an answer: nothing in the page matches but what
\* was misread.
LEMMA EndWithNone ==
  ASSUME ClientInv, pc = "loop", pc' = "none",
         \A i \in 1..seen : IsMatch(i) => i \in misread,
         UNCHANGED <<feed, now, query, seen, next, misread, answer>>
  PROVE  ClientInv'
  <1>1. TypeOK'
    BY DEF ClientInv, TypeOK
  <1>2. FeedInOrder'
    BY DEF ClientInv, FeedInOrder
  <1>3. \A i \in 1..seen : IsMatch(i)' <=> IsMatch(i)
    BY DEF IsMatch, IsPayment, ToAccount, HasMemo
  <1> QED BY <1>1, <1>2, <1>3 DEF ClientInv, LoopInv

\* Every step of the loop passes over a record that does not match or that it
\* misreads, or stops at one.
LEMMA SearchKeepsInv == ClientInv /\ Search => ClientInv'
  <1> SUFFICES ASSUME ClientInv, Search PROVE ClientInv'
    OBVIOUS
  <1>1. CASE GetPage
    <2>1. /\ pc = "get_page" /\ pc' = "loop" /\ seen' = Len(feed) /\ next' = Len(feed)
          /\ feed' = feed /\ now' = now /\ query' = query /\ answer' = answer
          /\ misread' = misread /\ misread = {}
      BY <1>1 DEF GetPage, ClientInv, LoopInv
    <2>2. TypeOK'
      BY <2>1, LoopFacts DEF ClientInv, TypeOK
    <2>3. FeedInOrder'
      BY <2>1 DEF ClientInv, FeedInOrder
    <2>4. LoopInv'
      BY <2>1, LoopFacts DEF LoopInv
    <2> QED BY <2>2, <2>3, <2>4 DEF ClientInv
  <1>2. CASE Skip
    <2>1. next \in 1..seen
      BY <1>2, LoopFacts DEF Skip, PageEnds
    <2>2. ~ IsMatch(next)
      BY <1>2 DEF Skip, IsMatch
    <2> QED BY <1>2, <2>1, <2>2, StepOver DEF Skip
  <1>3. CASE Break
    <2>1. next \in 1..seen /\ feed[next].created_at < query.since
      BY <1>3, LoopFacts DEF Break, PageEnds, IsOld
    <2>2. ASSUME NEW i \in 1..seen, IsMatch(i), i \notin misread PROVE FALSE
      <3>1. i <= next
        BY <1>3, <2>2 DEF Break, ClientInv, LoopInv
      <3>2. feed[i].created_at <= feed[next].created_at
        BY <2>1, <3>1, LoopFacts DEF ClientInv, FeedInOrder
      <3> QED BY <2>1, <2>2, <3>2, LoopFacts DEF IsMatch
    <2> QED BY <1>3, <2>2, EndWithNone DEF Break, End
  <1>4. CASE PageRead
    <2>1. ASSUME NEW i \in 1..seen, IsMatch(i), i \notin misread PROVE FALSE
      <3>1. i <= next /\ i > seen - PageLimit
        BY <1>4, <2>1 DEF PageRead, ClientInv, LoopInv, IsMatch
      <3> QED BY <1>4, <3>1, LoopFacts DEF PageRead, PageEnds
    <2> QED BY <1>4, <2>1, EndWithNone DEF PageRead, End
  <1>5. CASE Candidate
    <2>1. next \in 1..seen /\ next > seen - PageLimit
      BY <1>5, LoopFacts DEF Candidate, PageEnds
    <2>2. TypeOK' /\ FeedInOrder'
      BY <1>5 DEF Candidate, ClientInv, TypeOK, FeedInOrder
    <2>3. LoopInv'
      BY <1>5, <2>1 DEF Candidate, ClientInv, LoopInv, IsMatch, IsPayment, IsOld, ToAccount, HasMemo
    <2> QED BY <2>2, <2>3 DEF ClientInv
  <1>6. CASE OtherMemo
    <2>1. next \in 1..seen
      BY <1>6 DEF OtherMemo, ClientInv, LoopInv
    <2>2. ~ IsMatch(next)
      BY <1>6 DEF OtherMemo, IsMatch
    <2> QED BY <1>6, <2>1, <2>2, StepOver DEF OtherMemo
  <1>7. CASE ErrorDocument
    <2>1. next \in 1..seen
      BY <1>7 DEF ErrorDocument, ClientInv, LoopInv
    <2> QED BY <1>7, <2>1, StepOver DEF ErrorDocument
  <1>8. CASE Found
    <2>1. IsMatch(next) /\ next \in 1..seen
      BY <1>8, LoopFacts DEF Found, ClientInv, LoopInv, IsMatch, IsOld
    <2>2. TypeOK' /\ FeedInOrder'
      BY <1>8, <2>1, LoopFacts DEF Found, End, ClientInv, TypeOK, FeedInOrder
    <2>3. \A i \in Int : IsMatch(i)' <=> IsMatch(i)
      BY <1>8 DEF Found, End, IsMatch, IsPayment, ToAccount, HasMemo
    <2>4. LoopInv'
      BY <1>8, <2>1, <2>3 DEF Found, End, ClientInv, LoopInv, IsMatch, IsPayment, ToAccount, HasMemo
    <2> QED BY <2>2, <2>4 DEF ClientInv
  <1>9. CASE RequestFails
    BY <1>9 DEF RequestFails, End, ClientInv, TypeOK, FeedInOrder, LoopInv
  <1> QED BY <1>1, <1>2, <1>3, <1>4, <1>5, <1>6, <1>7, <1>8, <1>9 DEF Search

\* Every step keeps the invariant.
LEMMA ClientInvStep == ClientInv /\ [Next]_vars => ClientInv'
  <1> SUFFICES ASSUME ClientInv, [Next]_vars PROVE ClientInv'
    OBVIOUS
  <1>1. CASE UNCHANGED vars
    BY <1>1 DEF vars, clientVars, ClientInv, TypeOK, FeedInOrder, LoopInv, IsMatch,
                IsPayment, IsOld, ToAccount, HasMemo
  <1> QED BY <1>1, OperationKeepsInv, CloseLedgerKeepsInv, SearchKeepsInv DEF Next

-----------------------------------------------------------------------------
\* The feed, the page and the loop's position keep their types.
THEOREM ClientTypeCorrect == Spec => []TypeOK
  <1>1. ClientInv => TypeOK
    BY DEF ClientInv
  <1> QED BY <1>1, ClientInvInit, ClientInvStep, PTL DEF Spec

\* find_payment's loop, with the feed growing, calls failing and error documents
\* arriving between its awaits, answers what HorizonLedger says at the moment of
\* the first GET but for the records it misread.
THEOREM LoopAnswersAtOnce == Spec => []AnswersAtOnce
  <1>1. ClientInv => AnswersAtOnce
    <2> SUFFICES ASSUME ClientInv PROVE AnswersAtOnce
      OBVIOUS
    <2>1. Ledger!Matches(query.memo, query.since) = {i \in 1..seen : IsMatch(i)}
      BY MatchesAreMatches DEF ClientInv
    <2>2. pc = "some" => answer \in 1..seen
      BY DEF ClientInv, LoopInv, IsMatch
    <2> QED BY <2>1, <2>2 DEF AnswersAtOnce, ClientInv, LoopInv, Ledger!IsFound
  <1> QED BY <1>1, ClientInvInit, ClientInvStep, PTL DEF Spec
=============================================================================
