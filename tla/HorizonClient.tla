----------------------------- MODULE HorizonClient -----------------------------
(***************************************************************************)
(* HorizonClient::find_payment one level below HorizonLedger: one GET for  *)
(* the newest page of the account's payments feed, then the loop over its  *)
(* records with one GET for the memo of each candidate.  The feed is       *)
(* Horizon's: operations of any type, in both directions and of any asset, *)
(* several of them in one transaction; it grows while the loop runs.       *)
(* Records are numbered from the oldest, and so the loop counts down.      *)
(***************************************************************************)
EXTENDS Integers, Sequences, PaymentDomain

CONSTANTS
  PageLimit,    \* the "limit" of the query, 50
  Kinds,        \* what the feed holds: [type, to, asset_type] records
  Account,      \* the shared account, find_payment's destination
  MemoOf,       \* hash |-> the memo of the transaction, or None
  MaxFeed, MaxTime   \* bounds on the feed and the clock

ASSUME ClientAssumption ==
  /\ PageLimit \in Nat \ {0} /\ MaxFeed \in Nat /\ MaxTime \in Nat
  /\ \A k \in Kinds : {"type", "to", "asset_type"} \subseteq DOMAIN k
  /\ MemoOf \in [TxHashes -> Memos \union {None}]
  /\ None \notin Memos

VARIABLES
  feed,      \* the account's payments feed, oldest first
  now,       \* closing time of the last ledger
  query,     \* the memo and `since` of the search
  pc,        \* where the search is
  seen,      \* history: length of the feed when the page was fetched
  next,      \* the record the loop comes to next
  misread,   \* history: the records whose memo GET was answered by an error document
  answer     \* Some(record), by its number, or NoRecord

clientVars == <<query, pc, seen, next, misread, answer>>
vars == <<feed, now, clientVars>>

NoRecord == 0

Record == [kind : Kinds, transaction_hash : TxHashes, created_at : Nat]

\* The types; the loop stays on the page that was fetched.
TypeOK ==
  /\ feed \in Seq(Record)
  /\ now \in Nat
  /\ query \in [memo : Memos, since : Nat]
  /\ pc \in {"get_page", "loop", "get_memo", "some", "none", "error"}
  /\ seen \in 0..Len(feed)
  /\ next \in 0..seen
  /\ misread \subseteq 1..seen
  /\ answer \in 0..seen

Init ==
  /\ feed = <<>> /\ now = 0
  /\ query \in [memo : Memos, since : 0..MaxTime]
  /\ pc = "get_page"
  /\ seen = 0 /\ next = 0 /\ misread = {} /\ answer = NoRecord

-----------------------------------------------------------------------------
\* The network: operations reach the feed, ledgers close.
Operation ==
  /\ Len(feed) < MaxFeed
  /\ \E kind \in Kinds, hash \in TxHashes :
       feed' = Append(feed, [kind |-> kind, transaction_hash |-> hash, created_at |-> now])
  /\ UNCHANGED <<now, clientVars>>

CloseLedger ==
  /\ now < MaxTime
  /\ now' = now + 1
  /\ UNCHANGED <<feed, clientVars>>

-----------------------------------------------------------------------------
\* find_payment

End(how) == pc' = how /\ UNCHANGED <<feed, now, query, seen, next, misread>>

\* Mutant of GetPage: the loop starts beyond the newest record.
GetPage_Beyond ==
  /\ pc = "get_page"
  /\ seen' = Len(feed) /\ next' = Len(feed) + 1
  /\ pc' = "loop"
  /\ UNCHANGED <<feed, now, query, misread, answer>>

\* GET /accounts/{destination}/payments?order=desc&limit=50
GetPage ==
  /\ pc = "get_page"
  /\ seen' = Len(feed)
  /\ next' = Len(feed)
  /\ pc' = "loop"
  /\ UNCHANGED <<feed, now, query, misread, answer>>

\* The page has no further record.
PageEnds == next = 0 \/ next <= seen - PageLimit

IsPayment(r) == r.kind.type = "payment"
IsOld(r)     == r.created_at < query.since
ToAccount(r) == r.kind.to = Account

\* The guards of the loop before its first await: `continue` on a record that
\* is no payment or not to the account ...
Skip ==
  /\ pc = "loop" /\ ~ PageEnds
  /\ \/ ~ IsPayment(feed[next])
     \/ ~ IsOld(feed[next]) /\ ~ ToAccount(feed[next])
  /\ next' = next - 1
  /\ UNCHANGED <<feed, now, query, pc, seen, misread, answer>>

\* ... `break` on a payment older than `since` ...
Break ==
  /\ pc = "loop" /\ ~ PageEnds
  /\ IsPayment(feed[next]) /\ IsOld(feed[next])
  /\ End("none")
  /\ UNCHANGED answer

\* ... and the page read to its end.
PageRead ==
  /\ pc = "loop" /\ PageEnds
  /\ End("none")
  /\ UNCHANGED answer

Candidate ==
  /\ pc = "loop" /\ ~ PageEnds
  /\ IsPayment(feed[next]) /\ ~ IsOld(feed[next]) /\ ToAccount(feed[next])
  /\ pc' = "get_memo"
  /\ UNCHANGED <<feed, now, query, seen, next, misread, answer>>

\* Mutant of HasMemo: any transaction with a memo will do.
HasMemo_Any(r) == MemoOf[r.transaction_hash] # None

HasMemo(r) == MemoOf[r.transaction_hash] = query.memo

\* get_transaction_memo reads the transaction: it has another memo, or none.
OtherMemo ==
  /\ pc = "get_memo" /\ ~ HasMemo(feed[next])
  /\ next' = next - 1
  /\ pc' = "loop"
  /\ UNCHANGED <<feed, now, query, seen, misread, answer>>

\* get_transaction_memo checks for no status but 404, and the memo is all it
\* decodes and may be missing: the problem document of a 429 or a 5xx reads as
\* a transaction without a memo, and the loop goes on, past a match as well.
ErrorDocument ==
  /\ pc = "get_memo"
  /\ misread' = misread \union {next}
  /\ next' = next - 1
  /\ pc' = "loop"
  /\ UNCHANGED <<feed, now, query, seen, answer>>

Found ==
  /\ pc = "get_memo" /\ HasMemo(feed[next])
  /\ answer' = next
  /\ End("some")

\* The page cannot be had or decoded (its `_embedded` is required, so an error
\* document is an error here); or the GET of the memo gets no answer, a 404, or
\* a body that is no JSON object.
RequestFails ==
  /\ pc \in {"get_page", "get_memo"}
  /\ End("error")
  /\ UNCHANGED answer

Search ==
  \/ GetPage \/ Skip \/ Break \/ PageRead \/ Candidate
  \/ OtherMemo \/ ErrorDocument \/ Found \/ RequestFails

Next == Operation \/ CloseLedger \/ Search

Spec == Init /\ [][Next]_vars

-----------------------------------------------------------------------------
\* The feed as HorizonLedger sees it when the page is fetched: a record that
\* is no payment to the account carries nobody's memo.
AsSeen ==
  [i \in 1..seen |->
     [transaction_hash |-> feed[i].transaction_hash,
      memo       |-> IF IsPayment(feed[i]) /\ ToAccount(feed[i])
                     THEN MemoOf[feed[i].transaction_hash] ELSE None,
      created_at |-> feed[i].created_at]]

Ledger == INSTANCE HorizonLedger WITH ledger <- AsSeen

\* The loop with all its awaits answers what HorizonLedger says at the moment
\* of the first GET, whatever the network appends and whatever order of
\* operations the page shows, but for the records whose transaction was
\* misread: the newest other match, with every newer match misread, and none
\* only when every match of the page was.
AnswersAtOnce ==
  LET matches == Ledger!Matches(query.memo, query.since)
  IN  /\ pc = "some" => /\ answer \in matches \ misread
                        /\ \A i \in matches : i > answer => i \in misread
      /\ pc = "none" => matches \subseteq misread

\* crates/stellar/src/payments.rs:6, "A single native-XLM payment operation
\* [...] already filtered down from the raw Horizon payments feed".
FoundIsNative ==
  pc = "some" => feed[answer].kind.asset_type = "native"
=============================================================================
