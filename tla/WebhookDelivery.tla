---------------------------- MODULE WebhookDelivery ----------------------------
(***************************************************************************)
(* The webhook_events table and the delivery loop (crates/webhooks): fetch *)
(* the due events, POST each to the merchant, and record what came of it.  *)
(* run_server starts one loop.  One step is what lies between two awaits;  *)
(* events are enqueued, time passes and the merchant answers in between.   *)
(*                                                                         *)
(* The clock counts minutes and jumps to the next moment an event is due;  *)
(* what happens between two such moments happens at the first.  The        *)
(* payload, its signature and the HTTP headers are left out.               *)
(***************************************************************************)
EXTENDS Naturals, Sequences, FiniteSets

CONSTANTS
  EventIds,
  Deliverers,        \* delivery loops
  FetchBatchSize,    \* FETCH_BATCH_SIZE, 50 in the code
  BackoffSchedule,   \* minutes between attempts; BACKOFF_SCHEDULE in the code
  None

ASSUME DeliveryAssumption ==
  /\ IsFiniteSet(EventIds)
  /\ BackoffSchedule \in Seq(Nat \ {0})
  /\ FetchBatchSize \in Nat \ {0}
  /\ None \notin Nat

\* 1m, 5m, 15m, 1h, 6h
BACKOFF_SCHEDULE == <<1, 5, 15, 60, 360>>

VARIABLES
  events,     \* id |-> row of webhook_events; status "absent" before it exists
  pc,         \* d |-> where the loop is
  todo,       \* d |-> the rows of its batch it has yet to deliver
  cur,        \* d |-> the row being delivered, or None
  now,        \* Utc::now(), in minutes
  received,   \* history: the events the merchant has accepted
  tries,      \* history: id |-> POSTs that did not end in a 2xx, capped
  failedAt    \* history: id |-> when the last failure was recorded, or None

loopVars    == <<pc, todo, cur>>
historyVars == <<received, tries, failedAt>>
vars == <<events, loopVars, now, historyVars>>

\* The first attempt and its retries; also the cap of the history `tries`.
MaxTries == Len(BackoffSchedule) + 1

Row == [id : EventIds, status : {"absent", "pending", "delivered", "failed"},
        attempts : 0..MaxTries, next_attempt_at : Nat \union {None}]

\* The types, and a row that waits for an attempt exactly while it is pending:
\* fetch_due could not find it otherwise.
DeliveryTypeOK ==
  /\ events \in [EventIds -> Row]
  /\ \A e \in EventIds :
       events[e].status = "pending" <=> events[e].next_attempt_at # None
  /\ pc \in [Deliverers -> {"idle", "batch", "post", "accepted", "refused"}]
  /\ todo \in [Deliverers -> SUBSET Row]
  /\ cur \in [Deliverers -> Row \union {None}]
  /\ now \in Nat
  /\ received \subseteq EventIds
  /\ tries \in [EventIds -> 0..MaxTries]
  /\ failedAt \in [EventIds -> Nat \union {None}]

Init ==
  /\ events = [e \in EventIds |-> [id |-> e, status |-> "absent", attempts |-> 0,
                                   next_attempt_at |-> None]]
  /\ pc = [d \in Deliverers |-> "idle"]
  /\ todo = [d \in Deliverers |-> {}]
  /\ cur = [d \in Deliverers |-> None]
  /\ now = 0
  /\ received = {}
  /\ tries = [e \in EventIds |-> 0]
  /\ failedAt = [e \in EventIds |-> None]

-----------------------------------------------------------------------------
\* Mutants of NextBackoff: one retry too few; the last pause for ever.
NextBackoff_Short(attempts) ==
  IF attempts < Len(BackoffSchedule) THEN BackoffSchedule[attempts] ELSE None
NextBackoff_Endless(attempts) ==
  BackoffSchedule[IF attempts <= Len(BackoffSchedule) THEN attempts ELSE Len(BackoffSchedule)]

\* next_backoff, called with attempts + 1 and so never with 0.
NextBackoff(attempts) ==
  IF attempts <= Len(BackoffSchedule) THEN BackoffSchedule[attempts] ELSE None

\* enqueue: the first attempt is due at once.
Enqueue(e) ==
  /\ events[e].status = "absent"
  /\ events' = [events EXCEPT ![e].status = "pending", ![e].next_attempt_at = now]
  /\ UNCHANGED <<loopVars, now, historyVars>>

DueTimes == {events[e].next_attempt_at : e \in EventIds} \ {None}

\* Time passes, to the next moment at which an event is due.
Tick ==
  /\ \E t \in DueTimes : /\ t > now
                         /\ \A u \in DueTimes : u > now => t <= u
                         /\ now' = t
  /\ UNCHANGED <<events, loopVars, historyVars>>

-----------------------------------------------------------------------------
\* The delivery pass.

\* Mutant of Due: the moment of the next attempt is not looked at.
Due_AnyTime == {events[e] : e \in {f \in EventIds : events[f].status = "pending"}}

\* status = 'pending' AND next_attempt_at <= $1, which a NULL is not.
Due == {events[e] : e \in {f \in EventIds : /\ events[f].status = "pending"
                                            /\ events[f].next_attempt_at # None
                                            /\ events[f].next_attempt_at <= now}}

\* fetch_due: the rows that have waited longest, as many as the batch holds.
FetchDue(d) ==
  /\ pc[d] = "idle"
  /\ \E batch \in SUBSET Due :
       /\ Cardinality(batch) <= FetchBatchSize
       /\ Cardinality(batch) < FetchBatchSize => batch = Due
       /\ \A row \in batch, other \in Due \ batch :
             row.next_attempt_at <= other.next_attempt_at
       /\ todo' = [todo EXCEPT ![d] = batch]
  /\ pc' = [pc EXCEPT ![d] = "batch"]
  /\ UNCHANGED <<events, cur, now, historyVars>>

\* Mutant of Take: the row stays in the batch.
Take_KeepsRow(d) ==
  /\ pc[d] = "batch"
  /\ \E row \in todo[d] : cur' = [cur EXCEPT ![d] = row]
  /\ pc' = [pc EXCEPT ![d] = "post"]
  /\ UNCHANGED <<events, todo, now, historyVars>>

\* The next row of the batch.
Take(d) ==
  /\ pc[d] = "batch"
  /\ \E row \in todo[d] :
       /\ \A other \in todo[d] : row.next_attempt_at <= other.next_attempt_at
       /\ cur' = [cur EXCEPT ![d] = row]
       /\ todo' = [todo EXCEPT ![d] = @ \ {row}]
  /\ pc' = [pc EXCEPT ![d] = "post"]
  /\ UNCHANGED <<events, now, historyVars>>

EndBatch(d) ==
  /\ pc[d] = "batch" /\ todo[d] = {}
  /\ pc' = [pc EXCEPT ![d] = "idle"]
  /\ UNCHANGED <<events, todo, cur, now, historyVars>>

\* Mutant of Delivered: any response will do.
Delivered_AnyStatus(accepted, answered) == answered

\* matches!(&result, Ok(response) if response.status().is_success())
Delivered(accepted, answered) == accepted /\ answered

\* The merchant accepts the event or does not, and its answer arrives or not.
Post(d) ==
  /\ pc[d] = "post"
  /\ \E accepted, answered \in BOOLEAN :
       LET delivered == Delivered(accepted, answered)
           e == cur[d].id
       IN /\ received' = IF accepted THEN received \union {e} ELSE received
          /\ tries' = IF delivered \/ tries[e] = MaxTries THEN tries
                      ELSE [tries EXCEPT ![e] = @ + 1]
          /\ pc' = [pc EXCEPT ![d] = IF delivered THEN "accepted" ELSE "refused"]
  /\ UNCHANGED <<events, todo, cur, now, failedAt>>

\* Back to the batch, whether or not the outcome could be recorded.
NextInBatch(d) ==
  /\ pc' = [pc EXCEPT ![d] = "batch"]
  /\ cur' = [cur EXCEPT ![d] = None]
  /\ UNCHANGED todo

MarkDelivered(d) ==
  /\ pc[d] = "accepted"
  /\ events' = [events EXCEPT ![cur[d].id].status = "delivered",
                              ![cur[d].id].next_attempt_at = None]
  /\ NextInBatch(d)
  /\ UNCHANGED <<now, historyVars>>

\* Mutant of AfterFailure: a spent event keeps its status.
AfterFailure_NeverFailed(row, next) ==
  [row EXCEPT !.attempts = @ + 1,
              !.next_attempt_at = IF next = None THEN None ELSE now + next]

\* SET status = $1, attempts = attempts + 1, next_attempt_at = $2
AfterFailure(row, next) ==
  [row EXCEPT !.status = IF next = None THEN "failed" ELSE "pending",
              !.attempts = @ + 1,
              !.next_attempt_at = IF next = None THEN None ELSE now + next]

\* mark_failed.  The next attempt is computed from the clone's counter.
MarkFailed(d) ==
  /\ pc[d] = "refused"
  /\ LET e == cur[d].id IN
       /\ events' = [events EXCEPT ![e] = AfterFailure(@, NextBackoff(cur[d].attempts + 1))]
       /\ failedAt' = [failedAt EXCEPT ![e] = now]
  /\ NextInBatch(d)
  /\ UNCHANGED <<now, received, tries>>

\* The database refuses mark_delivered or mark_failed: logged and forgotten.
MarkLost(d) ==
  /\ pc[d] \in {"accepted", "refused"}
  /\ NextInBatch(d)
  /\ UNCHANGED <<events, now, historyVars>>

\* The process dies at any await and is started again.
Crash(d) ==
  /\ pc[d] # "idle"
  /\ pc' = [pc EXCEPT ![d] = "idle"]
  /\ todo' = [todo EXCEPT ![d] = {}]
  /\ cur' = [cur EXCEPT ![d] = None]
  /\ UNCHANGED <<events, now, historyVars>>

-----------------------------------------------------------------------------
Advance(d) ==
  \/ FetchDue(d) \/ Take(d) \/ EndBatch(d)
  \/ Post(d) \/ MarkDelivered(d) \/ MarkFailed(d)

Outage(d) == MarkLost(d) \/ Crash(d)

SteadyNext ==
  \/ \E e \in EventIds : Enqueue(e)
  \/ Tick
  \/ \E d \in Deliverers : Advance(d)

Next == SteadyNext \/ \E d \in Deliverers : Outage(d)

Spec == Init /\ [][Next]_vars

\* run_delivery_loop ticks for ever and every call of the database returns;
\* time passes; the database and the process are up from some point on.
\* Nothing is assumed of the merchant: a POST may never return, for the client
\* is built without a timeout.
FairSpec == /\ Spec
            /\ WF_vars(Tick)
            /\ \A d \in Deliverers : WF_vars(pc[d] # "post" /\ Advance(d))
            /\ <>[][SteadyNext]_vars

-----------------------------------------------------------------------------
\* An event shown as delivered was accepted by the merchant, although the row
\* is written one await after the answer and from a clone.
DeliveredWasReceived ==
  \A e \in EventIds : events[e].status = "delivered" => e \in received

\* An event is given up only after the first attempt and all five retries
\* have really been made and have failed (docs/api.md:154).
FailedAfterAllTries ==
  \A e \in EventIds :
     /\ events[e].status = "failed" => tries[e] = MaxTries
     /\ events[e].attempts <= tries[e]

\* With one loop no POST is made for an event that is over, and none before
\* the pause that follows the failure recorded last, whatever crashed since.
PostsAreDue ==
  \A d \in Deliverers :
     pc[d] = "post" =>
       LET e == cur[d].id IN
       /\ events[e].status = "pending"
       /\ events[e].attempts > 0 =>
             now >= failedAt[e] + BackoffSchedule[events[e].attempts]

\* What is over stays over.
FinalIsFinal ==
  [][\A e \in EventIds :
       events[e].status \in {"delivered", "failed"} => events'[e] = events[e]]_vars

\* The loop, its clones and its lost updates keep the promise of WebhookOutbox.
Outbox == INSTANCE WebhookOutbox WITH
  MaxTries <- MaxTries,
  status   <- [e \in EventIds |-> events[e].status],
  accepted <- received,
  refusals <- tries
ImplementsOutbox == Outbox!OutboxSpec

\* No POST lasts for ever: the merchant answers, or the connection ends.
PostsReturn == \A d \in Deliverers : []<>(pc[d] # "post")

\* As long as POSTs return, with an answer or without, every event is delivered
\* or given up in the end, although the batch holds fewer events than are due
\* and the process crashed while one was being delivered.  The premise is the
\* code's: a merchant that accepts a connection and stays silent holds up the
\* loop, and all events with it.
EventEnds ==
  PostsReturn =>
    \A e \in EventIds :
       events[e].status = "pending" ~> events[e].status \in {"delivered", "failed"}
=============================================================================
