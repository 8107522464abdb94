------------------------------- MODULE Outbox -------------------------------
(***************************************************************************)
(* The transactional outbox (backend/app/jobs): requests insert PENDING rows *)
(* and worker processes claim, send and mark them.  A worker claims a batch,  *)
(* sends it message by message and commits every mark at the end, so a        *)
(* worker that stops in between forgets what it has already sent.             *)
(***************************************************************************)
EXTENDS Naturals, FiniteSets

CONSTANTS
    Messages,     \* ids an outbox row may take
    Workers,      \* worker processes, and requests of POST /outbox/run
    MaxAttempts,  \* MAX_ATTEMPTS
    BatchLimit,   \* the limit of claim_batch
    MaxCrashes    \* bound: transactions of workers that are rolled back

ASSUME OutboxAssumption ==
    /\ IsFiniteSet(Messages)
    /\ MaxAttempts \in Nat \ {0}
    /\ BatchLimit \in Nat \ {0}
    /\ MaxCrashes \in Nat

VARIABLES
    row,        \* [Messages -> RowStates]: OutboxMessage.status
    attempts,   \* [Messages -> Nat]: OutboxMessage.attempts
    batch,      \* [Workers -> SUBSET Messages]: rows a worker has claimed,
                \* locked until its transaction ends
    sent,       \* [Workers -> SUBSET Messages]: marked SENT, not committed
    bounced,    \* [Workers -> SUBSET Messages]: marked failed, not committed
    delivered,  \* history: [Messages -> Nat], deliveries to the recipient
    lost,       \* history: [Messages -> Nat], deliveries no commit records
    crashes     \* history: Nat, rolled back batches

rowVars == <<row, attempts>>
batchVars == <<batch, sent, bounced>>
outboxVars == <<rowVars, batchVars, delivered, lost, crashes>>

RowStates == {"ABSENT", "PENDING", "SENT", "FAILED"}

(* Rows, batches and counters have their types.                             *)
OutboxTypeOK ==
    /\ row \in [Messages -> RowStates]
    /\ attempts \in [Messages -> Nat]
    /\ batch \in [Workers -> SUBSET Messages]
    /\ sent \in [Workers -> SUBSET Messages]
    /\ bounced \in [Workers -> SUBSET Messages]
    /\ delivered \in [Messages -> Nat]
    /\ lost \in [Messages -> Nat]
    /\ crashes \in Nat

-----------------------------------------------------------------------------
OutboxInit ==
    /\ row = [m \in Messages |-> "ABSENT"]
    /\ attempts = [m \in Messages |-> 0]
    /\ batch = [w \in Workers |-> {}]
    /\ sent = [w \in Workers |-> {}]
    /\ bounced = [w \in Workers |-> {}]
    /\ delivered = [m \in Messages |-> 0]
    /\ lost = [m \in Messages |-> 0]
    /\ crashes = 0

\* enqueue_email: new rows, committed with the event that produced them.
Enqueue(ms) ==
    /\ \A m \in ms : row[m] = "ABSENT"
    /\ row' = [m \in Messages |-> IF m \in ms THEN "PENDING" ELSE row[m]]
    /\ UNCHANGED <<attempts, batchVars, delivered, lost, crashes>>

\* Mutant: the rows are read without FOR UPDATE SKIP LOCKED.
Unlocked_Any == {m \in Messages : row[m] = "PENDING"}

\* The rows a SELECT ... FOR UPDATE SKIP LOCKED returns.
Unlocked == {m \in Messages : row[m] = "PENDING" /\ \A w \in Workers : m \notin batch[w]}

\* claim_batch.  A sweep may pass over a row that another worker held a moment
\* ago, so a batch need not hold all it could; the rows are ordered by
\* created_at, the start of the transaction that inserted them, which says
\* nothing of the order they were committed in.
Claim(w) ==
    /\ batch[w] = {}
    /\ \E ms \in (SUBSET Unlocked) \ {{}} :
          /\ Cardinality(ms) <= BatchLimit
          /\ batch' = [batch EXCEPT ![w] = ms]
    /\ UNCHANGED <<rowVars, sent, bounced, delivered, lost, crashes>>

Unsent(w) == batch[w] \ (sent[w] \cup bounced[w])

\* send_email answers, and mark_sent.
Deliver(w, m) ==
    /\ m \in Unsent(w)
    /\ delivered' = [delivered EXCEPT ![m] = @ + 1]
    /\ sent' = [sent EXCEPT ![w] = @ \cup {m}]
    /\ UNCHANGED <<rowVars, batch, bounced, lost, crashes>>

\* send_email raises, and mark_failed.  The server may have taken the message
\* all the same: a timeout or a failed QUIT looks like a refusal.
Bounce(w, m) ==
    /\ m \in Unsent(w)
    /\ bounced' = [bounced EXCEPT ![w] = @ \cup {m}]
    /\ \E accepted \in {0, 1} :
          /\ delivered' = [delivered EXCEPT ![m] = @ + accepted]
          /\ lost' = [lost EXCEPT ![m] = @ + accepted]
    /\ UNCHANGED <<rowVars, batch, sent, crashes>>

Release(w) ==
    /\ batch' = [batch EXCEPT ![w] = {}]
    /\ sent' = [sent EXCEPT ![w] = {}]
    /\ bounced' = [bounced EXCEPT ![w] = {}]

\* Mutants: one attempt too many; an attempt is not counted.
Exhausted_Late(m) == attempts[m] + 1 > MaxAttempts
\* The cap of mark_failed, with the attempt it has just counted.
Exhausted(m) == attempts[m] + 1 >= MaxAttempts

\* The rows whose attempts a batch has counted.
Tried(w) == sent[w] \cup bounced[w]

\* The commit of run_once.
Record(w) ==
    /\ batch[w] # {}
    /\ Unsent(w) = {}
    /\ row' = [m \in Messages |->
                  IF m \in sent[w] THEN "SENT"
                  ELSE IF m \in bounced[w] /\ Exhausted(m) THEN "FAILED"
                  ELSE row[m]]
    /\ attempts' = [m \in Messages |->
                       IF m \in Tried(w) THEN attempts[m] + 1 ELSE attempts[m]]
    /\ Release(w)
    /\ UNCHANGED <<delivered, lost, crashes>>

\* The worker stops, or a statement or the commit fails: the whole batch rolls
\* back, with the marks of what was sent.
Crash(w) ==
    /\ crashes < MaxCrashes
    /\ batch[w] # {}
    /\ crashes' = crashes + 1
    /\ lost' = [m \in Messages |-> IF m \in sent[w] THEN lost[m] + 1 ELSE lost[m]]
    /\ Release(w)
    /\ UNCHANGED <<rowVars, delivered>>

SendOne(w) == \E m \in Messages : Deliver(w, m) \/ Bounce(w, m)

WorkerStep(w) == Claim(w) \/ SendOne(w) \/ Record(w)

OutboxNext ==
    \/ \E ms \in (SUBSET Messages) \ {{}} : Enqueue(ms)
    \/ \E w \in Workers : WorkerStep(w) \/ Crash(w)

OutboxSpec == OutboxInit /\ [][OutboxNext]_outboxVars

\* run_forever polls for ever, a send ends after its timeout, and SKIP LOCKED
\* never waits.  SMTP need never accept anything.
FairOutboxSpec == OutboxSpec /\ \A w \in Workers : WF_outboxVars(WorkerStep(w))

-----------------------------------------------------------------------------
(* Properties.                                                             *)

Recorded(m) == row[m] = "SENT" \/ \E w \in Workers : m \in sent[w]

(* Each delivery is the one a SENT mark records, or one whose mark was lost *)
(* to a crash or to an SMTP error: two workers never send the same claim.   *)
(* (claim_batch, SKIP LOCKED)                                               *)
EveryDeliveryAccounted ==
    \A m \in Messages : delivered[m] = lost[m] + (IF Recorded(m) THEN 1 ELSE 0)

(* A message gives up after exactly MAX_ATTEMPTS recorded failures; until    *)
(* then it is due again.  (mark_failed)                                      *)
RetriesBounded ==
    \A m \in Messages :
        /\ attempts[m] <= MaxAttempts
        /\ row[m] = "FAILED" => attempts[m] = MaxAttempts
        /\ row[m] = "PENDING" => attempts[m] < MaxAttempts

(* What the outbox records adds up: rows and counters have their types, no   *)
(* delivery is recorded twice and none is given up early (jobs/service.py). *)
DeliveriesAddUp == OutboxTypeOK /\ EveryDeliveryAccounted /\ RetriesBounded

(* Every queued message ends SENT, or FAILED for a human to look at: never  *)
(* silently dropped, never retried for ever.  (MAX_ATTEMPTS)                 *)
EveryMessageSettles ==
    \A m \in Messages : row[m] = "PENDING" ~> row[m] \in {"SENT", "FAILED"}

=============================================================================
