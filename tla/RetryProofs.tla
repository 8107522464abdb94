----------------------------- MODULE RetryProofs -----------------------------
(***************************************************************************)
(* What is tried again after a failure: the mails of the outbox, the        *)
(* evaluations that queue them, and the returns of the two return screens.   *)
(* First the safety of the outbox for any number of messages, workers and    *)
(* crashes: the inductive invariant adds to the properties what the row      *)
(* locks of claim_batch mean, that a claimed row is pending and claimed by   *)
(* one worker.  Then deduplication for any number of rules' subjects,        *)
(* incidents and concurrent evaluations, and the proof that evaluations use  *)
(* the outbox as Outbox.tla says: they queue a mail for an incident at most  *)
(* once.  Then the returns, for any sales, lines and supervisors: a list     *)
(* that was sent is the one the attempt remembers as long as it can be sent  *)
(* again, so it has one key, and a key registers one return.  Then the      *)
(* closing of the day, for any browsers, tills and warehouses: what a closing *)
(* has counted stays true until its commit, because it holds the cut, and the *)
(* Z of an attempt is found by the key its dialog keeps.  Last the pictures, *)
(* put again and fetched again from addresses that browsers keep: no list is *)
(* ahead of the version that is stored.                                     *)
(***************************************************************************)
EXTENDS Alerts, Refunds, TillClosing, Pictures, SumFacts, SequenceTheorems

-----------------------------------------------------------------------------
(* The outbox *)


ClaimsArePending == \A w \in Workers : \A m \in batch[w] : row[m] = "PENDING"

ClaimsAreExclusive ==
    \A v, w \in Workers : \A m \in Messages : m \in batch[v] /\ m \in batch[w] => v = w

MarksAreClaimed ==
    \A w \in Workers : /\ sent[w] \subseteq batch[w]
                       /\ bounced[w] \subseteq batch[w]
                       /\ \A m \in sent[w] : m \notin bounced[w]

AbsentUntried == \A m \in Messages : row[m] = "ABSENT" => attempts[m] = 0

OutboxInv ==
    /\ OutboxTypeOK
    /\ ClaimsArePending
    /\ ClaimsAreExclusive
    /\ MarksAreClaimed
    /\ AbsentUntried
    /\ EveryDeliveryAccounted
    /\ RetriesBounded

-----------------------------------------------------------------------------
LEMMA OutboxInitInv == OutboxInit => OutboxInv
<1> SUFFICES ASSUME OutboxInit PROVE OutboxInv
  OBVIOUS
<1>1. OutboxTypeOK
  BY DEF OutboxInit, OutboxTypeOK, RowStates
<1>2. ClaimsArePending /\ ClaimsAreExclusive /\ MarksAreClaimed
  BY DEF OutboxInit, ClaimsArePending, ClaimsAreExclusive, MarksAreClaimed
<1>3. EveryDeliveryAccounted
  BY DEF OutboxInit, EveryDeliveryAccounted, Recorded
<1>4. AbsentUntried /\ RetriesBounded
  BY OutboxAssumption DEF OutboxInit, AbsentUntried, RetriesBounded
<1>5. QED
  BY <1>1, <1>2, <1>3, <1>4 DEF OutboxInv

(* New rows are nobody's yet.  The set may be empty.                        *)
LEMMA QueueKeepsInv ==
    ASSUME OutboxInv, NEW ms, \A m \in ms : row[m] = "ABSENT",
           row' = [m \in Messages |-> IF m \in ms THEN "PENDING" ELSE row[m]],
           UNCHANGED <<attempts, batchVars, delivered, lost, crashes>>
    PROVE  OutboxInv'
<1>1. OutboxTypeOK'
  BY DEF OutboxInv, OutboxTypeOK, RowStates, batchVars
<1>2. \A w \in Workers : batch[w] \subseteq Messages
  BY DEF OutboxInv, OutboxTypeOK
<1>3. ClaimsArePending' /\ ClaimsAreExclusive' /\ MarksAreClaimed'
  BY <1>2 DEF OutboxInv, ClaimsArePending, ClaimsAreExclusive, MarksAreClaimed, batchVars
<1>4. EveryDeliveryAccounted'
  BY DEF OutboxInv, EveryDeliveryAccounted, Recorded, batchVars
<1>5. AbsentUntried' /\ RetriesBounded'
  BY OutboxAssumption DEF OutboxInv, AbsentUntried, RetriesBounded
<1>6. QED
  BY <1>1, <1>3, <1>4, <1>5 DEF OutboxInv

LEMMA ClaimKeepsInv ==
    ASSUME OutboxInv, NEW w \in Workers, Claim(w)
    PROVE  OutboxInv'
<1>1. PICK ms \in SUBSET Unlocked : batch' = [batch EXCEPT ![w] = ms]
  BY DEF Claim
<1>2. UNCHANGED <<row, attempts, sent, bounced, delivered, lost, crashes>> /\ batch[w] = {}
  BY DEF Claim, rowVars
<1>3. ms \subseteq Messages
  BY <1>1 DEF Unlocked
<1>4. OutboxTypeOK'
  BY <1>1, <1>2, <1>3 DEF OutboxInv, OutboxTypeOK
<1>5. ClaimsArePending' /\ ClaimsAreExclusive'
  BY <1>1, <1>2
     DEF OutboxInv, OutboxTypeOK, ClaimsArePending, ClaimsAreExclusive, Unlocked
<1>6. MarksAreClaimed'
  BY <1>1, <1>2 DEF OutboxInv, OutboxTypeOK, MarksAreClaimed
<1>7. EveryDeliveryAccounted' /\ AbsentUntried' /\ RetriesBounded'
  BY <1>2 DEF OutboxInv, EveryDeliveryAccounted, Recorded, AbsentUntried, RetriesBounded
<1>8. QED
  BY <1>4, <1>5, <1>6, <1>7 DEF OutboxInv

LEMMA DeliverKeepsInv ==
    ASSUME OutboxInv, NEW w \in Workers, NEW m \in Messages, Deliver(w, m)
    PROVE  OutboxInv'
<1>1. /\ m \in batch[w] /\ m \notin sent[w] /\ m \notin bounced[w]
      /\ delivered' = [delivered EXCEPT ![m] = @ + 1]
      /\ sent' = [sent EXCEPT ![w] = @ \cup {m}]
      /\ UNCHANGED <<row, attempts, batch, bounced, lost, crashes>>
  BY DEF Deliver, Unsent, rowVars
<1>2. OutboxTypeOK'
  BY <1>1 DEF OutboxInv, OutboxTypeOK
<1>3. ClaimsArePending' /\ ClaimsAreExclusive' /\ AbsentUntried' /\ RetriesBounded'
  BY <1>1
     DEF OutboxInv, ClaimsArePending, ClaimsAreExclusive, AbsentUntried, RetriesBounded
<1>4. MarksAreClaimed'
  BY <1>1 DEF OutboxInv, OutboxTypeOK, MarksAreClaimed
<1>5. EveryDeliveryAccounted'
  <2>1. ~Recorded(m) /\ Recorded(m)'
    <3>1. \A v \in Workers : m \notin sent[v]
      BY <1>1 DEF OutboxInv, MarksAreClaimed, ClaimsAreExclusive
    <3>2. row[m] = "PENDING"
      BY <1>1 DEF OutboxInv, ClaimsArePending
    <3>3. m \in sent'[w]
      BY <1>1 DEF OutboxInv, OutboxTypeOK
    <3>4. QED
      BY <3>1, <3>2, <3>3 DEF Recorded
  <2>2. \A n \in Messages \ {m} : Recorded(n)' = Recorded(n)
    <3>1. \A v \in Workers, n \in Messages \ {m} : n \in sent'[v] <=> n \in sent[v]
      BY <1>1 DEF OutboxInv, OutboxTypeOK
    <3>2. QED
      BY <1>1, <3>1 DEF Recorded
  <2>3. /\ delivered[m] \in Nat /\ lost[m] \in Nat /\ delivered'[m] = delivered[m] + 1
        /\ \A n \in Messages \ {m} : delivered'[n] = delivered[n]
    BY <1>1 DEF OutboxInv, OutboxTypeOK
  <2>4. QED
    BY <1>1, <2>1, <2>2, <2>3 DEF OutboxInv, EveryDeliveryAccounted
<1>6. QED
  BY <1>2, <1>3, <1>4, <1>5 DEF OutboxInv

LEMMA BounceKeepsInv ==
    ASSUME OutboxInv, NEW w \in Workers, NEW m \in Messages, Bounce(w, m)
    PROVE  OutboxInv'
<1>1. /\ m \in batch[w] /\ m \notin sent[w]
      /\ bounced' = [bounced EXCEPT ![w] = @ \cup {m}]
      /\ UNCHANGED <<row, attempts, batch, sent, crashes>>
  BY DEF Bounce, Unsent, rowVars
<1>2. PICK accepted \in {0, 1} : /\ delivered' = [delivered EXCEPT ![m] = @ + accepted]
                                 /\ lost' = [lost EXCEPT ![m] = @ + accepted]
  BY DEF Bounce
<1>3. OutboxTypeOK'
  BY <1>1, <1>2 DEF OutboxInv, OutboxTypeOK
<1>4. ClaimsArePending' /\ ClaimsAreExclusive' /\ AbsentUntried' /\ RetriesBounded'
  BY <1>1
     DEF OutboxInv, ClaimsArePending, ClaimsAreExclusive, AbsentUntried, RetriesBounded
<1>5. MarksAreClaimed'
  BY <1>1 DEF OutboxInv, OutboxTypeOK, MarksAreClaimed
<1>6. EveryDeliveryAccounted'
  <2>1. \A n \in Messages : Recorded(n)' = Recorded(n)
    BY <1>1 DEF Recorded
  <2>2. /\ delivered \in [Messages -> Nat] /\ lost \in [Messages -> Nat] /\ accepted \in Nat
    BY DEF OutboxInv, OutboxTypeOK
  <2>3. QED
    BY <1>2, <2>1, <2>2 DEF OutboxInv, EveryDeliveryAccounted
<1>7. QED
  BY <1>3, <1>4, <1>5, <1>6 DEF OutboxInv

(* The locks of a batch are released, whatever became of it.                *)
LEMMA ReleaseKeepsClaims ==
    ASSUME OutboxInv, NEW w \in Workers, Release(w),
           \A n \in Messages : n \notin batch[w] => row'[n] = row[n]
    PROVE  ClaimsArePending' /\ ClaimsAreExclusive' /\ MarksAreClaimed'
<1>1. /\ batch \in [Workers -> SUBSET Messages]
      /\ sent \in [Workers -> SUBSET Messages]
      /\ bounced \in [Workers -> SUBSET Messages]
  BY DEF OutboxInv, OutboxTypeOK
<1>2. /\ batch'[w] = {} /\ sent'[w] = {} /\ bounced'[w] = {}
      /\ \A v \in Workers \ {w} : /\ batch'[v] = batch[v]
                                  /\ sent'[v] = sent[v]
                                  /\ bounced'[v] = bounced[v]
  BY <1>1 DEF Release
<1>3. ClaimsArePending'
  BY <1>1, <1>2 DEF OutboxInv, ClaimsArePending, ClaimsAreExclusive
<1>4. QED
  BY <1>2, <1>3 DEF OutboxInv, ClaimsAreExclusive, MarksAreClaimed

LEMMA ReleaseTypes ==
    ASSUME OutboxInv, NEW w \in Workers, Release(w)
    PROVE  /\ batch' \in [Workers -> SUBSET Messages]
           /\ sent' \in [Workers -> SUBSET Messages]
           /\ bounced' \in [Workers -> SUBSET Messages]
BY DEF OutboxInv, OutboxTypeOK, Release

(* A commit turns the marks of the batch into rows.                         *)
LEMMA RecordKeepsInv ==
    ASSUME OutboxInv, NEW w \in Workers, Record(w)
    PROVE  OutboxInv'
<1>1. /\ Release(w)
      /\ UNCHANGED <<delivered, lost, crashes>>
      /\ \A n \in Messages : row'[n] = IF n \in sent[w] THEN "SENT"
                                       ELSE IF n \in bounced[w] /\ Exhausted(n) THEN "FAILED"
                                       ELSE row[n]
      /\ \A n \in Messages :
            attempts'[n] = IF n \in Tried(w) THEN attempts[n] + 1 ELSE attempts[n]
  BY DEF Record
<1>2. sent[w] \subseteq batch[w] /\ bounced[w] \subseteq batch[w]
  BY DEF OutboxInv, MarksAreClaimed
<1>3. OutboxTypeOK'
  <2>1. row' \in [Messages -> RowStates] /\ attempts' \in [Messages -> Nat]
    BY DEF Record, OutboxInv, OutboxTypeOK, RowStates
  <2>2. QED
    BY <1>1, <2>1, ReleaseTypes DEF OutboxInv, OutboxTypeOK
<1>4. ClaimsArePending' /\ ClaimsAreExclusive' /\ MarksAreClaimed'
  BY <1>1, <1>2, ReleaseKeepsClaims
<1>5. \A n \in batch[w] : row[n] = "PENDING" /\ n \in Messages
  BY DEF OutboxInv, OutboxTypeOK, ClaimsArePending
<1>6. EveryDeliveryAccounted'
  <2>1. \A n \in Messages : Recorded(n)' = Recorded(n)
    <3> SUFFICES ASSUME NEW n \in Messages PROVE Recorded(n)' = Recorded(n)
      OBVIOUS
    <3>1. /\ sent'[w] = {}
          /\ \A v \in Workers \ {w} : sent'[v] = sent[v]
      BY <1>1 DEF Release, OutboxInv, OutboxTypeOK
    <3>2. CASE n \in sent[w]
      BY <1>1, <3>2 DEF Recorded
    <3>3. CASE n \notin sent[w]
      <4>1. row'[n] = "SENT" <=> row[n] = "SENT"
        BY <1>1, <1>2, <1>5, <3>3
      <4>2. QED
        BY <3>1, <3>3, <4>1 DEF Recorded
    <3>4. QED
      BY <3>2, <3>3
  <2>2. QED
    BY <1>1, <2>1 DEF OutboxInv, EveryDeliveryAccounted
<1>7. AbsentUntried' /\ RetriesBounded'
  <2> SUFFICES ASSUME NEW n \in Messages
               PROVE  /\ row'[n] = "ABSENT" => attempts'[n] = 0
                      /\ attempts'[n] <= MaxAttempts
                      /\ row'[n] = "FAILED" => attempts'[n] = MaxAttempts
                      /\ row'[n] = "PENDING" => attempts'[n] < MaxAttempts
    BY DEF AbsentUntried, RetriesBounded
  <2>1. /\ attempts[n] \in Nat /\ MaxAttempts \in Nat
        /\ row[n] = "ABSENT" => attempts[n] = 0
        /\ attempts[n] <= MaxAttempts
        /\ row[n] = "FAILED" => attempts[n] = MaxAttempts
        /\ row[n] = "PENDING" => attempts[n] < MaxAttempts
    BY OutboxAssumption DEF OutboxInv, OutboxTypeOK, AbsentUntried, RetriesBounded
  <2>2. CASE n \in Tried(w)
    <3>1. row[n] = "PENDING" /\ attempts'[n] = attempts[n] + 1
      BY <1>1, <1>2, <1>5, <2>2 DEF Tried
    <3>2. row'[n] \in {"SENT", "FAILED", "PENDING"}
      BY <1>1, <3>1
    <3>3. row'[n] = "FAILED" => attempts[n] + 1 >= MaxAttempts
      BY <1>1, <3>1 DEF Exhausted
    <3>4. row'[n] = "PENDING" => attempts[n] + 1 < MaxAttempts
      BY <1>1, <2>1, <2>2, <3>1 DEF Exhausted, Tried
    <3>5. QED
      BY <2>1, <3>1, <3>2, <3>3, <3>4
  <2>3. CASE n \notin Tried(w)
    BY <1>1, <2>1, <2>3 DEF Tried
  <2>4. QED
    BY <2>2, <2>3
<1>8. QED
  BY <1>3, <1>4, <1>6, <1>7 DEF OutboxInv

(* A crash forgets the marks, and with them which deliveries were theirs.    *)
LEMMA CrashKeepsInv ==
    ASSUME OutboxInv, NEW w \in Workers, Crash(w)
    PROVE  OutboxInv'
<1>1. /\ Release(w)
      /\ UNCHANGED <<row, attempts, delivered>>
      /\ crashes' = crashes + 1
      /\ lost' = [n \in Messages |-> IF n \in sent[w] THEN lost[n] + 1 ELSE lost[n]]
  BY DEF Crash, rowVars
<1>2. OutboxTypeOK'
  BY <1>1, ReleaseTypes DEF OutboxInv, OutboxTypeOK
<1>3. ClaimsArePending' /\ ClaimsAreExclusive' /\ MarksAreClaimed'
  BY <1>1, ReleaseKeepsClaims
<1>4. EveryDeliveryAccounted'
  <2> SUFFICES ASSUME NEW n \in Messages
               PROVE  delivered'[n] = lost'[n] + (IF Recorded(n)' THEN 1 ELSE 0)
    BY DEF EveryDeliveryAccounted
  <2>1. /\ delivered[n] = lost[n] + (IF Recorded(n) THEN 1 ELSE 0)
        /\ delivered[n] \in Nat /\ lost[n] \in Nat
    BY DEF OutboxInv, OutboxTypeOK, EveryDeliveryAccounted
  <2>2. /\ sent'[w] = {}
        /\ \A v \in Workers \ {w} : sent'[v] = sent[v]
    BY <1>1 DEF Release, OutboxInv, OutboxTypeOK
  <2>3. CASE n \in sent[w]
    <3>1. row[n] = "PENDING" /\ \A v \in Workers \ {w} : n \notin sent[v]
      BY <2>3 DEF OutboxInv, MarksAreClaimed, ClaimsArePending, ClaimsAreExclusive
    <3>2. Recorded(n) /\ ~Recorded(n)'
      BY <1>1, <2>2, <2>3, <3>1 DEF Recorded
    <3>3. QED
      BY <1>1, <2>1, <2>3, <3>2
  <2>4. CASE n \notin sent[w]
    <3>1. Recorded(n)' = Recorded(n)
      BY <1>1, <2>2, <2>4 DEF Recorded
    <3>2. QED
      BY <1>1, <2>1, <2>4, <3>1
  <2>5. QED
    BY <2>3, <2>4
<1>5. AbsentUntried' /\ RetriesBounded'
  BY <1>1 DEF OutboxInv, AbsentUntried, RetriesBounded
<1>6. QED
  BY <1>2, <1>3, <1>4, <1>5 DEF OutboxInv

LEMMA WorkerKeepsInv ==
    ASSUME OutboxInv, NEW w \in Workers, WorkerStep(w) \/ Crash(w)
    PROVE  OutboxInv'
BY ClaimKeepsInv, DeliverKeepsInv, BounceKeepsInv, RecordKeepsInv, CrashKeepsInv
   DEF WorkerStep, SendOne

LEMMA OutboxStutterKeepsInv ==
    ASSUME OutboxInv, UNCHANGED outboxVars
    PROVE  OutboxInv'
BY DEF outboxVars, rowVars, batchVars, OutboxInv, OutboxTypeOK, ClaimsArePending,
       ClaimsAreExclusive, MarksAreClaimed, AbsentUntried, EveryDeliveryAccounted,
       Recorded, RetriesBounded

LEMMA OutboxStepKeepsInv == OutboxInv /\ [OutboxNext]_outboxVars => OutboxInv'
<1> SUFFICES ASSUME OutboxInv, [OutboxNext]_outboxVars PROVE OutboxInv'
  OBVIOUS
<1>1. ASSUME NEW ms, Enqueue(ms) PROVE OutboxInv'
  BY <1>1, QueueKeepsInv DEF Enqueue
<1>2. QED
  BY <1>1, WorkerKeepsInv, OutboxStutterKeepsInv DEF OutboxNext

(* The inductive invariant holds in every state of the outbox.             *)
THEOREM OutboxInvariant == OutboxSpec => []OutboxInv
<1>1. OutboxInit => OutboxInv
  BY OutboxInitInv
<1>2. OutboxInv /\ [OutboxNext]_outboxVars => OutboxInv'
  BY OutboxStepKeepsInv
<1>3. QED
  BY <1>1, <1>2, PTL DEF OutboxSpec

(* No two workers deliver the same claim, however many of them run and stop: *)
(* a mail goes out again only after its mark was lost.                      *)
THEOREM DeliveriesAccounted == OutboxSpec => []DeliveriesAddUp
<1>1. OutboxInv => DeliveriesAddUp
  BY DEF OutboxInv, DeliveriesAddUp
<1>2. QED
  BY <1>1, OutboxInvariant, PTL

-----------------------------------------------------------------------------
(* The alerts *)


\* An incident that was never committed has no mail.
MailsFollowIncidents == \A i \in Incidents : incident[i] = "ABSENT" => row[i] = "ABSENT"

\* Incidents an evaluation has read are committed ones.
SeenExist == \A e \in Evaluators : \A i \in seen[e] : incident[i] # "ABSENT"

\* The incidents of a flushed evaluation are new, for subjects without an open
\* incident ...
NewOnes(e) ==
    at[e] = "flushed" =>
        /\ \A i \in fresh[e] : /\ incident[i] = "ABSENT"
                               /\ \A j \in Open : SubjectOf[j] # SubjectOf[i]
        /\ \A i, j \in fresh[e] : SubjectOf[i] = SubjectOf[j] => i = j

\* ... and for which no other flush has one.
Apart(e, q) ==
    at[e] = "flushed" /\ at[q] = "flushed" =>
        \A i \in fresh[e], j \in fresh[q] : SubjectOf[i] # SubjectOf[j]

AlertsInv ==
    /\ AlertsTypeOK
    /\ OutboxInv
    /\ OneOpenPerSubject
    /\ MailsFollowIncidents
    /\ SeenExist
    /\ \A e \in Evaluators : NewOnes(e)
    /\ \A e, q \in Evaluators : e # q => Apart(e, q)

-----------------------------------------------------------------------------
LEMMA AlertsInitInv == AlertsInit => AlertsInv
<1> SUFFICES ASSUME AlertsInit PROVE AlertsInv
  OBVIOUS
<1>1. OutboxInv
  BY OutboxInitInv DEF AlertsInit
<1>2. AlertsTypeOK
  BY <1>1 DEF OutboxInv, AlertsInit, AlertsTypeOK, IncidentStates, EvaluatorSteps
<1>3. OneOpenPerSubject
  BY DEF AlertsInit, OneOpenPerSubject, Open
<1>4. MailsFollowIncidents /\ SeenExist
  BY AlertsAssumption DEF AlertsInit, OutboxInit, MailsFollowIncidents, SeenExist
<1>5. /\ \A e \in Evaluators : NewOnes(e)
      /\ \A e, q \in Evaluators : Apart(e, q)
  BY DEF AlertsInit, NewOnes, Apart
<1>6. QED
  BY <1>1, <1>2, <1>3, <1>4, <1>5 DEF AlertsInv

(* A step of one evaluation that is not a flush and writes nothing.         *)
LEMMA QuietKeepsInv ==
    ASSUME AlertsInv, NEW e \in Evaluators, UNCHANGED <<incident, outboxVars>>,
           AlertsTypeOK',
           at'[e] # "flushed",
           \A i \in seen'[e] : incident[i] # "ABSENT",
           \A q \in Evaluators \ {e} :
               at'[q] = at[q] /\ fresh'[q] = fresh[q] /\ seen'[q] = seen[q]
    PROVE  AlertsInv'
<1>1. OutboxInv'
  BY OutboxStutterKeepsInv DEF AlertsInv
<1>2. Open' = Open
  BY DEF Open
<1>3. OneOpenPerSubject' /\ MailsFollowIncidents'
  BY <1>2 DEF AlertsInv, OneOpenPerSubject, MailsFollowIncidents, outboxVars, rowVars
<1>4. \A q \in Evaluators : NewOnes(q)'
  BY <1>2 DEF AlertsInv, NewOnes
<1>5. \A p, q \in Evaluators : p # q => Apart(p, q)'
  BY DEF AlertsInv, Apart
<1>6. SeenExist'
  BY DEF AlertsInv, SeenExist
<1>7. QED
  BY <1>1, <1>3, <1>4, <1>5, <1>6 DEF AlertsInv

LEMMA ForgetTypes ==
    ASSUME AlertsTypeOK, NEW e \in Evaluators, Forget(e)
    PROVE  /\ at' \in [Evaluators -> EvaluatorSteps]
           /\ found' \in [Evaluators -> SUBSET Subjects]
           /\ seen' \in [Evaluators -> SUBSET Incidents]
           /\ fresh' \in [Evaluators -> SUBSET Incidents]
           /\ at'[e] = "idle" /\ seen'[e] = {}
           /\ \A q \in Evaluators \ {e} :
                  at'[q] = at[q] /\ fresh'[q] = fresh[q] /\ seen'[q] = seen[q]
BY DEF AlertsTypeOK, Forget, EvaluatorSteps

LEMMA OutboxTypesStay ==
    ASSUME OutboxTypeOK, UNCHANGED outboxVars
    PROVE  OutboxTypeOK'
BY DEF OutboxTypeOK, outboxVars, rowVars, batchVars

LEMMA ReadKeepsInv ==
    ASSUME AlertsInv, NEW e \in Evaluators,
           Detect(e) \/ ReadOpen(e) \/ FailEvaluation(e)
    PROVE  AlertsInv' /\ UNCHANGED outboxVars
<1>1. AlertsTypeOK /\ OutboxTypeOK
  BY DEF AlertsInv, AlertsTypeOK
<1>2. UNCHANGED <<incident, matching, rule>> /\ UNCHANGED outboxVars
  BY DEF Detect, ReadOpen, FailEvaluation
<1>3. OutboxTypeOK'
  BY <1>1, <1>2, OutboxTypesStay
<1>4. /\ AlertsTypeOK' /\ at'[e] # "flushed"
      /\ \A i \in seen'[e] : incident[i] # "ABSENT"
      /\ \A q \in Evaluators \ {e} :
             at'[q] = at[q] /\ fresh'[q] = fresh[q] /\ seen'[q] = seen[q]
  <2>1. CASE Detect(e)
    BY <1>1, <1>3, <2>1 DEF Detect, AlertsInv, AlertsTypeOK, EvaluatorSteps, SeenExist
  <2>2. CASE ReadOpen(e)
    BY <1>1, <1>3, <2>2 DEF ReadOpen, AlertsTypeOK, EvaluatorSteps, Open
  <2>3. CASE FailEvaluation(e)
    BY <1>1, <1>2, <1>3, <2>3, ForgetTypes DEF FailEvaluation, AlertsTypeOK
  <2>4. QED
    BY <2>1, <2>2, <2>3
<1>5. QED
  BY <1>2, <1>4, QuietKeepsInv

(* The waits and the index keep the incidents of two flushes apart.         *)
LEMMA FlushKeepsInv ==
    ASSUME AlertsInv, NEW e \in Evaluators, Flush(e)
    PROVE  AlertsInv' /\ UNCHANGED outboxVars
<1> DEFINE New == {NextId(s) : s \in Missing(e)}
<1>1. /\ at' = [at EXCEPT ![e] = "flushed"]
      /\ fresh' = [fresh EXCEPT ![e] = New]
      /\ UNCHANGED <<matching, rule, incident, found, seen>>
      /\ UNCHANGED outboxVars
  BY DEF Flush
<1>2. AlertsTypeOK /\ OutboxTypeOK
  BY DEF AlertsInv, AlertsTypeOK
<1>3. \A s \in Missing(e) : /\ NextId(s) \in Incidents
                            /\ SubjectOf[NextId(s)] = s
                            /\ incident[NextId(s)] = "ABSENT"
  <2> SUFFICES ASSUME NEW s \in Missing(e) PROVE NextId(s) \in Unused(s)
    BY DEF Unused
  <2>1. Unused(s) # {}
    BY DEF Flush
  <2>2. QED
    BY <2>1 DEF NextId
<1>4. AlertsTypeOK'
  <2>1. OutboxTypeOK'
    BY <1>1, <1>2, OutboxTypesStay
  <2>2. New \subseteq Incidents
    BY <1>3
  <2>3. QED
    BY <1>1, <1>2, <2>1, <2>2 DEF AlertsTypeOK, EvaluatorSteps
<1>5. at'[e] = "flushed" /\ fresh'[e] = New
  BY <1>1, <1>2 DEF AlertsTypeOK
<1>6. \A q \in Evaluators \ {e} : at'[q] = at[q] /\ fresh'[q] = fresh[q]
  BY <1>1, <1>2 DEF AlertsTypeOK
<1>7. Open' = Open
  BY <1>1 DEF Open
<1>8. OutboxInv' /\ OneOpenPerSubject' /\ MailsFollowIncidents' /\ SeenExist'
  <2>1. OutboxInv'
    BY <1>1, OutboxStutterKeepsInv DEF AlertsInv
  <2>2. QED
    BY <1>1, <1>7, <2>1
       DEF AlertsInv, OneOpenPerSubject, MailsFollowIncidents, SeenExist, outboxVars, rowVars
<1>9. \A q \in Evaluators : NewOnes(q)'
  <2>1. NewOnes(e)'
    <3>1. \A j \in Open : SubjectOf[j] \notin Missing(e)
      BY DEF Flush, Collides
    <3>2. QED
      BY <1>1, <1>3, <1>5, <1>7, <3>1 DEF NewOnes
  <2>2. QED
    BY <1>1, <1>6, <1>7, <2>1 DEF AlertsInv, NewOnes
<1>10. \A p, q \in Evaluators : p # q => Apart(p, q)'
  <2>1. ASSUME NEW q \in Evaluators \ {e}, at[q] = "flushed", NEW j \in fresh[q]
        PROVE  SubjectOf[j] \notin Missing(e)
    BY <2>1 DEF Flush, Waits, Holds
  <2>2. ASSUME NEW q \in Evaluators \ {e} PROVE Apart(e, q)' /\ Apart(q, e)'
    BY <1>3, <1>5, <1>6, <2>1 DEF Apart
  <2>3. QED
    BY <1>6, <2>2 DEF AlertsInv, Apart
<1>11. QED
  BY <1>1, <1>4, <1>8, <1>9, <1>10 DEF AlertsInv

(* A commit opens the new incidents and queues their mails.                 *)
LEMMA CommitEvaluationKeepsInv ==
    ASSUME AlertsInv, NEW e \in Evaluators, CommitEvaluation(e)
    PROVE  AlertsInv' /\ [OutboxNext]_outboxVars
<1>1. /\ at[e] = "flushed"
      /\ incident' = [i \in Incidents |-> IF i \in fresh[e] THEN "OPEN"
                                          ELSE IF i \in Gone(e) THEN "RESOLVED"
                                          ELSE incident[i]]
      /\ row' = [m \in Messages |-> IF m \in fresh[e] THEN "PENDING" ELSE row[m]]
      /\ UNCHANGED <<attempts, batchVars, delivered, lost, crashes>>
      /\ Forget(e)
      /\ UNCHANGED <<matching, rule>>
  BY DEF CommitEvaluation, Queue, Mailed
<1>2. AlertsTypeOK /\ OutboxInv /\ fresh[e] \subseteq Incidents
  BY DEF AlertsInv, AlertsTypeOK
<1>3. \A m \in fresh[e] : row[m] = "ABSENT"
  BY <1>1, <1>2 DEF AlertsInv, NewOnes, MailsFollowIncidents
<1>4. OutboxInv'
  BY <1>1, <1>2, <1>3, QueueKeepsInv
<1>5. AlertsTypeOK'
  <2>1. incident' \in [Incidents -> IncidentStates]
    BY <1>1, <1>2 DEF AlertsTypeOK, IncidentStates
  <2>2. OutboxTypeOK'
    BY <1>4 DEF OutboxInv
  <2>3. QED
    BY <1>1, <1>2, <2>1, <2>2, ForgetTypes DEF AlertsTypeOK
<1>6. [OutboxNext]_outboxVars
  <2>1. CASE fresh[e] = {}
    <3>1. row' = row
      BY <1>1, <1>2, <2>1 DEF OutboxInv, OutboxTypeOK
    <3>2. QED
      BY <1>1, <3>1 DEF outboxVars, rowVars
  <2>2. CASE fresh[e] # {}
    <3>1. Enqueue(fresh[e])
      BY <1>1, <1>3 DEF Enqueue
    <3>2. fresh[e] \in (SUBSET Messages) \ {{}}
      BY <1>2, <2>2, AlertsAssumption
    <3>3. QED
      BY <3>1, <3>2 DEF OutboxNext
  <2>3. QED
    BY <2>1, <2>2
<1>7. \A i \in Open' : i \in fresh[e] \/ i \in Open
  BY <1>1 DEF Open
<1>8. OneOpenPerSubject'
  BY <1>1, <1>7 DEF AlertsInv, NewOnes, OneOpenPerSubject
<1>9. MailsFollowIncidents'
  BY <1>1, AlertsAssumption DEF AlertsInv, MailsFollowIncidents
<1>10. /\ at'[e] = "idle" /\ seen'[e] = {}
       /\ \A q \in Evaluators \ {e} :
              at'[q] = at[q] /\ fresh'[q] = fresh[q] /\ seen'[q] = seen[q]
  BY <1>1, <1>2, ForgetTypes
<1>11. ASSUME NEW q \in Evaluators PROVE NewOnes(q)'
  <2> SUFFICES ASSUME q # e, at[q] = "flushed" PROVE NewOnes(q)'
    BY <1>10 DEF NewOnes
  <2>1. NewOnes(q) /\ Apart(e, q)
    BY DEF AlertsInv
  <2>2. \A i \in fresh[q] : i \notin fresh[e]
    BY <1>1, <2>1 DEF Apart
  <2>3. \A i \in fresh[q] : incident[i] = "ABSENT" /\ i \in Incidents
    BY <1>2, <2>1 DEF NewOnes, AlertsTypeOK
  <2>4. Gone(e) \subseteq seen[e]
    BY DEF Gone
  <2>5. \A i \in fresh[q] : i \notin Gone(e)
    BY <2>3, <2>4 DEF AlertsInv, SeenExist
  <2>6. QED
    BY <1>1, <1>7, <1>10, <2>1, <2>2, <2>3, <2>5 DEF NewOnes, Apart
<1>12. \A p, q \in Evaluators : p # q => Apart(p, q)'
  BY <1>10 DEF AlertsInv, Apart
<1>13. SeenExist'
  <2>1. \A i \in Incidents : incident[i] # "ABSENT" => incident'[i] # "ABSENT"
    BY <1>1
  <2>2. \A q \in Evaluators : seen[q] \subseteq Incidents
    BY <1>2 DEF AlertsTypeOK
  <2>3. QED
    BY <1>10, <2>1, <2>2 DEF AlertsInv, SeenExist
<1>14. QED
  BY <1>4, <1>5, <1>6, <1>8, <1>9, <1>11, <1>12, <1>13 DEF AlertsInv

(* Incidents that only end, and never for a flush that has not committed.    *)
LEMMA EndingKeepsInv ==
    ASSUME AlertsInv, AlertsTypeOK', UNCHANGED <<evaluatorVars, outboxVars>>,
           \A i \in Incidents : \/ incident'[i] = incident[i]
                               \/ /\ incident[i] # "ABSENT"
                                  /\ incident'[i] \in {"RESOLVED", "DELETED"}
    PROVE  AlertsInv'
<1>1. /\ UNCHANGED <<at, found, seen, fresh>>
      /\ UNCHANGED row
  BY DEF evaluatorVars, outboxVars, rowVars
<1>2. /\ Open' \subseteq Open
      /\ \A i \in Incidents : incident'[i] = "ABSENT" <=> incident[i] = "ABSENT"
  BY DEF Open
<1>3. /\ \A e \in Evaluators : seen[e] \subseteq Incidents /\ fresh[e] \subseteq Incidents
  BY DEF AlertsInv, AlertsTypeOK
<1>4. OutboxInv'
  BY OutboxStutterKeepsInv DEF AlertsInv
<1>5. OneOpenPerSubject' /\ MailsFollowIncidents' /\ SeenExist'
  BY <1>1, <1>2, <1>3 DEF AlertsInv, OneOpenPerSubject, MailsFollowIncidents, SeenExist
<1>6. \A e \in Evaluators : NewOnes(e)'
  BY <1>1, <1>2, <1>3 DEF AlertsInv, NewOnes
<1>7. \A p, q \in Evaluators : p # q => Apart(p, q)'
  BY <1>1 DEF AlertsInv, Apart
<1>8. QED
  BY <1>4, <1>5, <1>6, <1>7 DEF AlertsInv

LEMMA OtherKeepsInv ==
    ASSUME AlertsInv,
           \/ \E i \in Incidents : Resolve(i)
           \/ SwitchRule
           \/ DeleteRule
           \/ \E s \in Subjects : Change(s)
    PROVE  AlertsInv' /\ UNCHANGED outboxVars
<1>1. UNCHANGED <<evaluatorVars, outboxVars>>
  BY DEF Resolve, SwitchRule, DeleteRule, Change
<1>2. AlertsTypeOK /\ OutboxTypeOK
  BY DEF AlertsInv, AlertsTypeOK
<1>3. OutboxTypeOK'
  BY <1>1, <1>2, OutboxTypesStay
<1>4. /\ matching' \subseteq Subjects
      /\ rule' \in {"active", "paused", "deleted"}
      /\ incident' \in [Incidents -> IncidentStates]
      /\ \A i \in Incidents : \/ incident'[i] = incident[i]
                             \/ /\ incident[i] # "ABSENT"
                                /\ incident'[i] \in {"RESOLVED", "DELETED"}
  BY <1>2 DEF Resolve, SwitchRule, DeleteRule, Change, AlertsTypeOK, IncidentStates
<1>5. AlertsTypeOK'
  BY <1>1, <1>2, <1>3, <1>4 DEF AlertsTypeOK, evaluatorVars
<1>6. QED
  BY <1>1, <1>4, <1>5, EndingKeepsInv

(* Workers change the rows of committed incidents only.                     *)
LEMMA WorkersKeepInv ==
    ASSUME AlertsInv, NEW w \in Workers, WorkerStep(w) \/ Crash(w), UNCHANGED alertVars
    PROVE  AlertsInv'
<1>1. OutboxInv'
  BY WorkerKeepsInv DEF AlertsInv
<1>2. UNCHANGED <<matching, rule, incident, at, found, seen, fresh>>
  BY DEF alertVars, evaluatorVars
<1>3. AlertsTypeOK'
  BY <1>1, <1>2 DEF AlertsInv, AlertsTypeOK, OutboxInv
<1>4. \A m \in Messages : row[m] = "ABSENT" => row'[m] = "ABSENT"
  <2>1. CASE Record(w)
    <3>1. \A m \in sent[w] \cup bounced[w] : row[m] = "PENDING"
      BY DEF AlertsInv, OutboxInv, MarksAreClaimed, ClaimsArePending
    <3>2. QED
      BY <2>1, <3>1 DEF Record
  <2>2. CASE Claim(w) \/ SendOne(w) \/ Crash(w)
    BY <2>2 DEF Claim, SendOne, Deliver, Bounce, Crash, rowVars
  <2>3. QED
    BY <2>1, <2>2 DEF WorkerStep
<1>5. OneOpenPerSubject' /\ MailsFollowIncidents' /\ SeenExist'
  BY <1>2, <1>4, AlertsAssumption
     DEF AlertsInv, OneOpenPerSubject, Open, MailsFollowIncidents, SeenExist
<1>6. \A p, q \in Evaluators : NewOnes(p)' /\ (p # q => Apart(p, q)')
  BY <1>2 DEF AlertsInv, NewOnes, Apart, Open
<1>7. QED
  BY <1>1, <1>3, <1>5, <1>6 DEF AlertsInv

LEMMA AlertsStutterKeepsInv ==
    ASSUME AlertsInv, UNCHANGED allVars
    PROVE  AlertsInv' /\ UNCHANGED outboxVars
<1>1. UNCHANGED <<alertVars, evaluatorVars, outboxVars, matching, rule, incident>>
  BY DEF allVars, alertVars
<1>2. AlertsTypeOK'
  BY <1>1, OutboxTypesStay DEF AlertsInv, AlertsTypeOK, evaluatorVars
<1>3. QED
  BY <1>1, <1>2, EndingKeepsInv

LEMMA AlertsStepKeepsInv ==
    AlertsInv /\ [AlertsNext]_allVars => AlertsInv' /\ [OutboxNext]_outboxVars
<1> SUFFICES ASSUME AlertsInv, [AlertsNext]_allVars
             PROVE  AlertsInv' /\ [OutboxNext]_outboxVars
  OBVIOUS
<1>1. ASSUME NEW e \in Evaluators, Evaluate(e)
      PROVE  AlertsInv' /\ [OutboxNext]_outboxVars
  BY <1>1, ReadKeepsInv, FlushKeepsInv, CommitEvaluationKeepsInv DEF Evaluate
<1>2. ASSUME NEW w \in Workers, (WorkerStep(w) \/ Crash(w)) /\ UNCHANGED alertVars
      PROVE  AlertsInv' /\ [OutboxNext]_outboxVars
  BY <1>2, WorkersKeepInv DEF OutboxNext
<1>3. QED
  BY <1>1, <1>2, OtherKeepsInv, AlertsStutterKeepsInv DEF AlertsNext

(* The inductive invariant holds in every state.                           *)
THEOREM AlertsInvariant == AlertsSpec => []AlertsInv
<1>1. AlertsInit => AlertsInv
  BY AlertsInitInv
<1>2. AlertsInv /\ [AlertsNext]_allVars => AlertsInv'
  BY AlertsStepKeepsInv
<1>3. QED
  BY <1>1, <1>2, PTL DEF AlertsSpec

(* However many evaluations race, and rules are paused, deleted or resolved  *)
(* by hand meanwhile, a subject has at most one open incident.              *)
THEOREM Deduplicated == AlertsSpec => []AlertsAgree
<1>1. AlertsInv => AlertsAgree
  BY DEF AlertsInv, AlertsAgree
<1>2. QED
  BY <1>1, AlertsInvariant, PTL

(* Evaluations only ever insert new rows into the outbox: no row that was    *)
(* queued, sent or given up is queued again.                                *)
THEOREM AlertsUseTheOutbox == AlertsSpec => OutboxSpec
<1>1. AlertsInit => OutboxInit
  BY DEF AlertsInit
<1>2. AlertsInv /\ [AlertsNext]_allVars => [OutboxNext]_outboxVars
  BY AlertsStepKeepsInv
<1>3. QED
  BY <1>1, <1>2, AlertsInvariant, PTL DEF AlertsSpec, OutboxSpec

-----------------------------------------------------------------------------
(* The returns *)

(* The requests that were ever sent from the form on the screen: registered, *)
(* in flight, or left behind with their screen.                             *)
InFlight == IF req = None THEN {} ELSE {req}
Sent == made \cup InFlight \cup late

OfThisList(x) == x.edit = edits /\ x.search = searches

\* A key registers one return.
KeysRegisterOnce == \A a, b \in made : a.key = b.key => a = b

\* A list that was sent before has one key.
ListsHaveOneKey == \A x, y \in Sent : x.edit = y.edit /\ x.search = y.search => x.key = y.key

\* What was sent is not of a later list than that on the screen.
SentBefore == \A x \in Sent : x.edit <= edits /\ x.search <= searches

\* The list on the screen, once sent, is the one the attempt remembers.
AttemptIsRemembered ==
    \A x \in Sent : OfThisList(x) =>
        /\ Mounted(shown, cached)
        /\ attempt # None
        /\ attempt.key = x.key /\ attempt.payload = Payload

\* The form is empty while no sale is on the screen.
FormIsEmpty == ~Mounted(shown, cached) => staged = <<>>

RetriesInv == ListsHaveOneKey /\ SentBefore /\ AttemptIsRemembered

RefundsInv == TypeOK /\ NeverMoreThanSold /\ KeysRegisterOnce /\ FormIsEmpty /\ RetriesInv

-----------------------------------------------------------------------------
(* Types *)

LEMMA AmountType ==
    ASSUME NEW lines \in Seq(StagedLines), NEW l, NEW field, field \in {"refund", "stock"}
    PROVE  Amount(lines, l, field) \in Nat
<1> DEFINE S == {j \in DOMAIN lines : lines[j].line = l}
           f == [i \in S |-> lines[i][field]]
<1>1. f \in [S -> Nat]
  <2>1. ASSUME NEW i \in S PROVE lines[i][field] \in Nat
    <3>1. lines[i] \in StagedLines
      OBVIOUS
    <3>2. QED
      BY <3>1 DEF StagedLines, Packages
  <2>2. QED
    BY <2>1
<1>2. IsFiniteSet(S)
  <2>1. DOMAIN lines = 1..Len(lines) /\ Len(lines) \in Nat
    OBVIOUS
  <2>2. IsFiniteSet(DOMAIN lines)
    BY <2>1, FS_Interval
  <2>3. QED
    BY <2>2, FS_Subset
<1>3. Amount(lines, l, field) = SumFunctionOnSet(f, S)
  BY DEF Amount, SumFunction
<1> HIDE DEF S, f
<1>4. /\ SumFunctionOnSet(f, {}) \in Int /\ SumFunctionOnSet(f, S) \in Int
      /\ SumFunctionOnSet(f, {}) <= SumFunctionOnSet(f, S)
  BY <1>1, <1>2, SumGrows
<1>5. SumFunctionOnSet(f, {}) = 0
  BY <1>1, <1>2, SumAdds
<1>6. QED
  BY <1>3, <1>4, <1>5

LEMMA PayloadType == ASSUME TypeOK PROVE Payload \in Payloads
BY DEF TypeOK, Payload, Payloads

LEMMA ServerTypes ==
    ASSUME RefundsAssumption, TypeOK, NeverMoreThanSold, NEW r \in Requests, NEW answered \in BOOLEAN,
           Serve(r, answered)
    PROVE  /\ refunded' \in [Lines -> Nat] /\ returned' \in [Lines -> Nat]
           /\ NeverMoreThanSold'
<1>1. refunded \in [Lines -> Nat] /\ returned \in [Lines -> Nat] /\ Bought \in [Lines -> Nat]
  BY DEF TypeOK, RefundsAssumption
<1>2. CASE UNCHANGED <<made, refunded, returned>>
  BY <1>1, <1>2 DEF NeverMoreThanSold
<1>3. CASE Accepts(r) /\ Register(r)
  <2>1. r.payload.lines \in Seq(StagedLines)
    BY DEF Requests, Payloads
  <2>2. \A l \in Lines : /\ Amount(r.payload.lines, l, "refund") \in Nat
                         /\ Amount(r.payload.lines, l, "stock") \in Nat
    BY <2>1, AmountType
  <2>3. \A l \in Lines : /\ refunded[l] + Amount(r.payload.lines, l, "refund") <= Bought[l]
                         /\ returned[l] + Amount(r.payload.lines, l, "stock") <= Bought[l]
    BY <1>3 DEF Accepts
  <2>4. /\ refunded' = [l \in Lines |-> refunded[l] + Amount(r.payload.lines, l, "refund")]
        /\ returned' = [l \in Lines |-> returned[l] + Amount(r.payload.lines, l, "stock")]
    BY <1>3 DEF Register
  <2>5. \A l \in Lines : /\ refunded[l] + Amount(r.payload.lines, l, "refund") \in Nat
                         /\ returned[l] + Amount(r.payload.lines, l, "stock") \in Nat
    BY <1>1, <2>2
  <2>6. refunded' \in [Lines -> Nat] /\ returned' \in [Lines -> Nat]
    BY <2>4, <2>5
  <2>7. NeverMoreThanSold'
    BY <2>3, <2>4 DEF NeverMoreThanSold
  <2>8. QED
    BY <2>6, <2>7
<1>4. QED
  BY <1>2, <1>3 DEF Serve

\* The return that a request registers.
Return(r) ==
    [sale |-> r.sale, payload |-> r.payload, key |-> r.key, edit |-> r.edit, search |-> r.search]

LEMMA ServedReturns ==
    ASSUME NEW r, NEW answered, Serve(r, answered)
    PROVE  \/ made' = made
           \/ Claimed(r) = {} /\ made' = made \cup {Return(r)}
BY DEF Serve, Register, Return

LEMMA ReturnType ==
    ASSUME NEW r \in Requests
    PROVE  /\ Return(r) \in [sale: Sales, payload: Payloads, key: Keys, edit: Nat, search: Nat]
           /\ Return(r).edit = r.edit /\ Return(r).search = r.search
           /\ Return(r).key = r.key /\ Return(r).payload = r.payload
BY DEF Requests, Return

LEMMA StagedType ==
    ASSUME NEW s \in Seq(StagedLines), NEW i \in DOMAIN s
    PROVE  SubSeq(s, 1, i - 1) \o SubSeq(s, i + 1, Len(s)) \in Seq(StagedLines)
<1>1. i \in 1..Len(s) /\ Len(s) \in Nat
  OBVIOUS
<1> DEFINE before == SubSeq(s, 1, i - 1)
           after == SubSeq(s, i + 1, Len(s))
<1>2. \A j \in 1..Len(s) : s[j] \in StagedLines
  OBVIOUS
<1>3. before \in Seq(StagedLines)
  <2>1. \A j \in 1..(i - 1) : s[j] \in StagedLines
    BY <1>1, <1>2
  <2>2. QED
    BY <1>1, <2>1, SubSeqProperties
<1>4. after \in Seq(StagedLines)
  <2>1. \A j \in (i + 1)..Len(s) : s[j] \in StagedLines
    BY <1>1, <1>2
  <2>2. QED
    BY <1>1, <2>1, SubSeqProperties
<1> HIDE DEF before, after
<1>5. before \o after \in Seq(StagedLines)
  BY <1>3, <1>4
<1>6. QED
  BY <1>5 DEF before, after

LEMMA TypesKept ==
    ASSUME RefundsAssumption, TypeOK, NeverMoreThanSold, Next
    PROVE  TypeOK'
<1> USE DEF server, form, screen
<1>0. <<>> \in Seq(StagedLines)
  OBVIOUS
<1>1. ASSUME NEW s \in Sales \cup {None}, Look(s), error' \in BOOLEAN PROVE TypeOK'
  <2>1. /\ stale' \subseteq Sales /\ searches' \in Nat
        /\ UNCHANGED <<server, cached, drawn, req, late>>
        /\ attempt' = None /\ success' = FALSE /\ shown' = s
    BY <1>1 DEF Look, TypeOK
  <2>2. /\ staged' \in {staged, <<>>} /\ method' \in {method, "CASH"} /\ confirming' \in {confirming, FALSE}
        /\ edits' \in {edits, edits + 1}
    BY <1>1, Zenon DEF Look, EmptyForm, KeepForm
  <2>3. staged' \in Seq(StagedLines) /\ method' \in Methods /\ edits' \in Nat
    <3>1. staged' \in Seq(StagedLines)
      BY <2>2, <1>0, Zenon DEF TypeOK
    <3>2. method' \in Methods
      BY <2>2 DEF TypeOK, Methods
    <3>3. edits' \in Nat
      BY <2>2 DEF TypeOK
    <3>4. QED
      BY <3>1, <3>2, <3>3
  <2>4. confirming' \in BOOLEAN
    BY <2>2, Zenon DEF TypeOK
  <2>5. QED
    BY <1>1, <2>1, <2>3, <2>4 DEF TypeOK
<1>2. ASSUME ReadSale PROVE TypeOK'
  <2>1. shown \in Sales
    BY <1>2 DEF ReadSale, TypeOK
  <2> DEFINE read == [refunded |-> refunded, returned |-> returned]
  <2>2. read \in Reads
    BY DEF TypeOK, Reads
  <2>3. cached' = [cached EXCEPT ![shown] = read]
    BY <1>2 DEF ReadSale
  <2> HIDE DEF read
  <2>4. cached' \in [Sales -> Reads \cup {None}]
    BY <2>1, <2>2, <2>3 DEF TypeOK
  <2>5. QED
    BY <1>2, <2>4 DEF ReadSale, TypeOK
<1>3. ASSUME NEW l \in Lines, NEW refund \in Packages, NEW stock \in Packages, AddLine(l, refund, stock)
      PROVE  TypeOK'
  <2>1. [line |-> l, refund |-> refund, stock |-> stock] \in StagedLines
    BY DEF StagedLines
  <2>2. staged' \in Seq(StagedLines)
    BY <1>3, <2>1 DEF AddLine, TypeOK
  <2>3. edits' = edits + 1
        /\ UNCHANGED <<server, method, confirming, screen, drawn, req, late, searches>>
    BY <1>3 DEF AddLine
  <2>4. QED
    BY <2>2, <2>3, SMTT(30) DEF TypeOK
<1>4. ASSUME NEW i \in DOMAIN staged, Unstage(i) PROVE TypeOK'
  <2>1. staged' \in Seq(StagedLines)
    BY <1>4, StagedType DEF Unstage, TypeOK
  <2>2. edits' = edits + 1
        /\ UNCHANGED <<server, method, confirming, screen, drawn, req, late, searches>>
    BY <1>4 DEF Unstage
  <2>3. QED
    BY <2>1, <2>2 DEF TypeOK
<1>5. ASSUME NEW m \in Methods, ChooseMethod(m) PROVE TypeOK'
  BY <1>5 DEF ChooseMethod, TypeOK
<1>6. ASSUME AskToConfirm PROVE TypeOK'
  BY <1>6 DEF AskToConfirm, TypeOK
<1>7. ASSUME Submit PROVE TypeOK'
  <2>1. PICK a \in Attempts(Payload) :
          /\ attempt' = a
          /\ drawn' = IF a.key > drawn THEN a.key ELSE drawn
          /\ req' = [sale |-> shown, payload |-> Payload, key |-> a.key,
                     edit |-> edits, search |-> searches, stage |-> "sent"]
    BY <1>7 DEF Submit
  <2>2. Payload \in Payloads
    BY PayloadType
  <2>3. a \in Submissions
    BY <2>2 DEF Attempts, TypeOK, Submissions
  <2>4. a.key \in Keys /\ drawn' \in 0..LastKey
    BY <2>1, <2>3 DEF Submissions, Keys, TypeOK
  <2>5. shown \in Sales
    BY <1>7 DEF Submit, Mounted, TypeOK
  <2>6. req' \in Requests
    BY <2>1, <2>2, <2>4, <2>5 DEF Requests, TypeOK
  <2>7. UNCHANGED <<server, staged, method, shown, cached, stale, error, late, edits, searches>>
        /\ confirming' = FALSE /\ success' = FALSE
    BY <1>7 DEF Submit
  <2>8. UNCHANGED <<refunded, returned, made, dayOpen, elsewhere, edits, searches, error>>
    BY <2>7
  <2>9. {confirming', success', error'} \subseteq BOOLEAN
    BY <2>7, <2>8, Zenon DEF TypeOK
  <2>10. QED
    BY <2>1, <2>3, <2>4, <2>6, <2>7, <2>8, <2>9 DEF TypeOK
<1>8. ASSUME NEW r \in Requests, NEW answered \in BOOLEAN, Serve(r, answered),
             UNCHANGED <<dayOpen, elsewhere, form, shown, cached, attempt, success, error, drawn, edits, searches>>,
             stale' \subseteq Sales, req' = None \/ req' \in Requests, late' \subseteq Requests
      PROVE  TypeOK'
  <2>1. refunded' \in [Lines -> Nat] /\ returned' \in [Lines -> Nat]
    BY <1>8, ServerTypes
  <2>2. made' \subseteq [sale: Sales, payload: Payloads, key: Keys, edit: Nat, search: Nat]
    <3>1. made' = made \/ made' = made \cup {Return(r)}
      BY <1>8, ServedReturns
    <3>2. Return(r) \in [sale: Sales, payload: Payloads, key: Keys, edit: Nat, search: Nat]
      BY ReturnType
    <3>3. QED
      BY <3>1, <3>2 DEF TypeOK
  <2>3. UNCHANGED <<dayOpen, elsewhere, staged, method, confirming, shown, cached, attempt, success, error,
                    drawn, edits, searches>>
    BY <1>8
  <2>4. {confirming', success', error'} \subseteq BOOLEAN
    BY <2>3, Zenon DEF TypeOK
  <2>5. {refunded', returned'} \subseteq [Lines -> Nat] /\ {edits', searches', elsewhere'} \subseteq Nat
    BY <2>1, <2>3 DEF TypeOK
  <2>6. stale' \subseteq Sales /\ (req' = None \/ req' \in Requests) /\ late' \subseteq Requests
    BY <1>8
  <2>7. QED
    BY <2>2, <2>3, <2>4, <2>5, <2>6 DEF TypeOK
<1>9. ASSUME NEW stage \in {"answered", "refused", "lost"}, req # None, req' = [req EXCEPT !.stage = stage]
      PROVE  req \in Requests /\ req' \in Requests
  BY <1>9 DEF TypeOK, Requests
<1>10. ASSUME Served PROVE TypeOK'
  <2>1. PICK answered \in BOOLEAN :
          Serve(req, answered) /\ req' = [req EXCEPT !.stage = IF answered THEN "answered" ELSE "refused"]
    BY <1>10 DEF Served
  <2>2. req \in Requests /\ req' \in Requests
    BY <1>9, <1>10, <2>1 DEF Served
  <2>3. QED
    BY <1>8, <1>10, <2>1, <2>2 DEF Served, TypeOK
<1>11. ASSUME Lose PROVE TypeOK'
  <2>1. req' \in Requests
    BY <1>9, <1>11 DEF Lose
  <2>2. QED
    BY <1>11, <2>1 DEF Lose, TypeOK
<1>12. ASSUME Succeed PROVE TypeOK'
  <2>1. /\ staged' \in {staged, <<>>} /\ method' = method /\ confirming' \in {confirming, FALSE}
        /\ edits' \in {edits, edits + 1}
    BY <1>12, Zenon DEF Succeed, KeepForm
  <2>2. staged' \in Seq(StagedLines)
    BY <2>1, <1>0, Zenon DEF TypeOK
  <2>3. edits' \in Nat
    BY <2>1 DEF TypeOK
  <2>4. confirming' \in BOOLEAN
    BY <2>1, Zenon DEF TypeOK
  <2>5. stale' \subseteq Sales
    BY <1>12 DEF Succeed, TypeOK
  <2>6. QED
    BY <1>12, <2>1, <2>2, <2>3, <2>4, <2>5 DEF Succeed, TypeOK
<1>13. ASSUME Fail PROVE TypeOK'
  <2>1. success' \in {success, FALSE}
    BY <1>13, Zenon DEF Fail
  <2>2. /\ UNCHANGED <<server, form, edits, shown, cached, stale, attempt, drawn, late, searches>>
        /\ req' = None /\ error' = TRUE
    BY <1>13 DEF Fail, KeepForm
  <2>3. success' \in BOOLEAN
    BY <2>1, Zenon DEF TypeOK
  <2>4. {confirming', success', error'} \subseteq BOOLEAN
    BY <2>2, <2>3, Zenon DEF TypeOK
  <2>5. {refunded', returned'} \subseteq [Lines -> Nat] /\ {edits', searches', elsewhere'} \subseteq Nat
    BY <2>2 DEF TypeOK
  <2>6. req' = None \/ req' \in Requests
    BY <2>2
  <2>7. UNCHANGED <<made, dayOpen, shown, cached, stale, staged, method, attempt, drawn, late>>
    BY <2>2
  <2>8. QED
    BY <2>4, <2>5, <2>6, <2>7 DEF TypeOK
<1>14. ASSUME Leave PROVE TypeOK'
  <2>1. late' \subseteq Requests
    BY <1>14 DEF Leave, TypeOK
  <2>2. searches' \in Nat /\ edits' \in Nat /\ method' \in Methods
    BY <1>14 DEF Leave, EmptyForm, TypeOK, Methods
  <2>3. staged' \in Seq(StagedLines)
    BY <1>14, <1>0, Zenon DEF Leave, EmptyForm
  <2>4. /\ UNCHANGED <<server, cached, stale, drawn>>
        /\ confirming' = FALSE /\ success' = FALSE /\ error' = FALSE
        /\ shown' = None /\ attempt' = None /\ req' = None
    BY <1>14 DEF Leave, EmptyForm
  <2>5. QED
    BY <2>1, <2>2, <2>3, <2>4 DEF TypeOK
<1>15. ASSUME NEW r \in late, ServedLate(r) PROVE TypeOK'
  <2>1. r \in Requests /\ late' \subseteq Requests /\ stale' \subseteq Sales
    BY <1>15 DEF ServedLate, TypeOK, Requests
  <2>2. UNCHANGED <<dayOpen, elsewhere, form, shown, cached, attempt, success, error, drawn, req, edits, searches>>
    BY <1>15 DEF ServedLate
  <2>3. CASE \E answered \in BOOLEAN : Serve(r, answered)
    BY <1>8, <2>1, <2>2, <2>3 DEF TypeOK
  <2>4. CASE UNCHANGED <<made, refunded, returned>>
    BY <2>1, <2>2, <2>4 DEF TypeOK
  <2>5. QED
    BY <1>15, <2>3, <2>4 DEF ServedLate
<1>16. ASSUME NEW l \in Lines, Elsewhere(l) PROVE TypeOK'
  BY <1>16, SMTT(30) DEF Elsewhere, TypeOK
<1>17. ASSUME CloseDay PROVE TypeOK'
  BY <1>17 DEF CloseDay, TypeOK
<1>18. ASSUME NEW s \in Sales \cup {None}, SearchAtTill(s) \/ SearchInPanel(s) PROVE TypeOK'
  BY <1>1, <1>18 DEF SearchAtTill, SearchInPanel, TypeOK
<1>19. ASSUME BackToPanel PROVE TypeOK'
  BY <1>1, <1>19 DEF BackToPanel
<1>20. QED
  BY <1>2, <1>3, <1>4, <1>5, <1>6, <1>7, <1>10, <1>11, <1>12, <1>13, <1>14, <1>15, <1>16, <1>17,
     <1>18, <1>19 DEF Next

-----------------------------------------------------------------------------
(* What was sent                                                            *)

\* y was sent as x was: the same list under the same key.
SameSending(x, y) ==
    x.edit = y.edit /\ x.search = y.search /\ x.key = y.key /\ x.payload = y.payload

LEMMA SentTypes ==
    ASSUME TypeOK, NEW x \in Sent
    PROVE  x.edit \in Nat /\ x.search \in Nat
BY DEF Sent, InFlight, TypeOK, Requests

\* The list on the screen is still the one that the attempt remembers.
ListStays ==
    /\ UNCHANGED <<staged, method, attempt, edits, searches>>
    /\ Mounted(shown, cached) => Mounted(shown, cached)'

\* It is another than any that was sent.
ListIsNew == edits' > edits \/ searches' > searches

ListWasNotSent == UNCHANGED <<edits, searches>> /\ \A x \in Sent : ~OfThisList(x)

(* Nothing new is sent: what is known of the lists that were sent holds on.  *)
LEMMA NothingIsSent ==
    ASSUME TypeOK, TypeOK', RetriesInv,
           \A x \in Sent' : \E y \in Sent : SameSending(x, y),
           edits' >= edits, searches' >= searches,
           ListStays \/ ListIsNew \/ ListWasNotSent
    PROVE  RetriesInv'
<1>1. edits \in Nat /\ searches \in Nat /\ edits' \in Nat /\ searches' \in Nat
  BY DEF TypeOK
<1>2. \A x \in Sent : x.edit \in Nat /\ x.search \in Nat /\ x.edit <= edits /\ x.search <= searches
  BY SentTypes DEF RetriesInv, SentBefore
<1>3. ASSUME NEW x \in Sent' PROVE x.edit <= edits' /\ x.search <= searches'
  <2>1. PICK y \in Sent : SameSending(x, y)
    OBVIOUS
  <2>2. y.edit <= edits /\ y.search <= searches /\ y.edit \in Nat /\ y.search \in Nat
    BY <1>2
  <2>3. x.edit = y.edit /\ x.search = y.search
    BY <2>1 DEF SameSending
  <2>4. QED
    BY <1>1, <2>2, <2>3
<1>4. SentBefore'
  BY <1>3 DEF SentBefore
<1>5. ListsHaveOneKey'
  <2>1. ASSUME NEW x \in Sent', NEW y \in Sent', x.edit = y.edit, x.search = y.search
        PROVE  x.key = y.key
    <3>1. PICK u \in Sent : SameSending(x, u)
      OBVIOUS
    <3>2. PICK v \in Sent : SameSending(y, v)
      OBVIOUS
    <3>3. u.edit = v.edit /\ u.search = v.search
      BY <2>1, <3>1, <3>2 DEF SameSending
    <3>4. u.key = v.key
      BY <3>3 DEF RetriesInv, ListsHaveOneKey
    <3>5. QED
      BY <3>1, <3>2, <3>4 DEF SameSending
  <2>2. QED
    BY <2>1 DEF ListsHaveOneKey
<1>6. ASSUME NEW x \in Sent', x.edit = edits', x.search = searches'
      PROVE  /\ Mounted(shown, cached)' /\ attempt' # None
             /\ attempt'.key = x.key /\ attempt'.payload = Payload'
  <2>1. PICK y \in Sent : SameSending(x, y)
    OBVIOUS
  <2>2. x.edit = y.edit /\ x.search = y.search /\ x.key = y.key
    BY <2>1 DEF SameSending
  <2>3. ~ListIsNew
    BY <1>1, <1>2, <1>6, <2>2 DEF ListIsNew
  <2>4. ListStays
    BY <1>6, <2>2, <2>3 DEF ListWasNotSent, OfThisList
  <2>5. OfThisList(y)
    BY <1>6, <2>2, <2>4 DEF OfThisList, ListStays
  <2>6. /\ Mounted(shown, cached) /\ attempt # None
        /\ attempt.key = y.key /\ attempt.payload = Payload
    BY <2>5 DEF RetriesInv, AttemptIsRemembered
  <2>7. Payload' = Payload /\ attempt' = attempt /\ Mounted(shown, cached)'
    BY <2>4, <2>6 DEF ListStays, Payload, HasEconomicEffect
  <2>8. QED
    BY <2>2, <2>6, <2>7
<1>7. AttemptIsRemembered'
  BY <1>6 DEF AttemptIsRemembered, OfThisList
<1>8. QED
  BY <1>4, <1>5, <1>7 DEF RetriesInv

(* A list that was sent is sent again under the key it was sent with.       *)
LEMMA SubmitKeepsLists ==
    ASSUME RefundsAssumption, TypeOK, TypeOK', RetriesInv, Submit
    PROVE  RetriesInv'
<1>1. PICK a \in Attempts(Payload) :
        /\ attempt' = a
        /\ req' = [sale |-> shown, payload |-> Payload, key |-> a.key,
                   edit |-> edits, search |-> searches, stage |-> "sent"]
  BY DEF Submit
<1>2. /\ UNCHANGED <<made, staged, method, shown, cached, late, edits, searches>>
      /\ Mounted(shown, cached) /\ req = None
  BY DEF Submit, server
<1>3. a # None /\ a.payload = Payload
  <2>1. \/ a = attempt /\ attempt # None /\ attempt.payload = Payload
        \/ \E k \in Keys : a = [payload |-> Payload, key |-> k]
    BY DEF Attempts
  <2>2. Payload \in Payloads
    BY PayloadType
  <2>3. \A k \in Keys : [payload |-> Payload, key |-> k] \in Submissions
    BY <2>2 DEF Submissions
  <2>4. None \notin Submissions
    BY DEF RefundsAssumption
  <2>5. QED
    BY <2>1, <2>3, <2>4
<1>4. ASSUME NEW x \in Sent, OfThisList(x) PROVE x.key = a.key
  <2>1. attempt # None /\ attempt.payload = Payload /\ attempt.key = x.key
    BY <1>4 DEF RetriesInv, AttemptIsRemembered
  <2>2. a = attempt
    BY <2>1 DEF Attempts
  <2>3. QED
    BY <2>1, <2>2
<1>5. Payload' = Payload /\ Mounted(shown, cached)'
  BY <1>2 DEF Payload, HasEconomicEffect
<1>6. /\ req'.edit = edits /\ req'.search = searches /\ req'.key = a.key
  BY <1>1
<1>7. Sent' \subseteq Sent \cup {req'}
  BY <1>2 DEF Sent, InFlight
<1>8. SentBefore'
  <2>1. edits \in Nat /\ searches \in Nat
    BY DEF TypeOK
  <2>2. ASSUME NEW x \in Sent' PROVE x.edit <= edits /\ x.search <= searches
    BY <1>6, <1>7, <2>1 DEF RetriesInv, SentBefore
  <2>3. QED
    BY <1>2, <2>2 DEF SentBefore
<1>9. ListsHaveOneKey'
  <2>1. ASSUME NEW x \in Sent', NEW y \in Sent', x.edit = y.edit, x.search = y.search
        PROVE  x.key = y.key
    <3>1. CASE x \in Sent /\ y \in Sent
      BY <2>1, <3>1 DEF RetriesInv, ListsHaveOneKey
    <3>2. CASE x \in Sent /\ y = req'
      BY <1>4, <1>6, <2>1, <3>2 DEF OfThisList
    <3>3. CASE x = req' /\ y \in Sent
      BY <1>4, <1>6, <2>1, <3>3 DEF OfThisList
    <3>4. CASE x = req' /\ y = req'
      BY <3>4
    <3>5. QED
      BY <1>7, <3>1, <3>2, <3>3, <3>4
  <2>2. QED
    BY <2>1 DEF ListsHaveOneKey
<1>10. AttemptIsRemembered'
  <2>1. ASSUME NEW x \in Sent', x.edit = edits, x.search = searches PROVE x.key = a.key
    <3>1. CASE x \in Sent
      BY <1>4, <2>1, <3>1 DEF OfThisList
    <3>2. CASE x = req'
      BY <1>6, <3>2
    <3>3. QED
      BY <1>7, <3>1, <3>2
  <2>2. QED
    BY <1>1, <1>2, <1>3, <1>5, <2>1 DEF AttemptIsRemembered, OfThisList
<1>11. QED
  BY <1>8, <1>9, <1>10 DEF RetriesInv

LEMMA NoneIsSent ==
    ASSUME Sent' \subseteq Sent
    PROVE  \A x \in Sent' : \E y \in Sent : SameSending(x, y)
<1>1. \A x \in Sent : SameSending(x, x)
  BY DEF SameSending
<1>2. QED
  BY <1>1

LEMMA OthersKeepLists ==
    ASSUME RefundsAssumption, TypeOK, TypeOK', RetriesInv, Next, ~Submit
    PROVE  RetriesInv'
<1> USE DEF server, form, screen
<1>1. edits \in Nat /\ searches \in Nat
  BY DEF TypeOK
<1>2. ASSUME UNCHANGED <<made, req, late>>, edits' \in {edits, edits + 1}, searches' \in {searches, searches + 1},
             ListStays \/ ListIsNew
      PROVE  RetriesInv'
  <2>1. Sent' \subseteq Sent
    BY <1>2 DEF Sent, InFlight
  <2>2. edits' >= edits /\ searches' >= searches
    BY <1>1, <1>2
  <2>3. QED
    BY <1>2, <2>1, <2>2, NoneIsSent, NothingIsSent
<1>3. ASSUME NEW s \in Sales \cup {None}, Look(s) PROVE RetriesInv'
  <2>1. UNCHANGED <<made, req, late>> /\ searches' = searches + 1
    BY <1>3 DEF Look
  <2>2. edits' \in {edits, edits + 1}
    BY <1>3, Zenon DEF Look, EmptyForm, KeepForm
  <2>3. ListIsNew
    BY <1>1, <2>1 DEF ListIsNew
  <2>4. QED
    BY <1>2, <2>1, <2>2, <2>3
<1>4. ASSUME ReadSale PROVE RetriesInv'
  <2>1. UNCHANGED <<made, req, late, edits, searches, staged, method, attempt, shown>>
    BY <1>4 DEF ReadSale
  <2>2. cached[shown] # None => cached'[shown] # None
    <3> DEFINE read == [refunded |-> refunded, returned |-> returned]
    <3>1. read \in Reads
      BY DEF TypeOK, Reads
    <3>2. cached' = [cached EXCEPT ![shown] = read] /\ shown \in Sales
      BY <1>4 DEF ReadSale, TypeOK
    <3> HIDE DEF read
    <3>3. read # None
      BY <3>1 DEF RefundsAssumption
    <3>4. QED
      BY <3>2, <3>3 DEF TypeOK
  <2>3. ListStays
    BY <2>1, <2>2 DEF ListStays, Mounted
  <2>4. QED
    BY <1>2, <2>1, <2>3
<1>5. ASSUME UNCHANGED <<made, req, late, searches>>, edits' = edits + 1 PROVE RetriesInv'
  <2>1. ListIsNew
    BY <1>1, <1>5 DEF ListIsNew
  <2>2. QED
    BY <1>2, <1>5, <2>1
<1>6. ASSUME NEW l \in Lines, NEW refund \in Packages, NEW stock \in Packages, AddLine(l, refund, stock)
      PROVE  RetriesInv'
  BY <1>5, <1>6 DEF AddLine
<1>7. ASSUME NEW i \in DOMAIN staged, Unstage(i) PROVE RetriesInv'
  BY <1>5, <1>7 DEF Unstage
<1>8. ASSUME NEW m \in Methods, ChooseMethod(m) PROVE RetriesInv'
  BY <1>5, <1>8 DEF ChooseMethod
<1>9. ASSUME UNCHANGED <<staged, method, attempt, edits, searches, shown, cached>>,
             \A x \in Sent' : \E y \in Sent : SameSending(x, y)
      PROVE  RetriesInv'
  <2>1. ListStays
    BY <1>9 DEF ListStays, Mounted
  <2>2. edits' >= edits /\ searches' >= searches
    BY <1>1, <1>9
  <2>3. QED
    BY <1>9, <2>1, <2>2, NothingIsSent
<1>10. ASSUME AskToConfirm \/ CloseDay \/ \E l \in Lines : Elsewhere(l) PROVE RetriesInv'
  <2>1. UNCHANGED <<made, req, late, staged, method, attempt, edits, searches, shown, cached>>
    BY <1>10 DEF AskToConfirm, CloseDay, Elsewhere
  <2>2. Sent' \subseteq Sent
    BY <2>1 DEF Sent, InFlight
  <2>3. QED
    BY <1>9, <2>1, <2>2, NoneIsSent
<1>11. ASSUME NEW r \in Requests, r \in Sent, made' = made \/ made' = made \cup {Return(r)}, late' \subseteq late,
              UNCHANGED <<staged, method, attempt, edits, searches, shown, cached>>,
              \A x \in InFlight' : \E y \in InFlight : SameSending(x, y)
       PROVE  RetriesInv'
  <2>1. SameSending(Return(r), r) /\ \A y \in Sent : SameSending(y, y)
    BY ReturnType DEF SameSending
  <2>2. ASSUME NEW x \in Sent' PROVE \E y \in Sent : SameSending(x, y)
    <3>1. x \in Sent \/ x = Return(r) \/ x \in InFlight'
      BY <1>11 DEF Sent
    <3>2. InFlight \subseteq Sent
      BY DEF Sent
    <3>3. QED
      BY <1>11, <2>1, <3>1, <3>2
  <2>3. QED
    BY <1>9, <1>11, <2>2
<1>12. ASSUME req # None, NEW stage \in {"answered", "refused", "lost"}, req' = [req EXCEPT !.stage = stage]
       PROVE  req \in Requests /\ \A x \in InFlight' : \E y \in InFlight : SameSending(x, y)
  <2>1. req \in Requests
    BY <1>12 DEF TypeOK
  <2>2. SameSending(req', req)
    BY <1>12, <2>1 DEF SameSending, Requests
  <2>3. QED
    BY <1>12, <2>1, <2>2 DEF InFlight
<1>13. ASSUME Served PROVE RetriesInv'
  <2>1. PICK answered \in BOOLEAN :
          Serve(req, answered) /\ req' = [req EXCEPT !.stage = IF answered THEN "answered" ELSE "refused"]
    BY <1>13 DEF Served
  <2>2. req # None /\ UNCHANGED <<staged, method, attempt, edits, searches, shown, cached, late>>
    BY <1>13 DEF Served
  <2>3. made' = made \/ made' = made \cup {Return(req)}
    BY <2>1, ServedReturns
  <2>4. req \in Sent
    BY <2>2 DEF Sent, InFlight
  <2>5. \A x \in InFlight' : \E y \in InFlight : SameSending(x, y)
    BY <1>12, <2>1, <2>2
  <2>6. req \in Requests
    BY <2>2 DEF TypeOK
  <2>7. QED
    BY <1>11, <2>2, <2>3, <2>4, <2>5, <2>6
<1>14. ASSUME Lose PROVE RetriesInv'
  <2>1. req # None /\ req' = [req EXCEPT !.stage = "lost"]
        /\ UNCHANGED <<made, staged, method, attempt, edits, searches, shown, cached, late>>
    BY <1>14 DEF Lose
  <2>2. req \in Sent
    BY <2>1 DEF Sent, InFlight
  <2>3. req \in Requests /\ \A x \in InFlight' : \E y \in InFlight : SameSending(x, y)
    BY <1>12, <2>1
  <2>4. QED
    BY <1>11, <2>1, <2>2, <2>3
<1>15. ASSUME NEW r \in late, ServedLate(r) PROVE RetriesInv'
  <2>1. UNCHANGED <<staged, method, attempt, edits, searches, shown, cached, req>> /\ late' \subseteq late
    BY <1>15 DEF ServedLate
  <2>2. made' = made \/ made' = made \cup {Return(r)}
    BY <1>15, ServedReturns DEF ServedLate
  <2>3. r \in Requests /\ r \in Sent
    BY DEF TypeOK, Sent
  <2>4. \A x \in InFlight' : \E y \in InFlight : SameSending(x, y)
    <3>1. InFlight' = InFlight
      BY <2>1 DEF InFlight
    <3>2. QED
      BY <3>1 DEF SameSending
  <2>5. QED
    BY <1>11, <2>1, <2>2, <2>3, <2>4
<1>16. ASSUME req' = None, UNCHANGED <<made, late>> PROVE \A x \in Sent' : \E y \in Sent : SameSending(x, y)
  <2>1. Sent' \subseteq Sent
    BY <1>16 DEF Sent, InFlight
  <2>2. QED
    BY <2>1, NoneIsSent
<1>17. ASSUME Succeed PROVE RetriesInv'
  <2>1. req' = None /\ UNCHANGED <<made, late, searches>>
    BY <1>17 DEF Succeed
  <2>2. \A x \in Sent' : \E y \in Sent : SameSending(x, y)
    BY <1>16, <2>1
  <2>3. CASE Mounted(shown, cached)
    <3>1. edits' = edits + 1
      BY <1>17, <2>3 DEF Succeed
    <3>2. ListIsNew /\ edits' >= edits /\ searches' >= searches
      BY <1>1, <2>1, <3>1 DEF ListIsNew
    <3>3. QED
      BY <2>2, <3>2, NothingIsSent
  <2>4. CASE ~Mounted(shown, cached)
    <3>1. edits' = edits
      BY <1>17, <2>4 DEF Succeed, KeepForm
    <3>2. \A x \in Sent : ~OfThisList(x)
      BY <2>4 DEF RetriesInv, AttemptIsRemembered
    <3>3. ListWasNotSent /\ edits' >= edits /\ searches' >= searches
      BY <1>1, <2>1, <3>1, <3>2 DEF ListWasNotSent
    <3>4. QED
      BY <2>2, <3>3, NothingIsSent
  <2>5. QED
    BY <2>3, <2>4
<1>18. ASSUME Fail PROVE RetriesInv'
  <2>1. req' = None /\ UNCHANGED <<made, late, staged, method, attempt, edits, searches, shown, cached>>
    BY <1>18 DEF Fail, KeepForm
  <2>2. QED
    BY <1>9, <1>16, <2>1
<1>19. ASSUME Leave PROVE RetriesInv'
  <2>1. /\ req' = None /\ made' = made /\ searches' = searches + 1 /\ edits' = edits + 1
        /\ late' \subseteq late \cup InFlight
    BY <1>19 DEF Leave, EmptyForm, InFlight
  <2>2. Sent' \subseteq Sent
    BY <2>1 DEF Sent, InFlight
  <2>3. ListIsNew /\ edits' >= edits /\ searches' >= searches
    BY <1>1, <2>1 DEF ListIsNew
  <2>4. QED
    BY <2>2, <2>3, NoneIsSent, NothingIsSent
<1>20. ASSUME BackToPanel \/ \E s \in Sales \cup {None} : SearchAtTill(s) \/ SearchInPanel(s) PROVE RetriesInv'
  BY <1>3, <1>20 DEF SearchAtTill, SearchInPanel, BackToPanel
<1>21. QED
  BY <1>4, <1>6, <1>7, <1>8, <1>10, <1>13, <1>14, <1>15, <1>17, <1>18, <1>19, <1>20 DEF Next

-----------------------------------------------------------------------------
(* The server, and the form                                                 *)

LEMMA ServerKeepsBooks ==
    ASSUME RefundsAssumption, TypeOK, NeverMoreThanSold, KeysRegisterOnce, Next
    PROVE  NeverMoreThanSold' /\ KeysRegisterOnce'
<1>1. ASSUME NEW r \in Requests, NEW answered \in BOOLEAN, Serve(r, answered)
      PROVE  NeverMoreThanSold' /\ KeysRegisterOnce'
  <2>1. NeverMoreThanSold'
    BY <1>1, ServerTypes
  <2>2. CASE made' = made
    BY <2>1, <2>2 DEF KeysRegisterOnce
  <2>3. CASE Claimed(r) = {} /\ made' = made \cup {Return(r)}
    <3>1. \A m \in made : m.key # r.key
      BY <2>3 DEF Claimed
    <3>2. Return(r).key = r.key
      BY ReturnType
    <3>3. KeysRegisterOnce'
      BY <2>3, <3>1, <3>2 DEF KeysRegisterOnce
    <3>4. QED
      BY <2>1, <3>3
  <2>4. QED
    BY <1>1, <2>2, <2>3, ServedReturns
<1>2. ASSUME UNCHANGED <<refunded, returned, made>> PROVE NeverMoreThanSold' /\ KeysRegisterOnce'
  BY <1>2 DEF NeverMoreThanSold, KeysRegisterOnce
<1>3. ASSUME Served PROVE NeverMoreThanSold' /\ KeysRegisterOnce'
  <2>1. req \in Requests
    BY <1>3 DEF Served, TypeOK
  <2>2. QED
    BY <1>1, <1>3, <2>1 DEF Served
<1>4. ASSUME NEW r \in late, ServedLate(r) PROVE NeverMoreThanSold' /\ KeysRegisterOnce'
  <2>1. r \in Requests
    BY DEF TypeOK
  <2>2. QED
    BY <1>1, <1>2, <1>4, <2>1 DEF ServedLate
<1>5. ASSUME NEW l \in Lines, Elsewhere(l) PROVE NeverMoreThanSold' /\ KeysRegisterOnce'
  <2>1. refunded \in [Lines -> Nat] /\ Bought \in [Lines -> Nat]
    BY DEF TypeOK, RefundsAssumption
  <2>2. refunded[l] < Bought[l] /\ refunded' = [refunded EXCEPT ![l] = @ + 1] /\ UNCHANGED <<returned, made>>
    BY <1>5 DEF Elsewhere
  <2>3. NeverMoreThanSold'
    BY <2>1, <2>2 DEF NeverMoreThanSold
  <2>4. QED
    BY <2>2, <2>3 DEF KeysRegisterOnce
<1>6. QED
  <2> USE DEF server
  <2>1. CASE \E s \in Sales \cup {None} : SearchAtTill(s) \/ SearchInPanel(s)
    BY <1>2, <2>1 DEF SearchAtTill, SearchInPanel, Look
  <2>2. CASE BackToPanel
    BY <1>2, <2>2 DEF BackToPanel, Look
  <2>3. CASE ReadSale \/ AskToConfirm \/ Submit \/ Lose \/ Succeed \/ Fail \/ Leave \/ CloseDay
    BY <1>2, <2>3 DEF ReadSale, AskToConfirm, Submit, Lose, Succeed, Fail, Leave, CloseDay
  <2>4. CASE \E l \in Lines, refund, stock \in Packages : AddLine(l, refund, stock)
    BY <1>2, <2>4 DEF AddLine
  <2>5. CASE (\E i \in DOMAIN staged : Unstage(i)) \/ (\E m \in Methods : ChooseMethod(m))
    BY <1>2, <2>5 DEF Unstage, ChooseMethod
  <2>6. QED
    BY <1>3, <1>4, <1>5, <2>1, <2>2, <2>3, <2>4, <2>5 DEF Next

LEMMA FormKept ==
    ASSUME RefundsAssumption, TypeOK, FormIsEmpty, Next
    PROVE  FormIsEmpty'
<1> USE DEF server, form, screen
<1>1. ASSUME NEW s \in Sales \cup {None}, Look(s) PROVE FormIsEmpty'
  <2>1. shown' = s /\ cached' = cached
    BY <1>1 DEF Look
  <2>2. Mounted(s, cached) \/ staged' = <<>>
    BY <1>1 DEF Look, EmptyForm
  <2>3. QED
    BY <2>1, <2>2 DEF FormIsEmpty, Mounted
<1>2. ASSUME UNCHANGED <<staged, shown, cached>> PROVE FormIsEmpty'
  BY <1>2 DEF FormIsEmpty, Mounted
<1>3. ASSUME Mounted(shown, cached), UNCHANGED <<shown, cached>> PROVE FormIsEmpty'
  BY <1>3 DEF FormIsEmpty, Mounted
<1>4. CASE ReadSale
  <2> DEFINE read == [refunded |-> refunded, returned |-> returned]
  <2>1. read \in Reads
    BY DEF TypeOK, Reads
  <2>2. cached' = [cached EXCEPT ![shown] = read] /\ shown \in Sales /\ shown' = shown /\ shown # None
    BY <1>4 DEF ReadSale, TypeOK
  <2> HIDE DEF read
  <2>3. read # None
    BY <2>1 DEF RefundsAssumption
  <2>4. Mounted(shown, cached)'
    BY <2>2, <2>3 DEF TypeOK, Mounted
  <2>5. QED
    BY <2>4 DEF FormIsEmpty
<1>5. CASE \E s \in Sales \cup {None} : SearchAtTill(s) \/ SearchInPanel(s)
  BY <1>1, <1>5 DEF SearchAtTill, SearchInPanel
<1>6. CASE BackToPanel
  BY <1>1, <1>6 DEF BackToPanel
<1>7. CASE \E l \in Lines, refund, stock \in Packages : AddLine(l, refund, stock)
  BY <1>3, <1>7 DEF AddLine
<1>8. CASE (\E i \in DOMAIN staged : Unstage(i)) \/ (\E m \in Methods : ChooseMethod(m))
  BY <1>3, <1>8 DEF Unstage, ChooseMethod
<1>9. CASE AskToConfirm \/ Submit \/ Served \/ Lose \/ Fail \/ CloseDay
  BY <1>2, <1>9 DEF AskToConfirm, Submit, Served, Lose, Fail, KeepForm, CloseDay
<1>10. CASE Succeed
  BY <1>2, <1>3, <1>10 DEF Succeed, KeepForm
<1>11. CASE Leave
  BY <1>11 DEF Leave, EmptyForm, FormIsEmpty
<1>12. CASE (\E r \in late : ServedLate(r)) \/ (\E l \in Lines : Elsewhere(l))
  BY <1>2, <1>12 DEF ServedLate, Elsewhere
<1>13. QED
  BY <1>4, <1>5, <1>6, <1>7, <1>8, <1>9, <1>10, <1>11, <1>12 DEF Next

-----------------------------------------------------------------------------
(* The properties                                                           *)

LEMMA RefundsInit == ASSUME RefundsAssumption, Init PROVE RefundsInv
<1> USE DEF Init
<1>1. TypeOK
  <2>1. <<>> \in Seq(StagedLines)
    OBVIOUS
  <2>2. {refunded, returned} \subseteq [Lines -> Nat] /\ {edits, searches, elsewhere} \subseteq Nat
        /\ drawn \in 0..LastKey
    BY DEF RefundsAssumption
  <2>3. QED
    BY <2>1, <2>2 DEF TypeOK, Methods
<1>2. NeverMoreThanSold
  BY DEF NeverMoreThanSold, RefundsAssumption
<1>3. Sent = {} /\ KeysRegisterOnce /\ FormIsEmpty
  BY DEF Sent, InFlight, KeysRegisterOnce, FormIsEmpty
<1>4. RetriesInv
  BY <1>3 DEF RetriesInv, ListsHaveOneKey, SentBefore, AttemptIsRemembered
<1>5. QED
  BY <1>1, <1>2, <1>3, <1>4 DEF RefundsInv

LEMMA RefundsStep == ASSUME RefundsAssumption, RefundsInv, [Next]_vars PROVE RefundsInv'
<1>1. CASE Next
  <2>1. TypeOK'
    BY <1>1, TypesKept DEF RefundsInv
  <2>2. NeverMoreThanSold' /\ KeysRegisterOnce' /\ FormIsEmpty'
    BY <1>1, ServerKeepsBooks, FormKept DEF RefundsInv
  <2>3. RetriesInv'
    BY <1>1, <2>1, SubmitKeepsLists, OthersKeepLists DEF RefundsInv
  <2>4. QED
    BY <2>1, <2>2, <2>3 DEF RefundsInv
<1>2. CASE UNCHANGED vars
  <2> USE DEF vars, server, form, screen
  <2>1. TypeOK' /\ NeverMoreThanSold' /\ KeysRegisterOnce' /\ FormIsEmpty'
    BY <1>2 DEF RefundsInv, TypeOK, NeverMoreThanSold, KeysRegisterOnce, FormIsEmpty, Mounted
  <2>2. Sent' = Sent /\ Payload' = Payload /\ (Mounted(shown, cached) => Mounted(shown, cached)')
    BY <1>2 DEF Sent, InFlight, Payload, HasEconomicEffect, Mounted
  <2>3. RetriesInv'
    BY <1>2, <2>2
       DEF RefundsInv, RetriesInv, ListsHaveOneKey, SentBefore, AttemptIsRemembered, OfThisList
  <2>4. QED
    BY <2>1, <2>3 DEF RefundsInv
<1>3. QED
  BY <1>1, <1>2

(* However stale the lines on the screen are, and whatever is lost, tried    *)
(* again or returned by others, no more goes back than was sold, and the     *)
(* list on the screen is registered once (create_return; PosReturnsPage and  *)
(* ReturnsPage, with the attempt kept across errors).                       *)
THEOREM ReturnsCountOnce == ASSUME RefundsAssumption PROVE Spec => []RetriesCountOnce
<1>1. RefundsInv => RetriesCountOnce
  <2>1. ASSUME RefundsInv, NEW a \in made, NEW b \in made, a.edit = b.edit, a.search = b.search PROVE a = b
    <3>1. a \in Sent /\ b \in Sent
      BY DEF Sent
    <3>2. a.key = b.key
      BY <2>1, <3>1 DEF RefundsInv, RetriesInv, ListsHaveOneKey
    <3>3. QED
      BY <2>1, <3>2 DEF RefundsInv, KeysRegisterOnce
  <2>2. QED
    BY <2>1 DEF RefundsInv, RetriesCountOnce, RetryRegistersOnce
<1>2. QED
  BY <1>1, RefundsInit, RefundsStep, PTL DEF Spec

(* A list that was registered and answered is gone from the form, whether    *)
(* its sale is still on the screen or another that is being read             *)
(* (submissionSucceeded in CreateReturnForm).                               *)
THEOREM AnsweredListsGo == ASSUME RefundsAssumption PROVE Spec => AnsweredListIsGone
<1>1. RefundsInv /\ [Next]_vars => [ListGone]_vars
  <2>1. ASSUME RefundsInv, Succeed PROVE staged' = <<>>
    <3>1. CASE Mounted(shown, cached)
      BY <2>1, <3>1 DEF Succeed
    <3>2. CASE ~Mounted(shown, cached)
      BY <2>1, <3>2 DEF Succeed, KeepForm, form, RefundsInv, FormIsEmpty
    <3>3. QED
      BY <3>1, <3>2
  <2>2. QED
    BY <2>1 DEF ListGone
<1>2. QED
  BY <1>1, RefundsInit, RefundsStep, PTL DEF Spec, AnsweredListIsGone

-----------------------------------------------------------------------------
(* The closing of the day *)

\* What a closing that has read the day counts on until its commit
CountsOnDay(b) == closing[b] # Unset /\ closing[b].stage = "read"

ReadersHoldTheDay ==
    /\ \A b \in Browsers : CountsOnDay(b) =>
          /\ closing[b].day = day
          /\ DayOpen(closing[b].warehouse)
          /\ closing[b].sales = SalesOf(closing[b].warehouse)
    /\ \A b, c \in Browsers :
          (CountsOnDay(b) /\ CountsOnDay(c) /\ closing[b].warehouse = closing[c].warehouse) => b = c

ZsOfThePast == IsFiniteSet(zs) /\ \A z \in zs : z.day <= day

DaysInv == ZsOfThePast /\ ReadersHoldTheDay /\ OneZPerDay /\ ZCountsTheDay

\* What a dialog keeps of its attempt
KeysAreDrawn ==
    /\ \A z \in zs : z.key <= keysDrawn
    /\ \A b \in Browsers : closeKey[b] # Unset => closeKey[b] <= keysDrawn
    /\ \A b, c \in Browsers : (b # c /\ closeKey[b] # Unset) => closeKey[b] # closeKey[c]

AttemptOf(b) ==
    /\ (SelectionOpen(b) \/ mode[b] = Unset) => (tried[b] = {} /\ closing[b] = Unset /\ closeKey[b] = Unset)
    /\ closeKey[b] # Unset => tried[b] = {closeKey[b]}
    /\ closeKey[b] = Unset => (tried[b] = {} \/ closed[b] # Unset)
    /\ closed[b] # Unset => (closing[b] = Unset /\ closeKey[b] = Unset)

ClosingOf(b) ==
    closing[b] # Unset =>
        /\ closing[b].key = closeKey[b]
        /\ closing[b].warehouse = WarehouseOf[Selected(b)]
        /\ closing[b].stage = "done" => closing[b].got # Unset
        /\ closing[b].stage \in {"read", "refused"} => \A z \in zs : z.key # closing[b].key

ZOfAttempt(b) == \A z \in zs : (closeKey[b] # Unset /\ z.key = closeKey[b]) => z.warehouse = WarehouseOf[Selected(b)]

DialogOf(b) == AttemptOf(b) /\ ClosingOf(b) /\ ZOfAttempt(b)

DialogsInv == KeysAreDrawn /\ \A b \in Browsers : DialogOf(b)

ClosingInv == ClosingTypeOK /\ DaysInv /\ DialogsInv

-----------------------------------------------------------------------------
LEMMA SalesCounted ==
    ASSUME ClosingAssumption, ClosingTypeOK, NEW w
    PROVE  SalesOf(w) \in Nat
<1>1. TillsOf(w) \in SUBSET Terminals /\ IsFiniteSet(TillsOf(w)) /\ {} \in SUBSET TillsOf(w)
  BY FS_Subset DEF TillsOf, ClosingAssumption
<1>2. charges \in [Terminals -> Nat] /\ charges \in [Terminals -> Int]
  BY DEF ClosingTypeOK
<1>3. SumFunctionOnSet(charges, {}) = 0
  BY <1>1, <1>2, SumAdds
<1>4. SumFunctionOnSet(charges, TillsOf(w)) \in Int /\ 0 <= SumFunctionOnSet(charges, TillsOf(w))
  BY <1>1, <1>2, <1>3, SumGrows
<1>5. QED
  BY <1>4 DEF SalesOf

(* A charge at a till of one warehouse is in no total of another.           *)
LEMMA SalesOfSame ==
    ASSUME ClosingAssumption, NEW w,
           NEW f \in [Terminals -> Int], NEW g \in [Terminals -> Int], \A t \in TillsOf(w) : f[t] = g[t]
    PROVE  SumFunctionOnSet(f, TillsOf(w)) = SumFunctionOnSet(g, TillsOf(w))
<1>1. TillsOf(w) \in SUBSET (Terminals \cap Terminals) /\ IsFiniteSet(TillsOf(w))
  BY FS_Subset DEF TillsOf, ClosingAssumption
<1>2. QED
  BY <1>1, SumSame

LEMMA SalesElsewhere ==
    ASSUME ClosingAssumption, ClosingTypeOK, NEW t \in Terminals, NEW w, WarehouseOf[t] # w,
           charges' = [charges EXCEPT ![t] = @ + 1]
    PROVE  SalesOf(w)' = SalesOf(w)
<1>1. TillsOf(w) \in SUBSET (Terminals \cap Terminals) /\ IsFiniteSet(TillsOf(w)) /\ t \notin TillsOf(w)
  BY FS_Subset DEF TillsOf, ClosingAssumption
<1>2. charges \in [Terminals -> Int] /\ charges' \in [Terminals -> Int]
  BY DEF ClosingTypeOK
<1>3. \A u \in TillsOf(w) : charges[u] = charges'[u]
  BY <1>1, <1>2
<1>4. SumFunctionOnSet(charges, TillsOf(w)) = SumFunctionOnSet(charges', TillsOf(w))
  BY <1>2, <1>3, SalesOfSame
<1>5. QED
  BY <1>4 DEF SalesOf, TillsOf

LEMMA AnswersTyped ==
    ASSUME ClosingTypeOK, NEW b \in Browsers, closing[b] # Unset,
           NEW s \in Stages, NEW z \in Reports \cup {Unset}, Answer(b, s, z)
    PROVE  /\ closing' \in [Browsers -> Closings \cup {Unset}]
           /\ closing'[b] = [closing[b] EXCEPT !.stage = s, !.got = z]
           /\ \A c \in Browsers \ {b} : closing'[c] = closing[c]
<1>1. closing \in [Browsers -> Closings \cup {Unset}] /\ closing[b] \in Closings
  BY DEF ClosingTypeOK
<1>2. [closing[b] EXCEPT !.stage = s, !.got = z] \in Closings
  BY <1>1 DEF Closings
<1>3. closing' = [closing EXCEPT ![b] = [closing[b] EXCEPT !.stage = s, !.got = z]]
  BY <1>1 DEF Answer, Closings
<1>4. QED
  BY <1>1, <1>2, <1>3

LEMMA RemountTyped ==
    ASSUME ClosingTypeOK, NEW b \in Browsers, Remount(b)
    PROVE  /\ preview' \in [Browsers -> Summaries \cup {Unset}]
           /\ closed' \in [Browsers -> Reports \cup {Unset}]
           /\ closeKey' \in [Browsers -> CloseKeys \cup {Unset}]
           /\ closeError' \in [Browsers -> BOOLEAN]
           /\ tried' \in [Browsers -> SUBSET CloseKeys]
           /\ closing' \in [Browsers -> Closings \cup {Unset}]
BY DEF ClosingTypeOK, Remount

(* Types are kept.                                                          *)
LEMMA ClosingTypesKept ==
    ASSUME ClosingAssumption, ClosingTypeOK, ZsOfThePast, ClosingNext
    PROVE  ClosingTypeOK'
<1> USE DEF shopVars, dialog
<1>1. ASSUME NEW b \in Browsers, ReadDay(b) PROVE ClosingTypeOK'
  <2>1. closing[b] \in Closings /\ closing[b] # Unset /\ closing \in [Browsers -> Closings \cup {Unset}]
    BY <1>1 DEF ReadDay, ClosingTypeOK
  <2>2. SalesOf(closing[b].warehouse) \in Nat
    BY SalesCounted
  <2>3. [closing[b] EXCEPT !.stage = "read", !.day = day, !.sales = SalesOf(closing[b].warehouse)] \in Closings
    BY <2>1, <2>2 DEF Closings, ClosingTypeOK, Stages
  <2>4. \/ \E s \in {"done", "refused"} : \E z \in zs \cup {Unset} : Answer(b, s, z)
        \/ closing' = [closing EXCEPT ![b].stage = "read", ![b].day = day, ![b].sales = SalesOf(closing[b].warehouse)]
    BY <1>1 DEF ReadDay
  <2>5. closing' \in [Browsers -> Closings \cup {Unset}]
    <3>1. CASE \E s \in {"done", "refused"} : \E z \in zs \cup {Unset} : Answer(b, s, z)
      <4>1. PICK s \in {"done", "refused"}, z \in zs \cup {Unset} : Answer(b, s, z)
        BY <3>1
      <4>2. s \in Stages /\ z \in Reports \cup {Unset}
        BY DEF ClosingTypeOK, Stages
      <4>3. QED
        BY <2>1, <4>1, <4>2, AnswersTyped
    <3>2. CASE closing' = [closing EXCEPT ![b].stage = "read", ![b].day = day, ![b].sales = SalesOf(closing[b].warehouse)]
      BY <2>1, <2>3, <3>2 DEF Closings
    <3>3. QED
      BY <2>4, <3>1, <3>2
  <2>6. QED
    BY <1>1, <2>5 DEF ReadDay, ClosingTypeOK
<1>2. ASSUME NEW b \in Browsers, Commit(b) PROVE ClosingTypeOK'
  <2> DEFINE r == closing[b]
             z == [warehouse |-> r.warehouse, day |-> r.day, key |-> r.key, sales |-> r.sales,
                   number |-> Cardinality({y \in zs : y.warehouse = r.warehouse}) + 1]
  <2>1. r \in Closings /\ r # Unset /\ zs' = zs \cup {z} /\ Answer(b, "done", z)
    BY <1>2 DEF Commit, ClosingTypeOK
  <2>2. Cardinality({y \in zs : y.warehouse = r.warehouse}) \in Nat
    BY FS_Subset, FS_CardinalityType DEF ZsOfThePast
  <2>3. z \in Reports
    BY <2>1, <2>2 DEF Closings, Reports
  <2>4. closing' \in [Browsers -> Closings \cup {Unset}]
    BY <2>1, <2>3, AnswersTyped DEF Stages
  <2>5. QED
    BY <1>2, <2>1, <2>3, <2>4 DEF Commit, ClosingTypeOK
<1>3. ASSUME NEW b \in Browsers, LoseClosing(b) PROVE ClosingTypeOK'
  <2>1. closing' \in [Browsers -> Closings \cup {Unset}]
    BY <1>3, AnswersTyped DEF LoseClosing, Stages
  <2>2. QED
    BY <1>3, <2>1 DEF LoseClosing, ClosingTypeOK
<1>4. ASSUME NEW b \in Browsers, HoldLine(b) \/ Charge(b) PROVE ClosingTypeOK'
  <2>1. PICK open \in BOOLEAN : held' = [held EXCEPT ![configured[b]] = open]
    BY <1>4 DEF HoldLine, Charge
  <2>2. held' \in [Terminals -> BOOLEAN]
    BY <2>1 DEF ClosingTypeOK
  <2>3. charges' \in [Terminals -> Nat]
    BY <1>4 DEF HoldLine, Charge, ClosingTypeOK
  <2>4. QED
    BY <1>4, <2>2, <2>3 DEF HoldLine, Charge, ClosingTypeOK
<1>5. ASSUME NEW t \in Terminals, Switch(t) PROVE ClosingTypeOK'
  <2>1. active' \subseteq Terminals /\ switches' \in 0..LastSwitch
    BY <1>5 DEF Switch, ClosingTypeOK, ClosingAssumption
  <2>2. QED
    BY <1>5, <2>1 DEF Switch, ClosingTypeOK
<1>6. ASSUME Midnight PROVE ClosingTypeOK'
  <2>1. day' \in Days /\ charges' \in [Terminals -> Nat]
    BY <1>6 DEF Midnight, ClosingTypeOK, Days, ClosingAssumption
  <2>2. QED
    BY <1>6, <2>1 DEF Midnight, ClosingTypeOK
<1>7. ASSUME NEW b \in Browsers, Poll(b) PROVE ClosingTypeOK'
  <2>1. listed' \in [Browsers -> (SUBSET Terminals) \cup {Unset}]
    BY <1>7 DEF Poll, ClosingTypeOK
  <2>2. Remount(b) \/ UNCHANGED <<preview, closed, closeKey, closeError, tried, closing>>
    BY <1>7 DEF Poll, KeepDialog
  <2>3. CASE Remount(b)
    BY <1>7, <2>1, <2>3, RemountTyped DEF Poll, ClosingTypeOK
  <2>4. CASE UNCHANGED <<preview, closed, closeKey, closeError, tried, closing>>
    BY <1>7, <2>1, <2>4 DEF Poll, ClosingTypeOK
  <2>5. QED
    BY <2>2, <2>3, <2>4
<1>8. ASSUME NEW b \in Browsers, ChangeTerminal(b) \/ \E t \in Terminals : SelectTerminal(b, t)
      PROVE  ClosingTypeOK'
  <2>1. configured' \in [Browsers -> Terminals \cup {Unset}] /\ changing' \in [Browsers -> BOOLEAN]
    BY <1>8 DEF ChangeTerminal, SelectTerminal, ClosingTypeOK
  <2>2. QED
    BY <1>8, <2>1 DEF ChangeTerminal, SelectTerminal, ClosingTypeOK
<1>9. ASSUME NEW b \in Browsers, NEW m \in {"X", "Z"}, OpenDialog(b, m) PROVE ClosingTypeOK'
  <2>1. /\ mode' \in [Browsers -> {"X", "Z", Unset}]
        /\ preview' \in [Browsers -> Summaries \cup {Unset}]
        /\ closed' \in [Browsers -> Reports \cup {Unset}]
        /\ closeKey' \in [Browsers -> CloseKeys \cup {Unset}]
        /\ closeError' \in [Browsers -> BOOLEAN]
        /\ tried' \in [Browsers -> SUBSET CloseKeys]
    BY <1>9 DEF OpenDialog, ClosingTypeOK
  <2>2. QED
    BY <1>9, <2>1 DEF OpenDialog, ClosingTypeOK
<1>10. ASSUME NEW b \in Browsers, ReadPreview(b) PROVE ClosingTypeOK'
  <2> DEFINE w == WarehouseOf[Selected(b)]
  <2>1. PICK final \in IF DayOpen(w) THEN {Unset} ELSE ReportOf(w, day) :
            preview' = [preview EXCEPT ![b] = [warehouse |-> w, final |-> final, open |-> OpenSales(w) # {}]]
    BY <1>10 DEF ReadPreview
  <2>2. Selected(b) \in Terminals
    BY <1>10 DEF ReadPreview, Dialog, SelectionOpen, Selected, ClosingTypeOK, ClosingAssumption
  <2>3. final \in Reports \cup {Unset}
    BY <2>1 DEF ReportOf, ClosingTypeOK
  <2>4. [warehouse |-> w, final |-> final, open |-> OpenSales(w) # {}] \in Summaries
    BY <2>2, <2>3 DEF Summaries, Warehouses
  <2>5. preview' \in [Browsers -> Summaries \cup {Unset}]
    BY <2>1, <2>4 DEF ClosingTypeOK
  <2>6. QED
    BY <1>10, <2>5 DEF ReadPreview, ClosingTypeOK
<1>11. ASSUME NEW b \in Browsers, Finalize(b) PROVE ClosingTypeOK'
  <2> DEFINE underKey(k) == [warehouse |-> WarehouseOf[Selected(b)], key |-> k, day |-> day, stage |-> "sent",
                         sales |-> 0, got |-> Unset]
  <2>1. PICK k \in IF closeKey[b] # Unset THEN {closeKey[b]} ELSE {keysDrawn + 1} \cap CloseKeys :
          /\ closeKey' = [closeKey EXCEPT ![b] = k]
          /\ tried' = [tried EXCEPT ![b] = @ \cup {k}]
          /\ keysDrawn' = IF k > keysDrawn THEN k ELSE keysDrawn
          /\ closing' = [closing EXCEPT ![b] = underKey(k)]
    BY <1>11 DEF Finalize
  <2>2. k \in CloseKeys
    BY <2>1 DEF ClosingTypeOK
  <2>3. Selected(b) \in Terminals
    BY <1>11 DEF Finalize, Dialog, SelectionOpen, Selected, ClosingTypeOK, ClosingAssumption
  <2>4. underKey(k) \in Closings
    BY <2>2, <2>3 DEF Closings, Warehouses, Stages, ClosingTypeOK
  <2>5. keysDrawn' \in 0..LastClosing
    BY <2>1, <2>2 DEF ClosingTypeOK, CloseKeys, ClosingAssumption
  <2>6. closing' \in [Browsers -> Closings \cup {Unset}]
    BY <2>1, <2>4 DEF ClosingTypeOK
  <2>7. closeKey' \in [Browsers -> CloseKeys \cup {Unset}] /\ tried' \in [Browsers -> SUBSET CloseKeys]
    BY <2>1, <2>2 DEF ClosingTypeOK
  <2>8. QED
    BY <1>11, <2>5, <2>6, <2>7 DEF Finalize, ClosingTypeOK
<1>12. ASSUME NEW b \in Browsers, Closed(b) \/ NotClosed(b) PROVE ClosingTypeOK'
  <2>1. closing[b].got \in Reports \cup {Unset}
    BY <1>12 DEF Closed, NotClosed, ClosingTypeOK, Closings
  <2>2. /\ closed' \in [Browsers -> Reports \cup {Unset}]
        /\ closeKey' \in [Browsers -> CloseKeys \cup {Unset}]
        /\ closeError' \in [Browsers -> BOOLEAN]
        /\ closing' \in [Browsers -> Closings \cup {Unset}]
    BY <1>12, <2>1 DEF Closed, NotClosed, ClosingTypeOK
  <2>3. QED
    BY <1>12, <2>2 DEF Closed, NotClosed, ClosingTypeOK
<1>13. ASSUME NEW b \in Browsers, LeaveDialog(b) PROVE ClosingTypeOK'
  <2>1. mode' \in [Browsers -> {"X", "Z", Unset}]
    BY <1>13 DEF LeaveDialog, ClosingTypeOK
  <2>2. QED
    BY <1>13, <2>1, RemountTyped DEF LeaveDialog, ClosingTypeOK
<1>14. QED
  BY <1>1, <1>2, <1>3, <1>4, <1>5, <1>6, <1>7, <1>8, <1>9, <1>10, <1>11, <1>12, <1>13 DEF ClosingNext

LEMMA ClosingStarts ==
    ASSUME ClosingAssumption, ClosingInit
    PROVE  ClosingInv
<1>1. ClosingTypeOK
  <2>1. 1 \in Days /\ 0 \in 0..LastSwitch /\ 0 \in 0..LastClosing
    BY DEF ClosingAssumption, Days
  <2>2. /\ day \in Days /\ zs \subseteq Reports /\ held \in [Terminals -> BOOLEAN] /\ charges \in [Terminals -> Nat]
        /\ active \subseteq Terminals /\ switches \in 0..LastSwitch /\ keysDrawn \in 0..LastClosing
    BY <2>1 DEF ClosingInit
  <2>3. /\ configured \in [Browsers -> Terminals \cup {Unset}]
        /\ listed \in [Browsers -> (SUBSET Terminals) \cup {Unset}]
        /\ changing \in [Browsers -> BOOLEAN] /\ closeError \in [Browsers -> BOOLEAN]
        /\ mode \in [Browsers -> {"X", "Z", Unset}]
        /\ preview \in [Browsers -> Summaries \cup {Unset}]
        /\ closed \in [Browsers -> Reports \cup {Unset}]
    BY DEF ClosingInit
  <2>4. /\ closing \in [Browsers -> Closings \cup {Unset}]
        /\ closeKey \in [Browsers -> CloseKeys \cup {Unset}]
        /\ tried \in [Browsers -> SUBSET CloseKeys]
    BY DEF ClosingInit
  <2>5. QED
    BY <2>2, <2>3, <2>4 DEF ClosingTypeOK
<1>2. DaysInv
  BY FS_EmptySet DEF ClosingInit, DaysInv, ZsOfThePast, ReadersHoldTheDay, CountsOnDay, OneZPerDay, ZCountsTheDay
<1>3. DialogsInv
  BY DEF ClosingInit, DialogsInv, KeysAreDrawn, DialogOf, AttemptOf, ClosingOf, ZOfAttempt
<1>4. QED
  BY <1>1, <1>2, <1>3 DEF ClosingInv

-----------------------------------------------------------------------------
(* A step that changes no Z and no charge keeps the days, if what it lets   *)
(* count on the day did so before.                                          *)
LEMMA DaysUntouched ==
    ASSUME DaysInv, UNCHANGED <<day, zs, charges>>,
           \A b \in Browsers : CountsOnDay(b)' => (CountsOnDay(b) /\ closing'[b] = closing[b])
    PROVE  DaysInv'
<1>1. \A w : DayOpen(w)' = DayOpen(w) /\ SalesOf(w)' = SalesOf(w)
  BY DEF DayOpen, ReportOf, SalesOf, TillsOf
<1>2. ReadersHoldTheDay'
  BY <1>1 DEF DaysInv, ReadersHoldTheDay
<1>3. ZsOfThePast' /\ OneZPerDay' /\ ZCountsTheDay'
  BY <1>1 DEF DaysInv, ZsOfThePast, OneZPerDay, ZCountsTheDay
<1>4. QED
  BY <1>2, <1>3 DEF DaysInv

(* A new answer lets nobody count on the day.                               *)
LEMMA AnsweredReadsNothing ==
    ASSUME ClosingTypeOK, NEW b \in Browsers, closing[b] # Unset,
           NEW s \in Stages \ {"read"}, NEW z \in Reports \cup {Unset}, Answer(b, s, z)
    PROVE  \A c \in Browsers : CountsOnDay(c)' => (CountsOnDay(c) /\ closing'[c] = closing[c] /\ c # b)
<1>1. closing[b] \in Closings /\ closing \in [Browsers -> Closings \cup {Unset}]
  BY DEF ClosingTypeOK
<1>2. closing'[b].stage = s /\ \A c \in Browsers \ {b} : closing'[c] = closing[c]
  BY <1>1 DEF Answer, Closings
<1>3. QED
  BY <1>2 DEF CountsOnDay

LEMMA ReadKeepsDays ==
    ASSUME ClosingAssumption, ClosingTypeOK, DaysInv, NEW b \in Browsers, ReadDay(b)
    PROVE  DaysInv'
<1> DEFINE w == closing[b].warehouse
<1>1. closing[b] \in Closings /\ closing[b] # Unset /\ UNCHANGED <<day, zs, charges>>
  BY DEF ReadDay, ClosingTypeOK, shopVars
<1>2. CASE \E s \in {"done", "refused"} : \E z \in zs \cup {Unset} : Answer(b, s, z)
  <2>1. PICK s \in {"done", "refused"}, z \in zs \cup {Unset} : Answer(b, s, z)
    BY <1>2
  <2>2. s \in Stages \ {"read"} /\ z \in Reports \cup {Unset}
    BY DEF ClosingTypeOK, Stages
  <2>3. QED
    BY <1>1, <2>1, <2>2, AnsweredReadsNothing, DaysUntouched
<1>3. CASE /\ Cut(w) /\ DayOpen(w)
           /\ closing' = [closing EXCEPT ![b].stage = "read", ![b].day = day, ![b].sales = SalesOf(w)]
  <2>1. closing'[b] = [closing[b] EXCEPT !.stage = "read", !.day = day, !.sales = SalesOf(w)]
    BY <1>1, <1>3 DEF ClosingTypeOK
  <2>2. \A c \in Browsers \ {b} : closing'[c] = closing[c]
    BY <1>3 DEF ClosingTypeOK
  <2>3. closing'[b].day = day /\ closing'[b].warehouse = w /\ closing'[b].sales = SalesOf(w)
    BY <1>1, <2>1 DEF Closings
  <2>4. \A v : DayOpen(v)' = DayOpen(v) /\ SalesOf(v)' = SalesOf(v)
    BY <1>1 DEF DayOpen, ReportOf, SalesOf, TillsOf
  <2>5. \A c \in Browsers \ {b} : CountsOnDay(c)' => (CountsOnDay(c) /\ closing[c].warehouse # w)
    BY <1>3, <2>2 DEF CountsOnDay, Cut
  <2>6. ASSUME NEW c \in Browsers, CountsOnDay(c)'
        PROVE  (/\ closing[c].day = day
                /\ DayOpen(closing[c].warehouse)
                /\ closing[c].sales = SalesOf(closing[c].warehouse))'
    <3>1. CASE c = b
      BY <1>1, <1>3, <2>3, <2>4, <3>1
    <3>2. CASE c # b
      BY <1>1, <2>2, <2>4, <2>5, <2>6, <3>2 DEF DaysInv, ReadersHoldTheDay
    <3>3. QED
      BY <3>1, <3>2
  <2>7. \A c, d \in Browsers : (CountsOnDay(c)' /\ CountsOnDay(d)' /\ closing'[c].warehouse = closing'[d].warehouse) => c = d
    BY <2>2, <2>3, <2>5 DEF DaysInv, ReadersHoldTheDay
  <2>8. ReadersHoldTheDay'
    BY <2>6, <2>7 DEF ReadersHoldTheDay
  <2>9. ZsOfThePast' /\ OneZPerDay' /\ ZCountsTheDay'
    BY <1>1, <2>4 DEF DaysInv, ZsOfThePast, OneZPerDay, ZCountsTheDay
  <2>10. QED
    BY <2>8, <2>9 DEF DaysInv
<1>4. QED
  BY <1>2, <1>3 DEF ReadDay

(* Its Z is the first of the day, has the next number and counts the day.   *)
LEMMA CommitKeepsDays ==
    ASSUME ClosingAssumption, ClosingTypeOK, DaysInv, NEW b \in Browsers, Commit(b)
    PROVE  DaysInv'
<1> DEFINE r == closing[b]
           same(v) == {y \in zs : y.warehouse = v}
           z == [warehouse |-> r.warehouse, day |-> r.day, key |-> r.key, sales |-> r.sales,
                 number |-> Cardinality(same(r.warehouse)) + 1]
<1>1. r \in Closings /\ r # Unset /\ zs' = zs \cup {z} /\ Answer(b, "done", z) /\ CountsOnDay(b)
      /\ day' = day /\ charges' = charges
  BY DEF Commit, ClosingTypeOK, CountsOnDay
<1>2. IsFiniteSet(zs) /\ \A v : IsFiniteSet(same(v)) /\ Cardinality(same(v)) \in Nat
  BY FS_Subset, FS_CardinalityType DEF DaysInv, ZsOfThePast
<1> DEFINE n == Cardinality(same(r.warehouse))
<1>n. n \in Nat /\ z.number = n + 1 /\ z.warehouse = r.warehouse /\ z.day = r.day /\ z.sales = r.sales
  BY <1>2
<1>3. r.day = day /\ DayOpen(r.warehouse) /\ r.sales = SalesOf(r.warehouse)
  BY <1>1 DEF DaysInv, ReadersHoldTheDay
<1>4. z \in Reports
  BY <1>1, <1>n DEF Closings, Reports
<1>5. \A y \in zs : y.warehouse = r.warehouse => y.day # day
  BY <1>3 DEF DayOpen, ReportOf
<1>6. z \notin zs
  BY <1>3, <1>5
<1>7. /\ {y \in zs' : y.warehouse = r.warehouse} = same(r.warehouse) \cup {z}
      /\ \A v : v # r.warehouse => {y \in zs' : y.warehouse = v} = same(v)
  BY <1>1
<1>8. /\ IsFiniteSet(zs')
      /\ Cardinality({y \in zs' : y.warehouse = r.warehouse}) = n + 1
  <2>1. IsFiniteSet(zs \cup {z})
    BY <1>2, FS_AddElement
  <2>2. z \notin same(r.warehouse) /\ IsFiniteSet(same(r.warehouse))
    BY <1>2, <1>6
  <2>3. Cardinality(same(r.warehouse) \cup {z}) = n + 1
    BY <2>2, FS_AddElement
  <2>4. QED
    BY <1>1, <1>7, <2>1, <2>3
<1>9. ZsOfThePast'
  BY <1>1, <1>3, <1>8, <1>n DEF ZsOfThePast, DaysInv, ClosingTypeOK, Days
<1>10. \A y \in zs : y.number \in 1..Cardinality(same(y.warehouse))
  BY DEF DaysInv, OneZPerDay
<1>11. OneZPerDay'
  <2>1. \A x, y \in zs' : (x.warehouse = y.warehouse /\ x.day = y.day) => x = y
    BY <1>1, <1>3, <1>5, <1>n DEF DaysInv, OneZPerDay
  <2>2. ASSUME NEW y \in zs' PROVE y.number \in 1..Cardinality({x \in zs' : x.warehouse = y.warehouse})
    <3>1. CASE y = z
      BY <1>n, <1>8, <3>1
    <3>2. CASE y # z /\ y.warehouse = r.warehouse
      <4>1. y.number \in 1..n
        BY <1>1, <1>10, <3>2
      <4>2. y.number \in 1..(n + 1)
        BY <1>n, <4>1
      <4>3. QED
        BY <1>8, <3>2, <4>2
    <3>3. CASE y # z /\ y.warehouse # r.warehouse
      <4>1. {x \in zs' : x.warehouse = y.warehouse} = same(y.warehouse)
        BY <1>7, <3>3
      <4>2. QED
        BY <1>1, <1>10, <3>3, <4>1
    <3>4. QED
      BY <3>1, <3>2, <3>3
  <2>3. \A y \in zs : y.warehouse = r.warehouse => y.number # z.number
    <3>1. TAKE y \in zs
    <3>2. HAVE y.warehouse = r.warehouse
    <3>3. y.number \in 1..n
      BY <1>10, <3>2
    <3>4. QED
      BY <1>n, <3>3
  <2>4. \A x, y \in zs' : (x.warehouse = y.warehouse /\ x.number = y.number) => x = y
    BY <1>1, <1>n, <2>3 DEF DaysInv, OneZPerDay
  <2>5. QED
    BY <2>1, <2>2, <2>4 DEF OneZPerDay
<1>12. \A v : SalesOf(v)' = SalesOf(v)
  BY <1>1 DEF SalesOf, TillsOf
<1>13. ZCountsTheDay'
  BY <1>1, <1>3, <1>12, <1>n DEF DaysInv, ZCountsTheDay
<1>14. \A c \in Browsers : CountsOnDay(c)' => (CountsOnDay(c) /\ closing'[c] = closing[c] /\ c # b)
  BY <1>1, <1>4, AnsweredReadsNothing DEF Stages
<1>15. \A v : (v # r.warehouse /\ DayOpen(v)) => DayOpen(v)'
  BY <1>1 DEF DayOpen, ReportOf
<1>16. ReadersHoldTheDay'
  BY <1>1, <1>12, <1>14, <1>15 DEF DaysInv, ReadersHoldTheDay
<1>17. QED
  BY <1>9, <1>11, <1>13, <1>16 DEF DaysInv

(* Under the cut nobody has read the totals of the warehouse.               *)
LEMMA ChargeKeepsDays ==
    ASSUME ClosingAssumption, ClosingTypeOK, DaysInv, NEW b \in Browsers, Charge(b)
    PROVE  DaysInv'
<1> DEFINE t == configured[b]
           w == WarehouseOf[t]
<1>1. /\ t \in Terminals /\ Cut(w) /\ DayOpen(w) /\ charges' = [charges EXCEPT ![t] = @ + 1]
      /\ day' = day /\ zs' = zs /\ closing' = closing
  BY DEF Charge, ClosingTypeOK
<1>2. \A v : DayOpen(v)' = DayOpen(v)
  BY <1>1 DEF DayOpen, ReportOf
<1>3. \A v : v # w => SalesOf(v)' = SalesOf(v)
  BY <1>1, SalesElsewhere
<1>4. \A c \in Browsers : CountsOnDay(c) => closing[c].warehouse # w
  BY <1>1 DEF CountsOnDay, Cut
<1>5. ReadersHoldTheDay'
  BY <1>1, <1>2, <1>3, <1>4 DEF DaysInv, ReadersHoldTheDay, CountsOnDay
<1>6. \A z \in zs : z.day = day => z.warehouse # w
  BY <1>1 DEF DayOpen, ReportOf
<1>7. ZCountsTheDay'
  BY <1>1, <1>3, <1>6 DEF DaysInv, ZCountsTheDay
<1>8. ZsOfThePast' /\ OneZPerDay'
  BY <1>1 DEF DaysInv, ZsOfThePast, OneZPerDay
<1>9. QED
  BY <1>5, <1>7, <1>8 DEF DaysInv

LEMMA MidnightKeepsDays ==
    ASSUME ClosingAssumption, ClosingTypeOK, DaysInv, Midnight
    PROVE  DaysInv'
<1>1. day' = day + 1 /\ zs' = zs /\ closing' = closing /\ day \in Nat /\ \A w \in Warehouses : Cut(w)
  BY DEF Midnight, ClosingTypeOK, Days
<1>2. \A b \in Browsers : ~CountsOnDay(b)
  BY <1>1 DEF CountsOnDay, Cut, ClosingTypeOK, Closings
<1>3. ReadersHoldTheDay'
  BY <1>1, <1>2 DEF ReadersHoldTheDay, CountsOnDay
<1>4. \A z \in zs : z.day \in Nat /\ z.day <= day
  BY DEF DaysInv, ZsOfThePast, ClosingTypeOK, Reports, Days
<1>5. ZsOfThePast'
  BY <1>1, <1>4 DEF DaysInv, ZsOfThePast
<1>6. ZCountsTheDay'
  BY <1>1, <1>4 DEF ZCountsTheDay
<1>7. OneZPerDay'
  BY <1>1 DEF DaysInv, OneZPerDay
<1>8. QED
  BY <1>3, <1>5, <1>6, <1>7 DEF DaysInv

(* No other step issues a Z, charges or reads the totals of a day.          *)
LEMMA DaysKept ==
    ASSUME ClosingAssumption, ClosingTypeOK, DaysInv, ClosingNext
    PROVE  DaysInv'
<1> USE DEF shopVars, dialog
<1>1. ASSUME NEW b \in Browsers, ReadDay(b) PROVE DaysInv'
  BY <1>1, ReadKeepsDays
<1>2. ASSUME NEW b \in Browsers, Commit(b) PROVE DaysInv'
  BY <1>2, CommitKeepsDays
<1>3. ASSUME NEW b \in Browsers, Charge(b) PROVE DaysInv'
  BY <1>3, ChargeKeepsDays
<1>4. ASSUME Midnight PROVE DaysInv'
  BY <1>4, MidnightKeepsDays
<1>5. ASSUME NEW b \in Browsers, LoseClosing(b) PROVE DaysInv'
  BY <1>5, AnsweredReadsNothing, DaysUntouched DEF LoseClosing, Stages
<1>6. ASSUME NEW b \in Browsers,
             \/ Poll(b) \/ LeaveDialog(b)
             \/ HoldLine(b) \/ ChangeTerminal(b) \/ ReadPreview(b)
             \/ \E t \in Terminals : SelectTerminal(b, t)
             \/ \E m \in {"X", "Z"} : OpenDialog(b, m)
             \/ Closed(b) \/ NotClosed(b)
      PROVE  DaysInv'
  <2>1. closing' = closing \/ closing' = [closing EXCEPT ![b] = Unset]
    BY <1>6 DEF Poll, KeepDialog, Remount, LeaveDialog, HoldLine, ChangeTerminal, ReadPreview, SelectTerminal,
                OpenDialog, Closed, NotClosed
  <2>2. UNCHANGED <<day, zs, charges>>
    BY <1>6 DEF Poll, LeaveDialog, HoldLine, ChangeTerminal, ReadPreview, SelectTerminal, OpenDialog, Closed, NotClosed
  <2>3. \A c \in Browsers : CountsOnDay(c)' => (CountsOnDay(c) /\ closing'[c] = closing[c])
    BY <2>1 DEF CountsOnDay, ClosingTypeOK
  <2>4. QED
    BY <2>2, <2>3, DaysUntouched
<1>7. ASSUME NEW b \in Browsers, Finalize(b) PROVE DaysInv'
  <2>1. PICK k : closing' = [closing EXCEPT ![b] = [warehouse |-> WarehouseOf[Selected(b)], key |-> k, day |-> day,
                                                    stage |-> "sent", sales |-> 0, got |-> Unset]]
    BY <1>7 DEF Finalize
  <2>2. \A c \in Browsers : CountsOnDay(c)' => (CountsOnDay(c) /\ closing'[c] = closing[c])
    BY <2>1 DEF CountsOnDay, ClosingTypeOK
  <2>3. QED
    BY <1>7, <2>2, DaysUntouched DEF Finalize
<1>8. ASSUME NEW t \in Terminals, Switch(t) PROVE DaysInv'
  BY <1>8, DaysUntouched DEF Switch, CountsOnDay
<1>9. QED
  BY <1>1, <1>2, <1>3, <1>4, <1>5, <1>6, <1>7, <1>8 DEF ClosingNext

-----------------------------------------------------------------------------
(* What a dialog keeps, and how a step leaves it alone.                     *)
Kept(b) ==
    /\ listed'[b] = listed[b] /\ configured'[b] = configured[b] /\ changing'[b] = changing[b] /\ mode'[b] = mode[b]
    /\ closed'[b] = closed[b] /\ tried'[b] = tried[b] /\ closeKey'[b] = closeKey[b] /\ closing'[b] = closing[b]

LEMMA DialogKept ==
    ASSUME NEW b, Kept(b), DialogOf(b),
           \A z \in zs' \ zs : z.key # closeKey[b]
    PROVE  DialogOf(b)'
<1>1. Selected(b)' = Selected(b) /\ SelectionOpen(b)' = SelectionOpen(b)
  BY DEF Kept, Selected, SelectionOpen
<1>2. AttemptOf(b)'
  BY <1>1 DEF Kept, DialogOf, AttemptOf
<1>3. ClosingOf(b)'
  BY <1>1 DEF Kept, DialogOf, ClosingOf
<1>4. ZOfAttempt(b)'
  BY <1>1 DEF Kept, DialogOf, ZOfAttempt
<1>5. QED
  BY <1>2, <1>3, <1>4 DEF DialogOf

(* A dialog that is closed, or has just been opened, has tried nothing.     *)
LEMMA FreshDialog ==
    ASSUME NEW b, closing'[b] = Unset, closeKey'[b] = Unset, tried'[b] = {}
    PROVE  DialogOf(b)'
BY DEF DialogOf, AttemptOf, ClosingOf, ZOfAttempt

LEMMA KeysStayDrawn ==
    ASSUME KeysAreDrawn, zs' = zs, keysDrawn' = keysDrawn,
           \A b \in Browsers : closeKey'[b] \in {closeKey[b], Unset}
    PROVE  KeysAreDrawn'
BY DEF KeysAreDrawn

LEMMA ReadKeepsDialogs ==
    ASSUME ClosingAssumption, ClosingTypeOK, DialogsInv, NEW b \in Browsers, ReadDay(b)
    PROVE  DialogsInv'
<1> USE DEF shopVars, dialog
<1> DEFINE r == closing[b]
<1>1. /\ r \in Closings /\ r # Unset /\ closing \in [Browsers -> Closings \cup {Unset}]
      /\ UNCHANGED <<zs, listed, configured, changing, mode, closed, tried, closeKey, keysDrawn>>
  BY DEF ReadDay, ClosingTypeOK
<1>2. DialogOf(b) /\ r.key = closeKey[b] /\ r.warehouse = WarehouseOf[Selected(b)] /\ closeKey[b] # Unset
  BY <1>1 DEF DialogsInv, DialogOf, ClosingOf, Closings, CloseKeys, ClosingAssumption
<1>3. /\ closing'[b].key = r.key /\ closing'[b].warehouse = r.warehouse
      /\ \/ closing'[b].stage = "done" /\ closing'[b].got # Unset
         \/ closing'[b].stage # "done" /\ \A z \in zs : z.key # r.key
  <2>1. ASSUME NEW z \in zs, z.key = r.key, Answer(b, IF z.warehouse = r.warehouse THEN "done" ELSE "refused", z)
        PROVE  <1>3!1 /\ <1>3!2
    <3>1. z.warehouse = r.warehouse /\ z # Unset
      BY <1>2, <2>1 DEF DialogOf, ZOfAttempt, ClosingTypeOK, ClosingAssumption
    <3>2. closing'[b] = [r EXCEPT !.stage = "done", !.got = z]
      BY <1>1, <2>1, <3>1 DEF Answer, Closings
    <3>3. QED
      BY <1>1, <3>1, <3>2 DEF Closings
  <2>2. ASSUME \A z \in zs : z.key # r.key,
               \/ Answer(b, "refused", Unset)
               \/ closing' = [closing EXCEPT ![b].stage = "read", ![b].day = day, ![b].sales = SalesOf(r.warehouse)]
        PROVE  closing'[b].key = r.key /\ closing'[b].warehouse = r.warehouse /\ closing'[b].stage # "done"
    BY <1>1, <2>2 DEF Answer, Closings
  <2>3. QED
    BY <2>1, <2>2 DEF ReadDay
<1>4. \A c \in Browsers \ {b} : closing'[c] = closing[c]
  BY <1>1 DEF ReadDay, Answer
<1>5. Selected(b)' = Selected(b) /\ SelectionOpen(b)' = SelectionOpen(b)
  BY <1>1 DEF Selected, SelectionOpen
<1>6. AttemptOf(b)' /\ ClosingOf(b)' /\ ZOfAttempt(b)'
  <2>1. AttemptOf(b)'
    BY <1>1, <1>2, <1>5 DEF DialogOf, AttemptOf
  <2>2. ClosingOf(b)'
    BY <1>1, <1>2, <1>3, <1>5 DEF ClosingOf
  <2>3. ZOfAttempt(b)'
    BY <1>1, <1>2, <1>5 DEF DialogOf, ZOfAttempt
  <2>4. QED
    BY <2>1, <2>2, <2>3
<1>7. \A c \in Browsers \ {b} : DialogOf(c)'
  BY <1>1, <1>4, DialogKept DEF DialogsInv, Kept
<1>8. KeysAreDrawn'
  BY <1>1, KeysStayDrawn DEF DialogsInv
<1>9. QED
  BY <1>6, <1>7, <1>8 DEF DialogsInv, DialogOf

LEMMA CommitKeepsDialogs ==
    ASSUME ClosingAssumption, ClosingTypeOK, ZsOfThePast, DialogsInv, NEW b \in Browsers, Commit(b)
    PROVE  DialogsInv'
<1> DEFINE r == closing[b]
<1>1. /\ r \in Closings /\ r # Unset /\ closing \in [Browsers -> Closings \cup {Unset}]
      /\ UNCHANGED <<listed, configured, changing, mode, closed, tried, closeKey, keysDrawn>>
  BY DEF Commit, ClosingTypeOK, dialog
<1>2. DialogOf(b) /\ r.key = closeKey[b] /\ r.warehouse = WarehouseOf[Selected(b)] /\ closeKey[b] # Unset
  BY <1>1 DEF DialogsInv, DialogOf, ClosingOf, Closings, CloseKeys, ClosingAssumption
<1>3. PICK z \in Reports : /\ z.key = r.key /\ z.warehouse = r.warehouse
                           /\ zs' = zs \cup {z} /\ Answer(b, "done", z)
  <2>1. Cardinality({y \in zs : y.warehouse = r.warehouse}) \in Nat
    BY FS_Subset, FS_CardinalityType DEF ZsOfThePast
  <2>2. [warehouse |-> r.warehouse, day |-> r.day, key |-> r.key, sales |-> r.sales,
         number |-> Cardinality({y \in zs : y.warehouse = r.warehouse}) + 1] \in Reports
    BY <1>1, <2>1 DEF Closings, Reports
  <2>3. QED
    BY <2>2 DEF Commit
<1>4. /\ closing'[b].key = r.key /\ closing'[b].warehouse = r.warehouse
      /\ closing'[b].stage = "done" /\ closing'[b].got = z
      /\ \A c \in Browsers \ {b} : closing'[c] = closing[c]
  BY <1>1, <1>3 DEF Answer, Closings
<1>5. z # Unset
  BY DEF ClosingAssumption
<1>6. Selected(b)' = Selected(b) /\ SelectionOpen(b)' = SelectionOpen(b)
  BY <1>1 DEF Selected, SelectionOpen
<1>7. AttemptOf(b)'
  BY <1>1, <1>2, <1>6 DEF DialogOf, AttemptOf
<1>8. ClosingOf(b)'
  BY <1>1, <1>2, <1>4, <1>5, <1>6 DEF ClosingOf
<1>9. ZOfAttempt(b)'
  BY <1>1, <1>2, <1>3, <1>6 DEF DialogOf, ZOfAttempt
<1>10. \A c \in Browsers \ {b} : closeKey[b] # closeKey[c]
  BY <1>2 DEF DialogsInv, KeysAreDrawn
<1>11. ASSUME NEW c \in Browsers \ {b} PROVE DialogOf(c)'
  <2>1. Kept(c) /\ DialogOf(c)
    BY <1>1, <1>4 DEF Kept, DialogsInv
  <2>2. \A y \in zs' \ zs : y.key # closeKey[c]
    BY <1>2, <1>3, <1>10
  <2>3. QED
    BY <2>1, <2>2, DialogKept
<1>12. KeysAreDrawn'
  BY <1>1, <1>2, <1>3 DEF DialogsInv, KeysAreDrawn
<1>13. QED
  BY <1>7, <1>8, <1>9, <1>11, <1>12 DEF DialogsInv, DialogOf

(* The key of an attempt is new, or it is the one the dialog kept.          *)
LEMMA FinalizeKeepsDialogs ==
    ASSUME ClosingAssumption, ClosingTypeOK, DialogsInv, NEW b \in Browsers, Finalize(b)
    PROVE  DialogsInv'
<1> DEFINE underKey(k) == [warehouse |-> WarehouseOf[Selected(b)], key |-> k, day |-> day, stage |-> "sent",
                       sales |-> 0, got |-> Unset]
<1>1. PICK k \in IF closeKey[b] # Unset THEN {closeKey[b]} ELSE {keysDrawn + 1} \cap CloseKeys :
          /\ closeKey' = [closeKey EXCEPT ![b] = k]
          /\ tried' = [tried EXCEPT ![b] = @ \cup {k}]
          /\ keysDrawn' = IF k > keysDrawn THEN k ELSE keysDrawn
          /\ closing' = [closing EXCEPT ![b] = underKey(k)]
  BY DEF Finalize
<1>2. k \in CloseKeys /\ k \in Nat /\ k # Unset /\ keysDrawn \in Nat
  BY <1>1 DEF ClosingTypeOK, CloseKeys, ClosingAssumption
<1>3. DialogOf(b) /\ ~SelectionOpen(b) /\ mode[b] # Unset /\ closed[b] = Unset
  BY DEF Finalize, Dialog, Report, DialogsInv
<1>4. /\ zs' = zs /\ UNCHANGED <<listed, configured, changing, mode, closed>>
      /\ closeKey'[b] = k /\ tried'[b] = tried[b] \cup {k}
      /\ closing'[b].key = k /\ closing'[b].warehouse = WarehouseOf[Selected(b)] /\ closing'[b].stage = "sent"
  BY <1>1 DEF Finalize, ClosingTypeOK, shopVars
<1>5. \A c \in Browsers \ {b} : closeKey'[c] = closeKey[c] /\ tried'[c] = tried[c] /\ closing'[c] = closing[c]
  BY <1>1 DEF ClosingTypeOK
<1>6. Selected(b)' = Selected(b) /\ SelectionOpen(b)' = SelectionOpen(b)
  BY <1>4 DEF Selected, SelectionOpen
<1>7. \/ closeKey[b] = k /\ keysDrawn' = keysDrawn
      \/ closeKey[b] = Unset /\ k = keysDrawn + 1 /\ keysDrawn' = k
  <2>1. closeKey[b] # Unset => closeKey[b] <= keysDrawn
    BY DEF DialogsInv, KeysAreDrawn
  <2>2. QED
    BY <1>1, <1>2, <2>1
<1>8. AttemptOf(b)'
  BY <1>2, <1>3, <1>4, <1>6, <1>7 DEF DialogOf, AttemptOf
<1>9. ClosingOf(b)'
  BY <1>4, <1>6 DEF ClosingOf
<1>10. \A z \in zs : z.key \in Nat /\ z.key <= keysDrawn
  BY DEF ClosingTypeOK, Reports, CloseKeys, DialogsInv, KeysAreDrawn
<1>11. ZOfAttempt(b)'
  BY <1>2, <1>3, <1>4, <1>6, <1>7, <1>10 DEF DialogOf, ZOfAttempt
<1>12. \A c \in Browsers : closeKey[c] # Unset => (closeKey[c] \in Nat /\ closeKey[c] <= keysDrawn)
  BY DEF DialogsInv, KeysAreDrawn, ClosingTypeOK, CloseKeys
<1>13. KeysAreDrawn'
  <2>1. \A z \in zs' : z.key <= keysDrawn'
    BY <1>2, <1>4, <1>7, <1>10
  <2>2. \A c \in Browsers : closeKey'[c] # Unset => closeKey'[c] <= keysDrawn'
    BY <1>2, <1>4, <1>5, <1>7, <1>12
  <2>3. \A c \in Browsers \ {b} : closeKey[c] # k
    BY <1>2, <1>7, <1>12 DEF DialogsInv, KeysAreDrawn
  <2>4. \A c, d \in Browsers : (c # d /\ closeKey'[c] # Unset) => closeKey'[c] # closeKey'[d]
    BY <1>4, <1>5, <2>3 DEF DialogsInv, KeysAreDrawn
  <2>5. QED
    BY <2>1, <2>2, <2>4 DEF KeysAreDrawn
<1>14. \A c \in Browsers \ {b} : DialogOf(c)'
  BY <1>4, <1>5, DialogKept DEF Kept, DialogsInv
<1>15. QED
  BY <1>8, <1>9, <1>11, <1>13, <1>14 DEF DialogsInv, DialogOf

(* A step of the browser alone keeps what its dialog has tried, or lets go  *)
(* of all of it.                                                            *)
LEMMA ScreenKeepsDialogs ==
    ASSUME ClosingTypeOK, DialogsInv, NEW b \in Browsers,
           zs' = zs, keysDrawn' = keysDrawn,
           \A c \in Browsers \ {b} : Kept(c),
           closeKey'[b] \in {closeKey[b], Unset},
           DialogOf(b)'
    PROVE  DialogsInv'
<1>1. KeysAreDrawn'
  <2>1. \A c \in Browsers : closeKey'[c] \in {closeKey[c], Unset}
    BY DEF Kept
  <2>2. QED
    BY <2>1, KeysStayDrawn DEF DialogsInv
<1>2. \A c \in Browsers \ {b} : DialogOf(c)'
  BY DialogKept DEF DialogsInv
<1>3. QED
  BY <1>1, <1>2 DEF DialogsInv

LEMMA RemountLetsGo ==
    ASSUME ClosingTypeOK, NEW b \in Browsers, Remount(b)
    PROVE  /\ closing'[b] = Unset /\ closeKey'[b] = Unset /\ tried'[b] = {}
           /\ \A c \in Browsers \ {b} :
                 closing'[c] = closing[c] /\ closeKey'[c] = closeKey[c] /\ tried'[c] = tried[c] /\ closed'[c] = closed[c]
BY DEF Remount, ClosingTypeOK

(* Every step keeps what each dialog knows of its attempt.                  *)
LEMMA DialogsKept ==
    ASSUME ClosingAssumption, ClosingTypeOK, ZsOfThePast, DialogsInv, ClosingNext
    PROVE  DialogsInv'
<1> USE DEF shopVars, dialog
<1>1. ASSUME NEW b \in Browsers, ReadDay(b) PROVE DialogsInv'
  BY <1>1, ReadKeepsDialogs
<1>2. ASSUME NEW b \in Browsers, Commit(b) PROVE DialogsInv'
  BY <1>2, CommitKeepsDialogs
<1>3. ASSUME NEW b \in Browsers, Finalize(b) PROVE DialogsInv'
  BY <1>3, FinalizeKeepsDialogs
<1>4. ASSUME NEW b \in Browsers, LoseClosing(b) PROVE DialogsInv'
  <2>1. /\ closing[b] \in Closings /\ closing \in [Browsers -> Closings \cup {Unset}]
        /\ UNCHANGED <<zs, listed, configured, changing, mode, closed, tried, closeKey, keysDrawn>>
    BY <1>4 DEF LoseClosing, ClosingTypeOK
  <2>2. /\ closing'[b] = [closing[b] EXCEPT !.stage = "lost", !.got = Unset]
        /\ \A c \in Browsers \ {b} : closing'[c] = closing[c]
    BY <1>4, <2>1 DEF LoseClosing, Answer, Closings
  <2>3. closing'[b].key = closing[b].key /\ closing'[b].warehouse = closing[b].warehouse /\ closing'[b].stage = "lost"
    BY <2>1, <2>2 DEF Closings
  <2>4. Selected(b)' = Selected(b) /\ SelectionOpen(b)' = SelectionOpen(b)
    BY <2>1 DEF Selected, SelectionOpen
  <2>5. DialogOf(b) /\ closing[b] # Unset
    BY <1>4 DEF DialogsInv, LoseClosing
  <2>6. AttemptOf(b)' /\ ClosingOf(b)' /\ ZOfAttempt(b)'
    <3>1. AttemptOf(b)'
      BY <2>1, <2>4, <2>5 DEF DialogOf, AttemptOf
    <3>2. ClosingOf(b)'
      BY <2>1, <2>3, <2>4, <2>5 DEF DialogOf, ClosingOf
    <3>3. ZOfAttempt(b)'
      BY <2>1, <2>4, <2>5 DEF DialogOf, ZOfAttempt
    <3>4. QED
      BY <3>1, <3>2, <3>3
  <2>7. QED
    BY <2>1, <2>2, <2>6, ScreenKeepsDialogs DEF Kept, DialogOf
<1>5. ASSUME \/ \E b \in Browsers : HoldLine(b) \/ Charge(b) \/ ReadPreview(b)
             \/ \E t \in Terminals : Switch(t)
             \/ Midnight
      PROVE  DialogsInv'
  <2>1. UNCHANGED <<zs, listed, configured, changing, mode, closed, tried, closeKey, keysDrawn, closing>>
    BY <1>5 DEF HoldLine, Charge, ReadPreview, Switch, Midnight
  <2>2. \A b \in Browsers : Kept(b)
    BY <2>1 DEF Kept
  <2>3. \A b \in Browsers : DialogOf(b)'
    BY <2>1, <2>2, DialogKept DEF DialogsInv
  <2>4. QED
    BY <2>1, <2>3, KeysStayDrawn DEF DialogsInv
<1>6. ASSUME NEW b \in Browsers, Poll(b) PROVE DialogsInv'
  <2>1. /\ UNCHANGED <<zs, configured, changing, mode, keysDrawn>> /\ KeepDialog(b)
        /\ \A c \in Browsers \ {b} : listed'[c] = listed[c]
    BY <1>6 DEF Poll, ClosingTypeOK
  <2>2. CASE Remount(b)
    <3>1. /\ closing'[b] = Unset /\ closeKey'[b] = Unset /\ tried'[b] = {}
          /\ \A c \in Browsers \ {b} :
                closing'[c] = closing[c] /\ closeKey'[c] = closeKey[c] /\ tried'[c] = tried[c] /\ closed'[c] = closed[c]
      BY <2>2, RemountLetsGo
    <3>2. \A c \in Browsers \ {b} : Kept(c)
      BY <2>1, <3>1 DEF Kept
    <3>3. DialogOf(b)'
      BY <3>1, FreshDialog
    <3>4. QED
      BY <2>1, <3>1, <3>2, <3>3, ScreenKeepsDialogs
  <2>3. CASE ~(SelectionOpen(b)' /\ ~SelectionOpen(b)) /\ UNCHANGED <<preview, closed, closeKey, closeError, tried, closing>>
    <3>1. \A c \in Browsers \ {b} : Kept(c)
      BY <2>1, <2>3 DEF Kept
    <3>2. DialogOf(b)'
      <4>1. CASE SelectionOpen(b)
        <5>1. closing[b] = Unset /\ closeKey[b] = Unset /\ tried[b] = {}
          BY <4>1 DEF DialogsInv, DialogOf, AttemptOf
        <5>2. QED
          BY <2>3, <5>1, FreshDialog
      <4>2. CASE ~SelectionOpen(b) /\ ~SelectionOpen(b)'
        <5>1. Selected(b)' = Selected(b)
          BY <2>1, <4>2 DEF SelectionOpen, Selected
        <5>2. DialogOf(b)
          BY DEF DialogsInv
        <5>3. AttemptOf(b)'
          BY <2>1, <2>3, <4>2, <5>1, <5>2 DEF DialogOf, AttemptOf
        <5>4. ClosingOf(b)'
          BY <2>1, <2>3, <5>1, <5>2 DEF DialogOf, ClosingOf
        <5>5. ZOfAttempt(b)'
          BY <2>1, <2>3, <5>1, <5>2 DEF DialogOf, ZOfAttempt
        <5>6. QED
          BY <5>3, <5>4, <5>5 DEF DialogOf
      <4>3. QED
        BY <2>3, <4>1, <4>2
    <3>3. QED
      BY <2>1, <2>3, <3>1, <3>2, ScreenKeepsDialogs
  <2>4. QED
    BY <2>1, <2>2, <2>3 DEF KeepDialog
<1>7. ASSUME NEW b \in Browsers, ChangeTerminal(b) \/ \E t \in Terminals : SelectTerminal(b, t) PROVE DialogsInv'
  <2>1. closing[b] = Unset /\ closeKey[b] = Unset /\ tried[b] = {}
    BY <1>7 DEF ChangeTerminal, SelectTerminal, DialogsInv, DialogOf, AttemptOf
  <2>2. /\ UNCHANGED <<zs, listed, mode, closed, tried, closeKey, keysDrawn, closing>>
        /\ \A c \in Browsers \ {b} : changing'[c] = changing[c] /\ configured'[c] = configured[c]
    BY <1>7 DEF ChangeTerminal, SelectTerminal, ClosingTypeOK
  <2>3. \A c \in Browsers \ {b} : Kept(c)
    BY <2>2 DEF Kept
  <2>4. DialogOf(b)'
    BY <2>1, <2>2, FreshDialog
  <2>5. QED
    BY <2>2, <2>3, <2>4, ScreenKeepsDialogs
<1>8. ASSUME NEW b \in Browsers, NEW m \in {"X", "Z"}, OpenDialog(b, m) PROVE DialogsInv'
  <2>1. closing[b] = Unset
    BY <1>8 DEF OpenDialog, DialogsInv, DialogOf, AttemptOf
  <2>2. /\ UNCHANGED <<zs, listed, configured, changing, keysDrawn, closing>>
        /\ closeKey'[b] = Unset /\ tried'[b] = {}
        /\ \A c \in Browsers \ {b} :
              mode'[c] = mode[c] /\ closed'[c] = closed[c] /\ tried'[c] = tried[c] /\ closeKey'[c] = closeKey[c]
    BY <1>8 DEF OpenDialog, ClosingTypeOK
  <2>3. \A c \in Browsers \ {b} : Kept(c)
    BY <2>2 DEF Kept
  <2>4. DialogOf(b)'
    BY <2>1, <2>2, FreshDialog
  <2>5. QED
    BY <2>2, <2>3, <2>4, ScreenKeepsDialogs
<1>9. ASSUME NEW b \in Browsers, Closed(b) \/ NotClosed(b) PROVE DialogsInv'
  <2>1. /\ UNCHANGED <<zs, listed, configured, changing, mode, keysDrawn, tried>>
        /\ closing'[b] = Unset /\ closeKey'[b] \in {closeKey[b], Unset}
        /\ \A c \in Browsers \ {b} : closed'[c] = closed[c] /\ closing'[c] = closing[c] /\ closeKey'[c] = closeKey[c]
    BY <1>9 DEF Closed, NotClosed, ClosingTypeOK
  <2>2. \A c \in Browsers \ {b} : Kept(c)
    BY <2>1 DEF Kept
  <2>3. DialogOf(b) /\ closing[b] # Unset
    BY <1>9 DEF DialogsInv, Closed, NotClosed
  <2>4. Selected(b)' = Selected(b) /\ SelectionOpen(b)' = SelectionOpen(b)
    BY <2>1 DEF Selected, SelectionOpen
  <2>5. /\ Closed(b) => (closed'[b] # Unset /\ closeKey'[b] = Unset)
        /\ NotClosed(b) => (closed'[b] = closed[b] /\ closeKey'[b] = closeKey[b])
    BY <2>3 DEF Closed, NotClosed, DialogOf, ClosingOf, ClosingTypeOK
  <2>6. AttemptOf(b)'
    BY <1>9, <2>1, <2>3, <2>4, <2>5 DEF DialogOf, AttemptOf
  <2>7. ClosingOf(b)' /\ ZOfAttempt(b)'
    BY <2>1, <2>3, <2>4 DEF DialogOf, ClosingOf, ZOfAttempt
  <2>8. QED
    BY <2>1, <2>2, <2>6, <2>7, ScreenKeepsDialogs DEF DialogOf
<1>10. ASSUME NEW b \in Browsers, LeaveDialog(b) PROVE DialogsInv'
  <2>1. /\ UNCHANGED <<zs, listed, configured, changing, keysDrawn>> /\ Remount(b)
        /\ \A c \in Browsers \ {b} : mode'[c] = mode[c]
    BY <1>10 DEF LeaveDialog, ClosingTypeOK
  <2>2. /\ closing'[b] = Unset /\ closeKey'[b] = Unset /\ tried'[b] = {}
        /\ \A c \in Browsers \ {b} :
              closing'[c] = closing[c] /\ closeKey'[c] = closeKey[c] /\ tried'[c] = tried[c] /\ closed'[c] = closed[c]
    BY <2>1, RemountLetsGo
  <2>3. \A c \in Browsers \ {b} : Kept(c)
    BY <2>1, <2>2 DEF Kept
  <2>4. DialogOf(b)'
    BY <2>2, FreshDialog
  <2>5. QED
    BY <2>1, <2>2, <2>3, <2>4, ScreenKeepsDialogs
<1>11. QED
  BY <1>1, <1>2, <1>3, <1>4, <1>5, <1>6, <1>7, <1>8, <1>9, <1>10 DEF ClosingNext

LEMMA ClosingIsKept ==
    ASSUME ClosingAssumption
    PROVE  ClosingSpec => []ClosingInv
<1>1. ClosingInit => ClosingInv
  BY ClosingStarts
<1>2. ClosingInv /\ [ClosingNext]_closingVars => ClosingInv'
  <2> SUFFICES ASSUME ClosingInv, [ClosingNext]_closingVars PROVE ClosingInv'
    OBVIOUS
  <2>1. CASE ClosingNext
    BY <2>1, ClosingTypesKept, DaysKept, DialogsKept DEF ClosingInv, DaysInv
  <2>2. CASE UNCHANGED closingVars
    <3>1. ClosingTypeOK'
      BY <2>2 DEF closingVars, shopVars, dialog, ClosingInv, ClosingTypeOK
    <3>2. DaysInv'
      BY <2>2, DaysUntouched DEF closingVars, shopVars, ClosingInv, CountsOnDay
    <3>3. DialogsInv'
      <4>1. UNCHANGED <<zs, keysDrawn>> /\ \A b \in Browsers : Kept(b)
        BY <2>2 DEF closingVars, shopVars, dialog, Kept
      <4>2. KeysAreDrawn'
        BY <4>1, KeysStayDrawn DEF ClosingInv, DialogsInv, Kept
      <4>3. \A b \in Browsers : DialogOf(b)'
        BY <4>1, DialogKept DEF ClosingInv, DialogsInv
      <4>4. QED
        BY <4>2, <4>3 DEF DialogsInv
    <3>4. QED
      BY <3>1, <3>2, <3>3 DEF ClosingInv
  <2>3. QED
    BY <2>1, <2>2
<1>3. QED
  BY <1>1, <1>2, PTL DEF ClosingSpec

(* However many browsers close, retry and lose answers, a warehouse has one *)
(* Z per business day, numbered without a gap, and it counts every charge   *)
(* of that day (z_reports.close, checkout).                                 *)
THEOREM DaysAddUp ==
    ASSUME ClosingAssumption
    PROVE  ClosingSpec => []DayAddsUp
<1>1. ClosingInv => DayAddsUp
  BY DEF ClosingInv, DaysInv, DayAddsUp
<1>2. QED
  BY <1>1, ClosingIsKept, PTL

(* A dialog that is told the day is closed did not close it: the key of its *)
(* attempt, kept over lost answers, always finds its Z (CloseTillDialog).   *)
THEOREM RetriesGetTheirZ ==
    ASSUME ClosingAssumption
    PROVE  ClosingSpec => RetryGetsItsZ
<1>1. ASSUME ClosingInv, NEW b \in Browsers, NotClosed(b), closing[b].stage = "refused"
      PROVE  \A z \in zs : z.key \notin tried[b]
  <2>1. DialogOf(b) /\ closing[b] # Unset /\ closing[b] \in Closings
    BY <1>1 DEF ClosingInv, DialogsInv, NotClosed, ClosingTypeOK
  <2>2. closing[b].key = closeKey[b] /\ closeKey[b] # Unset /\ \A z \in zs : z.key # closing[b].key
    BY <1>1, <2>1 DEF DialogOf, ClosingOf, Closings, CloseKeys, ClosingAssumption
  <2>3. QED
    BY <2>1, <2>2 DEF DialogOf, AttemptOf
<1>2. ClosingInv => [RefusalIsTrue]_closingVars
  BY <1>1 DEF RefusalIsTrue
<1>3. QED
  BY <1>2, ClosingIsKept, PTL DEF RetryGetsItsZ, ClosingSpec

-----------------------------------------------------------------------------
(* The pictures *)

\* Pictures are put from one browser and never removed: a removal, or a second
\* browser, may give one version to two pictures.
OnePicker == ~Removals /\ \A e, f \in Editors : e = f

Waiting(e) == request[e] # NoPicture /\ request[e].step \in {"resizing", "sent", "checked"}

\* A request on its way is a put that has not drawn its version, and what it
\* has loaded is still so.
PutsFollow == \A e \in Editors :
    request[e] # NoPicture =>
        /\ request[e].photo # NoPicture
        /\ request[e].step = "checked" => request[e].loaded = image[request[e].owner]

\* The versions of an owner number the requests that put one.
VersionsAreDrawn ==
    /\ \A o \in Owners : image[o] # NoPicture => image[o].version <= requests
    /\ \A e \in Editors : Waiting(e) =>
          /\ requests > 0
          /\ \A o \in Owners : image[o] # NoPicture => image[o].version < requests

\* No list and no address is of a later version than the picture's, and what
\* is kept at its address is the picture.
ListsFollow == \A b \in Screens, o \in Owners :
    versions[b][o] # NoPicture => image[o] # NoPicture /\ versions[b][o] <= image[o].version

AddressesFollow == \A b \in Screens, o \in Owners, v \in Versions :
    cache[b][<<o, v>>] # NoPicture =>
        /\ image[o] # NoPicture
        /\ v <= image[o].version
        /\ v = image[o].version => cache[b][<<o, v>>] = image[o].photo

PicturesInv == PicturesTypeOK /\ PutsFollow /\ VersionsAreDrawn /\ ListsFollow /\ AddressesFollow

LEMMA PicturesStart == ASSUME PicturesAssumption, PicturesInit PROVE PicturesInv
<1>1. PicturesTypeOK
  BY DEF PicturesAssumption, PicturesInit, PicturesTypeOK, Or
<1>2. PutsFollow /\ VersionsAreDrawn /\ ListsFollow
  BY DEF PicturesInit, PutsFollow, VersionsAreDrawn, ListsFollow, Waiting
<1>3. AddressesFollow
  <2>1. \A b \in Screens, o \in Owners, v \in Versions : cache[b][<<o, v>>] = NoPicture
    BY DEF PicturesInit
  <2>2. QED
    BY <2>1 DEF AddressesFollow
<1>4. QED
  BY <1>1, <1>2, <1>3 DEF PicturesInv

(* A row of a picture has a version and a photo.                            *)
LEMMA ImageTyped ==
    ASSUME PicturesAssumption, PicturesTypeOK, NEW o \in Owners, image[o] # NoPicture
    PROVE  image[o].version \in Versions /\ image[o].photo \in Photos /\ image[o].version \in Nat
BY DEF PicturesTypeOK, Or, Images, Versions, PicturesAssumption

(* The lists are read and the pictures are fetched: nothing of the server    *)
(* changes.                                                                 *)
LEMMA ReadKeepsPictures ==
    ASSUME PicturesAssumption, PicturesInv, NEW b \in Screens, ReadList(b)
    PROVE  PicturesInv'
<1>0. PicturesTypeOK /\ UNCHANGED <<image, cache, request, requests>> /\ versions' = [versions EXCEPT ![b] = Listing]
  BY DEF PicturesInv, ReadList
<1>1. Listing \in [Owners -> Or(Versions)]
  BY <1>0, ImageTyped DEF Listing, Or
<1>2. PicturesTypeOK'
  BY <1>0, <1>1 DEF PicturesTypeOK
<1>3. PutsFollow' /\ VersionsAreDrawn' /\ AddressesFollow'
  BY <1>0 DEF PicturesInv, PutsFollow, VersionsAreDrawn, AddressesFollow, Waiting
<1>4. ListsFollow'
  <2> SUFFICES ASSUME NEW c \in Screens, NEW o \in Owners, versions'[c][o] # NoPicture
               PROVE  image[o] # NoPicture /\ versions'[c][o] <= image[o].version
    BY <1>0 DEF ListsFollow
  <2>1. CASE c = b
    <3>1. versions'[c][o] = Listing[o]
      BY <1>0, <2>1 DEF PicturesTypeOK
    <3>2. QED
      BY <3>1, <1>0, ImageTyped DEF Listing
  <2>2. CASE c # b
    BY <1>0, <2>2 DEF PicturesInv, ListsFollow, PicturesTypeOK
  <2>3. QED
    BY <2>1, <2>2
<1>5. QED
  BY <1>2, <1>3, <1>4 DEF PicturesInv

LEMMA FetchKeepsPictures ==
    ASSUME PicturesAssumption, PicturesInv, NEW b \in Screens, NEW o \in Owners, Fetch(b, o)
    PROVE  PicturesInv'
<1> DEFINE url == <<o, versions[b][o]>>
<1>0. /\ PicturesTypeOK /\ UNCHANGED <<image, versions, request, requests>>
      /\ versions[b][o] # NoPicture /\ image[o] # NoPicture
      /\ cache' = [cache EXCEPT ![b][url] = image[o].photo]
  BY DEF PicturesInv, Fetch
<1>1. versions[b][o] \in Versions /\ versions[b][o] <= image[o].version
  BY <1>0 DEF PicturesInv, ListsFollow, PicturesTypeOK, Or
<1>2. image[o].photo \in Photos
  BY <1>0, ImageTyped
<1>3. url \in Owners \X Versions
  BY <1>1
<1>4. PicturesTypeOK'
  BY <1>0, <1>2, <1>3 DEF PicturesTypeOK, Or
<1>5. PutsFollow' /\ VersionsAreDrawn' /\ ListsFollow'
  BY <1>0 DEF PicturesInv, PutsFollow, VersionsAreDrawn, ListsFollow, Waiting
<1>6. AddressesFollow'
  <2> SUFFICES ASSUME NEW c \in Screens, NEW p \in Owners, NEW v \in Versions, cache'[c][<<p, v>>] # NoPicture
               PROVE  /\ image[p] # NoPicture
                      /\ v <= image[p].version
                      /\ v = image[p].version => cache'[c][<<p, v>>] = image[p].photo
    BY <1>0 DEF AddressesFollow
  <2>1. CASE c = b /\ <<p, v>> = url
    <3>1. cache'[c][<<p, v>>] = image[o].photo
      BY <1>0, <1>3, <2>1 DEF PicturesTypeOK
    <3>2. p = o /\ v = versions[b][o]
      BY <2>1
    <3>3. QED
      BY <3>1, <3>2, <1>0, <1>1
  <2>2. CASE ~(c = b /\ <<p, v>> = url)
    <3>1. cache'[c][<<p, v>>] = cache[c][<<p, v>>]
      BY <1>0, <2>2 DEF PicturesTypeOK
    <3>2. QED
      BY <3>1 DEF PicturesInv, AddressesFollow
  <2>3. QED
    BY <2>1, <2>2
<1>7. QED
  BY <1>4, <1>5, <1>6 DEF PicturesInv

(* Where only requests change, the lists and the addresses stand.            *)
LEMMA OnlyRequests ==
    ASSUME PicturesInv, UNCHANGED <<image, versions, cache>>
    PROVE  ListsFollow' /\ AddressesFollow'
BY DEF PicturesInv, ListsFollow, AddressesFollow

LEMMA AskKeepsPictures ==
    ASSUME PicturesAssumption, OnePicker, PicturesInv,
           NEW e \in Editors, NEW o \in Owners, NEW photo \in Or(Photos), Ask(e, o, photo)
    PROVE  PicturesInv'
<1> DEFINE r == [owner |-> o, photo |-> photo, loaded |-> NoPicture, step |-> "resizing"]
<1>0. /\ PicturesTypeOK /\ UNCHANGED <<image, versions, cache>>
      /\ photo # NoPicture /\ request[e] = NoPicture /\ requests < LastChoice /\ requests' = requests + 1
      /\ request' = [request EXCEPT ![e] = r]
  BY DEF PicturesInv, Ask, OnePicker
<1>1. r \in Choices
  BY DEF Choices, Or
<1>2. PicturesTypeOK'
  <2>1. requests + 1 \in 0..LastChoice
    BY <1>0 DEF PicturesTypeOK, PicturesAssumption
  <2>2. request' \in [Editors -> Or(Choices)]
    BY <1>0, <1>1 DEF PicturesTypeOK, Or
  <2>3. QED
    BY <1>0, <2>1, <2>2 DEF PicturesTypeOK
<1>3. request' = [f \in Editors |-> r]
  BY <1>0 DEF PicturesTypeOK, OnePicker
<1>4. PutsFollow'
  BY <1>0, <1>3 DEF PutsFollow
<1>5. VersionsAreDrawn'
  <2>1. requests \in Nat
    BY <1>0 DEF PicturesTypeOK
  <2>2. \A p \in Owners : image[p] # NoPicture => image[p].version \in Nat
    BY <1>0, ImageTyped
  <2>3. QED
    BY <1>0, <2>1, <2>2 DEF PicturesInv, VersionsAreDrawn
<1>6. QED
  BY <1>2, <1>4, <1>5, <1>0, OnlyRequests DEF PicturesInv

(* The steps of a request that is on its way, or is answered.               *)
LEMMA RequestKeepsPictures ==
    ASSUME PicturesAssumption, OnePicker, PicturesInv, NEW e \in Editors, Resize(e) \/ Load(e) \/ AnswerPicture(e)
    PROVE  PicturesInv'
<1>0. PicturesTypeOK /\ UNCHANGED <<image, versions, cache, requests>> /\ request[e] # NoPicture /\ request[e] \in Choices
  BY DEF PicturesInv, Resize, Load, AnswerPicture, PicturesTypeOK, Or
<1>1. request[e].photo # NoPicture /\ request[e].owner \in Owners /\ image[request[e].owner] \in Or(Images)
  BY <1>0 DEF PicturesInv, PutsFollow, Choices, PicturesTypeOK
<1>2. PICK r \in Or(Choices) :
          /\ request' = [request EXCEPT ![e] = r]
          /\ r # NoPicture =>
                /\ r.photo # NoPicture
                /\ r.step = "checked" => r.loaded = image[r.owner]
                /\ r.step \in {"resizing", "sent", "checked"} => Waiting(e)
  <2>1. CASE Resize(e)
    <3>1. PICK step \in {"sent", "refused"} : request' = [request EXCEPT ![e].step = step]
      BY <2>1 DEF Resize
    <3>2. [request[e] EXCEPT !.step = step] \in Or(Choices)
      BY <1>0 DEF Choices, Or
    <3>3. request' = [request EXCEPT ![e] = [request[e] EXCEPT !.step = step]]
      BY <3>1
    <3>4. [request[e] EXCEPT !.step = step].photo = request[e].photo /\ [request[e] EXCEPT !.step = step].step = step
      BY <1>0 DEF Choices
    <3>5. Waiting(e)
      BY <2>1 DEF Resize, Waiting
    <3>6. QED
      BY <3>2, <3>3, <3>4, <3>5, <1>1
  <2>2. CASE Load(e)
    <3>0. request[e].photo # NoPicture /\ request[e].step = "sent"
      BY <2>2, <1>1 DEF Load
    <3> DEFINE s == [request[e] EXCEPT !.step = "checked", !.loaded = image[request[e].owner]]
    <3>1. request' = [request EXCEPT ![e] = s]
      BY <2>2, <3>0 DEF Load
    <3>2. s \in Or(Choices)
      BY <1>0, <1>1 DEF Choices, Or
    <3>3. s.photo = request[e].photo /\ s.loaded = image[request[e].owner] /\ s.owner = request[e].owner
      BY <1>0 DEF Choices
    <3>4. Waiting(e)
      BY <3>0, <1>0 DEF Waiting
    <3>5. QED
      BY <3>1, <3>2, <3>3, <3>4, <1>1
  <2>3. CASE AnswerPicture(e)
    BY <2>3 DEF AnswerPicture, Or
  <2>4. QED
    BY <2>1, <2>2, <2>3
<1>3. request' = [f \in Editors |-> r] /\ \A f \in Editors : f = e
  BY <1>0, <1>2 DEF PicturesTypeOK, OnePicker
<1>4. PicturesTypeOK'
  BY <1>0, <1>3 DEF PicturesTypeOK
<1>5. PutsFollow'
  BY <1>0, <1>2, <1>3 DEF PutsFollow
<1>6. VersionsAreDrawn'
  <2>1. \A f \in Editors : Waiting(f)' => Waiting(e)
    BY <1>2, <1>3 DEF Waiting
  <2>2. QED
    BY <2>1, <1>0 DEF PicturesInv, VersionsAreDrawn
<1>7. QED
  BY <1>4, <1>5, <1>6, <1>0, OnlyRequests DEF PicturesInv

(* A put takes the version after the one that was there.                    *)
LEMMA CommitKeepsPictures ==
    ASSUME PicturesAssumption, OnePicker, PicturesInv, NEW e \in Editors, CommitPicture(e)
    PROVE  PicturesInv'
<1> DEFINE r == request[e]
           o == r.owner
           put == Written(r)
           done == [r EXCEPT !.step = "done"]
<1>0. /\ PicturesTypeOK /\ UNCHANGED <<versions, cache, requests>>
      /\ r # NoPicture /\ r \in Choices /\ r.step = "checked" /\ o \in Owners
  BY DEF PicturesInv, CommitPicture, PicturesTypeOK, Or, Choices
<1>1. r.photo # NoPicture /\ r.photo \in Photos /\ r.loaded = image[o]
  BY <1>0 DEF PicturesInv, PutsFollow, Choices, Or
<1>2. image' = [image EXCEPT ![o] = put] /\ request' = [request EXCEPT ![e] = done]
  BY <1>1 DEF CommitPicture
<1>3. /\ requests \in Nat /\ requests > 0 /\ requests <= LastChoice
      /\ \A p \in Owners : image[p] # NoPicture =>
            image[p].version \in Nat /\ image[p].version >= 1 /\ image[p].version < requests
  <2>1. requests \in Nat /\ requests <= LastChoice
    BY <1>0 DEF PicturesTypeOK, PicturesAssumption
  <2>2. \A p \in Owners : image[p] # NoPicture => image[p].version \in Nat /\ image[p].version >= 1
    BY <1>0, ImageTyped DEF Versions
  <2>3. Waiting(e)
    BY <1>0 DEF Waiting
  <2>4. requests > 0 /\ \A p \in Owners : image[p] # NoPicture => image[p].version < requests
    BY <2>3 DEF PicturesInv, VersionsAreDrawn
  <2>5. QED
    BY <2>1, <2>2, <2>4
<1>4. /\ put.photo = r.photo
      /\ image[o] = NoPicture => put.version = 1
      /\ image[o] # NoPicture => put.version = image[o].version + 1
      /\ put = [version |-> put.version, photo |-> put.photo]
  BY <1>1 DEF Written
<1>5. put.version \in Nat /\ put.version >= 1 /\ put.version <= requests
  BY <1>0, <1>3, <1>4
<1>6. put \in Images /\ put # NoPicture
  BY <1>1, <1>3, <1>4, <1>5 DEF Images, Versions, PicturesAssumption
<1>7. done \in Choices /\ done.photo = r.photo /\ done.step = "done" /\ request' = [f \in Editors |-> done]
  BY <1>0, <1>2 DEF Choices, PicturesTypeOK, OnePicker
<1>8. PicturesTypeOK'
  BY <1>0, <1>2, <1>6, <1>7 DEF PicturesTypeOK, Or
<1>9. PutsFollow'
  BY <1>1, <1>7 DEF PutsFollow
<1>10. \A p \in Owners : image'[p] = IF p = o THEN put ELSE image[p]
  BY <1>0, <1>2 DEF PicturesTypeOK
<1>11. VersionsAreDrawn'
  <2>1. \A f \in Editors : ~Waiting(f)'
    BY <1>7 DEF Waiting
  <2>2. QED
    BY <2>1, <1>0, <1>3, <1>5, <1>10 DEF VersionsAreDrawn
<1>12. ListsFollow'
  <2> SUFFICES ASSUME NEW b \in Screens, NEW p \in Owners, versions[b][p] # NoPicture
               PROVE  image'[p] # NoPicture /\ versions[b][p] <= image'[p].version
    BY <1>0 DEF ListsFollow
  <2>1. image[p] # NoPicture /\ versions[b][p] <= image[p].version /\ versions[b][p] \in Nat
    BY <1>0 DEF PicturesInv, ListsFollow, PicturesTypeOK, Or, Versions
  <2>2. QED
    BY <2>1, <1>3, <1>4, <1>6, <1>10
<1>13. AddressesFollow'
  <2> SUFFICES ASSUME NEW b \in Screens, NEW p \in Owners, NEW v \in Versions, cache[b][<<p, v>>] # NoPicture
               PROVE  /\ image'[p] # NoPicture
                      /\ v <= image'[p].version
                      /\ v = image'[p].version => cache[b][<<p, v>>] = image'[p].photo
    BY <1>0 DEF AddressesFollow
  <2>1. /\ image[p] # NoPicture
        /\ v <= image[p].version
        /\ v = image[p].version => cache[b][<<p, v>>] = image[p].photo
    BY DEF PicturesInv, AddressesFollow
  <2>2. CASE p = o
    BY <2>1, <2>2, <1>3, <1>4, <1>6, <1>10 DEF Versions
  <2>3. CASE p # o
    BY <2>1, <2>3, <1>10
  <2>4. QED
    BY <2>2, <2>3
<1>14. QED
  BY <1>8, <1>9, <1>11, <1>12, <1>13 DEF PicturesInv

LEMMA PicturesStay ==
    ASSUME PicturesAssumption, OnePicker, PicturesInv, [PicturesNext]_picturesVars
    PROVE  PicturesInv'
<1>1. CASE UNCHANGED picturesVars
  <2>1. UNCHANGED <<image, versions, cache, request, requests>>
    BY <1>1 DEF picturesVars
  <2>2. PicturesTypeOK' /\ PutsFollow' /\ VersionsAreDrawn'
    BY <2>1 DEF PicturesInv, PicturesTypeOK, PutsFollow, VersionsAreDrawn, Waiting
  <2>3. QED
    BY <2>1, <2>2, OnlyRequests DEF PicturesInv
<1>2. CASE \E b \in Screens : ReadList(b) \/ \E o \in Owners : Fetch(b, o)
  BY <1>2, ReadKeepsPictures, FetchKeepsPictures
<1>3. CASE \E e \in Editors : \E o \in Owners, photo \in Or(Photos) : Ask(e, o, photo)
  BY <1>3, AskKeepsPictures
<1>4. CASE \E e \in Editors : Resize(e) \/ Load(e) \/ AnswerPicture(e)
  BY <1>4, RequestKeepsPictures
<1>5. CASE \E e \in Editors : CommitPicture(e)
  BY <1>5, CommitKeepsPictures
<1>6. QED
  BY <1>1, <1>2, <1>3, <1>4, <1>5 DEF PicturesNext

(* Where one browser puts pictures and none is removed, an address never     *)
(* changes what it shows for the picture that is stored (images.put,         *)
(* catalog/router.get_image): any number of owners, tills and puts.        *)
THEOREM AddressesAreForGood ==
    ASSUME PicturesAssumption, OnePicker
    PROVE  PicturesSpec => []PicturesAgree
<1>1. PicturesInv => PicturesAgree
  <2> SUFFICES ASSUME PicturesInv, NEW b \in Screens, NEW o \in Owners,
                      image[o] # NoPicture, versions[b][o] = Listing[o], Shown(b, o) # NoPicture
               PROVE  Shown(b, o) = image[o].photo
    BY DEF PicturesInv, PicturesAgree, PictureIsCurrent
  <2>1. versions[b][o] = image[o].version /\ image[o].version \in Versions
    BY ImageTyped DEF PicturesInv, Listing
  <2>2. Shown(b, o) = cache[b][<<o, image[o].version>>]
    BY <2>1 DEF Shown
  <2>3. QED
    BY <2>1, <2>2 DEF PicturesInv, AddressesFollow
<1>2. PicturesInit => PicturesInv
  BY PicturesStart
<1>3. PicturesInv /\ [PicturesNext]_picturesVars => PicturesInv'
  BY PicturesStay
<1>4. QED
  BY <1>1, <1>2, <1>3, PTL DEF PicturesSpec
=============================================================================
