------------------------------- MODULE Alerts -------------------------------
(***************************************************************************)
(* Notification rules and their incidents (backend/app/notifications), which *)
(* queue one e-mail per new incident in the outbox of Outbox.tla.  One rule   *)
(* stands for all: rules share nothing but the transaction that evaluates    *)
(* them.  An outbox row takes the id of the incident it refers to.           *)
(***************************************************************************)
EXTENDS Outbox

CONSTANTS
    Subjects,    \* what the rule's detector may find: products or lots
    Incidents,   \* ids an incident row may take
    SubjectOf,   \* [Incidents -> Subjects]
    Evaluators   \* concurrent requests of POST /notifications/evaluate

ASSUME AlertsAssumption ==
    /\ Messages = Incidents
    /\ SubjectOf \in [Incidents -> Subjects]

VARIABLES
    matching,  \* SUBSET Subjects: those the rule's condition holds for
    rule,      \* "active", "paused" or "deleted": NotificationRule
    incident,  \* [Incidents -> IncidentStates]: Incident.status
    at,        \* [Evaluators -> EvaluatorSteps]
    found,     \* [Evaluators -> SUBSET Subjects]: detections
    seen,      \* [Evaluators -> SUBSET Incidents]: open_incidents
    fresh      \* [Evaluators -> SUBSET Incidents]: inserted, not committed

evaluatorVars == <<at, found, seen, fresh>>
alertVars == <<matching, rule, incident, evaluatorVars>>
allVars == <<alertVars, outboxVars>>

IncidentStates == {"ABSENT", "OPEN", "RESOLVED", "DELETED"}
EvaluatorSteps == {"idle", "detected", "read", "flushed"}

(* Rows and locals have their types.                                       *)
AlertsTypeOK ==
    /\ OutboxTypeOK
    /\ matching \subseteq Subjects
    /\ rule \in {"active", "paused", "deleted"}
    /\ incident \in [Incidents -> IncidentStates]
    /\ at \in [Evaluators -> EvaluatorSteps]
    /\ found \in [Evaluators -> SUBSET Subjects]
    /\ seen \in [Evaluators -> SUBSET Incidents]
    /\ fresh \in [Evaluators -> SUBSET Incidents]

Open == {i \in Incidents : incident[i] = "OPEN"}

-----------------------------------------------------------------------------
(* evaluate_rules.                                                         *)

\* A new incident for a detection that has no open one, and the end of an open
\* incident that was not detected.
Missing(e) == found[e] \ {SubjectOf[i] : i \in seen[e]}
Gone(e) == {i \in seen[e] : SubjectOf[i] \notin found[e]}

\* An id for the next incident of a subject.
Unused(s) == {i \in Incidents : SubjectOf[i] = s /\ incident[i] = "ABSENT"}
NextId(s) == CHOOSE i \in Unused(s) : TRUE

\* The rule's detector runs.
Detect(e) ==
    /\ at[e] = "idle"
    /\ rule = "active"
    /\ at' = [at EXCEPT ![e] = "detected"]
    /\ found' = [found EXCEPT ![e] = matching]
    /\ UNCHANGED <<matching, rule, incident, seen, fresh, outboxVars>>

\* Its open incidents are read by a later statement.
ReadOpen(e) ==
    /\ at[e] = "detected"
    /\ at' = [at EXCEPT ![e] = "read"]
    /\ seen' = [seen EXCEPT ![e] = Open]
    /\ UNCHANGED <<matching, rule, incident, found, fresh, outboxVars>>

\* The rows and index entries of an evaluation that has been flushed.
Holds(e) == IF at[e] = "flushed" THEN seen[e] \cup fresh[e] ELSE {}

\* Another evaluation has written a row, or the index entry, of this flush.
Waits(e) ==
    \E q \in Evaluators \ {e} : \E i \in Holds(q) :
        i \in seen[e] \/ SubjectOf[i] \in Missing(e)

\* Mutant: there is no unique index on the open incidents.
Collides_Never(e) == FALSE

\* uq_incidents_open_subject: the subject has got an open incident meanwhile.
Collides(e) == \E i \in Open : SubjectOf[i] \in Missing(e)

\* The rule or an incident to update is no longer there.
Orphaned(e) ==
    \/ rule = "deleted" /\ Missing(e) # {}
    \/ \E i \in seen[e] : incident[i] = "DELETED"

Flush(e) ==
    /\ at[e] = "read"
    /\ ~Waits(e)
    /\ ~Collides(e)
    /\ ~Orphaned(e)
    /\ \A s \in Missing(e) : Unused(s) # {}
    /\ at' = [at EXCEPT ![e] = "flushed"]
    /\ fresh' = [fresh EXCEPT ![e] = {NextId(s) : s \in Missing(e)}]
    /\ UNCHANGED <<matching, rule, incident, found, seen, outboxVars>>

Forget(e) ==
    /\ at' = [at EXCEPT ![e] = "idle"]
    /\ found' = [found EXCEPT ![e] = {}]
    /\ seen' = [seen EXCEPT ![e] = {}]
    /\ fresh' = [fresh EXCEPT ![e] = {}]

\* Mutant: an incident that is still open is mailed about again.
Mailed_EveryCycle(e) == fresh[e] \cup (seen[e] \ Gone(e))

\* new_incidents: only they are mailed about.
Mailed(e) == fresh[e]

\* The mails a flushed evaluation queues; without one the outbox stands still.
Queue(ms) ==
    /\ row' = [m \in Messages |-> IF m \in ms THEN "PENDING" ELSE row[m]]
    /\ UNCHANGED <<attempts, batchVars, delivered, lost, crashes>>

CommitEvaluation(e) ==
    /\ at[e] = "flushed"
    /\ incident' = [i \in Incidents |->
                       IF i \in fresh[e] THEN "OPEN"
                       ELSE IF i \in Gone(e) THEN "RESOLVED"
                       ELSE incident[i]]
    /\ Queue(Mailed(e))
    /\ Forget(e)
    /\ UNCHANGED <<matching, rule>>

\* A unique or foreign key violation, a row that vanished, or any rollback.
FailEvaluation(e) ==
    /\ at[e] # "idle"
    /\ Forget(e)
    /\ UNCHANGED <<matching, rule, incident, outboxVars>>

-----------------------------------------------------------------------------
(* The other operations wait for the rows of a flushed evaluation.          *)

Free(i) == \A e \in Evaluators : i \notin Holds(e)

\* resolve_incident
Resolve(i) ==
    /\ incident[i] = "OPEN"
    /\ Free(i)
    /\ incident' = [incident EXCEPT ![i] = "RESOLVED"]
    /\ UNCHANGED <<matching, rule, evaluatorVars, outboxVars>>

\* update_rule
SwitchRule ==
    /\ rule # "deleted"
    /\ rule' = IF rule = "active" THEN "paused" ELSE "active"
    /\ UNCHANGED <<matching, incident, evaluatorVars, outboxVars>>

\* delete_rule takes the rule's incidents with it, never their mails.  The
\* foreign key keeps it from passing an evaluation that has inserted.
DeleteRule ==
    /\ rule # "deleted"
    /\ \A e \in Evaluators : Holds(e) = {}
    /\ rule' = "deleted"
    /\ incident' = [i \in Incidents |->
                       IF incident[i] = "ABSENT" THEN "ABSENT" ELSE "DELETED"]
    /\ UNCHANGED <<matching, evaluatorVars, outboxVars>>

\* Stock or an expiry date crosses the rule's threshold.
Change(s) ==
    /\ matching' = IF s \in matching THEN matching \ {s} ELSE matching \cup {s}
    /\ UNCHANGED <<rule, incident, evaluatorVars, outboxVars>>

AlertsInit ==
    /\ OutboxInit
    /\ matching = {}
    /\ rule = "active"
    /\ incident = [i \in Incidents |-> "ABSENT"]
    /\ at = [e \in Evaluators |-> "idle"]
    /\ found = [e \in Evaluators |-> {}]
    /\ seen = [e \in Evaluators |-> {}]
    /\ fresh = [e \in Evaluators |-> {}]

Evaluate(e) ==
    \/ Detect(e)
    \/ ReadOpen(e)
    \/ Flush(e)
    \/ CommitEvaluation(e)
    \/ FailEvaluation(e)

AlertsNext ==
    \/ \E e \in Evaluators : Evaluate(e)
    \/ \E i \in Incidents : Resolve(i)
    \/ SwitchRule
    \/ DeleteRule
    \/ \E s \in Subjects : Change(s)
    \/ \E w \in Workers : (WorkerStep(w) \/ Crash(w)) /\ UNCHANGED alertVars

AlertsSpec == AlertsInit /\ [][AlertsNext]_allVars

-----------------------------------------------------------------------------
(* Properties.                                                             *)

(* However evaluations race, a subject has at most one open incident.       *)
(* (notifications/models.py, "Deduplication is enforced by the database")   *)
OneOpenPerSubject ==
    \A i, j \in Open : SubjectOf[i] = SubjectOf[j] => i = j

(* Rows have their types, and however evaluations race, a subject has at    *)
(* most one open incident (evaluate_rules).                                 *)
AlertsAgree == AlertsTypeOK /\ OneOpenPerSubject

(* The recipient gets exactly one e-mail per incident.                      *)
(* (notifications/service.py evaluate_rules)                                 *)
OneEmailPerIncident == \A i \in Incidents : delivered[i] <= 1

=============================================================================
