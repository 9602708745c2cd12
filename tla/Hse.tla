---------------------------------- MODULE Hse ----------------------------------
(***************************************************************************)
(* One incident and its corrective actions (backend/src/modules/hse/       *)
(* hse.service.ts).  Incidents share nothing.                              *)
(***************************************************************************)
EXTENDS FiniteSets, Nulls

CONSTANTS
  Officers,   \* updateStatus requests that may be in flight at once
  Measures    \* ids of CorrectiveAction rows

VARIABLES
  incident,  \* Incident.status, Null before the incident is reported
  measure,   \* CorrectiveAction.status and completedAt of each row
  ruling,    \* the status each officer is about to write, Null if none
  overtaken  \* history: officers who act on an incident changed since they read it

hseVars == <<incident, measure, ruling, overtaken>>

IncidentTransitions ==
  [REPORTED            |-> {"UNDER_INVESTIGATION", "CLOSED"},
   UNDER_INVESTIGATION |-> {"CORRECTIVE_ACTION", "CLOSED"},
   CORRECTIVE_ACTION   |-> {"CLOSED"},
   CLOSED              |-> {}]

IncidentStatuses == DOMAIN IncidentTransitions
MeasureStatuses  == {"PENDING", "IN_PROGRESS", "COMPLETED"}

NoMeasure == [status |-> "none", done |-> FALSE]

HseTypeOK ==
  /\ incident \in IncidentStatuses \cup {Null}
  /\ measure \in [Measures -> [status : MeasureStatuses \cup {"none"}, done : BOOLEAN]]
  /\ ruling \in [Officers -> IncidentStatuses \cup {Null}]
  /\ overtaken \subseteq Officers

HseInit ==
  /\ incident = Null
  /\ measure = [k \in Measures |-> NoMeasure]
  /\ ruling = [o \in Officers |-> Null]
  /\ overtaken = {}

OpenMeasures == {k \in Measures : measure[k].status \in MeasureStatuses \ {"COMPLETED"}}

\* Everybody who has read the incident has now read something else.
Overtake(except) == overtaken' = (overtaken \cup {o \in Officers : ruling[o] # Null}) \ except

-----------------------------------------------------------------------------
\* create
Report ==
  /\ incident = Null
  /\ incident' = "REPORTED"
  /\ UNCHANGED <<measure, ruling, overtaken>>

\* MUTANT of Rule: it may be closed with actions still open.
Rule_Unchecked(o, status) ==
  /\ incident # Null
  /\ ruling[o] = Null
  /\ status \in IncidentTransitions[incident]
  /\ ruling' = [ruling EXCEPT ![o] = status]
  /\ UNCHANGED <<incident, measure, overtaken>>

\* updateStatus: the check ...
Rule(o, status) ==
  /\ incident # Null
  /\ ruling[o] = Null
  /\ status \in IncidentTransitions[incident]
  /\ status = "CLOSED" => OpenMeasures = {}
  /\ ruling' = [ruling EXCEPT ![o] = status]
  /\ UNCHANGED <<incident, measure, overtaken>>

\* ... and the update.
WriteIncident(o) ==
  /\ ruling[o] # Null
  /\ incident' = ruling[o]
  /\ ruling' = [ruling EXCEPT ![o] = Null]
  /\ Overtake({o})
  /\ UNCHANGED measure

DropRuling(o) ==
  /\ ruling[o] # Null
  /\ ruling' = [ruling EXCEPT ![o] = Null]
  /\ overtaken' = overtaken \ {o}
  /\ UNCHANGED <<incident, measure>>

\* createCorrectiveAction asks for the incident, not for its status.
AddMeasure(k) ==
  /\ incident # Null
  /\ measure[k] = NoMeasure
  /\ measure' = [measure EXCEPT ![k] = [status |-> "PENDING", done |-> FALSE]]
  /\ Overtake({})
  /\ UNCHANGED <<incident, ruling>>

\* updateCorrectiveAction with a status: any, at any time.
SetMeasure(k, status) ==
  /\ measure[k] # NoMeasure
  /\ measure' = [measure EXCEPT ![k] = [status |-> status, done |-> status = "COMPLETED"]]
  /\ Overtake({})
  /\ UNCHANGED <<incident, ruling>>

HseNext ==
  \/ Report
  \/ \E o \in Officers :
       \/ \E status \in IncidentStatuses : Rule(o, status)
       \/ WriteIncident(o)
       \/ DropRuling(o)
  \/ \E k \in Measures :
       \/ AddMeasure(k)
       \/ \E status \in MeasureStatuses : SetMeasure(k, status)

HseSpec == HseInit /\ [][HseNext]_hseVars

-----------------------------------------------------------------------------
(***************************************************************************)
(* Properties.                                                             *)
(***************************************************************************)

\* An incident is closed only with every corrective action completed, and what
\* is closed stays closed, unless the officer was overtaken by another write
\* ("CLOSED is terminal", hse.service.ts:14).
AloneClosesWhenDone ==
  [][\A o \in Officers :
       WriteIncident(o) /\ o \notin overtaken
         => /\ incident # "CLOSED"
            /\ incident' = "CLOSED" => OpenMeasures = {}]_hseVars

=============================================================================
