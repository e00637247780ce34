--------------------------- MODULE ApplicationTracker ---------------------------
(***************************************************************************)
(* The applications of a user and the state of the jobs in the user's feed *)
(* (internal/m5/service.go, pgxstore.go).  Every statement names its user, *)
(* so one user is enough.  The identifier of an application stands for its *)
(* job: there is at most one for a user and a job.                         *)
(***************************************************************************)
EXTENDS Requests

CONSTANT Listed   \* the jobs with a row in jobs

VARIABLES
  apps,       \* the status of each application, None without one
  jobStates,  \* [dismissed, applied] for each job
  lost        \* history: jobs whose state was written over with an older one

trackerTables == <<apps, jobStates, lost>>
trackerVars == <<requestVars, trackerTables>>

Statuses == {"form_filled", "submitted", "viewed", "rejected", "interview"}
StateOps == {"dismiss", "undismiss", "applied"}
\* A PATCH of an application is named by the status that it asks for.
ApplicationOps == {"create", "confirm"} \cup Statuses

ASSUME TrackerAssumption == Listed \subseteq Jobs /\ None \notin StateOps \cup ApplicationOps

JobState == [dismissed : BOOLEAN, applied : BOOLEAN]

Job(r) == req[r].key
Seen(r) == req[r].seen
\* The status that a request writes.
Written(op) == IF op = "confirm" THEN "submitted" ELSE op
Submits(r) == Written(req[r].op) = "submitted"

FirstCall(op) ==
  CASE op \in StateOps -> "load" [] op = "create" -> "job" [] OTHER -> "find"

AskTracker(r, op, job) ==
  /\ Begin(r, op, job, FirstCall(op))
  /\ UNCHANGED trackerTables

TrackerCallFails(r) == CallFails(r) /\ UNCHANGED trackerTables

-----------------------------------------------------------------------------
(* updateJobState and markApplied: the row is read, changed and written back *)

Changed(op, state) ==
  CASE op = "dismiss"   -> [state EXCEPT !.dismissed = TRUE]
    [] op = "undismiss" -> [state EXCEPT !.dismissed = FALSE]
    [] OTHER            -> [state EXCEPT !.applied = TRUE]

LoadJobState(r) ==
  /\ req[r].pc = "load"
  /\ Goes(r, "save", jobStates[Job(r)])
  /\ UNCHANGED <<failures, trackerTables>>

SaveJobState(r) ==
  /\ req[r].pc = "save"
  /\ jobStates' = [jobStates EXCEPT ![Job(r)] = Changed(req[r].op, Seen(r))]
  /\ lost' = IF Seen(r) = jobStates[Job(r)] THEN lost ELSE lost \cup {Job(r)}
  /\ Ends(r)
  /\ UNCHANGED apps

-----------------------------------------------------------------------------
(* handleCreateApplication *)

FindJob(r) ==
  /\ req[r].pc = "job"
  /\ IF Job(r) \in Listed THEN Goes(r, "insert", None) ELSE Answers(r, "not_found")
  /\ UNCHANGED <<failures, trackerTables>>

\* An application that is there keeps its status.
InsertApplication(r) ==
  /\ req[r].pc = "insert"
  /\ apps' = [apps EXCEPT ![Job(r)] = IF @ = None THEN "form_filled" ELSE @]
  /\ Done(r, "reread")
  /\ UNCHANGED <<jobStates, lost>>

-----------------------------------------------------------------------------
(* handleUpdateApplication and handleConfirmSubmit *)

MovesBack(op, status) == status # "form_filled" /\ op = "form_filled"

FindApplication(r) ==
  /\ req[r].pc = "find"
  /\ LET status == apps[Job(r)] IN
     IF status = None THEN Answers(r, "not_found")
     ELSE IF MovesBack(req[r].op, status) THEN Answers(r, "conflict")
     ELSE Goes(r, "write", None)
  /\ UNCHANGED <<failures, trackerTables>>

WriteStatus(r) ==
  /\ req[r].pc = "write"
  /\ apps' = [apps EXCEPT ![Job(r)] = Written(req[r].op)]
  /\ Done(r, "reread")
  /\ UNCHANGED <<jobStates, lost>>

\* Mutant of Reread: the feed is not told of a submission.
RereadOnly(r) ==
  /\ req[r].pc = "reread"
  /\ Answers(r, "ok")
  /\ UNCHANGED <<failures, trackerTables>>

\* The application is read again for the answer; a submission then marks its job.
Reread(r) ==
  /\ req[r].pc = "reread"
  /\ IF Submits(r) THEN Goes(r, "load", None) ELSE Answers(r, "ok")
  /\ UNCHANGED <<failures, trackerTables>>

-----------------------------------------------------------------------------

TrackerTablesInit ==
  /\ apps = [j \in Jobs |-> None]
  /\ jobStates = [j \in Jobs |-> [dismissed |-> FALSE, applied |-> FALSE]]
  /\ lost = {}

TrackerInit ==
  /\ req = [r \in Requests |-> Idle] /\ failures = 0
  /\ TrackerTablesInit

JobStateStep(r) == LoadJobState(r) \/ SaveJobState(r)
TrackerStep(r) ==
  \/ JobStateStep(r) \/ FindJob(r) \/ InsertApplication(r)
  \/ FindApplication(r) \/ WriteStatus(r) \/ Reread(r) \/ TrackerCallFails(r)

TrackerNext ==
  \E r \in Requests :
    \/ \E op \in StateOps \cup ApplicationOps, j \in Jobs : AskTracker(r, op, j)
    \/ TrackerStep(r)

TrackerSpec == TrackerInit /\ [][TrackerNext]_trackerVars

-----------------------------------------------------------------------------
(* Properties *)

TrackerCalls == {"load", "save", "job", "insert", "find", "write", "reread"}
TrackerRefusals == {"not_found", "conflict"}
TrackerOps == StateOps \cup ApplicationOps
TrackerRequest ==
  RequestRecords(TrackerOps, Jobs, TrackerCalls, JobState, TrackerRefusals)
TrackerTypeOK ==
  /\ req \in [Requests -> TrackerRequest] /\ failures \in Nat
  /\ apps \in [Jobs -> Statuses \cup {None}]
  /\ jobStates \in [Jobs -> JobState]
  /\ lost \subseteq Jobs

\* A submission that was answered with success has marked its job as applied,
\* also when it repeats one that failed half-way, and the tracker and the feed
\* disagree only while a submission is under way or after one has failed
\* (m5/service.go:520, markApplied after the write of submitted).  A request that
\* had read the row of the job before may write it back without the mark.
SubmittedIsMarked ==
  /\ \A r \in Requests :
       Submits(r) /\ req[r].answer = "ok" => jobStates[Job(r)].applied \/ Job(r) \in lost
  /\ \A j \in Jobs :
       apps[j] = "submitted" /\ ~jobStates[j].applied /\ j \notin lost
         => \E r \in Requests : Submits(r) /\ Job(r) = j /\ req[r].answer \in {None, "error"}

\* An application that was submitted, or has got further, does not return to form_filled:
\* "application status cannot move back to form_filled" (m5/service.go:511).  The handler
\* checks the status that it has read and writes in a statement of its own, so that a PATCH
\* that read form_filled writes it over a submission that came between.
StatusNeverReturns ==
  [][\A j \in Jobs : apps[j] \notin {None, "form_filled"} => apps'[j] # "form_filled"]_trackerVars
=============================================================================
