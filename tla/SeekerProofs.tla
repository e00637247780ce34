----------------------------- MODULE SeekerProofs -----------------------------
(***************************************************************************)
(* What holds of the parts of the backend that take a job seeker's         *)
(* requests, for any number of requests in progress, jobs, CV versions,    *)
(* users, filters and failed calls: the slots of the requests (Requests),  *)
(* applications and job states (ApplicationTracker), CV versions           *)
(* (CvVersions), alerts (MatchAlerts), accounts and sessions (Credentials),*)
(* the pages of the feed (JobFeed).                                        *)
(***************************************************************************)
EXTENDS ApplicationTracker, CvVersions, MatchAlerts, Credentials, JobFeed,
        FiniteSetTheorems, TLAPS

-----------------------------------------------------------------------------
(* What one step makes of the slots of the requests.                         *)

\* Request r moves, about the same as before; the others do not notice.
Moves(r, pc, seen, answer) ==
  /\ req'[r].op = req[r].op /\ req'[r].key = req[r].key
  /\ req'[r].pc = pc /\ req'[r].seen = seen /\ req'[r].answer = answer
  /\ \A q \in Requests \ {r} : req'[q] = req[q]

\* A handler that goes on to its next call.
LEMMA GoesOn ==
  ASSUME NEW O, NEW K, NEW C, NEW S, NEW A,
         req \in [Requests -> RequestRecords(O, K, C, S, A)],
         NEW r \in Requests, NEW next \in C, NEW seen \in S \cup {None}, Goes(r, next, seen)
  PROVE  /\ Moves(r, next, seen, req[r].answer)
         /\ req' \in [Requests -> RequestRecords(O, K, C, S, A)]
<1>1. req' \in [Requests -> RequestRecords(O, K, C, S, A)]
  <2>1. [req[r] EXCEPT !.pc = next, !.seen = seen] \in RequestRecords(O, K, C, S, A)
    BY DEF RequestRecords
  <2>2. req' = [req EXCEPT ![r] = [req[r] EXCEPT !.pc = next, !.seen = seen]]
    BY DEF Goes
  <2> QED
    BY <2>1, <2>2
<1>2. /\ req'[r].op = req[r].op /\ req'[r].key = req[r].key /\ req'[r].answer = req[r].answer
      /\ req'[r].pc = next /\ req'[r].seen = seen
  BY DEF Goes, RequestRecords
<1>3. \A q \in Requests \ {r} : req'[q] = req[q]
  BY DEF Goes
<1> QED
  BY <1>1, <1>2, <1>3 DEF Moves

\* A handler that answers.
LEMMA IsAnswered ==
  ASSUME NEW O, NEW K, NEW C, NEW S, NEW A,
         req \in [Requests -> RequestRecords(O, K, C, S, A)],
         NEW r \in Requests, NEW answer \in A \cup {"ok", "error"}, Answers(r, answer)
  PROVE  /\ Moves(r, "done", req[r].seen, answer)
         /\ req' \in [Requests -> RequestRecords(O, K, C, S, A)]
<1>1. req' \in [Requests -> RequestRecords(O, K, C, S, A)]
  <2>1. [req[r] EXCEPT !.pc = "done", !.answer = answer] \in RequestRecords(O, K, C, S, A)
    BY DEF RequestRecords
  <2>2. req' = [req EXCEPT ![r] = [req[r] EXCEPT !.pc = "done", !.answer = answer]]
    BY DEF Answers
  <2> QED
    BY <2>1, <2>2
<1>2. /\ req'[r].op = req[r].op /\ req'[r].key = req[r].key /\ req'[r].seen = req[r].seen
      /\ req'[r].pc = "done" /\ req'[r].answer = answer
  BY DEF Answers, RequestRecords
<1>3. \A q \in Requests \ {r} : req'[q] = req[q]
  BY DEF Answers
<1> QED
  BY <1>1, <1>2, <1>3 DEF Moves

\* A new request takes an idle slot.
LEMMA Begins ==
  ASSUME NEW O, NEW K, NEW C, NEW S, NEW A,
         req \in [Requests -> RequestRecords(O, K, C, S, A)],
         NEW r \in Requests, NEW op \in O, NEW key \in K, NEW first \in C,
         Begin(r, op, key, first)
  PROVE  /\ req[r].pc = "idle" /\ failures' = failures
         /\ req'[r] = [op |-> op, key |-> key, pc |-> first, seen |-> None, answer |-> None]
         /\ \A q \in Requests \ {r} : req'[q] = req[q]
         /\ req' \in [Requests -> RequestRecords(O, K, C, S, A)]
  BY DEF Begin, RequestRecords

\* Nothing runs at first.
LEMMA NoneRuns ==
  ASSUME NEW O, NEW K, NEW C, NEW S, NEW A, req = [r \in Requests |-> Idle]
  PROVE  req \in [Requests -> RequestRecords(O, K, C, S, A)]
  BY DEF Idle, RequestRecords

-----------------------------------------------------------------------------
(* Applications and job states.                                              *)

\* What a request knows at each of its calls.
MarkProtocol ==
  \A r \in Requests :
    /\ req[r].pc = "idle" => req[r].op = None
    /\ req[r].pc # "done" => req[r].answer = None
    /\ req[r].pc # "idle" => req[r].op \in StateOps \cup ApplicationOps /\ Job(r) \in Jobs
    /\ req[r].pc = "save" => Seen(r) \in JobState
    /\ req[r].pc \in {"job", "insert"} => req[r].op = "create"
    /\ req[r].pc \in {"find", "write"} => req[r].op \in Statuses \cup {"confirm"}

TrackerShape == TrackerTypeOK /\ MarkProtocol
TrackerInv == TrackerShape /\ SubmittedIsMarked

-----------------------------------------------------------------------------

\* The initial states satisfy the invariant.
LEMMA TrackerInitInv == TrackerInit => TrackerInv
<1> SUFFICES ASSUME TrackerInit PROVE TrackerInv
  OBVIOUS
<1> USE TrackerAssumption, RequestsAssumption
    DEF TrackerInit, TrackerTablesInit, Idle, Job, Seen, Statuses, StateOps, ApplicationOps
<1>1. TrackerTypeOK
  BY NoneRuns DEF TrackerTypeOK, TrackerRequest, JobState
<1>2. MarkProtocol
  BY DEF MarkProtocol
<1>3. SubmittedIsMarked
  BY DEF SubmittedIsMarked, Submits, Written
<1> QED
  BY <1>1, <1>2, <1>3 DEF TrackerInv, TrackerShape

-----------------------------------------------------------------------------
(* What a step that moves a request needs to preserve *)

\* A request that moves keeps to the protocol if it goes where its operation may go, with
\* what it needs there.
LEMMA MarkProtocolMoves ==
  ASSUME MarkProtocol, NEW r \in Requests, NEW pc, NEW seen, NEW answer, Moves(r, pc, seen, answer),
         req[r].pc \notin {"idle", "done"}, pc # "idle", pc = "done" \/ answer = req[r].answer,
         pc = "save" => seen \in JobState,
         pc \in {"job", "insert"} => req[r].op = "create",
         pc \in {"find", "write"} => req[r].op \in Statuses \cup {"confirm"}
  PROVE  MarkProtocol'
  BY DEF MarkProtocol, Moves, Job, Seen

\* A request that moves keeps submissions and marks together if marks stay, if it is not
\* answered with success before its job is marked, and if only a submission submits.
LEMMA MarkMoves ==
  ASSUME TrackerShape, SubmittedIsMarked,
         NEW r \in Requests, NEW pc, NEW seen, NEW answer, Moves(r, pc, seen, answer),
         req[r].pc # "idle",
         \A j \in Jobs : jobStates[j].applied \/ j \in lost => jobStates'[j].applied \/ j \in lost',
         Submits(r) => \/ answer \in {req[r].answer, "error"}
                       \/ answer = "not_found" /\ apps'[Job(r)] # "submitted"
                       \/ jobStates'[Job(r)].applied \/ Job(r) \in lost',
         \A j \in Jobs : apps'[j] = "submitted" =>
           apps[j] = "submitted" \/ (Submits(r) /\ Job(r) = j /\ answer \in {None, "error"})
  PROVE  SubmittedIsMarked'
<1>1. \A q \in Requests : Submits(q)' <=> Submits(q)
  BY DEF Moves, Submits
<1>2. \A q \in Requests : Job(q)' = Job(q)
  BY DEF Moves, Job
<1>3. \A q \in Requests : Submits(q) => Job(q) \in Jobs
  BY TrackerAssumption
     DEF TrackerShape, MarkProtocol, Submits, Written, StateOps, ApplicationOps, Statuses
<1>4. ASSUME NEW q \in Requests, Submits(q), req'[q].answer = "ok"
      PROVE  jobStates'[Job(q)].applied \/ Job(q) \in lost'
  <2>1. CASE q = r
    BY <1>3, <1>4, <2>1 DEF Moves, SubmittedIsMarked
  <2>2. CASE q # r
    BY <1>3, <1>4, <2>2 DEF Moves, SubmittedIsMarked
  <2> QED
    BY <2>1, <2>2
<1>5. ASSUME NEW j \in Jobs, apps'[j] = "submitted", ~jobStates'[j].applied, j \notin lost'
      PROVE  \E q \in Requests : Submits(q) /\ Job(q) = j /\ req'[q].answer \in {None, "error"}
  <2>1. CASE Submits(r) /\ Job(r) = j /\ answer \in {None, "error"}
    BY <2>1 DEF Moves
  <2>2. CASE apps[j] = "submitted"
    <3>1. PICK q \in Requests : Submits(q) /\ Job(q) = j /\ req[q].answer \in {None, "error"}
      BY <1>5, <2>2 DEF SubmittedIsMarked
    <3>2. CASE q = r
      BY <1>5, <3>1, <3>2 DEF Moves
    <3>3. CASE q # r
      BY <3>1, <3>3 DEF Moves
    <3> QED
      BY <3>2, <3>3
  <2> QED
    BY <1>5, <2>1, <2>2
<1> QED
  BY <1>1, <1>2, <1>4, <1>5 DEF SubmittedIsMarked

\* Marks are kept, or their loss is recorded.
LEMMA MarksStay ==
  ASSUME TrackerShape, NEW r \in Requests, SaveJobState(r), NEW j \in Jobs,
         jobStates[j].applied \/ j \in lost
  PROVE  jobStates'[j].applied \/ j \in lost'
<1>1. /\ jobStates \in [Jobs -> JobState] /\ Seen(r) \in JobState /\ Job(r) \in Jobs
      /\ jobStates' = [jobStates EXCEPT ![Job(r)] = Changed(req[r].op, Seen(r))]
      /\ lost' = IF Seen(r) = jobStates[Job(r)] THEN lost ELSE lost \cup {Job(r)}
  BY DEF TrackerShape, TrackerTypeOK, MarkProtocol, SaveJobState
<1>2. Changed(req[r].op, Seen(r)).applied \/ ~Seen(r).applied
  BY <1>1 DEF Changed, JobState
<1>3. CASE j = Job(r)
  BY <1>1, <1>2, <1>3
<1>4. CASE j # Job(r)
  BY <1>1, <1>4
<1> QED
  BY <1>3, <1>4

\* The facts about the constants that the steps use.
LEMMA TrackerNames ==
  /\ TrackerCalls = {"load", "save", "job", "insert", "find", "write", "reread"}
  /\ "not_found" \in TrackerRefusals /\ "conflict" \in TrackerRefusals
  /\ None \notin {"ok", "error"} /\ None \notin StateOps \cup ApplicationOps
BY TrackerAssumption, RequestsAssumption DEF TrackerCalls, TrackerRefusals

\* What a request does next keeps the types of the slots.
LEMMA TrackerGoes ==
  ASSUME TrackerTypeOK, NEW r \in Requests, NEW next \in TrackerCalls,
         NEW seen \in JobState \cup {None}, Goes(r, next, seen)
  PROVE  Moves(r, next, seen, req[r].answer) /\ req' \in [Requests -> TrackerRequest]
  BY GoesOn DEF TrackerTypeOK, TrackerRequest

LEMMA TrackerAnswers ==
  ASSUME TrackerTypeOK, NEW r \in Requests, NEW answer \in TrackerRefusals \cup {"ok", "error"},
         Answers(r, answer)
  PROVE  Moves(r, "done", Seen(r), answer) /\ req' \in [Requests -> TrackerRequest]
  BY IsAnswered DEF TrackerTypeOK, TrackerRequest, RequestRecords, Seen

-----------------------------------------------------------------------------
(* The invariant: one step per action. *)

\* A request that moves preserves the invariant if it goes where it may, if what it does to
\* the tables keeps submissions and marks together, and if the tables keep their types.
TrackerMayGo(r, pc, seen) ==
  /\ req[r].pc \notin {"idle", "done"} /\ pc # "idle"
  /\ pc = "save" => seen \in JobState
  /\ pc \in {"job", "insert"} => req[r].op = "create"
  /\ pc \in {"find", "write"} => req[r].op \in Statuses \cup {"confirm"}
KeepsMarks(r, answer) ==
  /\ \A j \in Jobs : jobStates[j].applied \/ j \in lost => jobStates'[j].applied \/ j \in lost'
  /\ Submits(r) => \/ answer \in {req[r].answer, "error"}
                   \/ answer = "not_found" /\ apps'[Job(r)] # "submitted"
                   \/ jobStates'[Job(r)].applied \/ Job(r) \in lost'
  /\ \A j \in Jobs : apps'[j] = "submitted" =>
       apps[j] = "submitted" \/ (Submits(r) /\ Job(r) = j /\ answer \in {None, "error"})
TrackerKeepsTypes ==
  /\ failures' \in Nat /\ apps' \in [Jobs -> Statuses \cup {None}]
  /\ jobStates' \in [Jobs -> JobState] /\ lost' \subseteq Jobs

LEMMA TrackerInvMoves ==
  ASSUME TrackerInv, NEW r \in Requests, NEW pc, NEW seen, NEW answer,
         Moves(r, pc, seen, answer), req' \in [Requests -> TrackerRequest],
         TrackerMayGo(r, pc, seen), pc = "done" \/ answer = req[r].answer, KeepsMarks(r, answer),
         TrackerKeepsTypes
  PROVE  TrackerInv'
<1>1. TrackerTypeOK'
  BY DEF TrackerTypeOK, TrackerKeepsTypes
<1>2. MarkProtocol'
  BY MarkProtocolMoves DEF TrackerInv, TrackerShape, TrackerMayGo
<1>3. SubmittedIsMarked'
  BY MarkMoves DEF TrackerInv, TrackerMayGo, KeepsMarks
<1> QED
  BY <1>1, <1>2, <1>3 DEF TrackerInv, TrackerShape

\* Most steps leave the tables alone.
LEMMA TrackerTablesStay ==
  ASSUME TrackerInv, UNCHANGED trackerTables, failures' \in Nat, NEW r \in Requests, NEW answer,
         Submits(r) => \/ answer \in {req[r].answer, "error"}
                       \/ answer = "not_found" /\ apps[Job(r)] # "submitted"
  PROVE  KeepsMarks(r, answer) /\ TrackerKeepsTypes
<1>1. apps' = apps /\ jobStates' = jobStates /\ lost' = lost
  BY DEF trackerTables
<1>2. KeepsMarks(r, answer)
  BY <1>1 DEF KeepsMarks
<1>3. TrackerKeepsTypes
  BY <1>1 DEF TrackerKeepsTypes, TrackerInv, TrackerShape, TrackerTypeOK
<1> QED
  BY <1>2, <1>3

LEMMA TrackerInvStep == TrackerInv /\ [TrackerNext]_trackerVars => TrackerInv'
<1> SUFFICES ASSUME TrackerInv, [TrackerNext]_trackerVars PROVE TrackerInv'
  OBVIOUS
<1>0. TrackerShape /\ TrackerTypeOK /\ MarkProtocol /\ SubmittedIsMarked
  BY DEF TrackerInv, TrackerShape
<1>1. ASSUME NEW r \in Requests, NEW op \in StateOps \cup ApplicationOps, NEW j \in Jobs,
             AskTracker(r, op, j)
      PROVE  TrackerInv'
  <2> DEFINE q == [op |-> op, key |-> j, pc |-> FirstCall(op), seen |-> None, answer |-> None]
  <2>1. /\ FirstCall(op) \in {"load", "job", "find"}
        /\ FirstCall(op) = "job" => op = "create"
        /\ FirstCall(op) = "find" => op \in Statuses \cup {"confirm"}
    BY DEF FirstCall, ApplicationOps
  <2>2. /\ req[r].pc = "idle" /\ UNCHANGED <<failures, apps, jobStates, lost>>
        /\ req'[r] = q /\ \A p \in Requests \ {r} : req'[p] = req[p]
        /\ req' \in [Requests -> TrackerRequest]
    <3>1. FirstCall(op) \in TrackerCalls /\ op \in TrackerOps
      BY <2>1, TrackerNames DEF TrackerOps
    <3>2. Begin(r, op, j, FirstCall(op)) /\ UNCHANGED <<apps, jobStates, lost>>
      BY <1>1 DEF AskTracker, trackerTables
    <3> QED
      BY <1>0, <3>1, <3>2, Begins DEF TrackerTypeOK, TrackerRequest
  <2>3. TrackerTypeOK'
    BY <1>0, <2>2 DEF TrackerTypeOK
  <2>4. MarkProtocol'
    BY <1>0, <2>1, <2>2, TrackerNames DEF MarkProtocol, Job, Seen
  <2>5. SubmittedIsMarked'
    <3>1. req'[r].answer = None /\ ~Submits(r)
      BY <1>0, <2>2, TrackerNames DEF MarkProtocol, Submits, Written, ApplicationOps, Statuses
    <3>2. ASSUME NEW p \in Requests, Submits(p)', req'[p].answer = "ok"
          PROVE  jobStates'[Job(p)'].applied \/ Job(p)' \in lost'
      <4>1. p # r
        BY <3>1, <3>2, TrackerNames
      <4> QED
        BY <1>0, <2>2, <3>2, <4>1 DEF SubmittedIsMarked, Submits, Job
    <3>3. ASSUME NEW i \in Jobs, apps'[i] = "submitted", ~jobStates'[i].applied, i \notin lost'
          PROVE  \E p \in Requests :
                   Submits(p)' /\ Job(p)' = i /\ req'[p].answer \in {None, "error"}
      <4>1. PICK p \in Requests : Submits(p) /\ Job(p) = i /\ req[p].answer \in {None, "error"}
        BY <1>0, <2>2, <3>3 DEF SubmittedIsMarked
      <4> QED
        BY <3>1, <2>2, <4>1 DEF Submits, Job
    <3> QED
      BY <3>2, <3>3 DEF SubmittedIsMarked
  <2> QED
    BY <2>3, <2>4, <2>5 DEF TrackerInv, TrackerShape
<1>2. ASSUME NEW r \in Requests, LoadJobState(r) PROVE TrackerInv'
  <2>1. jobStates[Job(r)] \in JobState
    BY <1>0, <1>2 DEF MarkProtocol, LoadJobState, TrackerTypeOK
  <2>2. /\ Moves(r, "save", jobStates[Job(r)], req[r].answer)
        /\ req' \in [Requests -> TrackerRequest]
    BY <1>0, <1>2, <2>1, TrackerGoes, TrackerNames DEF LoadJobState
  <2>3. TrackerMayGo(r, "save", jobStates[Job(r)])
    BY <1>2, <2>1 DEF LoadJobState, TrackerMayGo
  <2>4. KeepsMarks(r, req[r].answer) /\ TrackerKeepsTypes
    BY <1>0, <1>2, TrackerTablesStay DEF LoadJobState, TrackerTypeOK
  <2> QED
    BY <2>2, <2>3, <2>4, TrackerInvMoves
<1>3. ASSUME NEW r \in Requests, SaveJobState(r) PROVE TrackerInv'
  <2>0. req[r].pc = "save" /\ Seen(r) \in JobState /\ Job(r) \in Jobs /\ apps' = apps
    BY <1>0, <1>3 DEF MarkProtocol, SaveJobState
  <2>1. Changed(req[r].op, Seen(r)) \in JobState
    BY <2>0 DEF Changed, JobState
  <2>2. Submits(r) => jobStates'[Job(r)].applied
    BY <1>0, <1>3, <2>0 DEF SaveJobState, Changed, Submits, Written, JobState, TrackerTypeOK
  <2>3. \A answer : KeepsMarks(r, answer)
    BY <1>0, <1>3, <2>0, <2>2, MarksStay DEF KeepsMarks
  <2>4. TrackerKeepsTypes
    BY <1>0, <1>3, <2>0, <2>1
       DEF SaveJobState, Ends, Fails, TrackerTypeOK, TrackerKeepsTypes
  <2>5. TrackerMayGo(r, "done", Seen(r))
    BY <2>0 DEF TrackerMayGo
  <2>6. /\ (Moves(r, "done", Seen(r), "ok") \/ Moves(r, "done", Seen(r), "error"))
        /\ req' \in [Requests -> TrackerRequest]
    BY <1>0, <1>3, TrackerAnswers, TrackerNames DEF SaveJobState, Ends, Fails
  <2> QED
    BY <2>3, <2>4, <2>5, <2>6, TrackerInvMoves
<1>4. ASSUME NEW r \in Requests, FindJob(r) PROVE TrackerInv'
  <2>0. req[r].pc = "job" /\ req[r].op = "create"
    BY <1>0, <1>4 DEF MarkProtocol, FindJob
  <2>1. KeepsMarks(r, req[r].answer) /\ KeepsMarks(r, "not_found") /\ TrackerKeepsTypes
    BY <1>0, <1>4, <2>0, TrackerTablesStay DEF FindJob, TrackerTypeOK, Submits, Written
  <2>2. TrackerMayGo(r, "insert", None) /\ TrackerMayGo(r, "done", Seen(r))
    BY <2>0 DEF TrackerMayGo
  <2>3. /\ (Moves(r, "insert", None, req[r].answer) \/ Moves(r, "done", Seen(r), "not_found"))
        /\ req' \in [Requests -> TrackerRequest]
    BY <1>0, <1>4, TrackerGoes, TrackerAnswers, TrackerNames DEF FindJob
  <2> QED
    BY <2>1, <2>2, <2>3, TrackerInvMoves
<1>5. ASSUME NEW r \in Requests, InsertApplication(r) PROVE TrackerInv'
  <2>0. /\ req[r].pc = "insert" /\ req[r].op = "create" /\ Job(r) \in Jobs
        /\ UNCHANGED <<jobStates, lost>>
    BY <1>0, <1>5 DEF MarkProtocol, InsertApplication
  <2>1. \A j \in Jobs : apps'[j] = "submitted" => apps[j] = "submitted"
    BY <1>0, <1>5 DEF InsertApplication, TrackerTypeOK
  <2>2. \A answer : KeepsMarks(r, answer)
    BY <2>0, <2>1 DEF KeepsMarks, Submits, Written
  <2>3. TrackerKeepsTypes
    BY <1>0, <1>5, <2>0
       DEF InsertApplication, Done, Fails, TrackerTypeOK, TrackerKeepsTypes, Statuses
  <2>4. TrackerMayGo(r, "reread", Seen(r)) /\ TrackerMayGo(r, "done", Seen(r))
    BY <2>0 DEF TrackerMayGo
  <2>5. Seen(r) \in JobState \cup {None}
    BY <1>0 DEF TrackerTypeOK, TrackerRequest, RequestRecords, Seen
  <2>6. /\ (Moves(r, "reread", Seen(r), req[r].answer) \/ Moves(r, "done", Seen(r), "error"))
        /\ req' \in [Requests -> TrackerRequest]
    BY <1>0, <1>5, <2>5, TrackerGoes, TrackerAnswers, TrackerNames
       DEF InsertApplication, Done, Fails, Seen
  <2> QED
    BY <2>2, <2>3, <2>4, <2>6, TrackerInvMoves
<1>6. ASSUME NEW r \in Requests, FindApplication(r) PROVE TrackerInv'
  <2>0. /\ req[r].pc = "find" /\ req[r].op \in Statuses \cup {"confirm"} /\ Job(r) \in Jobs
        /\ failures' = failures /\ UNCHANGED trackerTables
    BY <1>0, <1>6 DEF MarkProtocol, FindApplication
  <2>1. CASE apps[Job(r)] = None
    <3>1. /\ Moves(r, "done", Seen(r), "not_found")
          /\ req' \in [Requests -> TrackerRequest]
      BY <1>0, <1>6, <2>1, TrackerAnswers, TrackerNames DEF FindApplication
    <3>2. TrackerMayGo(r, "done", Seen(r))
      BY <2>0 DEF TrackerMayGo
    <3>3. KeepsMarks(r, "not_found") /\ TrackerKeepsTypes
      BY <1>0, <2>0, <2>1, TrackerTablesStay, TrackerNames
         DEF TrackerTypeOK, ApplicationOps, Statuses
    <3> QED
      BY <3>1, <3>2, <3>3, TrackerInvMoves
  <2>2. CASE apps[Job(r)] # None /\ MovesBack(req[r].op, apps[Job(r)])
    <3>1. /\ Moves(r, "done", Seen(r), "conflict")
          /\ req' \in [Requests -> TrackerRequest]
      BY <1>0, <1>6, <2>2, TrackerAnswers, TrackerNames DEF FindApplication
    <3>2. TrackerMayGo(r, "done", Seen(r))
      BY <2>0 DEF TrackerMayGo
    <3>3. KeepsMarks(r, "conflict") /\ TrackerKeepsTypes
      BY <1>0, <2>0, <2>2, TrackerTablesStay DEF TrackerTypeOK, MovesBack, Submits, Written
    <3> QED
      BY <3>1, <3>2, <3>3, TrackerInvMoves
  <2>3. CASE apps[Job(r)] # None /\ ~MovesBack(req[r].op, apps[Job(r)])
    <3>1. /\ Moves(r, "write", None, req[r].answer)
          /\ req' \in [Requests -> TrackerRequest]
      BY <1>0, <1>6, <2>3, TrackerGoes, TrackerNames DEF FindApplication
    <3>2. TrackerMayGo(r, "write", None)
      BY <2>0 DEF TrackerMayGo
    <3>3. KeepsMarks(r, req[r].answer) /\ TrackerKeepsTypes
      BY <1>0, <2>0, TrackerTablesStay DEF TrackerTypeOK
    <3> QED
      BY <3>1, <3>2, <3>3, TrackerInvMoves
  <2> QED
    BY <2>1, <2>2, <2>3
<1>7. ASSUME NEW r \in Requests, WriteStatus(r) PROVE TrackerInv'
  <2>0. /\ req[r].pc = "write" /\ req[r].op \in Statuses \cup {"confirm"} /\ Job(r) \in Jobs
        /\ UNCHANGED <<jobStates, lost>>
        /\ apps' = [apps EXCEPT ![Job(r)] = Written(req[r].op)]
    BY <1>0, <1>7 DEF MarkProtocol, WriteStatus
  <2>1. Written(req[r].op) \in Statuses
    BY <2>0 DEF Written, Statuses
  <2>2. \A answer \in {req[r].answer, "error"} : answer \in {None, "error"} => KeepsMarks(r, answer)
    BY <1>0, <2>0 DEF KeepsMarks, Submits, TrackerTypeOK
  <2>3. TrackerKeepsTypes
    BY <1>0, <1>7, <2>0, <2>1 DEF WriteStatus, Done, Fails, TrackerTypeOK, TrackerKeepsTypes
  <2>4. TrackerMayGo(r, "reread", Seen(r)) /\ TrackerMayGo(r, "done", Seen(r))
    BY <2>0 DEF TrackerMayGo
  <2>5. Seen(r) \in JobState \cup {None} /\ req[r].answer = None
    BY <1>0, <2>0 DEF TrackerTypeOK, TrackerRequest, RequestRecords, Seen, MarkProtocol
  <2>6. /\ (Moves(r, "reread", Seen(r), req[r].answer) \/ Moves(r, "done", Seen(r), "error"))
        /\ req' \in [Requests -> TrackerRequest]
    BY <1>0, <1>7, <2>5, TrackerGoes, TrackerAnswers, TrackerNames
       DEF WriteStatus, Done, Fails, Seen
  <2> QED
    BY <2>2, <2>3, <2>4, <2>5, <2>6, TrackerInvMoves
<1>8. ASSUME NEW r \in Requests, Reread(r) PROVE TrackerInv'
  <2>0. req[r].pc = "reread" /\ failures' = failures /\ UNCHANGED trackerTables
    BY <1>8 DEF Reread
  <2>1. CASE Submits(r)
    <3>1. /\ Moves(r, "load", None, req[r].answer)
          /\ req' \in [Requests -> TrackerRequest]
      BY <1>0, <1>8, <2>1, TrackerGoes, TrackerNames DEF Reread
    <3>2. TrackerMayGo(r, "load", None)
      BY <2>0 DEF TrackerMayGo
    <3>3. KeepsMarks(r, req[r].answer) /\ TrackerKeepsTypes
      BY <1>0, <2>0, TrackerTablesStay DEF TrackerTypeOK
    <3> QED
      BY <3>1, <3>2, <3>3, TrackerInvMoves
  <2>2. CASE ~Submits(r)
    <3>1. /\ Moves(r, "done", Seen(r), "ok")
          /\ req' \in [Requests -> TrackerRequest]
      BY <1>0, <1>8, <2>2, TrackerAnswers, TrackerNames DEF Reread
    <3>2. TrackerMayGo(r, "done", Seen(r))
      BY <2>0 DEF TrackerMayGo
    <3>3. KeepsMarks(r, "ok") /\ TrackerKeepsTypes
      BY <1>0, <2>0, <2>2, TrackerTablesStay DEF TrackerTypeOK
    <3> QED
      BY <3>1, <3>2, <3>3, TrackerInvMoves
  <2> QED
    BY <2>1, <2>2
<1>9. ASSUME NEW r \in Requests, TrackerCallFails(r) PROVE TrackerInv'
  <2>1. /\ Moves(r, "done", Seen(r), "error")
        /\ req' \in [Requests -> TrackerRequest]
    BY <1>0, <1>9, TrackerAnswers, TrackerNames DEF TrackerCallFails, CallFails, Fails
  <2>2. TrackerMayGo(r, "done", Seen(r))
    BY <1>9 DEF TrackerCallFails, CallFails, Running, TrackerMayGo
  <2>3. KeepsMarks(r, "error") /\ TrackerKeepsTypes
    BY <1>0, <1>9, TrackerTablesStay DEF TrackerCallFails, CallFails, Fails, TrackerTypeOK
  <2> QED
    BY <2>1, <2>2, <2>3, TrackerInvMoves
<1>10. CASE UNCHANGED trackerVars
  BY <1>0, <1>10
     DEF trackerVars, requestVars, trackerTables, TrackerInv, TrackerShape, TrackerTypeOK,
         MarkProtocol, SubmittedIsMarked, Job, Seen, Submits
<1> QED
  BY <1>1, <1>2, <1>3, <1>4, <1>5, <1>6, <1>7, <1>8, <1>9, <1>10
     DEF TrackerNext, TrackerStep, JobStateStep

-----------------------------------------------------------------------------
(* The theorems *)

\* The invariant holds in every reachable state, whatever requests overlap or fail.
THEOREM TrackerInvHolds == TrackerSpec => []TrackerInv
  BY TrackerInitInv, TrackerInvStep, PTL DEF TrackerSpec

\* Every request, application and job state has its type.
THEOREM TrackerIsTyped == TrackerSpec => []TrackerTypeOK
<1>1. TrackerInv => TrackerTypeOK
  BY DEF TrackerInv, TrackerShape
<1> QED
  BY <1>1, TrackerInvHolds, PTL

\* A submission that was answered with success has marked its job, and the tracker and the
\* feed disagree only while a submission is under way or after one has failed
\* (handleUpdateApplication, handleConfirmSubmit, markApplied).
THEOREM SubmissionsAreMarked == TrackerSpec => []SubmittedIsMarked
<1>1. TrackerInv => SubmittedIsMarked
  BY DEF TrackerInv
<1> QED
  BY <1>1, TrackerInvHolds, PTL

-----------------------------------------------------------------------------
(* CV versions.                                                              *)

\* The files of the user have been erased.
Erased == \E r \in Requests : req[r].op = "erase"

\* What a request is about at each of its calls, and what it knows: a file that it has found
\* is there until an erasure, and an upload that found others is not the first one since.
VersionProgress ==
  \A r \in Requests :
    /\ req[r].pc = "idle" => req[r].op = None
    /\ req[r].pc # "done" => req[r].answer = None
    /\ req[r].pc \in VersionCalls => File(r) \in Files
    /\ req[r].pc \in {"snapshot", "insert"} => req[r].op = "upload"
    /\ req[r].pc = "owned" => req[r].op \in UpdateOps \cup {"content"}
    /\ req[r].pc = "unset" => req[r].op = "set"
    /\ req[r].pc = "set" => req[r].op \in UpdateOps
    /\ req[r].pc \in {"unset", "set"} => File(r) \in files \/ Erased
    /\ req[r].pc = "insert" => req[r].seen \in BOOLEAN /\ (files # {} \/ req[r].seen \/ Erased)

\* Why no file is primary.  FilesHavePrimary admits an update from its first call on; what
\* explains it is one that has cleared the primary version and not set another.
Excuses(r) ==
  \/ req[r].op \in {"clear", "erase"}
  \/ req[r].op = "set" /\ (req[r].pc = "set" \/ req[r].answer = "error")
Excused == files # {} /\ primary = {} => \E r \in Requests : Excuses(r)

VersionInv == VersionsTypeOK /\ VersionProgress /\ Excused

-----------------------------------------------------------------------------

\* The facts about the constants that the steps use.
LEMMA VersionNames ==
  /\ VersionCalls = {"snapshot", "insert", "owned", "object", "unset", "set"}
  /\ UpdateOps = {"set", "clear", "label"}
  /\ VersionOps = {"upload", "content", "erase", "set", "clear", "label"} /\ None \notin VersionOps
  /\ "refused" \in VersionRefusals /\ "not_found" \in VersionRefusals
BY VersionsAssumption DEF VersionCalls, UpdateOps, VersionOps, VersionRefusals

\* What a request does next keeps the types of the slots.
LEMMA VersionGoes ==
  ASSUME VersionsTypeOK, NEW r \in Requests, NEW next \in VersionCalls,
         NEW seen \in BOOLEAN \cup {None}, Goes(r, next, seen)
  PROVE  Moves(r, next, seen, req[r].answer) /\ req' \in [Requests -> VersionRequest]
  BY GoesOn DEF VersionsTypeOK, VersionRequest

LEMMA VersionAnswers ==
  ASSUME VersionsTypeOK, NEW r \in Requests,
         NEW answer \in VersionRefusals \cup {"ok", "error"}, Answers(r, answer)
  PROVE  Moves(r, "done", req[r].seen, answer) /\ req' \in [Requests -> VersionRequest]
  BY IsAnswered DEF VersionsTypeOK, VersionRequest

\* The initial states satisfy the invariant.
LEMMA VersionInitInv == VersionsInit => VersionInv
<1> SUFFICES ASSUME VersionsInit PROVE VersionInv
  OBVIOUS
<1> USE DEF VersionsInit, VersionTablesInit
<1>1. VersionsTypeOK
  BY NoneRuns DEF VersionsTypeOK, VersionRequest
<1>2. VersionProgress
  BY VersionNames DEF VersionProgress, Idle
<1>3. Excused
  BY DEF Excused
<1> QED
  BY <1>1, <1>2, <1>3 DEF VersionInv

-----------------------------------------------------------------------------
(* What a step that moves a request needs to preserve *)

VersionMayGo(r, pc, seen, answer) ==
  /\ req[r].pc \notin {"idle", "done"} /\ pc # "idle"
  /\ pc = "done" \/ answer = req[r].answer
  /\ pc \in {"snapshot", "insert"} => req[r].op = "upload"
  /\ pc = "owned" => req[r].op \in UpdateOps \cup {"content"}
  /\ pc = "unset" => req[r].op = "set"
  /\ pc = "set" => req[r].op \in UpdateOps
  /\ pc \in {"unset", "set"} => File(r) \in files' \/ Erased
  /\ pc = "insert" => seen \in BOOLEAN /\ (files' # {} \/ seen \/ Erased)
VersionMayWrite(r, pc, answer) ==
  /\ failures' \in Nat /\ files \subseteq files' /\ files' \subseteq Files
  /\ primary' \subseteq files' /\ \A f, g \in primary' : f = g
  /\ files' # {} /\ primary' = {} =>
       \/ \E q \in Requests \ {r} : Excuses(q)
       \/ req[r].op \in {"clear", "erase"}
       \/ req[r].op = "set" /\ (pc = "set" \/ answer = "error")

\* A request that moves, within these bounds, preserves the invariant.
LEMMA VersionInvMoves ==
  ASSUME VersionInv, NEW r \in Requests, NEW pc, NEW seen, NEW answer, Moves(r, pc, seen, answer),
         req' \in [Requests -> VersionRequest], VersionMayGo(r, pc, seen, answer),
         VersionMayWrite(r, pc, answer)
  PROVE  VersionInv'
<1>1. VersionsTypeOK'
  BY DEF VersionsTypeOK, VersionMayWrite
<1>2. Erased => Erased'
  BY DEF Erased, Moves
<1>3. VersionProgress'
  <2> SUFFICES ASSUME NEW q \in Requests PROVE VersionProgress!(q)'
    BY DEF VersionProgress
  <2>1. CASE q = r
    <3>1. req[r].pc \in VersionCalls
      BY DEF VersionInv, VersionsTypeOK, VersionRequest, RequestRecords, VersionMayGo
    <3>2. File(r) \in Files /\ req[r].answer = None
      BY <3>1, VersionNames DEF VersionInv, VersionProgress
    <3> QED
      BY <1>2, <2>1, <3>2 DEF Moves, VersionMayGo, File
  <2>2. CASE q # r
    <3>1. req'[q] = req[q]
      BY <2>2 DEF Moves
    <3>2. files \subseteq files' /\ (files # {} => files' # {})
      BY DEF VersionMayWrite
    <3> QED
      BY <1>2, <3>1, <3>2 DEF VersionInv, VersionProgress, File
  <2> QED
    BY <2>1, <2>2
<1>4. Excused'
  BY DEF Excused, Excuses, Moves, VersionMayWrite
<1> QED
  BY <1>1, <1>3, <1>4 DEF VersionInv

\* Most steps leave the tables alone.
LEMMA VersionTablesStay ==
  ASSUME VersionInv, UNCHANGED versionTables, failures' \in Nat, NEW r \in Requests,
         NEW pc, NEW answer,
         req[r].op = "set" =>
           pc = "set" \/ answer = "error" \/ req[r].pc # "set" \/ primary # {} \/ Erased,
         req[r].pc \notin {"idle", "done"}
  PROVE  VersionMayWrite(r, pc, answer)
<1>1. files' = files /\ primary' = primary
  BY DEF versionTables
<1>2. /\ failures' \in Nat /\ files \subseteq files' /\ files' \subseteq Files
      /\ primary' \subseteq files' /\ \A f, g \in primary' : f = g
  BY <1>1 DEF VersionInv, VersionsTypeOK
<1>3. ASSUME files' # {}, primary' = {}
      PROVE  \/ \E q \in Requests \ {r} : Excuses(q)
             \/ req[r].op \in {"clear", "erase"}
             \/ req[r].op = "set" /\ (pc = "set" \/ answer = "error")
  <2>1. PICK q \in Requests : Excuses(q)
    BY <1>1, <1>3 DEF VersionInv, Excused
  <2>2. req[r].answer # "error"
    BY RequestsAssumption DEF VersionInv, VersionProgress
  <2>3. Erased => \E p \in Requests : req[p].op = "erase" /\ Excuses(p)
    BY DEF Erased, Excuses
  <2> QED
    BY <1>1, <1>3, <2>1, <2>2, <2>3 DEF Excuses
<1> QED
  BY <1>2, <1>3 DEF VersionMayWrite

-----------------------------------------------------------------------------
(* The invariant: one step per action. *)

LEMMA VersionInvStep == VersionInv /\ [VersionsNext]_versionVars => VersionInv'
<1> SUFFICES ASSUME VersionInv, [VersionsNext]_versionVars PROVE VersionInv'
  OBVIOUS
<1>0. /\ VersionsTypeOK /\ VersionProgress /\ Excused
      /\ failures \in Nat /\ files \subseteq Files /\ primary \subseteq files
      /\ \A f, g \in primary : f = g
  BY DEF VersionInv, VersionsTypeOK
<1>a. ASSUME NEW r \in Requests, NEW op \in VersionOps, NEW f \in Files,
             NEW first \in VersionCalls, Begin(r, op, f, first), UNCHANGED versionTables,
             \/ op = "upload" /\ first = "snapshot"
             \/ op \in UpdateOps \cup {"content"} /\ first = "owned"
      PROVE  VersionInv'
  <2>1. /\ req[r].pc = "idle" /\ failures' = failures /\ files' = files /\ primary' = primary
        /\ req'[r] = [op |-> op, key |-> f, pc |-> first, seen |-> None, answer |-> None]
        /\ \A q \in Requests \ {r} : req'[q] = req[q]
        /\ req' \in [Requests -> VersionRequest]
    BY <1>0, <1>a, Begins DEF VersionsTypeOK, VersionRequest, versionTables
  <2>2. VersionsTypeOK'
    BY <1>0, <2>1 DEF VersionsTypeOK
  <2>3. ~Excuses(r) /\ (Erased => Erased')
    BY <1>0, <2>1, VersionNames, RequestsAssumption DEF VersionProgress, Excuses, Erased
  <2>4. VersionProgress'
    BY <1>0, <1>a, <2>1, <2>3, VersionNames DEF VersionProgress, File
  <2>5. Excused'
    BY <1>0, <2>1, <2>3 DEF Excused, Excuses
  <2> QED
    BY <2>2, <2>4, <2>5 DEF VersionInv
<1>1. ASSUME NEW r \in Requests, NEW f \in Files, AskUpload(r, f) PROVE VersionInv'
  BY <1>1, <1>a, VersionNames DEF AskUpload
<1>2. ASSUME NEW r \in Requests, NEW f \in Files, NEW op \in UpdateOps, AskUpdate(r, op, f)
       PROVE  VersionInv'
  BY <1>2, <1>a, VersionNames DEF AskUpdate
<1>3. ASSUME NEW r \in Requests, NEW f \in Files, AskContent(r, f) PROVE VersionInv'
  BY <1>3, <1>a, VersionNames DEF AskContent
<1>4. ASSUME NEW r \in Requests, SnapshotFiles(r) PROVE VersionInv'
  <2>1. req[r].pc = "snapshot" /\ req[r].op = "upload" /\ FirstFile \in BOOLEAN
        /\ (files # {} \/ FirstFile) /\ UNCHANGED <<failures, files, primary>>
    BY <1>0, <1>4 DEF VersionProgress, SnapshotFiles, FirstFile, versionTables
  <2>2. /\ Moves(r, "insert", FirstFile, req[r].answer)
        /\ req' \in [Requests -> VersionRequest]
    BY <1>0, <1>4, VersionGoes, VersionNames DEF SnapshotFiles, FirstFile
  <2>3. VersionMayGo(r, "insert", FirstFile, req[r].answer)
    BY <2>1 DEF VersionMayGo
  <2>4. VersionMayWrite(r, "insert", req[r].answer)
    BY <1>0, <2>1, VersionTablesStay DEF versionTables
  <2> QED
    BY <2>2, <2>3, <2>4, VersionInvMoves
<1>5. ASSUME NEW r \in Requests, InsertFile(r) PROVE VersionInv'
  <2>1. /\ req[r].pc = "insert" /\ req[r].op = "upload" /\ File(r) \in Files
        /\ req[r].seen \in BOOLEAN /\ (files # {} \/ req[r].seen \/ Erased)
        /\ files' = files \cup {File(r)} /\ failures' \in Nat
        /\ primary' = IF req[r].seen THEN primary \cup {File(r)} ELSE primary
        /\ req[r].seen => primary = {}
    BY <1>0, <1>5, VersionNames DEF VersionProgress, InsertFile, Ends, Fails
  <2>2. \/ /\ Moves(r, "done", req[r].seen, "ok")
           /\ req' \in [Requests -> VersionRequest]
        \/ /\ Moves(r, "done", req[r].seen, "error")
           /\ req' \in [Requests -> VersionRequest]
    BY <1>0, <1>5, VersionAnswers DEF InsertFile, Ends, Fails
  <2>3. \A answer : VersionMayGo(r, "done", req[r].seen, answer)
    BY <2>1 DEF VersionMayGo
  <2>4. ASSUME primary' = {} PROVE \E q \in Requests \ {r} : Excuses(q)
    <3>1. files # {} \/ Erased
      BY <2>1, <2>4
    <3>2. primary = {}
      BY <2>1, <2>4
    <3>3. ~Excuses(r)
      BY <2>1 DEF Excuses
    <3> QED
      BY <1>0, <3>1, <3>2, <3>3 DEF Excused, Erased, Excuses
  <2>5. \A answer : VersionMayWrite(r, "done", answer)
    BY <1>0, <2>1, <2>4 DEF VersionMayWrite
  <2> QED
    BY <2>2, <2>3, <2>5, VersionInvMoves
<1>6. ASSUME NEW r \in Requests, RefuseSecondPrimary(r) PROVE VersionInv'
  <2>1. req[r].pc \notin {"idle", "done"} /\ primary # {} /\ UNCHANGED <<failures, files, primary>>
    BY <1>6 DEF RefuseSecondPrimary, versionTables
  <2>2. /\ Moves(r, "done", req[r].seen, "refused")
        /\ req' \in [Requests -> VersionRequest]
    BY <1>0, <1>6, VersionAnswers, VersionNames DEF RefuseSecondPrimary
  <2>3. VersionMayGo(r, "done", req[r].seen, "refused")
    BY <2>1 DEF VersionMayGo
  <2>4. VersionMayWrite(r, "done", "refused")
    BY <1>0, <2>1, VersionTablesStay DEF versionTables
  <2> QED
    BY <2>2, <2>3, <2>4, VersionInvMoves
<1>7. ASSUME NEW r \in Requests, CheckOwned(r) PROVE VersionInv'
  <2>1. /\ req[r].pc = "owned" /\ req[r].op \in UpdateOps \cup {"content"}
        /\ UNCHANGED <<failures, files, primary>>
    BY <1>0, <1>7 DEF VersionProgress, CheckOwned, versionTables
  <2>2. \A pc, answer : VersionMayWrite(r, pc, answer)
    BY <1>0, <2>1, VersionTablesStay DEF versionTables
  <2>3. CASE File(r) \notin files
    <3>1. /\ Moves(r, "done", req[r].seen, "not_found")
          /\ req' \in [Requests -> VersionRequest]
      BY <1>0, <1>7, <2>3, VersionAnswers, VersionNames DEF CheckOwned
    <3>2. VersionMayGo(r, "done", req[r].seen, "not_found")
      BY <2>1 DEF VersionMayGo
    <3> QED
      BY <2>2, <3>1, <3>2, VersionInvMoves
  <2>4. CASE File(r) \in files /\ req[r].op = "content"
    <3>1. /\ Moves(r, "object", None, req[r].answer)
          /\ req' \in [Requests -> VersionRequest]
      BY <1>0, <1>7, <2>4, VersionGoes, VersionNames DEF CheckOwned
    <3>2. VersionMayGo(r, "object", None, req[r].answer)
      BY <2>1 DEF VersionMayGo
    <3> QED
      BY <2>2, <3>1, <3>2, VersionInvMoves
  <2>5. CASE File(r) \in files /\ req[r].op # "content"
    <3> DEFINE next == IF req[r].op = "set" THEN "unset" ELSE "set"
    <3>1. /\ Moves(r, next, None, req[r].answer)
          /\ req' \in [Requests -> VersionRequest]
      BY <1>0, <1>7, <2>5, VersionGoes, VersionNames DEF CheckOwned
    <3>2. VersionMayGo(r, next, None, req[r].answer)
      BY <2>1, <2>5 DEF VersionMayGo
    <3> QED
      BY <2>2, <3>1, <3>2, VersionInvMoves
  <2> QED
    BY <2>3, <2>4, <2>5
<1>8. ASSUME NEW r \in Requests, ReadObject(r) PROVE VersionInv'
  <2>1. req[r].pc = "object" /\ UNCHANGED <<failures, files, primary>>
    BY <1>8 DEF ReadObject, versionTables
  <2>2. /\ Moves(r, "done", req[r].seen, "ok")
        /\ req' \in [Requests -> VersionRequest]
    BY <1>0, <1>8, VersionAnswers DEF ReadObject
  <2>3. VersionMayGo(r, "done", req[r].seen, "ok")
    BY <2>1 DEF VersionMayGo
  <2>4. VersionMayWrite(r, "done", "ok")
    BY <1>0, <2>1, VersionTablesStay DEF versionTables
  <2> QED
    BY <2>2, <2>3, <2>4, VersionInvMoves
<1>9. ASSUME NEW r \in Requests, ClearPrimary(r) PROVE VersionInv'
  <2>1. /\ req[r].pc = "unset" /\ req[r].op = "set" /\ (File(r) \in files \/ Erased)
        /\ primary' = {} /\ files' = files /\ failures' \in Nat
    BY <1>0, <1>9 DEF VersionProgress, ClearPrimary, Done, Fails
  <2>2. req[r].seen \in BOOLEAN \cup {None}
    BY <1>0 DEF VersionsTypeOK, VersionRequest, RequestRecords
  <2>3. CASE Goes(r, "set", req[r].seen)
    <3>1. /\ Moves(r, "set", req[r].seen, req[r].answer)
          /\ req' \in [Requests -> VersionRequest]
      BY <1>0, <2>2, <2>3, VersionGoes, VersionNames
    <3>2. VersionMayGo(r, "set", req[r].seen, req[r].answer)
      BY <2>1, VersionNames DEF VersionMayGo
    <3>3. VersionMayWrite(r, "set", req[r].answer)
      BY <1>0, <2>1 DEF VersionMayWrite
    <3> QED
      BY <3>1, <3>2, <3>3, VersionInvMoves
  <2>4. CASE Answers(r, "error")
    <3>1. /\ Moves(r, "done", req[r].seen, "error")
          /\ req' \in [Requests -> VersionRequest]
      BY <1>0, <2>4, VersionAnswers
    <3>2. VersionMayGo(r, "done", req[r].seen, "error")
      BY <2>1 DEF VersionMayGo
    <3>3. VersionMayWrite(r, "done", "error")
      BY <1>0, <2>1 DEF VersionMayWrite
    <3> QED
      BY <3>1, <3>2, <3>3, VersionInvMoves
  <2> QED
    BY <1>9, <2>3, <2>4 DEF ClearPrimary, Done, Fails
<1>10. ASSUME NEW r \in Requests, SetVersion(r) PROVE VersionInv'
  <2>1. /\ req[r].pc = "set" /\ req[r].op \in UpdateOps /\ File(r) \in files
        /\ files' = files /\ failures' \in Nat
    BY <1>0, <1>10 DEF VersionProgress, SetVersion, Ends, Fails
  <2>2. /\ req[r].op = "set" => primary' = {File(r)}
        /\ req[r].op = "clear" => primary' = primary \ {File(r)}
        /\ req[r].op = "label" => primary' = primary
    BY <1>10 DEF SetVersion
  <2>3. \A answer : VersionMayWrite(r, "done", answer)
    <3>1. CASE req[r].op = "set"
      BY <1>0, <2>1, <2>2, <3>1 DEF VersionMayWrite
    <3>2. CASE req[r].op = "clear"
      BY <1>0, <2>1, <2>2, <3>2 DEF VersionMayWrite
    <3>3. CASE req[r].op = "label"
      BY <1>0, <2>1, <2>2, <3>3 DEF VersionMayWrite, Excused, Excuses
    <3> QED
      BY <2>1, <3>1, <3>2, <3>3, VersionNames
  <2>4. \A answer : VersionMayGo(r, "done", req[r].seen, answer)
    BY <2>1 DEF VersionMayGo
  <2>5. \/ /\ Moves(r, "done", req[r].seen, "ok")
           /\ req' \in [Requests -> VersionRequest]
        \/ /\ Moves(r, "done", req[r].seen, "error")
           /\ req' \in [Requests -> VersionRequest]
    BY <1>0, <1>10, VersionAnswers DEF SetVersion, Ends, Fails
  <2> QED
    BY <2>3, <2>4, <2>5, VersionInvMoves
<1>11. ASSUME NEW r \in Requests, SetVersionGone(r) PROVE VersionInv'
  <2>1. req[r].pc = "set" /\ Erased /\ UNCHANGED <<failures, files, primary>>
    BY <1>0, <1>11 DEF VersionProgress, SetVersionGone, versionTables
  <2>2. /\ Moves(r, "done", req[r].seen, "not_found")
        /\ req' \in [Requests -> VersionRequest]
    BY <1>0, <1>11, VersionAnswers, VersionNames DEF SetVersionGone
  <2>3. VersionMayGo(r, "done", req[r].seen, "not_found")
    BY <2>1 DEF VersionMayGo
  <2>4. VersionMayWrite(r, "done", "not_found")
    BY <1>0, <2>1, VersionTablesStay DEF versionTables
  <2> QED
    BY <2>2, <2>3, <2>4, VersionInvMoves
<1>12. ASSUME NEW r \in Requests, VersionCallFails(r) PROVE VersionInv'
  <2>1. req[r].pc \notin {"idle", "done"} /\ failures' \in Nat
    BY <1>0, <1>12 DEF VersionCallFails, CallFails, Running, Fails
  <2>2. /\ Moves(r, "done", req[r].seen, "error")
        /\ req' \in [Requests -> VersionRequest]
    BY <1>0, <1>12, VersionAnswers DEF VersionCallFails, CallFails, Fails
  <2>3. VersionMayGo(r, "done", req[r].seen, "error")
    BY <2>1 DEF VersionMayGo
  <2>4. VersionMayWrite(r, "done", "error")
    BY <1>0, <1>12, <2>1, VersionTablesStay DEF VersionCallFails
  <2> QED
    BY <2>2, <2>3, <2>4, VersionInvMoves
<1>13. ASSUME NEW r \in Requests, DeleteByUser(r) PROVE VersionInv'
  <2> DEFINE q == [op |-> "erase", key |-> None, pc |-> "done", seen |-> None, answer |-> "ok"]
  <2>1. /\ req' = [req EXCEPT ![r] = q] /\ files' = {} /\ primary' = {} /\ failures' = failures
    BY <1>13 DEF DeleteByUser
  <2>2. q \in VersionRequest
    BY VersionNames DEF VersionRequest, RequestRecords
  <2>3. /\ req'[r] = q /\ \A p \in Requests \ {r} : req'[p] = req[p]
        /\ req' \in [Requests -> VersionRequest]
    <3> HIDE DEF q
    <3> QED
      BY <1>0, <2>1, <2>2 DEF VersionsTypeOK
  <2>4. VersionsTypeOK'
    BY <1>0, <2>1, <2>3 DEF VersionsTypeOK
  <2>5. Erased'
    BY <2>3 DEF Erased
  <2>6. VersionProgress'
    BY <1>0, <2>3, <2>5, VersionNames DEF VersionProgress, File
  <2>7. Excused'
    BY <2>1 DEF Excused
  <2> QED
    BY <2>4, <2>6, <2>7 DEF VersionInv
<1>14. CASE UNCHANGED versionVars
  BY <1>0, <1>14
     DEF versionVars, requestVars, versionTables, VersionInv, VersionsTypeOK, VersionProgress,
         Erased, Excused, Excuses, File
<1> QED
  BY <1>1, <1>2, <1>3, <1>4, <1>5, <1>6, <1>7, <1>8, <1>9, <1>10, <1>11, <1>12, <1>13, <1>14
     DEF VersionsNext, VersionStep

-----------------------------------------------------------------------------
(* The theorems *)

\* The invariant holds in every reachable state, whatever requests overlap or fail.
THEOREM VersionInvHolds == VersionsSpec => []VersionInv
  BY VersionInitInv, VersionInvStep, PTL DEF VersionsSpec

\* Requests, files and primary versions have their types, and there is one primary version
\* at most (the partial unique index of migration 0010).
THEOREM VersionsAreTyped == VersionsSpec => []VersionsTypeOK
<1>1. VersionInv => VersionsTypeOK
  BY DEF VersionInv
<1> QED
  BY <1>1, VersionInvHolds, PTL

\* A user with CVs has a primary one, unless an update has cleared it or has not come to its
\* end, or an erasure took place (CreateFile and UpdateVersion of pgxrepo.go).
THEOREM PrimaryIsKept == VersionsSpec => []FilesHavePrimary
<1>1. VersionInv => FilesHavePrimary
  BY DEF VersionInv, Excused, Excuses, FilesHavePrimary, Running
<1> QED
  BY <1>1, VersionInvHolds, PTL

-----------------------------------------------------------------------------
(* Alerts.                                                                   *)

\* A row of saved_filters as it was read, and a mail about what it selects.
RowRecord == [filter : Filters, cutoff : Nat]
Mail == [filter : Filters, cutoff : Nat, new : SUBSET Jobs, looked : SUBSET Jobs]
AlertRequest ==
  RequestRecords({"notify"}, Filters, {"user", "list", "filter", "look", "send", "touch"},
                 Users \cup RowRecord \cup Mail, {"not_found"})

AlertTablesTyped ==
  /\ users \subseteq Users /\ made \subseteq Filters
  /\ filters \in [Filters -> [created : Nat, alerted : Nat \cup {None}] \cup {None}]
  /\ stored \subseteq Jobs /\ posted \in [Jobs -> Nat \cup {None}] /\ now \in Nat
  /\ told \in [Filters -> [Jobs -> Nat]] /\ late \in [Filters -> SUBSET Jobs]
  /\ untouched \subseteq Filters /\ repeats \subseteq Filters
AlertTypeOK ==
  /\ req \in [Requests -> AlertRequest] /\ failures \in Nat
  /\ pass \in [users : SUBSET Users, rows : SUBSET RowRecord]
  /\ AlertTablesTyped

\* The rows of filters and jobs are of the past.
Past ==
  /\ \A f \in Filters : filters[f] # None =>
       /\ f \in made /\ filters[f].created <= now
       /\ filters[f].alerted # None => filters[f].alerted <= now
  /\ \A j \in Dated : posted[j] <= now

\* A job that was told of was stored by then; unless the filter has not been touched
\* since, a touch has passed it.
Passed ==
  \A f \in Filters, j \in Jobs : told[f][j] > 0 =>
    /\ f \in made /\ j \in Dated
    /\ filters[f] # None /\ f \notin untouched =>
         filters[f].alerted # None /\ posted[j] <= filters[f].alerted

\* A row that was read: a touch since only moves the cutoff on.
WasRead(row) ==
  /\ row.filter \in made
  /\ filters[row.filter] # None => row.cutoff <= Row(row.filter).cutoff

\* What a notification knows at each of its calls.
Informed(p) ==
  /\ p # Loop /\ req[p].pc = "filter" => req[p].key \in Filters
  /\ req[p].pc = "list" => req[p].seen \in Users
  /\ req[p].pc = "look" => req[p].seen \in RowRecord /\ WasRead(req[p].seen)
  /\ req[p].pc \in {"send", "touch"} =>
       LET mail == req[p].seen IN
       /\ mail \in Mail /\ WasRead(mail) /\ mail.looked \subseteq stored
       /\ mail.new = {j \in mail.looked \cap Selects[mail.filter] :
                        posted[j] # None /\ posted[j] > mail.cutoff}
       /\ req[p].pc = "touch" => \A j \in mail.new : told[mail.filter][j] > 0

Notifying == (\A p \in Requests : Informed(p)) /\ \A row \in pass.rows : WasRead(row)

AlertsInv == AlertTypeOK /\ Past /\ Passed /\ Notifying /\ AlertsAreExact

-----------------------------------------------------------------------------
(* What a step makes of a slot and of the tables. *)

\* A notification moves; the others do not notice.
Turns(p, pc, seen) ==
  /\ req' \in [Requests -> AlertRequest]
  /\ req'[p].pc = pc /\ req'[p].seen = seen
  /\ \A q \in Requests \ {p} : req'[q] = req[q]

\* A notification ends: what was read for it is forgotten, or waits in the pass.
Leaves(p) ==
  /\ req' \in [Requests -> AlertRequest]
  /\ req'[p].pc \in {"idle", "done"} \/ (p = Loop /\ req'[p].pc = "filter")
  /\ \A q \in Requests \ {p} : req'[q] = req[q]
  /\ pass' \in [users : SUBSET Users, rows : SUBSET RowRecord] /\ pass'.rows \subseteq pass.rows

\* The tables go on: no job leaves, no filter returns, its cutoff only moves on.
Grows ==
  /\ made \subseteq made' /\ stored \subseteq stored'
  /\ \A j \in stored : posted'[j] = posted[j]
  /\ \A f \in Filters, j \in Jobs : told[f][j] <= told'[f][j]
  /\ \A f \in made : filters'[f] # None =>
       filters[f] # None /\ Row(f).cutoff <= Row(f)'.cutoff

LEMMA AlertNames ==
  /\ None \notin {"ok", "error"} /\ None \notin Nat /\ Loop \in Requests
  /\ Owner \in [Filters -> Users] /\ Selects \in [Filters -> SUBSET Jobs]
BY RequestsAssumption, AlertsAssumption

\* The row of a filter has the type of rows, and the cutoff is the time of the last touch.
LEMMA RowTyped ==
  ASSUME AlertTablesTyped, NEW f \in Filters, filters[f] # None
  PROVE  /\ Row(f) \in RowRecord /\ Row(f).filter = f
         /\ filters[f].created \in Nat /\ filters[f].alerted \in Nat \cup {None}
         /\ filters[f].alerted = None => Row(f).cutoff = filters[f].created
         /\ filters[f].alerted # None => Row(f).cutoff = filters[f].alerted
<1>1. filters[f] \in [created : Nat, alerted : Nat \cup {None}]
  BY DEF AlertTablesTyped
<1>2. filters[f].created \in Nat /\ filters[f].alerted \in Nat \cup {None}
  BY <1>1
<1> QED
  BY <1>2 DEF Row, RowRecord

LEMMA AlertGoes ==
  ASSUME req \in [Requests -> AlertRequest], NEW p \in Requests,
         NEW next \in {"user", "list", "filter", "look", "send", "touch"},
         NEW seen \in Users \cup RowRecord \cup Mail \cup {None}, Goes(p, next, seen)
  PROVE  Turns(p, next, seen)
  BY GoesOn DEF AlertRequest, Turns, Moves

LEMMA AlertAnswers ==
  ASSUME req \in [Requests -> AlertRequest], NEW p \in Requests,
         NEW answer \in {"not_found", "ok", "error"}, Answers(p, answer)
  PROVE  Turns(p, "done", req[p].seen)
<1>1. answer \in {"not_found"} \cup {"ok", "error"}
  OBVIOUS
<1>2. Moves(p, "done", req[p].seen, answer) /\ req' \in [Requests -> AlertRequest]
  BY <1>1, IsAnswered DEF AlertRequest
<1> QED
  BY <1>2 DEF Turns, Moves

\* The end of a notification, of a pass, and of what fails.
LEMMA StopsLeave ==
  ASSUME AlertTypeOK, NEW p \in Requests, NEW answer \in {"ok", "error"}, Stops(p, answer)
  PROVE  Leaves(p)
<1>t. /\ req \in [Requests -> AlertRequest]
      /\ pass \in [users : SUBSET Users, rows : SUBSET RowRecord]
  BY DEF AlertTypeOK
<1>1. CASE p = Loop
  <2>1. req' = [req EXCEPT ![p] = Idle] /\ pass' = NoPass
    BY <1>1 DEF Stops
  <2>2. Idle \in AlertRequest /\ Idle.pc = "idle"
    BY DEF Idle, AlertRequest, RequestRecords
  <2>3. pass' \in [users : SUBSET Users, rows : SUBSET RowRecord] /\ pass'.rows = {}
    BY <2>1 DEF NoPass
  <2>4. req' \in [Requests -> AlertRequest] /\ req'[p] = Idle
    BY <1>t, <2>1, <2>2
  <2>5. \A q \in Requests \ {p} : req'[q] = req[q]
    BY <1>t, <2>1
  <2> QED
    BY <2>2, <2>3, <2>4, <2>5 DEF Leaves
<1>2. CASE p # Loop
  <2>1. Answers(p, answer) /\ pass' = pass
    BY <1>2 DEF Stops
  <2>2. Turns(p, "done", req[p].seen)
    BY <1>t, <2>1, AlertAnswers
  <2> QED
    BY <1>t, <2>1, <2>2 DEF Turns, Leaves
<1> QED
  BY <1>1, <1>2

LEMMA NotifiedLeaves ==
  ASSUME AlertTypeOK, NEW p \in Requests, Notified(p)
  PROVE  Leaves(p)
<1>t. /\ req \in [Requests -> AlertRequest]
      /\ pass \in [users : SUBSET Users, rows : SUBSET RowRecord]
  BY DEF AlertTypeOK
<1>1. CASE p = Loop
  <2>1. Goes(p, "filter", None) /\ pass' = pass
    BY <1>1 DEF Notified
  <2>2. Turns(p, "filter", None)
    BY <1>t, <2>1, AlertGoes
  <2> QED
    BY <1>t, <1>1, <2>1, <2>2 DEF Turns, Leaves
<1>2. CASE p # Loop
  <2>1. Answers(p, "ok") /\ pass' = pass
    BY <1>2 DEF Notified
  <2>2. Turns(p, "done", req[p].seen)
    BY <1>t, <2>1, AlertAnswers
  <2> QED
    BY <1>t, <2>1, <2>2 DEF Turns, Leaves
<1> QED
  BY <1>1, <1>2

LEMMA BreaksLeave ==
  ASSUME AlertTypeOK, NEW p \in Requests, Breaks(p)
  PROVE  Leaves(p) /\ failures' \in Nat
<1>1. Stops(p, "error") /\ failures' = failures + 1 /\ failures \in Nat
  BY DEF Breaks, AlertTypeOK
<1> QED
  BY <1>1, StopsLeave

-----------------------------------------------------------------------------
(* What was read stays true. *)

LEMMA ReadStays ==
  ASSUME AlertTablesTyped, AlertTablesTyped', Grows,
         NEW row \in RowRecord \cup Mail, WasRead(row)
  PROVE  WasRead(row)'
<1> DEFINE f == row.filter
<1>1. f \in Filters /\ f \in made /\ f \in made' /\ row.cutoff \in Nat
  BY DEF WasRead, Grows, AlertTablesTyped, RowRecord, Mail
<1>2. ASSUME filters'[f] # None
      PROVE  row.cutoff <= Row(f)'.cutoff
  <2>1. filters[f] # None /\ Row(f).cutoff <= Row(f)'.cutoff
    BY <1>1, <1>2 DEF Grows
  <2>2. row.cutoff <= Row(f).cutoff
    BY <2>1 DEF WasRead
  <2>3. Row(f).cutoff \in Nat
    BY <1>1, <2>1, RowTyped DEF RowRecord
  <2>4. filters'[f] \in [created : Nat, alerted : Nat \cup {None}]
    BY <1>1, <1>2 DEF AlertTablesTyped
  <2>5. Row(f)'.cutoff \in Nat
    BY <2>4 DEF Row
  <2> QED
    BY <1>1, <2>1, <2>2, <2>3, <2>5
<1> QED
  BY <1>1, <1>2 DEF WasRead

LEMMA InformedStays ==
  ASSUME AlertTypeOK, AlertTablesTyped', Grows,
         NEW q \in Requests, Informed(q), req'[q] = req[q]
  PROVE  Informed(q)'
<1>1. AlertTablesTyped
  BY DEF AlertTypeOK
<1>2. CASE req[q].pc \notin {"look", "send", "touch"}
  BY <1>2 DEF Informed
<1>3. CASE req[q].pc = "look"
  <2>1. req[q].seen \in RowRecord /\ WasRead(req[q].seen)
    BY <1>3 DEF Informed
  <2>2. WasRead(req[q].seen)'
    <3> DEFINE row == req[q].seen
    <3>1. row \in RowRecord /\ row' = row
      BY <2>1
    <3> HIDE DEF row
    <3> QED
      BY <1>1, <2>1, <3>1, ReadStays DEF row
  <2> QED
    BY <1>3, <2>1, <2>2 DEF Informed
<1>4. CASE req[q].pc \in {"send", "touch"}
  <2>1. /\ req[q].seen \in Mail /\ WasRead(req[q].seen)
        /\ req[q].seen.looked \subseteq stored
        /\ req[q].seen.new = {j \in req[q].seen.looked \cap Selects[req[q].seen.filter] :
                                posted[j] # None /\ posted[j] > req[q].seen.cutoff}
        /\ req[q].pc = "touch" => \A j \in req[q].seen.new : told[req[q].seen.filter][j] > 0
    BY <1>4 DEF Informed
  <2> DEFINE mail == req[q].seen
             f == mail.filter
  <2>2. /\ mail \in Mail /\ mail' = mail /\ f \in Filters /\ mail.new \subseteq Jobs
        /\ mail.looked \subseteq Jobs /\ mail.cutoff \in Nat
    BY <2>1 DEF Mail
  <2>3. WasRead(mail)'
    <3> HIDE DEF mail
    <3> QED
      BY <1>1, <2>1, <2>2, ReadStays DEF mail
  <2>4. mail.looked \subseteq stored' /\ \A j \in mail.looked : posted'[j] = posted[j]
    BY <2>1 DEF Grows
  <2>5. mail.new = {j \in mail.looked \cap Selects[f] :
                      posted'[j] # None /\ posted'[j] > mail.cutoff}
    BY <2>1, <2>4
  <2>6. ASSUME req[q].pc = "touch", NEW j \in mail.new PROVE told'[f][j] > 0
    <3>1. told[f][j] > 0 /\ told[f][j] <= told'[f][j]
      BY <2>1, <2>2, <2>6 DEF Grows
    <3>2. told[f][j] \in Nat /\ told'[f][j] \in Nat
      BY <1>1, <2>2, <2>6 DEF AlertTablesTyped
    <3> QED
      BY <3>1, <3>2
  <2> QED
    BY <1>4, <2>2, <2>3, <2>4, <2>5, <2>6 DEF Informed
<1> QED
  BY <1>2, <1>3, <1>4

\* One notification moves, knowing what it needs; the others know what they knew.
LEMMA OneMoves ==
  ASSUME AlertsInv, AlertTablesTyped', Grows, failures' \in Nat,
         NEW p \in Requests, req' \in [Requests -> AlertRequest],
         \A q \in Requests \ {p} : req'[q] = req[q], Informed(p)',
         pass' \in [users : SUBSET Users, rows : SUBSET RowRecord],
         \A row \in pass'.rows : WasRead(row)'
  PROVE  AlertTypeOK' /\ Notifying'
<1>1. AlertTypeOK'
  BY DEF AlertTypeOK
<1>2. ASSUME NEW q \in Requests PROVE Informed(q)'
  <2>1. CASE q = p
    BY <2>1
  <2>2. CASE q # p
    <3>1. req'[q] = req[q] /\ Informed(q) /\ AlertTypeOK
      BY <2>2 DEF AlertsInv, Notifying
    <3> QED
      BY <3>1, InformedStays
  <2> QED
    BY <2>1, <2>2
<1> QED
  BY <1>1, <1>2 DEF Notifying

\* The rows that the pass keeps stay as they were read.
LEMMA RowsStay ==
  ASSUME AlertsInv, AlertTablesTyped', Grows, pass'.rows \subseteq pass.rows
  PROVE  \A row \in pass'.rows : WasRead(row)'
<1> SUFFICES ASSUME NEW row \in pass'.rows PROVE WasRead(row)'
  OBVIOUS
<1>1. row \in RowRecord /\ WasRead(row) /\ AlertTablesTyped
  BY DEF AlertsInv, AlertTypeOK, Notifying
<1> QED
  BY <1>1, ReadStays

LEMMA OneLeaves ==
  ASSUME AlertsInv, AlertTablesTyped', Grows, failures' \in Nat, NEW p \in Requests, Leaves(p)
  PROVE  AlertTypeOK' /\ Notifying'
<1>1. /\ req' \in [Requests -> AlertRequest] /\ \A q \in Requests \ {p} : req'[q] = req[q]
      /\ pass' \in [users : SUBSET Users, rows : SUBSET RowRecord]
      /\ pass'.rows \subseteq pass.rows
  BY DEF Leaves
<1>2. Informed(p)'
  BY DEF Leaves, Informed
<1> QED
  BY <1>1, <1>2, RowsStay, OneMoves

\* No notification moves.
LEMMA NoneMoves ==
  ASSUME AlertsInv, AlertTablesTyped', Grows, UNCHANGED <<req, failures, pass>>
  PROVE  AlertTypeOK' /\ Notifying'
<1>1. AlertTypeOK'
  BY DEF AlertsInv, AlertTypeOK
<1>2. \A q \in Requests : Informed(q)'
  BY InformedStays DEF AlertsInv, Notifying
<1> QED
  BY <1>1, <1>2, RowsStay DEF Notifying

\* The tables and their history stay as they are.
TablesHold == AlertTablesTyped' /\ Grows /\ Past' /\ Passed' /\ AlertsAreExact'

LEMMA TablesRest ==
  ASSUME AlertsInv, UNCHANGED <<alertTables, alertHistory>>
  PROVE  TablesHold
<1>1. UNCHANGED <<users, made, filters, stored, posted, now, told, untouched, repeats, late>>
  BY DEF alertTables, alertHistory
<1>2. AlertTablesTyped /\ AlertTablesTyped'
  BY <1>1 DEF AlertsInv, AlertTypeOK, AlertTablesTyped
<1>3. Past' /\ Passed' /\ AlertsAreExact'
  BY <1>1 DEF AlertsInv, Past, Passed, AlertsAreExact, AlertedJobWasTold, JobIsToldOnce, Dated
<1>4. \A f \in Filters, j \in Jobs : told[f][j] <= told'[f][j]
  BY <1>1, <1>2 DEF AlertTablesTyped
<1>5. ASSUME NEW f \in made, filters'[f] # None
      PROVE  filters[f] # None /\ Row(f).cutoff <= Row(f)'.cutoff
  <2>1. f \in Filters /\ filters[f] # None
    BY <1>1, <1>2, <1>5 DEF AlertTablesTyped
  <2>2. Row(f).cutoff \in Nat
    BY <1>2, <2>1, RowTyped DEF RowRecord
  <2>3. Row(f)' = Row(f)
    BY <1>1 DEF Row
  <2> QED
    BY <2>1, <2>2, <2>3
<1> QED
  BY <1>1, <1>2, <1>3, <1>4, <1>5 DEF TablesHold, Grows

-----------------------------------------------------------------------------
(* The steps that leave the tables alone. *)

LEMMA AlertReads ==
  ASSUME AlertsInv, StartPass \/ NextUser \/ ListFilters \/ NextFilter
  PROVE  AlertsInv'
<1>t. /\ req \in [Requests -> AlertRequest] /\ failures \in Nat /\ AlertTypeOK
      /\ pass \in [users : SUBSET Users, rows : SUBSET RowRecord] /\ AlertTablesTyped
      /\ Loop \in Requests
  BY AlertNames DEF AlertsInv, AlertTypeOK
<1>h. TablesHold
  BY TablesRest DEF StartPass, NextUser, ListFilters, NextFilter
<1>f. failures' \in Nat
  BY <1>t DEF StartPass, NextUser, ListFilters, NextFilter
<1>r. UNCHANGED <<made, filters>>
  BY DEF StartPass, NextUser, ListFilters, NextFilter, alertTables
<1>s. SUFFICES AlertTypeOK' /\ Notifying'
  BY <1>h DEF TablesHold, AlertsInv
<1>1. CASE StartPass
  <2>1. /\ req' = [req EXCEPT ![Loop].pc = "user"]
        /\ pass' = [NoPass EXCEPT !.users = {Owner[f] : f \in {g \in Filters : filters[g] # None}}]
    BY <1>1 DEF StartPass
  <2>2. [req[Loop] EXCEPT !.pc = "user"] \in AlertRequest
    BY <1>t DEF AlertRequest, RequestRecords
  <2>3. req' = [req EXCEPT ![Loop] = [req[Loop] EXCEPT !.pc = "user"]]
    BY <2>1
  <2>4. req' \in [Requests -> AlertRequest] /\ \A q \in Requests \ {Loop} : req'[q] = req[q]
    BY <1>t, <2>2, <2>3
  <2>5. req'[Loop].pc = "user"
    BY <1>t, <2>3 DEF AlertRequest, RequestRecords
  <2>6. /\ pass' \in [users : SUBSET Users, rows : SUBSET RowRecord]
        /\ pass'.rows = {}
    BY <2>1, AlertNames DEF NoPass
  <2>7. Informed(Loop)'
    BY <2>5 DEF Informed
  <2> QED
    BY <1>t, <1>h, <1>f, <2>4, <2>6, <2>7, OneMoves DEF TablesHold
<1>2. CASE NextUser
  <2>1. CASE Stops(Loop, "ok") \/ Stops(Loop, "error")
    BY <1>t, <1>h, <1>f, <2>1, StopsLeave, OneLeaves DEF TablesHold
  <2>2. CASE \E u \in pass.users :
               Goes(Loop, "list", u) /\ pass' = [pass EXCEPT !.users = @ \ {u}]
    <3>1. PICK u \in pass.users :
            Goes(Loop, "list", u) /\ pass' = [pass EXCEPT !.users = @ \ {u}]
      BY <2>2
    <3>2. u \in Users /\ Turns(Loop, "list", u)
      BY <1>t, <3>1, AlertGoes
    <3>3. /\ pass' \in [users : SUBSET Users, rows : SUBSET RowRecord]
          /\ pass'.rows = pass.rows
      BY <1>t, <3>1
    <3>4. Informed(Loop)'
      BY <3>2 DEF Turns, Informed
    <3> QED
      BY <1>t, <1>h, <1>f, <3>2, <3>3, <3>4, RowsStay, OneMoves DEF TablesHold, Turns
  <2> QED
    BY <1>2, <2>1, <2>2 DEF NextUser
<1>3. CASE ListFilters
  <2> DEFINE rows == {Row(f) : f \in FiltersOf(req[Loop].seen)}
  <2>1. Goes(Loop, "filter", None) /\ pass' = [pass EXCEPT !.rows = rows]
    BY <1>3 DEF ListFilters
  <2>2. Turns(Loop, "filter", None)
    BY <1>t, <2>1, AlertGoes
  <2>3. ASSUME NEW row \in rows PROVE row \in RowRecord /\ WasRead(row)'
    <3>1. PICK f \in FiltersOf(req[Loop].seen) : row = Row(f)
      BY <2>3
    <3>2. f \in Filters /\ filters[f] # None /\ f \in made
      BY <3>1 DEF FiltersOf, AlertsInv, Past
    <3>3. row \in RowRecord /\ row.filter = f /\ row.cutoff \in Nat
      BY <1>t, <3>1, <3>2, RowTyped DEF RowRecord
    <3>4. Row(row.filter)' = row
      BY <1>r, <3>1, <3>3 DEF Row
    <3> QED
      BY <1>r, <3>2, <3>3, <3>4 DEF WasRead
  <2>4. /\ pass' \in [users : SUBSET Users, rows : SUBSET RowRecord]
        /\ pass'.rows = rows
    BY <1>t, <2>1, <2>3
  <2>5. Informed(Loop)'
    BY <2>2 DEF Turns, Informed
  <2> HIDE DEF rows
  <2>6. \A row \in pass'.rows : WasRead(row)'
    BY <2>3, <2>4
  <2> QED
    BY <1>t, <1>h, <1>f, <2>2, <2>4, <2>5, <2>6, OneMoves DEF TablesHold, Turns
<1>4. CASE NextFilter
  <2>1. CASE Goes(Loop, "user", None) /\ UNCHANGED pass
    <3>1. Turns(Loop, "user", None)
      BY <1>t, <2>1, AlertGoes
    <3>2. Informed(Loop)'
      BY <3>1 DEF Turns, Informed
    <3> QED
      BY <1>t, <1>h, <1>f, <2>1, <3>1, <3>2, RowsStay, OneMoves DEF TablesHold, Turns
  <2>2. CASE \E row \in pass.rows :
               Goes(Loop, "look", row) /\ pass' = [pass EXCEPT !.rows = @ \ {row}]
    <3>1. PICK row \in pass.rows :
            Goes(Loop, "look", row) /\ pass' = [pass EXCEPT !.rows = @ \ {row}]
      BY <2>2
    <3>2. row \in RowRecord /\ WasRead(row)
      BY <1>t, <3>1 DEF AlertsInv, Notifying
    <3>3. Turns(Loop, "look", row)
      BY <1>t, <3>1, <3>2, AlertGoes
    <3>4. /\ pass' \in [users : SUBSET Users, rows : SUBSET RowRecord]
          /\ pass'.rows \subseteq pass.rows
      BY <1>t, <3>1
    <3>5. WasRead(row)'
      BY <1>t, <1>h, <3>2, ReadStays DEF TablesHold
    <3>6. Informed(Loop)'
      BY <3>2, <3>3, <3>5 DEF Turns, Informed
    <3> QED
      BY <1>t, <1>h, <1>f, <3>3, <3>4, <3>6, RowsStay, OneMoves DEF TablesHold, Turns
  <2> QED
    BY <1>4, <2>1, <2>2 DEF NextFilter
<1> QED
  BY <1>1, <1>2, <1>3, <1>4

LEMMA NotifyReads ==
  ASSUME AlertsInv, NEW p \in Requests,
         \/ \E f \in Filters : AskNotify(p, f)
         \/ GetFilter(p) \/ Look(p) \/ TouchNothing(p) \/ AlertCallFails(p)
  PROVE  AlertsInv'
<1>t. /\ req \in [Requests -> AlertRequest] /\ failures \in Nat /\ AlertTypeOK
      /\ pass \in [users : SUBSET Users, rows : SUBSET RowRecord] /\ AlertTablesTyped
  BY DEF AlertsInv, AlertTypeOK
<1>h. TablesHold
  BY TablesRest DEF AskNotify, GetFilter, Look, TouchNothing, AlertCallFails
<1>r. UNCHANGED <<made, filters, stored, posted>>
  BY DEF AskNotify, GetFilter, Look, TouchNothing, AlertCallFails, alertTables
<1>s. SUFFICES AlertTypeOK' /\ Notifying'
  BY <1>h DEF TablesHold, AlertsInv
<1>1. ASSUME NEW f \in Filters, AskNotify(p, f) PROVE AlertTypeOK' /\ Notifying'
  <2>1. p # Loop /\ Begin(p, "notify", f, "filter") /\ pass' = pass /\ failures' = failures
    BY <1>1 DEF AskNotify, Begin
  <2>2. /\ req'[p] = [op |-> "notify", key |-> f, pc |-> "filter", seen |-> None, answer |-> None]
        /\ \A q \in Requests \ {p} : req'[q] = req[q]
        /\ req' \in [Requests -> AlertRequest]
    <3>1. [op |-> "notify", key |-> f, pc |-> "filter", seen |-> None, answer |-> None]
            \in AlertRequest
      BY DEF AlertRequest, RequestRecords
    <3> QED
      BY <1>t, <2>1, <3>1 DEF Begin
  <2>3. Informed(p)'
    BY <2>2 DEF Informed
  <2> QED
    BY <1>t, <1>h, <2>1, <2>2, <2>3, RowsStay, OneMoves DEF TablesHold
<1>2. CASE GetFilter(p)
  <2>1. /\ p # Loop /\ req[p].pc = "filter" /\ pass' = pass /\ failures' = failures
        /\ \/ Answers(p, "not_found")
           \/ filters[req[p].key] # None /\ Goes(p, "look", Row(req[p].key))
    BY <1>2 DEF GetFilter
  <2>2. CASE Answers(p, "not_found")
    <3>1. Turns(p, "done", req[p].seen)
      BY <1>t, <2>2, AlertAnswers
    <3>2. Leaves(p)
      BY <1>t, <2>1, <3>1 DEF Turns, Leaves
    <3> QED
      BY <1>t, <1>h, <2>1, <3>2, OneLeaves DEF TablesHold
  <2>3. CASE filters[req[p].key] # None /\ Goes(p, "look", Row(req[p].key))
    <3> DEFINE f == req[p].key
    <3>1. f \in Filters /\ filters[f] # None /\ f \in made
      BY <2>1, <2>3 DEF AlertsInv, Notifying, Informed, Past
    <3>2. Row(f) \in RowRecord /\ Row(f).filter = f /\ Row(f).cutoff \in Nat
      BY <1>t, <3>1, RowTyped DEF RowRecord
    <3> PICK row : row = Row(f)
      OBVIOUS
    <3>3. Turns(p, "look", row)
      BY <1>t, <2>3, <3>2, AlertGoes
    <3>4. row \in RowRecord /\ WasRead(row)
      BY <3>1, <3>2 DEF WasRead
    <3>5. WasRead(row)'
      BY <1>t, <1>h, <3>4, ReadStays DEF TablesHold
    <3>6. Informed(p)'
      BY <3>3, <3>4, <3>5 DEF Turns, Informed
    <3> QED
      BY <1>t, <1>h, <2>1, <3>3, <3>6, RowsStay, OneMoves DEF TablesHold, Turns
  <2> QED
    BY <2>1, <2>2, <2>3
<1>3. CASE Look(p)
  <2> PICK row : row = req[p].seen
    OBVIOUS
  <2> PICK new : new = {j \in Dated \cap Selects[row.filter] : posted[j] > row.cutoff}
    OBVIOUS
  <2> PICK mail : mail = [filter |-> row.filter, cutoff |-> row.cutoff, new |-> new,
                         looked |-> stored]
    OBVIOUS
  <2>1. /\ req[p].pc = "look" /\ failures' = failures
        /\ Notified(p) \/ (Goes(p, "send", mail) /\ pass' = pass)
    BY <1>3 DEF Look
  <2>2. CASE Notified(p)
    BY <1>t, <1>h, <2>1, <2>2, NotifiedLeaves, OneLeaves DEF TablesHold
  <2>3. CASE Goes(p, "send", mail) /\ pass' = pass
    <3>1. row \in RowRecord /\ WasRead(row)
      BY <2>1 DEF AlertsInv, Notifying, Informed
    <3>2. /\ stored \subseteq Jobs /\ new \subseteq Jobs
          /\ row.filter \in Filters /\ row.cutoff \in Nat
      BY <1>t, <3>1 DEF AlertTablesTyped, Dated, RowRecord
    <3>3. mail \in Mail
      BY <3>2 DEF Mail
    <3>4. /\ mail.filter = row.filter /\ mail.cutoff = row.cutoff
          /\ mail.new = {j \in mail.looked \cap Selects[mail.filter] :
                           posted[j] # None /\ posted[j] > mail.cutoff}
          /\ mail.looked = stored
      BY DEF Dated
    <3>5. WasRead(mail)
      BY <3>1, <3>4 DEF WasRead
    <3>6. Turns(p, "send", mail)
      BY <1>t, <2>3, <3>3, AlertGoes
    <3>7. WasRead(mail)'
      BY <1>t, <1>h, <3>3, <3>5, ReadStays DEF TablesHold
    <3>8. Informed(p)'
      <4>1. req'[p].pc = "send" /\ req'[p].seen = mail
        BY <3>6 DEF Turns
      <4> QED
        BY <1>r, <3>3, <3>4, <3>7, <4>1 DEF Informed
    <3> QED
      BY <1>t, <1>h, <2>1, <2>3, <3>6, <3>8, RowsStay, OneMoves DEF TablesHold, Turns
  <2> QED
    BY <2>1, <2>2, <2>3
<1>4. CASE TouchNothing(p)
  BY <1>t, <1>h, <1>4, StopsLeave, OneLeaves DEF TouchNothing, TablesHold
<1>5. CASE AlertCallFails(p)
  BY <1>t, <1>h, <1>5, BreaksLeave, OneLeaves DEF AlertCallFails, TablesHold
<1> QED
  BY <1>1, <1>2, <1>3, <1>4, <1>5

-----------------------------------------------------------------------------
(* Mails and touches. *)

\* What a mail does to the tables: a job that it counts has not been told of before, as far
\* as the filter does not repeat.
LEMMA MailHolds ==
  ASSUME AlertsInv, NEW p \in Requests, req[p].pc = "send", Mailed(p)
  PROVE  /\ TablesHold
         /\ \A j \in req[p].seen.new : told'[req[p].seen.filter][j] > 0
<1> DEFINE mail == req[p].seen
           f == mail.filter
<1>t. AlertTablesTyped /\ Past /\ Passed /\ AlertedJobWasTold /\ JobIsToldOnce
  BY DEF AlertsInv, AlertTypeOK, AlertsAreExact
<1>1. /\ mail \in Mail /\ WasRead(mail) /\ mail.looked \subseteq stored
      /\ mail.new = {j \in mail.looked \cap Selects[f] :
                       posted[j] # None /\ posted[j] > mail.cutoff}
  BY DEF AlertsInv, Notifying, Informed
<1>2. /\ f \in Filters /\ f \in made /\ mail.cutoff \in Nat /\ mail.new \subseteq Jobs
      /\ \A j \in mail.new : j \in Dated /\ posted[j] \in Nat /\ posted[j] > mail.cutoff
  BY <1>t, <1>1 DEF Mail, WasRead, Dated, AlertTablesTyped
<1> DEFINE next == [j \in Jobs |-> IF j \in mail.new /\ told[f][j] < 2 THEN told[f][j] + 1
                                   ELSE told[f][j]]
<1>3. /\ told' = [told EXCEPT ![f] = next]
      /\ repeats' = IF f \in untouched \/ filters[f] = None \/ Row(f).cutoff # mail.cutoff
                    THEN repeats \cup {f} ELSE repeats
      /\ untouched' = untouched \cup {f} /\ late' = late
      /\ UNCHANGED <<users, made, filters, stored, posted, now>>
  BY DEF Mailed, alertTables
<1> HIDE DEF mail
<1>4. /\ told \in [Filters -> [Jobs -> Nat]] /\ untouched \subseteq Filters
      /\ repeats \subseteq Filters
  BY <1>t DEF AlertTablesTyped
<1>5. told[f] \in [Jobs -> Nat] /\ next \in [Jobs -> Nat]
  BY <1>2, <1>4
<1>6. /\ told' \in [Filters -> [Jobs -> Nat]] /\ told'[f] = next
      /\ \A g \in Filters \ {f} : told'[g] = told[g]
  BY <1>2, <1>3, <1>4, <1>5
<1>7. \A j \in Jobs : /\ told'[f][j] \in Nat /\ told[f][j] \in Nat /\ told[f][j] <= told'[f][j]
                      /\ told'[f][j] # told[f][j] => j \in mail.new /\ told'[f][j] = told[f][j] + 1
                      /\ j \in mail.new => told'[f][j] > 0
  BY <1>5, <1>6
<1>8. \A g \in Filters, j \in Jobs : told[g][j] <= told'[g][j]
  BY <1>4, <1>6, <1>7
<1>9. AlertTablesTyped'
  BY <1>t, <1>2, <1>3, <1>6 DEF AlertTablesTyped
<1>10. Grows
  <2>1. ASSUME NEW g \in made, filters'[g] # None
        PROVE  filters[g] # None /\ Row(g).cutoff <= Row(g)'.cutoff
    <3>1. g \in Filters /\ filters[g] # None
      BY <1>t, <1>3, <2>1 DEF AlertTablesTyped
    <3>2. Row(g).cutoff \in Nat /\ Row(g)' = Row(g)
      BY <1>t, <1>3, <3>1, RowTyped DEF RowRecord, Row
    <3> QED
      BY <3>1, <3>2
  <2> QED
    BY <1>3, <1>8, <2>1 DEF Grows
<1>11. Past'
  BY <1>t, <1>3 DEF Past, Dated
<1>12. Passed'
  <2> SUFFICES ASSUME NEW g \in Filters, NEW j \in Jobs, told'[g][j] > 0
               PROVE  /\ g \in made /\ j \in Dated
                      /\ filters[g] # None /\ g \notin untouched \cup {f} =>
                           filters[g].alerted # None /\ posted[j] <= filters[g].alerted
    BY <1>3 DEF Passed, Dated
  <2>1. CASE g = f
    <3>1. j \in Dated
      <4>1. CASE told'[f][j] # told[f][j]
        BY <1>2, <1>7, <4>1
      <4>2. CASE told'[f][j] = told[f][j]
        BY <1>t, <1>2, <2>1, <4>2 DEF Passed
      <4> QED
        BY <4>1, <4>2
    <3> QED
      BY <1>2, <2>1, <3>1
  <2>2. CASE g # f
    BY <1>t, <1>6, <2>2 DEF Passed
  <2> QED
    BY <2>1, <2>2
<1>13. AlertedJobWasTold'
  <2>1. ASSUME NEW g \in Filters, NEW j \in Jobs, told[g][j] > 0 PROVE told'[g][j] > 0
    <3>1. told[g][j] \in Nat /\ told'[g][j] \in Nat /\ told[g][j] <= told'[g][j]
      BY <1>4, <1>6, <1>8
    <3> QED
      BY <2>1, <3>1
  <2>2. Dated \subseteq Jobs /\ Dated' = Dated
    BY <1>t, <1>3 DEF Dated, AlertTablesTyped
  <2> QED
    BY <1>t, <1>3, <2>1, <2>2 DEF AlertedJobWasTold
<1>14. JobIsToldOnce'
  <2> SUFFICES ASSUME NEW g \in Filters, NEW j \in Jobs, g \notin repeats'
               PROVE  told'[g][j] <= 1
    BY DEF JobIsToldOnce
  <2>1. g \notin repeats
    BY <1>3
  <2>2. told[g][j] <= 1 /\ told[g][j] \in Nat
    BY <1>t, <1>4, <2>1 DEF JobIsToldOnce
  <2>3. CASE told'[g][j] = told[g][j]
    BY <2>2, <2>3
  <2>4. CASE told'[g][j] # told[g][j]
    <3>1. g = f /\ j \in mail.new /\ told'[f][j] = told[f][j] + 1
      BY <1>6, <1>7, <2>4
    <3>2. f \notin untouched /\ filters[f] # None /\ Row(f).cutoff = mail.cutoff
      BY <1>3, <3>1
    <3>3. ~(told[f][j] > 0)
      <4> SUFFICES ASSUME told[f][j] > 0 PROVE FALSE
        OBVIOUS
      <4>1. filters[f].alerted # None /\ posted[j] <= filters[f].alerted
        BY <1>t, <1>2, <3>2 DEF Passed
      <4>2. filters[f].alerted = mail.cutoff
        BY <1>t, <1>2, <3>2, <4>1, RowTyped
      <4>3. posted[j] > mail.cutoff /\ posted[j] \in Nat
        BY <1>2, <3>1
      <4> QED
        BY <1>2, <4>1, <4>2, <4>3
    <3> QED
      BY <2>2, <3>1, <3>3
  <2> QED
    BY <2>3, <2>4
<1> QED
  BY <1>2, <1>7, <1>9, <1>10, <1>11, <1>12, <1>13, <1>14 DEF TablesHold, AlertsAreExact, mail

LEMMA SendStep ==
  ASSUME AlertsInv, NEW p \in Requests, Send(p)
  PROVE  AlertsInv'
<1> PICK mail : mail = req[p].seen
  OBVIOUS
<1>t. /\ req \in [Requests -> AlertRequest] /\ failures \in Nat /\ AlertTypeOK
      /\ pass \in [users : SUBSET Users, rows : SUBSET RowRecord] /\ AlertTablesTyped
  BY DEF AlertsInv, AlertTypeOK
<1>1. req[p].pc = "send" /\ Mailed(p)
  BY DEF Send
<1>2. TablesHold /\ \A j \in mail.new : told'[mail.filter][j] > 0
  BY <1>1, MailHolds
<1>3. CASE Goes(p, "touch", mail) /\ UNCHANGED <<failures, pass>>
  <2>1. /\ mail \in Mail /\ WasRead(mail) /\ mail.looked \subseteq stored
        /\ mail.new = {j \in mail.looked \cap Selects[mail.filter] :
                         posted[j] # None /\ posted[j] > mail.cutoff}
    BY <1>1 DEF AlertsInv, Notifying, Informed
  <2>2. UNCHANGED <<stored, posted>>
    BY <1>1 DEF Mailed, alertTables
  <2>3. Turns(p, "touch", mail)
    BY <1>t, <1>3, <2>1, AlertGoes
  <2>4. WasRead(mail)'
    BY <1>t, <1>2, <2>1, ReadStays DEF TablesHold
  <2>5. Informed(p)'
    <3>1. req'[p].pc = "touch" /\ req'[p].seen = mail
      BY <2>3 DEF Turns
    <3> QED
      BY <1>2, <2>1, <2>2, <2>4, <3>1 DEF Informed
  <2>6. AlertTypeOK' /\ Notifying'
    BY <1>t, <1>2, <1>3, <2>3, <2>5, RowsStay, OneMoves DEF TablesHold, Turns
  <2> QED
    BY <1>2, <2>6 DEF TablesHold, AlertsInv
<1>4. CASE Breaks(p)
  BY <1>t, <1>2, <1>4, BreaksLeave, OneLeaves DEF TablesHold, AlertsInv
<1> QED
  BY <1>3, <1>4 DEF Send

\* A touch moves the cutoff to now: what is dated before was seen by its look and told of,
\* or passed by an earlier touch, or came too late.
LEMMA TouchHolds ==
  ASSUME AlertsInv, NEW p \in Requests, Touch(p)
  PROVE  TablesHold
<1> PICK mail : mail = req[p].seen
  OBVIOUS
<1> DEFINE f == mail.filter
<1>t. AlertTablesTyped /\ Past /\ Passed /\ AlertedJobWasTold /\ JobIsToldOnce
  BY DEF AlertsInv, AlertTypeOK, AlertsAreExact
<1>1. /\ mail \in Mail /\ WasRead(mail) /\ mail.looked \subseteq stored
      /\ mail.new = {j \in mail.looked \cap Selects[f] :
                       posted[j] # None /\ posted[j] > mail.cutoff}
      /\ \A j \in mail.new : told[f][j] > 0
  BY DEF AlertsInv, Notifying, Informed, Touch
<1> DEFINE missed == {j \in Dated \ mail.looked : posted[j] <= now}
<1>2. /\ filters[f] # None
      /\ filters' = [filters EXCEPT ![f].alerted = now]
      /\ untouched' = untouched \ {f}
      /\ late' = [late EXCEPT ![f] = @ \cup missed]
      /\ UNCHANGED <<users, made, stored, posted, now, told, repeats>>
  BY DEF Touch
<1>3. /\ f \in Filters /\ f \in made /\ mail.cutoff \in Nat /\ mail.looked \subseteq Jobs
      /\ Row(f).cutoff \in Nat /\ mail.cutoff <= Row(f).cutoff /\ now \in Nat
  BY <1>t, <1>1, <1>2, RowTyped DEF Mail, WasRead, AlertTablesTyped, RowRecord
<1>4. filters[f] \in [created : Nat, alerted : Nat \cup {None}]
  BY <1>t, <1>2, <1>3 DEF AlertTablesTyped
<1> PICK touched : touched = [filters[f] EXCEPT !.alerted = now]
  OBVIOUS
<1>5. /\ touched \in [created : Nat, alerted : Nat \cup {None}]
      /\ touched.created = filters[f].created /\ touched.alerted = now /\ now # None
  BY <1>3, <1>4, AlertNames
<1>6. /\ filters' \in [Filters -> [created : Nat, alerted : Nat \cup {None}] \cup {None}]
      /\ filters'[f] = touched /\ \A g \in Filters \ {f} : filters'[g] = filters[g]
  <2>1. filters' = [filters EXCEPT ![f] = touched]
    BY <1>2
  <2> QED
    BY <1>t, <1>3, <1>5, <2>1 DEF AlertTablesTyped
<1>7. missed \subseteq Jobs /\ Dated' = Dated /\ Dated \subseteq Jobs
  BY <1>t, <1>2 DEF Dated, AlertTablesTyped
<1>8. /\ late' \in [Filters -> SUBSET Jobs] /\ late'[f] = late[f] \cup missed
      /\ \A g \in Filters \ {f} : late'[g] = late[g]
  BY <1>t, <1>2, <1>3, <1>7 DEF AlertTablesTyped
<1>9. AlertTablesTyped'
  BY <1>t, <1>2, <1>6, <1>8 DEF AlertTablesTyped
<1>10. Row(f).cutoff <= now
  BY <1>t, <1>2, <1>3, RowTyped DEF Past
<1>11. Grows
  <2>1. ASSUME NEW g \in made, filters'[g] # None
        PROVE  filters[g] # None /\ Row(g).cutoff <= Row(g)'.cutoff
    <3>0. g \in Filters
      BY <1>t, <2>1 DEF AlertTablesTyped
    <3>1. CASE g = f
      <4>1. Row(g)'.cutoff = now
        BY <1>5, <1>6, <3>1 DEF Row
      <4> QED
        BY <1>2, <1>10, <3>1, <4>1
    <3>2. CASE g # f
      <4>1. filters[g] # None /\ Row(g)' = Row(g)
        BY <1>6, <2>1, <3>0, <3>2 DEF Row
      <4>2. Row(g).cutoff \in Nat
        BY <1>t, <3>0, <4>1, RowTyped DEF RowRecord
      <4> QED
        BY <4>1, <4>2
    <3> QED
      BY <3>1, <3>2
  <2>2. \A g \in Filters, j \in Jobs : told[g][j] <= told'[g][j]
    BY <1>t, <1>2 DEF AlertTablesTyped
  <2> QED
    BY <1>2, <2>1, <2>2 DEF Grows
<1>12. Past'
  <2> SUFFICES ASSUME NEW g \in Filters, filters'[g] # None
               PROVE  /\ g \in made /\ filters'[g].created <= now
                      /\ filters'[g].alerted # None => filters'[g].alerted <= now
    BY <1>t, <1>2, <1>7 DEF Past
  <2>1. CASE g = f
    <3>1. f \in made /\ filters[f].created <= now
      BY <1>t, <1>2, <1>3 DEF Past
    <3> QED
      BY <1>3, <1>5, <1>6, <2>1, <3>1
  <2>2. CASE g # f
    BY <1>t, <1>6, <2>2 DEF Past
  <2> QED
    BY <2>1, <2>2
<1>13. Passed'
  <2> SUFFICES ASSUME NEW g \in Filters, NEW j \in Jobs, told[g][j] > 0
               PROVE  /\ g \in made /\ j \in Dated
                      /\ filters'[g] # None /\ g \notin untouched' =>
                           filters'[g].alerted # None /\ posted[j] <= filters'[g].alerted
    BY <1>2, <1>7 DEF Passed
  <2>1. CASE g = f
    <3>1. g \in made /\ j \in Dated /\ posted[j] <= now
      BY <1>t DEF Passed, Past
    <3> QED
      BY <1>5, <1>6, <2>1, <3>1
  <2>2. CASE g # f
    BY <1>t, <1>2, <1>6, <2>2 DEF Passed
  <2> QED
    BY <2>1, <2>2
<1>14. AlertedJobWasTold'
  <2> SUFFICES ASSUME NEW g \in Filters, filters'[g] # None, filters'[g].alerted # None,
                      NEW j \in Dated \cap Selects[g],
                      posted[j] > filters'[g].created, posted[j] <= filters'[g].alerted
               PROVE  told[g][j] > 0 \/ j \in late'[g]
    BY <1>2, <1>7 DEF AlertedJobWasTold
  <2>0. j \in Jobs /\ j \in stored /\ posted[j] \in Nat
    BY <1>t DEF Dated, AlertTablesTyped
  <2>1. CASE g = f
    <3>1. posted[j] > filters[f].created /\ posted[j] <= now
      BY <1>5, <1>6, <2>1
    <3>2. CASE j \notin mail.looked
      BY <1>8, <2>1, <3>1, <3>2
    <3>3. CASE j \in mail.looked /\ posted[j] > mail.cutoff
      <4>1. j \in mail.new
        BY <1>1, <2>0, <2>1, <3>3, AlertNames
      <4> QED
        BY <1>1, <2>1, <4>1
    <3>4. CASE ~(posted[j] > mail.cutoff)
      <4>1. posted[j] <= Row(f).cutoff
        BY <1>3, <2>0, <3>4
      <4>2. filters[f].alerted # None
        <5> SUFFICES ASSUME filters[f].alerted = None PROVE FALSE
          OBVIOUS
        <5>1. Row(f).cutoff = filters[f].created /\ filters[f].created \in Nat
          BY <1>t, <1>2, <1>3, RowTyped
        <5> QED
          BY <2>0, <3>1, <4>1, <5>1
      <4>3. posted[j] <= filters[f].alerted
        <5>1. Row(f).cutoff = filters[f].alerted
          BY <1>t, <1>2, <1>3, <4>2, RowTyped
        <5> QED
          BY <4>1, <5>1
      <4> QED
        BY <1>t, <1>2, <1>3, <1>8, <2>1, <3>1, <4>2, <4>3 DEF AlertedJobWasTold
    <3> QED
      BY <3>2, <3>3, <3>4
  <2>2. CASE g # f
    BY <1>t, <1>6, <1>8, <2>2 DEF AlertedJobWasTold
  <2> QED
    BY <2>1, <2>2
<1>15. JobIsToldOnce'
  BY <1>t, <1>2 DEF JobIsToldOnce
<1> QED
  BY <1>9, <1>11, <1>12, <1>13, <1>14, <1>15 DEF TablesHold, AlertsAreExact

LEMMA TouchStep ==
  ASSUME AlertsInv, NEW p \in Requests, Touch(p)
  PROVE  AlertsInv'
<1>t. AlertTypeOK /\ failures \in Nat
  BY DEF AlertsInv, AlertTypeOK
<1>1. TablesHold
  BY TouchHolds
<1>2. Leaves(p) /\ failures' \in Nat
  BY <1>t, NotifiedLeaves, BreaksLeave DEF Touch
<1> QED
  BY <1>1, <1>2, OneLeaves DEF TablesHold, AlertsInv

-----------------------------------------------------------------------------
(* What the rest of the system does to the tables. *)

\* Time goes on; a row is created or deleted, or stays as it was.
FiltersMove ==
  /\ now' \in Nat /\ now <= now'
  /\ users' \subseteq Users /\ made \subseteq made' /\ made' \subseteq Filters
  /\ filters' \in [Filters -> [created : Nat, alerted : Nat \cup {None}] \cup {None}]
  /\ \A g \in Filters :
       \/ filters'[g] = None \/ filters'[g] = filters[g]
       \/ /\ g \notin made /\ g \in made'
          /\ filters'[g] = [created |-> now, alerted |-> None]

LEMMA FilterSteps ==
  ASSUME AlertsInv,
         \/ Tick \/ \E f \in Filters : CreateFilter(f) \/ DeleteFilter(f)
         \/ \E u \in Users : EraseUser(u)
  PROVE  AlertsInv'
<1>t. AlertTablesTyped /\ Past /\ Passed /\ AlertedJobWasTold /\ JobIsToldOnce
  BY DEF AlertsInv, AlertTypeOK, AlertsAreExact
<1>u. UNCHANGED <<req, failures, pass, stored, posted, told, untouched, repeats, late>>
  BY DEF Tick, CreateFilter, DeleteFilter, EraseUser, Forget, requestVars, alertHistory, alertTables
<1>d. Dated' = Dated /\ Dated \subseteq Jobs
  BY <1>t, <1>u DEF Dated, AlertTablesTyped
<1>0. FiltersMove
  <2>0. /\ now \in Nat /\ made \subseteq Filters /\ users \subseteq Users
        /\ filters \in [Filters -> [created : Nat, alerted : Nat \cup {None}] \cup {None}]
    BY <1>t DEF AlertTablesTyped
  <2>1. CASE Tick
    BY <2>0, <2>1 DEF Tick, alertTables, FiltersMove
  <2>2. ASSUME NEW f \in Filters, CreateFilter(f)
        PROVE  FiltersMove
    <3>1. [created |-> now, alerted |-> None] \in [created : Nat, alerted : Nat \cup {None}]
      BY <2>0
    <3> QED
      BY <2>0, <2>2, <3>1 DEF CreateFilter, FiltersMove
  <2>3. ASSUME NEW F, Forget(F), now' = now, made' = made, users' \subseteq users
        PROVE  FiltersMove
    BY <2>0, <2>3 DEF Forget, FiltersMove
  <2>4. CASE \E f \in Filters : DeleteFilter(f)
    BY <2>0, <2>3, <2>4 DEF DeleteFilter
  <2>5. CASE \E u \in Users : EraseUser(u)
    BY <2>0, <2>3, <2>5 DEF EraseUser
  <2> QED
    BY <2>1, <2>2, <2>4, <2>5
<1>1. /\ now' \in Nat /\ now <= now'
      /\ users' \subseteq Users /\ made \subseteq made' /\ made' \subseteq Filters
      /\ filters' \in [Filters -> [created : Nat, alerted : Nat \cup {None}] \cup {None}]
      /\ \A g \in Filters :
           \/ filters'[g] = None \/ filters'[g] = filters[g]
           \/ /\ g \notin made /\ g \in made'
              /\ filters'[g] = [created |-> now, alerted |-> None]
  BY <1>0 DEF FiltersMove
<1>2. AlertTablesTyped'
  BY <1>t, <1>u, <1>1 DEF AlertTablesTyped
<1>3. Grows
  <2>1. ASSUME NEW g \in made, filters'[g] # None
        PROVE  filters[g] # None /\ Row(g).cutoff <= Row(g)'.cutoff
    <3>1. g \in Filters /\ filters'[g] = filters[g]
      BY <1>t, <1>1, <2>1 DEF AlertTablesTyped
    <3>2. filters[g] # None /\ Row(g)' = Row(g)
      BY <2>1, <3>1 DEF Row
    <3>3. Row(g).cutoff \in Nat
      BY <1>t, <3>1, <3>2, RowTyped DEF RowRecord
    <3> QED
      BY <3>2, <3>3
  <2>2. \A g \in Filters, j \in Jobs : told[g][j] <= told'[g][j]
    BY <1>t, <1>u DEF AlertTablesTyped
  <2> QED
    BY <1>u, <1>1, <2>1, <2>2 DEF Grows
<1>4. Past'
  <2>1. now \in Nat /\ \A j \in Dated : posted[j] \in Nat
    BY <1>t DEF AlertTablesTyped, Dated
  <2>2. ASSUME NEW g \in Filters, filters'[g] # None
        PROVE  /\ g \in made' /\ filters'[g].created <= now'
               /\ filters'[g].alerted # None => filters'[g].alerted <= now'
    <3>1. CASE filters'[g] = filters[g]
      <4>1. g \in made /\ filters[g].created <= now /\ filters[g].created \in Nat
        BY <1>t, <2>2, <3>1, RowTyped DEF Past
      <4>2. filters[g].alerted # None => filters[g].alerted <= now /\ filters[g].alerted \in Nat
        BY <1>t, <2>2, <3>1, RowTyped DEF Past
      <4> QED
        BY <1>1, <2>1, <3>1, <4>1, <4>2
    <3>2. CASE g \in made' /\ filters'[g] = [created |-> now, alerted |-> None]
      BY <1>1, <3>2
    <3> QED
      BY <1>1, <2>2, <3>1, <3>2
  <2>3. \A j \in Dated : posted[j] <= now'
    BY <1>t, <1>1, <2>1 DEF Past
  <2> QED
    BY <1>u, <1>d, <2>2, <2>3 DEF Past
<1>5. Passed'
  <2> SUFFICES ASSUME NEW g \in Filters, NEW j \in Jobs, told[g][j] > 0
               PROVE  /\ g \in made' /\ j \in Dated
                      /\ filters'[g] # None /\ g \notin untouched =>
                           filters'[g].alerted # None /\ posted[j] <= filters'[g].alerted
    BY <1>u, <1>d DEF Passed
  <2>1. /\ g \in made /\ j \in Dated
        /\ filters[g] # None /\ g \notin untouched =>
             filters[g].alerted # None /\ posted[j] <= filters[g].alerted
    BY <1>t DEF Passed
  <2> QED
    BY <1>1, <2>1
<1>6. AlertedJobWasTold'
  <2> SUFFICES ASSUME NEW g \in Filters, filters'[g] # None, filters'[g].alerted # None,
                      NEW j \in Dated \cap Selects[g],
                      posted[j] > filters'[g].created, posted[j] <= filters'[g].alerted
               PROVE  told[g][j] > 0 \/ j \in late[g]
    BY <1>u, <1>d DEF AlertedJobWasTold
  <2>1. filters'[g] = filters[g]
    BY <1>1
  <2> QED
    BY <1>t, <2>1 DEF AlertedJobWasTold
<1>7. JobIsToldOnce'
  BY <1>t, <1>u DEF JobIsToldOnce
<1>8. AlertTypeOK' /\ Notifying'
  BY <1>u, <1>2, <1>3, NoneMoves
<1> QED
  BY <1>4, <1>5, <1>6, <1>7, <1>8 DEF AlertsInv, AlertsAreExact

\* A job that is stored late counts as such for the filters whose cutoff it does not pass.
LEMMA StoreStep ==
  ASSUME AlertsInv, NEW i \in Jobs, NEW date \in 0 .. now \cup {None}, StoreJob(i, date)
  PROVE  AlertsInv'
<1>t. AlertTablesTyped /\ Past /\ Passed /\ AlertedJobWasTold /\ JobIsToldOnce
  BY DEF AlertsInv, AlertTypeOK, AlertsAreExact
<1> DEFINE Late(g) == date # None /\ filters[g] # None /\ Row(g).cutoff >= date
<1>1. /\ i \notin stored /\ stored' = stored \cup {i} /\ posted' = [posted EXCEPT ![i] = date]
      /\ late' = [g \in Filters |-> IF Late(g) THEN late[g] \cup {i} ELSE late[g]]
      /\ UNCHANGED <<req, failures, users, made, filters, now, pass, told, untouched, repeats>>
  BY DEF StoreJob, requestVars
<1>2. /\ now \in Nat /\ date \in Nat \cup {None} /\ (date # None => date <= now)
      /\ stored \subseteq Jobs /\ posted \in [Jobs -> Nat \cup {None}]
      /\ late \in [Filters -> SUBSET Jobs]
  BY <1>t DEF AlertTablesTyped
<1>3. /\ posted' \in [Jobs -> Nat \cup {None}] /\ posted'[i] = date
      /\ \A j \in Jobs \ {i} : posted'[j] = posted[j]
  BY <1>1, <1>2
<1>4. /\ late' \in [Filters -> SUBSET Jobs] /\ \A g \in Filters : late[g] \subseteq late'[g]
      /\ \A g \in Filters : Late(g) => i \in late'[g]
  <2> HIDE DEF Late
  <2> QED
    BY <1>1, <1>2
<1>5. AlertTablesTyped'
  BY <1>t, <1>1, <1>2, <1>3, <1>4 DEF AlertTablesTyped
<1>6. /\ \A j \in Dated : j \in Dated' /\ posted'[j] = posted[j]
      /\ \A j \in Dated' : j \in Dated \/ (j = i /\ date # None)
  BY <1>1, <1>2, <1>3 DEF Dated
<1>7. Grows
  <2>1. \A j \in stored : posted'[j] = posted[j]
    BY <1>1, <1>2, <1>3
  <2>2. \A g \in Filters, j \in Jobs : told[g][j] <= told'[g][j]
    BY <1>t, <1>1 DEF AlertTablesTyped
  <2>3. ASSUME NEW g \in made, filters'[g] # None
        PROVE  filters[g] # None /\ Row(g).cutoff <= Row(g)'.cutoff
    <3>1. g \in Filters /\ filters[g] # None /\ Row(g)' = Row(g)
      BY <1>t, <1>1, <2>3 DEF AlertTablesTyped, Row
    <3>2. Row(g).cutoff \in Nat
      BY <1>t, <3>1, RowTyped DEF RowRecord
    <3> QED
      BY <3>1, <3>2
  <2> QED
    BY <1>1, <2>1, <2>2, <2>3 DEF Grows
<1>8. Past'
  BY <1>t, <1>1, <1>2, <1>3, <1>6 DEF Past
<1>9. Passed'
  BY <1>t, <1>1, <1>6 DEF Passed
<1>10. AlertedJobWasTold'
  <2> SUFFICES ASSUME NEW g \in Filters, filters[g] # None, filters[g].alerted # None,
                      NEW j \in Dated' \cap Selects[g],
                      posted'[j] > filters[g].created, posted'[j] <= filters[g].alerted
               PROVE  told[g][j] > 0 \/ j \in late'[g]
    BY <1>1 DEF AlertedJobWasTold
  <2>1. CASE j \in Dated
    BY <1>t, <1>4, <1>6, <2>1 DEF AlertedJobWasTold
  <2>2. CASE j = i /\ date # None
    <3>1. Row(g).cutoff = filters[g].alerted /\ filters[g].alerted \in Nat
      BY <1>t, RowTyped
    <3>2. date \in Nat /\ date <= filters[g].alerted
      BY <1>2, <1>3, <2>2
    <3> QED
      BY <1>4, <2>2, <3>1, <3>2
  <2> QED
    BY <1>6, <2>1, <2>2
<1>11. JobIsToldOnce'
  BY <1>t, <1>1 DEF JobIsToldOnce
<1>12. AlertTypeOK' /\ Notifying'
  BY <1>1, <1>5, <1>7, NoneMoves
<1> QED
  BY <1>8, <1>9, <1>10, <1>11, <1>12 DEF AlertsInv, AlertsAreExact

-----------------------------------------------------------------------------
(* The theorems *)

LEMMA AlertsStart == AlertsInit => AlertsInv
<1> SUFFICES ASSUME AlertsInit PROVE AlertsInv
  OBVIOUS
<1>1. /\ req = [r \in Requests |-> Idle] /\ failures = 0
      /\ users = Users /\ made = {} /\ filters = [f \in Filters |-> None]
      /\ stored = {} /\ posted = [j \in Jobs |-> None] /\ now = 0
      /\ pass = [users |-> {}, rows |-> {}]
      /\ told = [f \in Filters |-> [j \in Jobs |-> 0]]
      /\ untouched = {} /\ repeats = {} /\ late = [f \in Filters |-> {}]
  BY DEF AlertsInit, AlertTablesInit, NoPass
<1>2. req \in [Requests -> AlertRequest]
  BY <1>1, NoneRuns DEF AlertRequest
<1>3. AlertTablesTyped
  BY <1>1 DEF AlertTablesTyped
<1>4. AlertTypeOK
  BY <1>1, <1>2, <1>3 DEF AlertTypeOK
<1>5. \A p \in Requests : req[p].pc = "idle"
  BY <1>1 DEF Idle
<1>6. Notifying
  BY <1>1, <1>5 DEF Notifying, Informed
<1>7. \A f \in Filters, j \in Jobs : told[f][j] = 0 /\ filters[f] = None
  BY <1>1
<1>8. Past /\ Passed /\ AlertsAreExact
  BY <1>1, <1>7 DEF Past, Passed, Dated, AlertsAreExact, AlertedJobWasTold, JobIsToldOnce
<1> QED
  BY <1>4, <1>6, <1>8 DEF AlertsInv

LEMMA AlertsStep == AlertsInv /\ [AlertsNext]_alertVars => AlertsInv'
<1> SUFFICES ASSUME AlertsInv, [AlertsNext]_alertVars PROVE AlertsInv'
  OBVIOUS
<1>1. CASE PassStep
  BY <1>1, AlertReads DEF PassStep
<1>2. ASSUME NEW p \in Requests,
             \/ GetFilter(p) \/ NotifyStep(p) \/ AlertCallFails(p)
             \/ \E f \in Filters : AskNotify(p, f)
      PROVE  AlertsInv'
  BY <1>2, NotifyReads, SendStep, TouchStep DEF NotifyStep
<1>3. CASE \/ Tick \/ \E f \in Filters : CreateFilter(f) \/ DeleteFilter(f)
           \/ \E u \in Users : EraseUser(u)
  BY <1>3, FilterSteps
<1>4. CASE \E j \in Jobs, date \in 0 .. now \cup {None} : StoreJob(j, date)
  BY <1>4, StoreStep
<1>5. CASE UNCHANGED alertVars
  <2>1. UNCHANGED <<alertTables, alertHistory>> /\ UNCHANGED <<req, failures, pass>>
    BY <1>5 DEF alertVars, requestVars
  <2> QED
    BY <2>1, TablesRest, NoneMoves DEF TablesHold, AlertsInv
<1> QED
  BY <1>1, <1>2, <1>3, <1>4, <1>5 DEF AlertsNext

\* The invariant holds in every reachable state, whatever the pass, notifications and
\* erasures do to each other.
THEOREM AlertsInvHolds == AlertsSpec => []AlertsInv
  BY AlertsStart, AlertsStep, PTL DEF AlertsSpec

\* A filter that was touched has told of each of its jobs, once, as far as no job came too
\* late for the look and no mail went without its touch (notifyFilter, TouchFilterAlerted).
THEOREM AlertsTellOnce == AlertsSpec => []AlertsAreExact
<1>1. AlertsInv => AlertsAreExact
  BY DEF AlertsInv
<1> QED
  BY AlertsInvHolds, <1>1, PTL

\* Requests, filters, jobs and the pass have their types.
THEOREM AlertsAreTyped == AlertsSpec => []AlertTypeOK
<1>1. AlertsInv => AlertTypeOK
  BY DEF AlertsInv
<1> QED
  BY AlertsInvHolds, <1>1, PTL

-----------------------------------------------------------------------------
(* Accounts and sessions.                                                    *)

\* The calls of a handler that works on a row it has found or created, and those before.
RowCalls == {"consent", "token", "mail", "verified", "session", "forgive", "reset_token",
             "rollback"}
OtherCalls == {"gate", "peer", "attempt", "login", "google", "lookup", "create", "verify",
               "logout", "me", "feed", "user", "forgot", "reset"}
Ops == {"register", "google", "login", "verify", "reset", "logout", "me", "feed", "forgot"}
Refusals == {"unavailable", "too_many", "consent", "taken", "invalid", "anonymous",
             "unauthenticated", "forbidden"}
CredentialRequest ==
  RequestRecords(Ops, BOOLEAN \cup Ids, RowCalls \cup OtherCalls, UserRows, Refusals)

CredentialTablesTyped ==
  /\ account \in UserRows \cup {None} /\ tokens \subseteq Ids /\ resets \subseteq Ids
  /\ sessions \subseteq [id : Ids, password : Ids \cup {NoPassword}]
  /\ unrolled \subseteq Requests /\ overtaken \subseteq Requests
CredentialTypeOK ==
  /\ req \in [Requests -> CredentialRequest] /\ failures \in Nat
  /\ CredentialTablesTyped

\* The request of this name has created its row, or never will.
AfterCreate == {"consent", "token", "mail", "verified", "session", "forgive", "rollback", "done"}
Made(id) == id = Earlier \/ (id \in Requests /\ req[id].pc \in AfterCreate)

\* What goes with the row.
RowWhole ==
  /\ account = None => tokens = {} /\ resets = {} /\ sessions = {}
  /\ tokens # {} => account.consent
  /\ account # None /\ account.verified => account.consent
  /\ SessionsAreCurrent

\* What a request knows at each of its calls: its row is there until its own rollback.
Acquainted(r) ==
  /\ req[r].pc # "idle" => req[r].op \in Ops
  /\ req[r].op = "register" =>
       req[r].pc \in {"idle", "gate", "peer", "create", "consent", "token", "mail",
                      "rollback", "done"}
  /\ req[r].op = "login" =>
       /\ req[r].pc \in {"idle", "peer", "attempt", "login", "session", "forgive", "done"}
       /\ req[r].pc \in RowCalls => Found(r).id # r
  /\ req[r].pc \in {"token", "mail"} => req[r].op = "register"
  /\ req[r].pc \in OtherCalls \cup {"idle"} => Found(r) = None
  /\ req[r].pc \in RowCalls => Found(r) \in UserRows /\ Made(Found(r).id)
  /\ req[r].pc \in RowCalls /\ Found(r).id = r => Here(r)
  /\ req[r].pc \in RowCalls /\ req[r].op = "register" => Found(r).id = r
  /\ req[r].pc = "rollback" => Found(r).id = r
  /\ req[r].pc # "done" => req[r].answer = None

\* The row of a request that has created one.
Owning(r) ==
  Here(r) => Made(r) /\ (req[r].pc = "done" \/ (req[r].pc \in RowCalls /\ Found(r).id = r))

\* What that account holds by then.
Advanced(r) ==
  /\ req[r].pc \in {"token", "mail"} => account.consent
  /\ req[r].pc = "mail" => account.verified \/ r \in tokens
  /\ req[r].pc = "verified" /\ Here(Found(r).id) => account.consent
  /\ req[r].pc = "session" /\ req[r].op = "login" /\ Here(Found(r).id) =>
       Found(r).password = account.password \/ r \in overtaken

\* What the answer of a registration says of its account.
Answered(r) ==
  /\ req[r].op = "register" /\ req[r].answer = "ok" =>
       Here(r) /\ account.consent /\ (account.verified \/ r \in tokens)
  /\ req[r].op = "register" /\ req[r].answer = "error" => ~Here(r) \/ r \in unrolled

Knowing(r) == Acquainted(r) /\ Owning(r) /\ Advanced(r) /\ Answered(r)
CredentialInv == CredentialTypeOK /\ RowWhole /\ \A r \in Requests : Knowing(r)

-----------------------------------------------------------------------------
(* What a step makes of a slot. *)

LEMMA CredentialGoes ==
  ASSUME req \in [Requests -> CredentialRequest], NEW r \in Requests,
         NEW next \in RowCalls \cup OtherCalls, NEW seen \in UserRows \cup {None},
         Goes(r, next, seen)
  PROVE  Moves(r, next, seen, req[r].answer) /\ req' \in [Requests -> CredentialRequest]
  BY GoesOn DEF CredentialRequest

LEMMA CredentialAnswers ==
  ASSUME req \in [Requests -> CredentialRequest], NEW r \in Requests,
         NEW answer \in Refusals \cup {"ok", "error"}, Answers(r, answer)
  PROVE  Moves(r, "done", Found(r), answer) /\ req' \in [Requests -> CredentialRequest]
  BY IsAnswered DEF CredentialRequest, Found

-----------------------------------------------------------------------------
(* Steps that neither create nor delete the row. *)

\* The row stays, with what it has been granted; a password that changes is noticed by the
\* logins that have checked it.
RowKept ==
  /\ (account = None) = (account' = None)
  /\ account # None =>
       /\ account'.id = account.id
       /\ account.consent => account'.consent
       /\ account.verified => account'.verified
       /\ \/ account'.password = account.password
          \/ \A q \in Requests : req[q].op = "login" /\ req[q].pc = "session" => q \in overtaken'
  /\ \A q \in tokens : q \in tokens' \/ account'.verified
  /\ overtaken \subseteq overtaken' /\ unrolled \subseteq unrolled'

LEMMA HereStays ==
  ASSUME RowKept, NEW id
  PROVE  Here(id)' = Here(id)
  BY DEF RowKept, Here

LEMMA KeptAsItIs ==
  ASSUME UNCHANGED <<account, tokens>>, overtaken \subseteq overtaken', unrolled \subseteq unrolled'
  PROVE  RowKept
  BY DEF RowKept

\* The other requests know what they knew.
LEMMA OthersKnow ==
  ASSUME CredentialInv, RowKept, NEW q \in Requests, req'[q] = req[q],
         \A id : Made(id) => Made(id)'
  PROVE  Knowing(q)'
<1>1. Knowing(q) /\ \A id : Here(id)' = Here(id)
  BY HereStays DEF CredentialInv
<1>2. Found(q)' = Found(q)
  BY DEF Found
<1>3. Acquainted(q)'
  BY <1>1, <1>2 DEF Knowing, Acquainted
<1>4. Owning(q)'
  BY <1>1, <1>2 DEF Knowing, Owning
<1>5. Answered(q)'
  <2>1. ASSUME req[q].op = "register", req[q].answer = "ok"
        PROVE  Here(q) /\ account'.consent /\ (account'.verified \/ q \in tokens')
    <3>1. Here(q) /\ account.consent /\ (account.verified \/ q \in tokens)
      BY <1>1, <2>1 DEF Knowing, Answered
    <3> QED
      BY <3>1 DEF RowKept, Here
  <2>2. ASSUME req[q].op = "register", req[q].answer = "error"
        PROVE  ~Here(q) \/ q \in unrolled'
    BY <1>1, <2>2 DEF Knowing, Answered, RowKept
  <2> QED
    BY <1>1, <2>1, <2>2 DEF Answered
<1>6. Advanced(q)'
  <2>1. ASSUME req[q].pc \in {"token", "mail"}
        PROVE  account'.consent
    <3>1. Here(q) /\ account.consent
      BY <1>1, <2>1 DEF Knowing, Acquainted, Advanced, RowCalls
    <3> QED
      BY <3>1 DEF RowKept, Here
  <2>2. ASSUME req[q].pc = "mail"
        PROVE  account'.verified \/ q \in tokens'
    <3>1. Here(q) /\ (account.verified \/ q \in tokens)
      BY <1>1, <2>2 DEF Knowing, Acquainted, Advanced, RowCalls
    <3> QED
      BY <3>1 DEF RowKept, Here
  <2>3. ASSUME req[q].pc = "verified", Here(Found(q).id)
        PROVE  account'.consent
    <3>1. account.consent /\ account # None
      BY <1>1, <2>3 DEF Knowing, Advanced, Here
    <3> QED
      BY <3>1 DEF RowKept
  <2>4. ASSUME req[q].pc = "session", req[q].op = "login", Here(Found(q).id)
        PROVE  Found(q).password = account'.password \/ q \in overtaken'
    <3>1. account # None /\ (Found(q).password = account.password \/ q \in overtaken)
      BY <1>1, <2>4 DEF Knowing, Advanced, Here
    <3> QED
      BY <2>4, <3>1 DEF RowKept
  <2> QED
    BY <1>1, <1>2, <2>1, <2>2, <2>3, <2>4 DEF Advanced
<1> QED
  BY <1>3, <1>4, <1>5, <1>6 DEF Knowing

\* One request moves, knowing what it needs.
LEMMA OneKnows ==
  ASSUME CredentialInv, CredentialTablesTyped', RowKept, RowWhole', failures' \in Nat,
         NEW r \in Requests, req' \in [Requests -> CredentialRequest],
         \A q \in Requests \ {r} : req'[q] = req[q],
         Made(r) => Made(r)', Knowing(r)'
  PROVE  CredentialInv'
<1>1. \A id : Made(id) => Made(id)'
  BY DEF Made
<1>2. \A q \in Requests : Knowing(q)'
  BY <1>1, OthersKnow
<1> QED
  BY <1>2 DEF CredentialInv, CredentialTypeOK

LEMMA WholeAsItWas ==
  ASSUME CredentialInv, UNCHANGED <<account, tokens, resets, sessions>>,
         overtaken \subseteq overtaken'
  PROVE  RowWhole'
  BY DEF CredentialInv, RowWhole, SessionsAreCurrent

\* A request that has not found a row goes on without one.
LEMMA GoesWithout ==
  ASSUME CredentialInv, RowKept, NEW r \in Requests, req[r].pc \in OtherCalls,
         NEW next \in OtherCalls, Moves(r, next, None, req[r].answer),
         req[r].op = "register" => next \in {"gate", "peer", "create"},
         req[r].op = "login" => next \in {"attempt", "login"}
  PROVE  Knowing(r)' /\ (Made(r) => Made(r)')
<1>1. Knowing(r) /\ Here(r)' = Here(r) /\ Found(r)' = None /\ r # Earlier
  BY HereStays, CredentialsAssumption DEF CredentialInv, Moves, Found
<1>2. ~Made(r) /\ ~Here(r)
  BY <1>1 DEF Knowing, Owning, Made, OtherCalls, AfterCreate
<1>3. req'[r].op = req[r].op /\ req'[r].pc = next /\ req'[r].answer = None
  BY <1>1 DEF Moves, Knowing, Acquainted, OtherCalls
<1>4. Acquainted(r)'
  BY <1>1, <1>3 DEF Knowing, Acquainted, OtherCalls, RowCalls
<1>5. Owning(r)' /\ Advanced(r)' /\ Answered(r)'
  BY <1>1, <1>2, <1>3, RequestsAssumption DEF Owning, Advanced, Answered, OtherCalls
<1> QED
  BY <1>2, <1>4, <1>5 DEF Knowing

\* Whose row it is, when there is one.
LEMMA RowMade ==
  ASSUME CredentialInv, account # None
  PROVE  account \in UserRows /\ Made(account.id)
<1>1. account \in UserRows /\ account.id \in Ids
  BY DEF CredentialInv, CredentialTypeOK, CredentialTablesTyped, UserRows
<1>2. ASSUME account.id \in Requests PROVE Made(account.id)
  BY <1>2 DEF CredentialInv, Knowing, Owning, Here
<1> QED
  BY <1>1, <1>2 DEF Ids, Made

\* A request finds the row of the address.
LEMMA FindsRow ==
  ASSUME CredentialInv, UNCHANGED <<account, tokens, overtaken, unrolled>>,
         NEW r \in Requests, req[r].pc \in OtherCalls, account # None,
         NEW next \in {"consent", "verified", "session", "reset_token"},
         Moves(r, next, account, req[r].answer),
         req[r].op # "register", req[r].op = "login" => next = "session",
         next = "verified" => account.consent
  PROVE  Knowing(r)' /\ (Made(r) => Made(r)')
<1>1. Knowing(r) /\ Here(r)' = Here(r) /\ Found(r)' = account /\ r # Earlier
  BY CredentialsAssumption DEF CredentialInv, Moves, Found, Here
<1>2. ~Made(r) /\ ~Here(r) /\ account.id # r
  BY <1>1 DEF Knowing, Owning, Made, OtherCalls, AfterCreate, Here
<1>3. req'[r].op = req[r].op /\ req'[r].pc = next /\ req'[r].answer = None
  BY <1>1 DEF Moves, Knowing, Acquainted, OtherCalls
<1>4. account \in UserRows /\ Made(account.id) /\ Made(account.id)'
  <2>1. account \in UserRows /\ Made(account.id)
    BY RowMade
  <2> QED
    BY <1>2, <2>1 DEF Made, Moves
<1>5. Acquainted(r)'
  BY <1>1, <1>2, <1>3, <1>4 DEF Knowing, Acquainted, OtherCalls, RowCalls
<1>6. Owning(r)' /\ Answered(r)'
  BY <1>1, <1>2, <1>3, RequestsAssumption DEF Owning, Answered
<1>7. Advanced(r)'
  BY <1>1, <1>3 DEF Advanced
<1> QED
  BY <1>2, <1>5, <1>6, <1>7 DEF Knowing

\* A request goes on with its row.
LEMMA GoesWithRow ==
  ASSUME CredentialInv, RowKept, NEW r \in Requests, req[r].pc \in RowCalls,
         NEW next \in RowCalls \ {"reset_token"}, Moves(r, next, Found(r), req[r].answer),
         req[r].op = "register" => next \in {"consent", "token", "mail", "rollback"},
         next \in {"token", "mail"} => req[r].op = "register" /\ account'.consent,
         next = "rollback" => Found(r).id = r,
         next = "mail" => account'.verified \/ r \in tokens',
         next = "verified" /\ Here(Found(r).id) => account'.consent,
         req[r].op = "login" => next = "forgive"
  PROVE  Knowing(r)' /\ (Made(r) => Made(r)')
<1>1. /\ Knowing(r) /\ Here(r)' = Here(r) /\ Found(r)' = Found(r) /\ r # Earlier
      /\ Here(Found(r).id)' = Here(Found(r).id)
  BY HereStays, CredentialsAssumption DEF CredentialInv, Moves, Found
<1>2. req'[r].op = req[r].op /\ req'[r].pc = next /\ req'[r].answer = None
  BY <1>1 DEF Moves, Knowing, Acquainted, RowCalls
<1>3. Made(r)'
  BY <1>2 DEF Made, RowCalls, AfterCreate
<1>4. Found(r) \in UserRows /\ Made(Found(r).id) /\ Made(Found(r).id)'
  <2>1. Found(r) \in UserRows /\ Made(Found(r).id)
    BY <1>1 DEF Knowing, Acquainted
  <2>2. ASSUME NEW id, Made(id) PROVE Made(id)'
    BY <1>3, <2>2 DEF Made, Moves
  <2> QED
    BY <1>1, <2>1, <2>2
<1>5. Acquainted(r)'
  BY <1>1, <1>2, <1>4 DEF Knowing, Acquainted, OtherCalls, RowCalls
<1>6. Owning(r)' /\ Answered(r)'
  BY <1>1, <1>2, <1>3, RequestsAssumption DEF Knowing, Owning, Answered, RowCalls
<1>7. Advanced(r)'
  BY <1>1, <1>2 DEF Advanced
<1> QED
  BY <1>3, <1>5, <1>6, <1>7 DEF Knowing

\* A request is answered.
LEMMA IsDone ==
  ASSUME CredentialInv, RowKept, NEW r \in Requests, Running(r), NEW answer,
         Moves(r, "done", Found(r), answer),
         req[r].op = "register" /\ answer = "ok" =>
           Here(r) /\ account'.consent /\ (account'.verified \/ r \in tokens'),
         req[r].op = "register" /\ answer = "error" => ~Here(r) \/ r \in unrolled'
  PROVE  Knowing(r)' /\ (Made(r) => Made(r)')
<1>1. Knowing(r) /\ Here(r)' = Here(r)
  BY HereStays DEF CredentialInv
<1>2. req'[r].op = req[r].op /\ req'[r].pc = "done" /\ req'[r].answer = answer
  BY DEF Moves
<1>3. Made(r)'
  BY <1>2 DEF Made, AfterCreate
<1>4. Acquainted(r)' /\ Owning(r)' /\ Advanced(r)'
  BY <1>1, <1>2, <1>3 DEF Knowing, Acquainted, Owning, Advanced, Running,
     OtherCalls, RowCalls
<1>5. Answered(r)'
  BY <1>1, <1>2 DEF Answered
<1> QED
  BY <1>3, <1>4, <1>5 DEF Knowing

\* A request whose call fails: a new user is deleted before the request is answered.
LEMMA FailureKnows ==
  ASSUME CredentialInv, RowKept, NEW r \in Requests, Running(r), req[r].pc # "rollback",
         AfterFailure(r)
  PROVE  /\ req' \in [Requests -> CredentialRequest] /\ \A q \in Requests \ {r} : req'[q] = req[q]
         /\ Knowing(r)' /\ (Made(r) => Made(r)')
<1>t. req \in [Requests -> CredentialRequest] /\ Knowing(r)
  BY DEF CredentialInv, CredentialTypeOK
<1>p. req[r].pc \in RowCalls \cup OtherCalls
  BY <1>t DEF CredentialRequest, RequestRecords, Running
<1>1. CASE Found(r) # None /\ Found(r).id = r /\ req[r].pc # "session"
  <2>1. Goes(r, "rollback", Found(r))
    BY <1>1 DEF AfterFailure
  <2>2. req[r].pc \in RowCalls /\ Found(r) \in UserRows
    BY <1>t, <1>p, <1>1 DEF Knowing, Acquainted
  <2>3. /\ Moves(r, "rollback", Found(r), req[r].answer)
        /\ req' \in [Requests -> CredentialRequest]
    BY <1>t, <2>1, <2>2, CredentialGoes DEF RowCalls
  <2>4. Knowing(r)' /\ (Made(r) => Made(r)')
    <3>1. req[r].op # "login"
      BY <1>t, <1>1, <2>2 DEF Knowing, Acquainted
    <3> QED
      BY <1>1, <2>2, <2>3, <3>1, GoesWithRow DEF RowCalls
  <2> QED
    BY <2>3, <2>4 DEF Moves
<1>2. CASE ~(Found(r) # None /\ Found(r).id = r /\ req[r].pc # "session")
  <2> PICK answer : answer = FailureAnswer(r)
    OBVIOUS
  <2>1. Answers(r, answer)
    BY <1>2 DEF AfterFailure
  <2>2. /\ answer \in {"ok", "anonymous", "invalid", "error"}
        /\ req[r].op = "register" => answer # "ok"
    BY DEF FailureAnswer
  <2>3. Moves(r, "done", Found(r), answer) /\ req' \in [Requests -> CredentialRequest]
    BY <1>t, <2>1, <2>2, CredentialAnswers DEF Refusals
  <2>4. req[r].op = "register" => ~Here(r)
    <3>1. ASSUME req[r].op = "register", Here(r) PROVE FALSE
      <4>1. req[r].pc \in RowCalls /\ Found(r).id = r /\ Found(r) \in UserRows
        BY <1>t, <3>1 DEF Running, Knowing, Owning, Acquainted
      <4>2. req[r].pc # "session" /\ Found(r) # None
        BY <1>t, <3>1, <4>1, UserRowsAssumption DEF Knowing, Acquainted
      <4> QED
        BY <1>2, <4>1, <4>2
    <3> QED
      BY <3>1
  <2>5. Knowing(r)' /\ (Made(r) => Made(r)')
    BY <2>2, <2>3, <2>4, IsDone
  <2> QED
    BY <2>3, <2>5 DEF Moves
<1> QED
  BY <1>1, <1>2

-----------------------------------------------------------------------------
(* The steps that leave the row and what goes with it alone. *)

LEMMA AloneHolds ==
  ASSUME CredentialInv, UNCHANGED <<credentialTables, overtaken>>, unrolled \subseteq unrolled',
         unrolled' \subseteq Requests
  PROVE  CredentialTablesTyped' /\ RowKept /\ RowWhole'
<1>1. UNCHANGED <<account, tokens, resets, sessions, overtaken>>
  BY DEF credentialTables
<1>2. CredentialTablesTyped'
  BY <1>1 DEF CredentialInv, CredentialTypeOK, CredentialTablesTyped
<1> QED
  BY <1>1, <1>2, KeptAsItIs, WholeAsItWas

\* A call fails, a statement finds its row gone, or the rollback fails.
LEMMA FailingSteps ==
  ASSUME CredentialInv, NEW r \in Requests,
         \/ CredentialCallFails(r) \/ DeleteNewUserFails(r)
         \/ Misses(r) /\ req[r].pc \in RowCalls \ {"rollback"}
  PROVE  CredentialInv'
<1>t. /\ req \in [Requests -> CredentialRequest] /\ failures \in Nat /\ unrolled \subseteq Requests
      /\ Knowing(r)
  BY DEF CredentialInv, CredentialTypeOK, CredentialTablesTyped
<1>1. CASE CredentialCallFails(r)
  <2>1. /\ Running(r) /\ req[r].pc # "rollback" /\ AfterFailure(r) /\ failures' = failures + 1
        /\ UNCHANGED <<credentialTables, overtaken, unrolled>>
    BY <1>1 DEF CredentialCallFails, BreaksOff, credentialHistory
  <2>2. CredentialTablesTyped' /\ RowKept /\ RowWhole'
    BY <1>t, <2>1, AloneHolds
  <2> QED
    BY <1>t, <2>1, <2>2, FailureKnows, OneKnows
<1>2. CASE Misses(r) /\ req[r].pc \in RowCalls \ {"rollback"}
  <2>1. /\ Running(r) /\ req[r].pc # "rollback" /\ AfterFailure(r) /\ failures' = failures
        /\ UNCHANGED <<credentialTables, overtaken, unrolled>>
    BY <1>2 DEF Misses, Running, RowCalls, credentialHistory
  <2>2. CredentialTablesTyped' /\ RowKept /\ RowWhole'
    BY <1>t, <2>1, AloneHolds
  <2> QED
    BY <1>t, <2>1, <2>2, FailureKnows, OneKnows
<1>3. CASE DeleteNewUserFails(r)
  <2>1. /\ req[r].pc = "rollback" /\ Answers(r, "error") /\ failures' = failures + 1
        /\ unrolled' = unrolled \cup {r}
        /\ UNCHANGED <<credentialTables, overtaken>>
    BY <1>3 DEF DeleteNewUserFails, Fails
  <2>2. CredentialTablesTyped' /\ RowKept /\ RowWhole'
    BY <1>t, <2>1, AloneHolds
  <2>3. Moves(r, "done", Found(r), "error") /\ req' \in [Requests -> CredentialRequest]
    BY <1>t, <2>1, CredentialAnswers
  <2>4. Knowing(r)' /\ (Made(r) => Made(r)')
    BY <2>1, <2>2, <2>3, IsDone DEF Running
  <2> QED
    BY <1>t, <2>1, <2>2, <2>3, <2>4, OneKnows DEF Moves
<1> QED
  BY <1>1, <1>2, <1>3

\* An answer that says nothing of a registration, and what the handlers do before they know
\* a row.
LEMMA PlainSteps ==
  ASSUME CredentialInv, NEW r \in Requests, Running(r), req[r].pc # "rollback",
         UNCHANGED <<failures, credentialTables, credentialHistory>>,
         \/ \E answer \in Refusals \cup {"ok"} :
              Answers(r, answer) /\ (req[r].op = "register" => answer # "ok")
         \/ /\ req[r].pc \in OtherCalls
            /\ \E next \in OtherCalls :
                 /\ Goes(r, next, None)
                 /\ req[r].op = "register" => next \in {"gate", "peer", "create"}
                 /\ req[r].op = "login" => next \in {"attempt", "login"}
         \/ /\ req[r].pc \in OtherCalls /\ account # None /\ req[r].op # "register"
            /\ \E next \in {"consent", "verified", "session", "reset_token"} :
                 /\ Goes(r, next, account)
                 /\ req[r].op = "login" => next = "session"
                 /\ next = "verified" => account.consent
  PROVE  CredentialInv'
<1>t. /\ req \in [Requests -> CredentialRequest] /\ failures \in Nat /\ unrolled \subseteq Requests
      /\ failures' = failures /\ UNCHANGED <<account, tokens, overtaken, unrolled>>
  BY DEF CredentialInv, CredentialTypeOK, CredentialTablesTyped, credentialTables, credentialHistory
<1>h. CredentialTablesTyped' /\ RowKept /\ RowWhole'
  BY <1>t, AloneHolds
<1>1. SUFFICES /\ req' \in [Requests -> CredentialRequest]
               /\ \A q \in Requests \ {r} : req'[q] = req[q]
               /\ Knowing(r)' /\ (Made(r) => Made(r)')
  BY <1>t, <1>h, OneKnows
<1>2. ASSUME NEW answer \in Refusals \cup {"ok"}, Answers(r, answer),
             req[r].op = "register" => answer # "ok"
      PROVE  /\ req' \in [Requests -> CredentialRequest]
             /\ \A q \in Requests \ {r} : req'[q] = req[q]
             /\ Knowing(r)' /\ (Made(r) => Made(r)')
  <2>1. Moves(r, "done", Found(r), answer) /\ req' \in [Requests -> CredentialRequest]
    BY <1>t, <1>2, CredentialAnswers
  <2>2. answer # "error"
    BY DEF Refusals
  <2>3. Knowing(r)' /\ (Made(r) => Made(r)')
    BY <1>h, <1>2, <2>1, <2>2, IsDone
  <2> QED
    BY <2>1, <2>3 DEF Moves
<1>3. ASSUME req[r].pc \in OtherCalls, NEW next \in OtherCalls, Goes(r, next, None),
             req[r].op = "register" => next \in {"gate", "peer", "create"},
             req[r].op = "login" => next \in {"attempt", "login"}
      PROVE  /\ req' \in [Requests -> CredentialRequest]
             /\ \A q \in Requests \ {r} : req'[q] = req[q]
             /\ Knowing(r)' /\ (Made(r) => Made(r)')
  <2>1. Moves(r, next, None, req[r].answer) /\ req' \in [Requests -> CredentialRequest]
    BY <1>t, <1>3, CredentialGoes
  <2>2. Knowing(r)' /\ (Made(r) => Made(r)')
    BY <1>h, <1>3, <2>1, GoesWithout
  <2> QED
    BY <2>1, <2>2 DEF Moves
<1>4. ASSUME req[r].pc \in OtherCalls, account # None, req[r].op # "register",
             NEW next \in {"consent", "verified", "session", "reset_token"},
             Goes(r, next, account), next = "verified" => account.consent,
             req[r].op = "login" => next = "session"
      PROVE  /\ req' \in [Requests -> CredentialRequest]
             /\ \A q \in Requests \ {r} : req'[q] = req[q]
             /\ Knowing(r)' /\ (Made(r) => Made(r)')
  <2>1. account \in UserRows /\ next \in RowCalls
    BY <1>4, RowMade DEF RowCalls
  <2>2. Moves(r, next, account, req[r].answer) /\ req' \in [Requests -> CredentialRequest]
    BY <1>t, <1>4, <2>1, CredentialGoes
  <2>3. Knowing(r)' /\ (Made(r) => Made(r)')
    BY <1>t, <1>4, <2>2, FindsRow
  <2> QED
    BY <2>2, <2>3 DEF Moves
<1> QED
  BY <1>2, <1>3, <1>4

LEMMA FindingSteps ==
  ASSUME CredentialInv, NEW r \in Requests,
         \/ PassGate(r) \/ AllowPeer(r) \/ AllowLogin(r) \/ CheckPassword(r) \/ Exchange(r)
         \/ FindGoogleUser(r) \/ ResetLogins(r) \/ FindSession(r) \/ FindUser(r)
         \/ FindForReset(r)
  PROVE  CredentialInv'
<1>k. /\ req[r].pc # "idle" => req[r].op \in Ops
      /\ req[r].op = "register" =>
           req[r].pc \in {"idle", "gate", "peer", "create", "consent", "token", "mail",
                          "rollback", "done"}
      /\ req[r].op = "login" =>
           req[r].pc \in {"idle", "peer", "attempt", "login", "session", "forgive", "done"}
  BY DEF CredentialInv, Knowing, Acquainted
<1>1. CASE PassGate(r)
  <2>1. /\ req[r].pc = "gate" /\ UNCHANGED <<failures, credentialTables, credentialHistory>>
        /\ Goes(r, "peer", None) \/ Answers(r, "unavailable")
    BY <1>1 DEF PassGate
  <2>2. req[r].pc \in OtherCalls /\ Running(r) /\ req[r].op # "login"
    BY <1>k, <2>1 DEF OtherCalls, Running
  <2>3. "peer" \in OtherCalls /\ "unavailable" \in Refusals
    BY DEF OtherCalls, Refusals
  <2> QED
    BY <2>1, <2>2, <2>3, PlainSteps
<1>2. CASE AllowPeer(r)
  <2>1. /\ req[r].pc = "peer" /\ UNCHANGED <<failures, credentialTables, credentialHistory>>
        /\ \/ Answers(r, "too_many") \/ Answers(r, "consent")
           \/ Goes(r, AfterPeer(req[r].op), None)
    BY <1>2 DEF AllowPeer
  <2>2. req[r].pc \in OtherCalls /\ Running(r) /\ req[r].pc # "rollback"
    BY <2>1 DEF OtherCalls, Running
  <2>3. "too_many" \in Refusals /\ "consent" \in Refusals
    BY DEF Refusals
  <2>4. /\ AfterPeer(req[r].op) \in OtherCalls
        /\ req[r].op = "register" => AfterPeer(req[r].op) = "create"
        /\ req[r].op = "login" => AfterPeer(req[r].op) = "attempt"
    BY <1>k, <2>1 DEF AfterPeer, OtherCalls, Ops
  <2>5. CASE Answers(r, "too_many") \/ Answers(r, "consent")
    BY <2>1, <2>2, <2>3, <2>5, PlainSteps
  <2>6. CASE Goes(r, AfterPeer(req[r].op), None)
    BY <2>1, <2>2, <2>4, <2>6, PlainSteps
  <2> QED
    BY <2>1, <2>5, <2>6
<1>3. CASE AllowLogin(r)
  <2>1. /\ req[r].pc = "attempt" /\ UNCHANGED <<failures, credentialTables, credentialHistory>>
        /\ Goes(r, "login", None) \/ Answers(r, "too_many")
    BY <1>3 DEF AllowLogin
  <2>2. req[r].pc \in OtherCalls /\ Running(r) /\ req[r].op # "register"
    BY <1>k, <2>1 DEF OtherCalls, Running
  <2>3. "login" \in OtherCalls /\ "too_many" \in Refusals
    BY DEF OtherCalls, Refusals
  <2> QED
    BY <2>1, <2>2, <2>3, PlainSteps
<1>4. CASE CheckPassword(r)
  <2>1. /\ req[r].pc = "login" /\ UNCHANGED <<failures, credentialTables, credentialHistory>>
        /\ (account # None /\ Goes(r, "session", account)) \/ Answers(r, "invalid")
    BY <1>4 DEF CheckPassword
  <2>2. req[r].pc \in OtherCalls /\ Running(r) /\ req[r].op # "register"
    BY <1>k, <2>1 DEF OtherCalls, Running
  <2>3. "invalid" \in Refusals
    BY DEF Refusals
  <2> QED
    BY <2>1, <2>2, <2>3, PlainSteps
<1>5. CASE Exchange(r)
  <2>1. /\ req[r].pc = "google" /\ UNCHANGED <<failures, credentialTables, credentialHistory>>
        /\ Goes(r, "lookup", None) \/ Answers(r, "invalid")
    BY <1>5 DEF Exchange
  <2>2. req[r].pc \in OtherCalls /\ Running(r) /\ req[r].op \notin {"register", "login"}
    BY <1>k, <2>1 DEF OtherCalls, Running
  <2>3. "lookup" \in OtherCalls /\ "invalid" \in Refusals
    BY DEF OtherCalls, Refusals
  <2> QED
    BY <2>1, <2>2, <2>3, PlainSteps
<1>6. CASE FindGoogleUser(r)
  <2>1. /\ req[r].pc = "lookup" /\ UNCHANGED <<failures, credentialTables, credentialHistory>>
        /\ \/ Answers(r, "consent") \/ Goes(r, "create", None)
           \/ account # None /\ Goes(r, "consent", account)
           \/ account # None /\ account.consent /\ Goes(r, "session", account)
           \/ account # None /\ account.consent /\ Goes(r, "verified", account)
    BY <1>6 DEF FindGoogleUser
  <2>2. req[r].pc \in OtherCalls /\ Running(r) /\ req[r].op \notin {"register", "login"}
    BY <1>k, <2>1 DEF OtherCalls, Running
  <2>3. "create" \in OtherCalls /\ "consent" \in Refusals
    BY DEF OtherCalls, Refusals
  <2>4. CASE Answers(r, "consent") \/ Goes(r, "create", None)
    BY <2>1, <2>2, <2>3, <2>4, PlainSteps
  <2>5. CASE /\ account # None
             /\ \E next \in {"consent", "verified", "session", "reset_token"} :
                  Goes(r, next, account) /\ (next = "verified" => account.consent)
    BY <2>1, <2>2, <2>5, PlainSteps
  <2> QED
    BY <2>1, <2>4, <2>5
<1>7. CASE ResetLogins(r)
  <2>1. /\ req[r].pc = "forgive" /\ Answers(r, "ok")
        /\ UNCHANGED <<failures, credentialTables, credentialHistory>>
    BY <1>7 DEF ResetLogins
  <2>2. Running(r) /\ req[r].op # "register"
    BY <1>k, <2>1 DEF Running
  <2> QED
    BY <2>1, <2>2, PlainSteps
<1>8. CASE FindSession(r)
  <2>1. /\ req[r].pc \in {"me", "feed"}
        /\ UNCHANGED <<failures, credentialTables, credentialHistory>>
        /\ Goes(r, "user", None) \/ Answers(r, "anonymous") \/ Answers(r, "unauthenticated")
    BY <1>8 DEF FindSession, Refuse
  <2>2. req[r].pc \in OtherCalls /\ Running(r) /\ req[r].op \notin {"register", "login"}
    BY <1>k, <2>1 DEF OtherCalls, Running
  <2>3. "user" \in OtherCalls /\ "anonymous" \in Refusals /\ "unauthenticated" \in Refusals
    BY DEF OtherCalls, Refusals
  <2> QED
    BY <2>1, <2>2, <2>3, PlainSteps
<1>9. CASE FindUser(r)
  <2>1. /\ req[r].pc = "user" /\ UNCHANGED <<failures, credentialTables, credentialHistory>>
        /\ \E answer \in {"anonymous", "unauthenticated", "forbidden", "ok"} : Answers(r, answer)
    BY <1>9 DEF FindUser, Refuse
  <2>2. req[r].pc # "rollback" /\ Running(r) /\ req[r].op # "register"
    BY <1>k, <2>1 DEF Running
  <2>3. {"anonymous", "unauthenticated", "forbidden", "ok"} \subseteq Refusals \cup {"ok"}
    BY DEF Refusals
  <2> QED
    BY <2>1, <2>2, <2>3, PlainSteps
<1>10. CASE FindForReset(r)
  <2>1. /\ req[r].pc = "forgot" /\ UNCHANGED <<failures, credentialTables, credentialHistory>>
        /\ (account # None /\ Goes(r, "reset_token", account)) \/ Answers(r, "ok")
    BY <1>10 DEF FindForReset
  <2>2. req[r].pc \in OtherCalls /\ Running(r) /\ req[r].op \notin {"register", "login"}
    BY <1>k, <2>1 DEF OtherCalls, Running
  <2> QED
    BY <2>1, <2>2, PlainSteps
<1> QED
  BY <1>1, <1>2, <1>3, <1>4, <1>5, <1>6, <1>7, <1>8, <1>9, <1>10

LEMMA AskStep ==
  ASSUME CredentialInv, NEW r \in Requests, NEW op \in Ops,
         NEW key \in BOOLEAN \cup Ids \cup {None}, Ask(r, op, key)
  PROVE  CredentialInv'
<1>t. /\ req \in [Requests -> CredentialRequest] /\ failures \in Nat /\ unrolled \subseteq Requests
      /\ Knowing(r)
  BY DEF CredentialInv, CredentialTypeOK, CredentialTablesTyped
<1> PICK first : first = FirstStep(op)
  OBVIOUS
<1>1. /\ first \in OtherCalls
      /\ op = "register" => first = "gate"
      /\ op = "login" => first = "peer"
  BY DEF FirstStep, OtherCalls, Ops
<1>2. /\ req[r].pc = "idle" /\ failures' = failures
      /\ req' = [req EXCEPT ![r] = [op |-> op, key |-> key, pc |-> first, seen |-> None,
                                    answer |-> None]]
      /\ UNCHANGED <<credentialTables, overtaken, unrolled>>
  BY DEF Ask, Begin, credentialHistory
<1>3. [op |-> op, key |-> key, pc |-> first, seen |-> None, answer |-> None] \in CredentialRequest
  BY <1>1 DEF CredentialRequest, RequestRecords
<1>4. /\ req' \in [Requests -> CredentialRequest] /\ \A q \in Requests \ {r} : req'[q] = req[q]
      /\ req'[r] = [op |-> op, key |-> key, pc |-> first, seen |-> None, answer |-> None]
  BY <1>t, <1>2, <1>3
<1>5. CredentialTablesTyped' /\ RowKept /\ RowWhole'
  BY <1>t, <1>2, AloneHolds
<1>6. ~Made(r) /\ ~Here(r) /\ Here(r)' = Here(r)
  BY <1>t, <1>2, <1>5, HereStays, CredentialsAssumption
     DEF Knowing, Owning, Made, AfterCreate
<1>7. Found(r)' = None /\ req'[r].pc = first /\ req'[r].op = op /\ req'[r].answer = None
  BY <1>4 DEF Found
<1>8. Acquainted(r)'
  BY <1>1, <1>7 DEF Acquainted, OtherCalls, RowCalls
<1>9. Owning(r)' /\ Advanced(r)' /\ Answered(r)'
  BY <1>1, <1>6, <1>7, RequestsAssumption DEF Owning, Advanced, Answered, OtherCalls
<1> QED
  BY <1>t, <1>2, <1>4, <1>5, <1>6, <1>8, <1>9, OneKnows DEF Knowing

-----------------------------------------------------------------------------
(* The statements that write. *)

\* A handler has written and goes on with its row, or fails behind its statement.
LEMMA ContinuesKnows ==
  ASSUME CredentialInv, RowKept, NEW r \in Requests, req[r].pc \in RowCalls \ {"rollback"},
         NEW next \in RowCalls \ {"reset_token", "rollback"}, Continues(r, next),
         req[r].op = "register" => next \in {"consent", "token", "mail"},
         next \in {"token", "mail"} => req[r].op = "register" /\ account'.consent,
         next = "mail" => account'.verified \/ r \in tokens',
         next = "verified" /\ Here(Found(r).id) => account'.consent,
         req[r].op = "login" => next = "forgive"
  PROVE  /\ failures' \in Nat /\ req' \in [Requests -> CredentialRequest]
         /\ \A q \in Requests \ {r} : req'[q] = req[q]
         /\ Knowing(r)' /\ (Made(r) => Made(r)')
<1>t. req \in [Requests -> CredentialRequest] /\ Knowing(r) /\ failures \in Nat
  BY DEF CredentialInv, CredentialTypeOK
<1>1. CASE BreaksOff(r)
  <2>1. failures' = failures + 1 /\ AfterFailure(r) /\ Running(r) /\ req[r].pc # "rollback"
    BY <1>1 DEF BreaksOff, Running, RowCalls
  <2> QED
    BY <1>t, <2>1, FailureKnows
<1>2. CASE Goes(r, next, Found(r)) /\ failures' = failures
  <2>1. Found(r) \in UserRows
    BY <1>t DEF Knowing, Acquainted
  <2>2. Moves(r, next, Found(r), req[r].answer) /\ req' \in [Requests -> CredentialRequest]
    BY <1>t, <1>2, <2>1, CredentialGoes
  <2>3. next # "rollback"
    OBVIOUS
  <2>4. Knowing(r)' /\ (Made(r) => Made(r)')
    BY <2>2, <2>3, GoesWithRow
  <2> QED
    BY <1>t, <1>2, <2>2, <2>4 DEF Moves
<1>3. next # "ok"
  BY DEF RowCalls
<1> QED
  BY <1>1, <1>2, <1>3 DEF Continues

LEMMA EndsKnows ==
  ASSUME CredentialInv, RowKept, NEW r \in Requests, Running(r), req[r].pc # "rollback",
         req[r].op # "register", Continues(r, "ok")
  PROVE  /\ failures' \in Nat /\ req' \in [Requests -> CredentialRequest]
         /\ \A q \in Requests \ {r} : req'[q] = req[q]
         /\ Knowing(r)' /\ (Made(r) => Made(r)')
<1>t. req \in [Requests -> CredentialRequest] /\ Knowing(r) /\ failures \in Nat
  BY DEF CredentialInv, CredentialTypeOK
<1>1. CASE BreaksOff(r)
  <2>1. failures' = failures + 1 /\ AfterFailure(r)
    BY <1>1 DEF BreaksOff
  <2> QED
    BY <1>t, <2>1, FailureKnows
<1>2. CASE Answers(r, "ok") /\ failures' = failures
  <2>1. Moves(r, "done", Found(r), "ok") /\ req' \in [Requests -> CredentialRequest]
    BY <1>t, <1>2, CredentialAnswers
  <2>2. Knowing(r)' /\ (Made(r) => Made(r)')
    BY <2>1, IsDone
  <2> QED
    BY <1>t, <1>2, <2>1, <2>2 DEF Moves
<1> QED
  BY <1>1, <1>2 DEF Continues

\* The row has been granted its consent or its verification.
LEMMA RowGranted ==
  ASSUME CredentialInv, account # None, overtaken' = overtaken, unrolled' = unrolled,
         UNCHANGED <<resets, sessions>>, tokens' \subseteq tokens, account' \in UserRows,
         account'.id = account.id, account'.password = account.password,
         account'.consent, account.verified => account'.verified,
         tokens' = tokens \/ account'.verified
  PROVE  CredentialTablesTyped' /\ RowKept /\ RowWhole'
<1>1. account' # None
  BY UserRowsAssumption
<1>2. CredentialTablesTyped'
  BY DEF CredentialInv, CredentialTypeOK, CredentialTablesTyped
<1>3. RowKept
  BY <1>1 DEF RowKept
<1>4. RowWhole'
  BY <1>1 DEF CredentialInv, RowWhole, SessionsAreCurrent
<1> QED
  BY <1>2, <1>3, <1>4

LEMMA GrantingSteps ==
  ASSUME CredentialInv, NEW r \in Requests, SetConsent(r) \/ SetVerified(r) \/ VerifyUser(r)
  PROVE  CredentialInv'
<1>t. /\ req \in [Requests -> CredentialRequest] /\ failures \in Nat /\ Knowing(r)
      /\ account \in UserRows \cup {None}
  BY DEF CredentialInv, CredentialTypeOK, CredentialTablesTyped
<1>1. CASE SetConsent(r)
  <2>1. req[r].pc = "consent" /\ req[r].pc \in RowCalls \ {"rollback"}
    BY <1>1 DEF SetConsent, RowCalls
  <2>2. CASE Misses(r)
    BY <2>1, <2>2, FailingSteps
  <2>3. CASE /\ Here(Found(r).id) /\ account' = [account EXCEPT !.consent = TRUE]
             /\ Continues(r, AfterConsent(r))
             /\ UNCHANGED <<tokens, resets, sessions, limiters, credentialHistory>>
    <3>1. account # None /\ account \in UserRows /\ UNCHANGED <<overtaken, unrolled>>
      BY <1>t, <2>3 DEF Here, credentialHistory
    <3>2. /\ account' \in UserRows /\ account'.consent /\ account'.id = account.id
          /\ account'.password = account.password /\ account'.verified = account.verified
      BY <2>3, <3>1 DEF UserRows
    <3>3. CredentialTablesTyped' /\ RowKept /\ RowWhole'
      BY <2>3, <3>1, <3>2, RowGranted
    <3> PICK next : next = AfterConsent(r)
      OBVIOUS
    <3>4. /\ next \in {"token", "session", "verified"}
          /\ next = "token" <=> req[r].op = "register"
          /\ req[r].op # "login"
      BY <1>t, <2>1 DEF AfterConsent, Knowing, Acquainted
    <3>5. next \in RowCalls \ {"reset_token", "rollback"}
      BY <3>4 DEF RowCalls
    <3>6. /\ failures' \in Nat /\ req' \in [Requests -> CredentialRequest]
          /\ \A q \in Requests \ {r} : req'[q] = req[q]
          /\ Knowing(r)' /\ (Made(r) => Made(r)')
      BY <2>1, <2>3, <3>2, <3>3, <3>4, <3>5, ContinuesKnows
    <3> QED
      BY <3>3, <3>6, OneKnows
  <2> QED
    BY <1>1, <2>2, <2>3 DEF SetConsent
<1>2. CASE SetVerified(r)
  <2>1. req[r].pc = "verified" /\ req[r].pc \in RowCalls \ {"rollback"}
    BY <1>2 DEF SetVerified, RowCalls
  <2>2. CASE Misses(r)
    BY <2>1, <2>2, FailingSteps
  <2>3. CASE /\ Here(Found(r).id) /\ account' = [account EXCEPT !.verified = TRUE]
             /\ Continues(r, "session")
             /\ UNCHANGED <<tokens, resets, sessions, limiters, credentialHistory>>
    <3>1. account # None /\ account \in UserRows /\ UNCHANGED <<overtaken, unrolled>>
      BY <1>t, <2>3 DEF Here, credentialHistory
    <3>2. /\ account' \in UserRows /\ account'.verified /\ account'.id = account.id
          /\ account'.password = account.password /\ account'.consent = account.consent
      BY <2>3, <3>1 DEF UserRows
    <3>3. account.consent /\ req[r].op \notin {"register", "login"}
      BY <1>t, <2>1, <2>3 DEF Knowing, Acquainted, Advanced
    <3>4. CredentialTablesTyped' /\ RowKept /\ RowWhole'
      BY <2>3, <3>1, <3>2, <3>3, RowGranted
    <3>5. "session" \in RowCalls \ {"reset_token", "rollback"}
      BY DEF RowCalls
    <3>6. /\ failures' \in Nat /\ req' \in [Requests -> CredentialRequest]
          /\ \A q \in Requests \ {r} : req'[q] = req[q]
          /\ Knowing(r)' /\ (Made(r) => Made(r)')
      BY <2>1, <2>3, <3>3, <3>4, <3>5, ContinuesKnows
    <3> QED
      BY <3>4, <3>6, OneKnows
  <2> QED
    BY <1>2, <2>2, <2>3 DEF SetVerified
<1>3. CASE VerifyUser(r)
  <2>1. req[r].pc = "verify" /\ Running(r) /\ req[r].pc # "rollback" /\ req[r].op # "register"
    BY <1>t, <1>3 DEF VerifyUser, Running, Knowing, Acquainted
  <2>2. CASE /\ Answers(r, "invalid")
             /\ UNCHANGED <<failures, credentialTables, credentialHistory>>
    BY <2>1, <2>2, PlainSteps DEF Refusals
  <2>3. CASE /\ req[r].key \in tokens /\ tokens' = tokens \ {req[r].key}
             /\ account' = [account EXCEPT !.verified = TRUE]
             /\ Continues(r, "ok") /\ UNCHANGED <<resets, sessions, overtaken, unrolled>>
    <3>1. account # None /\ account \in UserRows /\ account.consent
      BY <1>t, <2>3 DEF CredentialInv, RowWhole
    <3>2. /\ account' \in UserRows /\ account'.verified /\ account'.id = account.id
          /\ account'.password = account.password /\ account'.consent = account.consent
      BY <2>3, <3>1 DEF UserRows
    <3>3. CredentialTablesTyped' /\ RowKept /\ RowWhole'
      BY <2>3, <3>1, <3>2, RowGranted
    <3>4. /\ failures' \in Nat /\ req' \in [Requests -> CredentialRequest]
          /\ \A q \in Requests \ {r} : req'[q] = req[q]
          /\ Knowing(r)' /\ (Made(r) => Made(r)')
      BY <2>1, <2>3, <3>3, EndsKnows
    <3> QED
      BY <3>3, <3>4, OneKnows
  <2> QED
    BY <1>3, <2>2, <2>3 DEF VerifyUser, credentialTables, credentialHistory
<1> QED
  BY <1>1, <1>2, <1>3

LEMMA TokenSteps ==
  ASSUME CredentialInv, NEW r \in Requests, CreateVerification(r) \/ SendToken(r)
  PROVE  CredentialInv'
<1>t. /\ req \in [Requests -> CredentialRequest] /\ failures \in Nat /\ Knowing(r)
      /\ unrolled \subseteq Requests /\ CredentialTablesTyped /\ RowWhole
  BY DEF CredentialInv, CredentialTypeOK, CredentialTablesTyped
<1>1. CASE CreateVerification(r)
  <2>1. /\ req[r].pc = "token" /\ req[r].pc \in RowCalls \ {"rollback"}
        /\ tokens' = tokens \cup {r} /\ Continues(r, "mail")
        /\ UNCHANGED <<account, resets, sessions, overtaken, unrolled>>
    BY <1>1 DEF CreateVerification, RowCalls, credentialHistory
  <2>2. req[r].op = "register" /\ Here(r) /\ account.consent
    BY <1>t, <2>1 DEF Knowing, Acquainted, Advanced
  <2>3. CredentialTablesTyped' /\ RowKept
    BY <1>t, <2>1 DEF CredentialTablesTyped, RowKept, Ids
  <2>4. RowWhole'
    BY <1>t, <2>1, <2>2 DEF RowWhole, SessionsAreCurrent, Here
  <2>5. "mail" \in RowCalls \ {"reset_token", "rollback"} /\ r \in tokens' /\ account'.consent
    BY <2>1, <2>2 DEF RowCalls
  <2>6. /\ failures' \in Nat /\ req' \in [Requests -> CredentialRequest]
        /\ \A q \in Requests \ {r} : req'[q] = req[q]
        /\ Knowing(r)' /\ (Made(r) => Made(r)')
    BY <2>1, <2>2, <2>3, <2>5, ContinuesKnows
  <2> QED
    BY <2>3, <2>4, <2>6, OneKnows
<1>2. CASE SendToken(r)
  <2>1. /\ req[r].pc = "mail" /\ Answers(r, "ok") /\ Running(r) /\ failures' = failures
        /\ UNCHANGED <<credentialTables, overtaken, unrolled>>
    BY <1>2 DEF SendToken, Running, credentialHistory
  <2>2. Here(r) /\ account.consent /\ (account.verified \/ r \in tokens)
    BY <1>t, <2>1 DEF Knowing, Acquainted, Advanced, RowCalls
  <2>3. CredentialTablesTyped' /\ RowKept /\ RowWhole'
    BY <1>t, <2>1, AloneHolds
  <2>4. Moves(r, "done", Found(r), "ok") /\ req' \in [Requests -> CredentialRequest]
    BY <1>t, <2>1, CredentialAnswers
  <2>5. account'.consent /\ (account'.verified \/ r \in tokens')
    BY <2>1, <2>2 DEF credentialTables
  <2>6. Knowing(r)' /\ (Made(r) => Made(r)')
    BY <2>1, <2>2, <2>3, <2>4, <2>5, IsDone
  <2> QED
    BY <1>t, <2>1, <2>3, <2>4, <2>6, OneKnows DEF Moves
<1> QED
  BY <1>1, <1>2

LEMMA SessionSteps ==
  ASSUME CredentialInv, NEW r \in Requests, CreateSession(r) \/ DeleteSession(r)
  PROVE  CredentialInv'
<1>t. /\ req \in [Requests -> CredentialRequest] /\ Knowing(r)
      /\ CredentialTablesTyped /\ RowWhole
  BY DEF CredentialInv, CredentialTypeOK
<1>1. CASE CreateSession(r)
  <2>1. /\ req[r].pc = "session" /\ req[r].pc \in RowCalls \ {"rollback"} /\ Running(r)
        /\ req[r].op # "register" /\ Found(r) \in UserRows
    BY <1>t, <1>1 DEF CreateSession, RowCalls, Running, Knowing, Acquainted
  <2>2. CASE Misses(r)
    BY <2>1, <2>2, FailingSteps
  <2>3. CASE /\ Here(Found(r).id)
             /\ sessions' = sessions \cup {[id |-> r, password |->
                  IF req[r].op = "login" THEN Found(r).password ELSE account.password]}
             /\ Continues(r, IF req[r].op = "login" THEN "forgive" ELSE "ok")
             /\ UNCHANGED <<account, tokens, resets, overtaken, unrolled>>
    <3> PICK password :
          password = IF req[r].op = "login" THEN Found(r).password ELSE account.password
      OBVIOUS
    <3>1. sessions' = sessions \cup {[id |-> r, password |-> password]}
      BY <2>3
    <3>2. account # None /\ account \in UserRows /\ password \in Ids \cup {NoPassword}
      BY <1>t, <2>1, <2>3 DEF Here, CredentialTablesTyped, UserRows
    <3>3. password = account.password \/ r \in overtaken
      BY <1>t, <2>1, <2>3 DEF Knowing, Advanced
    <3>4. CredentialTablesTyped' /\ RowKept
      <4>1. [id |-> r, password |-> password] \in [id : Ids, password : Ids \cup {NoPassword}]
        BY <3>2 DEF Ids
      <4> QED
        BY <1>t, <2>3, <3>1, <4>1 DEF CredentialTablesTyped, RowKept
    <3>5. RowWhole'
      <4>1. SessionsAreCurrent'
        BY <1>t, <2>3, <3>1, <3>2, <3>3 DEF RowWhole, SessionsAreCurrent
      <4> QED
        BY <1>t, <2>3, <3>2, <4>1 DEF RowWhole
    <3>6. "forgive" \in RowCalls \ {"reset_token", "rollback"}
      BY DEF RowCalls
    <3>7. /\ failures' \in Nat /\ req' \in [Requests -> CredentialRequest]
          /\ \A q \in Requests \ {r} : req'[q] = req[q]
          /\ Knowing(r)' /\ (Made(r) => Made(r)')
      <4>1. CASE req[r].op = "login"
        BY <2>1, <2>3, <3>4, <3>6, <4>1, ContinuesKnows
      <4>2. CASE req[r].op # "login"
        BY <2>1, <2>3, <3>4, <4>2, EndsKnows
      <4> QED
        BY <4>1, <4>2
    <3> QED
      BY <3>4, <3>5, <3>7, OneKnows
  <2> QED
    BY <1>1, <2>2, <2>3 DEF CreateSession, credentialHistory
<1>2. CASE DeleteSession(r)
  <2>1. /\ Running(r) /\ req[r].pc # "rollback" /\ req[r].op # "register"
        /\ sessions' \subseteq sessions /\ Continues(r, "ok")
        /\ UNCHANGED <<account, tokens, resets, overtaken, unrolled>>
    BY <1>t, <1>2 DEF DeleteSession, Running, Knowing, Acquainted, credentialHistory
  <2>2. CredentialTablesTyped' /\ RowKept
    BY <1>t, <2>1 DEF CredentialTablesTyped, RowKept
  <2>3. RowWhole'
    BY <1>t, <2>1 DEF RowWhole, SessionsAreCurrent
  <2> QED
    BY <2>1, <2>2, <2>3, EndsKnows, OneKnows
<1> QED
  BY <1>1, <1>2

LEMMA ResetSteps ==
  ASSUME CredentialInv, NEW r \in Requests, CreateReset(r) \/ ResetPassword(r)
  PROVE  CredentialInv'
<1>t. /\ req \in [Requests -> CredentialRequest] /\ failures \in Nat /\ Knowing(r)
      /\ CredentialTablesTyped /\ RowWhole
  BY DEF CredentialInv, CredentialTypeOK
<1>1. CASE CreateReset(r)
  <2>1. /\ req[r].pc = "reset_token" /\ req[r].pc \in RowCalls \ {"rollback"} /\ Running(r)
        /\ req[r].op # "register"
    BY <1>t, <1>1 DEF CreateReset, RowCalls, Running, Knowing, Acquainted
  <2>2. CASE Misses(r)
    BY <2>1, <2>2, FailingSteps
  <2>3. CASE /\ Here(Found(r).id) /\ resets' = resets \cup {r} /\ Continues(r, "ok")
             /\ UNCHANGED <<account, tokens, sessions, overtaken, unrolled>>
    <3>1. CredentialTablesTyped' /\ RowKept
      BY <1>t, <2>3 DEF CredentialTablesTyped, RowKept, Ids
    <3>2. RowWhole'
      BY <1>t, <2>3 DEF RowWhole, SessionsAreCurrent, Here
    <3> QED
      BY <2>1, <2>3, <3>1, <3>2, EndsKnows, OneKnows
  <2> QED
    BY <1>1, <2>2, <2>3 DEF CreateReset, credentialHistory
<1>2. CASE ResetPassword(r)
  <2>1. /\ Running(r) /\ req[r].pc # "rollback" /\ req[r].op # "register"
        /\ resets' \subseteq resets /\ UNCHANGED <<tokens, unrolled>>
    BY <1>t, <1>2 DEF ResetPassword, Running, Knowing, Acquainted
  <2>2. CASE /\ req[r].key \in resets /\ account' = [account EXCEPT !.password = r]
             /\ sessions' = {} /\ Continues(r, "ok")
             /\ overtaken' = overtaken \cup
                  {q \in Requests : req[q].op = "login" /\ req[q].pc = "session"}
    <3>1. account # None /\ account \in UserRows
      BY <1>t, <2>2 DEF RowWhole, CredentialTablesTyped
    <3>2. /\ account' \in UserRows /\ account'.id = account.id
          /\ account'.consent = account.consent /\ account'.verified = account.verified
      BY <2>2, <3>1 DEF UserRows, Ids
    <3>3. CredentialTablesTyped' /\ account' # None
      BY <1>t, <2>1, <2>2, <3>2, UserRowsAssumption DEF CredentialTablesTyped
    <3>4. RowKept
      BY <2>1, <2>2, <3>1, <3>2, <3>3 DEF RowKept
    <3>5. RowWhole'
      BY <1>t, <2>1, <2>2, <3>1, <3>2, <3>3 DEF RowWhole, SessionsAreCurrent
    <3> QED
      BY <2>1, <2>2, <3>3, <3>4, <3>5, EndsKnows, OneKnows
  <2>3. CASE /\ Answers(r, "invalid")
             /\ UNCHANGED <<failures, account, sessions, overtaken>>
    <3>1. CredentialTablesTyped' /\ RowKept
      BY <1>t, <2>1, <2>3 DEF CredentialTablesTyped, RowKept
    <3>2. RowWhole'
      BY <1>t, <2>1, <2>3 DEF RowWhole, SessionsAreCurrent
    <3>3. Moves(r, "done", Found(r), "invalid") /\ req' \in [Requests -> CredentialRequest]
      BY <1>t, <2>3, CredentialAnswers DEF Refusals
    <3>4. Knowing(r)' /\ (Made(r) => Made(r)')
      BY <2>1, <3>1, <3>3, IsDone
    <3> QED
      BY <1>t, <2>3, <3>1, <3>2, <3>3, <3>4, OneKnows DEF Moves
  <2> QED
    BY <1>2, <2>2, <2>3 DEF ResetPassword, Revoked
<1> QED
  BY <1>1, <1>2

-----------------------------------------------------------------------------
(* The row is created, and deleted with what refers to it. *)

\* A request whose row is not concerned.
LEMMA StrangersKnow ==
  ASSUME CredentialInv, NEW q \in Requests, req'[q] = req[q], ~Here(q), ~Here(q)',
         req[q].pc \in RowCalls => ~Here(Found(q).id)',
         \A id : Made(id) => Made(id)'
  PROVE  Knowing(q)'
<1>1. Knowing(q) /\ Found(q)' = Found(q)
  BY DEF CredentialInv, Found
<1>2. Acquainted(q)'
  BY <1>1 DEF Knowing, Acquainted
<1>3. req[q].pc \notin {"token", "mail"}
  BY <1>1 DEF Knowing, Acquainted, RowCalls
<1>4. Owning(q)' /\ Advanced(q)'
  BY <1>1, <1>3 DEF Owning, Advanced, RowCalls
<1>5. Answered(q)'
  BY <1>1 DEF Knowing, Answered
<1> QED
  BY <1>2, <1>4, <1>5 DEF Knowing

LEMMA CreatingStep ==
  ASSUME CredentialInv, NEW r \in Requests, CreateUser(r)
  PROVE  CredentialInv'
<1>t. /\ req \in [Requests -> CredentialRequest] /\ failures \in Nat /\ Knowing(r)
      /\ CredentialTablesTyped /\ RowWhole
  BY DEF CredentialInv, CredentialTypeOK
<1>0. /\ req[r].pc = "create" /\ Running(r) /\ req[r].pc # "rollback" /\ req[r].op # "login"
      /\ Found(r) = None /\ req[r].answer = None /\ req[r].op \in Ops
  BY <1>t DEF CreateUser, Running, Knowing, Acquainted, OtherCalls
<1>1. CASE Answers(r, "taken") /\ UNCHANGED <<failures, credentialTables, credentialHistory>>
  BY <1>0, <1>1, PlainSteps DEF Refusals
<1>2. CASE /\ account = None /\ UNCHANGED <<tokens, resets, sessions, overtaken>>
           /\ account' = [id |-> r, password |-> IF req[r].op = "google" THEN NoPassword ELSE r,
                          consent |-> FALSE, verified |-> FALSE]
           /\ \/ Goes(r, "consent", account') /\ UNCHANGED <<failures, unrolled>>
              \/ Fails(r) /\ unrolled' = unrolled \cup {r}
  <2> PICK password : password = IF req[r].op = "google" THEN NoPassword ELSE r
    OBVIOUS
  <2> PICK row : row = [id |-> r, password |-> password, consent |-> FALSE, verified |-> FALSE]
    OBVIOUS
  <2>0. password \in Ids \cup {NoPassword} /\ r \in Ids
    BY DEF Ids
  <2>1. row \in UserRows /\ row # None /\ account' = row /\ row.id = r /\ ~row.verified
    <3>1. row \in UserRows
      BY <2>0 DEF UserRows
    <3>2. row.id = r /\ ~row.verified
      OBVIOUS
    <3>3. account' = row
      BY <1>2
    <3> QED
      BY <3>1, <3>2, <3>3, UserRowsAssumption
  <2>2. tokens' = {} /\ resets' = {} /\ sessions' = {}
    BY <1>t, <1>2 DEF RowWhole
  <2>3. RowWhole'
    BY <2>1, <2>2 DEF RowWhole, SessionsAreCurrent
  <2>4. CredentialTablesTyped'
    BY <1>t, <1>2, <2>1, <2>2 DEF CredentialTablesTyped
  <2>5. Here(r)' /\ \A id : id # r => ~Here(id)'
    BY <2>1 DEF Here
  <2>6. ~Made(r)
    BY <1>0, CredentialsAssumption DEF Made, AfterCreate
  <2>7. /\ req' \in [Requests -> CredentialRequest] /\ failures' \in Nat
        /\ \A q \in Requests \ {r} : req'[q] = req[q]
        /\ Knowing(r)' /\ \A id : Made(id) => Made(id)'
    <3>1. CASE Goes(r, "consent", row) /\ UNCHANGED <<failures, unrolled>>
      <4>1. Moves(r, "consent", row, None) /\ req' \in [Requests -> CredentialRequest]
        BY <1>t, <1>0, <2>1, <3>1, CredentialGoes DEF RowCalls
      <4>2. /\ req'[r].op = req[r].op /\ req'[r].pc = "consent" /\ req'[r].answer = None
            /\ Found(r)' = row
        BY <4>1 DEF Moves, Found
      <4>3. Made(r)'
        BY <4>2 DEF Made, AfterCreate
      <4>4. Acquainted(r)'
        BY <1>0, <2>1, <2>5, <4>2, <4>3 DEF Acquainted, RowCalls, OtherCalls
      <4>5. Owning(r)' /\ Advanced(r)' /\ Answered(r)'
        BY <2>1, <4>2, <4>3, RequestsAssumption DEF Owning, Advanced, Answered, RowCalls
      <4>6. \A id : Made(id) => Made(id)'
        BY <4>1, <4>3 DEF Made, Moves
      <4> QED
        BY <1>t, <3>1, <4>1, <4>4, <4>5, <4>6 DEF Moves, Knowing
    <3>2. CASE Fails(r) /\ unrolled' = unrolled \cup {r}
      <4>0. Answers(r, "error") /\ failures' = failures + 1
        BY <3>2 DEF Fails
      <4>1. Moves(r, "done", Found(r), "error") /\ req' \in [Requests -> CredentialRequest]
        BY <1>t, <4>0, CredentialAnswers
      <4>2. req'[r].op = req[r].op /\ req'[r].pc = "done" /\ req'[r].answer = "error"
        BY <4>1 DEF Moves
      <4>3. Made(r)'
        BY <4>2 DEF Made, AfterCreate
      <4>4. Acquainted(r)'
        BY <1>0, <4>2 DEF Acquainted, RowCalls, OtherCalls
      <4>5. Owning(r)' /\ Advanced(r)' /\ Answered(r)'
        BY <3>2, <4>2, <4>3 DEF Owning, Advanced, Answered
      <4>6. \A id : Made(id) => Made(id)'
        BY <4>1, <4>3 DEF Made, Moves
      <4> QED
        BY <1>t, <4>0, <4>1, <4>4, <4>5, <4>6 DEF Moves, Knowing
    <3> QED
      BY <1>2, <2>1, <3>1, <3>2
  <2>8. \A q \in Requests \ {r} : Knowing(q)'
    <3> SUFFICES ASSUME NEW q \in Requests \ {r} PROVE Knowing(q)'
      OBVIOUS
    <3>1. ~Here(q) /\ ~Here(q)' /\ req'[q] = req[q]
      BY <1>2, <2>5, <2>7 DEF Here
    <3>2. req[q].pc \in RowCalls => ~Here(Found(q).id)'
      <4>1. req[q].pc \in RowCalls => Made(Found(q).id)
        BY DEF CredentialInv, Knowing, Acquainted
      <4>2. Found(q)' = Found(q)
        BY <3>1 DEF Found
      <4> QED
        BY <2>5, <2>6, <4>1, <4>2
    <3> QED
      BY <2>7, <3>1, <3>2, StrangersKnow
  <2> QED
    BY <2>3, <2>4, <2>7, <2>8 DEF CredentialInv, CredentialTypeOK
<1> QED
  BY <1>1, <1>2 DEF CreateUser, credentialTables, credentialHistory

LEMMA DeletingStep ==
  ASSUME CredentialInv, NEW r \in Requests, DeleteNewUser(r)
  PROVE  CredentialInv'
<1>t. /\ req \in [Requests -> CredentialRequest] /\ failures \in Nat /\ Knowing(r)
      /\ CredentialTablesTyped
  BY DEF CredentialInv, CredentialTypeOK
<1>1. /\ req[r].pc = "rollback" /\ Answers(r, "error") /\ failures' = failures
      /\ account' = None /\ tokens' = {} /\ resets' = {} /\ sessions' = {}
      /\ UNCHANGED <<overtaken, unrolled>>
  BY DEF DeleteNewUser, credentialHistory
<1>2. Here(r) /\ req[r].op \in Ops
  BY <1>t, <1>1 DEF Knowing, Acquainted, RowCalls
<1>3. CredentialTablesTyped' /\ RowWhole'
  BY <1>t, <1>1 DEF CredentialTablesTyped, RowWhole, SessionsAreCurrent
<1>4. \A id : ~Here(id)'
  BY <1>1 DEF Here
<1>5. Moves(r, "done", Found(r), "error") /\ req' \in [Requests -> CredentialRequest]
  BY <1>t, <1>1, CredentialAnswers
<1>6. req'[r].op = req[r].op /\ req'[r].pc = "done" /\ req'[r].answer = "error"
  BY <1>5 DEF Moves
<1>7. \A id : Made(id) => Made(id)'
  BY <1>5, <1>6 DEF Made, Moves, AfterCreate
<1>8. Acquainted(r)'
  BY <1>t, <1>2, <1>6 DEF Knowing, Acquainted, RowCalls, OtherCalls
<1>9. Owning(r)' /\ Advanced(r)' /\ Answered(r)'
  BY <1>4, <1>6 DEF Owning, Advanced, Answered
<1>10. \A q \in Requests \ {r} : Knowing(q)'
  <2> SUFFICES ASSUME NEW q \in Requests \ {r} PROVE Knowing(q)'
    OBVIOUS
  <2>1. ~Here(q)
    BY <1>2 DEF Here
  <2>2. req'[q] = req[q]
    BY <1>5 DEF Moves
  <2>3. ~Here(q)' /\ ~Here(Found(q).id)'
    BY <1>1 DEF Here
  <2> QED
    BY <1>7, <2>1, <2>2, <2>3, StrangersKnow
<1> QED
  BY <1>t, <1>1, <1>3, <1>5, <1>8, <1>9, <1>10 DEF CredentialInv, CredentialTypeOK, Knowing

-----------------------------------------------------------------------------
(* The server and the clock. *)

LEMMA StoppingStep ==
  ASSUME CredentialInv, ServerStops
  PROVE  CredentialInv'
<1>t. /\ req \in [Requests -> CredentialRequest] /\ failures \in Nat
      /\ unrolled \subseteq Requests
  BY DEF CredentialInv, CredentialTypeOK, CredentialTablesTyped
<1>1. /\ failures' = failures + 1 /\ UNCHANGED <<credentialTables, overtaken>>
      /\ req' = [q \in Requests |->
           IF Running(q) THEN [req[q] EXCEPT !.pc = "done", !.answer = "error"] ELSE req[q]]
      /\ unrolled' = unrolled \cup {q \in Requests : Running(q)}
  BY DEF ServerStops
<1>2. CredentialTablesTyped' /\ RowKept /\ RowWhole'
  BY <1>t, <1>1, AloneHolds
<1>3. req' \in [Requests -> CredentialRequest]
  <2>1. ASSUME NEW q \in Requests
        PROVE  [req[q] EXCEPT !.pc = "done", !.answer = "error"] \in CredentialRequest
    BY <1>t DEF CredentialRequest, RequestRecords
  <2> QED
    BY <1>t, <1>1, <2>1
<1>4. ASSUME NEW q \in Requests, Running(q)
      PROVE  /\ req'[q].op = req[q].op /\ req'[q].pc = "done" /\ req'[q].answer = "error"
             /\ q \in unrolled' /\ Found(q)' = Found(q)
  BY <1>t, <1>1, <1>4 DEF CredentialRequest, RequestRecords, Found
<1>5. ASSUME NEW q \in Requests, ~Running(q) PROVE req'[q] = req[q]
  BY <1>1, <1>5
<1>6. \A id : Made(id) => Made(id)'
  BY <1>4, <1>5 DEF Made, AfterCreate
<1>7. ASSUME NEW q \in Requests PROVE Knowing(q)'
  <2>1. CASE ~Running(q)
    BY <1>2, <1>5, <1>6, <2>1, OthersKnow
  <2>2. CASE Running(q)
    <3>1. Knowing(q) /\ req[q].op \in Ops
      BY <2>2 DEF CredentialInv, Knowing, Acquainted, Running
    <3>2. Acquainted(q)'
      BY <1>4, <2>2, <3>1 DEF Knowing, Acquainted, RowCalls, OtherCalls
    <3>3. Owning(q)' /\ Advanced(q)' /\ Answered(q)'
      BY <1>4, <2>2 DEF Owning, Advanced, Answered, Made, AfterCreate
    <3> QED
      BY <3>2, <3>3 DEF Knowing
  <2> QED
    BY <2>1, <2>2
<1>8. failures' \in Nat
  <2>1. failures \in Nat /\ failures' = failures + 1
    BY DEF CredentialInv, CredentialTypeOK, ServerStops
  <2> QED
    BY <2>1
<1> QED
  BY <1>2, <1>3, <1>7, <1>8 DEF CredentialInv, CredentialTypeOK

\* The clock and the limiters have no part in it.
LEMMA NothingHappens ==
  ASSUME CredentialInv, UNCHANGED <<requestVars, credentialTables, credentialHistory>>
  PROVE  CredentialInv'
<1>1. /\ UNCHANGED <<credentialTables, overtaken, unrolled>> /\ req' = req /\ failures' = failures
      /\ unrolled \subseteq Requests
  BY DEF requestVars, credentialHistory, CredentialInv, CredentialTypeOK, CredentialTablesTyped
<1>2. CredentialTablesTyped' /\ RowKept /\ RowWhole'
  BY <1>1, AloneHolds
<1>3. \A id : Made(id) => Made(id)'
  BY <1>1 DEF Made
<1>4. \A q \in Requests : Knowing(q)'
  BY <1>1, <1>2, <1>3, OthersKnow
<1> QED
  BY <1>1, <1>2, <1>4 DEF CredentialInv, CredentialTypeOK

-----------------------------------------------------------------------------

LEMMA CredentialInvInit ==
  ASSUME CredentialsInit
  PROVE  CredentialInv
<1>1. /\ req = [r \in Requests |-> Idle] /\ failures = 0 /\ unrolled = {} /\ overtaken = {}
      /\ CredentialTablesInit
  BY DEF CredentialsInit, CredentialTablesInit
<1>2. req \in [Requests -> CredentialRequest]
  BY <1>1, NoneRuns DEF CredentialRequest
<1>3. account = None \/ (/\ account \in UserRows /\ account.id = Earlier
                         /\ account.password = Earlier
                         /\ account.verified => account.consent)
  <2>1. \A consent, verified \in BOOLEAN : OldAccount(consent, verified) \in UserRows
    BY DEF OldAccount, UserRows, Ids
  <2>2. \A consent, verified \in BOOLEAN :
          /\ OldAccount(consent, verified).id = Earlier
          /\ OldAccount(consent, verified).password = Earlier
          /\ OldAccount(consent, verified).consent = consent
          /\ OldAccount(consent, verified).verified = verified
    BY DEF OldAccount
  <2>3. account \in {None, OldAccount(FALSE, FALSE), OldAccount(TRUE, FALSE),
                    OldAccount(TRUE, TRUE)}
    BY <1>1 DEF CredentialTablesInit
  <2> QED
    BY <2>1, <2>2, <2>3
<1>4. /\ tokens \subseteq {Earlier} /\ resets \subseteq {Earlier}
      /\ sessions \subseteq {[id |-> Earlier, password |-> Earlier]}
      /\ account = None => tokens = {} /\ resets = {} /\ sessions = {}
      /\ tokens # {} => account # None /\ account.consent
  BY <1>1 DEF CredentialTablesInit, Old
<1>5. CredentialTablesTyped
  <2>1. [id |-> Earlier, password |-> Earlier] \in [id : Ids, password : Ids \cup {NoPassword}]
    BY DEF Ids
  <2> QED
    BY <1>1, <1>3, <1>4, <2>1 DEF CredentialTablesTyped, Ids
<1>6. RowWhole
  <2>1. SessionsAreCurrent
    BY <1>3, <1>4 DEF SessionsAreCurrent
  <2> QED
    BY <1>3, <1>4, <2>1 DEF RowWhole
<1>7. ASSUME NEW r \in Requests PROVE Knowing(r)
  <2>1. req[r].pc = "idle" /\ req[r].op = None /\ req[r].answer = None /\ Found(r) = None
    BY <1>1 DEF Idle, Found
  <2>2. ~Here(r)
    BY <1>3, CredentialsAssumption DEF Here
  <2>3. Acquainted(r)
    BY <2>1, RequestsAssumption DEF Acquainted, RowCalls, OtherCalls
  <2>4. Owning(r) /\ Advanced(r) /\ Answered(r)
    BY <2>1, <2>2, RequestsAssumption DEF Owning, Advanced, Answered
  <2> QED
    BY <2>3, <2>4 DEF Knowing
<1> QED
  BY <1>1, <1>2, <1>5, <1>6, <1>7 DEF CredentialInv, CredentialTypeOK

LEMMA CredentialInvStep ==
  ASSUME CredentialInv, [CredentialsNext]_credentialVars
  PROVE  CredentialInv'
<1>1. CASE UNCHANGED credentialVars
  BY <1>1, NothingHappens DEF credentialVars
<1>2. CASE Pass
  BY <1>2, NothingHappens DEF Pass
<1>3. CASE ServerStops
  BY <1>3, StoppingStep
<1>4. ASSUME NEW r \in Requests, AskAny(r) PROVE CredentialInv'
  BY <1>4, AskStep DEF AskAny, Ops
<1>5. ASSUME NEW r \in Requests, CredentialStep(r) PROVE CredentialInv'
  BY <1>5, FindingSteps, GrantingSteps, TokenSteps, SessionSteps, ResetSteps, CreatingStep,
     DeletingStep, FailingSteps DEF CredentialStep
<1> QED
  BY <1>1, <1>2, <1>3, <1>4, <1>5 DEF CredentialsNext

\* What the requests know of their row, and what every account holds (auth/service.go).
THEOREM CredentialInvHolds == CredentialsSpec => []CredentialInv
<1>1. CredentialsInit => CredentialInv
  BY CredentialInvInit
<1>2. CredentialInv /\ [CredentialsNext]_credentialVars => CredentialInv'
  BY CredentialInvStep
<1> QED
  BY <1>1, <1>2, PTL DEF CredentialsSpec

\* A verified account has consented, a registration that was answered has its account
\* and its token, and one that failed has left none unless its rollback failed too
\* (handleRegister and deleteNewUser, auth/service.go).
THEOREM AccountsKeepWhole == CredentialsSpec => []AccountsAreWhole
<1>1. CredentialInv => AccountsAreWhole
  BY DEF CredentialInv, RowWhole, Knowing, Answered, AccountsAreWhole
<1> QED
  BY <1>1, CredentialInvHolds, PTL

\* Whoever resets the password ends every session, of which only a login that had checked the
\* old one can open another (ResetPassword of auth/repository.go, handleLogin).
THEOREM SessionsEndWithPassword == CredentialsSpec => []SessionsAreCurrent
<1>1. CredentialInv => SessionsAreCurrent
  BY DEF CredentialInv, RowWhole
<1> QED
  BY <1>1, CredentialInvHolds, PTL

\* The requests, the row of the address and what refers to it have their types.
THEOREM CredentialsAreTyped == CredentialsSpec => []CredentialTypeOK
<1>1. CredentialInv => CredentialTypeOK
  BY DEF CredentialInv
<1> QED
  BY <1>1, CredentialInvHolds, PTL

-----------------------------------------------------------------------------
(* The order of the feed *)

\* A set of rows is finite, and its size a number.
LEMMA RowsAreFinite ==
  ASSUME NEW S \in SUBSET Rows
  PROVE  IsFiniteSet(S) /\ Cardinality(S) \in Nat
  BY FeedAssumption, FS_Subset, FS_CardinalityType

\* Of two rows one comes first, and the order is transitive.
LEMMA OrderIs ==
  ASSUME NEW r1 \in Rows, NEW r2 \in Rows
  PROVE  /\ ~Before(r1, r1, Rank)
         /\ r1 # r2 => Before(r1, r2, Rank) \/ Before(r2, r1, Rank)
         /\ \A r3 \in Rows :
              Before(r1, r2, Rank) /\ Before(r2, r3, Rank) => Before(r1, r3, Rank)
<1>1. \A r \in Rows : Rank[r.key] \in Int /\ r.posted \in {Nil} \cup Int
  BY FeedAssumption
<1>2. ~Before(r1, r1, Rank)
  BY <1>1 DEF Before
<1>3. r1 # r2 => Before(r1, r2, Rank) \/ Before(r2, r1, Rank)
  BY <1>1, FeedAssumption DEF Before
<1>4. ASSUME NEW r3 \in Rows, Before(r1, r2, Rank), Before(r2, r3, Rank)
      PROVE  Before(r1, r3, Rank)
  BY <1>1, <1>4 DEF Before
<1> QED
  BY <1>2, <1>3, <1>4

\* A set of rows can be put in order: the place of a row is one more than the number of
\* rows before it.
LEMMA OrderExists ==
  ASSUME NEW S \in SUBSET Rows
  PROVE  \E listed \in [1 .. Cardinality(S) -> S] :
           \A i, j \in DOMAIN listed : i < j => Before(listed[i], listed[j], Rank)
<1> DEFINE n == Cardinality(S)
           Upto(r) == {a \in S : a = r \/ Before(a, r, Rank)}
           place == [r \in S |-> Cardinality(Upto(r))]
<1>1. IsFiniteSet(S) /\ n \in Nat
  BY RowsAreFinite
<1>2. \A r \in S : IsFiniteSet(Upto(r)) /\ Cardinality(Upto(r)) \in 1 .. n
  <2> TAKE r \in S
  <2>1. Upto(r) \subseteq S /\ Upto(r) # {}
    OBVIOUS
  <2>2. IsFiniteSet(Upto(r)) /\ Cardinality(Upto(r)) <= n /\ Cardinality(Upto(r)) \in Nat
    BY <1>1, <2>1, FS_Subset, FS_CardinalityType
  <2>3. Cardinality(Upto(r)) # 0
    BY <2>1, <2>2, FS_EmptySet
  <2> QED
    BY <1>1, <2>2, <2>3
<1>3. ASSUME NEW r1 \in S, NEW r2 \in S, Before(r1, r2, Rank)
      PROVE  place[r1] < place[r2]
  <2>1. r2 \notin Upto(r1) /\ Upto(r1) \cup {r2} \subseteq Upto(r2)
    BY <1>3, OrderIs
  <2>2. Cardinality(Upto(r1) \cup {r2}) = Cardinality(Upto(r1)) + 1
    BY <1>2, <2>1, FS_AddElement
  <2>3. Cardinality(Upto(r1) \cup {r2}) <= Cardinality(Upto(r2))
    BY <1>2, <2>1, FS_Subset
  <2>4. Cardinality(Upto(r1)) \in Int /\ Cardinality(Upto(r2)) \in Int
    BY <1>2, <1>1
  <2>5. place[r1] = Cardinality(Upto(r1)) /\ place[r2] = Cardinality(Upto(r2))
    OBVIOUS
  <2> HIDE DEF place, Upto
  <2> QED
    BY <2>2, <2>3, <2>4, <2>5
<1>4. place \in [S -> 1 .. n]
  BY <1>2
<1>5. \A r1, r2 \in S : r1 # r2 => place[r1] # place[r2]
  <2> SUFFICES ASSUME NEW r1 \in S, NEW r2 \in S, r1 # r2 PROVE place[r1] # place[r2]
    OBVIOUS
  <2>1. Before(r1, r2, Rank) \/ Before(r2, r1, Rank)
    BY OrderIs
  <2>2. place[r1] \in Int /\ place[r2] \in Int
    BY <1>4, <1>1
  <2> HIDE DEF place
  <2> QED
    BY <1>3, <2>1, <2>2
<1> HIDE DEF place
<1>6. place \in Surjection(S, 1 .. n)
  <2>1. place \in Injection(S, 1 .. n)
    BY <1>4, <1>5 DEF Injection, IsInjective
  <2>2. IsFiniteSet(1 .. n) /\ Cardinality(1 .. n) = n
    BY <1>1, FS_Interval
  <2> QED
    BY <2>1, <2>2, FS_Injection
<1>7. \A i \in 1 .. n : \E r \in S : place[r] = i
  BY <1>6 DEF Surjection
<1> DEFINE listed == [i \in 1 .. n |-> CHOOSE r \in S : place[r] = i]
<1>8. listed \in [1 .. n -> S] /\ \A i \in 1 .. n : place[listed[i]] = i
  BY <1>7
<1> HIDE DEF listed
<1>9. ASSUME NEW i \in 1 .. n, NEW j \in 1 .. n, i < j
      PROVE  Before(listed[i], listed[j], Rank)
  <2>1. listed[i] \in S /\ listed[j] \in S /\ listed[i] # listed[j]
    BY <1>8, <1>9
  <2>2. Before(listed[j], listed[i], Rank) => j < i
    BY <1>3, <1>8, <2>1
  <2> QED
    BY <1>9, <2>1, <2>2, OrderIs
<1> QED
  BY <1>8, <1>9

\* What the feed lists of a set of rows: each of them once, in order.
LEMMA OrderedIs ==
  ASSUME NEW S \in SUBSET Rows
  PROVE  LET listed == Ordered(S, Rank)  n == Cardinality(S) IN
         /\ n \in Nat /\ listed \in [1 .. n -> S] /\ Len(listed) = n /\ listed \in Seq(Rows)
         /\ \A i, j \in 1 .. n : i < j => Before(listed[i], listed[j], Rank)
         /\ \A i, j \in 1 .. n : listed[i] = listed[j] => i = j
         /\ \A r \in S : \E i \in 1 .. n : listed[i] = r
<1> DEFINE listed == Ordered(S, Rank)
           n == Cardinality(S)
<1>1. IsFiniteSet(S) /\ n \in Nat
  BY RowsAreFinite
<1>2. /\ listed \in [1 .. n -> S]
      /\ \A i, j \in 1 .. n : i < j => Before(listed[i], listed[j], Rank)
  BY OrderExists DEF Ordered
<1> HIDE DEF listed
<1>3. \A i, j \in 1 .. n : listed[i] = listed[j] => i = j
  <2> SUFFICES ASSUME NEW i \in 1 .. n, NEW j \in 1 .. n, i < j, listed[i] = listed[j]
               PROVE  FALSE
    BY <1>1
  <2> QED
    BY <1>2, OrderIs
<1>4. listed \in Surjection(1 .. n, S)
  <2>1. listed \in Injection(1 .. n, S)
    BY <1>2, <1>3 DEF Injection, IsInjective
  <2>2. Cardinality(1 .. n) = n
    BY <1>1, FS_Interval
  <2> QED
    BY <1>1, <2>1, <2>2, FS_Injection
<1>5. \A r \in S : \E i \in 1 .. n : listed[i] = r
  BY <1>4 DEF Surjection
<1>6. listed \in Seq(Rows) /\ Len(listed) = n
  BY <1>1, <1>2
<1> QED
  BY <1>1, <1>2, <1>3, <1>5, <1>6 DEF listed

-----------------------------------------------------------------------------
(* The pages *)

\* What matches, in order, and how many rows those are.
FeedList == Ordered(Matching, Rank)
FeedSize == Cardinality(Matching)
\* The rows at the places from i to j of the listing have been shown.
SeenTo(j) == \A i \in 1 .. FeedSize : i <= j => FeedList[i].key \in walk.seen

\* As long as nothing has moved, the reader has seen all that comes before the page; what was
\* counted is the size of the listing, and the page that was read is this part of it.
WalkInv ==
  walk.still =>
    /\ SeenTo(view.offset)
    /\ view.pc \in {"page", "cards"} => view.counted = FeedSize
    /\ view.pc = "cards" =>
         \A i \in 1 .. FeedSize : view.offset < i /\ i <= view.offset + PageSize =>
           \E k \in DOMAIN view.rows : view.rows[k] = FeedList[i]
    /\ view.pc = "ready" => view.total = FeedSize /\ SeenTo(view.offset + PageSize)

FeedInv ==
  /\ FeedTypeOK
  /\ view.pc \in {"page", "cards"} => ValidateJobQuery(view.query)
  /\ WalkInv

-----------------------------------------------------------------------------

\* What the feed matches are rows.
LEMMA ListIs ==
  /\ Matching \subseteq Rows /\ FeedSize \in Nat
  /\ FeedList \in [1 .. FeedSize -> Matching] /\ Len(FeedList) = FeedSize /\ FeedList \in Seq(Rows)
  /\ \A row \in Matching : \E i \in 1 .. FeedSize : FeedList[i] = row
<1>1. Matching \subseteq Rows
  BY DEF Matching, Visible
<1> QED
  BY <1>1, OrderedIs DEF FeedList, FeedSize

\* The list stays if the reader and the filters do and no job is dismissed or restored.
LEMMA ListKept ==
  ASSUME view'.signedIn = view.signedIn, view'.query = view.query,
         \A row \in Rows : jobStates'[row.key].dismissed = jobStates[row.key].dismissed
  PROVE  FeedList' = FeedList /\ FeedSize' = FeedSize
<1>1. Visible' = Visible
  BY DEF Visible
<1>2. \A row : FeedWhere(row, view.query)' <=> FeedWhere(row, view.query)
  BY DEF FeedWhere, InLocation, InRequirements
<1>3. Matching' = Matching
  BY <1>1, <1>2 DEF Matching
<1> QED
  BY <1>3 DEF FeedList, FeedSize

\* A query that is not refused is answered with the size of the list and one page of it.
LEMMA ResultIs ==
  ASSUME FeedTypeOK, ValidateJobQuery(view.query)
  PROVE  /\ Result(Asked).total = FeedSize
         /\ Result(Asked).jobs = Slice(FeedList, view.offset + 1, view.offset + PageSize)
<1>1. PageSize \in 1 .. MaxLimit /\ PageSize \in Int /\ MaxLimit = 100
  BY FeedAssumption DEF MaxLimit
<1>2. Asked = [query |-> view.query, limit |-> PageSize, offset |-> view.offset]
  BY <1>1 DEF Asked, ParseQuery
<1>3. NormalizeQuery(PageSize, view.offset) = [limit |-> PageSize, offset |-> view.offset]
  BY <1>1 DEF NormalizeQuery, FeedTypeOK
<1>4. Result(Asked) = [total |-> Len(FeedList),
                       jobs |-> Slice(FeedList, view.offset + 1, view.offset + PageSize)]
  BY <1>2, <1>3 DEF Result, SearchFeed, FeedList, Matching
<1> QED
  BY <1>4, ListIs

\* The page of the list that starts after the offset.
LEMMA PageIs ==
  ASSUME NEW offset \in Nat
  PROVE  LET page == Slice(FeedList, offset + 1, offset + PageSize) IN
         /\ page \in Seq(Rows)
         /\ \A i \in 1 .. FeedSize : offset < i /\ i <= offset + PageSize =>
              \E k \in DOMAIN page : page[k] = FeedList[i]
<1> DEFINE last == IF offset + PageSize < FeedSize THEN offset + PageSize ELSE FeedSize
           page == Slice(FeedList, offset + 1, offset + PageSize)
<1>1. PageSize \in Nat /\ FeedSize \in Nat /\ last \in Nat /\ last <= FeedSize
  <2>1. PageSize \in Nat
    BY FeedAssumption DEF MaxLimit
  <2>2. FeedSize \in Nat
    BY ListIs
  <2> QED
    BY <2>1, <2>2
<1>2. page = [k \in 1 .. (last - offset) |-> FeedList[k + offset]]
  <2>1. page = SubSeq(FeedList, offset + 1, last)
    BY ListIs DEF Slice
  <2> QED
    BY <1>1, <2>1, ListIs
<1> HIDE DEF page
<1>3. page \in Seq(Rows)
  <2>1. \A k \in 1 .. (last - offset) : FeedList[k + offset] \in Rows
    BY <1>1, ListIs
  <2>2. CASE last - offset \in Nat
    BY <1>2, <2>1, <2>2
  <2>3. CASE last - offset \notin Nat
    BY <1>1, <1>2, <2>1, <2>3
  <2> QED
    BY <2>2, <2>3
<1>4. ASSUME NEW i \in 1 .. FeedSize, offset < i, i <= offset + PageSize
      PROVE  \E k \in DOMAIN page : page[k] = FeedList[i]
  <2>1. i - offset \in 1 .. (last - offset) /\ (i - offset) + offset = i
    BY <1>1, <1>4
  <2> QED
    BY <1>2, <2>1
<1> QED
  BY <1>3, <1>4 DEF page

-----------------------------------------------------------------------------
(* The cards *)

\* A function takes finitely many values on a finite set.
LEMMA ImageIsFinite ==
  ASSUME NEW S, IsFiniteSet(S), NEW f
  PROVE  IsFiniteSet({f[x] : x \in S})
<1> DEFINE image == {f[x] : x \in S}
           onto == [x \in S |-> f[x]]
<1>1. onto \in Surjection(S, image)
  BY DEF Surjection
<1> QED
  BY <1>1, FS_Surjection

\* A score is a percentage.
LEMMA ScoreIs ==
  ASSUME NEW row \in Rows
  PROVE  MatchScore(row, Skills) \in 0 .. 100
<1> DEFINE reqs == row.requirements
           tags == ExtractRequirementTags(reqs)
           matched == {t \in tags : \E s \in Skills : s \in t \/ t = {s}}
<1>1. IsFiniteSet(tags)
  <2> DEFINE each == {Tags(reqs[i]) : i \in DOMAIN reqs}
  <2>1. IsFiniteSet(each)
    <3> DEFINE tagged == [i \in DOMAIN reqs |-> Tags(reqs[i])]
    <3>1. each = {tagged[i] : i \in DOMAIN reqs}
      OBVIOUS
    <3> HIDE DEF tagged, each
    <3> QED
      BY <3>1, ImageIsFinite, FeedAssumption
  <2>2. \A requirement : IsFiniteSet(Tags(requirement))
    <3> TAKE requirement
    <3> DEFINE known == requirement \cap DOMAIN TagAliases
    <3>1. IsFiniteSet({TagAliases[w] : w \in known})
      <4>1. IsFiniteSet(known)
        <5>1. DOMAIN TagAliases = {"golang", "postgres", "js"}
          BY DEF TagAliases
        <5>2. IsFiniteSet({"golang", "postgres", "js"})
          <6>1. IsFiniteSet({"golang"} \cup {"postgres"})
            BY FS_Singleton, FS_Union
          <6>2. IsFiniteSet(({"golang"} \cup {"postgres"}) \cup {"js"})
            BY <6>1, FS_Singleton, FS_Union
          <6>3. ({"golang"} \cup {"postgres"}) \cup {"js"} = {"golang", "postgres", "js"}
            OBVIOUS
          <6> QED
            BY <6>2, <6>3
        <5> QED
          BY <5>1, <5>2, FS_Subset
      <4> QED
        BY <4>1, ImageIsFinite
    <3>2. IsFiniteSet({}) /\ IsFiniteSet({requirement})
      BY FS_EmptySet, FS_Singleton
    <3> QED
      BY <3>1, <3>2 DEF Tags
  <2>3. tags = UNION each
    BY DEF ExtractRequirementTags
  <2> QED
    BY <2>1, <2>2, <2>3, FS_UNION
<1>2. /\ Cardinality(tags) \in Nat /\ Cardinality(matched) \in Nat
      /\ Cardinality(matched) <= Cardinality(tags)
      /\ tags # {} => Cardinality(tags) # 0
  BY <1>1, FS_Subset, FS_CardinalityType, FS_EmptySet
<1>3. ASSUME NEW m \in Nat, NEW t \in Nat \ {0}, m <= t
      PROVE  (m * 100) \div t \in 0 .. 100
  <2> DEFINE a == m * 100
  <2>1. a \in Nat /\ a <= 100 * t
    BY <1>3
  <2> HIDE DEF a
  <2>2. a \div t \in Nat
    BY <2>1
  <2>3. a \div t <= 100
    BY <2>1
  <2> QED
    BY <2>2, <2>3 DEF a
<1>4. CASE Skills = Nil \/ tags = {}
  BY <1>4 DEF MatchScore
<1>5. CASE ~(Skills = Nil \/ tags = {})
  <2>1. MatchScore(row, Skills) = (Cardinality(matched) * 100) \div Cardinality(tags)
    BY <1>5 DEF MatchScore
  <2> HIDE DEF matched, tags
  <2> QED
    BY <1>2, <1>3, <1>5, <2>1
<1> QED
  BY <1>4, <1>5

\* A card has the type of a card.
LEMMA CardIs ==
  ASSUME NEW row \in Rows, FeedTypeOK
  PROVE  Card(row) \in Cards
<1>1. (IF view.signedIn THEN MatchScore(row, Skills) ELSE 0) \in 0 .. 100
  BY ScoreIs
<1>2. (view.signedIn /\ jobStates[row.key].applied) \in BOOLEAN
  OBVIOUS
<1>3. ToCard(row) \in {ToCard(r) : r \in Rows}
  OBVIOUS
<1> QED
  BY <1>1, <1>2, <1>3, Zenon DEF Card, Cards

-----------------------------------------------------------------------------
(* The steps *)

\* What a step does to the page that changes neither the list nor what was seen.
SameList ==
  /\ view'.signedIn = view.signedIn /\ view'.query = view.query
  /\ jobStates' = jobStates

LEMMA ListKeeps ==
  ASSUME SameList
  PROVE  FeedList' = FeedList /\ FeedSize' = FeedSize
  BY ListKept DEF SameList

\* Nothing has been fetched at first.
LEMMA FeedInitInv == FeedInit => FeedInv
<1> SUFFICES ASSUME FeedInit PROVE FeedInv
  OBVIOUS
<1>1. FeedTypeOK
  <2>1. <<>> \in Seq(Rows) /\ {} \subseteq Cards /\ 0 \in Nat /\ Readers \subseteq BOOLEAN
    BY FeedAssumption
  <2> QED
    BY <2>1 DEF FeedInit, FeedTablesInit, FeedTypeOK
<1>2. view.pc = "debounce" /\ view.offset = 0
  BY DEF FeedInit, FeedTablesInit
<1> QED
  BY <1>1, <1>2, ListIs DEF FeedInv, WalkInv, SeenTo

\* Every step of the reader, of the two reads and of the job states keeps the invariant.
LEMMA FeedStep == FeedInv /\ [FeedNext]_feedVars => FeedInv'
<1> SUFFICES ASSUME FeedInv, [FeedNext]_feedVars PROVE FeedInv'
  OBVIOUS
<1>a. FeedTypeOK /\ WalkInv
  BY DEF FeedInv
<1>b. PageSize \in Nat
  BY FeedAssumption DEF MaxLimit
<1>c. FeedSize \in Nat
  BY ListIs
<1>1. CASE CountJobs
  <2>1. SameList /\ view'.offset = view.offset /\ walk' = walk
    BY <1>1, <1>a DEF CountJobs, FeedTypeOK, SameList, trackerVars, trackerTables
  <2>2. FeedList' = FeedList /\ FeedSize' = FeedSize
    BY <2>1, ListKeeps
  <2>3. CASE Asked = Nil
    <3>1. view' = [view EXCEPT !.pc = "error"]
      BY <1>1, <2>3 DEF CountJobs
    <3>2. FeedTypeOK'
      BY <1>a, <2>1, <3>1 DEF FeedTypeOK
    <3> QED
      BY <1>a, <2>1, <2>2, <3>1, <3>2 DEF FeedInv, FeedTypeOK, WalkInv, SeenTo
  <2>4. CASE Asked # Nil
    <3>1. ValidateJobQuery(view.query)
      BY <2>4 DEF Asked, ParseQuery
    <3>2. Result(Asked).total = FeedSize
      BY <1>a, <3>1, ResultIs
    <3>3. view' = [view EXCEPT !.pc = "page", !.counted = FeedSize]
      BY <1>1, <2>4, <3>2 DEF CountJobs
    <3>4. FeedTypeOK'
      BY <1>a, <1>c, <2>1, <3>3 DEF FeedTypeOK
    <3>5. view'.pc = "page" /\ view'.counted = FeedSize
      BY <1>a, <3>3 DEF FeedTypeOK
    <3>6. ValidateJobQuery(view'.query)
      BY <2>1, <3>1 DEF SameList
    <3>7. ValidateJobQuery(view.query)'
      BY <3>6 DEF ValidateJobQuery
    <3> QED
      BY <1>a, <2>1, <2>2, <3>4, <3>5, <3>7 DEF FeedInv, WalkInv, SeenTo
  <2> QED
    BY <2>3, <2>4
<1>2. CASE ReadPage
  <2>1. SameList /\ view'.offset = view.offset /\ walk' = walk /\ view'.counted = view.counted
    BY <1>2, <1>a DEF ReadPage, FeedTypeOK, SameList, trackerVars, trackerTables
  <2>2. FeedList' = FeedList /\ FeedSize' = FeedSize
    BY <2>1, ListKeeps
  <2>3. ValidateJobQuery(view.query) /\ view.pc = "page"
    BY <1>2 DEF FeedInv, ReadPage
  <2>4. Result(Asked).jobs = Slice(FeedList, view.offset + 1, view.offset + PageSize)
    BY <1>a, <2>3, ResultIs
  <2>5. view.offset \in Nat
    BY <1>a DEF FeedTypeOK
  <2>6. view' = [view EXCEPT !.pc = "cards", !.rows = Result(Asked).jobs]
    BY <1>2 DEF ReadPage
  <2>7. /\ Result(Asked).jobs \in Seq(Rows)
        /\ \A i \in 1 .. FeedSize : view.offset < i /\ i <= view.offset + PageSize =>
             \E k \in DOMAIN Result(Asked).jobs : Result(Asked).jobs[k] = FeedList[i]
    BY <2>4, <2>5, PageIs
  <2>8. view'.pc = "cards" /\ view'.rows = Result(Asked).jobs
    BY <1>a, <2>6 DEF FeedTypeOK
  <2>9. FeedTypeOK'
    BY <1>a, <2>1, <2>6, <2>7 DEF FeedTypeOK
  <2>10. ValidateJobQuery(view.query)'
    BY <2>1, <2>3 DEF SameList, ValidateJobQuery
  <2> HIDE DEF FeedInv
  <2> QED
    BY <1>a, <2>1, <2>2, <2>3, <2>7, <2>8, <2>9, <2>10 DEF FeedInv, WalkInv, SeenTo
<1>3. CASE ReadCards
  <2>1. /\ SameList /\ view'.offset = view.offset /\ view'.pc = "ready"
        /\ view'.total = view.counted /\ walk'.still = walk.still
        /\ walk'.seen = walk.seen \cup {view.rows[i].key : i \in DOMAIN view.rows}
        /\ view.pc = "cards"
    BY <1>3, <1>a DEF ReadCards, FeedTypeOK, SameList, trackerVars, trackerTables
  <2>2. FeedList' = FeedList /\ FeedSize' = FeedSize
    BY <2>1, ListKeeps
  <2>3. view.rows \in Seq(Rows) /\ view.counted \in Nat /\ view.offset \in Nat
    BY <1>a DEF FeedTypeOK
  <2>4. FeedTypeOK'
    <3>1. \A i \in DOMAIN view.rows : view.rows[i] \in Rows
      BY <2>3
    <3>2. {Card(view.rows[i]) : i \in DOMAIN view.rows} \subseteq Cards
      BY <1>a, <3>1, CardIs
    <3>3. {view.rows[i].key : i \in DOMAIN view.rows} \subseteq Listed
      BY <3>1, FeedAssumption
    <3>4. view' = [view EXCEPT !.pc = "ready", !.total = view.counted, !.rows = <<>>,
                               !.cards = {Card(view.rows[i]) : i \in DOMAIN view.rows}]
      BY <1>3 DEF ReadCards
    <3>5. walk' = [walk EXCEPT !.seen = walk.seen \cup {view.rows[i].key : i \in DOMAIN view.rows}]
      BY <1>3 DEF ReadCards
    <3>6. <<>> \in Seq(Rows)
      OBVIOUS
    <3>7. view' \in [signedIn : BOOLEAN, query : Queries, offset : Nat, counted : Nat, total : Nat,
                     pc : {"debounce", "count", "page", "cards", "ready", "error"},
                     rows : Seq(Rows), cards : SUBSET Cards]
      BY <1>a, <2>3, <3>2, <3>4, <3>6 DEF FeedTypeOK
    <3>8. walk' \in [seen : SUBSET Listed, still : BOOLEAN]
      BY <1>a, <3>3, <3>5 DEF FeedTypeOK
    <3> QED
      BY <3>7, <3>8 DEF FeedTypeOK
  <2>5. ASSUME walk.still PROVE SeenTo(view.offset + PageSize)'
    <3> SUFFICES ASSUME NEW i \in 1 .. FeedSize, i <= view.offset + PageSize
                 PROVE  FeedList[i].key \in walk'.seen
      BY <2>1, <2>2 DEF SeenTo
    <3>1. CASE i <= view.offset
      BY <1>a, <2>1, <2>5, <3>1 DEF WalkInv, SeenTo
    <3>2. CASE view.offset < i
      BY <1>a, <2>1, <2>5, <3>2 DEF WalkInv
    <3> QED
      BY <1>c, <2>3, <3>1, <3>2
  <2>6. WalkInv'
    <3> SUFFICES ASSUME walk.still PROVE WalkInv'
      BY <2>1 DEF WalkInv
    <3>1. SeenTo(view.offset + PageSize)' /\ SeenTo(view.offset)'
      BY <1>b, <1>c, <2>1, <2>2, <2>3, <2>5 DEF SeenTo
    <3>2. view'.total = FeedSize'
      BY <1>a, <2>1, <2>2 DEF WalkInv
    <3> QED
      BY <2>1, <3>1, <3>2 DEF WalkInv
  <2> QED
    BY <2>1, <2>4, <2>6 DEF FeedInv
<1>4. CASE FeedFails
  <2>1. SameList /\ view'.offset = view.offset /\ walk' = walk /\ view'.pc = "error"
    BY <1>4, <1>a DEF FeedFails, FeedTypeOK, SameList, trackerTables
  <2>2. FeedList' = FeedList /\ FeedSize' = FeedSize
    BY <2>1, ListKeeps
  <2>3. FeedTypeOK'
    <3>1. <<>> \in Seq(Rows)
      OBVIOUS
    <3> QED
      BY <1>4, <1>a, <3>1 DEF FeedFails, FeedTypeOK
  <2> QED
    BY <1>a, <2>1, <2>2, <2>3 DEF FeedInv, WalkInv, SeenTo
<1>5. CASE SendQuery
  <2>1. SameList /\ view'.offset = view.offset /\ walk' = walk /\ view'.pc = "count"
    BY <1>5, <1>a DEF SendQuery, FeedTypeOK, SameList, trackerVars, trackerTables
  <2>2. FeedList' = FeedList /\ FeedSize' = FeedSize
    BY <2>1, ListKeeps
  <2>3. FeedTypeOK'
    BY <1>5, <1>a DEF SendQuery, FeedTypeOK
  <2> QED
    BY <1>a, <2>1, <2>2, <2>3 DEF FeedInv, WalkInv, SeenTo
<1>6. ASSUME NEW offset \in Nat, Turn(offset), offset <= view.offset + PageSize
      PROVE  FeedInv'
  <2>1. /\ SameList /\ view'.offset = offset /\ view'.pc = "debounce"
        /\ walk'.seen = walk.seen /\ walk'.still = (walk.still /\ view.pc = "ready")
    BY <1>6, <1>a DEF Turn, FeedTypeOK, SameList, trackerVars, trackerTables
  <2>2. FeedList' = FeedList /\ FeedSize' = FeedSize
    BY <2>1, ListKeeps
  <2>3. FeedTypeOK'
    BY <1>6, <1>a DEF Turn, FeedTypeOK
  <2>4. walk'.still => SeenTo(view.offset + PageSize)
    BY <1>a, <2>1 DEF WalkInv
  <2>5. view.offset \in Nat
    BY <1>a DEF FeedTypeOK
  <2>6. walk'.still => SeenTo(view.offset)'
    BY <1>6, <1>b, <1>c, <2>1, <2>2, <2>4, <2>5 DEF SeenTo
  <2> QED
    BY <2>1, <2>3, <2>6 DEF FeedInv, WalkInv
<1>7. CASE NextPage \/ PreviousPage
  <2>1. view.offset \in Nat
    BY <1>a DEF FeedTypeOK
  <2> QED
    BY <1>6, <1>7, <1>b, <2>1 DEF NextPage, PreviousPage
<1>8. ASSUME NEW q \in Queries, SetFilter(q) PROVE FeedInv'
  <2>1. view'.offset = 0 /\ view'.pc = "debounce"
    BY <1>8, <1>a DEF SetFilter, FeedTypeOK
  <2>2. FeedTypeOK'
    <3>1. <<>> \in Seq(Rows) /\ {} \subseteq Listed
      OBVIOUS
    <3> QED
      BY <1>8, <1>a, <3>1 DEF SetFilter, FeedTypeOK
  <2>3. FeedSize' \in Nat
    <3>1. Matching' \subseteq Rows
      BY DEF Matching, Visible
    <3> QED
      BY <3>1, RowsAreFinite DEF FeedSize
  <2> QED
    BY <2>1, <2>2, <2>3 DEF FeedInv, WalkInv, SeenTo
<1>9. ASSUME NEW r \in Requests, JobStateStepSeen(r) PROVE FeedInv'
  <2>1. /\ view'.signedIn = view.signedIn /\ view'.query = view.query
        /\ view'.offset = view.offset /\ view'.pc = view.pc /\ view'.counted = view.counted
        /\ view'.total = view.total /\ view'.rows = view.rows
        /\ walk'.seen = walk.seen
        /\ walk'.still = (walk.still /\ \A row \in Rows :
             jobStates'[row.key].dismissed = jobStates[row.key].dismissed)
    BY <1>9, <1>a DEF JobStateStepSeen, FeedTypeOK
  <2>2. FeedTypeOK'
    <3>1. walk' \in [seen : SUBSET Listed, still : BOOLEAN]
      BY <1>9, <1>a DEF JobStateStepSeen, FeedTypeOK
    <3>2. view' = view \/ view' = [view EXCEPT !.cards = {c \in view.cards : c.card.key # Job(r)}]
      BY <1>9 DEF JobStateStepSeen
    <3>3. {c \in view.cards : c.card.key # Job(r)} \subseteq Cards
      BY <1>a DEF FeedTypeOK
    <3> QED
      BY <1>a, <3>1, <3>2, <3>3 DEF FeedTypeOK
  <2>3. walk'.still => FeedList' = FeedList /\ FeedSize' = FeedSize
    BY <2>1, ListKept
  <2>4. ValidateJobQuery(view.query)' <=> ValidateJobQuery(view.query)
    BY <2>1 DEF ValidateJobQuery
  <2>5. WalkInv'
    <3> SUFFICES ASSUME walk'.still PROVE WalkInv'
      BY DEF WalkInv
    <3>1. walk.still /\ FeedList' = FeedList /\ FeedSize' = FeedSize
      BY <2>1, <2>3
    <3>2. SeenTo(view.offset)' <=> SeenTo(view.offset)
      BY <2>1, <3>1 DEF SeenTo
    <3>3. SeenTo(view.offset + PageSize)' <=> SeenTo(view.offset + PageSize)
      BY <2>1, <3>1 DEF SeenTo
    <3> QED
      BY <1>a, <2>1, <3>1, <3>2, <3>3 DEF WalkInv
  <2> QED
    BY <2>1, <2>2, <2>4, <2>5 DEF FeedInv
<1>10. CASE UNCHANGED <<view, walk, jobStates>>
  <2>1. SameList
    BY <1>10 DEF SameList
  <2>2. FeedList' = FeedList /\ FeedSize' = FeedSize
    BY <2>1, ListKeeps
  <2> QED
    BY <1>a, <1>10, <2>2 DEF FeedInv, FeedTypeOK, WalkInv, SeenTo, ValidateJobQuery
<1>11. ASSUME NEW r \in Requests, NEW op, NEW j, AskJobState(r, op, j) PROVE FeedInv'
  BY <1>10, <1>11 DEF AskJobState, AskTracker, feedTables, trackerTables
<1>12. CASE UNCHANGED feedVars
  BY <1>10, <1>12 DEF feedVars, feedTables, trackerVars, trackerTables
<1> QED
  BY <1>1, <1>2, <1>3, <1>4, <1>5, <1>7, <1>8, <1>9, <1>11, <1>12 DEF FeedNext

\* The page and the walk of a reader keep their types, whatever the jobs, the filters, the
\* page size and the calls that fail; every score on a card is a percentage.
THEOREM FeedIsTyped == FeedSpec => []FeedTypeOK
<1>1. FeedInv => FeedTypeOK
  BY DEF FeedInv
<1> QED
  BY <1>1, FeedInitInv, FeedStep, PTL DEF FeedSpec

\* A reader who turned every page of a feed that nothing moved under has seen every job that
\* matches, for every number of jobs and every page size: no page skips a job that the next
\* one does not list either, though the count and the page are read apart.
THEOREM PagesCover == FeedSpec => []PagesCoverFeed
<1>1. FeedInv => PagesCoverFeed
  <2> SUFFICES ASSUME FeedInv, view.pc = "ready", walk.still, view.offset + PageSize >= view.total,
                      NEW row \in Matching
               PROVE  row.key \in walk.seen
    BY DEF PagesCoverFeed
  <2>1. PICK i \in 1 .. FeedSize : FeedList[i] = row
    BY ListIs
  <2>2. view.total = FeedSize /\ SeenTo(view.offset + PageSize)
    BY DEF FeedInv, WalkInv
  <2>3. FeedSize \in Nat /\ view.offset \in Nat /\ PageSize \in Int
    BY ListIs, FeedAssumption DEF FeedInv, FeedTypeOK
  <2> QED
    BY <2>1, <2>2, <2>3 DEF SeenTo
<1> QED
  BY <1>1, FeedInitInv, FeedStep, PTL DEF FeedSpec
=============================================================================
