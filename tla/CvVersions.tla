------------------------------- MODULE CvVersions -------------------------------
(***************************************************************************)
(* The versions of a user's CV and the primary one among them              *)
(* (internal/cv: handleUpload after its Put, handleUpdateVersion, Content; *)
(* pgxrepo.go).  A partial unique index admits one primary row for each    *)
(* user (migration 0010).  The objects of the CVs are in AccountErasure.   *)
(***************************************************************************)
EXTENDS Requests

CONSTANT Files   \* rows that uploads can create

ASSUME VersionsAssumption == None \notin {"upload", "content", "erase", "set", "clear", "label"}

VARIABLES
  files,    \* rows in cv_files
  primary   \* those with is_primary

versionTables == <<files, primary>>
versionVars == <<requestVars, versionTables>>

\* What an update may ask of is_primary: set it, clear it or only a new label.
UpdateOps == {"set", "clear", "label"}

File(r) == req[r].key

AskUpload(r, f) ==
  /\ f \notin files /\ \A other \in Requests : req[other].op = "upload" => File(other) # f
  /\ Begin(r, "upload", f, "snapshot")
  /\ UNCHANGED versionTables

\* The web shows only the files of the user; a file may have been erased since.
AskUpdate(r, op, f) ==
  /\ Begin(r, op, f, "owned")
  /\ UNCHANGED versionTables

\* Content of one CV for a fill or a parse.
AskContent(r, f) ==
  /\ Begin(r, "content", f, "owned")
  /\ UNCHANGED versionTables

VersionCallFails(r) == CallFails(r) /\ UNCHANGED versionTables

-----------------------------------------------------------------------------
(* CreateFile: one statement, whose NOT EXISTS sees the rows committed before *)

\* Mutant of FirstFile: only what the caller asks for is primary.
FirstFileNever == FALSE

FirstFile == files = {}

SnapshotFiles(r) ==
  /\ req[r].pc = "snapshot"
  /\ Goes(r, "insert", FirstFile)
  /\ UNCHANGED <<failures, versionTables>>

InsertFile(r) ==
  /\ req[r].pc = "insert"
  /\ req[r].seen => primary = {}
  /\ files' = files \cup {File(r)}
  /\ primary' = IF req[r].seen THEN primary \cup {File(r)} ELSE primary
  /\ Ends(r)

\* The unique index refuses a second primary row.
RefuseSecondPrimary(r) ==
  /\ \/ req[r].pc = "insert" /\ req[r].seen
     \/ req[r].pc = "set" /\ req[r].op = "set" /\ File(r) \in files
  /\ primary \ {File(r)} # {}
  /\ Answers(r, "refused")
  /\ UNCHANGED <<failures, versionTables>>

-----------------------------------------------------------------------------
(* UpdateVersion: three statements without a transaction *)

CheckOwned(r) ==
  /\ req[r].pc = "owned"
  /\ IF File(r) \notin files THEN Answers(r, "not_found")
     ELSE IF req[r].op = "content" THEN Goes(r, "object", None)
     ELSE Goes(r, IF req[r].op = "set" THEN "unset" ELSE "set", None)
  /\ UNCHANGED <<failures, versionTables>>

ReadObject(r) ==
  /\ req[r].pc = "object"
  /\ Answers(r, "ok")
  /\ UNCHANGED <<failures, versionTables>>

ClearPrimary(r) ==
  /\ req[r].pc = "unset"
  /\ primary' = {}
  /\ Done(r, "set")
  /\ UNCHANGED files

SetVersion(r) ==
  /\ req[r].pc = "set" /\ File(r) \in files
  /\ req[r].op = "set" => primary \subseteq {File(r)}
  /\ primary' = CASE req[r].op = "set"   -> {File(r)}
                  [] req[r].op = "clear" -> primary \ {File(r)}
                  [] OTHER               -> primary
  /\ Ends(r)
  /\ UNCHANGED files

SetVersionGone(r) ==
  /\ req[r].pc = "set" /\ File(r) \notin files
  /\ Answers(r, "not_found")
  /\ UNCHANGED <<failures, versionTables>>

\* An erasure deletes every row of the user (DeleteByUser).
DeleteByUser(r) ==
  /\ req[r].pc = "idle"
  /\ req' = [req EXCEPT ![r] =
                [op |-> "erase", key |-> None, pc |-> "done", seen |-> None, answer |-> "ok"]]
  /\ files' = {} /\ primary' = {}
  /\ UNCHANGED failures

-----------------------------------------------------------------------------

VersionTablesInit == files = {} /\ primary = {}

VersionsInit ==
  /\ req = [r \in Requests |-> Idle] /\ failures = 0
  /\ VersionTablesInit

VersionStep(r) ==
  \/ SnapshotFiles(r) \/ InsertFile(r) \/ RefuseSecondPrimary(r)
  \/ CheckOwned(r) \/ ReadObject(r) \/ ClearPrimary(r) \/ SetVersion(r) \/ SetVersionGone(r)
  \/ VersionCallFails(r) \/ DeleteByUser(r)

VersionsNext ==
  \E r \in Requests :
    \/ \E f \in Files : \/ AskUpload(r, f)
                        \/ \E op \in UpdateOps : AskUpdate(r, op, f)
                        \/ AskContent(r, f)
    \/ VersionStep(r)

VersionsSpec == VersionsInit /\ [][VersionsNext]_versionVars

-----------------------------------------------------------------------------
(* Properties *)

VersionOps == {"upload", "content", "erase"} \cup UpdateOps
VersionCalls == {"snapshot", "insert", "owned", "object", "unset", "set"}
VersionRefusals == {"refused", "not_found"}
VersionRequest == RequestRecords(VersionOps, Files, VersionCalls, BOOLEAN, VersionRefusals)
VersionsTypeOK ==
  /\ req \in [Requests -> VersionRequest] /\ failures \in Nat
  /\ files \subseteq Files
  /\ primary \subseteq files
  /\ \A f, g \in primary : f = g

\* While a user has CVs one of them is primary, unless an update has cleared it or
\* is under way or has failed between its statements (cv/pgxrepo.go:101), or CVs
\* were erased meanwhile: neither two first uploads nor two updates that overlap
\* leave the user without one.
FilesHavePrimary ==
  files # {} /\ primary = {}
    => \E r \in Requests : \/ req[r].op = "clear" \/ req[r].op = "erase"
                           \/ req[r].op = "set" /\ (Running(r) \/ req[r].answer = "error")
=============================================================================
