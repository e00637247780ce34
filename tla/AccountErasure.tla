--------------------------- MODULE AccountErasure ----------------------------
(***************************************************************************)
(* Uploads of CVs, parses and the erasure of one account, as concurrent    *)
(* requests to the Go backend on Postgres and the object store             *)
(* (internal/cv, internal/account).                                        *)
(*                                                                         *)
(* A CV is a blob in the object store and a row in cv_files; no            *)
(* transaction spans the two.  Every table of the account references its   *)
(* row in users and is emptied with it (ON DELETE CASCADE).  A call to     *)
(* either store may fail before or after it took effect, and the server    *)
(* may stop between any two calls.                                         *)
(***************************************************************************)
EXTENDS Naturals

CONSTANTS
  Uploads,      \* upload requests; each names the object key it creates
  Parses,       \* requests to parse a CV into the profile
  Erasures,     \* requests to delete the account
  MaxFailures,  \* bound: failed calls
  MaxCrashes    \* bound: stops of the server

Nobody == "nobody"

ASSUME AccountErasureAssumption ==
  /\ MaxFailures \in Nat /\ MaxCrashes \in Nat
  /\ Uploads \cap Parses = {} /\ Uploads \cap Erasures = {} /\ Parses \cap Erasures = {}
  /\ Nobody \notin Erasures

VARIABLES
  account,    \* the users row exists
  rows,       \* keys with a row in cv_files
  blobs,      \* keys with an object in the store
  records,    \* the other tables that hold data of the account
  pc,         \* the next call of each request
  keys,       \* the keys a request works on
  answer,     \* what each request was answered
  failed,     \* history: requests one of whose calls failed
  overlapped, \* history: uploads under way while an erasure was
  eraser,     \* history: the request that deleted the users row
  failures, crashes

stores == <<account, rows, blobs, records>>
requests == <<pc, keys, answer>>
history == <<failed, overlapped, eraser>>
bounds == <<failures, crashes>>
vars == <<stores, requests, history, bounds>>

Requests == Uploads \cup Parses \cup Erasures

First(r) == CASE r \in Uploads -> "put" [] r \in Parses -> "find" [] OTHER -> "list"

Running(r) == pc[r] \notin {"idle", "done"}
\* The erasure has read which CVs there are and has not ended.
Erasing(e) == Running(e) /\ pc[e] # "list"

-----------------------------------------------------------------------------
(* Calls and their failures. *)

Answers(r, a) ==
  /\ pc' = [pc EXCEPT ![r] = "done"]
  /\ answer' = [answer EXCEPT ![r] = a]

Fails(r) ==
  /\ failures < MaxFailures
  /\ failures' = failures + 1
  /\ failed' = failed \cup {r}
  /\ Answers(r, "error")

\* The call has taken effect; its caller goes on, or has lost the reply.
Goes(r, next) ==
  /\ \/ /\ pc' = [pc EXCEPT ![r] = next]
        /\ UNCHANGED <<answer, failed, failures>>
     \/ Fails(r)
  /\ UNCHANGED crashes

Ends(r) ==
  /\ \/ Answers(r, "ok") /\ UNCHANGED <<failed, failures>>
     \/ Fails(r)
  /\ UNCHANGED crashes

\* A call fails without effect, and its handler returns an error.
CallFails(r) ==
  /\ Running(r) /\ pc[r] # "create"
  /\ Fails(r)
  /\ UNCHANGED <<stores, keys, overlapped, eraser, crashes>>

\* The server stops with every request it was serving.
Crash ==
  /\ crashes < MaxCrashes
  /\ crashes' = crashes + 1
  /\ failed' = failed \cup {r \in Requests : Running(r)}
  /\ pc' = [r \in Requests |-> IF Running(r) THEN "done" ELSE pc[r]]
  /\ UNCHANGED <<stores, keys, answer, overlapped, eraser, failures>>

\* RequireVerified lets the request of an existing user through.
Start(r, k) ==
  /\ pc[r] = "idle" /\ account
  /\ pc' = [pc EXCEPT ![r] = First(r)]
  /\ keys' = [keys EXCEPT ![r] = IF r \in Parses THEN {k} ELSE @]
  /\ overlapped' = IF r \in Uploads /\ \E e \in Erasures : Erasing(e)
                   THEN overlapped \cup {r} ELSE overlapped
  /\ UNCHANGED <<stores, answer, failed, eraser, bounds>>

-----------------------------------------------------------------------------
(* handleUpload *)

\* Mutant of PutBlob: the row is written with the blob still to come.
PutBlobLast(k) ==
  /\ pc[k] = "put"
  /\ rows' = rows \cup {k}
  /\ Goes(k, "create")
  /\ UNCHANGED <<account, blobs, records, keys, overlapped, eraser>>

PutBlob(k) ==
  /\ pc[k] = "put"
  /\ blobs' = blobs \cup {k}
  /\ Goes(k, "create")
  /\ UNCHANGED <<account, rows, records, keys, overlapped, eraser>>

CreateFile(k) ==
  /\ pc[k] = "create" /\ account
  /\ rows' = rows \cup {k}
  /\ Answers(k, "ok")
  /\ UNCHANGED <<account, blobs, records, keys, history, bounds>>

\* The insert fails (always, once the account is gone), or its reply is lost; the
\* handler then tries to delete the blob, on the same request context.
CreateFileFails(k) ==
  /\ pc[k] = "create"
  /\ \/ ~account /\ Answers(k, "error") /\ UNCHANGED <<rows, failed, failures>>
     \/ Fails(k) /\ rows' \in {rows} \cup (IF account THEN {rows \cup {k}} ELSE {})
  /\ blobs' \in {blobs, blobs \ {k}}
  /\ UNCHANGED <<account, records, keys, overlapped, eraser, crashes>>

-----------------------------------------------------------------------------
(* handleDelete, with DeleteUserFiles first *)

\* Mutant of ListFiles: the rows go first, then the objects they named.
ListFilesAndDeleteRows(e) ==
  /\ pc[e] = "list"
  /\ keys' = [keys EXCEPT ![e] = rows]
  /\ rows' = {}
  /\ overlapped' = overlapped \cup {k \in Uploads : Running(k)}
  /\ Goes(e, "blobs")
  /\ UNCHANGED <<account, blobs, records, eraser>>

ListFiles(e) ==
  /\ pc[e] = "list"
  /\ keys' = [keys EXCEPT ![e] = rows]
  /\ overlapped' = overlapped \cup {k \in Uploads : Running(k)}
  /\ Goes(e, "blobs")
  /\ UNCHANGED <<stores, eraser>>

\* Mutant of DeleteBlob: a missing object is an error.
DeleteBlobStrictly(e, k) ==
  /\ pc[e] = "blobs" /\ k \in keys[e]
  /\ keys' = [keys EXCEPT ![e] = @ \ {k}]
  /\ blobs' = blobs \ {k}
  /\ IF k \in blobs THEN Goes(e, "blobs")
     ELSE Answers(e, "error") /\ UNCHANGED <<failed, bounds>>
  /\ UNCHANGED <<account, rows, records, overlapped, eraser>>

\* Deleting an object that is not there succeeds.
DeleteBlob(e, k) ==
  /\ pc[e] = "blobs" /\ k \in keys[e]
  /\ keys' = [keys EXCEPT ![e] = @ \ {k}]
  /\ blobs' = blobs \ {k}
  /\ Goes(e, "blobs")
  /\ UNCHANGED <<account, rows, records, overlapped, eraser>>

DeleteRows(e) ==
  /\ pc[e] = "blobs" /\ keys[e] = {}
  /\ rows' = {}
  /\ Goes(e, "profile")
  /\ UNCHANGED <<account, blobs, records, keys, overlapped, eraser>>

DeleteProfile(e) ==
  /\ pc[e] = "profile"
  /\ records' = records \ {"profile"}
  /\ Goes(e, "m5")
  /\ UNCHANGED <<account, rows, blobs, keys, overlapped, eraser>>

\* Applications, job states, snippets and filters.
DeleteM5(e) ==
  /\ pc[e] = "m5"
  /\ records' = records \ {"m5"}
  /\ Goes(e, "user")
  /\ UNCHANGED <<account, rows, blobs, keys, overlapped, eraser>>

\* The users row goes last, and every row that references it goes with it.
DeleteUser(e) ==
  /\ pc[e] = "user" /\ account
  /\ account' = FALSE
  /\ rows' = {} /\ records' = {}
  /\ eraser' = e
  /\ Ends(e)
  /\ UNCHANGED <<blobs, keys, overlapped>>

\* ErrNotFound: no row was deleted.
DeleteUserMisses(e) ==
  /\ pc[e] = "user" /\ ~account
  /\ Answers(e, "error")
  /\ UNCHANGED <<stores, keys, history, bounds>>

-----------------------------------------------------------------------------
(* handleParse, and other writes of the account's data *)

FindFile(p) ==
  /\ pc[p] = "find"
  /\ IF keys[p] \subseteq rows
     THEN pc' = [pc EXCEPT ![p] = "get"] /\ UNCHANGED answer
     ELSE Answers(p, "error")
  /\ UNCHANGED <<stores, keys, history, bounds>>

GetBlob(p) ==
  /\ pc[p] = "get"
  /\ IF keys[p] \subseteq blobs
     THEN pc' = [pc EXCEPT ![p] = "save"] /\ UNCHANGED answer
     ELSE Answers(p, "error")
  /\ UNCHANGED <<stores, keys, history, bounds>>

\* Mutant of SaveProfile: profiles does not reference users.
SaveProfileUnreferenced(p) ==
  /\ pc[p] = "save"
  /\ records' = records \cup {"profile"}
  /\ Ends(p)
  /\ UNCHANGED <<account, rows, blobs, keys, overlapped, eraser>>

\* ApplyParsedCV writes the whole row; the insert needs the users row.
SaveProfile(p) ==
  /\ pc[p] = "save"
  /\ IF account THEN records' = records \cup {"profile"} /\ Ends(p)
     ELSE Answers(p, "error") /\ UNCHANGED <<records, failed, bounds>>
  /\ UNCHANGED <<account, rows, blobs, keys, overlapped, eraser>>

\* An application, a job state, a snippet or a filter is written.
WriteM5 ==
  /\ account
  /\ records' = records \cup {"m5"}
  /\ UNCHANGED <<account, rows, blobs, requests, history, bounds>>

-----------------------------------------------------------------------------
Init ==
  /\ account = TRUE /\ rows = {} /\ blobs = {} /\ records = {}
  /\ pc = [r \in Requests |-> "idle"]
  /\ keys = [r \in Requests |-> {}]
  /\ answer = [r \in Requests |-> "none"]
  /\ failed = {} /\ overlapped = {} /\ eraser = Nobody
  /\ failures = 0 /\ crashes = 0

Next ==
  \/ \E r \in Requests, k \in Uploads : Start(r, k)
  \/ \E r \in Requests : CallFails(r)
  \/ Crash
  \/ \E k \in Uploads : PutBlob(k) \/ CreateFile(k) \/ CreateFileFails(k)
  \/ \E e \in Erasures : ListFiles(e) \/ DeleteRows(e) \/ DeleteProfile(e) \/ DeleteM5(e)
                         \/ DeleteUser(e) \/ DeleteUserMisses(e)
  \/ \E e \in Erasures, k \in Uploads : DeleteBlob(e, k)
  \/ \E p \in Parses : FindFile(p) \/ GetBlob(p) \/ SaveProfile(p)
  \/ WriteM5

Spec == Init /\ [][Next]_vars
-----------------------------------------------------------------------------
Steps == {"idle", "put", "create", "find", "get", "save", "list", "blobs", "profile",
          "m5", "user", "done"}

TypeOK ==
  /\ account \in BOOLEAN
  /\ rows \subseteq Uploads /\ blobs \subseteq Uploads
  /\ records \subseteq {"profile", "m5"}
  /\ pc \in [Requests -> Steps]
  /\ keys \in [Requests -> SUBSET Uploads]
  /\ answer \in [Requests -> {"none", "ok", "error"}]
  /\ failed \subseteq Requests /\ overlapped \subseteq Uploads
  /\ eraser \in Erasures \cup {Nobody}

\* "Objects are removed before metadata so a mid-way failure never orphans a stored
\* blob" (cv/service.go): the blob of an upload that succeeded is listed as long as it
\* exists, wherever erasures fail, provided none of them overlapped the upload.
StoredBlobIsListed ==
  \A k \in blobs : answer[k] = "ok" /\ k \notin overlapped => k \in rows

\* A CV the user was told is uploaded can be read, parsed and filled in until an
\* erasure has begun, also when other uploads, parses or the server fail.
ListedCvIsStored ==
  \A k \in rows : (\A e \in Erasures : pc[e] = "idle") /\ k \notin failed => k \in blobs

\* An erasure may be repeated: it answers an error only after a failure of its own, or
\* because another one has deleted the account, whatever earlier ones left behind.
ErasureErrsWithCause ==
  \A e \in Erasures : answer[e] = "error" => e \in failed \/ eraser \notin {e, Nobody}

\* Once an erasure is answered 204 no table holds anything of the account, and no
\* upload, parse or write that is still under way brings anything back.
ErasedIsGone ==
  (\E e \in Erasures : answer[e] = "ok") => ~account /\ rows = {} /\ records = {}

\* "The account row is deleted last so nothing is orphaned" (account/service.go): no
\* object of a successful upload outlives the account.
NoBlobOutlivesAccount == ~account => \A k \in blobs : answer[k] # "ok"
=============================================================================
