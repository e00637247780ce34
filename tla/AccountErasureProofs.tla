------------------------ MODULE AccountErasureProofs -------------------------
(***************************************************************************)
(* The safety properties of AccountErasure, for any number of uploads,     *)
(* parses, erasures, failures and stops of the server.                     *)
(***************************************************************************)
EXTENDS AccountErasure, TLAPS

\* A request is answered when it is done, and a row is the last thing an upload writes.
Protocol ==
  /\ \A r \in Requests : pc[r] # "done" => answer[r] = "none"
  /\ \A r \in Requests : pc[r] # "idle" /\ r \in Erasures =>
       pc[r] \in {"list", "blobs", "profile", "m5", "user", "done"}
  /\ \A r \in Uploads : pc[r] \in {"idle", "put", "create", "done"}
  /\ \A k \in rows : pc[k] = "done"

\* The objects an erasure has still to delete.
Left(e) == IF pc[e] = "blobs" THEN keys[e] ELSE {}

\* What an erasure will not delete, an upload it overlaps has brought.
Cover ==
  \A e \in Erasures : Erasing(e) =>
    /\ \A k \in Uploads : Running(k) => k \in overlapped
    /\ \A k \in rows \cap blobs : k \in overlapped \cup Left(e)

\* The account goes with its eraser, and all its rows with it.
Gone ==
  /\ account <=> eraser = Nobody
  /\ ~account => rows = {} /\ records = {}
  /\ \A e \in Erasures : answer[e] = "ok" => ~account
  /\ \A e \in Erasures : eraser = e => pc[e] = "done"

\* Before any erasure, an upload that is about to write its row has its object.
Uploaded ==
  (\A e \in Erasures : pc[e] = "idle") =>
    \A k \in Uploads : pc[k] = "create" => k \in blobs

Inv ==
  /\ TypeOK /\ Protocol /\ Cover /\ Gone /\ Uploaded
  /\ StoredBlobIsListed /\ ListedCvIsStored /\ ErasureErrsWithCause

-----------------------------------------------------------------------------
(* Facts about requests. *)

\* A request is of one kind.
LEMMA Kinds ==
  /\ \A k \in Uploads : k \in Requests /\ k \notin Erasures /\ k \notin Parses
  /\ \A e \in Erasures : e \in Requests /\ e \notin Uploads /\ e \notin Parses
  /\ \A p \in Parses : p \in Requests /\ p \notin Uploads /\ p \notin Erasures
  /\ Nobody \notin Erasures
  BY AccountErasureAssumption DEF Requests

\* The invariant holds when no request has been made.
LEMMA InitInv == Init => Inv
  BY Kinds DEF Init, Inv, TypeOK, Protocol, Cover, Gone, Uploaded, StoredBlobIsListed,
    ListedCvIsStored, ErasureErrsWithCause, Erasing, Running, Steps, Requests

-----------------------------------------------------------------------------
(* One lemma per conjunct, one step per action. *)

\* Every step keeps the types.
LEMMA TypeStep == TypeOK /\ [Next]_vars => TypeOK'
<1> SUFFICES ASSUME TypeOK, [Next]_vars PROVE TypeOK'
  OBVIOUS
<1> USE Kinds DEF TypeOK, Steps
<1>1. ASSUME NEW r \in Requests, NEW k \in Uploads, Start(r, k) PROVE TypeOK'
  BY <1>1 DEF Start, First, bounds, stores
<1>2. ASSUME NEW r \in Requests, CallFails(r) PROVE TypeOK'
  BY <1>2 DEF CallFails, Fails, Answers, stores
<1>3. CASE Crash
  BY <1>3 DEF Crash, stores, Running
<1>4. ASSUME NEW k \in Uploads, PutBlob(k) PROVE TypeOK'
  BY <1>4 DEF PutBlob, Goes, Fails, Answers
<1>5. ASSUME NEW k \in Uploads, CreateFile(k) PROVE TypeOK'
  BY <1>5 DEF CreateFile, Answers, history, bounds
<1>6. ASSUME NEW k \in Uploads, CreateFileFails(k) PROVE TypeOK'
  BY <1>6 DEF CreateFileFails, Fails, Answers
<1>7. ASSUME NEW e \in Erasures, ListFiles(e) PROVE TypeOK'
  BY <1>7 DEF ListFiles, Goes, Fails, Answers, stores
<1>8. ASSUME NEW e \in Erasures, NEW k \in Uploads, DeleteBlob(e, k) PROVE TypeOK'
  BY <1>8 DEF DeleteBlob, Goes, Fails, Answers
<1>9. ASSUME NEW e \in Erasures, DeleteRows(e) PROVE TypeOK'
  BY <1>9 DEF DeleteRows, Goes, Fails, Answers
<1>10. ASSUME NEW e \in Erasures, DeleteProfile(e) PROVE TypeOK'
  BY <1>10 DEF DeleteProfile, Goes, Fails, Answers
<1>11. ASSUME NEW e \in Erasures, DeleteM5(e) PROVE TypeOK'
  BY <1>11 DEF DeleteM5, Goes, Fails, Answers
<1>12. ASSUME NEW e \in Erasures, DeleteUser(e) PROVE TypeOK'
  <2>1. account' \in BOOLEAN
    BY <1>12 DEF DeleteUser
  <2>2. UNCHANGED <<blobs, keys, overlapped>> /\ rows' = {} /\ records' = {} /\ eraser' = e
    BY <1>12 DEF DeleteUser
  <2>3. /\ pc' \in [Requests -> Steps]
        /\ answer' \in [Requests -> {"none", "ok", "error"}]
        /\ failed' \subseteq Requests
    BY <1>12 DEF DeleteUser, Ends, Fails, Answers
  <2> QED
    BY <2>1, <2>2, <2>3
<1>13. ASSUME NEW e \in Erasures, DeleteUserMisses(e) PROVE TypeOK'
  BY <1>13 DEF DeleteUserMisses, Answers, stores, history
<1>14. ASSUME NEW p \in Parses, FindFile(p) PROVE TypeOK'
  BY <1>14 DEF FindFile, Answers, stores, history
<1>15. ASSUME NEW p \in Parses, GetBlob(p) PROVE TypeOK'
  BY <1>15 DEF GetBlob, Answers, stores, history
<1>16. ASSUME NEW p \in Parses, SaveProfile(p) PROVE TypeOK'
  <2>1. UNCHANGED <<account, rows, blobs, keys, overlapped, eraser>>
    BY <1>16 DEF SaveProfile
  <2>2. /\ pc' \in [Requests -> Steps]
        /\ answer' \in [Requests -> {"none", "ok", "error"}]
        /\ failed' \subseteq Requests
        /\ records' \subseteq {"profile", "m5"}
    <3>1. CASE account
      <4>1. Ends(p) /\ records' = records \cup {"profile"}
        BY <1>16, <3>1 DEF SaveProfile
      <4>2. failed' \in {failed, failed \cup {p}}
        BY <4>1 DEF Ends, Fails
      <4>3. \E a \in {"ok", "error"} : Answers(p, a)
        BY <4>1 DEF Ends, Fails
      <4> QED
        BY <4>1, <4>2, <4>3 DEF Answers
    <3>2. CASE ~account
      BY <1>16, <3>2 DEF SaveProfile, Answers
    <3> QED
      BY <3>1, <3>2
  <2> QED
    BY <2>1, <2>2
<1>17. CASE WriteM5
  BY <1>17 DEF WriteM5, requests, history
<1>18. CASE UNCHANGED vars
  BY <1>18 DEF vars, stores, requests, history
<1> QED
  BY <1>1, <1>2, <1>3, <1>4, <1>5, <1>6, <1>7, <1>8, <1>9, <1>10, <1>11, <1>12, <1>13,
    <1>14, <1>15, <1>16, <1>17, <1>18 DEF Next

\* Requests are answered when they are done, and a row is written last.
LEMMA ProtocolStep == TypeOK /\ Protocol /\ [Next]_vars => Protocol'
<1> SUFFICES ASSUME TypeOK, Protocol, [Next]_vars PROVE Protocol'
  OBVIOUS
<1> USE Kinds DEF TypeOK, Protocol
<1>1. ASSUME NEW r \in Requests, NEW k \in Uploads, Start(r, k) PROVE Protocol'
  BY <1>1 DEF Start, First, stores, Requests
<1>2. ASSUME NEW r \in Requests, CallFails(r) PROVE Protocol'
  BY <1>2 DEF CallFails, Fails, Answers, stores
<1>3. CASE Crash
  BY <1>3 DEF Crash, stores, Running
<1>4. ASSUME NEW k \in Uploads, PutBlob(k) PROVE Protocol'
  BY <1>4 DEF PutBlob, Goes, Fails, Answers
<1>5. ASSUME NEW k \in Uploads, CreateFile(k) PROVE Protocol'
  BY <1>5 DEF CreateFile, Answers
<1>6. ASSUME NEW k \in Uploads, CreateFileFails(k) PROVE Protocol'
  BY <1>6 DEF CreateFileFails, Fails, Answers
<1>7. ASSUME NEW e \in Erasures, ListFiles(e) PROVE Protocol'
  BY <1>7 DEF ListFiles, Goes, Fails, Answers, stores
<1>8. ASSUME NEW e \in Erasures, NEW k \in Uploads, DeleteBlob(e, k) PROVE Protocol'
  BY <1>8 DEF DeleteBlob, Goes, Fails, Answers
<1>9. ASSUME NEW e \in Erasures, DeleteRows(e) PROVE Protocol'
  BY <1>9 DEF DeleteRows, Goes, Fails, Answers
<1>10. ASSUME NEW e \in Erasures, DeleteProfile(e) PROVE Protocol'
  BY <1>10 DEF DeleteProfile, Goes, Fails, Answers
<1>11. ASSUME NEW e \in Erasures, DeleteM5(e) PROVE Protocol'
  BY <1>11 DEF DeleteM5, Goes, Fails, Answers
<1>12. ASSUME NEW e \in Erasures, DeleteUser(e) PROVE Protocol'
  BY <1>12 DEF DeleteUser, Ends, Fails, Answers
<1>13. ASSUME NEW e \in Erasures, DeleteUserMisses(e) PROVE Protocol'
  BY <1>13 DEF DeleteUserMisses, Answers, stores
<1>14. ASSUME NEW p \in Parses, FindFile(p) PROVE Protocol'
  BY <1>14 DEF FindFile, Answers, stores
<1>15. ASSUME NEW p \in Parses, GetBlob(p) PROVE Protocol'
  BY <1>15 DEF GetBlob, Answers, stores
<1>16. ASSUME NEW p \in Parses, SaveProfile(p) PROVE Protocol'
  BY <1>16 DEF SaveProfile, Ends, Fails, Answers
<1>17. CASE WriteM5
  BY <1>17 DEF WriteM5, requests
<1>18. CASE UNCHANGED vars
  BY <1>18 DEF vars, stores, requests
<1> QED
  BY <1>1, <1>2, <1>3, <1>4, <1>5, <1>6, <1>7, <1>8, <1>9, <1>10, <1>11, <1>12, <1>13,
    <1>14, <1>15, <1>16, <1>17, <1>18 DEF Next
\* An upload that starts or runs beside an erasure counts as overlapped; an
\* object leaves Left(e) only by being deleted.
LEMMA CoverStep == Inv /\ [Next]_vars => Cover'
<1> SUFFICES ASSUME Inv, [Next]_vars PROVE Cover'
  OBVIOUS
<1> USE Kinds DEF Inv, TypeOK, Protocol, Cover, Left, Erasing, Running
<1>1. ASSUME NEW r \in Requests, NEW k \in Uploads, Start(r, k) PROVE Cover'
  BY <1>1 DEF Start, First, stores
<1>2. ASSUME NEW r \in Requests, CallFails(r) PROVE Cover'
  BY <1>2 DEF CallFails, Fails, Answers, stores
<1>3. CASE Crash
  BY <1>3 DEF Crash, stores
<1>4. ASSUME NEW k \in Uploads, PutBlob(k) PROVE Cover'
  BY <1>4 DEF PutBlob, Goes, Fails, Answers
<1>5. ASSUME NEW k \in Uploads, CreateFile(k) PROVE Cover'
  BY <1>5 DEF CreateFile, Answers, history
<1>6. ASSUME NEW k \in Uploads, CreateFileFails(k) PROVE Cover'
  BY <1>6 DEF CreateFileFails, Fails, Answers
<1>7. ASSUME NEW e \in Erasures, ListFiles(e) PROVE Cover'
  BY <1>7 DEF ListFiles, Goes, Fails, Answers, stores
<1>8. ASSUME NEW e \in Erasures, NEW k \in Uploads, DeleteBlob(e, k) PROVE Cover'
  BY <1>8 DEF DeleteBlob, Goes, Fails, Answers
<1>9. ASSUME NEW e \in Erasures, DeleteRows(e) PROVE Cover'
  BY <1>9 DEF DeleteRows, Goes, Fails, Answers
<1>10. ASSUME NEW e \in Erasures, DeleteProfile(e) PROVE Cover'
  BY <1>10 DEF DeleteProfile, Goes, Fails, Answers
<1>11. ASSUME NEW e \in Erasures, DeleteM5(e) PROVE Cover'
  BY <1>11 DEF DeleteM5, Goes, Fails, Answers
<1>12. ASSUME NEW e \in Erasures, DeleteUser(e) PROVE Cover'
  BY <1>12 DEF DeleteUser, Ends, Fails, Answers
<1>13. ASSUME NEW e \in Erasures, DeleteUserMisses(e) PROVE Cover'
  BY <1>13 DEF DeleteUserMisses, Answers, stores, history
<1>14. ASSUME NEW p \in Parses, FindFile(p) PROVE Cover'
  BY <1>14 DEF FindFile, Answers, stores, history
<1>15. ASSUME NEW p \in Parses, GetBlob(p) PROVE Cover'
  BY <1>15 DEF GetBlob, Answers, stores, history
<1>16. ASSUME NEW p \in Parses, SaveProfile(p) PROVE Cover'
  BY <1>16 DEF SaveProfile, Ends, Fails, Answers
<1>17. CASE WriteM5
  BY <1>17 DEF WriteM5, requests, history
<1>18. CASE UNCHANGED vars
  BY <1>18 DEF vars, stores, requests, history
<1> QED
  BY <1>1, <1>2, <1>3, <1>4, <1>5, <1>6, <1>7, <1>8, <1>9,
    <1>10, <1>11, <1>12, <1>13, <1>14, <1>15, <1>16, <1>17, <1>18 DEF Next

\* Only DeleteUser takes the account, with every row, and writes need the account.
LEMMA GoneStep == Inv /\ [Next]_vars => Gone'
<1> SUFFICES ASSUME Inv, [Next]_vars PROVE Gone'
  OBVIOUS
<1> USE Kinds DEF Inv, TypeOK, Protocol, Gone, Running
<1>1. ASSUME NEW r \in Requests, NEW k \in Uploads, Start(r, k) PROVE Gone'
  BY <1>1 DEF Start, First, stores
<1>2. ASSUME NEW r \in Requests, CallFails(r) PROVE Gone'
  BY <1>2 DEF CallFails, Fails, Answers, stores
<1>3. CASE Crash
  BY <1>3 DEF Crash, stores
<1>4. ASSUME NEW k \in Uploads, PutBlob(k) PROVE Gone'
  BY <1>4 DEF PutBlob, Goes, Fails, Answers
<1>5. ASSUME NEW k \in Uploads, CreateFile(k) PROVE Gone'
  BY <1>5 DEF CreateFile, Answers, history
<1>6. ASSUME NEW k \in Uploads, CreateFileFails(k) PROVE Gone'
  BY <1>6 DEF CreateFileFails, Fails, Answers
<1>7. ASSUME NEW e \in Erasures, ListFiles(e) PROVE Gone'
  BY <1>7 DEF ListFiles, Goes, Fails, Answers, stores
<1>8. ASSUME NEW e \in Erasures, NEW k \in Uploads, DeleteBlob(e, k) PROVE Gone'
  BY <1>8 DEF DeleteBlob, Goes, Fails, Answers
<1>9. ASSUME NEW e \in Erasures, DeleteRows(e) PROVE Gone'
  BY <1>9 DEF DeleteRows, Goes, Fails, Answers
<1>10. ASSUME NEW e \in Erasures, DeleteProfile(e) PROVE Gone'
  BY <1>10 DEF DeleteProfile, Goes, Fails, Answers
<1>11. ASSUME NEW e \in Erasures, DeleteM5(e) PROVE Gone'
  BY <1>11 DEF DeleteM5, Goes, Fails, Answers
<1>12. ASSUME NEW e \in Erasures, DeleteUser(e) PROVE Gone'
  BY <1>12 DEF DeleteUser, Ends, Fails, Answers
<1>13. ASSUME NEW e \in Erasures, DeleteUserMisses(e) PROVE Gone'
  BY <1>13 DEF DeleteUserMisses, Answers, stores, history
<1>14. ASSUME NEW p \in Parses, FindFile(p) PROVE Gone'
  BY <1>14 DEF FindFile, Answers, stores, history
<1>15. ASSUME NEW p \in Parses, GetBlob(p) PROVE Gone'
  BY <1>15 DEF GetBlob, Answers, stores, history
<1>16. ASSUME NEW p \in Parses, SaveProfile(p) PROVE Gone'
  BY <1>16 DEF SaveProfile, Ends, Fails, Answers
<1>17. CASE WriteM5
  BY <1>17 DEF WriteM5, requests, history
<1>18. CASE UNCHANGED vars
  BY <1>18 DEF vars, stores, requests, history
<1> QED
  BY <1>1, <1>2, <1>3, <1>4, <1>5, <1>6, <1>7, <1>8, <1>9,
    <1>10, <1>11, <1>12, <1>13, <1>14, <1>15, <1>16, <1>17, <1>18 DEF Next

\* Before any erasure, objects are deleted only by the uploads that made them.
LEMMA UploadedStep == Inv /\ [Next]_vars => Uploaded'
<1> SUFFICES ASSUME Inv, [Next]_vars PROVE Uploaded'
  OBVIOUS
<1> USE Kinds DEF Inv, TypeOK, Protocol, Uploaded, Running
<1>1. ASSUME NEW r \in Requests, NEW k \in Uploads, Start(r, k) PROVE Uploaded'
  BY <1>1 DEF Start, First, stores
<1>2. ASSUME NEW r \in Requests, CallFails(r) PROVE Uploaded'
  BY <1>2 DEF CallFails, Fails, Answers, stores
<1>3. CASE Crash
  BY <1>3 DEF Crash, stores
<1>4. ASSUME NEW k \in Uploads, PutBlob(k) PROVE Uploaded'
  BY <1>4 DEF PutBlob, Goes, Fails, Answers
<1>5. ASSUME NEW k \in Uploads, CreateFile(k) PROVE Uploaded'
  BY <1>5 DEF CreateFile, Answers, history
<1>6. ASSUME NEW k \in Uploads, CreateFileFails(k) PROVE Uploaded'
  BY <1>6 DEF CreateFileFails, Fails, Answers
<1>7. ASSUME NEW e \in Erasures, ListFiles(e) PROVE Uploaded'
  BY <1>7 DEF ListFiles, Goes, Fails, Answers, stores
<1>8. ASSUME NEW e \in Erasures, NEW k \in Uploads, DeleteBlob(e, k) PROVE Uploaded'
  BY <1>8 DEF DeleteBlob, Goes, Fails, Answers
<1>9. ASSUME NEW e \in Erasures, DeleteRows(e) PROVE Uploaded'
  BY <1>9 DEF DeleteRows, Goes, Fails, Answers
<1>10. ASSUME NEW e \in Erasures, DeleteProfile(e) PROVE Uploaded'
  BY <1>10 DEF DeleteProfile, Goes, Fails, Answers
<1>11. ASSUME NEW e \in Erasures, DeleteM5(e) PROVE Uploaded'
  BY <1>11 DEF DeleteM5, Goes, Fails, Answers
<1>12. ASSUME NEW e \in Erasures, DeleteUser(e) PROVE Uploaded'
  BY <1>12 DEF DeleteUser, Ends, Fails, Answers
<1>13. ASSUME NEW e \in Erasures, DeleteUserMisses(e) PROVE Uploaded'
  BY <1>13 DEF DeleteUserMisses, Answers, stores, history
<1>14. ASSUME NEW p \in Parses, FindFile(p) PROVE Uploaded'
  BY <1>14 DEF FindFile, Answers, stores, history
<1>15. ASSUME NEW p \in Parses, GetBlob(p) PROVE Uploaded'
  BY <1>15 DEF GetBlob, Answers, stores, history
<1>16. ASSUME NEW p \in Parses, SaveProfile(p) PROVE Uploaded'
  BY <1>16 DEF SaveProfile, Ends, Fails, Answers
<1>17. CASE WriteM5
  BY <1>17 DEF WriteM5, requests, history
<1>18. CASE UNCHANGED vars
  BY <1>18 DEF vars, stores, requests, history
<1> QED
  BY <1>1, <1>2, <1>3, <1>4, <1>5, <1>6, <1>7, <1>8, <1>9,
    <1>10, <1>11, <1>12, <1>13, <1>14, <1>15, <1>16, <1>17, <1>18 DEF Next

\* DeleteRows and DeleteUser run when the erasure has nothing left to delete: by
\* Cover, the rows that still have an object belong to overlapped uploads.
LEMMA StoredBlobIsListedStep == Inv /\ [Next]_vars => StoredBlobIsListed'
<1> SUFFICES ASSUME Inv, [Next]_vars PROVE StoredBlobIsListed'
  OBVIOUS
<1> USE Kinds DEF Inv, TypeOK, Protocol, StoredBlobIsListed, Cover, Left, Erasing, Running
<1>1. ASSUME NEW r \in Requests, NEW k \in Uploads, Start(r, k) PROVE StoredBlobIsListed'
  BY <1>1 DEF Start, First, stores
<1>2. ASSUME NEW r \in Requests, CallFails(r) PROVE StoredBlobIsListed'
  BY <1>2 DEF CallFails, Fails, Answers, stores
<1>3. CASE Crash
  BY <1>3 DEF Crash, stores
<1>4. ASSUME NEW k \in Uploads, PutBlob(k) PROVE StoredBlobIsListed'
  BY <1>4 DEF PutBlob, Goes, Fails, Answers
<1>5. ASSUME NEW k \in Uploads, CreateFile(k) PROVE StoredBlobIsListed'
  BY <1>5 DEF CreateFile, Answers, history
<1>6. ASSUME NEW k \in Uploads, CreateFileFails(k) PROVE StoredBlobIsListed'
  BY <1>6 DEF CreateFileFails, Fails, Answers
<1>7. ASSUME NEW e \in Erasures, ListFiles(e) PROVE StoredBlobIsListed'
  BY <1>7 DEF ListFiles, Goes, Fails, Answers, stores
<1>8. ASSUME NEW e \in Erasures, NEW k \in Uploads, DeleteBlob(e, k) PROVE StoredBlobIsListed'
  BY <1>8 DEF DeleteBlob, Goes, Fails, Answers
<1>9. ASSUME NEW e \in Erasures, DeleteRows(e) PROVE StoredBlobIsListed'
  BY <1>9 DEF DeleteRows, Goes, Fails, Answers
<1>10. ASSUME NEW e \in Erasures, DeleteProfile(e) PROVE StoredBlobIsListed'
  BY <1>10 DEF DeleteProfile, Goes, Fails, Answers
<1>11. ASSUME NEW e \in Erasures, DeleteM5(e) PROVE StoredBlobIsListed'
  BY <1>11 DEF DeleteM5, Goes, Fails, Answers
<1>12. ASSUME NEW e \in Erasures, DeleteUser(e) PROVE StoredBlobIsListed'
  BY <1>12 DEF DeleteUser, Ends, Fails, Answers
<1>13. ASSUME NEW e \in Erasures, DeleteUserMisses(e) PROVE StoredBlobIsListed'
  BY <1>13 DEF DeleteUserMisses, Answers, stores, history
<1>14. ASSUME NEW p \in Parses, FindFile(p) PROVE StoredBlobIsListed'
  BY <1>14 DEF FindFile, Answers, stores, history
<1>15. ASSUME NEW p \in Parses, GetBlob(p) PROVE StoredBlobIsListed'
  BY <1>15 DEF GetBlob, Answers, stores, history
<1>16. ASSUME NEW p \in Parses, SaveProfile(p) PROVE StoredBlobIsListed'
  BY <1>16 DEF SaveProfile, Ends, Fails, Answers
<1>17. CASE WriteM5
  BY <1>17 DEF WriteM5, requests, history
<1>18. CASE UNCHANGED vars
  BY <1>18 DEF vars, stores, requests, history
<1> QED
  BY <1>1, <1>2, <1>3, <1>4, <1>5, <1>6, <1>7, <1>8, <1>9,
    <1>10, <1>11, <1>12, <1>13, <1>14, <1>15, <1>16, <1>17, <1>18 DEF Next

\* CreateFile finds its object there (Uploaded), and only failed uploads delete it.
LEMMA ListedCvIsStoredStep == Inv /\ [Next]_vars => ListedCvIsStored'
<1> SUFFICES ASSUME Inv, [Next]_vars PROVE ListedCvIsStored'
  OBVIOUS
<1> USE Kinds DEF Inv, TypeOK, Protocol, ListedCvIsStored, Uploaded, Running
<1>1. ASSUME NEW r \in Requests, NEW k \in Uploads, Start(r, k) PROVE ListedCvIsStored'
  BY <1>1 DEF Start, First, stores
<1>2. ASSUME NEW r \in Requests, CallFails(r) PROVE ListedCvIsStored'
  BY <1>2 DEF CallFails, Fails, Answers, stores
<1>3. CASE Crash
  BY <1>3 DEF Crash, stores
<1>4. ASSUME NEW k \in Uploads, PutBlob(k) PROVE ListedCvIsStored'
  BY <1>4 DEF PutBlob, Goes, Fails, Answers
<1>5. ASSUME NEW k \in Uploads, CreateFile(k) PROVE ListedCvIsStored'
  BY <1>5 DEF CreateFile, Answers, history
<1>6. ASSUME NEW k \in Uploads, CreateFileFails(k) PROVE ListedCvIsStored'
  BY <1>6 DEF CreateFileFails, Fails, Answers
<1>7. ASSUME NEW e \in Erasures, ListFiles(e) PROVE ListedCvIsStored'
  BY <1>7 DEF ListFiles, Goes, Fails, Answers, stores
<1>8. ASSUME NEW e \in Erasures, NEW k \in Uploads, DeleteBlob(e, k) PROVE ListedCvIsStored'
  BY <1>8 DEF DeleteBlob, Goes, Fails, Answers
<1>9. ASSUME NEW e \in Erasures, DeleteRows(e) PROVE ListedCvIsStored'
  BY <1>9 DEF DeleteRows, Goes, Fails, Answers
<1>10. ASSUME NEW e \in Erasures, DeleteProfile(e) PROVE ListedCvIsStored'
  BY <1>10 DEF DeleteProfile, Goes, Fails, Answers
<1>11. ASSUME NEW e \in Erasures, DeleteM5(e) PROVE ListedCvIsStored'
  BY <1>11 DEF DeleteM5, Goes, Fails, Answers
<1>12. ASSUME NEW e \in Erasures, DeleteUser(e) PROVE ListedCvIsStored'
  BY <1>12 DEF DeleteUser, Ends, Fails, Answers
<1>13. ASSUME NEW e \in Erasures, DeleteUserMisses(e) PROVE ListedCvIsStored'
  BY <1>13 DEF DeleteUserMisses, Answers, stores, history
<1>14. ASSUME NEW p \in Parses, FindFile(p) PROVE ListedCvIsStored'
  BY <1>14 DEF FindFile, Answers, stores, history
<1>15. ASSUME NEW p \in Parses, GetBlob(p) PROVE ListedCvIsStored'
  BY <1>15 DEF GetBlob, Answers, stores, history
<1>16. ASSUME NEW p \in Parses, SaveProfile(p) PROVE ListedCvIsStored'
  BY <1>16 DEF SaveProfile, Ends, Fails, Answers
<1>17. CASE WriteM5
  BY <1>17 DEF WriteM5, requests, history
<1>18. CASE UNCHANGED vars
  BY <1>18 DEF vars, stores, requests, history
<1> QED
  BY <1>1, <1>2, <1>3, <1>4, <1>5, <1>6, <1>7, <1>8, <1>9,
    <1>10, <1>11, <1>12, <1>13, <1>14, <1>15, <1>16, <1>17, <1>18 DEF Next

\* DeleteUserMisses is the only error without a failure; by Gone another erasure
\* has deleted the account then.
LEMMA ErasureErrsWithCauseStep == Inv /\ [Next]_vars => ErasureErrsWithCause'
<1> SUFFICES ASSUME Inv, [Next]_vars PROVE ErasureErrsWithCause'
  OBVIOUS
<1> USE Kinds DEF Inv, TypeOK, Protocol, ErasureErrsWithCause, Gone, Running
<1>1. ASSUME NEW r \in Requests, NEW k \in Uploads, Start(r, k) PROVE ErasureErrsWithCause'
  BY <1>1 DEF Start, First, stores
<1>2. ASSUME NEW r \in Requests, CallFails(r) PROVE ErasureErrsWithCause'
  BY <1>2 DEF CallFails, Fails, Answers, stores
<1>3. CASE Crash
  BY <1>3 DEF Crash, stores
<1>4. ASSUME NEW k \in Uploads, PutBlob(k) PROVE ErasureErrsWithCause'
  BY <1>4 DEF PutBlob, Goes, Fails, Answers
<1>5. ASSUME NEW k \in Uploads, CreateFile(k) PROVE ErasureErrsWithCause'
  BY <1>5 DEF CreateFile, Answers, history
<1>6. ASSUME NEW k \in Uploads, CreateFileFails(k) PROVE ErasureErrsWithCause'
  BY <1>6 DEF CreateFileFails, Fails, Answers
<1>7. ASSUME NEW e \in Erasures, ListFiles(e) PROVE ErasureErrsWithCause'
  BY <1>7 DEF ListFiles, Goes, Fails, Answers, stores
<1>8. ASSUME NEW e \in Erasures, NEW k \in Uploads, DeleteBlob(e, k) PROVE ErasureErrsWithCause'
  BY <1>8 DEF DeleteBlob, Goes, Fails, Answers
<1>9. ASSUME NEW e \in Erasures, DeleteRows(e) PROVE ErasureErrsWithCause'
  BY <1>9 DEF DeleteRows, Goes, Fails, Answers
<1>10. ASSUME NEW e \in Erasures, DeleteProfile(e) PROVE ErasureErrsWithCause'
  BY <1>10 DEF DeleteProfile, Goes, Fails, Answers
<1>11. ASSUME NEW e \in Erasures, DeleteM5(e) PROVE ErasureErrsWithCause'
  BY <1>11 DEF DeleteM5, Goes, Fails, Answers
<1>12. ASSUME NEW e \in Erasures, DeleteUser(e) PROVE ErasureErrsWithCause'
  BY <1>12 DEF DeleteUser, Ends, Fails, Answers
<1>13. ASSUME NEW e \in Erasures, DeleteUserMisses(e) PROVE ErasureErrsWithCause'
  BY <1>13 DEF DeleteUserMisses, Answers, stores, history
<1>14. ASSUME NEW p \in Parses, FindFile(p) PROVE ErasureErrsWithCause'
  BY <1>14 DEF FindFile, Answers, stores, history
<1>15. ASSUME NEW p \in Parses, GetBlob(p) PROVE ErasureErrsWithCause'
  BY <1>15 DEF GetBlob, Answers, stores, history
<1>16. ASSUME NEW p \in Parses, SaveProfile(p) PROVE ErasureErrsWithCause'
  BY <1>16 DEF SaveProfile, Ends, Fails, Answers
<1>17. CASE WriteM5
  BY <1>17 DEF WriteM5, requests, history
<1>18. CASE UNCHANGED vars
  BY <1>18 DEF vars, stores, requests, history
<1> QED
  BY <1>1, <1>2, <1>3, <1>4, <1>5, <1>6, <1>7, <1>8, <1>9,
    <1>10, <1>11, <1>12, <1>13, <1>14, <1>15, <1>16, <1>17, <1>18 DEF Next

-----------------------------------------------------------------------------
\* Inv holds in every reachable state.
LEMMA Invariance == Spec => []Inv
<1>1. Inv /\ [Next]_vars => Inv'
  BY TypeStep, ProtocolStep, CoverStep, GoneStep, UploadedStep, StoredBlobIsListedStep,
    ListedCvIsStoredStep, ErasureErrsWithCauseStep DEF Inv
<1> QED
  BY InitInv, <1>1, PTL DEF Spec

\* Every variable keeps its type.
THEOREM TypeCorrect == Spec => []TypeOK
<1>1. Inv => TypeOK
  BY DEF Inv
<1> QED
  BY <1>1, Invariance, PTL

\* Wherever erasures fail and the server stops, they orphan no object of an upload that
\* succeeded and did not overlap them (DeleteUserFiles, cv/service.go).
THEOREM NothingIsOrphaned == Spec => []StoredBlobIsListed
<1>1. Inv => StoredBlobIsListed
  BY DEF Inv
<1> QED
  BY <1>1, Invariance, PTL

\* A CV whose upload met no failure can be read until an erasure begins (handleUpload).
THEOREM ListedIsStored == Spec => []ListedCvIsStored
<1>1. Inv => ListedCvIsStored
  BY DEF Inv
<1> QED
  BY <1>1, Invariance, PTL

\* What an erasure left behind never stands in the way of another (handleDelete).
THEOREM ErasureIsRepeatable == Spec => []ErasureErrsWithCause
<1>1. Inv => ErasureErrsWithCause
  BY DEF Inv
<1> QED
  BY <1>1, Invariance, PTL

\* After an answered erasure no table holds anything of the account (handleDelete).
THEOREM ErasureIsComplete == Spec => []ErasedIsGone
<1>1. Inv => ErasedIsGone
  BY DEF Inv, Gone, ErasedIsGone
<1> QED
  BY <1>1, Invariance, PTL
=============================================================================
