-------------------------------- MODULE Requests --------------------------------
(***************************************************************************)
(* Requests of a signed-in user to the Go backend (internal/m5, internal/  *)
(* cv, internal/auth, internal/feed).  A handler makes one call to the     *)
(* database or to the mail server after another; between two calls the     *)
(* calls of other requests take place.  A call may fail before or after it *)
(* took effect: the context of the request is canceled, the reply is lost. *)
(***************************************************************************)
EXTENDS Naturals

CONSTANTS
  None,         \* an absent value
  Requests,     \* slots of requests, each used once
  Jobs,         \* job keys that requests are about
  MaxFailures   \* bound: failed calls

ASSUME RequestsAssumption == MaxFailures \in Nat /\ None \notin {"ok", "error"}

VARIABLES
  req,      \* [op, key, pc, seen, answer] of each request: what it asks, about
            \* what, its next call, what it has read, its answer
  failures

requestVars == <<req, failures>>

Idle == [op |-> None, key |-> None, pc |-> "idle", seen |-> None, answer |-> None]
\* What the slots may hold, for the requests of one part of the backend.
RequestRecords(ops, keys, calls, readings, answers) ==
  [op : ops \cup {None}, key : keys \cup {None}, pc : calls \cup {"idle", "done"},
   seen : readings \cup {None}, answer : answers \cup {None, "ok", "error"}]

Running(r) == req[r].pc \notin {"idle", "done"}

Begin(r, op, key, first) ==
  /\ req[r].pc = "idle"
  /\ req' = [req EXCEPT ![r] =
                [op |-> op, key |-> key, pc |-> first, seen |-> None, answer |-> None]]
  /\ UNCHANGED failures

\* The handler goes on to its next call, with what it has read.
Goes(r, next, seen) == req' = [req EXCEPT ![r].pc = next, ![r].seen = seen]
Answers(r, answer) == req' = [req EXCEPT ![r].pc = "done", ![r].answer = answer]

Fails(r) ==
  /\ failures < MaxFailures
  /\ failures' = failures + 1
  /\ Answers(r, "error")

\* A call has taken effect; the handler goes on, or has lost the reply.
Done(r, next) == \/ Goes(r, next, req[r].seen) /\ UNCHANGED failures
                 \/ Fails(r)
Ends(r) == \/ Answers(r, "ok") /\ UNCHANGED failures
           \/ Fails(r)

\* A call fails without effect.
CallFails(r) == Running(r) /\ Fails(r)
=============================================================================
