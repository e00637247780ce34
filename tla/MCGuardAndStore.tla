---------------------------- MODULE MCGuardAndStore ----------------------------
(***************************************************************************)
(* The submission guard, and what the durable store of the arms must get   *)
(* done, in one run of two scenarios: the guard lives in a page, the store *)
(* in the worker, and they share no state, so either runs alone.           *)
(***************************************************************************)
EXTENDS SubmissionGuard

CONSTANTS
  Tabs, Urls, Cvs, TTL, None, MaxTime, MaxArms, MaxQueue, MaxFailures, MaxCrashes

VARIABLES
  scenario,  \* "guard" or "store"
  now, session, payloads, alarm, alive, queue, job, step, local, released, found,
  granted, armed, failures, crashes

Durable == INSTANCE SessionArming

durable == <<now, session, payloads, alarm, alive, queue, job, step, local, released, found,
             granted, armed, failures, crashes>>
MCVars == <<vars, durable, scenario>>

MCInit == scenario \in {"guard", "store"} /\ Init /\ Durable!Init
MCNext ==
  \/ scenario = "guard" /\ Next /\ UNCHANGED <<durable, scenario>>
  \/ scenario = "store" /\ Durable!Next /\ UNCHANGED <<vars, scenario>>

\* The fairness of SessionArming, in its scenario; the guard needs none.
Stores(A) == scenario = "store" /\ A /\ UNCHANGED <<vars, scenario>>
MCFairness ==
  /\ WF_MCVars(Stores(Durable!Serve)) /\ WF_MCVars(Stores(Durable!Tick))
  /\ WF_MCVars(Stores(Durable!AlarmFires)) /\ WF_MCVars(Stores(Durable!Wake))

MCSpec == MCInit /\ [][MCNext]_MCVars /\ MCFairness

\* CV bytes do not stay: what IndexedDB holds is erased eventually, as long as
\* storage calls succeed (arming.ts, the sweeps and the expiry alarm).
PayloadsAreErased == Durable!PayloadsAreErased
================================================================================
