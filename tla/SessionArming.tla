--------------------------- MODULE SessionArming ----------------------------
(***************************************************************************)
(* The durable arming store of the extension's background worker           *)
(* (`SessionArmingStore`, arming.ts).  Arms live in chrome.storage.session *)
(* and CV bytes in IndexedDB under their content hash; both outlive the    *)
(* worker, which the browser may stop between any two awaits.  Operations  *)
(* run one after the other through the promise chain `serial`; each await  *)
(* of an operation is one action here, and each may reject.                *)
(***************************************************************************)
EXTENDS Naturals, Sequences

CONSTANTS
  Tabs, Urls, Cvs, TTL, None,   \* as in ArmStore
  MaxTime,      \* bound: the clock stops here, and no arm would outlive it
  MaxArms,      \* bound: arms ever requested
  MaxQueue,     \* bound: requests waiting for the store
  MaxFailures,  \* bound: storage calls that reject
  MaxCrashes    \* bound: worker kills with work outstanding, browser restarts

ASSUME SessionArmingAssumption ==
  /\ TTL \in Nat \ {0}
  /\ MaxTime \in Nat /\ MaxArms \in Nat /\ MaxQueue \in Nat
  /\ MaxFailures \in Nat /\ MaxCrashes \in Nat
  /\ None \notin Tabs \cup Urls \cup Cvs

VARIABLES
  now,       \* Date.now()
  session,   \* chrome.storage.session: the entry of each tab, or None
  payloads,  \* IndexedDB: expiresAt of each CV payload, 0 when there is none
  alarm,     \* chrome.alarms: when the expiry alarm fires, 0 when there is none
  alive,     \* the worker is running
  queue,     \* requests behind `pending`, oldest first
  job,       \* the request being served, or None
  step,      \* the await the job stands at
  local,     \* the job's copy of the session entries
  released,  \* payload ids the job still has to delete
  found,     \* the arm a lookup materialized, or None
  granted,   \* history: ids of arms a page received
  armed,     \* history: arms persisted so far
  failures, crashes

store == <<session, payloads, alarm>>
work == <<queue, job, step, local, released, found>>
history == <<granted, armed>>
faults == <<failures, crashes>>
vars == <<now, store, alive, work, history, faults>>

Entry == [id : Nat, url : Urls, exp : Nat, cv : Cvs \cup {None}]
Request ==
  [op : {"arm"}, tab : Tabs, url : Urls, cv : Cvs \cup {None}, at : Nat]
    \cup [op : {"consume", "peek"}, tab : Tabs, url : Urls, cv : {None}, at : Nat]
    \cup [op : {"clearTab"}, tab : Tabs, url : {None}, cv : {None}, at : Nat]
    \cup [op : {"clear", "sweep"}, tab : {None}, url : {None}, cv : {None}, at : Nat]

\* What a lookup materializes: the arm, and its CV if that is still there.
Match == [entry : Entry, cv : Cvs \cup {None}]

\* None is `null`: no entry, no request and no match.
ASSUME NoneAssumption == None \notin Entry \cup Request \cup Match

Empty == [t \in Tabs |-> None]

\* Mutant of Expired: an arm stays valid at the very millisecond it expires.
ExpiredLate(entry, at) == at > entry.exp

Expired(entry, at) == at >= entry.exp

\* Mutant of Without: `delete state[key]` is forgotten.
WithoutNothing(s, t) == s

Without(s, t) == [s EXCEPT ![t] = None]

\* removeExpired
Unexpired(s, at) ==
  [t \in Tabs |-> IF s[t] # None /\ ~Expired(s[t], at) THEN s[t] ELSE None]

\* payloadIds
PayloadIds(s) == {s[t].cv : t \in {u \in Tabs : s[u] # None}} \ {None}

\* The payloads IndexedDB holds.
Stored(p) == {c \in Cvs : p[c] # 0}

Expiries(s) == {s[t].exp : t \in {u \in Tabs : s[u] # None}}

\* Mutant of EarliestExpiry: the alarm is scheduled for an undefined time.
EarliestExpiryUndefined(s) ==
  IF Expiries(s) = {} THEN {None}
  ELSE {e \in Expiries(s) : \A f \in Expiries(s) : e <= f}

\* What rescheduleAlarm sets the alarm to: the earliest expiry, or no alarm.
EarliestExpiry(s) ==
  IF Expiries(s) = {} THEN {0}
  ELSE {e \in Expiries(s) : \A f \in Expiries(s) : e <= f}

-----------------------------------------------------------------------------
(* Requests: Date.now() is read when the request is made, not when it runs. *)

Ask(op, t, u, c) == [op |-> op, tab |-> t, url |-> u, cv |-> c, at |-> now]
SweepRequest == Ask("sweep", None, None, None)
Outstanding == Len(queue) + (IF job = None THEN 0 ELSE 1)

Enqueue(r) ==
  /\ alive
  /\ Len(queue) < MaxQueue
  /\ queue' = Append(queue, r)
  /\ UNCHANGED <<now, store, alive, job, step, local, released, found, history, faults>>

RequestArm(t, u, c) ==
  /\ armed + Outstanding < MaxArms
  /\ now + TTL <= MaxTime
  /\ Enqueue(Ask("arm", t, u, c))

RequestLookup(op, t, u) ==
  /\ op \in {"consume", "peek"}
  /\ Enqueue(Ask(op, t, u, None))

RequestClear == Enqueue(Ask("clear", None, None, None))
RequestClearTab(t) == Enqueue(Ask("clearTab", t, None, None))

-----------------------------------------------------------------------------
(* Serving a request. *)

\* The job is over, whatever its outcome.
Idle ==
  /\ job' = None /\ step' = "idle"
  /\ local' = Empty /\ released' = {} /\ found' = None

\* Mutant of Begin: cleanup deletes a released payload although another arm uses it.
BeginUnshared(l, s) ==
  /\ job' = Head(queue)
  /\ queue' = Tail(queue)
  /\ local' = l
  /\ released' = {session[t].cv : t \in {u \in Tabs : session[u] # None /\ l[u] = None}} \ {None}
  /\ found' = None
  /\ step' = s

\* `read` has returned: the job goes on from copy `l`, at await `s`.  What the
\* copy no longer references is what cleanup will delete.
Begin(l, s) ==
  /\ job' = Head(queue)
  /\ queue' = Tail(queue)
  /\ local' = l
  /\ released' = PayloadIds(session) \ PayloadIds(l)
  /\ found' = None
  /\ step' = s

Starting(ops) ==
  /\ alive /\ job = None /\ queue # <<>>
  /\ Head(queue).op \in ops
  /\ UNCHANGED <<now, store, alive, history, faults>>

StartArm ==
  LET r == Head(queue)
      entry == [id |-> armed + 1, url |-> r.url, exp |-> r.at + TTL, cv |-> r.cv]
  IN  /\ Starting({"arm"})
      /\ Begin([Unexpired(session, r.at) EXCEPT ![r.tab] = entry],
               IF r.cv = None THEN "set" ELSE "put")

\* The tab of the request holds an arm for its URL.
HoldsArm(r) == session[r.tab] # None /\ session[r.tab].url = r.url

\* No arm of this tab for this URL: the lookup answers null and changes nothing.
LookupMisses ==
  LET r == Head(queue)
  IN  /\ Starting({"consume", "peek"})
      /\ ~HoldsArm(r)
      /\ queue' = Tail(queue)
      /\ UNCHANGED <<job, step, local, released, found>>

LookupFindsExpired ==
  LET r == Head(queue)
  IN  /\ Starting({"consume", "peek"})
      /\ HoldsArm(r)
      /\ Expired(session[r.tab], r.at)
      /\ Begin(Without(session, r.tab), "set")

LookupMatches ==
  LET r == Head(queue)
  IN  /\ Starting({"consume", "peek"})
      /\ HoldsArm(r)
      /\ ~Expired(session[r.tab], r.at)
      /\ Begin(IF r.op = "consume" THEN Without(session, r.tab) ELSE session, "get")

StartSweep ==
  /\ Starting({"sweep"})
  /\ Begin(Unexpired(session, Head(queue).at), "set")

StartClear ==
  /\ Starting({"clear"})
  /\ Begin(Empty, "set")

StartClearTab ==
  /\ Starting({"clearTab"})
  /\ Begin(Without(session, Head(queue).tab), "set")

At(s) == alive /\ job # None /\ step = s

\* IndexedDbBinaryPayloadStore.put: an id that is there keeps the later expiry.
Put ==
  /\ At("put")
  /\ payloads' = [payloads EXCEPT ![job.cv] =
                    IF @ > job.at + TTL THEN @ ELSE job.at + TTL]
  /\ step' = "set"
  /\ UNCHANGED <<now, session, alarm, alive, queue, job, local, released, found,
                 history, faults>>

\* materialize: the entry with the CV as IndexedDB has it, null if it is gone.
Get ==
  LET entry == session[job.tab]
  IN  /\ At("get")
      /\ found' = [entry |-> entry,
                   cv |-> IF entry.cv # None /\ payloads[entry.cv] = 0
                          THEN None ELSE entry.cv]
      /\ step' = IF job.op = "consume" THEN "set" ELSE "alarm"
      /\ UNCHANGED <<now, store, alive, queue, job, local, released, history, faults>>

AfterDelete == IF job.op \in {"clear", "clearTab"} THEN "alarm" ELSE "sweep"

\* storage.set, or storage.remove for clear().
Persist ==
  /\ At("set")
  /\ session' = local
  /\ armed' = IF job.op = "arm" THEN armed + 1 ELSE armed
  /\ step' = IF job.op = "clear" THEN "sweep"
             ELSE IF released = {} THEN AfterDelete ELSE "delete"
  /\ UNCHANGED <<now, payloads, alarm, alive, queue, job, local, released, found,
                 granted, faults>>

DeletePayload(c) ==
  /\ At("delete")
  /\ c \in released
  /\ payloads' = [payloads EXCEPT ![c] = 0]
  /\ released' = released \ {c}
  /\ step' = IF released' = {} THEN AfterDelete ELSE "delete"
  /\ UNCHANGED <<now, session, alarm, alive, queue, job, local, found, history, faults>>

\* Mutant of SweptPayloads: references are not looked at, only expiry is.
SweptExpiredOnly ==
  [c \in Cvs |-> IF payloads[c] <= job.at THEN 0 ELSE payloads[c]]

\* Mutant of SweptPayloads: the clock is read when the sweep runs.
SweptByTheClock ==
  [c \in Cvs |-> IF payloads[c] <= now \/ c \notin PayloadIds(local)
                 THEN 0 ELSE payloads[c]]

\* binaryStore.sweep(now, active)
SweptPayloads ==
  [c \in Cvs |-> IF payloads[c] <= job.at \/ c \notin PayloadIds(local)
                 THEN 0 ELSE payloads[c]]

SweepPayloads ==
  /\ At("sweep")
  /\ payloads' = SweptPayloads
  /\ step' = IF job.op = "clear" /\ released # {} THEN "delete" ELSE "alarm"
  /\ UNCHANGED <<now, session, alarm, alive, queue, job, local, released, found,
                 history, faults>>

\* rescheduleAlarm, and the operation resolves.
Finish ==
  /\ At("alarm")
  /\ alarm' \in EarliestExpiry(local)
  /\ granted' = IF job.op = "consume" /\ found # None
                THEN granted \cup {found.entry.id} ELSE granted
  /\ Idle
  /\ UNCHANGED <<now, session, payloads, alive, queue, armed, faults>>

-----------------------------------------------------------------------------
(* The clock, the alarm, and what goes wrong. *)

Tick ==
  /\ now < MaxTime
  /\ now' = now + 1
  /\ UNCHANGED <<store, alive, work, history, faults>>

\* Mutant of Wake: the worker starts without its sweep.
WakeUnswept ==
  /\ ~alive
  /\ alive' = TRUE
  /\ UNCHANGED <<now, store, work, history, faults>>

\* The worker starts: background.ts sweeps before anything else.
Wake ==
  /\ ~alive
  /\ alive' = TRUE
  /\ queue' = <<SweepRequest>>
  /\ UNCHANGED <<now, store, job, step, local, released, found, history, faults>>

\* The alarm is gone once it fires; it wakes the worker if it has to.
AlarmFires ==
  /\ alarm # 0 /\ now >= alarm
  /\ alarm' = 0
  /\ alive' = TRUE
  /\ queue' = IF alive THEN Append(queue, SweepRequest)
              ELSE <<SweepRequest, SweepRequest>>
  /\ UNCHANGED <<now, session, payloads, job, step, local, released, found,
                 history, faults>>

\* A storage call rejects: the job ends there, the queue goes on.
JobFails ==
  /\ alive /\ failures < MaxFailures
  /\ job # None
  /\ Idle
  /\ failures' = failures + 1
  /\ UNCHANGED <<now, store, alive, queue, history, crashes>>

\* `read` itself rejects: the request is answered with an error.
ReadFails ==
  /\ alive /\ failures < MaxFailures
  /\ job = None /\ queue # <<>>
  /\ queue' = Tail(queue)
  /\ failures' = failures + 1
  /\ UNCHANGED <<now, store, alive, job, step, local, released, found, history, crashes>>

\* The browser stops a worker that has nothing to do.
Suspend ==
  /\ alive /\ job = None /\ queue = <<>>
  /\ alive' = FALSE
  /\ UNCHANGED <<now, store, work, history, faults>>

\* The browser stops the worker in the middle of its work.
Kill ==
  /\ alive /\ crashes < MaxCrashes
  /\ Outstanding # 0
  /\ alive' = FALSE
  /\ queue' = <<>>
  /\ Idle
  /\ crashes' = crashes + 1
  /\ UNCHANGED <<now, store, history, failures>>

\* storage.session does not outlive the browser; IndexedDB does, and the
\* browser may or may not keep the alarm.
BrowserRestart ==
  /\ crashes < MaxCrashes
  /\ session' = Empty
  /\ alarm' \in {alarm, 0}
  /\ alive' = FALSE
  /\ queue' = <<>>
  /\ Idle
  /\ crashes' = crashes + 1
  /\ UNCHANGED <<now, payloads, history, failures>>

-----------------------------------------------------------------------------
Init ==
  /\ now = 0
  /\ session = Empty
  /\ payloads = [c \in Cvs |-> 0]
  /\ alarm = 0
  /\ alive = TRUE
  /\ queue = <<SweepRequest>>
  /\ job = None /\ step = "idle" /\ local = Empty /\ released = {} /\ found = None
  /\ granted = {} /\ armed = 0
  /\ failures = 0 /\ crashes = 0

Serve ==
  \/ StartArm \/ LookupMisses \/ LookupFindsExpired \/ LookupMatches
  \/ StartSweep \/ StartClear \/ StartClearTab
  \/ Put \/ Get \/ Persist \/ SweepPayloads \/ Finish
  \/ \E c \in Cvs : DeletePayload(c)

Next ==
  \/ \E t \in Tabs, u \in Urls, c \in Cvs \cup {None} : RequestArm(t, u, c)
  \/ \E op \in {"consume", "peek"}, t \in Tabs, u \in Urls : RequestLookup(op, t, u)
  \/ RequestClear
  \/ \E t \in Tabs : RequestClearTab(t)
  \/ Serve
  \/ Tick \/ Wake \/ AlarmFires
  \/ JobFails \/ ReadFails \/ Suspend \/ Kill \/ BrowserRestart

Spec == Init /\ [][Next]_vars

\* The event loop runs what is queued, time passes, a due alarm fires, and a
\* stopped worker is started again by the next tab that finishes loading.
Fairness == WF_vars(Serve) /\ WF_vars(Tick) /\ WF_vars(AlarmFires) /\ WF_vars(Wake)

FairSpec == Spec /\ Fairness
-----------------------------------------------------------------------------
(* What the store guarantees. *)

TypeOK ==
  /\ now \in Nat /\ alarm \in Nat /\ armed \in Nat
  /\ failures \in Nat /\ crashes \in Nat
  /\ alive \in BOOLEAN
  /\ session \in [Tabs -> Entry \cup {None}]
  /\ local \in [Tabs -> Entry \cup {None}]
  /\ payloads \in [Cvs -> Nat]
  /\ queue \in Seq(Request)
  /\ job \in Request \cup {None}
  /\ step \in {"idle", "put", "get", "set", "delete", "sweep", "alarm"}
  /\ released \in SUBSET Cvs
  /\ found \in Match \cup {None}
  /\ granted \in SUBSET Nat

\* One-shot arms ("consumes the arm exactly once", arming.ts): the arm a consume
\* has materialized was never granted before, although lookups race each other,
\* the worker may die between any two awaits and storage calls may reject.
NoSecondGrant ==
  found # None /\ job.op = "consume" => found.entry.id \notin granted

\* An arm that has not expired still has its CV bytes in IndexedDB, although
\* arms share payloads and every other operation deletes and sweeps them.
LiveArmHasItsPayload ==
  \A t \in Tabs :
    session[t] # None /\ session[t].cv # None /\ session[t].exp > now
      => payloads[session[t].cv] >= session[t].exp

\* A lookup that was asked in time never finds its CV gone: the form is not
\* filled without the CV because other requests waited in front of it.
MatchedCvIsThere == found # None => found.cv = found.entry.cv

Quiet == alive /\ job = None /\ queue = <<>> /\ failures = 0

\* Unless a storage call has rejected, a store at rest holds no CV bytes that no
\* arm refers to: not after a worker or browser died between put and set, or
\* between set and cleanup.
QuietStoreHasNoOrphan == Quiet => Stored(payloads) \subseteq PayloadIds(session)

\* Unless a storage call has rejected, the alarm of a store at rest stands at the
\* earliest expiry, so that no arm outlives its TTL unnoticed.
QuietAlarmIsNextExpiry == Quiet => alarm \in EarliestExpiry(session)

\* The durable store does what the in-memory ArmingStore promises: the entry a
\* consume has removed counts as taken until the operation resolves.
Promise == INSTANCE ArmStore WITH
  arms <- session,
  times <- {queue[i].at : i \in DOMAIN queue} \cup (IF job = None THEN {} ELSE {job.at}),
  taken <- IF found # None /\ job.op = "consume" /\ step # "set"
           THEN found.entry ELSE None

ImplementsArmStore == Promise!Spec

\* CV bytes do not stay: what IndexedDB holds is erased eventually, with or
\* without another Open & Fill, as long as storage calls succeed.
PayloadsAreErased == \A c \in Cvs : payloads[c] # 0 ~> payloads[c] = 0
=============================================================================
