------------------------ MODULE SessionArmingProofs -------------------------
(***************************************************************************)
(* Theorems about the durable arming store, for any number of tabs, pages, *)
(* payloads, requests, failures and crashes: types, one-shot arms, CV      *)
(* payloads that are there as long as they are needed and no longer, the   *)
(* expiry alarm, and the refinement of ArmStore.                           *)
(***************************************************************************)
EXTENDS SessionArming, TLAPS

Lookups == {"consume", "peek"}

\* How the parts of the running job belong together.
JobShape ==
  /\ found # None => job.op \in Lookups
  /\ step = "put" => job.op = "arm" /\ job.cv # None
  /\ step = "get" => job.op \in Lookups /\ found = None /\ session[job.tab] # None

\* The entry an arm request stores.
NewEntry == [id |-> armed + 1, url |-> job.url, exp |-> job.at + TTL, cv |-> job.cv]

\* The job's copy holds entries of the store, and the new one of an arm request.
\* A peek copies the store, and after the copy was written back they are the same.
CopyShape ==
  /\ step \in {"put", "get", "set"} =>
       \A t \in Tabs : local[t] # None =>
         local[t] = session[t] \/ (job.op = "arm" /\ t = job.tab /\ local[t] = NewEntry)
  /\ step = "get" /\ job.op = "peek" => local = session
  /\ step \in {"delete", "sweep", "alarm"} => local = session

\* An id names one arm: one that is stored, or taken, or granted.
IdsAreUnique ==
  /\ \A i \in granted : i <= armed
  /\ \A t \in Tabs : session[t] # None =>
       /\ session[t].id <= armed
       /\ session[t].id \notin granted
  /\ \A t, u \in Tabs : session[t] # None /\ session[u] # None /\ t # u
       => session[t].id # session[u].id

\* The arm a consume has found is the one its tab held, and no other holds its id.
FoundIsTaken ==
  /\ step \in {"get", "set"} /\ job.op = "consume" => local[job.tab] = None
  /\ found # None /\ job.op = "consume" =>
       /\ found.entry.id <= armed
       /\ found.entry.id \notin granted
       /\ step = "set" => session[job.tab] = found.entry /\ session[job.tab] # None
       /\ step # "set" => \A t \in Tabs : session[t] # None => session[t].id # found.entry.id

Shape == JobShape /\ CopyShape /\ IdsAreUnique /\ FoundIsTaken
OneShotInv == TypeOK /\ Shape

-----------------------------------------------------------------------------
(* What the running job's copy is, request times, and CV payloads.         *)

\* The copy is exactly what the operation makes of the store it read, and a
\* lookup goes on holding the arm it found for its tab.
CopyIsExact ==
  /\ job = None => step = "idle" /\ released = {} /\ found = None
  /\ step \in {"put", "set"} /\ job.op = "arm"
       => local = [Unexpired(session, job.at) EXCEPT ![job.tab] = NewEntry]
  /\ step = "get" => /\ HoldsArm(job) /\ ~Expired(session[job.tab], job.at)
                     /\ job.op = "consume" => local = Without(session, job.tab)
  /\ step = "set" /\ job.op \in Lookups =>
       /\ HoldsArm(job) /\ local = Without(session, job.tab)
       /\ found = None <=> Expired(session[job.tab], job.at)
       /\ found # None => job.op = "consume"
  /\ step = "set" /\ job.op = "sweep" => local = Unexpired(session, job.at)
  /\ step = "set" /\ job.op = "clear" => local = Empty
  /\ step = "set" /\ job.op = "clearTab" => local = Without(session, job.tab)

\* The requests that wait for an answer, and when they were made.
Times == {queue[i].at : i \in DOMAIN queue} \cup (IF job = None THEN {} ELSE {job.at})

\* Requests are served in the order they were made in.
TimesOrdered ==
  /\ \A a \in Times : a <= now
  /\ \A i, j \in DOMAIN queue : i <= j => queue[i].at <= queue[j].at
  /\ job # None => \A a \in Times : job.at <= a

\* What is to be deleted is what the copy no longer refers to.
ReleasedIsUnused ==
  /\ released \cap PayloadIds(local) = {}
  /\ step \in {"put", "get", "set"} => released = PayloadIds(session) \ PayloadIds(local)

\* An arm keeps its payload for every request that was made before it expired,
\* be it still waiting; an arm request has put its payload before it is stored.
ArmsKeepPayloads ==
  /\ \A t \in Tabs : session[t] # None /\ session[t].cv # None =>
       \A a \in Times \cup {now} :
         session[t].exp > a => payloads[session[t].cv] >= session[t].exp
  /\ step = "set" /\ job.op = "arm" /\ job.cv # None => payloads[job.cv] >= job.at + TTL

PayloadInv ==
  CopyIsExact /\ TimesOrdered /\ ReleasedIsUnused /\ ArmsKeepPayloads /\ MatchedCvIsThere

\* A sweep that still has to look at the payloads waits, or is what the job ends in.
SweepWaits == \E i \in DOMAIN queue : queue[i].op = "sweep"
WillSweep ==
  /\ job # None /\ job.op # "clearTab"
  /\ \/ step \in {"put", "set", "sweep"}
     \/ step = "delete" /\ job.op # "clear"
     \/ step = "get" /\ job.op = "consume"

\* Without failures, the payloads that no arm refers to are about to be deleted,
\* or a sweep that deletes them is to come.
TidyInv ==
  /\ failures = 0 /\ alive /\ ~SweepWaits /\ ~WillSweep =>
       Stored(payloads) \ PayloadIds(session) \subseteq (IF step = "delete" THEN released ELSE {})
  /\ failures = 0 /\ alive /\ ~SweepWaits /\ job = None => alarm \in EarliestExpiry(session)

\* What Shape is about.
core == <<session, job, step, local, found, granted, armed>>

-----------------------------------------------------------------------------
(* Facts about requests and entries. *)

\* A request names the tab and the page its operation needs.
LEMMA RequestFields ==
  ASSUME NEW r \in Request
  PROVE  /\ r.op \in {"arm", "consume", "peek", "clearTab", "clear", "sweep"}
         /\ r.at \in Nat
         /\ r.cv \in Cvs \cup {None}
         /\ r.op \in {"arm", "consume", "peek", "clearTab"} => r.tab \in Tabs
         /\ r.op \in {"arm", "consume", "peek"} => r.url \in Urls
  BY DEF Request

\* The requests the actions make.
LEMMA RequestsMade ==
  ASSUME now \in Nat
  PROVE  /\ SweepRequest \in Request
         /\ Ask("clear", None, None, None) \in Request
         /\ \A t \in Tabs : Ask("clearTab", t, None, None) \in Request
         /\ \A t \in Tabs, u \in Urls, op \in Lookups : Ask(op, t, u, None) \in Request
         /\ \A t \in Tabs, u \in Urls, c \in Cvs \cup {None} : Ask("arm", t, u, c) \in Request
<1>1. SweepRequest \in Request
  BY DEF SweepRequest, Ask, Request
<1>2. Ask("clear", None, None, None) \in Request
  BY DEF Ask, Request
<1>3. \A t \in Tabs : Ask("clearTab", t, None, None) \in Request
  BY DEF Ask, Request
<1>4. \A t \in Tabs, u \in Urls, op \in Lookups : Ask(op, t, u, None) \in Request
  BY DEF Ask, Request, Lookups
<1>5. \A t \in Tabs, u \in Urls, c \in Cvs \cup {None} : Ask("arm", t, u, c) \in Request
  BY DEF Ask, Request
<1> QED
  BY <1>1, <1>2, <1>3, <1>4, <1>5

\* Copies of the store are typed like the store.
LEMMA CopiesTyped ==
  ASSUME NEW s \in [Tabs -> Entry \cup {None}], NEW t \in Tabs, NEW n \in Nat
  PROVE  /\ Empty \in [Tabs -> Entry \cup {None}]
         /\ Without(s, t) \in [Tabs -> Entry \cup {None}]
         /\ Unexpired(s, n) \in [Tabs -> Entry \cup {None}]
         /\ \A e \in Entry : [Unexpired(s, n) EXCEPT ![t] = e] \in [Tabs -> Entry \cup {None}]
         /\ PayloadIds(s) \subseteq Cvs
<1>1. Unexpired(s, n) \in [Tabs -> Entry \cup {None}]
  BY DEF Unexpired
<1>2. PayloadIds(s) \subseteq Cvs
  BY DEF PayloadIds, Entry
<1> QED
  BY <1>1, <1>2 DEF Empty, Without

-----------------------------------------------------------------------------
\* The state the store starts in satisfies the invariant.
LEMMA InitOneShot == Init => OneShotInv
<1> SUFFICES ASSUME Init PROVE OneShotInv
  OBVIOUS
<1>1. SweepRequest \in Request
  BY RequestsMade DEF Init
<1>2. TypeOK
  BY <1>1 DEF Init, TypeOK, Empty
<1> QED
  BY <1>2 DEF Init, OneShotInv, Shape, JobShape, CopyShape, IdsAreUnique, FoundIsTaken, Empty

\* A step that leaves the running job, the arms and the history alone keeps Shape.
LEMMA CoreFrame == Shape /\ UNCHANGED core => Shape'
  BY DEF Shape, core, JobShape, CopyShape, IdsAreUnique, FoundIsTaken, NewEntry

\* So does a step that ends the job, even if the arms are lost with it.
LEMMA IdleFrame ==
  ASSUME Shape, Idle, session' \in {session, Empty}, UNCHANGED <<granted, armed>>
  PROVE  Shape'
<1>1. IdsAreUnique'
  BY DEF Shape, IdsAreUnique, Empty
<1> QED
  BY <1>1 DEF Shape, Idle, JobShape, CopyShape, FoundIsTaken

\* A job that starts with a copy holding only entries of the store keeps Shape.
LEMMA BeginFrame ==
  ASSUME OneShotInv, UNCHANGED <<session, granted, armed>>,
         NEW l, NEW s \in {"put", "get", "set"}, Begin(l, s),
         \A t \in Tabs : l[t] # None => l[t] = session[t] \/
           (Head(queue).op = "arm" /\ t = Head(queue).tab
             /\ l[t] = [id |-> armed + 1, url |-> Head(queue).url,
                        exp |-> Head(queue).at + TTL, cv |-> Head(queue).cv]),
         s = "put" => Head(queue).op = "arm" /\ Head(queue).cv # None,
         s = "get" => Head(queue).op \in Lookups /\ session[Head(queue).tab] # None,
         s = "get" /\ Head(queue).op = "peek" => l = session,
         Head(queue).op = "consume" => l[Head(queue).tab] = None
  PROVE  Shape'
<1>1. IdsAreUnique'
  BY DEF OneShotInv, Shape, IdsAreUnique
<1>2. JobShape'
  BY DEF Begin, JobShape
<1>3. CopyShape'
  BY DEF Begin, CopyShape, NewEntry
<1>4. FoundIsTaken'
  BY DEF Begin, FoundIsTaken
<1> QED
  BY <1>1, <1>2, <1>3, <1>4 DEF Shape

-----------------------------------------------------------------------------
\* A request that begins is taken from the head of a queue of requests.
LEMMA QueueTyped ==
  ASSUME NEW q \in Seq(Request), q # <<>>
  PROVE  Head(q) \in Request /\ Tail(q) \in Seq(Request)
OBVIOUS

LEMMA BeginTyped ==
  ASSUME TypeOK, NEW ops, Starting(ops),
         NEW l \in [Tabs -> Entry \cup {None}], NEW s \in {"put", "get", "set"}, Begin(l, s)
  PROVE  TypeOK'
<1>1. Head(queue) \in Request /\ Tail(queue) \in Seq(Request)
  BY QueueTyped DEF TypeOK, Starting
<1>2. released' \in SUBSET Cvs
  <2>1. PayloadIds(session) \subseteq Cvs
    BY DEF TypeOK, PayloadIds, Entry
  <2> QED
    BY <2>1 DEF Begin
<1>3. /\ job' \in Request \cup {None}
      /\ queue' \in Seq(Request)
      /\ local' \in [Tabs -> Entry \cup {None}]
      /\ found' \in Match \cup {None}
      /\ step' \in {"idle", "put", "get", "set", "delete", "sweep", "alarm"}
  BY <1>1 DEF Begin
<1> QED
  BY <1>2, <1>3 DEF TypeOK, Starting, store, history, faults

\* Every step keeps the types.
LEMMA TypeStep == TypeOK /\ JobShape /\ [Next]_vars => TypeOK'
<1> SUFFICES ASSUME TypeOK, JobShape, [Next]_vars PROVE TypeOK'
  OBVIOUS
<1> USE SessionArmingAssumption
<1>0. /\ SweepRequest \in Request
      /\ Ask("clear", None, None, None) \in Request
      /\ \A t \in Tabs : Ask("clearTab", t, None, None) \in Request
      /\ \A t \in Tabs, u \in Urls, op \in Lookups : Ask(op, t, u, None) \in Request
      /\ \A t \in Tabs, u \in Urls, c \in Cvs \cup {None} : Ask("arm", t, u, c) \in Request
  BY RequestsMade DEF TypeOK
<1>q. ASSUME NEW r \in Request, Enqueue(r) PROVE TypeOK'
  <2>1. queue' \in Seq(Request)
    BY <1>q DEF Enqueue, TypeOK
  <2> QED
    BY <1>q, <2>1 DEF Enqueue, TypeOK, store, history, faults
<1>1. ASSUME NEW t \in Tabs, NEW u \in Urls, NEW c \in Cvs \cup {None}, RequestArm(t, u, c)
      PROVE  TypeOK'
  BY <1>0, <1>1, <1>q DEF RequestArm
<1>2. ASSUME NEW op \in Lookups, NEW t \in Tabs, NEW u \in Urls, RequestLookup(op, t, u)
      PROVE  TypeOK'
  BY <1>0, <1>2, <1>q DEF RequestLookup
<1>3. CASE RequestClear
  BY <1>0, <1>3, <1>q DEF RequestClear
<1>4. ASSUME NEW t \in Tabs, RequestClearTab(t) PROVE TypeOK'
  BY <1>0, <1>4, <1>q DEF RequestClearTab
<1>5. CASE StartArm
  <2> DEFINE r == Head(queue)
             e == [id |-> armed + 1, url |-> r.url, exp |-> r.at + TTL, cv |-> r.cv]
             l == [Unexpired(session, r.at) EXCEPT ![r.tab] = e]
  <2>1. r \in Request /\ r.op = "arm"
    BY <1>5, QueueTyped DEF StartArm, Starting, TypeOK
  <2>2. r.tab \in Tabs /\ e \in Entry /\ r.at \in Nat
    BY <2>1, RequestFields DEF TypeOK, Entry
  <2>3. l \in [Tabs -> Entry \cup {None}]
    BY <2>2, CopiesTyped DEF TypeOK
  <2> QED
    BY <1>5, <2>3, BeginTyped DEF StartArm
<1>6. CASE LookupMisses
  <2>1. Tail(queue) \in Seq(Request)
    BY <1>6, QueueTyped DEF LookupMisses, Starting, TypeOK
  <2> QED
    BY <1>6, <2>1 DEF LookupMisses, Starting, TypeOK, store, history, faults
<1>r. ASSUME Starting({"consume", "peek"}) PROVE Head(queue).tab \in Tabs
  <2>1. Head(queue) \in Request
    BY <1>r, QueueTyped DEF Starting, TypeOK
  <2> QED
    BY <1>r, <2>1, RequestFields DEF Starting
<1>7. CASE LookupFindsExpired
  <2>1. Without(session, Head(queue).tab) \in [Tabs -> Entry \cup {None}]
    BY <1>7, <1>r, CopiesTyped DEF LookupFindsExpired, TypeOK
  <2> QED
    BY <1>7, <2>1, BeginTyped DEF LookupFindsExpired
<1>8. CASE LookupMatches
  <2>1. Without(session, Head(queue).tab) \in [Tabs -> Entry \cup {None}]
    BY <1>8, <1>r, CopiesTyped DEF LookupMatches, TypeOK
  <2>2. session \in [Tabs -> Entry \cup {None}]
    BY DEF TypeOK
  <2> QED
    BY <1>8, <2>1, <2>2, BeginTyped DEF LookupMatches
<1>9. CASE StartSweep
  <2>1. Unexpired(session, Head(queue).at) \in [Tabs -> Entry \cup {None}]
    BY DEF TypeOK, Unexpired
  <2> QED
    BY <1>9, <2>1, BeginTyped DEF StartSweep
<1>10. CASE StartClear
  <2>1. Empty \in [Tabs -> Entry \cup {None}]
    BY DEF Empty
  <2> QED
    BY <1>10, <2>1, BeginTyped DEF StartClear
<1>11. CASE StartClearTab
  <2>1. Head(queue) \in Request /\ Head(queue).op = "clearTab"
    BY <1>11, QueueTyped DEF StartClearTab, Starting, TypeOK
  <2>2. Without(session, Head(queue).tab) \in [Tabs -> Entry \cup {None}]
    BY <2>1, RequestFields, CopiesTyped DEF TypeOK
  <2> QED
    BY <1>11, <2>2, BeginTyped DEF StartClearTab
<1>12. CASE Put
  <2>1. job \in Request
    BY <1>12 DEF Put, At, TypeOK
  <2>2. job.at \in Nat /\ job.at + TTL \in Nat
    BY <2>1, RequestFields
  <2>3. payloads' \in [Cvs -> Nat]
    BY <1>12, <2>2 DEF Put, TypeOK
  <2> QED
    BY <1>12, <2>3 DEF Put, TypeOK, history, faults
<1>13. CASE Get
  <2>1. job \in Request /\ job.tab \in Tabs
    BY <1>13, RequestFields DEF Get, At, TypeOK, JobShape, Lookups
  <2>2. session[job.tab] \in Entry /\ session[job.tab].cv \in Cvs \cup {None}
    BY <1>13, <2>1 DEF Get, At, TypeOK, JobShape, Entry
  <2>3. found' \in Match
    BY <1>13, <2>2 DEF Get, Match
  <2>4. step' \in {"set", "alarm"}
    BY <1>13 DEF Get
  <2> QED
    BY <1>13, <2>3, <2>4 DEF Get, TypeOK, store, history, faults
<1>14. CASE Persist
  <2>1. step' \in {"sweep", "delete", "alarm"}
    BY <1>14 DEF Persist, AfterDelete
  <2> QED
    BY <1>14, <2>1 DEF Persist, TypeOK, faults
<1>15. CASE SweepPayloads
  <2>1. payloads' \in [Cvs -> Nat]
    BY <1>15 DEF SweepPayloads, SweptPayloads, TypeOK
  <2> QED
    BY <1>15, <2>1 DEF SweepPayloads, TypeOK, history, faults
<1>16. CASE Finish
  <2>1. alarm' \in Nat
    <3>1. Expiries(local) \subseteq Nat
      BY DEF Expiries, TypeOK, Entry
    <3> QED
      BY <1>16, <3>1 DEF Finish, EarliestExpiry
  <2>2. granted' \in SUBSET Nat
    <3>1. CASE found = None
      BY <1>16, <3>1 DEF Finish, TypeOK
    <3>2. CASE found # None
      <4>1. found.entry \in Entry
        BY <3>2 DEF TypeOK, Match
      <4>2. found.entry.id \in Nat
        BY <4>1 DEF Entry
      <4> QED
        BY <1>16, <4>2 DEF Finish, TypeOK
    <3> QED
      BY <3>1, <3>2
  <2> QED
    BY <1>16, <2>1, <2>2 DEF Finish, Idle, Empty, TypeOK, faults
<1>17. ASSUME NEW c \in Cvs, DeletePayload(c) PROVE TypeOK'
  <2>1. step' \in {"sweep", "delete", "alarm"}
    BY <1>17 DEF DeletePayload, AfterDelete
  <2> QED
    BY <1>17, <2>1 DEF DeletePayload, TypeOK, history, faults
<1>18. CASE Tick
  BY <1>18 DEF Tick, TypeOK, store, work, history, faults
<1>19. CASE Wake
  BY <1>0, <1>19 DEF Wake, TypeOK, store, history, faults
<1>20. CASE AlarmFires
  <2>1. queue' \in Seq(Request)
    BY <1>0, <1>20 DEF AlarmFires, TypeOK
  <2> QED
    BY <1>20, <2>1 DEF AlarmFires, TypeOK, history, faults
<1>21. CASE JobFails
  BY <1>21 DEF JobFails, Idle, Empty, TypeOK, store, history
<1>22. CASE ReadFails
  BY <1>22, QueueTyped DEF ReadFails, TypeOK, store, history
<1>23. CASE Suspend
  BY <1>23 DEF Suspend, TypeOK, store, work, history, faults
<1>e. <<>> \in Seq(Request)
  OBVIOUS
<1>i. ASSUME Idle
      PROVE  /\ job' \in Request \cup {None}
             /\ local' \in [Tabs -> Entry \cup {None}]
             /\ step' \in {"idle", "put", "get", "set", "delete", "sweep", "alarm"}
             /\ released' \in SUBSET Cvs
             /\ found' \in Match \cup {None}
  BY <1>i DEF Idle, Empty
<1>24. CASE Kill
  <2>1. UNCHANGED <<now, payloads, granted, armed, failures>> /\ Idle
    BY <1>24 DEF Kill, store, history
  <2>2. crashes' \in Nat /\ alive' \in BOOLEAN
    <3>1. crashes \in Nat
      BY DEF TypeOK
    <3>2. crashes' = crashes + 1
      BY <1>24 DEF Kill
    <3>3. alive' \in BOOLEAN
      BY <1>24 DEF Kill
    <3> QED
      BY <3>1, <3>2, <3>3
  <2>3. alarm' \in Nat /\ session' \in [Tabs -> Entry \cup {None}]
    BY <1>24 DEF Kill, TypeOK, Empty, store
  <2>4. queue' \in Seq(Request)
    BY <1>e, <1>24 DEF Kill
  <2> QED
    BY <1>i, <2>1, <2>2, <2>3, <2>4 DEF TypeOK
<1>25. CASE BrowserRestart
  <2>1. UNCHANGED <<now, payloads, granted, armed, failures>> /\ Idle
    BY <1>25 DEF BrowserRestart, history
  <2>2. crashes' \in Nat /\ alive' \in BOOLEAN
    <3>1. crashes \in Nat
      BY DEF TypeOK
    <3>2. crashes' = crashes + 1
      BY <1>25 DEF BrowserRestart
    <3>3. alive' \in BOOLEAN
      BY <1>25 DEF BrowserRestart
    <3> QED
      BY <3>1, <3>2, <3>3
  <2>3. alarm' \in Nat /\ session' \in [Tabs -> Entry \cup {None}]
    BY <1>25 DEF BrowserRestart, TypeOK, Empty, store
  <2>4. queue' \in Seq(Request)
    BY <1>e, <1>25 DEF BrowserRestart
  <2> QED
    BY <1>i, <2>1, <2>2, <2>3, <2>4 DEF TypeOK
<1>26. CASE UNCHANGED vars
  BY <1>26 DEF vars, store, work, history, faults, TypeOK
<1> QED
  BY <1>1, <1>2, <1>3, <1>4, <1>5, <1>6, <1>7, <1>8, <1>9, <1>10, <1>11, <1>12, <1>13,
     <1>14, <1>15, <1>16, <1>17, <1>18, <1>19, <1>20, <1>21, <1>22, <1>23, <1>24, <1>25,
     <1>26 DEF Next, Serve, Lookups

-----------------------------------------------------------------------------
\* Every step keeps the shape of the running job and the ids unique.
LEMMA ShapeStep == OneShotInv /\ [Next]_vars => Shape'
<1> SUFFICES ASSUME OneShotInv, [Next]_vars PROVE Shape'
  OBVIOUS
<1> USE DEF OneShotInv
<1>1. ASSUME NEW r, Enqueue(r) PROVE Shape'
  BY <1>1, CoreFrame DEF Enqueue, core, store, history
<1>2. ASSUME NEW t \in Tabs, NEW u \in Urls, NEW c \in Cvs \cup {None}, RequestArm(t, u, c)
      PROVE  Shape'
  BY <1>1, <1>2 DEF RequestArm
<1>3. ASSUME NEW t \in Tabs, NEW u \in Urls, NEW op \in Lookups, RequestLookup(op, t, u)
      PROVE  Shape'
  BY <1>1, <1>3 DEF RequestLookup
<1>4. CASE RequestClear
  BY <1>1, <1>4 DEF RequestClear
<1>5. ASSUME NEW t \in Tabs, RequestClearTab(t) PROVE Shape'
  BY <1>1, <1>5 DEF RequestClearTab
<1>h. ASSUME NEW ops, Starting(ops)
      PROVE  /\ Head(queue) \in Request /\ Head(queue).op \in ops
             /\ UNCHANGED <<session, granted, armed>>
  BY <1>h, QueueTyped DEF Starting, TypeOK, store, history
<1>6. CASE StartArm
  <2> DEFINE r == Head(queue)
             e == [id |-> armed + 1, url |-> r.url, exp |-> r.at + TTL, cv |-> r.cv]
             l == [Unexpired(session, r.at) EXCEPT ![r.tab] = e]
             s == IF r.cv = None THEN "set" ELSE "put"
  <2>1. Begin(l, s) /\ r.op = "arm" /\ UNCHANGED <<session, granted, armed>>
    BY <1>6, <1>h DEF StartArm
  <2>2. \A t \in Tabs : l[t] # None => l[t] = session[t] \/ (t = r.tab /\ l[t] = e)
    BY DEF Unexpired
  <2> QED
    BY <2>1, <2>2, BeginFrame
<1>7. CASE LookupMisses
  BY <1>7, CoreFrame DEF LookupMisses, Starting, core, history, store
<1>l. ASSUME Starting(Lookups)
      PROVE  Head(queue).op \in Lookups /\ Head(queue).tab \in Tabs
  BY <1>l, <1>h, RequestFields DEF Lookups
<1>8. CASE LookupFindsExpired
  <2> DEFINE r == Head(queue)
             l == Without(session, r.tab)
  <2>1. Begin(l, "set") /\ r.op \in Lookups /\ r.tab \in Tabs
        /\ UNCHANGED <<session, granted, armed>>
    BY <1>8, <1>h, <1>l DEF LookupFindsExpired, Lookups
  <2>2. l[r.tab] = None /\ \A t \in Tabs : l[t] # None => l[t] = session[t]
    BY <2>1 DEF Without, TypeOK
  <2> QED
    BY <2>1, <2>2, BeginFrame
<1>9. CASE LookupMatches
  <2> DEFINE r == Head(queue)
             l == IF r.op = "consume" THEN Without(session, r.tab) ELSE session
  <2>1. Begin(l, "get") /\ r.op \in Lookups /\ r.tab \in Tabs /\ session[r.tab] # None
        /\ UNCHANGED <<session, granted, armed>>
    BY <1>9, <1>h, <1>l DEF LookupMatches, HoldsArm, Lookups
  <2>2. (r.op = "consume" => l[r.tab] = None) /\ \A t \in Tabs : l[t] # None => l[t] = session[t]
    BY <2>1 DEF Without, TypeOK
  <2>3. r.op = "peek" => l = session
    OBVIOUS
  <2> QED
    BY <2>1, <2>2, <2>3, BeginFrame
<1>10. CASE StartSweep
  <2> DEFINE l == Unexpired(session, Head(queue).at)
  <2>1. Begin(l, "set") /\ Head(queue).op = "sweep" /\ UNCHANGED <<session, granted, armed>>
    BY <1>10, <1>h DEF StartSweep
  <2>2. \A t \in Tabs : l[t] # None => l[t] = session[t]
    BY DEF Unexpired
  <2> QED
    BY <2>1, <2>2, BeginFrame
<1>11. CASE StartClear
  <2>1. Begin(Empty, "set") /\ Head(queue).op = "clear" /\ UNCHANGED <<session, granted, armed>>
    BY <1>11, <1>h DEF StartClear
  <2>2. \A t \in Tabs : Empty[t] = None
    BY DEF Empty
  <2> QED
    BY <2>1, <2>2, BeginFrame
<1>12. CASE StartClearTab
  <2> DEFINE l == Without(session, Head(queue).tab)
  <2>1. Begin(l, "set") /\ Head(queue).op = "clearTab" /\ UNCHANGED <<session, granted, armed>>
    BY <1>12, <1>h DEF StartClearTab
  <2>2. \A t \in Tabs : l[t] # None => l[t] = session[t]
    BY DEF Without, TypeOK
  <2> QED
    BY <2>1, <2>2, BeginFrame
<1>13. CASE Put
  BY <1>13 DEF Put, At, Shape, JobShape, CopyShape, IdsAreUnique, FoundIsTaken, NewEntry, history
<1>14. CASE Get
  <2> DEFINE entry == session[job.tab]
  <2>1. job.op \in Lookups /\ entry # None /\ step = "get" /\ job.tab \in Tabs
    BY <1>14, RequestFields DEF Get, At, Shape, JobShape, TypeOK, Lookups
  <2>2. /\ found' # None => found'.entry = entry
        /\ step' = (IF job.op = "consume" THEN "set" ELSE "alarm")
        /\ UNCHANGED <<session, job, local, granted, armed>>
    BY <1>14 DEF Get, store, history
  <2>3. JobShape'
    BY <2>1, <2>2 DEF JobShape
  <2>4. CopyShape'
    BY <2>1, <2>2 DEF Shape, CopyShape, Lookups
  <2>5. IdsAreUnique'
    BY <2>2 DEF Shape, IdsAreUnique
  <2>6. FoundIsTaken'
    BY <2>1, <2>2 DEF Shape, FoundIsTaken, IdsAreUnique
  <2> QED
    BY <2>3, <2>4, <2>5, <2>6 DEF Shape
<1>15. CASE Persist
  <2>1. /\ step = "set" /\ step' \in {"sweep", "delete", "alarm"} /\ session' = local
        /\ armed' = (IF job.op = "arm" THEN armed + 1 ELSE armed)
        /\ UNCHANGED <<job, local, found, granted>> /\ job \in Request
    BY <1>15 DEF Persist, At, AfterDelete, TypeOK
  <2>2. JobShape' /\ CopyShape'
    BY <2>1 DEF Shape, JobShape, CopyShape
  <2>3. \A t \in Tabs : local[t] # None =>
          local[t] = session[t] \/ (job.op = "arm" /\ t = job.tab /\ local[t].id = armed + 1)
    BY <2>1 DEF Shape, CopyShape, NewEntry
  <2>4. /\ armed \in Nat /\ granted \subseteq Nat
        /\ \A t \in Tabs : session[t] # None => session[t].id \in Nat
    BY DEF TypeOK, Entry
  <2>5. IdsAreUnique'
    <3>1. (\A i \in granted : i <= armed)'
      BY <2>1, <2>4 DEF Shape, IdsAreUnique
    <3>2. (\A t \in Tabs : session[t] # None =>
             session[t].id <= armed /\ session[t].id \notin granted)'
      BY <2>1, <2>3, <2>4 DEF Shape, IdsAreUnique
    <3>3. (\A t, u \in Tabs : session[t] # None /\ session[u] # None /\ t # u
             => session[t].id # session[u].id)'
      BY <2>1, <2>3, <2>4 DEF Shape, IdsAreUnique
    <3> QED
      BY <3>1, <3>2, <3>3 DEF IdsAreUnique
  <2>6. FoundIsTaken'
    <3> SUFFICES ASSUME found # None, job.op = "consume"
                 PROVE  /\ found.entry.id <= armed
                        /\ found.entry.id \notin granted
                        /\ \A t \in Tabs : local[t] # None => local[t].id # found.entry.id
      BY <2>1 DEF FoundIsTaken
    <3>1. /\ session[job.tab] = found.entry /\ session[job.tab] # None
          /\ local[job.tab] = None /\ job.tab \in Tabs
      BY <2>1, RequestFields DEF Shape, FoundIsTaken
    <3> QED
      BY <2>1, <2>3, <3>1 DEF Shape, FoundIsTaken, IdsAreUnique
  <2> QED
    BY <2>2, <2>5, <2>6 DEF Shape
<1>16. CASE SweepPayloads
  BY <1>16 DEF SweepPayloads, At, Shape, JobShape, CopyShape, IdsAreUnique, FoundIsTaken, history
<1>17. CASE Finish
  <2>1. /\ step = "alarm" /\ Idle /\ UNCHANGED <<session, armed>>
        /\ granted' = (IF job.op = "consume" /\ found # None
                       THEN granted \cup {found.entry.id} ELSE granted)
    BY <1>17 DEF Finish, At
  <2>2. IdsAreUnique'
    BY <2>1 DEF Shape, IdsAreUnique, FoundIsTaken
  <2> QED
    BY <2>1, <2>2 DEF Idle, Shape, JobShape, CopyShape, FoundIsTaken
<1>18. ASSUME NEW c \in Cvs, DeletePayload(c) PROVE Shape'
  <2>1. step = "delete" /\ step' \in {"sweep", "delete", "alarm"}
        /\ UNCHANGED <<session, job, local, found, granted, armed>>
    BY <1>18 DEF DeletePayload, At, AfterDelete, history
  <2> QED
    BY <2>1 DEF Shape, JobShape, CopyShape, IdsAreUnique, FoundIsTaken
<1>19. CASE Tick
  BY <1>19, CoreFrame DEF Tick, core, store, work, history
<1>20. CASE Wake
  BY <1>20, CoreFrame DEF Wake, core, store, history
<1>21. CASE AlarmFires
  BY <1>21, CoreFrame DEF AlarmFires, core, history
<1>22. CASE JobFails
  BY <1>22, IdleFrame DEF JobFails, store, history
<1>23. CASE ReadFails
  BY <1>23, CoreFrame DEF ReadFails, core, store, history
<1>24. CASE Suspend
  BY <1>24, CoreFrame DEF Suspend, core, store, work, history
<1>25. CASE Kill
  BY <1>25, IdleFrame DEF Kill, store, history
<1>26. CASE BrowserRestart
  BY <1>26, IdleFrame DEF BrowserRestart, history
<1>27. CASE UNCHANGED vars
  BY <1>27, CoreFrame DEF vars, core, store, work, history
<1> QED
  BY <1>2, <1>3, <1>4, <1>5, <1>6, <1>7, <1>8, <1>9, <1>10, <1>11, <1>12, <1>13, <1>14,
     <1>15, <1>16, <1>17, <1>18, <1>19, <1>20, <1>21, <1>22, <1>23, <1>24, <1>25, <1>26,
     <1>27 DEF Next, Serve, Lookups

\* The invariant is inductive.
LEMMA InductiveOneShot == Spec => []OneShotInv
<1>1. OneShotInv /\ [Next]_vars => OneShotInv'
  BY TypeStep, ShapeStep DEF OneShotInv, Shape
<1> QED
  BY InitOneShot, <1>1, PTL DEF Spec

\* Type correctness: every variable of the store has its type in every state,
\* whichever requests, failures, kills and restarts come together.
THEOREM TypeCorrect == Spec => []TypeOK
<1>1. OneShotInv => TypeOK
  BY DEF OneShotInv
<1> QED
  BY InductiveOneShot, <1>1, PTL

\* One-shot arms: no consume ever materializes an arm that was granted before
\* (SessionArmingStore.consume), for any number of tabs and requests.
THEOREM OneShot == Spec => []NoSecondGrant
<1>1. OneShotInv => NoSecondGrant
  BY DEF OneShotInv, Shape, FoundIsTaken, NoSecondGrant
<1> QED
  BY InductiveOneShot, <1>1, PTL
-----------------------------------------------------------------------------
(* The payload invariant. *)

\* Taking the oldest request leaves later ones; a new one is the latest.
LEMMA QueueOrder ==
  ASSUME TypeOK, TimesOrdered
  PROVE  /\ queue # <<>> =>
              /\ Head(queue).at \in Times
              /\ \A i \in DOMAIN Tail(queue) :
                   /\ Tail(queue)[i].at \in Times
                   /\ Head(queue).at <= Tail(queue)[i].at
              /\ \A i, j \in DOMAIN Tail(queue) :
                   i <= j => Tail(queue)[i].at <= Tail(queue)[j].at
         /\ \A r \in Request : r.at = now =>
              /\ \A i \in DOMAIN Append(queue, r) :
                   Append(queue, r)[i].at \in Times \cup {now}
              /\ \A i, j \in DOMAIN Append(queue, r) :
                   i <= j => Append(queue, r)[i].at <= Append(queue, r)[j].at
<1>0. queue \in Seq(Request) /\ \A i \in DOMAIN queue : queue[i].at \in Times /\ queue[i].at <= now
  BY DEF TypeOK, Times, TimesOrdered
<1>t. \A i \in DOMAIN queue : queue[i].at \in Nat
  <2>1. \A i \in DOMAIN queue : queue[i] \in Request
    BY <1>0
  <2> QED
    BY <2>1, RequestFields
<1>1. ASSUME queue # <<>>
      PROVE  /\ Head(queue).at \in Times
             /\ \A i \in DOMAIN Tail(queue) :
                  /\ Tail(queue)[i].at \in Times
                  /\ Head(queue).at <= Tail(queue)[i].at
             /\ \A i, j \in DOMAIN Tail(queue) :
                  i <= j => Tail(queue)[i].at <= Tail(queue)[j].at
  <2>1. /\ Head(queue) = queue[1] /\ 1 \in DOMAIN queue
        /\ \A i \in DOMAIN Tail(queue) : /\ i \in Nat /\ i + 1 \in DOMAIN queue /\ 1 <= i + 1
                                         /\ Tail(queue)[i] = queue[i + 1]
    BY <1>0, <1>1
  <2>2. \A i, j \in DOMAIN queue : i <= j => queue[i].at <= queue[j].at
    BY DEF TimesOrdered
  <2>3. \A i, j \in DOMAIN Tail(queue) : i <= j => i + 1 <= j + 1
    BY <2>1
  <2> QED
    BY <1>0, <2>1, <2>2, <2>3
<1>2. ASSUME NEW r \in Request, r.at = now
      PROVE  /\ \A i \in DOMAIN Append(queue, r) :
                  Append(queue, r)[i].at \in Times \cup {now}
             /\ \A i, j \in DOMAIN Append(queue, r) :
                  i <= j => Append(queue, r)[i].at <= Append(queue, r)[j].at
  <2> DEFINE q == Append(queue, r)
  <2>1. \A i \in DOMAIN q : \/ i \in DOMAIN queue /\ q[i] = queue[i]
                            \/ i = Len(queue) + 1 /\ q[i] = r
    BY <1>0
  <2>2. \A i \in DOMAIN queue : i \in Nat /\ i <= Len(queue)
    BY <1>0
  <2>3. Len(queue) \in Nat /\ now \in Nat
    BY <1>0 DEF TypeOK
  <2> QED
    BY <1>0, <1>2, <2>1, <2>2, <2>3 DEF TimesOrdered
<1> QED
  BY <1>1, <1>2

\* What a step does to the waiting requests, and that it keeps them in order:
\* requests are added with the current time, moved to the job, and removed.
LEMMA TimesStep ==
  ASSUME TypeOK, TimesOrdered, [Next]_vars
  PROVE  /\ TimesOrdered'
         /\ Times' \subseteq Times \cup {now}
         /\ now' = now \/ Tick
<1>0. /\ now \in Nat
      /\ \A a \in Times : a <= now
      /\ job # None => job.at \in Times /\ job.at <= now
      /\ \A i \in DOMAIN queue : queue[i].at \in Times
      /\ job # None => \A a \in Times : job.at <= a
  BY DEF TypeOK, TimesOrdered, Times
<1>1. ASSUME UNCHANGED <<queue, job, now>>
      PROVE  TimesOrdered' /\ Times' = Times
  <2>1. Times' = Times
    BY <1>1 DEF Times
  <2> QED
    BY <1>1, <2>1 DEF TimesOrdered
<1>2. ASSUME NEW r \in Request, r.at = now, queue' = Append(queue, r), UNCHANGED <<job, now>>
      PROVE  TimesOrdered' /\ Times' \subseteq Times \cup {now}
  <2>1. Times' \subseteq Times \cup {now}
    BY <1>0, <1>2, QueueOrder DEF Times
  <2>2. (\A i, j \in DOMAIN queue : i <= j => queue[i].at <= queue[j].at)'
    BY <1>2, QueueOrder
  <2> QED
    BY <1>0, <1>2, <2>1, <2>2 DEF TimesOrdered
<1>3. ASSUME queue # <<>>, queue' = Tail(queue), job' \in {job, Head(queue), None}, job' = job => job = None,
             UNCHANGED now
      PROVE  TimesOrdered' /\ Times' \subseteq Times \cup {now}
  <2>1. Times' \subseteq Times /\ (job' # None => \A a \in Times' : job'.at <= a)
    <3>1. Head(queue) \in Request
      BY <1>3, QueueTyped DEF TypeOK
    <3>2. Head(queue).at <= Head(queue).at
      BY <3>1, RequestFields
    <3> QED
      BY <1>0, <1>3, <3>2, QueueOrder DEF Times
  <2>2. (\A i, j \in DOMAIN queue : i <= j => queue[i].at <= queue[j].at)'
    BY <1>3, QueueOrder
  <2> QED
    BY <1>0, <1>3, <2>1, <2>2 DEF TimesOrdered
<1>4. ASSUME job' = None, UNCHANGED <<queue, now>>
      PROVE  TimesOrdered' /\ Times' \subseteq Times \cup {now}
  <2>1. Times' \subseteq Times
    BY <1>4 DEF Times
  <2> QED
    BY <1>0, <1>4, <2>1 DEF TimesOrdered
<1>5. ASSUME queue' \in {<<>>, <<SweepRequest>>, <<SweepRequest, SweepRequest>>},
             job' \in {job, None}, UNCHANGED now
      PROVE  TimesOrdered' /\ Times' \subseteq Times \cup {now}
  <2>1. \A i \in DOMAIN queue' : queue'[i].at = now
    BY <1>5 DEF SweepRequest, Ask
  <2>2. Times' \subseteq Times \cup {now} /\ (job' # None => job'.at \in Times')
    BY <1>0, <1>5, <2>1 DEF Times
  <2>3. \A a \in Times' : a <= now /\ (job' # None => job'.at <= a)
    BY <1>0, <1>5, <2>1, <2>2
  <2>4. \A i, j \in DOMAIN queue' : i <= j => queue'[i].at <= queue'[j].at
    BY <1>0, <2>1
  <2> QED
    BY <1>5, <2>2, <2>3, <2>4 DEF TimesOrdered
<1>r. /\ SweepRequest \in Request /\ SweepRequest.at = now
      /\ Ask("clear", None, None, None) \in Request /\ Ask("clear", None, None, None).at = now
      /\ \A t \in Tabs : Ask("clearTab", t, None, None) \in Request
                         /\ Ask("clearTab", t, None, None).at = now
      /\ \A t \in Tabs, u \in Urls, op \in Lookups :
           Ask(op, t, u, None) \in Request /\ Ask(op, t, u, None).at = now
      /\ \A t \in Tabs, u \in Urls, c \in Cvs \cup {None} :
           Ask("arm", t, u, c) \in Request /\ Ask("arm", t, u, c).at = now
  BY <1>0, RequestsMade DEF SweepRequest, Ask
<1>6. CASE \/ \E t \in Tabs, u \in Urls, c \in Cvs \cup {None} : RequestArm(t, u, c)
           \/ \E op \in Lookups, t \in Tabs, u \in Urls : RequestLookup(op, t, u)
           \/ RequestClear
           \/ \E t \in Tabs : RequestClearTab(t)
  <2>1. \E r \in Request : r.at = now /\ Enqueue(r)
    BY <1>6, <1>r DEF RequestArm, RequestLookup, RequestClear, RequestClearTab
  <2> QED
    BY <1>2, <2>1 DEF Enqueue
<1>7. CASE StartArm \/ LookupFindsExpired \/ LookupMatches \/ StartSweep \/ StartClear \/ StartClearTab
  <2>1. /\ queue # <<>> /\ queue' = Tail(queue) /\ job' = Head(queue)
        /\ job = None /\ UNCHANGED now
    BY <1>7 DEF StartArm, LookupFindsExpired, LookupMatches, StartSweep, StartClear,
                StartClearTab, Starting, Begin
  <2> QED
    BY <1>3, <2>1
<1>8. CASE LookupMisses \/ ReadFails
  BY <1>3, <1>8 DEF LookupMisses, ReadFails, Starting
<1>9. CASE Put \/ Get \/ Persist \/ SweepPayloads \/ (\E c \in Cvs : DeletePayload(c))
  BY <1>1, <1>9 DEF Put, Get, Persist, SweepPayloads, DeletePayload
<1>10. CASE Finish \/ JobFails
  BY <1>4, <1>10 DEF Finish, JobFails, Idle
<1>11. CASE Tick
  <2>1. Times' = Times /\ now' = now + 1
    BY <1>11 DEF Tick, Times, work
  <2> QED
    <3>1. UNCHANGED <<queue, job>>
      BY <1>11 DEF Tick, work
    <3>2. \A a \in Times : a \in Nat
      <4>1. \A i \in DOMAIN queue : queue[i] \in Request
        BY DEF TypeOK
      <4> QED
        BY <4>1, RequestFields DEF Times, TypeOK
    <3>3. \A a \in Times : a <= now + 1
      BY <1>0, <3>2
    <3> QED
      BY <1>0, <1>11, <2>1, <3>1, <3>3 DEF TimesOrdered
<1>12. CASE Wake
  BY <1>5, <1>12 DEF Wake
<1>13. CASE AlarmFires
  BY <1>2, <1>5, <1>13, <1>r DEF AlarmFires
<1>14. CASE Kill \/ BrowserRestart
  BY <1>5, <1>14 DEF Kill, BrowserRestart, Idle
<1>15. CASE Suspend \/ UNCHANGED vars
  BY <1>1, <1>15 DEF Suspend, vars, work
<1> QED
  BY <1>6, <1>7, <1>8, <1>9, <1>10, <1>11, <1>12, <1>13, <1>14, <1>15
     DEF Next, Serve, Lookups
\* Every step keeps the job's copy exact.
LEMMA CopyStep ==
  ASSUME OneShotInv, CopyIsExact, [Next]_vars
  PROVE  CopyIsExact'
<1> USE DEF OneShotInv, Shape
<1>1. ASSUME UNCHANGED core, UNCHANGED released PROVE CopyIsExact'
  BY <1>1 DEF CopyIsExact, core, NewEntry, HoldsArm
<1>2. ASSUME Idle PROVE CopyIsExact'
  BY <1>2 DEF CopyIsExact, Idle
<1>3. ASSUME NEW ops, Starting(ops)
      PROVE  /\ Head(queue) \in Request /\ Head(queue).op \in ops /\ Head(queue) # None
             /\ UNCHANGED <<session, armed>>
  BY <1>3, QueueTyped, NoneAssumption DEF Starting, TypeOK, store, history
<1>4. ASSUME NEW r, Enqueue(r) PROVE CopyIsExact'
  BY <1>1, <1>4 DEF Enqueue, core, store, history
<1>5. CASE \/ \E t \in Tabs, u \in Urls, c \in Cvs \cup {None} : RequestArm(t, u, c)
           \/ \E op \in Lookups, t \in Tabs, u \in Urls : RequestLookup(op, t, u)
           \/ RequestClear
           \/ \E t \in Tabs : RequestClearTab(t)
  BY <1>4, <1>5 DEF RequestArm, RequestLookup, RequestClear, RequestClearTab
<1>6. CASE StartArm
  BY <1>3, <1>6 DEF StartArm, Begin, CopyIsExact, NewEntry, Lookups
<1>7. CASE LookupMisses
  BY <1>1, <1>7 DEF LookupMisses, Starting, core, store, history
<1>8. CASE LookupFindsExpired
  BY <1>3, <1>8 DEF LookupFindsExpired, Begin, CopyIsExact, HoldsArm, Lookups
<1>9. CASE LookupMatches
  BY <1>3, <1>9 DEF LookupMatches, Begin, CopyIsExact, HoldsArm, Lookups
<1>10. CASE StartSweep
  BY <1>3, <1>10 DEF StartSweep, Begin, CopyIsExact, Lookups
<1>11. CASE StartClear
  BY <1>3, <1>11 DEF StartClear, Begin, CopyIsExact, Lookups
<1>12. CASE StartClearTab
  BY <1>3, <1>12 DEF StartClearTab, Begin, CopyIsExact, Lookups
<1>13. CASE Put
  BY <1>13 DEF Put, At, CopyIsExact, JobShape, NewEntry, Lookups, history
<1>14. CASE Get
  <2>1. /\ step = "get" /\ job.op \in Lookups /\ job # None /\ job.tab \in Tabs
        /\ session[job.tab] \in Entry
        /\ UNCHANGED <<session, job, local, released>>
        /\ found' = [entry |-> session[job.tab],
                     cv |-> IF session[job.tab].cv # None /\ payloads[session[job.tab].cv] = 0
                            THEN None ELSE session[job.tab].cv]
        /\ step' = IF job.op = "consume" THEN "set" ELSE "alarm"
    BY <1>14, RequestFields DEF Get, At, JobShape, TypeOK, Lookups, store
  <2>2. found' # None
    BY <2>1, NoneAssumption DEF Match, Entry
  <2> QED
    BY <2>1, <2>2 DEF CopyIsExact, HoldsArm, Lookups
<1>15. CASE Persist \/ SweepPayloads \/ (\E c \in Cvs : DeletePayload(c))
  <2>1. job # None /\ UNCHANGED job /\ step' \in {"sweep", "delete", "alarm"}
    BY <1>15 DEF Persist, SweepPayloads, DeletePayload, At, AfterDelete
  <2> QED
    BY <2>1 DEF CopyIsExact
<1>16. CASE Finish \/ JobFails \/ Kill \/ BrowserRestart
  BY <1>2, <1>16 DEF Finish, JobFails, Kill, BrowserRestart
<1>17. CASE Tick \/ Wake \/ AlarmFires \/ ReadFails \/ Suspend \/ UNCHANGED vars
  BY <1>1, <1>17 DEF Tick, Wake, AlarmFires, ReadFails, Suspend, vars, core, store, work, history
<1> QED
  BY <1>5, <1>6, <1>7, <1>8, <1>9, <1>10, <1>11, <1>12, <1>13, <1>14, <1>15, <1>16, <1>17
     DEF Next, Serve, Lookups
\* Every step keeps what is to be deleted unused.
LEMMA ReleasedStep ==
  ASSUME OneShotInv, CopyIsExact, ReleasedIsUnused, [Next]_vars
  PROVE  ReleasedIsUnused'
<1>1. ASSUME UNCHANGED <<session, local, released>>,
             step' \in {step, "delete", "sweep", "alarm"} \/ step \in {"put", "get", "set"}
      PROVE  ReleasedIsUnused'
  BY <1>1 DEF ReleasedIsUnused
<1>2. ASSUME Idle PROVE ReleasedIsUnused'
  BY <1>2 DEF ReleasedIsUnused, Idle
<1>3. ASSUME NEW ops, Starting(ops), NEW l, NEW s, Begin(l, s) PROVE ReleasedIsUnused'
  BY <1>3 DEF ReleasedIsUnused, Starting, Begin, store
<1>4. CASE \/ \E t \in Tabs, u \in Urls, c \in Cvs \cup {None} : RequestArm(t, u, c)
           \/ \E op \in Lookups, t \in Tabs, u \in Urls : RequestLookup(op, t, u)
           \/ RequestClear
           \/ \E t \in Tabs : RequestClearTab(t)
  BY <1>1, <1>4 DEF RequestArm, RequestLookup, RequestClear, RequestClearTab, Enqueue, store
<1>5. CASE StartArm \/ LookupFindsExpired \/ LookupMatches \/ StartSweep \/ StartClear \/ StartClearTab
  BY <1>3, <1>5 DEF StartArm, LookupFindsExpired, LookupMatches, StartSweep, StartClear, StartClearTab
<1>6. CASE LookupMisses
  BY <1>1, <1>6 DEF LookupMisses, Starting, store
<1>7. CASE Put \/ Get
  BY <1>1, <1>7 DEF Put, Get, At, store
<1>8. CASE SweepPayloads
  BY <1>1, <1>8 DEF SweepPayloads
<1>9. CASE Persist
  BY <1>9 DEF Persist, AfterDelete, ReleasedIsUnused
<1>10. ASSUME NEW c \in Cvs, DeletePayload(c) PROVE ReleasedIsUnused'
  BY <1>10 DEF DeletePayload, AfterDelete, ReleasedIsUnused
<1>11. CASE Finish \/ JobFails \/ Kill \/ BrowserRestart
  BY <1>2, <1>11 DEF Finish, JobFails, Kill, BrowserRestart
<1>12. CASE Tick \/ Wake \/ AlarmFires \/ ReadFails \/ Suspend \/ UNCHANGED vars
  BY <1>1, <1>12 DEF Tick, Wake, AlarmFires, ReadFails, Suspend, vars, store, work
<1> QED
  BY <1>4, <1>5, <1>6, <1>7, <1>8, <1>9, <1>10, <1>11, <1>12 DEF Next, Serve, Lookups

\* Every step keeps the payloads of the arms: what a job deletes or sweeps is
\* unused, or expired for every request that was made after the job's.
LEMMA KeepStep ==
  ASSUME OneShotInv, TimesOrdered, ReleasedIsUnused, ArmsKeepPayloads, [Next]_vars
  PROVE  ArmsKeepPayloads'
<1> USE SessionArmingAssumption DEF OneShotInv, Shape
<1>0. /\ now \in Nat /\ now' \in Nat /\ now <= now'
      /\ \A a \in Times \cup {now} : a \in Nat
      /\ \A a \in Times' : a \in Times \cup {now}
      /\ \A t \in Tabs : session[t] # None =>
           /\ session[t].exp \in Nat
           /\ session[t].cv # None => session[t].cv \in Cvs /\ session[t].cv \in PayloadIds(session)
      /\ \A c \in Cvs : payloads[c] \in Nat
  <2>1. now \in Nat /\ Times' \subseteq Times \cup {now} /\ (now' = now \/ now' = now + 1)
    BY TimesStep DEF TypeOK, Tick
  <2>2. \A a \in Times : a \in Nat
    <3>1. \A i \in DOMAIN queue : queue[i] \in Request
      BY DEF TypeOK
    <3> QED
      BY <3>1, RequestFields DEF Times, TypeOK
  <2>3. \A t \in Tabs : session[t] # None =>
           /\ session[t].exp \in Nat
           /\ session[t].cv # None => session[t].cv \in Cvs /\ session[t].cv \in PayloadIds(session)
    BY DEF TypeOK, Entry, PayloadIds
  <2> QED
    BY <2>1, <2>2, <2>3 DEF TypeOK
\* An arm that was there has its payload so far.
<1>1. ASSUME NEW t \in Tabs, session[t] # None, session[t].cv # None,
             NEW a \in Times' \cup {now'}, session[t].exp > a
      PROVE  payloads[session[t].cv] >= session[t].exp
  <2>1. \E b \in Times \cup {now} : session[t].exp > b
    BY <1>0, <1>1
  <2> QED
    BY <1>1, <2>1 DEF ArmsKeepPayloads
\* Fewer arms and larger expiries do no harm.
<1>2. ASSUME \A t \in Tabs : session'[t] # None => session'[t] = session[t],
             \A c \in PayloadIds(session) : payloads'[c] = payloads[c],
             step' = "set" => \/ UNCHANGED <<step, job, payloads>>
                              \/ job'.op = "arm" => job'.cv = None
      PROVE  ArmsKeepPayloads'
  BY <1>0, <1>1, <1>2 DEF ArmsKeepPayloads
<1>3. CASE \/ \E t \in Tabs, u \in Urls, c \in Cvs \cup {None} : RequestArm(t, u, c)
           \/ \E op \in Lookups, t \in Tabs, u \in Urls : RequestLookup(op, t, u)
           \/ RequestClear
           \/ \E t \in Tabs : RequestClearTab(t)
  BY <1>2, <1>3 DEF RequestArm, RequestLookup, RequestClear, RequestClearTab, Enqueue, store
<1>4. CASE StartArm \/ LookupFindsExpired \/ LookupMatches \/ StartSweep \/ StartClear \/ StartClearTab
  <2>1. UNCHANGED <<session, payloads>>
    BY <1>4 DEF StartArm, LookupFindsExpired, LookupMatches, StartSweep, StartClear,
                StartClearTab, Starting, store
  <2>2. step' = "set" => (job'.op = "arm" => job'.cv = None)
    BY <1>4 DEF StartArm, LookupFindsExpired, LookupMatches, StartSweep, StartClear,
                StartClearTab, Starting, Begin
  <2> QED
    BY <1>2, <2>1, <2>2
<1>5. CASE LookupMisses
  BY <1>2, <1>5 DEF LookupMisses, Starting, store
<1>6. CASE Put
  <2>1. job.at + TTL \in Nat /\ job.cv \in Cvs
    BY <1>6, RequestFields DEF Put, At, TypeOK, JobShape
  <2> DEFINE n == job.at + TTL
  <2>2. UNCHANGED <<session, job>> /\ step = "put" /\ step' = "set"
        /\ payloads' = [payloads EXCEPT ![job.cv] = IF payloads[job.cv] > n THEN payloads[job.cv] ELSE n]
    BY <1>6 DEF Put, At
  <2>3. /\ \A c \in Cvs : payloads'[c] \in Nat /\ payloads'[c] >= payloads[c]
        /\ payloads'[job.cv] >= n
    <3> HIDE DEF n
    <3>1. n \in Nat /\ payloads \in [Cvs -> Nat]
      BY <2>1 DEF n, TypeOK
    <3>2. \A c \in Cvs : c # job.cv => payloads'[c] = payloads[c]
      BY <2>2, <3>1
    <3>3. payloads'[job.cv] = IF payloads[job.cv] > n THEN payloads[job.cv] ELSE n
      BY <2>1, <2>2, <3>1
    <3>4. payloads'[job.cv] \in Nat /\ payloads'[job.cv] >= n /\ payloads'[job.cv] >= payloads[job.cv]
      BY <2>1, <3>1, <3>3
    <3> QED
      BY <3>1, <3>2, <3>4
  <2>4. ASSUME NEW t \in Tabs, session[t] # None, session[t].cv # None,
               NEW a \in Times' \cup {now'}, session[t].exp > a
        PROVE  payloads'[session[t].cv] >= session[t].exp
    BY <1>0, <1>1, <2>3, <2>4
  <2> QED
    BY <2>2, <2>3, <2>4 DEF ArmsKeepPayloads
<1>7. CASE Get
  BY <1>2, <1>7 DEF Get, At, JobShape, Lookups, store
<1>8. CASE Persist
  <2>1. /\ step = "set" /\ session' = local /\ UNCHANGED <<payloads, job>>
        /\ step' # "set" /\ job \in Request
    BY <1>8 DEF Persist, At, AfterDelete, TypeOK
  <2>2. ASSUME NEW t \in Tabs, local[t] # None, local[t].cv # None,
               NEW a \in Times' \cup {now'}, local[t].exp > a
        PROVE  payloads[local[t].cv] >= local[t].exp
    <3>1. CASE local[t] = session[t]
      BY <1>1, <2>2, <3>1
    <3>2. CASE job.op = "arm" /\ local[t] = NewEntry
      BY <2>1, <2>2, <3>2 DEF ArmsKeepPayloads, NewEntry
    <3> QED
      BY <2>1, <2>2, <3>1, <3>2 DEF CopyShape
  <2> QED
    BY <2>1, <2>2 DEF ArmsKeepPayloads
<1>9. CASE SweepPayloads
  <2>1. /\ step = "sweep" /\ job # None /\ local = session /\ payloads' = SweptPayloads
        /\ UNCHANGED <<session, job>> /\ step' # "set"
    BY <1>9 DEF SweepPayloads, At, CopyShape
  <2>2. job.at \in Times /\ job.at \in Nat /\ \A a \in Times \cup {now} : job.at <= a
    BY <1>0, <2>1 DEF Times, TimesOrdered
  <2>3. ASSUME NEW t \in Tabs, session[t] # None, session[t].cv # None,
               NEW a \in Times' \cup {now'}, session[t].exp > a
        PROVE  payloads'[session[t].cv] >= session[t].exp
    <3>1. /\ payloads[session[t].cv] >= session[t].exp
          /\ session[t].cv \in Cvs /\ session[t].cv \in PayloadIds(session)
      BY <1>0, <1>1, <2>3
    <3>2. job.at <= a /\ a \in Nat
      BY <1>0, <2>2
    <3>3. ~(payloads[session[t].cv] <= job.at)
      BY <1>0, <2>2, <2>3, <3>1, <3>2
    <3>4. payloads'[session[t].cv] = payloads[session[t].cv]
      BY <2>1, <3>1, <3>3 DEF SweptPayloads
    <3> QED
      BY <3>1, <3>4
  <2> QED
    BY <2>1, <2>3 DEF ArmsKeepPayloads
<1>10. ASSUME NEW c \in Cvs, DeletePayload(c) PROVE ArmsKeepPayloads'
  <2>1. /\ step = "delete" /\ local = session /\ c \in released
        /\ payloads' = [payloads EXCEPT ![c] = 0]
        /\ UNCHANGED <<session, job>> /\ step' # "set"
    BY <1>10 DEF DeletePayload, At, AfterDelete, CopyShape
  <2>2. \A d \in PayloadIds(session) : d # c /\ d \in Cvs
    BY <2>1 DEF ReleasedIsUnused, PayloadIds, TypeOK, Entry
  <2>3. \A d \in PayloadIds(session) : payloads'[d] = payloads[d]
    BY <2>1, <2>2 DEF TypeOK
  <2> QED
    BY <1>2, <2>1, <2>3
<1>11. CASE Finish \/ JobFails \/ Kill
  BY <1>2, <1>11 DEF Finish, JobFails, Kill, Idle, store
<1>12. CASE BrowserRestart
  BY <1>2, <1>12 DEF BrowserRestart, Idle, Empty
<1>13. CASE Tick \/ Wake \/ AlarmFires \/ ReadFails \/ Suspend \/ UNCHANGED vars
  BY <1>2, <1>13 DEF Tick, Wake, AlarmFires, ReadFails, Suspend, vars, store, work
<1> QED
  BY <1>3, <1>4, <1>5, <1>6, <1>7, <1>8, <1>9, <1>10, <1>11, <1>12, <1>13
     DEF Next, Serve, Lookups

\* Every lookup that was asked in time finds the CV of its arm.
LEMMA MatchStep ==
  ASSUME OneShotInv, CopyIsExact, ArmsKeepPayloads, MatchedCvIsThere, [Next]_vars
  PROVE  MatchedCvIsThere'
<1>1. CASE Get
  <2> DEFINE e == session[job.tab]
  <2>1. /\ step = "get" /\ job # None /\ job.tab \in Tabs /\ e \in Entry /\ e # None
        /\ job.at \in Times /\ job.at \in Nat /\ ~Expired(e, job.at)
        /\ found' = [entry |-> e, cv |-> IF e.cv # None /\ payloads[e.cv] = 0 THEN None ELSE e.cv]
    BY <1>1, RequestFields
       DEF Get, At, OneShotInv, Shape, JobShape, TypeOK, Lookups, CopyIsExact, HoldsArm, Times
  <2>2. e.cv # None => payloads[e.cv] # 0
    <3>1. e.exp \in Nat /\ e.exp > job.at
      BY <2>1 DEF Expired, Entry
    <3>2. e.cv # None => payloads[e.cv] >= e.exp
      BY <2>1, <3>1 DEF ArmsKeepPayloads
    <3> QED
      BY <2>1, <3>1, <3>2
  <2> QED
    BY <2>1, <2>2 DEF MatchedCvIsThere
<1>2. CASE UNCHANGED found \/ found' = None
  BY <1>2 DEF MatchedCvIsThere
<1>3. CASE Serve /\ ~Get
  BY <1>2, <1>3 DEF Serve, StartArm, LookupMisses, LookupFindsExpired, LookupMatches, StartSweep,
     StartClear, StartClearTab, Begin, Put, Persist, DeletePayload, SweepPayloads, Finish, Idle
<1>4. CASE [Next]_vars /\ ~Serve
  BY <1>2, <1>4 DEF Next, vars, work, RequestArm, RequestLookup, RequestClear, RequestClearTab,
     Enqueue, Tick, Wake, AlarmFires, JobFails, ReadFails, Suspend, Kill, BrowserRestart, Idle
<1> QED
  BY <1>1, <1>3, <1>4
\* The payload invariant is inductive, together with the one-shot invariant.
StoreInv == OneShotInv /\ PayloadInv

LEMMA InductiveStore == Spec => []StoreInv
<1>1. Init => StoreInv
  <2> SUFFICES ASSUME Init PROVE StoreInv
    OBVIOUS
  <2>1. OneShotInv
    BY InitOneShot
  <2>2. CopyIsExact /\ MatchedCvIsThere
    BY DEF Init, CopyIsExact, MatchedCvIsThere
  <2>3. TimesOrdered
    BY DEF Init, TimesOrdered, Times, SweepRequest, Ask
  <2>4. ReleasedIsUnused /\ ArmsKeepPayloads
    BY DEF Init, ReleasedIsUnused, ArmsKeepPayloads, Empty
  <2> QED
    BY <2>1, <2>2, <2>3, <2>4 DEF StoreInv, PayloadInv
<1>2. StoreInv /\ [Next]_vars => StoreInv'
  <2> SUFFICES ASSUME StoreInv, [Next]_vars PROVE StoreInv'
    OBVIOUS
  <2> USE DEF StoreInv, PayloadInv
  <2>1. OneShotInv'
    BY TypeStep, ShapeStep DEF OneShotInv, Shape
  <2>2. CopyIsExact'
    BY CopyStep
  <2>3. TimesOrdered'
    BY TimesStep DEF OneShotInv
  <2>4. ReleasedIsUnused'
    BY ReleasedStep
  <2>5. ArmsKeepPayloads'
    BY KeepStep
  <2>6. MatchedCvIsThere'
    BY MatchStep
  <2> QED
    BY <2>1, <2>2, <2>3, <2>4, <2>5, <2>6
<1> QED
  BY <1>1, <1>2, PTL DEF Spec

\* CV bytes outlive their arm's need: IndexedDB holds the payload of every arm
\* that has not expired, whatever was put, deleted and swept for other arms, by
\* jobs that failed or were cut off at any await (cleanup and sweep, arming.ts).
THEOREM LiveArms == Spec => []LiveArmHasItsPayload
<1>1. StoreInv => LiveArmHasItsPayload
  BY DEF StoreInv, PayloadInv, ArmsKeepPayloads, LiveArmHasItsPayload
<1> QED
  BY InductiveStore, <1>1, PTL

\* A consume or peek that was asked in time materializes the CV of its arm, however
\* long it waited behind other requests and whatever they swept (materialize).
THEOREM MatchedCvs == Spec => []MatchedCvIsThere
<1>1. StoreInv => MatchedCvIsThere
  BY DEF StoreInv, PayloadInv
<1> QED
  BY InductiveStore, <1>1, PTL

-----------------------------------------------------------------------------
(* The store at rest. *)

\* Every step keeps the store tidy or a sweep under way.
LEMMA TidyStep ==
  ASSUME StoreInv, TidyInv, [Next]_vars
  PROVE  TidyInv'
<1> USE SessionArmingAssumption DEF StoreInv, PayloadInv
<1>0. /\ failures \in Nat
      /\ queue \in Seq(Request)
      /\ ~SweepWaits <=> \A i \in DOMAIN queue : queue[i].op # "sweep"
  BY DEF OneShotInv, TypeOK, SweepWaits
\* A step that forgets neither sweep, failure nor job, and moves no payload.
<1>1. ASSUME failures' = 0 => failures = 0, alive' => alive,
             SweepWaits => SweepWaits', WillSweep => WillSweep',
             step' = step, job' = job,
             UNCHANGED <<session, payloads, alarm, released>>
      PROVE  TidyInv'
  BY <1>1 DEF TidyInv
\* A step after which the worker is dead, a call has failed, or a sweep waits.
<1>2. ASSUME failures' # 0 \/ ~alive' \/ SweepWaits' \/ (WillSweep' /\ job' # None)
      PROVE  TidyInv'
  BY <1>2 DEF TidyInv
<1>3. ASSUME NEW r \in Request, queue' = Append(queue, r)
      PROVE  (SweepWaits => SweepWaits') /\ (r.op = "sweep" => SweepWaits')
  <2>1. /\ \A i \in DOMAIN queue : i \in DOMAIN queue' /\ queue'[i] = queue[i]
        /\ Len(queue) + 1 \in DOMAIN queue' /\ queue'[Len(queue) + 1] = r
    BY <1>0, <1>3
  <2> QED
    BY <2>1 DEF SweepWaits
<1>4. ASSUME queue # <<>>, queue' = Tail(queue), Head(queue).op # "sweep"
      PROVE  SweepWaits => SweepWaits'
  <2>1. \A i \in DOMAIN queue : i = 1 \/ (i - 1 \in DOMAIN queue' /\ queue'[i - 1] = queue[i])
    BY <1>0, <1>4
  <2>2. Head(queue) = queue[1]
    BY <1>0, <1>4
  <2> QED
    BY <1>4, <2>1, <2>2 DEF SweepWaits
<1>5. SweepRequest \in Request /\ SweepRequest.op = "sweep"
  BY RequestsMade DEF OneShotInv, TypeOK, SweepRequest, Ask
<1>6. ASSUME NEW r \in Request, Enqueue(r) PROVE TidyInv'
  BY <1>1, <1>3, <1>6 DEF Enqueue, store, faults, WillSweep
<1>7. CASE \/ \E t \in Tabs, u \in Urls, c \in Cvs \cup {None} : RequestArm(t, u, c)
           \/ \E op \in Lookups, t \in Tabs, u \in Urls : RequestLookup(op, t, u)
           \/ RequestClear
           \/ \E t \in Tabs : RequestClearTab(t)
  BY <1>6, <1>7, RequestsMade
     DEF OneShotInv, TypeOK, RequestArm, RequestLookup, RequestClear, RequestClearTab
<1>8. ASSUME NEW ops, Starting(ops)
      PROVE  /\ Head(queue) \in Request /\ Head(queue) # None /\ Head(queue).op \in ops
             /\ queue # <<>> /\ alive /\ job = None /\ step = "idle" /\ ~WillSweep
             /\ UNCHANGED <<session, payloads, alarm, alive, failures>>
  BY <1>8, QueueTyped, NoneAssumption
     DEF OneShotInv, TypeOK, Starting, store, faults, CopyIsExact, WillSweep
<1>9. CASE StartArm
  BY <1>2, <1>8, <1>9 DEF StartArm, Begin, WillSweep
<1>10. CASE LookupMisses
  BY <1>1, <1>4, <1>8, <1>10 DEF LookupMisses, WillSweep
<1>11. CASE LookupFindsExpired
  BY <1>2, <1>8, <1>11 DEF LookupFindsExpired, Begin, WillSweep
\* A job that starts from a tidy store and does not sweep finds it tidy.
<1>12. ASSUME NEW ops, Starting(ops), NEW l, NEW s \in {"get", "set"}, Begin(l, s),
              Head(queue).op # "sweep"
       PROVE  TidyInv'
  <2>1. /\ SweepWaits => SweepWaits'
        /\ job' # None /\ step' # "delete"
    BY <1>4, <1>8, <1>12 DEF Begin
  <2> QED
    BY <1>8, <1>12, <2>1 DEF TidyInv
<1>13. CASE LookupMatches
  BY <1>8, <1>12, <1>13 DEF LookupMatches
<1>14. CASE StartSweep
  BY <1>2, <1>8, <1>14 DEF StartSweep, Begin, WillSweep
<1>15. CASE StartClear
  BY <1>2, <1>8, <1>15 DEF StartClear, Begin, WillSweep
<1>16. CASE StartClearTab
  BY <1>8, <1>12, <1>16 DEF StartClearTab
<1>17. CASE Put
  BY <1>2, <1>17 DEF Put, At, OneShotInv, Shape, JobShape, WillSweep
<1>18. CASE Get
  <2>1. /\ step = "get" /\ job # None /\ job.op \in Lookups
        /\ UNCHANGED <<session, payloads, alarm, alive, queue, job, failures>>
        /\ step' = IF job.op = "consume" THEN "set" ELSE "alarm"
    BY <1>18 DEF Get, At, OneShotInv, Shape, JobShape, store, faults
  <2>2. CASE job.op = "consume"
    BY <1>2, <2>1, <2>2 DEF WillSweep
  <2>3. CASE job.op # "consume"
    BY <2>1, <2>3 DEF TidyInv, WillSweep, SweepWaits
  <2> QED
    BY <2>2, <2>3
<1>19. CASE Persist
  <2>1. /\ step = "set" /\ job # None /\ session' = local
        /\ UNCHANGED <<payloads, alarm, alive, queue, job, released, failures>>
        /\ step' = IF job.op = "clear" THEN "sweep"
                   ELSE IF released = {} THEN AfterDelete ELSE "delete"
    BY <1>19 DEF Persist, At, faults
  <2>2. CASE job.op # "clearTab"
    BY <1>2, <2>1, <2>2 DEF WillSweep, AfterDelete
  <2>3. CASE job.op = "clearTab"
    <3>1. released = PayloadIds(session) \ PayloadIds(local)
      BY <2>1 DEF ReleasedIsUnused
    <3>2. step' = (IF released = {} THEN "alarm" ELSE "delete") /\ ~WillSweep
      BY <2>1, <2>3 DEF AfterDelete, WillSweep
    <3> QED
      BY <2>1, <3>1, <3>2 DEF TidyInv, SweepWaits
  <2> QED
    BY <2>2, <2>3
<1>20. ASSUME NEW c \in Cvs, DeletePayload(c) PROVE TidyInv'
  <2>1. /\ step = "delete" /\ job # None /\ payloads' = [payloads EXCEPT ![c] = 0]
        /\ released' = released \ {c}
        /\ step' = IF released' = {} THEN AfterDelete ELSE "delete"
        /\ UNCHANGED <<session, alarm, alive, queue, job, failures>>
    BY <1>20 DEF DeletePayload, At, faults
  <2>2. CASE job.op \notin {"clear", "clearTab"}
    BY <1>2, <2>1, <2>2 DEF WillSweep, AfterDelete
  <2>3. CASE job.op \in {"clear", "clearTab"}
    <3>1. Stored(payloads') = Stored(payloads) \ {c}
      BY <2>1 DEF Stored, OneShotInv, TypeOK
    <3>2. step' = (IF released' = {} THEN "alarm" ELSE "delete") /\ ~WillSweep
      BY <2>1, <2>3 DEF AfterDelete, WillSweep
    <3>3. Stored(payloads)' = Stored(payloads')
      BY DEF Stored
    <3> QED
      BY <2>1, <3>1, <3>2, <3>3 DEF TidyInv, SweepWaits
  <2> QED
    BY <2>2, <2>3
<1>21. CASE SweepPayloads
  <2>1. /\ step = "sweep" /\ job # None /\ job' = job /\ local = session /\ payloads' = SweptPayloads
        /\ UNCHANGED session
    BY <1>21 DEF SweepPayloads, At, OneShotInv, Shape, CopyShape
  <2>2. Stored(payloads') \subseteq PayloadIds(session)
    BY <2>1 DEF Stored, SweptPayloads
  <2> QED
    BY <2>1, <2>2 DEF TidyInv, Stored, PayloadIds
<1>22. CASE Finish
  <2>1. /\ step = "alarm" /\ job # None /\ local = session /\ alarm' \in EarliestExpiry(session)
        /\ job' = None /\ step' = "idle" /\ UNCHANGED <<session, payloads, alive, queue, failures>>
    BY <1>22 DEF Finish, Idle, At, OneShotInv, Shape, CopyShape, faults
  <2> QED
    BY <2>1 DEF TidyInv, WillSweep, SweepWaits
<1>23. CASE Wake \/ AlarmFires
  <2>1. SweepWaits'
    BY <1>3, <1>5, <1>23 DEF Wake, AlarmFires, SweepWaits
  <2> QED
    BY <1>2, <2>1
<1>24. CASE JobFails \/ ReadFails
  BY <1>0, <1>2, <1>24 DEF JobFails, ReadFails
<1>25. CASE Suspend \/ Kill \/ BrowserRestart
  BY <1>2, <1>25 DEF Suspend, Kill, BrowserRestart
<1>26. CASE Tick \/ UNCHANGED vars
  BY <1>1, <1>26 DEF Tick, vars, store, work, faults, SweepWaits, WillSweep
<1> QED
  BY <1>7, <1>9, <1>10, <1>11, <1>13, <1>14, <1>15, <1>16, <1>17, <1>18, <1>19, <1>20, <1>21,
     <1>22, <1>23, <1>24, <1>25, <1>26 DEF Next, Serve, Lookups

LEMMA InductiveTidy == Spec => []TidyInv
<1>1. Init => TidyInv
  <2>1. Init => SweepWaits
    BY DEF Init, SweepWaits, SweepRequest, Ask
  <2> QED
    BY <2>1 DEF TidyInv
<1>2. StoreInv /\ TidyInv /\ [Next]_vars => TidyInv'
  BY TidyStep
<1> QED
  BY InductiveStore, <1>1, <1>2, PTL DEF Spec

\* No orphaned CV bytes: unless a storage call has rejected, a store at rest holds
\* only payloads its arms refer to, however many workers and browsers died in
\* between (the sweep of background.ts at every start, cleanup of arming.ts).
THEOREM NoOrphans == Spec => []QuietStoreHasNoOrphan
<1>1. StoreInv /\ TidyInv => QuietStoreHasNoOrphan
  <2> SUFFICES ASSUME StoreInv, TidyInv, Quiet PROVE Stored(payloads) \subseteq PayloadIds(session)
    BY DEF QuietStoreHasNoOrphan
  <2> QED
    BY DEF StoreInv, PayloadInv, CopyIsExact, TidyInv, Quiet, SweepWaits, WillSweep
<1> QED
  BY InductiveStore, InductiveTidy, <1>1, PTL

\* The expiry alarm of a store at rest stands at the earliest expiry, unless a
\* storage call has rejected (rescheduleAlarm, arming.ts).
THEOREM AlarmIsSet == Spec => []QuietAlarmIsNextExpiry
<1>1. TidyInv => QuietAlarmIsNextExpiry
  BY DEF TidyInv, Quiet, SweepWaits, QuietAlarmIsNextExpiry
<1> QED
  BY InductiveTidy, <1>1, PTL
-----------------------------------------------------------------------------
(* Refinement of ArmStore. *)

\* The arm that a consume has removed from the store and not yet handed over.
Taken ==
  IF found # None /\ job.op = "consume" /\ step # "set" THEN found.entry ELSE None

\* The copies of the store are what the promise's operations make of the arms.
LEMMA SameCopies ==
  ASSUME TypeOK
  PROVE  /\ \A t \in Tabs : Promise!Without(session, {t}) = Without(session, t)
         /\ Promise!Without(session, Tabs) = Empty
         /\ \A a \in Nat : Promise!Unexpired(session, a) = Unexpired(session, a)
<1>1. \A t \in Tabs : Promise!Without(session, {t}) = Without(session, t)
  BY DEF TypeOK, Promise!Without, Without
<1>2. Promise!Without(session, Tabs) = Empty
  BY DEF Promise!Without, Empty
<1>3. \A a \in Nat : Promise!Unexpired(session, a) = Unexpired(session, a)
  BY DEF Promise!Unexpired, Unexpired, Promise!Expired, Expired
<1> QED
  BY <1>1, <1>2, <1>3

\* A step the promise does not see: requests come, move on and go.
LEMMA Unseen ==
  ASSUME Times' \subseteq Times \cup {now}, UNCHANGED <<now, session, granted, armed>>, Taken' = Taken
  PROVE  Promise!Next
BY DEF Promise!Next, Times, Taken

\* A request that arrives, is read or misses is not seen; nor is a payload that is
\* put, deleted or swept, nor a lookup before its arm is removed.
LEMMA UnseenStep ==
  ASSUME StoreInv, [Next]_vars,
         \/ \E t \in Tabs, u \in Urls, c \in Cvs \cup {None} : RequestArm(t, u, c)
         \/ \E op \in Lookups, t \in Tabs, u \in Urls : RequestLookup(op, t, u)
         \/ RequestClear
         \/ \E t \in Tabs : RequestClearTab(t)
         \/ StartArm \/ LookupMisses \/ LookupFindsExpired \/ LookupMatches
         \/ StartSweep \/ StartClear \/ StartClearTab
         \/ Put \/ Get \/ SweepPayloads \/ (\E c \in Cvs : DeletePayload(c))
         \/ Wake \/ AlarmFires \/ ReadFails \/ Suspend \/ UNCHANGED vars
  PROVE  Promise!Next
<1> USE DEF StoreInv, PayloadInv
<1>1. Times' \subseteq Times \cup {now}
  BY TimesStep DEF OneShotInv
<1>2. CASE \/ \E t \in Tabs, u \in Urls, c \in Cvs \cup {None} : RequestArm(t, u, c)
           \/ \E op \in Lookups, t \in Tabs, u \in Urls : RequestLookup(op, t, u)
           \/ RequestClear
           \/ \E t \in Tabs : RequestClearTab(t)
  BY <1>1, <1>2, Unseen
     DEF RequestArm, RequestLookup, RequestClear, RequestClearTab, Enqueue, store, history, Taken
<1>3. CASE StartArm \/ LookupFindsExpired \/ LookupMatches \/ StartSweep \/ StartClear \/ StartClearTab
  <2>1. /\ job = None /\ found' = None /\ UNCHANGED <<now, session, granted, armed>>
    BY <1>3 DEF StartArm, LookupFindsExpired, LookupMatches, StartSweep, StartClear,
                StartClearTab, Starting, Begin, store, history
  <2>2. Taken' = Taken
    BY <2>1 DEF CopyIsExact, Taken
  <2> QED
    BY <1>1, <2>1, <2>2, Unseen
<1>4. CASE LookupMisses \/ Wake \/ AlarmFires \/ ReadFails \/ Suspend \/ UNCHANGED vars
  BY <1>1, <1>4, Unseen
     DEF LookupMisses, Starting, Wake, AlarmFires, ReadFails, Suspend, vars, store, work, history, Taken
<1>5. CASE Put
  BY <1>1, <1>5, Unseen DEF Put, At, OneShotInv, Shape, JobShape, history, Taken
<1>6. CASE Get
  <2>1. /\ step = "get" /\ found = None /\ step' = IF job.op = "consume" THEN "set" ELSE "alarm"
        /\ UNCHANGED <<now, session, job, granted, armed>>
    BY <1>6 DEF Get, At, OneShotInv, Shape, JobShape, store, history
  <2>2. Taken' = Taken
    BY <2>1 DEF Taken
  <2> QED
    BY <1>1, <2>1, <2>2, Unseen
<1>7. CASE SweepPayloads \/ (\E c \in Cvs : DeletePayload(c))
  <2>1. /\ step # "set" /\ step' # "set" /\ UNCHANGED <<now, session, job, found, granted, armed>>
    BY <1>7 DEF SweepPayloads, DeletePayload, At, AfterDelete, history
  <2> QED
    BY <1>1, <2>1, Unseen DEF Taken
<1> QED
  BY <1>2, <1>3, <1>4, <1>5, <1>6, <1>7

\* Writing the copy back is the operation the promise has for the request.
LEMMA PersistStep ==
  ASSUME StoreInv, [Next]_vars, Persist
  PROVE  Promise!Next
<1> USE DEF StoreInv, PayloadInv
<1>1. /\ step = "set" /\ session' = local /\ step' # "set"
      /\ armed' = (IF job.op = "arm" THEN armed + 1 ELSE armed)
      /\ UNCHANGED <<now, granted, job, found, queue>> /\ job \in Request /\ job # None
      /\ job.at \in Times /\ job.at \in Nat /\ Taken = None
      /\ found # None => job.op \in Lookups
  BY RequestFields DEF Persist, At, AfterDelete, OneShotInv, TypeOK, Shape, JobShape, Times, Taken
<1>2. Times' \subseteq Times \cup {now}
  BY TimesStep DEF OneShotInv
<1>3. SUFFICES Promise!Operate
  BY <1>2 DEF Promise!Next, Times
<1>4. CASE job.op = "arm"
  <2>1. job.tab \in Tabs /\ job.url \in Urls /\ job.cv \in Cvs \cup {None} /\ Taken' = None
    BY <1>1, <1>4, RequestFields DEF Taken, Lookups
  <2>2. session' = [Promise!Unexpired(session, job.at) EXCEPT
                      ![job.tab] = [id |-> armed + 1, url |-> job.url,
                                    exp |-> job.at + TTL, cv |-> job.cv]]
    BY <1>1, <1>4, SameCopies DEF OneShotInv, CopyIsExact, NewEntry
  <2>3. Promise!Arm(job.tab, job.url, job.cv, job.at)
    BY <1>1, <1>4, <2>1, <2>2 DEF Promise!Arm, Times, Taken
  <2> QED
    BY <1>1, <2>1, <2>3 DEF Promise!Operate, Times
<1>5. CASE job.op \in Lookups
  <2>1. /\ job.tab \in Tabs /\ job.url \in Urls /\ HoldsArm(job)
        /\ session' = Promise!Without(session, {job.tab})
        /\ found = None <=> Expired(session[job.tab], job.at)
        /\ found # None => job.op = "consume" /\ found.entry = session[job.tab]
        /\ UNCHANGED armed
    BY <1>1, <1>5, SameCopies, RequestFields
       DEF OneShotInv, CopyIsExact, Shape, FoundIsTaken, Lookups
  <2>2. CASE found = None
    <3>1. Promise!DropExpired(job.tab, job.at)
      BY <1>1, <2>1, <2>2 DEF Promise!DropExpired, Promise!Expired, Expired, HoldsArm, Times, Taken
    <3> QED
      BY <1>1, <2>1, <3>1 DEF Promise!Operate, Times
  <2>3. CASE found # None
    <3>1. Promise!Take(job.tab, job.url, job.at)
      BY <1>1, <2>1, <2>3 DEF Promise!Take, Promise!Expired, Expired, HoldsArm, Times, Taken
    <3> QED
      BY <1>1, <2>1, <3>1 DEF Promise!Operate, Times
  <2> QED
    BY <2>2, <2>3
<1>6. CASE job.op = "sweep"
  <2>1. session' = Promise!Unexpired(session, job.at) /\ UNCHANGED armed /\ Taken' = None
    BY <1>1, <1>6, SameCopies DEF OneShotInv, CopyIsExact, Taken, Lookups
  <2>2. Promise!Sweep(job.at)
    BY <1>1, <2>1 DEF Promise!Sweep, Times, Taken
  <2> QED
    BY <1>1, <2>2 DEF Promise!Operate, Times
<1>7. CASE job.op = "clear"
  <2>1. session' = Promise!Without(session, Tabs) /\ UNCHANGED armed /\ Taken' = None
    BY <1>1, <1>7, SameCopies DEF OneShotInv, CopyIsExact, Taken, Lookups
  <2>2. Promise!Clear(Tabs)
    BY <1>1, <2>1 DEF Promise!Clear, Taken
  <2> QED
    BY <2>2 DEF Promise!Operate
<1>8. CASE job.op = "clearTab"
  <2>1. job.tab \in Tabs /\ session' = Promise!Without(session, {job.tab})
        /\ UNCHANGED armed /\ Taken' = None
    BY <1>1, <1>8, SameCopies, RequestFields DEF OneShotInv, CopyIsExact, Taken, Lookups
  <2>2. Promise!Clear({job.tab})
    BY <1>1, <2>1 DEF Promise!Clear, Taken
  <2> QED
    BY <2>1, <2>2 DEF Promise!Operate
<1> QED
  BY <1>1, <1>4, <1>5, <1>6, <1>7, <1>8, RequestFields DEF Lookups

\* The end of an operation hands over the arm it has taken, or forfeits it.
LEMMA EndStep ==
  ASSUME StoreInv, [Next]_vars, Finish \/ JobFails \/ Kill \/ BrowserRestart
  PROVE  Promise!Next
<1> USE DEF StoreInv, PayloadInv
<1>1. Times' \subseteq Times \cup {now} /\ Taken' = None /\ UNCHANGED <<now, armed>>
  BY TimesStep DEF OneShotInv, Finish, JobFails, Kill, BrowserRestart, Idle, Taken, history
<1>2. Taken # None => /\ Taken = found.entry /\ found # None /\ job.op = "consume"
  BY DEF Taken
<1>3. found # None => found.entry # None
  BY NoneAssumption DEF OneShotInv, TypeOK, Match
<1>4. CASE Finish
  <2>1. CASE Taken = None
    <3>1. UNCHANGED <<session, granted>>
      BY <1>3, <1>4, <2>1 DEF Finish, At, Taken
    <3> QED
      BY <1>1, <2>1, <3>1, Unseen
  <2>2. CASE Taken # None
    <3>1. Promise!Deliver
      BY <1>1, <1>2, <1>4, <2>2 DEF Finish, Promise!Deliver, Taken
    <3> QED
      BY <1>1, <3>1 DEF Promise!Next, Promise!Operate, Times
  <2> QED
    BY <2>1, <2>2
<1>5. CASE JobFails \/ Kill
  <2>1. UNCHANGED <<session, granted>>
    BY <1>5 DEF JobFails, Kill, store, history
  <2>2. CASE Taken = None
    BY <1>1, <2>1, <2>2, Unseen
  <2>3. CASE Taken # None
    <3>1. Promise!Forfeit
      BY <1>1, <2>1, <2>3 DEF Promise!Forfeit, Taken
    <3> QED
      BY <1>1, <3>1 DEF Promise!Next, Promise!Operate, Times
  <2> QED
    BY <2>2, <2>3
<1>6. CASE BrowserRestart
  <2>1. Promise!Restart
    BY <1>1, <1>6 DEF BrowserRestart, Promise!Restart, Empty, history, Taken
  <2> QED
    BY <1>1, <2>1 DEF Promise!Next, Promise!Operate, Times
<1> QED
  BY <1>4, <1>5, <1>6

\* The durable store implements the in-memory one: for any number of tabs, pages and
\* payloads, through failures, kills and restarts, every behaviour of
\* SessionArmingStore is one that ArmingStore promises (arming.ts).
THEOREM Implements == Spec => ImplementsArmStore
<1>1. Init => Promise!Init
  <2> SUFFICES ASSUME Init PROVE Promise!Init
    OBVIOUS
  <2>1. Times \subseteq {0}
    BY DEF Init, Times, SweepRequest, Ask
  <2> QED
    BY <2>1 DEF Init, Promise!Init, Empty, Times
<1>2. StoreInv /\ [Next]_vars => [Promise!Next]_(Promise!vars)
  <2> SUFFICES ASSUME StoreInv, [Next]_vars PROVE Promise!Next
    OBVIOUS
  <2>1. CASE Tick
    <3>1. Times' \subseteq Times \cup {now} /\ Promise!Tick
      BY <2>1, TimesStep
         DEF StoreInv, PayloadInv, OneShotInv, Tick, Promise!Tick, store, work, history
    <3> QED
      BY <3>1 DEF Promise!Next, Promise!Operate, Times
  <2> QED
    BY <2>1, UnseenStep, PersistStep, EndStep DEF Next, Serve, Lookups
<1> QED
  BY <1>1, <1>2, InductiveStore, PTL DEF Spec, ImplementsArmStore, Promise!Spec
=============================================================================
