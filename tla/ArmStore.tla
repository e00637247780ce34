------------------------------ MODULE ArmStore ------------------------------
(***************************************************************************)
(* What the Open & Fill arming store of the browser extension promises,    *)
(* operation by operation and without its storage: every tab holds at most *)
(* one arm; an arm is taken by its own tab, on its own URL, by a request   *)
(* made before the arm expired; and an arm that was taken is handed over   *)
(* at most once.  The in-memory class `ArmingStore` of arming.ts is this   *)
(* store; SessionArming is the durable one, shown to implement it.         *)
(***************************************************************************)
EXTENDS Naturals

CONSTANTS
  Tabs,   \* browser tab ids
  Urls,   \* normalized page URLs
  Cvs,    \* content hashes of CV payloads
  TTL,    \* ARM_TTL_MS in ticks of the clock
  None    \* absence of an entry, a CV, a request

VARIABLES
  now,      \* the wall clock
  arms,     \* the arm of each tab, or None
  taken,    \* the arm taken from its tab and not yet handed over, or None
  granted,  \* ids of the arms that were handed to a page
  armed,    \* how many arms were ever stored; the latest one has this id
  times     \* when the requests that still wait for an answer were made

vars == <<now, arms, taken, granted, armed, times>>

Entry == [id : Nat, url : Urls, exp : Nat, cv : Cvs \cup {None}]

\* An entry has expired for a request made at time `at`.
Expired(entry, at) == at >= entry.exp

\* The arms without those that have expired at `at`.
Unexpired(as, at) ==
  [t \in Tabs |-> IF as[t] # None /\ ~Expired(as[t], at) THEN as[t] ELSE None]

\* The arms without those of the tabs in S.
Without(as, S) == [t \in Tabs |-> IF t \in S THEN None ELSE as[t]]

Init ==
  /\ now = 0
  /\ arms = [t \in Tabs |-> None]
  /\ taken = None
  /\ granted = {}
  /\ armed = 0
  /\ times \subseteq {now}

Tick ==
  /\ now' = now + 1
  /\ UNCHANGED <<arms, taken, granted, armed>>

\* Arm `t` for `u`, replacing what the tab held.  What has expired goes as well, as in the
\* durable store (arming.ts:359); in memory it stays until it is looked up or swept, and no
\* request can tell, because an expired arm is never matched.
Arm(t, u, c, at) ==
  /\ at \in times
  /\ arms' = [Unexpired(arms, at) EXCEPT
                ![t] = [id |-> armed + 1, url |-> u, exp |-> at + TTL, cv |-> c]]
  /\ armed' = armed + 1
  /\ UNCHANGED <<now, taken, granted>>

\* A matching request takes the arm out of the store.
Take(t, u, at) ==
  /\ at \in times
  /\ taken = None
  /\ arms[t] # None
  /\ arms[t].url = u
  /\ ~Expired(arms[t], at)
  /\ taken' = arms[t]
  /\ arms' = Without(arms, {t})
  /\ UNCHANGED <<now, granted, armed>>

\* The page that asked gets the arm.
Deliver ==
  /\ taken # None
  /\ granted' = granted \cup {taken.id}
  /\ taken' = None
  /\ UNCHANGED <<now, arms, armed>>

\* The answer is lost: the arm was taken and nobody gets it.
Forfeit ==
  /\ taken # None
  /\ taken' = None
  /\ UNCHANGED <<now, arms, granted, armed>>

\* A request that finds its tab's arm expired drops that arm.
DropExpired(t, at) ==
  /\ at \in times
  /\ arms[t] # None
  /\ Expired(arms[t], at)
  /\ arms' = Without(arms, {t})
  /\ UNCHANGED <<now, taken, granted, armed>>

Sweep(at) ==
  /\ at \in times
  /\ arms' = Unexpired(arms, at)
  /\ UNCHANGED <<now, taken, granted, armed>>

Clear(S) ==
  /\ arms' = Without(arms, S)
  /\ UNCHANGED <<now, taken, granted, armed>>

\* The browser restarts: arms live no longer than its session.
Restart ==
  /\ arms' = [t \in Tabs |-> None]
  /\ taken' = None
  /\ UNCHANGED <<now, granted, armed>>

Operate ==
  \/ Tick
  \/ Deliver
  \/ Forfeit
  \/ Restart
  \/ Clear(Tabs)
  \/ \E at \in times : Sweep(at)
  \/ \E t \in Tabs :
       \/ Clear({t})
       \/ \E at \in times :
            \/ DropExpired(t, at)
            \/ \E u \in Urls :
                 \/ Take(t, u, at)
                 \/ \E c \in Cvs \cup {None} : Arm(t, u, c, at)

\* Requests come and go around the operations; a new one bears the time it is made.
Next ==
  /\ times' \subseteq times \cup {now}
  /\ Operate \/ UNCHANGED <<now, arms, taken, granted, armed>>

Spec == Init /\ [][Next]_vars
=============================================================================
