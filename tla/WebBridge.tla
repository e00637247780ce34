-------------------------------- MODULE WebBridge -------------------------------
(***************************************************************************)
(* The page of the web app, the server and the extension between a click   *)
(* on Open & Fill, or a sign-out, and its end: requestOpenAndFill,         *)
(* sendToExtension and clearExtensionState (web/src/api/openfill.ts),      *)
(* signOut (session.tsx), the bridge of the content script                 *)
(* (content-entry.ts) and what the worker makes of their messages          *)
(* (background.ts).  What becomes of a tab once it is armed is in OpenFill.*)
(***************************************************************************)
EXTENDS Naturals, Sequences

CONSTANTS
  Clicks,     \* clicks on Open & Fill, each of one job card
  MaxBreaks   \* bound: logouts and calls of the extension that fail

ASSUME WebBridgeAssumption == MaxBreaks \in Nat /\ "clear" \notin Clicks

VARIABLES
  bridge,     \* [present, direct]: there is an extension, the page may message it itself
  flow,       \* [pc, reply, notice] of each click: what it waits for, the server's reply
              \* on its way, what the card says in the end
  session,    \* the user's session on the server is open
  leaving,    \* where signOut is; "in" before it and when its logout failed
  cleared,       \* the extension has confirmed the sign-out
  inbox,      \* messages on their way to the worker: clicks and "clear"
  answers,    \* [to, value] on their way back; "lost" if the worker died
  worker,     \* [pc, generation] of openAndArm for each click
  generation, \* armGeneration
  held,       \* clicks whose arm is in the store
  opened,     \* tabs opened for each click
  breaks,
  givenUp,    \* history: clicks that the page gave up with an extension there
  crossing    \* history: clicks whose snapshot was on its way at the sign-out

pageVars == <<bridge, flow, session, leaving, cleared>>
channels == <<inbox, answers>>
extensionVars == <<worker, generation, held>>
bridgeHistory == <<givenUp, crossing>>
bridgeVars == <<pageVars, channels, extensionVars, opened, breaks, bridgeHistory>>

Direct == bridge.direct
Post(message) == inbox' = IF bridge.present THEN Append(inbox, message) ELSE inbox
Answer(to, value) == answers' = answers \cup {[to |-> to, value |-> value]}
Falters == breaks < MaxBreaks /\ breaks' = breaks + 1

-----------------------------------------------------------------------------
(* requestOpenAndFill *)

Awaits(c, pc) == flow' = [flow EXCEPT ![c] = [@ EXCEPT !.pc = pc, !.reply = "none"]]
Finishes(c, notice) == flow' = [flow EXCEPT ![c] = [pc |-> "done", reply |-> "none", notice |-> notice]]

Click(c) ==
  /\ flow[c].pc = "idle" /\ leaving # "out"
  /\ Awaits(c, "arm")
  /\ UNCHANGED <<bridge, session, leaving, cleared, channels, extensionVars, opened, breaks, bridgeHistory>>

\* The server answers /profile/arm or /profile/fill: yes with what was asked for,
\* no for a profile that is not confirmed, 401 without a session.
ServeGate(c) ==
  /\ flow[c].pc \in {"arm", "snapshot"} /\ flow[c].reply = "none"
  /\ \E reply \in (IF session THEN {"yes", "no"} ELSE {"login"}) \cup {"failed"} :
       flow' = [flow EXCEPT ![c].reply = reply]
  /\ UNCHANGED <<bridge, session, leaving, cleared, channels, extensionVars, opened, breaks, bridgeHistory>>

NoticeOf(reply) ==
  CASE reply = "no" -> "needProfile" [] reply = "login" -> "needLogin" [] reply = "failed" -> "error"

ReceiveReply(c) ==
  /\ flow[c].reply # "none"
  /\ IF flow[c].reply # "yes" THEN Finishes(c, NoticeOf(flow[c].reply)) /\ UNCHANGED inbox
     ELSE IF flow[c].pc = "arm" THEN Awaits(c, "snapshot") /\ UNCHANGED inbox
     ELSE Awaits(c, "extension") /\ Post(c)
  /\ UNCHANGED <<bridge, session, leaving, cleared, answers, extensionVars, opened, breaks, bridgeHistory>>

\* Without an extension the page opens the posting itself.
OpensItself(c) == Finishes(c, "noExtension") /\ opened' = [opened EXCEPT ![c] = @ + 1]

\* Mutant of Concludes: an arm that was refused counts as no extension.
ConcludesWithTab(c, value) ==
  IF value = "yes" THEN Finishes(c, "armed") /\ UNCHANGED opened ELSE OpensItself(c)

Concludes(c, value) ==
  IF value = "lost" THEN OpensItself(c)
  ELSE Finishes(c, IF value = "yes" THEN "armed" ELSE "error") /\ UNCHANGED opened

\* An answer that comes too late finds no listener.
ReceiveAnswer(a) ==
  /\ a.to \in Clicks
  /\ answers' = answers \ {a}
  /\ IF flow[a.to].pc = "extension" THEN Concludes(a.to, a.value) ELSE UNCHANGED <<flow, opened>>
  /\ givenUp' = IF a.value = "lost" THEN givenUp \cup {a.to} ELSE givenUp
  /\ UNCHANGED <<bridge, session, leaving, cleared, inbox, extensionVars, breaks, crossing>>

\* Three seconds have passed at the bridge; a page that messages the extension itself
\* learns at once that there is none.
GiveUp(c) ==
  /\ flow[c].pc = "extension" /\ (Direct => ~bridge.present)
  /\ OpensItself(c)
  /\ givenUp' = IF bridge.present THEN givenUp \cup {c} ELSE givenUp
  /\ UNCHANGED <<bridge, session, leaving, cleared, channels, extensionVars, breaks, crossing>>

-----------------------------------------------------------------------------
(* signOut: the server's session first, then the extension, then the user of the page *)

SignOut ==
  /\ leaving = "in"
  /\ leaving' = "logout"
  /\ UNCHANGED <<bridge, flow, session, cleared, channels, extensionVars, opened, breaks, bridgeHistory>>

\* A logout that fails, with or without effect, ends signOut.
ServeLogout ==
  /\ leaving = "logout"
  /\ \/ session' = FALSE /\ leaving' = "clear" /\ UNCHANGED breaks
     \/ Falters /\ session' \in {session, FALSE} /\ leaving' = "in"
  /\ UNCHANGED <<bridge, flow, cleared, channels, extensionVars, opened, bridgeHistory>>

SnapshotsOnTheirWay == {c \in Clicks : flow[c].pc = "snapshot" /\ flow[c].reply = "yes"}

\* Mutant of SendClear: the extension is cleared while the session is open.
SendClearFirst ==
  /\ leaving \in {"logout", "clear"}
  /\ leaving' = IF Direct THEN "direct" ELSE "bridge"
  /\ Post("clear")
  /\ crossing' = SnapshotsOnTheirWay
  /\ UNCHANGED <<bridge, flow, session, cleared, answers, extensionVars, opened, breaks, givenUp>>

SendClear ==
  /\ leaving = "clear"
  /\ leaving' = IF Direct THEN "direct" ELSE "bridge"
  /\ Post("clear")
  /\ crossing' = SnapshotsOnTheirWay
  /\ UNCHANGED <<bridge, flow, session, cleared, answers, extensionVars, opened, breaks, givenUp>>

Leaves(value) == leaving' = "out" /\ cleared' = value /\ UNCHANGED <<inbox, crossing>>
\* clearExtensionState tries the bridge when it cannot message the extension.
FallsBack == leaving' = "bridge" /\ Post("clear") /\ crossing' = SnapshotsOnTheirWay /\ UNCHANGED cleared

ReceiveCleared(a) ==
  /\ a.to = "clear" /\ leaving \in {"direct", "bridge"}
  /\ answers' = answers \ {a}
  /\ IF a.value = "lost" THEN FallsBack ELSE Leaves(a.value = "yes")
  /\ UNCHANGED <<bridge, flow, session, extensionVars, opened, breaks, givenUp>>

ClearGivesUp ==
  /\ \/ leaving = "direct" /\ ~bridge.present /\ FallsBack
     \/ leaving = "bridge" /\ Leaves(FALSE)
  /\ UNCHANGED <<bridge, flow, session, answers, extensionVars, opened, breaks, givenUp>>

-----------------------------------------------------------------------------
(* The worker *)

\* openAndArm remembers the generation and asks for a tab.
HandleOpen ==
  /\ inbox # <<>> /\ Head(inbox) \in Clicks
  /\ inbox' = Tail(inbox)
  /\ worker' = [worker EXCEPT ![Head(inbox)] = [pc |-> "creating", generation |-> generation]]
  /\ UNCHANGED <<pageVars, answers, generation, held, opened, breaks, bridgeHistory>>

CreateTab(c) ==
  /\ worker[c].pc = "creating"
  /\ \/ /\ worker' = [worker EXCEPT ![c].pc = "created"]
        /\ opened' = [opened EXCEPT ![c] = @ + 1] /\ UNCHANGED breaks
     \/ Falters /\ worker' = [worker EXCEPT ![c].pc = "refused"] /\ UNCHANGED opened
  /\ UNCHANGED <<pageVars, channels, generation, held, bridgeHistory>>

\* An arm that rejects may have been stored.
ArmTab(c) ==
  /\ worker[c].pc = "created"
  /\ \/ /\ worker[c].generation # generation
        /\ worker' = [worker EXCEPT ![c].pc = "refused"] /\ UNCHANGED <<held, breaks>>
     \/ /\ worker[c].generation = generation
        /\ worker' = [worker EXCEPT ![c].pc = "armed"] /\ held' = held \cup {c} /\ UNCHANGED breaks
     \/ /\ worker[c].generation = generation /\ Falters
        /\ worker' = [worker EXCEPT ![c].pc = "refused"] /\ held' \in {held, held \cup {c}}
  /\ UNCHANGED <<pageVars, channels, generation, opened, bridgeHistory>>

AnswerOpen(c) ==
  /\ worker[c].pc \in {"armed", "refused"}
  /\ worker' = [worker EXCEPT ![c].pc = IF @ = "armed" THEN "acknowledged" ELSE "denied"]
  /\ Answer(c, IF worker[c].pc = "armed" THEN "yes" ELSE "no")
  /\ UNCHANGED <<pageVars, inbox, generation, held, opened, breaks, bridgeHistory>>

\* What the page hears when the worker says nothing: the bridge says no in its place.
Silence == IF Direct THEN "lost" ELSE "no"

\* A clear that rejects may have taken effect; only the bridge's listener answers then.
HandleClear ==
  /\ inbox # <<>> /\ Head(inbox) = "clear"
  /\ inbox' = Tail(inbox)
  /\ generation' = generation + 1
  /\ \/ held' = {} /\ Answer("clear", "yes") /\ UNCHANGED breaks
     \/ Falters /\ held' \in {held, {}} /\ Answer("clear", IF leaving = "direct" THEN "lost" ELSE "no")
  /\ UNCHANGED <<pageVars, worker, opened, bridgeHistory>>

Busy(c) == worker[c].pc \in {"creating", "created", "armed", "refused"}

\* The browser stops the worker; the store stays, armGeneration starts at 0.
WorkerStops ==
  /\ Falters
  /\ generation' = 0
  /\ worker' = [c \in Clicks |-> IF Busy(c) THEN [worker[c] EXCEPT !.pc = "lost"] ELSE worker[c]]
  /\ answers' = answers \cup {[to |-> c, value |-> Silence] : c \in {d \in Clicks : Busy(d)}}
  /\ UNCHANGED <<pageVars, inbox, held, opened, bridgeHistory>>

\* The page of the arm consumes it, or it expires.
SpendArm(c) ==
  /\ c \in held
  /\ held' = held \ {c}
  /\ UNCHANGED <<pageVars, channels, worker, generation, opened, breaks, bridgeHistory>>

-----------------------------------------------------------------------------

BridgeTablesInit ==
  /\ flow = [c \in Clicks |-> [pc |-> "idle", reply |-> "none", notice |-> "none"]]
  /\ session = TRUE /\ leaving = "in" /\ cleared = FALSE
  /\ inbox = <<>> /\ answers = {}
  /\ worker = [c \in Clicks |-> [pc |-> "none", generation |-> 0]]
  /\ generation = 0 /\ held = {} /\ opened = [c \in Clicks |-> 0] /\ breaks = 0
  /\ givenUp = {} /\ crossing = {}

BridgeInit == bridge \in [present : BOOLEAN, direct : BOOLEAN] /\ BridgeTablesInit

PageStep ==
  \/ \E c \in Clicks : Click(c) \/ ServeGate(c) \/ ReceiveReply(c) \/ GiveUp(c)
  \/ \E a \in answers : ReceiveAnswer(a) \/ ReceiveCleared(a)
  \/ SignOut \/ ServeLogout \/ SendClear \/ ClearGivesUp
WorkerStep ==
  \/ HandleOpen \/ HandleClear \/ WorkerStops
  \/ \E c \in Clicks : CreateTab(c) \/ ArmTab(c) \/ AnswerOpen(c) \/ SpendArm(c)

BridgeNext == PageStep \/ WorkerStep
BridgeSpec == BridgeInit /\ [][BridgeNext]_bridgeVars

-----------------------------------------------------------------------------
(* Properties *)

\* A card that says "armed" has an arm that was acknowledged, and a posting is opened
\* once for a click, unless the extension answered after the three seconds of the
\* bridge, or died, and the page had opened the posting in its place (openfill.ts:127).
NoticeIsTrue ==
  \A c \in Clicks :
    /\ flow[c].notice = "armed" => worker[c].pc = "acknowledged"
    /\ opened[c] > 1 => c \in givenUp

\* After a sign-out that the extension has confirmed its store holds no arm of the user,
\* except one whose snapshot the server had sent before and the page received after the
\* message that clears the store (session.tsx:25, openfill.ts:61).
SignedOutHoldsNothing == leaving = "out" /\ cleared => held \subseteq crossing
=============================================================================
