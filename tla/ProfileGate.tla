------------------------------ MODULE ProfileGate ------------------------------
(***************************************************************************)
(* The confirm-before-apply gate: one user's profile in the backend        *)
(* (internal/profile), the profile and CV panels of the user's browser     *)
(* tabs that edit, parse into and confirm it, and Open & Fill, which takes *)
(* a snapshot of it (web/src).                                             *)
(*                                                                         *)
(* Every handler reads the whole row, changes it and writes the whole row  *)
(* back, in two calls to the repository and without a transaction.  The    *)
(* panel confirms with two requests, a PATCH of its form and a POST.       *)
(* Fields are grouped by who writes them: a parse overwrites some (the     *)
(* history whatever it found, a contact field only if it found one) and    *)
(* keeps the others.                                                       *)
(***************************************************************************)
EXTENDS Naturals

CONSTANTS
  Tabs,    \* browser tabs of the user
  Panels,  \* mounts of a ProfilePanel
  Parses,  \* requests to parse a CV into the profile
  Blank,   \* an empty field
  None,
  MaxClicks  \* bound: clicks on Save and Confirm

ASSUME ProfileGateAssumption ==
  /\ Panels \cap Parses = {}
  /\ Blank \notin Panels \cup Parses
  /\ None \notin Tabs \cup Panels \cup Parses \cup {Blank}
  /\ MaxClicks \in Nat

VARIABLES
  profile,   \* the stored row
  home,      \* the tab a panel was mounted, or a parse was asked for, in
  shown,     \* the panel each tab shows
  loaded,    \* panels past their skeleton
  form,      \* what the inputs of a panel hold
  badge,     \* the panel says that the profile is confirmed
  gate,      \* profileConfirmed of the tab's App: Open & Fill is offered
  request,   \* the one request of a panel or of a parse
  filling,   \* where one requestOpenAndFill is; they only read, so one is followed
  confirmed, \* history: the confirmation that stands, and what its click showed
  crossed,   \* history: confirming panels another write has crossed
  landed,    \* history: parses whose result was saved
  seen,      \* history: those that the row a panel loaded had been through
  clicks     \* so far

panelVars == <<home, shown, loaded, form, badge, gate>>
history == <<confirmed, crossed, landed, seen>>
vars == <<profile, panelVars, request, filling, history, clicks>>

\* What a parse overwrites, and what it keeps.
Fields == {"parsed", "added"}
\* A value is named after the panel it was typed in or the parse that found it.
Content == [Fields -> Panels \cup Parses \cup {Blank}]

Empty == [f \in Fields |-> Blank]
Profile == [content : Content, confirmed : BOOLEAN]

Unconfirmed(c) == [content |-> c, confirmed |-> FALSE]
Confirmed(c) == [content |-> c, confirmed |-> TRUE]
Complete(c) == \A f \in Fields : c[f] # Blank

Clients == Panels \cup Parses
Confirmation == [content : Content, form : Content, crossed : BOOLEAN]
NoConfirmation == [content |-> Empty, form |-> Empty, crossed |-> FALSE]

Request == [op : {"none", "get", "patch", "confirm", "parse"},
            at : {"start", "load", "save", "reply", "failed", "done"},
            body : Content,        \* what the client sends, or the parser found
            row : Profile,         \* what the handler is to write, or answers
            confirming : BOOLEAN]  \* a PATCH that onConfirm sent

Asked(op, body, confirming) ==
  [op |-> op, at |-> "load", body |-> body, row |-> Unconfirmed(Empty),
   confirming |-> confirming]
NoRequest == [Asked("none", Empty, FALSE) EXCEPT !.at = "start"]
IsAt(c, op, at) == request[c].op = op /\ request[c].at = at
Goes(c, at, row) == request' = [request EXCEPT ![c].at = at, ![c].row = row]
Ends(c) == request' = [request EXCEPT ![c] = NoRequest]
\* A parse stays on record, as each is asked for once.
Fails(c) == IF c \in Parses THEN Goes(c, "failed", Unconfirmed(Empty)) ELSE Ends(c)

-----------------------------------------------------------------------------
(* The handlers *)

\* ApplyParsedCV: what the parse writes over a profile.
WithParsed(old, found) == [old EXCEPT !["parsed"] = found["parsed"]]

\* Mutant of Changed: an edit keeps the confirmation.
ChangedStillConfirmed(q, row) ==
  CASE q.op = "patch" -> [content |-> q.body, confirmed |-> row.confirmed]
    [] q.op = "parse" -> Unconfirmed(WithParsed(row.content, q.body))
    [] q.op = "confirm" -> Confirmed(row.content)
    [] OTHER -> row

\* What a handler makes of the row it read.  The panel's PATCH carries every field.
Changed(q, row) ==
  CASE q.op = "patch" -> Unconfirmed(q.body)
    [] q.op = "parse" -> Unconfirmed(WithParsed(row.content, q.body))
    [] q.op = "confirm" -> Confirmed(row.content)
    [] OTHER -> row

\* The handler reads the row and changes its copy; handleConfirm refuses an
\* incomplete one.
Load(c) ==
  /\ request[c].at = "load"
  /\ LET q == request[c] IN
     IF q.op = "confirm" /\ ~Complete(profile.content) THEN Fails(c)
     ELSE Goes(c, IF q.op = "get" THEN "reply" ELSE "save", Changed(q, profile))
  /\ seen' = IF request[c].op = "get" THEN [seen EXCEPT ![c] = landed] ELSE seen
  /\ UNCHANGED <<profile, panelVars, filling, confirmed, crossed, landed, clicks>>

\* The PATCH of this confirming panel is saved and its POST has not read yet.
BetweenItsRequests(p) ==
  \/ IsAt(p, "patch", "reply") /\ request[p].confirming
  \/ IsAt(p, "confirm", "load")

\* The handler writes its copy back.
Save(c) ==
  /\ request[c].at = "save"
  /\ LET row == request[c].row IN
     /\ profile' = row
     /\ Goes(c, "reply", row)
     /\ confirmed' = CASE request[c].op = "confirm" ->
                           [content |-> row.content, form |-> request[c].body,
                            crossed |-> c \in crossed]
                       [] ~row.confirmed -> NoConfirmation
                       [] OTHER -> confirmed
  /\ crossed' = (crossed \ {c}) \cup {p \in Panels \ {c} : BetweenItsRequests(p)}
  /\ landed' = IF request[c].op = "parse" THEN landed \cup {c} ELSE landed
  /\ UNCHANGED <<panelVars, filling, seen, clicks>>

\* The request is refused, a call to the repository fails, or the reply is lost.
RequestFails(c) ==
  /\ request[c].at \in {"load", "save", "reply"}
  /\ Fails(c)
  /\ crossed' = crossed \ {c}
  /\ UNCHANGED <<profile, panelVars, filling, confirmed, landed, seen, clicks>>

-----------------------------------------------------------------------------
(* The panels *)

\* A new ProfilePanel asks for the profile.
Mounts(p, t) ==
  /\ home[p] = None
  /\ home' = [home EXCEPT ![p] = t]
  /\ shown' = [shown EXCEPT ![t] = p]

OpenTab(p, t) ==
  /\ shown[t] = None
  /\ Mounts(p, t)
  /\ request' = [request EXCEPT ![p] = Asked("get", Empty, FALSE)]
  /\ UNCHANGED <<profile, loaded, form, badge, gate, filling, history, clicks>>

Shown(p) == home[p] # None /\ shown[home[p]] = p
Usable(p) == p \in loaded /\ Shown(p)

\* applyProfile; the panel may be unmounted, the App that holds the gate is not.
Applies(p, row) ==
  /\ IF Shown(p)
     THEN /\ form' = [form EXCEPT ![p] = row.content]
          /\ badge' = [badge EXCEPT ![p] = row.confirmed]
          /\ loaded' = loaded \cup {p}
     ELSE UNCHANGED <<form, badge, loaded>>
  /\ gate' = [gate EXCEPT ![home[p]] = row.confirmed]

\* The answer to getProfile, which unmounting aborts.
ProfileLoaded(p) ==
  /\ IsAt(p, "get", "reply")
  /\ Ends(p)
  /\ IF Shown(p) THEN Applies(p, request[p].row) ELSE UNCHANGED <<form, badge, loaded, gate>>
  /\ UNCHANGED <<profile, home, shown, filling, history, clicks>>

\* The user types into an input.
Edit(p, f) ==
  /\ Usable(p)
  /\ form[p][f] # p
  /\ form' = [form EXCEPT ![p][f] = p]
  /\ UNCHANGED <<profile, home, shown, loaded, badge, gate, request, filling, history, clicks>>

\* onSave, once the required fields are filled in; what a parse overwrites whole,
\* education and skills, is not among them.
ClickSave(p) ==
  /\ Usable(p) /\ request[p].op = "none"
  /\ form[p]["added"] # Blank
  /\ request' = [request EXCEPT ![p] = Asked("patch", form[p], FALSE)]
  /\ clicks < MaxClicks /\ clicks' = clicks + 1
  /\ UNCHANGED <<profile, panelVars, filling, history>>

\* Mutant of ClickConfirm: the form is not saved first.
ClickConfirmUnsaved(p) ==
  /\ Usable(p) /\ request[p].op = "none" /\ ~badge[p]
  /\ request' = [request EXCEPT ![p] = Asked("confirm", form[p], FALSE)]
  /\ clicks < MaxClicks /\ clicks' = clicks + 1
  /\ UNCHANGED <<profile, panelVars, filling, history>>

\* onConfirm begins by saving the form.
ClickConfirm(p) ==
  /\ Usable(p) /\ request[p].op = "none" /\ ~badge[p]
  /\ request' = [request EXCEPT ![p] = Asked("patch", form[p], TRUE)]
  /\ clicks < MaxClicks /\ clicks' = clicks + 1
  /\ UNCHANGED <<profile, panelVars, filling, history>>

\* onConfirm goes on: the saved form is confirmed.
ThenConfirm(p) ==
  /\ IsAt(p, "patch", "reply") /\ request[p].confirming
  /\ request' = [request EXCEPT ![p] = Asked("confirm", request[p].body, FALSE)]
  /\ UNCHANGED <<profile, panelVars, filling, history, clicks>>

\* onSave and onConfirm end by showing what was saved.
ShowSaved(p) ==
  /\ \/ IsAt(p, "patch", "reply") /\ ~request[p].confirming
     \/ IsAt(p, "confirm", "reply")
  /\ Ends(p)
  /\ Applies(p, request[p].row)
  /\ UNCHANGED <<profile, home, shown, filling, history, clicks>>

-----------------------------------------------------------------------------
(* Parsing a CV *)

\* A click in the CV panel of tab t, which shows one parse at a time; what the
\* parser will find is chosen here.
StartParse(c, t, v) ==
  /\ request[c].op = "none"
  /\ shown[t] # None
  /\ \A d \in Parses : home[d] = t => request[d].at \in {"done", "failed"}
  /\ home' = [home EXCEPT ![c] = t]
  /\ request' = [request EXCEPT ![c] =
       Asked("parse", [Empty EXCEPT !["parsed"] = v], FALSE)]
  /\ UNCHANGED <<profile, shown, loaded, form, badge, gate, filling, history, clicks>>

\* Mutant of ParseDone: the profile panel stays as it is.
ParseDoneQuietly(c, p) ==
  /\ IsAt(c, "parse", "reply")
  /\ home[p] = None
  /\ request' = [request EXCEPT ![c].at = "done"]
  /\ UNCHANGED <<profile, panelVars, filling, history, clicks>>

\* onParsed: the tab replaces its profile panel by a new one.
ParseDone(c, p) ==
  /\ IsAt(c, "parse", "reply")
  /\ Mounts(p, home[c])
  /\ request' = [request EXCEPT ![c].at = "done", ![p] = Asked("get", Empty, FALSE)]
  /\ LET old == shown[home[c]] IN
     /\ loaded' = loaded \ {old}
     /\ form' = [form EXCEPT ![old] = Empty]
     /\ badge' = [badge EXCEPT ![old] = FALSE]
  /\ UNCHANGED <<profile, gate, filling, history, clicks>>

-----------------------------------------------------------------------------
(* Open & Fill *)

\* A click on a job card, where the tab's App lets it through.
OpenAndFill(t) ==
  /\ gate[t] /\ filling = "idle"
  /\ filling' = "arm"
  /\ UNCHANGED <<profile, panelVars, request, history, clicks>>

\* handleArm.
CheckArm ==
  /\ filling = "arm"
  /\ filling' = IF profile.confirmed THEN "snapshot" ELSE "idle"
  /\ UNCHANGED <<profile, panelVars, request, history, clicks>>

\* Mutant of FillSnapshot: the answer of /profile/arm is relied on.
FillSnapshotUnchecked ==
  /\ filling = "snapshot"
  /\ filling' = "sent"
  /\ UNCHANGED <<profile, panelVars, request, history, clicks>>

\* handleFill checks again, and hands out the row it checked.
FillSnapshot ==
  /\ filling = "snapshot"
  /\ filling' = IF profile.confirmed THEN "sent" ELSE "idle"
  /\ UNCHANGED <<profile, panelVars, request, history, clicks>>

\* The flow ends: the extension has answered, or one of its requests failed.
FlowEnds ==
  /\ filling # "idle"
  /\ filling' = "idle"
  /\ UNCHANGED <<profile, panelVars, request, history, clicks>>

-----------------------------------------------------------------------------
Init ==
  /\ profile = Unconfirmed(Empty)
  /\ home = [c \in Clients |-> None]
  /\ shown = [t \in Tabs |-> None]
  /\ loaded = {}
  /\ form = [p \in Panels |-> Empty]
  /\ badge = [p \in Panels |-> FALSE]
  /\ gate = [t \in Tabs |-> FALSE]
  /\ request = [c \in Clients |-> NoRequest]
  /\ filling = "idle"
  /\ confirmed = NoConfirmation /\ crossed = {} /\ landed = {} /\ clicks = 0
  /\ seen = [p \in Panels |-> {}]

PanelNext(p) ==
  \/ \E t \in Tabs : OpenTab(p, t)
  \/ \E f \in Fields : Edit(p, f)
  \/ ProfileLoaded(p) \/ ClickSave(p) \/ ClickConfirm(p) \/ ThenConfirm(p)
  \/ ShowSaved(p)

ParseNext(c) ==
  \/ \E t \in Tabs, v \in {c, Blank} : StartParse(c, t, v)
  \/ \E p \in Panels : ParseDone(c, p)

Next ==
  \/ \E c \in Clients : Load(c) \/ Save(c) \/ RequestFails(c)
  \/ \E p \in Panels : PanelNext(p)
  \/ \E c \in Parses : ParseNext(c)
  \/ \E t \in Tabs : OpenAndFill(t)
  \/ CheckArm \/ FillSnapshot \/ FlowEnds

Spec == Init /\ [][Next]_vars

-----------------------------------------------------------------------------
TypeOK ==
  /\ profile \in Profile
  /\ home \in [Clients -> Tabs \cup {None}]
  /\ shown \in [Tabs -> Panels \cup {None}]
  /\ loaded \subseteq Panels /\ crossed \subseteq Panels /\ landed \subseteq Parses
  /\ form \in [Panels -> Content]
  /\ badge \in [Panels -> BOOLEAN]
  /\ gate \in [Tabs -> BOOLEAN]
  /\ request \in [Clients -> Request]
  /\ filling \in {"idle", "arm", "snapshot", "sent"}
  /\ confirmed \in Confirmation
  /\ seen \in [Panels -> SUBSET Parses]
  /\ clicks \in 0..MaxClicks

\* The row is handed to the extension.
HandsOut == filling = "snapshot" /\ filling' = "sent"

\* Open & Fill hands out only profiles that are complete and that the user
\* confirmed as they are, whatever is edited or parsed between the check of
\* /profile/arm and the snapshot (handleFill checks CanArm again; every edit and
\* every parse takes the confirmation away).
FilledIsConfirmed ==
  [][HandsOut => Complete(profile.content) /\ confirmed.content = profile.content]_vars

\* A click on Confirm confirms what its form showed, unless another request
\* wrote the profile after the click's PATCH and before its POST read it
\* (onConfirm saves before it confirms).
ConfirmedAsShown ==
  confirmed.content = confirmed.form \/ confirmed.crossed

\* Once a parse has ended in a tab, the profile the tab shows was read after the
\* parse was saved: what the user goes on to review holds its result or a later
\* write (App remounts the panel when CvPanel says it has parsed).
ParseIsShown ==
  \A c \in Parses, t \in Tabs :
    request[c].at = "done" /\ c \in landed /\ home[c] = t /\ shown[t] \in loaded
      => c \in seen[shown[t]]

\* "Parsed data is never authoritative and the user must review + confirm it before
\* any fill flow may be armed" (parsedcv.go): what a parse put into a profile that
\* can be armed was in the form when the user clicked Confirm.
ArmedParseWasReviewed ==
  profile.confirmed /\ profile.content["parsed"] \in Parses
    => confirmed.form["parsed"] = profile.content["parsed"]
=============================================================================
