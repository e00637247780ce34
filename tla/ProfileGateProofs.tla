--------------------------- MODULE ProfileGateProofs ---------------------------
(***************************************************************************)
(* The safety properties of ProfileGate, for any number of tabs, panels,   *)
(* parses and clicks.                                                      *)
(***************************************************************************)
EXTENDS ProfileGate, TLAPS

\* Each kind of request has its clients and its calls, and only a confirmation
\* writes a confirmed row, a complete one.
Protocol ==
  \A c \in Clients :
    /\ request[c].op \in {"get", "patch", "confirm"} => c \in Panels
    /\ request[c].op = "parse" => c \in Parses
    /\ request[c].op = "none" => request[c].at = "start"
    /\ request[c].op = "get" => request[c].at \in {"load", "reply"}
    /\ request[c].at = "save" =>
         /\ request[c].row.confirmed <=> request[c].op = "confirm"
         /\ request[c].op = "confirm" => Complete(request[c].row.content)
         /\ request[c].op = "patch" => request[c].row.content = request[c].body

\* A stored confirmation is the one that stands.
Standing ==
  profile.confirmed => Complete(profile.content) /\ confirmed.content = profile.content

\* Until another write crosses it, what a confirming panel sent is what is stored
\* and what its POST has read.
Uncrossed ==
  \A p \in Panels : p \notin crossed =>
    /\ BetweenItsRequests(p) => profile.content = request[p].body
    /\ IsAt(p, "confirm", "save") => request[p].row.content = request[p].body

\* A tab shows panels of its own; a panel that is not mounted has done nothing.
Mounting ==
  /\ \A t \in Tabs : shown[t] # None => home[shown[t]] = t
  /\ \A p \in Panels : home[p] = None => request[p] = NoRequest /\ p \notin loaded
  /\ \A p \in Panels : Shown(p) /\ request[p].op \in {"patch", "confirm"} => p \in loaded

\* A panel that was mounted after a parse ended has seen it by the time it loads.
Following ==
  /\ \A c \in Parses : request[c].at \in {"reply", "done"} =>
       c \in landed /\ home[c] \in Tabs /\ shown[home[c]] # None
  /\ \A c \in Parses : request[c].at \in {"load", "save"} =>
       home[c] \in Tabs /\ shown[home[c]] # None
  /\ \A c \in Parses, p \in Panels :
       /\ request[c].at = "done" /\ shown[home[c]] = p
       /\ p \in loaded \/ IsAt(p, "get", "reply")
       => c \in seen[p]

Inv ==
  TypeOK /\ Protocol /\ Standing /\ Uncrossed /\ Mounting /\ Following /\ ConfirmedAsShown

-----------------------------------------------------------------------------
\* A client is a panel or a parse, and values are of one kind.
LEMMA Kinds ==
  /\ \A p \in Panels : p \in Clients /\ p \notin Parses /\ p # None
  /\ \A c \in Parses : c \in Clients /\ c \notin Panels
  /\ \A t \in Tabs : t # None
  BY ProfileGateAssumption DEF Clients

\* The values the requests start from.
LEMMA Values ==
  /\ Empty \in Content
  /\ \A c \in Content : Unconfirmed(c) \in Profile /\ Confirmed(c) \in Profile
  /\ \A c \in Content, v \in Clients \cup {Blank}, f \in Fields :
       [c EXCEPT ![f] = v] \in Content
  BY DEF Empty, Content, Profile, Unconfirmed, Confirmed, Clients

\* A request is of type Request.
LEMMA AskedType ==
  ASSUME NEW op \in {"none", "get", "patch", "confirm", "parse"}, NEW body \in Content,
         NEW b \in BOOLEAN
  PROVE  Asked(op, body, b) \in Request
  BY Values DEF Asked, Request

\* A client without a request.
LEMMA NoRequestFields ==
  NoRequest \in Request /\ NoRequest.op = "none" /\ NoRequest.at = "start"
  BY Values DEF NoRequest, Asked, Request

\* A handler goes on: only where it is and its row change.
LEMMA GoesOn ==
  ASSUME request \in [Clients -> Request], NEW c \in Clients, NEW at, NEW row,
         Goes(c, at, row)
  PROVE  /\ request'[c].op = request[c].op
         /\ request'[c].at = at
         /\ request'[c].row = row
         /\ request'[c].body = request[c].body
         /\ request'[c].confirming = request[c].confirming
         /\ \A d \in Clients \ {c} : request'[d] = request[d]
         /\ at \in {"start", "load", "save", "reply", "failed", "done"} /\ row \in Profile
              => request' \in [Clients -> Request]
<1>1. request[c] \in Request
  OBVIOUS
<1>2. request'[c] = [request[c] EXCEPT !.at = at, !.row = row]
  BY DEF Goes
<1>3. \A d \in Clients \ {c} : request'[d] = request[d]
  BY DEF Goes
<1>4. request' = [request EXCEPT ![c] = request'[c]]
  BY DEF Goes
<1>5. /\ request'[c].op = request[c].op /\ request'[c].at = at /\ request'[c].row = row
      /\ request'[c].body = request[c].body
      /\ request'[c].confirming = request[c].confirming
  BY <1>1, <1>2 DEF Request
<1>6. ASSUME at \in {"start", "load", "save", "reply", "failed", "done"}, row \in Profile
      PROVE  request'[c] \in Request
  BY <1>1, <1>2, <1>6 DEF Request
<1> QED
  BY <1>3, <1>4, <1>5, <1>6

\* A request ends.
LEMMA Ended ==
  ASSUME request \in [Clients -> Request], NEW c \in Clients, Ends(c)
  PROVE  /\ request'[c] = NoRequest
         /\ \A d \in Clients \ {c} : request'[d] = request[d]
         /\ request' \in [Clients -> Request]
  BY NoRequestFields DEF Ends

\* A request fails: a panel may send another, a parse is over.
LEMMA Failed ==
  ASSUME request \in [Clients -> Request], NEW c \in Clients, Fails(c)
  PROVE  /\ c \in Parses => request'[c].op = request[c].op /\ request'[c].at = "failed"
         /\ c \notin Parses => request'[c] = NoRequest
         /\ \A d \in Clients \ {c} : request'[d] = request[d]
         /\ request' \in [Clients -> Request]
<1>1. CASE c \in Parses
  <2>1. Goes(c, "failed", Unconfirmed(Empty))
    BY <1>1 DEF Fails
  <2> QED
    BY <1>1, <2>1, GoesOn, Values
<1>2. CASE c \notin Parses
  <2>1. Ends(c)
    BY <1>2 DEF Fails
  <2> QED
    BY <1>2, <2>1, Ended
<1> QED
  BY <1>1, <1>2

\* What a handler makes of a row is a row.
LEMMA ChangedType ==
  ASSUME NEW q \in Request, NEW row \in Profile
  PROVE  Changed(q, row) \in Profile
<1>1. q.body \in Content /\ row.content \in Content
  BY DEF Request, Profile
<1>2. WithParsed(row.content, q.body) \in Content
  <2>1. q.body["parsed"] \in Clients \cup {Blank} /\ "parsed" \in Fields
    BY <1>1 DEF Content, Clients, Fields
  <2> QED
    BY <1>1, <2>1, Values DEF WithParsed
<1> QED
  BY <1>1, <1>2, Values DEF Changed

\* The invariant holds before the first tab is opened.
LEMMA InitInv == Init => Inv
<1> SUFFICES ASSUME Init PROVE Inv
  OBVIOUS
<1> USE Kinds, Values, NoRequestFields DEF Init
<1>1. TypeOK
  <2>1. profile \in Profile /\ request \in [Clients -> Request]
    BY DEF Profile
  <2>2. confirmed \in Confirmation
    BY DEF Confirmation, NoConfirmation
  <2>3. clicks \in 0..MaxClicks
    BY ProfileGateAssumption
  <2> QED
    BY <2>1, <2>2, <2>3 DEF TypeOK
<1>2. Protocol
  BY DEF Protocol
<1>3. Standing /\ ConfirmedAsShown
  BY DEF Standing, ConfirmedAsShown, Unconfirmed, NoConfirmation
<1>4. Uncrossed
  BY DEF Uncrossed, BetweenItsRequests, IsAt
<1>5. Mounting /\ Following
  BY DEF Mounting, Following, Shown, IsAt
<1> QED
  BY <1>1, <1>2, <1>3, <1>4, <1>5 DEF Inv

-----------------------------------------------------------------------------
(* One lemma per conjunct, one step per action. *)

\* Every step keeps the types.
LEMMA TypeStep == TypeOK /\ Protocol /\ [Next]_vars => TypeOK'
<1> SUFFICES ASSUME TypeOK, Protocol, [Next]_vars PROVE TypeOK'
  OBVIOUS
<1> USE Kinds, Values DEF TypeOK
<1>1. ASSUME NEW c \in Clients, Load(c) PROVE TypeOK'
  <2>1. request' \in [Clients -> Request]
    <3>1. CASE Fails(c)
      BY <3>1, Failed
    <3>2. CASE Goes(c, IF request[c].op = "get" THEN "reply" ELSE "save",
                    Changed(request[c], profile))
      BY <3>2, GoesOn, ChangedType
    <3> QED
      BY <1>1, <3>1, <3>2 DEF Load
  <2>2. seen' \in [Panels -> SUBSET Parses]
    BY <1>1 DEF Load
  <2> QED
    BY <1>1, <2>1, <2>2 DEF Load, panelVars
<1>2. ASSUME NEW c \in Clients, Save(c) PROVE TypeOK'
  <2>1. request[c].row \in Profile /\ request[c].body \in Content
    BY DEF Request
  <2>2. profile' \in Profile /\ Goes(c, "reply", request[c].row)
    BY <1>2, <2>1 DEF Save
  <2>3. request' \in [Clients -> Request]
    BY <2>1, <2>2, GoesOn
  <2>4. confirmed' \in Confirmation
    BY <1>2, <2>1 DEF Save, Confirmation, NoConfirmation, Profile
  <2>5. crossed' \subseteq Panels
    BY <1>2 DEF Save
  <2>6. landed' \subseteq Parses
    BY <1>2 DEF Save, Protocol
  <2> QED
    BY <1>2, <2>2, <2>3, <2>4, <2>5, <2>6 DEF Save, panelVars
<1>3. ASSUME NEW c \in Clients, RequestFails(c) PROVE TypeOK'
  BY <1>3, Failed DEF RequestFails, panelVars
<1>4. ASSUME NEW p \in Panels, NEW t \in Tabs, OpenTab(p, t) PROVE TypeOK'
  BY <1>4, AskedType DEF OpenTab, Mounts, history
<1>5. ASSUME NEW p \in Panels, NEW f \in Fields, Edit(p, f) PROVE TypeOK'
  BY <1>5 DEF Edit, history
<1>6. ASSUME NEW p \in Panels, NEW row \in Profile, Applies(p, row)
      PROVE  /\ form' \in [Panels -> Content] /\ badge' \in [Panels -> BOOLEAN]
             /\ loaded' \subseteq Panels /\ gate' \in [Tabs -> BOOLEAN]
  <2>1. row.content \in Content /\ row.confirmed \in BOOLEAN
    BY DEF Profile
  <2>2. gate' \in [Tabs -> BOOLEAN]
    BY <1>6, <2>1 DEF Applies
  <2>3. CASE Shown(p)
    BY <1>6, <2>1, <2>2, <2>3 DEF Applies
  <2>4. CASE ~Shown(p)
    BY <1>6, <2>2, <2>4 DEF Applies
  <2> QED
    BY <2>3, <2>4
<1>7. ASSUME NEW p \in Panels PROVE request[p].row \in Profile /\ request[p].body \in Content
  BY DEF Request
<1>8. ASSUME NEW p \in Panels, ProfileLoaded(p) PROVE TypeOK'
  <2>1. request' \in [Clients -> Request]
    BY <1>8, Ended DEF ProfileLoaded
  <2>2. CASE Shown(p)
    BY <1>8, <1>6, <1>7, <2>1, <2>2 DEF ProfileLoaded, history
  <2>3. CASE ~Shown(p)
    BY <1>8, <2>1, <2>3 DEF ProfileLoaded, history
  <2> QED
    BY <2>2, <2>3
<1>9. ASSUME clicks < MaxClicks, clicks' = clicks + 1 PROVE clicks' \in 0..MaxClicks
  BY <1>9, ProfileGateAssumption
<1>10. ASSUME NEW p \in Panels, NEW b \in BOOLEAN,
              request' = [request EXCEPT ![p] = Asked("patch", form[p], b)]
       PROVE  request' \in [Clients -> Request]
  BY <1>10, AskedType
<1>11. ASSUME NEW p \in Panels, ClickSave(p) PROVE TypeOK'
  BY <1>11, <1>9, <1>10 DEF ClickSave, panelVars, history
<1>12. ASSUME NEW p \in Panels, ClickConfirm(p) PROVE TypeOK'
  BY <1>12, <1>9, <1>10 DEF ClickConfirm, panelVars, history
<1>13. ASSUME NEW p \in Panels, ThenConfirm(p) PROVE TypeOK'
  BY <1>13, <1>7, AskedType DEF ThenConfirm, panelVars, history
<1>14. ASSUME NEW p \in Panels, ShowSaved(p) PROVE TypeOK'
  <2>1. request' \in [Clients -> Request]
    BY <1>14, Ended DEF ShowSaved
  <2> QED
    BY <1>14, <1>6, <1>7, <2>1 DEF ShowSaved, history
<1>15. ASSUME NEW c \in Parses, NEW t \in Tabs, NEW v \in {c, Blank}, StartParse(c, t, v)
       PROVE  TypeOK'
  <2>1. [Empty EXCEPT !["parsed"] = v] \in Content
    BY DEF Fields
  <2> QED
    BY <1>15, <2>1, AskedType DEF StartParse, history
<1>16. ASSUME NEW c \in Parses, NEW p \in Panels, ParseDone(c, p) PROVE TypeOK'
  <2>1. request' \in [Clients -> Request]
    <3>1. [request[c] EXCEPT !.at = "done"] \in Request
      <4>1. request[c] \in Request
        OBVIOUS
      <4> QED
        BY <4>1 DEF Request
    <3>2. request' = [request EXCEPT ![c] = [request[c] EXCEPT !.at = "done"],
                                     ![p] = Asked("get", Empty, FALSE)]
      BY <1>16 DEF ParseDone
    <3> QED
      BY <3>1, <3>2, AskedType
  <2>2. home' \in [Clients -> Tabs \cup {None}] /\ shown' \in [Tabs -> Panels \cup {None}]
    BY <1>16 DEF ParseDone, Mounts
  <2>3. /\ loaded' \subseteq Panels /\ form' \in [Panels -> Content]
        /\ badge' \in [Panels -> BOOLEAN]
    BY <1>16 DEF ParseDone
  <2> QED
    BY <1>16, <2>1, <2>2, <2>3 DEF ParseDone, history
<1>17. ASSUME NEW t \in Tabs, OpenAndFill(t) PROVE TypeOK'
  BY <1>17 DEF OpenAndFill, panelVars, history
<1>18. CASE CheckArm \/ FillSnapshot \/ FlowEnds
  BY <1>18 DEF CheckArm, FillSnapshot, FlowEnds, panelVars, history
<1>19. CASE UNCHANGED vars
  BY <1>19 DEF vars, panelVars, history
<1> QED
  BY <1>1, <1>2, <1>3, <1>4, <1>5, <1>8, <1>11, <1>12, <1>13, <1>14, <1>15, <1>16, <1>17,
     <1>18, <1>19 DEF Next, PanelNext, ParseNext

\* Steps that read, type or fill, and write neither the row nor a request.
Quiet == UNCHANGED <<profile, request, home, shown, loaded, confirmed, crossed, landed, seen>>

LEMMA QuietSteps ==
  /\ \A p \in Panels, f \in Fields : Edit(p, f) => Quiet
  /\ \A t \in Tabs : OpenAndFill(t) => Quiet
  /\ CheckArm \/ FillSnapshot \/ FlowEnds \/ UNCHANGED vars => Quiet
  BY DEF Quiet, Edit, OpenAndFill, CheckArm, FillSnapshot, FlowEnds, vars, panelVars, history

\* Every step keeps to the protocol.
LEMMA ProtocolStep == TypeOK /\ Protocol /\ [Next]_vars => Protocol'
<1> SUFFICES ASSUME TypeOK, Protocol, [Next]_vars PROVE Protocol'
  OBVIOUS
<1> USE Kinds DEF Protocol
<1>1. request \in [Clients -> Request]
  BY DEF TypeOK
<1>2. ASSUME NEW c \in Clients, Load(c) PROVE Protocol'
  <2>1. CASE Fails(c)
    BY <1>1, <1>2, <2>1, Failed, NoRequestFields DEF Load
  <2>2. CASE /\ request[c].op = "confirm" => Complete(profile.content)
             /\ Goes(c, IF request[c].op = "get" THEN "reply" ELSE "save",
                     Changed(request[c], profile))
    <3>1. CASE request[c].op = "get"
      BY <1>1, <2>2, <3>1, GoesOn
    <3>2. CASE request[c].op # "get"
      <4> request[c] \in Request
        BY <1>1
      <4>1. /\ request'[c].op = request[c].op /\ request'[c].at = "save"
            /\ request'[c].row = Changed(request[c], profile)
            /\ request'[c].body = request[c].body
            /\ \A d \in Clients \ {c} : request'[d] = request[d]
        BY <1>1, <2>2, <3>2, GoesOn
      <4>2. request[c].op \in {"patch", "confirm", "parse"}
        BY <1>1, <1>2, <3>2 DEF Load, Request
      <4> QED
        BY <1>2, <2>2, <4>1, <4>2 DEF Changed, Unconfirmed, Confirmed, Load
    <3> QED
      BY <3>1, <3>2
  <2> QED
    BY <1>2, <2>1, <2>2 DEF Load
<1>3. ASSUME NEW c \in Clients, Save(c) PROVE Protocol'
  <2>1. request[c].at = "save" /\ Goes(c, "reply", request[c].row)
    BY <1>3 DEF Save
  <2> QED
    BY <1>1, <2>1, GoesOn
<1>4. ASSUME NEW c \in Clients, RequestFails(c) PROVE Protocol'
  <2>1. Fails(c) /\ request[c].at # "start"
    BY <1>4 DEF RequestFails
  <2> QED
    BY <1>1, <2>1, Failed, NoRequestFields
<1>5. ASSUME NEW p \in Panels, NEW t \in Tabs, OpenTab(p, t) PROVE Protocol'
  BY <1>1, <1>5 DEF OpenTab, Asked
<1>6. ASSUME NEW p \in Panels, ProfileLoaded(p) \/ ShowSaved(p) PROVE Protocol'
  <2>1. Ends(p)
    BY <1>6 DEF ProfileLoaded, ShowSaved
  <2> QED
    BY <1>1, <2>1, Ended, NoRequestFields
<1>7. ASSUME NEW p \in Panels, ClickSave(p) \/ ClickConfirm(p) PROVE Protocol'
  BY <1>1, <1>7 DEF ClickSave, ClickConfirm, Asked
<1>8. ASSUME NEW p \in Panels, ThenConfirm(p) PROVE Protocol'
  BY <1>1, <1>8 DEF ThenConfirm, Asked
<1>9. ASSUME NEW c \in Parses, NEW t \in Tabs, NEW v \in {c, Blank}, StartParse(c, t, v)
      PROVE  Protocol'
  BY <1>1, <1>9 DEF StartParse, Asked
<1>10. ASSUME NEW c \in Parses, NEW p \in Panels, ParseDone(c, p) PROVE Protocol'
  <2>1. /\ request'[p] = Asked("get", Empty, FALSE)
        /\ request'[c].op = "parse" /\ request'[c].at = "done"
        /\ \A d \in Clients \ {c, p} : request'[d] = request[d]
    <3>1. request[c].op = "parse" /\ request[c] \in Request /\ c # p
      BY <1>1, <1>10 DEF ParseDone, IsAt
    <3>2. request' = [request EXCEPT ![c] = [request[c] EXCEPT !.at = "done"],
                                     ![p] = Asked("get", Empty, FALSE)]
      BY <1>10 DEF ParseDone
    <3> QED
      BY <1>1, <3>1, <3>2 DEF Request
  <2> QED
    BY <2>1 DEF Asked
<1>11. CASE Quiet
  BY <1>11 DEF Quiet
<1> QED
  BY <1>2, <1>3, <1>4, <1>5, <1>6, <1>7, <1>8, <1>9, <1>10, <1>11, QuietSteps
  DEF Next, PanelNext, ParseNext

\* Only Save writes the row, and what it writes confirmed is complete.
LEMMA StandingStep == TypeOK /\ Protocol /\ Standing /\ [Next]_vars => Standing'
<1> SUFFICES ASSUME TypeOK, Protocol, Standing, [Next]_vars PROVE Standing'
  OBVIOUS
<1>1. ASSUME NEW c \in Clients, Save(c) PROVE Standing'
  BY <1>1 DEF Save, Protocol, Standing
<1>2. CASE UNCHANGED <<profile, confirmed>>
  BY <1>2 DEF Standing
<1>3. ASSUME NEW c \in Clients, Load(c) \/ RequestFails(c) PROVE UNCHANGED <<profile, confirmed>>
  BY <1>3 DEF Load, RequestFails
<1>4. ASSUME NEW p \in Panels, PanelNext(p) PROVE UNCHANGED <<profile, confirmed>>
  BY <1>4 DEF PanelNext, OpenTab, Edit, ProfileLoaded, ClickSave, ClickConfirm, ThenConfirm,
    ShowSaved, history
<1>5. ASSUME NEW c \in Parses, ParseNext(c) PROVE UNCHANGED <<profile, confirmed>>
  BY <1>5 DEF ParseNext, StartParse, ParseDone, history
<1> QED
  BY <1>1, <1>2, <1>3, <1>4, <1>5, QuietSteps DEF Next, Quiet

\* A write that crosses a confirmation is noted, and a confirmation that none
\* crosses confirms what its form showed.
LEMMA UncrossedStep ==
  TypeOK /\ Protocol /\ Uncrossed /\ ConfirmedAsShown /\ [Next]_vars
    => Uncrossed' /\ ConfirmedAsShown'
<1> SUFFICES ASSUME TypeOK, Protocol, Uncrossed, ConfirmedAsShown, [Next]_vars
             PROVE  Uncrossed' /\ ConfirmedAsShown'
  OBVIOUS
<1> USE Kinds DEF Uncrossed, BetweenItsRequests, IsAt
<1>1. request \in [Clients -> Request]
  BY DEF TypeOK
<1>2. ASSUME NEW c \in Clients, Load(c) PROVE Uncrossed' /\ UNCHANGED confirmed
  <2>1. UNCHANGED <<profile, crossed, confirmed>> /\ request[c].at = "load"
    BY <1>2 DEF Load
  <2>2. CASE Fails(c)
    BY <1>1, <2>1, <2>2, Failed, NoRequestFields
  <2>3. CASE Goes(c, IF request[c].op = "get" THEN "reply" ELSE "save",
                  Changed(request[c], profile))
    <3>1. /\ request'[c].op = request[c].op /\ request'[c].body = request[c].body
          /\ request'[c].at = IF request[c].op = "get" THEN "reply" ELSE "save"
          /\ request'[c].row = Changed(request[c], profile)
          /\ \A d \in Clients \ {c} : request'[d] = request[d]
      BY <1>1, <2>3, GoesOn
    <3>2. request[c].op = "confirm" => request'[c].row.content = profile.content
      BY <3>1 DEF Changed, Confirmed
    <3> QED
      BY <2>1, <3>1, <3>2
  <2> QED
    BY <1>2, <2>1, <2>2, <2>3 DEF Load
<1>3. ASSUME NEW c \in Clients, Save(c) PROVE Uncrossed' /\ ConfirmedAsShown'
  <2>1. /\ request[c].at = "save" /\ profile' = request[c].row
        /\ Goes(c, "reply", request[c].row)
        /\ crossed' = (crossed \ {c}) \cup {p \in Panels \ {c} : BetweenItsRequests(p)}
    BY <1>3 DEF Save
  <2>2. /\ request'[c].op = request[c].op /\ request'[c].body = request[c].body
        /\ request'[c].at = "reply"
        /\ \A d \in Clients \ {c} : request'[d] = request[d]
    BY <1>1, <2>1, GoesOn
  <2>3. Uncrossed'
    BY <2>1, <2>2 DEF Protocol
  <2>4. CASE request[c].op = "confirm"
    <3>1. confirmed' = [content |-> request[c].row.content, form |-> request[c].body,
                        crossed |-> c \in crossed]
      BY <1>3, <2>1, <2>4 DEF Save, Protocol
    <3>2. c \in Panels
      BY <2>4 DEF Protocol
    <3>3. c \notin crossed => request[c].row.content = request[c].body
      BY <2>1, <2>4, <3>2
    <3> QED
      BY <2>3, <3>1, <3>3 DEF ConfirmedAsShown
  <2>5. CASE request[c].op # "confirm"
    <3>1. confirmed' = confirmed \/ confirmed' = NoConfirmation
      BY <1>3, <2>5 DEF Save
    <3> QED
      BY <2>3, <3>1 DEF ConfirmedAsShown, NoConfirmation
  <2> QED
    BY <2>4, <2>5
<1>4. ASSUME NEW c \in Clients, RequestFails(c) PROVE Uncrossed' /\ UNCHANGED confirmed
  <2>1. Fails(c) /\ crossed' = crossed \ {c} /\ UNCHANGED <<profile, confirmed>>
    BY <1>4 DEF RequestFails
  <2> QED
    BY <1>1, <2>1, Failed, NoRequestFields
<1>5. ASSUME NEW p \in Panels, NEW t \in Tabs, OpenTab(p, t)
      PROVE  Uncrossed' /\ UNCHANGED confirmed
  BY <1>1, <1>5 DEF OpenTab, history, Asked
<1>6. ASSUME NEW p \in Panels, ProfileLoaded(p) \/ ShowSaved(p)
      PROVE  Uncrossed' /\ UNCHANGED confirmed
  <2>1. Ends(p) /\ UNCHANGED <<profile, crossed, confirmed>>
    BY <1>6 DEF ProfileLoaded, ShowSaved, history
  <2> QED
    BY <1>1, <2>1, Ended, NoRequestFields
<1>7. ASSUME NEW p \in Panels, ClickSave(p) \/ ClickConfirm(p)
      PROVE  Uncrossed' /\ UNCHANGED confirmed
  BY <1>1, <1>7 DEF ClickSave, ClickConfirm, history, Asked
<1>8. ASSUME NEW p \in Panels, ThenConfirm(p) PROVE Uncrossed' /\ UNCHANGED confirmed
  BY <1>1, <1>8 DEF ThenConfirm, history, Asked
<1>9. ASSUME NEW c \in Parses, NEW t \in Tabs, NEW v \in {c, Blank}, StartParse(c, t, v)
      PROVE  Uncrossed' /\ UNCHANGED confirmed
  BY <1>1, <1>9 DEF StartParse, history, Asked
<1>10. ASSUME NEW c \in Parses, NEW p \in Panels, ParseDone(c, p)
       PROVE  Uncrossed' /\ UNCHANGED confirmed
  <2>1. /\ request'[p] = Asked("get", Empty, FALSE)
        /\ \A d \in Clients \ {c, p} : request'[d] = request[d]
        /\ UNCHANGED <<profile, crossed, confirmed>>
    BY <1>1, <1>10 DEF ParseDone, history
  <2>2. request'[c].at = "done"
    BY <1>1, <1>10 DEF ParseDone, Request
  <2> QED
    BY <2>1, <2>2 DEF Asked
<1>11. CASE Quiet
  BY <1>11 DEF Quiet, ConfirmedAsShown
<1>12. UNCHANGED confirmed => ConfirmedAsShown'
  BY DEF ConfirmedAsShown
<1> QED
  BY <1>2, <1>3, <1>4, <1>5, <1>6, <1>7, <1>8, <1>9, <1>10, <1>11, <1>12, QuietSteps
  DEF Next, PanelNext, ParseNext, Quiet

\* A step of one mounted client leaves the panels where they are.
LEMMA MountingKept ==
  ASSUME Mounting, UNCHANGED <<home, shown>>, NEW c \in Clients,
         c \in Panels => request[c] # NoRequest,
         \A d \in Clients \ {c} : request'[d] = request[d],
         request'[c].op \in {"patch", "confirm"} => request[c].op \in {"patch", "confirm"},
         loaded \subseteq loaded', loaded' \subseteq loaded \cup {c}
  PROVE  Mounting'
  BY Kinds DEF Mounting, Shown

\* Panels stay where they were mounted, until a parse replaces them.
LEMMA MountingStep ==
  TypeOK /\ Protocol /\ Mounting /\ Following /\ [Next]_vars => Mounting'
<1> SUFFICES ASSUME TypeOK, Protocol, Mounting, Following, [Next]_vars PROVE Mounting'
  OBVIOUS
<1> USE Kinds, NoRequestFields
<1>1. request \in [Clients -> Request]
  BY DEF TypeOK
<1>2. ASSUME NEW c \in Clients, Load(c) \/ Save(c) \/ RequestFails(c) PROVE Mounting'
  <2>1. UNCHANGED <<home, shown, loaded>> /\ request[c].at \in {"load", "save", "reply"}
    BY <1>2 DEF Load, Save, RequestFails, panelVars
  <2>2. Fails(c) \/ \E at, row : Goes(c, at, row)
    BY <1>2 DEF Load, Save, RequestFails
  <2>3. /\ \A d \in Clients \ {c} : request'[d] = request[d]
        /\ request'[c].op \in {request[c].op, "none"}
    <3>1. CASE Fails(c)
      BY <1>1, <3>1, Failed
    <3>2. ASSUME NEW at, NEW row, Goes(c, at, row)
          PROVE  /\ \A d \in Clients \ {c} : request'[d] = request[d]
                 /\ request'[c].op = request[c].op
      BY <1>1, <3>2, GoesOn
    <3> QED
      BY <2>2, <3>1, <3>2
  <2> QED
    BY <2>1, <2>3, MountingKept
<1>3. ASSUME NEW p \in Panels, ProfileLoaded(p) PROVE Mounting'
  <2>1. /\ Ends(p) /\ request[p].op = "get" /\ UNCHANGED <<home, shown>>
        /\ loaded \subseteq loaded' /\ loaded' \subseteq loaded \cup {p}
    BY <1>3 DEF ProfileLoaded, IsAt, Applies
  <2> QED
    BY <1>1, <2>1, Ended, MountingKept
<1>4. ASSUME NEW p \in Panels, ShowSaved(p) PROVE Mounting'
  <2>1. /\ Ends(p) /\ request[p].at = "reply" /\ UNCHANGED <<home, shown>>
        /\ loaded \subseteq loaded' /\ loaded' \subseteq loaded \cup {p}
    BY <1>4 DEF ShowSaved, IsAt, Applies
  <2> QED
    BY <1>1, <2>1, Ended, MountingKept
<1>5. ASSUME NEW p \in Panels, ThenConfirm(p) PROVE Mounting'
  <2>1. /\ request[p].op = "patch" /\ request[p].at = "reply"
        /\ \A d \in Clients \ {p} : request'[d] = request[d]
        /\ UNCHANGED <<home, shown, loaded>>
    BY <1>1, <1>5 DEF ThenConfirm, IsAt, panelVars
  <2> QED
    BY <2>1, MountingKept
<1>6. ASSUME NEW p \in Panels, ClickSave(p) \/ ClickConfirm(p) PROVE Mounting'
  <2>1. /\ p \in loaded /\ home[p] # None /\ UNCHANGED <<home, shown, loaded>>
        /\ \A d \in Clients \ {p} : request'[d] = request[d]
    BY <1>1, <1>6 DEF ClickSave, ClickConfirm, Usable, Shown, panelVars
  <2> QED
    BY <2>1 DEF Mounting, Shown
<1>7. ASSUME NEW p \in Panels, NEW t \in Tabs, OpenTab(p, t) PROVE Mounting'
  <2>1. /\ shown[t] = None /\ home[p] = None
        /\ home' = [home EXCEPT ![p] = t] /\ shown' = [shown EXCEPT ![t] = p]
        /\ loaded' = loaded
        /\ \A d \in Clients \ {p} : request'[d] = request[d]
        /\ request'[p].op = "get"
    BY <1>1, <1>7 DEF OpenTab, Mounts, Asked
  <2> QED
    BY <2>1 DEF Mounting, Shown, TypeOK
<1>8. ASSUME NEW c \in Parses, NEW t \in Tabs, NEW v \in {c, Blank}, StartParse(c, t, v)
      PROVE  Mounting'
  <2>1. /\ home' = [home EXCEPT ![c] = t] /\ UNCHANGED <<shown, loaded>>
        /\ \A d \in Clients \ {c} : request'[d] = request[d]
    BY <1>1, <1>8 DEF StartParse
  <2>2. \A p \in Panels : home'[p] = home[p] /\ request'[p] = request[p]
    BY <2>1 DEF TypeOK
  <2>3. \A u \in Tabs : shown[u] # None => shown[u] \in Panels
    BY DEF TypeOK
  <2> QED
    BY <2>1, <2>2, <2>3 DEF Mounting, Shown
<1>9. ASSUME NEW c \in Parses, NEW p \in Panels, ParseDone(c, p) PROVE Mounting'
  <2> DEFINE t == home[c]
             old == shown[t]
  <2>1. /\ IsAt(c, "parse", "reply") /\ home[p] = None
        /\ home' = [home EXCEPT ![p] = t] /\ shown' = [shown EXCEPT ![t] = p]
        /\ loaded' = loaded \ {old}
        /\ \A d \in Panels \ {p} : request'[d] = request[d]
        /\ request'[p].op = "get"
    BY <1>1, <1>9 DEF ParseDone, Mounts, Asked
  <2>2. t \in Tabs /\ old \in Panels /\ home[old] = t
    BY <2>1 DEF Following, IsAt, Mounting, TypeOK
  <2>3. p # old
    BY <2>1, <2>2
  <2>4. \A u \in Tabs : shown'[u] = IF u = t THEN p ELSE shown[u]
    BY <2>1 DEF TypeOK
  <2>5. \A q \in Panels : home'[q] = IF q = p THEN t ELSE home[q]
    BY <2>1 DEF TypeOK
  <2>6. \A u \in Tabs : shown[u] # None => shown[u] \in Panels
    BY DEF TypeOK
  <2>7. \A u \in Tabs : shown'[u] # None => home'[shown'[u]] = u
    BY <2>1, <2>2, <2>4, <2>5, <2>6 DEF Mounting
  <2>8. \A q \in Panels : home'[q] = None => request'[q] = NoRequest /\ q \notin loaded'
    BY <2>1, <2>2, <2>5 DEF Mounting
  <2>9. ASSUME NEW q \in Panels, home'[q] # None, shown'[home'[q]] = q,
               request'[q].op \in {"patch", "confirm"}
        PROVE  q \in loaded'
    <3>1. q # p
      BY <2>1, <2>9
    <3>2. home[q] # None /\ home[q] # t /\ shown[home[q]] = q
      BY <2>4, <2>5, <2>9, <3>1 DEF TypeOK
    <3>3. q \in loaded /\ q # old
      BY <2>1, <2>2, <2>9, <3>1, <3>2 DEF Mounting, Shown
    <3> QED
      BY <2>1, <3>3
  <2> QED
    BY <2>7, <2>8, <2>9 DEF Mounting, Shown
<1>10. CASE Quiet
  BY <1>10 DEF Quiet, Mounting, Shown
<1> QED
  BY <1>2, <1>3, <1>4, <1>5, <1>6, <1>7, <1>8, <1>9, <1>10, QuietSteps
  DEF Next, PanelNext, ParseNext

\* The panel a tab shows once it has loaded has seen the parses that ended there.
LEMMA FollowingStep ==
  TypeOK /\ Protocol /\ Mounting /\ Following /\ [Next]_vars => Following'
<1> SUFFICES ASSUME TypeOK, Protocol, Mounting, Following, [Next]_vars PROVE Following'
  OBVIOUS
<1> USE Kinds, NoRequestFields DEF IsAt
<1>1. request \in [Clients -> Request]
  BY DEF TypeOK
<1>2. ASSUME NEW c \in Clients, Load(c) PROVE Following'
  <2>1. /\ UNCHANGED <<home, shown, loaded, landed>> /\ request[c].at = "load"
        /\ seen' = IF request[c].op = "get" THEN [seen EXCEPT ![c] = landed] ELSE seen
    BY <1>2 DEF Load, panelVars
  <2>2. /\ \A d \in Clients \ {c} : request'[d] = request[d]
        /\ c \in Parses => request'[c].at \in {"save", "failed"}
        /\ c \in Panels /\ request[c].op # "get" => request'[c].op # "get"
    <3>1. CASE Fails(c)
      BY <1>1, <3>1, Failed
    <3>2. CASE Goes(c, IF request[c].op = "get" THEN "reply" ELSE "save",
                    Changed(request[c], profile))
      BY <1>1, <3>2, GoesOn DEF Protocol
    <3> QED
      BY <1>2, <3>1, <3>2 DEF Load
  <2>3. \A p \in Panels : seen'[p] = IF p = c /\ request[c].op = "get" THEN landed ELSE seen[p]
    BY <2>1 DEF TypeOK
  <2> QED
    BY <2>1, <2>2, <2>3 DEF Following
<1>3. ASSUME NEW c \in Clients, Save(c) PROVE Following'
  <2>1. /\ UNCHANGED <<home, shown, loaded, seen>> /\ request[c].at = "save"
        /\ Goes(c, "reply", request[c].row)
        /\ landed' = IF request[c].op = "parse" THEN landed \cup {c} ELSE landed
    BY <1>3 DEF Save, panelVars
  <2>2. /\ \A d \in Clients \ {c} : request'[d] = request[d]
        /\ request'[c].op = request[c].op /\ request'[c].at = "reply"
    BY <1>1, <2>1, GoesOn
  <2>3. request[c].op # "get"
    BY <2>1 DEF Protocol
  <2>4. c \in Parses => request[c].op = "parse"
    <3>1. request[c].op \in {"none", "get", "patch", "confirm", "parse"}
      BY <1>1 DEF Request
    <3> QED
      BY <2>1, <3>1 DEF Protocol
  <2> QED
    BY <2>1, <2>2, <2>3, <2>4 DEF Following
<1>4. ASSUME NEW c \in Clients, RequestFails(c) PROVE Following'
  <2>1. Fails(c) /\ UNCHANGED <<home, shown, loaded, seen, landed>>
    BY <1>4 DEF RequestFails, panelVars
  <2> QED
    BY <1>1, <2>1, Failed DEF Following
<1>5. ASSUME NEW p \in Panels, ProfileLoaded(p) PROVE Following'
  <2>1. /\ Ends(p) /\ IsAt(p, "get", "reply") /\ loaded' \subseteq loaded \cup {p}
        /\ UNCHANGED <<home, shown, seen, landed>>
    BY <1>5 DEF ProfileLoaded, Applies, history
  <2>2. request'[p] = NoRequest /\ \A d \in Clients \ {p} : request'[d] = request[d]
    BY <1>1, <2>1, Ended
  <2> QED
    BY <2>1, <2>2 DEF Following
<1>6. ASSUME NEW p \in Panels, ShowSaved(p) PROVE Following'
  <2>1. Ends(p) /\ UNCHANGED <<home, shown, seen, landed>>
    BY <1>6 DEF ShowSaved, history
  <2>2. request'[p] = NoRequest /\ \A d \in Clients \ {p} : request'[d] = request[d]
    BY <1>1, <2>1, Ended
  <2>3. loaded' = loaded
    BY <1>6 DEF ShowSaved, Applies, Mounting
  <2> QED
    BY <2>1, <2>2, <2>3 DEF Following
<1>7. ASSUME NEW p \in Panels, ClickSave(p) \/ ClickConfirm(p) \/ ThenConfirm(p)
      PROVE  Following'
  <2>1. UNCHANGED <<home, shown, loaded, seen, landed>>
    BY <1>7 DEF ClickSave, ClickConfirm, ThenConfirm, panelVars, history
  <2>2. /\ request'[p].op \in {"patch", "confirm"}
        /\ \A d \in Clients \ {p} : request'[d] = request[d]
    BY <1>1, <1>7 DEF ClickSave, ClickConfirm, ThenConfirm, Asked
  <2> QED
    BY <2>1, <2>2 DEF Following
<1>8. ASSUME NEW p \in Panels, NEW t \in Tabs, OpenTab(p, t) PROVE Following'
  <2>1. /\ shown[t] = None /\ home[p] = None
        /\ home' = [home EXCEPT ![p] = t] /\ shown' = [shown EXCEPT ![t] = p]
        /\ UNCHANGED <<loaded, seen, landed>>
        /\ \A d \in Clients \ {p} : request'[d] = request[d]
        /\ request'[p].at = "load"
    BY <1>1, <1>8 DEF OpenTab, Mounts, Asked, history
  <2>2. \A u \in Tabs : shown'[u] = IF u = t THEN p ELSE shown[u]
    BY <2>1 DEF TypeOK
  <2>3. \A c \in Parses : home'[c] = home[c] /\ request'[c] = request[c]
    BY <2>1 DEF TypeOK
  <2> QED
    BY <2>1, <2>2, <2>3 DEF Following
<1>9. ASSUME NEW c \in Parses, NEW t \in Tabs, NEW v \in {c, Blank}, StartParse(c, t, v)
      PROVE  Following'
  <2>1. /\ shown[t] # None /\ home' = [home EXCEPT ![c] = t]
        /\ UNCHANGED <<shown, loaded, seen, landed>>
        /\ \A d \in Clients \ {c} : request'[d] = request[d]
        /\ request'[c].at = "load"
    BY <1>1, <1>9 DEF StartParse, Asked, history
  <2>2. \A d \in Clients : home'[d] = IF d = c THEN t ELSE home[d]
    BY <2>1 DEF TypeOK
  <2> QED
    BY <2>1, <2>2 DEF Following
<1>10. ASSUME NEW c \in Parses, NEW p \in Panels, ParseDone(c, p) PROVE Following'
  <2> DEFINE t == home[c]
  <2>1. /\ IsAt(c, "parse", "reply") /\ home[p] = None
        /\ home' = [home EXCEPT ![p] = t] /\ shown' = [shown EXCEPT ![t] = p]
        /\ loaded' \subseteq loaded /\ UNCHANGED <<seen, landed>>
        /\ request'[p].at = "load" /\ request'[c].at = "done"
        /\ \A d \in Clients \ {c, p} : request'[d] = request[d]
    BY <1>1, <1>10 DEF ParseDone, Mounts, Asked, history, Request
  <2>2. t \in Tabs
    BY <2>1 DEF Following
  <2>3. \A u \in Tabs : shown'[u] = IF u = t THEN p ELSE shown[u]
    BY <2>1, <2>2 DEF TypeOK
  <2>4. \A d \in Parses : home'[d] = home[d]
    BY <2>1 DEF TypeOK
  <2>5. p \notin loaded'
    BY <2>1 DEF Mounting
  <2> QED
    BY <2>1, <2>2, <2>3, <2>4, <2>5 DEF Following
<1>11. CASE Quiet
  BY <1>11 DEF Quiet, Following
<1> QED
  BY <1>2, <1>3, <1>4, <1>5, <1>6, <1>7, <1>8, <1>9, <1>10, <1>11, QuietSteps
  DEF Next, PanelNext, ParseNext

-----------------------------------------------------------------------------
(* The theorems. *)

\* The invariant is inductive.
THEOREM Invariance == Spec => []Inv
<1>1. Inv /\ [Next]_vars => Inv'
  BY TypeStep, ProtocolStep, StandingStep, UncrossedStep, MountingStep, FollowingStep
  DEF Inv
<1> QED
  BY InitInv, <1>1, PTL DEF Spec

\* Every variable keeps its type.
THEOREM TypeCorrect == Spec => []TypeOK
<1>1. Inv => TypeOK
  BY DEF Inv
<1> QED
  BY <1>1, Invariance, PTL

\* A click on Confirm confirms what its form showed, unless another request wrote
\* the profile between its two requests.
THEOREM ConfirmationIsFaithful == Spec => []ConfirmedAsShown
<1>1. Inv => ConfirmedAsShown
  BY DEF Inv
<1> QED
  BY <1>1, Invariance, PTL

\* What a tab shows after a parse ended in it was read after the parse was saved.
THEOREM ParseReachesReview == Spec => []ParseIsShown
<1>1. Inv => ParseIsShown
  BY Kinds DEF Inv, TypeOK, Following, ParseIsShown
<1> QED
  BY <1>1, Invariance, PTL

\* Open & Fill hands out only complete profiles that stand confirmed as they are.
THEOREM GateHolds == Spec => FilledIsConfirmed
<1>1. Inv /\ [Next]_vars
        => [HandsOut => Complete(profile.content) /\ confirmed.content = profile.content]_vars
  <2> SUFFICES ASSUME Inv, [Next]_vars, HandsOut
               PROVE  Complete(profile.content) /\ confirmed.content = profile.content
    OBVIOUS
  <2>1. ASSUME FillSnapshot PROVE profile.confirmed
    BY <2>1 DEF FillSnapshot, HandsOut
  <2>2. CASE UNCHANGED filling
    BY <2>2 DEF HandsOut
  <2>3. ASSUME NEW c \in Clients, Load(c) \/ Save(c) \/ RequestFails(c) PROVE UNCHANGED filling
    BY <2>3 DEF Load, Save, RequestFails
  <2>4. ASSUME NEW p \in Panels, PanelNext(p) PROVE UNCHANGED filling
    BY <2>4 DEF PanelNext, OpenTab, Edit, ProfileLoaded, ClickSave, ClickConfirm,
      ThenConfirm, ShowSaved
  <2>5. ASSUME NEW c \in Parses, ParseNext(c) PROVE UNCHANGED filling
    BY <2>5 DEF ParseNext, StartParse, ParseDone
  <2>6. \/ FillSnapshot
        \/ UNCHANGED filling
    BY <2>3, <2>4, <2>5 DEF Next, vars, OpenAndFill, CheckArm, FlowEnds, HandsOut
  <2> QED
    BY <2>1, <2>2, <2>6 DEF Inv, Standing
<1> QED
  BY <1>1, Invariance, PTL DEF Spec, FilledIsConfirmed

=============================================================================
