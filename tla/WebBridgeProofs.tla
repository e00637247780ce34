----------------------------- MODULE WebBridgeProofs ----------------------------
(***************************************************************************)
(* Theorems about Open & Fill and sign-out between the page, the server    *)
(* and the extension, for any number of clicks, lost answers and worker    *)
(* stops: the card says what became of its click, and a sign-out that the  *)
(* extension has confirmed leaves nothing armed.                           *)
(***************************************************************************)
EXTENDS WebBridge, TLAPS

Message == Clicks \cup {"clear"}
AnswerRecord == [to : Message, value : {"yes", "no", "lost"}]
Flow == [pc : {"idle", "arm", "snapshot", "extension", "done"},
         reply : {"none", "yes", "no", "login", "failed"},
         notice : {"none", "needProfile", "needLogin", "error", "armed", "noExtension"}]
Opening == [pc : {"none", "creating", "created", "refused", "armed", "acknowledged", "denied",
                  "lost"},
            generation : Nat]

BridgeTypeOK ==
  /\ bridge \in [present : BOOLEAN, direct : BOOLEAN]
  /\ flow \in [Clicks -> Flow]
  /\ session \in BOOLEAN /\ cleared \in BOOLEAN
  /\ leaving \in {"in", "logout", "clear", "direct", "bridge", "out"}
  /\ inbox \in Seq(Message) /\ answers \subseteq AnswerRecord
  /\ worker \in [Clicks -> Opening]
  /\ generation \in Nat /\ held \subseteq Clicks /\ opened \in [Clicks -> Nat] /\ breaks \in Nat
  /\ givenUp \subseteq Clicks /\ crossing \subseteq Clicks

\* The worker has not answered the click yet, nor will it without another step.
Unanswered(c) == worker[c].pc = "none" \/ Busy(c)
\* The worker may have opened a tab for the click, and so may the page.
ByWorker(c) == IF worker[c].pc \in {"none", "creating"} THEN 0 ELSE 1
ByPage(c) == IF flow[c].notice = "noExtension" THEN 1 ELSE 0

\* A click is in one place: with the page, in the inbox, with the worker, answered.
PlaceInv ==
  /\ ~bridge.present => inbox = <<>> /\ answers = {} /\ \A c \in Clicks : worker[c].pc = "none"
  /\ \A i, j \in DOMAIN inbox : inbox[i] = inbox[j] /\ inbox[i] \in Clicks => i = j
  /\ \A i \in DOMAIN inbox : inbox[i] \in Clicks =>
       /\ worker[inbox[i]].pc = "none"
       /\ flow[inbox[i]].pc \in {"extension", "done"}
  /\ \A c \in Clicks : flow[c].pc \in {"idle", "arm", "snapshot"} => worker[c].pc = "none"
  /\ \A c \in Clicks :
       /\ flow[c].pc # "done" => flow[c].notice = "none"
       /\ flow[c].reply # "none" => flow[c].pc \in {"arm", "snapshot"}
  /\ \A a \in answers : a.to \in Clicks =>
       /\ ~Unanswered(a.to)
       /\ a.value = "yes" => worker[a.to].pc = "acknowledged"

\* What the card says, and who has opened the posting.
CardInv ==
  \A c \in Clicks :
    /\ flow[c].notice = "armed" => worker[c].pc = "acknowledged"
    /\ flow[c].notice = "noExtension" => c \in givenUp \/ ~bridge.present
    /\ opened[c] <= ByWorker(c) + ByPage(c)

Clearing == leaving \in {"direct", "bridge"}
\* The page has the confirmation that the store is empty, or it is on its way.
Confirmed ==
  \/ Clearing /\ [to |-> "clear", value |-> "yes"] \in answers
  \/ leaving = "out" /\ cleared

\* One clear is under way, and no click is let through behind it but those whose
\* snapshot had left the server.
ClearInv ==
  /\ \A c \in Clicks :
       worker[c].pc \in {"creating", "created"} => worker[c].generation <= generation
  /\ leaving \in {"clear", "direct", "bridge", "out"} => ~session
  /\ leaving \in {"in", "logout", "clear"} =>
       /\ \A i \in DOMAIN inbox : inbox[i] # "clear"
       /\ \A a \in answers : a.to # "clear"
  /\ leaving \in {"direct", "bridge", "out"} => SnapshotsOnTheirWay \subseteq crossing
  /\ Clearing =>
       /\ \A i, j \in DOMAIN inbox : inbox[i] = "clear" /\ i < j =>
            inbox[j] \in crossing
       /\ \A i \in DOMAIN inbox : inbox[i] = "clear" => \A a \in answers : a.to # "clear"
       /\ \A a, b \in answers : a.to = "clear" /\ b.to = "clear" => a = b
  /\ Confirmed =>
       /\ held \subseteq crossing
       /\ \A i \in DOMAIN inbox : inbox[i] \in crossing
       /\ \A c \in Clicks :
            worker[c].pc \in {"creating", "created"} /\ worker[c].generation = generation
              => c \in crossing

BridgeInv == BridgeTypeOK /\ PlaceInv /\ CardInv /\ ClearInv

-----------------------------------------------------------------------------
(* Messages and types. *)

\* A message is added behind the others, if there is an extension.
LEMMA Posted ==
  ASSUME inbox \in Seq(Message), NEW m \in Message, Post(m)
  PROVE  /\ inbox' \in Seq(Message)
         /\ \/ inbox' = inbox /\ ~bridge.present
            \/ /\ bridge.present /\ DOMAIN inbox' = 1 .. Len(inbox) + 1
               /\ inbox'[Len(inbox) + 1] = m
               /\ \A i \in DOMAIN inbox : inbox'[i] = inbox[i]
         /\ \A i \in DOMAIN inbox' : i \in DOMAIN inbox \/ i = Len(inbox) + 1
         /\ DOMAIN inbox = 1 .. Len(inbox) /\ Len(inbox) \in Nat
  BY DEF Post

\* The worker takes the first message.
LEMMA Taken ==
  ASSUME inbox \in Seq(Message), inbox # <<>>, inbox' = Tail(inbox)
  PROVE  /\ inbox' \in Seq(Message) /\ Head(inbox) = inbox[1]
         /\ 1 \in DOMAIN inbox /\ Head(inbox) \in Message
         /\ \A i \in DOMAIN inbox' : /\ i \in Nat /\ i + 1 \in DOMAIN inbox
                                     /\ inbox'[i] = inbox[i + 1] /\ 1 < i + 1
         /\ \A i, j \in DOMAIN inbox' : (i < j => i + 1 < j + 1) /\ (i + 1 = j + 1 => i = j)
  OBVIOUS

\* What becomes of a click's card.
LEMMA CardsTyped ==
  ASSUME BridgeTypeOK, NEW c \in Clicks
  PROVE  /\ \A pc \in {"arm", "snapshot", "extension"} : Awaits(c, pc) =>
              /\ flow' \in [Clicks -> Flow]
              /\ flow' = [flow EXCEPT ![c] = flow'[c]]
              /\ flow'[c].pc = pc /\ flow'[c].reply = "none" /\ flow'[c].notice = flow[c].notice
         /\ \A notice \in {"needProfile", "needLogin", "error", "armed", "noExtension"} :
              Finishes(c, notice) =>
                /\ flow' \in [Clicks -> Flow]
                /\ flow' = [flow EXCEPT ![c] = flow'[c]]
                /\ flow'[c].pc = "done" /\ flow'[c].reply = "none" /\ flow'[c].notice = notice
<1>1. flow[c] \in Flow
  BY DEF BridgeTypeOK
<1>2. ASSUME NEW pc \in {"arm", "snapshot", "extension"}, Awaits(c, pc)
      PROVE  /\ flow' \in [Clicks -> Flow]
             /\ flow' = [flow EXCEPT ![c] = flow'[c]]
             /\ flow'[c].pc = pc /\ flow'[c].reply = "none" /\ flow'[c].notice = flow[c].notice
  <2> DEFINE x == [flow[c] EXCEPT !.pc = pc, !.reply = "none"]
  <2>1. x \in Flow /\ x.pc = pc /\ x.reply = "none" /\ x.notice = flow[c].notice
    BY <1>1 DEF Flow
  <2>2. flow' = [flow EXCEPT ![c] = x]
    BY <1>2 DEF Awaits
  <2> HIDE DEF x
  <2> QED
    BY <2>1, <2>2 DEF BridgeTypeOK
<1>3. ASSUME NEW notice \in {"needProfile", "needLogin", "error", "armed", "noExtension"},
             Finishes(c, notice)
      PROVE  /\ flow' \in [Clicks -> Flow]
             /\ flow' = [flow EXCEPT ![c] = flow'[c]]
             /\ flow'[c].pc = "done" /\ flow'[c].reply = "none" /\ flow'[c].notice = notice
  <2> DEFINE x == [pc |-> "done", reply |-> "none", notice |-> notice]
  <2>1. x \in Flow /\ x.pc = "done" /\ x.reply = "none" /\ x.notice = notice
    BY DEF Flow
  <2>2. flow' = [flow EXCEPT ![c] = x]
    BY <1>3 DEF Finishes
  <2> HIDE DEF x
  <2> QED
    BY <2>1, <2>2 DEF BridgeTypeOK
<1> QED
  BY <1>2, <1>3

\* The card of one click changes.
CardMoves(c) ==
  /\ flow' \in [Clicks -> Flow]
  /\ \A d \in Clicks \ {c} : flow'[d] = flow[d]

\* A click with the page: it waits for the server, ends in a notice, or is posted
\* to the extension.
LEMMA ClickMoves ==
  ASSUME BridgeTypeOK, PlaceInv, NEW c \in Clicks, Click(c) \/ ServeGate(c) \/ ReceiveReply(c)
  PROVE  /\ CardMoves(c) /\ flow[c].pc \in {"idle", "arm", "snapshot"}
         /\ \/ /\ flow'[c].pc \in {"arm", "snapshot"} /\ flow'[c].notice = "none"
               /\ ~session => flow'[c].reply # "yes"
               /\ inbox' = inbox
            \/ /\ flow'[c].pc = "done" /\ flow'[c].reply = "none" /\ inbox' = inbox
               /\ flow'[c].notice \in {"needProfile", "needLogin", "error"}
            \/ /\ flow[c].pc = "snapshot" /\ flow[c].reply = "yes" /\ Post(c)
               /\ flow'[c].pc = "extension" /\ flow'[c].reply = "none" /\ flow'[c].notice = "none"
<1>1. flow[c] \in Flow
  BY DEF BridgeTypeOK
<1>2. flow[c].pc # "done" => flow[c].notice = "none"
  BY DEF PlaceInv
<1>3. CASE Click(c)
  <2>1. Awaits(c, "arm") /\ flow[c].pc = "idle" /\ inbox' = inbox
    BY <1>3 DEF Click, channels
  <2>2. /\ flow' \in [Clicks -> Flow] /\ flow' = [flow EXCEPT ![c] = flow'[c]]
        /\ flow'[c].pc = "arm" /\ flow'[c].reply = "none" /\ flow'[c].notice = flow[c].notice
    BY <2>1, CardsTyped
  <2>3. CardMoves(c)
    BY <2>2 DEF CardMoves
  <2> QED
    BY <1>2, <2>1, <2>2, <2>3
<1>4. CASE ServeGate(c)
  <2>1. PICK reply \in {"yes", "no", "login", "failed"} :
          /\ flow' = [flow EXCEPT ![c].reply = reply]
          /\ ~session => reply # "yes"
    BY <1>4 DEF ServeGate
  <2> DEFINE x == [flow[c] EXCEPT !.reply = reply]
  <2>2. x \in Flow /\ x.pc = flow[c].pc /\ x.reply = reply /\ x.notice = flow[c].notice
    BY <1>1 DEF Flow
  <2>3. flow' = [flow EXCEPT ![c] = x]
    BY <2>1
  <2> HIDE DEF x
  <2>4. CardMoves(c) /\ flow'[c] = x
    BY <2>2, <2>3 DEF CardMoves, BridgeTypeOK
  <2>5. flow[c].pc \in {"arm", "snapshot"} /\ inbox' = inbox
    BY <1>4 DEF ServeGate, channels
  <2> QED
    BY <1>2, <2>1, <2>2, <2>4, <2>5
<1>5. CASE ReceiveReply(c)
  <2>1. flow[c].pc \in {"arm", "snapshot"} /\ flow[c].reply # "none"
    BY <1>5 DEF ReceiveReply, PlaceInv
  <2>2. CASE flow[c].reply # "yes"
    <3>1. NoticeOf(flow[c].reply) \in {"needProfile", "needLogin", "error"}
      BY <1>1, <2>1, <2>2 DEF NoticeOf, Flow
    <3>2. Finishes(c, NoticeOf(flow[c].reply)) /\ inbox' = inbox
      BY <1>5, <2>2 DEF ReceiveReply
    <3>3. /\ flow' \in [Clicks -> Flow] /\ flow' = [flow EXCEPT ![c] = flow'[c]]
          /\ flow'[c].pc = "done" /\ flow'[c].reply = "none"
          /\ flow'[c].notice \in {"needProfile", "needLogin", "error"}
      BY <3>1, <3>2, CardsTyped
    <3>4. CardMoves(c)
      BY <3>3 DEF CardMoves
    <3> QED
      BY <2>1, <3>2, <3>3, <3>4
  <2>3. CASE flow[c].reply = "yes" /\ flow[c].pc = "arm"
    <3>1. Awaits(c, "snapshot") /\ inbox' = inbox
      BY <1>5, <2>3 DEF ReceiveReply
    <3>2. /\ flow' \in [Clicks -> Flow] /\ flow' = [flow EXCEPT ![c] = flow'[c]]
          /\ flow'[c].pc = "snapshot" /\ flow'[c].reply = "none"
          /\ flow'[c].notice = flow[c].notice
      BY <3>1, CardsTyped
    <3>3. CardMoves(c)
      BY <3>2 DEF CardMoves
    <3> QED
      BY <1>2, <2>1, <3>1, <3>2, <3>3
  <2>4. CASE flow[c].reply = "yes" /\ flow[c].pc = "snapshot"
    <3>1. Awaits(c, "extension") /\ Post(c)
      BY <1>5, <2>4 DEF ReceiveReply
    <3>2. /\ flow' \in [Clicks -> Flow] /\ flow' = [flow EXCEPT ![c] = flow'[c]]
          /\ flow'[c].pc = "extension" /\ flow'[c].reply = "none"
          /\ flow'[c].notice = flow[c].notice
      BY <3>1, CardsTyped
    <3>3. CardMoves(c)
      BY <3>2 DEF CardMoves
    <3> QED
      BY <1>2, <2>4, <3>1, <3>2, <3>3
  <2> QED
    BY <2>1, <2>2, <2>3, <2>4
<1> QED
  BY <1>3, <1>4, <1>5

\* A card that concludes: the worker has armed, or refused, or the page opens the
\* posting itself.
LEMMA Concluded ==
  ASSUME BridgeTypeOK, NEW c \in Clicks, NEW v \in {"yes", "no", "lost"},
         flow[c].pc = "extension", Concludes(c, v)
  PROVE  /\ CardMoves(c) /\ flow'[c].pc = "done" /\ flow'[c].reply = "none"
         /\ flow'[c].notice = "armed" => v = "yes"
         /\ \/ /\ v = "lost" /\ flow'[c].notice = "noExtension"
               /\ opened' = [opened EXCEPT ![c] = @ + 1]
            \/ flow'[c].notice \in {"armed", "error"} /\ opened' = opened
<1>1. CASE v = "lost"
  <2>1. Finishes(c, "noExtension") /\ opened' = [opened EXCEPT ![c] = @ + 1]
    BY <1>1 DEF Concludes, OpensItself
  <2>2. /\ flow' \in [Clicks -> Flow] /\ flow' = [flow EXCEPT ![c] = flow'[c]]
        /\ flow'[c].pc = "done" /\ flow'[c].reply = "none" /\ flow'[c].notice = "noExtension"
    BY <2>1, CardsTyped
  <2> QED
    BY <1>1, <2>1, <2>2 DEF CardMoves
<1>2. CASE v # "lost"
  <2> DEFINE notice == IF v = "yes" THEN "armed" ELSE "error"
  <2>1. Finishes(c, notice) /\ opened' = opened
    BY <1>2 DEF Concludes
  <2>2. /\ flow' \in [Clicks -> Flow] /\ flow' = [flow EXCEPT ![c] = flow'[c]]
        /\ flow'[c].pc = "done" /\ flow'[c].reply = "none" /\ flow'[c].notice = notice
    BY <2>1, CardsTyped
  <2> QED
    BY <1>2, <2>1, <2>2 DEF CardMoves
<1> QED
  BY <1>1, <1>2

\* A page that gives a click up opens its posting itself.
LEMMA GivenUp ==
  ASSUME BridgeTypeOK, NEW c \in Clicks, GiveUp(c)
  PROVE  /\ CardMoves(c) /\ flow'[c].pc = "done" /\ flow'[c].reply = "none"
         /\ flow'[c].notice = "noExtension" /\ opened' = [opened EXCEPT ![c] = @ + 1]
<1>1. Finishes(c, "noExtension") /\ opened' = [opened EXCEPT ![c] = @ + 1]
  BY DEF GiveUp, OpensItself
<1>2. /\ flow' \in [Clicks -> Flow] /\ flow' = [flow EXCEPT ![c] = flow'[c]]
      /\ flow'[c].pc = "done" /\ flow'[c].reply = "none" /\ flow'[c].notice = "noExtension"
  BY <1>1, CardsTyped
<1> QED
  BY <1>1, <1>2 DEF CardMoves

\* Answers and the worker's openings, as the worker makes them.
LEMMA WorkerTyped ==
  ASSUME BridgeTypeOK
  PROVE  /\ \A to \in Message, v \in {"yes", "no", "lost"} :
              Answer(to, v) => answers' \subseteq AnswerRecord
         /\ \A c \in Clicks,
               pc \in {"created", "refused", "armed", "acknowledged", "denied", "lost"} :
              /\ [worker[c] EXCEPT !.pc = pc] \in Opening
              /\ [worker[c] EXCEPT !.pc = pc].pc = pc
              /\ [worker[c] EXCEPT !.pc = pc].generation = worker[c].generation
              /\ [worker EXCEPT ![c].pc = pc] = [worker EXCEPT ![c] = [worker[c] EXCEPT !.pc = pc]]
         /\ [pc |-> "creating", generation |-> generation] \in Opening
<1>1. \A c \in Clicks : worker[c] \in Opening
  BY DEF BridgeTypeOK
<1>2. \A to \in Message, v \in {"yes", "no", "lost"} :
        Answer(to, v) => answers' \subseteq AnswerRecord
  BY DEF BridgeTypeOK, Answer, AnswerRecord
<1>3. ASSUME NEW c \in Clicks,
             NEW pc \in {"created", "refused", "armed", "acknowledged", "denied", "lost"}
      PROVE  /\ [worker[c] EXCEPT !.pc = pc] \in Opening
             /\ [worker[c] EXCEPT !.pc = pc].pc = pc
             /\ [worker[c] EXCEPT !.pc = pc].generation = worker[c].generation
             /\ [worker EXCEPT ![c].pc = pc] = [worker EXCEPT ![c] = [worker[c] EXCEPT !.pc = pc]]
  BY <1>1, <1>3 DEF Opening, BridgeTypeOK
<1>4. [pc |-> "creating", generation |-> generation] \in Opening
  BY DEF Opening, BridgeTypeOK
<1> QED
  BY <1>2, <1>3, <1>4

\* The worker's opening of one click changes.
WorkerMoves(c, pc, g) ==
  /\ worker' \in [Clicks -> Opening]
  /\ worker'[c].pc = pc /\ worker'[c].generation = g
  /\ \A d \in Clicks \ {c} : worker'[d] = worker[d]

\* What each of the worker's steps makes of a click.
LEMMA OpeningMoves ==
  ASSUME BridgeTypeOK
  PROVE  /\ HandleOpen => WorkerMoves(Head(inbox), "creating", generation)
         /\ \A c \in Clicks :
              /\ CreateTab(c) => /\ worker[c].pc = "creating"
                                 /\ \/ /\ WorkerMoves(c, "created", worker[c].generation)
                                       /\ opened' = [opened EXCEPT ![c] = @ + 1]
                                    \/ /\ WorkerMoves(c, "refused", worker[c].generation)
                                       /\ opened' = opened
              /\ ArmTab(c) => /\ worker[c].pc = "created"
                              /\ \/ WorkerMoves(c, "refused", worker[c].generation)
                                 \/ WorkerMoves(c, "armed", worker[c].generation)
                              /\ \/ held' = held
                                 \/ /\ worker[c].generation = generation
                                    /\ held' = held \cup {c}
              /\ AnswerOpen(c) =>
                   \/ /\ worker[c].pc = "armed" /\ Answer(c, "yes")
                      /\ WorkerMoves(c, "acknowledged", worker[c].generation)
                   \/ /\ worker[c].pc = "refused" /\ Answer(c, "no")
                      /\ WorkerMoves(c, "denied", worker[c].generation)
         /\ WorkerStops => /\ worker' \in [Clicks -> Opening]
                           /\ \A c \in Clicks : IF Busy(c) THEN worker'[c].pc = "lost"
                                                ELSE worker'[c] = worker[c]
<1>1. ASSUME NEW c \in Clicks,
             NEW pc \in {"created", "refused", "armed", "acknowledged", "denied", "lost"},
             worker' = [worker EXCEPT ![c].pc = pc]
      PROVE  WorkerMoves(c, pc, worker[c].generation)
  <2> DEFINE x == [worker[c] EXCEPT !.pc = pc]
  <2>1. /\ x \in Opening /\ x.pc = pc /\ x.generation = worker[c].generation
        /\ worker' = [worker EXCEPT ![c] = x]
    BY <1>1, WorkerTyped
  <2> HIDE DEF x
  <2> QED
    BY <2>1 DEF BridgeTypeOK, WorkerMoves
<1>2. HandleOpen => WorkerMoves(Head(inbox), "creating", generation)
  <2> DEFINE x == [pc |-> "creating", generation |-> generation]
  <2>1. x \in Opening /\ x.pc = "creating" /\ x.generation = generation
    BY WorkerTyped
  <2>2. HandleOpen => worker' = [worker EXCEPT ![Head(inbox)] = x] /\ Head(inbox) \in Clicks
    BY DEF HandleOpen
  <2> HIDE DEF x
  <2> QED
    BY <2>1, <2>2 DEF BridgeTypeOK, WorkerMoves
<1>3. ASSUME NEW c \in Clicks, CreateTab(c)
      PROVE  /\ worker[c].pc = "creating"
             /\ \/ /\ WorkerMoves(c, "created", worker[c].generation)
                   /\ opened' = [opened EXCEPT ![c] = @ + 1]
                \/ /\ WorkerMoves(c, "refused", worker[c].generation)
                   /\ opened' = opened
  BY <1>1, <1>3 DEF CreateTab
<1>4. ASSUME NEW c \in Clicks, ArmTab(c)
      PROVE  /\ worker[c].pc = "created"
             /\ \/ WorkerMoves(c, "refused", worker[c].generation)
                \/ WorkerMoves(c, "armed", worker[c].generation)
             /\ \/ held' = held
                \/ worker[c].generation = generation /\ held' = held \cup {c}
  BY <1>1, <1>4 DEF ArmTab
<1>5. ASSUME NEW c \in Clicks, AnswerOpen(c)
      PROVE  \/ /\ worker[c].pc = "armed" /\ Answer(c, "yes")
                /\ WorkerMoves(c, "acknowledged", worker[c].generation)
             \/ /\ worker[c].pc = "refused" /\ Answer(c, "no")
                /\ WorkerMoves(c, "denied", worker[c].generation)
  <2>1. worker[c].pc \in {"armed", "refused"}
    BY <1>5 DEF AnswerOpen
  <2>2. worker' = [worker EXCEPT ![c].pc = IF worker[c].pc = "armed" THEN "acknowledged"
                                           ELSE "denied"]
    BY <1>5 DEF AnswerOpen, BridgeTypeOK
  <2>3. CASE worker[c].pc = "armed"
    <3>1. worker' = [worker EXCEPT ![c].pc = "acknowledged"] /\ Answer(c, "yes")
      BY <1>5, <2>2, <2>3 DEF AnswerOpen
    <3> QED
      BY <1>1, <2>3, <3>1
  <2>4. CASE worker[c].pc = "refused"
    <3>1. worker' = [worker EXCEPT ![c].pc = "denied"] /\ Answer(c, "no")
      BY <1>5, <2>2, <2>4 DEF AnswerOpen
    <3> QED
      BY <1>1, <2>4, <3>1
  <2> QED
    BY <2>1, <2>3, <2>4
<1>6. ASSUME WorkerStops
      PROVE  /\ worker' \in [Clicks -> Opening]
             /\ \A c \in Clicks : IF Busy(c) THEN worker'[c].pc = "lost"
                                  ELSE worker'[c] = worker[c]
  <2> DEFINE x(c) == [worker[c] EXCEPT !.pc = "lost"]
  <2>1. \A c \in Clicks : x(c) \in Opening /\ x(c).pc = "lost" /\ worker[c] \in Opening
    BY WorkerTyped DEF BridgeTypeOK
  <2>2. worker' = [c \in Clicks |-> IF Busy(c) THEN x(c) ELSE worker[c]]
    BY <1>6 DEF WorkerStops
  <2> HIDE DEF x
  <2> QED
    BY <2>1, <2>2
<1> QED
  BY <1>2, <1>3, <1>4, <1>5, <1>6

\* Every step keeps the types.
LEMMA BridgeTypeStep ==
  ASSUME BridgeInv, [BridgeNext]_bridgeVars
  PROVE  BridgeTypeOK'
<1>t. BridgeTypeOK /\ PlaceInv
  BY DEF BridgeInv
<1>1. ASSUME NEW c \in Clicks, Click(c) \/ ServeGate(c) \/ ReceiveReply(c) PROVE BridgeTypeOK'
  <2>1. CardMoves(c) /\ inbox' \in Seq(Message)
    BY <1>t, <1>1, ClickMoves, Posted DEF BridgeTypeOK, Message
  <2>2. UNCHANGED <<bridge, session, leaving, cleared, answers, extensionVars, opened, breaks,
                    bridgeHistory>>
    BY <1>1 DEF Click, ServeGate, ReceiveReply, channels
  <2> QED
    BY <1>t, <2>1, <2>2 DEF BridgeTypeOK, CardMoves, extensionVars, bridgeHistory
<1>2. ASSUME NEW c \in Clicks, GiveUp(c) PROVE BridgeTypeOK'
  <2>1. CardMoves(c) /\ opened' \in [Clicks -> Nat]
    BY <1>t, <1>2, GivenUp DEF BridgeTypeOK
  <2> QED
    BY <1>t, <1>2, <2>1 DEF BridgeTypeOK, CardMoves, GiveUp, extensionVars, channels
<1>3. ASSUME NEW a \in answers, ReceiveAnswer(a) PROVE BridgeTypeOK'
  <2>1. a.to \in Clicks /\ a.value \in {"yes", "no", "lost"}
    BY <1>t, <1>3 DEF ReceiveAnswer, BridgeTypeOK, AnswerRecord
  <2>2. flow' \in [Clicks -> Flow] /\ opened' \in [Clicks -> Nat]
    <3>1. CASE flow[a.to].pc = "extension"
      <4>1. Concludes(a.to, a.value)
        BY <1>3, <3>1 DEF ReceiveAnswer
      <4>2. CardMoves(a.to) /\ (opened' = opened \/ opened' = [opened EXCEPT ![a.to] = @ + 1])
        BY <1>t, <2>1, <3>1, <4>1, Concluded
      <4> QED
        BY <1>t, <2>1, <4>2 DEF BridgeTypeOK, CardMoves
    <3>2. CASE flow[a.to].pc # "extension"
      BY <1>t, <1>3, <3>2 DEF ReceiveAnswer, BridgeTypeOK
    <3> QED
      BY <3>1, <3>2
  <2> QED
    BY <1>t, <1>3, <2>1, <2>2 DEF BridgeTypeOK, ReceiveAnswer, extensionVars
<1>4. ASSUME NEW a \in answers, ReceiveCleared(a) PROVE BridgeTypeOK'
  <2>1. inbox' \in Seq(Message)
    BY <1>t, <1>4, Posted DEF ReceiveCleared, FallsBack, Leaves, BridgeTypeOK, Message
  <2> QED
    BY <1>t, <1>4, <2>1 DEF BridgeTypeOK, ReceiveCleared, FallsBack, Leaves, SnapshotsOnTheirWay,
       extensionVars
<1>5. CASE SignOut \/ ServeLogout
  <2>1. /\ session' \in BOOLEAN /\ breaks' \in Nat
        /\ leaving' \in {"in", "logout", "clear", "direct", "bridge", "out"}
    <3>1. session \in BOOLEAN /\ breaks \in Nat
      BY <1>t DEF BridgeTypeOK
    <3>2. CASE SignOut
      BY <3>1, <3>2 DEF SignOut
    <3>3. CASE ServeLogout
      <4>1. /\ session' = FALSE \/ session' \in {session, FALSE}
            /\ leaving' \in {"clear", "in"} /\ (breaks' = breaks \/ breaks' = breaks + 1)
        BY <3>3 DEF ServeLogout, Falters
      <4>2. session' \in BOOLEAN
        BY <3>1, <4>1
      <4> QED
        BY <3>1, <4>1, <4>2
    <3> QED
      BY <1>5, <3>2, <3>3
  <2>2. UNCHANGED <<bridge, flow, cleared, channels, extensionVars, opened, bridgeHistory>>
    BY <1>5 DEF SignOut, ServeLogout
  <2> QED
    BY <1>t, <2>1, <2>2 DEF BridgeTypeOK, channels, extensionVars, bridgeHistory
<1>6. CASE SendClear \/ ClearGivesUp
  <2>1. inbox' \in Seq(Message)
    BY <1>t, <1>6, Posted DEF SendClear, ClearGivesUp, FallsBack, Leaves, BridgeTypeOK, Message
  <2> QED
    BY <1>t, <1>6, <2>1 DEF BridgeTypeOK, SendClear, ClearGivesUp, FallsBack, Leaves,
       SnapshotsOnTheirWay, extensionVars, bridgeHistory
<1>7. CASE HandleOpen
  <2>1. inbox' \in Seq(Message) /\ worker' \in [Clicks -> Opening]
    BY <1>t, <1>7, Taken, OpeningMoves DEF HandleOpen, BridgeTypeOK, WorkerMoves
  <2> QED
    BY <1>t, <1>7, <2>1 DEF BridgeTypeOK, HandleOpen, pageVars, bridgeHistory
<1>8. CASE HandleClear
  <2>1. inbox' \in Seq(Message) /\ answers' \subseteq AnswerRecord
    BY <1>t, <1>8, Taken, WorkerTyped DEF HandleClear, BridgeTypeOK, Message
  <2> QED
    BY <1>t, <1>8, <2>1 DEF BridgeTypeOK, HandleClear, Falters, pageVars, bridgeHistory
<1>9. CASE WorkerStops
  <2>1. worker' \in [Clicks -> Opening] /\ answers' \subseteq AnswerRecord
    <3>1. worker' \in [Clicks -> Opening]
      BY <1>t, <1>9, OpeningMoves
    <3>2. answers' \subseteq AnswerRecord
      BY <1>t, <1>9 DEF WorkerStops, Silence, BridgeTypeOK, AnswerRecord, Message
    <3> QED
      BY <3>1, <3>2
  <2> QED
    BY <1>t, <1>9, <2>1 DEF BridgeTypeOK, WorkerStops, Falters, pageVars, bridgeHistory
<1>10. ASSUME NEW c \in Clicks, CreateTab(c) \/ ArmTab(c) \/ AnswerOpen(c) \/ SpendArm(c)
       PROVE  BridgeTypeOK'
  <2>1. CASE CreateTab(c)
    <3>1. worker' \in [Clicks -> Opening] /\ opened' \in [Clicks -> Nat]
      <4>1. /\ worker' \in [Clicks -> Opening]
            /\ opened' = opened \/ opened' = [opened EXCEPT ![c] = @ + 1]
        BY <1>t, <2>1, OpeningMoves DEF WorkerMoves
      <4>2. opened \in [Clicks -> Nat]
        BY <1>t DEF BridgeTypeOK
      <4>3. [opened EXCEPT ![c] = @ + 1] \in [Clicks -> Nat]
        BY <4>2
      <4> QED
        BY <4>1, <4>2, <4>3
    <3> QED
      BY <1>t, <2>1, <3>1 DEF BridgeTypeOK, CreateTab, Falters, pageVars, channels, bridgeHistory
  <2>2. CASE ArmTab(c)
    <3>1. worker' \in [Clicks -> Opening] /\ held' \subseteq Clicks
      <4>1. worker' \in [Clicks -> Opening]
        BY <1>t, <2>2, OpeningMoves DEF WorkerMoves
      <4>2. held \subseteq Clicks /\ (held' = held \/ held' = held \cup {c})
        BY <1>t, <2>2 DEF BridgeTypeOK, ArmTab
      <4> QED
        BY <4>1, <4>2
    <3> QED
      BY <1>t, <2>2, <3>1 DEF BridgeTypeOK, ArmTab, Falters, pageVars, channels, bridgeHistory
  <2>3. CASE AnswerOpen(c)
    <3>1. worker' \in [Clicks -> Opening] /\ answers' \subseteq AnswerRecord
      BY <1>t, <2>3, OpeningMoves, WorkerTyped DEF WorkerMoves, Message
    <3> QED
      BY <1>t, <2>3, <3>1 DEF BridgeTypeOK, AnswerOpen, pageVars, bridgeHistory
  <2>4. CASE SpendArm(c)
    BY <1>t, <2>4 DEF BridgeTypeOK, SpendArm, pageVars, channels, bridgeHistory
  <2> QED
    BY <1>10, <2>1, <2>2, <2>3, <2>4
<1>11. CASE UNCHANGED bridgeVars
  BY <1>t, <1>11 DEF BridgeTypeOK, bridgeVars, pageVars, channels, extensionVars, bridgeHistory
<1> QED
  BY <1>1, <1>2, <1>3, <1>4, <1>5, <1>6, <1>7, <1>8, <1>9, <1>10, <1>11
     DEF BridgeNext, PageStep, WorkerStep

-----------------------------------------------------------------------------
(* A click is in one place. *)

\* The page takes a click further, or to its end, or posts it.
LEMMA PlaceOfCards ==
  ASSUME BridgeTypeOK, PlaceInv, NEW c \in Clicks, CardMoves(c),
         UNCHANGED <<bridge, worker>>, answers' \subseteq answers,
         flow'[c].pc # "done" => flow'[c].notice = "none",
         flow'[c].reply # "none" => flow'[c].pc \in {"arm", "snapshot"},
         \/ inbox' = inbox /\ flow[c].pc = "extension" /\ flow'[c].pc = "done"
         \/ /\ flow[c].pc \in {"idle", "arm", "snapshot"}
            /\ \/ inbox' = inbox
               \/ Post(c) /\ flow'[c].pc = "extension"
  PROVE  PlaceInv'
<1>1. ~bridge'.present =>
         inbox' = <<>> /\ answers' = {} /\ \A d \in Clicks : worker'[d].pc = "none"
  BY Posted DEF PlaceInv, BridgeTypeOK, Message
<1>2. /\ \A i, j \in DOMAIN inbox' : inbox'[i] = inbox'[j] /\ inbox'[i] \in Clicks => i = j
      /\ \A i \in DOMAIN inbox' : inbox'[i] \in Clicks =>
           worker'[inbox'[i]].pc = "none" /\ flow'[inbox'[i]].pc \in {"extension", "done"}
  <2>1. flow[c].pc \in {"idle", "arm", "snapshot"} =>
          worker[c].pc = "none" /\ \A i \in DOMAIN inbox : inbox[i] # c
    BY DEF PlaceInv
  <2>2. CASE inbox' = inbox
    BY <2>1, <2>2 DEF PlaceInv, CardMoves
  <2>3. CASE Post(c) /\ flow'[c].pc = "extension" /\ flow[c].pc \in {"idle", "arm", "snapshot"}
    <3>1. \/ inbox' = inbox
          \/ /\ inbox'[Len(inbox) + 1] = c
             /\ \A i \in DOMAIN inbox : inbox'[i] = inbox[i]
             /\ \A i \in DOMAIN inbox' : i \in DOMAIN inbox \/ i = Len(inbox) + 1
      BY <2>3, Posted DEF BridgeTypeOK, Message
    <3> QED
      BY <2>1, <2>2, <2>3, <3>1 DEF PlaceInv, CardMoves
  <2> QED
    BY <2>2, <2>3
<1>3. \A d \in Clicks :
        /\ flow'[d].pc \in {"idle", "arm", "snapshot"} => worker'[d].pc = "none"
        /\ flow'[d].pc # "done" => flow'[d].notice = "none"
        /\ flow'[d].reply # "none" => flow'[d].pc \in {"arm", "snapshot"}
  BY DEF PlaceInv, CardMoves
<1>4. \A a \in answers' : a.to \in Clicks =>
        ~Unanswered(a.to)' /\ (a.value = "yes" => worker'[a.to].pc = "acknowledged")
  BY DEF PlaceInv, Unanswered, Busy
<1> QED
  BY <1>1, <1>2, <1>3, <1>4 DEF PlaceInv

\* The worker goes on with a click that it has not answered.
LEMMA PlaceOfWorker ==
  ASSUME BridgeTypeOK, PlaceInv, NEW c \in Clicks, NEW pc, NEW g, WorkerMoves(c, pc, g),
         UNCHANGED <<bridge, flow>>,
         \/ /\ inbox' = inbox /\ answers' = answers
            /\ worker[c].pc \in {"creating", "created"} /\ pc \in {"created", "refused", "armed"}
         \/ /\ inbox # <<>> /\ inbox' = Tail(inbox) /\ Head(inbox) = c /\ answers' = answers
            /\ pc = "creating"
         \/ /\ inbox' = inbox /\ worker[c].pc = "armed" /\ pc = "acknowledged" /\ Answer(c, "yes")
         \/ /\ inbox' = inbox /\ worker[c].pc = "refused" /\ pc = "denied" /\ Answer(c, "no")
  PROVE  PlaceInv'
<1>1. bridge.present /\ flow[c].pc \in {"extension", "done"}
  <2>1. CASE worker[c].pc # "none"
    BY <2>1 DEF PlaceInv, BridgeTypeOK, Flow
  <2>2. CASE inbox # <<>> /\ Head(inbox) = c
    BY <2>2 DEF PlaceInv, BridgeTypeOK
  <2> QED
    BY <2>1, <2>2
<1>2. /\ \A i, j \in DOMAIN inbox' : inbox'[i] = inbox'[j] /\ inbox'[i] \in Clicks => i = j
      /\ \A i \in DOMAIN inbox' : inbox'[i] \in Clicks =>
           worker'[inbox'[i]].pc = "none" /\ flow'[inbox'[i]].pc \in {"extension", "done"}
  <2>1. CASE inbox' = inbox /\ worker[c].pc # "none"
    BY <2>1 DEF PlaceInv, WorkerMoves
  <2>2. CASE inbox # <<>> /\ inbox' = Tail(inbox) /\ Head(inbox) = c
    <3>1. /\ 1 \in DOMAIN inbox /\ inbox[1] = c
          /\ \A i \in DOMAIN inbox' : /\ i \in Nat /\ i + 1 \in DOMAIN inbox
                                      /\ inbox'[i] = inbox[i + 1] /\ 1 < i + 1
          /\ \A i, j \in DOMAIN inbox' : i + 1 = j + 1 => i = j
      BY <2>2, Taken DEF BridgeTypeOK
    <3>2. \A i \in DOMAIN inbox' : inbox'[i] # c
      BY <3>1 DEF PlaceInv
    <3> QED
      BY <3>1, <3>2 DEF PlaceInv, WorkerMoves
  <2> QED
    BY <2>1, <2>2
<1>3. \A d \in Clicks :
        /\ flow'[d].pc \in {"idle", "arm", "snapshot"} => worker'[d].pc = "none"
        /\ flow'[d].pc # "done" => flow'[d].notice = "none"
        /\ flow'[d].reply # "none" => flow'[d].pc \in {"arm", "snapshot"}
  BY <1>1 DEF PlaceInv, WorkerMoves
<1>4. ASSUME NEW a \in answers', a.to \in Clicks
      PROVE  ~Unanswered(a.to)' /\ (a.value = "yes" => worker'[a.to].pc = "acknowledged")
  <2>1. CASE a.to # c
    <3>1. a \in answers
      BY <1>4, <2>1 DEF Answer
    <3> QED
      BY <1>4, <2>1, <3>1 DEF PlaceInv, WorkerMoves, Unanswered, Busy
  <2>2. CASE a.to = c
    <3>1. \A b \in answers : b.to # c
      <4>1. CASE worker[c].pc \in {"creating", "created", "armed", "refused"}
        BY <4>1 DEF PlaceInv, Unanswered, Busy
      <4>2. CASE inbox # <<>> /\ Head(inbox) = c
        <5>1. worker[c].pc = "none"
          BY <4>2 DEF PlaceInv, BridgeTypeOK
        <5> QED
          BY <5>1 DEF PlaceInv, Unanswered
      <4> QED
        BY <4>1, <4>2
    <3> QED
      BY <1>4, <2>2, <3>1 DEF Answer, WorkerMoves, Unanswered, Busy
  <2> QED
    BY <2>1, <2>2
<1> QED
  BY <1>1, <1>2, <1>3, <1>4 DEF PlaceInv

\* Messages of the sign-out do not touch a click.
LEMMA PlaceOfClear ==
  ASSUME BridgeTypeOK, PlaceInv, UNCHANGED <<bridge, flow, worker>>,
         \/ inbox' = inbox \/ Post("clear")
         \/ inbox # <<>> /\ Head(inbox) = "clear" /\ inbox' = Tail(inbox),
         \/ answers' \subseteq answers
         \/ inbox # <<>> /\ \A a \in answers' : a \in answers \/ a.to = "clear"
  PROVE  PlaceInv'
<1>1. ~bridge'.present =>
         inbox' = <<>> /\ answers' = {} /\ \A d \in Clicks : worker'[d].pc = "none"
  BY Posted DEF PlaceInv, BridgeTypeOK, Message
<1>2. /\ \A i, j \in DOMAIN inbox' : inbox'[i] = inbox'[j] /\ inbox'[i] \in Clicks => i = j
      /\ \A i \in DOMAIN inbox' : inbox'[i] \in Clicks =>
           worker'[inbox'[i]].pc = "none" /\ flow'[inbox'[i]].pc \in {"extension", "done"}
  <2>1. CASE inbox' = inbox
    BY <2>1 DEF PlaceInv
  <2>2. CASE Post("clear")
    <3>1. \/ inbox' = inbox
          \/ /\ inbox'[Len(inbox) + 1] = "clear"
             /\ \A i \in DOMAIN inbox : inbox'[i] = inbox[i]
             /\ \A i \in DOMAIN inbox' : i \in DOMAIN inbox \/ i = Len(inbox) + 1
      BY <2>2, Posted DEF BridgeTypeOK, Message
    <3>2. "clear" \notin Clicks
      BY WebBridgeAssumption
    <3> QED
      BY <2>1, <3>1, <3>2 DEF PlaceInv
  <2>3. CASE inbox # <<>> /\ inbox' = Tail(inbox)
    <3>1. /\ \A i \in DOMAIN inbox' : i + 1 \in DOMAIN inbox /\ inbox'[i] = inbox[i + 1]
          /\ \A i, j \in DOMAIN inbox' : i + 1 = j + 1 => i = j
      BY <2>3, Taken DEF BridgeTypeOK
    <3> QED
      BY <3>1 DEF PlaceInv
  <2> QED
    BY <2>1, <2>2, <2>3
<1>3. \A d \in Clicks :
        /\ flow'[d].pc \in {"idle", "arm", "snapshot"} => worker'[d].pc = "none"
        /\ flow'[d].pc # "done" => flow'[d].notice = "none"
        /\ flow'[d].reply # "none" => flow'[d].pc \in {"arm", "snapshot"}
  BY DEF PlaceInv
<1>4. \A a \in answers' : a.to \in Clicks =>
        ~Unanswered(a.to)' /\ (a.value = "yes" => worker'[a.to].pc = "acknowledged")
  BY WebBridgeAssumption DEF PlaceInv, Unanswered, Busy
<1> QED
  BY <1>1, <1>2, <1>3, <1>4 DEF PlaceInv

\* A worker that stops loses the clicks it has not answered, and says so.
LEMMA PlaceOfStop ==
  ASSUME BridgeTypeOK, PlaceInv, WorkerStops
  PROVE  PlaceInv'
<1>1. \A c \in Clicks : /\ Busy(c) => worker'[c].pc = "lost"
                        /\ ~Busy(c) => worker'[c] = worker[c]
                        /\ worker[c].pc = "none" => ~Busy(c)
  BY OpeningMoves DEF Busy
<1>2. UNCHANGED <<bridge, flow, inbox>>
  BY DEF WorkerStops, pageVars
<1>3. \A a \in answers' : a \in answers \/ (a.to \in Clicks /\ Busy(a.to) /\ a.value # "yes")
  BY DEF WorkerStops, Silence
<1>4. ASSUME NEW a \in answers', a.to \in Clicks
      PROVE  ~Unanswered(a.to)' /\ (a.value = "yes" => worker'[a.to].pc = "acknowledged")
  <2>1. CASE Busy(a.to)
    <3>1. a.value # "yes"
      BY <1>3, <1>4, <2>1 DEF PlaceInv, Unanswered
    <3> QED
      BY <1>1, <1>4, <2>1, <3>1 DEF Unanswered, Busy
  <2>2. CASE ~Busy(a.to)
    BY <1>1, <1>3, <1>4, <2>2 DEF PlaceInv, Unanswered, Busy
  <2> QED
    BY <2>1, <2>2
<1>5. ~bridge.present => answers' = {}
  BY <1>1, <1>3 DEF PlaceInv
<1> QED
  BY <1>1, <1>2, <1>4, <1>5 DEF PlaceInv

LEMMA PlaceStep ==
  ASSUME BridgeInv, [BridgeNext]_bridgeVars
  PROVE  PlaceInv'
<1>t. BridgeTypeOK /\ PlaceInv
  BY DEF BridgeInv
<1>1. ASSUME NEW c \in Clicks, Click(c) \/ ServeGate(c) \/ ReceiveReply(c) PROVE PlaceInv'
  <2>1. UNCHANGED <<bridge, worker, answers>>
    BY <1>1 DEF Click, ServeGate, ReceiveReply, channels, extensionVars
  <2> QED
    BY <1>t, <1>1, <2>1, ClickMoves, PlaceOfCards
<1>2. ASSUME NEW c \in Clicks, GiveUp(c) PROVE PlaceInv'
  <2>1. UNCHANGED <<bridge, worker, answers, inbox>> /\ flow[c].pc = "extension"
    BY <1>2 DEF GiveUp, channels, extensionVars
  <2> QED
    BY <1>t, <1>2, <2>1, GivenUp, PlaceOfCards
<1>3. ASSUME NEW a \in answers, ReceiveAnswer(a) PROVE PlaceInv'
  <2>1. a.to \in Clicks /\ a.value \in {"yes", "no", "lost"}
    BY <1>t, <1>3 DEF ReceiveAnswer, BridgeTypeOK, AnswerRecord
  <2>2. UNCHANGED <<bridge, worker, inbox>> /\ answers' \subseteq answers
    BY <1>3 DEF ReceiveAnswer, extensionVars
  <2>3. CASE flow[a.to].pc = "extension"
    <3>1. Concludes(a.to, a.value)
      BY <1>3, <2>3 DEF ReceiveAnswer
    <3>2. CardMoves(a.to) /\ flow'[a.to].pc = "done" /\ flow'[a.to].reply = "none"
      BY <1>t, <2>1, <2>3, <3>1, Concluded
    <3> QED
      BY <1>t, <2>1, <2>2, <2>3, <3>2, PlaceOfCards
  <2>4. CASE flow[a.to].pc # "extension"
    BY <1>t, <1>3, <2>2, <2>4, PlaceOfClear DEF ReceiveAnswer
  <2> QED
    BY <2>3, <2>4
<1>4. ASSUME \/ SignOut \/ ServeLogout \/ SendClear \/ ClearGivesUp
             \/ (\E a \in answers : ReceiveCleared(a))
      PROVE  PlaceInv'
  <2>1. /\ UNCHANGED <<bridge, flow, worker>> /\ answers' \subseteq answers
        /\ inbox' = inbox \/ Post("clear")
    BY <1>4 DEF SignOut, ServeLogout, SendClear, ClearGivesUp, ReceiveCleared, FallsBack, Leaves,
                channels, extensionVars
  <2> QED
    BY <1>t, <2>1, PlaceOfClear
<1>5. CASE HandleOpen
  <2>1. /\ UNCHANGED <<bridge, flow, answers>> /\ inbox # <<>> /\ inbox' = Tail(inbox)
        /\ Head(inbox) \in Clicks
    BY <1>5 DEF HandleOpen, pageVars
  <2>2. WorkerMoves(Head(inbox), "creating", generation)
    BY <1>t, <1>5, OpeningMoves
  <2> QED
    BY <1>t, <2>1, <2>2, PlaceOfWorker
<1>6. CASE HandleClear
  <2>1. /\ UNCHANGED <<bridge, flow, worker>> /\ inbox # <<>> /\ inbox' = Tail(inbox)
        /\ Head(inbox) = "clear"
    BY <1>6 DEF HandleClear, pageVars
  <2>2. \A a \in answers' : a \in answers \/ a.to = "clear"
    BY <1>6 DEF HandleClear, Answer
  <2> QED
    BY <1>t, <2>1, <2>2, PlaceOfClear
<1>7. ASSUME NEW c \in Clicks, CreateTab(c) \/ ArmTab(c) \/ AnswerOpen(c) PROVE PlaceInv'
  <2>1. UNCHANGED <<bridge, flow, inbox>> /\ (CreateTab(c) \/ ArmTab(c) => answers' = answers)
    BY <1>7 DEF CreateTab, ArmTab, AnswerOpen, pageVars, channels
  <2>2. CASE CreateTab(c)
    BY <1>t, <2>1, <2>2, OpeningMoves, PlaceOfWorker
  <2>3. CASE ArmTab(c)
    BY <1>t, <2>1, <2>3, OpeningMoves, PlaceOfWorker
  <2>4. CASE AnswerOpen(c)
    BY <1>t, <2>1, <2>4, OpeningMoves, PlaceOfWorker
  <2> QED
    BY <1>7, <2>2, <2>3, <2>4
<1>8. ASSUME UNCHANGED bridgeVars \/ \E c \in Clicks : SpendArm(c) PROVE PlaceInv'
  <2>1. UNCHANGED <<bridge, flow, worker, inbox, answers>>
    BY <1>8 DEF bridgeVars, SpendArm, pageVars, channels, extensionVars
  <2> QED
    BY <1>t, <2>1, PlaceOfClear
<1> QED
  BY <1>t, <1>1, <1>2, <1>3, <1>4, <1>5, <1>6, <1>7, <1>8, PlaceOfStop
     DEF BridgeNext, PageStep, WorkerStep

-----------------------------------------------------------------------------
(* The card says what became of its click. *)

LEMMA CardStep ==
  ASSUME BridgeInv, [BridgeNext]_bridgeVars
  PROVE  CardInv'
<1>t. BridgeTypeOK /\ PlaceInv /\ CardInv
  BY DEF BridgeInv
<1>n. \A c \in Clicks : opened[c] \in Nat
  BY <1>t DEF BridgeTypeOK
<1>1. ASSUME NEW c \in Clicks, Click(c) \/ ServeGate(c) \/ ReceiveReply(c) PROVE CardInv'
  <2>1. UNCHANGED <<bridge, worker, opened, givenUp>>
    BY <1>1 DEF Click, ServeGate, ReceiveReply, extensionVars, bridgeHistory
  <2>2. /\ \A d \in Clicks \ {c} : flow'[d] = flow[d]
        /\ flow[c].notice = "none" /\ flow'[c].notice \notin {"armed", "noExtension"}
    BY <1>t, <1>1, ClickMoves DEF CardMoves, PlaceInv
  <2> QED
    BY <1>t, <2>1, <2>2 DEF CardInv, ByWorker, ByPage
<1>2. ASSUME NEW c \in Clicks, GiveUp(c) PROVE CardInv'
  <2>1. /\ UNCHANGED <<bridge, worker>> /\ flow[c].notice = "none"
        /\ givenUp' = IF bridge.present THEN givenUp \cup {c} ELSE givenUp
    BY <1>t, <1>2 DEF GiveUp, extensionVars, PlaceInv
  <2>2. /\ \A d \in Clicks \ {c} : flow'[d] = flow[d] /\ opened'[d] = opened[d]
        /\ flow'[c].notice = "noExtension" /\ opened'[c] = opened[c] + 1
    BY <1>t, <1>2, GivenUp DEF CardMoves, BridgeTypeOK
  <2> QED
    BY <1>t, <1>n, <2>1, <2>2 DEF CardInv, ByWorker, ByPage
<1>3. ASSUME NEW a \in answers, ReceiveAnswer(a) PROVE CardInv'
  <2>1. a.to \in Clicks /\ a.value \in {"yes", "no", "lost"}
    BY <1>t, <1>3 DEF ReceiveAnswer, BridgeTypeOK, AnswerRecord
  <2>2. /\ UNCHANGED <<bridge, worker>> /\ givenUp \subseteq givenUp'
        /\ a.value = "lost" => a.to \in givenUp'
    BY <1>3 DEF ReceiveAnswer, extensionVars
  <2>3. CASE flow[a.to].pc = "extension"
    <3>1. Concludes(a.to, a.value)
      BY <1>3, <2>3 DEF ReceiveAnswer
    <3>2. /\ CardMoves(a.to)
          /\ flow'[a.to].notice = "armed" => a.value = "yes"
          /\ \/ /\ a.value = "lost" /\ flow'[a.to].notice = "noExtension"
                /\ opened' = [opened EXCEPT ![a.to] = @ + 1]
             \/ flow'[a.to].notice \in {"armed", "error"} /\ opened' = opened
      BY <1>t, <2>1, <2>3, <3>1, Concluded
    <3>3. flow[a.to].notice = "none" /\ (a.value = "yes" => worker[a.to].pc = "acknowledged")
      BY <1>t, <2>1, <2>3 DEF PlaceInv
    <3>4. \A d \in Clicks \ {a.to} : flow'[d] = flow[d] /\ opened'[d] = opened[d]
      BY <1>t, <3>2 DEF CardMoves, BridgeTypeOK
    <3>5. opened'[a.to] = IF a.value = "lost" /\ flow'[a.to].notice = "noExtension"
                          THEN opened[a.to] + 1 ELSE opened[a.to]
      BY <1>t, <2>1, <3>2 DEF BridgeTypeOK
    <3> QED
      BY <1>t, <1>n, <2>1, <2>2, <3>2, <3>3, <3>4, <3>5 DEF CardInv, ByWorker, ByPage
  <2>4. CASE flow[a.to].pc # "extension"
    BY <1>t, <1>3, <2>2, <2>4 DEF ReceiveAnswer, CardInv, ByWorker, ByPage
  <2> QED
    BY <2>3, <2>4
<1>4. ASSUME \/ SignOut \/ ServeLogout \/ SendClear \/ ClearGivesUp \/ HandleClear
             \/ (\E a \in answers : ReceiveCleared(a)) \/ (\E c \in Clicks : SpendArm(c))
             \/ UNCHANGED bridgeVars
      PROVE  CardInv'
  <2>1. UNCHANGED <<bridge, flow, worker, opened, givenUp>>
    BY <1>4 DEF SignOut, ServeLogout, SendClear, ClearGivesUp, HandleClear, ReceiveCleared,
                SpendArm, bridgeVars, pageVars, extensionVars, bridgeHistory
  <2> QED
    BY <1>t, <2>1 DEF CardInv, ByWorker, ByPage
<1>5. CASE HandleOpen
  <2>1. /\ UNCHANGED <<bridge, flow, opened, givenUp>> /\ inbox # <<>> /\ Head(inbox) \in Clicks
    BY <1>5 DEF HandleOpen, pageVars, bridgeHistory
  <2>2. WorkerMoves(Head(inbox), "creating", generation)
    BY <1>t, <1>5, OpeningMoves
  <2>3. worker[Head(inbox)].pc = "none"
    BY <1>t, <2>1 DEF PlaceInv, BridgeTypeOK
  <2> QED
    BY <1>t, <2>1, <2>2, <2>3 DEF CardInv, ByWorker, ByPage, WorkerMoves
<1>6. ASSUME NEW c \in Clicks, CreateTab(c) PROVE CardInv'
  <2>1. UNCHANGED <<bridge, flow, givenUp>>
    BY <1>6 DEF CreateTab, pageVars, bridgeHistory
  <2>2. /\ worker[c].pc = "creating" /\ worker'[c].pc \in {"created", "refused"}
        /\ \A d \in Clicks \ {c} : worker'[d] = worker[d] /\ opened'[d] = opened[d]
        /\ opened'[c] \in {opened[c], opened[c] + 1}
    BY <1>t, <1>6, OpeningMoves DEF WorkerMoves, BridgeTypeOK
  <2> QED
    BY <1>t, <1>n, <2>1, <2>2 DEF CardInv, ByWorker, ByPage
<1>7. ASSUME NEW c \in Clicks, ArmTab(c) \/ AnswerOpen(c) PROVE CardInv'
  <2>1. UNCHANGED <<bridge, flow, opened, givenUp>>
    BY <1>7 DEF ArmTab, AnswerOpen, pageVars, bridgeHistory
  <2>2. /\ worker[c].pc \in {"created", "armed", "refused"}
        /\ worker'[c].pc \in {"refused", "armed", "acknowledged", "denied"}
        /\ \A d \in Clicks \ {c} : worker'[d] = worker[d]
    BY <1>t, <1>7, OpeningMoves DEF WorkerMoves
  <2> QED
    BY <1>t, <1>n, <2>1, <2>2 DEF CardInv, ByWorker, ByPage
<1>8. CASE WorkerStops
  <2>1. UNCHANGED <<bridge, flow, opened, givenUp>>
    BY <1>8 DEF WorkerStops, pageVars, bridgeHistory
  <2>2. \A c \in Clicks : \/ worker'[c] = worker[c]
                          \/ worker[c].pc # "acknowledged" /\ worker'[c].pc = "lost"
    BY <1>t, <1>8, OpeningMoves DEF Busy
  <2> QED
    BY <1>t, <1>n, <2>1, <2>2 DEF CardInv, ByWorker, ByPage
<1> QED
  BY <1>1, <1>2, <1>3, <1>4, <1>5, <1>6, <1>7, <1>8 DEF BridgeNext, PageStep, WorkerStep

-----------------------------------------------------------------------------
(* A confirmed sign-out leaves nothing armed. *)

\* Nothing is known to be confirmed that was not, and nobody posts a click but one
\* whose snapshot had left the server.
LEMMA ClearOfPage ==
  ASSUME BridgeTypeOK, ClearInv,
         UNCHANGED <<session, leaving, cleared, worker, generation, held, crossing>>,
         \A a \in answers' : a \in answers \/ a.to \in Clicks,
         ~session => SnapshotsOnTheirWay' \subseteq SnapshotsOnTheirWay,
         \/ inbox' = inbox
         \/ \E c \in Clicks : c \in SnapshotsOnTheirWay /\ Post(c)
  PROVE  ClearInv'
<1>1. "clear" \notin Clicks
  BY WebBridgeAssumption
<1>2. /\ \A i \in DOMAIN inbox' : \/ i \in DOMAIN inbox /\ inbox'[i] = inbox[i]
                                  \/ inbox'[i] \in SnapshotsOnTheirWay
      /\ \A i, j \in DOMAIN inbox' : i < j => i \in DOMAIN inbox /\ inbox'[i] = inbox[i]
  <2>1. CASE inbox' = inbox
    BY <2>1
  <2>2. CASE inbox' # inbox
    <3>1. PICK c \in Clicks : c \in SnapshotsOnTheirWay /\ Post(c)
      BY <2>2
    <3>2. /\ DOMAIN inbox = 1 .. Len(inbox) /\ Len(inbox) \in Nat
          /\ DOMAIN inbox' = 1 .. Len(inbox) + 1 /\ inbox'[Len(inbox) + 1] = c
          /\ \A i \in DOMAIN inbox : inbox'[i] = inbox[i]
      BY <2>2, <3>1, Posted DEF BridgeTypeOK, Message
    <3> QED
      BY <3>1, <3>2
  <2> QED
    BY <2>1, <2>2
<1>3. SnapshotsOnTheirWay \subseteq Clicks
  BY DEF SnapshotsOnTheirWay
<1>4. Confirmed' => Confirmed
  BY <1>1 DEF Confirmed, Clearing
<1>5. leaving \in {"clear", "direct", "bridge", "out"} => ~session
  BY DEF ClearInv
<1>6. leaving \in {"direct", "bridge", "out"} =>
        /\ SnapshotsOnTheirWay \subseteq crossing /\ SnapshotsOnTheirWay' \subseteq crossing
  BY <1>5 DEF ClearInv
<1>7. leaving' \in {"in", "logout", "clear"} =>
        /\ \A i \in DOMAIN inbox' : inbox'[i] # "clear"
        /\ \A a \in answers' : a.to # "clear"
  BY <1>1, <1>2, <1>3 DEF ClearInv
<1>8. Clearing' =>
        /\ \A i, j \in DOMAIN inbox' : inbox'[i] = "clear" /\ i < j => inbox'[j] \in crossing'
        /\ \A i \in DOMAIN inbox' : inbox'[i] = "clear" => \A a \in answers' : a.to # "clear"
        /\ \A a, b \in answers' : a.to = "clear" /\ b.to = "clear" => a = b
  <2> SUFFICES ASSUME Clearing'
               PROVE  /\ \A i, j \in DOMAIN inbox' :
                           inbox'[i] = "clear" /\ i < j => inbox'[j] \in crossing
                      /\ \A i \in DOMAIN inbox' :
                           inbox'[i] = "clear" => \A a \in answers' : a.to # "clear"
                      /\ \A a, b \in answers' : a.to = "clear" /\ b.to = "clear" => a = b
    OBVIOUS
  <2>1. Clearing /\ SnapshotsOnTheirWay \subseteq crossing
    BY <1>6 DEF Clearing
  <2> QED
    BY <1>1, <1>2, <1>3, <2>1 DEF ClearInv
<1>9. Confirmed' =>
        /\ held' \subseteq crossing'
        /\ \A i \in DOMAIN inbox' : inbox'[i] \in crossing'
        /\ \A c \in Clicks :
             worker'[c].pc \in {"creating", "created"} /\ worker'[c].generation = generation'
               => c \in crossing'
  BY <1>2, <1>4, <1>6 DEF ClearInv, Confirmed, Clearing
<1> QED
  BY <1>5, <1>6, <1>7, <1>8, <1>9 DEF ClearInv

\* The page asks for the store to be cleared: behind the clicks it has posted.
LEMMA ClearIsPosted ==
  ASSUME BridgeTypeOK, ClearInv, UNCHANGED <<session, flow, worker, generation>>, ~session,
         leaving' \in {"direct", "bridge"}, crossing' = SnapshotsOnTheirWay,
         answers' \subseteq answers, \A a \in answers' : a.to # "clear",
         \A i \in DOMAIN inbox : inbox[i] # "clear", Post("clear")
  PROVE  ClearInv'
<1>1. ~Confirmed'
  BY DEF Confirmed, Clearing
<1>2. /\ \A i \in DOMAIN inbox' : \/ i \in DOMAIN inbox /\ inbox'[i] = inbox[i]
                                  \/ i = Len(inbox) + 1
      /\ \A i, j \in DOMAIN inbox' : i < j => i \in DOMAIN inbox /\ inbox'[i] = inbox[i]
  BY Posted DEF BridgeTypeOK, Message
<1>3. SnapshotsOnTheirWay' = crossing'
  BY DEF SnapshotsOnTheirWay
<1> QED
  BY <1>1, <1>2, <1>3 DEF ClearInv

\* The worker goes on; what it arms it was asked to since the last clear.
LEMMA ClearOfWorker ==
  ASSUME BridgeTypeOK, ClearInv, NEW c \in Clicks, NEW pc, NEW g, WorkerMoves(c, pc, g),
         UNCHANGED <<flow, session, leaving, cleared, inbox, generation, crossing>>,
         \A a \in answers' : a \in answers \/ a.to \in Clicks,
         pc = "created" => worker[c].pc = "creating" /\ g = worker[c].generation, pc # "creating",
         \/ held' = held
         \/ /\ worker[c].pc = "created" /\ worker[c].generation = generation
            /\ held' = held \cup {c}
  PROVE  ClearInv'
<1>1. "clear" \notin Clicks
  BY WebBridgeAssumption
<1>2. (Confirmed' => Confirmed) /\ SnapshotsOnTheirWay' = SnapshotsOnTheirWay
  BY <1>1 DEF Confirmed, Clearing, SnapshotsOnTheirWay
<1>3. \A d \in Clicks : worker'[d].pc \in {"creating", "created"} =>
        worker[d].pc \in {"creating", "created"} /\ worker'[d].generation = worker[d].generation
  BY DEF WorkerMoves
<1>4. Confirmed' =>
        /\ held' \subseteq crossing'
        /\ \A i \in DOMAIN inbox' : inbox'[i] \in crossing'
        /\ \A d \in Clicks :
             worker'[d].pc \in {"creating", "created"} /\ worker'[d].generation = generation'
               => d \in crossing'
  BY <1>2, <1>3 DEF ClearInv
<1> QED
  BY <1>1, <1>2, <1>3, <1>4 DEF ClearInv, Clearing

LEMMA ClearStep ==
  ASSUME BridgeInv, [BridgeNext]_bridgeVars
  PROVE  ClearInv'
<1>t. BridgeTypeOK /\ PlaceInv /\ ClearInv /\ "clear" \notin Clicks
  BY WebBridgeAssumption DEF BridgeInv
<1>1. ASSUME NEW c \in Clicks, Click(c) \/ ServeGate(c) \/ ReceiveReply(c) PROVE ClearInv'
  <2>1. UNCHANGED <<session, leaving, cleared, answers, worker, generation, held, crossing>>
    BY <1>1 DEF Click, ServeGate, ReceiveReply, channels, extensionVars, bridgeHistory
  <2>2. /\ \A d \in Clicks \ {c} : flow'[d] = flow[d]
        /\ ~session => c \notin SnapshotsOnTheirWay'
        /\ inbox' = inbox \/ (c \in SnapshotsOnTheirWay /\ Post(c))
    BY <1>t, <1>1, ClickMoves DEF CardMoves, SnapshotsOnTheirWay
  <2>3. ~session => SnapshotsOnTheirWay' \subseteq SnapshotsOnTheirWay
    BY <2>2 DEF SnapshotsOnTheirWay
  <2> QED
    BY <1>t, <2>1, <2>2, <2>3, ClearOfPage
<1>2. ASSUME NEW c \in Clicks, GiveUp(c) PROVE ClearInv'
  <2>1. UNCHANGED <<session, leaving, cleared, inbox, answers, worker, generation, held, crossing>>
    BY <1>2 DEF GiveUp, channels, extensionVars
  <2>2. SnapshotsOnTheirWay' \subseteq SnapshotsOnTheirWay
    BY <1>t, <1>2, GivenUp DEF CardMoves, SnapshotsOnTheirWay
  <2> QED
    BY <1>t, <2>1, <2>2, ClearOfPage
<1>3. ASSUME NEW a \in answers, ReceiveAnswer(a) PROVE ClearInv'
  <2>1. a.to \in Clicks /\ a.value \in {"yes", "no", "lost"}
    BY <1>t, <1>3 DEF ReceiveAnswer, BridgeTypeOK, AnswerRecord
  <2>2. UNCHANGED <<session, leaving, cleared, inbox, worker, generation, held, crossing>>
    BY <1>3 DEF ReceiveAnswer, extensionVars
  <2>3. SnapshotsOnTheirWay' \subseteq SnapshotsOnTheirWay
    <3>1. CASE flow[a.to].pc = "extension"
      <4>1. Concludes(a.to, a.value)
        BY <1>3, <3>1 DEF ReceiveAnswer
      <4>2. CardMoves(a.to) /\ flow'[a.to].pc = "done"
        BY <1>t, <2>1, <3>1, <4>1, Concluded
      <4> QED
        BY <4>2 DEF CardMoves, SnapshotsOnTheirWay
    <3>2. CASE flow[a.to].pc # "extension"
      BY <1>3, <3>2 DEF ReceiveAnswer, SnapshotsOnTheirWay
    <3> QED
      BY <3>1, <3>2
  <2>4. answers' \subseteq answers
    BY <1>3 DEF ReceiveAnswer
  <2> QED
    BY <1>t, <2>2, <2>3, <2>4, ClearOfPage
<1>4. CASE SignOut \/ ServeLogout
  <2>1. /\ UNCHANGED <<flow, cleared, inbox, answers, worker, generation, held, crossing>>
        /\ leaving \in {"in", "logout"} /\ leaving' \in {"in", "logout", "clear"}
        /\ leaving' = "clear" => ~session'
    BY <1>4 DEF SignOut, ServeLogout, channels, extensionVars, bridgeHistory
  <2> QED
    BY <1>t, <2>1 DEF ClearInv, Clearing, Confirmed
<1>5. CASE SendClear
  <2>1. /\ UNCHANGED <<session, flow, answers, worker, generation>> /\ leaving = "clear"
        /\ leaving' \in {"direct", "bridge"} /\ crossing' = SnapshotsOnTheirWay /\ Post("clear")
    BY <1>5 DEF SendClear, extensionVars
  <2>2. /\ ~session /\ \A a \in answers' : a.to # "clear"
        /\ \A i \in DOMAIN inbox : inbox[i] # "clear"
    BY <1>t, <2>1 DEF ClearInv
  <2> QED
    BY <1>t, <2>1, <2>2, ClearIsPosted
<1>6. ASSUME NEW a \in answers, ReceiveCleared(a) PROVE ClearInv'
  <2>1. /\ UNCHANGED <<session, flow, worker, generation, held>> /\ a.to = "clear" /\ Clearing
        /\ answers' = answers \ {a}
    BY <1>6 DEF ReceiveCleared, extensionVars, Clearing
  <2>2. /\ ~session /\ \A b \in answers' : b.to # "clear"
        /\ \A i \in DOMAIN inbox : inbox[i] # "clear"
    BY <1>t, <2>1 DEF ClearInv, Clearing
  <2>3. CASE a.value = "lost"
    <3>1. leaving' = "bridge" /\ crossing' = SnapshotsOnTheirWay /\ Post("clear")
      BY <1>6, <2>3 DEF ReceiveCleared, FallsBack
    <3> QED
      BY <1>t, <2>1, <2>2, <3>1, ClearIsPosted
  <2>4. CASE a.value # "lost"
    <3>1. leaving' = "out" /\ cleared' = (a.value = "yes") /\ UNCHANGED <<inbox, crossing>>
      BY <1>6, <2>4 DEF ReceiveCleared, Leaves
    <3>2. a.value = "yes" => a = [to |-> "clear", value |-> "yes"]
      BY <1>t, <2>1 DEF BridgeTypeOK, AnswerRecord
    <3>3. Confirmed' => Confirmed
      BY <2>1, <3>1, <3>2 DEF Confirmed, Clearing
    <3>4. SnapshotsOnTheirWay' = SnapshotsOnTheirWay /\ SnapshotsOnTheirWay \subseteq crossing
      BY <1>t, <2>1 DEF SnapshotsOnTheirWay, ClearInv, Clearing
    <3> QED
      BY <1>t, <2>1, <2>2, <3>1, <3>3, <3>4 DEF ClearInv, Clearing
  <2> QED
    BY <2>3, <2>4
<1>7. CASE ClearGivesUp
  <2>1. /\ UNCHANGED <<session, flow, answers, worker, generation, held>>
        /\ \/ leaving = "direct" /\ ~bridge.present /\ FallsBack
           \/ leaving = "bridge" /\ Leaves(FALSE)
    BY <1>7 DEF ClearGivesUp, extensionVars
  <2>2. ~session
    BY <1>t, <2>1 DEF ClearInv
  <2>3. CASE leaving = "direct" /\ ~bridge.present /\ FallsBack
    <3>1. leaving' = "bridge" /\ crossing' = SnapshotsOnTheirWay /\ Post("clear")
      BY <2>3 DEF FallsBack
    <3>2. answers' = {} /\ inbox = <<>>
      BY <1>t, <2>1, <2>3 DEF PlaceInv
    <3> QED
      BY <1>t, <2>1, <2>2, <3>1, <3>2, ClearIsPosted
  <2>4. CASE leaving = "bridge" /\ Leaves(FALSE)
    <3>1. leaving' = "out" /\ ~cleared' /\ UNCHANGED <<inbox, crossing>>
      BY <2>4 DEF Leaves
    <3>2. ~Confirmed' /\ ~Clearing' /\ SnapshotsOnTheirWay' = SnapshotsOnTheirWay
      BY <2>1, <3>1 DEF Confirmed, Clearing, SnapshotsOnTheirWay
    <3> QED
      BY <1>t, <2>1, <2>2, <2>4, <3>1, <3>2 DEF ClearInv
  <2> QED
    BY <2>1, <2>3, <2>4
<1>8. CASE HandleOpen
  <2>1. /\ UNCHANGED <<flow, session, leaving, cleared, answers, generation, held, crossing>>
        /\ inbox # <<>> /\ inbox' = Tail(inbox) /\ Head(inbox) \in Clicks
    BY <1>8 DEF HandleOpen, pageVars, bridgeHistory
  <2>2. WorkerMoves(Head(inbox), "creating", generation)
    BY <1>t, <1>8, OpeningMoves
  <2>3. /\ 1 \in DOMAIN inbox /\ Head(inbox) = inbox[1]
        /\ \A i \in DOMAIN inbox' : i \in Nat /\ i + 1 \in DOMAIN inbox /\ inbox'[i] = inbox[i + 1]
        /\ \A i, j \in DOMAIN inbox' : i < j => i + 1 < j + 1
    BY <1>t, <2>1, Taken DEF BridgeTypeOK
  <2>4. (Confirmed' => Confirmed) /\ SnapshotsOnTheirWay' = SnapshotsOnTheirWay
    BY <2>1 DEF Confirmed, Clearing, SnapshotsOnTheirWay
  <2>5. \A c \in Clicks : worker'[c].pc \in {"creating", "created"} =>
          \/ c = inbox[1] /\ worker'[c].generation = generation
          \/ worker'[c] = worker[c]
    BY <2>2, <2>3 DEF WorkerMoves
  <2>6. \A c \in Clicks : worker'[c].pc \in {"creating", "created"} =>
          worker'[c].generation <= generation'
    BY <1>t, <2>1, <2>5 DEF ClearInv, BridgeTypeOK
  <2>7. Clearing' =>
          /\ \A i, j \in DOMAIN inbox' : inbox'[i] = "clear" /\ i < j => inbox'[j] \in crossing'
          /\ \A i \in DOMAIN inbox' : inbox'[i] = "clear" => \A a \in answers' : a.to # "clear"
          /\ \A a, b \in answers' : a.to = "clear" /\ b.to = "clear" => a = b
    BY <1>t, <2>1, <2>3 DEF ClearInv, Clearing
  <2>8. Confirmed' =>
          /\ held' \subseteq crossing'
          /\ \A i \in DOMAIN inbox' : inbox'[i] \in crossing'
          /\ \A c \in Clicks :
               worker'[c].pc \in {"creating", "created"} /\ worker'[c].generation = generation'
                 => c \in crossing'
    BY <1>t, <2>1, <2>3, <2>4, <2>5 DEF ClearInv
  <2> QED
    BY <1>t, <2>1, <2>3, <2>4, <2>6, <2>7, <2>8 DEF ClearInv
<1>9. CASE HandleClear
  <2>1. /\ UNCHANGED <<flow, session, leaving, cleared, worker, crossing>>
        /\ inbox # <<>> /\ inbox' = Tail(inbox) /\ Head(inbox) = "clear"
        /\ generation' = generation + 1
        /\ \E v \in {"yes", "no", "lost"} : Answer("clear", v) /\ (v = "yes" => held' = {})
    BY <1>9 DEF HandleClear, pageVars, bridgeHistory
  <2>2. /\ 1 \in DOMAIN inbox /\ inbox[1] = "clear"
        /\ \A i \in DOMAIN inbox' : /\ i \in Nat /\ i + 1 \in DOMAIN inbox
                                    /\ inbox'[i] = inbox[i + 1] /\ 1 < i + 1
    BY <1>t, <2>1, Taken DEF BridgeTypeOK
  <2>3. leaving \in {"direct", "bridge", "out"}
    BY <1>t, <2>2 DEF ClearInv, BridgeTypeOK
  <2>4. ~Confirmed /\ SnapshotsOnTheirWay' = SnapshotsOnTheirWay
    BY <1>t, <2>1, <2>2 DEF ClearInv, SnapshotsOnTheirWay, BridgeTypeOK
  <2>5. \A c \in Clicks : worker'[c].pc \in {"creating", "created"} =>
          worker'[c].generation < generation' /\ worker'[c].generation <= generation'
    BY <1>t, <2>1 DEF ClearInv, BridgeTypeOK, Opening
  <2>6. Clearing => /\ \A i \in DOMAIN inbox' : inbox'[i] \in crossing /\ inbox'[i] # "clear"
                    /\ \A a \in answers : a.to # "clear"
    BY <1>t, <2>2 DEF ClearInv, BridgeTypeOK
  <2>7. Clearing' =>
          /\ \A i \in DOMAIN inbox' : inbox'[i] # "clear" /\ inbox'[i] \in crossing'
          /\ \A a, b \in answers' : a.to = "clear" /\ b.to = "clear" => a = b
    BY <2>1, <2>6 DEF Clearing, Answer
  <2>8. Confirmed' => held' = {} /\ Clearing
    BY <2>1, <2>4, <2>6 DEF Confirmed, Clearing, Answer
  <2>9. Confirmed' =>
          /\ held' \subseteq crossing'
          /\ \A i \in DOMAIN inbox' : inbox'[i] \in crossing'
          /\ \A c \in Clicks :
               worker'[c].pc \in {"creating", "created"} /\ worker'[c].generation = generation'
                 => c \in crossing'
    <3>1. \A c \in Clicks : worker'[c].pc \in {"creating", "created"} =>
            worker'[c].generation # generation'
      BY <1>t, <2>1, <2>5 DEF BridgeTypeOK, Opening
    <3> QED
      BY <2>1, <2>6, <2>8, <3>1
  <2>10. /\ leaving' \notin {"in", "logout", "clear"} /\ ~session'
         /\ SnapshotsOnTheirWay' \subseteq crossing'
    BY <1>t, <2>1, <2>3, <2>4 DEF ClearInv
  <2> QED
    BY <2>5, <2>7, <2>9, <2>10 DEF ClearInv
<1>10. ASSUME NEW c \in Clicks, CreateTab(c) \/ ArmTab(c) \/ AnswerOpen(c) PROVE ClearInv'
  <2>1. UNCHANGED <<flow, session, leaving, cleared, inbox, generation, crossing>>
    BY <1>10 DEF CreateTab, ArmTab, AnswerOpen, pageVars, channels, bridgeHistory
  <2>2. CASE CreateTab(c)
    <3>1. answers' = answers /\ held' = held
      BY <2>2 DEF CreateTab, channels
    <3> QED
      BY <1>t, <2>1, <2>2, <3>1, OpeningMoves, ClearOfWorker
  <2>3. CASE ArmTab(c)
    <3>1. answers' = answers
      BY <2>3 DEF ArmTab, channels
    <3> QED
      BY <1>t, <2>1, <2>3, <3>1, OpeningMoves, ClearOfWorker
  <2>4. CASE AnswerOpen(c)
    <3>1. held' = held /\ \A a \in answers' : a \in answers \/ a.to \in Clicks
      BY <2>4 DEF AnswerOpen, Answer
    <3> QED
      BY <1>t, <2>1, <2>4, <3>1, OpeningMoves, ClearOfWorker
  <2> QED
    BY <1>10, <2>2, <2>3, <2>4
<1>11. CASE WorkerStops
  <2>1. /\ UNCHANGED <<flow, session, leaving, cleared, inbox, held, crossing>>
        /\ \A a \in answers' : a \in answers \/ a.to \in Clicks
    BY <1>11 DEF WorkerStops, pageVars, bridgeHistory
  <2>2. \A c \in Clicks : worker'[c].pc \notin {"creating", "created"}
    BY <1>t, <1>11, OpeningMoves DEF Busy
  <2>3. (Confirmed' => Confirmed) /\ SnapshotsOnTheirWay' = SnapshotsOnTheirWay
    BY <1>t, <2>1 DEF Confirmed, Clearing, SnapshotsOnTheirWay
  <2> QED
    BY <1>t, <2>1, <2>2, <2>3 DEF ClearInv, Clearing
<1>12. ASSUME UNCHANGED bridgeVars \/ \E c \in Clicks : SpendArm(c) PROVE ClearInv'
  <2>1. /\ UNCHANGED <<flow, session, leaving, cleared, inbox, answers, worker, generation,
                      crossing>>
        /\ held' \subseteq held
    BY <1>12 DEF bridgeVars, SpendArm, pageVars, channels, extensionVars, bridgeHistory
  <2>2. (Confirmed' => Confirmed) /\ SnapshotsOnTheirWay' = SnapshotsOnTheirWay
    BY <2>1 DEF Confirmed, Clearing, SnapshotsOnTheirWay
  <2> QED
    BY <1>t, <2>1, <2>2 DEF ClearInv, Clearing
<1> QED
  BY <1>1, <1>2, <1>3, <1>4, <1>5, <1>6, <1>7, <1>8, <1>9, <1>10, <1>11, <1>12
     DEF BridgeNext, PageStep, WorkerStep

-----------------------------------------------------------------------------

LEMMA InductiveBridge == BridgeSpec => []BridgeInv
<1>1. BridgeInit => BridgeInv
  <2> SUFFICES ASSUME BridgeInit PROVE BridgeInv
    OBVIOUS
  <2>1. [pc |-> "idle", reply |-> "none", notice |-> "none"] \in Flow
    BY DEF Flow
  <2>2. [pc |-> "none", generation |-> 0] \in Opening
    BY DEF Opening
  <2>3. BridgeTypeOK
    <3>1. session \in BOOLEAN /\ cleared \in BOOLEAN
      BY DEF BridgeInit, BridgeTablesInit
    <3>2. /\ bridge \in [present : BOOLEAN, direct : BOOLEAN]
          /\ leaving = "in" /\ inbox = <<>> /\ answers = {} /\ generation = 0 /\ held = {}
          /\ breaks = 0 /\ givenUp = {} /\ crossing = {} /\ opened = [c \in Clicks |-> 0]
      BY DEF BridgeInit, BridgeTablesInit
    <3>3. flow \in [Clicks -> Flow] /\ worker \in [Clicks -> Opening]
      BY <2>1, <2>2 DEF BridgeInit, BridgeTablesInit
    <3> QED
      BY <3>1, <3>2, <3>3 DEF BridgeTypeOK
  <2>4. PlaceInv
    <3>1. /\ inbox = <<>> /\ answers = {}
          /\ \A c \in Clicks : worker[c].pc = "none"
      BY DEF BridgeInit, BridgeTablesInit
    <3>2. \A c \in Clicks : flow[c].notice = "none" /\ flow[c].reply = "none"
      BY DEF BridgeInit, BridgeTablesInit
    <3>3. DOMAIN inbox = {}
      BY <3>1
    <3> QED
      BY <3>1, <3>2, <3>3 DEF PlaceInv
  <2>5. CardInv
    <3>1. \A c \in Clicks : flow[c].notice = "none" /\ worker[c].pc = "none" /\ opened[c] = 0
      BY DEF BridgeInit, BridgeTablesInit
    <3>2. \A c \in Clicks : ByWorker(c) = 0 /\ ByPage(c) = 0
      BY <3>1 DEF ByWorker, ByPage
    <3>3. \A c \in Clicks : opened[c] <= ByWorker(c) + ByPage(c)
      <4> SUFFICES ASSUME NEW c \in Clicks PROVE opened[c] <= ByWorker(c) + ByPage(c)
        OBVIOUS
      <4>1. opened[c] = 0 /\ ByWorker(c) = 0 /\ ByPage(c) = 0
        BY <3>1, <3>2
      <4>2. 0 <= 0 + 0
        OBVIOUS
      <4> QED
        BY <4>1, <4>2
    <3>4. \A c \in Clicks : flow[c].notice # "armed" /\ flow[c].notice # "noExtension"
      BY <3>1
    <3> QED
      BY <3>3, <3>4 DEF CardInv
  <2>6. ClearInv
    <3>1. DOMAIN inbox = {} /\ answers = {} /\ leaving = "in"
      <4>1. inbox = <<>> /\ answers = {} /\ leaving = "in"
        BY DEF BridgeInit, BridgeTablesInit
      <4> QED
        BY <4>1
    <3>2. \A c \in Clicks : worker[c].pc = "none"
      BY DEF BridgeInit, BridgeTablesInit
    <3> QED
      BY <3>1, <3>2 DEF ClearInv, Clearing, Confirmed
  <2> QED
    BY <2>3, <2>4, <2>5, <2>6 DEF BridgeInv
<1>2. BridgeInv /\ [BridgeNext]_bridgeVars => BridgeInv'
  BY BridgeTypeStep, PlaceStep, CardStep, ClearStep DEF BridgeInv
<1> QED
  BY <1>1, <1>2, PTL DEF BridgeSpec

\* Types: page, channels and worker keep their types.
THEOREM BridgeIsTyped == BridgeSpec => []BridgeTypeOK
<1>1. BridgeInv => BridgeTypeOK
  BY DEF BridgeInv
<1> QED
  BY InductiveBridge, <1>1, PTL

\* The card is true: "armed" stands for an acknowledged arm, and a posting that was
\* opened twice belongs to a click the page had given up (requestOpenAndFill and
\* sendToExtension of openfill.ts, openAndArm of background.ts).
THEOREM CardIsTrue == BridgeSpec => []NoticeIsTrue
<1>1. BridgeInv => NoticeIsTrue
  <2> SUFFICES ASSUME BridgeInv, NEW c \in Clicks
               PROVE  /\ flow[c].notice = "armed" => worker[c].pc = "acknowledged"
                      /\ opened[c] > 1 => c \in givenUp
    BY DEF NoticeIsTrue
  <2>1. /\ opened[c] \in Nat /\ opened[c] <= ByWorker(c) + ByPage(c)
        /\ flow[c].notice = "armed" => worker[c].pc = "acknowledged"
        /\ flow[c].notice = "noExtension" => c \in givenUp \/ ~bridge.present
        /\ ~bridge.present => worker[c].pc = "none"
    BY DEF BridgeInv, BridgeTypeOK, CardInv, PlaceInv
  <2> QED
    BY <2>1 DEF ByWorker, ByPage
<1> QED
  BY InductiveBridge, <1>1, PTL

\* A confirmed sign-out: the store holds no arm but those of snapshots that had left
\* the server before the sign-out (signOut, clearExtensionState, clearState).
THEOREM SignOutClears == BridgeSpec => []SignedOutHoldsNothing
<1>1. BridgeInv => SignedOutHoldsNothing
  BY DEF BridgeInv, ClearInv, Confirmed, SignedOutHoldsNothing
<1> QED
  BY InductiveBridge, <1>1, PTL
=============================================================================
