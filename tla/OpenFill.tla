------------------------------ MODULE OpenFill ------------------------------
(***************************************************************************)
(* Open & Fill across the extension: the background worker that opens a    *)
(* tab, arms it and injects the scripts (background.ts), the tabs the user *)
(* may reload, redirect or close meanwhile, and the content script that    *)
(* consumes the arm and fills the page (content.ts, content-entry.ts).     *)
(*                                                                         *)
(* The arming store is ArmStore, which SessionArming implements: its       *)
(* operations run one at a time in the order they were asked for.  The     *)
(* k-th click opens tab k, so a tab stands for its click as well.          *)
(***************************************************************************)
EXTENDS Naturals, Sequences

CONSTANTS
  Tabs,        \* one per Open & Fill click
  Url, Other,  \* the armed page, and any other page
  TTL, None,   \* as in ArmStore
  MaxTime,     \* bound: the clock stops here
  MaxDocs,     \* bound: documents a tab loads, reloads and redirects included
  MaxClears,   \* bound: logouts
  MaxKills     \* bound: times the browser stops a busy worker

ASSUME OpenFillAssumption ==
  /\ Url # Other
  /\ None \notin Tabs \cup {Url, Other}
  /\ TTL \in Nat \ {0} /\ MaxTime \in Nat
  /\ MaxDocs \in Nat \ {0} /\ MaxClears \in Nat /\ MaxKills \in Nat

VARIABLES
  now, arms, taken, granted, armed,  \* the arming store
  alive,       \* the worker is running
  generation,  \* armGeneration of the running worker
  ops,         \* what the store is asked to do, oldest first
  open,        \* openAndArm of each click
  inject,      \* inject() per tab: 0 for openAndArm's, d for document d's
  tab,         \* what each tab shows
  answers,     \* armed replies on their way to a content script
  fills,       \* history: the forms that were filled
  asked,       \* history: logouts asked for
  cleared,     \* history: how many logouts the latest executed clear stands for
  kills

storeVars == <<now, arms, taken, granted, armed>>
workerVars == <<alive, generation, ops, open, inject>>
vars == <<storeVars, workerVars, tab, answers, fills, asked, cleared, kills>>

Store == INSTANCE ArmStore WITH
  Urls <- {Url, Other}, Cvs <- {}, times <- {ops[i].at : i \in DOMAIN ops}

Op == [kind : {"arm", "peek", "consume", "clear", "sweep"}, tab : Tabs \cup {None},
       url : {Url, Other, None}, at : Nat, slot : Nat]
NoTab == [doc |-> 0, url |-> Other, complete |-> FALSE, guarded |-> FALSE]
NoFlow == [pc |-> "none", url |-> Other]

Ask(kind, t, u, k) == [kind |-> kind, tab |-> t, url |-> u, at |-> now, slot |-> k]
SweepOp == Ask("sweep", None, None, 0)

-----------------------------------------------------------------------------
(* openAndArm *)

\* A click reaches the worker: the generation is remembered, the tab asked for.
OpenAndArm(t) ==
  /\ alive
  /\ open[t].pc = "unused"
  /\ open' = [open EXCEPT ![t] = [pc |-> "creating", generation |-> generation,
                                  asked |-> asked]]
  /\ UNCHANGED <<storeVars, alive, generation, ops, inject, tab, answers, fills,
                 asked, cleared, kills>>

\* The browser makes the tab and starts loading the page.
CreateTab(t) ==
  /\ open[t].pc = "creating"
  /\ tab' = [tab EXCEPT ![t] = [doc |-> 1, url |-> Url, complete |-> FALSE,
                                guarded |-> FALSE]]
  /\ open' = [open EXCEPT ![t].pc = "created"]
  /\ UNCHANGED <<storeVars, alive, generation, ops, inject, answers, fills, asked,
                 cleared, kills>>

\* Mutant of ArmTab: a logout while the tab was being created goes unnoticed.
ArmTabUnchecked(t) ==
  /\ open[t].pc = "created"
  /\ ops' = Append(ops, Ask("arm", t, Url, 0))
  /\ open' = [open EXCEPT ![t].pc = "arming"]
  /\ UNCHANGED <<storeVars, alive, generation, inject, tab, answers, fills, asked,
                 cleared, kills>>

\* tabs.create has returned: refuse if a logout came in between, else arm.
ArmTab(t) ==
  /\ open[t].pc = "created"
  /\ IF open[t].generation # generation
     THEN open' = [open EXCEPT ![t].pc = "refused"] /\ UNCHANGED ops
     ELSE /\ open' = [open EXCEPT ![t].pc = "arming"]
          /\ ops' = Append(ops, Ask("arm", t, Url, 0))
  /\ UNCHANGED <<storeVars, alive, generation, inject, tab, answers, fills, asked,
                 cleared, kills>>

\* inject(t, u) begins by asking the store whether the page is armed.
StartInject(t, k, u) ==
  /\ inject' = [inject EXCEPT ![t][k] = [pc |-> "peek", url |-> u]]
  /\ ops' = Append(ops, Ask("peek", t, u, k))

\* Mutant of CheckTab: a page that loaded before it was armed is not looked at.
CheckTabNever(t) ==
  /\ open[t].pc = "checking"
  /\ open' = [open EXCEPT ![t].pc = "done"]
  /\ UNCHANGED <<storeVars, alive, generation, ops, inject, tab, answers, fills,
                 asked, cleared, kills>>

\* tabs.get: inject at once if the page was complete before it was armed.
CheckTab(t) ==
  /\ open[t].pc = "checking"
  /\ open' = [open EXCEPT ![t].pc = "done"]
  /\ IF tab[t].doc # 0 /\ tab[t].complete
     THEN StartInject(t, 0, tab[t].url)
     ELSE UNCHANGED <<ops, inject>>
  /\ UNCHANGED <<storeVars, alive, generation, tab, answers, fills, asked, cleared,
                 kills>>

-----------------------------------------------------------------------------
(* inject, once the store has said that the page is armed *)

EndInject(t, k) == inject' = [inject EXCEPT ![t][k] = NoFlow]

\* executeScript(guard-entry.js): into the document the tab shows by then.
InjectGuard(t, k) ==
  /\ inject[t][k].pc = "guard"
  /\ IF tab[t].doc = 0
     THEN EndInject(t, k) /\ UNCHANGED tab
     ELSE /\ tab' = [tab EXCEPT ![t].guarded = TRUE]
          /\ inject' = [inject EXCEPT ![t][k].pc = "content"]
  /\ UNCHANGED <<storeVars, alive, generation, ops, open, answers, fills, asked,
                 cleared, kills>>

\* Mutant of InjectContent: the two scripts may be injected in either order.
InjectContentFirst(t, k) ==
  /\ inject[t][k].pc \in {"guard", "content"}
  /\ EndInject(t, k)
  /\ ops' = IF tab[t].doc = 0 THEN ops
            ELSE Append(ops, Ask("consume", t, tab[t].url, tab[t].doc))
  /\ UNCHANGED <<storeVars, alive, generation, open, tab, answers, fills, asked,
                 cleared, kills>>

\* executeScript(content-entry.js): the script asks to consume the arm of its page.
InjectContent(t, k) ==
  /\ inject[t][k].pc = "content"
  /\ EndInject(t, k)
  /\ ops' = IF tab[t].doc = 0 THEN ops
            ELSE Append(ops, Ask("consume", t, tab[t].url, tab[t].doc))
  /\ UNCHANGED <<storeVars, alive, generation, open, tab, answers, fills, asked,
                 cleared, kills>>

-----------------------------------------------------------------------------
(* The store serves the oldest request. *)

Head1(kind) == alive /\ taken = None /\ ops # <<>> /\ Head(ops).kind = kind

\* The tab of the request holds an arm for its URL.
Matches(o) == arms[o.tab] # None /\ arms[o.tab].url = o.url
Valid(o) == Matches(o) /\ ~Store!Expired(arms[o.tab], o.at)

ServeArm ==
  LET o == Head(ops)
  IN  /\ Head1("arm")
      /\ Store!Arm(o.tab, o.url, None, o.at)
      /\ ops' = Tail(ops)
      /\ open' = [open EXCEPT ![o.tab].pc = "checking"]
      /\ UNCHANGED <<alive, generation, inject, tab, answers, fills, asked, cleared,
                     kills>>

\* What a lookup leaves in the store when it does not take the arm.
LookedUp(o) ==
  IF Matches(o) /\ ~Valid(o) THEN Store!DropExpired(o.tab, o.at) ELSE UNCHANGED storeVars

ServePeek ==
  LET o == Head(ops)
  IN  /\ Head1("peek")
      /\ LookedUp(o)
      /\ ops' = Tail(ops)
      /\ inject' = [inject EXCEPT ![o.tab][o.slot] =
                      IF Valid(o) THEN [@ EXCEPT !.pc = "guard"] ELSE NoFlow]
      /\ UNCHANGED <<alive, generation, open, tab, answers, fills, asked, cleared, kills>>

\* The consume finds nothing: the script is told so and does nothing.
ServeConsumeMiss ==
  LET o == Head(ops)
  IN  /\ Head1("consume")
      /\ ~Valid(o)
      /\ LookedUp(o)
      /\ ops' = Tail(ops)
      /\ UNCHANGED <<alive, generation, open, inject, tab, answers, fills, asked,
                     cleared, kills>>

\* The consume takes the arm; the operation is still running.
ServeConsume ==
  LET o == Head(ops)
  IN  /\ Head1("consume")
      /\ Store!Take(o.tab, o.url, o.at)
      /\ UNCHANGED <<workerVars, tab, answers, fills, asked, cleared, kills>>

\* The consume resolves and its reply leaves for the document that asked.
Reply ==
  LET o == Head(ops)
  IN  /\ Store!Deliver
      /\ answers' = answers \cup
           {[id |-> taken.id, url |-> taken.url, tab |-> o.tab, doc |-> o.slot]}
      /\ ops' = Tail(ops)
      /\ UNCHANGED <<alive, generation, open, inject, tab, fills, asked, cleared, kills>>

ServeClear ==
  /\ Head1("clear")
  /\ Store!Clear(Tabs)
  /\ cleared' = Head(ops).slot
  /\ ops' = Tail(ops)
  /\ UNCHANGED <<alive, generation, open, inject, tab, answers, fills, asked, kills>>

ServeSweep ==
  /\ Head1("sweep")
  /\ Store!Sweep(Head(ops).at)
  /\ ops' = Tail(ops)
  /\ UNCHANGED <<alive, generation, open, inject, tab, answers, fills, asked, cleared,
                 kills>>

-----------------------------------------------------------------------------
(* The content script, and the page it runs in. *)

\* Mutant of RunContentFill: the arm goes to the tab, whatever it shows by now.
RunContentFillAnywhere(a) ==
  /\ answers' = answers \ {a}
  /\ fills' = fills \cup {[answer |-> a, url |-> tab[a.tab].url,
                           guarded |-> tab[a.tab].guarded]}
  /\ UNCHANGED <<storeVars, workerVars, tab, asked, cleared, kills>>

\* runContentFill gets its reply: it fills the form if the profile in the
\* snapshot is confirmed, and does nothing if it is not.
RunContentFill(a) ==
  /\ answers' = answers \ {a}
  /\ \/ /\ tab[a.tab].doc = a.doc
        /\ fills' = fills \cup {[answer |-> a, url |-> tab[a.tab].url,
                                 guarded |-> tab[a.tab].guarded]}
     \/ UNCHANGED fills   \* unconfirmed, or the page that asked is gone
  /\ UNCHANGED <<storeVars, workerVars, tab, asked, cleared, kills>>

\* The worker starts, and sweeps; then it handles what woke it.
Awake(o) == IF alive THEN Append(ops, o) ELSE <<SweepOp, o>>

\* tabs.onUpdated "complete": inject into whatever page that is.
PageLoads(t) ==
  /\ tab[t].doc # 0 /\ ~tab[t].complete
  /\ tab' = [tab EXCEPT ![t].complete = TRUE]
  /\ inject' = [inject EXCEPT ![t][tab[t].doc] = [pc |-> "peek", url |-> tab[t].url]]
  /\ ops' = Awake(Ask("peek", t, tab[t].url, tab[t].doc))
  /\ alive' = TRUE
  /\ UNCHANGED <<storeVars, generation, open, answers, fills, asked, cleared, kills>>

\* A reload, a redirect, or the user going elsewhere: a document of its own.
Navigate(t, u) ==
  /\ tab[t].doc \in 1..(MaxDocs - 1)
  /\ tab' = [tab EXCEPT ![t] = [doc |-> @.doc + 1, url |-> u, complete |-> FALSE,
                                guarded |-> FALSE]]
  /\ UNCHANGED <<storeVars, workerVars, answers, fills, asked, cleared, kills>>

CloseTab(t) ==
  /\ tab[t].doc # 0
  /\ tab' = [tab EXCEPT ![t] = NoTab]
  /\ UNCHANGED <<storeVars, workerVars, answers, fills, asked, cleared, kills>>

-----------------------------------------------------------------------------
(* Logout, time, and the life of the worker. *)

\* Mutant of ClearState: the generation counts down.
ClearStateDown ==
  /\ asked < MaxClears
  /\ asked' = asked + 1
  /\ generation' = generation - 1
  /\ ops' = Awake(Ask("clear", None, None, asked + 1))
  /\ alive' = TRUE
  /\ UNCHANGED <<storeVars, open, inject, tab, answers, fills, cleared, kills>>

\* The web app logs out: a new generation, and a clear behind what is queued.
ClearState ==
  /\ asked < MaxClears
  /\ asked' = asked + 1
  /\ generation' = generation + 1
  /\ ops' = Awake(Ask("clear", None, None, asked + 1))
  /\ alive' = TRUE
  /\ UNCHANGED <<storeVars, open, inject, tab, answers, fills, cleared, kills>>

Tick ==
  /\ now < MaxTime
  /\ Store!Tick
  /\ UNCHANGED <<workerVars, tab, answers, fills, asked, cleared, kills>>

\* Another event starts the worker again.
Wake ==
  /\ ~alive
  /\ alive' = TRUE
  /\ ops' = <<SweepOp>>
  /\ UNCHANGED <<storeVars, generation, open, inject, tab, answers, fills, asked,
                 cleared, kills>>

Lost(pc) == IF pc \in {"creating", "created", "arming", "checking"} THEN "lost" ELSE pc

\* The browser stops the worker: everything it had in memory is gone.
Kill ==
  /\ alive /\ kills < MaxKills
  /\ kills' = kills + 1
  /\ alive' = FALSE
  /\ generation' = 0
  /\ ops' = <<>>
  /\ open' = [t \in Tabs |-> [open[t] EXCEPT !.pc = Lost(@)]]
  /\ inject' = [t \in Tabs |-> [k \in 0..MaxDocs |-> NoFlow]]
  /\ IF taken = None THEN UNCHANGED storeVars ELSE Store!Forfeit
  /\ UNCHANGED <<tab, answers, fills, asked, cleared>>

-----------------------------------------------------------------------------
Init ==
  /\ alive = TRUE /\ generation = 0 /\ ops = <<>>
  /\ Store!Init
  /\ open = [t \in Tabs |-> [pc |-> "unused", generation |-> 0, asked |-> 0]]
  /\ inject = [t \in Tabs |-> [k \in 0..MaxDocs |-> NoFlow]]
  /\ tab = [t \in Tabs |-> NoTab]
  /\ answers = {} /\ fills = {}
  /\ asked = 0 /\ cleared = 0 /\ kills = 0

Worker ==
  \/ ServeArm \/ ServePeek \/ ServeConsumeMiss \/ ServeConsume \/ Reply
  \/ ServeClear \/ ServeSweep
  \/ \E t \in Tabs :
       \/ ArmTab(t) \/ CheckTab(t)
       \/ \E k \in 0..MaxDocs : InjectGuard(t, k) \/ InjectContent(t, k)

Browser(t) == CreateTab(t) \/ PageLoads(t)

Next ==
  \/ \E t \in Tabs : OpenAndArm(t)
  \/ Worker
  \/ \E t \in Tabs : Browser(t)
  \/ \E t \in Tabs : (\E u \in {Url, Other} : Navigate(t, u)) \/ CloseTab(t)
  \/ \E a \in answers : RunContentFill(a)
  \/ ClearState \/ Tick \/ Wake \/ Kill

Spec == Init /\ [][Next]_vars

\* The worker's event loop runs, and the browser creates and loads tabs.
Fairness == WF_vars(Worker) /\ \A t \in Tabs : WF_vars(Browser(t))

FairSpec == Spec /\ Fairness

-----------------------------------------------------------------------------
TypeOK ==
  /\ arms \in [Tabs -> Store!Entry \cup {None}]
  /\ taken \in Store!Entry \cup {None}
  /\ alive \in BOOLEAN /\ generation \in Nat
  /\ ops \in Seq(Op)
  /\ \A t \in Tabs :
       /\ open[t].pc \in {"unused", "creating", "created", "refused", "arming",
                          "checking", "done", "lost"}
       /\ tab[t].doc \in 0..MaxDocs
       /\ \A k \in 0..MaxDocs : inject[t][k].pc \in {"none", "peek", "guard", "content"}

\* One click fills at most one form, in the tab it opened and on the page that was
\* armed, however often the scripts are injected and the page reloads.
OneFillPerClick ==
  \A f \in fills :
    /\ f.url = f.answer.url
    /\ \A g \in fills : g.answer.tab = f.answer.tab => g = f
    /\ \A a \in answers : a.tab # f.answer.tab

\* Once a logout's clear has run, the store holds no arm of a click made before
\* that logout, not even of one whose tab was still being created.
LogoutForgetsClicks ==
  \A t \in Tabs : arms[t] # None => open[t].asked >= cleared

\* As long as the tab still shows its first document, the form that is filled has the
\* submission guard (background.ts injects the guard before the content script).
UnreloadedFormIsGuarded == \A f \in fills : f.answer.doc = 1 => f.guarded

\* An arm that was acknowledged is used, unless the tab leaves the armed page, the
\* arm expires or the worker is stopped on the way: the page may complete before,
\* while or after the arm is stored (background.ts openAndArm, onUpdated).
AcknowledgedArmIsUsed ==
  \A t \in Tabs :
    open[t].pc = "done" /\ arms[t] # None
      ~> arms[t] = None \/ tab[t].url # Url \/ arms[t].exp <= now \/ kills > 0
=============================================================================
