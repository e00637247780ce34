--------------------------- MODULE OpenFillProofs ---------------------------
(***************************************************************************)
(* Theorems about Open & Fill across worker, tabs and content script, for  *)
(* any number of clicks, documents, logouts and worker kills: one form per *)
(* click, no arm that a logout should have cleared, and the guard before   *)
(* the fill.                                                               *)
(***************************************************************************)
EXTENDS OpenFill, TLAPS

Pages == {Url, Other}
Flow == [pc : {"unused", "creating", "created", "refused", "arming", "checking", "done", "lost"},
         generation : Nat, asked : Nat]
Injection == [pc : {"none", "peek", "guard", "content"}, url : Pages]
Document == [doc : 0..MaxDocs, url : Pages, complete : BOOLEAN, guarded : BOOLEAN]
Answer == [id : Nat, url : Pages, tab : Tabs, doc : Nat]
Fill == [answer : Answer, url : Pages, guarded : BOOLEAN]

\* The types, of every variable and in full.
Types ==
  /\ now \in Nat /\ granted \in SUBSET Nat /\ armed \in Nat
  /\ arms \in [Tabs -> Store!Entry \cup {None}]
  /\ taken \in Store!Entry \cup {None}
  /\ alive \in BOOLEAN /\ generation \in Nat
  /\ ops \in Seq(Op)
  /\ open \in [Tabs -> Flow]
  /\ inject \in [Tabs -> [0..MaxDocs -> Injection]]
  /\ tab \in [Tabs -> Document]
  /\ answers \in SUBSET Answer /\ fills \in SUBSET Fill
  /\ asked \in Nat /\ cleared \in Nat /\ kills \in Nat

\* The click has made its tab.
Made(t) == open[t].pc \notin {"unused", "creating"}

\* Document d of tab t showed page u when its script asked for the arm; if it is
\* the tab's first document, it had the submission guard by then.
AskedOn(t, d, u) ==
  /\ d >= 1
  /\ tab[t].doc # 0 => d <= tab[t].doc
  /\ tab[t].doc = d => tab[t].url = u /\ (d = 1 => tab[t].guarded)

\* What a waiting operation says of its tab.
OpIsOurs(o) ==
  /\ o.kind \in {"arm", "peek", "consume"} => o.tab \in Tabs /\ o.url \in Pages /\ Made(o.tab)
  /\ o.kind = "arm" => open[o.tab].pc = "arming" /\ open[o.tab].asked >= cleared
  /\ o.kind = "peek" => o.slot \in 0..MaxDocs
  /\ o.kind = "consume" => AskedOn(o.tab, o.slot, o.url)
  /\ o.kind = "clear" => o.slot <= asked

\* Of two waiting operations: a click arms its tab once, and an arm behind the
\* clear of a logout is of a click made after that logout.
InOrder(o, p) ==
  p.kind = "arm" =>
    /\ o.kind = "arm" => o.tab # p.tab
    /\ o.kind = "clear" => open[p.tab].asked >= o.slot

OpsInv ==
  \A i \in DOMAIN ops, o \in Op : ops[i] = o =>
    /\ OpIsOurs(o)
    /\ \A j \in DOMAIN ops, p \in Op : ops[j] = p /\ i < j => InOrder(o, p)

\* What the worker remembers of a click and of a script it injects.
FlowInv ==
  /\ cleared <= asked
  /\ \A t \in Tabs :
       /\ ~Made(t) => tab[t].doc = 0 /\ \A k \in 0..MaxDocs : inject[t][k].pc = "none"
       /\ open[t].pc \in {"creating", "created"} =>
            open[t].asked + generation = asked + open[t].generation
       /\ \A k \in 0..MaxDocs : inject[t][k].pc = "content" /\ tab[t].doc = 1 => tab[t].guarded
       /\ arms[t] # None => open[t].asked >= cleared

\* The arm of a click is at one place: still to be stored, in the store, taken by
\* the consume at the head, on its way to a document, or used to fill a form.
ArmInv ==
  /\ taken # None => /\ alive /\ ops # <<>> /\ Head(ops).kind = "consume"
                     /\ taken.url = Head(ops).url
                     /\ arms[Head(ops).tab] = None
  /\ \A t \in Tabs :
       /\ open[t].pc \in {"unused", "creating", "created", "arming"} => arms[t] = None
       /\ (arms[t] # None \/ (taken # None /\ Head(ops).tab = t)
             \/ open[t].pc \in {"unused", "creating", "created", "arming"}) =>
            /\ \A a \in answers : a.tab # t
            /\ \A f \in fills : f.answer.tab # t
       /\ taken # None /\ Head(ops).tab = t =>
            open[t].pc \notin {"unused", "creating", "created", "arming"}
  /\ \A a \in answers :
       /\ AskedOn(a.tab, a.doc, a.url)
       /\ \A b \in answers : b.tab = a.tab => b = a
       /\ \A f \in fills : f.answer.tab # a.tab
  /\ \A f \in fills :
       /\ f.url = f.answer.url
       /\ f.answer.doc = 1 => f.guarded
       /\ \A g \in fills : g.answer.tab = f.answer.tab => g = f

OpenFillInv == Types /\ OpsInv /\ FlowInv /\ ArmInv
-----------------------------------------------------------------------------
(* Types. *)

\* The operations that are asked for.
LEMMA OpsMade ==
  ASSUME Types, NEW t \in Tabs, NEW u \in Pages, NEW k \in Nat
  PROVE  /\ Ask("arm", t, u, k) \in Op /\ Ask("peek", t, u, k) \in Op
         /\ Ask("consume", t, u, k) \in Op
         /\ Ask("clear", None, None, k) \in Op /\ SweepOp \in Op
<1>1. Ask("arm", t, u, k) \in Op /\ Ask("peek", t, u, k) \in Op /\ Ask("consume", t, u, k) \in Op
  BY DEF Types, Ask, Op, Pages
<1>2. Ask("clear", None, None, k) \in Op /\ SweepOp \in Op
  BY DEF Types, Ask, SweepOp, Op, Pages
<1> QED
  BY <1>1, <1>2

\* The worker adds what it is asked for behind what waits.
LEMMA AwakeTyped ==
  ASSUME Types, NEW o \in Op
  PROVE  Awake(o) \in Seq(Op) /\ Append(ops, o) \in Seq(Op)
<1>1. SweepOp \in Op
  BY DEF Types, Ask, SweepOp, Op, Pages
<1> QED
  BY <1>1 DEF Types, Awake

\* What the store's operations make of its variables.
LEMMA StoreTyped ==
  ASSUME Types
  PROVE  /\ \A t \in Tabs, u \in Pages, at \in Nat : Store!Arm(t, u, None, at) =>
              now' \in Nat /\ granted' \in SUBSET Nat /\ armed' \in Nat
              /\ arms' \in [Tabs -> Store!Entry \cup {None}] /\ taken' \in Store!Entry \cup {None}
         /\ \A t \in Tabs, u \in Pages, at \in Nat :
              Store!Take(t, u, at) \/ Store!DropExpired(t, at) \/ Store!Sweep(at)
                \/ Store!Clear(Tabs) \/ Store!Tick \/ Store!Deliver \/ Store!Forfeit
                \/ UNCHANGED storeVars =>
              now' \in Nat /\ granted' \in SUBSET Nat /\ armed' \in Nat
              /\ arms' \in [Tabs -> Store!Entry \cup {None}] /\ taken' \in Store!Entry \cup {None}
<1> USE OpenFillAssumption DEF Types
<1>1. ASSUME NEW t \in Tabs, NEW u \in Pages, NEW at \in Nat, Store!Arm(t, u, None, at)
      PROVE  now' \in Nat /\ granted' \in SUBSET Nat /\ armed' \in Nat
              /\ arms' \in [Tabs -> Store!Entry \cup {None}] /\ taken' \in Store!Entry \cup {None}
  <2> DEFINE e == [id |-> armed + 1, url |-> u, exp |-> at + TTL, cv |-> None]
  <2>1. e \in Store!Entry
    BY DEF Store!Entry, Pages
  <2>2. Store!Unexpired(arms, at) \in [Tabs -> Store!Entry \cup {None}]
    BY DEF Store!Unexpired
  <2>3. arms' = [Store!Unexpired(arms, at) EXCEPT ![t] = e] /\ armed' = armed + 1
        /\ UNCHANGED <<now, taken, granted>>
    BY <1>1 DEF Store!Arm
  <2> QED
    BY <2>1, <2>2, <2>3
<1>2. ASSUME NEW t \in Tabs, NEW u \in Pages, NEW at \in Nat,
              Store!Take(t, u, at) \/ Store!DropExpired(t, at) \/ Store!Sweep(at)
                \/ Store!Clear(Tabs) \/ Store!Tick \/ Store!Deliver \/ Store!Forfeit
                \/ UNCHANGED storeVars
      PROVE  now' \in Nat /\ granted' \in SUBSET Nat /\ armed' \in Nat
              /\ arms' \in [Tabs -> Store!Entry \cup {None}] /\ taken' \in Store!Entry \cup {None}
  <2>1. CASE Store!Take(t, u, at)
    BY <2>1 DEF Store!Take, Store!Without
  <2>2. CASE Store!DropExpired(t, at) \/ Store!Clear(Tabs)
    BY <2>2 DEF Store!DropExpired, Store!Clear, Store!Without
  <2>3. CASE Store!Sweep(at)
    BY <2>3 DEF Store!Sweep, Store!Unexpired
  <2>4. CASE Store!Tick
    BY <2>4 DEF Store!Tick
  <2>6. CASE Store!Forfeit \/ UNCHANGED storeVars
    BY <2>6 DEF Store!Forfeit, storeVars
  <2>5. CASE Store!Deliver
    <3>1. taken \in Store!Entry /\ taken.id \in Nat
      BY <2>5 DEF Store!Deliver, Store!Entry
    <3> QED
      BY <2>5, <3>1 DEF Store!Deliver
  <2> QED
    BY <1>2, <2>1, <2>2, <2>3, <2>4, <2>5, <2>6
<1> QED
  BY <1>1, <1>2

\* The oldest operation.
LEMMA HeadTyped ==
  ASSUME Types, OpsInv, ops # <<>>
  PROVE  /\ Head(ops) \in Op /\ Tail(ops) \in Seq(Op) /\ OpIsOurs(Head(ops))
         /\ Head(ops).at \in Nat /\ Head(ops).slot \in Nat
         /\ Head(ops).kind \in {"arm", "peek", "consume", "clear", "sweep"}
<1>1. Head(ops) = ops[1] /\ 1 \in DOMAIN ops /\ Head(ops) \in Op /\ Tail(ops) \in Seq(Op)
  BY DEF Types
<1> QED
  BY <1>1 DEF OpsInv, Op

\* Every step keeps the types.
LEMMA TypesStep ==
  ASSUME OpenFillInv, [Next]_vars
  PROVE  Types'
<1> USE OpenFillAssumption DEF OpenFillInv
<1>a. ASSUME NEW t \in Tabs, OpenAndArm(t) PROVE Types'
  <2>1. [pc |-> "creating", generation |-> generation, asked |-> asked] \in Flow
    BY DEF Types, Flow
  <2> QED
    BY <1>a, <2>1 DEF OpenAndArm, Types, storeVars
<1>b. ASSUME NEW t \in Tabs, NEW p \in {"created", "refused", "arming", "checking", "done"}
      PROVE  [open EXCEPT ![t].pc = p] \in [Tabs -> Flow]
  BY DEF Types, Flow
<1>c. ASSUME NEW t \in Tabs, CreateTab(t) PROVE Types'
  <2>1. [doc |-> 1, url |-> Url, complete |-> FALSE, guarded |-> FALSE] \in Document
    BY DEF Document, Pages
  <2> QED
    BY <1>b, <1>c, <2>1 DEF CreateTab, Types, storeVars
<1>d. ASSUME NEW t \in Tabs, ArmTab(t) PROVE Types'
  <2>1. Append(ops, Ask("arm", t, Url, 0)) \in Seq(Op)
    BY OpsMade, AwakeTyped DEF Pages
  <2>2. ops' \in Seq(Op)
    BY <1>d, <2>1 DEF ArmTab, Types
  <2>3. open' \in [Tabs -> Flow]
    BY <1>b, <1>d DEF ArmTab
  <2> QED
    BY <1>d, <2>2, <2>3 DEF ArmTab, Types, storeVars
<1>e. ASSUME NEW t \in Tabs, NEW k \in 0..MaxDocs, NEW i \in Injection
      PROVE  [inject EXCEPT ![t][k] = i] \in [Tabs -> [0..MaxDocs -> Injection]]
  BY DEF Types
<1>n. NoFlow \in Injection /\ NoTab \in Document
  BY DEF NoFlow, NoTab, Injection, Document, Pages
<1>f. ASSUME NEW t \in Tabs, CheckTab(t) PROVE Types'
  <2>1. tab[t].url \in Pages /\ 0 \in 0..MaxDocs
    BY DEF Types, Document
  <2>2. [pc |-> "peek", url |-> tab[t].url] \in Injection
    BY <2>1 DEF Injection
  <2>3. Append(ops, Ask("peek", t, tab[t].url, 0)) \in Seq(Op)
    BY <2>1, OpsMade, AwakeTyped
  <2> QED
    <3>1. inject' \in [Tabs -> [0..MaxDocs -> Injection]]
      <4>1. [inject EXCEPT ![t][0] = [pc |-> "peek", url |-> tab[t].url]]
              \in [Tabs -> [0..MaxDocs -> Injection]]
        BY <1>e, <2>1, <2>2
      <4>2. inject \in [Tabs -> [0..MaxDocs -> Injection]]
        BY DEF Types
      <4>3. \/ inject' = inject
            \/ inject' = [inject EXCEPT ![t][0] = [pc |-> "peek", url |-> tab[t].url]]
        BY <1>f DEF CheckTab, StartInject
      <4> QED
        BY <4>1, <4>2, <4>3
    <3>2. ops' \in Seq(Op)
      BY <1>f, <2>3 DEF CheckTab, StartInject, Types
    <3>3. open' \in [Tabs -> Flow]
      BY <1>b, <1>f DEF CheckTab
    <3> QED
      BY <1>f, <3>1, <3>2, <3>3 DEF CheckTab, Types, storeVars
<1>g. ASSUME NEW t \in Tabs, NEW k \in 0..MaxDocs, InjectGuard(t, k) PROVE Types'
  <2>1. [inject EXCEPT ![t][k].pc = "content"] \in [Tabs -> [0..MaxDocs -> Injection]]
    <3> DEFINE i == [inject[t][k] EXCEPT !.pc = "content"]
    <3>0. inject[t][k] \in Injection
      BY DEF Types
    <3>1. i \in Injection
      BY <3>0 DEF Injection
    <3>2. [inject EXCEPT ![t][k].pc = "content"] = [inject EXCEPT ![t][k] = i]
      BY DEF Types
    <3> HIDE DEF i
    <3> QED
      BY <1>e, <3>1, <3>2
  <2>2. [tab EXCEPT ![t].guarded = TRUE] \in [Tabs -> Document]
    BY DEF Types, Document
  <2> QED
    <3>1. inject' \in [Tabs -> [0..MaxDocs -> Injection]]
      <4>1. [inject EXCEPT ![t][k] = NoFlow] \in [Tabs -> [0..MaxDocs -> Injection]]
        BY <1>e, <1>n
      <4>2. \/ inject' = [inject EXCEPT ![t][k] = NoFlow]
            \/ inject' = [inject EXCEPT ![t][k].pc = "content"]
        BY <1>g DEF InjectGuard, EndInject
      <4> QED
        BY <2>1, <4>1, <4>2
    <3>2. tab' \in [Tabs -> Document]
      BY <1>g, <2>2 DEF InjectGuard, Types
    <3> QED
      BY <1>g, <3>1, <3>2 DEF InjectGuard, Types, storeVars
<1>h. ASSUME NEW t \in Tabs, NEW k \in 0..MaxDocs, InjectContent(t, k) PROVE Types'
  <2>1. tab[t].url \in Pages /\ tab[t].doc \in Nat
    BY DEF Types, Document
  <2>2. Append(ops, Ask("consume", t, tab[t].url, tab[t].doc)) \in Seq(Op)
    BY <2>1, OpsMade, AwakeTyped
  <2> QED
    BY <1>e, <1>h, <1>n, <2>2 DEF InjectContent, EndInject, Types, storeVars
<1>i. CASE ServeArm
  <2> DEFINE o == Head(ops)
  <2>1. o.tab \in Tabs /\ o.url \in Pages /\ o.at \in Nat /\ Tail(ops) \in Seq(Op)
    BY <1>i, HeadTyped DEF ServeArm, Head1, OpIsOurs
  <2>2. Store!Arm(o.tab, o.url, None, o.at)
    BY <1>i DEF ServeArm
  <2>3. /\ now' \in Nat /\ granted' \in SUBSET Nat /\ armed' \in Nat
        /\ arms' \in [Tabs -> Store!Entry \cup {None}] /\ taken' \in Store!Entry \cup {None}
    BY <2>1, <2>2, StoreTyped
  <2> QED
    BY <1>b, <1>i, <2>1, <2>3 DEF ServeArm, Types
<1>j. ASSUME Head1("peek") \/ Head1("consume"),
             LookedUp(Head(ops)) \/ Store!Take(Head(ops).tab, Head(ops).url, Head(ops).at)
      PROVE  /\ Head(ops).tab \in Tabs /\ Head(ops).url \in Pages /\ Tail(ops) \in Seq(Op)
             /\ now' \in Nat /\ granted' \in SUBSET Nat /\ armed' \in Nat
             /\ arms' \in [Tabs -> Store!Entry \cup {None}] /\ taken' \in Store!Entry \cup {None}
  <2> DEFINE o == Head(ops)
  <2>1. o.tab \in Tabs /\ o.url \in Pages /\ o.at \in Nat /\ Tail(ops) \in Seq(Op)
    BY <1>j, HeadTyped DEF Head1, OpIsOurs
  <2>2. Store!Take(o.tab, o.url, o.at) \/ Store!DropExpired(o.tab, o.at) \/ UNCHANGED storeVars
    BY <1>j DEF LookedUp
  <2> QED
    BY <2>1, <2>2, StoreTyped
<1>k. CASE ServePeek
  <2> DEFINE o == Head(ops)
  <2>1. o.slot \in 0..MaxDocs
    BY <1>k, HeadTyped DEF ServePeek, Head1, OpIsOurs
  <2>2. o.tab \in Tabs /\ [inject[o.tab][o.slot] EXCEPT !.pc = "guard"] \in Injection
    <3>1. o.tab \in Tabs
      BY <1>j, <1>k DEF ServePeek
    <3>2. inject[o.tab][o.slot] \in Injection
      BY <2>1, <3>1 DEF Types
    <3> QED
      BY <3>1, <3>2 DEF Injection
  <2>3. inject' \in [Tabs -> [0..MaxDocs -> Injection]]
    BY <1>e, <1>k, <1>n, <2>1, <2>2 DEF ServePeek
  <2> QED
    BY <1>j, <1>k, <2>3 DEF ServePeek, Types
<1>l. CASE ServeConsumeMiss
  BY <1>j, <1>l DEF ServeConsumeMiss, Types
<1>m. CASE ServeConsume
  BY <1>j, <1>m DEF ServeConsume, Types, workerVars
<1>o. CASE Reply
  <2> DEFINE o == Head(ops)
             a == [id |-> taken.id, url |-> taken.url, tab |-> o.tab, doc |-> o.slot]
  <2>1. taken \in Store!Entry
    BY <1>o DEF Reply, Store!Deliver, Types
  <2>2. taken.id \in Nat /\ taken.url \in Pages
    BY <2>1 DEF Store!Entry, Pages
  <2>3. o.tab \in Tabs /\ o.slot \in Nat /\ Tail(ops) \in Seq(Op)
    BY <1>o, HeadTyped DEF Reply, Store!Deliver, ArmInv, OpIsOurs
  <2>4. a \in Answer
    BY <2>2, <2>3 DEF Answer
  <2>5. /\ now' \in Nat /\ granted' \in SUBSET Nat /\ armed' \in Nat
        /\ arms' \in [Tabs -> Store!Entry \cup {None}] /\ taken' \in Store!Entry \cup {None}
    BY <1>o, <2>2 DEF Reply, Store!Deliver, Types
  <2> QED
    BY <1>o, <2>3, <2>4, <2>5 DEF Reply, Types
<1>p. CASE ServeClear \/ ServeSweep
  <2>1. Head(ops).at \in Nat /\ Head(ops).slot \in Nat /\ Tail(ops) \in Seq(Op)
    BY <1>p, HeadTyped DEF ServeClear, ServeSweep, Head1
  <2>2. /\ now' \in Nat /\ granted' \in SUBSET Nat /\ armed' \in Nat
        /\ arms' \in [Tabs -> Store!Entry \cup {None}] /\ taken' \in Store!Entry \cup {None}
    BY <1>p, <2>1 DEF ServeClear, ServeSweep, Store!Clear, Store!Sweep, Store!Without,
                      Store!Unexpired, Types
  <2> QED
    BY <1>p, <2>1, <2>2 DEF ServeClear, ServeSweep, Types
<1>q. ASSUME NEW a \in answers, RunContentFill(a) PROVE Types'
  <2>1. a \in Answer /\ tab[a.tab] \in Document
    BY DEF Types, Answer
  <2>2. [answer |-> a, url |-> tab[a.tab].url, guarded |-> tab[a.tab].guarded] \in Fill
    BY <2>1 DEF Fill, Document
  <2> QED
    BY <1>q, <2>2 DEF RunContentFill, Types, storeVars, workerVars
<1>r. ASSUME NEW t \in Tabs, PageLoads(t) PROVE Types'
  <2>1. tab[t] \in Document /\ tab[t].url \in Pages /\ tab[t].doc \in 0..MaxDocs
    BY DEF Types, Document
  <2>2. Awake(Ask("peek", t, tab[t].url, tab[t].doc)) \in Seq(Op)
    BY <2>1, OpsMade, AwakeTyped
  <2>3. [tab EXCEPT ![t].complete = TRUE] \in [Tabs -> Document]
    BY DEF Types, Document
  <2>4. [pc |-> "peek", url |-> tab[t].url] \in Injection
    BY <2>1 DEF Injection
  <2> QED
    BY <1>e, <1>r, <2>1, <2>2, <2>3, <2>4 DEF PageLoads, Types, storeVars
<1>s. ASSUME NEW t \in Tabs, NEW u \in Pages, Navigate(t, u) PROVE Types'
  <2> DEFINE d == [doc |-> tab[t].doc + 1, url |-> u, complete |-> FALSE, guarded |-> FALSE]
  <2>1. d \in Document
    BY <1>s DEF Navigate, Document
  <2>2. tab' = [tab EXCEPT ![t] = d]
    BY <1>s DEF Navigate
  <2>3. tab' \in [Tabs -> Document]
    BY <2>1, <2>2 DEF Types
  <2> QED
    BY <1>s, <2>3 DEF Navigate, Types, storeVars, workerVars
<1>t. ASSUME NEW t \in Tabs, CloseTab(t) PROVE Types'
  BY <1>n, <1>t DEF CloseTab, Types, storeVars, workerVars
<1>u. CASE ClearState
  <2>1. Awake(Ask("clear", None, None, asked + 1)) \in Seq(Op)
    <3>1. Ask("clear", None, None, asked + 1) \in Op
      BY DEF Types, Ask, Op
    <3> QED
      BY <3>1, AwakeTyped
  <2> QED
    BY <1>u, <2>1 DEF ClearState, Types, storeVars
<1>v. CASE Tick
  BY <1>v DEF Tick, Store!Tick, Types, workerVars
<1>w. CASE Wake
  <2>1. SweepOp \in Op
    BY DEF Types, SweepOp, Ask, Op
  <2> QED
    BY <1>w, <2>1 DEF Wake, Types, storeVars
<1>x. CASE Kill
  <2>1. open' \in [Tabs -> Flow]
    BY <1>x DEF Kill, Lost, Types, Flow
  <2>2. inject' \in [Tabs -> [0..MaxDocs -> Injection]]
    BY <1>n, <1>x DEF Kill
  <2>3. /\ now' \in Nat /\ granted' \in SUBSET Nat /\ armed' \in Nat
        /\ arms' \in [Tabs -> Store!Entry \cup {None}] /\ taken' \in Store!Entry \cup {None}
    BY <1>x DEF Kill, Store!Forfeit, storeVars, Types
  <2> QED
    <3>1. ops' \in Seq(Op)
      <4>1. <<>> \in Seq(Op)
        OBVIOUS
      <4> QED
        BY <1>x, <4>1 DEF Kill
    <3>3. alive' \in BOOLEAN /\ generation' \in Nat
      BY <1>x DEF Kill
    <3>2. kills' \in Nat /\ UNCHANGED <<tab, answers, fills, asked, cleared>>
      BY <1>x DEF Kill, Types
    <3> QED
      BY <2>1, <2>2, <2>3, <3>1, <3>2, <3>3 DEF Types
<1>y. CASE UNCHANGED vars
  BY <1>y DEF vars, storeVars, workerVars, Types
<1> QED
  BY <1>a, <1>c, <1>d, <1>f, <1>g, <1>h, <1>i, <1>k, <1>l, <1>m, <1>o, <1>p, <1>q, <1>r, <1>s,
     <1>t, <1>u, <1>v, <1>w, <1>x, <1>y DEF Next, Worker, Browser, Pages
-----------------------------------------------------------------------------
(* Waiting operations. *)

\* Which steps change what.
LEMMA Changes ==
  ASSUME [Next]_vars
  PROVE  /\ open' # open => \/ \E t \in Tabs : \/ OpenAndArm(t) \/ CreateTab(t)
                                             \/ ArmTab(t) \/ CheckTab(t)
                            \/ ServeArm \/ Kill
         /\ tab' # tab => \E t \in Tabs : \/ CreateTab(t) \/ PageLoads(t) \/ CloseTab(t)
                                          \/ \E u \in Pages : Navigate(t, u)
                                          \/ \E k \in 0..MaxDocs : InjectGuard(t, k)
         /\ asked' # asked => ClearState
         /\ cleared' # cleared => ServeClear
         /\ generation' # generation => ClearState \/ Kill
BY DEF Next, vars, storeVars, workerVars, Worker, Browser, Pages, OpenAndArm, CreateTab, ArmTab, CheckTab,
   InjectGuard, InjectContent, ServeArm, ServePeek, ServeConsumeMiss, ServeConsume, Reply,
   ServeClear, ServeSweep, RunContentFill, PageLoads, Navigate, CloseTab, ClearState, Tick, Wake, Kill

\* A click never goes back to a step before, and what it remembers stays.
LEMMA ClickStep ==
  ASSUME OpenFillInv, [Next]_vars, NEW t \in Tabs
  PROVE  /\ Made(t) => Made(t)'
         /\ open[t].pc # "unused" => /\ open'[t].asked = open[t].asked
                                     /\ open'[t].generation = open[t].generation
         /\ open'[t].pc \in {"unused", "creating", "created", "arming"}
              => open[t].pc \in {"unused", "creating", "created", "arming"}
         /\ open[t].pc = "arming" => \/ open'[t].pc = "arming" \/ Kill
                                     \/ ServeArm /\ Head(ops).tab = t
<1> USE DEF OpenFillInv, Types, Flow, Made
<1>1. CASE open' = open
  BY <1>1
<1>2. ASSUME NEW s \in Tabs, OpenAndArm(s) \/ CreateTab(s) \/ ArmTab(s) \/ CheckTab(s)
      PROVE  /\ open'[t].pc = open[t].pc \/ s = t
             /\ s = t => \/ open[t].pc = "unused" /\ open'[t].pc = "creating"
                         \/ open[t].pc = "creating" /\ open'[t].pc = "created"
                         \/ open[t].pc = "created" /\ open'[t].pc \in {"refused", "arming"}
                         \/ open[t].pc = "checking" /\ open'[t].pc = "done"
             /\ open[t].pc # "unused" => /\ open'[t].asked = open[t].asked
                                         /\ open'[t].generation = open[t].generation
  <2>2. CASE OpenAndArm(s)
    BY <2>2 DEF OpenAndArm
  <2>3. CASE CreateTab(s)
    BY <2>3 DEF CreateTab
  <2>4. CASE ArmTab(s)
    <3>1. PICK p \in {"refused", "arming"} : open' = [open EXCEPT ![s].pc = p]
      BY <2>4 DEF ArmTab
    <3> QED
      BY <2>4, <3>1 DEF ArmTab
  <2>5. CASE CheckTab(s)
    BY <2>5 DEF CheckTab
  <2> QED
    BY <1>2, <2>2, <2>3, <2>4, <2>5
<1>3. CASE ServeArm
  <2>1. Head(ops).tab \in Tabs /\ open[Head(ops).tab].pc = "arming"
    BY <1>3, HeadTyped DEF ServeArm, Head1, OpIsOurs
  <2> QED
    BY <1>3, <2>1 DEF ServeArm
<1>4. CASE Kill
  BY <1>4 DEF Kill, Lost
<1> QED
  BY <1>1, <1>2, <1>3, <1>4, Changes

\* What a document asked for stays true of its tab.
LEMMA AskedStays ==
  ASSUME OpenFillInv, [Next]_vars, NEW t \in Tabs, Made(t)
  PROVE  \A d \in Nat, u \in Pages : AskedOn(t, d, u) => AskedOn(t, d, u)'
<1> USE DEF OpenFillInv, Types, Document
<1>1. CASE tab' = tab
  BY <1>1 DEF AskedOn
<1>2. ASSUME NEW s \in Tabs, CreateTab(s) PROVE tab'[t] = tab[t]
  BY <1>2 DEF CreateTab, Made
<1>3. ASSUME NEW s \in Tabs, PageLoads(s) \/ (\E k \in 0..MaxDocs : InjectGuard(s, k))
      PROVE  /\ tab'[t].doc = tab[t].doc /\ tab'[t].url = tab[t].url
             /\ tab[t].guarded => tab'[t].guarded
  <2>1. ASSUME PageLoads(s) PROVE tab' = [tab EXCEPT ![s].complete = TRUE]
    BY <2>1 DEF PageLoads
  <2>2. ASSUME NEW k \in 0..MaxDocs, InjectGuard(s, k)
        PROVE  tab' = tab \/ tab' = [tab EXCEPT ![s].guarded = TRUE]
    BY <2>2 DEF InjectGuard
  <2>4. CASE tab' = [tab EXCEPT ![s].complete = TRUE]
    BY <2>4
  <2>5. CASE tab' = [tab EXCEPT ![s].guarded = TRUE]
    BY <2>5
  <2> QED
    BY <1>3, <2>1, <2>2, <2>4, <2>5
<1>4. ASSUME NEW s \in Tabs, CloseTab(s) PROVE tab'[t] = tab[t] \/ tab'[t].doc = 0
  BY <1>4 DEF CloseTab, NoTab
<1>5. ASSUME NEW s \in Tabs, NEW u \in Pages, Navigate(s, u)
      PROVE  tab'[t] = tab[t] \/ (tab[t].doc # 0 /\ tab'[t].doc = tab[t].doc + 1)
  BY <1>5 DEF Navigate
<1>6. tab[t].doc \in Nat
  OBVIOUS
<1>7. ASSUME \/ tab'[t] = tab[t]
             \/ /\ tab'[t].doc = tab[t].doc /\ tab'[t].url = tab[t].url
                /\ tab[t].guarded => tab'[t].guarded
             \/ tab'[t].doc = 0
             \/ tab[t].doc # 0 /\ tab'[t].doc = tab[t].doc + 1
      PROVE  \A d \in Nat, u \in Pages : AskedOn(t, d, u) => AskedOn(t, d, u)'
  BY <1>6, <1>7 DEF AskedOn
<1> QED
  BY <1>1, <1>2, <1>3, <1>4, <1>5, <1>7, Changes

\* What a waiting operation says of its tab stays true while it waits.
LEMMA OpStays ==
  ASSUME OpenFillInv, [Next]_vars, ~Kill, ~ServeClear
  PROVE  /\ \A o \in Op : OpIsOurs(o) /\ ~(ServeArm /\ o.kind = "arm" /\ o.tab = Head(ops).tab)
                            => OpIsOurs(o)'
         /\ \A o, p \in Op : OpIsOurs(p) /\ InOrder(o, p) => InOrder(o, p)'
<1>1. asked' >= asked /\ cleared' = cleared
  <2>1. asked' = asked \/ asked' = asked + 1
    BY Changes DEF ClearState
  <2>2. asked \in Nat
    BY DEF OpenFillInv, Types
  <2>3. cleared' = cleared
    BY Changes
  <2> QED
    BY <2>1, <2>2, <2>3
<1>2. ASSUME NEW o \in Op, OpIsOurs(o), ~(ServeArm /\ o.kind = "arm" /\ o.tab = Head(ops).tab)
      PROVE  OpIsOurs(o)'
  <2>1. o.kind \in {"arm", "peek", "consume"} => o.tab \in Tabs /\ o.url \in Pages /\ Made(o.tab)'
    BY <1>2, ClickStep DEF OpIsOurs
  <2>2. o.kind = "arm" => open'[o.tab].pc = "arming" /\ open'[o.tab].asked >= cleared'
    BY <1>1, <1>2, ClickStep DEF OpIsOurs
  <2>3. o.kind = "consume" => AskedOn(o.tab, o.slot, o.url)'
    <3>1. o.slot \in Nat
      BY DEF Op
    <3> QED
      BY <1>2, <3>1, AskedStays DEF OpIsOurs
  <2>4. o.kind = "clear" => o.slot <= asked'
    <3>1. o.slot \in Nat /\ asked \in Nat /\ asked' \in Nat
      BY TypesStep DEF Op, OpenFillInv, Types
    <3> QED
      BY <1>1, <1>2, <3>1 DEF OpIsOurs
  <2> QED
    BY <1>2, <2>1, <2>2, <2>3, <2>4 DEF OpIsOurs
<1>3. ASSUME NEW o \in Op, NEW p \in Op, OpIsOurs(p), InOrder(o, p)
      PROVE  InOrder(o, p)'
  BY <1>3, ClickStep DEF OpIsOurs, InOrder
<1> QED
  BY <1>2, <1>3
\* How the queue grows and shrinks.
LEMMA QueueMoves ==
  ASSUME Types
  PROVE  /\ \A o \in Op : LET q == Append(ops, o) IN
              \A i \in DOMAIN q : \/ i \in DOMAIN ops /\ q[i] = ops[i]
                                  \/ i = Len(ops) + 1 /\ q[i] = o
         /\ \A i \in DOMAIN ops : i \in Nat /\ i <= Len(ops) /\ ops[i] \in Op
         /\ ops # <<>> => /\ 1 \in DOMAIN ops /\ Head(ops) = ops[1]
                          /\ \A i \in DOMAIN Tail(ops) :
                               /\ i \in Nat /\ i + 1 \in DOMAIN ops /\ 1 < i + 1
                               /\ Tail(ops)[i] = ops[i + 1]
<1>1. ops \in Seq(Op)
  BY DEF Types
<1>2. ASSUME NEW o \in Op, NEW i \in DOMAIN Append(ops, o)
      PROVE  \/ i \in DOMAIN ops /\ Append(ops, o)[i] = ops[i]
             \/ i = Len(ops) + 1 /\ Append(ops, o)[i] = o
  BY <1>1
<1>3. ops # <<>> => /\ 1 \in DOMAIN ops /\ Head(ops) = ops[1]
                    /\ \A i \in DOMAIN Tail(ops) :
                         /\ i \in Nat /\ i + 1 \in DOMAIN ops /\ 1 < i + 1
                         /\ Tail(ops)[i] = ops[i + 1]
  BY <1>1
<1>4. \A i \in DOMAIN ops : i \in Nat /\ i <= Len(ops) /\ ops[i] \in Op
  BY <1>1
<1> QED
  BY <1>2, <1>3, <1>4

\* The queue stays in order if what is added comes last and is ours.
LEMMA QueueAdds ==
  ASSUME OpenFillInv, [Next]_vars, ~Kill, ~ServeClear, ~ServeArm,
         NEW o \in Op, ops' = Append(ops, o) \/ ops' = Awake(o),
         OpIsOurs(o)', \A p \in Op : OpIsOurs(p) => InOrder(p, o)'
  PROVE  OpsInv'
<1>1. /\ \A p \in Op : OpIsOurs(p) => OpIsOurs(p)'
      /\ \A p, q \in Op : OpIsOurs(q) /\ InOrder(p, q) => InOrder(p, q)'
  BY OpStays
<1>2. CASE ops' = Append(ops, o)
  <2>1. \A i \in DOMAIN ops' : \/ i \in DOMAIN ops /\ ops'[i] = ops[i]
                               \/ i = Len(ops) + 1 /\ ops'[i] = o
    BY <1>2, QueueMoves DEF OpenFillInv
  <2>2. \A i \in DOMAIN ops : i \in Nat /\ i <= Len(ops) /\ ops[i] \in Op
    BY QueueMoves DEF OpenFillInv
  <2>3. Len(ops) \in Nat
    BY DEF OpenFillInv, Types
  <2>4. ASSUME NEW i \in DOMAIN ops', NEW p \in Op, ops'[i] = p PROVE OpIsOurs(p)'
    BY <1>1, <2>1, <2>2, <2>4 DEF OpenFillInv, OpsInv
  <2>5. ASSUME NEW i \in DOMAIN ops', NEW j \in DOMAIN ops', NEW p \in Op, NEW q \in Op,
               ops'[i] = p, ops'[j] = q, i < j
        PROVE  InOrder(p, q)'
    <3>1. i \in DOMAIN ops /\ ops[i] = p
      BY <2>1, <2>2, <2>3, <2>5
    <3>2. OpIsOurs(p)
      BY <3>1 DEF OpenFillInv, OpsInv
    <3>3. CASE j \in DOMAIN ops /\ ops[j] = q
      <4>1. OpIsOurs(q) /\ InOrder(p, q)
        BY <2>5, <3>1, <3>3 DEF OpenFillInv, OpsInv
      <4> QED
        BY <1>1, <4>1
    <3>4. CASE q = o
      BY <3>2, <3>4
    <3> QED
      BY <2>1, <2>5, <3>3, <3>4
  <2> QED
    BY <2>4, <2>5 DEF OpsInv
<1>3. CASE ops' = <<SweepOp, o>>
  <2>1. PICK p \in Op : p = SweepOp
    BY DEF OpenFillInv, Types, SweepOp, Ask, Op
  <2>2. OpIsOurs(p)' /\ InOrder(p, o)'
    BY <2>1 DEF OpIsOurs, InOrder, SweepOp, Ask
  <2>3. ops' = <<p, o>>
    BY <1>3, <2>1
  <2>4. \A i, j \in DOMAIN ops' : /\ ops'[i] = p \/ ops'[i] = o
                                  /\ i < j => ops'[i] = p /\ ops'[j] = o
    BY <2>3
  <2> QED
    BY <2>2, <2>4 DEF OpsInv
<1> QED
  BY <1>2, <1>3 DEF Awake

\* Nor does taking the oldest one change it.
LEMMA QueueDrops ==
  ASSUME OpenFillInv, [Next]_vars, ~Kill, ~ServeClear, ops # <<>>,
         ops' = Tail(ops)
  PROVE  OpsInv'
<1>1. /\ \A p \in Op : OpIsOurs(p) /\ ~(ServeArm /\ p.kind = "arm" /\ p.tab = Head(ops).tab)
                         => OpIsOurs(p)'
      /\ \A p, q \in Op : OpIsOurs(q) /\ InOrder(p, q) => InOrder(p, q)'
  BY OpStays
<1>2. /\ \A i \in DOMAIN ops' : i \in Nat /\ i + 1 \in DOMAIN ops /\ 1 < i + 1
                                /\ ops'[i] = ops[i + 1]
      /\ 1 \in DOMAIN ops /\ Head(ops) = ops[1] /\ Head(ops) \in Op
  BY QueueMoves DEF OpenFillInv
<1>3. ASSUME NEW i \in DOMAIN ops', NEW p \in Op, ops'[i] = p PROVE OpIsOurs(p)'
  <2>1. OpIsOurs(p) /\ InOrder(Head(ops), p)
    BY <1>2, <1>3 DEF OpenFillInv, OpsInv
  <2>2. ServeArm => Head(ops).kind = "arm"
    BY DEF ServeArm, Head1
  <2> QED
    BY <1>1, <2>1, <2>2 DEF InOrder
<1>4. ASSUME NEW i \in DOMAIN ops', NEW j \in DOMAIN ops', NEW p \in Op, NEW q \in Op,
             ops'[i] = p, ops'[j] = q, i < j
      PROVE  InOrder(p, q)'
  <2>1. OpIsOurs(q) /\ InOrder(p, q)
    <3>1. i + 1 < j + 1
      BY <1>2, <1>4
    <3> QED
      BY <1>2, <1>4, <3>1 DEF OpenFillInv, OpsInv
  <2> QED
    BY <1>1, <2>1
<1> QED
  BY <1>3, <1>4 DEF OpsInv
\* Every step keeps the waiting operations ours and in order.
LEMMA OpsStep ==
  ASSUME OpenFillInv, [Next]_vars
  PROVE  OpsInv'
<1>t. /\ \A t \in Tabs : tab[t].doc \in 0..MaxDocs /\ tab[t].url \in Pages
      /\ \A t \in Tabs : open[t].asked \in Nat /\ open[t].generation \in Nat
      /\ asked \in Nat /\ cleared \in Nat /\ generation \in Nat /\ MaxDocs \in Nat
  BY OpenFillAssumption DEF OpenFillInv, Types, Document, Flow
<1>0. ASSUME NEW o \in Op, ops' = Append(ops, o) \/ ops' = Awake(o)
      PROVE  ~Kill /\ ~ServeClear /\ ~ServeArm
  BY <1>0 DEF Kill, ServeClear, ServeArm, Head1, Awake, OpenFillInv, Types
<1>a. ASSUME NEW t \in Tabs, ArmTab(t), ops' # ops PROVE OpsInv'
  <2>1. /\ open[t].pc = "created" /\ open[t].generation = generation
        /\ open' = [open EXCEPT ![t].pc = "arming"]
        /\ ops' = Append(ops, Ask("arm", t, Url, 0))
        /\ UNCHANGED <<cleared, asked>>
    BY <1>a DEF ArmTab
  <2>2. PICK o \in Op : o = Ask("arm", t, Url, 0)
    BY OpsMade DEF OpenFillInv, Pages
  <2>3. open[t].asked = asked /\ cleared <= asked
    BY <1>t, <2>1 DEF OpenFillInv, FlowInv
  <2>4. open'[t].pc = "arming" /\ open'[t].asked = asked
    BY <2>1, <2>3 DEF OpenFillInv, Types, Flow
  <2>5. o.kind = "arm" /\ o.tab = t /\ o.url = Url
    BY <2>2 DEF Ask
  <2>6. OpIsOurs(o)'
    BY <2>1, <2>3, <2>4, <2>5 DEF OpIsOurs, Made, Pages
  <2>7. ASSUME NEW p \in Op, OpIsOurs(p) PROVE InOrder(p, o)'
    BY <2>1, <2>4, <2>5, <2>7 DEF OpIsOurs, InOrder
  <2>8. ~Kill /\ ~ServeClear /\ ~ServeArm
    BY <1>0, <2>1, <2>2
  <2> QED
    BY <2>1, <2>2, <2>6, <2>7, <2>8, QueueAdds
\* A request of another kind is behind what waits if it is ours.
<1>b. ASSUME NEW o \in Op, o.kind \in {"peek", "consume", "clear"}, OpIsOurs(o)',
             ops' = Append(ops, o) \/ ops' = Awake(o)
      PROVE  OpsInv'
  <2>1. \A p \in Op : InOrder(p, o)'
    BY <1>b DEF InOrder
  <2> QED
    BY <1>0, <1>b, <2>1, QueueAdds
<1>c. ASSUME NEW t \in Tabs, CheckTab(t), ops' # ops PROVE OpsInv'
  <2>1. /\ ops' = Append(ops, Ask("peek", t, tab[t].url, 0)) /\ open[t].pc = "checking"
    BY <1>c DEF CheckTab, StartInject
  <2>2. PICK o \in Op : o = Ask("peek", t, tab[t].url, 0)
    BY <1>t, OpsMade DEF OpenFillInv
  <2>3. Made(t)'
    BY <2>1, ClickStep DEF Made
  <2>4. o.kind = "peek" /\ o.tab = t /\ o.url \in Pages /\ o.slot \in 0..MaxDocs
    BY <1>t, <2>2 DEF Ask
  <2>5. OpIsOurs(o)'
    BY <2>3, <2>4 DEF OpIsOurs
  <2> QED
    BY <1>b, <2>1, <2>2, <2>4, <2>5
<1>d. ASSUME NEW t \in Tabs, PageLoads(t) PROVE OpsInv'
  <2>1. /\ ops' = Awake(Ask("peek", t, tab[t].url, tab[t].doc)) /\ tab[t].doc # 0
    BY <1>d DEF PageLoads
  <2>2. PICK o \in Op : o = Ask("peek", t, tab[t].url, tab[t].doc)
    BY <1>t, OpsMade DEF OpenFillInv
  <2>3. Made(t)'
    BY <2>1, ClickStep DEF OpenFillInv, FlowInv
  <2>4. o.kind = "peek" /\ o.tab = t /\ o.url \in Pages /\ o.slot \in 0..MaxDocs
    BY <1>t, <2>2 DEF Ask
  <2>5. OpIsOurs(o)'
    BY <2>3, <2>4 DEF OpIsOurs
  <2> QED
    BY <1>b, <2>1, <2>2, <2>4, <2>5
<1>e. ASSUME NEW t \in Tabs, NEW k \in 0..MaxDocs, InjectContent(t, k), ops' # ops PROVE OpsInv'
  <2>1. /\ ops' = Append(ops, Ask("consume", t, tab[t].url, tab[t].doc)) /\ tab[t].doc # 0
        /\ inject[t][k].pc = "content" /\ UNCHANGED tab
    BY <1>e DEF InjectContent
  <2>2. PICK o \in Op : o = Ask("consume", t, tab[t].url, tab[t].doc)
    BY <1>t, OpsMade DEF OpenFillInv
  <2>3. Made(t)'
    BY <2>1, ClickStep DEF OpenFillInv, FlowInv
  <2>4. o.kind = "consume" /\ o.tab = t /\ o.url = tab[t].url /\ o.slot = tab[t].doc
    BY <2>2 DEF Ask
  <2>5. AskedOn(t, tab[t].doc, tab[t].url)
    BY <1>t, <2>1 DEF AskedOn, OpenFillInv, FlowInv
  <2>6. OpIsOurs(o)'
    BY <1>t, <2>1, <2>3, <2>4, <2>5 DEF OpIsOurs, AskedOn
  <2> QED
    BY <1>b, <2>1, <2>2, <2>4, <2>6
<1>f. CASE ClearState
  <2>1. PICK o \in Op : o = Ask("clear", None, None, asked + 1)
    <3>1. asked + 1 \in Nat /\ now \in Nat
      BY DEF OpenFillInv, Types
    <3>2. Ask("clear", None, None, asked + 1) \in Op
      BY <3>1 DEF Ask, Op
    <3> QED
      BY <3>2
  <2>2. o.kind = "clear" /\ o.slot = asked + 1
    BY <2>1 DEF Ask
  <2>3. OpIsOurs(o)'
    BY <1>f, <1>t, <2>2 DEF ClearState, OpIsOurs
  <2> QED
    BY <1>b, <1>f, <2>1, <2>2, <2>3 DEF ClearState
<1>g. CASE ServeArm \/ ServePeek \/ ServeConsumeMiss \/ Reply \/ ServeSweep
  <2>1. ops # <<>> /\ ops' = Tail(ops)
    BY <1>g DEF ServeArm, ServePeek, ServeConsumeMiss, Reply, ServeSweep, Head1, Store!Deliver,
                OpenFillInv, ArmInv
  <2>2. ~Kill /\ ~ServeClear
    BY <1>g DEF ServeArm, ServePeek, ServeConsumeMiss, Reply, ServeSweep, Head1, Store!Deliver,
                Kill, ServeClear, OpenFillInv, Types
  <2> QED
    BY <2>1, <2>2, QueueDrops
<1>h. CASE ServeClear
  <2>1. /\ ops # <<>> /\ ops' = Tail(ops) /\ Head(ops).kind = "clear"
        /\ cleared' = Head(ops).slot /\ UNCHANGED <<open, tab, asked>>
    BY <1>h DEF ServeClear, Head1
  <2>2. /\ \A i \in DOMAIN ops' : i \in Nat /\ i + 1 \in DOMAIN ops /\ 1 < i + 1
                                  /\ ops'[i] = ops[i + 1]
        /\ 1 \in DOMAIN ops /\ Head(ops) = ops[1] /\ Head(ops) \in Op
    BY <2>1, QueueMoves DEF OpenFillInv
  <2>3. ASSUME NEW i \in DOMAIN ops', NEW p \in Op, ops'[i] = p PROVE OpIsOurs(p)'
    <3>1. OpIsOurs(p) /\ InOrder(Head(ops), p)
      BY <2>2, <2>3 DEF OpenFillInv, OpsInv
    <3> QED
      BY <2>1, <3>1 DEF OpIsOurs, InOrder, Made, AskedOn
  <2>4. ASSUME NEW i \in DOMAIN ops', NEW j \in DOMAIN ops', NEW p \in Op, NEW q \in Op,
               ops'[i] = p, ops'[j] = q, i < j
        PROVE  InOrder(p, q)'
    <3>1. i + 1 < j + 1
      BY <2>2, <2>4
    <3>2. InOrder(p, q)
      BY <2>2, <2>4, <3>1 DEF OpenFillInv, OpsInv
    <3> QED
      BY <2>1, <3>2 DEF InOrder
  <2> QED
    BY <2>3, <2>4 DEF OpsInv
<1>i. CASE Wake
  <2>1. PICK p \in Op : p = SweepOp
    BY DEF OpenFillInv, Types, SweepOp, Ask, Op
  <2>2. OpIsOurs(p)'
    BY <2>1 DEF OpIsOurs, SweepOp, Ask
  <2>3. \A i, j \in DOMAIN ops' : ops'[i] = p /\ ~(i < j)
    BY <1>i, <2>1 DEF Wake
  <2> QED
    BY <2>2, <2>3 DEF OpsInv
<1>j. CASE Kill
  BY <1>j DEF Kill, OpsInv
<1>k. CASE UNCHANGED ops /\ ~Kill /\ ~ServeClear /\ ~ServeArm
  <2>1. /\ \A p \in Op : OpIsOurs(p) => OpIsOurs(p)'
        /\ \A p, q \in Op : OpIsOurs(q) /\ InOrder(p, q) => InOrder(p, q)'
    BY <1>k, OpStays
  <2> QED
    BY <1>k, <2>1 DEF OpenFillInv, OpsInv
<1>l. ASSUME NEW t \in Tabs,
             OpenAndArm(t) \/ CreateTab(t) \/ (\E k \in 0..MaxDocs : InjectGuard(t, k))
               \/ (\E u \in Pages : Navigate(t, u)) \/ CloseTab(t)
      PROVE  UNCHANGED ops
  BY <1>l DEF OpenAndArm, CreateTab, InjectGuard, Navigate, CloseTab, workerVars
<1>m. CASE ServeConsume \/ (\E a \in answers : RunContentFill(a)) \/ Tick \/ UNCHANGED vars
  BY <1>k, <1>h, <1>j, <1>g, <1>m DEF ServeConsume, RunContentFill, Tick, vars, workerVars
<1> QED
  BY <1>a, <1>c, <1>d, <1>e, <1>f, <1>g, <1>h, <1>i, <1>j, <1>k, <1>l, <1>m
     DEF Next, Worker, Browser, Pages
-----------------------------------------------------------------------------
(* Clicks, injected scripts, and the store. *)

\* A tab holds an arm after a step only if it held one or is armed by it.
LEMMA ArmsStep ==
  ASSUME OpenFillInv, [Next]_vars, NEW t \in Tabs, arms'[t] # None
  PROVE  \/ arms[t] # None /\ ~ServeClear /\ ~(ServeConsume /\ Head(ops).tab = t)
         \/ ServeArm /\ Head(ops).tab = t
<1>1. arms \in [Tabs -> Store!Entry \cup {None}]
  BY DEF OpenFillInv, Types
<1>2. CASE ServeArm
  <2>1. Head(ops).tab \in Tabs /\ Store!Arm(Head(ops).tab, Head(ops).url, None, Head(ops).at)
        /\ ~ServeClear /\ ~ServeConsume
    BY <1>2, HeadTyped DEF ServeArm, ServeClear, ServeConsume, Head1, OpIsOurs, OpenFillInv
  <2> QED
    BY <1>1, <1>2, <2>1 DEF Store!Arm, Store!Unexpired
<1>3. CASE ServePeek \/ ServeConsumeMiss
  <2>1. arms' = arms \/ \E s \in Tabs : arms' = Store!Without(arms, {s})
    <3>1. Head(ops).tab \in Tabs
      BY <1>3, HeadTyped DEF ServePeek, ServeConsumeMiss, Head1, OpIsOurs, OpenFillInv
    <3> QED
      BY <1>3, <3>1 DEF ServePeek, ServeConsumeMiss, LookedUp, Store!DropExpired, storeVars
  <2>2. ~ServeClear /\ ~ServeConsume
    BY <1>3 DEF ServePeek, ServeConsumeMiss, ServeClear, ServeConsume, Head1, Store!Take, Valid,
                Matches, Store!Expired
  <2> QED
    BY <2>1, <2>2 DEF Store!Without
<1>4. CASE ServeConsume
  <2>1. arms' = Store!Without(arms, {Head(ops).tab}) /\ ~ServeClear
    BY <1>4 DEF ServeConsume, ServeClear, Head1, Store!Take
  <2> QED
    BY <2>1 DEF Store!Without
<1>5. CASE ServeClear
  BY <1>5 DEF ServeClear, Store!Clear, Store!Without
<1>6. CASE ServeSweep
  <2>1. arms' = Store!Unexpired(arms, Head(ops).at) /\ ~ServeClear /\ ~ServeConsume
    BY <1>6 DEF ServeSweep, ServeConsume, ServeClear, Head1, Store!Sweep
  <2> QED
    BY <2>1 DEF Store!Unexpired
<1>7. CASE ~ServeArm /\ ~ServePeek /\ ~ServeConsumeMiss /\ ~ServeConsume /\ ~ServeClear /\ ~ServeSweep
  <2>1. UNCHANGED arms
    BY <1>7 DEF Next, vars, storeVars, Worker, Browser, OpenAndArm, CreateTab, ArmTab, CheckTab,
       InjectGuard, InjectContent, Reply, RunContentFill, PageLoads, Navigate, CloseTab,
       ClearState, Tick, Wake, Kill, Store!Deliver, Store!Tick, Store!Forfeit
  <2> QED
    BY <1>7, <2>1
<1> QED
  BY <1>2, <1>3, <1>4, <1>5, <1>6, <1>7

\* A script is injected for tabs that clicks have made, and the content script
\* follows the guard.
LEMMA InjectStep ==
  ASSUME OpenFillInv, [Next]_vars, NEW t \in Tabs, NEW k \in 0..MaxDocs
  PROVE  /\ inject'[t][k].pc # "none" => inject[t][k].pc # "none" \/ Made(t)
         /\ inject'[t][k].pc = "content" =>
              inject[t][k].pc = "content" \/ (tab[t].doc # 0 /\ tab' = [tab EXCEPT ![t].guarded = TRUE])
<1>1. /\ inject \in [Tabs -> [0..MaxDocs -> Injection]] /\ NoFlow.pc = "none"
      /\ 0 \in 0..MaxDocs /\ \A s \in Tabs : tab[s].doc \in 0..MaxDocs
  BY OpenFillAssumption DEF OpenFillInv, Types, NoFlow, Document
<1>m. \A s \in Tabs : ~Made(s) => tab[s].doc = 0
  BY DEF OpenFillInv, FlowInv
<1>2. ASSUME NEW s \in Tabs, NEW j \in 0..MaxDocs, NEW i, i.pc \in {"none", "peek", "guard"},
             inject' = [inject EXCEPT ![s][j] = i], Made(s)
      PROVE  /\ inject'[t][k].pc # "none" => inject[t][k].pc # "none" \/ Made(t)
             /\ inject'[t][k].pc = "content" => inject[t][k].pc = "content"
  BY <1>1, <1>2
<1>3. ASSUME NEW s \in Tabs, CheckTab(s), inject' # inject
      PROVE  /\ inject'[t][k].pc # "none" => inject[t][k].pc # "none" \/ Made(t)
             /\ inject'[t][k].pc = "content" => inject[t][k].pc = "content"
  BY <1>1, <1>2, <1>3 DEF CheckTab, StartInject, Made
<1>4. ASSUME NEW s \in Tabs, PageLoads(s)
      PROVE  /\ inject'[t][k].pc # "none" => inject[t][k].pc # "none" \/ Made(t)
             /\ inject'[t][k].pc = "content" => inject[t][k].pc = "content"
  BY <1>1, <1>2, <1>4, <1>m DEF PageLoads
<1>5. ASSUME NEW s \in Tabs, NEW j \in 0..MaxDocs, InjectContent(s, j)
      PROVE  /\ inject'[t][k].pc # "none" => inject[t][k].pc # "none" \/ Made(t)
             /\ inject'[t][k].pc = "content" => inject[t][k].pc = "content"
  <2>1. inject' = [inject EXCEPT ![s][j] = NoFlow]
    BY <1>5 DEF InjectContent, EndInject
  <2> QED
    BY <1>1, <2>1
<1>6. ASSUME NEW s \in Tabs, NEW j \in 0..MaxDocs, InjectGuard(s, j)
      PROVE  /\ inject'[t][k].pc # "none" => inject[t][k].pc # "none" \/ Made(t)
             /\ inject'[t][k].pc = "content" =>
                  inject[t][k].pc = "content" \/ (tab[t].doc # 0 /\ tab' = [tab EXCEPT ![t].guarded = TRUE])
  <2>1. inject[s][j].pc = "guard"
    BY <1>6 DEF InjectGuard
  <2>2. CASE tab[s].doc = 0
    <3>1. inject' = [inject EXCEPT ![s][j] = NoFlow]
      BY <1>6, <2>2 DEF InjectGuard, EndInject
    <3> QED
      BY <1>1, <3>1
  <2>3. CASE tab[s].doc # 0
    <3>1. inject' = [inject EXCEPT ![s][j].pc = "content"] /\ tab' = [tab EXCEPT ![s].guarded = TRUE]
      BY <1>6, <2>3 DEF InjectGuard
    <3>2. (s = t /\ j = k) \/ inject'[t][k] = inject[t][k]
      BY <1>1, <3>1
    <3> QED
      BY <2>1, <2>3, <3>1, <3>2
  <2> QED
    BY <2>2, <2>3
<1>7. CASE ServePeek
  <2>1. Head(ops).tab \in Tabs /\ Head(ops).slot \in 0..MaxDocs /\ Made(Head(ops).tab)
    BY <1>7, HeadTyped DEF ServePeek, Head1, OpIsOurs, OpenFillInv
  <2>2. inject[Head(ops).tab][Head(ops).slot] \in Injection
    BY <1>1, <2>1
  <2>3. [inject[Head(ops).tab][Head(ops).slot] EXCEPT !.pc = "guard"].pc = "guard"
    BY <2>2 DEF Injection
  <2>4. CASE Valid(Head(ops))
    <3>1. inject' = [inject EXCEPT ![Head(ops).tab][Head(ops).slot] =
                       [inject[Head(ops).tab][Head(ops).slot] EXCEPT !.pc = "guard"]]
      BY <1>7, <2>4 DEF ServePeek
    <3> QED
      BY <1>2, <2>1, <2>3, <3>1
  <2>5. CASE ~Valid(Head(ops))
    <3>1. inject' = [inject EXCEPT ![Head(ops).tab][Head(ops).slot] = NoFlow]
      BY <1>7, <2>5 DEF ServePeek
    <3> QED
      BY <1>1, <1>2, <2>1, <3>1
  <2> QED
    BY <2>4, <2>5
<1>8. CASE Kill
  BY <1>1, <1>8 DEF Kill
<1>9. CASE inject' = inject
  BY <1>9
<1>10. inject' # inject => \/ ServePeek \/ Kill
                          \/ \E s \in Tabs : \/ CheckTab(s) \/ PageLoads(s)
                                             \/ \E j \in 0..MaxDocs : InjectGuard(s, j) \/ InjectContent(s, j)
  BY DEF Next, vars, workerVars, Worker, Browser, OpenAndArm, CreateTab, ArmTab, ServeArm,
     ServeConsumeMiss, ServeConsume, Reply, ServeClear, ServeSweep, RunContentFill, Navigate,
     CloseTab, ClearState, Tick, Wake
<1> QED
  BY <1>3, <1>4, <1>5, <1>6, <1>7, <1>8, <1>9, <1>10

\* Every step keeps what the worker remembers.
LEMMA FlowStep ==
  ASSUME OpenFillInv, [Next]_vars
  PROVE  FlowInv'
<1>t. /\ open \in [Tabs -> Flow] /\ tab \in [Tabs -> Document]
      /\ asked \in Nat /\ cleared \in Nat /\ generation \in Nat /\ MaxDocs \in Nat
      /\ \A t \in Tabs : tab[t].doc \in Nat /\ open[t].asked \in Nat /\ open[t].generation \in Nat
  BY OpenFillAssumption DEF OpenFillInv, Types, Document, Flow
<1>1. cleared' <= asked'
  <2>1. CASE ServeClear
    <3>1. Head(ops).slot <= asked
      BY <2>1, HeadTyped DEF OpenFillInv, ServeClear, Head1, OpIsOurs
    <3> QED
      BY <2>1, <3>1 DEF ServeClear
  <2>2. CASE ClearState
    BY <1>t, <2>2 DEF ClearState, OpenFillInv, FlowInv
  <2>3. CASE cleared' = cleared /\ asked' = asked
    BY <2>3 DEF OpenFillInv, FlowInv
  <2> QED
    BY <2>1, <2>2, <2>3, Changes DEF ClearState
<1>2. ASSUME NEW t \in Tabs, ~Made(t)'
      PROVE  tab'[t].doc = 0 /\ \A k \in 0..MaxDocs : inject'[t][k].pc = "none"
  <2>1. ~Made(t) /\ tab[t].doc = 0 /\ \A k \in 0..MaxDocs : inject[t][k].pc = "none"
    BY <1>2, ClickStep DEF OpenFillInv, FlowInv
  <2>2. \A k \in 0..MaxDocs : inject'[t][k].pc = "none"
    BY <2>1, InjectStep
  <2>3. ASSUME NEW s \in Tabs,
               CreateTab(s) \/ PageLoads(s) \/ CloseTab(s) \/ (\E u \in Pages : Navigate(s, u))
                 \/ (\E k \in 0..MaxDocs : InjectGuard(s, k))
        PROVE  s # t
    <3>1. CASE CreateTab(s)
      BY <1>2, <1>t, <3>1 DEF CreateTab, Made, Flow
    <3>2. CASE PageLoads(s) \/ CloseTab(s)
      BY <2>1, <3>2 DEF PageLoads, CloseTab
    <3>3. ASSUME NEW u \in Pages, Navigate(s, u) PROVE tab[s].doc # 0
      BY <1>t, <3>3 DEF Navigate
    <3>4. ASSUME NEW k \in 0..MaxDocs, InjectGuard(s, k) PROVE inject[s][k].pc # "none"
      BY <3>4 DEF InjectGuard
    <3> QED
      BY <2>1, <2>3, <3>1, <3>2, <3>3, <3>4
  <2>4. ASSUME NEW s \in Tabs,
               CreateTab(s) \/ PageLoads(s) \/ CloseTab(s) \/ (\E u \in Pages : Navigate(s, u))
                 \/ (\E k \in 0..MaxDocs : InjectGuard(s, k))
        PROVE  tab'[t] = tab[t]
    BY <1>t, <2>3, <2>4 DEF CreateTab, PageLoads, CloseTab, Navigate, InjectGuard
  <2> QED
    BY <2>1, <2>2, <2>4, Changes
<1>3. ASSUME NEW t \in Tabs, open'[t].pc \in {"creating", "created"}
      PROVE  open'[t].asked + generation' = asked' + open'[t].generation
  <2>1. CASE open[t].pc \in {"creating", "created"}
    <3>1. /\ open[t].asked + generation = asked + open[t].generation
          /\ open'[t].asked = open[t].asked /\ open'[t].generation = open[t].generation
      BY <2>1, ClickStep DEF OpenFillInv, FlowInv
    <3>2. CASE ClearState
      <4>1. asked' = asked + 1 /\ generation' = generation + 1
        BY <3>2 DEF ClearState
      <4> QED
        BY <1>t, <3>1, <4>1
    <3>3. ~Kill
      <4>1. Kill => open'[t].pc = Lost(open[t].pc)
        BY <1>t DEF Kill, Flow
      <4> QED
        BY <1>3, <4>1 DEF Lost
    <3> QED
      BY <3>1, <3>2, <3>3, Changes
  <2>2. CASE open[t].pc \notin {"creating", "created"}
    <3>1. OpenAndArm(t)
      <4>1. ASSUME NEW s \in Tabs, OpenAndArm(s) \/ CreateTab(s), s # t PROVE open'[t].pc = open[t].pc
        BY <1>t, <4>1 DEF OpenAndArm, CreateTab
      <4>2. ASSUME NEW s \in Tabs, ArmTab(s) \/ CheckTab(s)
            PROVE  open'[t].pc \in {open[t].pc, "refused", "arming", "done"}
        <5>1. \E q \in {"refused", "arming", "done"} : open' = [open EXCEPT ![s].pc = q]
          BY <4>2 DEF ArmTab, CheckTab
        <5> QED
          BY <1>t, <5>1 DEF Flow
      <4>3. ~CreateTab(t)
        BY <2>2 DEF CreateTab
      <4>4. ServeArm => open'[t].pc \in {open[t].pc, "checking"}
        <5>1. ServeArm => open' = [open EXCEPT ![Head(ops).tab].pc = "checking"]
          BY DEF ServeArm
        <5> QED
          BY <1>t, <5>1 DEF Flow
      <4>5. Kill => open'[t].pc = Lost(open[t].pc)
        BY <1>t DEF Kill, Flow
      <4> QED
        BY <1>3, <2>2, <4>1, <4>2, <4>3, <4>4, <4>5, Changes DEF Lost
    <3> QED
      BY <1>t, <3>1 DEF OpenAndArm
  <2> QED
    BY <2>1, <2>2
<1>4. ASSUME NEW t \in Tabs, NEW k \in 0..MaxDocs, inject'[t][k].pc = "content", tab'[t].doc = 1
      PROVE  tab'[t].guarded
  <2>1. CASE tab' = [tab EXCEPT ![t].guarded = TRUE]
    BY <1>t, <2>1
  <2>2. CASE inject[t][k].pc = "content" /\ tab'[t] = tab[t]
    BY <1>4, <2>2 DEF OpenFillInv, FlowInv
  <2>3. CASE inject[t][k].pc = "content" /\ tab'[t] # tab[t]
    <3>1. Made(t)
      BY <2>3 DEF OpenFillInv, FlowInv
    <3>2. CASE tab[t].doc = 1
      <4>1. AskedOn(t, 1, tab[t].url)
        BY <2>3, <3>2 DEF AskedOn, OpenFillInv, FlowInv
      <4>2. tab[t].url \in Pages
        BY <1>t DEF Document
      <4> QED
        BY <1>4, <3>1, <4>1, <4>2, AskedStays DEF AskedOn
    <3>3. CASE tab[t].doc # 1
      <4>1. ASSUME NEW s \in Tabs, CreateTab(s) PROVE tab'[t] = tab[t]
        BY <1>t, <3>1, <4>1 DEF CreateTab, Made
      <4>2. ASSUME NEW s \in Tabs,
                   PageLoads(s) \/ CloseTab(s) \/ (\E u \in Pages : Navigate(s, u))
                     \/ (\E j \in 0..MaxDocs : InjectGuard(s, j))
            PROVE  tab'[t].doc \in {0, tab[t].doc} \/ (tab[t].doc # 0 /\ tab'[t].doc = tab[t].doc + 1)
        <5>1. CASE PageLoads(s)
          BY <1>t, <5>1 DEF PageLoads, Document
        <5>2. CASE CloseTab(s)
          BY <1>t, <5>2 DEF CloseTab, NoTab
        <5>3. ASSUME NEW u \in Pages, Navigate(s, u)
              PROVE  tab'[t] = tab[t] \/ (tab[t].doc # 0 /\ tab'[t].doc = tab[t].doc + 1)
          BY <1>t, <5>3 DEF Navigate
        <5>4. ASSUME NEW j \in 0..MaxDocs, InjectGuard(s, j)
              PROVE  tab' = tab \/ tab' = [tab EXCEPT ![s].guarded = TRUE]
          BY <5>4 DEF InjectGuard
        <5>5. tab' = [tab EXCEPT ![s].guarded = TRUE] => tab'[t].doc = tab[t].doc
          BY <1>t DEF Document
        <5> QED
          BY <4>2, <5>1, <5>2, <5>3, <5>4, <5>5
      <4>3. tab'[t] = tab[t] \/ tab'[t].doc \in {0, tab[t].doc}
              \/ (tab[t].doc # 0 /\ tab'[t].doc = tab[t].doc + 1)
        BY <4>1, <4>2, Changes
      <4>4. tab[t].doc \in Nat
        BY <1>t DEF Document
      <4> QED
        BY <1>4, <2>3, <3>3, <4>3, <4>4
    <3> QED
      BY <3>2, <3>3
  <2> QED
    BY <1>4, <2>1, <2>2, <2>3, InjectStep
<1>5. ASSUME NEW t \in Tabs, arms'[t] # None PROVE open'[t].asked >= cleared'
  <2>1. CASE arms[t] # None /\ ~ServeClear
    <3>1. open[t].pc # "unused" /\ open[t].asked >= cleared
      BY <2>1 DEF OpenFillInv, ArmInv, FlowInv
    <3> QED
      BY <2>1, <3>1, ClickStep, Changes
  <2>2. CASE ServeArm /\ Head(ops).tab = t
    <3>1. open[t].pc = "arming" /\ open[t].asked >= cleared /\ ~ServeClear
      BY <2>2, HeadTyped DEF OpenFillInv, ServeArm, ServeClear, Head1, OpIsOurs
    <3> QED
      BY <3>1, ClickStep, Changes
  <2> QED
    BY <1>5, <2>1, <2>2, ArmsStep
<1> QED
  BY <1>1, <1>2, <1>3, <1>4, <1>5 DEF FlowInv
-----------------------------------------------------------------------------
(* The way of an arm. *)

\* The taken arm is that of the oldest operation, which runs until it is answered.
LEMMA TakenStep ==
  ASSUME OpenFillInv, [Next]_vars, taken' # None
  PROVE  /\ alive' /\ ops # <<>> /\ ops' # <<>> /\ Head(ops') = Head(ops)
         /\ Head(ops).kind = "consume" /\ Head(ops).tab \in Tabs
         /\ taken'.url = Head(ops).url
         /\ \/ taken' = taken /\ taken # None
            \/ ServeConsume /\ arms[Head(ops).tab] # None
<1>1. CASE ServeConsume
  <2>1. /\ alive' = alive /\ alive /\ ops' = ops /\ ops # <<>> /\ Head(ops).kind = "consume"
        /\ taken' = arms[Head(ops).tab] /\ arms[Head(ops).tab] # None
        /\ arms[Head(ops).tab].url = Head(ops).url
    BY <1>1 DEF ServeConsume, Head1, Store!Take, workerVars
  <2>2. Head(ops).tab \in Tabs
    BY <2>1, HeadTyped DEF OpIsOurs, OpenFillInv
  <2> QED
    BY <1>1, <2>1, <2>2
<1>2. CASE ~ServeConsume
  <2>1. taken' = taken /\ taken # None
    BY <1>2 DEF Next, vars, storeVars, Worker, Browser, OpenAndArm, CreateTab, ArmTab, CheckTab,
       InjectGuard, InjectContent, ServeArm, ServePeek, ServeConsumeMiss, LookedUp, Reply, ServeClear,
       ServeSweep, RunContentFill, PageLoads, Navigate, CloseTab, ClearState, Tick, Wake, Kill,
       Store!Arm, Store!DropExpired, Store!Clear, Store!Sweep, Store!Deliver, Store!Tick, Store!Forfeit
  <2>2. alive /\ ops # <<>> /\ Head(ops).kind = "consume" /\ taken.url = Head(ops).url
    BY <2>1 DEF OpenFillInv, ArmInv
  <2>3. Head(ops).tab \in Tabs
    BY <2>2, HeadTyped DEF OpIsOurs, OpenFillInv
  <2>4. alive' /\ (ops' = ops \/ \E o : ops' = Append(ops, o))
    BY <1>2, <2>1, <2>2 DEF Next, vars, workerVars, Worker, Browser, OpenAndArm, CreateTab, ArmTab,
       CheckTab, StartInject, InjectGuard, InjectContent, ServeArm, ServePeek, ServeConsumeMiss, Reply,
       ServeClear, ServeSweep, Head1, RunContentFill, PageLoads, Navigate, CloseTab, ClearState, Awake,
       Tick, Wake, Kill, Store!Deliver, Store!Forfeit
  <2>5. \A o : Append(ops, o) # <<>> /\ Head(Append(ops, o)) = Head(ops)
    BY <2>2 DEF OpenFillInv, Types
  <2> QED
    BY <2>1, <2>2, <2>3, <2>4, <2>5
<1> QED
  BY <1>1, <1>2

\* Only a reply adds an answer, and only a content script that has one fills.
LEMMA AnswersStep ==
  ASSUME [Next]_vars
  PROVE  \/ UNCHANGED <<answers, fills>>
         \/ Reply /\ UNCHANGED <<fills, tab, arms, open>>
         \/ \E a \in answers : RunContentFill(a) /\ UNCHANGED tab
BY DEF Next, vars, Worker, Browser, OpenAndArm, CreateTab, ArmTab, CheckTab, InjectGuard, InjectContent,
   ServeArm, ServePeek, ServeConsumeMiss, ServeConsume, Reply, ServeClear, ServeSweep, RunContentFill,
   PageLoads, Navigate, CloseTab, ClearState, Tick, Wake, Kill, Store!Deliver

\* Where an arm or a click can still lead to a form of tab t.
Pending(t) ==
  \/ arms[t] # None
  \/ taken # None /\ Head(ops).tab = t
  \/ open[t].pc \in {"unused", "creating", "created", "arming"}

\* Nothing else leads to it again.
LEMMA PendingStep ==
  ASSUME OpenFillInv, [Next]_vars, NEW t \in Tabs
  PROVE  /\ Pending(t)' => Pending(t)
         /\ Pending(t)' /\ Reply => Head(ops).tab # t
         /\ open'[t].pc \in {"unused", "creating", "created", "arming"} => arms'[t] = None
         /\ taken' # None /\ Head(ops').tab = t =>
              arms'[t] = None /\ open'[t].pc \notin {"unused", "creating", "created", "arming"}
<1> DEFINE early(pc) == pc \in {"unused", "creating", "created", "arming"}
<1>1. early(open'[t].pc) => early(open[t].pc)
  BY ClickStep
<1>2. arms'[t] # None => \/ arms[t] # None /\ ~(ServeConsume /\ Head(ops).tab = t)
                         \/ ServeArm /\ Head(ops).tab = t
  BY ArmsStep
<1>3. ServeArm /\ Head(ops).tab = t => /\ open[t].pc = "arming" /\ open'[t].pc = "checking"
                                       /\ taken = None /\ taken' = None
  <2>1. ASSUME ServeArm PROVE open[Head(ops).tab].pc = "arming"
    BY <2>1, HeadTyped DEF OpenFillInv, ServeArm, Head1, OpIsOurs
  <2> QED
    BY <2>1 DEF ServeArm, Head1, Store!Arm, OpenFillInv, Types, Flow
<1>4. taken' # None => /\ Head(ops') = Head(ops)
                       /\ taken # None \/ (ServeConsume /\ arms[Head(ops).tab] # None)
  BY TakenStep
<1>5. /\ early(open[t].pc) => arms[t] = None
      /\ taken # None /\ Head(ops).tab = t => arms[t] = None /\ ~early(open[t].pc)
  BY DEF OpenFillInv, ArmInv
<1>6. Pending(t)' => Pending(t)
  BY <1>1, <1>2, <1>3, <1>4 DEF Pending
<1>7. early(open'[t].pc) => arms'[t] = None
  BY <1>1, <1>2, <1>3, <1>5
<1>8. taken' # None /\ Head(ops').tab = t => arms'[t] = None /\ ~early(open'[t].pc)
  BY <1>1, <1>2, <1>3, <1>4, <1>5
<1>9. Pending(t)' /\ Reply => Head(ops).tab # t
  <2>1. Reply => taken # None /\ taken' = None /\ arms' = arms /\ open' = open
    BY DEF Reply, Store!Deliver
  <2> QED
    BY <1>5, <2>1 DEF Pending
<1> QED
  BY <1>6, <1>7, <1>8, <1>9
\* Every step keeps an arm at one place.
LEMMA ArmStep ==
  ASSUME OpenFillInv, [Next]_vars
  PROVE  ArmInv'
<1>t. /\ \A a \in answers : a.tab \in Tabs /\ a.doc \in Nat /\ a.url \in Pages
      /\ \A f \in fills : f.answer.tab \in Tabs
  BY DEF OpenFillInv, Types, Answer, Fill
<1>p. \A t \in Tabs : Pending(t) => /\ \A a \in answers : a.tab # t
                                    /\ \A f \in fills : f.answer.tab # t
  BY DEF OpenFillInv, ArmInv, Pending
<1>r. Reply => /\ taken # None /\ Head(ops).tab \in Tabs /\ Pending(Head(ops).tab)
               /\ Made(Head(ops).tab) /\ AskedOn(Head(ops).tab, Head(ops).slot, Head(ops).url)
               /\ taken.url = Head(ops).url /\ Head(ops).slot \in Nat /\ Head(ops).url \in Pages
  <2> SUFFICES ASSUME Reply
               PROVE  /\ taken # None /\ Head(ops).tab \in Tabs /\ Pending(Head(ops).tab)
                      /\ Made(Head(ops).tab) /\ AskedOn(Head(ops).tab, Head(ops).slot, Head(ops).url)
                      /\ taken.url = Head(ops).url /\ Head(ops).slot \in Nat /\ Head(ops).url \in Pages
    OBVIOUS
  <2>1. taken # None /\ ops # <<>> /\ Head(ops).kind = "consume" /\ taken.url = Head(ops).url
    BY DEF Reply, Store!Deliver, OpenFillInv, ArmInv
  <2> QED
    BY <2>1, HeadTyped DEF OpIsOurs, OpenFillInv, Pending
<1>1. taken' # None => /\ alive' /\ ops' # <<>> /\ Head(ops').kind = "consume"
                       /\ taken'.url = Head(ops').url /\ arms'[Head(ops').tab] = None
  BY TakenStep, PendingStep
<1>2. ASSUME NEW t \in Tabs, Pending(t)'
      PROVE  /\ \A a \in answers' : a.tab # t
             /\ \A f \in fills' : f.answer.tab # t
  <2>1. Pending(t) /\ (Reply => Head(ops).tab # t)
    BY <1>2, PendingStep
  <2>2. CASE Reply
    BY <1>p, <2>1, <2>2, AnswersStep DEF Reply
  <2>3. ASSUME NEW a \in answers, RunContentFill(a)
        PROVE  /\ \A b \in answers' : b.tab # t
               /\ \A f \in fills' : f.answer.tab # t
    BY <1>p, <2>1, <2>3 DEF RunContentFill
  <2> QED
    BY <1>p, <2>1, <2>2, <2>3, AnswersStep
<1>3. ASSUME NEW a \in answers'
      PROVE  /\ AskedOn(a.tab, a.doc, a.url)'
             /\ \A b \in answers' : b.tab = a.tab => b = a
             /\ \A f \in fills' : f.answer.tab # a.tab
  <2>1. CASE a \in answers
    <3>1. /\ AskedOn(a.tab, a.doc, a.url)
          /\ \A b \in answers : b.tab = a.tab => b = a
          /\ \A f \in fills : f.answer.tab # a.tab
          /\ Made(a.tab)
      BY <1>p, <1>t, <2>1 DEF OpenFillInv, ArmInv, Pending, Made
    <3>2. AskedOn(a.tab, a.doc, a.url)'
      BY <1>t, <2>1, <3>1, AskedStays
    <3>3. CASE Reply
      <4>1. Head(ops).tab # a.tab
        BY <1>p, <1>r, <2>1, <3>3
      <4> QED
        BY <3>1, <3>2, <3>3, <4>1, AnswersStep DEF Reply
    <3>4. ASSUME NEW x \in answers, RunContentFill(x)
          PROVE  /\ \A b \in answers' : b.tab = a.tab => b = a
                 /\ \A f \in fills' : f.answer.tab # a.tab
      <4>1. x.tab # a.tab
        BY <1>3, <3>1, <3>4 DEF RunContentFill
      <4> QED
        BY <3>1, <3>4, <4>1 DEF RunContentFill
    <3> QED
      BY <3>1, <3>2, <3>3, <3>4, AnswersStep
  <2>2. CASE a \notin answers
    <3>1. /\ Reply /\ UNCHANGED <<fills, tab, open>>
          /\ answers' = answers \cup {a}
          /\ a.tab = Head(ops).tab /\ a.doc = Head(ops).slot /\ a.url = taken.url
      BY <1>3, <2>2, AnswersStep DEF Reply, RunContentFill
    <3>2. AskedOn(a.tab, a.doc, a.url)'
      BY <1>r, <3>1 DEF AskedOn
    <3>3. /\ \A b \in answers : b.tab # a.tab
          /\ \A f \in fills : f.answer.tab # a.tab
      BY <1>p, <1>r, <3>1
    <3> QED
      BY <3>1, <3>2, <3>3
  <2> QED
    BY <2>1, <2>2
<1>4. ASSUME NEW f \in fills'
      PROVE  /\ f.url = f.answer.url
             /\ f.answer.doc = 1 => f.guarded
             /\ \A g \in fills' : g.answer.tab = f.answer.tab => g = f
  <2>1. CASE fills' = fills
    BY <1>4, <2>1 DEF OpenFillInv, ArmInv
  <2>2. ASSUME NEW x \in answers, RunContentFill(x), fills' # fills
        PROVE  /\ f.url = f.answer.url
               /\ f.answer.doc = 1 => f.guarded
               /\ \A g \in fills' : g.answer.tab = f.answer.tab => g = f
    <3> DEFINE n == [answer |-> x, url |-> tab[x.tab].url, guarded |-> tab[x.tab].guarded]
    <3>1. fills' = fills \cup {n} /\ tab[x.tab].doc = x.doc
      BY <2>2 DEF RunContentFill
    <3>2. AskedOn(x.tab, x.doc, x.url) /\ \A g \in fills : g.answer.tab # x.tab
      BY DEF OpenFillInv, ArmInv
    <3>3. n.url = x.url /\ (x.doc = 1 => n.guarded) /\ n.answer = x
      BY <3>1, <3>2 DEF AskedOn
    <3>4. f \in fills => /\ f.url = f.answer.url
                         /\ f.answer.doc = 1 => f.guarded
                         /\ \A g \in fills : g.answer.tab = f.answer.tab => g = f
      BY DEF OpenFillInv, ArmInv
    <3> HIDE DEF n
    <3> QED
      BY <1>4, <3>1, <3>2, <3>3, <3>4
  <2> QED
    BY <2>1, <2>2, AnswersStep
<1> QED
  BY <1>1, <1>2, <1>3, <1>4, PendingStep DEF ArmInv, Pending

\* The invariant is inductive.
LEMMA InductiveOpenFill == Spec => []OpenFillInv
<1>1. Init => OpenFillInv
  <2> SUFFICES ASSUME Init PROVE OpenFillInv
    OBVIOUS
  <2>1. NoFlow \in Injection /\ NoTab \in Document /\ <<>> \in Seq(Op)
    BY OpenFillAssumption DEF NoFlow, NoTab, Injection, Document, Pages
  <2>2. [pc |-> "unused", generation |-> 0, asked |-> 0] \in Flow
    BY DEF Flow
  <2>3. Types
    BY <2>1, <2>2 DEF Init, Types, Store!Init
  <2>4. OpsInv /\ FlowInv /\ ArmInv
    BY DEF Init, Store!Init, OpsInv, FlowInv, ArmInv, Made, NoTab, NoFlow
  <2> QED
    BY <2>3, <2>4 DEF OpenFillInv
<1>2. OpenFillInv /\ [Next]_vars => OpenFillInv'
  BY TypesStep, OpsStep, FlowStep, ArmStep DEF OpenFillInv
<1> QED
  BY <1>1, <1>2, PTL DEF Spec

\* Type correctness: worker, tabs and store keep their types, whichever clicks,
\* reloads, logouts and kills come together.
THEOREM OpenFillTypes == Spec => []TypeOK
<1>1. OpenFillInv => TypeOK
  BY DEF OpenFillInv, Types, TypeOK, Flow, Document, Injection
<1> QED
  BY InductiveOpenFill, <1>1, PTL

\* One click, one form: a click fills at most one form, on the page it armed,
\* although scripts are injected for every document its tab completes (inject,
\* background.ts) and each of them asks to consume the arm (runContentFill).
THEOREM OneFill == Spec => []OneFillPerClick
<1>1. OpenFillInv => OneFillPerClick
  <2> SUFFICES ASSUME OpenFillInv, NEW f \in fills
               PROVE  /\ f.url = f.answer.url
                      /\ \A g \in fills : g.answer.tab = f.answer.tab => g = f
                      /\ \A a \in answers : a.tab # f.answer.tab
    BY DEF OneFillPerClick
  <2> QED
    BY DEF OpenFillInv, ArmInv
<1> QED
  BY InductiveOpenFill, <1>1, PTL

\* Logout: when the clear of a logout has run, no arm of an earlier click is in the
\* store or comes into it later (armGeneration, openAndArm of background.ts).
THEOREM LogoutForgets == Spec => []LogoutForgetsClicks
<1>1. OpenFillInv => LogoutForgetsClicks
  BY DEF OpenFillInv, FlowInv, LogoutForgetsClicks
<1> QED
  BY InductiveOpenFill, <1>1, PTL

\* Guard first: a form on the tab's first document is never filled before the
\* submission guard is in it (inject, background.ts).
THEOREM GuardFirst == Spec => []UnreloadedFormIsGuarded
<1>1. OpenFillInv => UnreloadedFormIsGuarded
  BY DEF OpenFillInv, ArmInv, UnreloadedFormIsGuarded
<1> QED
  BY InductiveOpenFill, <1>1, PTL
=============================================================================
