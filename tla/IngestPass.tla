------------------------------- MODULE IngestPass -------------------------------
(***************************************************************************)
(* The ingest pass and what drives it: the runner with its breakers and    *)
(* conditional caches (ingest/runner.go, conditionalfetch.go), the job     *)
(* table with its staleness sweep (ingest/pgxstore.go), the controller of  *)
(* the startup backfill and the on-demand trigger (ingestctl), and the     *)
(* periodic jobs of the queue (queue.go, cmd/api/main.go).                 *)
(*                                                                         *)
(* Time is kept as ages, which Tick advances and which stop at the age     *)
(* beyond which they make no difference.  The boards change, answer or     *)
(* fail while a pass reads them page by page.                              *)
(***************************************************************************)
EXTENDS SourceFetch, JobSearch

CONSTANTS
  Worlds,       \* [cfg, boards, down, faults, changes]: the initial worlds
  Queries,      \* the feed queries of SearchAgrees
  MaxFailures,  \* consecutive failures that open a breaker (3)
  Cooldown,     \* ticks for which it stays open (10 minutes)
  StaleAfter,   \* ticks after which an unseen listing is swept (48 hours)
  MinGap,       \* ticks between two triggered passes (1 minute)
  Target,       \* active listings below which a start backfills
  Watched       \* the keys of ListedJobIsShown

\* The figures and the dates of a posting are numbers or missing.
IsPosting(p) ==
  /\ {p.pay.min, p.pay.max} \subseteq {Nil} \cup Int /\ p.pay.text.nums \in Seq(Int)
  /\ p.dates \in Seq({p.dates[i] : i \in DOMAIN p.dates}) /\ p.dates # <<>>
  /\ \A i \in DOMAIN p.dates : p.dates[i] # Nil => p.dates[i].at \in Int

\* The ages have limits, and a world shows a board for every source that it registers.
ASSUME IngestAssumption == {MaxFailures, Cooldown, StaleAfter, MinGap} \subseteq Nat
ASSUME WorldsAssumption ==
  \A w \in Worlds :
    LET sources == BuildRegistry(w.cfg) IN
    /\ w = [cfg |-> w.cfg, boards |-> w.boards, down |-> w.down, faults |-> w.faults,
            changes |-> w.changes]
    /\ {w.faults, w.changes} \subseteq Nat
    /\ \A i \in DOMAIN sources :
         LET board == w.boards[sources[i].id] IN
         /\ sources[i].limit \in Nat \ {0}
         /\ sources[i].kind \in PageKinds \cup ATSKinds
         /\ sources[i].id \in DOMAIN w.boards /\ board \in Seq({board[j] : j \in DOMAIN board})
         /\ \A j \in DOMAIN board : IsPosting(board[j])
\* The figures of a query are numbers.
ASSUME QueriesAssumption ==
  \A q \in Queries :
    /\ DOMAIN q = {"search", "payMin", "payMax", "location", "remote", "employment", "source",
                   "maxYears", "after", "skills"}
    /\ {q.payMin, q.payMax, q.maxYears, q.after} \subseteq {Nil} \cup Int

VARIABLES
  world,     \* the chosen world; faults and changes are what is left of its budgets
  registry,  \* the registered sources, in order
  boards,    \* what each board shows
  rows,      \* the job table: key -> row with age (since updated_at) and stale
  served,    \* key -> age of the last time its board showed it and it was stored
  breaker,   \* source -> [failures, opened (age)]
  cache,     \* source -> the postings of the last 200 answer, or Nil
  ctl,       \* controller: [state, since (age of lastRun)]
  job,       \* the periodic ingest job: "none", "due", "waiting" or "running"
  alive,     \* the context of the periodic job is neither canceled nor timed out
  pass       \* the pass that holds runMu, or Idle
vars == <<world, registry, boards, rows, served, breaker, cache, ctl, job, alive, pass>>

Older(age, limit) == IF age < limit THEN age + 1 ELSE age
Swept == StaleAfter + 1  \* the age past StaleAfter
Ids == {registry[i].id : i \in DOMAIN registry}
Idle == [owner |-> "none"]
StartOfFetch == [kept |-> <<>>, at |-> 0, done |-> FALSE]
Visit(owner, index, age) ==
  [owner |-> owner, index |-> index, age |-> age, step |-> "fetch", fetch |-> StartOfFetch,
   begun |-> <<>>, shown |-> {}, lost |-> {}, since |-> 0, persistErr |-> FALSE]
Spend(n) == [world EXCEPT !.faults = @ - n]

Active(k) == k \in DOMAIN rows /\ ~rows[k].stale
RealActiveCount == Cardinality({k \in DOMAIN rows : ~rows[k].stale})
Live == pass.owner = "queue" => alive

-----------------------------------------------------------------------------
(* The job table *)

RowFields == {"source", "url", "key", "title", "company", "location", "remote", "min", "max",
              "seniority", "employment", "years", "requirements", "posted", "age", "stale"}
Fresh(row) == [f \in RowFields |-> CASE f = "age" -> 0 [] f = "stale" -> FALSE [] OTHER -> row[f]]
Upsert(row) ==
  rows' = [k \in DOMAIN rows \cup {row.key} |-> IF k = row.key THEN Fresh(row) ELSE rows[k]]
SweepStale(table) ==
  [k \in DOMAIN table |-> [table[k] EXCEPT !.stale = @ \/ table[k].age > StaleAfter]]

-----------------------------------------------------------------------------
(* Breakers and caches *)

Closed == [failures |-> 0, opened |-> 0]
Allow(b) == b.failures < MaxFailures \/ b.opened >= Cooldown
\* A breaker opens at the start of the pass in which the failure happened.
OnFailure(b, now) ==
  [failures |-> Lesser(b.failures + 1, MaxFailures),
   opened |-> IF b.failures + 1 >= MaxFailures THEN now ELSE b.opened]

\* Mutant of Replay: an unchanged board yields no listings.
ReplayNothing(b, cached) == <<>>
\* What a 304 answer yields.
Replay(b, cached) == NamedOf(b, cached)

-----------------------------------------------------------------------------
(* One pass *)

b == registry[pass.index]
LocalRows(src, p) ==
  {row \in UNION {Normalize(raw) : raw \in {RawJob(src, p)}} : IsJabodetabekOrRemote(row)}
Keys(src, postings) == UNION {{row.key : row \in LocalRows(src, postings[i])} : i \in DOMAIN postings}
Fetching == pass.owner # "none" /\ pass.index \in DOMAIN registry /\ pass.step = "fetch"
Storing == pass.owner # "none" /\ pass.step = "store"
NextSource(p) == [Visit(p.owner, p.index + 1, p.age) EXCEPT !.persistErr = p.persistErr]
\* Mutant of AfterFailure: a source that fails ends the pass.
AbortPass(p) == [Visit(p.owner, Len(registry) + 1, p.age) EXCEPT !.persistErr = p.persistErr]
AfterFailure(p) == NextSource(p)

SkipSource ==
  /\ Fetching /\ pass.fetch = StartOfFetch /\ ~Allow(breaker[b.id])
  /\ pass' = NextSource(pass)
  /\ UNCHANGED <<world, registry, boards, rows, served, breaker, cache, ctl, job, alive>>

FetchFails ==
  /\ Fetching /\ (pass.fetch = StartOfFetch => Allow(breaker[b.id]))
  /\ \/ (b.id \in world.down \/ ~Live) /\ UNCHANGED world
     \/ world.faults > 0 /\ world' = Spend(1)
  /\ breaker' = [breaker EXCEPT ![b.id] = OnFailure(@, pass.age)]
  /\ pass' = AfterFailure(pass)
  /\ UNCHANGED <<registry, boards, rows, served, cache, ctl, job, alive>>

Fetched(kept, shown, begun) ==
  /\ breaker' = [breaker EXCEPT ![b.id] = Closed]
  /\ pass' = [pass EXCEPT !.step = "store", !.fetch = [StartOfFetch EXCEPT !.kept = kept],
                          !.shown = shown, !.begun = begun, !.since = 0]

\* A page of a board read by request, with whatever total the reply carries; one that
\* falls short is a fault of the board, and the fetch owes nothing after it.
FetchPage ==
  /\ Fetching /\ b.kind \in PageKinds /\ (pass.fetch = StartOfFetch => Allow(breaker[b.id]))
  /\ b.id \notin world.down /\ Live
  /\ \E answer \in {[read |-> ReadPage(b, pass.fetch, boards[b.id], count),
                      short |-> FallsShort(b, boards[b.id], count)] :
                       count \in 0 .. Len(boards[b.id]) + 1} :
       LET read == answer.read
           begun == IF ~answer.short /\ (pass.fetch = StartOfFetch \/ pass.begun = boards[b.id])
                    THEN boards[b.id] ELSE Nil IN
       /\ IF answer.short THEN world.faults > 0 /\ world' = Spend(1) ELSE UNCHANGED world
       /\ IF read.done THEN Fetched(read.kept, Keys(b, read.kept), begun)
          ELSE pass' = [pass EXCEPT !.fetch = read, !.begun = begun] /\ UNCHANGED breaker
  /\ UNCHANGED <<registry, boards, rows, served, cache, ctl, job, alive>>

\* A conditional request: 200 with the board, or 304 when it is the cached one.
FetchConditional ==
  /\ Fetching /\ b.kind \in ATSKinds /\ Allow(breaker[b.id])
  /\ b.id \notin world.down /\ Live
  /\ \E listed \in {NamedOf(b, boards[b.id])} :
       \/ /\ cache' = [cache EXCEPT ![b.id] = boards[b.id]]
          /\ Fetched(listed, Keys(b, listed), boards[b.id])
       \/ /\ cache[b.id] = boards[b.id]
          /\ Fetched(Replay(b, cache[b.id]), Keys(b, listed), boards[b.id])
          /\ UNCHANGED cache
  /\ UNCHANGED <<world, registry, boards, rows, served, ctl, job, alive>>

NextRows == LocalRows(b, Head(pass.fetch.kept))
Stored == [pass EXCEPT !.fetch.kept = Tail(@)]
DropRaw ==
  /\ Storing /\ pass.fetch.kept # <<>>
  /\ NextRows = {}
  /\ pass' = Stored
  /\ UNCHANGED <<world, registry, boards, rows, served, breaker, cache, ctl, job, alive>>
StoreRaw ==
  /\ Storing /\ pass.fetch.kept # <<>>
  /\ \E row \in NextRows :
       \/ Live /\ Upsert(row) /\ pass' = Stored /\ UNCHANGED world
       \/ /\ IF Live THEN world.faults > 0 /\ world' = Spend(1) ELSE UNCHANGED world
          /\ pass' = [Stored EXCEPT !.lost = @ \cup {row.key}, !.persistErr = TRUE]
          /\ UNCHANGED rows
  /\ UNCHANGED <<registry, boards, served, breaker, cache, ctl, job, alive>>
SourceDone ==
  /\ Storing /\ pass.fetch.kept = <<>>
  /\ served' = [k \in DOMAIN served \cup (pass.shown \ pass.lost) |->
                  IF k \in pass.shown \ pass.lost THEN pass.since ELSE served[k]]
  /\ pass' = NextSource(pass)
  /\ UNCHANGED <<world, registry, boards, rows, breaker, cache, ctl, job, alive>>

\* Mutant of Released: the controller stays claimed once a pass has run.
ReleasedNever(c) == c
Released(c) == [c EXCEPT !.state = "idle"]
\* The end of RunOnce and of whoever called it; a periodic job whose pass could not
\* store a listing returns an error, and the queue runs it again.
PassEnds ==
  /\ pass.owner # "none" /\ pass.index \notin DOMAIN registry
  /\ pass' = Idle
  /\ IF pass.owner = "queue"
     THEN job' = (IF pass.persistErr THEN "due" ELSE "none") /\ UNCHANGED ctl
     ELSE ctl' = Released(ctl) /\ UNCHANGED job
  /\ UNCHANGED <<world, registry, boards, rows, served, breaker, cache, alive>>

-----------------------------------------------------------------------------
(* Who starts a pass *)

BeginControllerPass ==
  /\ pass = Idle /\ ctl.state = "waiting"
  /\ pass' = Visit("controller", 1, 0) /\ ctl' = [ctl EXCEPT !.state = "running"]
  /\ UNCHANGED <<world, registry, boards, rows, served, breaker, cache, job, alive>>
BeginQueuePass ==
  /\ pass = Idle /\ job = "waiting"
  /\ pass' = Visit("queue", 1, 0) /\ job' = "running"
  /\ UNCHANGED <<world, registry, boards, rows, served, breaker, cache, ctl, alive>>

\* Trigger, called by POST /ingest/run with the token: refused while a pass of the
\* controller is on its way and within MinGap of the last accepted trigger.
Trigger ==
  /\ ctl.state = "idle" /\ ctl.since >= MinGap
  /\ ctl' = [state |-> "waiting", since |-> 0]
  /\ UNCHANGED <<world, registry, boards, rows, served, breaker, cache, job, alive, pass>>

\* The scheduler inserts the periodic job, a worker takes it with a fresh context;
\* the context can end at any time, also while the job waits for runMu.
PeriodicIngest ==
  /\ job = "none" /\ job' = "due"
  /\ UNCHANGED <<world, registry, boards, rows, served, breaker, cache, ctl, alive, pass>>
WorkIngest ==
  /\ job = "due" /\ job' = "waiting" /\ alive' = TRUE
  /\ UNCHANGED <<world, registry, boards, rows, served, breaker, cache, ctl, pass>>
ContextEnds ==
  /\ job \in {"waiting", "running"} /\ alive /\ world.faults > 0
  /\ alive' = FALSE /\ world' = Spend(1)
  /\ UNCHANGED <<registry, boards, rows, served, breaker, cache, ctl, job, pass>>

Sweep ==
  /\ rows' = SweepStale(rows)
  /\ UNCHANGED <<world, registry, boards, served, breaker, cache, ctl, job, alive, pass>>

\* The server dies and starts again: the table and the queue survive.
StartBackfill == IF RealActiveCount < Target THEN [state |-> "waiting", since |-> 0]
                 ELSE [state |-> "idle", since |-> MinGap]
Restart ==
  /\ world.faults > 0 /\ world' = Spend(1)
  /\ pass' = Idle /\ ctl' = StartBackfill
  /\ breaker' = [id \in Ids |-> Closed] /\ cache' = [id \in Ids |-> Nil]
  /\ job' = IF job = "none" THEN "none" ELSE "due"
  /\ UNCHANGED <<registry, boards, rows, served, alive>>

-----------------------------------------------------------------------------
(* The world *)

Withdraw ==
  /\ world.changes > 0 /\ world' = [world EXCEPT !.changes = @ - 1]
  /\ \E id \in Ids : \E i \in DOMAIN boards[id] : boards' = [boards EXCEPT ![id] = RemoveAt(@, i)]
  /\ UNCHANGED <<registry, rows, served, breaker, cache, ctl, job, alive, pass>>
Republish ==
  /\ \E id \in Ids : boards[id] # world.boards[id] /\ boards' = [boards EXCEPT ![id] = world.boards[id]]
  /\ UNCHANGED <<world, registry, rows, served, breaker, cache, ctl, job, alive, pass>>
Tick ==
  /\ rows' = [k \in DOMAIN rows |-> [rows[k] EXCEPT !.age = Older(@, Swept)]]
  /\ served' = [k \in DOMAIN served |-> Older(served[k], Swept)]
  /\ breaker' = [id \in Ids |-> IF breaker[id].failures < MaxFailures THEN breaker[id]
                                ELSE [breaker[id] EXCEPT !.opened = Older(@, Cooldown)]]
  /\ ctl' = [ctl EXCEPT !.since = Older(@, MinGap)]
  /\ pass' = IF pass = Idle THEN Idle
             ELSE [pass EXCEPT !.age = Older(@, Cooldown),
                               !.since = IF pass.step = "store" THEN Older(@, Swept) ELSE @]
  /\ UNCHANGED <<world, registry, boards, cache, job, alive>>

Init ==
  /\ world \in Worlds /\ registry = BuildRegistry(world.cfg) /\ boards = world.boards
  /\ rows = <<>> /\ served = <<>>
  /\ breaker = [id \in Ids |-> Closed] /\ cache = [id \in Ids |-> Nil]
  /\ ctl = [state |-> "waiting", since |-> 0] /\ job = "none" /\ alive = TRUE /\ pass = Idle

PassStep == SkipSource \/ FetchFails \/ FetchPage \/ FetchConditional \/ DropRaw \/ StoreRaw
            \/ SourceDone \/ PassEnds
Next ==
  \/ SkipSource \/ FetchFails \/ FetchPage \/ FetchConditional \/ DropRaw \/ StoreRaw
  \/ SourceDone \/ PassEnds \/ BeginControllerPass \/ BeginQueuePass \/ Trigger
  \/ PeriodicIngest \/ WorkIngest \/ ContextEnds \/ Sweep \/ Restart
  \/ Withdraw \/ Republish \/ Tick

\* The process runs and time passes: a pass goes on, the queue schedules its job and
\* hands it to a worker, a waiting pass gets runMu.  Triggers, board changes and
\* faults may never happen, nor need a sweep.
Fairness ==
  /\ WF_pass(PassStep) /\ WF_vars(BeginControllerPass \/ BeginQueuePass)
  /\ WF_vars(PeriodicIngest) /\ WF_vars(WorkIngest) /\ WF_vars(Tick)
Spec == Init /\ [][Next]_vars /\ Fairness

-----------------------------------------------------------------------------
(* Properties *)

Ages(limit) == 0..limit
\* Every variable keeps its type: the shape of the rows, the ages within the bounds
\* at which they stop, a breaker within its failures, a cache that holds postings.
TypeOK ==
  /\ \A k \in DOMAIN rows : /\ DOMAIN rows[k] = RowFields /\ rows[k].key = k
                           /\ rows[k].age \in Ages(Swept) /\ rows[k].stale \in BOOLEAN
  /\ \A k \in DOMAIN served : served[k] \in Ages(Swept)
  /\ breaker \in [Ids -> [failures : 0..MaxFailures, opened : Ages(Cooldown)]]
  /\ ctl \in [state : {"idle", "waiting", "running"}, since : Ages(MinGap)]
  /\ job \in {"none", "due", "waiting", "running"} /\ alive \in BOOLEAN
  /\ pass.owner \in {"none", "controller", "queue"}
  /\ pass.owner = "controller" <=> ctl.state = "running"
  /\ pass.owner = "queue" <=> job = "running"

\* A listing that its board has shown to a pass, also by answering that nothing
\* changed, and that the pass could store, is not swept before StaleAfter is over:
\* SCR-4, whatever passes, sweeps, restarts and failures of other sources come
\* between (conditionalfetch.go, pgxstore.go Upsert and SweepStale).
SeenIsActive ==
  \A k \in DOMAIN served : served[k] <= StaleAfter => Active(k)

\* The feed filters alike in SQL and in Go, and what the feed of a query shows the
\* alerts of the same query find, for every row the passes store (pgxstore.go
\* feedWhere, feed/query.go matches, m5/service.go matches).
ValidQueries == {q \in Queries : ValidateJobQuery(q)}
SearchAgrees ==
  \A k \in DOMAIN rows : \A q \in ValidQueries :
    /\ FeedWhere(rows[k], q) <=> FeedMatches(rows[k], q)
    /\ FeedMatches(rows[k], q) => AlertMatches(rows[k], q)

\* What the sources owe: the first limit postings that are not dropped; Jooble,
\* Careerjet, Remotive and Jobicy count the dropped ones too, and the last two are
\* asked for no more than a page.
Owed(src, board) ==
  LET dropped == \E i \in DOMAIN board : ~Named(src, board[i]) IN
  IF dropped /\ src.kind \in {"jooble", "careerjet", "remotive", "jobicy"} THEN Nil
  ELSE IF src.kind \in ATSKinds THEN NamedOf(src, board)
  ELSE IF src.kind \in {"remotive", "jobicy"} THEN Slice(board, 1, Lesser(src.limit, PageSize))
  ELSE Slice(NamedOf(src, board), 1, src.limit)
\* A fetch of a board that did not change meanwhile returns each of its postings once,
\* in order, up to the limit, whatever the page size and the postings without a name,
\* with a total that is right, too large or, for Kalibrr, Jooble and Careerjet, missing
\* (the Fetch loops of the sources); FallsShort tells the other totals.
WholeBoardIsFetched ==
  Storing /\ pass.begun # Nil /\ pass.begun = boards[b.id] =>
    LET owed == Owed(b, pass.begun) IN
    owed # Nil =>
      /\ Len(pass.fetch.kept) <= Len(owed)
      /\ pass.fetch.kept = SubSeq(owed, Len(owed) - Len(pass.fetch.kept) + 1, Len(owed))
      /\ pass.shown = Keys(b, owed)

\* The pay that a row states is rupiah pay that a posting of that job states; only
\* a card without stated pay shows an estimate, labelled as one ("the system never
\* fabricates a figure", normalize.go ParseSalaryIDR; feed/service.go toCard).
StatedBy(p, row) ==
  p.pay.currency = "IDR" /\ row.min \in {p.pay.min, p.pay.max} /\ row.max \in {p.pay.min, p.pay.max}
StatedPayOnly ==
  \A k \in DOMAIN rows :
    LET row == rows[k]  card == ToCard(row) IN
    /\ card.stated => /\ row.min <= row.max /\ ~card.estimated
                      /\ \E id \in Ids : \E i \in DOMAIN world.boards[id] :
                           LET p == world.boards[id][i] IN p.title = row.title /\ StatedBy(p, row)
    /\ card.estimated => card.label[1] = "estimated" /\ card.label[2] <= card.label[3]

\* Where this can be relied on: a text that a source reads as rupiah pay states the pay
\* of its posting, and a source that prints the numbers of a posting with %g gets numbers
\* of at most six digits, which are printed as they are.
ReadsPay(src) == src.kind \in {"jooble", "careerjet", "remotive", "ashby"}
PrintsPay(src, p) ==
  src.kind \in {"jobicy", "lever", "workable"} \/ (src.kind = "careerjet" /\ p.pay.text = NoText)
Legible(src, p) ==
  LET read == ParseSalaryIDR(p.pay.text)
      stated == {p.pay.min, p.pay.max} IN
  /\ ReadsPay(src) /\ read.min # Nil => p.pay.currency = "IDR" /\ {read.min, read.max} \subseteq stated
  /\ PrintsPay(src, p) /\ p.pay.currency = "IDR" => \A n \in stated : n = Nil \/ n < 1000000
PayIsLegible(w) ==
  LET sources == BuildRegistry(w.cfg) IN
  \A i \in DOMAIN sources :
    LET board == w.boards[sources[i].id] IN \A j \in DOMAIN board : Legible(sources[i], board[j])

\* A listing that stays on a board that answers is shown again and again, even if
\* another source fails for ever and triggers, sweeps and faults come between
\* (SCR-1b and SCR-4; runner.go RunOnce, ingestctl Trigger, queue.go Work).
Listed(k) ==
  \E i \in DOMAIN registry :
    LET owed == Owed(registry[i], boards[registry[i].id]) IN
    registry[i].id \notin world.down /\ owed # Nil /\ k \in Keys(registry[i], owed)
ListedJobIsShown == \A k \in Watched : []<>(Listed(k) => Active(k))
=============================================================================
