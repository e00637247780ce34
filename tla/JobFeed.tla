-------------------------------- MODULE JobFeed ---------------------------------
(***************************************************************************)
(* The pages of the feed: handleFeed of internal/feed over the job table   *)
(* and the user's job states, and the pager of web's JobFeed.tsx, whose    *)
(* cards dismiss jobs.  The query, the order and the score are JobSearch;  *)
(* the requests that change job states are ApplicationTracker.             *)
(***************************************************************************)
EXTENDS ApplicationTracker, JobSearch

CONSTANTS
  Rows,       \* the active rows of the job table, one for each listed job
  Rank,       \* the order of their titles and keys
  Skills,     \* of the user's profile, Nil if it cannot be read
  Queries,    \* the filters that a reader sets
  PageSize,   \* PAGE_SIZE of the web
  Readers     \* whether the readers are signed in

\* A listed job has one row; the order of titles and keys tells any two rows apart.
ASSUME FeedAssumption ==
  /\ IsFiniteSet(Rows) /\ {row.key : row \in Rows} = Listed
  /\ \A row \in Rows : /\ Rank[row.key] \in Int /\ row.posted \in {Nil} \cup Int
                        /\ IsFiniteSet(DOMAIN row.requirements)
  /\ \A r1, r2 \in Rows : Rank[r1.key] = Rank[r2.key] => r1 = r2
  /\ PageSize \in 1 .. MaxLimit /\ Readers \subseteq BOOLEAN

VARIABLES
  view,   \* of the page: the reader, the query, the offset asked for, the state of
          \* its fetch, the total and the cards that it shows
  walk    \* history: the jobs shown since the filters were set, and whether the
          \* feed and the reader kept still meanwhile

feedTables == <<view, walk>>
feedVars == <<trackerVars, feedTables>>

-----------------------------------------------------------------------------
(* handleFeed *)

\* parseQuery refuses crossed or negative bounds and caps the limit.
ParseQuery(q, limit, offset) ==
  IF ~ValidateJobQuery(q) THEN Nil
  ELSE [query |-> q, limit |-> IF limit > MaxLimit THEN MaxLimit ELSE limit, offset |-> offset]

\* SearchFeedForUser leaves out what a signed-in user has dismissed.
Visible == {row \in Rows : ~(view.signedIn /\ jobStates[row.key].dismissed)}
Matching == {row \in Visible : FeedWhere(row, view.query)}

\* Mutant of Result: the total counts the rows of the page only.
ResultOfPage(asked) ==
  LET page == SearchFeed(Visible, asked.query, asked.limit, asked.offset, Rank) IN
  [page EXCEPT !.total = Len(page.jobs)]

Result(asked) == SearchFeed(Visible, asked.query, asked.limit, asked.offset, Rank)

Asked == ParseQuery(view.query, PageSize, view.offset)

\* The two statements of searchFeed: count, then page.
CountJobs ==
  /\ view.pc = "count"
  /\ view' = IF Asked = Nil THEN [view EXCEPT !.pc = "error"]
             ELSE [view EXCEPT !.pc = "page", !.counted = Result(Asked).total]
  /\ UNCHANGED <<trackerVars, walk>>

ReadPage ==
  /\ view.pc = "page"
  /\ view' = [view EXCEPT !.pc = "cards", !.rows = Result(Asked).jobs]
  /\ UNCHANGED <<trackerVars, walk>>

\* Each card gets the state of its job and its score; the response arrives.
Card(row) ==
  [card |-> ToCard(row), applied |-> view.signedIn /\ jobStates[row.key].applied,
   score |-> IF view.signedIn THEN MatchScore(row, Skills) ELSE 0]

ReadCards ==
  /\ view.pc = "cards"
  /\ view' = [view EXCEPT !.pc = "ready", !.total = view.counted, !.rows = <<>>,
                          !.cards = {Card(view.rows[i]) : i \in DOMAIN view.rows}]
  /\ walk' = [walk EXCEPT !.seen = @ \cup {view.rows[i].key : i \in DOMAIN view.rows}]
  /\ UNCHANGED trackerVars

FeedFails ==
  /\ view.pc \in {"count", "page", "cards"}
  /\ failures < MaxFailures /\ failures' = failures + 1
  /\ view' = [view EXCEPT !.pc = "error", !.rows = <<>>]
  /\ UNCHANGED <<req, trackerTables, walk>>

-----------------------------------------------------------------------------
(* The pager: a change of the query or of the offset aborts the fetch under way *)

\* The old page stays for the time of the debounce.
SendQuery ==
  /\ view.pc = "debounce"
  /\ view' = [view EXCEPT !.pc = "count"]
  /\ UNCHANGED <<trackerVars, walk>>

SetFilter(q) ==
  /\ q # view.query
  /\ view' = [view EXCEPT !.query = q, !.offset = 0, !.pc = "debounce", !.rows = <<>>]
  /\ walk' = [seen |-> {}, still |-> TRUE]
  /\ UNCHANGED trackerVars

\* A reader who turns before the page was fetched has not seen it.
Turn(offset) ==
  /\ view.pc \in {"ready", "debounce"} /\ view.total > PageSize
  /\ view' = [view EXCEPT !.offset = offset, !.pc = "debounce"]
  /\ walk' = [walk EXCEPT !.still = @ /\ view.pc = "ready"]
  /\ UNCHANGED trackerVars
NextPage == view.offset + PageSize < view.total /\ Turn(view.offset + PageSize)
PreviousPage ==
  view.offset > 0 /\ Turn(IF view.offset > PageSize THEN view.offset - PageSize ELSE 0)

-----------------------------------------------------------------------------
(* The buttons of a card, and the requests that they make *)

Shown == {c.card.key : c \in view.cards}
CardOps == {"dismiss", "applied"}
\* Only the API restores a job.
AskJobState(r, op, j) ==
  /\ op \in CardOps => view.pc \in {"ready", "debounce"} /\ view.signedIn /\ j \in Shown
  /\ AskTracker(r, op, j)
  /\ UNCHANGED feedTables

\* The answer removes the card if it is still shown; a job that is hidden or
\* shown moves those after it to other pages.
JobStateStepSeen(r) ==
  /\ JobStateStep(r) \/ TrackerCallFails(r)
  /\ view' = IF req[r].op = "dismiss" /\ req'[r].answer = "ok"
             THEN [view EXCEPT !.cards = {c \in @ : c.card.key # Job(r)}] ELSE view
  /\ walk' = [walk EXCEPT !.still = @ /\ \A row \in Rows :
                jobStates'[row.key].dismissed = jobStates[row.key].dismissed]

-----------------------------------------------------------------------------

FeedTablesInit ==
  /\ view \in [signedIn : Readers, query : Queries, offset : {0}, pc : {"debounce"},
               counted : {0}, total : {0}, rows : {<<>>}, cards : {{}}]
  /\ walk = [seen |-> {}, still |-> TRUE]

FeedInit == TrackerInit /\ FeedTablesInit

FeedNext ==
  \/ CountJobs \/ ReadPage \/ ReadCards \/ FeedFails \/ SendQuery \/ NextPage \/ PreviousPage
  \/ \E q \in Queries : SetFilter(q)
  \/ \E r \in Requests :
       \/ \E op \in StateOps, j \in Jobs : AskJobState(r, op, j)
       \/ JobStateStepSeen(r)

FeedSpec == FeedInit /\ [][FeedNext]_feedVars

-----------------------------------------------------------------------------
(* Properties *)

Cards == [card : {ToCard(row) : row \in Rows}, applied : BOOLEAN, score : 0 .. 100]
FeedTypeOK ==
  /\ view \in [signedIn : BOOLEAN, query : Queries, offset : Nat, counted : Nat, total : Nat,
               pc : {"debounce", "count", "page", "cards", "ready", "error"},
               rows : Seq(Rows), cards : SUBSET Cards]
  /\ walk \in [seen : SUBSET Listed, still : BOOLEAN]

\* A reader who turns page after page to the last one has been shown every job that
\* matches, if no job was dismissed or restored meanwhile (feed/service.go:103 and
\* JobFeed.tsx:321: the offset counts jobs, so a dismissal moves those after it).
PagesCoverFeed ==
  view.pc = "ready" /\ walk.still /\ view.offset + PageSize >= view.total
    => {row.key : row \in Matching} \subseteq walk.seen
=============================================================================
