------------------------------ MODULE MatchAlerts -------------------------------
(***************************************************************************)
(* Saved filters and the mails about new jobs that match them: the         *)
(* periodic pass over every user, started by the alert loop of cmd/api,    *)
(* and the notifications that users ask for (internal/m5/service.go,       *)
(* pgxstore.go).                                                           *)
(*                                                                         *)
(* A user who has a filter is verified, so the pass never skips one for    *)
(* that.  A job that a source dates in the future is left out.             *)
(***************************************************************************)
EXTENDS Requests, FiniteSets

CONSTANTS
  Filters,   \* identifiers of saved filters
  Users,
  Owner,     \* the user of each filter
  Selects,   \* the jobs that the query of each filter matches
  Loop,      \* the slot of the alert loop
  MaxTime    \* bound: the clock

ASSUME AlertsAssumption ==
  /\ Owner \in [Filters -> Users] /\ Selects \in [Filters -> SUBSET Jobs]
  /\ Loop \in Requests /\ MaxTime \in Nat /\ None \notin Nat

VARIABLES
  users,     \* accounts
  made,      \* filters that were created, deleted ones included
  filters,   \* [created, alerted] of each filter, None without a row
  stored,    \* active rows in jobs
  posted,    \* the dates of jobs, None for a job without one
  now,
  pass,      \* of the pass: the users to come, and the rows of the current user's filters
  told,      \* history: mails that counted a job, for each filter
  untouched, \* history: filters mailed and not touched since
  repeats,   \* history: filters that may repeat a job
  late       \* history: jobs that a touch has passed before it could see them

alertTables == <<users, made, filters, stored, posted, now>>
alertHistory == <<told, untouched, repeats, late>>
alertVars == <<requestVars, alertTables, pass, alertHistory>>

Times == 0 .. MaxTime
Dated == {j \in stored : posted[j] # None}

\* What a notification knows of its filter.
Row(f) == [filter |-> f, cutoff |-> IF filters[f].alerted = None THEN filters[f].created
                                    ELSE filters[f].alerted]
FiltersOf(u) == {f \in Filters : Owner[f] = u /\ filters[f] # None}
NoPass == [users |-> {}, rows |-> {}]

\* The end of a notification: the pass stops, or goes on with its next filter.
Stops(p, answer) ==
  IF p = Loop THEN req' = [req EXCEPT ![p] = Idle] /\ pass' = NoPass
              ELSE Answers(p, answer) /\ UNCHANGED pass
Notified(p) ==
  /\ IF p = Loop THEN Goes(p, "filter", None) ELSE Answers(p, "ok")
  /\ UNCHANGED pass
Breaks(p) == failures < MaxFailures /\ failures' = failures + 1 /\ Stops(p, "error")

AlertCallFails(p) ==
  /\ Running(p) /\ Breaks(p)
  /\ UNCHANGED <<alertTables, alertHistory>>

-----------------------------------------------------------------------------
(* The alert loop, NotifyAllMatches and NotifyNewMatches *)

StartPass ==
  /\ req[Loop].pc = "idle"
  /\ req' = [req EXCEPT ![Loop].pc = "user"]
  /\ pass' = [NoPass EXCEPT !.users = {Owner[f] : f \in {g \in Filters : filters[g] # None}}]
  /\ UNCHANGED <<failures, alertTables, alertHistory>>

\* UserByID: an account that was erased since the list ends the pass.
NextUser ==
  /\ req[Loop].pc = "user"
  /\ IF pass.users = {} THEN Stops(Loop, "ok")
     ELSE \E u \in pass.users :
            IF u \in users
            THEN Goes(Loop, "list", u) /\ pass' = [pass EXCEPT !.users = @ \ {u}]
            ELSE Stops(Loop, "error")
  /\ UNCHANGED <<failures, alertTables, alertHistory>>

ListFilters ==
  /\ req[Loop].pc = "list"
  /\ pass' = [pass EXCEPT !.rows = {Row(f) : f \in FiltersOf(req[Loop].seen)}]
  /\ Goes(Loop, "filter", None)
  /\ UNCHANGED <<failures, alertTables, alertHistory>>

NextFilter ==
  /\ req[Loop].pc = "filter"
  /\ IF pass.rows = {} THEN Goes(Loop, "user", None) /\ UNCHANGED pass
     ELSE \E row \in pass.rows :
            Goes(Loop, "look", row) /\ pass' = [pass EXCEPT !.rows = @ \ {row}]
  /\ UNCHANGED <<failures, alertTables, alertHistory>>

-----------------------------------------------------------------------------
(* handleNotifyFilter *)

AskNotify(r, f) ==
  /\ r # Loop /\ Owner[f] \in users
  /\ Begin(r, "notify", f, "filter")
  /\ UNCHANGED <<alertTables, pass, alertHistory>>

GetFilter(r) ==
  /\ r # Loop /\ req[r].pc = "filter"
  /\ IF filters[req[r].key] = None THEN Answers(r, "not_found")
     ELSE Goes(r, "look", Row(req[r].key))
  /\ UNCHANGED <<failures, alertTables, pass, alertHistory>>

-----------------------------------------------------------------------------
(* notifyFilter *)

Look(p) ==
  /\ req[p].pc = "look"
  /\ LET row == req[p].seen
         new == {j \in Dated \cap Selects[row.filter] : posted[j] > row.cutoff} IN
     IF new = {} THEN Notified(p)
     ELSE /\ Goes(p, "send", [filter |-> row.filter, cutoff |-> row.cutoff,
                              new |-> new, looked |-> stored])
          /\ UNCHANGED pass
  /\ UNCHANGED <<failures, alertTables, alertHistory>>

\* The mail is out; its sender goes on to touch the filter, or has lost the reply.
Mailed(p) ==
  LET f == req[p].seen.filter IN
  /\ told' = [told EXCEPT ![f] = [j \in Jobs |-> IF j \in req[p].seen.new /\ @[j] < 2
                                                 THEN @[j] + 1 ELSE @[j]]]
  /\ repeats' = IF f \in untouched \/ filters[f] = None \/ Row(f).cutoff # req[p].seen.cutoff
                THEN repeats \cup {f} ELSE repeats
  /\ untouched' = untouched \cup {f}
  /\ UNCHANGED <<late, alertTables>>

\* Mutant of Send: a mail that fails is logged, and the filter touched all the same.
SendOrLog(p) ==
  /\ req[p].pc = "send"
  /\ Goes(p, "touch", req[p].seen) /\ UNCHANGED pass
  /\ \/ Mailed(p) /\ UNCHANGED failures
     \/ /\ failures < MaxFailures /\ failures' = failures + 1
        /\ UNCHANGED <<alertTables, alertHistory>>

Send(p) ==
  /\ req[p].pc = "send"
  /\ Mailed(p)
  /\ \/ Goes(p, "touch", req[p].seen) /\ UNCHANGED <<failures, pass>>
     \/ Breaks(p)

Touch(p) ==
  LET f == req[p].seen.filter IN
  /\ req[p].pc = "touch" /\ filters[f] # None
  /\ filters' = [filters EXCEPT ![f].alerted = now]
  /\ untouched' = untouched \ {f}
  /\ late' = [late EXCEPT ![f] = @ \cup {j \in Dated \ req[p].seen.looked : posted[j] <= now}]
  /\ \/ Notified(p) /\ UNCHANGED failures
     \/ Breaks(p)
  /\ UNCHANGED <<users, made, stored, posted, now, told, repeats>>

\* The filter was deleted since: the error also ends the pass.
TouchNothing(p) ==
  /\ req[p].pc = "touch" /\ filters[req[p].seen.filter] = None
  /\ Stops(p, "error")
  /\ UNCHANGED <<failures, alertTables, alertHistory>>

-----------------------------------------------------------------------------
(* Handlers of one statement, and what the rest of the system does *)

CreateFilter(f) ==
  /\ Owner[f] \in users /\ f \notin made
  /\ made' = made \cup {f}
  /\ filters' = [filters EXCEPT ![f] = [created |-> now, alerted |-> None]]
  /\ UNCHANGED <<requestVars, users, stored, posted, now, pass, alertHistory>>

Forget(F) ==
  /\ filters' = [f \in Filters |-> IF f \in F THEN None ELSE filters[f]]
  /\ UNCHANGED alertHistory

DeleteFilter(f) ==
  /\ filters[f] # None
  /\ Forget({f})
  /\ UNCHANGED <<requestVars, users, made, stored, posted, now, pass>>

\* The account goes with its filters.
EraseUser(u) ==
  /\ u \in users
  /\ users' = users \ {u}
  /\ Forget(FiltersOf(u))
  /\ UNCHANGED <<requestVars, made, stored, posted, now, pass>>

\* An ingest pass stores a job, dated at most now.
StoreJob(j, date) ==
  /\ j \notin stored
  /\ stored' = stored \cup {j}
  /\ posted' = [posted EXCEPT ![j] = date]
  /\ late' = [f \in Filters |->
                IF date # None /\ filters[f] # None /\ Row(f).cutoff >= date
                THEN late[f] \cup {j} ELSE late[f]]
  /\ UNCHANGED <<requestVars, users, made, filters, now, pass, told, untouched, repeats>>

Tick ==
  /\ now < MaxTime
  /\ now' = now + 1
  /\ UNCHANGED <<requestVars, users, made, filters, stored, posted, pass, alertHistory>>

-----------------------------------------------------------------------------

AlertTablesInit ==
  /\ users = Users /\ made = {} /\ filters = [f \in Filters |-> None]
  /\ stored = {} /\ posted = [j \in Jobs |-> None] /\ now = 0
  /\ pass = NoPass
  /\ told = [f \in Filters |-> [j \in Jobs |-> 0]]
  /\ untouched = {} /\ repeats = {} /\ late = [f \in Filters |-> {}]

AlertsInit ==
  /\ req = [r \in Requests |-> Idle] /\ failures = 0
  /\ AlertTablesInit

PassStep == StartPass \/ NextUser \/ ListFilters \/ NextFilter
NotifyStep(p) == Look(p) \/ Send(p) \/ Touch(p) \/ TouchNothing(p)

AlertsNext ==
  \/ PassStep \/ Tick
  \/ \E p \in Requests : GetFilter(p) \/ NotifyStep(p) \/ AlertCallFails(p)
  \/ \E f \in Filters : \/ \E r \in Requests : AskNotify(r, f)
                        \/ CreateFilter(f) \/ DeleteFilter(f)
  \/ \E u \in Users : EraseUser(u)
  \/ \E j \in Jobs, date \in 0 .. now \cup {None} : StoreJob(j, date)

AlertsSpec == AlertsInit /\ [][AlertsNext]_alertVars

-----------------------------------------------------------------------------
(* Properties *)

AlertedJobWasTold ==
  \A f \in Filters : filters[f] # None /\ filters[f].alerted # None =>
    \A j \in Dated \cap Selects[f] :
      posted[j] > filters[f].created /\ posted[j] <= filters[f].alerted
        => told[f][j] > 0 \/ j \in late[f]

JobIsToldOnce == \A f \in Filters, j \in Jobs : told[f][j] <= 1 \/ f \in repeats

\* A filter that was touched has told of every job it selects that was posted
\* between its creation and the touch, except of those stored too late for the
\* look before that touch; and it has told of a job once, unless a mail was not
\* followed by its touch or two notifications of the filter overlapped
\* (m5/service.go:351, the filter is touched after the mail).
AlertsAreExact == AlertedJobWasTold /\ JobIsToldOnce
=============================================================================
