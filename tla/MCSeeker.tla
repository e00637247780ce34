-------------------------------- MODULE MCSeeker --------------------------------
(***************************************************************************)
(* Small instances of what a job seeker asks of the backend.  The parts    *)
(* share their slots of requests and, as far as the feed shows what the    *)
(* tracker has stored, their tables; parts that share no table run in      *)
(* scenarios of their own, since their steps commute.                      *)
(***************************************************************************)
EXTENDS JobFeed, MatchAlerts, CvVersions, Credentials, WebBridge

CONSTANTS
  Filter1, Filter2, User1, User2, Job1, Job2, Job3, Job4,
  Slot1, Slot2, Slot3

\* Of each instance: its part, the slots that requests may use, the failures, and
\* the end of its clock, its jobs and its filters if they are fewer than there are.
VARIABLE scenario

Scenario(part, slots, fails) ==
  [part |-> part, slots |-> slots, failures |-> fails, clock |-> 0, jobs |-> {Job1}, filters |-> {Filter1}]
Slots == {Slot1, Slot2, Slot3}
Two == {Slot1, Slot2}
Scenarios ==
  {[Scenario("tracker", Slots, 1) EXCEPT !.jobs = {Job1, Job4}],
   [Scenario("feed", {Slot1}, 1) EXCEPT !.jobs = {Job1, Job2}],
   Scenario("versions", Slots, 1),
   [Scenario("alerts", {Loop}, 1) EXCEPT !.filters = Filters],
   [Scenario("alerts", {Loop, Slot1}, 0) EXCEPT !.filters = Filters],
   [Scenario("alerts", {Loop, Slot1}, 1) EXCEPT !.jobs = {Job1, Job2}],
   Scenario("credentials", Two, 2),
   [Scenario("credentials", Two, 0) EXCEPT !.clock = 2],
   Scenario("credentials", Slots, 0),
   Scenario("page", {}, 0)}

MCOwner == Filter1 :> User1 @@ Filter2 :> User2
MCSelects == Filter1 :> {Job1, Job2} @@ Filter2 :> {Job1}

Row1 == [source |-> "kalibrr", url |-> "u1", title |-> {"backend", "senior"}, company |-> {"acme"},
         location |-> <<{"jakarta"}>>, remote |-> FALSE, min |-> 16, max |-> 24,
         employment |-> "full_time", seniority |-> "senior", years |-> 3,
         requirements |-> <<{"golang"}, {"postgres"}>>, posted |-> 2, key |-> Job1]
Row2 == [Row1 EXCEPT !.url = "u2", !.title = {"clerk"}, !.min = Nil, !.max = Nil, !.remote = TRUE,
                     !.seniority = Nil, !.years = Nil, !.requirements = <<>>, !.posted = Nil,
                     !.key = Job2]
Row3 == [Row2 EXCEPT !.url = "u3", !.posted = 2, !.key = Job3]
MCRows == {Row1, Row2, Row3}
MCRank == Job1 :> 1 @@ Job2 :> 2 @@ Job3 :> 3
Anything == [search |-> Nil, payMin |-> Nil, payMax |-> Nil, location |-> Nil, remote |-> Nil,
             employment |-> Nil, source |-> Nil, maxYears |-> Nil, after |-> Nil, skills |-> {}]
MCQueries == {Anything, [Anything EXCEPT !.maxYears = 2], [Anything EXCEPT !.payMin = 3, !.payMax = 2]}

accountTables == <<credentialTables, limiters, credentialHistory>>
alertState == <<alertTables, pass, alertHistory>>
seekerVars == <<requestVars, trackerTables, feedTables, alertState, versionTables, accountTables, bridgeVars, scenario>>

Plays(part) == scenario.part = part
SeekerInit ==
  /\ scenario \in Scenarios
  /\ req = [r \in Requests |-> IF r \in scenario.slots THEN Idle ELSE [Idle EXCEPT !.pc = "done"]]
  /\ failures = MaxFailures - scenario.failures
  /\ TrackerTablesInit /\ FeedTablesInit /\ AlertTablesInit /\ VersionTablesInit
  /\ CredentialTablesInit /\ BridgeInit
  /\ ~Plays("feed") => view.signedIn /\ view.query = Anything
  /\ ~Plays("credentials") => account = None
  /\ ~Plays("page") => bridge.present /\ bridge.direct

Asks(keys) == \A r \in scenario.slots : req'[r].key \in keys \cup {None}

SeekerNext ==
  /\ UNCHANGED scenario
  /\ \/ /\ Plays("tracker") /\ TrackerNext /\ Asks(scenario.jobs)
        /\ UNCHANGED <<feedTables, alertState, versionTables, accountTables, bridgeVars>>
     \/ /\ Plays("feed") /\ FeedNext /\ Asks(scenario.jobs)
        /\ UNCHANGED <<alertState, versionTables, accountTables, bridgeVars>>
     \/ /\ Plays("alerts") /\ AlertsNext
        /\ Asks(scenario.filters) /\ made' \subseteq scenario.filters /\ stored' \subseteq scenario.jobs
        /\ UNCHANGED <<trackerTables, feedTables, versionTables, accountTables, bridgeVars>>
     \/ /\ Plays("versions") /\ VersionsNext
        /\ UNCHANGED <<trackerTables, feedTables, alertState, accountTables, bridgeVars>>
     \/ /\ Plays("credentials") /\ CredentialsNext
        /\ clock' <= scenario.clock /\ Asks(scenario.slots \cup BOOLEAN \cup {Earlier})
        /\ UNCHANGED <<trackerTables, feedTables, alertState, versionTables, bridgeVars>>
     \/ /\ Plays("page") /\ BridgeNext
        /\ UNCHANGED <<requestVars, trackerTables, feedTables, alertState, versionTables, accountTables>>

SeekerSpec == SeekerInit /\ [][SeekerNext]_seekerVars
Symmetry == Permutations(Slots)
=============================================================================
