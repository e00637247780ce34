-------------------------------- MODULE MCIngest --------------------------------
(***************************************************************************)
(* Small instances of IngestPass: worlds whose boards change, fail or give *)
(* wrong totals while passes read them, and quiet worlds for the others.   *)
(***************************************************************************)
EXTENDS IngestPass

Pay(currency, min, max) ==
  [currency |-> currency, shown |-> TRUE, min |-> min, max |-> max, text |-> NoText]
NoPay == Pay(Nil, Nil, Nil)
PayText(currency, min, max, marks, nums) ==
  [Pay(currency, min, max) EXCEPT !.text = [marks |-> marks, nums |-> nums]]

Posting(id, title, loc, pay) ==
  [id |-> {id}, urls |-> <<{"https", id}>>, title |-> title, company |-> {"acme"}, loc |-> loc,
   altLoc |-> <<>>, work |-> {}, remote |-> FALSE, pay |-> pay, level |-> {}, fresh |-> FALSE,
   kinds |-> <<{"full time"}>>, texts |-> <<{"golang"}, {}>>, tags |-> <<>>,
   dates |-> <<[layout |-> "rfc3339", at |-> 1], Nil>>, listed |-> TRUE]
Jakarta == <<{"jakarta"}, {"indonesia"}>>

Backend == Posting("p1", {"backend", "senior"}, Jakarta, Pay("IDR", 8000000, 12000000))
Nameless == Posting("p2", {}, Jakarta, NoPay)
Analyst == [Posting("p3", {"analyst", "y3"}, <<{"remote"}>>, Pay("USD", 4000, 5000))
              EXCEPT !.fresh = TRUE, !.dates = <<Nil, Nil>>]
Abroad == Posting("p4", {"pilot"}, <<{"tokyo"}>>, NoPay)
Faraway == Posting("p10", {"guide"}, <<{"osaka"}>>, NoPay)
Juta == Posting("p5", {"driver"}, <<{"bogor"}>>,
                PayText("IDR", 8000000, 12000000, {"rp", "juta"}, <<8, 12>>))
Dollar == [Posting("p6", {"writer"}, Jakarta, PayText("USD", 4000, 5000, {"foreign"}, <<4000, 5000>>))
             EXCEPT !.kinds = <<{"kontrak"}>>, !.texts = <<{"postgres", "script"}, {}>>, !.tags = <<{"js"}>>]
Hidden == [Posting("p7", {"clerk"}, <<{}, {"depok"}>>, NoPay) EXCEPT !.listed = FALSE, !.altLoc = Jakarta]
Stipend == Posting("p9", {"intern"}, Jakarta, Pay("IDR", 500000, 900000))
Large == Posting("p8", {"chef"}, Jakarta, Pay("IDR", 10000000, 15000000))

Catalog == [p \in {"greenhouse", "lever", "workable", "ashby", "workday", "smartrecruiters"} |-> <<>>]
Acme == [slug |-> {"acme"}, company |-> {"acme"}, site |-> {"jobs"}]
NoSource ==
  [kalibrrLimit |-> 0, joobleBackfill |-> FALSE, joobleKey |-> FALSE, joobleLimit |-> 0,
   careerjetAffid |-> FALSE, careerjetLimit |-> 0, atsEnabled |-> FALSE, slugs |-> <<>>,
   workday |-> Nil, smart |-> Nil, catalog |-> Catalog, boardLimit |-> 4,
   remoteEnabled |-> FALSE, remoteLimit |-> 3]
Catalogued(platform) == [NoSource EXCEPT !.atsEnabled = TRUE, !.catalog[platform] = <<Acme, Acme>>]
Kalibrr == <<"kalibrr", {}>>
Greenhouse == <<"greenhouse", {"acme"}>>

World(cfg, board, down, faults, changes) ==
  [cfg |-> cfg, boards |-> board, down |-> down, faults |-> faults, changes |-> changes]
Quiet(cfg, board) == World(cfg, board, {}, 0, 0)

\* Kalibrr is down for ever, Greenhouse answers conditional requests.
BrokenSource ==
  World([Catalogued("greenhouse") EXCEPT !.kalibrrLimit = 3],
        (Kalibrr :> <<Backend>>) @@ (Greenhouse :> <<Backend>>), {Kalibrr}, 1, 1)
\* Kalibrr in pages, with a posting without a name and one that is not local.
PagedSource ==
  World([NoSource EXCEPT !.kalibrrLimit = 3],
        Kalibrr :> <<Backend, Nameless, Analyst, Abroad>>, {}, 1, 1)
\* Workday in pages, with a total that may be missing or too small.
TotalledSource ==
  World([NoSource EXCEPT !.workday = <<Acme, [Acme EXCEPT !.site = {}]>>],
        <<"workday", {"acme"}>> :> <<Abroad, Faraway, Backend>>, {}, 1, 0)
QuietWorlds ==
  {Quiet([NoSource EXCEPT !.joobleBackfill = TRUE, !.joobleKey = TRUE, !.joobleLimit = 3],
         <<"jooble", {}>> :> <<Juta, Abroad, Dollar>>),
   Quiet([NoSource EXCEPT !.careerjetAffid = TRUE, !.careerjetLimit = 3],
         <<"careerjet", {}>> :> <<Juta, Abroad, Dollar, Analyst>>),
   Quiet([NoSource EXCEPT !.smart = <<Acme>>],
         <<"smartrecruiters", {"acme"}>> :> <<Analyst, Abroad, Backend>>),
   Quiet([NoSource EXCEPT !.slugs = [ashby |-> <<Acme>>]],
         <<"ashby", {"acme"}>> :> <<Analyst, Hidden, Juta>>),
   Quiet([NoSource EXCEPT !.slugs = [lever |-> <<Acme>>]],
         <<"lever", {"acme"}>> :> <<Analyst, Hidden, Stipend>>),
   Quiet([NoSource EXCEPT !.slugs = [workable |-> <<Acme>>]],
         <<"workable", {"acme"}>> :> <<Analyst, Hidden>>),
   Quiet([NoSource EXCEPT !.remoteEnabled = TRUE],
         [k \in {"remotive", "jobicy", "remoteok"} \X {{}} |->
            IF k[1] = "jobicy" THEN <<Dollar, Analyst, Stipend>> ELSE <<Dollar>>])}
\* One fault or one change of a board, not both.
MCWorlds == {[w EXCEPT !.faults = 0] : w \in {BrokenSource, PagedSource}}
            \cup {[w EXCEPT !.changes = 0] : w \in {BrokenSource, PagedSource}}
            \cup {TotalledSource} \cup QuietWorlds

\* One quiet board with pay in numbers that are printed with %g.
PrintedPayWorlds ==
  {Quiet([NoSource EXCEPT !.slugs = [workable |-> <<Acme>>]], <<"workable", {"acme"}>> :> <<Large>>)}

\* The pay of the first worlds is legible, that of the last is not.
ASSUME LegibleWorlds == \A w \in MCWorlds : PayIsLegible(w)
ASSUME PrintedWorlds == \A w \in PrintedPayWorlds : ~PayIsLegible(w)

AnyJob == [search |-> Nil, payMin |-> Nil, payMax |-> Nil, location |-> Nil, remote |-> Nil,
           employment |-> Nil, source |-> Nil, maxYears |-> Nil, after |-> Nil, skills |-> {}]
MCQueries ==
  {[AnyJob EXCEPT !.search = "senior"], [AnyJob EXCEPT !.payMin = 9000000],
   [AnyJob EXCEPT !.payMax = 9000000], [AnyJob EXCEPT !.location = "jakarta"],
   [AnyJob EXCEPT !.remote = TRUE], [AnyJob EXCEPT !.employment = "contract"],
   [AnyJob EXCEPT !.source = {"jooble"}], [AnyJob EXCEPT !.maxYears = 2],
   [AnyJob EXCEPT !.after = 1], [AnyJob EXCEPT !.skills = {"sql"}],
   [AnyJob EXCEPT !.skills = {"golang", "js"}], [AnyJob EXCEPT !.payMin = 2, !.payMax = 1]}
MCWatched == {<<{"acme"}, {"backend", "senior"}, {"jakarta"}>>}
=============================================================================
