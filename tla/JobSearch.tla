------------------------------- MODULE JobSearch -------------------------------
(***************************************************************************)
(* How a row of the job table is searched, ranked and shown (internal/     *)
(* feed, internal/m5, ingest/pgxstore.go): the filter of the feed in its   *)
(* two versions, in Go and in SQL; the filter of the alerts; the order and *)
(* the page; the tags, the match score, the estimated pay and the card.    *)
(*                                                                         *)
(* A query is [search, payMin, payMax, location, remote, employment,       *)
(* source, maxYears, after, skills], with Nil (or {} for skills) for what  *)
(* it leaves out; search, location and a skill are needles.  Estimates are *)
(* in units of 500 000 rupiah, the step they are rounded to.               *)
(***************************************************************************)
EXTENDS JobListing

\* A parsed query is refused when a bound is negative or the bounds cross.
ValidateJobQuery(q) ==
  /\ \A bound \in {q.payMin, q.payMax, q.maxYears} : bound # Nil => bound >= 0
  /\ q.payMin # Nil /\ q.payMax # Nil => q.payMin <= q.payMax

-----------------------------------------------------------------------------
(* Tags and the match score *)

\* The needles of the tag that a known word stands for: a few of the aliases.
TagAliases == [golang |-> {"go"}, postgres |-> {"postgres", "postgresql", "sql"},
               js |-> {"javascript", "java"}]
LongProse == 3
Tags(requirement) ==
  LET known == requirement \cap DOMAIN TagAliases IN
  IF requirement \cap DOMAIN Years # {} THEN {}
  ELSE IF known # {} THEN {TagAliases[w] : w \in known}
  ELSE IF Cardinality(requirement) <= LongProse THEN {requirement} ELSE {}
ExtractRequirementTags(requirements) == UNION {Tags(requirements[i]) : i \in DOMAIN requirements}

\* Nil for skills that cannot be read.
MatchScore(row, skills) ==
  LET tags == ExtractRequirementTags(row.requirements)
      matched == {t \in tags : \E s \in skills : s \in t \/ t = {s}} IN
  IF skills = Nil \/ tags = {} THEN 0 ELSE (Cardinality(matched) * 100) \div Cardinality(tags)

-----------------------------------------------------------------------------
(* The filter of the feed, in Go and in SQL, and that of the alerts *)

InLocation(row, needle) == \E i \in DOMAIN row.location : needle \in row.location[i]
InRequirements(row, needle) == \E i \in DOMAIN row.requirements : needle \in row.requirements[i]

FeedMatches(row, q) ==
  /\ q.search # Nil => q.search \in row.title \cup row.company
  /\ q.payMin # Nil => ~(row.max = Nil \/ row.max < q.payMin)
  /\ q.payMax # Nil => ~(row.min = Nil \/ row.min > q.payMax)
  /\ q.location # Nil => InLocation(row, q.location)
  /\ q.remote # Nil => row.remote = q.remote
  /\ q.employment # Nil => row.employment = q.employment
  /\ q.source # Nil => row.source = q.source
  /\ q.maxYears # Nil => ~(row.years # Nil /\ row.years > q.maxYears)
  /\ q.after # Nil => ~(row.posted = Nil \/ row.posted < q.after)
  /\ \A skill \in q.skills : InRequirements(row, skill)

\* Mutant of FeedWhere: a row that states no years of experience is left out, as
\* by a comparison with NULL.
FeedWhereStatedYears(row, q) == FeedMatches(row, q) /\ (q.maxYears # Nil => row.years # Nil)

FeedWhere(row, q) ==
  /\ q.search # Nil => q.search \in row.title \cup row.company
  /\ q.payMin # Nil => row.max # Nil /\ row.max >= q.payMin
  /\ q.payMax # Nil => row.min # Nil /\ row.min <= q.payMax
  /\ q.location # Nil => InLocation(row, q.location)
  /\ q.remote # Nil => row.remote = q.remote
  /\ q.employment # Nil => row.employment = q.employment
  /\ q.source # Nil => row.source = q.source
  /\ q.maxYears # Nil => row.years = Nil \/ row.years <= q.maxYears
  /\ q.after # Nil => row.posted # Nil /\ row.posted >= q.after
  /\ \A skill \in q.skills : InRequirements(row, skill)

\* The alerts also look a skill up among the tags.
AlertMatches(row, q) ==
  /\ FeedMatches(row, [q EXCEPT !.skills = {}])
  /\ \A skill \in q.skills : InRequirements(row, skill)
       \/ \E tag \in ExtractRequirementTags(row.requirements) : skill \in tag

-----------------------------------------------------------------------------
(* Order, page and card *)

\* Newest first, undated last; rank orders the keys by title and then by key.
Before(a, b, rank) ==
  IF a.posted # b.posted THEN b.posted = Nil \/ (a.posted # Nil /\ a.posted > b.posted)
  ELSE rank[a.key] < rank[b.key]
Ordered(rows, rank) ==
  CHOOSE listed \in [1 .. Cardinality(rows) -> rows] :
    \A i, j \in DOMAIN listed : i < j => Before(listed[i], listed[j], rank)

DefaultLimit == 20
MaxLimit == 100
NormalizeQuery(limit, offset) ==
  [limit |-> IF limit <= 0 THEN DefaultLimit ELSE IF limit > MaxLimit THEN MaxLimit ELSE limit,
   offset |-> IF offset < 0 THEN 0 ELSE offset]
Search(rows, q, limit, offset, rank) ==
  LET matched == Ordered({r \in rows : FeedMatches(r, q)}, rank)
      page == NormalizeQuery(limit, offset) IN
  [total |-> Len(matched), jobs |-> Slice(matched, page.offset + 1, page.offset + page.limit)]
SearchFeed(rows, q, limit, offset, rank) ==
  LET matched == Ordered({r \in rows : FeedWhere(r, q)}, rank)
      page == NormalizeQuery(limit, offset) IN
  [total |-> Len(matched), jobs |-> Slice(matched, page.offset + 1, page.offset + page.limit)]

\* Bands by level, and the word of the title that gives a missing level.
EstimateBands ==
  [intern |-> <<8, 12>>, entry |-> <<12, 18>>, junior |-> <<16, 24>>, mid |-> <<24, 40>>,
   senior |-> <<36, 60>>, lead |-> <<50, 80>>, manager |-> <<50, 90>>]
UnknownBand == <<16, 30>>
Levels == <<"manager", "lead", "senior", "mid", "junior", "entry", "intern">>
DeriveLevel(title) ==
  LET named == {i \in DOMAIN Levels : Levels[i] \in title} IN
  IF named = {} THEN Nil ELSE Levels[Smallest(named)]
RoundSalary(units, percent) == (units * percent + 50) \div 100

EstimateSalary(row) ==
  LET level == IF row.seniority # Nil THEN row.seniority ELSE DeriveLevel(row.title)
      band == IF level = Nil THEN UnknownBand ELSE EstimateBands[level]
      percent == IF InLocation(row, "jakarta") THEN 115 ELSE IF row.remote THEN 105 ELSE 100 IN
  IF row.min # Nil \/ row.max # Nil THEN Nil
  ELSE [min |-> RoundSalary(band[1], percent), max |-> RoundSalary(band[2], percent),
        confidence |-> IF level # Nil /\ (row.location # <<>> \/ row.remote) THEN "medium" ELSE "low"]

\* The label names one figure for equal bounds; "estimated" marks an estimate.
SalaryLabel(row) ==
  IF row.min # Nil /\ row.max # Nil /\ row.min # row.max THEN <<row.min, row.max>>
  ELSE IF row.min # Nil THEN <<row.min>> ELSE IF row.max # Nil THEN <<row.max>> ELSE <<>>
ToCard(row) ==
  LET estimate == EstimateSalary(row)
      stated == row.min # Nil \/ row.max # Nil IN
  [key |-> row.key, min |-> row.min, max |-> row.max, stated |-> stated,
   estimated |-> ~stated /\ estimate # Nil, tags |-> ExtractRequirementTags(row.requirements),
   label |-> IF ~stated /\ estimate # Nil THEN <<"estimated", estimate.min, estimate.max>>
             ELSE SalaryLabel(row)]
=============================================================================
