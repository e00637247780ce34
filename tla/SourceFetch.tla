------------------------------ MODULE SourceFetch ------------------------------
(***************************************************************************)
(* The sources of the ingest pass: which of them a configuration           *)
(* registers, and how each reads its board, page by page or in one         *)
(* request (internal/ingest, the sources, source.go and sources.go).       *)
(*                                                                         *)
(* A source b is [id, tier, kind, source, company, slug, limit].           *)
(* What a board shows is a sequence of postings.  A fetch in progress is   *)
(* [kept, at]: the postings kept so far and the offset of the next page;   *)
(* a kept posting becomes a raw job (RawJob) when it is stored.            *)
(***************************************************************************)
EXTENDS JobListing, SequencesExt

CONSTANT PageSize  \* 100 (Kalibrr, Careerjet, SmartRecruiters, the remote boards), 20 (Workday)

ASSUME PageSizeAssumption == PageSize \in Nat \ {0}

Lesser(a, b) == IF a < b THEN a ELSE b

-----------------------------------------------------------------------------
(* Registration *)

\* A source is registered once, and only if it is of tier 1 or 2.
Register(registry, b) ==
  IF b.tier \notin {1, 2} \/ b.id = Nil \/ \E i \in DOMAIN registry : registry[i].id = b.id
  THEN registry ELSE Append(registry, b)
RegisterAll(registry, sources) == FoldLeft(Register, registry, sources)

\* A limit that is not positive gives the default.
DefaultSourceLimit == 25
Source(kind, slug, tier, company, limit) ==
  [id |-> <<kind, slug>>, tier |-> tier, kind |-> kind, source |-> {kind}, company |-> company,
   slug |-> slug,
   limit |-> IF limit > 0 THEN limit ELSE DefaultSourceLimit]

\* The slugs of the configuration replace the catalog of the platform; those of
\* Workday and SmartRecruiters are [slug, company, site].
NotBlank(entries) == SelectSeq(entries, LAMBDA e : e.slug # {})
ConfiguredATSCompanies(cfg, platform) ==
  IF platform \in DOMAIN cfg.slugs THEN NotBlank(cfg.slugs[platform]) ELSE cfg.catalog[platform]
ConfiguredWorkdayCompanies(cfg) ==
  SelectSeq(NotBlank(IF cfg.workday = Nil THEN cfg.catalog["workday"] ELSE cfg.workday),
            LAMBDA e : e.site # {})
ConfiguredSmartRecruitersCompanies(cfg) ==
  NotBlank(IF cfg.smart = Nil THEN cfg.catalog["smartrecruiters"] ELSE cfg.smart)

Boards(kind, entries, limit) ==
  [i \in DOMAIN entries |-> Source(kind, entries[i].slug, 2, entries[i].company, limit)]
Platforms == <<"greenhouse", "lever", "workable", "ashby">>
BuildRegistry(cfg) ==
  LET keyed ==
        (IF cfg.kalibrrLimit > 0
         THEN <<Source("kalibrr", {}, 2, {}, cfg.kalibrrLimit)>> ELSE <<>>)
        \o (IF cfg.joobleBackfill /\ cfg.joobleKey
            THEN <<Source("jooble", {}, 1, {},
                          IF cfg.joobleLimit > 0 THEN cfg.joobleLimit ELSE cfg.kalibrrLimit)>>
            ELSE <<>>)
        \o (IF cfg.careerjetAffid
            THEN <<Source("careerjet", {}, 1, {}, cfg.careerjetLimit)>> ELSE <<>>)
      ats == IF ~cfg.atsEnabled /\ DOMAIN cfg.slugs = {} /\ cfg.workday = Nil /\ cfg.smart = Nil THEN <<>>
             ELSE FlattenSeq([i \in DOMAIN Platforms |->
                    Boards(Platforms[i], ConfiguredATSCompanies(cfg, Platforms[i]), 0)])
                  \o Boards("workday", ConfiguredWorkdayCompanies(cfg), cfg.boardLimit)
                  \o Boards("smartrecruiters", ConfiguredSmartRecruitersCompanies(cfg), cfg.boardLimit)
      remote == IF ~cfg.remoteEnabled THEN <<>>  \* remoteDefaultLimit is one page
                ELSE [i \in 1..3 |->
                        Source(<<"remotive", "jobicy", "remoteok">>[i], {}, 2, {},
                               IF cfg.remoteLimit > 0 THEN cfg.remoteLimit ELSE PageSize)] IN
  RegisterAll(<<>>, keyed \o ats \o remote)

-----------------------------------------------------------------------------
(* Reading a board *)

\* The postings that a source drops as it reads them.
Named(b, p) ==
  CASE b.kind = "kalibrr" -> p.title # {}
    [] b.kind \in {"jooble", "careerjet", "remotive", "jobicy"} -> p.title # {} /\ p.urls[1] # {}
    [] b.kind = "remoteok" -> p.title # {} /\ FirstOf(p.urls) # {}
    [] b.kind = "ashby" -> p.listed
    [] OTHER -> TRUE
\* The position in I, a set of indices, that comes n-th.
Position(I, n) == CHOOSE i \in I : Cardinality(I \cap 1..i) = n
\* The others, in their order.
NamedOf(b, postings) ==
  LET named == {i \in DOMAIN postings : Named(b, postings[i])} IN
  IF named = DOMAIN postings THEN postings
  ELSE [n \in 1..Cardinality(named) |-> postings[Position(named, n)]]
Taken(b, f, page) == Slice(f.kept \o NamedOf(b, page), 1, b.limit)

\* Each page operator gives the fetch after one page of the board, and whether it
\* was the last one; count is the total that the reply carries, 0 if it has none
\* (Careerjet carries the pages, which are counted by the postings they hold).
Step(b, f, page, last) ==
  [kept |-> Taken(b, f, page), at |-> f.at + Len(page),
   done |-> last \/ Len(Taken(b, f, page)) >= b.limit]
PageAt(board, at, size) == Slice(board, at + 1, at + size)

\* Mutant of KalibrrPage: the offset advances by the jobs kept, not by those read.
KalibrrPageByKept(b, f, board, count) ==
  LET size == Lesser(b.limit - Len(f.kept), PageSize)
      page == PageAt(board, f.at, size)
      step == Step(b, f, page, Len(page) < size \/ (count > 0 /\ f.at + Len(page) >= count)) IN
  [step EXCEPT !.at = Len(step.kept)]

KalibrrPage(b, f, board, count) ==
  LET size == Lesser(b.limit - Len(f.kept), PageSize)
      page == PageAt(board, f.at, size) IN
  Step(b, f, page, Len(page) < size \/ (count > 0 /\ f.at + Len(page) >= count))

\* Jooble chooses its own page size; a page shorter than the first ends the fetch.
JooblePage(b, f, board, count) ==
  LET page == PageAt(board, f.at, PageSize)
      seen == f.at + Len(page) IN
  Step(b, f, page, Len(page) < PageSize \/ (count > 0 /\ seen >= count) \/ seen >= b.limit)

CareerjetPage(b, f, board, count) ==
  LET size == Lesser(b.limit, PageSize)
      page == PageAt(board, f.at, size)
      seen == f.at + Len(page) IN
  Step(b, f, page, Len(page) < size \/ (count > 0 /\ seen >= count) \/ seen >= b.limit)

\* Workday and SmartRecruiters skip a page at a time and stop at the total that the
\* reply carries, also when it carries none.
WorkdayPage(b, f, board, count) ==
  LET page == PageAt(board, f.at, PageSize)
      end == f.at + PageSize IN
  [Step(b, f, page, page = <<>> \/ end >= count \/ end >= b.limit) EXCEPT !.at = end]
SmartRecruitersPage(b, f, board, count) ==
  LET page == PageAt(board, f.at, PageSize)
      end == f.at + PageSize IN
  [Step(b, f, page, page = <<>> \/ end >= count \/ end >= b.limit) EXCEPT !.at = end]

\* Remotive and Jobicy are asked once, for at most a page; RemoteOK sends them all.
RemotivePage(b, f, board) == Step(b, f, PageAt(board, 0, Lesser(b.limit, PageSize)), TRUE)
JobicyPage(b, f, board) == Step(b, f, PageAt(board, 0, Lesser(b.limit, PageSize)), TRUE)
RemoteOKPage(b, f, board) == Step(b, f, board, TRUE)

ReadPage(b, f, board, count) ==
  CASE b.kind = "kalibrr"         -> KalibrrPage(b, f, board, count)
    [] b.kind = "jooble"          -> JooblePage(b, f, board, count)
    [] b.kind = "careerjet"       -> CareerjetPage(b, f, board, count)
    [] b.kind = "workday"         -> WorkdayPage(b, f, board, count)
    [] b.kind = "smartrecruiters" -> SmartRecruitersPage(b, f, board, count)
    [] b.kind = "remotive"        -> RemotivePage(b, f, board)
    [] b.kind = "jobicy"          -> JobicyPage(b, f, board)
    [] b.kind = "remoteok"        -> RemoteOKPage(b, f, board)

\* A total that ends a fetch before the board does: one that is too small, and for the
\* two kinds that do not look whether there is a total, one that is missing.
FallsShort(b, board, count) ==
  /\ b.kind \in {"kalibrr", "jooble", "careerjet", "workday", "smartrecruiters"}
  /\ count < Len(board)
  /\ b.kind \in {"kalibrr", "jooble", "careerjet"} => count > 0

\* The kinds that are read page by page, and those that answer conditional requests.
PageKinds == {"kalibrr", "jooble", "careerjet", "workday", "smartrecruiters", "remotive",
              "jobicy", "remoteok"}
ATSKinds == {"greenhouse", "lever", "workable", "ashby"}
=============================================================================
