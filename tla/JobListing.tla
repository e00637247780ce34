------------------------------ MODULE JobListing -------------------------------
(***************************************************************************)
(* What the backend computes from one listing (internal/ingest, internal/  *)
(* feed, internal/m5): the raw job each kind of source makes of a posting, *)
(* its normalization, the pay it states, the query it matches, its place   *)
(* in the feed and its estimated pay.                                      *)
(*                                                                         *)
(* A text is the set of the needles that occur in it, {} the blank text; a *)
(* location is the sequence of its comma-separated parts.  A number        *)
(* printed in a text is kept as the tokens that the parser reads back.     *)
(***************************************************************************)
EXTENDS Integers, Sequences, FiniteSets, TLC

CONSTANT Nil  \* an absent value

RemoteWords == {"remote", "wfh", "anywhere"}
Jabodetabek == {"jakarta", "bogor", "depok", "tangerang", "bekasi"}
RemoteOnly == <<{"remote"}>>
\* The years of experience that a text can state.
Years == [y1 |-> 1, y3 |-> 3, y5 |-> 5]

\* The elements of s from its i-th to its j-th, as far as it has them.
Slice(s, i, j) == SubSeq(s, i, IF j < Len(s) THEN j ELSE Len(s))
Smallest(S) == CHOOSE n \in S : \A m \in S : n <= m
FirstOf(texts) == IF \E i \in DOMAIN texts : texts[i] # {}
                  THEN texts[Smallest({i \in DOMAIN texts : texts[i] # {}})] ELSE {}
DetectRemote(location) == \E i \in DOMAIN location : location[i] \cap RemoteWords # {}

-----------------------------------------------------------------------------
(* Pay, as text and as numbers *)

NoText == [marks |-> {}, nums |-> <<>>]
Rupiah(nums) == [marks |-> {"rp"}, nums |-> nums]

\* The powers of ten, 10^e at e + 1: no figure has more than ten digits.
Tens == <<1, 10, 100, 1000, 10000, 100000, 1000000, 10000000, 100000000, 1000000000>>
TrailingZeros(n) == Cardinality({e \in 1..9 : n % Tens[e + 1] = 0})
Digits(n) == Cardinality({e \in DOMAIN Tens : Tens[e] <= n})

\* The tokens of n printed with %d, and with %g: from 10^6 on the latter prints
\* a mantissa and an exponent, and the parser drops the point of the mantissa.
PrintedD(n) == IF n = Nil THEN <<>> ELSE <<n>>
PrintedG(n) == IF n = Nil \/ n < 1000000 THEN PrintedD(n)
               ELSE <<n \div Tens[TrailingZeros(n) + 1], Digits(n) - 1>>

\* "vague" stands for negotiable, competitive and undisclosed pay, "foreign" for
\* the mark of another currency, "juta" for millions.
ParseSalaryIDR(text) ==
  LET n == [i \in DOMAIN text.nums |->
              text.nums[i] * (IF "juta" \in text.marks THEN 1000000 ELSE 1)]
      a == Head(n)  b == n[Len(n)] IN
  IF text.marks \cap {"vague", "foreign"} # {} \/ text.marks \cap {"rp", "juta"} = {} \/ n = <<>>
  THEN [min |-> Nil, max |-> Nil]
  ELSE [min |-> IF a < b THEN a ELSE b, max |-> IF a < b THEN b ELSE a]

TrustedSalaryText(text) == IF ParseSalaryIDR(text).min # Nil THEN text ELSE NoText
JoobleSalaryText(text) ==
  IF text.marks \cap {"rp", "juta"} # {} THEN TrustedSalaryText(text) ELSE NoText

\* Pay as text, from its printed bounds.
RangeText(min, max) == IF min \o max = <<>> THEN NoText ELSE Rupiah(min \o max)

\* pay = [currency, shown, min, max, text]: the numbers and the text of a posting.
KalibrrSalaryText(pay) ==
  IF ~pay.shown \/ pay.currency # "IDR" THEN NoText
  ELSE IF pay.min # Nil /\ pay.max # Nil THEN RangeText(PrintedD(pay.min), PrintedD(pay.max))
  ELSE RangeText(<<>>, PrintedD(IF pay.max # Nil THEN pay.max ELSE pay.min))
\* Mutant of SalaryRangeText: pay in another currency is printed too.
SalaryRangeAnyCurrency(pay) == RangeText(PrintedG(pay.min), PrintedG(pay.max))
SalaryRangeText(pay) ==
  IF pay.currency # "IDR" THEN NoText ELSE RangeText(PrintedG(pay.min), PrintedG(pay.max))
IdSalaryRangeText(pay) == SalaryRangeText(pay)
CareerjetSalaryText(pay) ==
  IF pay.currency = "IDR" /\ pay.text # NoText THEN TrustedSalaryText(pay.text)
  ELSE SalaryRangeText(pay)

-----------------------------------------------------------------------------
(* Raw jobs *)

\* A posting of any board is a record [id, urls, title, company, loc, altLoc, work,
\* remote, pay, level, fresh, kinds, texts, tags, dates, listed], a source [id, kind,
\* source, company, slug].  Urls, texts and dates are the sequence of the fields that
\* the source tries in turn.
\* "script" stands for the body of a script or style element.
HtmlToPlainText(text) == text \ {"script"}
NonEmpty(texts) == SelectSeq(texts, LAMBDA t : t # {})
DescriptionRequirements(text) == NonEmpty(<<HtmlToPlainText(text)>>)
RemoteRequirements(text, tags) == DescriptionRequirements(text) \o NonEmpty(tags)

\* A date is Nil or [layout, at]; each source reads the layouts it knows.
ParsedTime(date, layouts) ==
  IF date # Nil /\ date.layout \in layouts THEN date.at ELSE Nil
KalibrrPostedAt(date) == ParsedTime(date, {"rfc3339"})
JoobleUpdatedAt(date) == ParsedTime(date, {"rfc3339", "naive", "day"})
ParseSourceTime(date) == ParsedTime(date, {"rfc3339", "rfc1123", "naive", "day"})
FirstTime(dates) ==
  LET read == {i \in DOMAIN dates : ParseSourceTime(dates[i]) # Nil} IN
  IF read = {} THEN Nil ELSE ParseSourceTime(dates[Smallest(read)])

\* What the sources that read a field read alike.
Listing(b, p) ==
  [source |-> b.source, url |-> FirstOf(p.urls), title |-> p.title, company |-> p.company,
   location |-> p.loc, remote |-> FALSE, salary |-> NoText, seniority |-> {},
   employment |-> {}, requirements |-> <<>>, posted |-> Nil]

KalibrrLocation(p) == NonEmpty(Slice(p.loc, 1, 2))
KalibrrRaw(b, p) ==
  [Listing(b, p) EXCEPT !.url = {"https"} \cup p.id, !.location = KalibrrLocation(p),
     !.remote = p.remote, !.salary = KalibrrSalaryText(p.pay),
     !.seniority = IF p.fresh THEN {"fresh_grad"} ELSE {}, !.employment = FirstOf(p.kinds),
     !.requirements = NonEmpty([i \in DOMAIN p.texts |-> HtmlToPlainText(p.texts[i])]),
     !.posted = KalibrrPostedAt(p.dates[1])]
JoobleRaw(b, p) ==
  [Listing(b, p) EXCEPT !.salary = JoobleSalaryText(p.pay.text), !.employment = FirstOf(p.kinds),
     !.requirements = NonEmpty(<<p.texts[1]>>), !.posted = JoobleUpdatedAt(p.dates[1])]

ContractTypes == [p |-> {"full time"}, c |-> {"contract"}, t |-> {"temporary"}, i |-> {"intern"}]
CareerjetEmploymentType(kind) ==
  IF \E c \in DOMAIN ContractTypes : kind = {c}
  THEN ContractTypes[CHOOSE c \in DOMAIN ContractTypes : kind = {c}] ELSE kind
CareerjetRaw(b, p) ==
  [Listing(b, p) EXCEPT !.salary = CareerjetSalaryText(p.pay),
     !.employment = CareerjetEmploymentType(FirstOf(p.kinds)),
     !.requirements = DescriptionRequirements(p.texts[1]), !.posted = ParseSourceTime(p.dates[1])]

\* A remote posting of Workday or Ashby gives up its own place: its identity, which
\* holds the city, is that of every remote posting of this title and company.
WorkdayRaw(b, p) ==
  [Listing(b, p) EXCEPT !.url = IF p.id = {} THEN {} ELSE {"https"} \cup p.id,
     !.company = FirstOf(<<b.company, b.slug>>), !.remote = DetectRemote(p.loc),
     !.location = IF DetectRemote(p.loc) THEN RemoteOnly ELSE p.loc]
SmartRecruitersRaw(b, p) ==
  LET location == NonEmpty(p.loc)
      remote == p.remote \/ DetectRemote(location) IN
  [Listing(b, p) EXCEPT !.url = {"https"} \cup p.id, !.remote = remote,
     !.company = FirstOf(<<p.company, b.company>>), !.employment = FirstOf(p.kinds),
     !.location = IF remote /\ location = <<>> THEN RemoteOnly ELSE location,
     !.posted = ParseSourceTime(p.dates[1])]

RemotiveRaw(b, p) ==
  [Listing(b, p) EXCEPT !.location = RemoteOnly, !.remote = TRUE,
     !.salary = TrustedSalaryText(p.pay.text), !.employment = FirstOf(p.kinds),
     !.requirements = RemoteRequirements(p.texts[1], p.tags), !.posted = ParseSourceTime(p.dates[1])]
JobicyRaw(b, p) ==
  [Listing(b, p) EXCEPT !.location = RemoteOnly, !.remote = TRUE,
     !.salary = IdSalaryRangeText(p.pay), !.seniority = p.level,
     !.employment = UNION {p.kinds[i] : i \in DOMAIN p.kinds},
     !.requirements = RemoteRequirements(p.texts[1], <<>>), !.posted = ParseSourceTime(p.dates[1])]
RemoteOKRaw(b, p) ==
  [Listing(b, p) EXCEPT !.location = RemoteOnly, !.remote = TRUE,
     !.requirements = RemoteRequirements(p.texts[1], p.tags), !.posted = ParseSourceTime(p.dates[1])]

GreenhouseRaw(b, p) ==
  [Listing(b, p) EXCEPT !.company = FirstOf(<<p.company, b.company>>),
     !.requirements = DescriptionRequirements(p.texts[1]), !.posted = FirstTime(p.dates)]
LeverRaw(b, p) ==
  LET location == IF FirstOf(p.loc) # {} THEN p.loc ELSE p.altLoc IN
  [Listing(b, p) EXCEPT !.company = b.company, !.location = location,
     !.remote = "remote" \in p.work \/ DetectRemote(location), !.salary = SalaryRangeText(p.pay),
     !.employment = FirstOf(p.kinds), !.requirements = DescriptionRequirements(FirstOf(p.texts)),
     !.posted = ParseSourceTime(p.dates[1])]

\* The first place that is not blank, with its own remote mark: p.altLoc is the
\* place among the alternatives.
WorkableLocation(p) ==
  IF NonEmpty(p.loc) # <<>> THEN [place |-> NonEmpty(p.loc), remote |-> p.remote]
  ELSE [place |-> NonEmpty(p.altLoc), remote |-> FALSE]
WorkableRaw(b, p) ==
  LET location == WorkableLocation(p) IN
  [Listing(b, p) EXCEPT !.company = FirstOf(<<p.company, b.company>>),
     !.location = location.place,
     !.remote = "telecommuting" \in p.work \/ location.remote \/ DetectRemote(location.place),
     !.salary = SalaryRangeText(p.pay), !.seniority = p.level, !.employment = FirstOf(p.kinds),
     !.requirements = DescriptionRequirements(FirstOf(p.texts)), !.posted = FirstTime(p.dates)]
AshbyRaw(b, p) ==
  LET remote == p.remote \/ p.work = {"remote"} \/ DetectRemote(p.loc) IN
  [Listing(b, p) EXCEPT !.company = b.company, !.remote = remote,
     !.location = IF remote THEN RemoteOnly ELSE p.loc, !.salary = TrustedSalaryText(p.pay.text),
     !.employment = FirstOf(p.kinds), !.requirements = DescriptionRequirements(FirstOf(p.texts)),
     !.posted = ParseSourceTime(p.dates[1])]

RawJob(b, p) ==
  CASE b.kind = "kalibrr"         -> KalibrrRaw(b, p)
    [] b.kind = "jooble"          -> JoobleRaw(b, p)
    [] b.kind = "careerjet"       -> CareerjetRaw(b, p)
    [] b.kind = "workday"         -> WorkdayRaw(b, p)
    [] b.kind = "smartrecruiters" -> SmartRecruitersRaw(b, p)
    [] b.kind = "remotive"        -> RemotiveRaw(b, p)
    [] b.kind = "jobicy"          -> JobicyRaw(b, p)
    [] b.kind = "remoteok"        -> RemoteOKRaw(b, p)
    [] b.kind = "greenhouse"      -> GreenhouseRaw(b, p)
    [] b.kind = "lever"           -> LeverRaw(b, p)
    [] b.kind = "workable"        -> WorkableRaw(b, p)
    [] b.kind = "ashby"           -> AshbyRaw(b, p)

-----------------------------------------------------------------------------
(* Normalization *)

ValidSourceURL(url) == "user" \notin url /\ ("https" \in url \/ {"http", "loopback"} \subseteq url)

EmploymentSynonyms ==
  [s \in {"full time", "penuh waktu", "tetap", "permanent"} |-> "full_time"] @@
  [s \in {"part time", "paruh waktu"} |-> "part_time"] @@ [s \in {"contract", "kontrak"} |-> "contract"] @@
  [s \in {"intern", "magang"} |-> "internship"] @@ [s \in {"freelance", "lepas"} |-> "freelance"] @@
  [s \in {"temporary", "sementara"} |-> "temporary"]
\* A text that names several types gets any of them: the synonyms are a map, which
\* is searched in a random order.
NormalizeEmploymentType(text) ==
  LET named == {EmploymentSynonyms[s] : s \in text \cap DOMAIN EmploymentSynonyms} IN
  IF named = {} THEN {Nil} ELSE named

SenioritySynonyms ==
  << <<"intern", "intern">>, <<"magang", "intern">>, <<"fresh_grad", "entry">>, <<"entry", "entry">>,
     <<"pemula", "entry">>, <<"junior", "junior">>, <<"mid", "mid">>, <<"intermediate", "mid">>,
     <<"menengah", "mid">>, <<"principal", "lead">>, <<"lead", "lead">>, <<"manager", "manager">>,
     <<"head", "manager">>, <<"kepala", "manager">>, <<"senior", "senior">> >>
NormalizeSeniority(text) ==
  LET named == {i \in DOMAIN SenioritySynonyms : SenioritySynonyms[i][1] \in text} IN
  IF named = {} THEN Nil ELSE SenioritySynonyms[Smallest(named)][2]
DeriveSeniority(texts) ==
  LET named == {i \in DOMAIN texts : NormalizeSeniority(texts[i]) # Nil} IN
  IF named = {} THEN Nil ELSE NormalizeSeniority(texts[Smallest(named)])

ParseYearsExperience(texts) ==
  LET stated == {Years[y] : y \in UNION {texts[i] \cap DOMAIN Years : i \in DOMAIN texts}} IN
  IF stated = {} THEN Nil ELSE Smallest(stated)

CityOf(location) == IF location = <<>> THEN {} ELSE location[1]
DedupKey(company, title, location) == <<company, title, CityOf(location)>>

\* The rows that a raw job can become; none if it is incomplete or its link is not
\* one to store.
Normalize(raw) ==
  IF {} \in {raw.url, raw.title, raw.company} \/ ~ValidSourceURL(raw.url) THEN {}
  ELSE {[source |-> raw.source, url |-> raw.url, title |-> raw.title, company |-> raw.company,
         location |-> raw.location,
         remote |-> raw.remote \/ DetectRemote(raw.location) \/ DetectRemote(<<raw.title>>),
         min |-> pay.min, max |-> pay.max, employment |-> type,
         seniority |-> IF raw.seniority # {} THEN NormalizeSeniority(raw.seniority)
                       ELSE DeriveSeniority(<<raw.title>> \o reqs),
         years |-> ParseYearsExperience(<<raw.title>> \o reqs \o <<raw.seniority>>),
         requirements |-> reqs, posted |-> raw.posted,
         key |-> DedupKey(raw.company, raw.title, raw.location)]
        : type \in NormalizeEmploymentType(raw.employment),
          pay \in {ParseSalaryIDR(raw.salary)}, reqs \in {NonEmpty(raw.requirements)}}

IsJabodetabekOrRemote(row) ==
  row.remote \/ \E i \in DOMAIN row.location : row.location[i] \cap Jabodetabek # {}

=============================================================================
