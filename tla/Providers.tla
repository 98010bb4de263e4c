------------------------------ MODULE Providers ------------------------------
(***************************************************************************)
(* The providers of public data (public_api/providers.py): how each of     *)
(* them searches, completes a profile or looks for news.  A call makes a   *)
(* number of requests one after the other, each of which may fail, be      *)
(* refused in a well-formed reply, or yield rows that a parser may or may  *)
(* not be able to use, and ends with rows, with an error, or with both.    *)
(*                                                                         *)
(* A row is the set of its fields that are filled in and a score its text  *)
(* has for the query.  Rows are counted, not compared.                     *)
(***************************************************************************)
EXTENDS Naturals, Sequences, FiniteSets

CONSTANTS
    Replied,       \* rows a request may yield, each [with: SUBSET STRING, score: Nat]
    MaxProviderCalls

ASSUME ProvidersAssumption == \A r \in Replied : r.score \in Nat

Files == {"nasdaqlisted", "otherlisted", "cn_list", "hk_list", "cn_profile"}

VARIABLES
    call,      \* the call under way, or NoCall
    answer,    \* what the last call ended with
    file,      \* state of the cached directories: none, fresh or stale
    bundled,   \* the bundled index files and packages: present, missing or broken
    keyed,     \* providers whose key is stored
    callsMade

providersVars == <<call, answer, file, bundled, keyed, callsMade>>

-----------------------------------------------------------------------------
(* What the parsers keep of the rows of a reply.                           *)

Has(row, field) == field \in row.with

ParseFmpSearch(rows) == {r \in rows : Has(r, "name") \/ Has(r, "symbol")}

ParseFmpProfile(rows) == rows

ParseFmpNews(rows) == {r \in rows : Has(r, "title")}

ParseAlphaSearch(rows) == rows

ParseAlphaOverview(rows) == {r \in rows : Has(r, "symbol") \/ Has(r, "name")}

ParseMarketauxNews(rows) == {r \in rows : Has(r, "title")}

ParseRssNews(rows) == {r \in rows : Has(r, "title")}

ParseUniverse(rows) == {r \in rows : (Has(r, "symbol") \/ Has(r, "name")) /\ r.score >= 55}

ParseAkshare(rows) == {r \in rows : (Has(r, "symbol") \/ Has(r, "name")) /\ r.score >= 55}

ParseChinaHk(rows) == rows

ParseGleif(rows) == rows

ParseWikidataSearch(rows) == rows

ParseWikidataProfile(rows) == {r \in rows : Has(r, "id")}

ParseOpenCorporates(rows) == {r \in rows : Has(r, "company")}

ParseCompaniesHouse(rows) == rows

ParseBrreg(rows) == rows

ParseNasdaq(rows) == {r \in rows : Has(r, "symbol") /\ r.score >= 60}

ParseAkshareProfile(rows) == {r \in rows : r.with # {}}

(* The one request of the providers that make one, and its parser. *)
Parsed(who, op, rows) ==
    CASE who = "fmp" /\ op = "search"            -> ParseFmpSearch(rows)
      [] who = "fmp" /\ op = "profile"           -> ParseFmpProfile(rows)
      [] who = "fmp" /\ op = "news"              -> ParseFmpNews(rows)
      [] who = "alpha_vantage" /\ op = "search"  -> ParseAlphaSearch(rows)
      [] who = "alpha_vantage" /\ op = "profile" -> ParseAlphaOverview(rows)
      [] who = "marketaux"                       -> ParseMarketauxNews(rows)
      [] who = "gleif"                           -> ParseGleif(rows)
      [] who = "wikidata" /\ op = "search"       -> ParseWikidataSearch(rows)
      [] who = "wikidata" /\ op = "profile"      -> ParseWikidataProfile(rows)
      [] who = "opencorporates"                  -> ParseOpenCorporates(rows)
      [] who = "companies_house"                 -> ParseCompaniesHouse(rows)
      [] who = "norway_brreg"                    -> ParseBrreg(rows)

-----------------------------------------------------------------------------
(* Which provider answers which call.                                      *)

ProviderFor ==
    {"fmp", "alpha_vantage", "marketaux", "rss", "symbol_universe", "china_hk_symbol_index",
     "finance_database", "akshare", "gleif", "wikidata", "opencorporates", "companies_house",
     "norway_brreg", "nasdaq_directory", "xueqiu_external", "stub"}

(* "stub" stands for one of the announced providers, which want a key. *)
NeedKey == {"fmp", "alpha_vantage", "marketaux", "opencorporates", "companies_house", "stub"}

(* Those whose reply may be a refusal in the form of a result. *)
PayloadErrors == {"fmp", "alpha_vantage", "marketaux"}

HasProfile == {"fmp", "alpha_vantage", "symbol_universe", "china_hk_symbol_index", "akshare",
               "gleif", "wikidata"}

HasNews == {"fmp", "marketaux", "rss"}

NoCall == [who |-> "none"]

NoAnswer == [who |-> "none", op |-> "none", found |-> FALSE, error |-> "none", asked |-> 0,
             last |-> "ok", faults |-> 0, old |-> 0]

(* A call on a company that has a symbol, an LEI or entity id, and a name  *)
(* long enough to be looked up, or not.                                    *)
CallOf(who, op, facts) ==
    [who |-> who, op |-> op, facts |-> facts, step |-> 1, rows |-> FALSE, top |-> 0,
     error |-> "none", asked |-> 0, last |-> "ok", faults |-> 0, old |-> 0]

ProvidersInit ==
    /\ call = NoCall /\ answer = NoAnswer
    /\ file = [f \in Files |-> "none"]
    /\ bundled \in {"present", "missing", "broken"}
    /\ keyed \in {{}, NeedKey}
    /\ callsMade = 0

(* The call ends with or without rows and with an error or none. *)
Answers(c, found, error) ==
    /\ call' = NoCall
    /\ answer' = [who |-> c.who, op |-> c.op, found |-> found, error |-> error, asked |-> c.asked,
                  last |-> c.last, faults |-> c.faults, old |-> c.old]

FoundOr(c, found, error) == Answers(c, found, IF found THEN "none" ELSE error)

FilesStay == UNCHANGED <<file, bundled, keyed, callsMade>>

(* A request: an exception or an HTTP error, a refusal, or rows.           *)
Outcomes(c) ==
    [kind : {"fault"} \cup (IF c.who \in PayloadErrors THEN {"refused"} ELSE {}), rows : {{}}]
    \cup [kind : {"ok"}, rows : {{}} \cup {{r} : r \in Replied}]

AfterRequest(c, o) ==
    [c EXCEPT !.asked = @ + 1, !.last = o.kind, !.faults = @ + IF o.kind = "ok" THEN 0 ELSE 1]

ErrorOf(o) == IF o.kind = "fault" THEN "provider_unavailable" ELSE "refused"

-----------------------------------------------------------------------------
(* Starting a call: what needs no request is answered at once.             *)

Missing(c) ==
    CASE c.who \in NeedKey \ keyed /\ (c.op = "profile" => c.who \in HasProfile)
           /\ (c.op = "news" => c.who \in HasNews) -> "not_configured"
      [] c.who = "stub" -> "disabled"
      [] c.op = "profile" /\ c.who \notin HasProfile -> "disabled"
      [] c.op = "news" /\ c.who \notin HasNews -> "disabled"
      [] c.op = "profile" /\ "symbol" \notin c.facts /\ c.who \in {"fmp", "alpha_vantage", "symbol_universe", "akshare"}
           -> "empty"
      [] c.op = "profile" /\ c.who \in {"gleif", "wikidata"} /\ c.facts \cap {"lei", "name"} = {} -> "empty"
      [] c.op = "news" /\ c.facts \cap {"symbol", "name"} = {} -> "empty"
      [] OTHER -> "none"

StartCall(who, op, facts) ==
    /\ call = NoCall
    /\ callsMade < MaxProviderCalls
    /\ callsMade' = callsMade + 1
    /\ LET c == CallOf(who, op, facts) IN
         IF who = "xueqiu_external" /\ op = "search"
         THEN Answers(c, FALSE, "none")
         ELSE IF Missing(c) # "none" THEN Answers(c, FALSE, Missing(c))
         ELSE call' = c /\ answer' = NoAnswer
    /\ UNCHANGED <<file, bundled, keyed>>

(* The providers that make one request; profile of FMP tries an older      *)
(* address when the first cannot be reached.                               *)
OneRequest(c) ==
    \/ c.who \in {"alpha_vantage", "marketaux", "opencorporates", "companies_house", "norway_brreg", "fmp"}
    \/ c.who \in {"gleif", "wikidata"} /\ c.op = "search"

AskOnce ==
    /\ call # NoCall /\ OneRequest(call)
    /\ \E o \in Outcomes(call) :
         LET c == AfterRequest(call, o) IN
           IF o.kind = "fault" /\ c.who = "fmp" /\ c.op = "profile" /\ c.step = 1
           THEN call' = [c EXCEPT !.step = 2] /\ UNCHANGED answer
           ELSE IF o.kind # "ok" THEN Answers(c, FALSE, ErrorOf(o))
           ELSE FoundOr(c, Parsed(c.who, c.op, o.rows) # {}, "empty")
    /\ FilesStay

(* test_connection of FMP and Alpha Vantage looks at the reply's form      *)
(* only, that of the others is a search or a look for news.                *)
TestForm(who) ==
    /\ call = NoCall
    /\ callsMade < MaxProviderCalls
    /\ callsMade' = callsMade + 1
    /\ LET c == CallOf(who, "test", {}) IN
         IF who \notin keyed THEN Answers(c, FALSE, "not_configured")
         ELSE \E o \in Outcomes(c) :
                Answers(AfterRequest(c, o), o.kind = "ok", IF o.kind = "ok" THEN "none" ELSE ErrorOf(o))
    /\ UNCHANGED <<file, bundled, keyed>>

(* The feeds are asked until there are rows enough; the first error is     *)
(* told when there are none.                                               *)
Feeds == 2

(* Mutant: an address that cannot be reached is passed over in silence.    *)
AskFeedSilently ==
    /\ call # NoCall /\ call.who = "rss"
    /\ \E o \in Outcomes(call) :
         LET rows == call.rows \/ ParseRssNews(o.rows) # {}
             c == [AfterRequest(call, o) EXCEPT !.rows = rows]
         IN  IF c.step < Feeds /\ ~rows
             THEN call' = [c EXCEPT !.step = @ + 1] /\ UNCHANGED answer
             ELSE FoundOr(c, rows, IF c.error = "none" THEN "empty" ELSE c.error)
    /\ FilesStay

AskFeed ==
    /\ call # NoCall /\ call.who = "rss"
    /\ \E o \in Outcomes(call), enough \in BOOLEAN :
         LET rows == call.rows \/ ParseRssNews(o.rows) # {}
             c == [AfterRequest(call, o) EXCEPT !.rows = rows,
                                         !.error = IF o.kind = "ok" \/ @ # "none" THEN @ ELSE ErrorOf(o)]
         IN  IF c.step < Feeds /\ ~(rows /\ enough)
             THEN call' = [c EXCEPT !.step = @ + 1] /\ UNCHANGED answer
             ELSE FoundOr(c, rows, IF c.error = "none" THEN "empty" ELSE c.error)
    /\ FilesStay

-----------------------------------------------------------------------------
(* Bundled indexes.  A stage is looked at only when the ones before it     *)
(* found nothing; a symbol that matches ends the search of anything but a  *)
(* name, and the fuzzy stages add to the prefixes.                         *)

IndexStages == {"exact", "name", "prefix", "fts", "ngram"}

StagesUsed(hits, isName) ==
    IF "exact" \in hits /\ ~isName THEN {"exact"}
    ELSE IF hits \cap {"exact", "name"} # {} THEN hits \cap {"exact", "name"}
    ELSE hits

(* The rows' scores decide for the symbol universe, not for the other.     *)
SearchIndex ==
    /\ call # NoCall /\ call.who \in {"symbol_universe", "china_hk_symbol_index"} /\ call.op = "search"
    /\ \/ bundled = "missing" /\ Answers(call, FALSE, "index_missing")
       \/ /\ bundled = "broken"
          /\ \E error \in {"index_corrupted", "provider_unavailable"} : Answers(call, FALSE, error)
       \/ /\ bundled = "present"
          /\ \E hits \in SUBSET IndexStages, isName \in BOOLEAN, r \in Replied :
               LET rows == IF StagesUsed(hits, isName) = {} THEN {} ELSE {r}
                   kept == IF call.who = "symbol_universe" THEN ParseUniverse(rows) ELSE ParseChinaHk(rows)
               IN  FoundOr(call, kept # {}, "empty")
    /\ FilesStay

(* The universe makes a profile of what the search result says even        *)
(* without a row; the other index needs the row.                           *)
ProfileFromIndex ==
    /\ call # NoCall /\ call.who \in {"symbol_universe", "china_hk_symbol_index"} /\ call.op = "profile"
    /\ \/ bundled = "missing" /\ Answers(call, FALSE, "index_missing")
       \/ bundled = "broken" /\ Answers(call, FALSE, "index_corrupted")
       \/ /\ bundled = "present"
          /\ \E row \in BOOLEAN : FoundOr(call, row \/ call.who = "symbol_universe", "empty")
    /\ FilesStay

SearchPackage ==
    /\ call # NoCall /\ call.who = "finance_database"
    /\ \/ Answers(call, FALSE, "dependency_missing")
       \/ Answers(AfterRequest(call, [kind |-> "fault"]), FALSE, "provider_unavailable")
       \/ \E rows \in {{}} \cup {{r} : r \in Replied} :
            FoundOr(AfterRequest(call, [kind |-> "ok"]), ParseUniverse(rows) # {}, "empty")
    /\ FilesStay

-----------------------------------------------------------------------------
(* Directories that are kept in files for a day.                           *)

FilesOf(who) == IF who = "akshare" THEN <<"cn_list", "hk_list">> ELSE <<"nasdaqlisted", "otherlisted">>

(* One file of the two: fresh, or asked for; when it cannot be had, an old *)
(* copy is used.  old counts the copies used after a failure; an AKShare   *)
(* list without rows is not kept, a directory is kept when it has text.    *)
ReadFile(c, f, o, rows) ==
    LET kept == IF c.who = "akshare" THEN ParseAkshare(rows) ELSE ParseNasdaq(rows)
        more == c.rows \/ kept # {}
    IN  IF file[f] = "fresh" THEN [c EXCEPT !.rows = more]
        ELSE IF o = "ok" THEN [AfterRequest(c, [kind |-> "ok"]) EXCEPT !.rows = more]
        ELSE LET asked == AfterRequest(c, [kind |-> "fault"]) IN
             IF file[f] = "stale" THEN [asked EXCEPT !.rows = more, !.old = @ + 1]
             ELSE [asked EXCEPT !.error = IF @ = "none" THEN "provider_unavailable" ELSE @]

(* An error is told when there are no rows.  (The directory would tell one  *)
(* beside rows when neither file could be had, and then there are none.)   *)
SearchFiles ==
    /\ call # NoCall /\ call.who \in {"akshare", "nasdaq_directory"} /\ call.op = "search"
    /\ call.who = "akshare" => bundled # "missing"
    /\ \E o \in {"ok", "fault"}, rows \in {{}} \cup {{r} : r \in Replied} :
         LET f == FilesOf(call.who)[call.step]
             c == ReadFile(call, f, o, rows)
         IN  /\ file' = IF file[f] # "fresh" /\ o = "ok" /\ (call.who = "akshare" => rows # {})
                        THEN [file EXCEPT ![f] = "fresh"] ELSE file
             /\ IF c.step = 1 THEN call' = [c EXCEPT !.step = 2] /\ UNCHANGED answer
                ELSE FoundOr(c, c.rows, IF c.error = "none" THEN "empty" ELSE c.error)
    /\ UNCHANGED <<bundled, keyed, callsMade>>

(* AKShare is a package, which may be missing.                             *)
NoAkshare ==
    /\ call # NoCall /\ call.who = "akshare" /\ bundled = "missing"
    /\ call.op = "profile" => file["cn_profile"] # "fresh"
    /\ Answers(call, FALSE, "dependency_missing")
    /\ FilesStay

(* search_cached: the copies there are, old or not, and no request.        *)
SearchCachedFiles ==
    /\ call # NoCall /\ call.who = "nasdaq_directory" /\ call.op = "cached"
    /\ LET there == \E f \in Files : f \in {"nasdaqlisted", "otherlisted"} /\ file[f] # "none" IN
         \E r \in BOOLEAN : FoundOr(call, there /\ r, IF there THEN "empty" ELSE "cache_miss")
    /\ FilesStay

AkshareProfile ==
    /\ call # NoCall /\ call.who = "akshare" /\ call.op = "profile"
    /\ bundled # "missing" \/ file["cn_profile"] = "fresh"
    /\ \E o \in Outcomes(call) :
         IF file["cn_profile"] = "fresh"
         THEN Answers(call, TRUE, "none") /\ UNCHANGED file
         ELSE LET c == AfterRequest(call, o) IN
              IF o.kind = "ok"
              THEN LET found == ParseAkshareProfile(o.rows) # {} IN
                   /\ FoundOr(c, found, "empty")
                   /\ file' = IF found THEN [file EXCEPT !["cn_profile"] = "fresh"] ELSE file
              ELSE /\ FoundOr([c EXCEPT !.old = 1], file["cn_profile"] = "stale", "provider_unavailable")
                   /\ UNCHANGED file
    /\ UNCHANGED <<bundled, keyed, callsMade>>

-----------------------------------------------------------------------------
(* Profiles of an entity found by its name.                                *)

(* The best candidate is taken when it is good and clear of the next one.  *)
GleifResolves(scores, tied) ==
    LET best == CHOOSE s \in scores : \A t \in scores : t <= s
        rest == scores \ {best}
    IN  scores # {} /\ best >= 90 /\ ~tied /\ \A t \in rest : best - t >= 8

Scores == {r.score : r \in Replied}

AskGleifProfile ==
    /\ call # NoCall /\ call.who = "gleif" /\ call.op = "profile"
    /\ \E o \in Outcomes(call), scores \in SUBSET Scores, tied \in BOOLEAN :
         LET c == AfterRequest(call, o) IN
           IF c.step = 1 /\ "lei" \notin c.facts
           THEN IF o.kind # "ok" THEN Answers(c, FALSE, ErrorOf(o))
                ELSE IF GleifResolves(scores, tied) THEN call' = [c EXCEPT !.step = 2] /\ UNCHANGED answer
                ELSE Answers(c, FALSE, "empty")
           ELSE IF o.kind # "ok" THEN Answers(c, FALSE, ErrorOf(o))
           ELSE FoundOr(c, ParseGleif(o.rows) # {}, "empty")
    /\ FilesStay

(* Names are searched until one matches very well, four at most; the error *)
(* told in the end is that of the last search that had one.  Step 5 asks   *)
(* for the entity, which must match the company too.                       *)
WikidataTerms == 4

SearchError(o) == IF o.kind # "ok" THEN ErrorOf(o) ELSE IF o.rows = {} THEN "empty" ELSE "none"

SearchWikidataName ==
    /\ call # NoCall /\ call.who = "wikidata" /\ call.op = "profile"
    /\ call.step <= WikidataTerms /\ "lei" \notin call.facts
    /\ \E o \in Outcomes(call), more \in BOOLEAN :
         LET best == IF o.rows = {} THEN 0 ELSE (CHOOSE r \in o.rows : TRUE).score
             c == [AfterRequest(call, o) EXCEPT !.top = IF best > @ THEN best ELSE @,
                                         !.error = IF SearchError(o) = "none" THEN @ ELSE SearchError(o)]
         IN  IF best < 90 /\ more /\ c.step < WikidataTerms
             THEN call' = [c EXCEPT !.step = @ + 1] /\ UNCHANGED answer
             ELSE IF c.top < 80 THEN Answers(c, FALSE, IF c.error = "none" THEN "empty" ELSE c.error)
             ELSE call' = [c EXCEPT !.step = WikidataTerms + 1] /\ UNCHANGED answer
    /\ FilesStay

AskWikidataEntity ==
    /\ call # NoCall /\ call.who = "wikidata" /\ call.op = "profile"
    /\ call.step > WikidataTerms \/ "lei" \in call.facts
    /\ \E o \in Outcomes(call), matches \in BOOLEAN :
         LET c == AfterRequest(call, o) IN
           IF o.kind # "ok" THEN Answers(c, FALSE, ErrorOf(o))
           ELSE FoundOr(c, ParseWikidataProfile(o.rows) # {} /\ matches, "empty")
    /\ FilesStay

-----------------------------------------------------------------------------

FileExpires(f) ==
    /\ file[f] = "fresh"
    /\ file' = [file EXCEPT ![f] = "stale"]
    /\ UNCHANGED <<call, answer, bundled, keyed, callsMade>>

CompanyFacts == SUBSET {"symbol", "lei", "name"}

ProvidersNext ==
    \/ \E who \in ProviderFor : \/ StartCall(who, "search", {"name"})
                                \/ \E facts \in CompanyFacts : StartCall(who, "profile", facts)
                                \/ \E facts \in SUBSET {"symbol", "name"} : StartCall(who, "news", facts)
    \/ StartCall("nasdaq_directory", "cached", {"name"})
    \/ \E who \in {"fmp", "alpha_vantage"} : TestForm(who)
    \/ AskOnce \/ AskFeed \/ SearchIndex \/ ProfileFromIndex \/ SearchPackage
    \/ SearchFiles \/ NoAkshare \/ SearchCachedFiles \/ AkshareProfile
    \/ AskGleifProfile \/ SearchWikidataName \/ AskWikidataEntity
    \/ \E f \in Files : FileExpires(f)

ProvidersSpec == ProvidersInit /\ [][ProvidersNext]_providersVars

-----------------------------------------------------------------------------

(* A provider that looks in several places says "nothing found" only when  *)
(* each of them could be looked at, or an old copy of it.                  *)
Collecting == {"rss", "nasdaq_directory", "akshare"}

(* Nothing found and no source reached are told apart.  A call ends with   *)
(* rows or a reason, except that of the external link, and not with both   *)
(* (the directory could, with rows and both files failed: it never is); it *)
(* says that nothing was found only when the last request it made was      *)
(* answered, and those that look in several places only when each could be *)
(* looked at; and without its key it asks nobody.                          *)
OutageIsToldApart ==
    /\ answer.who \notin {"none", "xueqiu_external"} => (answer.found <=> answer.error = "none")
    /\ answer.error = "empty" =>
         IF answer.who \in Collecting THEN answer.faults = answer.old ELSE answer.last = "ok"
    /\ answer.error = "not_configured" => answer.asked = 0
=============================================================================
