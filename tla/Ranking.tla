------------------------------- MODULE Ranking -------------------------------
(***************************************************************************)
(* From a query to the cards of the search page (public_api/query.py,      *)
(* seed_aliases.py, search_query_plan.py, ranking.py, the merging of       *)
(* search_service.py and the groups of ui/pages/search.py).                *)
(*                                                                         *)
(* The sources answer with rows about companies; a row carries the fields  *)
(* its parser copies, as far as the reply holds them.  Rows are scored,    *)
(* rows with the same canonical key are merged, and the list is sorted     *)
(* and cut: once for the local answers, once for the supplement, and once  *)
(* more for both together, whose local rows bear scores already.           *)
(*                                                                         *)
(* A text is told by its prefix and its body; how alike the names of a     *)
(* company are to it is a level.  An absent field is "".                   *)
(***************************************************************************)
EXTENDS Naturals, Sequences, FiniteSets, SequencesExt, Lists

CONSTANTS
    Companies,   \* what the rows are about
    Facts,       \* by company: what is true of it, a record of the identity fields
    Spelling,    \* by provider: how it writes symbols
    KnownTo,     \* by provider: the companies it knows
    Queries,     \* [prefix, body, code, seeded, alike: [Companies -> Levels]]
    LocalAsked,  \* local providers, in the order of the search
    OnlineAsked, \* online providers
    Cut          \* the limit of a search

VARIABLES
    query,       \* the query analysed
    toAsk,       \* local providers still to be asked
    awaited,     \* online providers still to answer
    found,    \* rows of this stage, in the order of the answers
    cards,       \* the rows of the response
    supplement,  \* the cached response of the enrichment, or NoSupplement
    rankAt

rankingVars == <<query, toAsk, awaited, found, cards, supplement, rankAt>>

-----------------------------------------------------------------------------
(* Queries.                                                                *)

Levels == {"exact", "acronym", "strong", "fair", "weak", "none"}

(* A prefix is taken from any text that begins with its letters: "SH" and  *)
(* words is the name of a company that starts with SH.                     *)
SymbolOf(q) ==
    CASE q.prefix = "HK" -> IF q.body \in {"five digits", "six digits"} THEN <<"HK", q.code>> ELSE <<>>
      [] q.prefix = "SH" -> IF q.body = "six digits" THEN <<"SH", q.code>> ELSE <<"", q.code>>
      [] q.prefix = "US" -> <<"", q.code>>
      [] q.prefix = "" -> CASE q.body \in {"lei", "letters"} -> <<"", q.code>>
                            [] q.body = "five digits" -> <<"HK", q.code>>
                            [] q.body = "six digits" -> <<q.begins, q.code>>
                            [] q.body = "words" -> <<>>

KindForSymbol(q) ==
    IF q.prefix = "HK" THEN "hk_symbol"
    ELSE IF q.prefix = "SH" THEN "cn_symbol"
    ELSE IF q.body = "lei" THEN "lei"
    ELSE "us_symbol"

AnalyzeQuery(q) ==
    [text   |-> q,
     symbol |-> SymbolOf(q),
     kind   |-> IF q.prefix # "" THEN KindForSymbol(q)
                ELSE CASE q.body = "lei" -> "lei"
                       [] q.body = "five digits" -> "hk_symbol"
                       [] q.body = "six digits" -> "cn_symbol"
                       [] q.body = "letters" -> "us_symbol"
                       [] q.body = "words" -> "name"]

(* build_search_query_plan: names may be looked for by likeness, from      *)
(* three characters on.                                                    *)
AllowsFuzzy(q) == q.kind = "name" /\ q.text.long

(* _provider_query_variants: the terms a provider is asked for; GLEIF is   *)
(* asked for nothing shorter than four characters.                         *)
QueryVariants(p, q) ==
    LET preferred == IF p \in {"fmp", "alpha_vantage", "nasdaq_directory"} THEN <<"symbol", "original">>
                     ELSE <<"without suffix", "original">>
    IN  SelectSeq(preferred, LAMBDA term : /\ term = "symbol" => q.symbol # <<>>
                                           /\ p = "gleif" => q.text.long)

-----------------------------------------------------------------------------
(* Rows.                                                                   *)

Authority ==
    [china_hk_symbol_index |-> 93, symbol_universe |-> 91, fmp |-> 96, alpha_vantage |-> 94,
     nasdaq_directory |-> 90, gleif |-> 82, companies_house |-> 80, norway_brreg |-> 78,
     opencorporates |-> 76, wikidata |-> 64]

AuthorityOf(p) == IF p \in DOMAIN Authority THEN Authority[p] ELSE 50

ListedProviders == {"china_hk_symbol_index", "symbol_universe", "fmp", "alpha_vantage", "nasdaq_directory"}

LegalProviders == {"gleif", "opencorporates", "companies_house", "norway_brreg"}

IdentityFields == {"symbol", "exchange", "market", "country", "lei", "wikidata_id", "jurisdiction",
                   "company_number", "source_url"}

(* The identity fields each parser copies. *)
Copies ==
    [fmp                   |-> {"symbol", "exchange", "market", "source_url"},
     alpha_vantage         |-> {"symbol", "market", "country", "source_url"},
     symbol_universe       |-> {"symbol", "exchange", "market", "country", "source_url"},
     china_hk_symbol_index |-> {"symbol", "exchange", "market", "country", "source_url"},
     akshare               |-> {"symbol", "exchange", "market", "country", "source_url"},
     nasdaq_directory      |-> {"symbol", "exchange", "market", "country", "source_url"},
     gleif                 |-> {"lei", "jurisdiction", "country", "source_url"},
     wikidata              |-> {"wikidata_id", "source_url"},
     opencorporates        |-> {"company_number", "jurisdiction", "source_url"},
     companies_house       |-> {"company_number", "jurisdiction", "country", "source_url"},
     norway_brreg          |-> {"company_number", "jurisdiction", "country", "source_url"}]

CategoryOf(p) ==
    CASE p = "china_hk_symbol_index" -> "listed_company"
      [] p \in {"gleif", "wikidata"} -> "global"
      [] p \in {"opencorporates", "companies_house", "norway_brreg"} -> "registry"
      [] OTHER -> "financial"

(* What a parser makes of the likeness. *)
BaseScore ==
    [exact |-> 100, acronym |-> 90, strong |-> 90, fair |-> 76, weak |-> 60, none |-> 30]

ExactSymbol(symbol, q) == q.kind # "name" /\ symbol # <<>> /\ <<symbol[1], symbol[2]>> = q.symbol

(* The global index keeps Yahoo's names of exchanges. *)
YahooNames == [HKEX |-> "HKG", SSE |-> "SHH", SZSE |-> "SHZ", NASDAQ |-> "NMS", NYSE |-> "NYQ"]

ExchangeName(p, exchange) ==
    IF p = "symbol_universe" /\ exchange \in DOMAIN YahooNames THEN YahooNames[exchange] ELSE exchange

(* A row of a reply, without the fields that are left out of it. *)
RowOf(p, c, q, left) ==
    LET symbol == IF Facts[c].symbol = <<>> \/ "symbol" \notin Copies[p] THEN <<>>
                  ELSE Facts[c].symbol \o <<Spelling[p]>>
        exchange == ExchangeName(p, Facts[c].exchange)
        copied(f, value) == IF f \in Copies[p] \ left THEN value ELSE ""
    IN  [of |-> {c}, name |-> Facts[c].name, provider |-> p, category |-> CategoryOf(p),
         sources |-> {p}, reason |-> "provider", symbol |-> symbol,
         score |-> IF p \in ListedProviders /\ ExactSymbol(symbol, q) THEN 100
                   ELSE BaseScore[q.text.alike[c]],
         exchange |-> copied("exchange", exchange),
         market |-> copied("market", IF p = "fmp" THEN exchange ELSE Facts[c].market),
         country |-> copied("country", Facts[c].country),
         lei |-> copied("lei", Facts[c].lei),
         wikidata_id |-> copied("wikidata_id", Facts[c].wikidata_id),
         jurisdiction |-> copied("jurisdiction", Facts[c].jurisdiction),
         company_number |-> copied("company_number", Facts[c].company_number),
         source_url |-> copied("source_url", Facts[c].source_url)]

ASSUME RankingAssumption ==
    /\ IsFiniteSet(Companies) /\ Cut \in Nat
    /\ LocalAsked \in Seq(DOMAIN Copies) /\ OnlineAsked \subseteq DOMAIN Copies
    /\ \A p \in DOMAIN Copies : KnownTo[p] \subseteq Companies
    /\ \A q \in Queries : q.alike \in [Companies -> Levels]
    /\ \A c \in Companies : Facts[c].symbol = <<>> \/ Facts[c].symbol \in STRING \X STRING

PlacesOf(c) ==
    {Facts[c].exchange, ExchangeName("symbol_universe", Facts[c].exchange), Facts[c].market} \ {""}

(* What the keys of ranking.py take for granted: only what has a symbol is *)
(* on an exchange, a number is one of a register, and two companies share  *)
(* no symbol at one place, no identifier, and no name in one country.      *)
ASSUME IdentifiersAssumption ==
    /\ \A c \in Companies : /\ Facts[c].symbol = <<>> => PlacesOf(c) = {}
                            /\ Facts[c].company_number # "" => Facts[c].jurisdiction # ""
    /\ \A c, d \in Companies : c # d =>
         /\ Facts[c].symbol = Facts[d].symbol => PlacesOf(c) \cap PlacesOf(d) = {}
         /\ Facts[c].lei = Facts[d].lei => Facts[c].lei = ""
         /\ Facts[c].wikidata_id = Facts[d].wikidata_id => Facts[c].wikidata_id = ""
         /\ Facts[c].jurisdiction = Facts[d].jurisdiction /\ Facts[c].company_number = Facts[d].company_number
              => Facts[c].company_number = ""
         /\ Facts[c].name = Facts[d].name /\ Facts[c].country = Facts[d].country => Facts[c].country = ""

(* Directories and indexes keep only rows that are alike enough. *)
LeastScore(p) == CASE p \in {"symbol_universe", "akshare"} -> 55 [] p = "nasdaq_directory" -> 60 [] OTHER -> 0

(* The index is searched by likeness only when the plan allows it. *)
Finds(p, row, q) ==
    /\ row.score >= LeastScore(p)
    /\ p \in {"symbol_universe", "china_hk_symbol_index"} =>
         \/ AllowsFuzzy(q) \/ row.score >= 86

IsListed(row) == row.category = "financial" \/ row.provider \in ListedProviders \/ row.symbol # <<>>

IsLegalEntity(row) == row.category \in {"registry", "global"} /\ row.provider \in LegalProviders

-----------------------------------------------------------------------------
(* Scores.                                                                 *)

Largest(a, b) == IF a > b THEN a ELSE b

Smallest(a, b) == IF a < b THEN a ELSE b

CompanyOf(row) == CHOOSE c \in row.of : TRUE

EarnedByLikeness == [acronym |-> 90, strong |-> 80, fair |-> 70, weak |-> 55]

(* The first match that applies, the score it earns at least, and why. *)
Earned(row, q) ==
    LET level == q.text.alike[CompanyOf(row)] IN
    IF q.kind = "lei" /\ row.lei # "" /\ row.lei = q.text.code THEN <<100, "lei">>
    ELSE IF ExactSymbol(row.symbol, q) THEN <<100, "exact symbol">>
    ELSE IF level = "exact" THEN <<Largest(row.score, 95), "name">>
    ELSE IF CompanyOf(row) \in q.text.seeded THEN <<Largest(row.score, 93), "alias">>
    ELSE IF level \in DOMAIN EarnedByLikeness THEN <<Largest(row.score, EarnedByLikeness[level]), level>>
    ELSE <<row.score, row.reason>>

ScoreCompany(row, q) ==
    LET earned == Earned(row, q)
        bonus == (IF AuthorityOf(row.provider) > 70 THEN Smallest(8, (AuthorityOf(row.provider) - 70) \div 5) ELSE 0)
                 + (IF row.symbol # <<>> /\ row.exchange # "" THEN 4 ELSE 0)
        malus == (IF row.symbol = <<>> /\ {row.lei, row.wikidata_id, row.company_number, row.source_url} = {""}
                  THEN 10 ELSE 0)
                 + (IF Facts[CompanyOf(row)].fund /\ q.kind = "name" THEN 15 ELSE 0)
                 + (IF row.provider = "wikidata" /\ q.symbol # <<>> THEN 12 ELSE 0)
                 + (IF q.kind = "name" /\ CompanyOf(row) \in q.text.collides \ q.text.seeded THEN 30 ELSE 0)
    IN  [row EXCEPT !.score = Smallest(100, IF earned[1] + bonus > malus THEN earned[1] + bonus - malus ELSE 0),
                    !.reason = earned[2]]

(* _sort_tuple: an exact symbol, the score, listed or not, authority. *)
Weight(row) ==
    (IF row.reason = "exact symbol" THEN 1000000 ELSE 0) + row.score * 1000
    + (IF IsListed(row) THEN 500 ELSE 0) + AuthorityOf(row.provider)

-----------------------------------------------------------------------------
(* Merging.                                                                *)

(* However a provider writes it: with a dash or a point, padded or not. *)
CanonicalSymbol(symbol) == <<symbol[1], symbol[2]>>

(* Mutant: the number in a register, whichever register. *)
KeyByNumber(row) ==
    IF row.symbol # <<>> /\ row.exchange # "" THEN <<"symbol", CanonicalSymbol(row.symbol), row.exchange>>
    ELSE IF row.lei # "" THEN <<"lei", row.lei>>
    ELSE IF row.company_number # "" THEN <<"registry", row.company_number>>
    ELSE <<"name", row.name>>

CanonicalCompanyKey(row) ==
    IF row.symbol # <<>> /\ row.exchange # "" THEN <<"symbol", CanonicalSymbol(row.symbol), row.exchange>>
    ELSE IF row.symbol # <<>> /\ row.market # "" THEN <<"symbol-market", CanonicalSymbol(row.symbol), row.market>>
    ELSE IF row.lei # "" THEN <<"lei", row.lei>>
    ELSE IF row.wikidata_id # "" THEN <<"wikidata", row.wikidata_id>>
    ELSE IF row.company_number # "" /\ row.jurisdiction # "" THEN <<"registry", row.jurisdiction, row.company_number>>
    ELSE IF row.country # "" THEN <<"name-country", row.name, row.country>>
    ELSE <<"name", row.name>>

(* _fill_missing_fields *)
Filled(primary, secondary) ==
    [f \in DOMAIN primary |->
       CASE f = "symbol" -> IF primary.symbol = <<>> THEN secondary.symbol ELSE primary.symbol
         [] f \in IdentityFields \ {"symbol"} -> IF primary[f] = "" THEN secondary[f] ELSE primary[f]
         [] f = "of" -> primary.of \cup secondary.of
         [] f = "sources" -> primary.sources \cup secondary.sources
         [] OTHER -> primary[f]]

MergeCompany(existing, incoming) ==
    LET newer == Weight(incoming) > Weight(existing)
        primary == IF newer THEN incoming ELSE existing
        secondary == IF newer THEN existing ELSE incoming
        merged == Filled(primary, secondary)
    IN  IF primary.provider = secondary.provider THEN merged
        ELSE [merged EXCEPT !.score = Smallest(100, Largest(primary.score, secondary.score) + 3),
                            !.reason = "several sources"]

(* A scored row among those that came before it, one to a key. *)
WithRow(entries, row) ==
    LET key == CanonicalCompanyKey(row)
    IN  IF \E i \in DOMAIN entries : entries[i].key = key
        THEN [entries EXCEPT ![CHOOSE i \in DOMAIN entries : entries[i].key = key].row = MergeCompany(@, row)]
        ELSE Append(entries, [key |-> key, row |-> row])

(* The rows under their keys, in the order in which the keys came. *)
Deduped(rows, q) ==
    LET upTo[n \in 0..Len(rows)] == IF n = 0 THEN <<>> ELSE WithRow(upTo[n - 1], ScoreCompany(rows[n], q))
    IN  upTo[Len(rows)]

(* The heavier ones first, those of one weight as they came. *)
ComesBefore(entries, i, j) ==
    \/ Weight(entries[i].row) > Weight(entries[j].row)
    \/ Weight(entries[i].row) = Weight(entries[j].row) /\ i < j

Place(entries, i) == 1 + Cardinality({j \in DOMAIN entries : ComesBefore(entries, j, i)})

RankAndDedupe(rows, q) ==
    LET entries == Deduped(rows, q)
    IN  [n \in DOMAIN entries |-> entries[CHOOSE i \in DOMAIN entries : Place(entries, i) = n].row]

FirstOnes(rows) == SubSeq(rows, 1, Smallest(Len(rows), Cut))

(* _merge_search_responses *)
MergeResponses(local, online, q) == FirstOnes(RankAndDedupe(local \o online, q))

-----------------------------------------------------------------------------
(* The page.                                                               *)

Scopes == {"all", "financial", "entity", "related"}

(* CompanyResult.dedupe_key *)
DedupeKey(row) ==
    IF row.lei # "" THEN <<"lei", row.lei>>
    ELSE IF row.symbol # <<>> /\ row.exchange # "" THEN <<"symbol", row.symbol, row.exchange>>
    ELSE IF row.company_number # "" /\ row.jurisdiction # "" THEN <<"registry", row.jurisdiction, row.company_number>>
    ELSE IF row.wikidata_id # "" THEN <<"wikidata", row.wikidata_id>>
    ELSE IF row.symbol # <<>> THEN <<"provider", row.symbol, row.provider>>
    ELSE IF row.company_number # "" THEN <<"provider", row.company_number, row.provider, "number">>
    ELSE <<"name", row.name, row.provider>>

Financial(row) == row.category = "financial" \/ row.provider \in {"fmp", "alpha_vantage", "nasdaq_directory"}

Entity(row) == row.category \in {"global", "registry"} \/ row.provider \in LegalProviders

RowsThat(rows, Wanted(_)) == RowsAt(rows, {i \in DOMAIN rows : Wanted(rows[i])})

PassesFilter(scope, row) ==
    /\ scope = "financial" => Financial(row)
    /\ scope = "entity" => Entity(row)
    /\ scope = "related" => row.score < 85

FilterCompanies(rows, scope) == RowsThat(rows, LAMBDA row : PassesFilter(scope, row))

BestMatches(rows) ==
    LET strong == RowsThat(rows, LAMBDA row : row.score >= 85)
    IN  SubSeq(strong, 1, Smallest(3, Len(strong)))

ShownKeys(rows) == {DedupeKey(row) : row \in ToSet(rows)}

(* Each group leaves out the keys of those before it; the last one is for  *)
(* what is below the bound.                                                *)
GroupsBelow(rows, bound) ==
    LET best == BestMatches(rows)
        bestKeys == ShownKeys(best)
        financial == RowsThat(rows, LAMBDA row : DedupeKey(row) \notin bestKeys /\ Financial(row))
        listedKeys == bestKeys \cup ShownKeys(financial)
        entity == RowsThat(rows, LAMBDA row : DedupeKey(row) \notin listedKeys /\ Entity(row))
        shownKeys == listedKeys \cup ShownKeys(entity)
        related == RowsThat(rows, LAMBDA row : DedupeKey(row) \notin shownKeys /\ row.score < bound)
    IN  [best |-> best, financial |-> financial, entity |-> entity, related |-> related]

(* Mutant: the limit of group_companies of the service, not of the page. *)
GroupsByPossible(rows) == GroupsBelow(rows, 70)

GroupCompanies(rows) == GroupsBelow(rows, 85)

-----------------------------------------------------------------------------
(* A search, and the same search once more.                                *)

NoSupplement == [rows |-> <<>>, cached |-> FALSE]

RankingInit ==
    /\ \E q \in Queries : query = AnalyzeQuery(q)
    /\ toAsk = LocalAsked /\ awaited = OnlineAsked
    /\ found = <<>> /\ cards = <<>>
    /\ supplement = NoSupplement
    /\ rankAt = "local"

(* What a provider answers: a row for each company it knows, all or the    *)
(* most telling fields of it filled in.                                    *)
Replies(p) ==
    LET rows(left) == {RowOf(p, c, query, left) : c \in KnownTo[p]}
    IN  {SetToSeq({row \in rows(left) : Finds(p, row, query)}) : left \in {{}, {"exchange", "market"}, {"country", "company_number"}}}

AskLocally ==
    /\ rankAt = "local" /\ toAsk # <<>>
    /\ LET p == Head(toAsk) IN
         IF p = "nasdaq_directory" /\ found # <<>> THEN UNCHANGED found
         ELSE \E reply \in Replies(p) : found' = found \o reply
    /\ toAsk' = Tail(toAsk)
    /\ UNCHANGED <<query, awaited, cards, supplement, rankAt>>

(* The time may be over before all are asked. *)
RankLocally ==
    /\ rankAt = "local"
    /\ cards' = FirstOnes(RankAndDedupe(found, query))
    /\ found' = <<>>
    /\ rankAt' = "online"
    /\ UNCHANGED <<query, toAsk, awaited, supplement>>

(* One of the futures that are done, in any order; or one that failed. *)
Harvest(p) ==
    /\ rankAt = "online" /\ ~supplement.cached
    /\ p \in awaited /\ awaited' = awaited \ {p}
    /\ IF QueryVariants(p, query) = <<>> THEN UNCHANGED found
       ELSE \E reply \in Replies(p) \cup {<<>>} : found' = found \o reply
    /\ UNCHANGED <<query, toAsk, cards, supplement, rankAt>>

RankOnline ==
    /\ rankAt = "online" /\ ~supplement.cached /\ awaited = {}
    /\ LET online == FirstOnes(RankAndDedupe(found, query)) IN
         /\ supplement' = [rows |-> online, cached |-> TRUE]
         /\ cards' = MergeResponses(cards, online, query)
    /\ found' = <<>>
    /\ rankAt' = "done"
    /\ UNCHANGED <<query, toAsk, awaited>>

ServeSupplement ==
    /\ rankAt = "online" /\ supplement.cached
    /\ cards' = MergeResponses(cards, supplement.rows, query)
    /\ rankAt' = "done"
    /\ UNCHANGED <<query, toAsk, awaited, found, supplement>>

(* The same text again: the supplement comes from the cache. *)
SearchAgain ==
    /\ rankAt = "done"
    /\ toAsk' = LocalAsked /\ cards' = <<>> /\ rankAt' = "local"
    /\ UNCHANGED <<query, awaited, found, supplement>>

RankingNext ==
    \/ AskLocally \/ RankLocally \/ RankOnline \/ ServeSupplement \/ SearchAgain
    \/ \E p \in OnlineAsked : Harvest(p)

RankingSpec == RankingInit /\ [][RankingNext]_rankingVars

-----------------------------------------------------------------------------

KeysOf(rows) == {CanonicalCompanyKey(rows[i]) : i \in DOMAIN rows}

(* A card is about one company unless its rows had nothing but a name, no  *)
(* two cards have the same key although merging fills in fields, and which *)
(* keys there are does not depend on the order in which the online sources *)
(* answered.                                                               *)
CardsAreCompanies ==
    /\ \A i \in DOMAIN cards : Cardinality(cards[i].of) = 1 \/ CanonicalCompanyKey(cards[i])[1] = "name"
    /\ Cardinality(KeysOf(cards)) = Len(cards)
    /\ KeysOf(RankAndDedupe(found, query)) = KeysOf(RankAndDedupe(Reverse(found), query))

(* A good match beyond the first three that is neither of a category nor   *)
(* of a source the groups ask for has no group.                            *)
Overlooked(row) == row.score >= 85 /\ ~Financial(row) /\ ~Entity(row)

GroupsWith(groups, row) == {g \in DOMAIN groups : row \in ToSet(groups[g])}

(* In every scope each card that passes the filter is in one group, and in *)
(* one only, except those overlooked and those that are taken for a card   *)
(* shown, as a symbol or a name of the same source are all either has.     *)
PageShowsEveryCard ==
    \A scope \in Scopes :
      LET rows == FilterCompanies(cards, scope)
          groups == GroupCompanies(rows)
      IN  \A row \in ToSet(rows) :
            /\ Cardinality(GroupsWith(groups, row)) <= 1
            /\ GroupsWith(groups, row) = {} =>
                 Overlooked(row) \/ \E g \in DOMAIN groups : DedupeKey(row) \in ShownKeys(groups[g])
=============================================================================
