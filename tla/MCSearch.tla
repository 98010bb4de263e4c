------------------------------ MODULE MCSearch ------------------------------
(* The two stages of the search service, the ranking of what they find,    *)
(* the indexes they look into, and the profile and news fetched for what   *)
(* was found, checked side by side: a behaviour is one of the part chosen  *)
(* at its start, and the others stand still.                               *)
EXTENDS LocalSearch, EnrichSearch, Ranking, SymbolIndex, Profiles, TLC

CONSTANTS c1, c2

VARIABLE part

searchVars == <<part, localVars, enrichVars, rankingVars, indexVars, detailsVars>>

MCKnows == [k \in SearchKeys |-> {"china_hk", "nasdaq", "akshare"}]
MCLocalOf == [k \in SearchKeys |-> <<"china_hk", "universe", "nasdaq">>]
MCRemote == <<"akshare", "wikidata">>

(* A listed company; one of the same name, listed elsewhere and registered *)
(* under a number; and one registered elsewhere under that number.         *)
MCFacts ==
    [a |-> [name |-> "alpha", symbol |-> <<"", "ALP">>, exchange |-> "NASDAQ", market |-> "US", country |-> "us",
            lei |-> "L1", wikidata_id |-> "Q1", jurisdiction |-> "us", company_number |-> "",
            source_url |-> "url", fund |-> FALSE],
     b |-> [name |-> "alpha", symbol |-> <<"HK", "700">>, exchange |-> "HKEX", market |-> "HK", country |-> "hk",
            lei |-> "L2", wikidata_id |-> "Q2", jurisdiction |-> "hk", company_number |-> "7",
            source_url |-> "url", fund |-> FALSE],
     d |-> [name |-> "alpha two", symbol |-> <<>>, exchange |-> "", market |-> "", country |-> "uk",
            lei |-> "L3", wikidata_id |-> "", jurisdiction |-> "uk", company_number |-> "7",
            source_url |-> "", fund |-> TRUE]]

MCSpelling == [p \in DOMAIN Copies |-> IF p = "fmp" THEN "padded" ELSE "usual"]

MCKnownTo ==
    [p \in DOMAIN Copies |->
       CASE p = "china_hk_symbol_index" -> {"b"} [] p = "gleif" -> {"a", "d"} [] p = "opencorporates" -> {"b", "d"}
         [] OTHER -> {"a", "b"}]

MCLocalAsked == <<"china_hk_symbol_index", "symbol_universe", "nasdaq_directory">>

MCQueries ==
    {[prefix |-> "", body |-> "words", code |-> "", begins |-> "", long |-> TRUE, seeded |-> {"a"},
      collides |-> {"b"}, alike |-> [a |-> "strong", b |-> "exact", d |-> "fair"]],
     [prefix |-> "", body |-> "letters", code |-> "ALP", begins |-> "", long |-> FALSE, seeded |-> {},
      collides |-> {}, alike |-> [a |-> "acronym", b |-> "weak", d |-> "none"]],
     [prefix |-> "SH", body |-> "words", code |-> "SHELL", begins |-> "", long |-> TRUE, seeded |-> {},
      collides |-> {}, alike |-> [a |-> "exact", b |-> "fair", d |-> "none"]]}

MCListing ==
    [sh6 |-> [market |-> "SH", digits |-> <<6, 0, 0, 5, 1, 9>>],
     sh9 |-> [market |-> "SH", digits |-> <<9, 0, 0, 9, 0, 1>>],
     sz0 |-> [market |-> "SZ", digits |-> <<0, 0, 0, 0, 0, 1>>],
     bj4 |-> [market |-> "BJ", digits |-> <<4, 3, 0, 0, 4, 7>>],
     hk7 |-> [market |-> "HK", digits |-> <<0, 0, 7, 0, 0>>],
     hk1 |-> [market |-> "HK", digits |-> <<0, 0, 0, 0, 1>>]]

MCLocalSource == (c1 :> "symbol_universe") @@ (c2 :> "wikidata")

Init ==
    /\ part \in {"local", "remote", "rank", "index", "details"}
    /\ LocalInit
    /\ EnrichInit
    /\ RankingInit
    /\ IndexInit
    /\ DetailsInit
    /\ part = "rank" \/ query.kind = "name"

Next ==
    \/ /\ part = "local"
       /\ LocalNext
       /\ UNCHANGED <<part, disk, future, harvest, late, noteVars, rankingVars, indexVars, detailsVars>>
    \/ /\ part = "remote"
       /\ EnrichNext
       /\ UNCHANGED <<part, localAt, memory, rankingVars, indexVars, detailsVars>>
    \/ /\ part = "rank"
       /\ RankingNext
       /\ UNCHANGED <<part, localVars, enrichVars, indexVars, detailsVars>>
    \/ /\ part = "index"
       /\ IndexNext
       /\ UNCHANGED <<part, localVars, enrichVars, rankingVars, detailsVars>>
    \/ /\ part = "details"
       /\ DetailsNext
       /\ UNCHANGED <<part, localVars, enrichVars, rankingVars, indexVars>>

Spec == Init /\ [][Next]_searchVars

(* Searches and keys are told apart by equality only. *)
Symmetry == Permutations(Searches) \cup Permutations(SearchKeys)
=============================================================================
