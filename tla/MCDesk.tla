------------------------------- MODULE MCDesk -------------------------------
(***************************************************************************)
(* The parts of the program that meet in files and network replies rather  *)
(* than in shared memory, checked side by side: a behaviour is one of the  *)
(* part chosen at its start, and the other parts stand still.              *)
(***************************************************************************)
EXTENDS SearchPage, Watchlist, ProviderChoice, Monitor, Providers, MCPageFetch, CrawlRuntime, Events,
        ProfileAdoption, TLC

CONSTANTS c1, c2, d1

VARIABLE part

deskVars == <<part, searchPageVars, watchlistVars, choiceVars, monitorVars, providersVars,
              fetchVars, runtimeVars, newsVars, adoptionVars>>

-----------------------------------------------------------------------------
(* Values of the constants.                                                *)

MCMentions == [c \in Contents |-> {"k1"}]

MCReplied ==
    {[with |-> {"name", "symbol", "title", "id", "company"}, score |-> 95],
     [with |-> {"name"}, score |-> 85],
     [with |-> {"symbol", "title"}, score |-> 50]}

MCFirmName == ("f" :> "Alphabet Inc") @@ ("g" :> "Alpha")

MCFirmTicker == ("f" :> "ALPH") @@ ("g" :> "none")

(* A hit told at length comes with an amount and a date, a short one bare. *)
MCHits ==
    {[type |-> t, long |-> rich, words |-> w, explicit |-> rich, amount |-> IF rich THEN "billions" ELSE "none",
      dates |-> rich, counterparties |-> rich, length |-> IF rich THEN 200 ELSE 60] :
        t \in {"bankruptcy", "merger_acquisition", "dividend"}, rich \in BOOLEAN,
        w \in {{}, {"rumored", "announced"}, {"announced"}, {"proposed", "announced"}, {"denied", "completed"}}}

(* An address with marks of both kinds may be anybody's: a page of the SEC *)
(* or a site for investors with "sec.gov" in its query.                    *)
MCNews ==
    {[address |-> marks, says |-> s, alike |-> {[alias |-> "Alphabet Inc", likeness |-> n]}, hits |-> {hit}] :
        marks \in {{"sec.gov", "ir."}, {"/ir"}, {}}, n \in {85, 90},
        s \in {{"ALPH"}, {"Alpha", "Alphabet Inc"}}, hit \in MCHits}

(* Two pages agree, a third says something else. *)
MCSays == ("a" :> "x") @@ ("b" :> "y") @@ ("c" :> "x")

-----------------------------------------------------------------------------

(* The part not chosen starts in one state. *)
DeskInit ==
    /\ part \in {"search", "watchlist", "settings", "monitor", "providers", "fetch", "runtime", "events",
                "adoption"}
    /\ SearchPageInit /\ WatchlistInit /\ ChoiceInit /\ MonitorInit
    /\ ProvidersInit /\ FetchInit /\ RuntimeInit /\ EventsInit /\ AdoptionInit
    /\ part = "settings" \/ settings = NoSettings
    /\ part = "providers" \/ (bundled = "present" /\ keyed = {})
    /\ part = "fetch" \/ sameDomain
    /\ part = "runtime" \/ installed = {}
    /\ part = "adoption" \/ heading = NoValue

DeskNext ==
    \/ /\ part = "search" /\ SearchPageNext
       /\ UNCHANGED <<part, watchlistVars, choiceVars, monitorVars, providersVars, fetchVars, runtimeVars, newsVars, adoptionVars>>
    \/ /\ part = "watchlist" /\ WatchlistNext
       /\ UNCHANGED <<part, searchPageVars, choiceVars, monitorVars, providersVars, fetchVars, runtimeVars, newsVars, adoptionVars>>
    \/ /\ part = "settings" /\ ChoiceNext
       /\ UNCHANGED <<part, searchPageVars, watchlistVars, monitorVars, providersVars, fetchVars, runtimeVars, newsVars, adoptionVars>>
    \/ /\ part = "monitor" /\ MonitorNext
       /\ UNCHANGED <<part, searchPageVars, watchlistVars, choiceVars, providersVars, fetchVars, runtimeVars, newsVars, adoptionVars>>
    \/ /\ part = "providers" /\ ProvidersNext
       /\ UNCHANGED <<part, searchPageVars, watchlistVars, choiceVars, monitorVars, fetchVars, runtimeVars, newsVars, adoptionVars>>
    \/ /\ part = "fetch" /\ FetchNext
       /\ UNCHANGED <<part, searchPageVars, watchlistVars, choiceVars, monitorVars, providersVars, runtimeVars, newsVars, adoptionVars>>
    \/ /\ part = "runtime" /\ RuntimeNext
       /\ UNCHANGED <<part, searchPageVars, watchlistVars, choiceVars, monitorVars, providersVars, fetchVars, newsVars, adoptionVars>>
    \/ /\ part = "events" /\ EventsNext
       /\ UNCHANGED <<part, searchPageVars, watchlistVars, choiceVars, monitorVars, providersVars, fetchVars,
                      runtimeVars, adoptionVars>>
    \/ /\ part = "adoption" /\ AdoptionNext
       /\ UNCHANGED <<part, searchPageVars, watchlistVars, choiceVars, monitorVars, providersVars, fetchVars,
                      runtimeVars, newsVars>>

DeskSpec == DeskInit /\ [][DeskNext]_deskVars /\ SearchPageFairness
=============================================================================
