--------------------------- MODULE ProviderChoice ---------------------------
(***************************************************************************)
(* Which providers a search asks, what the settings page says of them, and *)
(* the two JSON files both depend on: the settings and the API keys.  The  *)
(* page edits the files field by field on the interface thread: each set   *)
(* reads the file, changes one field and writes the file whole, truncating *)
(* it first.  The table of providers is that of registry.py.               *)
(***************************************************************************)
EXTENDS Naturals, SequencesExt, FiniteSets, Lists

CONSTANTS
    KeyNames,    \* providers whose key the user has at hand
    RawLimits,   \* values of a crawl limit, those of an edited file included
    LeastLimit, MostLimit, UsualLimit,  \* its bounds and its default
    MaxSaves     \* changes of the settings, at most

ASSUME ChoiceAssumption ==
    /\ RawLimits \subseteq Nat
    /\ {LeastLimit, MostLimit, UsualLimit} \subseteq RawLimits
    /\ LeastLimit <= UsualLimit /\ UsualLimit <= MostLimit
    /\ MaxSaves \in Nat

VARIABLES
    settings,   \* public_api_settings.json
    keys,       \* api_keys.json: the keys it holds
    broken,     \* files that are truncated
    form,       \* the widgets of the page
    saving,     \* writes still to be made by the handler at work
    opened,     \* the first of them has truncated its file
    chosen,     \* the settings and keys the user last chose
    saves,      \* handlers that changed something
    cutOff      \* the process ended during a write

choiceVars == <<settings, keys, broken, form, saving, opened, chosen, saves, cutOff>>

-----------------------------------------------------------------------------
(* The registry. *)

Meta(id, category, needsKey, implemented, byDefault) ==
    [id |-> id, category |-> category, needsKey |-> needsKey,
     implemented |-> implemented, byDefault |-> byDefault]

(* ProviderRegistry: the sources of companies and symbols, then the links,  *)
(* the registers and the news.                                             *)
Registry == <<
    Meta("china_hk_symbol_index", "symbol_universe", FALSE, TRUE, TRUE),
    Meta("symbol_universe", "symbol_universe", FALSE, TRUE, TRUE),
    Meta("finance_database", "symbol_universe", FALSE, TRUE, FALSE),
    Meta("akshare", "experimental", FALSE, TRUE, TRUE),
    Meta("gleif", "global", FALSE, TRUE, TRUE),
    Meta("opencorporates", "global", TRUE, TRUE, FALSE),
    Meta("fmp", "financial", TRUE, TRUE, FALSE),
    Meta("alpha_vantage", "financial", TRUE, TRUE, FALSE),
    Meta("nasdaq_directory", "financial", FALSE, TRUE, TRUE),
    Meta("marketaux", "news", TRUE, TRUE, FALSE),
    Meta("wikidata", "global", FALSE, TRUE, TRUE),
    Meta("xueqiu_external", "external_link", FALSE, TRUE, TRUE),
    Meta("crawlergo_web_evidence", "web_evidence", FALSE, TRUE, TRUE),
    Meta("guardian", "news", TRUE, FALSE, TRUE),
    Meta("newsapi", "news", TRUE, FALSE, TRUE),
    Meta("companies_house", "registry", TRUE, TRUE, FALSE),
    Meta("insee", "registry", TRUE, FALSE, TRUE),
    Meta("abn", "registry", TRUE, FALSE, TRUE),
    Meta("japan_nta", "registry", TRUE, FALSE, TRUE),
    Meta("singapore_acra", "registry", FALSE, FALSE, TRUE),
    Meta("norway_brreg", "registry", FALSE, TRUE, TRUE),
    Meta("canada_corporations", "registry", TRUE, FALSE, TRUE),
    Meta("rss", "news", FALSE, TRUE, TRUE) >>

Ids(s) == [i \in DOMAIN s |-> s[i].id]

OnlineOf(region) ==
    CASE region = "cn" -> <<"akshare", "wikidata", "gleif">>
      [] region = "hk" -> <<"akshare", "wikidata", "gleif">>
      [] region = "no" -> <<"norway_brreg", "wikidata", "gleif">>
      [] region = "all" -> <<"akshare", "wikidata", "gleif", "norway_brreg">>
      [] OTHER -> <<"wikidata", "gleif">>

LocalIds == {"china_hk_symbol_index", "symbol_universe", "nasdaq_directory"}

LocalOfRegion(region) ==
    CASE region \in {"cn", "hk"} -> <<"china_hk_symbol_index", "symbol_universe">>
      [] region = "all" -> <<"china_hk_symbol_index", "symbol_universe", "nasdaq_directory">>
      [] region = "us" -> <<"symbol_universe", "nasdaq_directory">>
      [] OTHER -> <<"symbol_universe">>

Regions == {"all", "us", "cn", "hk", "uk", "eu", "no", "global", "news"}

(* REGION_PROVIDER_PRIORITY *)
PriorityOf(region) ==
    IF region = "news" THEN <<"rss">>
    ELSE LocalOfRegion(region) \o OnlineOf(region) \o <<"rss", "xueqiu_external">>

AdvancedPriority ==
    <<"fmp", "alpha_vantage", "marketaux", "companies_house", "opencorporates">>

ExcludedFromSearch == {"rss", "marketaux", "xueqiu_external", "crawlergo_web_evidence"}

Scopes == {"all", "financial", "entity", "news", "related"}

CategoriesOf(scope) ==
    CASE scope = "financial" -> {"financial", "symbol_universe", "experimental"}
      [] scope = "entity" -> {"registry", "global"}
      [] scope = "news" -> {"news"}
      [] OTHER -> {}

MaxTasks == 4

-----------------------------------------------------------------------------
(* The files as they are read. *)

Clamp(n) == IF n < LeastLimit THEN LeastLimit ELSE IF n > MostLimit THEN MostLimit ELSE n

NoSettings == [advanced |-> FALSE, limit |-> UsualLimit]

ReadSettings == IF "settings" \in broken THEN NoSettings ELSE settings

ReadKeys == IF "keys" \in broken THEN {} ELSE keys

Advanced == ReadSettings.advanced

(* crawlergo_policy *)
Policy == Clamp(ReadSettings.limit)

SwitchedOn(p, on) == p.implemented /\ (p.byDefault \/ on)

(* Mutant: the provider is looked for among all that are implemented.      *)
CandidatesUnswitched(on) == RowsAt(Registry, {i \in DOMAIN Registry : Registry[i].implemented})

Candidates(on) == RowsAt(Registry, {i \in DOMAIN Registry : SwitchedOn(Registry[i], on)})

Offered(on) == Range(Ids(Candidates(on)))

CategoryOf(id) == (CHOOSE p \in Range(Registry) : p.id = id).category

PriorityWith(on, region) == PriorityOf(region) \o (IF on THEN AdvancedPriority ELSE <<>>)

Fits(id, scope) == CategoriesOf(scope) = {} \/ CategoryOf(id) \in CategoriesOf(scope)

InOrder(on, region, scope) ==
    LET ids == PriorityWith(on, region)
    IN  RowsAt(ids, {i \in DOMAIN ids : ids[i] \in Offered(on) /\ Fits(ids[i], scope)})

OfCategory(on, scope) ==
    RowsAt(Candidates(on), {i \in DOMAIN Candidates(on) : Candidates(on)[i].category \in CategoriesOf(scope)})

(* _selected_providers, with the advanced sources on or off. *)
Selected(on, region, scope) ==
    IF InOrder(on, region, scope) # <<>> THEN InOrder(on, region, scope)
    ELSE IF OfCategory(on, scope) # <<>> THEN Ids(OfCategory(on, scope))
    ELSE LET ids == PriorityOf("all") IN RowsAt(ids, {i \in DOMAIN ids : ids[i] \in Offered(on)})

(* The providers search_local and enrich_search ask: of those that are not *)
(* local, the first few.                                                   *)
AskedLocally(on, region, scope) == Range(Selected(on, region, scope)) \cap LocalIds

Online(on, region, scope) == Range(Selected(on, region, scope)) \ (LocalIds \cup ExcludedFromSearch)

Precedes(other, id, s) == \E i, j \in DOMAIN s : i < j /\ s[i] = other /\ s[j] = id

AskedOnline(on, region, scope) ==
    LET online == Online(on, region, scope)
    IN  {id \in online :
           Cardinality({other \in online : Precedes(other, id, Selected(on, region, scope))}) < MaxTasks}

AskedOf(on, region, scope) == AskedLocally(on, region, scope) \cup AskedOnline(on, region, scope)

Asked == [on \in BOOLEAN |-> UNION {AskedOf(on, choice[1], choice[2]) : choice \in Regions \X Scopes}]

EveryChoiceServed == [on \in BOOLEAN |->
    \A r \in Regions, s \in Scopes : Selected(on, r, s) # <<>> /\ IsInjective(Selected(on, r, s))]

(* provider_statuses, but for the runtime of the crawler. *)
ProviderState(p) ==
    CASE ~p.implemented -> "disabled"
      [] p.implemented /\ ~SwitchedOn(p, Advanced) -> "disabled"
      [] SwitchedOn(p, Advanced) /\ p.needsKey /\ p.id \notin ReadKeys -> "not_configured"
      [] OTHER -> "enabled"

-----------------------------------------------------------------------------
(* The settings page. *)

(* refresh: the widgets show what the files hold, the key fields are empty. *)
FreshForm == [limit |-> Policy, typed |-> {}]

ChoiceInit ==
    /\ settings \in {NoSettings} \cup {[advanced |-> FALSE, limit |-> n] : n \in RawLimits}
    /\ keys = {}
    /\ broken = {}
    /\ form = FreshForm
    /\ saving = <<>> /\ opened = FALSE
    /\ chosen = [advanced |-> FALSE, limit |-> Policy, keys |-> {}]
    /\ saves = 0 /\ cutOff = FALSE

Resting == saving = <<>>

Write(field, value) == [field |-> field, value |-> value]

Begin(writes) ==
    /\ Resting
    /\ saves < MaxSaves
    /\ saves' = saves + 1
    /\ saving' = writes
    /\ UNCHANGED <<settings, keys, broken, form, opened, chosen, cutOff>>

TypeKey(p) ==
    /\ Resting
    /\ p \notin form.typed
    /\ form' = [form EXCEPT !.typed = @ \cup {p}]
    /\ UNCHANGED <<settings, keys, broken, saving, opened, chosen, saves, cutOff>>

SpinLimit(n) ==
    /\ Resting
    /\ n \in LeastLimit..MostLimit /\ n # form.limit
    /\ form' = [form EXCEPT !.limit = n]
    /\ UNCHANGED <<settings, keys, broken, saving, opened, chosen, saves, cutOff>>

(* The check box of the advanced sources writes at once. *)
ToggleAdvanced == Begin(<<Write("advanced", IF Advanced THEN "off" ELSE "on")>>)

KeyWrites == SetToSeq({Write("key", p) : p \in form.typed})

(* _save_keys writes the keys that were typed, _save_settings the limits   *)
(* of the crawl before them (and, in the same way, the paths of its        *)
(* runtime, which are left out).                                           *)
SaveKeys == form.typed # {} /\ Begin(KeyWrites)

SaveSettings == Begin(<<Write("limit", "form")>> \o KeyWrites)

ClearKey(p) == Begin(<<Write("clear", p)>>)

FileOf(write) == IF write.field \in {"key", "clear"} THEN "keys" ELSE "settings"

(* Each set reads its file and truncates it ... *)
OpenFile ==
    /\ ~Resting /\ ~opened
    /\ opened' = TRUE
    /\ broken' = broken \cup {FileOf(Head(saving))}
    /\ settings' = IF FileOf(Head(saving)) = "settings" THEN ReadSettings ELSE settings
    /\ keys' = IF FileOf(Head(saving)) = "keys" THEN ReadKeys ELSE keys
    /\ UNCHANGED <<form, saving, chosen, saves, cutOff>>

AfterWrite(write, state) ==
    CASE write.field = "advanced" -> [state EXCEPT !.advanced = (write.value = "on")]
      [] write.field = "limit" -> [state EXCEPT !.limit = form.limit]
      [] OTHER -> state

KeysAfter(write, held) ==
    CASE write.field = "key" -> held \cup {write.value}
      [] write.field = "clear" -> held \ {write.value}
      [] OTHER -> held

(* Mutant: the field is written without the others.                        *)
FillFileAnew ==
    /\ opened
    /\ opened' = FALSE
    /\ settings' = AfterWrite(Head(saving),
                     IF FileOf(Head(saving)) = "settings" THEN NoSettings ELSE settings)
    /\ keys' = KeysAfter(Head(saving), keys)
    /\ broken' = broken \ {FileOf(Head(saving))}
    /\ chosen' = LET read == AfterWrite(Head(saving), [advanced |-> chosen.advanced, limit |-> chosen.limit])
                 IN  [advanced |-> read.advanced, limit |-> read.limit,
                      keys |-> KeysAfter(Head(saving), chosen.keys)]
    /\ saving' = Tail(saving)
    /\ form' = IF saving' = <<>> THEN [limit |-> Clamp(settings'.limit), typed |-> {}] ELSE form
    /\ UNCHANGED <<saves, cutOff>>

(* ... and fills it again; the handler ends with a refresh of the page,    *)
(* which throws away what was typed and not saved.                         *)
FillFile ==
    /\ opened
    /\ opened' = FALSE
    /\ settings' = AfterWrite(Head(saving), settings)
    /\ keys' = KeysAfter(Head(saving), keys)
    /\ broken' = broken \ {FileOf(Head(saving))}
    /\ chosen' = LET read == AfterWrite(Head(saving), [advanced |-> chosen.advanced, limit |-> chosen.limit])
                 IN  [advanced |-> read.advanced, limit |-> read.limit,
                      keys |-> KeysAfter(Head(saving), chosen.keys)]
    /\ saving' = Tail(saving)
    /\ form' = IF saving' # <<>> \/ Head(saving).field = "advanced" THEN form
               ELSE [limit |-> Clamp(settings'.limit), typed |-> {}]
    /\ UNCHANGED <<saves, cutOff>>

(* The user comes back to the page, or starts the program again after it   *)
(* ended, possibly in the middle of a write.                               *)
OpenPage ==
    /\ Resting
    /\ form # FreshForm
    /\ form' = FreshForm
    /\ UNCHANGED <<settings, keys, broken, saving, opened, chosen, saves, cutOff>>

ProcessEnds ==
    /\ ~Resting
    /\ saving' = <<>> /\ opened' = FALSE
    /\ form' = FreshForm
    /\ cutOff' = (cutOff \/ opened)
    /\ UNCHANGED <<settings, keys, broken, chosen, saves>>

ChoiceNext ==
    \/ \E p \in KeyNames : TypeKey(p) \/ ClearKey(p)
    \/ \E n \in RawLimits : SpinLimit(n)
    \/ ToggleAdvanced \/ SaveKeys \/ SaveSettings
    \/ OpenFile \/ FillFile
    \/ OpenPage \/ ProcessEnds

ChoiceSpec == ChoiceInit /\ [][ChoiceNext]_choiceVars

-----------------------------------------------------------------------------

ChoiceTypeOK ==
    /\ settings \in [advanced: BOOLEAN, limit: RawLimits]
    /\ keys \subseteq KeyNames
    /\ broken \subseteq {"settings", "keys"}
    /\ form \in [limit: LeastLimit..MostLimit, typed: SUBSET KeyNames]
    /\ opened \in BOOLEAN /\ cutOff \in BOOLEAN
    /\ saves \in 0..MaxSaves

(* Unless the process ended in the middle of a write, the files hold what  *)
(* the user last chose for every field, whichever fields were saved since; *)
(* and the crawl limits the program uses are the chosen ones.              *)
SettingsStay ==
    ~cutOff =>
      /\ broken = {} \/ opened
      /\ settings.advanced = chosen.advanced
      /\ Clamp(settings.limit) = chosen.limit
      /\ keys = chosen.keys

(* Whatever the settings: no region and scope is left without providers;   *)
(* none is asked that the user did not switch on; and each source the page *)
(* shows as available is asked by the searches of some region and scope,   *)
(* although a search asks at most four of them online.  Exempt are those   *)
(* that searches leave out by design and the legacy provider finance_database, *)
(* which is shown as available but stands in no list.                      *)
ChoiceIsSound ==
    /\ EveryChoiceServed[Advanced]
    /\ \A p \in Range(Registry) :
         /\ p.id \in Asked[Advanced] => ProviderState(p) # "disabled"
         /\ ProviderState(p) = "enabled"
              => p.id \in Asked[Advanced] \cup ExcludedFromSearch \cup {"finance_database"}
=============================================================================
