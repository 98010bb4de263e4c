-------------------------------- MODULE Events --------------------------------
(***************************************************************************)
(* How the monitoring database makes events and alerts out of a document   *)
(* (services/event_service.py, event_engine/ and alerts/rules.py): which   *)
(* companies the text is about, which events it tells of them, how sure    *)
(* and how grave they are, and with which priority the user is alerted.    *)
(* The user adds companies and edits aliases, and has the events of a      *)
(* document looked for again.                                              *)
(*                                                                         *)
(* A document is the names that occur in it, those it resembles, what      *)
(* stands in its address, and its hits: a keyword of a type of event with  *)
(* what stands around it.  What a connector says of the type of the source *)
(* is not stored with the document, so only the text of the address tells  *)
(* how authoritative it is, and not who published the document: a mark may *)
(* stand in the path, the query or a longer name, and an RSS entry keeps   *)
(* its link when the article could not be had and the text is the feed's.  *)
(***************************************************************************)
EXTENDS Naturals, Sequences, FiniteSets, FiniteSetsExt

CONSTANTS
    Firms,       \* companies the user may follow
    FirmName,    \* by company
    FirmTicker,  \* by company: the ticker, or NoTicker
    NoTicker,
    NickNames,   \* aliases the user may enter; like names, of two characters at least
    ShortNames,  \* names of six characters at most; the others are longer
    News,        \* [address, says, alike, hits], the documents that may come
    MaxAliasEdits

VARIABLES
    followed,    \* rows of companies
    aliasRows,   \* by company: rows of company_aliases
    newsItem,    \* the document, or NoNews
    matchRows,   \* rows of document_company_matches
    newsEvents,  \* rows of events, each with the priority of its alert
    extracted,   \* the events were looked for since the last change of a company
    aliasEdits

newsVars == <<followed, aliasRows, newsItem, matchRows, newsEvents, extracted, aliasEdits>>

-----------------------------------------------------------------------------
(* Matches.                                                                *)

NoNews == [address |-> {}, says |-> {}, alike |-> {}, hits |-> {}]

NewMatch(f, text, type, score) == [firm |-> f, text |-> text, type |-> type, score |-> score]

LiteralScore(type) ==
    CASE type = "ticker" -> 98 [] type \in {"company_name", "legal_name"} -> 95 [] OTHER -> 92

FieldsOf(f) == {[alias |-> FirmName[f], type |-> "company_name"]} \cup aliasRows[f]

(* What is found literally is not looked for by likeness, for which names  *)
(* of six characters are too short.  A likeness is nine tenths of the      *)
(* ratio, in whole points; 86 of it count.                                 *)
MatchesOf(f) ==
    {NewMatch(f, FirmTicker[f], "ticker", 98) : t \in {FirmTicker[f]} \cap newsItem.says}
    \cup {NewMatch(f, x.alias, x.type, LiteralScore(x.type)) : x \in {y \in FieldsOf(f) : y.alias \in newsItem.says}}
    \cup {NewMatch(f, x.alias, "fuzzy_alias", Min({86, x.likeness})) :
             x \in {y \in newsItem.alike : /\ y.alias \notin newsItem.says \cup ShortNames
                                           /\ \E z \in FieldsOf(f) : z.alias = y.alias}}

BestMatch(f) == CHOOSE m \in MatchesOf(f) : \A n \in MatchesOf(f) : n.score <= m.score

(* _penalize_ambiguous: a short text that is the best match of several.    *)
PenalizeAmbiguous(results) ==
    {IF m.text \in ShortNames /\ \E n \in results : n.firm # m.firm /\ n.text = m.text
     THEN [m EXCEPT !.type = <<"ambiguous", m.type>>, !.score = Min({@, 55})]
     ELSE [m EXCEPT !.type = <<"plain", m.type>>] : m \in results}

MatchText == PenalizeAmbiguous({BestMatch(f) : f \in {g \in followed : MatchesOf(g) # {}}})

-----------------------------------------------------------------------------
(* Scores, in hundredths until they are rounded to tenths.                 *)

(* STATUS_PATTERNS in their order: the first that occurs is the status.    *)
Statuses ==
    <<"denied", "terminated", "completed", "shareholder_approved", "board_approved", "proposed",
      "rumored", "announced">>

DetectStatus(words) ==
    LET told == {i \in DOMAIN Statuses : Statuses[i] \in words}
    IN  IF told = {} THEN "unknown" ELSE Statuses[Min(told)]

StatusStrength ==
    [denied |-> 75, terminated |-> 85, completed |-> 92, shareholder_approved |-> 88, board_approved |-> 84,
     announced |-> 78, proposed |-> 68, rumored |-> 42, unknown |-> 35]

(* address is the set of those marks that occur anywhere in the stored     *)
(* address, in small letters.                                              *)
InvestorMarks == {"investor", "/ir", "ir."}

SourceAuthority(address) ==
    IF "sec.gov" \in address THEN 95
    ELSE IF address \cap InvestorMarks # {} THEN 85
    ELSE 55

EventWeights ==
    [merger_acquisition |-> 92, asset_sale |-> 78, control_change |-> 94, equity_change |-> 72, financing |-> 76,
     buyback |-> 70, dividend |-> 65, executive_change |-> 88, board_change |-> 74, strategic_partnership |-> 68,
     major_contract |-> 72, business_exit |-> 66, new_business |-> 55, capex_project |-> 62, earnings_warning |-> 86,
     accounting_restatement |-> 90, regulatory_investigation |-> 90, regulatory_penalty |-> 88, litigation |-> 78,
     bankruptcy |-> 96, debt_default |-> 94, product_approval |-> 70, product_recall |-> 76,
     cybersecurity_incident |-> 86, supply_chain_disruption |-> 58]

(* One keyword per type counts; the ratio of what is alike is at least 94. *)
ASSUME EventsAssumption ==
    \A n \in News :
      /\ \A hit \in n.hits :
           /\ hit.type \in DOMAIN EventWeights /\ hit.length \in Nat
           /\ \A other \in n.hits : other.type = hit.type => other = hit
      /\ \A x \in n.alike : x.likeness \in 85..90

PatternStrength(hit) == Min({95, (IF hit.long THEN 78 ELSE 66) + (IF hit.explicit THEN 10 ELSE 0)})

FinancialScale(amount) == CASE amount = "none" -> 40 [] amount = "billions" -> 88 [] amount = "millions" -> 68 [] OTHER -> 58

GovernanceImpact(type) ==
    CASE type \in {"control_change", "executive_change", "board_change", "bankruptcy", "debt_default",
                   "accounting_restatement", "regulatory_investigation", "regulatory_penalty"} -> 88
      [] type \in {"merger_acquisition", "asset_sale", "financing"} -> 76
      [] OTHER -> 45

Rounded(hundredths) == Min({1000, (hundredths + 5) \div 10})

(* Mutant: the malus of a doubtful match is forgotten. *)
ConfidenceWithoutDoubt(match, address, hit) ==
    LET status == DetectStatus(hit.words)
        quality == Min({95, Max({35, hit.length \div 2})})
        entities == (IF hit.amount # "none" THEN 6 ELSE 0) + (IF hit.dates THEN 4 ELSE 0)
                    + (IF hit.counterparties THEN 4 ELSE 0)
        sum == 30 * match.score + 20 * SourceAuthority(address) + 25 * PatternStrength(hit)
               + 15 * StatusStrength[status] + 10 * quality + 100 * entities
        malus == IF status = "rumored" THEN 1200 ELSE 0
    IN  Rounded(IF sum > malus THEN sum - malus ELSE 0)

ScoreConfidence(match, address, hit) ==
    LET status == DetectStatus(hit.words)
        quality == Min({95, Max({35, hit.length \div 2})})
        entities == (IF hit.amount # "none" THEN 6 ELSE 0) + (IF hit.dates THEN 4 ELSE 0)
                    + (IF hit.counterparties THEN 4 ELSE 0)
        sum == 30 * match.score + 20 * SourceAuthority(address) + 25 * PatternStrength(hit)
               + 15 * StatusStrength[status] + 10 * quality + 100 * entities
        malus == (IF status = "rumored" THEN 1200 ELSE 0) + (IF match.score < 70 THEN 1000 ELSE 0)
    IN  Rounded(IF sum > malus THEN sum - malus ELSE 0)

(* Every event is scored as a new one. *)
ScoreMateriality(address, hit) ==
    Rounded(25 * SourceAuthority(address) + 25 * EventWeights[hit.type] + 15 * FinancialScale(hit.amount)
            + 15 * GovernanceImpact(hit.type) + 10 * StatusStrength[DetectStatus(hit.words)] + 10 * 80)

AlertPriority(materiality, confidence) ==
    CASE materiality >= 900 /\ confidence >= 850 -> "P0"
      [] materiality >= 750 /\ confidence >= 750 -> "P1"
      [] materiality >= 550 /\ confidence >= 600 -> "P2"
      [] OTHER -> "P3"

-----------------------------------------------------------------------------

(* The rows CompanyRepository.create makes of a name and a ticker. *)
AliasesAtFirst(f) ==
    {[alias |-> FirmName[f], type |-> "english_name"]}
    \cup {[alias |-> t, type |-> "ticker"] : t \in {FirmTicker[f]} \ {NoTicker}}

EventsInit ==
    /\ followed = {}
    /\ aliasRows = [f \in Firms |-> {}]
    /\ newsItem = NoNews
    /\ matchRows = {} /\ newsEvents = {}
    /\ extracted = FALSE
    /\ aliasEdits = 0

(* The events of a type that a match leads to; one keyword per type counts. *)
DetectEvents(matches) ==
    {LET confidence == ScoreConfidence(x[1], newsItem.address, x[2])
         materiality == ScoreMateriality(newsItem.address, x[2])
     IN  [firm |-> x[1].firm, type |-> x[2].type, status |-> DetectStatus(x[2].words),
          priority |-> AlertPriority(materiality, confidence)] :
       x \in {m \in matches : m.score >= 50} \X newsItem.hits}

(* process_document: the matches are kept, those known by company, text    *)
(* and kind as they are; an event there already keeps its scores and its   *)
(* alert.                                                                  *)
ExtractNews ==
    /\ newsItem # NoNews /\ ~extracted
    /\ matchRows' = matchRows \cup {m \in MatchText : \A r \in matchRows :
                                      <<r.firm, r.text, r.type>> # <<m.firm, m.text, m.type>>}
    /\ newsEvents' = newsEvents \cup {e \in DetectEvents(MatchText) : \A n \in newsEvents :
                                        n.firm # e.firm \/ n.type # e.type}
    /\ extracted' = TRUE
    /\ UNCHANGED <<followed, aliasRows, newsItem, aliasEdits>>

(* A document is stored; its events are looked for with it. *)
NewsArrives ==
    /\ newsItem = NoNews
    /\ newsItem' \in News
    /\ UNCHANGED <<followed, aliasRows, matchRows, newsEvents, extracted, aliasEdits>>

CompanyEdited ==
    /\ aliasEdits < MaxAliasEdits /\ aliasEdits' = aliasEdits + 1
    /\ newsItem # NoNews => extracted
    /\ extracted' = FALSE
    /\ UNCHANGED <<newsItem, matchRows, newsEvents>>

Follow(f) ==
    /\ f \notin followed
    /\ followed' = followed \cup {f}
    /\ aliasRows' = [aliasRows EXCEPT ![f] = AliasesAtFirst(f)]
    /\ CompanyEdited

AddAlias(f, row) ==
    /\ f \in followed /\ \A x \in aliasRows[f] : x.alias # row.alias
    /\ aliasRows' = [aliasRows EXCEPT ![f] = @ \cup {row}]
    /\ CompanyEdited /\ UNCHANGED followed

EditAlias(f, row, alias) ==
    /\ row \in aliasRows[f] /\ alias # row.alias
    /\ aliasRows' = [aliasRows EXCEPT ![f] = (@ \ {row}) \cup {[row EXCEPT !.alias = alias]}]
    /\ CompanyEdited /\ UNCHANGED followed

DeleteAlias(f, row) ==
    /\ row \in aliasRows[f]
    /\ aliasRows' = [aliasRows EXCEPT ![f] = @ \ {row}]
    /\ CompanyEdited /\ UNCHANGED followed

EventsNext ==
    \/ NewsArrives \/ ExtractNews
    \/ \E f \in Firms :
         \/ Follow(f)
         \/ \E alias \in NickNames : AddAlias(f, [alias |-> alias, type |-> "brand"])
         \/ \E row \in aliasRows[f] : \/ DeleteAlias(f, row)
                                      \/ \E alias \in NickNames : EditAlias(f, row, alias)

EventsSpec == EventsInit /\ [][EventsNext]_newsVars

-----------------------------------------------------------------------------

(* The highest priority needs the mark of the SEC in the address, wherever *)
(* it stands and whoever wrote the text, so the marks of investor pages    *)
(* never suffice; a company whose name, if short, was no other company's   *)
(* when the event was found; and it is never that of a rumour, a plan or a *)
(* denial.  Each event rests on a match that is on record.  And however    *)
(* often companies and aliases change, a company the text names has, once  *)
(* the events have been looked for, one event of each type the text tells  *)
(* of, ambiguous or not.                                                   *)
AlertsAreEarned ==
    /\ \A e \in newsEvents :
         /\ \E m \in matchRows : m.firm = e.firm /\ m.score >= 50
         /\ e.priority = "P0" =>
              /\ "sec.gov" \in newsItem.address
              /\ e.status \in {"announced", "board_approved", "shareholder_approved", "completed", "terminated"}
              /\ \E m \in matchRows : m.firm = e.firm /\ m.type[1] = "plain"
    /\ extracted =>
         \A f \in followed : \A hit \in newsItem.hits :
           (\E x \in FieldsOf(f) : x.alias \in newsItem.says) =>
             Cardinality({e \in newsEvents : e.firm = f /\ e.type = hit.type}) = 1
=============================================================================
