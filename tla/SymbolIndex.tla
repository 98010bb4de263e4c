----------------------------- MODULE SymbolIndex -----------------------------
(***************************************************************************)
(* The two bundled indexes of securities: how scripts/ build the one of    *)
(* China and Hong Kong out of lists that may fail, and how the spelling a  *)
(* user types is looked up in both (public_api/china_hk_index.py, query.py *)
(* and the symbol helpers of providers.py).                                *)
(*                                                                         *)
(* A text is a market in front, what separates it from the number, the     *)
(* digits, and the suffix Yahoo gives a market; each part may be missing.  *)
(* A normalized symbol is a market and a number; <<>> stands for a text    *)
(* that is left as it is, which no index has as a symbol.                  *)
(***************************************************************************)
EXTENDS Naturals, Sequences, FiniteSets, FiniteSetsExt

CONSTANTS
    Securities,  \* what exchanges list
    Listing,     \* by security: [market, digits]
    InUniverse,  \* those FinanceDatabase and so the global index has
    CoreSymbols, \* those without which an index is refused
    LeastRecords,\* fewer records are implausible
    MaxBuilds, MaxBreaks

ASSUME SymbolIndexAssumption ==
    /\ IsFiniteSet(Securities)
    /\ Listing \in [Securities -> [market: {"SH", "SZ", "BJ", "HK"}, digits: Seq(0..9)]]
    /\ InUniverse \subseteq Securities /\ \A s \in InUniverse : Listing[s].market # "BJ"
    /\ CoreSymbols \subseteq Securities
    /\ LeastRecords \in Nat

(* How the exchanges number what they list. *)
ASSUME NumbersAssumption ==
    \A s \in Securities :
      /\ \E i \in DOMAIN Listing[s].digits : Listing[s].digits[i] # 0
      /\ Len(Listing[s].digits) = IF Listing[s].market = "HK" THEN 5 ELSE 6
      /\ Listing[s].market = "SH" => Head(Listing[s].digits) \in {5, 6, 9}
      /\ Listing[s].market = "SZ" => Head(Listing[s].digits) \in {0, 2, 3}
      /\ Listing[s].market = "BJ" => Head(Listing[s].digits) \in {4, 8, 9}

VARIABLES
    buildAt,   \* where the build script stands
    lists,     \* lists of AKShare still to be asked
    records,   \* what the script has gathered
    warnings,  \* the sources it notes as unavailable
    temporary, \* the file it writes, or NoFile
    output,    \* the index the program ships with, or NoFile
    shipped,   \* there was one
    resumed,   \* the running build took over the records of an earlier one
    builds, breaks,
    typed,     \* the text looked up last
    hits       \* the securities found for it

indexVars == <<buildAt, lists, records, warnings, temporary, output, shipped, resumed, builds, breaks, typed, hits>>

-----------------------------------------------------------------------------
(* Spellings.                                                              *)

Text(pre, sep, digits, suf) == [pre |-> pre, sep |-> sep, digits |-> digits, suf |-> suf]

NoSpelling == Text("", "", <<>>, "")

Padded(digits, n) == [i \in 1..(n - Len(digits)) |-> 0] \o digits

Stripped(digits) ==
    LET told == {i \in DOMAIN digits : digits[i] # 0} IN
    IF told = {} THEN digits ELSE SubSeq(digits, Min(told), Len(digits))

IsBare(text) == text.pre = "" /\ text.suf = ""

(* normalize_china_hk_symbol: points, dashes and blanks are dropped, a     *)
(* colon is not.  Beijing's numbers are told before Shanghai's.            *)
NormalizeChinaHkSymbol(text, hint) ==
    LET code == Padded(text.digits, 6)
        marked == text.pre # "" /\ text.sep # ":" /\ text.suf = ""
    IN  IF marked /\ text.pre = "HK" THEN <<"HK", Padded(text.digits, 5)>>
        ELSE IF marked THEN <<text.pre, code>>
        ELSE IF ~IsBare(text) THEN <<>>
        ELSE IF hint = "HK" \/ Len(text.digits) <= 5 THEN <<"HK", Padded(text.digits, 5)>>
        ELSE IF hint = "BJ" \/ Head(code) \in {4, 8, 9} THEN <<"BJ", code>>
        ELSE IF hint = "SH" \/ Head(code) \in {5, 6, 9} THEN <<"SH", code>>
        ELSE IF hint = "SZ" \/ Head(code) \in {0, 2, 3} THEN <<"SZ", code>>
        ELSE <<"", code>>

(* _cn_prefix *)
CnPrefix(digits) ==
    IF Head(digits) = 6 THEN "SH"
    ELSE IF Head(digits) \in {0, 2, 3} THEN "SZ"
    ELSE IF Head(digits) \in {4, 8, 9} THEN "BJ"
    ELSE "CN"

(* normalize_hk_symbol and normalize_cn_symbol, as analyze_query uses      *)
(* them: whatever separates the market from the number is skipped.         *)
AnalyzedSymbol(text) ==
    IF text.suf # "" THEN <<>>
    ELSE IF text.pre = "HK" THEN <<"HK", Padded(text.digits, 5)>>
    ELSE IF text.pre # "" THEN IF Len(text.digits) = 6 THEN <<text.pre, text.digits>> ELSE <<>>
    ELSE IF Len(text.digits) = 6 THEN <<CnPrefix(text.digits), text.digits>>
    ELSE IF Len(text.digits) <= 5 THEN <<"HK", Padded(text.digits, 5)>>
    ELSE <<>>

(* The symbol FinanceDatabase gives: 0700.HK, 600519.SS. *)
YahooText(s) ==
    CASE Listing[s].market = "HK" -> Text("", "", Padded(Stripped(Listing[s].digits), 4), ".HK")
      [] Listing[s].market = "SH" -> Text("", "", Listing[s].digits, ".SS")
      [] OTHER                    -> Text("", "", Listing[s].digits, ".SZ")

(* Mutant: the zeros in front stay. *)
HkFormsAsTyped(digits) == {Text("", "", Padded(digits, n), ".HK") : n \in {4, 5}}

HkForms(digits) == {Text("", "", Padded(Stripped(digits), n), ".HK") : n \in {4, 5}}

(* _add_symbol_universe_market_variants: the terms that have a suffix.     *)
(* Blanks around a term are cut off, other separators stay in front of it. *)
MarketVariants(text) ==
    LET kept == IF text.sep = "" \/ text.sep = " " THEN "" ELSE text.sep
    IN  IF text.pre = "HK" THEN HkForms(text.digits)
        ELSE IF text.pre = "SH" THEN {Text("", kept, text.digits, ".SS")}
        ELSE IF text.pre = "SZ" THEN {Text("", kept, text.digits, ".SZ")}
        ELSE IF text.pre = "BJ" \/ text.suf # "" THEN {}
        ELSE IF Len(text.digits) <= 5 THEN HkForms(text.digits)
        ELSE IF Len(text.digits) = 6
             THEN {Text("", "", text.digits, IF CnPrefix(text.digits) = "SH" THEN ".SS" ELSE ".SZ")}
        ELSE {}

(* The terms that are a number and nothing else, once points are gone from *)
(* them: they are looked for among the aliases.                            *)
BareTerms(text) ==
    IF IsBare(text) THEN {text.digits}
    ELSE IF text.pre = "HK" THEN {Stripped(text.digits)}
    ELSE IF text.pre \in {"SH", "SZ"} /\ text.sep # ":" THEN {text.digits}
    ELSE {}

(* SymbolUniverseProvider._query_index for such texts: by symbol, and only *)
(* when no row has it by the numbers kept as aliases.                      *)
InGlobalIndex(text) ==
    LET exact == {s \in InUniverse : YahooText(s) \in {text} \cup MarketVariants(text)} IN
    IF exact # {} THEN exact ELSE {s \in InUniverse : YahooText(s).digits \in BareTerms(text)}

(* ChinaHkSymbolProvider._query; the provider is not asked when the query  *)
(* is not taken for one of its symbols.                                    *)
InChinaIndex(text) ==
    LET rows == IF output = <<>> THEN {} ELSE output[1].records
        exact == {r \in rows : r.symbol = NormalizeChinaHkSymbol(text, "")}
    IN  IF AnalyzedSymbol(text) = <<>> THEN {}
        ELSE IF exact # {} THEN {r.of : r \in exact}
        ELSE {r.of : r \in {r \in rows : IsBare(text) /\ r.symbol[2] = text.digits}}

-----------------------------------------------------------------------------
(* The build.                                                              *)

NoFile == <<>>

Markets == <<"SH", "SZ", "BJ", "HK">>

ListedIn(market) == {s \in Securities : Listing[s].market = market}

(* The lists of AKShare give the number, FinanceDatabase a symbol whose    *)
(* suffix is cut off; the market is known from the list or the exchange.   *)
Record(s) == [symbol |-> NormalizeChinaHkSymbol(Text("", "", Listing[s].digits, ""), Listing[s].market), of |-> s]

(* An exchange gives a number once, and the numbers of two exchanges do    *)
(* not end up under one symbol.                                            *)
ASSUME SymbolsDiffer ==
    \A s, t \in Securities : Record(s).symbol = Record(t).symbol => s = t

(* target[symbol] = record *)
Put(target, some) == {r \in target : \A s \in some : Record(s).symbol # r.symbol} \cup {Record(s) : s \in some}

(* "symbol in target: continue" *)
Fill(target, some) == target \cup {Record(s) : s \in {t \in some : \A r \in target : r.symbol # Record(t).symbol}}

IndexInit ==
    /\ buildAt = "idle" /\ lists = <<>> /\ records = {} /\ warnings = {}
    /\ temporary = NoFile /\ output = NoFile /\ shipped = FALSE
    /\ resumed = FALSE /\ builds = 0 /\ breaks = 0
    /\ typed = NoSpelling /\ hits = {}

LookupUnchanged == UNCHANGED <<typed, hits>>

(* The script ends: what it gathered is gone. *)
ScriptEnds == buildAt' = "idle" /\ lists' = <<>> /\ records' = {} /\ warnings' = {}

(* A temporary file left behind is taken up, and then no list is asked.    *)
BuildStarts ==
    /\ buildAt = "idle" /\ builds < MaxBuilds
    /\ builds' = builds + 1
    /\ LET left == IF temporary = NoFile THEN {} ELSE temporary[1].records IN
         /\ records' = left
         /\ resumed' = (left # {})
         /\ lists' = IF left # {} THEN <<>> ELSE Markets
    /\ warnings' = {}
    /\ buildAt' = "lists"
    /\ typed' = NoSpelling /\ hits' = {}
    /\ UNCHANGED <<temporary, output, shipped, breaks>>

(* Mutant: a list that is not available passes for an empty one. *)
AskListSilently ==
    /\ buildAt = "lists" /\ lists # <<>>
    /\ records' \in {records, Put(records, ListedIn(Head(lists)))}
    /\ lists' = Tail(lists)
    /\ LookupUnchanged /\ UNCHANGED <<buildAt, warnings, temporary, output, shipped, resumed, builds, breaks>>

AskList ==
    /\ buildAt = "lists" /\ lists # <<>>
    /\ \/ records' = Put(records, ListedIn(Head(lists))) /\ UNCHANGED warnings
       \/ warnings' = warnings \cup {Head(lists)} /\ UNCHANGED records
    /\ lists' = Tail(lists)
    /\ LookupUnchanged /\ UNCHANGED <<buildAt, temporary, output, shipped, resumed, builds, breaks>>

(* _merge_core_hk_profiles: one by one, those that are missing. *)
AskCoreProfiles ==
    /\ buildAt = "lists" /\ lists = <<>>
    /\ \E answered \in SUBSET {s \in CoreSymbols : /\ Listing[s].market = "HK"
                                                  /\ \A r \in records : r.symbol # Record(s).symbol} :
         records' = Put(records, answered)
    /\ buildAt' = "fallback"
    /\ LookupUnchanged /\ UNCHANGED <<lists, warnings, temporary, output, shipped, resumed, builds, breaks>>

(* FinanceDatabase when there is nothing yet, if it can be had, and the    *)
(* global index when that is there; nothing at all ends the build.         *)
FallBack ==
    /\ buildAt = "fallback"
    /\ \E fresh \in {{}, InUniverse}, bundled \in {{}, InUniverse} :
         LET all == Fill(Fill(records, IF records = {} THEN fresh ELSE {}), bundled) IN
         IF all = {} THEN ScriptEnds
         ELSE records' = all /\ buildAt' = "write" /\ UNCHANGED <<lists, warnings>>
    /\ LookupUnchanged /\ UNCHANGED <<temporary, output, shipped, resumed, builds, breaks>>

(* _write_database: the rows become visible with its only commit. *)
WriteDatabase ==
    /\ buildAt = "write"
    /\ temporary' = <<[records |-> records, warnings |-> warnings, resumed |-> resumed]>>
    /\ buildAt' = "validate"
    /\ LookupUnchanged /\ UNCHANGED <<lists, records, warnings, output, shipped, resumed, builds, breaks>>

IsValid(file) ==
    /\ Cardinality(file[1].records) >= LeastRecords
    /\ {Record(s).symbol : s \in CoreSymbols} \subseteq {r.symbol : r \in file[1].records}

(* A file that is refused stays where it is; the old index is removed only *)
(* when the new one is known to be good.                                   *)
ValidateExisting ==
    /\ buildAt = "validate"
    /\ \/ /\ IsValid(temporary)
          /\ output' = NoFile /\ buildAt' = "replace" /\ UNCHANGED <<lists, records, warnings>>
       \/ ~IsValid(temporary) /\ ScriptEnds /\ UNCHANGED output
    /\ LookupUnchanged /\ UNCHANGED <<temporary, shipped, resumed, builds, breaks>>

Replace ==
    /\ buildAt = "replace"
    /\ output' = temporary /\ temporary' = NoFile
    /\ shipped' = TRUE
    /\ ScriptEnds
    /\ LookupUnchanged /\ UNCHANGED <<resumed, builds, breaks>>

(* The script is stopped; while it writes, the earlier temporary file is   *)
(* gone and the new one has no rows.                                       *)
BuildBreaks ==
    /\ buildAt # "idle" /\ breaks < MaxBreaks
    /\ breaks' = breaks + 1
    /\ temporary' \in IF buildAt = "write" THEN {temporary, NoFile} ELSE {temporary}
    /\ ScriptEnds
    /\ LookupUnchanged /\ UNCHANGED <<output, shipped, resumed, builds>>

-----------------------------------------------------------------------------
(* What a user types for a security: the number, padded or not, after its  *)
(* market or alone, and the symbol of Yahoo.                               *)
NumbersTyped(s) ==
    LET digits == Listing[s].digits
    IN  IF Listing[s].market = "HK" THEN {digits, Stripped(digits)} ELSE {digits}

Separators == {"", " ", ".", "-", ":"}

SpellingsOf(s) ==
    [pre: {""}, sep: {""}, digits: NumbersTyped(s), suf: {""}]
    \cup [pre: {Listing[s].market}, sep: Separators, digits: NumbersTyped(s), suf: {""}]
    \cup {YahooText(s)}

(* One text between two builds. *)
LookUp ==
    /\ buildAt = "idle" /\ typed = NoSpelling
    /\ \E s \in Securities : typed' \in SpellingsOf(s)
    /\ hits' = InChinaIndex(typed') \cup InGlobalIndex(typed')
    /\ UNCHANGED <<buildAt, lists, records, warnings, temporary, output, shipped, resumed, builds, breaks>>

IndexNext ==
    \/ BuildStarts \/ AskList \/ AskCoreProfiles \/ FallBack \/ WriteDatabase \/ ValidateExisting
    \/ Replace \/ BuildBreaks \/ LookUp

IndexSpec == IndexInit /\ [][IndexNext]_indexVars

-----------------------------------------------------------------------------

(* An index that was built in one go has each security of each exchange or *)
(* names the list that was not to be had, so that nobody takes it for      *)
(* complete.  And once an index was shipped, a build that is stopped       *)
(* anywhere leaves one that passes the validation, in one file or the      *)
(* other.                                                                  *)
IndexSaysWhatItLacks ==
    /\ output # NoFile /\ ~output[1].resumed =>
         \A s \in Securities : \/ \E r \in output[1].records : r.of = s
                               \/ Listing[s].market \in output[1].warnings
    /\ shipped /\ breaks <= 1 =>
         \E file \in {output, temporary} \ {NoFile} : IsValid(file)

(* A market in front and a colon: analyze_query understands it, but of the *)
(* helpers only that of the global index, and only for Hong Kong.          *)
Misread(text, s) == text.sep = ":" /\ (text.pre # "HK" \/ s \notin InUniverse)

(* The index of China and Hong Kong has it under the symbol it is listed   *)
(* under: not so Shanghai's numbers that begin with 9.                     *)
Filed(s) == output # NoFile /\ \E r \in output[1].records :
                                 r.of = s /\ r.symbol = <<Listing[s].market, Listing[s].digits>>

(* Whatever the analysis takes for the symbol of a security finds it if    *)
(* either index has it, the symbol of Yahoo if the global one has; and     *)
(* nothing is found that has another number.                               *)
SpellingsFind ==
    /\ \A s \in Securities :
         typed \in SpellingsOf(s) /\ ~Misread(typed, s) =>
           \/ s \in hits
           \/ s \notin InUniverse /\ (typed.suf # "" \/ ~Filed(s))
    /\ \A s \in hits : Stripped(Listing[s].digits) = Stripped(typed.digits)
=============================================================================
