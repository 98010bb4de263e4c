------------------------------ MODULE Watchlist ------------------------------
(***************************************************************************)
(* The watchlist: a JSON file that watchlist_store.py reads whole and      *)
(* writes whole, on the interface thread (a company is added or removed)   *)
(* and on threads of the global pool (one row, or every row, is refreshed  *)
(* from the profile sources).  A write truncates the file before it fills  *)
(* it, a reader takes a file it cannot parse for an empty list, and        *)
(* nothing keeps two actors from working at the same time.                 *)
(*                                                                         *)
(* A row stands for one entry: the company the user added, whether a       *)
(* profile has been merged into it, and whether its refresh has ended.     *)
(* Its key (dedupe_key) is taken from its identifiers, and a profile may   *)
(* supply one that was missing: then the row changes its key.              *)
(***************************************************************************)
EXTENDS Naturals, Sequences, FiniteSets, Lists

CONSTANTS
    Watched,     \* companies the user may add
    Rekeyed,     \* those whose profile supplies the identifier that makes the key
    Jobs,        \* refresh workers of the thread pool
    MaxEdits, \* additions, removals and refreshes, at most
    MaxCrashes   \* ends of the process, at most

ASSUME WatchlistAssumption ==
    /\ Watched # {} /\ Rekeyed \subseteq Watched /\ "ui" \notin Jobs
    /\ {MaxEdits, MaxCrashes} \subseteq Nat

Actors == Jobs \cup {"ui"}

VARIABLES
    rows,       \* what the file holds when it can be parsed
    torn,       \* the file is truncated or garbled
    actor,      \* what each thread is doing with the file
    spoilt,     \* actors over whose open file another write has landed
    shown,      \* the rows of the watchlist page
    signals,    \* finished refreshes the page has not been told of
    requests,   \* additions, removals and refreshes so far
    crashes,    \* ends of the process so far
    wanted,     \* companies the user added and did not remove
    disturbed   \* two actors overlapped, a write was cut off or a row had lost its key

fileVars == <<rows, torn, spoilt>>

watchlistVars == <<fileVars, actor, shown, signals, requests, crashes, wanted, disturbed>>

-----------------------------------------------------------------------------

Added(c) == [who |-> c, profiled |-> FALSE, refreshing |-> FALSE]

(* CompanyResult.dedupe_key *)
RowKey(r) == [who |-> r.who, found |-> r.profiled /\ r.who \in Rekeyed]

Whos(s) == {s[i].who : i \in DOMAIN s}

RowKeys(s) == {RowKey(s[i]) : i \in DOMAIN s}

AtRest == [op |-> "none", at |-> "idle", key |-> RowKey(Added(CHOOSE c \in Watched : TRUE)),
           seen |-> <<>>, out |-> <<>>, todo |-> <<>>, kept |-> <<>>]

(* list_items *)
ListItems == IF torn THEN <<>> ELSE rows

Without(s, k) == RowsAt(s, {i \in DOMAIN s : RowKey(s[i]) # k})

LastOf(s, k) ==
    s[CHOOSE i \in DOMAIN s : RowKey(s[i]) = k /\ \A j \in DOMAIN s : RowKey(s[j]) = k => j <= i]

(* The dictionary add() makes of the list: one row per key, the last one   *)
(* with that key, at the place of the first.                               *)
OnePerKey(s) ==
    RowsAt([i \in 1..Len(s) |-> LastOf(s, RowKey(s[i]))],
           {i \in DOMAIN s : \A j \in 1..(i - 1) : RowKey(s[j]) # RowKey(s[i])})

Target(s, k) == s[CHOOSE i \in DOMAIN s :
                    RowKey(s[i]) = k /\ \A j \in 1..(i - 1) : RowKey(s[j]) # k]

(* The rows with the target in place of those that have its key; the list  *)
(* holds the target itself, so it stays when the profile changes its key.  *)
Replaced(s, k, r) == [i \in DOMAIN s |-> IF RowKey(s[i]) = k THEN r ELSE s[i]]

Busy(a) == actor[a].at # "idle"

Overlaps(a) == \E b \in Actors \ {a} : Busy(b)

WatchlistInit ==
    /\ rows = <<>> /\ torn = FALSE /\ spoilt = {}
    /\ actor = [a \in Actors |-> AtRest]
    /\ shown = <<>> /\ signals = 0
    /\ requests = 0 /\ crashes = 0
    /\ wanted = {} /\ disturbed = FALSE

(***************************************************************************)
(* The user.  The page's handlers read the list first; the write follows.  *)
(***************************************************************************)
Begins(a, record) ==
    /\ ~Busy(a)
    /\ requests < MaxEdits
    /\ requests' = requests + 1
    /\ actor' = [actor EXCEPT ![a] = record]
    /\ UNCHANGED <<fileVars, shown, signals, crashes, wanted>>

(* WatchlistStore.add, from the search page and the company page. *)
AddCompany(c) ==
    /\ Begins("ui", [AtRest EXCEPT !.op = "add", !.at = "open", !.key = RowKey(Added(c)),
                                   !.out = OnePerKey(Append(ListItems, Added(c)))])
    /\ disturbed' = (disturbed \/ Overlaps("ui"))

(* _remove_company: the row as it was when the page was last refreshed. *)
RemoveCompany(r) ==
    /\ Begins("ui", [AtRest EXCEPT !.op = "remove", !.at = "open", !.key = RowKey(r),
                                   !.out = Without(ListItems, RowKey(r))])
    /\ disturbed' = \/ disturbed \/ Overlaps("ui")
                    \/ r.who \in Whos(Without(ListItems, RowKey(r)))

(* _refresh_company and _refresh_all hand the work to a thread of the pool. *)
RefreshCompany(j, r) ==
    /\ ~Busy("ui")
    /\ Begins(j, [AtRest EXCEPT !.op = "one", !.at = "list", !.key = RowKey(r)])
    /\ disturbed' = (disturbed \/ Overlaps(j))

RefreshAll(j) ==
    /\ ~Busy("ui")
    /\ Begins(j, [AtRest EXCEPT !.op = "all", !.at = "listAll"])
    /\ disturbed' = (disturbed \/ Overlaps(j))

(***************************************************************************)
(* _write: the file is truncated when it is opened and holds the rows when *)
(* it is closed.  A write that lands over one that was landed since it     *)
(* opened leaves the longer text's tail behind its own.                    *)
(***************************************************************************)
OpensFile(a) ==
    /\ actor[a].at \in {"open", "openMark", "openMerged", "openAll"}
    /\ torn' = TRUE
    /\ spoilt' = spoilt \ {a}
    /\ actor' = [actor EXCEPT ![a].at = CASE @ = "open" -> "write"
                                          [] @ = "openMark" -> "writeMark"
                                          [] @ = "openMerged" -> "writeMerged"
                                          [] @ = "openAll" -> "writeAll"]
    /\ UNCHANGED <<rows, shown, signals, requests, crashes, wanted, disturbed>>

Writing == {a \in Actors : actor[a].at \in {"write", "writeMark", "writeMerged", "writeAll"}}

Lands(a) ==
    /\ a \in Writing
    /\ rows' = actor[a].out
    /\ torn' \in (IF a \in spoilt THEN {FALSE, TRUE} ELSE {FALSE})
    /\ spoilt' = (spoilt \cup Writing) \ {a}

Ends(a) == [actor EXCEPT ![a] = AtRest]

(* The next row of a refresh of all of them, or their final write. *)
NextOfAll(a, kept) ==
    LET todo == actor[a].todo IN
      [actor EXCEPT ![a] =
         IF todo # <<>>
         THEN [@ EXCEPT !.at = "list", !.key = Head(todo), !.todo = Tail(todo), !.kept = kept]
         ELSE IF kept # <<>> THEN [@ EXCEPT !.at = "openAll", !.out = kept, !.kept = <<>>]
         ELSE AtRest]

(* The interface thread's write, and the refresh of the page after it. *)
UserWrites ==
    /\ actor["ui"].at = "write"
    /\ Lands("ui")
    /\ actor' = Ends("ui")
    /\ shown' = IF torn' THEN <<>> ELSE rows'
    /\ wanted' = IF actor["ui"].op = "add"
                 THEN wanted \cup {actor["ui"].key.who} ELSE wanted \ {actor["ui"].key.who}
    /\ UNCHANGED <<signals, requests, crashes, disturbed>>

(***************************************************************************)
(* A refresh of one row: list, mark, ask for the profile, write the list   *)
(* read at the start back with the row as it is now.                       *)
(***************************************************************************)
(* refresh_all_with_summary lists the rows it will go through. *)
ListsAll(j) ==
    /\ actor[j].at = "listAll"
    /\ LET keys == [i \in DOMAIN ListItems |-> RowKey(ListItems[i])] IN
         IF keys = <<>>
         THEN actor' = Ends(j) /\ signals' = signals + 1
         ELSE /\ actor' = [actor EXCEPT ![j].at = "list", ![j].key = Head(keys), ![j].todo = Tail(keys)]
              /\ UNCHANGED signals
    /\ UNCHANGED <<fileVars, shown, requests, crashes, wanted, disturbed>>

ListsRow(j) ==
    /\ actor[j].at = "list"
    /\ LET k == actor[j].key IN
         IF k \notin RowKeys(ListItems)
         THEN LET next == IF actor[j].op = "all" THEN NextOfAll(j, actor[j].kept) ELSE Ends(j) IN
                /\ actor' = next
                /\ signals' = IF next[j] = AtRest THEN signals + 1 ELSE signals
         ELSE LET marked == [Target(ListItems, k) EXCEPT !.refreshing = TRUE] IN
                /\ actor' = [actor EXCEPT ![j].at = "openMark", ![j].seen = ListItems,
                                          ![j].out = Replaced(ListItems, k, marked)]
                /\ UNCHANGED signals
    /\ UNCHANGED <<fileVars, shown, requests, crashes, wanted, disturbed>>

MarksRow(j) ==
    /\ actor[j].at = "writeMark"
    /\ Lands(j)
    /\ actor' = [actor EXCEPT ![j].at = "ask"]
    /\ UNCHANGED <<shown, signals, requests, crashes, wanted, disturbed>>

(* Mutant: the refresh of one row that finds no profile drops the row. *)
ProfileArrivesOrRowGoes(j) ==
    /\ actor[j].at = "ask"
    /\ \E found \in BOOLEAN :
         LET old == Target(actor[j].seen, actor[j].key)
             new == [old EXCEPT !.profiled = @ \/ found, !.refreshing = FALSE]
         IN  actor' = [actor EXCEPT ![j].at = "openMerged",
                                    ![j].out = IF found \/ actor[j].op = "all"
                                               THEN Replaced(actor[j].seen, actor[j].key, new)
                                               ELSE Without(actor[j].seen, actor[j].key)]
    /\ UNCHANGED <<fileVars, shown, signals, requests, crashes, wanted, disturbed>>

(* The profile service answers with a profile, without one or not at all. *)
ProfileArrives(j) ==
    /\ actor[j].at = "ask"
    /\ \E found \in BOOLEAN :
         LET old == Target(actor[j].seen, actor[j].key)
             new == [old EXCEPT !.profiled = @ \/ found, !.refreshing = FALSE]
         IN  actor' = [actor EXCEPT ![j].at = "openMerged",
                                    ![j].out = Replaced(actor[j].seen, actor[j].key, new)]
    /\ UNCHANGED <<fileVars, shown, signals, requests, crashes, wanted, disturbed>>

MergesRow(j) ==
    /\ actor[j].at = "writeMerged"
    /\ Lands(j)
    /\ LET place == CHOOSE i \in DOMAIN actor[j].seen :
                      /\ RowKey(actor[j].seen[i]) = actor[j].key
                      /\ \A n \in 1..(i - 1) : RowKey(actor[j].seen[n]) # actor[j].key
           next == IF actor[j].op = "all"
                   THEN NextOfAll(j, Append(actor[j].kept, actor[j].out[place]))
                   ELSE Ends(j)
       IN  /\ actor' = next
           /\ signals' = IF next[j] = AtRest THEN signals + 1 ELSE signals
    /\ UNCHANGED <<shown, requests, crashes, wanted, disturbed>>

WritesAll(j) ==
    /\ actor[j].at = "writeAll"
    /\ Lands(j)
    /\ actor' = Ends(j)
    /\ signals' = signals + 1
    /\ UNCHANGED <<shown, requests, crashes, wanted, disturbed>>

(* A finished refresh reaches the page, or the user comes back to it. *)
RefreshPage ==
    /\ ~Busy("ui")
    /\ signals > 0 \/ shown # ListItems
    /\ shown' = ListItems
    /\ signals' \in {n \in {signals, signals - 1} : n \in Nat}
    /\ UNCHANGED <<fileVars, actor, requests, crashes, wanted, disturbed>>

(* The process ends at any point and is started again. *)
CrashesAndStarts ==
    /\ crashes < MaxCrashes
    /\ crashes' = crashes + 1
    /\ actor' = [a \in Actors |-> AtRest]
    /\ spoilt' = {}
    /\ shown' = ListItems
    /\ signals' = 0
    /\ disturbed' = (disturbed \/ torn)
    /\ UNCHANGED <<rows, torn, requests, wanted>>

-----------------------------------------------------------------------------

WatchlistNext ==
    \/ \E c \in Watched : AddCompany(c)
    \/ \E i \in DOMAIN shown : RemoveCompany(shown[i]) \/ \E j \in Jobs : RefreshCompany(j, shown[i])
    \/ UserWrites
    \/ \E a \in Actors : OpensFile(a)
    \/ \E j \in Jobs : \/ RefreshAll(j) \/ ListsAll(j) \/ ListsRow(j) \/ MarksRow(j)
                       \/ ProfileArrives(j) \/ MergesRow(j) \/ WritesAll(j)
    \/ RefreshPage
    \/ CrashesAndStarts

WatchlistSpec == WatchlistInit /\ [][WatchlistNext]_watchlistVars

-----------------------------------------------------------------------------

Row == [who: Watched, profiled: BOOLEAN, refreshing: BOOLEAN]

Key == [who: Watched, found: BOOLEAN]

WatchlistTypeOK ==
    /\ rows \in Seq(Row) /\ shown \in Seq(Row)
    /\ torn \in BOOLEAN /\ disturbed \in BOOLEAN
    /\ spoilt \subseteq Actors
    /\ signals \in Nat /\ requests \in 0..MaxEdits /\ crashes \in 0..MaxCrashes
    /\ wanted \subseteq Watched
    /\ actor \in [Actors -> [op: {"none", "add", "remove", "one", "all"},
                             at: {"idle", "open", "write", "listAll", "list", "openMark", "writeMark",
                                  "ask", "openMerged", "writeMerged", "openAll", "writeAll"},
                             key: Key, seen: Seq(Row), out: Seq(Row), todo: Seq(Key), kept: Seq(Row)]]

(* Unless two actors overlapped, a write was cut off or the page showed a  *)
(* row under a key it no longer had, the file holds exactly the companies  *)
(* the user added and did not remove, whatever refreshes, profiles that    *)
(* change a row's key and restarts came between; and it cannot be parsed   *)
(* only while somebody is writing it.                                      *)
ListIsWanted ==
    ~disturbed => /\ Whos(rows) = wanted
                  /\ torn => Writing # {}

(* "Removed watchlist items do not reappear": a company that is not in the *)
(* list comes into it only because the user added it.                      *)
RemovedStaysRemoved ==
    [][\A c \in Whos(rows') \ Whos(rows) : c \in wanted']_watchlistVars
=============================================================================
