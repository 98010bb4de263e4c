----------------------------- MODULE SearchCalls -----------------------------
(***************************************************************************)
(* What the two stages of a company search (public_api/search_service.py)  *)
(* have in common.  search_local asks the bundled indexes one after the    *)
(* other (LocalSearch), enrich_search the remote providers (EnrichSearch). *)
(* One service object serves all threads of the search page, and both      *)
(* stages look at the cancel event of their search at fixed places.        *)
(*                                                                         *)
(* A key is a normalised query with region, scope and limit.  The rows of  *)
(* an answer are abstracted to the providers they came from: Knows says    *)
(* which providers hold the company asked for.  An answer carries excuses, *)
(* the providers that its statuses report as not having been heard: left   *)
(* out by the budget, skipped, failed, late or paused.                     *)
(***************************************************************************)
EXTENDS Naturals, Sequences, FiniteSets, SequencesExt

CONSTANTS
    Searches,    \* calls of the service
    SearchKeys,  \* keys the user searches for
    NoKey,       \* the key of a search that has not started
    Providers,   \* provider ids
    Knows        \* the providers that hold what a key asks for

ASSUME CallsAssumption == NoKey \notin SearchKeys /\ DOMAIN Knows = SearchKeys

VARIABLES
    searchStage,   \* where each search stands
    searchKey,     \* what it is about
    searchAlarm,   \* searches whose cancel event is set
    gathered       \* rows and excuses it has gathered

callVars == <<searchStage, searchKey, searchAlarm, gathered>>

Nothing == [rows |-> {}, excused |-> {}]

CallsInit ==
    /\ searchStage = [s \in Searches |-> "none"]
    /\ searchKey = [s \in Searches |-> NoKey]
    /\ searchAlarm = {}
    /\ gathered = [s \in Searches |-> Nothing]

(* _is_cancelled *)
Cancelled(s) == s \in searchAlarm

(* The user cancels, or a newer search supersedes this one; the event is   *)
(* never cleared.  For a search that is over it makes no difference.       *)
SetAlarm(s) ==
    /\ searchStage[s] # "over"
    /\ searchAlarm' = searchAlarm \cup {s}
    /\ UNCHANGED <<searchStage, searchKey, gathered>>

(* Whoever of ps holds what k asks for is among the rows of e, or the      *)
(* statuses of e say that it was not heard.                                *)
Accounted(k, ps, e) == ps \cap Knows[k] \subseteq e.rows \cup e.excused
=============================================================================
