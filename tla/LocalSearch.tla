----------------------------- MODULE LocalSearch -----------------------------
(***************************************************************************)
(* search_local: the bundled indexes are asked in order, within a budget   *)
(* of 0.3 seconds; answers are kept in a bounded cache in memory, the      *)
(* least recently used first, that concurrent searches share under a lock. *)
(***************************************************************************)
EXTENDS SearchCalls

CONSTANTS
    LocalOf,      \* the local providers of a key, in the order of the registry
    Directory,    \* nasdaq_directory, skipped when there are rows already
    MemoryLimit   \* LOCAL_CACHE_MAX_ITEMS

ASSUME LocalAssumption ==
    /\ DOMAIN LocalOf = SearchKeys
    /\ \A k \in SearchKeys : LocalOf[k] \in Seq(Providers)
    /\ MemoryLimit \in Nat \ {0}

VARIABLES
    localAt,     \* index of the next local provider
    memory       \* _local_cache

localVars == <<callVars, localAt, memory>>

-----------------------------------------------------------------------------

LocalSet(k) == {LocalOf[k][i] : i \in DOMAIN LocalOf[k]}

(* _get_local_cache: what the cache holds for k, unless it is too old. *)
Remembered(k) == {e \in Range(memory) : e.key = k}

(* _local_cache is a dictionary: a key is in it once. *)
Without(k) ==
    LET at == {i \in DOMAIN memory : memory[i].key = k}
    IN  IF at = {} THEN memory ELSE RemoveAt(memory, CHOOSE i \in at : TRUE)

(* _put_local_cache: the newest last, the oldest dropped beyond the limit. *)
MemoryWith(entry) ==
    LET all == Append(Without(entry.key), entry)
    IN  SubSeq(all, IF Len(all) > MemoryLimit THEN Len(all) - MemoryLimit + 1 ELSE 1,
               Len(all))

-----------------------------------------------------------------------------

LocalInit ==
    /\ CallsInit
    /\ localAt = [s \in Searches |-> 1]
    /\ memory = <<>>

(* search_local returns to the page. *)
LocalReturns(s) ==
    /\ searchStage' = [searchStage EXCEPT ![s] = "over"]
    /\ gathered' = [gathered EXCEPT ![s] = Nothing]
    /\ localAt' = [localAt EXCEPT ![s] = 1]

(* The head of search_local, up to the choice of the indexes.  A cached    *)
(* entry older than half an hour is dropped by the lookup.                 *)
LocalStart(s, k) ==
    /\ searchStage[s] = "none"
    /\ searchKey' = [searchKey EXCEPT ![s] = k]
    /\ \/ /\ Cancelled(s)
          /\ LocalReturns(s)
          /\ UNCHANGED memory
       \/ /\ ~Cancelled(s)
          /\ \E e \in Remembered(k) : memory' = Append(Without(k), e)
          /\ LocalReturns(s)
       \/ /\ ~Cancelled(s)
          /\ searchStage' = [searchStage EXCEPT ![s] = "local"]
          /\ memory' = Without(k)
          /\ UNCHANGED <<gathered, localAt>>
    /\ UNCHANGED searchAlarm

(* Rows and excuses after asking p, whose index may be missing or broken.  *)
LocalOutcomes(s, p) ==
    LET k == searchKey[s]
        a == gathered[s]
    IN  IF p = Directory /\ a.rows # {}
        THEN {[a EXCEPT !.excused = @ \cup {p}]}
        ELSE {[a EXCEPT !.rows = @ \cup ({p} \cap Knows[k])],
              [a EXCEPT !.excused = @ \cup {p}]}

(* One round of the loop over the indexes; a search that is cancelled      *)
(* before the round or during the call returns without rows.               *)
LocalAsk(s) ==
    /\ searchStage[s] = "local"
    /\ localAt[s] \in DOMAIN LocalOf[searchKey[s]]
    /\ IF Cancelled(s)
       THEN LocalReturns(s)
       ELSE /\ \E a \in LocalOutcomes(s, LocalOf[searchKey[s]][localAt[s]]) :
                  gathered' = [gathered EXCEPT ![s] = a]
            /\ localAt' = [localAt EXCEPT ![s] = @ + 1]
            /\ UNCHANGED searchStage
    /\ UNCHANGED <<searchKey, searchAlarm, memory>>

(* Mutant: the statuses do not tell that the budget was spent.             *)
LocalBudgetSilent(s) ==
    /\ searchStage[s] = "local"
    /\ localAt[s] \in DOMAIN LocalOf[searchKey[s]]
    /\ localAt' = [localAt EXCEPT ![s] = Len(LocalOf[searchKey[s]]) + 1]
    /\ UNCHANGED <<callVars, memory>>

(* The budget is spent: the indexes not asked yet are left out. *)
LocalBudgetSpent(s) ==
    /\ searchStage[s] = "local"
    /\ localAt[s] \in DOMAIN LocalOf[searchKey[s]]
    /\ gathered' = [gathered EXCEPT ![s].excused =
                     @ \cup {LocalOf[searchKey[s]][i] :
                              i \in localAt[s]..Len(LocalOf[searchKey[s]])}]
    /\ localAt' = [localAt EXCEPT ![s] = Len(LocalOf[searchKey[s]]) + 1]
    /\ UNCHANGED <<searchStage, searchKey, searchAlarm, memory>>

(* Ranking, and the answer into the cache. *)
LocalRank(s) ==
    /\ searchStage[s] = "local"
    /\ localAt[s] > Len(LocalOf[searchKey[s]])
    /\ LocalReturns(s)
    /\ memory' = IF Cancelled(s) THEN memory
                 ELSE MemoryWith([key |-> searchKey[s], rows |-> gathered[s].rows,
                                  excused |-> gathered[s].excused])
    /\ UNCHANGED <<searchKey, searchAlarm>>

(* clear_query_cache *)
ClearQueryCache ==
    /\ memory # <<>>
    /\ memory' = <<>>
    /\ UNCHANGED <<searchStage, searchKey, searchAlarm, gathered, localAt>>

LocalNext ==
    \/ \E s \in Searches :
          \/ SetAlarm(s) /\ UNCHANGED <<localAt, memory>>
          \/ \E k \in SearchKeys : LocalStart(s, k)
          \/ LocalAsk(s)
          \/ LocalBudgetSpent(s)
          \/ LocalRank(s)
    \/ ClearQueryCache

LocalSpec == LocalInit /\ [][LocalNext]_localVars

-----------------------------------------------------------------------------

(* A local answer served from the cache for half an hour may lack an index *)
(* that the budget, an error or the cancellation of the search kept from   *)
(* being asked only if its statuses say so.                                *)
MemoryIsAccounted ==
    \A i \in DOMAIN memory : Accounted(memory[i].key, LocalSet(memory[i].key), memory[i])
=============================================================================
