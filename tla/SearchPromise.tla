---------------------------- MODULE SearchPromise ----------------------------
(***************************************************************************)
(* What the search page promises the user: whatever threads are still at   *)
(* work for earlier searches, only the search asked for last and not given *)
(* up since may change what is shown, first by its local results, then by  *)
(* their public supplement.                                                *)
(***************************************************************************)
EXTENDS Naturals

CONSTANT MaxSearches

VARIABLES
    wanted,   \* the search the user waits for; 0 when there is none
    screen    \* what is shown, and the search it belongs to

promiseVars == <<wanted, screen>>

Initial == [kind |-> "initial", of |-> 0]

PromiseInit == wanted = 0 /\ screen = Initial

Ask(j) ==
    /\ wanted' = j
    /\ screen' = [kind |-> "loading", of |-> j]

AskNothing ==
    /\ wanted' = 0
    /\ screen' = Initial

GiveUp ==
    /\ wanted' = 0
    /\ UNCHANGED screen

Show(j, kind, before) ==
    /\ wanted = j
    /\ screen \in {[kind |-> k, of |-> j] : k \in before}
    /\ screen' = [kind |-> kind, of |-> j]
    /\ UNCHANGED wanted

PromiseNext ==
    \/ \E j \in 1..MaxSearches :
          \/ Ask(j)
          \/ Show(j, "local", {"loading"})
          \/ Show(j, "failed", {"loading"})
          \/ Show(j, "full", {"local"})
          \/ Show(j, "partial", {"local"})
    \/ AskNothing
    \/ GiveUp

PromiseSpec == PromiseInit /\ [][PromiseNext]_promiseVars
=============================================================================
