------------------------------ MODULE CrawlPool ------------------------------
(***************************************************************************)
(* What WebEvidenceService promises about any number of concurrent crawls: *)
(* at most Slots of them run at a time, each runs at most once, a host     *)
(* serves page requests of one running crawl at a time, a crawl asks one   *)
(* host at a time, and it is over only when it has let go of its host.     *)
(* CrawlService implements this.                                           *)
(***************************************************************************)
EXTENDS Naturals, FiniteSets

CONSTANTS Jobs, Hosts, Nobody, Slots

VARIABLES
    running,   \* jobs that hold a slot
    done,      \* jobs that are over, run or not
    using      \* the job that may request pages of each host

vars == <<running, done, using>>

Init ==
    /\ running = {}
    /\ done = {}
    /\ using = [h \in Hosts |-> Nobody]

Fresh(j) == j \notin running \cup done

Idle(j) == \A h \in Hosts : using[h] # j

Admit(j) ==
    /\ Fresh(j)
    /\ Cardinality(running) < Slots
    /\ running' = running \cup {j}
    /\ UNCHANGED <<done, using>>

(* Cancelled or failed before it got a slot. *)
Refuse(j) ==
    /\ Fresh(j)
    /\ done' = done \cup {j}
    /\ UNCHANGED <<running, using>>

Claim(j, h) ==
    /\ j \in running
    /\ Idle(j)
    /\ using[h] = Nobody
    /\ using' = [using EXCEPT ![h] = j]
    /\ UNCHANGED <<running, done>>

Release(j, h) ==
    /\ using[h] = j
    /\ using' = [using EXCEPT ![h] = Nobody]
    /\ UNCHANGED <<running, done>>

Leave(j) ==
    /\ j \in running
    /\ Idle(j)
    /\ running' = running \ {j}
    /\ done' = done \cup {j}
    /\ UNCHANGED using

Next ==
    \E j \in Jobs :
        \/ Admit(j) \/ Refuse(j) \/ Leave(j)
        \/ \E h \in Hosts : Claim(j, h) \/ Release(j, h)

Spec == Init /\ [][Next]_vars
=============================================================================
