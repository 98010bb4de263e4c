--------------------------- MODULE MCCrawlReturns ---------------------------
(***************************************************************************)
(* The calls of CrawlService under fairness, in one of two surroundings:   *)
(*   one page  both slots are free and no page has links, so that two jobs *)
(*             meet at the host locks;                                     *)
(*   one slot  a crawl outside the instance keeps the other slot, so that  *)
(*             the jobs meet at the slots, each with several pages and the *)
(*             delays between them.                                        *)
(***************************************************************************)
EXTENDS CrawlService

VARIABLE around

LiveInit == Init /\ around = "open"

ChooseSurroundings ==
    /\ around = "open"
    /\ \/ around' = "one page" /\ UNCHANGED free
       \/ around' = "one slot" /\ free' = free - 1
    /\ UNCHANGED <<pc, event, expired, jobVars, active, hostLock, robots, last>>

(* Whatever a page holds, the jobs have steps for a page without links.    *)
NoLinks == \A j \in Jobs : pages'[j] + queue'[j] <= 1

LiveNext ==
    \/ ChooseSurroundings
    \/ around = "one page" /\ Next /\ NoLinks /\ UNCHANGED around
    \/ around = "one slot" /\ Next /\ UNCHANGED around

LiveSpec ==
    /\ LiveInit /\ [][LiveNext]_<<vars, around>>
    /\ \A j \in Jobs : WF_vars(Step(j))
=============================================================================
