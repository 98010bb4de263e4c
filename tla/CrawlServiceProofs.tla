------------------------- MODULE CrawlServiceProofs -------------------------
(***************************************************************************)
(* Theorems about CrawlService, for any number of jobs, hosts, slots and   *)
(* pages.  The invariants build on each other: types and slots first, then *)
(* what the host locks and the registered events say, then the rows.       *)
(***************************************************************************)
EXTENDS CrawlService, FiniteSetTheorems, TLAPS

USE DEF HoldsSlot, Registered, HoldsHost, Outside, Terminal

(* Program points at which the job has a page in hand.                     *)
HasPage == {"robots", "robots_fetch", "lock_check", "lock_wait", "delay", "fetch",
            "respond", "item"}

PageHasHost == \A j \in Jobs : pc[j] \in HasPage => host[j] \in Hosts

Basics == TypeOK /\ PageHasHost /\ SlotsAccounted

-----------------------------------------------------------------------------

(* Jobs that move without taking or giving back a slot leave the set of    *)
(* holders as it is.                                                       *)
LEMMA HoldersKept ==
  ASSUME \A i \in Jobs : pc'[i] \in HoldsSlot <=> pc[i] \in HoldsSlot
  PROVE  Holders' = Holders
BY DEF Holders

-----------------------------------------------------------------------------

(* No step loses a permit or makes one up.                                 *)
LEMMA SlotsStep ==
  ASSUME Basics, [Next]_vars
  PROVE  SlotsAccounted' /\ free' \in 0..Slots
<1> USE DEF Basics
<1> DEFINE Kept == free' = free /\ \A i \in Jobs : pc'[i] \in HoldsSlot <=> pc[i] \in HoldsSlot
<1>1. IsFiniteSet(Holders) /\ Cardinality(Holders) \in Nat
  BY FS_Subset, FS_CardinalityType, ServiceAssumption DEF Holders
<1>2. free \in Nat /\ Slots \in Nat /\ free + Cardinality(Holders) = Slots
  <2>1. Slots \in Nat BY ServiceAssumption
  <2>2. free \in 0..Slots BY DEF TypeOK
  <2>3. free + Cardinality(Holders) = Slots BY DEF SlotsAccounted
  <2> QED BY <2>1, <2>2, <2>3
<1>3. ASSUME Kept PROVE SlotsAccounted' /\ free' \in 0..Slots
  <2>1. Holders' = Holders
    BY <1>3, HoldersKept
  <2>2. Cardinality(Holders') = Cardinality(Holders)
    BY <2>1
  <2> QED BY <1>1, <1>2, <1>3, <2>2 DEF SlotsAccounted
<1>4. ASSUME NEW j \in Jobs, WaitSlot(j) PROVE SlotsAccounted' /\ free' \in 0..Slots
  <2>1. CASE free = 0
    <3>1. pc[j] = "slot_wait" /\ pc' = [pc EXCEPT ![j] = "slot_check"] /\ free' = free
      BY <1>4, <2>1 DEF WaitSlot, Goto
    <3>2. Kept BY <3>1 DEF TypeOK
    <3> QED BY <1>3, <3>2
  <2>2. CASE free > 0
    <3>1. Holders' = Holders \cup {j} /\ j \notin Holders
      <4>1. pc[j] = "slot_wait" /\ pc' = [pc EXCEPT ![j] = "register"]
        BY <1>4, <2>2 DEF WaitSlot, Goto
      <4> QED BY <4>1 DEF TypeOK, Holders
    <3>2. Cardinality(Holders') = Cardinality(Holders) + 1
      BY <1>1, <3>1, FS_AddElement
    <3>3. free' = free - 1
      BY <1>4, <2>2 DEF WaitSlot
    <3> QED BY <1>1, <1>2, <2>2, <3>2, <3>3 DEF SlotsAccounted
  <2> QED BY <1>2, <2>1, <2>2
<1>5. ASSUME NEW j \in Jobs, FreeSlot(j) PROVE SlotsAccounted' /\ free' \in 0..Slots
  <2>1. Holders' = Holders \ {j} /\ j \in Holders
    BY <1>5 DEF FreeSlot, Goto, TypeOK, Holders
  <2>2. Cardinality(Holders') = Cardinality(Holders) - 1 /\ Cardinality(Holders') \in Nat
    BY <1>1, <2>1, FS_RemoveElement, FS_CardinalityType
  <2>3. free' = free + 1
    BY <1>5 DEF FreeSlot
  <2> QED BY <1>1, <1>2, <2>2, <2>3 DEF SlotsAccounted
<1>6. ASSUME NEW j \in Jobs, Call(j) PROVE Kept
  BY <1>6 DEF Call, Goto, TypeOK
<1>7. ASSUME NEW j \in Jobs, CheckSlot(j) PROVE Kept
  BY <1>7 DEF CheckSlot, Goto, TypeOK
<1>8. ASSUME NEW j \in Jobs, Register(j) PROVE Kept
  BY <1>8 DEF Register, Goto, TypeOK
<1>9. ASSUME NEW j \in Jobs, StartJob(j) PROVE Kept
  BY <1>9 DEF StartJob, Goto, TypeOK
<1>10. ASSUME NEW j \in Jobs, EndLoop(j) PROVE Kept
  BY <1>10 DEF EndLoop, Finish, Goto, TypeOK
<1>11. ASSUME NEW j \in Jobs, TakePage(j) PROVE Kept
  BY <1>11 DEF TakePage, Goto, TypeOK
<1>12. ASSUME NEW j \in Jobs, LookupRobots(j) \/ FetchRobots(j) PROVE Kept
  BY <1>12 DEF LookupRobots, FetchRobots, Verdict, LeavePage, Goto, TypeOK
<1>13. ASSUME NEW j \in Jobs, CheckHostLock(j) PROVE Kept
  BY <1>13 DEF CheckHostLock, LeavePage, Goto, TypeOK
<1>14. ASSUME NEW j \in Jobs, WaitHostLock(j) PROVE Kept
  BY <1>14 DEF WaitHostLock, Goto, TypeOK
<1>15. ASSUME NEW j \in Jobs, WaitDelay(j) PROVE Kept
  BY <1>15 DEF WaitDelay, LeavePage, Goto, TypeOK
<1>16. ASSUME NEW j \in Jobs, FetchPage(j) PROVE Kept
  BY <1>16 DEF FetchPage, Goto, TypeOK
<1>17. ASSUME NEW j \in Jobs, Respond(j) PROVE Kept
  BY <1>17 DEF Respond, LeavePage, Goto, TypeOK
<1>18. ASSUME NEW j \in Jobs, AddItem(j) PROVE Kept
  BY <1>18 DEF AddItem, LeavePage, Goto, TypeOK
<1>19. ASSUME NEW j \in Jobs, Raise(j) PROVE Kept
  BY <1>19 DEF Raise, Goto, TypeOK
<1>20. ASSUME NEW j \in Jobs, Unregister(j) PROVE Kept
  BY <1>20 DEF Unregister, Goto, TypeOK
<1>21. ASSUME NEW j \in Jobs, Cancel(j) \/ Expire(j) PROVE Kept
  BY <1>21 DEF Cancel, Expire
<1>22. ASSUME NEW j \in Jobs, NEW h \in Hosts, Cool(j, h) PROVE Kept
  BY <1>22 DEF Cool
<1>23. CASE Shutdown \/ UNCHANGED vars
  BY <1>3, <1>23 DEF Shutdown, vars
<1>24. ASSUME NEW h \in Hosts, ForgetRobots(h) PROVE Kept
  BY <1>24 DEF ForgetRobots
<1> HIDE DEF Kept
<1> QED
  BY <1>3, <1>4, <1>5, <1>6, <1>7, <1>8, <1>9, <1>10, <1>11, <1>12, <1>13, <1>14, <1>15,
     <1>16, <1>17, <1>18, <1>19, <1>20, <1>21, <1>22, <1>23, <1>24 DEF Next, Step

CounterTypes == queue \in [Jobs -> 0..MaxQueue] /\ pages \in [Jobs -> 0..MaxPages]

RowTypes ==
    /\ error \in [Jobs -> {"", "invalid_url", "cancelled", "timeout"}]
    /\ row \in [Jobs -> Terminal \cup {"absent", "running"}]

(* The queue and the page budget stay within their bounds.                 *)
LEMMA CountersStep ==
  ASSUME TypeOK, [Next]_vars
  PROVE  CounterTypes'
<1>1. MaxQueue \in Nat \ {0} /\ MaxPages \in Nat \ {0}
  BY ServiceAssumption
<1>2. queue \in [Jobs -> 0..MaxQueue] /\ pages \in [Jobs -> 0..MaxPages]
  BY DEF TypeOK
<1>3. ASSUME NEW j \in Jobs, StartJob(j) PROVE CounterTypes'
  <2>1. /\ pages' = pages
        /\ \/ queue' = queue
           \/ \E n \in 1..MaxQueue : queue' = [queue EXCEPT ![j] = n]
    BY <1>3 DEF StartJob
  <2>2. ASSUME NEW n \in 1..MaxQueue, queue' = [queue EXCEPT ![j] = n]
        PROVE  queue' \in [Jobs -> 0..MaxQueue]
    <3>1. n \in 0..MaxQueue
      BY <1>1
    <3> QED BY <1>2, <2>2, <3>1
  <2>3. queue' \in [Jobs -> 0..MaxQueue]
    <3>1. CASE queue' = queue
      BY <1>2, <3>1
    <3> QED BY <2>1, <2>2, <3>1
  <2>4. pages' \in [Jobs -> 0..MaxPages]
    BY <1>2, <2>1
  <2> QED BY <2>3, <2>4 DEF CounterTypes
<1>4. ASSUME NEW j \in Jobs, TakePage(j) PROVE CounterTypes'
  <2>1. /\ queue[j] > 0 /\ pages[j] < MaxPages
        /\ queue' = [queue EXCEPT ![j] = queue[j] - 1]
        /\ pages' = pages \/ pages' = [pages EXCEPT ![j] = pages[j] + 1]
    BY <1>4 DEF TakePage, MorePages
  <2>2. queue[j] - 1 \in 0..MaxQueue
    BY <1>1, <1>2, <2>1
  <2>3. pages[j] + 1 \in 0..MaxPages
    BY <1>1, <1>2, <2>1
  <2> QED BY <1>2, <2>1, <2>2, <2>3 DEF CounterTypes
<1>5. ASSUME NEW j \in Jobs, AddItem(j) PROVE CounterTypes'
  <2>1. pages' = pages /\ \E n \in queue[j]..MaxQueue : queue' = [queue EXCEPT ![j] = n]
    BY <1>5 DEF AddItem
  <2> QED BY <1>1, <1>2, <2>1 DEF CounterTypes
<1>6. ASSUME NEW j \in Jobs, Unregister(j) PROVE CounterTypes'
  <2>1. queue' = [queue EXCEPT ![j] = 0] /\ pages' = [pages EXCEPT ![j] = 0]
    BY <1>6 DEF Unregister
  <2> QED BY <1>1, <1>2, <2>1 DEF CounterTypes
<1>7. ASSUME UNCHANGED <<queue, pages>> PROVE CounterTypes'
  BY <1>2, <1>7 DEF CounterTypes
<1> QED
  BY <1>3, <1>4, <1>5, <1>6, <1>7
     DEF Next, Step, Call, CheckSlot, WaitSlot, Register, EndLoop, LookupRobots,
         FetchRobots, CheckHostLock, WaitHostLock, WaitDelay, FetchPage, Respond,
         Raise, FreeSlot, Cancel, Expire, Cool, ForgetRobots, Shutdown,
         vars, jobVars

(* A row holds a status and a job an error type, whichever way it ends.    *)
LEMMA RowsStep ==
  ASSUME TypeOK, [Next]_vars
  PROVE  RowTypes'
<1>1. RowTypes
  BY DEF TypeOK, RowTypes
<1>2. ASSUME NEW j \in Jobs, Call(j) PROVE RowTypes'
  BY <1>1, <1>2 DEF Call, FinalStatus, RowTypes
<1>3. ASSUME NEW j \in Jobs, CheckSlot(j) PROVE RowTypes'
  BY <1>1, <1>3 DEF CheckSlot, RowTypes
<1>4. ASSUME NEW j \in Jobs, StartJob(j) PROVE RowTypes'
  BY <1>1, <1>4 DEF StartJob, FinalStatus, RowTypes
<1>5. ASSUME NEW j \in Jobs, NEW err \in {error[j], "cancelled", "timeout"}, Finish(j, err)
      PROVE  RowTypes'
  BY <1>1, <1>5 DEF Finish, FinalStatus, RowTypes
<1>6. ASSUME NEW j \in Jobs, EndLoop(j) PROVE RowTypes'
  BY <1>5, <1>6 DEF EndLoop
<1>7. ASSUME NEW j \in Jobs, CheckHostLock(j) \/ WaitDelay(j) PROVE RowTypes'
  BY <1>1, <1>7 DEF CheckHostLock, WaitDelay, RowTypes
<1>8. ASSUME NEW j \in Jobs, Unregister(j) PROVE RowTypes'
  BY <1>1, <1>8 DEF Unregister, RowTypes
<1>9. ASSUME UNCHANGED <<error, row>> PROVE RowTypes'
  BY <1>1, <1>9 DEF RowTypes
<1> QED
  BY <1>2, <1>3, <1>4, <1>6, <1>7, <1>8, <1>9
     DEF Next, Step, WaitSlot, Register, TakePage, LookupRobots, FetchRobots,
         WaitHostLock, FetchPage, Respond, AddItem, Raise, FreeSlot, Cancel,
         Expire, Cool, ForgetRobots, Shutdown, vars, jobVars

(* Everything in TypeOK that is not about permits, counters and rows, and  *)
(* the host of the page in hand.                                           *)
OtherTypes ==
    /\ pc \in [Jobs -> HoldsSlot \cup Outside]
    /\ event \subseteq Jobs
    /\ expired \subseteq Jobs
    /\ host \in [Jobs -> Hosts \cup {Nobody}]
    /\ items \subseteq Jobs
    /\ skipped \subseteq Jobs
    /\ raised \subseteq Jobs
    /\ active \subseteq Jobs
    /\ hostLock \in [Hosts -> Jobs \cup {Nobody}]
    /\ robots \subseteq Hosts
    /\ last \in [Jobs -> [Hosts -> LastRequest]]
    /\ PageHasHost

LEMMA OtherTypesStep ==
  ASSUME OtherTypes, [Next]_vars
  PROVE  OtherTypes'
<1> USE DEF OtherTypes, PageHasHost, HasPage
<1>1. ASSUME NEW j \in Jobs, Call(j) PROVE OtherTypes'
  BY <1>1 DEF Call, Goto
<1>2. ASSUME NEW j \in Jobs, CheckSlot(j) PROVE OtherTypes'
  BY <1>2 DEF CheckSlot, Goto
<1>3. ASSUME NEW j \in Jobs, WaitSlot(j) PROVE OtherTypes'
  BY <1>3 DEF WaitSlot, Goto, jobVars
<1>4. ASSUME NEW j \in Jobs, Register(j) PROVE OtherTypes'
  BY <1>4 DEF Register, Goto, jobVars
<1>5. ASSUME NEW j \in Jobs, StartJob(j) PROVE OtherTypes'
  BY <1>5 DEF StartJob, Goto
<1>6. ASSUME NEW j \in Jobs, EndLoop(j) PROVE OtherTypes'
  BY <1>6 DEF EndLoop, Finish, Goto
<1>7. ASSUME NEW j \in Jobs, TakePage(j) PROVE OtherTypes'
  BY <1>7 DEF TakePage, Goto
<1>8. ASSUME NEW j \in Jobs, LookupRobots(j) PROVE OtherTypes'
  BY <1>8 DEF LookupRobots, Verdict, LeavePage, Goto
<1>9. ASSUME NEW j \in Jobs, FetchRobots(j) PROVE OtherTypes'
  BY <1>9 DEF FetchRobots, Verdict, LeavePage, Goto
<1>10. ASSUME NEW j \in Jobs, CheckHostLock(j) PROVE OtherTypes'
  BY <1>10 DEF CheckHostLock, LeavePage, Goto
<1>11. ASSUME NEW j \in Jobs, WaitHostLock(j) PROVE OtherTypes'
  <2>1. hostLock' \in [Hosts -> Jobs \cup {Nobody}]
    BY <1>11 DEF WaitHostLock
  <2>2. \E l \in {"delay", "lock_check"} : pc' = [pc EXCEPT ![j] = l]
    BY <1>11 DEF WaitHostLock, Goto
  <2>3. pc[j] = "lock_wait" /\ UNCHANGED <<event, expired, host, items, skipped, raised,
                                           active, robots, last>>
    BY <1>11 DEF WaitHostLock, jobVars
  <2> QED BY <2>1, <2>2, <2>3
<1>12. ASSUME NEW j \in Jobs, WaitDelay(j) PROVE OtherTypes'
  BY <1>12 DEF WaitDelay, LeavePage, Unlock, Goto
<1>13. ASSUME NEW j \in Jobs, FetchPage(j) PROVE OtherTypes'
  BY <1>13 DEF FetchPage, Unlock, Goto, LastRequest, jobVars
<1>14. ASSUME NEW j \in Jobs, Respond(j) PROVE OtherTypes'
  BY <1>14 DEF Respond, LeavePage, Goto
<1>15. ASSUME NEW j \in Jobs, AddItem(j) PROVE OtherTypes'
  BY <1>15 DEF AddItem, LeavePage, Goto
<1>16. ASSUME NEW j \in Jobs, Raise(j) PROVE OtherTypes'
  BY <1>16 DEF Raise, Unlock, Goto
<1>17. ASSUME NEW j \in Jobs, Unregister(j) PROVE OtherTypes'
  BY <1>17 DEF Unregister, Goto, LastRequest
<1>18. ASSUME NEW j \in Jobs, FreeSlot(j) PROVE OtherTypes'
  BY <1>18 DEF FreeSlot, Goto, jobVars
<1>19. ASSUME NEW j \in Jobs, Cancel(j) PROVE OtherTypes'
  BY <1>19 DEF Cancel, jobVars
<1>20. ASSUME NEW j \in Jobs, Expire(j) PROVE OtherTypes'
  BY <1>20 DEF Expire, jobVars
<1>21. ASSUME NEW j \in Jobs, NEW h \in Hosts, Cool(j, h) PROVE OtherTypes'
  BY <1>21 DEF Cool, jobVars, LastRequest
<1>22. ASSUME NEW h \in Hosts, ForgetRobots(h) PROVE OtherTypes'
  BY <1>22 DEF ForgetRobots, jobVars
<1>23. ASSUME Shutdown PROVE OtherTypes'
  BY <1>23 DEF Shutdown, jobVars
<1>24. ASSUME UNCHANGED vars PROVE OtherTypes'
  BY <1>24 DEF vars, jobVars
<1> HIDE DEF OtherTypes
<1> QED
  BY <1>1, <1>2, <1>3, <1>4, <1>5, <1>6, <1>7, <1>8, <1>9, <1>10, <1>11, <1>12,
     <1>13, <1>14, <1>15, <1>16, <1>17, <1>18, <1>19, <1>20, <1>21, <1>22, <1>23, <1>24
     DEF Next, Step

LEMMA TypeParts == TypeOK /\ PageHasHost <=> CounterTypes /\ RowTypes /\ OtherTypes /\ free \in 0..Slots
BY DEF TypeOK, CounterTypes, RowTypes, OtherTypes

LEMMA BasicsStep ==
  ASSUME Basics, [Next]_vars
  PROVE  Basics'
<1>1. TypeOK /\ OtherTypes
  BY TypeParts DEF Basics
<1>2. CounterTypes' /\ RowTypes'
  BY <1>1, CountersStep, RowsStep
<1>3. OtherTypes'
  BY <1>1, OtherTypesStep
<1>4. (TypeOK /\ PageHasHost)'
  BY <1>2, <1>3, SlotsStep DEF TypeOK, CounterTypes, RowTypes, OtherTypes
<1> QED BY <1>4, SlotsStep DEF Basics

LEMMA BasicsInit == Init => Basics
<1> SUFFICES ASSUME Init PROVE Basics
  OBVIOUS
<1>1. Slots \in Nat /\ MaxQueue \in Nat /\ MaxPages \in Nat
  BY ServiceAssumption
<1>2. Holders = {}
  BY DEF Init, Holders
<1>3. SlotsAccounted
  <2>1. Cardinality(Holders) = 0
    BY <1>2, FS_EmptySet
  <2>2. free = Slots
    BY DEF Init
  <2> QED BY <1>1, <2>1, <2>2 DEF SlotsAccounted
<1>4. CounterTypes
  <2>1. 0 \in 0..MaxQueue /\ 0 \in 0..MaxPages
    BY <1>1
  <2> QED BY <2>1 DEF Init, CounterTypes
<1>5. RowTypes /\ OtherTypes
  BY DEF Init, RowTypes, OtherTypes, PageHasHost, HasPage, LastRequest
<1>6. TypeOK /\ PageHasHost
  <2>1. free = Slots
    BY DEF Init
  <2>2. free \in 0..Slots
    BY <1>1, <2>1
  <2> QED BY <1>4, <1>5, <2>2, TypeParts
<1> QED BY <1>3, <1>6 DEF Basics

LEMMA BasicsInvariant == Spec => []Basics
<1>1. Basics /\ [Next]_vars => Basics'
  BY BasicsStep
<1> QED BY BasicsInit, <1>1, PTL DEF Spec

(* Every variable keeps its type, and the semaphore never overflows.       *)
THEOREM ServiceTypes == Spec => []TypeOK
<1>1. Basics => TypeOK
  BY DEF Basics
<1> QED BY BasicsInvariant, <1>1, PTL

(* No path through crawl() loses a permit of _job_slots.                   *)
THEOREM ServiceKeepsSlots == Spec => []SlotsAccounted
<1>1. Basics => SlotsAccounted
  BY DEF Basics
<1> QED BY BasicsInvariant, <1>1, PTL
-----------------------------------------------------------------------------

(* A host's lock follows its holder from the wait to every way out of it.  *)
LEMMA LocksStep ==
  ASSUME OtherTypes, HostLocksAccounted, [Next]_vars
  PROVE  HostLocksAccounted'
<1> USE DEF HostLocksAccounted, OtherTypes, PageHasHost, HasPage
<1>0. Nobody \notin Jobs \cup Hosts
  BY ServiceAssumption
<1>1. ASSUME NEW j \in Jobs, Call(j) PROVE HostLocksAccounted'
  <2>1. /\ UNCHANGED <<host, hostLock>>
        /\ pc[j] = "new"
        /\ \E l \in {"slot_check", "returned"} : pc' = [pc EXCEPT ![j] = l]
    BY <1>1 DEF Call, Goto
  <2> QED BY <1>0, <2>1
<1>2. ASSUME NEW j \in Jobs, CheckSlot(j) PROVE HostLocksAccounted'
  BY <1>0, <1>2 DEF CheckSlot, Goto
<1>3. ASSUME NEW j \in Jobs, WaitSlot(j) PROVE HostLocksAccounted'
  BY <1>0, <1>3 DEF WaitSlot, Goto, jobVars
<1>4. ASSUME NEW j \in Jobs, Register(j) PROVE HostLocksAccounted'
  BY <1>0, <1>4 DEF Register, Goto, jobVars
<1>5. ASSUME NEW j \in Jobs, StartJob(j) PROVE HostLocksAccounted'
  <2>1. /\ UNCHANGED <<host, hostLock>>
        /\ pc[j] = "start"
        /\ \E l \in {"loop", "unregister"} : pc' = [pc EXCEPT ![j] = l]
    BY <1>5 DEF StartJob, Goto
  <2> QED BY <1>0, <2>1
<1>6. ASSUME NEW j \in Jobs, EndLoop(j) PROVE HostLocksAccounted'
  BY <1>0, <1>6 DEF EndLoop, Finish, Goto
<1>7. ASSUME NEW j \in Jobs, TakePage(j) PROVE HostLocksAccounted'
  BY <1>0, <1>7 DEF TakePage, Goto
<1>8. ASSUME NEW j \in Jobs, LookupRobots(j) PROVE HostLocksAccounted'
  BY <1>0, <1>8 DEF LookupRobots, Verdict, LeavePage, Goto
<1>9. ASSUME NEW j \in Jobs, FetchRobots(j) PROVE HostLocksAccounted'
  BY <1>0, <1>9 DEF FetchRobots, Verdict, LeavePage, Goto
<1>10. ASSUME NEW j \in Jobs, CheckHostLock(j) PROVE HostLocksAccounted'
  BY <1>0, <1>10 DEF CheckHostLock, LeavePage, Goto
<1>11. ASSUME NEW j \in Jobs, WaitHostLock(j) PROVE HostLocksAccounted'
  BY <1>0, <1>11 DEF WaitHostLock, Goto, jobVars
<1>12. ASSUME NEW j \in Jobs, WaitDelay(j) PROVE HostLocksAccounted'
  BY <1>0, <1>12 DEF WaitDelay, LeavePage, Unlock, Goto
<1>13. ASSUME NEW j \in Jobs, FetchPage(j) PROVE HostLocksAccounted'
  BY <1>0, <1>13 DEF FetchPage, Unlock, Goto, jobVars
<1>14. ASSUME NEW j \in Jobs, Respond(j) PROVE HostLocksAccounted'
  BY <1>0, <1>14 DEF Respond, LeavePage, Goto
<1>15. ASSUME NEW j \in Jobs, AddItem(j) PROVE HostLocksAccounted'
  BY <1>0, <1>15 DEF AddItem, LeavePage, Goto
<1>16. ASSUME NEW j \in Jobs, Raise(j) PROVE HostLocksAccounted'
  BY <1>0, <1>16 DEF Raise, Unlock, Goto
<1>17. ASSUME NEW j \in Jobs, Unregister(j) PROVE HostLocksAccounted'
  <2>1. /\ UNCHANGED <<host, hostLock>>
        /\ pc[j] = "unregister"
        /\ \E l \in {"free_slot"} : pc' = [pc EXCEPT ![j] = l]
    BY <1>17 DEF Unregister, Goto
  <2> QED BY <1>0, <2>1
<1>18. ASSUME NEW j \in Jobs, FreeSlot(j) PROVE HostLocksAccounted'
  BY <1>0, <1>18 DEF FreeSlot, Goto, jobVars
<1>19. ASSUME NEW j \in Jobs, Cancel(j) PROVE HostLocksAccounted'
  BY <1>0, <1>19 DEF Cancel, jobVars
<1>20. ASSUME NEW j \in Jobs, Expire(j) PROVE HostLocksAccounted'
  BY <1>0, <1>20 DEF Expire, jobVars
<1>21. ASSUME NEW j \in Jobs, NEW h \in Hosts, Cool(j, h) PROVE HostLocksAccounted'
  BY <1>0, <1>21 DEF Cool, jobVars
<1>22. ASSUME NEW h \in Hosts, ForgetRobots(h) PROVE HostLocksAccounted'
  BY <1>0, <1>22 DEF ForgetRobots, jobVars
<1>23. ASSUME Shutdown PROVE HostLocksAccounted'
  BY <1>0, <1>23 DEF Shutdown, jobVars
<1>24. ASSUME UNCHANGED vars PROVE HostLocksAccounted'
  BY <1>0, <1>24 DEF vars, jobVars
<1> HIDE DEF HostLocksAccounted
<1> QED
  BY <1>1, <1>2, <1>3, <1>4, <1>5, <1>6, <1>7, <1>8, <1>9, <1>10, <1>11, <1>12,
     <1>13, <1>14, <1>15, <1>16, <1>17, <1>18, <1>19, <1>20, <1>21, <1>22, <1>23, <1>24
     DEF Next, Step

(* The registered events are those of the jobs inside the try block.       *)
LEMMA EventsStep ==
  ASSUME OtherTypes, ShutdownFindsRunning, [Next]_vars
  PROVE  ShutdownFindsRunning'
<1> USE DEF ShutdownFindsRunning, OtherTypes
<1>1. ASSUME NEW j \in Jobs, Call(j) PROVE ShutdownFindsRunning'
  BY <1>1 DEF Call, Goto
<1>2. ASSUME NEW j \in Jobs, CheckSlot(j) PROVE ShutdownFindsRunning'
  BY <1>2 DEF CheckSlot, Goto
<1>3. ASSUME NEW j \in Jobs, WaitSlot(j) PROVE ShutdownFindsRunning'
  BY <1>3 DEF WaitSlot, Goto, jobVars
<1>4. ASSUME NEW j \in Jobs, Register(j) PROVE ShutdownFindsRunning'
  BY <1>4 DEF Register, Goto, jobVars
<1>5. ASSUME NEW j \in Jobs, StartJob(j) PROVE ShutdownFindsRunning'
  BY <1>5 DEF StartJob, Goto
<1>6. ASSUME NEW j \in Jobs, EndLoop(j) PROVE ShutdownFindsRunning'
  BY <1>6 DEF EndLoop, Finish, Goto
<1>7. ASSUME NEW j \in Jobs, TakePage(j) PROVE ShutdownFindsRunning'
  BY <1>7 DEF TakePage, Goto
<1>8. ASSUME NEW j \in Jobs, LookupRobots(j) PROVE ShutdownFindsRunning'
  BY <1>8 DEF LookupRobots, Verdict, LeavePage, Goto
<1>9. ASSUME NEW j \in Jobs, FetchRobots(j) PROVE ShutdownFindsRunning'
  BY <1>9 DEF FetchRobots, Verdict, LeavePage, Goto
<1>10. ASSUME NEW j \in Jobs, CheckHostLock(j) PROVE ShutdownFindsRunning'
  BY <1>10 DEF CheckHostLock, LeavePage, Goto
<1>11. ASSUME NEW j \in Jobs, WaitHostLock(j) PROVE ShutdownFindsRunning'
  BY <1>11 DEF WaitHostLock, Goto, jobVars
<1>12. ASSUME NEW j \in Jobs, WaitDelay(j) PROVE ShutdownFindsRunning'
  BY <1>12 DEF WaitDelay, LeavePage, Unlock, Goto
<1>13. ASSUME NEW j \in Jobs, FetchPage(j) PROVE ShutdownFindsRunning'
  BY <1>13 DEF FetchPage, Unlock, Goto, jobVars
<1>14. ASSUME NEW j \in Jobs, Respond(j) PROVE ShutdownFindsRunning'
  BY <1>14 DEF Respond, LeavePage, Goto
<1>15. ASSUME NEW j \in Jobs, AddItem(j) PROVE ShutdownFindsRunning'
  BY <1>15 DEF AddItem, LeavePage, Goto
<1>16. ASSUME NEW j \in Jobs, Raise(j) PROVE ShutdownFindsRunning'
  BY <1>16 DEF Raise, Unlock, Goto
<1>17. ASSUME NEW j \in Jobs, Unregister(j) PROVE ShutdownFindsRunning'
  BY <1>17 DEF Unregister, Goto
<1>18. ASSUME NEW j \in Jobs, FreeSlot(j) PROVE ShutdownFindsRunning'
  BY <1>18 DEF FreeSlot, Goto, jobVars
<1>19. ASSUME NEW j \in Jobs, Cancel(j) PROVE ShutdownFindsRunning'
  BY <1>19 DEF Cancel, jobVars
<1>20. ASSUME NEW j \in Jobs, Expire(j) PROVE ShutdownFindsRunning'
  BY <1>20 DEF Expire, jobVars
<1>21. ASSUME NEW j \in Jobs, NEW h \in Hosts, Cool(j, h) PROVE ShutdownFindsRunning'
  BY <1>21 DEF Cool, jobVars
<1>22. ASSUME NEW h \in Hosts, ForgetRobots(h) PROVE ShutdownFindsRunning'
  BY <1>22 DEF ForgetRobots, jobVars
<1>23. ASSUME Shutdown PROVE ShutdownFindsRunning'
  BY <1>23 DEF Shutdown, jobVars
<1>24. ASSUME UNCHANGED vars PROVE ShutdownFindsRunning'
  BY <1>24 DEF vars, jobVars
<1> HIDE DEF ShutdownFindsRunning
<1> QED
  BY <1>1, <1>2, <1>3, <1>4, <1>5, <1>6, <1>7, <1>8, <1>9, <1>10, <1>11, <1>12,
     <1>13, <1>14, <1>15, <1>16, <1>17, <1>18, <1>19, <1>20, <1>21, <1>22, <1>23, <1>24
     DEF Next, Step

(* What the rows and error types say of a job at each point of its life.   *)
RowsMeaning ==
    /\ \A j \in Jobs : error[j] = "cancelled" \/ row[j] = "cancelled" => j \in event
    /\ \A j \in Jobs : pc[j] \notin {"unregister", "free_slot", "returned"} =>
                        row[j] \in {"absent", "running"}
    /\ \A j \in Jobs : pc[j] \in {"unregister", "free_slot", "returned"} =>
                        j \in raised \/ row[j] \in Terminal

(* Rows become final once, when the job leaves the page loop or never had  *)
(* a page to process.                                                      *)
LEMMA RowsMeaningStep ==
  ASSUME pc \in [Jobs -> HoldsSlot \cup Outside], RowTypes, RowsMeaning, [Next]_vars
  PROVE  RowsMeaning'
<1> USE DEF RowsMeaning, RowTypes
<1>1. ASSUME NEW j \in Jobs, Call(j) PROVE RowsMeaning'
  BY <1>1 DEF Call, Goto, FinalStatus
<1>2. ASSUME NEW j \in Jobs, CheckSlot(j) PROVE RowsMeaning'
  BY <1>2 DEF CheckSlot, Goto
<1>3. ASSUME NEW j \in Jobs, WaitSlot(j) PROVE RowsMeaning'
  BY <1>3 DEF WaitSlot, Goto, jobVars
<1>4. ASSUME NEW j \in Jobs, Register(j) PROVE RowsMeaning'
  BY <1>4 DEF Register, Goto, jobVars
<1>5. ASSUME NEW j \in Jobs, StartJob(j) PROVE RowsMeaning'
  BY <1>5 DEF StartJob, Goto, FinalStatus
<1>6. ASSUME NEW j \in Jobs, EndLoop(j) PROVE RowsMeaning'
  BY <1>6 DEF EndLoop, Finish, Goto, FinalStatus
<1>7. ASSUME NEW j \in Jobs, TakePage(j) PROVE RowsMeaning'
  BY <1>7 DEF TakePage, Goto
<1>8. ASSUME NEW j \in Jobs, LookupRobots(j) PROVE RowsMeaning'
  BY <1>8 DEF LookupRobots, Verdict, LeavePage, Goto
<1>9. ASSUME NEW j \in Jobs, FetchRobots(j) PROVE RowsMeaning'
  BY <1>9 DEF FetchRobots, Verdict, LeavePage, Goto
<1>10. ASSUME NEW j \in Jobs, CheckHostLock(j) PROVE RowsMeaning'
  BY <1>10 DEF CheckHostLock, LeavePage, Goto
<1>11. ASSUME NEW j \in Jobs, WaitHostLock(j) PROVE RowsMeaning'
  BY <1>11 DEF WaitHostLock, Goto, jobVars
<1>12. ASSUME NEW j \in Jobs, WaitDelay(j) PROVE RowsMeaning'
  BY <1>12 DEF WaitDelay, LeavePage, Unlock, Goto
<1>13. ASSUME NEW j \in Jobs, FetchPage(j) PROVE RowsMeaning'
  BY <1>13 DEF FetchPage, Unlock, Goto, jobVars
<1>14. ASSUME NEW j \in Jobs, Respond(j) PROVE RowsMeaning'
  BY <1>14 DEF Respond, LeavePage, Goto
<1>15. ASSUME NEW j \in Jobs, AddItem(j) PROVE RowsMeaning'
  BY <1>15 DEF AddItem, LeavePage, Goto
<1>16. ASSUME NEW j \in Jobs, Raise(j) PROVE RowsMeaning'
  BY <1>16 DEF Raise, Unlock, Goto
<1>17. ASSUME NEW j \in Jobs, Unregister(j) PROVE RowsMeaning'
  BY <1>17 DEF Unregister, Goto
<1>18. ASSUME NEW j \in Jobs, FreeSlot(j) PROVE RowsMeaning'
  BY <1>18 DEF FreeSlot, Goto, jobVars
<1>19. ASSUME NEW j \in Jobs, Cancel(j) PROVE RowsMeaning'
  BY <1>19 DEF Cancel, jobVars
<1>20. ASSUME NEW j \in Jobs, Expire(j) PROVE RowsMeaning'
  BY <1>20 DEF Expire, jobVars
<1>21. ASSUME NEW j \in Jobs, NEW h \in Hosts, Cool(j, h) PROVE RowsMeaning'
  BY <1>21 DEF Cool, jobVars
<1>22. ASSUME NEW h \in Hosts, ForgetRobots(h) PROVE RowsMeaning'
  BY <1>22 DEF ForgetRobots, jobVars
<1>23. ASSUME Shutdown PROVE RowsMeaning'
  BY <1>23 DEF Shutdown, jobVars
<1>24. ASSUME UNCHANGED vars PROVE RowsMeaning'
  BY <1>24 DEF vars, jobVars
<1> HIDE DEF RowsMeaning
<1> QED
  BY <1>1, <1>2, <1>3, <1>4, <1>5, <1>6, <1>7, <1>8, <1>9, <1>10, <1>11, <1>12,
     <1>13, <1>14, <1>15, <1>16, <1>17, <1>18, <1>19, <1>20, <1>21, <1>22, <1>23, <1>24
     DEF Next, Step

(* A step of job j does not touch the rows, queues and budgets of others.  *)
SameFor(i) ==
    /\ pc'[i] = pc[i] /\ row'[i] = row[i]
    /\ queue'[i] = queue[i] /\ pages'[i] = pages[i]
    /\ i \in skipped' <=> i \in skipped

(* "success" is written by the end of the page loop alone, and only when   *)
(* nothing is left to do and nothing was skipped.                          *)
LEMMA SuccessStep ==
  ASSUME OtherTypes, CounterTypes, RowTypes, RowsMeaning, SuccessMeansComplete, [Next]_vars
  PROVE  SuccessMeansComplete'
<1>1. /\ pc \in [Jobs -> HoldsSlot \cup Outside]
      /\ \E S : queue \in [Jobs -> S]
      /\ \E S : pages \in [Jobs -> S]
      /\ row \in [Jobs -> Terminal \cup {"absent", "running"}]
  BY DEF OtherTypes, CounterTypes, RowTypes
<1>2. ASSUME NEW j \in Jobs, \A i \in Jobs \ {j} : SameFor(i),
             pc'[j] = "unregister" /\ row'[j] = "success" => ~MorePages(j)' /\ j \notin skipped'
      PROVE  SuccessMeansComplete'
  BY <1>2 DEF SuccessMeansComplete, SameFor, MorePages
<1>3. ASSUME NEW j \in Jobs, EndLoop(j) PROVE SuccessMeansComplete'
  <2>1. \A i \in Jobs \ {j} : SameFor(i)
    BY <1>1, <1>3 DEF EndLoop, Finish, Goto, SameFor
  <2>2. ASSUME row'[j] = "success" PROVE ~MorePages(j) /\ j \notin skipped
    <3>1. PICK err \in {error[j], "cancelled", "timeout"} :
             /\ row' = [row EXCEPT ![j] = FinalStatus(j \in items, j \in skipped, err)]
             /\ ~MorePages(j) \/ err \in {"cancelled", "timeout"}
      BY <1>3 DEF EndLoop, Finish
    <3>2. FinalStatus(j \in items, j \in skipped, err) = "success"
      BY <1>1, <2>2, <3>1
    <3>3. err = "" /\ j \notin skipped
      BY <3>2 DEF FinalStatus
    <3> QED BY <3>1, <3>3
  <2>3. ~MorePages(j) => ~MorePages(j)'
    BY <1>3 DEF EndLoop, MorePages
  <2>4. skipped' = skipped
    BY <1>3 DEF EndLoop
  <2> QED BY <1>2, <2>1, <2>2, <2>3, <2>4
<1>4. ASSUME NEW j \in Jobs, StartJob(j) PROVE SuccessMeansComplete'
  <2>1. \A i \in Jobs \ {j} : SameFor(i)
    BY <1>1, <1>4 DEF StartJob, Goto, SameFor
  <2>2. pc'[j] = "unregister" => row'[j] # "success"
    BY <1>1, <1>4 DEF StartJob, Goto, FinalStatus
  <2> QED BY <1>2, <2>1, <2>2
<1>5. ASSUME NEW j \in Jobs, Raise(j) PROVE SuccessMeansComplete'
  <2>1. \A i \in Jobs \ {j} : SameFor(i)
    BY <1>1, <1>5 DEF Raise, Goto, SameFor
  <2>2. pc'[j] = "unregister" => row'[j] # "success"
    BY <1>1, <1>5 DEF Raise, Goto, RowsMeaning
  <2> QED BY <1>2, <2>1, <2>2
<1>6. ASSUME NEW j \in Jobs, Call(j) \/ TakePage(j) \/ AddItem(j) \/ Unregister(j)
      PROVE  SuccessMeansComplete'
  <2>1. \A i \in Jobs \ {j} : SameFor(i)
    BY <1>1, <1>6 DEF Call, TakePage, AddItem, Unregister, LeavePage, Goto, SameFor
  <2>2. pc'[j] # "unregister"
    BY <1>1, <1>6 DEF Call, TakePage, AddItem, Unregister, LeavePage, Goto
  <2> QED BY <1>2, <2>1, <2>2
<1>7. ASSUME NEW j \in Jobs,
             \/ CheckSlot(j) \/ WaitSlot(j) \/ Register(j) \/ LookupRobots(j)
             \/ FetchRobots(j) \/ CheckHostLock(j) \/ WaitHostLock(j) \/ WaitDelay(j)
             \/ FetchPage(j) \/ Respond(j) \/ FreeSlot(j)
      PROVE  SuccessMeansComplete'
  <2>1. \A i \in Jobs \ {j} : SameFor(i)
    BY <1>1, <1>7 DEF CheckSlot, WaitSlot, Register, LookupRobots, FetchRobots,
       CheckHostLock, WaitHostLock, WaitDelay, FetchPage, Respond, FreeSlot, jobVars, Verdict,
       LeavePage, Goto, SameFor
  <2>2. pc'[j] # "unregister"
    BY <1>1, <1>7 DEF CheckSlot, WaitSlot, Register, LookupRobots, FetchRobots,
       CheckHostLock, WaitHostLock, WaitDelay, FetchPage, Respond, FreeSlot, Verdict,
       LeavePage, Goto
  <2> QED BY <1>2, <2>1, <2>2
<1>8. ASSUME UNCHANGED <<pc, queue, pages, row, skipped>> PROVE SuccessMeansComplete'
  BY <1>8 DEF SuccessMeansComplete, MorePages
<1> QED
  BY <1>3, <1>4, <1>5, <1>6, <1>7, <1>8
     DEF Next, Step, Cancel, Expire, Cool, ForgetRobots, Shutdown, vars, jobVars

-----------------------------------------------------------------------------

(* The inductive invariant.                                                *)
ServiceInv ==
    /\ Basics
    /\ HostLocksAccounted
    /\ ShutdownFindsRunning
    /\ RowsMeaning
    /\ SuccessMeansComplete

LEMMA ServiceInvInit == Init => ServiceInv
<1> SUFFICES ASSUME Init PROVE ServiceInv
  OBVIOUS
<1>1. HostLocksAccounted
  BY ServiceAssumption DEF Init, HostLocksAccounted
<1>2. ShutdownFindsRunning
  BY DEF Init, ShutdownFindsRunning
<1>3. RowsMeaning /\ SuccessMeansComplete
  BY DEF Init, RowsMeaning, SuccessMeansComplete
<1> QED BY <1>1, <1>2, <1>3, BasicsInit DEF ServiceInv

LEMMA ServiceInvStep ==
  ASSUME ServiceInv, [Next]_vars
  PROVE  ServiceInv'
<1>1. /\ Basics /\ HostLocksAccounted /\ ShutdownFindsRunning
      /\ RowsMeaning /\ SuccessMeansComplete
  BY DEF ServiceInv
<1>2. OtherTypes /\ CounterTypes /\ RowTypes /\ pc \in [Jobs -> HoldsSlot \cup Outside]
  BY <1>1, TypeParts DEF Basics, OtherTypes
<1>3. HostLocksAccounted'
  BY <1>1, <1>2, LocksStep
<1>4. ShutdownFindsRunning'
  BY <1>1, <1>2, EventsStep
<1>5. RowsMeaning' /\ SuccessMeansComplete'
  BY <1>1, <1>2, RowsMeaningStep, SuccessStep
<1> QED BY <1>1, <1>3, <1>4, <1>5, BasicsStep DEF ServiceInv

LEMMA ServiceInvariant == Spec => []ServiceInv
<1>1. ServiceInv /\ [Next]_vars => ServiceInv'
  BY ServiceInvStep
<1> QED BY ServiceInvInit, <1>1, PTL DEF Spec

(* Every way out of a page, the exceptional ones included, lets go of the  *)
(* host's lock.                                                            *)
THEOREM HostLocksReleased == Spec => []HostLocksAccounted
<1>1. ServiceInv => HostLocksAccounted
  BY DEF ServiceInv
<1> QED BY ServiceInvariant, <1>1, PTL

(* shutdown() finds the event of every job that is past its registration.  *)
THEOREM ShutdownSeesRunningJobs == Spec => []ShutdownFindsRunning
<1>1. ServiceInv => ShutdownFindsRunning
  BY DEF ServiceInv
<1> QED BY ServiceInvariant, <1>1, PTL

(* A call that returns without an exception leaves a final row.            *)
THEOREM RowsBecomeFinal == Spec => []NoRowLeftRunning
<1>1. ServiceInv => NoRowLeftRunning
  BY DEF ServiceInv, RowsMeaning, NoRowLeftRunning
<1> QED BY ServiceInvariant, <1>1, PTL

(* No job calls itself cancelled without having been asked.                *)
THEOREM CancelledWereAsked == Spec => []CancelledOnlyIfAsked
<1>1. ServiceInv => CancelledOnlyIfAsked
  BY DEF ServiceInv, RowsMeaning, CancelledOnlyIfAsked
<1> QED BY ServiceInvariant, <1>1, PTL

(* No shortened crawl calls itself a success.                              *)
THEOREM SuccessIsComplete == Spec => []SuccessMeansComplete
<1>1. ServiceInv => SuccessMeansComplete
  BY DEF ServiceInv
<1> QED BY ServiceInvariant, <1>1, PTL

-----------------------------------------------------------------------------

Done == {j \in Jobs : pc[j] = "returned"}

(* Every step of the service is a step of CrawlPool, or none.              *)
LEMMA PoolStep ==
  ASSUME ServiceInv, [Next]_vars
  PROVE  [Pool!Next]_(Pool!vars)
<1>1. /\ TypeOK /\ PageHasHost /\ SlotsAccounted /\ HostLocksAccounted
      /\ pc \in [Jobs -> HoldsSlot \cup Outside]
      /\ host \in [Jobs -> Hosts \cup {Nobody}]
      /\ hostLock \in [Hosts -> Jobs \cup {Nobody}]
  BY DEF ServiceInv, Basics, TypeOK
<1>2. /\ free \in Nat /\ Slots \in Nat /\ Cardinality(Holders) \in Nat
      /\ free + Cardinality(Holders) = Slots
  <2>1. IsFiniteSet(Holders)
    BY FS_Subset, ServiceAssumption DEF Holders
  <2>2. free \in 0..Slots
    BY <1>1 DEF TypeOK
  <2>3. Slots \in Nat
    BY ServiceAssumption
  <2>4. free + Cardinality(Holders) = Slots
    BY <1>1 DEF SlotsAccounted
  <2> QED BY <2>1, <2>2, <2>3, <2>4, FS_CardinalityType
<1> DEFINE Stutter == Holders' = Holders /\ Done' = Done /\ hostLock' = hostLock
<1> DEFINE Goal == Stutter \/ \E j \in Jobs :
      \/ Pool!Admit(j) \/ Pool!Refuse(j) \/ Pool!Leave(j)
      \/ \E h \in Hosts : Pool!Claim(j, h) \/ Pool!Release(j, h)
<1>3. ASSUME NEW j \in Jobs, pc[j] \in {"new", "slot_check"}, UNCHANGED hostLock,
             pc' = [pc EXCEPT ![j] = "returned"]
      PROVE  Pool!Refuse(j)
  BY <1>1, <1>3 DEF Pool!Refuse, Pool!Fresh, Holders
<1>4. ASSUME NEW j \in Jobs, UNCHANGED hostLock, NEW l, pc' = [pc EXCEPT ![j] = l],
             pc[j] \in HoldsSlot <=> l \in HoldsSlot,
             pc[j] # "returned", l # "returned"
      PROVE  Stutter
  BY <1>1, <1>4 DEF Holders, Done
<1>5. ASSUME NEW j \in Jobs, pc[j] \in HoldsHost, hostLock' = [hostLock EXCEPT ![host[j]] = Nobody],
             NEW l \in {"loop", "respond", "unregister"}, pc' = [pc EXCEPT ![j] = l]
      PROVE  host[j] \in Hosts /\ Pool!Release(j, host[j])
  <2>1. host[j] \in Hosts /\ hostLock[host[j]] = j
    BY <1>1, <1>5 DEF PageHasHost, HasPage, HostLocksAccounted
  <2> QED BY <1>1, <1>5, <2>1 DEF Pool!Release, Holders
<1>6. ASSUME NEW j \in Jobs, WaitSlot(j) PROVE Goal
  <2>1. CASE free = 0
    BY <1>4, <1>6, <2>1 DEF WaitSlot, Goto
  <2>2. CASE free > 0
    <3>1. /\ pc[j] = "slot_wait" /\ pc' = [pc EXCEPT ![j] = "register"]
          /\ hostLock' = hostLock
      BY <1>6, <2>2 DEF WaitSlot, Goto
    <3>2. Cardinality(Holders) < Slots
      BY <1>2, <2>2
    <3>3. Pool!Admit(j)
      <4>1. Pool!Fresh(j) /\ Holders' = Holders \cup {j} /\ Done' = Done
        <5>1. pc'[j] = "register" /\ \A i \in Jobs \ {j} : pc'[i] = pc[i]
          BY <1>1, <3>1
        <5>2. Holders' = Holders \cup {j}
          BY <3>1, <5>1 DEF Holders
        <5>3. Done' = Done
          BY <3>1, <5>1 DEF Done
        <5> QED BY <3>1, <5>2, <5>3 DEF Pool!Fresh, Holders
      <4>2. Pool!Cardinality(Holders) = Cardinality(Holders)
        BY DEF Pool!Cardinality, Cardinality
      <4> QED BY <3>1, <3>2, <4>1, <4>2 DEF Pool!Admit, Done
    <3> QED BY <3>3
  <2> QED BY <1>2, <2>1, <2>2
<1>7. ASSUME NEW j \in Jobs, FreeSlot(j) PROVE Goal
  <2>1. /\ pc[j] = "free_slot" /\ pc' = [pc EXCEPT ![j] = "returned"]
        /\ hostLock' = hostLock
    BY <1>7 DEF FreeSlot, Goto
  <2>2. Pool!Idle(j)
    BY <1>1, <2>1 DEF Pool!Idle, HostLocksAccounted
  <2>3. Pool!Leave(j)
    BY <1>1, <2>1, <2>2 DEF Pool!Leave, Holders
  <2> QED BY <2>3
<1>8. ASSUME NEW j \in Jobs, WaitHostLock(j) PROVE Goal
  <2>1. CASE hostLock[host[j]] = Nobody
    <3>1. /\ pc[j] = "lock_wait" /\ pc' = [pc EXCEPT ![j] = "delay"]
          /\ hostLock' = [hostLock EXCEPT ![host[j]] = j]
      BY <1>8, <2>1 DEF WaitHostLock, Goto
    <3>2. host[j] \in Hosts /\ Pool!Idle(j)
      BY <1>1, <3>1 DEF PageHasHost, HasPage, Pool!Idle, HostLocksAccounted
    <3>3. Pool!Claim(j, host[j])
      BY <1>1, <2>1, <3>1, <3>2 DEF Pool!Claim, Holders
    <3> QED BY <3>2, <3>3
  <2>2. CASE hostLock[host[j]] # Nobody
    BY <1>4, <1>8, <2>2 DEF WaitHostLock, Goto
  <2> QED BY <2>1, <2>2
<1>9. ASSUME NEW j \in Jobs, WaitDelay(j) PROVE Goal
  <2>1. CASE UNCHANGED hostLock /\ Goto(j, "fetch")
    BY <1>4, <1>9, <2>1 DEF WaitDelay, Goto
  <2>2. CASE Unlock(host[j]) /\ Goto(j, "loop")
    BY <1>5, <1>9, <2>2 DEF WaitDelay, Unlock, Goto
  <2> QED BY <1>9, <2>1, <2>2 DEF WaitDelay, LeavePage
<1>10. ASSUME NEW j \in Jobs, FetchPage(j) PROVE Goal
  BY <1>5, <1>10 DEF FetchPage, Unlock, Goto
<1>11. ASSUME NEW j \in Jobs, Raise(j) PROVE Goal
  <2>1. CASE pc[j] \in {"new", "slot_check"}
    BY <1>3, <1>11, <2>1 DEF Raise, Goto
  <2>2. CASE pc[j] = "fetch"
    BY <1>5, <1>11, <2>2 DEF Raise, Unlock, Goto
  <2>3. CASE pc[j] \notin {"new", "slot_check", "fetch"}
    BY <1>4, <1>11, <2>3 DEF Raise, Goto
  <2> QED BY <2>1, <2>2, <2>3
<1>12. ASSUME NEW j \in Jobs, Call(j) \/ CheckSlot(j) PROVE Goal
  BY <1>3, <1>4, <1>12 DEF Call, CheckSlot, Goto
<1>13. ASSUME NEW j \in Jobs, Register(j) \/ StartJob(j) \/ EndLoop(j) \/ Unregister(j)
       PROVE  Goal
  BY <1>4, <1>13 DEF Register, StartJob, EndLoop, Unregister, Finish, Goto
<1>14. ASSUME NEW j \in Jobs, TakePage(j) PROVE Goal
  <2>1. CASE UNCHANGED <<pc, hostLock>>
    BY <2>1 DEF Holders, Done
  <2> QED BY <1>4, <1>14, <2>1 DEF TakePage, Goto
<1>15. ASSUME NEW j \in Jobs, LookupRobots(j) \/ FetchRobots(j) PROVE Goal
  BY <1>4, <1>15 DEF LookupRobots, FetchRobots, Verdict, LeavePage, Goto
<1>16. ASSUME NEW j \in Jobs, CheckHostLock(j) \/ Respond(j) \/ AddItem(j) PROVE Goal
  BY <1>4, <1>16 DEF CheckHostLock, Respond, AddItem, LeavePage, Goto
<1>17. ASSUME UNCHANGED <<pc, hostLock>> PROVE Goal
  BY <1>17 DEF Holders, Done
<1>18. Goal
  <2> HIDE DEF Goal
  <2> QED
    BY <1>6, <1>7, <1>8, <1>9, <1>10, <1>11, <1>12, <1>13, <1>14, <1>15, <1>16, <1>17
       DEF Next, Step, Cancel, Expire, Cool, ForgetRobots, Shutdown, vars
<1> QED BY <1>18 DEF Pool!Next, Pool!vars, Done

(* The service implements CrawlPool.                                       *)
THEOREM ServiceImplementsPool == Spec => PoolPromise
<1>1. Init => Pool!Init
  BY DEF Init, Pool!Init, Holders
<1>2. ServiceInv /\ [Next]_vars => [Pool!Next]_(Pool!vars)
  BY PoolStep
<1> QED BY <1>1, <1>2, ServiceInvariant, PTL DEF Spec, PoolPromise, Pool!Spec
=============================================================================
