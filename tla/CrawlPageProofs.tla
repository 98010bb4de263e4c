--------------------------- MODULE CrawlPageProofs ---------------------------
(***************************************************************************)
(* The invariants of CrawlPage, proved for any number of crawls, threads,  *)
(* companies and company objects.                                          *)
(***************************************************************************)
EXTENDS CrawlPage, TLAPS

(* Stages of a worker that has computed its company id. *)
Keyed == {"keyed", "called", "crawling", "posted", "done"}

(* Crawls are started in order and for a company, the handle is that of    *)
(* the last one, and _web_crawl_company_id its id.                         *)
HandleMeaning ==
    /\ \A j \in Crawls : stage[j] = "new" <=> j > started
    /\ handle \in {NoEvent, started}
    /\ started # 0 => handleKey = startKey[started] /\ company \in Companies

(* Signals come from workers that have returned.                           *)
SignalsMeaning ==
    \A i \in 1..Len(signals) : stage[signals[i]] \in {"posted", "done"}

(* The ids computed for a crawl are ids of its object, first without and   *)
(* later, once a profile has identified it, for ever with the identifier.  *)
KeyMeaning(j) ==
    /\ stage[j] # "new" =>
         /\ owner[j] \in Companies
         /\ startKey[j] \in {<<"name", IdOf[owner[j]]>>, <<"lei", IdOf[owner[j]]>>}
         /\ startKey[j] = <<"lei", IdOf[owner[j]]>> => owner[j] \in identified
    /\ stage[j] \in Keyed =>
         /\ jobKey[j] \in {<<"name", IdOf[owner[j]]>>, <<"lei", IdOf[owner[j]]>>}
         /\ jobKey[j] = <<"lei", IdOf[owner[j]]>> => owner[j] \in identified
         /\ startKey[j] = <<"lei", IdOf[owner[j]]>>
              => jobKey[j] = <<"lei", IdOf[owner[j]]>>

KeysMeaning == \A j \in Crawls : KeyMeaning(j)

PageInv ==
    /\ TypeOK
    /\ HandleMeaning
    /\ SignalsMeaning
    /\ KeysMeaning
    /\ NoCrawlUnderOldEvent
    /\ BlockedOnlyByCrawl
    /\ LoadingMeansCrawling

(* The two ids an object can have. *)
LEMMA KeyCases ==
  ASSUME NEW c
  PROVE  /\ c \in identified => Key(c) = <<"lei", IdOf[c]>>
         /\ c \notin identified => Key(c) = <<"name", IdOf[c]>>
  BY DEF Key

LEMMA KeyCasesPrime ==
  ASSUME NEW c
  PROVE  /\ c \in identified' => Key(c)' = <<"lei", IdOf[c]>>
         /\ c \notin identified' => Key(c)' = <<"name", IdOf[c]>>
  BY DEF Key

LEMMA KeyType == ASSUME NEW c \in Companies PROVE Key(c) \in Keys
  BY PageAssumption DEF Key, Keys, Range

LEMMA InitPageInv == Init => PageInv
  <1> SUFFICES ASSUME Init PROVE PageInv
    OBVIOUS
  <1>1. TypeOK
    <2>1. <<"name", NoCompany>> \in Keys
      BY DEF Keys
    <2>2. << >> \in Seq(Crawls)
      OBVIOUS
    <2>3. /\ startKey \in [Crawls -> Keys] /\ jobKey \in [Crawls -> Keys]
          /\ handleKey \in Keys
      BY <2>1 DEF Init
    <2>4. /\ stage \in [Crawls -> {"new"}] /\ event \in [Crawls -> {NoEvent}]
          /\ owner \in [Crawls -> {NoCompany}]
      BY DEF Init
    <2>5. /\ stage \in [Crawls -> {"new", "queued", "posted"} \cup OnThread \cup Over]
          /\ event \in [Crawls -> Events \cup {NoEvent}]
          /\ owner \in [Crawls -> Companies \cup {NoCompany}]
          /\ \A j \in Crawls : stage[j] \in {"called", "crawling"} => event[j] # NoEvent
      BY <2>4
    <2>6. /\ started \in 0..MaxCrawls /\ handle \in Crawls \cup {NoEvent}
          /\ signals \in Seq(Crawls)
      BY <2>2, PageAssumption DEF Init
    <2> QED
      BY <2>3, <2>5, <2>6 DEF Init, TypeOK
  <1>2. HandleMeaning /\ NoCrawlUnderOldEvent /\ BlockedOnlyByCrawl /\ LoadingMeansCrawling
    BY PageAssumption DEF Init, HandleMeaning, NoCrawlUnderOldEvent, BlockedOnlyByCrawl,
       LoadingMeansCrawling, NoEvent, Crawls
  <1>3. SignalsMeaning /\ KeysMeaning
    BY DEF Init, SignalsMeaning, KeysMeaning, KeyMeaning, Keyed
  <1> QED
    BY <1>1, <1>2, <1>3 DEF PageInv

-----------------------------------------------------------------------------

(* A signal comes from a crawl that was started; the others stay queued.   *)
LEMMA HeadSignal ==
  ASSUME TypeOK, HandleMeaning, SignalsMeaning, signals # << >>
  PROVE  /\ Head(signals) \in Crawls
         /\ stage[Head(signals)] \in {"posted", "done"}
         /\ Head(signals) <= started
         /\ company \in Companies
         /\ Tail(signals) \in Seq(Crawls)
         /\ \A i \in 1..Len(Tail(signals)) :
              stage[Tail(signals)[i]] \in {"posted", "done"}
  <1>1. /\ Head(signals) = signals[1] /\ 1 \in 1..Len(signals)
        /\ Head(signals) \in Crawls
        /\ Tail(signals) \in Seq(Crawls)
    BY DEF TypeOK
  <1>2. stage[Head(signals)] \in {"posted", "done"}
    BY <1>1 DEF SignalsMeaning
  <1>3. Head(signals) <= started /\ started # 0
    BY <1>1, <1>2, PageAssumption DEF HandleMeaning, TypeOK, Crawls
  <1>4. \A i \in 1..Len(Tail(signals)) :
          Tail(signals)[i] = signals[i + 1] /\ i + 1 \in 1..Len(signals)
    BY DEF TypeOK
  <1>5. \A i \in 1..Len(Tail(signals)) : stage[Tail(signals)[i]] \in {"posted", "done"}
    BY <1>4 DEF SignalsMeaning
  <1> QED
    BY <1>1, <1>2, <1>3, <1>5 DEF HandleMeaning

(* Every step preserves the types. *)
LEMMA TypeStep ==
  ASSUME TypeOK, HandleMeaning, SignalsMeaning, KeysMeaning, [Next]_vars
  PROVE  TypeOK'
  <1> USE PageAssumption DEF TypeOK
  <1>1. ASSUME NEW c \in Companies, Open(c) PROVE TypeOK'
    BY <1>1 DEF Open, AdoptProfile, workVars
  <1>2. CASE Identify
    BY <1>2 DEF Identify, AdoptProfile, workVars
  <1>3. CASE Start
    <2>1. company \in Companies /\ Key(company) \in Keys
      BY <1>3, KeyType DEF Start
    <2>2. started + 1 \in Crawls /\ started' \in 0..MaxCrawls /\ handle' \in Crawls
      BY <1>3 DEF Start, Crawls
    <2> QED
      BY <1>3, <2>1, <2>2 DEF Start
  <1>4. CASE Cancel
    BY <1>4 DEF Cancel, pageVars, workVars, NoEvent, Crawls, Events
  <1>5. CASE RefreshEvidence
    BY <1>5 DEF RefreshEvidence, workVars
  <1>6. CASE Deliver
    <2> DEFINE j == Head(signals)
    <2>1. signals # << >> /\ (ShowError(j) \/ ShowResult(j))
      BY <1>6 DEF Deliver
    <2>2. j \in Crawls /\ Tail(signals) \in Seq(Crawls) /\ company \in Companies
      BY <2>1, HeadSignal
    <2>3. /\ handle' \in Crawls \cup {NoEvent}
          /\ panel' \in {"list", "loading", "error"}
          /\ identified' \subseteq Companies
      BY <2>1, <2>2 DEF ShowError, ShowResult, AdoptProfile
    <2> HIDE DEF j
    <2> QED
      BY <1>6, <2>2, <2>3 DEF Deliver, workVars, OnThread, Over, j
  <1>7. CASE Shutdown
    BY <1>7 DEF Shutdown, pageVars, workVars, NoEvent, Crawls, Events, OnThread, Over
  <1>8. ASSUME NEW j \in Crawls, RunWorker(j) PROVE TypeOK'
    BY <1>8 DEF RunWorker, pageVars, workVars, OnThread, Over
  <1>9. ASSUME NEW j \in Crawls, ReadKey(j) PROVE TypeOK'
    <2>1. Key(owner[j]) \in Keys
      BY <1>9, KeyType DEF ReadKey, KeysMeaning, KeyMeaning
    <2> QED
      BY <1>9, <2>1 DEF ReadKey, pageVars, OnThread, Over
  <1>10. ASSUME NEW j \in Crawls, ReadHandle(j) PROVE TypeOK'
    BY <1>10 DEF ReadHandle, pageVars, OnThread, Over, NoEvent, OwnEvent, Events, Crawls
  <1>11. ASSUME NEW j \in Crawls, EnterCrawl(j) PROVE TypeOK'
    <2>1. CASE Return(j) /\ UNCHANGED active
      BY <1>11, <2>1 DEF EnterCrawl, Return, pageVars, workVars, OnThread
    <2>2. CASE ~Cancelled(j) /\ active' = active \cup {event[j]} /\ UNCHANGED failed
               /\ stage' = [stage EXCEPT ![j] = "crawling"] /\ UNCHANGED signals
      BY <1>11, <2>2 DEF EnterCrawl, pageVars, workVars, OnThread
    <2> QED
      BY <1>11, <2>1, <2>2 DEF EnterCrawl
  <1>12. ASSUME NEW j \in Crawls, LeaveCrawl(j) PROVE TypeOK'
    BY <1>12 DEF LeaveCrawl, Return, pageVars, workVars, OnThread, Over, NoEvent
  <1>13. CASE UNCHANGED vars
    BY <1>13 DEF vars, pageVars, workVars
  <1> QED
    BY <1>1, <1>2, <1>3, <1>4, <1>5, <1>6, <1>7, <1>8, <1>9, <1>10, <1>11, <1>12, <1>13
    DEF Next, Work

-----------------------------------------------------------------------------

(* What a step of a worker may do to the page and to the other crawls.     *)
LEMMA WorkFrame ==
  ASSUME TypeOK, NEW j \in Crawls, Work(j)
  PROVE  /\ UNCHANGED <<pageVars, started, owner, startKey, closing>>
         /\ stage[j] \notin {"new", "posted", "done"}
         /\ stage' = [stage EXCEPT ![j] = stage'[j]]
         /\ stage'[j] \notin {"new", "done"}
  BY DEF TypeOK, Work, RunWorker, ReadKey, ReadHandle, EnterCrawl, LeaveCrawl, Return,
     workVars

LEMMA HandleStep ==
  ASSUME PageInv, TypeOK', [Next]_vars
  PROVE  HandleMeaning'
  <1> USE PageAssumption DEF PageInv, HandleMeaning
  <1>1. ASSUME NEW c \in Companies, Open(c) PROVE HandleMeaning'
    BY <1>1 DEF Open, workVars
  <1>2. CASE Identify
    BY <1>2 DEF Identify, workVars
  <1>3. CASE Start
    BY <1>3 DEF Start, TypeOK, Crawls
  <1>4. CASE Cancel
    BY <1>4 DEF Cancel, pageVars, workVars
  <1>5. CASE RefreshEvidence
    BY <1>5 DEF RefreshEvidence, workVars
  <1>6. CASE Deliver
    <2>1. signals # << >> /\ (ShowError(Head(signals)) \/ ShowResult(Head(signals)))
      BY <1>6 DEF Deliver
    <2>2. handle' \in {handle, NoEvent}
      BY <2>1 DEF ShowError, ShowResult
    <2>3. \A k \in Crawls : stage'[k] = "new" <=> stage[k] = "new"
      BY <1>6, <2>1, HeadSignal DEF Deliver, TypeOK
    <2> QED
      BY <1>6, <2>2, <2>3 DEF Deliver, workVars
  <1>7. CASE Shutdown
    BY <1>7 DEF Shutdown, pageVars, workVars
  <1>8. ASSUME NEW j \in Crawls, Work(j) PROVE HandleMeaning'
    BY <1>8, WorkFrame DEF TypeOK, pageVars
  <1>9. CASE UNCHANGED vars
    BY <1>9 DEF vars, pageVars, workVars
  <1> QED
    BY <1>1, <1>2, <1>3, <1>4, <1>5, <1>6, <1>7, <1>8, <1>9 DEF Next

LEMMA SignalsStep ==
  ASSUME PageInv, TypeOK', [Next]_vars
  PROVE  SignalsMeaning'
  <1> USE DEF PageInv, SignalsMeaning
  <1>1. ASSUME NEW c \in Companies, Open(c) PROVE SignalsMeaning'
    BY <1>1 DEF Open
  <1>2. CASE Identify
    BY <1>2 DEF Identify
  <1>3. CASE Start
    <2>1. stage[started + 1] = "new" /\ started + 1 \in Crawls
      BY <1>3 DEF Start, HandleMeaning, TypeOK
    <2>2. \A i \in 1..Len(signals) : signals[i] # started + 1
      BY <2>1
    <2> QED
      BY <1>3, <2>2 DEF Start, TypeOK
  <1>4. CASE Cancel
    BY <1>4 DEF Cancel
  <1>5. CASE RefreshEvidence
    BY <1>5 DEF RefreshEvidence
  <1>6. CASE Deliver
    BY <1>6, HeadSignal DEF Deliver, TypeOK
  <1>7. CASE Shutdown
    BY <1>7 DEF Shutdown, TypeOK
  <1>8. ASSUME NEW j \in Crawls, Work(j) PROVE SignalsMeaning'
    <2>1. CASE UNCHANGED signals
      BY <1>8, <2>1, WorkFrame DEF TypeOK
    <2>2. CASE signals' = Append(signals, j) /\ stage' = [stage EXCEPT ![j] = "posted"]
      BY <2>2 DEF TypeOK
    <2> QED
      BY <1>8, <2>1, <2>2 DEF Work, RunWorker, ReadKey, ReadHandle, EnterCrawl, LeaveCrawl,
         Return
  <1>9. CASE UNCHANGED vars
    BY <1>9 DEF vars
  <1> QED
    BY <1>1, <1>2, <1>3, <1>4, <1>5, <1>6, <1>7, <1>8, <1>9 DEF Next

-----------------------------------------------------------------------------

(* Objects are identified for good. *)
LEMMA IdentifiedGrows ==
  ASSUME TypeOK, [Next]_vars
  PROVE  identified \subseteq identified'
  <1>1. ASSUME NEW c \in Companies, Open(c) PROVE identified \subseteq identified'
    BY <1>1 DEF Open, AdoptProfile
  <1>2. CASE Identify
    BY <1>2 DEF Identify, AdoptProfile
  <1>3. CASE Deliver
    BY <1>3 DEF Deliver, ShowError, ShowResult, AdoptProfile
  <1>4. ASSUME NEW j \in Crawls, Work(j) PROVE identified \subseteq identified'
    BY <1>4, WorkFrame DEF pageVars
  <1> QED
    BY <1>1, <1>2, <1>3, <1>4
    DEF Next, Start, Cancel, RefreshEvidence, Shutdown, vars, pageVars

LEMMA KeysStep ==
  ASSUME PageInv, TypeOK', [Next]_vars
  PROVE  KeysMeaning'
  <1>1. ASSUME NEW j \in Crawls PROVE KeyMeaning(j)
    BY DEF PageInv, KeysMeaning
  <1>2. SUFFICES ASSUME NEW j \in Crawls PROVE KeyMeaning(j)'
    BY DEF KeysMeaning
  <1>3. KeyMeaning(j) /\ identified \subseteq identified'
    BY <1>1, IdentifiedGrows DEF PageInv
  (* A crawl whose ids stay as they are and that computes none. *)
  <1>4. ASSUME UNCHANGED <<owner, startKey, jobKey>>,
               stage[j] = "new" => stage'[j] = "new",
               stage'[j] \in Keyed => stage[j] \in Keyed
        PROVE  KeyMeaning(j)'
    BY <1>3, <1>4 DEF KeyMeaning
  <1>5. ASSUME NEW c \in Companies, Open(c) PROVE KeyMeaning(j)'
    BY <1>5, <1>4 DEF Open, workVars
  <1>6. CASE Identify
    BY <1>6, <1>4 DEF Identify, workVars
  <1>7. CASE Start
    <2>1. CASE j = started + 1
      <3>1. /\ stage'[j] = "queued"
            /\ owner'[j] = company /\ company \in Companies
            /\ startKey'[j] = Key(company)
            /\ identified' = identified
        BY <1>7, <2>1 DEF Start, PageInv, TypeOK
      <3> QED
        BY <3>1, KeyCases DEF KeyMeaning, Keyed
    <2>2. CASE j # started + 1
      BY <1>7, <1>3, <2>2 DEF Start, PageInv, TypeOK, KeyMeaning
    <2> QED
      BY <2>1, <2>2
  <1>8. CASE Cancel
    BY <1>8, <1>4 DEF Cancel, pageVars, workVars
  <1>9. CASE RefreshEvidence
    BY <1>9, <1>4 DEF RefreshEvidence, workVars
  <1>10. CASE Deliver
    <2>1. signals # << >>
      BY <1>10 DEF Deliver
    <2>2. /\ stage[j] = "new" => stage'[j] = "new"
          /\ stage'[j] \in Keyed => stage[j] \in Keyed
      BY <1>10, <2>1, HeadSignal DEF Deliver, PageInv, TypeOK, Keyed
    <2> QED
      BY <1>10, <2>2, <1>4 DEF Deliver, workVars
  <1>11. CASE Shutdown
    BY <1>11, <1>4 DEF Shutdown, workVars, Keyed
  <1>12. ASSUME NEW k \in Crawls, Work(k) PROVE KeyMeaning(j)'
    <2>1. CASE ReadKey(k) /\ j = k
      <3>1. /\ stage[j] = "thread" /\ stage'[j] = "keyed"
            /\ jobKey'[j] = Key(owner[j])
            /\ UNCHANGED <<owner, startKey, identified>>
        BY <2>1 DEF ReadKey, PageInv, TypeOK, pageVars
      <3> QED
        BY <3>1, <1>3, KeyCases DEF KeyMeaning
    <2>2. CASE ReadKey(k) /\ j # k
      BY <2>2, <1>3 DEF ReadKey, PageInv, TypeOK, pageVars, KeyMeaning
    <2>3. CASE ~ReadKey(k)
      <3>1. /\ UNCHANGED <<owner, startKey, jobKey>>
            /\ stage'[j] # stage[j] =>
                 stage'[j] = "thread" \/ stage[j] \in {"keyed", "called", "crawling"}
        BY <1>12, <2>3 DEF Work, RunWorker, ReadHandle, EnterCrawl, LeaveCrawl, Return,
           workVars, PageInv, TypeOK
      <3>2. stage[j] = "new" => stage'[j] = "new"
        BY <1>12, WorkFrame DEF PageInv, TypeOK
      <3> QED
        BY <3>1, <3>2, <1>4 DEF Keyed
    <2> QED
      BY <2>1, <2>2, <2>3
  <1>13. CASE UNCHANGED vars
    BY <1>13, <1>4 DEF vars, workVars
  <1> QED
    BY <1>5, <1>6, <1>7, <1>8, <1>9, <1>10, <1>11, <1>12, <1>13 DEF Next

(* An event read too late is at least as young as the crawl.               *)
LEMMA OldEventStep ==
  ASSUME PageInv, TypeOK', [Next]_vars
  PROVE  NoCrawlUnderOldEvent'
  <1> USE DEF PageInv, NoCrawlUnderOldEvent
  <1>1. ASSUME NEW j \in Crawls, ReadHandle(j) PROVE NoCrawlUnderOldEvent'
    <2>1. stage[j] = "keyed" /\ event' = [event EXCEPT ![j] =
                                  IF handle = NoEvent THEN OwnEvent(j) ELSE handle]
      BY <1>1 DEF ReadHandle
    <2>2. j \in Nat /\ MaxCrawls \in Nat /\ started \in Nat /\ j <= started
      BY <2>1, PageAssumption DEF HandleMeaning, TypeOK, Crawls
    <2>3. OwnEvent(j) >= j
      BY <2>2 DEF OwnEvent
    <2>4. handle # NoEvent => handle >= j
      BY <2>2 DEF HandleMeaning
    <2> QED
      BY <2>1, <2>3, <2>4 DEF TypeOK
  <1>2. ASSUME NEW j \in Crawls, Work(j), ~ReadHandle(j) PROVE UNCHANGED event
    BY <1>2 DEF Work, RunWorker, ReadKey, EnterCrawl, LeaveCrawl, workVars
  <1> QED
    BY <1>1, <1>2 DEF Next, Open, Identify, Start, Cancel, RefreshEvidence, Deliver, Shutdown,
       vars, workVars

(* The result or error of the last crawl started, if it bears the id the   *)
(* page knows that crawl by, frees the handle.                             *)
LEMMA BlockedStep ==
  ASSUME PageInv, TypeOK', [Next]_vars
  PROVE  BlockedOnlyByCrawl'
  <1>1. SUFFICES ASSUME NEW j \in Crawls,
                        handle' = j, j \notin alarm', stage'[j] = "done"
                 PROVE  jobKey'[j] # startKey'[j]
    BY DEF BlockedOnlyByCrawl
  <1>2. ASSUME UNCHANGED <<handle, jobKey, startKey>>, stage[j] = "done", alarm \subseteq alarm'
        PROVE  jobKey'[j] # startKey'[j]
    BY <1>1, <1>2 DEF PageInv, BlockedOnlyByCrawl
  <1>3. ASSUME NEW c \in Companies, Open(c) PROVE jobKey'[j] # startKey'[j]
    BY <1>1, <1>2, <1>3 DEF Open, workVars
  <1>4. CASE Identify
    BY <1>1, <1>2, <1>4 DEF Identify, workVars
  <1>5. CASE Start
    BY <1>1, <1>5 DEF Start, PageInv, TypeOK
  <1>6. CASE Cancel
    BY <1>1, <1>2, <1>6 DEF Cancel, pageVars, workVars
  <1>7. CASE RefreshEvidence
    BY <1>1, <1>2, <1>7 DEF RefreshEvidence, workVars
  <1>8. CASE Deliver
    <2> DEFINE k == Head(signals)
    <2>1. /\ signals # << >>
          /\ k \in failed => ShowError(k)
          /\ k \notin failed => ShowResult(k)
          /\ UNCHANGED <<startKey, jobKey, alarm>>
      BY <1>8 DEF Deliver, workVars
    <2>2. handle = j /\ handle' # NoEvent /\ UNCHANGED handle
      BY <1>1, <2>1, PageAssumption DEF ShowError, ShowResult, NoEvent, Crawls
    <2>3. j = started /\ startKey[j] = handleKey
      BY <2>2, PageAssumption DEF PageInv, HandleMeaning, NoEvent, Crawls
    <2>4. CASE k = j
      <3>1. k \notin failed /\ jobKey[j] # handleKey
        BY <2>1, <2>2, <2>3, <2>4 DEF ShowError, ShowResult
      <3> QED
        BY <2>1, <2>3, <3>1
    <2>5. CASE k # j
      <3>1. stage[j] = "done"
        BY <1>1, <1>8, <2>5 DEF Deliver, PageInv, TypeOK
      <3> QED
        BY <1>2, <2>1, <2>2, <3>1
    <2> QED
      BY <2>4, <2>5
  <1>9. CASE Shutdown
    BY <1>1, <1>2, <1>9 DEF Shutdown, pageVars, workVars
  <1>10. ASSUME NEW k \in Crawls, Work(k) PROVE jobKey'[j] # startKey'[j]
    <2>1. UNCHANGED <<handle, startKey>> /\ stage[j] = "done" /\ k # j
      BY <1>1, <1>10, WorkFrame DEF pageVars, PageInv, TypeOK
    <2>2. jobKey'[j] = jobKey[j] /\ UNCHANGED alarm
      BY <1>10, <2>1 DEF Work, RunWorker, ReadKey, ReadHandle, EnterCrawl, LeaveCrawl,
         workVars, PageInv, TypeOK
    <2> QED
      BY <1>1, <2>1, <2>2 DEF PageInv, BlockedOnlyByCrawl
  <1>11. CASE UNCHANGED vars
    BY <1>1, <1>2, <1>11 DEF vars, pageVars, workVars
  <1> QED
    BY <1>3, <1>4, <1>5, <1>6, <1>7, <1>8, <1>9, <1>10, <1>11 DEF Next

(* The loading state goes with the result or error of the last crawl, or   *)
(* the company's id has changed since that crawl was started.              *)
LEMMA LoadingStep ==
  ASSUME PageInv, TypeOK', [Next]_vars
  PROVE  LoadingMeansCrawling'
  <1>1. SUFFICES ASSUME panel' = "loading" PROVE LoadingMeansCrawling'
    BY DEF LoadingMeansCrawling
  (* A step that neither starts a crawl nor ends the last one. *)
  <1>2. ASSUME UNCHANGED <<panel, company, started, owner, startKey>>,
               \A j \in Crawls : stage'[j] = "done" => stage[j] = "done",
               identified \subseteq identified'
        PROVE  LoadingMeansCrawling'
    <2>1. /\ started \in Crawls /\ owner[started] = company
          /\ stage[started] = "done" => startKey[started] # Key(company)
      BY <1>1, <1>2 DEF PageInv, LoadingMeansCrawling
    <2>2. ASSUME stage'[started] = "done" PROVE startKey[started] # Key(company)'
      <3>1. stage[started] = "done" /\ KeyMeaning(started)
        BY <1>2, <2>1, <2>2 DEF PageInv, KeysMeaning
      <3>2. CASE company \in identified
        BY <1>2, <2>1, <3>1, <3>2, KeyCases, KeyCasesPrime
      <3>3. CASE company \notin identified
        BY <2>1, <3>1, <3>3, KeyCases DEF KeyMeaning, Keyed
      <3> QED
        BY <3>2, <3>3
    <2> QED
      BY <1>2, <2>1, <2>2 DEF LoadingMeansCrawling
  <1>3. identified \subseteq identified'
    BY IdentifiedGrows DEF PageInv
  <1>4. ASSUME NEW c \in Companies, Open(c) PROVE LoadingMeansCrawling'
    BY <1>1, <1>4 DEF Open
  <1>5. CASE Identify
    BY <1>2, <1>3, <1>5 DEF Identify, workVars
  <1>6. CASE Start
    <2>1. /\ started' \in Crawls /\ owner'[started'] = company'
          /\ stage'[started'] = "queued"
      BY <1>6 DEF Start, PageInv, TypeOK
    <2> QED
      BY <2>1 DEF LoadingMeansCrawling
  <1>7. CASE Cancel
    BY <1>2, <1>3, <1>7 DEF Cancel, pageVars, workVars
  <1>8. CASE RefreshEvidence
    BY <1>1, <1>8 DEF RefreshEvidence
  <1>9. CASE Deliver
    <2> DEFINE k == Head(signals)
    <2>1. /\ signals # << >>
          /\ k \in failed => ShowError(k)
          /\ k \notin failed => ShowResult(k)
          /\ UNCHANGED <<company, started, owner, startKey, jobKey>>
      BY <1>9 DEF Deliver, workVars
    <2>2. k \in Crawls /\ stage[k] \in {"posted", "done"} /\ company \in Companies
      BY <2>1, HeadSignal DEF PageInv
    <2>3. /\ UNCHANGED <<panel, identified>>
          /\ k \in failed => startKey[k] # Key(company)
          /\ k \notin failed => jobKey[k] # Key(company)
      BY <1>1, <2>1 DEF ShowError, ShowResult
    <2>4. CASE k = started
      <3>1. owner[k] = company /\ KeyMeaning(k)
        BY <1>1, <2>2, <2>3, <2>4 DEF PageInv, LoadingMeansCrawling, KeysMeaning
      <3>2. startKey[k] # Key(company)
        BY <2>2, <2>3, <3>1, KeyCases DEF KeyMeaning, Keyed
      <3>3. Key(company)' = Key(company)
        BY <2>1, <2>3 DEF Key
      <3> QED
        BY <2>1, <2>2, <2>4, <3>1, <3>2, <3>3 DEF LoadingMeansCrawling
    <2>5. CASE k # started
      <3>1. /\ started \in Crawls /\ owner[started] = company
            /\ stage[started] = "done" => startKey[started] # Key(company)
        BY <1>1, <2>3 DEF PageInv, LoadingMeansCrawling
      <3>2. stage'[started] = stage[started]
        BY <1>9, <2>5, <3>1 DEF Deliver, PageInv, TypeOK
      <3>3. Key(company)' = Key(company)
        BY <2>1, <2>3 DEF Key
      <3> QED
        BY <2>1, <3>1, <3>2, <3>3 DEF LoadingMeansCrawling
    <2> QED
      BY <2>4, <2>5
  <1>10. CASE Shutdown
    BY <1>2, <1>3, <1>10 DEF Shutdown, pageVars, workVars
  <1>11. ASSUME NEW k \in Crawls, Work(k) PROVE LoadingMeansCrawling'
    <2>1. /\ UNCHANGED <<panel, company, started, owner, startKey>>
          /\ \A j \in Crawls : stage'[j] = "done" => stage[j] = "done"
      BY <1>11, WorkFrame DEF pageVars, PageInv, TypeOK
    <2> QED
      BY <1>2, <1>3, <2>1
  <1>12. CASE UNCHANGED vars
    BY <1>2, <1>3, <1>12 DEF vars, pageVars, workVars
  <1> QED
    BY <1>4, <1>5, <1>6, <1>7, <1>8, <1>9, <1>10, <1>11, <1>12 DEF Next

-----------------------------------------------------------------------------

LEMMA PageInvStep == PageInv /\ [Next]_vars => PageInv'
  <1> SUFFICES ASSUME PageInv, [Next]_vars PROVE PageInv'
    OBVIOUS
  <1>1. TypeOK'
    BY TypeStep DEF PageInv
  <1> QED
    BY <1>1, HandleStep, SignalsStep, KeysStep, OldEventStep, BlockedStep, LoadingStep
    DEF PageInv

(* The inductive invariant of the page. *)
THEOREM PageInvariant == Spec => []PageInv
  BY InitPageInv, PageInvStep, PTL DEF Spec

(* Every variable of the page keeps its type. *)
THEOREM PageTypes == Spec => []TypeOK
  BY PageInvariant, PTL DEF PageInv

(* No crawl runs under an event made for an earlier one.                   *)
THEOREM EventsAreYoung == Spec => []NoCrawlUnderOldEvent
  BY PageInvariant, PTL DEF PageInv

(* The start button is blocked by no crawl that is over, except one whose  *)
(* company changed its id between the start and the thread.                *)
THEOREM HandleIsFreed == Spec => []BlockedOnlyByCrawl
  BY PageInvariant, PTL DEF PageInv

(* The list never waits for a crawl that is over, except one whose company *)
(* changed its id after the start.                                         *)
THEOREM LoadingEnds == Spec => []LoadingMeansCrawling
  BY PageInvariant, PTL DEF PageInv
=============================================================================
