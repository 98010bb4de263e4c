-------------------------- MODULE CollectionProofs --------------------------
(***************************************************************************)
(* Proofs about the crawlergo runtime (CrawlRuntime) and the pages a crawl *)
(* requests and keeps (PageFetch), for every number of threads and every   *)
(* web.                                                                    *)
(***************************************************************************)
EXTENDS CrawlRuntime, PageFetch, DataFacts, SequenceTheorems, TLAPS

(* CrawlRuntime.                                                           *)

Begun == {"launched", "waits", "told", "killed"}

Diagnostics ==
    [at: {"idle", "launch", "read", "over"} \cup Begun,
     program: Programs \cup {"none"},
     code: {"none", "answered", "failed"},
     result: {"none", "enabled", "dependency_missing", "dependency_error", "raised"}]

Processes == [Programs -> {"none", "running", "stopping", "ended"}]

RuntimeTypeOK ==
    /\ test \in [Tests -> Diagnostics]
    /\ process \in [Tests -> Processes]
    /\ known \subseteq Tests \X Programs
    /\ stop \in [at: {"idle", "ending", "over"}, list: SUBSET (Tests \X Programs)]

Runs(state) == state \in {"running", "stopping"}

(* A diagnostic d with its processes ps: chrome is begun when crawlergo    *)
(* has ended, and the program in work has nothing running before its       *)
(* launch and after its answer.                                            *)
Orderly(d, ps) ==
    /\ d.at = "idle" => ps["crawlergo"] = "none" /\ ps["chrome"] = "none"
    /\ d.at \in {"launch", "read"} \cup Begun =>
         /\ d.program \in Programs
         /\ d.program = "crawlergo" => ps["chrome"] = "none"
         /\ d.program = "chrome" => ps["crawlergo"] = "ended"
    /\ d.at = "launch" => ps[d.program] = "none"
    /\ d.at \in Begun => ps[d.program] # "none"
    /\ d.at = "killed" => ps[d.program] = "ended"
    /\ d.at = "read" => ~Runs(ps[d.program]) /\ (d.code = "answered" => ps[d.program] = "ended")
    /\ d.at = "over" => ~Runs(ps["crawlergo"]) /\ ~Runs(ps["chrome"])
    /\ ps["chrome"] # "none" => ps["crawlergo"] = "ended"

(* A diagnostic goes on, and ends well, only with a runtime that is there. *)
Earned(d, state) ==
    /\ d.at \notin {"idle", "over"} => state = "enabled"
    /\ d.at # "over" => d.result = "none"
    /\ d.result = "enabled" => state = "enabled"

Awaited(d, p) == d.at \in {"waits", "told", "killed"} /\ d.program = p

RuntimeInv ==
    /\ RuntimeTypeOK
    /\ \A t \in Tests : Orderly(test[t], process[t])
    /\ \A t \in Tests : Earned(test[t], Discover(installed).state)
    /\ \A t \in Tests, p \in Programs : <<t, p>> \in known => Awaited(test[t], p)

LEMMA InitRuntimeInv == RuntimeInit => RuntimeInv
  <1> SUFFICES ASSUME RuntimeInit
               PROVE  RuntimeInv
    OBVIOUS
  <1> USE DEF RuntimeInit, NoTest, NoStop
  <1>1. RuntimeTypeOK
    BY DEF RuntimeTypeOK, Diagnostics, Processes
  <1>2. \A t \in Tests : Orderly(test[t], process[t])
    BY DEF Orderly, Programs, Begun
  <1>3. \A t \in Tests : Earned(test[t], Discover(installed).state)
    BY DEF Earned
  <1> QED
    BY <1>1, <1>2, <1>3 DEF RuntimeInv

LEMMA DiscoveredStates ==
  ASSUME NEW files
  PROVE  Discover(files).state \in {"enabled", "dependency_missing", "dependency_error"}
  BY DEF Discover, Status

(* A step of one diagnostic, to d with its processes at ps.                *)
LEMMA DiagnosticStep ==
  ASSUME RuntimeInv, NEW t \in Tests, NEW d \in Diagnostics, NEW ps \in Processes,
         test' = [test EXCEPT ![t] = d], process' = [process EXCEPT ![t] = ps],
         UNCHANGED <<installed, stop>>, known' \subseteq Tests \X Programs,
         \A u \in Tests, p \in Programs :
            <<u, p>> \in known' => (u # t /\ <<u, p>> \in known) \/ (u = t /\ Awaited(d, p)),
         Orderly(d, ps), Earned(d, Discover(installed).state)
  PROVE  RuntimeInv'
  <1>1. RuntimeTypeOK'
    BY DEF RuntimeInv, RuntimeTypeOK
  <1>2. \A u \in Tests : /\ test'[u] = IF u = t THEN d ELSE test[u]
                         /\ process'[u] = IF u = t THEN ps ELSE process[u]
    BY DEF RuntimeInv, RuntimeTypeOK
  <1>3. \A u \in Tests : Orderly(test'[u], process'[u])
    BY <1>2 DEF RuntimeInv
  <1>4. \A u \in Tests : Earned(test'[u], Discover(installed').state)
    BY <1>2 DEF RuntimeInv
  <1>5. \A u \in Tests, p \in Programs : <<u, p>> \in known' => Awaited(test'[u], p)
    BY <1>2 DEF RuntimeInv
  <1> QED
    BY <1>1, <1>3, <1>4, <1>5 DEF RuntimeInv

(* What a step of t starts from. *)
LEMMA DiagnosticFacts ==
  ASSUME RuntimeInv, NEW t \in Tests
  PROVE  /\ test[t] \in Diagnostics /\ process[t] \in Processes
         /\ known \subseteq Tests \X Programs
         /\ Orderly(test[t], process[t])
         /\ Earned(test[t], Discover(installed).state)
         /\ test \in [Tests -> Diagnostics]
         /\ process \in [Tests -> Processes]
         /\ process = [process EXCEPT ![t] = process[t]]
         /\ \A p \in Programs : <<t, p>> \in known => Awaited(test[t], p)
  BY DEF RuntimeInv, RuntimeTypeOK

LEMMA StartTestStep ==
  ASSUME RuntimeInv, NEW t \in Tests, StartTest(t)
  PROVE  RuntimeInv'
  <1> DEFINE state == Discover(installed).state
             d == IF state = "enabled"
                  THEN [test[t] EXCEPT !.at = "launch", !.program = "crawlergo"]
                  ELSE [test[t] EXCEPT !.at = "over", !.result = state]
  <1>0. /\ test[t] \in Diagnostics /\ process[t] \in Processes
        /\ Orderly(test[t], process[t]) /\ Earned(test[t], state)
        /\ test[t].at = "idle" /\ UNCHANGED <<installed, process, known, stop>>
    BY DiagnosticFacts DEF StartTest
  <1>1. test' = [test EXCEPT ![t] = d]
    BY DiagnosticFacts DEF StartTest
  <1>2. state \in {"enabled", "dependency_missing", "dependency_error"}
    BY DiscoveredStates
  <1> HIDE DEF state
  <1>3. /\ d \in Diagnostics
        /\ state = "enabled" => d.at = "launch" /\ d.program = "crawlergo" /\ d.result = test[t].result
        /\ state # "enabled" => d.at = "over" /\ d.result = state
    BY <1>0, <1>2 DEF Diagnostics, Programs
  <1> HIDE DEF d
  <1>4. Orderly(d, process[t])
    BY <1>0, <1>3 DEF Orderly, Begun, Programs, Runs
  <1>5. Earned(d, state)
    BY <1>0, <1>3 DEF Earned
  <1>6. \A p \in Programs : <<t, p>> \notin known
    BY <1>0, DiagnosticFacts DEF Awaited
  <1>7. process' = [process EXCEPT ![t] = process[t]]
    BY <1>0, DiagnosticFacts
  <1> QED
    BY <1>0, <1>1, <1>3, <1>4, <1>5, <1>6, <1>7, DiagnosticFacts, DiagnosticStep DEF state

LEMMA LaunchStep ==
  ASSUME RuntimeInv, NEW t \in Tests, Launch(t)
  PROVE  RuntimeInv'
  <1> DEFINE r == test[t]
             p == r.program
             state == Discover(installed).state
  <1>0. /\ r \in Diagnostics /\ process[t] \in Processes
        /\ Orderly(r, process[t]) /\ Earned(r, state)
        /\ r.at = "launch" /\ UNCHANGED <<installed, known, stop>>
        /\ test \in [Tests -> Diagnostics] /\ process \in [Tests -> Processes]
    BY DiagnosticFacts DEF Launch
  <1>1. \A q \in Programs : <<t, q>> \notin known
    BY <1>0, DiagnosticFacts DEF Awaited
  <1>2. p \in Programs /\ process[t][p] = "none"
    BY <1>0 DEF Orderly
  <1> HIDE DEF state
  <1>3. CASE /\ test' = [test EXCEPT ![t].at = "read", ![t].code = "failed"]
             /\ UNCHANGED process
    <2> DEFINE d == [r EXCEPT !.at = "read", !.code = "failed"]
    <2>1. test' = [test EXCEPT ![t] = d]
      BY <1>0, <1>3
    <2>2. /\ d \in Diagnostics /\ d.at = "read" /\ d.code = "failed" /\ d.program = p
          /\ d.result = r.result
      BY <1>0 DEF Diagnostics
    <2> HIDE DEF d
    <2>3. Orderly(d, process[t]) /\ Earned(d, state)
      BY <1>0, <1>2, <2>2 DEF Orderly, Earned, Begun, Runs
    <2>4. process' = [process EXCEPT ![t] = process[t]]
      BY <1>0, <1>3
    <2> QED
      BY <1>0, <1>1, <2>1, <2>2, <2>3, <2>4, DiagnosticFacts, DiagnosticStep DEF state
  <1>4. CASE /\ process' = [process EXCEPT ![t][p] = "running"]
             /\ test' = [test EXCEPT ![t].at = "launched"]
    <2> DEFINE d == [r EXCEPT !.at = "launched"]
               ps == [process[t] EXCEPT ![p] = "running"]
    <2>1. test' = [test EXCEPT ![t] = d] /\ process' = [process EXCEPT ![t] = ps]
      BY <1>0, <1>4
    <2>2. /\ d \in Diagnostics /\ d.at = "launched" /\ d.program = p /\ d.result = r.result
      BY <1>0 DEF Diagnostics, Begun
    <2>3. ps \in Processes /\ \A q \in Programs : ps[q] = IF q = p THEN "running" ELSE process[t][q]
      BY <1>0, <1>2 DEF Processes
    <2> HIDE DEF d, ps
    <2>4. Orderly(d, ps) /\ Earned(d, state)
      BY <1>0, <1>2, <2>2, <2>3 DEF Orderly, Earned, Begun, Programs
    <2> QED
      BY <1>0, <1>1, <2>1, <2>2, <2>3, <2>4, DiagnosticFacts, DiagnosticStep DEF state
  <1> QED
    BY <1>3, <1>4 DEF Launch

(* Steps that leave the processes as they are and move the diagnostic on   *)
(* to where a program's answer is awaited, or read, or the test is over.   *)
LEMMA MoveStep ==
  ASSUME RuntimeInv, NEW t \in Tests, NEW d \in Diagnostics,
         test' = [test EXCEPT ![t] = d], UNCHANGED <<installed, process, stop>>,
         test[t].at \in Begun, d.program = test[t].program,
         known' \in {known, known \cup {<<t, d.program>>}, known \ {<<t, d.program>>}},
         <<t, d.program>> \in known' => Awaited(d, d.program),
         \/ /\ d.at = "waits" /\ d.result = test[t].result
         \/ /\ d.at = "read" /\ d.result = test[t].result
            /\ process[t][d.program] = "ended"
         \/ /\ d.at = "over" /\ d.result = "raised"
            /\ process[t][d.program] = "ended"
  PROVE  RuntimeInv'
  <1> DEFINE r == test[t]
             p == d.program
             state == Discover(installed).state
  <1>0. /\ r \in Diagnostics /\ process[t] \in Processes
        /\ Orderly(r, process[t]) /\ Earned(r, state)
        /\ known \subseteq Tests \X Programs
        /\ process' = [process EXCEPT ![t] = process[t]]
    BY DiagnosticFacts
  <1>1. p \in Programs
    BY <1>0 DEF Orderly
  <1>2. Orderly(d, process[t]) /\ Earned(d, state)
    BY <1>0, <1>1 DEF Orderly, Earned, Begun, Programs, Runs
  <1>3. \A q \in Programs : <<t, q>> \in known' => Awaited(d, q)
    <2>1. \A q \in Programs : <<t, q>> \in known => q = p
      BY DiagnosticFacts DEF Awaited
    <2> QED
      BY <2>1
  <1>4. known' \subseteq Tests \X Programs
    BY <1>0, <1>1
  <1>5. \A u \in Tests, q \in Programs : <<u, q>> \in known' /\ u # t => <<u, q>> \in known
    OBVIOUS
  <1> QED
    BY <1>0, <1>2, <1>3, <1>4, <1>5, DiagnosticStep DEF state

LEMMA RegisterStep ==
  ASSUME RuntimeInv, NEW t \in Tests, Register(t)
  PROVE  RuntimeInv'
  <1> DEFINE d == [test[t] EXCEPT !.at = "waits"]
  <1>1. test[t] \in Diagnostics /\ test \in [Tests -> Diagnostics]
    BY DiagnosticFacts
  <1>2. test' = [test EXCEPT ![t] = d]
    BY <1>1 DEF Register
  <1>3. /\ d \in Diagnostics /\ d.at = "waits" /\ d.program = test[t].program
        /\ d.result = test[t].result
    BY <1>1 DEF Diagnostics, Begun
  <1> HIDE DEF d
  <1> QED
    BY <1>2, <1>3, MoveStep DEF Register, Begun, Awaited

LEMMA ReadsStep ==
  ASSUME RuntimeInv, NEW t \in Tests, Reads(t)
  PROVE  RuntimeInv'
  <1>0. test[t] \in Diagnostics /\ test \in [Tests -> Diagnostics]
    BY DiagnosticFacts
  <1>1. PICK code \in {"answered", "failed"} : test' = [test EXCEPT ![t].at = "read", ![t].code = code]
    BY DEF Reads
  <1> DEFINE d == [test[t] EXCEPT !.at = "read", !.code = code]
  <1>2. test' = [test EXCEPT ![t] = d]
    BY <1>0, <1>1
  <1>3. /\ d \in Diagnostics /\ d.at = "read" /\ d.program = test[t].program
        /\ d.result = test[t].result
    BY <1>0 DEF Diagnostics
  <1> HIDE DEF d
  <1> QED
    BY <1>2, <1>3, MoveStep DEF Reads, Begun

LEMMA HeldPipesStep ==
  ASSUME RuntimeInv, NEW t \in Tests, HeldPipes(t)
  PROVE  RuntimeInv'
  <1> DEFINE d == [test[t] EXCEPT !.at = "over", !.result = "raised"]
  <1>1. /\ test[t] \in Diagnostics /\ test \in [Tests -> Diagnostics]
        /\ Orderly(test[t], process[t])
    BY DiagnosticFacts
  <1>2. test' = [test EXCEPT ![t] = d]
    BY <1>1 DEF HeldPipes
  <1>3. d \in Diagnostics /\ d.at = "over" /\ d.program = test[t].program /\ d.result = "raised"
    BY <1>1 DEF Diagnostics
  <1>4. process[t][test[t].program] = "ended"
    BY <1>1 DEF HeldPipes, Orderly
  <1> HIDE DEF d
  <1> QED
    BY <1>2, <1>3, <1>4, MoveStep DEF HeldPipes, Begun

LEMMA TellOrKillStep ==
  ASSUME RuntimeInv, NEW t \in Tests, TellToEnd(t) \/ Kill(t)
  PROVE  RuntimeInv'
  <1> DEFINE r == test[t]
             p == r.program
             state == Discover(installed).state
             was == process[t][p]
             to == IF r.at = "waits" THEN "told" ELSE "killed"
             is == IF r.at = "waits" THEN IF was = "running" THEN "stopping" ELSE was ELSE "ended"
             d == [r EXCEPT !.at = to]
             ps == [process[t] EXCEPT ![p] = is]
  <1>0. /\ r \in Diagnostics /\ process[t] \in Processes
        /\ Orderly(r, process[t]) /\ Earned(r, state)
        /\ r.at \in {"waits", "told"} /\ UNCHANGED <<installed, known, stop>>
        /\ test \in [Tests -> Diagnostics] /\ process \in [Tests -> Processes]
    BY DiagnosticFacts DEF TellToEnd, Kill
  <1>1. test' = [test EXCEPT ![t] = d] /\ process' = [process EXCEPT ![t] = ps]
    BY <1>0 DEF TellToEnd, Kill
  <1>2. p \in Programs /\ was # "none" /\ was \in {"running", "stopping", "ended"}
    BY <1>0 DEF Orderly, Begun, Processes
  <1>3. /\ d \in Diagnostics /\ d.at = to /\ to \in {"told", "killed"}
        /\ d.program = p /\ d.result = r.result
    BY <1>0 DEF Diagnostics, Begun
  <1>4. is # "none" /\ is \in {"stopping", "ended"} /\ (to = "killed" => is = "ended")
    BY <1>0, <1>2
  <1> HIDE DEF is, to
  <1>5. ps \in Processes /\ \A q \in Programs : ps[q] = IF q = p THEN is ELSE process[t][q]
    BY <1>0, <1>2, <1>4 DEF Processes
  <1> HIDE DEF d, ps, state
  <1>6. Orderly(d, ps)
    BY <1>0, <1>2, <1>3, <1>4, <1>5 DEF Orderly, Begun, Programs
  <1>7. Earned(d, state)
    BY <1>0, <1>3 DEF Earned
  <1>8. \A q \in Programs : <<t, q>> \in known => Awaited(d, q)
    BY <1>3, DiagnosticFacts DEF Awaited
  <1> QED
    BY <1>0, <1>1, <1>3, <1>5, <1>6, <1>7, <1>8, DiagnosticFacts, DiagnosticStep DEF state

LEMMA NextProgramStep ==
  ASSUME RuntimeInv, NEW t \in Tests, NextProgram(t)
  PROVE  RuntimeInv'
  <1> DEFINE r == test[t]
             state == Discover(installed).state
             goesOn == r.program = "crawlergo" /\ r.code = "answered"
             outcome == IF r.program = "chrome" THEN "enabled" ELSE "dependency_error"
             d == IF goesOn
                  THEN [r EXCEPT !.at = "launch", !.program = "chrome", !.code = "none"]
                  ELSE [r EXCEPT !.at = "over", !.result = outcome]
  <1>0. /\ r \in Diagnostics /\ process[t] \in Processes
        /\ Orderly(r, process[t]) /\ Earned(r, state)
        /\ r.at = "read" /\ UNCHANGED <<installed, process, known, stop>>
        /\ process' = [process EXCEPT ![t] = process[t]]
    BY DiagnosticFacts DEF NextProgram
  <1>1. test' = [test EXCEPT ![t] = d]
    BY DEF NextProgram
  <1>2. \A q \in Programs : <<t, q>> \notin known
    BY <1>0, DiagnosticFacts DEF Awaited
  <1>3. outcome \in {"enabled", "dependency_error"}
    OBVIOUS
  <1> HIDE DEF outcome
  <1>4. /\ d \in Diagnostics
        /\ goesOn => d.at = "launch" /\ d.program = "chrome" /\ d.result = r.result
        /\ ~goesOn => d.at = "over" /\ d.result = outcome
    BY <1>0, <1>3 DEF Diagnostics, Programs
  <1> HIDE DEF d, state
  <1>5. Orderly(d, process[t])
    BY <1>0, <1>4 DEF Orderly, Begun, Programs, Runs
  <1>6. Earned(d, state)
    BY <1>0, <1>3, <1>4 DEF Earned
  <1> QED
    BY <1>0, <1>1, <1>2, <1>4, <1>5, <1>6, DiagnosticFacts, DiagnosticStep DEF state

(* Processes that end, by themselves or in terminate_all.                  *)
LEMMA EndStep ==
  ASSUME RuntimeInv, NEW t \in Tests, NEW p \in Programs, End(t, p) \/ EndProcess(t, p)
  PROVE  RuntimeInv'
  <1> DEFINE ps == [process[t] EXCEPT ![p] = "ended"]
             state == Discover(installed).state
  <1>0. /\ test[t] \in Diagnostics /\ process[t] \in Processes
        /\ Orderly(test[t], process[t]) /\ Earned(test[t], state)
        /\ UNCHANGED <<installed, test, known, stop>>
        /\ test \in [Tests -> Diagnostics] /\ process \in [Tests -> Processes]
        /\ Runs(process[t][p])
    BY DiagnosticFacts DEF End, EndProcess, Alive, Runs
  <1>1. test' = [test EXCEPT ![t] = test[t]] /\ process' = [process EXCEPT ![t] = ps]
    BY <1>0 DEF End, EndProcess
  <1>2. ps \in Processes /\ \A q \in Programs : ps[q] = IF q = p THEN "ended" ELSE process[t][q]
    BY <1>0 DEF Processes
  <1> HIDE DEF ps, state
  <1>3. Orderly(test[t], ps)
    BY <1>0, <1>2 DEF Orderly, Begun, Programs, Runs
  <1> QED
    BY <1>0, <1>1, <1>2, <1>3, DiagnosticFacts, DiagnosticStep DEF state

LEMMA RuntimeStep == RuntimeInv /\ [RuntimeNext]_runtimeVars => RuntimeInv'
  <1> SUFFICES ASSUME RuntimeInv, [RuntimeNext]_runtimeVars
               PROVE  RuntimeInv'
    OBVIOUS
  <1>1. CASE UNCHANGED runtimeVars
    BY <1>1 DEF RuntimeInv, RuntimeTypeOK, runtimeVars
  <1>2. CASE StartStop
    BY <1>2 DEF StartStop, RuntimeInv, RuntimeTypeOK
  <1>3. CASE FinishStop
    BY <1>3 DEF FinishStop, RuntimeInv, RuntimeTypeOK
  <1> QED
    BY <1>1, <1>2, <1>3, StartTestStep, LaunchStep, RegisterStep, ReadsStep, HeldPipesStep,
       TellOrKillStep, NextProgramStep, EndStep
    DEF RuntimeNext

(* The inductive invariant of the runtime: what a diagnostic has made of   *)
(* its processes at each point, and which of them are registered.          *)
THEOREM RuntimeInvariant == RuntimeSpec => []RuntimeInv
  BY InitRuntimeInv, RuntimeStep, PTL DEF RuntimeSpec

(* However a diagnostic ends and whoever else ends its processes, none is  *)
(* left behind, and chrome is begun only after crawlergo has ended.        *)
THEOREM RuntimeLeavesNoProcess == RuntimeSpec => []NoProcessIsLeft
  <1>1. RuntimeInv => NoProcessIsLeft
    <2> SUFFICES ASSUME RuntimeInv
                 PROVE  NoProcessIsLeft
      OBVIOUS
    <2>1. ASSUME NEW t \in Tests
          PROVE  /\ test[t].at \in {"over", "read"} => \A p \in Programs : ~Alive(t, p)
                 /\ process[t]["chrome"] # "none" => process[t]["crawlergo"] = "ended"
                 /\ test[t].result = "enabled" => Discover(installed).state = "enabled"
      <3>1. Orderly(test[t], process[t]) /\ Earned(test[t], Discover(installed).state)
        BY DEF RuntimeInv
      <3> QED
        BY <3>1 DEF Orderly, Earned, Programs, Runs, Alive
    <2>2. \A entry \in known : test[entry[1]].at # "over"
      BY DEF RuntimeInv, RuntimeTypeOK, Awaited
    <2> QED
      BY <2>1, <2>2 DEF NoProcessIsLeft
  <1> QED
    BY <1>1, RuntimeInvariant, PTL

-----------------------------------------------------------------------------
(* PageFetch.                                                              *)

Stops == {"check", "sent", "body", "whole"}

(* The domains the addresses of a fetch must lie in.                       *)
ScopeOf(asked) == IF sameDomain THEN {HostOf[asked]} ELSE SeedHosts

Taken == [page: Pages, depth: Nat, seed: Pages]

FetchTypeOK ==
    /\ queue \in Seq(Taken)
    /\ sameDomain \in BOOLEAN
    /\ fetch \in [at: {"idle", "taken"} \cup Stops, asked: Pages \cup {NoPage}, page: Pages \cup {NoPage},
                  depth: Nat, seed: Pages \cup {NoPage}, scope: SUBSET ({HostOf[p] : p \in Pages}),
                  hops: Nat, kind: {"none", "text", "other", "pdf"}, size: Nat]
    /\ requested \in Seq(Pages)
    /\ DOMAIN kept = Pages

(* The fetch in work: one request more than redirects, once it is sent,    *)
(* and every address it came by within its scope.                          *)
FetchBelongs ==
    /\ fetch.at # "idle" => fetch.asked \in Pages /\ fetch.page \in Pages /\ fetch.seed \in Pages
    /\ fetch.at \in {"idle", "taken"} => requested = <<>> /\ fetch.hops = 0
    /\ fetch.at \in Stops =>
         /\ fetch.scope = ScopeOf(fetch.asked)
         /\ InScope(fetch.asked, SeedHosts)
         /\ fetch.hops <= MaxRedirects
         /\ Len(requested) = IF fetch.at = "check" THEN fetch.hops ELSE fetch.hops + 1
    /\ fetch.at \in {"sent", "body", "whole"} => InScope(fetch.page, ScopeOf(fetch.asked))
    /\ fetch.size <= MaxSize
    /\ \A i \in 1..Len(requested) : InScope(requested[i], ScopeOf(fetch.asked))

(* What may be kept under p. *)
Belongs(item, p) ==
    /\ InScope(p, SeedHosts)
    /\ InScope(item.page, ScopeOf(item.asked))
    /\ item.size <= MaxSize
    /\ item.text = "full text" => IsOfficial(item.page)
    /\ item.type \in {"official_blog", "official_news", "company_homepage"} => IsOfficial(item.page)
    /\ item.display = "metadata_only" => item.size = 0 /\ item.text = "none"
    /\ item.links \subseteq Pages

FetchInv ==
    /\ FetchTypeOK
    /\ FetchBelongs
    /\ \A p \in Pages : kept[p] # NoItem => Belongs(kept[p], p)

LEMMA InitFetchInv == FetchInit => FetchInv
  <1> SUFFICES ASSUME FetchInit
               PROVE  FetchInv
    OBVIOUS
  <1> USE DEF FetchInit
  <1>1. queue \in Seq(Taken)
    <2>1. Len(Seeds) \in Nat /\ DOMAIN Seeds = 1..Len(Seeds) /\ \A i \in 1..Len(Seeds) : Seeds[i] \in Pages
      BY FetchAssumption
    <2>2. \A i \in 1..Len(Seeds) : [page |-> Seeds[i], depth |-> 0, seed |-> Seeds[i]] \in Taken
      BY <2>1 DEF Taken
    <2>3. queue = [i \in 1..Len(Seeds) |-> [page |-> Seeds[i], depth |-> 0, seed |-> Seeds[i]]]
      BY <2>1
    <2> QED
      BY <2>1, <2>2, <2>3
  <1>2. FetchTypeOK
    BY <1>1 DEF FetchTypeOK, Idle, Stops
  <1>3. FetchBelongs
    BY FetchAssumption DEF FetchBelongs, Idle, Stops
  <1> QED
    BY <1>2, <1>3 DEF FetchInv

(* What lies in the host of a page in scope lies in scope itself.          *)
LEMMA ScopeIsNarrower ==
  ASSUME NEW asked \in Pages, NEW p \in Pages, InScope(asked, SeedHosts), InScope(p, ScopeOf(asked))
  PROVE  InScope(p, SeedHosts)
  <1>1. CASE sameDomain
    <2>1. HostOf[asked] \in Within[HostOf[p]] /\ Within[HostOf[p]] \cap Barred = {}
      BY <1>1 DEF InScope, ScopeOf
    <2>2. Within[HostOf[asked]] \subseteq Within[HostOf[p]]
      BY <2>1, WithinAssumption
    <2> QED
      BY <2>1, <2>2 DEF InScope
  <1>2. CASE ~sameDomain
    BY <1>2 DEF ScopeOf
  <1> QED
    BY <1>1, <1>2

LEMMA AskedIsInScope ==
  ASSUME NEW asked \in Pages, InScope(asked, SeedHosts)
  PROVE  InScope(asked, ScopeOf(asked))
  BY WithinAssumption DEF InScope, ScopeOf

(* A snippet is one of the parts it is taken from, never the full text.    *)
LEMMA SnippetIsShort ==
  ASSUME NEW parts
  PROVE  SnippetFrom(parts) # "full text"
  <1> DEFINE order == <<"description", "og:description", "ld description", "text">>
             present == {i \in DOMAIN order : order[i] \in parts}
  <1>1. DOMAIN order = 1..4
    OBVIOUS
  <1>2. SnippetFrom(parts) = IF present = {} THEN "none" ELSE order[Min(present)]
    BY DEF SnippetFrom, FirstOf
  <1>3. present # {} => Min(present) \in 1..4
    <2> HIDE DEF order
    <2>1. present \in SUBSET Nat /\ present \subseteq 1..4
      BY <1>1
    <2> HIDE DEF present
    <2> QED
      BY <2>1, LeastOfSet
  <1>4. \A i \in 1..4 : order[i] # "full text"
    <2>1. /\ order[1] # "full text" /\ order[2] # "full text"
          /\ order[3] # "full text" /\ order[4] # "full text"
      OBVIOUS
    <2>2. \A i \in 1..4 : i = 1 \/ i = 2 \/ i = 3 \/ i = 4
      OBVIOUS
    <2> HIDE DEF order, present
    <2> QED
      BY <2>1, <2>2
  <1> HIDE DEF order, present
  <1> QED
    BY <1>2, <1>3, <1>4

(* The rules for reports, and those for the pages of others.               *)
LEMMA TypesOfReports ==
  /\ DOMAIN ReportRules = 1..2
  /\ \A i \in 1..2 :
       ReportRules[i].type \notin {"official_blog", "official_news", "company_homepage"}
  <1>0. DOMAIN ReportRules = 1..2
    BY DEF ReportRules
  <1>1. ReportRules[1].type = "annual_report" /\ ReportRules[2].type = "financial_report"
    BY DEF ReportRules
  <1>2. \A i \in 1..2 : i = 1 \/ i = 2
    OBVIOUS
  <1> QED
    BY <1>0, <1>1, <1>2

LEMMA TypesOfForeignPages ==
  /\ DOMAIN PageRules(FALSE) = 1..10
  /\ \A i \in 1..10 :
       \/ PageRules(FALSE)[i].type \notin {"official_blog", "official_news", "company_homepage"}
       \/ PageRules(FALSE)[i].says = {}
  <1>0. DOMAIN PageRules(FALSE) = 1..10
    BY DEF PageRules
  <1>1. /\ PageRules(FALSE)[1].type = "annual_report"
        /\ PageRules(FALSE)[2].type = "press_release"
        /\ PageRules(FALSE)[3].type = "investor_relations"
        /\ PageRules(FALSE)[4].type = "announcement"
        /\ PageRules(FALSE)[5].type = "financial_report"
        /\ PageRules(FALSE)[6].type = "other"
        /\ PageRules(FALSE)[7].type = "careers"
        /\ PageRules(FALSE)[8].type = "product"
        /\ PageRules(FALSE)[9].type = "third_party_news"
        /\ PageRules(FALSE)[10].says = {}
    BY DEF PageRules
  <1>2. \A i \in 1..10 : \/ i = 1 \/ i = 2 \/ i = 3 \/ i = 4 \/ i = 5
                          \/ i = 6 \/ i = 7 \/ i = 8 \/ i = 9 \/ i = 10
    OBVIOUS
  <1> QED
    BY <1>0, <1>1, <1>2

(* A type of the company's own pages is given to no other page.            *)
LEMMA OwnTypesAreOfficial ==
  ASSUME NEW says, NEW official \in BOOLEAN,
         ContentType(says, official) \in {"official_blog", "official_news", "company_homepage"}
  PROVE  official
  <1> DEFINE rules == IF "pdf" \in says THEN ReportRules ELSE PageRules(official)
             fitting == {i \in DOMAIN rules : rules[i].says \cap says # {}}
  <1> SUFFICES ASSUME ~official
               PROVE  FALSE
    OBVIOUS
  <1>1. ContentType(says, official) = IF fitting = {} THEN "other" ELSE rules[Min(fitting)].type
    BY DEF ContentType
  <1>2. DOMAIN rules \in SUBSET Nat
    <2>1. DOMAIN ReportRules = 1..2
      BY DEF ReportRules
    <2>2. DOMAIN PageRules(official) = 1..10
      BY DEF PageRules
    <2> QED
      BY <2>1, <2>2
  <1>3. \A i \in DOMAIN rules :
           \/ rules[i].type \notin {"official_blog", "official_news", "company_homepage"}
           \/ rules[i].says = {}
    <2>1. CASE rules = ReportRules
      <3> HIDE DEF rules
      <3> QED
        BY <2>1, TypesOfReports
    <2>2. CASE rules = PageRules(FALSE)
      <3> HIDE DEF rules
      <3> QED
        BY <2>2, TypesOfForeignPages
    <2>3. official = FALSE
      OBVIOUS
    <2> QED
      BY <2>1, <2>2, <2>3
  <1> HIDE DEF rules
  <1>4. fitting # {} => Min(fitting) \in fitting
    BY <1>2, LeastOfSet
  <1>5. \A i \in fitting : rules[i].type \notin {"official_blog", "official_news", "company_homepage"}
    BY <1>3
  <1> HIDE DEF fitting
  <1> QED
    BY <1>1, <1>4, <1>5

LEMMA FollowedLinks ==
  ASSUME FetchTypeOK, NEW item, item.links \subseteq Pages,
         fetch.seed \in Pages, FollowLinks(item, fetch)
  PROVE  queue' \in Seq(Taken)
  <1>1. PICK found \in SUBSET item.links : \E m \in 0..MaxLinks :
          \E after \in [1..m -> Eligible(item, fetch, found)] :
             queue' = queue \o [i \in 1..m |-> [page |-> after[i], depth |-> fetch.depth + 1,
                                                seed |-> fetch.seed]]
    BY DEF FollowLinks
  <1>2. PICK n \in 0..MaxLinks : \E after \in [1..n -> Eligible(item, fetch, found)] :
          queue' = queue \o [i \in 1..n |-> [page |-> after[i], depth |-> fetch.depth + 1,
                                             seed |-> fetch.seed]]
    BY <1>1
  <1>3. PICK next \in [1..n -> Eligible(item, fetch, found)] :
          queue' = queue \o [i \in 1..n |-> [page |-> next[i], depth |-> fetch.depth + 1,
                                             seed |-> fetch.seed]]
    BY <1>2
  <1> DEFINE new == [i \in 1..n |-> [page |-> next[i], depth |-> fetch.depth + 1, seed |-> fetch.seed]]
  <1>4. Eligible(item, fetch, found) \subseteq Pages
    BY DEF Eligible
  <1>5. n \in Nat /\ fetch.depth + 1 \in Nat
    BY FetchAssumption DEF FetchTypeOK
  <1>6. \A i \in 1..n : [page |-> next[i], depth |-> fetch.depth + 1, seed |-> fetch.seed] \in Taken
    BY <1>4, <1>5 DEF Taken
  <1>7. new \in Seq(Taken)
    BY <1>5, <1>6
  <1>8. queue \in Seq(Taken) /\ queue' = queue \o new
    BY <1>3 DEF FetchTypeOK
  <1> HIDE DEF new
  <1> QED
    BY ONLY <1>7, <1>8, ConcatIsSeq

LEMMA LinksArePages ==
  ASSUME NEW document \in Documents
  PROVE  LinksOf(document) \subseteq Pages
  <1>1. document.links \in Seq(Pages)
    BY FetchAssumption
  <1>2. \A i \in DOMAIN document.links : document.links[i] \in Pages
    BY <1>1
  <1> QED
    BY <1>2 DEF LinksOf

(* Nothing kept changes with its page's being given up.                    *)
LEMMA KeptStays ==
  ASSUME FetchInv, kept' = kept, sameDomain' = sameDomain
  PROVE  \A p \in Pages : kept'[p] # NoItem => Belongs(kept[p], p)'
  BY DEF FetchInv, Belongs, ScopeOf

LEMMA NothingInWork ==
  ASSUME FetchInv, fetch' = Idle, requested' = <<>>
  PROVE  FetchBelongs'
  <1>1. MaxSize \in Nat
    BY FetchAssumption
  <1>2. Idle.at = "idle" /\ Idle.size = 0 /\ Idle.hops = 0
    BY DEF Idle
  <1> QED
    BY <1>1, <1>2 DEF FetchBelongs, Stops

LEMMA IdleIsTyped ==
  Idle \in [at: {"idle", "taken"} \cup Stops, asked: Pages \cup {NoPage}, page: Pages \cup {NoPage},
            depth: Nat, seed: Pages \cup {NoPage}, scope: SUBSET ({HostOf[p] : p \in Pages}),
            hops: Nat, kind: {"none", "text", "other", "pdf"}, size: Nat]
  BY DEF Idle

LEMMA SkipStep ==
  ASSUME FetchInv, NEW type, Skip(type)
  PROVE  FetchInv'
  <1>1. FetchTypeOK'
    <2>1. requested' \in Seq(Pages)
      BY DEF Skip
    <2> QED
      BY <2>1, IdleIsTyped DEF FetchInv, FetchTypeOK, Skip
  <1>2. FetchBelongs'
    BY NothingInWork DEF Skip
  <1> QED
    BY <1>1, <1>2, KeptStays DEF FetchInv, Skip

(* An item that belongs where its canonical page says may be kept.         *)
LEMMA KeepStep ==
  ASSUME FetchInv, fetch.at # "idle", NEW item, item.links \subseteq Pages,
         item.canonical \in Pages => Belongs(item, item.canonical),
         Keep(item, fetch)
  PROVE  FetchInv'
  <1>1. FetchTypeOK'
    <2>1. requested' \in Seq(Pages)
      BY DEF Keep
    <2>2. queue' \in Seq(Taken)
      BY FollowedLinks DEF FetchInv, FetchBelongs, Keep
    <2> QED
      BY <2>1, <2>2, IdleIsTyped DEF FetchInv, FetchTypeOK, Keep
  <1>2. FetchBelongs'
    BY NothingInWork DEF Keep
  <1>3. ASSUME NEW p \in Pages, kept'[p] # NoItem
        PROVE  Belongs(kept[p], p)'
    <2>1. sameDomain' = sameDomain /\ DOMAIN kept = Pages
      BY DEF Keep, FetchInv, FetchTypeOK
    <2>2. kept' = [kept EXCEPT ![item.canonical] = item]
      BY DEF Keep
    <2>3. CASE p = item.canonical
      <3>1. kept'[p] = item
        BY <2>1, <2>2, <2>3
      <3>2. Belongs(item, p)
        BY <2>3
      <3> QED
        BY <2>1, <3>1, <3>2 DEF Belongs, ScopeOf
    <2>4. CASE p # item.canonical
      <3>1. kept'[p] = kept[p]
        BY <2>1, <2>2, <2>4
      <3>2. Belongs(kept[p], p)
        BY <1>3, <3>1 DEF FetchInv
      <3> QED
        BY <2>1, <3>1, <3>2 DEF Belongs, ScopeOf
    <2> QED
      BY <2>3, <2>4
  <1> QED
    BY <1>1, <1>2, <1>3 DEF FetchInv

LEMMA TakeFromQueueStep ==
  ASSUME FetchInv, TakeFromQueue
  PROVE  FetchInv'
  <1> DEFINE taken == Head(queue)
  <1>0. queue \in Seq(Taken) /\ queue # <<>>
    BY DEF FetchInv, FetchTypeOK, TakeFromQueue
  <1>1. taken \in Taken /\ Tail(queue) \in Seq(Taken)
    BY <1>0
  <1>2. taken.page \in Pages /\ taken.seed \in Pages /\ taken.depth \in Nat
    BY <1>1 DEF Taken
  <1>3. /\ queue' = Tail(queue)
        /\ fetch.at = "idle"
        /\ UNCHANGED <<sameDomain, requested, kept>>
        /\ \/ fetch' = fetch
           \/ fetch' = [Idle EXCEPT !.at = "taken", !.asked = taken.page, !.page = taken.page,
                                    !.depth = taken.depth, !.seed = taken.seed]
    BY DEF TakeFromQueue
  <1> HIDE DEF taken
  <1>4. FetchTypeOK'
    <2>1. CASE fetch' = fetch
      BY <1>1, <1>3, <2>1 DEF FetchInv, FetchTypeOK
    <2>2. CASE fetch' = [Idle EXCEPT !.at = "taken", !.asked = taken.page, !.page = taken.page,
                                     !.depth = taken.depth, !.seed = taken.seed]
      BY <1>1, <1>2, <1>3, <2>2 DEF FetchInv, FetchTypeOK, Idle
    <2> QED
      BY <1>3, <2>1, <2>2
  <1>5. FetchBelongs'
    <2>0. requested = <<>> /\ MaxSize \in Nat
      BY <1>3, FetchAssumption DEF FetchInv, FetchBelongs
    <2>1. CASE fetch' = fetch
      BY <1>3, <2>0, <2>1 DEF FetchInv, FetchBelongs, Stops
    <2>2. CASE fetch' = [Idle EXCEPT !.at = "taken", !.asked = taken.page, !.page = taken.page,
                                     !.depth = taken.depth, !.seed = taken.seed]
      BY <1>2, <1>3, <2>0, <2>2 DEF FetchBelongs, Idle, Stops
    <2> QED
      BY <1>3, <2>1, <2>2
  <1> QED
    BY <1>3, <1>4, <1>5, KeptStays DEF FetchInv

(* What is made of a report, asked for at one page and found at another.   *)
LEMMA ReportBelongs ==
  ASSUME NEW asked \in Pages, NEW final \in Pages,
         InScope(final, SeedHosts), InScope(final, ScopeOf(asked))
  PROVE  LET item == ExtractPdf(asked, final, IsOfficial(final))
         IN  item.canonical = final /\ item.links \subseteq Pages /\ Belongs(item, final)
  <1> DEFINE official == IsOfficial(final)
             type == ContentType(AddressSays[final] \cup {"pdf"}, official)
             item == ExtractPdf(asked, final, official)
  <1>1. official \in BOOLEAN
    BY DEF IsOfficial, SameDomain
  <1>2. type \in {"official_blog", "official_news", "company_homepage"} => official
    BY <1>1, OwnTypesAreOfficial
  <1>3. /\ item.page = final /\ item.asked = asked /\ item.canonical = final
        /\ item.type = type /\ item.size = 0 /\ item.text = "none" /\ item.links = {}
    BY DEF ExtractPdf, NoItem
  <1>4. MaxSize \in Nat
    BY FetchAssumption
  <1> HIDE DEF type, item
  <1>5. Belongs(item, final)
    BY <1>2, <1>3, <1>4 DEF Belongs
  <1> QED
    BY <1>3, <1>5 DEF item

LEMMA KeepReportUnreadStep ==
  ASSUME FetchInv, KeepReportUnread
  PROVE  FetchInv'
  <1> DEFINE item == ExtractPdf(fetch.asked, fetch.asked, IsOfficial(fetch.asked))
  <1>1. fetch.at = "taken" /\ fetch.asked \in Pages /\ InScope(fetch.asked, SeedHosts)
    BY DEF KeepReportUnread, MayRequest, FetchInv, FetchBelongs
  <1>2. item.canonical = fetch.asked /\ item.links \subseteq Pages /\ Belongs(item, fetch.asked)
    BY <1>1, AskedIsInScope, ReportBelongs
  <1>3. Keep(item, fetch)
    BY DEF KeepReportUnread
  <1> HIDE DEF item
  <1> QED
    BY <1>1, <1>2, <1>3, KeepStep

LEMMA KeepPdfStep ==
  ASSUME FetchInv, KeepPdf
  PROVE  FetchInv'
  <1> DEFINE item == ExtractPdf(fetch.asked, fetch.page, IsOfficial(fetch.page))
  <1>1. /\ fetch.at = "whole" /\ fetch.asked \in Pages /\ fetch.page \in Pages
        /\ InScope(fetch.page, SeedHosts) /\ InScope(fetch.page, ScopeOf(fetch.asked))
    BY ScopeIsNarrower DEF KeepPdf, FetchInv, FetchBelongs, Stops
  <1>2. item.canonical = fetch.page /\ item.links \subseteq Pages /\ Belongs(item, fetch.page)
    BY <1>1, ReportBelongs
  <1>3. Keep(item, fetch)
    BY DEF KeepPdf, OfficialSource
  <1> HIDE DEF item
  <1> QED
    BY <1>1, <1>2, <1>3, KeepStep

LEMMA ServeFromStoreStep ==
  ASSUME FetchInv, ServeFromStore
  PROVE  FetchInv'
  <1>1. fetch.at = "taken" /\ fetch.asked \in Pages /\ fetch.seed \in Pages /\ requested = <<>>
    BY DEF ServeFromStore, MayRequest, FetchInv, FetchBelongs
  <1>2. kept[fetch.asked].links \subseteq Pages
    BY <1>1 DEF ServeFromStore, FetchInv, Belongs
  <1>3. queue' \in Seq(Taken)
    BY <1>1, <1>2, FollowedLinks DEF ServeFromStore, FetchInv
  <1>4. /\ fetch' = Idle /\ requested' = <<>>
        /\ UNCHANGED <<sameDomain, requested, kept>>
    BY <1>1 DEF ServeFromStore
  <1>5. FetchTypeOK'
    BY <1>3, <1>4, IdleIsTyped DEF FetchInv, FetchTypeOK
  <1> QED
    BY <1>4, <1>5, NothingInWork, KeptStays DEF FetchInv

LEMMA StartRequestStep ==
  ASSUME FetchInv, StartRequest
  PROVE  FetchInv'
  <1>1. /\ fetch.at = "taken" /\ fetch.asked \in Pages /\ fetch.page \in Pages /\ fetch.seed \in Pages
        /\ requested = <<>> /\ InScope(fetch.asked, SeedHosts) /\ fetch.hops = 0
    BY DEF StartRequest, MayRequest, FetchInv, FetchBelongs
  <1>2. /\ fetch' = [fetch EXCEPT !.at = "check", !.scope = ScopeOf(fetch.asked)]
        /\ UNCHANGED <<queue, sameDomain, requested, kept>>
    BY DEF StartRequest, ScopeOf
  <1>3. ScopeOf(fetch.asked) \subseteq {HostOf[p] : p \in Pages}
    <2>1. \A n \in DOMAIN Seeds : Seeds[n] \in Pages
      BY FetchAssumption
    <2> QED
      BY <1>1, <2>1 DEF ScopeOf, SeedHosts
  <1>4. FetchTypeOK'
    BY <1>2, <1>3 DEF FetchInv, FetchTypeOK, Stops
  <1>5. FetchBelongs'
    <2>1. MaxRedirects \in Nat
      BY FetchAssumption
    <2>2. /\ fetch'.at = "check" /\ fetch'.scope = ScopeOf(fetch.asked) /\ fetch'.asked = fetch.asked
          /\ fetch'.page = fetch.page /\ fetch'.seed = fetch.seed /\ fetch'.hops = 0
          /\ fetch'.size = fetch.size
      BY <1>1, <1>2 DEF FetchInv, FetchTypeOK
    <2>3. requested' = <<>> /\ fetch.size <= MaxSize /\ sameDomain' = sameDomain
      BY <1>1, <1>2 DEF FetchInv, FetchBelongs
    <2> QED
      BY <1>1, <2>1, <2>2, <2>3 DEF FetchBelongs, Stops, ScopeOf
  <1> QED
    BY <1>2, <1>4, <1>5, KeptStays DEF FetchInv

(* A step of the request in work that changes nothing but how far it is.   *)
LEMMA SameRequestStep ==
  ASSUME FetchInv, fetch.at \in {"sent", "body"},
         NEW at \in {"body", "whole"}, NEW kind \in {"none", "text", "other", "pdf"}, NEW size \in 0..MaxSize,
         fetch' = [fetch EXCEPT !.at = at, !.kind = kind, !.size = size],
         UNCHANGED <<queue, sameDomain, requested, kept>>
  PROVE  FetchInv'
  <1>0. size \in Nat /\ size <= MaxSize
    BY FetchAssumption
  <1>1. FetchTypeOK'
    <2>1. fetch' \in [at: {"idle", "taken"} \cup Stops, asked: Pages \cup {NoPage}, page: Pages \cup {NoPage},
                      depth: Nat, seed: Pages \cup {NoPage}, scope: SUBSET ({HostOf[p] : p \in Pages}),
                      hops: Nat, kind: {"none", "text", "other", "pdf"}, size: Nat]
      BY <1>0 DEF FetchInv, FetchTypeOK, Stops
    <2> QED
      BY <2>1 DEF FetchInv, FetchTypeOK
  <1>2. FetchBelongs'
    <2>1. /\ fetch'.at = at /\ fetch'.size = size /\ fetch'.asked = fetch.asked /\ fetch'.page = fetch.page
          /\ fetch'.seed = fetch.seed /\ fetch'.scope = fetch.scope /\ fetch'.hops = fetch.hops
      BY DEF FetchInv, FetchTypeOK
    <2>2. /\ fetch.asked \in Pages /\ fetch.page \in Pages /\ fetch.seed \in Pages
          /\ fetch.scope = ScopeOf(fetch.asked) /\ InScope(fetch.asked, SeedHosts)
          /\ fetch.hops <= MaxRedirects /\ Len(requested) = fetch.hops + 1
          /\ InScope(fetch.page, ScopeOf(fetch.asked))
          /\ \A i \in 1..Len(requested) : InScope(requested[i], ScopeOf(fetch.asked))
      BY DEF FetchInv, FetchBelongs, Stops
    <2> QED
      BY <1>0, <2>1, <2>2 DEF FetchBelongs, Stops, ScopeOf
  <1> QED
    BY <1>1, <1>2, KeptStays DEF FetchInv

LEMMA SendRequestStep ==
  ASSUME FetchInv, SendRequest
  PROVE  FetchInv'
  <1>1. PICK lookup \in Lookups :
          IF Valid(fetch.page, fetch.scope, lookup)
          THEN /\ requested' = Append(requested, fetch.page)
               /\ fetch' = [fetch EXCEPT !.at = "sent"]
               /\ FetchGoesOn
          ELSE Skip("unsafe_url")
    BY DEF SendRequest
  <1>2. CASE ~Valid(fetch.page, fetch.scope, lookup)
    BY <1>1, <1>2, SkipStep
  <1>3. CASE Valid(fetch.page, fetch.scope, lookup)
    <2>1. /\ requested' = Append(requested, fetch.page) /\ fetch' = [fetch EXCEPT !.at = "sent"]
          /\ UNCHANGED <<queue, sameDomain, kept>>
      BY <1>1, <1>3 DEF FetchGoesOn
    <2>2. /\ fetch.at = "check" /\ fetch.asked \in Pages /\ fetch.page \in Pages /\ fetch.seed \in Pages
          /\ InScope(fetch.page, ScopeOf(fetch.asked))
      BY <1>3 DEF Valid, SendRequest, FetchInv, FetchBelongs, Stops
    <2>3. requested \in Seq(Pages)
      BY DEF FetchInv, FetchTypeOK
    <2>4. FetchTypeOK'
      <3> DEFINE Work == [at: {"idle", "taken"} \cup Stops, asked: Pages \cup {NoPage}, page: Pages \cup {NoPage},
                          depth: Nat, seed: Pages \cup {NoPage}, scope: SUBSET ({HostOf[p] : p \in Pages}),
                          hops: Nat, kind: {"none", "text", "other", "pdf"}, size: Nat]
      <3>1. FetchTypeOK /\ fetch \in Work
        BY DEF FetchInv, FetchTypeOK
      <3>2. fetch' \in Work
        <4>1. "sent" \in {"idle", "taken"} \cup Stops
          BY DEF Stops
        <4> QED
          BY ONLY <2>1, <3>1, <4>1
      <3>3. requested' \in Seq(Pages)
        BY ONLY <2>1, <2>2, <2>3
      <3> QED
        BY <2>1, <3>1, <3>2, <3>3 DEF FetchTypeOK
    <2>5. FetchBelongs'
      <3>1. /\ fetch'.at = "sent" /\ fetch'.size = fetch.size /\ fetch'.asked = fetch.asked
            /\ fetch'.page = fetch.page /\ fetch'.seed = fetch.seed /\ fetch'.scope = fetch.scope
            /\ fetch'.hops = fetch.hops
        BY <2>1 DEF FetchInv, FetchTypeOK
      <3>2. Len(requested) = fetch.hops /\ fetch.hops \in Nat
        BY <2>2 DEF FetchInv, FetchTypeOK, FetchBelongs, Stops
      <3>3. /\ Len(requested') = Len(requested) + 1
            /\ \A i \in 1..Len(requested') :
                 requested'[i] = IF i <= Len(requested) THEN requested[i] ELSE fetch.page
        BY <2>1, <2>2, <2>3
      <3>4. \A i \in 1..Len(requested') : InScope(requested'[i], ScopeOf(fetch.asked))
        <4>1. \A i \in 1..Len(requested) : InScope(requested[i], ScopeOf(fetch.asked))
          BY DEF FetchInv, FetchBelongs
        <4> QED
          BY <2>2, <3>3, <4>1
      <3> QED
        BY <2>1, <2>2, <3>1, <3>2, <3>3, <3>4 DEF FetchInv, FetchBelongs, Stops, ScopeOf
    <2> QED
      BY <2>1, <2>4, <2>5, KeptStays DEF FetchInv
  <1> QED
    BY <1>2, <1>3

LEMMA FollowRedirectStep ==
  ASSUME FetchInv, NEW p \in Pages, FollowRedirect(p)
  PROVE  FetchInv'
  <1>1. PICK lookup \in Lookups :
          IF fetch.hops < MaxRedirects /\ Valid(p, fetch.scope, lookup)
          THEN /\ fetch' = [fetch EXCEPT !.at = "check", !.page = p, !.hops = @ + 1]
               /\ UNCHANGED requested /\ FetchGoesOn
          ELSE Skip("unsafe_url")
    BY DEF FollowRedirect
  <1>2. CASE ~(fetch.hops < MaxRedirects /\ Valid(p, fetch.scope, lookup))
    BY <1>1, <1>2, SkipStep
  <1>3. CASE fetch.hops < MaxRedirects /\ Valid(p, fetch.scope, lookup)
    <2>1. /\ fetch' = [fetch EXCEPT !.at = "check", !.page = p, !.hops = @ + 1]
          /\ UNCHANGED <<requested, queue, sameDomain, kept>>
      BY <1>1, <1>3 DEF FetchGoesOn
    <2>2. /\ fetch.at = "sent" /\ fetch.asked \in Pages /\ fetch.seed \in Pages
          /\ fetch.hops \in Nat /\ MaxRedirects \in Nat
      BY FetchAssumption DEF FollowRedirect, FetchInv, FetchBelongs, FetchTypeOK
    <2>3. FetchTypeOK'
      <3>1. fetch.hops + 1 \in Nat
        BY <2>2
      <3>2. fetch' \in [at: {"idle", "taken"} \cup Stops, asked: Pages \cup {NoPage}, page: Pages \cup {NoPage},
                        depth: Nat, seed: Pages \cup {NoPage}, scope: SUBSET ({HostOf[q] : q \in Pages}),
                        hops: Nat, kind: {"none", "text", "other", "pdf"}, size: Nat]
        BY <2>1, <3>1 DEF FetchInv, FetchTypeOK, Stops
      <3> QED
        BY <2>1, <3>2 DEF FetchInv, FetchTypeOK
    <2>4. FetchBelongs'
      <3>1. /\ fetch'.at = "check" /\ fetch'.size = fetch.size /\ fetch'.asked = fetch.asked
            /\ fetch'.page = p /\ fetch'.seed = fetch.seed /\ fetch'.scope = fetch.scope
            /\ fetch'.hops = fetch.hops + 1
        BY <2>1 DEF FetchInv, FetchTypeOK
      <3>2. /\ fetch.scope = ScopeOf(fetch.asked) /\ InScope(fetch.asked, SeedHosts)
            /\ Len(requested) = fetch.hops + 1 /\ fetch.size <= MaxSize
            /\ \A i \in 1..Len(requested) : InScope(requested[i], ScopeOf(fetch.asked))
        BY <2>2 DEF FetchInv, FetchBelongs, Stops
      <3>3. fetch.hops + 1 <= MaxRedirects
        BY <1>3, <2>2
      <3> QED
        BY <2>1, <2>2, <3>1, <3>2, <3>3 DEF FetchBelongs, Stops, ScopeOf
    <2> QED
      BY <2>1, <2>3, <2>4, KeptStays DEF FetchInv
  <1> QED
    BY <1>2, <1>3

LEMMA BodyStep ==
  ASSUME FetchInv, AcceptBody \/ AcceptPdf \/ ReadChunk \/ EndBody
  PROVE  FetchInv'
  <1>1. /\ fetch.size \in 0..MaxSize /\ MaxSize \in Nat
        /\ fetch.kind \in {"none", "text", "other", "pdf"}
    BY FetchAssumption DEF FetchInv, FetchTypeOK, FetchBelongs
  <1> DEFINE Onwards(at, kind, size) ==
               /\ fetch' = [fetch EXCEPT !.at = at, !.kind = kind, !.size = size]
               /\ UNCHANGED <<queue, sameDomain, requested, kept>>
  <1>2. CASE AcceptBody
    <2>1. PICK kind \in {"text", "other"} : fetch' = [fetch EXCEPT !.at = "body", !.kind = kind]
      BY <1>2 DEF AcceptBody
    <2>2. fetch' = [fetch EXCEPT !.at = "body", !.kind = kind, !.size = fetch.size]
      BY <2>1 DEF FetchInv, FetchTypeOK
    <2>3. fetch.at = "sent" /\ UNCHANGED <<queue, sameDomain, requested, kept>>
      BY <1>2 DEF AcceptBody, FetchGoesOn
    <2> QED
      BY <1>1, <2>2, <2>3, SameRequestStep
  <1>3. CASE AcceptPdf
    <2>2. fetch' = [fetch EXCEPT !.at = "whole", !.kind = "pdf", !.size = fetch.size]
      BY <1>3 DEF AcceptPdf, FetchInv, FetchTypeOK
    <2>3. fetch.at = "sent" /\ UNCHANGED <<queue, sameDomain, requested, kept>>
      BY <1>3 DEF AcceptPdf, FetchGoesOn
    <2> QED
      BY <1>1, <2>2, <2>3, SameRequestStep
  <1>4. CASE ReadChunk
    <2>1. CASE fetch.size + 1 > MaxSize
      BY <1>4, <2>1, SkipStep DEF ReadChunk
    <2>2. CASE ~(fetch.size + 1 > MaxSize)
      <3>1. /\ fetch.at = "body" /\ UNCHANGED <<queue, sameDomain, requested, kept>>
            /\ fetch' = [fetch EXCEPT !.size = @ + 1]
        BY <1>4, <2>2 DEF ReadChunk, FetchGoesOn
      <3>2. fetch' = [fetch EXCEPT !.at = "body", !.kind = fetch.kind, !.size = fetch.size + 1]
        BY <3>1 DEF FetchInv, FetchTypeOK
      <3>3. fetch.size + 1 \in 0..MaxSize
        BY <1>1, <2>2
      <3> QED
        BY <1>1, <3>1, <3>2, <3>3, SameRequestStep
    <2> QED
      BY <2>1, <2>2
  <1>5. CASE EndBody
    <2>2. fetch' = [fetch EXCEPT !.at = "whole", !.kind = fetch.kind, !.size = fetch.size]
      BY <1>5 DEF EndBody, FetchInv, FetchTypeOK
    <2>3. fetch.at = "body" /\ UNCHANGED <<queue, sameDomain, requested, kept>>
      BY <1>5 DEF EndBody, FetchGoesOn
    <2> QED
      BY <1>1, <2>2, <2>3, SameRequestStep
  <1> QED
    BY <1>2, <1>3, <1>4, <1>5

(* What a step that gives the page up does.                                *)
LEMMA GivenUpStep ==
  ASSUME FetchInv,
         Refuse \/ LoseConnection \/ RejectPeer \/ RejectStatus \/ RejectDeclaredSize
           \/ RejectFinalAddress \/ SkipOtherContent
  PROVE  FetchInv'
  <1>1. \E type \in {"skipped", "robots_blocked", "network_timeout", "network_error", "unsafe_url",
                      "http_error", "response_too_large", "unsafe_redirect"} : Skip(type)
    BY DEF Refuse, LoseConnection, RejectPeer, RejectStatus, RejectDeclaredSize, RejectFinalAddress,
           SkipOtherContent
  <1> QED
    BY <1>1, SkipStep

(* What is made of a page's text belongs under its canonical page, and     *)
(* under its own.                                                          *)
LEMMA TextBelongs ==
  ASSUME NEW asked \in Pages, NEW final \in Pages, NEW document \in Documents, NEW size \in 0..MaxSize,
         InScope(final, ScopeOf(asked)), NEW p, InScope(p, SeedHosts)
  PROVE  LET item == Extract(document, asked, final, IsOfficial(final), size)
         IN  Belongs(item, p) /\ Belongs([item EXCEPT !.canonical = final], p)
  <1> DEFINE official == IsOfficial(final)
             type == ContentType(AddressSays[final] \cup document.says, official)
             snippet == SnippetFrom(document.parts)
             item == Extract(document, asked, final, official, size)
             moved == [item EXCEPT !.canonical = final]
             links == LinksOf(document)
  <1>1. official \in BOOLEAN
    BY DEF IsOfficial, SameDomain
  <1>2. type \in {"official_blog", "official_news", "company_homepage"} => official
    BY <1>1, OwnTypesAreOfficial
  <1>3. snippet # "full text"
    BY SnippetIsShort
  <1>4. links \subseteq Pages
    BY LinksArePages
  <1>5. /\ item.page = final /\ item.asked = asked /\ item.type = type /\ item.size = size
        /\ item.text = "full text" => official
        /\ item.display # "metadata_only" /\ item.links = links
    <2>1. item.text = IF ~official THEN snippet ELSE IF "text" \in document.parts THEN "full text" ELSE "none"
      BY DEF Extract
    <2>2. item.display = IF official THEN "full_cleaned_text" ELSE "excerpt_only"
      BY DEF Extract
    <2>3. /\ item.page = final /\ item.asked = asked /\ item.type = type /\ item.size = size
          /\ item.links = links
      BY DEF Extract
    <2> HIDE DEF item, type, snippet, links, official
    <2> QED
      BY <1>3, <2>1, <2>2, <2>3
  <1>6. /\ moved.page = item.page /\ moved.asked = item.asked /\ moved.type = item.type
        /\ moved.size = item.size /\ moved.text = item.text /\ moved.display = item.display
        /\ moved.links = item.links
    BY DEF Extract
  <1>7. size <= MaxSize
    BY FetchAssumption
  <1> HIDE DEF type, snippet, item, moved, links
  <1> QED
    BY <1>2, <1>4, <1>5, <1>6, <1>7 DEF Belongs, item, moved

LEMMA KeepTextStep ==
  ASSUME FetchInv, KeepText
  PROVE  FetchInv'
  <1>1. PICK document \in Documents, lookup \in Lookups :
          LET item == Extract(document, fetch.asked, fetch.page, OfficialSource, fetch.size)
          IN  Keep(IF Valid(item.canonical, SeedHosts, lookup) THEN item
                   ELSE [item EXCEPT !.canonical = fetch.page], fetch)
    BY DEF KeepText
  <1> DEFINE found == Extract(document, fetch.asked, fetch.page, IsOfficial(fetch.page), fetch.size)
             moved == [found EXCEPT !.canonical = fetch.page]
             item == IF Valid(found.canonical, SeedHosts, lookup) THEN found ELSE moved
  <1>2. Keep(item, fetch)
    BY <1>1 DEF OfficialSource
  <1>3. /\ fetch.at = "whole" /\ fetch.asked \in Pages /\ fetch.page \in Pages
        /\ fetch.size \in 0..MaxSize
        /\ InScope(fetch.page, SeedHosts) /\ InScope(fetch.page, ScopeOf(fetch.asked))
    BY ScopeIsNarrower, FetchAssumption DEF KeepText, FetchInv, FetchBelongs, FetchTypeOK, Stops
  <1>4. moved.canonical = fetch.page /\ found.links = LinksOf(document) /\ moved.links = LinksOf(document)
    BY DEF Extract
  <1>5. \A p : InScope(p, SeedHosts) => Belongs(found, p) /\ Belongs(moved, p)
    BY <1>3, TextBelongs
  <1> HIDE DEF found, moved
  <1>6. Belongs(item, item.canonical)
    <2>1. CASE Valid(found.canonical, SeedHosts, lookup)
      BY <1>5, <2>1 DEF Valid
    <2>2. CASE ~Valid(found.canonical, SeedHosts, lookup)
      BY <1>3, <1>4, <1>5, <2>2
    <2> QED
      BY <2>1, <2>2
  <1>7. item.links \subseteq Pages
    BY <1>4, LinksArePages
  <1> HIDE DEF item
  <1> QED
    BY <1>2, <1>3, <1>6, <1>7, KeepStep

LEMMA FetchStep == FetchInv /\ [FetchNext]_fetchVars => FetchInv'
  <1> SUFFICES ASSUME FetchInv, [FetchNext]_fetchVars
               PROVE  FetchInv'
    OBVIOUS
  <1>1. CASE UNCHANGED fetchVars
    <2>1. UNCHANGED <<queue, sameDomain, fetch, requested, kept>>
      BY <1>1 DEF fetchVars
    <2>2. FetchTypeOK'
      BY <2>1 DEF FetchInv, FetchTypeOK
    <2>3. FetchBelongs'
      BY <2>1 DEF FetchInv, FetchBelongs, ScopeOf
    <2> QED
      BY <2>1, <2>2, <2>3, KeptStays DEF FetchInv
  <1>2. CASE FetchNext
    BY <1>2, TakeFromQueueStep, GivenUpStep, KeepReportUnreadStep, ServeFromStoreStep, StartRequestStep,
       SendRequestStep, FollowRedirectStep, BodyStep, KeepPdfStep, KeepTextStep DEF FetchNext
  <1> QED
    BY <1>1, <1>2

(* The inductive invariant of a crawl: what the fetch in work has asked,   *)
(* and what every kept item may be.                                        *)
THEOREM FetchInvariant == FetchSpec => []FetchInv
  BY InitFetchInv, FetchStep, PTL DEF FetchSpec

(* Whatever the web answers, for every scope, limit and seed list: a crawl *)
(* asks and keeps only pages of its scope, keeps no more of a page than    *)
(* the limit, and the full text only of the company's own pages.           *)
THEOREM FetchKeepsWhatBelongs == FetchSpec => []KeptPagesBelong
  <1>1. FetchInv => KeptPagesBelong
    <2> SUFFICES ASSUME FetchInv
                 PROVE  KeptPagesBelong
      OBVIOUS
    <2>1. requested \in Seq(Pages) /\ DOMAIN requested = 1..Len(requested)
      BY DEF FetchInv, FetchTypeOK
    <2>2. Len(requested) <= MaxRedirects + 1
      <3>1. CASE fetch.at \in {"idle", "taken"}
        BY <3>1, FetchAssumption DEF FetchInv, FetchBelongs
      <3>2. CASE fetch.at \in Stops
        BY <3>2, FetchAssumption DEF FetchInv, FetchBelongs, FetchTypeOK, Stops
      <3> QED
        BY <3>1, <3>2 DEF FetchInv, FetchTypeOK
    <2>3. \A i \in DOMAIN requested :
            InScope(requested[i], IF sameDomain THEN {HostOf[fetch.asked]} ELSE SeedHosts)
      BY <2>1 DEF FetchInv, FetchBelongs, ScopeOf
    <2> QED
      BY <2>2, <2>3 DEF KeptPagesBelong, FetchInv, Belongs, ScopeOf
  <1> QED
    BY <1>1, FetchInvariant, PTL
=============================================================================
