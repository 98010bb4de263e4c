---------------------------- MODULE CrawlRuntime ----------------------------
(***************************************************************************)
(* The optional crawlergo runtime (public_api/crawlergo_runtime.py): where *)
(* its files are found, and the diagnostic that starts the two programs    *)
(* while another thread may ask for all processes to be ended.             *)
(***************************************************************************)
EXTENDS Naturals, Sequences, FiniteSets, SequencesExt

CONSTANT Tests   \* threads that run the diagnostic of one manager

Programs == {"crawlergo", "chrome"}

(* The files discover looks for. *)
RuntimeFiles == {"bundled crawlergo", "bundled chrome", "licence papers", "system crawlergo",
                 "system chrome", "external crawlergo", "external chrome"}

VARIABLES
    installed,   \* the files that exist
    test,        \* the threads: where they are, with which program, and the result
    process,     \* the processes each has started
    known,       \* _processes
    stop         \* the thread in terminate_all: its list, and where it is

runtimeVars == <<installed, test, process, known, stop>>

-----------------------------------------------------------------------------

Status(mode, chrome) ==
    [mode |-> mode, chrome |-> chrome, state |-> IF chrome THEN "enabled" ELSE "dependency_missing"]

(* Bundled files come before those of the system and those of the          *)
(* settings; the bundled program needs its licence papers.                 *)
Discover(files) ==
    LET anyChrome == {"system chrome", "external chrome"} \cap files # {} IN
    CASE "bundled crawlergo" \in files /\ "licence papers" \notin files ->
           [mode |-> "bundled", chrome |-> "bundled chrome" \in files, state |-> "dependency_error"]
      [] "bundled crawlergo" \in files /\ "licence papers" \in files ->
           Status("bundled", "bundled chrome" \in files)
      [] "bundled crawlergo" \notin files /\ "system crawlergo" \in files ->
           Status("system", "system chrome" \in files)
      [] files \cap {"bundled crawlergo", "system crawlergo"} = {} /\ "external crawlergo" \in files ->
           Status("external", anyChrome)
      [] OTHER -> [mode |-> "optional_external", chrome |-> anyChrome, state |-> "dependency_missing"]

NoTest == [at |-> "idle", program |-> "none", code |-> "none", result |-> "none"]

NoStop == [at |-> "idle", list |-> {}]

RuntimeInit ==
    /\ installed \in SUBSET RuntimeFiles
    /\ test = [t \in Tests |-> NoTest]
    /\ process = [t \in Tests |-> [p \in Programs |-> "none"]]
    /\ known = {}
    /\ stop = NoStop

Alive(t, p) == process[t][p] \in {"running", "stopping"}

-----------------------------------------------------------------------------
(* test_runtime and _run_diagnostic.                                       *)

StartTest(t) ==
    /\ test[t].at = "idle"
    /\ LET status == Discover(installed) IN
         test' = [test EXCEPT ![t] = IF status.state = "enabled"
                                     THEN [@ EXCEPT !.at = "launch", !.program = "crawlergo"]
                                     ELSE [@ EXCEPT !.at = "over", !.result = status.state]]
    /\ UNCHANGED <<installed, process, known, stop>>

Launch(t) ==
    /\ test[t].at = "launch"
    /\ \/ /\ test' = [test EXCEPT ![t].at = "read", ![t].code = "failed"]
          /\ UNCHANGED process
       \/ /\ process' = [process EXCEPT ![t][test[t].program] = "running"]
          /\ test' = [test EXCEPT ![t].at = "launched"]
    /\ UNCHANGED <<installed, known, stop>>

Register(t) ==
    /\ test[t].at = "launched"
    /\ known' = known \cup {<<t, test[t].program>>}
    /\ test' = [test EXCEPT ![t].at = "waits"]
    /\ UNCHANGED <<installed, process, stop>>

(* The process ends by itself or because it was told to. *)
End(t, p) ==
    /\ Alive(t, p)
    /\ process' = [process EXCEPT ![t][p] = "ended"]
    /\ UNCHANGED <<installed, test, known, stop>>

(* communicate returns: an ended program answers, or counts as failed      *)
(* after it was told to end; what its code is then depends on the system.  *)
Reads(t) ==
    /\ test[t].at \in {"waits", "told", "killed"}
    /\ process[t][test[t].program] = "ended"
    /\ \E code \in IF test[t].at = "waits" THEN {"answered", "failed"} ELSE {"failed"} :
         test' = [test EXCEPT ![t].at = "read", ![t].code = code]
    /\ known' = known \ {<<t, test[t].program>>}
    /\ UNCHANGED <<installed, process, stop>>

(* No answer in time; a process that ended may have left its pipes to      *)
(* another one.                                                            *)
TellToEnd(t) ==
    /\ test[t].at = "waits"
    /\ test' = [test EXCEPT ![t].at = "told"]
    /\ process' = [process EXCEPT ![t][test[t].program] = IF @ = "running" THEN "stopping" ELSE @]
    /\ UNCHANGED <<installed, known, stop>>

(* Mutant: a program that does not end when told to is left alone.         *)
GiveUp(t) ==
    /\ test[t].at = "told"
    /\ test' = [test EXCEPT ![t].at = "read", ![t].code = "failed"]
    /\ known' = known \ {<<t, test[t].program>>}
    /\ UNCHANGED <<installed, process, stop>>

Kill(t) ==
    /\ test[t].at = "told"
    /\ test' = [test EXCEPT ![t].at = "killed"]
    /\ process' = [process EXCEPT ![t][test[t].program] = "ended"]
    /\ UNCHANGED <<installed, known, stop>>

(* The pipes are still held two seconds later: TimeoutExpired leaves the   *)
(* diagnostic.                                                             *)
HeldPipes(t) ==
    /\ test[t].at = "killed"
    /\ test' = [test EXCEPT ![t].at = "over", ![t].result = "raised"]
    /\ known' = known \ {<<t, test[t].program>>}
    /\ UNCHANGED <<installed, process, stop>>

NextProgram(t) ==
    /\ test[t].at = "read"
    /\ LET was == test[t] IN
         test' = [test EXCEPT ![t] =
                    IF was.program = "crawlergo" /\ was.code = "answered"
                    THEN [was EXCEPT !.at = "launch", !.program = "chrome", !.code = "none"]
                    ELSE [was EXCEPT !.at = "over",
                                     !.result = IF was.program = "chrome" THEN "enabled"
                                                ELSE "dependency_error"]]
    /\ UNCHANGED <<installed, process, known, stop>>

-----------------------------------------------------------------------------
(* terminate_all, of the processes it finds at its start.                  *)

StartStop ==
    /\ stop.at = "idle"
    /\ stop' = [at |-> "ending", list |-> known]
    /\ UNCHANGED <<installed, test, process, known>>

(* Told to end and waited for, or killed after two seconds. *)
EndProcess(t, p) ==
    /\ stop.at = "ending" /\ <<t, p>> \in stop.list
    /\ Alive(t, p)
    /\ process' = [process EXCEPT ![t][p] = "ended"]
    /\ UNCHANGED <<installed, test, known, stop>>

(* The whole set is cleared, with what was registered since. *)
FinishStop ==
    /\ stop.at = "ending"
    /\ \A entry \in stop.list : ~Alive(entry[1], entry[2])
    /\ known' = {}
    /\ stop' = [stop EXCEPT !.at = "over"]
    /\ UNCHANGED <<installed, test, process>>

RuntimeNext ==
    \/ \E t \in Tests : \/ StartTest(t) \/ Launch(t) \/ Register(t) \/ Reads(t) \/ TellToEnd(t)
                        \/ Kill(t) \/ HeldPipes(t) \/ NextProgram(t)
                        \/ \E p \in Programs : End(t, p) \/ EndProcess(t, p)
    \/ StartStop \/ FinishStop

RuntimeSpec == RuntimeInit /\ [][RuntimeNext]_runtimeVars

-----------------------------------------------------------------------------

(* However a diagnostic ends, with its answer, a timeout or an exception,  *)
(* and whoever else ends its processes, it leaves none behind; and chrome  *)
(* is started only after crawlergo answered and ended.                     *)
NoProcessIsLeft ==
    /\ \A t \in Tests : test[t].at \in {"over", "read"} => \A p \in Programs : ~Alive(t, p)
    /\ \A t \in Tests : process[t]["chrome"] # "none" => process[t]["crawlergo"] = "ended"
    /\ \A t \in Tests : test[t].result = "enabled" => Discover(installed).state = "enabled"
    /\ \A entry \in known : test[entry[1]].at # "over"
=============================================================================
