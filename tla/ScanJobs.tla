------------------------------ MODULE ScanJobs -------------------------------
(***************************************************************************)
(* A scan job: the handler of the sandbox server that waits for its report *)
(* (create_scan_job in api/lifecycle.py), the sandbox that writes it       *)
(* (code-interpreter.sh and scanner_orchestrator.py), and the volume they  *)
(* share, which is all they have in common.                                *)
(*                                                                         *)
(* The handler is a coroutine: what it does between two awaits is one      *)
(* step, and it awaits a sleep and then the answer of get_sandbox, which a *)
(* thread of the executor computes.  In the sandbox every scanner is a     *)
(* thread of a pool; nothing reads what a thread records before the pool   *)
(* is done, so a scanner is one step.  The report is opened, which empties *)
(* it, and then written.  The sandbox may die at any time, is killed when  *)
(* it expires, and ends by itself after the scan; on Kubernetes its        *)
(* container is started again then, or its pod made anew, and scans again. *)
(***************************************************************************)
EXTENDS Integers, ScannerOrchestrator

CONSTANTS
  Requests,   \* the files a job may submit, each a set of Files
  Runtimes,   \* of {"docker", "kubernetes"}
  Timeouts,   \* the timeouts a job may ask for
  MaxTime,    \* bound of the clock
  MaxCreate,  \* bound of the time that creating the sandbox takes
  MaxUnusual  \* bound of the scanners that do not end clean and of the faults

ASSUME RequestAssumption == \A files \in Requests : files \subseteq Files
ASSUME TimeAssumption ==
  /\ MaxTime \in Nat /\ MaxCreate \in Nat /\ MaxUnusual \in Nat
  /\ \A t \in Timeouts : t \in Nat \ {0} /\ t + MaxCreate <= MaxTime
ASSUME RuntimeAssumption == Runtimes \subseteq {"docker", "kubernetes"}

VARIABLES
  runtime,  \* what runs the sandboxes
  now,      \* the clock
  step,     \* what the handler does
  timeout,  \* the job's timeout
  deadline, \* until when the handler polls
  wake,     \* when its sleep ends
  seen,     \* the state that get_sandbox answered
  answer,   \* the response's status
  response, \* the report in the response
  files,    \* the files in the workspace
  box,      \* the sandbox
  expiry,   \* when it expires
  scanned,  \* results["files_scanned"]
  running,  \* the scanners whose thread is not done
  scans,    \* results["scans"]
  found,    \* the names that results["findings"] has findings of
  summary,  \* the overall_status of results["summary"]
  report,   \* the report's file
  content,  \* what a whole one says
  unusual   \* how many scanners did not end clean, and how many faults happened

handler == <<step, timeout, deadline, wake, seen, answer, response>>
scanning == <<scanned, running, scans, found, summary>>
volume == <<report, content>>
sandbox == <<box, expiry, scanning, volume>>
vars == <<runtime, now, handler, files, sandbox, unusual>>

States == {"none", "Running", "Terminated", "Failed", "error"}
Answers == {"none", "error", "COMPLETED", "terminated", "timeout"}
Boxes == {"absent", "starting", "scanning", "saving", "exiting", "exited", "failed", "removed"}
Alive == {"starting", "scanning", "saving", "exiting"}
NoScans == [t \in {} |-> "none"]

\* The results, as they are written to the report.
Names == [stem : {"main", "x"}, ext : Extensions, text : Texts, late : BOOLEAN]
Results == [files |-> scanned, scans |-> scans, found |-> found, summary |-> summary]
NoResults == [files |-> {}, scans |-> NoScans, found |-> {}, summary |-> "none"]
ResultsTyped(results) ==
  /\ results.files \subseteq Names
  /\ DOMAIN results.scans \subseteq Tools
  /\ \A t \in DOMAIN results.scans : results.scans[t] \in Statuses
  /\ results.found \subseteq Tools \cup {"golangci-lint"}
  /\ results.summary \in {"none", "RISKS_FOUND", "ERROR", "CLEAN"}

TypeOK ==
  /\ runtime \in Runtimes
  /\ now \in 0..MaxTime
  /\ step \in {"idle", "creating", "polling", "asleep", "asking", "asked", "done"}
  /\ timeout \in {0} \cup Timeouts
  /\ deadline \in 0..MaxTime
  /\ wake \in 0..(MaxTime + 1)
  /\ seen \in States
  /\ answer \in Answers
  /\ ResultsTyped(response)
  /\ files \subseteq Names
  /\ box \in Boxes
  /\ expiry \in 0..MaxTime
  /\ running \subseteq Tools
  /\ ResultsTyped(Results)
  /\ report \in {"none", "partial", "whole"}
  /\ ResultsTyped(content)
  /\ unusual \in 0..MaxUnusual

Init ==
  /\ runtime \in Runtimes
  /\ now = 0
  /\ step = "idle"
  /\ timeout = 0
  /\ deadline = 0
  /\ wake = 0
  /\ seen = "none"
  /\ answer = "none"
  /\ response = NoResults
  /\ files = {}
  /\ box = "absent"
  /\ expiry = 0
  /\ scanned = {}
  /\ running = {}
  /\ scans = NoScans
  /\ found = {}
  /\ summary = "none"
  /\ report = "none"
  /\ content = NoResults
  /\ unusual = 0

Fault == unusual < MaxUnusual /\ unusual' = unusual + 1
Answered(how) == step' = "done" /\ answer' = how /\ UNCHANGED response
Completed == step' = "done" /\ answer' = "COMPLETED" /\ response' = content
Unanswered == UNCHANGED <<answer, response>>
-----------------------------------------------------------------------------
\* create_scan_job until it has created the sandbox: the files are written to
\* the volume, and the sandbox's expiration is set before it starts.
Submit(request, t) ==
  /\ step = "idle"
  /\ timeout' = t
  /\ \E kept \in Kept(request) : files' = {Saved(file) : file \in kept}
  /\ \/ /\ UNCHANGED unusual
        /\ step' = "creating"
        /\ box' = "starting"
        /\ expiry' = now + t
        /\ Unanswered
     \/ Fault /\ Answered("error") /\ UNCHANGED <<box, expiry>>
  /\ UNCHANGED <<runtime, now, deadline, wake, seen, scanning, volume>>

\* The sandbox was created, some time later: the deadline counts from here.
Created ==
  /\ step = "creating"
  /\ step' = "polling"
  /\ deadline' = now + timeout
  /\ UNCHANGED <<runtime, now, timeout, wake, seen, answer, response, files, sandbox, unusual>>

\* A plausible bug: the loop has no deadline.
PollForever ==
  /\ step = "polling"
  /\ IF report = "whole"
       THEN Completed /\ UNCHANGED wake
       ELSE step' = "asleep" /\ wake' = now + 1 /\ Unanswered
  /\ UNCHANGED <<runtime, now, timeout, deadline, seen, files, sandbox, unusual>>

\* The head of the loop and its first part: a report that cannot be read yet
\* is tried again after the sleep; past the deadline the job has failed.
Poll ==
  /\ step = "polling"
  /\ IF now < deadline
       THEN IF report = "whole"
              THEN Completed /\ UNCHANGED wake
              ELSE step' = "asleep" /\ wake' = now + 1 /\ Unanswered
       ELSE Answered("timeout") /\ UNCHANGED wake
  /\ UNCHANGED <<runtime, now, timeout, deadline, seen, files, sandbox, unusual>>

Wake ==
  /\ step = "asleep"
  /\ now >= wake
  /\ step' = "asking"
  /\ UNCHANGED <<runtime, now, timeout, deadline, wake, seen, answer, response, files, sandbox,
                 unusual>>

\* What get_sandbox answers: Docker tells how the container ended, a
\* BatchSandbox is never reported as ended, and a sandbox that is gone is an
\* error.
StateOf ==
  CASE box = "removed" -> "error"
    [] runtime = "docker" /\ box = "exited" -> "Terminated"
    [] runtime = "docker" /\ box = "failed" -> "Failed"
    [] OTHER -> "Running"

\* A thread of the executor asks; the coroutine goes on later.
Ask ==
  /\ step = "asking"
  /\ step' = "asked"
  /\ \/ UNCHANGED unusual /\ seen' = StateOf
     \/ Fault /\ seen' = "error"
  /\ UNCHANGED <<runtime, now, timeout, deadline, wake, answer, response, files, sandbox>>

\* A plausible bug: a terminal state is the end, whatever the volume holds.
ResumeUnchecked ==
  /\ step = "asked"
  /\ IF seen \in {"Terminated", "Failed"}
       THEN Answered("terminated")
       ELSE step' = "polling" /\ Unanswered
  /\ seen' = "none"
  /\ UNCHANGED <<runtime, now, timeout, deadline, wake, files, sandbox, unusual>>

\* A terminal state without a report file is the end of the job; the file is
\* looked for after the state was read.
Resume ==
  /\ step = "asked"
  /\ IF seen \in {"Terminated", "Failed"} /\ report = "none"
       THEN Answered("terminated")
       ELSE step' = "polling" /\ Unanswered
  /\ seen' = "none"
  /\ UNCHANGED <<runtime, now, timeout, deadline, wake, files, sandbox, unusual>>

\* get_scan_report: what a client gets for the job at any time.
GetScanReport == CASE report = "none" -> 404
                   [] report = "partial" -> 500
                   [] report = "whole" -> 200
-----------------------------------------------------------------------------
\* code-interpreter.sh: the scan is skipped when a tool that it looks for is
\* missing.  The links are made after the files were listed, and are among them
\* when the scan runs again.
StartScan ==
  /\ box = "starting"
  /\ \/ /\ UNCHANGED unusual
        /\ box' = "scanning"
        /\ scanned' = files
        /\ running' = Enabled(files)
        /\ files' = files \cup Links(files)
     \/ Fault /\ box' = "exited" /\ UNCHANGED <<scanned, running, files>>
  /\ UNCHANGED <<runtime, now, handler, expiry, scans, found, summary, volume>>

\* A scanner's thread, from the pool of run_all.
RunScanner(tool, outcome) ==
  /\ box = "scanning"
  /\ tool \in running
  /\ running' = running \ {tool}
  /\ IF outcome = "clean" THEN UNCHANGED unusual ELSE Fault
  /\ \E result \in ScanResults(tool, scanned, outcome) :
       /\ scans' = IF result.status = Died THEN scans
                   ELSE [t \in DOMAIN scans \cup {tool} |->
                           IF t = tool THEN result.status ELSE scans[t]]
       /\ found' = found \cup result.names
  /\ UNCHANGED <<runtime, now, handler, files, box, expiry, scanned, summary, volume>>

\* The pool is done: insights, summary, and the report's file is opened.
OpenReport ==
  /\ box = "scanning"
  /\ running = {}
  /\ found' = EnsureInsights(scans, found)
  /\ summary' = Summary(scans)
  /\ \/ /\ UNCHANGED unusual
        /\ box' = "saving"
        /\ report' = "partial"
        /\ content' = NoResults
     \/ Fault /\ box' = "exiting" /\ UNCHANGED volume
  /\ UNCHANGED <<runtime, now, handler, files, expiry, scanned, running, scans>>

WriteReport ==
  /\ box = "saving"
  /\ box' = "exiting"
  /\ \/ UNCHANGED unusual /\ report' = "whole" /\ content' = Results
     \/ Fault /\ UNCHANGED volume
  /\ UNCHANGED <<runtime, now, handler, files, expiry, scanning>>

\* The script ends, and the container with it.
Exit ==
  /\ box = "exiting"
  /\ box' = "exited"
  /\ UNCHANGED <<runtime, now, handler, files, expiry, scanning, volume, unusual>>

\* The container dies, or is killed and removed when it expires.
Die ==
  /\ box \in Alive
  /\ Fault
  /\ box' = "failed"
  /\ UNCHANGED <<runtime, now, handler, files, expiry, scanning, volume>>

\* On Kubernetes the kubelet starts a container again that has ended, unless the
\* server's template has another restartPolicy, and scaleBatchSandbox makes a
\* pod anew that is lost: the script runs from its beginning, on the same
\* volume.
Rerun ==
  /\ runtime = "kubernetes"
  /\ box \in {"exited", "failed"}
  /\ box' = "starting"
  /\ scanned' = {}
  /\ running' = {}
  /\ scans' = NoScans
  /\ found' = {}
  /\ summary' = "none"
  /\ UNCHANGED <<runtime, now, handler, files, expiry, volume, unusual>>

Expire ==
  /\ box \notin {"absent", "removed"}
  /\ now >= expiry
  /\ box' = "removed"
  /\ UNCHANGED <<runtime, now, handler, files, expiry, scanning, volume, unusual>>

Tick ==
  /\ now < (IF step = "creating" THEN MaxCreate ELSE MaxTime)
  /\ step \notin {"idle", "done"}
  /\ now' = now + 1
  /\ UNCHANGED <<runtime, handler, files, sandbox, unusual>>
-----------------------------------------------------------------------------
HandlerStep == Created \/ Poll \/ Wake \/ Ask \/ Resume

SandboxStep ==
  \/ StartScan \/ OpenReport \/ WriteReport \/ Exit \/ Die \/ Rerun \/ Expire
  \/ \E tool \in running, outcome \in Outcomes : RunScanner(tool, outcome)

Next ==
  \/ HandlerStep
  \/ SandboxStep
  \/ Tick
  \/ \E request \in Requests, t \in Timeouts : Submit(request, t)

Spec == Init /\ [][Next]_vars

\* The event loop runs the handler, get_sandbox answers, and time passes.  The
\* sandbox owes nothing.
FairSpec == Spec /\ WF_vars(HandlerStep) /\ WF_vars(Tick)
-----------------------------------------------------------------------------
\* What a job is answered is true.  COMPLETED: the report in the response is
\* whole, although the handler reads the file while the sandbox may be writing
\* it, or writing it again; it names every file of the workspace but for links
\* that were made since, and has an entry of every scanner that was enabled for
\* them, but for the two whose thread may die; a scanner whose entry says that
\* it failed or found issues has a finding of its own, and the summary speaks of
\* a risk exactly when an entry does.  FAILED because the sandbox has ended:
\* there never is a report afterwards, although the state was read by another
\* thread, earlier than the file was looked for (create_scan_job, run_all,
\* _ensure_vulnerability_insights).
MayDie == {"py_compile", "go_build"}
Whole(results) ==
  /\ files = results.files \cup Links(results.files)
  /\ Enabled(results.files) \subseteq DOMAIN results.scans \cup MayDie
  /\ \A t \in DOMAIN results.scans :
       results.scans[t] \in {"ERROR", "ISSUES_FOUND"} => t \in results.found
  /\ results.summary = "RISKS_FOUND"
       <=> \E t \in DOMAIN results.scans : results.scans[t] = "ISSUES_FOUND"

CompletedIsWhole == answer = "COMPLETED" => Whole(response)
FailedIsFinal == answer = "terminated" => GetScanReport = 404 /\ box \notin Alive
AnswerSound == CompletedIsWhole /\ FailedIsFinal

\* A report that was answered can be had again: not so on Kubernetes, where the
\* scan that runs again opens it again (get_scan_report, save_results).
CompletedStays == answer = "COMPLETED" => GetScanReport = 200

\* Whatever a file is called, a Kubernetes manifest whose keys are in its first
\* 8 KB reaches the Kubernetes scanners; a source whose marks are those of one
\* language reaches that language's scanners, under its own extension or, when
\* it is sent as plain text, under any generic name; and each reaches the
\* universal scanners, except that semgrep passes over a manifest that is called
\* *.sh or *.txt.  The server's naming and the orchestrator's classification
\* must agree for that (create_scan_job, _get_enabled_tools, scan_semgrep).  It
\* is about a file whose place no other file of the request takes, and depends
\* on no variable: TLC checks it in the initial states.
FilesReachScanners == step = "idle" => \A file \in Files : ReachesScanners(file)

\* Every file of a request is in the workspace: not so when two of them are saved
\* under one name (create_scan_job).
EveryFileSaved ==
  [][step = "idle" /\ step' # "idle" =>
       \E request \in Requests : files' = {Saved(file) : file \in request}]_vars

\* "Deadline exceeded without a report": a job that is answered FAILED at its
\* deadline has no report at that moment (create_scan_job).
TimeoutWithoutReport ==
  [][answer' = "timeout" /\ answer # "timeout" => report # "whole"]_vars

\* Every job is answered, by its deadline at the latest.
JobAnswered == step = "creating" ~> answer # "none"
=============================================================================
