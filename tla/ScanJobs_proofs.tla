--------------------------- MODULE ScanJobs_proofs ---------------------------
(***************************************************************************)
(* Proofs about ScanJobs, for every set of requests, runtimes and          *)
(* timeouts and for every bound: the types, that every file reaches the    *)
(* scanners of its text, and that what a job is answered is true of the    *)
(* report and stays so.  Then about CreateSandbox: that a sandbox is found *)
(* by its metadata, that an endpoint leads to its port, and that a pod     *)
(* stays right with each volume.                                           *)
(***************************************************************************)
EXTENDS MCScanJobs, FiniteSetTheorems, SequenceTheorems, WellFoundedInduction, TLAPS

ToolNames == Tools \cup {"golangci-lint"}

\* Every name that a class enables is the name of a tool, whatever the files.
LEMMA EnabledAreTools == \A fs : Enabled(fs) \subseteq Tools
<1>1. \A class : ToolsFor(class) \in {ToolsFor(c) : c \in {"python", "go", "yaml", "k8s", "shell"}}
                  \/ ~(class \in {"python", "go", "yaml", "k8s", "shell"})
  OBVIOUS
<1>2. \A saved : Classified(saved) \in {"k8s", "yaml", "python", "go", "shell", "other"}
  BY DEF Classified
<1>3. ToolsFor("other") = {}
  BY DEF ToolsFor
<1>4. \A saved : ToolsFor(Classified(saved)) \subseteq Tools
  BY <1>1, <1>2, <1>3 DEF Tools
<1> QED
  BY <1>4 DEF Enabled, Tools

\* A file keeps to the known extensions, whatever its name is made of.
LEMMA SavedTyped == \A file \in Files : Saved(file) \in Names
<1> SUFFICES ASSUME NEW file \in Files PROVE Saved(file) \in Names
  OBVIOUS
<1>1. /\ file.ext \in Extensions \cup {""} /\ file.text \in Texts
      /\ file.stem \in {"main", "x"} /\ file.late \in BOOLEAN
  BY DEF Files
<1>2. \A text : DetectExtension(text) \in {"json", "yaml", "go", "js", "py"}
  BY DEF DetectExtension
<1>3. {"json", "yaml", "go", "js", "py"} \subseteq Extensions
  BY DEF Extensions
<1>4. (IF Generic(file) THEN DetectExtension(IF file.encoded THEN {} ELSE file.text)
                        ELSE file.ext) \in Extensions
  BY <1>1, <1>2, <1>3 DEF Generic
<1> QED
  BY <1>1, <1>4 DEF Saved, Names

\* A manifest's link is a name, and has none of its own.
LEMMA LinksTyped ==
  ASSUME NEW fs, fs \subseteq Names
  PROVE  Links(fs) \subseteq Names /\ Links(fs \cup Links(fs)) = Links(fs)
<1>1. "yaml" \in Extensions
  BY DEF Extensions
<1>2. \A f \in fs : [f EXCEPT !.ext = "yaml"] \in Names
                   /\ [f EXCEPT !.ext = "yaml"].ext = "yaml"
  BY <1>1 DEF Names
<1>3. \A f \in Links(fs) : f \in Names /\ f.ext = "yaml"
  BY <1>2 DEF Links
<1>4. \A g : g \in Links(fs) => g.ext \in {"yaml", "yml"}
  BY <1>3
<1>5. {g \in fs \cup Links(fs) : Classified(g) = "k8s" /\ g.ext \notin {"yaml", "yml"}}
        = {g \in fs : Classified(g) = "k8s" /\ g.ext \notin {"yaml", "yml"}}
  BY <1>4
<1> QED
  BY <1>3, <1>5 DEF Links

EntryOk(e) == e.status \in Statuses \cup {Died} /\ e.names \subseteq ToolNames

\* An entry made of a status and names is one.
LEMMA EntryOfOk ==
  ASSUME NEW status \in Statuses \cup {Died}, NEW names \in SUBSET ToolNames
  PROVE  EntryOk(Entry(status, names))
BY DEF EntryOk, Entry

\* What a tool that prints JSON leaves, under any of its names.
LEMMA ParsedOk ==
  ASSUME NEW name \in ToolNames, NEW outcome,
         NEW malformed \in Statuses, NEW garbage \in Statuses
  PROVE  \A e \in Parsed(name, outcome, malformed, garbage) : EntryOk(e)
<1>1. RunCommand(outcome) \in Statuses /\ "ISSUES_FOUND" \in Statuses
  BY DEF RunCommand, Statuses
<1>2. EntryOk(Entry("ISSUES_FOUND", {name})) /\ EntryOk(Entry(malformed, {}))
      /\ EntryOk(Entry(malformed, {name})) /\ EntryOk(Entry(garbage, {}))
      /\ EntryOk(Entry(RunCommand(outcome), {}))
  BY <1>1, EntryOfOk
<1> QED
  BY <1>2 DEF Parsed

\* Whatever a tool does, scan_directory records entries: a status and names it knows.
LEMMA ResultsOk ==
  ASSUME NEW tool \in Tools, NEW fs, NEW outcome
  PROVE  \A e \in ScanResults(tool, fs, outcome) : EntryOk(e)
<1> DEFINE Known == {"semgrep", "py_compile", "gitleaks", "yamllint", "bandit", "go_build",
                     "gosec", "staticcheck", "golangci_lint", "trivy", "kubelinter",
                     "kubeconform", "kubescore", "shellcheck"}
<1>1. tool \in Known /\ Known \cup {"golangci-lint"} \subseteq ToolNames
  BY DEF Tools, ToolNames, Baseline, ToolsFor
<1>2. {"COMPLETED", "ISSUES_FOUND", "NOT_FOUND", "ERROR", "SKIPPED"} = Statuses
  BY DEF Statuses
<1>3. \A name \in Known \cup {"golangci-lint"} :
        \A status \in Statuses \cup {Died} :
          EntryOk(Entry(status, {})) /\ EntryOk(Entry(status, {name}))
  BY <1>1, EntryOfOk
<1>4. \A name \in Known \cup {"golangci-lint"} :
        \A m \in Statuses, g \in Statuses :
          \A e \in Parsed(name, outcome, m, g) : EntryOk(e)
  BY <1>1, ParsedOk
<1> HIDE DEF Known
<1>5. \A e \in ScanSemgrep(fs, outcome) : EntryOk(e)
  BY <1>2, <1>3, <1>4 DEF ScanSemgrep, Known
<1>6. /\ \A e \in ScanPyCompile(outcome) : EntryOk(e)
      /\ \A e \in ScanGoBuild(outcome) : EntryOk(e)
      /\ \A e \in ScanKubescore(outcome) : EntryOk(e)
  BY <1>2, <1>3 DEF ScanPyCompile, ScanGoBuild, ScanKubescore, Known
<1>7. /\ \A e \in ScanGitleaks(outcome) : EntryOk(e)
      /\ \A e \in ScanYamllint(outcome) : EntryOk(e)
      /\ \A e \in ScanBandit(outcome) : EntryOk(e)
      /\ \A e \in ScanGosec(outcome) : EntryOk(e)
      /\ \A e \in ScanStaticcheck(outcome) : EntryOk(e)
      /\ \A e \in ScanGolangciLint(outcome) : EntryOk(e)
      /\ \A e \in ScanTrivy(outcome) : EntryOk(e)
      /\ \A e \in ScanKubelinter(outcome) : EntryOk(e)
      /\ \A e \in ScanKubeconform(outcome) : EntryOk(e)
      /\ \A e \in ScanShellcheck(outcome) : EntryOk(e)
  BY <1>2, <1>4 DEF ScanGitleaks, ScanYamllint, ScanBandit, ScanGosec, ScanStaticcheck,
       ScanGolangciLint, ScanTrivy, ScanKubelinter, ScanKubeconform, ScanShellcheck, Known
<1> QED
  BY <1>1, <1>5, <1>6, <1>7 DEF ScanResults, Known
-----------------------------------------------------------------------------
\* The types that the initial states have.
LEMMA InitTyped == Init => TypeOK
BY TimeAssumption DEF Init, TypeOK, States, Answers, Boxes, NoScans, Results, NoResults, ResultsTyped

\* What a scanner's thread records has the types, whatever its tool printed.
LEMMA RunScannerTyped ==
  ASSUME TypeOK, NEW tool \in running, NEW outcome, RunScanner(tool, outcome)
  PROVE  TypeOK'
<1> USE DEF ResultsTyped, Results
<1>1. /\ running' \subseteq Tools
      /\ unusual' \in 0..MaxUnusual
  BY TimeAssumption DEF TypeOK, RunScanner, Fault
<1>2. PICK result \in ScanResults(tool, scanned, outcome) :
        /\ scans' = IF result.status = Died THEN scans
                    ELSE [t \in DOMAIN scans \cup {tool} |->
                            IF t = tool THEN result.status ELSE scans[t]]
        /\ found' = found \cup result.names
  BY DEF RunScanner
<1>3. tool \in Tools
  BY DEF TypeOK
<1>4. EntryOk(result)
  BY <1>2, <1>3, ResultsOk
<1>5. found' \subseteq ToolNames
  BY <1>2, <1>4 DEF TypeOK, EntryOk, ToolNames
<1>6. DOMAIN scans' \subseteq Tools /\ \A t \in DOMAIN scans' : scans'[t] \in Statuses
  <2>1. CASE result.status = Died
    BY <2>1, <1>2 DEF TypeOK
  <2>2. CASE result.status # Died
    <3>1. scans' = [t \in DOMAIN scans \cup {tool} |->
                      IF t = tool THEN result.status ELSE scans[t]]
      BY <2>2, <1>2
    <3>2. result.status \in Statuses
      BY <2>2, <1>4 DEF EntryOk
    <3> QED
      BY <3>1, <3>2, <1>3 DEF TypeOK
  <2> QED
    BY <2>1, <2>2
<1> QED
  BY <1>1, <1>5, <1>6 DEF TypeOK, RunScanner, handler, volume, ToolNames

\* The insights are reported under the names of tools.
LEMMA InsightsTyped ==
  ASSUME TypeOK PROVE EnsureInsights(scans, found) \subseteq ToolNames
BY DEF TypeOK, EnsureInsights, ToolNames, ResultsTyped, Results

\* Before the sandbox was asked for, no time has passed and there is none; it
\* is created, for one of the timeouts, within MaxCreate.
Begins ==
  /\ step = "idle" => now = 0 /\ box = "absent" /\ seen = "none" /\ answer = "none"
  /\ step = "creating" => now <= MaxCreate /\ timeout \in Timeouts

\* The types, and the bound on the clock that makes them inductive: a deadline
\* is set while the clock is within MaxCreate.
TypeInv == TypeOK /\ Begins

\* No step leaves the types, or starts a job later than MaxCreate.
LEMMA TypeInvStep == TypeInv /\ [Next]_vars => TypeInv'
<1> SUFFICES ASSUME TypeInv, [Next]_vars PROVE TypeInv'
  OBVIOUS
<1> USE TimeAssumption DEF ResultsTyped, Results
<1>1. ASSUME NEW request \in Requests, NEW t \in Timeouts, Submit(request, t)
      PROVE  TypeInv'
  <2>1. files' \subseteq Names
    BY <1>1, SavedTyped, RequestAssumption DEF Submit, Kept
  <2>2. now = 0 /\ now + t \in 0..MaxTime /\ now <= MaxCreate
    BY <1>1 DEF TypeInv, TypeOK, Begins, Submit
  <2> QED
    BY <1>1, <2>1, <2>2 DEF TypeInv, TypeOK, Begins, Submit, Fault, Answered, Answers,
       Boxes, Unanswered, scanning, volume
<1>2. CASE Created
  <2>1. now + timeout \in 0..MaxTime
    <3>1. timeout \in Nat \ {0} /\ timeout + MaxCreate <= MaxTime /\ now <= MaxCreate
      BY <1>2 DEF TypeInv, Begins, Created
    <3> QED
      BY <3>1 DEF TypeInv, TypeOK
  <2> QED
    BY <1>2, <2>1 DEF TypeInv, TypeOK, Begins, Created, sandbox, scanning, volume
<1>3. CASE Poll
  BY <1>3 DEF TypeInv, TypeOK, Begins, Poll, Answered, Completed, Unanswered, Answers, sandbox, scanning, volume
<1>4. CASE Wake
  BY <1>4 DEF TypeInv, TypeOK, Begins, Wake, sandbox, scanning, volume
<1>5. CASE Ask
  <2>1. seen' \in States
    BY <1>5 DEF Ask, StateOf, States
  <2> QED
    BY <1>5, <2>1 DEF TypeInv, TypeOK, Begins, Ask, Fault, sandbox, scanning, volume
<1>6. CASE Resume
  BY <1>6 DEF TypeInv, TypeOK, Begins, Resume, Answered, Unanswered, Answers, States, sandbox, scanning, volume
<1>7. CASE StartScan
  <2>1. files' \subseteq Names
    BY <1>7, LinksTyped DEF TypeInv, TypeOK, StartScan
  <2>2. scanned' \subseteq Names /\ running' \subseteq Tools
    BY <1>7, EnabledAreTools DEF TypeInv, TypeOK, StartScan
  <2> QED
    BY <1>7, <2>1, <2>2 DEF TypeInv, TypeOK, Begins, StartScan, Fault, Boxes, handler, volume
<1>8. ASSUME NEW tool \in running, NEW outcome \in Outcomes, RunScanner(tool, outcome)
      PROVE  TypeInv'
  BY <1>8, RunScannerTyped DEF TypeInv, Begins, RunScanner, handler, volume
<1>9. CASE OpenReport
  <2>1. Summary(scans) \in {"none", "RISKS_FOUND", "ERROR", "CLEAN"}
    BY DEF Summary
  <2>2. EnsureInsights(scans, found) \subseteq Tools \cup {"golangci-lint"}
    BY InsightsTyped DEF TypeInv, ToolNames
  <2> QED
    BY <1>9, <2>1, <2>2 DEF TypeInv, TypeOK, Begins, OpenReport, Fault, Boxes, NoResults, NoScans,
       handler, volume
<1>10. CASE WriteReport
  BY <1>10 DEF TypeInv, TypeOK, Begins, WriteReport, Fault, Boxes, handler, scanning, volume
<1>11. CASE Exit \/ Die \/ Rerun \/ Expire
  BY <1>11 DEF TypeInv, TypeOK, Begins, Exit, Die, Rerun, Expire, Alive, Fault, Boxes, NoScans,
     handler, scanning, volume
<1>12. CASE Tick
  <2>1. now' \in 0..MaxTime /\ (step = "creating" => now' <= MaxCreate)
    <3>1. CASE step = "creating"
      <4>1. timeout \in Nat \ {0} /\ timeout + MaxCreate <= MaxTime
        BY <3>1 DEF TypeInv, Begins
      <4> QED
        BY <1>12, <3>1, <4>1 DEF TypeInv, TypeOK, Tick
    <3>2. CASE step # "creating"
      BY <1>12, <3>2 DEF TypeInv, TypeOK, Tick
    <3> QED
      BY <3>1, <3>2
  <2> QED
    BY <1>12, <2>1 DEF TypeInv, TypeOK, Begins, Tick, handler, sandbox, scanning, volume
<1>13. CASE UNCHANGED vars
  BY <1>13 DEF TypeInv, TypeOK, Begins, vars, handler, sandbox, scanning, volume
<1> QED
  BY <1>1, <1>2, <1>3, <1>4, <1>5, <1>6, <1>7, <1>8, <1>9, <1>10, <1>11, <1>12, <1>13
     DEF Next, HandlerStep, SandboxStep

\* So they hold in every behaviour.
LEMMA TypeInvAlways == Spec => []TypeInv
<1>1. Init => TypeInv
  BY InitTyped DEF Init, TypeInv, Begins
<1> QED
  BY <1>1, TypeInvStep, PTL DEF Spec

\* In every state the job, its sandbox and its report have their types: the
\* deadline and the expiration are within the clock's bound, what a scanner
\* leaves is a known status under the name of a scanner (create_scan_job,
\* run_all).
THEOREM TypesHold == Spec => []TypeOK
BY TypeInvAlways, PTL DEF TypeInv
-----------------------------------------------------------------------------
\* On Docker a sandbox that has ended stays so.
Ended == {"exited", "failed", "removed"}

\* Only py_compile's and go_build's threads can die, whatever their tools print.
LEMMA OthersLive ==
  ASSUME NEW tool \in Tools \ MayDie, NEW fs, NEW outcome
  PROVE  \A e \in ScanResults(tool, fs, outcome) : e.status # Died
<1> DEFINE Known == {"semgrep", "gitleaks", "yamllint", "bandit", "gosec", "staticcheck",
                     "golangci_lint", "trivy", "kubelinter", "kubeconform", "kubescore",
                     "shellcheck"}
<1>1. tool \in Known
  BY DEF Tools, Baseline, ToolsFor, MayDie
<1>2. /\ "COMPLETED" # Died /\ "ISSUES_FOUND" # Died /\ "NOT_FOUND" # Died
      /\ "ERROR" # Died /\ "SKIPPED" # Died
  BY DEF Died
<1>3. \A status, names : Entry(status, names).status = status
  BY DEF Entry
<1>4. RunCommand(outcome) \in {"COMPLETED", "NOT_FOUND", "ERROR"}
  BY DEF RunCommand
<1>5. \A name, m, g : m # Died /\ g # Died =>
        \A e \in Parsed(name, outcome, m, g) : e.status # Died
  BY <1>2, <1>3, <1>4 DEF Parsed
<1>6. /\ \A e \in ScanSemgrep(fs, outcome) : e.status # Died
      /\ \A e \in ScanKubescore(outcome) : e.status # Died
  BY <1>2, <1>3, <1>5 DEF ScanSemgrep, ScanKubescore
<1>7. /\ \A e \in ScanGitleaks(outcome) : e.status # Died
      /\ \A e \in ScanYamllint(outcome) : e.status # Died
      /\ \A e \in ScanBandit(outcome) : e.status # Died
      /\ \A e \in ScanGosec(outcome) : e.status # Died
      /\ \A e \in ScanStaticcheck(outcome) : e.status # Died
      /\ \A e \in ScanGolangciLint(outcome) : e.status # Died
      /\ \A e \in ScanTrivy(outcome) : e.status # Died
      /\ \A e \in ScanKubelinter(outcome) : e.status # Died
      /\ \A e \in ScanKubeconform(outcome) : e.status # Died
      /\ \A e \in ScanShellcheck(outcome) : e.status # Died
  BY <1>2, <1>5 DEF ScanGitleaks, ScanYamllint, ScanBandit, ScanGosec, ScanStaticcheck,
       ScanGolangciLint, ScanTrivy, ScanKubelinter, ScanKubeconform, ScanShellcheck
<1> QED
  BY <1>1, <1>6, <1>7 DEF ScanResults

\* While the scanners run, each that was enabled is at work, has its entry, or
\* may have died; and the workspace has the files that were listed, and links.
Underway ==
  /\ files = scanned \cup Links(scanned)
  /\ Enabled(scanned) \subseteq running \cup DOMAIN scans \cup MayDie

\* What is written, and what was written when the report is whole, is whole.  On
\* Docker nothing is written before the one scan is done.
ReportInOrder ==
  /\ box = "absent" => report = "none"
  /\ runtime = "docker" /\ box \in {"starting", "scanning"} => report = "none"
  /\ box = "scanning" => Underway
  /\ box = "saving" => report = "partial" /\ Whole(Results)
  /\ report = "whole" => Whole(content)

\* The report in the response is whole, and what the thread of the executor has
\* seen of an ended sandbox is still so.
AnswerInOrder ==
  /\ answer = "COMPLETED" => Whole(response)
  /\ seen \in {"Terminated", "Failed"} => runtime = "docker" /\ box \in Ended
  /\ answer = "terminated" => runtime = "docker" /\ box \in Ended /\ report = "none"

IInv == TypeInv /\ ReportInOrder /\ AnswerInOrder

\* What was whole stays so while the files are the same.
LEMMA WholeStays ==
  ASSUME files' = files
  PROVE  \A results : Whole(results) => Whole(results)'
BY DEF Whole

\* And when a scan begins: the links are there already.
LEMMA ScanAddsNothing ==
  ASSUME TypeOK, StartScan
  PROVE  /\ \A results : results.files \subseteq Names /\ Whole(results) => files' = files
         /\ box' = "scanning" => Underway'
<1>1. ASSUME NEW results, results.files \subseteq Names, Whole(results)
      PROVE  files' = files
  <2>1. files = results.files \cup Links(results.files)
    BY <1>1 DEF Whole
  <2>2. Links(files) = Links(results.files)
    BY <1>1, <2>1, LinksTyped
  <2> QED
    BY <2>1, <2>2 DEF StartScan
<1>2. box' = "scanning" => Underway'
  BY DEF StartScan, Underway
<1> QED
  BY <1>1, <1>2

\* The report is written after everything that goes into it.
LEMMA ReportStep == IInv /\ [Next]_vars => ReportInOrder'
<1> SUFFICES ASSUME IInv, [Next]_vars PROVE ReportInOrder'
  OBVIOUS
<1> USE DEF ReportInOrder
<1>1. ASSUME NEW request \in Requests, NEW t \in Timeouts, Submit(request, t)
      PROVE  ReportInOrder'
  BY <1>1 DEF IInv, TypeInv, Begins, Submit, volume
<1>2. CASE \/ HandlerStep \/ Tick \/ UNCHANGED vars
  <2>1. UNCHANGED <<runtime, files, sandbox>>
    BY <1>2 DEF HandlerStep, Created, Poll, Wake, Ask, Resume, Tick, vars
  <2> QED
    BY <2>1 DEF IInv, Underway, Whole, Results, sandbox, scanning, volume
<1>3. CASE StartScan
  <2>1. /\ box = "starting" /\ box' \in {"scanning", "exited"} /\ UNCHANGED <<runtime, volume>>
    BY <1>3 DEF StartScan
  <2>2. box' = "scanning" => Underway'
    BY <1>3, ScanAddsNothing DEF IInv, TypeInv
  <2>3. report = "whole" => Whole(content)'
    <3> SUFFICES ASSUME report = "whole" PROVE Whole(content)'
      OBVIOUS
    <3>1. Whole(content) /\ content.files \subseteq Names
      BY DEF IInv, TypeInv, TypeOK, ResultsTyped
    <3>2. files' = files
      BY <1>3, <3>1, ScanAddsNothing DEF IInv, TypeInv
    <3> QED
      BY <2>1, <3>1, <3>2 DEF Whole, volume
  <2> QED
    BY <2>1, <2>2, <2>3 DEF IInv, volume
<1>4. ASSUME NEW tool \in running, NEW outcome \in Outcomes, RunScanner(tool, outcome)
      PROVE  ReportInOrder'
  <2>1. /\ box = "scanning" /\ box' = box /\ UNCHANGED <<runtime, files, scanned, volume>>
        /\ running' = running \ {tool}
    BY <1>4 DEF RunScanner
  <2>2. DOMAIN scans \subseteq DOMAIN scans' /\ (tool \in DOMAIN scans' \/ tool \in MayDie)
    <3>1. PICK result \in ScanResults(tool, scanned, outcome) :
            scans' = IF result.status = Died THEN scans
                     ELSE [t \in DOMAIN scans \cup {tool} |->
                             IF t = tool THEN result.status ELSE scans[t]]
      BY <1>4 DEF RunScanner
    <3>2. tool \in Tools
      BY DEF IInv, TypeInv, TypeOK
    <3>3. CASE result.status = Died
      BY <3>1, <3>2, <3>3, OthersLive
    <3>4. CASE result.status # Died
      BY <3>1, <3>4
    <3> QED
      BY <3>3, <3>4
  <2>3. Underway'
    BY <2>1, <2>2 DEF IInv, Underway
  <2>4. report = "whole" => Whole(content)'
    BY <2>1, WholeStays DEF IInv, Whole, volume
  <2> QED
    BY <2>1, <2>3, <2>4 DEF IInv, volume
<1>5. CASE OpenReport
  <2>1. /\ summary' = Summary(scans) /\ UNCHANGED <<scans, scanned, files>> /\ running = {}
        /\ found' = found \cup {t \in DOMAIN scans : scans[t] \in {"ERROR", "ISSUES_FOUND"}}
        /\ box = "scanning" /\ box' \in {"saving", "exiting"}
    BY <1>5 DEF OpenReport, EnsureInsights
  <2>2. Summary(scans) = "RISKS_FOUND" <=> \E t \in DOMAIN scans : scans[t] = "ISSUES_FOUND"
    BY DEF Summary
  <2>3. Underway
    BY <2>1 DEF IInv
  <2>4. Whole(Results)'
    BY <2>1, <2>2, <2>3 DEF Underway, Whole, Results
  <2>5. report' = "partial" \/ (report' = report /\ content' = content /\ box' = "exiting")
    BY <1>5 DEF OpenReport, volume
  <2>6. report' = "whole" => Whole(content)'
    BY <2>1, <2>5 DEF IInv, Whole
  <2> QED
    BY <2>1, <2>4, <2>5, <2>6
<1>6. CASE WriteReport
  <2>1. /\ box = "saving" /\ box' = "exiting" /\ UNCHANGED <<files, scanning>>
        /\ \/ content' = Results
           \/ report' = report /\ content' = content
    BY <1>6 DEF WriteReport, volume
  <2>2. report' = "whole" => Whole(content)'
    BY <2>1 DEF IInv, Whole, Results, scanning
  <2> QED
    BY <2>1, <2>2
<1>7. CASE Exit \/ Die \/ Rerun \/ Expire
  <2>1. /\ UNCHANGED <<runtime, files, volume>>
        /\ box # "absent" /\ box' \in {"exited", "failed", "removed", "starting"}
        /\ box' = "starting" => runtime = "kubernetes"
    BY <1>7 DEF Exit, Die, Rerun, Expire, Alive
  <2>2. report' = "whole" => Whole(content)'
    BY <2>1 DEF IInv, Whole, volume
  <2> QED
    BY <2>1, <2>2
<1> QED
  BY <1>1, <1>2, <1>3, <1>4, <1>5, <1>6, <1>7 DEF Next, SandboxStep

\* The report of the response is the one that was read, and what was seen of the
\* sandbox holds.
LEMMA AnswerStep == IInv /\ [Next]_vars => AnswerInOrder'
<1> SUFFICES ASSUME IInv, [Next]_vars PROVE AnswerInOrder'
  OBVIOUS
<1> USE DEF AnswerInOrder
<1>1. ASSUME NEW request \in Requests, NEW t \in Timeouts, Submit(request, t)
      PROVE  AnswerInOrder'
  BY <1>1 DEF IInv, TypeInv, Begins, Submit, Answered, Unanswered
<1>2. CASE Created \/ Wake \/ Tick \/ UNCHANGED vars
  BY <1>2 DEF IInv, Created, Wake, Tick, Whole, vars, handler, sandbox, volume
<1>3. CASE Poll
  BY <1>3 DEF IInv, Poll, Answered, Completed, Unanswered, ReportInOrder, Whole, sandbox, volume
<1>4. CASE Ask
  <2>1. seen' \in {"Terminated", "Failed"} => runtime = "docker" /\ box \in Ended
    BY <1>4 DEF Ask, StateOf, Ended
  <2> QED
    BY <1>4, <2>1 DEF IInv, Ask, Whole, sandbox, volume
<1>5. CASE Resume
  BY <1>5 DEF IInv, Resume, Answered, Unanswered, Whole, sandbox, volume
<1>6. CASE StartScan
  <2>1. box = "starting" /\ UNCHANGED <<runtime, handler, volume>>
    BY <1>6 DEF StartScan
  <2>2. answer = "COMPLETED" => Whole(response)'
    <3> SUFFICES ASSUME answer = "COMPLETED" PROVE Whole(response)'
      OBVIOUS
    <3>1. Whole(response) /\ response.files \subseteq Names
      BY DEF IInv, TypeInv, TypeOK, ResultsTyped
    <3>2. files' = files
      BY <1>6, <3>1, ScanAddsNothing DEF IInv, TypeInv
    <3> QED
      BY <2>1, <3>1, <3>2 DEF Whole, handler
  <2> QED
    BY <2>1, <2>2 DEF IInv, Ended, handler
<1>7. ASSUME NEW tool \in running, NEW outcome \in Outcomes, RunScanner(tool, outcome)
      PROVE  AnswerInOrder'
  BY <1>7 DEF IInv, RunScanner, Whole, handler, volume
<1>8. CASE OpenReport \/ WriteReport
  BY <1>8 DEF IInv, OpenReport, WriteReport, Ended, Whole, handler
<1>9. CASE Exit \/ Die \/ Rerun \/ Expire
  BY <1>9 DEF IInv, Exit, Die, Rerun, Expire, Alive, Ended, Whole, handler, volume
<1> QED
  BY <1>1, <1>2, <1>3, <1>4, <1>5, <1>6, <1>7, <1>8, <1>9 DEF Next, HandlerStep, SandboxStep

\* A report is whole before it is read as whole, and a sandbox read as ended writes no more.
LEMMA IInvAlways == Spec => []IInv
<1>1. Init => IInv
  BY InitTyped DEF Init, IInv, TypeInv, Begins, ReportInOrder, AnswerInOrder
<1>2. IInv /\ [Next]_vars => IInv'
  BY TypeInvStep, ReportStep, AnswerStep DEF IInv
<1> QED
  BY <1>1, <1>2, PTL DEF Spec

\* A job that is answered COMPLETED is given a whole report: of all the files of
\* the workspace and every scanner that was enabled for them, but for a thread
\* that died, and with a finding for each entry that says failed or issues found,
\* although on Kubernetes the scan may be running for a second time over the
\* same file.  One that is answered FAILED because its sandbox has ended never
\* has a report (create_scan_job, run_all).
THEOREM AnswersHold == Spec => []AnswerSound
<1>1. IInv => AnswerSound
  <2> SUFFICES ASSUME IInv PROVE CompletedIsWhole /\ FailedIsFinal
    BY DEF AnswerSound
  <2>1. CompletedIsWhole
    BY DEF IInv, AnswerInOrder, CompletedIsWhole
  <2>2. FailedIsFinal
    BY DEF IInv, AnswerInOrder, Ended, Alive, FailedIsFinal, GetScanReport
  <2> QED
    BY <2>1, <2>2
<1> QED
  BY <1>1, IInvAlways, PTL
-----------------------------------------------------------------------------
\* A report that is whole is never changed again on Docker, where nothing starts
\* the script a second time; on Kubernetes it is, but only by a scan that runs
\* again and is done (code-interpreter.sh, save_results).
ReportStays ==
  [][report = "whole" =>
       UNCHANGED volume \/ (runtime = "kubernetes" /\ box = "scanning" /\ running = {})]_vars

\* What get_scan_report has once answered, it answers until the scan is run again
\* and is done: on Docker, ever after (get_scan_report, run_all).
THEOREM ReportsStay == Spec => ReportStays
<1>1. IInv /\ [Next]_vars =>
        (report = "whole" =>
           UNCHANGED volume \/ (runtime = "kubernetes" /\ box = "scanning" /\ running = {}))
  <2> SUFFICES ASSUME IInv, [Next]_vars, report = "whole"
               PROVE  UNCHANGED volume
                      \/ (runtime = "kubernetes" /\ box = "scanning" /\ running = {})
    OBVIOUS
  <2>1. CASE OpenReport
    BY <2>1, RuntimeAssumption DEF IInv, TypeInv, TypeOK, ReportInOrder, OpenReport, volume
  <2>2. CASE WriteReport
    BY <2>2 DEF IInv, ReportInOrder, WriteReport, volume
  <2>3. CASE ~OpenReport /\ ~WriteReport
    BY <2>3 DEF Next, HandlerStep, SandboxStep, Submit, Created, Poll, Wake, Ask, Resume,
       StartScan, RunScanner, Exit, Die, Rerun, Expire, Tick, vars, sandbox
  <2> QED
    BY <2>1, <2>2, <2>3
<1> QED
  BY <1>1, IInvAlways, PTL DEF Spec, ReportStays

-----------------------------------------------------------------------------
(* The server's naming and the orchestrator's classification agree.        *)

\* A manifest is one whatever its extension: the text is looked at first.
LEMMA ManifestClassified ==
  \A saved : IsK8sManifest(saved) => Classified(saved) = "k8s"
BY DEF Classified

\* A text with the marks of one language is given that language's extension when
\* its name is mended.
LEMMA LanguageDetected ==
  /\ DetectExtension({"python"}) = "py"
  /\ DetectExtension({"go"}) = "go"
  /\ DetectExtension({"yaml"}) = "yaml"
<1>1. {"go"} \cap {"braces", "yaml"} = {}
  OBVIOUS
<1>2. DetectExtension({"python"}) = "py"
  <2>1. {"python"} \cap {"braces", "yaml", "go", "python"} # {} /\ "script" \notin {"python"}
    OBVIOUS
  <2>. QED
    BY <2>1 DEF DetectExtension
<1>3. DetectExtension({"go"}) = "go"
  BY <1>1 DEF DetectExtension
<1>4. DetectExtension({"yaml"}) = "yaml"
  BY DEF DetectExtension
<1> QED
  BY <1>2, <1>3, <1>4

\* The class of a file with such a text under its language's extension.
LEMMA LanguageClassified ==
  ASSUME NEW language \in DOMAIN ExtensionsOf, NEW saved, saved.text = {language},
         saved.ext \in ExtensionsOf[language]
  PROVE  Classified(saved) = language
<1>1. language \in {"python", "go", "yaml"} /\ ~IsK8sManifest(saved)
  BY DEF ExtensionsOf, IsK8sManifest
<1>2. CASE language = "python"
  BY <1>1, <1>2 DEF Classified, ExtensionsOf
<1>3. CASE language = "go"
  BY <1>1, <1>3 DEF Classified, ExtensionsOf
<1>4. CASE language = "yaml"
  BY <1>1, <1>4 DEF Classified, ExtensionsOf
<1> QED
  BY <1>1, <1>2, <1>3, <1>4

\* semgrep passes over scripts and plain texts only, and no name is mended to one.
LEMMA SemgrepLooks ==
  ASSUME NEW file \in Files, Generic(file) \/ file.ext \notin {"sh", "txt"}
  PROVE  Looking({Saved(file)}) = Enabled({Saved(file)})
<1>1. \A text : DetectExtension(text) \in {"json", "yaml", "go", "js", "py"}
  BY DEF DetectExtension
<1>2. Saved(file).ext \notin {"sh", "txt"}
  BY <1>1 DEF Saved
<1> QED
  BY <1>2 DEF Looking, SkipsSemgrep

\* A file is given to the scanners of its language, whatever it is called.
LEMMA ScannersReached == \A file \in Files : ReachesScanners(file)
<1> SUFFICES ASSUME NEW file \in Files PROVE ReachesScanners(file)
  OBVIOUS
<1> DEFINE looking == Looking({Saved(file)})
<1>1. /\ Enabled({Saved(file)}) = Baseline \cup ToolsFor(Classified(Saved(file)))
      /\ looking = Enabled({Saved(file)}) \/ looking = Enabled({Saved(file)}) \ {"semgrep"}
  BY DEF Enabled, Looking
<1>2. /\ Saved(file).text = file.text
      /\ IsK8sManifest(Saved(file)) = IsK8sManifest(file)
  BY DEF Saved, IsK8sManifest
<1> HIDE DEF looking
<1>3. {"gitleaks", "trivy"} \subseteq looking
  BY <1>1 DEF Baseline
<1>4. ASSUME IsK8sManifest(file)
      PROVE  /\ ToolsFor("k8s") \subseteq looking
             /\ "semgrep" \in looking \/ (~Generic(file) /\ file.ext \in {"sh", "txt"})
  <2>1. Classified(Saved(file)) = "k8s"
    BY <1>2, <1>4, ManifestClassified
  <2>2. ToolsFor("k8s") \subseteq looking
    BY <1>1, <2>1 DEF ToolsFor
  <2>3. ASSUME Generic(file) \/ file.ext \notin {"sh", "txt"}
        PROVE  "semgrep" \in looking
    BY <1>1, <2>3, SemgrepLooks DEF Baseline, looking
  <2> QED
    BY <2>2, <2>3
<1>5. ASSUME NEW language \in DOMAIN ExtensionsOf, file.text = {language},
             IF Generic(file) THEN ~file.encoded ELSE file.ext \in ExtensionsOf[language]
      PROVE  Baseline \cup ToolsFor(language) \subseteq looking
  <2>1. file.encoded \in BOOLEAN
    BY DEF Files
  <2>2. language \in {"python", "go", "yaml"}
    BY DEF ExtensionsOf
  <2>3. Saved(file).ext \in ExtensionsOf[language]
    <3>1. CASE Generic(file)
      <4>1. Saved(file).ext = DetectExtension({language})
        BY <1>5, <2>1, <3>1 DEF Saved
      <4> QED
        BY <2>2, <4>1, LanguageDetected DEF ExtensionsOf
    <3>2. CASE ~Generic(file)
      BY <1>5, <3>2 DEF Saved
    <3> QED
      BY <3>1, <3>2
  <2>4. Classified(Saved(file)) = language
    BY <1>2, <1>5, <2>3, LanguageClassified
  <2>5. Generic(file) \/ file.ext \notin {"sh", "txt"}
    BY <1>5, <2>2 DEF ExtensionsOf
  <2> QED
    BY <1>1, <2>4, <2>5, SemgrepLooks DEF looking
<1> QED
  BY <1>3, <1>4, <1>5 DEF ReachesScanners, looking

\* However a file is called: a manifest whose keys are in its first 8 KB, and a
\* source with the marks of one language under that language's extension or,
\* sent as plain text, under a generic name, is saved by create_scan_job under a
\* name by which _get_enabled_tools enables the scanners of its text; semgrep
\* alone may pass over it, and only over a manifest that is called *.sh or *.txt.
\* This is about a file whose place no other file of its request takes.
THEOREM ScannersFound == Spec => []FilesReachScanners
<1>1. FilesReachScanners
  BY ScannersReached DEF FilesReachScanners
<1> QED
  BY <1>1, PTL

-----------------------------------------------------------------------------
(* What becomes of a request.                                              *)

\* Whatever metadata a request has, the labels that either runtime makes of it
\* name the sandbox, and the sandbox is found by the metadata: no label of the
\* system takes the place of one of the user's, or is taken for it
\* (ensure_metadata_labels, _build_labels_and_env, list_sandboxes).
THEOREM MetadataFound ==
  ASSUME NEW request, NEW id, NEW state, LabelsOk(request.metadata)
  PROVE  /\ DockerLabels(id, request)["opensandbox.io/id"] = id
         /\ MatchesFilter([state |-> state, metadata |-> DockerShown(DockerLabels(id, request))],
                          {}, request.metadata)
         /\ K8sLabels(id, request)["opensandbox.io/id"] = id
         /\ MatchesFilter([state |-> state, metadata |-> K8sShown(K8sLabels(id, request))],
                          {}, request.metadata)
<1>1. \A key \in DOMAIN request.metadata : key \notin ReservedKeys
  BY DEF LabelsOk
<1>2. /\ "opensandbox.io/id" \in SystemLabels /\ SystemLabels \subseteq ReservedKeys
      /\ "opensandbox.io/manual-cleanup" \in SystemLabels
      /\ "opensandbox.io/expires-at" \in SystemLabels
  BY DEF SystemLabels, ReservedKeys
<1>3. /\ DockerLabels(id, request)["opensandbox.io/id"] = id
      /\ \A key \in DOMAIN request.metadata :
           /\ key \in DOMAIN DockerShown(DockerLabels(id, request))
           /\ DockerShown(DockerLabels(id, request))[key] = request.metadata[key]
  BY <1>1, <1>2 DEF DockerLabels, SystemValue, DockerShown, Without
<1>4. /\ K8sLabels(id, request)["opensandbox.io/id"] = id
      /\ \A key \in DOMAIN request.metadata :
           /\ key \in DOMAIN K8sShown(K8sLabels(id, request))
           /\ K8sShown(K8sLabels(id, request))[key] = request.metadata[key]
  BY <1>1, <1>2 DEF K8sLabels, SystemValue, K8sShown, Without
<1> QED
  BY <1>3, <1>4 DEF MatchesFilter

\* On the host's network nothing is published, and a port is its own endpoint.
LEMMA EndpointOnHost ==
  ASSUME NEW request, NEW config, NEW execd, NEW http, NEW labels, NEW port,
         DockerAdmits(request, config), config.mode = "host"
  PROVE  /\ Published(request, config, execd, http) = <<>>
         /\ GetEndpoint(labels, config, port) = Endpoint(port, "port")
<1>1. ~request.policy
  BY DEF DockerAdmits, NetworkPolicyOk
<1>2. Published(request, config, execd, http) = <<>>
  BY <1>1 DEF Published
<1>3. GetEndpoint(labels, config, port) = Endpoint(port, "port")
  BY DEF GetEndpoint
<1> QED
  BY <1>2, <1>3

\* Elsewhere a port is reached through a port of the host.
LEMMA EndpointElsewhere ==
  ASSUME NEW request, NEW config, NEW execd, NEW http, NEW port, config.mode # "host"
  PROVE  /\ Published(request, config, execd, http) =
              [p \in {ExecdPort, HttpPort} |-> IF p = HttpPort THEN http ELSE execd]
         /\ GetEndpoint(PortLabels(request, config, execd, http), config, port) =
              IF port = HttpPort THEN Endpoint(http, "port") ELSE Endpoint(execd, "execd")
<1>1. Published(request, config, execd, http) =
        [p \in {ExecdPort, HttpPort} |-> IF p = HttpPort THEN http ELSE execd]
  BY DEF Published
<1>2. PortLabels(request, config, execd, http) = [execd |-> execd, http |-> http]
  BY DEF PortLabels
<1>3. GetEndpoint([execd |-> execd, http |-> http], config, port) =
        IF port = HttpPort THEN Endpoint(http, "port") ELSE Endpoint(execd, "execd")
  BY DEF GetEndpoint, Endpoint
<1> QED
  BY <1>1, <1>2, <1>3
\* The endpoint of any port of any sandbox that Docker admits leads to that port:
\* by itself on the host's network, and elsewhere through a host port that is
\* published, for it or for execd, which passes on to it
\* (_ensure_network_policy_support, _provision_sandbox, get_endpoint).
THEOREM EndpointLeads ==
  ASSUME NEW request, NEW config, NEW execd, NEW http, NEW port, DockerAdmits(request, config)
  PROVE  LET published == Published(request, config, execd, http)
             endpoint == GetEndpoint(PortLabels(request, config, execd, http), config, port)
         IN  IF published = <<>> THEN config.mode = "host" /\ endpoint = Endpoint(port, "port")
             ELSE endpoint = IF port = HttpPort THEN Endpoint(published[HttpPort], "port")
                                            ELSE Endpoint(published[ExecdPort], "execd")
<1> DEFINE published == Published(request, config, execd, http)
           endpoint == GetEndpoint(PortLabels(request, config, execd, http), config, port)
<1>1. CASE config.mode = "host"
  <2>1. published = <<>> /\ endpoint = Endpoint(port, "port")
    BY <1>1, EndpointOnHost
  <2> QED
    BY <1>1, <2>1
<1>2. CASE config.mode # "host"
  <2>1. published = [p \in {ExecdPort, HttpPort} |-> IF p = HttpPort THEN http ELSE execd]
    BY <1>2, EndpointElsewhere
  <2>2. endpoint = IF port = HttpPort THEN Endpoint(http, "port") ELSE Endpoint(execd, "execd")
    BY <1>2, EndpointElsewhere
  <2>3. published # <<>> /\ published[HttpPort] = http /\ published[ExecdPort] = execd
    <3> DEFINE f == [p \in {ExecdPort, HttpPort} |-> IF p = HttpPort THEN http ELSE execd]
    <3>1. HttpPort \in DOMAIN f /\ f[HttpPort] = http /\ f[ExecdPort] = execd
      BY DEF HttpPort, ExecdPort
    <3> HIDE DEF f
    <3>2. f # <<>>
      <4>1. DOMAIN <<>> = {}
        OBVIOUS
      <4> QED
        BY <3>1, <4>1, Zenon
    <3> QED
      BY <2>1, <3>1, <3>2 DEF f
  <2> HIDE DEF published, endpoint
  <2>4. IF published = <<>> THEN config.mode = "host" /\ endpoint = Endpoint(port, "port")
        ELSE endpoint = IF port = HttpPort THEN Endpoint(published[HttpPort], "port")
                                       ELSE Endpoint(published[ExecdPort], "execd")
    BY <2>2, <2>3, Zenon
  <2> QED
    BY <2>4, Zenon DEF published, endpoint
<1> QED
  BY <1>1, <1>2

\* A BatchSandbox that is not pending has an endpoint in either mode.
LEMMA AddressedHasEndpoint ==
  \A ready \in 0..1, address \in BOOLEAN, route \in {"wildcard", "uri", "header"} :
    \A mode \in {"direct", "gateway"} :
      K8sState(ready, address) # "Pending" =>
        K8sEndpoint([mode |-> mode, route |-> route], address) # "none"
BY DEF K8sState, K8sEndpoint

\* A secure runtime that the configuration names is what the containers run in.
LEMMA SecureRuntimeKept ==
  \A platform \in DOMAIN DefaultRuntimes :
    \A secure \in [type : {"", "gvisor", "kata", "firecracker"},
                   docker : {"", "given"}, k8s : {"", "given"}] :
      SecureRuntimeOk(platform, secure) =>
        (SecureRuntime(platform, secure) = "none" <=> secure.type = "")
<1> SUFFICES ASSUME NEW platform \in DOMAIN DefaultRuntimes,
                    NEW secure \in [type : {"", "gvisor", "kata", "firecracker"},
                                    docker : {"", "given"}, k8s : {"", "given"}],
                    SecureRuntimeOk(platform, secure)
             PROVE  SecureRuntime(platform, secure) = "none" <=> secure.type = ""
  OBVIOUS
<1> DEFINE given == IF platform = "docker" THEN secure.docker ELSE secure.k8s
<1>1. platform \in {"docker", "kubernetes"}
  BY DEF DefaultRuntimes
<1>2. CASE secure.type = ""
  BY <1>2 DEF SecureRuntime
<1>3. CASE secure.type # "" /\ given # ""
  <2>1. SecureRuntime(platform, secure) = given
    BY <1>3 DEF SecureRuntime
  <2> QED
    BY <1>1, <1>3, <2>1
<1>4. CASE secure.type # "" /\ given = ""
  <2>1. CASE platform = "docker"
    <3>1. secure.type \in {"gvisor", "kata"}
      BY <1>4, <2>1 DEF SecureRuntimeOk
    <3>2. /\ DOMAIN DefaultRuntimes[platform] = {"gvisor", "kata"}
          /\ DefaultRuntimes[platform]["gvisor"] = "runsc"
          /\ DefaultRuntimes[platform]["kata"] = "kata-runtime"
      BY <2>1 DEF DefaultRuntimes
    <3> QED
      BY <1>4, <3>1, <3>2 DEF SecureRuntime
  <2>2. CASE platform = "kubernetes"
    <3>1. /\ DOMAIN DefaultRuntimes[platform] = {"gvisor", "kata", "firecracker"}
          /\ DefaultRuntimes[platform]["gvisor"] = "gvisor"
          /\ DefaultRuntimes[platform]["kata"] = "kata-qemu"
          /\ DefaultRuntimes[platform]["firecracker"] = "kata-fc"
      BY <2>2 DEF DefaultRuntimes
    <3> QED
      BY <1>4, <3>1 DEF SecureRuntime
  <2> QED
    BY <1>1, <2>1, <2>2
<1> QED
  BY <1>2, <1>3, <1>4

\* The same for the two ports and the configurations that the run looks at.
LEMMA EndpointsReachAll == EndpointsReach
<1>1. ASSUME NEW config \in Configs, NEW policy \in BOOLEAN, NEW port \in {80, HttpPort}
      PROVE  LET request == [ScanRequest(<<>>, 0) EXCEPT !.policy = policy]
                 published == Published(request, config, 1, 2)
                 endpoint == GetEndpoint(PortLabels(request, config, 1, 2), config, port)
             IN  DockerAdmits(request, config) =>
                   IF published = <<>> THEN endpoint = Endpoint(port, "port")
                   ELSE endpoint \in {Endpoint(published[p], IF p = port THEN "port" ELSE "execd") :
                                        p \in {ExecdPort, HttpPort} \cap {ExecdPort, port}}
  <2> DEFINE request == [ScanRequest(<<>>, 0) EXCEPT !.policy = policy]
             published == Published(request, config, 1, 2)
             endpoint == GetEndpoint(PortLabels(request, config, 1, 2), config, port)
             Behind(p) == IF p = port THEN "port" ELSE "execd"
  <2> SUFFICES ASSUME DockerAdmits(request, config)
               PROVE  IF published = <<>> THEN endpoint = Endpoint(port, "port")
                      ELSE endpoint \in {Endpoint(published[p], Behind(p)) :
                                           p \in {ExecdPort, HttpPort} \cap {ExecdPort, port}}
    OBVIOUS
  <2>1. IF published = <<>> THEN endpoint = Endpoint(port, "port")
        ELSE endpoint = IF port = HttpPort THEN Endpoint(published[HttpPort], "port")
                                       ELSE Endpoint(published[ExecdPort], "execd")
    <3> HIDE DEF request
    <3> QED
      BY EndpointLeads, Zenon
  <2>2. IF port = HttpPort
        THEN HttpPort \in {ExecdPort, HttpPort} \cap {ExecdPort, port} /\ Behind(HttpPort) = "port"
        ELSE ExecdPort \in {ExecdPort, HttpPort} \cap {ExecdPort, port} /\ Behind(ExecdPort) = "execd"
    <3>1. port # ExecdPort
      BY DEF HttpPort, ExecdPort
    <3> QED
      BY <3>1
  <2> HIDE DEF request, published, endpoint, Behind
  <2> QED
    BY <2>1, <2>2
<1> QED
  BY <1>1, AddressedHasEndpoint, SecureRuntimeKept, Zenon DEF EndpointsReach

\* Under every configuration that is accepted, an endpoint that is told leads to
\* the port, an addressed BatchSandbox has one, and containers run in the secure
\* runtime that is configured (get_endpoint, get_status, SecureRuntimeResolver).
THEOREM EndpointsHold == Spec => []EndpointsPublished
<1>1. EndpointsPublished
  BY EndpointsReachAll DEF EndpointsPublished
<1> QED
  BY <1>1, PTL
-----------------------------------------------------------------------------
\* Induction up to a bound, over a set of numbers.
LEMMA Climbs ==
  ASSUME NEW L \in Nat, NEW T, 0 \in T, \A n \in 1..L : n - 1 \in T => n \in T
  PROVE  \A n \in 0..L : n \in T
<1> SUFFICES ASSUME NEW least \in 0..L, least \notin T
             PROVE  FALSE
  OBVIOUS
<1> DEFINE missing == {n \in 0..L : n \notin T}
<1>1. missing \subseteq Nat /\ missing # {} /\ \A n \in 0..L : n \in missing <=> n \notin T
  OBVIOUS
<1> HIDE DEF missing
<1>2. PICK m \in missing : \A k \in missing : ~ (<<k, m>> \in OpToRel(<, Nat))
  BY <1>1, NatLessThanWellFounded, WFMin
<1>3. m \in Nat /\ \A k \in missing : k \in Nat /\ ~ (k < m)
  BY <1>1, <1>2 DEF OpToRel
<1>4. m \in 0..L /\ m \notin T
  BY <1>1, <1>2, <1>3 DEF missing
<1>5. m # 0
  BY <1>4
<1>6. m - 1 \in T
  BY <1>1, <1>3, <1>4, <1>5
<1> QED
  BY <1>4, <1>5, <1>6

\* A function that a step computes from its value before.
Runs(f, base, L, next) == f[0] = base /\ \A n \in 1..L : f[n] = next[n][f[n - 1]]

\* A recursive function along 0..L exists when every step stays in a set.
LEMMA RecursionExists ==
  ASSUME NEW S, NEW base \in S, NEW L \in Nat, NEW next \in [1..L -> [S -> S]]
  PROVE  \E f \in [0..L -> S] : Runs(f, base, L, next)
<1> DEFINE Run(f, k) == Runs(f, base, k, next)
           T == {k \in 0..L : \E f \in [0..k -> S] : Run(f, k)}
<1>1. 0 \in T
  <2> DEFINE f == [n \in 0..0 |-> base]
  <2>1. f \in [0..0 -> S] /\ Run(f, 0) /\ 0 \in 0..L
    BY DEF Runs
  <2> HIDE DEF f, Run
  <2> QED
    BY <2>1
<1>2. ASSUME NEW k \in 1..L, k - 1 \in T
      PROVE  k \in T
  <2>1. PICK f \in [0..(k - 1) -> S] : Run(f, k - 1)
    BY <1>2
  <2> DEFINE g == [n \in 0..k |-> IF n = k THEN next[k][f[k - 1]] ELSE f[n]]
  <2>2. next[k][f[k - 1]] \in S
    <3>1. f[k - 1] \in S /\ next[k] \in [S -> S]
      OBVIOUS
    <3> QED
      BY <3>1
  <2>3. g \in [0..k -> S]
    BY <2>2
  <2>4. Run(g, k)
    <3>1. \A n \in 1..k : g[n] = IF n = k THEN next[k][f[k - 1]] ELSE f[n]
      OBVIOUS
    <3>2. \A n \in 0..(k - 1) : g[n] = f[n]
      OBVIOUS
    <3> HIDE DEF g
    <3> QED
      BY <2>1, <3>1, <3>2 DEF Runs
  <2> HIDE DEF g, Run
  <2> QED
    BY <2>3, <2>4
<1>3. \A k \in 0..L : k \in T
  <2> HIDE DEF T
  <2> QED
    BY <1>1, <1>2, Climbs
<1>4. L \in T
  BY <1>3
<1> QED
  BY <1>4

\* Its values stay where its steps do.
LEMMA RecursionStays ==
  ASSUME NEW S, NEW L \in Nat, NEW next \in [1..L -> [S -> S]], NEW f, f[0] \in S,
         \A n \in 1..L : f[n - 1] \in S => f[n] = next[n][f[n - 1]]
  PROVE  \A n \in 0..L : f[n] \in S
<1> DEFINE T == {n \in 0..L : f[n] \in S}
<1>1. 0 \in T
  OBVIOUS
<1>2. ASSUME NEW n \in 1..L, n - 1 \in T PROVE n \in T
  <2>1. f[n - 1] \in S /\ next[n] \in [S -> S] /\ n \in 0..L
    BY <1>2
  <2>2. f[n] = next[n][f[n - 1]]
    BY <2>1
  <2> QED
    BY <2>1, <2>2
<1>3. \A n \in 0..L : n \in T
  <2> HIDE DEF T
  <2> QED
    BY <1>1, <1>2, Climbs
<1> QED
  BY <1>3

\* Induction over sequences.
LEMMA Grows ==
  ASSUME NEW S, NEW T, <<>> \in T, \A s \in Seq(S), e \in S : s \in T => Append(s, e) \in T
  PROVE  \A s \in Seq(S) : s \in T
<1> SUFFICES ASSUME NEW t \in Seq(S)
             PROVE  t \in T
  OBVIOUS
<1> DEFINE L == Len(t)
           K == {n \in 0..L : \A s \in Seq(S) : Len(s) = n => s \in T}
<1>1. L \in Nat /\ 0 \in 0..L /\ L \in 0..L
  OBVIOUS
<1>2. 0 \in K
  <2>1. \A s \in Seq(S) : Len(s) = 0 => s = <<>>
    OBVIOUS
  <2> QED
    BY <1>1, <2>1
<1>3. ASSUME NEW n \in 1..L, n - 1 \in K PROVE n \in K
  <2>1. ASSUME NEW s \in Seq(S), Len(s) = n PROVE s \in T
    <3>1. s # <<>>
      BY <2>1
    <3>2. PICK u \in Seq(S), e \in S : s = Append(u, e)
      BY <3>1, SequenceEmptyOrAppend
    <3>3. Len(u) = n - 1
      BY <2>1, <3>2
    <3> QED
      BY <1>3, <3>2, <3>3
  <2> QED
    BY <2>1
<1>4. \A n \in 0..L : n \in K
  <2> HIDE DEF K, L
  <2> QED
    BY <1>1, <1>2, <1>3, Climbs
<1> QED
  BY <1>1, <1>4

-----------------------------------------------------------------------------
\* The path that is done stays one.
LEMMA EnteredPath ==
  ASSUME NEW S, NEW done \in Seq(S), NEW s \in S
  PROVE  Entered(done, s) \in Seq(S)
<1>1. done # <<>> => Front(done) \in Seq(S)
  BY SubSeqProperties DEF Front
<1>2. Append(done, s) \in Seq(S)
  OBVIOUS
<1> QED
  BY <1>1, <1>2 DEF Entered

NormFunction(a) == CHOOSE f : f = [n \in 0..Len(a) |-> IF n = 0 THEN <<>> ELSE Entered(f[n - 1], a[n])]

\* normpath enters one segment after another, starting with no path.
LEMMA NormRuns ==
  ASSUME NEW S, NEW a \in Seq(S)
  PROVE  /\ Norm(a) = NormFunction(a)[Len(a)]
         /\ NormFunction(a)[0] = <<>>
         /\ \A n \in 1..Len(a) : NormFunction(a)[n] = Entered(NormFunction(a)[n - 1], a[n])
         /\ \A n \in 0..Len(a) : NormFunction(a)[n] \in Seq(S)
<1> DEFINE L == Len(a)
           next == [n \in 1..L |-> [done \in Seq(S) |-> Entered(done, a[n])]]
<1>1. Norm(a) = NormFunction(a)[Len(a)]
  BY DEF Norm, NormFunction
<1>2. L \in Nat /\ <<>> \in Seq(S) /\ \A n \in 1..L : a[n] \in S
  OBVIOUS
<1> HIDE DEF L
<1>3. next \in [1..L -> [Seq(S) -> Seq(S)]]
  BY <1>2, EnteredPath
<1>4. PICK f \in [0..L -> Seq(S)] : Runs(f, <<>>, L, next)
  <2> HIDE DEF next
  <2> QED
    BY <1>2, <1>3, RecursionExists
<1>5. \A n \in 1..L : f[n] = Entered(f[n - 1], a[n])
  <2> TAKE n \in 1..L
  <2>1. f[n - 1] \in Seq(S)
    BY <1>2
  <2> QED
    BY <1>4, <2>1 DEF Runs
<1>6. f = [n \in 0..L |-> IF n = 0 THEN <<>> ELSE Entered(f[n - 1], a[n])]
  <2>1. \A n \in 0..L : f[n] = IF n = 0 THEN <<>> ELSE Entered(f[n - 1], a[n])
    BY <1>2, <1>4, <1>5 DEF Runs
  <2> QED
    BY <2>1
<1> DEFINE g == NormFunction(a)
<1>7. g = [n \in 0..L |-> IF n = 0 THEN <<>> ELSE Entered(g[n - 1], a[n])]
  BY <1>6 DEF NormFunction, L
<1> HIDE DEF g
<1>8. g[0] = <<>> /\ \A n \in 1..L : g[n] = Entered(g[n - 1], a[n])
  BY <1>2, <1>7
<1> DEFINE T == {n \in 0..L : g[n] \in Seq(S)}
<1> HIDE DEF next
<1>9. 0 \in T
  <2>1. 0 \in 0..L /\ g[0] = <<>>
    BY <1>2, <1>8
  <2> QED
    BY <1>2, <2>1
<1>10. ASSUME NEW n \in 1..L, n - 1 \in T PROVE n \in T
  <2>1. g[n - 1] \in Seq(S) /\ g[n] = Entered(g[n - 1], a[n]) /\ a[n] \in S /\ n \in 0..L
    BY <1>2, <1>8, <1>10
  <2>2. Entered(g[n - 1], a[n]) \in Seq(S)
    BY <2>1, EnteredPath
  <2> QED
    BY <2>1, <2>2
<1>11. \A n \in 0..L : n \in T
  <2> HIDE DEF T
  <2> QED
    BY <1>2, <1>9, <1>10, Climbs
<1> QED
  BY <1>1, <1>8, <1>11 DEF g, L

\* No segments, no path.
LEMMA NormEmpty == Norm(<<>>) = <<>>
<1>1. <<>> \in Seq({}) /\ Len(<<>>) = 0
  OBVIOUS
<1> QED
  BY <1>1, NormRuns

\* A normalised path has segments of the one it was made of.
LEMMA NormTyped ==
  ASSUME NEW S, NEW a \in Seq(S)
  PROVE  Norm(a) \in Seq(S)
BY NormRuns

\* The last segment is entered last.
LEMMA NormAppend ==
  ASSUME NEW S, NEW a \in Seq(S), NEW s \in S
  PROVE  Norm(Append(a, s)) = Entered(Norm(a), s)
<1> DEFINE b == Append(a, s)
           L == Len(a)
           f == NormFunction(a)
           g == NormFunction(b)
           T == {n \in 0..L : f[n] = g[n]}
<1>1. /\ b \in Seq(S) /\ L \in Nat /\ Len(b) = L + 1 /\ b[L + 1] = s
      /\ \A n \in 1..L : b[n] = a[n]
  OBVIOUS
<1> HIDE DEF b
<1>2. /\ Norm(a) = f[L] /\ f[0] = <<>> /\ \A n \in 1..L : f[n] = Entered(f[n - 1], a[n])
      /\ Norm(b) = g[L + 1] /\ g[0] = <<>> /\ \A n \in 1..(L + 1) : g[n] = Entered(g[n - 1], b[n])
  BY <1>1, NormRuns
<1> HIDE DEF L, f, g
<1>3. 0 \in T
  BY <1>1, <1>2
<1>4. ASSUME NEW n \in 1..L, n - 1 \in T PROVE n \in T
  BY <1>1, <1>2, <1>4
<1>5. \A n \in 0..L : n \in T
  <2> HIDE DEF T
  <2> QED
    BY <1>1, <1>3, <1>4, Climbs
<1>6. f[L] = g[L] /\ g[L + 1] = Entered(g[L], b[L + 1])
  BY <1>1, <1>2, <1>5
<1> QED
  BY <1>1, <1>2, <1>6 DEF b

\* One path is below another: their elements.
LEMMA PrefixIs ==
  ASSUME NEW S, NEW s \in Seq(S), NEW t \in Seq(S)
  PROVE  IsPrefix(s, t) <=> Len(s) <= Len(t) /\ \A i \in 1..Len(s) : s[i] = t[i]
<1>1. CASE Len(s) <= Len(t)
  <2>1. /\ \A i \in 1..Len(s) : SubSeq(s, 1, Len(s))[i] = s[i] /\ SubSeq(t, 1, Len(s))[i] = t[i]
        /\ SubSeq(s, 1, Len(s)) = s
        /\ SubSeq(t, 1, Len(s)) \in Seq(S) /\ Len(SubSeq(t, 1, Len(s))) = Len(s)
    BY <1>1
  <2>2. SubSeq(s, 1, Len(s)) = SubSeq(t, 1, Len(s)) <=> \A i \in 1..Len(s) : s[i] = t[i]
    BY <2>1, SeqEqual
  <2> QED
    BY <1>1, <2>2 DEF IsPrefix
<1> QED
  BY <1>1 DEF IsPrefix

\* A path is a prefix of itself,
LEMMA PrefixSelf ==
  ASSUME NEW S, NEW s \in Seq(S)
  PROVE  IsPrefix(s, s)
BY PrefixIs

\* and of each that it is continued to,
LEMMA PrefixAppend ==
  ASSUME NEW S, NEW s \in Seq(S), NEW t \in Seq(S), NEW e \in S, IsPrefix(s, t)
  PROVE  IsPrefix(s, Append(t, e))
<1>1. Append(t, e) \in Seq(S) /\ Len(Append(t, e)) = Len(t) + 1 /\ Len(t) \in Nat /\ Len(s) \in Nat
      /\ \A i \in 1..Len(t) : Append(t, e)[i] = t[i]
  OBVIOUS
<1>2. Len(s) <= Len(t) /\ \A i \in 1..Len(s) : s[i] = t[i]
  BY PrefixIs
<1>3. \A i \in 1..Len(s) : i \in 1..Len(t)
  BY <1>1, <1>2
<1> DEFINE u == Append(t, e)
<1>4. u \in Seq(S) /\ Len(s) <= Len(u) /\ \A i \in 1..Len(s) : s[i] = u[i]
  BY <1>1, <1>2, <1>3
<1> HIDE DEF u
<1>5. IsPrefix(s, u)
  BY <1>4, PrefixIs
<1> QED
  BY <1>5 DEF u

\* and of what those are prefixes of.
LEMMA PrefixTrans ==
  ASSUME NEW S, NEW s \in Seq(S), NEW t \in Seq(S), NEW u \in Seq(S),
         IsPrefix(s, t), IsPrefix(t, u)
  PROVE  IsPrefix(s, u)
<1>1. Len(s) <= Len(t) /\ \A i \in 1..Len(s) : s[i] = t[i]
  BY PrefixIs
<1>2. Len(t) <= Len(u) /\ \A i \in 1..Len(t) : t[i] = u[i]
  BY PrefixIs
<1>3. Len(s) \in Nat /\ Len(t) \in Nat /\ Len(u) \in Nat
  OBVIOUS
<1>4. Len(s) <= Len(u) /\ \A i \in 1..Len(s) : s[i] = u[i]
  BY <1>1, <1>2, <1>3
<1> QED
  BY <1>4, PrefixIs

\* A path that goes down only stays below where it begins.
LEMMA NormGrows ==
  ASSUME NEW S, NEW a \in Seq(S), NEW b \in Seq(S), \A i \in DOMAIN b : b[i] # ".."
  PROVE  IsPrefix(Norm(a), Norm(a \o b))
<1> DEFINE Down == {c \in Seq(S) : (\A i \in 1..Len(c) : c[i] # "..") => IsPrefix(Norm(a), Norm(a \o c))}
<1>1. <<>> \in Down
  <2>1. Norm(a) \in Seq(S) /\ a \o <<>> = a /\ <<>> \in Seq(S)
    BY NormTyped, ConcatEmptySeq
  <2> QED
    BY <2>1, PrefixSelf
<1>2. ASSUME NEW c \in Seq(S), NEW e \in S, c \in Down PROVE Append(c, e) \in Down
  <2>1. Append(c, e) \in Seq(S) /\ Len(Append(c, e)) = Len(c) + 1 /\ Append(c, e)[Len(c) + 1] = e
        /\ Len(c) \in Nat /\ \A i \in 1..Len(c) : Append(c, e)[i] = c[i]
    OBVIOUS
  <2>2. ASSUME \A i \in 1..Len(Append(c, e)) : Append(c, e)[i] # ".."
        PROVE  IsPrefix(Norm(a), Norm(a \o Append(c, e)))
    <3>1. e # ".." /\ \A i \in 1..Len(c) : c[i] # ".."
      BY <2>1, <2>2
    <3>2. IsPrefix(Norm(a), Norm(a \o c))
      BY <1>2, <3>1
    <3>3. a \o c \in Seq(S) /\ a \o Append(c, e) = Append(a \o c, e)
      OBVIOUS
    <3>4. Norm(a \o Append(c, e)) = Entered(Norm(a \o c), e)
      BY <3>3, NormAppend
    <3>5. Norm(a) \in Seq(S) /\ Norm(a \o c) \in Seq(S)
      BY <3>3, NormTyped
    <3>6. Entered(Norm(a \o c), e) \in {Norm(a \o c), Append(Norm(a \o c), e)}
      BY <3>1 DEF Entered
    <3> QED
      BY <3>2, <3>4, <3>5, <3>6, PrefixAppend
  <2> QED
    BY <2>1, <2>2
<1>3. b \in Down
  <2> HIDE DEF Down
  <2> QED
    BY <1>1, <1>2, Grows
<1>4. DOMAIN b = 1..Len(b)
  OBVIOUS
<1> QED
  BY <1>3, <1>4

\* A path with no segments to leave out.
Dots == {"", ".", ".."}
Plain(a) == \A i \in 1..Len(a) : a[i] \notin Dots

\* A path is plain if it is up to its last segment, and that one is.
LEMMA PlainAppend ==
  ASSUME NEW S, NEW c \in Seq(S), NEW e \in S
  PROVE  Plain(Append(c, e)) <=> Plain(c) /\ e \notin Dots
<1> DEFINE u == Append(c, e)
           L == Len(c)
<1>1. L \in Nat /\ Len(u) = L + 1 /\ u[L + 1] = e /\ \A i \in 1..L : u[i] = c[i]
  OBVIOUS
<1> HIDE DEF u, L
<1>2. Plain(u) <=> \A i \in 1..(L + 1) : u[i] \notin Dots
  BY <1>1 DEF Plain
<1>3. Plain(c) <=> \A i \in 1..L : u[i] \notin Dots
  BY <1>1 DEF Plain, L
<1>4. Plain(u) <=> Plain(c) /\ u[L + 1] \notin Dots
  BY <1>1, <1>2, <1>3
<1> QED
  BY <1>1, <1>4 DEF u

\* What a step makes of a plain path, and of one without dots.
LEMMA EnteredPlain ==
  ASSUME NEW S, NEW done \in Seq(S), NEW e \in S, Plain(done)
  PROVE  /\ Plain(Entered(done, e))
         /\ e \notin Dots => Entered(done, e) = Append(done, e)
<1>1. CASE e \notin Dots
  <2>1. Entered(done, e) = Append(done, e)
    BY <1>1 DEF Entered, Dots
  <2> QED
    BY <1>1, <2>1, PlainAppend
<1>2. CASE e \in {"", "."} \/ done = <<>>
  <2>1. e \in Dots => Entered(done, e) = done
    BY <1>2 DEF Entered, Dots
  <2> QED
    BY <1>1, <2>1
<1>3. CASE e = ".." /\ done # <<>>
  <2>1. PICK c \in Seq(S), last \in S : done = Append(c, last)
    BY <1>3, SequenceEmptyOrAppend
  <2>2. Front(Append(c, last)) = c
    <3>1. Len(Append(c, last)) = Len(c) + 1 /\ Len(c) \in Nat
          /\ \A i \in 1..Len(c) : Append(c, last)[i] = c[i]
      OBVIOUS
    <3> DEFINE u == Append(c, last)
               v == SubSeq(u, 1, Len(u) - 1)
    <3>2. Len(u) - 1 = Len(c) /\ \A i \in 1..Len(c) : u[i] \in S
      BY <3>1
    <3> HIDE DEF u
    <3>3. v \in Seq(S) /\ Len(v) = Len(c) /\ \A i \in 1..Len(c) : v[i] = u[i]
      BY <3>1, <3>2, SubSeqProperties
    <3> HIDE DEF v
    <3>4. v = c
      BY <3>1, <3>3, SeqEqual DEF u
    <3> QED
      BY <3>4 DEF v, u, Front
  <2>3. Plain(c)
    BY <2>1, PlainAppend
  <2>4. Entered(done, e) = c
    BY <1>3, <2>1, <2>2 DEF Entered
  <2> QED
    BY <1>3, <2>3, <2>4 DEF Dots
<1> QED
  BY <1>1, <1>2, <1>3 DEF Dots

\* Nothing is left out of a normalised path any more,
LEMMA NormPlain ==
  ASSUME NEW S, NEW a \in Seq(S)
  PROVE  Plain(Norm(a))
<1> DEFINE T == {c \in Seq(S) : Plain(Norm(c))}
<1>1. <<>> \in T
  <2>1. Plain(<<>>) /\ <<>> \in Seq(S)
    BY DEF Plain
  <2> QED
    BY <2>1, NormEmpty
<1>2. ASSUME NEW c \in Seq(S), NEW e \in S, c \in T PROVE Append(c, e) \in T
  <2>1. Plain(Norm(c)) /\ Append(c, e) \in Seq(S) /\ Norm(c) \in Seq(S)
    BY <1>2, NormTyped
  <2>2. Norm(Append(c, e)) = Entered(Norm(c), e)
    BY NormAppend
  <2>3. Plain(Entered(Norm(c), e))
    BY <2>1, EnteredPlain
  <2> QED
    BY <2>1, <2>2, <2>3
<1>3. a \in T
  <2> HIDE DEF T
  <2> QED
    BY <1>1, <1>2, Grows
<1> QED
  BY <1>3

\* and a path of which nothing is left out stays as it is.
LEMMA PlainNorm ==
  ASSUME NEW S, NEW a \in Seq(S), Plain(a)
  PROVE  Norm(a) = a
<1> DEFINE T == {c \in Seq(S) : Plain(c) => Norm(c) = c}
<1>1. <<>> \in T
  BY NormEmpty
<1>2. ASSUME NEW c \in Seq(S), NEW e \in S, c \in T PROVE Append(c, e) \in T
  <2>1. Append(c, e) \in Seq(S) /\ Norm(Append(c, e)) = Entered(Norm(c), e)
    BY NormAppend
  <2>2. ASSUME Plain(Append(c, e)) PROVE Norm(Append(c, e)) = Append(c, e)
    <3>1. Plain(c) /\ e \notin Dots
      BY <2>2, PlainAppend
    <3>2. Entered(c, e) = Append(c, e)
      BY <3>1, EnteredPlain
    <3>3. Norm(c) = c
      BY <1>2, <3>1
    <3> QED
      BY <2>1, <3>2, <3>3
  <2> QED
    BY <2>1, <2>2
<1>3. a \in T
  <2> HIDE DEF T
  <2> QED
    BY <1>1, <1>2, Grows
<1> QED
  BY <1>3

\* normpath of a path that it gave changes nothing.
LEMMA NormTwice ==
  ASSUME NEW S, NEW a \in Seq(S)
  PROVE  Norm(Norm(a)) = Norm(a)
BY NormTyped, NormPlain, PlainNorm

\* A volume with sets that have one element in all.
LEMMA OneInAll ==
  ASSUME NEW A, NEW B, NEW C, IsFiniteSet(A), IsFiniteSet(B), IsFiniteSet(C),
         Cardinality(A) + Cardinality(B) + Cardinality(C) = 1
  PROVE  \/ (\E x : A = {x}) /\ B = {} /\ C = {}
         \/ (\E x : B = {x}) /\ A = {} /\ C = {}
         \/ (\E x : C = {x}) /\ A = {} /\ B = {}
<1>1. Cardinality(A) \in Nat /\ Cardinality(B) \in Nat /\ Cardinality(C) \in Nat
  BY FS_CardinalityType
<1>2. \/ Cardinality(A) = 1 /\ Cardinality(B) = 0 /\ Cardinality(C) = 0
      \/ Cardinality(B) = 1 /\ Cardinality(A) = 0 /\ Cardinality(C) = 0
      \/ Cardinality(C) = 1 /\ Cardinality(A) = 0 /\ Cardinality(B) = 0
  BY <1>1
<1> QED
  BY <1>2, FS_EmptySet, FS_Singleton

\* A volume of finite sets, whose paths are made of S.
Proper(v, S) ==
  /\ IsFiniteSet(v.host) /\ IsFiniteSet(v.pvc) /\ IsFiniteSet(v.ossfs)
  /\ v.sub.segments \in Seq(S)
  /\ \A path \in v.host : path.segments \in Seq(S)

\* What is bound of a host path that is admitted.
LEMMA HostBound ==
  ASSUME NEW S, NEW path, NEW sub, NEW allowed, NEW source,
         path.segments \in Seq(S), sub.segments \in Seq(S),
         \A prefix \in allowed : prefix \in Seq(S),
         SubPathOk(sub), HostPathOk(path, allowed),
         source \in {path.segments, Norm(path.segments \o sub.segments)}
  PROVE  /\ IsPrefix(Norm(path.segments), Norm(source))
         /\ allowed # {} => \E prefix \in allowed : IsPrefix(Norm(prefix), Norm(source))
<1> DEFINE p == path.segments
           b == sub.segments
<1>1. p \in Seq(S) /\ b \in Seq(S) /\ p \o b \in Seq(S) /\ source \in {p, Norm(p \o b)}
      /\ \A i \in DOMAIN b : b[i] # ".."
  BY DEF SubPathOk
<1>2. allowed # {} => \E prefix \in allowed : Under(Norm(p), Norm(prefix))
  BY DEF HostPathOk
<1> HIDE DEF p, b
<1>3. Norm(p) \in Seq(S) /\ Norm(p \o b) \in Seq(S) /\ source \in Seq(S) /\ Norm(source) \in Seq(S)
  BY <1>1, NormTyped
<1>4. Norm(source) \in {Norm(p), Norm(p \o b)}
  BY <1>1, NormTwice
<1>5. IsPrefix(Norm(p), Norm(source))
  BY <1>1, <1>3, <1>4, NormGrows, PrefixSelf
<1>6. ASSUME allowed # {}
      PROVE  \E prefix \in allowed : IsPrefix(Norm(prefix), Norm(source))
  <2>1. PICK prefix \in allowed : Under(Norm(p), Norm(prefix))
    BY <1>2, <1>6
  <2>2. Norm(prefix) \in Seq(S)
    BY NormTyped
  <2>3. IsPrefix(Norm(prefix), Norm(p))
    BY <1>3, <2>1, PrefixSelf DEF Under, IsStrictPrefix
  <2>4. IsPrefix(Norm(prefix), Norm(source))
    BY <1>3, <1>5, <2>2, <2>3, PrefixTrans
  <2> QED
    BY <2>4
<1> QED
  BY <1>5, <1>6 DEF p

\* Whatever volumes a request asks for: what Docker binds lies where it was
\* admitted.
THEOREM BindsAdmitted ==
  ASSUME NEW S, NEW volumes, NEW allowed, NEW i \in DOMAIN volumes, Proper(volumes[i], S),
         \A prefix \in allowed : prefix \in Seq(S),
         DockerVolumesOk(volumes, allowed)
  PROVE  BindRight(volumes, i, Binds(volumes)[i], allowed)
<1> DEFINE v == volumes[i]
           source == Binds(volumes)[i]
<1>1. /\ SubPathOk(v.sub)
      /\ Cardinality(v.host) + Cardinality(v.pvc) + Cardinality(v.ossfs) = 1
      /\ \A path \in v.host : HostPathOk(path, allowed)
      /\ DockerPvcOk(v) /\ DockerOssfsOk(v)
  BY DEF DockerVolumesOk, VolumesValid
<1>2. source = CASE v.host # {} -> Joined((CHOOSE path \in v.host : TRUE).segments, v.sub)
                 [] v.host = {} /\ v.pvc # {} ->
                      IF v.sub = NoSub THEN <<CHOOSE c \in v.pvc : TRUE>>
                      ELSE Joined(NamedVolumes[CHOOSE c \in v.pvc : TRUE].mountpoint, v.sub)
                 [] OTHER -> OssfsPath(v, CHOOSE bucket \in v.ossfs : TRUE)
  BY Zenon DEF Binds
<1>3. \/ (\E x : v.host = {x}) /\ v.pvc = {} /\ v.ossfs = {}
      \/ (\E x : v.pvc = {x}) /\ v.host = {} /\ v.ossfs = {}
      \/ (\E x : v.ossfs = {x}) /\ v.host = {} /\ v.pvc = {}
  BY <1>1, OneInAll DEF Proper
<1>4. CASE v.host # {}
  <2>1. PICK path : v.host = {path} /\ v.pvc = {} /\ v.ossfs = {}
    BY <1>3, <1>4
  <2>2. source = Joined(path.segments, v.sub)
    <3>1. (CHOOSE x \in v.host : TRUE) = path
      BY <2>1
    <3> QED
      BY <1>2, <1>4, <3>1
  <2> HIDE DEF source
  <2>3. source \in {path.segments, Norm(path.segments \o v.sub.segments)}
    BY <2>2 DEF Joined
  <2>4. path.segments \in Seq(S) /\ v.sub.segments \in Seq(S) /\ HostPathOk(path, allowed)
    BY <1>1, <2>1 DEF Proper
  <2>5. /\ IsPrefix(Norm(path.segments), Norm(source))
        /\ allowed # {} => \E prefix \in allowed : IsPrefix(Norm(prefix), Norm(source))
    BY <1>1, <2>3, <2>4, HostBound
  <2>6. BindRight(volumes, i, source, allowed)
    BY <2>1, <2>5 DEF BindRight
  <2> QED
    BY <2>6 DEF source
<1>5. CASE v.pvc # {}
  <2>1. PICK claim : v.pvc = {claim} /\ v.host = {} /\ v.ossfs = {}
    BY <1>3, <1>5
  <2>2. source = IF v.sub = NoSub THEN <<claim>> ELSE Joined(NamedVolumes[claim].mountpoint, v.sub)
    <3>1. (CHOOSE x \in v.pvc : TRUE) = claim
      BY <2>1
    <3> QED
      BY <1>2, <1>5, <2>1, <3>1
  <2> HIDE DEF source
  <2>3. v.sub # NoSub => /\ NamedVolumes[claim].mountpoint # <<>>
                         /\ IsPrefix(NamedVolumes[claim].mountpoint, source)
    BY <1>1, <2>1, <2>2 DEF DockerPvcOk
  <2>4. BindRight(volumes, i, source, allowed)
    BY <2>1, <2>2, <2>3 DEF BindRight
  <2> QED
    BY <2>4 DEF source
<1>6. CASE v.ossfs # {}
  <2>1. PICK bucket : v.ossfs = {bucket} /\ v.host = {} /\ v.pvc = {}
    BY <1>3, <1>6
  <2>2. source = OssfsPath(v, bucket)
    <3>1. (CHOOSE x \in v.ossfs : TRUE) = bucket
      BY <2>1
    <3> QED
      BY <1>2, <2>1, <3>1
  <2>3. source \in Mounted(volumes)
    BY <2>1, <2>2 DEF Mounted
  <2> HIDE DEF source
  <2>4. BindRight(volumes, i, source, allowed)
    BY <1>1, <2>1, <2>2, <2>3 DEF BindRight, DockerOssfsOk
  <2> QED
    BY <2>4 DEF source
<1> QED
  BY <1>3, <1>4, <1>5, <1>6

\* The same for the host path of a pod.
THEOREM HostPathsAdmitted ==
  ASSUME NEW S, NEW volumes, NEW allowed, NEW i \in DOMAIN volumes, Proper(volumes[i], S),
         \A prefix \in allowed : prefix \in Seq(S),
         VolumesValid(volumes, allowed), NEW path \in volumes[i].host
  PROVE  BindRight(volumes, i, Norm(path.segments \o volumes[i].sub.segments), allowed)
<1> DEFINE v == volumes[i]
           source == Norm(path.segments \o v.sub.segments)
<1>1. /\ SubPathOk(v.sub)
      /\ Cardinality(v.host) + Cardinality(v.pvc) + Cardinality(v.ossfs) = 1
      /\ HostPathOk(path, allowed)
  BY DEF VolumesValid
<1>2. v.host = {path} /\ v.pvc = {} /\ v.ossfs = {}
  BY <1>1, OneInAll DEF Proper
<1>3. path.segments \in Seq(S) /\ v.sub.segments \in Seq(S)
  BY DEF Proper
<1>4. /\ IsPrefix(Norm(path.segments), Norm(source))
      /\ allowed # {} => \E prefix \in allowed : IsPrefix(Norm(prefix), Norm(source))
  BY <1>1, <1>3, HostBound
<1> HIDE DEF source
<1>5. BindRight(volumes, i, source, allowed)
  BY <1>2, <1>4 DEF BindRight
<1> QED
  BY <1>5 DEF source
-----------------------------------------------------------------------------
(* The listings.                                                           *)

\* The sandboxes of a listing are numbered, and have a time each.
Listing(all, n) == n \in Nat /\ \A i \in 1..n : all[i].created \in Int

\* Every two of them come one before the other.
LEMMA BeforeOrders ==
  ASSUME NEW n, NEW all, Listing(all, n)
  PROVE  /\ \A i \in 1..n : ~Before(all, i, i)
         /\ \A i, j \in 1..n : i # j => Before(all, i, j) \/ Before(all, j, i)
         /\ \A i, j, k \in 1..n : Before(all, i, j) /\ Before(all, j, k) => Before(all, i, k)
BY DEF Listing, Before

\* The place of one that comes before is lower.
LEMMA PlaceOrders ==
  ASSUME NEW n, NEW all, Listing(all, n), NEW matching \in SUBSET (1..n)
  PROVE  /\ IsFiniteSet(matching)
         /\ \A i \in matching : Place(all, matching, i) \in 1..Cardinality(matching)
         /\ \A i, j \in matching :
              Before(all, i, j) => Place(all, matching, i) < Place(all, matching, j)
<1> DEFINE Earlier(i) == {j \in matching : Before(all, j, i)}
<1>1. IsFiniteSet(matching) /\ Cardinality(matching) \in Nat
  <2>1. n \in Nat
    BY DEF Listing
  <2>2. IsFiniteSet(1..n)
    BY <2>1, FS_Interval
  <2> QED
    BY <2>2, FS_Subset, FS_CardinalityType
<1>2. \A i : Earlier(i) \subseteq matching
  OBVIOUS
<1>3. \A i : IsFiniteSet(Earlier(i)) /\ Cardinality(Earlier(i)) \in Nat
  <2> HIDE DEF Earlier
  <2> QED
    BY <1>1, <1>2, FS_Subset, FS_CardinalityType
<1>4. ASSUME NEW i \in matching, NEW T \in SUBSET matching, Earlier(i) \subseteq T, i \in T
      PROVE  Cardinality(Earlier(i)) < Cardinality(T)
  <2>1. i \notin Earlier(i)
    BY BeforeOrders
  <2> HIDE DEF Earlier
  <2>2. IsFiniteSet(T) /\ Cardinality(T) \in Nat
    BY <1>1, FS_Subset, FS_CardinalityType
  <2>3. Earlier(i) \in SUBSET T /\ Earlier(i) # T
    BY <1>4, <2>1
  <2> QED
    BY <1>3, <2>2, <2>3, FS_Subset
<1>5. \A i \in matching : Place(all, matching, i) = Cardinality(Earlier(i)) + 1
  BY DEF Place
<1>6. \A i \in matching : Place(all, matching, i) \in 1..Cardinality(matching)
  <2> TAKE i \in matching
  <2>1. Cardinality(Earlier(i)) < Cardinality(matching)
    BY <1>2, <1>4
  <2> HIDE DEF Earlier
  <2> QED
    BY <1>1, <1>3, <1>5, <2>1
<1>7. ASSUME NEW i \in matching, NEW j \in matching, Before(all, i, j)
      PROVE  Place(all, matching, i) < Place(all, matching, j)
  <2>1. Earlier(i) \subseteq Earlier(j) /\ i \in Earlier(j)
    BY <1>7, BeforeOrders
  <2>2. Cardinality(Earlier(i)) < Cardinality(Earlier(j))
    BY <1>2, <1>4, <2>1
  <2> HIDE DEF Earlier
  <2> QED
    BY <1>3, <1>5, <2>2
<1> QED
  BY <1>1, <1>6, <1>7

\* Every one that matches is listed once, and one that comes before is listed
\* before.
LEMMA ListedOnce ==
  ASSUME NEW n, NEW all, Listing(all, n), NEW matching \in SUBSET (1..n)
  PROVE  LET sorted == NewestFirst(all, matching)
         IN  /\ sorted \in Seq(matching) /\ Len(sorted) = Cardinality(matching)
             /\ ToSet(sorted) = matching
             /\ \A i, j \in 1..Len(sorted) : i < j => Before(all, sorted[i], sorted[j])
<1> DEFINE N == Cardinality(matching)
           place == [i \in matching |-> Place(all, matching, i)]
           sorted == NewestFirst(all, matching)
<1>1. IsFiniteSet(matching) /\ N \in Nat
  BY PlaceOrders, FS_CardinalityType
<1>2. \A i \in matching : Place(all, matching, i) \in 1..N
  BY PlaceOrders
<1>3. \A i, j \in matching : Place(all, matching, i) = Place(all, matching, j) => i = j
  <2> SUFFICES ASSUME NEW i \in matching, NEW j \in matching, i # j
               PROVE  Place(all, matching, i) # Place(all, matching, j)
    OBVIOUS
  <2>1. Before(all, i, j) \/ Before(all, j, i)
    BY BeforeOrders
  <2>2. /\ Place(all, matching, i) \in Nat /\ Place(all, matching, j) \in Nat
        /\ \/ Place(all, matching, i) < Place(all, matching, j)
           \/ Place(all, matching, j) < Place(all, matching, i)
    <3>1. \A k \in 1..N : k \in Nat
      BY <1>1
    <3> QED
      BY <1>2, <2>1, <3>1, PlaceOrders
  <2> QED
    BY <2>2
<1>4. \A p \in 1..N : \E i \in matching : Place(all, matching, i) = p
  <2>1. place \in Injection(matching, 1..N)
    BY <1>2, <1>3 DEF Injection, IsInjective
  <2>2. IsFiniteSet(1..N) /\ Cardinality(1..N) = N
    BY <1>1, FS_Interval
  <2>3. place \in Surjection(matching, 1..N)
    <3> HIDE DEF place, N
    <3> QED
      BY <2>1, <2>2, FS_Injection DEF N
  <2> QED
    BY <2>3 DEF Surjection
<1>5. sorted = [p \in 1..N |-> CHOOSE i \in matching : Place(all, matching, i) = p]
  BY DEF NewestFirst
<1> HIDE DEF sorted, N
<1>6. \A p \in 1..N : sorted[p] \in matching /\ Place(all, matching, sorted[p]) = p
  BY <1>4, <1>5
<1>7. sorted \in Seq(matching) /\ Len(sorted) = N /\ DOMAIN sorted = 1..N
  BY <1>1, <1>5, <1>6
<1>8. ToSet(sorted) = matching
  <2>1. \A i \in matching : \E p \in 1..N : sorted[p] = i
    BY <1>2, <1>3, <1>6
  <2> QED
    BY <1>6, <1>7, <2>1 DEF ToSet
<1>9. ASSUME NEW p \in 1..N, NEW q \in 1..N, p < q
      PROVE  Before(all, sorted[p], sorted[q])
  <2>1. sorted[p] # sorted[q] /\ p \in Nat /\ q \in Nat /\ ~(q < p)
    BY <1>1, <1>6, <1>9
  <2>2. sorted[p] \in 1..n /\ sorted[q] \in 1..n
    BY <1>6
  <2>3. Before(all, sorted[p], sorted[q]) \/ Before(all, sorted[q], sorted[p])
    BY <2>1, <2>2, BeforeOrders
  <2>4. ~Before(all, sorted[q], sorted[p])
    BY <1>6, <2>1, PlaceOrders
  <2> QED
    BY <2>3, <2>4
<1> QED
  BY <1>7, <1>8, <1>9 DEF sorted, N

\* How many pages there are.
LEMMA PageCount ==
  ASSUME NEW N \in Nat, NEW size \in Nat \ {0}, NEW count, count = (N + size - 1) \div size
  PROVE  /\ count \in Nat /\ count <= N
         /\ \A p \in Nat : count <= p => N <= p * size
         /\ \A p \in Nat : p < count => p * size < N
<1>1. /\ count \in Nat /\ count * size <= N + size - 1 /\ N + size - 1 < count * size + size
  OBVIOUS
<1>2. ASSUME NEW p \in Nat, count <= p
      PROVE  N <= p * size
  <2>1. count * size <= p * size /\ count * size \in Nat /\ p * size \in Nat
    BY <1>1, <1>2
  <2> QED
    BY <1>1, <2>1
<1>3. ASSUME NEW p \in Nat, p < count
      PROVE  p * size < N
  <2>1. (p + 1) * size <= count * size /\ (p + 1) * size = p * size + size
    BY <1>1, <1>3
  <2>2. count * size \in Nat /\ p * size \in Nat
    BY <1>1
  <2> QED
    BY <1>1, <2>1, <2>2
<1>4. count <= N
  <2> SUFFICES ASSUME N < count PROVE FALSE
    BY <1>1
  <2>1. N * size < N
    BY <1>3
  <2>2. N * size >= N
    OBVIOUS
  <2>3. N * size \in Nat
    OBVIOUS
  <2> QED
    BY <2>1, <2>2, <2>3
<1> QED
  BY <1>1, <1>2, <1>3, <1>4

\* Page after page, while there is a next one, is the whole listing.
LEMMA WalksAll ==
  ASSUME NEW S, NEW sorted \in Seq(S), NEW size \in Nat \ {0}
  PROVE  Walk(sorted, size) = sorted
<1> DEFINE N == Len(sorted)
           count == (N + size - 1) \div size
           More(p) == Page(sorted, p, size).hasNext
           LastPage == CHOOSE p \in 1..(N + 1) : ~More(p) /\ \A q \in 1..(p - 1) : More(q)
           Upto(p) == IF p * size < N THEN p * size ELSE N
           walked == CHOOSE f : f = [p \in 0..LastPage |->
                       IF p = 0 THEN <<>> ELSE f[p - 1] \o Page(sorted, p, size).items]
<1>1. Walk(sorted, size) = walked[LastPage]
  BY DEF Walk
<1>2. N \in Nat /\ \A p \in Nat : More(p) <=> p < count
  <2>1. N \in Nat
    OBVIOUS
  <2>2. ASSUME NEW p \in Nat
        PROVE  More(p) <=> p < count
    BY Zenon DEF Page
  <2> QED
    BY <2>1, <2>2
<1>3. /\ count \in Nat /\ count <= N
      /\ \A p \in Nat : count <= p => N <= p * size
      /\ \A p \in Nat : p < count => p * size < N
  <2> HIDE DEF N
  <2> QED
    BY <1>2, PageCount
<1>4. \A p : Page(sorted, p, size).items = SubSeq(sorted, (p - 1) * size + 1, Upto(p))
  BY DEF Page
<1> HIDE DEF N, count, More
<1>5. LastPage \in 1..(N + 1) /\ ~More(LastPage) /\ \A q \in 1..(LastPage - 1) : More(q)
  <2> DEFINE p == IF count = 0 THEN 1 ELSE count
  <2>1. p \in 1..(N + 1) /\ ~More(p) /\ \A q \in 1..(p - 1) : More(q)
    BY <1>2, <1>3
  <2> QED
    BY <2>1
<1> HIDE DEF LastPage
<1>6. LastPage \in Nat /\ count <= LastPage /\ \A p \in 1..LastPage : (p - 1) * size <= N
  <2>1. LastPage \in Nat /\ count <= LastPage
    BY <1>2, <1>3, <1>5
  <2>2. ASSUME NEW p \in 1..LastPage
        PROVE  (p - 1) * size <= N
    <3>1. CASE p = 1
      BY <1>2, <3>1
    <3>2. CASE p # 1
      <4>1. p - 1 \in 1..(LastPage - 1) /\ p - 1 \in Nat
        BY <2>1, <3>2
      <4>2. p - 1 < count
        BY <1>2, <1>5, <4>1
      <4>3. (p - 1) * size < N /\ (p - 1) * size \in Int
        <5>1. \A q \in Nat : q < count => q * size < N /\ q * size \in Int
          BY <1>3
        <5> QED
          BY <4>1, <4>2, <5>1
      <4> QED
        BY <1>2, <4>3
    <3> QED
      BY <3>1, <3>2
  <2> QED
    BY <2>1, <2>2
<1>7. ASSUME NEW p \in 1..LastPage
      PROVE  SubSeq(sorted, 1, Upto(p)) = SubSeq(sorted, 1, Upto(p - 1)) \o Page(sorted, p, size).items
  <2> DEFINE k == (p - 1) * size
             m == Upto(p)
  <2>1. p \in Nat /\ p - 1 \in Nat /\ k \in Nat /\ k <= N /\ p * size = k + size
    BY <1>6
  <2>2. Upto(p - 1) = k
    BY <1>2, <2>1
  <2>3. m \in k..N
    <3> HIDE DEF k
    <3> QED
      BY <1>2, <2>1
  <2>4. Page(sorted, p, size).items = SubSeq(sorted, k + 1, m)
    BY <1>4
  <2> HIDE DEF k, m
  <2>5. SubSeq(sorted, 1, k) \o SubSeq(sorted, k + 1, m) = SubSeq(sorted, 1, m)
    <3>1. 1 \in 1..(Len(sorted) + 1) /\ k \in (1 - 1)..Len(sorted) /\ m \in k..Len(sorted)
      BY <1>2, <2>1, <2>3 DEF N
    <3> QED
      BY <3>1, ConcatAdjacentSubSeq
  <2> QED
    BY <2>2, <2>4, <2>5 DEF m
<1>8. SubSeq(sorted, 1, Upto(0)) = <<>>
  <2>1. Upto(0) = 0
    BY <1>2
  <2> QED
    BY <2>1, SubSeqEmpty
<1> DEFINE prefix == [p \in 0..LastPage |-> SubSeq(sorted, 1, Upto(p))]
<1>9. \A p \in 0..LastPage :
        prefix[p] = IF p = 0 THEN <<>> ELSE prefix[p - 1] \o Page(sorted, p, size).items
  <2> TAKE p \in 0..LastPage
  <2>1. CASE p = 0
    BY <1>8, <2>1
  <2>2. CASE p # 0
    <3>1. p \in 1..LastPage /\ p - 1 \in 0..LastPage
      BY <1>6, <2>2
    <3>2. prefix[p] = SubSeq(sorted, 1, Upto(p)) /\ prefix[p - 1] = SubSeq(sorted, 1, Upto(p - 1))
      BY <3>1
    <3> HIDE DEF prefix, Upto
    <3> QED
      BY <1>7, <2>2, <3>1, <3>2
  <2> QED
    BY <2>1, <2>2
<1>10. prefix = [p \in 0..LastPage |->
                   IF p = 0 THEN <<>> ELSE prefix[p - 1] \o Page(sorted, p, size).items]
  <2> DEFINE g == [p \in 0..LastPage |->
                     IF p = 0 THEN <<>> ELSE prefix[p - 1] \o Page(sorted, p, size).items]
  <2>1. \A p \in 0..LastPage : prefix[p] = g[p]
    BY <1>9
  <2> QED
    BY <2>1
<1>11. walked = [p \in 0..LastPage |->
                   IF p = 0 THEN <<>> ELSE walked[p - 1] \o Page(sorted, p, size).items]
  <2> HIDE DEF prefix
  <2> QED
    BY <1>10
<1> HIDE DEF walked
<1> DEFINE T == {p \in 0..LastPage : walked[p] = prefix[p]}
<1>12. 0 \in T
  <2>1. 0 \in 0..LastPage
    BY <1>6
  <2>2. prefix[0] = <<>>
    BY <1>8, <2>1
  <2>3. walked[0] = <<>>
    BY <1>11, <2>1
  <2> QED
    BY <2>1, <2>2, <2>3
<1>13. ASSUME NEW p \in 1..LastPage, p - 1 \in T PROVE p \in T
  <2>1. p \in 0..LastPage /\ p # 0
    BY <1>6
  <2>2. walked[p] = walked[p - 1] \o Page(sorted, p, size).items
    BY <1>11, <2>1
  <2>3. prefix[p] = prefix[p - 1] \o Page(sorted, p, size).items
    <3> HIDE DEF prefix
    <3> QED
      BY <1>9, <2>1
  <2> HIDE DEF prefix
  <2> QED
    BY <1>13, <2>1, <2>2, <2>3
<1>14. walked[LastPage] = prefix[LastPage]
  <2> HIDE DEF T
  <2>1. \A p \in 0..LastPage : p \in T
    BY <1>6, <1>12, <1>13, Climbs
  <2> QED
    BY <1>6, <2>1 DEF T
<1>15. prefix[LastPage] = sorted
  <2>1. N <= LastPage * size /\ LastPage * size \in Nat
    BY <1>3, <1>6
  <2>2. Upto(LastPage) = N
    BY <1>2, <2>1
  <2>3. prefix[LastPage] = SubSeq(sorted, 1, N)
    <3>1. prefix[LastPage] = SubSeq(sorted, 1, Upto(LastPage))
      <4>1. LastPage \in 0..LastPage
        BY <1>6
      <4> HIDE DEF Upto
      <4> QED
        BY <4>1
    <3> QED
      BY <2>2, <3>1
  <2> QED
    BY <2>3, SubSeqFull DEF N
<1> QED
  BY <1>1, <1>14, <1>15

\* A client that walks the pages, of any size, of any listing gets every sandbox
\* that matches, once, and the newest first (list_sandboxes of both runtimes).
THEOREM PagesFind ==
  ASSUME NEW n, NEW all, Listing(all, n), NEW matching \in SUBSET (1..n), NEW size \in Nat \ {0}
  PROVE  LET walk == Walk(NewestFirst(all, matching), size)
         IN  /\ ToSet(walk) = matching /\ Len(walk) = Cardinality(matching)
             /\ \A i \in 1..(Len(walk) - 1) : all[walk[i]].created >= all[walk[i + 1]].created
<1> DEFINE walk == Walk(NewestFirst(all, matching), size)
<1>1. /\ NewestFirst(all, matching) \in Seq(matching)
      /\ Len(NewestFirst(all, matching)) = Cardinality(matching)
      /\ ToSet(NewestFirst(all, matching)) = matching
      /\ \A i, j \in 1..Len(NewestFirst(all, matching)) :
           i < j => Before(all, NewestFirst(all, matching)[i], NewestFirst(all, matching)[j])
  BY ListedOnce
<1>2. walk = NewestFirst(all, matching)
  BY <1>1, WalksAll
<1> HIDE DEF walk
<1>3. ASSUME NEW i \in 1..(Len(walk) - 1)
      PROVE  all[walk[i]].created >= all[walk[i + 1]].created
  <2>1. /\ i \in 1..Len(walk) /\ i + 1 \in 1..Len(walk) /\ i < i + 1
        /\ walk[i] \in 1..n /\ walk[i + 1] \in 1..n
    <3>1. walk \in Seq(matching)
      BY <1>1, <1>2
    <3>2. i \in 1..Len(walk) /\ i + 1 \in 1..Len(walk) /\ i < i + 1
      BY <3>1
    <3>3. walk[i] \in matching /\ walk[i + 1] \in matching
      BY <3>1, <3>2
    <3> QED
      BY <3>2, <3>3
  <2>2. Before(all, walk[i], walk[i + 1])
    BY <1>1, <1>2, <2>1
  <2>3. all[walk[i]].created \in Int /\ all[walk[i + 1]].created \in Int
    BY <2>1 DEF Listing
  <2> QED
    BY <2>2, <2>3 DEF Before
<1> QED
  BY <1>1, <1>2, <1>3 DEF walk

\* The same for the listings and the requests that the run looks at.
LEMMA ListingFindsAll == ListingFinds
<1>1. ASSUME NEW n \in 0..3, NEW size \in 1..3,
             NEW all \in [1..n -> [created : 0..1, state : {"Running", "Paused"}, metadata : {<<>>}]]
      PROVE  LET matching == {i \in 1..n : MatchesFilter(all[i], {"Running"}, <<>>)}
                 walk == Walk(NewestFirst(all, matching), size)
             IN  /\ ToSet(walk) = matching /\ Len(walk) = Cardinality(matching)
                 /\ \A i \in 1..(Len(walk) - 1) : all[walk[i]].created >= all[walk[i + 1]].created
  <2> DEFINE matching == {i \in 1..n : MatchesFilter(all[i], {"Running"}, <<>>)}
  <2>1. Listing(all, n)
    <3>1. n \in Nat
      OBVIOUS
    <3>2. ASSUME NEW i \in 1..n
          PROVE  all[i].created \in Int
      <4>1. all[i] \in [created : 0..1, state : {"Running", "Paused"}, metadata : {<<>>}]
        BY Zenon
      <4>2. all[i].created \in 0..1
        BY <4>1
      <4> QED
        BY <4>2
    <3> QED
      BY <3>1, <3>2 DEF Listing
  <2>2. matching \in SUBSET (1..n) /\ size \in Nat \ {0}
    OBVIOUS
  <2> HIDE DEF matching
  <2>3. LET walk == Walk(NewestFirst(all, matching), size)
        IN  /\ ToSet(walk) = matching /\ Len(walk) = Cardinality(matching)
            /\ \A i \in 1..(Len(walk) - 1) : all[walk[i]].created >= all[walk[i + 1]].created
    BY <2>1, <2>2, PagesFind, Zenon
  <2> QED
    BY <2>3, Zenon DEF matching
<1>2. ASSUME NEW metadata, NEW limit
      PROVE  LET request == ScanRequest(metadata, limit)
                 Shown(labels) == [state |-> "Running", metadata |-> labels]
             IN  LabelsOk(request.metadata) =>
                   /\ DockerLabels("id", request)["opensandbox.io/id"] = "id"
                   /\ MatchesFilter(Shown(DockerShown(DockerLabels("id", request))), {}, metadata)
                   /\ K8sLabels("id", request)["opensandbox.io/id"] = "id"
                   /\ MatchesFilter(Shown(K8sShown(K8sLabels("id", request))), {}, metadata)
  <2>1. ScanRequest(metadata, limit).metadata = metadata
    BY DEF ScanRequest
  <2> QED
    BY <2>1, MetadataFound, Zenon
<1> QED
  BY <1>1, <1>2, Zenon DEF ListingFinds, DockerAdmits, K8sAdmits

\* In every state: what a listing pages through is everything that matches, and
\* a sandbox is found by the metadata that it was created with
\* (list_sandboxes, ensure_metadata_labels).
THEOREM ListingsHold == Spec => []ListingComplete
<1>1. ListingComplete
  BY ListingFindsAll DEF ListingComplete
<1> QED
  BY <1>1, PTL
-----------------------------------------------------------------------------
\* The pods of any names, sources, mount paths and sub paths.
PodVolumes(VolumeNames, Sources) == Seq([name : VolumeNames, source : Sources])
PodMounts(VolumeNames, Places, Subs) == Seq([name : VolumeNames, path : Places, sub : Subs])
PodSpecs(VolumeNames, Sources, Places, Subs) ==
  [volumes : PodVolumes(VolumeNames, Sources), mounts : PodMounts(VolumeNames, Places, Subs),
   failed : BOOLEAN]

\* What a template may add to them.
ExtraOf(extra, VolumeNames, Sources, Places) ==
  /\ extra.name \in VolumeNames /\ extra.path \in Places
  /\ extra.source \in Sources /\ "template" \in extra.source

\* A volume is added to a pod that is right under a name that is free; its claim
\* has no volume yet, or it has none of its own.
LEMMA AppendRight ==
  ASSUME NEW VolumeNames, NEW Sources, NEW Places, NEW Subs,
         NEW spec \in PodSpecs(VolumeNames, Sources, Places, Subs), PodRight(spec),
         NEW name \in VolumeNames, NEW source \in Sources,
         NEW next \in PodSpecs(VolumeNames, Sources, Places, Subs),
         ~Named(spec, name),
         \A i \in DOMAIN spec.volumes :
           spec.volumes[i].source = source => MayShare(source),
         next.volumes = Append(spec.volumes, [name |-> name, source |-> source]),
         \A i \in DOMAIN next.mounts : Named(next, next.mounts[i].name)
  PROVE  PodRight(next)
<1>1. /\ DOMAIN spec.volumes = 1..Len(spec.volumes) /\ Len(spec.volumes) \in Nat
      /\ DOMAIN next.volumes = 1..(Len(spec.volumes) + 1)
      /\ \A i \in DOMAIN spec.volumes : next.volumes[i] = spec.volumes[i]
      /\ next.volumes[Len(spec.volumes) + 1] = [name |-> name, source |-> source]
  BY DEF PodSpecs, PodVolumes, PodMounts
<1> DEFINE new == Len(spec.volumes) + 1
           Same(s, i, j) ==
             s.volumes[i].name = s.volumes[j].name \/
               (s.volumes[i].source = s.volumes[j].source
                /\ ~MayShare(s.volumes[i].source))
<1>2. \A i \in DOMAIN spec.volumes : ~Same(next, i, new) /\ ~Same(next, new, i)
  BY <1>1 DEF Named
<1>3. \A i, j \in DOMAIN spec.volumes : Same(next, i, j) => i = j
  BY <1>1 DEF PodRight
<1>4. \A i \in DOMAIN next.volumes : i \in DOMAIN spec.volumes \/ i = new
  BY <1>1
<1>5. \A i, j \in DOMAIN next.volumes : Same(next, i, j) => i = j
  <2> HIDE DEF Same, new
  <2> QED
    BY <1>2, <1>3, <1>4
<1> QED
  BY <1>5 DEF PodRight

\* The volumes keep their names when one is added, or none.
LEMMA NamedStays ==
  ASSUME NEW VolumeNames, NEW Sources, NEW Places, NEW Subs, NEW spec \in PodSpecs(VolumeNames, Sources, Places, Subs),
         NEW name \in VolumeNames, NEW source \in Sources,
         NEW next \in PodSpecs(VolumeNames, Sources, Places, Subs),
         next.volumes = Append(spec.volumes, [name |-> name, source |-> source])
  PROVE  Named(next, name) /\ \A other : Named(spec, other) => Named(next, other)
<1>1. /\ DOMAIN spec.volumes = 1..Len(spec.volumes) /\ Len(spec.volumes) \in Nat
      /\ DOMAIN next.volumes = 1..(Len(spec.volumes) + 1)
      /\ \A i \in DOMAIN spec.volumes : i \in DOMAIN next.volumes /\ next.volumes[i] = spec.volumes[i]
      /\ next.volumes[Len(spec.volumes) + 1] = [name |-> name, source |-> source]
  BY DEF PodSpecs, PodVolumes, PodMounts
<1>2. Named(next, name)
  BY <1>1 DEF Named
<1>3. \A other : Named(spec, other) => Named(next, other)
  BY <1>1 DEF Named
<1> QED
  BY <1>2, <1>3

\* A mount is added under the name of a volume.
LEMMA MountRight ==
  ASSUME NEW VolumeNames, NEW Sources, NEW Places, NEW Subs,
         NEW spec \in PodSpecs(VolumeNames, Sources, Places, Subs), PodRight(spec),
         NEW name \in VolumeNames, NEW path \in Places, NEW sub \in Subs,
         NEW next \in PodSpecs(VolumeNames, Sources, Places, Subs),
         next.mounts \in {spec.mounts, Append(spec.mounts, Mount(name, path, sub))},
         \A other : Named(spec, other) => Named(next, other),
         Named(next, name)
  PROVE  \A i \in DOMAIN next.mounts : Named(next, next.mounts[i].name)
<1>1. \A i \in DOMAIN spec.mounts : Named(next, spec.mounts[i].name)
  BY DEF PodRight
<1>2. CASE next.mounts = spec.mounts
  BY <1>1, <1>2
<1>3. CASE next.mounts = Append(spec.mounts, Mount(name, path, sub))
  <2>1. /\ DOMAIN spec.mounts = 1..Len(spec.mounts) /\ Len(spec.mounts) \in Nat
        /\ DOMAIN next.mounts = 1..(Len(spec.mounts) + 1)
        /\ \A i \in DOMAIN spec.mounts : next.mounts[i] = spec.mounts[i]
        /\ next.mounts[Len(spec.mounts) + 1] = Mount(name, path, sub)
    BY <1>3 DEF PodSpecs, PodVolumes, PodMounts
  <2>2. \A i \in DOMAIN next.mounts : i \in DOMAIN spec.mounts \/ i = Len(spec.mounts) + 1
    BY <2>1
  <2>3. next.mounts[Len(spec.mounts) + 1].name = name
    BY <2>1 DEF Mount
  <2> QED
    BY <1>1, <2>1, <2>2, <2>3, Zenon
<1> QED
  BY <1>2, <1>3

\* What the template adds makes a pod of a pod, and no failed one right.
LEMMA ExtraAdded ==
  ASSUME NEW VolumeNames, NEW Sources, NEW Places, NEW Subs, NoSub \in Subs,
         NEW spec \in PodSpecs(VolumeNames, Sources, Places, Subs), NEW extra, ExtraOf(extra, VolumeNames, Sources, Places)
  PROVE  /\ AddExtra(spec, extra) \in PodSpecs(VolumeNames, Sources, Places, Subs)
         /\ AddExtra(spec, extra).volumes =
              IF Named(spec, extra.name) THEN spec.volumes
              ELSE Append(spec.volumes, [name |-> extra.name, source |-> extra.source])
         /\ AddExtra(spec, extra).mounts \in
              {spec.mounts, Append(spec.mounts, Mount(extra.name, extra.path, NoSub))}
         /\ AddExtra(spec, extra).failed = spec.failed
<1> DEFINE next == AddExtra(spec, extra)
           volumes == IF Named(spec, extra.name) THEN spec.volumes
                      ELSE Append(spec.volumes, [name |-> extra.name, source |-> extra.source])
           mounts == IF \E i \in DOMAIN spec.mounts : spec.mounts[i].name = extra.name THEN spec.mounts
                     ELSE Append(spec.mounts, Mount(extra.name, extra.path, NoSub))
<1>1. /\ spec.volumes \in PodVolumes(VolumeNames, Sources)
      /\ spec.mounts \in PodMounts(VolumeNames, Places, Subs)
  BY DEF PodSpecs, PodVolumes, PodMounts
<1>2. /\ volumes \in PodVolumes(VolumeNames, Sources)
      /\ mounts \in PodMounts(VolumeNames, Places, Subs)
  <2>1. /\ Append(spec.volumes, [name |-> extra.name, source |-> extra.source]) \in
             PodVolumes(VolumeNames, Sources)
        /\ Append(spec.mounts, Mount(extra.name, extra.path, NoSub)) \in PodMounts(VolumeNames, Places, Subs)
    BY <1>1 DEF PodVolumes, PodMounts, ExtraOf, Mount
  <2> QED
    BY <1>1, <2>1, Zenon
<1>3. mounts \in {spec.mounts, Append(spec.mounts, Mount(extra.name, extra.path, NoSub))}
  OBVIOUS
<1>4. next = [spec EXCEPT !.volumes = volumes, !.mounts = mounts]
  BY DEF AddExtra
<1> HIDE DEF next, mounts
<1>5. /\ next \in PodSpecs(VolumeNames, Sources, Places, Subs)
      /\ next.volumes = volumes /\ next.mounts = mounts /\ next.failed = spec.failed
  <2> HIDE DEF volumes
  <2> QED
    BY <1>2, <1>4 DEF PodSpecs
<1> QED
  BY <1>3, <1>5 DEF next

\* A pod whose volumes are right stays one with each volume that the template
\* adds: the step of _merge_pod_spec_extras.
LEMMA ExtraStaysRight ==
  ASSUME NEW VolumeNames, NEW Sources, NEW Places, NEW Subs, NoSub \in Subs,
         NEW spec \in PodSpecs(VolumeNames, Sources, Places, Subs), PodRight(spec),
         NEW extra, ExtraOf(extra, VolumeNames, Sources, Places)
  PROVE  /\ AddExtra(spec, extra) \in PodSpecs(VolumeNames, Sources, Places, Subs)
         /\ PodRight(AddExtra(spec, extra))
<1> DEFINE next == AddExtra(spec, extra)
<1>1. /\ next \in PodSpecs(VolumeNames, Sources, Places, Subs)
      /\ next.volumes = IF Named(spec, extra.name) THEN spec.volumes
                        ELSE Append(spec.volumes, [name |-> extra.name, source |-> extra.source])
      /\ next.mounts \in {spec.mounts, Append(spec.mounts, Mount(extra.name, extra.path, NoSub))}
  BY ExtraAdded
<1>4. /\ extra.name \in VolumeNames /\ extra.path \in Places /\ extra.source \in Sources
      /\ MayShare(extra.source)
  BY DEF ExtraOf, MayShare
<1> HIDE DEF next
<1>2. CASE Named(spec, extra.name)
  <2>1. \A other : Named(next, other) <=> Named(spec, other)
    BY <1>1, <1>2 DEF Named
  <2>2. \A i \in DOMAIN next.mounts : Named(next, next.mounts[i].name)
    BY <1>1, <1>2, <1>4, <2>1, MountRight
  <2>3. PodRight(next)
    BY <1>1, <1>2, <2>2 DEF PodRight
  <2> QED
    BY <1>1, <2>3 DEF next
<1>3. CASE ~Named(spec, extra.name)
  <2>1. Named(next, extra.name) /\ \A other : Named(spec, other) => Named(next, other)
    BY <1>1, <1>3, <1>4, NamedStays
  <2>2. \A i \in DOMAIN next.mounts : Named(next, next.mounts[i].name)
    BY <1>1, <1>4, <2>1, MountRight
  <2>3. PodRight(next)
    BY <1>1, <1>3, <1>4, <2>2, AppendRight
  <2> QED
    BY <1>1, <2>3 DEF next
<1> QED
  BY <1>2, <1>3

\* And with each volume of the request, which has a host path, a bucket or one
\* claim, unless the creation fails on it: the step of apply_volumes_to_pod_spec.
LEMMA VolumeStaysRight ==
  ASSUME NEW VolumeNames, NEW Sources, NEW Places, NEW Subs, {"hostPath"} \in Sources,
         NEW spec \in PodSpecs(VolumeNames, Sources, Places, Subs), PodRight(spec),
         NEW v, v.name \in VolumeNames, v.mount \in Places, v.sub \in Subs, v.pvc \in Sources,
         v.host = {} /\ v.ossfs = {} => \E claim : v.pvc = {claim}
  PROVE  /\ AddVolume(spec, v) \in PodSpecs(VolumeNames, Sources, Places, Subs)
         /\ AddVolume(spec, v).failed \/ PodRight(AddVolume(spec, v))
<1> DEFINE next == AddVolume(spec, v)
           refused == spec.failed \/ Named(spec, v.name) \/ v.ossfs # {}
           claimed == UNION {ClaimedAs(spec, claim) : claim \in v.pvc}
           first == CHOOSE i \in claimed : TRUE
           source == IF v.host # {} THEN {"hostPath"} ELSE v.pvc
<1>1. claimed \subseteq DOMAIN spec.volumes
  BY DEF ClaimedAs
<1>2. claimed # {} => first \in claimed
  OBVIOUS
<1>3. CASE refused
  <2>1. next = [spec EXCEPT !.failed = TRUE]
    BY <1>3 DEF AddVolume
  <2>2. next \in PodSpecs(VolumeNames, Sources, Places, Subs) /\ next.failed
    BY <2>1 DEF PodSpecs, PodVolumes, PodMounts
  <2> QED
    BY <2>2
<1>4. CASE ~refused /\ claimed # {}
  <2> DEFINE name == spec.volumes[first].name
  <2>1. name \in VolumeNames /\ Named(spec, name)
    <3>1. first \in DOMAIN spec.volumes
      BY <1>1, <1>2, <1>4
    <3>2. PICK i \in DOMAIN spec.volumes : i = first
      BY <3>1
    <3> DEFINE volumes == spec.volumes
    <3>3. volumes \in Seq([name : VolumeNames, source : Sources]) /\ i \in DOMAIN volumes
      BY DEF PodSpecs, PodVolumes
    <3>4. Named(spec, volumes[i].name)
      BY DEF Named
    <3> HIDE DEF volumes
    <3>5. volumes[i] \in [name : VolumeNames, source : Sources]
      <4> DEFINE PodVolume == [name : VolumeNames, source : Sources]
      <4>1. volumes \in Seq(PodVolume)
        BY <3>3
      <4> HIDE DEF PodVolume
      <4>2. volumes[i] \in PodVolume
        BY <3>3, <4>1
      <4> QED
        BY <4>2 DEF PodVolume
    <3>6. volumes[i].name \in VolumeNames
      BY <3>5
    <3> QED
      BY <3>2, <3>4, <3>6 DEF volumes
  <2>2. next = [spec EXCEPT !.volumes = spec.volumes,
                            !.mounts = Append(spec.mounts, Mount(name, v.mount, v.sub))]
    BY <1>4 DEF AddVolume
  <2> HIDE DEF name, next, claimed, first
  <2>3. /\ next \in PodSpecs(VolumeNames, Sources, Places, Subs) /\ next.volumes = spec.volumes
        /\ next.mounts \in {spec.mounts, Append(spec.mounts, Mount(name, v.mount, v.sub))}
    <3>1. /\ spec.volumes \in PodVolumes(VolumeNames, Sources)
          /\ Append(spec.mounts, Mount(name, v.mount, v.sub)) \in PodMounts(VolumeNames, Places, Subs)
      BY <2>1 DEF PodSpecs, PodVolumes, PodMounts, Mount
    <3>2. /\ next \in PodSpecs(VolumeNames, Sources, Places, Subs) /\ next.volumes = spec.volumes
          /\ next.mounts = Append(spec.mounts, Mount(name, v.mount, v.sub))
      <4> DEFINE mounts == Append(spec.mounts, Mount(name, v.mount, v.sub))
      <4>1. /\ mounts \in PodMounts(VolumeNames, Places, Subs)
            /\ next = [spec EXCEPT !.volumes = spec.volumes, !.mounts = mounts]
        BY <2>2, <3>1
      <4> HIDE DEF mounts
      <4>2. /\ next \in PodSpecs(VolumeNames, Sources, Places, Subs)
            /\ next.volumes = spec.volumes /\ next.mounts = mounts
        BY <3>1, <4>1 DEF PodSpecs
      <4> QED
        BY <4>2 DEF mounts
    <3> QED
      BY <3>2
  <2>4. \A other : Named(next, other) <=> Named(spec, other)
    BY <2>3 DEF Named
  <2>5. \A i \in DOMAIN next.mounts : Named(next, next.mounts[i].name)
    BY <2>1, <2>3, <2>4, MountRight
  <2>6. PodRight(next)
    BY <2>3, <2>5 DEF PodRight
  <2> QED
    BY <2>3, <2>6 DEF next
<1>5. CASE ~refused /\ claimed = {}
  <2>1. next = [spec EXCEPT !.volumes = Append(spec.volumes, [name |-> v.name, source |-> source]),
                            !.mounts = Append(spec.mounts, Mount(v.name, v.mount, v.sub))]
    BY <1>5 DEF AddVolume
  <2>2. source \in Sources /\ ~Named(spec, v.name)
    BY <1>5
  <2>3. \A i \in DOMAIN spec.volumes :
          spec.volumes[i].source = source => MayShare(source)
    <3>1. CASE v.host # {}
      BY <3>1 DEF MayShare
    <3>2. CASE v.host = {}
      <4>1. PICK claim : v.pvc = {claim}
        BY <1>5, <3>2
      <4>2. ClaimedAs(spec, claim) = {}
        BY <1>5, <4>1
      <4> QED
        BY <3>2, <4>1, <4>2 DEF ClaimedAs
    <3> QED
      BY <3>1, <3>2
  <2> HIDE DEF next, claimed, first, source
  <2>4. /\ next \in PodSpecs(VolumeNames, Sources, Places, Subs)
        /\ next.volumes = Append(spec.volumes, [name |-> v.name, source |-> source])
        /\ next.mounts \in {spec.mounts, Append(spec.mounts, Mount(v.name, v.mount, v.sub))}
    <3>1. /\ Append(spec.volumes, [name |-> v.name, source |-> source]) \in
               PodVolumes(VolumeNames, Sources)
          /\ Append(spec.mounts, Mount(v.name, v.mount, v.sub)) \in PodMounts(VolumeNames, Places, Subs)
      BY <2>2 DEF PodSpecs, PodVolumes, PodMounts, Mount
    <3>2. /\ next \in PodSpecs(VolumeNames, Sources, Places, Subs)
          /\ next.volumes = Append(spec.volumes, [name |-> v.name, source |-> source])
          /\ next.mounts = Append(spec.mounts, Mount(v.name, v.mount, v.sub))
      <4> DEFINE volumes == Append(spec.volumes, [name |-> v.name, source |-> source])
                 mounts == Append(spec.mounts, Mount(v.name, v.mount, v.sub))
      <4>1. /\ volumes \in PodVolumes(VolumeNames, Sources) /\ mounts \in PodMounts(VolumeNames, Places, Subs)
            /\ next = [spec EXCEPT !.volumes = volumes, !.mounts = mounts]
        BY <2>1, <3>1
      <4> HIDE DEF volumes, mounts
      <4>2. /\ next \in PodSpecs(VolumeNames, Sources, Places, Subs)
            /\ next.volumes = volumes /\ next.mounts = mounts
        BY <4>1 DEF PodSpecs
      <4> QED
        BY <4>2 DEF volumes, mounts
    <3> QED
      BY <3>2
  <2>5. Named(next, v.name) /\ \A other : Named(spec, other) => Named(next, other)
    BY <2>2, <2>4, NamedStays
  <2>6. \A i \in DOMAIN next.mounts : Named(next, next.mounts[i].name)
    BY <2>4, <2>5, MountRight
  <2>7. PodRight(next)
    BY <2>2, <2>3, <2>4, <2>6, AppendRight
  <2> QED
    BY <2>4, <2>7 DEF next
<1> QED
  BY <1>3, <1>4, <1>5

\* The pod that a creation starts with is right, and both steps keep it so, or
\* fail: every mount names a volume, no two volumes share a name, no claim of the
\* request has two.
THEOREM PodStaysRight ==
  ASSUME NEW VolumeNames, NEW Sources, NEW Places, NEW Subs, {"hostPath"} \in Sources,
         NoSub \in Subs,
         NEW spec \in PodSpecs(VolumeNames, Sources, Places, Subs), PodRight(spec)
  PROVE  /\ PodSpec.failed = FALSE /\ PodRight(PodSpec)
         /\ \A v : v.name \in VolumeNames /\ v.mount \in Places /\ v.sub \in Subs /\ v.pvc \in Sources
                   /\ (v.host = {} /\ v.ossfs = {} => \E claim : v.pvc = {claim})
                   => /\ AddVolume(spec, v) \in PodSpecs(VolumeNames, Sources, Places, Subs)
                      /\ AddVolume(spec, v).failed \/ PodRight(AddVolume(spec, v))
         /\ \A extra : ExtraOf(extra, VolumeNames, Sources, Places)
                   => /\ AddExtra(spec, extra) \in PodSpecs(VolumeNames, Sources, Places, Subs)
                      /\ PodRight(AddExtra(spec, extra))
<1>1. PodSpec.failed = FALSE /\ PodRight(PodSpec)
  BY DEF PodSpec, PodRight, Named, Mount
<1> QED
  BY <1>1, ExtraStaysRight, VolumeStaysRight

\* The pods that are made on the way: right ones, and failed ones.
Fit(VolumeNames, Sources, Places, Subs) ==
  {spec \in PodSpecs(VolumeNames, Sources, Places, Subs) : spec.failed \/ PodRight(spec)}

\* An extra or a volume that is added to a pod leaves a right pod, or a failure.
LEMMA PodStepsFit ==
  ASSUME NEW VolumeNames, NEW Sources, NEW Places, NEW Subs, {"hostPath"} \in Sources,
         NoSub \in Subs, NEW spec \in Fit(VolumeNames, Sources, Places, Subs)
  PROVE  /\ \A extra : ExtraOf(extra, VolumeNames, Sources, Places)
                   => AddExtra(spec, extra) \in Fit(VolumeNames, Sources, Places, Subs)
         /\ \A v : v.name \in VolumeNames /\ v.mount \in Places /\ v.sub \in Subs /\ v.pvc \in Sources
                   /\ (v.host = {} /\ v.ossfs = {} => \E claim : v.pvc = {claim})
                   => AddVolume(spec, v) \in Fit(VolumeNames, Sources, Places, Subs)
<1>1. spec \in PodSpecs(VolumeNames, Sources, Places, Subs) /\ (spec.failed \/ PodRight(spec))
  BY DEF Fit
<1>2. CASE spec.failed
  <2>1. ASSUME NEW extra, ExtraOf(extra, VolumeNames, Sources, Places)
        PROVE  AddExtra(spec, extra) \in Fit(VolumeNames, Sources, Places, Subs)
    <3>1. /\ AddExtra(spec, extra) \in PodSpecs(VolumeNames, Sources, Places, Subs)
          /\ AddExtra(spec, extra).failed = spec.failed
      <4> HIDE DEF Fit
      <4>1. spec \in PodSpecs(VolumeNames, Sources, Places, Subs)
        BY <1>1
      <4> DEFINE Pods == PodSpecs(VolumeNames, Sources, Places, Subs)
                 next == AddExtra(spec, extra)
      <4>2. /\ next \in Pods
            /\ next.volumes = IF Named(spec, extra.name) THEN spec.volumes
                              ELSE Append(spec.volumes, [name |-> extra.name, source |-> extra.source])
            /\ next.mounts \in {spec.mounts, Append(spec.mounts, Mount(extra.name, extra.path, NoSub))}
            /\ next.failed = spec.failed
        BY <2>1, <4>1, ExtraAdded
      <4> QED
        BY <4>2
    <3> QED
      BY <1>2, <3>1 DEF Fit
  <2>2. ASSUME NEW v
        PROVE  AddVolume(spec, v) \in Fit(VolumeNames, Sources, Places, Subs)
    <3> DEFINE next == AddVolume(spec, v)
    <3>1. next = [spec EXCEPT !.failed = TRUE]
      BY <1>2 DEF AddVolume
    <3> HIDE DEF next
    <3>2. next \in PodSpecs(VolumeNames, Sources, Places, Subs) /\ next.failed
      BY <1>1, <3>1 DEF PodSpecs, PodVolumes, PodMounts
    <3> QED
      BY <3>2 DEF Fit, next
  <2> QED
    BY <2>1, <2>2
<1>3. CASE PodRight(spec)
  <2>1. ASSUME NEW v, v.name \in VolumeNames, v.mount \in Places, v.sub \in Subs, v.pvc \in Sources,
               v.host = {} /\ v.ossfs = {} => \E claim : v.pvc = {claim}
        PROVE  AddVolume(spec, v) \in Fit(VolumeNames, Sources, Places, Subs)
    BY <1>1, <1>3, <2>1, VolumeStaysRight DEF Fit
  <2>2. ASSUME NEW extra, ExtraOf(extra, VolumeNames, Sources, Places)
        PROVE  AddExtra(spec, extra) \in Fit(VolumeNames, Sources, Places, Subs)
    BY <1>1, <1>3, <2>2, ExtraStaysRight DEF Fit
  <2> QED
    BY <2>1, <2>2
<1> QED
  BY <1>1, <1>2, <1>3

AddedFunction(volumes) ==
  CHOOSE f : f = [n \in 0..Len(volumes) |->
                    IF n = 0 THEN PodSpec ELSE AddVolume(f[n - 1], volumes[n])]
MergedFunction(base, extras) ==
  CHOOSE f : f = [n \in 0..Len(extras) |->
                    IF n = 0 THEN base ELSE AddExtra(f[n - 1], extras[n])]

\* The volumes of the request.
LEMMA AddedFits ==
  ASSUME NEW VolumeNames, NEW Sources, NEW Places, NEW Subs, {"hostPath"} \in Sources,
         NoSub \in Subs, PodSpec \in Fit(VolumeNames, Sources, Places, Subs),
         "opensandbox-bin" \in VolumeNames,
         NEW volumes, Len(volumes) \in Nat,
         \A i \in 1..Len(volumes) :
           /\ volumes[i].name \in VolumeNames /\ volumes[i].mount \in Places
           /\ volumes[i].sub \in Subs /\ volumes[i].pvc \in Sources
           /\ volumes[i].host = {} /\ volumes[i].ossfs = {} => \E claim : volumes[i].pvc = {claim}
  PROVE  AddedFunction(volumes)[Len(volumes)] \in Fit(VolumeNames, Sources, Places, Subs)
<1> DEFINE L == Len(volumes)
           Pods == Fit(VolumeNames, Sources, Places, Subs)
           next == [n \in 1..L |-> [spec \in Pods |-> AddVolume(spec, volumes[n])]]
           g == AddedFunction(volumes)
<1>1. L \in Nat /\ L \in 0..L /\ PodSpec \in Pods
  OBVIOUS
<1>2. \A n \in 1..L, spec \in Pods : AddVolume(spec, volumes[n]) \in Pods
  BY PodStepsFit
<1>3. g = CHOOSE f : f = [n \in 0..L |-> IF n = 0 THEN PodSpec ELSE AddVolume(f[n - 1], volumes[n])]
  BY DEF AddedFunction
<1> HIDE DEF L, Pods, g
<1>4. next \in [1..L -> [Pods -> Pods]]
  BY <1>2
<1>5. \A n \in 1..L, spec \in Pods : next[n][spec] = AddVolume(spec, volumes[n])
  OBVIOUS
<1> HIDE DEF next
<1>6. PICK f \in [0..L -> Pods] : Runs(f, PodSpec, L, next)
  BY <1>1, <1>4, RecursionExists
<1>7. \A n \in 0..L : f[n] = IF n = 0 THEN PodSpec ELSE AddVolume(f[n - 1], volumes[n])
  <2> TAKE n \in 0..L
  <2>1. CASE n = 0
    BY <1>6, <2>1 DEF Runs
  <2>2. CASE n # 0
    <3>1. n \in 1..L /\ f[n - 1] \in Pods
      BY <1>1, <2>2
    <3> QED
      BY <1>5, <1>6, <2>2, <3>1 DEF Runs
  <2> QED
    BY <2>1, <2>2
<1>8. f = [n \in 0..L |-> IF n = 0 THEN PodSpec ELSE AddVolume(f[n - 1], volumes[n])]
  BY <1>7
<1>9. g = [n \in 0..L |-> IF n = 0 THEN PodSpec ELSE AddVolume(g[n - 1], volumes[n])]
  BY <1>3, <1>8
<1>10. g[0] = PodSpec /\ \A n \in 1..L : g[n] = AddVolume(g[n - 1], volumes[n])
  BY <1>1, <1>9
<1>11. \A n \in 0..L : g[n] \in Pods
  <2>1. g[0] \in Pods /\ \A n \in 1..L : g[n - 1] \in Pods => g[n] = next[n][g[n - 1]]
    BY <1>1, <1>5, <1>10
  <2> QED
    BY <1>1, <1>4, <2>1, RecursionStays, Zenon
<1> QED
  BY <1>1, <1>11 DEF g, L, Pods

\* The volumes of the template.
LEMMA MergedFits ==
  ASSUME NEW VolumeNames, NEW Sources, NEW Places, NEW Subs, {"hostPath"} \in Sources,
         NoSub \in Subs, NEW base \in Fit(VolumeNames, Sources, Places, Subs),
         NEW extras, Len(extras) \in Nat,
         \A i \in 1..Len(extras) : ExtraOf(extras[i], VolumeNames, Sources, Places)
  PROVE  MergedFunction(base, extras)[Len(extras)] \in Fit(VolumeNames, Sources, Places, Subs)
<1> DEFINE L == Len(extras)
           Pods == Fit(VolumeNames, Sources, Places, Subs)
           next == [n \in 1..L |-> [spec \in Pods |-> AddExtra(spec, extras[n])]]
           g == MergedFunction(base, extras)
<1>1. L \in Nat /\ L \in 0..L /\ base \in Pods
  OBVIOUS
<1>2. \A n \in 1..L, spec \in Pods : AddExtra(spec, extras[n]) \in Pods
  BY PodStepsFit
<1>3. g = CHOOSE f : f = [n \in 0..L |-> IF n = 0 THEN base ELSE AddExtra(f[n - 1], extras[n])]
  BY DEF MergedFunction
<1> HIDE DEF L, Pods, g
<1>4. next \in [1..L -> [Pods -> Pods]]
  BY <1>2
<1>5. \A n \in 1..L, spec \in Pods : next[n][spec] = AddExtra(spec, extras[n])
  OBVIOUS
<1> HIDE DEF next
<1>6. PICK f \in [0..L -> Pods] : Runs(f, base, L, next)
  BY <1>1, <1>4, RecursionExists
<1>7. \A n \in 0..L : f[n] = IF n = 0 THEN base ELSE AddExtra(f[n - 1], extras[n])
  <2> TAKE n \in 0..L
  <2>1. CASE n = 0
    BY <1>6, <2>1 DEF Runs
  <2>2. CASE n # 0
    <3>1. n \in 1..L /\ f[n - 1] \in Pods
      BY <1>1, <2>2
    <3> QED
      BY <1>5, <1>6, <2>2, <3>1 DEF Runs
  <2> QED
    BY <2>1, <2>2
<1>8. f = [n \in 0..L |-> IF n = 0 THEN base ELSE AddExtra(f[n - 1], extras[n])]
  BY <1>7
<1>9. g = [n \in 0..L |-> IF n = 0 THEN base ELSE AddExtra(g[n - 1], extras[n])]
  BY <1>3, <1>8
<1>10. g[0] = base /\ \A n \in 1..L : g[n] = AddExtra(g[n - 1], extras[n])
  BY <1>1, <1>9
<1>11. \A n \in 0..L : g[n] \in Pods
  <2>1. g[0] \in Pods /\ \A n \in 1..L : g[n - 1] \in Pods => g[n] = next[n][g[n - 1]]
    BY <1>1, <1>5, <1>10
  <2> QED
    BY <1>1, <1>4, <2>1, RecursionStays, Zenon
<1> QED
  BY <1>1, <1>11 DEF g, L, Pods

\* Whatever volumes a request asks for, and whatever volumes and claims the
\* template adds: the creation fails, or every mount of the pod names one of its
\* volumes, no two volumes share a name, and each claim of the request has one
\* volume.  Mount paths may clash, and a claim of the template may be one of the
\* request's (apply_volumes_to_pod_spec, _merge_pod_spec_extras).
THEOREM PodsTaken ==
  ASSUME NEW V, NEW volumes \in Seq(V), NEW E, NEW extras \in Seq(E),
         \A extra \in E : "template" \in extra.source, NEW allowed, NEW S,
         \A i \in DOMAIN volumes : Proper(volumes[i], S),
         VolumesValid(volumes, allowed)
  PROVE  K8sPodSpec(volumes, extras).failed \/ PodRight(K8sPodSpec(volumes, extras))
<1> DEFINE VolumeNames == {volumes[i].name : i \in DOMAIN volumes}
                          \cup {extras[i].name : i \in DOMAIN extras} \cup {"opensandbox-bin"}
           Sources == {volumes[i].pvc : i \in DOMAIN volumes}
                      \cup {extras[i].source : i \in DOMAIN extras}
                      \cup {{"emptyDir"}, {"hostPath"}}
           Places == {volumes[i].mount : i \in DOMAIN volumes}
                     \cup {extras[i].path : i \in DOMAIN extras} \cup {"/opt/opensandbox/bin"}
           Subs == {volumes[i].sub : i \in DOMAIN volumes} \cup {NoSub}
           added == AddedFunction(volumes)[Len(volumes)]
           merged == MergedFunction(added, extras)[Len(extras)]
<1>1. /\ {"hostPath"} \in Sources /\ NoSub \in Subs /\ "/opt/opensandbox/bin" \in Places
      /\ "opensandbox-bin" \in VolumeNames /\ {"emptyDir"} \in Sources
  OBVIOUS
<1>2. /\ Len(volumes) \in Nat /\ Len(extras) \in Nat
      /\ DOMAIN volumes = 1..Len(volumes) /\ DOMAIN extras = 1..Len(extras)
  OBVIOUS
<1>3. \A i \in 1..Len(volumes) :
        /\ volumes[i].name \in VolumeNames /\ volumes[i].mount \in Places
        /\ volumes[i].sub \in Subs /\ volumes[i].pvc \in Sources
        /\ volumes[i].host = {} /\ volumes[i].ossfs = {} => \E claim : volumes[i].pvc = {claim}
  <2> TAKE i \in 1..Len(volumes)
  <2>1. i \in DOMAIN volumes
    BY <1>2
  <2>2. volumes[i].name \in VolumeNames /\ volumes[i].mount \in Places
      /\ volumes[i].sub \in Subs /\ volumes[i].pvc \in Sources
    BY <2>1
  <2>3. Cardinality(volumes[i].host) + Cardinality(volumes[i].pvc) + Cardinality(volumes[i].ossfs) = 1
    BY <2>1 DEF VolumesValid
  <2> DEFINE v == volumes[i]
  <2>4. IsFiniteSet(v.host) /\ IsFiniteSet(v.pvc) /\ IsFiniteSet(v.ossfs)
    BY <2>1 DEF Proper
  <2>5. v.host = {} /\ v.ossfs = {} => \E claim : v.pvc = {claim}
    <3>1. \/ (\E x : v.host = {x}) /\ v.pvc = {} /\ v.ossfs = {}
          \/ (\E x : v.pvc = {x}) /\ v.host = {} /\ v.ossfs = {}
          \/ (\E x : v.ossfs = {x}) /\ v.host = {} /\ v.pvc = {}
      <4> HIDE DEF v
      <4> QED
        BY <2>3, <2>4, OneInAll, Zenon DEF v
    <3> QED
      BY <3>1
  <2> QED
    BY <2>2, <2>5
<1>4. \A i \in 1..Len(extras) : ExtraOf(extras[i], VolumeNames, Sources, Places)
  <2> TAKE i \in 1..Len(extras)
  <2>1. i \in DOMAIN extras /\ extras[i] \in E
    BY <1>2
  <2> QED
    BY <2>1 DEF ExtraOf
<1> HIDE DEF VolumeNames, Sources, Places, Subs
<1>5. PodSpec \in Fit(VolumeNames, Sources, Places, Subs)
  <2> DEFINE pods == <<[name |-> "opensandbox-bin", source |-> {"emptyDir"}]>>
             mounts == <<Mount("opensandbox-bin", "/opt/opensandbox/bin", NoSub)>>
  <2>1. pods \in PodVolumes(VolumeNames, Sources) /\ mounts \in PodMounts(VolumeNames, Places, Subs)
    BY <1>1 DEF PodVolumes, PodMounts, Mount
  <2>2. PodSpec = [volumes |-> pods, mounts |-> mounts, failed |-> FALSE]
    BY DEF PodSpec
  <2> HIDE DEF pods, mounts
  <2>3. PodSpec \in PodSpecs(VolumeNames, Sources, Places, Subs)
    BY <2>1, <2>2 DEF PodSpecs
  <2>4. PodRight(PodSpec)
    BY DEF PodSpec, PodRight, Named, Mount
  <2> QED
    BY <2>3, <2>4 DEF Fit
<1>6. added \in Fit(VolumeNames, Sources, Places, Subs)
  BY <1>1, <1>2, <1>3, <1>5, AddedFits
<1>7. K8sPodSpec(volumes, extras) = merged
  BY DEF K8sPodSpec, AddedFunction, MergedFunction
<1> HIDE DEF added
<1>8. merged \in Fit(VolumeNames, Sources, Places, Subs)
  BY <1>1, <1>2, <1>4, <1>6, MergedFits
<1> QED
  BY <1>7, <1>8 DEF Fit

\* The segments of the requests that the run looks at.
Written == Segments \cup {"a", ".", "ab", "workspace", "reports"}

\* The paths the run asks about have such segments,
LEMMA PathsWritten == \A path \in Paths : path.segments \in Seq(Written)
<1>1. \A n \in 0..2 : \A f \in [1..n -> Segments] : f \in Seq(Segments)
  BY SeqDef
<1>2. \A f \in Seq(Segments) : f \in Seq(Written)
  BY SeqMonotonic DEF Written
<1> QED
  BY <1>1, <1>2 DEF Paths, Path

\* and so have the prefixes it allows.
LEMMA ListsWritten == \A allowed \in Lists : \A prefix \in allowed : prefix \in Seq(Written)
<1>1. /\ <<>> \in Seq(Written) /\ <<"a">> \in Seq(Written) /\ <<"ab">> \in Seq(Written)
      /\ <<"a", ".", "ab">> \in Seq(Written)
  BY DEF Written
<1> QED
  BY <1>1 DEF Lists

\* A volume of such paths, with at most one of each backend, is a proper one:
LEMMA VolumeProper ==
  ASSUME NEW name, NEW mount, NEW sub, NEW host, NEW pvc, NEW ossfs,
         IsFiniteSet(host), IsFiniteSet(pvc), IsFiniteSet(ossfs),
         sub.segments \in Seq(Written), \A path \in host : path.segments \in Seq(Written)
  PROVE  Proper(Volume(name, mount, sub, host, pvc, ossfs), Written)
BY DEF Volume, Proper

\* those of host paths,
LEMMA HostVolumesProper == \A v \in HostVolumes : Proper(v, Written)
<1> DEFINE F(sub, path) == Volume("v", "/v", sub, {path}, {}, {})
<1>1. HostVolumes = {F(sub, path) : sub \in Paths, path \in Paths}
  BY DEF HostVolumes
<1>2. ASSUME NEW sub \in Paths, NEW path \in Paths
      PROVE  Proper(F(sub, path), Written)
  <2>1. /\ sub.segments \in Seq(Written) /\ IsFiniteSet({}) /\ IsFiniteSet({path})
        /\ \A p \in {path} : p.segments \in Seq(Written)
    BY PathsWritten, FS_EmptySet, FS_Singleton
  <2> QED
    BY <2>1, VolumeProper
<1> HIDE DEF F
<1> QED
  BY <1>1, <1>2

\* of claims,
LEMMA ClaimVolumesProper == \A v \in ClaimVolumes : Proper(v, Written)
<1> DEFINE F(sub, claim) == Volume("v", "/v", sub, {}, {claim}, {})
<1>1. ClaimVolumes = {F(sub, claim) : sub \in Paths, claim \in Claims}
  BY DEF ClaimVolumes
<1>2. ASSUME NEW sub \in Paths, NEW claim \in Claims
      PROVE  Proper(F(sub, claim), Written)
  <2>1. /\ sub.segments \in Seq(Written) /\ IsFiniteSet({}) /\ IsFiniteSet({claim})
        /\ \A p \in {} : p.segments \in Seq(Written)
    BY PathsWritten, FS_EmptySet, FS_Singleton
  <2> QED
    BY <2>1, VolumeProper
<1> HIDE DEF F
<1> QED
  BY <1>1, <1>2

\* of buckets,
LEMMA BucketVolumesProper == \A v \in BucketVolumes : Proper(v, Written)
<1> DEFINE F(sub, bucket) == Volume("v", "/v", sub, {}, {}, {bucket})
<1>1. BucketVolumes = {F(sub, bucket) : sub \in Paths, bucket \in Buckets}
  BY DEF BucketVolumes
<1>2. ASSUME NEW sub \in Paths, NEW bucket \in Buckets
      PROVE  Proper(F(sub, bucket), Written)
  <2>1. /\ sub.segments \in Seq(Written) /\ IsFiniteSet({}) /\ IsFiniteSet({bucket})
        /\ \A p \in {} : p.segments \in Seq(Written)
    BY PathsWritten, FS_EmptySet, FS_Singleton
  <2> QED
    BY <2>1, VolumeProper
<1> HIDE DEF F
<1> QED
  BY <1>1, <1>2

\* and the pairs of a claim's and another.
LEMMA PairsProper ==
  \A volumes \in Pairs :
    \E v, w : volumes = <<v, w>> /\ Proper(v, Written) /\ Proper(w, Written)
<1> DEFINE H == {{}, {Path(TRUE, <<"a">>)}}
           Right(volumes) ==
             \E v, w : volumes = <<v, w>> /\ Proper(v, Written) /\ Proper(w, Written)
<1>1. ASSUME NEW n, NEW c, NEW m, NEW place, NEW h \in H
      PROVE  Right(Pair(n, c, m, place, h))
  <2>1. /\ Path(FALSE, <<"a">>).segments \in Seq(Written) /\ NoSub.segments \in Seq(Written)
        /\ Path(TRUE, <<"a">>).segments \in Seq(Written)
    BY DEF Path, NoSub, Written
  <2>2. /\ IsFiniteSet({}) /\ IsFiniteSet({c}) /\ IsFiniteSet({"data"}) /\ IsFiniteSet(h)
        /\ IsFiniteSet(IF h = {} THEN {"data"} ELSE {})
    <3>1. h = {} \/ h = {Path(TRUE, <<"a">>)}
      OBVIOUS
    <3>2. IsFiniteSet({}) /\ \A x : IsFiniteSet({x})
      BY FS_EmptySet, FS_Singleton
    <3> QED
      BY <3>1, <3>2, Zenon
  <2>3. \A path \in h : path.segments \in Seq(Written)
    BY <2>1
  <2>4. Proper(Volume(n, "/v", Path(FALSE, <<"a">>), {}, {c}, {}), Written)
    BY <2>1, <2>2, VolumeProper
  <2>5. Proper(Volume(m, place, NoSub, h, IF h = {} THEN {"data"} ELSE {}, {}), Written)
    BY <2>1, <2>2, <2>3, VolumeProper
  <2> QED
    BY <2>4, <2>5 DEF Pair
<1>2. ASSUME NEW A, NEW B, NEW C, NEW D,
             NEW volumes \in {Pair(n, c, m, place, h) :
                                 n \in A, c \in B, m \in C, place \in D, h \in H}
      PROVE  Right(volumes)
  <2> HIDE DEF H, Right
  <2> QED
    BY <1>1
<1>3. \A volumes \in Pairs : Right(volumes)
  <2> DEFINE A == {"v", "opensandbox-bin"}
             B == {"data", "bare"}
             C == {"v", "w", ""}
             D == {"/v", "/w", "relative"}
  <2>1. Pairs = {Pair(n, c, m, place, h) : n \in A, c \in B, m \in C, place \in D, h \in H}
    BY DEF Pairs
  <2> HIDE DEF A, B, C, D, H, Right
  <2> QED
    BY <1>2, <2>1
<1> QED
  BY <1>3

\* They are sequences of one or two proper volumes.
LEMMA AdmissibleProper ==
  ASSUME NEW volumes \in Admissible
  PROVE  \/ \E v : volumes = <<v>> /\ Proper(v, Written)
         \/ \E v, w : volumes = <<v, w>> /\ Proper(v, Written) /\ Proper(w, Written)
<1>1. CASE volumes \in {Single(v) : v \in HostVolumes \cup ClaimVolumes \cup BucketVolumes}
  BY <1>1, HostVolumesProper, ClaimVolumesProper, BucketVolumesProper DEF Single
<1>2. CASE volumes \in Pairs
  BY <1>2, PairsProper
<1>3. CASE volumes = ScanVolumes
  <2>1. /\ Path(FALSE, <<"a", "workspace">>).segments \in Seq(Written)
        /\ Path(FALSE, <<"a", "reports">>).segments \in Seq(Written)
    BY DEF Path, Written
  <2>2. IsFiniteSet({}) /\ IsFiniteSet({"data"})
    BY FS_EmptySet, FS_Singleton
  <2>3. /\ Proper(Volume("workspace", "/workspace", Path(FALSE, <<"a", "workspace">>), {}, {"data"}, {}), Written)
        /\ Proper(Volume("reports", "/reports", Path(FALSE, <<"a", "reports">>), {}, {"data"}, {}), Written)
    BY <2>1, <2>2, VolumeProper
  <2> QED
    BY <1>3, <2>3 DEF ScanVolumes
<1> QED
  BY <1>1, <1>2, <1>3 DEF Admissible

\* What the run asks of every list of its volumes and prefixes, from the theorems above.
LEMMA MountsAdmittedAll == MountsAdmitted
<1> SUFFICES ASSUME NEW allowed \in Lists, NEW volumes \in Admissible
             PROVE  /\ DockerVolumesOk(volumes, allowed) =>
                         \A i \in DOMAIN volumes : BindRight(volumes, i, Binds(volumes)[i], allowed)
                    /\ VolumesValid(volumes, allowed) =>
                         /\ \A i \in DOMAIN volumes : volumes[i].host # {} =>
                              LET path == CHOOSE p \in volumes[i].host : TRUE
                              IN  BindRight(volumes, i, Norm(path.segments \o volumes[i].sub.segments), allowed)
                         /\ \A extras \in Extras :
                              LET spec == K8sPodSpec(volumes, extras)
                              IN  spec.failed \/ PodRight(spec)
  BY Zenon DEF MountsAdmitted
<1>1. \A prefix \in allowed : prefix \in Seq(Written)
  BY ListsWritten
<1>2. PICK V : volumes \in Seq(V) /\ \A i \in DOMAIN volumes : Proper(volumes[i], Written)
  <2>1. CASE \E v : volumes = <<v>> /\ Proper(v, Written)
    <3>1. PICK v : volumes = <<v>> /\ Proper(v, Written)
      BY <2>1
    <3>2. volumes \in Seq({v}) /\ \A i \in DOMAIN volumes : volumes[i] = v
      BY <3>1
    <3> QED
      BY <3>1, <3>2
  <2>2. CASE \E v, w : volumes = <<v, w>> /\ Proper(v, Written) /\ Proper(w, Written)
    <3>1. PICK v, w : volumes = <<v, w>> /\ Proper(v, Written) /\ Proper(w, Written)
      BY <2>2
    <3>2. volumes \in Seq({v, w}) /\ \A i \in DOMAIN volumes : volumes[i] \in {v, w}
      BY <3>1
    <3> QED
      BY <3>1, <3>2
  <2> QED
    BY <2>1, <2>2, AdmissibleProper
<1>3. ASSUME DockerVolumesOk(volumes, allowed), NEW i \in DOMAIN volumes
      PROVE  BindRight(volumes, i, Binds(volumes)[i], allowed)
  BY <1>1, <1>2, <1>3, BindsAdmitted
<1>4. ASSUME VolumesValid(volumes, allowed), NEW i \in DOMAIN volumes, volumes[i].host # {}
      PROVE  BindRight(volumes, i,
                       Norm((CHOOSE p \in volumes[i].host : TRUE).segments \o volumes[i].sub.segments),
                       allowed)
  <2>1. PICK path \in volumes[i].host : path = CHOOSE p \in volumes[i].host : TRUE
    BY <1>4
  <2>2. BindRight(volumes, i, Norm(path.segments \o volumes[i].sub.segments), allowed)
    BY <1>1, <1>2, <1>4, HostPathsAdmitted
  <2> QED
    BY <2>1, <2>2
<1>5. ASSUME VolumesValid(volumes, allowed), NEW extras \in Extras
      PROVE  K8sPodSpec(volumes, extras).failed \/ PodRight(K8sPodSpec(volumes, extras))
  <2> DEFINE E == {Extra("v", "/v", {}), Extra("w", "/w", {"data"}), Extra("shared", "/v", {})}
  <2>1. \A extra \in E : "template" \in extra.source
    BY DEF Extra
  <2>2. extras \in Seq(E)
    <3> DEFINE v == Extra("v", "/v", {})
               w == Extra("w", "/w", {"data"})
               shared == Extra("shared", "/v", {})
    <3>1. v \in E /\ w \in E /\ shared \in E
      OBVIOUS
    <3>2. extras = <<>> \/ extras = <<v>> \/ extras = <<w, shared>>
      BY <1>5, Zenon DEF Extras
    <3> HIDE DEF v, w, shared, E
    <3>3. <<>> \in Seq(E) /\ <<v>> \in Seq(E) /\ <<w, shared>> \in Seq(E)
      BY <3>1
    <3> QED
      BY <3>2, <3>3, Zenon
  <2> HIDE DEF E
  <2> QED
    BY <1>2, <1>5, <2>1, <2>2, PodsTaken
<1> QED
  BY <1>3, <1>4, <1>5, Zenon

\* In every state: what an admitted request mounts or binds lies where it was
\* admitted; and every mount of its pod names one volume, no two volumes share a
\* name, and no claim of the request has two (_validate_volumes,
\* _build_volume_binds, apply_volumes_to_pod_spec).
THEOREM MountsHold == Spec => []AdmittedMounts
<1>1. AdmittedMounts
  BY MountsAdmittedAll DEF AdmittedMounts
<1> QED
  BY <1>1, PTL
=============================================================================
