------------------------- MODULE ScannerOrchestrator -------------------------
(***************************************************************************)
(* What a scan job makes of the files it is given: how the server names    *)
(* them (create_scan_job and detect_extension in api/lifecycle.py), which  *)
(* scanners the orchestrator in the sandbox enables for them, and what     *)
(* each scanner's thread records of its tool's output                      *)
(* (code-interpreter/src/scanner_orchestrator.py).                         *)
(*                                                                         *)
(* A file's name is its stem and its extension: the directories of a name  *)
(* are dropped.  A file's text is the set of the markers that the code     *)
(* looks for in it, and whether a manifest's keys come late, after the     *)
(* first 8 KB.  A tool's output is one of a few kinds, from the program    *)
(* missing to output that is cut off in the middle of its items.           *)
(***************************************************************************)
EXTENDS FiniteSets

\* What the regular expressions look for: a text in braces or brackets, a YAML
\* key or "---", the keys of a manifest, Go's package or main, Python's marks
\* (a line that begins with # among them), and JavaScript's words.
ManifestKeys == {"apiVersion", "kind", "metadata"}
Markers == {"braces", "yaml", "go", "python", "script"} \cup ManifestKeys
Texts == {t \in SUBSET Markers : t \cap ManifestKeys # {} => "yaml" \in t}
Extensions == {"py", "json", "yaml", "yml", "go", "js", "k8s", "sh", "txt"}

\* A file of a request; its text may be sent in base64, in which case the
\* markers cannot be seen.
Files == [stem : {"main", "x"}, ext : Extensions \cup {""}, text : Texts,
          late : BOOLEAN, encoded : BOOLEAN]

\* A name that has to be mended: it begins with main or code, or has no
\* extension.
Generic(file) == file.stem = "main" \/ file.ext = ""

\* detect_extension: the first of the marks that is there decides.
DetectExtension(text) ==
  CASE "braces" \in text -> "json"
    [] "braces" \notin text /\ "yaml" \in text -> "yaml"
    [] text \cap {"braces", "yaml"} = {} /\ "go" \in text -> "go"
    [] text \cap {"braces", "yaml", "go", "python"} = {} /\ "script" \in text -> "js"
    [] OTHER -> "py"

\* A plausible bug: the name decides even when it is a generic one.
SavedAsNamed(file) == [stem |-> file.stem, ext |-> IF file.ext = "" THEN "py" ELSE file.ext,
                       text |-> file.text, late |-> file.late]

\* files_to_save: a generic name gets the extension of the text that was sent;
\* what is written is the decoded text.
Saved(file) ==
  [stem |-> file.stem,
   ext |-> IF Generic(file) THEN DetectExtension(IF file.encoded THEN {} ELSE file.text)
                            ELSE file.ext,
   text |-> file.text, late |-> file.late]

\* Two files of a request may be saved under one name, because of their
\* directories or because their names are mended: the one that is written last
\* is the one that is kept.  The order is the request's.
SameName(file, other) == Saved(file).stem = Saved(other).stem /\ Saved(file).ext = Saved(other).ext
Kept(request) ==
  {kept \in SUBSET request :
     \A file \in request : Cardinality({other \in kept : SameName(file, other)}) = 1}

\* _is_k8s_manifest, which reads the first 8 KB.
IsK8sManifest(saved) ==
  ~saved.late /\ "apiVersion" \in saved.text /\ saved.text \cap {"kind", "metadata"} # {}

\* _get_enabled_tools: a manifest is recognised by its text first, any other
\* file by its extension.
Classified(saved) ==
  CASE saved.ext = "k8s" \/ IsK8sManifest(saved) -> "k8s"
    [] saved.ext \in {"yaml", "yml"} /\ ~IsK8sManifest(saved) -> "yaml"
    [] saved.ext = "py" /\ ~IsK8sManifest(saved) -> "python"
    [] saved.ext = "go" /\ ~IsK8sManifest(saved) -> "go"
    [] saved.ext = "sh" /\ ~IsK8sManifest(saved) -> "shell"
    [] OTHER -> "other"

Baseline == {"gitleaks", "semgrep", "trivy"}
ToolsFor(class) ==
  CASE class = "python" -> {"bandit", "py_compile"}
    [] class = "go" -> {"go_build", "gosec", "staticcheck", "golangci_lint"}
    [] class = "yaml" -> {"yamllint"}
    [] class = "k8s" -> {"kubelinter", "kubeconform", "kubescore"}
    [] class = "shell" -> {"shellcheck"}
    [] class = "other" -> {}
Enabled(files) == Baseline \cup UNION {ToolsFor(Classified(f)) : f \in files}
Tools == Baseline \cup UNION {ToolsFor(c) : c \in {"python", "go", "yaml", "k8s", "shell"}}

\* The same: the links under .yaml names that manifests of another name get.
Links(files) ==
  {[f EXCEPT !.ext = "yaml"] :
     f \in {g \in files : Classified(g) = "k8s" /\ g.ext \notin {"yaml", "yml"}}}
-----------------------------------------------------------------------------
\* How a tool's program may end: not installed, not started, nothing printed
\* (and an exit code of 0, or not), no issues, issues, output that cannot be
\* read, and issues of which one has a form the parser does not expect.
Outcomes == {"missing", "error", "silent", "failed", "clean", "issues", "garbage", "malformed"}

Statuses == {"COMPLETED", "ISSUES_FOUND", "NOT_FOUND", "ERROR", "SKIPPED"}

\* run_command: an exit code is no error, whatever it is.
RunCommand(outcome) ==
  CASE outcome = "missing" -> "NOT_FOUND"
    [] outcome = "error" -> "ERROR"
    [] OTHER -> "COMPLETED"

\* What a thread leaves: its entry of "scans", or none when it died of an
\* exception, and the names under which it reported findings.
Died == "died"
Entry(status, names) == [status |-> status, names |-> names]

\* A tool that prints JSON: the issues before a malformed one may have been
\* reported, and the status may have been set before or after them.
Parsed(name, outcome, malformed, garbage) ==
  CASE outcome = "issues" -> {Entry("ISSUES_FOUND", {name})}
    [] outcome = "malformed" -> {Entry(malformed, {}), Entry(malformed, {name})}
    [] outcome = "garbage" -> {Entry(garbage, {})}
    [] OTHER -> {Entry(RunCommand(outcome), {})}

\* semgrep looks at the names that were there before the links.
SkipsSemgrep(files) == \A f \in files : f.ext \in {"sh", "txt"}
ScanSemgrep(files, outcome) ==
  IF SkipsSemgrep(files)
    THEN {Entry("SKIPPED", {})}
    ELSE Parsed("semgrep", outcome, "ERROR", "ERROR")

\* py_compile runs in the thread: only the compiler's own error is caught.
ScanPyCompile(outcome) ==
  CASE outcome \in {"issues", "malformed"} -> {Entry("ISSUES_FOUND", {"py_compile"})}
    [] outcome = "error" -> {Entry(Died, {})}
    [] OTHER -> {Entry("COMPLETED", {})}

\* gitleaks writes a file: none when it did not run or printed nothing.
ScanGitleaks(outcome) == Parsed("gitleaks", outcome, "ISSUES_FOUND", "COMPLETED")

\* yamllint's lines: any output is an issue, only those with four parts are
\* reported.
ScanYamllint(outcome) == Parsed("yamllint", outcome, "ISSUES_FOUND", "ISSUES_FOUND")

ScanBandit(outcome) == Parsed("bandit", outcome, "ISSUES_FOUND", "COMPLETED")

\* A go that did not run has no exit code to compare: the thread dies of it.
ScanGoBuild(outcome) ==
  CASE outcome \in {"missing", "error"} -> {Entry(Died, {})}
    [] outcome \in {"failed", "issues", "malformed"} -> {Entry("ISSUES_FOUND", {"go_build"})}
    [] OTHER -> {Entry("COMPLETED", {})}

ScanGosec(outcome) == Parsed("gosec", outcome, "ERROR", "ERROR")

\* The status is set after the last line was read.
ScanStaticcheck(outcome) == Parsed("staticcheck", outcome, "COMPLETED", "COMPLETED")

\* Findings are reported under another name than the scan.
ScanGolangciLint(outcome) == Parsed("golangci-lint", outcome, "ISSUES_FOUND", "COMPLETED")

ScanTrivy(outcome) == Parsed("trivy", outcome, "COMPLETED", "COMPLETED")

ScanKubelinter(outcome) == Parsed("kubelinter", outcome, "ISSUES_FOUND", "COMPLETED")

ScanKubeconform(outcome) == Parsed("kubeconform", outcome, "COMPLETED", "COMPLETED")

\* A plausible bug: the status and the findings go by the program's name.
ScanKubescoreByProgram(outcome) ==
  IF outcome \in {"failed", "issues"} THEN {Entry("ISSUES_FOUND", {"kube-score"})}
                                      ELSE {Entry("COMPLETED", {})}

\* kube-score runs per file, and a file it could not run for, or whose output
\* cannot be read, counts as one without checks.
ScanKubescore(outcome) ==
  CASE outcome \in {"failed", "issues"} -> {Entry("ISSUES_FOUND", {"kubescore"})}
    [] outcome = "malformed" -> {Entry("COMPLETED", {}), Entry("ISSUES_FOUND", {})}
    [] OTHER -> {Entry("COMPLETED", {})}

ScanShellcheck(outcome) == Parsed("shellcheck", outcome, "ISSUES_FOUND", "COMPLETED")

\* run_all's scanner_map.
ScanResults(tool, files, outcome) ==
  CASE tool = "semgrep" -> ScanSemgrep(files, outcome)
    [] tool = "py_compile" -> ScanPyCompile(outcome)
    [] tool = "gitleaks" -> ScanGitleaks(outcome)
    [] tool = "yamllint" -> ScanYamllint(outcome)
    [] tool = "bandit" -> ScanBandit(outcome)
    [] tool = "go_build" -> ScanGoBuild(outcome)
    [] tool = "gosec" -> ScanGosec(outcome)
    [] tool = "staticcheck" -> ScanStaticcheck(outcome)
    [] tool = "golangci_lint" -> ScanGolangciLint(outcome)
    [] tool = "trivy" -> ScanTrivy(outcome)
    [] tool = "kubelinter" -> ScanKubelinter(outcome)
    [] tool = "kubeconform" -> ScanKubeconform(outcome)
    [] tool = "kubescore" -> ScanKubescore(outcome)
    [] tool = "shellcheck" -> ScanShellcheck(outcome)
-----------------------------------------------------------------------------
\* A plausible bug: only a status of ERROR counts as a failed tool.
EnsureErrors(scans, found) == found \cup {t \in DOMAIN scans : scans[t] = "ERROR"}

\* _ensure_vulnerability_insights: a tool that failed or found issues, and has
\* no finding under its name, gets one.
EnsureInsights(scans, found) ==
  found \cup {t \in DOMAIN scans : scans[t] \in {"ERROR", "ISSUES_FOUND"}}

\* _calculate_summary: a tool that is missing, or whose thread died, is not
\* counted at all.
Summary(scans) ==
  IF \E t \in DOMAIN scans : scans[t] = "ISSUES_FOUND" THEN "RISKS_FOUND"
  ELSE IF \E t \in DOMAIN scans : scans[t] = "ERROR" THEN "ERROR" ELSE "CLEAN"
-----------------------------------------------------------------------------
\* The scanners that look at the files, of those that are enabled.
Looking(files) == IF SkipsSemgrep(files) THEN Enabled(files) \ {"semgrep"} ELSE Enabled(files)

\* What a file of one language may be called, and whether it then reaches the
\* scanners of its text, when no other file takes its place.
ExtensionsOf == [python |-> {"py"}, go |-> {"go"}, yaml |-> {"yaml", "yml"}]

ReachesScanners(file) ==
  LET looking == Looking({Saved(file)})
  IN  /\ {"gitleaks", "trivy"} \subseteq looking
      /\ IsK8sManifest(file) =>
           /\ ToolsFor("k8s") \subseteq looking
           /\ "semgrep" \in looking \/ (~Generic(file) /\ file.ext \in {"sh", "txt"})
      /\ \A language \in DOMAIN ExtensionsOf :
           (/\ file.text = {language}
            /\ IF Generic(file) THEN ~file.encoded ELSE file.ext \in ExtensionsOf[language])
           => Baseline \cup ToolsFor(language) \subseteq looking
=============================================================================
