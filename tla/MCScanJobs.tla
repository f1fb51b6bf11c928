------------------------------ MODULE MCScanJobs ------------------------------
EXTENDS ScanJobs, CreateSandbox

File(stem, ext, text) ==
  [stem |-> stem, ext |-> ext, text |-> text, late |-> FALSE, encoded |-> FALSE]
Manifest == {"yaml", "apiVersion", "kind"}

\* A source whose name is mended, a script, a manifest that is not called one,
\* and two files that are saved under one name.
OneOfEach ==
  {{File("main", "txt", {"python"})}, {File("x", "sh", {"python"})}, {File("x", "txt", Manifest)},
   {File("x", "yml", {"yaml"}), File("x", "yml", {"script"})}}

\* Properties of operators alone (_validate_volumes, get_endpoint,
\* list_sandboxes): they depend on no variable, so TLC checks them where a
\* behaviour begins.
AdmittedMounts == step = "idle" => MountsAdmitted
PathsApart == step = "idle" => MountsApart
EndpointsPublished == step = "idle" => EndpointsReach
ListingComplete == step = "idle" => ListingFinds
=============================================================================
