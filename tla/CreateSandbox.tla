---------------------------- MODULE CreateSandbox -----------------------------
(***************************************************************************)
(* What the sandbox server makes of a request, as operators: which         *)
(* requests create_sandbox admits (services/validators.py, and the checks  *)
(* of services/docker.py, services/ossfs_mixin.py and                      *)
(* services/k8s/kubernetes_service.py), the mounts, labels and ports that  *)
(* an admitted request becomes, and how a sandbox is then listed and       *)
(* addressed.  Every answer is a function of the request, the              *)
(* configuration and the state of the daemon or the cluster; the steps of  *)
(* the calls and their failures are in DockerRuntime and                   *)
(* KubernetesRuntime.                                                      *)
(*                                                                         *)
(* A path is its text split at "/": whether it begins with one, and its    *)
(* segments, of which "" and "." mean nothing, ".." means the parent, and  *)
(* "ab" begins with "a".  The root has no segments.                        *)
(***************************************************************************)
EXTENDS Integers, SequencesExt

CONSTANTS
  Segments,    \* the segments of the paths in a request
  LastTimeout  \* the longest timeout that a date can still be computed for

Path(absolute, segments) == [absolute |-> absolute, segments |-> segments]

\* normpath of an absolute path: what is done, and then one more segment.
Entered(done, s) ==
  IF s \in {"", "."} THEN done
  ELSE IF s # ".." THEN Append(done, s)
  ELSE IF done = <<>> THEN done ELSE Front(done)

Norm(segments) ==
  LET norm[n \in 0..Len(segments)] ==
        IF n = 0 THEN <<>> ELSE Entered(norm[n - 1], segments[n])
  IN  norm[Len(segments)]

\* A plausible bug: a prefix is a prefix of the text, not of the path.
UnderAsText(path, prefix) ==
  \/ IsPrefix(prefix, path)
  \/ /\ prefix # <<>> /\ Len(path) >= Len(prefix)
     /\ \A i \in 1..(Len(prefix) - 1) : path[i] = prefix[i]
     /\ Last(prefix) = "a" /\ path[Len(prefix)] = "ab"

\* The path is the prefix, or begins with the prefix and a separator.  The root
\* with a separator is "//", with which no path begins.
Under(path, prefix) ==
  path = prefix \/ (prefix # <<>> /\ IsStrictPrefix(prefix, path))

\* ensure_valid_host_path; an empty list of prefixes is no list at all.
HostPathOk(path, allowed) ==
  /\ path.absolute
  /\ \A i \in DOMAIN path.segments : path.segments[i] \notin {"", "..", "..b"}
  /\ allowed # {} => \E prefix \in allowed : Under(Norm(path.segments), Norm(prefix))

\* ensure_valid_sub_path.
SubPathOk(sub) ==
  /\ ~sub.absolute
  /\ \A i \in DOMAIN sub.segments : sub.segments[i] # ".."

NoSub == Path(FALSE, <<>>)
Joined(segments, sub) == IF sub = NoSub THEN segments ELSE Norm(segments \o sub.segments)
-----------------------------------------------------------------------------
\* A volume has a set of host paths, of claims and of buckets; one of them in
\* all if it is right.  A name is a DNS label or "Bad name"; "opensandbox-bin"
\* is the server's own in a pod.  A mount path is absolute or "relative".
Volume(name, mount, sub, host, pvc, ossfs) ==
  [name |-> name, mount |-> mount, sub |-> sub, host |-> host, pvc |-> pvc, ossfs |-> ossfs]
Bucket(name, endpoint, options, credentials) ==
  [bucket |-> name, endpoint |-> endpoint, options |-> options, credentials |-> credentials]

NameOk(name) == name \notin {"", "Bad name"}

\* ensure_valid_ossfs_volume.
OssfsOk(bucket) ==
  /\ bucket.bucket # "" /\ bucket.endpoint # ""
  /\ bucket.options \cap {"", "-dashed"} = {}
  /\ bucket.credentials

\* ensure_volumes_valid.
VolumesValid(volumes, allowed) ==
  /\ \A i, j \in DOMAIN volumes : volumes[i].name = volumes[j].name => i = j
  /\ \A i \in DOMAIN volumes :
       LET v == volumes[i]
       IN  /\ NameOk(v.name)
           /\ v.mount # "relative"
           /\ SubPathOk(v.sub)
           /\ Cardinality(v.host) + Cardinality(v.pvc) + Cardinality(v.ossfs) = 1
           /\ \A path \in v.host : HostPathOk(path, allowed)
           /\ \A claim \in v.pvc : NameOk(claim)
           /\ \A bucket \in v.ossfs : OssfsOk(bucket)

\* The daemon's named volumes: driver and mountpoint.
NamedVolumes ==
  [data   |-> [driver |-> "local", mountpoint |-> <<"volumes", "data">>],
   remote |-> [driver |-> "nfs", mountpoint |-> <<"volumes", "remote">>],
   bare   |-> [driver |-> "local", mountpoint |-> <<>>]]

\* _validate_host_volume: a resolved path that is another one is checked again.
DockerHostOk(volume, allowed) ==
  \A path \in volume.host :
    LET resolved == Joined(path.segments, volume.sub)
    IN  allowed # {} /\ resolved # path.segments => HostPathOk(Path(TRUE, resolved), allowed)

\* _validate_pvc_volume.
DockerPvcOk(volume) ==
  \A claim \in volume.pvc :
    /\ claim \in DOMAIN NamedVolumes
    /\ volume.sub # NoSub =>
         /\ NamedVolumes[claim].driver = "local"
         /\ NamedVolumes[claim].mountpoint # <<>>
         /\ IsPrefix(NamedVolumes[claim].mountpoint,
                     Joined(NamedVolumes[claim].mountpoint, volume.sub))

\* _resolve_ossfs_paths: where the bucket is mounted, and bound from.
BucketRoot(bucket) == <<"mnt", "ossfs", bucket.bucket>>
OssfsPath(volume, bucket) == Norm(BucketRoot(bucket) \o volume.sub.segments)
DockerOssfsOk(volume) ==
  \A bucket \in volume.ossfs :
    bucket.credentials /\ IsPrefix(BucketRoot(bucket), OssfsPath(volume, bucket))

\* _validate_volumes.
DockerVolumesOk(volumes, allowed) ==
  /\ VolumesValid(volumes, allowed)
  /\ \A i \in DOMAIN volumes :
       /\ DockerHostOk(volumes[i], allowed)
       /\ DockerPvcOk(volumes[i])
       /\ DockerOssfsOk(volumes[i])

\* _build_volume_binds: the source of each volume's bind.
Binds(volumes) ==
  [i \in DOMAIN volumes |->
     LET v == volumes[i]
     IN  CASE v.host # {} -> Joined((CHOOSE path \in v.host : TRUE).segments, v.sub)
           [] v.host = {} /\ v.pvc # {} ->
                LET claim == CHOOSE c \in v.pvc : TRUE
                IN  IF v.sub = NoSub THEN <<claim>>
                    ELSE Joined(NamedVolumes[claim].mountpoint, v.sub)
           [] OTHER -> OssfsPath(v, CHOOSE bucket \in v.ossfs : TRUE)]

\* The paths that _prepare_ossfs_mounts mounts.
Mounted(volumes) ==
  UNION {{OssfsPath(volumes[i], bucket) : bucket \in volumes[i].ossfs} : i \in DOMAIN volumes}
-----------------------------------------------------------------------------
\* apply_volumes_to_pod_spec, on the pod's volumes (name and source) and the
\* mounts of its first container (name, mount path and sub path): one volume for
\* each claim, under the name of the claim's first use.  It fails on the name of
\* an internal volume, or on a bucket.
Mount(name, path, sub) == [name |-> name, path |-> path, sub |-> sub]
PodSpec == [volumes |-> <<[name |-> "opensandbox-bin", source |-> {"emptyDir"}]>>,
            mounts |-> <<Mount("opensandbox-bin", "/opt/opensandbox/bin", NoSub)>>,
            failed |-> FALSE]

Named(spec, name) == \E i \in DOMAIN spec.volumes : spec.volumes[i].name = name
ClaimedAs(spec, claim) == {i \in DOMAIN spec.volumes : spec.volumes[i].source = {claim}}

AddVolume(spec, v) ==
  IF spec.failed \/ Named(spec, v.name) \/ v.ossfs # {} THEN [spec EXCEPT !.failed = TRUE]
  ELSE LET claimed == UNION {ClaimedAs(spec, claim) : claim \in v.pvc}
           name == IF claimed = {} THEN v.name
                   ELSE spec.volumes[CHOOSE i \in claimed : TRUE].name
       IN  [spec EXCEPT
              !.volumes = IF claimed # {} THEN @
                          ELSE Append(@, [name |-> v.name,
                                             source |-> IF v.host # {} THEN {"hostPath"} ELSE v.pvc]),
              !.mounts = Append(@, Mount(name, v.mount, v.sub))]

\* _merge_pod_spec_extras: what the template adds is kept under names that are
\* not taken, one mount for each name.  A volume of the template comes with its
\* mount, and may be of a claim.
Extra(name, path, claims) == [name |-> name, path |-> path, source |-> {"template"} \cup claims]
AddExtra(spec, extra) ==
  [spec EXCEPT
     !.volumes = IF Named(spec, extra.name) THEN @
                 ELSE Append(@, [name |-> extra.name, source |-> extra.source]),
     !.mounts = IF \E i \in DOMAIN @ : @[i].name = extra.name THEN @
                ELSE Append(@, Mount(extra.name, extra.path, NoSub))]

K8sPodSpec(volumes, extras) ==
  LET added[n \in 0..Len(volumes)] ==
        IF n = 0 THEN PodSpec ELSE AddVolume(added[n - 1], volumes[n])
      merged[n \in 0..Len(extras)] ==
        IF n = 0 THEN added[Len(volumes)] ELSE AddExtra(merged[n - 1], extras[n])
  IN  merged[Len(extras)]
-----------------------------------------------------------------------------
\* Metadata: keys and values that are Kubernetes labels, and not the server's.
SystemLabels == {"opensandbox.io/id", "opensandbox.io/expires-at", "opensandbox.io/manual-cleanup"}
ReservedKeys == SystemLabels \cup {"opensandbox.io/tier"}

\* A plausible bug: no prefix is reserved.
UnreservedLabelsOk(metadata) ==
  \A key \in DOMAIN metadata : key # "bad key" /\ metadata[key] # "bad value"

\* ensure_metadata_labels.
LabelsOk(metadata) ==
  \A key \in DOMAIN metadata :
    key \notin ReservedKeys /\ key # "bad key" /\ metadata[key] # "bad value"

\* ensure_timeout_within_limit; a timeout, or a limit, of 0 is none.
TimeoutOk(timeout, limit) ==
  timeout # 0 => timeout <= LastTimeout /\ (limit # 0 => timeout <= limit)

\* A plausible bug: only the image is looked at.
NetworkPolicyWithImage(policy, config) == policy => config.egress

\* Docker's _ensure_network_policy_support and ensure_egress_configured.  The
\* mode is host, bridge or the name of a network.
NetworkPolicyOk(policy, config) ==
  policy => config.mode \notin {"host", "network"} /\ config.egress

\* _validate_network_exists.
NetworkOk(config) == config.mode = "network" => config.networkExists

\* create_sandbox of both runtimes.
DockerAdmits(request, config) ==
  /\ request.entrypoint # <<>>
  /\ LabelsOk(request.metadata)
  /\ TimeoutOk(request.timeout, config.limit)
  /\ NetworkPolicyOk(request.policy, config)
  /\ NetworkOk(config)
  /\ DockerVolumesOk(request.volumes, config.allowed)

K8sAdmits(request, config) ==
  /\ request.entrypoint # <<>>
  /\ LabelsOk(request.metadata)
  /\ TimeoutOk(request.timeout, config.limit)
  /\ request.policy => config.egress
  /\ VolumesValid(request.volumes, config.allowed)
  /\ ~K8sPodSpec(request.volumes, config.extras).failed

SystemValue(id, key) ==
  IF key = "opensandbox.io/id" THEN id
  ELSE IF key = "opensandbox.io/manual-cleanup" THEN "true" ELSE "then"

\* The labels of Docker's container: the system's win over the metadata's.
DockerLabels(id, request) ==
  LET system == {"opensandbox.io/id", IF request.timeout = 0 THEN "opensandbox.io/manual-cleanup"
                                                             ELSE "opensandbox.io/expires-at"}
  IN  [key \in system \cup DOMAIN request.metadata |->
         IF key \in system THEN SystemValue(id, key) ELSE request.metadata[key]]

\* The labels of a BatchSandbox: the metadata's win over the system's.
K8sLabels(id, request) ==
  LET system == {"opensandbox.io/id"}
                \cup (IF request.timeout = 0 THEN {"opensandbox.io/manual-cleanup"} ELSE {})
  IN  [key \in system \cup DOMAIN request.metadata |->
         IF key \in DOMAIN request.metadata THEN request.metadata[key] ELSE SystemValue(id, key)]

-----------------------------------------------------------------------------
\* The ports of a sandbox: its own service, and execd's.
HttpPort == 8080
ExecdPort == 44772

\* _provision_sandbox and _start_egress_sidecar: the host ports that Docker
\* publishes, of the egress sidecar or of the container itself, both of which
\* are in the network that the service listens in.
Published(request, config, execd, http) ==
  IF request.policy \/ config.mode # "host"
    THEN [port \in {ExecdPort, HttpPort} |-> IF port = HttpPort THEN http ELSE execd]
    ELSE <<>>

\* The labels that _provision_sandbox puts down of them.
PortLabels(request, config, execd, http) ==
  IF request.policy \/ config.mode # "host"
    THEN [execd |-> execd, http |-> http]
    ELSE <<>>

\* get_endpoint of Docker: a host port, and what is behind it, the port that was
\* asked for or execd, which passes on to it; <<>> is an error.
Endpoint(port, behind) == [port |-> port, behind |-> behind]
GetEndpoint(labels, config, port) ==
  IF config.mode = "host" THEN Endpoint(port, "port")
  ELSE IF port = HttpPort /\ "http" \in DOMAIN labels THEN Endpoint(labels.http, "port")
  ELSE IF port # HttpPort /\ "execd" \in DOMAIN labels THEN Endpoint(labels.execd, "execd")
  ELSE <<>>

\* get_status and get_endpoint_info of a BatchSandbox: what its status counts
\* as ready, and whether the annotation has a pod's address.
K8sState(ready, address) ==
  IF ~address THEN "Pending" ELSE IF ready = 1 THEN "Running" ELSE "Allocated"
K8sEndpoint(ingress, address) ==
  IF ingress.mode = "gateway" THEN ingress.route ELSE IF address THEN "direct" ELSE "none"

\* AppConfig's and SecureRuntimeConfig's validators: docker and k8s are the
\* names of a runtime and a class that the configuration may give.
SecureRuntimeOk(runtime, secure) ==
  /\ secure.type = "" => secure.docker = "" /\ secure.k8s = ""
  /\ secure.type = "firecracker" => secure.k8s # "" /\ runtime # "docker"
  /\ secure.type \in {"gvisor", "kata"} => secure.docker # "" \/ secure.k8s # ""

\* SecureRuntimeResolver: what the containers of a runtime run in.
DefaultRuntimes ==
  [docker     |-> [gvisor |-> "runsc", kata |-> "kata-runtime"],
   kubernetes |-> [gvisor |-> "gvisor", kata |-> "kata-qemu", firecracker |-> "kata-fc"]]
SecureRuntime(runtime, secure) ==
  LET given == IF runtime = "docker" THEN secure.docker ELSE secure.k8s
  IN  IF secure.type = "" THEN "none"
      ELSE IF given # "" THEN given
      ELSE IF secure.type \in DOMAIN DefaultRuntimes[runtime]
             THEN DefaultRuntimes[runtime][secure.type] ELSE "none"
-----------------------------------------------------------------------------
\* _container_to_sandbox and _build_sandbox_from_workload: the metadata that is
\* shown of the labels.
Without(labels, keys) == [key \in DOMAIN labels \ keys |-> labels[key]]
DockerShown(labels) == Without(labels, SystemLabels)
K8sShown(labels) == Without(labels, ReservedKeys)

\* matches_filter: an empty list of states, or no metadata, is no condition.
MatchesFilter(sandbox, states, metadata) ==
  /\ states # {} => sandbox.state \in states
  /\ \A key \in DOMAIN metadata :
       key \in DOMAIN sandbox.metadata /\ sandbox.metadata[key] = metadata[key]

\* The order of a listing: newest first, otherwise as the daemon gave them.
\* The place of a sandbox is the number of those that come before it.
Before(all, i, j) ==
  all[i].created > all[j].created \/ (all[i].created = all[j].created /\ i < j)
Place(all, matching, i) == Cardinality({j \in matching : Before(all, j, i)}) + 1
NewestFirst(all, matching) ==
  [place \in 1..Cardinality(matching) |-> CHOOSE i \in matching : Place(all, matching, i) = place]

\* The pages of list_sandboxes.
Page(sorted, page, size) ==
  [items |-> SubSeq(sorted, (page - 1) * size + 1,
                    IF page * size < Len(sorted) THEN page * size ELSE Len(sorted)),
   hasNext |-> page < (Len(sorted) + size - 1) \div size]

\* What a client gets that asks for one page after the other while there is a
\* next one.
Walk(sorted, size) ==
  LET LastPage == CHOOSE p \in 1..(Len(sorted) + 1) :
                    /\ ~Page(sorted, p, size).hasNext
                    /\ \A q \in 1..(p - 1) : Page(sorted, q, size).hasNext
      walked[p \in 0..LastPage] ==
        IF p = 0 THEN <<>> ELSE walked[p - 1] \o Page(sorted, p, size).items
  IN  walked[LastPage]
-----------------------------------------------------------------------------
\* What create_scan_job asks for: two volumes of one claim, and the job's
\* metadata.
ScanVolumes ==
  <<Volume("workspace", "/workspace", Path(FALSE, <<"a", "workspace">>), {}, {"data"}, {}),
    Volume("reports", "/reports", Path(FALSE, <<"a", "reports">>), {}, {"data"}, {})>>
ScanRequest(metadata, timeout) ==
  [entrypoint |-> <<"code-interpreter.sh">>, metadata |-> metadata, timeout |-> timeout,
   policy |-> FALSE, volumes |-> ScanVolumes]
-----------------------------------------------------------------------------
\* The requests that the properties look at: paths of up to two segments, lists
\* of prefixes of which one has a sibling that begins with it, one volume of
\* every kind, and pairs of volumes that may share a name, a claim or a mount
\* path.
Paths == {Path(absolute, segments) :
            absolute \in BOOLEAN, segments \in UNION {[1..n -> Segments] : n \in 0..2}}
Lists == {{}, {<<>>}, {<<"a">>}, {<<"a", ".", "ab">>, <<"ab">>}}
Buckets == [bucket : {"", "b"}, endpoint : {"", "e"}, options : {{}, {"o"}, {"-dashed"}},
            credentials : BOOLEAN]
Single(v) == <<v>>
HostVolumes == {Volume("v", "/v", sub, {path}, {}, {}) : sub \in Paths, path \in Paths}
Claims == DOMAIN NamedVolumes \cup {"Bad name"}
ClaimVolumes == {Volume("v", "/v", sub, {}, {claim}, {}) : sub \in Paths, claim \in Claims}
BucketVolumes == {Volume("v", "/v", sub, {}, {}, {bucket}) : sub \in Paths, bucket \in Buckets}
Pair(n, c, m, path, h) ==
  <<Volume(n, "/v", Path(FALSE, <<"a">>), {}, {c}, {}),
    Volume(m, path, NoSub, h, IF h = {} THEN {"data"} ELSE {}, {})>>
Pairs == {Pair(n, c, m, path, h) : n \in {"v", "opensandbox-bin"}, c \in {"data", "bare"},
                                   m \in {"v", "w", ""}, path \in {"/v", "/w", "relative"},
                                   h \in {{}, {Path(TRUE, <<"a">>)}}}
Admissible ==
  {Single(v) : v \in HostVolumes \cup ClaimVolumes \cup BucketVolumes} \cup Pairs \cup {ScanVolumes}
Metadata == UNION {[keys -> {"x", "bad value"}] :
                     keys \in SUBSET {"app", "bad key", "opensandbox.io/id", "opensandbox.io/tier"}}
Configs == [mode : {"host", "bridge", "network"}, networkExists : BOOLEAN, egress : BOOLEAN,
            limit : {0, 2}, allowed : {{}}, extras : {<<>>}]

\* Where a volume's data must come from: a host path below a configured prefix
\* and below the volume's own path, a named volume's mountpoint, or a bucket
\* that was mounted.  The checks read the request, the binds are built later
\* from the request again (_validate_volumes, _build_volume_binds).
BindRight(volumes, i, source, allowed) ==
  /\ \A path \in volumes[i].host :
       /\ IsPrefix(Norm(path.segments), Norm(source))
       /\ allowed # {} => \E prefix \in allowed : IsPrefix(Norm(prefix), Norm(source))
  /\ \A claim \in volumes[i].pvc :
       \/ volumes[i].sub = NoSub /\ source = <<claim>>
       \/ /\ NamedVolumes[claim].mountpoint # <<>>
          /\ IsPrefix(NamedVolumes[claim].mountpoint, source)
  /\ \A bucket \in volumes[i].ossfs :
       source \in Mounted(volumes) /\ IsPrefix(BucketRoot(bucket), source)

\* The volumes of a pod: every mount names one of them, no two share a name,
\* and no claim of the request has two.
MayShare(source) == source = {"hostPath"} \/ "template" \in source
PodRight(spec) ==
  /\ \A i, j \in DOMAIN spec.volumes :
       spec.volumes[i].name = spec.volumes[j].name \/
         (spec.volumes[i].source = spec.volumes[j].source /\ ~MayShare(spec.volumes[i].source))
       => i = j
  /\ \A i \in DOMAIN spec.mounts : Named(spec, spec.mounts[i].name)

\* What the template may add: nothing, a volume of its own under a name that a
\* request may use, and volumes of which one is of a claim.
Extras == {<<>>, <<Extra("v", "/v", {})>>, <<Extra("w", "/w", {"data"}), Extra("shared", "/v", {})>>}

MountsAdmitted ==
  \A allowed \in Lists, volumes \in Admissible :
    /\ DockerVolumesOk(volumes, allowed) =>
         \A i \in DOMAIN volumes : BindRight(volumes, i, Binds(volumes)[i], allowed)
    /\ VolumesValid(volumes, allowed) =>
         /\ \A i \in DOMAIN volumes : volumes[i].host # {} =>
              LET path == CHOOSE p \in volumes[i].host : TRUE
              IN  BindRight(volumes, i, Norm(path.segments \o volumes[i].sub.segments), allowed)
         /\ \A extras \in Extras :
              LET spec == K8sPodSpec(volumes, extras)
              IN  spec.failed \/ PodRight(spec)

\* No two mounts of a pod have one path, and no claim has two volumes: not so,
\* for ensure_volumes_valid compares names only, and _merge_pod_spec_extras names
\* only.
MountsApart ==
  \A volumes \in Admissible, extras \in Extras :
    LET spec == K8sPodSpec(volumes, extras)
    IN  VolumesValid(volumes, {}) /\ ~spec.failed =>
          /\ \A i, j \in DOMAIN spec.mounts : spec.mounts[i].path = spec.mounts[j].path => i = j
          /\ \A i, j \in DOMAIN spec.volumes :
               ~MayShare(spec.volumes[i].source)
                 /\ spec.volumes[i].source \subseteq spec.volumes[j].source => i = j

\* A port of an admitted sandbox is reached through the endpoint that is told
\* for it: by itself on the host's network, through a host port that is
\* published for it, or through execd (_provision_sandbox, get_endpoint).  A
\* BatchSandbox that is said to have an address has an endpoint, and containers
\* never run without the secure runtime that is configured.
EndpointsReach ==
  /\ \A config \in Configs, policy \in BOOLEAN, port \in {80, HttpPort} :
       LET request == [ScanRequest(<<>>, 0) EXCEPT !.policy = policy]
           published == Published(request, config, 1, 2)
           endpoint == GetEndpoint(PortLabels(request, config, 1, 2), config, port)
       IN  DockerAdmits(request, config) =>
             IF published = <<>> THEN endpoint = Endpoint(port, "port")
             ELSE endpoint \in {Endpoint(published[p], IF p = port THEN "port" ELSE "execd") :
                                p \in {ExecdPort, HttpPort} \cap {ExecdPort, port}}
  /\ \A ready \in 0..1, address \in BOOLEAN, route \in {"wildcard", "uri", "header"} :
       \A mode \in {"direct", "gateway"} :
         K8sState(ready, address) # "Pending" =>
           K8sEndpoint([mode |-> mode, route |-> route], address) # "none"
  /\ \A runtime \in DOMAIN DefaultRuntimes :
       \A secure \in [type : {"", "gvisor", "kata", "firecracker"},
                      docker : {"", "given"}, k8s : {"", "given"}] :
         SecureRuntimeOk(runtime, secure) =>
           (SecureRuntime(runtime, secure) = "none" <=> secure.type = "")

\* A client that walks the pages gets every sandbox that matches, once, newest
\* first; and a sandbox that was created with metadata is found by it, whatever
\* the labels are made of and stripped of on the way (ensure_metadata_labels,
\* list_sandboxes of both runtimes).
ListingFinds ==
  /\ \A n \in 0..3, size \in 1..3 :
       \A all \in [1..n -> [created : 0..1, state : {"Running", "Paused"}, metadata : {<<>>}]] :
         LET matching == {i \in 1..n : MatchesFilter(all[i], {"Running"}, <<>>)}
             walk == Walk(NewestFirst(all, matching), size)
         IN  /\ ToSet(walk) = matching /\ Len(walk) = Cardinality(matching)
             /\ \A i \in 1..(Len(walk) - 1) : all[walk[i]].created >= all[walk[i + 1]].created
  /\ \A metadata \in Metadata, timeout \in 0..(LastTimeout + 1), config \in Configs :
       LET request == ScanRequest(metadata, timeout)
           Shown(labels) == [state |-> "Running", metadata |-> labels]
       IN  /\ DockerAdmits(request, config) =>
                LET labels == DockerLabels("id", request)
                IN  /\ labels["opensandbox.io/id"] = "id"
                    /\ MatchesFilter(Shown(DockerShown(labels)), {}, metadata)
           /\ K8sAdmits(request, config) =>
                LET labels == K8sLabels("id", request)
                IN  /\ labels["opensandbox.io/id"] = "id"
                    /\ MatchesFilter(Shown(K8sShown(labels)), {}, metadata)
=============================================================================
