---------------------------- MODULE PodTemplates ----------------------------
(***************************************************************************)
(* pkg/handler/podtemplate.go and the conversions of workloads that use    *)
(* it: a request (containers, persistent volumes, advanced options) turned *)
(* into a Kubernetes pod template and claims, and a Kubernetes workload    *)
(* turned back into what a client reads.                                   *)
(*                                                                         *)
(* A container keeps its name, volumes and ports; image, command, args and *)
(* env are copied unchanged both ways and left out.  A port name is a      *)
(* sequence of characters: "l" a lower case letter, "d" a digit, "-" a     *)
(* hyphen, "x" anything else.  A step converts one request or status.      *)
(***************************************************************************)
EXTENDS Integers, Sequences, SequencesExt, TLC

CONSTANTS StorageClasses,  \* storage class -> its accessMode parameter, or ""
          PtRequests,      \* requests: [containers, pvs]
          PtOptions,       \* advanced options: [port, path, reload, purge, mesh, memo]
          PtStatuses       \* statuses Kubernetes reports, by kind of workload

VARIABLE ptCase            \* what is converted in this step

-----------------------------------------------------------------------------
(***************************************************************************)
(* Volumes and claims.                                                     *)
(***************************************************************************)

StorageClassNameTemp == "temp"

BadSize == "bad"

(* A class without accessMode formats a nil error, which panics. *)
TemplateError(pv) ==
  CASE pv.class = "" -> "refused"
    [] pv.class # "" /\ pv.size = BadSize -> "refused"
    [] pv.class = StorageClassNameTemp /\ pv.size # BadSize -> "none"
    [] OTHER -> IF pv.class \notin DOMAIN StorageClasses THEN "refused"
                ELSE IF StorageClasses[pv.class] = "" THEN "panic"
                ELSE IF pv.size = "" THEN "refused" ELSE "none"

scPVCsToK8sVolumesAndPVCs(pvs) ==
  LET bad == {i \in DOMAIN pvs : TemplateError(pvs[i]) # "none"}
  IN [err |-> IF bad = {} THEN "none" ELSE TemplateError(pvs[Min(bad)]),
      dirs |-> SelectSeq(pvs, LAMBDA pv : pv.class = StorageClassNameTemp),
      pvcs |-> SelectSeq(pvs, LAMBDA pv : pv.class # StorageClassNameTemp)]

Named(seq, name) == {i \in DOMAIN seq : seq[i].name = name}

GeneratedName(c, i) == c.name \o "-vol" \o ToString(i - 1)

Supported(v, dirs, pvcs) ==
  \/ v.type \in {"configmap", "secret"}
  \/ v.type = "persistentvolume" /\ Named(dirs, v.name) \cup Named(pvcs, v.name) # {}

(* The volume of a mount: its name, and the source with what it refers to. *)
VolumeOf(c, i, dirs) ==
  LET v == c.volumes[i] IN
  CASE v.type # "persistentvolume" -> [name |-> GeneratedName(c, i), src |-> v.type, ref |-> v.name]
    [] v.type = "persistentvolume" /\ Named(dirs, v.name) # {} ->
         [name |-> v.name, src |-> "emptydir", ref |-> dirs[Min(Named(dirs, v.name))].size]
    [] OTHER -> [name |-> v.name, src |-> "claim", ref |-> v.name]

(* Variant: a persistent volume mounted twice is listed twice. *)
AddVolumeTwice(volumes, v) == Append(volumes, v)

(* Only a persistent volume is looked up among the volumes already there. *)
AddVolume(volumes, v) ==
  IF v.src \in {"emptydir", "claim"} /\ Named(volumes, v.name) # {}
  THEN volumes ELSE Append(volumes, v)

-----------------------------------------------------------------------------
(***************************************************************************)
(* Ports.                                                                  *)
(***************************************************************************)

ToLower(s) == CASE s = "TCP" -> "tcp" [] s = "UDP" -> "udp" [] OTHER -> s

scPortProtocolToK8SProtocol(p) ==
  CASE ToLower(p) = "tcp" -> "TCP" [] ToLower(p) = "udp" -> "UDP" [] OTHER -> "unsupported"

MaxPortNameLen == 15

validatePortName(n) ==
  /\ Len(n) <= MaxPortNameLen
  /\ n # <<>>
  /\ ToSet(n) \subseteq {"l", "d", "-"}
  /\ "l" \in ToSet(n)
  /\ \A i \in 1..(Len(n) - 1) : n[i] # "-" \/ n[i + 1] # "-"
  /\ n[1] # "-" /\ n[Len(n)] # "-"

validPorts(ports) ==
  \A i \in DOMAIN ports :
    /\ scPortProtocolToK8SProtocol(ports[i].proto) # "unsupported"
    /\ validatePortName(ports[i].name)
    /\ \A j \in 1..(i - 1) : ports[j].name # ports[i].name

-----------------------------------------------------------------------------
(***************************************************************************)
(* The pod specification and back.                                         *)
(***************************************************************************)

scContainersAndPVToK8sPodSpec(cs, dirs, pvcs) ==
  IF \E k \in DOMAIN cs : \/ ~validPorts(cs[k].ports)
                          \/ \E i \in DOMAIN cs[k].volumes : ~Supported(cs[k].volumes[i], dirs, pvcs)
  THEN [err |-> "refused", containers |-> <<>>, volumes |-> <<>>]
  ELSE LET vols(k) == [i \in DOMAIN cs[k].volumes |-> VolumeOf(cs[k], i, dirs)]
           k8s(k) == [name |-> cs[k].name,
                      mounts |-> [i \in DOMAIN vols(k) |->
                        [name |-> vols(k)[i].name, path |-> cs[k].volumes[i].path,
                         readOnly |-> vols(k)[i].src \in {"configmap", "secret"}]],
                      ports |-> [i \in DOMAIN cs[k].ports |->
                        [name |-> cs[k].ports[i].name,
                         proto |-> scPortProtocolToK8SProtocol(cs[k].ports[i].proto)]]]
       IN [err |-> "none",
           containers |-> [k \in DOMAIN cs |-> k8s(k)],
           volumes |-> FoldLeft(AddVolume, <<>>, FlattenSeq([k \in DOMAIN cs |-> vols(k)]))]

scPodSpecToK8sPodSpecAndPVCs(req) ==
  LET v == scPVCsToK8sVolumesAndPVCs(req.pvs)
      s == scContainersAndPVToK8sPodSpec(req.containers, v.dirs, v.pvcs)
  IN [err |-> IF v.err # "none" THEN v.err ELSE s.err,
      containers |-> s.containers, volumes |-> s.volumes, pvcs |-> v.pvcs]

(* The first volume with the mount's name, as a client's volume. *)
ReadVolume(m, volumes) ==
  LET v == volumes[Min(Named(volumes, m.name))]
  IN [type |-> IF v.src \in {"configmap", "secret"} THEN v.src ELSE "persistentvolume",
      name |-> IF v.src = "emptydir" THEN v.name ELSE v.ref, path |-> m.path]

ReadTemplate(m, volumes) ==
  LET v == volumes[Min(Named(volumes, m.name))]
  IN [name |-> IF v.src = "emptydir" THEN v.name ELSE v.ref,
      class |-> IF v.src = "emptydir" THEN StorageClassNameTemp ELSE "",
      size |-> IF v.src = "emptydir" THEN v.ref ELSE "",
      mounted |-> v.src \in {"emptydir", "claim"}]

AddTemplate(ts, t) == IF ~t.mounted \/ Named(ts, t.name) # {} THEN ts ELSE Append(ts, t)

k8sPodSpecToScContainersAndVCTemplates(containers, volumes) ==
  LET found(c) == SelectSeq(c.mounts, LAMBDA m : Named(volumes, m.name) # {})
      sc(c) == [name |-> c.name,
                volumes |-> [i \in DOMAIN found(c) |-> ReadVolume(found(c)[i], volumes)],
                ports |-> [i \in DOMAIN c.ports |->
                             [name |-> c.ports[i].name, proto |-> ToLower(c.ports[i].proto)]]]
      ts(c) == [i \in DOMAIN found(c) |-> ReadTemplate(found(c)[i], volumes)]
  IN [containers |-> [k \in DOMAIN containers |-> sc(containers[k])],
      templates |-> FoldLeft(AddTemplate, <<>>,
                             FlattenSeq([k \in DOMAIN containers |-> ts(containers[k])]))]

(* Deployments and daemon sets: the claims there are; volumes of class     *)
(* temp are not reported.                                                  *)
getPVCs(templates, claims) ==
  LET asked == SelectSeq(templates, LAMBDA t : t.class # StorageClassNameTemp)
  IN IF \E i \in DOMAIN asked : Named(claims, asked[i].name) = {}
     THEN [err |-> "notFound", pvs |-> <<>>]
     ELSE [err |-> "none",
           pvs |-> [i \in DOMAIN asked |-> claims[Min(Named(claims, asked[i].name))]]]

(* Stateful sets: the temp volumes mounted, then every claim template. *)
statefulSetPVs(templates, claimTemplates) ==
  LET temp == SelectSeq(templates, LAMBDA t : t.class = StorageClassNameTemp)
  IN [i \in DOMAIN temp |-> [name |-> temp[i].name, class |-> temp[i].class, size |-> temp[i].size]]
       \o claimTemplates

-----------------------------------------------------------------------------
(***************************************************************************)
(* Annotations and advanced options.                                       *)
(***************************************************************************)

NoMetric == [port |-> 0, path |-> ""]

createPodTempateObjectMeta(o) ==
  [scrape |-> o.port # 0 /\ o.path # "",
   metric |-> IF o.port # 0 /\ o.path # "" THEN [port |-> o.port, path |-> o.path] ELSE NoMetric,
   mesh |-> o.mesh]

generatePodOwnerObjectMeta(o) ==
  [options |-> o, changeCause |-> IF o.memo = "" THEN "init version" ELSE o.memo,
   reload |-> o.reload, purge |-> o.purge]

k8sAnnotationsToScExposedMetric(meta) == IF meta.scrape THEN meta.metric ELSE NoMetric

(* What a client reads: the options as saved, the metric from the template. *)
ReadOptions(owner, meta) ==
  [owner.options EXCEPT !.port = k8sAnnotationsToScExposedMetric(meta).port,
                        !.path = k8sAnnotationsToScExposedMetric(meta).path]

-----------------------------------------------------------------------------
(***************************************************************************)
(* The progress of an update.                                              *)
(***************************************************************************)

deployIsUpdating(s) ==
  /\ s.revision # 1
  /\ s.observed # 1
  /\ ~(s.spec = s.replicas /\ s.replicas = s.ready /\ s.ready = s.updated /\ s.unavailable = 0)

(* The replica sets by revision: [replicas, ready]; revision 0 stands for  *)
(* no revision annotation.                                                 *)
getDeploymentUpdateStatus(s) ==
  LET cur == s.revision
      old == s.revision - 1
      new == IF cur \in DOMAIN s.sets THEN s.sets[cur] ELSE [replicas |-> 0, ready |-> 0]
  IN IF s.revision = 0 \/ Cardinality(DOMAIN s.sets) < 2
     THEN [err |-> "error", updating |-> FALSE, updated |-> 0, moving |-> 0, current |-> 0]
     ELSE IF old \in DOMAIN s.sets /\ s.sets[old].replicas = 0
     THEN [err |-> "none", updating |-> FALSE, updated |-> 0, moving |-> 0, current |-> 0]
     ELSE [err |-> "none", updating |-> TRUE, updated |-> new.ready,
           moving |-> new.replicas - new.ready,
           current |-> IF old \in DOMAIN s.sets THEN s.sets[old].replicas ELSE 0]

statefulSetStatus(s) ==
  IF s.currentRevision = s.updateRevision
  THEN [err |-> "none", updating |-> FALSE, updated |-> 0, moving |-> 0, current |-> 0]
  ELSE [err |-> "none", updating |-> TRUE, moving |-> 1,
        updated |-> IF s.updated # 0 THEN s.updated - 1 ELSE 0,
        current |-> IF s.updated # 0 THEN s.spec - s.updated ELSE s.spec - 1]

daemonsetIsUpdate(s) ==
  /\ s.observed # 1
  /\ ~(s.spec = s.available /\ s.available = s.ready /\ s.ready = s.updated /\ s.unavailable = 0)

daemonSetStatus(s) ==
  IF ~daemonsetIsUpdate(s)
  THEN [err |-> "none", updating |-> FALSE, updated |-> 0, moving |-> 0, current |-> 0]
  ELSE [err |-> "none", updating |-> TRUE, moving |-> s.unavailable,
        updated |-> IF s.updated # 0 THEN s.updated - s.unavailable ELSE 0,
        current |-> IF s.updated # 0 THEN s.spec - s.updated ELSE s.spec - s.unavailable]

workloadStatus(s) ==
  CASE s.kind = "statefulset" -> statefulSetStatus(s)
    [] s.kind = "daemonset" -> daemonSetStatus(s)
    [] s.kind = "deployment" -> IF deployIsUpdating(s) THEN getDeploymentUpdateStatus(s)
         ELSE [err |-> "none", updating |-> FALSE, updated |-> 0, moving |-> 0, current |-> 0]

(* The versions a client may roll back to: all but the last one. *)
versionHistory(versions) ==
  LET sorted == SetToSortSeq(versions, LAMBDA a, b : a < b) IN SubSeq(sorted, 1, Len(sorted) - 1)

-----------------------------------------------------------------------------
PtInit == ptCase = [t |-> "none"]

PtConvert ==
  /\ ptCase.t = "none"
  /\ \/ \E r \in PtRequests : ptCase' = [t |-> "request", req |-> r]
     \/ \E o \in PtOptions : ptCase' = [t |-> "options", opts |-> o]
     \/ \E s \in PtStatuses : ptCase' = [t |-> "status", status |-> s]

PtReturn == ptCase.t # "none" /\ ptCase' = [t |-> "none"]

PtNext == PtConvert \/ PtReturn

PtSpec == PtInit /\ [][PtNext]_ptCase

-----------------------------------------------------------------------------
(***************************************************************************)
(* Properties.                                                             *)
(***************************************************************************)

(* A volume name the handler makes up is no persistent volume's name; the  *)
(* code does not check it, and such a mount would silently get the         *)
(* configuration volume.                                                   *)
NoClash(req) ==
  \A k \in DOMAIN req.containers : \A i \in DOMAIN req.containers[k].volumes :
    Named(req.pvs, GeneratedName(req.containers[k], i)) = {}

Distinct(seq) == \A i, j \in DOMAIN seq : seq[i].name = seq[j].name => i = j

Lowered(c) ==
  [c EXCEPT !.ports = [i \in DOMAIN c.ports |-> [c.ports[i] EXCEPT !.proto = ToLower(@)]]]

(* The advanced options read back, but for a metric with no port or path. *)
OptionsReadBack(o) ==
  LET back == ReadOptions(generatePodOwnerObjectMeta(o), createPodTempateObjectMeta(o))
  IN back = IF o.port # 0 /\ o.path # "" THEN o ELSE [o EXCEPT !.port = 0, !.path = ""]

(* A client reads back the containers it asked for (protocols in lower     *)
(* case), each mounted persistent volume with the size and class asked,    *)
(* and, for a stateful set, the ones not mounted too; a deployment's       *)
(* volumes of class temp are the only ones missing from its answer.  The   *)
(* advanced options read back, but for a metric that is not complete.      *)
PtReadBack ==
  /\ ptCase.t = "options" => OptionsReadBack(ptCase.opts)
  /\ ptCase.t = "request" =>
    LET req == ptCase.req
        k8s == scPodSpecToK8sPodSpecAndPVCs(req)
        back == k8sPodSpecToScContainersAndVCTemplates(k8s.containers, k8s.volumes)
        mounted == {pv \in ToSet(req.pvs) :
                      \E k \in DOMAIN req.containers : \E v \in ToSet(req.containers[k].volumes) :
                        v.type = "persistentvolume" /\ v.name = pv.name}
        plain == {pv \in ToSet(req.pvs) : pv.class # StorageClassNameTemp}
    IN (k8s.err = "none" /\ NoClash(req) /\ Distinct(req.containers) /\ Distinct(req.pvs)) =>
         /\ back.containers = [k \in DOMAIN req.containers |-> Lowered(req.containers[k])]
         /\ Distinct(k8s.volumes)
         /\ getPVCs(back.templates, k8s.pvcs).err = "none"
         /\ ToSet(getPVCs(back.templates, k8s.pvcs).pvs) = mounted \cap plain
         /\ ToSet(statefulSetPVs(back.templates, k8s.pvcs)) = mounted \cup plain

(* The counts an update reports are those of all the pods the workload     *)
(* has: updated, in progress and current add up to what was asked, or for  *)
(* a deployment to the pods of its two newest replica sets.                *)
PtStatusAddsUp ==
  ptCase.t = "status" =>
    LET s == ptCase.status
        r == workloadStatus(s)
        pods(n) == IF n \in DOMAIN s.sets THEN s.sets[n].replicas ELSE 0
    IN (r.err = "none" /\ r.updating) =>
         r.updated + r.moving + r.current =
           IF s.kind = "deployment" THEN pods(s.revision) + pods(s.revision - 1) ELSE s.spec

=============================================================================
