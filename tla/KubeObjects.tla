----------------------------- MODULE KubeObjects -----------------------------
(***************************************************************************)
(* The handlers of pkg/handler that keep one Kubernetes object per         *)
(* resource: services, ingresses, config maps, secrets, limit ranges,      *)
(* resource quotas, autoscaler metrics and jobs.  Each turns a request     *)
(* into an object and an object into an answer; a Create, an Update or a   *)
(* Delete is one call of the Kubernetes API and its error.                 *)
(*                                                                         *)
(* Hosts and paths are numbers (0: empty), so that they can be sorted; a   *)
(* quantity is the number of thousandths it denotes, NoQuantity an empty   *)
(* text and BadQuantity one that does not parse.                           *)
(***************************************************************************)
EXTENDS Integers, Sequences, SequencesExt, TLC

CONSTANTS KoRequests,      \* requests to create: [kind, obj]
          KoUpdates        \* requests to update: [kind, obj]

VARIABLE koCase            \* the object stored, the request and the answer

NoQuantity == -1
BadQuantity == -2

Refused == [ok |-> FALSE]

-----------------------------------------------------------------------------
(***************************************************************************)
(* Services.                                                               *)
(***************************************************************************)

LowerCase(s) ==
  CASE s = "TCP" -> "tcp" [] s = "UDP" -> "udp"
    [] s = "ClusterIP" -> "clusterip" [] s = "NodePort" -> "nodeport"
    [] s = "LoadBalancer" -> "loadbalancer" [] s = "OnFailure" -> "onfailure"
    [] s = "Never" -> "never" [] s = "CPU" -> "cpu" [] OTHER -> s

scServiceTypeToK8sServiceType(typ) ==
  CASE LowerCase(typ) = "clusterip" -> "ClusterIP" [] LowerCase(typ) = "nodeport" -> "NodePort"
    [] LowerCase(typ) = "loadbalancer" -> "LoadBalancer" [] OTHER -> ""

Protocol(p) ==
  CASE LowerCase(p) = "tcp" -> "TCP" [] LowerCase(p) = "udp" -> "UDP" [] OTHER -> ""

(* The address is checked only for the type written in lower case. *)
validateIfLoadBalancerService(s) == s.type = "loadbalancer" => s.vip \in {"v4"}

scServiceToLBK8sServiceAnnotation(s) ==
  [vip |-> s.vip, method |-> IF s.method = "" THEN "rr" ELSE s.method]

createService(s) ==
  LET typ == scServiceTypeToK8sServiceType(s.type) IN
  IF \/ ~validateIfLoadBalancerService(s)
     \/ typ = ""
     \/ \E i \in DOMAIN s.ports : Protocol(s.ports[i].proto) = ""
  THEN Refused
  ELSE [ok |-> TRUE, type |-> typ,
        ports |-> [i \in DOMAIN s.ports |-> [s.ports[i] EXCEPT !.proto = Protocol(@)]],
        lb |-> IF typ = "LoadBalancer" THEN scServiceToLBK8sServiceAnnotation(s)
                                       ELSE [vip |-> "", method |-> ""],
        clusterIP |-> IF typ = "ClusterIP" /\ s.headless THEN "None" ELSE "assigned"]

k8sServiceToSCService(k) ==
  [type |-> LowerCase(k.type), clusterIP |-> k.clusterIP, vip |-> k.lb.vip, method |-> k.lb.method,
   headless |-> FALSE,
   ports |-> [i \in DOMAIN k.ports |-> [k.ports[i] EXCEPT !.proto = LowerCase(@)]]]

-----------------------------------------------------------------------------
(***************************************************************************)
(* Ingresses.                                                              *)
(***************************************************************************)

isIngressRuleEqual(r1, r2) == r1.host = r2.host /\ r1.path = r2.path

RuleLess(r1, r2) ==
  IF r1.host # r2.host THEN r1.host < r2.host ELSE r1.path < r2.path

validateAndSortRules(rules) ==
  LET s == SortSeq(rules, RuleLess)
  IN [ok |-> /\ \A i \in 1..(Len(s) - 1) : ~isIngressRuleEqual(s[i], s[i + 1])
             /\ \A i \in DOMAIN s : s[i].host # 0 /\ s[i].path # 0,
      rules |-> s]

(* A rule joins the last one when it is for the same host. *)
JoinRule(acc, r) ==
  LET path == [path |-> r.path, service |-> r.service] IN
  IF acc # <<>> /\ r.host = acc[Len(acc)].host
  THEN [acc EXCEPT ![Len(acc)].paths = Append(@, path)]
  ELSE Append(acc, [host |-> r.host, paths |-> <<path>>])

scIngressTok8sIngress(g) ==
  LET v == validateAndSortRules(g.rules) IN
  IF ~v.ok THEN Refused
  ELSE [ok |-> TRUE, rules |-> FoldLeft(JoinRule, <<>>, v.rules),
        body |-> IF g.size > 0 /\ g.unit # "" THEN [size |-> g.size, unit |-> g.unit]
                                              ELSE [size |-> 0, unit |-> ""]]

k8sIngressToSCIngress(k) ==
  [rules |-> FlattenSeq([i \in DOMAIN k.rules |->
               [j \in DOMAIN k.rules[i].paths |->
                 [host |-> k.rules[i].host, path |-> k.rules[i].paths[j].path,
                  service |-> k.rules[i].paths[j].service]]]),
   size |-> k.body.size, unit |-> k.body.unit]

(* Update replaces the rules only. *)
updateIngress(k, g) ==
  LET new == scIngressTok8sIngress(g) IN
  IF ~new.ok THEN Refused ELSE [k EXCEPT !.rules = new.rules]

-----------------------------------------------------------------------------
(***************************************************************************)
(* Config maps and secrets: a list of pairs stored as a map.               *)
(***************************************************************************)

KeysDistinct(list) == \A i, j \in DOMAIN list : list[i].key = list[j].key => i = j

AsMap(list) ==
  [k \in {list[i].key : i \in DOMAIN list} |->
     list[CHOOSE i \in DOMAIN list : list[i].key = k].value]

scConfigMapToK8sConfigMap(c) ==
  IF ~KeysDistinct(c.data) THEN Refused ELSE [ok |-> TRUE, data |-> AsMap(c.data), type |-> ""]

scSecretToK8sSecret(c) ==
  IF ~KeysDistinct(c.data) THEN Refused ELSE [ok |-> TRUE, data |-> AsMap(c.data), type |-> "Opaque"]

(* The pairs of an answer come in any order: they are kept as a set. *)
k8sConfigMapToSCConfigMap(k) == [data |-> {[key |-> x, value |-> k.data[x]] : x \in DOMAIN k.data}]

k8sSecretToSCSecret(k) == [data |-> {[key |-> x, value |-> k.data[x]] : x \in DOMAIN k.data}]

updateConfigMap(k, c) ==
  LET new == scConfigMapToK8sConfigMap(c) IN
  IF k.deleting \/ ~new.ok THEN Refused ELSE [k EXCEPT !.data = new.data]

updateSecret(k, c) ==
  LET new == scSecretToK8sSecret(c) IN
  IF k.deleting \/ ~new.ok THEN Refused ELSE [k EXCEPT !.data = new.data, !.type = new.type]

-----------------------------------------------------------------------------
(***************************************************************************)
(* Limit ranges and resource quotas: names and quantities.                 *)
(***************************************************************************)

LimitNames == {"cpu", "memory"}

scResourceNameToK8sResourceName(name) == IF LowerCase(name) \in LimitNames THEN LowerCase(name) ELSE ""

QuotaNames == {"requests.cpu", "requests.memory", "limits.cpu", "limits.memory", "requests.storage"}

scQuotaResourceNameToK8sResourceName(name) == IF name \in QuotaNames THEN name ELSE ""

ParsesAll(list, Name(_)) ==
  \A n \in DOMAIN list : Name(n) # "" /\ list[n] \notin {BadQuantity, NoQuantity}

scLimitResourceListToK8sResourceList(list) ==
  IF ~ParsesAll(list, scResourceNameToK8sResourceName) THEN Refused
  ELSE [ok |-> TRUE, list |-> [n \in {scResourceNameToK8sResourceName(m) : m \in DOMAIN list} |->
          list[CHOOSE m \in DOMAIN list : scResourceNameToK8sResourceName(m) = n]]]

scQuotaResourceListToK8sResourceList(list) ==
  IF ~ParsesAll(list, scQuotaResourceNameToK8sResourceName) THEN Refused
  ELSE [ok |-> TRUE, list |-> list]

createLimitRange(l) ==
  LET max == scLimitResourceListToK8sResourceList(l.max)
      min == scLimitResourceListToK8sResourceList(l.min)
  IN IF (DOMAIN l.max = {} /\ DOMAIN l.min = {}) \/ ~max.ok \/ ~min.ok THEN Refused
     ELSE [ok |-> TRUE, max |-> max.list, min |-> min.list]

createResourceQuota(q) ==
  LET hard == scQuotaResourceListToK8sResourceList(q.limits)
  IN IF ~hard.ok THEN Refused ELSE [ok |-> TRUE, hard |-> hard.list]

k8sResourceListToSCLimitResourceList(list) ==
  [n \in DOMAIN list \cap LimitNames |-> list[n]]

k8sResourceListToSCQuotaResourceList(list) ==
  [n \in DOMAIN list \cap QuotaNames |-> list[n]]

k8sLimitRangeToSCLimitRange(k) ==
  [max |-> k8sResourceListToSCLimitResourceList(k.max),
   min |-> k8sResourceListToSCLimitResourceList(k.min)]

k8sResourceQuotaToSCResourceQuota(k) == [limits |-> k8sResourceListToSCQuotaResourceList(k.hard)]

-----------------------------------------------------------------------------
(***************************************************************************)
(* The metrics of an autoscaler.                                           *)
(***************************************************************************)

scMetricValueToK8sMetricTarget(typ, value, utilization) ==
  CASE typ = "Utilization" /\ utilization # 0 ->
         [ok |-> TRUE, type |-> typ, value |-> NoQuantity, utilization |-> utilization]
    [] typ = "AverageValue" /\ value \notin {NoQuantity, BadQuantity} ->
         [ok |-> TRUE, type |-> typ, value |-> value, utilization |-> 0]
    [] OTHER -> Refused

scResourceMetricSpecToK8sMetricSpec(m) ==
  LET target == scMetricValueToK8sMetricTarget(m.type, m.value, m.utilization) IN
  IF ~target.ok \/ scResourceNameToK8sResourceName(m.name) = "" THEN Refused
  ELSE [ok |-> TRUE, name |-> scResourceNameToK8sResourceName(m.name), target |-> target]

Ceil(n) == (n + 999) \div 1000

(* A cpu value is answered in thousandths, without a unit: as a text it    *)
(* denotes a thousand times more.  Other values are rounded up.            *)
k8sMetricSpecToScResourceMetricSpec(k) ==
  [name |-> k.name, type |-> k.target.type, utilization |-> k.target.utilization,
   value |-> CASE k.target.value = NoQuantity -> NoQuantity
               [] k.target.value # NoQuantity /\ k.name = "cpu" -> k.target.value * 1000
               [] OTHER -> Ceil(k.target.value) * 1000]

(* The alias of a custom metric: metric, hash of its labels, hpa. *)
genPrometheusAdapterConfigMapRule(hpa, m) == <<m.metric, m.labels, hpa>>

scCustomMetricSpecToK8sMetricSpec(hpa, m) ==
  LET target == scMetricValueToK8sMetricTarget("AverageValue", m.value, 0) IN
  IF ~target.ok THEN Refused
  ELSE [ok |-> TRUE, as |-> genPrometheusAdapterConfigMapRule(hpa, m), labels |-> m.labels,
        value |-> target.value]

(* The suffix made of the labels and the hpa is cut off the alias. *)
k8sMetricSpecToScCustomMetricSpec(hpa, k) ==
  [metric |-> k.as[1], labels |-> k.labels, value |-> Ceil(k.value) * 1000]

-----------------------------------------------------------------------------
(***************************************************************************)
(* Jobs and cron jobs.                                                     *)
(***************************************************************************)

scRestartPolicyToK8sRestartPolicy(p) ==
  CASE LowerCase(p) = "onfailure" -> "OnFailure" [] LowerCase(p) = "never" -> "Never" [] OTHER -> ""

createJob(j) ==
  IF j.volumes \/ scRestartPolicyToK8sRestartPolicy(j.policy) = "" THEN Refused
  ELSE [ok |-> TRUE, policy |-> scRestartPolicyToK8sRestartPolicy(j.policy)]

createCronJob(j) ==
  IF j.volumes \/ scRestartPolicyToK8sRestartPolicy(j.policy) = "" THEN Refused
  ELSE [ok |-> TRUE, policy |-> scRestartPolicyToK8sRestartPolicy(j.policy), schedule |-> j.schedule]

k8sJobToSCJob(k) == [policy |-> k.policy, volumes |-> FALSE]

k8sCronJobToScCronJob(k) == [policy |-> k.policy, volumes |-> FALSE, schedule |-> k.schedule]

-----------------------------------------------------------------------------
(***************************************************************************)
(* A request: what is stored, and what a Get then answers.                 *)
(***************************************************************************)

ToK8s(kind, o) ==
  CASE kind = "service" -> createService(o)
    [] kind = "ingress" -> scIngressTok8sIngress(o)
    [] kind = "configmap" -> scConfigMapToK8sConfigMap(o)
    [] kind = "secret" -> scSecretToK8sSecret(o)
    [] kind = "limitrange" -> createLimitRange(o)
    [] kind = "quota" -> createResourceQuota(o)
    [] kind = "resourcemetric" -> scResourceMetricSpecToK8sMetricSpec(o)
    [] kind = "custommetric" -> scCustomMetricSpecToK8sMetricSpec("hpa", o)
    [] kind = "job" -> createJob(o)
    [] kind = "cronjob" -> createCronJob(o)

ToSC(kind, k) ==
  CASE kind = "service" -> k8sServiceToSCService(k)
    [] kind = "ingress" -> k8sIngressToSCIngress(k)
    [] kind = "configmap" -> k8sConfigMapToSCConfigMap(k)
    [] kind = "secret" -> k8sSecretToSCSecret(k)
    [] kind = "limitrange" -> k8sLimitRangeToSCLimitRange(k)
    [] kind = "quota" -> k8sResourceQuotaToSCResourceQuota(k)
    [] kind = "resourcemetric" -> k8sMetricSpecToScResourceMetricSpec(k)
    [] kind = "custommetric" -> k8sMetricSpecToScCustomMetricSpec("hpa", k)
    [] kind = "job" -> k8sJobToSCJob(k)
    [] kind = "cronjob" -> k8sCronJobToScCronJob(k)

(***************************************************************************)
(* The managers: what a refused request answers, what Update answers when  *)
(* the object cannot be read first, and whether Delete publishes an event. *)
(***************************************************************************)

Simple == [refused |-> "ConnectClusterFailed", updates |-> FALSE, unread |-> "", publishes |-> FALSE]

ServiceManager == [Simple EXCEPT !.publishes = TRUE]

IngressManager == [Simple EXCEPT !.updates = TRUE, !.unread = "ServerError"]

ConfigMapManager == [Simple EXCEPT !.refused = "DuplicateResource", !.updates = TRUE, !.unread = "ConnectClusterFailed"]

SecretManager == [Simple EXCEPT !.updates = TRUE, !.unread = "ConnectClusterFailed"]

LimitRangeManager == Simple

ResourceQuotaManager == Simple

JobManager == Simple

CronJobManager == Simple

Manager(kind) ==
  CASE kind = "service" -> ServiceManager [] kind = "ingress" -> IngressManager
    [] kind = "configmap" -> ConfigMapManager [] kind = "secret" -> SecretManager
    [] kind = "limitrange" -> LimitRangeManager [] kind = "quota" -> ResourceQuotaManager
    [] kind = "job" -> JobManager [] kind = "cronjob" -> CronJobManager [] OTHER -> Simple

RefusalCode(kind, o) ==
  IF kind = "service" /\ ~validateIfLoadBalancerService(o) THEN "PermissionDenied"
  ELSE Manager(kind).refused

Updated(kind, k, o) ==
  CASE kind = "ingress" -> updateIngress(k, o)
    [] kind = "configmap" -> updateConfigMap(k, o)
    [] kind = "secret" -> updateSecret(k, o)

(* What a call of the Kubernetes API may answer: it fails, or it does what *)
(* the stored object allows.                                               *)
ApiError(stored, op) ==
  {"error"} \cup (IF op = "create" THEN (IF stored THEN {"exists"} ELSE {"none"})
                                   ELSE (IF stored THEN {"none"} ELSE {"notfound"}))

CreateCode(err) == CASE err = "none" -> "ok" [] err = "exists" -> "DuplicateResource"
                     [] OTHER -> "ConnectClusterFailed"

ReadCode(err) == CASE err = "none" -> "ok" [] err = "notfound" -> "NotFound" [] OTHER -> "ServerError"

Idle == [kind |-> "none", k8s |-> Refused, code |-> "", events |-> 0]

KoInit == koCase = Idle

(* Create, when the object of that name does or does not exist already. *)
KoCreate ==
  /\ koCase.kind = "none"
  /\ \E r \in KoRequests : LET k == ToK8s(r.kind, r.obj) IN
       \/ koCase' = [Idle EXCEPT !.kind = r.kind, !.code = "NotFound"]
       \/ /\ ~k.ok
          /\ koCase' = [Idle EXCEPT !.kind = r.kind, !.code = RefusalCode(r.kind, r.obj)]
       \/ /\ k.ok
          /\ \E stored \in BOOLEAN : \E err \in ApiError(stored, "create") :
               koCase' = [kind |-> r.kind, code |-> CreateCode(err), events |-> 0, req |-> r.obj,
                          k8s |-> IF err = "none" THEN k @@ [deleting |-> FALSE]
                                                  ELSE Refused]

Stored == koCase.k8s.ok

(* Update reads the object, replaces the fields it knows, and writes it. *)
KoUpdate ==
  /\ koCase.kind \in {r.kind : r \in KoUpdates}
  /\ \E r \in KoUpdates : \E err \in ApiError(Stored, "update") :
       LET k == Updated(r.kind, koCase.k8s, r.obj) IN
         /\ r.kind = koCase.kind
         /\ \/ err # "none" /\ koCase' = [koCase EXCEPT !.code = IF err = "notfound" THEN "NotFound"
                                                               ELSE Manager(r.kind).unread]
            \/ err = "none" /\ ~k.ok /\ koCase' = [koCase EXCEPT !.code = "ConnectClusterFailed"]
            \/ err = "none" /\ k.ok /\ koCase' = [koCase EXCEPT !.code = "ConnectClusterFailed"]
            \/ err = "none" /\ k.ok /\ koCase' = [koCase EXCEPT !.code = "updated", !.req = r.obj, !.k8s = k]

(* Delete: an object with finalizers stays, marked as being deleted. *)
KoDelete ==
  /\ koCase.kind \notin {"none", "resourcemetric", "custommetric"}
  /\ \E err \in ApiError(Stored, "delete") : \E stays \in BOOLEAN :
       koCase' = [koCase EXCEPT !.code = ReadCode(err),
                    !.k8s = CASE err # "none" -> @ [] err = "none" /\ stays -> [@ EXCEPT !.deleting = TRUE]
                              [] OTHER -> Refused,
                    !.events = IF err = "none" /\ Manager(koCase.kind).publishes THEN 1 ELSE 0]

KoReturn == koCase.kind # "none" /\ koCase' = Idle

KoNext == KoCreate \/ KoUpdate \/ KoDelete \/ KoReturn

KoSpec == KoInit /\ [][KoNext]_koCase

-----------------------------------------------------------------------------
(***************************************************************************)
(* Properties.                                                             *)
(***************************************************************************)

Again(kind, back) ==
  CASE kind \in {"configmap", "secret"} -> ToK8s(kind, [data |-> SetToSeq(back.data)])
    [] OTHER -> ToK8s(kind, back)

(* Sending back what was read stores the same object, after a Create and   *)
(* after an Update: an edit form that changes nothing is harmless.  The    *)
(* code's exceptions are explicit: a headless service comes back as an     *)
(* ordinary one, a cpu target given as a value is multiplied by a          *)
(* thousand, and other values grow to the next whole unit once.            *)
KoReadWriteStable ==
  Stored =>
    LET k == koCase.kind
        was == Restrict(koCase.k8s, DOMAIN koCase.k8s \ {"deleting"})
        again == Again(k, ToSC(k, was))
    IN CASE k = "service" -> again = [was EXCEPT !.clusterIP = "assigned"]
         [] k = "resourcemetric" /\ was.target.type = "AverageValue" ->
              again.target.value = IF was.name = "cpu" THEN 1000 * was.target.value
                                                       ELSE 1000 * Ceil(was.target.value)
         [] k = "custommetric" -> again = [was EXCEPT !.value = 1000 * Ceil(@)]
         [] OTHER -> again = was

(* Whatever happens, a read shows what the last request that was answered  *)
(* as done asked for, whatever failed in between: the pairs of a config    *)
(* map or secret; the rules of an ingress, which has one Kubernetes rule   *)
(* for each of its hosts however they were ordered.  The body size of an   *)
(* ingress is left out: Update does not change it.                         *)
KoAnswered ==
  Stored =>
    CASE koCase.kind \in {"configmap", "secret"} ->
           k8sConfigMapToSCConfigMap(koCase.k8s).data = ToSet(koCase.req.data)
      [] koCase.kind = "ingress" ->
           LET rules == koCase.k8s.rules IN
             /\ Len(rules) = Cardinality({r.host : r \in ToSet(koCase.req.rules)})
             /\ ToSet(k8sIngressToSCIngress(koCase.k8s).rules) = ToSet(koCase.req.rules)
      [] OTHER -> TRUE
=============================================================================
