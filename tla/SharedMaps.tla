----------------------------- MODULE SharedMaps -----------------------------
(***************************************************************************)
(* Two config maps that all requests of a cluster share and rewrite.       *)
(*                                                                         *)
(* pkg/handler/hpa_manager.go: a horizontal pod autoscaler with custom     *)
(* metrics lives in two places, the Kubernetes object and the rules of the *)
(* prometheus adapter's config map.  Handlers, and the goroutine that      *)
(* follows deleted workloads, change the two one API call after the other. *)
(* A call of the API may fail; a write of an object that changed since it  *)
(* was read fails with a conflict.  The metric of a rule is its alias,     *)
(* which names the autoscaler.                                             *)
(*                                                                         *)
(* pkg/handler/udpingress_manager.go: the UDP ports of a cluster are the   *)
(* entries of one config map of the nginx ingress controller.  Handlers    *)
(* and the goroutine that follows deleted services and namespaces each     *)
(* read the map, compute a new one and call updateConfigMap, which reads   *)
(* the map again and replaces its data.                                    *)
(***************************************************************************)
EXTENDS Integers

(***************************************************************************)
(* Autoscalers and the rules of custom metrics.                            *)
(***************************************************************************)

CONSTANTS HpaNames,      \* names of autoscalers
          Targets,       \* workloads (kind and name)
          MetricNames,   \* custom metrics
          HaThreads,     \* handler goroutines
          HaMaxOps,      \* bound on the operations started
          HaMaxFaults    \* bound on the API calls that fail

VARIABLES
  hpas,        \* [HpaNames -> NoHpa or the object with its version]
  rules,       \* aliases in the config map
  cmVersion,   \* its resource version
  haOp,        \* [thread -> its operation]
  workloads,   \* deleted workloads the event loop has not seen yet
  haOps, haFaults,
  disturbed    \* autoscalers with overlapping operations, or one that failed half-way

haVars == <<hpas, rules, cmVersion, haOp, workloads, haOps, haFaults, disturbed>>

NoHpa == [exists |-> FALSE]

Alias(h, ms) == {<<m, h>> : m \in ms}

AliasesOf(h) == IF hpas[h].exists THEN Alias(h, hpas[h].metrics) ELSE {}

Loop == "eventLoop"

AllThreads == HaThreads \cup {Loop}

HaIdle == [at |-> "idle"]

HaInit ==
  /\ hpas = [h \in HpaNames |-> NoHpa]
  /\ rules = {} /\ cmVersion = 0
  /\ haOp = [t \in AllThreads |-> HaIdle]
  /\ workloads = {}
  /\ haOps = 0 /\ haFaults = 0
  /\ disturbed = {}

Busy(h) == \E t \in AllThreads : haOp[t].at # "idle" /\ haOp[t].h = h

(* An operation begins: overlapping ones are remembered. *)
Begin(t, op) ==
  /\ haOp[t] = HaIdle
  /\ haOps < HaMaxOps
  /\ haOps' = haOps + 1
  /\ haOp' = [haOp EXCEPT ![t] = op]
  /\ disturbed' = IF Busy(op.h) THEN disturbed \cup {op.h} ELSE disturbed
  /\ UNCHANGED <<hpas, rules, cmVersion, workloads, haFaults>>

(* createHPA: list, refuse a name or a target in use, then the rules. *)
createHPA(t) ==
  \E h \in HpaNames, w \in Targets, ms \in SUBSET MetricNames :
    /\ \A g \in HpaNames : hpas[g].exists => g # h /\ hpas[g].target # w
    /\ Begin(t, [at |-> "readRules", op |-> "create", h |-> h, target |-> w, metrics |-> ms,
                 old |-> {}, new |-> Alias(h, ms), version |-> 0, written |-> FALSE, after |-> {}, cm |-> 0])

(* updateHPA: the object is read with its version. *)
updateHPA(t) ==
  \E h \in HpaNames, ms \in SUBSET MetricNames :
    /\ hpas[h].exists
    /\ Begin(t, [at |-> "readRules", op |-> "update", h |-> h, target |-> hpas[h].target, metrics |-> ms,
                 old |-> AliasesOf(h), new |-> Alias(h, ms), version |-> hpas[h].version, written |-> FALSE,
                 after |-> {}, cm |-> 0])

DeleteOp(h) ==
  [at |-> "readRules", op |-> "delete", h |-> h, target |-> hpas[h].target, metrics |-> {},
   old |-> AliasesOf(h), new |-> {}, version |-> hpas[h].version, written |-> FALSE, after |-> {}, cm |-> 0]

deleteHPA(t) == \E h \in HpaNames : hpas[h].exists /\ Begin(t, DeleteOp(h))

(* A workload is deleted: its delete event reaches the loop later. *)
WorkloadDeleted ==
  /\ \E w \in Targets \ workloads : workloads' = workloads \cup {w}
  /\ haOps < HaMaxOps /\ haOps' = haOps + 1
  /\ UNCHANGED <<hpas, rules, cmVersion, haOp, haFaults, disturbed>>

(* deleteHPAWhenDeleteWorkload: the autoscaler with that target, if any.   *)
(* A failing list is logged and the event is gone.                         *)
deleteHPAWhenDeleteWorkload ==
  /\ haOp[Loop] = HaIdle
  /\ \E w \in workloads :
       LET found == {h \in HpaNames : hpas[h].exists /\ hpas[h].target = w} IN
         /\ workloads' = workloads \ {w}
         /\ \/ /\ found # {}
               /\ \E h \in found :
                    /\ haOp' = [haOp EXCEPT ![Loop] = DeleteOp(h)]
                    /\ disturbed' = IF Busy(h) THEN disturbed \cup {h} ELSE disturbed
               /\ UNCHANGED haFaults
            \/ found = {} /\ UNCHANGED <<haOp, disturbed, haFaults>>
            \/ /\ haFaults < HaMaxFaults /\ haFaults' = haFaults + 1
               /\ UNCHANGED <<haOp, disturbed>>
  /\ UNCHANGED <<hpas, rules, cmVersion, haOps>>

(* The handler answers with an error. *)
GiveUp(t) ==
  /\ haOp' = [haOp EXCEPT ![t] = HaIdle]
  /\ disturbed' = IF haOp[t].written THEN disturbed \cup {haOp[t].h} ELSE disturbed

(* The rules after the change: the old ones out, the new ones in. *)
RulesAfter(o) == (rules \ o.old) \cup o.new

(* updatePrometheusAdapterConfigMap reads the config map: every old alias  *)
(* must be there, no new one may be there after the old ones are out.      *)
ReadRules(t) ==
  LET o == haOp[t] IN
  /\ o.at = "readRules"
  /\ \/ /\ o.old = {} /\ o.new = {}
        /\ haOp' = [haOp EXCEPT ![t].at = "writeHpa"]
        /\ UNCHANGED disturbed
     \/ /\ o.old \cup o.new # {}
        /\ o.old \subseteq rules /\ o.new \cap (rules \ o.old) = {}
        /\ haOp' = [haOp EXCEPT ![t] = [o EXCEPT !.at = "writeRules", !.after = RulesAfter(o), !.cm = cmVersion]]
        /\ UNCHANGED disturbed
     \/ /\ o.old \cup o.new # {}
        /\ ~(o.old \subseteq rules /\ o.new \cap (rules \ o.old) = {})
        /\ GiveUp(t)
  /\ UNCHANGED <<hpas, rules, cmVersion, workloads, haOps, haFaults>>

(* Variant: the config map is written without looking at its version. *)
WriteRulesBlindly(t) ==
  /\ haOp[t].at = "writeRules"
  /\ rules' = haOp[t].after /\ cmVersion' = cmVersion + 1
  /\ haOp' = [haOp EXCEPT ![t].at = "restartAdapter", ![t].written = TRUE]
  /\ UNCHANGED <<hpas, workloads, haOps, haFaults, disturbed>>

(* The config map is written, unless it changed since it was read. *)
WriteRules(t) ==
  /\ haOp[t].at = "writeRules"
  /\ \/ /\ haOp[t].cm = cmVersion
        /\ rules' = haOp[t].after /\ cmVersion' = cmVersion + 1
        /\ haOp' = [haOp EXCEPT ![t].at = "restartAdapter", ![t].written = TRUE]
        /\ UNCHANGED disturbed
     \/ haOp[t].cm # cmVersion /\ GiveUp(t) /\ UNCHANGED <<rules, cmVersion>>
  /\ UNCHANGED <<hpas, workloads, haOps, haFaults>>

(* The adapter's pods are deleted, so that they start with the new rules. *)
RestartAdapter(t) ==
  /\ haOp[t].at = "restartAdapter"
  /\ haOp' = [haOp EXCEPT ![t].at = "writeHpa"]
  /\ UNCHANGED <<hpas, rules, cmVersion, workloads, haOps, haFaults, disturbed>>

(* The object itself comes last. *)
WriteHpa(t) ==
  LET o == haOp[t]
      done == CASE o.op = "create" -> ~hpas[o.h].exists
                [] o.op = "update" -> hpas[o.h].exists /\ hpas[o.h].version = o.version
                [] o.op = "delete" -> hpas[o.h].exists
  IN /\ o.at = "writeHpa"
     /\ \/ /\ done
           /\ hpas' = [hpas EXCEPT ![o.h] = IF o.op = "delete" THEN NoHpa
                        ELSE [exists |-> TRUE, target |-> o.target, metrics |-> o.metrics, version |-> o.version + 1]]
           /\ haOp' = [haOp EXCEPT ![t] = HaIdle]
           /\ UNCHANGED disturbed
        \/ ~done /\ GiveUp(t) /\ UNCHANGED hpas
     /\ UNCHANGED <<rules, cmVersion, workloads, haOps, haFaults>>

(* Any call of the API fails: connection lost, timeout. *)
Fail(t) ==
  /\ haOp[t].at # "idle"
  /\ haFaults < HaMaxFaults /\ haFaults' = haFaults + 1
  /\ GiveUp(t)
  /\ UNCHANGED <<hpas, rules, cmVersion, workloads, haOps>>

HaNext ==
  \/ \E t \in HaThreads : createHPA(t) \/ updateHPA(t) \/ deleteHPA(t)
  \/ WorkloadDeleted \/ deleteHPAWhenDeleteWorkload
  \/ \E t \in AllThreads : ReadRules(t) \/ WriteRules(t) \/ RestartAdapter(t) \/ WriteHpa(t) \/ Fail(t)

HaSpec == HaInit /\ [][HaNext]_haVars

-----------------------------------------------------------------------------
(* Operations on one autoscaler do not disturb the rules of another, in    *)
(* any interleaving and whatever fails: unless two operations on it        *)
(* overlapped, or one failed after it had written the config map, the      *)
(* rules of an autoscaler at rest are exactly its custom metrics.  In the  *)
(* two excepted cases the code leaves a rule too many, or one too few,     *)
(* and then refuses every later operation that names the alias.            *)
HaIsolated ==
  \A h \in HpaNames :
    (h \notin disturbed /\ ~Busy(h)) => {r \in rules : r[2] = h} = AliasesOf(h)

(***************************************************************************)
(* UDP ingresses.                                                          *)
(***************************************************************************)

CONSTANTS UdPorts, UdServices,   \* a service is <<namespace, name>>
          UdThreads, UdMaxOps, UdMaxFaults

VARIABLES
  udMap,        \* the config map: port -> service
  udVersion,    \* its resource version
  udOp,         \* [thread -> its operation]
  udEvents,     \* delete events published and not yet taken
  udAsked,      \* what clients were told: pairs of a port and its service
  udOps, udFaults,
  udRaced       \* a writer computed its map from one that has changed since

udVars == <<udMap, udVersion, udOp, udEvents, udAsked, udOps, udFaults, udRaced>>

UdLoop == "eventLoop"
UdIdle == [at |-> "idle"]
Empty == [p \in {} |-> <<>>]

UdInit ==
  /\ udMap = Empty /\ udVersion = 0
  /\ udOp = [t \in UdThreads \cup {UdLoop} |-> UdIdle]
  /\ udEvents = {} /\ udAsked = {}
  /\ udOps = 0 /\ udFaults = 0
  /\ udRaced = FALSE

(* The first read: the new contents are computed from it. *)
UdRead(t, new, op) ==
  /\ udOp' = [udOp EXCEPT ![t] = [at |-> "get", op |-> op, new |-> new, read |-> udVersion]]
  /\ UNCHANGED <<udMap, udVersion, udAsked, udFaults, udRaced>>

(* Map m without some ports. *)
UdWithout(m, ports) == [q \in DOMAIN m \ ports |-> m[q]]

createUDPIngress(t) ==
  /\ udOp[t] = UdIdle /\ udOps < UdMaxOps /\ udOps' = udOps + 1
  /\ \E p \in UdPorts \ DOMAIN udMap, s \in UdServices :
       UdRead(t, [q \in DOMAIN udMap \cup {p} |-> IF q = p THEN s ELSE udMap[q]], [kind |-> "create", port |-> p])
  /\ UNCHANGED udEvents

(* Delete looks for the port alone, whatever namespace has it. *)
deleteTransportLayerIngress(t) ==
  /\ udOp[t] = UdIdle /\ udOps < UdMaxOps /\ udOps' = udOps + 1
  /\ \E p \in DOMAIN udMap : UdRead(t, UdWithout(udMap, {p}), [kind |-> "delete", port |-> p])
  /\ UNCHANGED udEvents

(* A service, or a whole namespace (name ""), is deleted. *)
PublishDelete ==
  /\ udOps < UdMaxOps /\ udOps' = udOps + 1
  /\ \E s \in UdServices : udEvents' = udEvents \cup {s} \/ udEvents' = udEvents \cup {<<s[1], "">>}
  /\ UNCHANGED <<udMap, udVersion, udOp, udAsked, udFaults, udRaced>>

Covers(e, s) == e[1] = s[1] /\ e[2] \in {"", s[2]}

clearTransportLayerIngress ==
  /\ udOp[UdLoop] = UdIdle
  /\ \E e \in udEvents :
       LET gone == {p \in DOMAIN udMap : Covers(e, udMap[p])} IN
         /\ udEvents' = udEvents \ {e}
         /\ IF gone = {} THEN UNCHANGED <<udMap, udVersion, udOp, udAsked, udFaults, udRaced>>
            ELSE UdRead(UdLoop, UdWithout(udMap, gone), [kind |-> "clear", port |-> gone])
  /\ UNCHANGED udOps

(* updateConfigMap reads the map again: the version is that of this read. *)
UdGet(t) ==
  /\ udOp[t].at = "get"
  /\ udOp' = [udOp EXCEPT ![t] = [at |-> "put", op |-> @.op, new |-> @.new, read |-> @.read, version |-> udVersion]]
  /\ UNCHANGED <<udMap, udVersion, udEvents, udAsked, udOps, udFaults, udRaced>>

Told(op, new) ==
  CASE op.kind = "create" -> udAsked \cup {<<op.port, new[op.port]>>}
    [] op.kind = "delete" -> {a \in udAsked : a[1] # op.port}
    [] op.kind = "clear" -> {a \in udAsked : a[1] \notin op.port}

(* The data is replaced by what was computed from the first read. *)
UdPut(t) ==
  LET o == udOp[t] IN
  /\ o.at = "put"
  /\ udOp' = [udOp EXCEPT ![t] = UdIdle]
  /\ \/ /\ o.version = udVersion
        /\ udMap' = o.new /\ udVersion' = udVersion + 1
        /\ udAsked' = Told(o.op, o.new)
        /\ udRaced' = (udRaced \/ o.read # udVersion)
        /\ UNCHANGED udFaults
     \/ /\ o.version # udVersion                          \* conflict: the handler fails
        /\ UNCHANGED <<udMap, udVersion, udAsked, udRaced, udFaults>>
  /\ UNCHANGED <<udEvents, udOps>>

UdFail(t) ==
  /\ udOp[t] # UdIdle
  /\ udFaults < UdMaxFaults /\ udFaults' = udFaults + 1
  /\ udOp' = [udOp EXCEPT ![t] = UdIdle]
  /\ UNCHANGED <<udMap, udVersion, udEvents, udAsked, udOps, udRaced>>

UdNext ==
  \/ \E t \in UdThreads : createUDPIngress(t) \/ deleteTransportLayerIngress(t)
  \/ PublishDelete \/ clearTransportLayerIngress
  \/ \E t \in UdThreads \cup {UdLoop} : UdGet(t) \/ UdPut(t) \/ UdFail(t)

UdSpec == UdInit /\ [][UdNext]_udVars

(* getTransportLayerIngress: the entries of a namespace. *)
getTransportLayerIngress(ns) == {p \in DOMAIN udMap : udMap[p][1] = ns}

-----------------------------------------------------------------------------
(* Clients see what they were told: an ingress whose creation was answered *)
(* is listed, in its namespace and in no other, until it is deleted or     *)
(* its service or namespace is, and a deleted one stays away.  The only    *)
(* exception is a writer that replaces a map which changed after it was    *)
(* read: updateConfigMap reads the version again, so this is no conflict   *)
(* and the other writer's change is lost.                                  *)
UdToldIsThere ==
  ~udRaced => \A s \in UdServices :
    {<<p, udMap[p]>> : p \in getTransportLayerIngress(s[1])} = {a \in udAsked : a[2][1] = s[1]}

(* Handlers that rewrite a config map they share keep each other's         *)
(* entries: the rules of autoscalers and the ports of UDP ingresses.       *)
SharedMapsKept == HaIsolated /\ UdToldIsThere

=============================================================================
