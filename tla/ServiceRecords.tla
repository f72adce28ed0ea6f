--------------------------- MODULE ServiceRecords ---------------------------
(***************************************************************************)
(* The DNS records of the services of a cluster (vanguard/k8s) and the     *)
(* controller that feeds it the changes of services and endpoints          *)
(* (gok8s/controller, gok8s/eventsource).                                  *)
(*                                                                         *)
(* The changes of either kind arrive in order; the controller takes them   *)
(* one by one, of either kind.  A handler of a change of endpoints looks   *)
(* its service up in the informer's cache, which is ahead of the changes   *)
(* of services the controller handled, and behind the API server.          *)
(*                                                                         *)
(* A service is [type, ip, ext], ip << >> for none and <<0>> for "None".   *)
(* Endpoints are a sequence of subsets [addrs, ports], an address is       *)
(* [host, ip].  A name is a sequence, without the zone's origin.           *)
(***************************************************************************)
EXTENDS Integers, Sequences, FiniteSets, SequencesExt, TLC

CONSTANTS
    SrNames,      \* services: name.namespace
    SrServices,   \* what a service can be
    SrEndpoints,  \* what endpoints can be
    SrConf,       \* [service, pod: networks [ip, ones], server]
    SrStarts,     \* [svc, eps]: what the cluster holds when the DNS server starts
    SrChanges     \* changes of the cluster

VARIABLES
    srSvc,      \* API server: name -> service or Absent
    srEps,      \* API server: name -> endpoints or Nothing
    srCache,    \* the informer's services
    srWait,     \* "svc", "eps" -> changes that were not handled, oldest first: [op, name, old, new]
    srSeen,     \* how many of srWait.svc are in the cache
    srZone,     \* "service", "serviceReverse", "podReverse" -> (<<name, type>> -> rdatas)
    srOdd,      \* name -> what happened to it: "changed" (type or external name, in place), "deleted",
                \*         "missed" (a change of its endpoints found no service)
    srChanged   \* changes of the cluster so far

srVars == <<srSvc, srEps, srCache, srWait, srSeen, srZone, srOdd, srChanged>>

Absent == [type |-> "none", ip |-> << >>, ext |-> ""]
Nothing == << >>
ClusterIPNone == <<0>>

isHeaderlessService(svc) == svc.type = "ClusterIP" /\ svc.ip = ClusterIPNone
isNormalService(svc) == svc.type = "ClusterIP" /\ svc.ip # ClusterIPNone
isExternalService(svc) == svc.type = "ExternalName" /\ svc.ext # ""

-----------------------------------------------------------------------------
(* Names and zones.                                                          *)

reverseZoneNameForNetwork(net) == Reverse(SubSeq(net.ip, 1, net.ones \div 8))

Supported(net) == net.ones \in {8, 16, 24}

getServiceDomain(name) == <<"svc", name>>
getEndpointsAddrDomain(addr, name) == <<"pod", IF addr.host = << >> THEN addr.ip ELSE addr.host, name>>
getPortName(port, name) == <<"port", port, name>>
getReverseName(ip) == Reverse(ip)

createZone == <<<<"origin">>, "SOA">> :> {1981616} @@ <<<<"origin">>, "NS">> :> {"ns.dns"} @@ <<<<"ns.dns">>, "A">> :> {SrConf.server}

createServiceZone == <<<<"dns-version">>, "TXT">> :> {"1.0.1"} @@ createZone

createReverseZone == [serviceReverse |-> createZone, podReverse |-> createZone]

Zones == createReverseZone @@ [service |-> createServiceZone]

Inside(zone, name) ==
    CASE zone = "service" -> TRUE
      [] zone = "serviceReverse" -> IsSuffix(reverseZoneNameForNetwork(SrConf.service), name)
      [] zone = "podReverse" -> IsSuffix(reverseZoneNameForNetwork(SrConf.pod), name)

Without(records, key) == [k \in DOMAIN records \ {key} |-> records[k]]

(* checkRRsetCouldBeAdded: a CNAME is alone at its name.                     *)
CoExists(records, key) == \E k \in DOMAIN records : k[1] = key[1] /\ (k[2] = "CNAME" <=> key[2] # "CNAME")

(* One transaction: out with the set and in with the new one; an error of    *)
(* either is nobody's concern.                                               *)
replaceRRset(zones, zone, name, type, rdatas) ==
    LET key == <<name, type>>
        left == Without(zones[zone], key)
    IN  IF ~ Inside(zone, name) THEN zones
        ELSE [zones EXCEPT ![zone] = IF CoExists(left, key) THEN left ELSE (key :> rdatas) @@ left]

(* Without a new set.                                                        *)
removeRRset(zones, zone, name, type) ==
    IF ~ Inside(zone, name) THEN zones ELSE [zones EXCEPT ![zone] = Without(@, <<name, type>>)]

(* A reverse name is made of an address of four parts only.                  *)
replaceReverse(zones, zone, ip, name) == IF Len(ip) # 4 THEN zones ELSE replaceRRset(zones, zone, getReverseName(ip), "PTR", {name})
removeReverse(zones, zone, ip) == IF Len(ip) # 4 THEN zones ELSE removeRRset(zones, zone, getReverseName(ip), "PTR")

-----------------------------------------------------------------------------
(* Records of a service.                                                     *)

addServiceRecord(zones, name, svc) ==
    replaceReverse(replaceRRset(zones, "service", getServiceDomain(name), "A", {svc.ip}),
                   "serviceReverse", svc.ip, getServiceDomain(name))

deleteServiceRecord(zones, name, svc) ==
    removeReverse(removeRRset(zones, "service", getServiceDomain(name), "A"), "serviceReverse", svc.ip)

addExternalServiceRecord(zones, name, svc) == replaceRRset(zones, "service", getServiceDomain(name), "CNAME", {svc.ext})

deleteExternalServiceRecord(zones, name) == removeRRset(zones, "service", getServiceDomain(name), "CNAME")

deleteHeadlessServiceRecord(zones, name) == removeRRset(zones, "service", getServiceDomain(name), "A")

(* The addresses of the pods are the service's; without any, nothing is done.*)
addHeadlessServiceRecord(zones, name, eps) ==
    LET ips == {a.ip : a \in UNION {ToSet(eps[i].addrs) : i \in DOMAIN eps}}
    IN  IF ips = {} THEN zones ELSE replaceRRset(zones, "service", getServiceDomain(name), "A", ips)

-----------------------------------------------------------------------------
(* Records of the pods behind a service, one subset after the other.         *)

AddAddress(zones, name, subset, addr) ==
    LET domain == getEndpointsAddrDomain(addr, name)
    IN  replaceReverse(replaceRRset(zones, "service", domain, "A",
                                    {a.ip : a \in {b \in ToSet(subset.addrs) : getEndpointsAddrDomain(b, name) = domain}}),
                       "podReverse", addr.ip, domain)

AddPort(zones, name, svc, subset, port) ==
    IF port = "" THEN zones
    ELSE replaceRRset(zones, "service", getPortName(port, name), "SRV",
                      IF isHeaderlessService(svc) THEN {getEndpointsAddrDomain(a, name) : a \in ToSet(subset.addrs)} ELSE {getServiceDomain(name)})

addPodRecord(zones, name, svc, eps) ==
    FoldLeft(LAMBDA z, subset : FoldLeft(LAMBDA y, port : AddPort(y, name, svc, subset, port),
                                         FoldLeft(LAMBDA y, addr : AddAddress(y, name, subset, addr), z, subset.addrs), subset.ports),
             zones, eps)

DeleteAddress(zones, name, addr) ==
    removeReverse(removeRRset(zones, "service", getEndpointsAddrDomain(addr, name), "A"), "podReverse", addr.ip)

DeletePort(zones, name, port) == IF port = "" THEN zones ELSE removeRRset(zones, "service", getPortName(port, name), "SRV")

deletePodRecord(zones, name, eps) ==
    FoldLeft(LAMBDA z, subset : FoldLeft(LAMBDA y, port : DeletePort(y, name, port),
                                         FoldLeft(LAMBDA y, addr : DeleteAddress(y, name, addr), z, subset.addrs), subset.ports),
             zones, eps)

-----------------------------------------------------------------------------
(* The handlers: each returns the zones after it.                            *)

handleServiceCreate(zones, e) ==
    IF isNormalService(e.new) THEN addServiceRecord(zones, e.name, e.new)
    ELSE IF isExternalService(e.new) THEN addExternalServiceRecord(zones, e.name, e.new)
    ELSE zones

handleServiceDelete(zones, e) ==
    IF isNormalService(e.old) THEN deleteServiceRecord(zones, e.name, e.old)
    ELSE IF isHeaderlessService(e.old) THEN deleteHeadlessServiceRecord(zones, e.name)
    ELSE IF isExternalService(e.old) THEN deleteExternalServiceRecord(zones, e.name)
    ELSE zones

handleServiceUpdate(zones, e) ==
    IF isNormalService(e.old)
    THEN IF e.old.ip # e.new.ip THEN addServiceRecord(deleteServiceRecord(zones, e.name, e.old), e.name, e.new) ELSE zones
    ELSE IF isExternalService(e.new) /\ e.old.ext # e.new.ext THEN addServiceRecord(zones, e.name, e.new)
    ELSE zones

(* The service in the cache, if there is one.                                *)
getService(name) == srCache[name]

Lacks(e) == getService(e.name) = Absent

handleEndPointCreate(zones, e) ==
    LET svc == getService(e.name)
        pods == addPodRecord(zones, e.name, svc, e.new)
    IN  IF Lacks(e) THEN zones ELSE IF isHeaderlessService(svc) THEN addHeadlessServiceRecord(pods, e.name, e.new) ELSE pods

isSubsetsEqual(a, b) == a = b

(* Variant: the records of pods that left stay.                              *)
handleEndPointUpdateAdds(zones, e) ==
    LET svc == getService(e.name)
        service == IF isHeaderlessService(svc) THEN addHeadlessServiceRecord(zones, e.name, e.new) ELSE zones
    IN  IF Lacks(e) \/ isSubsetsEqual(e.old, e.new) THEN zones
        ELSE addPodRecord(service, e.name, svc, e.new)

handleEndPointUpdate(zones, e) ==
    LET svc == getService(e.name)
        service == IF isHeaderlessService(svc) THEN addHeadlessServiceRecord(zones, e.name, e.new) ELSE zones
    IN  IF Lacks(e) \/ isSubsetsEqual(e.old, e.new) THEN zones
        ELSE addPodRecord(deletePodRecord(service, e.name, e.old), e.name, svc, e.new)

handleEndPointDelete(zones, e) == deletePodRecord(zones, e.name, e.old)

OnCreate(kind, e) == IF kind = "svc" THEN handleServiceCreate(srZone, e) ELSE handleEndPointCreate(srZone, e)
OnUpdate(kind, e) == IF kind = "svc" THEN handleServiceUpdate(srZone, e) ELSE handleEndPointUpdate(srZone, e)
OnDelete(kind, e) == IF kind = "svc" THEN handleServiceDelete(srZone, e) ELSE handleEndPointDelete(srZone, e)

-----------------------------------------------------------------------------
(* The controller.                                                           *)

(* Which change of a kind an informer handed over comes next: each kind has  *)
(* a channel, and one loop takes from them in any order (collectEvent).      *)
collectEvent(kind) == IF kind = "svc" THEN srSeen > 0 ELSE srWait.eps # << >>

processNextEvent(kind) ==
    LET e == Head(srWait[kind])
    IN  /\ collectEvent(kind)
        /\ srZone' = CASE e.op = "create" -> OnCreate(kind, e)
                       [] e.op = "update" -> OnUpdate(kind, e)
                       [] e.op = "delete" -> OnDelete(kind, e)
        /\ srOdd' = IF kind = "eps" /\ e.op # "delete" /\ Lacks(e) THEN [srOdd EXCEPT ![e.name] = @ \cup {"missed"}] ELSE srOdd
        /\ srWait' = [srWait EXCEPT ![kind] = Tail(@)]
        /\ srSeen' = IF kind = "svc" THEN srSeen - 1 ELSE srSeen
        /\ UNCHANGED <<srSvc, srEps, srCache, srChanged>>

(* The informer of services stores a change and hands it over.               *)
HandlerAdaptor ==
    /\ srSeen < Len(srWait.svc)
    /\ srCache' = [srCache EXCEPT ![srWait.svc[srSeen + 1].name] = srWait.svc[srSeen + 1].new]
    /\ srSeen' = srSeen + 1
    /\ UNCHANGED <<srSvc, srEps, srWait, srZone, srOdd, srChanged>>

-----------------------------------------------------------------------------
(* The cluster changes.  The address of a service stays as long as its type. *)

Changes(kind, op, name, old, new) ==
    /\ srChanged < SrChanges /\ srChanged' = srChanged + 1
    /\ srWait' = [srWait EXCEPT ![kind] = Append(@, [op |-> op, name |-> name, old |-> old, new |-> new])]
    /\ UNCHANGED <<srCache, srSeen, srZone>>

Op(old, new, none) == IF old = none THEN "create" ELSE IF new = none THEN "delete" ELSE "update"

InPlace(old, new) == old # Absent /\ new # Absent

SetService(name, new) ==
    LET old == srSvc[name]
    IN  /\ new # old /\ (InPlace(old, new) => old.type # new.type \/ old.ext # new.ext)
        /\ \A n \in SrNames \ {name} : Len(new.ip) = 4 => srSvc[n].ip # new.ip
        /\ srSvc' = [srSvc EXCEPT ![name] = new]
        /\ srOdd' = [srOdd EXCEPT ![name] = @ \cup (IF InPlace(old, new) THEN {"changed"} ELSE {})
                                              \cup (IF new = Absent THEN {"deleted"} ELSE {})]
        /\ Changes("svc", Op(old, new, Absent), name, old, new)
        /\ UNCHANGED srEps

SetEndpoints(name, new) ==
    /\ new # srEps[name]
    /\ srEps' = [srEps EXCEPT ![name] = new]
    /\ Changes("eps", Op(srEps[name], new, Nothing), name, srEps[name], new)
    /\ UNCHANGED <<srSvc, srOdd>>

(* NewK8sController: the cache is filled before anything is handled.         *)
Created(objects, none) ==
    LET names == {n \in SrNames : objects[n] # none}
    IN  {[i \in DOMAIN order |-> [op |-> "create", name |-> order[i], old |-> none, new |-> objects[order[i]]]] : order \in SetToSeqs(names)}

SrInit ==
    /\ Supported(SrConf.service) /\ Supported(SrConf.pod)
    /\ \E start \in SrStarts : /\ srSvc = start.svc /\ srEps = start.eps
                               /\ srWait \in [svc : Created(start.svc, Absent), eps : Created(start.eps, Nothing)]
    /\ srCache = srSvc /\ srSeen = Len(srWait.svc)
    /\ srZone = Zones /\ srOdd = [n \in SrNames |-> {}] /\ srChanged = 0

SrNext ==
    \/ \E kind \in {"svc", "eps"} : processNextEvent(kind)
    \/ HandlerAdaptor
    \/ \E n \in SrNames, svc \in SrServices \cup {Absent} : SetService(n, svc)
    \/ \E n \in SrNames, eps \in SrEndpoints \cup {Nothing} : SetEndpoints(n, eps)

SrSpec == SrInit /\ [][SrNext]_srVars

-----------------------------------------------------------------------------
(* A query.  For a name of a service zone, what is there; later is what the  *)
(* rest of the chain says of the name a CNAME leads to.                      *)

Find(name, type) ==
    IF <<name, type>> \in DOMAIN srZone.service THEN <<type, srZone.service[<<name, type>>]>>
    ELSE IF <<name, "CNAME">> \in DOMAIN srZone.service THEN <<"CNAME", srZone.service[<<name, "CNAME">>]>>
    ELSE <<"none", {}>>

resolve(name, type) == Find(name, type)

isCNameResponse(answer) == answer[1] = "CNAME"

mergeResponse(first, later) == first \o later

redirectQuery(first, later) == IF later = << >> THEN << >> ELSE mergeResponse(first, later)

HandleQuery(name, type, later) == IF isCNameResponse(resolve(name, type)) THEN redirectQuery(resolve(name, type), later) ELSE resolve(name, type)

-----------------------------------------------------------------------------
PodNames(name) == {getEndpointsAddrDomain(a, name) : a \in UNION {ToSet(srEps[name][i].addrs) : i \in DOMAIN srEps[name]}}

PodIps(name, domain) ==
    {a.ip : a \in {b \in UNION {ToSet(srEps[name][i].addrs) : i \in DOMAIN srEps[name]} : getEndpointsAddrDomain(b, name) = domain}}

At(kind, name) == {k[1] : k \in {l \in DOMAIN srZone.service : l[1][1] = kind /\ Last(l[1]) = name}}

(***************************************************************************)
(* Whatever order the changes of services and of endpoints were handled    *)
(* in, once all are, a query gets what the cluster holds: the address of a *)
(* service, which leads back to it, or its external name and what is known *)
(* of that, or nothing; the addresses behind a headless service; and every *)
(* pod, under its name and no other, with addresses it has.  Excepted are  *)
(* services whose type or external name was changed in place, pods of      *)
(* endpoints whose change was handled without their service, and a         *)
(* headless service that was deleted and created again, or whose endpoints *)
(* are empty.  (Controller.OnCreate, OnUpdate, OnDelete.)                  *)
(***************************************************************************)
SrSettled ==
    srWait.svc = << >> /\ srWait.eps = << >> => \A n \in SrNames :
        LET svc == srSvc[n]
            answer == HandleQuery(getServiceDomain(n), "A", <<"A", {<<1>>}>>)
        IN  /\ "changed" \notin srOdd[n] =>
                 CASE svc = Absent -> answer = <<"none", {}>>
                   [] isNormalService(svc) -> /\ answer = <<"A", {svc.ip}>>
                                              /\ srZone.serviceReverse[<<getReverseName(svc.ip), "PTR">>] = {getServiceDomain(n)}
                   [] isExternalService(svc) -> answer = <<"CNAME", {svc.ext}, "A", {<<1>>}>>
                   [] isHeaderlessService(svc) -> PodNames(n) # {} /\ srOdd[n] = {} => answer = <<"A", UNION {PodIps(n, d) : d \in PodNames(n)}>>
            /\ "missed" \notin srOdd[n] =>
                 /\ At("pod", n) = PodNames(n)
                 /\ \A d \in PodNames(n) : srZone.service[<<d, "A">>] \in (SUBSET PodIps(n, d)) \ {{}}
=============================================================================
