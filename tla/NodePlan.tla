------------------------------ MODULE NodePlan ------------------------------
(* How the installer (zke/core) reads a cluster configuration: the checks    *)
(* GaoCloud makes of a requested cluster, the configuration it hands over,   *)
(* the defaults and the checks of the installer, and the plan of processes   *)
(* each host is to run.  Texts are strings; NpParse says what the network    *)
(* parsers make of a text.  A command line is a function from flags to       *)
(* values; the flags whose value never varies are one flag, "fixed".         *)
EXTENDS Naturals, Sequences, SequencesExt, FiniteSetsExt

CONSTANTS NpParse,      \* text -> [kind, a: octets, n: prefix length or port, ip: text of a host:port]
          NpLower,      \* the texts with capitals -> the same in lower case
          NpImages,     \* the images of the supported Kubernetes version
          NpTag         \* image -> its tag [parts, number]; number is << >> when it is no version

-----------------------------------------------------------------------------
(* Addresses (net.ParseIP and net.ParseCIDR).                                *)
Parses(t, kind) == t \in DOMAIN NpParse /\ NpParse[t].kind = kind

isIPv4(t) == Parses(t, "ip")

isCIDRv4(t) == Parses(t, "cidr")

isIPv4Host(t) == Parses(t, "host") /\ NpParse[t].n \in 1..65535

(* The octets of a with only the first n bits kept.                          *)
Masked(a, n) ==
    [i \in 1..4 |->
        LET keep == Max({0, Min({8, n - 8 * (i - 1)})}) IN a[i] - (a[i] % 2^(8 - keep))]

isCIDRv4Contains(network, t) ==
    /\ isIPv4(t)
    /\ isCIDRv4(network)
    /\ Masked(NpParse[t].a, NpParse[network].n) = Masked(NpParse[network].a, NpParse[network].n)

(* The address after a, the carry running to the left.                       *)
Successor(a) ==
    LET low == {i \in 1..4 : a[i] # 255}
        j == IF low = {} THEN 0 ELSE Max(low)
    IN  [i \in 1..4 |-> IF i < j THEN a[i] ELSE IF i = j THEN a[i] + 1 ELSE 0]

GetKubernetesServiceIP(range) == Successor(Masked(NpParse[range].a, NpParse[range].n))

-----------------------------------------------------------------------------
(* The checks of GaoCloud (pkg/zke).  A requested cluster sc is a record     *)
(* [name, nodes, lb, gaoCloudAddress, sshUser, sshPort, sshKey, clusterCidr, *)
(* serviceCidr, clusterDomain, dnsIP, upstream, plugin]; a node is           *)
(* [name, address, roles], its roles a sequence.                             *)
NodesOf(sc) == ToSet(sc.nodes)

HasRole(n, r) == r \in ToSet(n.roles)

validateClusterCIDRAndIPs(sc) ==
    /\ isIPv4(sc.dnsIP)
    /\ \A ns \in ToSet(sc.upstream) : isIPv4(ns)
    /\ isCIDRv4(sc.clusterCidr)
    /\ isCIDRv4(sc.serviceCidr)
    /\ isCIDRv4Contains(sc.serviceCidr, sc.dnsIP)

validateDuplicateNodes(sc) ==
    \A i, j \in DOMAIN sc.nodes :
        i # j => /\ sc.nodes[i].address # sc.nodes[j].address
                 /\ sc.nodes[i].name # sc.nodes[j].name

validateNodeCount(sc) ==
    /\ \E n \in NodesOf(sc) : HasRole(n, "controlplane")
    /\ \E n \in NodesOf(sc) : HasRole(n, "worker")

isNodeRoleDuplicate(n) == ~ IsInjective(n.roles)

validateNodeNameRoleAndAddress(sc) ==
    \A n \in NodesOf(sc) :
        /\ HasRole(n, "controlplane") # HasRole(n, "worker")
        /\ ~ isNodeRoleDuplicate(n)
        /\ isIPv4(n.address)

validateGaoCloudAddress(sc) ==
    /\ isIPv4Host(sc.gaoCloudAddress)
    /\ \A n \in NodesOf(sc) : n.address # NpParse[sc.gaoCloudAddress].ip

validateLBConfig(sc) ==
    sc.lb.enable =>
        /\ isIPv4(sc.lb.master) \/ isIPv4Host(sc.lb.master)
        /\ sc.lb.backup = "" \/ isIPv4(sc.lb.backup) \/ isIPv4Host(sc.lb.backup)
        /\ sc.lb.user # ""

createValidators(sc) ==
    /\ validateClusterCIDRAndIPs(sc)
    /\ validateDuplicateNodes(sc)
    /\ validateNodeCount(sc)
    /\ validateNodeNameRoleAndAddress(sc)
    /\ validateGaoCloudAddress(sc)
    /\ validateLBConfig(sc)

validateClusterSSHKeyNotEmpty(sc) == sc.sshKey # ""

validateConfigForCreate(sc) == createValidators(sc) /\ validateClusterSSHKeyNotEmpty(sc)

(* The nodes of the request that keep the address of an old node.            *)
SamePlace(old, sc) == {p \in NodesOf(old) \X NodesOf(sc) : p[1].address = p[2].address}

validateCannotDeleteNode(old, sc) ==
    \A n \in NodesOf(old) :
        HasRole(n, "controlplane") =>
            \E m \in NodesOf(sc) : HasRole(m, "controlplane") /\ m.address = n.address

isNodeRolesChanage(n, m) == ToSet(n.roles) # ToSet(m.roles)

validateNodesRoleChanage(old, sc) == \A p \in SamePlace(old, sc) : ~ isNodeRolesChanage(p[1], p[2])

validateNodesNameChanage(old, sc) == \A p \in SamePlace(old, sc) : p[1].name = p[2].name

getToDeleteNodes(old, sc) == {n.name : n \in NodesOf(old)} \ {n.name : n \in NodesOf(sc)}

(* storage: the names of the nodes a storage cluster uses; it is only asked  *)
(* for once the cluster can be reached.                                      *)
validateToDeleteStorageNodes(old, sc, reachable, storage) ==
    reachable => getToDeleteNodes(old, sc) \cap storage = {}

validateConfigForUpdate(old, sc, reachable, storage) ==
    /\ createValidators(sc)
    /\ validateCannotDeleteNode(old, sc)
    /\ validateNodesRoleChanage(old, sc)
    /\ validateNodesNameChanage(old, sc)
    /\ validateToDeleteStorageNodes(old, sc, reachable, storage)

-----------------------------------------------------------------------------
(* The configuration handed to the installer.                                *)
NoService == [image |-> "", args |-> << >>, binds |-> << >>, env |-> << >>]

(* A control plane node of GaoCloud is an etcd node too.                     *)
WithEtcd(roles) ==
    FlattenSeq([i \in DOMAIN roles |->
        IF roles[i] = "controlplane" THEN <<"controlplane", "etcd">> ELSE <<roles[i]>>])

scClusterToZKENodes(sc) ==
    [i \in DOMAIN sc.nodes |->
        [name |-> sc.nodes[i].name, address |-> sc.nodes[i].address, roles |-> WithEtcd(sc.nodes[i].roles),
         internal |-> "", user |-> "", port |-> "", sshKey |-> "", sshKeyPath |-> "", socket |-> ""]]

genZKEConfig(sc) ==
    [clusterName |-> sc.name, configVersion |-> "", sshUser |-> sc.sshUser, sshPort |-> sc.sshPort,
     sshKey |-> sc.sshKey, sshKeyPath |-> "", socket |-> "", version |-> << >>,
     clusterCidr |-> sc.clusterCidr, serviceCidr |-> sc.serviceCidr, clusterDomain |-> sc.clusterDomain,
     dnsIP |-> sc.dnsIP, upstream |-> sc.upstream, prefix |-> "",
     plugin |-> sc.plugin, dns |-> "", dnsUpstream |-> << >>, ingress |-> "", metrics |-> "",
     authz |-> "", strategy |-> << >>, webhook |-> << >>, sans |-> << >>, registries |-> {},
     gaoCloudAddress |-> sc.gaoCloudAddress, nodes |-> scClusterToZKENodes(sc),
     etcd |-> NoService @@ [urls |-> << >>, path |-> "", certs |-> FALSE, snapshot |-> "", creation |-> "", retention |-> ""],
     api |-> NoService @@ [range |-> "", ports |-> "", psp |-> FALSE, pull |-> FALSE],
     controller |-> NoService @@ [range |-> "", cidr |-> ""], scheduler |-> NoService,
     kubelet |-> NoService @@ [dns |-> "", domain |-> "", infra |-> "", swap |-> FALSE], proxy |-> NoService]

genZKEConfigForUpdate(c, sc) ==
    [c EXCEPT !.sshUser = sc.sshUser, !.sshPort = sc.sshPort,
              !.sshKey = IF sc.sshKey # "" THEN sc.sshKey ELSE @,
              !.gaoCloudAddress = sc.gaoCloudAddress, !.nodes = scClusterToZKENodes(sc)]

-----------------------------------------------------------------------------
(* The defaults of the installer (core/defaults.go).  A map or a list that   *)
(* is nil is the empty one here.                                             *)
DefaultK8sVersion == <<"v1", "17", "2">>

AllK8sVersions(version) == IF version = DefaultK8sVersion THEN NpImages ELSE [i \in DOMAIN NpImages |-> ""]

OrElse(x, d) == IF x = "" THEN d ELSE x

Lower(t) == IF t \in DOMAIN NpLower THEN NpLower[t] ELSE t

setClusterOptionDefaults(c) ==
    [c EXCEPT !.sshUser = OrElse(@, "zcloud"), !.sshPort = OrElse(@, "22"),
              !.sshKeyPath = OrElse(@, "~/.ssh/id_rsa"), !.socket = OrElse(@, "/var/run/docker.sock"),
              !.version = IF @ = << >> THEN DefaultK8sVersion ELSE @,
              !.clusterCidr = OrElse(@, "10.42.0.0/16"), !.serviceCidr = OrElse(@, "10.43.0.0/16"),
              !.clusterDomain = OrElse(@, "cluster.local"), !.dnsIP = OrElse(@, "10.43.0.10"),
              !.upstream = IF @ = << >> THEN <<"114.114.114.114", "223.5.5.5">> ELSE @,
              !.prefix = OrElse(@, "/")]

setClusterNodesDefaults(c) ==
    [c EXCEPT !.nodes = [i \in DOMAIN @ |->
        [@[i] EXCEPT !.internal = OrElse(@, c.nodes[i].address),
                     !.name = Lower(OrElse(@, c.nodes[i].address)),
                     !.user = OrElse(@, c.sshUser), !.sshKey = OrElse(@, c.sshKey),
                     !.sshKeyPath = OrElse(@, c.sshKeyPath), !.port = OrElse(@, c.sshPort),
                     !.socket = OrElse(@, c.socket)]]]

setCoreEtcdDefaults(c) ==
    [c EXCEPT !.etcd.image = AllK8sVersions(c.version).etcd, !.etcd.snapshot = OrElse(@, "true"),
              !.etcd.creation = OrElse(@, "12h"), !.etcd.retention = OrElse(@, "72h"),
              !.etcd.args = @ @@ [f \in {"election-timeout", "heartbeat-interval"} |-> <<"default">>]]

setCoreKubeApiDefaults(c) ==
    [c EXCEPT !.api.image = AllK8sVersions(c.version).kubernetes,
              !.api.range = OrElse(@, c.serviceCidr), !.api.ports = OrElse(@, "30000-32767")]

setCoreKubeControllerDefaults(c) ==
    [c EXCEPT !.controller.image = AllK8sVersions(c.version).kubernetes,
              !.controller.range = OrElse(@, c.serviceCidr), !.controller.cidr = OrElse(@, c.clusterCidr)]

setCoreSchedulerDefaults(c) == [c EXCEPT !.scheduler.image = AllK8sVersions(c.version).kubernetes]

setCoreKubeletDefaults(c) ==
    [c EXCEPT !.kubelet.image = AllK8sVersions(c.version).kubernetes, !.kubelet.dns = OrElse(@, c.dnsIP),
              !.kubelet.domain = OrElse(@, c.clusterDomain),
              !.kubelet.infra = OrElse(@, AllK8sVersions(c.version).infra)]

setCoreKubeproxyDefaults(c) == [c EXCEPT !.proxy.image = AllK8sVersions(c.version).kubernetes]

setClusterServicesDefaults(c) ==
    setCoreKubeproxyDefaults(setCoreKubeletDefaults(setCoreSchedulerDefaults(
        setCoreKubeControllerDefaults(setCoreKubeApiDefaults(setCoreEtcdDefaults(c))))))

setClusterNetworkDefaults(c) ==
    [c EXCEPT !.plugin = OrElse(@, "flannel"), !.dns = OrElse(@, "coredns"),
              !.dnsUpstream = IF @ = << >> THEN c.upstream ELSE @, !.ingress = OrElse(@, "nginx")]

(* The strategies of the configuration are "x509" and "webhook" and others.  *)
AuthnStrategies(c) == {Lower(s) : s \in ToSet(c.strategy)}

setClusterAuthnAndAuthzDefaults(c) ==
    LET d == [c EXCEPT !.strategy = IF @ = << >> THEN <<"x509">> ELSE @]
        w == IF "webhook" \in AuthnStrategies(d) /\ d.webhook = << >>
             THEN <<[file |-> "", timeout |-> ""]>> ELSE d.webhook
    IN  [d EXCEPT !.webhook = [i \in DOMAIN w |-> [file |-> OrElse(w[i].file, "default"),
                                                   timeout |-> OrElse(w[i].timeout, "5s")]]]

setClusterSecurity(c) == setClusterAuthnAndAuthzDefaults([c EXCEPT !.authz = OrElse(@, "rbac")])

(* The registries are known by their address, docker.io when it is empty.    *)
setPrivateRegistries(c) == [c EXCEPT !.registries = {OrElse(r, "docker.io") : r \in @}]

setClusterMonitor(c) == [c EXCEPT !.metrics = OrElse(@, "metrics-server")]

setClusterDefaults(c) ==
    setClusterMonitor(setPrivateRegistries(setClusterSecurity(setClusterNetworkDefaults(
        setClusterServicesDefaults(setClusterNodesDefaults(setClusterOptionDefaults(
            [c EXCEPT !.clusterName = OrElse(@, "local"), !.configVersion = OrElse(@, "v1.0.10")])))))))

-----------------------------------------------------------------------------
(* The checks of the installer (core/validation.go) on a configuration with  *)
(* its defaults.                                                             *)
HostsWith(c, role) == SelectSeq(c.nodes, LAMBDA n : role \in ToSet(n.roles))

(* InvertIndexHosts knows these roles only.                                  *)
InvertIndexHosts(c) == \A n \in ToSet(c.nodes) : ToSet(n.roles) \subseteq {"etcd", "controlplane", "worker", "edge"}

validateNodesDiffer(c) ==
    \A i, j \in DOMAIN c.nodes :
        i # j => c.nodes[i].address # c.nodes[j].address /\ c.nodes[i].name # c.nodes[j].name

validateHostsOptions(c) ==
    \A n \in ToSet(c.nodes) :
        /\ n.address # "" /\ n.user # "" /\ n.roles # << >>
        /\ ~ Parses(n.name, "text")
        /\ ToSet(n.roles) \subseteq {"etcd", "controlplane", "worker", "storage", "edge"}

validateAuthOptions(c) == "x509" \in AuthnStrategies(c) /\ AuthnStrategies(c) \subseteq {"x509", "webhook"}

validateNetworkOptions(c) == c.plugin \in {"none", "flannel", "calico"}

validateIngressOptions(c) == c.ingress \in {"nginx", "none"}

validateServicesOptions(c) ==
    /\ "" \notin {c.etcd.image, c.api.image, c.api.range, c.controller.image, c.controller.range, c.controller.cidr,
                  c.scheduler.image, c.kubelet.image, c.kubelet.dns, c.kubelet.domain, c.kubelet.infra, c.proxy.image}
    /\ c.etcd.urls # << >> => c.etcd.certs /\ c.etcd.path # ""

ValidateCluster(c) ==
    /\ validateNodesDiffer(c)
    /\ validateHostsOptions(c)
    /\ validateAuthOptions(c)
    /\ validateNetworkOptions(c)
    /\ validateIngressOptions(c)
    /\ validateServicesOptions(c)

(* Checked once the hosts are reached: etcd is either the cluster's own or   *)
(* an external one.                                                          *)
ValidateHostCount(c) == (HostsWith(c, "etcd") # << >>) # (c.etcd.urls # << >>)

(* What InitClusterObject says of a configuration with its defaults.         *)
InitClusterObject(c) == isCIDRv4(c.api.range) /\ InvertIndexHosts(c) /\ ValidateCluster(c)

-----------------------------------------------------------------------------
(* The plan of a host (core/plan.go).  A name in the bundle of certificates  *)
(* is a sequence of texts, a file is its kind and that name, and the value   *)
(* of a flag is a sequence of texts.                                         *)
GetCertPath(name) == <<"cert">> \o name

GetKeyPath(name) == <<"key">> \o name

GetConfigPath(name) == <<"config">> \o name

GetEtcdCrtName(address) == <<"kube-etcd", address>>

GetTagMajorVersion(tag) == IF Len(tag) < 2 THEN << >> ELSE SubSeq(tag, 1, 2)

K8sVersionServiceOptions ==
    (<<"v1", "13">> :> [api |-> [f \in {"tls-cipher-suites", "enable-admission-plugins"} |-> <<"listed">>],
                        kubelet |-> [f \in {"tls-cipher-suites"} |-> <<"listed">>]])

GetKubernetesServicesOptions(c) ==
    LET image == GetTagMajorVersion(NpTag[AllK8sVersions(c.version).kubernetes].parts)
        major == IF image # << >> THEN image ELSE GetTagMajorVersion(c.version)
    IN  IF major \in DOMAIN K8sVersionServiceOptions THEN K8sVersionServiceOptions[major]
        ELSE [api |-> << >>, kubelet |-> << >>]

(* The flags after the options of the version: an empty one removes a flag.  *)
Optioned(flags, options) ==
    [f \in (DOMAIN flags \cup DOMAIN options) \ {o \in DOMAIN options : options[o] = << >>} |->
        IF f \in DOMAIN options THEN options[f] ELSE flags[f]]

getZKEToolsEntryPoint(c) ==
    LET n == NpTag[AllK8sVersions(c.version).sidecar].number
        older == n # << >> /\ \E i \in 1..3 : n[i] < <<0, 1, 13>>[i] /\ \A j \in 1..(i - 1) : n[j] = <<0, 1, 13>>[j]
    IN  IF older THEN "/opt/zke/entrypoint.sh" ELSE "/opt/zke-tools/entrypoint.sh"

(* A path below the prefix of the cluster.                                   *)
Below(c, p) == <<c.prefix, p>>

(* getUniqStringList keeps one of each: lists of binds and environments are  *)
(* compared as sets.                                                         *)
getUniqStringList(l) == ToSet(l)

GetProcessConfig(image, command, flags, args, env, binds) ==
    [image |-> image, entry |-> command, flags |-> flags, args |-> args, env |-> env, binds |-> binds]

GetEtcdConnString(c) == [i \in DOMAIN HostsWith(c, "etcd") |-> HostsWith(c, "etcd")[i].internal]

GetEtcdInitialCluster(hosts) ==
    FlattenSeq([i \in DOMAIN hosts |-> <<hosts[i].name, hosts[i].internal>>])

BuildKubeAPIProcess(c, host) ==
    LET external == c.etcd.urls # << >>
        client == IF external THEN <<"kube-etcd-client">> ELSE <<"kube-node">>
        base ==
            [fixed |-> <<"api">>,
             ca |-> GetCertPath(<<"kube-ca">>),
             etcdCa |-> GetCertPath(IF external THEN <<"kube-etcd-client-ca">> ELSE <<"kube-ca">>),
             etcdCert |-> GetCertPath(client), etcdKey |-> GetKeyPath(client),
             etcdPrefix |-> <<IF external THEN c.etcd.path ELSE "/registry">>,
             etcdServers |-> IF external THEN c.etcd.urls ELSE GetEtcdConnString(c),
             tlsCert |-> GetCertPath(<<"kube-apiserver">>), tlsKey |-> GetKeyPath(<<"kube-apiserver">>),
             proxyCert |-> GetCertPath(<<"kube-apiserver-proxy-client">>),
             proxyKey |-> GetKeyPath(<<"kube-apiserver-proxy-client">>),
             headerCa |-> GetCertPath(<<"kube-apiserver-requestheader-ca">>),
             tokenKey |-> GetKeyPath(<<"kube-service-account-token">>),
             range |-> <<c.api.range>>, ports |-> <<c.api.ports>>]
        hook == IF c.webhook = << >> THEN << >>
                ELSE [hookFile |-> <<"webhook">>, hookTtl |-> <<c.webhook[1].timeout>>]
        flags == Optioned(base @@ hook, GetKubernetesServicesOptions(c).api)
        more == [f \in {g \in {"mode", "advertise", "runtime"} :
                           \/ g = "mode" /\ c.authz = "rbac"
                           \/ g = "advertise" /\ isIPv4(host.internal)
                           \/ g = "runtime" /\ c.api.psp} |->
                    IF f = "advertise" THEN <<host.internal>> ELSE <<f>>]
        plugins == (IF c.api.psp THEN <<"PodSecurityPolicy">> ELSE << >>)
                   \o (IF c.api.pull THEN <<"AlwaysPullImages">> ELSE << >>)
        admitted == [f \in DOMAIN flags |-> IF f = "enable-admission-plugins" THEN flags[f] \o plugins ELSE flags[f]]
    IN  GetProcessConfig(c.api.image, getZKEToolsEntryPoint(c), c.api.args @@ more @@ admitted, << >>,
                         getUniqStringList(c.api.env),
                         {Below(c, "/etc/kubernetes")} \cup getUniqStringList(c.api.binds))


(* One control plane host elects no leader.                                  *)
LeaderElect(c) == <<IF Len(HostsWith(c, "controlplane")) < 2 THEN "false" ELSE "true">>

BuildKubeControllerProcess(c) ==
    LET flags == [fixed |-> <<"controller">>, cidr |-> <<c.clusterCidr>>, leader |-> LeaderElect(c),
                  kubeconfig |-> GetConfigPath(<<"kube-controller-manager">>), ca |-> GetCertPath(<<"kube-ca">>),
                  tokenKey |-> GetKeyPath(<<"kube-service-account-token">>), range |-> <<c.controller.range>>]
    IN  GetProcessConfig(c.controller.image, getZKEToolsEntryPoint(c), c.controller.args @@ flags,
                         IF c.authz = "rbac" THEN <<"use-service-account-credentials">> ELSE << >>,
                         getUniqStringList(c.controller.env),
                         {Below(c, "/etc/kubernetes")} \cup getUniqStringList(c.controller.binds))

BuildSchedulerProcess(c) ==
    LET flags == [fixed |-> <<"scheduler">>, leader |-> LeaderElect(c),
                  kubeconfig |-> GetConfigPath(<<"kube-scheduler">>)]
    IN  GetProcessConfig(c.scheduler.image, getZKEToolsEntryPoint(c), c.scheduler.args @@ flags, << >>,
                         ToSet(c.scheduler.env), {Below(c, "/etc/kubernetes")} \cup getUniqStringList(c.scheduler.binds))

(* The kubelet is given the private registries in its environment.           *)
GetKubeletDockerConfig(c) == IF c.registries = {} THEN {} ELSE {<<r>> : r \in c.registries}

BuildKubeletProcess(c, host) ==
    LET base == [fixed |-> <<"kubelet">>, ca |-> GetCertPath(<<"kube-ca">>), dns |-> <<c.dnsIP>>,
                 domain |-> <<c.clusterDomain>>, swap |-> <<IF c.kubelet.swap THEN "true" ELSE "false">>,
                 hostname |-> <<host.name>>, kubeconfig |-> GetConfigPath(<<"kube-node">>),
                 infra |-> <<c.kubelet.infra>>, root |-> Below(c, "/var/lib/kubelet"), nodeIP |-> <<host.internal>>]
        taint == IF HasRole(host, "controlplane") /\ ~ HasRole(host, "worker")
                 THEN [taints |-> <<"controlplane">>] ELSE << >>
        flags == Optioned(base @@ taint, GetKubernetesServicesOptions(c).kubelet)
        paths == {Below(c, p) : p \in {"/etc/kubernetes", "/var/lib/cni", "/var/lib/kubelet", "/etc/ceph"}}
        plugins == IF c.prefix # "/" THEN {<<"/var/lib/kubelet/volumeplugins">>} ELSE {}
    IN  GetProcessConfig(c.kubelet.image, getZKEToolsEntryPoint(c), c.kubelet.args @@ flags, << >>,
                         getUniqStringList(c.kubelet.env) \cup GetKubeletDockerConfig(c),
                         paths \cup plugins \cup getUniqStringList(c.kubelet.binds))

BuildKubeProxyProcess(c, host) ==
    LET flags == [fixed |-> <<"proxy">>, cidr |-> <<c.clusterCidr>>, hostname |-> <<host.name>>,
                  kubeconfig |-> GetConfigPath(<<"kube-proxy">>)]
    IN  GetProcessConfig(c.proxy.image, getZKEToolsEntryPoint(c), c.proxy.args @@ flags, << >>,
                         ToSet(c.proxy.env), {Below(c, "/etc/kubernetes")} \cup getUniqStringList(c.proxy.binds))

(* The addresses of the control plane are the environment and, so that the   *)
(* container is replaced when they change, the arguments.                    *)
BuildProxyProcess(c) ==
    LET hosts == HostsWith(c, "controlplane")
        cp == [i \in DOMAIN hosts |-> hosts[i].internal]
    IN  GetProcessConfig(AllK8sVersions(c.version).proxy, "nginx-proxy", << >>, cp, {cp}, {})

BuildSidecarProcess(c) == GetProcessConfig(AllK8sVersions(c.version).sidecar, "/bin/bash", << >>, << >>, {}, {})

(* ready: the hosts whose etcd is a member already, << >> when no member is  *)
(* being added.                                                              *)
BuildEtcdProcess(c, host, ready) ==
    LET name == GetEtcdCrtName(host.internal)
        listen == IF host.address = host.internal THEN "0.0.0.0" ELSE host.internal
        flags == [fixed |-> <<"etcd">>, name |-> <<host.name>>, advertise |-> <<host.internal>>, listen |-> <<listen>>,
                  cluster |-> GetEtcdInitialCluster(IF ready = << >> THEN HostsWith(c, "etcd") ELSE ready),
                  state |-> <<IF host \in ToSet(ready) THEN "existing" ELSE "new">>,
                  ca |-> GetCertPath(<<"kube-ca">>), cert |-> GetCertPath(name), key |-> GetKeyPath(name)]
    IN  GetProcessConfig(c.etcd.image, "", c.etcd.args @@ flags, << >>,
                         {<<listen>>, GetCertPath(name), GetKeyPath(name)} \cup ToSet(c.etcd.env),
                         {Below(c, "/var/lib/etcd"), Below(c, "/etc/kubernetes")} \cup getUniqStringList(c.etcd.binds))

BuildPortChecksFromPortList(host, ports) == {<<host.address, p>> : p \in ports}

BuildZKEConfigNodePlan(c, host, ready) ==
    LET control == HasRole(host, "controlplane")
        names == {"service-sidekick", "kubelet", "kube-proxy"}
                 \cup (IF control THEN {"kube-apiserver", "kube-controller-manager", "kube-scheduler"} ELSE {"nginx-proxy"})
                 \cup (IF HasRole(host, "etcd") THEN {"etcd"} ELSE {})
    IN  [processes |->
            [p \in names |->
                CASE p = "service-sidekick" -> BuildSidecarProcess(c)
                  [] p = "kubelet" -> BuildKubeletProcess(c, host)
                  [] p = "kube-proxy" -> BuildKubeProxyProcess(c, host)
                  [] p = "nginx-proxy" -> BuildProxyProcess(c)
                  [] p = "kube-apiserver" -> BuildKubeAPIProcess(c, host)
                  [] p = "kube-controller-manager" -> BuildKubeControllerProcess(c)
                  [] p = "kube-scheduler" -> BuildSchedulerProcess(c)
                  [] p = "etcd" -> BuildEtcdProcess(c, host, ready)],
         portChecks |->
            BuildPortChecksFromPortList(host, {10250})
            \cup (IF control THEN BuildPortChecksFromPortList(host, {6443}) ELSE {})
            \cup (IF HasRole(host, "etcd") THEN BuildPortChecksFromPortList(host, {2379, 2380, 2381}) ELSE {})]

(* Whether the container that runs is replaced for the planned one.          *)
IsContainerUpgradable(running, planned) == running # planned
=============================================================================
