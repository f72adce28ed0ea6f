------------------------------ MODULE ClusterPki ------------------------------
(* The certificates of a cluster the installer builds (zke/core/pki): how    *)
(* the bundle is generated and kept across updates, restarts and failures,   *)
(* which of its files a host is given, and the processes of the plan of      *)
(* NodePlan that read them.  A key is named by what it was made for and by   *)
(* the life of the program that made it; a certificate records the key it    *)
(* holds and the key that signed it.                                         *)
EXTENDS NodePlan

CONSTANTS PkClusters,    \* the clusters GaoCloud is asked for
          PkConfigs,     \* the configurations the command line is given
          PkUps,         \* bound: runs of the installer
          PkFaults       \* bound: hosts that fail, crashes

VARIABLES pkVia,      \* "gaocloud" or "cli"
          pkAsked,    \* the cluster that is wanted: << >> or <<cluster>>
          pkConf,     \* the configuration to install: << >> or <<configuration>>
          pkState,    \* FullState: [bundle: << >> or <<names -> entries>>, current: << >> or <<configuration>>]
          pkDisk,     \* what the database or the state file holds of it
          pkFiles,    \* address -> [cert, key, config: by name, hook; api: << >> or what the API
                      \* server's certificate was written for, <<[internal, range]>>]
          pkRun,      \* address -> container -> process
          pkFrom,     \* address -> << >> or the <<configuration, ready hosts>> its processes were planned from
          pkAt,       \* "idle", "init", "hosts", "plane": where the run of the installer is
          pkUp,       \* the configuration of the last run if it finished: << >> or <<configuration>>
          pkLife,     \* how often the program was started
          pkLeft,     \* what remains of the bounds [ups, faults]
          pkLost,     \* a bundle whose files hosts may hold was lost
          pkRefused   \* the installer refused a cluster GaoCloud accepted

pkVars == <<pkVia, pkAsked, pkConf, pkState, pkDisk, pkFiles, pkRun, pkFrom, pkAt, pkUp, pkLife, pkLeft, pkLost, pkRefused>>

-----------------------------------------------------------------------------
(* PEM: a block is its type and its content.                                 *)
EncodeCertPEM(cert) == <<[type |-> "CERTIFICATE", body |-> cert]>>

EncodePrivateKeyPEM(key) == <<[type |-> "RSA PRIVATE KEY", body |-> key]>>

Bodies(pem, type) == [i \in DOMAIN SelectSeq(pem, LAMBDA b : b.type = type) |-> SelectSeq(pem, LAMBDA b : b.type = type)[i].body]

ParseCertsPEM(pem) == Bodies(pem, "CERTIFICATE")

ParsePrivateKeyPEM(pem) == Bodies(pem, "RSA PRIVATE KEY")

-----------------------------------------------------------------------------
(* Certificates.                                                             *)
NewPrivateKey(name) == <<name, pkLife>>

GetAltNames(hosts, domain, serviceIP, sans) ==
    LET named(h) == (IF h.internal # "" /\ h.internal # h.address THEN <<h.address, h.internal>> ELSE <<h.address>>)
        own(h) == IF h.name # "" /\ h.name # h.address THEN <<<<h.name>>>> ELSE << >>
        ips(s) == LET t == SelectSeq(s, isIPv4) IN [i \in DOMAIN t |-> NpParse[t[i]].a]
        texts(s) == LET t == SelectSeq(s, LAMBDA x : ~ isIPv4(x)) IN [i \in DOMAIN t |-> <<t[i]>>]
    IN  [ips |-> FlattenSeq([i \in DOMAIN hosts |-> ips(named(hosts[i]))]) \o ips(sans)
                 \o <<<<127, 0, 0, 1>>, serviceIP>>,
         dns |-> FlattenSeq([i \in DOMAIN hosts |-> texts(named(hosts[i])) \o own(hosts[i])]) \o texts(sans)
                 \o <<<<"localhost">>, <<"kubernetes.default.svc", domain>>>>]

NoAltNames == [ips |-> << >>, dns |-> << >>]

newSignedCert(cn, orgs, server, alt, key, ca) ==
    [cn |-> cn, orgs |-> orgs, server |-> server, alt |-> alt, key |-> key, issuer |-> ca]

NewSelfSignedCACert(cn, key) == newSignedCert(cn, << >>, FALSE, NoAltNames, key, key)

(* The kubeconfig of a component: whom it asks and the files it reads.       *)
getKubeConfigX509(name) == <<[server |-> "127.0.0.1", name |-> name]>>

GetKubeConfigX509WithData(address) == <<[server |-> address, name |-> <<"kube-admin">>]>>

(* An entry of the bundle.  Some components have no kubeconfig.              *)
ToCertObject(name, cert, key) ==
    [cert |-> <<cert>>, key |-> key,
     certPem |-> EncodeCertPEM(cert), keyPem |-> IF key = << >> THEN << >> ELSE EncodePrivateKeyPEM(key[1]),
     config |-> IF \/ name[1] \in {"kube-ca", "kube-apiserver", "kube-service-account-token"}
                   \/ name[1] \in {"kube-etcd", "kube-etcd-client", "kube-etcd-client-ca"}
                THEN << >> ELSE getKubeConfigX509(name)]

Nothing == [cert |-> << >>, key |-> << >>, certPem |-> << >>, keyPem |-> << >>, config |-> << >>]

(* certs[name]: the zero entry when there is none.                           *)
EntryOf(certs, name) == IF name \in DOMAIN certs THEN certs[name] ELSE Nothing

With(certs, name, entry) == [n \in DOMAIN certs \cup {name} |-> IF n = name THEN entry ELSE certs[n]]

(* The entry for name with a certificate signed by the key of ca, for the    *)
(* key reused or a new one.                                                  *)
GenerateSignedCertAndKey(certs, ca, name, cn, orgs, server, alt, reused) ==
    LET key == IF reused # << >> THEN reused[1] ELSE NewPrivateKey(name)
    IN  ToCertObject(name, newSignedCert(cn, orgs, server, alt, key, certs[ca].key[1]), <<key>>)

GenerateCACertAndKey(name) ==
    ToCertObject(name, NewSelfSignedCACert(name, NewPrivateKey(name)), <<NewPrivateKey(name)>>)

deepEqualIPsAltNames(old, new) == old = new

(* Variant: the certificate of the API servers is made once, like the others. *)
KubeAPICertificateOnce(certs, c) ==
    IF <<"kube-apiserver">> \in DOMAIN certs THEN certs
    ELSE With(certs, <<"kube-apiserver">>,
              GenerateSignedCertAndKey(certs, <<"kube-ca">>, <<"kube-apiserver">>, <<"kube-apiserver">>, << >>, TRUE,
                  GetAltNames(HostsWith(c, "controlplane"), c.kubelet.domain, GetKubernetesServiceIP(c.api.range), c.sans), << >>))

GenerateKubeAPICertificate(certs, c) ==
    LET api == <<"kube-apiserver">>
        token == <<"kube-service-account-token">>
        alt == GetAltNames(HostsWith(c, "controlplane"), c.kubelet.domain, GetKubernetesServiceIP(c.api.range), c.sans)
        old == EntryOf(certs, api)
        new == GenerateSignedCertAndKey(certs, <<"kube-ca">>, api, api, << >>, TRUE, alt, old.key)
        renewed == With(certs, api, new)
    IN  IF /\ old.cert # << >>
           /\ alt.dns = old.cert[1].alt.dns
           /\ deepEqualIPsAltNames(alt.ips, old.cert[1].alt.ips)
        THEN certs
        ELSE IF EntryOf(certs, token).key # << >> THEN renewed
        ELSE With(renewed, token, ToCertObject(token, new.cert[1], new.key))

GenerateServiceTokenKey(certs, c) ==
    LET token == <<"kube-service-account-token">>
        old == EntryOf(certs, token)
        key == IF old.key = << >> THEN certs[<<"kube-apiserver">>].key ELSE old.key
    IN  IF old.cert # << >> THEN certs
        ELSE With(certs, token, GenerateSignedCertAndKey(certs, <<"kube-ca">>, token, token, << >>, FALSE, NoAltNames, key))

(* A client certificate that is made once and then kept.                     *)
MadeOnce(certs, ca, name, cn, orgs, server, reused) ==
    IF EntryOf(certs, name).cert # << >> THEN certs
    ELSE With(certs, name, GenerateSignedCertAndKey(certs, ca, name, cn, orgs, server, NoAltNames, reused))

getDefaultCN(name) == <<"system">> \o name

GenerateKubeControllerCertificate(certs, c) ==
    LET n == <<"kube-controller-manager">>
    IN  MadeOnce(certs, <<"kube-ca">>, n, getDefaultCN(n), << >>, FALSE, EntryOf(certs, n).key)

GenerateKubeSchedulerCertificate(certs, c) ==
    LET n == <<"kube-scheduler">>
    IN  MadeOnce(certs, <<"kube-ca">>, n, getDefaultCN(n), << >>, FALSE, EntryOf(certs, n).key)

GenerateKubeProxyCertificate(certs, c) ==
    LET n == <<"kube-proxy">>
    IN  MadeOnce(certs, <<"kube-ca">>, n, getDefaultCN(n), << >>, FALSE, EntryOf(certs, n).key)

(* The node certificate holds the key of kube-proxy.                         *)
GenerateKubeNodeCertificate(certs, c) ==
    MadeOnce(certs, <<"kube-ca">>, <<"kube-node">>, <<"system", "node">>, <<"system:nodes">>, FALSE,
             EntryOf(certs, <<"kube-proxy">>).key)

GenerateAPIProxyClientCertificate(certs, c) ==
    LET n == <<"kube-apiserver-proxy-client">>
    IN  MadeOnce(certs, <<"kube-apiserver-requestheader-ca">>, n, n, << >>, TRUE, EntryOf(certs, n).key)

(* The administrator's certificate is made anew each time, for its old key.  *)
GenerateKubeAdminCertificate(certs, c) ==
    LET n == <<"kube-admin">>
        cp == HostsWith(c, "controlplane")
        e == GenerateSignedCertAndKey(certs, <<"kube-ca">>, n, n, <<"system:masters">>, FALSE, NoAltNames,
                                      EntryOf(certs, n).key)
    IN  With(certs, n, [e EXCEPT !.config = IF cp = << >> THEN << >> ELSE GetKubeConfigX509WithData(cp[1].address)])

GenerateEtcdCertificates(certs, c) ==
    LET hosts == HostsWith(c, "etcd")
        alt == GetAltNames(hosts, c.kubelet.domain, GetKubernetesServiceIP(c.api.range), << >>)
        new == {GetEtcdCrtName(h.internal) : h \in ToSet(hosts)} \ DOMAIN certs
    IN  [n \in DOMAIN certs \cup new |->
            IF n \in new THEN GenerateSignedCertAndKey(certs, <<"kube-ca">>, n, <<"kube-etcd">>, << >>, TRUE, alt, << >>)
            ELSE certs[n]]

(* The client of an external etcd is given with the configuration.           *)
GenerateExternalEtcdCertificates(certs, c) ==
    LET key == <<<<"external">>, 0>>
        signed(n) == newSignedCert(n, << >>, FALSE, NoAltNames, key, <<<<"external-ca">>, 0>>)
        ca == NewSelfSignedCACert(<<"external-ca">>, <<<<"external-ca">>, 0>>)
    IN  With(With(certs, <<"kube-etcd-client">>, ToCertObject(<<"kube-etcd-client">>, signed(<<"kube-etcd-client">>), <<key>>)),
             <<"kube-etcd-client-ca">>, ToCertObject(<<"kube-etcd-client-ca">>, ca, << >>))

GenerateZKECACerts ==
    [n \in {<<"kube-ca">>, <<"kube-apiserver-requestheader-ca">>} |-> GenerateCACertAndKey(n)]

Bind(x, op(_)) == op(x)

GenerateZKEServicesCerts(certs, c) ==
    Bind(GenerateKubeAPICertificate(certs, c), LAMBDA c1 :
    Bind(GenerateServiceTokenKey(c1, c), LAMBDA c2 :
    Bind(GenerateKubeControllerCertificate(c2, c), LAMBDA c3 :
    Bind(GenerateKubeSchedulerCertificate(c3, c), LAMBDA c4 :
    Bind(GenerateKubeProxyCertificate(c4, c), LAMBDA c5 :
    Bind(GenerateKubeNodeCertificate(c5, c), LAMBDA c6 :
    Bind(GenerateKubeAdminCertificate(c6, c), LAMBDA c7 :
    Bind(GenerateAPIProxyClientCertificate(c7, c), LAMBDA c8 :
    Bind(GenerateEtcdCertificates(c8, c), LAMBDA c9 :
        IF c.etcd.urls # << >> THEN GenerateExternalEtcdCertificates(c9, c) ELSE c9)))))))))

GenerateZKECerts(c) == GenerateZKEServicesCerts(GenerateZKECACerts, c)

(* The desired state: the bundle is made once and amended after that.        *)
RebuildState(c, state) ==
    [state EXCEPT !.bundle = <<IF @ = << >> THEN GenerateZKECerts(c) ELSE GenerateZKEServicesCerts(@[1], c)>>]

-----------------------------------------------------------------------------
(* Persistence keeps the PEM texts and the kubeconfigs.                      *)
Written(bundle) ==
    [i \in DOMAIN bundle |-> [n \in DOMAIN bundle[i] |-> [bundle[i][n] EXCEPT !.cert = << >>, !.key = << >>]]]

(* An entry without a certificate would get the one of an entry read before  *)
(* it, leaked; the code goes through the map in any order.                   *)
TransformPEMToObject(bundle, leaked) ==
    [n \in DOMAIN bundle |->
        LET certs == ParseCertsPEM(bundle[n].certPem)
        IN  [bundle[n] EXCEPT !.cert = IF certs # << >> THEN <<certs[1]>> ELSE leaked,
                              !.key = ParsePrivateKeyPEM(bundle[n].keyPem)]]

WriteStateFile(state) == [state EXCEPT !.bundle = Written(@)]

readClusterJson(disk, leaked) ==
    [disk EXCEPT !.bundle = IF @ = << >> THEN << >> ELSE <<TransformPEMToObject(@[1], leaked)>>]

(* The command line does not look at the error: a file that is not there is  *)
(* an empty state.                                                           *)
ReadStateFile(disk, leaked) == readClusterJson(disk, leaked)

Lacking(disk) == {n \in (IF disk.bundle = << >> THEN {} ELSE DOMAIN disk.bundle[1]) : disk.bundle[1][n].certPem = << >>}

-----------------------------------------------------------------------------
(* The files of a host.                                                      *)
getControlCertKeys ==
    {<<n>> : n \in {"kube-ca", "kube-apiserver", "kube-service-account-token", "kube-controller-manager",
                    "kube-scheduler", "kube-proxy", "kube-node", "kube-etcd-client", "kube-etcd-client-ca",
                    "kube-apiserver-requestheader-ca", "kube-apiserver-proxy-client"}}

getWorkerCertKeys == {<<n>> : n \in {"kube-ca", "kube-proxy", "kube-node"}}

getEtcdCertKeys(c) == getWorkerCertKeys \cup {GetEtcdCrtName(h.internal) : h \in ToSet(HostsWith(c, "etcd"))}

(* Only a control plane host is given the key of the authority.              *)
GenerateZKENodeCerts(c, host, certs) ==
    LET names == (IF HasRole(host, "controlplane") THEN getControlCertKeys ELSE {})
                 \cup (IF HasRole(host, "worker") THEN getWorkerCertKeys ELSE {})
                 \cup (IF HasRole(host, "etcd") THEN getEtcdCertKeys(c) ELSE {})
        given == [n \in names |-> EntryOf(certs, n)]
    IN  IF HasRole(host, "controlplane") THEN given
        ELSE With(given, <<"kube-ca">>, [EntryOf(given, <<"kube-ca">>) EXCEPT !.key = << >>])

(* ToEnv leaves out what an entry does not have.                             *)
ToEnv(entries, field) == {n \in DOMAIN entries : entries[n][field] # << >>}

(* The files after the deployer ran with old there before.  The deployer is  *)
(* a container image: whether it replaces a file when it is not told to is   *)
(* its own choice, over.                                                     *)
Deployed(old, entries, field, over) ==
    LET sent == ToEnv(entries, field)
    IN  [n \in DOMAIN old \cup sent |->
            IF n \in DOMAIN old /\ (~ over \/ n \notin sent) THEN old[n] ELSE entries[n][field][1]]

(* What a control plane host wants its certificate to cover.                 *)
Wants(c, host) == [internal |-> host.internal, range |-> c.api.range]

DeployCertificatesOnPlaneHost(c, host, certs, files, over) ==
    LET entries == GenerateZKENodeCerts(c, host, certs)
    IN  [cert |-> Deployed(files.cert, entries, "cert", over), key |-> Deployed(files.key, entries, "key", over),
         config |-> Deployed(files.config, entries, "config", over), hook |-> files.hook,
         api |-> IF HasRole(host, "controlplane") /\ (over \/ <<"kube-apiserver">> \notin DOMAIN files.cert)
                 THEN <<Wants(c, host)>> ELSE files.api]

(* The webhook file is always written.                                       *)
deployFile(c, files) == [files EXCEPT !.hook = IF c.webhook # << >> THEN TRUE ELSE @]

NoFiles == [cert |-> << >>, key |-> << >>, config |-> << >>, hook |-> FALSE, api |-> << >>]

(* The administrator's kubeconfig names the first control plane host that    *)
(* answers, the last one when none does.                                     *)
rebuildLocalAdminConfig(certs, address) ==
    With(certs, <<"kube-admin">>, [certs[<<"kube-admin">>] EXCEPT !.config = GetKubeConfigX509WithData(address)])

-----------------------------------------------------------------------------
(* The runs of the installer.                                                *)
Addresses == {n.address : n \in UNION {NodesOf(sc) : sc \in PkClusters} \cup UNION {ToSet(c.nodes) : c \in PkConfigs}}

Config == setClusterDefaults(pkConf[1])

HostsOf(c) == ToSet(c.nodes)

(* Everyone that has files or containers of this cluster or an older one.    *)
Touched == {a \in Addresses : pkFiles[a] # NoFiles \/ pkRun[a] # << >>}

PkInit ==
    /\ pkVia \in {"gaocloud", "cli"}
    /\ pkAsked = << >> /\ pkConf = << >>
    /\ pkState = [bundle |-> << >>, current |-> << >>]
    /\ pkDisk = [bundle |-> << >>, current |-> << >>]
    /\ pkFiles = [a \in Addresses |-> NoFiles]
    /\ pkRun = [a \in Addresses |-> << >>]
    /\ pkFrom = [a \in Addresses |-> << >>]
    /\ pkAt = "idle" /\ pkUp = << >> /\ pkLife = 1
    /\ pkLeft = [ups |-> PkUps, faults |-> PkFaults]
    /\ pkLost = FALSE /\ pkRefused = FALSE

(* The cluster and its configuration are saved and a run is started.         *)
Accept(sc, conf) ==
    /\ pkAsked' = <<sc>>
    /\ pkConf' = <<conf>>
    /\ pkAt' = "init"
    /\ UNCHANGED <<pkVia, pkState, pkDisk, pkFiles, pkRun, pkFrom, pkUp, pkLife, pkLeft, pkLost, pkRefused>>

CanAsk == pkVia = "gaocloud" /\ pkAt = "idle" /\ pkLeft.ups > 0

Create(sc) ==
    /\ CanAsk /\ pkConf = << >>
    /\ validateConfigForCreate(sc)
    /\ Accept(sc, genZKEConfig(sc))

Update(sc) ==
    /\ CanAsk /\ pkConf # << >>
    /\ \E storage \in {{}, {n.name : n \in NodesOf(pkAsked[1])}}, reachable \in BOOLEAN :
           validateConfigForUpdate(pkAsked[1], sc, reachable, storage)
    /\ Accept(sc, genZKEConfigForUpdate(pkConf[1], sc))

(* The command line reads another configuration, whatever the last one was.  *)
(* That the roles of a host that stays change is left out: what then becomes *)
(* of its containers is the subject of Installer.                            *)
Edit(c) ==
    /\ pkVia = "cli" /\ pkAt = "idle" /\ pkLeft.ups > 0
    /\ <<c>> # pkConf
    /\ pkConf # << >> => \A n \in ToSet(c.nodes), m \in ToSet(pkConf[1].nodes) : n.address = m.address => n.roles = m.roles
    /\ pkConf' = <<c>>
    /\ UNCHANGED <<pkVia, pkAsked, pkState, pkDisk, pkFiles, pkRun, pkFrom, pkAt, pkUp, pkLife, pkLeft, pkLost, pkRefused>>

(* ClusterInit and ClusterInitForGaoCloud, then the count of hosts.  The     *)
(* command line starts from its state file and writes it at once.            *)
ClusterInit ==
    /\ pkAt = (IF pkVia = "cli" THEN "idle" ELSE "init") /\ pkConf # << >> /\ pkLeft.ups > 0
    /\ pkLeft' = [pkLeft EXCEPT !.ups = @ - 1]
    /\ pkUp' = << >>
    /\ \E leaked \in {<< >>} \cup {pkDisk.bundle[1][n].cert : n \in Lacking(pkDisk)} :
           LET old == IF pkVia = "cli" THEN ReadStateFile(pkDisk, leaked) ELSE pkState
           IN  pkState' = IF InitClusterObject(Config) THEN RebuildState(Config, old) ELSE old
    /\ pkDisk' = IF pkVia = "cli" /\ InitClusterObject(Config) THEN WriteStateFile(pkState') ELSE pkDisk
    /\ pkAt' = IF InitClusterObject(Config) /\ ValidateHostCount(Config) THEN "hosts" ELSE "idle"
    /\ pkRefused' = (pkRefused \/ (pkVia = "gaocloud" /\ pkAt' = "idle"))
    /\ UNCHANGED <<pkVia, pkAsked, pkConf, pkFiles, pkRun, pkFrom, pkLife, pkLost>>

(* What remains of the faults after all but the hosts in done failed.        *)
Spared(done) ==
    /\ done = HostsOf(Config) \/ pkLeft.faults > 0
    /\ pkLeft' = IF done = HostsOf(Config) THEN pkLeft ELSE [pkLeft EXCEPT !.faults = @ - 1]

(* A run that fails hands its state back, and GaoCloud saves it.             *)
Ends(ok, state) ==
    pkDisk' = IF pkVia = "gaocloud" /\ ~ ok THEN WriteStateFile(state) ELSE pkDisk

(* The API server that answers first, or the last host.                      *)
Reached(c) ==
    LET cp == HostsWith(c, "controlplane")
        up == {i \in DOMAIN cp : "kube-apiserver" \in DOMAIN pkRun[cp[i].address]}
    IN  cp[IF up = {} THEN Len(cp) ELSE Min(up)].address

(* Every host in parallel; the ones in done succeed.                         *)
SetUpHosts ==
    /\ pkAt = "hosts"
    /\ \E done \in SUBSET HostsOf(Config), over \in BOOLEAN :
           /\ Spared(done)
           /\ LET c == Config
                  all == done = HostsOf(c)
                  certs == pkState.bundle[1]
              IN  /\ pkFiles' = [a \in Addresses |->
                         IF \E h \in done : h.address = a
                         THEN LET h == CHOOSE x \in done : x.address = a
                                  f == DeployCertificatesOnPlaneHost(c, h, certs, pkFiles[a], over)
                              IN  IF all THEN deployFile(c, f) ELSE f
                         ELSE pkFiles[a]]
                  /\ pkState' = IF all /\ HostsWith(c, "controlplane") # << >>
                                THEN [pkState EXCEPT !.bundle = <<rebuildLocalAdminConfig(@[1], Reached(c))>>] ELSE pkState
                  /\ pkAt' = IF all THEN "plane" ELSE "idle"
                  /\ Ends(all, pkState')
    /\ UNCHANGED <<pkVia, pkAsked, pkConf, pkRun, pkFrom, pkUp, pkLife, pkLost, pkRefused>>

(* GetToAddHosts and GetToDeleteHosts compare the recorded configuration     *)
(* with the new one by address.                                              *)
EtcdAdded(c) ==
    pkState.current # << >> /\
        \E h \in ToSet(HostsWith(c, "etcd")) : \A o \in ToSet(HostsWith(pkState.current[1], "etcd")) : o.address # h.address

Leaving(c) ==
    {a \in Addresses : /\ pkState.current # << >>
                       /\ \E o \in HostsOf(pkState.current[1]) : o.address = a
                       /\ \A h \in HostsOf(c) : h.address # a}

setReadyEtcdHosts(c) == IF EtcdAdded(c) THEN HostsWith(c, "etcd") ELSE << >>

(* DeployControlPlane, DeployWorkerPlane and the record of the current       *)
(* state, which the command line makes once the control plane is deployed.   *)
(* Hosts that leave are cleaned, or it fails with a warning.                 *)
DeployPlanes ==
    /\ pkAt = "plane"
    /\ \E done \in SUBSET HostsOf(Config), cleaned \in SUBSET Leaving(Config) :
           /\ Spared(done)
           /\ LET c == Config
                  all == done = HostsOf(c)
                  ready == setReadyEtcdHosts(c)
                  planned == [h \in done |-> BuildZKEConfigNodePlan(c, h, ready).processes]
                  first == {h \in HostsOf(c) : HasRole(h, "controlplane") \/ HasRole(h, "etcd")}
                  recorded == all \/ (pkVia = "cli" /\ first \subseteq done)
              IN  /\ pkRun' = [a \in Addresses |->
                         IF a \in cleaned THEN << >>
                         ELSE IF \E h \in done : h.address = a
                         THEN LET p == planned[CHOOSE h \in done : h.address = a]
                              IN  [n \in DOMAIN p \cup DOMAIN pkRun[a] |->
                                      IF n \notin DOMAIN p THEN pkRun[a][n]
                                      ELSE IF n \notin DOMAIN pkRun[a] \/ IsContainerUpgradable(pkRun[a][n], p[n]) THEN p[n]
                                      ELSE pkRun[a][n]]
                         ELSE pkRun[a]]
                  /\ pkFiles' = [a \in Addresses |-> IF a \in cleaned THEN NoFiles ELSE pkFiles[a]]
                  /\ pkFrom' = [a \in Addresses |-> IF \E h \in done : h.address = a THEN <<c, ready>> ELSE pkFrom[a]]
                  /\ pkState' = IF recorded THEN [pkState EXCEPT !.current = <<c>>] ELSE pkState
                  /\ pkUp' = IF all THEN <<c>> ELSE << >>
                  /\ pkDisk' = IF pkVia = "gaocloud" \/ recorded THEN WriteStateFile(pkState') ELSE pkDisk
    /\ pkAt' = "idle"
    /\ UNCHANGED <<pkVia, pkAsked, pkConf, pkLife, pkLost, pkRefused>>

(* The server, or the command, is killed and starts again from what was      *)
(* saved.                                                                    *)
Crash ==
    /\ pkVia = "gaocloud" \/ pkAt # "idle"
    /\ pkLeft.faults > 0 /\ pkConf # << >>
    /\ pkLeft' = [pkLeft EXCEPT !.faults = @ - 1]
    /\ pkLife' = pkLife + 1
    /\ \E leaked \in {<< >>} \cup {pkDisk.bundle[1][n].cert : n \in Lacking(pkDisk)} :
           pkState' = readClusterJson(pkDisk, leaked)
    /\ pkLost' = (pkLost \/ (pkDisk.bundle = << >> /\ Touched # {}))
    /\ pkAt' = "idle"
    /\ UNCHANGED <<pkVia, pkAsked, pkConf, pkDisk, pkFiles, pkRun, pkFrom, pkUp, pkRefused>>

(* The cluster is removed, its hosts are cleaned, and the next one starts    *)
(* with no state.  A host that left before and was not cleaned keeps its     *)
(* files.                                                                    *)
ClusterRemove ==
    /\ pkAt = "idle" /\ pkConf # << >> /\ pkLeft.ups > 0
    /\ LET own == {h.address : h \in HostsOf(Config)}
       IN  /\ pkFiles' = [a \in Addresses |-> IF a \in own THEN NoFiles ELSE pkFiles[a]]
           /\ pkRun' = [a \in Addresses |-> IF a \in own THEN << >> ELSE pkRun[a]]
           /\ pkFrom' = [a \in Addresses |-> IF a \in own THEN << >> ELSE pkFrom[a]]
           /\ pkLost' = (Touched \ own # {})
    /\ pkAsked' = << >> /\ pkConf' = << >> /\ pkUp' = << >>
    /\ pkState' = [bundle |-> << >>, current |-> << >>]
    /\ pkDisk' = [bundle |-> << >>, current |-> << >>]
    /\ UNCHANGED <<pkVia, pkAt, pkLife, pkLeft, pkRefused>>

PkNext ==
    \/ \E sc \in PkClusters : Create(sc) \/ Update(sc)
    \/ \E c \in PkConfigs : Edit(c)
    \/ ClusterInit
    \/ SetUpHosts
    \/ DeployPlanes
    \/ Crash
    \/ ClusterRemove

-----------------------------------------------------------------------------
(* Properties.                                                               *)
(* The certificate of a file of the host, its key and who signed it fit.     *)
Fits(f, name, ca) ==
    /\ name \in DOMAIN f.cert /\ name \in DOMAIN f.key /\ ca \in DOMAIN f.cert
    /\ f.cert[name].key = f.key[name]
    /\ f.cert[name].issuer = f.cert[ca].key

Authority(name) ==
    IF name = <<"kube-apiserver-proxy-client">> THEN <<"kube-apiserver-requestheader-ca">>
    ELSE IF name = <<"kube-etcd-client">> THEN <<"kube-etcd-client-ca">> ELSE <<"kube-ca">>

(* What one flag of a process names is there and fits.                       *)
Readable(f, v) ==
    LET name == Tail(v)
    IN  CASE v[1] = "cert" -> name \in DOMAIN f.cert
          [] v[1] = "key" -> name \in DOMAIN f.key /\ (name \in DOMAIN f.cert => Fits(f, name, Authority(name)))
          [] v[1] = "config" -> name \in DOMAIN f.config /\ f.config[name].name = name /\ Fits(f, name, Authority(name))
          [] v = <<"webhook">> -> f.hook
          [] OTHER -> TRUE

Covers(cert, address) ==
    IF isIPv4(address) THEN NpParse[address].a \in ToSet(cert.alt.ips) ELSE <<address>> \in ToSet(cert.alt.dns)

CoversBoth(cert, wants) ==
    Covers(cert, wants.internal) /\ GetKubernetesServiceIP(wants.range) \in ToSet(cert.alt.ips)

(* After a finished run of the installer every process of every host finds   *)
(* the files its command line names: certificates with their keys, signed by *)
(* the authority that is deployed next to them; the certificate of an etcd   *)
(* member covers its own host, and the administrator's kubeconfig names a    *)
(* control plane host.  The API servers' certificate in the bundle covers    *)
(* every control plane host and the service address as they are now, however *)
(* the command line changed them; the file on a host covers what its         *)
(* configuration asked for when the file was written.  That is what it asks  *)
(* for now, unless the command line changed the internal address or the      *)
(* service range and the deployer, which is not told to replace files, kept  *)
(* the old one.  This survives failed runs, crashes, hosts that come, go and *)
(* return uncleaned, as long as no bundle was lost.  And the installer       *)
(* refuses no cluster GaoCloud accepts.                                      *)
PkServed ==
    /\ ~ pkRefused
    /\ pkUp # << >> /\ ~ pkLost =>
         LET c == pkUp[1]
         IN  /\ \A h \in HostsOf(c) :
                  LET f == pkFiles[h.address]
                  IN  /\ \A p \in DOMAIN pkRun[h.address] :
                            \A g \in DOMAIN pkRun[h.address][p].flags : Readable(f, pkRun[h.address][p].flags[g])
                      /\ HasRole(h, "controlplane") =>
                            /\ CoversBoth(pkState.bundle[1][<<"kube-apiserver">>].cert[1], Wants(c, h))
                            /\ CoversBoth(f.cert[<<"kube-apiserver">>], f.api[1])
                            /\ pkVia = "gaocloud" => f.api[1] = Wants(c, h)
                      /\ HasRole(h, "etcd") => Covers(f.cert[GetEtcdCrtName(h.internal)], h.internal)
             /\ pkState.bundle[1][<<"kube-admin">>].config[1].server
                  \in {h.address : h \in ToSet(HostsWith(c, "controlplane"))}

Internals(c, role) == [i \in DOMAIN HostsWith(c, role) |-> HostsWith(c, role)[i].internal]

(* A control plane host that is no worker is tainted.                        *)
Tainted(c, a) ==
    \E h \in HostsOf(c) : h.address = a /\ HasRole(h, "controlplane") /\ ~ HasRole(h, "worker")

NameAt(c, a) == {h.name : h \in {n \in HostsOf(c) : n.address = a}}

(* The options of the cluster a container is started with, which another     *)
(* cluster may choose differently.                                           *)
Chosen(c, p) ==
    CASE p = "kubelet" -> <<c.dnsIP, c.clusterDomain>>
      [] p = "kube-proxy" -> <<c.clusterCidr>>
      [] OTHER -> << >>

(* What may make the plan of a container of a host differ between two runs.  *)
Cause(a, p, old, new) ==
    \/ p \in {"kubelet", "kube-proxy"} /\ NameAt(old[1], a) # NameAt(new[1], a)
    \/ Chosen(old[1], p) # Chosen(new[1], p)
    \/ CASE p = "kubelet" -> Tainted(old[1], a) # Tainted(new[1], a)
         [] p = "nginx-proxy" -> Internals(old[1], "controlplane") # Internals(new[1], "controlplane")
         [] p = "kube-apiserver" -> Internals(old[1], "etcd") # Internals(new[1], "etcd")
         [] p \in {"kube-controller-manager", "kube-scheduler"} ->
               (Len(HostsWith(old[1], "controlplane")) < 2) # (Len(HostsWith(new[1], "controlplane")) < 2)
         [] p = "etcd" -> Internals(old[1], "etcd") # Internals(new[1], "etcd") \/ old[2] # new[2]
         [] OTHER -> FALSE

=============================================================================
