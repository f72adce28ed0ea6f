------------------------------- MODULE Storage -------------------------------
(***************************************************************************)
(* The storages of a cluster: the handlers that list, create, change and   *)
(* delete LVM, CephFS, iSCSI and NFS storages, each an object of the       *)
(* Kubernetes cluster, with the secret of an iSCSI storage that            *)
(* authenticates itself.  An operator of the cluster (external) builds the *)
(* storages, notes who uses them and removes them.  Requests run at the    *)
(* same time, any call may fail, and only Update notices that its object   *)
(* has changed since it was read.                                          *)
(***************************************************************************)
EXTENDS Naturals, FiniteSets

CONSTANTS
    StNames, StHosts, StMasters, StTargets,
    StHostSets,     \* the hosts a request can name
    StSlots,        \* request goroutines
    StOps,          \* kinds of requests: <<operation, type>>
    StStarts,       \* the objects at the start
    StRequests,     \* bound: requests
    StEvents        \* bound: changes by the operator

VARIABLES
    stObjs,         \* <<kind, name>> -> object
    stSecrets,      \* names of iSCSI storages with a secret -> credentials
    stAttached,     \* volume attachments: <<name, host>>
    stReq, stRequests, stEvents

stVars == <<stObjs, stSecrets, stAttached, stReq, stRequests, stEvents>>

NoObject == [is |-> "none"]
StIdle == [at |-> "idle"]
Types == {"lvm", "cephfs", "iscsi", "nfs"}      \* newStorageManager's handles
Kind(type) == IF type \in {"lvm", "cephfs"} THEN "cluster" ELSE type

StFields == {"is", "hosts", "target", "chap", "phase", "used", "deleting", "config"}

(* Only an iSCSI storage authenticates itself. *)
StObjOK(k, o) == o # NoObject => (DOMAIN o = StFields /\ (k[1] # "iscsi" => o.chap = FALSE))

(* The storages the platform finds are ones it could have made; a request  *)
(* creates or changes a storage of one of the four types.                  *)
StFound ==
    /\ \A start \in StStarts : \A k \in DOMAIN start : StObjOK(k, start[k])
    /\ \A o \in StOps : o[1] \in {"create", "update"} => o[2] \in Types
ASSUME StAssumption == StFound

Kinds == {"cluster", "iscsi", "nfs"}

Object(type, hosts, target, chap) ==
    [is |-> type, hosts |-> hosts, target |-> target, chap |-> chap,
     phase |-> "", used |-> FALSE, deleting |-> FALSE, config |-> {}]

StInit ==
    \E start \in StStarts :
       /\ stObjs = [k \in Kinds \X StNames |-> IF k \in DOMAIN start THEN start[k] ELSE NoObject]
       /\ stSecrets = [n \in {n \in StNames : stObjs[<<"iscsi", n>>] # NoObject /\ stObjs[<<"iscsi", n>>].chap} |-> "c1"]
       /\ stAttached = {}
       /\ stReq = [s \in StSlots |-> StIdle] /\ stRequests = 0 /\ stEvents = 0

Present(k) == stObjs[k] # NoObject
Existing == {k \in DOMAIN stObjs : Present(k)}

(* Every write makes the copies that others hold of the object, and what   *)
(* they found in it, stale.                                                *)
StWrite(k, o, req) ==
    /\ stObjs' = [stObjs EXCEPT ![k] = o]
    /\ stReq' = [s \in StSlots |-> IF "fresh" \in DOMAIN req[s] /\ req[s].key = k
                                   THEN [req[s] EXCEPT !.fresh = FALSE] ELSE req[s]]
StSet(s, r) == [stReq EXCEPT ![s] = r]
StEnds(s) == stReq' = StSet(s, StIdle)
StAt(s, label) == stReq[s].at = label
StOnto(s, label) == stReq' = [stReq EXCEPT ![s].at = label]

(* Secrets f with x under n, and without n. *)
StWith(f, n, x) == [y \in DOMAIN f \cup {n} |-> IF y = n THEN x ELSE f[y]]
StWithout(f, n) == [x \in DOMAIN f \ {n} |-> f[x]]

StWorld == <<stObjs, stSecrets, stAttached>>
StCounts == <<stRequests, stEvents>>

(**************************** Block devices ********************************)

(* getStorageUsed: the hosts the operator has configured storages on.      *)
getStorageUsed == UNION {stObjs[<<"cluster", n>>].config : n \in {n \in StNames : Present(<<"cluster", n>>)}}

(* isValidHost: not a node of the control plane or of etcd.                *)
isValidHost(h) == h \notin StMasters

(* getBlockDevices: the devices of the hosts that are valid, with who uses *)
(* them; every host has one unused device.                                 *)
cutInvalid == [h \in {h \in StHosts : isValidHost(h)} |-> h \in getStorageUsed]

(* checkUsed, isHostsValidate: a host must be listed, and unused.          *)
checkUsed(h) == ~(h \in DOMAIN cutInvalid /\ ~cutInvalid[h])
isHostsValidate(hosts) == \A h \in hosts : ~checkUsed(h)

(******************************* Requests **********************************)

Wants == [name : StNames, hosts : StHostSets, target : StTargets, chap : BOOLEAN, secret : {"c1", "c2"}]

(* What a request of the type can say; the rest is left out.               *)
Relevant(type, w) ==
    /\ type = "nfs" => w.hosts = CHOOSE h \in StHostSets : TRUE
    /\ Kind(type) = "cluster" => w.target = CHOOSE t \in StTargets : TRUE
    /\ type # "iscsi" => ~w.chap
    /\ ~w.chap => w.secret = "c1"

StArrives(s) ==
    /\ stReq[s] = StIdle /\ stRequests < StRequests /\ stRequests' = stRequests + 1
    /\ \/ \E o \in StOps, w \in Wants :
             /\ o[1] \in {"create", "update"} /\ Relevant(o[2], w)
             /\ stReq' = StSet(s, [at |-> o[1], type |-> o[2], want |-> w])
       \/ \E o \in StOps, n \in StNames : o[1] = "delete" /\ stReq' = StSet(s, [at |-> "delete", name |-> n])
    /\ UNCHANGED <<StWorld, stEvents>>

(****************************** Create *************************************)

(* checkStorageExist: no storage of any type has the name.                 *)
checkStorageExist(n) == \E k \in Existing : k[2] = n

createStorage(s) ==
    /\ StAt(s, "create")
    /\ \/ ~checkStorageExist(stReq[s].want.name) /\ StOnto(s, "validate")
       \/ StEnds(s)
    /\ UNCHANGED <<StWorld, StCounts>>

checkStorageClusterTypeExist(type) == \E n \in StNames : Present(<<"cluster", n>>) /\ stObjs[<<"cluster", n>>].is = type
iscsiDuplicateValidation(w) == \E n \in StNames : Present(<<"iscsi", n>>) /\ stObjs[<<"iscsi", n>>].target = w.target
nfsDuplicateValidation(w) == \E n \in StNames : Present(<<"nfs", n>>) /\ stObjs[<<"nfs", n>>].target = w.target
initiatorsRoleValidation(hosts) == hosts \cap StMasters = {}

Valid(type, w) ==
    CASE Kind(type) = "cluster" -> ~checkStorageClusterTypeExist(type) /\ isHostsValidate(w.hosts)
      [] type = "iscsi" -> ~iscsiDuplicateValidation(w) /\ initiatorsRoleValidation(w.hosts)
      [] type = "nfs" -> ~nfsDuplicateValidation(w)

validate(s) ==
    LET r == stReq[s]
    IN /\ StAt(s, "validate")
       /\ \/ Valid(r.type, r.want) /\ StOnto(s, IF r.want.chap THEN "createSecret" ELSE "createObject")
          \/ StEnds(s)
       /\ UNCHANGED <<StWorld, StCounts>>

(* The secret first, ...                                                   *)
createSecret(s) ==
    LET w == stReq[s].want
    IN /\ StAt(s, "createSecret")
       /\ \/ /\ w.name \notin DOMAIN stSecrets
             /\ stSecrets' = StWith(stSecrets, w.name, w.secret) /\ StOnto(s, "createObject")
          \/ StEnds(s) /\ UNCHANGED stSecrets
       /\ UNCHANGED <<stObjs, stAttached, StCounts>>

(* ... then the storage; a secret stays when that fails.                   *)
createObject(s) ==
    LET r == stReq[s]
        k == <<Kind(r.type), r.want.name>>
    IN /\ StAt(s, "createObject")
       /\ \/ /\ ~Present(k)
             /\ StWrite(k, Object(r.type, r.want.hosts, r.want.target, r.want.chap), StSet(s, StIdle))
          \/ StEnds(s) /\ UNCHANGED stObjs
       /\ UNCHANGED <<stSecrets, stAttached, StCounts>>

(******************************* Delete ************************************)

InProgress(o) == o.phase \in {"Creating", "Updating", "Deleting"}

(* GetStorage of a handle: an iSCSI storage that authenticates itself is   *)
(* not found without its secret.                                           *)
GetStorage(k) == Present(k) /\ (k[1] = "iscsi" /\ stObjs[k].chap => k[2] \in DOMAIN stSecrets)

(* deleteStorage: the first handle that finds the name, in the order of    *)
(* the handles; a storage that is built or used is refused.                *)
deleteStorage(s) ==
    LET n == stReq[s].name
        k == IF GetStorage(<<"cluster", n>>) THEN <<"cluster", n>>
             ELSE IF GetStorage(<<"iscsi", n>>) THEN <<"iscsi", n>> ELSE <<"nfs", n>>
    IN /\ StAt(s, "delete")
       /\ \/ /\ GetStorage(k) /\ ~InProgress(stObjs[k]) /\ ~stObjs[k].used
             /\ stReq' = StSet(s, [at |-> IF stObjs[k].chap THEN "deleteSecret" ELSE "deleteObject", key |-> k, fresh |-> TRUE])
          \/ StEnds(s)
       /\ UNCHANGED <<StWorld, StCounts>>

deleteSecret(s) ==
    LET n == stReq[s].key[2]
    IN /\ StAt(s, "deleteSecret")
       /\ \/ n \in DOMAIN stSecrets /\ stSecrets' = StWithout(stSecrets, n) /\ StOnto(s, "deleteObject")
          \/ StEnds(s) /\ UNCHANGED stSecrets
       /\ UNCHANGED <<stObjs, stAttached, StCounts>>

(* The object is marked, whatever happened to it since it was checked; the *)
(* operator removes it once nobody uses it.                                *)
deleteObject(s) ==
    LET k == stReq[s].key
    IN /\ StAt(s, "deleteObject")
       /\ \/ Present(k) /\ StWrite(k, [stObjs[k] EXCEPT !.deleting = TRUE], StSet(s, StIdle))
          \/ StEnds(s) /\ UNCHANGED stObjs
       /\ UNCHANGED <<stSecrets, stAttached, StCounts>>

(******************************* Update ************************************)

(* isDelHostsUsed: no volume of the storage is attached to these hosts.    *)
getAttachedHosts(n, hosts) == {h \in hosts : <<n, h>> \in stAttached}
isDelHostsUsed(n, hosts) == getAttachedHosts(n, hosts) # {}

(* updateStorageCluster: hosts that leave are free of volumes (not asked   *)
(* of CephFS), hosts that come are valid and unused.                       *)
updateStorageCluster(type, o, w) ==
    /\ type = "lvm" => ~isDelHostsUsed(w.name, o.hosts \ w.hosts)
    /\ isHostsValidate(w.hosts \ o.hosts)

(* The credentials differ from those of the secret.                        *)
chapChange(o, w) == w.chap /\ o.chap /\ stSecrets[w.name] # w.secret

(* IscsiManager.Update: what the volumes depend on changes only while no   *)
(* volume claim uses the storage.                                          *)
updateIscsi(o, w) ==
    /\ ~isDelHostsUsed(w.name, o.hosts \ w.hosts)
    /\ initiatorsRoleValidation(w.hosts \ o.hosts)
    /\ w.chap /\ o.chap => w.name \in DOMAIN stSecrets
    /\ o.target # w.target \/ o.chap # w.chap \/ chapChange(o, w) => ~o.used

(* NfsManager.Update: only while no volume claim uses the storage.         *)
updateNfs(o, w) == ~o.used

Allowed(type, o, w) ==
    CASE Kind(type) = "cluster" -> updateStorageCluster(type, o, w)
      [] type = "iscsi" -> updateIscsi(o, w)
      [] type = "nfs" -> updateNfs(o, w)

updateStorage(s) ==
    LET r == stReq[s]
        w == r.want
        k == <<Kind(r.type), w.name>>
        o == stObjs[k]
        label == IF r.type # "iscsi" THEN "updateObject"
                 ELSE IF o.chap # w.chap \/ chapChange(o, w) THEN "updateSecret" ELSE "updateObject"
    IN /\ StAt(s, "update")
       /\ \/ /\ Present(k) /\ ~InProgress(o) /\ ~o.deleting /\ Allowed(r.type, o, w)
             /\ stReq' = StSet(s, [at |-> label, want |-> w, key |-> k, fresh |-> TRUE, read |-> o])
          \/ StEnds(s)
       /\ UNCHANGED <<StWorld, StCounts>>

(* The secret is deleted, created or changed before the storage is.        *)
updateIscsiSecret(s) ==
    LET r == stReq[s]
        n == r.want.name
        has == n \in DOMAIN stSecrets
    IN /\ StAt(s, "updateSecret")
       /\ \/ /\ has = r.read.chap
             /\ stSecrets' = IF r.want.chap THEN StWith(stSecrets, n, r.want.secret) ELSE StWithout(stSecrets, n)
             /\ StOnto(s, "updateObject")
          \/ StEnds(s) /\ UNCHANGED stSecrets
       /\ UNCHANGED <<stObjs, stAttached, StCounts>>

Wanted(r) == [stObjs[r.key] EXCEPT !.hosts = IF r.key[1] = "nfs" THEN @ ELSE r.want.hosts,
                                   !.target = IF r.key[1] = "cluster" THEN @ ELSE r.want.target, !.chap = r.want.chap]

(* Variant: the object is written whatever happened to it meanwhile.       *)
updateObjectBlindly(s) ==
    LET r == stReq[s]
    IN /\ StAt(s, "updateObject")
       /\ \/ Present(r.key) /\ StWrite(r.key, Wanted(r), StSet(s, StIdle))
          \/ StEnds(s) /\ UNCHANGED stObjs
       /\ UNCHANGED <<stSecrets, stAttached, StCounts>>

updateObject(s) ==
    LET r == stReq[s]
    IN /\ StAt(s, "updateObject")
       /\ \/ r.fresh /\ StWrite(r.key, Wanted(r), StSet(s, StIdle))
          \/ StEnds(s) /\ UNCHANGED stObjs
       /\ UNCHANGED <<stSecrets, stAttached, StCounts>>

(**************************** The operator *********************************)

StChanged == stEvents < StEvents /\ stEvents' = stEvents + 1 /\ UNCHANGED stRequests

(* It configures a storage, and later its phase says so.                   *)
Configures ==
    /\ StChanged /\ \E k \in Existing :
         LET o == stObjs[k] IN
         \/ o.phase = "" /\ StWrite(k, [o EXCEPT !.phase = "Creating"], stReq)
         \/ o.phase # "Running" /\ StWrite(k, [o EXCEPT !.phase = "Running", !.config = IF k[1] = "cluster" THEN o.hosts ELSE {}], stReq)
         \/ o.phase = "Running" /\ o.config \notin {{}, o.hosts} /\ StWrite(k, [o EXCEPT !.phase = "Updating"], stReq)
    /\ UNCHANGED <<stSecrets, stAttached>>

(* A volume claim uses a storage that runs, or ceases to.                  *)
Claims ==
    /\ StChanged /\ \E k \in Existing :
         /\ stObjs[k].phase = "Running"
         /\ StWrite(k, [stObjs[k] EXCEPT !.used = ~@], stReq)
         /\ stAttached' = {a \in stAttached : a[1] # k[2]}
    /\ UNCHANGED stSecrets

(* A volume of a storage that is used is attached to a host.               *)
Attaches ==
    /\ StChanged /\ \E k \in Existing : \E h \in stObjs[k].hosts :
         stObjs[k].used /\ k[1] # "nfs" /\ stAttached' = stAttached \cup {<<k[2], h>>}
    /\ UNCHANGED <<stObjs, stSecrets, stReq>>

Removes ==
    /\ StChanged /\ \E k \in Existing : stObjs[k].deleting /\ ~stObjs[k].used /\ StWrite(k, NoObject, stReq)
    /\ UNCHANGED <<stSecrets, stAttached>>

StStep(s) ==
    \/ StArrives(s) \/ createStorage(s) \/ validate(s) \/ createSecret(s) \/ createObject(s)
    \/ deleteStorage(s) \/ deleteSecret(s) \/ deleteObject(s)
    \/ updateStorage(s) \/ updateIscsiSecret(s) \/ updateObject(s)

StNext == Configures \/ Claims \/ Attaches \/ Removes \/ \E s \in StSlots : StStep(s)

StSpec == StInit /\ [][StNext]_stVars

(***************************** Properties **********************************)

(* A request found the storage unused, the storage has been written since, *)
(* and the request writes its secret or marks it all the same.             *)
ActsOnOldCheck(k) ==
    \E s \in StSlots : /\ stReq[s].at \in {"updateSecret", "deleteSecret", "deleteObject"}
                       /\ stReq[s].key = k /\ ~stReq[s].fresh /\ stReq'[s] # stReq[s]

(* The credentials an iSCSI storage authenticates itself with.             *)
Authenticates(k) == k[1] = "iscsi" /\ stObjs[k].chap /\ k[2] \in DOMAIN stSecrets
KeepsSecret(k) == Authenticates(k) => (k[2] \in DOMAIN stSecrets' /\ stSecrets'[k[2]] = stSecrets[k[2]])

(* A step that leaves storages in use where they are.                      *)
StLeavesUsed ==
    \A k \in Existing :
        stObjs[k].used =>
            /\ stObjs'[k] # NoObject
            /\ stObjs'[k].target = stObjs[k].target /\ stObjs'[k].chap = stObjs[k].chap
            /\ ActsOnOldCheck(k) \/ (KeepsSecret(k) /\ stObjs'[k].deleting = stObjs[k].deleting)

(* While volume claims use a storage it does not disappear and where its   *)
(* data is and whether it authenticates itself do not change: Update       *)
(* writes the object only if nobody has since the check that nobody uses   *)
(* it, and a marked object waits for its claims (the operator's part).     *)
(* Its credentials are not changed or dropped and it is not marked for     *)
(* deletion either, with one exception, the only one: a request that found *)
(* it unused and comes to its next call after a claim did.  The secret is  *)
(* written before the object, and neither that nor Delete looks again.     *)
StUsedStays == [][StLeavesUsed]_stVars

=============================================================================
