------------------------------- MODULE Tenancy -------------------------------
(***************************************************************************)
(* Users and what they may use: the handlers of users, user quotas,        *)
(* namespaces and resource quotas, with the authenticator, the authorizer  *)
(* and the audit log they share.  A request passes the authorization       *)
(* handler and the audit handler before its own handler; several requests  *)
(* run at the same time.  The database lets one transaction run at a time  *)
(* and a commit may fail with or without having taken effect; any call to  *)
(* a cluster may fail.                                                     *)
(***************************************************************************)
EXTENDS Integers

CONSTANTS
    TnUsers,        \* users other than the administrator
    TnNamespaces,   \* namespaces
    TnClusters,     \* clusters that are ready
    TnStorage,      \* amounts of storage to ask for
    TnPasswords,
    TnOps,          \* the kinds of requests that are sent
    TnMaxLogs,      \* MaxAuditLogCount, at least 2
    TnSlots,        \* request goroutines
    TnRequests      \* bound: requests and restarts

VARIABLES
    tnPass, tnPassDb,   \* authenticator: user -> password, in memory and saved
    tnProj, tnProjDb,   \* authorizer: user -> projects <<cluster, namespace>>
    tnQuota,            \* table of user quotas: namespace -> quota
    tnNs,               \* cluster -> namespace -> limit of its resource quota
    tnLog,              \* audit log: [saved, first, current, lock]
    tnReq,              \* slot -> the request it works on
    tnTx,               \* the slot whose transaction is open
    tnTouched,          \* <<cluster, namespace>> changed by someone else
    tnCount

tnVars == <<tnPass, tnPassDb, tnProj, tnProjDb, tnQuota, tnNs, tnLog, tnReq, tnTx, tnTouched, tnCount>>
tnUserVars == <<tnPass, tnPassDb, tnProj, tnProjDb>>
tnWorld == <<tnQuota, tnNs, tnTouched>>

Admin == "admin"
Everyone == TnUsers \cup {Admin}
NoSlot == "none"

(* The slots are not the name for none, and a log has room for two entries. *)
TnSetting == NoSlot \notin TnSlots /\ TnMaxLogs \in Nat /\ TnMaxLogs >= 2
ASSUME TnAssumption == TnSetting

NoQuota == [status |-> "none"]
Gone == -1            \* the namespace does not exist
Unlimited == 0        \* it exists without a resource quota
TnIdle == [at |-> "idle"]
AllProjects == {<<"_all_clusters", "_all_namespaces">>}

(* Table f with v under x. *)
Recorded(f, x, v) == [y \in DOMAIN f \cup {x} |-> IF y = x THEN v ELSE f[y]]

(* NewAuthenticator and New: loadUsers, then the administrator is added.   *)
WithAdmin(saved, value) == IF Admin \in DOMAIN saved THEN saved ELSE Recorded(saved, Admin, value)

(* The states after some history: a user without a quota, one who asked,   *)
(* one who was granted a quota and one who asked for another storage.      *)
Histories == {"new", "asked", "granted", "again"}

TnInit ==
    \E history \in Histories :
       LET has == history \in {"granted", "again"}
           asks == history \in {"asked", "again"}
           logs == IF history = "new" THEN 0 ELSE TnMaxLogs - 1
           u == CHOOSE x \in TnUsers : TRUE
           n0 == CHOOSE x \in TnNamespaces : TRUE
           c0 == CHOOSE x \in TnClusters : TRUE
           old == CHOOSE x \in TnStorage : TRUE
           new == IF history = "again" THEN CHOOSE x \in TnStorage : x # old ELSE old
           known == IF history = "new" THEN {Admin} ELSE {u, Admin}
       IN /\ tnPass = [x \in known |-> CHOOSE p \in TnPasswords : TRUE] /\ tnPassDb = tnPass
          /\ tnProj = [x \in known |-> IF x = Admin THEN AllProjects ELSE IF has THEN {<<c0, n0>>} ELSE {}]
          /\ tnProjDb = tnProj
          /\ tnQuota = [n \in TnNamespaces |->
                IF history = "new" \/ n # n0 THEN NoQuota
                ELSE [status |-> IF asks THEN "processing" ELSE "approval", user |-> u, storage |-> new,
                      cluster |-> IF has THEN c0 ELSE ""]]
          /\ tnNs = [c \in TnClusters |-> [n \in TnNamespaces |-> IF has /\ c = c0 /\ n = n0 THEN old ELSE Gone]]
          /\ tnLog = [saved |-> 1 .. logs, first |-> 0, current |-> logs, lock |-> NoSlot]
          /\ tnReq = [s \in TnSlots |-> TnIdle]
          /\ tnTx = NoSlot /\ tnTouched = {} /\ tnCount = 0

(* The fields of f, and those of g that f does not have. *)
Joined(f, g) == [x \in DOMAIN f \cup DOMAIN g |-> IF x \in DOMAIN f THEN f[x] ELSE g[x]]

Ends(s) == tnReq' = [tnReq EXCEPT ![s] = TnIdle]
GoesTo(s, label) == tnReq' = [tnReq EXCEPT ![s].at = label]
Is(s, label) == tnReq[s].at = label
Free == tnTx = NoSlot

(* The outcomes of a transaction: whether the caller sees it succeed, and  *)
(* whether its writes are there.                                           *)
Commits == {[ok |-> TRUE, there |-> TRUE], [ok |-> FALSE, there |-> FALSE], [ok |-> FALSE, there |-> TRUE]}

(* The tables of users: addUser, deleteUser and updateUser in a            *)
(* transaction each.                                                       *)
addUser(table, u, v, c) == IF c.there /\ u \notin DOMAIN table THEN Recorded(table, u, v) ELSE table
Without(f, u) == [x \in DOMAIN f \ {u} |-> f[x]]
removeUser(table, u, c) == IF c.there THEN Without(table, u) ELSE table
saveUser(table, u, v, c) == IF c.there /\ u \in DOMAIN table THEN [table EXCEPT ![u] = v] ELSE table

(*************************** The requests **********************************)

Asked ==
    [op : {"createUser", "deleteUser", "updateUser"}, about : TnUsers]
    \cup [op : {"resetPassword"}, old : TnPasswords, new : TnPasswords]
    \cup [op : {"createQuota", "updateQuota"}, ns : TnNamespaces, storage : TnStorage, cluster : TnClusters \cup {""}]
    \cup [op : {"deleteQuota", "reject"}, ns : TnNamespaces]
    \cup [op : {"approval", "createNamespace", "deleteNamespace", "createLimit", "deleteLimit"},
          ns : TnNamespaces, cluster : TnClusters]

(* Authenticator.AddUser: the table first, then the memory.                *)
AddPassword(u, p, c) ==
    /\ tnPassDb' = addUser(tnPassDb, u, p, c)
    /\ tnPass' = IF c.ok /\ u \notin DOMAIN tnPassDb THEN Recorded(tnPass, u, p) ELSE tnPass

(* A request arrives with the user its token names, or its ticket: then a  *)
(* user without a password is added, and whether that works is not seen.   *)
Authenticate(u) ==
    \/ UNCHANGED <<tnPass, tnPassDb>>
    \/ u \notin DOMAIN tnPass /\ Free /\ \E c \in Commits : AddPassword(u, "", c)

Arrives(s) ==
    /\ tnReq[s] = TnIdle /\ tnCount < TnRequests /\ tnCount' = tnCount + 1
    /\ \E u \in Everyone, a \in Asked :
          /\ a.op \in TnOps /\ tnReq' = [tnReq EXCEPT ![s] = Joined([at |-> "authorize", user |-> u], a)]
          /\ Authenticate(u)
    /\ UNCHANGED <<tnProj, tnProjDb, tnWorld, tnLog, tnTx>>

(* Authorize: the administrator everywhere, others within a project.       *)
Authorize(u, c, n) ==
    \/ u = Admin
    \/ u \in DOMAIN tnProj /\ \E p \in tnProj[u] :
          p[1] \in {"_all_clusters", c} /\ p[2] \in {"_all_namespaces", n}

InNamespace(r) == r.op \in {"createLimit", "deleteLimit"}

(* AddUser: the table first, which refuses a key it has, then the memory.  *)
AddUser(u, projects) ==
    \E c \in Commits : LET fresh == u \notin DOMAIN tnProjDb
                       IN /\ tnProjDb' = addUser(tnProjDb, u, projects, c)
                          /\ tnProj' = IF c.ok /\ fresh THEN Recorded(tnProj, u, projects) ELSE tnProj

(* authorizationHandler: a user the authorizer does not know is added, and *)
(* whether that works is not looked at.                                    *)
authorizationHandler(s) ==
    LET r == tnReq[s]
        pass == InNamespace(r) => Authorize(r.user, r.cluster, r.ns)
    IN /\ Is(s, "authorize")
       /\ IF r.user \in DOMAIN tnProj THEN UNCHANGED <<tnProj, tnProjDb>>
          ELSE Free /\ AddUser(r.user, {})
       /\ IF pass THEN GoesTo(s, "audit") ELSE Ends(s)
       /\ UNCHANGED <<tnPass, tnPassDb, tnWorld, tnLog, tnTx, tnCount>>

(**************************** The audit log ********************************)

(* Variant: the first id is advanced whether or not the entry is gone.     *)
TrimAnyway(s) ==
    /\ Is(s, "audit") /\ tnLog.lock = NoSlot /\ Free
    /\ IF tnLog.current - tnLog.first > TnMaxLogs - 2
       THEN \E c \in Commits :
              /\ tnLog' = [tnLog EXCEPT !.saved = IF c.there THEN @ \ {tnLog.first} ELSE @,
                                        !.first = @ + 1, !.lock = s]
              /\ GoesTo(s, "log")
       ELSE tnLog' = [tnLog EXCEPT !.lock = s] /\ GoesTo(s, "log")
    /\ UNCHANGED <<tnUserVars, tnWorld, tnTx, tnCount>>

(* DefaultDriver.Add under its lock: the oldest entry leaves a full log ... *)
Trim(s) ==
    /\ Is(s, "audit") /\ tnLog.lock = NoSlot /\ Free
    /\ IF tnLog.current - tnLog.first > TnMaxLogs - 2
       THEN \E c \in Commits :
              LET saved == IF c.there THEN tnLog.saved \ {tnLog.first} ELSE tnLog.saved
              IN IF c.ok THEN tnLog' = [tnLog EXCEPT !.saved = saved, !.first = @ + 1, !.lock = s] /\ GoesTo(s, "log")
                 ELSE tnLog' = [tnLog EXCEPT !.saved = saved] /\ Ends(s)
       ELSE tnLog' = [tnLog EXCEPT !.lock = s] /\ GoesTo(s, "log")
    /\ UNCHANGED <<tnUserVars, tnWorld, tnTx, tnCount>>

(* ... then the new one is added, unless its id is taken.  A request that  *)
(* cannot be logged is refused.                                            *)
AddLog(s) ==
    /\ Is(s, "log") /\ Free
    /\ \E c \in Commits :
          LET id == tnLog.current + 1
              taken == id \in tnLog.saved
          IN IF taken THEN tnLog' = [tnLog EXCEPT !.lock = NoSlot] /\ Ends(s)
             ELSE /\ tnLog' = [tnLog EXCEPT !.saved = IF c.there THEN @ \cup {id} ELSE @,
                                            !.current = IF c.ok THEN id ELSE @, !.lock = NoSlot]
                  /\ IF c.ok THEN GoesTo(s, "handle") ELSE Ends(s)
    /\ UNCHANGED <<tnUserVars, tnWorld, tnTx, tnCount>>

(******************************** Users ************************************)

Handles(s, op) == Is(s, "handle") /\ tnReq[s].op = op

(* Create: the authenticator's table and map, then the authorizer's.       *)
createUser(s) ==
    LET u == tnReq[s].about
    IN /\ Handles(s, "createUser") /\ Free
       /\ IF tnReq[s].user # Admin \/ u \in DOMAIN tnPass THEN Ends(s) /\ UNCHANGED <<tnPass, tnPassDb>>
          ELSE \E c \in Commits, p \in TnPasswords :
                 /\ AddPassword(u, p, c)
                 /\ IF c.ok /\ u \notin DOMAIN tnPassDb THEN GoesTo(s, "createUser") ELSE Ends(s)
       /\ UNCHANGED <<tnProj, tnProjDb, tnWorld, tnLog, tnTx, tnCount>>

authorizeUser(s) ==
    LET u == tnReq[s].about
    IN /\ Is(s, "createUser") /\ Free
       /\ IF u \in DOMAIN tnProj THEN UNCHANGED <<tnProj, tnProjDb>>
          ELSE AddUser(u, {})
       /\ Ends(s)
       /\ UNCHANGED <<tnPass, tnPassDb, tnWorld, tnLog, tnTx, tnCount>>

deleteUser(s) ==
    LET u == tnReq[s].about
    IN /\ Handles(s, "deleteUser") /\ Free
       /\ IF tnReq[s].user # Admin \/ u \notin DOMAIN tnPass THEN Ends(s) /\ UNCHANGED <<tnPass, tnPassDb>>
          ELSE \E c \in Commits :
                 /\ tnPassDb' = removeUser(tnPassDb, u, c)
                 /\ tnPass' = IF c.ok THEN Without(tnPass, u) ELSE tnPass
                 /\ IF c.ok THEN GoesTo(s, "deleteUser") ELSE Ends(s)
       /\ UNCHANGED <<tnProj, tnProjDb, tnWorld, tnLog, tnTx, tnCount>>

deauthorizeUser(s) ==
    LET u == tnReq[s].about
    IN /\ Is(s, "deleteUser") /\ Free
       /\ IF u \notin DOMAIN tnProj THEN UNCHANGED <<tnProj, tnProjDb>>
          ELSE \E c \in Commits :
                 /\ tnProjDb' = removeUser(tnProjDb, u, c)
                 /\ tnProj' = IF c.ok THEN Without(tnProj, u) ELSE tnProj
       /\ Ends(s)
       /\ UNCHANGED <<tnPass, tnPassDb, tnWorld, tnLog, tnTx, tnCount>>

(* ResetPassword: a user gives the old one, the administrator need not.    *)
ResetPassword(u, new, c) ==
    /\ tnPassDb' = saveUser(tnPassDb, u, new, c)
    /\ tnPass' = IF c.ok /\ u \in DOMAIN tnPassDb THEN [tnPass EXCEPT ![u] = new] ELSE tnPass

resetPassword(s) ==
    LET r == tnReq[s]
    IN /\ Handles(s, "resetPassword") /\ Free /\ Ends(s)
       /\ IF r.user \in DOMAIN tnPass /\ tnPass[r.user] = r.old
          THEN \E c \in Commits : ResetPassword(r.user, r.new, c)
          ELSE UNCHANGED <<tnPass, tnPassDb>>
       /\ UNCHANGED <<tnProj, tnProjDb, tnWorld, tnLog, tnTx, tnCount>>

(* Authorizer.UpdateUser: the memory first, then the table.                *)
UpdateUser(u, projects) ==
    IF u \notin DOMAIN tnProj THEN UNCHANGED <<tnProj, tnProjDb>>
    ELSE /\ tnProj' = [tnProj EXCEPT ![u] = projects]
         /\ \E c \in Commits : tnProjDb' = saveUser(tnProjDb, u, projects, c)

(* Update: the password if one is given, then the projects.                *)
updateUser(s) ==
    LET r == tnReq[s]
    IN /\ Handles(s, "updateUser") /\ Free /\ Ends(s)
       /\ IF r.user # Admin THEN UNCHANGED <<tnUserVars>>
          ELSE \/ UNCHANGED <<tnPass, tnPassDb>> /\ \E p \in SUBSET (TnClusters \X TnNamespaces) : UpdateUser(r.about, p)
               \/ /\ r.about \in DOMAIN tnPass
                  /\ \E c \in Commits, new \in TnPasswords :
                        /\ ResetPassword(r.about, new, c)
                        /\ IF c.ok /\ r.about \in DOMAIN tnPassDb THEN UpdateUser(r.about, {})
                           ELSE UNCHANGED <<tnProj, tnProjDb>>
       /\ UNCHANGED <<tnWorld, tnLog, tnTx, tnCount>>

(***************************** User quotas *********************************)

(* setUserQuota leaves the cluster the request names, if it names one.     *)
Processing(r) ==
    [status |-> "processing", user |-> r.user, storage |-> r.storage, cluster |-> r.cluster]

(* Create, Update and reject are one transaction each.                     *)
InTx(s, allowed, quota) ==
    /\ Free /\ Ends(s)
    /\ IF allowed THEN \E c \in Commits :
            tnQuota' = IF c.there THEN [tnQuota EXCEPT ![tnReq[s].ns] = quota] ELSE tnQuota
       ELSE UNCHANGED tnQuota
    /\ UNCHANGED <<tnUserVars, tnNs, tnTouched, tnLog, tnTx, tnCount>>

createQuota(s) ==
    /\ Handles(s, "createQuota")
    /\ InTx(s, tnQuota[tnReq[s].ns] = NoQuota, Processing(tnReq[s]))

(* Update: by its owner, not while it is processed, for the same cluster.  *)
updateQuota(s) ==
    LET q == tnQuota[tnReq[s].ns]
    IN /\ Handles(s, "updateQuota")
       /\ InTx(s, q # NoQuota /\ q.user = tnReq[s].user /\ q.status # "processing" /\ q.cluster = tnReq[s].cluster,
               Processing(tnReq[s]))

reject(s) ==
    LET q == tnQuota[tnReq[s].ns]
    IN /\ Handles(s, "reject")
       /\ InTx(s, tnReq[s].user = Admin /\ q.status = "processing",
               [q EXCEPT !.status = "rejection"])

Kept == UNCHANGED <<tnUserVars, tnQuota, tnLog, tnCount>>

(* Calls to a cluster; those about an approval are not touches of others.  *)
SetNs(c, n, limit) == tnNs' = [tnNs EXCEPT ![c][n] = limit]

(* The transaction is this request's, or nobody's.                         *)
Mine(s) == tnTx \in {s, NoSlot}
Leaves(s) == Ends(s) /\ tnTx' = NoSlot

Begins(s, tx) ==
    LET r == tnReq[s]
        q == tnQuota[r.ns]
    IN IF r.user # Admin \/ q.status # "processing" THEN Ends(s) /\ UNCHANGED <<tnTx, tnTouched>>
       ELSE /\ tnReq' = [tnReq EXCEPT ![s] = Joined([at |-> IF tnNs[r.cluster][r.ns] = Gone THEN "namespace" ELSE "relimit",
                                                      quota |-> q, old |-> tnNs[r.cluster][r.ns]], r)]
            /\ tnTx' = tx /\ tnTouched' = tnTouched \ {<<r.cluster, r.ns>>}

(* Variant: the quota is read outside the transaction that changes it.     *)
beginApprovalUnlocked(s) == Handles(s, "approval") /\ Free /\ Begins(s, NoSlot) /\ Kept /\ UNCHANGED tnNs

(* approval: a quota that is processed, and whether the cluster has its    *)
(* namespace; the transaction stays open.                                  *)
beginApproval(s) == Handles(s, "approval") /\ Free /\ Begins(s, s) /\ Kept /\ UNCHANGED tnNs

(* createNamespace, then createResourceQuota and, if that fails, an        *)
(* attempt to delete the namespace.                                        *)
grantNamespace(s) ==
    LET r == tnReq[s]
    IN /\ Is(s, "namespace")
       /\ \/ tnNs[r.cluster][r.ns] = Gone /\ SetNs(r.cluster, r.ns, Unlimited) /\ GoesTo(s, "limit") /\ UNCHANGED tnTx
          \/ Leaves(s) /\ UNCHANGED tnNs
       /\ Kept /\ UNCHANGED tnTouched

grantLimit(s) ==
    LET r == tnReq[s]
    IN /\ Is(s, "limit")
       /\ \/ /\ tnNs[r.cluster][r.ns] = Unlimited
             /\ SetNs(r.cluster, r.ns, r.quota.storage) /\ GoesTo(s, "commit") /\ UNCHANGED tnTx
          \/ Leaves(s) /\ (SetNs(r.cluster, r.ns, Gone) \/ UNCHANGED tnNs)
       /\ Kept /\ UNCHANGED tnTouched

(* updateResourceQuota needs the resource quota named after the namespace. *)
updateResourceQuota(s) ==
    LET r == tnReq[s]
    IN /\ Is(s, "relimit")
       /\ \/ /\ tnNs[r.cluster][r.ns] > Unlimited
             /\ SetNs(r.cluster, r.ns, r.quota.storage) /\ GoesTo(s, "commit") /\ UNCHANGED tnTx
          \/ Leaves(s) /\ UNCHANGED tnNs
       /\ Kept /\ UNCHANGED tnTouched

(* The quota belongs to the cluster of this approval from now on.          *)
commitApproval(s) ==
    LET r == tnReq[s]
    IN /\ Is(s, "commit") /\ Mine(s) /\ tnTx' = NoSlot
       /\ \E c \in Commits :
            /\ tnQuota' = IF c.there THEN [tnQuota EXCEPT ![r.ns] = [r.quota EXCEPT !.status = "approval", !.cluster = r.cluster]]
                          ELSE tnQuota
            /\ IF ~c.ok THEN GoesTo(s, "rollback")
               ELSE IF r.old = Gone THEN GoesTo(s, "grantProject") ELSE Ends(s)
       /\ UNCHANGED <<tnUserVars, tnNs, tnTouched, tnLog, tnCount>>

(* rollbackResource: the namespace is deleted, or its old limit put back.  *)
rollbackResource(s) ==
    LET r == tnReq[s]
    IN /\ Is(s, "rollback") /\ Ends(s)
       /\ \/ r.old = Gone /\ SetNs(r.cluster, r.ns, Gone)
          \/ r.old # Gone /\ tnNs[r.cluster][r.ns] > Unlimited /\ SetNs(r.cluster, r.ns, r.old)
          \/ UNCHANGED tnNs
       /\ tnTouched' = tnTouched \cup {<<r.cluster, r.ns>>}
       /\ Kept /\ UNCHANGED tnTx

(* After the transaction: the projects of the owner are read, and written  *)
(* back with one more or one less.                                         *)
getProjects(s) ==
    LET r == tnReq[s]
        u == r.quota.user
        grants == Is(s, "grantProject")
        p == <<IF grants THEN r.cluster ELSE r.quota.cluster, r.ns>>
    IN /\ grants \/ Is(s, "dropProject")
       /\ IF u \notin DOMAIN tnProj THEN Ends(s)
          ELSE tnReq' = [tnReq EXCEPT ![s] = [at |-> "saveProjects", user |-> u,
                           projects |-> IF grants THEN tnProj[u] \cup {p} ELSE tnProj[u] \ {p}]]
       /\ UNCHANGED <<tnUserVars, tnWorld, tnLog, tnTx, tnCount>>

saveProjects(s) ==
    /\ Is(s, "saveProjects") /\ Free /\ Ends(s)
    /\ UpdateUser(tnReq[s].user, tnReq[s].projects)
    /\ UNCHANGED <<tnPass, tnPassDb, tnWorld, tnLog, tnTx, tnCount>>

(* Delete: by its owner or the administrator, not while it is processed.   *)
beginDelete(s) ==
    LET r == tnReq[s]
        q == tnQuota[r.ns]
    IN /\ Handles(s, "deleteQuota") /\ Free
       /\ IF q.status \in {"none", "processing"} \/ r.user \notin {Admin, q.user} THEN Ends(s) /\ UNCHANGED tnTx
          ELSE /\ tnReq' = [tnReq EXCEPT ![s] = Joined([at |-> IF q.cluster = "" THEN "forget" ELSE "unnamespace", quota |-> q], r)]
               /\ tnTx' = s
       /\ UNCHANGED <<tnUserVars, tnWorld, tnLog, tnCount>>

(* The namespace goes first, also when it is gone already ...              *)
dropNamespace(s) ==
    LET r == tnReq[s]
    IN /\ Is(s, "unnamespace")
       /\ \/ SetNs(r.quota.cluster, r.ns, Gone) /\ GoesTo(s, "forget") /\ UNCHANGED tnTx
          \/ Leaves(s) /\ UNCHANGED tnNs
       /\ Kept /\ UNCHANGED tnTouched

(* ... then the quota.                                                     *)
commitDelete(s) ==
    LET r == tnReq[s]
    IN /\ Is(s, "forget") /\ tnTx = s /\ tnTx' = NoSlot
       /\ \E c \in Commits :
            /\ tnQuota' = IF c.there THEN [tnQuota EXCEPT ![r.ns] = NoQuota] ELSE tnQuota
            /\ IF c.ok /\ r.quota.cluster # "" THEN GoesTo(s, "dropProject") ELSE Ends(s)
       /\ UNCHANGED <<tnUserVars, tnNs, tnTouched, tnLog, tnCount>>

(********************* Namespaces and resource quotas **********************)

Touch(c, n, limit) == SetNs(c, n, limit) /\ tnTouched' = tnTouched \cup {<<c, n>>}
Outside(s) == Kept /\ UNCHANGED tnTx

createNamespace(s) ==
    LET r == tnReq[s]
    IN /\ Handles(s, "createNamespace") /\ Ends(s) /\ Outside(s)
       /\ IF r.user = Admin /\ tnNs[r.cluster][r.ns] = Gone
          THEN Touch(r.cluster, r.ns, Unlimited) \/ UNCHANGED <<tnNs, tnTouched>>
          ELSE UNCHANGED <<tnNs, tnTouched>>

(* Delete: the table of user quotas is looked up in a transaction of its   *)
(* own; a namespace that is in it is refused ...                           *)
isExistsInUserQuotaTable(s) ==
    LET r == tnReq[s]
    IN /\ Handles(s, "deleteNamespace") /\ Free
       /\ IF r.user = Admin /\ tnQuota[r.ns] = NoQuota THEN GoesTo(s, "deleteNamespace") ELSE Ends(s)
       /\ UNCHANGED <<tnUserVars, tnWorld, tnLog, tnTx, tnCount>>

(* ... and deleted afterwards.                                             *)
deleteNamespace(s) ==
    /\ Is(s, "deleteNamespace") /\ Ends(s) /\ Outside(s)
    /\ Touch(tnReq[s].cluster, tnReq[s].ns, Gone) \/ UNCHANGED <<tnNs, tnTouched>>

createResourceQuota(s) ==
    LET r == tnReq[s]
    IN /\ Handles(s, "createLimit") /\ Ends(s) /\ Outside(s)
       /\ \/ tnNs[r.cluster][r.ns] = Unlimited /\ \E l \in TnStorage : Touch(r.cluster, r.ns, l)
          \/ UNCHANGED <<tnNs, tnTouched>>

deleteResourceQuota(s) ==
    LET r == tnReq[s]
    IN /\ Handles(s, "deleteLimit") /\ Ends(s) /\ Outside(s)
       /\ \/ tnNs[r.cluster][r.ns] > Unlimited /\ Touch(r.cluster, r.ns, Unlimited)
          \/ UNCHANGED <<tnNs, tnTouched>>

loadPasswords == WithAdmin(tnPassDb, CHOOSE p \in TnPasswords : TRUE)
loadProjects == WithAdmin(tnProjDb, AllProjects)

(* initDB: the first and the current id are those of the saved entries.    *)
initDB ==
    IF tnLog.saved = {} THEN [saved |-> {}, first |-> 0, current |-> 0, lock |-> NoSlot]
    ELSE [saved |-> tnLog.saved, lock |-> NoSlot,
          first |-> CHOOSE i \in tnLog.saved : \A j \in tnLog.saved : i <= j,
          current |-> CHOOSE i \in tnLog.saved : \A j \in tnLog.saved : i >= j]

(* The process is started again.                                           *)
Restart ==
    /\ tnCount < TnRequests /\ tnCount' = tnCount + 1
    /\ tnReq' = [s \in TnSlots |-> TnIdle] /\ tnTx' = NoSlot
    /\ tnPass' = loadPasswords /\ tnPassDb' = loadPasswords
    /\ tnProj' = loadProjects /\ tnProjDb' = loadProjects
    /\ tnLog' = initDB
    /\ UNCHANGED tnWorld

TnStep(s) ==
    \/ Arrives(s) \/ authorizationHandler(s) \/ Trim(s) \/ AddLog(s)
    \/ createUser(s) \/ authorizeUser(s) \/ deleteUser(s) \/ deauthorizeUser(s)
    \/ resetPassword(s) \/ updateUser(s)
    \/ createQuota(s) \/ updateQuota(s) \/ reject(s)
    \/ beginApproval(s) \/ grantNamespace(s) \/ grantLimit(s) \/ updateResourceQuota(s)
    \/ commitApproval(s) \/ rollbackResource(s) \/ getProjects(s) \/ saveProjects(s)
    \/ beginDelete(s) \/ dropNamespace(s) \/ commitDelete(s)
    \/ createNamespace(s) \/ isExistsInUserQuotaTable(s) \/ deleteNamespace(s)
    \/ createResourceQuota(s) \/ deleteResourceQuota(s)

TnNext == Restart \/ \E s \in TnSlots : TnStep(s)

TnSpec == TnInit /\ [][TnNext]_tnVars

(***************************** Properties **********************************)

(* What a step of an approval may do.                                      *)
TnAsAsked ==
    \A n \in TnNamespaces :
        tnQuota'[n].status = "approval" /\ tnQuota[n].status # "approval"
        => /\ tnQuota[n].status = "processing"
           /\ LET c == tnQuota'[n].cluster
              IN <<c, n>> \in tnTouched \/ tnNs[c][n] = tnQuota[n].storage

(* Only a quota that is being processed is approved, and at that moment    *)
(* its cluster limits the namespace to the storage the owner asked for,    *)
(* unless the namespace was changed by another request since the approval  *)
(* began: approval keeps its transaction open over the calls to the        *)
(* cluster.                                                                *)
TnApprovedAsAsked == [][TnAsAsked]_tnVars

(* The audit log in the table is a run of consecutive entries, never more  *)
(* than the maximum, that ends with the newest one; failures and restarts  *)
(* between dropping the oldest entry and adding the new one leave no hole. *)
TnLogKept ==
    /\ \A i, j \in tnLog.saved : j - i < TnMaxLogs /\ \A k \in i .. j : k \in tnLog.saved
    /\ tnLog.saved # {} => \E i \in tnLog.saved : i >= tnLog.current
    /\ \A i \in tnLog.saved : i \in tnLog.first .. tnLog.current + 1
=============================================================================
