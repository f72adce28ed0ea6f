------------------------------ MODULE Workflows ------------------------------
(***************************************************************************)
(* Continuous delivery: the handlers of workflows and of their tasks.  A   *)
(* workflow is a pipeline resource, one or two secrets, a service account  *)
(* that names them and an entry for that account in the one cluster role   *)
(* binding all workflows share; a task is a pipeline run, and the pipeline *)
(* resource remembers the latest.  Tekton (external) runs the tasks.       *)
(* Requests run at the same time and any call may fail.  An object that is *)
(* read and updated in one function is one step: its Update fails when the *)
(* object has changed; for the shared binding the two calls are steps.     *)
(***************************************************************************)
EXTENDS Naturals, FiniteSets

CONSTANTS
    CiNames, CiSlots, CiOps,
    CiStarts,       \* sets of workflows that exist at the start
    CiRequests,     \* bound: requests
    CiTekton        \* bound: changes by Tekton

(* The workflows found are among the names, and a request asks for one of  *)
(* the operations the API has.                                             *)
CiSetting ==
  /\ \A start \in CiStarts : start \subseteq CiNames
  /\ CiOps \subseteq {"create", "update", "delete", "empty", "task"}
ASSUME CiAssumption == CiSetting

VARIABLES
    ciRes,          \* name -> pipeline resource
    ciSecrets,      \* secrets: [wf, kind, id]
    ciSa,           \* name -> ids of the secrets its service account names
    ciBound,        \* subjects of the cluster role binding
    ciDeploys,      \* deployments
    ciRuns,         \* pipeline runs: [wf, id, status, tasks]
    ciReq, ciCount, ciTekton,
    ciMade          \* workflows created and not asked about since

ciVars == <<ciRes, ciSecrets, ciSa, ciBound, ciDeploys, ciRuns, ciReq, ciCount, ciTekton, ciMade>>
ciObjs == <<ciRes, ciSecrets, ciSa, ciBound, ciDeploys, ciRuns>>

CiNone == [is |-> "none"]
CiIdle == [at |-> "idle"]
Res(git, auto, latest) == [is |-> "resource", git |-> git, auto |-> auto, latest |-> latest]
Secret(n, kind, id) == [wf |-> n, kind |-> kind, id |-> id]

(* Every start has workflows without a Git secret; ids are numbers.        *)
CiInit ==
    \E start \in CiStarts :
       /\ ciRes = [n \in CiNames |-> IF n \in start THEN Res(FALSE, TRUE, 0) ELSE CiNone]
       /\ ciSecrets = {Secret(n, "docker", 0) : n \in start}
       /\ ciSa = [n \in CiNames |-> IF n \in start THEN {<<"docker", 0>>} ELSE {}]
       /\ ciBound = start /\ ciDeploys = {} /\ ciRuns = {} /\ ciMade = start
       /\ ciReq = [s \in CiSlots |-> CiIdle] /\ ciCount = 0 /\ ciTekton = 0

CiAt(s, label) == ciReq[s].at = label
CiGoes(s, label) == ciReq' = [ciReq EXCEPT ![s].at = label]
CiEnds(s) == ciReq' = [ciReq EXCEPT ![s] = CiIdle]
CiFrame == UNCHANGED <<ciCount, ciTekton, ciMade>>

SecretsOf(n) == {x \in ciSecrets : x.wf = n}

(* Any request about a workflow may leave it half changed.  A request that *)
(* is alone finds nothing of the name and meets no other about it.         *)
CiArrives(s) ==
    /\ ciReq[s] = CiIdle /\ ciCount < CiRequests /\ ciCount' = ciCount + 1
    /\ \E op \in CiOps, n \in CiNames, git \in BOOLEAN :
          /\ op \notin {"create", "update"} => ~git
          /\ LET same == {t \in CiSlots : ciReq[t] # CiIdle /\ ciReq[t].name = n}
             IN ciReq' = [t \in CiSlots |->
                   IF t = s THEN [at |-> op, op |-> op, name |-> n, git |-> git, id |-> ciCount + 1, created |-> {},
                                  alone |-> same = {} /\ SecretsOf(n) = {}]
                   ELSE IF t \in same THEN [ciReq[t] EXCEPT !.alone = FALSE] ELSE ciReq[t]]
          /\ ciMade' = ciMade \ {n}
    /\ UNCHANGED <<ciObjs, ciTekton>>

(****************************** Create *************************************)

(* preCheckDeploymentExist: the name of the deployment is free.            *)
preCheckDeploymentExist(s) ==
    /\ CiAt(s, "create")
    /\ \/ ciReq[s].name \notin ciDeploys /\ CiGoes(s, IF ciReq[s].git THEN "git" ELSE "docker")
       \/ CiEnds(s)
    /\ UNCHANGED ciObjs /\ CiFrame

(* A secret with a random name: genWorkFlowGitSecret, -DockerSecret.       *)
Creates(s, kind, next, fail) ==
    LET r == ciReq[s] IN
    \/ /\ ciSecrets' = ciSecrets \cup {Secret(r.name, kind, r.id)}
       /\ ciReq' = [ciReq EXCEPT ![s].at = next, ![s].created = @ \cup {kind}]
    \/ UNCHANGED ciSecrets /\ IF fail = "" THEN CiEnds(s) ELSE CiGoes(s, fail)

createGitSecret(s) ==
    /\ CiAt(s, "git") /\ Creates(s, "git", "docker", "")
    /\ UNCHANGED <<ciRes, ciSa, ciBound, ciDeploys, ciRuns>> /\ CiFrame

createDockerSecret(s) ==
    /\ CiAt(s, "docker") /\ Creates(s, "docker", "account", "failBack")
    /\ UNCHANGED <<ciRes, ciSa, ciBound, ciDeploys, ciRuns>> /\ CiFrame

(* genWorkFlowServiceAccount: named after the workflow.                    *)
createServiceAccount(s) ==
    LET r == ciReq[s]
    IN /\ CiAt(s, "account")
       /\ \/ /\ ciSa[r.name] = {}
             /\ ciSa' = [ciSa EXCEPT ![r.name] = {<<kind, r.id>> : kind \in r.created}]
             /\ ciReq' = [ciReq EXCEPT ![s].at = "bind", ![s].created = @ \cup {"account"}]
          \/ CiGoes(s, "failBack") /\ UNCHANGED ciSa
       /\ UNCHANGED <<ciRes, ciSecrets, ciBound, ciDeploys, ciRuns>> /\ CiFrame

(* A request that remembers what it has read or prepared.                  *)
Noting(r, field, value) == [x \in DOMAIN r \cup {field} |-> IF x = field THEN value ELSE r[x]]

(* The binding is read, and written with one more or one less.             *)
getBinding(s) ==
    /\ ciReq[s].at \in {"bind", "unbind", "unbindFailBack"}
    /\ ciReq' = [ciReq EXCEPT ![s] = Noting(@, "read", ciBound)]
    /\ "read" \notin DOMAIN ciReq[s]
    /\ UNCHANGED ciObjs /\ CiFrame

Forgot(r) == [x \in DOMAIN r \ {"read"} |-> r[x]]
Subjects(r) == IF r.at = "bind" THEN r.read \cup {r.name} ELSE r.read \ {r.name}

WritesBinding(s, fresh) ==
    LET r == ciReq[s]
        Next(label) == ciReq' = [ciReq EXCEPT ![s] = [Forgot(r) EXCEPT !.at = label]]
    IN /\ r.at \in {"bind", "unbind", "unbindFailBack"} /\ "read" \in DOMAIN r
       /\ \/ /\ fresh /\ ciBound' = Subjects(r)
             /\ CASE r.at = "bind" -> Next("resource")
                  [] r.at = "unbind" -> Next("dropAccount")
                  [] r.at = "unbindFailBack" -> CiEnds(s)
          \/ /\ UNCHANGED ciBound
             /\ IF r.at = "bind" THEN Next("failBack") ELSE CiEnds(s)
       /\ UNCHANGED <<ciRes, ciSecrets, ciSa, ciDeploys, ciRuns>> /\ CiFrame

(* Variant: the binding is written whatever happened to it meanwhile.      *)
updateBindingBlindly(s) == WritesBinding(s, TRUE)

(* addWorkFlowSaToCRB, deleteWorkFlowSaFromCRB: the update of a binding    *)
(* that has changed since it was read is refused.                          *)
updateBinding(s) == WritesBinding(s, ciReq[s].read = ciBound)

(* genGitPipelineResource: the workflow itself.                            *)
createResource(s) ==
    LET r == ciReq[s]
    IN /\ CiAt(s, "resource")
       /\ \/ /\ ciRes[r.name] = CiNone
             /\ ciRes' = [ciRes EXCEPT ![r.name] = Res(r.git, TRUE, 0)]
             /\ ciMade' = IF r.alone THEN ciMade \cup {r.name} ELSE ciMade
             /\ CiEnds(s)
          \/ CiGoes(s, "failBack") /\ UNCHANGED <<ciRes, ciMade>>
       /\ UNCHANGED <<ciSecrets, ciSa, ciBound, ciDeploys, ciRuns, ciCount, ciTekton>>

(* workFlowCreateFailBack: what was created is deleted, each attempt may   *)
(* fail, and the workflow's name leaves the binding in any case.           *)
workFlowCreateFailBack(s) ==
    LET r == ciReq[s]
    IN /\ CiAt(s, "failBack")
       /\ \E gone \in SUBSET r.created :
             /\ ciSecrets' = {x \in ciSecrets : ~(x.wf = r.name /\ x.id = r.id /\ x.kind \in gone)}
             /\ ciSa' = IF "account" \in gone THEN [ciSa EXCEPT ![r.name] = {}] ELSE ciSa
       /\ CiGoes(s, "unbindFailBack")
       /\ UNCHANGED <<ciRes, ciBound, ciDeploys, ciRuns>> /\ CiFrame

(**************************** Reading a workflow ***************************)

RunsOf(n) == {run \in ciRuns : run.wf = n}

(* getWorkFlow: also the latest task has to be there.                      *)
getWorkFlow(n) ==
    ciRes[n] # CiNone /\ (ciRes[n].latest # 0 => \E run \in ciRuns : run.id = ciRes[n].latest)

(******************************* Update ************************************)

updateWorkFlow(s) ==
    /\ CiAt(s, "update")
    /\ \/ getWorkFlow(ciReq[s].name) /\ CiGoes(s, "secrets")
       \/ CiEnds(s)
    /\ UNCHANGED ciObjs /\ CiFrame

(* updateWorkFlowSecrets: by their number.  Of two, that for Git goes when *)
(* there are no credentials any more; to one, it is added.                 *)
updateWorkFlowSecrets(s) ==
    LET r == ciReq[s]
        mine == SecretsOf(r.name)
        gits == {x \in mine : x.kind = "git"}
    IN /\ CiAt(s, "secrets")
       /\ \/ CiEnds(s) /\ UNCHANGED ciSecrets
          \/ /\ Cardinality(mine) = 2 /\ ~r.git
             /\ \E g \in gits \cup {Secret(r.name, "none", 0)} :
                  /\ (g.kind = "none") = (gits = {})
                  /\ ciSecrets' = ciSecrets \ {g}
                  /\ ciReq' = [ciReq EXCEPT ![s].at = "leaveAccount", ![s].id = g.id]
          \/ /\ Cardinality(mine) = 1 /\ r.git
             /\ ciSecrets' = ciSecrets \cup {Secret(r.name, "git", r.id)} /\ CiGoes(s, "joinAccount")
          \/ /\ ~(Cardinality(mine) = 2 /\ ~r.git) /\ ~(Cardinality(mine) = 1 /\ r.git)
             /\ CiGoes(s, "updateResource") /\ UNCHANGED ciSecrets
       /\ UNCHANGED <<ciRes, ciSa, ciBound, ciDeploys, ciRuns>> /\ CiFrame

(* addSecretToWorkFlowSA, deleteSecretFromWorkFlowSA.                      *)
updateAccount(s) ==
    LET r == ciReq[s]
        joins == CiAt(s, "joinAccount")
    IN /\ joins \/ CiAt(s, "leaveAccount")
       /\ \/ /\ ciSa[r.name] # {}
             /\ ciSa' = [ciSa EXCEPT ![r.name] = IF joins THEN @ \cup {<<"git", r.id>>} ELSE @ \ {<<"git", r.id>>}]
             /\ CiGoes(s, "updateResource")
          \/ CiEnds(s) /\ UNCHANGED ciSa
       /\ UNCHANGED <<ciRes, ciSecrets, ciBound, ciDeploys, ciRuns>> /\ CiFrame

(* updateGitPipelineResource: the annotations are replaced, that of the    *)
(* latest task is lost.                                                    *)
updateGitPipelineResource(s) ==
    LET r == ciReq[s]
    IN /\ CiAt(s, "updateResource") /\ CiEnds(s)
       /\ \/ ciRes[r.name] # CiNone /\ ciRes' = [ciRes EXCEPT ![r.name] = Res(r.git, @.auto, 0)]
          \/ UNCHANGED ciRes
       /\ UNCHANGED <<ciSecrets, ciSa, ciBound, ciDeploys, ciRuns>> /\ CiFrame

(******************************** Delete ***********************************)

(* emptyWorkFlowTask, by itself or before a deletion: the latest task is   *)
(* forgotten ...                                                           *)
forgetLatest(s) ==
    LET r == ciReq[s]
    IN /\ ciReq[s].at \in {"empty", "delete"}
       /\ \/ /\ ciRes[r.name] # CiNone /\ ciRes' = [ciRes EXCEPT ![r.name].latest = 0]
             /\ CiGoes(s, "deleteRuns")
          \/ CiEnds(s) /\ UNCHANGED ciRes
       /\ UNCHANGED <<ciSecrets, ciSa, ciBound, ciDeploys, ciRuns>> /\ CiFrame

(* ... and the runs are deleted, up to one that cannot be.                 *)
deletePipelineRunsByWorkFlowName(s) ==
    LET r == ciReq[s]
    IN /\ CiAt(s, "deleteRuns")
       /\ \/ /\ ciRuns' = ciRuns \ RunsOf(r.name)
             /\ IF r.op = "delete" THEN CiGoes(s, "dropResource") ELSE CiEnds(s)
          \/ \E gone \in SUBSET RunsOf(r.name) : ciRuns' = ciRuns \ gone /\ CiEnds(s)
       /\ UNCHANGED <<ciRes, ciSecrets, ciSa, ciBound, ciDeploys>> /\ CiFrame

(* deleteWorkFlow: the resource, the binding, the account, the secrets and *)
(* the deployment; the first failure ends it.                              *)
deletePipelineResource(s) ==
    LET r == ciReq[s]
    IN /\ CiAt(s, "dropResource")
       /\ \/ ciRes[r.name] # CiNone /\ ciRes' = [ciRes EXCEPT ![r.name] = CiNone] /\ CiGoes(s, "unbind")
          \/ CiEnds(s) /\ UNCHANGED ciRes
       /\ UNCHANGED <<ciSecrets, ciSa, ciBound, ciDeploys, ciRuns>> /\ CiFrame

deleteServiceAccount(s) ==
    LET r == ciReq[s]
    IN /\ CiAt(s, "dropAccount")
       /\ \/ ciSa[r.name] # {} /\ ciSa' = [ciSa EXCEPT ![r.name] = {}] /\ CiGoes(s, "dropSecrets")
          \/ CiEnds(s) /\ UNCHANGED ciSa
       /\ UNCHANGED <<ciRes, ciSecrets, ciBound, ciDeploys, ciRuns>> /\ CiFrame

deleteWorkFlowSecrets(s) ==
    /\ CiAt(s, "dropSecrets")
    /\ \/ ciSecrets' = ciSecrets \ SecretsOf(ciReq[s].name) /\ CiGoes(s, "dropDeployment")
       \/ \E gone \in SUBSET SecretsOf(ciReq[s].name) : ciSecrets' = ciSecrets \ gone /\ CiEnds(s)
    /\ UNCHANGED <<ciRes, ciSa, ciBound, ciDeploys, ciRuns>> /\ CiFrame

deleteWorkFlowDeploymentAndPVCs(s) ==
    /\ CiAt(s, "dropDeployment") /\ CiEnds(s)
    /\ ciDeploys' \in {ciDeploys, ciDeploys \ {ciReq[s].name}}
    /\ UNCHANGED <<ciRes, ciSecrets, ciSa, ciBound, ciRuns>> /\ CiFrame

(******************************** Tasks ************************************)

(* IsNoCompleteTaskExists: a run that Tekton has not seen yet has no       *)
(* status.                                                                 *)
IsNoCompleteTaskExists(n) == \E run \in RunsOf(n) : run.status \in {"Running", "Pending"}

genPipelineTasks(n) == IF ciRes[n].auto THEN {"build", "deploy"} ELSE {"build"}
genPipelineRun(n, id) == [wf |-> n, id |-> id, status |-> "", tasks |-> genPipelineTasks(n)]

createWorkFlowTask(s) ==
    LET r == ciReq[s]
    IN /\ CiAt(s, "task")
       /\ \/ /\ getWorkFlow(r.name) /\ ~IsNoCompleteTaskExists(r.name)
             /\ ciReq' = [ciReq EXCEPT ![s] = Noting([r EXCEPT !.at = "run"], "run", genPipelineRun(r.name, r.id))]
          \/ CiEnds(s)
       /\ UNCHANGED ciObjs /\ CiFrame

createPipelineRun(s) ==
    /\ CiAt(s, "run")
    /\ \/ ciRuns' = ciRuns \cup {ciReq[s].run} /\ CiGoes(s, "latest")
       \/ CiEnds(s) /\ UNCHANGED ciRuns
    /\ UNCHANGED <<ciRes, ciSecrets, ciSa, ciBound, ciDeploys>> /\ CiFrame

updateWorkFlowLastestIDAnnotation(s) ==
    LET r == ciReq[s]
    IN /\ CiAt(s, "latest") /\ CiEnds(s)
       /\ \/ ciRes[r.name] # CiNone /\ ciRes' = [ciRes EXCEPT ![r.name].latest = r.id]
          \/ UNCHANGED ciRes
       /\ UNCHANGED <<ciSecrets, ciSa, ciBound, ciDeploys, ciRuns>> /\ CiFrame

(* Tekton runs a task; one that deploys makes the deployment.              *)
Tekton ==
    /\ ciTekton < CiTekton /\ ciTekton' = ciTekton + 1
    /\ \E run \in ciRuns :
         \/ run.status = "" /\ ciRuns' = (ciRuns \ {run}) \cup {[run EXCEPT !.status = "Running"]} /\ UNCHANGED ciDeploys
         \/ /\ run.status = "Running"
            /\ ciRuns' = (ciRuns \ {run}) \cup {[run EXCEPT !.status = "Succeeded"]}
            /\ ciDeploys' = IF "deploy" \in run.tasks THEN ciDeploys \cup {run.wf} ELSE ciDeploys
    /\ UNCHANGED <<ciRes, ciSecrets, ciSa, ciBound, ciReq, ciCount, ciMade>>

CiStep(s) ==
    \/ CiArrives(s) \/ preCheckDeploymentExist(s) \/ createGitSecret(s) \/ createDockerSecret(s)
    \/ createServiceAccount(s) \/ getBinding(s) \/ updateBinding(s) \/ createResource(s)
    \/ workFlowCreateFailBack(s) \/ updateWorkFlow(s) \/ updateWorkFlowSecrets(s) \/ updateAccount(s)
    \/ updateGitPipelineResource(s) \/ forgetLatest(s) \/ deletePipelineRunsByWorkFlowName(s)
    \/ deletePipelineResource(s) \/ deleteServiceAccount(s) \/ deleteWorkFlowSecrets(s)
    \/ deleteWorkFlowDeploymentAndPVCs(s) \/ createWorkFlowTask(s) \/ createPipelineRun(s)
    \/ updateWorkFlowLastestIDAnnotation(s)

CiNext == Tekton \/ \E s \in CiSlots : CiStep(s)

CiSpec == CiInit /\ [][CiNext]_ciVars

(***************************** Properties **********************************)

(* A workflow that was created, and that no request has been about since,  *)
(* is complete whatever happens to others at the same time: its account is *)
(* bound, names exactly its secrets and one of them is for the registry.   *)
(* The binding is one object that all workflows read and write back.       *)
CiComplete ==
    \A n \in ciMade :
       /\ ciRes[n] # CiNone /\ n \in ciBound
       /\ ciSa[n] = {<<x.kind, x.id>> : x \in SecretsOf(n)}
       /\ \E x \in SecretsOf(n) : x.kind = "docker"
=============================================================================
