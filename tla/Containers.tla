----------------------------- MODULE Containers -----------------------------
(***************************************************************************)
(* The containers of one host as zke drives them: zke/pkg/docker/docker.go *)
(* with its users that run helper containers (sidekick, certificate and    *)
(* state deployers, log links, log cleaner, host cleaner).                 *)
(*                                                                         *)
(* A task is a sequence of instructions.  An instruction makes one call of *)
(* the Docker API and is replaced by the instructions the code runs next;  *)
(* an instruction that returns an error ends the task.  Any call may fail, *)
(* before or after its effect, and the leftovers of broken tasks are what  *)
(* later tasks find.  One task runs at a time on a host: a cluster has one *)
(* worker (ClusterManager, SingleWorker).                                  *)
(***************************************************************************)
EXTENDS Naturals, Sequences, FiniteSets

CONSTANTS
  CtConfigs,   \* processes: [image, args, rest]; rest is what no check compares
  CtTasks,     \* how many tasks a behaviour runs
  CtFaults     \* how many calls may fail

VARIABLES
  ctBox,     \* container name -> NoBox or [conf, st]
  ctImages,  \* images present on the host
  ctTask,    \* the running task
  ctLeft     \* [tasks, faults] still to come

ctVars == <<ctBox, ctImages, ctTask, ctLeft>>

NoBox == [st |-> "none"]
Services == {"proc"}
Helpers == {"sidekick", "deployer", "job", "remover", "cleaner"}
Old(n) == "old-proc"
BoxNames == Services \cup Helpers \cup {"old-proc"}

CtThere(n) == ctBox[n].st # "none"
CtUp(n) == ctBox[n].st \in {"running", "restarting"}

(* An instruction's outcome: the containers and images after it, the       *)
(* instructions it turns into, and whether it returned an error.           *)
Outcome(box, images, todo, err) ==
  [box |-> box, images |-> images, todo |-> todo, err |-> err]
Turns(todo) == Outcome(ctBox, ctImages, todo, FALSE)
Errs == Outcome(ctBox, ctImages, <<>>, TRUE)
Puts(n, b) == Outcome([ctBox EXCEPT ![n] = b], ctImages, <<>>, FALSE)
I(fn, n) == [fn |-> fn, name |-> n]

(* What an image name resolves to is pulled whole; the registry's          *)
(* credentials only decide whether the pull fails.                         *)
UseLocalOrPull(c) == Outcome(ctBox, ctImages \cup {c.image}, <<>>, FALSE)

CreateContainer(n, c) ==
  IF CtThere(n) \/ c.image \notin ctImages THEN Errs
  ELSE Puts(n, [conf |-> c, st |-> "created"])

StartContainer(n) ==
  IF CtThere(n) THEN Puts(n, [ctBox[n] EXCEPT !.st = "running"]) ELSE Errs

StopContainer(n) ==
  IF CtThere(n) THEN Puts(n, [ctBox[n] EXCEPT !.st = "exited"]) ELSE Errs

RestartContainer(n) == StartContainer(n)

RemoveContainer(n) == IF CtThere(n) THEN Puts(n, NoBox) ELSE Errs

RenameContainer(n, m) ==
  IF ~CtThere(n) \/ CtThere(m) THEN Errs
  ELSE Outcome([ctBox EXCEPT ![n] = NoBox, ![m] = ctBox[n]], ctImages, <<>>, FALSE)

IsContainerRunning(n, all) == IF all THEN CtThere(n) ELSE CtUp(n)

IsContainerUpgradable(n, c) ==
  \/ c.image \notin ctImages
  \/ ctBox[n].conf.image # c.image
  \/ ctBox[n].conf.args # c.args

DoRemoveContainer(n) == Turns(IF CtThere(n) THEN <<I("remove", n)>> ELSE <<>>)

DoRestartContainer(n) == Turns(IF CtThere(n) THEN <<I("restart", n)>> ELSE <<>>)

(* A stopped container is started as it is: nothing asks whether it is     *)
(* still the wanted one.                                                   *)
DoRunContainer(n) ==
  CASE ~CtThere(n) -> Turns(<<I("pull", n), I("create", n), I("start", n)>>)
    [] CtUp(n) -> Turns((IF ctBox[n].st = "restarting" THEN <<I("restart", n)>> ELSE <<>>)
                        \o <<I("upgrade", n)>>)
    [] OTHER -> Turns(<<I("start", n)>>)

CheckUpgrade(n, c) ==
  IF ~CtThere(n) THEN Errs
  ELSE Turns(IF IsContainerUpgradable(n, c) THEN <<I("rolling", n)>> ELSE <<>>)

DoRollingUpdateContainer(n) ==
  Turns(IF IsContainerRunning(n, FALSE)
        THEN <<I("pull", n), I("stoprename", n), I("create", n), I("start", n),
               I("remove", Old(n))>>
        ELSE <<>>)

StopRenameContainer(n) ==
  Turns((IF IsContainerRunning(Old(n), TRUE) THEN <<I("remove", Old(n))>> ELSE <<>>)
        \o <<I("stop", n), I("waitrename", n)>>)

(* An error of the wait is swallowed, and the rename with it.              *)
WaitRename(n, failed) ==
  IF failed \/ ~CtThere(n) THEN Turns(<<>>) ELSE Turns(<<I("rename", n)>>)

(* The sidekick is only created, for its volumes.                          *)
runSidekick(c) ==
  IF ~IsContainerRunning("sidekick", TRUE)
  THEN Turns(<<I("pull", "sidekick"), I("create", "sidekick")>>)
  ELSE IF IsContainerUpgradable("sidekick", c)
       THEN Turns(<<I("pull", "sidekick"), I("doremove", "sidekick"),
                    I("create", "sidekick")>>)
       ELSE Turns(<<>>)

removeSidekick == DoRemoveContainer("sidekick")

(* Variant: the deployer that a broken run left is not looked for.         *)
doRunDeployerBlindly ==
  Turns(<<I("pull", "deployer"), I("create", "deployer"), I("start", "deployer"),
          I("waitzero", "deployer"), I("unforced", "deployer")>>)

doRunDeployer ==
  Turns((IF IsContainerRunning("deployer", TRUE)
         THEN <<I("remove", "deployer")>> ELSE <<>>)
        \o <<I("pull", "deployer"), I("create", "deployer"), I("start", "deployer"),
             I("waitzero", "deployer"), I("unforced", "deployer")>>)

(* The deployer's exit status decides, and a failed one stays behind.      *)
WaitZero(n, zero) == IF zero THEN Turns(<<>>) ELSE Errs

RemoveUnforced(n) ==
  IF CtThere(n) /\ ~CtUp(n) THEN RemoveContainer(n) ELSE Errs

createLogLink == <<I("inspect", "proc"), I("doremove", "job"), I("dorun", "job"),
                   I("doremove", "job")>>
DoRunLogCleaner == <<I("doremove", "job"), I("dorun", "job"), I("doremove", "job")>>

InspectContainer(n) == IF CtThere(n) THEN Turns(<<>>) ELSE Errs

(* Every container of the host goes, whoever made it; then two helpers run *)
(* to their end.                                                           *)
CleanHeritageContainers ==
  Turns(LET some == {n \in BoxNames : CtThere(n)}
        IN  IF some = {} THEN <<>>
            ELSE <<I("remove", CHOOSE n \in some : TRUE), I("heritage", "")>>)

CleanHeritageStorge == <<I("dorun", "remover"), I("wait", "remover"),
                         I("doremove", "remover")>>

CleanUp == <<I("heritage", "")>> \o CleanHeritageStorge
           \o <<I("dorun", "cleaner"), I("wait", "cleaner"), I("remove", "cleaner")>>

(* The tasks, as their first instructions.                                 *)
Program(op) ==
  CASE op = "run"      -> <<I("dorun", "proc")>> \o createLogLink
    [] op = "restart"  -> <<I("dorestart", "proc")>>
    [] op = "remove"   -> <<I("doremove", "proc")>>
    [] op = "sidekick" -> <<I("sidekick", "sidekick")>>
    [] op = "nokick"   -> <<I("nokick", "sidekick")>>
    [] op = "deploy"   -> <<I("deploy", "deployer")>>
    [] op = "logs"     -> DoRunLogCleaner
    [] op = "clean"    -> CleanUp
Ops == {"run", "restart", "remove", "sidekick", "nokick", "deploy", "logs", "clean"}

(* One instruction, when its call goes through.                            *)
Perform(i, c, zero) ==
  CASE i.fn = "dorun"      -> DoRunContainer(i.name)
    [] i.fn = "upgrade"    -> CheckUpgrade(i.name, c)
    [] i.fn = "rolling"    -> DoRollingUpdateContainer(i.name)
    [] i.fn = "stoprename" -> StopRenameContainer(i.name)
    [] i.fn = "waitrename" -> WaitRename(i.name, FALSE)
    [] i.fn = "rename"     -> RenameContainer(i.name, Old(i.name))
    [] i.fn = "pull"       -> UseLocalOrPull(c)
    [] i.fn = "create"     -> CreateContainer(i.name, c)
    [] i.fn = "start"      -> StartContainer(i.name)
    [] i.fn = "stop"       -> StopContainer(i.name)
    [] i.fn = "restart"    -> RestartContainer(i.name)
    [] i.fn = "remove"     -> RemoveContainer(i.name)
    [] i.fn = "doremove"   -> DoRemoveContainer(i.name)
    [] i.fn = "dorestart"  -> DoRestartContainer(i.name)
    [] i.fn = "sidekick"   -> runSidekick(c)
    [] i.fn = "nokick"     -> removeSidekick
    [] i.fn = "deploy"     -> doRunDeployer
    [] i.fn = "waitzero"   -> WaitZero(i.name, zero)
    [] i.fn = "wait"       -> Turns(<<>>)
    [] i.fn = "unforced"   -> RemoveUnforced(i.name)
    [] i.fn = "inspect"    -> InspectContainer(i.name)
    [] i.fn = "heritage"   -> CleanHeritageContainers

Waits == {"wait", "waitzero", "waitrename"}
Idle == [op |-> "idle", conf |-> NoBox, todo |-> <<>>, hit |-> FALSE, ok |-> TRUE,
         found |-> "none"]
CtBusy == ctTask.todo # <<>>

CtInit ==
  /\ ctBox = [n \in BoxNames |-> NoBox]
  /\ ctImages = {}
  /\ ctTask = Idle
  /\ ctLeft = [tasks |-> CtTasks, faults |-> CtFaults]

(* A plane, a reconciliation or a removal calls for one of the tasks.      *)
CtBegin(op, c) ==
  /\ ~CtBusy /\ ctLeft.tasks > 0
  /\ ctTask' = [op |-> op, conf |-> c, todo |-> Program(op), hit |-> FALSE,
                ok |-> TRUE, found |-> ctBox["proc"].st]
  /\ ctLeft' = [ctLeft EXCEPT !.tasks = @ - 1]
  /\ UNCHANGED <<ctBox, ctImages>>

(* The outcome of the head instruction; the rest of the task follows.      *)
Takes(o, hit) ==
  /\ ctBox' = o.box
  /\ ctImages' = o.images
  /\ ctTask' = [ctTask EXCEPT !.todo = IF o.err THEN <<>> ELSE o.todo \o Tail(@),
                              !.ok = ~o.err, !.hit = @ \/ hit]

(* A wait returns once its container has stopped.                          *)
CtStep ==
  /\ CtBusy
  /\ Head(ctTask.todo).fn \in Waits => ~CtUp(Head(ctTask.todo).name)
  /\ Takes(Perform(Head(ctTask.todo), ctTask.conf, TRUE), FALSE)
  /\ UNCHANGED ctLeft

(* A call fails: refused, or carried out with its answer lost, or the      *)
(* helper ran and failed.                                                  *)
CtFault ==
  /\ CtBusy /\ ctLeft.faults > 0
  /\ ctLeft' = [ctLeft EXCEPT !.faults = @ - 1]
  /\ \/ Head(ctTask.todo).fn # "waitrename" /\ Takes(Errs, TRUE)
     \/ Head(ctTask.todo).fn \notin Waits
        /\ Takes([Perform(Head(ctTask.todo), ctTask.conf, TRUE) EXCEPT !.err = TRUE], TRUE)
     \/ Head(ctTask.todo).fn = "waitrename"
        /\ Takes(WaitRename(Head(ctTask.todo).name, TRUE), TRUE)
     \/ Head(ctTask.todo).fn = "waitzero" /\ ~CtUp("deployer")
        /\ Takes(Perform(Head(ctTask.todo), ctTask.conf, FALSE), TRUE)

(* A helper comes to its end; a service dies and its restart policy keeps  *)
(* starting it.                                                            *)
CtExits(n) ==
  /\ ctBox[n].st = "running"
  /\ ctBox' = [ctBox EXCEPT ![n].st = IF n \in Helpers THEN "exited" ELSE "restarting"]
  /\ UNCHANGED <<ctImages, ctTask, ctLeft>>

CtNext ==
  \/ \E op \in Ops, c \in CtConfigs : CtBegin(op, c)
  \/ CtStep
  \/ CtFault
  \/ \E n \in BoxNames : CtExits(n)

CtSpec == CtInit /\ [][CtNext]_ctVars

(* Whatever earlier broken tasks left on the host (a stopped container, an *)
(* old one of a broken update, a helper that never ended), a task all of   *)
(* whose calls go through succeeds and does its work: a process that is    *)
(* run runs, is the wanted one unless it was found stopped, and has no     *)
(* second copy running; what is removed is gone; helpers do not stay       *)
(* behind.  The comment at docker.go:314 states the worry.                 *)
CtRecovers ==
  (~CtBusy /\ ~ctTask.hit) =>
    /\ ctTask.ok
    /\ ctTask.op = "run" =>
         /\ CtUp("proc") /\ ~CtUp("old-proc")
         /\ ctTask.found \in {"none", "running", "restarting"} =>
              ~IsContainerUpgradable("proc", ctTask.conf)
    /\ ctTask.op = "remove" => ~CtThere("proc")
    /\ ctTask.op = "sidekick" =>
         CtThere("sidekick") /\ ~IsContainerUpgradable("sidekick", ctTask.conf)
    /\ ctTask.op = "nokick" => ~CtThere("sidekick")
    /\ ctTask.op = "deploy" => ~CtThere("deployer")
    /\ ctTask.op \in {"run", "logs"} => ~CtThere("job")
    /\ ctTask.op = "clean" => \A n \in BoxNames : ~CtThere(n)
=============================================================================
