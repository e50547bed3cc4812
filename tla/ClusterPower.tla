---------------------------- MODULE ClusterPower ----------------------------
(***************************************************************************)
(* Taking the cluster down and up again: scripts/cluster-stop.sh and       *)
(* scripts/cluster-start.sh, one kubectl or ssh command after the other,   *)
(* against the Deployment controller, the kubelets and the nvidia device   *)
(* plugin, which act in between and are not in the repository.             *)
(*                                                                         *)
(* Every Deployment is pinned to a worker (nodeName in its manifest), so   *)
(* its pods are bound there whether or not the worker is cordoned.  A GPU  *)
(* pod admitted before the worker's device plugin is healthy becomes an    *)
(* UnexpectedAdmissionError pod, which the controller replaces at once.    *)
(*                                                                         *)
(* Both scripts run under set -euo pipefail: a command that fails ends     *)
(* them where they are, and so does the operator's Ctrl-C.  What fails in  *)
(* a process substitution or before "|| true" does not end them: they go   *)
(* on with what they did not read.                                         *)
(***************************************************************************)
EXTENDS Integers, FiniteSets

CONSTANTS
  Deployments,   \* the Deployments of the namespace
  Gpu,           \* those that request nvidia.com/gpu
  Workers, ControlPlane,
  Home,          \* [Deployments -> Workers], nodeName
  MaxReplicas,   \* bound on the replicas the operator asks for
  MaxMishaps,    \* bound on the kinds of mishap that befall one cluster
  Null           \* no annotation, no Deployment

ASSUME ClusterAssumption ==
  /\ Gpu \subseteq Deployments /\ Deployments # {}
  /\ ControlPlane \notin Workers
  /\ Home \in [Deployments -> Workers]
  /\ MaxReplicas \in Nat \ {0} /\ MaxMishaps \in Nat
  /\ Null \notin Nat \union Deployments

VARIABLES
  script,    \* where the running script is, "none" at the prompt
  todo,      \* Deployments its loop still has to visit
  cur,       \* the Deployment annotated and not yet scaled, or Null
  left,      \* nodes its loop still has to visit
  replicas,  \* [Deployments -> spec.replicas]
  record,    \* [Deployments -> the annotation speech.cluster/prev-replicas]
  cordoned,  \* workers marked unschedulable
  pods,      \* Deployments that have a pod object
  zombies,   \* Deployments that have a pod with an admission error
  on,        \* nodes that are powered on
  healthy,   \* workers whose device plugin has registered its GPU
  service,   \* the cluster is in service: neither stopped nor cut (history)
  ran,       \* [Deployments -> replicas the operator last asked for] (history)
  mishaps    \* what has gone wrong so far (history)

progress == <<script, todo, cur, left>>
specs    == <<replicas, record>>
nodes    == <<on, healthy>>
history  == <<service, ran, mishaps>>
vars     == <<progress, specs, cordoned, pods, zombies, nodes, history>>

Nodes    == Workers \union {ControlPlane}
Stopping == {"recording", "terminating", "cordoning", "draining", "quiesced", "poweroff"}
Starting == {"waiting", "uncordoning", "restoring", "plugin", "restoringGpu", "rollout"}
Counts   == 0..MaxReplicas

\* A power cut; a second cluster-stop.sh on a cluster that is not in service; a
\* GPU that was not back in time; counts that were not saved, because the power
\* was cut in service or the loop that saves them was cut short; and a kubectl
\* get that failed unnoticed, in cluster-stop.sh or in cluster-start.sh.
Mishaps == {"powercut", "rerun", "timeout", "unrecorded", "unlisted", "misread"}

TypeOK ==
  /\ script \in {"none"} \union Stopping \union Starting
  /\ todo \in SUBSET Deployments
  /\ cur \in Deployments \union {Null}
  /\ left \in SUBSET Nodes
  /\ script \in {"cordoning", "draining", "uncordoning", "plugin"} => left \subseteq Workers
  /\ replicas \in [Deployments -> Nat]
  /\ record \in [Deployments -> Nat \union {Null}]
  /\ cordoned \in SUBSET Workers
  /\ pods \in SUBSET Deployments
  /\ zombies \in SUBSET Gpu
  /\ on \in SUBSET Nodes
  /\ healthy \in SUBSET (Workers \intersect on)
  /\ service \in BOOLEAN
  /\ ran \in [Deployments -> Counts]
  /\ mishaps \in SUBSET Mishaps

\* A cluster in service, with no annotation yet.
Init ==
  /\ script = "none" /\ todo = {} /\ cur = Null /\ left = {}
  /\ replicas \in [Deployments -> Counts]
  /\ record = [d \in Deployments |-> Null]
  /\ cordoned = {}
  /\ pods = {d \in Deployments : replicas[d] > 0}
  /\ zombies = {}
  /\ on = Nodes
  /\ healthy = Workers
  /\ service = TRUE
  /\ ran = replicas
  /\ mishaps = {}

\* Something goes wrong that the scripts do not bring about themselves.
Mishap(m) ==
  /\ Cardinality((mishaps \union m) \ {"timeout", "unrecorded"}) <= MaxMishaps
  /\ mishaps' = mishaps \union m

Exit == script' = "none" /\ todo' = {} /\ cur' = Null /\ left' = {}

\* A command of the script fails, or the operator interrupts it.
Abort ==
  /\ script # "none"
  /\ Exit
  /\ mishaps' = IF script = "recording" THEN mishaps \union {"unrecorded"} ELSE mishaps
  /\ UNCHANGED <<specs, cordoned, pods, zombies, nodes, service, ran>>

\* Without the control plane kubectl fails.  The loops that wait for nodes and
\* plugins wait on, the one for pods takes it for none left, and ssh has a warning.
Unreachable ==
  /\ ControlPlane \notin on
  /\ script \notin {"terminating", "poweroff", "waiting", "plugin"}
  /\ Abort

----------------------------------------------------------------------------
\* cluster-stop.sh

\* An operator stops the cluster, or runs the script again, after a failed drain
\* or for --poweroff.
StopCluster ==
  /\ script = "none"
  /\ ControlPlane \in on
  /\ script' = "recording" /\ todo' = Deployments
  /\ service' = FALSE
  /\ IF service THEN UNCHANGED mishaps ELSE Mishap({"rerun"})
  /\ UNCHANGED <<cur, left, specs, cordoned, pods, zombies, nodes, ran>>

\* The same, but kubectl cannot list the Deployments: "nothing to scale down".
StopUnlisted ==
  /\ script = "none"
  /\ script' = "cordoning" /\ left' = Workers
  /\ service' = FALSE
  /\ Mishap(IF service THEN {"unlisted"} ELSE {"unlisted", "rerun"})
  /\ UNCHANGED <<todo, cur, specs, cordoned, pods, zombies, nodes, ran>>

\* Mutant: the count is read after the Deployment was scaled down.
AnnotateLate(d) ==
  /\ script = "recording" /\ cur = Null /\ ControlPlane \in on
  /\ d \in todo
  /\ record' = [record EXCEPT ![d] = 0]
  /\ cur' = d
  /\ UNCHANGED <<script, todo, left, replicas, cordoned, pods, zombies, nodes, history>>

\* The replica count is read and saved as the annotation, overwriting it.
Annotate(d) ==
  /\ script = "recording" /\ cur = Null /\ ControlPlane \in on
  /\ d \in todo
  /\ record' = [record EXCEPT ![d] = replicas[d]]
  /\ cur' = d
  /\ UNCHANGED <<script, todo, left, replicas, cordoned, pods, zombies, nodes, history>>

\* Mutant: scaled down by one replica.
ScaleDownByOne ==
  /\ script = "recording" /\ cur # Null /\ ControlPlane \in on
  /\ replicas' = [replicas EXCEPT ![cur] = @ - 1]
  /\ todo' = todo \ {cur}
  /\ cur' = Null
  /\ script' = IF todo = {cur} THEN "terminating" ELSE script
  /\ UNCHANGED <<left, record, cordoned, pods, zombies, nodes, service, ran, mishaps>>

ScaleDown ==
  /\ script = "recording" /\ cur # Null /\ ControlPlane \in on
  /\ replicas' = [replicas EXCEPT ![cur] = 0]
  /\ todo' = todo \ {cur}
  /\ cur' = Null
  /\ script' = IF todo = {cur} THEN "terminating" ELSE script
  /\ UNCHANGED <<left, record, cordoned, pods, zombies, nodes, service, ran, mishaps>>

\* All pods are gone, or SCALE_DOWN_TIMEOUT has passed.
Terminated ==
  /\ script = "terminating"
  /\ script' = "cordoning" /\ left' = Workers
  /\ UNCHANGED <<todo, cur, specs, cordoned, pods, zombies, nodes, history>>

Cordon(n) ==
  /\ script = "cordoning" /\ n \in left /\ ControlPlane \in on
  /\ cordoned' = cordoned \union {n}
  /\ IF left = {n} THEN script' = "draining" /\ left' = Workers
     ELSE left' = left \ {n} /\ UNCHANGED script
  /\ UNCHANGED <<todo, cur, specs, pods, zombies, nodes, history>>

\* Mutant: the drain does not wait.
DrainWorkerAtOnce(n) ==
  /\ script = "draining" /\ n \in left /\ ControlPlane \in on
  /\ left' = left \ {n}
  /\ script' = IF left = {n} THEN "quiesced" ELSE script
  /\ UNCHANGED <<todo, cur, specs, cordoned, pods, zombies, nodes, history>>

\* Admission errors on n that a drain clears for good
Cleared(n) == {d \in zombies : Home[d] = n /\ (replicas[d] = 0 \/ n \in healthy)}

\* kubectl drain evicts the pods of the worker and waits for them to be gone; the
\* controller replaces at once those that are still asked for.
DrainWorker(n) ==
  /\ script = "draining" /\ n \in left /\ ControlPlane \in on
  /\ \A d \in pods : Home[d] = n => n \in on /\ replicas[d] > 0
  /\ zombies' = zombies \ Cleared(n)
  /\ left' = left \ {n}
  /\ script' = IF left = {n} THEN "quiesced" ELSE script
  /\ UNCHANGED <<todo, cur, specs, cordoned, pods, nodes, history>>

\* drain --timeout=180s gives up, and set -e ends the script.
DrainFails ==
  /\ script = "draining"
  /\ Exit
  /\ UNCHANGED <<specs, cordoned, pods, zombies, nodes, history>>

\* Without --poweroff, or without a "yes" at its prompt, this is the end.
Quiesced ==
  /\ script = "quiesced" /\ ControlPlane \in on
  /\ \/ Exit
     \/ script' = "poweroff" /\ left' = Nodes /\ UNCHANGED <<todo, cur>>
  /\ UNCHANGED <<specs, cordoned, pods, zombies, nodes, history>>

\* ssh ... shutdown: the workers first, the control plane last; a node that
\* cannot be reached is skipped.
ShutDown(n) ==
  /\ script = "poweroff" /\ n \in left
  /\ n = ControlPlane => left = {ControlPlane}
  /\ \/ on' = on \ {n} /\ healthy' = healthy \ {n}
     \/ UNCHANGED nodes
  /\ IF left = {n} THEN Exit ELSE left' = left \ {n} /\ UNCHANGED <<script, todo, cur>>
  /\ UNCHANGED <<specs, cordoned, pods, zombies, history>>

----------------------------------------------------------------------------
\* cluster-start.sh

StartCluster ==
  /\ script = "none"
  /\ ~service
  /\ script' = "waiting" /\ left' = Nodes
  /\ UNCHANGED <<todo, cur, specs, cordoned, pods, zombies, nodes, history>>

\* A node reports Ready.
NodeReady(n) ==
  /\ script = "waiting" /\ n \in left
  /\ {n, ControlPlane} \subseteq on
  /\ IF left = {n} THEN script' = "uncordoning" /\ left' = Workers
     ELSE left' = left \ {n} /\ UNCHANGED script
  /\ UNCHANGED <<todo, cur, specs, cordoned, pods, zombies, nodes, history>>

\* After the last worker the Deployments that need no GPU come first, or none if
\* kubectl cannot list the Deployments.
Uncordon(n) ==
  /\ script = "uncordoning" /\ n \in left /\ ControlPlane \in on
  /\ cordoned' = cordoned \ {n}
  /\ left' = left \ {n}
  /\ \/ left # {n} /\ UNCHANGED <<script, todo, mishaps>>
     \/ left = {n} /\ script' = "restoring" /\ todo' = Deployments \ Gpu /\ UNCHANGED mishaps
     \/ left = {n} /\ script' = "rollout" /\ Mishap({"misread"}) /\ UNCHANGED todo
  /\ UNCHANGED <<cur, specs, pods, zombies, nodes, service, ran>>

\* Mutant: the wait for Ready has no deadline.
ReadyTimeoutNever ==
  /\ script = "waiting" /\ left = {}
  /\ Exit
  /\ UNCHANGED <<specs, cordoned, pods, zombies, nodes, history>>

\* READY_TIMEOUT: exit 1.
ReadyTimeout ==
  /\ script = "waiting"
  /\ Exit
  /\ UNCHANGED <<specs, cordoned, pods, zombies, nodes, history>>

\* want="${want:-1}"
Want(d) == IF record[d] = Null THEN 1 ELSE record[d]

\* An annotation that kubectl cannot read is taken for none.
Restore(d) ==
  /\ script \in {"restoring", "restoringGpu"} /\ ControlPlane \in on
  /\ d \in todo
  /\ \/ replicas' = [replicas EXCEPT ![d] = Want(d)] /\ UNCHANGED mishaps
     \/ replicas' = [replicas EXCEPT ![d] = 1] /\ Mishap({"misread"})
  /\ todo' = todo \ {d}
  /\ UNCHANGED <<script, cur, left, record, cordoned, pods, zombies, nodes, service, ran>>

\* Mutant: the GPU Deployments are not held back.
HoldNothing ==
  /\ script = "restoring" /\ todo = {}
  /\ script' = "restoringGpu" /\ todo' = Gpu
  /\ UNCHANGED <<cur, left, specs, cordoned, pods, zombies, nodes, history>>

HoldGpu ==
  /\ script = "restoring" /\ todo = {}
  /\ IF Gpu = {} THEN script' = "rollout" /\ UNCHANGED left
     ELSE script' = "plugin" /\ left' = Workers
  /\ UNCHANGED <<todo, cur, specs, cordoned, pods, zombies, nodes, history>>

\* The device plugin of a worker is seen healthy, or GPU_PLUGIN_TIMEOUT passes
\* and the Deployments are restored anyway.
PluginChecked(n) ==
  /\ script = "plugin" /\ n \in left
  /\ mishaps' = IF n \in healthy THEN mishaps ELSE mishaps \union {"timeout"}
  /\ left' = left \ {n}
  /\ IF left = {n} THEN script' = "restoringGpu" /\ todo' = Gpu
     ELSE UNCHANGED <<script, todo>>
  /\ UNCHANGED <<cur, specs, cordoned, pods, zombies, nodes, service, ran>>

AwaitRollout ==
  /\ script = "restoringGpu" /\ todo = {}
  /\ script' = "rollout"
  /\ UNCHANGED <<todo, cur, left, specs, cordoned, pods, zombies, nodes, history>>

\* All rolled out or timed out; the zombies are force-deleted.
RolledOut ==
  /\ script = "rollout" /\ ControlPlane \in on
  /\ Exit
  /\ zombies' = {}
  /\ service' = TRUE
  /\ UNCHANGED <<specs, cordoned, pods, nodes, ran, mishaps>>

----------------------------------------------------------------------------
\* The operator between scripts, the power, and Kubernetes.

Scale(d, n) ==
  /\ script = "none" /\ service
  /\ replicas' = [replicas EXCEPT ![d] = n]
  /\ ran' = [ran EXCEPT ![d] = n]
  /\ UNCHANGED <<progress, record, cordoned, pods, zombies, nodes, service, mishaps>>

\* At any time: a script that runs has to cope.
PowerCut ==
  /\ Mishap(IF service THEN {"powercut", "unrecorded"} ELSE {"powercut"})
  /\ on' = {} /\ healthy' = {}
  /\ service' = FALSE
  /\ UNCHANGED <<progress, specs, cordoned, pods, zombies, ran>>

\* A GPU pod bound to the worker is admitted again, before its GPU is back.
PowerOn(n) ==
  /\ n \in Nodes \ on
  /\ on' = on \union {n}
  /\ zombies' = zombies \union {d \in Gpu \intersect pods : Home[d] = n}
  /\ UNCHANGED <<progress, specs, cordoned, pods, healthy, history>>

PluginHealthy(n) ==
  /\ n \in (Workers \intersect on) \ healthy
  /\ healthy' = healthy \union {n}
  /\ UNCHANGED <<progress, specs, cordoned, pods, zombies, on, history>>

CreatePod(d) ==
  /\ ControlPlane \in on
  /\ replicas[d] > 0 /\ d \notin pods
  /\ pods' = pods \union {d}
  /\ zombies' = IF d \in Gpu /\ Home[d] \in on \ healthy THEN zombies \union {d} ELSE zombies
  /\ UNCHANGED <<progress, specs, cordoned, nodes, history>>

\* The kubelet must be there to say that the pod has terminated.
DeletePod(d) ==
  /\ {ControlPlane, Home[d]} \subseteq on
  /\ replicas[d] = 0 /\ d \in pods
  /\ pods' = pods \ {d}
  /\ UNCHANGED <<progress, specs, cordoned, zombies, nodes, history>>

----------------------------------------------------------------------------
ScriptStep ==
  /\ script # "none"
  /\ \/ \E d \in todo : Annotate(d) \/ Restore(d)
     \/ \E n \in left : \/ Cordon(n) \/ DrainWorker(n) \/ ShutDown(n)
                       \/ NodeReady(n) \/ Uncordon(n) \/ PluginChecked(n)
     \/ ScaleDown \/ Terminated \/ DrainFails \/ Quiesced \/ Unreachable
     \/ ReadyTimeout \/ HoldGpu \/ AwaitRollout \/ RolledOut

Next ==
  \/ ScriptStep
  \/ StopCluster \/ StopUnlisted
  \/ StartCluster
  \/ Abort
  \/ PowerCut
  \/ \E d \in Deployments :
       \/ \E n \in Counts : Scale(d, n)
       \/ CreatePod(d)
       \/ DeletePod(d)
  \/ \E n \in Nodes : PowerOn(n) \/ PluginHealthy(n)

Spec == Init /\ [][Next]_vars

\* A script runs on; nodes, pods and plugins may do nothing for ever.
FairSpec == Spec /\ WF_vars(ScriptStep)

----------------------------------------------------------------------------
\* Properties.

\* "so cluster-start.sh can restore exactly what was running"
\* (cluster-stop.sh:17-19): back in service, every Deployment has the replicas it
\* had, and its worker is not left cordoned.  It takes a stop that was run twice,
\* a count that was not saved or a kubectl get that failed unnoticed to lose one;
\* drains that fail, scripts cut short anywhere but in that loop (cluster-stop.sh:67-72),
\* power cuts on a cluster that is out of service and late GPUs lose none.
RestoresWhatRan ==
  script = "none" /\ service /\ mishaps \subseteq {"timeout", "powercut"}
    => replicas = ran /\ cordoned = {}

\* The same for a stop that was run twice.
RestoresAfterRerun ==
  script = "none" /\ service /\ mishaps = {"rerun"} => replicas = ran

\* No pod object exists while its node is down (cluster-stop.sh:8-10): the
\* scripts leave none behind, however often they run and wherever they are cut
\* short, as long as the power holds and cluster-stop.sh gets the list of the
\* Deployments: without it, it powers the nodes off under their pods.
NoPodWhileDown ==
  mishaps \intersect {"powercut", "unlisted"} = {} => \A d \in pods : Home[d] \in on

\* No pod is ever admitted to a worker whose GPU is not ready
\* (cluster-start.sh:10-18), however often the scripts run and wherever they are
\* cut short, as long as the GPU comes back in time and no list is lost.
NoStorm == mishaps \subseteq {"rerun", "unrecorded"} => zombies = {}

\* Every wait of the scripts for the cluster has a deadline: whatever nodes, pods
\* and plugins do, and even if the power is cut, a script comes back to its
\* prompt (once the operator has answered its own).
ScriptsEnd == script # "none" ~> script = "none"

============================================================================
