------------------------- MODULE ClusterPowerProofs -------------------------
(***************************************************************************)
(* What cluster-stop.sh and cluster-start.sh keep for every set of nodes   *)
(* and Deployments, however the cluster acts in between.                   *)
(***************************************************************************)
EXTENDS ClusterPower, TLAPS

\* A cluster is in service at the prompt only; loops end with nothing left to do.
Prompted ==
  /\ service => script = "none"
  /\ cur # Null => script = "recording" /\ cur \in todo
  /\ script \notin {"recording", "restoring", "restoringGpu"} => todo = {}
  /\ script = "restoring" => todo \subseteq Deployments \ Gpu
  /\ script = "restoringGpu" => todo \subseteq Gpu

\* Where the counts are that the operator asked for: on the Deployments that
\* cluster-stop.sh has not visited, in the annotations of the others, and back on
\* the Deployments that cluster-start.sh has.
CountsKept ==
  mishaps \subseteq {"timeout", "powercut"} =>
    /\ service => replicas = ran /\ cordoned = {}
    /\ script = "recording" =>
         /\ \A d \in todo : replicas[d] = ran[d]
         /\ \A d \in Deployments : d \notin todo \/ d = cur => record[d] = ran[d]
    /\ ~service /\ script # "recording" => record = ran
    /\ script = "uncordoning" => cordoned \subseteq left
    /\ script \in Starting \ {"waiting", "uncordoning"} => cordoned = {}
    /\ script \in {"restoring", "plugin"} => \A d \in Deployments \ (Gpu \union todo) : replicas[d] = ran[d]
    /\ script \in {"restoringGpu", "rollout"} => \A d \in Deployments \ todo : replicas[d] = ran[d]

\* Once it has their list, the Deployments that cluster-stop.sh has been through
\* have no replicas.
ScaledDown ==
  "unlisted" \notin mishaps =>
    /\ script = "recording" => \A d \in Deployments \ todo : replicas[d] = 0
    /\ script \in Stopping \ {"recording"} => \A d \in Deployments : replicas[d] = 0

\* And nodes that it has drained have no pods.
Drained ==
  "unlisted" \notin mishaps =>
    /\ script = "draining" => \A d \in pods : Home[d] \in left
    /\ script \in {"quiesced", "poweroff"} => pods = {}

\* But for a power cut, where there are replicas or pods there is power.
Powered ==
  mishaps \intersect {"powercut", "unlisted"} = {} =>
    /\ service \/ script \in Starting \ {"waiting"} => on = Nodes
    /\ script = "waiting" => Nodes \ left \subseteq on
    /\ \A d \in Deployments : replicas[d] > 0 => on = Nodes
    /\ NoPodWhileDown

\* And but for a late plugin, where GPUs are asked for there are GPUs.
GpusReady ==
  mishaps \subseteq {"rerun", "unrecorded"} =>
    /\ service \/ script \in {"restoringGpu", "rollout"} => Gpu = {} \/ healthy = Workers
    /\ script = "plugin" => Workers \ left \subseteq healthy
    /\ \A d \in Gpu : replicas[d] > 0 => Home[d] \in healthy
    /\ NoStorm

----------------------------------------------------------------------------
\* The steps, one by one
Cases ==
  \/ \E d \in Deployments :
       \/ Annotate(d) \/ Restore(d) \/ CreatePod(d) \/ DeletePod(d)
       \/ \E n \in Counts : Scale(d, n)
  \/ \E n \in Nodes :
       \/ NodeReady(n) \/ DrainWorker(n) \/ ShutDown(n) \/ PluginChecked(n)
       \/ Cordon(n) \/ Uncordon(n)
       \/ PowerOn(n) \/ PluginHealthy(n)
  \/ ScaleDown \/ Terminated \/ DrainFails \/ Quiesced \/ Abort
  \/ ReadyTimeout \/ HoldGpu \/ AwaitRollout \/ RolledOut
  \/ StopCluster \/ StopUnlisted \/ StartCluster \/ PowerCut
  \/ UNCHANGED vars

LEMMA StepCases == ASSUME TypeOK, [Next]_vars PROVE Cases
<1>1. ASSUME ScriptStep PROVE Cases
  <2>1. todo \subseteq Deployments /\ left \subseteq Nodes
    BY DEF TypeOK
  <2> QED
    BY <1>1, <2>1 DEF ScriptStep, Cases, Unreachable
<1>2. ASSUME Next, ~ScriptStep PROVE Cases
  BY <1>2 DEF Next, Cases
<1> QED
  BY <1>1, <1>2 DEF Cases

----------------------------------------------------------------------------
\* Type correctness

LEMMA InitTypeOK == Init => TypeOK
BY ClusterAssumption DEF Init, TypeOK, Counts, Nodes

LEMMA WantIsNat == ASSUME TypeOK, NEW d \in Deployments PROVE Want(d) \in Nat
BY DEF TypeOK, Want

\* Every mishap of a step is a known one, and none is forgotten.
LEMMA KnownMishaps ==
  ASSUME TypeOK, [Next]_vars
  PROVE  mishaps' \in SUBSET Mishaps /\ mishaps \subseteq mishaps'
<1> Cases /\ mishaps \subseteq Mishaps
  BY StepCases DEF TypeOK
<1> QED
  BY DEF Cases, vars, history, Mishaps, Mishap, Annotate, Restore, Cordon, DrainWorker,
     ShutDown, NodeReady, Uncordon, PluginChecked, ScaleDown, Terminated, DrainFails, Quiesced,
     Abort, ReadyTimeout, HoldGpu, AwaitRollout, RolledOut, StopCluster, StopUnlisted,
     StartCluster, PowerCut, Scale, CreatePod, DeletePod, PowerOn, PluginHealthy

LEMMA NextTypeOK == TypeOK /\ [Next]_vars => TypeOK'
<1> SUFFICES ASSUME TypeOK, [Next]_vars PROVE TypeOK'
  OBVIOUS
<1> mishaps' \in SUBSET Mishaps
  BY KnownMishaps
<1> USE ClusterAssumption DEF TypeOK, Stopping, Starting, Nodes,
        progress, specs, nodes, history
<1>1. ASSUME NEW d \in Deployments, Annotate(d) PROVE TypeOK'
  BY <1>1 DEF Annotate
<1>2. ASSUME NEW d \in Deployments, Restore(d) PROVE TypeOK'
  BY <1>2, WantIsNat DEF Restore
<1>3. ASSUME NEW n \in Nodes, Cordon(n) \/ Uncordon(n) PROVE TypeOK'
  BY <1>3 DEF Cordon, Uncordon
<1>4. ASSUME NEW n \in Nodes, DrainWorker(n) PROVE TypeOK'
  BY <1>4 DEF DrainWorker
<1>5. ASSUME NEW n \in Nodes, ShutDown(n) PROVE TypeOK'
  BY <1>5 DEF ShutDown, Exit
<1>6. ASSUME NEW n \in Nodes, NodeReady(n) \/ PluginChecked(n) PROVE TypeOK'
  BY <1>6 DEF NodeReady, PluginChecked
<1>7. CASE ScaleDown
  BY <1>7 DEF ScaleDown
<1>8. CASE Terminated
  BY <1>8 DEF Terminated
<1>9. CASE DrainFails \/ ReadyTimeout \/ RolledOut \/ Abort
  BY <1>9 DEF DrainFails, ReadyTimeout, RolledOut, Abort, Exit
<1>10. CASE Quiesced
  BY <1>10 DEF Quiesced, Exit
<1>11. CASE HoldGpu \/ AwaitRollout
  BY <1>11 DEF HoldGpu, AwaitRollout
<1>12. CASE StopCluster \/ StopUnlisted
  BY <1>12 DEF StopCluster, StopUnlisted
<1>13. CASE StartCluster
  BY <1>13 DEF StartCluster
<1>14. CASE PowerCut
  BY <1>14 DEF PowerCut
<1>15. ASSUME NEW d \in Deployments, NEW n \in Counts, Scale(d, n) PROVE TypeOK'
  BY <1>15 DEF Scale, Counts
<1>16. ASSUME NEW d \in Deployments, CreatePod(d) PROVE TypeOK'
  BY <1>16 DEF CreatePod
<1>17. ASSUME NEW d \in Deployments, DeletePod(d) PROVE TypeOK'
  BY <1>17 DEF DeletePod
<1>18. ASSUME NEW n \in Nodes, PowerOn(n) PROVE TypeOK'
  BY <1>18 DEF PowerOn
<1>19. ASSUME NEW n \in Nodes, PluginHealthy(n) PROVE TypeOK'
  BY <1>19 DEF PluginHealthy
<1>20. CASE UNCHANGED vars
  BY <1>20 DEF vars
<1> QED
  BY <1>1, <1>2, <1>3, <1>4, <1>5, <1>6, <1>7, <1>8, <1>9, <1>10, <1>11, <1>12, <1>13,
     <1>14, <1>15, <1>16, <1>17, <1>18, <1>19, <1>20, StepCases DEF Cases

\* Every reachable state of the cluster and its scripts is well typed.
THEOREM TypeCorrect == Spec => []TypeOK
BY InitTypeOK, NextTypeOK, PTL DEF Spec

----------------------------------------------------------------------------
\* The scripts' own bookkeeping

\* Everything that happens outside the scripts leaves them alone.
Outside ==
  \/ \E d \in Deployments : CreatePod(d) \/ DeletePod(d)
  \/ \E n \in Nodes : PowerOn(n) \/ PluginHealthy(n)
  \/ UNCHANGED vars

LEMMA OutsideScripts == Outside => UNCHANGED <<script, todo, cur, left, replicas, record, cordoned, service, ran, mishaps>>
BY DEF Outside, CreatePod, DeletePod, PowerOn, PluginHealthy, vars, progress, specs, nodes, history

LEMMA NextPrompted == TypeOK /\ Prompted /\ [Next]_vars => Prompted'
<1> SUFFICES ASSUME TypeOK, Prompted, [Next]_vars PROVE Prompted'
  OBVIOUS
<1> USE DEF Prompted, Exit, progress, specs, nodes, history
<1>1. ASSUME NEW d \in Deployments, Annotate(d) \/ Restore(d) PROVE Prompted'
  BY <1>1, ClusterAssumption DEF Annotate, Restore
<1>2. ASSUME NEW n \in Nodes, DrainWorker(n) \/ ShutDown(n) \/ Cordon(n) PROVE Prompted'
  BY <1>2 DEF DrainWorker, ShutDown, Cordon
<1>3. ASSUME NEW n \in Nodes, NodeReady(n) \/ PluginChecked(n) \/ Uncordon(n) PROVE Prompted'
  BY <1>3 DEF NodeReady, PluginChecked, Uncordon
<1>4. CASE ScaleDown \/ Terminated \/ DrainFails \/ Quiesced \/ Abort
  BY <1>4 DEF ScaleDown, Terminated, DrainFails, Quiesced, Abort
<1>5. CASE ReadyTimeout \/ HoldGpu \/ AwaitRollout \/ RolledOut
  BY <1>5 DEF ReadyTimeout, HoldGpu, AwaitRollout, RolledOut
<1>6. CASE StopCluster \/ StopUnlisted \/ StartCluster \/ PowerCut
  BY <1>6 DEF StopCluster, StopUnlisted, StartCluster, PowerCut
<1>7. ASSUME NEW d \in Deployments, NEW n \in Counts, Scale(d, n) PROVE Prompted'
  BY <1>7 DEF Scale
<1>8. CASE Outside
  BY <1>8, OutsideScripts
<1> QED
  BY <1>1, <1>2, <1>3, <1>4, <1>5, <1>6, <1>7, <1>8, StepCases DEF Cases, Outside

LEMMA NextScaledDown == TypeOK /\ Prompted /\ ScaledDown /\ [Next]_vars => ScaledDown'
<1> SUFFICES ASSUME TypeOK, Prompted, ScaledDown, [Next]_vars, "unlisted" \notin mishaps'
             PROVE  ScaledDown'
  BY DEF ScaledDown
<1> "unlisted" \notin mishaps
  BY KnownMishaps
<1> USE DEF ScaledDown, Stopping, Starting, Exit, progress, specs, nodes, history
<1>1. ASSUME NEW d \in Deployments, Annotate(d) PROVE ScaledDown'
  BY <1>1 DEF Annotate
<1>2. ASSUME NEW d \in Deployments, Restore(d) PROVE ScaledDown'
  BY <1>2 DEF Restore
<1>3. ASSUME NEW n \in Nodes, DrainWorker(n) \/ ShutDown(n) \/ Cordon(n) PROVE ScaledDown'
  BY <1>3 DEF DrainWorker, ShutDown, Cordon
<1>4. ASSUME NEW n \in Nodes, NodeReady(n) \/ PluginChecked(n) \/ Uncordon(n) PROVE ScaledDown'
  BY <1>4 DEF NodeReady, PluginChecked, Uncordon
<1>5. CASE ScaleDown
  BY <1>5 DEF ScaleDown, TypeOK
<1>6. CASE Terminated \/ DrainFails \/ Quiesced \/ Abort
  BY <1>6 DEF Terminated, DrainFails, Quiesced, Abort
<1>7. CASE ReadyTimeout \/ HoldGpu \/ AwaitRollout \/ RolledOut
  BY <1>7 DEF ReadyTimeout, HoldGpu, AwaitRollout, RolledOut
<1>8. CASE StopCluster \/ StopUnlisted \/ StartCluster \/ PowerCut
  BY <1>8 DEF StopCluster, StopUnlisted, StartCluster, PowerCut, Mishap
<1>9. ASSUME NEW d \in Deployments, NEW n \in Counts, Scale(d, n) PROVE ScaledDown'
  BY <1>9 DEF Scale
<1>10. CASE Outside
  BY <1>10, OutsideScripts
<1> QED
  BY <1>1, <1>2, <1>3, <1>4, <1>5, <1>6, <1>7, <1>8, <1>9, <1>10, StepCases DEF Cases, Outside

LEMMA NextDrained == TypeOK /\ Prompted /\ ScaledDown /\ Drained /\ [Next]_vars => Drained'
<1> SUFFICES ASSUME TypeOK, Prompted, ScaledDown, Drained, [Next]_vars,
                    "unlisted" \notin mishaps'
             PROVE  Drained'
  BY DEF Drained
<1> "unlisted" \notin mishaps
  BY KnownMishaps
<1> USE DEF Drained, Stopping, Starting, Exit, progress, specs, nodes, history
<1>1. ASSUME NEW n \in Nodes, DrainWorker(n) PROVE Drained'
  <2>1. \A d \in pods : replicas[d] = 0
    BY <1>1 DEF DrainWorker, ScaledDown, TypeOK
  <2> QED
    BY <1>1, <2>1 DEF DrainWorker, TypeOK
<1>2. ASSUME NEW n \in Nodes, ShutDown(n) PROVE Drained'
  BY <1>2 DEF ShutDown
<1>3. ASSUME NEW n \in Nodes, Cordon(n) PROVE Drained'
  BY <1>3, ClusterAssumption DEF Cordon, TypeOK
<1>4. CASE Quiesced
  BY <1>4 DEF Quiesced
<1>5. ASSUME NEW d \in Deployments, CreatePod(d) PROVE Drained'
  BY <1>5 DEF CreatePod, ScaledDown
<1>6. ASSUME NEW d \in Deployments, DeletePod(d) PROVE Drained'
  BY <1>6 DEF DeletePod
<1>7. ASSUME UNCHANGED <<script, left, pods>> PROVE Drained'
  BY <1>7
<1>8. ASSUME script' \notin {"draining", "quiesced", "poweroff"} PROVE Drained'
  BY <1>8
<1>9. ASSUME NEW d \in Deployments, Annotate(d) \/ Restore(d) PROVE Drained'
  BY <1>8, <1>9 DEF Annotate, Restore
<1>10. ASSUME NEW n \in Nodes, NodeReady(n) \/ PluginChecked(n) \/ Uncordon(n) PROVE Drained'
  BY <1>8, <1>10 DEF NodeReady, PluginChecked, Uncordon
<1>11. CASE \/ ScaleDown \/ Terminated \/ DrainFails \/ Abort
            \/ ReadyTimeout \/ HoldGpu \/ AwaitRollout \/ RolledOut
  BY <1>8, <1>11 DEF ScaleDown, Terminated, DrainFails, Abort, ReadyTimeout, HoldGpu,
     AwaitRollout, RolledOut
<1>12. CASE StopCluster \/ StopUnlisted \/ StartCluster
  BY <1>8, <1>12 DEF StopCluster, StopUnlisted, StartCluster
<1>16. CASE PowerCut
  BY <1>7, <1>16 DEF PowerCut
<1>13. ASSUME NEW d \in Deployments, NEW n \in Counts, Scale(d, n) PROVE Drained'
  BY <1>7, <1>13 DEF Scale
<1>14. ASSUME NEW n \in Nodes, PowerOn(n) \/ PluginHealthy(n) PROVE Drained'
  BY <1>7, <1>14 DEF PowerOn, PluginHealthy
<1>15. CASE UNCHANGED vars
  BY <1>7, <1>15 DEF vars
<1> QED
  BY <1>1, <1>2, <1>3, <1>4, <1>5, <1>6, <1>9, <1>10, <1>11, <1>12, <1>13, <1>14, <1>15, <1>16,
     StepCases DEF Cases

----------------------------------------------------------------------------
\* The replica counts

LEMMA NextCountsKept == TypeOK /\ Prompted /\ CountsKept /\ [Next]_vars => CountsKept'
<1> SUFFICES ASSUME TypeOK, Prompted, CountsKept, [Next]_vars,
                    mishaps' \subseteq {"timeout", "powercut"}
             PROVE  CountsKept'
  BY DEF CountsKept
<1> mishaps \subseteq mishaps' /\ Cases
  BY KnownMishaps, StepCases
<1> USE ClusterAssumption DEF TypeOK, Prompted, CountsKept, Starting, Mishap, Exit, progress, specs, nodes, history
<1>1. ASSUME NEW d \in Deployments, Annotate(d) PROVE CountsKept'
  BY <1>1 DEF Annotate
<1>2. ASSUME NEW d \in Deployments, Restore(d) PROVE CountsKept'
  <2>1. record = ran /\ cordoned = {}
    BY <1>2 DEF Restore
  <2>2. Want(d) = ran[d]
    BY <2>1 DEF Want, Counts
  <2>3. replicas'[d] = ran[d] /\ \A e \in Deployments : e # d => replicas'[e] = replicas[e]
    BY <1>2, <2>2 DEF Restore
  <2> QED
    BY <1>2, <2>1, <2>3 DEF Restore
<1>3. ASSUME NEW n \in Nodes, DrainWorker(n) \/ ShutDown(n) \/ Cordon(n) PROVE CountsKept'
  BY <1>3 DEF DrainWorker, ShutDown, Cordon
<1>4. ASSUME NEW n \in Nodes, NodeReady(n) PROVE CountsKept'
  BY <1>4 DEF NodeReady
<1>5. ASSUME NEW n \in Nodes, PluginChecked(n) PROVE CountsKept'
  BY <1>5 DEF PluginChecked
<1>6. CASE ScaleDown
  <2>1. \A d \in Deployments : d # cur => replicas'[d] = replicas[d]
    BY <1>6 DEF ScaleDown
  <2>2. record' = record /\ ran' = ran /\ service' = service /\ cur' = Null /\ todo' = todo \ {cur}
    BY <1>6 DEF ScaleDown
  <2>3. CASE todo = {cur}
    <3>1. record = ran
      BY <1>6, <2>3 DEF ScaleDown
    <3> QED
      BY <1>6, <2>2, <2>3, <3>1 DEF ScaleDown
  <2>4. CASE todo # {cur}
    BY <1>6, <2>1, <2>2, <2>4 DEF ScaleDown
  <2> QED
    BY <2>3, <2>4
<1>7. CASE Terminated \/ DrainFails \/ Quiesced \/ Abort
  BY <1>7 DEF Terminated, DrainFails, Quiesced, Abort
<1>8. CASE ReadyTimeout \/ HoldGpu \/ AwaitRollout
  BY <1>8 DEF ReadyTimeout, HoldGpu, AwaitRollout
<1>9. CASE RolledOut
  <2>1. replicas = ran
    BY <1>9 DEF RolledOut
  <2> QED
    BY <1>9, <2>1 DEF RolledOut
<1>10. CASE StopCluster \/ StopUnlisted
  BY <1>10 DEF StopCluster, StopUnlisted, Mishap
<1>11. CASE StartCluster
  BY <1>11 DEF StartCluster
<1>12. CASE PowerCut
  BY <1>12 DEF PowerCut
<1>13. ASSUME NEW d \in Deployments, NEW n \in Counts, Scale(d, n) PROVE CountsKept'
  BY <1>13 DEF Scale
<1>14. CASE Outside
  BY <1>14, OutsideScripts
<1>20. ASSUME NEW n \in Nodes, Cordon(n) \/ Uncordon(n) PROVE CountsKept'
  BY <1>20 DEF Cordon, Uncordon
<1> QED
  BY <1>20, <1>1, <1>2, <1>3, <1>4, <1>5, <1>6, <1>7, <1>8, <1>9, <1>10, <1>11, <1>12, <1>13, <1>14
     DEF Cases, Outside

\* "so cluster-start.sh can restore exactly what was running"
\* (cluster-stop.sh:17-19): for every set of Deployments and nodes, through failed
\* drains, scripts cut short outside the loop that records, power cuts out of
\* service, nodes out of reach and late GPUs.
THEOREM StartRestoresWhatRan == Spec => []RestoresWhatRan
<1>1. Init => Prompted /\ CountsKept
  BY DEF Init, Prompted, CountsKept, Starting
<1>2. CountsKept => RestoresWhatRan
  BY DEF CountsKept, RestoresWhatRan
<1> QED
  BY <1>1, <1>2, InitTypeOK, NextTypeOK, NextPrompted, NextCountsKept, PTL DEF Spec

----------------------------------------------------------------------------
\* The nodes and their pods

LEMMA NextPowered ==
  TypeOK /\ Prompted /\ ScaledDown /\ Drained /\ Powered /\ [Next]_vars => Powered'
<1> SUFFICES ASSUME TypeOK, Prompted, ScaledDown, Drained, Powered, [Next]_vars,
                    mishaps' \intersect {"powercut", "unlisted"} = {}
             PROVE  Powered'
  BY DEF Powered
<1> mishaps \subseteq mishaps' /\ Cases
  BY KnownMishaps, StepCases
<1> USE ClusterAssumption DEF TypeOK, Powered, NoPodWhileDown, Starting, Nodes, Exit, Mishap,
        progress, specs, nodes, history
<1>1. ASSUME NEW d \in Deployments, Annotate(d) PROVE Powered'
  BY <1>1 DEF Annotate
<1>2. ASSUME NEW d \in Deployments, Restore(d) PROVE Powered'
  BY <1>2 DEF Restore
<1>3. ASSUME NEW n \in Nodes, DrainWorker(n) PROVE Powered'
  BY <1>3 DEF DrainWorker
<1>4. ASSUME NEW n \in Nodes, ShutDown(n) PROVE Powered'
  <2>1. pods = {} /\ \A d \in Deployments : replicas[d] = 0
    BY <1>4 DEF ShutDown, Drained, ScaledDown, Stopping
  <2>2. ~service /\ script' \in {"none", "poweroff"}
    BY <1>4 DEF ShutDown, Prompted
  <2> QED
    BY <1>4, <2>1, <2>2 DEF ShutDown
<1>5. ASSUME NEW n \in Nodes, NodeReady(n) PROVE Powered'
  BY <1>5 DEF NodeReady
<1>6. ASSUME NEW n \in Nodes, PluginChecked(n) PROVE Powered'
  BY <1>6 DEF PluginChecked
<1>7. CASE ScaleDown
  BY <1>7 DEF ScaleDown
<1>8. CASE Terminated \/ DrainFails \/ Quiesced \/ Abort
  BY <1>8 DEF Terminated, DrainFails, Quiesced, Abort
<1>9. CASE ReadyTimeout \/ HoldGpu \/ AwaitRollout \/ RolledOut
  BY <1>9 DEF ReadyTimeout, HoldGpu, AwaitRollout, RolledOut
<1>10. CASE StopCluster \/ StopUnlisted \/ StartCluster
  BY <1>10 DEF StopCluster, StopUnlisted, StartCluster
<1>11. CASE PowerCut
  BY <1>11 DEF PowerCut
<1>12. ASSUME NEW d \in Deployments, NEW n \in Counts, Scale(d, n) PROVE Powered'
  BY <1>12 DEF Scale
<1>13. ASSUME NEW d \in Deployments, CreatePod(d) \/ DeletePod(d) PROVE Powered'
  BY <1>13 DEF CreatePod, DeletePod
<1>14. ASSUME NEW n \in Nodes, PowerOn(n) \/ PluginHealthy(n) PROVE Powered'
  BY <1>14 DEF PowerOn, PluginHealthy
<1>15. CASE UNCHANGED vars
  BY <1>15 DEF vars
<1>20. ASSUME NEW n \in Nodes, Cordon(n) \/ Uncordon(n) PROVE Powered'
  BY <1>20 DEF Cordon, Uncordon
<1> QED
  BY <1>20, <1>1, <1>2, <1>3, <1>4, <1>5, <1>6, <1>7, <1>8, <1>9, <1>10, <1>11, <1>12, <1>13, <1>14, <1>15
     DEF Cases

Standing == TypeOK /\ Prompted /\ ScaledDown /\ Drained /\ Powered

LEMMA AlwaysStanding == Spec => []Standing
<1>1. Init => Standing
  BY InitTypeOK, ClusterAssumption
     DEF Init, Standing, Prompted, ScaledDown, Drained, Powered, NoPodWhileDown, Stopping, Starting, Nodes
<1>2. Standing /\ [Next]_vars => Standing'
  BY NextTypeOK, NextPrompted, NextScaledDown, NextDrained, NextPowered DEF Standing
<1> QED
  BY <1>1, <1>2, PTL DEF Spec

\* "No pod object exists ... while the nodes are down" (cluster-stop.sh:8-9): the
\* scripts leave none behind, however often they run, wherever they are cut short
\* and however many nodes there are, as long as cluster-stop.sh gets its list.
THEOREM ScriptsLeaveNoPod == Spec => []NoPodWhileDown
<1>1. Standing => NoPodWhileDown
  BY DEF Standing, Powered, NoPodWhileDown
<1> QED
  BY <1>1, AlwaysStanding, PTL

----------------------------------------------------------------------------
\* The GPUs and their pods

LEMMA NextGpusReady ==
  Standing /\ GpusReady /\ [Next]_vars => GpusReady'
<1> SUFFICES ASSUME Standing, GpusReady, [Next]_vars, mishaps' \subseteq {"rerun", "unrecorded"}
             PROVE  GpusReady'
  BY DEF GpusReady
<1> mishaps \subseteq mishaps' /\ Cases
  BY KnownMishaps, StepCases DEF Standing
<1> USE ClusterAssumption DEF Standing, TypeOK, GpusReady, NoStorm, Exit, Mishap, progress, specs, nodes, history
<1>1. ASSUME NEW d \in Deployments, Annotate(d) PROVE GpusReady'
  BY <1>1 DEF Annotate
<1>2. ASSUME NEW d \in Deployments, Restore(d) PROVE GpusReady'
  <2>1. d \in Gpu => healthy = Workers
    BY <1>2 DEF Restore, Prompted
  <2>2. \A e \in Gpu : e # d => replicas'[e] = replicas[e]
    BY <1>2 DEF Restore
  <2> QED
    BY <1>2, <2>1, <2>2 DEF Restore
<1>3. ASSUME NEW n \in Nodes, DrainWorker(n) PROVE GpusReady'
  BY <1>3 DEF DrainWorker
<1>4. ASSUME NEW n \in Nodes, ShutDown(n) PROVE GpusReady'
  <2>1. \A d \in Deployments : replicas[d] = 0
    BY <1>4 DEF ShutDown, ScaledDown, Stopping
  <2>2. ~service /\ script' \in {"none", "poweroff"}
    BY <1>4 DEF ShutDown, Prompted
  <2> QED
    BY <1>4, <2>1, <2>2 DEF ShutDown
<1>5. ASSUME NEW n \in Nodes, NodeReady(n) PROVE GpusReady'
  BY <1>5 DEF NodeReady
<1>6. ASSUME NEW n \in Nodes, PluginChecked(n) PROVE GpusReady'
  <2>1. mishaps' = mishaps /\ n \in healthy /\ left' = left \ {n} /\ ~service
    BY <1>6 DEF PluginChecked, Prompted
  <2>2. ASSUME left = {n} PROVE healthy = Workers
    <3>1. mishaps \subseteq {"rerun", "unrecorded"} /\ script = "plugin"
      BY <1>6, <2>1 DEF PluginChecked
    <3>2. Workers \subseteq healthy
      BY <2>1, <2>2, <3>1
    <3>3. healthy \subseteq Workers
      OBVIOUS
    <3> QED
      BY <3>2, <3>3
  <2> QED
    BY <1>6, <2>1, <2>2 DEF PluginChecked
<1>7. CASE ScaleDown
  BY <1>7 DEF ScaleDown
<1>8. CASE Terminated \/ DrainFails \/ Quiesced \/ Abort
  BY <1>8 DEF Terminated, DrainFails, Quiesced, Abort
<1>9. CASE ReadyTimeout \/ HoldGpu \/ AwaitRollout \/ RolledOut
  BY <1>9 DEF ReadyTimeout, HoldGpu, AwaitRollout, RolledOut
<1>10. CASE StopCluster \/ StopUnlisted \/ StartCluster
  BY <1>10 DEF StopCluster, StopUnlisted, StartCluster
<1>11. CASE PowerCut
  BY <1>11 DEF PowerCut
<1>12. ASSUME NEW d \in Deployments, NEW n \in Counts, Scale(d, n) PROVE GpusReady'
  <2>1. \A e \in Gpu : Home[e] \in healthy
    BY <1>12 DEF Scale
  <2> QED
    BY <1>12, <2>1 DEF Scale
<1>13. ASSUME NEW d \in Deployments, CreatePod(d) PROVE GpusReady'
  BY <1>13 DEF CreatePod
<1>14. ASSUME NEW d \in Deployments, DeletePod(d) PROVE GpusReady'
  BY <1>14 DEF DeletePod
<1>15. ASSUME NEW n \in Nodes, PowerOn(n) PROVE GpusReady'
  <2>1. \A d \in pods : Home[d] # n
    BY <1>15 DEF PowerOn, Powered, NoPodWhileDown
  <2> QED
    BY <1>15, <2>1 DEF PowerOn
<1>16. ASSUME NEW n \in Nodes, PluginHealthy(n) PROVE GpusReady'
  BY <1>16 DEF PluginHealthy
<1>17. CASE UNCHANGED vars
  BY <1>17 DEF vars
<1>20. ASSUME NEW n \in Nodes, Cordon(n) \/ Uncordon(n) PROVE GpusReady'
  BY <1>20 DEF Cordon, Uncordon
<1> QED
  BY <1>20, <1>1, <1>2, <1>3, <1>4, <1>5, <1>6, <1>7, <1>8, <1>9, <1>10, <1>11, <1>12, <1>13,
     <1>14, <1>15, <1>16, <1>17 DEF Cases

\* No GPU pod is admitted before its worker's GPU is ready, and so none has to be
\* admitted again and again (cluster-start.sh:10-18): for every set of GPU
\* Deployments, whatever is run twice or cut short in between.
THEOREM NoAdmissionStorm == Spec => []NoStorm
<1>1. Init => GpusReady
  BY ClusterAssumption DEF Init, GpusReady, NoStorm
<1>2. GpusReady => NoStorm
  BY DEF GpusReady, NoStorm
<1> QED
  BY <1>1, <1>2, AlwaysStanding, NextGpusReady, PTL DEF Spec
=============================================================================
