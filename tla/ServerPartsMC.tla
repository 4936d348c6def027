---------------------------- MODULE ServerPartsMC ----------------------------
(***************************************************************************)
(* Five models of parts of the server, checked in one run: the stages of a *)
(* build in its workspace, the kernel configuration of a distribution, the *)
(* images on the loop devices of the host, the database over restarts, and *)
(* the limit on requests.  They share no state.  A behaviour takes one of  *)
(* them, which the initial state chooses, and the others stay where they   *)
(* begin, so the states of the run are the sum of the five and not their   *)
(* product.                                                                *)
(***************************************************************************)
EXTENDS BuildStagesMC, KernelConfigMC, ImageGenerationMC, Persistence, RateLimiter, TLC

VARIABLE part

serverVars == <<part, stageVars, kernelVars, imageVars, persistVars, limiterVars>>

\* A build in a container has its version pinned, whatever the default is.
StagesStart == StagesInit /\ (job.config.container => offered[Kernel].default = 1)

\* The state in which a part that is not taken stays.
StagesRest == /\ StagesInit
              /\ offered[Kernel].default = Unset
              /\ job.config = CHOOSE c \in Snapshots : TRUE
KernelRest == KernelInit /\ stored = NoArtifact /\ local /\ row = CHOOSE c \in Configs : TRUE
PersistRest == PersistInit /\ disk = NoSave

ServerInit ==
  /\ part \in {"stages", "kernel", "images", "database", "requests"}
  /\ IF part = "stages" THEN StagesStart ELSE StagesRest
  /\ IF part = "kernel" THEN KernelInit ELSE KernelRest
  /\ IF part = "database" THEN PersistInit ELSE PersistRest
  /\ ImageInit /\ LimiterInit

\* A build with make of the catalogue's version 1 is run by two workers at once,
\* and the catalogue stays as it is; the other builds are run by one worker after
\* the other, and the catalogue may change.
Overlapping == changes = 0 /\ ~job.config.container /\ offered[Kernel].default = 1
StagesStep == /\ StagesNext
              /\ IF Overlapping THEN changes' = 0 ELSE Cardinality(Alive') <= 1

ServerNext ==
  /\ UNCHANGED part
  /\ \/ /\ part = "stages" /\ StagesStep
        /\ UNCHANGED <<kernelVars, imageVars, persistVars, limiterVars>>
     \/ /\ part = "kernel" /\ KernelNext
        /\ UNCHANGED <<stageVars, imageVars, persistVars, limiterVars>>
     \/ /\ part = "images" /\ ImageNext
        /\ UNCHANGED <<stageVars, kernelVars, persistVars, limiterVars>>
     \/ /\ part = "database" /\ PersistNext
        /\ UNCHANGED <<stageVars, kernelVars, imageVars, limiterVars>>
     \/ /\ part = "requests" /\ LimiterNext
        /\ UNCHANGED <<stageVars, kernelVars, imageVars, persistVars>>

ServerSpec == ServerInit /\ [][ServerNext]_serverVars

\* The types of the parts, and what they say of a workspace, of the mounts of
\* an image and of the schema.
ServerTypeOK ==
  /\ part = "stages" => StagesTypeOK
  /\ part = "kernel" => KernelTypeOK
  /\ part = "images" => ImageTypeOK
  /\ part = "database" => PersistTypeOK
  /\ part = "requests" => LimiterTypeOK

\* The workers that run one build are alike.
Alike == Permutations(Builders)
=============================================================================
