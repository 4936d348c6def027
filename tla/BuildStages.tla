------------------------------ MODULE BuildStages ------------------------------
(***************************************************************************)
(* What the six stages of a build do with the files they hand on to each   *)
(* other: resolve, download, prepare, compile, assemble, package.  All     *)
(* runs of a build share the workspace directory named after the job, and  *)
(* a run that fails removes it; a run that panics leaves it.  The rows and *)
(* the queue are in BuildManager, the kernel configuration in KernelConfig *)
(* and the image formats in ImageGeneration.                               *)
(*                                                                         *)
(* A file is named by its path where a stage looks for it, or by what      *)
(* tells two versions apart: a source tree by component and version, a     *)
(* kernel and its modules by the version they were built from.             *)
(***************************************************************************)
EXTENDS Naturals, Sequences, FiniteSets, Functions

CONSTANTS
  Builders,     \* workers that run the build
  Parts,        \* components of the catalogue
  Kernel,       \* the component named after the kernel
  Releases,     \* versions of components
  Linked,       \* components whose archives hold links
  Snapshots,    \* configurations a build may be submitted with
  MaxStarts,    \* runs of the build
  MaxChanges    \* changes to the catalogue and the storage while it runs

Unset == 0

StagesAssumption ==
  /\ Kernel \in Parts /\ Linked \subseteq Parts
  /\ Releases \subseteq Nat \ {Unset}
  /\ MaxStarts \in Nat /\ MaxChanges \in Nat
  /\ \A c \in Snapshots : /\ c.wants \in Seq(Parts \ {Kernel})
                          /\ c.pinned \in [Parts -> Releases \cup {Unset}]
                          /\ c.boot \in {"grub2", "systemd-boot", "uki"}
                          /\ c.init \in {"systemd", "openrc"}
                          /\ c.security \in {"none", "selinux", "apparmor"}
                          /\ c.container \in BOOLEAN /\ c.board \in BOOLEAN
ASSUME StagesAssumption

VARIABLES
  offered,   \* the catalogue: default version and whether it fits the architecture
  fetched,   \* completed download jobs: component and version
  kept,      \* artifacts in storage: component and version
  job,       \* the row of the build, its entries in the queue, its configuration
  runs,      \* the run of each worker
  space,     \* the workspace of the build
  shipped,   \* images uploaded
  changes

stageVars == <<offered, fetched, kept, job, runs, space, shipped, changes>>

\* A root filesystem: its kernel, its modules, and the other files.
NoRootfs == [kernel |-> Unset, modules |-> {}, files |-> {}]
NoSpace == [made |-> FALSE, config |-> FALSE, scripts |-> FALSE, trees |-> {}, kernel |-> Unset,
            modules |-> {}, rootfs |-> NoRootfs]
Resting == [at |-> "rest", todo |-> <<>>, got |-> <<>>, dir |-> <<>>,
            alone |-> TRUE, image |-> NoRootfs]

StagesInit ==
  /\ \E v \in Releases \cup {Unset} : offered = [p \in Parts |-> [default |-> v, fits |-> TRUE]]
  /\ fetched = {} /\ kept = Parts \X Releases
  /\ \E c \in Snapshots : job = [status |-> "pending", queued |-> 1, starts |-> 0, config |-> c]
  /\ runs = [b \in Builders |-> Resting]
  /\ space = NoSpace
  /\ shipped = <<>>
  /\ changes = 0

At(b, s) == runs[b].at = s
Alive == {b \in Builders : ~At(b, "rest")}
MoveTo(b, s) == runs' = [runs EXCEPT ![b].at = s]
Inputs == <<offered, fetched, kept, changes>>

\* A stage returns an error: of itself, because a command is killed, or
\* because a check of the context finds the build cancelled.
Errs(b) == MoveTo(b, "mark_failed")

(************************* the catalogue and storage *********************)
Changing(action) == changes < MaxChanges /\ changes' = changes + 1 /\ action
                    /\ UNCHANGED <<job, runs, space, shipped>>

\* Component handlers and version discovery.
DefaultChanges ==
  \E p \in DOMAIN offered, v \in Releases :
    Changing(offered' = [offered EXCEPT ![p].default = v] /\ UNCHANGED <<fetched, kept>>)
ComponentEdited ==
  \E p \in DOMAIN offered :
    Changing(offered' = [offered EXCEPT ![p].fits = ~@] /\ UNCHANGED <<fetched, kept>>)
ComponentDeleted ==
  \E p \in DOMAIN offered :
    Changing(offered' = Restrict(offered, DOMAIN offered \ {p}) /\ UNCHANGED <<fetched, kept>>)
ArtifactDeleted ==
  \E a \in kept : Changing(kept' = kept \ {a} /\ UNCHANGED <<offered, fetched>>)
DownloadCompletes ==
  \E a \in (DOMAIN offered) \X Releases :
    Changing(kept' = kept \cup {a} /\ fetched' = fetched \cup {a} /\ UNCHANGED offered)

(****************************** the requests *****************************)
\* The dispatcher queues a pending build again until a worker takes it.
DispatchAgain ==
  /\ job.status = "pending" /\ job.queued < 2
  /\ job' = [job EXCEPT !.queued = @ + 1]
  /\ UNCHANGED <<Inputs, runs, space, shipped>>

\* A run whose context is cancelled errs later, at a command or a check.
CancelBuild ==
  /\ job.status \notin {"completed", "failed", "cancelled"}
  /\ job' = [job EXCEPT !.status = "cancelled"]
  /\ UNCHANGED <<Inputs, runs, space, shipped>>

RetryBuild ==
  /\ job.status \in {"failed", "cancelled"} /\ job.starts < MaxStarts
  /\ job' = [job EXCEPT !.status = "pending"]
  /\ UNCHANGED <<Inputs, runs, space, shipped>>

(**************************** the start of a run *************************)
\* The elements of s that are in S, in their order.
Only(s, S) ==
  LET first[n \in 0..Len(s)] == IF n = 0 THEN <<>>
                                ELSE IF s[n] \in S THEN Append(first[n - 1], s[n]) ELSE first[n - 1]
  IN first[Len(s)]

\* getRequiredComponents: the kernel whether or not there is one, and what
\* of the configuration the catalogue knows.
Required(c) == <<Kernel>> \o Only(c.wants, DOMAIN offered)

\* MarkStarted, ValidateBuildEnvironment and the workspace directories.
StartRun(b) ==
  /\ At(b, "rest") /\ job.queued > 0 /\ job.starts < MaxStarts
  /\ job' = [job EXCEPT !.status = "resolving", !.queued = @ - 1, !.starts = @ + 1]
  /\ runs' = [c \in Builders |->
                IF c = b THEN [Resting EXCEPT !.at = "resolve", !.todo = Required(job.config), !.alone = Alive = {}]
                ELSE [runs[c] EXCEPT !.alone = FALSE]]
  /\ space' = [space EXCEPT !.made = TRUE]
  /\ UNCHANGED <<Inputs, shipped>>

StartFails(b) ==
  /\ At(b, "rest") /\ job.queued > 0 /\ job.starts < MaxStarts
  /\ job' = [job EXCEPT !.status = "failed", !.queued = @ - 1, !.starts = @ + 1]
  /\ UNCHANGED <<Inputs, runs, space, shipped>>

(********************************* resolve *******************************)
VersionOf(p) == IF job.config.pinned[p] # Unset THEN job.config.pinned[p] ELSE offered[p].default

\* A completed download job of the version, or an artifact in storage.
Available(p, v) == <<p, v>> \in fetched \cup kept

Resolvable(p) == p \in DOMAIN offered /\ (offered[p].fits => VersionOf(p) # Unset /\ Available(p, VersionOf(p)))

\* A component that is in a list already stays as it is.
With(f, p, v) == [q \in DOMAIN f \cup {p} |-> IF q \in DOMAIN f THEN f[q] ELSE v]

\* One turn of the loop over the required components.
ResolveComponent(b) ==
  /\ At(b, "resolve") /\ runs[b].todo # <<>>
  /\ LET p == Head(runs[b].todo)
     IN IF Resolvable(p)
        THEN runs' = [runs EXCEPT ![b].todo = Tail(@),
                                  ![b].got = IF offered[p].fits THEN With(runs[b].got, p, VersionOf(p)) ELSE @]
        ELSE Errs(b)
  /\ UNCHANGED <<Inputs, job, space, shipped>>

\* The kernel configuration is linked or copied into the workspace.
FetchConfig(b) ==
  /\ At(b, "resolve") /\ runs[b].todo = <<>>
  /\ space' = [space EXCEPT !.made = TRUE, !.config = TRUE]
  /\ MoveTo(b, "toolchain")
  /\ UNCHANGED <<Inputs, job, shipped>>

\* What the stages go through once more: the components that were resolved.
Again(b, s) ==
  runs' = [runs EXCEPT ![b].at = s,
                       ![b].todo = Only(<<Kernel>> \o job.config.wants, DOMAIN runs[b].got)]

\* In a container, or with a toolchain component, no tools are looked for.
CheckToolchain(b) ==
  /\ At(b, "toolchain")
  /\ IF DOMAIN runs[b].got = {} THEN Errs(b) ELSE Again(b, "download")
  /\ UNCHANGED <<Inputs, job, space, shipped>>

(********************************* download ******************************)
CheckDownload(b) ==
  /\ At(b, "download") /\ runs[b].todo # <<>>
  /\ LET p == Head(runs[b].todo)
     IN IF <<p, runs[b].got[p]>> \in kept THEN runs' = [runs EXCEPT ![b].todo = Tail(@)] ELSE Errs(b)
  /\ UNCHANGED <<Inputs, job, space, shipped>>

DownloadsVerified(b) ==
  /\ At(b, "download") /\ runs[b].todo = <<>>
  /\ MoveTo(b, "dirs")
  /\ UNCHANGED <<Inputs, job, space, shipped>>

(********************************* prepare *******************************)
PrepareWorkspace(b) ==
  /\ At(b, "dirs")
  /\ space' = [space EXCEPT !.made = TRUE]
  /\ Again(b, "prepare")
  /\ UNCHANGED <<Inputs, job, shipped>>

Trees(p) == {v \in Releases : <<p, v>> \in space.trees}

\* A link of the archive that is there already is an error.
Extractable(p, v) == <<p, v>> \in kept /\ ~(p \in Linked /\ v \in Trees(p))

\* The only directory there is, or else the directory they are all in.
FindSourceDir(found) == IF \E v \in found : found = {v} THEN CHOOSE v \in found : TRUE ELSE Unset

\* Mutant: the version is looked up again in the catalogue.
MUT_ExtractDefault(b) ==
  /\ At(b, "prepare") /\ runs[b].todo # <<>>
  /\ LET p == Head(runs[b].todo)
         v == IF p \in DOMAIN offered THEN VersionOf(p) ELSE runs[b].got[p]
     IN IF space.made /\ Extractable(p, v)
        THEN /\ space' = [space EXCEPT !.trees = @ \cup {<<p, v>>}]
             /\ runs' = [runs EXCEPT ![b].todo = Tail(@),
                                     ![b].dir = With(runs[b].dir, p, FindSourceDir(Trees(p) \cup {v}))]
        ELSE Errs(b) /\ space' = space
  /\ UNCHANGED <<Inputs, job, shipped>>

ExtractComponent(b) ==
  /\ At(b, "prepare") /\ runs[b].todo # <<>>
  /\ LET p == Head(runs[b].todo)
         v == runs[b].got[p]
     IN IF space.made /\ Extractable(p, v)
        THEN /\ space' = [space EXCEPT !.trees = @ \cup {<<p, v>>}]
             /\ runs' = [runs EXCEPT ![b].todo = Tail(@),
                                     ![b].dir = With(runs[b].dir, p, FindSourceDir(Trees(p) \cup {v}))]
        ELSE Errs(b) /\ space' = space
  /\ UNCHANGED <<Inputs, job, shipped>>

\* MkdirAll makes the workspace anew when it is gone.
GenerateBuildScripts(b) ==
  /\ At(b, "prepare") /\ runs[b].todo = <<>>
  /\ space' = [space EXCEPT !.made = TRUE, !.scripts = TRUE]
  /\ MoveTo(b, "compile")
  /\ UNCHANGED <<Inputs, job, shipped>>

(********************************* compile *******************************)
HasKernel(b) == Kernel \in DOMAIN runs[b].got
SourceTree(b) == <<Kernel, runs[b].dir[Kernel]>>

\* Validate, and the configuration of the sources.
Configure(b) ==
  /\ At(b, "compile")
  /\ IF HasKernel(b) /\ space.config /\ space.scripts /\ SourceTree(b) \in space.trees
     THEN MoveTo(b, "make") ELSE Errs(b)
  /\ UNCHANGED <<Inputs, job, space, shipped>>

\* The image, the modules and their installation in kernel-output, by make
\* or by the script in the container; the result is verified.
InstallBuilt(b) ==
  IF SourceTree(b) \in space.trees
  THEN space' = [space EXCEPT !.kernel = runs[b].dir[Kernel], !.modules = @ \cup {runs[b].dir[Kernel]}]
       /\ MoveTo(b, "skeleton")
  ELSE space' = space /\ Errs(b)

MakeKernel(b) ==
  /\ At(b, "make") /\ ~job.config.container
  /\ InstallBuilt(b)
  /\ UNCHANGED <<Inputs, job, shipped>>

MakeInContainer(b) ==
  /\ At(b, "make") /\ job.config.container
  /\ InstallBuilt(b)
  /\ UNCHANGED <<Inputs, job, shipped>>

(******************************** assemble *******************************)
Skeleton == {"bin", "sbin", "etc", "lib", "usr", "var", "boot"}

CreateSkeleton(b) ==
  /\ At(b, "skeleton")
  /\ space' = [space EXCEPT !.made = TRUE, !.rootfs = [space.rootfs EXCEPT !.files = @ \cup Skeleton]]
  /\ MoveTo(b, "kernel")
  /\ UNCHANGED <<Inputs, job, shipped>>

InstallKernel(b) ==
  /\ At(b, "kernel")
  /\ IF space.kernel = Unset
     THEN Errs(b) /\ space' = space
     ELSE /\ space' = [space EXCEPT !.made = TRUE,
                            !.rootfs = [space.rootfs EXCEPT !.files = @ \cup {"boot"}, !.kernel = space.kernel]]
          /\ MoveTo(b, "modules")
  /\ UNCHANGED <<Inputs, job, shipped>>

\* No modules are no error; modules that are there already are kept.
InstallModules(b) ==
  /\ At(b, "modules")
  /\ space' = [space EXCEPT !.rootfs.modules = @ \cup space.modules]
  /\ MoveTo(b, "system")
  /\ UNCHANGED <<Inputs, job, shipped>>

(* What the installers and generators write, where a later step or the     *)
(* boot looks for it; a component's own files are never copied.            *)
SystemdInstall == {"sbin/init", "etc/systemd/system/default.target"}
OpenRCInstall == {"sbin/init", "etc/rc.conf"}
InitInstall == IF job.config.init = "openrc" THEN OpenRCInstall ELSE SystemdInstall

GRUB2Configure == {"boot/grub/grub.cfg"}
SystemdBootConfigure == {"boot/efi/loader/loader.conf"}
UKIConfigure == {"etc/kernel/cmdline"}
BootConfig == IF job.config.boot = "systemd-boot" THEN SystemdBootConfigure
              ELSE IF job.config.boot = "uki" THEN UKIConfigure ELSE GRUB2Configure

SELinuxConfigure == {"etc/selinux/config"}
AppArmorConfigure == {"etc/apparmor/parser.conf"}
SecurityConfig == IF job.config.security = "selinux" THEN SELinuxConfigure
                  ELSE IF job.config.security = "apparmor" THEN AppArmorConfigure ELSE {}

\* Device trees as far as they were compiled, config.txt and firmware.
BoardConfig == IF job.config.board THEN {"boot/dtbs", "boot/config.txt"} ELSE {}

\* Generate builds its tree in a temporary directory, which it removes.
InitramfsGenerate == {}

GenerateFstab == {"etc/fstab"}
GenerateOSRelease == {"etc/os-release"}
ConfigureRootAccount == {"etc/passwd", "etc/group"}
GeneratedFiles == GenerateFstab \cup GenerateOSRelease \cup ConfigureRootAccount

ConfigureSystem(b) ==
  /\ At(b, "system")
  /\ IF Skeleton \subseteq space.rootfs.files
     THEN /\ space' = [space EXCEPT !.rootfs.files = @ \cup InitInstall \cup BootConfig \cup BoardConfig
                                           \cup SecurityConfig \cup InitramfsGenerate \cup GeneratedFiles]
          /\ MoveTo(b, "validate")
     ELSE Errs(b) /\ space' = space
  /\ UNCHANGED <<Inputs, job, shipped>>

\* A missing init is only logged.
Essentials == Skeleton \cup GeneratedFiles
Whole(fs) == Essentials \subseteq fs.files /\ fs.kernel # Unset

ValidateRootfs(b) ==
  /\ At(b, "validate")
  /\ IF Whole(space.rootfs) THEN MoveTo(b, "package") ELSE Errs(b)
  /\ UNCHANGED <<Inputs, job, space, shipped>>

(********************************* package *******************************)
\* Validate of the stage looks for three directories.
ValidatePackage(b) ==
  /\ At(b, "package")
  /\ IF {"boot", "etc", "usr"} \subseteq space.rootfs.files THEN MoveTo(b, "generate") ELSE Errs(b)
  /\ UNCHANGED <<Inputs, job, space, shipped>>

\* The generators copy the directory as they find it.
CopyIntoImage(b) ==
  /\ At(b, "generate")
  /\ IF space.rootfs # NoRootfs
     THEN runs' = [runs EXCEPT ![b].at = "upload", ![b].image = space.rootfs] ELSE Errs(b)
  /\ UNCHANGED <<Inputs, job, space, shipped>>

Shipment(b) == [image |-> runs[b].image, got |-> runs[b].got, alone |-> runs[b].alone]

UploadAndComplete(b) ==
  /\ At(b, "upload")
  /\ shipped' = Append(shipped, Shipment(b))
  /\ job' = [job EXCEPT !.status = "completed"]
  /\ runs' = [runs EXCEPT ![b] = Resting]
  /\ UNCHANGED <<Inputs, space>>

(********************************* failure *******************************)
Working == {"resolve", "toolchain", "download", "dirs", "prepare", "compile", "make", "skeleton", "kernel",
            "modules", "system", "validate", "package", "generate", "upload"}

StageFails(b) ==
  /\ runs[b].at \in Working
  /\ Errs(b)
  /\ UNCHANGED <<Inputs, job, space, shipped>>

\* handleFailure without cleanup.
StagePanics(b) ==
  /\ runs[b].at \in Working
  /\ job' = [job EXCEPT !.status = "failed"]
  /\ runs' = [runs EXCEPT ![b] = Resting]
  /\ UNCHANGED <<Inputs, space, shipped>>

HandleFailure(b) ==
  /\ At(b, "mark_failed")
  /\ job' = [job EXCEPT !.status = "failed"]
  /\ MoveTo(b, "clean")
  /\ UNCHANGED <<Inputs, space, shipped>>

\* RemoveAll takes the directories of the workspace one by one, boot and lib of the
\* root filesystem among them.
Removal == {[space EXCEPT !.config = FALSE], [space EXCEPT !.scripts = FALSE], [space EXCEPT !.trees = {}],
            [space EXCEPT !.kernel = Unset, !.modules = {}], [space EXCEPT !.rootfs.kernel = Unset],
            [space EXCEPT !.rootfs.modules = {}], [space EXCEPT !.rootfs.files = {}]}
RemoveDirectory(b) ==
  /\ At(b, "clean")
  /\ \E left \in Removal \ {space} : space' = left
  /\ UNCHANGED <<Inputs, job, runs, shipped>>

CleanedUp(b) ==
  /\ At(b, "clean")
  /\ [space EXCEPT !.made = FALSE] = NoSpace
  /\ runs' = [runs EXCEPT ![b] = Resting]
  /\ space' = NoSpace
  /\ UNCHANGED <<Inputs, job, shipped>>

StagesNext ==
  \/ DefaultChanges \/ ComponentEdited \/ ComponentDeleted \/ ArtifactDeleted \/ DownloadCompletes
  \/ DispatchAgain \/ CancelBuild \/ RetryBuild
  \/ \E b \in Builders :
       \/ StartRun(b) \/ StartFails(b) \/ ResolveComponent(b) \/ FetchConfig(b) \/ CheckToolchain(b)
       \/ CheckDownload(b) \/ DownloadsVerified(b) \/ PrepareWorkspace(b) \/ ExtractComponent(b) \/ GenerateBuildScripts(b)
       \/ Configure(b) \/ MakeKernel(b) \/ MakeInContainer(b)
       \/ CreateSkeleton(b) \/ InstallKernel(b) \/ InstallModules(b) \/ ConfigureSystem(b)
       \/ ValidateRootfs(b) \/ ValidatePackage(b) \/ CopyIntoImage(b) \/ UploadAndComplete(b)
       \/ StageFails(b) \/ StagePanics(b) \/ HandleFailure(b) \/ RemoveDirectory(b) \/ CleanedUp(b)

StagesSpec == StagesInit /\ [][StagesNext]_stageVars

(******************************* properties ******************************)
\* Types; and only a workspace that was made holds anything.
StagesTypeOK ==
  /\ job.status \in {"pending", "resolving", "completed", "failed", "cancelled"}
  /\ job.queued \in 0..2 /\ job.starts \in 0..MaxStarts
  /\ \A b \in Builders : /\ runs[b].at \in Working \cup {"rest", "mark_failed", "clean"}
                         /\ runs[b].got \in UNION {[S -> Releases] : S \in SUBSET Parts}
                         /\ DOMAIN runs[b].dir \subseteq DOMAIN runs[b].got
  /\ space.trees \subseteq Parts \X Releases /\ space.modules \subseteq Releases
  /\ (space.config \/ space.trees # {} \/ space.rootfs # NoRootfs) => space.made

\* The image of a build that no other run of the build overlapped is whole,
\* and its kernel and modules are of the version that run resolved, whatever
\* an earlier run that panicked left in the workspace (findSourceDir,
\* cleanup, InstallKernel, InstallModules).
ImageOfResolvedVersions ==
  \A i \in DOMAIN shipped :
    LET s == shipped[i] IN s.alone => /\ Whole(s.image)
                                      /\ s.image.kernel = s.got[Kernel]
                                      /\ s.image.modules = {s.got[Kernel]}
=============================================================================
