----------------------------- MODULE KernelConfig -----------------------------
(***************************************************************************)
(* The kernel configuration of one distribution, from the row that the     *)
(* user edits to the .config that a build compiles: the handlers that      *)
(* write the configuration artifact (HandleUpdate,                         *)
(* HandleUploadKernelConfig), the resolve stage that links or copies it    *)
(* into the workspace of a build, and the compile stage that reads it      *)
(* twice, for its mode and for its options.                                *)
(*                                                                         *)
(* An option stands for a group of CONFIG_ lines that are written          *)
(* together.  A file is a mode with one line per option: "y" and "m" are   *)
(* assignments, "n" is the comment "# CONFIG_X is not set", "-" no line.   *)
(***************************************************************************)
EXTENDS Naturals

CONSTANTS
  Builds,          \* builds of the distribution, submitted and retried
  Editors,         \* requests that change the configuration
  Configs,         \* configurations that a user may save
  CustomFile,      \* the lines of the configuration a user may upload
  ArchDefconfig,   \* the lines of the defconfig of the architecture
  BoardDefconfig,  \* the lines of the defconfig that the board profile names
  KconfigDefaults, \* what olddefconfig makes of an empty .config
  Overlay,         \* the kernel overlay of the board profile
  MaxRuns          \* runs of a build, the first one and its retries

Options == {"base", "ext4", "xfs", "kvm"}
Values == {"y", "m", "n"}
Lines == [Options -> Values \cup {"-"}]
Modes == {"defconfig", "options", "custom"}

KernelConfigAssumption ==
  /\ Configs \subseteq [mode: Modes, fs: {"ext4", "xfs"}, kvm: BOOLEAN, user: Lines]
  /\ {CustomFile, ArchDefconfig, BoardDefconfig, KconfigDefaults, Overlay} \subseteq Lines
  /\ MaxRuns \in Nat \ {0}
ASSUME KernelConfigAssumption

VARIABLES
  row,      \* the configuration in the row of the distribution
  stored,   \* the artifact in storage
  local,    \* the storage is a directory, not S3
  editor,   \* what each request has read and where it is
  build     \* the builds

kernelVars == <<row, stored, local, editor, build>>

NoLines == [o \in Options |-> "-"]
NoArtifact == [mode |-> "missing", lines |-> NoLines]
Empty == [mode |-> "", lines |-> NoLines]

\* The lines of b over those of a.
Over(a, b) == [o \in Options |-> IF b[o] = "-" THEN a[o] ELSE b[o]]

Recommended(cfg) ==
  [o \in Options |-> IF o \in {"base", cfg.fs} THEN "y" ELSE IF o = "kvm" /\ cfg.kvm THEN "m" ELSE "-"]

DefconfigFragment(cfg) == [mode |-> "defconfig", lines |-> Recommended(cfg)]
OptionsFragment(cfg) == [mode |-> "options", lines |-> Over(Recommended(cfg), cfg.user)]
Custom == [mode |-> "custom", lines |-> CustomFile]

\* What GenerateAndStore writes; a custom configuration that was uploaded
\* has no path to fetch it from, which is an error.
Generated(cfg) == {f \in {DefconfigFragment(cfg), OptionsFragment(cfg)} : f.mode = cfg.mode}

Idle == [pc |-> "idle", seen |-> row, file |-> NoArtifact]
Waiting == [pc |-> "new", snap |-> row, ws |-> "none", copy |-> NoArtifact, mode |-> "",
            container |-> FALSE, board |-> FALSE, runs |-> 0, read |-> NoArtifact, config |-> NoLines]

KernelInit ==
  /\ row \in Configs
  /\ stored \in {NoArtifact} \cup Generated(row)
  /\ local \in BOOLEAN
  /\ editor = [e \in Editors |-> Idle]
  /\ build = [b \in Builds |-> Waiting]

Move(e, pc) == editor' = [editor EXCEPT ![e].pc = pc]

(***************************** the requests ******************************)
\* A request reads the row before it writes all of it.
AskUpdate(e) ==
  /\ editor[e].pc = "idle"
  /\ \E cfg \in Configs : editor' = [editor EXCEPT ![e] = [pc |-> "row", seen |-> cfg, file |-> NoArtifact]]
  /\ UNCHANGED <<row, stored, local, build>>

UpdateRow(e) ==
  /\ editor[e].pc = "row"
  /\ row' = editor[e].seen
  /\ Move(e, "generate")
  /\ UNCHANGED <<stored, local, build>>

\* Any error of the generation is only logged.
GenerateAndStore(e) ==
  /\ editor[e].pc = "generate"
  /\ \/ Move(e, "done")
     \/ \E f \in Generated(editor[e].seen) :
          editor' = [editor EXCEPT ![e].pc = "open", ![e].file = f]
  /\ UNCHANGED <<row, stored, local, build>>

AskUpload(e) ==
  /\ editor[e].pc = "idle"
  /\ editor' = [editor EXCEPT ![e] = [pc |-> "open", seen |-> [row EXCEPT !.mode = "custom"],
                                      file |-> Custom]]
  /\ UNCHANGED <<row, stored, local, build>>

\* The local backend empties the file and then writes it; S3 replaces the
\* object.
OpenArtifact(e) ==
  /\ editor[e].pc = "open" /\ local
  /\ stored' = Empty
  /\ Move(e, "write")
  /\ UNCHANGED <<row, local, build>>

WriteArtifact(e) ==
  /\ editor[e].pc = IF local THEN "write" ELSE "open"
  /\ stored' = editor[e].file
  /\ Move(e, IF editor[e].file = Custom THEN "custom" ELSE "done")
  /\ UNCHANGED <<row, local, build>>

SetCustomMode(e) ==
  /\ editor[e].pc = "custom"
  /\ row' = editor[e].seen
  /\ Move(e, "done")
  /\ UNCHANGED <<stored, local, build>>

(****************************** the builds *******************************)
Set(b, new) ==
  build' = [build EXCEPT ![b] =
              [f \in DOMAIN build[b] |-> IF f \in DOMAIN new THEN new[f] ELSE build[b][f]]]
Fail(b) == Set(b, [pc |-> "failed", ws |-> "none"])

\* The executor and the board come from the settings at the time of the run.
Submit(b) ==
  /\ build[b].pc = "new"
  /\ \E c, p \in BOOLEAN :
       Set(b, [pc |-> "fetch", snap |-> row, container |-> c, board |-> p, runs |-> 1])
  /\ UNCHANGED <<row, stored, local, editor>>

\* RetryBuild runs the same job, in the same workspace, from the same
\* snapshot of the configuration.
Retry(b) ==
  /\ build[b].pc \in {"failed", "panicked"}
  /\ build[b].runs < MaxRuns
  /\ \E c \in BOOLEAN : Set(b, [pc |-> "fetch", container |-> c, runs |-> build[b].runs + 1])
  /\ UNCHANGED <<row, stored, local, editor>>

FetchLink(b) ==
  /\ build[b].pc = "fetch"
  /\ local /\ stored # NoArtifact /\ build[b].ws = "none"
  /\ Set(b, [pc |-> "mode", ws |-> "link"])
  /\ UNCHANGED <<row, stored, local, editor>>

\* downloadToFile: when the link of an earlier run is still there, creating
\* the copy goes through the link and empties the artifact itself.
FetchCopy(b) ==
  /\ build[b].pc = "fetch"
  /\ stored # NoArtifact /\ (local => build[b].ws # "none")
  /\ IF build[b].ws = "link"
     THEN stored' = Empty /\ Set(b, [pc |-> "mode"])
     ELSE stored' = stored /\ Set(b, [pc |-> "mode", ws |-> "copy", copy |-> stored])
  /\ UNCHANGED <<row, local, editor>>

\* Any error of the fetch counts as a missing artifact, and one is generated
\* from the snapshot of the build.
FetchMissing(b) ==
  /\ build[b].pc = "fetch"
  /\ stored = NoArtifact \/ ~local
  /\ IF Generated(build[b].snap) = {}
     THEN Fail(b) /\ stored' = stored
     ELSE stored' \in Generated(build[b].snap) /\ build' = build
  /\ UNCHANGED <<row, local, editor>>

ConfigFile(b) == IF build[b].ws = "link" THEN stored ELSE build[b].copy

\* A file without a mode counts as a defconfig.
ParseConfigMode(b) ==
  /\ build[b].pc = "mode"
  /\ LET m == ConfigFile(b).mode
     IN Set(b, [pc |-> "config", mode |-> IF m \in Modes THEN m ELSE "defconfig"])
  /\ UNCHANGED <<row, stored, local, editor>>

\* Both executors skip every line that starts with "#".
Assignments(lines) == [o \in Options |-> IF lines[o] = "n" THEN "-" ELSE lines[o]]

\* applyKconfigOptions, and the loop of the script that does the same.
MUT_OverlayFirst(base, lines, overlay) ==
  Over(Over(base, Assignments(overlay)), Assignments(lines))
ApplyOptions(base, lines, overlay) ==
  Over(Over(base, Assignments(lines)), Assignments(overlay))

BoardOverlay(b) == IF build[b].board THEN Overlay ELSE NoLines

\* olddefconfig keeps what the file says of an option and completes the rest.
Compiled(b, file, config) ==
  Set(b, [pc |-> "compiled", read |-> file, config |-> Over(KconfigDefaults, config)])

ConfigureDirect(b) ==
  /\ build[b].pc = "config" /\ ~build[b].container
  /\ LET f == ConfigFile(b)
     IN Compiled(b, f,
          IF build[b].mode = "custom" THEN f.lines
          ELSE ApplyOptions(IF build[b].board THEN BoardDefconfig ELSE ArchDefconfig,
                            f.lines, BoardOverlay(b)))
  /\ UNCHANGED <<row, stored, local, editor>>

\* The container mounts the directory that holds the link, not the storage
\* that the link leads to: the file cannot be opened there.  The script
\* ignores that for a custom configuration and ends with an error else.
ConfigureInContainer(b) ==
  /\ build[b].pc = "config" /\ build[b].container
  /\ LET f == IF build[b].ws = "link" THEN NoArtifact ELSE build[b].copy
     IN IF build[b].mode = "custom" THEN Compiled(b, f, f.lines)
        ELSE IF f = NoArtifact THEN Fail(b)
        ELSE Compiled(b, f, ApplyOptions(ArchDefconfig, f.lines, BoardOverlay(b)))
  /\ UNCHANGED <<row, stored, local, editor>>

\* An error or a cancellation removes the workspace, a panic leaves it.
StageError(b) ==
  /\ build[b].pc \in {"fetch", "mode", "config"}
  /\ Fail(b)
  /\ UNCHANGED <<row, stored, local, editor>>

StagePanic(b) ==
  /\ build[b].pc \in {"fetch", "mode", "config"}
  /\ Set(b, [pc |-> "panicked"])
  /\ UNCHANGED <<row, stored, local, editor>>

KernelNext ==
  \/ \E e \in Editors : \/ AskUpdate(e) \/ UpdateRow(e) \/ GenerateAndStore(e) \/ AskUpload(e)
                        \/ OpenArtifact(e) \/ WriteArtifact(e) \/ SetCustomMode(e)
  \/ \E b \in Builds : \/ Submit(b) \/ Retry(b) \/ FetchLink(b) \/ FetchCopy(b) \/ FetchMissing(b)
                       \/ ParseConfigMode(b) \/ ConfigureDirect(b) \/ ConfigureInContainer(b)
                       \/ StageError(b) \/ StagePanic(b)

KernelSpec == KernelInit /\ [][KernelNext]_kernelVars
(****************************** properties *******************************)
\* Types; and a build runs no more often than it is submitted and retried.
KernelTypeOK ==
  /\ row \in Configs \cup {[c EXCEPT !.mode = "custom"] : c \in Configs}
  /\ stored \in [mode: Modes \cup {"", "missing"}, lines: Lines]
  /\ local \in BOOLEAN
  /\ \A e \in Editors :
       editor[e].pc \in {"idle", "row", "generate", "open", "write", "custom", "done"}
  /\ \A b \in Builds :
       /\ build[b].pc \in {"new", "fetch", "mode", "config", "compiled", "failed", "panicked"}
       /\ build[b].ws \in {"none", "link", "copy"}
       /\ build[b].runs \in 0..MaxRuns
       /\ build[b].config \in Lines

\* Whatever is edited while the build runs, whichever executor runs it and
\* whatever the board, an option that the overlay of the board enables, or
\* that the artifact enables and the overlay leaves alone, is enabled in the
\* configuration that the kernel is compiled with
\* (CompileStage.applyKconfigOptions and the loop of generateBuildScript).
EnabledOptionsApplied ==
  \A b \in Builds, o \in Options :
    (build[b].pc = "compiled" /\ build[b].mode # "custom")
      => LET asked == Over(build[b].read.lines, BoardOverlay(b))[o]
         IN asked \in {"y", "m"} => build[b].config[o] = asked

\* The options that the user turned off are off in the configuration that
\* the kernel is compiled with (config.go:114, "Apply the options below").
DisabledOptionsApplied ==
  \A b \in Builds, o \in Options :
    (build[b].pc = "compiled" /\ build[b].mode # "custom" /\ build[b].read.mode = "options")
      => LET asked == Over(build[b].read.lines, BoardOverlay(b))[o]
         IN asked = "n" => build[b].config[o] = "n"

=============================================================================
