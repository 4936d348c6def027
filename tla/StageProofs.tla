---------------------------- MODULE StageProofs ----------------------------
(***************************************************************************)
(* Proofs about the stages of a build.  The options that the artifact or   *)
(* the overlay enables are enabled in what is compiled (KernelConfig), for *)
(* every number of builds and editors and every defconfig, overlay and set *)
(* of configurations; what the generators of images mount they unmount     *)
(* (ImageGeneration), for every number of workers, images and loop         *)
(* devices; and the image of a run that no other run overlapped holds the  *)
(* versions that its first stage resolved (BuildStages), for every number  *)
(* of workers, parts and releases, through any changes of the catalogue    *)
(* and after any number of failed runs.                                    *)
(***************************************************************************)
EXTENDS KernelConfig, ImageGeneration, BuildStages, SequenceTheorems, WellFoundedInduction, TLAPS

-----------------------------------------------------------------------------
(***************************************************************************)
(* The kernel configuration.                                               *)
(***************************************************************************)

Fields == {"pc", "snap", "ws", "copy", "mode", "container", "board", "runs", "read", "config"}

\* Every build is a record with these fields.
BuildsOK == /\ DOMAIN build = Builds
            /\ \A b \in Builds : DOMAIN build[b] = Fields

KernelInv == BuildsOK /\ EnabledOptionsApplied

-----------------------------------------------------------------------------
\* What Set makes of a build, field by field, and that it leaves the others.
LEMMA SetFields ==
  ASSUME BuildsOK, NEW b \in Builds, NEW STATE new, DOMAIN new \subseteq Fields, Set(b, new)
  PROVE  /\ BuildsOK'
         /\ \A c \in Builds \ {b} : build'[c] = build[c]
         /\ \A f \in DOMAIN new : build'[b][f] = new[f]
         /\ \A f \in Fields \ DOMAIN new : build'[b][f] = build[b][f]
  BY DEF Set, BuildsOK

\* The property of one build.
Applied(b) ==
  (build[b].pc = "compiled" /\ build[b].mode # "custom")
    => \A o \in Options :
         LET asked == Over(build[b].read.lines, BoardOverlay(b))[o]
         IN asked \in {"y", "m"} => build[b].config[o] = asked

LEMMA AppliedToAll == EnabledOptionsApplied <=> \A b \in Builds : Applied(b)
  BY DEF EnabledOptionsApplied, Applied

\* A build that nobody touches keeps what it has.
LEMMA AppliedKept ==
  ASSUME NEW b, Applied(b), build'[b] = build[b]
  PROVE  Applied(b)'
  BY DEF Applied, BoardOverlay

\* A change of one build preserves the property of all when it does of that one.
LEMMA OneBuildSet ==
  ASSUME KernelInv, NEW b \in Builds, NEW STATE new, DOMAIN new \subseteq Fields, Set(b, new),
         Applied(b)'
  PROVE  KernelInv'
<1>1. BuildsOK' /\ \A c \in Builds \ {b} : build'[c] = build[c]
  BY SetFields DEF KernelInv
<1>2. \A c \in Builds : Applied(c)'
  <2> TAKE c \in Builds
  <2>1. CASE c = b
    BY <2>1
  <2>2. CASE c # b
    BY <1>1, <2>2, AppliedToAll, AppliedKept DEF KernelInv
  <2> QED
    BY <2>1, <2>2
<1>3. EnabledOptionsApplied'
  BY <1>2 DEF EnabledOptionsApplied, Applied
<1> QED
  BY <1>1, <1>3 DEF KernelInv

\* A build that moves on to another step than the last one has compiled nothing.
LEMMA NotCompiled ==
  ASSUME KernelInv, NEW b \in Builds, NEW STATE new, DOMAIN new \subseteq Fields, Set(b, new),
         "pc" \in DOMAIN new, new["pc"] # "compiled"
  PROVE  KernelInv'
<1>1. build'[b].pc # "compiled"
  BY SetFields DEF KernelInv
<1>2. Applied(b)'
  BY <1>1 DEF Applied
<1> QED
  BY <1>2, OneBuildSet

\* The lines of the file and, over them, those of the overlay win over the
\* defconfig and over what olddefconfig adds.
LEMMA OptionsWin ==
  ASSUME NEW base, NEW lines, NEW overlay, NEW o \in Options,
         Over(lines, overlay)[o] \in {"y", "m"}
  PROVE  Over(KconfigDefaults, ApplyOptions(base, lines, overlay))[o] = Over(lines, overlay)[o]
  BY DEF Over, ApplyOptions, Assignments

\* What the two executors compile has the options.
LEMMA CompiledApplied ==
  ASSUME KernelInv, NEW b \in Builds, NEW STATE file, NEW STATE base,
         Compiled(b, file, ApplyOptions(base, file.lines, BoardOverlay(b)))
  PROVE  KernelInv'
<1> DEFINE config == Over(KconfigDefaults, ApplyOptions(base, file.lines, BoardOverlay(b)))
           new == [pc |-> "compiled", read |-> file, config |-> config]
<1>1. Set(b, new)
  BY DEF Compiled
<1>2. DOMAIN new = {"pc", "read", "config"}
  OBVIOUS
<1>3. /\ build'[b].read = file
      /\ build'[b].config = config
      /\ build'[b].board = build[b].board
  <2>1. new["read"] = file /\ new["config"] = config
    OBVIOUS
  <2> HIDE DEF new, config
  <2>2. DOMAIN new \subseteq Fields
    BY <1>2 DEF Fields
  <2>3. /\ \A f \in DOMAIN new : build'[b][f] = new[f]
        /\ \A f \in Fields \ DOMAIN new : build'[b][f] = build[b][f]
    BY <1>1, <2>2, SetFields DEF KernelInv
  <2> QED
    BY <1>2, <2>1, <2>3 DEF Fields
<1>4. BoardOverlay(b)' = BoardOverlay(b)
  BY <1>3 DEF BoardOverlay
<1>5. Applied(b)'
  <2>1. \A o \in Options : Over(file.lines, BoardOverlay(b))[o] \in {"y", "m"} =>
                             config[o] = Over(file.lines, BoardOverlay(b))[o]
    BY OptionsWin
  <2>2. Over(build[b].read.lines, BoardOverlay(b))' = Over(file.lines, BoardOverlay(b))
    BY <1>3, <1>4 DEF Over
  <2> QED
    BY <1>3, <2>1, <2>2 DEF Applied
<1> HIDE DEF new
<1> QED
  BY <1>1, <1>2, <1>5, OneBuildSet DEF Fields

-----------------------------------------------------------------------------
LEMMA KernelStart == KernelInit => KernelInv
<1> SUFFICES ASSUME KernelInit PROVE KernelInv
  OBVIOUS
<1>1. DOMAIN Waiting = Fields /\ Waiting.pc # "compiled"
  BY DEF Waiting, Fields
<1>2. DOMAIN build = Builds /\ \A b \in Builds : build[b] = Waiting
  BY DEF KernelInit
<1> QED
  BY <1>1, <1>2 DEF KernelInv, BuildsOK, EnabledOptionsApplied

LEMMA KernelUntouched == KernelInv /\ UNCHANGED build => KernelInv'
  BY DEF KernelInv, BuildsOK, EnabledOptionsApplied, BoardOverlay

LEMMA KernelStep == KernelInv /\ [KernelNext]_kernelVars => KernelInv'
<1> SUFFICES ASSUME KernelInv, [KernelNext]_kernelVars PROVE KernelInv'
  OBVIOUS
<1>1. CASE UNCHANGED kernelVars
  BY <1>1, KernelUntouched DEF kernelVars
<1>2. ASSUME NEW e \in Editors,
             \/ AskUpdate(e) \/ UpdateRow(e) \/ GenerateAndStore(e) \/ AskUpload(e)
             \/ OpenArtifact(e) \/ WriteArtifact(e) \/ SetCustomMode(e)
      PROVE  KernelInv'
  BY <1>2, KernelUntouched DEF AskUpdate, UpdateRow, GenerateAndStore, AskUpload,
       OpenArtifact, WriteArtifact, SetCustomMode
<1>3. ASSUME NEW b \in Builds PROVE Fail(b) => KernelInv'
  <2> DEFINE new == [pc |-> "failed", ws |-> "none"]
  <2>1. DOMAIN new = {"pc", "ws"} /\ new["pc"] # "compiled"
    OBVIOUS
  <2>2. Fail(b) => Set(b, new)
    BY DEF Fail
  <2> HIDE DEF new
  <2> QED
    BY <2>1, <2>2, NotCompiled DEF Fields
<1>4. ASSUME NEW b \in Builds, Submit(b) PROVE KernelInv'
  <2>1. PICK c \in BOOLEAN, p \in BOOLEAN :
          Set(b, [pc |-> "fetch", snap |-> row, container |-> c, board |-> p, runs |-> 1])
    BY <1>4 DEF Submit
  <2> DEFINE new == [pc |-> "fetch", snap |-> row, container |-> c, board |-> p, runs |-> 1]
  <2>2. DOMAIN new = {"pc", "snap", "container", "board", "runs"} /\ new["pc"] # "compiled"
    OBVIOUS
  <2> HIDE DEF new
  <2> QED
    BY <2>1, <2>2, NotCompiled DEF Fields, new
<1>5. ASSUME NEW b \in Builds, Retry(b) PROVE KernelInv'
  <2>1. PICK c \in BOOLEAN : Set(b, [pc |-> "fetch", container |-> c, runs |-> build[b].runs + 1])
    BY <1>5 DEF Retry
  <2> DEFINE new == [pc |-> "fetch", container |-> c, runs |-> build[b].runs + 1]
  <2>2. DOMAIN new = {"pc", "container", "runs"} /\ new["pc"] # "compiled"
    OBVIOUS
  <2>3. Set(b, new)
    BY <2>1
  <2> HIDE DEF new
  <2> QED
    BY <2>2, <2>3, NotCompiled DEF Fields
<1>6. ASSUME NEW b \in Builds, FetchLink(b) PROVE KernelInv'
  <2> DEFINE new == [pc |-> "mode", ws |-> "link"]
  <2>1. DOMAIN new = {"pc", "ws"} /\ new["pc"] # "compiled"
    OBVIOUS
  <2>2. Set(b, new)
    BY <1>6 DEF FetchLink
  <2> HIDE DEF new
  <2> QED
    BY <2>1, <2>2, NotCompiled DEF Fields
<1>7. ASSUME NEW b \in Builds, FetchCopy(b) PROVE KernelInv'
  <2> DEFINE emptied == [pc |-> "mode"]
             copied == [pc |-> "mode", ws |-> "copy", copy |-> stored]
  <2>1. DOMAIN emptied = {"pc"} /\ emptied["pc"] # "compiled"
    OBVIOUS
  <2>2. DOMAIN copied = {"pc", "ws", "copy"} /\ copied["pc"] # "compiled"
    OBVIOUS
  <2>3. Set(b, emptied) \/ Set(b, copied)
    BY <1>7 DEF FetchCopy
  <2> HIDE DEF emptied, copied
  <2>4. CASE Set(b, emptied)
    BY <2>1, <2>4, NotCompiled DEF Fields
  <2>5. CASE Set(b, copied)
    BY <2>2, <2>5, NotCompiled DEF Fields
  <2> QED
    BY <2>3, <2>4, <2>5
<1>8. ASSUME NEW b \in Builds, FetchMissing(b) PROVE KernelInv'
  BY <1>3, <1>8, KernelUntouched DEF FetchMissing
<1>9. ASSUME NEW b \in Builds, ParseConfigMode(b) PROVE KernelInv'
  <2> DEFINE m == ConfigFile(b).mode
             new == [pc |-> "config", mode |-> IF m \in Modes THEN m ELSE "defconfig"]
  <2>1. DOMAIN new = {"pc", "mode"} /\ new["pc"] # "compiled"
    OBVIOUS
  <2>2. Set(b, new)
    BY <1>9 DEF ParseConfigMode
  <2> HIDE DEF new
  <2> QED
    BY <2>1, <2>2, NotCompiled DEF Fields
<1>10. ASSUME NEW b \in Builds, StageError(b) PROVE KernelInv'
  BY <1>3, <1>10 DEF StageError
<1>11. ASSUME NEW b \in Builds, StagePanic(b) PROVE KernelInv'
  <2> DEFINE new == [pc |-> "panicked"]
  <2>1. DOMAIN new = {"pc"} /\ new["pc"] # "compiled"
    OBVIOUS
  <2>2. Set(b, new)
    BY <1>11 DEF StagePanic
  <2> HIDE DEF new
  <2> QED
    BY <2>1, <2>2, NotCompiled DEF Fields
<1>12. ASSUME NEW b \in Builds, NEW STATE file, NEW STATE config,
              build[b].mode = "custom", Compiled(b, file, config)
       PROVE  KernelInv'
  <2> DEFINE new == [pc |-> "compiled", read |-> file, config |-> Over(KconfigDefaults, config)]
  <2>1. DOMAIN new = {"pc", "read", "config"}
    OBVIOUS
  <2>2. Set(b, new)
    BY <1>12 DEF Compiled
  <2> HIDE DEF new
  <2>3. build'[b].mode = "custom"
    BY <1>12, <2>1, <2>2, SetFields DEF Fields, KernelInv
  <2>4. Applied(b)'
    BY <2>3 DEF Applied
  <2> QED
    BY <2>1, <2>2, <2>4, OneBuildSet DEF Fields
<1>13. ASSUME NEW b \in Builds, ConfigureDirect(b) PROVE KernelInv'
  <2> DEFINE base == IF build[b].board THEN BoardDefconfig ELSE ArchDefconfig
  <2>1. CASE build[b].mode = "custom"
    <3>1. Compiled(b, ConfigFile(b), ConfigFile(b).lines)
      BY <1>13, <2>1 DEF ConfigureDirect
    <3> QED
      BY <1>12, <2>1, <3>1
  <2>2. CASE build[b].mode # "custom"
    <3>1. Compiled(b, ConfigFile(b), ApplyOptions(base, ConfigFile(b).lines, BoardOverlay(b)))
      BY <1>13, <2>2 DEF ConfigureDirect
    <3> HIDE DEF base
    <3> QED
      BY <3>1, CompiledApplied
  <2> QED
    BY <2>1, <2>2
<1>14. ASSUME NEW b \in Builds, ConfigureInContainer(b) PROVE KernelInv'
  <2> DEFINE f == IF build[b].ws = "link" THEN NoArtifact ELSE build[b].copy
  <2>1. \/ build[b].mode = "custom" /\ Compiled(b, f, f.lines)
        \/ Fail(b)
        \/ Compiled(b, f, ApplyOptions(ArchDefconfig, f.lines, BoardOverlay(b)))
    BY <1>14 DEF ConfigureInContainer
  <2> HIDE DEF f
  <2> QED
    BY <1>3, <1>12, <2>1, CompiledApplied
<1> QED
  BY <1>1, <1>2, <1>4, <1>5, <1>6, <1>7, <1>8, <1>9, <1>10, <1>11, <1>13, <1>14 DEF KernelNext

\* Whatever is edited meanwhile, whichever executor compiles the kernel and
\* however often the build was retried, the options that were asked for are
\* enabled in what is compiled.
THEOREM OptionsAreApplied == KernelSpec => []EnabledOptionsApplied
<1>1. KernelInv => EnabledOptionsApplied
  BY DEF KernelInv
<1> QED
  BY KernelStart, KernelStep, <1>1, PTL DEF KernelSpec

-----------------------------------------------------------------------------
\* Files, configurations and what a build and a request may hold.
RowType == Configs \cup {[c EXCEPT !.mode = "custom"] : c \in Configs}
FileType == [mode: Modes \cup {"", "missing"}, lines: Lines]
EditorType == [pc: {"idle", "row", "generate", "open", "write", "custom", "done"}, seen: RowType, file: FileType]
\* What field f of a build may hold.
HasType(f, v) ==
  /\ f = "pc" => v \in {"new", "fetch", "mode", "config", "compiled", "failed", "panicked"}
  /\ f = "snap" => v \in RowType
  /\ f = "ws" => v \in {"none", "link", "copy"}
  /\ f \in {"copy", "read"} => v \in FileType
  /\ f = "mode" => v \in Modes \cup {""}
  /\ f \in {"container", "board"} => v \in BOOLEAN
  /\ f = "runs" => v \in 0..MaxRuns
  /\ f = "config" => v \in Lines

\* The inductive invariant.
KernelTypes ==
  /\ KernelConfigAssumption
  /\ row \in RowType /\ stored \in FileType /\ local \in BOOLEAN
  /\ editor \in [Editors -> EditorType]
  /\ BuildsOK /\ \A b \in Builds : \A f \in Fields : HasType(f, build[b][f])

\* Lines over lines are lines.
LEMMA OverTyped == \A a, b \in Lines : Over(a, b) \in Lines
  BY DEF Lines, Over

\* So is what the executors read of them.
LEMMA AssignmentsTyped == \A a \in Lines : Assignments(a) \in Lines
  BY DEF Lines, Assignments

\* A file that is missing or empty is a file of the type.
LEMMA NothingTyped == NoLines \in Lines /\ NoArtifact \in FileType /\ Empty \in FileType
  <1>1. NoLines \in Lines
    BY DEF NoLines, Lines
  <1> QED
    BY <1>1 DEF NoArtifact, Empty, FileType

\* A configuration that is edited by hand is still one of a row.
LEMMA RowTyped ==
  ASSUME KernelConfigAssumption, NEW c \in RowType
  PROVE  /\ c.user \in Lines /\ c.mode \in Modes
         /\ [c EXCEPT !.mode = "custom"] \in RowType
  <1>1. \A d \in Configs : d \in [mode: Modes, fs: {"ext4", "xfs"}, kvm: BOOLEAN, user: Lines]
    BY DEF KernelConfigAssumption
  <1>2. PICK d \in Configs : c = d \/ c = [d EXCEPT !.mode = "custom"]
    BY DEF RowType
  <1>3. c.user = d.user /\ c.mode \in Modes
    BY <1>1, <1>2 DEF Modes
  <1>4. [c EXCEPT !.mode = "custom"] = [d EXCEPT !.mode = "custom"]
    BY <1>1, <1>2
  <1>5. [d EXCEPT !.mode = "custom"] \in RowType
    BY DEF RowType
  <1> QED
    BY <1>1, <1>3, <1>4, <1>5

\* So is one that was generated.
LEMMA GeneratedTyped ==
  ASSUME KernelConfigAssumption, NEW c \in RowType, NEW f \in Generated(c)
  PROVE  f \in FileType
  <1>1. c.user \in Lines
    BY RowTyped
  <1>2. Recommended(c) \in Lines
    BY DEF Recommended, Lines, Values
  <1>3. Over(Recommended(c), c.user) \in Lines
    BY <1>1, <1>2, OverTyped
  <1> QED
    <2>1. DefconfigFragment(c) \in FileType
      BY <1>2 DEF DefconfigFragment, FileType, Modes
    <2>2. OptionsFragment(c) \in FileType
      BY <1>3 DEF OptionsFragment, FileType, Modes
    <2> QED
      BY <2>1, <2>2 DEF Generated

\* A change of one build by values of the types.
LEMMA BuildSet ==
  ASSUME KernelTypes, NEW b \in Builds, NEW STATE new, DOMAIN new \subseteq Fields, Set(b, new),
         \A f \in DOMAIN new : HasType(f, new[f])
  PROVE  BuildsOK' /\ \A c \in Builds : \A f \in Fields : HasType(f, build'[c][f])
  <1>1. /\ BuildsOK'
        /\ \A c \in Builds \ {b} : build'[c] = build[c]
        /\ \A f \in DOMAIN new : build'[b][f] = new[f]
        /\ \A f \in Fields \ DOMAIN new : build'[b][f] = build[b][f]
    BY SetFields DEF KernelTypes
  <1> QED
    BY <1>1 DEF KernelTypes

\* What is compiled consists of lines.
LEMMA ApplyTyped ==
  ASSUME KernelConfigAssumption, NEW base \in Lines, NEW lines \in Lines, NEW b
  PROVE  ApplyOptions(base, lines, BoardOverlay(b)) \in Lines
  <1>1. BoardOverlay(b) \in Lines
    BY NothingTyped DEF BoardOverlay, KernelConfigAssumption
  <1>2. Assignments(lines) \in Lines /\ Assignments(BoardOverlay(b)) \in Lines
    BY <1>1, AssignmentsTyped
  <1> QED
    BY <1>2, OverTyped DEF ApplyOptions

\* What is compiled has the type.
LEMMA CompiledTyped ==
  ASSUME KernelTypes, NEW b \in Builds, NEW STATE file, NEW STATE config, file \in FileType, config \in Lines,
         Compiled(b, file, config)
  PROVE  BuildsOK' /\ \A c \in Builds : \A f \in Fields : HasType(f, build'[c][f])
  <1> DEFINE new == [pc |-> "compiled", read |-> file, config |-> Over(KconfigDefaults, config)]
  <1>1. Over(KconfigDefaults, config) \in Lines
    BY OverTyped DEF KernelTypes, KernelConfigAssumption
  <1>2. DOMAIN new = {"pc", "read", "config"} /\ \A f \in DOMAIN new : HasType(f, new[f])
    <2>1. DOMAIN new = {"pc", "read", "config"}
      OBVIOUS
    <2>2. HasType("pc", new["pc"])
      BY <1>1 DEF HasType
    <2>3. HasType("read", new["read"])
      BY <1>1 DEF HasType
    <2>4. HasType("config", new["config"])
      BY <1>1 DEF HasType
    <2> HIDE DEF new
    <2> QED
      BY <2>1, <2>2, <2>3, <2>4
  <1>3. Set(b, new)
    BY DEF Compiled
  <1> HIDE DEF new
  <1> QED
    BY <1>2, <1>3, BuildSet DEF Fields

\* The types hold at the beginning.
LEMMA KernelTypesInit == KernelConfigAssumption /\ KernelInit => KernelTypes
  <1> SUFFICES ASSUME KernelConfigAssumption, KernelInit PROVE KernelTypes
    OBVIOUS
  <1>1. row \in RowType
    BY DEF KernelInit, RowType
  <1>2. stored \in FileType
    BY <1>1, GeneratedTyped, NothingTyped DEF KernelInit
  <1>3. Idle \in EditorType
    BY <1>1, NothingTyped DEF Idle, EditorType
  <1>4. DOMAIN Waiting = Fields /\ \A f \in Fields : HasType(f, Waiting[f])
    <2>1. MaxRuns \in Nat
      BY DEF KernelConfigAssumption
    <2> QED
      BY <1>1, <2>1, NothingTyped DEF Waiting, Fields, HasType
  <1> QED
    BY <1>1, <1>2, <1>3, <1>4 DEF KernelInit, KernelTypes, BuildsOK

\* Requests keep the types.
LEMMA EditorStep ==
  ASSUME KernelTypes, NEW e \in Editors,
         \/ AskUpdate(e) \/ UpdateRow(e) \/ GenerateAndStore(e) \/ AskUpload(e)
         \/ OpenArtifact(e) \/ WriteArtifact(e) \/ SetCustomMode(e)
  PROVE  KernelTypes'
  <1>0. editor[e] \in EditorType /\ UNCHANGED <<local, build>>
    BY DEF KernelTypes, AskUpdate, UpdateRow, GenerateAndStore, AskUpload, OpenArtifact, WriteArtifact, SetCustomMode
  <1>1. row' \in RowType /\ stored' \in FileType
    BY <1>0, NothingTyped DEF KernelTypes, EditorType, AskUpdate, UpdateRow, GenerateAndStore, AskUpload, OpenArtifact,
       WriteArtifact, SetCustomMode
  <1>2. editor' \in [Editors -> EditorType]
    <2>1. CASE AskUpdate(e)
      BY <2>1, NothingTyped DEF AskUpdate, KernelTypes, EditorType, RowType
    <2>2. CASE AskUpload(e)
      <3>1. Custom \in FileType
        BY DEF Custom, FileType, KernelTypes, KernelConfigAssumption, Modes
      <3>2. [row EXCEPT !.mode = "custom"] \in RowType
        BY RowTyped DEF KernelTypes
      <3> QED
        BY <2>2, <3>1, <3>2 DEF AskUpload, KernelTypes, EditorType
    <2>3. CASE GenerateAndStore(e)
      <3>1. \A f \in Generated(editor[e].seen) : f \in FileType
        BY <1>0, GeneratedTyped DEF EditorType, KernelTypes
      <3> QED
        BY <1>0, <2>3, <3>1 DEF GenerateAndStore, Move, KernelTypes, EditorType
    <2>4. CASE UpdateRow(e) \/ OpenArtifact(e) \/ WriteArtifact(e) \/ SetCustomMode(e)
      BY <1>0, <2>4 DEF UpdateRow, OpenArtifact, WriteArtifact, SetCustomMode, Move, KernelTypes, EditorType
    <2> QED
      BY <2>1, <2>2, <2>3, <2>4
  <1> QED
    BY <1>0, <1>1, <1>2 DEF KernelTypes, BuildsOK

\* The steps of a build.
BuildStep(b) ==
  \/ Submit(b) \/ Retry(b) \/ FetchLink(b) \/ FetchCopy(b) \/ FetchMissing(b) \/ ParseConfigMode(b)
  \/ ConfigureDirect(b) \/ ConfigureInContainer(b) \/ StageError(b) \/ StagePanic(b)

\* Builds keep the types.
LEMMA BuildSteps ==
  ASSUME KernelTypes, NEW b \in Builds, BuildStep(b)
  PROVE  KernelTypes'
  <1> DEFINE Kept == BuildsOK' /\ \A c \in Builds : \A f \in Fields : HasType(f, build'[c][f])
  <1>0. /\ build[b].runs \in 0..MaxRuns /\ build[b].copy \in FileType /\ MaxRuns \in Nat \ {0} /\ build[b].snap \in RowType
        /\ stored \in FileType /\ row \in RowType
    BY DEF KernelTypes, Fields, HasType, KernelConfigAssumption
  <1>1. UNCHANGED <<row, local, editor>> /\ (~FetchCopy(b) /\ ~FetchMissing(b) => UNCHANGED stored)
    BY DEF BuildStep, Submit, Retry, FetchLink, FetchCopy, FetchMissing, ParseConfigMode, ConfigureDirect, ConfigureInContainer,
           StageError, StagePanic
  <1>2. stored' \in FileType
    <2>1. CASE FetchMissing(b)
      <3>1. stored' = stored \/ stored' \in Generated(build[b].snap)
        BY <2>1 DEF FetchMissing
      <3> QED
        BY <1>0, <3>1, GeneratedTyped DEF KernelTypes
    <2>2. CASE ~FetchMissing(b)
      BY <1>0, <1>1, <2>2, NothingTyped DEF FetchCopy
    <2> QED
      BY <2>1, <2>2
  <1>3. Fail(b) => Kept
    <2> DEFINE new == [pc |-> "failed", ws |-> "none"]
    <2>1. DOMAIN new = {"pc", "ws"} /\ \A f \in DOMAIN new : HasType(f, new[f])
      <3>1. DOMAIN new = {"pc", "ws"}
        OBVIOUS
      <3>2. HasType("pc", new["pc"])
        BY DEF HasType
      <3>3. HasType("ws", new["ws"])
        BY DEF HasType
      <3> HIDE DEF new
      <3> QED
        BY <3>1, <3>2, <3>3
    <2>2. Fail(b) => Set(b, new)
      BY DEF Fail
    <2> HIDE DEF new
    <2> QED
      BY <2>1, <2>2, BuildSet DEF Fields
  <1>4. ASSUME Submit(b) PROVE Kept
    <2>1. PICK c \in BOOLEAN, p \in BOOLEAN :
            Set(b, [pc |-> "fetch", snap |-> row, container |-> c, board |-> p, runs |-> 1])
      BY <1>4 DEF Submit
    <2> DEFINE new == [pc |-> "fetch", snap |-> row, container |-> c, board |-> p, runs |-> 1]
    <2>2. DOMAIN new = {"pc", "snap", "container", "board", "runs"} /\ \A f \in DOMAIN new : HasType(f, new[f])
      <3>1. DOMAIN new = {"pc", "snap", "container", "board", "runs"}
        OBVIOUS
      <3>2. HasType("pc", new["pc"])
        BY <1>0 DEF HasType
      <3>3. HasType("snap", new["snap"])
        BY <1>0 DEF HasType
      <3>4. HasType("container", new["container"])
        BY <1>0 DEF HasType
      <3>5. HasType("board", new["board"])
        BY <1>0 DEF HasType
      <3>6. HasType("runs", new["runs"])
        BY <1>0 DEF HasType
      <3> HIDE DEF new
      <3> QED
        BY <3>1, <3>2, <3>3, <3>4, <3>5, <3>6
    <2> HIDE DEF new
    <2> QED
      BY <2>1, <2>2, BuildSet DEF Fields, new
  <1>5. ASSUME Retry(b) PROVE Kept
    <2>1. PICK c \in BOOLEAN : Set(b, [pc |-> "fetch", container |-> c, runs |-> build[b].runs + 1])
      BY <1>5 DEF Retry
    <2> DEFINE new == [pc |-> "fetch", container |-> c, runs |-> build[b].runs + 1]
    <2>2. build[b].runs + 1 \in 0..MaxRuns
      BY <1>0, <1>5 DEF Retry
    <2>3. DOMAIN new = {"pc", "container", "runs"} /\ \A f \in DOMAIN new : HasType(f, new[f])
      <3>1. DOMAIN new = {"pc", "container", "runs"}
        OBVIOUS
      <3>2. HasType("pc", new["pc"])
        BY <2>2 DEF HasType
      <3>3. HasType("container", new["container"])
        BY <2>2 DEF HasType
      <3>4. HasType("runs", new["runs"])
        BY <2>2 DEF HasType
      <3> HIDE DEF new
      <3> QED
        BY <3>1, <3>2, <3>3, <3>4
    <2>4. Set(b, new)
      BY <2>1
    <2> HIDE DEF new
    <2> QED
      BY <2>3, <2>4, BuildSet DEF Fields
  <1>6. ASSUME FetchLink(b) PROVE Kept
    <2> DEFINE new == [pc |-> "mode", ws |-> "link"]
    <2>1. DOMAIN new = {"pc", "ws"} /\ \A f \in DOMAIN new : HasType(f, new[f])
      <3>1. DOMAIN new = {"pc", "ws"}
        OBVIOUS
      <3>2. HasType("pc", new["pc"])
        BY DEF HasType
      <3>3. HasType("ws", new["ws"])
        BY DEF HasType
      <3> HIDE DEF new
      <3> QED
        BY <3>1, <3>2, <3>3
    <2>2. Set(b, new)
      BY <1>6 DEF FetchLink
    <2> HIDE DEF new
    <2> QED
      BY <2>1, <2>2, BuildSet DEF Fields
  <1>7. ASSUME FetchCopy(b) PROVE Kept
    <2> DEFINE emptied == [pc |-> "mode"]
               copied == [pc |-> "mode", ws |-> "copy", copy |-> stored]
    <2>1. DOMAIN emptied = {"pc"} /\ \A f \in DOMAIN emptied : HasType(f, emptied[f])
      <3>1. DOMAIN emptied = {"pc"}
        OBVIOUS
      <3>2. HasType("pc", emptied["pc"])
        BY DEF HasType
      <3> HIDE DEF emptied
      <3> QED
        BY <3>1, <3>2
    <2>2. DOMAIN copied = {"pc", "ws", "copy"} /\ \A f \in DOMAIN copied : HasType(f, copied[f])
      <3>1. DOMAIN copied = {"pc", "ws", "copy"}
        OBVIOUS
      <3>2. HasType("pc", copied["pc"])
        BY <1>0 DEF HasType
      <3>3. HasType("ws", copied["ws"])
        BY <1>0 DEF HasType
      <3>4. HasType("copy", copied["copy"])
        BY <1>0 DEF HasType
      <3> HIDE DEF copied
      <3> QED
        BY <3>1, <3>2, <3>3, <3>4
    <2>3. Set(b, emptied) \/ Set(b, copied)
      BY <1>7 DEF FetchCopy
    <2> HIDE DEF emptied, copied
    <2>4. CASE Set(b, emptied)
      BY <2>1, <2>4, BuildSet DEF Fields
    <2>5. CASE Set(b, copied)
      BY <2>2, <2>5, BuildSet DEF Fields
    <2> QED
      BY <2>3, <2>4, <2>5
  <1>8. ASSUME ParseConfigMode(b) PROVE Kept
    <2> DEFINE m == ConfigFile(b).mode
               new == [pc |-> "config", mode |-> IF m \in Modes THEN m ELSE "defconfig"]
    <2>1. DOMAIN new = {"pc", "mode"} /\ \A f \in DOMAIN new : HasType(f, new[f])
      <3>1. DOMAIN new = {"pc", "mode"}
        OBVIOUS
      <3>2. HasType("pc", new["pc"])
        BY DEF HasType, Modes
      <3>3. HasType("mode", new["mode"])
        BY DEF HasType, Modes
      <3> HIDE DEF new
      <3> QED
        BY <3>1, <3>2, <3>3
    <2>2. Set(b, new)
      BY <1>8 DEF ParseConfigMode
    <2> HIDE DEF new
    <2> QED
      BY <2>1, <2>2, BuildSet DEF Fields
  <1>9. ASSUME StagePanic(b) PROVE Kept
    <2> DEFINE new == [pc |-> "panicked"]
    <2>1. DOMAIN new = {"pc"} /\ \A f \in DOMAIN new : HasType(f, new[f])
      <3>1. DOMAIN new = {"pc"}
        OBVIOUS
      <3>2. HasType("pc", new["pc"])
        BY DEF HasType
      <3> HIDE DEF new
      <3> QED
        BY <3>1, <3>2
    <2>2. Set(b, new)
      BY <1>9 DEF StagePanic
    <2> HIDE DEF new
    <2> QED
      BY <2>1, <2>2, BuildSet DEF Fields
  <1>10. ASSUME ConfigureDirect(b) PROVE Kept
    <2> DEFINE f == ConfigFile(b)
               config == IF build[b].mode = "custom" THEN f.lines
                         ELSE ApplyOptions(IF build[b].board THEN BoardDefconfig ELSE ArchDefconfig, f.lines, BoardOverlay(b))
    <2>1. f \in FileType
      BY <1>0 DEF ConfigFile
    <2>2. f.lines \in Lines
      BY <2>1 DEF FileType
    <2>3. config \in Lines
      <3>1. (IF build[b].board THEN BoardDefconfig ELSE ArchDefconfig) \in Lines
        BY DEF KernelTypes, KernelConfigAssumption
      <3> HIDE DEF f
      <3> QED
        BY <2>2, <3>1, ApplyTyped DEF KernelTypes
    <2>4. Compiled(b, f, config)
      BY <1>10 DEF ConfigureDirect
    <2> HIDE DEF f, config
    <2> QED
      BY <2>1, <2>3, <2>4, CompiledTyped
  <1>11. ASSUME ConfigureInContainer(b) PROVE Kept
    <2> DEFINE f == IF build[b].ws = "link" THEN NoArtifact ELSE build[b].copy
               config == ApplyOptions(ArchDefconfig, f.lines, BoardOverlay(b))
    <2>1. f \in FileType
      BY <1>0, NothingTyped
    <2>2. f.lines \in Lines
      BY <2>1 DEF FileType
    <2>3. config \in Lines
      <3>1. ArchDefconfig \in Lines
        BY DEF KernelTypes, KernelConfigAssumption
      <3> HIDE DEF f
      <3> QED
        BY <2>2, <3>1, ApplyTyped DEF KernelTypes
    <2>4. Fail(b) \/ Compiled(b, f, f.lines) \/ Compiled(b, f, config)
      BY <1>11 DEF ConfigureInContainer
    <2> HIDE DEF f, config
    <2> QED
      BY <1>3, <2>1, <2>2, <2>3, <2>4, CompiledTyped
  <1>12. ASSUME FetchMissing(b) \/ StageError(b) PROVE Kept
    <2>1. Fail(b) \/ build' = build
      BY <1>12 DEF FetchMissing, StageError
    <2> QED
      BY <1>3, <2>1 DEF KernelTypes, BuildsOK
  <1>13. Kept
    BY <1>4, <1>5, <1>6, <1>7, <1>8, <1>9, <1>10, <1>11, <1>12 DEF BuildStep
  <1> QED
    BY <1>1, <1>2, <1>13 DEF KernelTypes

\* Every step keeps the types.
LEMMA KernelTypesNext == KernelTypes /\ [KernelNext]_kernelVars => KernelTypes'
  <1> SUFFICES ASSUME KernelTypes, [KernelNext]_kernelVars PROVE KernelTypes'
    OBVIOUS
  <1>1. CASE UNCHANGED kernelVars
    BY <1>1 DEF kernelVars, KernelTypes, BuildsOK
  <1>2. CASE KernelNext
    BY <1>2, EditorStep, BuildSteps DEF KernelNext, BuildStep
  <1> QED
    BY <1>1, <1>2

\* They imply the type invariant the runs check.
LEMMA KernelTypesSound == KernelTypes => KernelTypeOK
  <1> SUFFICES ASSUME KernelTypes PROVE KernelTypeOK
    OBVIOUS
  <1>1. ASSUME NEW b \in Builds
        PROVE  /\ HasType("pc", build[b].pc) /\ HasType("ws", build[b].ws)
               /\ HasType("runs", build[b].runs) /\ HasType("config", build[b].config)
    BY DEF KernelTypes, Fields
  <1>2. \A e \in Editors : editor[e].pc \in {"idle", "row", "generate", "open", "write", "custom", "done"}
    BY DEF KernelTypes, EditorType
  <1>3. \A b \in Builds : /\ build[b].pc \in {"new", "fetch", "mode", "config", "compiled", "failed", "panicked"}
                         /\ build[b].ws \in {"none", "link", "copy"}
                         /\ build[b].runs \in 0..MaxRuns
                         /\ build[b].config \in Lines
    BY <1>1 DEF HasType
  <1> QED
    BY <1>2, <1>3 DEF KernelTypes, KernelTypeOK, RowType, FileType

\* The row, the artifact, the requests and the builds have their types, and a build runs
\* no more often than it is submitted and retried.
THEOREM KernelTypesKept == KernelSpec => []KernelTypeOK
  <1>1. KernelInit => KernelTypes
    BY KernelConfigAssumption, KernelTypesInit
  <1> QED
    BY <1>1, KernelTypesNext, KernelTypesSound, PTL DEF KernelSpec

-----------------------------------------------------------------------------
(***************************************************************************)
(* The generation of images.  The root partition of a run is mounted below *)
(* nothing and all else below it, and what a worker has mounted is the     *)
(* first of its deferred calls until it is unmounted.                      *)
(***************************************************************************)

(***************************************************************************)
(* Runs of the generators.                                                 *)
(***************************************************************************)
Calls == {"detach", "rmdir", "umount"}
Pack(w) == [step: Steps, n: 0..MaxImages[w], format: {"raw", "qcow2", "iso"}, dev: Loops, defers: Seq(Calls),
            ok: BOOLEAN, cancelled: BOOLEAN, stuck: BOOLEAN, sum: Contents]

PacksOK ==
  /\ pack = [w \in Packagers |-> pack[w]]
  /\ \A w \in Packagers : pack[w] \in Pack(w) /\ (pack[w].step # "idle" => pack[w].n >= 1)

Mine(w) == {m \in mounts : m.run = RunOf(w)}

\* The first deferred call is the unmount.
UnmountFirst(w) == pack[w].defers # <<>> /\ Head(pack[w].defers) = "umount"

\* Where a worker has something mounted that it has yet to unmount.
Mounted(w) ==
  \/ pack[w].step \in {"mount_esp", "rsync", "grub", "umount", "efi_umount"}
  \/ pack[w].step = "defer" /\ UnmountFirst(w)

\* What a worker has mounted is below a mounted root partition, is of a run
\* that has begun, and is going to be unmounted unless that went wrong.
MountsOf(w) ==
  /\ Mine(w) # {} => RootMount(w) # {}
  /\ Mine(w) # {} => pack[w].stuck \/ Mounted(w)
  /\ pack[w].step \in {"rsync", "grub", "umount"} => UnmountFirst(w)
  /\ Step(w, "mount_esp") => RootMount(w) # {}
  /\ pack[w].step \in {"iso", "efi", "efi_umount"} => Mine(w) = RootMount(w)
  /\ \A m \in mounts : m.run[1] = w => m.run[2] <= pack[w].n

\* What is mounted is the image that its loop device shows.
LoopsOK ==
  /\ loops \in [Loops -> [image: Runs \cup {NoRun}, auto: BOOLEAN]]
  /\ mounts \subseteq [run: Runs, part: {"esp", "root"}, dev: Loops, image: Runs]
  /\ \A m \in mounts : loops[m.dev].image = m.image

DisksOK == disks \in [Runs -> Contents]

ImageInv == PacksOK /\ LoopsOK /\ DisksOK /\ \A w \in Packagers : MountsOf(w)

LEMMA RunsArePairs ==
  \A r \in Runs : r[1] \in Packagers /\ r[2] \in 1..MaxImages[r[1]] /\ r = <<r[1], r[2]>> /\ r # NoRun
  BY DEF Runs, NoRun

LEMMA RunOfType ==
  ASSUME NEW w \in Packagers, PacksOK, pack[w].step # "idle"
  PROVE  RunOf(w) \in Runs /\ RunOf(w)[1] = w /\ RunOf(w)[2] = pack[w].n
  <1>1. pack[w].n \in 1..MaxImages[w]
    BY ImageAssumption DEF PacksOK, Pack, ImageAssumption
  <1> QED
    BY <1>1 DEF Runs, RunOf

LEMMA ImageStart == ImageInit => ImageInv
  <1> SUFFICES ASSUME ImageInit PROVE ImageInv
    OBVIOUS
  <1> DEFINE dev == CHOOSE l \in Loops : TRUE
  <1>1. dev \in Loops
    BY ImageAssumption DEF ImageAssumption
  <1> HIDE DEF dev
  <1>2. NoDisk \in Contents
    BY DEF NoDisk, Contents
  <1>3. \A w \in Packagers : pack[w] = [step |-> "idle", n |-> 0, format |-> "raw", dev |-> dev, defers |-> <<>>,
                                 ok |-> FALSE, cancelled |-> FALSE, stuck |-> FALSE, sum |-> NoDisk]
    BY DEF ImageInit, dev
  <1>4. pack = [w \in Packagers |-> pack[w]]
    BY DEF ImageInit
  <1>5. \A w \in Packagers : 0 \in 0..MaxImages[w]
    BY ImageAssumption DEF ImageAssumption
  <1>6. <<>> \in Seq(Calls)
    OBVIOUS
  <1>7. PacksOK
    <2>1. ASSUME NEW w \in Packagers PROVE pack[w] \in Pack(w)
      <3>1. [step |-> "idle", n |-> 0, format |-> "raw", dev |-> dev, defers |-> <<>>, ok |-> FALSE,
             cancelled |-> FALSE, stuck |-> FALSE, sum |-> NoDisk] \in Pack(w)
        BY <1>1, <1>2, <1>5, <1>6 DEF Pack, Steps
      <3> QED
        BY <1>3, <3>1
    <2> QED
      BY <1>3, <1>4, <2>1 DEF PacksOK
  <1>8. LoopsOK /\ DisksOK
    BY <1>2 DEF ImageInit, LoopsOK, DisksOK, Free
  <1>9. ASSUME NEW w \in Packagers PROVE MountsOf(w)
    BY <1>3 DEF ImageInit, MountsOf, Mine, RootMount, Step
  <1> QED
    BY <1>7, <1>8, <1>9 DEF ImageInv

\* The steps a run goes through once it has begun.
Begun == Steps \ {"idle"}

\* What a step does to the run of a worker, p before and q after it.
Edited(p, q) ==
  \E s \in Begun :
    \/ q = [p EXCEPT !.step = s]
    \/ \E b \in BOOLEAN : q = [p EXCEPT !.step = s, !.ok = b]
    \/ \E b \in BOOLEAN : q = [p EXCEPT !.step = s, !.ok = b, !.stuck = TRUE]
    \/ \E b \in BOOLEAN, c \in Seq(Calls) : q = [p EXCEPT !.step = s, !.defers = c, !.stuck = b]
    \/ \E l \in Loops, c \in Seq(Calls) : q = [p EXCEPT !.step = s, !.dev = l, !.defers = c]
    \/ \E d \in Contents : q = [p EXCEPT !.step = s, !.sum = d]

LEMMA EditsOK ==
  ASSUME NEW w \in Packagers, NEW p \in Pack(w), NEW q, Edited(p, q)
  PROVE  q \in Pack(w) /\ q.n = p.n /\ q.step # "idle" /\ q.cancelled = p.cancelled
  <1>0. \A s \in Begun : s \in Steps /\ s # "idle"
    BY DEF Begun
  <1>1. PICK s \in Begun :
    \/ q = [p EXCEPT !.step = s]
    \/ \E b \in BOOLEAN : q = [p EXCEPT !.step = s, !.ok = b]
    \/ \E b \in BOOLEAN : q = [p EXCEPT !.step = s, !.ok = b, !.stuck = TRUE]
    \/ \E b \in BOOLEAN, c \in Seq(Calls) : q = [p EXCEPT !.step = s, !.defers = c, !.stuck = b]
    \/ \E l \in Loops, c \in Seq(Calls) : q = [p EXCEPT !.step = s, !.dev = l, !.defers = c]
    \/ \E d \in Contents : q = [p EXCEPT !.step = s, !.sum = d]
    BY DEF Edited
  <1> QED
    BY <1>0, <1>1 DEF Pack

\* Where only a worker's run is edited, all runs keep their types and the
\* other workers' stay.
LEMMA PacksEdited ==
  ASSUME PacksOK, NEW w \in Packagers, pack[w].step # "idle", NEW q, Edited(pack[w], q),
         pack' = [pack EXCEPT ![w] = q]
  PROVE  /\ PacksOK' /\ pack'[w] = q /\ RunOf(w)' = RunOf(w)
         /\ \A v \in Packagers \ {w} : pack'[v] = pack[v] /\ RunOf(v)' = RunOf(v)
  <1>1. q \in Pack(w) /\ q.n = pack[w].n /\ q.step # "idle"
    BY EditsOK DEF PacksOK
  <1>2. pack'[w] = q /\ (\A v \in Packagers \ {w} : pack'[v] = pack[v]) /\ pack' = [v \in Packagers |-> pack'[v]]
    BY DEF PacksOK
  <1>3. \A v \in Packagers : Pack(v)' = Pack(v)
    BY DEF Pack
  <1> QED
    BY <1>1, <1>2, <1>3 DEF PacksOK, RunOf

\* A run that is over is not the one that begins.
LEMMA GoEdits ==
  ASSUME PacksOK, NEW w \in Packagers, pack[w].step # "idle", NEW s \in Begun, Go(w, s)
  PROVE  /\ PacksOK' /\ pack'[w] = [pack[w] EXCEPT !.step = s] /\ RunOf(w)' = RunOf(w)
         /\ \A v \in Packagers \ {w} : pack'[v] = pack[v] /\ RunOf(v)' = RunOf(v)
  <1> DEFINE q == [pack[w] EXCEPT !.step = s]
  <1>1. Edited(pack[w], q)
    BY DEF Edited
  <1>2. pack' = [pack EXCEPT ![w] = q]
    BY DEF Go
  <1> HIDE DEF q
  <1>3. PacksOK' /\ pack'[w] = q /\ RunOf(w)' = RunOf(w)
         /\ \A v \in Packagers \ {w} : pack'[v] = pack[v] /\ RunOf(v)' = RunOf(v)
    BY <1>1, <1>2, PacksEdited
  <1> QED
    BY <1>3 DEF q

(***************************************************************************)
(* Loop devices and mounts.                                                *)
(***************************************************************************)
LEMMA UnmountKeepsLoops ==
  ASSUME LoopsOK, NEW STATE gone, gone \subseteq mounts, Unmounted(gone)
  PROVE  LoopsOK'
  <1> DEFINE freed(l) == loops[l].auto /\ (\E m \in gone : m.dev = l) /\ ~\E m \in mounts \ gone : m.dev = l
  <1>1. Free \in [image: Runs \cup {NoRun}, auto: BOOLEAN]
    BY DEF Free
  <1>2. mounts' = mounts \ gone /\ loops' = [l \in Loops |-> IF freed(l) THEN Free ELSE loops[l]]
    BY DEF Unmounted
  <1>3. \A m \in mounts' : m.dev \in Loops /\ ~freed(m.dev)
    BY <1>2 DEF LoopsOK
  <1> HIDE DEF freed
  <1> QED
    BY <1>1, <1>2, <1>3 DEF LoopsOK

LEMMA DetachKeepsLoops ==
  ASSUME LoopsOK, PacksOK, NEW w \in Packagers, DetachLoop(w), UNCHANGED mounts
  PROVE  LoopsOK'
  <1> DEFINE l == pack[w].dev
  <1>0. l \in Loops
    BY DEF PacksOK, Pack
  <1>1. Free \in [image: Runs \cup {NoRun}, auto: BOOLEAN]
    BY DEF Free
  <1>2. CASE loops' = loops
    BY <1>2 DEF LoopsOK
  <1>3. CASE MountedOn(l) = {} /\ loops' = [loops EXCEPT ![l] = Free]
    BY <1>0, <1>1, <1>3 DEF LoopsOK, MountedOn
  <1>4. CASE loops' = [loops EXCEPT ![l].auto = TRUE]
    BY <1>0, <1>4 DEF LoopsOK
  <1> QED
    BY <1>2, <1>3, <1>4 DEF DetachLoop

\* A device that is free shows nothing that is mounted.
LEMMA AttachKeepsLoops ==
  ASSUME LoopsOK, NEW l \in Loops, loops[l] = Free, NEW r \in Runs, NEW b \in BOOLEAN,
         loops' = [loops EXCEPT ![l] = [image |-> r, auto |-> b]],
         NEW part \in {"esp", "root"}, NEW q \in Runs,
         \/ UNCHANGED mounts
         \/ mounts' = mounts \cup {[run |-> q, part |-> part, dev |-> l, image |-> r]}
  PROVE  LoopsOK'
  <1>1. \A m \in mounts : m.dev # l
    BY RunsArePairs DEF LoopsOK, Free
  <1> QED
    BY <1>1 DEF LoopsOK

LEMMA MountKeepsLoops ==
  ASSUME LoopsOK, PacksOK, NEW w \in Packagers, pack[w].step # "idle", NEW part \in {"esp", "root"},
         Mounting(w, part), UNCHANGED loops
  PROVE  LoopsOK'
  <1>1. pack[w].dev \in Loops
    BY DEF PacksOK, Pack
  <1>2. Behind(w) \in Runs /\ RunOf(w) \in Runs
    BY <1>1, RunOfType DEF Behind, Mounting, LoopsOK
  <1>3. mounts' = mounts \cup {[run |-> RunOf(w), part |-> part, dev |-> pack[w].dev, image |-> Behind(w)]}
    BY DEF Mounting
  <1> QED
    BY <1>1, <1>2, <1>3 DEF LoopsOK, Behind

\* What another worker has mounted is not touched.
LEMMA OthersStayMounted ==
  ASSUME NEW v \in Packagers, MountsOf(v), pack'[v] = pack[v],
         \A m : m.run[1] = v => (m \in mounts' <=> m \in mounts)
  PROVE  MountsOf(v)'
  <1>1. RunOf(v)' = RunOf(v) /\ RunOf(v)[1] = v
    BY DEF RunOf
  <1>2. Mine(v)' = Mine(v) /\ RootMount(v)' = RootMount(v)
    BY <1>1 DEF Mine, RootMount
  <1>3. Mounted(v)' = Mounted(v) /\ UnmountFirst(v)' = UnmountFirst(v) /\ \A s : Step(v, s)' = Step(v, s)
    BY DEF Mounted, UnmountFirst, Step
  <1> QED
    BY <1>2, <1>3 DEF MountsOf

LEMMA OfOneWorker ==
  ASSUME ImageInv, NEW w \in Packagers, PacksOK', LoopsOK', DisksOK', MountsOf(w)',
         \A v \in Packagers \ {w} : pack'[v] = pack[v],
         \A m : m.run[1] # w => (m \in mounts' <=> m \in mounts)
  PROVE  ImageInv'
  BY OthersStayMounted DEF ImageInv

\* A step that mounts nothing and unmounts nothing.
LEMMA StaysMounted ==
  ASSUME NEW w \in Packagers, MountsOf(w), UNCHANGED mounts, RunOf(w)' = RunOf(w), pack'[w].n = pack[w].n,
         pack[w].stuck => pack'[w].stuck,
         Mounted(w) => Mounted(w)' \/ pack'[w].stuck,
         pack'[w].step \in {"rsync", "grub", "umount"} => UnmountFirst(w)',
         pack'[w].step \notin {"mount_esp", "iso", "efi_umount"},
         pack'[w].step = "efi" => pack[w].step = "iso"
  PROVE  MountsOf(w)'
  <1>1. Mine(w)' = Mine(w) /\ RootMount(w)' = RootMount(w)
    BY DEF Mine, RootMount
  <1> QED
    BY <1>1 DEF MountsOf, Step

\* A step that leaves nothing mounted.
LEMMA NothingMounted ==
  ASSUME NEW w \in Packagers, MountsOf(w), mounts' \subseteq mounts, pack'[w].n \in Nat, pack[w].n \in Nat,
         pack'[w].n >= pack[w].n, Mine(w)' = {}, RunOf(w)' = RunOf(w) \/ pack'[w].n > pack[w].n,
         LoopsOK,
         pack'[w].step \in {"rsync", "grub", "umount"} => UnmountFirst(w)',
         pack'[w].step # "mount_esp"
  PROVE  MountsOf(w)'
  <1>1. RootMount(w)' = {}
    BY DEF Mine, RootMount
  <1>2. \A m \in mounts : m.run \in Runs
    BY DEF LoopsOK
  <1>3. \A m \in mounts : m.run[1] = w => m.run[2] \in Nat
    BY <1>2, RunsArePairs, ImageAssumption DEF ImageAssumption
  <1> QED
    BY <1>1, <1>3 DEF MountsOf, Step

\* What has to be said of a run q that takes the place of a worker's run where
\* nothing is mounted or unmounted.
Carries(w, q) ==
  /\ pack[w].stuck => q.stuck
  /\ Mounted(w) => \/ q.stuck
                   \/ q.step \in {"rsync", "grub", "umount"}
                   \/ q.step = "defer" /\ q.defers # <<>> /\ Head(q.defers) = "umount"
  /\ q.step \in {"rsync", "grub", "umount"} => q.defers # <<>> /\ Head(q.defers) = "umount"
  /\ q.step \notin {"mount_esp", "iso", "efi_umount"}
  /\ q.step = "efi" => pack[w].step = "iso"

LEMMA EditStays ==
  ASSUME ImageInv, NEW w \in Packagers, pack[w].step # "idle", NEW q, Edited(pack[w], q),
         pack' = [pack EXCEPT ![w] = q], Carries(w, q), UNCHANGED mounts, LoopsOK', DisksOK'
  PROVE  ImageInv'
  <1>1. /\ PacksOK' /\ pack'[w] = q /\ RunOf(w)' = RunOf(w)
        /\ \A v \in Packagers \ {w} : pack'[v] = pack[v]
    BY PacksEdited DEF ImageInv
  <1>2. q.n = pack[w].n
    BY EditsOK DEF ImageInv, PacksOK
  <1>3. MountsOf(w)'
    BY <1>1, <1>2, StaysMounted DEF ImageInv, Carries, Mounted, UnmountFirst
  <1> QED
    BY <1>1, <1>3, OfOneWorker

LEMMA GoStays ==
  ASSUME ImageInv, NEW w \in Packagers, pack[w].step # "idle", NEW s \in Begun, Go(w, s),
         Carries(w, [pack[w] EXCEPT !.step = s]), UNCHANGED mounts, LoopsOK', DisksOK'
  PROVE  ImageInv'
  <1> DEFINE q == [pack[w] EXCEPT !.step = s]
  <1>1. Edited(pack[w], q) /\ pack' = [pack EXCEPT ![w] = q] /\ Carries(w, q)
    BY DEF Edited, Go
  <1> HIDE DEF q
  <1> QED
    BY <1>1, EditStays

LEMMA LoopsStay == LoopsOK /\ UNCHANGED <<loops, mounts>> => LoopsOK'
  BY DEF LoopsOK
LEMMA DisksStay == DisksOK /\ UNCHANGED disks => DisksOK'
  BY DEF DisksOK

LEMMA NoDiskType == NoDisk \in Contents
  BY DEF NoDisk, Contents

LEMMA FormatKeepsDisks ==
  ASSUME PacksOK, LoopsOK, DisksOK, NEW w \in Packagers, NEW s \in Begun, NEW part \in {"esp", "root"}, NEW next,
         Format(w, s, part, next)
  PROVE  DisksOK'
  <1>1. Behind(w) \in Runs /\ RunOf(w) \in Runs
    BY RunOfType DEF Format, Step, Begun, PacksOK, Pack, LoopsOK, Behind
  <1> DEFINE d == [disks[Behind(w)] EXCEPT !.format = @ \cup {<<part, RunOf(w)>>}, !.root = {}]
  <1>2. disks' = [disks EXCEPT ![Behind(w)] = d]
    BY <1>1 DEF Format, DisksOK, Contents
  <1>3. {<<part, RunOf(w)>>} \subseteq {"esp", "root"} \X Runs /\ disks[Behind(w)] \in Contents
    BY <1>1 DEF DisksOK
  <1>4. d \in Contents
    BY <1>3 DEF Contents
  <1> HIDE DEF d
  <1> QED
    BY <1>1, <1>2, <1>4 DEF DisksOK

\* The steps up to the unmount that change no mounts and no loop devices.
LEMMA PlainSteps ==
  ASSUME ImageInv, NEW w \in Packagers,
         \/ Failure(w) \/ CreateSparseImage(w) \/ CreatePartitionTable(w) \/ FormatEsp(w) \/ FormatRoot(w)
         \/ MountEspFails(w) \/ CopyRootfs(w) \/ InstallBootloader(w)
  PROVE  ImageInv'
  <1>0. /\ PacksOK /\ LoopsOK /\ DisksOK /\ MountsOf(w) /\ pack[w] \in Pack(w)
        /\ pack[w].step # "idle" => RunOf(w) \in Runs
    BY RunOfType DEF ImageInv, PacksOK
  <1>1. CASE Failure(w)
    <2> DEFINE q == [pack[w] EXCEPT !.step = "defer", !.ok = FALSE]
    <2>1. "defer" \in Begun
      BY DEF Begun, Steps
    <2>2. Edited(pack[w], q)
      BY <2>1 DEF Edited
    <2>3. q.step = "defer" /\ q.defers = pack[w].defers /\ q.stuck = pack[w].stuck
      BY <1>0 DEF Pack
    <2>4. pack' = [pack EXCEPT ![w] = q] /\ UNCHANGED <<loops, mounts, disks>> /\ pack[w].step # "idle"
      BY <1>1 DEF Failure, Bail
    <2> HIDE DEF q
    <2>5. Carries(w, q)
      BY <1>0, <1>1, <2>3 DEF Failure, Carries, MountsOf, Mounted, UnmountFirst
    <2>6. LoopsOK' /\ DisksOK'
      BY <1>0, <2>4, LoopsStay, DisksStay
    <2> QED
      BY <2>2, <2>4, <2>5, <2>6, EditStays
  <1>2. CASE CreateSparseImage(w)
    <2>1. UNCHANGED <<loops, mounts>> /\ pack[w].step = "sparse" /\ Go(w, "table")
      BY <1>2 DEF CreateSparseImage, Step
    <2>2. "table" \in Begun
      BY DEF Begun, Steps
    <2>3. Carries(w, [pack[w] EXCEPT !.step = "table"])
      BY <1>0, <2>1 DEF Pack, Carries, MountsOf, Mounted, UnmountFirst
    <2>4. LoopsOK'
      BY <1>0, <2>1, LoopsStay
    <2>5. DisksOK'
      BY <1>0, <1>2, <2>1, NoDiskType DEF CreateSparseImage, DisksOK
    <2> QED
      BY <2>1, <2>2, <2>3, <2>4, <2>5, GoStays
  <1>3. CASE CreatePartitionTable(w)
    <2>1. UNCHANGED <<loops, mounts>> /\ pack[w].step = "table" /\ Go(w, "losetup")
      BY <1>3 DEF CreatePartitionTable, Step
    <2>2. "losetup" \in Begun
      BY DEF Begun, Steps
    <2>3. Carries(w, [pack[w] EXCEPT !.step = "losetup"])
      BY <1>0, <2>1 DEF Pack, Carries, MountsOf, Mounted, UnmountFirst
    <2>4. LoopsOK'
      BY <1>0, <2>1, LoopsStay
    <2>5. DisksOK'
      BY <1>0, <1>3, <2>1 DEF CreatePartitionTable, DisksOK, Contents
    <2> QED
      BY <2>1, <2>2, <2>3, <2>4, <2>5, GoStays
  <1>4. CASE FormatEsp(w)
    <2>1. UNCHANGED <<loops, mounts>> /\ pack[w].step = "esp_fs" /\ Go(w, "root_fs")
      BY <1>4 DEF FormatEsp, Step, Format
    <2>2. "root_fs" \in Begun
      BY DEF Begun, Steps
    <2>3. Carries(w, [pack[w] EXCEPT !.step = "root_fs"])
      BY <1>0, <2>1 DEF Pack, Carries, MountsOf, Mounted, UnmountFirst
    <2>4. LoopsOK'
      BY <1>0, <2>1, LoopsStay
    <2>5. DisksOK'
      <3>1. "esp_fs" \in Begun
        BY DEF Begun, Steps
      <3>2. Format(w, "esp_fs", "esp", Go(w, "root_fs"))
        BY <1>4 DEF FormatEsp
      <3> QED
        BY <1>0, <3>1, <3>2, FormatKeepsDisks
    <2> QED
      BY <2>1, <2>2, <2>3, <2>4, <2>5, GoStays
  <1>5. CASE FormatRoot(w)
    <2> DEFINE q == [pack[w] EXCEPT !.step = "mount_root", !.defers = <<"rmdir">> \o @]
    <2>1. UNCHANGED <<loops, mounts>> /\ pack[w].step = "root_fs" /\ pack' = [pack EXCEPT ![w] = q]
      BY <1>5 DEF FormatRoot, Format, Push, Step
    <2>2. Edited(pack[w], q)
      <3>1. "mount_root" \in Begun /\ <<"rmdir">> \o pack[w].defers \in Seq(Calls) /\ pack[w].stuck \in BOOLEAN
        BY <1>0 DEF Begun, Steps, Calls, Pack
      <3>2. q = [pack[w] EXCEPT !.step = "mount_root", !.defers = <<"rmdir">> \o pack[w].defers,
                                !.stuck = pack[w].stuck]
        BY <1>0 DEF Pack
      <3> QED
        BY <3>1, <3>2 DEF Edited
    <2>3. q.step = "mount_root" /\ q.stuck = pack[w].stuck
      BY <1>0 DEF Pack
    <2> HIDE DEF q
    <2>4. Carries(w, q)
      BY <1>0, <2>1, <2>3 DEF Carries, MountsOf, Mounted, UnmountFirst
    <2>5. LoopsOK'
      BY <1>0, <2>1, LoopsStay
    <2>6. DisksOK'
      <3>1. "root_fs" \in Begun
        BY DEF Begun, Steps
      <3>2. Format(w, "root_fs", "root", Push(w, "mount_root", "rmdir"))
        BY <1>5 DEF FormatRoot
      <3> QED
        BY <1>0, <3>1, <3>2, FormatKeepsDisks
    <2> QED
      BY <2>1, <2>2, <2>4, <2>5, <2>6, EditStays
  <1>6. CASE MountEspFails(w)
    <2> DEFINE q == [pack[w] EXCEPT !.step = "defer", !.ok = FALSE, !.stuck = TRUE]
    <2>1. UNCHANGED <<loops, mounts>> /\ pack[w].step = "mount_esp" /\ pack' = [pack EXCEPT ![w] = q]
      BY <1>6 DEF MountEspFails, Step
    <2>2. Edited(pack[w], q)
      <3>1. "defer" \in Begun
        BY DEF Begun, Steps
      <3> QED
        BY <3>1 DEF Edited
    <2>3. q.step = "defer" /\ q.stuck
      BY <1>0 DEF Pack
    <2> HIDE DEF q
    <2>4. Carries(w, q)
      BY <1>0, <2>1, <2>3 DEF Carries, MountsOf, Mounted, UnmountFirst
    <2>5. LoopsOK'
      BY <1>0, <2>1, LoopsStay
    <2>6. DisksOK'
      BY <1>0, <1>6, DisksStay DEF MountEspFails
    <2> QED
      BY <2>1, <2>2, <2>4, <2>5, <2>6, EditStays
  <1>7. CASE CopyRootfs(w)
    <2>1. UNCHANGED <<loops, mounts>> /\ pack[w].step = "rsync" /\ Go(w, "grub")
      BY <1>7 DEF CopyRootfs, Step
    <2>2. "grub" \in Begun
      BY DEF Begun, Steps
    <2>3. Carries(w, [pack[w] EXCEPT !.step = "grub"])
      BY <1>0, <2>1 DEF Pack, Carries, MountsOf, Mounted, UnmountFirst
    <2>4. LoopsOK'
      BY <1>0, <2>1, LoopsStay
    <2>5. DisksOK'
      BY <1>0, <1>7, <2>1 DEF CopyRootfs, DisksOK, Contents
    <2> QED
      BY <2>1, <2>2, <2>3, <2>4, <2>5, GoStays
  <1>8. CASE InstallBootloader(w)
    <2>1. UNCHANGED <<loops, mounts>> /\ pack[w].step = "grub" /\ Go(w, "umount")
      BY <1>8 DEF InstallBootloader, Step
    <2>2. "umount" \in Begun
      BY DEF Begun, Steps
    <2>3. Carries(w, [pack[w] EXCEPT !.step = "umount"])
      BY <1>0, <2>1 DEF Pack, Carries, MountsOf, Mounted, UnmountFirst
    <2>4. LoopsOK'
      BY <1>0, <2>1, LoopsStay
    <2>5. DisksOK'
      <3>1. PICK done \in BOOLEAN : disks' = [disks EXCEPT ![RunOf(w)].boot = done]
        BY <1>8 DEF InstallBootloader, Commands
      <3> QED
        BY <1>0, <2>1, <3>1 DEF DisksOK, Contents
    <2> QED
      BY <2>1, <2>2, <2>3, <2>4, <2>5, GoStays
  <1> QED
    BY <1>1, <1>2, <1>3, <1>4, <1>5, <1>6, <1>7, <1>8

LEMMA LaterPlainSteps ==
  ASSUME ImageInv, NEW w \in Packagers,
         \/ DeferredRemoveMountPoint(w) \/ Returned(w) \/ ConvertQcow2(w) \/ StageIso(w)
         \/ CalculateChecksum(w) \/ UploadImage(w)
  PROVE  ImageInv'
  <1>0. /\ PacksOK /\ LoopsOK /\ DisksOK /\ MountsOf(w) /\ pack[w] \in Pack(w)
        /\ pack[w].step # "idle" => RunOf(w) \in Runs
    BY RunOfType DEF ImageInv, PacksOK
  <1>a. {"defer", "over", "convert", "checksum", "efi", "upload"} \subseteq Begun
    BY DEF Begun, Steps
  <1>1. CASE DeferredRemoveMountPoint(w)
    <2> DEFINE q == [pack[w] EXCEPT !.defers = Tail(@)]
    <2>1. /\ UNCHANGED <<loops, mounts, disks>> /\ pack[w].step = "defer" /\ pack' = [pack EXCEPT ![w] = q]
          /\ pack[w].defers # <<>> /\ Head(pack[w].defers) = "rmdir"
      BY <1>1 DEF DeferredRemoveMountPoint, Deferred, Pop, Step
    <2>2. Edited(pack[w], q)
      <3>1. Tail(pack[w].defers) \in Seq(Calls) /\ pack[w].stuck \in BOOLEAN
        BY <1>0, <2>1 DEF Pack
      <3>2. q = [pack[w] EXCEPT !.step = "defer", !.defers = Tail(pack[w].defers), !.stuck = pack[w].stuck]
        BY <1>0, <2>1 DEF Pack
      <3> HIDE DEF q
      <3> QED
        BY <1>a, <3>1, <3>2 DEF Edited
    <2>3. q.step = "defer" /\ q.stuck = pack[w].stuck
      BY <1>0, <2>1 DEF Pack
    <2> HIDE DEF q
    <2>4. Carries(w, q)
      BY <1>0, <2>1, <2>3 DEF Carries, Mounted, UnmountFirst
    <2>5. LoopsOK' /\ DisksOK'
      BY <1>0, <2>1, LoopsStay, DisksStay
    <2> QED
      BY <2>1, <2>2, <2>4, <2>5, EditStays
  <1>2. CASE Returned(w)
    <2>1. PICK s \in {"over", "convert", "checksum"} : Go(w, s)
      BY <1>2 DEF Returned
    <2>2. UNCHANGED <<loops, mounts, disks>> /\ pack[w].step = "defer" /\ pack[w].defers = <<>>
      BY <1>2 DEF Returned, Step
    <2>3. Carries(w, [pack[w] EXCEPT !.step = s])
      BY <1>0, <2>1, <2>2 DEF Pack, Carries, Mounted, UnmountFirst
    <2>4. LoopsOK' /\ DisksOK'
      BY <1>0, <2>2, LoopsStay, DisksStay
    <2> QED
      BY <1>a, <2>1, <2>2, <2>3, <2>4, GoStays
  <1>3. CASE ConvertQcow2(w)
    <2>1. UNCHANGED <<loops, mounts, disks>> /\ pack[w].step = "convert" /\ LoopsOK' /\ DisksOK'
      BY <1>0, <1>3, LoopsStay, DisksStay DEF ConvertQcow2, Step
    <2>2. CASE Go(w, "checksum")
      <3>1. Carries(w, [pack[w] EXCEPT !.step = "checksum"])
        BY <1>0, <2>1 DEF Pack, Carries, Mounted, UnmountFirst
      <3> QED
        BY <1>a, <2>1, <2>2, <3>1, GoStays
    <2>3. CASE pack' = [pack EXCEPT ![w].step = "over", ![w].ok = FALSE]
      <3> DEFINE q == [pack[w] EXCEPT !.step = "over", !.ok = FALSE]
      <3>1. pack' = [pack EXCEPT ![w] = q]
        BY <2>3
      <3>2. Edited(pack[w], q)
        BY <1>a DEF Edited
      <3>3. q.step = "over" /\ q.stuck = pack[w].stuck
        BY <1>0 DEF Pack
      <3> HIDE DEF q
      <3>4. Carries(w, q)
        BY <2>1, <3>3 DEF Carries, Mounted
      <3> QED
        BY <2>1, <3>1, <3>2, <3>4, EditStays
    <2> QED
      BY <1>3, <2>2, <2>3 DEF ConvertQcow2
  <1>4. CASE StageIso(w)
    <2>1. UNCHANGED <<loops, mounts>> /\ pack[w].step = "iso" /\ Go(w, "efi") /\ LoopsOK'
      BY <1>0, <1>4, LoopsStay DEF StageIso, Step
    <2>2. DisksOK'
      BY <1>0, <1>4, <2>1 DEF StageIso, DisksOK, Contents
    <2>3. Carries(w, [pack[w] EXCEPT !.step = "efi"])
      BY <1>0, <2>1 DEF Pack, Carries, Mounted
    <2> QED
      BY <1>a, <2>1, <2>2, <2>3, GoStays
  <1>5. CASE CalculateChecksum(w)
    <2> DEFINE q == [pack[w] EXCEPT !.step = "upload", !.sum = Disk(w)]
    <2>1. /\ UNCHANGED <<loops, mounts, disks>> /\ pack[w].step = "checksum" /\ pack' = [pack EXCEPT ![w] = q]
          /\ LoopsOK' /\ DisksOK'
      BY <1>0, <1>5, LoopsStay, DisksStay DEF CalculateChecksum, Step
    <2>2. Edited(pack[w], q)
      <3>1. Disk(w) \in Contents
        BY <1>0, <2>1 DEF Disk, DisksOK
      <3> QED
        BY <1>a, <3>1 DEF Edited
    <2>3. q.step = "upload" /\ q.stuck = pack[w].stuck
      BY <1>0 DEF Pack
    <2> HIDE DEF q
    <2>4. Carries(w, q)
      BY <2>1, <2>3 DEF Carries, Mounted
    <2> QED
      BY <2>1, <2>2, <2>4, EditStays
  <1>6. CASE UploadImage(w)
    <2>1. UNCHANGED <<loops, mounts, disks>> /\ pack[w].step = "upload" /\ LoopsOK' /\ DisksOK'
      BY <1>0, <1>6, LoopsStay, DisksStay DEF UploadImage, Step
    <2>2. CASE Go(w, "over")
      <3>1. Carries(w, [pack[w] EXCEPT !.step = "over"])
        BY <1>0, <2>1 DEF Pack, Carries, Mounted, UnmountFirst
      <3> QED
        BY <1>a, <2>1, <2>2, <3>1, GoStays
    <2>3. CASE pack' = [pack EXCEPT ![w].step = "over", ![w].ok = FALSE]
      <3> DEFINE q == [pack[w] EXCEPT !.step = "over", !.ok = FALSE]
      <3>1. pack' = [pack EXCEPT ![w] = q]
        BY <2>3
      <3>2. Edited(pack[w], q)
        BY <1>a DEF Edited
      <3>3. q.step = "over" /\ q.stuck = pack[w].stuck
        BY <1>0 DEF Pack
      <3> HIDE DEF q
      <3>4. Carries(w, q)
        BY <2>1, <3>3 DEF Carries, Mounted
      <3> QED
        BY <2>1, <3>1, <3>2, <3>4, EditStays
    <2> QED
      BY <1>6, <2>2, <2>3 DEF UploadImage
  <1> QED
    BY <1>1, <1>2, <1>3, <1>4, <1>5, <1>6

\* The steps that attach, detach, mount and unmount.
LEMMA LoopSteps ==
  ASSUME ImageInv, NEW w \in Packagers, SetupLoopDevice(w) \/ Detach(w) \/ DeferredDetach(w)
  PROVE  ImageInv'
  <1>0. /\ PacksOK /\ LoopsOK /\ DisksOK /\ MountsOf(w) /\ pack[w] \in Pack(w)
        /\ pack[w].step # "idle" => RunOf(w) \in Runs
    BY RunOfType DEF ImageInv, PacksOK
  <1>a. {"defer", "esp_fs"} \subseteq Begun
    BY DEF Begun, Steps
  <1>1. CASE SetupLoopDevice(w)
    <2>1. PICK l \in Loops : /\ loops[l] = Free /\ loops' = [loops EXCEPT ![l] = [image |-> RunOf(w), auto |-> FALSE]]
                             /\ pack' = [pack EXCEPT ![w].step = "esp_fs", ![w].dev = l, ![w].defers = <<"detach">>]
      BY <1>1 DEF SetupLoopDevice
    <2>2. UNCHANGED <<mounts, disks>> /\ pack[w].step = "losetup" /\ DisksOK'
      BY <1>0, <1>1, DisksStay DEF SetupLoopDevice, Step
    <2>4. LoopsOK'
      BY <1>0, <2>1, <2>2, AttachKeepsLoops
    <2> DEFINE q == [pack[w] EXCEPT !.step = "esp_fs", !.dev = l, !.defers = <<"detach">>]
    <2>5. pack' = [pack EXCEPT ![w] = q]
      BY <2>1
    <2>6. Edited(pack[w], q)
      <3>1. <<"detach">> \in Seq(Calls)
        BY DEF Calls
      <3> QED
        BY <1>a, <3>1 DEF Edited
    <2>7. q.step = "esp_fs" /\ q.stuck = pack[w].stuck
      BY <1>0 DEF Pack
    <2> HIDE DEF q
    <2>8. Carries(w, q)
      BY <2>2, <2>7 DEF Carries, Mounted
    <2> QED
      BY <2>2, <2>4, <2>5, <2>6, <2>8, EditStays
  <1>2. CASE Detach(w)
    <2>1. UNCHANGED <<mounts, disks>> /\ pack[w].step = "detach" /\ Go(w, "defer") /\ DetachLoop(w) /\ DisksOK'
      BY <1>0, <1>2, DisksStay DEF Detach, Step
    <2>2. LoopsOK'
      BY <1>0, <2>1, DetachKeepsLoops
    <2>3. Carries(w, [pack[w] EXCEPT !.step = "defer"])
      BY <1>0, <2>1 DEF Pack, Carries, Mounted
    <2> QED
      BY <1>a, <2>1, <2>2, <2>3, GoStays
  <1>3. CASE DeferredDetach(w)
    <2> DEFINE q == [pack[w] EXCEPT !.defers = Tail(@)]
    <2>1. /\ UNCHANGED <<mounts, disks>> /\ pack[w].step = "defer" /\ pack' = [pack EXCEPT ![w] = q]
          /\ pack[w].defers # <<>> /\ Head(pack[w].defers) = "detach" /\ DetachLoop(w)
      BY <1>3 DEF DeferredDetach, Deferred, Pop, Step
    <2>2. Edited(pack[w], q)
      <3>1. Tail(pack[w].defers) \in Seq(Calls) /\ pack[w].stuck \in BOOLEAN
        BY <1>0, <2>1 DEF Pack
      <3>2. q = [pack[w] EXCEPT !.step = "defer", !.defers = Tail(pack[w].defers), !.stuck = pack[w].stuck]
        BY <1>0, <2>1 DEF Pack
      <3> HIDE DEF q
      <3> QED
        BY <1>a, <3>1, <3>2 DEF Edited
    <2>3. q.step = "defer" /\ q.stuck = pack[w].stuck
      BY <1>0, <2>1 DEF Pack
    <2> HIDE DEF q
    <2>4. Carries(w, q)
      BY <1>0, <2>1, <2>3 DEF Carries, Mounted, UnmountFirst
    <2>5. LoopsOK' /\ DisksOK'
      BY <1>0, <2>1, DetachKeepsLoops, DisksStay
    <2> QED
      BY <2>1, <2>2, <2>4, <2>5, EditStays
  <1> QED
    BY <1>1, <1>2, <1>3

LEMMA MountSteps ==
  ASSUME ImageInv, NEW w \in Packagers, MountRoot(w) \/ MountEsp(w)
  PROVE  ImageInv'
  <1>0. /\ PacksOK /\ LoopsOK /\ DisksOK /\ MountsOf(w) /\ pack[w] \in Pack(w)
        /\ pack[w].step # "idle" => RunOf(w) \in Runs
    BY RunOfType DEF ImageInv, PacksOK
  <1>a. {"mount_esp", "rsync"} \subseteq Begun
    BY DEF Begun, Steps
  <1>b. RunOf(w)[1] = w /\ RunOf(w)[2] = pack[w].n /\ pack[w].n \in Nat
    BY <1>0, ImageAssumption DEF RunOf, Pack, ImageAssumption
  <1>1. CASE MountRoot(w)
    <2>1. UNCHANGED <<loops, disks>> /\ pack[w].step = "mount_root" /\ Go(w, "mount_esp") /\ Mounting(w, "root")
      BY <1>1 DEF MountRoot, Step
    <2>2. LoopsOK' /\ DisksOK'
      BY <1>0, <2>1, MountKeepsLoops, DisksStay
    <2>3. /\ PacksOK' /\ pack'[w] = [pack[w] EXCEPT !.step = "mount_esp"] /\ RunOf(w)' = RunOf(w)
          /\ \A v \in Packagers \ {w} : pack'[v] = pack[v]
      BY <1>0, <1>a, <2>1, GoEdits
    <2> DEFINE m == [run |-> RunOf(w), part |-> "root", dev |-> pack[w].dev, image |-> Behind(w)]
    <2>4. mounts' = mounts \cup {m} /\ m.run = RunOf(w) /\ m.part = "root"
      BY <2>1 DEF Mounting
    <2> HIDE DEF m
    <2>5. pack'[w].step = "mount_esp" /\ pack'[w].n = pack[w].n
      BY <1>0, <2>3 DEF Pack
    <2>6. RootMount(w)' # {} /\ \A x \in mounts' : x.run[1] = w => x.run[2] <= pack'[w].n
      BY <1>0, <1>b, <2>3, <2>4, <2>5 DEF RootMount, MountsOf
    <2>7. MountsOf(w)'
      BY <2>5, <2>6 DEF MountsOf, Mounted, Step
    <2>8. \A x : x.run[1] # w => (x \in mounts' <=> x \in mounts)
      BY <1>b, <2>4
    <2> QED
      BY <2>2, <2>3, <2>7, <2>8, OfOneWorker
  <1>2. CASE MountEsp(w)
    <2> DEFINE q == [pack[w] EXCEPT !.step = "rsync", !.defers = <<"umount">> \o @]
    <2>1. /\ UNCHANGED <<loops, disks>> /\ pack[w].step = "mount_esp" /\ Mounting(w, "esp")
          /\ pack' = [pack EXCEPT ![w] = q]
      BY <1>2 DEF MountEsp, Step, Push
    <2>2. LoopsOK' /\ DisksOK'
      BY <1>0, <2>1, MountKeepsLoops, DisksStay
    <2>3. Edited(pack[w], q)
      <3>1. <<"umount">> \o pack[w].defers \in Seq(Calls) /\ pack[w].stuck \in BOOLEAN
        BY <1>0 DEF Calls, Pack
      <3>2. q = [pack[w] EXCEPT !.step = "rsync", !.defers = <<"umount">> \o pack[w].defers, !.stuck = pack[w].stuck]
        BY <1>0 DEF Pack
      <3> HIDE DEF q
      <3> QED
        BY <1>a, <3>1, <3>2 DEF Edited
    <2>4. q.step = "rsync" /\ q.n = pack[w].n /\ q.defers = <<"umount">> \o pack[w].defers
      BY <1>0 DEF Pack
    <2> HIDE DEF q
    <2>5. /\ PacksOK' /\ pack'[w] = q /\ RunOf(w)' = RunOf(w)
          /\ \A v \in Packagers \ {w} : pack'[v] = pack[v]
      BY <1>0, <2>1, <2>3, PacksEdited
    <2> DEFINE m == [run |-> RunOf(w), part |-> "esp", dev |-> pack[w].dev, image |-> Behind(w)]
    <2>6. mounts' = mounts \cup {m} /\ m.run = RunOf(w)
      BY <2>1 DEF Mounting
    <2> HIDE DEF m
    <2>7. UnmountFirst(w)'
      <3>1. pack[w].defers \in Seq(Calls) /\ "umount" \in Calls
        BY <1>0 DEF Pack, Calls
      <3> QED
        BY <2>4, <2>5, <3>1 DEF UnmountFirst
    <2>8. RootMount(w)' # {} /\ \A x \in mounts' : x.run[1] = w => x.run[2] <= pack'[w].n
      BY <1>0, <1>b, <2>1, <2>4, <2>5, <2>6 DEF RootMount, MountsOf, Step
    <2>9. MountsOf(w)'
      BY <2>4, <2>5, <2>7, <2>8 DEF MountsOf, Mounted, Step
    <2>10. \A x : x.run[1] # w => (x \in mounts' <=> x \in mounts)
      BY <1>b, <2>6
    <2> QED
      BY <2>2, <2>5, <2>9, <2>10, OfOneWorker
  <1> QED
    BY <1>1, <1>2

\* Whether umount succeeds or not, the others keep their mounts and the device
\* of a mounted partition stays attached; after a success nothing is left.
LEMMA UnmountEffect ==
  ASSUME LoopsOK, NEW w \in Packagers, NEW ok \in BOOLEAN, UnmountPartitions(w, ok)
  PROVE  /\ LoopsOK' /\ mounts' \subseteq mounts
         /\ \A m : m.run[1] # w => (m \in mounts' <=> m \in mounts)
         /\ ok => RootMount(w) # {} /\ mounts' = mounts \ Mine(w)
         /\ ~ok => RootMount(w) \subseteq mounts'
  <1>1. RunOf(w)[1] = w /\ Mine(w) \subseteq mounts /\ RootMount(w) \subseteq Mine(w) /\ \A m \in Mine(w) : m.run = RunOf(w)
    BY DEF RunOf, Mine, RootMount
  <1>2. CASE ok
    <2>1. RootMount(w) # {} /\ Unmounted(Mine(w))
      BY <1>2 DEF UnmountPartitions, Mine
    <2>2. LoopsOK' /\ mounts' = mounts \ Mine(w)
      BY <1>1, <2>1, UnmountKeepsLoops DEF Unmounted
    <2> QED
      BY <1>1, <1>2, <2>1, <2>2
  <1>3. CASE ~ok /\ Unmounted(Mine(w) \ RootMount(w))
    <2>1. LoopsOK' /\ mounts' = mounts \ (Mine(w) \ RootMount(w))
      BY <1>1, <1>3, UnmountKeepsLoops DEF Unmounted
    <2> QED
      BY <1>1, <1>3, <2>1
  <1>4. CASE ~ok /\ UNCHANGED <<mounts, loops>>
    BY <1>1, <1>4, LoopsStay
  <1> QED
    BY <1>2, <1>3, <1>4 DEF UnmountPartitions, Mine

LEMMA UnmountSteps ==
  ASSUME ImageInv, NEW w \in Packagers, Unmount(w) \/ DeferredUnmount(w)
  PROVE  ImageInv'
  <1>0. /\ PacksOK /\ LoopsOK /\ DisksOK /\ MountsOf(w) /\ pack[w] \in Pack(w)
        /\ pack[w].step # "idle" => RunOf(w) \in Runs
    BY RunOfType DEF ImageInv, PacksOK
  <1>a. {"defer", "detach"} \subseteq Begun
    BY DEF Begun, Steps
  <1>b. RunOf(w)[1] = w /\ RunOf(w)[2] = pack[w].n /\ pack[w].n \in Nat
    BY <1>0, ImageAssumption DEF RunOf, Pack, ImageAssumption
  <1>1. CASE Unmount(w)
    <2>1. PICK ok \in BOOLEAN : UnmountPartitions(w, ok) /\ IF ok THEN Go(w, "detach") ELSE Bail(w)
      BY <1>1 DEF Unmount
    <2>2. pack[w].step = "umount" /\ UnmountFirst(w) /\ DisksOK'
      BY <1>0, <1>1, DisksStay DEF Unmount, Step, MountsOf
    <2>3. /\ LoopsOK' /\ mounts' \subseteq mounts
          /\ \A m : m.run[1] # w => (m \in mounts' <=> m \in mounts)
          /\ ok => RootMount(w) # {} /\ mounts' = mounts \ Mine(w)
          /\ ~ok => RootMount(w) \subseteq mounts'
      BY <1>0, <2>1, UnmountEffect
    <2>4. CASE ok
      <3>1. /\ PacksOK' /\ pack'[w] = [pack[w] EXCEPT !.step = "detach"] /\ RunOf(w)' = RunOf(w)
            /\ \A v \in Packagers \ {w} : pack'[v] = pack[v]
        BY <1>0, <1>a, <2>1, <2>2, <2>4, GoEdits
      <3>2. pack'[w].step = "detach" /\ pack'[w].n = pack[w].n /\ RunOf(w)' = RunOf(w)
        BY <1>0, <3>1 DEF Pack
      <3>3. Mine(w)' = {}
        BY <2>3, <2>4, <3>1 DEF Mine
      <3>4. MountsOf(w)'
        BY <1>0, <1>b, <2>3, <3>2, <3>3, NothingMounted
      <3> QED
        BY <2>2, <2>3, <3>1, <3>4, OfOneWorker
    <2>5. CASE ~ok
      <3> DEFINE q == [pack[w] EXCEPT !.step = "defer", !.ok = FALSE]
      <3>1. pack' = [pack EXCEPT ![w] = q] /\ Edited(pack[w], q)
        BY <1>a, <2>1, <2>5 DEF Bail, Edited
      <3>2. q.step = "defer" /\ q.defers = pack[w].defers /\ q.stuck = pack[w].stuck /\ q.n = pack[w].n
        BY <1>0 DEF Pack
      <3> HIDE DEF q
      <3>3. /\ PacksOK' /\ pack'[w] = q /\ RunOf(w)' = RunOf(w)
            /\ \A v \in Packagers \ {w} : pack'[v] = pack[v]
        BY <1>0, <2>2, <3>1, PacksEdited
      <3>4. Mine(w)' \subseteq Mine(w) /\ RootMount(w) \subseteq RootMount(w)'
        BY <2>3, <2>5, <3>3 DEF Mine, RootMount
      <3>5. Mounted(w)'
        BY <2>2, <3>2, <3>3 DEF Mounted, UnmountFirst
      <3>6. MountsOf(w)'
        BY <1>0, <2>3, <3>2, <3>3, <3>4, <3>5 DEF MountsOf, Step
      <3> QED
        BY <2>2, <2>3, <3>3, <3>6, OfOneWorker
    <2> QED
      BY <2>4, <2>5
  <1>2. CASE DeferredUnmount(w)
    <2>1. PICK ok \in BOOLEAN :
            /\ UnmountPartitions(w, ok)
            /\ pack' = [pack EXCEPT ![w].defers = Tail(@), ![w].stuck = @ \/ (~ok /\ RootMount(w) # {})]
      BY <1>2 DEF DeferredUnmount
    <2>2. pack[w].step = "defer" /\ pack[w].defers # <<>> /\ DisksOK'
      BY <1>0, <1>2, DisksStay DEF DeferredUnmount, Deferred, Step
    <2>3. /\ LoopsOK' /\ mounts' \subseteq mounts
          /\ \A m : m.run[1] # w => (m \in mounts' <=> m \in mounts)
          /\ ok => RootMount(w) # {} /\ mounts' = mounts \ Mine(w)
          /\ ~ok => RootMount(w) \subseteq mounts'
      BY <1>0, <2>1, UnmountEffect
    <2> DEFINE late == pack[w].stuck \/ (~ok /\ RootMount(w) # {})
               q == [pack[w] EXCEPT !.step = "defer", !.defers = Tail(pack[w].defers), !.stuck = late]
    <2>4. pack' = [pack EXCEPT ![w] = q]
      <3>1. [pack[w] EXCEPT !.defers = Tail(@), !.stuck = late] = q
        BY <1>0, <2>2 DEF Pack
      <3> HIDE DEF late
      <3>2. pack' = [pack EXCEPT ![w] = [pack[w] EXCEPT !.defers = Tail(@), !.stuck = late]]
        BY <2>1 DEF late
      <3> HIDE DEF q
      <3> QED
        BY <3>1, <3>2
    <2>5. Edited(pack[w], q)
      <3>1. Tail(pack[w].defers) \in Seq(Calls) /\ late \in BOOLEAN
        BY <1>0, <2>2 DEF Pack
      <3> HIDE DEF late
      <3> QED
        BY <1>a, <3>1 DEF Edited
    <2>6. q.step = "defer" /\ q.n = pack[w].n /\ q.stuck = late
      <3> HIDE DEF late
      <3> QED
        BY <1>0 DEF Pack
    <2> HIDE DEF q
    <2>7. /\ PacksOK' /\ pack'[w] = q /\ RunOf(w)' = RunOf(w)
          /\ \A v \in Packagers \ {w} : pack'[v] = pack[v]
      BY <1>0, <2>2, <2>4, <2>5, PacksEdited
    <2>8. CASE ok
      <3>1. Mine(w)' = {}
        BY <2>3, <2>7, <2>8 DEF Mine
      <3>2. MountsOf(w)'
        BY <1>0, <1>b, <2>3, <2>6, <2>7, <3>1, NothingMounted
      <3> QED
        BY <2>2, <2>3, <2>7, <3>2, OfOneWorker
    <2>9. CASE ~ok
      <3>1. Mine(w)' \subseteq Mine(w) /\ RootMount(w) \subseteq RootMount(w)'
        BY <2>3, <2>7, <2>9 DEF Mine, RootMount
      <3>2. Mine(w)' # {} => pack'[w].stuck
        BY <1>0, <2>6, <2>7, <2>9, <3>1 DEF MountsOf
      <3>3. MountsOf(w)'
        BY <1>0, <2>3, <2>6, <2>7, <3>1, <3>2 DEF MountsOf, Step
      <3> QED
        BY <2>2, <2>3, <2>7, <3>3, OfOneWorker
    <2> QED
      BY <2>8, <2>9
  <1> QED
    BY <1>1, <1>2

\* The partition of an EFI image is mounted by its own device.
LEMMA EfiSteps ==
  ASSUME ImageInv, NEW w \in Packagers, CreateEfiImage(w) \/ UnmountEfiImage(w)
  PROVE  ImageInv'
  <1>0. /\ PacksOK /\ LoopsOK /\ DisksOK /\ MountsOf(w) /\ pack[w] \in Pack(w)
        /\ pack[w].step # "idle" => RunOf(w) \in Runs
    BY RunOfType DEF ImageInv, PacksOK
  <1>a. {"defer", "efi_umount", "checksum"} \subseteq Begun
    BY DEF Begun, Steps
  <1>b. RunOf(w)[1] = w /\ RunOf(w)[2] = pack[w].n /\ pack[w].n \in Nat
    BY <1>0, ImageAssumption DEF RunOf, Pack, ImageAssumption
  <1>1. CASE CreateEfiImage(w)
    <2>1. pack[w].step = "efi" /\ DisksOK'
      BY <1>0, <1>1, DisksStay DEF CreateEfiImage, Step
    <2>2. CASE Bail(w) /\ UNCHANGED <<loops, mounts>>
      <3> DEFINE q == [pack[w] EXCEPT !.step = "defer", !.ok = FALSE]
      <3>1. pack' = [pack EXCEPT ![w] = q] /\ Edited(pack[w], q)
        BY <1>a, <2>2 DEF Bail, Edited
      <3>2. q.step = "defer" /\ q.stuck = pack[w].stuck
        BY <1>0 DEF Pack
      <3> HIDE DEF q
      <3>3. Carries(w, q)
        BY <2>1, <3>2 DEF Carries, Mounted
      <3> QED
        BY <1>0, <2>1, <2>2, <3>1, <3>3, EditStays, LoopsStay
    <2>3. ASSUME NEW l \in Loops, loops[l] = Free, Go(w, "efi_umount"),
                 loops' = [loops EXCEPT ![l] = [image |-> RunOf(w), auto |-> TRUE]],
                 mounts' = mounts \cup {[run |-> RunOf(w), part |-> "root", dev |-> l, image |-> RunOf(w)]}
          PROVE  ImageInv'
      <3> DEFINE m == [run |-> RunOf(w), part |-> "root", dev |-> l, image |-> RunOf(w)]
      <3>1. LoopsOK'
        BY <1>0, <2>1, <2>3, AttachKeepsLoops
      <3>2. /\ PacksOK' /\ pack'[w] = [pack[w] EXCEPT !.step = "efi_umount"] /\ RunOf(w)' = RunOf(w)
            /\ \A v \in Packagers \ {w} : pack'[v] = pack[v]
        BY <1>0, <1>a, <2>1, <2>3, GoEdits
      <3>3. mounts' = mounts \cup {m} /\ m.run = RunOf(w) /\ m.part = "root"
        BY <2>3
      <3> HIDE DEF m
      <3>4. pack'[w].step = "efi_umount" /\ pack'[w].n = pack[w].n /\ pack'[w].stuck = pack[w].stuck
        BY <1>0, <3>2 DEF Pack
      <3>5. RootMount(w)' # {} /\ \A x \in mounts' : x.run[1] = w => x.run[2] <= pack'[w].n
        BY <1>0, <1>b, <3>2, <3>3, <3>4 DEF RootMount, MountsOf
      <3>6. Mine(w)' = RootMount(w)'
        <4>1. Mine(w) = RootMount(w)
          BY <1>0, <2>1 DEF MountsOf
        <4> QED
          BY <3>2, <3>3, <4>1 DEF Mine, RootMount
      <3>7. MountsOf(w)'
        BY <3>4, <3>5, <3>6 DEF MountsOf, Mounted, Step
      <3>8. \A x : x.run[1] # w => (x \in mounts' <=> x \in mounts)
        BY <1>b, <3>3
      <3> QED
        BY <2>1, <3>1, <3>2, <3>7, <3>8, OfOneWorker
    <2> QED
      BY <1>1, <2>2, <2>3 DEF CreateEfiImage
  <1>2. CASE UnmountEfiImage(w)
    <2>1. pack[w].step = "efi_umount" /\ DisksOK'
      BY <1>0, <1>2, DisksStay DEF UnmountEfiImage, Step
    <2>2. CASE Unmounted(RootMount(w)) /\ Go(w, "checksum")
      <3>1. /\ PacksOK' /\ pack'[w] = [pack[w] EXCEPT !.step = "checksum"] /\ RunOf(w)' = RunOf(w)
            /\ \A v \in Packagers \ {w} : pack'[v] = pack[v]
        BY <1>0, <1>a, <2>1, <2>2, GoEdits
      <3>2. /\ pack'[w].step = "checksum" /\ pack'[w].n = pack[w].n /\ pack'[w].stuck = pack[w].stuck
            /\ RunOf(w)' = RunOf(w)
        BY <1>0, <3>1 DEF Pack
      <3>3. RootMount(w) \subseteq mounts /\ \A m \in RootMount(w) : m.run = RunOf(w)
        BY DEF RootMount
      <3>4. LoopsOK' /\ mounts' = mounts \ RootMount(w)
        BY <1>0, <2>2, <3>3, UnmountKeepsLoops DEF Unmounted
      <3>5. \A m : m.run[1] # w => (m \in mounts' <=> m \in mounts)
        BY <1>b, <3>3, <3>4
      <3>6. Mine(w)' = {}
        BY <1>0, <2>1, <3>2, <3>4 DEF Mine, MountsOf
      <3>7. MountsOf(w)'
        BY <1>0, <1>b, <3>2, <3>4, <3>6, NothingMounted
      <3> QED
        BY <2>1, <3>1, <3>4, <3>5, <3>7, OfOneWorker
    <2>3. CASE /\ UNCHANGED <<loops, mounts>>
               /\ pack' = [pack EXCEPT ![w].step = IF Commands(w) THEN "checksum" ELSE "defer",
                                       ![w].ok = Commands(w), ![w].stuck = TRUE]
      <3> DEFINE s == IF Commands(w) THEN "checksum" ELSE "defer"
                 b == Commands(w)
                 q == [pack[w] EXCEPT !.step = s, !.ok = b, !.stuck = TRUE]
      <3>1. s \in Begun /\ s \in {"checksum", "defer"} /\ b \in BOOLEAN
        BY <1>a DEF Commands
      <3>2. pack' = [pack EXCEPT ![w] = q]
        BY <2>3
      <3> HIDE DEF s, b
      <3>3. Edited(pack[w], q)
        BY <3>1 DEF Edited
      <3>4. q.step = s /\ q.stuck
        BY <1>0 DEF Pack
      <3> HIDE DEF q
      <3>5. Carries(w, q)
        BY <3>1, <3>4 DEF Carries
      <3> QED
        BY <1>0, <2>1, <2>3, <3>2, <3>3, <3>5, EditStays, LoopsStay
    <2> QED
      BY <1>2, <2>2, <2>3 DEF UnmountEfiImage
  <1> QED
    BY <1>1, <1>2

LEMMA BeginAndCancel ==
  ASSUME ImageInv, NEW w \in Packagers, StartImage(w) \/ Cancel(w)
  PROVE  ImageInv'
  <1>0. /\ PacksOK /\ LoopsOK /\ DisksOK /\ MountsOf(w) /\ pack[w] \in Pack(w)
    BY DEF ImageInv, PacksOK
  <1>1. LoopsOK' /\ DisksOK' /\ UNCHANGED mounts
    BY <1>0, LoopsStay, DisksStay DEF StartImage, Cancel
  <1>2. CASE StartImage(w)
    <2>1. PICK f \in Formats :
            pack' = [pack EXCEPT ![w].step = IF f = "iso" THEN "iso" ELSE "sparse", ![w].n = @ + 1,
                                 ![w].format = f, ![w].defers = <<>>, ![w].ok = TRUE,
                                 ![w].cancelled = FALSE, ![w].stuck = FALSE]
      BY <1>2 DEF StartImage
    <2> DEFINE s == IF f = "iso" THEN "iso" ELSE "sparse"
               q == [pack[w] EXCEPT !.step = s, !.n = @ + 1, !.format = f, !.defers = <<>>, !.ok = TRUE,
                                    !.cancelled = FALSE, !.stuck = FALSE]
    <2>2. pack' = [pack EXCEPT ![w] = q]
      BY <2>1
    <2>3. s \in {"iso", "sparse"} /\ s \in Steps
      BY DEF Steps
    <2> HIDE DEF s
    <2>4. pack[w].n \in Nat /\ pack[w].n + 1 \in 0..MaxImages[w] /\ f \in {"raw", "qcow2", "iso"} /\ <<>> \in Seq(Calls)
      <3>1. pack[w].n < MaxImages[w] /\ MaxImages[w] \in Nat /\ pack[w].n \in 0..MaxImages[w]
        BY <1>0, <1>2, ImageAssumption DEF StartImage, Pack, ImageAssumption
      <3>2. f \in {"raw", "qcow2", "iso"}
        BY ImageAssumption DEF ImageAssumption
      <3> QED
        BY <3>1, <3>2
    <2>5. q \in Pack(w) /\ q.step = s /\ q.n = pack[w].n + 1
      BY <1>0, <2>3, <2>4 DEF Pack
    <2> HIDE DEF q
    <2>6. /\ pack' = [v \in Packagers |-> pack'[v]] /\ pack'[w] = q
          /\ \A v \in Packagers \ {w} : pack'[v] = pack[v]
      BY <1>0, <2>2 DEF PacksOK
    <2>7. PacksOK'
      <3>1. \A v \in Packagers : Pack(v)' = Pack(v)
        BY DEF Pack
      <3> QED
        BY <1>0, <2>4, <2>5, <2>6, <3>1 DEF PacksOK
    <2>8. Mine(w)' = {}
      <3>1. \A m \in mounts : m.run \in Runs
        BY <1>0 DEF LoopsOK
      <3>2. RunOf(w)' = <<w, pack[w].n + 1>>
        BY <2>5, <2>6 DEF RunOf
      <3>3. \A m \in mounts : m.run # <<w, pack[w].n + 1>>
        BY <1>0, <2>4 DEF MountsOf
      <3> QED
        BY <1>1, <3>2, <3>3 DEF Mine
    <2>9. MountsOf(w)'
      BY <1>0, <1>1, <2>3, <2>4, <2>5, <2>6, <2>8, NothingMounted
    <2> QED
      BY <1>1, <2>6, <2>7, <2>9, OfOneWorker
  <1>3. CASE Cancel(w)
    <2> DEFINE q == [pack[w] EXCEPT !.cancelled = TRUE]
    <2>1. pack' = [pack EXCEPT ![w] = q]
      BY <1>3 DEF Cancel
    <2>2. /\ q \in Pack(w) /\ q.step = pack[w].step /\ q.n = pack[w].n /\ q.defers = pack[w].defers
          /\ q.stuck = pack[w].stuck
      BY <1>0 DEF Pack
    <2> HIDE DEF q
    <2>3. /\ pack' = [v \in Packagers |-> pack'[v]] /\ pack'[w] = q
          /\ \A v \in Packagers \ {w} : pack'[v] = pack[v]
      BY <1>0, <2>1 DEF PacksOK
    <2>4. PacksOK'
      <3>1. \A v \in Packagers : Pack(v)' = Pack(v)
        BY DEF Pack
      <3> QED
        BY <1>0, <2>2, <2>3, <3>1 DEF PacksOK
    <2>5. RunOf(w)' = RunOf(w) /\ Mine(w)' = Mine(w) /\ RootMount(w)' = RootMount(w)
      BY <1>1, <2>2, <2>3 DEF RunOf, Mine, RootMount
    <2>6. MountsOf(w)'
      BY <1>0, <1>1, <2>2, <2>3, <2>5 DEF MountsOf, Mounted, UnmountFirst, Step
    <2> QED
      BY <1>1, <2>3, <2>4, <2>6, OfOneWorker
  <1> QED
    BY <1>2, <1>3

LEMMA ImageStep == ImageInv /\ [ImageNext]_imageVars => ImageInv'
  <1> SUFFICES ASSUME ImageInv, [ImageNext]_imageVars PROVE ImageInv'
    OBVIOUS
  <1>1. ASSUME ImageNext PROVE ImageInv'
    BY <1>1, PlainSteps, LaterPlainSteps, LoopSteps, MountSteps, UnmountSteps, EfiSteps, BeginAndCancel DEF ImageNext
  <1>2. CASE UNCHANGED imageVars
    <2>1. PacksOK'
      BY <1>2 DEF imageVars, ImageInv, PacksOK, Pack
    <2>2. LoopsOK' /\ DisksOK'
      BY <1>2, LoopsStay, DisksStay DEF imageVars, ImageInv
    <2>3. ASSUME NEW w \in Packagers PROVE MountsOf(w)'
      BY <1>2, OthersStayMounted DEF imageVars, ImageInv
    <2> QED
      BY <2>1, <2>2, <2>3 DEF ImageInv
  <1> QED
    BY <1>1, <1>2

LEMMA ImageInvTypes == ImageInv => ImageTypeOK
  BY DEF ImageInv, PacksOK, Pack, LoopsOK, DisksOK, ImageTypeOK

\* Types, and what is mounted is the image that its loop device shows.
THEOREM ImageTypes == ImageSpec => []ImageTypeOK
  BY ImageStart, ImageStep, ImageInvTypes, PTL DEF ImageSpec

\* A generator that is done has unmounted what it mounted, unless it was
\* stuck or cancelled (RawImageGenerator.Generate).
THEOREM GeneratorsUnmount == ImageSpec => []MountsGivenBack
  <1>1. ImageInv => MountsGivenBack
    BY DEF ImageInv, MountsOf, Mine, Mounted, MountsGivenBack, Step
  <1> QED
    BY <1>1, ImageStart, ImageStep, PTL DEF ImageSpec

-----------------------------------------------------------------------------
(***************************************************************************)
(* The workspace of a build (BuildStages).                                 *)
(***************************************************************************)

\* A set of natural numbers that is not empty has a least element.
LEMMA LeastExists ==
  ASSUME NEW S \in SUBSET Nat, S # {}
  PROVE  \E x \in S : \A y \in S : x <= y
  <1>1. PICK x \in S : \A y \in S : <<y, x>> \notin OpToRel(<, Nat)
    BY NatLessThanWellFounded, WFMin
  <1>2. \A y \in S : ~(y < x)
    BY <1>1, Zenon DEF OpToRel
  <1> QED
    BY <1>2

\* first[n] is what Only keeps of the first n elements of s.
Keeps(first, s, S) ==
  first = [n \in 0..Len(s) |-> IF n = 0 THEN <<>>
                               ELSE IF s[n] \in S THEN Append(first[n - 1], s[n]) ELSE first[n - 1]]

\* The recursive function of Only has a value on every prefix.
LEMMA KeepsExists ==
  ASSUME NEW P, NEW s \in Seq(P), NEW S
  PROVE  \E first : Keeps(first, s, S)
  <1> DEFINE Next(u, m) == IF s[m] \in S THEN Append(u[m - 1], s[m]) ELSE u[m - 1]
             UpTo(m, u) == u = [n \in 0..m |-> IF n = 0 THEN <<>> ELSE Next(u, n)]
             Bad == {m \in 0..Len(s) : ~\E u : UpTo(m, u)}
  <1>1. Len(s) \in Nat /\ Len(s) \in 0..Len(s)
    OBVIOUS
  <1>2. ASSUME Bad # {} PROVE FALSE
    <2>1. PICK m \in Bad : \A n \in Bad : m <= n
      <3>1. Bad \in SUBSET Nat
        OBVIOUS
      <3> HIDE DEF Bad
      <3> QED
        BY <1>2, <3>1, LeastExists
    <2>2. m \in 0..Len(s) /\ ~\E u : UpTo(m, u)
      OBVIOUS
    <2>3. m # 0
      <3> DEFINE z == [n \in 0..0 |-> <<>>]
      <3>1. ASSUME m = 0 PROVE UpTo(m, z)
        BY <3>1
      <3> QED
        BY <2>2, <3>1
    <2>4. m - 1 \in 0..Len(s) /\ m - 1 \notin Bad
      <3>1. m - 1 \in 0..Len(s) /\ ~(m <= m - 1)
        BY <1>1, <2>2, <2>3
      <3> HIDE DEF Bad
      <3> QED
        BY <2>1, <3>1
    <2>5. PICK u : UpTo(m - 1, u)
      BY <2>4
    <2> DEFINE w == [n \in 0..m |-> IF n = m THEN Next(u, m) ELSE u[n]]
    <2>6. \A n \in 0..(m - 1) : u[n] = IF n = 0 THEN <<>> ELSE Next(u, n)
      BY <2>5
    <2>7. \A n \in 0..m : w[n] = IF n = 0 THEN <<>> ELSE Next(w, n)
      <3> SUFFICES ASSUME NEW n \in 0..m PROVE w[n] = IF n = 0 THEN <<>> ELSE Next(w, n)
        OBVIOUS
      <3>1. n # 0 => w[n - 1] = u[n - 1] /\ Next(w, n) = Next(u, n)
        BY <2>2
      <3>2. w[n] = IF n = m THEN Next(u, m) ELSE u[n]
        OBVIOUS
      <3>3. n # m => n \in 0..(m - 1)
        BY <2>2
      <3> HIDE DEF w, Next
      <3> QED
        BY <2>3, <2>6, <3>1, <3>2, <3>3
    <2>8. UpTo(m, w)
      <3> HIDE DEF Next
      <3> QED
        BY <2>7
    <2> QED
      BY <2>2, <2>8
  <1>3. PICK u : UpTo(Len(s), u)
    BY <1>1, <1>2
  <1> QED
    BY <1>3 DEF Keeps

\* Only keeps the elements of S, all of them.
LEMMA OnlyThose ==
  ASSUME NEW P, NEW s \in Seq(P), NEW S
  PROVE  /\ Only(s, S) \in Seq(P)
         /\ \A i \in DOMAIN Only(s, S) : Only(s, S)[i] \in S
         /\ \A i \in 1..Len(s) : s[i] \in S => \E j \in DOMAIN Only(s, S) : Only(s, S)[j] = s[i]
  <1> DEFINE first == CHOOSE first : Keeps(first, s, S)
             Good(n) == /\ first[n] \in Seq(P)
                        /\ \A i \in DOMAIN first[n] : first[n][i] \in S
                        /\ \A i \in 1..n : s[i] \in S => \E j \in DOMAIN first[n] : first[n][j] = s[i]
             Bad == {n \in 0..Len(s) : ~Good(n)}
  <1>1. Only(s, S) = first[Len(s)]
    BY DEF Only, Keeps
  <1>2. Keeps(first, s, S)
    BY KeepsExists
  <1> HIDE DEF first
  <1>3. Len(s) \in Nat /\ Len(s) \in 0..Len(s)
    OBVIOUS
  <1>4. \A n \in 0..Len(s) : first[n] = IF n = 0 THEN <<>> ELSE IF s[n] \in S THEN Append(first[n - 1], s[n]) ELSE first[n - 1]
    BY <1>2 DEF Keeps
  <1>5. ASSUME Bad # {} PROVE FALSE
    <2>1. PICK m \in Bad : \A n \in Bad : m <= n
      <3>1. Bad \in SUBSET Nat
        OBVIOUS
      <3> HIDE DEF Bad
      <3> QED
        BY <1>5, <3>1, LeastExists
    <2>2. m \in 0..Len(s) /\ ~Good(m)
      OBVIOUS
    <2>3. m # 0
      <3>1. first[0] = <<>>
        BY <1>3, <1>4
      <3>2. <<>> \in Seq(P) /\ DOMAIN <<>> = {}
        OBVIOUS
      <3>3. Good(0)
        BY <3>1, <3>2
      <3> QED
        BY <2>2, <3>3
    <2>4. Good(m - 1) /\ m - 1 \in 0..Len(s) /\ m \in 1..Len(s)
      <3>1. m - 1 \in 0..Len(s) /\ ~(m <= m - 1) /\ m \in 1..Len(s)
        BY <1>3, <2>2, <2>3
      <3>2. m - 1 \notin Bad
        <4> HIDE DEF Bad
        <4> QED
          BY <2>1, <3>1
      <3> QED
        BY <3>1, <3>2
    <2> DEFINE t == first[m - 1]
    <2>5. t \in Seq(P) /\ s[m] \in P
      BY <2>4
    <2>6. CASE s[m] \in S
      <3>1. first[m] = Append(t, s[m])
        BY <1>4, <2>2, <2>3, <2>6
      <3>2. /\ \A i \in DOMAIN t : t[i] \in S
            /\ \A i \in 1..(m - 1) : s[i] \in S => \E j \in DOMAIN t : t[j] = s[i]
        BY <2>4
      <3> HIDE DEF t
      <3>3. /\ Append(t, s[m]) \in Seq(P) /\ DOMAIN Append(t, s[m]) = DOMAIN t \cup {Len(t) + 1}
            /\ \A i \in DOMAIN t : Append(t, s[m])[i] = t[i]
            /\ Append(t, s[m])[Len(t) + 1] = s[m]
        BY <2>5
      <3>4. first[m] \in Seq(P) /\ \A i \in DOMAIN first[m] : first[m][i] \in S
        BY <2>6, <3>1, <3>2, <3>3
      <3>5. ASSUME NEW i \in 1..m, s[i] \in S PROVE \E j \in DOMAIN first[m] : first[m][j] = s[i]
        <4>1. CASE i = m
          BY <3>1, <3>3, <4>1
        <4>2. CASE i # m
          <5>1. i \in 1..(m - 1)
            BY <2>4, <4>2
          <5>2. PICK j \in DOMAIN t : t[j] = s[i]
            BY <3>2, <3>5, <5>1
          <5> QED
            BY <3>1, <3>3, <5>2
        <4> QED
          BY <4>1, <4>2
      <3> QED
        BY <2>2, <3>4, <3>5
    <2>7. CASE s[m] \notin S
      <3>1. first[m] = first[m - 1]
        BY <1>4, <2>2, <2>3, <2>7
      <3>2. \A i \in 1..m : i = m \/ i \in 1..(m - 1)
        BY <2>4
      <3> QED
        BY <2>2, <2>4, <2>7, <3>1, <3>2
    <2> QED
      BY <2>6, <2>7
  <1>6. Good(Len(s))
    BY <1>3, <1>5
  <1> QED
    BY <1>1, <1>6

(********************************** types **********************************)
\* The functions from some components to V.
PartMaps(V) == UNION {[S -> V] : S \in SUBSET Parts}

\* Whatever a root filesystem may hold.
Paths == Skeleton \cup SystemdInstall \cup OpenRCInstall \cup GRUB2Configure \cup SystemdBootConfigure \cup UKIConfigure
         \cup SELinuxConfigure \cup AppArmorConfigure \cup {"boot/dtbs", "boot/config.txt"} \cup GeneratedFiles

RootType == [kernel: Releases \cup {Unset}, modules: SUBSET Releases, files: SUBSET Paths]

\* What a run may hold.
RunType == [at: Working \cup {"rest", "mark_failed", "clean"}, todo: Seq(Parts), got: PartMaps(Releases),
            dir: PartMaps(Releases \cup {Unset}), alone: BOOLEAN, image: RootType]

\* What the row of the build may hold.
JobType == [status: {"pending", "resolving", "completed", "failed", "cancelled"}, queued: 0..2,
            starts: 0..MaxStarts, config: Snapshots]

\* What the workspace may hold.
SpaceType == [made: BOOLEAN, config: BOOLEAN, scripts: BOOLEAN, trees: SUBSET (Parts \X Releases),
              kernel: Releases \cup {Unset}, modules: SUBSET Releases, rootfs: RootType]

\* The catalogue, the storage and the row of the build.
TableTypes ==
  /\ offered \in PartMaps([default: Releases \cup {Unset}, fits: BOOLEAN])
  /\ kept \subseteq Parts \X Releases /\ fetched \subseteq Parts \X Releases
  /\ job \in JobType
  /\ shipped \in Seq([image: RootType, got: PartMaps(Releases), alone: BOOLEAN])

\* What a run is at, and only what was resolved is downloaded and prepared.
RunTypes ==
  /\ runs \in [Builders -> RunType]
  /\ \A b \in Builders : /\ DOMAIN runs[b].dir \subseteq DOMAIN runs[b].got
                         /\ At(b, "download") \/ At(b, "prepare") =>
                              \A i \in DOMAIN runs[b].todo : runs[b].todo[i] \in DOMAIN runs[b].got

\* A workspace that was not made holds nothing.
SpaceTypes == space \in SpaceType /\ (space.made \/ space = NoSpace)

\* What With adds keeps the type.
LEMMA WithTyped ==
  ASSUME NEW V, NEW f \in PartMaps(V), NEW p \in Parts, NEW v \in V
  PROVE  With(f, p, v) \in PartMaps(V)
  <1>1. PICK S \in SUBSET Parts : f \in [S -> V]
    BY DEF PartMaps
  <1>2. With(f, p, v) \in [S \cup {p} -> V] /\ S \cup {p} \in SUBSET Parts
    BY <1>1 DEF With
  <1> QED
    BY <1>2, Zenon DEF PartMaps

\* An empty list is a function without arguments.
LEMMA RestingTyped == /\ Resting \in RunType /\ DOMAIN Resting.dir = {} /\ DOMAIN Resting.got = {}
                      /\ NoRootfs \in RootType /\ NoSpace \in SpaceType
  <1>1. <<>> \in [{} -> Releases] /\ <<>> \in [{} -> Releases \cup {Unset}] /\ DOMAIN <<>> = {}
    OBVIOUS
  <1>2. <<>> \in PartMaps(Releases) /\ <<>> \in PartMaps(Releases \cup {Unset})
    BY <1>1 DEF PartMaps
  <1>3. NoRootfs \in RootType
    BY DEF NoRootfs, RootType
  <1>4. Resting.dir = <<>> /\ Resting.got = <<>>
    BY DEF Resting
  <1>5. Resting \in RunType
    BY <1>2, <1>3 DEF Resting, RunType
  <1>6. NoSpace \in SpaceType
    BY <1>3 DEF NoSpace, SpaceType
  <1> QED
    BY <1>1, <1>3, <1>4, <1>5, <1>6

\* What the stages go through is a list of components, the kernel among them.
LEMMA RequiredTyped ==
  ASSUME StagesAssumption, TableTypes
  PROVE  Required(job.config) \in Seq(Parts)
  <1>1. job.config \in Snapshots /\ Kernel \in Parts
    BY DEF StagesAssumption, TableTypes, JobType
  <1>2. job.config.wants \in Seq(Parts \ {Kernel})
    BY <1>1 DEF StagesAssumption
  <1> DEFINE t == Only(job.config.wants, DOMAIN offered)
  <1>3. t \in Seq(Parts \ {Kernel})
    BY <1>2, OnlyThose
  <1>4. Required(job.config) = <<Kernel>> \o t
    BY DEF Required
  <1> HIDE DEF t
  <1> QED
    BY <1>1, <1>3, <1>4

\* What a stage goes through again was resolved, the kernel among it if it was.
LEMMA AgainTyped ==
  ASSUME StagesAssumption, TableTypes, RunTypes, NEW b \in Builders
  PROVE  LET t == Only(<<Kernel>> \o job.config.wants, DOMAIN runs[b].got)
         IN /\ t \in Seq(Parts) /\ \A i \in DOMAIN t : t[i] \in DOMAIN runs[b].got
            /\ Kernel \in DOMAIN runs[b].got => \E i \in DOMAIN t : t[i] = Kernel
  <1>1. job.config \in Snapshots /\ Kernel \in Parts
    BY DEF StagesAssumption, TableTypes, JobType
  <1>2. job.config.wants \in Seq(Parts \ {Kernel})
    BY <1>1 DEF StagesAssumption
  <1> DEFINE s == <<Kernel>> \o job.config.wants
  <1>3. s \in Seq(Parts) /\ 1 \in 1..Len(s) /\ s[1] = Kernel
    BY <1>1, <1>2
  <1> HIDE DEF s
  <1>4. /\ Only(s, DOMAIN runs[b].got) \in Seq(Parts)
        /\ \A i \in DOMAIN Only(s, DOMAIN runs[b].got) : Only(s, DOMAIN runs[b].got)[i] \in DOMAIN runs[b].got
        /\ \A i \in 1..Len(s) : s[i] \in DOMAIN runs[b].got =>
             \E j \in DOMAIN Only(s, DOMAIN runs[b].got) : Only(s, DOMAIN runs[b].got)[j] = s[i]
    BY <1>3, OnlyThose
  <1> QED
    BY <1>3, <1>4 DEF s

(***************** every action keeps the types of the tables **************)
StagesTypes == StagesAssumption /\ TableTypes /\ RunTypes /\ SpaceTypes

\* Restrict gives a part of a function.
LEMMA RestrictTyped ==
  ASSUME NEW V, NEW f \in PartMaps(V), NEW S \in SUBSET DOMAIN f
  PROVE  Restrict(f, S) \in PartMaps(V)
  <1>1. PICK T \in SUBSET Parts : f \in [T -> V]
    BY DEF PartMaps
  <1>2. Restrict(f, S) \in [S -> V] /\ S \in SUBSET Parts
    BY <1>1 DEF Restrict
  <1> QED
    BY <1>2, Zenon DEF PartMaps

\* What changes a function at an argument it has.
LEMMA ExceptTyped ==
  ASSUME NEW V, NEW f \in PartMaps(V), NEW p \in DOMAIN f, NEW v \in V
  PROVE  [f EXCEPT ![p] = v] \in PartMaps(V) /\ p \in Parts /\ f[p] \in V
  <1>1. PICK T \in SUBSET Parts : f \in [T -> V]
    BY DEF PartMaps
  <1>2. [f EXCEPT ![p] = v] \in [T -> V]
    BY <1>1
  <1>3. [f EXCEPT ![p] = v] \in PartMaps(V)
    BY <1>2, Zenon DEF PartMaps
  <1> QED
    BY <1>1, <1>3

\* What a function of components has at one of them.
LEMMA ArgTyped ==
  ASSUME NEW V, NEW f \in PartMaps(V), NEW p \in DOMAIN f
  PROVE  f[p] \in V /\ p \in Parts
  BY DEF PartMaps

\* An entry of the catalogue.
OfferType == [default: Releases \cup {Unset}, fits: BOOLEAN]

\* Changes of the catalogue and the storage keep the types and touch no run.
LEMMA CatalogueSteps ==
  ASSUME StagesTypes, DefaultChanges \/ ComponentEdited \/ ComponentDeleted \/ ArtifactDeleted \/ DownloadCompletes
  PROVE  TableTypes' /\ UNCHANGED <<job, runs, space, shipped>>
  <1> USE DEF StagesTypes, TableTypes
  <1>0. offered \in PartMaps(OfferType) /\ UNCHANGED <<job, runs, space, shipped>>
    BY DEF OfferType, DefaultChanges, ComponentEdited, ComponentDeleted, ArtifactDeleted, DownloadCompletes, Changing
  <1>1. CASE DefaultChanges
    <2>1. PICK p \in DOMAIN offered, v \in Releases :
             offered' = [offered EXCEPT ![p].default = v] /\ UNCHANGED <<fetched, kept>>
      BY <1>1 DEF DefaultChanges, Changing
    <2> DEFINE o == [offered[p] EXCEPT !.default = v]
    <2>2. offered[p] \in OfferType
      BY <1>0, ArgTyped
    <2>3. o \in OfferType
      BY <2>2 DEF OfferType
    <2>4. offered' = [offered EXCEPT ![p] = o]
      BY <2>1
    <2> HIDE DEF o
    <2>5. [offered EXCEPT ![p] = o] \in PartMaps(OfferType)
      BY <1>0, <2>3, ExceptTyped
    <2> QED
      BY <1>0, <2>1, <2>4, <2>5 DEF OfferType
  <1>2. CASE ComponentEdited
    <2>1. PICK p \in DOMAIN offered :
             offered' = [offered EXCEPT ![p].fits = ~@] /\ UNCHANGED <<fetched, kept>>
      BY <1>2 DEF ComponentEdited, Changing
    <2> DEFINE o == [offered[p] EXCEPT !.fits = ~@]
    <2>2. offered[p] \in OfferType
      BY <1>0, ArgTyped
    <2>3. o \in OfferType
      BY <2>2 DEF OfferType
    <2>4. offered' = [offered EXCEPT ![p] = o]
      BY <2>1
    <2> HIDE DEF o
    <2>5. [offered EXCEPT ![p] = o] \in PartMaps(OfferType)
      BY <1>0, <2>3, ExceptTyped
    <2> QED
      BY <1>0, <2>1, <2>4, <2>5 DEF OfferType
  <1>3. CASE ComponentDeleted
    <2>1. PICK p \in DOMAIN offered :
             offered' = Restrict(offered, DOMAIN offered \ {p}) /\ UNCHANGED <<fetched, kept>>
      BY <1>3 DEF ComponentDeleted, Changing
    <2>2. Restrict(offered, DOMAIN offered \ {p}) \in PartMaps(OfferType)
      BY <1>0, RestrictTyped
    <2> QED
      BY <1>0, <2>1, <2>2 DEF OfferType
  <1>4. CASE ArtifactDeleted
    BY <1>0, <1>4 DEF ArtifactDeleted, Changing
  <1>5. CASE DownloadCompletes
    <2>1. PICK a \in (DOMAIN offered) \X Releases :
             kept' = kept \cup {a} /\ fetched' = fetched \cup {a} /\ UNCHANGED offered
      BY <1>5 DEF DownloadCompletes, Changing
    <2>2. DOMAIN offered \subseteq Parts
      BY <1>0 DEF PartMaps
    <2> QED
      BY <1>0, <2>1, <2>2
  <1> QED
    BY <1>1, <1>2, <1>3, <1>4, <1>5

\* The steps of a run leave the catalogue and the storage alone, and what they
\* write into the row of the build is what a row may hold.
RunStep(b) ==
  \/ StartRun(b) \/ StartFails(b) \/ ResolveComponent(b) \/ FetchConfig(b) \/ CheckToolchain(b)
  \/ CheckDownload(b) \/ DownloadsVerified(b) \/ PrepareWorkspace(b) \/ ExtractComponent(b) \/ GenerateBuildScripts(b)
  \/ Configure(b) \/ MakeKernel(b) \/ MakeInContainer(b)
  \/ CreateSkeleton(b) \/ InstallKernel(b) \/ InstallModules(b) \/ ConfigureSystem(b)
  \/ ValidateRootfs(b) \/ ValidatePackage(b) \/ CopyIntoImage(b) \/ UploadAndComplete(b)
  \/ StageFails(b) \/ StagePanics(b) \/ HandleFailure(b) \/ RemoveDirectory(b) \/ CleanedUp(b)

\* Requests change the row alone.
LEMMA RequestSteps ==
  ASSUME StagesTypes, DispatchAgain \/ CancelBuild \/ RetryBuild
  PROVE  TableTypes' /\ UNCHANGED <<runs, space, shipped>>
  BY DEF StagesTypes, TableTypes, JobType, DispatchAgain, CancelBuild, RetryBuild, Inputs

\* What a run writes into the row, and ships, has its type.
LEMMA RunStepTables ==
  ASSUME StagesTypes, NEW b \in Builders, RunStep(b)
  PROVE  TableTypes'
  <1> USE DEF StagesTypes, TableTypes
  <1>1. UNCHANGED Inputs
    BY DEF RunStep, Inputs, StartRun, StartFails, ResolveComponent, FetchConfig, CheckToolchain, CheckDownload, DownloadsVerified,
           PrepareWorkspace, ExtractComponent, GenerateBuildScripts, Configure, MakeKernel, MakeInContainer, CreateSkeleton,
           InstallKernel, InstallModules, ConfigureSystem, ValidateRootfs, ValidatePackage, CopyIntoImage, UploadAndComplete,
           StageFails, StagePanics, HandleFailure, RemoveDirectory, CleanedUp
  <1>2. job' \in JobType
    <2>1. job' = job \/ StartRun(b) \/ StartFails(b) \/ \E s \in {"completed", "failed"} : job' = [job EXCEPT !.status = s]
      BY DEF RunStep, ResolveComponent, FetchConfig, CheckToolchain, CheckDownload, DownloadsVerified,
             PrepareWorkspace, ExtractComponent, GenerateBuildScripts, Configure, MakeKernel, MakeInContainer, CreateSkeleton,
             InstallKernel, InstallModules, ConfigureSystem, ValidateRootfs, ValidatePackage, CopyIntoImage, UploadAndComplete,
             StageFails, StagePanics, HandleFailure, RemoveDirectory, CleanedUp
    <2>2. MaxStarts \in Nat
      BY DEF StagesAssumption
    <2>3. CASE StartRun(b) \/ StartFails(b)
      <3>1. job.queued > 0 /\ job.starts < MaxStarts
        BY <2>3 DEF StartRun, StartFails
      <3>2. \E s \in {"resolving", "failed"} :
              job' = [job EXCEPT !.status = s, !.queued = job.queued - 1, !.starts = job.starts + 1]
        BY <2>3 DEF StartRun, StartFails
      <3>3. job.queued - 1 \in 0..2 /\ job.starts + 1 \in 0..MaxStarts
        BY <2>2, <3>1 DEF JobType
      <3> QED
        BY <3>2, <3>3 DEF JobType
    <2> QED
      BY <2>1, <2>3 DEF JobType
  <1>3. shipped' \in Seq([image: RootType, got: PartMaps(Releases), alone: BOOLEAN])
    <2>1. shipped' = shipped \/ shipped' = Append(shipped, Shipment(b))
      BY DEF RunStep, StartRun, StartFails, ResolveComponent, FetchConfig, CheckToolchain, CheckDownload, DownloadsVerified,
             PrepareWorkspace, ExtractComponent, GenerateBuildScripts, Configure, MakeKernel, MakeInContainer, CreateSkeleton,
             InstallKernel, InstallModules, ConfigureSystem, ValidateRootfs, ValidatePackage, CopyIntoImage, UploadAndComplete,
             StageFails, StagePanics, HandleFailure, RemoveDirectory, CleanedUp
    <2>2. Shipment(b) \in [image: RootType, got: PartMaps(Releases), alone: BOOLEAN]
      BY DEF Shipment, RunTypes, RunType
    <2> DEFINE Kind == [image: RootType, got: PartMaps(Releases), alone: BOOLEAN]
    <2>3. shipped \in Seq(Kind) /\ Shipment(b) \in Kind
      BY <2>2
    <2> HIDE DEF Kind
    <2>4. shipped' \in Seq(Kind)
      BY <2>1, <2>3
    <2> QED
      BY <2>4 DEF Kind
  <1> QED
    BY <1>1, <1>2, <1>3 DEF Inputs

(********************** every action keeps those of a run ******************)
\* What is still to be downloaded or prepared was resolved.
Listed(r) == r.at \in {"download", "prepare"} => \A i \in DOMAIN r.todo : r.todo[i] \in DOMAIN r.got

\* A step that changes one run, to a run of the type.
LEMMA OneRun ==
  ASSUME StagesTypes, NEW b \in Builders, NEW r \in RunType,
         runs' = [runs EXCEPT ![b] = r], DOMAIN r.dir \subseteq DOMAIN r.got, Listed(r)
  PROVE  RunTypes'
  BY DEF StagesTypes, RunTypes, Listed, At

\* A run that goes on to a stage that goes through no list.
LEMMA MovedRun ==
  ASSUME StagesTypes, NEW b \in Builders, NEW s \in (Working \cup {"rest", "mark_failed", "clean"}) \ {"download", "prepare"},
         MoveTo(b, s)
  PROVE  RunTypes'
  <1> DEFINE r == [runs[b] EXCEPT !.at = s]
  <1>1. r \in RunType /\ DOMAIN r.dir \subseteq DOMAIN r.got /\ Listed(r)
    BY DEF StagesTypes, RunTypes, RunType, Listed
  <1>2. runs' = [runs EXCEPT ![b] = r]
    BY DEF MoveTo
  <1> HIDE DEF r
  <1> QED
    BY <1>1, <1>2, OneRun

\* A run that errs.
LEMMA FailedRun ==
  ASSUME StagesTypes, NEW b \in Builders, Errs(b)
  PROVE  RunTypes'
  <1>1. MoveTo(b, "mark_failed") /\ "mark_failed" \in (Working \cup {"rest", "mark_failed", "clean"}) \ {"download", "prepare"}
    BY DEF Errs, Working
  <1> QED
    BY <1>1, MovedRun

\* A run whose list gets shorter.
LEMMA ShorterRun ==
  ASSUME StagesTypes, NEW b \in Builders, NEW g \in PartMaps(Releases), NEW d \in PartMaps(Releases \cup {Unset}),
         runs[b].todo # <<>>, DOMAIN d \subseteq DOMAIN g, DOMAIN runs[b].got \subseteq DOMAIN g,
         runs' = [runs EXCEPT ![b].todo = Tail(@), ![b].got = g, ![b].dir = d]
  PROVE  RunTypes'
  <1> DEFINE r == [runs[b] EXCEPT !.todo = Tail(@), !.got = g, !.dir = d]
             t == runs[b].todo
  <1>1. runs[b] \in RunType /\ t \in Seq(Parts) /\ t # <<>>
    BY DEF StagesTypes, RunTypes, RunType
  <1>2. Tail(t) \in Seq(Parts) /\ \A i \in DOMAIN Tail(t) : i + 1 \in DOMAIN t /\ Tail(t)[i] = t[i + 1]
    <2> HIDE DEF t
    <2> QED
      BY <1>1
  <1>3. r \in RunType
    BY <1>1, <1>2 DEF RunType
  <1>4. Listed(r)
    BY <1>2 DEF StagesTypes, RunTypes, Listed, At, RunType
  <1>5. DOMAIN r.dir \subseteq DOMAIN r.got /\ runs' = [runs EXCEPT ![b] = r]
    BY DEF StagesTypes, RunTypes, RunType
  <1> HIDE DEF r
  <1> QED
    BY <1>3, <1>4, <1>5, OneRun

\* A run that goes through its components again.
LEMMA AgainRun ==
  ASSUME StagesTypes, NEW b \in Builders, NEW s \in Working, Again(b, s)
  PROVE  RunTypes'
  <1> DEFINE t == Only(<<Kernel>> \o job.config.wants, DOMAIN runs[b].got)
             r == [runs[b] EXCEPT !.at = s, !.todo = t]
  <1>1. t \in Seq(Parts) /\ \A i \in DOMAIN t : t[i] \in DOMAIN runs[b].got
    BY AgainTyped DEF StagesTypes
  <1>2. runs' = [runs EXCEPT ![b] = r]
    BY DEF Again
  <1> HIDE DEF t
  <1>3. r \in RunType /\ DOMAIN r.dir \subseteq DOMAIN r.got /\ Listed(r)
    BY <1>1 DEF StagesTypes, RunTypes, RunType, Listed
  <1> HIDE DEF r
  <1> QED
    BY <1>2, <1>3, OneRun

\* The version a component is resolved to.
LEMMA VersionTyped ==
  ASSUME StagesTypes, NEW p \in Parts, Resolvable(p)
  PROVE  p \in DOMAIN offered /\ (offered[p].fits => VersionOf(p) \in Releases)
  <1>1. p \in DOMAIN offered
    BY DEF Resolvable
  <1>2. offered[p] \in OfferType
    BY <1>1, ArgTyped DEF StagesTypes, TableTypes, OfferType
  <1>3. job.config.pinned \in [Parts -> Releases \cup {Unset}]
    BY DEF StagesTypes, StagesAssumption, TableTypes, JobType
  <1> QED
    BY <1>1, <1>2, <1>3 DEF Resolvable, VersionOf, OfferType, StagesTypes, StagesAssumption

\* What a source directory is found to be.
LEMMA SourceDirFound ==
  ASSUME NEW found
  PROVE  /\ FindSourceDir(found) = Unset \/ found = {FindSourceDir(found)}
         /\ \A v : found = {v} => FindSourceDir(found) = v
  BY DEF FindSourceDir

\* The archive of version v of component p is extracted, and its sources are in d.
Extracts(b, p, v, d) ==
  /\ runs[b].todo # <<>> /\ p = Head(runs[b].todo) /\ v = runs[b].got[p] /\ p \in DOMAIN runs[b].got
  /\ d = FindSourceDir(Trees(p) \cup {v})
  /\ space.made /\ Extractable(p, v)
  /\ space' = [space EXCEPT !.trees = @ \cup {<<p, v>>}]
  /\ runs' = [runs EXCEPT ![b].todo = Tail(@), ![b].dir = With(runs[b].dir, p, d)]

\* Either of the two ends of an extraction.
LEMMA ExtractRun ==
  ASSUME StagesTypes, NEW b \in Builders, ExtractComponent(b)
  PROVE  \/ Errs(b) /\ space' = space
         \/ \E p \in Parts, v \in Releases, d \in Releases \cup {Unset} : Extracts(b, p, v, d)
  <1> DEFINE p == Head(runs[b].todo)
             v == runs[b].got[p]
  <1>1. runs[b].todo \in Seq(Parts) /\ runs[b].todo # <<>>
    BY DEF ExtractComponent, StagesTypes, RunTypes, RunType
  <1>2. 1 \in DOMAIN runs[b].todo /\ p = runs[b].todo[1] /\ p \in Parts
    BY <1>1
  <1>3. p \in DOMAIN runs[b].got
    BY <1>2 DEF ExtractComponent, StagesTypes, RunTypes
  <1> HIDE DEF p
  <1>4. runs[b].got \in PartMaps(Releases)
    BY DEF StagesTypes, RunTypes, RunType
  <1>5. v \in Releases
    BY <1>3, <1>4, ArgTyped
  <1>6. Trees(p) \cup {v} \subseteq Releases
    BY <1>5 DEF Trees
  <1>7. FindSourceDir(Trees(p) \cup {v}) \in Releases \cup {Unset}
    BY <1>6, SourceDirFound
  <1> DEFINE d == FindSourceDir(Trees(p) \cup {v})
  <1>8. (Errs(b) /\ space' = space) \/ Extracts(b, p, v, d)
    BY <1>1, <1>3 DEF ExtractComponent, Extracts, p
  <1> QED
    BY <1>2, <1>5, <1>7, <1>8

\* Every step of a run keeps the types of runs.
LEMMA RunStepRuns ==
  ASSUME StagesTypes, NEW b \in Builders, RunStep(b)
  PROVE  RunTypes'
  <1>1. CASE \/ FetchConfig(b) \/ DownloadsVerified(b) \/ GenerateBuildScripts(b) \/ Configure(b) \/ MakeKernel(b) \/ MakeInContainer(b)
             \/ CreateSkeleton(b) \/ InstallKernel(b) \/ InstallModules(b) \/ ConfigureSystem(b) \/ ValidateRootfs(b)
             \/ ValidatePackage(b) \/ StageFails(b) \/ HandleFailure(b)
    <2>1. Errs(b) \/ \E s \in (Working \cup {"rest", "mark_failed", "clean"}) \ {"download", "prepare"} : MoveTo(b, s)
      BY <1>1 DEF FetchConfig, DownloadsVerified, GenerateBuildScripts, Configure, MakeKernel, MakeInContainer, InstallBuilt,
                  CreateSkeleton, InstallKernel, InstallModules, ConfigureSystem, ValidateRootfs, ValidatePackage, StageFails,
                  HandleFailure, Working
    <2> QED
      BY <2>1, MovedRun, FailedRun
  <1>2. CASE StartRun(b)
    <2> DEFINE r == [Resting EXCEPT !.at = "resolve", !.todo = Required(job.config), !.alone = Alive = {}]
    <2>1. Required(job.config) \in Seq(Parts)
      BY RequiredTyped DEF StagesTypes
    <2>2. r \in RunType
      BY <2>1, RestingTyped DEF RunType, Working
    <2>3. DOMAIN r.dir \subseteq DOMAIN r.got /\ r.at = "resolve"
      BY RestingTyped DEF Resting
    <2> HIDE DEF r
    <2>4. runs' = [c \in Builders |-> IF c = b THEN r ELSE [runs[c] EXCEPT !.alone = FALSE]]
      BY <1>2 DEF StartRun, r
    <2>5. \A c \in Builders : runs[c] \in RunType /\ [runs[c] EXCEPT !.alone = FALSE] \in RunType
      BY DEF StagesTypes, RunTypes, RunType
    <2>6. \A c \in Builders \ {b} : /\ runs'[c].dir = runs[c].dir /\ runs'[c].got = runs[c].got
                                    /\ runs'[c].at = runs[c].at /\ runs'[c].todo = runs[c].todo
      BY <2>4, <2>5 DEF RunType
    <2> QED
      BY <2>2, <2>3, <2>4, <2>5, <2>6 DEF StagesTypes, RunTypes, At
  <1>3. CASE ResolveComponent(b)
    <2> DEFINE p == Head(runs[b].todo)
    <2>1. runs[b].todo \in Seq(Parts) /\ runs[b].todo # <<>> /\ runs[b] \in RunType
      BY <1>3 DEF ResolveComponent, StagesTypes, RunTypes, RunType
    <2>2. p \in Parts
      BY <2>1
    <2> HIDE DEF p
    <2>3. CASE Errs(b)
      BY <2>3, FailedRun
    <2>4. CASE ~Errs(b)
      <3> DEFINE g == IF offered[p].fits THEN With(runs[b].got, p, VersionOf(p)) ELSE runs[b].got
      <3>1. Resolvable(p) /\ runs' = [runs EXCEPT ![b].todo = Tail(@), ![b].got = g]
        BY <1>3, <2>4 DEF ResolveComponent, p, StagesTypes, RunTypes
      <3>2. offered[p].fits => VersionOf(p) \in Releases
        BY <2>2, <3>1, VersionTyped
      <3>3. runs[b].got \in PartMaps(Releases)
        BY <2>1 DEF RunType
      <3>4. g \in PartMaps(Releases) /\ DOMAIN runs[b].got \subseteq DOMAIN g
        <4>1. CASE offered[p].fits
          <5>1. VersionOf(p) \in Releases
            BY <3>2, <4>1
          <5>2. /\ With(runs[b].got, p, VersionOf(p)) \in PartMaps(Releases)
                /\ DOMAIN With(runs[b].got, p, VersionOf(p)) = DOMAIN runs[b].got \cup {p}
            BY <2>2, <3>3, <5>1, WithTyped DEF With
          <5> QED
            BY <4>1, <5>2
        <4> QED
          BY <3>3, <4>1
      <3> HIDE DEF g
      <3>5. runs' = [runs EXCEPT ![b].todo = Tail(@), ![b].got = g, ![b].dir = runs[b].dir]
        BY <2>1, <3>1 DEF RunType, StagesTypes, RunTypes
      <3>6. runs[b].dir \in PartMaps(Releases \cup {Unset}) /\ DOMAIN runs[b].dir \subseteq DOMAIN g
        BY <2>1, <3>4 DEF RunType, StagesTypes, RunTypes
      <3> QED
        BY <2>1, <3>4, <3>5, <3>6, ShorterRun
    <2> QED
      BY <2>3, <2>4
  <1>4. CASE CheckDownload(b)
    <2>1. CASE Errs(b)
      BY <2>1, FailedRun
    <2>2. CASE ~Errs(b)
      <3>1. runs[b].todo # <<>> /\ runs[b] \in RunType /\ runs' = [runs EXCEPT ![b].todo = Tail(@)]
        BY <1>4, <2>2 DEF CheckDownload, StagesTypes, RunTypes
      <3>2. runs' = [runs EXCEPT ![b].todo = Tail(@), ![b].got = runs[b].got, ![b].dir = runs[b].dir]
        BY <3>1 DEF RunType, StagesTypes, RunTypes
      <3> QED
        BY <3>1, <3>2, ShorterRun DEF RunType, StagesTypes, RunTypes
    <2> QED
      BY <2>1, <2>2
  <1>5. CASE ExtractComponent(b)
    <2>1. CASE Errs(b)
      BY <2>1, FailedRun
    <2>2. CASE ~Errs(b)
      <3>0. PICK p \in Parts, v \in Releases, w \in Releases \cup {Unset} : Extracts(b, p, v, w)
        BY <1>5, <2>2, ExtractRun
      <3>1. p \in DOMAIN runs[b].got /\ runs' = [runs EXCEPT ![b].todo = Tail(@), ![b].dir = With(runs[b].dir, p, w)]
        BY <3>0 DEF Extracts
      <3> DEFINE d == With(runs[b].dir, p, w)
      <3>2. runs[b] \in RunType /\ runs[b].todo # <<>> /\ DOMAIN runs[b].dir \subseteq DOMAIN runs[b].got
        BY <1>5 DEF ExtractComponent, StagesTypes, RunTypes
      <3>3. runs[b].dir \in PartMaps(Releases \cup {Unset}) /\ runs[b].got \in PartMaps(Releases)
        BY <3>2 DEF RunType
      <3>4. d \in PartMaps(Releases \cup {Unset}) /\ DOMAIN d = DOMAIN runs[b].dir \cup {p}
        BY <3>3, WithTyped DEF With
      <3> HIDE DEF d
      <3>5. runs' = [runs EXCEPT ![b].todo = Tail(@), ![b].got = runs[b].got, ![b].dir = d]
        BY <3>1, <3>2 DEF d, RunType, StagesTypes, RunTypes
      <3> QED
        <4>1. DOMAIN d \subseteq DOMAIN runs[b].got
          BY <3>1, <3>2, <3>4
        <4>2. runs[b].got \in PartMaps(Releases) /\ runs[b].todo # <<>>
          BY <3>2, <3>3
        <4> QED
          BY <3>4, <3>5, <4>1, <4>2, ShorterRun
    <2> QED
      BY <2>1, <2>2
  <1>6. CASE CheckToolchain(b) \/ PrepareWorkspace(b)
    <2>1. Errs(b) \/ \E s \in Working : Again(b, s)
      BY <1>6 DEF CheckToolchain, PrepareWorkspace, Working
    <2> QED
      BY <2>1, AgainRun, FailedRun
  <1>7. CASE CopyIntoImage(b)
    <2>1. CASE Errs(b)
      BY <2>1, FailedRun
    <2>2. CASE ~Errs(b)
      <3> DEFINE r == [runs[b] EXCEPT !.at = "upload", !.image = space.rootfs]
      <3>1. runs' = [runs EXCEPT ![b] = r]
        BY <1>7, <2>2 DEF CopyIntoImage
      <3>2. r \in RunType /\ DOMAIN r.dir \subseteq DOMAIN r.got /\ Listed(r)
        BY DEF StagesTypes, RunTypes, RunType, SpaceTypes, SpaceType, Listed, Working
      <3> HIDE DEF r
      <3> QED
        BY <3>1, <3>2, OneRun
    <2> QED
      BY <2>1, <2>2
  <1>8. CASE UploadAndComplete(b) \/ StagePanics(b) \/ CleanedUp(b)
    <2>1. runs' = [runs EXCEPT ![b] = Resting]
      BY <1>8 DEF UploadAndComplete, StagePanics, CleanedUp
    <2>2. Resting \in RunType /\ DOMAIN Resting.dir \subseteq DOMAIN Resting.got /\ Listed(Resting)
      BY RestingTyped DEF Listed, Resting
    <2> QED
      BY <2>1, <2>2, OneRun
  <1>9. CASE StartFails(b) \/ RemoveDirectory(b)
    BY <1>9 DEF StartFails, RemoveDirectory, StagesTypes, RunTypes, At
  <1> QED
    BY <1>1, <1>2, <1>3, <1>4, <1>5, <1>6, <1>7, <1>8, <1>9 DEF RunStep

(******************* every action keeps those of the workspace *************)
\* What the steps of assemble do to a root filesystem.
LEMMA RootChanges ==
  ASSUME NEW fs \in RootType, NEW more \in SUBSET Paths, NEW v \in Releases \cup {Unset}, NEW M \in SUBSET Releases
  PROVE  /\ [fs EXCEPT !.files = @ \cup more] \in RootType
         /\ [fs EXCEPT !.files = @ \cup more, !.kernel = v] \in RootType
         /\ [fs EXCEPT !.modules = @ \cup M] \in RootType
  BY DEF RootType

\* Every step of a run keeps the type of the workspace, and what holds something was made.
LEMMA RunStepSpace ==
  ASSUME StagesTypes, NEW b \in Builders, RunStep(b)
  PROVE  SpaceTypes'
  <1>0. space \in SpaceType /\ (space.made \/ space = NoSpace) /\ space.rootfs \in RootType /\ Unset \notin Releases
    BY DEF StagesTypes, SpaceTypes, SpaceType, StagesAssumption
  <1>1. CASE space' = space
    BY <1>0, <1>1 DEF SpaceTypes
  <1>2. CASE StartRun(b) \/ PrepareWorkspace(b) \/ FetchConfig(b) \/ GenerateBuildScripts(b)
    <2>1. \/ space' = [space EXCEPT !.made = TRUE]
          \/ space' = [space EXCEPT !.made = TRUE, !.config = TRUE]
          \/ space' = [space EXCEPT !.made = TRUE, !.scripts = TRUE]
      BY <1>2 DEF StartRun, PrepareWorkspace, FetchConfig, GenerateBuildScripts
    <2> QED
      BY <1>0, <2>1 DEF SpaceTypes, SpaceType
  <1>3. CASE ExtractComponent(b) /\ space' # space
    <2>1. PICK p \in Parts, v \in Releases, d \in Releases \cup {Unset} : Extracts(b, p, v, d)
      BY <1>3, ExtractRun
    <2>2. space.made /\ space' = [space EXCEPT !.trees = @ \cup {<<p, v>>}]
      BY <2>1 DEF Extracts
    <2> QED
      BY <1>0, <2>2 DEF SpaceTypes, SpaceType
  <1>4. CASE (MakeKernel(b) \/ MakeInContainer(b)) /\ space' # space
    <2> DEFINE d == runs[b].dir[Kernel]
    <2>1. <<Kernel, d>> \in space.trees /\ space' = [space EXCEPT !.kernel = d, !.modules = @ \cup {d}]
      BY <1>4 DEF MakeKernel, MakeInContainer, InstallBuilt, SourceTree
    <2> HIDE DEF d
    <2>2. d \in Releases /\ space # NoSpace
      BY <1>0, <2>1 DEF SpaceType, NoSpace
    <2> QED
      BY <1>0, <2>1, <2>2 DEF SpaceTypes, SpaceType
  <1>5. CASE CreateSkeleton(b)
    <2>1. space' = [space EXCEPT !.made = TRUE, !.rootfs = [space.rootfs EXCEPT !.files = @ \cup Skeleton]]
      BY <1>5 DEF CreateSkeleton
    <2>2. [space.rootfs EXCEPT !.files = @ \cup Skeleton] \in RootType
      <3>1. Skeleton \in SUBSET Paths
        BY DEF Paths
      <3> QED
        BY <1>0, <3>1, RootChanges
    <2> QED
      BY <1>0, <2>1, <2>2 DEF SpaceTypes, SpaceType
  <1>6. CASE InstallKernel(b) /\ space' # space
    <2>1. space' = [space EXCEPT !.made = TRUE,
                          !.rootfs = [space.rootfs EXCEPT !.files = @ \cup {"boot"}, !.kernel = space.kernel]]
      BY <1>6 DEF InstallKernel
    <2>2. [space.rootfs EXCEPT !.files = @ \cup {"boot"}, !.kernel = space.kernel] \in RootType
      <3>1. {"boot"} \in SUBSET Paths /\ space.kernel \in Releases \cup {Unset}
        BY <1>0 DEF Paths, Skeleton, SpaceType
      <3> QED
        BY <1>0, <3>1, RootChanges
    <2> QED
      BY <1>0, <2>1, <2>2 DEF SpaceTypes, SpaceType
  <1>7. CASE InstallModules(b)
    <2>1. space' = [space EXCEPT !.rootfs = [space.rootfs EXCEPT !.modules = @ \cup space.modules]]
      BY <1>7 DEF InstallModules
    <2>2. [space.rootfs EXCEPT !.modules = @ \cup space.modules] \in RootType
      <3>1. space.modules \in SUBSET Releases
        BY <1>0 DEF SpaceType
      <3> QED
        BY <1>0, <3>1, RootChanges
    <2>3. space = NoSpace => space' = space
      <3>1. [NoRootfs EXCEPT !.modules = @ \cup {}] = NoRootfs
        BY DEF NoRootfs
      <3>2. NoSpace.modules = {} /\ NoSpace.rootfs = NoRootfs
        BY DEF NoSpace
      <3>3. [NoSpace EXCEPT !.rootfs = NoSpace.rootfs] = NoSpace
        <4> HIDE DEF NoSpace
        <4> QED
          BY RestingTyped DEF SpaceType
      <3> QED
        BY <2>1, <3>1, <3>2, <3>3
    <2> QED
      BY <1>0, <2>1, <2>2, <2>3 DEF SpaceTypes, SpaceType
  <1>8. CASE ConfigureSystem(b) /\ space' # space
    <2> DEFINE more == InitInstall \cup BootConfig \cup BoardConfig \cup SecurityConfig \cup InitramfsGenerate \cup GeneratedFiles
    <2>1. /\ Skeleton \subseteq space.rootfs.files
          /\ space' = [space EXCEPT !.rootfs = [space.rootfs EXCEPT !.files = @ \cup more]]
      BY <1>8 DEF ConfigureSystem
    <2>2. more \in SUBSET Paths
      BY DEF Paths, InitInstall, OpenRCInstall, SystemdInstall, BootConfig, SystemdBootConfigure, UKIConfigure, GRUB2Configure, BoardConfig,
             SecurityConfig, SELinuxConfigure, AppArmorConfigure, InitramfsGenerate, GeneratedFiles, GenerateFstab,
             GenerateOSRelease, ConfigureRootAccount
    <2> HIDE DEF more
    <2>3. [space.rootfs EXCEPT !.files = @ \cup more] \in RootType
      BY <1>0, <2>2, RootChanges
    <2>4. space # NoSpace
      BY <2>1 DEF NoSpace, NoRootfs, Skeleton
    <2> QED
      BY <1>0, <2>1, <2>3, <2>4 DEF SpaceTypes, SpaceType
  <1>9. CASE CleanedUp(b)
    BY <1>9, RestingTyped DEF CleanedUp, SpaceTypes
  <1>10. CASE RemoveDirectory(b)
    <2>1. PICK left \in Removal : left # space /\ space' = left
      BY <1>10 DEF RemoveDirectory
    <2>2. ASSUME NEW r \in {[space.rootfs EXCEPT !.kernel = Unset], [space.rootfs EXCEPT !.modules = {}], [space.rootfs EXCEPT !.files = {}]}
          PROVE  r \in RootType
      BY <1>0 DEF RootType
    <2>3. \/ left \in {[space EXCEPT !.config = FALSE], [space EXCEPT !.scripts = FALSE], [space EXCEPT !.trees = {}],
                      [space EXCEPT !.kernel = Unset, !.modules = {}]}
          \/ \E r \in {[space.rootfs EXCEPT !.kernel = Unset], [space.rootfs EXCEPT !.modules = {}], [space.rootfs EXCEPT !.files = {}]} :
               left = [space EXCEPT !.rootfs = r]
      BY <2>1 DEF Removal
    <2>4. left \in SpaceType /\ left.made = space.made
      BY <1>0, <2>2, <2>3 DEF SpaceType
    <2>5. ASSUME space = NoSpace PROVE left = space
      BY <2>3, <2>5 DEF NoSpace, NoRootfs
    <2> QED
      BY <1>0, <2>1, <2>4, <2>5 DEF SpaceTypes
  <1> QED
    BY <1>1, <1>2, <1>3, <1>4, <1>5, <1>6, <1>7, <1>8, <1>9, <1>10
    DEF RunStep, StartFails, ResolveComponent, CheckToolchain, CheckDownload, DownloadsVerified, Configure, ValidateRootfs,
        ValidatePackage, CopyIntoImage, UploadAndComplete, StageFails, StagePanics, HandleFailure

\* The types, with what the catalogue may hold.
LEMMA StagesTypesInit ==
  ASSUME StagesAssumption, StagesInit
  PROVE  StagesTypes
  <1>1. TableTypes
    <2>1. PICK v \in Releases \cup {Unset} : offered = [p \in Parts |-> [default |-> v, fits |-> TRUE]]
      BY DEF StagesInit
    <2>2. offered \in [Parts -> OfferType]
      BY <2>1 DEF OfferType
    <2>3. offered \in PartMaps(OfferType)
      BY <2>2, Zenon DEF PartMaps
    <2>4. job \in JobType
      BY DEF StagesInit, JobType, StagesAssumption
    <2>5. shipped \in Seq([image: RootType, got: PartMaps(Releases), alone: BOOLEAN])
      BY DEF StagesInit
    <2> QED
      BY <2>3, <2>4, <2>5 DEF TableTypes, OfferType, StagesInit
  <1>2. RunTypes
    BY RestingTyped DEF StagesInit, RunTypes, At, Resting
  <1>3. SpaceTypes
    BY RestingTyped DEF StagesInit, SpaceTypes
  <1> QED
    BY <1>1, <1>2, <1>3 DEF StagesTypes

\* Every step keeps them.
LEMMA StagesTypesNext ==
  ASSUME StagesTypes, [StagesNext]_stageVars
  PROVE  StagesTypes'
  <1>1. CASE DefaultChanges \/ ComponentEdited \/ ComponentDeleted \/ ArtifactDeleted \/ DownloadCompletes
    BY <1>1, CatalogueSteps DEF StagesTypes, RunTypes, SpaceTypes, At
  <1>2. CASE DispatchAgain \/ CancelBuild \/ RetryBuild
    BY <1>2, RequestSteps DEF StagesTypes, RunTypes, SpaceTypes, At
  <1>3. ASSUME NEW b \in Builders, RunStep(b) PROVE StagesTypes'
    BY <1>3, RunStepTables, RunStepRuns, RunStepSpace DEF StagesTypes
  <1>4. CASE UNCHANGED stageVars
    BY <1>4 DEF stageVars, StagesTypes, TableTypes, RunTypes, SpaceTypes, At
  <1> QED
    BY <1>1, <1>2, <1>3, <1>4 DEF StagesNext, RunStep

\* They imply the type invariant the runs check.
LEMMA StagesTypesSound ==
  ASSUME StagesTypes
  PROVE  StagesTypeOK
  <1>1. ASSUME NEW b \in Builders
        PROVE  /\ runs[b].at \in Working \cup {"rest", "mark_failed", "clean"}
               /\ runs[b].got \in UNION {[S -> Releases] : S \in SUBSET Parts}
               /\ DOMAIN runs[b].dir \subseteq DOMAIN runs[b].got
    BY DEF StagesTypes, RunTypes, RunType, PartMaps
  <1>2. (space.config \/ space.trees # {} \/ space.rootfs # NoRootfs) => space.made
    BY DEF StagesTypes, SpaceTypes, NoSpace
  <1> QED
    BY <1>1, <1>2 DEF StagesTypeOK, StagesTypes, TableTypes, JobType, SpaceTypes, SpaceType

\* The rows, runs and the workspace of a build have their types, and a workspace
\* that was not made holds nothing.
THEOREM StagesTypesKept == StagesSpec => []StagesTypeOK
  <1>1. StagesInit => StagesTypes
    BY StagesAssumption, StagesTypesInit
  <1>2. StagesTypes /\ [StagesNext]_stageVars => StagesTypes'
    BY StagesTypesNext
  <1>3. StagesTypes => StagesTypeOK
    BY StagesTypesSound
  <1> QED
    BY <1>1, <1>2, <1>3, PTL DEF StagesSpec

(************************ the image of a run that was alone ****************)
\* A run that no other overlapped is the only one alive.
OnlyOneAlone == \A b, c \in Builders : runs[b].alone /\ ~At(b, "rest") /\ c # b => At(c, "rest")

\* The directories of the kernel's sources in workspace s.
KernelTrees(s) == {v \in Releases : <<Kernel, v>> \in s.trees}

\* Unless its files are being removed, what the workspace holds of modules was
\* built from trees that are there.
Consistent ==
  (\A b \in Builders : ~At(b, "clean")) =>
    space.modules \subseteq KernelTrees(space) /\ space.rootfs.modules \subseteq space.modules

\* The stages after the sources were extracted, configured and compiled, and after
\* the kernel and its modules were installed and the filesystem validated.
Prepared == {"compile", "make", "skeleton", "kernel", "modules", "system", "validate", "package", "generate"}
Configured == {"make", "skeleton", "kernel", "modules", "system", "validate", "package", "generate"}
Built == {"skeleton", "kernel", "modules", "system", "validate", "package", "generate"}
KernelIn == {"modules", "system", "validate", "package", "generate"}
ModulesIn == {"system", "validate", "package", "generate"}
Validated == {"package", "generate"}

\* A whole image whose kernel and modules are of version v.
IsOfVersion(image, v) == Whole(image) /\ image.kernel = v /\ image.modules = {v}

\* What a run r that is alone knows of its workspace s at each stage: where the kernel's
\* sources are once they are extracted, that the configured tree is the only one, and
\* that what is compiled and installed is of its version.
Own(r, s) ==
  /\ r.at \in Working /\ Kernel \in DOMAIN r.dir =>
       r.dir[Kernel] = FindSourceDir(KernelTrees(s)) /\ r.got[Kernel] \in KernelTrees(s)
  /\ r.at = "prepare" /\ Kernel \in DOMAIN r.got => Kernel \in DOMAIN r.dir \/ \E i \in DOMAIN r.todo : r.todo[i] = Kernel
  /\ r.at \in Prepared /\ Kernel \in DOMAIN r.got => Kernel \in DOMAIN r.dir
  /\ r.at \in Configured => Kernel \in DOMAIN r.got /\ KernelTrees(s) = {r.got[Kernel]}
  /\ r.at \in Built => s.kernel = r.got[Kernel] /\ s.modules = {r.got[Kernel]}
  /\ r.at \in KernelIn => s.rootfs.kernel = r.got[Kernel]
  /\ r.at \in ModulesIn => s.rootfs.modules = {r.got[Kernel]}
  /\ r.at \in Validated => Whole(s.rootfs)
  /\ r.at = "upload" => IsOfVersion(r.image, r.got[Kernel])

\* Every run that is alone.
Owns == \A b \in Builders : runs[b].alone /\ ~At(b, "rest") => Own(runs[b], space)

\* The images uploaded so far.
Shipped == \A i \in DOMAIN shipped : shipped[i].alone => IsOfVersion(shipped[i].image, shipped[i].got[Kernel])

StagesInv == StagesTypes /\ OnlyOneAlone /\ Consistent /\ Owns /\ Shipped

\* Steps of the catalogue, and requests, change nothing of it.
LEMMA OutsideSteps ==
  ASSUME StagesInv, StagesTypes', UNCHANGED <<runs, space, shipped>>
  PROVE  StagesInv'
  BY DEF StagesInv, OnlyOneAlone, Consistent, Owns, Shipped, At

\* A run touches no run but itself, other than that its start tells the others.
LEMMA OtherRuns ==
  ASSUME StagesTypes, NEW b \in Builders, RunStep(b), NEW c \in Builders, c # b
  PROVE  \/ runs'[c] = runs[c]
         \/ StartRun(b) /\ ~runs'[c].alone /\ runs'[c].at = runs[c].at
  <1>1. CASE StartRun(b)
    <2>1. runs' = [d \in Builders |->
                IF d = b THEN [Resting EXCEPT !.at = "resolve", !.todo = Required(job.config), !.alone = Alive = {}]
                ELSE [runs[d] EXCEPT !.alone = FALSE]]
      BY <1>1 DEF StartRun
    <2>2. runs'[c] = [runs[c] EXCEPT !.alone = FALSE]
      BY <2>1
    <2> QED
      BY <1>1, <2>2 DEF StagesTypes, RunTypes, RunType
  <1>2. CASE ~StartRun(b)
    BY <1>2 DEF StagesTypes, RunTypes, RunStep, StartFails, ResolveComponent, FetchConfig, CheckToolchain, CheckDownload,
                DownloadsVerified, PrepareWorkspace, ExtractComponent, GenerateBuildScripts, Configure, MakeKernel, MakeInContainer,
                InstallBuilt, CreateSkeleton, InstallKernel, InstallModules, ConfigureSystem, ValidateRootfs, ValidatePackage,
                CopyIntoImage, UploadAndComplete, StageFails, StagePanics, HandleFailure, RemoveDirectory, CleanedUp,
                Errs, MoveTo, Again
  <1> QED
    BY <1>1, <1>2

\* A run that is not at rest was not started by this step.
LEMMA OnlyStartsWake ==
  ASSUME StagesTypes, NEW b \in Builders, RunStep(b), ~StartRun(b)
  PROVE  /\ runs'[b].at # "rest" => runs[b].at # "rest"
         /\ runs'[b].alone => runs[b].alone \/ runs'[b].at = "rest"
  BY DEF StagesTypes, RunTypes, RunType, RunStep, StartFails, ResolveComponent, FetchConfig, CheckToolchain, CheckDownload,
         DownloadsVerified, PrepareWorkspace, ExtractComponent, GenerateBuildScripts, Configure, MakeKernel, MakeInContainer,
         InstallBuilt, CreateSkeleton, InstallKernel, InstallModules, ConfigureSystem, ValidateRootfs, ValidatePackage,
         CopyIntoImage, UploadAndComplete, StageFails, StagePanics, HandleFailure, RemoveDirectory, CleanedUp,
         Errs, MoveTo, Again, At, Working, Resting

\* Every step of a run keeps that a run that was never overlapped is the only one:
\* a start tells the runs that are there, and knows whether there are any.
LEMMA RunStepAlone ==
  ASSUME StagesTypes, OnlyOneAlone, NEW b \in Builders, RunStep(b)
  PROVE  OnlyOneAlone'
  <1> SUFFICES ASSUME NEW x \in Builders, NEW y \in Builders, y # x, runs'[x].alone, runs'[x].at # "rest"
               PROVE  runs'[y].at = "rest"
    BY DEF OnlyOneAlone, At
  <1>1. CASE StartRun(b)
    <2>1. x = b
      <3>1. ASSUME x # b PROVE FALSE
        <4>1. runs'[x] = [runs[x] EXCEPT !.alone = FALSE]
          BY <1>1, <3>1 DEF StartRun
        <4> QED
          BY <4>1 DEF StagesTypes, RunTypes, RunType
      <3> QED
        BY <3>1
    <2>2. runs'[b].alone = (Alive = {})
      BY <1>1 DEF StartRun, Resting
    <2>3. runs'[y].at = runs[y].at
      BY <1>1, <2>1, OtherRuns
    <2> QED
      BY <2>1, <2>2, <2>3 DEF Alive, At
  <1>2. CASE ~StartRun(b)
    <2>1. runs[x].at # "rest" /\ runs[x].alone
      BY <1>2, OnlyStartsWake, OtherRuns
    <2>2. runs[y].at = "rest"
      BY <2>1 DEF OnlyOneAlone, At
    <2>3. runs'[y].at = "rest"
      BY <1>2, <2>2, OnlyStartsWake, OtherRuns
    <2> QED
      BY <2>3
  <1> QED
    BY <1>1, <1>2

\* The ways a run changes the workspace, by what they do to the kernel's trees, the
\* modules and the root filesystem.
LEMMA SpaceSteps ==
  ASSUME StagesTypes, NEW b \in Builders, RunStep(b)
  PROVE  \/ /\ space'.trees = space.trees /\ space'.kernel = space.kernel /\ space'.modules = space.modules
            /\ space'.rootfs.kernel = space.rootfs.kernel /\ space'.rootfs.modules = space.rootfs.modules
            /\ ~ExtractComponent(b) \/ Errs(b)
            /\ ~InstallKernel(b) \/ Errs(b)
         \/ /\ \E p \in Parts, v \in Releases, d \in Releases \cup {Unset} : Extracts(b, p, v, d)
            /\ space'.kernel = space.kernel /\ space'.modules = space.modules /\ space'.rootfs = space.rootfs
         \/ /\ MakeKernel(b) \/ MakeInContainer(b)
            /\ MoveTo(b, "skeleton") /\ SourceTree(b) \in space.trees
            /\ space'.kernel = runs[b].dir[Kernel] /\ space'.modules = space.modules \cup {runs[b].dir[Kernel]}
            /\ space'.trees = space.trees /\ space'.rootfs = space.rootfs
         \/ /\ InstallKernel(b) /\ MoveTo(b, "modules")
            /\ space'.rootfs.kernel = space.kernel /\ space'.rootfs.modules = space.rootfs.modules
            /\ space'.trees = space.trees /\ space'.kernel = space.kernel /\ space'.modules = space.modules
         \/ /\ InstallModules(b)
            /\ space'.rootfs.modules = space.rootfs.modules \cup space.modules
            /\ space'.rootfs.kernel = space.rootfs.kernel
            /\ space'.trees = space.trees /\ space'.kernel = space.kernel /\ space'.modules = space.modules
         \/ RemoveDirectory(b)
         \/ CleanedUp(b)
  <1>0. space \in SpaceType /\ space.rootfs \in RootType
    BY DEF StagesTypes, SpaceTypes, SpaceType
  <1>1. CASE StartRun(b) \/ PrepareWorkspace(b) \/ FetchConfig(b) \/ GenerateBuildScripts(b)
    <2>1. \/ space' = [space EXCEPT !.made = TRUE]
          \/ space' = [space EXCEPT !.made = TRUE, !.config = TRUE]
          \/ space' = [space EXCEPT !.made = TRUE, !.scripts = TRUE]
      BY <1>1 DEF StartRun, PrepareWorkspace, FetchConfig, GenerateBuildScripts
    <2>2. ~ExtractComponent(b) /\ ~InstallKernel(b)
      BY <1>1 DEF StartRun, PrepareWorkspace, FetchConfig, GenerateBuildScripts, ExtractComponent, InstallKernel, At
    <2> QED
      BY <1>0, <2>1, <2>2 DEF SpaceType
  <1>2. CASE ExtractComponent(b)
    <2>1. CASE Errs(b) /\ space' = space
      <3>1. ~InstallKernel(b)
        BY <1>2 DEF ExtractComponent, InstallKernel, At
      <3> QED
        BY <2>1, <3>1
    <2>2. CASE \E p \in Parts, v \in Releases, d \in Releases \cup {Unset} : Extracts(b, p, v, d)
      <3>1. PICK p \in Parts, v \in Releases, d \in Releases \cup {Unset} : Extracts(b, p, v, d)
        BY <2>2
      <3>2. space' = [space EXCEPT !.trees = @ \cup {<<p, v>>}]
        BY <3>1 DEF Extracts
      <3>3. space'.kernel = space.kernel /\ space'.modules = space.modules /\ space'.rootfs = space.rootfs
        BY <1>0, <3>2 DEF SpaceType
      <3> QED
        BY <2>2, <3>3
    <2> QED
      BY <1>2, <2>1, <2>2, ExtractRun
  <1>3. CASE MakeKernel(b) \/ MakeInContainer(b)
    <2>0. ~InstallKernel(b) /\ ~ExtractComponent(b)
      BY <1>3 DEF MakeKernel, MakeInContainer, ExtractComponent, InstallKernel, At
    <2>1. CASE space' = space
      BY <2>0, <2>1
    <2>2. CASE space' # space
      <3>1. /\ SourceTree(b) \in space.trees /\ MoveTo(b, "skeleton")
            /\ space' = [space EXCEPT !.kernel = runs[b].dir[Kernel], !.modules = @ \cup {runs[b].dir[Kernel]}]
        BY <1>3, <2>2 DEF MakeKernel, MakeInContainer, InstallBuilt
      <3>2. /\ space'.kernel = runs[b].dir[Kernel] /\ space'.modules = space.modules \cup {runs[b].dir[Kernel]}
            /\ space'.trees = space.trees /\ space'.rootfs = space.rootfs
        BY <1>0, <3>1 DEF SpaceType
      <3> QED
        BY <1>3, <3>1, <3>2
    <2> QED
      BY <2>1, <2>2
  <1>4. CASE CreateSkeleton(b)
    <2>1. space' = [space EXCEPT !.made = TRUE, !.rootfs = [space.rootfs EXCEPT !.files = @ \cup Skeleton]]
      BY <1>4 DEF CreateSkeleton
    <2>2. space'.rootfs = [space.rootfs EXCEPT !.files = @ \cup Skeleton] /\ space'.trees = space.trees
          /\ space'.kernel = space.kernel /\ space'.modules = space.modules
      BY <1>0, <2>1 DEF SpaceType
    <2>3. ~ExtractComponent(b) /\ ~InstallKernel(b)
      BY <1>4 DEF CreateSkeleton, ExtractComponent, InstallKernel, At
    <2>4. space'.rootfs.kernel = space.rootfs.kernel /\ space'.rootfs.modules = space.rootfs.modules
      BY <1>0, <2>2 DEF RootType
    <2> QED
      BY <2>2, <2>3, <2>4
  <1>5. CASE InstallKernel(b)
    <2>0. ~ExtractComponent(b)
      BY <1>5 DEF ExtractComponent, InstallKernel, At
    <2>1. CASE Errs(b) /\ space' = space
      BY <2>0, <2>1
    <2>2. CASE ~(Errs(b) /\ space' = space)
      <3>1. /\ MoveTo(b, "modules")
            /\ space' = [space EXCEPT !.made = TRUE,
                            !.rootfs = [space.rootfs EXCEPT !.files = @ \cup {"boot"}, !.kernel = space.kernel]]
        BY <1>5, <2>2 DEF InstallKernel
      <3>2. /\ space'.rootfs = [space.rootfs EXCEPT !.files = @ \cup {"boot"}, !.kernel = space.kernel]
            /\ space'.trees = space.trees /\ space'.kernel = space.kernel /\ space'.modules = space.modules
        BY <1>0, <3>1 DEF SpaceType
      <3>3. space'.rootfs.kernel = space.kernel /\ space'.rootfs.modules = space.rootfs.modules
        BY <1>0, <3>2 DEF RootType
      <3> QED
        BY <1>5, <3>1, <3>2, <3>3
    <2> QED
      BY <2>1, <2>2
  <1>6. CASE InstallModules(b)
    <2>1. space' = [space EXCEPT !.rootfs = [space.rootfs EXCEPT !.modules = @ \cup space.modules]]
      BY <1>6 DEF InstallModules
    <2>2. /\ space'.rootfs = [space.rootfs EXCEPT !.modules = @ \cup space.modules] /\ space'.trees = space.trees
          /\ space'.kernel = space.kernel /\ space'.modules = space.modules
      BY <1>0, <2>1 DEF SpaceType
    <2>3. space'.rootfs.kernel = space.rootfs.kernel /\ space'.rootfs.modules = space.rootfs.modules \cup space.modules
      BY <1>0, <2>2 DEF RootType
    <2> QED
      BY <1>6, <2>2, <2>3
  <1>7. CASE ConfigureSystem(b)
    <2> DEFINE more == InitInstall \cup BootConfig \cup BoardConfig \cup SecurityConfig \cup InitramfsGenerate \cup GeneratedFiles
    <2>0. ~ExtractComponent(b) /\ ~InstallKernel(b)
      BY <1>7 DEF ConfigureSystem, ExtractComponent, InstallKernel, At
    <2>1. space' = space \/ space' = [space EXCEPT !.rootfs = [space.rootfs EXCEPT !.files = @ \cup more]]
      BY <1>7 DEF ConfigureSystem
    <2> HIDE DEF more
    <2>2. space' # space => /\ space'.rootfs = [space.rootfs EXCEPT !.files = @ \cup more] /\ space'.trees = space.trees
                            /\ space'.kernel = space.kernel /\ space'.modules = space.modules
      BY <1>0, <2>1 DEF SpaceType
    <2>3. space'.rootfs.kernel = space.rootfs.kernel /\ space'.rootfs.modules = space.rootfs.modules
      BY <1>0, <2>2 DEF RootType
    <2> QED
      BY <2>0, <2>2, <2>3
  <1>8. CASE \/ StartFails(b) \/ ResolveComponent(b) \/ CheckToolchain(b) \/ CheckDownload(b) \/ DownloadsVerified(b)
             \/ Configure(b) \/ ValidateRootfs(b) \/ ValidatePackage(b) \/ CopyIntoImage(b) \/ UploadAndComplete(b) \/ HandleFailure(b)
    <2>1. space' = space /\ ~ExtractComponent(b) /\ ~InstallKernel(b)
      BY <1>8 DEF StartFails, ResolveComponent, CheckToolchain, CheckDownload, DownloadsVerified, Configure, ValidateRootfs,
                  ValidatePackage, CopyIntoImage, UploadAndComplete, HandleFailure, ExtractComponent, InstallKernel, At
    <2> QED
      BY <2>1
  <1>9. CASE (StageFails(b) \/ StagePanics(b)) /\ ~ExtractComponent(b) /\ ~InstallKernel(b)
    BY <1>9 DEF StageFails, StagePanics
  <1> QED
    BY <1>1, <1>2, <1>3, <1>4, <1>5, <1>6, <1>7, <1>8, <1>9 DEF RunStep

\* Only a tree that is there is compiled, and only compiled modules are installed.
LEMMA RunStepConsistent ==
  ASSUME StagesTypes, Consistent, NEW b \in Builders, RunStep(b)
  PROVE  Consistent'
  <1> SUFFICES ASSUME \A c \in Builders : runs'[c].at # "clean"
               PROVE  space'.modules \subseteq KernelTrees(space') /\ space'.rootfs.modules \subseteq space'.modules
    BY DEF Consistent, At
  <1>0. space \in SpaceType
    BY DEF StagesTypes, SpaceTypes
  <1>1. CASE CleanedUp(b)
    BY <1>1 DEF CleanedUp, NoSpace, NoRootfs
  <1>2. CASE RemoveDirectory(b)
    BY <1>2 DEF RemoveDirectory, At
  <1>3. CASE ~CleanedUp(b) /\ ~RemoveDirectory(b)
    <2>1. runs[b].at # "clean"
      BY <1>3 DEF RunStep, StartRun, StartFails, ResolveComponent, FetchConfig, CheckToolchain, CheckDownload, DownloadsVerified,
                  PrepareWorkspace, ExtractComponent, GenerateBuildScripts, Configure, MakeKernel, MakeInContainer, CreateSkeleton,
                  InstallKernel, InstallModules, ConfigureSystem, ValidateRootfs, ValidatePackage, CopyIntoImage, UploadAndComplete,
                  StageFails, StagePanics, HandleFailure, At, Working
    <2>2. \A c \in Builders : ~At(c, "clean")
      BY <2>1, OtherRuns DEF At
    <2>3. space.modules \subseteq KernelTrees(space) /\ space.rootfs.modules \subseteq space.modules
      BY <2>2 DEF Consistent
    <2>4. CASE space'.trees = space.trees /\ space'.modules = space.modules
      <3>1. space'.rootfs.modules \in {space.rootfs.modules, space.rootfs.modules \cup space.modules}
        BY <1>3, <2>4, SpaceSteps
      <3> QED
        BY <2>3, <2>4, <3>1 DEF KernelTrees
    <2>5. CASE \E p \in Parts, v \in Releases, d \in Releases \cup {Unset} : Extracts(b, p, v, d)
      <3>1. PICK p \in Parts, v \in Releases, d \in Releases \cup {Unset} : Extracts(b, p, v, d)
        BY <2>5
      <3>2. space' = [space EXCEPT !.trees = @ \cup {<<p, v>>}]
        BY <3>1 DEF Extracts
      <3>3. space'.trees = space.trees \cup {<<p, v>>} /\ space'.modules = space.modules /\ space'.rootfs = space.rootfs
        BY <1>0, <3>2 DEF SpaceType
      <3> QED
        BY <2>3, <3>3 DEF KernelTrees
    <2>6. CASE /\ SourceTree(b) \in space.trees
               /\ space'.modules = space.modules \cup {runs[b].dir[Kernel]}
               /\ space'.trees = space.trees /\ space'.rootfs = space.rootfs
      <3>1. runs[b].dir[Kernel] \in KernelTrees(space)
        BY <1>0, <2>6 DEF SourceTree, KernelTrees, SpaceType
      <3> QED
        BY <2>3, <2>6, <3>1 DEF KernelTrees
    <2> QED
      BY <1>3, <2>4, <2>5, <2>6, SpaceSteps
  <1> QED
    BY <1>1, <1>2, <1>3

\* A run that is not at work knows nothing.
LEMMA NotAtWork ==
  ASSUME NEW r, NEW s, r.at \notin Working
  PROVE  Own(r, s)
  BY DEF Own, Working, Prepared, Configured, Built, KernelIn, ModulesIn, Validated

\* A run that is alone carries what it knows to its next stage.
LEMMA OwnStep ==
  ASSUME StagesTypes, OnlyOneAlone, Consistent,
         NEW b \in Builders, RunStep(b), ~StartRun(b), runs[b].alone, ~At(b, "rest"), Own(runs[b], space)
  PROVE  Own(runs'[b], space')
  <1> DEFINE r == runs[b]
             q == runs'[b]
             s == space
             z == space'
  <1>0. /\ r \in RunType /\ s \in SpaceType /\ Unset \notin Releases /\ DOMAIN r.dir \subseteq DOMAIN r.got
        /\ runs \in [Builders -> RunType]
    BY DEF StagesTypes, RunTypes, SpaceTypes, StagesAssumption
  <1>1. CASE q.at \notin Working
    BY <1>1, NotAtWork
  <1>2. CASE Errs(b)
    <2>1. q.at = "mark_failed"
      BY <1>0, <1>2 DEF Errs, MoveTo, RunType
    <2> QED
      BY <2>1, NotAtWork DEF Working
  <1>3. CASE ResolveComponent(b) /\ ~Errs(b)
    <2>1. r.at = "resolve" /\ z = s
      BY <1>0, <1>3 DEF ResolveComponent, At
    <2> DEFINE p == Head(r.todo)
               g == IF offered[p].fits THEN With(r.got, p, VersionOf(p)) ELSE r.got
    <2>2. runs' = [runs EXCEPT ![b].todo = Tail(@), ![b].got = g]
      BY <1>0, <1>3 DEF ResolveComponent
    <2>3. q.at = "resolve" /\ q.dir = r.dir /\ q.got = g
      BY <1>0, <2>1, <2>2 DEF RunType
    <2>4. DOMAIN r.got \subseteq DOMAIN g /\ \A x \in DOMAIN r.got : g[x] = r.got[x]
      BY DEF With
    <2> HIDE DEF g
    <2> QED
      BY <1>0, <2>1, <2>3, <2>4 DEF Own, Prepared, Configured, Built, KernelIn, ModulesIn, Validated, Working
  <1>4. CASE (FetchConfig(b) \/ CheckToolchain(b) \/ CheckDownload(b) \/ DownloadsVerified(b)) /\ ~Errs(b)
    <2>1. /\ r.at \in {"resolve", "toolchain", "download"} /\ q.at \in {"toolchain", "download", "dirs"}
          /\ q.dir = r.dir /\ q.got = r.got
      BY <1>0, <1>4 DEF FetchConfig, CheckToolchain, CheckDownload, DownloadsVerified, Again, MoveTo, At, RunType
    <2>2. z.trees = s.trees
      BY <1>0, <1>4 DEF FetchConfig, CheckToolchain, CheckDownload, DownloadsVerified, SpaceType
    <2> QED
      BY <1>0, <2>1, <2>2 DEF Own, KernelTrees, Prepared, Configured, Built, KernelIn, ModulesIn, Validated, Working
  <1>5. CASE PrepareWorkspace(b)
    <2> DEFINE t == Only(<<Kernel>> \o job.config.wants, DOMAIN r.got)
    <2>1. Kernel \in DOMAIN r.got => \E i \in DOMAIN t : t[i] = Kernel
      BY AgainTyped DEF StagesTypes
    <2>2. runs' = [runs EXCEPT ![b].at = "prepare", ![b].todo = t] /\ z.trees = s.trees /\ r.at = "dirs"
      BY <1>0, <1>5 DEF PrepareWorkspace, Again, SpaceType, At
    <2> HIDE DEF t
    <2>3. q.at = "prepare" /\ q.dir = r.dir /\ q.got = r.got /\ q.todo = t
      BY <1>0, <2>2 DEF RunType
    <2> QED
      BY <1>0, <2>1, <2>2, <2>3 DEF Own, KernelTrees, Prepared, Configured, Built, KernelIn, ModulesIn, Validated, Working
  <1>6. CASE ExtractComponent(b) /\ ~Errs(b)
    <2>1. PICK p \in Parts, v \in Releases, d \in Releases \cup {Unset} : Extracts(b, p, v, d)
      BY <1>6, ExtractRun
    <2>2. /\ p = Head(r.todo) /\ v = r.got[p] /\ d = FindSourceDir(Trees(p) \cup {v}) /\ r.todo # <<>>
          /\ space' = [space EXCEPT !.trees = @ \cup {<<p, v>>}]
          /\ runs' = [runs EXCEPT ![b].todo = Tail(@), ![b].dir = With(runs[b].dir, p, d)]
      BY <2>1 DEF Extracts
    <2>3. /\ r.at = "prepare" /\ q.at = "prepare" /\ q.got = r.got /\ q.todo = Tail(r.todo) /\ q.dir = With(r.dir, p, d)
          /\ z.trees = s.trees \cup {<<p, v>>}
      BY <1>0, <1>6, <2>2 DEF RunType, SpaceType, ExtractComponent, At
    <2>4. ASSUME Kernel \in DOMAIN r.got
          PROVE  Kernel \in DOMAIN q.dir \/ \E i \in DOMAIN q.todo : q.todo[i] = Kernel
      <3>1. CASE Kernel \in DOMAIN r.dir \/ Kernel = p
        BY <2>3, <3>1 DEF With
      <3>2. CASE Kernel \notin DOMAIN r.dir /\ Kernel # p
        <4>1. PICK i \in DOMAIN r.todo : r.todo[i] = Kernel
          BY <2>3, <2>4, <3>2 DEF Own
        <4> DEFINE t == r.todo
        <4>2. t \in Seq(Parts) /\ t # <<>>
          BY <1>0, <2>2 DEF RunType
        <4>3. i # 1
          BY <2>2, <3>2, <4>1, <4>2
        <4>4. i - 1 \in DOMAIN Tail(t) /\ Tail(t)[i - 1] = t[i]
          <5> HIDE DEF t
          <5>1. i \in 1..Len(t)
            BY <4>1, <4>2 DEF t
          <5> QED
            BY <4>2, <4>3, <5>1
        <4> QED
          BY <2>3, <4>1, <4>4
      <3> QED
        BY <3>1, <3>2
    <2>5. ASSUME Kernel \in DOMAIN q.dir
          PROVE  q.dir[Kernel] = FindSourceDir(KernelTrees(z)) /\ q.got[Kernel] \in KernelTrees(z)
      <3>1. CASE Kernel \in DOMAIN r.dir
        <4>1. r.dir[Kernel] = FindSourceDir(KernelTrees(s)) /\ r.got[Kernel] \in KernelTrees(s)
          BY <2>3, <3>1 DEF Own, Working
        <4>2. q.dir[Kernel] = r.dir[Kernel]
          BY <2>3, <3>1 DEF With
        <4>3. KernelTrees(z) = KernelTrees(s)
          BY <2>2, <2>3, <4>1 DEF KernelTrees
        <4> QED
          BY <2>3, <4>1, <4>2, <4>3
      <3>2. CASE Kernel \notin DOMAIN r.dir
        <4>1. p = Kernel /\ q.dir[Kernel] = d
          BY <2>3, <2>5, <3>2 DEF With
        <4>2. KernelTrees(z) = Trees(Kernel) \cup {v}
          BY <2>3, <4>1 DEF KernelTrees, Trees
        <4> QED
          BY <2>2, <2>3, <4>1, <4>2
      <3> QED
        BY <3>1, <3>2
    <2> QED
      BY <2>3, <2>4, <2>5 DEF Own, Prepared, Configured, Built, KernelIn, ModulesIn, Validated
  <1>7. CASE GenerateBuildScripts(b)
    <2>1. r.at = "prepare" /\ r.todo = <<>> /\ q.at = "compile" /\ q.dir = r.dir /\ q.got = r.got
      BY <1>0, <1>7 DEF GenerateBuildScripts, MoveTo, At, RunType
    <2>2. z.trees = s.trees
      BY <1>0, <1>7 DEF GenerateBuildScripts, SpaceType
    <2>3. DOMAIN r.todo = {}
      <3>1. DOMAIN <<>> = {}
        OBVIOUS
      <3> QED
        BY <2>1, <3>1
    <2> QED
      BY <1>0, <2>1, <2>2, <2>3 DEF Own, KernelTrees, Prepared, Configured, Built, KernelIn, ModulesIn, Validated, Working
  <1>8. CASE Configure(b) /\ ~Errs(b)
    <2>1. /\ r.at = "compile" /\ q.at = "make" /\ q.dir = r.dir /\ q.got = r.got /\ z = s
          /\ Kernel \in DOMAIN r.got /\ <<Kernel, r.dir[Kernel]>> \in s.trees
      BY <1>0, <1>8 DEF Configure, MoveTo, At, RunType, HasKernel, SourceTree
    <2>2. r.dir[Kernel] = FindSourceDir(KernelTrees(s)) /\ r.got[Kernel] \in KernelTrees(s) /\ Kernel \in DOMAIN r.dir
      BY <2>1 DEF Own, Prepared, Working
    <2>3. r.dir[Kernel] \in Releases
      BY <1>0, <2>1 DEF SpaceType
    <2>4. KernelTrees(s) = {r.dir[Kernel]}
      BY <1>0, <2>2, <2>3, SourceDirFound
    <2>5. KernelTrees(s) = {r.got[Kernel]}
      BY <2>2, <2>4
    <2> QED
      BY <2>1, <2>2, <2>5 DEF Own, Prepared, Configured, Built, KernelIn, ModulesIn, Validated, Working
  <1>9. CASE (MakeKernel(b) \/ MakeInContainer(b)) /\ ~Errs(b)
    <2>1. /\ r.at = "make" /\ q.at = "skeleton" /\ q.dir = r.dir /\ q.got = r.got
          /\ space' = [space EXCEPT !.kernel = r.dir[Kernel], !.modules = @ \cup {r.dir[Kernel]}]
      BY <1>0, <1>9 DEF MakeKernel, MakeInContainer, InstallBuilt, MoveTo, At, RunType
    <2>2. /\ Kernel \in DOMAIN r.got /\ Kernel \in DOMAIN r.dir /\ r.dir[Kernel] = FindSourceDir(KernelTrees(s))
          /\ KernelTrees(s) = {r.got[Kernel]}
      BY <2>1 DEF Own, Prepared, Configured, Working
    <2>3. r.dir[Kernel] = r.got[Kernel]
      BY <2>2, SourceDirFound
    <2>4. \A c \in Builders : ~At(c, "clean")
      BY <2>1 DEF OnlyOneAlone, At
    <2>5. space.modules \subseteq KernelTrees(space)
      BY <2>4 DEF Consistent
    <2>6. z.kernel = r.got[Kernel] /\ z.modules = {r.got[Kernel]} /\ z.trees = s.trees
      BY <1>0, <2>1, <2>2, <2>3, <2>5 DEF SpaceType
    <2> QED
      BY <2>1, <2>2, <2>3, <2>6 DEF Own, KernelTrees, Prepared, Configured, Built, KernelIn, ModulesIn, Validated, Working
  <1>10. CASE (CreateSkeleton(b) \/ InstallKernel(b) \/ InstallModules(b) \/ ConfigureSystem(b)) /\ ~Errs(b)
    <2>1. /\ \/ r.at = "skeleton" /\ q.at = "kernel"
             \/ r.at = "kernel" /\ q.at = "modules" /\ InstallKernel(b)
             \/ r.at = "modules" /\ q.at = "system" /\ InstallModules(b)
             \/ r.at = "system" /\ q.at = "validate"
          /\ q.dir = r.dir /\ q.got = r.got
      BY <1>0, <1>10 DEF CreateSkeleton, InstallKernel, InstallModules, ConfigureSystem, MoveTo, At, RunType
    <2>2. /\ z.trees = s.trees /\ z.kernel = s.kernel /\ z.modules = s.modules
          /\ q.at = "modules" => z.rootfs.kernel = s.kernel
          /\ q.at # "modules" => z.rootfs.kernel = s.rootfs.kernel
          /\ q.at = "system" => z.rootfs.modules = s.rootfs.modules \cup s.modules
          /\ q.at # "system" => z.rootfs.modules = s.rootfs.modules
      <3>1. /\ ~MakeKernel(b) /\ ~MakeInContainer(b) /\ ~RemoveDirectory(b) /\ ~CleanedUp(b)
            /\ \A p \in Parts, v \in Releases, d \in Releases \cup {Unset} : ~Extracts(b, p, v, d)
        <4>1. r.at \in {"skeleton", "kernel", "modules", "system"} /\ q.at # "prepare" /\ q.at # r.at
          BY <2>1
        <4>2. ASSUME NEW p \in Parts, NEW v \in Releases, NEW d \in Releases \cup {Unset}, Extracts(b, p, v, d) PROVE FALSE
          <5>1. q.at = r.at
            BY <1>0, <4>2 DEF Extracts, RunType
          <5> QED
            BY <4>1, <5>1
        <4> QED
          BY <4>1, <4>2 DEF MakeKernel, MakeInContainer, RemoveDirectory, CleanedUp, At
      <3>2. q.at # "modules" => ~InstallKernel(b)
        BY <2>1 DEF InstallKernel, At
      <3>3. q.at # "system" => ~InstallModules(b)
        BY <2>1 DEF InstallModules, At
      <3>4. q.at = "system" => z.rootfs.modules = s.rootfs.modules \cup s.modules
        <4>1. ASSUME q.at = "system" PROVE z.rootfs.modules = s.rootfs.modules \cup s.modules
          <5>1. space' = [space EXCEPT !.rootfs = [space.rootfs EXCEPT !.modules = @ \cup space.modules]]
            BY <2>1, <4>1 DEF InstallModules
          <5> QED
            BY <1>0, <5>1 DEF SpaceType, RootType
        <4> QED
          BY <4>1
      <3>5. q.at = "modules" => InstallKernel(b)
        BY <2>1
      <3> QED
        BY <1>10, <3>1, <3>2, <3>3, <3>4, <3>5, SpaceSteps
    <2>3. \A c \in Builders : ~At(c, "clean")
      BY <2>1 DEF OnlyOneAlone, At
    <2>4. space.rootfs.modules \subseteq space.modules
      BY <2>3 DEF Consistent
    <2>5. KernelTrees(z) = KernelTrees(s)
      BY <2>2 DEF KernelTrees
    <2> QED
      BY <2>1, <2>2, <2>4, <2>5 DEF Own, Prepared, Configured, Built, KernelIn, ModulesIn, Validated, Working
  <1>11. CASE (ValidateRootfs(b) \/ ValidatePackage(b)) /\ ~Errs(b)
    <2>1. /\ z = s /\ q.dir = r.dir /\ q.got = r.got
          /\ \/ r.at = "validate" /\ q.at = "package" /\ Whole(s.rootfs)
             \/ r.at = "package" /\ q.at = "generate"
      BY <1>0, <1>11 DEF ValidateRootfs, ValidatePackage, MoveTo, At, RunType
    <2> QED
      BY <2>1 DEF Own, Prepared, Configured, Built, KernelIn, ModulesIn, Validated, Working
  <1>12. CASE CopyIntoImage(b) /\ ~Errs(b)
    <2>1. z = s /\ q.dir = r.dir /\ q.got = r.got /\ r.at = "generate" /\ q.at = "upload" /\ q.image = s.rootfs
      BY <1>0, <1>12 DEF CopyIntoImage, At, RunType
    <2> QED
      BY <2>1 DEF Own, IsOfVersion, Prepared, Configured, Built, KernelIn, ModulesIn, Validated, Working
  <1>13. CASE \/ StartFails(b) \/ StageFails(b) \/ UploadAndComplete(b) \/ StagePanics(b) \/ HandleFailure(b)
              \/ RemoveDirectory(b) \/ CleanedUp(b)
    <2>1. CASE StageFails(b)
      BY <1>2, <2>1 DEF StageFails
    <2>2. CASE ~StageFails(b)
      <3>1. q.at \notin Working
        BY <1>0, <1>13, <2>2 DEF StartFails, UploadAndComplete, StagePanics, HandleFailure, RemoveDirectory, CleanedUp, MoveTo, At,
                                 Resting, Working, RunType
      <3> QED
        BY <1>1, <3>1
    <2> QED
      BY <2>1, <2>2
  <1> QED
    BY <1>1, <1>2, <1>3, <1>4, <1>5, <1>6, <1>7, <1>8, <1>9, <1>10, <1>11, <1>12, <1>13 DEF RunStep

\* So does every run: a step of another one means that this one is not alone.
LEMMA RunStepOwns ==
  ASSUME StagesInv, NEW b \in Builders, RunStep(b)
  PROVE  Owns'
  <1> SUFFICES ASSUME NEW c \in Builders, runs'[c].alone, runs'[c].at # "rest"
               PROVE  Own(runs'[c], space')
    BY DEF Owns, At
  <1>1. CASE StartRun(b)
    <2>1. c = b
      <3>1. ASSUME c # b PROVE FALSE
        <4>1. runs'[c] = [runs[c] EXCEPT !.alone = FALSE]
          BY <1>1, <3>1 DEF StartRun
        <4> QED
          BY <4>1 DEF StagesInv, StagesTypes, RunTypes, RunType
      <3> QED
        BY <3>1
    <2>2. runs'[b].at = "resolve" /\ runs'[b].dir = Resting.dir
      BY <1>1 DEF StartRun, Resting
    <2>3. Kernel \notin DOMAIN runs'[b].dir
      BY <2>2, RestingTyped
    <2> QED
      BY <2>1, <2>2, <2>3 DEF Own, Prepared, Configured, Built, KernelIn, ModulesIn, Validated
  <1>2. CASE ~StartRun(b) /\ c = b
    <2>1. runs[b].alone /\ ~At(b, "rest")
      BY <1>2, OnlyStartsWake DEF StagesInv, At
    <2>2. Own(runs[b], space)
      BY <2>1 DEF StagesInv, Owns
    <2> QED
      BY <1>2, <2>1, <2>2, OwnStep DEF StagesInv
  <1>3. CASE ~StartRun(b) /\ c # b
    <2>1. runs'[c] = runs[c]
      BY <1>3, OtherRuns DEF StagesInv
    <2>2. At(b, "rest")
      BY <1>3, <2>1 DEF StagesInv, OnlyOneAlone, At
    <2>3. space' = space
      BY <1>3, <2>2 DEF RunStep, StartFails, ResolveComponent, FetchConfig, CheckToolchain, CheckDownload, DownloadsVerified,
                  PrepareWorkspace, ExtractComponent, GenerateBuildScripts, Configure, MakeKernel, MakeInContainer, CreateSkeleton,
                  InstallKernel, InstallModules, ConfigureSystem, ValidateRootfs, ValidatePackage, CopyIntoImage, UploadAndComplete,
                  StageFails, StagePanics, HandleFailure, RemoveDirectory, CleanedUp, At, Working
    <2> QED
      BY <2>1, <2>3 DEF StagesInv, Owns, At
  <1> QED
    BY <1>1, <1>2, <1>3

\* What is uploaded is of the version the run resolved.
LEMMA RunStepShipped ==
  ASSUME StagesInv, NEW b \in Builders, RunStep(b)
  PROVE  Shipped'
  <1>0. shipped \in Seq([image: RootType, got: PartMaps(Releases), alone: BOOLEAN])
    BY DEF StagesInv, StagesTypes, TableTypes
  <1>1. CASE UploadAndComplete(b)
    <2>1. shipped' = Append(shipped, Shipment(b)) /\ At(b, "upload")
      BY <1>1 DEF UploadAndComplete
    <2>2. Shipment(b).alone => IsOfVersion(Shipment(b).image, Shipment(b).got[Kernel])
      BY <2>1 DEF Shipment, StagesInv, Owns, Own, At
    <2> DEFINE e == Shipment(b)
    <2> HIDE DEF e
    <2>3. \A i \in DOMAIN shipped' : (i \in DOMAIN shipped /\ shipped'[i] = shipped[i]) \/ shipped'[i] = e
      <3>1. shipped' = Append(shipped, e)
        BY <2>1 DEF e
      <3>2. Len(shipped) \in Nat /\ DOMAIN shipped = 1..Len(shipped)
        BY <1>0
      <3>3. \A i \in 1..(Len(shipped) + 1) : i \in 1..Len(shipped) \/ i = Len(shipped) + 1
        BY <3>2
      <3> QED
        BY <1>0, <3>1, <3>2, <3>3
    <2> QED
      BY <2>2, <2>3 DEF StagesInv, Shipped, e
  <1>2. CASE shipped' = shipped
    BY <1>2 DEF StagesInv, Shipped
  <1> QED
    BY <1>1, <1>2 DEF RunStep, StartRun, StartFails, ResolveComponent, FetchConfig, CheckToolchain, CheckDownload, DownloadsVerified,
                  PrepareWorkspace, ExtractComponent, GenerateBuildScripts, Configure, MakeKernel, MakeInContainer, CreateSkeleton,
                  InstallKernel, InstallModules, ConfigureSystem, ValidateRootfs, ValidatePackage, CopyIntoImage,
                  StageFails, StagePanics, HandleFailure, RemoveDirectory, CleanedUp

\* The inductive invariant.
LEMMA StagesInvNext ==
  ASSUME StagesInv, [StagesNext]_stageVars
  PROVE  StagesInv'
  <1>0. StagesTypes'
    BY StagesTypesNext DEF StagesInv
  <1>1. CASE UNCHANGED <<runs, space, shipped>>
    BY <1>0, <1>1, OutsideSteps
  <1>2. ASSUME NEW b \in Builders, RunStep(b) PROVE StagesInv'
    BY <1>0, <1>2, RunStepAlone, RunStepConsistent, RunStepOwns, RunStepShipped DEF StagesInv
  <1>3. CASE DefaultChanges \/ ComponentEdited \/ ComponentDeleted \/ ArtifactDeleted \/ DownloadCompletes
    BY <1>1, <1>3, CatalogueSteps DEF StagesInv
  <1>4. CASE DispatchAgain \/ CancelBuild \/ RetryBuild
    BY <1>1, <1>4, RequestSteps DEF StagesInv
  <1> QED
    BY <1>1, <1>2, <1>3, <1>4 DEF StagesNext, RunStep, stageVars

\* The image of a build that no other run of the build overlapped holds the kernel and
\* the modules of the version that was resolved, whatever earlier runs of the build,
\* failed, cancelled or panicked, left behind in the workspace.
THEOREM ImagesOfResolvedVersions == StagesSpec => []ImageOfResolvedVersions
  <1>1. StagesInit => StagesInv
    <2> SUFFICES ASSUME StagesInit PROVE StagesInv
      OBVIOUS
    <2>1. StagesTypes
      BY StagesAssumption, StagesTypesInit
    <2>2. \A b \in Builders : runs[b].at = "rest"
      BY DEF StagesInit, Resting
    <2>3. Consistent
      BY DEF StagesInit, Consistent, NoSpace, NoRootfs
    <2>4. DOMAIN shipped = {}
      <3>1. DOMAIN <<>> = {}
        OBVIOUS
      <3> QED
        BY <3>1 DEF StagesInit
    <2> QED
      BY <2>1, <2>2, <2>3, <2>4 DEF StagesInv, OnlyOneAlone, Owns, Shipped, At
  <1>2. StagesInv /\ [StagesNext]_stageVars => StagesInv'
    BY StagesInvNext
  <1>3. StagesInv => ImageOfResolvedVersions
    BY DEF StagesInv, Shipped, IsOfVersion, ImageOfResolvedVersions
  <1> QED
    BY <1>1, <1>2, <1>3, PTL DEF StagesSpec
=============================================================================
