---------------------------- MODULE ImageGeneration ----------------------------
(***************************************************************************)
(* The package stage of concurrent builds: the raw, qcow2 and ISO image    *)
(* generators, which attach loop devices, format and mount them, copy the  *)
(* root filesystem and give everything back in deferred calls, and the     *)
(* upload of the image with its checksum.                                  *)
(*                                                                         *)
(* The loop devices are those of the host, shared by all workers.  What    *)
(* losetup, mkfs, mount and umount do to them is modelled from how the     *)
(* stage uses these commands: losetup --find takes any free device,        *)
(* losetup -d of a mounted device waits for its last unmount, and mkfs     *)
(* refuses a mounted device.  Every command runs under the context of the  *)
(* build, and does not start once that is cancelled.                       *)
(***************************************************************************)
EXTENDS Naturals, Sequences, FiniteSets

CONSTANTS
  Packagers,   \* build workers in their package stage
  Loops,       \* loop devices of the host
  MaxImages,   \* images that each worker makes
  Formats,     \* image formats that builds ask for
  MayCancel    \* workers whose build a user may cancel

ImageAssumption ==
  /\ MaxImages \in [Packagers -> Nat \ {0}]
  /\ Formats \subseteq {"raw", "qcow2", "iso"}
  /\ MayCancel \subseteq Packagers
  /\ Loops # {}
ASSUME ImageAssumption

VARIABLES
  loops,     \* the image behind each loop device, and whether it is detached with its last unmount
  mounts,    \* mounted partitions: of which image run, of which device, on which image
  disks,     \* what is in the image of each run
  pack,      \* the run of each worker
  bucket     \* images in storage: what is in them and what their checksum was taken from

imageVars == <<loops, mounts, disks, pack, bucket>>

Runs == UNION {{w} \X (1..MaxImages[w]) : w \in Packagers}
NoRun == <<>>
Free == [image |-> NoRun, auto |-> FALSE]
NoDisk == [table |-> FALSE, format |-> {}, root |-> {}, boot |-> FALSE]
Steps == {"idle", "sparse", "table", "losetup", "esp_fs", "root_fs", "mount_root", "mount_esp", "rsync",
          "grub", "umount", "detach", "defer", "convert", "iso", "efi", "efi_umount", "checksum",
          "upload", "sums", "over"}

ImageInit ==
  /\ loops = [l \in Loops |-> Free]
  /\ mounts = {}
  /\ disks = [r \in Runs |-> NoDisk]
  /\ pack = [w \in Packagers |-> [step |-> "idle", n |-> 0, format |-> "raw", dev |-> CHOOSE l \in Loops : TRUE,
                                  defers |-> <<>>, ok |-> FALSE, cancelled |-> FALSE, stuck |-> FALSE,
                                  sum |-> NoDisk]]
  /\ bucket = <<>>

RunOf(w) == <<w, pack[w].n>>
Disk(w) == disks[RunOf(w)]
Behind(w) == loops[pack[w].dev].image
Step(w, s) == pack[w].step = s
Go(w, s) == pack' = [pack EXCEPT ![w].step = s]
Commands(w) == ~pack[w].cancelled

\* An error returns from Generate: the deferred calls run, the last first.
Bail(w) == pack' = [pack EXCEPT ![w].step = "defer", ![w].ok = FALSE]
Push(w, s, call) ==
  pack' = [pack EXCEPT ![w].step = s, ![w].defers = <<call>> \o @]

\* Any step may fail, of itself or because the build is cancelled.
Failure(w) ==
  /\ pack[w].step \in {"sparse", "table", "losetup", "esp_fs", "root_fs", "mount_root", "rsync", "iso"}
  /\ Bail(w)
  /\ UNCHANGED <<loops, mounts, disks, bucket>>

Cancel(w) ==
  /\ w \in MayCancel /\ pack[w].step \notin {"idle", "over"} /\ Commands(w)
  /\ pack' = [pack EXCEPT ![w].cancelled = TRUE]
  /\ UNCHANGED <<loops, mounts, disks, bucket>>

\* GetImageGenerator.
StartImage(w) ==
  /\ pack[w].step \in {"idle", "over"} /\ pack[w].n < MaxImages[w]
  /\ \E f \in Formats :
       pack' = [pack EXCEPT ![w].step = IF f = "iso" THEN "iso" ELSE "sparse", ![w].n = @ + 1,
                            ![w].format = f, ![w].defers = <<>>, ![w].ok = TRUE,
                            ![w].cancelled = FALSE, ![w].stuck = FALSE]
  /\ UNCHANGED <<loops, mounts, disks, bucket>>

CreateSparseImage(w) ==
  /\ Step(w, "sparse")
  /\ disks' = [disks EXCEPT ![RunOf(w)] = NoDisk]
  /\ Go(w, "table")
  /\ UNCHANGED <<loops, mounts, bucket>>

CreatePartitionTable(w) ==
  /\ Step(w, "table") /\ Commands(w)
  /\ disks' = [disks EXCEPT ![RunOf(w)].table = TRUE]
  /\ Go(w, "losetup")
  /\ UNCHANGED <<loops, mounts, bucket>>

SetupLoopDevice(w) ==
  /\ Step(w, "losetup") /\ Commands(w)
  /\ \E l \in Loops :
       /\ loops[l] = Free
       /\ loops' = [loops EXCEPT ![l] = [image |-> RunOf(w), auto |-> FALSE]]
       /\ pack' = [pack EXCEPT ![w].step = "esp_fs", ![w].dev = l, ![w].defers = <<"detach">>]
  /\ UNCHANGED <<mounts, disks, bucket>>

MountedOn(l) == {m \in mounts : m.dev = l}

\* mkfs writes to whatever is behind the device.
Format(w, s, part, next) ==
  /\ Step(w, s) /\ Commands(w)
  /\ Behind(w) # NoRun /\ MountedOn(pack[w].dev) = {}
  /\ disks' = [disks EXCEPT ![Behind(w)].format = @ \cup {<<part, RunOf(w)>>}, ![Behind(w)].root = {}]
  /\ next
  /\ UNCHANGED <<loops, mounts, bucket>>

FormatEsp(w) == Format(w, "esp_fs", "esp", Go(w, "root_fs"))
\* The mount point is made next, and removed by a deferred call.
FormatRoot(w) == Format(w, "root_fs", "root", Push(w, "mount_root", "rmdir"))

Mounting(w, part) ==
  /\ Commands(w) /\ Behind(w) # NoRun
  /\ \E f \in disks[Behind(w)].format : f[1] = part
  /\ mounts' = mounts \cup {[run |-> RunOf(w), part |-> part, dev |-> pack[w].dev, image |-> Behind(w)]}

MountRoot(w) ==
  /\ Step(w, "mount_root") /\ Mounting(w, "root")
  /\ Go(w, "mount_esp")
  /\ UNCHANGED <<loops, disks, bucket>>

MUT_UnmountNotDeferred(w) ==
  /\ Step(w, "mount_esp") /\ Mounting(w, "esp")
  /\ Go(w, "rsync")
  /\ UNCHANGED <<loops, disks, bucket>>

\* Only when both partitions are mounted is the unmount deferred.
MountEsp(w) ==
  /\ Step(w, "mount_esp") /\ Mounting(w, "esp")
  /\ Push(w, "rsync", "umount")
  /\ UNCHANGED <<loops, disks, bucket>>

MountEspFails(w) ==
  /\ Step(w, "mount_esp")
  /\ pack' = [pack EXCEPT ![w].step = "defer", ![w].ok = FALSE, ![w].stuck = TRUE]
  /\ UNCHANGED <<loops, mounts, disks, bucket>>

RootMount(w) == {m \in mounts : m.run = RunOf(w) /\ m.part = "root"}

CopyRootfs(w) ==
  /\ Step(w, "rsync") /\ Commands(w)
  /\ disks' = [r \in Runs |-> IF \E m \in RootMount(w) : m.image = r
                              THEN [disks[r] EXCEPT !.root = @ \cup {RunOf(w)}] ELSE disks[r]]
  /\ Go(w, "grub")
  /\ UNCHANGED <<loops, mounts, bucket>>

\* The errors of the bootloader commands and of sync are only logged.
InstallBootloader(w) ==
  /\ Step(w, "grub")
  /\ \E done \in {Commands(w), FALSE} : disks' = [disks EXCEPT ![RunOf(w)].boot = done]
  /\ Go(w, "umount")
  /\ UNCHANGED <<loops, mounts, bucket>>

\* The device is detached with its last unmount when that was asked for.
Unmounted(gone) ==
  /\ mounts' = mounts \ gone
  /\ loops' = [l \in Loops |-> IF loops[l].auto /\ (\E m \in gone : m.dev = l)
                                  /\ ~\E m \in mounts \ gone : m.dev = l
                               THEN Free ELSE loops[l]]

\* An error of the first umount is logged; the second one fails while the
\* ESP below it is mounted.  umount may find its partition busy.
UnmountPartitions(w, ok) ==
  LET mine == {m \in mounts : m.run = RunOf(w)}
      root == RootMount(w)
  IN IF ok THEN Commands(w) /\ root # {} /\ Unmounted(mine)
     ELSE \/ Commands(w) /\ Unmounted(mine \ root)
          \/ UNCHANGED <<mounts, loops>>

Unmount(w) ==
  /\ Step(w, "umount")
  /\ \E ok \in BOOLEAN : UnmountPartitions(w, ok) /\ IF ok THEN Go(w, "detach") ELSE Bail(w)
  /\ UNCHANGED <<disks, bucket>>

DetachLoop(w) ==
  LET l == pack[w].dev
  IN IF ~Commands(w) \/ loops[l] = Free THEN loops' = loops
     ELSE loops' = [loops EXCEPT ![l] = IF MountedOn(l) = {} THEN Free ELSE [@ EXCEPT !.auto = TRUE]]

\* An error is only logged: the device is detached again when Generate
\* returns.
Detach(w) ==
  /\ Step(w, "detach")
  /\ DetachLoop(w)
  /\ Go(w, "defer")
  /\ UNCHANGED <<mounts, disks, bucket>>

(*********************** the deferred calls of Generate ******************)
Pop(w) == pack' = [pack EXCEPT ![w].defers = Tail(@)]
Deferred(w, call) == Step(w, "defer") /\ pack[w].defers # <<>> /\ Head(pack[w].defers) = call

DeferredUnmount(w) ==
  /\ Deferred(w, "umount")
  /\ \E ok \in BOOLEAN :
       /\ UnmountPartitions(w, ok)
       /\ pack' = [pack EXCEPT ![w].defers = Tail(@), ![w].stuck = @ \/ (~ok /\ RootMount(w) # {})]
  /\ UNCHANGED <<disks, bucket>>

DeferredRemoveMountPoint(w) ==
  /\ Deferred(w, "rmdir")
  /\ Pop(w)
  /\ UNCHANGED <<loops, mounts, disks, bucket>>

DeferredDetach(w) ==
  /\ Deferred(w, "detach")
  /\ DetachLoop(w)
  /\ Pop(w)
  /\ UNCHANGED <<mounts, disks, bucket>>

\* What the stage does with the result of the generator.
Returned(w) ==
  /\ Step(w, "defer") /\ pack[w].defers = <<>>
  /\ Go(w, IF ~pack[w].ok THEN "over" ELSE IF pack[w].format = "qcow2" THEN "convert" ELSE "checksum")
  /\ UNCHANGED <<loops, mounts, disks, bucket>>

ConvertQcow2(w) ==
  /\ Step(w, "convert")
  /\ \/ Commands(w) /\ Go(w, "checksum")
     \/ pack' = [pack EXCEPT ![w].step = "over", ![w].ok = FALSE]
  /\ UNCHANGED <<loops, mounts, disks, bucket>>

(********************************** ISO **********************************)
\* copyBootFiles wants an initramfs; the squashfs image holds the rootfs.
StageIso(w) ==
  /\ Step(w, "iso") /\ Commands(w)
  /\ disks' = [disks EXCEPT ![RunOf(w)].root = {RunOf(w)}]
  /\ Go(w, "efi")
  /\ UNCHANGED <<loops, mounts, bucket>>

\* mount -o loop takes a free device and frees it with the unmount.
CreateEfiImage(w) ==
  /\ Step(w, "efi")
  /\ \/ /\ Commands(w)
        /\ \E l \in Loops :
             /\ loops[l] = Free
             /\ loops' = [loops EXCEPT ![l] = [image |-> RunOf(w), auto |-> TRUE]]
             /\ mounts' = mounts \cup {[run |-> RunOf(w), part |-> "root", dev |-> l, image |-> RunOf(w)]}
        /\ Go(w, "efi_umount")
     \/ Bail(w) /\ UNCHANGED <<loops, mounts>>
  /\ UNCHANGED <<disks, bucket>>

\* The deferred umount of createEFIImage; its error is only logged.
UnmountEfiImage(w) ==
  /\ Step(w, "efi_umount")
  /\ \/ Commands(w) /\ Unmounted(RootMount(w)) /\ Go(w, "checksum")
     \/ /\ UNCHANGED <<loops, mounts>>
        /\ pack' = [pack EXCEPT ![w].step = IF Commands(w) THEN "checksum" ELSE "defer",
                                ![w].ok = Commands(w), ![w].stuck = TRUE]
  /\ UNCHANGED <<disks, bucket>>

(*************************** checksum and upload *************************)
CalculateChecksum(w) ==
  /\ Step(w, "checksum")
  /\ pack' = [pack EXCEPT ![w].step = "upload", ![w].sum = Disk(w)]
  /\ UNCHANGED <<loops, mounts, disks, bucket>>

Uploaded(w) == [run |-> RunOf(w), disk |-> Disk(w), sum |-> pack[w].sum]

UploadImage(w) ==
  /\ Step(w, "upload")
  /\ \/ bucket' = Append(bucket, Uploaded(w)) /\ Go(w, "over")
     \/ bucket' = bucket /\ pack' = [pack EXCEPT ![w].step = "over", ![w].ok = FALSE]
  /\ UNCHANGED <<loops, mounts, disks>>

ImageNext ==
  \E w \in Packagers :
    \/ StartImage(w) \/ Cancel(w) \/ Failure(w)
    \/ CreateSparseImage(w) \/ CreatePartitionTable(w) \/ SetupLoopDevice(w)
    \/ FormatEsp(w) \/ FormatRoot(w) \/ MountRoot(w) \/ MountEsp(w) \/ MountEspFails(w)
    \/ CopyRootfs(w) \/ InstallBootloader(w) \/ Unmount(w) \/ Detach(w)
    \/ DeferredUnmount(w) \/ DeferredRemoveMountPoint(w) \/ DeferredDetach(w) \/ Returned(w)
    \/ ConvertQcow2(w) \/ StageIso(w) \/ CreateEfiImage(w) \/ UnmountEfiImage(w)
    \/ CalculateChecksum(w) \/ UploadImage(w)

ImageSpec == ImageInit /\ [][ImageNext]_imageVars
(****************************** properties *******************************)
Contents == [table: BOOLEAN, format: SUBSET ({"esp", "root"} \X Runs), root: SUBSET Runs, boot: BOOLEAN]
\* Types; and what is mounted is the image that its loop device shows.
ImageTypeOK ==
  /\ loops \in [Loops -> [image: Runs \cup {NoRun}, auto: BOOLEAN]]
  /\ mounts \subseteq [run: Runs, part: {"esp", "root"}, dev: Loops, image: Runs]
  /\ disks \in [Runs -> Contents]
  /\ \A w \in Packagers : pack[w].step \in Steps /\ pack[w].n \in 0..MaxImages[w] /\ pack[w].dev \in Loops
  /\ \A m \in mounts : loops[m.dev].image = m.image

\* A generator that is done has unmounted what it mounted, unless the build
\* was cancelled before it could, the ESP could not be mounted on the root
\* partition, or umount failed twice (RawImageGenerator.Generate: the
\* explicit unmount, checked, and the deferred one).
MountsGivenBack ==
  \A w \in Packagers :
    (Step(w, "over") /\ \E m \in mounts : m.run = RunOf(w))
      => pack[w].stuck \/ (pack[w].cancelled /\ ~pack[w].ok)
=============================================================================
