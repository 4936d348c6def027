--------------------------- MODULE KernelConfigMC ---------------------------
(***************************************************************************)
(* Instances of the kernel configuration for TLC: a user without options   *)
(* of their own and one who turns an option off and makes one a module, a  *)
(* custom file, and the defconfigs of the architecture and of the board.   *)
(***************************************************************************)
EXTENDS KernelConfig

Sparse(f) == [o \in Options |-> IF o \in DOMAIN f THEN f[o] ELSE "-"]
MCConfigs ==
  { [mode |-> "defconfig", fs |-> "ext4", kvm |-> FALSE, user |-> NoLines],
    [mode |-> "options", fs |-> "xfs", kvm |-> TRUE, user |-> Sparse([base |-> "n", xfs |-> "m"])] }
MCCustom == [base |-> "y", ext4 |-> "m", xfs |-> "n", kvm |-> "n"]
MCArch == [base |-> "y", ext4 |-> "y", xfs |-> "n", kvm |-> "n"]
MCBoard == [base |-> "y", ext4 |-> "n", xfs |-> "n", kvm |-> "n"]
MCDefaults == [base |-> "y", ext4 |-> "n", xfs |-> "n", kvm |-> "n"]
MCOverlay == Sparse([xfs |-> "y", kvm |-> "n"])
=============================================================================
