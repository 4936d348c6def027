---------------------------- MODULE BuildStagesMC ----------------------------
EXTENDS BuildStages

\* A build of the default versions with make, and one in a container of a
\* pinned kernel, for a board.
NothingPinned == [p \in Parts |-> Unset]
SomeSnapshots ==
  {[wants |-> <<"systemd">>, pinned |-> NothingPinned, boot |-> "grub2", init |-> "systemd",
    security |-> "none", container |-> FALSE, board |-> FALSE],
   [wants |-> <<>>, pinned |-> [NothingPinned EXCEPT ![Kernel] = 1], boot |-> "systemd-boot", init |-> "openrc",
    security |-> "selinux", container |-> TRUE, board |-> TRUE]}

=============================================================================
