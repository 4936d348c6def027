----------------------------- MODULE VersionSyncMC -----------------------------
EXTENDS VersionSync
\* 6.9, 6.12 and 6.13: by their text 6.9 comes last.
TextOrder == [v \in Versions |-> IF v = 1 THEN 9 ELSE v]
OneGitHub == [s \in Sources |-> "github"]
=============================================================================
