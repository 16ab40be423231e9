----------------------------- MODULE RepoScanMC -----------------------------
(***************************************************************************)
(* At most two shards, two commits, two contents of the index.  Snapshots  *)
(* have counts of their own, some below, some above the limits, so that a  *)
(* count kept from another snapshot, or cut short, shows.                  *)
(***************************************************************************)
EXTENDS RepoScan

CONSTANTS h1, h2, v1, v2

McOid == {h1, h2}
McVersion == {v1, v2}

McStaged ==
  [x \in McOid \X McVersion \X Shard |->
     CASE x = <<h1, v1, 1>> -> <<"conflicted", "added", "added">>
       [] x = <<h1, v1, 2>> -> <<"modified", "conflicted">>
       [] x = <<h1, v2, 1>> -> <<"deleted">>
       [] x = <<h2, v2, 2>> -> <<"added", "modified", "modified">>
       [] OTHER -> <<>>]

McDirty ==
  [x \in McVersion \X Shard |->
     CASE x = <<v1, 1>> -> <<"untracked", "wt_deleted">>
       [] x = <<v1, 2>> -> <<"wt_modified", "untracked">>
       [] x = <<v2, 2>> -> <<"wt_deleted">>
       [] OTHER -> <<>>]

McFlagged == [x \in McVersion \X Shard |-> IF x = <<v2, 1>> THEN 1 ELSE 0]
McEntries == [v \in McVersion |-> IF v = v1 THEN 1 ELSE 2]

McLimit == [staged |-> 2, conflicted |-> 1, unstaged |-> 2, untracked |-> 1]
=============================================================================
