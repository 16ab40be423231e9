---------------------------- MODULE GitstatusdMC ----------------------------
(* A directory and a subdirectory, with a .git directory each or a .git file  *)
(* that leads to a shared one.                                                *)
EXTENDS Gitstatusd
CONSTANTS top, sub, topGit, subGit
McPath == {top, sub}
McUp == [p \in McPath |-> IF p = sub THEN <<sub, top>> ELSE <<top>>]
McOwn == [p \in McPath |-> IF p = sub THEN subGit ELSE topGit]
=============================================================================
