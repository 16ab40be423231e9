----------------------------- MODULE GitPromptMC -----------------------------
(* A directory with a subdirectory, each possibly a repository, and one in   *)
(* which the segment may be disabled.                                        *)
EXTENDS GitPrompt
CONSTANTS top, sub, other
McDir == {top, sub, other}
McUp == [d \in McDir |-> IF d = sub THEN <<sub, top>> ELSE <<d>>]
=============================================================================
