--------------------------- MODULE PromptCycleMC ---------------------------
(***************************************************************************)
(* One configuration per kind of transient prompt, and functions of the    *)
(* user's that hide after the line what they show before it.               *)
(***************************************************************************)
EXTENDS PromptCycle, TLC

CONSTANTS d1, d2, v1, v2, none, git, other

Plain1 ==
  [transient |-> "off", once |-> FALSE, timeOnFinish |-> FALSE,
   onPrePrompt |-> "keep", onPostPrompt |-> "keep", onPostWidget |-> "keep"]

McConfig ==
  {Plain1,
   [Plain1 EXCEPT !.timeOnFinish = TRUE, !.onPostPrompt = "hide", !.onPrePrompt = "show"],
   [Plain1 EXCEPT !.once = TRUE, !.transient = "always", !.onPostWidget = "hide"],
   [Plain1 EXCEPT !.transient = "same-dir", !.onPostPrompt = "hide", !.onPrePrompt = "show"]}

(* Directories are alike, and so are answers. *)
McSymmetry == Permutations(Dir) \cup Permutations(Value)
=============================================================================
