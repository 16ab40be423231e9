---------------------------- MODULE PromptCycle ----------------------------
(***************************************************************************)
(* The life of a prompt in an interactive zsh: it is built by precmd,      *)
(* expanded by zsh, redrawn by widgets, callbacks and traps while a line   *)
(* is edited, trimmed when the line is over, and put back when an          *)
(* interrupt turns out not to have ended the line.                         *)
(*                                                                         *)
(* zsh is single-threaded: a widget, a callback or a trap is one step.     *)
(* The functions it calls are operators from states of the shell to states *)
(* of the shell, named as in internal/p10k.zsh.  What a segment shows is   *)
(* either compiled into PROMPT when the prompt is built, or read whenever  *)
(* PROMPT is expanded; one of each stands for all.                         *)
(***************************************************************************)
EXTENDS Integers

CONSTANTS
  Dir,        \* directories
  Buffer,     \* lines that can be typed, the empty one among them
  EmptyLine,  \* the empty line
  OnCommand,  \* lines with a command that the segment with SHOW_ON_COMMAND waits for
  Value,      \* what an asynchronous computation can find
  NoDir,      \* an unset directory
  Config      \* the configurations to look at: a set of records of AnyConfig

\* What a function of the user's (p10k-on-...) does: p10k display, or nothing.
UserHook == {"keep", "show", "hide"}
AnyConfig ==
  [transient : {"off", "always", "same-dir"}, \* POWERLEVEL9K_TRANSIENT_PROMPT
   once : BOOLEAN,                            \* POWERLEVEL9K_STATUS_ERROR_SHOW_ONCE
   timeOnFinish : BOOLEAN,                    \* _p9k_reset_on_line_finish
   onPrePrompt : UserHook, onPostPrompt : UserHook, onPostWidget : UserHook]

ASSUME PromptAssumption ==
  /\ EmptyLine \in Buffer /\ OnCommand \subseteq Buffer \ {EmptyLine}
  /\ NoDir \notin Dir /\ Config \subseteq AnyConfig

VARIABLES
  config,   \* the configuration of this shell
  sh        \* the state of the shell

vars == <<config, sh>>

Shown == {"show", "hide"}
Screen == [kind : {"full", "transient", "plain"}, built : Value, live : Value,
           error : BOOLEAN, part : Shown, onCommand : Shown]

Shell ==
  [phase : {"command",   \* a command, or nothing, runs
            "built",     \* precmd has returned
            "zle"},      \* a line is being edited
   enabled : BOOLEAN,                  \* __p9k_enabled
   cwd : Dir, status : BOOLEAN,        \* TRUE: the last command failed
   built : Value, live : Value,        \* what is known for the two kinds of segment
   prompt : [built : Value, error : BOOLEAN],   \* what PROMPT is compiled from
   lastShown : BOOLEAN,                \* _p9k__last_shown_status is that of the failure
   expanded : BOOLEAN,                 \* _p9k__expanded
   resetState : -1..2,                 \* __p9k_reset_state
   finished : {"unset", "now", "done"},\* _p9k__line_finished: unset, empty, '%{%}'
   mustRestore : BOOLEAN,              \* _p9k__must_restore_prompt
   restoreFd : BOOLEAN, redrawFd : BOOLEAN,     \* the descriptors that wake zle up
   part : Shown, onCommand : Shown,    \* _p9k__display_v: a part of the user's choice,
                                       \* the segment with SHOW_ON_COMMAND
   lastPwd : Dir \cup {NoDir},         \* _p9k__last_prompt_pwd
   buffer : Buffer,                    \* $PREBUFFER$BUFFER
   pending : BOOLEAN,                  \* PENDING || KEYS_QUEUED_COUNT
   menu : BOOLEAN,                     \* KEYMAP is menuselect
   lastBuffer : Buffer,                \* _p9k__last_buffer
   lastCommands : BOOLEAN,             \* _p9k__last_commands has the command waited for
   screen : Screen]

(* What the operators below make of the shell is a shell: in particular    *)
(* __p9k_reset_state is -1, 0, 1 or 2 between two steps.                   *)
TypeOK == config \in Config /\ sh \in Shell

Matches(b) == b \in OnCommand
AsShown(b) == IF b THEN "show" ELSE "hide"

-----------------------------------------------------------------------------
(* Building and drawing.                                                   *)

\* prompt_status with POWERLEVEL9K_STATUS_ERROR_SHOW_ONCE.
ErrorOf(s) == s.status /\ ~(config.once /\ s.lastShown)
LastShown(s) == IF config.once THEN s.status ELSE s.lastShown

SetPrompt(s) ==
  [s EXCEPT !.prompt = [built |-> s.built, error |-> ErrorOf(s)], !.lastShown = LastShown(s)]

Full(s) ==
  [kind |-> "full", built |-> s.prompt.built, live |-> s.live, error |-> s.prompt.error,
   part |-> s.part, onCommand |-> s.onCommand]
Trimmed(s) == [s.screen EXCEPT !.kind = "transient"]
Plain(s) == [s.screen EXCEPT !.kind = "plain"]

\* A change of what is displayed: the redraw is owed (2), or done at once (-1).
Owed(s) == IF s.resetState > 0 THEN 2 ELSE -1

DisplaysSilently(s, shown) == [s EXCEPT !.onCommand = shown]
DisplaySegment(s, shown) ==
  IF s.onCommand = shown THEN s ELSE [s EXCEPT !.onCommand = shown, !.resetState = 2]

MarkPart(s, hook) ==
  IF hook = "keep" \/ s.part = hook THEN s
  ELSE [s EXCEPT !.part = hook, !.resetState = Owed(s)]

\* _p9k_on_expand is the first thing in PROMPT: what it displays and hides is
\* seen by the rest of the same expansion.
OnExpandInZle(s) ==
  IF s.phase # "zle" THEN s
  ELSE MarkPart(DisplaySegment(s, AsShown(s.lastCommands)), config.onPostWidget)

OnExpand(s) ==
  IF s.expanded THEN s
  ELSE [OnExpandInZle(MarkPart(DisplaySegment([s EXCEPT !.resetState = 1, !.expanded = TRUE],
                                              "hide"),
                               config.onPrePrompt))
          EXCEPT !.resetState = 0]

DrawFull(s) == [s EXCEPT !.screen = Full(s)]
Draw(s) == IF s.enabled THEN DrawFull(OnExpand(s)) ELSE [s EXCEPT !.screen = Plain(s)]

AlwaysResets(s) == s.phase = "zle"
MayReset(s) == s.resetState # 1 /\ s.phase = "zle" /\ s.finished # "done"
ResetPrompt(s) ==
  IF MayReset(s) THEN Draw([s EXCEPT !.resetState = 0]) ELSE s
ResetTransient(s) ==
  IF MayReset(s) THEN [s EXCEPT !.resetState = 0, !.screen = Trimmed(s)] ELSE s

ResetIf(s, owed) == IF s.resetState = owed THEN ResetPrompt(s) ELSE s

\* p10k display
Display(s, hook) == IF hook = "keep" THEN s ELSE ResetIf(MarkPart(s, hook), -1)

-----------------------------------------------------------------------------
(* The hooks of the line editor.                                           *)
ForgetsToRestore(s) == [s EXCEPT !.restoreFd = FALSE, !.mustRestore = FALSE]
PutBack(s) ==
  ResetPrompt([SetPrompt([s EXCEPT !.mustRestore = FALSE, !.finished = "unset"])
                 EXCEPT !.expanded = FALSE])
RestorePrompt(s) ==
  IF s.mustRestore THEN PutBack([s EXCEPT !.restoreFd = FALSE]) ELSE [s EXCEPT !.restoreFd = FALSE]

Optimized(s) ==
  \/ config.transient = "always"
  \/ config.transient = "same-dir" /\ s.cwd = s.lastPwd

\* _p9k_on_widget_zle-line-finish; "int": the line is interrupted.
KeepsWayBack(s, how) ==
  IF how = "int" THEN [s EXCEPT !.mustRestore = TRUE, !.restoreFd = TRUE] ELSE s
RecordPwd(s) == IF config.transient = "off" THEN s ELSE [s EXCEPT !.lastPwd = s.cwd]

TrimPrompt(s, how) ==
  IF Optimized(s) THEN ResetTransient([KeepsWayBack(s, how) EXCEPT !.resetState = 2])
  ELSE ResetIf(KeepsWayBack(RecordPwd(s), how), 2)

LineFinish(s, how) ==
  IF s.finished # "unset" THEN s
  ELSE [TrimPrompt(Display([s EXCEPT !.finished = "now",
                                     !.resetState = IF config.timeOnFinish THEN 2 ELSE @],
                           config.onPostPrompt),
                   how)
          EXCEPT !.finished = "done"]

OnWidget(s, widget) ==
  CASE widget = "zle-line-finish"   -> LineFinish(s, "")
    [] widget = "send-break"        -> LineFinish(s, "int")
    [] widget = "zle-keymap-select" -> [s EXCEPT !.resetState = 2]
    [] OTHER                        -> s

NeverParses(s) == s
ParseBuffer(s) ==
  IF s.lastBuffer = s.buffer THEN s
  ELSE [s EXCEPT !.lastBuffer = s.buffer, !.lastCommands = Matches(s.buffer)]

ClearScreen(s, widget) ==
  IF widget = "clear-screen" THEN ResetPrompt([s EXCEPT !.expanded = FALSE]) ELSE s
ShowForLine(s) ==
  MarkPart(DisplaySegment([s EXCEPT !.resetState = 1], AsShown(s.lastCommands)),
           config.onPostWidget)
RestoreIfOwed(s) == IF s.restoreFd THEN RestorePrompt(s) ELSE s

RunHook(s, widget) ==
  [ResetIf(OnWidget(ShowForLine(ClearScreen(RestoreIfOwed(ParseBuffer(s)), widget)), widget), 2)
     EXCEPT !.resetState = 0]

Descheduled(s) == [s EXCEPT !.redrawFd = FALSE]
WidgetHook(s, widget) ==
  IF ~s.enabled THEN s
  ELSE IF s.menu THEN Descheduled(s)
  ELSE RunHook(Descheduled(s), widget)

\* zle-line-pre-redraw: while there are keys to be read the hook is put off.
PreRedraw(s) ==
  IF ~s.enabled \/ s.menu THEN s
  ELSE IF s.pending THEN [s EXCEPT !.redrawFd = TRUE]
  ELSE WidgetHook(s, "zle-line-pre-redraw")

-----------------------------------------------------------------------------
(* Between two lines.                                                      *)

\* _p9k_deinit unsets the parameters and closes the descriptors.
Deinit(s) ==
  [s EXCEPT !.restoreFd = FALSE, !.redrawFd = FALSE, !.mustRestore = FALSE,
            !.finished = "unset", !.expanded = FALSE, !.lastShown = FALSE,
            !.lastPwd = NoDir, !.lastBuffer = EmptyLine, !.lastCommands = FALSE,
            !.part = "show", !.onCommand = "show"]

\* A reply that changes what is compiled into PROMPT.
ReceiveBuilt(s) == ResetPrompt(SetPrompt(s))

\* The part of precmd that is the same before a line and within one.  Until it
\* ends the reset state is 1, so a reply of the worker is built in, not drawn.
BuildPrompt(s, replied) ==
  LET b == SetPrompt([s EXCEPT !.resetState = 1, !.expanded = FALSE])
  IN  [IF replied THEN ReceiveBuilt(b) ELSE b EXCEPT !.resetState = 0]

NewLine(s) == [s EXCEPT !.mustRestore = FALSE, !.finished = "unset", !.phase = "built"]

\* A command has changed the directory, failed or not; the answers that came
\* in meanwhile are known; POWERLEVEL9K parameters may be different (hot).
Precmd ==
  /\ sh.phase = "command" /\ sh.enabled
  /\ \E d \in Dir, failed, hot, replied \in BOOLEAN, b, l \in Value :
       sh' = BuildPrompt([NewLine(IF hot THEN Deinit(sh) ELSE sh)
                            EXCEPT !.cwd = d, !.status = failed, !.built = b, !.live = l],
                         replied)
  /\ UNCHANGED config

\* zsh expands PROMPT before the line editor is active, then calls its hook.
\* The line may begin with something in it (print -z, push-line).
ShowPrompt ==
  /\ \/ sh.phase = "built"
     \/ sh.phase = "command" /\ ~sh.enabled
  /\ \E b \in Buffer :
       sh' = WidgetHook([Draw(sh) EXCEPT !.phase = "zle", !.buffer = b, !.pending = FALSE],
                        "zle-line-init")
  /\ UNCHANGED config

\* p10k display on the command line, or in a function run by one.
DisplayInCommand ==
  /\ sh.phase = "command" /\ sh.enabled
  /\ \E h \in Shown : sh' = Display(sh, h)
  /\ UNCHANGED config

\* prompt_powerlevel9k_teardown and _setup: another theme, or plugin unload.
Teardown ==
  /\ sh.phase = "command" /\ sh.enabled
  /\ sh' = [Deinit(sh) EXCEPT !.enabled = FALSE]
  /\ UNCHANGED config

Setup ==
  /\ sh.phase = "command" /\ ~sh.enabled
  /\ sh' = [sh EXCEPT !.enabled = TRUE]
  /\ UNCHANGED config

-----------------------------------------------------------------------------
(* While a line is edited.                                                 *)
InZle == sh.phase = "zle" /\ UNCHANGED config

\* A widget that changes the line; more keys may have been typed already.
Key ==
  /\ InZle /\ \E b \in Buffer, more \in BOOLEAN :
       sh' = PreRedraw([sh EXCEPT !.buffer = b, !.pending = more])

\* Completion shows its menu; it goes away with a key that is not for it.
EnterMenu == InZle /\ ~sh.menu /\ sh' = [sh EXCEPT !.menu = TRUE]
LeaveMenu ==
  /\ InZle /\ sh.menu /\ \E b \in Buffer :
       sh' = PreRedraw([sh EXCEPT !.menu = FALSE, !.buffer = b])

Redraw == InZle /\ sh.redrawFd /\ sh' = WidgetHook(sh, "")

HookedWidget ==
  /\ InZle /\ ~sh.menu /\ \E w \in {"clear-screen", "zle-keymap-select"} :
       sh' = WidgetHook(sh, w)

\* A widget of the user's that calls p10k display.
DisplayInWidget ==
  /\ InZle /\ sh.enabled /\ ~sh.menu /\ \E h \in Shown : sh' = PreRedraw(Display(sh, h))

\* A widget of another plugin that changes the directory, calls the functions
\* of precmd and then has the prompt drawn.
ChangeDir ==
  /\ InZle /\ sh.enabled /\ ~sh.menu /\ \E d \in Dir, replied \in BOOLEAN :
       sh' = PreRedraw(Draw(BuildPrompt([sh EXCEPT !.cwd = d], replied)))

\* gitstatus (_p9k_vcs_resume), or the worker with reset=1: read when expanded.
LiveReply ==
  /\ InZle /\ sh.enabled /\ \E v \in Value : sh' = ResetPrompt([sh EXCEPT !.live = v])

\* The worker with reset=2, or gitstatus for a vcs segment shown twice.
BuiltReply ==
  /\ InZle /\ sh.enabled
  /\ \E v \in Value : sh' = ReceiveBuilt([sh EXCEPT !.built = v])

\* SIGWINCH
Resize == InZle /\ sh' = ResetPrompt([sh EXCEPT !.expanded = FALSE])

-----------------------------------------------------------------------------
(* The end of a line.                                                      *)

\* SIGINT: the trap is run.  It ends the line, or only what a widget was doing.
Interrupt ==
  /\ InZle /\ sh.enabled
  /\ sh' = LineFinish(Descheduled(sh), "int")

SendBreak == InZle /\ ~sh.menu /\ sh' = WidgetHook(sh, "send-break")

Restore == InZle /\ sh.restoreFd /\ sh' = RestorePrompt(sh)

Over(s) == [s EXCEPT !.phase = "command", !.buffer = EmptyLine, !.pending = FALSE, !.menu = FALSE]

LineAborted == InZle /\ (sh.mustRestore \/ ~sh.enabled) /\ sh' = Over(sh)

AcceptLine ==
  /\ InZle /\ sh' = Over(WidgetHook([sh EXCEPT !.menu = FALSE], "zle-line-finish"))

Init ==
  /\ config \in Config
  /\ \E d \in Dir, v \in Value :
       sh = [phase |-> "command", enabled |-> TRUE, cwd |-> d, status |-> FALSE,
             built |-> v, live |-> v, prompt |-> [built |-> v, error |-> FALSE],
             lastShown |-> FALSE, expanded |-> FALSE, resetState |-> 0, finished |-> "unset",
             mustRestore |-> FALSE, restoreFd |-> FALSE, redrawFd |-> FALSE,
             part |-> "show", onCommand |-> "show", lastPwd |-> NoDir,
             buffer |-> EmptyLine, pending |-> FALSE, menu |-> FALSE,
             lastBuffer |-> EmptyLine, lastCommands |-> FALSE,
             screen |-> [kind |-> "plain", built |-> v, live |-> v, error |-> FALSE,
                         part |-> "show", onCommand |-> "show"]]

Next ==
  \/ Precmd \/ ShowPrompt \/ DisplayInCommand \/ Teardown \/ Setup
  \/ Key \/ EnterMenu \/ LeaveMenu \/ Redraw \/ HookedWidget \/ DisplayInWidget
  \/ ChangeDir \/ LiveReply \/ BuiltReply \/ Resize
  \/ Interrupt \/ SendBreak \/ Restore \/ LineAborted \/ AcceptLine

Spec == Init /\ [][Next]_vars

-----------------------------------------------------------------------------
\* zle waits for a key and nothing else is on its way.
AtRest ==
  /\ sh.phase = "zle" /\ sh.enabled
  /\ ~sh.redrawFd /\ ~sh.restoreFd /\ ~sh.menu /\ ~sh.pending

(* No redraw is lost: when the line editor is at rest, the screen shows    *)
(* what PROMPT expands to, with the latest answers and every part that was *)
(* last displayed or hidden, however redraws were blocked meanwhile.       *)
ScreenIsCurrent ==
  AtRest => sh.screen = Full(sh) /\ sh.prompt.built = sh.built

(* A segment with SHOW_ON_COMMAND is on the screen just while the line has *)
(* one of its commands, whatever was skipped while keys were pending or a  *)
(* menu was shown.                                                         *)
OnCommandFollowsLine == AtRest => sh.onCommand = AsShown(Matches(sh.buffer))

(* Once a line is over p10k does not draw on it: late answers, resizes,    *)
(* keys and hooks leave the screen alone until the prompt is put back or a *)
(* new line begins.  Two steps put it back first and then end the line     *)
(* once more; in one a plugin draws the prompt itself.                     *)
FinishedStays ==
  [][sh.finished = "done" /\ sh'.finished = "done"
       /\ ~(sh.mustRestore /\ (SendBreak \/ AcceptLine)) /\ ~ChangeDir
     => sh'.screen = sh.screen]_vars

(* A line that is being edited has a trimmed prompt only until zle sees    *)
(* the descriptor that puts it back: an interrupt that does not end the    *)
(* line leaves the prompt finished only for a while.                       *)
PromptComesBack ==
  /\ TypeOK
  /\ sh.phase = "zle" /\ sh.finished = "done" => sh.restoreFd /\ sh.mustRestore
=============================================================================
