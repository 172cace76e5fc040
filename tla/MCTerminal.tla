----------------------------- MODULE MCTerminal -----------------------------
(* The parts of the terminal UI, each checked by itself: a behaviour is one  *)
(* of the part that which names, and the others stand still.                 *)
EXTENDS Integers, Sequences

CONSTANTS MaxTyped, Lines, MaxLines, Heights, MaxOther, Editor, Dialog, Overlay, Passive, Wide,
          Typed, MaxKeys, MaxAsked,
          MaxSubmitted, MaxSaid, MaxCalls, MaxText, MaxClears, MaxRetries, MaxSum

VARIABLES
  which,
  typed, answers, wire, inside, broken, stdin, neg, held, timers, flags, depth, modify, handler, received,
  content, overlay, size, screen, ui, shrink, requested, timer, calls, stopped, spent,
  f, wide,
  text, undos, ring, last, jump, list, requests, token, current, before, keys,
  parts, submitted, loop, ended, run, retrying, sleeper, retries, replied, moved, said, toolCalls, epoch

(* What is pasted into the editor, and what is put into it: nothing, or a    *)
(* draft with something to complete in both lines.                           *)
SomePasted == {<< <<"a">>, <<"@">> >>}
SomeDrafts == {<< <<>> >>, << <<"a", " ", "@">>, <<"/", "a">> >>}

Input == INSTANCE TerminalInput
Rendering == INSTANCE Renderer
Focusing == INSTANCE Overlays
Writing == INSTANCE Editor WITH Pasted <- SomePasted, Drafts <- SomeDrafts
Chatting == INSTANCE Interactive
              WITH MaxTyped <- MaxSubmitted, screen <- parts, lines <- submitted,
                   stopped <- ended, calls <- toolCalls

inputVars == <<typed, answers, wire, inside, broken, stdin, neg, held, timers, flags, depth, modify,
               handler, received>>
renderVars == <<content, overlay, size, screen, ui, shrink, requested, timer, calls, stopped, spent>>
focusVars == <<f, wide>>
editorVars == <<text, undos, ring, last, jump, list, requests, token, current, before, keys>>
chatVars == <<parts, submitted, loop, ended, run, retrying, sleeper, retries, replied, moved, said, toolCalls, epoch>>
vars == <<which, inputVars, renderVars, focusVars, editorVars, chatVars>>

NoInput ==
  /\ typed = 0 /\ answers = 0 /\ wire = 0 /\ inside = 0 /\ broken = 0 /\ stdin = 0 /\ neg = 0
  /\ held = 0 /\ timers = 0 /\ flags = 0 /\ depth = 0 /\ modify = 0 /\ handler = 0 /\ received = 0
NoRendering ==
  /\ content = 0 /\ overlay = 0 /\ size = 0 /\ screen = 0 /\ ui = 0 /\ shrink = 0
  /\ requested = 0 /\ timer = 0 /\ calls = 0 /\ stopped = 0 /\ spent = 0
NoFocusing == f = 0 /\ wide = 0
NoEditor ==
  /\ text = 0 /\ undos = 0 /\ ring = 0 /\ last = 0 /\ jump = 0 /\ list = 0
  /\ requests = 0 /\ token = 0 /\ current = 0 /\ before = 0 /\ keys = 0
NoChat ==
  /\ parts = 0 /\ submitted = 0 /\ loop = 0 /\ ended = 0 /\ run = 0 /\ retrying = 0
  /\ sleeper = 0 /\ retries = 0 /\ replied = 0 /\ moved = 0 /\ said = 0 /\ toolCalls = 0 /\ epoch = 0

Init ==
  \/ which = "input" /\ Input!Init /\ NoRendering /\ NoFocusing /\ NoEditor /\ NoChat
  \/ which = "renderer" /\ NoInput /\ Rendering!Init /\ NoFocusing /\ NoEditor /\ NoChat
  \/ which = "overlays" /\ NoInput /\ NoRendering /\ Focusing!Init /\ NoEditor /\ NoChat
  \/ which = "editor" /\ NoInput /\ NoRendering /\ NoFocusing /\ Writing!Init /\ NoChat
  \/ which = "chat" /\ NoInput /\ NoRendering /\ NoFocusing /\ NoEditor /\ Chatting!Init

InputStep ==
  which = "input" /\ Input!Next /\ UNCHANGED <<which, renderVars, focusVars, editorVars, chatVars>>
RenderStep ==
  which = "renderer" /\ Rendering!Next /\ UNCHANGED <<which, inputVars, focusVars, editorVars, chatVars>>
FocusStep ==
  which = "overlays" /\ Focusing!Next /\ UNCHANGED <<which, inputVars, renderVars, editorVars, chatVars>>
EditorStep ==
  which = "editor" /\ Writing!Next /\ UNCHANGED <<which, inputVars, renderVars, focusVars, chatVars>>
ChatStep ==
  which = "chat" /\ Chatting!Next /\ UNCHANGED <<which, inputVars, renderVars, focusVars, editorVars>>

Next == InputStep \/ RenderStep \/ FocusStep \/ EditorStep \/ ChatStep

Spec == Init /\ [][Next]_vars

(* What is typed arrives, whole, once and in order, but for what a read or a *)
(* timer has cut, and no answer of the terminal does; and a terminal is left *)
(* as it was found. (StdinBuffer.process, ProcessTerminal._on_readable,      *)
(* _on_buffer_data, drainInput, stop)                                        *)
InputIsReceived == which = "input" => Input!KeysArrive /\ Input!PiecesArrive /\ Input!ModesUndone

(* After a render the terminal's rows show the end of the frame, whichever   *)
(* way of rendering was taken, and the shell's prompt comes below what the   *)
(* stopped TUI leaves; whoever asked for a render has one coming.            *)
(* (TUI.do_render, stop, request_render)                                     *)
FrameIsShown == which = "renderer" => Rendering!ScreenShowsFrame /\ Rendering!RenderIsComing

(* No key is for an overlay that is not to be seen, and when the last one is *)
(* gone, a component of the tree has the keys. (TUI.handle_input,            *)
(* hide_overlay)                                                             *)
FocusIsShown == which = "overlays" => Focusing!KeysGoToShown /\ Focusing!FocusComesBack

(* What a row of kills took out of the editor, a yank puts back, and the     *)
(* completions that show are of the text there is. (Editor._kill_ring,       *)
(* _yank_pop, _request_autocomplete)                                         *)
EditorIsTrue == which = "editor" => Writing!KilledTextComesBack /\ Writing!ListIsOfText

(* The chat shows what was said, the status line what is done, and every     *)
(* submitted line is handled once. (InteractiveMode._handle_session_event,   *)
(* run)                                                                      *)
ChatIsTrue ==
  which = "chat" =>
    Chatting!ChatShowsConversation /\ Chatting!StatusTells /\ Chatting!LinesAreHandled
=============================================================================
