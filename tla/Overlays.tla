------------------------------ MODULE Overlays ------------------------------
(* Which component gets the keys: the stack of overlays of tui/tui.py and    *)
(* the focus that it keeps, gives away and takes back.                       *)
(*                                                                           *)
(* An overlay stands for its component and its OverlayStackEntry. No handle  *)
(* of one exists: show_overlay ends in an exception, when it calls           *)
(* OverlayHandle, a Protocol, to make it. What the handle would do (hide,    *)
(* set_hidden, focus, unfocus) nobody can ask for; hide_overlay takes the    *)
(* last overlay off.                                                         *)
EXTENDS Sequences, FiniteSets, SequencesExt

CONSTANTS
  Editor, Dialog,  \* components outside of overlays
  Overlay,         \* overlays, shown once at a time each
  Passive,         \* those that are non_capturing
  Wide             \* those that are visible on a wide terminal only

Base == {Editor, Dialog}
Nobody == "nobody"

VARIABLES
  f,       \* focused_component, overlay_focus_restore, overlay_stack, pre_focus of each
  wide     \* the terminal is wide

vars == <<f, wide>>

Inactive == [status |-> "inactive"]
Eligible(o) == [status |-> "eligible", overlay |-> o]
Blocked(o, by) == [status |-> "blocked", overlay |-> o, by |-> by]  \* resume: restore-overlay

-----------------------------------------------------------------------------
Shown(g) == {g.stack[i] : i \in DOMAIN g.stack}

(* _is_overlay_visible, of an overlay in the stack.                          *)
Visible(g, o) == o \in Shown(g) /\ (o \in Wide => wide)

(* _get_topmost_visible_overlay                                              *)
Topmost(g) ==
  LET seen == SelectSeq(g.stack, LAMBDA o : Visible(g, o) /\ o \notin Passive)
  IN  IF seen = <<>> THEN Nobody ELSE Last(seen)

(* _get_visible_overlay_focus_restore                                        *)
Restorable(g) ==
  IF g.restore # Inactive /\ Visible(g, g.restore.overlay) THEN g.restore ELSE Inactive

(* _clear_overlay_focus_restore_for                                          *)
ClearFor(g, o) ==
  IF g.restore # Inactive /\ g.restore.overlay = o THEN [g EXCEPT !.restore = Inactive] ELSE g

(* _is_overlay_focus_ancestor                                                *)
Ancestors(g, o) ==
  LET up[n \in 0..Cardinality(Overlay)] ==
        IF n = 0 THEN {g.pre[o]}
        ELSE up[n - 1] \cup {g.pre[p] : p \in up[n - 1] \cap Shown(g)}
  IN  up[Cardinality(Overlay)]

(* _set_focus_internal: the component that an overlay gave the focus to      *)
(* gives it back, to whomever it passes it.                                  *)
Focus(g, c) ==
  LET r == Restorable(g)
      passes == c \in Base /\ r.status = "blocked" /\ r.by = g.focused
      blocks == /\ c \in Base /\ ~passes
                /\ Visible(g, g.focused) /\ r = Eligible(g.focused)
                /\ c \notin Ancestors(g, g.focused)
      next == IF passes THEN r.overlay ELSE c
      focused == [g EXCEPT !.focused = next,
                           !.restore = IF blocks THEN Blocked(g.focused, c) ELSE @]
  IN  IF Visible(g, next) THEN [focused EXCEPT !.restore = Eligible(next)] ELSE focused

(* handle_input, up to the component that the key is for.                    *)
Mut_Redirect(g) ==
  IF g.focused \in Shown(g) /\ ~Visible(g, g.focused) /\ Topmost(g) # Nobody
    THEN Focus(g, Topmost(g)) ELSE g

Redirect(g) ==
  IF g.focused \in Shown(g) /\ ~Visible(g, g.focused)
    THEN Focus(g, IF Topmost(g) # Nobody THEN Topmost(g) ELSE g.pre[g.focused])
    ELSE g

TakeBack(g) ==
  LET r == Restorable(g)
  IN  IF g.focused \in Shown(g) \/ r = Inactive \/ (r.status = "blocked" /\ r.by = g.focused)
        THEN g ELSE Focus(g, r.overlay)

-----------------------------------------------------------------------------
Init ==
  /\ f = [focused |-> Editor, restore |-> Inactive, stack |-> <<>>,
          pre |-> [o \in Overlay |-> Nobody]]
  /\ wide \in BOOLEAN

(* show_overlay: it raises when this is done.                                *)
Show(o) ==
  /\ o \notin Shown(f)
  /\ LET g == [f EXCEPT !.stack = Append(@, o), !.pre[o] = f.focused]
     IN  f' = IF o \notin Passive /\ Visible(g, o) THEN Focus(g, o) ELSE g
  /\ UNCHANGED wide

(* hide_overlay: the last one is taken off, and those that would give focus  *)
(* back to it give it to whom it would have.                                 *)
HideOverlay ==
  /\ f.stack # <<>>
  /\ LET o == Last(f.stack)
         off == [ClearFor(f, o) EXCEPT
                   !.stack = Front(@),
                   !.pre = [p \in Overlay |->
                              IF p \in Shown(f) \ {o} /\ @[p] = o THEN @[o] ELSE @[p]]]
         left == IF f.focused # o THEN off
                 ELSE Focus(off, IF Topmost(off) # Nobody THEN Topmost(off) ELSE off.pre[o])
     IN  f' = [left EXCEPT !.pre[o] = Nobody]
  /\ UNCHANGED wide

(* set_focus, by what shows a dialog in the tree, or takes it off, and by a  *)
(* selector in an overlay when it closes: it has no handle to hide.          *)
SetFocus(c) ==
  /\ f' = Focus(f, c)
  /\ UNCHANGED wide

ResizeTerminal ==
  /\ wide' = ~wide
  /\ UNCHANGED f

HandleInput ==
  /\ f' = TakeBack(Redirect(f))
  /\ UNCHANGED wide

Next ==
  \/ \E o \in Overlay : Show(o)
  \/ HideOverlay \/ ResizeTerminal \/ HandleInput
  \/ \E c \in Base : SetFocus(c)

Spec == Init /\ [][Next]_vars

-----------------------------------------------------------------------------
(* Overlays are shown, closed and taken off, a dialog takes focus from them  *)
(* and the terminal may become too narrow for one: no key is for an overlay  *)
(* that is not to be seen.                                                   *)
(* (handle_input, _set_focus_internal)                                       *)
KeysGoToShown ==
  LET g == TakeBack(Redirect(f)) IN g.focused \in Base \/ Visible(g, g.focused)

(* When the last overlay is gone, a component of the tree has the keys.      *)
(* (hide_overlay, _retarget_overlay_pre_focus)                               *)
FocusComesBack == f.stack = <<>> => f.focused \in Base
=============================================================================
