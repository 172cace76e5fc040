------------------------------ MODULE Renderer ------------------------------
(* The differential renderer of tui/tui.py: when a render is asked for and   *)
(* when it comes, and what it writes to a terminal that scrolls and whose    *)
(* cursor stops at the edges of the screen.                                  *)
(*                                                                           *)
(* Lines are whole: "" is an empty row, "shell" a row that was there before, *)
(* "mixed" one with the rests of several. Rows and lines count from 0, as in *)
(* the code. Lines fit the terminal's width (but see Overflow), and hold no  *)
(* images; Termux, where a new height is no reason to draw anew, is left out.*)
EXTENDS Integers, Sequences, FiniteSetsExt, SequencesExt

CONSTANTS
  Lines,       \* what components render
  MaxLines,    \* bound on the lines of a frame
  Heights,     \* of the terminal
  MaxOther     \* bound on the resizes, forced renders and overlay changes

VARIABLES
  content,    \* the lines that the components render now
  overlay,    \* whether an overlay is shown, in the first row of the viewport
  size,       \* [w, h] of the terminal
  screen,     \* rows of the terminal, and the row its cursor is in
  ui,         \* previous_lines, _width, _height, _viewport_top; hardware_cursor_row, max_lines_rendered
  shrink,     \* clear_on_shrink
  requested,  \* render_requested
  timer,      \* render_timer is set
  calls,      \* calls that the event loop has to make: "schedule", "now", and of the timer
  stopped,
  spent       \* of the bound MaxOther

vars == <<content, overlay, size, screen, ui, shrink, requested, timer, calls, stopped, spent>>

-----------------------------------------------------------------------------
(* The terminal.                                                             *)
Height(s) == Cardinality(DOMAIN s.rows)
Blank(h) == [rows |-> [r \in 0..(h - 1) |-> ""], row |-> 0]

Move(s, by) == [s EXCEPT !.row = Max({0, Min({@ + by, Height(s) - 1})})]
Feed(s) ==
  IF s.row < Height(s) - 1 THEN Move(s, 1)
  ELSE [s EXCEPT !.rows = [r \in DOMAIN s.rows |-> IF r < s.row THEN s.rows[r + 1] ELSE ""]]
Erase(s) == [s EXCEPT !.rows[s.row] = ""]
Put(s, line) == [s EXCEPT !.rows[s.row] = IF @ \in {"", line} THEN line ELSE "mixed"]

Times(n, Op(_), s) == FoldLeft(LAMBDA x, i : Op(x), s, [i \in 1..n |-> i])

(* Container.render and composite_overlays.                                  *)
Frame ==
  LET padded == content \o [i \in 1..Max({0, size.h - Len(content)}) |-> ""]
      filled == [i \in DOMAIN padded |-> IF padded[i] = "" THEN "blank" ELSE padded[i]]
  IN  IF overlay THEN [filled EXCEPT ![Len(filled) - size.h + 1] = "over"] ELSE content

(* _position_hardware_cursor: c is the row with the marker, -1 without one.  *)
Position(s, u, c, n) ==
  LET target == Max({0, Min({c, n - 1})})
  IN  IF c < 0 THEN [screen |-> s, ui |-> u]
      ELSE [screen |-> Move(s, target - u.row), ui |-> [u EXCEPT !.row = target]]

Remember(u, new) == [u EXCEPT !.lines = new, !.w = size.w, !.h = size.h]

FullRender(s, u, new, c, clear) ==
  LET start == IF clear THEN Blank(size.h) ELSE s
      drawn == FoldLeft(LAMBDA x, i : Put(IF i = 1 THEN x ELSE Feed(x), new[i]),
                        start, [i \in 1..Len(new) |-> i])
  IN  Position(drawn,
               [Remember(u, new) EXCEPT
                  !.row = Max({0, Len(new) - 1}),
                  !.max = IF clear THEN Len(new) ELSE Max({@, Len(new)}),
                  !.top = Max({0, Len(new) - size.h})],
               c, Len(new))

At(lines, i) == IF i < Len(lines) THEN lines[i + 1] ELSE ""
Changed(u, new) ==
  {i \in 0..(Max({Len(u.lines), Len(new)}) - 1) : At(u.lines, i) # At(new, i)}

(* Only lines at the end are gone.                                           *)
DeleteRender(s, u, new, c) ==
  LET extra == Len(u.lines) - Len(new)
      target == Max({0, Len(new) - 1})
      below == Move(Move(s, target - u.row), 1)
      erased == FoldLeft(LAMBDA x, i : Erase(IF i = 1 THEN x ELSE Move(x, 1)),
                         below, [i \in 1..extra |-> i])
  IN  IF target < u.top \/ extra > size.h THEN FullRender(s, u, new, c, TRUE)
      ELSE Position(Move(erased, -extra), [Remember(u, new) EXCEPT !.row = target], c, Len(new))

(* From the first line that changed to the last one. What was drawn ends in  *)
(* the viewport, so that the first change is never below it, and the branch  *)
(* that scrolls down to it not taken.                                        *)
Mut_ChangeRender(s, u, new, c) ==
  LET first == Min(Changed(u, new))
      appended == Len(new) > Len(u.lines)
      last == IF appended THEN Len(new) - 1 ELSE Min({Max(Changed(u, new)), Len(new) - 1})
      there == Move(s, first - u.row)
      written == FoldLeft(LAMBDA x, i : Put(Erase(IF i = first THEN x ELSE Feed(x)), new[i + 1]),
                          there, [i \in 1..(last - first + 1) |-> first + i - 1])
      extra == Len(u.lines) - Len(new)
      end == IF extra > 0 THEN Len(new) - 1 ELSE last
      cleared == Move(Times(extra, LAMBDA x : Erase(Feed(x)), Move(written, end - last)), -extra)
  IN  Position(IF extra > 0 THEN cleared ELSE written,
               [Remember(u, new) EXCEPT !.row = end,
                  !.max = Max({@, Len(new)}), !.top = Max({@, end - size.h + 1})],
               c, Len(new))

ChangeRender(s, u, new, c) ==
  LET first == Min(Changed(u, new))
      appended == Len(new) > Len(u.lines)
      last == IF appended THEN Len(new) - 1 ELSE Min({Max(Changed(u, new)), Len(new) - 1})
      after == appended /\ first = Len(u.lines) /\ first > 0
      there == IF after THEN Feed(Move(s, first - 1 - u.row)) ELSE Move(s, first - u.row)
      written == FoldLeft(LAMBDA x, i : Put(Erase(IF i = first THEN x ELSE Feed(x)), new[i + 1]),
                          there, [i \in 1..(last - first + 1) |-> first + i - 1])
      extra == Len(u.lines) - Len(new)
      end == IF extra > 0 THEN Len(new) - 1 ELSE last
      cleared == Move(Times(extra, LAMBDA x : Erase(Feed(x)), Move(written, end - last)), -extra)
  IN  Position(IF extra > 0 THEN cleared ELSE written,
               [Remember(u, new) EXCEPT !.row = end,
                  !.max = Max({@, Len(new)}), !.top = Max({@, end - size.h + 1})],
               c, Len(new))

(* do_render                                                                 *)
DoRender(s, u, new, c) ==
  LET widthChanged == u.w # 0 /\ u.w # size.w
      heightChanged == u.h # 0 /\ u.h # size.h
      changed == Changed(u, new)
  IN  IF u.lines = <<>> /\ ~widthChanged /\ ~heightChanged THEN FullRender(s, u, new, c, FALSE)
      ELSE IF widthChanged \/ heightChanged THEN FullRender(s, u, new, c, TRUE)
      ELSE IF shrink /\ Len(new) < u.max /\ ~overlay THEN FullRender(s, u, new, c, TRUE)
      ELSE IF changed = {} THEN Position(s, u, c, Len(new))
      ELSE IF Min(changed) >= Len(new) THEN DeleteRender(s, u, new, c)
      ELSE IF Min(changed) < u.top THEN FullRender(s, u, new, c, TRUE)
      ELSE ChangeRender(s, u, new, c)

-----------------------------------------------------------------------------
Frames == BoundedSeq(Lines, MaxLines)

Init ==
  /\ content \in Frames /\ Len(content) = 1
  /\ overlay = FALSE /\ shrink \in BOOLEAN
  /\ size \in [w : {1}, h : Heights]
  /\ screen \in {[rows |-> [r \in 0..(size.h - 1) |-> IF r < at THEN "shell" ELSE ""], row |-> at]
                   : at \in 0..(size.h - 1)}
  /\ ui = [lines |-> <<>>, w |-> 0, h |-> 0, top |-> 0, row |-> 0, max |-> 0]
  /\ requested = TRUE /\ timer = FALSE /\ calls = [schedule |-> 1, now |-> 0, timer |-> 0]
  /\ stopped = FALSE /\ spent = 0

(* request_render, of what changes outside of a render.                      *)
RequestRender ==
  /\ requested' = TRUE
  /\ calls' = IF requested THEN calls ELSE [calls EXCEPT !.schedule = @ + 1]
  /\ UNCHANGED <<screen, ui, shrink, timer, stopped>>

(* What changes before the render comes is one change. There is always some  *)
(* line, but with clear_on_shrink: else the first row would stay.            *)
Change(lines) ==
  /\ ~stopped /\ ~requested /\ lines # content /\ (lines = <<>> => shrink)
  /\ content' = lines
  /\ RequestRender
  /\ UNCHANGED <<overlay, size, spent>>

ToggleOverlay ==
  /\ ~stopped /\ spent < MaxOther
  /\ overlay' = ~overlay
  /\ spent' = spent + 1
  /\ RequestRender
  /\ UNCHANGED <<content, size>>

(* Something was drawn; the rows and the cursor are anywhere until all is     *)
(* drawn anew.                                                               *)
Resize(w, h) ==
  /\ ~stopped /\ ui.w # 0 /\ spent < MaxOther /\ <<w, h>> # <<size.w, size.h>>
  /\ size' = [w |-> w, h |-> h]
  /\ requested' = TRUE
  /\ calls' = IF requested THEN calls ELSE [calls EXCEPT !.schedule = @ + 1]
  /\ screen' = [rows |-> [r \in 0..(h - 1) |-> "mixed"], row |-> h - 1]
  /\ spent' = spent + 1
  /\ UNCHANGED <<content, overlay, ui, shrink, timer, stopped>>

(* request_render(force=True)                                                *)
Force ==
  /\ ~stopped /\ spent < MaxOther
  /\ ui' = [lines |-> <<>>, w |-> -1, h |-> -1, top |-> 0, row |-> 0, max |-> 0]
  /\ timer' = FALSE /\ requested' = TRUE
  /\ calls' = [calls EXCEPT !.now = @ + 1, !.timer = IF timer THEN @ - 1 ELSE @]
  /\ spent' = spent + 1
  /\ UNCHANGED <<content, overlay, size, screen, shrink, stopped>>

(* _schedule_render                                                          *)
ScheduleRender ==
  /\ calls.schedule > 0
  /\ LET set == ~stopped /\ ~timer /\ requested IN
       /\ timer' = (timer \/ set)
       /\ calls' = [calls EXCEPT !.schedule = @ - 1, !.timer = IF set THEN @ + 1 ELSE @]
  /\ UNCHANGED <<content, overlay, size, screen, ui, shrink, requested, stopped, spent>>

Called(by) == [calls EXCEPT ![by] = @ - 1]

(* _do_render_now, when there is nothing to do. It forgets the timer that is *)
(* set, even if that is not the one that calls it.                           *)
NothingToRender(by) ==
  /\ calls[by] > 0 /\ (stopped \/ ~requested)
  /\ timer' = FALSE /\ calls' = Called(by)
  /\ UNCHANGED <<content, overlay, size, screen, ui, shrink, requested, stopped, spent>>

(* _do_render_now: what is rendered may ask for another render meanwhile. A  *)
(* marker is in a row that the terminal shows. Of the calls to schedule that *)
(* were made before, at most one is still to come.                           *)
Render(by, again) ==
  /\ calls[by] > 0 /\ calls.schedule <= 1 /\ ~stopped /\ requested
  /\ \E c \in {-1} \cup Max({0, Len(Frame) - size.h})..(Len(Frame) - 1) :
       LET r == DoRender(screen, ui, Frame, c) IN
         /\ c >= 0 => c >= r.ui.top
         /\ screen' = r.screen /\ ui' = r.ui
  /\ requested' = again /\ timer' = again
  /\ calls' = IF again THEN [Called(by) EXCEPT !.schedule = @ + 1, !.timer = @ + 1] ELSE Called(by)
  /\ UNCHANGED <<content, overlay, size, shrink, stopped, spent>>

(* stop: the cursor goes below the frame, for the shell.                     *)
Stopping ==
  /\ stopped' = TRUE /\ timer' = FALSE
  /\ screen' = IF ui.lines = <<>> THEN screen
               ELSE Feed(Move(screen, Len(ui.lines) - ui.row))

Stop ==
  /\ ~stopped
  /\ Stopping
  /\ calls' = IF timer THEN Called("timer") ELSE calls
  /\ UNCHANGED <<content, overlay, size, ui, shrink, requested, spent>>

(* A component gives a line that is wider than the terminal: the render that *)
(* comes to it stops the TUI, and what it was going to write is not written. *)
Overflow(by) ==
  /\ calls[by] > 0 /\ ~stopped /\ requested
  /\ ui.lines # <<>> /\ ui.w = size.w /\ ui.h = size.h
  /\ ~(shrink /\ Len(Frame) < ui.max /\ ~overlay)
  /\ Changed(ui, Frame) # {}
  /\ Min(Changed(ui, Frame)) \in ui.top..(Len(Frame) - 1)
  /\ Stopping
  /\ requested' = FALSE /\ calls' = Called(by)
  /\ UNCHANGED <<content, overlay, size, ui, shrink, spent>>

Next ==
  \/ \E lines \in Frames : Change(lines)
  \/ \E w \in {1, 2}, h \in Heights : Resize(w, h)
  \/ ToggleOverlay \/ Force \/ ScheduleRender \/ Stop
  \/ \E by \in {"now", "timer"} :
       \/ NothingToRender(by)
       \/ \E again \in BOOLEAN : Render(by, again)
       \/ Overflow(by)

Spec == Init /\ [][Next]_vars

-----------------------------------------------------------------------------
(* Whatever was drawn before, and however little of it is drawn anew: after  *)
(* a render the rows of the terminal are those of the frame, from where it   *)
(* begins, with nothing of an earlier frame below and nothing changed above; *)
(* its last lines are on the screen, and the cursor is in the row of it that *)
(* the renderer goes by in its next render. (do_render)  The shell that      *)
(* comes back when the TUI stops, or dies of a line that is too wide, has    *)
(* its prompt in an empty row, with none of the frame below. (stop)          *)
Drawn == ui.lines # <<>> /\ ui.w = size.w /\ ui.h = size.h
Start == screen.row - ui.row
FrameShown ==
  /\ Start + Len(ui.lines) <= size.h /\ Start + ui.top <= Max({0, Start})
  /\ \A r \in DOMAIN screen.rows :
       screen.rows[r] = IF r < Start THEN "shell" ELSE At(ui.lines, r - Start)

ScreenShowsFrame ==
  Drawn => IF stopped THEN \A r \in screen.row..(size.h - 1) : screen.rows[r] = ""
           ELSE FrameShown

(* Requests that are made while one waits are dropped: one always does wait  *)
(* that will render what they changed. (request_render, _schedule_render)    *)
RenderIsComing ==
  requested /\ ~stopped => calls.schedule + calls.now + calls.timer > 0
=============================================================================
