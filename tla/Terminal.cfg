SPECIFICATION Spec
CONSTANTS
  MaxTyped = 2
  Lines = {"a", "b"}
  MaxLines = 3
  Heights = {2, 3}
  MaxOther = 1
  Editor = "editor"
  Dialog = "dialog"
  Overlay = {"p", "q", "n"}
  Passive = {"n"}
  Wide = {"q"}
  Typed = {"@"}
  MaxKeys = 5
  MaxAsked = 2
  MaxSubmitted = 2
  MaxSaid = 3
  MaxCalls = 2
  MaxText = 1
  MaxClears = 1
  MaxRetries = 2
  MaxSum = 4
INVARIANTS InputIsReceived FrameIsShown FocusIsShown EditorIsTrue ChatIsTrue
CHECK_DEADLOCK FALSE
