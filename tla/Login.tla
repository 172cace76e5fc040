-------------------------------- MODULE Login --------------------------------
(* Logging in from the interactive mode: its login dialog and the OAuth      *)
(* flows of ai/utils/oauth that the dialog drives, one login at a time.      *)
(*                                                                           *)
(* A flow is a coroutine; "at" is what it awaits. A code comes from the      *)
(* browser, through a callback server with a thread of its own, or is pasted *)
(* into the dialog, whose one input belongs to whoever asked last. The       *)
(* device flows fail in the dialog; the console of ai/cli.py, which has no   *)
(* signal to cancel them by, is what drives them past their beginning.       *)
EXTENDS Naturals

CONSTANTS Providers,  \* those that are logged in to
          MaxLogins, MaxLines   \* bounds on logins and on lines typed

VARIABLES
  flow,    \* the login in progress, and the dialog:
           \*   provider; at; outcome, once it has one;
           \*   shown in the editor's place: "editor", "dialog" or "selector";
           \*   input of the dialog: who gets the next line, "nobody", "manual" or "prompt";
           \*   manual, the task wait_for_manual: "none", "created", "asked", "deaf" after
           \*     an empty line, or the line on its way, or "cancelled";
           \*   given, that is manual_code and manual_error: "nothing", a line, "cancelled"
  server,  \* its thread: "none", "serving", or "reading" a request
  found,   \* the future of wait_for_code: "pending", "none" or "code"
  port,    \* of the callbacks: "free", "taken" by another program, "ours", or "leaked" to a
           \*   socket that waits for the garbage collector
  saved,   \* history: the logins whose credentials were stored
  logins, lines

vars == <<flow, server, found, port, saved, logins, lines>>
callback == <<server, found, port>>

(* A line: empty, without a code, a redirect URL of another login, or a code, *)
(* alone or in the redirect URL of this login. (_parse_authorization_input)   *)
Lines == {"", "no code", "other state", "code"}

NoFlow == [provider |-> "none", at |-> "none", outcome |-> "none", shown |-> "editor",
           input |-> "nobody", manual |-> "none", given |-> "nothing"]

Init ==
  /\ flow = NoFlow
  /\ server = "none" /\ found = "pending" /\ port \in {"free", "taken"}
  /\ saved = 0 /\ logins = 0 /\ lines = 0

-----------------------------------------------------------------------------
(* How a flow ends. With a server it cancels what waits for a pasted code,   *)
(* which sets manual_error, and shuts the server down.                       *)
Ended(f, how) ==
  IF f.at \in {"select", "device", "poll", "sleep", "device exchange", "cursor", "key"}
  THEN [f EXCEPT !.outcome = how, !.at = "storing"]
  ELSE [f EXCEPT !.outcome = how, !.at = "closing",
                 !.given = IF @ = "nothing" THEN "cancelled" ELSE @]

(* shutdown() waits in the event loop for the server's thread, and with it   *)
(* for the request it reads. The traceback in manual_error refers to itself  *)
(* and to the server, whose socket nobody closes.                            *)
Closes ==
  /\ flow.at = "closing" /\ server # "reading"
  /\ flow' = [flow EXCEPT !.at = "storing"]
  /\ server' = "none"
  /\ port' = IF port # "ours" THEN port
             ELSE IF flow.given = "cancelled" THEN "leaked" ELSE "free"
  /\ UNCHANGED <<found, saved, logins, lines>>

GarbageCollected ==
  /\ port = "leaked" /\ port' = "free"
  /\ UNCHANGED <<flow, server, found, saved, logins, lines>>

(* AuthStorage.login stores what the flow returned; _show_login_dialog brings *)
(* the editor back, whatever happened.                                        *)
Restores ==
  /\ flow.at = "storing"
  /\ flow' = NoFlow
  /\ saved' = IF flow.outcome = "credentials" THEN saved + 1 ELSE saved
  /\ UNCHANGED <<callback, logins, lines>>

-----------------------------------------------------------------------------
(* _start_callback_server and _start_local_oauth_server, then on_auth and    *)
(* the task of the manual input. Without the port anthropic fails, and codex *)
(* goes on with a future that is done.                                       *)
Serves(f) ==
  IF port = "free"
  THEN /\ server' = "serving" /\ port' = "ours" /\ found' = "pending"
       /\ flow' = [f EXCEPT !.at = "code", !.manual = "created"]
  ELSE /\ UNCHANGED <<server, port>> /\ found' = "none"
       /\ flow' = IF f.provider = "anthropic" THEN [f EXCEPT !.at = "storing", !.outcome = "error"]
                  ELSE [f EXCEPT !.at = "code", !.manual = "created"]

Begins(p) ==
  /\ flow = NoFlow /\ p \in Providers
  /\ logins < MaxLogins /\ logins' = logins + 1 /\ UNCHANGED <<saved, lines>>
Dialog(p) == [NoFlow EXCEPT !.provider = p, !.shown = "dialog"]

BeginAnthropic == Begins("anthropic") /\ Serves(Dialog("anthropic"))

(* OpenAICodexOAuthProvider.login asks for the method first.                 *)
BeginCodex ==
  /\ Begins("openai-codex") /\ UNCHANGED callback
  /\ flow' = [Dialog("openai-codex") EXCEPT !.at = "select", !.shown = "selector"]

(* restore_dialog, and the method chosen or "none". The dialog's signal has  *)
(* no get(), which the device flow calls first of all.                       *)
Select(method) ==
  /\ flow.at = "select"
  /\ LET f == [flow EXCEPT !.shown = "dialog"]
     IN IF method = "browser" THEN Serves(f)
        ELSE flow' = Ended(f, "error") /\ UNCHANGED callback
  /\ UNCHANGED <<saved, logins, lines>>

(* login_github_copilot calls the dialog's signal too.                       *)
BeginCopilot ==
  /\ Begins("github-copilot") /\ UNCHANGED callback
  /\ flow' = [Dialog("github-copilot") EXCEPT !.at = "storing", !.outcome = "error"]

(* The device flows from the console.                                        *)
BeginDevice(p) ==
  /\ Begins(p) /\ p \in {"github-copilot", "openai-codex"} /\ UNCHANGED callback
  /\ flow' = [NoFlow EXCEPT !.provider = p, !.at = "device"]

BeginCursor ==
  Begins("cursor") /\ flow' = [Dialog("cursor") EXCEPT !.at = "cursor"] /\ UNCHANGED callback

(* _show_api_key_login_dialog                                                *)
BeginApiKey ==
  /\ Begins("api-key") /\ UNCHANGED callback
  /\ flow' = [Dialog("api-key") EXCEPT !.at = "key", !.input = "prompt"]

-----------------------------------------------------------------------------
Continues(f) == flow' = f /\ UNCHANGED <<callback, saved, logins, lines>>

(* While shutdown() waits, the event loop does nothing.                      *)
Looping == flow.at \notin {"none", "storing", "closing"}

(* wait_for_manual begins: show_manual_input.                                *)
ManualAsked ==
  /\ Looping /\ flow.manual = "created"
  /\ Continues([flow EXCEPT !.manual = "asked", !.input = "manual"])

(* _run_manual: what was pasted gets to the flow, which is woken.            *)
ManualGiven ==
  /\ Looping /\ flow.given = "nothing" /\ flow.manual \in Lines \cup {"cancelled"}
  /\ flow' = [flow EXCEPT !.given = flow.manual]
  /\ found' = IF found = "pending" THEN "none" ELSE found
  /\ UNCHANGED <<server, port, saved, logins, lines>>

(* on_prompt: show_prompt takes the input.                                   *)
Prompted(f) == [f EXCEPT !.at = "prompt", !.input = "prompt"]
WithGiven(f) ==
  CASE f.given \in {"cancelled", "other state"} -> Ended(f, "error")
    [] f.given = "code" -> [f EXCEPT !.at = "exchange"]
    [] f.given = "no code" -> Prompted(f)
    [] f.given = "nothing" -> [f EXCEPT !.at = "manual"]   \* await manual_task

(* wait_for_code returns; that the input was cancelled goes before its code. *)
CodeAwaited ==
  /\ flow.at = "code" /\ found # "pending"
  /\ Continues(IF found = "code" /\ flow.given # "cancelled"
               THEN [flow EXCEPT !.at = "exchange"] ELSE WithGiven(flow))

ManualAwaited ==
  flow.at = "manual" /\ flow.given # "nothing" /\ Continues(WithGiven(flow))

(* The code is exchanged for credentials.                                    *)
Exchanged ==
  /\ flow.at = "exchange" /\ flow.manual # "created"   \* tasks begin before answers come
  /\ \E how \in {"credentials", "error"} : Continues(Ended(flow, how))
(* codex asks for another code when this one is refused.                     *)
ExchangeRetried ==
  /\ flow.at = "exchange" /\ flow.manual # "created" /\ flow.provider = "openai-codex"
  /\ Continues(Prompted(flow))

(* The device flow: a code for the user to enter in a browser.               *)
Device(p, at) == flow.provider = p /\ flow.at = at
DeviceStarts(p) ==
  /\ Device(p, "device")
  /\ Continues([flow EXCEPT !.at = "poll"]) \/ Continues(Ended(flow, "error"))
CodexDevice == DeviceStarts("openai-codex")
CopilotDevice == DeviceStarts("github-copilot")   \* for the domain that was asked for

(* poll_oauth_device_code_flow, and what each provider's poll brings it.     *)
PollBrings(p, result) ==
  /\ Device(p, "poll")
  /\ Continues(CASE result = "complete" -> [flow EXCEPT !.at = "device exchange"]
                 [] result = "failed" -> Ended(flow, "error")
                 [] result \in {"pending", "slow_down"} -> [flow EXCEPT !.at = "sleep"])
Results == {"complete", "pending", "slow_down", "failed"}
CodexPolled == \E result \in Results : PollBrings("openai-codex", result)
CopilotPolled == \E result \in Results : PollBrings("github-copilot", result)

(* abortable_sleep calls the None that is its "resolve": there is no second  *)
(* poll.                                                                     *)
Slept == flow.at = "sleep" /\ Continues(Ended(flow, "error"))

(* The tokens that the code is exchanged for.                                *)
DeviceExchanges(p) ==
  /\ Device(p, "device exchange")
  /\ \E how \in {"credentials", "error"} : Continues(Ended(flow, how))
CodexTokens == DeviceExchanges("openai-codex")
CopilotTokens == DeviceExchanges("github-copilot")   \* and copilot's models, if they can be enabled

(* poll_cursor_auth: credentials, three errors in a row, or 150 polls.       *)
CursorPolled ==
  /\ flow.at = "cursor"
  /\ \E how \in {"credentials", "error"} : Continues(Ended(flow, how))

-----------------------------------------------------------------------------
(* The user: a line into the dialog. The input belongs to nobody after it,   *)
(* and the manual input drops an empty one.                                  *)
Types == Looping /\ flow.shown = "dialog" /\ lines < MaxLines

\* Mutant: codex asks again for a line without a code, and shows no new input.
Mut_Answered(f, line) ==
  IF f.at = "key" THEN Ended(f, IF line = "" THEN "error" ELSE "credentials")
  ELSE IF line = "code" THEN [f EXCEPT !.at = "exchange"]
  ELSE IF line = "no code" /\ f.provider = "openai-codex" THEN f
  ELSE Ended(f, "error")
(* on_prompt returns. codex asks again for a line that has no code.          *)
Answered(f, line) ==
  IF f.at = "key" THEN Ended(f, IF line = "" THEN "error" ELSE "credentials")
  ELSE IF line = "code" THEN [f EXCEPT !.at = "exchange"]
  ELSE IF line = "no code" /\ f.provider = "openai-codex" THEN Prompted(f)
  ELSE Ended(f, "error")

Submit(line) ==
  /\ Types /\ lines' = lines + 1
  /\ LET f == [flow EXCEPT !.input = "nobody"]
     IN \/ /\ flow.input = "manual"
           /\ flow' = [f EXCEPT !.manual = IF line = "" THEN "deaf" ELSE line]
        \/ flow.input = "prompt" /\ flow' = Answered(f, line)
  /\ UNCHANGED <<callback, saved, logins>>

(* cancel() of the dialog rejects what the input belongs to. Nothing listens *)
(* to its signal.                                                            *)
Cancel ==
  /\ Looping /\ flow.shown = "dialog" /\ flow.input # "nobody"
  /\ LET f == [flow EXCEPT !.input = "nobody"]
     IN Continues(IF flow.input = "manual" THEN [f EXCEPT !.manual = "cancelled"]
                  ELSE Ended(f, "error"))

-----------------------------------------------------------------------------
(* The browser, whose requests the thread reads one after another, and       *)
(* slowly if a connection brings nothing. Requests that are not this login's *)
(* callback change nothing.                                                  *)
Connects ==
  /\ server = "serving" /\ server' = "reading"
  /\ UNCHANGED <<flow, found, port, saved, logins, lines>>
Calls(brings) ==
  /\ server = "reading" /\ server' = "serving"
  /\ found' = IF brings /\ found = "pending" THEN "code" ELSE found
  /\ UNCHANGED <<flow, port, saved, logins, lines>>

FlowStep ==
  \/ ManualAsked \/ ManualGiven \/ CodeAwaited \/ ManualAwaited \/ Exchanged \/ ExchangeRetried
  \/ CodexDevice \/ CopilotDevice \/ CodexPolled \/ CopilotPolled \/ Slept
  \/ CodexTokens \/ CopilotTokens \/ CursorPolled \/ Closes \/ Restores
Next ==
  \/ BeginAnthropic \/ BeginCodex \/ BeginCopilot \/ BeginCursor \/ BeginApiKey
  \/ \E p \in Providers : BeginDevice(p)
  \/ \E method \in {"browser", "device code", "none"} : Select(method)
  \/ FlowStep \/ GarbageCollected
  \/ (\E line \in Lines : Submit(line)) \/ Cancel
  \/ Connects \/ \E brings \in BOOLEAN : Calls(brings)

Spec == Init /\ [][Next]_vars

-----------------------------------------------------------------------------
(* A login that waits for the user can be cancelled: what it awaits is what  *)
(* the dialog's input belongs to, or is about to, or it is already on its    *)
(* way to an end. An empty line into the manual input makes the dialog deaf. *)
(* (LoginDialogComponent, login_openai_codex, login_anthropic)               *)
OnItsWay == flow.manual \in Lines \cup {"created", "cancelled"} \/ flow.given # "nothing"
CanBeCancelled ==
  /\ flow.at \in {"prompt", "key"} => flow.input = "prompt"
  /\ flow.at = "code" /\ flow.manual # "deaf" =>
       flow.input = "manual" \/ OnItsWay \/ found # "pending"
  /\ flow.at = "manual" /\ flow.manual # "deaf" => flow.input = "manual" \/ OnItsWay

(* When a login is over, whatever ended it, no callback server is left: no   *)
(* thread answers a browser in its name.                                     *)
NothingServes == flow = NoFlow => server = "none"
=============================================================================
