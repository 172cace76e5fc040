------------------------------- MODULE MCHost -------------------------------
(* What a session is set up with and what it changes on the machine: a       *)
(* behaviour is one of the part that which names, and the others stand still.*)
(* The tools are FileTools, the other parts are instances.                   *)
EXTENDS FileTools, Integers

CONSTANTS Managers, SettingsScopes, Fields, MaxSets, MaxOther,
          LoginProviders, MaxLogins, MaxTypedLines,
          MaxChanges,
          Scripts, Builtin, Tools, ExtensionProviders, MaxCalls,
          Npm, Git, Local, Refs, PackageScopes, MaxCommands

VARIABLES
  which,
  files, locks, mem, marks, failed, writes, job, awaits, told, alive, sets, others, lastSet,
  flow, server, found, port, saved, logins, lines,
  modelsFile, stored, registry, registered, session, default, drift, fell, changes,
  toLoad, factory, ext, runner, bound, pending, provided, active, tasks, turn, host, pipe, requests, left,
  disk, listed, cmd, unread, doubtful, commands

settingsVars == <<files, locks, mem, marks, failed, writes, job, awaits, told, alive, sets, others, lastSet>>
loginVars == <<flow, server, found, port, saved, logins, lines>>
modelVars == <<modelsFile, stored, registry, registered, session, default, drift, fell, changes>>
extensionVars == <<toLoad, factory, ext, runner, bound, pending, provided, active, tasks, turn, host, pipe,
                   requests, left>>
packageVars == <<disk, listed, cmd, unread, doubtful, commands>>
hostVars == <<which, settingsVars, loginVars, vars, modelVars, extensionVars, packageVars>>

-----------------------------------------------------------------------------
(* Files with a byte order mark and both kinds of line ends, and edits of    *)
(* which some follow from others.                                            *)
SomeTexts == {[words |-> <<"x", "y">>, bom |-> TRUE, ends |-> <<"crlf", "lf">>],
              [words |-> <<"x", "x">>, bom |-> FALSE, ends |-> <<"lf", "crlf">>]}
SomeEdits == {<<[old |-> "x", new |-> "z"]>>,
              <<[old |-> "y", new |-> "x"]>>,
              <<[old |-> "x", new |-> "y"], [old |-> "z", new |-> "x"]>>}

(* Two models that are built in; a models.json that is broken, or overrides  *)
(* both of them and adds one; registrations of an url alone, of two models,  *)
(* and of a model without a name.                                            *)
SomeBuiltins == <<[provider |-> "a", id |-> "m", url |-> "a"], [provider |-> "a", id |-> "n", url |-> "a"]>>
Defined(id, url) == [id |-> id, url |-> url, named |-> TRUE]
NoOverrides == [x \in {} |-> "none"]
Broken == [valid |-> FALSE, providers |-> NoOverrides]
Custom ==
  [valid |-> TRUE,
   providers |->
     [a |-> [url |-> "f", key |-> "file", overrides |-> [n |-> "g"], models |-> <<Defined("m", "none")>>],
      b |-> [url |-> "h", key |-> "file", overrides |-> NoOverrides, models |-> <<Defined("x", "none")>>]]]
SomeContents == {Broken, Custom}
SomeConfigs ==
  {[url |-> "e", key |-> "none", stream |-> FALSE, models |-> <<>>],
   [url |-> "e", key |-> "ext", stream |-> TRUE, models |-> <<Defined("x", "none"), Defined("y", "z")>>],
   [url |-> "d", key |-> "ext", stream |-> FALSE,
    models |-> <<Defined("x", "none"), [id |-> "y", url |-> "none", named |-> FALSE]>>]}
NoChoice == <<"none", "none">>
SomeStarts ==
  {[scopes |-> <<>>, new |-> FALSE, model |-> NoChoice],
   [scopes |-> << <<"b", "x">>, <<"a", "m">> >>, new |-> TRUE, model |-> NoChoice],
   [scopes |-> <<>>, new |-> FALSE, model |-> <<"b", "x">>],
   [scopes |-> <<>>, new |-> TRUE, model |-> <<"a", "w">>]}

(* An extension in the project, found again among the user's, with another   *)
(* one and one in TypeScript between; one name that reads like a suffix.     *)
SomeLayouts == {<< <<"a">>, <<"b", "s">>, <<"a">> >>}
SomeNames == {<<1>>, <<1, 2>>}
SomeOffers == {[commands |-> << <<1>> >>, tools |-> {"read"}]}

Setting == INSTANCE Settings WITH Scopes <- SettingsScopes, queue <- writes
LoggingIn == INSTANCE Login WITH Providers <- LoginProviders, MaxLines <- MaxTypedLines
Modelling == INSTANCE Models
               WITH Builtins <- SomeBuiltins, Providers <- <<"a", "b">>, Contents <- SomeContents,
                    Configs <- SomeConfigs, Account <- "a", Defaults <- << <<"a", "n">> >>,
                    Starts <- SomeStarts, file <- modelsFile
Extending == INSTANCE Extensions
               WITH Layouts <- SomeLayouts, Offers <- SomeOffers, Names <- SomeNames,
                    Providers <- ExtensionProviders, queue <- toLoad, registered <- provided
Packing == INSTANCE Packages WITH Scopes <- PackageScopes, failed <- unread

NoSettings ==
  /\ files = 0 /\ locks = 0 /\ mem = 0 /\ marks = 0 /\ failed = 0 /\ writes = 0 /\ job = 0
  /\ awaits = 0 /\ told = 0 /\ alive = 0 /\ sets = 0 /\ others = 0 /\ lastSet = 0
NoLogin ==
  /\ flow = 0 /\ server = 0 /\ found = 0 /\ port = 0 /\ saved = 0 /\ logins = 0 /\ lines = 0
NoTools == file = NoFile /\ queue = <<>> /\ tools = [c \in ToolCalls |-> Idle]
NoModels ==
  /\ modelsFile = 0 /\ stored = 0 /\ registry = 0 /\ registered = 0 /\ session = 0
  /\ default = 0 /\ drift = 0 /\ fell = 0 /\ changes = 0
NoExtensions ==
  /\ toLoad = 0 /\ factory = 0 /\ ext = 0 /\ runner = 0 /\ bound = 0 /\ pending = 0 /\ provided = 0
  /\ active = 0 /\ tasks = 0 /\ turn = 0 /\ host = 0 /\ pipe = 0 /\ requests = 0 /\ left = 0
NoPackages == disk = 0 /\ listed = 0 /\ cmd = 0 /\ unread = 0 /\ doubtful = 0 /\ commands = 0

HostInit ==
  \/ which = "settings" /\ Setting!Init /\ NoLogin /\ NoTools /\ NoModels /\ NoExtensions /\ NoPackages
  \/ which = "login" /\ NoSettings /\ LoggingIn!Init /\ NoTools /\ NoModels /\ NoExtensions /\ NoPackages
  \/ which = "tools" /\ NoSettings /\ NoLogin /\ Init /\ NoModels /\ NoExtensions /\ NoPackages
  \/ which = "models" /\ NoSettings /\ NoLogin /\ NoTools /\ Modelling!Init /\ NoExtensions /\ NoPackages
  \/ which = "extensions" /\ NoSettings /\ NoLogin /\ NoTools /\ NoModels /\ Extending!Init /\ NoPackages
  \/ which = "packages" /\ NoSettings /\ NoLogin /\ NoTools /\ NoModels /\ NoExtensions /\ Packing!Init

SettingsStep ==
  /\ which = "settings" /\ Setting!Next
  /\ UNCHANGED <<which, loginVars, vars, modelVars, extensionVars, packageVars>>
LoginStep ==
  /\ which = "login" /\ LoggingIn!Next
  /\ UNCHANGED <<which, settingsVars, vars, modelVars, extensionVars, packageVars>>
ToolStep ==
  /\ which = "tools" /\ Next
  /\ UNCHANGED <<which, settingsVars, loginVars, modelVars, extensionVars, packageVars>>
ModelStep ==
  /\ which = "models" /\ Modelling!Next
  /\ UNCHANGED <<which, settingsVars, loginVars, vars, extensionVars, packageVars>>
ExtensionStep ==
  /\ which = "extensions" /\ Extending!Next
  /\ UNCHANGED <<which, settingsVars, loginVars, vars, modelVars, packageVars>>
PackageStep ==
  /\ which = "packages" /\ Packing!Next
  /\ UNCHANGED <<which, settingsVars, loginVars, vars, modelVars, extensionVars>>

HostNext == SettingsStep \/ LoginStep \/ ToolStep \/ ModelStep \/ ExtensionStep \/ PackageStep

HostSpec == HostInit /\ [][HostNext]_hostVars

-----------------------------------------------------------------------------
(* A setting that was set is stored, unless the user was told of an error,   *)
(* and a process writes the fields it has set and no others.                 *)
(* (SettingsManager._enqueue_write, _persist_scoped_settings)                *)
SettingsKept ==
  /\ [](which = "settings" => Setting!SetIsStored)
  /\ [][which = "settings" => Setting!OwnWrites]_hostVars

(* A login that waits for the user can be cancelled, and one that is over    *)
(* leaves nobody behind who answers a browser.                               *)
(* (LoginDialogComponent, login_openai_codex, login_anthropic)               *)
LoginEnds == which = "login" => LoggingIn!CanBeCancelled /\ LoggingIn!NothingServes

(* The registry tells of models what it would after a refresh, and a session *)
(* that is continued has the model it had.                                   *)
(* (ModelRegistry.register_provider, refresh; create_agent_session)          *)
ModelsKept ==
  /\ [](which = "models" => Modelling!RefreshChangesNothing)
  /\ [][which = "models" => Modelling!Continues]_hostVars

(* An event is told to every handler, a command can be called by its name,   *)
(* and a request to the Node process gets its own answer.                    *)
(* (ExtensionRunner.emit, get_command, TsExtensionHost)                      *)
ExtensionsReached ==
  which = "extensions" =>
    Extending!HandlersTold /\ Extending!CommandsReachable /\ Extending!AnswersMatch

(* The list of packages is true of the disk. (PackageManager)                *)
ListIsTrue == which = "packages" => Packing!ListIsTrue
=============================================================================
