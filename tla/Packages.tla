------------------------------ MODULE Packages ------------------------------
(* The packages of extensions: install, remove and update of                 *)
(* package_manager_cli.py, each a process of its own, one at a time, which   *)
(* may be killed anywhere. They change the files of a package with npm, with *)
(* git or by hand, and the list of packages in the settings.                 *)
EXTENDS Naturals, Sequences

CONSTANTS
  Npm, Git, Local,  \* the packages: what sources are the same by
  Refs,             \* versions and branches a source may name
  Scopes,           \* "user", "project"
  MaxCommands       \* bound

VARIABLES
  disk,      \* per scope and package: "no", "part" or what version is there
  listed,    \* per scope: the sources in the settings file
  cmd,       \* the command under way: does; scope; source; at; todo, what update still has to do
  failed,    \* the scopes whose settings file could not be read
  doubtful,  \* history: the packages a command was at that did not come to its end
  commands   \* how many there were

vars == <<disk, listed, cmd, failed, doubtful, commands>>

Packages == Npm \cup Git \cup Local
None == "none"                         \* no ref: the latest version, the default branch
Sources == [id : Packages, ref : Refs \cup {None}]
NoCommand == [at |-> "none"]
Here == cmd.scope
Id == cmd.source.id
Exists(scope, id) == disk[scope][id] # "no"
Has(id, version) == disk' = [disk EXCEPT ![Here][id] = version]
Version(source) == IF source.ref = None THEN "latest" ELSE source.ref
Kind(id) == IF id \in Npm THEN "npm" ELSE IF id \in Git THEN "git" ELSE "local"

Init ==
  /\ disk = [s \in Scopes |-> [id \in Packages |-> "no"]] /\ listed = [s \in Scopes |-> <<>>]
  /\ cmd = NoCommand /\ failed = {} /\ doubtful = {} /\ commands = 0

-----------------------------------------------------------------------------
(* Commands begin and end.                                                   *)
Goes(at) == cmd' = [cmd EXCEPT !.at = at]
Begins(does, scope, source, at, todo) ==
  /\ cmd.at = "none" /\ commands < MaxCommands /\ commands' = commands + 1
  /\ cmd' = [does |-> does, scope |-> scope, source |-> source, at |-> at, todo |-> todo]
  /\ failed' \in SUBSET {scope}        \* SettingsManager.create
  /\ UNCHANGED <<disk, listed, doubtful>>
Install(scope, source) == Begins("install", scope, source, Kind(source.id), <<>>)
Remove(scope, source) == Begins("remove", scope, source, "removes", <<>>)

Listed(scope, wanted) ==               \* with the scope
  LET these == SelectSeq(listed[scope], LAMBDA s: s.id \in wanted)
  IN [i \in 1..Len(these) |-> [scope |-> scope, source |-> these[i]]]
Update(wanted) ==                      \* one package, or all; the user's come first
  LET todo == Listed("user", wanted) \o Listed("project", wanted)
  IN todo # <<>> /\ Begins("update", todo[1].scope, todo[1].source, "next", todo)

Doubts == doubtful' = doubtful \cup {<<Here, Id>>}
Ends == cmd' = NoCommand
Raises ==                              \* the command tells the error
  /\ Ends /\ Doubts /\ UNCHANGED <<listed, failed, commands>>
Killed ==
  /\ cmd.at # "none" /\ Ends /\ Doubts /\ UNCHANGED <<disk, listed, failed, commands>>

-----------------------------------------------------------------------------
(* Files. After them install and remove come to the settings, an update to   *)
(* its next package.                                                         *)
FilesDone == Goes(IF cmd.does = "update" THEN "next" ELSE "settings")
Quiet == UNCHANGED <<listed, failed, doubtful, commands>>

(* install_npm, also of an update, which asks for the latest.                *)
NpmEnds(ok) ==
  /\ cmd.at = "npm"
  /\ IF ok THEN Has(Id, IF cmd.does = "update" THEN "latest" ELSE Version(cmd.source)) /\ FilesDone /\ Quiet
           ELSE (UNCHANGED disk \/ Has(Id, "part")) /\ Raises

(* install_git: nothing is done where there is a directory.                  *)
Stands == Exists(Here, Id)
GitStands ==
  /\ cmd.at = "git" /\ Stands /\ FilesDone /\ UNCHANGED disk /\ Quiet
Clones ==
  /\ cmd.at = "git" /\ ~Stands /\ Has(Id, "part") /\ Goes("clones") /\ Quiet
CloneEnds(how) ==
  /\ cmd.at = "clones"
  /\ CASE how = "done" -> Has(Id, "latest") /\ Goes(IF cmd.source.ref = None THEN "deps" ELSE "checkout") /\ Quiet
       [] how = "fails" -> Has(Id, "no") /\ Raises        \* git clears away what it made
       [] how = "times out" -> UNCHANGED disk /\ Raises   \* killed
CheckoutEnds(ok) ==                    \* of an update: and reset --hard
  /\ cmd.at = "checkout"
  /\ IF ok THEN Has(Id, cmd.source.ref) /\ Goes("deps") /\ Quiet
           ELSE UNCHANGED disk /\ Raises
DepsEnd(ok) ==                         \* npm install, if there is a package.json
  /\ cmd.at = "deps" /\ UNCHANGED disk /\ IF ok THEN FilesDone /\ Quiet ELSE Raises

(* _install_local_copy, in one go; the path must exist.                      *)
Links ==
  /\ cmd.at = "local"
  /\ \/ Has(Id, Version(cmd.source)) /\ FilesDone /\ Quiet
     \/ (UNCHANGED disk \/ Has(Id, "no")) /\ Raises

(* remove_package. The files of git and of a copy are removed in one go; npm *)
(* runs where there is a directory to run in.                                *)
Removes ==
  /\ cmd.at = "removes"
  /\ \/ Has(Id, "no") /\ FilesDone /\ Quiet
     \/ Id \in Npm /\ (UNCHANGED disk \/ Has(Id, "part")) /\ Raises

(* update: of the packages listed when it began.                             *)
NextPackage ==
  /\ cmd.at = "next" /\ UNCHANGED disk /\ Quiet
  /\ IF cmd.todo = <<>> THEN Ends
     ELSE LET item == cmd.todo[1]
              at == CASE item.source.id \in Npm /\ item.source.ref = None -> "npm"
                      [] item.source.id \in Git ->
                           IF Exists(item.scope, item.source.id) THEN "fetch" ELSE "git"
                      [] OTHER -> "next"
          IN cmd' = [cmd EXCEPT !.todo = Tail(@), !.scope = item.scope, !.source = item.source, !.at = at]
FetchEnds(ok) ==                       \* without a ref, and pull
  /\ cmd.at = "fetch"
  /\ IF ok THEN /\ IF cmd.source.ref = None THEN Has(Id, "latest") ELSE UNCHANGED disk
                /\ Goes(IF cmd.source.ref = None THEN "deps" ELSE "checkout") /\ Quiet
           ELSE UNCHANGED disk /\ Raises

-----------------------------------------------------------------------------
(* The settings. A source takes the place of the one of the same package.    *)
Mut_Same(a, b) == a = b                \* the whole source
Same(a, b) == a.id = b.id
With(list, source) ==
  IF \E i \in 1..Len(list) : Same(list[i], source)
  THEN [i \in 1..Len(list) |-> IF Same(list[i], source) THEN source ELSE list[i]]
  ELSE Append(list, source)
Without(list, source) == SelectSeq(list, LAMBDA s: ~Same(s, source))

(* Nothing is written to a file that could not be read, or that somebody     *)
(* holds: flush() only records the error, and the command says it is done.   *)
Persists(written) ==
  /\ cmd.at = "settings" /\ (Here \in failed => ~written)
  /\ LET list == IF cmd.does = "install" THEN With(listed[Here], cmd.source)
                                         ELSE Without(listed[Here], cmd.source)
     IN listed' = IF written THEN [listed EXCEPT ![Here] = list] ELSE listed
  /\ doubtful' = IF written THEN doubtful \ {<<Here, Id>>} ELSE doubtful \cup {<<Here, Id>>}
  /\ Ends /\ UNCHANGED <<disk, failed, commands>>

Next ==
  \/ \E scope \in Scopes, source \in Sources: Install(scope, source) \/ Remove(scope, source)
  \/ Update(Packages) \/ \E id \in Packages: Update({id})
  \/ \E ok \in BOOLEAN: NpmEnds(ok) \/ CheckoutEnds(ok) \/ DepsEnd(ok) \/ FetchEnds(ok) \/ Persists(ok)
  \/ \E how \in {"done", "fails", "times out"}: CloneEnds(how)
  \/ GitStands \/ Clones \/ Links \/ Removes \/ NextPackage \/ Killed

Spec == Init /\ [][Next]_vars

-----------------------------------------------------------------------------
(* The list in the settings is true of the disk: a package is on it once,    *)
(* its files are there, and they are npm's of the version it names. It need  *)
(* not be true of a package whose last command was killed or told an error,  *)
(* or is under way. (install_and_persist, remove_and_persist, update)        *)
Sure(scope, id) == <<scope, id>> \notin doubtful /\ (cmd.at = "none" \/ <<Here, Id>> # <<scope, id>>)
ListIsTrue ==
  \A scope \in Scopes:
    /\ \A i, j \in 1..Len(listed[scope]) : i # j => ~Same(listed[scope][i], listed[scope][j])
    /\ \A i \in 1..Len(listed[scope]) :
         LET s == listed[scope][i]
         IN Sure(scope, s.id) =>
              Exists(scope, s.id) /\ (s.id \in Npm /\ s.ref # None => disk[scope][s.id] = s.ref)
=============================================================================
