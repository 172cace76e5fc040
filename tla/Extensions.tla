----------------------------- MODULE Extensions -----------------------------
(* The extensions of a session (coding_agent/core/extensions): the files     *)
(* found are loaded one after another, bound to the session and told its     *)
(* events by a task for each event; those in TypeScript live in a Node       *)
(* process, which one pipe of numbered requests and answers leads to.        *)
EXTENDS Naturals, Sequences, FiniteSets, SequencesExt

CONSTANTS
  Layouts,     \* what the three places hold: sequences of files, in the order they are found
  Scripts,     \* the files in TypeScript
  Offers,      \* what the Node process says one of them has: sets of commands, tools
  Names,       \* of commands: sequences of numbers, <<1, 2>> for "c:2"
  Builtin,     \* tools the session has
  Tools,       \* tools an extension registers
  Providers,
  MaxCalls     \* bound: what extensions register and undo, events, uses of a script's tools
               \*   and commands, ends of the Node process, lines it should not write

VARIABLES
  queue,       \* files still to load, the one that loads first
  factory,     \* its factory is under way
  ext,         \* what each registered: its commands and tools, and how many handlers of each event
  runner,      \* the files that were loaded, in order
  bound,
  pending,     \* providers registered before that: the runtime's, whoever loads
  registered,  \* providers in the model registry
  active,      \* the session's tools: each with the file that has it, or "builtin"
  tasks,       \* of events: event; next, the handler to call; at; told, due
  turn,        \* the task that holds the event loop, or 0
  host,        \* the Node process: number, 0 for none; alive; known, the end was noticed; reader
  pipe,        \* the lines it wrote that were not read
  requests,    \* id; process; at; got, the request whose answer it was given
  left         \* of MaxCalls

registry == <<ext, pending, registered, active>>
events == <<tasks, turn>>
node == <<host, pipe, requests>>
vars == <<queue, factory, runner, bound, registry, events, node, left>>

Events == {"start", "discover", "run"}     \* "run" stands for message_end and the agent's others
Files == UNION {ToSet(FlattenSeq(layout)) : layout \in Layouts}
NoExtension == [commands |-> <<>>, tools |-> {}, handlers |-> [e \in Events |-> 0]]

(* discover_and_load_extensions: a file that two places hold is loaded once, *)
(* and Python's come first.                                                  *)
Discovered(layout) ==
  FoldLeft(LAMBDA found, f: IF f \in ToSet(found) THEN found ELSE Append(found, f), <<>>,
           FlattenSeq(layout))
LoadOrder(found) ==
  SelectSeq(found, LAMBDA f: f \notin Scripts) \o SelectSeq(found, LAMBDA f: f \in Scripts)

Init ==
  /\ \E layout \in Layouts: queue = LoadOrder(Discovered(layout))
  /\ factory = FALSE /\ ext = [f \in Files |-> NoExtension] /\ runner = <<>> /\ bound = FALSE
  /\ pending = <<>> /\ registered = {} /\ active = [t \in Builtin |-> "builtin"]
  /\ tasks = <<>> /\ turn = 0
  /\ host = [number |-> 0, alive |-> FALSE, known |-> FALSE, reader |-> FALSE]
  /\ pipe = <<>> /\ requests = <<>>
  /\ left = MaxCalls

Spends == left > 0 /\ left' = left - 1

-----------------------------------------------------------------------------
(* What an extension registers: its factory while it loads, its handlers     *)
(* later on. A tool that is registered when the session is bound takes the   *)
(* place of the session's tool of that name at once.                         *)
Python(f) == f \notin Scripts
Calls(f) ==
  /\ Spends /\ Python(f)
  /\ \/ factory /\ f = queue[1]
     \/ bound /\ f \in ToSet(runner)
  /\ UNCHANGED <<queue, factory, runner, bound, events, node>>

Owners(extensions, order, t) == {i \in 1..Len(order) : t \in extensions[order[i]].tools}
Refreshed(extensions, order, tools) ==   \* _refresh_tool_registry: get_all_registered_tools keeps the first
  [t \in DOMAIN tools |->
     LET owners == Owners(extensions, order, t)
     IN IF owners = {} THEN "builtin" ELSE order[CHOOSE i \in owners : \A j \in owners : i <= j]]

WithCommand(x, name) ==                  \* in a dict: a name it has keeps its place
  [x EXCEPT !.commands = IF name \in ToSet(@) THEN @ ELSE Append(@, name)]

RegisterCommand(f, name) ==
  /\ Calls(f) /\ ext' = [ext EXCEPT ![f] = WithCommand(@, name)]
  /\ UNCHANGED <<pending, registered, active>>
RegisterTool(f, t) ==
  /\ Calls(f) /\ ext' = [ext EXCEPT ![f].tools = @ \cup {t}]
  /\ active' = IF bound THEN Refreshed(ext', runner, active) ELSE active
  /\ UNCHANGED <<pending, registered>>
On(f, event) ==
  /\ Calls(f) /\ ext' = [ext EXCEPT ![f].handlers[event] = @ + 1]
  /\ UNCHANGED <<pending, registered, active>>
RegisterProvider(f, p) ==                \* by the runtime, until bind_core replaces its methods
  /\ Calls(f)
  /\ IF bound THEN registered' \in {registered, registered \cup {p}} /\ UNCHANGED pending
              ELSE pending' = Append(pending, p) /\ UNCHANGED registered
  /\ UNCHANGED <<ext, active>>
UnregisterProvider(f, p) ==
  /\ Calls(f)
  /\ IF bound THEN registered' = registered \ {p} /\ UNCHANGED pending
              ELSE pending' = SelectSeq(pending, LAMBDA q: q # p) /\ UNCHANGED registered
  /\ UNCHANGED <<ext, active>>
SetActive(f, names) ==                   \* _resolve_tools: built-in tools again, of whatever name
  /\ Calls(f) /\ bound /\ active' = [t \in names |-> "builtin"]
  /\ UNCHANGED <<ext, pending, registered>>

-----------------------------------------------------------------------------
(* Loading. A factory that raises leaves what it gave the runtime.           *)
Loads == ~bound /\ queue # <<>>
Loaded(f, ok) ==
  /\ queue' = Tail(queue) /\ factory' = FALSE
  /\ runner' = IF ok THEN Append(runner, f) ELSE runner

StartFactory ==
  /\ Loads /\ Python(queue[1]) /\ ~factory /\ factory' = TRUE
  /\ UNCHANGED <<queue, runner, bound, registry, events, node, left>>
FactoryEnds(ok) ==                       \* NoFactory, a module that raises: before the first call
  /\ Loads /\ factory /\ Loaded(queue[1], ok)
  /\ UNCHANGED <<bound, registry, events, node, left>>

(* _build_extension_from_host_result: of an answer, commands and tools.      *)
ScriptLoads(n) ==
  /\ Loads /\ ~Python(queue[1]) /\ requests[n].at = "answered" /\ requests[n].load = queue[1]
  /\ \/ Loaded(queue[1], FALSE) /\ UNCHANGED ext
     \/ \E offer \in Offers:
          /\ Loaded(queue[1], TRUE)
          /\ ext' = [ext EXCEPT ![queue[1]].commands = offer.commands, ![queue[1]].tools = offer.tools]
  /\ UNCHANGED <<bound, pending, registered, active, events, node, left>>
ScriptFails(n) ==                        \* the pipe broke
  /\ Loads /\ requests[n].at = "failed" /\ requests[n].load = queue[1] /\ Loaded(queue[1], FALSE)
  /\ UNCHANGED <<bound, registry, events, node, left>>

(* bind_core registers what waits, each for itself: one that the registry    *)
(* refuses is told to listeners that are only added later. Then              *)
(* session_start is told, as by a task, and then resources_discover. It is   *)
(* done again when the mode starts and when the session is replaced.         *)
Due(event) == [i \in 1..Len(runner) |-> ext[runner[i]].handlers[event]]
NewTask(event) ==
  [event |-> event, next |-> <<1, 1>>, at |-> "calls", told |-> <<>>, due |-> Due(event)]
Bind ==
  /\ queue = <<>> /\ turn = 0 /\ bound' = TRUE /\ IF bound THEN Spends ELSE UNCHANGED left
  /\ \E refused \in SUBSET ToSet(pending): registered' = registered \cup (ToSet(pending) \ refused)
  /\ pending' = <<>> /\ active' = Refreshed(ext, runner, active)
  /\ tasks' = Append(tasks, NewTask("start")) /\ turn' = Len(tasks')
  /\ UNCHANGED <<queue, factory, ext, runner, node>>

-----------------------------------------------------------------------------
(* emit, emit_message_end: handlers in the order of the extensions, each     *)
(* list as it is when the task comes to it, whatever a handler raises.       *)
Emit ==                                  \* _handle_agent_event: a task for each
  /\ bound /\ turn = 0 /\ Spends /\ tasks' = Append(tasks, NewTask("run"))
  /\ UNCHANGED <<queue, factory, runner, bound, registry, turn, node>>

Holds(k) == turn \in {0, k}
HasHandler(task) == task.next[2] <= ext[runner[task.next[1]]].handlers[task.event]
Mut_AfterRaise(task) == [task EXCEPT !.next = <<Len(runner) + 1, 1>>]  \* the rest is not called
AfterRaise(task) == [task EXCEPT !.next[2] = @ + 1]     \* the next handler of the list
NextExtension(k) ==
  /\ tasks[k].at = "calls" /\ Holds(k) /\ tasks[k].next[1] <= Len(runner) /\ ~HasHandler(tasks[k])
  /\ tasks' = [tasks EXCEPT ![k].next = <<@[1] + 1, 1>>] /\ turn' = k
  /\ UNCHANGED <<queue, factory, runner, bound, registry, node, left>>
Called(k) ==
  /\ tasks[k].at = "calls" /\ Holds(k) /\ tasks[k].next[1] <= Len(runner) /\ HasHandler(tasks[k])
  /\ UNCHANGED <<queue, factory, runner, bound, registry, node, left>>
Told(task) == [task EXCEPT !.told = Append(@, task.next)]
HandlerReturns(k) ==
  /\ Called(k) /\ turn' = k
  /\ tasks' = [tasks EXCEPT ![k] = [Told(@) EXCEPT !.next[2] = @ + 1]]
HandlerRaises(k) ==                      \* emit_error
  /\ Called(k) /\ turn' = k /\ tasks' = [tasks EXCEPT ![k] = AfterRaise(Told(@))]
HandlerAwaits(k) ==
  /\ Called(k) /\ turn' = 0 /\ tasks' = [tasks EXCEPT ![k] = [Told(@) EXCEPT !.at = "waits"]]
HandlerResumes(k, raises) ==
  /\ tasks[k].at = "waits" /\ turn = 0 /\ turn' = k
  /\ tasks' = [tasks EXCEPT ![k] =
       LET on == [@ EXCEPT !.at = "calls"]
       IN IF raises THEN AfterRaise(on) ELSE [on EXCEPT !.next[2] = @ + 1]]
  /\ UNCHANGED <<queue, factory, runner, bound, registry, node, left>>
TaskEnds(k) ==
  /\ tasks[k].at = "calls" /\ Holds(k) /\ tasks[k].next[1] > Len(runner)
  /\ LET ended == [tasks EXCEPT ![k].at = "over"]
     IN IF tasks[k].event = "start"
        THEN tasks' = Append(ended, NewTask("discover")) /\ turn' = Len(tasks')
        ELSE tasks' = ended /\ turn' = 0
  /\ UNCHANGED <<queue, factory, runner, bound, registry, node, left>>

-----------------------------------------------------------------------------
(* get_command: the names commands are called by.                            *)
Commands == FlattenSeq([i \in 1..Len(runner) |-> ext[runner[i]].commands])
Occurrence(i) == Cardinality({j \in 1..i : Commands[j] = Commands[i]})
Count(name) == Cardinality({j \in 1..Len(Commands) : Commands[j] = name})
Invocation(name, occurrence, count, taken) ==
  LET wanted == IF count > 1 THEN Append(name, occurrence) ELSE name
      free == {k \in occurrence + 1 .. occurrence + Len(taken) + 1 : Append(name, k) \notin ToSet(taken)}
  IN IF wanted \in ToSet(taken) THEN Append(name, CHOOSE k \in free : \A j \in free : k <= j)
                                ELSE wanted
Invocations ==
  FoldLeft(LAMBDA taken, i: Append(taken, Invocation(Commands[i], Occurrence(i), Count(Commands[i]), taken)),
           <<>>, [i \in 1..Len(Commands) |-> i])
GetCommand(name) ==                      \* the first of that name
  CHOOSE i \in 1..Len(Commands) :
    Invocations[i] = name /\ \A j \in 1..i - 1 : Invocations[j] # name

-----------------------------------------------------------------------------
(* TsExtensionHost. request() starts the process when there is none or its   *)
(* end was noticed, and writes; the lock is free before the answer comes.    *)
Stops == host.number > 0 /\ host.known
Started ==                               \* start(), and the task that reads the new process
  IF host.number = 0 \/ Stops
  THEN [number |-> host.number + 1, alive |-> TRUE, known |-> FALSE, reader |-> TRUE] ELSE host
NewId(process) == Len(requests) + 1      \* never used again, whatever process it is for
(* What the ended process had written: its reader takes the line it waits    *)
(* for, and then finds the next process's stream taken.                      *)
Kept(process) ==
  IF process = host.number THEN pipe ELSE SubSeq(pipe, 1, IF host.reader /\ pipe # <<>> THEN 1 ELSE 0)
Request(load) ==
  /\ host' = Started
  /\ pipe' = Kept(host'.number)
  /\ \E at \in IF host'.alive THEN {"waits"} ELSE {"waits", "failed"}:   \* drain() may raise
       requests' = Append(requests, [id |-> NewId(host'.number), process |-> host'.number,
                                     at |-> at, got |-> 0, load |-> load, served |-> ~host'.alive])
LoadRequest ==
  /\ Loads /\ ~Python(queue[1]) /\ \A n \in 1..Len(requests) : requests[n].load # queue[1]
  /\ Request(queue[1]) /\ UNCHANGED <<queue, factory, runner, bound, registry, events, left>>
Execute ==                               \* a tool or a command of a loaded script
  /\ bound /\ turn = 0 /\ ToSet(runner) \cap Scripts # {} /\ Spends /\ Request("none")
  /\ UNCHANGED <<queue, factory, runner, bound, registry, events>>

(* The process, as ts_extension_host.mjs: it answers in any order.           *)
Serve(n) ==
  /\ host.alive /\ ~requests[n].served /\ requests[n].process = host.number
  /\ requests' = [requests EXCEPT ![n].served = TRUE]
  /\ pipe' = Append(pipe, [kind |-> "answer", id |-> requests[n].id, of |-> n, process |-> host.number])
  /\ UNCHANGED <<queue, factory, runner, bound, registry, events, host, left>>
Writes(kind) ==          \* an extension's own: text, a number, a line beyond 64 KiB, an object
  /\ Spends /\ host.alive    \* with the id of a request that waits
  /\ \E id \in IF kind = "forged" THEN {r.id : r \in {x \in ToSet(requests) : x.at = "waits"}} ELSE {0}:
       pipe' = Append(pipe, [kind |-> kind, id |-> id, of |-> 0, process |-> host.number])
  /\ UNCHANGED <<queue, factory, runner, bound, registry, events, host, requests>>
Dies ==
  /\ Spends /\ host.alive /\ host' = [host EXCEPT !.alive = FALSE]
  /\ UNCHANGED <<queue, factory, runner, bound, registry, events, pipe, requests>>
Noticed ==                               \* returncode is set
  /\ turn = 0 /\ host.number > 0 /\ ~host.alive /\ ~host.known /\ host' = [host EXCEPT !.known = TRUE]
  /\ UNCHANGED <<queue, factory, runner, bound, registry, events, pipe, requests, left>>

(* _read_stdout: a line that is no JSON is passed over; one that is no       *)
(* object, or too long, raises in the task, which nobody awaits.             *)
Resolved(line) ==
  [n \in 1..Len(requests) |->
     IF requests[n].id = line.id /\ requests[n].at = "waits"
     THEN [requests[n] EXCEPT !.at = "answered", !.got = line.of] ELSE requests[n]]
ReadLine ==
  /\ turn = 0 /\ host.reader /\ pipe # <<>> /\ pipe' = Tail(pipe)
  /\ requests' = Resolved(pipe[1])
  /\ host' = [host EXCEPT !.reader = ~(pipe[1].kind \in {"number", "long"} /\ pipe[1].process = host.number)]
  /\ UNCHANGED <<queue, factory, runner, bound, registry, events, left>>

Next ==
  \/ StartFactory \/ Bind \/ Emit \/ LoadRequest \/ Execute \/ Dies \/ Noticed \/ ReadLine
  \/ \E f \in Files:
       \/ \E name \in Names: RegisterCommand(f, name)
       \/ \E t \in Tools: RegisterTool(f, t)
       \/ \E p \in Providers: RegisterProvider(f, p) \/ UnregisterProvider(f, p)
       \/ \E names \in SUBSET Builtin: SetActive(f, names)
       \/ \E event \in Events: On(f, event)
  \/ \E ok \in BOOLEAN: FactoryEnds(ok)
  \/ \E n \in 1..Len(requests): ScriptLoads(n) \/ ScriptFails(n) \/ Serve(n)
  \/ \E k \in 1..Len(tasks):
       \/ NextExtension(k) \/ HandlerReturns(k) \/ HandlerRaises(k) \/ HandlerAwaits(k) \/ TaskEnds(k)
       \/ \E raises \in BOOLEAN: HandlerResumes(k, raises)
  \/ \E kind \in {"text", "number", "long", "forged"}: Writes(kind)

Spec == Init /\ [][Next]_vars

-----------------------------------------------------------------------------
(* An event's task tells it to every handler there was, once, in order,      *)
(* whatever the others raise, await or register. (ExtensionRunner.emit)      *)
Before(a, b) == a[1] < b[1] \/ (a[1] = b[1] /\ a[2] < b[2])
HandlersTold ==
  \A k \in 1..Len(tasks):
    /\ \A i, j \in 1..Len(tasks[k].told): i < j => Before(tasks[k].told[i], tasks[k].told[j])
    /\ tasks[k].at = "over" =>
         \A i \in 1..Len(runner): \A h \in 1..tasks[k].due[i]: <<i, h>> \in ToSet(tasks[k].told)

(* Every command of a loaded extension can be called: it is what get_command *)
(* finds by the name that get_registered_commands gives it.                  *)
CommandsReachable == \A i \in 1..Len(Commands): GetCommand(Invocations[i]) = i

(* A request is given its own answer, though the answers come out of order   *)
(* and a process that ended leaves its own, or a line with its number that a *)
(* script wrote itself (got is 0): never another's. (TsExtensionHost)        *)
AnswersMatch == \A n \in 1..Len(requests): requests[n].at = "answered" => requests[n].got \in {0, n}
=============================================================================
