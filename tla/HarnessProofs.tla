--------------------------- MODULE HarnessProofs ---------------------------
(* What the harness promises to who waits for it, what it stores of the writes asked
   for and of its messages, and that it delivers them: proved for clients that start a
   run only when no other is going on (~Overlapping), but WritesAreStored, which holds
   for all.  For the others the promises are not kept, as the run harness_overlap
   shows. *)
EXTENDS HarnessProperties, SelectionProofs

Points == {"new", "done", "invoke"} \cup Setup \cup Working \cup HandlingFailure \cup Ending

(* What the clients of a promise see of the state. *)
Typed ==
  /\ at \in [Runs -> Points] /\ promise \in {0} \cup Runs
  /\ waiter \in [at : {"none", "update", "waiting", "returned"}, on : {0} \cup Runs,
                 runs : SUBSET Runs]

(* run_promise is that of the one run that goes on, and None when none does: prompt()
   takes it and every way out of the run gives it up. *)
PromiseIsOfRun == \A r \in Runs : Active(r) <=> promise = r

(* Who waits waits for the run that was going on; all others it saw have ended. *)
Watched ==
  /\ \A r \in waiter.runs : at[r] # "new"
  /\ waiter.at = "waiting" =>
       waiter.on \in Runs /\ \A r \in waiter.runs \ {waiter.on} : at[r] = "done"

WInv == Typed /\ PromiseIsOfRun /\ Watched /\ WaitEndsAfterRuns

(* The steps of a run as a waiter sees them: the run goes on, ends, or starts. *)
Goes(r) ==
  /\ Active(r) /\ UNCHANGED <<promise, waiter>>
  /\ \E pc \in Points \ {"new", "done"} : Goto(r, pc)
Ends(r) == Active(r) /\ Goto(r, "done") /\ promise' = 0 /\ UNCHANGED waiter
Begins(r) ==
  /\ \A s \in Runs : ~Active(s)
  /\ promise' = r /\ UNCHANGED waiter
  /\ at[r] = "new" /\ \E pc \in Points \ {"new", "done"} : Goto(r, pc)

(* A run is numbered from 1: no run is None. *)
LEMMA NoRunIsNone == 0 \notin Runs
  BY HarnessBounds DEF Runs

LEMMA GoesKeeps == ASSUME NEW r \in Runs, WInv, Goes(r) PROVE WInv'
<1> USE NoRunIsNone DEF WInv
<1>1. PICK pc \in Points \ {"new", "done"} : Goto(r, pc)
  BY DEF Goes
<1>2. at' = [at EXCEPT ![r] = pc] /\ promise' = promise /\ waiter' = waiter /\ Active(r)
  BY <1>1 DEF Goes, Goto
<1>3. /\ \A s \in Runs : Active(s)' <=> Active(s)
      /\ \A s \in Runs : at'[s] = "done" <=> at[s] = "done"
      /\ \A s \in Runs : at'[s] = "new" <=> at[s] = "new"
  BY <1>2 DEF Active, Typed
<1>4. Typed' /\ PromiseIsOfRun'
  BY <1>2, <1>3 DEF Typed, PromiseIsOfRun
<1>5. Watched' /\ WaitEndsAfterRuns'
  <2>1. waiter.runs \subseteq Runs
    BY DEF Typed
  <2>. QED
    BY <1>2, <1>3, <2>1 DEF Watched, WaitEndsAfterRuns
<1>. QED
  BY <1>4, <1>5

LEMMA EndsKeeps == ASSUME NEW r \in Runs, WInv, Ends(r) PROVE WInv'
<1> USE NoRunIsNone DEF WInv
<1>1. /\ at' = [at EXCEPT ![r] = "done"] /\ promise' = 0 /\ waiter' = waiter
      /\ Active(r) /\ promise = r
  BY DEF Ends, Goto, PromiseIsOfRun
<1>2. /\ \A s \in Runs : at[s] = "done" => at'[s] = "done"
      /\ \A s \in Runs : at'[s] = "new" => at[s] = "new"
      /\ \A s \in Runs : ~Active(s)'
  BY <1>1 DEF Active, Typed, PromiseIsOfRun
<1>3. Typed' /\ PromiseIsOfRun'
  BY <1>1, <1>2 DEF Typed, PromiseIsOfRun, Points
<1>4. Watched' /\ WaitEndsAfterRuns'
  <2>1. waiter.runs \subseteq Runs
    BY DEF Typed
  <2>. QED
    BY <1>1, <1>2, <2>1 DEF Watched, WaitEndsAfterRuns
<1>. QED
  BY <1>3, <1>4

LEMMA BeginsKeeps == ASSUME NEW r \in Runs, WInv, Begins(r) PROVE WInv'
<1> USE NoRunIsNone DEF WInv
<1>1. PICK pc \in Points \ {"new", "done"} : Goto(r, pc)
  BY DEF Begins
<1>2. /\ at' = [at EXCEPT ![r] = pc] /\ promise' = r /\ waiter' = waiter
      /\ at[r] = "new" /\ \A s \in Runs : ~Active(s)
  BY <1>1 DEF Begins, Goto
<1>3. /\ \A s \in Runs : Active(s)' <=> s = r
      /\ \A s \in Runs : at[s] = "done" => at'[s] = "done"
      /\ \A s \in Runs : at'[s] = "new" => at[s] = "new"
  BY <1>2 DEF Active, Typed
<1>4. Typed' /\ PromiseIsOfRun'
  BY <1>2, <1>3 DEF Typed, PromiseIsOfRun
<1>5. Watched' /\ WaitEndsAfterRuns'
  <2>1. waiter.runs \subseteq Runs
    BY DEF Typed
  <2>. QED
    BY <1>2, <1>3, <2>1 DEF Watched, WaitEndsAfterRuns
<1>. QED
  BY <1>4, <1>5

(* Each step of a run is of one of the three kinds. *)
LEMMA Steps ==
  ASSUME NEW r \in Runs, ~Overlapping, at \in [Runs -> Points],
         RunStep(r) \/ RunStarts(r) \/ Raises(r)
  PROVE  Goes(r) \/ Ends(r) \/ Begins(r)
<1> USE DEF clientVars, Points, Setup, Working, HandlingFailure, Ending
<1>1. CASE AfterInvoke(r)
  BY <1>1 DEF AfterInvoke, Quit, Ends, Active
<1>2. CASE AfterTurnState(r)
  BY <1>2 DEF AfterTurnState, Goes, Active
<1>3. CASE AfterNextUpdate(r)
  BY <1>3 DEF AfterNextUpdate, Goes, Active
<1>4. CASE AfterBeforeStart(r)
  BY <1>4 DEF AfterBeforeStart, Goes, Active
<1>5. CASE AfterPromptStart(r)
  BY <1>5 DEF AfterPromptStart, Goes, Active
<1>6. CASE AfterPromptEnd(r)
  BY <1>6 DEF AfterPromptEnd, Announce, Take, Goes, Active
<1>7. CASE AfterTurnStart(r)
  BY <1>7 DEF AfterTurnStart, Announce, Goes, Active
<1>8. CASE AfterInjectStart(r)
  BY <1>8 DEF AfterInjectStart, Goes, Active
<1>9. CASE AfterInjectEnd(r)
  BY <1>9 DEF AfterInjectEnd, Announce, Goes, Active
<1>10. CASE Replies(r)
  BY <1>10 DEF Replies, Goes, Active
<1>11. CASE AfterReply(r)
  <2>1. \E pc \in {"fail_turn_end", "tool", "turn_end"} : Goto(r, pc)
    BY <1>11 DEF AfterReply
  <2>. QED
    BY <1>11, <2>1 DEF AfterReply, Goes, Active
<1>12. CASE ToolEnds(r)
  BY <1>12 DEF ToolEnds, Goes, Active
<1>13. CASE AfterResult(r)
  BY <1>13 DEF AfterResult, Goes, Active
<1>14. CASE AfterTurnEnd(r)
  BY <1>14 DEF AfterTurnEnd, SavePointOf, Goes, Active
<1>15. CASE AfterSavePoint(r)
  BY <1>15 DEF AfterSavePoint, Goes, Active
<1>16. CASE AfterPrepare(r)
  BY <1>16 DEF AfterPrepare, PollSteer, PollFollowUp, End, Take, Goes, Active
<1>17. CASE AfterDrain(r)
  BY <1>17 DEF AfterDrain, PollFollowUp, End, Take, Goes, Active
<1>18. CASE AfterFailSavePoint(r)
  BY <1>18 DEF AfterFailSavePoint, End, Goes, Active
<1>19. CASE AfterAgentEnd(r)
  BY <1>19 DEF AfterAgentEnd, Settle, Ends, Active
<1>20. CASE AfterFailureStart(r) \/ AfterFailureEnd(r) \/ AfterFailureSavePoint(r)
  BY <1>20 DEF AfterFailureStart, AfterFailureEnd, AfterFailureSavePoint, Goes, Active
<1>21. CASE Prompt(r) \/ Invoke(r)
  BY <1>21 DEF Prompt, Invoke, Start, Begins, Active
<1>22. CASE SetupRaises(r)
  BY <1>22 DEF SetupRaises, Quit, Ends, Active
<1>23. CASE RunRaises(r)
  BY <1>23 DEF RunRaises, Goes, Active
<1>24. CASE FailureRaises(r)
  BY <1>24 DEF FailureRaises, Settle, Ends, Active
<1>. QED
  BY <1>1, <1>2, <1>3, <1>4, <1>5, <1>6, <1>7, <1>8, <1>9, <1>10, <1>11, <1>12, <1>13,
     <1>14, <1>15, <1>16, <1>17, <1>18, <1>19, <1>20, <1>21, <1>22, <1>23, <1>24
     DEF RunStep, RunStarts, Raises

(* wait_for_idle() and abort() see exactly the run the promise is of. *)
LEMMA WaitKeeps == ASSUME WInv, WaitForIdle \/ Abort \/ WaitStep PROVE WInv'
<1> USE NoRunIsNone DEF WInv
<1>1. at' = at /\ promise' = promise
  BY DEF WaitForIdle, Abort, WaitStep, runVars
<1>2. PromiseIsOfRun' /\ (\A s \in Runs : Active(s)' <=> Active(s))
  BY <1>1 DEF PromiseIsOfRun, Active
<1>3. \A s \in Runs : s # promise /\ at[s] # "new" => at[s] = "done"
  BY DEF PromiseIsOfRun, Active
<1>4. ActiveRuns \subseteq Runs /\ \A s \in ActiveRuns : at[s] # "new"
  BY DEF ActiveRuns, Active
<1>5. ASSUME NEW runs \in SUBSET Runs, \A s \in runs : at[s] # "new", WaitOnPromise(runs)
      PROVE  WInv'
  <2>1. CASE promise = 0
    BY <1>1, <1>2, <1>3, <1>5, <2>1 DEF WaitOnPromise, Typed, Watched, WaitEndsAfterRuns
  <2>2. CASE promise # 0
    BY <1>1, <1>2, <1>3, <1>5, <2>2 DEF WaitOnPromise, Typed, Watched, WaitEndsAfterRuns
  <2>. QED
    BY <2>1, <2>2
<1>6. CASE WaitForIdle
  BY <1>4, <1>5, <1>6 DEF WaitForIdle
<1>7. CASE Abort
  BY <1>1, <1>2, <1>4, <1>7 DEF Abort, Typed, Watched, WaitEndsAfterRuns
<1>8. CASE WaitStep /\ waiter.at = "update"
  BY <1>5, <1>8 DEF WaitStep, Typed, Watched
<1>9. CASE WaitStep /\ waiter.at = "waiting"
  <2>1. /\ at[waiter.on] = "done" /\ waiter' = [waiter EXCEPT !.at = "returned"]
    BY <1>9 DEF WaitStep
  <2>2. \A r \in waiter.runs : at[r] = "done"
    BY <1>9, <2>1 DEF Watched
  <2>. QED
    BY <1>1, <1>2, <2>1, <2>2 DEF Typed, Watched, WaitEndsAfterRuns
<1>. QED
  BY <1>6, <1>7, <1>8, <1>9 DEF WaitStep

LEMMA OthersKeep ==
  ASSUME WInv, UNCHANGED <<at, promise, waiter>> PROVE WInv'
  BY DEF WInv, Typed, PromiseIsOfRun, Watched, WaitEndsAfterRuns, Active

LEMMA WaitersKept ==
  ASSUME ~Overlapping, WInv, [Next]_vars PROVE WInv'
<1>1. ASSUME NEW r \in Runs, RunStep(r) \/ RunStarts(r) \/ Raises(r) PROVE WInv'
  BY <1>1, Steps, GoesKeeps, EndsKeeps, BeginsKeeps DEF WInv, Typed
<1>2. CASE ClientStep
  <2>1. CASE \E lane \in QueueLanes : Queue(lane)
    BY <2>1, OthersKeep DEF Queue, runVars
  <2>2. CASE \E kind \in WriteKinds : WriteEntry(kind)
    BY <2>2, OthersKeep DEF WriteEntry, runVars
  <2>3. CASE EndOp \/ \E name \in {"compaction", "branch_summary"} : BeginOp(name)
    BY <2>3, OthersKeep DEF BeginOp, EndOp, runVars
  <2>. QED
    BY <1>2, <2>1, <2>2, <2>3, WaitKeeps DEF ClientStep
<1>3. CASE WaitStep
  BY <1>3, WaitKeeps
<1>4. CASE UNCHANGED vars
  BY <1>4, OthersKeep DEF vars, runVars, clientVars
<1>. QED
  BY <1>1, <1>2, <1>3, <1>4 DEF Next

(* When waitForIdle() or abort() returns, every run that went on when it was called
   has settled, its awaited listeners included: for any number of runs, messages and
   errors, provided no client starts a run before the last one has returned. *)
THEOREM WaitsAreKept == ASSUME ~Overlapping PROVE Spec => []WaitEndsAfterRuns
<1>1. Init => WInv
  BY NoRunIsNone DEF Init, WInv, Typed, Points, PromiseIsOfRun, Watched,
     WaitEndsAfterRuns, Nobody, Active
<1>2. WInv /\ [Next]_vars => WInv'
  BY WaitersKept
<1>3. WInv => WaitEndsAfterRuns
  BY DEF WInv
<1>. QED
  BY <1>1, <1>2, <1>3, PTL DEF Spec

-----------------------------------------------------------------------------
(* The shapes of what the harness keeps: all the following rests on them, and they
   hold for overlapping runs as well. *)
HTyped ==
  /\ log \in Seq(Entries) /\ writes \in Seq(Writes)
  /\ queue \in [QueueLanes -> Seq(Users)]
  /\ at \in [Runs -> Points]
  /\ todo \in [Runs -> Seq(Users)] /\ shared \in [Runs -> QueueLanes \cup {"none"}]
  /\ pos \in [Runs -> Nat] /\ cur \in [Runs -> Users \cup {None}]
  /\ ctx \in [Runs -> Seq(Entries)]
  /\ counts \in [messages : Nat, writes : Nat, tools : Nat, ops : Nat, raises : Nat]

(* A run that announces messages has the one it is at in hand. *)
Fits(r) ==
  /\ at[r] \in Setup \cup {"new", "invoke"} => shared[r] = "none"
  /\ at[r] \in Setup => todo[r] # <<>>
  /\ at[r] \in {"prompt_start", "prompt_end"} =>
       shared[r] = "none" /\ pos[r] \in 1..Len(todo[r]) /\ cur[r] = todo[r][pos[r]]
  /\ at[r] \in {"inject_start", "inject_end"} => cur[r] \in Users

(* A step of run r leaves the others' locals alone. *)
Apart(r) ==
  \A s \in Runs \ {r} :
    /\ at'[s] = at[s] /\ todo'[s] = todo[s] /\ shared'[s] = shared[s] /\ pos'[s] = pos[s]
    /\ cur'[s] = cur[s] /\ ctx'[s] = ctx[s]

LEMMA EntryKinds ==
  /\ Users \subseteq Entries /\ Writes \subseteq Entries /\ Result \in Entries
  /\ \A stop \in {"stop", "toolUse", "error"} : Reply(stop) \in Entries
  /\ \A n \in Nat, l \in Lanes : User(n, l) \in Users
  /\ \A n \in Nat, k \in WriteKinds : Write(n, k) \in Writes
  /\ \A m \in Users : m.kind = "user"
  /\ \A w \in Writes : w.kind \in WriteKinds
  /\ Result.kind = "result" /\ \A stop : Reply(stop).kind = "reply"
  BY DEF Users, Writes, Entries, Result, Reply, User, Write

LEMMA CountTyped ==
  ASSUME NEW what \in {"messages", "writes", "tools", "ops", "raises"}, NEW max, Spend(what, max),
         counts \in [messages : Nat, writes : Nat, tools : Nat, ops : Nat, raises : Nat]
  PROVE  counts' \in [messages : Nat, writes : Nat, tools : Nat, ops : Nat, raises : Nat]
  BY DEF Spend

(* The loop's list is made of what was queued. *)
LEMMA ListTyped ==
  ASSUME HTyped, NEW r \in Runs PROVE List(r) \in Seq(Users)
  BY DEF HTyped, List

LEMMA AnnounceTyped ==
  ASSUME HTyped, NEW r \in Runs, NEW i \in Nat \ {0}, NEW start, Announce(r, i, start)
  PROVE  /\ pos' \in [Runs -> Nat] /\ cur' \in [Runs -> Users \cup {None}]
         /\ pos'[r] = i /\ cur'[r] = List(r)[i] /\ cur'[r] \in Users /\ i \in 1..Len(List(r))
         /\ \A s \in Runs \ {r} : pos'[s] = pos[s] /\ cur'[s] = cur[s]
<1>1. i \in 1..Len(List(r)) /\ List(r)[i] \in Users
  BY ListTyped DEF Announce
<1>2. pos' = [pos EXCEPT ![r] = i] /\ cur' = [cur EXCEPT ![r] = List(r)[i]]
  BY DEF Announce
<1>. QED
  BY <1>1, <1>2 DEF HTyped

LEMMA NoListTyped ==
  ASSUME HTyped, NEW r \in Runs, NoList(r)
  PROVE  /\ todo' \in [Runs -> Seq(Users)] /\ shared' \in [Runs -> QueueLanes \cup {"none"}]
         /\ pos' \in [Runs -> Nat] /\ cur' \in [Runs -> Users \cup {None}]
         /\ \A s \in Runs \ {r} : /\ todo'[s] = todo[s] /\ shared'[s] = shared[s]
                                  /\ pos'[s] = pos[s] /\ cur'[s] = cur[s]
  BY DEF HTyped, NoList

LEMMA TakeTyped ==
  ASSUME HTyped, NEW r \in Runs, NEW lane \in QueueLanes, NEW pc,
         Take(r, lane, pc) \/ TakeNothing(r, lane)
  PROVE  /\ queue' \in [QueueLanes -> Seq(Users)]
         /\ todo' \in [Runs -> Seq(Users)] /\ shared' \in [Runs -> QueueLanes \cup {"none"}]
         /\ pos' \in [Runs -> Nat] /\ cur' \in [Runs -> Users \cup {None}]
         /\ \A s \in Runs \ {r} : /\ todo'[s] = todo[s] /\ shared'[s] = shared[s]
                                  /\ pos'[s] = pos[s] /\ cur'[s] = cur[s]
<1>1. CASE TakeNothing(r, lane)
  BY <1>1 DEF HTyped, TakeNothing
<1>2. CASE Take(r, lane, pc)
  <2>1. queue[lane] \in Seq(Users) /\ queue[lane] # <<>>
    BY <1>2 DEF HTyped, Take
  <2>2. Head(queue[lane]) \in Users /\ Tail(queue[lane]) \in Seq(Users) /\ <<>> \in Seq(Users)
    BY <2>1
  <2>3. <<Head(queue[lane])>> \in Seq(Users)
    BY <2>2
  <2>4. PICK mode \in Modes[lane] :
          IF mode = "all"
          THEN /\ queue' = [queue EXCEPT ![lane] = <<>>]
               /\ shared' = [shared EXCEPT ![r] = lane] /\ todo' = [todo EXCEPT ![r] = <<>>]
          ELSE /\ queue' = [queue EXCEPT ![lane] = Tail(@)]
               /\ shared' = [shared EXCEPT ![r] = "none"]
               /\ todo' = [todo EXCEPT ![r] = <<Head(queue[lane])>>]
    BY <1>2 DEF Take
  <2>5. pos' = [pos EXCEPT ![r] = 0] /\ cur' = [cur EXCEPT ![r] = None]
    BY <1>2 DEF Take
  <2>6. PICK q \in Seq(Users), t \in Seq(Users), z \in QueueLanes \cup {"none"} :
          /\ queue' = [queue EXCEPT ![lane] = q]
          /\ todo' = [todo EXCEPT ![r] = t] /\ shared' = [shared EXCEPT ![r] = z]
    <3>1. CASE mode = "all"
      BY <2>2, <2>4, <3>1
    <3>2. CASE mode # "all"
      BY <2>2, <2>3, <2>4, <3>2
    <3>. QED
      BY <3>1, <3>2
  <2>7. queue' \in [QueueLanes -> Seq(Users)]
    BY <2>6 DEF HTyped
  <2>8. /\ todo' \in [Runs -> Seq(Users)] /\ shared' \in [Runs -> QueueLanes \cup {"none"}]
        /\ \A s \in Runs \ {r} : todo'[s] = todo[s] /\ shared'[s] = shared[s]
    BY <2>6 DEF HTyped
  <2>9. /\ pos' \in [Runs -> Nat] /\ cur' \in [Runs -> Users \cup {None}]
        /\ \A s \in Runs \ {r} : pos'[s] = pos[s] /\ cur'[s] = cur[s]
    BY <2>5 DEF HTyped
  <2>. QED
    BY <2>7, <2>8, <2>9
<1>. QED
  BY <1>1, <1>2

LEMMA FlushTyped ==
  ASSUME HTyped, Flush
  PROVE  /\ log' \in Seq(Entries) /\ writes' \in Seq(Writes)
         /\ log' \o writes' = log \o writes
<1>1. log \in Seq(Entries) /\ writes \in Seq(Entries)
  BY EntryKinds, SeqMonotonic DEF HTyped
<1>2. log \o writes \in Seq(Entries)
  BY <1>1
<1>3. (log \o writes) \o <<>> = log \o writes
  BY <1>2
<1>. QED
  BY <1>2, <1>3 DEF Flush

(* What a step of a run makes of the shapes. *)
Shaped(r) == HTyped' /\ Fits(r)' /\ Apart(r)

LEMMA SetupShapes ==
  ASSUME HTyped, NEW r \in Runs, Fits(r),
         \/ Prompt(r) \/ Invoke(r) \/ AfterInvoke(r) \/ AfterTurnState(r) \/ AfterNextUpdate(r)
         \/ AfterBeforeStart(r) \/ AfterPromptStart(r)
  PROVE  Shaped(r)
<1> USE DEF lists, clientVars, Points, Setup, Working, HandlingFailure, Ending, Goto, Shaped
<1>0. \A s \in Seq(Entries) : Messages(s) \in Seq(Entries)
  BY ChosenType DEF Messages
<1>1. CASE Prompt(r)
  <2>1. NextId \in Nat /\ "prompt" \in Lanes
    BY DEF NextId, HTyped, Lanes
  <2>2. User(NextId, "prompt") \in Users
    BY <2>1, EntryKinds
  <2> DEFINE m == User(NextId, "prompt")
  <2>3. <<m>> \in Seq(Users) /\ <<m>> # <<>>
    BY <2>2
  <2>4. counts' \in [messages : Nat, writes : Nat, tools : Nat, ops : Nat, raises : Nat]
    BY <1>1, CountTyped DEF Prompt, HTyped
  <2>5. /\ at' = [at EXCEPT ![r] = "turn_state"] /\ todo' = [todo EXCEPT ![r] = <<m>>]
        /\ ctx' = [ctx EXCEPT ![r] = Messages(log)] /\ at[r] = "new"
        /\ UNCHANGED <<writes, queue, log, shared, pos, cur>>
    BY <1>1 DEF Prompt, Start
  <2> HIDE DEF m
  <2>6. Messages(log) \in Seq(Entries)
    BY <1>0 DEF HTyped
  <2>7. HTyped'
    BY <2>3, <2>4, <2>5, <2>6 DEF HTyped
  <2>8. Fits(r)' /\ Apart(r)
    BY <2>3, <2>5 DEF HTyped, Fits, Apart
  <2>. QED
    BY <2>7, <2>8
<1>2. CASE Invoke(r)
  <2>1. counts' \in [messages : Nat, writes : Nat, tools : Nat, ops : Nat, raises : Nat]
    BY <1>2, CountTyped DEF Invoke, HTyped
  <2>. QED
    BY <1>2, <2>1 DEF Invoke, Start, HTyped, Fits, Apart
<1>3. CASE AfterInvoke(r)
  BY <1>3 DEF AfterInvoke, Quit, HTyped, Fits, Apart
<1>4. CASE AfterTurnState(r)
  <2>1. queue["nextTurn"] \in Seq(Users) /\ todo[r] \in Seq(Users) /\ todo[r] # <<>>
    BY <1>4 DEF AfterTurnState, HTyped, Fits, QueueLanes
  <2>2. queue["nextTurn"] \o todo[r] \in Seq(Users) /\ queue["nextTurn"] \o todo[r] # <<>>
    BY <2>1
  <2>3. CASE queue["nextTurn"] # <<>>
    <3>1. /\ todo' = [todo EXCEPT ![r] = queue["nextTurn"] \o todo[r]]
          /\ queue' = [queue EXCEPT !["nextTurn"] = <<>>]
          /\ at' = [at EXCEPT ![r] = "next_update"] /\ at[r] = "turn_state"
          /\ UNCHANGED <<writes, log, shared, pos, cur, ctx, counts>>
      BY <1>4, <2>3 DEF AfterTurnState
    <3> DEFINE both == queue["nextTurn"] \o todo[r]
    <3>2. both \in Seq(Users) /\ both # <<>> /\ todo' = [todo EXCEPT ![r] = both]
      BY <2>2, <3>1
    <3> HIDE DEF both
    <3>3. queue' \in [QueueLanes -> Seq(Users)]
      <4>1. "nextTurn" \in QueueLanes /\ <<>> \in Seq(Users)
        BY DEF QueueLanes
      <4>. QED
        BY <3>1, <4>1 DEF HTyped
    <3>4. HTyped'
      BY <3>1, <3>2, <3>3 DEF HTyped
    <3>. QED
      BY <3>1, <3>2, <3>4 DEF HTyped, Fits, Apart
  <2>4. CASE queue["nextTurn"] = <<>>
    BY <1>4, <2>4 DEF AfterTurnState, HTyped, Fits, Apart
  <2>. QED
    BY <2>3, <2>4
<1>5. CASE AfterNextUpdate(r)
  BY <1>5 DEF AfterNextUpdate, HTyped, Fits, Apart
<1>6. CASE AfterBeforeStart(r)
  <2>1. todo'[r] \in Seq(Users) /\ todo'[r] # <<>> /\ todo' = [todo EXCEPT ![r] = todo'[r]]
        /\ counts' \in [messages : Nat, writes : Nat, tools : Nat, ops : Nat, raises : Nat]
    <3>1. todo[r] \in Seq(Users) /\ todo[r] # <<>>
      BY <1>6 DEF AfterBeforeStart, HTyped, Fits
    <3>2. CASE UNCHANGED <<todo, counts>>
      BY <3>1, <3>2 DEF HTyped
    <3>3. CASE /\ Spend("messages", MaxMessages)
               /\ todo' = [todo EXCEPT ![r] = Append(@, User(NextId, "hook"))]
      <4>1. NextId \in Nat /\ "hook" \in Lanes
        BY DEF NextId, HTyped, Lanes
      <4>2. User(NextId, "hook") \in Users
        BY <4>1, EntryKinds
      <4>3. /\ Append(todo[r], User(NextId, "hook")) \in Seq(Users)
            /\ Append(todo[r], User(NextId, "hook")) # <<>>
        BY <3>1, <4>2
      <4>4. todo'[r] = Append(todo[r], User(NextId, "hook"))
        BY <3>3 DEF HTyped
      <4>. QED
        BY <3>3, <4>3, <4>4, CountTyped DEF HTyped
    <3>. QED
      BY <1>6, <3>2, <3>3 DEF AfterBeforeStart
  <2>2. 1 \in 1..Len(todo'[r]) /\ todo'[r][1] \in Users /\ ctx[r] \o todo'[r] \in Seq(Entries)
    <3>1. todo'[r] \in Seq(Entries) /\ ctx[r] \in Seq(Entries)
      BY <2>1, EntryKinds, SeqMonotonic DEF HTyped
    <3>. QED
      BY <2>1, <3>1
  <2>3. /\ ctx' = [ctx EXCEPT ![r] = ctx[r] \o todo'[r]] /\ pos' = [pos EXCEPT ![r] = 1]
        /\ cur' = [cur EXCEPT ![r] = todo'[r][1]] /\ at' = [at EXCEPT ![r] = "prompt_start"]
        /\ at[r] = "before_start" /\ UNCHANGED <<writes, queue, log, shared>>
    BY <1>6 DEF AfterBeforeStart
  <2>4. HTyped'
    BY <2>1, <2>2, <2>3 DEF HTyped
  <2>5. Fits(r)' /\ Apart(r)
    BY <2>1, <2>2, <2>3 DEF HTyped, Fits, Apart
  <2>. QED
    BY <2>4, <2>5
<1>7. CASE AfterPromptStart(r)
  <2>1. cur[r] \in Users /\ log \in Seq(Entries) /\ cur[r] \in Entries
    BY <1>7, EntryKinds DEF AfterPromptStart, HTyped, Fits
  <2>2. Append(log, cur[r]) \in Seq(Entries)
    BY <2>1
  <2>. QED
    BY <1>7, <2>2 DEF AfterPromptStart, HTyped, Fits, Apart
<1>. QED
  BY <1>1, <1>2, <1>3, <1>4, <1>5, <1>6, <1>7

(* Where a run announces nothing, its list need not fit: only the types are left. *)
Calm == Points \ (Setup \cup {"new", "invoke", "prompt_start", "prompt_end", "inject_start",
                              "inject_end"})
Listed(r) ==
  /\ queue' \in [QueueLanes -> Seq(Users)]
  /\ todo' \in [Runs -> Seq(Users)] /\ shared' \in [Runs -> QueueLanes \cup {"none"}]
  /\ pos' \in [Runs -> Nat] /\ cur' \in [Runs -> Users \cup {None}]
  /\ \A s \in Runs \ {r} : /\ todo'[s] = todo[s] /\ shared'[s] = shared[s]
                           /\ pos'[s] = pos[s] /\ cur'[s] = cur[s]
Logged(r) ==
  /\ log' \in Seq(Entries) /\ writes' \in Seq(Writes) /\ ctx' \in [Runs -> Seq(Entries)]
  /\ \A s \in Runs \ {r} : ctx'[s] = ctx[s]
Counted == counts' \in [messages : Nat, writes : Nat, tools : Nat, ops : Nat, raises : Nat]

LEMMA CalmShapes ==
  ASSUME HTyped, NEW r \in Runs, NEW pc \in Calm, Goto(r, pc), Listed(r), Logged(r), Counted
  PROVE  Shaped(r)
<1>1. at' = [at EXCEPT ![r] = pc] /\ pc \in Points
  BY DEF Goto, Calm
<1>2. HTyped'
  BY <1>1 DEF HTyped, Listed, Logged, Counted
<1>3. Fits(r)'
  BY <1>1 DEF HTyped, Fits, Calm
<1>4. Apart(r)
  BY <1>1 DEF HTyped, Apart, Listed, Logged
<1>. QED
  BY <1>2, <1>3, <1>4 DEF Shaped

LEMMA SameShapes ==
  ASSUME HTyped, NEW r \in Runs
  PROVE  /\ UNCHANGED <<queue, lists>> => Listed(r)
         /\ UNCHANGED <<log, writes, ctx>> => Logged(r)
         /\ UNCHANGED counts => Counted
  BY DEF HTyped, lists, Listed, Logged, Counted

LEMMA LoopShapes ==
  ASSUME HTyped, NEW r \in Runs, Fits(r),
         \/ AfterPromptEnd(r) \/ AfterTurnStart(r) \/ AfterInjectStart(r)
         \/ AfterInjectEnd(r) \/ Replies(r) \/ AfterReply(r) \/ ToolEnds(r) \/ AfterResult(r)
  PROVE  Shaped(r)
<1> USE DEF Points, Setup, Working, HandlingFailure, Ending
<1>0. pos[r] \in Nat /\ pos[r] + 1 \in Nat \ {0} /\ 1 \in Nat \ {0}
  BY DEF HTyped
<1>1. CASE AfterPromptEnd(r)
  <2>1. Logged(r) /\ Counted
    BY <1>1, SameShapes DEF AfterPromptEnd, clientVars
  <2>2. CASE Announce(r, pos[r] + 1, "prompt_start") /\ UNCHANGED <<queue, todo, shared>>
    <3>1. at[r] = "prompt_end" /\ shared[r] = "none" /\ List(r) = todo[r]
      BY <1>1 DEF AfterPromptEnd, Fits, List
    <3>2. at' = [at EXCEPT ![r] = "prompt_start"]
      BY <2>2 DEF Announce, Goto
    <3>3. /\ pos' \in [Runs -> Nat] /\ cur' \in [Runs -> Users \cup {None}]
          /\ pos'[r] = pos[r] + 1 /\ cur'[r] = List(r)[pos[r] + 1]
          /\ pos[r] + 1 \in 1..Len(List(r))
          /\ \A s \in Runs \ {r} : pos'[s] = pos[s] /\ cur'[s] = cur[s]
      BY <1>0, <2>2, AnnounceTyped
    <3>4. HTyped'
      BY <2>1, <2>2, <3>2, <3>3 DEF HTyped, Logged, Counted
    <3>5. Fits(r)' /\ Apart(r)
      BY <2>1, <2>2, <3>1, <3>2, <3>3 DEF HTyped, Fits, Apart, Logged
    <3>. QED
      BY <3>4, <3>5 DEF Shaped
  <2>3. CASE Take(r, "steer", "first_drain") \/ (TakeNothing(r, "steer") /\ Goto(r, "provider"))
    <3>1. \E pc \in {"first_drain", "provider"} : Goto(r, pc)
      BY <2>3 DEF Take
    <3>2. Listed(r)
      BY <2>3, TakeTyped DEF Listed, QueueLanes
    <3>. QED
      BY <2>1, <3>1, <3>2, CalmShapes DEF Calm
  <2>. QED
    BY <1>1, <2>2, <2>3 DEF AfterPromptEnd
<1>2. ASSUME NEW i \in Nat \ {0}, Announce(r, i, "inject_start"),
             UNCHANGED <<todo, shared, queue>>, Logged(r), Counted
      PROVE  Shaped(r)
  <2>1. at' = [at EXCEPT ![r] = "inject_start"]
    BY <1>2 DEF Announce, Goto
  <2>2. /\ pos' \in [Runs -> Nat] /\ cur' \in [Runs -> Users \cup {None}] /\ cur'[r] \in Users
        /\ \A s \in Runs \ {r} : pos'[s] = pos[s] /\ cur'[s] = cur[s]
    BY <1>2, AnnounceTyped
  <2>3. HTyped'
    BY <1>2, <2>1, <2>2 DEF HTyped, Logged, Counted
  <2>4. Fits(r)' /\ Apart(r)
    BY <1>2, <2>1, <2>2 DEF HTyped, Fits, Apart, Logged
  <2>. QED
    BY <2>3, <2>4 DEF Shaped
<1>3. CASE AfterTurnStart(r)
  <2>1. Logged(r) /\ Counted
    BY <1>3, SameShapes DEF AfterTurnStart, clientVars
  <2>2. CASE Announce(r, 1, "inject_start") /\ UNCHANGED <<todo, shared>>
    BY <1>0, <1>2, <1>3, <2>1, <2>2 DEF AfterTurnStart
  <2>3. CASE Goto(r, "provider") /\ UNCHANGED lists
    BY <1>3, <2>1, <2>3, CalmShapes, SameShapes DEF AfterTurnStart, Calm
  <2>. QED
    BY <1>3, <2>2, <2>3 DEF AfterTurnStart
<1>4. CASE AfterInjectEnd(r)
  <2>1. cur[r] \in Entries /\ ctx[r] \in Seq(Entries)
    BY <1>4, EntryKinds DEF AfterInjectEnd, Fits, HTyped
  <2>2. Append(ctx[r], cur[r]) \in Seq(Entries) /\ ctx' = [ctx EXCEPT ![r] = Append(ctx[r], cur[r])]
    BY <1>4, <2>1 DEF AfterInjectEnd
  <2>3. Logged(r) /\ Counted
    BY <1>4, <2>2, SameShapes DEF AfterInjectEnd, clientVars, Logged, HTyped
  <2>4. CASE Announce(r, pos[r] + 1, "inject_start") /\ UNCHANGED <<todo, shared>>
    BY <1>0, <1>2, <1>4, <2>3, <2>4 DEF AfterInjectEnd
  <2>5. CASE NoList(r) /\ Goto(r, "provider")
    <3>1. Listed(r)
      BY <1>4, <2>5, NoListTyped DEF AfterInjectEnd, Listed, HTyped
    <3>. QED
      BY <2>3, <2>5, <3>1, CalmShapes DEF Calm
  <2>. QED
    BY <1>4, <2>4, <2>5 DEF AfterInjectEnd
<1>5. CASE AfterInjectStart(r)
  <2>1. cur[r] \in Users /\ log \in Seq(Entries) /\ cur[r] \in Entries
    BY <1>5, EntryKinds DEF AfterInjectStart, HTyped, Fits
  <2>2. Append(log, cur[r]) \in Seq(Entries)
    BY <2>1
  <2>. QED
    BY <1>5, <2>1, <2>2 DEF AfterInjectStart, lists, clientVars, Goto, HTyped, Fits, Apart, Shaped
<1>6. CASE Replies(r)
  <2>1. PICK stop \in {"stop", "toolUse", "error"} :
          /\ IF stop = "toolUse" THEN Spend("tools", MaxTools) ELSE UNCHANGED counts
          /\ log' = Append(log, Reply(stop)) /\ ctx' = [ctx EXCEPT ![r] = Append(@, Reply(stop))]
    BY <1>6 DEF Replies
  <2> DEFINE e == Reply(stop)
  <2>2. e \in Entries
    BY EntryKinds
  <2>3. log' = Append(log, e) /\ ctx' = [ctx EXCEPT ![r] = Append(ctx[r], e)]
    BY <2>1
  <2> HIDE DEF e
  <2>4. Append(log, e) \in Seq(Entries) /\ Append(ctx[r], e) \in Seq(Entries)
    BY <2>2 DEF HTyped
  <2>5. Logged(r)
    BY <1>6, <2>3, <2>4 DEF Replies, HTyped, Logged
  <2>6. Counted
    BY <2>1, CountTyped DEF HTyped, Counted
  <2>7. Listed(r) /\ Goto(r, "replied")
    BY <1>6, SameShapes DEF Replies
  <2>. QED
    BY <2>5, <2>6, <2>7, CalmShapes DEF Calm
<1>7. CASE AfterReply(r)
  <2>1. \E pc \in {"fail_turn_end", "tool", "turn_end"} : Goto(r, pc)
    BY <1>7 DEF AfterReply
  <2>2. Listed(r) /\ Logged(r) /\ Counted
    BY <1>7, SameShapes DEF AfterReply, clientVars
  <2>. QED
    BY <2>1, <2>2, CalmShapes DEF Calm
<1>8. CASE ToolEnds(r)
  <2>1. Append(log, Result) \in Seq(Entries)
    BY EntryKinds DEF HTyped
  <2>2. Logged(r)
    BY <1>8, <2>1 DEF ToolEnds, HTyped, Logged
  <2>3. Listed(r) /\ Counted
    BY <1>8, SameShapes DEF ToolEnds, clientVars
  <2>. QED
    BY <1>8, <2>2, <2>3, CalmShapes DEF ToolEnds, Calm
<1>9. CASE AfterResult(r)
  <2>1. Append(ctx[r], Result) \in Seq(Entries) /\ ctx' = [ctx EXCEPT ![r] = Append(ctx[r], Result)]
    BY <1>9, EntryKinds DEF AfterResult, HTyped
  <2>2. Logged(r)
    BY <1>9, <2>1 DEF AfterResult, HTyped, Logged
  <2>3. Listed(r) /\ Counted
    BY <1>9, SameShapes DEF AfterResult, clientVars
  <2>. QED
    BY <1>9, <2>2, <2>3, CalmShapes DEF AfterResult, Calm
<1>. QED
  BY <1>1, <1>3, <1>4, <1>5, <1>6, <1>7, <1>8, <1>9

LEMMA FlushLogged ==
  ASSUME HTyped, NEW r \in Runs, Flush, UNCHANGED ctx PROVE Logged(r)
  BY FlushTyped DEF HTyped, Logged

LEMMA NoListListed ==
  ASSUME HTyped, NEW r \in Runs, NoList(r), queue' \in [QueueLanes -> Seq(Users)]
  PROVE  Listed(r)
  BY NoListTyped DEF Listed

(* The follow-up poll ends the run or takes what it finds. *)
LEMMA PollShapes ==
  ASSUME HTyped, NEW r \in Runs, PollFollowUp(r), UNCHANGED <<ctx, counts>>
  PROVE  Shaped(r)
<1> USE DEF Points, Setup, Working, HandlingFailure, Ending
<1>1. Counted
  BY SameShapes
<1>2. Listed(r)
  BY TakeTyped DEF PollFollowUp, Listed, QueueLanes
<1>3. CASE Take(r, "followUp", "drain_followUp") /\ UNCHANGED <<phase, log, writes>>
  BY <1>1, <1>2, <1>3, SameShapes, CalmShapes DEF Take, Calm
<1>4. CASE TakeNothing(r, "followUp") /\ End(r)
  BY <1>1, <1>2, <1>4, FlushLogged, CalmShapes DEF End, Calm
<1>. QED
  BY <1>3, <1>4 DEF PollFollowUp

LEMMA TurnShapes ==
  ASSUME HTyped, NEW r \in Runs, Fits(r),
         \/ AfterTurnEnd(r) \/ AfterSavePoint(r) \/ AfterPrepare(r) \/ AfterDrain(r)
         \/ AfterFailSavePoint(r) \/ AfterAgentEnd(r) \/ AfterFailureStart(r)
         \/ AfterFailureEnd(r) \/ AfterFailureSavePoint(r)
  PROVE  Shaped(r)
<1> USE DEF Points, Setup, Working, HandlingFailure, Ending
<1>1. CASE AfterTurnEnd(r)
  <2>1. PICK pc \in {"save_point", "fail_save_point", "hf_save_point"} : Goto(r, pc)
    BY <1>1 DEF AfterTurnEnd, SavePointOf
  <2>2. Listed(r) /\ Counted /\ Logged(r)
    BY <1>1, SameShapes, FlushLogged DEF AfterTurnEnd, clientVars
  <2>. QED
    BY <2>1, <2>2, CalmShapes DEF Calm
<1>2. CASE AfterSavePoint(r)
  <2>1. log' \in Seq(Entries) /\ writes' \in Seq(Writes)
    BY <1>2, FlushTyped DEF AfterSavePoint
  <2>2. Messages(log') \in Seq(Entries)
    BY <2>1, ChosenType DEF Messages
  <2>3. Listed(r) /\ Counted
    BY <1>2, SameShapes DEF AfterSavePoint, clientVars
  <2>4. Logged(r)
    BY <1>2, <2>1, <2>2 DEF AfterSavePoint, Logged, HTyped
  <2>. QED
    BY <1>2, <2>3, <2>4, CalmShapes DEF AfterSavePoint, Calm
<1>3. CASE AfterPrepare(r)
  <2>1. UNCHANGED <<ctx, counts>> /\ Counted
    BY <1>3, SameShapes DEF AfterPrepare, clientVars
  <2>2. CASE Take(r, "steer", "drain_steer") /\ UNCHANGED <<phase, log, writes>>
    <3>1. Listed(r)
      BY <2>2, TakeTyped DEF Listed, QueueLanes
    <3>. QED
      BY <2>1, <2>2, <3>1, SameShapes, CalmShapes DEF Take, Calm
  <2>3. CASE TakeNothing(r, "steer") /\ Goto(r, "turn_start") /\ UNCHANGED <<phase, log, writes>>
    <3>1. Listed(r)
      BY <2>3, TakeTyped DEF Listed, QueueLanes
    <3>. QED
      BY <2>1, <2>3, <3>1, SameShapes, CalmShapes DEF Calm
  <2>. QED
    BY <1>3, <2>1, <2>2, <2>3, PollShapes DEF AfterPrepare, PollSteer
<1>4. CASE AfterDrain(r)
  <2>1. UNCHANGED <<ctx, counts>> /\ Counted
    BY <1>4, SameShapes DEF AfterDrain, clientVars
  <2>2. CASE Goto(r, "turn_start") /\ UNCHANGED <<phase, log, writes, queue, lists>>
    BY <2>1, <2>2, SameShapes, CalmShapes DEF Calm
  <2>3. CASE End(r) /\ UNCHANGED <<queue, lists>>
    BY <2>1, <2>3, SameShapes, FlushLogged, CalmShapes DEF End, Calm
  <2>. QED
    BY <1>4, <2>1, <2>2, <2>3, PollShapes DEF AfterDrain
<1>5. CASE AfterFailSavePoint(r)
  BY <1>5, SameShapes, FlushLogged, CalmShapes DEF AfterFailSavePoint, End, clientVars, Calm
<1>6. CASE AfterAgentEnd(r)
  <2>1. Listed(r) /\ Counted
    BY <1>6, SameShapes, NoListListed DEF AfterAgentEnd, clientVars, HTyped
  <2>2. Logged(r)
    BY <1>6, FlushTyped DEF AfterAgentEnd, Settle, Logged, HTyped
  <2>. QED
    BY <1>6, <2>1, <2>2, CalmShapes DEF AfterAgentEnd, Settle, Calm
<1>7. CASE AfterFailureStart(r)
  <2>1. Append(log, Reply("error")) \in Seq(Entries)
    BY EntryKinds DEF HTyped
  <2>2. Logged(r)
    BY <1>7, <2>1 DEF AfterFailureStart, HTyped, Logged
  <2>. QED
    BY <1>7, <2>2, SameShapes, CalmShapes DEF AfterFailureStart, clientVars, Calm
<1>8. CASE AfterFailureEnd(r)
  BY <1>8, SameShapes, CalmShapes DEF AfterFailureEnd, clientVars, Calm
<1>9. CASE AfterFailureSavePoint(r)
  BY <1>9, SameShapes, FlushLogged, CalmShapes DEF AfterFailureSavePoint, clientVars, Calm
<1>. QED
  BY <1>1, <1>2, <1>3, <1>4, <1>5, <1>6, <1>7, <1>8, <1>9

LEMMA RaiseShapes ==
  ASSUME HTyped, NEW r \in Runs, Raises(r)
  PROVE  Shaped(r)
<1> USE DEF Points, Setup, Working, HandlingFailure, Ending
<1>1. Counted
  BY CountTyped DEF Raises, SetupRaises, RunRaises, FailureRaises, Counted, HTyped
<1>2. CASE SetupRaises(r)
  <2>1. "nextTurn" \in QueueLanes /\ queue["nextTurn"] \in Seq(Users) /\ todo[r] \in Seq(Users)
    BY DEF QueueLanes, HTyped
  <2>2. SubSeq(todo[r], 1, Len(todo[r]) - 1) \in Seq(Users)
    BY <2>1
  <2>3. SubSeq(todo[r], 1, Len(todo[r]) - 1) \o queue["nextTurn"] \in Seq(Users)
    BY <2>1, <2>2
  <2>4. PICK q \in Seq(Users) : queue' = [queue EXCEPT !["nextTurn"] = q]
    BY <1>2, <2>1, <2>3 DEF SetupRaises
  <2>5. Listed(r)
    BY SMTT(30), <1>2, <2>1, <2>4, NoListListed DEF SetupRaises, HTyped
  <2>6. Logged(r)
    BY <1>2 DEF SetupRaises, Logged, HTyped
  <2>. QED
    BY <1>1, <1>2, <2>5, <2>6, CalmShapes DEF SetupRaises, Quit, Calm
<1>3. CASE RunRaises(r)
  <2>1. /\ "steer" \in QueueLanes /\ "followUp" \in QueueLanes
        /\ List(r) \in Seq(Users) /\ \A l \in QueueLanes : queue[l] \in Seq(Users)
    BY ListTyped DEF QueueLanes, HTyped
  <2>2. \A l \in QueueLanes : List(r) \o queue[l] \in Seq(Users)
    BY <2>1
  <2>3. \/ UNCHANGED queue
        \/ \E l \in QueueLanes : queue' = [queue EXCEPT ![l] = List(r) \o queue[l]]
    <3>1. PutBack(r)
      BY <1>3 DEF RunRaises
    <3>2. CASE at[r] \in {"first_drain", "drain_steer"}
      <4>1. queue' = [queue EXCEPT !["steer"] = List(r) \o queue["steer"]]
        BY <3>1, <3>2 DEF PutBack
      <4>. QED
        BY <2>1, <4>1
    <3>3. CASE at[r] = "drain_followUp"
      <4>1. queue' = [queue EXCEPT !["followUp"] = List(r) \o queue["followUp"]]
        BY <3>1, <3>3 DEF PutBack
      <4>. QED
        BY <2>1, <4>1
    <3>4. CASE at[r] \notin {"first_drain", "drain_steer", "drain_followUp"}
      BY <3>1, <3>4 DEF PutBack
    <3>. QED
      BY <3>2, <3>3, <3>4
  <2>4. queue' \in [QueueLanes -> Seq(Users)]
    <3>1. CASE UNCHANGED queue
      BY <3>1 DEF HTyped
    <3>2. ASSUME NEW l \in QueueLanes, queue' = [queue EXCEPT ![l] = List(r) \o queue[l]]
          PROVE  queue' \in [QueueLanes -> Seq(Users)]
      <4>1. PICK v \in Seq(Users) : queue' = [queue EXCEPT ![l] = v]
        BY <2>2, <3>2
      <4>. QED
        BY <4>1 DEF HTyped
    <3>. QED
      BY <2>3, <3>1, <3>2
  <2>5. Listed(r)
    BY <1>3, <2>4, NoListListed DEF RunRaises
  <2>6. Logged(r)
    BY <1>3, SameShapes, FlushLogged DEF RunRaises
  <2>. QED
    BY <1>1, <1>3, <2>5, <2>6, CalmShapes DEF RunRaises, Calm
<1>4. CASE FailureRaises(r)
  <2>1. Logged(r)
    BY <1>4, FlushTyped DEF FailureRaises, Settle, Logged, HTyped
  <2>. QED
    BY <1>1, <1>4, <2>1, SameShapes, CalmShapes DEF FailureRaises, Settle, Calm
<1>. QED
  BY <1>2, <1>3, <1>4 DEF Raises

LEMMA RunShapes ==
  ASSUME HTyped, NEW r \in Runs, Fits(r), RunStep(r) \/ RunStarts(r) \/ Raises(r)
  PROVE  Shaped(r)
  BY SetupShapes, LoopShapes, TurnShapes, RaiseShapes DEF RunStep, RunStarts

LEMMA ClientShapes ==
  ASSUME HTyped, ClientStep \/ WaitStep \/ UNCHANGED vars
  PROVE  HTyped' /\ UNCHANGED <<at, lists, ctx>>
<1> USE DEF runVars, lists
<1>1. ASSUME NEW lane \in QueueLanes, Queue(lane) PROVE HTyped' /\ UNCHANGED <<at, lists, ctx>>
  <2>1. NextId \in Nat /\ lane \in Lanes
    BY DEF NextId, HTyped, Lanes
  <2>2. Append(queue[lane], User(NextId, lane)) \in Seq(Users)
    BY <2>1, EntryKinds DEF HTyped
  <2>3. PICK v \in Seq(Users) : queue' = [queue EXCEPT ![lane] = v]
    BY <1>1, <2>2 DEF Queue
  <2>4. counts' \in [messages : Nat, writes : Nat, tools : Nat, ops : Nat, raises : Nat]
    BY <1>1, CountTyped DEF Queue, HTyped
  <2>. QED
    BY <1>1, <2>3, <2>4 DEF Queue, HTyped
<1>2. ASSUME NEW kind \in WriteKinds, WriteEntry(kind) PROVE HTyped' /\ UNCHANGED <<at, lists, ctx>>
  <2>1. Write(counts.writes + 1, kind) \in Writes
    BY EntryKinds DEF HTyped
  <2>2. \/ log' = Append(log, Write(counts.writes + 1, kind)) /\ UNCHANGED writes
        \/ writes' = Append(writes, Write(counts.writes + 1, kind)) /\ UNCHANGED log
    BY <1>2 DEF WriteEntry
  <2>3. log' \in Seq(Entries) /\ writes' \in Seq(Writes)
    <3>1. PICK w \in Writes : \/ log' = Append(log, w) /\ UNCHANGED writes
                              \/ writes' = Append(writes, w) /\ UNCHANGED log
      BY <2>1, <2>2
    <3>2. w \in Entries
      BY EntryKinds
    <3>3. Append(log, w) \in Seq(Entries) /\ Append(writes, w) \in Seq(Writes)
      BY <3>2 DEF HTyped
    <3>. QED
      BY <3>1, <3>3 DEF HTyped
  <2>4. counts' \in [messages : Nat, writes : Nat, tools : Nat, ops : Nat, raises : Nat]
    BY <1>2, CountTyped DEF WriteEntry, HTyped
  <2>. QED
    BY <1>2, <2>3, <2>4 DEF WriteEntry, HTyped
<1>3. ASSUME NEW name, BeginOp(name) PROVE HTyped' /\ UNCHANGED <<at, lists, ctx>>
  BY <1>3, CountTyped DEF BeginOp, HTyped
<1>4. CASE Abort
  <2>1. <<>> \in Seq(Users) /\ queue' = [queue EXCEPT !["steer"] = <<>>, !["followUp"] = <<>>]
    BY <1>4 DEF Abort
  <2>2. queue' \in [QueueLanes -> Seq(Users)]
    BY <2>1 DEF HTyped
  <2>. QED
    BY <1>4, <2>2 DEF Abort, HTyped
<1>5. CASE EndOp \/ WaitForIdle \/ WaitStep \/ UNCHANGED vars
  BY <1>5 DEF EndOp, WaitForIdle, WaitStep, vars, clientVars, HTyped
<1>. QED
  BY <1>1, <1>2, <1>3, <1>4, <1>5 DEF ClientStep

(* The types hold in every state: by the shapes of all runs. *)
HShapes == HTyped /\ \A r \in Runs : Fits(r)

LEMMA ShapesHold ==
  ASSUME HShapes, [Next]_vars PROVE HShapes'
<1>1. ASSUME NEW r \in Runs, RunStep(r) \/ RunStarts(r) \/ Raises(r) PROVE HShapes'
  <2>1. Shaped(r)
    BY <1>1, RunShapes DEF HShapes
  <2>2. ASSUME NEW s \in Runs \ {r} PROVE Fits(s)'
    BY <2>1, <2>2 DEF HShapes, Shaped, Apart, Fits
  <2>. QED
    BY <2>1, <2>2 DEF HShapes, Shaped
<1>2. CASE ClientStep \/ WaitStep \/ UNCHANGED vars
  BY <1>2, ClientShapes DEF HShapes, Fits, lists
<1>. QED
  BY <1>1, <1>2 DEF Next

LEMMA ShapesBegin == Init => HShapes
  BY DEF Init, HShapes, HTyped, Fits, Points, Setup

-----------------------------------------------------------------------------
(* What other code asked to be stored, in the session or still to be written. *)
Own == Chosen(log, Writes) \o writes
Once(s, n) ==
  /\ Len(s) = n /\ \A i \in 1..n : s[i].id \in 1..n
  /\ \A i, j \in 1..n : i # j => s[i].id # s[j].id
Stored == Once(Own, counts.writes)

(* A run adds an entry of its own or stores all that is pending. *)
Records ==
  /\ counts'.writes = counts.writes
  /\ \/ UNCHANGED <<log, writes>> \/ Flush
     \/ \E e \in Entries \ Writes : log' = Append(log, e) /\ UNCHANGED writes

LEMMA NotWritten ==
  /\ Users \subseteq Entries \ Writes /\ Result \in Entries \ Writes
  /\ \A stop \in {"stop", "toolUse", "error"} : Reply(stop) \in Entries \ Writes
<1>1. \A w \in Writes : w.kind \notin {"user", "result", "reply"}
  BY EntryKinds DEF WriteKinds
<1>. QED
  BY <1>1, EntryKinds

LEMMA RunRecords ==
  ASSUME HTyped, NEW r \in Runs, Fits(r), RunStep(r) \/ RunStarts(r) \/ Raises(r)
  PROVE  Records
<1> USE DEF clientVars, Records
<1>1. CASE Prompt(r) \/ Invoke(r) \/ AfterInvoke(r) \/ AfterTurnState(r) \/ AfterNextUpdate(r)
  BY <1>1 DEF Prompt, Invoke, AfterInvoke, AfterTurnState, AfterNextUpdate, Spend, HTyped
<1>2. CASE AfterBeforeStart(r)
  BY <1>2 DEF AfterBeforeStart, Spend, HTyped
<1>3. CASE AfterPromptStart(r)
  BY <1>3, NotWritten DEF AfterPromptStart, Fits, HTyped
<1>4. CASE AfterPromptEnd(r) \/ AfterTurnStart(r)
  BY <1>4 DEF AfterPromptEnd, AfterTurnStart
<1>5. CASE AfterInjectStart(r)
  BY <1>5, NotWritten DEF AfterInjectStart, Fits, HTyped
<1>6. CASE AfterInjectEnd(r) \/ AfterReply(r) \/ AfterResult(r)
  BY <1>6 DEF AfterInjectEnd, AfterReply, AfterResult
<1>7. CASE Replies(r)
  <2>1. PICK stop \in {"stop", "toolUse", "error"} :
          /\ IF stop = "toolUse" THEN Spend("tools", MaxTools) ELSE UNCHANGED counts
          /\ log' = Append(log, Reply(stop))
    BY <1>7 DEF Replies
  <2>2. counts'.writes = counts.writes
    BY <2>1 DEF Spend, HTyped
  <2>. QED
    BY <1>7, <2>1, <2>2, NotWritten DEF Replies
<1>8. CASE ToolEnds(r)
  BY <1>8, NotWritten DEF ToolEnds
<1>9. CASE AfterTurnEnd(r) \/ AfterSavePoint(r) \/ AfterFailSavePoint(r) \/ AfterAgentEnd(r)
  BY <1>9 DEF AfterTurnEnd, AfterSavePoint, AfterFailSavePoint, AfterAgentEnd, End, Settle
<1>10. CASE AfterPrepare(r) \/ AfterDrain(r)
  BY <1>10 DEF AfterPrepare, AfterDrain, PollSteer, PollFollowUp, End
<1>11. CASE AfterFailureStart(r)
  BY <1>11, NotWritten DEF AfterFailureStart
<1>12. CASE AfterFailureEnd(r) \/ AfterFailureSavePoint(r)
  BY <1>12 DEF AfterFailureEnd, AfterFailureSavePoint
<1>13. CASE Raises(r)
  BY <1>13 DEF Raises, SetupRaises, RunRaises, FailureRaises, Settle, Spend, HTyped
<1>. QED
  BY <1>1, <1>2, <1>3, <1>4, <1>5, <1>6, <1>7, <1>8, <1>9, <1>10, <1>11, <1>12, <1>13
     DEF RunStep, RunStarts

LEMMA OwnIs ==
  ASSUME NEW l \in Seq(Entries), NEW w \in Seq(Writes)
  PROVE  /\ Chosen(l \o w, Writes) = Chosen(l, Writes) \o w
         /\ Chosen(l, Writes) \in Seq(Writes)
<1>1. w \in Seq(Entries)
  BY EntryKinds, SeqMonotonic
<1>2. Chosen(w, Writes) = w
  BY ChosenAll
<1>3. \A t \in Seq(Entries) : Chosen(l \o t, Writes) = Chosen(l, Writes) \o Chosen(t, Writes)
  BY ChosenConcat
<1>4. Entries \cap Writes = Writes
  BY EntryKinds
<1>5. Chosen(l, Writes) \in Seq(Writes)
  BY <1>4, ChosenType
<1>. QED
  BY <1>1, <1>2, <1>3, <1>5

LEMMA OwnKept ==
  ASSUME HTyped, HTyped', Records PROVE Own' = Own
<1>1. CASE UNCHANGED <<log, writes>>
  BY <1>1 DEF Own
<1>2. CASE Flush
  <2>1. log' \o writes' = log \o writes
    BY <1>2, FlushTyped
  <2>2. Own' = Chosen(log' \o writes', Writes) /\ Own = Chosen(log \o writes, Writes)
    BY OwnIs DEF Own, HTyped
  <2>. QED
    BY <2>1, <2>2
<1>3. ASSUME NEW e \in Entries \ Writes, log' = Append(log, e), UNCHANGED writes PROVE Own' = Own
  <2>1. log \in Seq(Entries) /\ e \in Entries /\ e \notin Writes
    BY DEF HTyped
  <2>2. Chosen(Append(log, e), Writes) = Chosen(log, Writes)
    BY <2>1, ChosenAppend
  <2>. QED
    BY <1>3, <2>2 DEF Own
<1>. QED
  BY <1>1, <1>2, <1>3 DEF Records

(* One more is numbered as the next, wherever it is put. *)
LEMMA OneMore ==
  ASSUME NEW a \in Seq(Writes), NEW b \in Seq(Writes), NEW n \in Nat, Once(a \o b, n),
         NEW w \in Writes, w.id = n + 1
  PROVE  Once(Append(a, w) \o b, n + 1)
<1> DEFINE s == a \o b
           t == Append(a, w) \o b
           k == Len(a)
           old(i) == IF i <= k THEN i ELSE i - 1
<1>1. /\ Len(s) = n /\ k \in 0..n /\ Len(t) = n + 1 /\ k \in Nat
  BY DEF Once
<1>2. t[k + 1] = w
  OBVIOUS
<1>3. ASSUME NEW i \in 1..(n + 1), i # k + 1 PROVE t[i] = s[old(i)] /\ old(i) \in 1..n
  BY <1>1, <1>3
<1>4. \A i \in 1..n : s[i].id \in 1..n
  BY DEF Once
<1>5. \A i, j \in 1..n : i # j => s[i].id # s[j].id
  BY DEF Once
<1>6. \A i, j \in 1..(n + 1) : i # j /\ i # k + 1 /\ j # k + 1 => old(i) # old(j)
  BY <1>1
<1> HIDE DEF s, t, k, old
<1>7. \A i \in 1..(n + 1) : t[i].id \in 1..(n + 1)
  <2> TAKE i \in 1..(n + 1)
  <2>1. CASE i = k + 1
    BY <1>1, <1>2, <2>1
  <2>2. CASE i # k + 1
    BY <1>1, <1>3, <1>4, <2>2
  <2>. QED
    BY <2>1, <2>2
<1>8. ASSUME NEW i \in 1..(n + 1), NEW j \in 1..(n + 1), i # j PROVE t[i].id # t[j].id
  <2>1. CASE i = k + 1
    BY <1>1, <1>2, <1>3, <1>4, <1>8, <2>1
  <2>2. CASE j = k + 1
    BY <1>1, <1>2, <1>3, <1>4, <1>8, <2>2
  <2>3. CASE i # k + 1 /\ j # k + 1
    BY <1>3, <1>5, <1>6, <1>8, <2>3
  <2>. QED
    BY <2>1, <2>2, <2>3
<1>9. Once(t, n + 1)
  BY <1>1, <1>7, <1>8 DEF Once
<1>. QED
  BY <1>9 DEF t

LEMMA AppendToBoth ==
  \A s, t \in Seq(Writes), e \in Writes : Append(s \o t, e) = s \o Append(t, e)
  OBVIOUS

LEMMA StoredKept ==
  ASSUME HShapes, Stored, [Next]_vars PROVE Stored'
<1>1. HTyped /\ HTyped'
  BY ShapesHold DEF HShapes
<1>2. ASSUME Own' = Own, counts'.writes = counts.writes PROVE Stored'
  BY <1>2 DEF Stored, Once
<1>3. ASSUME NEW r \in Runs, RunStep(r) \/ RunStarts(r) \/ Raises(r) PROVE Stored'
  <2>1. Records
    BY <1>1, <1>3, RunRecords DEF HShapes
  <2>. QED
    BY <1>1, <1>2, <2>1, OwnKept DEF Records
<1>4. ASSUME NEW kind \in WriteKinds, WriteEntry(kind) PROVE Stored'
  <2> DEFINE n == counts.writes
             w == Write(n + 1, kind)
  <2>1. n \in Nat /\ counts'.writes = n + 1
    BY <1>1, <1>4 DEF WriteEntry, Spend, HTyped
  <2>2. w \in Writes /\ w.id = n + 1 /\ w \in Entries
    BY <2>1, EntryKinds DEF Write
  <2>3. /\ log \in Seq(Entries) /\ writes \in Seq(Writes) /\ Chosen(log, Writes) \in Seq(Writes)
        /\ Once(Chosen(log, Writes) \o writes, n)
    BY <1>1, OwnIs DEF HTyped, Stored, Own
  <2>4. \/ log' = Append(log, w) /\ UNCHANGED writes
        \/ writes' = Append(writes, w) /\ UNCHANGED log
    BY <1>4 DEF WriteEntry
  <2> HIDE DEF n, w
  <2>5. CASE log' = Append(log, w) /\ UNCHANGED writes
    <3>1. Chosen(Append(log, w), Writes) = Append(Chosen(log, Writes), w)
      BY <2>2, <2>3, ChosenAppend
    <3>2. Once(Append(Chosen(log, Writes), w) \o writes, n + 1)
      BY <2>1, <2>2, <2>3, OneMore
    <3>. QED
      BY <2>1, <2>5, <3>1, <3>2 DEF Stored, Own
  <2>6. CASE writes' = Append(writes, w) /\ UNCHANGED log
    <3> DEFINE a == Chosen(log, Writes)
    <3>0. a \in Seq(Writes) /\ Once(a \o writes, n)
      BY <2>3
    <3> HIDE DEF a
    <3>1. (a \o writes) \o <<>> = a \o writes /\ a \o writes \in Seq(Writes) /\ <<>> \in Seq(Writes)
      BY <2>3, <3>0
    <3>2. Once(Append(a \o writes, w) \o <<>>, n + 1)
      <4> DEFINE c == a \o writes
      <4>1. c \in Seq(Writes) /\ <<>> \in Seq(Writes) /\ Once(c \o <<>>, n)
        BY <3>0, <3>1
      <4> HIDE DEF c
      <4>2. Once(Append(c, w) \o <<>>, n + 1)
        BY <2>1, <2>2, <4>1, OneMore
      <4>. QED
        BY <4>2 DEF c
    <3>3. Append(a \o writes, w) \o <<>> = a \o Append(writes, w)
      <4>1. Append(a \o writes, w) = a \o Append(writes, w)
        <5>1. a \in Seq(Writes) /\ writes \in Seq(Writes) /\ w \in Writes
          BY <2>2, <2>3, <3>0
        <5>. QED
          BY <5>1, AppendToBoth, Zenon
      <4>2. Append(a \o writes, w) \in Seq(Writes)
        BY <2>2, <3>1
      <4>. QED
        BY <4>1, <4>2
    <3>. QED
      BY <2>1, <2>6, <3>2, <3>3 DEF Stored, Own, a
  <2>. QED
    BY <2>4, <2>5, <2>6
<1>5. CASE ClientStep \/ WaitStep \/ UNCHANGED vars
  <2>1. ASSUME UNCHANGED <<log, writes>>, counts'.writes = counts.writes PROVE Stored'
    BY <1>2, <2>1 DEF Own
  <2>2. CASE \E lane \in QueueLanes : Queue(lane)
    BY <1>1, <2>1, <2>2 DEF Queue, Spend, HTyped
  <2>3. CASE \E name \in {"compaction", "branch_summary"} : BeginOp(name)
    BY <1>1, <2>1, <2>3 DEF BeginOp, Spend, HTyped
  <2>4. CASE EndOp \/ WaitForIdle \/ Abort \/ WaitStep \/ UNCHANGED vars
    BY <2>1, <2>4 DEF EndOp, WaitForIdle, Abort, WaitStep, vars, clientVars
  <2>. QED
    BY <1>4, <1>5, <2>2, <2>3, <2>4 DEF ClientStep
<1>. QED
  BY <1>3, <1>5 DEF Next

LEMMA StoredOnce ==
  ASSUME HTyped, Stored PROVE WritesStoredOnce
<1>1. Chosen(log \o writes, Writes) = Own
  BY OwnIs DEF HTyped, Own
<1>. QED
  BY <1>1 DEF WritesStoredOnce, Stored, Once

LEMMA StoredBegins == Init => Stored
<1>1. Chosen(<<>>, Writes) \o <<>> = <<>>
  BY ChosenNothing
<1>. QED
  BY <1>1 DEF Init, Stored, Own, Once

(* Every entry other code asked to store is in the session or pending, once, whatever
   raises in between and however runs overlap. *)
THEOREM WritesAreStored == Spec => []WritesStoredOnce
<1>1. Init => HShapes /\ Stored
  BY ShapesBegin, StoredBegins
<1>2. (HShapes /\ Stored) /\ [Next]_vars => (HShapes /\ Stored)'
  BY ShapesHold, StoredKept
<1>3. HShapes /\ Stored => WritesStoredOnce
  BY StoredOnce DEF HShapes
<1>. QED
  BY <1>1, <1>2, <1>3, PTL DEF Spec

-----------------------------------------------------------------------------
(* What a run's context lacks of the session's messages, or has before it: the list it
   announces and the result in hand.  Nothing is owed where the context is read anew. *)
Level == {"first_drain", "turn_start", "provider", "inject_start", "replied", "tool", "prepare",
          "drain_steer", "drain_followUp"}
Shows(r) ==
  /\ at[r] \in Setup \cup Level => ctx[r] = Messages(log)
  /\ at[r] = "prompt_start" => ctx[r] = Messages(log) \o SubSeq(todo[r], pos[r], Len(todo[r]))
  /\ at[r] = "prompt_end" => ctx[r] = Messages(log) \o SubSeq(todo[r], pos[r] + 1, Len(todo[r]))
  /\ at[r] = "inject_end" => Append(ctx[r], cur[r]) = Messages(log)
  /\ at[r] = "resulted" => Append(ctx[r], Result) = Messages(log)
Shown == Setup \cup Level \cup {"prompt_start", "prompt_end", "inject_end", "resulted"}

(* While a run works the phase says so; compact() and navigate_tree() hold it when none
   does.  So nothing else writes into the session before the run stores it. *)
PhaseFits ==
  /\ \A r \in Runs : at[r] \in Setup \cup Working => phase = "turn"
  /\ op # "none" => phase # "idle" /\ \A r \in Runs : ~Active(r)

AllShow == \A r \in Runs : Shows(r)
Kept == PhaseFits /\ AllShow
SInv == WInv /\ HShapes /\ Stored /\ PhaseFits /\ AllShow

LEMMA MessagesGrow ==
  ASSUME NEW l \in Seq(Entries), NEW e \in Entries, e.kind # "setting"
  PROVE  Messages(Append(l, e)) = Append(Messages(l), e) /\ Messages(l) \in Seq(Entries)
<1> DEFINE T == {x \in Entries : x.kind # "setting"}
<1>1. e \in T
  OBVIOUS
<1>2. \A s : Messages(s) = Chosen(s, T)
  BY DEF Messages
<1> HIDE DEF T
<1>3. Chosen(Append(l, e), T) = Append(Chosen(l, T), e)
  BY <1>1, ChosenAppend
<1>4. Chosen(l, T) \in Seq(Entries)
  BY ChosenType
<1>. QED
  BY <1>2, <1>3, <1>4

LEMMA NoSetting ==
  /\ \A m \in Users : m.kind # "setting"
  /\ \A stop \in {"stop", "toolUse", "error"} : Reply(stop).kind # "setting"
  /\ Result.kind # "setting"
  BY EntryKinds

LEMMA OneFurther ==
  ASSUME NEW s \in Seq(Users), NEW i \in 1..Len(s)
  PROVE  SubSeq(s, i, Len(s)) = <<s[i]>> \o SubSeq(s, i + 1, Len(s))
<1> DEFINE a == SubSeq(s, i, Len(s))
           b == <<s[i]>> \o SubSeq(s, i + 1, Len(s))
<1>1. a \in Seq(Users) /\ SubSeq(s, i + 1, Len(s)) \in Seq(Users) /\ s[i] \in Users
  OBVIOUS
<1>2. <<s[i]>> \in Seq(Users) /\ b \in Seq(Users)
  BY <1>1
<1>3. Len(a) = Len(s) - i + 1 /\ Len(SubSeq(s, i + 1, Len(s))) = Len(s) - i
  OBVIOUS
<1>4. Len(b) = Len(s) - i + 1
  BY <1>1, <1>2, <1>3
<1>5. ASSUME NEW j \in 1..(Len(s) - i + 1) PROVE a[j] = s[i + j - 1] /\ b[j] = s[i + j - 1]
  BY <1>1, <1>3
<1>6. a = b
  <2> HIDE DEF a, b
  <2>. QED
    BY <1>1, <1>2, <1>3, <1>4, <1>5
<1>. QED
  BY <1>6

LEMMA Whole == ASSUME NEW s \in Seq(Users) PROVE SubSeq(s, 1, Len(s)) = s
  OBVIOUS

LEMMA Nothing ==
  ASSUME NEW s \in Seq(Users), NEW i \in Nat, i > Len(s) PROVE SubSeq(s, i, Len(s)) = <<>>
  OBVIOUS

LEMMA ConcatStep ==
  \A m, t \in Seq(Entries), e \in Entries : Append(m, e) \o t = m \o (<<e>> \o t)
<1> SUFFICES ASSUME NEW m \in Seq(Entries), NEW t \in Seq(Entries), NEW e \in Entries
             PROVE  Append(m, e) \o t = m \o (<<e>> \o t)
  OBVIOUS
<1>1. <<e>> \in Seq(Entries) /\ Append(m, e) = m \o <<e>>
  OBVIOUS
<1>. QED
  BY <1>1, ConcatAssociative

LEMMA NothingMore == \A m \in Seq(Entries) : m \o <<>> = m
  OBVIOUS

(* A run that is shown nothing, or whose context and session stay equal. *)
LEMMA Unshown ==
  ASSUME NEW r \in Runs, at'[r] \notin Shown PROVE Shows(r)'
  BY DEF Shows, Shown

LEMMA LevelKept ==
  ASSUME NEW r \in Runs, at'[r] \in Setup \cup Level, ctx'[r] = Messages(log')
  PROVE  Shows(r)'
  BY DEF Shows, Setup, Level

(* The run's own steps keep its context up with the session. *)
LEMMA RunShows ==
  ASSUME HShapes, HShapes', NEW r \in Runs, Shows(r), RunStep(r) \/ RunStarts(r) \/ Raises(r)
  PROVE  Shows(r)'
<1> USE DEF Shown, Setup, Level, Goto, clientVars, lists
<1>0. /\ HTyped /\ HTyped' /\ Fits(r) /\ r \in DOMAIN at /\ r \in DOMAIN ctx /\ r \in DOMAIN todo
      /\ log \in Seq(Entries) /\ ctx[r] \in Seq(Entries) /\ todo[r] \in Seq(Users)
      /\ Messages(log) \in Seq(Entries)
  <2>1. log \in Seq(Entries)
    BY DEF HShapes, HTyped
  <2>2. Messages(log) \in Seq(Entries)
    BY <2>1, ChosenType DEF Messages
  <2>. QED
    BY <2>1, <2>2 DEF HShapes, HTyped
<1>1. CASE Prompt(r)
  BY <1>0, <1>1, LevelKept DEF Prompt
<1>2. CASE Invoke(r) \/ AfterInvoke(r)
  BY <1>0, <1>2, Unshown DEF Invoke, AfterInvoke, Quit
<1>3. CASE AfterTurnState(r) \/ AfterNextUpdate(r)
  <2>1. /\ at[r] \in Setup /\ at'[r] \in Setup /\ UNCHANGED <<ctx, log>>
    BY <1>0, <1>3 DEF AfterTurnState, AfterNextUpdate
  <2>. QED
    BY <2>1, LevelKept DEF Shows
<1>4. CASE AfterBeforeStart(r)
  <2>1. /\ at'[r] = "prompt_start" /\ pos'[r] = 1 /\ UNCHANGED log
        /\ ctx'[r] = ctx[r] \o todo'[r] /\ ctx[r] = Messages(log)
    BY <1>0, <1>4 DEF AfterBeforeStart, HTyped, Shows
  <2>2. SubSeq(todo'[r], 1, Len(todo'[r])) = todo'[r]
    BY <1>0, Whole DEF HTyped
  <2>. QED
    BY <2>1, <2>2 DEF Shows
<1>5. CASE AfterPromptStart(r)
  <2> DEFINE t == todo[r]
             i == pos[r]
             e == cur[r]
             rest == SubSeq(t, i + 1, Len(t))
  <2>1. t \in Seq(Users) /\ i \in 1..Len(t) /\ e = t[i] /\ e \in Users
    BY <1>0, <1>5 DEF AfterPromptStart, Fits
  <2>2. /\ at'[r] = "prompt_end" /\ log' = Append(log, e) /\ ctx'[r] = ctx[r] /\ todo'[r] = t /\ pos'[r] = i
        /\ ctx[r] = Messages(log) \o SubSeq(t, i, Len(t))
    BY <1>0, <1>5 DEF AfterPromptStart, Shows
  <2> HIDE DEF t, i, e
  <2>3. e \in Entries /\ e.kind # "setting" /\ rest \in Seq(Entries)
    <3>1. rest \in Seq(Users)
      BY <2>1
    <3>. QED
      BY <2>1, <3>1, EntryKinds, NoSetting, SeqMonotonic
  <2>4. SubSeq(t, i, Len(t)) = <<e>> \o rest
    BY <2>1, OneFurther
  <2>5. Messages(log') = Append(Messages(log), e)
    BY <1>0, <2>2, <2>3, MessagesGrow
  <2> HIDE DEF rest
  <2>6. Append(Messages(log), e) \o rest = Messages(log) \o (<<e>> \o rest)
    BY <1>0, <2>3, ConcatStep
  <2>7. ctx'[r] = Messages(log') \o rest
    BY <2>2, <2>4, <2>5, <2>6
  <2>. QED
    BY <2>2, <2>7 DEF Shows, rest
<1>6. CASE AfterPromptEnd(r)
  <2>1. /\ ctx[r] = Messages(log) \o SubSeq(todo[r], pos[r] + 1, Len(todo[r]))
        /\ pos[r] \in Nat /\ UNCHANGED <<ctx, log>>
    BY <1>0, <1>6 DEF AfterPromptEnd, Shows, HTyped
  <2>2. CASE Announce(r, pos[r] + 1, "prompt_start") /\ UNCHANGED <<queue, todo, shared>>
    <3>1. at'[r] = "prompt_start" /\ pos'[r] = pos[r] + 1 /\ todo'[r] = todo[r]
      BY <1>0, <2>2 DEF Announce, HTyped
    <3>. QED
      BY <2>1, <3>1 DEF Shows
  <2>3. CASE pos[r] = Len(todo[r]) /\ \E pc \in {"first_drain", "provider"} : Goto(r, pc)
    <3>1. SubSeq(todo[r], pos[r] + 1, Len(todo[r])) = <<>>
      BY <1>0, <2>3, Nothing
    <3>2. ctx[r] = Messages(log)
      BY <1>0, <2>1, <3>1, NothingMore
    <3>3. at'[r] \in Level
      BY <1>0, <2>3
    <3>. QED
      BY <2>1, <3>2, <3>3, LevelKept
  <2>. QED
    BY <1>6, <2>2, <2>3 DEF AfterPromptEnd, Take
<1>7. CASE AfterTurnStart(r)
  <2>1. at'[r] \in {"inject_start", "provider"} /\ at[r] \in Level /\ UNCHANGED <<ctx, log>>
    BY <1>0, <1>7 DEF AfterTurnStart, Announce
  <2>. QED
    BY <2>1, LevelKept DEF Shows
<1>8. CASE AfterInjectStart(r)
  <2>1. cur[r] \in Entries /\ cur[r].kind # "setting" /\ ctx[r] = Messages(log)
    BY <1>0, <1>8, EntryKinds, NoSetting DEF AfterInjectStart, Fits, Shows
  <2>2. at'[r] = "inject_end" /\ log' = Append(log, cur[r]) /\ ctx'[r] = ctx[r] /\ cur'[r] = cur[r]
    BY <1>0, <1>8 DEF AfterInjectStart
  <2>3. Messages(log') = Append(Messages(log), cur[r])
    BY <1>0, <2>1, <2>2, MessagesGrow
  <2>. QED
    BY <2>1, <2>2, <2>3 DEF Shows
<1>9. CASE AfterInjectEnd(r)
  <2>1. /\ at'[r] \in {"inject_start", "provider"} /\ ctx'[r] = Append(ctx[r], cur[r])
        /\ UNCHANGED log /\ at[r] = "inject_end"
    BY <1>0, <1>9 DEF AfterInjectEnd, Announce
  <2>. QED
    BY <2>1, LevelKept DEF Shows
<1>10. CASE Replies(r)
  <2>1. PICK stop \in {"stop", "toolUse", "error"} :
          log' = Append(log, Reply(stop)) /\ ctx' = [ctx EXCEPT ![r] = Append(@, Reply(stop))]
    BY <1>10 DEF Replies
  <2>2. Messages(log') = Append(Messages(log), Reply(stop))
    BY <1>0, <2>1, EntryKinds, NoSetting, MessagesGrow
  <2>3. at'[r] = "replied" /\ ctx'[r] = Append(ctx[r], Reply(stop)) /\ ctx[r] = Messages(log)
    BY <1>0, <1>10, <2>1 DEF Replies, Shows
  <2>. QED
    BY <2>2, <2>3, LevelKept
<1>11. CASE AfterReply(r)
  <2>1. /\ at'[r] \in {"fail_turn_end", "tool", "turn_end"} /\ at[r] = "replied"
        /\ UNCHANGED <<ctx, log>>
    BY <1>0, <1>11 DEF AfterReply
  <2>. QED
    BY <2>1, LevelKept, Unshown DEF Shows
<1>12. CASE ToolEnds(r)
  <2>1. at'[r] = "resulted" /\ log' = Append(log, Result) /\ UNCHANGED ctx /\ ctx[r] = Messages(log)
    BY <1>0, <1>12 DEF ToolEnds, Shows
  <2>2. Messages(log') = Append(Messages(log), Result)
    BY <1>0, <2>1, EntryKinds, NoSetting, MessagesGrow
  <2>. QED
    BY <2>1, <2>2 DEF Shows
<1>13. CASE AfterResult(r) \/ AfterTurnEnd(r) \/ AfterFailSavePoint(r) \/ AfterAgentEnd(r)
  BY <1>0, <1>13, Unshown
     DEF AfterResult, AfterTurnEnd, SavePointOf, AfterFailSavePoint, End, AfterAgentEnd, Settle
<1>14. CASE AfterSavePoint(r)
  <2>1. at'[r] = "prepare" /\ ctx'[r] = Messages(log')
    BY <1>0, <1>14 DEF AfterSavePoint
  <2>. QED
    BY <2>1, LevelKept
<1>15. ASSUME at[r] \in Level, ctx' = ctx, PollFollowUp(r) PROVE Shows(r)'
  <2>1. CASE Take(r, "followUp", "drain_followUp") /\ UNCHANGED <<phase, log, writes>>
    <3>1. at'[r] \in Level /\ ctx'[r] = Messages(log')
      BY <1>0, <1>15, <2>1 DEF Take, Shows
    <3>. QED
      BY <3>1, LevelKept
  <2>2. CASE End(r)
    BY <1>0, <2>2, Unshown DEF End
  <2>. QED
    BY <1>15, <2>1, <2>2 DEF PollFollowUp
<1>16. ASSUME at[r] \in Level, at'[r] \in Level, UNCHANGED <<ctx, log>> PROVE Shows(r)'
  BY <1>16, LevelKept DEF Shows
<1>17. CASE AfterPrepare(r)
  <2>1. at[r] \in Level /\ UNCHANGED ctx
    BY <1>17 DEF AfterPrepare
  <2>2. CASE \E pc \in {"drain_steer", "turn_start"} : Goto(r, pc) /\ UNCHANGED log
    BY <1>0, <1>16, <2>1, <2>2
  <2>. QED
    BY <1>15, <1>17, <2>1, <2>2 DEF AfterPrepare, PollSteer, Take
<1>18. CASE AfterDrain(r)
  <2>1. at[r] \in Level /\ UNCHANGED ctx
    BY <1>18 DEF AfterDrain
  <2>2. CASE Goto(r, "turn_start") /\ UNCHANGED log
    BY <1>0, <1>16, <2>1, <2>2
  <2>3. CASE End(r)
    BY <1>0, <2>3, Unshown DEF End
  <2>. QED
    BY <1>15, <1>18, <2>1, <2>2, <2>3 DEF AfterDrain
<1>19. CASE AfterFailureStart(r) \/ AfterFailureEnd(r) \/ AfterFailureSavePoint(r)
  BY <1>0, <1>19, Unshown DEF AfterFailureStart, AfterFailureEnd, AfterFailureSavePoint
<1>20. CASE Raises(r)
  BY <1>0, <1>20, Unshown DEF Raises, SetupRaises, Quit, RunRaises, FailureRaises, Settle
<1>. QED
  BY <1>1, <1>2, <1>3, <1>4, <1>5, <1>6, <1>7, <1>8, <1>9, <1>10, <1>11, <1>12, <1>13,
     <1>14, <1>17, <1>18, <1>19, <1>20 DEF RunStep, RunStarts

(* No other run goes on while one takes a step. *)
LEMMA RunsAreAlone ==
  ASSUME ~Overlapping, WInv, NEW r \in Runs, RunStep(r) \/ RunStarts(r) \/ Raises(r)
  PROVE  /\ \A s \in Runs \ {r} : ~Active(s)
         /\ Active(r) \/ (at[r] = "new" /\ phase = "idle")
<1>1. Goes(r) \/ Ends(r) \/ Begins(r)
  BY Steps DEF WInv, Typed
<1>2. Active(r) => \A s \in Runs \ {r} : ~Active(s)
  BY DEF WInv, PromiseIsOfRun
<1>3. CASE RunStarts(r)
  BY <1>1, <1>2, <1>3 DEF RunStarts, Prompt, Invoke, Start, Begins, Goes, Ends
<1>4. CASE Active(r)
  BY <1>2, <1>4
<1>5. CASE RunStep(r) \/ Raises(r)
  <2>1. at[r] \notin {"new", "done"}
    BY <1>5 DEF RunStep, Raises, AfterInvoke, AfterTurnState, AfterNextUpdate, AfterBeforeStart,
       AfterPromptStart, AfterPromptEnd, AfterTurnStart, AfterInjectStart, AfterInjectEnd,
       Replies, AfterReply, ToolEnds, AfterResult, AfterTurnEnd, AfterSavePoint, AfterPrepare,
       AfterDrain, AfterFailSavePoint, AfterAgentEnd, AfterFailureStart, AfterFailureEnd,
       AfterFailureSavePoint, SetupRaises, RunRaises, FailureRaises, Setup, Working,
       HandlingFailure, Ending
  <2>. QED
    BY <1>4, <2>1 DEF Active
<1>. QED
  BY <1>3, <1>5

LEMMA OpStays ==
  ASSUME NEW r \in Runs, RunStep(r) \/ RunStarts(r) \/ Raises(r) PROVE op' = op
<1> USE DEF clientVars
<1>1. CASE RunStarts(r)
  BY <1>1 DEF RunStarts, Prompt, Invoke
<1>2. CASE Raises(r)
  BY <1>2 DEF Raises, SetupRaises, RunRaises, FailureRaises
<1>. QED
  BY <1>1, <1>2 DEF RunStep, AfterInvoke, AfterTurnState, AfterNextUpdate, AfterBeforeStart,
       AfterPromptStart, AfterPromptEnd, AfterTurnStart, AfterInjectStart, AfterInjectEnd,
       Replies, AfterReply, ToolEnds, AfterResult, AfterTurnEnd, AfterSavePoint, AfterPrepare,
       AfterDrain, AfterFailSavePoint, AfterAgentEnd, AfterFailureStart, AfterFailureEnd,
       AfterFailureSavePoint

(* A run that still works has not set the phase to idle. *)
LEMMA PhaseStays ==
  ASSUME HTyped, NEW r \in Runs, at[r] \in Setup \cup Working => phase = "turn",
         RunStep(r) \/ RunStarts(r) \/ Raises(r), at'[r] \in Setup \cup Working
  PROVE  phase' = "turn"
<1> USE DEF Setup, Working, Goto, clientVars
<1>0. r \in DOMAIN at
  BY DEF HTyped
<1>1. CASE RunStarts(r)
  BY <1>1 DEF RunStarts, Prompt, Invoke, Start
<1>2. CASE Raises(r)
  BY <1>0, <1>2 DEF Raises, SetupRaises, Quit, RunRaises, FailureRaises, Settle
<1>3. CASE \/ AfterTurnState(r) \/ AfterNextUpdate(r) \/ AfterBeforeStart(r)
           \/ AfterPromptStart(r) \/ AfterPromptEnd(r) \/ AfterTurnStart(r)
           \/ AfterInjectStart(r) \/ AfterInjectEnd(r) \/ Replies(r) \/ AfterReply(r)
           \/ ToolEnds(r) \/ AfterResult(r) \/ AfterSavePoint(r)
  BY <1>3 DEF AfterTurnState, AfterNextUpdate, AfterBeforeStart, AfterPromptStart,
     AfterPromptEnd, AfterTurnStart, AfterInjectStart, AfterInjectEnd, Replies, AfterReply,
     ToolEnds, AfterResult, AfterSavePoint
<1>4. CASE AfterTurnEnd(r)
  BY <1>0, <1>4 DEF AfterTurnEnd, SavePointOf
<1>5. CASE AfterInvoke(r) \/ AfterFailSavePoint(r) \/ AfterAgentEnd(r) \/ AfterFailureStart(r)
           \/ AfterFailureEnd(r) \/ AfterFailureSavePoint(r)
  BY <1>0, <1>5 DEF AfterInvoke, Quit, AfterFailSavePoint, End, AfterAgentEnd, Settle,
     AfterFailureStart, AfterFailureEnd, AfterFailureSavePoint
<1>6. CASE AfterPrepare(r) \/ AfterDrain(r)
  <2>1. phase = "turn"
    BY <1>6 DEF AfterPrepare, AfterDrain
  <2>2. phase' = phase \/ at'[r] = "agent_end"
    BY <1>0, <1>6 DEF AfterPrepare, AfterDrain, PollSteer, PollFollowUp, End
  <2>. QED
    BY <2>1, <2>2
<1>. QED
  BY <1>1, <1>2, <1>3, <1>4, <1>5, <1>6 DEF RunStep

LEMMA SessionKept ==
  ASSUME ~Overlapping, SInv, [Next]_vars PROVE SInv'
<1>1. WInv' /\ HShapes' /\ Stored'
  BY WaitersKept, ShapesHold, StoredKept DEF SInv
<1>2. HTyped /\ HTyped' /\ WInv /\ PhaseFits /\ AllShow /\ \A s \in Runs : Fits(s)
  BY <1>1 DEF SInv, HShapes
<1>3. ASSUME NEW r \in Runs, RunStep(r) \/ RunStarts(r) \/ Raises(r)
      PROVE  Kept'
  <2>1. Shaped(r) /\ op' = op
    BY <1>2, <1>3, RunShapes, OpStays
  <2>2. \A s \in Runs \ {r} : at'[s] \in {"new", "done"}
    BY <1>2, <1>3, <2>1, RunsAreAlone DEF Shaped, Apart, Active
  <2>3. ASSUME NEW s \in Runs \ {r} PROVE Shows(s)'
    BY <2>2, Unshown DEF Shown, Setup, Level
  <2>4. Shows(r)'
    BY <1>1, <1>2, <1>3, RunShows DEF SInv, AllShow
  <2>5. at'[r] \in Setup \cup Working => phase' = "turn"
    BY <1>2, <1>3, PhaseStays DEF PhaseFits
  <2>6. op = "none"
    BY <1>2, <1>3, RunsAreAlone DEF PhaseFits
  <2>7. PhaseFits'
    BY <2>1, <2>2, <2>5, <2>6 DEF PhaseFits, Setup, Working
  <2>. QED
    BY <2>3, <2>4, <2>7 DEF AllShow, Kept
<1>4. ASSUME UNCHANGED <<at, lists, ctx, log>> PROVE AllShow'
  BY <1>2, <1>4 DEF AllShow, Shows, lists
<1>5. ASSUME ClientStep \/ WaitStep \/ UNCHANGED vars PROVE Kept'
  <2>1. UNCHANGED <<at, lists, ctx>>
    BY <1>2, <1>5, ClientShapes
  <2>2. CASE \E lane \in QueueLanes : Queue(lane)
    <3>1. UNCHANGED <<phase, op, log>>
      BY <2>2 DEF Queue
    <3>2. PhaseFits'
      BY <1>2, <2>1, <3>1 DEF PhaseFits, Active
    <3>. QED
      BY <1>4, <2>1, <3>1, <3>2 DEF Kept
  <2>3. ASSUME NEW kind \in WriteKinds, WriteEntry(kind)
        PROVE  Kept'
    <3>1. PhaseFits' /\ UNCHANGED <<phase, op>>
      BY <1>2, <2>1, <2>3 DEF WriteEntry, PhaseFits, Active
    <3>2. CASE phase = "idle"
      <4>1. \A s \in Runs : at'[s] \notin Setup \cup Working
        BY <1>2, <2>1, <3>2 DEF PhaseFits
      <4>2. \A s \in Runs : at'[s] \notin Shown
        BY <4>1 DEF Shown, Level, Setup, Working
      <4>. QED
        BY <3>1, <4>2, Unshown DEF AllShow, Kept
    <3>3. CASE phase # "idle"
      BY <1>4, <2>1, <2>3, <3>1, <3>3 DEF WriteEntry, Kept
    <3>. QED
      BY <3>2, <3>3
  <2>4. CASE \E name \in {"compaction", "branch_summary"} : BeginOp(name)
    <3>1. /\ phase = "idle" /\ phase' \in {"compaction", "branch_summary"} /\ UNCHANGED log
          /\ \A s \in Runs : ~Active(s)
      BY <2>4 DEF BeginOp
    <3>2. PhaseFits'
      BY <2>1, <3>1 DEF PhaseFits, Active, Setup, Working
    <3>. QED
      BY <1>4, <2>1, <3>1, <3>2 DEF Kept
  <2>5. CASE EndOp
    <3>1. (\A s \in Runs : ~Active(s)) /\ op' = "none" /\ UNCHANGED log
      BY <1>2, <2>5 DEF EndOp, PhaseFits
    <3>2. PhaseFits'
      BY <2>1, <3>1 DEF PhaseFits, Active, Setup, Working
    <3>. QED
      BY <1>4, <2>1, <3>1, <3>2 DEF Kept
  <2>6. CASE WaitForIdle \/ Abort \/ WaitStep \/ UNCHANGED vars
    <3>1. UNCHANGED <<phase, op, log>>
      BY <2>6 DEF WaitForIdle, Abort, WaitStep, vars, clientVars
    <3>2. PhaseFits'
      BY <1>2, <2>1, <3>1 DEF PhaseFits, Active
    <3>. QED
      BY <1>4, <2>1, <3>1, <3>2 DEF Kept
  <2>. QED
    BY <1>5, <2>2, <2>3, <2>4, <2>5, <2>6 DEF ClientStep
<1>6. Kept'
  BY <1>3, <1>5 DEF Next
<1>. QED
  BY <1>1, <1>6 DEF SInv, Kept

LEMMA SessionBegins == Init => SInv
<1>1. Init => WInv
  BY NoRunIsNone DEF Init, WInv, Typed, Points, PromiseIsOfRun, Watched,
     WaitEndsAfterRuns, Nobody, Active
<1>2. Init => PhaseFits /\ AllShow
  BY DEF Init, PhaseFits, AllShow, Shows, Setup, Working, Level
<1>. QED
  BY <1>1, <1>2, ShapesBegin, StoredBegins DEF SInv

(* Each request shows the model exactly the messages the session keeps, and what other
   code asked to be stored is there once: for any number of runs, queued messages, writes
   and errors, provided no client starts a run before the last one has returned. *)
THEOREM SessionStaysTrue == ASSUME ~Overlapping PROVE Spec => []SessionIsTrue
<1>1. SInv /\ [Next]_vars => SInv'
  BY SessionKept
<1>2. SInv => SessionIsTrue
  <2> SUFFICES ASSUME SInv PROVE SessionIsTrue
    OBVIOUS
  <2>1. WritesStoredOnce
    BY StoredOnce DEF SInv, HShapes
  <2>2. RequestShowsSession
    BY DEF SInv, AllShow, Shows, Level, RequestShowsSession
  <2>. QED
    BY <2>1, <2>2 DEF SessionIsTrue
<1>. QED
  BY <1>1, <1>2, SessionBegins, PTL DEF Spec

-----------------------------------------------------------------------------
(* Delivery.  The numbers of messages. *)
LEMMA NumbersType ==
  ASSUME NEW s \in Seq(Users)
  PROVE  Numbers(s) \in Seq(Nat) /\ Len(Numbers(s)) = Len(s)
<1>1. \A m \in Users : m.id \in Nat
  BY DEF Users
<1>2. \A i \in 1..Len(s) : s[i].id \in Nat
  BY <1>1
<1>. QED
  BY <1>2 DEF Numbers

LEMMA NumbersConcat ==
  ASSUME NEW s \in Seq(Users), NEW t \in Seq(Users)
  PROVE  Numbers(s \o t) = Numbers(s) \o Numbers(t)
<1>1. s \o t \in Seq(Users)
  OBVIOUS
<1>2. Numbers(s) \in Seq(Nat) /\ Numbers(t) \in Seq(Nat) /\ Numbers(s \o t) \in Seq(Nat)
  BY <1>1, NumbersType
<1>3. /\ Len(Numbers(s \o t)) = Len(s) + Len(t)
      /\ Len(Numbers(s) \o Numbers(t)) = Len(s) + Len(t)
  <2>1. Len(s \o t) = Len(s) + Len(t)
    OBVIOUS
  <2>2. Len(Numbers(s) \o Numbers(t)) = Len(Numbers(s)) + Len(Numbers(t))
    BY <1>2, ConcatProperties
  <2>. QED
    BY <1>1, <2>1, <2>2, NumbersType
<1>4. \A i \in 1..Len(s) + Len(t) : Numbers(s \o t)[i] = (Numbers(s) \o Numbers(t))[i]
  BY <1>1 DEF Numbers
<1>5. Numbers(s) \o Numbers(t) \in Seq(Nat)
  BY <1>2, ConcatProperties
<1>. QED
  BY <1>2, <1>3, <1>4, <1>5, SeqEqual

LEMMA NumbersNothing == Numbers(<<>>) = <<>>
  BY DEF Numbers

LEMMA NumbersOne == ASSUME NEW m \in Users PROVE Numbers(<<m>>) = <<m.id>> /\ m.id \in Nat
  BY DEF Numbers, Users

LEMMA NothingAdded == \A s \in Seq(Users) : s \o <<>> = s /\ <<>> \o s = s
  OBVIOUS

(* What waits on a lane: the messages of it in hand, then those in its queue. *)
Queued(q, l) == IF l \in QueueLanes THEN q[l] ELSE <<>>
Waiting(h, q, l) == Chosen(h, UsersOf(l)) \o Queued(q, l)
Queues == [QueueLanes -> Seq(Users)]

LEMMA LaneSeq ==
  ASSUME NEW l \in Lanes, NEW s \in Seq(UsersOf(l))
  PROVE  /\ s \in Seq(Users) /\ Chosen(s, UsersOf(l)) = s
         /\ \A k \in Lanes \ {l} : Chosen(s, UsersOf(k)) = <<>>
<1>1. UsersOf(l) \subseteq Users
  BY DEF UsersOf
<1>2. Chosen(s, UsersOf(l)) = s
  BY ChosenAll
<1>3. ASSUME NEW k \in Lanes \ {l} PROVE Chosen(s, UsersOf(k)) = <<>>
  <2>1. UsersOf(l) \cap UsersOf(k) = {}
    BY <1>3 DEF UsersOf
  <2>. QED
    BY <2>1, ChosenNone
<1>. QED
  BY <1>1, <1>2, <1>3, SeqMonotonic

LEMMA ChosenUsers ==
  ASSUME NEW l, NEW h \in Seq(Users)
  PROVE  Chosen(h, UsersOf(l)) \in Seq(Users)
  BY ChosenType

LEMMA ChosenJoin ==
  ASSUME NEW l, NEW s \in Seq(Users), NEW t \in Seq(Users)
  PROVE  Chosen(s \o t, UsersOf(l)) = Chosen(s, UsersOf(l)) \o Chosen(t, UsersOf(l))
  BY ChosenConcat

LEMMA QueuedTyped ==
  ASSUME NEW l, NEW q \in Queues PROVE Queued(q, l) \in Seq(Users)
  BY DEF Queued, Queues

LEMMA WaitsAre ==
  ASSUME NEW h \in Seq(Users), NEW q \in Queues
  PROVE  /\ Waits(h, q) = [l \in Lanes |-> Numbers(Waiting(h, q, l))]
         /\ \A l \in Lanes : Waiting(h, q, l) \in Seq(Users)
<1>1. ASSUME NEW l \in Lanes
      PROVE  /\ Waiting(h, q, l) \in Seq(Users)
             /\ Waits(h, q)[l] = Numbers(Waiting(h, q, l))
  <2> DEFINE a == Chosen(h, UsersOf(l))
             b == Queued(q, l)
  <2>1. a \in Seq(Users) /\ b \in Seq(Users)
    BY ChosenUsers, QueuedTyped
  <2>2. Waits(h, q)[l] = Numbers(a) \o Numbers(b)
    BY NumbersNothing DEF Waits, Queued
  <2>3. Waiting(h, q, l) = a \o b
    BY DEF Waiting
  <2> HIDE DEF a, b
  <2>. QED
    BY <2>1, <2>2, <2>3, NumbersConcat
<1>2. Waits(h, q) = [l \in Lanes |-> Waits(h, q)[l]]
  BY DEF Waits
<1>. QED
  BY <1>1, <1>2

(* Taking messages from the front of a queue, or putting them back, moves them past no
   other of their lane. *)
Moved(h, q, i, p, l, t) ==
  /\ i = t \o h /\ Chosen(h, UsersOf(l)) = <<>>
  /\ \E rest \in Seq(Users) : q[l] = t \o rest /\ p = [q EXCEPT ![l] = rest]

LEMMA MovedSame ==
  ASSUME NEW h \in Seq(Users), NEW q \in Queues, NEW i, NEW p, NEW l \in QueueLanes,
         NEW t \in Seq(UsersOf(l)), Moved(h, q, i, p, l, t)
  PROVE  Waits(i, p) = Waits(h, q)
<1>1. l \in Lanes
  BY DEF Lanes
<1> PICK rest \in Seq(Users) : q[l] = t \o rest /\ p = [q EXCEPT ![l] = rest]
  BY DEF Moved
<1>2. Chosen(h, UsersOf(l)) = <<>>
  BY DEF Moved
<1>3. t \in Seq(Users) /\ t \o h \in Seq(Users) /\ p \in Queues
  <2>1. t \in Seq(Users)
    BY <1>1, LaneSeq
  <2>. QED
    BY <2>1 DEF Queues
<1>4. ASSUME NEW k \in Lanes PROVE Waiting(t \o h, p, k) = Waiting(h, q, k)
  <2>1. Chosen(t \o h, UsersOf(k)) = Chosen(t, UsersOf(k)) \o Chosen(h, UsersOf(k))
    BY <1>3, ChosenJoin
  <2>2. CASE k = l
    <3>1. Chosen(t \o h, UsersOf(k)) = t \o <<>>
      BY <1>1, <1>2, <2>1, <2>2, LaneSeq
    <3>2. Queued(p, k) = rest /\ Queued(q, k) = t \o rest
      BY <2>2 DEF Queued, Queues
    <3>3. (t \o <<>>) \o rest = <<>> \o (t \o rest)
      BY <1>3
    <3>. QED
      BY <1>2, <2>2, <3>1, <3>2, <3>3 DEF Waiting
  <2>3. CASE k # l
    <3>1. Chosen(t, UsersOf(k)) = <<>>
      BY <1>1, <2>3, LaneSeq
    <3>2. Queued(p, k) = Queued(q, k)
      BY <2>3 DEF Queued, Queues
    <3>3. Chosen(h, UsersOf(k)) \in Seq(Users)
      BY ChosenUsers
    <3>4. <<>> \o Chosen(h, UsersOf(k)) = Chosen(h, UsersOf(k))
      BY <3>3, ConcatEmptySeq
    <3>. QED
      BY <2>1, <3>1, <3>2, <3>4 DEF Waiting
  <2>. QED
    BY <2>2, <2>3
<1> DEFINE f == [k \in Lanes |-> Numbers(Waiting(t \o h, p, k))]
           g == [k \in Lanes |-> Numbers(Waiting(h, q, k))]
<1>5. Waits(t \o h, p) = f /\ Waits(h, q) = g
  BY <1>3, WaitsAre
<1>6. f = g
  BY <1>4
<1> HIDE DEF f, g
<1>. QED
  BY <1>5, <1>6 DEF Moved

\* Message m is added to what lane l has waiting, or is the first one there and leaves.
Added(w, v, l, m) == v = [w EXCEPT ![l] = Append(@, m.id)]
Served(w, v, l, m) ==
  w[l] # <<>> /\ Head(w[l]) = m.id /\ v = [w EXCEPT ![l] = Tail(@)]

LEMMA AppendOne ==
  ASSUME NEW S, NEW s \in Seq(S), NEW e \in S PROVE s \o <<e>> = Append(s, e)
  OBVIOUS

LEMMA AppendLast ==
  \A s, t \in Seq(Users), e \in Users : s \o Append(t, e) = (s \o t) \o <<e>>
<1> SUFFICES ASSUME NEW s \in Seq(Users), NEW t \in Seq(Users), NEW e \in Users
             PROVE  s \o Append(t, e) = (s \o t) \o <<e>>
  OBVIOUS
<1>1. Append(t, e) = t \o <<e>> /\ <<e>> \in Seq(Users)
  OBVIOUS
<1>. QED
  BY <1>1, ConcatAssociative

(* One lane's sequence changes, the others' are the same. *)
OthersSame(h, q, i, p, l) == \A k \in Lanes \ {l} : Waiting(i, p, k) = Waiting(h, q, k)
LaneGains(h, q, i, p, l, m) ==
  OthersSame(h, q, i, p, l) /\ Waiting(i, p, l) = Waiting(h, q, l) \o <<m>>
LaneServes(h, q, i, p, l, m) ==
  OthersSame(h, q, i, p, l) /\ Waiting(h, q, l) = <<m>> \o Waiting(i, p, l)

LEMMA LaneAdded ==
  ASSUME NEW h \in Seq(Users), NEW q \in Queues, NEW i \in Seq(Users), NEW p \in Queues,
         NEW l \in Lanes, NEW m \in Users, LaneGains(h, q, i, p, l, m)
  PROVE  Added(Waits(h, q), Waits(i, p), l, m)
<1>1. /\ Waits(i, p) = [k \in Lanes |-> Numbers(Waiting(i, p, k))]
      /\ Waits(h, q) = [k \in Lanes |-> Numbers(Waiting(h, q, k))]
      /\ Waiting(i, p, l) \in Seq(Users) /\ Waiting(h, q, l) \in Seq(Users)
      /\ \A k \in Lanes \ {l} : Waiting(i, p, k) = Waiting(h, q, k)
  BY WaitsAre DEF OthersSame, LaneGains
<1> DEFINE a == Waiting(h, q, l)
           b == Waiting(i, p, l)
<1>2. Added(Waits(h, q), Waits(i, p), l, m)
  <2>1. Numbers(b) = Numbers(a) \o <<m.id>> /\ m.id \in Nat
    <3>1. <<m>> \in Seq(Users)
      OBVIOUS
    <3> HIDE DEF a, b
    <3>2. Numbers(a \o <<m>>) = Numbers(a) \o Numbers(<<m>>)
      BY <1>1, <3>1, NumbersConcat DEF a
    <3>. QED
      BY <3>2, NumbersOne DEF a, b, LaneGains
  <2>2. Numbers(b) = Append(Numbers(a), m.id)
    BY <1>1, <2>1, NumbersType, AppendOne
  <2>. QED
    BY <1>1, <2>2 DEF Added
<1>. QED
  BY <1>2

LEMMA LaneServed ==
  ASSUME NEW h \in Seq(Users), NEW q \in Queues, NEW i \in Seq(Users), NEW p \in Queues,
         NEW l \in Lanes, NEW m \in Users, LaneServes(h, q, i, p, l, m)
  PROVE  Served(Waits(h, q), Waits(i, p), l, m)
<1>1. /\ Waits(i, p) = [k \in Lanes |-> Numbers(Waiting(i, p, k))]
      /\ Waits(h, q) = [k \in Lanes |-> Numbers(Waiting(h, q, k))]
      /\ Waiting(i, p, l) \in Seq(Users) /\ Waiting(h, q, l) \in Seq(Users)
      /\ \A k \in Lanes \ {l} : Waiting(i, p, k) = Waiting(h, q, k)
  BY WaitsAre DEF OthersSame, LaneServes
<1> DEFINE a == Waiting(h, q, l)
           b == Waiting(i, p, l)
<1>2. Served(Waits(h, q), Waits(i, p), l, m)
  <2>1. Numbers(a) = <<m.id>> \o Numbers(b) /\ m.id \in Nat
    <3>1. <<m>> \in Seq(Users)
      OBVIOUS
    <3> HIDE DEF a, b
    <3>2. Numbers(<<m>> \o b) = Numbers(<<m>>) \o Numbers(b)
      BY <1>1, <3>1, NumbersConcat DEF b
    <3>. QED
      BY <3>2, NumbersOne DEF a, b, LaneServes
  <2> DEFINE n == m.id
             c == Numbers(b)
  <2>2. c \in Seq(Nat) /\ n \in Nat /\ Numbers(a) = <<n>> \o c
    BY <1>1, <2>1, NumbersType
  <2> HIDE DEF n, c
  <2>3. <<n>> \o c # <<>> /\ Head(<<n>> \o c) = n /\ Tail(<<n>> \o c) = c
    BY <2>2
  <2>4. Numbers(a) # <<>> /\ Head(Numbers(a)) = n /\ Tail(Numbers(a)) = c
    BY <2>2, <2>3
  <2> DEFINE W == Waits(h, q)
             V == Waits(i, p)
  <2>5. /\ W[l] = Numbers(a) /\ V[l] = c /\ \A k \in Lanes \ {l} : V[k] = W[k]
        /\ W = [k \in Lanes |-> W[k]] /\ V = [k \in Lanes |-> V[k]]
    BY <1>1 DEF c
  <2> HIDE DEF W, V
  <2>6. W[l] # <<>> /\ Head(W[l]) = n /\ V = [W EXCEPT ![l] = Tail(@)]
    BY <2>4, <2>5
  <2>. QED
    BY <2>6 DEF n, W, V, Served
<1>. QED
  BY <1>2

(* A message is queued. *)
LEMMA QueuedWaits ==
  ASSUME NEW h \in Seq(Users), NEW q \in Queues, NEW l \in QueueLanes, NEW m \in UsersOf(l)
  PROVE  Added(Waits(h, q), Waits(h, [q EXCEPT ![l] = Append(@, m)]), l, m)
<1> DEFINE p == [q EXCEPT ![l] = Append(q[l], m)]
           c == Chosen(h, UsersOf(l))
<1>1. m \in Users /\ l \in Lanes /\ q[l] \in Seq(Users) /\ c \in Seq(Users)
  BY ChosenUsers DEF UsersOf, Lanes, Queues
<1>2. p \in Queues
  BY <1>1 DEF Queues
<1>3. OthersSame(h, q, h, p, l)
  BY DEF Waiting, Queued, Queues, OthersSame
<1>4. Waiting(h, p, l) = c \o Append(q[l], m) /\ Waiting(h, q, l) = c \o q[l]
  BY DEF Waiting, Queued, Queues
<1> HIDE DEF p, c
<1>5. c \o Append(q[l], m) = (c \o q[l]) \o <<m>>
  BY <1>1, AppendLast, Zenon
<1>6. LaneGains(h, q, h, p, l, m)
  BY <1>3, <1>4, <1>5 DEF LaneGains
<1>7. Added(Waits(h, q), Waits(h, p), l, m)
  BY <1>1, <1>2, <1>6, LaneAdded
<1>. QED
  BY <1>7 DEF p

(* A message comes with the run that takes it. *)
LEMMA HandedWaits ==
  ASSUME NEW h \in Seq(Users), NEW q \in Queues, NEW l \in Lanes \ QueueLanes, NEW m \in UsersOf(l)
  PROVE  Added(Waits(h, q), Waits(h \o <<m>>, q), l, m)
<1>1. m \in Users /\ <<m>> \in Seq(UsersOf(l)) /\ <<m>> \in Seq(Users)
  BY DEF UsersOf
<1>2. h \o <<m>> \in Seq(Users)
  BY <1>1
<1>3. \A k \in Lanes : Chosen(h \o <<m>>, UsersOf(k)) = Chosen(h, UsersOf(k)) \o Chosen(<<m>>, UsersOf(k))
  BY <1>1, ChosenJoin
<1>4. /\ Chosen(<<m>>, UsersOf(l)) = <<m>>
      /\ \A k \in Lanes \ {l} : Chosen(<<m>>, UsersOf(k)) = <<>>
  BY <1>1, LaneSeq
<1>5. \A k \in Lanes : Chosen(h, UsersOf(k)) \in Seq(Users)
  BY ChosenUsers
<1>6. OthersSame(h, q, h \o <<m>>, q, l)
  BY <1>3, <1>4, <1>5, NothingAdded DEF Waiting, OthersSame
<1>7. Waiting(h \o <<m>>, q, l) = Waiting(h, q, l) \o <<m>>
  <2> DEFINE c == Chosen(h, UsersOf(l))
  <2>1. c \in Seq(Users) /\ Chosen(h \o <<m>>, UsersOf(l)) = c \o <<m>>
    BY <1>3, <1>4, <1>5
  <2>2. Waiting(h \o <<m>>, q, l) = (c \o <<m>>) \o <<>> /\ Waiting(h, q, l) = c \o <<>>
    BY <2>1 DEF Waiting, Queued
  <2> HIDE DEF c
  <2>3. c \o <<m>> \in Seq(Users)
    BY <1>1, <2>1
  <2>4. (c \o <<m>>) \o <<>> = c \o <<m>> /\ c \o <<>> = c
    BY <2>1, <2>3, NothingAdded
  <2>. QED
    BY <2>2, <2>4
<1>8. LaneGains(h, q, h \o <<m>>, q, l, m)
  BY <1>6, <1>7 DEF LaneGains
<1>. QED
  BY <1>1, <1>2, <1>8, LaneAdded

(* The first message in hand is stored. *)
LEMMA StoredWaits ==
  ASSUME NEW h \in Seq(Users), NEW q \in Queues, NEW m \in Users
  PROVE  m.lane \in Lanes /\ Served(Waits(<<m>> \o h, q), Waits(h, q), m.lane, m)
<1> DEFINE l == m.lane
           c == Chosen(h, UsersOf(l))
           d == Queued(q, l)
<1>1. l \in Lanes /\ m \in UsersOf(l) /\ <<m>> \in Seq(UsersOf(l)) /\ <<m>> \in Seq(Users)
  BY DEF Users, UsersOf
<1>2. <<m>> \o h \in Seq(Users) /\ c \in Seq(Users) /\ d \in Seq(Users)
  BY <1>1, ChosenUsers, QueuedTyped
<1>3. \A k \in Lanes : Chosen(<<m>> \o h, UsersOf(k)) = Chosen(<<m>>, UsersOf(k)) \o Chosen(h, UsersOf(k))
  BY <1>1, ChosenJoin
<1> HIDE DEF l
<1>4. /\ Chosen(<<m>>, UsersOf(l)) = <<m>>
      /\ \A k \in Lanes \ {l} : Chosen(<<m>>, UsersOf(k)) = <<>>
  BY <1>1, LaneSeq
<1>5. \A k \in Lanes : Chosen(h, UsersOf(k)) \in Seq(Users)
  BY ChosenUsers
<1>6. OthersSame(<<m>> \o h, q, h, q, l)
  BY <1>3, <1>4, <1>5, NothingAdded DEF Waiting, OthersSame
<1>7. Waiting(<<m>> \o h, q, l) = (<<m>> \o c) \o d /\ Waiting(h, q, l) = c \o d
  BY <1>1, <1>3, <1>4 DEF Waiting
<1> HIDE DEF c, d
<1>8. (<<m>> \o c) \o d = <<m>> \o (c \o d)
  BY <1>1, <1>2, ConcatAssociative
<1>9. LaneServes(<<m>> \o h, q, h, q, l, m)
  BY <1>6, <1>7, <1>8 DEF LaneServes
<1>10. Served(Waits(<<m>> \o h, q), Waits(h, q), l, m)
  BY <1>1, <1>2, <1>9, LaneServed
<1>. QED
  BY <1>1, <1>10 DEF l

(* What is in hand, or what is queued, is dropped. *)
LEMMA WaitsOf ==
  ASSUME NEW h \in Seq(Users), NEW q \in Queues, NEW l \in Lanes
  PROVE  /\ Waits(h, q)[l] = Numbers(Chosen(h, UsersOf(l))) \o Numbers(Queued(q, l))
         /\ Numbers(Chosen(h, UsersOf(l))) \in Seq(Nat) /\ Numbers(Queued(q, l)) \in Seq(Nat)
  BY NumbersNothing, NumbersType, ChosenUsers, QueuedTyped DEF Waits, Queued

LEMMA DroppedWaits ==
  ASSUME NEW h \in Seq(Users), NEW q \in Queues, NEW l \in Lanes
  PROVE  EndOf(Waits(h, q)[l], Waits(<<>>, q)[l])
<1> DEFINE a == Numbers(Chosen(h, UsersOf(l)))
           b == Numbers(Queued(q, l))
<1>1. Waits(h, q)[l] = a \o b /\ a \in Seq(Nat) /\ b \in Seq(Nat)
  BY WaitsOf
<1>2. Waits(<<>>, q)[l] = <<>> \o b
  <2> DEFINE e == <<>>
  <2>1. e \in Seq(Users) /\ Chosen(e, UsersOf(l)) = <<>>
    BY ChosenNothing
  <2> HIDE DEF e
  <2>2. Waits(e, q)[l] = Numbers(Chosen(e, UsersOf(l))) \o Numbers(Queued(q, l))
    BY <2>1, WaitsOf
  <2>. QED
    BY <2>1, <2>2, NumbersNothing DEF e
<1> HIDE DEF a, b
<1>3. <<>> \o b = b /\ EndOf(a \o b, b)
  BY <1>1, EndsOf
<1>. QED
  BY <1>1, <1>2, <1>3

LEMMA ClearedWaits ==
  ASSUME NEW h \in Seq(Users), NEW q \in Queues, NEW p \in Queues, NEW l \in Lanes,
         \A k \in QueueLanes : p[k] \in {q[k], <<>>}
  PROVE  EndOf(Waits(h, q)[l], Waits(h, p)[l])
<1> DEFINE a == Numbers(Chosen(h, UsersOf(l)))
           b == Numbers(Queued(q, l))
           c == Numbers(Queued(p, l))
<1>1. /\ Waits(h, q)[l] = a \o b /\ Waits(h, p)[l] = a \o c
      /\ a \in Seq(Nat) /\ b \in Seq(Nat)
  BY WaitsOf
<1>2. c = b \/ c = <<>>
  BY NumbersNothing DEF Queued
<1> HIDE DEF a, b, c
<1>3. a \o b \in Seq(Nat) /\ a \o <<>> = a
  BY <1>1
<1>4. EndOf(a \o b, a \o b) /\ EndOf(a \o b, a)
  BY <1>1, <1>3, EndsOf
<1>. QED
  BY <1>1, <1>2, <1>3, <1>4

(* What a run has in hand, by what it is suspended on, its list and how far it is. *)
HandOf(pc, t, i) ==
  SubSeq(t, IF pc \in {"prompt_end", "inject_end"} THEN i + 1 ELSE IF i = 0 THEN 1 ELSE i, Len(t))
Announcing == {"prompt_start", "prompt_end", "inject_start", "inject_end"}

LEMMA HandIs ==
  ASSUME NEW t \in Seq(Users), NEW pc
  PROVE  /\ pc \notin Announcing => HandOf(pc, t, 0) = t
         /\ pc \notin {"prompt_end", "inject_end"} => HandOf(pc, t, 1) = t
         /\ \A i \in 1..Len(t) : HandOf(pc, t, i) \in Seq(Users)
         /\ \A i \in 0..Len(t) : Len(t) <= i => SubSeq(t, i + 1, Len(t)) = <<>>
         /\ \A i \in 1..Len(t) : SubSeq(t, i, Len(t)) = <<t[i]>> \o SubSeq(t, i + 1, Len(t))
<1>1. SubSeq(t, 1, Len(t)) = t
  OBVIOUS
<1>2. \A i \in 1..Len(t) + 1 : SubSeq(t, i, Len(t)) \in Seq(Users)
  OBVIOUS
<1>3. \A i \in 0..Len(t) : Len(t) <= i => SubSeq(t, i + 1, Len(t)) = <<>>
  OBVIOUS
<1>4. \A i \in 1..Len(t) : SubSeq(t, i, Len(t)) = <<t[i]>> \o SubSeq(t, i + 1, Len(t))
  <2> TAKE i \in 1..Len(t)
  <2> DEFINE a == SubSeq(t, i, Len(t))
             b == SubSeq(t, i + 1, Len(t))
             c == <<t[i]>> \o b
  <2>1. /\ a \in Seq(Users) /\ Len(a) = Len(t) - i + 1
        /\ \A k \in 1..Len(a) : a[k] = t[i + k - 1]
    OBVIOUS
  <2>2. /\ b \in Seq(Users) /\ Len(b) = Len(t) - i
        /\ \A k \in 1..Len(b) : b[k] = t[i + k]
    OBVIOUS
  <2>3. t[i] \in Users /\ Len(t) \in Nat
    OBVIOUS
  <2> HIDE DEF a, b
  <2>4. c \in Seq(Users) /\ Len(c) = Len(b) + 1 /\ c[1] = t[i] /\ \A k \in 1..Len(b) : c[k + 1] = b[k]
    BY <2>2, <2>3
  <2> HIDE DEF c
  <2>5. \A k \in 1..Len(a) : a[k] = c[k]
    <3> TAKE k \in 1..Len(a)
    <3>1. CASE k = 1
      BY <2>1, <2>4, <3>1
    <3>2. CASE k # 1
      <4>1. k - 1 \in 1..Len(b) /\ (k - 1) + 1 = k /\ i + (k - 1) = i + k - 1
        BY <2>1, <2>2, <2>3, <3>2
      <4>. QED
        BY <2>1, <2>2, <2>4, <4>1
    <3>. QED
      BY <3>1, <3>2
  <2>6. a = c
    BY <2>1, <2>2, <2>3, <2>4, <2>5, SeqEqual
  <2>. QED
    BY <2>6 DEF a, b, c
<1>. QED
  BY <1>1, <1>2, <1>3, <1>4 DEF HandOf, Announcing

-----------------------------------------------------------------------------
(* What a run has in its list is of the lane it took it from, in its order; its queues
   are of one lane each.  The lists are the runs' own, as the queues are drained one
   message at a time. *)
Holding ==
  Setup \cup Announcing \cup {"first_drain", "turn_start", "drain_steer", "drain_followUp"}
Sorted == \A l \in QueueLanes : queue[l] \in Seq(UsersOf(l))
OnLane(r) ==
  /\ at[r] = "turn_state" => \E m \in UsersOf("prompt") : todo[r] = <<m>>
  /\ at[r] = "next_update" =>
       \E t \in Seq(UsersOf("nextTurn")), m \in UsersOf("prompt") : todo[r] = t \o <<m>>
  /\ at[r] \in {"first_drain", "drain_steer"} => todo[r] \in Seq(UsersOf("steer"))
  /\ at[r] = "drain_followUp" => todo[r] \in Seq(UsersOf("followUp"))
  /\ at[r] \notin Holding => todo[r] = <<>>
  /\ at[r] \notin Announcing => pos[r] = 0
  /\ at[r] \in Announcing => pos[r] \in 1..Len(todo[r]) /\ cur[r] = todo[r][pos[r]]
  /\ shared[r] = "none"

(* The steps of a run as its messages see them. *)
Quiet == UNCHANGED log \/ Flush \/ \E e \in Entries \ Users : log' = Append(log, e)
Unasked == counts'.messages = counts.messages
HandKept(r) == Quiet /\ Unasked /\ UNCHANGED queue /\ InHand(r)' = InHand(r)
HandTakes(r) ==
  /\ Quiet /\ Unasked
  /\ \E l \in QueueLanes : \E t \in Seq(UsersOf(l)), rest \in Seq(Users) :
       /\ queue[l] = t \o rest /\ queue' = [queue EXCEPT ![l] = rest]
       /\ Chosen(InHand(r), UsersOf(l)) = <<>> /\ InHand(r)' = t \o InHand(r)
HandGets(r) ==
  /\ UNCHANGED <<log, queue>> /\ counts'.messages = NextId
  /\ \E l \in {"prompt", "hook"} : InHand(r)' = InHand(r) \o <<User(NextId, l)>>
HandStores(r) ==
  /\ Unasked /\ UNCHANGED queue
  /\ \E m \in Users : log' = Append(log, m) /\ InHand(r) = <<m>> \o InHand(r)'
HandReturns(r) ==
  /\ Quiet /\ Unasked /\ InHand(r)' = <<>>
  /\ \E l \in QueueLanes : \E t \in Seq(UsersOf(l)), h \in Seq(Users) :
       /\ InHand(r) = t \o h /\ Chosen(h, UsersOf(l)) = <<>>
       /\ queue' = [queue EXCEPT ![l] = t \o @]
HandEmpties(r) == Quiet /\ Unasked /\ UNCHANGED queue /\ InHand(r)' = <<>>

HandStep(r) ==
  \/ HandKept(r) \/ HandTakes(r) \/ HandGets(r) \/ HandStores(r) \/ HandReturns(r)
  \/ HandEmpties(r)
Handles(r) == HandStep(r) /\ OnLane(r)' /\ Sorted'

LEMMA HandFacts ==
  ASSUME HTyped, NEW r \in Runs, OnLane(r)
  PROVE  /\ InHand(r) = HandOf(at[r], todo[r], pos[r]) /\ InHand(r) \in Seq(Users)
         /\ at[r] \notin Announcing => InHand(r) = todo[r]
         /\ at[r] \notin Holding => InHand(r) = <<>>
         /\ List(r) = todo[r] /\ todo[r] \in Seq(Users) /\ pos[r] \in Nat
<1>1. todo[r] \in Seq(Users) /\ List(r) = todo[r] /\ pos[r] \in Nat
  BY DEF HTyped, OnLane, List
<1>2. InHand(r) = HandOf(at[r], todo[r], pos[r])
  BY DEF InHand, HandOf
<1>3. at[r] \notin Announcing => InHand(r) = todo[r]
  BY <1>1, <1>2, HandIs DEF OnLane
<1>4. InHand(r) \in Seq(Users)
  BY <1>1, <1>2, <1>3, HandIs DEF OnLane
<1>5. Announcing \subseteq Holding
  BY DEF Holding
<1>. QED
  BY <1>1, <1>2, <1>3, <1>4, <1>5 DEF OnLane

(* Where a run goes on: its list is empty, or it has just been taken. *)
LEMMA AtNext ==
  ASSUME HTyped, NEW r \in Runs, NEW pc, Goto(r, pc)
  PROVE  at'[r] = pc /\ InHand(r)' = HandOf(pc, todo'[r], pos'[r])
  BY DEF HTyped, Goto, InHand, HandOf

Plain == Points \ (Announcing \cup {"turn_state", "next_update"})

LEMMA EmptyHands ==
  ASSUME HTyped, Sorted, NEW r \in Runs, NEW pc \in Plain,
         Goto(r, pc), todo'[r] = <<>>, pos'[r] = 0, shared'[r] = "none"
  PROVE  OnLane(r)' /\ InHand(r)' = <<>>
<1>1. at'[r] = pc /\ InHand(r)' = HandOf(pc, todo'[r], pos'[r])
  BY AtNext
<1>2. <<>> \in Seq(Users) /\ <<>> \in Seq(UsersOf("steer")) /\ <<>> \in Seq(UsersOf("followUp"))
  OBVIOUS
<1>3. HandOf(pc, <<>>, 0) = <<>>
  BY <1>2, HandIs DEF Plain
<1>. QED
  BY <1>1, <1>2, <1>3 DEF OnLane, Plain

LEMMA QuietHands ==
  ASSUME HTyped, Sorted, NEW r \in Runs, NEW pc \in Plain,
         Goto(r, pc), todo'[r] = <<>>, pos'[r] = 0, shared'[r] = "none",
         InHand(r) = <<>>, UNCHANGED queue, Quiet, Unasked
  PROVE  Handles(r)
  BY EmptyHands DEF Handles, HandStep, HandKept, Sorted

DrainsSingly == \A l \in {"steer", "followUp"} : Modes[l] = {"one-at-a-time"}

LEMMA NothingTaken ==
  ASSUME HTyped, DrainsSingly, NEW r \in Runs, NEW l \in {"steer", "followUp"}, TakeNothing(r, l)
  PROVE  todo'[r] = <<>> /\ pos'[r] = 0 /\ shared'[r] = "none" /\ UNCHANGED queue
  BY DEF HTyped, TakeNothing, DrainsSingly

LEMMA TakeHands ==
  ASSUME HTyped, DrainsSingly, Sorted, NEW r \in Runs, NEW l \in {"steer", "followUp"}, NEW pc,
         \/ l = "steer" /\ pc \in {"first_drain", "drain_steer"}
         \/ l = "followUp" /\ pc = "drain_followUp",
         Take(r, l, pc), InHand(r) = <<>>, Quiet, Unasked
  PROVE  Handles(r)
<1> DEFINE m == Head(queue[l])
           rest == Tail(queue[l])
<1>1. l \in QueueLanes /\ l \in Lanes
  BY DEF QueueLanes, Lanes
<1>2. queue[l] # <<>> /\ queue[l] \in Seq(UsersOf(l)) /\ UsersOf(l) \subseteq Users
  BY <1>1 DEF Take, Sorted, UsersOf
<1>3. m \in UsersOf(l) /\ rest \in Seq(UsersOf(l)) /\ queue[l] = <<m>> \o rest
  BY <1>2
<1>4. /\ queue' = [queue EXCEPT ![l] = rest] /\ todo'[r] = <<m>> /\ shared'[r] = "none"
      /\ pos'[r] = 0 /\ Goto(r, pc)
  BY DEF Take, DrainsSingly, HTyped
<1> HIDE DEF m, rest
<1>5. <<m>> \in Seq(UsersOf(l)) /\ <<m>> \in Seq(Users) /\ rest \in Seq(Users)
  BY <1>2, <1>3
<1>6. at'[r] = pc /\ InHand(r)' = <<m>>
  <2>1. HandOf(pc, <<m>>, 0) = <<m>>
    BY <1>5, HandIs DEF Announcing
  <2>. QED
    BY <1>4, <2>1, AtNext
<1>7. Sorted'
  <2>1. \A k \in QueueLanes : queue'[k] = IF k = l THEN rest ELSE queue[k]
    BY <1>1, <1>4 DEF HTyped
  <2>. QED
    BY <1>3, <2>1 DEF Sorted
<1>8. OnLane(r)'
  BY <1>4, <1>5, <1>6 DEF OnLane, Holding, Announcing
<1>9. HandTakes(r)
  <2>1. Chosen(<<>>, UsersOf(l)) = <<>> /\ <<m>> \o <<>> = <<m>>
    BY <1>5, ChosenNothing, NothingAdded
  <2>2. Chosen(InHand(r), UsersOf(l)) = <<>> /\ InHand(r)' = <<m>> \o InHand(r)
    BY <1>6, <2>1
  <2>. QED
    BY <1>1, <1>3, <1>4, <1>5, <2>2 DEF HandTakes
<1>. QED
  BY <1>7, <1>8, <1>9 DEF Handles, HandStep

(* Before the loop. *)
LEMMA Asked ==
  ASSUME HTyped, NEW l \in Lanes
  PROVE  /\ User(NextId, l) \in UsersOf(l) /\ User(NextId, l) \in Users
         /\ <<User(NextId, l)>> \in Seq(Users) /\ User(NextId, l).id = NextId
<1>1. NextId \in Nat
  BY DEF HTyped, NextId
<1>2. User(NextId, l) \in Users
  BY <1>1, EntryKinds
<1>3. User(NextId, l).lane = l /\ User(NextId, l).id = NextId
  BY DEF User
<1>. QED
  BY <1>2, <1>3 DEF UsersOf

LEMMA SpentMessage ==
  ASSUME HTyped, Spend("messages", MaxMessages) PROVE counts'.messages = NextId
  BY DEF HTyped, Spend, NextId

LEMMA SpentOther ==
  ASSUME HTyped, NEW what \in {"writes", "tools", "ops", "raises"}, NEW max, Spend(what, max)
  PROVE  Unasked
  BY DEF HTyped, Spend, Unasked

LEMMA PromptHands ==
  ASSUME HTyped, Sorted, NEW r \in Runs, OnLane(r), Prompt(r) PROVE Handles(r)
<1> DEFINE m == User(NextId, "prompt")
<1>1. m \in UsersOf("prompt") /\ <<m>> \in Seq(Users)
  BY Asked DEF Lanes
<1>2. InHand(r) = <<>>
  BY HandFacts DEF Prompt, Start, Holding, Announcing, Setup
<1>3. /\ todo'[r] = <<m>> /\ pos'[r] = pos[r] /\ shared'[r] = shared[r] /\ at[r] = "new"
      /\ UNCHANGED <<queue, log>> /\ counts'.messages = NextId /\ Goto(r, "turn_state")
  BY SpentMessage DEF Prompt, Start, HTyped
<1> HIDE DEF m
<1>4. pos[r] = 0 /\ shared[r] = "none"
  BY <1>3 DEF OnLane, Announcing
<1>5. at'[r] = "turn_state" /\ InHand(r)' = <<m>>
  <2>1. HandOf("turn_state", <<m>>, 0) = <<m>>
    BY <1>1, HandIs DEF Announcing
  <2>. QED
    BY <1>3, <1>4, <2>1, AtNext
<1>6. OnLane(r)' /\ Sorted'
  BY <1>1, <1>3, <1>4, <1>5 DEF OnLane, Holding, Setup, Announcing, Sorted
<1>7. <<>> \o <<m>> = <<m>>
  BY <1>1, NothingAdded
<1>8. InHand(r)' = InHand(r) \o <<m>>
  BY <1>2, <1>5, <1>7
<1>9. HandGets(r)
  BY <1>3, <1>8 DEF HandGets, m
<1>. QED
  BY <1>6, <1>9 DEF Handles, HandStep

LEMMA TurnStateHands ==
  ASSUME HTyped, Sorted, NEW r \in Runs, OnLane(r), AfterTurnState(r) PROVE Handles(r)
<1>1. /\ at[r] = "turn_state" /\ shared'[r] = "none" /\ pos[r] = 0 /\ pos'[r] = 0
      /\ InHand(r) = todo[r] /\ Quiet /\ Unasked
  BY HandFacts DEF AfterTurnState, OnLane, Announcing, Quiet, Unasked, clientVars
<1>2. PICK m \in UsersOf("prompt") : todo[r] = <<m>>
  BY <1>1 DEF OnLane
<1> DEFINE q == queue["nextTurn"]
<1>3. /\ "nextTurn" \in QueueLanes /\ "nextTurn" \in Lanes /\ "prompt" \in Lanes
      /\ q \in Seq(UsersOf("nextTurn")) /\ q \in Seq(Users) /\ <<m>> \in Seq(UsersOf("prompt"))
      /\ <<m>> \in Seq(Users) /\ <<>> \in Seq(Users) /\ Chosen(<<m>>, UsersOf("nextTurn")) = <<>>
  <2>1. "nextTurn" \in QueueLanes /\ "nextTurn" \in Lanes \ {"prompt"} /\ "prompt" \in Lanes
    BY DEF QueueLanes, Lanes
  <2>2. q \in Seq(UsersOf("nextTurn")) /\ <<m>> \in Seq(UsersOf("prompt"))
    BY <2>1 DEF Sorted
  <2> HIDE DEF q
  <2>3. q \in Seq(Users)
    BY <2>1, <2>2, LaneSeq
  <2>4. <<m>> \in Seq(Users) /\ Chosen(<<m>>, UsersOf("nextTurn")) = <<>>
    <3> DEFINE s == <<m>>
    <3> HIDE DEF s
    <3>1. s \in Seq(UsersOf("prompt"))
      BY <2>2 DEF s
    <3>2. s \in Seq(Users) /\ Chosen(s, UsersOf("nextTurn")) = <<>>
      BY <2>1, <3>1, LaneSeq
    <3>. QED
      BY <3>2 DEF s
  <2>. QED
    BY <2>1, <2>2, <2>3, <2>4
<1>4. CASE q # <<>>
  <2>1. /\ todo'[r] = q \o <<m>> /\ queue' = [queue EXCEPT !["nextTurn"] = <<>>]
        /\ Goto(r, "next_update")
    BY <1>2, <1>4 DEF AfterTurnState, HTyped
  <2> HIDE DEF q
  <2>2. q \o <<m>> \in Seq(Users)
    BY <1>3
  <2>3. at'[r] = "next_update" /\ InHand(r)' = q \o <<m>>
    <3>1. HandOf("next_update", q \o <<m>>, 0) = q \o <<m>>
      BY <2>2, HandIs DEF Announcing
    <3>. QED
      BY <1>1, <2>1, <3>1, AtNext
  <2>4. OnLane(r)'
    BY <1>1, <1>2, <1>3, <2>1, <2>3 DEF OnLane, Holding, Setup, Announcing
  <2>5. Sorted'
    <3>1. \A k \in QueueLanes : queue'[k] = IF k = "nextTurn" THEN <<>> ELSE queue[k]
      BY <1>3, <2>1 DEF HTyped
    <3>2. \A k \in QueueLanes : <<>> \in Seq(UsersOf(k))
      OBVIOUS
    <3>. QED
      BY <3>1, <3>2 DEF Sorted
  <2>6. HandTakes(r)
    <3>1. Chosen(<<m>>, UsersOf("nextTurn")) = <<>> /\ q \o <<>> = q
      BY <1>3, NothingAdded
    <3>2. queue["nextTurn"] = q \o <<>>
      BY <3>1 DEF q
    <3>3. Chosen(InHand(r), UsersOf("nextTurn")) = <<>> /\ InHand(r)' = q \o InHand(r)
      BY <1>1, <1>2, <2>3, <3>1
    <3>. QED
      BY <1>1, <1>3, <2>1, <3>2, <3>3 DEF HandTakes
  <2>. QED
    BY <2>4, <2>5, <2>6 DEF Handles, HandStep
<1>5. CASE q = <<>>
  <2>1. UNCHANGED <<todo, queue>> /\ Goto(r, "before_start")
    BY <1>5 DEF AfterTurnState
  <2>2. at'[r] = "before_start" /\ InHand(r)' = <<m>>
    <3>1. HandOf("before_start", <<m>>, 0) = <<m>>
      BY <1>3, HandIs DEF Announcing
    <3>. QED
      BY <1>1, <1>2, <2>1, <3>1, AtNext
  <2>3. OnLane(r)' /\ Sorted'
    BY <1>1, <2>1, <2>2 DEF OnLane, Holding, Setup, Announcing, Sorted
  <2>. QED
    BY <1>1, <1>2, <2>1, <2>2, <2>3 DEF Handles, HandStep, HandKept
<1>. QED
  BY <1>4, <1>5

LEMMA NextUpdateHands ==
  ASSUME HTyped, Sorted, NEW r \in Runs, OnLane(r), AfterNextUpdate(r) PROVE Handles(r)
<1>1. /\ at[r] = "next_update" /\ shared'[r] = "none" /\ pos[r] = 0 /\ pos'[r] = 0
      /\ InHand(r) = todo[r] /\ Quiet /\ Unasked /\ todo[r] \in Seq(Users)
      /\ Goto(r, "before_start") /\ UNCHANGED <<todo, queue>>
  BY HandFacts DEF AfterNextUpdate, OnLane, Announcing, Quiet, Unasked, clientVars, lists
<1>2. at'[r] = "before_start" /\ InHand(r)' = todo[r]
  <2>1. HandOf("before_start", todo[r], 0) = todo[r]
    BY <1>1, HandIs DEF Announcing
  <2>. QED
    BY <1>1, <2>1, AtNext
<1>3. OnLane(r)' /\ Sorted'
  BY <1>1, <1>2 DEF OnLane, Holding, Setup, Announcing, Sorted
<1>. QED
  BY <1>1, <1>2, <1>3 DEF Handles, HandStep, HandKept

LEMMA BeforeStartHands ==
  ASSUME HTyped, Sorted, NEW r \in Runs, OnLane(r), Fits(r), AfterBeforeStart(r) PROVE Handles(r)
<1>1. /\ at[r] = "before_start" /\ shared'[r] = "none" /\ InHand(r) = todo[r]
      /\ todo[r] \in Seq(Users) /\ todo[r] # <<>> /\ Goto(r, "prompt_start")
      /\ UNCHANGED <<log, queue>> /\ pos'[r] = 1 /\ cur'[r] = todo'[r][1]
  BY HandFacts DEF AfterBeforeStart, OnLane, Announcing, Fits, Setup, HTyped
<1>2. Sorted'
  BY <1>1 DEF Sorted
<1>3. ASSUME todo'[r] \in Seq(Users), todo'[r] # <<>>
      PROVE  InHand(r)' = todo'[r] /\ OnLane(r)'
  <2>1. HandOf("prompt_start", todo'[r], 1) = todo'[r]
    BY <1>3, HandIs
  <2>2. at'[r] = "prompt_start" /\ InHand(r)' = todo'[r]
    BY <1>1, <2>1, AtNext
  <2>. QED
    BY <1>1, <1>3, <2>2 DEF OnLane, Holding, Setup, Announcing
<1>4. CASE UNCHANGED <<todo, counts>>
  BY <1>1, <1>2, <1>3, <1>4 DEF Handles, HandStep, HandKept, Quiet, Unasked
<1>5. CASE Spend("messages", MaxMessages) /\ todo' = [todo EXCEPT ![r] = Append(@, User(NextId, "hook"))]
  <2> DEFINE m == User(NextId, "hook")
  <2>1. m \in Users /\ "hook" \in {"prompt", "hook"}
    BY Asked DEF Lanes
  <2>2. todo'[r] = Append(todo[r], m)
    BY <1>5 DEF HTyped
  <2> HIDE DEF m
  <2>3. todo'[r] = todo[r] \o <<m>> /\ todo'[r] \in Seq(Users) /\ todo'[r] # <<>>
    BY <1>1, <2>1, <2>2
  <2>4. InHand(r)' = InHand(r) \o <<m>> /\ OnLane(r)'
    BY <1>1, <1>3, <2>3
  <2>5. HandGets(r)
    BY <1>1, <1>5, <2>1, <2>4, SpentMessage DEF HandGets, m
  <2>. QED
    BY <1>2, <2>4, <2>5 DEF Handles, HandStep
<1>. QED
  BY <1>4, <1>5 DEF AfterBeforeStart

(* The loops over a list of messages. *)
LEMMA HandedFacts ==
  ASSUME HTyped, NEW r \in Runs, OnLane(r), at[r] \in Announcing
  PROVE  /\ pos[r] \in 1..Len(todo[r]) /\ Len(todo[r]) \in Nat /\ cur[r] = todo[r][pos[r]] /\ cur[r] \in Users
         /\ at[r] \in {"prompt_start", "inject_start"} =>
              InHand(r) = <<cur[r]>> \o SubSeq(todo[r], pos[r] + 1, Len(todo[r]))
         /\ at[r] \in {"prompt_end", "inject_end"} =>
              InHand(r) = SubSeq(todo[r], pos[r] + 1, Len(todo[r]))
<1>1. /\ pos[r] \in 1..Len(todo[r]) /\ cur[r] = todo[r][pos[r]] /\ todo[r] \in Seq(Users)
      /\ InHand(r) = HandOf(at[r], todo[r], pos[r])
  BY HandFacts DEF OnLane
<1>2. Len(todo[r]) \in Nat /\ cur[r] \in Users /\ pos[r] # 0
  BY <1>1
<1>3. SubSeq(todo[r], pos[r], Len(todo[r])) = <<todo[r][pos[r]]>> \o SubSeq(todo[r], pos[r] + 1, Len(todo[r]))
  BY <1>1, HandIs
<1>. QED
  BY <1>1, <1>2, <1>3 DEF HandOf

LEMMA AnnounceHands ==
  ASSUME HTyped, Sorted, NEW r \in Runs, OnLane(r), NEW i \in Nat \ {0},
         NEW pc \in {"prompt_start", "inject_start"}, Announce(r, i, pc),
         UNCHANGED <<todo, shared, queue>>, InHand(r) = SubSeq(todo[r], i, Len(todo[r])),
         Quiet, Unasked
  PROVE  Handles(r)
<1>1. List(r) = todo[r] /\ todo[r] \in Seq(Users) /\ shared[r] = "none"
  BY HandFacts DEF OnLane
<1>2. pos'[r] = i /\ cur'[r] = todo[r][i] /\ i \in 1..Len(todo[r])
  BY <1>1, AnnounceTyped
<1>3. Goto(r, pc)
  BY DEF Announce
<1>4. at'[r] = pc /\ InHand(r)' = InHand(r)
  BY <1>2, <1>3, AtNext DEF HandOf
<1>5. OnLane(r)' /\ Sorted'
  BY <1>1, <1>2, <1>4 DEF OnLane, Holding, Setup, Announcing, Sorted
<1>. QED
  BY <1>4, <1>5 DEF Handles, HandStep, HandKept

LEMMA StartHands ==
  ASSUME HTyped, Sorted, NEW r \in Runs, OnLane(r), AfterPromptStart(r) \/ AfterInjectStart(r)
  PROVE  Handles(r)
<1>1. PICK pc \in {"prompt_end", "inject_end"} : Goto(r, pc)
  BY DEF AfterPromptStart, AfterInjectStart
<1>2. /\ at[r] \in {"prompt_start", "inject_start"} /\ log' = Append(log, cur[r])
      /\ UNCHANGED <<queue, todo, shared, pos, cur, counts>>
  BY DEF AfterPromptStart, AfterInjectStart, lists, clientVars
<1>3. /\ pos[r] \in 1..Len(todo[r]) /\ cur[r] = todo[r][pos[r]] /\ cur[r] \in Users
      /\ InHand(r) = <<cur[r]>> \o SubSeq(todo[r], pos[r] + 1, Len(todo[r])) /\ shared[r] = "none"
  BY <1>2, HandedFacts DEF Announcing, OnLane
<1>4. at'[r] = pc /\ InHand(r)' = SubSeq(todo[r], pos[r] + 1, Len(todo[r]))
  BY <1>1, <1>2, AtNext DEF HandOf
<1>5. OnLane(r)' /\ Sorted'
  BY <1>2, <1>3, <1>4 DEF OnLane, Holding, Setup, Announcing, Sorted
<1>6. HandStores(r)
  BY <1>2, <1>3, <1>4 DEF HandStores, Unasked
<1>. QED
  BY <1>5, <1>6 DEF Handles, HandStep

LEMMA PromptEndHands ==
  ASSUME HTyped, DrainsSingly, Sorted, NEW r \in Runs, OnLane(r), AfterPromptEnd(r) PROVE Handles(r)
<1>1. /\ at[r] = "prompt_end" /\ pos[r] \in 1..Len(todo[r]) /\ Len(todo[r]) \in Nat
      /\ InHand(r) = SubSeq(todo[r], pos[r] + 1, Len(todo[r])) /\ todo[r] \in Seq(Users)
      /\ Quiet /\ Unasked
  BY HandedFacts, HandFacts DEF AfterPromptEnd, Announcing, Quiet, Unasked, clientVars
<1>2. CASE Announce(r, pos[r] + 1, "prompt_start") /\ UNCHANGED <<queue, todo, shared>>
  <2>1. pos[r] + 1 \in Nat \ {0}
    BY <1>1
  <2>. QED
    BY <1>1, <1>2, <2>1, AnnounceHands
<1>3. ASSUME pos[r] = Len(todo[r]) PROVE InHand(r) = <<>>
  BY <1>1, <1>3, HandIs
<1>4. CASE pos[r] = Len(todo[r]) /\ Take(r, "steer", "first_drain")
  BY <1>1, <1>3, <1>4, TakeHands
<1>5. CASE pos[r] = Len(todo[r]) /\ TakeNothing(r, "steer") /\ Goto(r, "provider")
  <2>1. "provider" \in Plain
    BY DEF Plain, Points, Working, Announcing
  <2>2. todo'[r] = <<>> /\ pos'[r] = 0 /\ shared'[r] = "none" /\ UNCHANGED queue
    BY <1>5, NothingTaken
  <2>. QED
    BY <1>1, <1>3, <1>5, <2>1, <2>2, QuietHands
<1>. QED
  BY <1>2, <1>4, <1>5 DEF AfterPromptEnd

LEMMA TurnStartHands ==
  ASSUME HTyped, Sorted, NEW r \in Runs, OnLane(r), AfterTurnStart(r) PROVE Handles(r)
<1>1. /\ at[r] \in {"turn_start", "first_drain"} /\ InHand(r) = todo[r] /\ List(r) = todo[r]
      /\ todo[r] \in Seq(Users) /\ pos[r] = 0 /\ shared[r] = "none" /\ UNCHANGED queue
      /\ Quiet /\ Unasked
  BY HandFacts DEF AfterTurnStart, Announcing, OnLane, Quiet, Unasked, clientVars
<1>2. CASE Announce(r, 1, "inject_start") /\ UNCHANGED <<todo, shared>>
  <2>1. SubSeq(todo[r], 1, Len(todo[r])) = todo[r]
    BY <1>1
  <2>. QED
    BY <1>1, <1>2, <2>1, AnnounceHands
<1>3. CASE List(r) = <<>> /\ Goto(r, "provider") /\ UNCHANGED lists
  <2>1. "provider" \in Plain
    BY DEF Plain, Points, Working, Announcing
  <2>2. todo'[r] = <<>> /\ pos'[r] = 0 /\ shared'[r] = "none"
    BY <1>1, <1>3 DEF lists
  <2>. QED
    BY <1>1, <1>3, <2>1, <2>2, QuietHands
<1>. QED
  BY <1>2, <1>3 DEF AfterTurnStart

LEMMA NoListLeft ==
  ASSUME HTyped, NEW r \in Runs, NoList(r)
  PROVE  todo'[r] = <<>> /\ pos'[r] = 0 /\ shared'[r] = "none"
  BY DEF HTyped, NoList

LEMMA InjectEndHands ==
  ASSUME HTyped, Sorted, NEW r \in Runs, OnLane(r), AfterInjectEnd(r) PROVE Handles(r)
<1>1. /\ at[r] = "inject_end" /\ pos[r] \in 1..Len(todo[r]) /\ Len(todo[r]) \in Nat
      /\ InHand(r) = SubSeq(todo[r], pos[r] + 1, Len(todo[r])) /\ todo[r] \in Seq(Users)
      /\ List(r) = todo[r] /\ UNCHANGED queue /\ Quiet /\ Unasked
  BY HandedFacts, HandFacts DEF AfterInjectEnd, Announcing, Quiet, Unasked, clientVars
<1>2. CASE Announce(r, pos[r] + 1, "inject_start") /\ UNCHANGED <<todo, shared>>
  <2>1. pos[r] + 1 \in Nat \ {0}
    BY <1>1
  <2>. QED
    BY <1>1, <1>2, <2>1, AnnounceHands
<1>3. CASE pos[r] >= Len(List(r)) /\ NoList(r) /\ Goto(r, "provider")
  <2>1. "provider" \in Plain
    BY DEF Plain, Points, Working, Announcing
  <2>2. InHand(r) = <<>>
    BY <1>1, <1>3, HandIs
  <2>. QED
    BY <1>1, <1>3, <2>1, <2>2, NoListLeft, QuietHands
<1>. QED
  BY <1>2, <1>3 DEF AfterInjectEnd

(* Steps of a run that has nothing in hand. *)
LEMMA IdleHands ==
  ASSUME HTyped, Sorted, NEW r \in Runs, OnLane(r), at[r] \notin Holding, NEW pc \in Plain,
         Goto(r, pc), UNCHANGED <<queue, lists>> \/ (UNCHANGED queue /\ NoList(r)), Quiet, Unasked
  PROVE  Handles(r)
<1>1. InHand(r) = <<>> /\ todo[r] = <<>> /\ pos[r] = 0 /\ shared[r] = "none"
  BY HandFacts DEF OnLane, Holding
<1>2. todo'[r] = <<>> /\ pos'[r] = 0 /\ shared'[r] = "none" /\ UNCHANGED queue
  BY <1>1, NoListLeft DEF lists
<1>. QED
  BY <1>1, <1>2, QuietHands

LEMMA NotUsers ==
  /\ Result \in Entries \ Users
  /\ \A stop \in {"stop", "toolUse", "error"} : Reply(stop) \in Entries \ Users
<1>1. \A stop : Reply(stop).kind # "user"
  BY DEF Reply
<1>2. Result.kind # "user"
  BY DEF Result
<1>. QED
  BY <1>1, <1>2, EntryKinds

LEMMA ReplyHands ==
  ASSUME HTyped, Sorted, NEW r \in Runs, OnLane(r),
         Replies(r) \/ AfterReply(r) \/ ToolEnds(r) \/ AfterResult(r) \/ Invoke(r) \/ AfterInvoke(r)
  PROVE  Handles(r)
<1> USE DEF Plain, Points, Setup, Working, HandlingFailure, Ending, Holding, Announcing
<1>1. CASE Replies(r)
  <2>1. PICK stop \in {"stop", "toolUse", "error"} :
          /\ IF stop = "toolUse" THEN Spend("tools", MaxTools) ELSE UNCHANGED counts
          /\ log' = Append(log, Reply(stop))
    BY <1>1 DEF Replies
  <2>2. Quiet
    BY <2>1, NotUsers DEF Quiet
  <2>3. Unasked
    BY <2>1, SpentOther DEF Unasked
  <2>4. "provider" \notin Holding /\ "replied" \in Plain
    OBVIOUS
  <2>. QED
    BY <1>1, <2>2, <2>3, <2>4, IdleHands DEF Replies
<1>2. CASE AfterReply(r)
  <2>1. PICK pc \in {"fail_turn_end", "tool", "turn_end"} : Goto(r, pc)
    BY <1>2 DEF AfterReply
  <2>2. "replied" \notin Holding /\ pc \in Plain
    OBVIOUS
  <2>. QED
    BY <1>2, <2>1, <2>2, IdleHands DEF AfterReply, Quiet, Unasked, clientVars
<1>3. CASE ToolEnds(r)
  <2>1. "tool" \notin Holding /\ "resulted" \in Plain
    OBVIOUS
  <2>2. Quiet
    BY <1>3, NotUsers DEF ToolEnds, Quiet
  <2>. QED
    BY <1>3, <2>1, <2>2, IdleHands DEF ToolEnds, Unasked, clientVars
<1>4. CASE AfterResult(r)
  <2>1. "resulted" \notin Holding /\ "turn_end" \in Plain
    OBVIOUS
  <2>. QED
    BY <1>4, <2>1, IdleHands DEF AfterResult, Quiet, Unasked, clientVars
<1>5. CASE Invoke(r)
  <2>1. "new" \notin Holding /\ "invoke" \in Plain
    OBVIOUS
  <2>2. Quiet /\ Unasked
    BY <1>5, SpentOther DEF Invoke, Quiet
  <2>. QED
    BY <1>5, <2>1, <2>2, IdleHands DEF Invoke, Start
<1>6. CASE AfterInvoke(r)
  <2>1. "invoke" \notin Holding /\ "done" \in Plain
    OBVIOUS
  <2>. QED
    BY <1>6, <2>1, IdleHands DEF AfterInvoke, Quit, Quiet, Unasked, clientVars
<1>. QED
  BY <1>1, <1>2, <1>3, <1>4, <1>5, <1>6

LEMMA TurnEndHands ==
  ASSUME HTyped, Sorted, NEW r \in Runs, OnLane(r),
         \/ AfterTurnEnd(r) \/ AfterSavePoint(r) \/ AfterFailSavePoint(r) \/ AfterAgentEnd(r)
         \/ AfterFailureStart(r) \/ AfterFailureEnd(r) \/ AfterFailureSavePoint(r)
  PROVE  Handles(r)
<1> USE DEF Plain, Points, Setup, Working, HandlingFailure, Ending, Holding, Announcing
<1>1. CASE AfterTurnEnd(r)
  <2>1. PICK pc \in {"save_point", "fail_save_point", "hf_save_point"} : Goto(r, pc)
    BY <1>1 DEF AfterTurnEnd, SavePointOf
  <2>2. at[r] \notin Holding /\ pc \in Plain
    BY <1>1 DEF AfterTurnEnd
  <2>. QED
    BY <1>1, <2>1, <2>2, IdleHands DEF AfterTurnEnd, Quiet, Unasked, clientVars
<1>2. CASE AfterSavePoint(r)
  <2>1. "save_point" \notin Holding /\ "prepare" \in Plain
    OBVIOUS
  <2>. QED
    BY <1>2, <2>1, IdleHands DEF AfterSavePoint, Quiet, Unasked, clientVars
<1>3. CASE AfterFailSavePoint(r)
  <2>1. "fail_save_point" \notin Holding /\ "agent_end" \in Plain
    OBVIOUS
  <2>. QED
    BY <1>3, <2>1, IdleHands DEF AfterFailSavePoint, End, Quiet, Unasked, clientVars
<1>4. CASE AfterAgentEnd(r)
  <2>1. at[r] \notin Holding /\ "done" \in Plain
    BY <1>4 DEF AfterAgentEnd
  <2>. QED
    BY <1>4, <2>1, IdleHands DEF AfterAgentEnd, Settle, Quiet, Unasked, clientVars
<1>5. CASE AfterFailureStart(r)
  <2>1. "hf_start" \notin Holding /\ "hf_end" \in Plain
    OBVIOUS
  <2>2. Quiet
    BY <1>5, NotUsers DEF AfterFailureStart, Quiet
  <2>. QED
    BY <1>5, <2>1, <2>2, IdleHands DEF AfterFailureStart, Unasked, clientVars
<1>6. CASE AfterFailureEnd(r)
  <2>1. "hf_end" \notin Holding /\ "hf_turn_end" \in Plain
    OBVIOUS
  <2>. QED
    BY <1>6, <2>1, IdleHands DEF AfterFailureEnd, Quiet, Unasked, clientVars
<1>7. CASE AfterFailureSavePoint(r)
  <2>1. "hf_save_point" \notin Holding /\ "hf_agent_end" \in Plain
    OBVIOUS
  <2>. QED
    BY <1>7, <2>1, IdleHands DEF AfterFailureSavePoint, Quiet, Unasked, clientVars
<1>. QED
  BY <1>1, <1>2, <1>3, <1>4, <1>5, <1>6, <1>7

LEMMA PollHands ==
  ASSUME HTyped, DrainsSingly, Sorted, NEW r \in Runs, InHand(r) = <<>>, PollFollowUp(r), Unasked
  PROVE  Handles(r)
<1>1. CASE Take(r, "followUp", "drain_followUp") /\ UNCHANGED <<phase, log, writes>>
  BY <1>1, TakeHands DEF Quiet
<1>2. CASE TakeNothing(r, "followUp") /\ End(r)
  <2>1. "agent_end" \in Plain
    BY DEF Plain, Points, Ending, Announcing
  <2>2. todo'[r] = <<>> /\ pos'[r] = 0 /\ shared'[r] = "none" /\ UNCHANGED queue
    BY <1>2, NothingTaken
  <2>. QED
    BY <1>2, <2>1, <2>2, QuietHands DEF End, Quiet
<1>. QED
  BY <1>1, <1>2 DEF PollFollowUp

LEMMA PrepareHands ==
  ASSUME HTyped, DrainsSingly, Sorted, NEW r \in Runs, OnLane(r), AfterPrepare(r)
  PROVE  Handles(r)
<1>1. InHand(r) = <<>> /\ Unasked /\ PollSteer(r)
  BY HandFacts DEF AfterPrepare, Holding, Setup, Announcing, Unasked, clientVars
<1>2. CASE Take(r, "steer", "drain_steer") /\ UNCHANGED <<phase, log, writes>>
  BY <1>1, <1>2, TakeHands DEF Quiet
<1>3. CASE TakeNothing(r, "steer") /\ Goto(r, "turn_start") /\ UNCHANGED <<phase, log, writes>>
  <2>1. "turn_start" \in Plain
    BY DEF Plain, Points, Working, Announcing
  <2>2. todo'[r] = <<>> /\ pos'[r] = 0 /\ shared'[r] = "none" /\ UNCHANGED queue
    BY <1>3, NothingTaken
  <2>. QED
    BY <1>1, <1>3, <2>1, <2>2, QuietHands DEF Quiet
<1>. QED
  BY <1>1, <1>2, <1>3, PollHands DEF PollSteer

LEMMA DrainHands ==
  ASSUME HTyped, DrainsSingly, Sorted, NEW r \in Runs, OnLane(r), AfterDrain(r)
  PROVE  Handles(r)
<1>1. /\ at[r] \in {"drain_steer", "drain_followUp"} /\ InHand(r) = todo[r] /\ List(r) = todo[r]
      /\ todo[r] \in Seq(Users) /\ pos[r] = 0 /\ shared[r] = "none" /\ Unasked
  BY HandFacts DEF AfterDrain, OnLane, Announcing, Unasked, clientVars
<1>2. CASE Goto(r, "turn_start") /\ UNCHANGED <<phase, log, writes, queue, lists>>
  <2>1. at'[r] = "turn_start" /\ InHand(r)' = InHand(r)
    <3>1. HandOf("turn_start", todo[r], 0) = todo[r]
      BY <1>1, HandIs DEF Announcing
    <3>. QED
      BY <1>1, <1>2, <3>1, AtNext DEF lists
  <2>2. OnLane(r)' /\ Sorted'
    BY <1>1, <1>2, <2>1 DEF OnLane, Holding, Setup, Announcing, Sorted, lists
  <2>. QED
    BY <1>1, <1>2, <2>1, <2>2 DEF Handles, HandStep, HandKept, Quiet
<1>3. CASE List(r) = <<>> /\ PollFollowUp(r)
  BY <1>1, <1>3, PollHands
<1>4. CASE List(r) = <<>> /\ End(r) /\ UNCHANGED <<queue, lists>>
  <2>1. "agent_end" \in Plain
    BY DEF Plain, Points, Ending, Announcing
  <2>2. todo'[r] = <<>> /\ pos'[r] = 0 /\ shared'[r] = "none" /\ UNCHANGED queue
    BY <1>1, <1>4 DEF lists
  <2>. QED
    BY <1>1, <1>4, <2>1, <2>2, QuietHands DEF End, Quiet
<1>. QED
  BY <1>2, <1>3, <1>4 DEF AfterDrain

(* Messages go back to the front of the queue they are of; others are gone. *)
LEMMA BackHands ==
  ASSUME HTyped, Sorted, NEW r \in Runs, NEW l \in QueueLanes, NEW t \in Seq(UsersOf(l)),
         NEW h \in Seq(Users), InHand(r) = t \o h, Chosen(h, UsersOf(l)) = <<>>,
         queue' = [queue EXCEPT ![l] = t \o @], NEW pc \in Plain, Goto(r, pc), NoList(r),
         Quiet, Unasked
  PROVE  Handles(r)
<1>1. todo'[r] = <<>> /\ pos'[r] = 0 /\ shared'[r] = "none"
  BY NoListLeft
<1>2. OnLane(r)' /\ InHand(r)' = <<>>
  BY <1>1, EmptyHands
<1>3. Sorted'
  <2>1. t \o queue[l] \in Seq(UsersOf(l))
    BY DEF Sorted
  <2>2. \A k \in QueueLanes : queue'[k] = IF k = l THEN t \o queue[l] ELSE queue[k]
    BY DEF HTyped
  <2>. QED
    BY <2>1, <2>2 DEF Sorted
<1>4. HandReturns(r)
  BY <1>2 DEF HandReturns
<1>. QED
  BY <1>2, <1>3, <1>4 DEF Handles, HandStep

LEMMA GoneHands ==
  ASSUME HTyped, Sorted, NEW r \in Runs, UNCHANGED queue, NEW pc \in Plain, Goto(r, pc), NoList(r),
         Quiet, Unasked
  PROVE  Handles(r)
<1>1. todo'[r] = <<>> /\ pos'[r] = 0 /\ shared'[r] = "none"
  BY NoListLeft
<1>. QED
  BY <1>1, EmptyHands DEF Handles, HandStep, HandEmpties, Sorted

LEMMA SetupRaisesHands ==
  ASSUME HTyped, Sorted, NEW r \in Runs, OnLane(r), SetupRaises(r) PROVE Handles(r)
<1>1. "done" \in Plain /\ Goto(r, "done") /\ NoList(r) /\ Quiet /\ Unasked /\ at[r] \in Setup
  BY SpentOther DEF SetupRaises, Quit, Quiet, Plain, Points, Announcing
<1>2. CASE at[r] = "next_update"
  <2>1. PICK t \in Seq(UsersOf("nextTurn")), m \in UsersOf("prompt") : todo[r] = t \o <<m>>
    BY <1>2 DEF OnLane
  <2>2. InHand(r) = t \o <<m>>
    BY <1>2, <2>1, HandFacts DEF Announcing
  <2>3. SubSeq(todo[r], 1, Len(todo[r]) - 1) = t
    <3> DEFINE S == UsersOf("nextTurn") \cup UsersOf("prompt")
               u == t \o <<m>>
    <3>1. t \in Seq(S) /\ <<m>> \in Seq(S)
      OBVIOUS
    <3> HIDE DEF S
    <3>2. /\ u \in Seq(S) /\ Len(u) = Len(t) + 1 /\ Len(t) \in Nat
          /\ \A k \in 1..Len(t) : u[k] = t[k]
      BY <3>1
    <3> HIDE DEF u
    <3>3. SubSeq(u, 1, Len(t)) = t
      BY <3>1, <3>2
    <3>4. Len(u) - 1 = Len(t)
      BY <3>2
    <3>. QED
      BY <2>1, <3>3, <3>4 DEF u
  <2>4. queue' = [queue EXCEPT !["nextTurn"] = t \o @]
    BY <1>2, <2>3 DEF SetupRaises
  <2>5. <<m>> \in Seq(Users) /\ Chosen(<<m>>, UsersOf("nextTurn")) = <<>> /\ "nextTurn" \in QueueLanes
    <3>1. "nextTurn" \in QueueLanes /\ "nextTurn" \in Lanes \ {"prompt"} /\ "prompt" \in Lanes
      BY DEF QueueLanes, Lanes
    <3> DEFINE s == <<m>>
    <3>2. s \in Seq(UsersOf("prompt"))
      OBVIOUS
    <3> HIDE DEF s
    <3>3. s \in Seq(Users) /\ Chosen(s, UsersOf("nextTurn")) = <<>>
      BY <3>1, <3>2, LaneSeq
    <3>. QED
      BY <3>1, <3>3 DEF s
  <2> DEFINE h == <<m>>
  <2>6. h \in Seq(Users) /\ Chosen(h, UsersOf("nextTurn")) = <<>> /\ InHand(r) = t \o h
    BY <2>2, <2>5
  <2> HIDE DEF h
  <2>. QED
    BY <1>1, <2>4, <2>5, <2>6, BackHands
<1>3. CASE at[r] # "next_update"
  <2>1. UNCHANGED queue
    BY <1>3 DEF SetupRaises, HTyped
  <2>. QED
    BY <1>1, <2>1, GoneHands
<1>. QED
  BY <1>2, <1>3

LEMMA RunRaisesHands ==
  ASSUME HTyped, Sorted, NEW r \in Runs, OnLane(r), RunRaises(r) PROVE Handles(r)
<1>1. "hf_start" \in Plain /\ Goto(r, "hf_start") /\ NoList(r) /\ PutBack(r)
  BY DEF RunRaises, Plain, Points, HandlingFailure, Announcing
<1>2. Quiet /\ Unasked
  BY SpentOther DEF RunRaises, Quiet
<1>3. List(r) = todo[r] /\ todo[r] \in Seq(Users) /\ (at[r] \notin Announcing => InHand(r) = todo[r])
  BY HandFacts
<1>4. ASSUME NEW l \in QueueLanes, todo[r] \in Seq(UsersOf(l)), at[r] \notin Announcing,
             queue' = [queue EXCEPT ![l] = todo[r] \o @]
      PROVE  Handles(r)
  <2> DEFINE e == <<>>
  <2>1. e \in Seq(Users) /\ todo[r] \o e = todo[r] /\ Chosen(e, UsersOf(l)) = <<>>
    BY <1>3, NothingAdded, ChosenNothing
  <2>2. InHand(r) = todo[r] \o e
    BY <1>3, <1>4, <2>1
  <2> HIDE DEF e
  <2>. QED
    BY <1>1, <1>2, <1>4, <2>1, <2>2, BackHands
<1>5. CASE at[r] \in {"first_drain", "drain_steer"}
  <2>1. queue' = [queue EXCEPT !["steer"] = todo[r] \o @]
    BY <1>1, <1>3, <1>5 DEF PutBack
  <2>2. todo[r] \in Seq(UsersOf("steer")) /\ at[r] \notin Announcing /\ "steer" \in QueueLanes
    BY <1>5 DEF OnLane, Announcing, QueueLanes
  <2>. QED
    BY <1>4, <2>1, <2>2
<1>6. CASE at[r] = "drain_followUp"
  <2>1. queue' = [queue EXCEPT !["followUp"] = todo[r] \o @]
    BY <1>1, <1>3, <1>6 DEF PutBack
  <2>2. todo[r] \in Seq(UsersOf("followUp")) /\ at[r] \notin Announcing /\ "followUp" \in QueueLanes
    BY <1>6 DEF OnLane, Announcing, QueueLanes
  <2>. QED
    BY <1>4, <2>1, <2>2
<1>7. CASE at[r] \notin {"first_drain", "drain_steer", "drain_followUp"}
  <2>1. UNCHANGED queue
    BY <1>1, <1>7 DEF PutBack
  <2>. QED
    BY <1>1, <1>2, <2>1, GoneHands
<1>. QED
  BY <1>5, <1>6, <1>7

LEMMA FailureRaisesHands ==
  ASSUME HTyped, Sorted, NEW r \in Runs, OnLane(r), FailureRaises(r) PROVE Handles(r)
<1>1. "done" \in Plain /\ at[r] \notin Holding
  BY DEF FailureRaises, Plain, Points, Announcing, Holding, Setup, HandlingFailure
<1>2. Quiet /\ Unasked
  BY SpentOther DEF FailureRaises, Settle, Quiet
<1>. QED
  BY <1>1, <1>2, IdleHands DEF FailureRaises, Settle

LEMMA RunHands ==
  ASSUME HTyped, DrainsSingly, Sorted, NEW r \in Runs, OnLane(r), Fits(r),
         RunStep(r) \/ RunStarts(r) \/ Raises(r)
  PROVE  Handles(r)
  BY PromptHands, TurnStateHands, NextUpdateHands, BeforeStartHands, StartHands, PromptEndHands,
     TurnStartHands, InjectEndHands, ReplyHands, TurnEndHands, PrepareHands, DrainHands,
     SetupRaisesHands, RunRaisesHands, FailureRaisesHands DEF RunStep, RunStarts, Raises

-----------------------------------------------------------------------------
(* The steps of the harness are steps of MessageDelivery. *)
Wait == Waits(Current, queue)
Told == Numbers(Chosen(log, Users))
Maps == [Delivery!Next]_(Delivery!vars)

LEMMA StutterMaps ==
  ASSUME Wait' = Wait, Told' = Told, Unasked PROVE Maps
  BY DEF Maps, Wait, Told, Unasked, Delivery!vars

LEMMA AcceptMaps ==
  ASSUME NEW l \in Lanes, NEW m, m.id = NextId, Added(Wait, Wait', l, m), Told' = Told,
         counts'.messages = NextId
  PROVE  Maps
<1>1. Delivery!Accept(l)
  BY DEF Added, Delivery!Accept, Wait, Told, NextId
<1>. QED
  BY <1>1 DEF Maps, Delivery!Next

LEMMA DeliverMaps ==
  ASSUME NEW l \in Lanes, NEW m, Served(Wait, Wait', l, m), Told' = Append(Told, m.id), Unasked
  PROVE  Maps
<1>1. Delivery!Deliver(l)
  BY DEF Served, Delivery!Deliver, Wait, Told, Unasked
<1>. QED
  BY <1>1 DEF Maps, Delivery!Next

LEMMA DropMaps ==
  ASSUME \A l \in Lanes : EndOf(Wait[l], Wait'[l]), Told' = Told, Unasked PROVE Maps
<1>1. DOMAIN Wait' = Lanes
  BY DEF Wait, Waits
<1>2. CASE Wait' = Wait
  BY <1>2, StutterMaps
<1>3. CASE Wait' # Wait
  <2>1. \A l \in Lanes : \E i \in 1..Len(Wait[l]) + 1, j \in 0..Len(Wait[l]) :
          Wait'[l] = SubSeq(Wait[l], i, j)
    BY DEF EndOf
  <2>2. Delivery!Shortened
    BY <1>1, <1>3, <2>1 DEF Delivery!Shortened, Wait
  <2>3. Delivery!Drop
    BY <2>2 DEF Delivery!Drop, Told, Unasked
  <2>. QED
    BY <2>3 DEF Maps, Delivery!Next
<1>. QED
  BY <1>2, <1>3

LEMMA ToldQuiet == ASSUME HTyped, Quiet PROVE Told' = Told
<1>1. CASE UNCHANGED log
  BY <1>1 DEF Told
<1>2. CASE Flush
  <2>1. Writes \cap Users = {}
    BY EntryKinds DEF WriteKinds
  <2>2. log \in Seq(Entries) /\ writes \in Seq(Writes) /\ writes \in Seq(Entries)
    BY EntryKinds, SeqMonotonic DEF HTyped
  <2>3. Chosen(writes, Users) = <<>>
    BY <2>1, <2>2, ChosenNone
  <2>4. Chosen(log \o writes, Users) = Chosen(log, Users) \o Chosen(writes, Users)
    BY <2>2, ChosenConcat
  <2>5. Chosen(log, Users) \in Seq(Entries)
    BY <2>2, ChosenType
  <2>6. Chosen(log \o writes, Users) = Chosen(log, Users)
    BY <2>3, <2>4, <2>5
  <2>. QED
    BY <1>2, <2>6 DEF Flush, Told
<1>3. ASSUME NEW e \in Entries \ Users, log' = Append(log, e) PROVE Told' = Told
  <2>1. Chosen(Append(log, e), Users) = Chosen(log, Users)
    BY ChosenAppend DEF HTyped
  <2>. QED
    BY <1>3, <2>1 DEF Told
<1>. QED
  BY <1>1, <1>2, <1>3 DEF Quiet

LEMMA ToldMore ==
  ASSUME HTyped, NEW m \in Users, log' = Append(log, m) PROVE Told' = Append(Told, m.id)
<1> DEFINE s == Chosen(log, Users)
<1>1. m \in Entries /\ log \in Seq(Entries)
  BY EntryKinds DEF HTyped
<1>2. Chosen(Append(log, m), Users) = Append(s, m) /\ s \in Seq(Users)
  <2>1. s \in Seq(Entries \cap Users)
    BY <1>1, ChosenType
  <2>2. Entries \cap Users = Users
    BY EntryKinds
  <2>3. Chosen(Append(log, m), Users) = Append(s, m)
    BY <1>1, ChosenAppend
  <2>. QED
    BY <2>1, <2>2, <2>3
<1> HIDE DEF s
<1>3. Append(s, m) = s \o <<m>> /\ <<m>> \in Seq(Users)
  <2>1. <<m>> \in Seq(Users)
    OBVIOUS
  <2>. QED
    BY <1>2, <2>1, AppendOne
<1>4. Numbers(Append(s, m)) = Numbers(s) \o <<m.id>> /\ m.id \in Nat /\ Numbers(s) \in Seq(Nat)
  BY <1>2, <1>3, NumbersConcat, NumbersOne, NumbersType
<1>5. Numbers(Append(s, m)) = Append(Numbers(s), m.id)
  BY <1>4, AppendOne
<1>6. Told' = Numbers(Append(s, m)) /\ Told = Numbers(s)
  BY <1>2 DEF Told, s
<1>. QED
  BY <1>5, <1>6

LEMMA HandMaps ==
  ASSUME HTyped, queue' \in Queues, NEW h \in Seq(Users), NEW i \in Seq(Users), NEW r \in Runs,
         InHand(r) = h, InHand(r)' = i, Current = h, Current' = i, HandStep(r)
  PROVE  Maps
<1>1. queue \in Queues /\ Wait = Waits(h, queue) /\ Wait' = Waits(i, queue')
  BY DEF HTyped, Queues, Wait
<1>2. CASE HandKept(r)
  BY <1>1, <1>2, ToldQuiet, StutterMaps DEF HandKept
<1>3. CASE HandTakes(r)
  <2>1. PICK l \in QueueLanes : \E t \in Seq(UsersOf(l)), rest \in Seq(Users) :
          /\ queue[l] = t \o rest /\ queue' = [queue EXCEPT ![l] = rest]
          /\ Chosen(h, UsersOf(l)) = <<>> /\ i = t \o h
    BY <1>3 DEF HandTakes
  <2>2. PICK t \in Seq(UsersOf(l)), rest \in Seq(Users) :
          /\ queue[l] = t \o rest /\ queue' = [queue EXCEPT ![l] = rest]
          /\ Chosen(h, UsersOf(l)) = <<>> /\ i = t \o h
    BY <2>1
  <2>3. Moved(h, queue, i, queue', l, t)
    BY <2>2 DEF Moved
  <2>4. Waits(i, queue') = Waits(h, queue)
    BY <1>1, <2>3, MovedSame
  <2>. QED
    BY <1>1, <1>3, <2>4, ToldQuiet, StutterMaps DEF HandTakes
<1>4. CASE HandGets(r)
  <2>1. PICK l \in {"prompt", "hook"} : i = h \o <<User(NextId, l)>>
    BY <1>4 DEF HandGets
  <2>2. l \in Lanes \ QueueLanes
    BY DEF Lanes, QueueLanes
  <2> DEFINE m == User(NextId, l)
  <2>3. m \in UsersOf(l) /\ m.id = NextId
    BY <2>2, Asked
  <2>4. i = h \o <<m>>
    BY <2>1
  <2> HIDE DEF m
  <2>5. Added(Wait, Wait', l, m)
    BY <1>1, <1>4, <2>2, <2>3, <2>4, HandedWaits DEF HandGets
  <2>. QED
    BY <1>4, <2>2, <2>3, <2>5, AcceptMaps DEF HandGets, Told
<1>5. CASE HandStores(r)
  <2>1. PICK m \in Users : log' = Append(log, m) /\ h = <<m>> \o i
    BY <1>5 DEF HandStores
  <2>2. m.lane \in Lanes /\ Served(Wait, Wait', m.lane, m)
    BY <1>1, <1>5, <2>1, StoredWaits DEF HandStores
  <2>. QED
    BY <1>5, <2>1, <2>2, ToldMore, DeliverMaps DEF HandStores
<1>6. CASE HandReturns(r)
  <2>1. PICK l \in QueueLanes : \E t \in Seq(UsersOf(l)), u \in Seq(Users) :
          /\ h = t \o u /\ Chosen(u, UsersOf(l)) = <<>>
          /\ queue' = [queue EXCEPT ![l] = t \o queue[l]]
    BY <1>6 DEF HandReturns
  <2>2. PICK t \in Seq(UsersOf(l)), u \in Seq(Users) :
          /\ h = t \o u /\ Chosen(u, UsersOf(l)) = <<>>
          /\ queue' = [queue EXCEPT ![l] = t \o queue[l]]
    BY <2>1
  <2>3. /\ queue'[l] = t \o queue[l] /\ queue[l] \in Seq(Users)
        /\ [queue' EXCEPT ![l] = queue[l]] = queue
    BY <1>1, <2>2 DEF Queues
  <2>4. Moved(u, queue', h, queue, l, t)
    BY <2>2, <2>3 DEF Moved
  <2>5. Wait = Waits(u, queue') /\ Wait' = Waits(<<>>, queue')
    BY <1>1, <1>6, <2>4, MovedSame DEF HandReturns
  <2>6. \A k \in Lanes : EndOf(Wait[k], Wait'[k])
    BY <2>5, DroppedWaits
  <2>. QED
    BY <1>6, <2>6, ToldQuiet, DropMaps DEF HandReturns
<1>7. CASE HandEmpties(r)
  <2>1. Wait' = Waits(<<>>, queue)
    BY <1>1, <1>7 DEF HandEmpties
  <2>2. \A k \in Lanes : EndOf(Wait[k], Wait'[k])
    BY <1>1, <2>1, DroppedWaits
  <2>. QED
    BY <1>7, <2>2, ToldQuiet, DropMaps DEF HandEmpties
<1>. QED
  BY <1>2, <1>3, <1>4, <1>5, <1>6, <1>7 DEF HandStep

(* What is current is what the one run that goes on has in hand. *)
Alone(r) == \A s \in Runs \ {r} : ~Active(s)
AllOnLane == \A r \in Runs : OnLane(r)

LEMMA CurrentIs ==
  ASSUME HTyped, NEW r \in Runs, OnLane(r), Alone(r)
  PROVE  Current = InHand(r) /\ InHand(r) \in Seq(Users)
<1>1. CASE Active(r)
  <2>1. ActiveRuns # {} /\ \A s \in Runs : Active(s) <=> s = r
    BY <1>1 DEF ActiveRuns, Alone
  <2>2. (CHOOSE s \in Runs : Active(s)) = r
    BY <2>1
  <2>. QED
    BY <2>1, <2>2, HandFacts DEF Current
<1>2. CASE ~Active(r)
  <2>1. ActiveRuns = {}
    BY <1>2 DEF ActiveRuns, Alone
  <2>2. InHand(r) = <<>>
    BY <1>2, HandFacts DEF Active, Holding, Setup, Announcing
  <2>. QED
    BY <2>1, <2>2, HandFacts DEF Current
<1>. QED
  BY <1>1, <1>2

LEMMA CurrentNext ==
  ASSUME HTyped', NEW r \in Runs, OnLane(r)', Alone(r)'
  PROVE  Current' = InHand(r)' /\ InHand(r)' \in Seq(Users)
<1> DEFINE t == todo'[r]
<1>1. t \in Seq(Users) /\ InHand(r)' = HandOf(at'[r], t, pos'[r])
  BY DEF HTyped, InHand, HandOf
<1>2. /\ at'[r] \notin Announcing => pos'[r] = 0
      /\ at'[r] \in Announcing => pos'[r] \in 1..Len(t)
      /\ at'[r] \notin Holding => t = <<>>
  BY DEF OnLane
<1> HIDE DEF t
<1>3. at'[r] \notin Announcing => InHand(r)' = t
  BY <1>1, <1>2, HandIs
<1>4. InHand(r)' \in Seq(Users)
  BY <1>1, <1>2, <1>3, HandIs
<1>5. CASE Active(r)'
  <2>1. ActiveRuns' # {} /\ \A s \in Runs : Active(s)' <=> s = r
    BY <1>5 DEF ActiveRuns, Alone
  <2>2. (CHOOSE s \in Runs : Active(s)') = r
    BY <2>1
  <2>3. Current' = InHand(CHOOSE s \in Runs : Active(s))'
    BY <2>1 DEF Current
  <2>. QED
    BY <1>4, <2>2, <2>3
<1>6. CASE ~Active(r)'
  <2>1. ActiveRuns' = {}
    BY <1>6 DEF ActiveRuns, Alone
  <2>2. InHand(r)' = <<>>
    BY <1>2, <1>3, <1>6 DEF Active, Holding, Setup, Announcing
  <2>. QED
    BY <1>4, <2>1, <2>2 DEF Current
<1>. QED
  BY <1>5, <1>6

LEMMA CurrentTyped ==
  ASSUME HTyped, AllOnLane PROVE Current \in Seq(Users)
<1>1. CASE ActiveRuns = {}
  BY <1>1 DEF Current
<1>2. CASE ActiveRuns # {}
  <2>1. (CHOOSE r \in Runs : Active(r)) \in Runs
    BY <1>2 DEF ActiveRuns
  <2>. QED
    BY <1>2, <2>1, HandFacts DEF Current, AllOnLane
<1>. QED
  BY <1>1, <1>2

(* What clients call. *)
LEMMA ClientMaps ==
  ASSUME HTyped, HTyped', Sorted, AllOnLane, ClientStep \/ WaitStep \/ UNCHANGED vars
  PROVE  Maps /\ Sorted' /\ AllOnLane'
<1>1. UNCHANGED <<at, lists>>
  BY ClientShapes
<1>2. AllOnLane' /\ Current' = Current
  <2>1. at' = at /\ todo' = todo /\ shared' = shared /\ pos' = pos /\ cur' = cur
    BY <1>1 DEF lists
  <2>2. AllOnLane'
    <3>1. \A r \in Runs : OnLane(r)' <=> OnLane(r)
      BY <2>1 DEF OnLane
    <3>. QED
      BY <3>1 DEF AllOnLane
  <2>3. Current' = Current
    <3>1. ActiveRuns' = ActiveRuns
      BY <2>1 DEF ActiveRuns, Active
    <3>2. PICK c : c = CHOOSE r \in Runs : Active(r)
      OBVIOUS
    <3>3. c = CHOOSE r \in Runs : Active(r)'
      BY <2>1, <3>2 DEF Active
    <3>4. InHand(c)' = InHand(c)
      BY <2>1 DEF InHand
    <3>5. Current = IF ActiveRuns = {} THEN <<>> ELSE InHand(c)
      BY <3>2 DEF Current
    <3>6. Current' = IF ActiveRuns' = {} THEN <<>> ELSE InHand(c)'
      BY <3>3 DEF Current
    <3>. QED
      BY <3>1, <3>4, <3>5, <3>6
  <2>. QED
    BY <2>2, <2>3
<1>3. Current \in Seq(Users) /\ queue \in Queues /\ queue' \in Queues
  BY CurrentTyped DEF HTyped, Queues
<1>4. ASSUME UNCHANGED <<queue, log, counts>> PROVE Maps /\ Sorted'
  <2>1. Wait' = Wait /\ Told' = Told /\ Unasked
    BY <1>2, <1>4 DEF Wait, Told, Unasked
  <2>. QED
    BY <1>4, <2>1, StutterMaps DEF Sorted
<1>5. ASSUME NEW l \in QueueLanes, Queue(l) PROVE Maps /\ Sorted'
  <2> DEFINE m == User(NextId, l)
  <2>1. m \in UsersOf(l) /\ m.id = NextId /\ l \in Lanes
    BY Asked DEF Lanes
  <2>2. /\ queue' = [queue EXCEPT ![l] = Append(@, m)] /\ UNCHANGED log
        /\ counts'.messages = NextId
    BY <1>5, SpentMessage DEF Queue
  <2> HIDE DEF m
  <2>3. Added(Waits(Current, queue), Waits(Current, [queue EXCEPT ![l] = Append(@, m)]), l, m)
    BY <1>3, <2>1, QueuedWaits
  <2>4. Added(Wait, Wait', l, m)
    BY <1>2, <2>2, <2>3 DEF Wait
  <2>5. Sorted'
    <3>1. \A k \in QueueLanes : queue'[k] = IF k = l THEN Append(queue[l], m) ELSE queue[k]
      BY <2>2 DEF HTyped
    <3>2. Append(queue[l], m) \in Seq(UsersOf(l))
      BY <2>1 DEF Sorted
    <3>. QED
      BY <3>1, <3>2 DEF Sorted
  <2>. QED
    BY <2>1, <2>2, <2>4, <2>5, AcceptMaps DEF Told
<1>6. ASSUME NEW kind \in WriteKinds, WriteEntry(kind) PROVE Maps /\ Sorted'
  <2>1. UNCHANGED queue /\ Unasked
    BY <1>6, SpentOther DEF WriteEntry
  <2>2. Write(counts.writes + 1, kind) \in Entries \ Users
    <3>1. Writes \cap Users = {} /\ Writes \subseteq Entries
      BY EntryKinds DEF WriteKinds
    <3>2. Write(counts.writes + 1, kind) \in Writes
      BY EntryKinds DEF HTyped
    <3>. QED
      BY <3>1, <3>2
  <2>3. Quiet
    BY <1>6, <2>2 DEF WriteEntry, Quiet
  <2>4. Wait' = Wait
    BY <1>2, <2>1 DEF Wait
  <2>. QED
    BY <2>1, <2>3, <2>4, ToldQuiet, StutterMaps DEF Sorted
<1>7. CASE Abort
  <2>1. /\ queue' = [queue EXCEPT !["steer"] = <<>>, !["followUp"] = <<>>]
        /\ UNCHANGED <<log, counts>>
    BY <1>7 DEF Abort
  <2>2. \A l \in QueueLanes : queue'[l] \in {queue[l], <<>>}
    BY <2>1 DEF HTyped
  <2>3. \A l \in Lanes : EndOf(Waits(Current, queue)[l], Waits(Current, queue')[l])
    BY <1>3, <2>2, ClearedWaits
  <2>4. \A l \in Lanes : EndOf(Wait[l], Wait'[l])
    BY <1>2, <2>3 DEF Wait
  <2>5. Sorted'
    <3>1. \A l \in QueueLanes : <<>> \in Seq(UsersOf(l))
      OBVIOUS
    <3>. QED
      BY <2>2, <3>1 DEF Sorted
  <2>6. Told' = Told /\ Unasked
    BY <2>1 DEF Told, Unasked
  <2>7. Maps
    BY <2>4, <2>6, DropMaps
  <2>. QED
    BY <1>2, <2>5, <2>7
<1>8. ASSUME EndOp \/ WaitForIdle \/ WaitStep \/ UNCHANGED vars PROVE Maps /\ Sorted'
  <2>1. UNCHANGED <<queue, log, counts>>
    BY <1>8 DEF EndOp, WaitForIdle, WaitStep, vars, clientVars
  <2>. QED
    BY <1>4, <2>1
<1>9. ASSUME NEW name, BeginOp(name) PROVE Maps /\ Sorted'
  <2>1. UNCHANGED <<queue, log>> /\ Unasked
    BY <1>9, SpentOther DEF BeginOp
  <2>2. Wait' = Wait /\ Told' = Told
    BY <1>2, <2>1 DEF Wait, Told
  <2>. QED
    BY <2>1, <2>2, StutterMaps DEF Sorted
<1>. QED
  BY <1>2, <1>5, <1>6, <1>7, <1>8, <1>9 DEF ClientStep

DInv == WInv /\ HShapes /\ Sorted /\ AllOnLane

LEMMA StepsMap ==
  ASSUME ~Overlapping, DrainsSingly, DInv, [Next]_vars PROVE DInv' /\ Maps
<1>1. HTyped /\ HTyped' /\ HShapes' /\ WInv'
  BY ShapesHold, WaitersKept DEF DInv, HShapes
<1>2. ASSUME NEW r \in Runs, RunStep(r) \/ RunStarts(r) \/ Raises(r)
      PROVE  Sorted' /\ AllOnLane' /\ Maps
  <2>1. Shaped(r) /\ Handles(r)
    BY <1>1, <1>2, RunShapes, RunHands DEF DInv, HShapes, AllOnLane
  <2>2. AllOnLane'
    <3>1. ASSUME NEW s \in Runs \ {r} PROVE OnLane(s)'
      <4>1. at'[s] = at[s] /\ todo'[s] = todo[s] /\ shared'[s] = shared[s] /\ pos'[s] = pos[s]
            /\ cur'[s] = cur[s]
        BY <2>1 DEF Shaped, Apart
      <4>2. OnLane(s)
        BY DEF DInv, AllOnLane
      <4>. QED
        BY <4>1, <4>2 DEF OnLane
    <3>2. OnLane(r)'
      BY <2>1 DEF Handles
    <3>. QED
      BY <3>1, <3>2 DEF AllOnLane
  <2>3. Alone(r)
    <3>1. Goes(r) \/ Ends(r) \/ Begins(r)
      BY <1>1, <1>2, Steps DEF HTyped
    <3>. QED
      BY <3>1 DEF DInv, WInv, PromiseIsOfRun, Alone, Goes, Ends, Begins
  <2>4. Alone(r)'
    BY <2>1, <2>3 DEF Alone, Shaped, Apart, Active
  <2>5. Current = InHand(r) /\ InHand(r) \in Seq(Users)
    BY <1>1, <2>3, CurrentIs DEF DInv, AllOnLane
  <2>6. Current' = InHand(r)' /\ InHand(r)' \in Seq(Users)
    BY <1>1, <2>1, <2>4, CurrentNext DEF Handles
  <2>7. queue' \in Queues
    BY <1>1 DEF HTyped, Queues
  <2>8. Maps
    BY <1>1, <2>1, <2>5, <2>6, <2>7, HandMaps DEF Handles
  <2>. QED
    BY <2>1, <2>2, <2>8 DEF Handles
<1>3. CASE ClientStep \/ WaitStep \/ UNCHANGED vars
  BY <1>1, <1>3, ClientMaps DEF DInv
<1>4. Sorted' /\ AllOnLane' /\ Maps
  BY <1>2, <1>3, <1>1, ClientMaps DEF Next, DInv
<1>. QED
  BY <1>1, <1>4 DEF DInv

LEMMA DeliveryBegins == Init => DInv /\ Delivery!Init
<1> SUFFICES ASSUME Init PROVE DInv /\ Delivery!Init
  OBVIOUS
<1>1. WInv
  BY NoRunIsNone DEF Init, WInv, Typed, Points, PromiseIsOfRun, Watched, WaitEndsAfterRuns,
     Nobody, Active
<1>2. HShapes
  BY ShapesBegin
<1>3. Sorted /\ AllOnLane
  <2>1. \A l \in QueueLanes : <<>> \in Seq(UsersOf(l))
    OBVIOUS
  <2>. QED
    BY <2>1 DEF Init, Sorted, AllOnLane, OnLane, Holding, Setup, Announcing
<1>4. Current = <<>>
  BY DEF Init, Current, ActiveRuns, Active
<1>5. \A l \in Lanes : Waiting(<<>>, queue, l) = <<>>
  <2>1. \A l : Queued(queue, l) = <<>>
    BY DEF Init, Queued
  <2>2. \A l : Chosen(<<>>, UsersOf(l)) = <<>>
    BY ChosenNothing
  <2>3. <<>> \o <<>> = <<>>
    BY <<>> \in Seq(Users), NothingAdded
  <2>. QED
    BY <2>1, <2>2, <2>3 DEF Waiting
<1>6. Waits(<<>>, queue) = [l \in Lanes |-> <<>>]
  <2>1. <<>> \in Seq(Users) /\ queue \in Queues
    BY <1>2 DEF HShapes, HTyped, Queues
  <2>2. Waits(<<>>, queue) = [l \in Lanes |-> Numbers(Waiting(<<>>, queue, l))]
    BY <2>1, WaitsAre
  <2>. QED
    BY <1>5, <2>2, NumbersNothing
<1>7. Numbers(Chosen(log, Users)) = <<>>
  BY ChosenNothing, NumbersNothing DEF Init
<1>8. counts.messages = 0
  BY DEF Init
<1>. QED
  BY <1>1, <1>2, <1>3, <1>4, <1>6, <1>7, <1>8 DEF DInv, Delivery!Init

(* Each message accepted is stored in the session once and in the order of its lane,
   unless it is dropped, whatever raises and whatever abort() clears: for queues that
   are drained one message at a time, and runs that do not overlap. *)
THEOREM HarnessDelivers ==
  ASSUME ~Overlapping, DrainsSingly PROVE Spec => ImplementsDelivery
<1>1. Init => DInv /\ Delivery!Init
  BY DeliveryBegins
<1>2. DInv /\ [Next]_vars => DInv' /\ [Delivery!Next]_(Delivery!vars)
  BY StepsMap DEF Maps
<1>. QED
  BY <1>1, <1>2, PTL DEF Spec, ImplementsDelivery, Delivery!Spec
=============================================================================
