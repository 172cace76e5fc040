-------------------------- MODULE MessageDelivery --------------------------
(***************************************************************************)
(* What Agent and AgentHarness promise to whoever hands them a message:    *)
(* a message is accepted on a lane, waits, and is delivered to the         *)
(* transcript once and in the order of its lane, unless it is dropped.     *)
(* The queues, the drain modes, the loop's locals and its suspensions are  *)
(* theirs, who implement this specification.                               *)
(***************************************************************************)
EXTENDS Naturals, Sequences

CONSTANT Lanes

VARIABLES
  accepted,     \* how many messages were accepted; a message is its number
  waiting,      \* per lane, accepted and not yet delivered
  delivered     \* in the transcript, in its order

vars == <<accepted, waiting, delivered>>

Init ==
  /\ accepted = 0
  /\ waiting = [l \in Lanes |-> <<>>] /\ delivered = <<>>

Accept(l) ==
  /\ accepted' = accepted + 1
  /\ waiting' = [waiting EXCEPT ![l] = Append(@, accepted + 1)]
  /\ UNCHANGED delivered

Deliver(l) ==
  /\ waiting[l] # <<>>
  /\ waiting' = [waiting EXCEPT ![l] = Tail(@)]
  /\ delivered' = Append(delivered, Head(waiting[l]))
  /\ UNCHANGED accepted

(* What a failed run had taken from its lane goes, or what is still queued. *)
Shortened ==
  /\ waiting' # waiting /\ DOMAIN waiting' = Lanes
  /\ \A l \in Lanes : \E i \in 1..Len(waiting[l]) + 1, j \in 0..Len(waiting[l]) :
       waiting'[l] = SubSeq(waiting[l], i, j)

Drop == UNCHANGED <<accepted, delivered>> /\ Shortened

(* The transcript starts over; a message in flight may still be delivered to it. *)
Forget ==
  /\ delivered' = <<>> /\ UNCHANGED accepted
  /\ Shortened \/ UNCHANGED waiting

Next == (\E l \in Lanes : Accept(l) \/ Deliver(l)) \/ Drop \/ Forget

Spec == Init /\ [][Next]_vars
=============================================================================
