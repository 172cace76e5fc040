--------------------------- MODULE FileToolsProofs ---------------------------
(* That edits and writes of one file that are queued lose nothing of each    *)
(* other's work, for any calls, texts, edits and aborts, unless a write to   *)
(* the file fails.                                                           *)
EXTENDS FileTools, SequenceTheorems, TLAPS

EditFields == {"tool", "at", "edits", "aborted", "read", "result"}
WriteFields == {"tool", "at", "text", "aborted", "result"}

(* A call is not made, or a record of its tool.                              *)
Formed ==
  /\ queue \in Seq(ToolCalls)
  /\ DOMAIN tools = ToolCalls
  /\ \A c \in ToolCalls :
       \/ tools[c] = Idle
       \/ tools[c].tool = "edit" /\ DOMAIN tools[c] = EditFields
       \/ tools[c].tool = "write" /\ DOMAIN tools[c] = WriteFields

(* Whoever is past the lock has it.                                          *)
Holding(c) == tools[c].at \in {"accessing", "reading", "writing"}
Queued == \A c \in ToolCalls : Holding(c) => Has(c)

(* What an edit is going to write comes from the file as it is; only edits   *)
(* read it.                                                                  *)
ReadIsFile ==
  \A c \in ToolCalls :
    /\ tools[c].at = "writing" /\ tools[c].tool = "edit" => tools[c].read = file
    /\ tools[c].at = "reading" => tools[c].tool = "edit"

IInv == Formed /\ Queued /\ ReadIsFile

(* At most one call is past the lock.                                        *)
LEMMA OneHolds ==
  ASSUME Queued, NEW c \in ToolCalls, NEW d \in ToolCalls, Has(c), Holding(d)
  PROVE  c = d
BY DEF Queued, Has

LEMMA InitIInv == Init => IInv
<1> SUFFICES ASSUME Init PROVE IInv
  OBVIOUS
<1>1. Formed
  BY DEF Init, Formed
<1>2. Queued /\ ReadIsFile
  BY DEF Init, Queued, ReadIsFile, Holding, Idle
<1> QED
  BY <1>1, <1>2 DEF IInv

-----------------------------------------------------------------------------
(* A call joins the end of the queue.                                        *)
LEMMA CallingIInv ==
  ASSUME IInv, NEW c \in ToolCalls, NEW call, Calling(c, call),
         \/ call.tool = "edit" /\ DOMAIN call = EditFields
         \/ call.tool = "write" /\ DOMAIN call = WriteFields,
         call.at = "queued"
  PROVE  IInv'
<1> USE DEF IInv, Calling
<1>1. tools' = [tools EXCEPT ![c] = call] /\ file' = file /\ queue' = Append(queue, c)
  OBVIOUS
<1>2. Formed'
  BY <1>1 DEF Formed
<1>3. ASSUME NEW d \in ToolCalls, Holding(d)' PROVE Has(d)'
  <2>1. d # c /\ tools'[d] = tools[d]
    BY <1>1, <1>3 DEF Formed, Holding
  <2>2. Has(d)
    BY <1>3, <2>1 DEF Holding, Queued
  <2> QED
    BY <1>1, <2>2 DEF Has, Formed
<1>4. ReadIsFile'
  BY <1>1 DEF Formed, ReadIsFile
<1> QED
  BY <1>2, <1>3, <1>4 DEF Queued

(* A call ends and releases the lock.                                        *)
LEMMA EndsFormed ==
  ASSUME IInv, NEW c \in ToolCalls, Has(c), tools[c] # Idle, NEW result, Ends(c, result)
  PROVE  /\ Formed'
         /\ tools'[c].at = "ended" /\ tools'[c].result = result
         /\ \A d \in ToolCalls \ {c} : tools'[d] = tools[d]
<1> USE DEF IInv
<1>1. tools' = [tools EXCEPT ![c] = [[tools[c] EXCEPT !.at = "ended"] EXCEPT !.result = result]]
  BY DEF Ends, Formed
<1>2. tools[c].tool = tools'[c].tool /\ DOMAIN tools'[c] = DOMAIN tools[c]
  BY <1>1 DEF Formed, EditFields, WriteFields
<1>3. queue' \in Seq(ToolCalls)
  BY DEF Ends, Has, Formed
<1> QED
  BY <1>1, <1>2, <1>3 DEF Formed, EditFields, WriteFields

(* The queue and the file stand still.                                       *)
LEMMA GoesIInv ==
  ASSUME IInv, NEW c \in ToolCalls, Has(c), tools[c] # Idle, NEW from, NEW to, Goes(c, from, to),
         to \in {"accessing", "reading", "writing"},
         to = "writing" => tools[c].tool = "write",
         to = "reading" => tools[c].tool = "edit"
  PROVE  IInv'
<1> USE DEF IInv
<1>1. tools' = [tools EXCEPT ![c] = [tools[c] EXCEPT !.at = to]] /\ UNCHANGED <<file, queue>>
  BY DEF Goes, Formed
<1>2. /\ tools'[c].at = to /\ tools'[c].tool = tools[c].tool /\ tools[c].tool \in {"edit", "write"}
      /\ DOMAIN tools'[c] = DOMAIN tools[c]
  BY <1>1 DEF Formed, EditFields, WriteFields
<1>3. \A d \in ToolCalls \ {c} : tools'[d] = tools[d]
  BY <1>1 DEF Formed
<1>4. Formed'
  BY <1>1, <1>2, <1>3 DEF Formed
<1>5. Queued'
  BY <1>1, <1>3 DEF Queued, Has, Holding
<1>6. ReadIsFile'
  BY <1>1, <1>2, <1>3 DEF ReadIsFile
<1> QED
  BY <1>4, <1>5, <1>6

(* When a call ends, nobody is past the lock, whatever is in the file.       *)
LEMMA EndsIInv ==
  ASSUME IInv, NEW c \in ToolCalls, Has(c), tools[c] # Idle, NEW result, Ends(c, result)
  PROVE  IInv'
<1>1. /\ Formed' /\ tools'[c].at = "ended"
      /\ \A d \in ToolCalls \ {c} : tools'[d] = tools[d]
  BY EndsFormed
<1>2. \A d \in ToolCalls : ~Holding(d)'
  BY <1>1, OneHolds DEF IInv, Holding
<1> QED
  BY <1>1, <1>2 DEF IInv, Queued, ReadIsFile, Holding

-----------------------------------------------------------------------------
(* Every step keeps the invariant, and ends at most the call it is of, with  *)
(* the file changed as its result says.                                      *)
LEMMA StepIInv == IInv /\ [Next]_vars => IInv' /\ [EditKeepsOthers]_vars
<1> SUFFICES ASSUME IInv, [Next]_vars PROVE IInv' /\ [EditKeepsOthers]_vars
  OBVIOUS
<1>a. ASSUME NEW c \in ToolCalls, tools'[c].at # "ended", \A d \in ToolCalls \ {c} : tools'[d] = tools[d]
      PROVE  EditKeepsOthers
  BY <1>a DEF EditKeepsOthers
<1>b. ASSUME NEW c \in ToolCalls, Holding(c) PROVE Has(c) /\ tools[c] # Idle
  BY <1>b DEF IInv, Queued, Holding, Idle
<1>1. ASSUME NEW c \in ToolCalls, NEW edits \in Edits, CallEdit(c, edits)
      PROVE  IInv' /\ EditKeepsOthers
  <2> DEFINE call == [tool |-> "edit", at |-> "queued", edits |-> edits, aborted |-> FALSE,
                      read |-> NoFile, result |-> "none"]
  <2>1. Calling(c, call) /\ call.tool = "edit" /\ DOMAIN call = EditFields /\ call.at = "queued"
    BY <1>1 DEF CallEdit, EditFields
  <2>2. tools' = [tools EXCEPT ![c] = call]
    BY <2>1 DEF Calling
  <2> HIDE DEF call
  <2>3. IInv'
    BY <2>1, CallingIInv
  <2>4. tools'[c].at # "ended" /\ \A d \in ToolCalls \ {c} : tools'[d] = tools[d]
    BY <2>1, <2>2 DEF IInv, Formed
  <2> QED
    BY <2>3, <2>4, <1>a
<1>2. ASSUME NEW c \in ToolCalls, NEW text \in Texts, CallWrite(c, text)
      PROVE  IInv' /\ EditKeepsOthers
  <2> DEFINE call == [tool |-> "write", at |-> "queued", text |-> text, aborted |-> FALSE,
                      result |-> "none"]
  <2>1. Calling(c, call) /\ call.tool = "write" /\ DOMAIN call = WriteFields /\ call.at = "queued"
    BY <1>2 DEF CallWrite, WriteFields
  <2>2. tools' = [tools EXCEPT ![c] = call]
    BY <2>1 DEF Calling
  <2> HIDE DEF call
  <2>3. IInv'
    BY <2>1, CallingIInv
  <2>4. tools'[c].at # "ended" /\ \A d \in ToolCalls \ {c} : tools'[d] = tools[d]
    BY <2>1, <2>2 DEF IInv, Formed
  <2> QED
    BY <2>3, <2>4, <1>a
<1>3. ASSUME NEW c \in ToolCalls, Abort(c) PROVE IInv' /\ EditKeepsOthers
  <2>1. /\ tools' = [tools EXCEPT ![c] = [tools[c] EXCEPT !.aborted = TRUE]]
        /\ tools[c] # Idle /\ tools[c].at # "ended" /\ UNCHANGED <<file, queue>>
    BY <1>3 DEF Abort, IInv, Formed
  <2>2. /\ DOMAIN tools'[c] = DOMAIN tools[c] /\ tools'[c].tool = tools[c].tool
        /\ tools'[c].at = tools[c].at
        /\ tools[c].tool = "edit" => tools'[c].read = tools[c].read
    BY <2>1 DEF IInv, Formed, EditFields, WriteFields
  <2>3. \A d \in ToolCalls \ {c} : tools'[d] = tools[d]
    BY <2>1 DEF IInv, Formed
  <2>4. Formed'
    BY <2>1, <2>2, <2>3 DEF IInv, Formed
  <2>5. Queued'
    BY <2>1, <2>2, <2>3 DEF IInv, Queued, Holding, Has
  <2>6. ReadIsFile'
    BY <2>1, <2>2, <2>3 DEF IInv, ReadIsFile
  <2> QED
    BY <1>a, <2>1, <2>2, <2>3, <2>4, <2>5, <2>6 DEF IInv
<1>4. ASSUME NEW c \in ToolCalls, NEW result, Has(c), tools[c] # Idle, Ends(c, result),
             result = "ok" => file' = Meant(c),
             result # "ok" => file' = file \/ (tools[c].at = "writing" /\ file' \in Parts(Meant(c)))
      PROVE  IInv' /\ EditKeepsOthers
  <2>1. /\ tools'[c].result = result
        /\ \A d \in ToolCalls \ {c} : tools'[d] = tools[d]
    BY <1>4, EndsFormed
  <2>2. ASSUME NEW d \in ToolCalls, tools[d].at # "ended", tools'[d].at = "ended" PROVE d = c
    BY <2>1, <2>2
  <2>3. EditKeepsOthers
    BY <1>4, <2>1, <2>2 DEF EditKeepsOthers
  <2> QED
    BY <1>4, <2>3, EndsIInv
<1>5. ASSUME NEW c \in ToolCalls, NEW from, NEW to, Has(c), tools[c] # Idle, Goes(c, from, to),
             to \in {"accessing", "reading", "writing"},
             to = "writing" => tools[c].tool = "write",
             to = "reading" => tools[c].tool = "edit"
      PROVE  IInv' /\ EditKeepsOthers
  <2>1. IInv'
    BY <1>5, GoesIInv
  <2>2. tools'[c].at = to /\ \A d \in ToolCalls \ {c} : tools'[d] = tools[d]
    BY <1>5 DEF Goes, IInv, Formed, EditFields, WriteFields
  <2> QED
    BY <1>5, <1>a, <2>1, <2>2
<1>6. ASSUME NEW c \in ToolCalls, Locked(c) PROVE IInv' /\ EditKeepsOthers
  BY <1>6, <1>4, <1>5 DEF Locked, Idle
<1>7. ASSUME NEW c \in ToolCalls, Accessed(c) PROVE IInv' /\ EditKeepsOthers
  BY <1>7, <1>4, <1>5, <1>b DEF Accessed, Holding
<1>8. ASSUME NEW c \in ToolCalls, DirectoryMade(c) PROVE IInv' /\ EditKeepsOthers
  BY <1>8, <1>4, <1>5, <1>b DEF DirectoryMade, Holding
<1>9. ASSUME NEW c \in ToolCalls, Read(c) PROVE IInv' /\ EditKeepsOthers
  <2>1. Has(c) /\ tools[c] # Idle /\ tools[c].at = "reading" /\ tools[c].tool = "edit"
    BY <1>9, <1>b DEF Read, Holding, IInv, ReadIsFile
  <2>2. CASE Ends(c, "error") /\ UNCHANGED file
    BY <1>4, <2>1, <2>2
  <2>3. CASE /\ tools' = [tools EXCEPT ![c].at = "writing", ![c].read = file]
             /\ UNCHANGED <<file, queue>>
    <3>1. /\ tools'[c].at = "writing" /\ tools'[c].read = file /\ tools'[c].tool = "edit"
          /\ DOMAIN tools'[c] = EditFields
      BY <2>1, <2>3 DEF IInv, Formed, EditFields
    <3>2. \A d \in ToolCalls \ {c} : tools'[d] = tools[d]
      BY <2>3 DEF IInv, Formed
    <3>3. Formed'
      BY <2>3, <3>1, <3>2 DEF IInv, Formed
    <3>4. Queued'
      BY <2>1, <2>3, <3>2 DEF IInv, Queued, Holding, Has
    <3>5. ReadIsFile'
      BY <2>3, <3>1, <3>2 DEF IInv, ReadIsFile
    <3> QED
      BY <1>a, <3>1, <3>2, <3>3, <3>4, <3>5 DEF IInv
  <2> QED
    BY <1>9, <2>2, <2>3 DEF Read
<1>c. ASSUME NEW c \in ToolCalls, tools[c].at = "writing"
      PROVE  Has(c) /\ tools[c] # Idle /\ Writes(c) = Meant(c)
  BY <1>c, <1>b DEF Holding, IInv, ReadIsFile, Writes, Meant
<1>10. ASSUME NEW c \in ToolCalls, Written(c) PROVE IInv' /\ EditKeepsOthers
  BY <1>10, <1>4, <1>c DEF Written
<1>11. ASSUME NEW c \in ToolCalls, WriteFails(c) PROVE IInv' /\ EditKeepsOthers
  <2>1. Has(c) /\ tools[c] # Idle /\ Ends(c, "error") /\ tools[c].at = "writing"
    BY <1>11, <1>c DEF WriteFails
  <2>2. file' = file \/ file' \in Parts(Meant(c))
    BY <1>11, <1>c DEF WriteFails
  <2> QED
    BY <1>4, <2>1, <2>2
<1>12. CASE UNCHANGED vars
  <2>1. IInv'
    BY <1>12 DEF IInv, Formed, Queued, ReadIsFile, Holding, Has, vars
  <2> QED
    BY <1>12, <2>1
<1> QED
  BY <1>1, <1>2, <1>3, <1>6, <1>7, <1>8, <1>9, <1>10, <1>11, <1>12 DEF Next

(* An edit that succeeds changes the file as it was when it was written, one *)
(* that cannot be made or is aborted changes nothing, and a write replaces   *)
(* it all: what others wrote is never lost to an edit that read the file     *)
(* before. A write that fails may leave a part of what it would have made of *)
(* the file as it was: the rest is lost with it.                             *)
(* (execute_edit, execute_write, with_file_mutation_queue)                   *)
THEOREM QueuedEditsKeepOthers == Spec => NoEditLost
<1>1. Init => IInv
  BY InitIInv
<1>2. IInv /\ [Next]_vars => IInv'
  BY StepIInv
<1>3. IInv /\ [Next]_vars => [EditKeepsOthers]_vars
  BY StepIInv
<1> QED
  BY <1>1, <1>2, <1>3, PTL DEF Spec, NoEditLost
=============================================================================
