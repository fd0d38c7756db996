------------------------ MODULE FileTransferProofs ------------------------
(***************************************************************************)
(* The safety of FileTransfer for any files, paths and transfer ids, which *)
(* the agent may draw twice, and for any number of calls, bridges and local*)
(* changes.                                                                *)
(*                                                                         *)
(* The argument is about whose transfer is open.  A request in the slot may*)
(* have been given up by its caller, even by a bridge that is gone, but the*)
(* slot is single: no later request is carried out before it.  So a request*)
(* that goes on with a transfer meets the transfer of its own call, or     *)
(* none (OwnerInv).  A write that failed leaves a temporary file that is   *)
(* not what was declared; only the abort can still reach it (WholeInv).    *)
(* As long as no request was given up, the slot and the transfer are those *)
(* of the call in progress, which closes the transfer before it returns    *)
(* (FreeInv).                                                              *)
(***************************************************************************)
EXTENDS FileTransfer, SequenceTheorems, TLAPS

\* A call the bridge makes.
Proper(j) ==
  /\ j \in Job
  /\ j.kind = "graphics" => j.path = Screen
  /\ j.kind # "graphics" => j.path \in Paths
  /\ j.kind = "write" => j.data \in Contents

Request ==
  [op : {"begin", "block", "finish", "abort"}, job : Job, tid : TransferIds \cup {0},
   offset : Nat]
Declared == Contents \cup Large \cup Frames \cup {<< >>}
Transfers ==
  [kind : {"none", "read", "write", "graphics"}, id : TransferIds \cup {0},
   path : Places \cup {None}, declared : Declared, done : Seq(Blocks), overwrite : BOOLEAN,
   job : 0 .. MaxJobs]

\* The answer to the request in progress has come.
Answered == sent /\ reply # None

BridgeType ==
  /\ step \in {"idle", "begin", "block", "finish", "abort"}
  /\ sent \in BOOLEAN
  /\ tid \in TransferIds \cup {0}
  /\ total \in Nat
  /\ got \in Seq(Blocks)
  /\ outcome \in [status : {"none", "ok", "failed"}, data : Seq(Blocks)]
  /\ hasKey \in BOOLEAN
  /\ bridges \in 0 .. MaxBridges + 1
  /\ session \in {"bridge", "old", "none"}
  /\ jobs \in 0 .. MaxJobs
  /\ locals \in 0 .. MaxLocal
  /\ dirty \in BOOLEAN

AgentType ==
  /\ slot # None => slot \in Request /\ Proper(slot.job)
  /\ transfer \in Transfers
  /\ temp \in Seq(Blocks \cup {Torn}) \cup {Absent}
  /\ stored \subseteq 1 .. MaxJobs

Anything == UNION {Written(p) : p \in Places}
FilesType == files \in [Places -> Anything] /\ \A p \in Places : files[p] \in Written(p)

\* The slot holds the request in progress or one that was given up, and no
\* request of a call is answered while one waits.
SlotInv ==
  /\ IF jobs = 0 THEN job = None /\ step = "idle" /\ outcome.status = "none"
     ELSE Proper(job) /\ job.n = jobs
  /\ slot # None => slot.job.n <= jobs /\ (slot.job.n = jobs => slot.job = job)
  /\ sent => step # "idle"
  /\ sent /\ slot # None => slot = [op |-> step, job |-> job, tid |-> tid, offset |-> Len(got)]
  /\ Answered => slot = None
  /\ step \in {"block", "finish"} /\ ~ sent => slot = None
  /\ step = "abort" /\ slot # None => slot.op # "begin" /\ slot.job = job

\* The open transfer is the one call j began.
OpenFor(j) ==
  /\ transfer.job = j.n /\ transfer.kind = j.kind /\ transfer.path = j.path
  /\ j.kind = "write" => transfer.declared = j.data

OwnerInv ==
  transfer.kind # "none" =>
    /\ transfer.job \in 1 .. jobs
    /\ transfer.job = jobs => OpenFor(job)
    /\ step \in {"block", "finish", "abort"} => transfer.job = jobs
    /\ step = "begin" /\ Answered /\ reply.ok => transfer.job = jobs
    /\ slot # None /\ slot.op # "begin" => OpenFor(slot.job)

\* Only the abort can still reach the open transfer.
Hopeless ==
  /\ transfer.done # transfer.declared
  /\ slot # None => slot.op \in {"begin", "abort"}
  /\ Answered /\ step # "abort" => reply = NotDone
  /\ step \in {"block", "finish"} => sent /\ reply = NotDone

WholeInv ==
  /\ transfer.kind = "write" => temp # Absent
  /\ transfer.kind = "write" => temp = transfer.done \/ Hopeless

\* s is how t begins.
Starts(s, t) == Len(s) <= Len(t) /\ \A i \in 1 .. Len(s) : s[i] = t[i]

\* What the bridge has been told of the current call is so.
AnswerInv ==
  Answered /\ reply.ok =>
    /\ step = "begin" => reply.tid \in TransferIds /\ reply.size \in Nat
    /\ step = "block" => reply.done \in Seq(Blocks)
    /\ step = "finish" /\ job.kind = "write" => job.n \in stored
    /\ step = "finish" /\ job.kind # "write" /\ ~ dirty => reply.done = files[job.path]

DataInv ==
  /\ transfer.kind \in {"read", "graphics"} /\ transfer.job = jobs /\ ~ dirty =>
       transfer.declared = files[transfer.path] /\ Starts(transfer.done, transfer.declared)
  /\ outcome.status = "ok" =>
       /\ step = "idle" /\ slot = None
       /\ job.kind = "write" => job.n \in stored
       /\ job.kind # "write" /\ ~ dirty => outcome.data = files[job.path]

\* Temporary files without a transfer are counted by the removals that failed.
LitterInv ==
  /\ others \in Nat /\ refused \in Nat
  /\ others + (IF temp # Absent /\ transfer.kind # "write" THEN 1 ELSE 0) <= refused

\* While no request was given up, an open transfer is the one the bridge knows.
FreeInv ==
  /\ gaveUp \in BOOLEAN
  /\ ~ gaveUp =>
       /\ ~ sent => slot = None
       /\ transfer.kind # "none" =>
            /\ step # "idle"
            /\ step = "begin" => sent /\ slot = None /\ reply.ok /\ reply.tid = transfer.id
            /\ step # "begin" => tid = transfer.id
            /\ step = "finish" /\ Answered => ~ reply.ok
            /\ step = "abort" => ~ Answered

TransferInv ==
  /\ BridgeType /\ AgentType /\ FilesType
  /\ SlotInv /\ OwnerInv /\ WholeInv /\ AnswerInv /\ DataInv
  /\ LitterInv /\ FreeInv

----------------------------------------------------------------------------
(* Contents, requests and transfers.                                       *)

(* What can be declared is a sequence of blocks, and Absent is not.        *)
LEMMA ContentTypes ==
  /\ Declared \subseteq Seq(Blocks)
  /\ \A s \in Seq(Blocks) : s \in Seq(Blocks \cup {Torn})
  /\ Absent \notin Seq(Blocks \cup {Torn}) /\ Absent \notin Seq(Blocks)
<1>1. << >> \in Seq(Blocks) OBVIOUS
<1>2. Declared \subseteq Seq(Blocks) BY <1>1, TransferAssumption DEF Declared
<1>3. ASSUME NEW s \in Seq(Blocks) PROVE s \in Seq(Blocks \cup {Torn})
  OBVIOUS
<1>4. Absent \notin Seq(Blocks \cup {Torn}) BY TransferAssumption
<1>5. QED BY <1>2, <1>3, <1>4

(* What is at a place is something that can be declared, or nothing.       *)
LEMMA PlaceTypes ==
  ASSUME FilesType, NEW p \in Places
  PROVE  /\ files[p] \in Declared \cup {Absent}
         /\ files[p] # Absent => files[p] \in Seq(Blocks)
<1>1. files[p] \in Written(p) BY DEF FilesType
<1>2. Written(p) \subseteq Declared \cup {Absent} BY DEF Written, Declared
<1>3. QED BY <1>1, <1>2, ContentTypes

(* The next block of a sequence is a block.                                *)
LEMMA NextBlock ==
  ASSUME NEW s \in Seq(Blocks), NEW k \in Nat, k < Len(s)
  PROVE  s[k + 1] \in Blocks
OBVIOUS

(* The closed transfer keeps its id.                                       *)
LEMMA ClosedIsTransfer ==
  ASSUME transfer \in Transfers
  PROVE  NoTransfer(transfer.id) \in Transfers /\ NoTransfer(transfer.id).kind = "none"
<1>1. << >> \in Seq(Blocks) /\ 0 \in 0 .. MaxJobs /\ << >> \in Declared
  BY TransferAssumption DEF Declared
<1>2. transfer.id \in TransferIds \cup {0} BY DEF Transfers
<1>3. QED BY <1>1, <1>2 DEF Transfers, NoTransfer

(* A transfer that went one block further.                                 *)
LEMMA GrownIsTransfer ==
  ASSUME transfer \in Transfers, NEW b \in Blocks,
         transfer' = [transfer EXCEPT !.done = Append(transfer.done, b)]
  PROVE  /\ transfer' \in Transfers /\ transfer'.done = Append(transfer.done, b)
         /\ transfer'.kind = transfer.kind /\ transfer'.path = transfer.path
         /\ transfer'.declared = transfer.declared /\ transfer'.job = transfer.job
         /\ transfer'.id = transfer.id
<1>1. transfer.done \in Seq(Blocks) BY DEF Transfers
<1>2. Append(transfer.done, b) \in Seq(Blocks) BY <1>1
<1>3. QED BY <1>2 DEF Transfers

----------------------------------------------------------------------------
(* What carrying out a request can do.                                     *)

\* Nothing but refuse, or draw a number.
Nothing ==
  /\ reply' = NotDone
  /\ UNCHANGED <<temp, litter, files, stored>>
  /\ transfer' \in Transfers
  /\ transfer' = transfer \/ (transfer.kind = "none" /\ transfer'.kind = "none")

\* Open a transfer.
Opening(r) ==
  /\ r.op = "begin" /\ transfer.kind = "none"
  /\ transfer' \in Transfers
  /\ transfer'.kind = r.job.kind /\ transfer'.path = r.job.path /\ transfer'.job = r.job.n
  /\ transfer'.done = << >>
  /\ transfer'.declared = IF r.job.kind = "write" THEN r.job.data ELSE files[r.job.path]
  /\ temp' = IF r.job.kind = "write" THEN << >> ELSE temp
  /\ others' = IF r.job.kind = "write" /\ temp # Absent THEN others + 1 ELSE others
  /\ reply'.ok /\ reply'.tid \in TransferIds /\ reply'.size \in Nat
  /\ reply'.tid = transfer'.id
  /\ UNCHANGED <<refused, files, stored>>

\* Go on with it by one block b.
Growing(b) ==
  /\ b \in Blocks
  /\ Len(transfer.done) < Len(transfer.declared)
  /\ transfer' \in Transfers /\ transfer'.done = Append(transfer.done, b)
  /\ transfer'.kind = transfer.kind /\ transfer'.path = transfer.path
  /\ transfer'.declared = transfer.declared /\ transfer'.job = transfer.job
  /\ transfer'.id = transfer.id
  /\ reply'.ok /\ reply'.done = transfer'.done
  /\ UNCHANGED <<litter, files, stored>>

Reading(r, b) ==
  /\ r.op = "block" /\ transfer.kind \in {"read", "graphics"}
  /\ Growing(b)
  /\ temp' = temp
  /\ files[transfer.path] # Absent /\ Len(transfer.done) < Len(files[transfer.path]) =>
       b = files[transfer.path][Len(transfer.done) + 1]

Writing(r, b) ==
  /\ r.op = "block" /\ transfer.kind = "write"
  /\ Growing(b)
  /\ temp' = Append(temp, b)

\* Spoil the temporary file.
Tearing(r) ==
  /\ r.op = "block" /\ transfer.kind = "write"
  /\ Len(transfer.done) < Len(transfer.declared)
  /\ temp' \in {temp, Append(temp, Torn)}
  /\ reply' = NotDone
  /\ UNCHANGED <<transfer, litter, files, stored>>

\* End a read.
Ending(r) ==
  /\ r.op = "finish" /\ r.job.kind # "write"
  /\ transfer.kind \in {"read", "graphics"}
  /\ Len(transfer.done) = Len(transfer.declared)
  /\ transfer' = NoTransfer(transfer.id)
  /\ reply'.ok /\ reply'.done = transfer.done
  /\ UNCHANGED <<temp, litter, files, stored>>

\* Rename the temporary file.
Storing(r) ==
  /\ r.op = "finish" /\ r.job.kind = "write" /\ transfer.kind = "write"
  /\ transfer.done = transfer.declared
  /\ files[transfer.path] # Absent => transfer.overwrite
  /\ files' = [files EXCEPT ![transfer.path] = temp]
  /\ stored' = stored \cup {transfer.job}
  /\ transfer' = NoTransfer(transfer.id)
  /\ temp' = Absent
  /\ reply'.ok /\ reply'.done = transfer.done
  /\ UNCHANGED litter

\* Close the transfer without a success.
Closing(r) ==
  /\ r.op \in {"finish", "abort"}
  /\ transfer.kind # "none"
  /\ CloseTransfer
  /\ reply' = NotDone \/ r.op = "abort"
  /\ \/ files' = files
     \/ /\ transfer.kind = "write" /\ r.op = "finish" /\ r.job.kind = "write"
        /\ files[transfer.path] # Absent => transfer.overwrite
        /\ files' = [files EXCEPT ![transfer.path] = Absent]
  /\ stored' = stored

Done(r) ==
  \/ Nothing \/ Opening(r) \/ Tearing(r) \/ Ending(r) \/ Storing(r) \/ Closing(r)
  \/ \E b \in Blocks : Reading(r, b) \/ Writing(r, b)

(* A refusal does nothing.                                                 *)
LEMMA RefusedIsNothing ==
  ASSUME transfer \in Transfers, Refused
  PROVE  Nothing
BY DEF Refused, Nothing, agentVars

(* The three begins.                                                       *)
LEMMA BeginsDo ==
  ASSUME AgentType, FilesType, NEW r \in Request, Proper(r.job),
         BeginFileRead(r) \/ BeginGraphics(r) \/ BeginFileWrite(r)
  PROVE  Done(r)
<1>1. transfer \in Transfers BY DEF AgentType
<1>2. CASE Refused BY <1>1, <1>2, RefusedIsNothing DEF Done
<1>3. /\ r.job \in Job /\ r.job.n \in 0 .. MaxJobs /\ r.job.path \in Places
      /\ r.job.kind \in {"read", "write", "graphics"} /\ r.job.overwrite \in BOOLEAN
  BY TransferAssumption DEF Proper, Job
<1>4. << >> \in Seq(Blocks) OBVIOUS
<1>5. ASSUME NEW id \in TransferIds, r.op = "begin", transfer.kind = "none",
             r.job.kind \in {"read", "graphics"}, files[r.job.path] # Absent,
             transfer' = [kind |-> r.job.kind, id |-> id, path |-> r.job.path,
                          declared |-> files[r.job.path], done |-> << >>,
                          overwrite |-> FALSE, job |-> r.job.n],
             reply' = [ok |-> TRUE, tid |-> id, size |-> Len(files[r.job.path])],
             UNCHANGED <<temp, litter, files, stored>>
      PROVE  Done(r)
  <2>0. others' = others /\ refused' = refused BY <1>5 DEF litter
  <2>1. files[r.job.path] \in Declared /\ Len(files[r.job.path]) \in Nat
    BY <1>3, <1>5, PlaceTypes
  <2>2. transfer' \in Transfers BY <1>3, <1>4, <1>5, <2>1 DEF Transfers
  <2>3. Opening(r) BY <1>5, <2>0, <2>1, <2>2 DEF Opening
  <2>4. QED BY <2>3 DEF Done
<1>6. CASE BeginFileRead(r) /\ ~ Refused
  BY <1>5, <1>6 DEF BeginFileRead
<1>7. CASE BeginGraphics(r) /\ ~ Refused
  <2>1. r.job.path = Screen BY <1>7 DEF BeginGraphics, Proper
  <2>2. QED BY <1>5, <1>7, <2>1 DEF BeginGraphics
<1>8. CASE BeginFileWrite(r) /\ ~ Refused
  <2>1. /\ r.op = "begin" /\ r.job.kind = "write" /\ transfer.kind = "none"
        /\ UNCHANGED <<files, stored, refused>>
    BY <1>8 DEF BeginFileWrite
  <2>2. PICK id \in TransferIds :
          \/ /\ transfer' = [transfer EXCEPT !.id = id]
             /\ reply' = NotDone
             /\ UNCHANGED <<temp, others>>
          \/ /\ transfer' = [kind |-> "write", id |-> id, path |-> r.job.path,
                             declared |-> r.job.data, done |-> << >>,
                             overwrite |-> r.job.overwrite, job |-> r.job.n]
             /\ temp' = << >>
             /\ others' = IF temp = Absent THEN others ELSE others + 1
             /\ reply' = [ok |-> TRUE, tid |-> id, size |-> Len(r.job.data)]
    BY <1>8 DEF BeginFileWrite
  <2>3. CASE /\ transfer' = [transfer EXCEPT !.id = id] /\ reply' = NotDone
             /\ UNCHANGED <<temp, others>>
    <3>1. transfer' \in Transfers /\ transfer'.kind = "none"
      BY <1>1, <2>1, <2>3 DEF Transfers
    <3>2. QED BY <2>1, <2>3, <3>1 DEF Nothing, Done, litter
  <2>4. CASE /\ transfer' = [kind |-> "write", id |-> id, path |-> r.job.path,
                             declared |-> r.job.data, done |-> << >>,
                             overwrite |-> r.job.overwrite, job |-> r.job.n]
             /\ temp' = << >>
             /\ others' = IF temp = Absent THEN others ELSE others + 1
             /\ reply' = [ok |-> TRUE, tid |-> id, size |-> Len(r.job.data)]
    <3>1. r.job.data \in Declared BY <2>1 DEF Proper, Declared
    <3>2. r.job.data \in Seq(Blocks) BY <3>1, ContentTypes
    <3>3. Len(r.job.data) \in Nat BY <3>2
    <3>4. transfer' \in Transfers BY <1>3, <1>4, <2>4, <3>1 DEF Transfers
    <3>5. Opening(r) BY <2>1, <2>4, <3>3, <3>4 DEF Opening
    <3>6. QED BY <3>5 DEF Done
  <2>5. QED BY <2>2, <2>3, <2>4
<1>9. QED BY <1>2, <1>6, <1>7, <1>8

(* A block of a read: the next one of what is there now.                   *)
LEMMA ReadsDo ==
  ASSUME AgentType, FilesType, NEW r \in Request,
         transfer.kind # "none" => transfer.path \in Places,
         ReadTransferBlock(r) \/ ReadGraphicsBlock(r),
         transfer.kind = "graphics" => transfer.path = Screen
  PROVE  Done(r)
<1>1. transfer \in Transfers BY DEF AgentType
<1>2. CASE Refused BY <1>1, <1>2, RefusedIsNothing DEF Done
<1>3. transfer.done \in Seq(Blocks) /\ Len(transfer.done) \in Nat BY <1>1 DEF Transfers
<1>4. ASSUME NEW kind \in {"read", "graphics"}, Continues(r, kind), r.op = "block",
             NEW b \in Blocks,
             transfer' = [transfer EXCEPT !.done = Append(transfer.done, b)],
             BlockReply(r, Append(transfer.done, b), b),
             UNCHANGED <<temp, litter, files, stored>>,
             files[transfer.path] # Absent /\ Len(transfer.done) < Len(files[transfer.path]) =>
               b = files[transfer.path][Len(transfer.done) + 1]
      PROVE  Done(r)
  <2>1. transfer.kind = kind /\ Len(transfer.done) < Len(transfer.declared)
    BY <1>4 DEF Continues
  <2>2. reply'.ok /\ reply'.done = Append(transfer.done, b) BY <1>4 DEF BlockReply
  <2>3. Growing(b) BY <1>1, <1>4, <2>1, <2>2, GrownIsTransfer DEF Growing
  <2>4. Reading(r, b) BY <1>4, <2>1, <2>3 DEF Reading
  <2>5. QED BY <2>4 DEF Done
<1>5. CASE ReadTransferBlock(r) /\ ~ Refused
  <2> DEFINE b == files[transfer.path][r.offset + 1]
  <2>1. /\ Continues(r, "read") /\ r.op = "block" /\ files[transfer.path] # Absent
        /\ r.offset < Len(files[transfer.path])
        /\ transfer' = [transfer EXCEPT !.done = Append(transfer.done, b)]
        /\ BlockReply(r, Append(transfer.done, b), b)
        /\ UNCHANGED <<temp, litter, files, stored>>
    BY <1>5 DEF ReadTransferBlock
  <2>2. transfer.path \in Places /\ r.offset = Len(transfer.done) BY <2>1 DEF Continues
  <2>3. files[transfer.path] \in Seq(Blocks) BY <2>1, <2>2, PlaceTypes
  <2>4. b \in Blocks BY <1>3, <2>1, <2>2, <2>3, NextBlock
  <2>5. files[transfer.path] # Absent /\ Len(transfer.done) < Len(files[transfer.path]) =>
          b = files[transfer.path][Len(transfer.done) + 1]
    BY <2>2
  <2> HIDE DEF b
  <2>6. QED BY <1>4, <2>1, <2>4, <2>5
<1>6. CASE ReadGraphicsBlock(r) /\ ~ Refused
  <2>1. Continues(r, "graphics") /\ r.op = "block" /\ UNCHANGED <<temp, litter, files, stored>>
    BY <1>6 DEF ReadGraphicsBlock
  <2>2. transfer.path = Screen /\ Screen \in Places /\ r.offset = Len(transfer.done)
    BY <2>1 DEF Continues, Places
  <2>3. PICK b \in IF files[Screen] # Absent /\ r.offset < Len(files[Screen])
                   THEN {files[Screen][r.offset + 1]} ELSE Blocks :
          /\ transfer' = [transfer EXCEPT !.done = Append(transfer.done, b)]
          /\ BlockReply(r, Append(transfer.done, b), b)
    BY <1>6 DEF ReadGraphicsBlock
  <2>4. files[Screen] # Absent => files[Screen] \in Seq(Blocks) BY <2>2, PlaceTypes
  <2>5. b \in Blocks
    <3>1. CASE files[Screen] # Absent /\ r.offset < Len(files[Screen])
      BY <1>3, <2>2, <2>3, <2>4, <3>1, NextBlock
    <3>2. CASE ~ (files[Screen] # Absent /\ r.offset < Len(files[Screen]))
      BY <2>3, <3>2
    <3>3. QED BY <3>1, <3>2
  <2>6. files[transfer.path] # Absent /\ Len(transfer.done) < Len(files[transfer.path]) =>
          b = files[transfer.path][Len(transfer.done) + 1]
    BY <2>2, <2>3
  <2>7. QED BY <1>4, <2>1, <2>3, <2>5, <2>6
<1>7. QED BY <1>2, <1>5, <1>6

(* A block of a write: the next one of what was declared, or a failure.    *)
LEMMA WritesDo ==
  ASSUME AgentType, NEW r \in Request, WriteTransferBlock(r),
         transfer.kind = "write" => transfer.declared = r.job.data
  PROVE  Done(r)
<1>1. transfer \in Transfers BY DEF AgentType
<1>2. CASE Refused BY <1>1, <1>2, RefusedIsNothing DEF Done
<1>3. /\ transfer.done \in Seq(Blocks) /\ Len(transfer.done) \in Nat
      /\ transfer.declared \in Seq(Blocks)
  BY <1>1, ContentTypes DEF Transfers
<1>4. CASE ~ Refused
  <2> DEFINE b == r.job.data[r.offset + 1]
  <2>1. Continues(r, "write") /\ r.op = "block" /\ UNCHANGED <<litter, files, stored>>
    BY <1>4 DEF WriteTransferBlock
  <2>2. /\ transfer.kind = "write" /\ r.offset = Len(transfer.done)
        /\ Len(transfer.done) < Len(transfer.declared)
    BY <2>1 DEF Continues
  <2>3. b \in Blocks BY <1>3, <2>2, NextBlock
  <2>4. \/ temp' \in {temp, Append(temp, Torn)} /\ reply' = NotDone /\ UNCHANGED transfer
        \/ /\ temp' = Append(temp, b)
           /\ transfer' = [transfer EXCEPT !.done = Append(transfer.done, b)]
           /\ BlockReply(r, Append(transfer.done, b), None)
    BY <1>4 DEF WriteTransferBlock
  <2> HIDE DEF b
  <2>5. CASE temp' \in {temp, Append(temp, Torn)} /\ reply' = NotDone /\ UNCHANGED transfer
    BY <2>1, <2>2, <2>5 DEF Tearing, Done
  <2>6. CASE /\ temp' = Append(temp, b)
             /\ transfer' = [transfer EXCEPT !.done = Append(transfer.done, b)]
             /\ BlockReply(r, Append(transfer.done, b), None)
    <3>1. reply'.ok /\ reply'.done = Append(transfer.done, b) BY <2>6 DEF BlockReply
    <3>2. Growing(b) BY <1>1, <2>1, <2>2, <2>3, <2>6, <3>1, GrownIsTransfer DEF Growing
    <3>3. Writing(r, b) BY <2>1, <2>2, <2>6, <3>2 DEF Writing
    <3>4. QED BY <2>3, <3>3 DEF Done
  <2>7. QED BY <2>4, <2>5, <2>6
<1>5. QED BY <1>2, <1>4

(* The ends.                                                               *)
LEMMA EndsDo ==
  ASSUME AgentType, NEW r \in Request,
         EndReadTransfer(r) \/ CommitFileWrite(r) \/ AbortTransfer(r)
  PROVE  Done(r)
<1>1. transfer \in Transfers BY DEF AgentType
<1>2. CASE Refused BY <1>1, <1>2, RefusedIsNothing DEF Done
<1>3. CASE EndReadTransfer(r) /\ ~ Refused
  <2>1. Ending(r) BY <1>3 DEF EndReadTransfer, FinalReply, Ending
  <2>2. QED BY <2>1 DEF Done
<1>4. CASE CommitFileWrite(r) /\ ~ Refused
  <2>1. /\ r.op = "finish" /\ r.job.kind = "write" /\ transfer.kind = "write"
        /\ transfer.done = transfer.declared
    BY <1>4 DEF CommitFileWrite, Verified
  <2>2. \/ CloseTransfer /\ reply' = NotDone /\ UNCHANGED <<files, stored>>
        \/ /\ files[transfer.path] # Absent => transfer.overwrite
           /\ files' = [files EXCEPT ![transfer.path] = temp]
           /\ stored' = stored \cup {transfer.job}
           /\ transfer' = NoTransfer(transfer.id)
           /\ temp' = Absent
           /\ FinalReply
           /\ UNCHANGED litter
        \/ /\ files[transfer.path] # Absent => transfer.overwrite
           /\ files' = [files EXCEPT ![transfer.path] = Absent]
           /\ CloseTransfer
           /\ reply' = NotDone
           /\ UNCHANGED stored
    BY <1>4 DEF CommitFileWrite
  <2>3. FinalReply => reply'.ok /\ reply'.done = transfer.done BY DEF FinalReply
  <2>4. Storing(r) \/ Closing(r) BY <2>1, <2>2, <2>3 DEF Storing, Closing
  <2>5. QED BY <2>4 DEF Done
<1>5. CASE AbortTransfer(r) /\ ~ Refused
  <2>1. Closing(r) BY <1>5 DEF AbortTransfer, Closing
  <2>2. QED BY <2>1 DEF Done
<1>6. QED BY <1>2, <1>3, <1>4, <1>5

(* Whatever is carried out is one of these; the request meets the transfer *)
(* of its own call (OwnerInv).                                             *)
LEMMA ExecuteDoes ==
  ASSUME AgentType, FilesType, SlotInv, OwnerInv, Execute
  PROVE  /\ slot # None /\ slot \in Request /\ Proper(slot.job) /\ slot' = None
         /\ UNCHANGED <<job, step, sent, tid, total, got, outcome, hasKey, bridges, jobs,
                        gaveUp, session, locals, dirty>>
         /\ Done(slot)
<1>1. /\ slot # None /\ Handle(slot) /\ slot' = None
      /\ UNCHANGED <<job, step, sent, tid, total, got, outcome, hasKey, bridges, jobs,
                     gaveUp, session, locals, dirty>>
  BY DEF Execute, bridgeVars
<1>2. slot \in Request /\ Proper(slot.job) BY <1>1 DEF AgentType
<1>3. slot.op # "begin" /\ transfer.kind # "none" => OpenFor(slot.job)
  BY <1>1 DEF OwnerInv
<1>4. Done(slot)
  <2>1. CASE BeginFileRead(slot) \/ BeginGraphics(slot) \/ BeginFileWrite(slot)
    BY <1>2, <2>1, BeginsDo
  <2>2. CASE ReadTransferBlock(slot) \/ ReadGraphicsBlock(slot)
    <3>1. slot.op # "begin" BY <2>2 DEF ReadTransferBlock, ReadGraphicsBlock
    <3>2. transfer.kind # "none" => transfer.path \in Places
      BY <1>2, <1>3, <3>1 DEF OpenFor, Proper, Job
    <3>3. transfer.kind = "graphics" => transfer.path = Screen
      BY <1>2, <1>3, <3>1 DEF OpenFor, Proper
    <3>4. QED BY <1>2, <2>2, <3>2, <3>3, ReadsDo
  <2>3. CASE WriteTransferBlock(slot)
    <3>1. slot.op # "begin" BY <2>3 DEF WriteTransferBlock
    <3>2. transfer.kind = "write" => transfer.declared = slot.job.data
      BY <1>3, <3>1 DEF OpenFor
    <3>3. QED BY <1>2, <2>3, <3>2, WritesDo
  <2>4. CASE EndReadTransfer(slot) \/ CommitFileWrite(slot) \/ AbortTransfer(slot)
    BY <1>2, <2>4, EndsDo
  <2>5. QED BY <1>1, <2>1, <2>2, <2>3, <2>4 DEF Handle
<1>5. QED BY <1>1, <1>2, <1>4

----------------------------------------------------------------------------
(* What the bridge does.                                                   *)

\* Receive or Timeout: the next request, or the return of the call.
Went ==
  /\ step # "idle" /\ sent' = FALSE /\ reply' = None
  /\ UNCHANGED <<job, hasKey, bridges, jobs, session, slot, transfer, temp, litter, files,
                 stored, locals, dirty>>
  /\ gaveUp' \in BOOLEAN
  /\ ~ gaveUp' => ~ gaveUp /\ Answered /\ (step = "begin" /\ step' = "idle" => ~ reply.ok)
  /\ \/ /\ step = "begin" /\ Answered /\ reply.ok
        /\ step' \in {"block", "finish", "abort"}
        /\ tid' = reply.tid /\ total' = reply.size /\ UNCHANGED <<got, outcome>>
     \/ /\ step = "block" /\ Answered /\ reply.ok
        /\ step' \in {"block", "finish"}
        /\ got' = reply.done /\ UNCHANGED <<tid, total, outcome>>
     \/ /\ step = "finish" /\ Answered /\ reply.ok
        /\ step' = "idle"
        /\ \/ reply.done = got /\ outcome' = [status |-> "ok", data |-> got]
           \/ outcome' = [status |-> "failed", data |-> got]
        /\ UNCHANGED <<tid, total, got>>
     \/ /\ step \in {"begin", "abort"} /\ step' = "idle"
        /\ outcome' = [status |-> "failed", data |-> << >>]
        /\ UNCHANGED <<tid, total, got>>
     \/ /\ step \in {"block", "finish"} /\ step' = "abort"
        /\ UNCHANGED <<tid, total, got, outcome>>

(* Receive and Timeout are such steps.                                     *)
LEMMA BridgeGoes ==
  ASSUME gaveUp \in BOOLEAN, Receive \/ Timeout
  PROVE  Went
<1>1. /\ sent' = FALSE /\ reply' = None
      /\ UNCHANGED <<job, hasKey, bridges, jobs, session, slot, transfer, temp, litter, files,
                     stored, locals, dirty>>
  BY DEF Receive, Timeout, Issue, Return, Fail, agentVars
<1>a. /\ gaveUp' \in BOOLEAN
      /\ ~ gaveUp' => ~ gaveUp /\ Answered /\ (step = "begin" /\ step' = "idle" => ~ reply.ok)
  <2>1. CASE Timeout BY <2>1 DEF Timeout
  <2>2. CASE Receive
    <3>1. gaveUp' = gaveUp /\ Answered BY <2>2 DEF Receive, Answered
    <3>2. step = "begin" /\ reply.ok => step' \in {"block", "finish", "abort"}
      BY <2>2 DEF Receive, Issue, AfterBlocks
    <3>3. QED BY <3>1, <3>2
  <2>3. QED BY <2>1, <2>2
<1>2. CASE Fail /\ UNCHANGED <<tid, total, got>>
  BY <1>1, <1>a, <1>2 DEF Went, Fail, Issue, Return
<1>3. CASE Receive /\ ~ (Fail /\ UNCHANGED <<tid, total, got>>)
  <2>1. Answered BY <1>3 DEF Receive, Answered
  <2>2. CASE /\ step = "begin" /\ reply.ok
             /\ tid' = reply.tid
             /\ total' = reply.size
             /\ Issue(IF job.kind # "write" /\ reply.size > MaxSize THEN "abort"
                      ELSE AfterBlocks(0, IF job.kind = "write" THEN Len(job.data)
                                          ELSE reply.size))
             /\ UNCHANGED <<got, outcome>>
    <3>1. step' \in {"block", "finish", "abort"} BY <2>2 DEF Issue, AfterBlocks
    <3>2. QED BY <1>1, <1>a, <2>1, <2>2, <3>1 DEF Went
  <2>3. CASE /\ step = "block" /\ Acknowledged
             /\ got' = reply.done
             /\ Issue(AfterBlocks(Len(got'), IF job.kind = "write" THEN Len(job.data)
                                             ELSE total))
             /\ UNCHANGED <<tid, total, outcome>>
    <3>1. step' \in {"block", "finish"} BY <2>3 DEF Issue, AfterBlocks
    <3>2. reply.ok BY <2>3 DEF Acknowledged
    <3>3. QED BY <1>1, <1>a, <2>1, <2>3, <3>1, <3>2 DEF Went
  <2>4. CASE /\ step = "finish" /\ reply.ok
             /\ Return(IF reply.done = got THEN "ok" ELSE "failed", got)
             /\ UNCHANGED <<tid, total, got>>
    <3>1. step' = "idle"
          /\ outcome' = [status |-> IF reply.done = got THEN "ok" ELSE "failed", data |-> got]
      BY <2>4 DEF Return, Issue
    <3>2. \/ reply.done = got /\ outcome' = [status |-> "ok", data |-> got]
          \/ outcome' = [status |-> "failed", data |-> got]
      BY <3>1
    <3>3. QED BY <1>1, <1>a, <2>1, <2>4, <3>1, <3>2 DEF Went
  <2>5. QED BY <1>3, <2>2, <2>3, <2>4 DEF Receive
<1>4. QED BY <1>2, <1>3 DEF Timeout

\* The start of the nth call.
Started ==
  /\ step = "idle" /\ step' = "begin" /\ sent' = FALSE /\ reply' = None
  /\ jobs < MaxJobs /\ jobs' = jobs + 1
  /\ Proper(job') /\ job'.n = jobs + 1
  /\ tid' = 0 /\ total' = 0 /\ got' = << >>
  /\ outcome' = [status |-> "none", data |-> << >>]
  /\ dirty' = FALSE
  /\ gaveUp' \in BOOLEAN
  /\ ~ gaveUp' => ~ gaveUp \/ (slot = None /\ transfer.kind = "none")
  /\ UNCHANGED <<hasKey, bridges, session, slot, transfer, temp, litter, files, stored, locals>>

(* upload_file, download_file and capture_graphics start with proper       *)
(* arguments.                                                              *)
LEMMA CallStarts ==
  ASSUME jobs \in Nat,
         \/ \E p \in Paths, d \in Contents, o \in BOOLEAN : StartUpload(p, d, o)
         \/ \E p \in Paths : StartDownload(p)
         \/ StartCapture
  PROVE  Started
<1>1. ASSUME NEW j, Begin(j), jobs < MaxJobs => Proper(j) /\ j.n = jobs + 1
      PROVE  Started
  BY <1>1 DEF Begin, Issue, Started, agentVars
<1>2. jobs < MaxJobs => jobs + 1 \in 1 .. MaxJobs BY TransferAssumption
<1>3. ASSUME NEW p \in Paths, NEW d \in Contents, NEW o \in BOOLEAN, StartUpload(p, d, o)
      PROVE  Started
  <2> DEFINE j == [kind |-> "write", path |-> p, data |-> d, overwrite |-> o, n |-> jobs + 1]
  <2>1. jobs < MaxJobs => Proper(j) /\ j.n = jobs + 1 BY <1>2 DEF Proper, Job, Places
  <2>2. Begin(j) BY <1>3 DEF StartUpload
  <2> HIDE DEF j
  <2>3. QED BY <1>1, <2>1, <2>2
<1>4. ASSUME NEW p \in Paths, StartDownload(p)
      PROVE  Started
  <2> DEFINE j == [kind |-> "read", path |-> p, data |-> << >>, overwrite |-> FALSE,
                   n |-> jobs + 1]
  <2>1. jobs < MaxJobs => Proper(j) /\ j.n = jobs + 1 BY <1>2 DEF Proper, Job, Places
  <2>2. Begin(j) BY <1>4 DEF StartDownload
  <2> HIDE DEF j
  <2>3. QED BY <1>1, <2>1, <2>2
<1>5. ASSUME StartCapture
      PROVE  Started
  <2> DEFINE j == [kind |-> "graphics", path |-> Screen, data |-> << >>, overwrite |-> FALSE,
                   n |-> jobs + 1]
  <2>1. jobs < MaxJobs => Proper(j) /\ j.n = jobs + 1 BY <1>2 DEF Proper, Job, Places
  <2>2. Begin(j) BY <1>5 DEF StartCapture
  <2> HIDE DEF j
  <2>3. QED BY <1>1, <2>1, <2>2
<1>6. QED BY <1>3, <1>4, <1>5

\* The steps of the specification, as the lemmas below see them.
Step ==
  \/ Started \/ Went \/ Handshake \/ Deliver \/ NewBridge
  \/ Execute \/ Expire \/ Cleanup
  \/ \E p \in Places : LocalChange(p)
  \/ UNCHANGED vars

(* Every step is one of them.                                              *)
LEMMA StepsAre ==
  ASSUME jobs \in Nat, gaveUp \in BOOLEAN, [Next]_vars
  PROVE  Step
BY CallStarts, BridgeGoes DEF Next, Step

----------------------------------------------------------------------------
(* Types.                                                                  *)

(* What is renamed to a destination is the data declared for it.           *)
LEMMA StoresDeclared ==
  ASSUME AgentType, OwnerInv, WholeInv, slot # None, Storing(slot)
  PROVE  /\ temp = transfer.declared /\ transfer.declared \in Contents
         /\ transfer.path \in Paths
         /\ transfer.job = slot.job.n /\ transfer.job \in 1 .. MaxJobs
<1>1. /\ transfer.kind = "write" /\ transfer.done = transfer.declared /\ slot.op = "finish"
      /\ slot.job.kind = "write"
  BY DEF Storing
<1>2. temp = transfer.declared BY <1>1 DEF WholeInv, Hopeless
<1>3. OpenFor(slot.job) BY <1>1 DEF OwnerInv
<1>4. Proper(slot.job) BY DEF AgentType
<1>5. QED BY <1>1, <1>2, <1>3, <1>4 DEF OpenFor, Proper, Job

(* The types of what the agent keeps.                                      *)
LEMMA AgentTypeStep ==
  ASSUME TransferInv, Step
  PROVE  AgentType'
<1> USE DEF TransferInv
<1>1. CASE UNCHANGED <<slot, transfer, temp, stored>>
  BY <1>1 DEF AgentType
<1>2. CASE Deliver
  <2>1. /\ slot' = [op |-> step, job |-> job, tid |-> tid, offset |-> Len(got)]
        /\ step # "idle" /\ UNCHANGED <<transfer, temp, stored>>
    BY <1>2 DEF Deliver, agentVars
  <2>2. Proper(job) /\ job \in Job BY <2>1 DEF SlotInv, Proper
  <2>3. /\ step \in {"begin", "block", "finish", "abort"} /\ tid \in TransferIds \cup {0}
        /\ Len(got) \in Nat
    BY <2>1 DEF BridgeType
  <2>4. slot' \in Request /\ slot'.job = job BY <2>1, <2>2, <2>3 DEF Request
  <2>5. Proper(slot'.job) BY <2>2, <2>4
  <2>6. QED BY <2>1, <2>4, <2>5 DEF AgentType, Proper
<1>3. CASE Execute
  <2>1. slot' = None /\ Done(slot) /\ slot # None BY <1>3, ExecuteDoes
  <2>2. /\ transfer \in Transfers /\ temp \in Seq(Blocks \cup {Torn}) \cup {Absent}
        /\ stored \subseteq 1 .. MaxJobs
    BY DEF AgentType
  <2>3. ASSUME transfer' \in Transfers, temp' \in Seq(Blocks \cup {Torn}) \cup {Absent},
               stored' \subseteq 1 .. MaxJobs
        PROVE  AgentType'
    BY <2>1, <2>3 DEF AgentType
  <2>4. CASE Nothing BY <2>2, <2>3, <2>4 DEF Nothing
  <2>5. CASE Opening(slot)
    <3>1. << >> \in Seq(Blocks \cup {Torn}) OBVIOUS
    <3>2. QED BY <2>2, <2>3, <2>5, <3>1 DEF Opening
  <2>6. ASSUME NEW b \in Blocks, Reading(slot, b) PROVE AgentType'
    BY <2>2, <2>3, <2>6 DEF Reading, Growing
  <2>7. CASE transfer.kind = "write" => temp # Absent
    <3>1. transfer.kind = "write" => temp \in Seq(Blocks \cup {Torn}) BY <2>2, <2>7
    <3>2. ASSUME NEW b \in Blocks, Writing(slot, b) PROVE AgentType'
      <4>1. Append(temp, b) \in Seq(Blocks \cup {Torn}) BY <3>1, <3>2 DEF Writing
      <4>2. QED BY <2>2, <2>3, <3>2, <4>1 DEF Writing, Growing
    <3>3. CASE Tearing(slot)
      <4>1. Append(temp, Torn) \in Seq(Blocks \cup {Torn}) BY <3>1, <3>3 DEF Tearing
      <4>2. QED BY <2>2, <2>3, <3>3, <4>1 DEF Tearing
    <3>4. CASE Storing(slot)
      <4>1. transfer.job \in 1 .. MaxJobs BY <2>1, <3>4, StoresDeclared
      <4>2. QED BY <2>2, <2>3, <3>4, <4>1, ClosedIsTransfer DEF Storing
    <3>5. CASE Ending(slot) BY <2>2, <2>3, <3>5, ClosedIsTransfer DEF Ending
    <3>6. CASE Closing(slot) BY <2>2, <2>3, <3>6, ClosedIsTransfer DEF Closing, CloseTransfer
    <3>7. QED BY <2>1, <2>4, <2>5, <2>6, <3>2, <3>3, <3>4, <3>5, <3>6 DEF Done
  <2>8. QED BY <2>7 DEF WholeInv
<1>4. CASE Expire BY <1>4 DEF Expire, AgentType, agentVars
<1>5. CASE Cleanup
  BY <1>5, ClosedIsTransfer DEF Cleanup, CloseTransfer, AgentType
<1>6. CASE Started \/ Went \/ Handshake \/ NewBridge \/ UNCHANGED vars
  BY <1>1, <1>6 DEF Started, Went, Handshake, NewBridge, agentVars, vars
<1>7. ASSUME NEW p \in Places, LocalChange(p) PROVE AgentType'
  BY <1>1, <1>7 DEF LocalChange
<1>8. QED BY <1>2, <1>3, <1>4, <1>5, <1>6, <1>7 DEF Step

(* Places hold what someone meant to write.                                *)
LEMMA FilesTypeStep ==
  ASSUME TransferInv, Step
  PROVE  FilesType'
<1> USE DEF TransferInv
<1>1. ASSUME NEW p \in Places, NEW c \in Written(p), files' = [files EXCEPT ![p] = c]
      PROVE  FilesType'
  <2>1. c \in Anything BY DEF Anything
  <2>2. files \in [Places -> Anything] /\ \A q \in Places : files[q] \in Written(q)
    BY DEF FilesType
  <2>3. files' \in [Places -> Anything] BY <1>1, <2>1, <2>2
  <2>4. \A q \in Places : files'[q] \in Written(q) BY <1>1, <2>2
  <2>5. QED BY <2>3, <2>4 DEF FilesType, Anything, Written
<1>2. CASE UNCHANGED files BY <1>2 DEF FilesType, Anything, Written
<1>3. CASE Execute
  <2>1. Done(slot) /\ slot # None BY <1>3, ExecuteDoes
  <2>2. CASE Storing(slot)
    <3>1. temp \in Contents /\ transfer.path \in Paths BY <2>1, <2>2, StoresDeclared
    <3>2. temp \in Written(transfer.path) /\ transfer.path \in Places
      BY <3>1, TransferAssumption DEF Written, Places
    <3>3. QED BY <1>1, <2>2, <3>2 DEF Storing
  <2>3. CASE Closing(slot) /\ ~ UNCHANGED files
    <3>1. files' = [files EXCEPT ![transfer.path] = Absent] /\ slot.op = "finish"
          /\ transfer.kind = "write"
      BY <2>3 DEF Closing
    <3>2. OpenFor(slot.job) /\ Proper(slot.job) BY <2>1, <3>1 DEF OwnerInv, AgentType
    <3>3. transfer.path \in Places BY <3>2 DEF OpenFor, Proper, Job
    <3>4. Absent \in Written(transfer.path) BY DEF Written
    <3>5. QED BY <1>1, <3>1, <3>3, <3>4
  <2>4. CASE ~ Storing(slot) /\ ~ Closing(slot)
    BY <1>2, <2>1, <2>4 DEF Done, Nothing, Opening, Tearing, Ending, Reading, Writing, Growing
  <2>5. QED BY <1>2, <2>2, <2>3, <2>4
<1>4. CASE Started \/ Went \/ Handshake \/ Deliver \/ NewBridge \/ Expire \/ Cleanup
           \/ UNCHANGED vars
  BY <1>2, <1>4 DEF Started, Went, Handshake, Deliver, NewBridge, Expire, Cleanup, agentVars,
     vars
<1>5. ASSUME NEW p \in Places, LocalChange(p) PROVE FilesType'
  BY <1>1, <1>5 DEF LocalChange
<1>6. QED BY <1>3, <1>4, <1>5 DEF Step

(* The types of what the bridge keeps.                                     *)
LEMMA BridgeTypeStep ==
  ASSUME TransferInv, Step
  PROVE  BridgeType'
<1> USE DEF TransferInv
<1>1. << >> \in Seq(Blocks) OBVIOUS
<1>2. CASE Started
  <2>1. jobs' \in 0 .. MaxJobs BY <1>2, TransferAssumption DEF Started, BridgeType
  <2>2. outcome' \in [status : {"none", "ok", "failed"}, data : Seq(Blocks)]
    BY <1>1, <1>2 DEF Started
  <2>3. step' = "begin" /\ sent' = FALSE /\ dirty' = FALSE /\ tid' = 0 /\ total' = 0
        /\ got' = << >> /\ UNCHANGED <<hasKey, bridges, session, locals>>
    BY <1>2 DEF Started
  <2>4. QED BY <1>1, <2>1, <2>2, <2>3 DEF BridgeType
<1>3. CASE Went
  <2>1. /\ step' \in {"idle", "begin", "block", "finish", "abort"} /\ sent' = FALSE
        /\ UNCHANGED <<hasKey, bridges, jobs, session, locals, dirty>>
    BY <1>3 DEF Went
  <2>2. tid' \in TransferIds \cup {0} /\ total' \in Nat
    BY <1>3 DEF Went, AnswerInv, BridgeType
  <2>3. got' \in Seq(Blocks) BY <1>3 DEF Went, AnswerInv, BridgeType
  <2>4. outcome' \in [status : {"none", "ok", "failed"}, data : Seq(Blocks)]
    <3>1. \/ UNCHANGED outcome
          \/ \E st \in {"ok", "failed"}, d \in {got, << >>} :
               outcome' = [status |-> st, data |-> d]
      BY <1>3 DEF Went
    <3>2. \A st \in {"ok", "failed"}, d \in {got, << >>} :
            [status |-> st, data |-> d] \in [status : {"none", "ok", "failed"}, data : Seq(Blocks)]
      BY <1>1 DEF BridgeType
    <3>3. QED BY <3>1, <3>2 DEF BridgeType
  <2>5. QED BY <2>1, <2>2, <2>3, <2>4 DEF BridgeType
<1>4. CASE Handshake BY <1>4 DEF Handshake, BridgeType
<1>5. CASE Deliver BY <1>5 DEF Deliver, BridgeType
<1>6. CASE NewBridge
  <2>1. bridges' \in 0 .. MaxBridges + 1
    BY <1>6, TransferAssumption DEF NewBridge, BridgeType
  <2>2. outcome' \in [status : {"none", "ok", "failed"}, data : Seq(Blocks)]
    BY <1>1, <1>6 DEF NewBridge, Return
  <2>3. /\ step' = "idle" /\ sent' = FALSE /\ hasKey' = FALSE
        /\ session' \in {"bridge", "old", "none"}
        /\ UNCHANGED <<tid, total, got, jobs, locals, dirty>>
    BY <1>6 DEF NewBridge, Return, Issue, BridgeType
  <2>4. QED BY <2>1, <2>2, <2>3 DEF BridgeType
<1>7. CASE Execute
  BY <1>7, ExecuteDoes DEF BridgeType
<1>8. CASE Expire \/ Cleanup BY <1>8 DEF Expire, Cleanup, bridgeVars, BridgeType
<1>9. ASSUME NEW p \in Places, LocalChange(p) PROVE BridgeType'
  <2>1. locals' \in 0 .. MaxLocal
    BY <1>9, TransferAssumption DEF LocalChange, BridgeType
  <2>2. dirty' \in BOOLEAN BY <1>9 DEF LocalChange
  <2>3. QED BY <1>9, <2>1, <2>2 DEF LocalChange, bridgeVars, BridgeType
<1>10. CASE UNCHANGED vars BY <1>10 DEF vars, BridgeType
<1>11. QED
  BY <1>2, <1>3, <1>4, <1>5, <1>6, <1>7, <1>8, <1>9, <1>10 DEF Step

----------------------------------------------------------------------------
(* Requests and owners.                                                    *)

(* A step that leaves the calls alone and empties the slot.                *)
LEMMA SlotEmptied ==
  ASSUME SlotInv, slot' = None, UNCHANGED <<job, jobs, step, sent, tid, got, outcome>>
  PROVE  SlotInv'
BY DEF SlotInv, Proper, Answered

(* Every step keeps SlotInv.                                               *)
LEMMA SlotStep ==
  ASSUME TransferInv, Step
  PROVE  SlotInv'
<1> USE DEF TransferInv
<1>1. jobs \in Nat BY TransferAssumption DEF BridgeType
<1>2. CASE Started
  <2>1. jobs' # 0 /\ Proper(job)' /\ job'.n = jobs' BY <1>1, <1>2 DEF Started, Proper
  <2>2. slot' # None => slot'.job.n <= jobs' /\ slot'.job.n # jobs'
    <3>1. slot # None => slot.job.n \in Nat /\ slot.job.n <= jobs
      BY DEF SlotInv, AgentType, Proper, Job
    <3>2. QED BY <1>1, <1>2, <3>1 DEF Started
  <2>3. QED BY <1>2, <2>1, <2>2 DEF Started, SlotInv, Answered
<1>3. CASE Went
  <2>1. /\ step # "idle" /\ ~ sent' /\ UNCHANGED <<job, jobs, slot>>
        /\ step' \in {"block", "finish"} => Answered
        /\ step' = "abort" => Answered \/ step \in {"block", "finish"}
    BY <1>3 DEF Went
  <2>2. step' \in {"block", "finish"} => slot = None BY <2>1 DEF SlotInv
  <2>3. step' = "abort" /\ slot # None => slot.op # "begin" /\ slot.job = job
    BY <2>1 DEF SlotInv
  <2>4. jobs # 0 BY <2>1 DEF SlotInv
  <2>5. QED BY <2>1, <2>2, <2>3, <2>4 DEF SlotInv, Proper, Answered
<1>4. CASE Deliver
  <2>1. /\ step # "idle" /\ reply' = None /\ UNCHANGED <<job, jobs, step, tid, got, outcome>>
        /\ slot' = [op |-> step, job |-> job, tid |-> tid, offset |-> Len(got)]
        /\ sent' = TRUE
    BY <1>4 DEF Deliver
  <2>2. Proper(job) /\ job.n = jobs /\ jobs # 0 BY <2>1 DEF SlotInv
  <2>3. slot'.op = step /\ slot'.job = job BY <2>1
  <2>4. jobs <= jobs BY <1>1
  <2>5. QED BY <2>1, <2>2, <2>3, <2>4 DEF SlotInv, Proper, Answered
<1>5. CASE NewBridge
  <2>1. /\ step' = "idle" /\ ~ sent' /\ outcome'.status = "none" /\ UNCHANGED <<job, jobs, slot>>
    BY <1>5 DEF NewBridge, Return, Issue
  <2>2. QED BY <2>1 DEF SlotInv, Proper, Answered
<1>6. CASE Execute BY <1>6, ExecuteDoes, SlotEmptied
<1>7. CASE Expire BY <1>7, SlotEmptied DEF Expire, bridgeVars
<1>8. CASE UNCHANGED <<job, jobs, step, sent, tid, got, outcome, slot, reply>>
  BY <1>8 DEF SlotInv, Proper, Answered
<1>9. CASE Handshake \/ Cleanup \/ UNCHANGED vars
  BY <1>8, <1>9 DEF Handshake, Cleanup, bridgeVars, vars
<1>10. ASSUME NEW p \in Places, LocalChange(p) PROVE SlotInv'
  BY <1>8, <1>10 DEF LocalChange, bridgeVars
<1>11. QED BY <1>2, <1>3, <1>4, <1>5, <1>6, <1>7, <1>9, <1>10 DEF Step

(* Every step keeps OwnerInv.                                              *)
LEMMA OwnerStep ==
  ASSUME TransferInv, Step
  PROVE  OwnerInv'
<1> USE DEF TransferInv
<1>1. jobs \in Nat BY TransferAssumption DEF BridgeType
<1>2. CASE transfer'.kind = "none" BY <1>2 DEF OwnerInv
<1>3. CASE Started
  BY <1>1, <1>3 DEF Started, OwnerInv, OpenFor, Answered
<1>4. CASE Went
  BY <1>4 DEF Went, OwnerInv, OpenFor, Answered
<1>5. CASE Deliver
  <2>1. /\ step # "idle" /\ reply' = None /\ UNCHANGED <<job, jobs, step, transfer>>
        /\ slot' = [op |-> step, job |-> job, tid |-> tid, offset |-> Len(got)]
    BY <1>5 DEF Deliver, agentVars
  <2>2. slot'.op = step /\ slot'.job = job BY <2>1
  <2>3. transfer.kind # "none" /\ step # "begin" => OpenFor(job)
    BY <2>1 DEF OwnerInv, BridgeType
  <2>4. QED BY <2>1, <2>2, <2>3 DEF OwnerInv, OpenFor, Answered
<1>6. CASE NewBridge
  BY <1>6 DEF NewBridge, Return, Issue, agentVars, OwnerInv, OpenFor, Answered
<1>7. CASE Execute
  <2>1. /\ slot # None /\ slot' = None /\ UNCHANGED <<job, jobs, step, sent>> /\ Done(slot)
        /\ Proper(slot.job)
    BY <1>7, ExecuteDoes
  <2>2. /\ sent => slot.op = step /\ slot.job = job
        /\ step \in {"block", "finish"} => sent
        /\ step = "abort" => slot.op # "begin"
        /\ slot.job.n <= jobs /\ (slot.job.n = jobs => slot.job = job)
    BY <2>1 DEF SlotInv
  <2>3. CASE Nothing
    <3>1. ~ reply'.ok BY <2>3 DEF Nothing, NotDone
    <3>2. transfer' = transfer \/ transfer'.kind = "none" BY <2>3 DEF Nothing
    <3>3. QED BY <1>2, <2>1, <3>1, <3>2 DEF OwnerInv, OpenFor
  <2>4. CASE Opening(slot)
    <3>1. /\ slot.op = "begin" /\ transfer'.job = slot.job.n
          /\ transfer'.kind = slot.job.kind /\ transfer'.path = slot.job.path
          /\ slot.job.kind = "write" => transfer'.declared = slot.job.data
      BY <2>4 DEF Opening
    <3>2. transfer'.job \in 1 .. jobs BY <1>1, <2>1, <2>2, <3>1 DEF Proper, Job
    <3>3. transfer'.job = jobs => OpenFor(job)' BY <2>1, <2>2, <3>1 DEF OpenFor
    <3>4. step \notin {"block", "finish", "abort"} BY <2>2, <3>1
    <3>5. step = "begin" /\ sent => transfer'.job = jobs
      BY <2>1, <2>2, <3>1 DEF SlotInv
    <3>6. QED BY <2>1, <3>2, <3>3, <3>4, <3>5 DEF OwnerInv, Answered
  <2>5. CASE slot.op = "block" /\ transfer'.kind = transfer.kind
             /\ transfer'.path = transfer.path /\ transfer'.declared = transfer.declared
             /\ transfer'.job = transfer.job
    BY <2>1, <2>2, <2>5 DEF OwnerInv, OpenFor, Answered
  <2>6. CASE Tearing(slot) BY <2>5, <2>6 DEF Tearing
  <2>7. ASSUME NEW b \in Blocks, Reading(slot, b) \/ Writing(slot, b) PROVE OwnerInv'
    BY <2>5, <2>7 DEF Reading, Writing, Growing
  <2>8. CASE Ending(slot) \/ Storing(slot) \/ Closing(slot)
    <3>1. transfer' = NoTransfer(transfer.id)
      BY <2>8 DEF Ending, Storing, Closing, CloseTransfer
    <3>2. QED BY <1>2, <3>1 DEF NoTransfer
  <2>9. QED BY <2>1, <2>3, <2>4, <2>6, <2>7, <2>8 DEF Done
<1>8. CASE Expire
  BY <1>8 DEF Expire, bridgeVars, agentVars, OwnerInv, OpenFor, Answered
<1>9. CASE Cleanup
  BY <1>2, <1>9 DEF Cleanup, CloseTransfer, NoTransfer
<1>10. CASE UNCHANGED <<job, jobs, step, sent, slot, reply, transfer>>
  BY <1>10 DEF OwnerInv, OpenFor, Answered
<1>11. CASE Handshake \/ UNCHANGED vars
  BY <1>10, <1>11 DEF Handshake, agentVars, vars
<1>12. ASSUME NEW p \in Places, LocalChange(p) PROVE OwnerInv'
  BY <1>10, <1>12 DEF LocalChange, bridgeVars
<1>13. QED BY <1>3, <1>4, <1>5, <1>6, <1>7, <1>8, <1>9, <1>11, <1>12 DEF Step

(* Every step keeps WholeInv.                                              *)
LEMMA WholeStep ==
  ASSUME TransferInv, Step
  PROVE  WholeInv'
<1> USE DEF TransferInv
<1>1. CASE transfer'.kind = "none"
  BY <1>1 DEF WholeInv
<1>2. ASSUME UNCHANGED <<transfer, temp>>,
             transfer.kind = "write" /\ Hopeless => Hopeless'
      PROVE  WholeInv'
  BY <1>2 DEF WholeInv
<1>3. CASE Started
  BY <1>2, <1>3 DEF Started, Hopeless, Answered
<1>4. CASE Went
  <2>1. NotDone.ok = FALSE BY DEF NotDone
  <2>2. Hopeless /\ Answered /\ reply.ok => step = "abort" BY <2>1 DEF Hopeless
  <2>3. UNCHANGED <<slot, transfer, temp>> /\ sent' = FALSE BY <1>4 DEF Went
  <2>4. Hopeless => step' \in {"idle", "abort"} BY <1>4, <2>2 DEF Went
  <2>5. Hopeless => Hopeless' BY <2>3, <2>4 DEF Hopeless, Answered
  <2>6. QED BY <1>2, <2>3, <2>5
<1>5. CASE Deliver
  <2>1. /\ step # "idle" /\ ~ sent /\ reply' = None /\ UNCHANGED <<step, transfer, temp>>
        /\ slot' = [op |-> step, job |-> job, tid |-> tid, offset |-> Len(got)]
    BY <1>5 DEF Deliver, agentVars
  <2>2. slot'.op = step BY <2>1
  <2>3. Hopeless => step \in {"begin", "abort"} BY <2>1 DEF Hopeless, BridgeType
  <2>4. Hopeless => Hopeless' BY <2>1, <2>2, <2>3 DEF Hopeless, Answered
  <2>5. QED BY <1>2, <2>1, <2>4
<1>6. CASE NewBridge
  BY <1>2, <1>6 DEF NewBridge, Return, Issue, agentVars, Hopeless, Answered
<1>7. CASE Execute
  <2>1. slot # None /\ slot' = None /\ UNCHANGED <<step, sent>> /\ Done(slot)
        /\ Proper(slot.job)
    BY <1>7, ExecuteDoes
  <2>2. step \in {"block", "finish"} => sent BY <2>1 DEF SlotInv
  <2>3. reply' = NotDone /\ transfer'.done # transfer'.declared => Hopeless'
    BY <2>1, <2>2 DEF Hopeless
  <2>4. CASE Nothing
    <3>1. reply' = NotDone /\ UNCHANGED temp BY <2>4 DEF Nothing
    <3>2. CASE UNCHANGED transfer BY <1>2, <2>3, <3>1, <3>2 DEF Hopeless
    <3>3. CASE transfer.kind = "none" /\ transfer'.kind = "none"
      BY <1>1, <3>1, <3>3 DEF WholeInv
    <3>4. QED BY <2>4, <3>2, <3>3 DEF Nothing
  <2>5. CASE Opening(slot)
    <3>1. /\ transfer.kind = "none" /\ transfer'.kind = slot.job.kind
          /\ transfer'.done = << >>
          /\ temp' = IF slot.job.kind = "write" THEN << >> ELSE temp
      BY <2>5 DEF Opening
    <3>2. << >> # Absent
      <4>1. << >> \in Seq(Blocks) OBVIOUS
      <4>2. QED BY <4>1, ContentTypes
    <3>4. CASE slot.job.kind = "write" BY <3>1, <3>2, <3>4 DEF WholeInv
    <3>5. CASE slot.job.kind # "write" BY <3>1, <3>5 DEF WholeInv
    <3>6. QED BY <3>4, <3>5
  <2>6. ASSUME NEW b \in Blocks, Reading(slot, b) PROVE WholeInv'
    BY <2>6 DEF Reading, Growing, WholeInv
  <2>7. transfer.kind = "write" => temp \in Seq(Blocks \cup {Torn})
    BY DEF WholeInv, AgentType
  <2>8. ASSUME NEW b \in Blocks, Writing(slot, b) PROVE WholeInv'
    <3>1. /\ transfer.kind = "write" /\ transfer'.kind = "write" /\ slot.op = "block"
          /\ temp' = Append(temp, b) /\ transfer'.done = Append(transfer.done, b)
      BY <2>8 DEF Writing, Growing
    <3>2. temp = transfer.done BY <2>1, <3>1 DEF WholeInv, Hopeless
    <3>3. Append(temp, b) \in Seq(Blocks \cup {Torn}) BY <2>7, <3>1
    <3>4. temp' # Absent BY <3>1, <3>3, ContentTypes
    <3>5. temp' = transfer'.done BY <3>1, <3>2
    <3>6. QED BY <3>1, <3>4, <3>5 DEF WholeInv
  <2>9. CASE Tearing(slot)
    <3>1. /\ transfer.kind = "write" /\ transfer' = transfer /\ reply' = NotDone
          /\ temp' \in {temp, Append(temp, Torn)}
          /\ Len(transfer.done) < Len(transfer.declared)
      BY <2>9 DEF Tearing
    <3>2. Append(temp, Torn) \in Seq(Blocks \cup {Torn}) BY <2>7, <3>1
    <3>3. temp' # Absent BY <2>7, <3>1, <3>2, ContentTypes
    <3>4. transfer.done \in Seq(Blocks) BY DEF AgentType, Transfers
    <3>5. transfer.done # transfer.declared
      <4>1. Len(transfer.done) \in Nat BY <3>4
      <4>2. QED BY <3>1, <4>1
    <3>6. Hopeless' BY <2>3, <3>1, <3>5
    <3>7. QED BY <3>1, <3>3, <3>6 DEF WholeInv
  <2>10. CASE Ending(slot)
    BY <1>1, <2>10 DEF Ending, NoTransfer, WholeInv
  <2>11. CASE Storing(slot) \/ Closing(slot)
    BY <1>1, <2>11 DEF Storing, Closing, CloseTransfer, NoTransfer
  <2>12. QED BY <2>1, <2>4, <2>5, <2>6, <2>8, <2>9, <2>10, <2>11 DEF Done
<1>8. CASE Expire
  BY <1>2, <1>8 DEF Expire, bridgeVars, agentVars, Hopeless, Answered
<1>9. CASE Cleanup
  BY <1>1, <1>9 DEF Cleanup, CloseTransfer, NoTransfer
<1>10. CASE UNCHANGED <<step, sent, slot, reply, transfer, temp>>
  BY <1>2, <1>10 DEF Hopeless, Answered
<1>11. CASE Handshake \/ UNCHANGED vars
  BY <1>10, <1>11 DEF Handshake, agentVars, vars
<1>12. ASSUME NEW p \in Places, LocalChange(p) PROVE WholeInv'
  BY <1>10, <1>12 DEF LocalChange, bridgeVars
<1>13. QED BY <1>3, <1>4, <1>5, <1>6, <1>7, <1>8, <1>9, <1>11, <1>12 DEF Step

----------------------------------------------------------------------------
(* What is left behind.                                                    *)

(* Closing leaves the temporary file only with a removal that failed.      *)
LEMMA ClosedLitter ==
  ASSUME LitterInv, CloseTransfer
  PROVE  LitterInv'
<1>1. transfer'.kind = "none" BY DEF CloseTransfer, NoTransfer
<1>2. CASE UNCHANGED litter /\ (temp' = Absent \/ (temp' = temp /\ transfer.kind # "write"))
  BY <1>1, <1>2 DEF LitterInv, litter
<1>3. CASE transfer.kind = "write" /\ others' = others /\ refused' = refused + 1
  BY <1>1, <1>3 DEF LitterInv
<1>4. QED BY <1>2, <1>3 DEF CloseTransfer

(* Every step keeps LitterInv.                                             *)
LEMMA LitterStep ==
  ASSUME TransferInv, Step
  PROVE  LitterInv'
<1> USE DEF TransferInv
<1>1. CASE UNCHANGED <<transfer, temp, litter>> BY <1>1 DEF LitterInv, litter
<1>2. CASE /\ UNCHANGED litter
           /\ temp' # Absent /\ transfer'.kind # "write" =>
                temp # Absent /\ transfer.kind # "write"
  BY <1>2 DEF LitterInv, litter
<1>3. CASE Execute
  <2>1. Done(slot) BY <1>3, ExecuteDoes
  <2>2. CASE Nothing BY <1>2, <2>2 DEF Nothing
  <2>3. CASE Opening(slot)
    <3>1. /\ transfer.kind = "none" /\ transfer'.kind = slot.job.kind /\ refused' = refused
          /\ others' = IF slot.job.kind = "write" /\ temp # Absent THEN others + 1 ELSE others
          /\ slot.job.kind # "write" => temp' = temp
      BY <2>3 DEF Opening
    <3>2. CASE slot.job.kind = "write" BY <3>1, <3>2 DEF LitterInv
    <3>3. CASE slot.job.kind # "write" BY <3>1, <3>3 DEF LitterInv
    <3>4. QED BY <3>2, <3>3
  <2>4. CASE Tearing(slot) BY <1>2, <2>4 DEF Tearing
  <2>5. ASSUME NEW b \in Blocks, Reading(slot, b) \/ Writing(slot, b) PROVE LitterInv'
    BY <1>2, <2>5 DEF Reading, Writing, Growing
  <2>6. CASE Ending(slot) BY <1>2, <2>6 DEF Ending, NoTransfer
  <2>7. CASE Storing(slot) BY <1>2, <2>7 DEF Storing
  <2>8. CASE Closing(slot) BY <2>8, ClosedLitter DEF Closing
  <2>9. QED BY <2>1, <2>2, <2>3, <2>4, <2>5, <2>6, <2>7, <2>8 DEF Done
<1>4. CASE Cleanup BY <1>4, ClosedLitter DEF Cleanup
<1>5. CASE Started \/ Went \/ Handshake \/ Deliver \/ NewBridge \/ Expire \/ UNCHANGED vars
  BY <1>1, <1>5 DEF Started, Went, Handshake, Deliver, NewBridge, Expire, agentVars, vars, litter
<1>6. ASSUME NEW p \in Places, LocalChange(p) PROVE LitterInv'
  BY <1>1, <1>6 DEF LocalChange
<1>7. QED BY <1>3, <1>4, <1>5, <1>6 DEF Step

(* An abort of the open transfer closes it.                                *)
LEMMA AbortCloses ==
  ASSUME Execute, slot.op = "abort", slot.tid = transfer.id
  PROVE  transfer'.kind = "none"
<1>1. AbortTransfer(slot)
  BY DEF Execute, Handle, BeginFileRead, BeginGraphics, BeginFileWrite, ReadTransferBlock,
     ReadGraphicsBlock, WriteTransferBlock, EndReadTransfer, CommitFileWrite
<1>2. QED BY <1>1 DEF AbortTransfer, CloseTransfer, NoTransfer, Refused, agentVars

(* Every step keeps FreeInv.                                               *)
LEMMA FreeStep ==
  ASSUME TransferInv, Step
  PROVE  FreeInv'
<1> USE DEF TransferInv
<1>1. CASE Started
  <2>1. step = "idle" /\ gaveUp' \in BOOLEAN /\ UNCHANGED <<slot, transfer>>
        /\ (~ gaveUp' => ~ gaveUp \/ (slot = None /\ transfer.kind = "none"))
    BY <1>1 DEF Started
  <2>2. ~ gaveUp' => slot' = None /\ transfer'.kind = "none"
    BY <2>1 DEF FreeInv, SlotInv
  <2>3. QED BY <2>1, <2>2 DEF FreeInv
<1>2. CASE Went
  <2>1. /\ ~ sent' /\ UNCHANGED <<slot, transfer>> /\ gaveUp' \in BOOLEAN
        /\ ~ gaveUp' => ~ gaveUp /\ Answered
    BY <1>2 DEF Went
  <2>2. Answered => slot = None BY DEF SlotInv
  <2>3. ASSUME ~ gaveUp', transfer.kind # "none"
        PROVE  step' \in {"block", "finish", "abort"} /\ tid' = transfer.id
    BY <1>2, <2>1, <2>3 DEF Went, FreeInv
  <2>4. QED BY <2>1, <2>2, <2>3 DEF FreeInv, Answered
<1>3. CASE Deliver
  <2>1. /\ step # "idle" /\ ~ sent /\ sent' = TRUE /\ reply' = None
        /\ UNCHANGED <<step, tid, transfer, gaveUp>>
    BY <1>3 DEF Deliver, agentVars
  <2>2. QED BY <2>1 DEF FreeInv, Answered
<1>4. CASE NewBridge BY <1>4 DEF NewBridge, FreeInv
<1>5. CASE Execute
  <2>1. /\ slot # None /\ slot' = None /\ UNCHANGED <<step, sent, tid, gaveUp>> /\ Done(slot)
    BY <1>5, ExecuteDoes
  <2>2. ~ gaveUp => sent /\ slot.op = step /\ slot.tid = tid
    BY <2>1 DEF FreeInv, SlotInv
  <2>3. ASSUME ~ gaveUp, transfer'.kind # "none"
        PROVE  /\ step # "idle"
               /\ step = "begin" => sent /\ slot' = None /\ reply'.ok
                                   /\ reply'.tid = transfer'.id
               /\ step # "begin" => tid = transfer'.id
               /\ step = "finish" => ~ reply'.ok
               /\ step # "abort"
    <3>1. ~ Ending(slot) /\ ~ Storing(slot) /\ ~ Closing(slot)
      BY <2>3 DEF Ending, Storing, Closing, CloseTransfer, NoTransfer
    <3>2. step # "idle" BY <2>2, <2>3 DEF SlotInv
    <3>3. step = "abort" => transfer.kind = "none"
      BY <1>5, <2>2, <2>3, AbortCloses DEF FreeInv
    <3>4. CASE Nothing
      <4>1. transfer' = transfer /\ transfer.kind # "none" /\ ~ reply'.ok
        BY <2>3, <3>4 DEF Nothing, NotDone
      <4>2. step # "begin" /\ tid = transfer.id BY <2>1, <2>3, <4>1 DEF FreeInv
      <4>3. QED BY <3>2, <3>3, <4>1, <4>2
    <3>5. CASE Opening(slot)
      <4>1. /\ slot.op = "begin" /\ reply'.ok /\ reply'.tid = transfer'.id
        BY <3>5 DEF Opening
      <4>2. QED BY <2>1, <2>2, <2>3, <4>1
    <3>6. CASE Tearing(slot) \/ \E b \in Blocks : Reading(slot, b) \/ Writing(slot, b)
      <4>1. /\ slot.op = "block" /\ transfer.kind # "none" /\ transfer'.id = transfer.id
        BY <3>6 DEF Tearing, Reading, Writing, Growing
      <4>2. QED BY <2>2, <2>3, <4>1 DEF FreeInv
    <3>7. QED BY <2>1, <3>1, <3>4, <3>5, <3>6 DEF Done
  <2>4. QED BY <2>1, <2>2, <2>3 DEF FreeInv, Answered
<1>6. CASE Expire BY <1>6 DEF Expire, bridgeVars, agentVars, FreeInv, Answered
<1>7. CASE Cleanup
  BY <1>7 DEF Cleanup, CloseTransfer, NoTransfer, bridgeVars, FreeInv
<1>8. CASE UNCHANGED <<step, sent, tid, slot, reply, transfer, gaveUp>>
  BY <1>8 DEF FreeInv, Answered
<1>9. CASE Handshake \/ UNCHANGED vars
  BY <1>8, <1>9 DEF Handshake, agentVars, vars
<1>10. ASSUME NEW p \in Places, LocalChange(p) PROVE FreeInv'
  BY <1>8, <1>10 DEF LocalChange, bridgeVars
<1>11. QED BY <1>1, <1>2, <1>3, <1>4, <1>5, <1>6, <1>7, <1>9, <1>10 DEF Step

----------------------------------------------------------------------------
(* Data.                                                                   *)

(* A beginning of full length is the whole.                                *)
LEMMA StartsAll ==
  ASSUME NEW T, NEW s \in Seq(T), NEW t \in Seq(T), Starts(s, t), Len(s) = Len(t)
  PROVE  s = t
BY DEF Starts

(* A beginning grows by the next element.                                  *)
LEMMA StartsNext ==
  ASSUME NEW T, NEW s \in Seq(T), NEW t \in Seq(T), Starts(s, t), Len(s) < Len(t)
  PROVE  Starts(Append(s, t[Len(s) + 1]), t)
BY DEF Starts

(* A local change of another file, or one that is noticed.                 *)
LEMMA LocalIsNoticed ==
  ASSUME TransferInv, NEW p \in Places, LocalChange(p), jobs # 0, ~ dirty'
  PROVE  ~ dirty /\ files'[job.path] = files[job.path]
<1>1. Proper(job) BY DEF TransferInv, SlotInv
<1>2. job # None /\ job.path \in Places BY <1>1, TransferAssumption DEF Proper, Job
<1>3. ~ dirty /\ job.path # p BY <1>2 DEF LocalChange
<1>4. files \in [Places -> Anything] BY DEF TransferInv, FilesType
<1>5. PICK c \in Written(p) : files' = [files EXCEPT ![p] = c] BY DEF LocalChange
<1>6. QED BY <1>2, <1>3, <1>4, <1>5

(* Every step keeps AnswerInv.                                             *)
LEMMA AnswerStep ==
  ASSUME TransferInv, Step
  PROVE  AnswerInv'
<1> USE DEF TransferInv
<1>1. CASE Started \/ Went \/ NewBridge
  BY <1>1 DEF Started, Went, NewBridge, Return, Issue, AnswerInv, Answered
<1>2. CASE Deliver BY <1>2 DEF Deliver, AnswerInv, Answered
<1>3. CASE UNCHANGED <<job, step, sent, reply, files, stored, dirty>>
  BY <1>3 DEF AnswerInv, Answered
<1>4. CASE Handshake \/ Expire \/ Cleanup \/ UNCHANGED vars
  BY <1>3, <1>4 DEF Handshake, Expire, Cleanup, bridgeVars, agentVars, vars
<1>5. ASSUME NEW p \in Places, LocalChange(p) PROVE AnswerInv'
  <2>1. UNCHANGED <<job, step, sent, reply, stored>> BY <1>5 DEF LocalChange, bridgeVars
  <2>2. Answered => jobs # 0 BY DEF SlotInv, Answered
  <2>3. Answered /\ ~ dirty' => ~ dirty /\ files'[job.path] = files[job.path]
    BY <1>5, <2>2, LocalIsNoticed
  <2>4. QED BY <2>1, <2>3 DEF AnswerInv, Answered
<1>6. CASE Execute
  <2> SUFFICES ASSUME sent, reply'.ok
               PROVE  /\ step = "begin" => reply'.tid \in TransferIds /\ reply'.size \in Nat
                      /\ step = "block" => reply'.done \in Seq(Blocks)
                      /\ step = "finish" /\ job.kind = "write" => job.n \in stored'
                      /\ step = "finish" /\ job.kind # "write" /\ ~ dirty =>
                           reply'.done = files'[job.path]
    BY <1>6, ExecuteDoes DEF AnswerInv, Answered
  <2>1. slot # None /\ Done(slot) BY <1>6, ExecuteDoes
  <2>2. slot.op = step /\ slot.job = job BY <2>1 DEF SlotInv
  <2>3. ~ Nothing /\ ~ Tearing(slot) BY DEF Nothing, Tearing, NotDone
  <2>4. CASE Opening(slot) BY <2>2, <2>4 DEF Opening
  <2>5. ASSUME NEW b \in Blocks, Reading(slot, b) \/ Writing(slot, b)
        PROVE  step = "block" /\ reply'.done \in Seq(Blocks)
    BY <2>2, <2>5 DEF Reading, Writing, Growing, Transfers
  <2>6. CASE Ending(slot)
    <3>1. /\ step = "finish" /\ job.kind # "write" /\ reply'.done = transfer.done
          /\ transfer.kind \in {"read", "graphics"} /\ files' = files
          /\ Len(transfer.done) = Len(transfer.declared)
      BY <2>2, <2>6 DEF Ending
    <3>2. transfer.job = jobs /\ OpenFor(job) BY <3>1 DEF OwnerInv
    <3>3. ~ dirty => transfer.declared = files[job.path] /\ Starts(transfer.done, transfer.declared)
      BY <3>1, <3>2 DEF DataInv, OpenFor
    <3>4. transfer.done \in Seq(Blocks) /\ transfer.declared \in Seq(Blocks)
      BY ContentTypes DEF AgentType, Transfers
    <3>5. ~ dirty => transfer.done = transfer.declared BY <3>1, <3>3, <3>4, StartsAll
    <3>6. QED BY <3>1, <3>3, <3>5
  <2>7. CASE Storing(slot)
    <3>1. transfer.job = slot.job.n BY <2>1, <2>7, StoresDeclared
    <3>2. QED BY <2>2, <2>7, <3>1 DEF Storing
  <2>8. CASE Closing(slot)
    <3>1. step = "abort" BY <2>2, <2>8 DEF Closing, NotDone
    <3>2. QED BY <3>1
  <2>9. QED BY <2>1, <2>3, <2>4, <2>5, <2>6, <2>7, <2>8 DEF Done
<1>7. QED BY <1>1, <1>2, <1>4, <1>5, <1>6 DEF Step

(* Every step keeps DataInv.                                               *)
LEMMA DataStep ==
  ASSUME TransferInv, Step
  PROVE  DataInv'
<1> USE DEF TransferInv
<1>1. jobs \in Nat BY TransferAssumption DEF BridgeType
<1>2. CASE Started
  <2>1. transfer'.kind # "none" => transfer'.job # jobs'
    BY <1>1, <1>2 DEF Started, OwnerInv
  <2>2. outcome'.status = "none" BY <1>2 DEF Started
  <2>3. QED BY <2>1, <2>2 DEF DataInv
<1>3. CASE Went
  <2>1. UNCHANGED <<job, jobs, slot, transfer, files, stored, dirty>> BY <1>3 DEF Went
  <2>2. outcome.status # "ok" BY <1>3 DEF Went, DataInv
  <2>3. outcome'.status = "ok" =>
          /\ Answered /\ reply.ok /\ step = "finish" /\ step' = "idle"
          /\ outcome'.data = reply.done
    BY <1>3, <2>2 DEF Went
  <2>4. outcome'.status = "ok" => slot = None BY <2>3 DEF SlotInv
  <2>5. QED BY <2>1, <2>3, <2>4 DEF DataInv, AnswerInv, Starts
<1>4. CASE Deliver
  <2>1. outcome.status # "ok" BY <1>4 DEF Deliver, DataInv
  <2>2. UNCHANGED <<jobs, outcome, transfer, files, dirty>> BY <1>4 DEF Deliver, agentVars
  <2>3. QED BY <2>1, <2>2 DEF DataInv, Starts
<1>5. CASE NewBridge
  BY <1>5 DEF NewBridge, Return, Issue, agentVars, DataInv, Starts
<1>6. CASE Execute
  <2>1. slot # None /\ Done(slot) /\ UNCHANGED <<outcome, jobs, dirty>> BY <1>6, ExecuteDoes
  <2>2. outcome'.status # "ok" BY <2>1 DEF DataInv
  <2>3. ASSUME transfer'.kind \in {"read", "graphics"}, transfer'.job = jobs, ~ dirty
        PROVE  transfer'.declared = files'[transfer'.path]
               /\ Starts(transfer'.done, transfer'.declared)
    <3>1. CASE Nothing
      <4>1. transfer' = transfer /\ files' = files BY <2>3, <3>1 DEF Nothing
      <4>2. QED BY <2>3, <4>1 DEF DataInv
    <3>2. CASE Opening(slot)
      <4>1. /\ transfer'.declared = files'[transfer'.path] /\ transfer'.done = << >>
            /\ transfer' \in Transfers
        BY <2>3, <3>2 DEF Opening
      <4>2. transfer'.declared \in Seq(Blocks) BY <4>1, ContentTypes DEF Transfers
      <4>3. Starts(<< >>, transfer'.declared) BY <4>2 DEF Starts
      <4>4. QED BY <4>1, <4>3
    <3>3. ASSUME NEW b \in Blocks, Reading(slot, b)
          PROVE  transfer'.declared = files'[transfer'.path]
                 /\ Starts(transfer'.done, transfer'.declared)
      <4>1. /\ transfer'.kind = transfer.kind /\ transfer'.path = transfer.path
            /\ transfer'.declared = transfer.declared /\ transfer'.job = transfer.job
            /\ transfer'.done = Append(transfer.done, b) /\ files' = files
            /\ Len(transfer.done) < Len(transfer.declared)
        BY <3>3 DEF Reading, Growing
      <4>2. transfer.declared = files[transfer.path] /\ Starts(transfer.done, transfer.declared)
        BY <2>3, <4>1 DEF DataInv
      <4>3. transfer.done \in Seq(Blocks) /\ transfer.declared \in Seq(Blocks)
        BY ContentTypes DEF AgentType, Transfers
      <4>4. files[transfer.path] # Absent BY <4>2, <4>3, ContentTypes
      <4>5. b = transfer.declared[Len(transfer.done) + 1]
        BY <3>3, <4>1, <4>2, <4>4 DEF Reading
      <4>6. Starts(Append(transfer.done, transfer.declared[Len(transfer.done) + 1]),
                   transfer.declared)
        BY <4>1, <4>2, <4>3, StartsNext
      <4>7. QED BY <4>1, <4>2, <4>5, <4>6
    <3>4. ~ Tearing(slot) /\ \A b \in Blocks : ~ Writing(slot, b)
      BY <2>3 DEF Tearing, Writing, Growing
    <3>5. ~ Ending(slot) /\ ~ Storing(slot) /\ ~ Closing(slot)
      BY <2>3 DEF Ending, Storing, Closing, CloseTransfer, NoTransfer
    <3>6. QED BY <2>1, <3>1, <3>2, <3>3, <3>4, <3>5 DEF Done
  <2>4. QED BY <2>1, <2>2, <2>3 DEF DataInv
<1>7. CASE Expire BY <1>7 DEF Expire, bridgeVars, agentVars, DataInv, Starts
<1>8. CASE Cleanup
  BY <1>8 DEF Cleanup, CloseTransfer, NoTransfer, bridgeVars, DataInv
<1>9. CASE Handshake \/ UNCHANGED vars
  BY <1>9 DEF Handshake, agentVars, vars, DataInv, Starts
<1>10. ASSUME NEW p \in Places, LocalChange(p) PROVE DataInv'
  <2>1. UNCHANGED <<job, jobs, step, slot, outcome, transfer, stored>>
    BY <1>10 DEF LocalChange, bridgeVars
  <2>2. jobs # 0 /\ ~ dirty' => ~ dirty /\ files'[job.path] = files[job.path]
    BY <1>10, LocalIsNoticed
  <2>3. transfer.kind \in {"read", "graphics"} /\ transfer.job = jobs =>
          jobs # 0 /\ transfer.path = job.path
    BY <1>1 DEF OwnerInv, OpenFor
  <2>4. outcome.status = "ok" => jobs # 0 BY DEF SlotInv
  <2>5. QED BY <2>1, <2>2, <2>3, <2>4 DEF DataInv, Starts
<1>11. QED BY <1>2, <1>3, <1>4, <1>5, <1>6, <1>7, <1>8, <1>9, <1>10 DEF Step

----------------------------------------------------------------------------
(* The invariant, and what follows from it.                                *)

(* The invariant holds at first.                                           *)
LEMMA TransferInit ==
  ASSUME Init
  PROVE  TransferInv
<1>1. /\ job = None /\ step = "idle" /\ sent = FALSE /\ tid = 0 /\ total = 0 /\ got = << >>
      /\ outcome = [status |-> "none", data |-> << >>] /\ hasKey = FALSE /\ bridges = 1
      /\ session = "none" /\ slot = None /\ transfer = NoTransfer(0) /\ temp = Absent
      /\ jobs = 0 /\ stored = {} /\ locals = 0 /\ dirty = FALSE
      /\ others = 0 /\ refused = 0 /\ gaveUp = FALSE
  BY DEF Init
<1>2. << >> \in Seq(Blocks) OBVIOUS
<1>3. BridgeType
  <2>1. outcome \in [status : {"none", "ok", "failed"}, data : Seq(Blocks)] BY <1>1, <1>2
  <2>2. bridges \in 0 .. MaxBridges + 1 /\ jobs \in 0 .. MaxJobs /\ locals \in 0 .. MaxLocal
    BY <1>1, TransferAssumption
  <2>3. QED BY <1>1, <1>2, <2>1, <2>2 DEF BridgeType
<1>4. << >> \in Declared /\ 0 \in 0 .. MaxJobs BY TransferAssumption DEF Declared
<1>5. transfer \in Transfers /\ transfer.kind = "none"
  BY <1>1, <1>2, <1>4 DEF NoTransfer, Transfers
<1>6. AgentType BY <1>1, <1>5 DEF AgentType
<1>7. FilesType BY DEF Init, FilesType, Anything
<1>8. SlotInv BY <1>1 DEF SlotInv, Answered
<1>9. OwnerInv /\ WholeInv /\ AnswerInv /\ DataInv /\ FreeInv
  BY <1>1, <1>5 DEF OwnerInv, WholeInv, AnswerInv, Answered, DataInv, FreeInv
<1>10. LitterInv BY <1>1 DEF LitterInv
<1>11. QED BY <1>3, <1>6, <1>7, <1>8, <1>9, <1>10 DEF TransferInv

(* TransferInv is inductive.                                               *)
LEMMA TransferInvariant == Spec => []TransferInv
<1>1. TransferInv /\ [Next]_vars => TransferInv'
  <2> SUFFICES ASSUME TransferInv, [Next]_vars PROVE TransferInv' OBVIOUS
  <2>1. jobs \in Nat BY TransferAssumption DEF TransferInv, BridgeType
  <2>2. Step BY <2>1, StepsAre DEF TransferInv, FreeInv
  <2>3. QED
    BY <2>2, BridgeTypeStep, AgentTypeStep, FilesTypeStep, SlotStep, OwnerStep, WholeStep,
       AnswerStep, DataStep, LitterStep, FreeStep DEF TransferInv
<1>2. QED BY <1>1, TransferInit, PTL DEF Spec

(* Type correctness: no torn block leaves the temporary file.              *)
THEOREM TypesHold == Spec => []TypeOK
<1>1. TransferInv => TypeOK
  <2> SUFFICES ASSUME TransferInv PROVE TypeOK OBVIOUS
  <2>1. BridgeType /\ AgentType /\ SlotInv BY DEF TransferInv
  <2>2. job \in Job \cup {None} BY <2>1 DEF SlotInv, Proper
  <2>3. slot \in Request \cup {None} BY <2>1 DEF AgentType
  <2>4. \A p \in Places : files[p] \in Written(p) BY DEF TransferInv, FilesType
  <2>5. QED
    BY <2>1, <2>2, <2>3, <2>4
    DEF TransferInv, LitterInv, FreeInv, TypeOK, BridgeType, AgentType, Request, Transfers,
        Declared
<1>2. QED BY <1>1, TransferInvariant, PTL

(* A receipt of upload_file is for a file that was renamed to its          *)
(* destination, whatever was lost, given up or left behind before.         *)
THEOREM ReceiptsAreTrue == Spec => []ReceiptIsStored
<1>1. TransferInv => ReceiptIsStored BY DEF TransferInv, DataInv, ReceiptIsStored
<1>2. QED BY <1>1, TransferInvariant, PTL

(* What download_file or capture_graphics returns is the file or the screen*)
(* as it was all the time, if no local program changed it meanwhile.       *)
THEOREM DownloadsAreFiles == Spec => []DownloadIsFile
<1>1. TransferInv => DownloadIsFile BY DEF TransferInv, DataInv, DownloadIsFile
<1>2. QED BY <1>1, TransferInvariant, PTL

(* Each temporary file that no open upload writes is one whose remove()    *)
(* failed (close_transfer), and a call that returned with all its requests *)
(* answered has left no transfer open (abort_transfer, end_read_transfer,  *)
(* commit_file_write).                                                     *)
THEOREM TemporaryHasOwner == Spec => []NoOrphan
<1>1. TransferInv => NoOrphan
  BY DEF TransferInv, WholeInv, LitterInv, FreeInv, NoOrphan
<1>2. QED BY <1>1, TransferInvariant, PTL

(* The agent's steps on the files, for both theorems below.                *)
LEMMA AgentStores ==
  ASSUME TransferInv, Step, NEW p \in Paths, files'[p] # files[p]
  PROVE  \/ LocalChange(p)
         \/ /\ transfer.path = p /\ (files[p] # Absent => transfer.overwrite)
            /\ files'[p] # Absent => files'[p] = transfer.declared
<1>1. files \in [Places -> Anything] /\ p \in Places
  BY DEF TransferInv, FilesType, Places
<1>2. ASSUME NEW q \in Places, LocalChange(q) PROVE LocalChange(p)
  <2>1. PICK c \in Written(q) : files' = [files EXCEPT ![q] = c] BY <1>2 DEF LocalChange
  <2>2. q = p BY <1>1, <2>1
  <2>3. QED BY <1>2, <2>2
<1>3. CASE Execute
  <2>1. slot # None /\ Done(slot) BY <1>3, ExecuteDoes DEF TransferInv
  <2>2. CASE Storing(slot)
    <3>1. temp = transfer.declared BY <2>1, <2>2, StoresDeclared DEF TransferInv
    <3>2. files' = [files EXCEPT ![transfer.path] = temp]
          /\ (files[transfer.path] # Absent => transfer.overwrite)
      BY <2>2 DEF Storing
    <3>3. transfer.path = p BY <1>1, <3>2
    <3>4. files'[p] = temp BY <1>1, <3>2, <3>3
    <3>5. QED BY <3>1, <3>2, <3>3, <3>4
  <2>3. CASE Closing(slot)
    <3>1. files' = [files EXCEPT ![transfer.path] = Absent]
          /\ (files[transfer.path] # Absent => transfer.overwrite)
      BY <2>3 DEF Closing
    <3>2. transfer.path = p BY <1>1, <3>1
    <3>3. files'[p] = Absent BY <1>1, <3>1, <3>2
    <3>4. QED BY <3>1, <3>2, <3>3
  <2>4. QED
    BY <2>1, <2>2, <2>3 DEF Done, Nothing, Opening, Tearing, Ending, Reading, Writing, Growing
<1>4. ~ (Started \/ Went \/ Handshake \/ Deliver \/ NewBridge \/ Expire \/ Cleanup
         \/ UNCHANGED vars)
  BY DEF Started, Went, Handshake, Deliver, NewBridge, Expire, Cleanup, agentVars, vars
<1>5. QED BY <1>2, <1>3, <1>4 DEF Step

(* Whatever DOS does to the writes and whenever the bridge gives up, what  *)
(* the agent puts at a destination is the declared data, whole.            *)
THEOREM UploadsAreWhole == Spec => UploadIsWhole
<1>1. TransferInv /\ [Next]_vars =>
        [\A p \in Paths : files'[p] \notin {files[p], Absent} =>
           LocalChange(p) \/ (transfer.path = p /\ files'[p] = transfer.declared)]_vars
  <2> SUFFICES ASSUME TransferInv, [Next]_vars, NEW p \in Paths,
                      files'[p] \notin {files[p], Absent}
               PROVE  LocalChange(p) \/ (transfer.path = p /\ files'[p] = transfer.declared)
    OBVIOUS
  <2>1. jobs \in Nat BY TransferAssumption DEF TransferInv, BridgeType
  <2>2. Step BY <2>1, StepsAre DEF TransferInv, FreeInv
  <2>3. QED BY <2>2, AgentStores
<1>2. QED BY <1>1, TransferInvariant, PTL DEF Spec, UploadIsWhole

(* An existing file is replaced or removed by the agent only for an upload *)
(* with overwrite, also one that appeared after the begin.                 *)
THEOREM NothingIsClobbered == Spec => NoClobber
<1>1. TransferInv /\ [Next]_vars =>
        [\A p \in Paths : files[p] # Absent /\ files'[p] # files[p] =>
           LocalChange(p) \/ (transfer.path = p /\ transfer.overwrite)]_vars
  <2> SUFFICES ASSUME TransferInv, [Next]_vars, NEW p \in Paths,
                      files[p] # Absent, files'[p] # files[p]
               PROVE  LocalChange(p) \/ (transfer.path = p /\ transfer.overwrite)
    OBVIOUS
  <2>1. jobs \in Nat BY TransferAssumption DEF TransferInv, BridgeType
  <2>2. Step BY <2>1, StepsAre DEF TransferInv, FreeInv
  <2>3. QED BY <2>2, AgentStores
<1>2. QED BY <1>1, TransferInvariant, PTL DEF Spec, NoClobber
============================================================================
