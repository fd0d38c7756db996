--------------------------- MODULE FileTransfer ---------------------------
(***************************************************************************)
(* File uploads and downloads and graphics captures: the calls UdpBackend  *)
(* makes for one of them (src/dos_mcp/backends/udp.py), the one transfer   *)
(* the resident agent may have open (dos/agent/ragent.c) and the files of  *)
(* the DOS machine, which its local user changes at the same time.  Display*)
(* memory is a file that is only read, Absent in a text mode.              *)
(*                                                                         *)
(* Requests travel as AtMostOnceCall allows, which AgentSession implements *)
(* over an ordered network: each is carried out at most once, in order, and*)
(* a caller that gave up does not know whether its request was lost, was   *)
(* carried out, or still waits in the agent's receive slot for DOS to be   *)
(* idle.                                                                   *)
(*                                                                         *)
(* A file is a sequence of blocks.  A size and CRC-32 stand for the blocks *)
(* they were computed over: checksums do not collide.                      *)
(***************************************************************************)
EXTENDS Integers, Sequences

CONSTANTS
  Paths,        \* paths that pass the agent's path policy
  Blocks,
  Contents,     \* what callers upload and local programs write
  Large,        \* what local programs write that a bridge does not take
  Screen,       \* the path of display memory
  Frames,       \* contents of display memory
  MaxSize,      \* MAX_FILE_SIZE and MAX_GRAPHICS_SIZE, in blocks
  TransferIds,  \* values of next_transfer_id
  Torn,         \* a block of which DOS wrote only a part
  Absent,       \* the content of a path that does not exist
  None,
  MaxJobs,      \* bound on the uploads and downloads
  MaxBridges,   \* bound on the bridge processes
  MaxLocal,     \* bound on the changes by local programs
  MaxRefused    \* bound on the removals that fail

Places == Paths \cup {Screen}

\* A call of upload_file, download_file or capture_graphics, the nth of them.
Job ==
  [kind : {"read", "write", "graphics"}, path : Places, data : Contents \cup {<< >>},
   overwrite : BOOLEAN, n : 1 .. MaxJobs]

ASSUME TransferAssumption ==
  /\ Contents \cup Large \cup Frames \subseteq Seq(Blocks)
  /\ \A c \in Contents : Len(c) <= MaxSize
  /\ Screen \notin Paths
  /\ Torn \notin Blocks
  /\ Absent \notin Seq(Blocks \cup {Torn})
  /\ 0 \notin TransferIds
  /\ None \notin Job
  /\ MaxJobs \in Nat /\ MaxBridges \in Nat /\ MaxLocal \in Nat /\ MaxRefused \in Nat

VARIABLES
  \* the bridge
  job,       \* the arguments of upload_file or download_file
  step,      \* the request in progress: "begin", "block", "finish", "abort"
  sent,      \* whether it has reached the agent's receive slot
  tid,       \* begin.transfer_id
  total,     \* begin.total_size
  got,       \* blocks acknowledged or downloaded, and their rolling CRC
  outcome,   \* what the latest call returned
  hasKey,    \* whether the backend has a session key
  bridges,
  \* the agent
  session,   \* whose session is active: "bridge", an "old" bridge's, "none"
  slot,      \* the request in the receive buffer
  reply,
  transfer,  \* the transfer_ variables
  temp,      \* the content of transfer_temp, which stays there if remove() fails
  \* the DOS machine
  files,
  others,    \* temporary files that transfer_temp does not name any more
  \* history
  jobs,      \* calls made so far
  stored,    \* uploads that were renamed to their destination
  refused,   \* removals of temporary files that failed
  gaveUp,    \* a call gave up, and what it left may not be gone
  locals,    \* changes by local programs
  dirty      \* the file of the current job was changed by one

bridgeVars == <<job, step, sent, tid, total, got, outcome, hasKey, bridges, jobs, gaveUp>>
litter     == <<others, refused>>
agentVars  == <<transfer, temp, litter, files, stored>>
vars == <<job, step, sent, tid, total, got, outcome, hasKey, bridges, session, slot,
          reply, transfer, temp, files, others, jobs, stored, refused, gaveUp, locals, dirty>>

NoTransfer(id) ==
  [kind |-> "none", id |-> id, path |-> None, declared |-> << >>, done |-> << >>,
   overwrite |-> FALSE, job |-> 0]

\* What a program of the DOS machine may leave at a place.
Written(p) == {Absent} \cup (IF p = Screen THEN Frames ELSE Contents \cup Large)

Init ==
  /\ job = None
  /\ step = "idle"
  /\ sent = FALSE
  /\ tid = 0
  /\ total = 0
  /\ got = << >>
  /\ outcome = [status |-> "none", data |-> << >>]
  /\ hasKey = FALSE
  /\ bridges = 1
  /\ session = "none"
  /\ slot = None
  /\ reply = None
  /\ transfer = NoTransfer(0)
  /\ temp = Absent
  /\ files \in [Places -> UNION {Written(p) : p \in Places}]
  /\ \A p \in Places : files[p] \in Written(p)
  /\ jobs = 0
  /\ stored = {}
  /\ others = 0 /\ refused = 0
  /\ gaveUp = FALSE
  /\ locals = 0
  /\ dirty = FALSE

----------------------------------------------------------------------------
(* The bridge.                                                             *)

Issue(next) == step' = next /\ sent' = FALSE /\ reply' = None

Return(status, data) ==
  /\ Issue("idle")
  /\ outcome' = [status |-> status, data |-> data]

Begin(j) ==
  /\ step = "idle"
  /\ jobs < MaxJobs
  /\ jobs' = jobs + 1
  /\ job' = j
  /\ tid' = 0 /\ total' = 0 /\ got' = << >>
  /\ dirty' = FALSE
  /\ gaveUp' = (gaveUp /\ (slot # None \/ transfer.kind # "none"))
  /\ outcome' = [status |-> "none", data |-> << >>]
  /\ Issue("begin")
  /\ UNCHANGED <<hasKey, bridges, session, slot, agentVars, locals>>

StartUpload(p, d, o) ==
  Begin([kind |-> "write", path |-> p, data |-> d, overwrite |-> o, n |-> jobs + 1])

StartDownload(p) ==
  Begin([kind |-> "read", path |-> p, data |-> << >>, overwrite |-> FALSE, n |-> jobs + 1])

\* capture_graphics
StartCapture ==
  Begin([kind |-> "graphics", path |-> Screen, data |-> << >>, overwrite |-> FALSE,
         n |-> jobs + 1])

\* The first request of a bridge is preceded by the handshake; a bridge that has
\* a key does not look whether the agent still knows it.
Handshake ==
  /\ step = "begin"
  /\ ~ hasKey
  /\ slot = None
  /\ hasKey' = TRUE
  /\ session' = "bridge"
  /\ UNCHANGED <<job, step, sent, tid, total, got, outcome, bridges, jobs, gaveUp, slot,
                 reply, agentVars, locals, dirty>>

\* One of the copies sent by the retry loop finds the receive slot free.  Answers
\* to earlier requests do not match it.
Deliver ==
  /\ step # "idle" /\ ~ sent
  /\ hasKey /\ session = "bridge"
  /\ slot = None
  /\ sent' = TRUE
  /\ reply' = None
  /\ slot' = [op |-> step, job |-> job, tid |-> tid, offset |-> Len(got)]
  /\ UNCHANGED <<job, step, tid, total, got, outcome, hasKey, bridges, jobs, gaveUp,
                 session, agentVars, locals, dirty>>

\* The request after len blocks of size went through.
AfterBlocks(len, size) == IF len < size THEN "block" ELSE "finish"

\* Mutant: a failed block is sent once more.
FailRetrying ==
  \/ step = "begin" /\ Return("failed", << >>)
  \/ step = "block" /\ Issue("block") /\ UNCHANGED outcome
  \/ step = "finish" /\ Issue("abort") /\ UNCHANGED outcome
  \/ step = "abort" /\ Return("failed", << >>)

\* A request that raised: once the transfer is open it is aborted, and the
\* outcome of the abort does not matter.
Fail ==
  \/ step \in {"begin", "abort"} /\ Return("failed", << >>)
  \/ step \in {"block", "finish"} /\ Issue("abort") /\ UNCHANGED outcome

\* The response passes the checks of upload_file or _download_blocks.
Acknowledged ==
  /\ reply.ok
  /\ reply.tid = tid
  /\ reply.offset = Len(got)
  /\ reply.done = IF job.kind = "write" THEN SubSeq(job.data, 1, Len(got) + 1)
                  ELSE Append(got, reply.block)

Receive ==
  /\ sent /\ reply # None
  /\ \/ /\ step = "begin" /\ reply.ok
        /\ tid' = reply.tid
        /\ total' = reply.size
        /\ Issue(IF job.kind # "write" /\ reply.size > MaxSize THEN "abort"
                 ELSE AfterBlocks(0, IF job.kind = "write" THEN Len(job.data) ELSE reply.size))
        /\ UNCHANGED <<got, outcome>>
     \/ /\ step = "block" /\ Acknowledged
        /\ got' = reply.done
        /\ Issue(AfterBlocks(Len(got'), IF job.kind = "write" THEN Len(job.data) ELSE total))
        /\ UNCHANGED <<tid, total, outcome>>
     \/ /\ step = "finish" /\ reply.ok
        /\ Return(IF reply.done = got THEN "ok" ELSE "failed", got)
        /\ UNCHANGED <<tid, total, got>>
     \/ /\ step = "abort" \/ ~ (reply.ok /\ (step = "block" => Acknowledged))
        /\ Fail
        /\ UNCHANGED <<tid, total, got>>
  /\ UNCHANGED <<job, hasKey, bridges, jobs, gaveUp, session, slot, agentVars, locals, dirty>>

\* Every attempt timed out.
Timeout ==
  /\ step # "idle"
  /\ Fail
  /\ gaveUp' = TRUE
  /\ UNCHANGED <<job, tid, total, got, hasKey, bridges, jobs, session, slot, agentVars,
                 locals, dirty>>

\* The bridge process is killed, or its backend is closed, and started again.
NewBridge ==
  /\ bridges < MaxBridges
  /\ bridges' = bridges + 1
  /\ hasKey' = FALSE
  /\ session' = IF session = "bridge" THEN "old" ELSE session
  /\ Return("none", << >>)
  /\ gaveUp' = TRUE
  /\ UNCHANGED <<job, tid, total, got, jobs, slot, agentVars, locals, dirty>>

----------------------------------------------------------------------------
(* The agent.                                                              *)

NotDone == [ok |-> FALSE]
Refused == UNCHANGED agentVars /\ reply' = NotDone

\* Mutant: the temporary file is left behind.
CloseTransferOnly ==
  /\ transfer' = NoTransfer(transfer.id)
  /\ UNCHANGED <<temp, litter>>

\* close_transfer(1); whether remove() succeeds is not looked at.
CloseTransfer ==
  /\ transfer' = NoTransfer(transfer.id)
  /\ \/ transfer.kind = "write" /\ temp' = Absent /\ UNCHANGED litter
     \/ /\ transfer.kind = "write" /\ UNCHANGED <<temp, others>>
        /\ refused < MaxRefused /\ refused' = refused + 1
     \/ transfer.kind # "write" /\ UNCHANGED <<temp, litter>>

\* begin_file_read; opening the file may fail.
BeginFileRead(r) ==
  /\ r.op = "begin" /\ r.job.kind = "read"
  /\ \/ Refused
     \/ /\ transfer.kind = "none"
        /\ files[r.job.path] # Absent
        /\ \E id \in TransferIds :
             /\ transfer' = [kind |-> "read", id |-> id, path |-> r.job.path,
                             declared |-> files[r.job.path], done |-> << >>,
                             overwrite |-> FALSE, job |-> r.job.n]
             /\ reply' = [ok |-> TRUE, tid |-> id, size |-> Len(files[r.job.path])]
        /\ UNCHANGED <<temp, litter, files, stored>>

\* begin_graphics, in a graphics mode.
BeginGraphics(r) ==
  /\ r.op = "begin" /\ r.job.kind = "graphics"
  /\ IF transfer.kind = "none" /\ files[Screen] # Absent
     THEN /\ \E id \in TransferIds :
               /\ transfer' = [kind |-> "graphics", id |-> id, path |-> Screen,
                               declared |-> files[Screen], done |-> << >>,
                               overwrite |-> FALSE, job |-> r.job.n]
               /\ reply' = [ok |-> TRUE, tid |-> id, size |-> Len(files[Screen])]
          /\ UNCHANGED <<temp, litter, files, stored>>
     ELSE Refused

\* begin_file_write: the destination is checked unless it may be replaced, an id
\* is drawn, and the temporary file is created, which may fail.
BeginFileWrite(r) ==
  /\ r.op = "begin" /\ r.job.kind = "write"
  /\ \/ Refused
     \/ /\ transfer.kind = "none"
        /\ r.job.overwrite \/ files[r.job.path] = Absent
        /\ \E id \in TransferIds :
             \/ /\ transfer' = [transfer EXCEPT !.id = id]
                /\ reply' = NotDone
                /\ UNCHANGED <<temp, others>>
             \/ /\ transfer' = [kind |-> "write", id |-> id, path |-> r.job.path,
                                declared |-> r.job.data, done |-> << >>,
                                overwrite |-> r.job.overwrite, job |-> r.job.n]
                /\ temp' = << >>
                /\ others' = IF temp = Absent THEN others ELSE others + 1
                /\ reply' = [ok |-> TRUE, tid |-> id, size |-> Len(r.job.data)]
        /\ UNCHANGED <<files, stored, refused>>

\* The request is for the open transfer and goes on where it stands.
Continues(r, kind) ==
  /\ transfer.kind = kind
  /\ r.tid = transfer.id
  /\ r.offset = Len(transfer.done)
  /\ r.offset < Len(transfer.declared)

BlockReply(r, done, block) ==
  reply' = [ok |-> TRUE, tid |-> transfer.id, offset |-> r.offset, done |-> done, block |-> block]

\* Mutant: every block is read from the start of the file.
ReadTransferBlockFromStart(r) ==
  /\ r.op = "block" /\ r.job.kind = "read"
  /\ \/ Refused
     \/ /\ Continues(r, "read")
        /\ files[transfer.path] \notin {Absent, << >>}
        /\ LET block == files[transfer.path][1]
               done  == Append(transfer.done, block)
           IN  /\ transfer' = [transfer EXCEPT !.done = done]
               /\ BlockReply(r, done, block)
        /\ UNCHANGED <<temp, litter, files, stored>>

\* read_transfer_block reads on in the file as it is now.
ReadTransferBlock(r) ==
  /\ r.op = "block" /\ r.job.kind = "read"
  /\ \/ Refused
     \/ /\ Continues(r, "read")
        /\ files[transfer.path] # Absent
        /\ r.offset < Len(files[transfer.path])
        /\ LET block == files[transfer.path][r.offset + 1]
               done  == Append(transfer.done, block)
           IN  /\ transfer' = [transfer EXCEPT !.done = done]
               /\ BlockReply(r, done, block)
        /\ UNCHANGED <<temp, litter, files, stored>>

\* read_graphics_block reads display memory as it is now; what is there in
\* another mode is anything.
ReadGraphicsBlock(r) ==
  /\ r.op = "block" /\ r.job.kind = "graphics"
  /\ \/ Refused /\ ~ Continues(r, "graphics")
     \/ /\ Continues(r, "graphics")
        /\ \E block \in IF files[Screen] # Absent /\ r.offset < Len(files[Screen])
                       THEN {files[Screen][r.offset + 1]} ELSE Blocks :
             LET done == Append(transfer.done, block) IN
             /\ transfer' = [transfer EXCEPT !.done = done]
             /\ BlockReply(r, done, block)
        /\ UNCHANGED <<temp, litter, files, stored>>

\* write_transfer_block: when DOS fails or writes only a part, the file has grown
\* and the offset and CRC have not.
WriteTransferBlock(r) ==
  /\ r.op = "block" /\ r.job.kind = "write"
  /\ \/ Refused /\ ~ Continues(r, "write")
     \/ /\ Continues(r, "write")
        /\ LET block == r.job.data[r.offset + 1]
               done  == Append(transfer.done, block)
           IN  \/ /\ temp' \in {temp, Append(temp, Torn)}
                  /\ reply' = NotDone
                  /\ UNCHANGED transfer
               \/ /\ temp' = Append(temp, block)
                  /\ transfer' = [transfer EXCEPT !.done = done]
                  /\ BlockReply(r, done, None)
        /\ UNCHANGED <<litter, files, stored>>

FinalReply == reply' = [ok |-> TRUE, done |-> transfer.done]

\* end_read_transfer, of FILE_READ_END and of GRAPHICS_END.
EndReadTransfer(r) ==
  /\ r.op = "finish" /\ r.job.kind \in {"read", "graphics"}
  /\ IF /\ transfer.kind \in {"read", "graphics"} /\ r.tid = transfer.id
        /\ Len(transfer.done) = Len(transfer.declared)
     THEN /\ transfer' = NoTransfer(transfer.id)
          /\ FinalReply
          /\ UNCHANGED <<temp, litter, files, stored>>
     ELSE Refused

\* The checks of commit_file_write on the transfer, before DOS is called.
Verified(r) ==
  /\ transfer.kind = "write"
  /\ r.tid = transfer.id
  /\ transfer.done = transfer.declared

\* Mutant: a destination that has appeared since the begin is replaced.
CommitFileWriteAnyway(r) ==
  /\ r.op = "finish" /\ r.job.kind = "write"
  /\ IF Verified(r)
     THEN /\ files' = [files EXCEPT ![transfer.path] = temp]
          /\ stored' = stored \cup {transfer.job}
          /\ transfer' = NoTransfer(transfer.id)
          /\ temp' = Absent
          /\ FinalReply
          /\ UNCHANGED litter
     ELSE Refused

\* Mutant: a write that could not be renamed is reported as done.
CommitFileWriteClaiming(r) ==
  /\ r.op = "finish" /\ r.job.kind = "write"
  /\ FinalReply
  /\ CloseTransfer
  /\ UNCHANGED <<files, stored>>

\* commit_file_write: an existing destination is removed if it may be, then the
\* temporary file is renamed; each failure closes the transfer.
CommitFileWrite(r) ==
  LET exists == files[transfer.path] # Absent IN
  /\ r.op = "finish" /\ r.job.kind = "write"
  /\ \/ ~ Verified(r) /\ Refused
     \/ /\ Verified(r) /\ exists
        /\ CloseTransfer
        /\ reply' = NotDone
        /\ UNCHANGED <<files, stored>>
     \/ /\ Verified(r) /\ (exists => transfer.overwrite)
        /\ files' = [files EXCEPT ![transfer.path] = temp]
        /\ stored' = stored \cup {transfer.job}
        /\ transfer' = NoTransfer(transfer.id)
        /\ temp' = Absent
        /\ FinalReply
        /\ UNCHANGED litter
     \/ /\ Verified(r) /\ (exists => transfer.overwrite)
        /\ files' = [files EXCEPT ![transfer.path] = Absent]
        /\ CloseTransfer
        /\ reply' = NotDone
        /\ UNCHANGED stored

\* abort_transfer
AbortTransfer(r) ==
  /\ r.op = "abort"
  /\ IF transfer.kind # "none" /\ r.tid = transfer.id
     THEN /\ CloseTransfer
          /\ reply' = [ok |-> TRUE]
          /\ UNCHANGED <<files, stored>>
     ELSE Refused

Handle(r) ==
  \/ BeginFileRead(r) \/ ReadTransferBlock(r) \/ EndReadTransfer(r)
  \/ BeginGraphics(r) \/ ReadGraphicsBlock(r)
  \/ BeginFileWrite(r) \/ WriteTransferBlock(r) \/ CommitFileWrite(r)
  \/ AbortTransfer(r)

\* DOS is idle: the request in the slot is carried out, also one whose caller
\* has given up; nobody reads the answer then.
Execute ==
  /\ slot # None
  /\ Handle(slot)
  /\ slot' = None
  /\ UNCHANGED <<bridgeVars, session, locals, dirty>>

\* The session expires; a request of it that waits in the slot is dropped.
Expire ==
  /\ session # "none"
  /\ session' = "none"
  /\ slot' = None
  /\ UNCHANGED <<bridgeVars, reply, agentVars, locals, dirty>>

\* ratsr_idle_worker without a session.
Cleanup ==
  /\ session = "none"
  /\ transfer.kind # "none"
  /\ CloseTransfer
  /\ UNCHANGED <<bridgeVars, session, slot, reply, files, stored, locals, dirty>>

----------------------------------------------------------------------------
\* A local program creates, replaces or deletes a file, draws, or sets a mode.
LocalChange(p) ==
  /\ locals < MaxLocal
  /\ locals' = locals + 1
  /\ \E c \in Written(p) \ {files[p]} : files' = [files EXCEPT ![p] = c]
  /\ dirty' = (dirty \/ (IF job = None THEN FALSE ELSE job.path = p))
  /\ UNCHANGED <<bridgeVars, session, slot, reply, transfer, temp, litter, stored>>

----------------------------------------------------------------------------
Next ==
  \/ \E p \in Paths, d \in Contents, o \in BOOLEAN : StartUpload(p, d, o)
  \/ \E p \in Paths : StartDownload(p)
  \/ StartCapture
  \/ Handshake \/ Deliver \/ Receive \/ Timeout \/ NewBridge
  \/ Execute \/ Expire \/ Cleanup
  \/ \E p \in Places : LocalChange(p)

Spec == Init /\ [][Next]_vars

----------------------------------------------------------------------------
(* Properties.                                                             *)

\* Type correctness: destinations only ever hold contents someone meant to write,
\* and a torn block stays in the temporary file.
TypeOK ==
  /\ job \in Job \cup {None}
  /\ step \in {"idle", "begin", "block", "finish", "abort"}
  /\ sent \in BOOLEAN
  /\ tid \in TransferIds \cup {0}
  /\ total \in Nat
  /\ got \in Seq(Blocks)
  /\ outcome \in [status : {"none", "ok", "failed"}, data : Seq(Blocks)]
  /\ hasKey \in BOOLEAN
  /\ bridges \in 0 .. MaxBridges + 1
  /\ session \in {"bridge", "old", "none"}
  /\ slot \in [op : {"begin", "block", "finish", "abort"}, job : Job,
               tid : TransferIds \cup {0}, offset : Nat] \cup {None}
  /\ transfer \in [kind : {"none", "read", "write", "graphics"}, id : TransferIds \cup {0},
                   path : Places \cup {None},
                   declared : Contents \cup Large \cup Frames \cup {<< >>},
                   done : Seq(Blocks), overwrite : BOOLEAN, job : 0 .. MaxJobs]
  /\ temp \in Seq(Blocks \cup {Torn}) \cup {Absent}
  /\ \A p \in Places : files[p] \in Written(p)
  /\ jobs \in 0 .. MaxJobs
  /\ stored \subseteq 1 .. MaxJobs
  /\ others \in Nat /\ refused \in Nat /\ gaveUp \in BOOLEAN
  /\ locals \in 0 .. MaxLocal
  /\ dirty \in BOOLEAN

\* docs/security-model.md, "Partial upload": whatever DOS does to the writes of
\* the temporary file and whenever the bridge gives up, what the agent puts at a
\* destination is the declared data of an upload, complete and untorn.
UploadIsWhole ==
  [][\A p \in Paths : files'[p] \notin {files[p], Absent} =>
       LocalChange(p) \/ (transfer.path = p /\ files'[p] = transfer.declared)]_vars

\* docs/tsr.md: "An existing destination is replaced only when [...] the MCP call
\* sets overwrite=true", also a destination a local program made after the begin.
NoClobber ==
  [][\A p \in Paths : files[p] # Absent /\ files'[p] # files[p] =>
       LocalChange(p) \/ (transfer.path = p /\ transfer.overwrite)]_vars

\* An upload that returned a receipt has been renamed to its destination; it is
\* not the receipt of another upload and the abort did not come first.
ReceiptIsStored ==
  outcome.status = "ok" /\ job.kind = "write" => job.n \in stored

\* A download that returned is the file, and a capture the screen, unless a local
\* program changed it.
DownloadIsFile ==
  outcome.status = "ok" /\ job.kind # "write" /\ ~ dirty => outcome.data = files[job.path]

\* Nothing is left behind on the machine.  A temporary file that no open upload
\* writes is there only because remove() failed, once for each such file, and
\* when a call has returned whose requests were all answered, the agent's only
\* transfer is free, also if the file turned out to be too large.
NoOrphan ==
  /\ others + (IF temp # Absent /\ transfer.kind # "write" THEN 1 ELSE 0) <= refused
  /\ transfer.kind = "write" => temp # Absent
  /\ step = "idle" /\ ~ gaveUp => transfer.kind = "none"
============================================================================
