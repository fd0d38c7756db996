--------------------------- MODULE ResidentAgent ---------------------------
(***************************************************************************)
(* The resident agent RA-TSR as DOS sees it: interrupt hooks that share one*)
(* worker and one private stack (dos/agent/ratsr_hooks.asm), the receive   *)
(* upcall of the packet driver with its single buffer (dmpacket_rx.asm),   *)
(* the worker that polls it (ratsr_idle_worker in ragent.c), the transfer  *)
(* the worker may hold open, and the transient loader that installs and    *)
(* unloads it.  What a request means is in AgentSession and FileTransfer;  *)
(* here a datagram is an opcode and the session it authenticates under.    *)
(*                                                                         *)
(* Interrupts nest wherever the code enables them.  The frames on the CPU  *)
(* stack that belong to the agent's handlers are a sequence; the program   *)
(* DOS runs is below the first one.  A worker may be interrupted at every  *)
(* step, also where the interrupt controller of a PC would hold a timer    *)
(* tick back until the BIOS acknowledges the one before.                   *)
(***************************************************************************)
EXTENDS Integers, Sequences, SequencesExt

CONSTANTS
  Opcodes,      \* the requests that reach the machine, a subset of Opcode
  CrossEnds,    \* whether clients may end a file read with GRAPHICS_END
  IdleTicks,    \* SESSION_IDLE_TICKS
  TickModulus,  \* the range of ratsr_ticks: 2^16 in the code
  MaxSessions,  \* bound on the HELLOs that are answered
  MaxFrags,     \* bound on the datagrams of one response
  MaxNest       \* bound on nested handlers

\* "plain" stands for every request without a transfer, "noise" for frames
\* dm_net_poll discards: ARP, foreign addresses, broken headers.
Opcode ==
  {"noise", "hello", "plain", "readBegin", "readBlock", "readEnd", "writeBegin",
   "writeBlock", "commit", "abort", "graphicsBegin", "graphicsBlock", "graphicsEnd"}

ASSUME ResidentAssumption ==
  /\ Opcodes \subseteq Opcode
  /\ CrossEnds \in BOOLEAN
  /\ IdleTicks \in Nat \ {0}
  /\ TickModulus \in Nat /\ IdleTicks < TickModulus
  /\ MaxSessions \in Nat
  /\ MaxFrags \in Nat \ {0}
  /\ MaxNest \in Nat \ {0}

VARIABLES
  \* interrupt hooks
  stack,        \* handlers in progress, innermost last
  active,       \* idle_active
  saved,        \* saved_ss:saved_sp: how many frames were below the worker
  entries,      \* _ratsr_int1c_entries, modulo 2
  before,       \* int08_int1c_before
  \* packet driver
  ready,        \* dm_receive_ready
  buffer,       \* dm_receive_buffer
  handles,      \* whether the packet driver still delivers to the agent
  \* worker
  enabled,      \* ratsr_enabled
  ticks,        \* ratsr_ticks
  session,      \* session.active, .id, .last_activity_tick
  toSend,       \* fragments left of a session.response_pending
  helloPending, \* session.hello_pending
  transfer,     \* transfer_kind, and the session it was begun in
  \* DOS and the loader
  critical,     \* the critical-error flag
  vectors,      \* the interrupt vectors the agent has set
  above,        \* whether another TSR has hooked a vector above it
  loader,       \* progress of installation and of RA-TSR /U
  \* history
  unsafeDos     \* DOS was called outside INT 28h or during a critical error

hookVars   == <<stack, active, saved, entries, before>>
driverVars == <<ready, buffer, handles>>
workVars   == <<enabled, ticks, session, toSend, helloPending, transfer, unsafeDos>>
dosVars    == <<critical, vectors, above, loader>>
vars == <<stack, active, saved, entries, before, ready, buffer, handles, enabled, ticks,
          session, toSend, helloPending, transfer, unsafeDos, critical, vectors,
          above, loader>>

\* A request authenticates under session sess; 0 is a datagram that does not.
Datagram == [op : Opcodes, sess : 0 .. MaxSessions]
NoFrame  == [op |-> "none", sess |-> 0]

\* The opcodes the worker defers: DM_OP_FILE_READ_BEGIN .. DM_OP_FILE_ABORT.
FileOpcode ==
  {"readBegin", "readBlock", "readEnd", "writeBegin", "writeBlock", "commit", "abort"}

Init ==
  /\ stack = << >>
  /\ active = FALSE
  /\ saved = 0
  /\ entries = 0
  /\ before = 0
  /\ ready = FALSE
  /\ buffer = NoFrame
  /\ handles = TRUE
  /\ enabled = TRUE
  /\ ticks = 0
  /\ session = [active |-> FALSE, id |-> 0, last |-> 0]
  /\ toSend = 0
  /\ helloPending = FALSE
  /\ transfer = [kind |-> "none"]
  /\ critical = FALSE
  /\ vectors = {}
  /\ above = FALSE
  /\ loader = "installing"
  /\ unsafeDos = FALSE

----------------------------------------------------------------------------
(* Interrupt entry and exit.                                               *)

Top == stack[Len(stack)]

\* The worker runs with interrupts enabled; so does the program below, and a
\* packet driver may while it copies.
InWorker(frame) == frame.pc \in {"run", "poll", "handle", "release", "leave"}
InterruptsOn == IF stack = << >> THEN TRUE ELSE InWorker(Top) \/ Top.pc = "copy"
At(pc) == IF stack = << >> THEN FALSE ELSE Top.pc = pc
RoomToNest == Len(stack) < MaxNest

Frame(ctx, pc) == [ctx |-> ctx, pc |-> pc, held |-> NoFrame]

\* The innermost handler goes on at pc.
Goto(pc) == stack' = [stack EXCEPT ![Len(stack)].pc = pc]

\* Mutant: the handler does not look at idle_active.
EnterWorkerUnguarded(below, ctx) ==
  /\ active' = TRUE
  /\ saved' = Len(below)
  /\ stack' = Append(below, Frame(ctx, "run"))

\* The guard, the saved SS:SP and the switch to the private stack, with
\* interrupts off; a worker already at work turns the entry into a chain.
EnterWorker(below, ctx) ==
  IF active
  THEN /\ stack' = below
       /\ UNCHANGED <<active, saved>>
  ELSE /\ active' = TRUE
       /\ saved' = Len(below)
       /\ stack' = Append(below, Frame(ctx, "run"))

\* ratsr_timer_handler: note the INT 1Ch count, then call the old INT 08h.
Int08 ==
  /\ InterruptsOn /\ RoomToNest
  /\ "08" \in vectors
  /\ before' = entries
  /\ stack' = Append(stack, Frame("int08", "chain"))
  /\ UNCHANGED <<active, saved, entries, driverVars, workVars, dosVars>>

\* The old INT 08h invokes INT 1Ch, whose first owner is the agent or a TSR that
\* chains to it.
Int1cFromInt08 ==
  /\ At("chain")
  /\ "1c" \in vectors
  /\ entries' = (entries + 1) % 2
  /\ EnterWorker([stack EXCEPT ![Len(stack)].pc = "check"], "int1c")
  /\ UNCHANGED <<before, driverVars, workVars, dosVars>>

\* A program has replaced INT 1Ch and does not chain.
Int1cBypassed ==
  /\ At("chain")
  /\ Goto("check")
  /\ UNCHANGED <<active, saved, entries, before, driverVars, workVars, dosVars>>

\* Back in ratsr_timer_handler: the fallback worker, unless INT 1Ch was entered.
Int08Return ==
  /\ At("check")
  /\ IF entries # before
     THEN /\ stack' = Front(stack)
          /\ UNCHANGED <<active, saved>>
     ELSE EnterWorker(Front(stack), "int08")
  /\ UNCHANGED <<entries, before, driverVars, workVars, dosVars>>

\* Before INT 08h is hooked and after it is restored, the BIOS alone calls
\* ratsr_idle_handler.
Int1c ==
  /\ InterruptsOn /\ RoomToNest
  /\ "1c" \in vectors /\ "08" \notin vectors
  /\ entries' = (entries + 1) % 2
  /\ EnterWorker(stack, "int1c")
  /\ UNCHANGED <<before, driverVars, workVars, dosVars>>

\* ratsr_dos_idle_handler, from DOS waiting for input below a program or below a
\* TSR that popped up.
Int28 ==
  /\ InterruptsOn /\ RoomToNest
  /\ "28" \in vectors
  /\ EnterWorker(stack, "int28")
  /\ UNCHANGED <<entries, before, driverVars, workVars, dosVars>>

\* Interrupts off, SS:SP restored, idle_active cleared, return or chain.
LeaveWorker ==
  /\ At("leave")
  /\ stack' = SubSeq(stack, 1, saved)
  /\ active' = FALSE
  /\ UNCHANGED <<saved, entries, before, driverVars, workVars, dosVars>>

----------------------------------------------------------------------------
(* The packet driver's upcalls.                                            *)

Copying == \E i \in DOMAIN stack : stack[i].pc = "copy"

\* Mutant: the buffer is handed out although a frame is waiting in it.
RxAllocateAlways(d) ==
  /\ InterruptsOn /\ RoomToNest /\ handles /\ ~ Copying
  /\ buffer' = NoFrame
  /\ stack' = Append(stack, [ctx |-> "rx", pc |-> "copy", held |-> d])
  /\ UNCHANGED <<active, saved, entries, before, ready, handles, workVars, dosVars>>

\* AX=0: the fixed buffer, if the last frame was released; the driver copies
\* over what is in it.
RxAllocate(d) ==
  /\ InterruptsOn /\ RoomToNest /\ handles /\ ~ Copying
  /\ ~ ready
  /\ buffer' = NoFrame
  /\ stack' = Append(stack, [ctx |-> "rx", pc |-> "copy", held |-> d])
  /\ UNCHANGED <<active, saved, entries, before, ready, handles, workVars, dosVars>>

\* AX=1: the frame is complete.
RxComplete ==
  /\ At("copy")
  /\ buffer' = Top.held
  /\ ready' = TRUE
  /\ stack' = Front(stack)
  /\ UNCHANGED <<active, saved, entries, before, handles, workVars, dosVars>>

----------------------------------------------------------------------------
(* ratsr_idle_worker.                                                      *)

DosIdle == Top.ctx = "int28"
MayUseDos == DosIdle /\ ~ critical

HoldsFile == transfer.kind \in {"read", "write"}
NoTransfer == [kind |-> "none"]

\* The 16-bit idle comparison.
Expired(now) == session.active /\ (now - session.last) % TickModulus >= IdleTicks

\* Mutant: the transfer of an expired session is kept.
WorkerRunKeeping ==
  LET now   == IF DosIdle THEN ticks ELSE (ticks + 1) % TickModulus
      alive == session.active /\ ~ Expired(now)
  IN
  /\ At("run")
  /\ ticks' = IF enabled THEN now ELSE ticks
  /\ session' = IF enabled THEN [session EXCEPT !.active = alive] ELSE session
  /\ toSend' = 0
  /\ helloPending' = FALSE
  /\ Goto(IF enabled THEN "poll" ELSE "leave")
  /\ UNCHANGED <<enabled, transfer, unsafeDos>>
  /\ UNCHANGED <<active, saved, entries, before, driverVars, dosVars>>

\* Mutant: the tick counter is wider than the comparison.
WorkerRunWide ==
  /\ At("run")
  /\ ticks' = ticks + 1
  /\ Goto("poll")
  /\ UNCHANGED <<enabled, session, toSend, helloPending, transfer, unsafeDos>>
  /\ UNCHANGED <<active, saved, entries, before, driverVars, dosVars>>

\* Up to the poll: a tick, idle expiry, cleanup of an abandoned transfer,
\* discovery (only traffic), and at most one datagram sent.
WorkerRun ==
  LET now     == IF DosIdle THEN ticks ELSE (ticks + 1) % TickModulus
      alive   == session.active /\ ~ Expired(now)
      cleanup == ~ alive /\ transfer.kind # "none" /\ MayUseDos
  IN
  /\ At("run")
  /\ IF ~ enabled
     THEN Goto("leave") /\ UNCHANGED workVars
     ELSE /\ ticks' = now
          /\ session' = [session EXCEPT !.active = alive]
          /\ transfer' = IF cleanup THEN NoTransfer ELSE transfer
          /\ toSend' = IF Expired(now) \/ toSend = 0 THEN 0 ELSE toSend - 1
          /\ helloPending' = (helloPending /\ toSend > 0 /\ ~ Expired(now))
          /\ Goto(IF helloPending \/ (toSend > 0 /\ ~ Expired(now)) THEN "leave" ELSE "poll")
          /\ UNCHANGED <<enabled, unsafeDos>>
  /\ UNCHANGED <<active, saved, entries, before, driverVars, dosVars>>

\* dm_packet_decode under the key for this opcode.
Authentic(d) == IF d.op = "hello" THEN d.sess = 0 ELSE session.active /\ d.sess = session.id

\* Mutant: the critical-error flag is not looked at.
DeferredUnlessIdle(d) ==
  /\ d.op \in FileOpcode
  /\ ~ (d.op = "abort" /\ transfer.kind = "graphics")
  /\ ~ DosIdle

\* dos_operation: must this datagram wait for DOS to be idle?
Deferred(d) ==
  /\ d.op \in FileOpcode
  /\ ~ (d.op = "abort" /\ transfer.kind = "graphics")
  /\ ~ MayUseDos

\* Mutant: what must wait is left in the buffer without a look at its MAC.
WorkerPollTrusting ==
  /\ At("poll")
  /\ IF ~ ready \/ Deferred(buffer)
     THEN Goto("leave")
     ELSE IF buffer.op = "noise"
     THEN Goto("release")
     ELSE stack' = [stack EXCEPT ![Len(stack)].pc = "handle", ![Len(stack)].held = buffer]
  /\ UNCHANGED <<active, saved, entries, before, driverVars, workVars, dosVars>>

\* dm_net_poll and the deferral: nothing there, a frame to discard, a request to
\* leave in the buffer, or one to process.
WorkerPoll ==
  /\ At("poll")
  /\ IF ~ ready
     THEN Goto("leave")
     ELSE IF buffer.op = "noise" \/ (Deferred(buffer) /\ ~ Authentic(buffer))
     THEN Goto("release")
     ELSE IF Deferred(buffer)
     THEN Goto("leave")
     ELSE stack' = [stack EXCEPT ![Len(stack)].pc = "handle", ![Len(stack)].held = buffer]
  /\ UNCHANGED <<active, saved, entries, before, driverVars, workVars, dosVars>>

\* What a request does to the transfer when it is carried out and its transfer
\* id and offset are right.
Carried(d) ==
  LET kind == transfer.kind
      Opened(k) == IF kind = "none" THEN [kind |-> k] ELSE transfer
      Closed(kinds) == IF kind \in kinds THEN NoTransfer ELSE transfer
  IN  CASE d.op = "readBegin"     -> Opened("read")
        [] d.op = "writeBegin"    -> Opened("write")
        [] d.op = "graphicsBegin" -> Opened("graphics")
        [] d.op = "readEnd"       -> Closed({"read", "graphics"})
        [] d.op = "graphicsEnd"   -> Closed({"read", "graphics"})
        [] d.op = "commit"        -> Closed({"write"})
        [] d.op = "abort"         -> Closed({"read", "write", "graphics"})
        [] OTHER                  -> transfer

\* Whether carrying it out opens, reads, writes, closes or renames a DOS file.
CallsDos(d) ==
  \/ d.op \in {"readBegin", "writeBegin"} /\ transfer.kind = "none"
  \/ d.op = "readBlock" /\ transfer.kind = "read"
  \/ d.op \in {"writeBlock", "commit"} /\ transfer.kind = "write"
  \/ d.op \in {"readEnd", "graphicsEnd"} /\ transfer.kind = "read"
  \/ d.op = "abort" /\ HoldsFile

\* The bridge ends a transfer with the opcode of its kind.
Sensible(d) == d.op = "graphicsEnd" /\ ~ CrossEnds => transfer.kind # "read"

\* process_datagram on the buffer: dropped; or a HELLO, which makes a new session
\* and leaves the transfer alone; or a request of the session that is stored,
\* refused or answered from the cache; or one that is carried out, with success
\* or not.
WorkerHandle ==
  LET d == buffer IN
  /\ At("handle")
  /\ Goto("release")
  /\ \/ UNCHANGED workVars
     \/ /\ Authentic(d) /\ d.op = "hello" /\ session.id < MaxSessions
        /\ session' = [active |-> TRUE, id |-> session.id + 1, last |-> ticks]
        /\ helloPending' = TRUE
        /\ UNCHANGED <<enabled, ticks, toSend, transfer, unsafeDos>>
     \/ /\ Authentic(d) /\ d.op # "hello"
        /\ session' = [session EXCEPT !.last = ticks]
        /\ \/ toSend' \in 0 .. MaxFrags /\ UNCHANGED <<transfer, unsafeDos>>
           \/ /\ Sensible(d)
              /\ toSend' \in 1 .. MaxFrags
              /\ transfer' \in {transfer, Carried(d)}
              /\ unsafeDos' = (unsafeDos \/ (CallsDos(d) /\ ~ MayUseDos))
        /\ UNCHANGED <<enabled, ticks, helloPending>>
  /\ UNCHANGED <<active, saved, entries, before, driverVars, dosVars>>

\* dm_net_release; what stays in the buffer is not read again.
WorkerRelease ==
  /\ At("release")
  /\ ready' = FALSE
  /\ buffer' = NoFrame
  /\ stack' = [stack EXCEPT ![Len(stack)].pc = "leave", ![Len(stack)].held = NoFrame]
  /\ UNCHANGED <<active, saved, entries, before, handles, workVars, dosVars>>

----------------------------------------------------------------------------
(* The program below: DOS, other TSRs, and the loader.                     *)

\* The program below runs when no handler and no upcall is in progress.
Foreground == stack = << >>

CriticalError ==
  /\ Foreground
  /\ critical' = ~ critical
  /\ UNCHANGED <<hookVars, driverVars, workVars, vectors, above, loader>>

\* main of the resident core: the vectors in the order it sets them.
InstallOrder == <<"1c", "08", "28", "2f">>
SetVector ==
  /\ Foreground
  /\ loader = "installing"
  /\ \E n \in 1 .. 4 :
       /\ vectors = {InstallOrder[k] : k \in 1 .. n - 1}
       /\ vectors' = vectors \cup {InstallOrder[n]}
       /\ loader' = IF n = 4 THEN "resident" ELSE loader
  /\ UNCHANGED <<hookVars, driverVars, workVars, critical, above>>

\* Another TSR is loaded on top, or removed again.
OtherTsr ==
  /\ Foreground
  /\ loader \in {"resident", "refused"}
  /\ above' = ~ above
  /\ UNCHANGED <<hookVars, driverVars, workVars, critical, vectors, loader>>

\* uninstall_tsr: the four vectors must still be the agent's own.
UnloadCheck ==
  /\ Foreground
  /\ loader \in {"resident", "refused", "stuck"}
  /\ loader' = IF above THEN "refused" ELSE "checked"
  /\ UNCHANGED <<hookVars, driverVars, workVars, critical, vectors, above>>

\* Mutant: multiplex_unload does not look at transfer_kind.
UnloadPrepareAnyway ==
  /\ Foreground
  /\ loader = "checked"
  /\ enabled' = FALSE
  /\ loader' = "prepared"
  /\ UNCHANGED <<hookVars, driverVars, ticks, session, toSend, helloPending, transfer,
                 unsafeDos, critical, vectors, above>>

\* INT 2Fh, BX=1: refused while a transfer is open, else the worker is disabled.
UnloadPrepare ==
  /\ Foreground
  /\ loader = "checked"
  /\ IF transfer.kind # "none"
     THEN loader' = "refused" /\ UNCHANGED enabled
     ELSE loader' = "prepared" /\ enabled' = FALSE
  /\ UNCHANGED <<hookVars, driverVars, ticks, session, toSend, helloPending, transfer,
                 unsafeDos, critical, vectors, above>>

\* dm_packet_release_handles; the driver may refuse, which ends the unload.
UnloadHandles ==
  /\ Foreground
  /\ loader = "prepared"
  /\ \/ handles' = FALSE /\ loader' = "released"
     \/ UNCHANGED handles /\ loader' = "stuck"
  /\ UNCHANGED <<hookVars, ready, buffer, workVars, critical, vectors, above>>

RestoreOrder == <<"08", "1c", "28", "2f">>
UnloadVector ==
  /\ Foreground
  /\ loader = "released"
  /\ \E n \in 1 .. 4 :
       /\ vectors = {RestoreOrder[k] : k \in n .. 4}
       /\ vectors' = vectors \ {RestoreOrder[n]}
       /\ loader' = IF n = 4 THEN "restored" ELSE loader
  /\ UNCHANGED <<hookVars, driverVars, workVars, critical, above>>

\* _dos_freemem, which may fail: the memory stays allocated, and unused.
UnloadFree ==
  /\ Foreground
  /\ loader = "restored"
  /\ loader' \in {"freed", "leaked"}
  /\ UNCHANGED <<hookVars, driverVars, workVars, critical, vectors, above>>

----------------------------------------------------------------------------
Handler ==
  \/ Int1cFromInt08 \/ Int1cBypassed \/ Int08Return
  \/ WorkerRun \/ WorkerPoll \/ WorkerHandle \/ WorkerRelease \/ LeaveWorker \/ RxComplete

Unloader == UnloadCheck \/ UnloadPrepare \/ UnloadHandles \/ UnloadVector \/ UnloadFree

Next ==
  \/ Int08 \/ Int1c \/ Int28
  \/ Handler
  \/ \E d \in Datagram : RxAllocate(d)
  \/ CriticalError
  \/ SetVector
  \/ OtherTsr
  \/ Unloader

Spec == Init /\ [][Next]_vars

(* Handlers run to their end, the loader goes on, and the timer ticks also *)
(* while no handler runs: the interrupt controller latches a tick, and the *)
(* worker takes far less time than one.                                    *)
TimerFairness ==
  /\ SF_vars(Int08 /\ stack = << >>)
  /\ WF_vars(Handler)
  /\ SF_vars(SetVector)

(* In addition DOS gets idle again and again, as it does at the prompt, and *)
(* critical errors are answered.                                           *)
IdleFairness ==
  /\ SF_vars(Int28 /\ stack = << >> /\ ~ critical)
  /\ SF_vars(CriticalError /\ critical)

TimerSpec == Spec /\ TimerFairness

----------------------------------------------------------------------------
(* Properties.                                                             *)

\* Type correctness: the frames of the handlers stay within the nesting bound, and
\* ticks and counters within their width.
TypeOK ==
  /\ \A i \in DOMAIN stack :
       stack[i] \in [ctx : {"int08", "int1c", "int28", "rx"},
                     pc : {"chain", "check", "run", "poll", "handle", "release", "leave",
                           "copy"},
                     held : Datagram \cup {NoFrame}]
  /\ Len(stack) <= MaxNest + 1
  /\ active \in BOOLEAN
  /\ saved \in 0 .. MaxNest
  /\ entries \in {0, 1} /\ before \in {0, 1}
  /\ ready \in BOOLEAN
  /\ buffer \in Datagram \cup {NoFrame}
  /\ handles \in BOOLEAN
  /\ enabled \in BOOLEAN
  /\ ticks \in 0 .. TickModulus - 1
  /\ session \in [active : BOOLEAN, id : 0 .. MaxSessions, last : 0 .. TickModulus - 1]
  /\ toSend \in 0 .. MaxFrags
  /\ helloPending \in BOOLEAN
  /\ transfer \in [kind : {"none", "read", "write", "graphics"}]
  /\ critical \in BOOLEAN
  /\ vectors \subseteq {"08", "1c", "28", "2f"}
  /\ above \in BOOLEAN
  /\ loader \in {"installing", "resident", "refused", "checked", "prepared", "released",
                 "restored", "stuck", "freed", "leaked"}
  /\ unsafeDos \in BOOLEAN

\* However interrupts nest, only one handler is on the private stack, and the one
\* saved SS:SP pair is its own: the exit returns to the code it interrupted.
OwnStackRestored ==
  \A i \in DOMAIN stack : InWorker(stack[i]) => active /\ saved = i - 1

\* The frame a worker works on stays in the receive buffer until the worker
\* releases it, although packets keep arriving while interrupts are enabled.
BufferIntact ==
  \A i \in DOMAIN stack :
    stack[i].pc = "handle" => ready /\ buffer = stack[i].held /\ buffer # NoFrame

\* docs/dos-reentrancy.md: "Only this entry may dispatch file opcodes or clean up
\* a DOS file handle" -- the INT 28h entry, with the critical-error flag clear.
DosOnlyWhenIdle == ~ unsafeDos

\* When the resident memory is freed nothing can enter it again: no vector, no
\* packet handle, no handler in progress; and no DOS file is left open.
UnloadIsClean ==
  loader = "freed" =>
    /\ vectors = {} /\ ~ handles /\ stack = << >> /\ ~ active
    /\ transfer.kind = "none"

\* The single receive slot never stays occupied: even if DOS is never idle, a
\* request that waits for it is dropped when its session expires.
SlotIsFreed == ready /\ enabled ~> ~ ready \/ ~ enabled

\* docs/security-model.md: "Incomplete transfers are aborted during DOS-idle
\* session cleanup."  When a session has expired and DOS gets idle, its transfer
\* is closed, unless a new session begins.
ExpiredIsClosed ==
  IdleFairness =>
    (transfer.kind # "none" /\ ~ session.active
       ~> transfer.kind = "none" \/ session.active)
============================================================================
