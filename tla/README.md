# DOS MCP in TLA+

A model of DOS MCP: the Python bridge that serves MCP tools (`src/src/dos_mcp`) and the
endpoint on the DOS machine (`src/dos/agent`), `RAGENT.EXE` in the foreground and `RA-TSR.EXE`
resident. Paths below are relative to `src/`. `PROJECT.json` maps every definition to the lines
it models and lists runs, mutants, findings, hazards and theorems.

## Inventory

| Component | State | Operations | What is hard |
|---|---|---|---|
| Session, bridge side: `src/dos_mcp/backends/udp.py`, `protocol/packet.py` | request id, session id and key, fragments collected so far | `_request`, `_handshake`, `_exchange_with_packet`, reassembly | loss, retransmission, late answers, ids that wrap, sessions the agent no longer has |
| Session, agent side: `process_hello`, `process_datagram`, `process_request`, `send_response`, `resend_cached` in `dos/agent/ragent.c` | `session`, reassembly buffer and mask, one cached response, `last_request_id` | one datagram at a time | duplicates must not repeat a mutation; replays; fragments of abandoned requests; idle expiry |
| Resident worker and hooks: `ratsr_hooks.asm`, `ratsr_idle_worker` | `idle_active`, saved SS:SP, tick counter, session, paced response | INT 08h, 1Ch, 28h | interrupts nest over one private stack; DOS is not reentrant |
| Packet receive path: `dmpacket_rx.asm`, `dmpacket.c`, `dmnet.c` | one buffer and its ready flag | receive upcalls, poll, release | a frame arrives while another is read |
| Installation and unloading: end of `main`, `ratsr_loader.c` | four vectors, packet handles, resident memory | install, `/U` | other TSRs, open transfers, half-restored vectors |
| File transfer: `begin_file_read` ... `abort_transfer` in `ragent.c`, `upload_file`, `download_file` in `udp.py` | one open transfer, temporary file, CRC and offset | begin, block, end, commit, abort, cleanup | lost answers, requests carried out after their caller gave up, partial writes, failing renames, local programs |
| Target registry and discovery: `runtime.py`, `discovery.py` | records, backends, listener | `get`, `list_targets`, `close`, announcements | machines that move, name clashes, configuration that fails half-way |
| Graphics capture: `ragent.c`, `udp.py` | shares the transfer slot | begin, block, end | video memory changes while it is read |
| Keyboard insertion: `ragent.c`, `ratsr_hooks.asm` | BIOS ring of 16 words | insert until full | the ring is shared with the keyboard interrupt |
| Simulator agent: `agent_server.py`, `simulator.py` | session, four cached responses, four partial requests, one transfer | `handle_datagram`, `_handle_hello`, `_dispatch` and the transfer handlers | bounded caches under late and repeated datagrams; a commit the backend refuses |
| Linux backend: `backends/linux.py` | PTY, shell process, closed flag, temporary file | status, capture, keys, files, close | a full PTY, a chatty or dead shell, local programs on the same files, failing steps |
| Terminal: `terminal.py` | grid, cursor, pen, parser state, generation | `feed` | sequences split over reads, odd parameters, edges of the grid |
| MCP tools: `server.py`, `models.py` | `operation_lock` | one call at a time | a call that does not return blocks all others |
| Codecs: `protocol/messages.py`, `protocol/packet.py`, `dmproto.c` | none | encode, decode, fragment, reassemble | limits of every field, pad bytes, strictness |
| Cryptography, configuration parsing: `protocol/crypto.py`, `crc.py`, `dmconfig.c` | none | pure functions | data |

The tools of `server.py` run one call at a time under `operation_lock`. A call asks the registry
for the backend of its target and makes one or more requests of the session; a file transfer is a
sequence of such requests. On the machine the packet driver puts a datagram into the one receive
buffer, a hook enters the worker, and the worker runs the agent side of the session, which changes
the transfer and the files. A component is correct when:

- the session carries a request out at most once, answers a call only with the result of that
  call, and returns;
- the worker never runs twice, never loses the stack it interrupted, never calls DOS at a wrong
  moment, and leaves nothing behind when it is unloaded;
- a transfer puts only whole uploads at a destination, never over a file it may not replace, and
  leaves no temporary file that it could remove;
- the registry sends a call to the one machine it was meant for;
- the Linux target leaves no PTY, shell or temporary file behind and gives the lock back (both hold
  with the exceptions named below);
- the screen it shows is the one the program printed, and a client notices every change;
- what one end encodes the other decodes as it was or refuses, and what is accepted has one meaning
  and one encoding.

## Modules

`AgentSession` (with `RequestIds` for the id arithmetic) models both ends of the session and the
network. The bridge's variables are the fields of `UdpBackend` and the locals of its retry loop;
`StartCall`, `Timeout`, `AcceptHello`, `AcceptError`, `AcceptFragment` and `Ignore` are the branches
of `_request`, `_handshake` and `_exchange_with_packet`; `RestartClient` is a new `UdpBackend`. The
agent's variables are `session` and the `request_*` globals; `ProcessHello`, `Drop`, `ResendCached`,
`RejectReplay`, `StoreFragment` and `ProcessRequest` are the paths through `process_datagram`,
`ExpireSession` is the idle timeout. The network loses datagrams at any time and, unless `Ordered`,
reorders them; retransmission makes duplicates. Every id drawn gets a ticket that never repeats:
tickets, the log `runs` and the `run` field of responses are history variables that let properties
tell apart what the code cannot. Payloads and cryptography are abstracted: a datagram
authenticates under the session it was made for.

`AtMostOnceCall` states what a session promises, without messages: calls are issued in order, each
runs at most once and never after a later one, a call that returned has run, a call that failed
may have run or still run.

`ResidentAgent` models the machine around the agent. `stack` holds the frames of the agent's own
handlers, innermost last: a timer entry between its chained call and its check, a worker at one of
the points `run`, `poll`, `handle`, `release`, `leave`, a receive upcall while the driver copies.
Entering a worker reads and sets `idle_active` and saves the depth of the stack in the one `saved`
pair; leaving restores what `saved` says, right or wrong. The worker's steps are the parts of
`ratsr_idle_worker` between which interrupts matter. `SetVector` and the `Unload` actions follow
`main` and `uninstall_tsr`. A worker may be interrupted at every step, which admits more nesting
than a PC's interrupt controller.

`FileTransfer` models `upload_file`, `download_file` and `capture_graphics` request by request
against the one open transfer. Requests travel as `AtMostOnceCall` allows: `Deliver` puts a request
into the receive slot, `Execute` carries it out when DOS is idle, `Timeout` may come before or
between. A size and a CRC stand for the blocks they were computed over. The display is a place like
a file, which programs draw on and whose mode they change (`Screen`, `Frames`); a begin that reports
more than `MaxSize` blocks is aborted by the bridge. DOS may write a part of a block (`Torn`) and fail
to rename or to remove, the temporary file too (`refused`; files that were left are counted in
`others`), and local programs change files at any time. `Expire` and `Cleanup` are the
agent's idle handling; `NewBridge` is a bridge that was killed.

`TargetRegistry` models `BackendRuntime`. `Environments` are the ways the bridge may be started:
targets in order, discovery, a fault found before the targets are read or when the listener is
made, a backend handed to `create_server`. `ConfigureFails`, `GetNone`, `Get` and `ListTargets` are
the ways a call goes, `Announce` is a datagram for the `DiscoveryListener`, `Close` the exit handler.
Calls are sequential because of `operation_lock`; announcements arrive between them.

`SimulatorAgent` models `UdpAgentServer`: `Resend`, `RejectReplay`, `Collect` and `Run` are the paths
through `handle_datagram`, `Dispatch` gives what a request may do to the transfer and the
destination, `SendResponse` keeps the answer. The bridge makes call after call, gives up at any
time and follows the transfer protocol of `udp.py`; a datagram arrives any number of times, at most
`Lateness` calls late. The answer to a begin carries the size a download will have. `GraphicsBegin`
may fail after the transfer has started, and `RefuseMetadata` is a `GraphicsBeginResponse.decode` that
raises; `stray` remembers either. The simulator is run with the Linux backend, whose
`capture_graphics` always raises before the transfer starts; the model is of the server with any
backend. How answers travel is the subject of `AgentSession`.

`LinuxBackend` models a tool call on `LinuxTerminalBackend` step by step (`call.step`): starting the
shell, draining, writing, the five steps of an upload, and `close` with its two deadlines. Each step
that can raise may. The program in the foreground reads, or enters a write (`printing`) that ends
once the PTY has room and keeps it from reading until then, or exits; local programs create, remove
or replace the destination, make it a directory and remove the temporary file between any two
steps. `late` remembers a change between the second look at the destination and `os.replace`. Text
is counted in units.

`TerminalBuffer` models `feed` character by character with the real grid, cursor, pen and parser.
Control characters have names; `SUP2` is the superscript two, a digit to `str.isdigit` and an error
to `int`. `LinuxBackend!DrainRaises` is how that error ends a tool call.

`WireFormat` models `messages.py` and `packet.py`. A message is its struct fields (`Struct`) and the
variable parts that `decode` expects after them (`Follow`); `struct` is external and packs one value
per field. `Encodes` has the checks of the `encode` methods and no others, `Valid` and the `...Valid`
operators those of the `decode` methods; the two share what the code shares (`_validate`,
`_validate_path`, `TransferBlockRequest.encode`). Datagrams are fragmented, padded, stored by their
index (`Store`) and joined. The state machine sends one message or one damaged payload over a network
that reorders, repeats, pads, cuts and mixes in another message. The definitions that gather a check
of many methods are mapped to the span of these methods.

`AgentSessionProofs`, `AgentSessionAnswers`, `ResidentAgentProofs`, `FileTransferProofs`,
`TargetRegistryProofs`, `SimulatorAgentProofs`, `LinuxBackendProofs` and `TerminalBufferProofs` hold
the theorems about the modules they are named after. The `MC` modules give small values to
constants. Definitions commented `Mutant:` are deliberate faults, used by no specification; each
property is known to fail under one.

## Runs

| Run | Shows |
|---|---|
| `session_ordered` | Over a network that loses but keeps order, with idle expiry and a restarted bridge: the session implements `AtMostOnceCall`, an answer assembled over several retransmissions shows one run, and a live call is never refused as a replay although ids wrap. |
| `session_reordered` | Over a network that also reorders: answers belong to their call (`AnswerIsOwn`, with its inductive strengthening `MessageInv`), requests are never mixed from two calls, every call returns. |
| `session_replay` | Finding 1. |
| `session_stranded` | Finding 2. |
| `resident_safety` | One worker owns the private stack and the receive buffer, DOS is only called when idle, and an unload leaves nothing that could enter freed memory, for every opcode and two nested handlers. |
| `resident_liveness` | The receive slot is freed even if DOS never gets idle; the transfer of an expired session is closed if it does. |
| `transfer_safe` | Only whole uploads reach a destination, none replaces a file without leave, a receipt means stored, a download or a capture is what was there, a temporary file is orphaned only if its removal failed, and the one transfer is free after a call all of whose requests were answered, also when a size limit or a mode change ends it. |
| `registry_safe` | A served call reaches the one machine its argument stands for, over an open backend to its latest address; no socket leaks, in each of seven environments. |
| `terminal_screen` | The cursor stays in the grid, changes advance the generation, and plain text is wrapped and scrolled as a closed formula says (`TextIsShown`). |
| `linux_backend` | What is left of PTYs, shells and temporary files is accounted for by the failures the code does not handle, receipts of keys mean all of them, an upload replaces atomically and without overwrite only a file that appeared after the second look, and a call that never returns waits in `_write` for a running program to read. |
| `simulator` | No request runs twice, a request all of whose fragments arrived is run, an acknowledged commit is stored, and the one transfer is free again, but for a graphics begin that failed half-way. |
| `wire_format` | Messages at their limits arrive as sent, or are refused where `encode` checks less than `decode`; an accepted payload is the one packing of the value it gives, and one that `encode` would have sent but for two named exceptions. |

### Findings

1. `session_replay`: `send_response` records the id of a refused replay as the last answered one.
   The window moves backwards, and another late copy of a newer request runs again.
2. `session_stranded`: a bridge never handshakes twice. If the agent replaced the session (a HELLO
   that was retransmitted) or expired it, every later call of that backend times out.

What else the models showed, without a run of its own:

- `GRAPHICS_END` is not deferred (`dos/agent/ragent.c:2180`) and closes a complete file read: with
  `CrossEnds = TRUE`, `DosOnlyWhenIdle` fails. The bridge itself never mixes the two.
- A HELLO leaves the transfer of the session it replaces open (`ragent.c:1651`); a bridge that
  reconnects and retries before the old session expires keeps being refused.
- Commit removes the destination before it renames the temporary file (`ragent.c:2274`); if the
  rename fails both are gone. `ReceiptIsStored` says that the caller is told.
- `_configure` marks itself done before it reads the environment (`runtime.py:100`); after a refused
  entry later calls go on with the entries before it. `OnlyChoice` therefore exempts calls without
  a target after a refused configuration.
- The simulator has the flaw of finding 1 too (`agent_server.py:438`), hidden by its four answers:
  `RunsOnce` holds for datagrams up to two calls late and fails for three, with five calls.
- `close` of the Linux backend leaves the PTY open when a shell outlives SIGKILL by half a second
  (`linux.py:257`), and a start that fails between `openpty` and the `try` statement leaks both
  descriptors (`linux.py:269-272`); `NothingLeaks` counts them (`stuck`, `leaked`).
- `_write` does not drain (`linux.py:305-309`). A program that never reads keeps it, and with it
  `operation_lock`, for ever; so does one that would read but first waits for room to print. The
  second part of `ToolReturns` says that, with programs that read whenever they are not printing,
  this mutual wait is the only way in which a call does not return.
- Between the second look at the destination and `os.replace` (`linux.py:184-186`) a file that a
  local program makes is replaced without overwrite. `docs/mcp-tools.md:144` and
  `docs/security-model.md:22` promise otherwise without a word on local programs;
  `ReplaceIsAllowed` shows that this window is the only one (`late`).
- A temporary file stays when its removal fails: `unlink` raises anything but `FileNotFoundError`
  (`linux.py:190`), or `remove` fails unnoticed (`ragent.c:2062`). `NoTemporary` and `NoOrphan` allow
  one file for each such failure.
- A graphics begin that raises in `_graphics_begin_message` (`agent_server.py:298`), or whose answer
  the bridge refuses to decode (`udp.py:198`), leaves the simulator's transfer open until the next
  HELLO, and every later transfer is refused. `TransferIsFree` exempts it (`stray`).
- `KeyRequest.decode` and `TransferEndRequest.decode` accept what their `encode` refuses (a delay
  above 1000 or longer parts, the reserved id 0), and `HelloResponse`, `CapabilitiesMessage`,
  `TransferBeginResponse` and `GraphicsBeginResponse` encode what their `decode` refuses, although
  `messages.py:1` speaks of strict, bounded validation. `StrictDecode` and `ArrivesAsSent` name these
  messages (`MayBeRefused`).
- A parameter such as `²` makes `feed` raise (`terminal.py:124`): the rest of the chunk is lost and
  a cursor that moved before is not counted in the generation. `ChangeIsSeen` says what still holds.

### Bounds

- `AgentSession`: ids are taken modulo 16 instead of 2^16, starting next to the wrap, so every
  run crosses 0. Five tickets are a handshake and up to four calls, or two bridges; one retry gives
  duplicates of requests and of responses; two fragments give partial messages in either direction;
  three datagrams per direction hold a whole burst and one from before. `session_reordered` has one
  bridge: two bridges that draw the same random first id can mix fragments (see the hazards).
- `ResidentAgent`: two nested handlers already put a timer or packet entry over a worker and over
  the entry below it; a third only repeats the guard. Sessions expire after two ticks of a counter
  modulo three, so the comparison wraps. Responses have one fragment: longer ones repeat the step.
  The liveness run has one session and the opcodes of an upload.
- `FileTransfer`: contents of no and two blocks, a file above the size limit, two frames of which a
  mixture is neither, two transfer ids (symmetric) that are reused, three jobs, two bridges, one local change.
  One removal may fail. One path is enough because the agent keeps one transfer.
- `TargetRegistry`: two declared machines and two announced ones of the same name, two addresses,
  four announcements, four sockets, and seven environments that cover each fault.
- `SimulatorAgent`: the real four answers and four partial requests, five calls (one more than
  either holds) in the first session and four in a second, ids modulo 16 that wrap, requests of one
  and two fragments.
- `LinuxBackend`: three units of input against queues of two, so writes are partial and block; two
  PTYs at once, one more than a backend uses; two failing unlinks.
- `TerminalBuffer`: a grid of three by two, sequences of at most three characters, five reads out of
  21 chunks that hold every branch of the parser, whole and in pieces.
- `WireFormat`: each field of each message at its boundaries with the others fixed, variable parts
  of at most ten bytes, fragments of six values and at most five of them.

Deadlock is not checked where a bound ends the behaviour (all but `ResidentAgent`, where the program
below the handlers goes on also after an unload).

### Fairness

- `AgentSession!FairSpec`: deadlines pass, and each side reads what has arrived. Delivery, callers
  and restarts are not assumed.
- `ResidentAgent!TimerSpec`: handlers run to their end, the loader goes on installing, and a tick
  is taken again and again while no handler runs (the interrupt controller latches it). The
  premise `IdleFairness` of `ExpiredIsClosed` adds that DOS gets idle again and again without a
  critical error, as at a prompt.
- `LinuxBackend!FairSpec`: the bridge process runs and the deadline of `_drain` passes. Nothing is
  assumed of what runs in the shell: `close` has deadlines, and the first part of `ToolReturns` says
  that only `_write` can wait for ever. That programs read and print is a premise of its second part
  alone.

## Proofs

Every theorem holds for all values of the constants under the assumptions named with the module;
a hypothesis of its own is stated with it. In each module an inductive invariant is stated as a
conjunction of named parts (each was checked with TLC on the run's instance first), the actions are
sorted into a few kinds of steps, and each part is proved over the kinds.

### Session (`IdModulusAssumption`, `SessionAssumption`)

For every id range, number of retries, fragments, tickets and bridges:

- `TypeCorrect`: `TypeOK`. Not inductive alone: `AcceptHello` draws an id without a bound of its
  own, so `DrawnInv` adds that a ticket is left whenever a handshake is in progress.
- `MessagesGenuine` (`MessageInv`) and `AnswersAreOwn` (`AnswerIsOwn`), on networks of any order.
  `AnswerIsOwn` looks at the end of a call only. What makes it inductive: every datagram of the
  live bridge carries the id drawn as many draws before the current one as its ticket says
  (`Drawn`), so one that matches the current id is about the current call (`DrawnById`, which needs
  fewer tickets than ids); every response in flight or cached shows a run of its ticket
  (`ResponsesInv`); everything collected so far belongs to the current call (`ReceivedInv`); and
  requests in flight and runs are no younger than the latest call (`IssuedInv`, `RequestsInv`).
- `OrderHolds`, `OrderedMeansOnce` (`AtMostOnce`) and `AnswersAreWhole` (`AnswerIsWhole`), for
  ordered networks (`Ordered`; without it finding 1 refutes the second). `OrderInv` says that no session
  is used before it exists (`SessionsInv`), the requests in flight stand in the order they were
  drawn, one id per ticket (`FifoInv`), runs happened in that order and none is ahead of a request
  in flight (`RunsInv`), and a request that ran and is, or may come, in flight again is the last one its
  session answered (`LastInv`). The last is why one cached answer is enough.
- `SessionImplementsCalls` (`ImplementsCalls`), for ordered networks: the refinement of
  `AtMostOnceCall`. Each action is matched with issuing, running, returning or failing a call, or
  leaves the mapped state alone (`Simulates`); that a run is of a later call than all before it
  follows from `RunsInv` and `LastInv`, that a returned call has run from `MessageInv`.
- `LiveCallsAreNew` (`NeverRefusedAsReplay`), for ordered networks and
  `MaxTickets < IdModulus \div 2`: 32767 draws with 16-bit ids. The half-range comparison is wrong
  beyond that distance, and the model's bound on draws is what bounds the distance. `CacheInv` ties
  the cached answer to `last_request_id` and puts it before everything in flight; `LaterDrawIsNewer`
  is the arithmetic of wrapping and skipping 0; `ReplayInv` says that only a bridge that is gone
  can be refused.
- `PayloadsAreWhole` (`WholePayload`), for networks of any order and `MaxClients = 1`. `PartsInv`
  says that every fragment in the buffer was drawn under the buffer's id. With more bridges it is
  false: `process_hello` leaves the buffer, and a new bridge may draw the same id (see the hazards).

### Resident agent (`ResidentAssumption`)

`TypesHold`, `StackIsRestored` (`OwnStackRestored`), `FrameStaysIntact` (`BufferIntact`), `DosIsIdle`
(`DosOnlyWhenIdle`) and `UnloadsCleanly` (`UnloadIsClean`), for every depth of nesting. `StackInv`
says what holds of each handler on the stack (`FrameInv`): a worker is the one `saved` and `active`
speak of, and does nothing once disabled; a copying upcall is the only one and has a free buffer; a
worker that handles a frame has it in the buffer, and may carry it out without DOS or found DOS
idle. The lemmas describe pushing, popping and moving the innermost handler.
`UnloadInv` follows the order of `uninstall_tsr`. `DosIsIdle` assumes `~CrossEnds`: the bridge ends
a capture with GRAPHICS_END only, and the agent, which does not defer that opcode, relies on it.

### File transfer (`TransferAssumption`)

`TypesHold`, `ReceiptsAreTrue` (`ReceiptIsStored`), `DownloadsAreFiles` (`DownloadIsFile`),
`TemporaryHasOwner` (`NoOrphan`), and the action properties `UploadsAreWhole` (`UploadIsWhole`) and
`NothingIsClobbered` (`NoClobber`), for every set of contents, paths, frames and transfer ids, reused
ones too. `SlotInv` says which request can wait in the slot, `OwnerInv` to which call the open
transfer belongs and that a waiting request fits it, `WholeInv` that the temporary file holds what
was counted unless only an abort can still reach it, `AnswerInv` and `DataInv` what the bridge may
conclude from an answer.
`FreeInv` says that a bridge that did not give up drives the open transfer, which `NoOrphan` needs.

### Target registry (`RegistryAssumption`)

`RegistryIsSound` (`RegistryInv`), `TypesHold`, `BackendsFollow` (`BackendFollowsRecord`),
`CloseLeavesNothing` (`CloseIsComplete`), and the action properties `LatestIsReached`
(`ReachesLatest`) and `ChoiceIsUnique` (`OnlyChoice`), for any number of machines, environments and
waiting announcements. `RecordInv` pairs records with sockets, `HeardInv` says that the last waiting
announcement of a target, or else its record, has the address it was heard at last, `StartInv`
that nothing is known before the configuration, `KnownInv` that records stand for the targets a
caller may know of. What `_refresh_discovery` does to the records with a queue of any length is stated
in closed form (`Follow`, `Refreshed`): the last announcement of a target
gives its address, and its backend is closed if any waiting one moved it. Where an argument by induction on numbers was needed it is one about a
least counterexample (`LeastNat`).

### Simulator agent (`SimulatorAssumption`, `ValuesAssumption`, `IdModulusAssumption`)

`ValuesAssumption` says that contents are sequences of blocks and that `None` is no request, answer
or transfer. The hypotheses of the theorems relate what the code fixes (four answers, four partial
requests, 16-bit ids) to how late a datagram may be, which nothing in the code bounds:

| Theorem | Property | `CacheSize >= 2 * Lateness`, `Lateness < IdModulus \div 2` | `MaxCalls + 1 < IdModulus \div 2` | Also |
|---|---|---|---|---|
| `TypeCorrect` | `TypeOK` | | | |
| `RunsOnceCorrect` | `RunsOnce` | yes | | |
| `TransferIsFreeCorrect` | `TransferIsFree` | yes | yes | |
| `WholeIsRunCorrect` | `WholeIsRun` | yes | yes | `PendingSize > Lateness` |
| `CommitIsStoredCorrect` | `CommitIsStored` | yes | yes | `Lateness <= 2` |

With the code's values the first column is a lateness of at most two calls, and it implies the last.
`RunsOnce` fails for three. `MaxCalls` bounds the calls of one session, 32766 with 16-bit ids: a
bridge whose datagrams are all lost for half the range of ids is then refused as a replay.

- `Base` adds to the types what a transfer and the datagrams of the bridge look like (`KindInv`,
  `BridgeInv`: the id of call n is the n-th drawn, `IdOf`). `Effect` says once what each request may do
  to transfer, destination and answer; later proofs use only that.
- `OnceInv`: a call that ran and may arrive again is `Kept`. Either its answer is in the cache, and
  what was stored after it belongs to calls around it (`KeptInCache`); or it was pushed out, it is the
  oldest that may arrive, all later ones are in the cache, and the last answered is not older, so a
  copy is refused (`KeptOut`). That `Kept` is stable (`KeptStable`) is a pigeonhole argument
  (`Crowd`): what pushes an answer out are `CacheSize` different calls from a window of
  `2 * Lateness`, so they are all of the window.
- `AnswerInv`: a datagram of the last call is collected or carried out until the call has run, and
  from then on gets the one answer (`CurrentCall`). Here ids must be told apart over the session.
- `FreeInv`: without giving up and without a `stray` transfer every call but the last has run, so no copy runs again, and each
  request leaves the transfer that the bridge then knows of (`HoldsAfter`).
- `WholeInv`: behind the collected fragments of the last call only calls that may still arrive have
  entries, so they are too few to push it out (`PushedTogether`, again by `Crowd`).
- `CommitInv`: `NoHarm` says that while the bridge has a transfer, a block, finish or abort that was
  overtaken by a later call is dead. `Dead` calls stay so, although a refusal moves
  `last_request_id` back: a call refused in front of it has `KeptOut`, and then the answer of the
  dead call is in the cache. `Failing`, `Aborting` and `Unfinished` handle the one gap: a begin after
  two calls that did not run. The transfer is then still held, so the begin is refused. `Driven` and
  `Acknowledged` follow the announced content from the begin to the destination. Beyond two calls
  the gap is wider, and a transfer id that is drawn again could let an old abort and an old begin
  replace the transfer.

### Linux target (`BackendAssumption`) and terminal (`SizeAssumption`, `SequenceAssumption`, `ChunksAssumption`)

- `NothingEverLeaks` (`NothingLeaks`), `KeysAreNeverCut` (`KeysAreWhole`), `TemporaryIsRemoved`
  (`NoTemporary`) and the action property `ReplaceIsAlwaysAllowed` (`ReplaceIsAllowed`). `PtyInv`
  pairs the open master with `_master_fd`, the started shell and the deadlines of `close`; `KeyInv`
  keeps the sum of what is written and what is left; `UploadInv` says that
  when `os.replace` is about to be called there is leave to overwrite, no destination, or a `late`
  change, and counts the files that failing unlinks left.
- `CursorStays` (`CursorInGrid`). `CursorInv` adds that the collected sequence and the characters
  still to be treated are sequences. Each kind of move is clamped (`Clamped`,
  `PutKeepsCursor`); `CsiKeepsCursor` splits `_apply_csi` by its final character. Parameters only
  need to be numbers (`ParamIsNumber`): what the fold over a sequence computes is not needed.
- `ChangesAreSeen` (`ChangeIsSeen`): cells change only together with the generation.
- `TextIsAlwaysShown` (`TextIsShown`): `TextInv` relates cursor and grid to the number of characters
  printed; `PutKeepsText` is the case of wrapping and of the line feed that scrolls, on quotients and
  remainders by the width (`DivMod`, `NextPlace`).

### Only model-checked

- Liveness: `CallReturns`, `SlotIsFreed`, `ExpiredIsClosed`, `ToolReturns`. Fairness and `ENABLED`
  are outside the prover.
- `WireFormat`: `ArrivesAsSent`, `StrictDecode`. What the folds over a payload compute needs
  induction over data.

## Not modelled

- Keyboard insertion into the BIOS ring (`ratsr_hooks.asm:237`): an opaque mutation in
  `AgentSession`. The shared workspace of RA-TSR (`ragent.c:108`): the session model keeps request
  and response apart, as RAGENT does.
- Cryptography and checksums as computations: MAC, nonce and CRC are assumed ideal.
- The C codecs (`dmproto.c`), the configuration file (`dmconfig.c`), command lines, encoding of
  announcements, `to_dict` of `models.py` and the conversions between backend results and messages:
  data without protocol state.
- UTF-8 decoding before the terminal, and the path checks of the backends, which are one outcome
  (`valid`) of an upload.
- The end-to-end tools and test drivers.

## Plan

Done: the session and its abstract specification; the resident worker; transfers and graphics
capture; the registry; the simulator; the Linux target and its terminal; the wire format. Proved:
the safety properties of all of these but the wire format, and the refinement of `AtMostOnceCall`
over ordered networks.

Theorems left: the parts of `WireFormat` that need no induction, such as `PacketValid` of every
fragment for all sizes.

Models left: the keyboard ring against the keyboard interrupt, and the shared workspace of RA-TSR
as a variant of reassembly.
