---------------------------- MODULE LinuxBackend ----------------------------
(***************************************************************************)
(* The local development target: the MCP tools of server.py on a           *)
(* LinuxTerminalBackend, which owns a shell on a PTY.  Tool calls are      *)
(* serialised by operation_lock, so one call is in progress at a time; the *)
(* shell and the programs in it run beside it, read and write the two      *)
(* bounded queues of the PTY and work on the same files.                   *)
(*                                                                         *)
(* Text and keys are counted in units; a file is a content, and one        *)
(* destination stands for all paths that _resolve_file admits.             *)
(***************************************************************************)
EXTENDS Integers

CONSTANTS
  Contents,          \* what an upload may carry
  Local,             \* what a local program writes
  Absent, Directory, \* a path without a file
  Partial,           \* a temporary file that is not complete
  MaxText,           \* units of input of one call, 4096 bytes and 128 keys
  InCap, OutCap,     \* capacity of the PTY in either direction
  MaxPtys,           \* bound of the model on PTYs held at once
  MaxRefused         \* bound of the model on failing unlinks

ASSUME BackendAssumption ==
  /\ MaxText \in Nat /\ InCap \in Nat \ {0} /\ OutCap \in Nat \ {0} /\ MaxPtys \in Nat \ {0}
  /\ MaxRefused \in Nat
  /\ Contents \cap {Local, Absent, Directory, Partial} = {}

VARIABLES
  closed,      \* _closed
  started,     \* _process is set
  fd,          \* _master_fd is set
  ptys,        \* masters this process holds open
  leaked,      \* history: starts that failed between openpty and Popen
  shell,       \* the shell process: "none", "running", "gone"
  inq, outq,   \* units in the PTY, to and from the shell
  printing,    \* the program in the foreground is in a write to the PTY
  call,        \* the call in progress
  result,      \* how the last call ended
  stuck,       \* history: close() was left by TimeoutExpired
  dest, temp,  \* the destination and the temporary file of the last upload
  others,      \* temporary files of earlier uploads
  refused      \* history: unlinks of temporary files that failed

backend == <<closed, started, fd, ptys, leaked, stuck>>
pty == <<inq, outq, printing>>
files == <<dest, temp, others, refused>>
vars == <<closed, started, fd, ptys, leaked, shell, inq, outq, printing, call,
          result, stuck, dest, temp, others, refused>>

\* left: units _write has still to write; done: units the PTY took; late
\* (history): a local program changed the destination after the second look.
Idle == [step |-> "idle", next |-> "idle", text |-> 0, left |-> 0, done |-> 0,
         data |-> Absent, overwrite |-> FALSE, late |-> FALSE]

Init ==
  /\ closed = FALSE /\ started = FALSE /\ fd = FALSE /\ ptys = 0
  /\ leaked = 0 /\ shell = "none"
  /\ inq = 0 /\ outq = 0 /\ printing = FALSE
  /\ call = Idle /\ result = "none" /\ stuck = FALSE
  /\ dest \in {Absent, Local} /\ temp = Absent /\ others = 0 /\ refused = 0

Ends(how) == call' = Idle /\ result' = how
Goes(step) == call' = [call EXCEPT !.step = step] /\ UNCHANGED result

-----------------------------------------------------------------------------
(* Tool calls.  get_status, get_capabilities, capture_screen and send_keys *)
(* start the shell first; arguments are looked at afterwards.              *)

Tools == {"status", "capture", "send", "badsend"}

CallTool(tool, n) ==
  /\ call.step = "idle"
  /\ n > 0 => tool = "send"
  /\ IF closed
     THEN call' = Idle /\ result' = "raised"
     ELSE /\ call' = [Idle EXCEPT !.step = IF started THEN tool ELSE "spawn",
                                  !.next = tool, !.text = n, !.left = n]
          /\ UNCHANGED result
  /\ UNCHANGED <<backend, shell, pty, files>>

Spawn ==
  /\ call.step = "spawn"
  /\ ptys < MaxPtys /\ ptys' = ptys + 1
  /\ fd' = TRUE /\ started' = TRUE
  /\ shell' = "running"
  /\ Goes("greeting")
  /\ UNCHANGED <<closed, leaked, stuck, pty, files>>

\* Setting size and flags of the PTY raises, outside of the try statement:
\* nobody closes the two descriptors.
SetupFails ==
  /\ call.step = "spawn"
  /\ ptys < MaxPtys /\ ptys' = ptys + 1
  /\ leaked' = leaked + 1
  /\ Ends("raised")
  /\ UNCHANGED <<closed, started, fd, stuck, shell, pty, files>>

\* Mutant: the master stays open when Popen raises.
SpawnFailsOpen ==
  /\ call.step = "spawn"
  /\ ptys < MaxPtys /\ ptys' = ptys + 1
  /\ Ends("raised")
  /\ UNCHANGED <<closed, started, fd, leaked, stuck, shell, pty, files>>

\* openpty or Popen raises.
SpawnFails ==
  /\ call.step = "spawn"
  /\ Ends("raised")
  /\ UNCHANGED <<backend, shell, pty, files>>

\* get_status asks the process whether it still runs.
Status ==
  /\ call.step = "status"
  /\ Ends(IF shell = "running" THEN "connected" ELSE "unresponsive")
  /\ UNCHANGED <<backend, shell, pty, files>>

Capture ==
  /\ call.step = "capture"
  /\ Goes("refresh")
  /\ UNCHANGED <<backend, shell, pty, files>>

-----------------------------------------------------------------------------
(* _drain, after the start, before a capture and after input.              *)

Draining == call.step \in {"greeting", "refresh", "settle"}

DrainRead(n) ==
  /\ Draining /\ fd
  /\ n <= outq /\ outq' = outq - n
  /\ UNCHANGED <<backend, shell, inq, printing, call, result, files>>

\* feed_bytes raises for a sequence it cannot read; what was read is lost.
DrainRaises(n) ==
  /\ Draining /\ fd
  /\ n <= outq /\ outq' = outq - n
  /\ Ends("raised")
  /\ UNCHANGED <<backend, shell, inq, printing, files>>

DrainStops ==
  CASE call.step = "greeting" -> Goes(call.next)
    [] call.step = "refresh"  -> Ends("screen")
    [] OTHER                  -> Ends("sent")

\* Mutant: a drain without a deadline.
DrainEndsEmpty ==
  /\ Draining /\ outq = 0 /\ DrainStops
  /\ UNCHANGED <<backend, shell, pty, files>>

\* The deadline, MAX_DRAIN_BYTES, silence or the end of the shell.
DrainEnds ==
  /\ Draining /\ DrainStops
  /\ UNCHANGED <<backend, shell, pty, files>>

-----------------------------------------------------------------------------
(* send_keys and _write.                                                   *)

SendRefused ==
  /\ call.step = "badsend"
  /\ Ends("raised")
  /\ UNCHANGED <<backend, shell, pty, files>>

\* Mutant: the return value of os.write is not looked at.
WriteOnce(n) ==
  /\ call.step = "send" /\ n <= call.left /\ inq + n <= InCap
  /\ inq' = inq + n
  /\ call' = [call EXCEPT !.left = 0, !.done = @ + n]
  /\ UNCHANGED <<backend, shell, outq, printing, result, files>>

\* os.write takes some units, or none (BlockingIOError) and the loop waits.
Write(n) ==
  /\ call.step = "send" /\ n <= call.left /\ inq + n <= InCap
  /\ inq' = inq + n
  /\ call' = [call EXCEPT !.left = @ - n, !.done = @ + n]
  /\ UNCHANGED <<backend, shell, outq, printing, result, files>>

WriteFails ==
  /\ call.step = "send" /\ call.left > 0 /\ shell = "gone"
  /\ Ends("raised")
  /\ UNCHANGED <<backend, shell, pty, files>>

WriteEnds ==
  /\ call.step = "send" /\ call.left = 0
  /\ Goes("settle")
  /\ UNCHANGED <<backend, shell, pty, files>>

-----------------------------------------------------------------------------
(* download_file and upload_file, for a closed backend too.                *)

\* Policy, path and size are checked, then the file is read as a whole.
Download ==
  /\ call.step = "idle"
  /\ call' = Idle
  /\ result' \in {"raised"} \cup (IF dest \in {Absent, Directory} THEN {} ELSE {"contents"})
  /\ UNCHANGED <<backend, shell, pty, files>>

\* upload_file of server.py and the checks of the backend up to the first
\* look at the destination; valid: base64, size, policy and path are good.
Upload(data, overwrite, valid) ==
  /\ call.step = "idle"
  /\ IF valid /\ (dest = Absent \/ overwrite)
     THEN /\ call' = [Idle EXCEPT !.step = "create", !.data = data, !.overwrite = overwrite]
          /\ UNCHANGED result
     ELSE call' = Idle /\ result' = "raised"
  /\ UNCHANGED <<backend, shell, pty, files>>

\* NamedTemporaryFile takes a name of its own beside files left there before.
CreateTemp ==
  /\ call.step = "create"
  /\ \/ /\ temp' = Partial /\ others' = (IF temp = Absent THEN others ELSE others + 1)
        /\ Goes("fill")
     \/ UNCHANGED <<temp, others>> /\ Ends("raised")
  /\ UNCHANGED <<backend, shell, pty, dest, refused>>

FillTemp ==
  /\ call.step = "fill"
  /\ \/ temp' = (IF temp = Absent THEN Absent ELSE call.data) /\ Goes("recheck")
     \/ UNCHANGED temp /\ Goes("cleanup")
  /\ UNCHANGED <<backend, shell, pty, dest, others, refused>>

\* Mutant: the destination is only looked at before the temporary file.
NoRecheck ==
  /\ call.step = "recheck"
  /\ Goes("replace")
  /\ UNCHANGED <<backend, shell, pty, files>>

Recheck ==
  /\ call.step = "recheck"
  /\ Goes(IF dest = Absent \/ call.overwrite THEN "replace" ELSE "cleanup")
  /\ UNCHANGED <<backend, shell, pty, files>>

Replace ==
  /\ call.step = "replace" /\ temp # Absent /\ dest # Directory
  /\ dest' = temp /\ temp' = Absent
  /\ Ends("stored")
  /\ UNCHANGED <<backend, shell, pty, others, refused>>

\* Mutant: the temporary file is forgotten when os.replace raises.
ReplaceFailsAtOnce ==
  /\ call.step = "replace"
  /\ Ends("raised")
  /\ UNCHANGED <<backend, shell, pty, files>>

ReplaceFails ==
  /\ call.step = "replace"
  /\ Goes("cleanup")
  /\ UNCHANGED <<backend, shell, pty, files>>

\* Only FileNotFoundError of unlink is suppressed; any other error leaves the
\* file where it is.
Cleanup ==
  /\ call.step = "cleanup"
  /\ \/ temp' = Absent /\ UNCHANGED refused
     \/ /\ temp # Absent /\ UNCHANGED temp
        /\ refused < MaxRefused /\ refused' = refused + 1
  /\ Ends("raised")
  /\ UNCHANGED <<backend, shell, pty, dest, others>>

-----------------------------------------------------------------------------
(* close: SIGTERM, half a second, SIGKILL, half a second.                  *)

Release ==
  /\ fd' = FALSE /\ ptys' = (IF fd THEN ptys - 1 ELSE ptys)
  /\ Ends("closed")

Close ==
  /\ call.step = "idle"
  /\ closed' = TRUE /\ started' = FALSE
  /\ IF closed \/ ~started \/ shell = "running"
     THEN /\ UNCHANGED <<fd, ptys>>
          /\ call' = [Idle EXCEPT !.step = IF started /\ ~closed THEN "term" ELSE "idle"]
          /\ result' = IF started /\ ~closed THEN result ELSE "closed"
     ELSE Release
  /\ UNCHANGED <<leaked, stuck, shell, pty, files>>

ShellEnded ==
  /\ call.step \in {"term", "kill"} /\ shell = "gone"
  /\ Release
  /\ UNCHANGED <<closed, started, leaked, stuck, shell, pty, files>>

TermTimesOut ==
  /\ call.step = "term" /\ shell = "running"
  /\ Goes("kill")
  /\ UNCHANGED <<backend, shell, pty, files>>

\* The second wait raises TimeoutExpired: the PTY is not closed, and a later
\* close() returns at once.
KillTimesOut ==
  /\ call.step = "kill" /\ shell = "running"
  /\ Ends("raised") /\ stuck' = TRUE
  /\ UNCHANGED <<closed, started, fd, ptys, leaked, shell, pty, files>>

-----------------------------------------------------------------------------
(* The shell and the programs in it.  One of them is in the foreground; it *)
(* reads or it prints, and while it is in a write that the PTY has no room *)
(* for it does not read.                                                   *)

ShellReads ==
  /\ shell = "running" /\ ~printing /\ inq > 0
  /\ inq' = inq - 1
  /\ UNCHANGED <<backend, shell, outq, printing, call, result, files>>

ShellWrites ==
  /\ shell = "running" /\ ~printing
  /\ printing' = TRUE
  /\ UNCHANGED <<backend, shell, inq, outq, call, result, files>>

ShellPrints ==
  /\ shell = "running" /\ printing /\ outq < OutCap
  /\ outq' = outq + 1 /\ printing' = FALSE
  /\ UNCHANGED <<backend, shell, inq, call, result, files>>

ShellExits ==
  /\ shell = "running" /\ shell' = "gone" /\ printing' = FALSE
  /\ UNCHANGED <<backend, inq, outq, call, result, files>>

LocalChange ==
  /\ \/ /\ dest' \in {Absent, Local, Directory}
        /\ call' = [call EXCEPT !.late = call.step = "replace"]
        /\ UNCHANGED temp
     \/ temp' = Absent /\ UNCHANGED <<dest, call>>
  /\ UNCHANGED <<backend, shell, pty, result, others, refused>>

-----------------------------------------------------------------------------
Bridge ==
  \/ Spawn \/ SetupFails \/ SpawnFails \/ Status \/ Capture
  \/ \E n \in 1 .. OutCap : DrainRead(n) \/ DrainRaises(n)
  \/ DrainEnds
  \/ SendRefused \/ WriteFails \/ WriteEnds
  \/ \E n \in 1 .. MaxText : Write(n)
  \/ CreateTemp \/ FillTemp \/ Recheck \/ Replace \/ ReplaceFails \/ Cleanup
  \/ ShellEnded \/ TermTimesOut \/ KillTimesOut

Client ==
  \/ \E tool \in Tools, n \in 0 .. MaxText : CallTool(tool, n)
  \/ Download
  \/ \E data \in Contents, overwrite, valid \in BOOLEAN : Upload(data, overwrite, valid)
  \/ Close

Shell == ShellReads \/ ShellWrites \/ ShellPrints \/ ShellExits \/ LocalChange

Next == Bridge \/ Client \/ Shell

Spec == Init /\ [][Next]_vars

\* The process runs and deadlines pass.  Nothing is assumed of the programs in
\* the shell: they need neither read nor print.
FairSpec == Spec /\ WF_vars(Bridge) /\ WF_vars(DrainEnds)

-----------------------------------------------------------------------------
(* Between calls the process holds one PTY while its shell is in use and   *)
(* none otherwise, but for those of starts that failed before the try      *)
(* statement; after close() the shell has ended.  The exception is a shell *)
(* that outlives SIGKILL by half a second (_ensure_started, close).        *)
NothingLeaks ==
  call.step = "idle" /\ ~stuck =>
    /\ ptys = (IF started THEN 1 ELSE 0) + leaked
    /\ closed => shell # "running"

(* A receipt of send_keys means that the PTY took every unit of text and   *)
(* keys, however os.write split them (_write, send_keys).                  *)
KeysAreWhole ==
  call.step = "settle" => call.done = call.text

Uploading == {"fill", "recheck", "replace", "cleanup"}

(* A temporary file that no upload works on is there only because its      *)
(* unlink failed, once for each such file, whichever other step of the     *)
(* upload failed (the finally clause of upload_file).                      *)
NoTemporary ==
  others + (IF temp # Absent /\ call.step \notin Uploading THEN 1 ELSE 0) <= refused

(* The bridge changes a destination in one step, to the whole content of   *)
(* an upload it then acknowledges.  Without overwrite it replaces no file, *)
(* but for one that a local program made after the second look at the      *)
(* destination and before os.replace (upload_file).                        *)
ReplaceIsAllowed ==
  [][Bridge /\ dest' # dest =>
       /\ result' = "stored" /\ dest' = call.data
       /\ call.overwrite \/ dest = Absent \/ call.late]_vars

\* _write waits for room in the PTY, and does not drain it meanwhile.
WaitsForRoom == call.step = "send" /\ call.left > 0 /\ inq = InCap /\ shell = "running"

(* A tool call that never returns, and keeps the lock that all tools need, *)
(* waits for ever in _write for a running shell to read.  If programs read *)
(* whenever they are not in a write, and writes end when there is room,    *)
(* that is only while such a write waits for the bridge to drain (_write,  *)
(* _drain, close): bridge and program then wait on each other.             *)
ToolReturns ==
  /\ []<>(call.step = "idle") \/ <>[]WaitsForRoom
  /\ WF_vars(ShellReads) /\ WF_vars(ShellPrints) =>
       []<>(call.step = "idle") \/ <>[](WaitsForRoom /\ printing /\ outq = OutCap)

=============================================================================
