------------------------- MODULE LinuxBackendProofs -------------------------
(***************************************************************************)
(* What LinuxBackend promises between and during calls, for every PTY,     *)
(* every length of input and every set of contents.                        *)
(*                                                                         *)
(* None of the properties is inductive.  NothingLeaks speaks of the moments*)
(* between calls, so PtyInv says what close() and _ensure_started hold on  *)
(* the way; KeysAreWhole needs the sum that _write keeps; ReplaceIsAllowed *)
(* needs what the temporary file holds when os.replace is reached, which   *)
(* local programs may only have removed.                                   *)
(***************************************************************************)
EXTENDS LinuxBackend, TLAPS

Steps ==
  Tools \cup {"idle", "spawn", "greeting", "refresh", "settle", "create", "fill",
              "recheck", "replace", "cleanup", "term", "kill"}

Calls ==
  [step : Steps, next : Tools \cup {"idle"}, text : Nat, left : Nat, done : Nat,
   data : Contents \cup {Absent}, overwrite : BOOLEAN, late : BOOLEAN]

TypeInv ==
  /\ call \in Calls
  /\ call.step \in {"spawn", "greeting"} => call.next \in Tools
  /\ closed \in BOOLEAN /\ started \in BOOLEAN /\ fd \in BOOLEAN /\ stuck \in BOOLEAN
  /\ ptys \in Nat /\ leaked \in Nat /\ others \in Nat /\ refused \in Nat

\* Beside the leaked ones one master is open exactly while _master_fd is set,
\* and that is while the shell is in use or close() waits for it; a shell that
\* outlived close() is the only one that runs on a closed backend.
PtyInv ==
  /\ ptys = (IF fd THEN 1 ELSE 0) + leaked
  /\ stuck => closed
  /\ closed => ~started
  /\ call.step = "spawn" => ~closed /\ ~started
  /\ IF call.step \in {"term", "kill"}
     THEN closed /\ fd /\ ~stuck
     ELSE ~stuck => (fd <=> started)
  /\ ~started /\ ~stuck /\ call.step \notin {"term", "kill"} => shell # "running"

\* _write splits the text; nothing is left when its loop ends.
KeyInv ==
  /\ call.text = call.left + call.done
  /\ call.step = "settle" => call.left = 0

\* What the temporary file holds when os.replace is about to be called, and that
\* the destination is vacant unless it was changed after the second look.
UploadInv ==
  /\ NoTemporary
  /\ call.step \in {"recheck", "replace"} => temp \in {Absent, call.data}
  /\ call.step = "replace" => call.overwrite \/ dest = Absent \/ call.late

BackendInv == TypeInv /\ PtyInv /\ KeyInv /\ UploadInv
-----------------------------------------------------------------------------
(* A drain ends by returning to the call that started it.                  *)
LEMMA DrainStopsCases ==
  ASSUME DrainStops
  PROVE  \/ call.step = "greeting" /\ Goes(call.next)
         \/ call.step = "refresh" /\ Ends("screen")
         \/ call.step \notin {"greeting", "refresh"} /\ Ends("sent")
<1>1. CASE call.step = "greeting" BY <1>1 DEF DrainStops
<1>2. CASE call.step = "refresh" BY <1>2 DEF DrainStops
<1>3. CASE call.step \notin {"greeting", "refresh"} BY <1>3 DEF DrainStops
<1>4. QED BY <1>1, <1>2, <1>3

(* The call that a tool starts, fresh but for its arguments.               *)
LEMMA ToolCall ==
  ASSUME NEW tool \in Tools, NEW n \in 0 .. MaxText, CallTool(tool, n)
  PROVE  /\ call.step = "idle" /\ n \in Nat
         /\ UNCHANGED <<backend, shell, pty, files>>
         /\ \/ call' = Idle
            \/ /\ ~closed
               /\ call' = [step |-> IF started THEN tool ELSE "spawn", next |-> tool,
                           text |-> n, left |-> n, done |-> 0, data |-> Absent,
                           overwrite |-> FALSE, late |-> FALSE]
<1>1. n \in Nat
  BY BackendAssumption
<1>2. QED BY <1>1 DEF CallTool, Idle

(* The call that upload_file starts.                                       *)
LEMMA UploadCall ==
  ASSUME NEW data \in Contents, NEW overwrite \in BOOLEAN, NEW valid \in BOOLEAN,
         Upload(data, overwrite, valid)
  PROVE  /\ call.step = "idle"
         /\ UNCHANGED <<backend, shell, pty, files>>
         /\ \/ call' = Idle
            \/ call' = [step |-> "create", next |-> "idle", text |-> 0, left |-> 0,
                        done |-> 0, data |-> data, overwrite |-> overwrite,
                        late |-> FALSE]
BY DEF Upload, Idle

(* close() waits for a shell that runs, and is done at once otherwise.     *)
LEMMA CloseCall ==
  ASSUME Close
  PROVE  \/ started /\ ~closed /\ shell = "running" /\ UNCHANGED <<fd, ptys>>
            /\ call' = [Idle EXCEPT !.step = "term"]
         \/ (closed \/ ~started) /\ UNCHANGED <<fd, ptys>>
            /\ call' = [Idle EXCEPT !.step = "idle"]
         \/ started /\ ~closed /\ shell # "running" /\ Release
BY DEF Close

(* A call that ends leaves no call, one that goes on keeps its arguments.  *)
LEMMA CallSteps ==
  ASSUME call \in Calls
  PROVE  /\ \A how : Ends(how) => call' \in Calls /\ call'.step = "idle"
         /\ \A step \in Steps :
              Goes(step) => call' \in Calls /\ call'.step = step /\ call'.next = call.next
<1>1. \A how : Ends(how) => call' \in Calls /\ call'.step = "idle"
  BY DEF Ends, Idle, Calls, Steps, Tools
<1>2. ASSUME NEW step \in Steps, Goes(step)
      PROVE  call' \in Calls /\ call'.step = step /\ call'.next = call.next
  BY <1>2 DEF Goes, Calls
<1>3. QED BY <1>1, <1>2

(* Every step keeps the types.                                             *)
LEMMA TypeStep ==
  ASSUME TypeInv, PtyInv, [Next]_vars
  PROVE  TypeInv'
<1> USE DEF TypeInv, Steps, Tools, backend, pty, files
<1>a. \A how : Ends(how) => call' \in Calls /\ call'.step = "idle"
  BY CallSteps
<1>b. \A step \in Steps :
        Goes(step) => call' \in Calls /\ call'.step = step /\ call'.next = call.next
  BY CallSteps
<1>1. CASE Spawn
  BY <1>1, <1>b DEF Spawn
<1>2. CASE SpawnFails \/ SetupFails
  BY <1>2, <1>a DEF SpawnFails, SetupFails
<1>3. CASE Status
  BY <1>3, <1>a DEF Status
<1>4. CASE Capture
  BY <1>4, <1>b DEF Capture
<1>5. ASSUME NEW n \in 1 .. OutCap, DrainRead(n) \/ DrainRaises(n)
      PROVE  TypeInv'
  BY <1>5, <1>a DEF DrainRead, DrainRaises, Draining
<1>6. CASE DrainEnds
  BY <1>6, <1>a, <1>b, DrainStopsCases DEF DrainEnds, Draining
<1>7. CASE SendRefused \/ WriteFails \/ WriteEnds
  BY <1>7, <1>a, <1>b DEF SendRefused, WriteFails, WriteEnds
<1>8. ASSUME NEW n \in 1 .. MaxText, Write(n)
      PROVE  TypeInv'
  <2>1. n \in Nat /\ call.left - n \in Nat /\ call.done + n \in Nat
    BY <1>8, BackendAssumption DEF Write, Calls
  <2>2. QED BY <1>8, <2>1 DEF Write, Calls
<1>9. CASE CreateTemp
  BY <1>9, <1>a, <1>b DEF CreateTemp
<1>10. CASE FillTemp
  BY <1>10, <1>b DEF FillTemp
<1>11. CASE Recheck
  BY <1>11, <1>b DEF Recheck
<1>12. CASE Replace
  BY <1>12, <1>a DEF Replace
<1>13. CASE ReplaceFails \/ Cleanup
  BY <1>13, <1>a, <1>b DEF ReplaceFails, Cleanup
<1>14. CASE ShellEnded
  <2>1. ptys' \in Nat
    BY <1>14 DEF ShellEnded, Release, PtyInv
  <2>2. QED BY <1>14, <2>1, <1>a DEF ShellEnded, Release
<1>15. CASE TermTimesOut \/ KillTimesOut
  <2>1. CASE TermTimesOut
    BY <2>1, <1>b DEF TermTimesOut
  <2>2. CASE KillTimesOut
    BY <2>2, <1>a DEF KillTimesOut
  <2>3. QED BY <1>15, <2>1, <2>2
<1>16. ASSUME NEW tool \in Tools, NEW n \in 0 .. MaxText, CallTool(tool, n)
      PROVE  TypeInv'
  <2>1. UNCHANGED <<backend, shell, pty, files>>
    BY <1>16, ToolCall
  <2>2. CASE call' = Idle
    BY <2>1, <2>2 DEF Idle, Calls
  <2>3. CASE call' # Idle
    <3>1. call'.step \in Steps /\ call' \in Calls /\ call'.next \in Tools
      <4>1. n \in Nat /\ tool \in Tools /\ (IF started THEN tool ELSE "spawn") \in Steps
        BY <1>16, ToolCall
      <4>2. call' = [step |-> IF started THEN tool ELSE "spawn", next |-> tool,
                     text |-> n, left |-> n, done |-> 0, data |-> Absent,
                     overwrite |-> FALSE, late |-> FALSE]
        BY <1>16, <2>3, ToolCall
      <4>3. QED BY <4>1, <4>2 DEF Calls
    <3>2. QED BY <2>1, <3>1
  <2>4. QED BY <2>2, <2>3
<1>17. CASE Download
  BY <1>17 DEF Download, Idle, Calls
<1>18. ASSUME NEW data \in Contents, NEW overwrite \in BOOLEAN, NEW valid \in BOOLEAN,
             Upload(data, overwrite, valid)
      PROVE  TypeInv'
  <2>1. UNCHANGED <<backend, shell, pty, files>>
    BY <1>18, UploadCall
  <2>2. call' \in Calls /\ call'.step \in {"idle", "create"}
    <3>1. CASE call' = Idle
      BY <3>1 DEF Idle, Calls
    <3>2. CASE call' # Idle
      <4>1. call' = [step |-> "create", next |-> "idle", text |-> 0, left |-> 0,
                     done |-> 0, data |-> data, overwrite |-> overwrite,
                     late |-> FALSE]
        BY <1>18, <3>2, UploadCall
      <4>2. QED BY <1>18, <4>1 DEF Calls
    <3>3. QED BY <3>1, <3>2
  <2>3. QED BY <2>1, <2>2
<1>19. CASE Close
  <2>1. call' \in Calls /\ call'.step \notin {"spawn", "greeting"}
    <3>1. CASE call' = [Idle EXCEPT !.step = "term"]
      BY <3>1 DEF Idle, Calls
    <3>2. CASE call' = [Idle EXCEPT !.step = "idle"]
      BY <3>2 DEF Idle, Calls
    <3>3. CASE Release
      BY <3>3, <1>a DEF Release
    <3>4. QED BY <1>19, <3>1, <3>2, <3>3, CloseCall
  <2>2. ptys' \in Nat /\ fd' \in BOOLEAN
    <3>1. ptys \in Nat /\ (fd => ptys - 1 \in Nat)
      BY DEF PtyInv
    <3>2. Release => ptys' \in Nat /\ fd' \in BOOLEAN
      BY <3>1 DEF Release
    <3>3. QED BY <1>19, <3>2, CloseCall
  <2>3. QED BY <1>19, <2>1, <2>2 DEF Close
<1>20. CASE Shell
  <2>1. CASE ShellReads \/ ShellWrites \/ ShellPrints \/ ShellExits
    BY <2>1 DEF ShellReads, ShellWrites, ShellPrints, ShellExits
  <2>2. CASE LocalChange
    <3>1. call' = call \/ \E b \in BOOLEAN : call' = [call EXCEPT !.late = b]
      BY <2>2 DEF LocalChange
    <3>2. call' \in Calls /\ call'.step = call.step /\ call'.next = call.next
      BY <3>1 DEF Calls
    <3>3. QED BY <2>2, <3>2 DEF LocalChange
  <2>3. QED BY <1>20, <2>1, <2>2 DEF Shell
<1>21. CASE UNCHANGED vars
  BY <1>21 DEF vars
<1>22. QED
  BY <1>1, <1>2, <1>3, <1>4, <1>5, <1>6, <1>7, <1>8, <1>9, <1>10, <1>11, <1>12, <1>13, <1>14, <1>15, <1>16, <1>17, <1>18, <1>19, <1>20, <1>21 DEF Next, Bridge, Client

(* Starting, closing and the two deadlines of close() keep PtyInv.         *)
LEMMA PtyStep ==
  ASSUME TypeInv, PtyInv, [Next]_vars
  PROVE  PtyInv'
<1> USE DEF TypeInv, PtyInv, Calls, Steps, Tools, Ends, Goes, Idle, backend, pty, files
<1>1. CASE Spawn
  BY <1>1 DEF Spawn
<1>2. CASE SpawnFails \/ SetupFails
  BY <1>2 DEF SpawnFails, SetupFails
<1>3. CASE Status
  BY <1>3 DEF Status
<1>4. CASE Capture
  BY <1>4 DEF Capture
<1>5. ASSUME NEW n \in 1 .. OutCap, DrainRead(n) \/ DrainRaises(n)
      PROVE  PtyInv'
  BY <1>5 DEF DrainRead, DrainRaises, Draining
<1>6. CASE DrainEnds
  BY <1>6, DrainStopsCases DEF DrainEnds, Draining
<1>7. CASE SendRefused \/ WriteFails \/ WriteEnds
  BY <1>7 DEF SendRefused, WriteFails, WriteEnds
<1>8. ASSUME NEW n \in 1 .. MaxText, Write(n)
      PROVE  PtyInv'
  BY <1>8, BackendAssumption DEF Write
<1>9. CASE CreateTemp
  BY <1>9 DEF CreateTemp
<1>10. CASE FillTemp
  BY <1>10 DEF FillTemp
<1>11. CASE Recheck
  BY <1>11 DEF Recheck
<1>12. CASE Replace
  BY <1>12 DEF Replace
<1>13. CASE ReplaceFails \/ Cleanup
  BY <1>13 DEF ReplaceFails, Cleanup
<1>14. CASE ShellEnded
  BY <1>14 DEF ShellEnded, Release
<1>15. CASE TermTimesOut \/ KillTimesOut
  BY <1>15 DEF TermTimesOut, KillTimesOut
<1>16. ASSUME NEW tool \in Tools, NEW n \in 0 .. MaxText, CallTool(tool, n)
      PROVE  PtyInv'
  BY <1>16, ToolCall
<1>17. CASE Download
  BY <1>17 DEF Download
<1>18. ASSUME NEW data \in Contents, NEW overwrite \in BOOLEAN, NEW valid \in BOOLEAN,
             Upload(data, overwrite, valid)
      PROVE  PtyInv'
  BY <1>18, UploadCall
<1>19. CASE Close
  BY <1>19, CloseCall DEF Close, Release
<1>20. CASE Shell
  BY <1>20 DEF Shell, ShellReads, ShellWrites, ShellPrints, ShellExits, LocalChange
<1>21. CASE UNCHANGED vars
  BY <1>21 DEF vars
<1>22. QED
  BY <1>1, <1>2, <1>3, <1>4, <1>5, <1>6, <1>7, <1>8, <1>9, <1>10, <1>11, <1>12, <1>13, <1>14, <1>15, <1>16, <1>17, <1>18, <1>19, <1>20, <1>21 DEF Next, Bridge, Client

(* The sum that _write keeps, however the PTY splits the text.             *)
LEMMA KeyStep ==
  ASSUME TypeInv, KeyInv, [Next]_vars
  PROVE  KeyInv'
<1> USE DEF TypeInv, KeyInv, Calls, Steps, Tools, Ends, Goes, Idle, backend, pty, files
<1>1. CASE Spawn
  BY <1>1 DEF Spawn
<1>2. CASE SpawnFails \/ SetupFails
  BY <1>2 DEF SpawnFails, SetupFails
<1>3. CASE Status
  BY <1>3 DEF Status
<1>4. CASE Capture
  BY <1>4 DEF Capture
<1>5. ASSUME NEW n \in 1 .. OutCap, DrainRead(n) \/ DrainRaises(n)
      PROVE  KeyInv'
  BY <1>5 DEF DrainRead, DrainRaises, Draining
<1>6. CASE DrainEnds
  BY <1>6, DrainStopsCases DEF DrainEnds, Draining
<1>7. CASE SendRefused \/ WriteFails \/ WriteEnds
  BY <1>7 DEF SendRefused, WriteFails, WriteEnds
<1>8. ASSUME NEW n \in 1 .. MaxText, Write(n)
      PROVE  KeyInv'
  BY <1>8, BackendAssumption DEF Write
<1>9. CASE CreateTemp
  BY <1>9 DEF CreateTemp
<1>10. CASE FillTemp
  BY <1>10 DEF FillTemp
<1>11. CASE Recheck
  BY <1>11 DEF Recheck
<1>12. CASE Replace
  BY <1>12 DEF Replace
<1>13. CASE ReplaceFails \/ Cleanup
  BY <1>13 DEF ReplaceFails, Cleanup
<1>14. CASE ShellEnded
  BY <1>14 DEF ShellEnded, Release
<1>15. CASE TermTimesOut \/ KillTimesOut
  BY <1>15 DEF TermTimesOut, KillTimesOut
<1>16. ASSUME NEW tool \in Tools, NEW n \in 0 .. MaxText, CallTool(tool, n)
      PROVE  KeyInv'
  BY <1>16, ToolCall
<1>17. CASE Download
  BY <1>17 DEF Download
<1>18. ASSUME NEW data \in Contents, NEW overwrite \in BOOLEAN, NEW valid \in BOOLEAN,
             Upload(data, overwrite, valid)
      PROVE  KeyInv'
  BY <1>18, UploadCall
<1>19. CASE Close
  BY <1>19, CloseCall DEF Close, Release
<1>20. CASE Shell
  BY <1>20 DEF Shell, ShellReads, ShellWrites, ShellPrints, ShellExits, LocalChange
<1>21. CASE UNCHANGED vars
  BY <1>21 DEF vars
<1>22. QED
  BY <1>1, <1>2, <1>3, <1>4, <1>5, <1>6, <1>7, <1>8, <1>9, <1>10, <1>11, <1>12, <1>13, <1>14, <1>15, <1>16, <1>17, <1>18, <1>19, <1>20, <1>21 DEF Next, Bridge, Client

(* The steps of upload_file, between which local programs work.            *)
LEMMA UploadStep ==
  ASSUME TypeInv, UploadInv, [Next]_vars
  PROVE  UploadInv'
<1> USE DEF TypeInv, UploadInv, NoTemporary, Uploading, Calls, Steps, Tools, Ends, Goes, Idle, backend, pty, files
<1>1. CASE Spawn
  BY <1>1 DEF Spawn
<1>2. CASE SpawnFails \/ SetupFails
  BY <1>2 DEF SpawnFails, SetupFails
<1>3. CASE Status
  BY <1>3 DEF Status
<1>4. CASE Capture
  BY <1>4 DEF Capture
<1>5. ASSUME NEW n \in 1 .. OutCap, DrainRead(n) \/ DrainRaises(n)
      PROVE  UploadInv'
  BY <1>5 DEF DrainRead, DrainRaises, Draining
<1>6. CASE DrainEnds
  BY <1>6, DrainStopsCases DEF DrainEnds, Draining
<1>7. CASE SendRefused \/ WriteFails \/ WriteEnds
  BY <1>7 DEF SendRefused, WriteFails, WriteEnds
<1>8. ASSUME NEW n \in 1 .. MaxText, Write(n)
      PROVE  UploadInv'
  BY <1>8, BackendAssumption DEF Write
<1>9. CASE CreateTemp
  BY <1>9 DEF CreateTemp
<1>10. CASE FillTemp
  BY <1>10 DEF FillTemp
<1>11. CASE Recheck
  BY <1>11 DEF Recheck
<1>12. CASE Replace
  BY <1>12 DEF Replace
<1>13. CASE ReplaceFails \/ Cleanup
  BY <1>13 DEF ReplaceFails, Cleanup
<1>14. CASE ShellEnded
  BY <1>14 DEF ShellEnded, Release
<1>15. CASE TermTimesOut \/ KillTimesOut
  BY <1>15 DEF TermTimesOut, KillTimesOut
<1>16. ASSUME NEW tool \in Tools, NEW n \in 0 .. MaxText, CallTool(tool, n)
      PROVE  UploadInv'
  BY <1>16, ToolCall
<1>17. CASE Download
  BY <1>17 DEF Download
<1>18. ASSUME NEW data \in Contents, NEW overwrite \in BOOLEAN, NEW valid \in BOOLEAN,
             Upload(data, overwrite, valid)
      PROVE  UploadInv'
  BY <1>18, UploadCall
<1>19. CASE Close
  BY <1>19, CloseCall DEF Close, Release
<1>20. CASE Shell
  <2>1. CASE ShellReads \/ ShellWrites \/ ShellPrints \/ ShellExits
    BY <2>1 DEF ShellReads, ShellWrites, ShellPrints, ShellExits
  <2>2. CASE LocalChange
    <3>1. CASE call' = call /\ dest' = dest /\ temp' = Absent
      BY <2>2, <3>1 DEF LocalChange
    <3>2. CASE call' = [call EXCEPT !.late = (call.step = "replace")] /\ temp' = temp
      <4>1. /\ call'.step = call.step /\ call'.data = call.data
            /\ call'.overwrite = call.overwrite
            /\ call.step = "replace" => call'.late
        BY <3>2
      <4>2. others' = others /\ refused' = refused
        BY <2>2 DEF LocalChange
      <4>3. QED BY <3>2, <4>1, <4>2
    <3>3. QED BY <2>2, <3>1, <3>2 DEF LocalChange
  <2>3. QED BY <1>20, <2>1, <2>2 DEF Shell
<1>21. CASE UNCHANGED vars
  BY <1>21 DEF vars
<1>22. QED
  BY <1>1, <1>2, <1>3, <1>4, <1>5, <1>6, <1>7, <1>8, <1>9, <1>10, <1>11, <1>12, <1>13, <1>14, <1>15, <1>16, <1>17, <1>18, <1>19, <1>20, <1>21 DEF Next, Bridge, Client
-----------------------------------------------------------------------------
(* BackendInv holds in every state.                                        *)
LEMMA BackendInvariant == Spec => []BackendInv
<1>1. Init => BackendInv
  <2>1. ASSUME Init
        PROVE  TypeInv
    BY <2>1 DEF Init, Idle, TypeInv, Calls, Steps, Tools
  <2>2. ASSUME Init
        PROVE  PtyInv /\ KeyInv /\ UploadInv
    BY <2>2 DEF Init, Idle, PtyInv, KeyInv, UploadInv, NoTemporary, Uploading
  <2>3. QED BY <2>1, <2>2 DEF BackendInv
<1>2. BackendInv /\ [Next]_vars => BackendInv'
  BY TypeStep, PtyStep, KeyStep, UploadStep DEF BackendInv
<1>3. QED BY <1>1, <1>2, PTL DEF Spec

(* Between calls one PTY is held while a shell is in use and none          *)
(* otherwise, beside those of starts that failed before the try statement, *)
(* and a closed backend has no running shell, unless the shell outlived    *)
(* both deadlines of close() (_ensure_started, close).                     *)
THEOREM NothingEverLeaks == Spec => []NothingLeaks
<1>1. BackendInv => NothingLeaks
  BY DEF BackendInv, TypeInv, PtyInv, NothingLeaks
<1>2. QED BY <1>1, BackendInvariant, PTL

(* When send_keys is about to return a receipt, the PTY took every unit of *)
(* the text, for every length and capacity (_write).                       *)
THEOREM KeysAreNeverCut == Spec => []KeysAreWhole
<1>1. BackendInv => KeysAreWhole
  BY DEF BackendInv, TypeInv, Calls, KeyInv, KeysAreWhole
<1>2. QED BY <1>1, BackendInvariant, PTL

(* A temporary file outlives its upload only if its unlink failed, one     *)
(* file for each such failure, whichever other step failed and whatever    *)
(* local programs did meanwhile (the finally clause of upload_file).       *)
THEOREM TemporaryIsRemoved == Spec => []NoTemporary
<1>1. BackendInv => NoTemporary
  BY DEF BackendInv, UploadInv
<1>2. QED BY <1>1, BackendInvariant, PTL

(* The bridge replaces a destination in one step by the whole content of   *)
(* the upload it acknowledges; without overwrite it replaces no file but   *)
(* one made between its second look and os.replace (upload_file).          *)
THEOREM ReplaceIsAlwaysAllowed == Spec => ReplaceIsAllowed
<1>1. ASSUME BackendInv, [Next]_vars, Bridge, dest' # dest
      PROVE  /\ result' = "stored" /\ dest' = call.data
             /\ call.overwrite \/ dest = Absent \/ call.late
  <2>1. Replace
    <3>1. DrainEnds => UNCHANGED files
      BY DEF DrainEnds
    <3>2. (\E n \in 1 .. OutCap : DrainRead(n) \/ DrainRaises(n)) => UNCHANGED files
      BY DEF DrainRead, DrainRaises
    <3>3. (\E n \in 1 .. MaxText : Write(n)) => UNCHANGED files
      BY DEF Write
    <3>4. QED
      BY <1>1, <3>1, <3>2, <3>3
      DEF Bridge, Spawn, SetupFails, SpawnFails, Status, Capture, SendRefused, WriteFails,
          WriteEnds, CreateTemp, FillTemp, Recheck, ReplaceFails, Cleanup,
          ShellEnded, TermTimesOut, KillTimesOut, files
  <2>2. QED BY <1>1, <2>1 DEF Replace, Ends, BackendInv, UploadInv
<1>2. BackendInv /\ [Next]_vars =>
        [Bridge /\ dest' # dest =>
           /\ result' = "stored" /\ dest' = call.data
           /\ call.overwrite \/ dest = Absent \/ call.late]_vars
  BY <1>1
<1>3. QED BY <1>2, BackendInvariant, PTL DEF Spec, ReplaceIsAllowed
=============================================================================
