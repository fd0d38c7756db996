--------------------------- MODULE SimulatorAgent ---------------------------
(***************************************************************************)
(* The second implementation of the agent side: UdpAgentServer in          *)
(* agent_server.py, which serves one bridge from any backend.  It keeps    *)
(* the answers of the last requests, collects the fragments of several     *)
(* requests at a time, and holds one transfer.                             *)
(*                                                                         *)
(* The bridge makes one call after the other.  It may give up on a call at *)
(* any time; every datagram it sent may be lost, or arrive again and late, *)
(* but no more than Lateness calls late.  How answers travel back is the   *)
(* subject of AgentSession: here an answer reaches the call or is lost.    *)
(* Checksums are ideal: equal CRCs mean equal blocks.                      *)
(***************************************************************************)
EXTENDS RequestIds, Sequences, SequencesExt, FiniteSets

CONSTANTS
  Contents,      \* sequences of blocks, what uploads carry
  Absent,        \* the destination does not exist
  None,
  TransferIds,   \* values of secrets.randbelow(0xFFFF) or 1
  KeyFragments,  \* fragments of a SEND_KEYS request; other requests have one
  CacheSize,     \* answers kept, 4 in the code
  PendingSize,   \* partial requests kept, 4 in the code
  Lateness,      \* bound on the lateness of a datagram, in calls
  StartId,       \* the first id the bridge draws
  MaxCalls, MaxSessions,
  LaterCalls     \* bound on the calls of a session after the first

ASSUME SimulatorAssumption ==
  /\ CacheSize \in Nat \ {0} /\ PendingSize \in Nat \ {0} /\ KeyFragments \in Nat \ {0}
  /\ Lateness \in Nat /\ MaxCalls \in Nat /\ MaxSessions \in Nat /\ LaterCalls \in Nat
  /\ StartId \in RequestId \ {0}

Block == UNION {ToSet(c) : c \in Contents}
Id == TransferIds \cup {None}

Kinds == {"read", "graphics", "write"}   \* of a transfer

\* Requests: the fields that dispatch looks at.
Request ==
  [op : {"keys"}, tid : {None}, kind : {None}, data : {None}]
    \cup [op : {"begin"}, tid : {None}, kind : {"read", "graphics"}, data : {None}]
    \cup [op : {"begin"}, tid : {None}, kind : {"write"}, data : Contents]
    \cup [op : {"block"}, tid : Id, kind : Kinds,
          data : [at : Nat, block : Block \cup {None}]]
    \cup [op : {"finish", "abort"}, tid : Id, kind : Kinds, data : {None}]

\* size: what the answer to a begin announces.
Reply == [ok : BOOLEAN, tid : Id, size : Nat]

\* The transfer that the bridge drives, and the one that the agent holds.
Known == [tid : Id, kind : Kinds, data : Contents \cup {None}, at : Nat,
          failed : BOOLEAN, size : Nat]
Transfer == [tid : TransferIds, kind : Kinds, data : Seq(Block \cup {None}),
             at : Nat, expected : Contents \cup {None}]

ASSUME ValuesAssumption ==
  /\ Contents \subseteq Seq(Block)
  /\ None \notin RequestId
  /\ None \notin Request /\ None \notin Reply /\ None \notin Known /\ None \notin Transfer

VARIABLES
  \* the bridge
  joined,    \* its session
  calls,     \* calls made in this session
  request,   \* the call in progress
  lastId,    \* its request id
  known,     \* the transfer it drives
  gaveUp,    \* it gave up on a call of this session
  \* the network
  sent,      \* datagrams
  reply,     \* the answer sent for the call in progress
  \* the agent
  session, last, cache, pending, transfer,
  \* the backend
  dest,
  \* history
  runs,      \* how often each call was dispatched
  arrived,   \* fragments of the call in progress that reached the agent
  stray      \* a failed graphics begin left its transfer open in this session

bridge == <<joined, calls, request, lastId, known, gaveUp, sent>>
replay == <<last, cache>>
vars == <<joined, calls, request, lastId, known, gaveUp, sent, reply,
          session, last, cache, pending, transfer, dest, runs, arrived, stray>>

Req(op, tid, kind, data) == [op |-> op, tid |-> tid, kind |-> kind, data |-> data]
Fragments(req) == 1 .. (IF req.op = "keys" THEN KeyFragments ELSE 1)

Begun(tid, size) == [ok |-> TRUE, tid |-> tid, size |-> size]
Ok(tid) == Begun(tid, 0)
Error == [ok |-> FALSE, tid |-> None, size |-> 0]

-----------------------------------------------------------------------------
(* The bridge.                                                             *)

Init ==
  /\ joined = 1 /\ calls = 0 /\ request = None /\ lastId = StartId
  /\ known = None /\ gaveUp = FALSE
  /\ sent = {} /\ reply = None
  /\ session = 1 /\ last = None /\ cache = <<>> /\ pending = <<>>
  /\ transfer = None /\ dest = Absent
  /\ runs = [n \in 1 .. MaxCalls |-> 0] /\ arrived = {} /\ stray = FALSE

Requests ==
  IF known = None
  THEN {Req("keys", None, None, None), Req("begin", None, "read", None),
        Req("begin", None, "graphics", None)}
         \cup {Req("begin", None, "write", c) : c \in Contents}
  ELSE {Req("abort", known.tid, known.kind, None)} \cup
       (IF known.failed THEN {}
        ELSE IF known.at < known.size
        THEN {Req("block", known.tid, known.kind,
                  [at |-> known.at, block |-> IF known.kind = "write"
                                              THEN known.data[known.at + 1] ELSE None])}
        ELSE {Req("finish", known.tid, known.kind, None)})

StartCall(req) ==
  /\ request = None /\ req \in Requests
  /\ calls < MaxCalls /\ (joined > 1 => calls < LaterCalls)
  /\ calls' = calls + 1
  /\ lastId' = NextRequestId(lastId)
  /\ request' = req
  /\ sent' = {m \in sent : m.call + Lateness >= calls + 1} \cup
             {[session |-> joined, call |-> calls + 1, id |-> lastId', index |-> i, req |-> req]
                : i \in Fragments(req)}
  /\ reply' = None /\ arrived' = {}
  /\ UNCHANGED <<joined, known, gaveUp, session, replay, pending, transfer, dest, runs,
                 stray>>

\* What the bridge knows of its transfer after a call with that answer.
After(answer) ==
  IF request.op = "begin" /\ answer.ok
  THEN [tid |-> answer.tid, kind |-> request.kind, data |-> request.data,
        at |-> 0, failed |-> FALSE,
        size |-> IF request.kind = "write" THEN Len(request.data) ELSE answer.size]
  ELSE IF request.op = "block" /\ answer.ok THEN [known EXCEPT !.at = @ + 1]
  ELSE IF request.op \in {"block", "finish"} /\ ~answer.ok THEN [known EXCEPT !.failed = TRUE]
  ELSE None

Answered ==
  /\ request # None /\ reply # None
  /\ known' = After(reply)
  /\ request' = None /\ reply' = None
  /\ UNCHANGED <<joined, calls, lastId, gaveUp, sent, session, replay, pending,
                 transfer, dest, runs, arrived, stray>>

\* GraphicsBeginResponse.decode refuses the metadata, outside of the block that
\* aborts a transfer.
RefuseMetadata ==
  /\ request # None /\ reply # None
  /\ request.op = "begin" /\ request.kind = "graphics" /\ reply.ok
  /\ known' = None /\ request' = None /\ reply' = None /\ stray' = TRUE
  /\ UNCHANGED <<joined, calls, lastId, gaveUp, sent, session, replay, pending,
                 transfer, dest, runs, arrived>>

GiveUp ==
  /\ request # None
  /\ known' = After(Error)
  /\ request' = None /\ reply' = None /\ gaveUp' = TRUE
  /\ UNCHANGED <<joined, calls, lastId, sent, session, replay, pending,
                 transfer, dest, runs, arrived, stray>>

-----------------------------------------------------------------------------
(* Sessions.  Each HELLO makes one, without answers, fragments or transfer.*)

\* Mutant: the transfer of the old session stays.
HelloKeeping ==
  /\ session' = session + 1
  /\ last' = None /\ cache' = <<>> /\ pending' = <<>>
  /\ UNCHANGED <<transfer, dest>>

Hello ==
  /\ session' = session + 1
  /\ last' = None /\ cache' = <<>> /\ pending' = <<>>
  /\ transfer' = None
  /\ UNCHANGED dest

\* A new bridge.
Connect ==
  /\ request = None /\ session < MaxSessions
  /\ Hello
  /\ joined' = session + 1
  /\ calls' = 0 /\ lastId' = StartId /\ known' = None /\ gaveUp' = FALSE
  /\ sent' = {} /\ reply' = None /\ arrived' = {} /\ stray' = FALSE
  /\ runs' = [n \in 1 .. MaxCalls |-> 0]
  /\ UNCHANGED request

\* A copy of the bridge's HELLO: it is not in the session the agent is in.
CopyOfHello ==
  /\ session < MaxSessions
  /\ Hello
  /\ UNCHANGED <<bridge, reply, runs, arrived, stray>>

-----------------------------------------------------------------------------
(* Transfers: the set of what dispatch may do, as answer, transfer and     *)
(* destination afterwards.                                                 *)

Then(answer, t, d) == [answer |-> answer, transfer |-> t, dest |-> d]
Refused == {Then(Error, transfer, dest)}

StartTransfer(kind, data, expected, size) ==
  IF transfer # None THEN Refused
  ELSE {Then(Begun(i, size), [tid |-> i, kind |-> kind, data |-> data, at |-> 0,
                                   expected |-> expected], dest) : i \in TransferIds}

\* The backend is asked for the file before the transfer is.
FileReadBegin == IF dest = Absent THEN Refused ELSE StartTransfer("read", dest, None, Len(dest))

\* The screen is captured before the transfer starts, which may raise.  The answer
\* is built afterwards: when that raises, the transfer stays open.
GraphicsBegin ==
  LET Started(c) == StartTransfer("graphics", c, None, Len(c)) IN
  Refused \cup UNION {Started(c) \cup {Then(Error, d.transfer, dest) : d \in Started(c)}
                     : c \in Contents}

Begin(req) ==
  IF req.kind = "read" THEN FileReadBegin
  ELSE IF req.kind = "graphics" THEN GraphicsBegin
  ELSE StartTransfer("write", <<>>, req.data, Len(req.data))

RequireTransfer(req) ==
  transfer # None /\ transfer.tid = req.tid /\ transfer.kind = req.kind

ReadBlock(req) ==
  IF transfer.at # req.data.at THEN Refused
  ELSE {Then(Ok(req.tid), [transfer EXCEPT !.at = @ + 1], dest)}

WriteBlock(req) ==
  IF transfer.at # req.data.at \/ transfer.at + 1 > Len(transfer.expected) THEN Refused
  ELSE {Then(Ok(req.tid), [transfer EXCEPT !.at = @ + 1, !.data = Append(@, req.data.block)], dest)}

EndRead == IF transfer.at # Len(transfer.data) THEN Refused
           ELSE {Then(Ok(transfer.tid), None, dest)}

\* Mutant: an upload the backend refuses is acknowledged.
CommitClaiming ==
  IF transfer.data # transfer.expected THEN Refused
  ELSE {Then(Ok(transfer.tid), None, d) : d \in {dest, transfer.data}}

\* backend.upload_file may raise; the transfer stays open then.
Commit ==
  IF transfer.data # transfer.expected THEN Refused
  ELSE Refused \cup {Then(Ok(transfer.tid), None, transfer.data)}

Abort(req) ==
  {Then(Ok(None), IF transfer # None /\ transfer.tid = req.tid THEN None ELSE transfer, dest)}

Dispatch(req) ==
  IF req.op = "keys" THEN {Then(Ok(None), transfer, dest)} \cup Refused
  ELSE IF req.op = "begin" THEN Begin(req)
  ELSE IF req.op = "abort" THEN Abort(req)
  ELSE IF ~RequireTransfer(req) THEN Refused
  ELSE IF req.op = "block" THEN (IF req.kind = "write" THEN WriteBlock(req) ELSE ReadBlock(req))
  ELSE IF req.kind = "write" THEN Commit ELSE EndRead

-----------------------------------------------------------------------------
(* handle_datagram.                                                        *)

Cached(m) == \E i \in DOMAIN cache : cache[i].id = m.id
IsNewer(m) == IF last = None THEN TRUE ELSE RequestIsNewer(m.id, last)

\* The oldest partial request makes room for a new one.
Waiting(m) ==
  IF \E i \in DOMAIN pending : pending[i].id = m.id THEN pending
  ELSE Append(IF Len(pending) >= PendingSize THEN Tail(pending) ELSE pending,
              [id |-> m.id, got |-> {}])

\* Mutant: the newest partial request makes room.
CollectedNewest(m) ==
  LET room == IF Len(pending) >= 2 THEN SubSeq(pending, 1, 1) ELSE pending
      all == IF \E i \in DOMAIN pending : pending[i].id = m.id THEN pending
             ELSE Append(room, [id |-> m.id, got |-> {}])
  IN [i \in DOMAIN all |-> IF all[i].id = m.id
                           THEN [all[i] EXCEPT !.got = @ \cup {m.index}] ELSE all[i]]

Collected(m) ==
  LET all == Waiting(m) IN
  [i \in DOMAIN all |-> IF all[i].id = m.id THEN [all[i] EXCEPT !.got = @ \cup {m.index}]
                         ELSE all[i]]

Whole(m) ==
  LET all == Collected(m) IN
  \E i \in DOMAIN all : all[i].id = m.id /\ all[i].got = Fragments(m.req)

Answer(m, answer) == reply' = IF m.call = calls /\ request # None THEN answer ELSE reply
Arrives(m) == arrived' = IF m.call = calls THEN arrived \cup {m.index} ELSE arrived

\* Mutant: the answers of two requests are kept.
SendResponseShort(m, answer) ==
  LET all == Append(cache, [id |-> m.id, answer |-> answer]) IN
  /\ last' = m.id
  /\ cache' = IF Len(all) > 2 THEN Tail(all) ELSE all
  /\ Answer(m, answer)

\* Also for an error: the answer is kept, and its id becomes the last one.
SendResponse(m, answer) ==
  LET all == Append(cache, [id |-> m.id, answer |-> answer]) IN
  /\ last' = m.id
  /\ cache' = IF Len(all) > CacheSize THEN Tail(all) ELSE all
  /\ Answer(m, answer)

Resend(m) ==
  /\ Cached(m)
  /\ Answer(m, cache[CHOOSE i \in DOMAIN cache : cache[i].id = m.id].answer)
  /\ UNCHANGED <<bridge, session, replay, pending, transfer, dest, runs, stray>>

RejectReplay(m) ==
  /\ ~Cached(m) /\ ~IsNewer(m)
  /\ SendResponse(m, Error)
  /\ UNCHANGED <<bridge, session, pending, transfer, dest, runs, stray>>

Collect(m) ==
  /\ ~Cached(m) /\ IsNewer(m) /\ ~Whole(m)
  /\ pending' = Collected(m)
  /\ UNCHANGED <<bridge, reply, session, replay, transfer, dest, runs, stray>>

Run(m) ==
  /\ ~Cached(m) /\ IsNewer(m) /\ Whole(m)
  /\ LET all == Waiting(m) IN
       \E i \in DOMAIN all : all[i].id = m.id /\ pending' = RemoveAt(all, i)
  /\ \E d \in Dispatch(m.req) :
       /\ transfer' = d.transfer /\ dest' = d.dest
       /\ SendResponse(m, d.answer)
       /\ stray' = (stray \/ (~d.answer.ok /\ d.transfer # transfer))
  /\ runs' = [runs EXCEPT ![m.call] = @ + 1]
  /\ UNCHANGED <<bridge, session>>

HandleDatagram(m) ==
  /\ m.session = session
  /\ Arrives(m)
  /\ Resend(m) \/ RejectReplay(m) \/ Collect(m) \/ Run(m)

Next ==
  \/ \E req \in Requests : StartCall(req)
  \/ Answered \/ RefuseMetadata \/ GiveUp \/ Connect \/ CopyOfHello
  \/ \E m \in sent : HandleDatagram(m)

Spec == Init /\ [][Next]_vars

-----------------------------------------------------------------------------
(* Every variable has its type; the destination has a whole upload or none *)
(* (_commit_write_transfer).                                               *)
TypeOK ==
  /\ joined \in Nat /\ session \in Nat /\ calls \in 0 .. MaxCalls /\ lastId \in RequestId
  /\ gaveUp \in BOOLEAN /\ stray \in BOOLEAN
  /\ request \in Request \cup {None} /\ known \in Known \cup {None}
  /\ sent \subseteq [session : Nat, call : 1 .. MaxCalls, id : RequestId,
                     index : 1 .. KeyFragments, req : Request]
  /\ reply \in Reply \cup {None}
  /\ last \in RequestId \cup {None}
  /\ cache \in Seq([id : RequestId, answer : Reply])
  /\ pending \in Seq([id : RequestId, got : SUBSET (1 .. KeyFragments)])
  /\ transfer \in Transfer \cup {None} /\ dest \in Contents \cup {Absent}
  /\ runs \in [1 .. MaxCalls -> Nat] /\ arrived \subseteq 1 .. KeyFragments

(* No request is carried out twice while datagrams are at most two calls   *)
(* late: an answer stays in the cache that long, although the errors for   *)
(* old ids take places in it and move last_request_id backwards            *)
(* (handle_datagram, _send_response).                                      *)
RunsOnce == \A n \in 1 .. MaxCalls : runs[n] <= 1

(* A call all of whose fragments reached the agent has been carried out:   *)
(* it is not refused as a replay, and the fragments of abandoned requests  *)
(* do not push its own out of the four places (handle_datagram).           *)
WholeIsRun ==
  request # None /\ joined = session /\ arrived = Fragments(request) => runs[calls] = 1

(* When the commit of an upload is acknowledged, the destination has the   *)
(* content that the bridge announced and sent block by block, whatever     *)
(* blocks of abandoned transfers arrived meanwhile (_commit_write_transfer,*)
(* _write_transfer_block).                                                 *)
CommitIsStored ==
  request # None /\ request.op = "finish" /\ request.kind = "write"
    /\ reply # None /\ joined = session
  => (reply.ok => dest = known.data)

(* The one transfer is free between the operations of a bridge that never  *)
(* gave up on a call: refused begins, failed commits, ended and aborted    *)
(* transfers and earlier sessions leave none behind (_start_transfer,      *)
(* _dispatch, _handle_hello).  The exception is a graphics begin that      *)
(* fails once its transfer has started, in the agent or in the bridge: no  *)
(* one aborts it, and it stays until the next HELLO.                       *)
TransferIsFree ==
  request = None /\ known = None /\ joined = session /\ ~gaveUp => transfer = None \/ stray

=============================================================================
