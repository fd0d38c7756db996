--------------------------- MODULE AgentSession ---------------------------
(***************************************************************************)
(* The authenticated request/response session between the bridge's         *)
(* UdpBackend (src/dos_mcp/backends/udp.py) and the DOS agent              *)
(* (dos/agent/ragent.c): the HELLO handshake, retransmission after a       *)
(* timeout, fragmentation and reassembly in both directions, the one-entry *)
(* response cache and the replay check of the agent, idle expiry, and a    *)
(* bridge that is restarted.  The network in between loses datagrams and,  *)
(* unless Ordered, delivers them in any order.                             *)
(*                                                                         *)
(* Every id the bridge draws gets a ticket, a number that never repeats;   *)
(* tickets, the run log and the exec field of responses are history, which *)
(* no step of either side reads to decide what to do -- except the HELLO,  *)
(* where the ticket stands for the random client nonce.                    *)
(***************************************************************************)
EXTENDS RequestIds, Sequences, SequencesExt, FiniteSets

CONSTANTS
  StartIds,    \* first request ids a new UdpBackend may pick at random
  Ops,         \* operations the callers use, a subset of Operation
  KeyFrags,    \* request fragments of a long SEND_KEYS
  TextFrags,   \* response fragments of CAPTURE_TEXT_SCREEN
  Retries,     \* UdpBackend retries: Retries + 1 attempts per exchange
  ChanCap,     \* datagrams in flight per direction; a burst beyond is lost
  MaxTickets,  \* bound on the ids drawn in a behaviour
  MaxClients,  \* bound on the UdpBackend objects that serve the target
  Ordered,     \* whether the network keeps the order of datagrams
  IdleExpiry   \* whether the agent expires idle sessions (RA-TSR only)

\* "file" stands for the operations the foreground agent does not implement.
Operation == {"keys", "text", "file"}

ASSUME SessionAssumption ==
  /\ StartIds \subseteq 1 .. IdModulus - 2
  /\ Ops \subseteq Operation
  /\ KeyFrags \in Nat \ {0}
  /\ TextFrags \in Nat \ {0}
  /\ Retries \in Nat
  /\ ChanCap \in Nat
  /\ MaxTickets \in Nat /\ MaxTickets < IdModulus - 1
  /\ MaxClients \in Nat \ {0}
  /\ Ordered \in BOOLEAN
  /\ IdleExpiry \in BOOLEAN

VARIABLES
  \* the bridge: UdpBackend
  client,      \* which UdpBackend object is alive; its socket is the peer
  phase,       \* "idle", or inside _exchange for the "hello" or the "call"
  requestId,   \* _request_id
  sessionId,   \* _session_id and _session_key; 0 is the key None
  attempt,     \* the pass of the retry loop, 0 .. Retries
  op,          \* the operation _request was called with
  received,    \* response fragments collected by _exchange_with_packet
  result,      \* status of the latest call, and the runs its answer shows
  \* the agent: ragent.c
  session,     \* the agent_session structure
  rq,          \* request_id, request_fragment_count, _opcode, _mask, _buffer
  \* the network
  c2s, s2c,
  \* history
  drawn,       \* ids drawn so far: the latest ticket
  issued,      \* ticket of the latest call that was sent
  sessions,    \* sessions created so far
  runs         \* what process_request carried out, in order

clientVars  == <<client, phase, requestId, sessionId, attempt, op, received, result>>
serverVars  == <<session, rq>>
historyVars == <<drawn, issued, sessions, runs>>
vars == <<client, phase, requestId, sessionId, attempt, op, received, result,
          session, rq, c2s, s2c, drawn, issued, sessions, runs>>

Ticket  == 1 .. MaxTickets
Frag    == 1 .. (IF KeyFrags > TextFrags THEN KeyFrags ELSE TextFrags)

ReqCount(o)  == IF o = "keys" THEN KeyFrags ELSE 1
RespCount(o) == IF o = "text" THEN TextFrags ELSE 1

----------------------------------------------------------------------------
(* The network.  A burst that does not fit is lost; so may any datagram be *)
(* at any time.                                                            *)

Transmit(channel, burst) ==
  IF Len(channel) + Len(burst) <= ChanCap THEN channel \o burst ELSE channel

\* The positions a receiver may take a datagram from.
Arriving(channel) ==
  IF Ordered THEN {i \in DOMAIN channel : i = 1} ELSE DOMAIN channel

----------------------------------------------------------------------------
(* Datagrams.                                                              *)

\* The single packet of _handshake.
HelloRequest(peer, id, ticket) ==
  << [op |-> "hello", peer |-> peer, sess |-> 0, id |-> id,
      frag |-> 1, count |-> 1, ticket |-> ticket] >>

\* fragment_message: the same header with fragment indices 1 .. count.
RequestFragments(o, peer, sess, id, ticket) ==
  [f \in 1 .. ReqCount(o) |->
     [op |-> o, peer |-> peer, sess |-> sess, id |-> id,
      frag |-> f, count |-> ReqCount(o), ticket |-> ticket]]

\* What the agent sends back for request m: count fragments of one kind.
ResponseFragments(kind, m, sess, count, run) ==
  [f \in 1 .. count |->
     [kind |-> kind, op |-> m.op, peer |-> m.peer, sess |-> sess, id |-> m.id,
      frag |-> f, count |-> count, ticket |-> m.ticket, run |-> run]]

----------------------------------------------------------------------------
(* The bridge.                                                             *)

NoResult == [status |-> "none", shows |-> {}]

\* What the current exchange sends on every attempt.
Outgoing ==
  IF phase = "hello" THEN HelloRequest(client, requestId, drawn)
  ELSE RequestFragments(op, client, sessionId, requestId, drawn)

Finish(status, shows) ==
  /\ phase' = "idle"
  /\ attempt' = 0
  /\ op' = "none"
  /\ received' = {}
  /\ result' = IF phase = "call" THEN [status |-> status, shows |-> shows] ELSE result

\* _request under the lock: without a session key it first runs _handshake,
\* otherwise it draws an id and sends the fragments of the request.
StartCall(o) ==
  /\ phase = "idle"
  /\ drawn + 2 <= MaxTickets
  /\ op' = o
  /\ requestId' = NextRequestId(requestId)
  /\ drawn' = drawn + 1
  /\ attempt' = 0
  /\ received' = {}
  /\ IF sessionId = 0
     THEN /\ phase' = "hello"
          /\ issued' = issued
          /\ c2s' = Transmit(c2s, HelloRequest(client, requestId', drawn'))
     ELSE /\ phase' = "call"
          /\ issued' = drawn'
          /\ c2s' = Transmit(c2s, RequestFragments(o, client, sessionId, requestId', drawn'))
  /\ UNCHANGED <<client, sessionId, result, session, rq, s2c, sessions, runs>>

\* Mutant: the retry loop forgets which pass it is in.
TimeoutUncounted ==
  /\ phase # "idle"
  /\ IF attempt < Retries
     THEN /\ attempt' = attempt
          /\ c2s' = Transmit(c2s, Outgoing)
          /\ UNCHANGED <<phase, op, received, result>>
     ELSE /\ Finish("timeout", {})
          /\ UNCHANGED c2s
  /\ UNCHANGED <<client, requestId, sessionId, session, rq, s2c, historyVars>>

\* The deadline of one attempt passes: send everything again, or give up.
Timeout ==
  /\ phase # "idle"
  /\ IF attempt < Retries
     THEN /\ attempt' = attempt + 1
          /\ c2s' = Transmit(c2s, Outgoing)
          /\ UNCHANGED <<phase, op, received, result>>
     ELSE /\ Finish("timeout", {})
          /\ UNCHANGED c2s
  /\ UNCHANGED <<client, requestId, sessionId, session, rq, s2c, historyVars>>

\* Mutant: the request id of a response is not compared.
MatchesAnyId(m) ==
  /\ m.peer = client
  /\ IF phase = "hello" THEN m.op = "hello" ELSE m.op = op /\ m.sess = sessionId

\* The filter of _exchange_with_packet: a datagram for this socket, under the
\* key of this exchange, that answers the request in progress.  The base key of
\* a HELLO is shared by all sessions.
Matches(m) ==
  /\ m.peer = client
  /\ m.id = requestId
  /\ IF phase = "hello" THEN m.op = "hello" ELSE m.op = op /\ m.sess = sessionId

Ignore(i) ==
  /\ phase # "idle"
  /\ ~ Matches(s2c[i])
  /\ s2c' = RemoveAt(s2c, i)
  /\ UNCHANGED <<clientVars, serverVars, c2s, historyVars>>

\* The rest of _handshake and of the _request that called it: check the echoed
\* nonce, adopt the session, draw the id of the request and send it.
AcceptHello(i) ==
  /\ phase = "hello"
  /\ Matches(s2c[i])
  /\ s2c' = RemoveAt(s2c, i)
  /\ IF s2c[i].ticket # drawn
     THEN /\ Finish("error", {})
          /\ UNCHANGED <<requestId, sessionId, drawn, issued, c2s>>
     ELSE /\ sessionId' = s2c[i].sess
          /\ requestId' = NextRequestId(requestId)
          /\ drawn' = drawn + 1
          /\ issued' = drawn'
          /\ phase' = "call"
          /\ attempt' = 0
          /\ received' = {}
          /\ c2s' = Transmit(c2s, RequestFragments(op, client, sessionId', requestId', drawn'))
          /\ UNCHANGED <<op, result>>
  /\ UNCHANGED <<client, session, rq, sessions, runs>>

\* An ERROR packet ends the exchange with AgentOperationError.
AcceptError(i) ==
  /\ phase = "call"
  /\ Matches(s2c[i])
  /\ s2c[i].kind # "response"
  /\ s2c' = RemoveAt(s2c, i)
  /\ Finish(s2c[i].kind, {})
  /\ UNCHANGED <<client, requestId, sessionId, session, rq, c2s, historyVars>>

\* reassemble_packets: consistent counts, and every index present.
Reassembles(fragments, count) ==
  /\ \A r \in fragments : r.count = count
  /\ {r.frag : r \in fragments} = 1 .. count

\* A response fragment replaces the one of the same index; when as many are there
\* as the last one announces, reassemble_packets joins them, or refuses fragments
\* that disagree.
AcceptFragment(i) ==
  LET m == s2c[i]
      have == {r \in received : r.frag # m.frag} \cup {m}
  IN
  /\ phase = "call"
  /\ Matches(m)
  /\ m.kind = "response"
  /\ s2c' = RemoveAt(s2c, i)
  /\ IF Cardinality(have) = m.count
     THEN Finish(IF Reassembles(have, m.count) THEN "ok" ELSE "error",
                 {r.run : r \in have})
     ELSE /\ received' = have
          /\ UNCHANGED <<phase, attempt, op, result>>
  /\ UNCHANGED <<client, requestId, sessionId, session, rq, c2s, historyVars>>

\* The bridge process dies or the registry closes the backend, and a new
\* UdpBackend is made: new socket, no session, a random request id.
RestartClient(id) ==
  /\ client < MaxClients
  /\ client' = client + 1
  /\ requestId' = id
  /\ sessionId' = 0
  /\ s2c' = << >>
  /\ Finish("crash", {})
  /\ UNCHANGED <<session, rq, c2s, historyVars>>

----------------------------------------------------------------------------
(* The agent.                                                              *)

NoSession ==
  [active |-> FALSE, id |-> 0, peer |-> 0, hasLast |-> FALSE, lastId |-> 0,
   cache |-> << >>]

NoRequest ==
  [id |-> 0, count |-> 0, op |-> "none", parts |-> [f \in Frag |-> 0]]

\* process_hello: every HELLO, a retransmitted one too, makes a new session.
\* The reassembly state is left as it is.
ProcessHello(i) ==
  LET m == c2s[i] IN
  /\ m.op = "hello"
  /\ c2s' = RemoveAt(c2s, i)
  /\ sessions' = sessions + 1
  /\ session' = [session EXCEPT !.active = TRUE, !.id = sessions', !.peer = m.peer,
                                !.hasLast = FALSE, !.cache = << >>]
  /\ s2c' = Transmit(s2c, ResponseFragments("response", m, sessions', 1, 0))
  /\ UNCHANGED <<clientVars, rq, drawn, issued, runs>>

\* The packet authenticates under the session key and comes from the peer the
\* session is bound to.
InSession(m) ==
  /\ m.op # "hello"
  /\ session.active
  /\ m.sess = session.id
  /\ m.peer = session.peer

\* Mutant: duplicates are not recognised, only newer ids are let through.
IsLastNever(m) == FALSE

IsLast(m) == session.hasLast /\ m.id = session.lastId

IsFresh(m) == ~ session.hasLast \/ RequestIsNewer(m.id, session.lastId)

\* Mutant: request_fragment_mask is not cleared for a new id.
StartedKeepingMask(m) ==
  IF m.id = rq.id THEN rq
  ELSE [id |-> m.id, count |-> m.count, op |-> m.op, parts |-> rq.parts]

\* The reassembly state after the packet's own checks: a new request id resets
\* it, and a fragment of another shape is refused.
Started(m) ==
  IF m.id = rq.id THEN rq
  ELSE [id |-> m.id, count |-> m.count, op |-> m.op, parts |-> [f \in Frag |-> 0]]

Fits(m) == Started(m).count = m.count /\ Started(m).op = m.op

Stored(m) == [Started(m) EXCEPT !.parts[m.frag] = m.ticket]

Complete(request) == \A f \in 1 .. request.count : request.parts[f] # 0

\* Mutant: the answer is sent and cached, last_request_id is left alone.
SendResponseForgetting(m, burst) ==
  /\ session' = [session EXCEPT !.cache = burst]
  /\ s2c' = Transmit(s2c, burst)

\* send_response: fill the cache, move last_request_id, send everything.
SendResponse(m, burst) ==
  /\ session' = [session EXCEPT !.hasLast = TRUE, !.lastId = m.id, !.cache = burst]
  /\ s2c' = Transmit(s2c, burst)

SendError(m, kind) ==
  SendResponse(m, ResponseFragments(kind, m, session.id, 1, 0))

\* process_datagram returns without an answer.  (A fragment that does not fit
\* carries the id being reassembled, so nothing was reset either.)
Drop(i) ==
  LET m == c2s[i] IN
  /\ m.op # "hello"
  /\ \/ ~ InSession(m)
     \/ ~ IsLast(m) /\ IsFresh(m) /\ ~ Fits(m)
  /\ c2s' = RemoveAt(c2s, i)
  /\ UNCHANGED <<clientVars, serverVars, s2c, historyVars>>

\* The duplicate of the last answered request: resend_cached.
ResendCached(i) ==
  LET m == c2s[i] IN
  /\ InSession(m)
  /\ IsLast(m)
  /\ c2s' = RemoveAt(c2s, i)
  /\ s2c' = Transmit(s2c, session.cache)
  /\ UNCHANGED <<clientVars, serverVars, historyVars>>

\* A request id that is not newer than the last one: send_error(4), which goes
\* through send_response like every other answer.
RejectReplay(i) ==
  LET m == c2s[i] IN
  /\ InSession(m)
  /\ ~ IsLast(m)
  /\ ~ IsFresh(m)
  /\ c2s' = RemoveAt(c2s, i)
  /\ SendError(m, "replayed")
  /\ UNCHANGED <<clientVars, rq, historyVars>>

\* A fragment of a fresh request that is not complete yet.
StoreFragment(i) ==
  LET m == c2s[i] IN
  /\ InSession(m)
  /\ ~ IsLast(m)
  /\ IsFresh(m)
  /\ Fits(m)
  /\ ~ Complete(Stored(m))
  /\ c2s' = RemoveAt(c2s, i)
  /\ rq' = Stored(m)
  /\ UNCHANGED <<clientVars, session, s2c, historyVars>>

\* The last missing fragment: process_request.  The operations the agent does
\* not know are refused; the others are carried out on the reassembled buffer.
ProcessRequest(i) ==
  LET m == c2s[i] IN
  /\ InSession(m)
  /\ ~ IsLast(m)
  /\ IsFresh(m)
  /\ Fits(m)
  /\ Complete(Stored(m))
  /\ c2s' = RemoveAt(c2s, i)
  /\ rq' = Stored(m)
  /\ IF m.op = "file"
     THEN /\ SendError(m, "unsupported")
          /\ UNCHANGED runs
     ELSE /\ runs' = Append(runs, [ticket |-> m.ticket,
                                   parts |-> {rq'.parts[f] : f \in 1 .. rq'.count}])
          /\ SendResponse(m, ResponseFragments("response", m, session.id,
                                               RespCount(m.op), Len(runs')))
  /\ UNCHANGED <<clientVars, drawn, issued, sessions>>

\* ratsr_idle_worker after SESSION_IDLE_TICKS without a valid request.
ExpireSession ==
  /\ IdleExpiry
  /\ session.active
  /\ session' = [session EXCEPT !.active = FALSE, !.hasLast = FALSE]
  /\ UNCHANGED <<clientVars, rq, c2s, s2c, historyVars>>

----------------------------------------------------------------------------
LoseRequest(i) ==
  /\ c2s' = RemoveAt(c2s, i)
  /\ UNCHANGED <<clientVars, serverVars, s2c, historyVars>>

LoseResponse(i) ==
  /\ s2c' = RemoveAt(s2c, i)
  /\ UNCHANGED <<clientVars, serverVars, c2s, historyVars>>

Init ==
  /\ client = 1
  /\ phase = "idle"
  /\ requestId \in StartIds
  /\ sessionId = 0
  /\ attempt = 0
  /\ op = "none"
  /\ received = {}
  /\ result = NoResult
  /\ session = NoSession
  /\ rq = NoRequest
  /\ c2s = << >>
  /\ s2c = << >>
  /\ drawn = 0
  /\ issued = 0
  /\ sessions = 0
  /\ runs = << >>

ClientReceives(i) ==
  Ignore(i) \/ AcceptHello(i) \/ AcceptError(i) \/ AcceptFragment(i)

AgentReceives(i) ==
  \/ ProcessHello(i)
  \/ Drop(i)
  \/ ResendCached(i)
  \/ RejectReplay(i)
  \/ StoreFragment(i)
  \/ ProcessRequest(i)

Next ==
  \/ \E o \in Ops : StartCall(o)
  \/ Timeout
  \/ \E i \in Arriving(s2c) : ClientReceives(i)
  \/ \E id \in StartIds : RestartClient(id)
  \/ \E i \in Arriving(c2s) : AgentReceives(i)
  \/ ExpireSession
  \/ \E i \in DOMAIN c2s : LoseRequest(i)
  \/ \E i \in DOMAIN s2c : LoseResponse(i)

Spec == Init /\ [][Next]_vars

(* Deadlines pass and both sides read what has arrived; whether callers    *)
(* call, the network delivers or the bridge restarts is not assumed.       *)
Fairness ==
  /\ WF_vars(Timeout)
  /\ WF_vars(\E i \in Arriving(c2s) : AgentReceives(i))
  /\ WF_vars(\E i \in Arriving(s2c) : ClientReceives(i))

FairSpec == Spec /\ Fairness

----------------------------------------------------------------------------
(* Properties.                                                             *)

\* The ERROR packets the agent sends for these operations.
Refusal == {"replayed", "unsupported"}

\* Datagrams in flight to the agent and to the bridge.
Request ==
  [op : Ops \cup {"hello"}, peer : 1 .. MaxClients, sess : Nat, id : 1 .. IdModulus - 1,
   frag : Frag, count : Frag, ticket : Ticket]
Response ==
  [kind : {"response"} \cup Refusal, op : Ops \cup {"hello"},
   peer : 1 .. MaxClients, sess : Nat, id : 1 .. IdModulus - 1,
   frag : Frag, count : Frag, ticket : Ticket, run : Nat]

\* Type correctness: ids in use are never 0 (the code skips it), the attempt
\* counter stays within the retry loop, and every datagram is well formed.
TypeOK ==
  /\ client \in 1 .. MaxClients
  /\ phase \in {"idle", "hello", "call"}
  /\ requestId \in 1 .. IdModulus - 1
  /\ sessionId \in Nat
  /\ attempt \in 0 .. Retries
  /\ op \in Ops \cup {"none"}
  /\ (phase = "idle") = (op = "none")
  /\ received \subseteq Response
  /\ result \in [status : {"none", "ok", "error", "timeout", "crash"} \cup Refusal,
                 shows : SUBSET Nat]
  /\ session \in [active : BOOLEAN, id : Nat, peer : 0 .. MaxClients, hasLast : BOOLEAN,
                  lastId : RequestId, cache : Seq(Response)]
  /\ rq \in [id : RequestId, count : Frag \cup {0}, op : Ops \cup {"none"},
             parts : [Frag -> Ticket \cup {0}]]
  /\ c2s \in Seq(Request)
  /\ s2c \in Seq(Response)
  /\ drawn \in 0 .. MaxTickets
  /\ issued \in 0 .. MaxTickets
  /\ sessions \in Nat
  /\ runs \in Seq([ticket : Ticket, parts : SUBSET (Ticket \cup {0})])

\* docs/protocol.md: "A duplicate of the last completed request resends its
\* result rather than repeating a keyboard or file mutation."  No request is
\* carried out twice, however often it is retransmitted.
AtMostOnce ==
  \A i, j \in DOMAIN runs : runs[i].ticket = runs[j].ticket => i = j

\* What the caller knows of its latest call.
CallStatus ==
  IF phase = "call" THEN "pending"
  ELSE IF result.status \in {"none", "ok"} THEN result.status
  ELSE "failed"

\* The calls the agent has carried out, in order.
TicketsRun == [i \in DOMAIN runs |-> runs[i].ticket]

\* Over an ordered network the session implements at-most-once, in-order calls:
\* the caller's view of its latest call and the agent's log of runs behave as
\* AtMostOnceCall allows.
Calls ==
  INSTANCE AtMostOnceCall WITH
    issued <- issued,
    status <- CallStatus,
    ran    <- TicketsRun

ImplementsCalls == Calls!Spec

\* What a caller is handed as the answer to its call comes from a run of that
\* very call, never from a late response to an earlier one.
AnswerIsOwn ==
  phase # "call" /\ result.status = "ok" =>
    /\ result.shows # {}
    /\ \A r \in result.shows : r \in DOMAIN runs /\ runs[r].ticket = issued

\* The fragments joined into one answer come from one run, although they may
\* have been collected over several retransmissions.
AnswerIsWhole ==
  phase # "call" /\ result.status = "ok" => \A r, q \in result.shows : r = q

\* The agent only carries out requests whose fragments all belong to the same
\* call: reassembly never mixes what is left of an older request with a new one.
WholePayload ==
  \A i \in DOMAIN runs : runs[i].parts = {runs[i].ticket}

\* The replay check never turns away the call its caller is waiting for: ids
\* wrap and skip 0, sessions restart, and yet a live call always looks newer.
NeverRefusedAsReplay == result.status # "replayed"

\* The retry loop is bounded: every call returns to its caller, with an answer
\* or an exception, even when nothing arrives.
CallReturns == phase # "idle" ~> phase = "idle"

\* The agent has replaced or expired the session the bridge still uses.
Stranded ==
  sessionId # 0 /\ ~ (session.active /\ session.id = sessionId)

\* docs/dos-reentrancy.md: "Loss is expected and recovered through modern-host
\* request retries."  A bridge that calls with a session the agent no longer has
\* ends up with one the agent does have, or with none, which makes the next
\* call handshake again.
RetriesRecover == (phase = "call" /\ Stranded) ~> ~ Stranded
----------------------------------------------------------------------------
(* Why the properties hold: the inductive invariants of the proofs.        *)

\* The id drawn k draws before id.
DrawnBefore(id, k) == IF id > k THEN id - k ELSE id - k + (IdModulus - 1)

\* m carries an id some bridge drew; for the bridge that is alive, the distance
\* of tickets tells which one.
Drawn(m) ==
  /\ m.peer <= client
  /\ m.ticket <= drawn
  /\ m.peer = client => m.id = DrawnBefore(requestId, drawn - m.ticket)

\* A response shows the run of the call it answers.
ShowsRun(m) ==
  m.kind = "response" /\ m.op # "hello" =>
    m.run \in DOMAIN runs /\ runs[m.run].ticket = m.ticket

\* Whatever the order of delivery: datagrams are what they claim to be, and what
\* the bridge has collected for its call answers that call.
IssuedInv ==
  /\ issued <= drawn
  /\ phase = "call" => issued = drawn
  /\ \A r \in DOMAIN runs : runs[r].ticket <= issued

RequestsInv ==
  \A m \in ToSet(c2s) : Drawn(m) /\ (m.op # "hello" => m.ticket <= issued)

ResponsesInv ==
  \A m \in ToSet(s2c) \cup ToSet(session.cache) : Drawn(m) /\ ShowsRun(m)

ReceivedInv ==
  \A m \in received :
    /\ phase = "call"
    /\ m.kind = "response" /\ m.op # "hello" /\ m.ticket = drawn
    /\ ShowsRun(m)

MessageInv ==
  IssuedInv /\ RequestsInv /\ ResponsesInv /\ ReceivedInv /\ AnswerIsOwn
============================================================================
