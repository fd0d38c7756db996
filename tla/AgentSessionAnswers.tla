----------------------- MODULE AgentSessionAnswers -----------------------
(***************************************************************************)
(* What callers can rely on, in four parts.                                *)
(*  - On networks of any order an answer comes from a run of its own call: *)
(*    MessageInv is inductive.                                             *)
(*  - On ordered networks every call runs at most once and in order, and   *)
(*    the session implements AtMostOnceCall: OrderInv is inductive.        *)
(*  - On ordered networks no live call is refused as a replay.             *)
(*  - With one bridge, reassembly never mixes calls.                       *)
(***************************************************************************)
EXTENDS AgentSessionProofs

----------------------------------------------------------------------------
(* How drawing an id, a restart and any other step change what is known    *)
(* about the datagrams in flight.                                          *)

\* The datagrams of either direction, as far as Drawn looks at them.
Datagram(m) == m.peer \in 1 .. MaxClients /\ m.ticket \in Ticket

\* Requests and responses are datagrams.
LEMMA IsDatagram == \A m : m \in Request \/ m \in Response => Datagram(m)
BY DEF Datagram, Request, Response

\* Drawing an id moves all that were drawn before one draw back.
LEMMA DrawnAfterDraw ==
  ASSUME TypeOK, drawn + 1 <= MaxTickets, UNCHANGED client,
         drawn' = drawn + 1, requestId' = NextRequestId(requestId),
         NEW m, Datagram(m), Drawn(m)
  PROVE  Drawn(m)'
<1>1. /\ drawn \in Nat /\ m.ticket \in Nat /\ m.ticket <= drawn
      /\ drawn - m.ticket \in 0 .. IdModulus - 3
  BY SessionAssumption, IdModulusAssumption DEF TypeOK, Datagram, Ticket, Drawn
<1>2. DrawnBefore(NextRequestId(requestId), (drawn - m.ticket) + 1)
        = DrawnBefore(requestId, drawn - m.ticket)
  BY <1>1, DrawnBeforeNext DEF TypeOK
<1>3. (drawn - m.ticket) + 1 = drawn' - m.ticket
  BY <1>1
<1> QED BY <1>1, <1>2, <1>3 DEF Drawn

\* What was drawn by a bridge that is gone is not constrained any more.
LEMMA DrawnAfterRestart ==
  ASSUME TypeOK, client' = client + 1, UNCHANGED drawn, NEW m, Datagram(m), Drawn(m)
  PROVE  Drawn(m)'
BY DEF TypeOK, Datagram, Drawn

\* Steps that draw nothing change nothing about drawn ids.
LEMMA DrawnUnchanged ==
  ASSUME UNCHANGED <<client, requestId, drawn>>, NEW m, Drawn(m)
  PROVE  Drawn(m)'
BY DEF Drawn

\* The request in progress itself.
LEMMA DrawnCurrent ==
  ASSUME TypeOK, drawn \in Ticket, NEW m, m.peer = client, m.id = requestId, m.ticket = drawn
  PROVE  Drawn(m)
BY SessionAssumption DEF TypeOK, Drawn, DrawnBefore, Ticket

\* A datagram for the live bridge with its current id is about the current draw.
LEMMA DrawnById ==
  ASSUME TypeOK, NEW m, Datagram(m), Drawn(m), m.peer = client, m.id = requestId
  PROVE  m.ticket = drawn
<1>1. /\ drawn \in Nat /\ m.ticket \in Nat /\ m.ticket <= drawn
      /\ drawn - m.ticket \in 0 .. IdModulus - 2
  BY SessionAssumption, IdModulusAssumption DEF TypeOK, Datagram, Ticket, Drawn
<1>2. DrawnBefore(requestId, drawn - m.ticket) = requestId
  BY DEF Drawn
<1>3. drawn - m.ticket = 0
  BY <1>1, <1>2, DrawnBeforeUnique DEF TypeOK
<1> QED BY <1>1, <1>3

\* Every run in the log carries the ticket of a call.
LEMMA RunTickets ==
  ASSUME TypeOK, NEW r \in DOMAIN runs
  PROVE  runs[r].ticket \in Ticket /\ runs[r].ticket \in Nat
<1>1. runs \in Seq([ticket : Ticket, parts : SUBSET (Ticket \cup {0})])
  BY DEF TypeOK
<1>2. runs[r] \in [ticket : Ticket, parts : SUBSET (Ticket \cup {0})]
  BY <1>1, ToSetMember
<1> QED BY <1>2 DEF Ticket

\* The log of runs only grows.
RunsGrow ==
  \A r \in DOMAIN runs : r \in DOMAIN runs' /\ runs'[r] = runs[r]

\* What shows a run still shows it when the log grows.
LEMMA ShowsRunStep ==
  ASSUME RunsGrow, NEW m, ShowsRun(m)
  PROVE  ShowsRun(m)'
BY DEF RunsGrow, ShowsRun

\* Requests: the old datagrams stay good, and so is what is sent.
LEMMA RequestsStep ==
  ASSUME TypeOK, RequestsInv, issued <= issued', issued' \in Nat,
         \A m : Datagram(m) /\ Drawn(m) => Drawn(m)',
         \A m \in ToSet(c2s') :
           m \in ToSet(c2s) \/ (Drawn(m)' /\ (m.op # "hello" => m.ticket <= issued'))
  PROVE  RequestsInv'
<1> SUFFICES ASSUME NEW m \in ToSet(c2s')
             PROVE  Drawn(m)' /\ (m.op # "hello" => m.ticket <= issued')
  BY DEF RequestsInv
<1>1. CASE m \notin ToSet(c2s)
  BY <1>1
<1>2. CASE m \in ToSet(c2s)
  <2>1. m \in Request
    BY <1>2, ToSetSubset DEF TypeOK
  <2>2. m.ticket \in Nat /\ issued \in Nat
    BY <2>1 DEF Request, Ticket, TypeOK
  <2>3. Drawn(m) /\ (m.op # "hello" => m.ticket <= issued)
    BY <1>2 DEF RequestsInv
  <2> QED BY <2>1, <2>2, <2>3, IsDatagram
<1> QED BY <1>1, <1>2

\* Responses in flight and in the cache stay genuine when new ones are.
LEMMA ResponsesStep ==
  ASSUME TypeOK, ResponsesInv, RunsGrow,
         \A m : Datagram(m) /\ Drawn(m) => Drawn(m)',
         \A m \in ToSet(s2c') \cup ToSet(session'.cache) :
           m \in ToSet(s2c) \cup ToSet(session.cache) \/ (Drawn(m)' /\ ShowsRun(m)')
  PROVE  ResponsesInv'
<1> SUFFICES ASSUME NEW m \in ToSet(s2c') \cup ToSet(session'.cache)
             PROVE  Drawn(m)' /\ ShowsRun(m)'
  BY DEF ResponsesInv
<1>1. CASE m \notin ToSet(s2c) \cup ToSet(session.cache)
  BY <1>1
<1>2. CASE m \in ToSet(s2c) \cup ToSet(session.cache)
  <2>1. m \in Response
    BY <1>2, ToSetSubset DEF TypeOK
  <2>2. Drawn(m) /\ ShowsRun(m)
    BY <1>2 DEF ResponsesInv
  <2> QED BY <2>1, <2>2, IsDatagram, ShowsRunStep
<1> QED BY <1>1, <1>2

\* Taking out and transmitting adds nothing but what is transmitted.
LEMMA ChannelSets ==
  ASSUME TypeOK
  PROVE  /\ \A i \in DOMAIN c2s : ToSet(RemoveAt(c2s, i)) \subseteq ToSet(c2s)
         /\ \A i \in DOMAIN s2c : ToSet(RemoveAt(s2c, i)) \subseteq ToSet(s2c)
         /\ \A b \in Seq(Request) : ToSet(Transmit(c2s, b)) \subseteq ToSet(c2s) \cup ToSet(b)
         /\ \A b \in Seq(Response) : ToSet(Transmit(s2c, b)) \subseteq ToSet(s2c) \cup ToSet(b)
         /\ \A i \in DOMAIN c2s : c2s[i] \in ToSet(c2s)
         /\ \A i \in DOMAIN s2c : s2c[i] \in ToSet(s2c)
<1>1. c2s \in Seq(Request) /\ s2c \in Seq(Response)
  BY DEF TypeOK
<1>2. \A i \in DOMAIN c2s : ToSet(RemoveAt(c2s, i)) \subseteq ToSet(c2s) /\ c2s[i] \in ToSet(c2s)
  BY <1>1, RemoveAtSet, ToSetMember
<1>3. \A i \in DOMAIN s2c : ToSet(RemoveAt(s2c, i)) \subseteq ToSet(s2c) /\ s2c[i] \in ToSet(s2c)
  BY <1>1, RemoveAtSet, ToSetMember
<1>4. \A b \in Seq(Request) : ToSet(Transmit(c2s, b)) \subseteq ToSet(c2s) \cup ToSet(b)
  BY <1>1, TransmitProperties
<1>5. \A b \in Seq(Response) : ToSet(Transmit(s2c, b)) \subseteq ToSet(s2c) \cup ToSet(b)
  BY <1>1, TransmitProperties
<1> QED BY <1>2, <1>3, <1>4, <1>5

----------------------------------------------------------------------------
(* The bridge's steps.                                                     *)

\* _request preserves MessageInv.
LEMMA AnswersStartCall ==
  ASSUME TypeOK, TypeOK', MessageInv, NEW o \in Ops, StartCall(o)
  PROVE  MessageInv'
<1>1. /\ drawn \in Nat /\ issued \in Nat /\ drawn + 1 <= MaxTickets /\ drawn' = drawn + 1
      /\ drawn' \in Ticket /\ issued' \in {issued, drawn'} /\ issued <= issued'
      /\ requestId' = NextRequestId(requestId) /\ phase = "idle"
      /\ UNCHANGED <<client, sessionId, result, session, rq, s2c, sessions, runs>>
  BY SessionAssumption DEF StartCall, TypeOK, MessageInv, IssuedInv, Ticket
<1>0. /\ client \in 1 .. MaxClients /\ client' = client /\ sessionId \in Nat
      /\ requestId' \in 1 .. IdModulus - 1 /\ drawn' \in Ticket
  BY <1>1 DEF TypeOK
<1>8. ASSUME NEW m, m.peer = client', m.id = requestId', m.ticket = drawn'
      PROVE  Drawn(m)'
  <2>1. client' \in Nat /\ drawn' \in Nat /\ requestId' \in Nat /\ requestId' > 0
    BY <1>0, SessionAssumption, IdModulusAssumption DEF Ticket
  <2>2. DrawnBefore(requestId', drawn' - drawn') = requestId'
    BY ONLY <1>0, <2>1, DrawnBeforeSame
  <2>3. client' <= client' /\ drawn' <= drawn'
    BY ONLY <2>1
  <2>4. m.peer = client' /\ m.id = requestId' /\ m.ticket = drawn'
    BY <1>8
  <2> QED BY ONLY <2>2, <2>3, <2>4 DEF Drawn
<1>2. \A m : Datagram(m) /\ Drawn(m) => Drawn(m)'
  BY <1>1, DrawnAfterDraw
<1>3. RunsGrow
  BY <1>1 DEF RunsGrow
<1>4. IssuedInv'
  <2>1. \A r \in DOMAIN runs : runs[r].ticket \in Nat
    BY RunTickets
  <2> QED BY <1>1, <2>1 DEF StartCall, MessageInv, IssuedInv
<1>5. RequestsInv'
  <2>1. CASE sessionId = 0
    <3> DEFINE b == HelloRequest(client, requestId', drawn')
    <3>1. b \in Seq(Request) /\ \A m \in ToSet(b) :
            m.op = "hello" /\ m.peer = client' /\ m.id = requestId' /\ m.ticket = drawn'
      <4>1. GoodHello(client, requestId', drawn')
        BY ONLY <1>0, HelloRequestType
      <4> QED BY ONLY <1>0, <4>1 DEF GoodHello
    <3>2. c2s' = Transmit(c2s, b)
      BY <2>1 DEF StartCall
    <3> HIDE DEF b
    <3>3. \A m \in ToSet(b) : Drawn(m)' /\ (m.op # "hello" => m.ticket <= issued')
      BY ONLY <1>8, <3>1
    <3> QED BY <1>1, <1>2, <3>1, <3>2, <3>3, ChannelSets, RequestsStep DEF MessageInv, Ticket
  <2>2. CASE sessionId # 0
    <3> DEFINE b == RequestFragments(o, client, sessionId, requestId', drawn')
    <3>1. b \in Seq(Request) /\ \A m \in ToSet(b) :
            m.peer = client' /\ m.id = requestId' /\ m.ticket = drawn'
      <4>1. GoodRequests(o, client, sessionId, requestId', drawn')
        BY ONLY <1>0, o \in Ops, RequestFragmentsType
      <4> QED BY ONLY <1>0, <4>1 DEF GoodRequests
    <3>2. c2s' = Transmit(c2s, b) /\ issued' = drawn'
      BY <2>2 DEF StartCall
    <3> HIDE DEF b
    <3>3. \A m \in ToSet(b) : Drawn(m)' /\ (m.op # "hello" => m.ticket <= issued')
      <4>1. drawn' <= issued'
        BY <1>1, <3>2
      <4> QED BY ONLY <1>8, <3>1, <4>1
    <3> QED BY <1>1, <1>2, <3>1, <3>2, <3>3, ChannelSets, RequestsStep DEF MessageInv, Ticket
  <2> QED BY <2>1, <2>2
<1>6. ResponsesInv'
  <2>1. ResponsesInv
    BY DEF MessageInv
  <2>2. ToSet(s2c') \cup ToSet(session'.cache)
          \subseteq ToSet(s2c) \cup ToSet(session.cache)
    BY <1>1
  <2> QED BY <1>2, <1>3, <2>1, <2>2, ResponsesStep
<1>7. ReceivedInv' /\ AnswerIsOwn'
  BY <1>1 DEF StartCall, ReceivedInv, MessageInv, AnswerIsOwn
<1> QED BY <1>4, <1>5, <1>6, <1>7 DEF MessageInv

\* A step of the bridge that keeps its ids and sends at most its request again.
LEMMA AnswersFrame ==
  ASSUME TypeOK, MessageInv, UNCHANGED <<client, requestId, drawn, issued, runs, session>>,
         phase' = "call" => phase = "call",
         ToSet(c2s') \subseteq ToSet(c2s), ToSet(s2c') \subseteq ToSet(s2c)
  PROVE  IssuedInv' /\ RequestsInv' /\ ResponsesInv'
<1>1. \A m : Datagram(m) /\ Drawn(m) => Drawn(m)'
  BY DrawnUnchanged
<1>2. RunsGrow
  BY DEF RunsGrow
<1>3. issued <= issued' /\ issued' \in Nat
  BY DEF TypeOK
<1>4. IssuedInv'
  BY DEF MessageInv, IssuedInv
<1>5. RequestsInv'
  BY <1>1, <1>3, RequestsStep DEF MessageInv
<1>6. ResponsesInv'
  BY <1>1, <1>2, ResponsesStep DEF MessageInv
<1> QED BY <1>4, <1>5, <1>6

\* Finish gives the caller nothing, or what AnswerIsOwn asks for.
LEMMA AnswersFinish ==
  ASSUME TypeOK, MessageInv, NEW status, NEW shows, Finish(status, shows),
         UNCHANGED <<issued, runs>>,
         phase = "call" /\ status = "ok" =>
           shows # {} /\ \A r \in shows : r \in DOMAIN runs /\ runs[r].ticket = issued
  PROVE  ReceivedInv' /\ AnswerIsOwn'
<1>1. ReceivedInv'
  BY DEF Finish, ReceivedInv
<1>2. CASE phase = "call"
  <2>1. result' = [status |-> status, shows |-> shows]
    BY <1>2 DEF Finish
  <2> QED BY <1>1, <1>2, <2>1 DEF AnswerIsOwn
<1>3. CASE phase # "call"
  <2>1. result' = result
    BY <1>3 DEF Finish
  <2> QED BY <1>1, <1>3, <2>1 DEF AnswerIsOwn, MessageInv
<1> QED BY <1>2, <1>3

\* What the retry loop sends carries the current id and ticket.
LEMMA OutgoingDrawn ==
  ASSUME TypeOK, MessageInv, phase # "idle", drawn \in Ticket, NEW m \in ToSet(Outgoing)
  PROVE  Drawn(m) /\ (m.op # "hello" => m.ticket <= issued)
<1>1. client \in 1 .. MaxClients /\ requestId \in 1 .. IdModulus - 1 /\ sessionId \in Nat
      /\ op \in Ops
  BY DEF TypeOK
<1>2. CASE phase = "hello"
  <2>1. m.op = "hello" /\ m.peer = client /\ m.id = requestId /\ m.ticket = drawn
    BY <1>1, <1>2, HelloRequestType DEF Outgoing, GoodHello
  <2> QED BY <2>1, DrawnCurrent
<1>3. CASE phase # "hello"
  <2>1. m.peer = client /\ m.id = requestId /\ m.ticket = drawn
    BY <1>1, <1>3, RequestFragmentsType DEF Outgoing, GoodRequests
  <2>2. issued = drawn
    BY <1>3 DEF MessageInv, IssuedInv, TypeOK
  <2> QED BY <2>1, <2>2, DrawnCurrent DEF TypeOK
<1> QED BY <1>2, <1>3

\* A retry and giving up preserve MessageInv.
LEMMA AnswersTimeout ==
  ASSUME TypeOK, DrawnInv, MessageInv, Timeout
  PROVE  MessageInv'
<1>1. phase # "idle" /\ UNCHANGED <<client, requestId, sessionId, session, rq, s2c>>
      /\ UNCHANGED <<drawn, issued, sessions, runs>>
  BY DEF Timeout, historyVars
<1>2. drawn \in Ticket
  BY <1>1, SessionAssumption DEF TypeOK, DrawnInv, Ticket
<1>3. CASE attempt < Retries
  <2>1. c2s' = Transmit(c2s, Outgoing) /\ UNCHANGED <<phase, op, received, result>>
    BY <1>3 DEF Timeout
  <2>2. ToSet(c2s') \subseteq ToSet(c2s) \cup ToSet(Outgoing)
    BY <1>1, <1>2, <2>1, OutgoingType, ChannelSets
  <2>3. \A m : Datagram(m) /\ Drawn(m) => Drawn(m)'
    BY <1>1, DrawnUnchanged
  <2>4. \A m \in ToSet(Outgoing) : Drawn(m)' /\ (m.op # "hello" => m.ticket <= issued')
    BY <1>1, <1>2, OutgoingDrawn, DrawnUnchanged
  <2>5. issued <= issued' /\ issued' \in Nat
    BY <1>1 DEF TypeOK
  <2>6. RequestsInv'
    BY <2>2, <2>3, <2>4, <2>5, RequestsStep DEF MessageInv
  <2>7. IssuedInv' /\ ResponsesInv' /\ ReceivedInv' /\ AnswerIsOwn'
    BY <1>1, <2>1 DEF MessageInv, IssuedInv, ResponsesInv, ReceivedInv, AnswerIsOwn, Drawn,
                      ShowsRun
  <2> QED BY <2>6, <2>7 DEF MessageInv
<1>4. CASE ~ (attempt < Retries)
  <2>1. Finish("timeout", {}) /\ UNCHANGED c2s
    BY <1>4 DEF Timeout
  <2>2. ReceivedInv' /\ AnswerIsOwn'
    BY <1>1, <2>1, AnswersFinish
  <2>3. phase' = "idle"
    BY <2>1 DEF Finish
  <2> QED BY <1>1, <2>1, <2>2, <2>3, AnswersFrame DEF MessageInv
<1> QED BY <1>3, <1>4

\* A response that passes the filter during a call shows a run of this call.
LEMMA MatchingShowsOwnRun ==
  ASSUME TypeOK, MessageInv, NEW i \in DOMAIN s2c, phase = "call", Matches(s2c[i]),
         s2c[i].kind = "response"
  PROVE  /\ s2c[i].op # "hello" /\ s2c[i].ticket = drawn /\ ShowsRun(s2c[i])
         /\ s2c[i].run \in DOMAIN runs /\ runs[s2c[i].run].ticket = issued
<1>1. s2c[i] \in Response /\ Drawn(s2c[i]) /\ ShowsRun(s2c[i])
  BY ChannelTypes, ChannelSets DEF MessageInv, ResponsesInv
<1>2. s2c[i].op = op /\ s2c[i].peer = client /\ s2c[i].id = requestId
  BY DEF Matches
<1>3. op # "hello"
  BY SessionAssumption DEF TypeOK, Operation
<1>4. s2c[i].ticket = drawn
  BY <1>1, <1>2, IsDatagram, DrawnById
<1> QED BY <1>1, <1>2, <1>3, <1>4 DEF ShowsRun, MessageInv, IssuedInv

\* Collecting a fragment and completing an answer preserve MessageInv.
LEMMA AnswersFragment ==
  ASSUME TypeOK, MessageInv, NEW i \in DOMAIN s2c, AcceptFragment(i)
  PROVE  MessageInv'
<1> DEFINE m == s2c[i]
           have == {r \in received : r.frag # m.frag} \cup {m}
           status == IF Reassembles(have, m.count) THEN "ok" ELSE "error"
           shown == {r.run : r \in have}
<1>1. phase = "call" /\ Matches(m) /\ m.kind = "response" /\ s2c' = RemoveAt(s2c, i)
      /\ UNCHANGED <<client, requestId, sessionId, session, rq, c2s>>
      /\ UNCHANGED <<drawn, issued, sessions, runs>>
  BY DEF AcceptFragment, historyVars
<1>2. \/ Finish(status, shown)
      \/ received' = have /\ UNCHANGED <<phase, attempt, op, result>>
  BY DEF AcceptFragment
<1>3. m.op # "hello" /\ m.ticket = drawn /\ ShowsRun(m)
  BY <1>1, MatchingShowsOwnRun
<1>4. \A r \in have : r.kind = "response" /\ r.op # "hello" /\ r.ticket = drawn /\ ShowsRun(r)
  BY <1>1, <1>3 DEF MessageInv, ReceivedInv
<1>5. m \in have
  OBVIOUS
<1>6. ToSet(s2c') \subseteq ToSet(s2c)
  BY <1>1, ChannelSets
<1> HIDE DEF have, status, shown
<1>7. CASE Finish(status, shown)
  <2>1. shown # {} /\ \A r \in shown : r \in DOMAIN runs /\ runs[r].ticket = issued
    BY <1>1, <1>4, <1>5 DEF shown, ShowsRun, MessageInv, IssuedInv
  <2>2. ReceivedInv' /\ AnswerIsOwn'
    BY <1>1, <1>7, <2>1, AnswersFinish
  <2>3. phase' = "idle"
    BY <1>7 DEF Finish
  <2> QED BY <1>1, <1>6, <2>2, <2>3, AnswersFrame DEF MessageInv
<1>8. CASE received' = have /\ UNCHANGED <<phase, attempt, op, result>>
  <2>1. \A r \in have : ShowsRun(r)'
    BY <1>1, <1>4 DEF ShowsRun
  <2>2. ReceivedInv' /\ AnswerIsOwn'
    BY <1>1, <1>4, <1>8, <2>1 DEF ReceivedInv, AnswerIsOwn
  <2> QED BY <1>1, <1>6, <1>8, <2>2, AnswersFrame DEF MessageInv
<1> QED BY <1>2, <1>7, <1>8

\* Adopting a session and sending the call preserve MessageInv.
LEMMA AnswersHello ==
  ASSUME TypeOK, TypeOK', DrawnInv, MessageInv, NEW i \in DOMAIN s2c, AcceptHello(i)
  PROVE  MessageInv'
<1>1. /\ phase = "hello" /\ s2c' = RemoveAt(s2c, i)
      /\ UNCHANGED <<client, session, rq, sessions, runs>>
  BY DEF AcceptHello
<1>2. ToSet(s2c') \subseteq ToSet(s2c)
  BY <1>1, ChannelSets
<1>3. CASE s2c[i].ticket # drawn
  <2>1. Finish("error", {}) /\ UNCHANGED <<requestId, sessionId, drawn, issued, c2s>>
    BY <1>3 DEF AcceptHello
  <2>2. ReceivedInv' /\ AnswerIsOwn'
    BY <1>1, <2>1, AnswersFinish
  <2>3. phase' = "idle"
    BY <2>1 DEF Finish
  <2> QED BY <1>1, <1>2, <2>1, <2>2, <2>3, AnswersFrame DEF MessageInv
<1>4. CASE s2c[i].ticket = drawn
  <2> DEFINE b == RequestFragments(op, client, sessionId', requestId', drawn')
  <2>1. /\ requestId' = NextRequestId(requestId) /\ drawn' = drawn + 1 /\ issued' = drawn'
        /\ phase' = "call" /\ received' = {} /\ op' = op /\ c2s' = Transmit(c2s, b)
    BY <1>4 DEF AcceptHello
  <2>2. drawn + 1 <= MaxTickets /\ drawn \in Nat /\ issued \in Nat /\ drawn' \in Ticket
        /\ issued <= issued' /\ issued' \in Nat
    <3>1. drawn \in Nat /\ issued \in Nat /\ MaxTickets \in Nat
      BY SessionAssumption DEF TypeOK
    <3>2. issued <= drawn /\ drawn + 1 <= MaxTickets
      BY <1>1 DEF DrawnInv, MessageInv, IssuedInv
    <3> QED BY <2>1, <3>1, <3>2 DEF Ticket
  <2>3. \A m : Datagram(m) /\ Drawn(m) => Drawn(m)'
    BY <1>1, <2>1, <2>2, DrawnAfterDraw
  <2>4. b \in Seq(Request) /\ \A m \in ToSet(b) :
          m.peer = client' /\ m.id = requestId' /\ m.ticket = drawn'
    <3>1. op \in Ops /\ sessionId' \in Nat /\ client \in 1 .. MaxClients
          /\ requestId' \in 1 .. IdModulus - 1
      BY <1>1 DEF TypeOK
    <3>2. GoodRequests(op, client, sessionId', requestId', drawn')
      BY <2>2, <3>1, RequestFragmentsType
    <3> QED BY <1>1, <3>2 DEF GoodRequests
  <2> HIDE DEF b
  <2>5. \A m \in ToSet(b) : Drawn(m)' /\ (m.op # "hello" => m.ticket <= issued')
    <3>1. requestId' \in 1 .. IdModulus - 1 /\ client' \in 1 .. MaxClients
      BY DEF TypeOK
    <3> QED BY <2>1, <2>2, <2>4, <3>1, IdModulusAssumption, SessionAssumption
            DEF Drawn, DrawnBefore
  <2>6. RequestsInv'
    BY <2>1, <2>2, <2>3, <2>4, <2>5, ChannelSets, RequestsStep DEF MessageInv
  <2>7. RunsGrow
    BY <1>1 DEF RunsGrow
  <2>8. ResponsesInv'
    <3>1. ToSet(s2c') \cup ToSet(session'.cache)
            \subseteq ToSet(s2c) \cup ToSet(session.cache)
      BY <1>1, <1>2
    <3> QED BY <2>3, <2>7, <3>1, ResponsesStep DEF MessageInv
  <2>9. IssuedInv'
    <3>1. \A r \in DOMAIN runs : runs[r].ticket \in Nat /\ runs[r].ticket <= issued
      BY RunTickets DEF MessageInv, IssuedInv
    <3> QED BY <1>1, <2>1, <2>2, <3>1 DEF IssuedInv
  <2> QED BY <2>1, <2>6, <2>8, <2>9 DEF MessageInv, ReceivedInv, AnswerIsOwn
<1> QED BY <1>3, <1>4

\* Every branch of _exchange_with_packet preserves MessageInv.
LEMMA AnswersClientReceives ==
  ASSUME TypeOK, TypeOK', DrawnInv, MessageInv, NEW i \in DOMAIN s2c, ClientReceives(i)
  PROVE  MessageInv'
<1>1. CASE Ignore(i)
  <2>1. ToSet(s2c') \subseteq ToSet(s2c) /\ UNCHANGED <<phase, received, result, c2s>>
        /\ UNCHANGED <<client, requestId, drawn, issued, runs, session>>
    BY <1>1, ChannelSets DEF Ignore, clientVars, serverVars, historyVars
  <2>2. ReceivedInv' /\ AnswerIsOwn'
    BY <2>1 DEF MessageInv, ReceivedInv, AnswerIsOwn, ShowsRun
  <2> QED BY <2>1, <2>2, AnswersFrame DEF MessageInv
<1>2. CASE AcceptError(i)
  <2>1. ToSet(s2c') \subseteq ToSet(s2c) /\ Finish(s2c[i].kind, {}) /\ UNCHANGED c2s
        /\ UNCHANGED <<client, requestId, drawn, issued, runs, session>>
    BY <1>2, ChannelSets DEF AcceptError, historyVars
  <2>2. s2c[i].kind # "ok"
    BY ChannelTypes DEF Response, Refusal
  <2>3. ReceivedInv' /\ AnswerIsOwn'
    BY <2>1, <2>2, AnswersFinish
  <2>4. phase' = "idle"
    BY <2>1 DEF Finish
  <2> QED BY <2>1, <2>3, <2>4, AnswersFrame DEF MessageInv
<1> QED BY <1>1, <1>2, AnswersHello, AnswersFragment DEF ClientReceives

\* A new UdpBackend preserves MessageInv.
LEMMA AnswersRestart ==
  ASSUME TypeOK, MessageInv, NEW id \in StartIds, RestartClient(id)
  PROVE  MessageInv'
<1>1. /\ client' = client + 1 /\ s2c' = << >> /\ phase' = "idle" /\ Finish("crash", {})
      /\ UNCHANGED <<session, rq, c2s>> /\ UNCHANGED <<drawn, issued, sessions, runs>>
  BY DEF RestartClient, Finish, historyVars
<1>2. \A m : Datagram(m) /\ Drawn(m) => Drawn(m)'
  BY <1>1, DrawnAfterRestart
<1>3. RunsGrow
  BY <1>1 DEF RunsGrow
<1>4. IssuedInv'
  BY <1>1 DEF MessageInv, IssuedInv
<1>5. RequestsInv'
  <2>1. issued <= issued' /\ issued' \in Nat /\ ToSet(c2s') \subseteq ToSet(c2s)
    BY <1>1 DEF TypeOK
  <2> QED BY <1>2, <2>1, RequestsStep DEF MessageInv
<1>6. ResponsesInv'
  <2>1. ToSet(s2c') = {}
    BY <1>1 DEF ToSet
  <2>2. ToSet(s2c') \cup ToSet(session'.cache)
          \subseteq ToSet(s2c) \cup ToSet(session.cache)
    BY <1>1, <2>1
  <2> QED BY <1>2, <1>3, <2>2, ResponsesStep DEF MessageInv
<1>7. ReceivedInv' /\ AnswerIsOwn'
  BY <1>1, AnswersFinish
<1> QED BY <1>4, <1>5, <1>6, <1>7 DEF MessageInv

----------------------------------------------------------------------------
(* The agent's steps.                                                      *)

\* A response carries the peer, id and ticket of its request.
LEMMA ResponseDrawn ==
  ASSUME NEW m, NEW r, Drawn(m), r.peer = m.peer, r.id = m.id, r.ticket = m.ticket
  PROVE  Drawn(r)
BY DEF Drawn

\* A step of the agent: the bridge is unchanged, the log may grow by a run of a
\* call that was issued, and every new datagram is good.
LEMMA AnswersAgentFrame ==
  ASSUME TypeOK, MessageInv, UNCHANGED <<client, phase, requestId, drawn, issued>>,
         UNCHANGED <<received, result>>,
         RunsGrow, \A r \in DOMAIN runs' : r \in DOMAIN runs \/ runs'[r].ticket <= issued,
         ToSet(c2s') \subseteq ToSet(c2s),
         \A m \in ToSet(s2c') \cup ToSet(session'.cache) :
           m \in ToSet(s2c) \cup ToSet(session.cache) \/ (Drawn(m)' /\ ShowsRun(m)')
  PROVE  MessageInv'
<1>1. \A m : Datagram(m) /\ Drawn(m) => Drawn(m)'
  BY DrawnUnchanged
<1>2. ResponsesInv'
  BY <1>1, ResponsesStep DEF MessageInv
<1>3. RequestsInv'
  <2>1. issued <= issued' /\ issued' \in Nat
    BY DEF TypeOK
  <2> QED BY <1>1, <2>1, RequestsStep DEF MessageInv
<1>4. IssuedInv'
  BY DEF MessageInv, IssuedInv, RunsGrow
<1>5. ReceivedInv'
  BY ShowsRunStep DEF MessageInv, ReceivedInv
<1>6. AnswerIsOwn'
  BY DEF MessageInv, AnswerIsOwn, RunsGrow
<1> QED BY <1>2, <1>3, <1>4, <1>5, <1>6 DEF MessageInv

\* send_response: the new datagrams are those of the burst.
LEMMA SendResponseSets ==
  ASSUME TypeOK, NEW m, NEW burst \in Seq(Response), SendResponse(m, burst)
  PROVE  ToSet(s2c') \cup ToSet(session'.cache) \subseteq ToSet(s2c) \cup ToSet(burst)
<1>1. ToSet(s2c') \subseteq ToSet(s2c) \cup ToSet(burst)
  BY ChannelSets DEF SendResponse
<1>2. session'.cache = burst
  BY DEF SendResponse, TypeOK
<1> QED BY <1>1, <1>2

\* send_error answers the request it was called for and shows no run.
LEMMA SendErrorGood ==
  ASSUME TypeOK, MessageInv, NEW i \in DOMAIN c2s, NEW kind \in Refusal,
         SendError(c2s[i], kind), UNCHANGED <<client, requestId, drawn>>
  PROVE  \A r \in ToSet(s2c') \cup ToSet(session'.cache) :
           r \in ToSet(s2c) \cup ToSet(session.cache) \/ (Drawn(r)' /\ ShowsRun(r)')
<1> DEFINE b == ResponseFragments(kind, c2s[i], session.id, 1, 0)
<1>1. c2s[i] \in Request /\ Drawn(c2s[i])
  BY ChannelTypes, ChannelSets DEF MessageInv, RequestsInv
<1>2. b \in Seq(Response) /\ \A r \in ToSet(b) :
        r.kind = kind /\ r.peer = c2s[i].peer /\ r.id = c2s[i].id /\ r.ticket = c2s[i].ticket
  <2>1. session.id \in Nat /\ 1 \in Frag
    BY FragFacts DEF TypeOK
  <2>2. kind \in {"response"} \cup Refusal /\ 0 \in Nat
    OBVIOUS
  <2> DEFINE m == c2s[i]
             sess == session.id
  <2>3. m \in Request /\ sess \in Nat
    BY <1>1, <2>1
  <2> HIDE DEF m, sess
  <2> DEFINE f == ResponseFragments(kind, m, sess, 1, 0)
  <2>4. /\ f \in Seq(Response)
        /\ \A r \in ToSet(f) :
             /\ r.kind = kind /\ r.op = m.op /\ r.peer = m.peer /\ r.id = m.id
             /\ r.ticket = m.ticket /\ r.sess = sess /\ r.run = 0
    <3>1. GoodResponses(kind, m, sess, 1, 0)
      BY ONLY <2>1, <2>2, <2>3, ResponseFragmentsType
    <3> QED BY ONLY <3>1 DEF GoodResponses
  <2> HIDE DEF f
  <2>5. \A r \in ToSet(f) :
          r.kind = kind /\ r.peer = m.peer /\ r.id = m.id /\ r.ticket = m.ticket
    BY ONLY <2>4
  <2>6. b = f
    BY DEF f, m, sess
  <2>7. m = c2s[i]
    BY DEF m
  <2> HIDE DEF b
  <2> QED BY ONLY <2>4, <2>5, <2>6, <2>7
<1>3. SendResponse(c2s[i], b)
  BY DEF SendError
<1> HIDE DEF b
<1>4. ToSet(s2c') \cup ToSet(session'.cache) \subseteq ToSet(s2c) \cup ToSet(b)
  BY <1>2, <1>3, SendResponseSets
<1>5. \A r \in ToSet(b) : Drawn(r)' /\ ShowsRun(r)'
  <2>1. kind # "response"
    BY DEF Refusal
  <2> QED BY <1>1, <1>2, <2>1, ResponseDrawn, DrawnUnchanged DEF ShowsRun
<1> QED BY <1>4, <1>5

\* process_request preserves MessageInv.
LEMMA AnswersProcessRequest ==
  ASSUME TypeOK, MessageInv, NEW i \in DOMAIN c2s, ProcessRequest(i)
  PROVE  MessageInv'
<1> DEFINE m == c2s[i]
<1>1. m \in Request /\ Drawn(m) /\ ToSet(RemoveAt(c2s, i)) \subseteq ToSet(c2s)
  BY ChannelTypes, ChannelSets DEF MessageInv, RequestsInv
<1>2. m.op # "hello" /\ m.ticket <= issued
  BY ChannelSets DEF ProcessRequest, InSession, MessageInv, RequestsInv
<1>3. c2s' = RemoveAt(c2s, i) /\ UNCHANGED <<client, phase, requestId, drawn, issued>>
      /\ UNCHANGED <<received, result>>
  BY DEF ProcessRequest, clientVars
<1>4. CASE m.op = "file"
  <2>1. SendError(m, "unsupported") /\ runs' = runs
    BY <1>4 DEF ProcessRequest
  <2>2. RunsGrow /\ \A r \in DOMAIN runs' : r \in DOMAIN runs
    BY <2>1 DEF RunsGrow
  <2>3. \A r \in ToSet(s2c') \cup ToSet(session'.cache) :
          r \in ToSet(s2c) \cup ToSet(session.cache) \/ (Drawn(r)' /\ ShowsRun(r)')
    BY <1>3, <2>1, SendErrorGood DEF Refusal
  <2> QED BY <1>1, <1>3, <2>2, <2>3, AnswersAgentFrame
<1>5. CASE m.op # "file"
  <2> DEFINE new == [ticket |-> m.ticket, parts |-> {rq'.parts[f] : f \in 1 .. rq'.count}]
             b == ResponseFragments("response", m, session.id, RespCount(m.op), Len(runs'))
  <2>1. runs' = Append(runs, new) /\ SendResponse(m, b)
    BY <1>5 DEF ProcessRequest
  <2>2. new.ticket = m.ticket
    OBVIOUS
  <2> HIDE DEF new
  <2>3. /\ Len(runs) \in Nat /\ DOMAIN runs = 1 .. Len(runs)
        /\ Len(runs') = Len(runs) + 1 /\ DOMAIN runs' = 1 .. Len(runs) + 1
        /\ runs'[Len(runs) + 1] = new
        /\ \A r \in 1 .. Len(runs) : runs'[r] = runs[r]
    BY <2>1 DEF TypeOK
  <2>4. RunsGrow
    BY <2>3 DEF RunsGrow
  <2>5. \A r \in DOMAIN runs' : r \in DOMAIN runs \/ runs'[r].ticket <= issued
    <3>1. \A r \in DOMAIN runs' : r \in DOMAIN runs \/ r = Len(runs) + 1
      BY <2>3
    <3> QED BY <1>2, <2>2, <2>3, <3>1
  <2>6. Len(runs') \in DOMAIN runs' /\ runs'[Len(runs')].ticket = m.ticket
    BY <2>2, <2>3
  <2>7. b \in Seq(Response) /\ \A r \in ToSet(b) :
          r.peer = m.peer /\ r.id = m.id /\ r.ticket = m.ticket /\ r.run = Len(runs')
    <3>1. session.id \in Nat /\ RespCount(m.op) \in Frag /\ Len(runs') \in Nat
      BY <2>3, FragFacts DEF TypeOK
    <3>2. "response" \in {"response"} \cup Refusal
      OBVIOUS
    <3> DEFINE sess == session.id
               count == RespCount(m.op)
               run == Len(runs')
    <3>3. sess \in Nat /\ count \in Frag /\ run \in Nat
      BY <3>1
    <3> HIDE DEF m, sess, count, run
    <3>4. GoodResponses("response", m, sess, count, run)
      BY ONLY <1>1, <3>2, <3>3, ResponseFragmentsType
    <3> QED BY ONLY <3>4 DEF GoodResponses, sess, count, run
  <2> HIDE DEF b
  <2>8. ToSet(s2c') \cup ToSet(session'.cache) \subseteq ToSet(s2c) \cup ToSet(b)
    BY <2>1, <2>7, SendResponseSets
  <2>9. \A r \in ToSet(b) : Drawn(r)' /\ ShowsRun(r)'
    <3>1. \A r \in ToSet(b) : Drawn(r)
      BY <1>1, <2>7, ResponseDrawn
    <3> QED BY <1>3, <2>6, <2>7, <3>1, DrawnUnchanged DEF ShowsRun
  <2> QED BY <1>1, <1>3, <2>4, <2>5, <2>8, <2>9, AnswersAgentFrame
<1> QED BY <1>4, <1>5

\* Every path through process_datagram preserves MessageInv.
LEMMA AnswersAgentReceives ==
  ASSUME TypeOK, MessageInv, NEW i \in DOMAIN c2s, AgentReceives(i)
  PROVE  MessageInv'
<1> DEFINE m == c2s[i]
<1>1. m \in Request /\ Drawn(m) /\ ToSet(RemoveAt(c2s, i)) \subseteq ToSet(c2s)
  BY ChannelTypes, ChannelSets DEF MessageInv, RequestsInv
<1>2. CASE ProcessHello(i)
  <2> DEFINE b == ResponseFragments("response", m, sessions', 1, 0)
  <2>1. /\ m.op = "hello" /\ c2s' = RemoveAt(c2s, i) /\ sessions' \in Nat
        /\ s2c' = Transmit(s2c, b) /\ session'.cache = << >>
        /\ UNCHANGED <<client, phase, requestId, drawn, issued>>
        /\ UNCHANGED <<received, result, runs>>
    BY <1>2 DEF ProcessHello, clientVars, TypeOK
  <2>2. b \in Seq(Response) /\ \A r \in ToSet(b) :
          r.op = "hello" /\ r.peer = m.peer /\ r.id = m.id /\ r.ticket = m.ticket
    <3>1. "response" \in {"response"} \cup Refusal /\ 1 \in Frag /\ 0 \in Nat
      BY FragFacts
    <3> HIDE DEF m, b
    <3>2. b \in Seq(Response) /\ \A r \in ToSet(b) :
            /\ r.kind = "response" /\ r.op = m.op /\ r.peer = m.peer /\ r.id = m.id
            /\ r.ticket = m.ticket /\ r.sess = sessions' /\ r.run = 0
      <4>1. GoodResponses("response", m, sessions', 1, 0)
        BY ONLY <1>1, <2>1, <3>1, ResponseFragmentsType
      <4> QED BY ONLY <4>1 DEF GoodResponses, b
    <3> QED BY <2>1, <3>2
  <2> HIDE DEF b
  <2>3. ToSet(s2c') \subseteq ToSet(s2c) \cup ToSet(b) /\ ToSet(session'.cache) = {}
    BY <2>1, <2>2, ChannelSets DEF ToSet
  <2>4. \A r \in ToSet(b) : Drawn(r)' /\ ShowsRun(r)'
    BY <1>1, <2>1, <2>2, ResponseDrawn, DrawnUnchanged DEF ShowsRun
  <2>5. RunsGrow /\ \A r \in DOMAIN runs' : r \in DOMAIN runs
    BY <2>1 DEF RunsGrow
  <2> QED BY <1>1, <2>1, <2>3, <2>4, <2>5, AnswersAgentFrame
<1>3. CASE Drop(i) \/ StoreFragment(i)
  <2>1. /\ c2s' = RemoveAt(c2s, i) /\ s2c' = s2c /\ session' = session
        /\ UNCHANGED <<client, phase, requestId, drawn, issued>>
        /\ UNCHANGED <<received, result, runs>>
    BY <1>3 DEF Drop, StoreFragment, clientVars, serverVars, historyVars
  <2>2. RunsGrow /\ \A r \in DOMAIN runs' : r \in DOMAIN runs
    BY <2>1 DEF RunsGrow
  <2> QED BY <1>1, <2>1, <2>2, AnswersAgentFrame
<1>4. CASE ResendCached(i)
  <2>1. /\ c2s' = RemoveAt(c2s, i) /\ s2c' = Transmit(s2c, session.cache) /\ session' = session
        /\ UNCHANGED <<client, phase, requestId, drawn, issued>>
        /\ UNCHANGED <<received, result, runs>>
    BY <1>4 DEF ResendCached, clientVars, serverVars, historyVars
  <2>2. RunsGrow /\ \A r \in DOMAIN runs' : r \in DOMAIN runs
    BY <2>1 DEF RunsGrow
  <2>3. session.cache \in Seq(Response)
    BY DEF TypeOK
  <2>4. ToSet(s2c') \subseteq ToSet(s2c) \cup ToSet(session.cache)
    BY <2>1, <2>3, ChannelSets
  <2> QED BY <1>1, <2>1, <2>2, <2>4, AnswersAgentFrame
<1>5. CASE RejectReplay(i)
  <2>1. /\ c2s' = RemoveAt(c2s, i) /\ SendError(m, "replayed")
        /\ UNCHANGED <<client, phase, requestId, drawn, issued>>
        /\ UNCHANGED <<received, result, runs>>
    BY <1>5 DEF RejectReplay, clientVars, historyVars
  <2>2. RunsGrow /\ \A r \in DOMAIN runs' : r \in DOMAIN runs
    BY <2>1 DEF RunsGrow
  <2>3. \A r \in ToSet(s2c') \cup ToSet(session'.cache) :
          r \in ToSet(s2c) \cup ToSet(session.cache) \/ (Drawn(r)' /\ ShowsRun(r)')
    BY <2>1, SendErrorGood DEF Refusal
  <2> QED BY <1>1, <2>1, <2>2, <2>3, AnswersAgentFrame
<1> QED BY <1>2, <1>3, <1>4, <1>5, AnswersProcessRequest DEF AgentReceives

\* Expiry, losses and stuttering only take away.
LEMMA AnswersOther ==
  ASSUME TypeOK, MessageInv,
         \/ ExpireSession
         \/ \E i \in DOMAIN c2s : LoseRequest(i)
         \/ \E i \in DOMAIN s2c : LoseResponse(i)
         \/ UNCHANGED vars
  PROVE  MessageInv'
<1>1. UNCHANGED <<client, phase, requestId, drawn, issued>>
      /\ UNCHANGED <<received, result, runs>>
  BY DEF ExpireSession, LoseRequest, LoseResponse, vars, clientVars, historyVars
<1>2. ToSet(c2s') \subseteq ToSet(c2s) /\ ToSet(s2c') \subseteq ToSet(s2c)
  BY ChannelSets DEF ExpireSession, LoseRequest, LoseResponse, vars
<1>3. session'.cache = session.cache
  BY DEF ExpireSession, LoseRequest, LoseResponse, vars, serverVars, TypeOK
<1>4. RunsGrow /\ \A r \in DOMAIN runs' : r \in DOMAIN runs
  BY <1>1 DEF RunsGrow
<1> QED BY <1>1, <1>2, <1>3, <1>4, AnswersAgentFrame

----------------------------------------------------------------------------

\* MessageInv holds before the first call.
LEMMA AnswersInit == Init => MessageInv
<1>1. ToSet(<< >>) = {}
  BY DEF ToSet
<1> QED BY <1>1 DEF Init, MessageInv, IssuedInv, RequestsInv, ResponsesInv, ReceivedInv,
                    AnswerIsOwn, NoResult, NoSession

\* Every step preserves MessageInv.
LEMMA AnswersNext ==
  ASSUME TypeOK, TypeOK', DrawnInv, MessageInv, [Next]_vars
  PROVE  MessageInv'
<1>1. ASSUME NEW i \in Arriving(s2c), ClientReceives(i)
      PROVE  MessageInv'
  BY <1>1, ArrivingDomain, AnswersClientReceives
<1>2. ASSUME NEW i \in Arriving(c2s), AgentReceives(i)
      PROVE  MessageInv'
  BY <1>2, ArrivingDomain, AnswersAgentReceives
<1> QED BY <1>1, <1>2, AnswersStartCall, AnswersTimeout, AnswersRestart, AnswersOther DEF Next

\* MessageInv is inductive: whatever the network reorders or loses, a datagram
\* in flight carries the id and the ticket some bridge drew for it, and every
\* response shows a run of the call it answers.
THEOREM MessagesGenuine == Spec => []MessageInv
<1>1. Init => TypeOK /\ DrawnInv /\ MessageInv
  BY TypeInit, AnswersInit DEF Init, DrawnInv
<1>2. TypeOK /\ DrawnInv /\ MessageInv /\ [Next]_vars => TypeOK' /\ DrawnInv' /\ MessageInv'
  BY TypeNext, DrawnNext, AnswersNext
<1> QED BY <1>1, <1>2, PTL DEF Spec

\* On every network, what _request returns as the answer to a call comes from
\* runs of that very call: the id filter of _exchange_with_packet never lets a
\* late response to an earlier request pass, although ids wrap around.
THEOREM AnswersAreOwn == Spec => []AnswerIsOwn
<1>1. MessageInv => AnswerIsOwn
  BY DEF MessageInv
<1> QED BY <1>1, MessagesGenuine, PTL

----------------------------------------------------------------------------
(* Ordered networks.  Requests arrive in the order they were drawn,        *)
(* nothing that has run is overtaken, and what arrives again is the last   *)
(* answered request.                                                       *)

\* Tickets never decrease along a channel.
Sorted(q) == \A j, k \in DOMAIN q : j <= k => q[j].ticket <= q[k].ticket

\* No session is used before the agent has made it.
SessionsInv ==
  /\ sessionId <= sessions /\ session.id <= sessions
  /\ \A m \in ToSet(c2s) \cup ToSet(s2c) \cup ToSet(session.cache) : m.sess <= sessions

\* The requests in flight stand in the order they were drawn, under one id each.
FifoInv ==
  /\ Sorted(c2s)
  /\ \A m, n \in ToSet(c2s) : m.ticket = n.ticket => m.id = n.id
  /\ \A m \in ToSet(c2s) : phase # "idle" /\ m.ticket = drawn => m.id = requestId

\* Calls ran in the order they were drawn, none of them after one in flight.
RunsInv ==
  /\ \A r \in DOMAIN runs, m \in ToSet(c2s) : runs[r].ticket <= m.ticket
  /\ \A r, q \in DOMAIN runs : r < q => runs[r].ticket < runs[q].ticket

\* A request that has run and is, or may be, in flight again is the last one the
\* session has answered.
LastInv ==
  /\ \A r \in DOMAIN runs, m \in ToSet(c2s) :
       InSession(m) /\ runs[r].ticket = m.ticket => IsLast(m)
  /\ \A r \in DOMAIN runs :
       phase = "call" /\ session.active /\ session.id = sessionId /\ runs[r].ticket = drawn
       => session.hasLast /\ session.lastId = requestId

OrderInv == SessionsInv /\ FifoInv /\ RunsInv /\ LastInv

\* The state before a step, and the types after it.
Before == TypeOK /\ TypeOK' /\ DrawnInv /\ MessageInv /\ OrderInv

\* Taking a datagram out keeps the order.
LEMMA SortedRemove ==
  ASSUME NEW q \in Seq(Request), NEW i \in DOMAIN q, Sorted(q)
  PROVE  Sorted(RemoveAt(q, i))
<1> DEFINE t == RemoveAt(q, i)
<1>1. t \in Seq(Request) /\ Len(t) = Len(q) - 1
      /\ \A j \in 1 .. Len(q) - 1 : t[j] = IF j < i THEN q[j] ELSE q[j + 1]
  BY RemoveAtElements
<1>2. Len(q) \in Nat /\ DOMAIN q = 1 .. Len(q) /\ i \in 1 .. Len(q)
  OBVIOUS
<1> HIDE DEF t
<1>3. DOMAIN t = 1 .. Len(q) - 1
  BY <1>1, <1>2
<1> SUFFICES ASSUME NEW j \in DOMAIN t, NEW k \in DOMAIN t, j <= k
             PROVE  t[j].ticket <= t[k].ticket
  BY DEF Sorted, t
<1> DEFINE at(x) == IF x < i THEN x ELSE x + 1
<1>4. at(j) \in 1 .. Len(q) /\ at(k) \in 1 .. Len(q) /\ at(j) <= at(k)
  BY <1>2, <1>3
<1>5. t[j] = q[at(j)] /\ t[k] = q[at(k)]
  BY <1>1, <1>3
<1> HIDE DEF at
<1> QED BY <1>2, <1>4, <1>5 DEF Sorted

\* A burst that is not older than what is in flight keeps the order.
LEMMA SortedTransmit ==
  ASSUME NEW q \in Seq(Request), NEW b \in Seq(Request), Sorted(q), NEW t,
         \A m \in ToSet(q) : m.ticket <= t, \A m \in ToSet(b) : m.ticket = t, t \in Nat
  PROVE  Sorted(Transmit(q, b))
<1> DEFINE u == Transmit(q, b)
<1>1. \/ u = q
      \/ /\ Len(u) = Len(q) + Len(b)
         /\ \A j \in 1 .. Len(q) + Len(b) : u[j] = IF j <= Len(q) THEN q[j] ELSE b[j - Len(q)]
  BY TransmitProperties
<1>2. u \in Seq(Request)
  BY TransmitProperties
<1> HIDE DEF u
<1>3. CASE u = q
  BY <1>3 DEF u
<1>4. CASE /\ Len(u) = Len(q) + Len(b)
           /\ \A j \in 1 .. Len(q) + Len(b) : u[j] = IF j <= Len(q) THEN q[j] ELSE b[j - Len(q)]
  <2>1. Len(q) \in Nat /\ Len(b) \in Nat /\ DOMAIN q = 1 .. Len(q) /\ DOMAIN b = 1 .. Len(b)
        /\ DOMAIN u = 1 .. Len(q) + Len(b)
    BY <1>2, <1>4
  <2>2. \A j \in 1 .. Len(q) : q[j] \in ToSet(q)
    BY <2>1 DEF ToSet
  <2>3. \A j \in 1 .. Len(b) : b[j] \in ToSet(b)
    BY <2>1 DEF ToSet
  <2>4. \A j \in DOMAIN u : j <= Len(q) => j \in DOMAIN q /\ u[j] = q[j] /\ u[j].ticket <= t
    BY <1>4, <2>1, <2>2
  <2>5. \A j \in DOMAIN u : ~ (j <= Len(q)) => u[j].ticket = t
    <3> SUFFICES ASSUME NEW j \in DOMAIN u, ~ (j <= Len(q))
                 PROVE  u[j].ticket = t
      OBVIOUS
    <3>1. j - Len(q) \in 1 .. Len(b) /\ u[j] = b[j - Len(q)]
      BY <1>4, <2>1
    <3> QED BY <2>3, <3>1
  <2>6. Sorted(u)
    <3> SUFFICES ASSUME NEW j \in DOMAIN u, NEW k \in DOMAIN u, j <= k
                 PROVE  u[j].ticket <= u[k].ticket
      BY DEF Sorted
    <3>1. CASE k <= Len(q)
      <4>1. j <= Len(q)
        BY <2>1, <3>1
      <4> QED BY <2>4, <3>1, <4>1 DEF Sorted
    <3>2. CASE ~ (k <= Len(q))
      <4>1. u[k].ticket = t
        BY <2>5, <3>2
      <4> QED BY <2>4, <2>5, <4>1
    <3> QED BY <3>1, <3>2
  <2> QED BY <2>6 DEF u
<1> QED BY <1>1, <1>3, <1>4

\* Nothing in a channel is older than its head.
LEMMA HeadIsOldest ==
  ASSUME NEW q \in Seq(Request), Sorted(q), 1 \in DOMAIN q
  PROVE  \A m \in ToSet(q) : q[1].ticket <= m.ticket
<1> SUFFICES ASSUME NEW m \in ToSet(q)
             PROVE  q[1].ticket <= m.ticket
  OBVIOUS
<1>1. PICK k \in DOMAIN q : m = q[k]
  BY DEF ToSet
<1>2. 1 <= k
  OBVIOUS
<1> QED BY <1>1, <1>2 DEF Sorted

----------------------------------------------------------------------------
(* The kinds of steps, as far as OrderInv looks at them.                   *)

\* Tickets and sessions are numbers, and no ticket is ahead of the last draw.
LEMMA Numbers ==
  ASSUME TypeOK, MessageInv
  PROVE  /\ drawn \in Nat /\ sessions \in Nat /\ issued \in Nat
         /\ \A m \in ToSet(c2s) : /\ m \in Request /\ m.ticket \in Nat /\ m.sess \in Nat
                                  /\ m.ticket <= drawn
         /\ \A r \in DOMAIN runs : runs[r].ticket \in Nat /\ runs[r].ticket <= drawn
         /\ \A m \in ToSet(s2c) \cup ToSet(session.cache) : m \in Response /\ m.sess \in Nat
<1>1. drawn \in Nat /\ sessions \in Nat /\ issued \in Nat
  BY SessionAssumption DEF TypeOK
<1>2. \A m \in ToSet(c2s) : m \in Request
  BY ToSetSubset DEF TypeOK
<1>3. \A m \in ToSet(s2c) \cup ToSet(session.cache) : m \in Response
  BY ToSetSubset DEF TypeOK
<1>4. \A m \in Request : m.ticket \in Nat /\ m.sess \in Nat
  BY DEF Request, Ticket
<1>5. \A m \in Response : m.sess \in Nat
  BY DEF Response
<1>6. \A m \in ToSet(c2s) : m.ticket <= drawn
  BY DEF MessageInv, RequestsInv, Drawn
<1>7. \A r \in DOMAIN runs : runs[r].ticket \in Nat
  BY RunTickets
<1>8. \A r \in DOMAIN runs : runs[r].ticket <= issued
  BY DEF MessageInv, IssuedInv
<1>9. issued <= drawn
  BY DEF MessageInv, IssuedInv
<1>10. \A r \in DOMAIN runs : runs[r].ticket <= drawn
  BY <1>1, <1>7, <1>8, <1>9
<1> QED BY <1>1, <1>2, <1>3, <1>4, <1>5, <1>6, <1>7, <1>10

\* No request is sent or answered for the first time; the bridge may stop what it
\* was doing.
Shrinking ==
  /\ UNCHANGED <<session, runs, drawn, sessions>> /\ client' \in {client, client + 1}
  /\ ToSet(c2s') \subseteq ToSet(c2s) /\ Sorted(c2s')
  /\ ToSet(s2c') \subseteq ToSet(s2c) \cup ToSet(session.cache)
  /\ sessionId' \in {sessionId, 0}
  /\ phase' # "idle" => phase' = phase /\ requestId' = requestId /\ sessionId' = sessionId

\* An id is drawn and a burst is sent under it.
Drawing(b) ==
  /\ UNCHANGED <<client, session, runs, sessions>> /\ drawn' = drawn + 1
  /\ c2s' = Transmit(c2s, b) /\ ToSet(s2c') \subseteq ToSet(s2c)
  /\ b \in Seq(Request)
  /\ \A m \in ToSet(b) : m.ticket = drawn' /\ m.id = requestId' /\ m.sess <= sessions
  /\ sessionId' <= sessions

\* The burst of the exchange in progress is sent again.
Repeating(b) ==
  /\ UNCHANGED <<client, session, runs, sessions, drawn, requestId, sessionId, phase, s2c>>
  /\ phase # "idle"
  /\ c2s' = Transmit(c2s, b)
  /\ b \in Seq(Request)
  /\ \A m \in ToSet(b) : /\ m.ticket = drawn /\ m.id = requestId /\ m.sess <= sessions
                         /\ m.op # "hello" => phase = "call" /\ m.sess = sessionId

\* Taking datagrams out, resending the cache and giving up keep the order.
LEMMA OrderShrinking ==
  ASSUME Before, Shrinking
  PROVE  OrderInv'
<1> USE DEF Before, OrderInv
<1>1. sessions \in Nat /\ session' = session /\ runs' = runs /\ drawn' = drawn /\ sessions' = sessions
  BY Numbers DEF Shrinking
<1>2. SessionsInv'
  BY <1>1 DEF SessionsInv, Shrinking
<1>3. FifoInv'
  BY <1>1 DEF FifoInv, Shrinking
<1>4. RunsInv'
  BY <1>1 DEF RunsInv, Shrinking
<1>5. LastInv'
  BY <1>1 DEF LastInv, Shrinking, InSession, IsLast
<1> QED BY <1>2, <1>3, <1>4, <1>5

\* A new draw is later than everything in flight.
LEMMA OrderDrawing ==
  ASSUME Before, NEW b, Drawing(b)
  PROVE  OrderInv'
<1> USE DEF Before, OrderInv
<1>1. /\ session' = session /\ runs' = runs /\ drawn' = drawn + 1 /\ sessions' = sessions
      /\ b \in Seq(Request) /\ c2s' = Transmit(c2s, b)
  BY DEF Drawing
<1>2. /\ drawn \in Nat
      /\ \A m \in ToSet(c2s) : m.ticket \in Nat /\ m.ticket <= drawn
      /\ \A r \in DOMAIN runs : runs[r].ticket \in Nat /\ runs[r].ticket <= drawn
  BY Numbers
<1>3. ToSet(c2s') \subseteq ToSet(c2s) \cup ToSet(b)
  BY <1>1, ChannelSets
<1>4. \A m \in ToSet(b) : m.ticket = drawn + 1 /\ m.id = requestId' /\ m.sess <= sessions
  BY <1>1 DEF Drawing
<1>5. Sorted(c2s')
  <2>1. c2s \in Seq(Request) /\ Sorted(c2s)
    BY DEF TypeOK, FifoInv
  <2>2. drawn + 1 \in Nat /\ \A m \in ToSet(c2s) : m.ticket <= drawn + 1
    BY <1>2
  <2> QED BY <1>1, <1>4, <2>1, <2>2, SortedTransmit
<1>6. \A m \in ToSet(c2s') : m.ticket = drawn + 1 => m \in ToSet(b)
  BY <1>2, <1>3
<1>7. \A m \in ToSet(c2s') : m.ticket # drawn + 1 => m \in ToSet(c2s)
  BY <1>3, <1>4
<1>8. SessionsInv'
  BY <1>1, <1>3, <1>4 DEF SessionsInv, Drawing
<1>9. FifoInv'
  BY <1>1, <1>4, <1>5, <1>6, <1>7 DEF FifoInv
<1>10. \A r \in DOMAIN runs : runs[r].ticket <= drawn + 1 /\ runs[r].ticket # drawn + 1
  BY <1>2
<1>11. RunsInv'
  <2>1. \A r \in DOMAIN runs, m \in ToSet(c2s') : runs[r].ticket <= m.ticket
    <3> SUFFICES ASSUME NEW r \in DOMAIN runs, NEW m \in ToSet(c2s')
                 PROVE  runs[r].ticket <= m.ticket
      OBVIOUS
    <3>1. CASE m.ticket = drawn + 1
      BY <1>10, <3>1
    <3>2. CASE m.ticket # drawn + 1
      BY <1>7, <3>2 DEF RunsInv
    <3> QED BY <3>1, <3>2
  <2> QED BY <1>1, <2>1 DEF RunsInv
<1>12. LastInv'
  <2>1. \A r \in DOMAIN runs, m \in ToSet(c2s') :
          InSession(m) /\ runs[r].ticket = m.ticket => IsLast(m)
    BY <1>7, <1>10 DEF LastInv
  <2>2. \A m : (InSession(m)' <=> InSession(m)) /\ (IsLast(m)' <=> IsLast(m))
    BY <1>1 DEF InSession, IsLast
  <2> QED BY <1>1, <1>10, <2>1, <2>2 DEF LastInv
<1> QED BY <1>8, <1>9, <1>11, <1>12

\* A retransmission repeats the latest draw, which is the last answered if it ran.
LEMMA OrderRepeating ==
  ASSUME Before, NEW b, Repeating(b)
  PROVE  OrderInv'
<1> USE DEF Before, OrderInv
<1>1. /\ session' = session /\ runs' = runs /\ drawn' = drawn /\ sessions' = sessions
      /\ phase' = phase /\ requestId' = requestId /\ sessionId' = sessionId /\ s2c' = s2c
      /\ phase # "idle"
      /\ b \in Seq(Request) /\ c2s' = Transmit(c2s, b)
  BY DEF Repeating
<1>2. /\ drawn \in Nat
      /\ \A m \in ToSet(c2s) : m.ticket \in Nat /\ m.ticket <= drawn
      /\ \A r \in DOMAIN runs : runs[r].ticket \in Nat /\ runs[r].ticket <= drawn
  BY Numbers
<1>3. ToSet(c2s') \subseteq ToSet(c2s) \cup ToSet(b)
  BY <1>1, ChannelSets
<1>4. \A m \in ToSet(b) : /\ m.ticket = drawn /\ m.id = requestId /\ m.sess <= sessions
                          /\ m.op # "hello" => phase = "call" /\ m.sess = sessionId
  BY DEF Repeating
<1>5. Sorted(c2s')
  BY <1>1, <1>2, <1>4, SortedTransmit DEF TypeOK, FifoInv
<1>6. SessionsInv'
  BY <1>1, <1>3, <1>4 DEF SessionsInv
<1>7. FifoInv'
  <2>1. \A m \in ToSet(c2s') : m.ticket = drawn => m.id = requestId
    BY <1>1, <1>3, <1>4 DEF FifoInv
  <2>2. \A m \in ToSet(c2s') : m.ticket # drawn => m \in ToSet(c2s)
    BY <1>3, <1>4
  <2> QED BY <1>1, <1>5, <2>1, <2>2 DEF FifoInv
<1>8. RunsInv'
  BY <1>1, <1>2, <1>3, <1>4 DEF RunsInv
<1>9. LastInv'
  <2>1. \A r \in DOMAIN runs, m \in ToSet(c2s') :
          InSession(m) /\ runs[r].ticket = m.ticket => IsLast(m)
    <3> SUFFICES ASSUME NEW r \in DOMAIN runs, NEW m \in ToSet(c2s'), InSession(m),
                        runs[r].ticket = m.ticket
                 PROVE  IsLast(m)
      OBVIOUS
    <3>1. CASE m \in ToSet(c2s)
      BY <3>1 DEF LastInv
    <3>2. CASE m \in ToSet(b)
      <4>1. phase = "call" /\ session.active /\ session.id = sessionId /\ runs[r].ticket = drawn
        BY <1>4, <3>2 DEF InSession
      <4>2. session.hasLast /\ session.lastId = requestId
        BY <4>1 DEF LastInv
      <4> QED BY <1>4, <3>2, <4>2 DEF IsLast
    <3> QED BY <1>3, <3>1, <3>2
  <2>2. \A m : (InSession(m)' <=> InSession(m)) /\ (IsLast(m)' <=> IsLast(m))
    BY <1>1 DEF InSession, IsLast
  <2> QED BY <1>1, <2>1, <2>2 DEF LastInv
<1> QED BY <1>6, <1>7, <1>8, <1>9

\* The agent answers m, the oldest request in flight, with the burst b, and may
\* have carried it out if it was not the last one.
Answering(m, b) ==
  /\ UNCHANGED <<client, drawn, requestId, sessionId, phase, sessions>>
  /\ m \in ToSet(c2s) /\ InSession(m)
  /\ ToSet(c2s') \subseteq ToSet(c2s) /\ Sorted(c2s')
  /\ \A n \in ToSet(c2s) : m.ticket <= n.ticket
  /\ session'.active = session.active /\ session'.id = session.id
  /\ session'.peer = session.peer
  /\ session'.hasLast = TRUE /\ session'.lastId = m.id /\ session'.cache = b
  /\ ToSet(s2c') \subseteq ToSet(s2c) \cup ToSet(b)
  /\ \A r \in ToSet(b) : r.sess = session.id
  /\ RunsGrow
  /\ \A r \in DOMAIN runs' : r \in DOMAIN runs \/
       /\ ~ IsLast(m) /\ runs'[r].ticket = m.ticket
       /\ r = Len(runs) + 1

\* Nothing in flight is older than the request that is answered.
LEMMA OrderAnswering ==
  ASSUME Before, NEW m, NEW b, Answering(m, b)
  PROVE  OrderInv'
<1> USE DEF Before, OrderInv
<1>1. /\ drawn' = drawn /\ requestId' = requestId /\ sessionId' = sessionId /\ phase' = phase
      /\ sessions' = sessions /\ m \in ToSet(c2s) /\ InSession(m)
      /\ ToSet(c2s') \subseteq ToSet(c2s) /\ Sorted(c2s')
      /\ \A n \in ToSet(c2s) : m.ticket <= n.ticket
  BY DEF Answering
<1>2. /\ session'.active = session.active /\ session'.id = session.id
      /\ session'.peer = session.peer
      /\ session'.hasLast = TRUE /\ session'.lastId = m.id /\ session'.cache = b
  BY DEF Answering
<1>3. /\ RunsGrow
      /\ \A r \in DOMAIN runs' : r \in DOMAIN runs \/
           /\ ~ IsLast(m) /\ runs'[r].ticket = m.ticket
           /\ r = Len(runs) + 1
  BY DEF Answering
<1>4. /\ drawn \in Nat /\ sessions \in Nat
      /\ \A n \in ToSet(c2s) : n.ticket \in Nat /\ n.ticket <= drawn
      /\ \A r \in DOMAIN runs : runs[r].ticket \in Nat /\ runs[r].ticket <= drawn
  BY Numbers
<1>5. SessionsInv'
  BY <1>1, <1>2 DEF SessionsInv, Answering
<1>6. FifoInv'
  BY <1>1 DEF FifoInv
<1>7. \A r \in DOMAIN runs' : runs'[r].ticket \in Nat /\ runs'[r].ticket <= m.ticket
  BY <1>1, <1>3, <1>4 DEF RunsInv, RunsGrow
<1>8. RunsInv'
  <2>1. \A r \in DOMAIN runs', n \in ToSet(c2s') : runs'[r].ticket <= n.ticket
    BY <1>1, <1>4, <1>7
  <2>2. ASSUME NEW r \in DOMAIN runs', NEW q \in DOMAIN runs', r < q
        PROVE  runs'[r].ticket < runs'[q].ticket
    <3>0. Len(runs) \in Nat /\ DOMAIN runs = 1 .. Len(runs)
      <4>1. runs \in Seq([ticket : Ticket, parts : SUBSET (Ticket \cup {0})])
        BY DEF TypeOK
      <4> QED BY ONLY <4>1, LenProperties
    <3>1. CASE q \in DOMAIN runs
      <4>1. r \in DOMAIN runs
        BY <1>3, <2>2, <3>0, <3>1
      <4> QED BY <1>3, <2>2, <3>1, <4>1 DEF RunsInv, RunsGrow
    <3>2. CASE q \notin DOMAIN runs
      <4>1. q = Len(runs) + 1 /\ ~ IsLast(m) /\ runs'[q].ticket = m.ticket
        BY <1>3, <3>2
      <4>2. r \in DOMAIN runs /\ runs'[r] = runs[r]
        BY <1>3, <2>2, <3>0, <4>1 DEF RunsGrow
      <4>3. runs[r].ticket <= m.ticket /\ runs[r].ticket # m.ticket
        BY <1>1, <4>1, <4>2 DEF RunsInv, LastInv
      <4> QED BY <1>1, <1>4, <4>1, <4>2, <4>3
    <3> QED BY <3>1, <3>2
  <2> QED BY <2>1, <2>2 DEF RunsInv
<1>9. LastInv'
  <2>1. ASSUME NEW r \in DOMAIN runs', NEW n \in ToSet(c2s'), runs'[r].ticket = n.ticket
        PROVE  IsLast(n)'
    <3>1. n.ticket = m.ticket
      BY <1>1, <1>4, <1>7, <2>1
    <3>2. n.id = m.id
      BY <1>1, <3>1 DEF FifoInv
    <3> QED BY <1>2, <3>2 DEF IsLast
  <2>2. ASSUME NEW r \in DOMAIN runs', phase' = "call", runs'[r].ticket = drawn'
        PROVE  session'.hasLast /\ session'.lastId = requestId'
    <3>1. m.ticket = drawn
      BY <1>1, <1>4, <1>7, <2>2
    <3>2. m.id = requestId
      BY <1>1, <2>2, <3>1 DEF FifoInv
    <3> QED BY <1>1, <1>2, <3>2
  <2> QED BY <2>1, <2>2 DEF LastInv
<1> QED BY <1>5, <1>6, <1>8, <1>9

\* The agent makes a session nobody can have a request for yet.
Greeting ==
  /\ UNCHANGED <<client, drawn, requestId, sessionId, phase, runs>>
  /\ sessions' = sessions + 1
  /\ ToSet(c2s') \subseteq ToSet(c2s) /\ Sorted(c2s')
  /\ session'.id = sessions' /\ session'.cache = << >> /\ session'.hasLast = FALSE
  /\ \A r \in ToSet(s2c') : r \in ToSet(s2c) \/ (r.sess = sessions' /\ r.kind = "response")

\* No request in flight belongs to the session a HELLO has just made.
LEMMA OrderGreeting ==
  ASSUME Before, Greeting
  PROVE  OrderInv'
<1> USE DEF Before, OrderInv
<1>1. /\ drawn' = drawn /\ requestId' = requestId /\ sessionId' = sessionId /\ phase' = phase
      /\ runs' = runs /\ sessions' = sessions + 1
      /\ ToSet(c2s') \subseteq ToSet(c2s) /\ Sorted(c2s')
      /\ session'.id = sessions + 1 /\ session'.cache = << >>
      /\ \A r \in ToSet(s2c') : r \in ToSet(s2c) \/ r.sess = sessions + 1
  BY DEF Greeting
<1>2. /\ sessions \in Nat /\ sessionId \in Nat
      /\ \A m \in ToSet(c2s) : m.sess \in Nat
      /\ \A m \in ToSet(s2c) \cup ToSet(session.cache) : m.sess \in Nat
  BY Numbers DEF TypeOK
<1>3. \A m \in ToSet(c2s') : m.sess <= sessions + 1 /\ m.sess # sessions + 1
  BY <1>1, <1>2 DEF SessionsInv
<1>4. ToSet(<< >>) = {}
  BY DEF ToSet
<1>5. \A m \in ToSet(s2c') : m.sess <= sessions + 1
  BY <1>1, <1>2 DEF SessionsInv
<1>6. sessionId <= sessions + 1 /\ sessionId # sessions + 1 /\ sessions + 1 <= sessions + 1
  BY <1>2 DEF SessionsInv
<1>7. SessionsInv'
  BY <1>1, <1>3, <1>4, <1>5, <1>6 DEF SessionsInv
<1>8. FifoInv' /\ RunsInv'
  BY <1>1 DEF FifoInv, RunsInv
<1>9. LastInv'
  <2>1. \A m \in ToSet(c2s') : ~ InSession(m)'
    BY <1>1, <1>3 DEF InSession
  <2> QED BY <1>1, <1>6, <2>1 DEF LastInv
<1> QED BY <1>7, <1>8, <1>9

\* The agent forgets its session.
LEMMA OrderExpire ==
  ASSUME Before, ExpireSession
  PROVE  OrderInv'
<1> USE DEF Before, OrderInv
<1>1. /\ drawn' = drawn /\ requestId' = requestId /\ sessionId' = sessionId /\ phase' = phase
      /\ runs' = runs /\ sessions' = sessions /\ c2s' = c2s /\ s2c' = s2c
      /\ session' = [session EXCEPT !.active = FALSE, !.hasLast = FALSE]
  BY DEF ExpireSession, clientVars, historyVars
<1>2. session'.active = FALSE /\ session'.id = session.id /\ session'.cache = session.cache
  BY <1>1 DEF TypeOK
<1>3. SessionsInv'
  BY <1>1, <1>2 DEF SessionsInv
<1>4. FifoInv' /\ RunsInv'
  BY <1>1 DEF FifoInv, RunsInv
<1>5. LastInv'
  <2>1. \A m : ~ InSession(m)'
    BY <1>2 DEF InSession
  <2> QED BY <1>2, <2>1 DEF LastInv
<1> QED BY <1>3, <1>4, <1>5

----------------------------------------------------------------------------
(* What kind each step is.                                                 *)

\* What is taken from the ordered channel is its oldest request.
LEMMA TakingOldest ==
  ASSUME Before, Ordered, NEW i \in Arriving(c2s)
  PROVE  /\ i \in DOMAIN c2s /\ c2s[i] \in ToSet(c2s) /\ c2s[i] \in Request
         /\ \A n \in ToSet(c2s) : c2s[i].ticket <= n.ticket
<1> USE DEF Before, OrderInv
<1>1. i \in DOMAIN c2s /\ i = 1
  BY DEF Arriving
<1>2. c2s \in Seq(Request) /\ Sorted(c2s)
  BY DEF TypeOK, FifoInv
<1> QED BY <1>1, <1>2, HeadIsOldest, ChannelSets, ChannelTypes

\* What is left in a channel was in it, in the same order.
LEMMA Taking ==
  ASSUME Before
  PROVE  /\ \A i \in DOMAIN c2s : ToSet(RemoveAt(c2s, i)) \subseteq ToSet(c2s) /\ Sorted(RemoveAt(c2s, i))
         /\ \A i \in DOMAIN s2c : ToSet(RemoveAt(s2c, i)) \subseteq ToSet(s2c)
         /\ Sorted(c2s)
<1> USE DEF Before, OrderInv
<1>1. c2s \in Seq(Request) /\ Sorted(c2s)
  BY DEF TypeOK, FifoInv
<1>2. \A i \in DOMAIN c2s : Sorted(RemoveAt(c2s, i))
  BY <1>1, SortedRemove
<1> QED BY <1>1, <1>2, ChannelSets

\* _request draws an id.
LEMMA StartCallDraws ==
  ASSUME Before, NEW o \in Ops, StartCall(o)
  PROVE  \E b : Drawing(b)
<1> USE DEF Before, OrderInv
<1>1. /\ client \in 1 .. MaxClients /\ sessionId \in Nat /\ requestId' \in 1 .. IdModulus - 1
      /\ drawn' \in Ticket
  <2>1. drawn' \in 0 .. MaxTickets /\ drawn' = drawn + 1 /\ drawn \in Nat /\ MaxTickets \in Nat
    BY SessionAssumption DEF StartCall, TypeOK
  <2> QED BY <2>1 DEF TypeOK, Ticket
<1>2. /\ drawn' = drawn + 1 /\ sessionId' = sessionId /\ s2c' = s2c
      /\ UNCHANGED <<client, session, runs, sessions>>
  BY DEF StartCall
<1>3. sessionId <= sessions /\ sessions \in Nat
  BY DEF SessionsInv, TypeOK
<1>4. CASE sessionId = 0
  <2> DEFINE b == HelloRequest(client, requestId', drawn')
  <2>1. c2s' = Transmit(c2s, b)
    BY <1>4 DEF StartCall
  <2>2. GoodHello(client, requestId', drawn')
    BY ONLY <1>1, HelloRequestType
  <2>3. b \in Seq(Request) /\ \A m \in ToSet(b) : m.ticket = drawn' /\ m.id = requestId' /\ m.sess = 0
    BY ONLY <2>2 DEF GoodHello
  <2> HIDE DEF b
  <2>4. 0 <= sessions
    BY <1>3
  <2>5. Drawing(b)
    BY <1>2, <1>3, <2>1, <2>3, <2>4 DEF Drawing
  <2> QED BY <2>5
<1>5. CASE sessionId # 0
  <2> DEFINE b == RequestFragments(o, client, sessionId, requestId', drawn')
  <2>1. c2s' = Transmit(c2s, b)
    BY <1>5 DEF StartCall
  <2>2. GoodRequests(o, client, sessionId, requestId', drawn')
    BY ONLY <1>1, o \in Ops, RequestFragmentsType
  <2>3. b \in Seq(Request)
        /\ \A m \in ToSet(b) : m.ticket = drawn' /\ m.id = requestId' /\ m.sess = sessionId
    BY ONLY <2>2 DEF GoodRequests
  <2> HIDE DEF b
  <2>4. Drawing(b)
    BY <1>2, <1>3, <2>1, <2>3 DEF Drawing
  <2> QED BY <2>4
<1> QED BY <1>4, <1>5

\* The retry loop sends again or stops.
LEMMA TimeoutRepeats ==
  ASSUME Before, Timeout
  PROVE  Shrinking \/ \E b : Repeating(b)
<1> USE DEF Before, OrderInv
<1>1. phase # "idle" /\ UNCHANGED <<client, requestId, sessionId, session, s2c>>
      /\ UNCHANGED <<drawn, issued, sessions, runs>>
  BY DEF Timeout, historyVars
<1>2. CASE attempt < Retries
  <2>1. c2s' = Transmit(c2s, Outgoing) /\ UNCHANGED phase
    BY <1>2 DEF Timeout
  <2>2. drawn \in Ticket
    BY <1>1, SessionAssumption DEF TypeOK, DrawnInv, Ticket
  <2>3. Outgoing \in Seq(Request)
    BY <1>1, <2>2, OutgoingType
  <2>4. client \in 1 .. MaxClients /\ requestId \in 1 .. IdModulus - 1 /\ sessionId \in Nat
        /\ op \in Ops /\ sessions \in Nat
    BY <1>1 DEF TypeOK
  <2>5. ASSUME NEW m \in ToSet(Outgoing)
        PROVE  /\ m.ticket = drawn /\ m.id = requestId /\ m.sess <= sessions
               /\ m.op # "hello" => phase = "call" /\ m.sess = sessionId
    <3>1. CASE phase = "hello"
      <4>1. m.op = "hello" /\ m.id = requestId /\ m.ticket = drawn /\ m.sess = 0
        BY <2>2, <2>4, <3>1, HelloRequestType DEF Outgoing, GoodHello
      <4> QED BY <2>4, <4>1
    <3>2. CASE phase # "hello"
      <4>1. m.id = requestId /\ m.ticket = drawn /\ m.sess = sessionId
        BY <2>2, <2>4, <3>2, RequestFragmentsType DEF Outgoing, GoodRequests
      <4>2. phase = "call"
        BY <1>1, <3>2 DEF TypeOK
      <4> QED BY <4>1, <4>2 DEF SessionsInv
    <3> QED BY <3>1, <3>2
  <2>6. Repeating(Outgoing)
    BY <1>1, <2>1, <2>3, <2>5 DEF Repeating
  <2> QED BY <2>6
<1>3. CASE ~ (attempt < Retries)
  <2>1. phase' = "idle" /\ c2s' = c2s
    BY <1>3 DEF Timeout, Finish
  <2>2. Shrinking
    BY <1>1, <2>1, Taking DEF Shrinking
  <2> QED BY <2>2
<1> QED BY <1>2, <1>3

\* What the bridge does with a response.
LEMMA ClientReceivesKind ==
  ASSUME Before, NEW i \in DOMAIN s2c, ClientReceives(i)
  PROVE  Shrinking \/ \E b : Drawing(b)
<1> USE DEF Before, OrderInv
<1>1. ToSet(RemoveAt(s2c, i)) \subseteq ToSet(s2c) /\ s2c[i] \in ToSet(s2c) /\ s2c[i] \in Response
  BY Taking, ChannelSets, ChannelTypes
<1>2. CASE Ignore(i)
  <2>1. UNCHANGED <<session, runs, drawn, sessions>> /\ c2s' = c2s /\ s2c' = RemoveAt(s2c, i)
        /\ UNCHANGED <<client, phase, requestId, sessionId>>
    BY <1>2 DEF Ignore, clientVars, serverVars, historyVars
  <2>2. Shrinking
    BY <1>1, <2>1, Taking DEF Shrinking
  <2> QED BY <2>2
<1>3. CASE AcceptError(i) \/ AcceptFragment(i)
  <2>1. /\ UNCHANGED <<session, runs, drawn, sessions>> /\ c2s' = c2s /\ s2c' = RemoveAt(s2c, i)
        /\ UNCHANGED <<client, requestId, sessionId>> /\ phase' \in {phase, "idle"}
    BY <1>3 DEF AcceptError, AcceptFragment, Finish, historyVars
  <2>2. Shrinking
    BY <1>1, <2>1, Taking DEF Shrinking
  <2> QED BY <2>2
<1>4. CASE AcceptHello(i) /\ s2c[i].ticket # drawn
  <2>1. /\ UNCHANGED <<session, runs, drawn, sessions>> /\ c2s' = c2s /\ s2c' = RemoveAt(s2c, i)
        /\ UNCHANGED <<client, requestId, sessionId>> /\ phase' = "idle"
    BY <1>4 DEF AcceptHello, Finish
  <2>2. Shrinking
    BY <1>1, <2>1, Taking DEF Shrinking
  <2> QED BY <2>2
<1>5. CASE AcceptHello(i) /\ s2c[i].ticket = drawn
  <2>1. /\ UNCHANGED <<session, runs, sessions, client, op>> /\ s2c' = RemoveAt(s2c, i)
        /\ drawn' = drawn + 1 /\ sessionId' = s2c[i].sess /\ phase = "hello"
        /\ c2s' = Transmit(c2s, RequestFragments(op, client, sessionId', requestId', drawn'))
    BY <1>5 DEF AcceptHello
  <2>2. sessionId' <= sessions
    BY <1>1, <2>1 DEF SessionsInv
  <2>3. /\ client \in 1 .. MaxClients /\ sessionId' \in Nat /\ requestId' \in 1 .. IdModulus - 1
        /\ op \in Ops
    BY <2>1 DEF TypeOK
  <2>4. drawn' \in Ticket
    <3>1. drawn' \in 0 .. MaxTickets /\ drawn \in Nat /\ MaxTickets \in Nat
      BY SessionAssumption DEF TypeOK
    <3> QED BY <2>1, <3>1 DEF Ticket
  <2> DEFINE b == RequestFragments(op, client, sessionId', requestId', drawn')
  <2>5. GoodRequests(op, client, sessionId', requestId', drawn')
    BY ONLY <2>3, <2>4, RequestFragmentsType
  <2>6. b \in Seq(Request)
        /\ \A m \in ToSet(b) : m.ticket = drawn' /\ m.id = requestId' /\ m.sess = sessionId'
    BY ONLY <2>5 DEF GoodRequests
  <2>7. c2s' = Transmit(c2s, b)
    BY <2>1
  <2> HIDE DEF b
  <2>8. Drawing(b)
    BY <1>1, <2>1, <2>2, <2>6, <2>7 DEF Drawing
  <2> QED BY <2>8
<1> QED BY <1>2, <1>3, <1>4, <1>5 DEF ClientReceives

\* A new UdpBackend sends nothing yet.
LEMMA RestartShrinks ==
  ASSUME Before, NEW id \in StartIds, RestartClient(id)
  PROVE  Shrinking
<1>1. /\ UNCHANGED <<session, runs, drawn, sessions, c2s>> /\ s2c' = << >>
      /\ phase' = "idle" /\ sessionId' = 0 /\ client' = client + 1
  BY DEF RestartClient, Finish, historyVars
<1>2. ToSet(<< >>) = {}
  BY DEF ToSet
<1> QED BY <1>1, <1>2, Taking DEF Shrinking

\* send_response answers the oldest request.
LEMMA SendResponseAnswers ==
  ASSUME Before, Ordered, NEW i \in Arriving(c2s), InSession(c2s[i]),
         UNCHANGED <<client, drawn, requestId, sessionId, phase, sessions>>,
         c2s' = RemoveAt(c2s, i),
         NEW b \in Seq(Response), SendResponse(c2s[i], b), \A r \in ToSet(b) : r.sess = session.id,
         RunsGrow,
         \A r \in DOMAIN runs' : r \in DOMAIN runs \/
           /\ ~ IsLast(c2s[i]) /\ runs'[r].ticket = c2s[i].ticket
           /\ r = Len(runs) + 1
  PROVE  Answering(c2s[i], b)
<1> USE DEF Before
<1>1. /\ i \in DOMAIN c2s /\ c2s[i] \in ToSet(c2s) /\ c2s[i] \in Request
      /\ \A n \in ToSet(c2s) : c2s[i].ticket <= n.ticket
  BY TakingOldest
<1>2. ToSet(c2s') \subseteq ToSet(c2s) /\ Sorted(c2s')
  BY <1>1, Taking
<1>3. session' = [session EXCEPT !.hasLast = TRUE, !.lastId = c2s[i].id, !.cache = b]
  BY DEF SendResponse
<1>4. /\ session'.active = session.active /\ session'.id = session.id
      /\ session'.peer = session.peer
      /\ session'.hasLast = TRUE /\ session'.lastId = c2s[i].id /\ session'.cache = b
  BY <1>3 DEF TypeOK
<1>5. ToSet(s2c') \subseteq ToSet(s2c) \cup ToSet(b)
  BY ChannelSets DEF SendResponse
<1> QED BY <1>1, <1>2, <1>4, <1>5 DEF Answering

\* A burst that answers m.
BurstOf(b, m, kind) ==
  /\ b \in Seq(Response) /\ b # << >>
  /\ \A r \in ToSet(b) : /\ r.kind = kind /\ r.peer = m.peer /\ r.id = m.id
                         /\ r.ticket = m.ticket /\ r.sess = session.id

\* The fragments of a response are such a burst.
LEMMA IsBurst ==
  ASSUME TypeOK, NEW kind \in {"response"} \cup Refusal, NEW m \in Request, NEW count \in Frag,
         NEW run \in Nat
  PROVE  BurstOf(ResponseFragments(kind, m, session.id, count, run), m, kind)
<1> DEFINE sess == session.id
           b == ResponseFragments(kind, m, sess, count, run)
<1>1. sess \in Nat
  BY DEF TypeOK
<1>2. DOMAIN b = 1 .. count /\ 1 \in 1 .. count
  <2>1. count \in Nat /\ count >= 1
    BY FragFacts DEF Frag
  <2> QED BY <2>1 DEF ResponseFragments
<1> HIDE DEF sess, b
<1>3. b # << >>
  <2>1. DOMAIN << >> = {}
    OBVIOUS
  <2> QED BY <1>2, <2>1, Zenon
<1>4. GoodResponses(kind, m, sess, count, run)
  BY ONLY <1>1, kind \in {"response"} \cup Refusal, m \in Request, count \in Frag, run \in Nat,
          ResponseFragmentsType
<1>5. /\ b \in Seq(Response)
      /\ \A r \in ToSet(b) : /\ r.kind = kind /\ r.peer = m.peer /\ r.id = m.id
                             /\ r.ticket = m.ticket /\ r.sess = sess
  BY ONLY <1>4 DEF GoodResponses, b
<1>6. BurstOf(b, m, kind)
  BY <1>3, <1>5 DEF BurstOf, sess
<1> QED BY <1>6 DEF b, sess

\* An answer of the given kind to m; as a replay only if m is older than the last.
Answers(m, kind) ==
  /\ \E b : Answering(m, b) /\ BurstOf(b, m, kind)
  /\ kind = "replayed" => ~ IsLast(m) /\ ~ IsFresh(m)

\* What the agent does with a request.
LEMMA AgentReceivesKind ==
  ASSUME Before, Ordered, NEW i \in Arriving(c2s), AgentReceives(i)
  PROVE  Shrinking \/ Greeting \/ \E kind : Answers(c2s[i], kind)
<1> USE DEF Before
<1> DEFINE m == c2s[i]
<1>1. i \in DOMAIN c2s /\ m \in Request /\ m \in ToSet(c2s)
  BY TakingOldest
<1>2. ToSet(RemoveAt(c2s, i)) \subseteq ToSet(c2s) /\ Sorted(RemoveAt(c2s, i))
  BY <1>1, Taking
<1>3. CASE ProcessHello(i)
  <2> DEFINE b == ResponseFragments("response", m, sessions', 1, 0)
  <2>1. /\ c2s' = RemoveAt(c2s, i) /\ sessions' = sessions + 1 /\ sessions' \in Nat
        /\ s2c' = Transmit(s2c, b) /\ session'.cache = << >> /\ session'.hasLast = FALSE
        /\ session'.id = sessions'
        /\ UNCHANGED <<client, drawn, requestId, sessionId, phase, runs>>
    BY <1>3 DEF ProcessHello, clientVars, TypeOK
  <2>2. "response" \in {"response"} \cup Refusal /\ 1 \in Frag /\ 0 \in Nat
    BY FragFacts
  <2> HIDE DEF m
  <2>3. GoodResponses("response", m, sessions', 1, 0)
    BY ONLY <1>1, <2>1, <2>2, ResponseFragmentsType
  <2>4. b \in Seq(Response) /\ \A r \in ToSet(b) : r.sess = sessions' /\ r.kind = "response"
    BY ONLY <2>3 DEF GoodResponses
  <2> HIDE DEF b
  <2>5. ToSet(s2c') \subseteq ToSet(s2c) \cup ToSet(b)
    BY <2>1, <2>4, ChannelSets
  <2>6. \A r \in ToSet(s2c') : r \in ToSet(s2c) \/ (r.sess = sessions' /\ r.kind = "response")
    BY ONLY <2>4, <2>5, Zenon
  <2>7. Greeting
    BY ONLY <1>2, <2>1, <2>6 DEF Greeting
  <2> QED BY <2>7
<1>4. CASE Drop(i) \/ StoreFragment(i)
  <2>1. /\ c2s' = RemoveAt(c2s, i) /\ s2c' = s2c
        /\ UNCHANGED <<session, runs, drawn, sessions, client, phase, requestId, sessionId>>
    BY <1>4 DEF Drop, StoreFragment, clientVars, serverVars, historyVars
  <2>2. Shrinking
    BY <1>2, <2>1 DEF Shrinking
  <2> QED BY <2>2
<1>5. CASE ResendCached(i)
  <2>1. /\ c2s' = RemoveAt(c2s, i) /\ s2c' = Transmit(s2c, session.cache)
        /\ UNCHANGED <<session, runs, drawn, sessions, client, phase, requestId, sessionId>>
    BY <1>5 DEF ResendCached, clientVars, serverVars, historyVars
  <2>2. ToSet(s2c') \subseteq ToSet(s2c) \cup ToSet(session.cache)
    BY <2>1, ChannelSets DEF TypeOK
  <2>3. Shrinking
    BY <1>2, <2>1, <2>2 DEF Shrinking
  <2> QED BY <2>3
<1>6. ASSUME NEW kind \in Refusal, SendError(m, kind), InSession(m), c2s' = RemoveAt(c2s, i),
             UNCHANGED <<client, drawn, requestId, sessionId, phase, sessions, runs>>
      PROVE  \E b : Answering(m, b) /\ BurstOf(b, m, kind)
  <2> DEFINE b == ResponseFragments(kind, m, session.id, 1, 0)
  <2>1. SendResponse(m, b)
    BY <1>6 DEF SendError
  <2>2. BurstOf(b, m, kind)
    BY <1>1, <1>6, FragFacts, IsBurst
  <2>3. RunsGrow /\ \A r \in DOMAIN runs' : r \in DOMAIN runs
    BY <1>6 DEF RunsGrow
  <2> HIDE DEF b
  <2>4. b \in Seq(Response) /\ \A r \in ToSet(b) : r.sess = session.id
    BY <2>2 DEF BurstOf
  <2>5. Answering(m, b)
    BY <1>6, <2>1, <2>3, <2>4, SendResponseAnswers
  <2> QED BY <2>2, <2>5
<1>7. CASE RejectReplay(i)
  <2>1. /\ SendError(m, "replayed") /\ InSession(m) /\ c2s' = RemoveAt(c2s, i)
        /\ UNCHANGED <<client, drawn, requestId, sessionId, phase, sessions, runs>>
        /\ ~ IsLast(m) /\ ~ IsFresh(m)
    BY <1>7 DEF RejectReplay, clientVars, historyVars
  <2>2. Answers(m, "replayed")
    BY <1>6, <2>1 DEF Answers, Refusal
  <2> QED BY <2>2
<1>8. CASE ProcessRequest(i)
  <2>1. /\ InSession(m) /\ ~ IsLast(m) /\ c2s' = RemoveAt(c2s, i)
        /\ UNCHANGED <<client, drawn, requestId, sessionId, phase, sessions>>
    BY <1>8 DEF ProcessRequest, clientVars
  <2>2. CASE m.op = "file"
    <3>1. SendError(m, "unsupported") /\ UNCHANGED runs
      BY <1>8, <2>2 DEF ProcessRequest
    <3>2. Answers(m, "unsupported")
      BY <1>6, <2>1, <3>1 DEF Answers, Refusal
    <3> QED BY <3>2
  <2>3. CASE m.op # "file"
    <3> DEFINE b == ResponseFragments("response", m, session.id, RespCount(m.op), Len(runs'))
               new == [ticket |-> m.ticket, parts |-> {rq'.parts[f] : f \in 1 .. rq'.count}]
    <3>1. runs' = Append(runs, new) /\ SendResponse(m, b)
      BY <1>8, <2>3 DEF ProcessRequest
    <3>2. new.ticket = m.ticket
      OBVIOUS
    <3> HIDE DEF new
    <3>3. /\ Len(runs) \in Nat /\ DOMAIN runs = 1 .. Len(runs)
          /\ Len(runs') = Len(runs) + 1 /\ DOMAIN runs' = 1 .. Len(runs) + 1
          /\ runs'[Len(runs) + 1] = new
          /\ \A r \in 1 .. Len(runs) : runs'[r] = runs[r]
      <4>1. runs \in Seq([ticket : Ticket, parts : SUBSET (Ticket \cup {0})])
        BY DEF TypeOK
      <4> QED BY ONLY <3>1, <4>1
    <3>4. RunsGrow
      BY <3>3 DEF RunsGrow
    <3>5. \A r \in DOMAIN runs' : r \in DOMAIN runs \/
            (~ IsLast(m) /\ runs'[r].ticket = m.ticket /\ r = Len(runs) + 1)
      <4>1. \A r \in DOMAIN runs' : r \in DOMAIN runs \/ r = Len(runs) + 1
        BY <3>3
      <4> QED BY <2>1, <3>2, <3>3, <4>1
    <3>6. RespCount(m.op) \in Frag /\ Len(runs') \in Nat /\ "response" \in {"response"} \cup Refusal
      BY <3>3, FragFacts
    <3>7. BurstOf(b, m, "response")
      BY <1>1, <3>6, IsBurst
    <3> HIDE DEF b
    <3>8. b \in Seq(Response) /\ \A r \in ToSet(b) : r.sess = session.id
      BY <3>7 DEF BurstOf
    <3>9. Answering(m, b)
      BY <2>1, <3>1, <3>4, <3>5, <3>8, SendResponseAnswers
    <3>10. Answers(m, "response")
      BY <3>7, <3>9 DEF Answers
    <3> QED BY <3>10
  <2> QED BY <2>2, <2>3
<1> QED BY <1>3, <1>4, <1>5, <1>7, <1>8 DEF AgentReceives

\* The kinds a step can be of.
StepKind ==
  \/ Shrinking \/ Greeting \/ ExpireSession
  \/ \E b : Drawing(b) \/ Repeating(b)
  \/ \E m, kind : Answers(m, kind)

\* Every step of an ordered network is of one of these kinds.
LEMMA EveryStepHasAKind ==
  ASSUME Before, Ordered, [Next]_vars
  PROVE  StepKind
<1>1. ASSUME NEW i \in DOMAIN c2s, LoseRequest(i)
      PROVE  Shrinking
  <2>1. /\ c2s' = RemoveAt(c2s, i) /\ s2c' = s2c
        /\ UNCHANGED <<session, runs, drawn, sessions, client, phase, requestId, sessionId>>
    BY <1>1 DEF LoseRequest, clientVars, serverVars, historyVars
  <2> QED BY <2>1, Taking DEF Shrinking
<1>2. ASSUME NEW i \in DOMAIN s2c, LoseResponse(i)
      PROVE  Shrinking
  <2>1. /\ s2c' = RemoveAt(s2c, i) /\ c2s' = c2s
        /\ UNCHANGED <<session, runs, drawn, sessions, client, phase, requestId, sessionId>>
    BY <1>2 DEF LoseResponse, clientVars, serverVars, historyVars
  <2> QED BY <2>1, Taking DEF Shrinking
<1>3. CASE UNCHANGED vars
  <2>1. /\ s2c' = s2c /\ c2s' = c2s
        /\ UNCHANGED <<session, runs, drawn, sessions, client, phase, requestId, sessionId>>
    BY <1>3 DEF vars
  <2>2. Shrinking
    BY <2>1, Taking DEF Shrinking
  <2> QED BY <2>2 DEF StepKind
<1>4. ASSUME NEW i \in Arriving(s2c), ClientReceives(i)
      PROVE  StepKind
  BY <1>4, ArrivingDomain, ClientReceivesKind DEF StepKind
<1>5. ASSUME NEW i \in Arriving(c2s), AgentReceives(i)
      PROVE  StepKind
  BY <1>5, AgentReceivesKind DEF StepKind
<1>6. ASSUME NEW o \in Ops, StartCall(o)
      PROVE  StepKind
  BY <1>6, StartCallDraws DEF StepKind
<1>7. CASE Timeout
  BY <1>7, TimeoutRepeats DEF StepKind
<1>8. ASSUME NEW id \in StartIds, RestartClient(id)
      PROVE  StepKind
  BY <1>8, RestartShrinks DEF StepKind
<1>9. CASE ExpireSession
  BY <1>9 DEF StepKind
<1> QED BY <1>1, <1>2, <1>3, <1>4, <1>5, <1>6, <1>7, <1>8, <1>9 DEF Next, StepKind

\* Every step keeps the order.
LEMMA OrderNext ==
  ASSUME Before, Ordered, [Next]_vars
  PROVE  OrderInv'
<1>1. StepKind
  BY EveryStepHasAKind
<1>2. (\E m, kind : Answers(m, kind)) => OrderInv'
  BY OrderAnswering DEF Answers
<1> QED BY <1>1, <1>2, OrderShrinking, OrderGreeting, OrderExpire, OrderDrawing, OrderRepeating
         DEF StepKind

\* The order holds before the first call.
LEMMA OrderInit == Init => OrderInv
<1>1. ToSet(<< >>) = {}
  BY DEF ToSet
<1> QED BY <1>1 DEF Init, OrderInv, SessionsInv, FifoInv, RunsInv, LastInv, Sorted, NoSession

\* A handshake always leaves a ticket for its call.
LEMMA DrawnHolds == Spec => []DrawnInv
<1>1. Init => TypeOK /\ DrawnInv
  BY TypeInit DEF Init, DrawnInv
<1>2. TypeOK /\ DrawnInv /\ [Next]_vars => TypeOK' /\ DrawnInv'
  BY TypeNext, DrawnNext
<1> QED BY <1>1, <1>2, PTL DEF Spec

\* OrderInv is an invariant of every ordered network: requests reach the agent in
\* the order they were drawn, and one that ran can only come back while it is the
\* last one its session has answered (process_datagram).
THEOREM OrderHolds ==
  ASSUME Ordered
  PROVE  Spec => []OrderInv
<1>1. Init => TypeOK /\ DrawnInv /\ MessageInv /\ OrderInv
  BY TypeInit, AnswersInit, OrderInit DEF Init, DrawnInv
<1>2. TypeOK /\ DrawnInv /\ MessageInv /\ OrderInv /\ [Next]_vars
        => TypeOK' /\ DrawnInv' /\ MessageInv' /\ OrderInv'
  BY TypeNext, DrawnNext, AnswersNext, OrderNext DEF Before
<1> QED BY <1>1, <1>2, PTL DEF Spec

\* Runs in the order of their tickets are runs of different calls.
LEMMA RunsDiffer ==
  ASSUME TypeOK, RunsInv, NEW r \in DOMAIN runs, NEW q \in DOMAIN runs,
         runs[r].ticket = runs[q].ticket
  PROVE  r = q
<1>1. r \in Nat /\ q \in Nat
  BY DEF TypeOK
<1>2. runs[r].ticket \in Nat /\ runs[q].ticket \in Nat
  BY RunTickets
<1>3. ~ (r < q) /\ ~ (q < r)
  BY <1>2 DEF RunsInv
<1> QED BY <1>1, <1>3

\* docs/protocol.md: "A duplicate of the last completed request resends its result
\* rather than repeating a keyboard or file mutation."  It holds for every number
\* of retries, losses and restarts as long as the network keeps datagrams in order.
THEOREM OrderedMeansOnce ==
  ASSUME Ordered
  PROVE  Spec => []AtMostOnce
<1>1. TypeOK /\ OrderInv => AtMostOnce
  BY RunsDiffer DEF OrderInv, AtMostOnce
<1> QED BY <1>1, TypeCorrect, OrderHolds, PTL

\* The fragments _exchange_with_packet joins into one answer come from one run,
\* although they may have been collected over several retransmissions.
THEOREM AnswersAreWhole ==
  ASSUME Ordered
  PROVE  Spec => []AnswerIsWhole
<1>1. TypeOK /\ OrderInv /\ AnswerIsOwn => AnswerIsWhole
  <2> SUFFICES ASSUME TypeOK, OrderInv, AnswerIsOwn, phase # "call", result.status = "ok",
                      NEW r \in result.shows, NEW q \in result.shows
               PROVE  r = q
    BY DEF AnswerIsWhole
  <2>1. /\ r \in DOMAIN runs /\ q \in DOMAIN runs
        /\ runs[r].ticket = issued /\ runs[q].ticket = issued
    BY DEF AnswerIsOwn
  <2> QED BY <2>1, RunsDiffer DEF OrderInv
<1> QED BY <1>1, TypeCorrect, OrderHolds, AnswersAreOwn, PTL

----------------------------------------------------------------------------
(* The session implements AtMostOnceCall.  A step of the session is one of *)
(* the abstract steps, or changes nothing a caller or the target sees.     *)

\* What a step looks like to the caller and the target.
Stutters == UNCHANGED <<issued, runs>> /\ CallStatus' = CallStatus

Issues ==
  /\ phase # "call" /\ phase' = "call" /\ runs' = runs
  /\ issued' \in Nat /\ issued' > issued

\* The call in progress ends.
Ends(status) ==
  /\ phase = "call" /\ phase' # "call" /\ UNCHANGED <<issued, runs>>
  /\ result'.status = status

RunsCall(t) ==
  /\ UNCHANGED <<issued, phase, result>>
  /\ t \in 1 .. issued
  /\ \A r \in DOMAIN runs : runs[r].ticket < t
  /\ \E new : new.ticket = t /\ runs' = Append(runs, new)

Simulates ==
  \/ Stutters \/ Issues
  \/ \E t : RunsCall(t)
  \/ \E status : Ends(status) /\ status \notin {"none", "ok"}
  \/ Ends("ok") /\ \E r \in DOMAIN runs : runs[r].ticket = issued

\* The caller has either returned or not.
LEMMA StatusOfCall ==
  /\ phase = "call" => CallStatus = "pending"
  /\ phase # "call" /\ result.status \in {"none", "ok"} => CallStatus = result.status
  /\ phase # "call" /\ result.status \notin {"none", "ok"} => CallStatus = "failed"
  /\ phase # "call" => CallStatus # "pending"
BY DEF CallStatus

\* The same after a step.
LEMMA StatusOfCallAfter ==
  /\ phase' = "call" => CallStatus' = "pending"
  /\ phase' # "call" /\ result'.status \in {"none", "ok"} => CallStatus' = result'.status
  /\ phase' # "call" /\ result'.status \notin {"none", "ok"} => CallStatus' = "failed"
BY DEF CallStatus


\* One more run makes one more entry of the log.
LEMMA TicketsRunGrows ==
  ASSUME TypeOK, NEW t \in Nat, NEW new, new.ticket = t, runs' = Append(runs, new)
  PROVE  TicketsRun' = Append(TicketsRun, t)
<1> DEFINE T == [ticket : Ticket, parts : SUBSET (Ticket \cup {0})]
<1>1. /\ Len(runs) \in Nat /\ DOMAIN runs = 1 .. Len(runs)
      /\ DOMAIN runs' = 1 .. Len(runs) + 1 /\ runs'[Len(runs) + 1] = new
      /\ \A i \in 1 .. Len(runs) : runs'[i] = runs[i]
  BY DEF TypeOK
<1>2. \A i \in 1 .. Len(runs) : runs[i].ticket \in Nat
  BY <1>1, RunTickets
<1>3. TicketsRun = [i \in 1 .. Len(runs) |-> runs[i].ticket]
  BY <1>1 DEF TicketsRun
<1>4. TicketsRun \in Seq(Nat) /\ Len(TicketsRun) = Len(runs)
  BY <1>1, <1>2, <1>3, IsASeq
<1>5. Append(TicketsRun, t) = [i \in 1 .. Len(runs) + 1 |-> IF i = Len(runs) + 1 THEN t ELSE TicketsRun[i]]
  <2> DEFINE longer == Append(TicketsRun, t)
  <2>1. /\ longer \in Seq(Nat) /\ Len(longer) = Len(runs) + 1
        /\ \A i \in 1 .. Len(runs) : longer[i] = TicketsRun[i]
        /\ longer[Len(runs) + 1] = t
    BY <1>4, AppendProperties
  <2> HIDE DEF longer
  <2>2. longer = [i \in 1 .. Len(runs) + 1 |-> longer[i]]
    BY <2>1, LenProperties
  <2>3. \A i \in 1 .. Len(runs) + 1 : longer[i] = IF i = Len(runs) + 1 THEN t ELSE TicketsRun[i]
    <3>1. \A i \in 1 .. Len(runs) + 1 : i = Len(runs) + 1 \/ (i \in 1 .. Len(runs) /\ i # Len(runs) + 1)
      BY ONLY <1>1
    <3>2. \A i \in 1 .. Len(runs) : longer[i] = TicketsRun[i]
      BY <2>1
    <3>3. longer[Len(runs) + 1] = t
      BY <2>1
    <3> QED BY ONLY <3>1, <3>2, <3>3, Zenon
  <2>4. longer = [i \in 1 .. Len(runs) + 1 |-> IF i = Len(runs) + 1 THEN t ELSE TicketsRun[i]]
    BY ONLY <2>2, <2>3, Zenon
  <2> QED BY <2>4 DEF longer
<1>6. TicketsRun' = [i \in 1 .. Len(runs) + 1 |-> runs'[i].ticket]
  BY <1>1 DEF TicketsRun
<1>7. \A i \in 1 .. Len(runs) + 1 : runs'[i].ticket = IF i = Len(runs) + 1 THEN t ELSE TicketsRun[i]
  BY <1>1, <1>3
<1> QED BY ONLY <1>5, <1>6, <1>7, Zenon

\* Every such step is one AtMostOnceCall allows.
LEMMA SimulatedSteps ==
  ASSUME TypeOK, Simulates
  PROVE  [Calls!Next]_(Calls!absVars)
<1>0. runs' = runs => TicketsRun' = TicketsRun
  BY DEF TicketsRun
<1>1. CASE Stutters
  BY <1>0, <1>1 DEF Stutters, Calls!absVars
<1>2. CASE Issues
  <2>1. CallStatus # "pending" /\ CallStatus' = "pending"
    BY <1>2, StatusOfCall, StatusOfCallAfter DEF Issues
  <2>2. TicketsRun' = TicketsRun /\ issued' \in Nat /\ issued' > issued
    BY <1>0, <1>2 DEF Issues
  <2>3. Calls!Issue(issued')
    BY <2>1, <2>2 DEF Calls!Issue
  <2> QED BY <2>2, <2>3 DEF Calls!Next
<1>3. ASSUME NEW status, Ends(status), status \notin {"none", "ok"}
      PROVE  Calls!Next
  <2>1. CallStatus = "pending" /\ CallStatus' = "failed"
    BY <1>3, StatusOfCall, StatusOfCallAfter DEF Ends
  <2>2. TicketsRun' = TicketsRun /\ issued' = issued
    BY <1>0, <1>3 DEF Ends
  <2> QED BY <2>1, <2>2 DEF Calls!Next, Calls!Fail
<1>4. ASSUME Ends("ok"), NEW r \in DOMAIN runs, runs[r].ticket = issued
      PROVE  Calls!Next
  <2>1. CallStatus = "pending" /\ CallStatus' = "ok"
    BY <1>4, StatusOfCall, StatusOfCallAfter DEF Ends
  <2>2. TicketsRun' = TicketsRun /\ issued' = issued
    BY <1>0, <1>4 DEF Ends
  <2>3. r \in DOMAIN TicketsRun /\ TicketsRun[r] = issued
    BY <1>4 DEF TicketsRun
  <2>4. Calls!Return
    BY <2>1, <2>2, <2>3 DEF Calls!Return
  <2> QED BY <2>4 DEF Calls!Next
<1>5. ASSUME NEW t, RunsCall(t)
      PROVE  Calls!Next
  <2>1. PICK new : new.ticket = t /\ runs' = Append(runs, new)
    BY <1>5 DEF RunsCall
  <2>2. issued' = issued /\ CallStatus' = CallStatus /\ t \in 1 .. issued
    BY <1>5 DEF RunsCall, CallStatus
  <2>3. \A i \in DOMAIN TicketsRun : TicketsRun[i] < t
    BY <1>5 DEF RunsCall, TicketsRun
  <2>4. t \in Nat /\ t <= issued
    BY <2>2 DEF TypeOK
  <2>5. TicketsRun' = Append(TicketsRun, t)
    BY <2>1, <2>4, TicketsRunGrows
  <2>6. Calls!Run(t)
    BY <2>2, <2>3, <2>4, <2>5 DEF Calls!Run
  <2> QED BY <2>2, <2>6 DEF Calls!Next
<1> QED BY <1>1, <1>2, <1>3, <1>4, <1>5 DEF Simulates

\* An exchange that ends: for the caller nothing happened during a HELLO.
LEMMA FinishSimulates ==
  ASSUME TypeOK, NEW status, NEW shows, Finish(status, shows), UNCHANGED <<issued, runs>>,
         status # "none",
         phase = "call" /\ status = "ok" => \E r \in DOMAIN runs : runs[r].ticket = issued
  PROVE  Simulates
<1>1. phase' = "idle"
  BY DEF Finish
<1>2. CASE phase = "call"
  <2>1. result' = [status |-> status, shows |-> shows]
    BY <1>2 DEF Finish
  <2>2. Ends(status)
    BY <1>1, <1>2, <2>1 DEF Ends
  <2>3. CASE status = "ok"
    BY <1>2, <2>2, <2>3 DEF Simulates
  <2>4. CASE status # "ok"
    BY <2>2, <2>4 DEF Simulates
  <2> QED BY <2>3, <2>4
<1>3. CASE phase # "call"
  <2>1. result' = result
    BY <1>3 DEF Finish
  <2>2. Stutters
    BY <1>1, <1>3, <2>1 DEF Stutters, CallStatus
  <2> QED BY <2>2 DEF Simulates
<1> QED BY <1>2, <1>3

\* Steps that leave the caller and the log alone.
LEMMA FrameSimulates ==
  ASSUME UNCHANGED <<phase, result, issued, runs>>
  PROVE  Simulates
BY DEF Simulates, Stutters, CallStatus

\* A call, or the HELLO before it, is sent.
LEMMA StartCallSimulates ==
  ASSUME TypeOK, MessageInv, NEW o \in Ops, StartCall(o)
  PROVE  Simulates
<1>1. phase = "idle" /\ drawn' = drawn + 1 /\ UNCHANGED <<result, runs>>
  BY DEF StartCall
<1>2. CASE sessionId = 0
  <2>1. phase' = "hello" /\ issued' = issued
    BY <1>2 DEF StartCall
  <2> QED BY <1>1, <2>1 DEF Simulates, Stutters, CallStatus
<1>3. CASE sessionId # 0
  <2>1. phase' = "call" /\ issued' = drawn'
    BY <1>3 DEF StartCall
  <2>2. issued' \in Nat /\ issued' > issued
    BY <1>1, <2>1, Numbers DEF MessageInv, IssuedInv
  <2>3. Issues
    BY <1>1, <2>1, <2>2 DEF Issues
  <2> QED BY <2>3 DEF Simulates
<1> QED BY <1>2, <1>3

\* What the bridge does with a response: only a complete answer of the call's own
\* run returns "ok".
LEMMA ClientReceivesSimulates ==
  ASSUME TypeOK, MessageInv, NEW i \in DOMAIN s2c, ClientReceives(i)
  PROVE  Simulates
<1>1. CASE Ignore(i)
  <2>1. UNCHANGED <<phase, result, issued, runs>>
    BY <1>1 DEF Ignore, clientVars, historyVars
  <2> QED BY <2>1, FrameSimulates
<1>2. CASE AcceptHello(i) /\ s2c[i].ticket # drawn
  <2>1. Finish("error", {}) /\ UNCHANGED <<issued, runs>>
    BY <1>2 DEF AcceptHello
  <2> QED BY <2>1, FinishSimulates
<1>3. CASE AcceptHello(i) /\ s2c[i].ticket = drawn
  <2>1. phase = "hello" /\ phase' = "call" /\ drawn' = drawn + 1 /\ issued' = drawn' /\ runs' = runs
    BY <1>3 DEF AcceptHello
  <2>2. issued' \in Nat /\ issued' > issued
    BY <2>1, Numbers DEF MessageInv, IssuedInv
  <2>3. Issues
    BY <2>1, <2>2 DEF Issues
  <2> QED BY <2>3 DEF Simulates
<1>4. CASE AcceptError(i)
  <2>1. Finish(s2c[i].kind, {}) /\ s2c[i].kind # "response" /\ UNCHANGED <<issued, runs>>
    BY <1>4 DEF AcceptError, historyVars
  <2>2. s2c[i].kind \in Refusal
    BY <2>1, ChannelTypes DEF Response
  <2>3. s2c[i].kind \notin {"none", "ok"}
    BY <2>2 DEF Refusal
  <2> QED BY <2>1, <2>3, FinishSimulates
<1>5. CASE AcceptFragment(i)
  <2> DEFINE m == s2c[i]
             have == {r \in received : r.frag # m.frag} \cup {m}
             status == IF Reassembles(have, m.count) THEN "ok" ELSE "error"
             shown == {r.run : r \in have}
  <2>1. phase = "call" /\ Matches(m) /\ m.kind = "response" /\ UNCHANGED <<issued, runs>>
    BY <1>5 DEF AcceptFragment, historyVars
  <2>2. m.run \in DOMAIN runs /\ runs[m.run].ticket = issued
    BY <2>1, MatchingShowsOwnRun
  <2>3. \/ Finish(status, shown)
        \/ UNCHANGED <<phase, result>>
    BY <1>5 DEF AcceptFragment
  <2>4. status # "none"
    OBVIOUS
  <2> HIDE DEF status, shown
  <2>5. CASE Finish(status, shown)
    BY <2>1, <2>2, <2>4, <2>5, FinishSimulates
  <2>6. CASE UNCHANGED <<phase, result>>
    BY <2>1, <2>6, FrameSimulates
  <2> QED BY <2>3, <2>5, <2>6
<1> QED BY <1>1, <1>2, <1>3, <1>4, <1>5 DEF ClientReceives

\* What the agent does with a request: it carries out a call only once, and never
\* after a later one.
LEMMA AgentReceivesSimulates ==
  ASSUME Before, Ordered, NEW i \in Arriving(c2s), AgentReceives(i)
  PROVE  Simulates
<1> USE DEF Before
<1> DEFINE m == c2s[i]
<1>1. UNCHANGED <<phase, result, issued>>
  BY DEF AgentReceives, ProcessHello, Drop, ResendCached, RejectReplay, StoreFragment,
         ProcessRequest, clientVars, historyVars
<1>2. CASE runs' = runs
  BY <1>1, <1>2, FrameSimulates
<1>3. CASE runs' # runs
  <2>1. ProcessRequest(i)
    BY <1>3 DEF AgentReceives, ProcessHello, Drop, ResendCached, RejectReplay, StoreFragment,
                historyVars
  <2> DEFINE new == [ticket |-> m.ticket, parts |-> {rq'.parts[f] : f \in 1 .. rq'.count}]
  <2>2. InSession(m) /\ ~ IsLast(m) /\ runs' = Append(runs, new)
    BY <1>3, <2>1 DEF ProcessRequest
  <2>3. new.ticket = m.ticket
    OBVIOUS
  <2> HIDE DEF new
  <2>4. i \in DOMAIN c2s /\ m \in ToSet(c2s) /\ m \in Request
    BY TakingOldest
  <2>5. m.op # "hello" /\ m.ticket <= issued
    BY <2>2, <2>4 DEF InSession, MessageInv, RequestsInv
  <2>6. m.ticket \in 1 .. issued
    <3>1. m.ticket \in 1 .. MaxTickets /\ MaxTickets \in Nat /\ issued \in Nat
      BY <2>4, SessionAssumption, Numbers DEF Request, Ticket
    <3> QED BY <2>5, <3>1
  <2>7. \A r \in DOMAIN runs : runs[r].ticket < m.ticket
    <3> SUFFICES ASSUME NEW r \in DOMAIN runs
                 PROVE  runs[r].ticket < m.ticket
      OBVIOUS
    <3>1. runs[r].ticket <= m.ticket /\ runs[r].ticket # m.ticket
      BY <2>2, <2>4 DEF OrderInv, RunsInv, LastInv
    <3>2. runs[r].ticket \in Nat /\ m.ticket \in Nat
      BY <2>4, Numbers
    <3> QED BY ONLY <3>1, <3>2
  <2>8. RunsCall(m.ticket)
    BY <1>1, <2>2, <2>3, <2>6, <2>7 DEF RunsCall
  <2> QED BY <2>8 DEF Simulates
<1> QED BY <1>2, <1>3

\* Every step of the session over an ordered network is a step of AtMostOnceCall
\* or leaves its state alone.
LEMMA NextSimulates ==
  ASSUME Before, Ordered, [Next]_vars
  PROVE  Simulates
<1> USE DEF Before
<1>1. ASSUME NEW o \in Ops, StartCall(o)
      PROVE  Simulates
  BY <1>1, StartCallSimulates
<1>2. CASE Timeout
  <2>1. Finish("timeout", {}) \/ UNCHANGED <<phase, result>>
    BY <1>2 DEF Timeout
  <2>2. UNCHANGED <<issued, runs>>
    BY <1>2 DEF Timeout, historyVars
  <2> QED BY <2>1, <2>2, FinishSimulates, FrameSimulates
<1>3. ASSUME NEW i \in Arriving(s2c), ClientReceives(i)
      PROVE  Simulates
  BY <1>3, ArrivingDomain, ClientReceivesSimulates
<1>4. ASSUME NEW id \in StartIds, RestartClient(id)
      PROVE  Simulates
  <2>1. Finish("crash", {}) /\ UNCHANGED <<issued, runs>>
    BY <1>4 DEF RestartClient, historyVars
  <2> QED BY <2>1, FinishSimulates
<1>5. ASSUME NEW i \in Arriving(c2s), AgentReceives(i)
      PROVE  Simulates
  BY <1>5, AgentReceivesSimulates
<1>6. CASE \/ ExpireSession
           \/ \E i \in DOMAIN c2s : LoseRequest(i)
           \/ \E i \in DOMAIN s2c : LoseResponse(i)
           \/ UNCHANGED vars
  <2>1. UNCHANGED <<phase, result, issued, runs>>
    BY <1>6 DEF ExpireSession, LoseRequest, LoseResponse, clientVars, historyVars, vars
  <2> QED BY <2>1, FrameSimulates
<1> QED BY <1>1, <1>2, <1>3, <1>4, <1>5, <1>6 DEF Next

\* No call has been issued or run at the start.
LEMMA InitSimulates == Init => Calls!Init
<1> SUFFICES ASSUME Init
             PROVE  Calls!Init
  OBVIOUS
<1>1. issued = 0 /\ phase = "idle" /\ result.status = "none" /\ runs = << >>
  BY DEF Init, NoResult
<1>2. CallStatus = "none"
  BY <1>1 DEF CallStatus
<1>3. TicketsRun = << >>
  BY <1>1 DEF TicketsRun
<1> QED BY <1>1, <1>2, <1>3 DEF Calls!Init

\* Over an ordered network, with any number of losses, retransmissions, expired
\* sessions and bridge restarts, the session of udp.py and ragent.c implements
\* AtMostOnceCall: every call runs at most once, in the order of the calls, and
\* one that returns has run.
THEOREM SessionImplementsCalls ==
  ASSUME Ordered
  PROVE  Spec => ImplementsCalls
<1>1. TypeOK /\ DrawnInv /\ MessageInv /\ OrderInv /\ [Next]_vars
        => [Calls!Next]_(Calls!absVars)
  BY TypeNext, NextSimulates, SimulatedSteps DEF Before
<1> QED BY <1>1, DrawnHolds, InitSimulates, TypeCorrect, MessagesGenuine, OrderHolds, PTL
        DEF Spec, ImplementsCalls, Calls!Spec

----------------------------------------------------------------------------
(* The replay check.                                                       *)

\* What the session remembers of its last answer: the cached fragments carry its
\* id, go to the bridge of the session, and answer nothing newer than what is
\* still in flight.
CacheInv ==
  /\ session.hasLast => session.cache # << >>
  /\ \A r \in ToSet(session.cache) :
       /\ r.id = session.lastId /\ r.peer = session.peer
       /\ \A m \in ToSet(c2s) : r.ticket <= m.ticket

\* Only requests of a bridge that is gone are refused as replays.
ReplayInv ==
  \A r \in ToSet(s2c) \cup ToSet(session.cache) : r.kind = "replayed" => r.peer # client

\* Differences of ids modulo the range of ids.
LEMMA Difference ==
  ASSUME NEW x \in Int
  PROVE  /\ x \in 0 .. IdModulus - 1 => x % IdModulus = x
         /\ x \in -IdModulus .. -1 => x % IdModulus = x + IdModulus
BY IdModulusAssumption

\* Within half the range of ids, a later draw looks newer, across the wrap and the
\* skipped 0 too.
LEMMA LaterDrawIsNewer ==
  ASSUME NEW id \in 1 .. IdModulus - 1, NEW j \in Nat, NEW k \in Nat, j < k,
         k + 1 < IdModulus \div 2
  PROVE  RequestIsNewer(DrawnBefore(id, j), DrawnBefore(id, k))
<1> DEFINE half == IdModulus \div 2
           d == DrawnBefore(id, j) - DrawnBefore(id, k)
<1>1. half \in Nat /\ 2 * half = IdModulus
  BY IdModulusAssumption
<1>2. d = k - j \/ d = k - j + 1 - IdModulus
  BY <1>1, IdModulusAssumption DEF DrawnBefore
<1> HIDE DEF half
<1>3. k + 1 < half
  BY DEF half
<1>4. d \in Int
  BY <1>2, IdModulusAssumption
<1> HIDE DEF d
<1>5. CASE d = k - j
  <2>1. d \in 0 .. IdModulus - 1 /\ d # 0 /\ d < half
    BY <1>1, <1>3, <1>5
  <2>2. d % IdModulus = d
    BY <1>4, <2>1, Difference
  <2> QED BY <2>1, <2>2 DEF RequestIsNewer, d, half
<1>6. CASE d = k - j + 1 - IdModulus
  <2>1. d \in -IdModulus .. -1 /\ d + IdModulus # 0 /\ d + IdModulus < half
    BY <1>1, <1>3, <1>6
  <2>2. d % IdModulus = d + IdModulus
    BY <1>4, <2>1, Difference
  <2> QED BY <2>1, <2>2 DEF RequestIsNewer, d, half
<1> QED BY <1>2, <1>5, <1>6

\* A request of the bridge that is alive passes the check: it is the last one
\* answered or looks newer.
LEMMA LiveRequestIsNewer ==
  ASSUME Before, CacheInv, MaxTickets < IdModulus \div 2,
         NEW m \in ToSet(c2s), InSession(m), m.peer = client
  PROVE  IsLast(m) \/ IsFresh(m)
<1> USE DEF Before
<1> SUFFICES ASSUME session.hasLast, m.id # session.lastId
             PROVE  RequestIsNewer(m.id, session.lastId)
  BY DEF IsLast, IsFresh
<1>1. PICK r : r \in ToSet(session.cache)
  <2>1. session.cache \in Seq(Response) /\ session.cache # << >>
    BY DEF TypeOK, CacheInv
  <2>2. 1 \in DOMAIN session.cache
    BY ONLY <2>1, EmptySeq, LenProperties
  <2> QED BY <2>2 DEF ToSet
<1>2. r.id = session.lastId /\ r.peer = client /\ r.ticket <= m.ticket
  BY <1>1 DEF CacheInv, InSession
<1>3. Drawn(r) /\ Drawn(m)
  BY <1>1 DEF MessageInv, ResponsesInv, RequestsInv
<1>4. /\ r.id = DrawnBefore(requestId, drawn - r.ticket)
      /\ m.id = DrawnBefore(requestId, drawn - m.ticket)
      /\ m.ticket <= drawn
  BY <1>2, <1>3 DEF Drawn
<1>5. /\ m.ticket \in Nat /\ r.ticket \in Nat /\ r.ticket >= 1
      /\ drawn \in 0 .. MaxTickets /\ MaxTickets \in Nat /\ IdModulus \div 2 \in Nat
      /\ requestId \in 1 .. IdModulus - 1
  <2>1. r \in Response /\ m \in Request
    BY <1>1, Numbers
  <2>2. r.ticket \in 1 .. MaxTickets /\ m.ticket \in 1 .. MaxTickets
    BY ONLY <2>1 DEF Response, Request, Ticket
  <2>3. drawn \in 0 .. MaxTickets /\ requestId \in 1 .. IdModulus - 1
    BY DEF TypeOK
  <2>4. MaxTickets \in Nat /\ IdModulus \div 2 \in Nat
    BY ONLY SessionAssumption, IdModulusAssumption
  <2> QED BY ONLY <2>2, <2>3, <2>4
<1>6. r.ticket # m.ticket
  BY <1>2, <1>4
<1>7. /\ drawn - m.ticket \in Nat /\ drawn - r.ticket \in Nat
      /\ drawn - m.ticket < drawn - r.ticket
      /\ (drawn - r.ticket) + 1 < IdModulus \div 2
  BY ONLY <1>2, <1>4, <1>5, <1>6, MaxTickets < IdModulus \div 2
<1>8. RequestIsNewer(DrawnBefore(requestId, drawn - m.ticket), DrawnBefore(requestId, drawn - r.ticket))
  BY ONLY <1>5, <1>7, LaterDrawIsNewer
<1> QED BY <1>2, <1>4, <1>8

\* What a step has to say about the cache.
LEMMA CacheFrame ==
  ASSUME Before, CacheInv,
         session'.hasLast => session.hasLast,
         session'.cache = session.cache, session'.lastId = session.lastId,
         session'.peer = session.peer,
         \A m \in ToSet(c2s') : m \in ToSet(c2s) \/ m.ticket >= drawn
  PROVE  CacheInv'
<1> USE DEF Before
<1>1. session'.hasLast => session'.cache # << >>
  BY DEF CacheInv
<1>2. ASSUME NEW r \in ToSet(session'.cache)
      PROVE  /\ r.id = session'.lastId /\ r.peer = session'.peer
             /\ \A m \in ToSet(c2s') : r.ticket <= m.ticket
  <2>1. r \in ToSet(session.cache) /\ r \in Response
    BY <1>2, Numbers
  <2>2. r.ticket \in Nat /\ r.ticket <= drawn
    BY <2>1 DEF MessageInv, ResponsesInv, Drawn, Response, Ticket
  <2>3. drawn \in Nat /\ \A m \in ToSet(c2s') : m.ticket \in Nat
    <3>1. \A m \in ToSet(c2s') : m \in Request
      BY ToSetSubset DEF TypeOK
    <3> QED BY <3>1, Numbers DEF Request, Ticket
  <2>4. \A m \in ToSet(c2s') : r.ticket <= m.ticket
    BY <2>1, <2>2, <2>3 DEF CacheInv
  <2> QED BY <1>2, <2>1, <2>4 DEF CacheInv
<1> QED BY <1>1, <1>2 DEF CacheInv

\* A burst that fits is sent, and nothing older than the last draw is added.
LEMMA CacheSending ==
  ASSUME Before, CacheInv, UNCHANGED session, NEW b \in Seq(Request), c2s' = Transmit(c2s, b),
         \A m \in ToSet(b) : m.ticket >= drawn
  PROVE  CacheInv'
<1> USE DEF Before
<1>1. ToSet(c2s') \subseteq ToSet(c2s) \cup ToSet(b)
  BY ChannelSets
<1> QED BY <1>1, CacheFrame

\* Every kind of step keeps the cache in step with the last answer.
LEMMA CacheNext ==
  ASSUME Before, CacheInv, StepKind
  PROVE  CacheInv'
<1> USE DEF Before
<1>1. CASE Shrinking
  BY <1>1, CacheFrame DEF Shrinking
<1>2. CASE Greeting
  <2>1. ToSet(<< >>) = {}
    BY DEF ToSet
  <2> QED BY <1>2, <2>1 DEF Greeting, CacheInv
<1>3. CASE ExpireSession
  <2>1. c2s' = c2s /\ session' = [session EXCEPT !.active = FALSE, !.hasLast = FALSE]
    BY <1>3 DEF ExpireSession
  <2>2. session'.hasLast = FALSE /\ session'.cache = session.cache
        /\ session'.lastId = session.lastId /\ session'.peer = session.peer
    BY <2>1 DEF TypeOK
  <2> QED BY <2>1, <2>2, CacheFrame
<1>4. ASSUME NEW b, Drawing(b)
      PROVE  CacheInv'
  <2>1. /\ session' = session /\ b \in Seq(Request) /\ c2s' = Transmit(c2s, b)
        /\ \A m \in ToSet(b) : m.ticket = drawn + 1
    BY <1>4 DEF Drawing
  <2>2. drawn + 1 >= drawn
    BY Numbers
  <2> QED BY <2>1, <2>2, CacheSending
<1>5. ASSUME NEW b, Repeating(b)
      PROVE  CacheInv'
  <2>1. /\ session' = session /\ b \in Seq(Request) /\ c2s' = Transmit(c2s, b)
        /\ \A m \in ToSet(b) : m.ticket = drawn
    BY <1>5 DEF Repeating
  <2>2. drawn >= drawn
    BY Numbers
  <2> QED BY <2>1, <2>2, CacheSending
<1>6. ASSUME NEW m, NEW kind, Answers(m, kind)
      PROVE  CacheInv'
  <2>1. PICK b : Answering(m, b) /\ BurstOf(b, m, kind)
    BY <1>6 DEF Answers
  <2>2. /\ session'.cache = b /\ session'.lastId = m.id /\ session'.peer = session.peer
        /\ ToSet(c2s') \subseteq ToSet(c2s) /\ \A n \in ToSet(c2s) : m.ticket <= n.ticket
        /\ m.peer = session.peer
    BY <2>1 DEF Answering, InSession
  <2>3. b # << >> /\ \A r \in ToSet(b) : r.id = m.id /\ r.peer = m.peer /\ r.ticket = m.ticket
    BY <2>1 DEF BurstOf
  <2> QED BY <2>2, <2>3 DEF CacheInv
<1> QED BY <1>1, <1>2, <1>3, <1>4, <1>5, <1>6 DEF StepKind

\* Every kind of step refuses requests of bridges that are gone only.
LEMMA ReplayNext ==
  ASSUME Before, CacheInv, ReplayInv, StepKind, MaxTickets < IdModulus \div 2
  PROVE  ReplayInv'
<1> USE DEF Before
<1>1. CASE Shrinking
  <2>1. /\ client' = client \/ client' = client + 1
        /\ ToSet(s2c') \cup ToSet(session'.cache) \subseteq ToSet(s2c) \cup ToSet(session.cache)
    BY <1>1 DEF Shrinking
  <2>2. ASSUME NEW r \in ToSet(s2c) \cup ToSet(session.cache), r.kind = "replayed"
        PROVE  r.peer # client'
    <3>1. r.peer <= client /\ r.peer # client
      BY <2>2 DEF MessageInv, ResponsesInv, Drawn, ReplayInv
    <3>2. r.peer \in Nat /\ client \in Nat
      <4>1. r \in Response
        BY Numbers
      <4>2. r.peer \in 1 .. MaxClients
        BY ONLY <4>1 DEF Response
      <4>3. client \in 1 .. MaxClients
        BY DEF TypeOK
      <4> QED BY ONLY <4>2, <4>3
    <3> QED BY <2>1, <3>1, <3>2
  <2> QED BY <2>1, <2>2 DEF ReplayInv
<1>2. CASE Greeting
  <2>1. ToSet(<< >>) = {}
    BY DEF ToSet
  <2> QED BY <1>2, <2>1 DEF Greeting, ReplayInv
<1>3. CASE ExpireSession
  <2>1. s2c' = s2c /\ client' = client /\ session' = [session EXCEPT !.active = FALSE, !.hasLast = FALSE]
    BY <1>3 DEF ExpireSession, clientVars
  <2>2. session'.cache = session.cache
    BY <2>1 DEF TypeOK
  <2> QED BY <2>1, <2>2 DEF ReplayInv
<1>4. ASSUME NEW b, Drawing(b) \/ Repeating(b)
      PROVE  ReplayInv'
  BY <1>4 DEF Drawing, Repeating, ReplayInv
<1>5. ASSUME NEW m, NEW kind, Answers(m, kind)
      PROVE  ReplayInv'
  <2>1. PICK b : Answering(m, b) /\ BurstOf(b, m, kind)
    BY <1>5 DEF Answers
  <2>2. /\ client' = client /\ session'.cache = b /\ m \in ToSet(c2s) /\ InSession(m)
        /\ ToSet(s2c') \subseteq ToSet(s2c) \cup ToSet(b)
    BY <2>1 DEF Answering
  <2>3. \A r \in ToSet(b) : r.kind = kind /\ r.peer = m.peer
    BY <2>1 DEF BurstOf
  <2>4. kind = "replayed" => m.peer # client
    BY <1>5, <2>2, LiveRequestIsNewer DEF Answers
  <2> QED BY <2>2, <2>3, <2>4 DEF ReplayInv
<1> QED BY <1>1, <1>2, <1>3, <1>4, <1>5 DEF StepKind

\* The status of a call comes from its answer or from the bridge itself.
LEMMA ResultNext ==
  ASSUME TypeOK, ReplayInv, NeverRefusedAsReplay, [Next]_vars
  PROVE  NeverRefusedAsReplay'
<1>1. ASSUME NEW status, NEW shows, Finish(status, shows), status # "replayed"
      PROVE  NeverRefusedAsReplay'
  <2>1. result' = result \/ result' = [status |-> status, shows |-> shows]
    BY <1>1 DEF Finish
  <2> QED BY <1>1, <2>1 DEF NeverRefusedAsReplay
<1>2. ASSUME result' = result
      PROVE  NeverRefusedAsReplay'
  BY <1>2 DEF NeverRefusedAsReplay
<1>3. ASSUME NEW i \in Arriving(s2c), ClientReceives(i)
      PROVE  NeverRefusedAsReplay'
  <2>1. CASE Ignore(i) \/ AcceptHello(i)
    <3>1. result' = result \/ Finish("error", {})
      BY <2>1 DEF Ignore, AcceptHello, clientVars
    <3> QED BY <1>1, <1>2, <3>1
  <2>2. CASE AcceptFragment(i)
    <3> DEFINE m == s2c[i]
               have == {r \in received : r.frag # m.frag} \cup {m}
               status == IF Reassembles(have, m.count) THEN "ok" ELSE "error"
               shown == {r.run : r \in have}
    <3>1. Finish(status, shown) \/ result' = result
      BY <2>2 DEF AcceptFragment
    <3>2. status # "replayed"
      OBVIOUS
    <3> HIDE DEF status, shown
    <3> QED BY <1>1, <1>2, <3>1, <3>2
  <2>3. CASE AcceptError(i)
    <3>1. Finish(s2c[i].kind, {}) /\ s2c[i].peer = client
      BY <2>3 DEF AcceptError, Matches
    <3>2. s2c[i] \in ToSet(s2c)
      BY ArrivingDomain, ChannelSets
    <3>3. s2c[i].kind # "replayed"
      BY <3>1, <3>2 DEF ReplayInv
    <3> QED BY <1>1, <3>1, <3>3
  <2> QED BY <1>3, <2>1, <2>2, <2>3 DEF ClientReceives
<1>4. CASE Timeout
  <2>1. Finish("timeout", {}) \/ result' = result
    BY <1>4 DEF Timeout
  <2> QED BY <1>1, <1>2, <2>1
<1>5. ASSUME NEW id \in StartIds, RestartClient(id)
      PROVE  NeverRefusedAsReplay'
  <2>1. Finish("crash", {})
    BY <1>5 DEF RestartClient
  <2> QED BY <1>1, <2>1
<1>6. ASSUME NEW i \in Arriving(c2s), AgentReceives(i)
      PROVE  NeverRefusedAsReplay'
  <2>1. result' = result
    BY <1>6 DEF AgentReceives, ProcessHello, Drop, ResendCached, RejectReplay, StoreFragment,
                ProcessRequest, clientVars
  <2> QED BY <1>2, <2>1
<1>7. CASE \/ \E o \in Ops : StartCall(o)
           \/ ExpireSession
           \/ \E i \in DOMAIN c2s : LoseRequest(i)
           \/ \E i \in DOMAIN s2c : LoseResponse(i)
           \/ UNCHANGED vars
  <2>1. result' = result
    BY <1>7 DEF StartCall, ExpireSession, LoseRequest, LoseResponse, clientVars, vars
  <2> QED BY <1>2, <2>1
<1> QED BY <1>3, <1>4, <1>5, <1>6, <1>7 DEF Next

\* No call is ever turned away as a replay, over an ordered network and as long as
\* less than half the range of ids is drawn: process_datagram's half-range
\* comparison lets every request of a live bridge through, whatever was lost,
\* retransmitted or expired, and wherever the ids wrap.
THEOREM LiveCallsAreNew ==
  ASSUME Ordered, MaxTickets < IdModulus \div 2
  PROVE  Spec => []NeverRefusedAsReplay
<1>1. Init => CacheInv /\ ReplayInv /\ NeverRefusedAsReplay
  <2>1. ToSet(<< >>) = {}
    BY DEF ToSet
  <2> QED BY <2>1 DEF Init, CacheInv, ReplayInv, NeverRefusedAsReplay, NoSession, NoResult
<1>2. TypeOK /\ DrawnInv /\ MessageInv /\ OrderInv /\ CacheInv /\ ReplayInv /\ NeverRefusedAsReplay
        /\ [Next]_vars => CacheInv' /\ ReplayInv' /\ NeverRefusedAsReplay'
  BY TypeNext, EveryStepHasAKind, CacheNext, ReplayNext, ResultNext DEF Before
<1> QED BY <1>1, <1>2, TypeCorrect, DrawnHolds, MessagesGenuine, OrderHolds, PTL DEF Spec

----------------------------------------------------------------------------
(* Reassembly.  Within one bridge an id stands for one call, so fragments  *)
(* kept under an id belong together, in whatever order they arrive.        *)

\* id was drawn as number t.
DrawnAs(id, t) == t <= drawn /\ id = DrawnBefore(requestId, drawn - t)

\* Every fragment in the reassembly buffer was drawn under the buffer's id.
PartsInv == \A f \in Frag : rq.parts[f] # 0 => DrawnAs(rq.id, rq.parts[f])

\* What a buffer holds is known by its id.
LEMMA DrawnAsUnique ==
  ASSUME TypeOK, NEW t \in Ticket, NEW u \in Ticket, NEW id, DrawnAs(id, t), DrawnAs(id, u)
  PROVE  t = u
<1>1. /\ drawn \in 0 .. MaxTickets /\ MaxTickets \in Nat /\ MaxTickets < IdModulus - 1
      /\ requestId \in 1 .. IdModulus - 1 /\ IdModulus \in Nat
      /\ t \in 1 .. MaxTickets /\ u \in 1 .. MaxTickets
  BY SessionAssumption, IdModulusAssumption DEF TypeOK, Ticket
<1>2. t <= drawn /\ u <= drawn
      /\ DrawnBefore(requestId, drawn - t) = DrawnBefore(requestId, drawn - u)
  BY DEF DrawnAs
<1> QED BY ONLY <1>1, <1>2 DEF DrawnBefore

\* Drawing an id keeps what the earlier ones stand for.
LEMMA DrawnAsAfterDraw ==
  ASSUME TypeOK, drawn + 1 <= MaxTickets, NEW t \in Ticket, NEW id, DrawnAs(id, t),
         drawn' = drawn + 1, requestId' = NextRequestId(requestId)
  PROVE  DrawnAs(id, t)'
<1>1. /\ drawn \in 0 .. MaxTickets /\ MaxTickets \in Nat /\ MaxTickets < IdModulus - 1
      /\ requestId \in 1 .. IdModulus - 1 /\ IdModulus \in Nat /\ t \in 1 .. MaxTickets
  BY SessionAssumption, IdModulusAssumption DEF TypeOK, Ticket
<1>2. t <= drawn /\ id = DrawnBefore(requestId, drawn - t)
  BY DEF DrawnAs
<1>3. drawn - t \in 0 .. IdModulus - 3 /\ (drawn - t) + 1 = (drawn + 1) - t /\ t <= drawn + 1
  BY ONLY <1>1, <1>2, drawn + 1 <= MaxTickets
<1>4. DrawnBefore(NextRequestId(requestId), (drawn - t) + 1) = DrawnBefore(requestId, drawn - t)
  BY ONLY <1>1, <1>3, DrawnBeforeNext
<1> QED BY <1>2, <1>3, <1>4 DEF DrawnAs

\* Steps that leave the buffer alone.
LEMMA PartsFrame ==
  ASSUME TypeOK, PartsInv, UNCHANGED rq,
         \/ UNCHANGED <<drawn, requestId>>
         \/ /\ drawn + 1 <= MaxTickets
            /\ drawn' = drawn + 1 /\ requestId' = NextRequestId(requestId)
  PROVE  PartsInv'
<1> SUFFICES ASSUME NEW f \in Frag, rq.parts[f] # 0
             PROVE  DrawnAs(rq.id, rq.parts[f])'
  BY DEF PartsInv
<1>1. rq.parts[f] \in Ticket
  BY DEF TypeOK
<1>2. DrawnAs(rq.id, rq.parts[f])
  BY DEF PartsInv
<1> DEFINE t == rq.parts[f]
           id == rq.id
<1>3. CASE UNCHANGED <<drawn, requestId>>
  BY <1>2, <1>3 DEF DrawnAs
<1>4. CASE ~ UNCHANGED <<drawn, requestId>>
  <2>1. /\ t' <= drawn' /\ id' = DrawnBefore(requestId', drawn' - t')
    BY <1>1, <1>2, <1>4, DrawnAsAfterDraw DEF DrawnAs
  <2> QED BY <2>1 DEF DrawnAs
<1> QED BY <1>3, <1>4

\* A request of the only bridge says which draw it is.
LEMMA OnlyBridge ==
  ASSUME TypeOK, MessageInv, MaxClients = 1, NEW i \in DOMAIN c2s
  PROVE  c2s[i] \in Request /\ DrawnAs(c2s[i].id, c2s[i].ticket)
<1>1. c2s[i] \in Request /\ Drawn(c2s[i])
  BY ChannelTypes, ChannelSets DEF MessageInv, RequestsInv
<1>2. c2s[i].peer = client
  BY <1>1 DEF TypeOK, Request
<1> QED BY <1>1, <1>2 DEF Drawn, DrawnAs

\* A stored fragment joins fragments of the same call only.
LEMMA StoredTogether ==
  ASSUME TypeOK, MessageInv, PartsInv, MaxClients = 1, NEW i \in DOMAIN c2s
  PROVE  /\ Stored(c2s[i]).id = c2s[i].id
         /\ \A f \in Frag : Stored(c2s[i]).parts[f] \in {0, c2s[i].ticket}
<1> DEFINE m == c2s[i]
<1>1. m \in Request /\ DrawnAs(m.id, m.ticket)
  BY OnlyBridge
<1> HIDE DEF m
<1>2. m.frag \in Frag /\ m.ticket \in Ticket
  BY <1>1 DEF Request
<1>3. rq \in [id : RequestId, count : Frag \cup {0}, op : Ops \cup {"none"},
              parts : [Frag -> Ticket \cup {0}]]
  BY DEF TypeOK
<1>4. CASE m.id = rq.id
  <2>1. Stored(m) = [rq EXCEPT !.parts[m.frag] = m.ticket]
    BY <1>4 DEF Stored, Started
  <2>2. \A f \in Frag : Stored(m).parts[f] = IF f = m.frag THEN m.ticket ELSE rq.parts[f]
    BY ONLY <1>2, <1>3, <2>1
  <2>3. Stored(m).id = rq.id
    BY ONLY <1>3, <2>1
  <2>4. ASSUME NEW f \in Frag
        PROVE  rq.parts[f] \in {0, m.ticket}
    <3>1. rq.parts[f] \in Ticket \cup {0}
      BY <1>3
    <3>2. CASE rq.parts[f] # 0
      <4>1. DrawnAs(m.id, rq.parts[f])
        BY <1>4, <3>2 DEF PartsInv
      <4> QED BY <1>1, <1>2, <3>1, <3>2, <4>1, DrawnAsUnique
    <3> QED BY <3>2
  <2> QED BY <1>4, <2>2, <2>3, <2>4 DEF m
<1>5. CASE m.id # rq.id
  <2> DEFINE start == [id |-> m.id, count |-> m.count, op |-> m.op, parts |-> [f \in Frag |-> 0]]
  <2>1. Stored(m) = [start EXCEPT !.parts[m.frag] = m.ticket]
    BY <1>5 DEF Stored, Started
  <2>2. Stored(m).id = m.id
    BY ONLY <2>1
  <2>3. Stored(m).parts = [[f \in Frag |-> 0] EXCEPT ![m.frag] = m.ticket]
    BY ONLY <2>1
  <2>4. \A f \in Frag : Stored(m).parts[f] \in {0, m.ticket}
    BY ONLY <1>2, <2>3
  <2> QED BY <2>2, <2>4 DEF m
<1> QED BY <1>4, <1>5

\* The buffer after a fragment was stored.
LEMMA PartsStored ==
  ASSUME TypeOK, MessageInv, PartsInv, MaxClients = 1, NEW i \in DOMAIN c2s,
         rq' = Stored(c2s[i]), UNCHANGED <<drawn, requestId>>
  PROVE  PartsInv'
<1>1. DrawnAs(c2s[i].id, c2s[i].ticket)
  BY OnlyBridge
<1> SUFFICES ASSUME NEW f \in Frag, rq'.parts[f] # 0
             PROVE  DrawnAs(rq.id, rq.parts[f])'
  BY DEF PartsInv
<1>2. rq'.id = c2s[i].id /\ rq'.parts[f] = c2s[i].ticket
  BY StoredTogether
<1> QED BY <1>1, <1>2 DEF DrawnAs

\* A complete request is made of fragments of the call that completes it.
LEMMA CompleteIsWhole ==
  ASSUME TypeOK, MessageInv, PartsInv, MaxClients = 1, NEW i \in DOMAIN c2s,
         Fits(c2s[i]), Complete(Stored(c2s[i]))
  PROVE  {Stored(c2s[i]).parts[f] : f \in 1 .. Stored(c2s[i]).count} = {c2s[i].ticket}
<1> DEFINE m == c2s[i]
           full == Stored(m)
<1>1. m \in Request
  BY OnlyBridge
<1>2. full.count = m.count
  <2>1. Started(m).count = m.count
    BY DEF Fits
  <2>2. rq.id = m.id => Started(m) = rq
    BY DEF Started
  <2>3. rq.id # m.id =>
          Started(m) = [id |-> m.id, count |-> m.count, op |-> m.op, parts |-> [f \in Frag |-> 0]]
    BY DEF Started
  <2>4. rq \in [id : RequestId, count : Frag \cup {0}, op : Ops \cup {"none"},
                parts : [Frag -> Ticket \cup {0}]]
    BY DEF TypeOK
  <2>5. full = [Started(m) EXCEPT !.parts[m.frag] = m.ticket]
    BY DEF Stored
  <2> HIDE DEF full, m
  <2>6. CASE rq.id = m.id
    BY ONLY <2>1, <2>2, <2>4, <2>5, <2>6
  <2>7. CASE rq.id # m.id
    BY ONLY <2>1, <2>3, <2>5, <2>7
  <2> QED BY <2>6, <2>7
<1>3. m.count \in Frag
  BY <1>1 DEF Request
<1>4. 1 \in 1 .. m.count /\ 1 .. m.count \subseteq Frag
  BY <1>3, FragFacts DEF Frag
<1>5. \A f \in 1 .. m.count : full.parts[f] = m.ticket
  <2>1. \A f \in Frag : full.parts[f] \in {0, m.ticket}
    BY StoredTogether
  <2>2. \A f \in 1 .. m.count : full.parts[f] # 0
    BY <1>2 DEF Complete
  <2> QED BY <1>4, <2>1, <2>2
<1> HIDE DEF m, full
<1>6. {full.parts[f] : f \in 1 .. full.count} = {m.ticket}
  BY <1>2, <1>4, <1>5
<1> QED BY <1>6 DEF m, full

\* A step that changes the log appends a whole request.
LEMMA WholeNext ==
  ASSUME TypeOK, DrawnInv, MessageInv, PartsInv, MaxClients = 1, WholePayload, [Next]_vars
  PROVE  WholePayload' /\ PartsInv'
<1>1. ASSUME UNCHANGED <<runs, rq>>,
             \/ UNCHANGED <<drawn, requestId>>
             \/ /\ drawn + 1 <= MaxTickets
                /\ drawn' = drawn + 1 /\ requestId' = NextRequestId(requestId)
      PROVE  WholePayload' /\ PartsInv'
  <2>1. PartsInv'
    BY <1>1, PartsFrame
  <2> QED BY <1>1, <2>1 DEF WholePayload
<1>2. ASSUME NEW o \in Ops, StartCall(o)
      PROVE  WholePayload' /\ PartsInv'
  <2>1. /\ UNCHANGED <<runs, rq>> /\ drawn + 2 <= MaxTickets
        /\ drawn' = drawn + 1 /\ requestId' = NextRequestId(requestId)
    BY <1>2 DEF StartCall
  <2>2. drawn \in Nat /\ MaxTickets \in Nat
    BY SessionAssumption DEF TypeOK
  <2>3. drawn + 1 <= MaxTickets
    BY ONLY <2>1, <2>2
  <2> QED BY <1>1, <2>1, <2>3
<1>3. ASSUME NEW i \in Arriving(s2c), ClientReceives(i)
      PROVE  WholePayload' /\ PartsInv'
  <2>1. CASE AcceptHello(i) /\ s2c[i].ticket = drawn
    <3>1. /\ UNCHANGED <<runs, rq>> /\ phase = "hello"
          /\ drawn' = drawn + 1 /\ requestId' = NextRequestId(requestId)
      BY <2>1 DEF AcceptHello
    <3> QED BY <1>1, <3>1 DEF DrawnInv
  <2>2. CASE ~ (AcceptHello(i) /\ s2c[i].ticket = drawn)
    <3>1. UNCHANGED <<runs, rq>> /\ UNCHANGED <<drawn, requestId>>
      BY <1>3, <2>2 DEF ClientReceives, Ignore, AcceptHello, AcceptError, AcceptFragment,
                        clientVars, serverVars, historyVars
    <3> QED BY <1>1, <3>1
  <2> QED BY <2>1, <2>2
<1>4. ASSUME NEW i \in Arriving(c2s), AgentReceives(i)
      PROVE  WholePayload' /\ PartsInv'
  <2>0. i \in DOMAIN c2s
    BY ArrivingDomain
  <2>1. CASE ProcessHello(i) \/ Drop(i) \/ ResendCached(i) \/ RejectReplay(i)
    <3>1. UNCHANGED <<runs, rq>> /\ UNCHANGED <<drawn, requestId>>
      BY <2>1 DEF ProcessHello, Drop, ResendCached, RejectReplay, clientVars, serverVars, historyVars
    <3> QED BY <1>1, <3>1
  <2>2. CASE StoreFragment(i)
    <3>1. rq' = Stored(c2s[i]) /\ UNCHANGED runs /\ UNCHANGED <<drawn, requestId>>
      BY <2>2 DEF StoreFragment, clientVars, historyVars
    <3>2. PartsInv'
      BY <2>0, <3>1, PartsStored
    <3> QED BY <3>1, <3>2 DEF WholePayload
  <2>3. CASE ProcessRequest(i)
    <3> DEFINE whole == {rq'.parts[f] : f \in 1 .. rq'.count}
               new == [ticket |-> c2s[i].ticket, parts |-> whole]
    <3>1. /\ rq' = Stored(c2s[i]) /\ UNCHANGED <<drawn, requestId>>
          /\ Fits(c2s[i]) /\ Complete(Stored(c2s[i]))
          /\ runs' = runs \/ runs' = Append(runs, new)
      BY <2>3 DEF ProcessRequest, clientVars
    <3>2. PartsInv'
      BY <2>0, <3>1, PartsStored
    <3>3. whole = {c2s[i].ticket}
      BY <2>0, <3>1, CompleteIsWhole
    <3>4. new.parts = {new.ticket}
      BY <3>3
    <3> HIDE DEF new
    <3>5. CASE runs' = runs
      BY <3>2, <3>5 DEF WholePayload
    <3>6. CASE runs' = Append(runs, new)
      <4>1. /\ Len(runs) \in Nat /\ DOMAIN runs = 1 .. Len(runs)
            /\ DOMAIN runs' = 1 .. Len(runs) + 1
            /\ runs'[Len(runs) + 1] = new
            /\ \A r \in 1 .. Len(runs) : runs'[r] = runs[r]
        <5>1. runs \in Seq([ticket : Ticket, parts : SUBSET (Ticket \cup {0})])
          BY DEF TypeOK
        <5> QED BY ONLY <3>6, <5>1
      <4>2. \A r \in DOMAIN runs' : r \in 1 .. Len(runs) \/ r = Len(runs) + 1
        BY ONLY <4>1
      <4>3. \A r \in DOMAIN runs' : runs'[r].parts = {runs'[r].ticket}
        BY <3>4, <4>1, <4>2 DEF WholePayload
      <4> QED BY <3>2, <4>3 DEF WholePayload
    <3> QED BY <3>1, <3>5, <3>6
  <2> QED BY <1>4, <2>1, <2>2, <2>3 DEF AgentReceives
<1>5. ASSUME NEW id \in StartIds, RestartClient(id)
      PROVE  WholePayload' /\ PartsInv'
  <2>1. client < 1 /\ client \in 1 .. 1
    BY <1>5 DEF RestartClient, TypeOK
  <2> QED BY <2>1
<1>6. CASE \/ Timeout
           \/ ExpireSession
           \/ \E i \in DOMAIN c2s : LoseRequest(i)
           \/ \E i \in DOMAIN s2c : LoseResponse(i)
           \/ UNCHANGED vars
  <2>1. UNCHANGED <<runs, rq>> /\ UNCHANGED <<drawn, requestId>>
    BY <1>6 DEF Timeout, ExpireSession, LoseRequest, LoseResponse, clientVars, serverVars,
                historyVars, vars
  <2> QED BY <1>1, <2>1
<1> QED BY <1>2, <1>3, <1>4, <1>5, <1>6 DEF Next

\* As long as one bridge serves the target, reassembly joins fragments of one call
\* only, whatever the order they arrive in and however many of them are lost: the
\* request id resets request_fragment_mask.  (process_hello resets nothing, so
\* with a second bridge the statement is false: its ids may repeat the first one's.)
THEOREM PayloadsAreWhole ==
  ASSUME MaxClients = 1
  PROVE  Spec => []WholePayload
<1>1. Init => WholePayload /\ PartsInv
  BY DEF Init, WholePayload, PartsInv, NoRequest
<1>2. TypeOK /\ DrawnInv /\ MessageInv /\ WholePayload /\ PartsInv /\ [Next]_vars
        => WholePayload' /\ PartsInv'
  BY WholeNext
<1> QED BY <1>1, <1>2, TypeCorrect, DrawnHolds, MessagesGenuine, PTL DEF Spec
============================================================================
