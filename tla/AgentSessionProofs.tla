------------------------ MODULE AgentSessionProofs ------------------------
(***************************************************************************)
(* Proofs about AgentSession for every id range, number of fragments,      *)
(* retries, channel capacity and number of bridges.                        *)
(***************************************************************************)
EXTENDS AgentSession, SequenceTheorems, TLAPS

----------------------------------------------------------------------------
(* Channels: what is in flight after a datagram was taken out or a burst   *)
(* was sent.                                                               *)

\* Taking out position i leaves the other datagrams, in their order.
LEMMA RemoveAtElements ==
  ASSUME NEW S, NEW s \in Seq(S), NEW i \in DOMAIN s
  PROVE  /\ RemoveAt(s, i) \in Seq(S)
         /\ Len(RemoveAt(s, i)) = Len(s) - 1
         /\ \A j \in 1 .. Len(s) - 1 :
              RemoveAt(s, i)[j] = IF j < i THEN s[j] ELSE s[j + 1]
<1>0. i \in 1 .. Len(s)  OBVIOUS
<1> DEFINE a == SubSeq(s, 1, i - 1)
           b == SubSeq(s, i + 1, Len(s))
<1>1. a \in Seq(S) /\ Len(a) = i - 1 /\ \A j \in 1 .. i - 1 : a[j] = s[j]
  BY <1>0, SubSeqProperties
<1>2. b \in Seq(S) /\ Len(b) = Len(s) - i /\ \A j \in 1 .. Len(s) - i : b[j] = s[i + j]
  BY <1>0, SubSeqProperties
<1>3. RemoveAt(s, i) = a \o b
  BY DEF RemoveAt
<1> HIDE DEF a, b
<1>4. a \o b \in Seq(S) /\ Len(a \o b) = Len(s) - 1
  BY <1>0, <1>1, <1>2, ConcatProperties
<1>5. ASSUME NEW j \in 1 .. Len(s) - 1
      PROVE  (a \o b)[j] = IF j < i THEN s[j] ELSE s[j + 1]
  <2>1. CASE j < i
    BY <1>0, <1>1, <1>2, <2>1, ConcatProperties
  <2>2. CASE ~ (j < i)
    <3>1. (a \o b)[j] = b[j - (i - 1)]
      BY <1>0, <1>1, <1>2, <2>2, ConcatProperties
    <3>2. j - (i - 1) \in 1 .. Len(s) - i
      BY <1>0, <2>2
    <3>3. b[j - (i - 1)] = s[i + (j - (i - 1))]
      BY <1>2, <3>2
    <3>4. i + (j - (i - 1)) = j + 1
      BY <1>0
    <3> QED BY <2>2, <3>1, <3>3, <3>4
  <2> QED BY <2>1, <2>2
<1> QED BY <1>3, <1>4, <1>5

\* What is left after a datagram is taken out of a channel was in it before.
LEMMA RemoveAtSet ==
  ASSUME NEW S, NEW s \in Seq(S), NEW i \in DOMAIN s
  PROVE  ToSet(RemoveAt(s, i)) \subseteq ToSet(s)
<1> DEFINE t == RemoveAt(s, i)
<1>1. t \in Seq(S) /\ Len(t) = Len(s) - 1
      /\ \A j \in 1 .. Len(s) - 1 : t[j] = IF j < i THEN s[j] ELSE s[j + 1]
  BY RemoveAtElements
<1> HIDE DEF t
<1>2. ASSUME NEW j \in DOMAIN t
      PROVE  \E k \in DOMAIN s : t[j] = s[k]
  <2>1. j \in 1 .. Len(s) - 1 /\ j \in 1 .. Len(s) /\ j + 1 \in 1 .. Len(s)
    BY <1>1
  <2>2. t[j] = s[j] \/ t[j] = s[j + 1]
    BY <1>1, <2>1
  <2> QED BY <2>1, <2>2
<1> QED BY <1>2 DEF ToSet, t

\* A burst is appended as a whole or lost as a whole.
LEMMA TransmitProperties ==
  ASSUME NEW S, NEW s \in Seq(S), NEW burst \in Seq(S)
  PROVE  /\ Transmit(s, burst) \in Seq(S)
         /\ ToSet(Transmit(s, burst)) \subseteq ToSet(s) \cup ToSet(burst)
         /\ \/ Transmit(s, burst) = s
            \/ /\ Len(Transmit(s, burst)) = Len(s) + Len(burst)
               /\ \A j \in 1 .. Len(s) + Len(burst) :
                    Transmit(s, burst)[j] = IF j <= Len(s) THEN s[j] ELSE burst[j - Len(s)]
<1> DEFINE t == s \o burst
<1>1. t \in Seq(S) /\ Len(t) = Len(s) + Len(burst)
      /\ \A j \in 1 .. Len(s) + Len(burst) :
           t[j] = IF j <= Len(s) THEN s[j] ELSE burst[j - Len(s)]
  BY ConcatProperties
<1> HIDE DEF t
<1>2. ASSUME NEW j \in DOMAIN t
      PROVE  t[j] \in ToSet(s) \cup ToSet(burst)
  <2>1. CASE j <= Len(s)
    BY <1>1, <2>1 DEF ToSet
  <2>2. CASE ~ (j <= Len(s))
    <3>1. j - Len(s) \in 1 .. Len(burst)
      BY <1>1, <2>2
    <3> QED BY <1>1, <2>2, <3>1 DEF ToSet
  <2> QED BY <2>1, <2>2
<1>3. ToSet(t) \subseteq ToSet(s) \cup ToSet(burst)
  BY <1>2 DEF ToSet
<1> QED BY <1>1, <1>3 DEF Transmit, t

\* An element of a channel, by position.
LEMMA ToSetMember ==
  ASSUME NEW S, NEW s \in Seq(S), NEW i \in DOMAIN s
  PROVE  s[i] \in ToSet(s) /\ s[i] \in S
BY DEF ToSet

\* The elements of a well-typed channel are well typed.
LEMMA ToSetSubset ==
  ASSUME NEW S, NEW s \in Seq(S)
  PROVE  ToSet(s) \subseteq S
BY DEF ToSet

----------------------------------------------------------------------------
(* Request ids.                                                            *)

\* UdpBackend never draws id 0, and wraps to 1.
LEMMA NextRequestIdProperties ==
  ASSUME NEW id \in 1 .. IdModulus - 1
  PROVE  NextRequestId(id) = IF id = IdModulus - 1 THEN 1 ELSE id + 1
<1>1. CASE id = IdModulus - 1
  <2>1. (id + 1) % IdModulus = 0
    BY <1>1, IdModulusAssumption, SMTT(30)
  <2> QED BY <1>1, <2>1 DEF NextRequestId
<1>2. CASE id # IdModulus - 1
  <2>1. (id + 1) % IdModulus = id + 1
    BY <1>2, IdModulusAssumption, SMTT(30)
  <2> QED BY <1>2, <2>1, IdModulusAssumption DEF NextRequestId
<1> QED BY <1>1, <1>2

\* Drawing one more id moves every earlier id one draw further back.
LEMMA DrawnBeforeNext ==
  ASSUME NEW id \in 1 .. IdModulus - 1, NEW k \in 0 .. IdModulus - 3
  PROVE  DrawnBefore(NextRequestId(id), k + 1) = DrawnBefore(id, k)
BY NextRequestIdProperties, IdModulusAssumption DEF DrawnBefore

\* No draw before id is id itself.
LEMMA DrawnBeforeSame ==
  ASSUME NEW id \in 1 .. IdModulus - 1, NEW k \in Nat
  PROVE  DrawnBefore(id, k - k) = id
BY IdModulusAssumption DEF DrawnBefore

\* Within one period no id is drawn twice.
LEMMA DrawnBeforeUnique ==
  ASSUME NEW id \in 1 .. IdModulus - 1, NEW k \in 0 .. IdModulus - 2,
         DrawnBefore(id, k) = id
  PROVE  k = 0
BY IdModulusAssumption DEF DrawnBefore

----------------------------------------------------------------------------
(* Datagrams.                                                              *)

\* Fragment counts and indices of both directions are fragments.
LEMMA FragFacts ==
  /\ 1 \in Frag
  /\ KeyFrags \in Frag
  /\ TextFrags \in Frag
  /\ \A o : ReqCount(o) \in Frag /\ RespCount(o) \in Frag
  /\ \A n \in Frag : n \in Nat /\ 1 .. n \subseteq Frag
BY SessionAssumption DEF Frag, ReqCount, RespCount

\* A well-formed HELLO.
GoodHello(peer, id, ticket) ==
  /\ HelloRequest(peer, id, ticket) \in Seq(Request)
  /\ \A m \in ToSet(HelloRequest(peer, id, ticket)) :
       m.op = "hello" /\ m.peer = peer /\ m.id = id /\ m.ticket = ticket /\ m.sess = 0

\* The packet of _handshake is a well-formed request.
LEMMA HelloRequestType ==
  ASSUME NEW peer \in 1 .. MaxClients, NEW id \in 1 .. IdModulus - 1, NEW ticket \in Ticket
  PROVE  GoodHello(peer, id, ticket)
<1> DEFINE m1 == [op |-> "hello", peer |-> peer, sess |-> 0, id |-> id,
                  frag |-> 1, count |-> 1, ticket |-> ticket]
<1>1. m1 \in Request
  BY FragFacts DEF Request
<1>2. HelloRequest(peer, id, ticket) = <<m1>>
  BY DEF HelloRequest
<1>3. <<m1>> \in Seq(Request) /\ ToSet(<<m1>>) = {m1}
  BY <1>1 DEF ToSet
<1> QED BY <1>2, <1>3 DEF GoodHello

\* A well-formed burst of request fragments.
GoodRequests(o, peer, sess, id, ticket) ==
  /\ RequestFragments(o, peer, sess, id, ticket) \in Seq(Request)
  /\ \A m \in ToSet(RequestFragments(o, peer, sess, id, ticket)) :
       m.op = o /\ m.peer = peer /\ m.id = id /\ m.ticket = ticket /\ m.sess = sess

\* fragment_message yields well-formed requests.
LEMMA RequestFragmentsType ==
  ASSUME NEW o \in Ops, NEW peer \in 1 .. MaxClients, NEW sess \in Nat,
         NEW id \in 1 .. IdModulus - 1, NEW ticket \in Ticket
  PROVE  GoodRequests(o, peer, sess, id, ticket)
<1> DEFINE b == RequestFragments(o, peer, sess, id, ticket)
           msg(f) == [op |-> o, peer |-> peer, sess |-> sess, id |-> id,
                      frag |-> f, count |-> ReqCount(o), ticket |-> ticket]
<1>1. ReqCount(o) \in Frag /\ ReqCount(o) \in Nat /\ 1 .. ReqCount(o) \subseteq Frag
  BY FragFacts
<1>2. \A f \in 1 .. ReqCount(o) : msg(f) \in Request
  BY <1>1 DEF Request
<1>3. b = [f \in 1 .. ReqCount(o) |-> msg(f)]
  BY DEF RequestFragments
<1>4. \A f \in 1 .. ReqCount(o) :
        msg(f).op = o /\ msg(f).peer = peer /\ msg(f).id = id /\ msg(f).ticket = ticket
        /\ msg(f).sess = sess
  OBVIOUS
<1> HIDE DEF msg, b
<1>5. b \in Seq(Request)
  BY <1>1, <1>2, <1>3, IsASeq
<1>6. DOMAIN b = 1 .. ReqCount(o) /\ \A f \in DOMAIN b : b[f] = msg(f)
  BY <1>3
<1>7. \A m \in ToSet(b) : \E f \in 1 .. ReqCount(o) : m = msg(f)
  BY <1>6 DEF ToSet
<1> QED BY <1>4, <1>5, <1>7 DEF b, GoodRequests

\* A well-formed burst of responses to request m.
GoodResponses(kind, m, sess, count, run) ==
  /\ ResponseFragments(kind, m, sess, count, run) \in Seq(Response)
  /\ \A r \in ToSet(ResponseFragments(kind, m, sess, count, run)) :
       /\ r.kind = kind /\ r.op = m.op /\ r.peer = m.peer /\ r.id = m.id
       /\ r.ticket = m.ticket /\ r.sess = sess /\ r.run = run

\* send_response yields well-formed responses.
LEMMA ResponseFragmentsType ==
  ASSUME NEW kind \in {"response"} \cup Refusal, NEW m \in Request, NEW sess \in Nat,
         NEW count \in Frag, NEW run \in Nat
  PROVE  GoodResponses(kind, m, sess, count, run)
<1> DEFINE b == ResponseFragments(kind, m, sess, count, run)
           msg(f) == [kind |-> kind, op |-> m.op, peer |-> m.peer, sess |-> sess,
                      id |-> m.id, frag |-> f, count |-> count, ticket |-> m.ticket,
                      run |-> run]
<1>1. count \in Nat /\ 1 .. count \subseteq Frag
  BY FragFacts
<1>2. \A f \in 1 .. count : msg(f) \in Response
  BY <1>1 DEF Request, Response
<1>3. b = [f \in 1 .. count |-> msg(f)]
  BY DEF ResponseFragments
<1>4. \A f \in 1 .. count :
        /\ msg(f).kind = kind /\ msg(f).op = m.op /\ msg(f).peer = m.peer /\ msg(f).id = m.id
        /\ msg(f).ticket = m.ticket /\ msg(f).sess = sess /\ msg(f).run = run
  OBVIOUS
<1> HIDE DEF msg, b
<1>5. b \in Seq(Response)
  BY <1>1, <1>2, <1>3, IsASeq
<1>6. DOMAIN b = 1 .. count /\ \A f \in DOMAIN b : b[f] = msg(f)
  BY <1>3
<1>7. \A r \in ToSet(b) : \E f \in 1 .. count : r = msg(f)
  BY <1>6 DEF ToSet
<1> QED BY <1>4, <1>5, <1>7 DEF b, GoodResponses

\* A drawn id is in range and not 0.
LEMMA NextRequestIdType ==
  ASSUME NEW id \in 1 .. IdModulus - 1
  PROVE  NextRequestId(id) \in 1 .. IdModulus - 1
BY NextRequestIdProperties, IdModulusAssumption

----------------------------------------------------------------------------
(* Type correctness.                                                       *)

\* A new UdpBackend and a new agent are well typed.
LEMMA TypeInit == Init => TypeOK
<1>1. StartIds \subseteq 1 .. IdModulus - 1 /\ "none" \notin Ops
  BY SessionAssumption, IdModulusAssumption DEF Operation
<1>2. 0 \in RequestId /\ MaxTickets \in Nat
  BY IdModulusAssumption, SessionAssumption DEF RequestId
<1>3. 1 \in 1 .. MaxClients
  BY SessionAssumption
<1> QED BY <1>1, <1>2, <1>3, SessionAssumption
        DEF Init, TypeOK, NoResult, NoSession, NoRequest
\* The channels after a reception or a loss, and after a burst.
LEMMA ChannelTypes ==
  ASSUME TypeOK
  PROVE  /\ \A i \in DOMAIN c2s : c2s[i] \in Request /\ RemoveAt(c2s, i) \in Seq(Request)
         /\ \A i \in DOMAIN s2c : s2c[i] \in Response /\ RemoveAt(s2c, i) \in Seq(Response)
         /\ \A b \in Seq(Request) : Transmit(c2s, b) \in Seq(Request)
         /\ \A b \in Seq(Response) : Transmit(s2c, b) \in Seq(Response)
<1>1. c2s \in Seq(Request) /\ s2c \in Seq(Response)
  BY DEF TypeOK
<1>2. \A i \in DOMAIN c2s : c2s[i] \in Request /\ RemoveAt(c2s, i) \in Seq(Request)
  BY <1>1, ToSetMember, RemoveAtElements
<1>3. \A i \in DOMAIN s2c : s2c[i] \in Response /\ RemoveAt(s2c, i) \in Seq(Response)
  BY <1>1, ToSetMember, RemoveAtElements
<1>4. \A b \in Seq(Request) : Transmit(c2s, b) \in Seq(Request)
  BY <1>1, TransmitProperties
<1>5. \A b \in Seq(Response) : Transmit(s2c, b) \in Seq(Response)
  BY <1>1, TransmitProperties
<1> QED BY <1>2, <1>3, <1>4, <1>5

\* What the current exchange sends is well formed.
LEMMA OutgoingType ==
  ASSUME TypeOK, phase # "idle", drawn \in Ticket
  PROVE  Outgoing \in Seq(Request)
<1>1. client \in 1 .. MaxClients /\ requestId \in 1 .. IdModulus - 1 /\ sessionId \in Nat
  BY DEF TypeOK
<1>2. op \in Ops
  BY DEF TypeOK
<1> QED BY <1>1, <1>2, HelloRequestType, RequestFragmentsType
         DEF Outgoing, GoodHello, GoodRequests

\* _request keeps the state well typed, handshake or not.
LEMMA TypeStartCall ==
  ASSUME TypeOK, NEW o \in Ops, StartCall(o)
  PROVE  TypeOK'
<1>1. requestId' \in 1 .. IdModulus - 1
  BY NextRequestIdType DEF TypeOK, StartCall
<1>2. drawn' \in Ticket /\ drawn' \in 0 .. MaxTickets /\ MaxTickets \in Nat
  BY SessionAssumption DEF TypeOK, StartCall, Ticket
<1>3. c2s' \in Seq(Request)
  <2>1. client \in 1 .. MaxClients /\ sessionId \in Nat
    BY DEF TypeOK
  <2>2. HelloRequest(client, requestId', drawn') \in Seq(Request)
    BY <1>1, <1>2, <2>1, HelloRequestType DEF GoodHello
  <2>3. RequestFragments(o, client, sessionId, requestId', drawn') \in Seq(Request)
    BY <1>1, <1>2, <2>1, RequestFragmentsType DEF GoodRequests
  <2> QED BY <2>2, <2>3, ChannelTypes DEF StartCall
<1>4. o # "none"
  BY SessionAssumption DEF Operation
<1>5. 0 \in 0 .. Retries
  BY SessionAssumption
<1> QED BY <1>1, <1>2, <1>3, <1>4, <1>5 DEF TypeOK, StartCall

\* Every pending exchange has drawn an id, and a HELLO leaves one for its call.
DrawnInv ==
  /\ phase # "idle" => drawn # 0
  /\ phase = "hello" => drawn + 1 <= MaxTickets

\* A passing deadline keeps the state well typed, retry or not.
LEMMA TypeTimeout ==
  ASSUME TypeOK, DrawnInv, Timeout
  PROVE  TypeOK'
<1>1. drawn \in Ticket
  BY SessionAssumption DEF TypeOK, DrawnInv, Timeout, Ticket
<1>2. c2s' \in Seq(Request)
  BY <1>1, OutgoingType, ChannelTypes DEF Timeout, TypeOK
<1> QED BY <1>2, SessionAssumption DEF TypeOK, Timeout, Finish, historyVars

\* Every branch of _exchange_with_packet keeps the state well typed.
LEMMA TypeClientReceives ==
  ASSUME TypeOK, DrawnInv, NEW i \in DOMAIN s2c, ClientReceives(i)
  PROVE  TypeOK'
<1>1. s2c[i] \in Response /\ RemoveAt(s2c, i) \in Seq(Response)
  BY ChannelTypes
<1>2. CASE Ignore(i)
  BY <1>1, <1>2 DEF Ignore, TypeOK, clientVars, serverVars, historyVars
<1>3. CASE AcceptHello(i)
  <2>1. CASE s2c[i].ticket # drawn
    BY <1>1, <1>3, <2>1, SessionAssumption DEF AcceptHello, Finish, TypeOK
  <2>2. CASE s2c[i].ticket = drawn
    <3>1. requestId' \in 1 .. IdModulus - 1
      BY <1>3, <2>2, NextRequestIdType DEF TypeOK, AcceptHello
    <3>2. sessionId' \in Nat /\ op \in Ops /\ client \in 1 .. MaxClients
      BY <1>1, <1>3, <2>2 DEF TypeOK, AcceptHello, Response
    <3>3. drawn' \in Ticket
      BY <1>3, <2>2, SessionAssumption DEF TypeOK, DrawnInv, AcceptHello, Ticket
    <3>4. c2s' \in Seq(Request)
      <4>1. GoodRequests(op, client, sessionId', requestId', drawn')
        BY ONLY <3>1, <3>2, <3>3, RequestFragmentsType
      <4> QED BY <1>3, <2>2, <4>1, ChannelTypes DEF AcceptHello, GoodRequests
    <3>5. drawn' \in 0 .. MaxTickets /\ issued' \in 0 .. MaxTickets /\ attempt' \in 0 .. Retries
      BY <1>3, <2>2, <3>3, SessionAssumption DEF AcceptHello, Ticket
    <3>6. op' = op /\ phase' = "call" /\ op # "none" /\ received' = {}
      BY <1>3, <2>2 DEF AcceptHello, TypeOK
    <3>7. s2c' \in Seq(Response)
          /\ UNCHANGED <<result, client, session, rq, sessions, runs>>
      BY <1>1, <1>3, <2>2 DEF AcceptHello
    <3> QED BY <3>1, <3>2, <3>4, <3>5, <3>6, <3>7 DEF TypeOK
  <2> QED BY <2>1, <2>2
<1>4. CASE AcceptError(i)
  <2>1. s2c[i].kind \in Refusal
    BY <1>1, <1>4 DEF AcceptError, Response
  <2>2. result' = [status |-> s2c[i].kind, shows |-> {}]
    BY <1>4 DEF AcceptError, Finish
  <2>3. result' \in [status : {"none", "ok", "error", "timeout", "crash"} \cup Refusal,
                     shows : SUBSET Nat]
    BY <2>1, <2>2
  <2> QED BY <1>1, <1>4, <2>3, SessionAssumption DEF AcceptError, Finish, TypeOK, historyVars
<1>5. CASE AcceptFragment(i)
  <2> DEFINE have == {r \in received : r.frag # s2c[i].frag} \cup {s2c[i]}
             status == IF Reassembles(have, s2c[i].count) THEN "ok" ELSE "error"
             shown == {r.run : r \in have}
  <2>1. have \subseteq Response
    BY <1>1 DEF TypeOK
  <2>2. shown \in SUBSET Nat
    BY <2>1 DEF Response
  <2>3. status \in {"ok", "error"}
    OBVIOUS
  <2>4. \/ Finish(status, shown)
        \/ received' = have /\ UNCHANGED <<phase, attempt, op, result>>
    BY <1>5 DEF AcceptFragment
  <2>5. phase = "call" /\ s2c' = RemoveAt(s2c, i)
        /\ UNCHANGED <<client, requestId, sessionId, session, rq, c2s, historyVars>>
    BY <1>5 DEF AcceptFragment
  <2> HIDE DEF have, status, shown
  <2>6. CASE Finish(status, shown)
    <3>1. result' = [status |-> status, shows |-> shown]
      BY <2>5, <2>6 DEF Finish
    <3>2. result' \in [status : {"none", "ok", "error", "timeout", "crash"} \cup Refusal,
                       shows : SUBSET Nat]
      BY <2>2, <2>3, <3>1
    <3> QED BY <1>1, <2>5, <2>6, <3>2, SessionAssumption DEF Finish, TypeOK, historyVars
  <2>7. CASE received' = have /\ UNCHANGED <<phase, attempt, op, result>>
    BY <1>1, <2>1, <2>5, <2>7 DEF TypeOK, historyVars
  <2> QED BY <2>4, <2>6, <2>7
<1> QED BY <1>2, <1>3, <1>4, <1>5 DEF ClientReceives

\* A new UdpBackend keeps the state well typed.
LEMMA TypeRestart ==
  ASSUME TypeOK, NEW id \in StartIds, RestartClient(id)
  PROVE  TypeOK'
<1>1. id \in 1 .. IdModulus - 1
  BY SessionAssumption, IdModulusAssumption
<1> QED BY <1>1, SessionAssumption DEF TypeOK, RestartClient, Finish, historyVars

----------------------------------------------------------------------------
(* Type correctness: the agent's steps.                                    *)

\* process_datagram keeps the reassembly state well typed.
LEMMA StoredType ==
  ASSUME TypeOK, NEW m \in Request, m.op # "hello"
  PROVE  Stored(m) \in [id : RequestId, count : Frag \cup {0}, op : Ops \cup {"none"},
                        parts : [Frag -> Ticket \cup {0}]]
<1> DEFINE R == [id : RequestId, count : Frag \cup {0}, op : Ops \cup {"none"},
                 parts : [Frag -> Ticket \cup {0}]]
<1>1. /\ m.id \in RequestId /\ m.count \in Frag /\ m.op \in Ops /\ m.frag \in Frag
      /\ m.ticket \in Ticket
  BY IdModulusAssumption DEF Request, RequestId
<1>2. rq \in R
  BY DEF TypeOK
<1>3. Started(m) \in R
  BY <1>1, <1>2 DEF Started
<1> QED BY <1>1, <1>3 DEF Stored

\* send_response keeps the types, whatever well-formed burst it sends.
LEMMA SendResponseType ==
  ASSUME TypeOK, NEW m \in Request, NEW burst \in Seq(Response), SendResponse(m, burst)
  PROVE  /\ session' \in [active : BOOLEAN, id : Nat, peer : 0 .. MaxClients,
                          hasLast : BOOLEAN, lastId : RequestId, cache : Seq(Response)]
         /\ s2c' \in Seq(Response)
<1>1. m.id \in RequestId
  BY IdModulusAssumption DEF Request, RequestId
<1>2. s2c' \in Seq(Response)
  BY ChannelTypes DEF SendResponse
<1> QED BY <1>1, <1>2 DEF SendResponse, TypeOK

\* send_error keeps the session and the channel well typed.
LEMMA SendErrorType ==
  ASSUME TypeOK, NEW m \in Request, NEW kind \in Refusal, SendError(m, kind)
  PROVE  /\ session' \in [active : BOOLEAN, id : Nat, peer : 0 .. MaxClients,
                          hasLast : BOOLEAN, lastId : RequestId, cache : Seq(Response)]
         /\ s2c' \in Seq(Response)
<1>1. ResponseFragments(kind, m, session.id, 1, 0) \in Seq(Response)
  BY FragFacts, ResponseFragmentsType DEF TypeOK, GoodResponses
<1> QED BY <1>1, SendResponseType DEF SendError

\* process_request keeps the state well typed, refused or carried out.
LEMMA TypeProcessRequest ==
  ASSUME TypeOK, NEW i \in DOMAIN c2s, ProcessRequest(i)
  PROVE  TypeOK'
<1> DEFINE m == c2s[i]
           Run == [ticket : Ticket, parts : SUBSET (Ticket \cup {0})]
<1>1. m \in Request /\ RemoveAt(c2s, i) \in Seq(Request)
  BY ChannelTypes
<1>2. m.op # "hello" /\ c2s' = RemoveAt(c2s, i) /\ rq' = Stored(m)
      /\ UNCHANGED <<clientVars, drawn, issued, sessions>>
  BY DEF ProcessRequest, InSession
<1>3. rq' \in [id : RequestId, count : Frag \cup {0}, op : Ops \cup {"none"},
               parts : [Frag -> Ticket \cup {0}]]
  BY <1>1, <1>2, StoredType
<1>4. session' \in [active : BOOLEAN, id : Nat, peer : 0 .. MaxClients, hasLast : BOOLEAN,
                    lastId : RequestId, cache : Seq(Response)]
      /\ s2c' \in Seq(Response) /\ runs' \in Seq(Run)
  <2>1. runs \in Seq(Run)
    BY DEF TypeOK
  <2>2. CASE m.op = "file"
    BY <1>1, <2>1, <2>2, SendErrorType DEF ProcessRequest, Refusal
  <2>3. CASE m.op # "file"
    <3> DEFINE new == [ticket |-> m.ticket, parts |-> {rq'.parts[f] : f \in 1 .. rq'.count}]
    <3>1. rq'.count \in Frag \cup {0}
      BY <1>3
    <3>2. 1 .. rq'.count \subseteq Frag
      BY <3>1, FragFacts
    <3>3. new \in Run
      BY <1>1, <1>3, <3>2 DEF Request
    <3>4. runs' = Append(runs, new)
          /\ SendResponse(m, ResponseFragments("response", m, session.id,
                                               RespCount(m.op), Len(runs')))
      BY <2>3 DEF ProcessRequest
    <3> HIDE DEF new, Run
    <3>5. runs' \in Seq(Run)
      BY <2>1, <3>3, <3>4
    <3>6. Len(runs') \in Nat
      BY <3>5
    <3>7. session.id \in Nat /\ RespCount(m.op) \in Frag
      BY FragFacts DEF TypeOK
    <3>8. ResponseFragments("response", m, session.id, RespCount(m.op), Len(runs'))
            \in Seq(Response)
      BY <1>1, <3>6, <3>7, ResponseFragmentsType DEF GoodResponses
    <3> QED BY <1>1, <3>4, <3>5, <3>8, SendResponseType
  <2> QED BY <2>2, <2>3
<1> QED BY <1>1, <1>2, <1>3, <1>4 DEF TypeOK, clientVars

\* Every path through process_datagram keeps the state well typed.
LEMMA TypeAgentReceives ==
  ASSUME TypeOK, NEW i \in DOMAIN c2s, AgentReceives(i)
  PROVE  TypeOK'
<1>1. c2s[i] \in Request /\ RemoveAt(c2s, i) \in Seq(Request)
  BY ChannelTypes
<1>2. CASE ProcessHello(i)
  <2>1. sessions' \in Nat
    BY <1>2 DEF ProcessHello, TypeOK
  <2>2. ResponseFragments("response", c2s[i], sessions', 1, 0) \in Seq(Response)
    BY <1>1, <2>1, FragFacts, ResponseFragmentsType DEF GoodResponses
  <2>3. s2c' \in Seq(Response)
    BY <1>2, <2>2, ChannelTypes DEF ProcessHello
  <2>4. c2s[i].peer \in 0 .. MaxClients
    BY <1>1 DEF Request
  <2>5. << >> \in Seq(Response)
    OBVIOUS
  <2>6. session' \in [active : BOOLEAN, id : Nat, peer : 0 .. MaxClients, hasLast : BOOLEAN,
                      lastId : RequestId, cache : Seq(Response)]
    BY <1>2, <2>1, <2>4, <2>5 DEF ProcessHello, TypeOK
  <2> QED BY <1>1, <1>2, <2>1, <2>3, <2>6 DEF ProcessHello, TypeOK, clientVars
<1>3. CASE Drop(i)
  BY <1>1, <1>3 DEF Drop, TypeOK, clientVars, serverVars, historyVars
<1>4. CASE ResendCached(i)
  <2>1. session.cache \in Seq(Response)
    BY DEF TypeOK
  <2>2. s2c' \in Seq(Response)
    BY <1>4, <2>1, ChannelTypes DEF ResendCached
  <2> QED BY <1>1, <1>4, <2>2 DEF ResendCached, TypeOK, clientVars, serverVars, historyVars
<1>5. CASE RejectReplay(i)
  <2>1. session' \in [active : BOOLEAN, id : Nat, peer : 0 .. MaxClients, hasLast : BOOLEAN,
                      lastId : RequestId, cache : Seq(Response)]
        /\ s2c' \in Seq(Response)
    BY <1>1, <1>5, SendErrorType DEF RejectReplay, Refusal
  <2> QED BY <1>1, <1>5, <2>1 DEF RejectReplay, TypeOK, clientVars, historyVars
<1>6. CASE StoreFragment(i)
  <2>1. rq' \in [id : RequestId, count : Frag \cup {0}, op : Ops \cup {"none"},
                 parts : [Frag -> Ticket \cup {0}]]
    BY <1>1, <1>6, StoredType DEF StoreFragment, InSession
  <2> QED BY <1>1, <1>6, <2>1 DEF StoreFragment, TypeOK, clientVars, historyVars
<1>7. CASE ProcessRequest(i)
  BY <1>7, TypeProcessRequest
<1> QED BY <1>2, <1>3, <1>4, <1>5, <1>6, <1>7 DEF AgentReceives

\* What arrives is in the channel, ordered or not.
LEMMA ArrivingDomain == \A channel : Arriving(channel) \subseteq DOMAIN channel
BY DEF Arriving

\* Every step keeps the state well typed.
LEMMA TypeNext ==
  ASSUME TypeOK, DrawnInv, [Next]_vars
  PROVE  TypeOK'
<1>1. CASE ExpireSession
  BY <1>1 DEF ExpireSession, TypeOK, clientVars, historyVars
<1>2. ASSUME NEW i \in DOMAIN c2s, LoseRequest(i)
      PROVE  TypeOK'
  BY <1>2, ChannelTypes DEF LoseRequest, TypeOK, clientVars, serverVars, historyVars
<1>3. ASSUME NEW i \in DOMAIN s2c, LoseResponse(i)
      PROVE  TypeOK'
  BY <1>3, ChannelTypes DEF LoseResponse, TypeOK, clientVars, serverVars, historyVars
<1>4. CASE UNCHANGED vars
  BY <1>4 DEF TypeOK, vars
<1>5. ASSUME NEW i \in Arriving(s2c), ClientReceives(i)
      PROVE  TypeOK'
  BY <1>5, ArrivingDomain, TypeClientReceives
<1>6. ASSUME NEW i \in Arriving(c2s), AgentReceives(i)
      PROVE  TypeOK'
  BY <1>6, ArrivingDomain, TypeAgentReceives
<1> QED BY <1>1, <1>2, <1>3, <1>4, <1>5, <1>6, TypeStartCall, TypeTimeout, TypeRestart DEF Next

\* Every step leaves a ticket for the call behind a handshake.
LEMMA DrawnNext ==
  ASSUME TypeOK, DrawnInv, [Next]_vars
  PROVE  DrawnInv'
<1>0. drawn \in 0 .. MaxTickets /\ MaxTickets \in Nat
  BY SessionAssumption DEF TypeOK
<1>1. ASSUME NEW o \in Ops, StartCall(o)
      PROVE  DrawnInv'
  BY <1>0, <1>1 DEF DrawnInv, StartCall
<1>2. CASE Timeout
  BY <1>2 DEF DrawnInv, Timeout, Finish, historyVars
<1>3. ASSUME NEW i \in Arriving(s2c), ClientReceives(i)
      PROVE  DrawnInv'
  BY <1>0, <1>3 DEF DrawnInv, ClientReceives, Ignore, AcceptHello, AcceptError, AcceptFragment,
                    Finish, clientVars, historyVars
<1>4. ASSUME NEW id \in StartIds, RestartClient(id)
      PROVE  DrawnInv'
  BY <1>4 DEF DrawnInv, RestartClient, Finish, historyVars
<1>5. ASSUME UNCHANGED <<phase, drawn>>
      PROVE  DrawnInv'
  BY <1>5 DEF DrawnInv
<1>6. ASSUME NEW i \in Arriving(c2s), AgentReceives(i)
      PROVE  UNCHANGED <<phase, drawn>>
  BY <1>6 DEF AgentReceives, ProcessHello, Drop, ResendCached, RejectReplay, StoreFragment,
              ProcessRequest, clientVars, historyVars
<1>7. ExpireSession \/ (\E i \in DOMAIN c2s : LoseRequest(i))
      \/ (\E i \in DOMAIN s2c : LoseResponse(i)) \/ UNCHANGED vars
      => UNCHANGED <<phase, drawn>>
  BY DEF ExpireSession, LoseRequest, LoseResponse, clientVars, historyVars, vars
<1> QED BY <1>1, <1>2, <1>3, <1>4, <1>5, <1>6, <1>7 DEF Next

\* The bridge never uses the id 0, never makes more attempts than its retry loop
\* allows, and both sides only ever hold well-formed datagrams, for every range
\* of ids, number of fragments, channel capacity and number of bridges.
THEOREM TypeCorrect == Spec => []TypeOK
<1>1. Init => TypeOK /\ DrawnInv
  BY TypeInit DEF Init, DrawnInv
<1>2. TypeOK /\ DrawnInv /\ [Next]_vars => TypeOK' /\ DrawnInv'
  BY TypeNext, DrawnNext
<1> QED BY <1>1, <1>2, PTL DEF Spec
============================================================================
