------------------------ MODULE SimulatorAgentProofs ------------------------
(***************************************************************************)
(* Theorems about SimulatorAgent, for every size of the cache, every number *)
(* of calls and every content.                                             *)
(*                                                                         *)
(* The argument rests on one fact about the cache of answers, Kept: while a *)
(* copy of an answered request may still arrive, either its answer is in   *)
(* the cache, or every other request that may still arrive is answered and *)
(* the last answered one is not older.  Kept is stable by counting: what   *)
(* pushed an answer out are CacheSize different requests, all of them made *)
(* at most Lateness calls before or after it.                              *)
(*                                                                         *)
(* On it rest, in this order: that the last call is answered when it is    *)
(* carried out (AnswerInv); that its transfer is the one the bridge knows  *)
(* (FreeInv); that its fragments are not pushed out (WholeInv), by the same *)
(* counting; and that no call that was overtaken changes the transfer the  *)
(* bridge drives (CommitInv).                                              *)
(***************************************************************************)
EXTENDS SimulatorAgent, SequenceTheorems, FiniteSetTheorems, TLAPS

\* The id of the n-th call of a session.
IdOf(n) == 1 + ((StartId - 1 + n) % (IdModulus - 1))

\* Calls whose datagrams may still arrive.
Alive(n) == n \in 1 .. calls /\ n + Lateness >= calls

-----------------------------------------------------------------------------
(* Arithmetic of ids.                                                      *)

\* Adding less than the modulus wraps at most once.
LEMMA AddModulo ==
  ASSUME NEW K \in Nat \ {0}, NEW x \in Nat, NEW d \in Nat, d < K
  PROVE  /\ x % K \in 0 .. K - 1
         /\ \/ (x + d) % K = (x % K) + d
            \/ (x + d) % K = (x % K) + d - K
<1> DEFINE q == x \div K
           r == x % K
           p == (x + d) \div K
           t == (x + d) % K
<1>1. q \in Int /\ r \in 0 .. K - 1 /\ x = K * q + r
  OBVIOUS
<1>2. p \in Int /\ t \in 0 .. K - 1 /\ x + d = K * p + t
  OBVIOUS
<1> HIDE DEF q, r, p, t
<1>3. K * p + t = K * q + r + d
  BY <1>1, <1>2
<1>4. p >= q
  <2> SUFFICES ASSUME p + 1 <= q PROVE FALSE
    BY <1>1, <1>2
  <2>1. K * (p + 1) <= K * q
    BY <1>1, <1>2
  <2>2. K * (p + 1) = K * p + K
    BY <1>1, <1>2
  <2>3. K * p \in Int /\ K * q \in Int
    BY <1>1, <1>2
  <2> QED BY <1>1, <1>2, <1>3, <2>1, <2>2, <2>3
<1>5. p <= q + 1
  <2> SUFFICES ASSUME q + 2 <= p PROVE FALSE
    BY <1>1, <1>2
  <2>1. K * (q + 2) <= K * p
    BY <1>1, <1>2
  <2>2. K * (q + 2) = K * q + K + K
    BY <1>1, <1>2
  <2>3. K * p \in Int /\ K * q \in Int
    BY <1>1, <1>2
  <2> QED BY <1>1, <1>2, <1>3, <2>1, <2>2, <2>3
<1>6. CASE p = q
  <2>1. K * p = K * q /\ K * q \in Int
    BY <1>1, <1>6
  <2>2. t = r + d
    BY <1>1, <1>2, <1>3, <2>1
  <2> QED BY <1>1, <2>2 DEF r, t
<1>7. CASE p = q + 1
  <2>1. K * (q + 1) = K * q + K /\ K * q \in Int
    BY <1>1
  <2>2. t = r + d - K
    BY <1>1, <1>2, <1>3, <1>7, <2>1
  <2> QED BY <1>1, <2>2 DEF r, t
<1> QED BY <1>1, <1>2, <1>4, <1>5, <1>6, <1>7

\* The ids of a session: the first, the range, and what d draws add.
LEMMA IdOfSum ==
  ASSUME NEW n \in Nat, NEW d \in Nat, d < IdModulus - 1
  PROVE  /\ IdOf(n) \in 1 .. IdModulus - 1
         /\ \/ IdOf(n + d) = IdOf(n) + d
            \/ IdOf(n + d) = IdOf(n) + d - (IdModulus - 1)
<1> DEFINE K == IdModulus - 1
           x == StartId - 1 + n
<1>1. K \in Nat \ {0} /\ x \in Nat /\ StartId - 1 + (n + d) = x + d
  BY IdModulusAssumption, SimulatorAssumption DEF RequestId
<1>2. /\ x % K \in 0 .. K - 1
      /\ \/ (x + d) % K = (x % K) + d
         \/ (x + d) % K = (x % K) + d - K
  BY <1>1, AddModulo
<1>3. IdOf(n) = 1 + (x % K)
  BY DEF IdOf
<1>4. IdOf(n + d) = 1 + ((StartId - 1 + (n + d)) % K)
  BY DEF IdOf
<1>5. IdOf(n + d) = 1 + ((x + d) % K)
  BY <1>1, <1>4, Zenon
<1>6. K = IdModulus - 1
  OBVIOUS
<1> DEFINE r == x % K
           t == (x + d) % K
<1>7. r \in 0 .. K - 1 /\ (t = r + d \/ t = r + d - K) /\ IdOf(n) = 1 + r /\ IdOf(n + d) = 1 + t
  BY <1>2, <1>3, <1>5, Zenon
<1> HIDE DEF r, t, K
<1> QED BY <1>1, <1>6, <1>7, IdModulusAssumption

\* The bridge draws the ids of its session one after the other.
LEMMA IdOfNext ==
  /\ IdOf(0) = StartId
  /\ \A n \in Nat : IdOf(n) \in 1 .. IdModulus - 1 /\ IdOf(n + 1) = NextRequestId(IdOf(n))
<1>1. IdOf(0) = StartId
  <2>1. StartId - 1 \in 0 .. IdModulus - 2 /\ IdModulus - 1 \in Nat \ {0}
    BY IdModulusAssumption, SimulatorAssumption DEF RequestId
  <2>2. \A K \in Nat \ {0}, x \in Nat : x < K => x % K = x
    OBVIOUS
  <2> DEFINE y == StartId - 1
             M == IdModulus - 1
  <2>6. y \in Nat /\ M \in Nat \ {0} /\ y < M
    BY <2>1, IdModulusAssumption
  <2> HIDE DEF y, M
  <2>7. y % M = y
    BY <2>2, <2>6
  <2>3. (StartId - 1) % (IdModulus - 1) = StartId - 1
    BY <2>7 DEF y, M
  <2>4. StartId - 1 + 0 = StartId - 1 /\ StartId \in Int
    BY SimulatorAssumption, IdModulusAssumption DEF RequestId
  <2>5. IdOf(0) = 1 + ((StartId - 1) % (IdModulus - 1))
    BY <2>4 DEF IdOf
  <2> QED BY <2>3, <2>4, <2>5
<1>2. ASSUME NEW n \in Nat
      PROVE  IdOf(n) \in 1 .. IdModulus - 1 /\ IdOf(n + 1) = NextRequestId(IdOf(n))
  <2> DEFINE i == IdOf(n)
             j == IdOf(n + 1)
  <2>1. i \in 1 .. IdModulus - 1 /\ j \in 1 .. IdModulus - 1
        /\ (j = i + 1 \/ j = i + 1 - (IdModulus - 1))
    BY IdOfSum, IdModulusAssumption
  <2> HIDE DEF i, j
  <2>2. CASE i = IdModulus - 1
    <3>1. (i + 1) % IdModulus = 0
      BY <2>2, IdModulusAssumption
    <3>2. j = 1
      BY <2>1, <2>2, IdModulusAssumption
    <3> QED BY <2>1, <3>1, <3>2 DEF NextRequestId, i, j
  <2>3. CASE i # IdModulus - 1
    <3>1. i + 1 \in 0 .. IdModulus - 1 /\ i + 1 # 0
      BY <2>1, <2>3, IdModulusAssumption
    <3>2. (i + 1) % IdModulus = i + 1
      BY <3>1, IdModulusAssumption
    <3>3. j = i + 1
      BY <2>1, <2>3, IdModulusAssumption
    <3> QED BY <2>1, <3>1, <3>2, <3>3 DEF NextRequestId, i, j
  <2> QED BY <2>2, <2>3
<1> QED BY <1>1, <1>2

\* Differences of ids modulo the range of ids.
LEMMA IdDifference ==
  ASSUME NEW x \in Int
  PROVE  /\ x \in 0 .. IdModulus - 1 => x % IdModulus = x
         /\ x \in -IdModulus .. -1 => x % IdModulus = x + IdModulus
BY IdModulusAssumption

\* Within half the range of ids an id looks newer than another one exactly when
\* its call is later.
LEMMA NewerIsLater ==
  ASSUME NEW n \in Nat, NEW d \in Nat, d < IdModulus \div 2
  PROVE  /\ ~RequestIsNewer(IdOf(n), IdOf(n + d))
         /\ d # 0 /\ d + 1 < IdModulus \div 2 => RequestIsNewer(IdOf(n + d), IdOf(n))
         /\ d # 0 => IdOf(n + d) # IdOf(n)
<1> DEFINE half == IdModulus \div 2
           i == IdOf(n)
           j == IdOf(n + d)
<1>1. half \in Nat /\ 2 * half = IdModulus /\ half >= 2 /\ IdModulus \in Nat
  BY IdModulusAssumption
<1>2. /\ i \in 1 .. IdModulus - 1 /\ j \in 1 .. IdModulus - 1
      /\ (j = i + d \/ j = i + d - (IdModulus - 1))
  <2>1. d < IdModulus - 1
    BY <1>1 DEF half
  <2>2. i \in 1 .. IdModulus - 1 /\ (j = i + d \/ j = i + d - (IdModulus - 1))
    BY <2>1, IdOfSum
  <2>3. j \in 1 .. IdModulus - 1
    BY IdOfNext
  <2> QED BY <2>2, <2>3
<1> HIDE DEF i, j, half
<1>3. d < half
  BY DEF half
<1>4. d # 0 => j # i
  BY <1>1, <1>2, <1>3
<1>5. ~RequestIsNewer(i, j)
  <2> DEFINE e == i - j
  <2>1. CASE j = i + d
    <3>1. CASE d = 0
      <4>1. e = 0 /\ e % IdModulus = 0
        BY <1>1, <1>2, <2>1, <3>1, IdDifference
      <4> QED BY <4>1 DEF RequestIsNewer
    <3>2. CASE d # 0
      <4>1. e \in -IdModulus .. -1 /\ e \in Int /\ e + IdModulus >= half
        BY <1>1, <1>2, <1>3, <2>1, <3>2
      <4>2. e % IdModulus = e + IdModulus
        BY <4>1, IdDifference
      <4> QED BY <1>1, <4>1, <4>2 DEF RequestIsNewer, half
    <3> QED BY <3>1, <3>2
  <2>2. CASE j = i + d - (IdModulus - 1)
    <3>1. e \in 0 .. IdModulus - 1 /\ e \in Int /\ e >= half
      BY <1>1, <1>2, <1>3, <2>2
    <3>2. e % IdModulus = e
      BY <3>1, IdDifference
    <3> QED BY <1>1, <3>1, <3>2 DEF RequestIsNewer, half
  <2> QED BY <1>2, <2>1, <2>2
<1>6. ASSUME d # 0, d + 1 < half
      PROVE  RequestIsNewer(j, i)
  <2> DEFINE e == j - i
  <2>1. CASE j = i + d
    <3>1. e \in 0 .. IdModulus - 1 /\ e \in Int /\ e < half /\ e # 0
      BY <1>1, <1>2, <1>6, <2>1
    <3>2. e % IdModulus = e
      BY <3>1, IdDifference
    <3> QED BY <1>1, <3>1, <3>2 DEF RequestIsNewer, half
  <2>2. CASE j = i + d - (IdModulus - 1)
    <3>1. e \in -IdModulus .. -1 /\ e \in Int /\ e + IdModulus < half /\ e + IdModulus # 0
      BY <1>1, <1>2, <1>6, <2>2
    <3>2. e % IdModulus = e + IdModulus
      BY <3>1, IdDifference
    <3> QED BY <1>1, <3>1, <3>2 DEF RequestIsNewer, half
  <2> QED BY <1>2, <2>1, <2>2
<1> QED BY <1>4, <1>5, <1>6 DEF i, j, half

-----------------------------------------------------------------------------
(* The invariants.  They say nothing of a bridge whose session is gone     *)
(* (joined # session): none of its datagrams is looked at.                 *)

Sync == joined = session

\* The bridge and its datagrams.
BridgeInv ==
  /\ lastId = IdOf(calls) /\ joined <= session
  /\ request # None => calls >= 1 /\ request \in Requests
  /\ request # None => \E m \in sent : m.call = calls
  /\ \A m \in sent :
       /\ m.session = joined /\ Alive(m.call) /\ m.id = IdOf(m.call)
       /\ m.index \in Fragments(m.req)
       /\ request # None /\ m.call = calls => m.req = request
  /\ \A m \in sent : \A o \in sent : m.call = o.call => m.req = o.req

Distinct(s) == \A i \in DOMAIN s : \A j \in DOMAIN s : s[i].id = s[j].id => i = j

\* The answer to call n is in the cache.
Stored(n) == \E i \in DOMAIN cache : cache[i].id = IdOf(n)

\* It is, and what came after it are other calls, made at most Lateness before it.
KeptInCache(n) ==
  \E i \in DOMAIN cache :
    /\ cache[i].id = IdOf(n)
    /\ \A j \in i + 1 .. Len(cache) :
         \E k \in n - Lateness .. calls : k # n /\ cache[j].id = IdOf(k)

\* It was pushed out, and the copies of the call would be taken for a replay.
KeptOut(n) ==
  /\ n < calls /\ n + Lateness = calls
  /\ \E k \in n .. calls : last = IdOf(k)
  /\ \A k \in n + 1 .. calls : Stored(k)

Kept(n) == KeptInCache(n) \/ KeptOut(n)

\* A call that was carried out is not carried out again.
OnceInv ==
  /\ \A n \in 1 .. MaxCalls : runs[n] <= 1 /\ (n > calls => runs[n] = 0)
  /\ Sync => /\ Distinct(cache) /\ Len(cache) <= CacheSize
             /\ \A n \in 1 .. calls : Alive(n) /\ runs[n] # 0 => Kept(n)

\* The agent knows only ids of this session.
FromSession ==
  /\ \A i \in DOMAIN cache : \E k \in 1 .. calls : cache[i].id = IdOf(k)
  /\ last # None => \E k \in 1 .. calls : last = IdOf(k)

\* What the call in progress is answered once it is carried out.
Replied ==
  calls >= 1 /\ runs[calls] = 1 /\ request # None =>
    /\ reply # None
    /\ \A i \in DOMAIN cache : cache[i].id = IdOf(calls) => cache[i].answer = reply

\* The call in progress is answered when it is carried out and not before.
AnswerInv ==
  Sync =>
    /\ FromSession
    /\ \A n \in 1 .. calls : Alive(n) /\ Stored(n) => KeptInCache(n)
    /\ calls >= 1 /\ runs[calls] = 0 => ~Stored(calls) /\ last # IdOf(calls) /\ reply = None
    /\ Replied

\* Entries with ids of this session, each id once.
SessionIds(s) == Distinct(s) /\ \A i \in DOMAIN s : \E k \in 1 .. calls : s[i].id = IdOf(k)

NotIn(s) == \A i \in DOMAIN s : s[i].id # IdOf(calls)

\* The fragments of the last call are together, and behind them only those of calls
\* whose datagrams may still arrive.
Together(s) ==
  \E i \in DOMAIN s :
    /\ s[i].id = IdOf(calls) /\ s[i].got = arrived
    /\ \A j \in i + 1 .. Len(s) : \E k \in calls - Lateness .. calls - 1 : s[j].id = IdOf(k)

\* The last call is not complete.
Incomplete == \A m \in sent : m.call = calls => arrived # Fragments(m.req)

WholeInv ==
  Sync =>
    /\ SessionIds(pending) /\ Len(pending) <= PendingSize
    /\ calls >= 1 /\ runs[calls] = 0 =>
         (arrived = {} /\ NotIn(pending)) \/ (Together(pending) /\ Incomplete)

\* The agent holds the transfer that the bridge drives, or none.
HoldsIn(t, k) == IF k = None THEN t = None ELSE t # None /\ t.tid = k.tid
Holds(k) == HoldsIn(transfer, k)

FreeInv ==
  Sync /\ ~gaveUp /\ ~stray =>
    /\ \A n \in 1 .. calls - 1 : runs[n] = 1
    /\ request = None => (calls >= 1 => runs[calls] = 1) /\ Holds(known)
    /\ request # None /\ runs[calls] = 0 => Holds(known)
    /\ request # None /\ runs[calls] = 1 => Holds(After(reply))

-----------------------------------------------------------------------------
(* The invariant of CommitIsStored.                                        *)

\* The bridge has, or is about to have, a transfer.
BeginAnswered == request # None /\ request.op = "begin" /\ runs[calls] = 1 /\ reply.ok = TRUE
Owned == known # None \/ BeginAnswered
Drives == known # None /\ known.failed = FALSE

\* Call n cannot be carried out any more.
Dead(n) ==
  \/ Kept(n)
  \/ /\ \E k \in n .. calls : last = IdOf(k)
     /\ \A i \in 1 .. n - 1 : Alive(i) => Kept(i)

\* What a call overtaken by a later one may still do does not touch a transfer.
Harmless(m) == m.req.op \in {"keys", "begin"} \/ Dead(m.call)
NoHarm ==
  Owned => \A m \in sent : \A k \in m.call + 1 .. calls :
             runs[m.call] = 0 /\ runs[k] = 1 => Harmless(m)

Matches(k) == transfer # None /\ (k.kind = "write" => transfer.expected = k.data)

Driven ==
  /\ Drives /\ request = None => calls >= 1 /\ runs[calls] = 1 /\ Matches(known)
  /\ Drives /\ request # None => calls >= 2 /\ runs[calls - 1] = 1
  /\ Drives /\ request # None /\ runs[calls] = 0 => Matches(known)

Acknowledged ==
  request # None /\ runs[calls] = 1 /\ reply.ok = TRUE =>
    /\ request.op = "begin" => Matches(request)
    /\ request.op = "block" => Matches(known)
    /\ request.op = "finish" /\ request.kind = "write" => dest = known.data

\* A transfer whose calls are all under way is still held.
Failing ==
  known # None /\ known.failed = TRUE /\ request = None =>
    calls >= 2 /\ runs[calls - 1] = 1 /\ (runs[calls] = 0 => transfer # None)

Aborting ==
  \A m \in sent : m.req.op = "abort" /\ runs[calls] = 0 =>
    /\ m.call = calls =>
         calls >= 2 /\ (runs[calls - 1] = 0 => calls >= 3 /\ runs[calls - 2] = 1 /\ transfer # None)
    /\ m.call = calls - 1 /\ runs[calls - 1] = 0 =>
         calls >= 3 /\ (runs[calls - 2] = 0 => transfer # None)

\* A block or a finish that was not carried out is followed by an abort.
Unfinished ==
  \A m \in sent : m.req.op \in {"block", "finish"} /\ runs[m.call] = 0 =>
    /\ ~(m.call = calls /\ request = None /\ known = None)
    /\ ~(m.call = calls - 1 /\ request # None /\ request.op \in {"keys", "begin"})

CommitInv == Sync => NoHarm /\ Driven /\ Acknowledged /\ Failing /\ Aborting /\ Unfinished

-----------------------------------------------------------------------------
(* Values.                                                                 *)

\* What an upload carries is known on both sides.
WellKnown(k) ==
  /\ k \in Known \cup {None}
  /\ k # None /\ k.kind = "write" => k.data \in Contents /\ k.size = Len(k.data)
WellHeld(t) ==
  /\ t \in Transfer \cup {None}
  /\ t # None /\ t.kind = "write" => t.expected \in Contents

KindInv == WellKnown(known) /\ WellHeld(transfer)

\* A block of a content.
LEMMA BlockOfContent ==
  ASSUME NEW c \in Contents
  PROVE  /\ c \in Seq(Block) /\ c \in Seq(Block \cup {None}) /\ Len(c) \in Nat
         /\ \A i \in 1 .. Len(c) : c[i] \in Block
<1>1. c \in Seq(Block)
  BY ValuesAssumption
<1>2. Len(c) \in Nat /\ \A i \in 1 .. Len(c) : c[i] \in Block
  BY <1>1, ElementOfSeq, LenProperties
<1>3. c \in Seq(Block \cup {None})
  BY <1>1
<1> QED BY <1>1, <1>2, <1>3

\* The requests a bridge may make next.
LEMMA RequestsTyped ==
  ASSUME WellKnown(known), NEW req \in Requests
  PROVE  /\ req \in Request
         /\ known = None => req.op \in {"keys", "begin"}
         /\ known # None =>
              /\ req.op \in {"abort", "block", "finish"}
              /\ req.tid = known.tid /\ req.kind = known.kind
              /\ known.failed = TRUE => req.op = "abort"
<1>1. CASE known = None
  <2>1. \/ req = Req("keys", None, None, None) \/ req = Req("begin", None, "read", None)
        \/ req = Req("begin", None, "graphics", None)
        \/ \E c \in Contents : req = Req("begin", None, "write", c)
    BY <1>1 DEF Requests
  <2> QED BY <1>1, <2>1 DEF Req, Request
<1>2. CASE known # None
  <2>0. known \in Known /\ known.tid \in Id /\ known.kind \in Kinds
        /\ known.at \in Nat /\ known.failed \in BOOLEAN /\ known.size \in Nat
    BY <1>2 DEF WellKnown, Known
  <2>1. \/ req = Req("abort", known.tid, known.kind, None)
        \/ known.failed = FALSE /\ req = Req("finish", known.tid, known.kind, None)
        \/ /\ known.failed = FALSE /\ known.at < known.size
           /\ req = Req("block", known.tid, known.kind,
                        [at |-> known.at, block |-> IF known.kind = "write"
                                              THEN known.data[known.at + 1] ELSE None])
    BY <1>2, <2>0 DEF Requests
  <2>2. CASE req = Req("abort", known.tid, known.kind, None)
    BY <1>2, <2>0, <2>2 DEF Req, Request
  <2>3. CASE known.failed = FALSE /\ req = Req("finish", known.tid, known.kind, None)
    BY <1>2, <2>0, <2>3 DEF Req, Request
  <2>4. CASE /\ known.failed = FALSE /\ known.at < known.size
             /\ req = Req("block", known.tid, known.kind,
                          [at |-> known.at, block |-> IF known.kind = "write"
                                                THEN known.data[known.at + 1] ELSE None])
    <3> DEFINE b == IF known.kind = "write" THEN known.data[known.at + 1] ELSE None
    <3>1. b \in Block \cup {None}
      <4>1. CASE known.kind = "write"
        <5>1. known.data \in Contents /\ known.size = Len(known.data)
          BY <1>2, <4>1 DEF WellKnown
        <5>2. known.at + 1 \in 1 .. Len(known.data)
          BY <2>0, <2>4, <5>1
        <5> QED BY <4>1, <5>1, <5>2, BlockOfContent
      <4>2. CASE known.kind # "write"
        BY <4>2
      <4> QED BY <4>1, <4>2
    <3> HIDE DEF b
    <3>2. [at |-> known.at, block |-> b] \in [at : Nat, block : Block \cup {None}]
      BY <2>0, <3>1
    <3>3. req = Req("block", known.tid, known.kind, [at |-> known.at, block |-> b])
      BY <2>4 DEF b
    <3> QED BY <1>2, <2>0, <2>4, <3>2, <3>3 DEF Req, Request
  <2> QED BY <2>1, <2>2, <2>3, <2>4
<1> QED BY <1>1, <1>2

\* What the bridge knows after an answer.
LEMMA AfterTyped ==
  ASSUME WellKnown(known), request \in Requests, NEW answer \in Reply
  PROVE  WellKnown(After(answer))
<1>1. request \in Request
      /\ (known = None => request.op \in {"keys", "begin"})
  BY RequestsTyped
<1>2. answer.ok \in BOOLEAN /\ answer.tid \in Id /\ answer.size \in Nat
  BY DEF Reply
<1>3. CASE request.op = "begin" /\ answer.ok
  <2> DEFINE size == IF request.kind = "write" THEN Len(request.data) ELSE answer.size
  <2>1. /\ request.kind \in Kinds /\ request.data \in Contents \cup {None}
        /\ request.kind = "write" => request.data \in Contents
    BY <1>1, <1>3 DEF Request, Kinds
  <2>2. size \in Nat /\ (request.kind = "write" => size = Len(request.data))
    BY <1>2, <2>1, BlockOfContent
  <2> HIDE DEF size
  <2>3. After(answer) = [tid |-> answer.tid, kind |-> request.kind, data |-> request.data,
                         at |-> 0, failed |-> FALSE, size |-> size]
    BY <1>3 DEF After, size
  <2> QED BY <1>2, <2>1, <2>2, <2>3 DEF WellKnown, Known
<1>4. CASE ~(request.op = "begin" /\ answer.ok) /\ request.op = "block" /\ answer.ok
  <2>1. known # None /\ known \in Known
    BY <1>1, <1>4 DEF WellKnown
  <2>2. After(answer) = [known EXCEPT !.at = @ + 1]
    BY <1>4 DEF After
  <2> QED BY <2>1, <2>2 DEF WellKnown, Known
<1>5. CASE request.op \in {"block", "finish"} /\ ~answer.ok
  <2>1. known # None /\ known \in Known
    BY <1>1, <1>5 DEF WellKnown
  <2>2. After(answer) = [known EXCEPT !.failed = TRUE]
    BY <1>5 DEF After
  <2> QED BY <2>1, <2>2 DEF WellKnown, Known
<1>6. CASE /\ ~(request.op = "begin" /\ answer.ok) /\ ~(request.op = "block" /\ answer.ok)
           /\ ~(request.op \in {"block", "finish"} /\ ~answer.ok)
  <2>1. After(answer) = None
    BY <1>6 DEF After
  <2> QED BY <2>1 DEF WellKnown
<1> QED BY <1>3, <1>4, <1>5, <1>6

-----------------------------------------------------------------------------
(* What carrying out a request does.                                       *)

Untouched(d) == d.transfer = transfer /\ d.dest = dest /\ d.answer.ok = FALSE

Effect(req, d) ==
  /\ d.answer \in Reply /\ WellHeld(d.transfer) /\ d.dest \in Contents \cup {Absent}
  /\ req.op = "keys" => d.transfer = transfer /\ d.dest = dest
  /\ req.op = "begin" =>
       \/ Untouched(d)
       \/ /\ transfer = None /\ d.transfer # None /\ d.dest = dest
          /\ d.answer.ok = TRUE /\ d.transfer.tid = d.answer.tid
          /\ req.kind = "write" => d.transfer.expected = req.data
       \/ /\ transfer = None /\ d.transfer # None /\ d.dest = dest /\ d.answer.ok = FALSE
  /\ req.op = "abort" =>
       /\ d.answer.ok = TRUE /\ d.dest = dest
       /\ d.transfer = transfer \/ d.transfer = None
       /\ transfer # None /\ transfer.tid = req.tid => d.transfer = None
  /\ req.op = "block" =>
       \/ Untouched(d)
       \/ /\ transfer # None /\ d.transfer # None /\ d.dest = dest
          /\ d.answer.ok = TRUE /\ d.transfer.tid = transfer.tid
          /\ d.transfer.expected = transfer.expected
  /\ req.op = "finish" =>
       \/ Untouched(d)
       \/ /\ transfer # None /\ d.transfer = None /\ d.answer.ok = TRUE
          /\ req.kind = "write" => d.dest = transfer.expected

\* A refused request changes nothing.
LEMMA RefusedEffect ==
  ASSUME WellHeld(transfer), dest \in Contents \cup {Absent}, NEW d \in Refused
  PROVE  Untouched(d) /\ d.answer \in Reply /\ WellHeld(d.transfer) /\ d.dest \in Contents \cup {Absent}
<1>1. d.answer = Error /\ d.transfer = transfer /\ d.dest = dest
  BY DEF Refused, Then
<1>2. Error \in Reply /\ Error.ok = FALSE
  BY DEF Error, Reply, Id
<1> QED BY <1>1, <1>2 DEF Untouched

Starts(d, t) ==
  /\ d.answer \in Reply /\ WellHeld(d.transfer) /\ d.dest = dest /\ d.transfer # None
  /\ d.answer.ok = TRUE /\ d.transfer.tid = d.answer.tid /\ d.transfer = t

\* A transfer is started.
LEMMA StartEffect ==
  ASSUME NEW t \in Transfer, NEW size \in Nat,
         t.kind = "write" => t.expected \in Contents
  PROVE  Starts(Then(Begun(t.tid, size), t, dest), t)
<1> DEFINE d == Then(Begun(t.tid, size), t, dest)
<1>1. t # None /\ t.tid \in TransferIds
  BY ValuesAssumption DEF Transfer
<1>2. Begun(t.tid, size) \in Reply /\ Begun(t.tid, size).ok = TRUE
      /\ Begun(t.tid, size).tid = t.tid
  BY <1>1 DEF Begun, Reply, Id
<1>3. d.answer = Begun(t.tid, size) /\ d.transfer = t /\ d.dest = dest
  BY DEF Then
<1>4. WellHeld(t)
  BY DEF WellHeld
<1> HIDE DEF d
<1>5. Starts(d, t)
  BY <1>1, <1>2, <1>3, <1>4 DEF Starts
<1> QED BY <1>5 DEF d

\* Every way to carry out a request is as Effect says.
LEMMA DispatchEffect ==
  ASSUME WellHeld(transfer), dest \in Contents \cup {Absent},
         NEW req \in Request, NEW d \in Dispatch(req)
  PROVE  Effect(req, d)
<1>1. CASE req.op = "keys"
  <2>1. d \in Refused \/ d = Then(Ok(None), transfer, dest)
    BY <1>1 DEF Dispatch
  <2>2. CASE d \in Refused
    BY <1>1, <2>2, RefusedEffect DEF Effect, Untouched
  <2>3. CASE d = Then(Ok(None), transfer, dest)
    <3>1. d.answer \in Reply /\ d.transfer = transfer /\ d.dest = dest
      BY <2>3 DEF Then, Ok, Begun, Reply, Id
    <3> QED BY <1>1, <3>1 DEF Effect
  <2> QED BY <2>1, <2>2, <2>3
<1>2. CASE req.op = "begin"
  <2>0. d \in Begin(req)
    BY <1>2 DEF Dispatch
  <2>1. CASE d \in Refused
    BY <1>2, <2>1, RefusedEffect DEF Effect
  <2>2. CASE d \notin Refused
    <3>1. transfer = None
      <4>1. SUFFICES ASSUME transfer # None PROVE FALSE
        OBVIOUS
      <4>2. CASE req.kind # "graphics"
        BY <2>0, <2>2, <4>1, <4>2 DEF Begin, FileReadBegin, StartTransfer
      <4>3. CASE req.kind = "graphics"
        <5>1. PICK c \in Contents :
                \/ d \in StartTransfer("graphics", c, None, Len(c))
                \/ \E e \in StartTransfer("graphics", c, None, Len(c)) :
                     d = Then(Error, e.transfer, dest)
          BY <2>0, <2>2, <4>3 DEF Begin, GraphicsBegin
        <5>2. StartTransfer("graphics", c, None, Len(c)) = Refused
          BY <4>1 DEF StartTransfer
        <5>3. \A e \in Refused : e.transfer = transfer
          BY DEF Refused, Then
        <5>4. \E e \in Refused : d = Then(Error, e.transfer, dest)
          BY <2>2, <5>1, <5>2
        <5>5. d = Then(Error, transfer, dest)
          BY <5>3, <5>4
        <5> QED BY <2>2, <5>5 DEF Refused
      <4> QED BY <4>2, <4>3
    <3>2. CASE req.kind = "read"
      <4>1. dest \in Contents /\ d \in StartTransfer("read", dest, None, Len(dest))
        BY <2>0, <2>2, <3>2 DEF Begin, FileReadBegin
      <4>2. dest \in Seq(Block \cup {None}) /\ Len(dest) \in Nat
        BY <4>1, BlockOfContent
      <4>3. PICK i \in TransferIds :
              d = Then(Begun(i, Len(dest)),
                       [tid |-> i, kind |-> "read", data |-> dest, at |-> 0,
                        expected |-> None], dest)
        BY <3>1, <4>1 DEF StartTransfer
      <4> DEFINE t == [tid |-> i, kind |-> "read", data |-> dest, at |-> 0, expected |-> None]
      <4>4. t \in Transfer /\ t.tid = i /\ t.kind # "write"
        BY <4>2 DEF Transfer, Kinds
      <4>5. d = Then(Begun(t.tid, Len(dest)), t, dest)
        BY <4>3, <4>4
      <4> HIDE DEF t
      <4>6. Starts(Then(Begun(t.tid, Len(dest)), t, dest), t)
        BY <4>2, <4>4, StartEffect
      <4>7. Starts(d, t)
        BY <4>5, <4>6
      <4> QED BY <1>2, <3>1, <3>2, <4>7 DEF Effect, Starts
    <3>3. CASE req.kind = "graphics"
      <4>1. PICK c \in Contents, i \in TransferIds :
              \/ d = Then(Begun(i, Len(c)), [tid |-> i, kind |-> "graphics", data |-> c,
                                             at |-> 0, expected |-> None], dest)
              \/ d = Then(Error, [tid |-> i, kind |-> "graphics", data |-> c, at |-> 0,
                                  expected |-> None], dest)
        <5>1. PICK c \in Contents :
                \/ d \in StartTransfer("graphics", c, None, Len(c))
                \/ \E e \in StartTransfer("graphics", c, None, Len(c)) :
                     d = Then(Error, e.transfer, dest)
          BY <2>0, <2>2, <3>3 DEF Begin, GraphicsBegin
        <5>2. StartTransfer("graphics", c, None, Len(c)) =
                {Then(Begun(i, Len(c)), [tid |-> i, kind |-> "graphics", data |-> c, at |-> 0,
                                         expected |-> None], dest) : i \in TransferIds}
          BY <3>1 DEF StartTransfer
        <5>3. CASE d \in StartTransfer("graphics", c, None, Len(c))
          BY <5>2, <5>3
        <5>4. CASE \E e \in StartTransfer("graphics", c, None, Len(c)) :
                     d = Then(Error, e.transfer, dest)
          <6>1. PICK i \in TransferIds :
                  d = Then(Error, [tid |-> i, kind |-> "graphics", data |-> c, at |-> 0,
                                   expected |-> None], dest)
            BY <5>2, <5>4 DEF Then
          <6> QED BY <6>1
        <5> QED BY <5>1, <5>3, <5>4
      <4> DEFINE t == [tid |-> i, kind |-> "graphics", data |-> c, at |-> 0, expected |-> None]
      <4>2. c \in Seq(Block \cup {None}) /\ Len(c) \in Nat
        BY BlockOfContent
      <4>3. t \in Transfer /\ t.tid = i /\ t.kind # "write"
        BY <4>2 DEF Transfer, Kinds
      <4>4. d = Then(Begun(t.tid, Len(c)), t, dest) \/ d = Then(Error, t, dest)
        BY <4>1, <4>3
      <4> HIDE DEF t
      <4>5. CASE d = Then(Begun(t.tid, Len(c)), t, dest)
        <5>1. Starts(d, t)
          BY <4>2, <4>3, <4>5, StartEffect
        <5> QED BY <1>2, <3>1, <3>3, <5>1 DEF Effect, Starts
      <4>6. CASE d = Then(Error, t, dest)
        <5>1. t # None /\ WellHeld(t)
          BY <4>3, ValuesAssumption DEF WellHeld
        <5>2. d.answer = Error /\ d.transfer = t /\ d.dest = dest
          BY <4>6 DEF Then
        <5>3. Error \in Reply /\ Error.ok = FALSE
          BY DEF Error, Reply, Id
        <5> QED BY <1>2, <3>1, <5>1, <5>2, <5>3 DEF Effect
      <4> QED BY <4>4, <4>5, <4>6
    <3>4. CASE req.kind \notin {"read", "graphics"}
      <4>1. req.kind = "write" /\ req.data \in Contents
        BY <1>2, <3>4 DEF Request
      <4>2. d \in StartTransfer("write", << >>, req.data, Len(req.data))
        BY <2>0, <4>1 DEF Begin
      <4>3. << >> \in Seq(Block \cup {None}) /\ Len(req.data) \in Nat
        BY <4>1, BlockOfContent
      <4>4. PICK i \in TransferIds :
              d = Then(Begun(i, Len(req.data)),
                       [tid |-> i, kind |-> "write", data |-> << >>, at |-> 0,
                        expected |-> req.data], dest)
        BY <3>1, <4>2 DEF StartTransfer
      <4> DEFINE t == [tid |-> i, kind |-> "write", data |-> << >>, at |-> 0,
                       expected |-> req.data]
      <4>5. t \in Transfer /\ t.tid = i /\ t.expected = req.data
        BY <4>1, <4>3 DEF Transfer, Kinds
      <4>6. d = Then(Begun(t.tid, Len(req.data)), t, dest)
        BY <4>4, <4>5
      <4> HIDE DEF t
      <4>7. Starts(Then(Begun(t.tid, Len(req.data)), t, dest), t)
        BY <4>1, <4>3, <4>5, StartEffect
      <4>8. Starts(d, t)
        BY <4>6, <4>7
      <4> QED BY <1>2, <3>1, <4>5, <4>8 DEF Effect, Starts
    <3> QED BY <3>2, <3>3, <3>4
  <2> QED BY <2>1, <2>2
<1>3. CASE req.op = "abort"
  <2>1. d \in Abort(req)
    BY <1>3 DEF Dispatch
  <2>2. d.answer = Ok(None) /\ d.dest = dest
        /\ d.transfer = IF transfer # None /\ transfer.tid = req.tid THEN None ELSE transfer
    BY <2>1 DEF Abort, Then
  <2>3. Ok(None) \in Reply /\ Ok(None).ok = TRUE
    BY DEF Ok, Begun, Reply, Id
  <2>4. WellHeld(None)
    BY DEF WellHeld
  <2> QED BY <1>3, <2>2, <2>3, <2>4 DEF Effect
<1>4. CASE req.op \in {"block", "finish"} /\ d \in Refused
  BY <1>4, RefusedEffect DEF Effect
<1>5. CASE req.op \in {"block", "finish"} /\ d \notin Refused
  <2>1. RequireTransfer(req)
    BY <1>5 DEF Dispatch
  <2>2. transfer # None /\ transfer \in Transfer /\ transfer.tid = req.tid /\ transfer.kind = req.kind
        /\ req.tid \in Id
    BY <2>1, <1>5 DEF RequireTransfer, WellHeld, Request
  <2>3. /\ transfer.tid \in TransferIds /\ transfer.at \in Nat
        /\ transfer.data \in Seq(Block \cup {None})
    BY <2>2 DEF Transfer
  <2>4. CASE req.op = "block" /\ req.kind # "write"
    <3>1. d = Then(Ok(req.tid), [transfer EXCEPT !.at = @ + 1], dest)
      BY <1>5, <2>1, <2>4 DEF Dispatch, ReadBlock
    <3> DEFINE t == [transfer EXCEPT !.at = @ + 1]
    <3>2. t \in Transfer /\ t.tid = transfer.tid /\ t.expected = transfer.expected
          /\ t.kind = transfer.kind
      BY <2>2, <2>3 DEF Transfer
    <3>3. d.answer = Ok(req.tid) /\ d.transfer = t /\ d.dest = dest
      BY <3>1 DEF Then
    <3>4. Ok(req.tid) \in Reply /\ Ok(req.tid).ok = TRUE
      BY <2>2 DEF Ok, Begun, Reply
    <3>5. t # None
      BY <3>2, ValuesAssumption
    <3> HIDE DEF t
    <3> QED BY <2>2, <2>4, <3>2, <3>3, <3>4, <3>5 DEF Effect, WellHeld
  <2>5. CASE req.op = "block" /\ req.kind = "write"
    <3>1. d = Then(Ok(req.tid), [transfer EXCEPT !.at = @ + 1,
                                                 !.data = Append(@, req.data.block)], dest)
      BY <1>5, <2>1, <2>5 DEF Dispatch, WriteBlock
    <3> DEFINE x == Append(transfer.data, req.data.block)
               u == [transfer EXCEPT !.at = @ + 1]
               t == [u EXCEPT !.data = x]
    <3>0. req.data.block \in Block \cup {None}
      BY <2>5 DEF Request
    <3>6. x \in Seq(Block \cup {None})
      BY <2>3, <3>0, AppendProperties
    <3>7. d = Then(Ok(req.tid), t, dest)
      BY <3>1, Zenon
    <3> HIDE DEF x
    <3>2. t \in Transfer /\ t.tid = transfer.tid /\ t.expected = transfer.expected
          /\ t.kind = transfer.kind
      <4>1. u \in Transfer /\ u.tid = transfer.tid /\ u.expected = transfer.expected
            /\ u.kind = transfer.kind
        BY <2>2, <2>3 DEF Transfer
      <4> HIDE DEF u
      <4> QED BY <3>6, <4>1 DEF Transfer
    <3>3. d.answer = Ok(req.tid) /\ d.transfer = t /\ d.dest = dest
      BY <3>7 DEF Then
    <3>4. Ok(req.tid) \in Reply /\ Ok(req.tid).ok = TRUE
      BY <2>2 DEF Ok, Begun, Reply
    <3>5. t # None
      BY <3>2, ValuesAssumption
    <3> HIDE DEF t
    <3> QED BY <2>2, <2>5, <3>2, <3>3, <3>4, <3>5 DEF Effect, WellHeld
  <2>6. CASE req.op = "finish"
    <3>1. \/ /\ req.kind # "write" /\ d = Then(Ok(transfer.tid), None, dest)
          \/ /\ req.kind = "write" /\ transfer.data = transfer.expected
             /\ d = Then(Ok(transfer.tid), None, transfer.data)
      BY <1>5, <2>1, <2>6 DEF Dispatch, EndRead, Commit
    <3>2. d.answer = Ok(transfer.tid) /\ d.transfer = None
      BY <3>1 DEF Then
    <3>3. Ok(transfer.tid) \in Reply /\ Ok(transfer.tid).ok = TRUE
      BY <2>3 DEF Ok, Begun, Reply, Id
    <3>4. WellHeld(None)
      BY DEF WellHeld
    <3>6. CASE req.kind # "write"
      <4>1. d.dest = dest
        BY <3>1, <3>6 DEF Then
      <4> QED BY <2>2, <2>6, <3>2, <3>3, <3>4, <3>6, <4>1 DEF Effect
    <3>7. CASE req.kind = "write"
      <4>1. d.dest = transfer.expected
        BY <3>1, <3>7 DEF Then
      <4>2. transfer.expected \in Contents
        BY <2>2, <3>7 DEF WellHeld
      <4> QED BY <2>2, <2>6, <3>2, <3>3, <3>4, <4>1, <4>2 DEF Effect
    <3> QED BY <3>6, <3>7
  <2> QED BY <1>5, <2>4, <2>5, <2>6
<1>6. req.op \in {"keys", "begin", "abort", "block", "finish"}
  BY DEF Request
<1> QED BY <1>1, <1>2, <1>3, <1>4, <1>5, <1>6

-----------------------------------------------------------------------------
(* Bounded sequences that drop their oldest entry: the cache of answers and *)
(* the partial requests.                                                   *)

\* t is s with e appended, without the first of s when s had n entries.
PushedBy(off, s, e, t, n) ==
  /\ off = 1 => Len(s) >= n
  /\ off = 0 => Len(s) < n
  /\ Len(t) = Len(s) + 1 - off
  /\ \A i \in 1 .. Len(s) - off : t[i] = s[i + off]
  /\ t[Len(s) + 1 - off] = e
Pushed(s, e, t, n) == \E off \in {0, 1} : PushedBy(off, s, e, t, n)

\* _send_response drops an entry after it stored one.
LEMMA PushThenDrop ==
  ASSUME NEW S, NEW s \in Seq(S), NEW e \in S, NEW n \in Nat \ {0},
         NEW t, t = IF Len(Append(s, e)) > n THEN Tail(Append(s, e)) ELSE Append(s, e)
  PROVE  t \in Seq(S) /\ Pushed(s, e, t, n)
<1> DEFINE all == Append(s, e)
<1>1. /\ all \in Seq(S) /\ Len(all) = Len(s) + 1 /\ all[Len(s) + 1] = e
      /\ \A i \in 1 .. Len(s) : all[i] = s[i]
  BY AppendProperties
<1>2. Len(s) \in Nat
  BY LenProperties
<1> HIDE DEF all
<1>3. CASE Len(all) > n
  <2>1. t = Tail(all)
    BY <1>3 DEF all
  <2>2. all # << >>
    BY <1>1, <1>2, EmptySeq
  <2>3. /\ Tail(all) \in Seq(S) /\ Len(Tail(all)) = Len(all) - 1
        /\ \A i \in 1 .. Len(Tail(all)) : Tail(all)[i] = all[i + 1]
    BY <1>1, <2>2, HeadTailProperties
  <2>4. Len(t) = Len(s)
    BY <1>1, <1>2, <2>1, <2>3
  <2>5. \A i \in 1 .. Len(s) - 1 : t[i] = s[i + 1]
    <3> TAKE i \in 1 .. Len(s) - 1
    <3>1. i \in 1 .. Len(Tail(all)) /\ i + 1 \in 1 .. Len(s)
      BY <1>1, <1>2, <2>3
    <3> QED BY <1>1, <2>1, <2>3, <3>1
  <2>6. t[Len(s)] = e
    <3>1. Len(s) \in 1 .. Len(Tail(all))
      BY <1>1, <1>2, <1>3, <2>3
    <3> QED BY <1>1, <2>1, <2>3, <3>1
  <2>7. Len(s) >= n /\ Len(s) + 1 - 1 = Len(s)
    BY <1>1, <1>2, <1>3
  <2>8. Pushed(s, e, t, n)
    <3>1. Len(t) = Len(s) + 1 - 1 /\ t[Len(s) + 1 - 1] = e
      BY <1>2, <2>4, <2>6, <2>7
    <3>2. PushedBy(1, s, e, t, n)
      BY ONLY <1>2, <2>5, <2>7, <3>1, n \in Nat DEF PushedBy
    <3> QED BY <3>2 DEF Pushed
  <2> QED BY <2>1, <2>3, <2>8
<1>4. CASE ~(Len(all) > n)
  <2>1. t = all
    BY <1>4 DEF all
  <2>2. Len(s) < n
    BY <1>1, <1>2, <1>4
  <2>3. /\ Len(t) = Len(s) + 1 - 0 /\ t[Len(s) + 1 - 0] = e
        /\ \A i \in 1 .. Len(s) - 0 : t[i] = s[i + 0]
    BY <1>1, <1>2, <2>1
  <2>4. Pushed(s, e, t, n)
    <3>1. PushedBy(0, s, e, t, n)
      BY <2>2, <2>3 DEF PushedBy
    <3> QED BY <3>1 DEF Pushed
  <2> QED BY <1>1, <2>1, <2>4
<1> QED BY <1>3, <1>4

\* handle_datagram drops an entry before it stores one.
LEMMA DropThenPush ==
  ASSUME NEW S, NEW s \in Seq(S), NEW e \in S, NEW n \in Nat \ {0},
         NEW t, t = Append(IF Len(s) >= n THEN Tail(s) ELSE s, e)
  PROVE  t \in Seq(S) /\ Pushed(s, e, t, n)
<1>1. Len(s) \in Nat
  BY LenProperties
<1>2. CASE Len(s) >= n
  <2>1. t = Append(Tail(s), e)
    BY <1>2
  <2>2. s # << >>
    BY <1>1, <1>2, EmptySeq
  <2> DEFINE u == Tail(s)
  <2>3. u \in Seq(S) /\ Len(u) = Len(s) - 1 /\ \A i \in 1 .. Len(u) : u[i] = s[i + 1]
    BY <2>2, HeadTailProperties
  <2> HIDE DEF u
  <2>4. /\ t \in Seq(S) /\ Len(t) = Len(u) + 1 /\ t[Len(u) + 1] = e
        /\ \A i \in 1 .. Len(u) : t[i] = u[i]
    <3>1. t = Append(u, e)
      BY <2>1 DEF u
    <3> QED BY <2>3, <3>1, AppendProperties
  <2>5. Len(t) = Len(s) + 1 - 1 /\ t[Len(s) + 1 - 1] = e
    <3>1. Len(u) + 1 = Len(s) + 1 - 1
      BY <1>1, <2>3
    <3> QED BY <2>4, <3>1
  <2>6. \A i \in 1 .. Len(s) - 1 : t[i] = s[i + 1]
    BY <2>3, <2>4
  <2>7. Pushed(s, e, t, n)
    <3>1. PushedBy(1, s, e, t, n)
      BY <1>2, <2>5, <2>6 DEF PushedBy
    <3> QED BY <3>1 DEF Pushed
  <2> QED BY <2>4, <2>7
<1>3. CASE ~(Len(s) >= n)
  <2>1. t = Append(s, e) /\ Len(s) < n
    BY <1>1, <1>3
  <2>2. /\ t \in Seq(S) /\ Len(t) = Len(s) + 1 /\ t[Len(s) + 1] = e
        /\ \A i \in 1 .. Len(s) : t[i] = s[i]
    BY <2>1, AppendProperties
  <2>3. /\ Len(t) = Len(s) + 1 - 0 /\ t[Len(s) + 1 - 0] = e
        /\ \A i \in 1 .. Len(s) - 0 : t[i] = s[i + 0]
    BY <1>1, <2>2
  <2>4. Pushed(s, e, t, n)
    <3>1. PushedBy(0, s, e, t, n)
      BY <2>1, <2>3 DEF PushedBy
    <3> QED BY <3>1 DEF Pushed
  <2> QED BY <2>2, <2>4
<1> QED BY <1>2, <1>3

\* An entry with a new id leaves the ids distinct and the bound kept; every entry
\* is the new one or was there.
LEMMA PushedDistinct ==
  ASSUME NEW S, NEW s \in Seq(S), NEW e \in S, NEW n \in Nat \ {0}, NEW t \in Seq(S),
         Pushed(s, e, t, n), Distinct(s), Len(s) <= n,
         \A i \in DOMAIN s : s[i].id # e.id
  PROVE  /\ Distinct(t) /\ Len(t) <= n
         /\ \A i \in DOMAIN t : t[i] = e \/ \E j \in DOMAIN s : t[i] = s[j]
         /\ \E i \in DOMAIN t : t[i] = e
<1>0. PICK off \in {0, 1} : PushedBy(off, s, e, t, n)
  BY DEF Pushed
<1>1. /\ off \in Int /\ (off = 0 \/ off = 1)
      /\ off = 1 => Len(s) >= n
      /\ off = 0 => Len(s) < n
      /\ Len(t) = Len(s) + 1 - off
      /\ \A i \in 1 .. Len(s) - off : t[i] = s[i + off]
      /\ t[Len(s) + 1 - off] = e
  BY <1>0 DEF PushedBy
<1>2. Len(s) \in Nat /\ DOMAIN s = 1 .. Len(s) /\ DOMAIN t = 1 .. Len(t) /\ Len(t) \in Nat
  BY LenProperties
<1>3. \A i \in DOMAIN t : \/ i = Len(t) /\ t[i] = e
                          \/ i < Len(t) /\ i + off \in DOMAIN s /\ t[i] = s[i + off]
  <2> TAKE i \in DOMAIN t
  <2>1. CASE i = Len(t)
    BY <1>1, <2>1
  <2>2. CASE i # Len(t)
    <3>1. i < Len(t) /\ i \in 1 .. Len(s) - off /\ i + off \in DOMAIN s
      BY <1>1, <1>2, <2>2
    <3> QED BY <1>1, <3>1
  <2> QED BY <2>1, <2>2
<1>4. Distinct(t)
  <2> SUFFICES ASSUME NEW i \in DOMAIN t, NEW j \in DOMAIN t, t[i].id = t[j].id
               PROVE  i = j
    BY DEF Distinct
  <2>1. CASE i = Len(t)
    BY <1>2, <1>3, <2>1
  <2>2. CASE j = Len(t)
    BY <1>2, <1>3, <2>2
  <2>3. CASE i # Len(t) /\ j # Len(t)
    <3>1. i + off \in DOMAIN s /\ t[i] = s[i + off] /\ j + off \in DOMAIN s /\ t[j] = s[j + off]
      BY <1>3, <2>3
    <3>2. i + off = j + off
      BY <3>1 DEF Distinct
    <3> QED BY <1>2, <3>2
  <2> QED BY <2>1, <2>2, <2>3
<1>5. Len(t) <= n
  BY <1>1, <1>2
<1>6. \E i \in DOMAIN t : t[i] = e
  <2>1. Len(t) \in DOMAIN t
    BY <1>1, <1>2
  <2> QED BY <1>1, <1>2, <2>1
<1> QED BY <1>3, <1>4, <1>5, <1>6

\* Entries with distinct ids, all of them ids of the calls in W, are no more than W;
\* when they are as many, every call of W is among them.
LEMMA Crowd ==
  ASSUME NEW S, NEW s \in Seq(S), Distinct(s), NEW W, IsFiniteSet(W),
         \A j \in DOMAIN s : \E k \in W : s[j].id = IdOf(k)
  PROVE  /\ Len(s) <= Cardinality(W)
         /\ Len(s) = Cardinality(W) =>
              \A k \in W : \E j \in DOMAIN s : s[j].id = IdOf(k)
<1> DEFINE J == DOMAIN s
           f == [j \in J |-> CHOOSE k \in W : s[j].id = IdOf(k)]
<1>1. Len(s) \in Nat /\ J = 1 .. Len(s)
  BY LenProperties
<1>2. IsFiniteSet(J) /\ Cardinality(J) = Len(s)
  <2>1. /\ IsFiniteSet(1 .. Len(s))
        /\ Cardinality(1 .. Len(s)) = IF 1 > Len(s) THEN 0 ELSE Len(s) - 1 + 1
    BY <1>1, FS_Interval
  <2> QED BY <1>1, <2>1
<1>3. \A j \in J : f[j] \in W /\ s[j].id = IdOf(f[j])
  OBVIOUS
<1>4. f \in [J -> W]
  BY <1>3
<1> HIDE DEF f
<1>5. f \in Injection(J, W)
  <2>1. ASSUME NEW i \in J, NEW j \in J, f[i] = f[j]
        PROVE  i = j
    <3>1. s[i].id = s[j].id
      BY <1>3, <2>1
    <3> QED BY <3>1 DEF Distinct
  <2> HIDE DEF J
  <2> QED BY <1>4, <2>1 DEF Injection, IsInjective
<1> HIDE DEF J
<1>6. Cardinality(J) <= Cardinality(W) /\ (Cardinality(J) = Cardinality(W) <=> f \in Surjection(J, W))
  BY <1>5, FS_Injection
<1>7. ASSUME f \in Surjection(J, W), NEW k \in W
      PROVE  \E j \in J : s[j].id = IdOf(k)
  <2>1. PICK j \in J : f[j] = k
    BY <1>7 DEF Surjection
  <2> QED BY <1>3, <2>1
<1> QED BY <1>2, <1>6, <1>7 DEF J

\* Taking out position i leaves the other entries, in their order.
LEMMA RemovedEntry ==
  ASSUME NEW S, NEW s \in Seq(S), NEW i \in DOMAIN s
  PROVE  /\ RemoveAt(s, i) \in Seq(S)
         /\ Len(RemoveAt(s, i)) = Len(s) - 1
         /\ \A j \in 1 .. Len(s) - 1 :
              RemoveAt(s, i)[j] = IF j < i THEN s[j] ELSE s[j + 1]
<1>1. i \in 1 .. Len(s) /\ Len(s) \in Nat
  BY LenProperties
<1> DEFINE front == SubSeq(s, 1, i - 1)
           back == SubSeq(s, i + 1, Len(s))
<1>2. front \in Seq(S) /\ Len(front) = i - 1 /\ \A j \in 1 .. i - 1 : front[j] = s[j]
  BY <1>1, SubSeqProperties
<1>3. back \in Seq(S) /\ Len(back) = Len(s) - i /\ \A j \in 1 .. Len(s) - i : back[j] = s[i + j]
  BY <1>1, SubSeqProperties
<1>4. RemoveAt(s, i) = front \o back
  BY DEF RemoveAt
<1> HIDE DEF front, back
<1>5. front \o back \in Seq(S) /\ Len(front \o back) = Len(s) - 1
  BY <1>1, <1>2, <1>3, ConcatProperties
<1>6. ASSUME NEW j \in 1 .. Len(s) - 1
      PROVE  (front \o back)[j] = IF j < i THEN s[j] ELSE s[j + 1]
  <2>1. CASE j < i
    BY <1>1, <1>2, <1>3, <2>1, ConcatProperties
  <2>2. CASE ~(j < i)
    <3>1. (front \o back)[j] = back[j - (i - 1)]
      BY <1>1, <1>2, <1>3, <2>2, ConcatProperties
    <3>2. j - (i - 1) \in 1 .. Len(s) - i /\ i + (j - (i - 1)) = j + 1
      BY <1>1, <2>2
    <3> QED BY <1>3, <2>2, <3>1, <3>2
  <2> QED BY <2>1, <2>2
<1> QED BY <1>4, <1>5, <1>6

-----------------------------------------------------------------------------
(* The parts of handle_datagram.                                           *)

Entry == [id : RequestId, answer : Reply]
Partial == [id : RequestId, got : SUBSET (1 .. KeyFragments)]

\* An answer is sent, kept, and its id becomes the last one.
Responds(m, answer) ==
  /\ answer \in Reply /\ last' = m.id /\ cache' \in Seq(Entry)
  /\ Pushed(cache, [id |-> m.id, answer |-> answer], cache', CacheSize)
  /\ Answer(m, answer)

\* _send_response does that.
LEMMA SendResponseFacts ==
  ASSUME TypeOK, NEW m, m.id \in RequestId, NEW answer \in Reply, SendResponse(m, answer)
  PROVE  Responds(m, answer)
<1> DEFINE e == [id |-> m.id, answer |-> answer]
<1>1. cache \in Seq(Entry) /\ e \in Entry /\ CacheSize \in Nat \ {0}
  BY SimulatorAssumption DEF TypeOK, Entry
<1>2. cache' = IF Len(Append(cache, e)) > CacheSize THEN Tail(Append(cache, e))
               ELSE Append(cache, e)
  BY DEF SendResponse
<1> HIDE DEF e
<1>3. cache' \in Seq(Entry) /\ Pushed(cache, e, cache', CacheSize)
  BY ONLY <1>1, <1>2, PushThenDrop
<1>4. last' = m.id /\ Answer(m, answer)
  BY DEF SendResponse
<1> QED BY <1>3, <1>4 DEF Responds, e

\* Where the fragment goes: an entry that is there, or a new one at the end.
WaitsIn(m, w) ==
  \/ w = pending /\ \E i \in DOMAIN pending : pending[i].id = m.id
  \/ /\ \A i \in DOMAIN pending : pending[i].id # m.id
     /\ Pushed(pending, [id |-> m.id, got |-> {}], w, PendingSize)

\* The partial requests with room for the fragment.
LEMMA WaitingFacts ==
  ASSUME TypeOK, NEW m, m.id \in RequestId
  PROVE  Waiting(m) \in Seq(Partial) /\ WaitsIn(m, Waiting(m))
<1>1. pending \in Seq(Partial) /\ PendingSize \in Nat \ {0}
  BY SimulatorAssumption DEF TypeOK, Partial
<1>2. CASE \E i \in DOMAIN pending : pending[i].id = m.id
  <2>1. Waiting(m) = pending
    BY <1>2 DEF Waiting
  <2> QED BY <1>1, <1>2, <2>1 DEF WaitsIn
<1>3. CASE ~ \E i \in DOMAIN pending : pending[i].id = m.id
  <2> DEFINE e == [id |-> m.id, got |-> {}]
             w == Waiting(m)
  <2>1. w = Append(IF Len(pending) >= PendingSize THEN Tail(pending) ELSE pending, e)
    BY <1>3 DEF Waiting
  <2>2. e \in Partial
    BY DEF Partial
  <2> HIDE DEF e, w
  <2>3. w \in Seq(Partial) /\ Pushed(pending, e, w, PendingSize)
    BY ONLY <1>1, <2>1, <2>2, DropThenPush
  <2> QED BY <1>3, <2>3 DEF WaitsIn, w, e
<1> QED BY <1>2, <1>3

\* c is w with the fragment noted.
NotedIn(m, w, c) ==
  /\ Len(c) = Len(w)
  /\ \A i \in 1 .. Len(w) :
       /\ c[i].id = w[i].id
       /\ c[i].got = IF w[i].id = m.id THEN w[i].got \cup {m.index} ELSE w[i].got

\* The fragment is noted in its entry.
LEMMA CollectedFacts ==
  ASSUME TypeOK, NEW m, m.id \in RequestId, m.index \in 1 .. KeyFragments
  PROVE  Collected(m) \in Seq(Partial) /\ NotedIn(m, Waiting(m), Collected(m))
<1> DEFINE w == Waiting(m)
           c == [i \in DOMAIN w |-> IF w[i].id = m.id THEN [w[i] EXCEPT !.got = @ \cup {m.index}]
                                    ELSE w[i]]
<1>1. w \in Seq(Partial) /\ Collected(m) = c
  BY WaitingFacts DEF Collected
<1> HIDE DEF w
<1>2. Len(w) \in Nat /\ DOMAIN w = 1 .. Len(w) /\ \A i \in 1 .. Len(w) : w[i] \in Partial
  BY <1>1, LenProperties, ElementOfSeq
<1>3. ASSUME NEW i \in 1 .. Len(w)
      PROVE  /\ c[i] \in Partial /\ c[i].id = w[i].id
             /\ c[i].got = IF w[i].id = m.id THEN w[i].got \cup {m.index} ELSE w[i].got
  <2>1. w[i] \in Partial
    BY <1>2
  <2>2. c[i] = IF w[i].id = m.id THEN [w[i] EXCEPT !.got = @ \cup {m.index}] ELSE w[i]
    BY <1>2
  <2> DEFINE p == w[i]
  <2> HIDE DEF p, c
  <2>3. p \in Partial /\ c[i] = IF p.id = m.id THEN [p EXCEPT !.got = @ \cup {m.index}] ELSE p
    BY <2>1, <2>2 DEF p
  <2>4. /\ c[i] \in Partial /\ c[i].id = p.id
        /\ c[i].got = IF p.id = m.id THEN p.got \cup {m.index} ELSE p.got
    BY <2>3 DEF Partial
  <2> QED BY <2>4 DEF p
<1>4. c = [i \in 1 .. Len(w) |-> c[i]]
  BY <1>2
<1> HIDE DEF c
<1>5. c \in Seq(Partial) /\ Len(c) = Len(w)
  <2> DEFINE n == Len(w)
             g(i) == c[i]
             h == [i \in 1 .. n |-> g(i)]
  <2>1. n \in Nat /\ c = h /\ \A i \in 1 .. n : g(i) \in Partial
    BY <1>2, <1>3, <1>4
  <2> HIDE DEF n, g
  <2>2. h \in Seq(Partial)
    BY <2>1, IsASeq
  <2>3. Len(h) = n
    BY <2>1
  <2> QED BY <2>1, <2>2, <2>3 DEF n
<1>6. NotedIn(m, w, c)
  BY <1>3, <1>5 DEF NotedIn
<1> QED BY <1>1, <1>5, <1>6 DEF w

-----------------------------------------------------------------------------
(* The first invariant: types, kinds and the datagrams of the bridge.      *)

Base == TypeOK /\ KindInv /\ BridgeInv

Datagram == [session : Nat, call : 1 .. MaxCalls, id : RequestId,
             index : 1 .. KeyFragments, req : Request]

\* A datagram on its way.
LEMMA SentFacts ==
  ASSUME Base, NEW m \in sent
  PROVE  /\ m.id \in RequestId /\ m.req \in Request /\ m.index \in 1 .. KeyFragments
         /\ m.call \in 1 .. MaxCalls /\ m.call \in 1 .. calls /\ m.call \in Nat /\ calls \in Nat
         /\ m.call + Lateness >= calls /\ Alive(m.call) /\ m.id = IdOf(m.call) /\ m.session = joined
<1>1. m \in Datagram /\ calls \in 0 .. MaxCalls
  BY DEF Base, TypeOK, Datagram
<1>2. Alive(m.call) /\ m.id = IdOf(m.call) /\ m.session = joined
  BY DEF Base, BridgeInv
<1> QED BY <1>1, <1>2, SimulatorAssumption DEF Datagram, Alive

\* Counting one more at x.
LEMMA Bumped ==
  ASSUME NEW S, NEW f \in [S -> Nat], NEW x \in S, NEW g, g = [f EXCEPT ![x] = @ + 1]
  PROVE  g \in [S -> Nat] /\ g[x] = f[x] + 1 /\ \A y \in S : y # x => g[y] = f[y]
OBVIOUS

\* What carrying out a datagram's request changes.
RunFacts(m) ==
  \E d : /\ Effect(m.req, d) /\ transfer' = d.transfer /\ dest' = d.dest
         /\ Responds(m, d.answer)
         /\ stray' = (stray \/ (~d.answer.ok /\ d.transfer # transfer))

\* Carrying out a request.
LEMMA RunEffect ==
  ASSUME Base, NEW m \in sent, Run(m)
  PROVE  /\ RunFacts(m) /\ ~Cached(m) /\ IsNewer(m) /\ Whole(m)
         /\ \E i \in DOMAIN Waiting(m) :
              Waiting(m)[i].id = m.id /\ pending' = RemoveAt(Waiting(m), i)
         /\ runs' = [runs EXCEPT ![m.call] = @ + 1]
         /\ UNCHANGED <<joined, calls, request, lastId, known, gaveUp, sent, session>>
<1>1. PICK d \in Dispatch(m.req) :
        /\ transfer' = d.transfer /\ dest' = d.dest /\ SendResponse(m, d.answer)
        /\ stray' = (stray \/ (~d.answer.ok /\ d.transfer # transfer))
  BY DEF Run
<1>2. m.req \in Request /\ m.id \in RequestId
  BY SentFacts
<1>3. Effect(m.req, d)
  BY <1>2, DispatchEffect DEF Base, TypeOK, KindInv
<1>4. Responds(m, d.answer)
  BY <1>1, <1>2, <1>3, SendResponseFacts DEF Effect, Base
<1>5. RunFacts(m)
  BY <1>1, <1>3, <1>4 DEF RunFacts
<1> QED BY <1>5 DEF Run, bridge

\* Refusing a replay.
LEMMA RejectEffect ==
  ASSUME Base, NEW m \in sent, RejectReplay(m)
  PROVE  /\ Responds(m, Error) /\ ~Cached(m) /\ ~IsNewer(m)
         /\ UNCHANGED <<joined, calls, request, lastId, known, gaveUp, sent, session, pending,
                        transfer, dest, runs, stray>>
<1>1. m.id \in RequestId /\ Error \in Reply
  BY SentFacts DEF Error, Reply, Id
<1>2. Responds(m, Error)
  BY <1>1, SendResponseFacts DEF RejectReplay, Base
<1> QED BY <1>2 DEF RejectReplay, bridge

\* Sending a kept answer again.
LEMMA ResendEffect ==
  ASSUME Base, NEW m \in sent, Resend(m)
  PROVE  /\ Cached(m)
         /\ \E i \in DOMAIN cache : cache[i].id = m.id /\ cache[i].answer \in Reply
                                    /\ Answer(m, cache[i].answer)
         /\ UNCHANGED <<joined, calls, request, lastId, known, gaveUp, sent, session, pending,
                        transfer, dest, runs, last, cache, stray>>
<1> DEFINE j == CHOOSE i \in DOMAIN cache : cache[i].id = m.id
<1>1. Cached(m) /\ Answer(m, cache[j].answer)
  BY DEF Resend
<1>2. j \in DOMAIN cache /\ cache[j].id = m.id
  BY <1>1 DEF Cached
<1> HIDE DEF j
<1>3. cache[j] \in Entry
  BY <1>2, ElementOfSeq, LenProperties DEF Base, TypeOK, Entry
<1>4. cache[j].answer \in Reply
  BY <1>3 DEF Entry
<1> QED BY <1>1, <1>2, <1>4 DEF Resend, bridge, replay, j

\* Keeping a fragment.
LEMMA CollectEffect ==
  ASSUME Base, NEW m \in sent, Collect(m)
  PROVE  /\ ~Cached(m) /\ IsNewer(m) /\ ~Whole(m) /\ pending' = Collected(m)
         /\ UNCHANGED <<joined, calls, request, lastId, known, gaveUp, sent, session, reply,
                        transfer, dest, runs, last, cache, stray>>
BY DEF Collect, bridge, replay

\* The types of the agent's state after a datagram.
LEMMA HandleTyped ==
  ASSUME Base, NEW m \in sent, HandleDatagram(m)
  PROVE  /\ UNCHANGED <<joined, calls, request, lastId, known, gaveUp, sent, session>>
         /\ reply' \in Reply \cup {None} /\ last' \in RequestId \cup {None}
         /\ cache' \in Seq(Entry) /\ pending' \in Seq(Partial)
         /\ WellHeld(transfer') /\ dest' \in Contents \cup {Absent}
         /\ runs' \in [1 .. MaxCalls -> Nat] /\ arrived' \subseteq 1 .. KeyFragments
         /\ stray' \in BOOLEAN
<1>0. /\ reply \in Reply \cup {None} /\ last \in RequestId \cup {None}
      /\ cache \in Seq(Entry) /\ pending \in Seq(Partial)
      /\ WellHeld(transfer) /\ dest \in Contents \cup {Absent}
      /\ runs \in [1 .. MaxCalls -> Nat] /\ arrived \subseteq 1 .. KeyFragments
      /\ stray \in BOOLEAN
  BY DEF Base, TypeOK, KindInv, Entry, Partial
<1>1. m.id \in RequestId /\ m.index \in 1 .. KeyFragments /\ m.call \in 1 .. MaxCalls
  BY SentFacts
<1>2. arrived' \subseteq 1 .. KeyFragments
  BY <1>0, <1>1 DEF HandleDatagram, Arrives
<1>3. ASSUME NEW answer \in Reply, Answer(m, answer)
      PROVE  reply' \in Reply \cup {None}
  BY <1>0, <1>3 DEF Answer
<1>4. CASE Resend(m)
  <2>1. PICK i \in DOMAIN cache : cache[i].answer \in Reply /\ Answer(m, cache[i].answer)
    BY <1>4, ResendEffect
  <2>2. reply' \in Reply \cup {None}
    BY <1>3, <2>1
  <2> QED BY <1>0, <1>2, <1>4, <2>2, ResendEffect
<1>5. CASE RejectReplay(m)
  <2>1. Responds(m, Error)
    BY <1>5, RejectEffect
  <2>2. reply' \in Reply \cup {None} /\ last' \in RequestId /\ cache' \in Seq(Entry)
    BY <1>1, <1>3, <2>1 DEF Responds
  <2> QED BY <1>0, <1>2, <1>5, <2>2, RejectEffect
<1>6. CASE Collect(m)
  <2>1. Collected(m) \in Seq(Partial)
    BY <1>1, CollectedFacts DEF Base
  <2> QED BY <1>0, <1>2, <1>6, <2>1, CollectEffect
<1>7. CASE Run(m)
  <2>1. PICK d : /\ Effect(m.req, d) /\ transfer' = d.transfer /\ dest' = d.dest
                 /\ Responds(m, d.answer)
                 /\ stray' = (stray \/ (~d.answer.ok /\ d.transfer # transfer))
    BY <1>7, RunEffect DEF RunFacts
  <2>2. reply' \in Reply \cup {None} /\ last' \in RequestId /\ cache' \in Seq(Entry)
    BY <1>1, <1>3, <2>1 DEF Responds
  <2>3. WellHeld(transfer') /\ dest' \in Contents \cup {Absent}
    BY <2>1 DEF Effect
  <2>4. PICK i \in DOMAIN Waiting(m) : pending' = RemoveAt(Waiting(m), i)
    BY <1>7, RunEffect
  <2>5. pending' \in Seq(Partial)
    <3>1. Waiting(m) \in Seq(Partial)
      BY <1>1, WaitingFacts DEF Base
    <3> QED BY <2>4, <3>1, RemovedEntry
  <2>6. runs' \in [1 .. MaxCalls -> Nat]
    <3>1. runs' = [runs EXCEPT ![m.call] = @ + 1]
      BY <1>7, RunEffect
    <3> QED BY ONLY <1>0, <1>1, <3>1, Bumped
  <2>7. stray' \in BOOLEAN
    BY <2>1
  <2> QED BY <1>2, <1>7, <2>2, <2>3, <2>5, <2>6, <2>7, RunEffect
<1> QED BY <1>4, <1>5, <1>6, <1>7 DEF HandleDatagram

\* The invariant holds at the start.
LEMMA BaseInit == Init => Base
<1> SUFFICES ASSUME Init PROVE Base
  OBVIOUS
<1>1. /\ joined = 1 /\ calls = 0 /\ request = None /\ lastId = StartId
      /\ known = None /\ gaveUp = FALSE /\ sent = {} /\ reply = None
      /\ session = 1 /\ last = None /\ cache = << >> /\ pending = << >>
      /\ transfer = None /\ dest = Absent /\ arrived = {} /\ stray = FALSE
      /\ runs = [n \in 1 .. MaxCalls |-> 0]
  BY DEF Init
<1>2. TypeOK
  <2>1. /\ cache \in Seq([id : RequestId, answer : Reply])
        /\ pending \in Seq([id : RequestId, got : SUBSET (1 .. KeyFragments)])
    BY <1>1
  <2>2. runs \in [1 .. MaxCalls -> Nat]
    BY <1>1
  <2>3. lastId \in RequestId /\ calls \in 0 .. MaxCalls
    BY <1>1, SimulatorAssumption
  <2> QED BY <1>1, <2>1, <2>2, <2>3 DEF TypeOK
<1>3. KindInv
  BY <1>1 DEF KindInv, WellKnown, WellHeld
<1>4. BridgeInv
  BY <1>1, IdOfNext DEF BridgeInv
<1> QED BY <1>2, <1>3, <1>4 DEF Base

\* A call draws the next id and sends its fragments; datagrams that would be too
\* late are gone.
LEMMA StartCallFacts ==
  ASSUME Base, NEW req \in Requests, StartCall(req)
  PROVE  /\ request = None /\ request' = req /\ calls' = calls + 1 /\ calls' \in 1 .. MaxCalls
         /\ lastId' = IdOf(calls + 1) /\ lastId' \in RequestId
         /\ reply' = None /\ arrived' = {}
         /\ \A m \in sent' :
              \/ /\ m \in sent /\ m.call + Lateness >= calls + 1 /\ m.call # calls + 1
              \/ /\ m.session = joined /\ m.call = calls + 1 /\ m.id = IdOf(calls + 1)
                 /\ m.index \in Fragments(req) /\ m.req = req
                 /\ m \in Datagram
         /\ \E m \in sent' : m.call = calls + 1
         /\ req \in Request /\ Requests' = Requests
         /\ UNCHANGED <<joined, known, gaveUp, session, last, cache, pending, transfer, dest, runs,
                        stray>>
<1>0. calls \in Nat /\ calls < MaxCalls /\ calls \in 0 .. MaxCalls /\ joined \in Nat
  BY SimulatorAssumption DEF StartCall, Base, TypeOK
<1>1. lastId' = IdOf(calls + 1) /\ IdOf(calls + 1) \in RequestId
  <2>1. lastId' = NextRequestId(lastId) /\ lastId = IdOf(calls)
    BY DEF StartCall, Base, BridgeInv
  <2>2. IdOf(calls + 1) = NextRequestId(IdOf(calls))
    BY <1>0, IdOfNext
  <2>3. calls + 1 \in Nat
    BY <1>0
  <2>4. IdOf(calls + 1) \in 1 .. IdModulus - 1
    BY <2>3, IdOfNext
  <2> QED BY <2>1, <2>2, <2>4, IdModulusAssumption DEF RequestId
<1>2. req \in Request
  BY RequestsTyped DEF Base, KindInv
<1>3. Fragments(req) \subseteq 1 .. KeyFragments /\ 1 \in Fragments(req)
  BY SimulatorAssumption DEF Fragments
<1> DEFINE D(i) == [session |-> joined, call |-> calls + 1, id |-> lastId', index |-> i, req |-> req]
<1>4. sent' = {m \in sent : m.call + Lateness >= calls + 1} \cup {D(i) : i \in Fragments(req)}
  BY DEF StartCall
<1>5. \A i \in Fragments(req) :
        /\ D(i).session = joined /\ D(i).call = calls + 1 /\ D(i).id = IdOf(calls + 1)
        /\ D(i).index = i /\ D(i).req = req /\ D(i) \in Datagram
  <2>1. calls + 1 \in 1 .. MaxCalls /\ lastId' \in RequestId
    BY <1>0, <1>1, SimulatorAssumption
  <2> TAKE i \in Fragments(req)
  <2>2. i \in 1 .. KeyFragments
    BY <1>3
  <2>3. D(i) \in Datagram
    BY <1>0, <1>2, <2>1, <2>2 DEF Datagram
  <2> QED BY <1>1, <2>3
<1> HIDE DEF D
<1>6. ASSUME NEW m \in sent'
      PROVE  \/ m \in sent /\ m.call + Lateness >= calls + 1 /\ m.call # calls + 1
             \/ /\ m.session = joined /\ m.call = calls + 1 /\ m.id = IdOf(calls + 1)
                /\ m.index \in Fragments(req) /\ m.req = req
                /\ m \in Datagram
  <2>1. CASE m \in sent /\ m.call + Lateness >= calls + 1
    <3>1. m.call \in 1 .. calls
      BY <2>1, SentFacts
    <3> QED BY <1>0, <2>1, <3>1
  <2>2. CASE \E i \in Fragments(req) : m = D(i)
    BY <1>5, <2>2
  <2> QED BY <1>4, <2>1, <2>2
<1>7. \E m \in sent' : m.call = calls + 1
  <2>1. D(1) \in sent' /\ D(1).call = calls + 1
    BY <1>3, <1>4, <1>5
  <2> QED BY <2>1
<1>8. Requests' = Requests
  BY DEF StartCall, Requests
<1>9. /\ request = None /\ request' = req /\ calls' = calls + 1 /\ reply' = None /\ arrived' = {}
      /\ UNCHANGED <<joined, known, gaveUp, session, last, cache, pending, transfer, dest, runs,
                        stray>>
  BY DEF StartCall, replay
<1>10. calls' \in 1 .. MaxCalls /\ lastId' \in RequestId
  BY <1>0, <1>1, <1>9, SimulatorAssumption
<1> QED BY <1>1, <1>2, <1>6, <1>7, <1>8, <1>9, <1>10

\* A call keeps the invariant.
LEMMA BaseStartCall ==
  ASSUME Base, NEW req \in Requests, StartCall(req)
  PROVE  Base'
<1> DEFINE New(m) == /\ m.session = joined /\ m.call = calls + 1 /\ m.id = IdOf(calls + 1)
                     /\ m.index \in Fragments(req) /\ m.req = req /\ m \in Datagram
<1>1. /\ request = None /\ request' = req /\ calls' = calls + 1 /\ calls' \in 1 .. MaxCalls
      /\ lastId' = IdOf(calls + 1) /\ lastId' \in RequestId
      /\ reply' = None /\ arrived' = {}
      /\ \A m \in sent' : \/ m \in sent /\ m.call + Lateness >= calls + 1 /\ m.call # calls + 1
                          \/ New(m)
      /\ \E m \in sent' : m.call = calls + 1
      /\ req \in Request /\ Requests' = Requests
      /\ UNCHANGED <<joined, known, gaveUp, session, last, cache, pending, transfer, dest, runs,
                        stray>>
  BY StartCallFacts
<1> HIDE DEF New
<1>2. calls \in Nat /\ calls \in 0 .. MaxCalls /\ joined \in Nat
  BY SimulatorAssumption DEF Base, TypeOK
<1>3. sent' \subseteq Datagram
  <2>1. sent \subseteq Datagram
    BY DEF Base, TypeOK, Datagram
  <2> QED BY <1>1, <2>1 DEF New
<1>4. TypeOK'
  BY <1>1, <1>2, <1>3, SimulatorAssumption DEF Base, TypeOK, Datagram
<1>5. KindInv'
  BY <1>1 DEF Base, KindInv
<1>6. ASSUME NEW m \in sent'
      PROVE  /\ m.session = joined' /\ Alive(m.call)' /\ m.id = IdOf(m.call)
             /\ m.index \in Fragments(m.req)
             /\ request' # None /\ m.call = calls' => m.req = request'
  <2>1. CASE m \in sent /\ m.call + Lateness >= calls + 1 /\ m.call # calls + 1
    <3>1. /\ m.call \in 1 .. calls /\ m.id = IdOf(m.call) /\ m.session = joined
      BY <2>1, SentFacts
    <3>2. m.index \in Fragments(m.req)
      BY <2>1 DEF Base, BridgeInv
    <3> QED BY <1>1, <1>2, <2>1, <3>1, <3>2 DEF Alive
  <2>2. CASE New(m)
    BY <1>1, <1>2, <2>2, SimulatorAssumption DEF Alive, New
  <2> QED BY <1>1, <2>1, <2>2
<1>7. ASSUME NEW m \in sent', NEW o \in sent', m.call = o.call
      PROVE  m.req = o.req
  <2>1. CASE m.call = calls + 1
    BY <1>1, <1>7, <2>1 DEF New
  <2>2. CASE m.call # calls + 1
    <3>1. m \in sent /\ o \in sent
      BY <1>1, <1>7, <2>2 DEF New
    <3> QED BY <1>7, <3>1 DEF Base, BridgeInv
  <2> QED BY <2>1, <2>2
<1>8. BridgeInv'
  <2>1. lastId' = IdOf(calls')
    BY <1>1
  <2>2. request' # None => calls' >= 1 /\ request' \in Requests'
    BY <1>1, <1>2
  <2>3. request' # None => \E m \in sent' : m.call = calls'
    BY <1>1
  <2>4. joined' <= session'
    BY <1>1 DEF Base, BridgeInv
  <2> QED BY <1>6, <1>7, <2>1, <2>2, <2>3, <2>4 DEF BridgeInv
<1> QED BY <1>4, <1>5, <1>8 DEF Base

\* The end of a call, answered or not.
EndOfCall(answer) ==
  /\ request # None /\ answer \in Reply /\ known' = After(answer) /\ request' = None
  /\ reply' = None
  /\ UNCHANGED <<joined, calls, lastId, sent, session, last, cache, pending,
                 transfer, dest, runs, arrived>>

\* The ends of a call.
LEMMA EndOfCallFacts ==
  ASSUME Base
  PROVE  /\ Answered => reply # None /\ EndOfCall(reply) /\ UNCHANGED <<gaveUp, stray>>
         /\ RefuseMetadata => EndOfCall(Error) /\ stray' = TRUE /\ gaveUp' = gaveUp
         /\ GiveUp => EndOfCall(Error) /\ gaveUp' = TRUE /\ stray' = stray
<1>1. Error \in Reply
  BY DEF Error, Reply, Id
<1>2. reply # None => reply \in Reply
  BY DEF Base, TypeOK
<1>3. Answered => reply # None /\ EndOfCall(reply) /\ UNCHANGED <<gaveUp, stray>>
  BY <1>2 DEF Answered, EndOfCall, replay
<1>4. GiveUp => EndOfCall(Error) /\ gaveUp' = TRUE /\ stray' = stray
  BY <1>1 DEF GiveUp, EndOfCall, replay
<1>5. RefuseMetadata => EndOfCall(Error) /\ stray' = TRUE /\ gaveUp' = gaveUp
  <2>1. request.op = "begin" => After(Error) = None
    BY DEF After, Error
  <2> QED BY <1>1, <2>1 DEF RefuseMetadata, EndOfCall, replay
<1> QED BY <1>3, <1>4, <1>5

\* The end of a call keeps the invariant.
LEMMA BaseEndOfCall ==
  ASSUME Base, NEW answer, EndOfCall(answer), gaveUp' \in BOOLEAN, stray' \in BOOLEAN
  PROVE  Base'
<1>1. WellKnown(known')
  <2>1. WellKnown(After(answer))
    BY AfterTyped DEF EndOfCall, Base, KindInv, BridgeInv
  <2> QED BY <2>1 DEF EndOfCall
<1>2. known' \in Known \cup {None}
  BY <1>1 DEF WellKnown
<1>3. TypeOK'
  BY <1>2 DEF EndOfCall, Base, TypeOK
<1>4. KindInv'
  BY <1>1 DEF EndOfCall, Base, KindInv
<1>5. request' = None /\ UNCHANGED <<lastId, calls, sent, joined, session>>
  BY DEF EndOfCall
<1>6. \A m \in sent : Alive(m.call)' <=> Alive(m.call)
  BY <1>5 DEF Alive
<1>7. BridgeInv'
  BY <1>5, <1>6 DEF Base, BridgeInv
<1> QED BY <1>3, <1>4, <1>7 DEF Base

\* A new session.
NewSession ==
  /\ request = None /\ request' = None /\ joined' = session' /\ session' \in Nat
  /\ calls' = 0 /\ lastId' = StartId /\ known' = None /\ gaveUp' = FALSE
  /\ sent' = {} /\ reply' = None /\ arrived' = {} /\ stray' = FALSE
  /\ last' = None /\ cache' = << >> /\ pending' = << >> /\ transfer' = None /\ dest' = dest
  /\ runs' = [n \in 1 .. MaxCalls |-> 0]

\* The session of the bridge is gone.
LostSession ==
  /\ session' = session + 1 /\ session' \in Nat
  /\ last' = None /\ cache' = << >> /\ pending' = << >> /\ transfer' = None
  /\ UNCHANGED <<joined, calls, request, lastId, known, gaveUp, sent, dest, reply, runs, arrived,
                 stray>>

\* Both kinds of HELLO.
LEMMA HelloFacts ==
  ASSUME Base
  PROVE  (Connect => NewSession) /\ (CopyOfHello => LostSession)
<1>1. session \in Nat /\ session + 1 \in Nat
  BY DEF Base, TypeOK
<1> QED BY <1>1 DEF Connect, CopyOfHello, Hello, NewSession, LostSession, bridge

\* They keep the invariant.
LEMMA BaseHello ==
  ASSUME Base, NewSession \/ LostSession
  PROVE  Base'
<1>1. last' = None /\ cache' = << >> /\ pending' = << >> /\ transfer' = None /\ dest' = dest
      /\ session' \in Nat
  BY DEF NewSession, LostSession
<1>2. /\ cache' \in Seq([id : RequestId, answer : Reply])
      /\ pending' \in Seq([id : RequestId, got : SUBSET (1 .. KeyFragments)])
  BY <1>1
<1>3. CASE NewSession
  <2>1. /\ joined' = session' /\ calls' = 0 /\ request' = None /\ lastId' = StartId
        /\ known' = None /\ gaveUp' = FALSE /\ sent' = {} /\ reply' = None /\ arrived' = {}
        /\ stray' = FALSE /\ runs' = [n \in 1 .. MaxCalls |-> 0]
    BY <1>3 DEF NewSession
  <2>2. runs' \in [1 .. MaxCalls -> Nat]
    BY <2>1
  <2>3. lastId' \in RequestId /\ calls' \in 0 .. MaxCalls
    BY <2>1, SimulatorAssumption
  <2>4. TypeOK'
    BY <1>1, <1>2, <2>1, <2>2, <2>3 DEF Base, TypeOK
  <2>5. KindInv'
    BY <1>1, <2>1 DEF KindInv, WellKnown, WellHeld
  <2>6. BridgeInv'
    BY <1>1, <2>1, IdOfNext DEF BridgeInv
  <2> QED BY <2>4, <2>5, <2>6 DEF Base
<1>4. CASE LostSession
  <2>1. UNCHANGED <<joined, calls, request, lastId, known, gaveUp, sent, dest, reply, runs, arrived,
                 stray>>
    BY <1>4 DEF LostSession
  <2>2. TypeOK'
    BY <1>1, <1>2, <2>1 DEF Base, TypeOK
  <2>3. KindInv'
    BY <1>1, <2>1 DEF Base, KindInv, WellHeld
  <2>4. Requests' = Requests /\ \A m \in sent : Alive(m.call)' <=> Alive(m.call)
    BY <2>1 DEF Requests, Alive
  <2>6. joined' <= session'
    BY <1>4 DEF LostSession, Base, BridgeInv, TypeOK
  <2>5. BridgeInv'
    BY <2>1, <2>4, <2>6 DEF Base, BridgeInv
  <2> QED BY <2>2, <2>3, <2>5 DEF Base
<1> QED BY <1>3, <1>4

\* A datagram keeps the invariant.
LEMMA BaseHandle ==
  ASSUME Base, NEW m \in sent, HandleDatagram(m)
  PROVE  Base'
<1>1. /\ UNCHANGED <<joined, calls, request, lastId, known, gaveUp, sent, session>>
      /\ reply' \in Reply \cup {None} /\ last' \in RequestId \cup {None}
      /\ cache' \in Seq(Entry) /\ pending' \in Seq(Partial)
      /\ WellHeld(transfer') /\ dest' \in Contents \cup {Absent}
      /\ runs' \in [1 .. MaxCalls -> Nat] /\ arrived' \subseteq 1 .. KeyFragments
      /\ stray' \in BOOLEAN
  BY HandleTyped
<1>2. transfer' \in Transfer \cup {None}
  BY <1>1 DEF WellHeld
<1>3. TypeOK'
  BY <1>1, <1>2 DEF Base, TypeOK, Entry, Partial
<1>4. KindInv'
  BY <1>1 DEF Base, KindInv
<1>5. Requests' = Requests /\ \A o \in sent : Alive(o.call)' <=> Alive(o.call)
  BY <1>1 DEF Requests, Alive
<1>6. BridgeInv'
  BY <1>1, <1>5 DEF Base, BridgeInv
<1> QED BY <1>3, <1>4, <1>6 DEF Base

\* The kinds of steps.
LEMMA Steps ==
  ASSUME Base, [Next]_vars
  PROVE  \/ \E req \in Requests : StartCall(req)
         \/ \E answer : /\ EndOfCall(answer) /\ gaveUp' \in BOOLEAN /\ stray' \in BOOLEAN
                        /\ \/ answer = reply /\ reply # None /\ UNCHANGED <<gaveUp, stray>>
                           \/ answer = Error /\ (gaveUp' = TRUE \/ stray' = TRUE)
         \/ NewSession
         \/ LostSession
         \/ \E m \in sent : HandleDatagram(m)
         \/ UNCHANGED vars
<1>1. gaveUp \in BOOLEAN /\ stray \in BOOLEAN
  BY DEF Base, TypeOK
<1>6. CASE RefuseMetadata
  BY <1>1, <1>6, EndOfCallFacts
<1>2. CASE Answered
  BY <1>1, <1>2, EndOfCallFacts
<1>3. CASE GiveUp
  BY <1>1, <1>3, EndOfCallFacts
<1>4. CASE Connect
  BY <1>4, HelloFacts
<1>5. CASE CopyOfHello
  BY <1>5, HelloFacts
<1> QED BY <1>2, <1>3, <1>4, <1>5, <1>6 DEF Next

\* Every step keeps the first invariant.
LEMMA BaseNext == Base /\ [Next]_vars => Base'
<1> SUFFICES ASSUME Base, [Next]_vars PROVE Base'
  OBVIOUS
<1>1. CASE UNCHANGED vars
  <2>1. Requests' = Requests
    BY <1>1 DEF vars, Requests
  <2>2. TypeOK' /\ KindInv'
    BY <1>1 DEF vars, Base, TypeOK, KindInv
  <2>3. \A o \in sent : Alive(o.call)' <=> Alive(o.call)
    BY <1>1 DEF vars, Alive
  <2>4. BridgeInv'
    BY <1>1, <2>1, <2>3 DEF vars, Base, BridgeInv
  <2> QED BY <2>2, <2>4 DEF Base
<1> QED BY <1>1, Steps, BaseStartCall, BaseEndOfCall, BaseHello, BaseHandle

\* The first invariant.
LEMMA BaseInvariant == Spec => []Base
BY BaseInit, BaseNext, PTL DEF Spec

\* Every variable has its type; in particular the destination never has anything
\* but a whole upload (_commit_write_transfer).
THEOREM TypeCorrect == Spec => []TypeOK
<1>1. Base => TypeOK
  BY DEF Base
<1> QED BY <1>1, BaseInvariant, PTL

-----------------------------------------------------------------------------
(* Kept is stable.                                                         *)

\* How many calls are around call n.
LEMMA Around ==
  ASSUME NEW n \in Int, NEW a \in Int, NEW b \in Int, a <= n, n <= b
  PROVE  IsFiniteSet((a .. b) \ {n}) /\ Cardinality((a .. b) \ {n}) = b - a
<1>1. IsFiniteSet(a .. b) /\ Cardinality(a .. b) = b - a + 1 /\ n \in a .. b
  <2>1. IsFiniteSet(a .. b) /\ Cardinality(a .. b) = IF a > b THEN 0 ELSE b - a + 1
    BY FS_Interval
  <2> QED BY <2>1
<1>2. IsFiniteSet((a .. b) \ {n}) /\ Cardinality((a .. b) \ {n}) = Cardinality(a .. b) - 1
  BY <1>1, FS_RemoveElement
<1> QED BY <1>1, <1>2

\* An answer that is sent is kept.
LEMMA RespondsKeeps ==
  ASSUME Base, NEW m \in sent, NEW answer, Responds(m, answer), calls' = calls
  PROVE  /\ KeptInCache(m.call)' /\ last' = IdOf(m.call)
         /\ \E i \in DOMAIN cache' : cache'[i] = [id |-> m.id, answer |-> answer]
<1> DEFINE e == [id |-> m.id, answer |-> answer]
<1>1. cache' \in Seq(Entry) /\ Pushed(cache, e, cache', CacheSize) /\ last' = m.id
  BY DEF Responds
<1>2. cache \in Seq(Entry)
  BY DEF Base, TypeOK, Entry
<1>3. m.id = IdOf(m.call) /\ e.id = m.id
  BY SentFacts
<1> HIDE DEF e
<1>4. PICK off \in {0, 1} : PushedBy(off, cache, e, cache', CacheSize)
  BY <1>1 DEF Pushed
<1>5. Len(cache) \in Nat /\ Len(cache') \in Nat /\ DOMAIN cache' = 1 .. Len(cache')
  BY <1>1, <1>2, LenProperties
<1>6. Len(cache') = Len(cache) + 1 - off /\ cache'[Len(cache) + 1 - off] = e
      /\ (off = 1 => Len(cache) >= CacheSize)
  BY <1>4 DEF PushedBy
<1>7. Len(cache') \in DOMAIN cache' /\ cache'[Len(cache')] = e
  BY <1>5, <1>6, SimulatorAssumption
<1>8. KeptInCache(m.call)'
  <2>1. \A j \in Len(cache') + 1 .. Len(cache') : FALSE
    BY <1>5
  <2> QED BY <1>3, <1>7, <2>1 DEF KeptInCache
<1> QED BY <1>1, <1>3, <1>7, <1>8 DEF e

\* An answer stays kept while answers to other requests are stored.
LEMMA KeptStable ==
  ASSUME Base, Distinct(cache), Len(cache) <= CacheSize, CacheSize >= 2 * Lateness,
         NEW m \in sent, NEW answer, ~Cached(m), Responds(m, answer), calls' = calls,
         NEW n, Alive(n), Kept(n)
  PROVE  Kept(n)' /\ (KeptInCache(n) /\ Stored(n)' => KeptInCache(n)')
<1> DEFINE e == [id |-> m.id, answer |-> answer]
<1>1. cache' \in Seq(Entry) /\ Pushed(cache, e, cache', CacheSize) /\ last' = m.id
  BY DEF Responds
<1>2. cache \in Seq(Entry)
  BY DEF Base, TypeOK, Entry
<1>3. /\ m.id = IdOf(m.call) /\ e.id = m.id /\ m.call \in 1 .. calls /\ calls \in Nat
      /\ m.call + Lateness >= calls
  BY SentFacts
<1>4. e \in Entry /\ CacheSize \in Nat \ {0} /\ Lateness \in Nat
  <2>1. answer \in Reply /\ m.id \in RequestId
    BY SentFacts DEF Responds
  <2> QED BY <2>1, SimulatorAssumption DEF Entry
<1>5. n \in 1 .. calls /\ n + Lateness >= calls /\ n \in Nat
  BY <1>3 DEF Alive
<1> HIDE DEF e
<1>6. Len(cache) \in Nat /\ Len(cache') \in Nat /\ DOMAIN cache' = 1 .. Len(cache')
      /\ DOMAIN cache = 1 .. Len(cache)
  BY <1>1, <1>2, LenProperties
<1>7. \A i \in DOMAIN cache : cache[i].id # e.id
  BY <1>3 DEF Cached
<1>8. Distinct(cache')
  BY ONLY <1>1, <1>2, <1>4, <1>7, Distinct(cache), Len(cache) <= CacheSize, PushedDistinct
<1>9. PICK off \in {0, 1} : PushedBy(off, cache, e, cache', CacheSize)
  BY <1>1 DEF Pushed
<1>10. /\ off \in Int /\ (off = 0 \/ off = 1)
       /\ off = 1 => Len(cache) >= CacheSize
       /\ Len(cache') = Len(cache) + 1 - off
       /\ \A i \in 1 .. Len(cache) - off : cache'[i] = cache[i + off]
       /\ cache'[Len(cache) + 1 - off] = e
  BY <1>9 DEF PushedBy
<1>11. CASE KeptInCache(n)
  <2>1. PICK i \in DOMAIN cache :
          /\ cache[i].id = IdOf(n)
          /\ \A j \in i + 1 .. Len(cache) :
               \E k \in n - Lateness .. calls : k # n /\ cache[j].id = IdOf(k)
    BY <1>11 DEF KeptInCache
  <2>2. m.call # n
    BY <1>3, <1>7, <2>1
  <2>3. m.call \in n - Lateness .. calls
    BY <1>3, <1>4, <1>5
  <2>4. ASSUME NEW j \in DOMAIN cache', j + off > i
        PROVE  \E k \in n - Lateness .. calls : k # n /\ cache'[j].id = IdOf(k)
    <3>1. CASE j = Len(cache) + 1 - off
      BY <1>3, <1>10, <2>2, <2>3, <3>1
    <3>2. CASE j # Len(cache) + 1 - off
      <4>1. j \in 1 .. Len(cache) - off /\ j + off \in i + 1 .. Len(cache)
        BY <1>6, <1>10, <2>4, <3>2
      <4> QED BY <1>10, <2>1, <4>1
    <3> QED BY <3>1, <3>2
  <2>5. CASE i - off >= 1
    <3>1. i - off \in DOMAIN cache' /\ i - off \in 1 .. Len(cache) - off /\ (i - off) + off = i
      BY <1>6, <1>10, <2>5
    <3>2. cache'[i - off].id = IdOf(n)
      BY <1>10, <2>1, <3>1
    <3>3. \A j \in (i - off) + 1 .. Len(cache') :
            \E k \in n - Lateness .. calls : k # n /\ cache'[j].id = IdOf(k)
      <4> TAKE j \in (i - off) + 1 .. Len(cache')
      <4>1. j \in DOMAIN cache' /\ j + off > i
        BY <1>6, <1>10, <2>5
      <4> QED BY <2>4, <4>1
    <3>4. KeptInCache(n)'
      BY <3>1, <3>2, <3>3 DEF KeptInCache
    <3> QED BY <3>4 DEF Kept
  <2>6. CASE ~(i - off >= 1)
    <3>1. off = 1 /\ i = 1 /\ Len(cache) = CacheSize /\ Len(cache') = CacheSize
      <4>1. i \in Int /\ i >= 1 /\ i <= Len(cache)
        BY <1>6
      <4>2. off = 1 /\ i = 1
        BY <1>10, <2>6, <4>1
      <4>3. Len(cache) >= CacheSize /\ Len(cache') = Len(cache) + 1 - 1
        BY <1>10, <4>2, Zenon
      <4>4. Len(cache) <= CacheSize
        OBVIOUS
      <4>5. CacheSize \in Nat /\ Len(cache) \in Nat
        BY <1>4, <1>6
      <4>6. Len(cache) = CacheSize
        BY ONLY <4>3, <4>4, <4>5
      <4>7. Len(cache') = CacheSize
        BY ONLY <4>3, <4>5, <4>6
      <4> QED BY <4>2, <4>6, <4>7, Zenon
    <3> DEFINE W == (n - Lateness .. calls) \ {n}
    <3>2. IsFiniteSet(W) /\ Cardinality(W) = calls - (n - Lateness)
      <4>1. n - Lateness \in Int /\ calls \in Int /\ n \in Int /\ n - Lateness <= n /\ n <= calls
        BY <1>3, <1>4, <1>5
      <4> QED BY ONLY <4>1, Around
    <3>3. \A j \in DOMAIN cache' : \E k \in W : cache'[j].id = IdOf(k)
      <4> TAKE j \in DOMAIN cache'
      <4>1. j + off > i
        BY <1>6, <3>1
      <4>2. PICK k \in n - Lateness .. calls : k # n /\ cache'[j].id = IdOf(k)
        BY <2>4, <4>1
      <4> QED BY <4>2
    <3> HIDE DEF W
    <3>4. /\ Len(cache') <= Cardinality(W)
          /\ Len(cache') = Cardinality(W) =>
               \A k \in W : \E j \in DOMAIN cache' : cache'[j].id = IdOf(k)
      BY ONLY <1>1, <1>8, <3>2, <3>3, Crowd
    <3>5. n + Lateness = calls /\ Cardinality(W) = CacheSize /\ n < calls
      BY <1>3, <1>4, <1>5, <3>1, <3>2, <3>4
    <3>6. \A k \in n + 1 .. calls : Stored(k)'
      <4> TAKE k \in n + 1 .. calls
      <4>1. k \in W
        BY <1>3, <1>4, <1>5 DEF W
      <4>2. \E j \in DOMAIN cache' : cache'[j].id = IdOf(k)
        BY <3>1, <3>4, <3>5, <4>1
      <4> QED BY <4>2 DEF Stored
    <3>7. m.call \in n .. calls /\ last' = IdOf(m.call)
      BY <1>1, <1>3, <1>4, <1>5, <3>5
    <3>8. KeptOut(n)'
      BY <3>5, <3>6, <3>7 DEF KeptOut
    <3>9. ~Stored(n)'
      <4> SUFFICES ASSUME NEW j \in DOMAIN cache', cache'[j].id = IdOf(n) PROVE FALSE
        BY DEF Stored
      <4>1. CASE j = Len(cache) + 1 - off
        BY <1>7, <1>10, <2>1, <4>1
      <4>2. CASE j # Len(cache) + 1 - off
        <5>1. j \in 1 .. Len(cache) - off /\ j + off \in DOMAIN cache /\ j + off # i
          BY <1>6, <1>10, <3>1, <4>2
        <5>2. cache[j + off].id = cache[i].id
          BY <1>10, <2>1, <5>1
        <5> QED BY <5>1, <5>2 DEF Distinct
      <4> QED BY <4>1, <4>2
    <3> QED BY <3>8, <3>9 DEF Kept
  <2> QED BY <2>5, <2>6
<1>12. CASE KeptOut(n)
  <2>1. n + Lateness = calls /\ \A k \in n + 1 .. calls : Stored(k)
    BY <1>12 DEF KeptOut
  <2>2. m.call \notin n + 1 .. calls
    BY <1>3, <2>1 DEF Stored, Cached
  <2>3. m.call = n
    BY <1>3, <1>4, <1>5, <2>1, <2>2
  <2>4. KeptInCache(n)'
    BY <2>3, RespondsKeeps
  <2> QED BY <2>4 DEF Kept
<1> QED BY <1>11, <1>12 DEF Kept

-----------------------------------------------------------------------------
(* No request is carried out twice.                                        *)

\* The answers outlast the copies of the requests, and ids of requests that may
\* still arrive are told apart.
Timely == CacheSize >= 2 * Lateness /\ Lateness < IdModulus \div 2

\* The ids of calls are ids.
LEMMA IdOfTyped ==
  ASSUME NEW n \in Nat
  PROVE  IdOf(n) \in RequestId /\ IdOf(n) # None
<1>1. IdOf(n) \in 1 .. IdModulus - 1
  BY IdOfNext
<1>2. IdOf(n) \in RequestId
  BY <1>1, IdModulusAssumption DEF RequestId
<1> QED BY <1>2, ValuesAssumption

\* A copy of a call whose answer is kept gets that answer, or is refused.
LEMMA KeptIsRefused ==
  ASSUME Base, Timely, NEW m \in sent, Kept(m.call)
  PROVE  Cached(m) \/ ~IsNewer(m)
<1>1. m.id = IdOf(m.call) /\ m.call \in Nat /\ m.call \in 1 .. calls /\ calls \in Nat
      /\ m.call + Lateness >= calls
  BY SentFacts
<1>2. CASE KeptInCache(m.call)
  BY <1>1, <1>2 DEF KeptInCache, Cached
<1>3. CASE KeptOut(m.call)
  <2>1. PICK k \in m.call .. calls : last = IdOf(k)
    BY <1>3 DEF KeptOut
  <2> DEFINE d == k - m.call
  <2>2. d \in Nat /\ d <= Lateness /\ k = m.call + d /\ k \in Nat /\ Lateness \in Nat
    BY <1>1, SimulatorAssumption
  <2> HIDE DEF d
  <2>3. d < IdModulus \div 2
    <3>1. IdModulus \div 2 \in Int /\ Lateness < IdModulus \div 2
      BY IdModulusAssumption DEF Timely
    <3> QED BY <2>2, <3>1
  <2>4. ~RequestIsNewer(IdOf(m.call), IdOf(m.call + d))
    BY <1>1, <2>2, <2>3, NewerIsLater
  <2>5. last # None /\ ~RequestIsNewer(m.id, last)
    BY <1>1, <2>1, <2>2, <2>4, IdOfTyped
  <2> QED BY <2>5 DEF IsNewer
<1> QED BY <1>2, <1>3 DEF Kept

\* A call that starts does not disturb what is kept.
LEMMA KeptStartCall ==
  ASSUME Base, NEW req \in Requests, StartCall(req), NEW n, Alive(n)', n # calls + 1, Kept(n)
  PROVE  KeptInCache(n) /\ KeptInCache(n)'
<1>1. calls' = calls + 1 /\ UNCHANGED <<last, cache>> /\ calls \in Nat
  BY StartCallFacts, SimulatorAssumption DEF Base, TypeOK
<1>2. n \in 1 .. calls + 1 /\ n + Lateness >= calls + 1 /\ Lateness \in Nat
  BY <1>1, SimulatorAssumption DEF Alive
<1>3. ~KeptOut(n)
  BY <1>1, <1>2 DEF KeptOut
<1>4. PICK i \in DOMAIN cache :
        /\ cache[i].id = IdOf(n)
        /\ \A j \in i + 1 .. Len(cache) :
             \E k \in n - Lateness .. calls : k # n /\ cache[j].id = IdOf(k)
  BY <1>3 DEF Kept, KeptInCache
<1>5. \A j \in i + 1 .. Len(cache) :
        \E k \in n - Lateness .. calls + 1 : k # n /\ cache[j].id = IdOf(k)
  <2> TAKE j \in i + 1 .. Len(cache)
  <2>1. PICK k \in n - Lateness .. calls : k # n /\ cache[j].id = IdOf(k)
    BY <1>4
  <2>2. k \in n - Lateness .. calls + 1
    BY <1>1, <1>2, <2>1
  <2> QED BY <2>1, <2>2
<1>6. KeptInCache(n)'
  BY <1>1, <1>4, <1>5 DEF KeptInCache
<1> QED BY <1>3, <1>6 DEF Kept

\* Steps that leave the answers alone.
LEMMA KeptUnchanged ==
  ASSUME UNCHANGED <<last, cache, calls>>, NEW n
  PROVE  /\ Kept(n)' <=> Kept(n)
         /\ KeptInCache(n)' <=> KeptInCache(n)
         /\ Alive(n)' <=> Alive(n)
         /\ Stored(n)' <=> Stored(n)
<1>1. Stored(n)' <=> Stored(n)
  BY DEF Stored
<1>2. Alive(n)' <=> Alive(n)
  BY DEF Alive
<1>3. KeptInCache(n)' <=> KeptInCache(n)
  BY DEF KeptInCache
<1>4. KeptOut(n)' <=> KeptOut(n)
  BY DEF KeptOut, Stored
<1> QED BY <1>1, <1>2, <1>3, <1>4 DEF Kept

\* What a datagram does to the answers.
HandledAnswers(m) ==
  \/ UNCHANGED <<last, cache, runs>>
  \/ /\ ~Cached(m) /\ \E answer : Responds(m, answer)
     /\ runs' = runs \/ (IsNewer(m) /\ runs' = [runs EXCEPT ![m.call] = @ + 1])

\* Every branch of handle_datagram is one of these.
LEMMA HandleAnswers ==
  ASSUME Base, NEW m \in sent, HandleDatagram(m)
  PROVE  Sync /\ HandledAnswers(m) /\ UNCHANGED <<calls, joined, session, sent, request, known>>
<1>1. Sync
  BY SentFacts DEF HandleDatagram, Sync
<1>2. CASE Resend(m)
  BY <1>1, <1>2, ResendEffect DEF HandledAnswers
<1>3. CASE RejectReplay(m)
  BY <1>1, <1>3, RejectEffect DEF HandledAnswers
<1>4. CASE Collect(m)
  BY <1>1, <1>4, CollectEffect DEF HandledAnswers
<1>5. CASE Run(m)
  BY <1>1, <1>5, RunEffect DEF HandledAnswers, RunFacts
<1> QED BY <1>2, <1>3, <1>4, <1>5 DEF HandleDatagram

\* A request that is carried out was not carried out before.
LEMMA RunIsFirst ==
  ASSUME Base, OnceInv, Timely, Sync, NEW m \in sent, ~Cached(m), IsNewer(m)
  PROVE  runs[m.call] = 0
<1>1. m.call \in 1 .. calls /\ Alive(m.call)
  BY SentFacts
<1>2. runs[m.call] # 0 => Kept(m.call)
  BY <1>1 DEF OnceInv
<1> QED BY <1>2, KeptIsRefused

\* A datagram keeps the second invariant.
LEMMA OnceHandle ==
  ASSUME Base, OnceInv, Timely, NEW m \in sent, HandleDatagram(m)
  PROVE  OnceInv'
<1>1. Sync /\ HandledAnswers(m) /\ UNCHANGED <<calls, joined, session, sent>>
  BY HandleAnswers
<1>2. /\ Distinct(cache) /\ Len(cache) <= CacheSize
      /\ \A n \in 1 .. calls : Alive(n) /\ runs[n] # 0 => Kept(n)
      /\ \A n \in 1 .. MaxCalls : runs[n] <= 1 /\ (n > calls => runs[n] = 0)
  BY <1>1 DEF OnceInv
<1>3. m.call \in 1 .. calls /\ Alive(m.call) /\ m.call \in 1 .. MaxCalls /\ calls \in Nat
      /\ m.id \in RequestId
  BY SentFacts
<1>4. CASE UNCHANGED <<last, cache, runs>>
  BY <1>1, <1>2, <1>4, KeptUnchanged DEF OnceInv, Distinct
<1>5. CASE /\ ~Cached(m) /\ \E answer : Responds(m, answer)
           /\ runs' = runs \/ (IsNewer(m) /\ runs' = [runs EXCEPT ![m.call] = @ + 1])
  <2>1. PICK answer : Responds(m, answer)
    BY <1>5
  <2>2. ASSUME NEW n \in 1 .. calls, Alive(n), runs[n] # 0
        PROVE  Kept(n)'
    <3>1. Kept(n)
      BY <1>2, <2>2
    <3> QED BY <1>1, <1>2, <1>5, <2>1, <2>2, <3>1, KeptStable DEF Timely
  <2>3. Kept(m.call)'
    BY <1>1, <2>1, RespondsKeeps DEF Kept
  <2>4. Distinct(cache') /\ Len(cache') <= CacheSize
    <3> DEFINE e == [id |-> m.id, answer |-> answer]
    <3>1. cache' \in Seq(Entry) /\ Pushed(cache, e, cache', CacheSize) /\ e \in Entry /\ e.id = m.id
      BY <1>3, <2>1 DEF Responds, Entry
    <3>2. cache \in Seq(Entry) /\ CacheSize \in Nat \ {0}
      BY SimulatorAssumption DEF Base, TypeOK, Entry
    <3> HIDE DEF e
    <3>3. \A i \in DOMAIN cache : cache[i].id # e.id
      BY <1>5, <3>1 DEF Cached
    <3> QED BY ONLY <1>2, <3>1, <3>2, <3>3, PushedDistinct
  <2>5. runs \in [1 .. MaxCalls -> Nat]
    BY DEF Base, TypeOK
  <2>6. \A n \in 1 .. MaxCalls : n # m.call => runs'[n] = runs[n]
    BY ONLY <1>3, <1>5, <2>5, Bumped
  <2>7. runs'[m.call] <= 1
    <3>1. CASE runs' = runs
      BY <1>2, <1>3, <3>1
    <3>2. CASE IsNewer(m) /\ runs' = [runs EXCEPT ![m.call] = @ + 1]
      <4>1. runs[m.call] = 0
        BY <1>1, <1>5, <3>2, RunIsFirst
      <4>2. runs'[m.call] = runs[m.call] + 1
        BY ONLY <1>3, <2>5, <3>2, Bumped
      <4> QED BY <4>1, <4>2
    <3> QED BY <1>5, <3>1, <3>2
  <2>8. \A n \in 1 .. MaxCalls : runs'[n] <= 1 /\ (n > calls => runs'[n] = 0)
    <3> TAKE n \in 1 .. MaxCalls
    <3>1. CASE n = m.call
      BY <1>3, <2>7, <3>1
    <3>2. CASE n # m.call
      BY <1>2, <2>6, <3>2
    <3> QED BY <3>1, <3>2
  <2>9. ASSUME NEW n \in 1 .. calls, Alive(n)', runs'[n] # 0
        PROVE  Kept(n)'
    <3>4. Alive(n)
      BY <1>1, <2>9 DEF Alive
    <3>5. calls \in 0 .. MaxCalls
      BY DEF Base, TypeOK
    <3>6. n \in 1 .. MaxCalls
      BY ONLY <3>5, n \in 1 .. calls, SimulatorAssumption
    <3>1. Alive(n) /\ n \in 1 .. MaxCalls
      BY <3>4, <3>6
    <3>2. CASE n = m.call
      BY <2>3, <3>2
    <3>3. CASE n # m.call
      BY <2>2, <2>6, <2>9, <3>1, <3>3
    <3> QED BY <3>2, <3>3
  <2> QED BY <1>1, <2>4, <2>8, <2>9 DEF OnceInv
<1> QED BY <1>1, <1>4, <1>5 DEF HandledAnswers

\* Every step keeps the second invariant.
LEMMA OnceNext ==
  ASSUME Base, OnceInv, Timely, [Next]_vars
  PROVE  OnceInv'
<1>0. calls \in 0 .. MaxCalls /\ calls \in Nat /\ runs \in [1 .. MaxCalls -> Nat]
  BY SimulatorAssumption DEF Base, TypeOK
<1>1. ASSUME NEW req \in Requests, StartCall(req)
      PROVE  OnceInv'
  <2>1. /\ calls' = calls + 1 /\ calls' \in 1 .. MaxCalls
        /\ UNCHANGED <<joined, session, last, cache, runs>>
    BY <1>1, StartCallFacts
  <2>2. ASSUME Sync, NEW n \in 1 .. calls', Alive(n)', runs'[n] # 0
        PROVE  Kept(n)'
    <3>1. n # calls + 1 /\ n \in 1 .. calls
      BY <1>0, <2>1, <2>2 DEF OnceInv
    <3>2. Alive(n)
      BY <1>0, <2>1, <2>2, <3>1, SimulatorAssumption DEF Alive
    <3>3. Kept(n)
      BY <2>1, <2>2, <3>1, <3>2 DEF OnceInv
    <3> QED BY <1>1, <2>2, <3>1, <3>3, KeptStartCall DEF Kept
  <2>3. \A n \in 1 .. MaxCalls : runs'[n] <= 1 /\ (n > calls' => runs'[n] = 0)
    BY <1>0, <2>1 DEF OnceInv
  <2>4. Sync' <=> Sync
    BY <2>1 DEF Sync
  <2>5. Sync => Distinct(cache') /\ Len(cache') <= CacheSize
    BY <2>1 DEF OnceInv
  <2> QED BY <2>2, <2>3, <2>4, <2>5 DEF OnceInv
<1>2. ASSUME UNCHANGED <<calls, joined, session, last, cache, runs>>
      PROVE  OnceInv'
  <2>1. Sync' <=> Sync
    BY <1>2 DEF Sync
  <2> QED BY <1>2, <2>1, KeptUnchanged DEF OnceInv, Distinct
<1>3. CASE NewSession
  <2>1. calls' = 0 /\ cache' = << >> /\ runs' = [n \in 1 .. MaxCalls |-> 0]
    BY <1>3 DEF NewSession
  <2>2. Len(cache') <= CacheSize /\ DOMAIN cache' = {}
    BY <2>1, SimulatorAssumption
  <2>3. Distinct(cache')
    BY <2>2 DEF Distinct
  <2>4. \A n \in 1 .. MaxCalls : runs'[n] = 0
    BY <2>1
  <2> QED BY <2>1, <2>2, <2>3, <2>4 DEF OnceInv
<1>4. CASE LostSession
  <2>1. UNCHANGED <<calls, runs>> /\ cache' = << >>
    BY <1>4 DEF LostSession
  <2>2. ~Sync'
    BY <1>4 DEF LostSession, Sync, Base, BridgeInv, TypeOK
  <2> QED BY <2>1, <2>2 DEF OnceInv
<1>5. ASSUME NEW answer, EndOfCall(answer)
      PROVE  OnceInv'
  BY <1>2, <1>5 DEF EndOfCall
<1>6. CASE UNCHANGED vars
  BY <1>2, <1>6 DEF vars
<1> QED BY <1>1, <1>3, <1>4, <1>5, <1>6, OnceHandle, Steps

\* The second invariant holds at the start.
LEMMA OnceInit == Init => OnceInv
<1> SUFFICES ASSUME Init PROVE OnceInv
  OBVIOUS
<1>1. calls = 0 /\ cache = << >> /\ runs = [n \in 1 .. MaxCalls |-> 0]
  BY DEF Init
<1>2. Len(cache) <= CacheSize /\ DOMAIN cache = {}
  BY <1>1, SimulatorAssumption
<1>3. Distinct(cache)
  BY <1>2 DEF Distinct
<1>4. \A n \in 1 .. MaxCalls : runs[n] = 0
  BY <1>1
<1> QED BY <1>1, <1>2, <1>3, <1>4 DEF OnceInv

\* No request is carried out twice, for any number of calls, when the cache holds
\* the answers of twice as many calls as a datagram may be late (handle_datagram,
\* _send_response).
THEOREM RunsOnceCorrect ==
  ASSUME CacheSize >= 2 * Lateness, Lateness < IdModulus \div 2
  PROVE  Spec => []RunsOnce
<1>1. Timely
  BY DEF Timely
<1>2. Init => Base /\ OnceInv
  BY BaseInit, OnceInit
<1>3. Base /\ OnceInv /\ [Next]_vars => (Base /\ OnceInv)'
  BY <1>1, BaseNext, OnceNext
<1>4. OnceInv => RunsOnce
  BY DEF OnceInv, RunsOnce
<1> QED BY <1>2, <1>3, <1>4, PTL DEF Spec


-----------------------------------------------------------------------------
(* The call in progress is answered once.                                  *)

\* A session ends before its ids come half around.
Ample == MaxCalls + 1 < IdModulus \div 2

\* The ids of a session are different, and later ones look newer.
LEMMA IdsApart ==
  ASSUME Ample, NEW j \in 0 .. MaxCalls, NEW k \in 0 .. MaxCalls
  PROVE  /\ IdOf(j) = IdOf(k) => j = k
         /\ j < k => RequestIsNewer(IdOf(k), IdOf(j)) /\ ~RequestIsNewer(IdOf(j), IdOf(k))
<1>0. IdModulus \div 2 \in Int /\ MaxCalls \in Nat /\ MaxCalls + 1 < IdModulus \div 2
  BY IdModulusAssumption, SimulatorAssumption DEF Ample
<1>1. ASSUME NEW a \in 0 .. MaxCalls, NEW b \in 0 .. MaxCalls, a < b
      PROVE  /\ IdOf(a) # IdOf(b)
             /\ RequestIsNewer(IdOf(b), IdOf(a)) /\ ~RequestIsNewer(IdOf(a), IdOf(b))
  <2> DEFINE d == b - a
  <2>1. d \in Nat /\ d # 0 /\ d + 1 < IdModulus \div 2 /\ d < IdModulus \div 2 /\ b = a + d
        /\ a \in Nat
    BY <1>0, <1>1
  <2> HIDE DEF d
  <2>2. /\ ~RequestIsNewer(IdOf(a), IdOf(a + d)) /\ RequestIsNewer(IdOf(a + d), IdOf(a))
        /\ IdOf(a + d) # IdOf(a)
    BY <2>1, NewerIsLater
  <2> QED BY <2>1, <2>2
<1>2. j < k \/ k < j \/ j = k
  BY <1>0
<1> QED BY <1>1, <1>2

\* The cache after an answer was stored.
LEMMA RespondsEntries ==
  ASSUME Base, OnceInv, Sync, NEW m \in sent, NEW answer, ~Cached(m), Responds(m, answer)
  PROVE  /\ Distinct(cache') /\ Len(cache') <= CacheSize
         /\ \A i \in DOMAIN cache' :
              \/ cache'[i].id = m.id /\ cache'[i].answer = answer
              \/ \E j \in DOMAIN cache : cache'[i] = cache[j]
<1> DEFINE e == [id |-> m.id, answer |-> answer]
<1>1. cache' \in Seq(Entry) /\ Pushed(cache, e, cache', CacheSize) /\ e \in Entry /\ e.id = m.id
      /\ e.answer = answer
  BY SentFacts DEF Responds, Entry
<1>2. cache \in Seq(Entry) /\ CacheSize \in Nat \ {0}
  BY SimulatorAssumption DEF Base, TypeOK, Entry
<1> HIDE DEF e
<1>3. \A i \in DOMAIN cache : cache[i].id # e.id
  BY <1>1 DEF Cached
<1>4. Distinct(cache) /\ Len(cache) <= CacheSize
  BY DEF OnceInv
<1>5. /\ Distinct(cache') /\ Len(cache') <= CacheSize
      /\ \A i \in DOMAIN cache' : cache'[i] = e \/ \E j \in DOMAIN cache : cache'[i] = cache[j]
  BY ONLY <1>1, <1>2, <1>3, <1>4, PushedDistinct
<1> QED BY <1>1, <1>5

\* What happens to a datagram of the last call: it is collected or carried out,
\* and once it is carried out its answer is sent again.
LEMMA CurrentCall ==
  ASSUME Base, OnceInv, AnswerInv, Ample, NEW m \in sent, HandleDatagram(m), m.call = calls
  PROVE  \/ runs[calls] = 0 /\ (Collect(m) \/ Run(m))
         \/ runs[calls] = 1 /\ Resend(m)
<1>1. Sync
  BY HandleAnswers
<1>2. m.id = IdOf(calls) /\ calls \in 1 .. MaxCalls /\ calls \in 1 .. calls /\ Alive(calls)
      /\ runs[calls] \in Nat
  BY SentFacts DEF Base, TypeOK
<1>3. runs[calls] = 0 \/ runs[calls] = 1
  BY <1>2 DEF OnceInv
<1>4. ASSUME runs[calls] = 0 PROVE ~Cached(m) /\ IsNewer(m)
  <2>1. ~Stored(calls) /\ last # IdOf(calls)
    BY <1>1, <1>2, <1>4 DEF AnswerInv
  <2>2. ~Cached(m)
    BY <1>2, <2>1 DEF Cached, Stored
  <2>3. CASE last = None
    BY <2>2, <2>3 DEF IsNewer
  <2>4. CASE last # None
    <3>1. PICK k \in 1 .. calls : last = IdOf(k)
      BY <1>1, <2>4 DEF AnswerInv, FromSession
    <3>2. k < calls /\ k \in 0 .. MaxCalls /\ calls \in 0 .. MaxCalls
      BY <1>2, <2>1, <3>1, SimulatorAssumption
    <3>3. RequestIsNewer(IdOf(calls), IdOf(k))
      BY <3>2, IdsApart
    <3> QED BY <1>2, <2>2, <3>1, <3>3 DEF IsNewer
  <2> QED BY <2>3, <2>4
<1>5. ASSUME runs[calls] = 1 PROVE Cached(m)
  <2>1. Kept(calls)
    BY <1>1, <1>2, <1>5 DEF OnceInv
  <2>2. KeptInCache(calls)
    BY <1>2, <2>1 DEF Kept, KeptOut
  <2> QED BY <1>2, <2>2 DEF KeptInCache, Cached
<1>6. Resend(m) => Cached(m)
  BY DEF Resend
<1>7. RejectReplay(m) => ~Cached(m) /\ ~IsNewer(m)
  BY DEF RejectReplay
<1>8. (Collect(m) => ~Cached(m)) /\ (Run(m) => ~Cached(m))
  BY DEF Collect, Run
<1> QED BY <1>3, <1>4, <1>5, <1>6, <1>7, <1>8 DEF HandleDatagram

\* Storing the answer to m keeps what AnswerInv says of the cache.
LEMMA AnswerStored ==
  ASSUME Base, OnceInv, AnswerInv, Timely, Ample, Sync, NEW m \in sent, NEW answer, ~Cached(m),
         Responds(m, answer), calls' = calls
  PROVE  /\ FromSession'
         /\ \A n \in 1 .. calls : Alive(n) /\ Stored(n)' => KeptInCache(n)'
         /\ m.call # calls => (Stored(calls)' => Stored(calls)) /\ last' # IdOf(calls)
<1>1. m.id = IdOf(m.call) /\ m.call \in 1 .. calls /\ calls \in Nat /\ last' = m.id
  BY SentFacts DEF Responds
<1>2. calls \in 0 .. MaxCalls /\ MaxCalls \in Nat
  BY SimulatorAssumption DEF Base, TypeOK
<1>3. \A i \in DOMAIN cache' :
        \/ cache'[i].id = m.id /\ cache'[i].answer = answer
        \/ \E j \in DOMAIN cache : cache'[i] = cache[j]
  BY RespondsEntries
<1>4. FromSession
  BY DEF AnswerInv
<1>5. FromSession'
  <2>1. ASSUME NEW i \in DOMAIN cache'
        PROVE  \E k \in 1 .. calls : cache'[i].id = IdOf(k)
    <3>1. CASE cache'[i].id = m.id
      BY <1>1, <3>1
    <3>2. CASE \E j \in DOMAIN cache : cache'[i] = cache[j]
      BY <1>4, <3>2 DEF FromSession
    <3> QED BY <1>3, <2>1, <3>1, <3>2
  <2>2. \E k \in 1 .. calls : last' = IdOf(k)
    BY <1>1
  <2> QED BY <2>1, <2>2 DEF FromSession
<1>6. ASSUME NEW n \in 1 .. calls, n # m.call, Stored(n)'
      PROVE  Stored(n)
  <2>1. IdOf(n) # m.id
    BY <1>1, <1>2, <1>6, IdsApart
  <2>2. PICK i \in DOMAIN cache' : cache'[i].id = IdOf(n)
    BY <1>6 DEF Stored
  <2>3. PICK j \in DOMAIN cache : cache'[i] = cache[j]
    BY <1>3, <2>1, <2>2
  <2> QED BY <2>2, <2>3 DEF Stored
<1>7. ASSUME NEW n \in 1 .. calls, Alive(n), Stored(n)'
      PROVE  KeptInCache(n)'
  <2>1. CASE n = m.call
    BY <2>1, RespondsKeeps
  <2>2. CASE n # m.call
    <3>1. KeptInCache(n)
      BY <1>6, <1>7, <2>2 DEF AnswerInv
    <3>2. Distinct(cache) /\ Len(cache) <= CacheSize /\ Kept(n)
      BY <3>1 DEF OnceInv, Kept
    <3> QED BY <1>7, <3>1, <3>2, KeptStable DEF Timely
  <2> QED BY <2>1, <2>2
<1>8. ASSUME m.call # calls
      PROVE  (Stored(calls)' => Stored(calls)) /\ last' # IdOf(calls)
  <2>1. calls \in 1 .. calls /\ IdOf(calls) # m.id
    BY <1>1, <1>2, <1>8, IdsApart
  <2> QED BY <1>1, <1>6, <1>8, <2>1
<1> QED BY <1>5, <1>7, <1>8

\* A datagram of an earlier call does not change the answer of the last one.
LEMMA OtherReply ==
  ASSUME Base, NEW m \in sent, HandleDatagram(m), m.call # calls
  PROVE  reply' = reply
<1>1. CASE Resend(m)
  BY <1>1, ResendEffect DEF Answer
<1>2. CASE RejectReplay(m)
  BY <1>2, RejectEffect DEF Responds, Answer
<1>3. CASE Collect(m)
  BY <1>3, CollectEffect
<1>4. CASE Run(m)
  BY <1>4, RunEffect DEF RunFacts, Responds, Answer
<1> QED BY <1>1, <1>2, <1>3, <1>4 DEF HandleDatagram

\* Nor does a copy of the last one that is answered again.
LEMMA SameReply ==
  ASSUME Base, AnswerInv, Sync, NEW m \in sent, Resend(m), m.call = calls, runs[calls] = 1,
         request # None
  PROVE  reply' = reply
<1>1. PICK i \in DOMAIN cache : cache[i].id = m.id /\ Answer(m, cache[i].answer)
  BY ResendEffect
<1>2. m.id = IdOf(calls) /\ calls >= 1
  BY SentFacts
<1>3. cache[i].answer = reply
  BY <1>1, <1>2 DEF AnswerInv, Replied
<1> QED BY <1>1, <1>3 DEF Answer

\* A datagram keeps the third invariant.
LEMMA AnswerHandle ==
  ASSUME Base, OnceInv, AnswerInv, Timely, Ample, NEW m \in sent, HandleDatagram(m)
  PROVE  AnswerInv'
<1>1. Sync /\ HandledAnswers(m) /\ UNCHANGED <<calls, joined, session, sent, request, known>>
  BY HandleAnswers
<1>2. /\ m.id = IdOf(m.call) /\ m.call \in 1 .. calls /\ calls \in Nat /\ m.call \in 1 .. MaxCalls
      /\ calls \in 1 .. MaxCalls /\ runs \in [1 .. MaxCalls -> Nat]
  <2>1. calls \in 0 .. MaxCalls /\ runs \in [1 .. MaxCalls -> Nat]
    BY DEF Base, TypeOK
  <2> QED BY <2>1, SentFacts, SimulatorAssumption
<1>3. /\ FromSession /\ Replied
      /\ \A n \in 1 .. calls : Alive(n) /\ Stored(n) => KeptInCache(n)
      /\ calls >= 1 /\ runs[calls] = 0 => ~Stored(calls) /\ last # IdOf(calls) /\ reply = None
  BY <1>1 DEF AnswerInv
<1>a. \A n : Alive(n)' <=> Alive(n)
  BY <1>1 DEF Alive
<1>b. FromSession' /\ \A n \in 1 .. calls : Alive(n)' /\ Stored(n)' => KeptInCache(n)'
  <2>1. CASE UNCHANGED <<last, cache, runs>>
    BY <1>1, <1>3, <2>1, KeptUnchanged DEF FromSession
  <2>2. CASE ~Cached(m) /\ \E answer : Responds(m, answer)
    BY <1>1, <1>a, <2>2, AnswerStored
  <2> QED BY <1>1, <2>1, <2>2 DEF HandledAnswers
<1>4. CASE m.call # calls
  <2>1. reply' = reply
    BY <1>4, OtherReply
  <2>2. runs'[calls] = runs[calls]
    BY <1>1, <1>2, <1>4, Bumped DEF HandledAnswers
  <2>3. (Stored(calls)' => Stored(calls)) /\ (last' = IdOf(calls) => last = IdOf(calls))
    BY <1>1, <1>4, AnswerStored, KeptUnchanged DEF HandledAnswers
  <2>4. \A i \in DOMAIN cache' : cache'[i].id = IdOf(calls) =>
           \E j \in DOMAIN cache : cache'[i] = cache[j]
    <3>1. IdOf(calls) # m.id
      <4>1. calls \in 0 .. MaxCalls /\ m.call \in 0 .. MaxCalls
        BY <1>2
      <4> QED BY <1>2, <1>4, <4>1, IdsApart
    <3> QED BY <1>1, <3>1, RespondsEntries DEF HandledAnswers
  <2>5. Replied'
    BY <1>1, <1>3, <2>1, <2>2, <2>4 DEF Replied
  <2> QED BY <1>1, <1>3, <1>b, <2>1, <2>2, <2>3, <2>5 DEF AnswerInv, Sync
<1>5. CASE m.call = calls
  <2>1. CASE runs[calls] = 0 /\ Collect(m)
    <3>1. UNCHANGED <<reply, runs, last, cache>>
      BY <2>1, CollectEffect
    <3>2. Replied'
      BY <1>1, <2>1, <3>1 DEF Replied
    <3> QED BY <1>1, <1>3, <1>b, <3>1, <3>2, KeptUnchanged DEF AnswerInv
  <2>2. CASE runs[calls] = 1 /\ Resend(m)
    <3>1. UNCHANGED <<runs, last, cache>>
      BY <2>2, ResendEffect
    <3>2. request # None => reply' = reply
      BY <1>1, <1>5, <2>2, SameReply
    <3>3. Replied'
      BY <1>1, <1>2, <1>3, <2>2, <3>1, <3>2 DEF Replied
    <3> QED BY <1>1, <1>b, <2>2, <3>1, <3>3 DEF AnswerInv
  <2>3. CASE runs[calls] = 0 /\ Run(m)
    <3>1. PICK answer : Responds(m, answer)
      BY <2>3, RunEffect DEF RunFacts
    <3>6. runs' = [runs EXCEPT ![m.call] = @ + 1] /\ ~Cached(m)
      BY <2>3, RunEffect
    <3>7. runs'[m.call] = runs[m.call] + 1
      BY ONLY <1>2, <3>6, Bumped
    <3>2. runs'[calls] = 1 /\ ~Cached(m)
      BY <1>5, <2>3, <3>6, <3>7
    <3>3. request # None => reply' = answer /\ reply' # None
      BY <1>5, <3>1, ValuesAssumption DEF Responds, Answer
    <3>4. \A i \in DOMAIN cache' : cache'[i].id = IdOf(calls) => cache'[i].answer = answer
      <4> TAKE i \in DOMAIN cache'
      <4>1. CASE \E j \in DOMAIN cache : cache'[i] = cache[j]
        BY <1>2, <1>5, <3>2, <4>1 DEF Cached
      <4> QED BY <1>1, <3>1, <3>2, <4>1, RespondsEntries
    <3>5. Replied'
      BY <1>1, <3>3, <3>4 DEF Replied
    <3> QED BY <1>1, <1>b, <3>2, <3>5 DEF AnswerInv
  <2> QED BY <1>5, <2>1, <2>2, <2>3, CurrentCall
<1> QED BY <1>4, <1>5

\* Every step keeps the third invariant.
LEMMA AnswerNext ==
  ASSUME Base, OnceInv, AnswerInv, Timely, Ample, [Next]_vars
  PROVE  AnswerInv'
<1>0. calls \in 0 .. MaxCalls /\ calls \in Nat /\ runs \in [1 .. MaxCalls -> Nat]
      /\ MaxCalls \in Nat
  BY SimulatorAssumption DEF Base, TypeOK
<1>1. ASSUME NEW req \in Requests, StartCall(req)
      PROVE  AnswerInv'
  <2>1. /\ calls' = calls + 1 /\ calls' \in 1 .. MaxCalls /\ reply' = None
        /\ UNCHANGED <<joined, session, last, cache, runs>>
    BY <1>1, StartCallFacts
  <2> SUFFICES ASSUME Sync PROVE AnswerInv'
    BY <2>1 DEF AnswerInv, Sync
  <2>2. FromSession /\ \A n \in 1 .. calls : Alive(n) /\ Stored(n) => KeptInCache(n)
    BY DEF AnswerInv
  <2>3. FromSession'
    BY <1>0, <2>1, <2>2 DEF FromSession
  <2>4. \A k \in 1 .. calls : IdOf(k) # IdOf(calls + 1)
    BY <1>0, <2>1, IdsApart
  <2>5. ~Stored(calls + 1) /\ last # IdOf(calls + 1)
    <3>1. IdOf(calls + 1) # None
      BY <1>0, IdOfTyped
    <3> QED BY <2>2, <2>4, <3>1 DEF FromSession, Stored
  <2>6. \A n : Stored(n)' <=> Stored(n)
    BY <2>1 DEF Stored
  <2>7. ASSUME NEW n \in 1 .. calls', Alive(n)', Stored(n)'
        PROVE  KeptInCache(n)'
    <3>1. n # calls + 1 /\ n \in 1 .. calls
      BY <1>0, <2>1, <2>5, <2>6, <2>7
    <3>2. Alive(n)
      BY <1>0, <2>1, <2>7, <3>1, SimulatorAssumption DEF Alive
    <3>3. Kept(n)
      BY <2>2, <2>6, <2>7, <3>1, <3>2 DEF Kept
    <3> QED BY <1>1, <2>7, <3>1, <3>3, KeptStartCall
  <2>8. runs'[calls'] = 0
    BY <1>0, <2>1 DEF OnceInv
  <2>9. Replied'
    BY <2>8 DEF Replied
  <2> QED BY <2>1, <2>3, <2>5, <2>6, <2>7, <2>9 DEF AnswerInv
<1>2. ASSUME UNCHANGED <<calls, joined, session, last, cache, runs>>,
             (reply' = reply /\ request' = request) \/ (reply' = None /\ request' = None)
      PROVE  AnswerInv'
  <2> SUFFICES ASSUME Sync PROVE AnswerInv'
    BY <1>2 DEF AnswerInv, Sync
  <2>1. FromSession' /\ Replied'
    BY <1>2 DEF AnswerInv, FromSession, Replied
  <2>2. \A n \in 1 .. calls : Alive(n)' /\ Stored(n)' => KeptInCache(n)'
    BY <1>2, KeptUnchanged DEF AnswerInv
  <2>3. calls' >= 1 /\ runs'[calls'] = 0 => ~Stored(calls)' /\ last' # IdOf(calls) /\ reply' = None
    BY <1>2, KeptUnchanged DEF AnswerInv
  <2> QED BY <1>2, <2>1, <2>2, <2>3 DEF AnswerInv
<1>3. CASE NewSession
  <2>1. calls' = 0 /\ cache' = << >> /\ last' = None
    BY <1>3 DEF NewSession
  <2>2. DOMAIN cache' = {}
    BY <2>1
  <2> QED BY <2>1, <2>2 DEF AnswerInv, FromSession, Replied
<1>4. CASE LostSession
  BY <1>4 DEF LostSession, Sync, Base, BridgeInv, TypeOK, AnswerInv
<1>5. ASSUME NEW answer, EndOfCall(answer)
      PROVE  AnswerInv'
  BY <1>2, <1>5 DEF EndOfCall
<1>6. CASE UNCHANGED vars
  BY <1>2, <1>6 DEF vars
<1> QED BY <1>1, <1>3, <1>4, <1>5, <1>6, AnswerHandle, Steps

\* The third invariant holds at the start.
LEMMA AnswerInit == Init => AnswerInv
<1> SUFFICES ASSUME Init PROVE AnswerInv
  OBVIOUS
<1>1. calls = 0 /\ cache = << >> /\ last = None
  BY DEF Init
<1>2. DOMAIN cache = {}
  BY <1>1
<1> QED BY <1>1, <1>2 DEF AnswerInv, FromSession, Replied

-----------------------------------------------------------------------------
(* The transfer between the operations of a bridge that never gave up.     *)

\* What the bridge knows after the answer of the call in progress.
LEMMA AfterFacts ==
  ASSUME KindInv, request \in Requests, NEW answer \in Reply
  PROVE  /\ request.op \in {"keys", "abort"} => After(answer) = None
         /\ request.op \in {"begin"} /\ answer.ok = FALSE => After(answer) = None
         /\ request.op \in {"finish"} /\ answer.ok = TRUE => After(answer) = None
         /\ request.op \in {"begin"} /\ answer.ok = TRUE =>
              /\ After(answer) # None /\ After(answer).tid = answer.tid
              /\ After(answer).kind = request.kind /\ After(answer).data = request.data
              /\ After(answer).failed = FALSE
         /\ request.op \in {"block"} /\ answer.ok = TRUE =>
              /\ After(answer) # None /\ After(answer).tid = known.tid
              /\ After(answer).kind = known.kind /\ After(answer).data = known.data
              /\ After(answer).failed = known.failed
         /\ request.op \in {"block", "finish"} /\ answer.ok = FALSE =>
              /\ After(answer) # None /\ After(answer).tid = known.tid
              /\ After(answer).failed = TRUE
<1>1. WellKnown(known) /\ WellKnown(After(answer)) /\ answer.ok \in BOOLEAN
  BY AfterTyped DEF KindInv, Reply
<1>2. /\ request \in Request /\ request.op \in {"keys", "begin", "abort", "block", "finish"}
      /\ known = None => request.op \in {"keys", "begin"}
  BY <1>1, RequestsTyped
<1>3. request.op \in {"block", "finish"} => known \in Known
  BY <1>1, <1>2 DEF WellKnown
<1>4. CASE request.op \in {"keys", "abort"}
  BY <1>4 DEF After
<1>5. CASE request.op = "begin"
  <2>1. CASE answer.ok = FALSE
    BY <1>5, <2>1 DEF After
  <2>2. CASE answer.ok = TRUE
    <3> DEFINE size == IF request.kind = "write" THEN Len(request.data) ELSE answer.size
               k == [tid |-> answer.tid, kind |-> request.kind, data |-> request.data,
                     at |-> 0, failed |-> FALSE, size |-> size]
    <3>1. After(answer) = k
      BY <1>5, <2>2 DEF After
    <3> HIDE DEF size
    <3>2. k.tid = answer.tid /\ k.kind = request.kind /\ k.data = request.data /\ k.failed = FALSE
      OBVIOUS
    <3>3. k # None
      <4>1. answer.tid \in Id /\ answer.size \in Nat
        BY DEF Reply
      <4>2. /\ request.kind \in Kinds /\ request.data \in Contents \cup {None}
            /\ request.kind = "write" => request.data \in Contents
        BY <1>2, <1>5 DEF Request, Kinds
      <4>3. size \in Nat
        BY <4>1, <4>2, BlockOfContent DEF size
      <4>4. k \in Known
        BY <4>1, <4>2, <4>3 DEF Known
      <4> QED BY <4>4, ValuesAssumption
    <3> QED BY <1>5, <2>2, <3>1, <3>2, <3>3
  <2> QED BY <1>1, <2>1, <2>2
<1>6. CASE request.op = "block"
  <2>1. CASE answer.ok = FALSE
    <3>1. After(answer) = [known EXCEPT !.failed = TRUE]
      BY <1>6, <2>1 DEF After
    <3>2. After(answer) \in Known /\ After(answer).tid = known.tid /\ After(answer).failed = TRUE
      BY <1>3, <1>6, <3>1 DEF Known
    <3> QED BY <1>6, <2>1, <3>2, ValuesAssumption
  <2>2. CASE answer.ok = TRUE
    <3>1. After(answer) = [known EXCEPT !.at = @ + 1]
      BY <1>6, <2>2 DEF After
    <3>2. /\ After(answer) \in Known /\ After(answer).tid = known.tid
          /\ After(answer).kind = known.kind /\ After(answer).data = known.data
          /\ After(answer).failed = known.failed
      BY <1>3, <1>6, <3>1 DEF Known
    <3> QED BY <1>6, <2>2, <3>2, ValuesAssumption
  <2> QED BY <1>1, <2>1, <2>2
<1>7. CASE request.op = "finish"
  <2>1. CASE answer.ok = FALSE
    <3>1. After(answer) = [known EXCEPT !.failed = TRUE]
      BY <1>7, <2>1 DEF After
    <3>2. After(answer) \in Known /\ After(answer).tid = known.tid /\ After(answer).failed = TRUE
      BY <1>3, <1>7, <3>1 DEF Known
    <3> QED BY <1>7, <2>1, <3>2, ValuesAssumption
  <2>2. CASE answer.ok = TRUE
    BY <1>7, <2>2 DEF After
  <2> QED BY <1>1, <2>1, <2>2
<1> QED BY <1>2, <1>4, <1>5, <1>6, <1>7

\* Carrying out the call in progress leaves the transfer that the bridge expects.
LEMMA HoldsAfter ==
  ASSUME KindInv, request \in Requests, Holds(known), NEW d, Effect(request, d),
         d.answer.ok \/ d.transfer = transfer
  PROVE  HoldsIn(d.transfer, After(d.answer))
<1>1. d.answer \in Reply
  BY DEF Effect
<1>2. /\ request.op \in {"keys", "begin", "abort", "block", "finish"}
      /\ known = None => request.op \in {"keys", "begin"}
      /\ known # None => request.op \in {"abort", "block", "finish"} /\ request.tid = known.tid
  <2>1. request \in Request
    BY RequestsTyped DEF KindInv
  <2> QED BY <2>1, RequestsTyped DEF KindInv, Request
<1>3. CASE known = None
  <2>1. transfer = None /\ request.op \in {"keys", "begin"}
    BY <1>2, <1>3 DEF Holds, HoldsIn
  <2>2. CASE request.op = "keys"
    BY <1>1, <2>1, <2>2, AfterFacts DEF Effect, HoldsIn
  <2>3. CASE request.op = "begin"
    BY <1>1, <2>1, <2>3, AfterFacts DEF Effect, HoldsIn, Untouched
  <2> QED BY <2>1, <2>2, <2>3
<1>4. CASE known # None
  <2>1. transfer # None /\ transfer.tid = known.tid /\ request.tid = known.tid
        /\ request.op \in {"abort", "block", "finish"}
    BY <1>2, <1>4 DEF Holds, HoldsIn
  <2>2. CASE request.op = "abort"
    BY <1>1, <2>1, <2>2, AfterFacts DEF Effect, HoldsIn
  <2>3. CASE request.op = "block"
    BY <1>1, <2>1, <2>3, AfterFacts DEF Effect, HoldsIn, Untouched
  <2>4. CASE request.op = "finish"
    BY <1>1, <2>1, <2>4, AfterFacts DEF Effect, HoldsIn, Untouched
  <2> QED BY <2>1, <2>2, <2>3, <2>4
<1> QED BY <1>3, <1>4

\* A datagram keeps the fourth invariant.
LEMMA FreeHandle ==
  ASSUME Base, OnceInv, AnswerInv, FreeInv, Timely, Ample, NEW m \in sent, HandleDatagram(m)
  PROVE  FreeInv'
<1>1. Sync /\ HandledAnswers(m) /\ UNCHANGED <<calls, joined, session, sent, request, known, gaveUp>>
  BY HandleAnswers, HandleTyped
<1>s. stray => stray'
  BY ResendEffect, RejectEffect, CollectEffect, RunEffect DEF HandleDatagram, RunFacts
<1> SUFFICES ASSUME ~gaveUp, ~stray, ~stray' PROVE FreeInv'
  BY <1>1, <1>s DEF FreeInv
<1>2. /\ m.call \in 1 .. calls /\ calls \in Nat /\ calls >= 1 /\ calls \in 1 .. MaxCalls
      /\ m.call \in 1 .. MaxCalls /\ runs \in [1 .. MaxCalls -> Nat]
  <2>1. calls \in 0 .. MaxCalls /\ runs \in [1 .. MaxCalls -> Nat]
    BY DEF Base, TypeOK
  <2> QED BY <2>1, SentFacts, SimulatorAssumption
<1>3. /\ \A n \in 1 .. calls - 1 : runs[n] = 1
      /\ request = None => runs[calls] = 1 /\ Holds(known)
      /\ request # None /\ runs[calls] = 0 => Holds(known)
      /\ request # None /\ runs[calls] = 1 => Holds(After(reply))
  BY <1>1, <1>2 DEF FreeInv
<1>4. ASSUME UNCHANGED <<transfer, runs>>, request # None /\ runs[calls] = 1 => reply' = reply
      PROVE  FreeInv'
  <2>2. request # None /\ runs[calls] = 1 => After(reply)' = After(reply)
    BY <1>1, <1>4 DEF After
  <2>3. request # None /\ runs[calls] = 1 => Holds(After(reply))'
    BY <1>3, <1>4, <2>2 DEF Holds, HoldsIn
  <2>4. Holds(known)' <=> Holds(known)
    BY <1>1, <1>4 DEF Holds, HoldsIn
  <2> QED BY <1>1, <1>3, <1>4, <2>3, <2>4 DEF FreeInv
<1>5. CASE m.call # calls
  <2>1. reply' = reply /\ runs[m.call] = 1
    BY <1>2, <1>3, <1>5, OtherReply
  <2>2. ~Run(m)
    BY <1>1, <2>1, RunEffect, RunIsFirst
  <2>3. UNCHANGED <<transfer, runs>>
    BY <2>2, ResendEffect, RejectEffect, CollectEffect DEF HandleDatagram
  <2> QED BY <1>4, <2>1, <2>3
<1>6. CASE m.call = calls
  <2>1. CASE runs[calls] = 0 /\ Collect(m)
    BY <1>4, <2>1, CollectEffect
  <2>2. CASE runs[calls] = 1 /\ Resend(m)
    BY <1>1, <1>4, <1>6, <2>2, ResendEffect, SameReply
  <2>3. CASE runs[calls] = 0 /\ Run(m)
    <3>1. request # None /\ Holds(known)
      BY <1>3, <2>3
    <3>2. m.req = request /\ request \in Requests /\ KindInv
      BY <1>6, <3>1 DEF Base, BridgeInv
    <3>3. PICK d : /\ Effect(m.req, d) /\ transfer' = d.transfer /\ Responds(m, d.answer)
                   /\ stray' = (stray \/ (~d.answer.ok /\ d.transfer # transfer))
      BY <2>3, RunEffect DEF RunFacts
    <3>4. reply' = d.answer
      BY <1>6, <3>1, <3>3 DEF Responds, Answer
    <3>5. HoldsIn(d.transfer, After(d.answer))
      BY <3>1, <3>2, <3>3, HoldsAfter
    <3>6. After(reply)' = After(d.answer)
      BY <1>1, <3>4 DEF After
    <3>7. Holds(After(reply))'
      BY <3>3, <3>5, <3>6 DEF Holds
    <3>8. runs' = [runs EXCEPT ![m.call] = @ + 1]
      BY <2>3, RunEffect
    <3>9. runs'[m.call] = runs[m.call] + 1 /\ \A n \in 1 .. MaxCalls : n # m.call => runs'[n] = runs[n]
      BY ONLY <1>2, <3>8, Bumped
    <3>10. runs'[calls] = 1 /\ \A n \in 1 .. calls - 1 : runs'[n] = 1
      <4>1. \A n \in 1 .. calls - 1 : n \in 1 .. MaxCalls /\ n # calls
        BY ONLY <1>2, SimulatorAssumption
      <4> QED BY <1>3, <1>6, <2>3, <3>9, <4>1
    <3> QED BY <1>1, <3>1, <3>7, <3>10 DEF FreeInv
  <2> QED BY <1>6, <2>1, <2>2, <2>3, CurrentCall
<1> QED BY <1>5, <1>6

\* Every step keeps the fourth invariant.
LEMMA FreeNext ==
  ASSUME Base, OnceInv, AnswerInv, FreeInv, Timely, Ample, [Next]_vars
  PROVE  FreeInv'
<1>0. calls \in 0 .. MaxCalls /\ calls \in Nat /\ runs \in [1 .. MaxCalls -> Nat]
      /\ MaxCalls \in Nat
  BY SimulatorAssumption DEF Base, TypeOK
<1>1. ASSUME NEW req \in Requests, StartCall(req)
      PROVE  FreeInv'
  <2>1. /\ request = None /\ request' = req /\ calls' = calls + 1 /\ calls' \in 1 .. MaxCalls
        /\ UNCHANGED <<joined, known, gaveUp, session, transfer, runs, stray>>
    BY <1>1, StartCallFacts
  <2> SUFFICES ASSUME Sync, ~gaveUp, ~stray PROVE FreeInv'
    BY <2>1 DEF FreeInv, Sync
  <2>2. (\A n \in 1 .. calls - 1 : runs[n] = 1) /\ (calls >= 1 => runs[calls] = 1) /\ Holds(known)
    BY <2>1 DEF FreeInv
  <2>3. \A n \in 1 .. calls' - 1 : runs'[n] = 1
    BY <1>0, <2>1, <2>2
  <2>4. runs'[calls'] = 0
    BY <1>0, <2>1 DEF OnceInv
  <2>5. Holds(known)'
    BY <2>1, <2>2 DEF Holds
  <2>6. request' # None
    BY <1>1, <2>1, StartCallFacts, ValuesAssumption
  <2> QED BY <2>3, <2>4, <2>5, <2>6 DEF FreeInv
<1>2. ASSUME NEW answer, EndOfCall(answer), answer = reply, reply # None, UNCHANGED <<gaveUp, stray>>
      PROVE  FreeInv'
  <2>1. request # None /\ request' = None /\ known' = After(reply)
        /\ UNCHANGED <<joined, session, calls, transfer, runs>>
    BY <1>2 DEF EndOfCall
  <2> SUFFICES ASSUME Sync, ~gaveUp, ~stray PROVE FreeInv'
    BY <1>2, <2>1 DEF FreeInv, Sync
  <2>2. calls >= 1 /\ calls \in 1 .. MaxCalls /\ runs[calls] \in Nat
    BY <1>0, <2>1 DEF Base, BridgeInv
  <2>3. runs[calls] = 1
    BY <1>2, <2>2 DEF AnswerInv, OnceInv
  <2>4. Holds(After(reply)) /\ \A n \in 1 .. calls - 1 : runs[n] = 1
    BY <2>1, <2>3 DEF FreeInv
  <2>5. Holds(known)'
    BY <2>1, <2>4 DEF Holds
  <2> QED BY <2>1, <2>3, <2>4, <2>5 DEF FreeInv
<1>3. CASE NewSession
  <2>1. calls' = 0 /\ request' = None /\ known' = None /\ transfer' = None
    BY <1>3 DEF NewSession
  <2>2. Holds(known)'
    BY <2>1 DEF Holds, HoldsIn
  <2> QED BY <2>1, <2>2 DEF FreeInv
<1>4. CASE LostSession
  BY <1>4 DEF LostSession, Sync, Base, BridgeInv, TypeOK, FreeInv
<1>5. CASE gaveUp' = TRUE \/ stray' = TRUE
  BY <1>5 DEF FreeInv
<1>6. CASE UNCHANGED vars
  <2>1. After(reply)' = After(reply)
    BY <1>6 DEF vars, After
  <2>2. Holds(known)' <=> Holds(known)
    BY <1>6 DEF vars, Holds
  <2>3. Holds(After(reply))' <=> Holds(After(reply))
    BY <1>6, <2>1 DEF vars, Holds
  <2> QED BY <1>6, <2>2, <2>3 DEF vars, FreeInv, Sync
<1> QED BY <1>1, <1>2, <1>3, <1>4, <1>5, <1>6, FreeHandle, Steps

\* The fourth invariant holds at the start.
LEMMA FreeInit == Init => FreeInv
BY DEF Init, FreeInv, Holds, HoldsIn

\* The first three invariants.
Answers == Base /\ OnceInv /\ AnswerInv

\* They hold at the start, and every step keeps them.
LEMMA AnswersNext ==
  ASSUME Timely, Ample
  PROVE  (Init => Answers) /\ (Answers /\ [Next]_vars => Answers')
<1>1. Init => Answers
  BY BaseInit, OnceInit, AnswerInit DEF Answers
<1>2. Answers /\ [Next]_vars => Answers'
  BY BaseNext, OnceNext, AnswerNext DEF Answers
<1> QED BY <1>1, <1>2

\* Between the operations of a bridge that never gave up on a call, the agent holds
\* no transfer unless a graphics begin failed after its transfer had started, for any
\* contents and any number of calls that fits in half the range of ids
\* (_start_transfer, _dispatch, _handle_hello).
THEOREM TransferIsFreeCorrect ==
  ASSUME CacheSize >= 2 * Lateness, Lateness < IdModulus \div 2,
         MaxCalls + 1 < IdModulus \div 2
  PROVE  Spec => []TransferIsFree
<1>1. Timely /\ Ample
  BY DEF Timely, Ample
<1>2. Init => Answers /\ FreeInv
  BY <1>1, AnswersNext, FreeInit
<1>3. Answers /\ FreeInv /\ [Next]_vars => (Answers /\ FreeInv)'
  BY <1>1, AnswersNext, FreeNext DEF Answers
<1>4. FreeInv => TransferIsFree
  BY DEF FreeInv, TransferIsFree, Holds, HoldsIn, Sync
<1> QED BY <1>2, <1>3, <1>4, PTL DEF Spec

-----------------------------------------------------------------------------
(* The fragments of a call are not pushed out by those of earlier calls.   *)

\* There is room for the fragments of all calls whose datagrams may still arrive.
Roomy == PendingSize > Lateness

\* A new entry at the end pushes out neither the entry of the last call nor those
\* behind it.
LEMMA PushedTogether ==
  ASSUME Ample, Roomy, NEW s \in Seq(Partial), NEW e \in Partial, NEW t \in Seq(Partial),
         Pushed(s, e, t, PendingSize), SessionIds(s), Len(s) <= PendingSize,
         \A i \in DOMAIN s : s[i].id # e.id,
         calls \in 1 .. MaxCalls, NEW n \in 1 .. calls - 1, n + Lateness >= calls, e.id = IdOf(n)
  PROVE  /\ NotIn(s) => NotIn(t)
         /\ Together(s) => Together(t)
<1>0. PendingSize \in Nat \ {0} /\ MaxCalls \in Nat /\ Lateness \in Nat /\ calls \in Nat /\ n \in Nat
  BY SimulatorAssumption
<1>1. /\ Distinct(t) /\ Len(t) <= PendingSize
      /\ \A i \in DOMAIN t : t[i] = e \/ \E j \in DOMAIN s : t[i] = s[j]
  BY <1>0, PushedDistinct DEF SessionIds
<1>2. IdOf(n) # IdOf(calls) /\ n \in calls - Lateness .. calls - 1
  <2>1. n \in calls - Lateness .. calls - 1
    BY <1>0
  <2>2. n \in 0 .. MaxCalls /\ calls \in 0 .. MaxCalls /\ n # calls
    BY <1>0
  <2> QED BY <2>1, <2>2, IdsApart
<1>3. NotIn(s) => NotIn(t)
  BY <1>1, <1>2 DEF NotIn
<1>4. ASSUME Together(s) PROVE Together(t)
  <2>1. PICK i \in DOMAIN s :
          /\ s[i].id = IdOf(calls) /\ s[i].got = arrived
          /\ \A j \in i + 1 .. Len(s) : \E k \in calls - Lateness .. calls - 1 : s[j].id = IdOf(k)
    BY <1>4 DEF Together
  <2>2. PICK off \in {0, 1} : PushedBy(off, s, e, t, PendingSize)
    BY DEF Pushed
  <2>3. /\ Len(s) \in Nat /\ DOMAIN s = 1 .. Len(s) /\ DOMAIN t = 1 .. Len(t)
        /\ Len(t) = Len(s) + 1 - off /\ t[Len(s) + 1 - off] = e
        /\ \A x \in 1 .. Len(s) - off : t[x] = s[x + off]
        /\ off = 1 => Len(s) >= PendingSize
    BY <2>2, LenProperties DEF PushedBy
  <2>4. \A j \in 1 .. Len(t) : j + off > i => \E k \in calls - Lateness .. calls - 1 : t[j].id = IdOf(k)
    <3> TAKE j \in 1 .. Len(t)
    <3> HAVE j + off > i
    <3>1. CASE j = Len(s) + 1 - off
      BY <1>2, <2>3, <3>1
    <3>2. CASE j # Len(s) + 1 - off
      <4>1. /\ i \in Nat /\ off \in {0, 1} /\ Len(s) \in Nat /\ j \in 1 .. Len(t)
            /\ Len(t) = Len(s) + 1 - off /\ j + off > i
        BY <2>1, <2>3
      <4>2. j \in 1 .. Len(s) - off /\ j + off \in i + 1 .. Len(s)
        BY ONLY <3>2, <4>1
      <4> QED BY <2>1, <2>3, <4>2
    <3> QED BY <3>1, <3>2
  <2>5. i > off
    <3> SUFFICES ASSUME i <= off PROVE FALSE
      BY <2>1, <2>3
    <3>1. i = 1 /\ off = 1 /\ Len(t) >= PendingSize
      BY <2>1, <2>3
    <3> DEFINE W == calls - Lateness .. calls - 1
    <3>2. IsFiniteSet(W) /\ Cardinality(W) = Lateness
      <4>1. calls - Lateness \in Int /\ calls - 1 \in Int
        BY <1>0
      <4> DEFINE a == calls - Lateness
                 b == calls - 1
      <4> HIDE DEF a, b
      <4>2. IsFiniteSet(a .. b) /\ Cardinality(a .. b) = IF a > b THEN 0 ELSE b - a + 1
        BY <4>1, FS_Interval DEF a, b
      <4>3. (IF a > b THEN 0 ELSE b - a + 1) = Lateness
        BY <1>0 DEF a, b
      <4> QED BY <4>2, <4>3 DEF a, b
    <3>3. \A j \in DOMAIN t : \E k \in W : t[j].id = IdOf(k)
      BY <2>3, <2>4, <3>1
    <3> HIDE DEF W
    <3>4. Len(t) <= Cardinality(W)
      BY <1>1, <3>2, <3>3, Crowd
    <3> QED BY <1>0, <2>3, <3>1, <3>2, <3>4 DEF Roomy
  <2>6. i - off \in DOMAIN t /\ t[i - off] = s[i]
    <3>1. i - off \in 1 .. Len(s) - off /\ (i - off) + off = i
      BY <2>1, <2>3, <2>5
    <3> QED BY <2>3, <3>1
  <2>7. \A j \in (i - off) + 1 .. Len(t) : j \in 1 .. Len(t) /\ j + off > i
    BY <2>1, <2>3, <2>5
  <2>8. \A j \in (i - off) + 1 .. Len(t) : \E k \in calls - Lateness .. calls - 1 : t[j].id = IdOf(k)
    BY <2>4, <2>7
  <2> QED BY <2>1, <2>6, <2>8 DEF Together
<1> QED BY <1>3, <1>4

\* What making room for a fragment leaves.
LEMMA WaitingSound ==
  ASSUME Base, WholeInv, Sync, Ample, Roomy, NEW m \in sent
  PROVE  /\ Waiting(m) \in Seq(Partial) /\ SessionIds(Waiting(m)) /\ Len(Waiting(m)) <= PendingSize
         /\ m.call # calls => /\ NotIn(pending) => NotIn(Waiting(m))
                              /\ Together(pending) => Together(Waiting(m))
<1> DEFINE w == Waiting(m)
           e == [id |-> m.id, got |-> {}]
<1>1. w \in Seq(Partial) /\ WaitsIn(m, w)
  BY SentFacts, WaitingFacts DEF Base
<1>2. /\ m.id = IdOf(m.call) /\ m.id \in RequestId /\ m.call \in 1 .. calls /\ calls \in Nat
      /\ m.call + Lateness >= calls
  BY SentFacts
<1>3. pending \in Seq(Partial) /\ PendingSize \in Nat \ {0} /\ calls \in 0 .. MaxCalls
      /\ MaxCalls \in Nat
  BY SimulatorAssumption DEF Base, TypeOK, Partial
<1>4. SessionIds(pending) /\ Len(pending) <= PendingSize
  BY DEF WholeInv
<1>5. e \in Partial /\ e.id = m.id
  BY <1>2 DEF Partial
<1> HIDE DEF w, e
<1>6. CASE w = pending
  BY <1>1, <1>4, <1>6 DEF w
<1>7. CASE Pushed(pending, e, w, PendingSize) /\ \A i \in DOMAIN pending : pending[i].id # m.id
  <2>1. /\ Distinct(w) /\ Len(w) <= PendingSize
        /\ \A i \in DOMAIN w : w[i] = e \/ \E j \in DOMAIN pending : w[i] = pending[j]
    <3>1. Distinct(pending) /\ \A i \in DOMAIN pending : pending[i].id # e.id
      BY <1>4, <1>5, <1>7 DEF SessionIds
    <3> QED BY ONLY <1>1, <1>3, <1>4, <1>5, <1>7, <3>1, PushedDistinct
  <2>2. SessionIds(w)
    <3>1. ASSUME NEW i \in DOMAIN w PROVE \E k \in 1 .. calls : w[i].id = IdOf(k)
      BY <1>2, <1>4, <1>5, <2>1, <3>1 DEF SessionIds
    <3> QED BY <2>1, <3>1 DEF SessionIds
  <2>3. ASSUME m.call # calls
        PROVE  (NotIn(pending) => NotIn(w)) /\ (Together(pending) => Together(w))
    <3> DEFINE n == m.call
    <3>1. calls \in 1 .. MaxCalls /\ n \in 1 .. calls - 1 /\ n + Lateness >= calls
          /\ e.id = IdOf(n) /\ \A i \in DOMAIN pending : pending[i].id # e.id
      BY <1>2, <1>3, <1>5, <1>7, <2>3
    <3> HIDE DEF n
    <3> QED BY <1>1, <1>3, <1>4, <1>5, <1>7, <3>1, PushedTogether
  <2> QED BY <1>1, <2>1, <2>2, <2>3 DEF w
<1> QED BY <1>1, <1>6, <1>7 DEF WaitsIn, e

\* Noting a fragment of an earlier call disturbs nothing.
LEMMA NotedSound ==
  ASSUME NEW m, NEW w \in Seq(Partial), NEW c \in Seq(Partial), NotedIn(m, w, c), SessionIds(w)
  PROVE  /\ SessionIds(c)
         /\ m.id # IdOf(calls) => /\ NotIn(w) => NotIn(c)
                                  /\ Together(w) => Together(c)
<1>1. /\ Len(c) = Len(w) /\ Len(w) \in Nat /\ DOMAIN w = 1 .. Len(w) /\ DOMAIN c = 1 .. Len(w)
      /\ \A i \in 1 .. Len(w) :
           /\ c[i].id = w[i].id
           /\ c[i].got = IF w[i].id = m.id THEN w[i].got \cup {m.index} ELSE w[i].got
  BY LenProperties DEF NotedIn
<1>2. SessionIds(c)
  BY <1>1 DEF SessionIds, Distinct
<1>3. NotIn(w) => NotIn(c)
  BY <1>1 DEF NotIn
<1>4. ASSUME m.id # IdOf(calls), Together(w) PROVE Together(c)
  <2>1. PICK i \in DOMAIN w :
          /\ w[i].id = IdOf(calls) /\ w[i].got = arrived
          /\ \A j \in i + 1 .. Len(w) : \E k \in calls - Lateness .. calls - 1 : w[j].id = IdOf(k)
    BY <1>4 DEF Together
  <2>2. c[i].id = IdOf(calls) /\ c[i].got = arrived /\ i \in DOMAIN c
    BY <1>1, <1>4, <2>1
  <2>3. \A j \in i + 1 .. Len(c) : j \in i + 1 .. Len(w) /\ j \in 1 .. Len(w)
    BY <1>1, <2>1
  <2>4. \A j \in i + 1 .. Len(c) : \E k \in calls - Lateness .. calls - 1 : c[j].id = IdOf(k)
    BY <1>1, <2>1, <2>3
  <2> QED BY <2>2, <2>4 DEF Together
<1> QED BY <1>2, <1>3, <1>4

\* Nor does taking out the entry of an earlier call.
LEMMA RemovedSound ==
  ASSUME NEW w \in Seq(Partial), NEW x \in DOMAIN w, SessionIds(w)
  PROVE  /\ SessionIds(RemoveAt(w, x)) /\ Len(RemoveAt(w, x)) = Len(w) - 1 /\ Len(w) \in Nat
         /\ w[x].id # IdOf(calls) => /\ NotIn(w) => NotIn(RemoveAt(w, x))
                                     /\ Together(w) => Together(RemoveAt(w, x))
<1> DEFINE r == RemoveAt(w, x)
<1>1. /\ r \in Seq(Partial) /\ Len(r) = Len(w) - 1
      /\ \A j \in 1 .. Len(w) - 1 : r[j] = IF j < x THEN w[j] ELSE w[j + 1]
  BY RemovedEntry
<1>2. Len(w) \in Nat /\ DOMAIN w = 1 .. Len(w) /\ x \in 1 .. Len(w)
  BY LenProperties
<1> HIDE DEF r
<1>3. DOMAIN r = 1 .. Len(w) - 1 /\ Len(r) \in Nat
  BY <1>1, <1>2, LenProperties
<1> DEFINE p(j) == IF j < x THEN j ELSE j + 1
<1>4. ASSUME NEW j \in DOMAIN r
      PROVE  p(j) \in DOMAIN w /\ r[j] = w[p(j)] /\ p(j) # x
  BY <1>1, <1>2, <1>3
<1>5. ASSUME NEW i \in DOMAIN r, NEW j \in DOMAIN r
      PROVE  (p(i) = p(j) => i = j) /\ (i < j => p(i) < p(j))
  BY <1>2, <1>3
<1>6. SessionIds(r)
  <2> HIDE DEF p
  <2>1. Distinct(r)
    BY <1>4, <1>5 DEF SessionIds, Distinct
  <2> QED BY <1>4, <2>1 DEF SessionIds
<1>7. NotIn(w) => NotIn(r)
  <2> HIDE DEF p
  <2> QED BY <1>4 DEF NotIn
<1>8. ASSUME w[x].id # IdOf(calls), Together(w) PROVE Together(r)
  <2>1. PICK i \in DOMAIN w :
          /\ w[i].id = IdOf(calls) /\ w[i].got = arrived
          /\ \A j \in i + 1 .. Len(w) : \E k \in calls - Lateness .. calls - 1 : w[j].id = IdOf(k)
    BY <1>8 DEF Together
  <2> DEFINE q == IF i < x THEN i ELSE i - 1
  <2>2. q \in DOMAIN r /\ p(q) = i
    <3>1. i # x
      BY <1>8, <2>1
    <3> QED BY <1>2, <1>3, <2>1, <3>1
  <2>3. r[q].id = IdOf(calls) /\ r[q].got = arrived
    BY <1>4, <2>1, <2>2
  <2> HIDE DEF q
  <2>4. \A j \in q + 1 .. Len(r) : j \in DOMAIN r /\ q < j
    BY <1>1, <1>2, <1>3, <2>2
  <2> HIDE DEF p
  <2>5. ASSUME NEW j \in q + 1 .. Len(r)
        PROVE  \E k \in calls - Lateness .. calls - 1 : r[j].id = IdOf(k)
    <3>1. p(j) \in DOMAIN w /\ r[j] = w[p(j)] /\ i < p(j)
      BY <1>4, <1>5, <2>2, <2>4
    <3>2. p(j) \in i + 1 .. Len(w)
      BY <1>2, <2>1, <3>1
    <3> QED BY <2>1, <3>1, <3>2
  <2> QED BY <2>2, <2>3, <2>5 DEF Together
<1> QED BY <1>1, <1>2, <1>6, <1>7, <1>8 DEF r

\* A fragment of the last call joins the others.
LEMMA CollectTogether ==
  ASSUME Base, OnceInv, AnswerInv, WholeInv, Sync, Ample, Roomy, NEW m \in sent, m.call = calls,
         runs[calls] = 0, Collect(m), Arrives(m)
  PROVE  Together(pending)' /\ Incomplete'
<1> DEFINE w == Waiting(m)
           c == Collected(m)
<1>1. /\ pending' = c /\ ~Whole(m) /\ UNCHANGED <<calls, sent>>
      /\ arrived' = arrived \cup {m.index}
  BY CollectEffect DEF Arrives
<1>2. m.id = IdOf(calls) /\ m.id \in RequestId /\ calls >= 1 /\ m.index \in 1 .. KeyFragments
      /\ calls \in Nat
  BY SentFacts
<1>3. w \in Seq(Partial) /\ WaitsIn(m, w) /\ c \in Seq(Partial) /\ NotedIn(m, w, c)
  BY <1>2, WaitingFacts, CollectedFacts DEF Base
<1>4. /\ Len(c) = Len(w) /\ Len(w) \in Nat /\ DOMAIN w = 1 .. Len(w) /\ DOMAIN c = 1 .. Len(w)
      /\ \A i \in 1 .. Len(w) :
           /\ c[i].id = w[i].id
           /\ c[i].got = IF w[i].id = m.id THEN w[i].got \cup {m.index} ELSE w[i].got
  BY <1>3, LenProperties DEF NotedIn
<1>5. \A i \in DOMAIN c : c[i].id = m.id => c[i].got # Fragments(m.req)
  BY <1>1 DEF Whole
<1> HIDE DEF w, c
<1>6. PICK i \in DOMAIN w :
        /\ w[i].id = IdOf(calls) /\ w[i].got = arrived
        /\ \A j \in i + 1 .. Len(w) : \E k \in calls - Lateness .. calls - 1 : w[j].id = IdOf(k)
  <2>1. CASE arrived = {} /\ NotIn(pending)
    <3> DEFINE e == [id |-> m.id, got |-> {}]
    <3>1. Pushed(pending, e, w, PendingSize)
      BY <1>2, <1>3, <2>1 DEF WaitsIn, NotIn
    <3>2. e.id = m.id /\ e.got = {}
      OBVIOUS
    <3> HIDE DEF e
    <3>3. PICK off \in {0, 1} : PushedBy(off, pending, e, w, PendingSize)
      BY <3>1 DEF Pushed
    <3>4. Len(w) = Len(pending) + 1 - off /\ w[Len(pending) + 1 - off] = e
          /\ (off = 1 => Len(pending) >= PendingSize) /\ Len(pending) \in Nat
          /\ PendingSize \in Nat \ {0}
      BY <3>3, SimulatorAssumption, LenProperties DEF PushedBy, Base, TypeOK
    <3>5. Len(w) \in DOMAIN w /\ w[Len(w)] = e /\ \A j \in Len(w) + 1 .. Len(w) : FALSE
      BY <1>4, <3>4
    <3> QED BY <1>2, <2>1, <3>2, <3>5
  <2>2. CASE Together(pending)
    <3>1. \E i \in DOMAIN pending : pending[i].id = m.id
      BY <1>2, <2>2 DEF Together
    <3>2. w = pending
      BY <1>3, <3>1 DEF WaitsIn
    <3> QED BY <2>2, <3>2 DEF Together
  <2> QED BY <1>2, <2>1, <2>2 DEF WholeInv
<1>7. i \in DOMAIN c /\ c[i].id = IdOf(calls) /\ c[i].got = arrived'
  BY <1>1, <1>2, <1>4, <1>6
<1>8. \A j \in i + 1 .. Len(c) : \E k \in calls - Lateness .. calls - 1 : c[j].id = IdOf(k)
  <2> TAKE j \in i + 1 .. Len(c)
  <2>1. j \in i + 1 .. Len(w) /\ j \in 1 .. Len(w)
    BY <1>4, <1>6
  <2>2. c[j].id = w[j].id
    BY <1>4, <2>1
  <2> QED BY <1>6, <2>1, <2>2
<1>9. Together(pending)'
  BY <1>1, <1>7, <1>8 DEF Together, c
<1>10. Incomplete'
  <2>1. arrived' # Fragments(m.req)
    BY <1>2, <1>5, <1>7
  <2>2. \A o \in sent : o.call = calls => o.req = m.req
    BY DEF Base, BridgeInv
  <2> QED BY <1>1, <2>1, <2>2 DEF Incomplete, Fragments
<1> QED BY <1>9, <1>10

\* A datagram keeps the fifth invariant.
LEMMA WholeHandle ==
  ASSUME Base, OnceInv, AnswerInv, WholeInv, Ample, Roomy, NEW m \in sent, HandleDatagram(m)
  PROVE  WholeInv'
<1>1. Sync /\ HandledAnswers(m) /\ UNCHANGED <<calls, joined, session, sent, request, known>>
  BY HandleAnswers
<1>2. /\ m.id = IdOf(m.call) /\ m.call \in 1 .. calls /\ calls \in Nat /\ m.call \in 1 .. MaxCalls
      /\ calls \in 1 .. MaxCalls /\ runs \in [1 .. MaxCalls -> Nat]
  <2>1. calls \in 0 .. MaxCalls /\ runs \in [1 .. MaxCalls -> Nat]
    BY DEF Base, TypeOK
  <2> QED BY <2>1, SentFacts, SimulatorAssumption
<1>3. /\ SessionIds(pending) /\ Len(pending) <= PendingSize
      /\ runs[calls] = 0 => (arrived = {} /\ NotIn(pending)) \/ (Together(pending) /\ Incomplete)
  BY <1>1, <1>2 DEF WholeInv
<1>4. Arrives(m) /\ (Resend(m) \/ RejectReplay(m) \/ Collect(m) \/ Run(m))
  BY DEF HandleDatagram
<1>6. SessionIds(pending)' /\ Len(pending') <= PendingSize
  <2>1. CASE pending' = pending
    BY <1>1, <1>3, <2>1 DEF SessionIds
  <2>2. CASE Collect(m)
    <3>1. pending' = Collected(m)
      BY <2>2, CollectEffect
    <3>2. /\ Waiting(m) \in Seq(Partial) /\ SessionIds(Waiting(m)) /\ Len(Waiting(m)) <= PendingSize
      BY <1>1, WaitingSound
    <3>3. Collected(m) \in Seq(Partial) /\ NotedIn(m, Waiting(m), Collected(m))
      BY SentFacts, CollectedFacts DEF Base
    <3>4. SessionIds(Collected(m))
      BY <3>2, <3>3, NotedSound
    <3>5. Len(Collected(m)) = Len(Waiting(m))
      BY <3>3 DEF NotedIn
    <3>6. Len(pending') <= PendingSize
      BY <3>1, <3>2, <3>5
    <3> QED BY <1>1, <3>1, <3>4, <3>6 DEF SessionIds
  <2>3. CASE Run(m)
    <3>1. PICK x \in DOMAIN Waiting(m) : pending' = RemoveAt(Waiting(m), x)
      BY <2>3, RunEffect
    <3>2. /\ Waiting(m) \in Seq(Partial) /\ SessionIds(Waiting(m)) /\ Len(Waiting(m)) <= PendingSize
      BY <1>1, WaitingSound
    <3> DEFINE w == Waiting(m)
    <3> HIDE DEF w
    <3>3. SessionIds(RemoveAt(w, x)) /\ Len(RemoveAt(w, x)) = Len(w) - 1 /\ Len(w) \in Nat
      BY <3>1, <3>2, RemovedSound DEF w
    <3>4. Len(pending') <= PendingSize
      BY <3>1, <3>2, <3>3, SimulatorAssumption DEF w
    <3> QED BY <1>1, <3>1, <3>3, <3>4 DEF SessionIds, w
  <2> QED BY <1>4, <2>1, <2>2, <2>3, ResendEffect, RejectEffect
<1>7. CASE m.call = calls
  <2>1. CASE runs[calls] = 0 /\ Collect(m)
    BY <1>1, <1>4, <1>6, <1>7, <2>1, CollectTogether DEF WholeInv
  <2>2. CASE runs[calls] = 1 /\ Resend(m)
    <3>1. runs' = runs
      BY <2>2, ResendEffect
    <3> QED BY <1>1, <1>6, <2>2, <3>1 DEF WholeInv
  <2>3. CASE runs[calls] = 0 /\ Run(m)
    <3>1. runs' = [runs EXCEPT ![m.call] = @ + 1]
      BY <2>3, RunEffect
    <3>2. runs'[m.call] = runs[m.call] + 1
      BY ONLY <1>2, <3>1, Bumped
    <3>3. runs'[calls] # 0
      BY <1>7, <2>3, <3>2
    <3> QED BY <1>1, <1>6, <3>3 DEF WholeInv
  <2> QED BY <1>7, <2>1, <2>2, <2>3, CurrentCall
<1>8. CASE m.call # calls
  <2>1. arrived' = arrived
    BY <1>4, <1>8 DEF Arrives
  <2>2. m.id # IdOf(calls)
    <3>1. calls \in 0 .. MaxCalls /\ m.call \in 0 .. MaxCalls
      BY <1>2
    <3> QED BY <1>2, <1>8, <3>1, IdsApart
  <2>3. runs'[calls] = runs[calls]
    BY <1>1, <1>2, <1>8, Bumped DEF HandledAnswers
  <2>5. (NotIn(pending) => NotIn(pending)') /\ (Together(pending) => Together(pending)')
    <3>1. CASE pending' = pending
      BY <1>1, <2>1, <3>1 DEF NotIn, Together
    <3>2. CASE Collect(m)
      <4> DEFINE w == Waiting(m)
                 c == Collected(m)
      <4>1. pending' = c
        BY <3>2, CollectEffect
      <4>2. /\ w \in Seq(Partial) /\ SessionIds(w)
            /\ NotIn(pending) => NotIn(w)
            /\ Together(pending) => Together(w)
        BY <1>1, <1>8, WaitingSound
      <4>3. c \in Seq(Partial) /\ NotedIn(m, w, c)
        BY SentFacts, CollectedFacts DEF Base
      <4> HIDE DEF w, c
      <4>4. (NotIn(pending) => NotIn(c)) /\ (Together(pending) => Together(c))
        BY <2>2, <4>2, <4>3, NotedSound
      <4> QED BY <1>1, <2>1, <4>1, <4>4 DEF NotIn, Together
    <3>3. CASE Run(m)
      <4> DEFINE w == Waiting(m)
      <4>1. PICK x \in DOMAIN w : w[x].id = m.id /\ pending' = RemoveAt(w, x)
        BY <3>3, RunEffect
      <4>2. /\ w \in Seq(Partial) /\ SessionIds(w)
            /\ NotIn(pending) => NotIn(w)
            /\ Together(pending) => Together(w)
        BY <1>1, <1>8, WaitingSound
      <4> HIDE DEF w
      <4>4. (NotIn(pending) => NotIn(RemoveAt(w, x))) /\ (Together(pending) => Together(RemoveAt(w, x)))
        BY <2>2, <4>1, <4>2, RemovedSound
      <4> QED BY <1>1, <2>1, <4>1, <4>4 DEF NotIn, Together
    <3> QED BY <1>4, <3>1, <3>2, <3>3, ResendEffect, RejectEffect
  <2>6. Incomplete => Incomplete'
    BY <1>1, <2>1 DEF Incomplete, Fragments
  <2> QED BY <1>1, <1>3, <1>6, <2>1, <2>3, <2>5, <2>6 DEF WholeInv
<1> QED BY <1>7, <1>8

\* Every step keeps the fifth invariant.
LEMMA WholeNext ==
  ASSUME Base, OnceInv, AnswerInv, WholeInv, Ample, Roomy, [Next]_vars
  PROVE  WholeInv'
<1>0. calls \in 0 .. MaxCalls /\ calls \in Nat /\ runs \in [1 .. MaxCalls -> Nat]
      /\ MaxCalls \in Nat
  BY SimulatorAssumption DEF Base, TypeOK
<1>1. ASSUME NEW req \in Requests, StartCall(req)
      PROVE  WholeInv'
  <2>1. /\ calls' = calls + 1 /\ calls' \in 1 .. MaxCalls /\ arrived' = {}
        /\ UNCHANGED <<joined, session, pending>>
    BY <1>1, StartCallFacts
  <2> SUFFICES ASSUME Sync PROVE WholeInv'
    BY <2>1 DEF WholeInv, Sync
  <2>2. SessionIds(pending) /\ Len(pending) <= PendingSize
    BY DEF WholeInv
  <2>3. SessionIds(pending)'
    BY <1>0, <2>1, <2>2 DEF SessionIds
  <2>4. \A k \in 1 .. calls : IdOf(k) # IdOf(calls + 1)
    BY <1>0, <2>1, IdsApart
  <2>5. NotIn(pending)'
    BY <2>1, <2>2, <2>4 DEF SessionIds, NotIn
  <2> QED BY <2>1, <2>2, <2>3, <2>5 DEF WholeInv
<1>2. ASSUME UNCHANGED <<calls, joined, session, pending, runs, arrived, sent>>
      PROVE  WholeInv'
  BY <1>2 DEF WholeInv, Sync, SessionIds, NotIn, Together, Incomplete, Fragments
<1>3. CASE NewSession
  <2>1. calls' = 0 /\ pending' = << >>
    BY <1>3 DEF NewSession
  <2>2. DOMAIN pending' = {} /\ Len(pending') <= PendingSize
    BY <2>1, SimulatorAssumption
  <2>3. SessionIds(pending)'
    BY <2>2 DEF SessionIds, Distinct
  <2> QED BY <2>1, <2>2, <2>3 DEF WholeInv
<1>4. CASE LostSession
  BY <1>4 DEF LostSession, Sync, Base, BridgeInv, TypeOK, WholeInv
<1>5. ASSUME NEW answer, EndOfCall(answer)
      PROVE  WholeInv'
  BY <1>2, <1>5 DEF EndOfCall
<1>6. CASE UNCHANGED vars
  BY <1>2, <1>6 DEF vars
<1> QED BY <1>1, <1>3, <1>4, <1>5, <1>6, WholeHandle, Steps

\* The fifth invariant holds at the start.
LEMMA WholeInit == Init => WholeInv
<1> SUFFICES ASSUME Init PROVE WholeInv
  OBVIOUS
<1>1. calls = 0 /\ pending = << >>
  BY DEF Init
<1>2. DOMAIN pending = {} /\ Len(pending) <= PendingSize
  BY <1>1, SimulatorAssumption
<1> QED BY <1>1, <1>2 DEF WholeInv, SessionIds, Distinct

\* It says what WholeIsRun says.
LEMMA WholeImplies ==
  ASSUME Base, OnceInv, WholeInv
  PROVE  WholeIsRun
<1> SUFFICES ASSUME request # None, Sync, arrived = Fragments(request), runs[calls] # 1
             PROVE  FALSE
  BY DEF WholeIsRun, Sync
<1>1. calls >= 1 /\ calls \in 1 .. MaxCalls /\ runs[calls] \in Nat
  <2>1. calls \in 0 .. MaxCalls /\ runs \in [1 .. MaxCalls -> Nat] /\ calls >= 1
    BY DEF Base, TypeOK, BridgeInv
  <2> QED BY <2>1, SimulatorAssumption
<1>2. runs[calls] = 0
  BY <1>1 DEF OnceInv
<1>3. PICK m \in sent : m.call = calls /\ m.req = request
  BY DEF Base, BridgeInv
<1>4. arrived = {} \/ Incomplete
  BY <1>1, <1>2 DEF WholeInv
<1>5. 1 \in Fragments(request)
  BY SimulatorAssumption DEF Fragments
<1> QED BY <1>3, <1>4, <1>5 DEF Incomplete

\* A call whose fragments all reached the agent is carried out, for any numbers of
\* calls and fragments, when there are places for the fragments of all calls whose
\* datagrams may still arrive (handle_datagram).
THEOREM WholeIsRunCorrect ==
  ASSUME CacheSize >= 2 * Lateness, Lateness < IdModulus \div 2,
         MaxCalls + 1 < IdModulus \div 2, PendingSize > Lateness
  PROVE  Spec => []WholeIsRun
<1>1. Timely /\ Ample /\ Roomy
  BY DEF Timely, Ample, Roomy
<1>2. Init => Answers /\ WholeInv
  BY <1>1, AnswersNext, WholeInit
<1>3. Answers /\ WholeInv /\ [Next]_vars => (Answers /\ WholeInv)'
  BY <1>1, AnswersNext, WholeNext DEF Answers
<1>4. Answers /\ WholeInv => WholeIsRun
  BY WholeImplies DEF Answers
<1> QED BY <1>2, <1>3, <1>4, PTL DEF Spec

-----------------------------------------------------------------------------
(* An acknowledged upload is stored.                                       *)

\* A datagram comes at most two calls late.
Prompt == Lateness <= 2

\* What a datagram does to the counts of runs, and that nothing else changes unless
\* a request is carried out.
LEMMA HandleRuns ==
  ASSUME Base, OnceInv, Timely, NEW m \in sent, HandleDatagram(m)
  PROVE  /\ \A n \in 1 .. MaxCalls : (runs[n] = 1 => runs'[n] = 1) /\ (runs'[n] = 0 => runs[n] = 0)
         /\ \/ ~Run(m) /\ UNCHANGED <<transfer, dest, runs>>
            \/ /\ Run(m) /\ runs[m.call] = 0 /\ runs'[m.call] = 1
               /\ \A n \in 1 .. MaxCalls : n # m.call => runs'[n] = runs[n]
<1>1. Sync
  BY HandleAnswers
<1>2. m.call \in 1 .. MaxCalls /\ runs \in [1 .. MaxCalls -> Nat]
  BY SentFacts DEF Base, TypeOK
<1>3. CASE ~Run(m)
  BY <1>3, ResendEffect, RejectEffect, CollectEffect DEF HandleDatagram
<1>4. CASE Run(m)
  <2>1. runs' = [runs EXCEPT ![m.call] = @ + 1] /\ ~Cached(m) /\ IsNewer(m)
    BY <1>4, RunEffect
  <2>2. runs'[m.call] = runs[m.call] + 1 /\ \A n \in 1 .. MaxCalls : n # m.call => runs'[n] = runs[n]
    BY ONLY <1>2, <2>1, Bumped
  <2>3. runs[m.call] = 0
    BY <1>1, <2>1, RunIsFirst
  <2>4. runs'[m.call] = 1
    BY <2>2, <2>3
  <2>5. \A n \in 1 .. MaxCalls : (runs[n] = 1 => runs'[n] = 1) /\ (runs'[n] = 0 => runs[n] = 0)
    <3> TAKE n \in 1 .. MaxCalls
    <3>1. CASE n = m.call
      BY <2>3, <2>4, <3>1
    <3>2. CASE n # m.call
      BY <2>2, <3>2
    <3> QED BY <3>1, <3>2
  <2> QED BY <1>4, <2>2, <2>3, <2>4, <2>5
<1> QED BY <1>3, <1>4

\* A call that is dead is not carried out.
LEMMA DeadIsRefused ==
  ASSUME Base, Timely, Ample, NEW m \in sent, Dead(m.call)
  PROVE  Cached(m) \/ ~IsNewer(m)
<1>1. m.id = IdOf(m.call) /\ m.call \in 1 .. calls /\ calls \in Nat /\ m.call \in Nat
  BY SentFacts
<1>2. CASE Kept(m.call)
  BY <1>2, KeptIsRefused
<1>3. CASE \E k \in m.call .. calls : last = IdOf(k)
  <2>1. PICK k \in m.call .. calls : last = IdOf(k)
    BY <1>3
  <2> DEFINE d == k - m.call
  <2>2. d \in Nat /\ k = m.call + d /\ d <= MaxCalls /\ k \in Nat /\ MaxCalls \in Nat
    <3>1. calls \in 0 .. MaxCalls
      BY DEF Base, TypeOK
    <3> QED BY <1>1, <2>1, <3>1, SimulatorAssumption
  <2> HIDE DEF d
  <2>3. d < IdModulus \div 2
    <3>1. IdModulus \div 2 \in Int /\ MaxCalls + 1 < IdModulus \div 2
      BY IdModulusAssumption DEF Ample
    <3> QED BY <2>2, <3>1
  <2>4. ~RequestIsNewer(IdOf(m.call), IdOf(m.call + d))
    BY <1>1, <2>2, <2>3, NewerIsLater
  <2>5. last # None /\ ~RequestIsNewer(m.id, last)
    BY <1>1, <2>1, <2>2, <2>4, IdOfTyped
  <2> QED BY <2>5 DEF IsNewer
<1> QED BY <1>2, <1>3 DEF Dead

\* A call that is dead stays dead when a datagram is handled.
LEMMA DeadHandle ==
  ASSUME Base, OnceInv, AnswerInv, Timely, NEW m \in sent, HandleDatagram(m),
         NEW n \in 1 .. calls, Alive(n), Dead(n)
  PROVE  Dead(n)'
<1>1. Sync /\ HandledAnswers(m) /\ UNCHANGED <<calls, joined, session, sent, request, known>>
  BY HandleAnswers
<1>2. \A i : Alive(i)' <=> Alive(i)
  BY <1>1 DEF Alive
<1>3. m.id = IdOf(m.call) /\ m.call \in 1 .. calls /\ calls \in Nat /\ Alive(m.call) /\ n \in Nat
  BY SentFacts
<1>4. CASE UNCHANGED <<last, cache, runs>>
  BY <1>1, <1>2, <1>4, KeptUnchanged DEF Dead
<1>5. CASE ~Cached(m) /\ \E answer : Responds(m, answer)
  <2>1. PICK answer : Responds(m, answer)
    BY <1>5
  <2>2. ASSUME NEW i, Alive(i), Kept(i) PROVE Kept(i)'
    <3>1. Distinct(cache) /\ Len(cache) <= CacheSize
      BY <1>1 DEF OnceInv
    <3> QED BY <1>1, <1>5, <2>1, <2>2, <3>1, KeptStable DEF Timely
  <2>3. CASE Kept(n)
    BY <2>2, <2>3 DEF Dead
  <2>4. CASE \A i \in 1 .. n - 1 : Alive(i) => Kept(i)
    <3>1. \A i \in 1 .. n - 1 : Alive(i)' => Kept(i)'
      BY <1>2, <2>2, <2>4
    <3>2. last' = IdOf(m.call)
      BY <1>3, <2>1 DEF Responds
    <3>3. CASE m.call >= n
      <4>1. m.call \in n .. calls
        BY <1>3, <3>3
      <4> QED BY <1>1, <3>1, <3>2, <4>1 DEF Dead
    <3>4. CASE m.call < n
      <4>1. m.call \in 1 .. n - 1 /\ n \in m.call + 1 .. calls
        BY <1>3, <3>4
      <4>2. Kept(m.call)
        BY <1>3, <2>4, <4>1
      <4>3. ~KeptInCache(m.call)
        BY <1>3, <1>5 DEF KeptInCache, Cached
      <4>4. Stored(n)
        BY <4>1, <4>2, <4>3 DEF Kept, KeptOut
      <4>5. Kept(n)
        BY <1>1, <4>4 DEF AnswerInv, Kept
      <4> QED BY <2>2, <4>5 DEF Dead
    <3> QED BY <1>3, <3>3, <3>4
  <2> QED BY <2>3, <2>4 DEF Dead
<1> QED BY <1>1, <1>4, <1>5 DEF HandledAnswers

\* And when a call starts.
LEMMA DeadStartCall ==
  ASSUME Base, NEW req \in Requests, StartCall(req), NEW n \in 1 .. calls, Alive(n)', Dead(n)
  PROVE  Dead(n)'
<1>1. calls' = calls + 1 /\ UNCHANGED <<last, cache>> /\ calls \in Nat /\ n \in Nat
  BY StartCallFacts, SimulatorAssumption DEF Base, TypeOK
<1>2. ASSUME NEW i \in 1 .. calls, Alive(i)', Kept(i) PROVE Kept(i)'
  <2>1. i # calls + 1
    BY <1>1
  <2> QED BY <1>2, <2>1, KeptStartCall DEF Kept
<1>3. \A i \in 1 .. calls : Alive(i)' => Alive(i)
  BY <1>1, SimulatorAssumption DEF Alive
<1>4. CASE Kept(n)
  BY <1>2, <1>4 DEF Dead
<1>5. CASE /\ \E k \in n .. calls : last = IdOf(k)
           /\ \A i \in 1 .. n - 1 : Alive(i) => Kept(i)
  <2>1. \E k \in n .. calls' : last' = IdOf(k)
    <3>1. PICK k \in n .. calls : last = IdOf(k)
      BY <1>5
    <3>2. k \in n .. calls'
      BY <1>1, <3>1
    <3> QED BY <1>1, <3>1, <3>2
  <2>2. \A i \in 1 .. n - 1 : i \in 1 .. calls
    BY <1>1
  <2>3. \A i \in 1 .. n - 1 : Alive(i)' => Kept(i)'
    BY <1>2, <1>3, <1>5, <2>2
  <2> QED BY <2>1, <2>3 DEF Dead
<1> QED BY <1>4, <1>5 DEF Dead

\* What all of the following lemmas assume.
Sound == Base /\ OnceInv /\ AnswerInv /\ CommitInv
Late == Timely /\ Ample /\ Prompt

\* Facts about a datagram that is handled.
LEMMA HandleFacts ==
  ASSUME Sound, Late, NEW m \in sent, HandleDatagram(m)
  PROVE  /\ Sync /\ NoHarm /\ Driven /\ Acknowledged /\ Failing /\ Aborting /\ Unfinished
         /\ UNCHANGED <<joined, session, calls, request, known, sent>>
         /\ m.call \in 1 .. calls /\ calls \in 1 .. MaxCalls /\ calls \in Nat /\ m.call \in Nat
         /\ calls - 2 <= m.call /\ m.call \in 1 .. MaxCalls
         /\ \A n \in 1 .. calls : n \in 1 .. MaxCalls /\ (runs[n] = 0 \/ runs[n] = 1)
<1>1. Sync /\ UNCHANGED <<joined, session, calls, request, known, sent>>
  BY HandleAnswers DEF Sound
<1>2. NoHarm /\ Driven /\ Acknowledged /\ Failing /\ Aborting /\ Unfinished
  BY <1>1 DEF Sound, CommitInv
<1>3. calls \in 0 .. MaxCalls /\ MaxCalls \in Nat /\ runs \in [1 .. MaxCalls -> Nat]
      /\ Lateness \in Nat /\ Lateness <= 2
  BY SimulatorAssumption DEF Sound, Base, TypeOK, Late, Prompt
<1>4. m.call \in 1 .. calls /\ m.call + Lateness >= calls /\ m.call \in 1 .. MaxCalls
  BY SentFacts DEF Sound
<1>5. calls \in 1 .. MaxCalls /\ calls \in Nat /\ m.call \in Nat /\ calls - 2 <= m.call
  BY ONLY <1>3, <1>4
<1>6. \A n \in 1 .. calls : n \in 1 .. MaxCalls
  BY ONLY <1>3
<1>7. \A n \in 1 .. MaxCalls : runs[n] <= 1 /\ runs[n] \in Nat
  BY <1>3 DEF Sound, OnceInv
<1>8. \A n \in 1 .. calls : n \in 1 .. MaxCalls /\ (runs[n] = 0 \/ runs[n] = 1)
  BY <1>6, <1>7
<1> QED BY <1>1, <1>2, <1>4, <1>5, <1>8

\* A call carried out after a later one leaves a transfer and the destination alone.
LEMMA StaleRun ==
  ASSUME Sound, Late, NEW m \in sent, HandleDatagram(m), Run(m), Owned,
         NEW k \in m.call + 1 .. calls, runs[k] = 1
  PROVE  dest' = dest /\ (transfer # None => transfer' = transfer)
<1>1. NoHarm
  BY HandleFacts
<1>2. runs[m.call] = 0
  BY HandleRuns DEF Sound, Late
<1>3. Harmless(m)
  BY <1>1, <1>2 DEF NoHarm
<1>4. ~Dead(m.call)
  BY RunEffect, DeadIsRefused DEF Sound, Late
<1>5. m.req.op \in {"keys", "begin"}
  BY <1>3, <1>4 DEF Harmless
<1>6. PICK d : Effect(m.req, d) /\ transfer' = d.transfer /\ dest' = d.dest
  BY RunEffect DEF RunFacts, Sound
<1>7. CASE m.req.op = "keys"
  BY <1>6, <1>7 DEF Effect
<1>8. CASE m.req.op = "begin"
  BY <1>6, <1>8 DEF Effect, Untouched
<1> QED BY <1>5, <1>7, <1>8

\* So a transfer of the bridge is not touched by what was overtaken.
LEMMA HeldStays ==
  ASSUME Sound, Late, NEW m \in sent, HandleDatagram(m), Owned,
         NEW k \in 1 .. calls, runs[k] = 1, \A n \in k + 1 .. calls : runs'[n] = 0
  PROVE  dest' = dest /\ (transfer # None => transfer' = transfer)
<1>1. m.call \in 1 .. calls /\ calls \in Nat
  BY HandleFacts
<1>2. CASE ~Run(m)
  BY <1>2, HandleRuns DEF Sound, Late
<1>3. CASE Run(m)
  <2>1. runs[m.call] = 0 /\ runs'[m.call] = 1
    BY <1>3, HandleRuns DEF Sound, Late
  <2>2. m.call # k /\ ~(m.call \in k + 1 .. calls)
    BY <2>1
  <2>3. k \in m.call + 1 .. calls
    BY ONLY <1>1, <2>2, k \in 1 .. calls
  <2> QED BY <1>3, <2>3, StaleRun
<1> QED BY <1>2, <1>3

\* A datagram keeps Driven.
LEMMA DrivenHandle ==
  ASSUME Sound, Late, NEW m \in sent, HandleDatagram(m)
  PROVE  Driven'
<1>1. /\ Driven /\ UNCHANGED <<calls, request, known>> /\ calls \in 1 .. MaxCalls /\ calls \in Nat
      /\ \A n \in 1 .. calls : n \in 1 .. MaxCalls /\ (runs[n] = 0 \/ runs[n] = 1)
  BY HandleFacts
<1>2. \A n \in 1 .. MaxCalls : (runs[n] = 1 => runs'[n] = 1) /\ (runs'[n] = 0 => runs[n] = 0)
  BY HandleRuns DEF Sound, Late
<1> SUFFICES ASSUME Drives PROVE Driven'
  BY <1>1 DEF Driven, Drives
<1>3. Owned
  BY DEF Drives, Owned
<1>4. transfer' = transfer => (Matches(known) => Matches(known)')
  BY <1>1 DEF Matches
<1>5. CASE request = None
  <2>1. runs[calls] = 1 /\ Matches(known)
    BY <1>1, <1>5 DEF Driven
  <2>2. calls \in 1 .. calls /\ \A n \in calls + 1 .. calls : runs'[n] = 0
    BY <1>1
  <2>3. transfer' = transfer
    BY <1>3, <2>1, <2>2, HeldStays DEF Matches
  <2>4. runs'[calls] = 1
    BY <1>1, <1>2, <2>1
  <2> QED BY <1>1, <1>4, <1>5, <2>1, <2>3, <2>4 DEF Driven
<1>6. CASE request # None
  <2>1. calls >= 2 /\ runs[calls - 1] = 1 /\ (runs[calls] = 0 => Matches(known))
    BY <1>1, <1>6 DEF Driven
  <2>2. calls - 1 \in 1 .. calls /\ \A n \in (calls - 1) + 1 .. calls : n = calls
    BY <1>1, <2>1
  <2>3. runs'[calls - 1] = 1
    BY <1>1, <1>2, <2>1, <2>2
  <2>4. ASSUME runs'[calls] = 0 PROVE Matches(known)'
    <3>1. runs[calls] = 0 /\ Matches(known)
      BY <1>1, <1>2, <2>1, <2>4
    <3>2. transfer' = transfer
      BY <1>3, <2>1, <2>2, <2>4, <3>1, HeldStays DEF Matches
    <3> QED BY <1>4, <3>1, <3>2
  <2> QED BY <1>1, <1>6, <2>1, <2>3, <2>4 DEF Driven
<1> QED BY <1>5, <1>6

\* A datagram keeps Acknowledged.
LEMMA AcknowledgedHandle ==
  ASSUME Sound, Late, NEW m \in sent, HandleDatagram(m)
  PROVE  Acknowledged'
<1>1. /\ Sync /\ Driven /\ Acknowledged /\ UNCHANGED <<calls, request, known>>
      /\ calls \in 1 .. MaxCalls /\ calls \in Nat
      /\ \A n \in 1 .. calls : n \in 1 .. MaxCalls /\ (runs[n] = 0 \/ runs[n] = 1)
  BY HandleFacts
<1> SUFFICES ASSUME request # None, runs'[calls] = 1, reply'.ok = TRUE
             PROVE  /\ request.op = "begin" => Matches(request)'
                    /\ request.op = "block" => Matches(known)'
                    /\ request.op = "finish" /\ request.kind = "write" => dest' = known.data
  BY <1>1 DEF Acknowledged
<1>a. Base
  BY DEF Sound
<1>2. request \in Requests /\ KindInv /\ (m.call = calls => m.req = request)
  BY <1>a DEF Base, BridgeInv
<1>3. /\ known = None => request.op \in {"keys", "begin"}
      /\ known # None => request.op \in {"abort", "block", "finish"} /\ request.kind = known.kind
      /\ known # None /\ known.failed = TRUE => request.op = "abort"
      /\ known # None => known.failed \in BOOLEAN
  <2>1. WellKnown(known)
    BY <1>2 DEF KindInv
  <2>2. known # None => known.failed \in BOOLEAN
    BY <2>1 DEF WellKnown, Known
  <2> QED BY <1>2, <2>1, <2>2, RequestsTyped
<1>4. ASSUME runs[calls] = 1, reply' = reply, dest' = dest,
             Owned /\ transfer # None => transfer' = transfer
      PROVE  /\ request.op = "begin" => Matches(request)'
             /\ request.op = "block" => Matches(known)'
             /\ request.op = "finish" /\ request.kind = "write" => dest' = known.data
  <2>1. /\ request.op = "begin" => Matches(request)
        /\ request.op = "block" => Matches(known)
        /\ request.op = "finish" /\ request.kind = "write" => dest = known.data
    BY <1>1, <1>4 DEF Acknowledged
  <2>2. request.op = "begin" => Owned
    BY <1>4 DEF Owned, BeginAnswered
  <2>3. request.op = "block" => Owned
    BY <1>3 DEF Owned
  <2>4. request.op = "begin" => Matches(request)'
    BY <1>1, <1>4, <2>1, <2>2 DEF Matches
  <2>5. request.op = "block" => Matches(known)'
    BY <1>1, <1>4, <2>1, <2>3 DEF Matches
  <2> QED BY <1>4, <2>1, <2>4, <2>5
<1>5. CASE m.call # calls
  <2>1. reply' = reply
    BY <1>a, <1>5, OtherReply
  <2>2. runs[calls] = 1
    BY <1>1, <1>5, HandleRuns DEF Sound, Late
  <2>3. \A n \in calls + 1 .. calls : runs'[n] = 0
    BY <1>1
  <2>4. calls \in 1 .. calls
    BY <1>1
  <2>5. Owned => dest' = dest /\ (transfer # None => transfer' = transfer)
    BY <2>2, <2>3, <2>4, HeldStays
  <2>6. request.op \in {"begin", "block", "finish"} => Owned
    BY <1>3, <2>1, <2>2 DEF Owned, BeginAnswered
  <2> QED BY <1>4, <2>1, <2>2, <2>5, <2>6
<1>6. CASE m.call = calls
  <2>1. CASE runs[calls] = 0 /\ Collect(m)
    BY <1>a, <2>1, CollectEffect
  <2>2. CASE runs[calls] = 1 /\ Resend(m)
    <3>1. reply' = reply
      BY <1>1, <1>6, <2>2, SameReply DEF Sound
    <3>2. UNCHANGED <<transfer, dest>>
      BY <1>a, <2>2, ResendEffect
    <3> QED BY <1>4, <2>2, <3>1, <3>2
  <2>3. CASE runs[calls] = 0 /\ Run(m)
    <3>1. PICK d : /\ Effect(request, d) /\ transfer' = d.transfer /\ dest' = d.dest
                   /\ Responds(m, d.answer)
      BY <1>2, <1>6, <1>a, <2>3, RunEffect DEF RunFacts
    <3>2. d.answer.ok = TRUE
      BY <1>6, <3>1 DEF Responds, Answer
    <3>3. request.op \in {"block", "finish"} => known # None /\ Drives /\ Matches(known)
      BY <1>1, <1>3, <2>3 DEF Drives, Driven
    <3>4. CASE request.op = "begin"
      BY <1>1, <3>1, <3>2, <3>4 DEF Effect, Untouched, Matches
    <3>5. CASE request.op = "block"
      BY <1>1, <3>1, <3>2, <3>3, <3>5 DEF Effect, Untouched, Matches
    <3>6. CASE request.op = "finish"
      BY <1>1, <1>3, <3>1, <3>2, <3>3, <3>6 DEF Effect, Untouched, Matches
    <3> QED BY <3>4, <3>5, <3>6
  <2> QED BY <1>6, <2>1, <2>2, <2>3, CurrentCall DEF Sound, Late
<1> QED BY <1>5, <1>6

\* A datagram keeps Failing.
LEMMA FailingHandle ==
  ASSUME Sound, Late, NEW m \in sent, HandleDatagram(m)
  PROVE  Failing'
<1>1. /\ Failing /\ UNCHANGED <<calls, request, known>> /\ calls \in 1 .. MaxCalls /\ calls \in Nat
      /\ \A n \in 1 .. calls : n \in 1 .. MaxCalls /\ (runs[n] = 0 \/ runs[n] = 1)
  BY HandleFacts
<1>2. \A n \in 1 .. MaxCalls : (runs[n] = 1 => runs'[n] = 1) /\ (runs'[n] = 0 => runs[n] = 0)
  BY HandleRuns DEF Sound, Late
<1> SUFFICES ASSUME known # None, known.failed = TRUE, request = None
             PROVE  calls >= 2 /\ runs'[calls - 1] = 1 /\ (runs'[calls] = 0 => transfer' # None)
  BY <1>1 DEF Failing
<1>3. calls >= 2 /\ runs[calls - 1] = 1 /\ (runs[calls] = 0 => transfer # None)
  BY <1>1 DEF Failing
<1>4. calls - 1 \in 1 .. calls /\ \A n \in (calls - 1) + 1 .. calls : n = calls
  BY <1>1, <1>3
<1>5. runs'[calls - 1] = 1
  BY <1>1, <1>2, <1>3, <1>4
<1>6. ASSUME runs'[calls] = 0 PROVE transfer' # None
  <2>1. transfer # None /\ Owned
    BY <1>1, <1>2, <1>3, <1>6 DEF Owned
  <2>2. \A n \in (calls - 1) + 1 .. calls : runs'[n] = 0
    BY <1>4, <1>6
  <2> QED BY <1>3, <1>4, <2>1, <2>2, HeldStays
<1> QED BY <1>3, <1>5, <1>6

\* A datagram keeps Aborting: what is not carried out by the step is not alive.
LEMMA AbortingHandle ==
  ASSUME Sound, Late, NEW m \in sent, HandleDatagram(m)
  PROVE  Aborting'
<1>1. /\ Aborting /\ UNCHANGED <<calls, sent>> /\ calls \in 1 .. MaxCalls /\ calls \in Nat
      /\ \A n \in 1 .. calls : n \in 1 .. MaxCalls /\ (runs[n] = 0 \/ runs[n] = 1)
      /\ m.call \in 1 .. calls /\ calls - 2 <= m.call /\ m.call \in Nat
  BY HandleFacts
<1>2. \A n \in 1 .. MaxCalls : (runs[n] = 1 => runs'[n] = 1) /\ (runs'[n] = 0 => runs[n] = 0)
  BY HandleRuns DEF Sound, Late
<1>3. ASSUME runs'[calls] = 0, calls >= 2 /\ runs'[calls - 1] = 0,
             calls >= 3 => runs[calls - 2] = 1 \/ runs'[calls - 2] = 0
      PROVE  transfer' = transfer
  <2>1. CASE ~Run(m)
    BY <2>1, HandleRuns DEF Sound, Late
  <2>2. CASE Run(m)
    <3>1. runs[m.call] = 0 /\ runs'[m.call] = 1
      BY <2>2, HandleRuns DEF Sound, Late
    <3>2. m.call = calls \/ m.call = calls - 1 \/ (calls >= 3 /\ m.call = calls - 2)
      BY <1>1
    <3> QED BY <1>3, <3>1, <3>2
  <2> QED BY <2>1, <2>2
<1> SUFFICES ASSUME NEW o \in sent, o.req.op = "abort", runs'[calls] = 0
             PROVE  /\ o.call = calls =>
                         calls >= 2 /\ (runs'[calls - 1] = 0 =>
                           calls >= 3 /\ runs'[calls - 2] = 1 /\ transfer' # None)
                    /\ o.call = calls - 1 /\ runs'[calls - 1] = 0 =>
                         calls >= 3 /\ (runs'[calls - 2] = 0 => transfer' # None)
  BY <1>1 DEF Aborting
<1>4. runs[calls] = 0
  BY <1>1, <1>2
<1>5. /\ calls >= 2 => calls - 1 \in 1 .. calls
      /\ calls >= 3 => calls - 2 \in 1 .. calls
  BY <1>1
<1>6. /\ o.call = calls =>
           calls >= 2 /\ (runs[calls - 1] = 0 => calls >= 3 /\ runs[calls - 2] = 1 /\ transfer # None)
      /\ o.call = calls - 1 /\ runs[calls - 1] = 0 =>
           calls >= 3 /\ (runs[calls - 2] = 0 => transfer # None)
  BY <1>1, <1>4 DEF Aborting
<1>7. ASSUME o.call = calls
      PROVE  calls >= 2 /\ (runs'[calls - 1] = 0 =>
               calls >= 3 /\ runs'[calls - 2] = 1 /\ transfer' # None)
  <2>1. calls >= 2
    BY <1>6, <1>7
  <2>2. ASSUME runs'[calls - 1] = 0
        PROVE  calls >= 3 /\ runs'[calls - 2] = 1 /\ transfer' # None
    <3>1. runs[calls - 1] = 0
      BY <1>1, <1>2, <1>5, <2>1, <2>2
    <3>2. calls >= 3 /\ runs[calls - 2] = 1 /\ transfer # None
      BY <1>6, <1>7, <3>1
    <3>3. runs'[calls - 2] = 1
      BY <1>1, <1>2, <1>5, <3>2
    <3> QED BY <1>3, <2>1, <2>2, <3>2, <3>3
  <2> QED BY <2>1, <2>2
<1>8. ASSUME o.call = calls - 1, runs'[calls - 1] = 0
      PROVE  calls >= 3 /\ (runs'[calls - 2] = 0 => transfer' # None)
  <2>1. calls >= 2
    BY <1>1, <1>8, SentFacts DEF Sound
  <2>2. runs[calls - 1] = 0
    BY <1>1, <1>2, <1>5, <1>8, <2>1
  <2>3. calls >= 3 /\ (runs[calls - 2] = 0 => transfer # None)
    BY <1>6, <1>8, <2>2
  <2>4. ASSUME runs'[calls - 2] = 0 PROVE transfer' # None
    <3>1. runs[calls - 2] = 0
      BY <1>1, <1>2, <1>5, <2>3, <2>4
    <3> QED BY <1>3, <1>8, <2>1, <2>3, <2>4, <3>1
  <2> QED BY <2>3, <2>4
<1> QED BY <1>7, <1>8

\* A datagram keeps Unfinished.
LEMMA UnfinishedHandle ==
  ASSUME Sound, Late, NEW m \in sent, HandleDatagram(m)
  PROVE  Unfinished'
<1>1. Unfinished /\ UNCHANGED <<calls, request, known, sent>>
  BY HandleFacts
<1>2. \A n \in 1 .. MaxCalls : (runs[n] = 1 => runs'[n] = 1) /\ (runs'[n] = 0 => runs[n] = 0)
  BY HandleRuns DEF Sound, Late
<1>3. \A o \in sent : o.call \in 1 .. MaxCalls
  BY SentFacts DEF Sound
<1> QED BY <1>1, <1>2, <1>3 DEF Unfinished

\* A call that is overtaken is dead when those before it are carried out.
LEMMA Overtaken ==
  ASSUME Sound, Late, NEW m \in sent, HandleDatagram(m), Run(m),
         NEW n \in 1 .. calls, n < m.call, n = calls - 1 /\ calls >= 3 => runs[calls - 2] = 1
  PROVE  Dead(n)'
<1>1. /\ UNCHANGED <<joined, session, calls>> /\ Sync /\ calls \in Nat /\ m.call \in 1 .. calls
      /\ calls \in 1 .. MaxCalls /\ m.call \in Nat
      /\ \A i \in 1 .. calls : i \in 1 .. MaxCalls
  BY HandleFacts
<1>2. OnceInv'
  BY OnceHandle DEF Sound, Late
<1>3. Sync' /\ n \in Nat /\ Lateness \in Nat /\ Lateness <= 2
  BY <1>1, SimulatorAssumption DEF Sync, Late, Prompt
<1>4. last' = IdOf(m.call)
  BY RunEffect, SentFacts DEF RunFacts, Responds, Sound
<1>5. ASSUME NEW i \in 1 .. n - 1, Alive(i)' PROVE Kept(i)'
  <2>1. i \in 1 .. calls' /\ i + Lateness >= calls
    BY <1>1, <1>3, <1>5 DEF Alive
  <2>2. i = calls - 2 /\ n = calls - 1 /\ calls >= 3
    BY ONLY <1>1, <1>3, <2>1, n < m.call, i \in 1 .. n - 1
  <2>3. runs[i] = 1
    BY <2>2
  <2>4. i \in 1 .. MaxCalls
    BY <1>1, <2>1
  <2>5. runs'[i] = 1
    BY <2>3, <2>4, HandleRuns DEF Sound, Late
  <2> QED BY <1>2, <1>3, <1>5, <2>1, <2>5 DEF OnceInv
<1>6. m.call \in n .. calls'
  BY <1>1, <1>3
<1> QED BY <1>4, <1>5, <1>6 DEF Dead

\* The call before the last one and the one before that are not both pending when
\* the last one is carried out for a bridge with a transfer, or else the call before
\* the last one does not touch it.
LEMMA NoGap ==
  ASSUME Sound, Late, NEW m \in sent, HandleDatagram(m), Run(m), m.call = calls, Owned',
         NEW o \in sent, o.call = calls - 1, calls >= 3, runs[calls - 1] = 0
  PROVE  o.req.op \in {"keys", "begin"} \/ runs[calls - 2] = 1
<1>1. /\ Driven /\ Failing /\ Aborting /\ Unfinished
      /\ UNCHANGED <<calls, request, known>> /\ calls \in Nat
      /\ \A n \in 1 .. calls : n \in 1 .. MaxCalls /\ (runs[n] = 0 \/ runs[n] = 1)
  BY HandleFacts
<1>2. runs[calls] = 0
  BY HandleRuns DEF Sound, Late
<1>3. CASE known # None
  <2>1. known.failed \in BOOLEAN
    BY <1>3 DEF Sound, Base, TypeOK, Known
  <2>2. ~Drives
    BY <1>1, <1>2 DEF Driven
  <2>3. known.failed = TRUE
    BY <1>3, <2>1, <2>2 DEF Drives
  <2>4. request # None
    BY <1>1, <1>3, <2>3 DEF Failing
  <2>5. request.op = "abort" /\ m.req = request
    <3>1. WellKnown(known) /\ request \in Requests /\ m.req = request
      BY <2>4 DEF Sound, Base, KindInv, BridgeInv
    <3> QED BY <1>3, <2>3, <3>1, RequestsTyped
  <2> QED BY <1>1, <1>2, <2>5 DEF Aborting
<1>4. CASE known = None
  <2>1. request # None /\ request.op = "begin" /\ reply'.ok = TRUE
    BY <1>1, <1>4 DEF Owned, BeginAnswered
  <2>2. m.req = request
    BY <2>1 DEF Sound, Base, BridgeInv
  <2>3. PICK d : Effect(m.req, d) /\ transfer' = d.transfer /\ Responds(m, d.answer)
    BY RunEffect DEF RunFacts, Sound
  <2>4. d.answer.ok = TRUE
    BY <2>1, <2>3 DEF Responds, Answer
  <2>5. transfer = None
    BY <2>1, <2>2, <2>3, <2>4 DEF Effect, Untouched
  <2>6. o.req \in Request
    BY SentFacts DEF Sound
  <2>7. o.req.op \in {"keys", "begin", "block", "abort", "finish"}
    BY <2>6 DEF Request
  <2>8. ~(o.req.op \in {"block", "finish"})
    BY <1>1, <2>1 DEF Unfinished
  <2>9. o.req.op = "abort" => runs[calls - 2] # 0
    BY <1>1, <1>2, <2>5 DEF Aborting
  <2>10. calls - 2 \in 1 .. calls
    BY <1>1
  <2> QED BY <1>1, <2>7, <2>8, <2>9, <2>10
<1> QED BY <1>3, <1>4

\* A datagram keeps NoHarm.
LEMMA NoHarmHandle ==
  ASSUME Sound, Late, NEW m \in sent, HandleDatagram(m)
  PROVE  NoHarm'
<1>1. /\ NoHarm /\ UNCHANGED <<calls, request, known, sent>> /\ calls \in Nat /\ Sync
      /\ calls \in 1 .. MaxCalls
      /\ \A n \in 1 .. calls : n \in 1 .. MaxCalls /\ (runs[n] = 0 \/ runs[n] = 1)
      /\ m.call \in 1 .. calls /\ m.call \in Nat
  BY HandleFacts
<1> SUFFICES ASSUME Owned', NEW o \in sent, NEW k \in o.call + 1 .. calls,
                    runs'[o.call] = 0, runs'[k] = 1
             PROVE  o.req.op \in {"keys", "begin"} \/ Dead(o.call)'
  BY <1>1 DEF NoHarm, Harmless, Dead
<1>2. o.call \in 1 .. calls /\ o.call \in Nat /\ Alive(o.call) /\ o.call \in 1 .. MaxCalls
      /\ k \in 1 .. calls
  BY <1>1, SentFacts DEF Sound
<1>3. runs[o.call] = 0
  BY <1>2, HandleRuns DEF Sound, Late
<1>4. CASE Owned /\ runs[k] = 1
  <2>1. Harmless(o)
    BY <1>1, <1>3, <1>4 DEF NoHarm
  <2> QED BY <1>2, <2>1, DeadHandle DEF Harmless, Sound, Late
<1>5. CASE ~(Owned /\ runs[k] = 1)
  <2>1. Run(m) /\ o.call < m.call
    <3>1. CASE runs[k] # 1
      <4>1. k \in 1 .. MaxCalls
        BY <1>1, <1>2
      <4>2. Run(m) /\ m.call = k
        BY <3>1, <4>1, HandleRuns DEF Sound, Late
      <4> QED BY <1>1, <1>2, <4>2
    <3>2. CASE ~Owned
      <4>1. known = None /\ request # None /\ request.op = "begin" /\ runs'[calls] = 1
            /\ reply'.ok = TRUE
        BY <1>1, <3>2 DEF Owned, BeginAnswered
      <4>2. runs[calls] = 1 => reply' # reply
        BY <3>2, <4>1 DEF Owned, BeginAnswered
      <4>3. CASE runs[calls] = 1
        <5>1. m.call = calls
          BY <4>2, <4>3, OtherReply DEF Sound
        <5>2. Resend(m)
          BY <4>3, <5>1, CurrentCall DEF Sound, Late
        <5> QED BY <1>1, <4>1, <4>2, <4>3, <5>1, <5>2, SameReply DEF Sound
      <4>4. CASE runs[calls] # 1
        <5>1. Run(m) /\ m.call = calls
          BY <1>1, <4>1, <4>4, HandleRuns DEF Sound, Late
        <5> QED BY <1>1, <1>2, <5>1
      <4> QED BY <4>3, <4>4
    <3> QED BY <1>5, <3>1, <3>2
  <2>2. CASE o.call = calls - 1 /\ calls >= 3
    <3>1. m.call = calls
      BY <1>1, <1>2, <2>1, <2>2
    <3>2. o.req.op \in {"keys", "begin"} \/ runs[calls - 2] = 1
      BY <1>3, <2>1, <2>2, <3>1, NoGap
    <3> QED BY <1>2, <2>1, <3>2, Overtaken
  <2>3. CASE ~(o.call = calls - 1 /\ calls >= 3)
    BY <1>2, <2>1, <2>3, Overtaken
  <2> QED BY <2>2, <2>3
<1> QED BY <1>4, <1>5

\* A call that starts keeps the sixth invariant.
LEMMA CommitStartCall ==
  ASSUME Sound, NEW req \in Requests, StartCall(req)
  PROVE  CommitInv'
<1>a. Base
  BY DEF Sound
<1>1. /\ request = None /\ request' = req /\ calls' = calls + 1 /\ calls' \in 1 .. MaxCalls
      /\ \A m \in sent' : \/ m \in sent /\ m.call # calls + 1
                          \/ m.call = calls + 1 /\ m.req = req
      /\ UNCHANGED <<joined, known, session, last, cache, transfer, dest, runs>>
  BY <1>a, StartCallFacts
<1> SUFFICES ASSUME Sync PROVE CommitInv'
  BY <1>1 DEF CommitInv, Sync
<1>2. NoHarm /\ Driven /\ Acknowledged /\ Failing /\ Aborting /\ Unfinished
  BY DEF Sound, CommitInv
<1>3. calls \in 0 .. MaxCalls /\ calls \in Nat /\ calls + 1 \in 1 .. MaxCalls /\ runs[calls + 1] = 0
  <2>1. calls \in 0 .. MaxCalls /\ calls \in Nat
    BY SimulatorAssumption DEF Sound, Base, TypeOK
  <2> QED BY <1>1, <2>1 DEF Sound, OnceInv
<1>4. runs'[calls'] = 0 /\ calls' - 1 = calls /\ calls' - 2 = calls - 1
  BY <1>1, <1>3
<1>5. /\ known = None => req.op \in {"keys", "begin"}
      /\ known # None => req.op \in {"abort", "block", "finish"}
      /\ known # None => known.failed \in BOOLEAN
  <2>1. WellKnown(known)
    BY <1>a DEF Base, KindInv
  <2>2. known # None => known.failed \in BOOLEAN
    BY <2>1 DEF WellKnown, Known
  <2> QED BY <2>1, <2>2, RequestsTyped
<1>6. NoHarm'
  <2> SUFFICES ASSUME Owned', NEW o \in sent', NEW k \in o.call + 1 .. calls',
                      runs'[o.call] = 0, runs'[k] = 1
               PROVE  o.req.op \in {"keys", "begin"} \/ Dead(o.call)'
    BY DEF NoHarm, Harmless, Dead
  <2>1. Base'
    BY <1>a, BaseStartCall
  <2>2. Alive(o.call)' /\ o.call \in 1 .. calls + 1
    BY <1>1, <2>1 DEF Base, BridgeInv, Alive
  <2>3. Owned
    BY <1>1, <1>4 DEF Owned, BeginAnswered
  <2>4. k # calls + 1
    BY <1>1, <1>3
  <2>5. k \in o.call + 1 .. calls /\ o.call \in 1 .. calls
    BY <1>1, <1>3, <2>2, <2>4
  <2>6. o \in sent
    BY <1>1, <1>3, <2>5
  <2>7. Harmless(o)
    BY <1>1, <1>2, <2>3, <2>5, <2>6 DEF NoHarm
  <2> QED BY <1>a, <2>2, <2>5, <2>7, DeadStartCall DEF Harmless
<1>7. Driven'
  <2> SUFFICES ASSUME Drives PROVE Driven'
    BY <1>1 DEF Driven, Drives
  <2>1. calls >= 1 /\ runs[calls] = 1 /\ Matches(known)
    BY <1>1, <1>2 DEF Driven
  <2>2. Matches(known)'
    BY <1>1, <2>1 DEF Matches
  <2>3. calls' >= 2
    BY <1>1, <1>3, <2>1
  <2>4. request' # None
    BY <1>1, <1>a, StartCallFacts, ValuesAssumption
  <2> QED BY <1>1, <1>4, <2>1, <2>2, <2>3, <2>4 DEF Driven
<1>8. Acknowledged'
  BY <1>4 DEF Acknowledged
<1>9. request' # None
  BY <1>1, <1>a, StartCallFacts, ValuesAssumption
<1>10. Failing'
  BY <1>9 DEF Failing
<1>11. Aborting'
  <2> SUFFICES ASSUME NEW o \in sent', o.req.op = "abort"
               PROVE  /\ o.call = calls' =>
                           calls' >= 2 /\ (runs[calls] = 0 =>
                             calls' >= 3 /\ runs[calls - 1] = 1 /\ transfer # None)
                      /\ o.call = calls /\ runs[calls] = 0 =>
                           calls' >= 3 /\ (runs[calls - 1] = 0 => transfer # None)
    BY <1>1, <1>4 DEF Aborting
  <2>1. ASSUME o.call = calls'
        PROVE  calls' >= 2 /\ (runs[calls] = 0 => calls' >= 3 /\ runs[calls - 1] = 1 /\ transfer # None)
    <3>1. known # None
      BY <1>1, <1>5, <2>1
    <3>2. CASE Drives
      <4>1. calls >= 1 /\ runs[calls] = 1
        BY <1>1, <1>2, <3>2 DEF Driven
      <4> QED BY <1>1, <1>3, <4>1
    <3>3. CASE known.failed = TRUE
      <4>1. calls >= 2 /\ runs[calls - 1] = 1 /\ (runs[calls] = 0 => transfer # None)
        BY <1>1, <1>2, <3>1, <3>3 DEF Failing
      <4> QED BY <1>1, <1>3, <4>1
    <3> QED BY <1>5, <3>1, <3>2, <3>3 DEF Drives
  <2>2. ASSUME o.call = calls, runs[calls] = 0
        PROVE  calls' >= 3 /\ (runs[calls - 1] = 0 => transfer # None)
    <3>1. o \in sent
      BY <1>1, <1>3, <2>2
    <3>2. calls >= 2 /\ (runs[calls - 1] = 0 => transfer # None)
      BY <1>2, <2>2, <3>1 DEF Aborting
    <3> QED BY <1>1, <1>3, <3>2
  <2> QED BY <2>1, <2>2
<1>12. Unfinished'
  <2> SUFFICES ASSUME NEW o \in sent', o.req.op \in {"block", "finish"}, runs[o.call] = 0,
                      o.call = calls, req.op \in {"keys", "begin"}
               PROVE  FALSE
    BY <1>1, <1>4, <1>9 DEF Unfinished
  <2>1. o \in sent
    BY <1>1, <1>3
  <2>2. known = None
    BY <1>5
  <2> QED BY <1>1, <1>2, <2>1, <2>2 DEF Unfinished
<1> QED BY <1>6, <1>7, <1>8, <1>10, <1>11, <1>12 DEF CommitInv

\* The end of a call keeps it.
LEMMA CommitEndOfCall ==
  ASSUME Sound, NEW answer, EndOfCall(answer), answer = Error \/ (answer = reply /\ reply # None)
  PROVE  CommitInv'
<1>a. Base
  BY DEF Sound
<1>1. /\ request # None /\ answer \in Reply /\ known' = After(answer) /\ request' = None
      /\ UNCHANGED <<joined, calls, sent, session, last, cache, transfer, dest, runs>>
  BY DEF EndOfCall
<1> SUFFICES ASSUME Sync PROVE CommitInv'
  BY <1>1 DEF CommitInv, Sync
<1>2. NoHarm /\ Driven /\ Acknowledged /\ Failing /\ Aborting /\ Unfinished
  BY DEF Sound, CommitInv
<1>3. request \in Requests /\ KindInv /\ calls >= 1 /\ calls \in 1 .. MaxCalls /\ calls \in Nat
      /\ runs[calls] \in Nat /\ runs[calls] <= 1
  <2>1. request \in Requests /\ KindInv /\ calls >= 1
    BY <1>1, <1>a DEF Base, BridgeInv
  <2>2. calls \in 0 .. MaxCalls /\ runs \in [1 .. MaxCalls -> Nat]
    BY <1>a DEF Base, TypeOK
  <2>3. calls \in 1 .. MaxCalls /\ calls \in Nat
    BY <2>1, <2>2, SimulatorAssumption
  <2> QED BY <2>1, <2>2, <2>3 DEF Sound, OnceInv
<1>4. /\ request.op \in {"keys", "begin", "abort", "block", "finish"}
      /\ known = None => request.op \in {"keys", "begin"}
      /\ known # None => known.failed \in BOOLEAN
      /\ known # None /\ known.failed = TRUE => request.op = "abort"
      /\ answer.ok \in BOOLEAN
  <2>1. WellKnown(known)
    BY <1>3 DEF KindInv
  <2>2. known # None => known.failed \in BOOLEAN
    BY <2>1 DEF WellKnown, Known
  <2>3. request \in Request
    BY <1>3, <2>1, RequestsTyped
  <2>4. request.op \in {"keys", "begin", "abort", "block", "finish"}
    BY <2>3 DEF Request
  <2>5. answer.ok \in BOOLEAN
    BY <1>1 DEF Reply
  <2> QED BY <1>3, <2>1, <2>2, <2>4, <2>5, RequestsTyped
<1>5. answer.ok = TRUE => answer = reply /\ runs[calls] = 1 /\ reply.ok = TRUE
  <2>1. Error.ok = FALSE
    BY DEF Error
  <2>2. reply # None => runs[calls] # 0
    BY <1>3 DEF Sound, AnswerInv
  <2> QED BY <1>3, <2>1, <2>2
<1>6. request.op \in {"block", "finish"} => Drives
  BY <1>4 DEF Drives
<1>7. NoHarm'
  <2>1. Owned' => Owned
    <3>1. CASE known # None
      BY <3>1 DEF Owned
    <3>2. CASE known = None /\ known' # None
      <4>1. request.op = "begin" /\ answer.ok = TRUE
        BY <1>1, <1>3, <1>4, <3>2, AfterFacts
      <4> QED BY <1>1, <1>5, <4>1 DEF Owned, BeginAnswered
    <3>3. CASE known' = None
      BY <1>1, <3>3 DEF Owned, BeginAnswered
    <3> QED BY <3>1, <3>2, <3>3
  <2>2. \A n : Alive(n)' <=> Alive(n)
    BY <1>1 DEF Alive
  <2>3. \A n : Dead(n)' <=> Dead(n)
    BY <1>1, <2>2, KeptUnchanged DEF Dead
  <2> QED BY <1>1, <1>2, <2>1, <2>3 DEF NoHarm, Harmless
<1>8. Driven'
  <2> SUFFICES ASSUME known' # None, known'.failed = FALSE
               PROVE  runs[calls] = 1 /\ Matches(known)'
    BY <1>1, <1>3 DEF Driven, Drives
  <2>1. request.op \in {"begin", "block"} /\ answer.ok = TRUE
    BY <1>1, <1>3, <1>4, AfterFacts
  <2>2. CASE request.op = "begin"
    <3>1. Matches(request)
      BY <1>1, <1>2, <1>5, <2>1, <2>2 DEF Acknowledged
    <3>2. known'.kind = request.kind /\ known'.data = request.data
      BY <1>1, <1>3, <2>1, <2>2, AfterFacts
    <3> QED BY <1>1, <1>5, <2>1, <3>1, <3>2 DEF Matches
  <2>3. CASE request.op = "block"
    <3>1. Matches(known)
      BY <1>1, <1>2, <1>5, <2>1, <2>3 DEF Acknowledged
    <3>2. known'.kind = known.kind /\ known'.data = known.data
      BY <1>1, <1>3, <2>1, <2>3, AfterFacts
    <3> QED BY <1>1, <1>5, <2>1, <3>1, <3>2 DEF Matches
  <2> QED BY <2>1, <2>2, <2>3
<1>9. Acknowledged'
  BY <1>1 DEF Acknowledged
<1>10. Failing'
  <2> SUFFICES ASSUME known' # None, known'.failed = TRUE
               PROVE  calls >= 2 /\ runs[calls - 1] = 1 /\ (runs[calls] = 0 => transfer # None)
    BY <1>1 DEF Failing
  <2>1. request.op \in {"block", "finish"}
    BY <1>1, <1>3, <1>4, AfterFacts
  <2> QED BY <1>1, <1>2, <1>6, <2>1 DEF Driven, Matches
<1>11. Aborting'
  BY <1>1, <1>2 DEF Aborting
<1>12. Unfinished'
  <2> SUFFICES ASSUME NEW o \in sent, o.req.op \in {"block", "finish"}, runs[o.call] = 0,
                      o.call = calls, known' = None
               PROVE  FALSE
    BY <1>1 DEF Unfinished
  <2>1. o.req = request
    BY <1>1, <1>a DEF Base, BridgeInv
  <2>2. answer.ok = TRUE
    BY <1>1, <1>3, <1>4, <2>1, AfterFacts
  <2> QED BY <1>5, <2>2
<1> QED BY <1>7, <1>8, <1>9, <1>10, <1>11, <1>12 DEF CommitInv

\* Every step keeps the sixth invariant.
LEMMA CommitNext ==
  ASSUME Sound, Late, [Next]_vars
  PROVE  CommitInv'
<1>a. Base
  BY DEF Sound
<1>1. ASSUME NEW m \in sent, HandleDatagram(m) PROVE CommitInv'
  BY <1>1, DrivenHandle, AcknowledgedHandle, FailingHandle, AbortingHandle, UnfinishedHandle,
     NoHarmHandle DEF CommitInv
<1>2. CASE NewSession
  <2>1. request' = None /\ known' = None /\ sent' = {}
    BY <1>2 DEF NewSession
  <2> QED BY <2>1 DEF CommitInv, NoHarm, Driven, Drives, Acknowledged, Failing, Aborting, Unfinished
<1>3. CASE LostSession
  BY <1>3, <1>a DEF LostSession, Sync, Base, BridgeInv, TypeOK, CommitInv
<1>4. CASE UNCHANGED vars
  <2> USE <1>4 DEF vars
  <2>1. Sync' <=> Sync
    BY DEF Sync
  <2>2. \A n : Alive(n)' <=> Alive(n)
    BY DEF Alive
  <2>3. \A n : Dead(n)' <=> Dead(n)
    BY <2>2, KeptUnchanged DEF Dead
  <2>4. NoHarm' <=> NoHarm
    BY <2>3 DEF NoHarm, Harmless, Owned, BeginAnswered
  <2>5. Driven' <=> Driven
    BY DEF Driven, Drives, Matches
  <2>6. Acknowledged' <=> Acknowledged
    BY DEF Acknowledged, Matches
  <2>7. (Failing' <=> Failing) /\ (Aborting' <=> Aborting) /\ (Unfinished' <=> Unfinished)
    BY DEF Failing, Aborting, Unfinished
  <2> QED BY <2>1, <2>4, <2>5, <2>6, <2>7 DEF Sound, CommitInv
<1> QED BY <1>a, <1>1, <1>2, <1>3, <1>4, CommitStartCall, CommitEndOfCall, Steps

\* The sixth invariant holds at the start.
LEMMA CommitInit == Init => CommitInv
BY DEF Init, CommitInv, NoHarm, Driven, Drives, Acknowledged, Failing, Aborting, Unfinished

\* It says what CommitIsStored says.
LEMMA CommitImplies ==
  ASSUME Sound
  PROVE  CommitIsStored
<1> SUFFICES ASSUME request # None, request.op = "finish", request.kind = "write", reply # None,
                    Sync, reply.ok
             PROVE  dest = known.data
  BY DEF CommitIsStored, Sync
<1>1. reply.ok = TRUE
  BY DEF Sound, Base, TypeOK, Reply
<1>2. calls >= 1 /\ calls \in 0 .. MaxCalls /\ runs \in [1 .. MaxCalls -> Nat]
  BY DEF Sound, Base, BridgeInv, TypeOK
<1>3. calls \in 1 .. MaxCalls
  BY <1>2, SimulatorAssumption
<1>4. runs[calls] = 1
  BY <1>2, <1>3 DEF Sound, AnswerInv, OnceInv
<1> QED BY <1>1, <1>4 DEF Sound, CommitInv, Acknowledged

\* When the commit of an upload is acknowledged, the destination has the content that
\* the bridge announced, for any contents, transfer ids and numbers of calls, when a
\* datagram comes at most two calls late, the lateness that the cache of four answers
\* covers (_commit_write_transfer, _start_transfer, handle_datagram).
THEOREM CommitIsStoredCorrect ==
  ASSUME CacheSize >= 2 * Lateness, Lateness < IdModulus \div 2,
         MaxCalls + 1 < IdModulus \div 2, Lateness <= 2
  PROVE  Spec => []CommitIsStored
<1>1. Timely /\ Ample /\ Late
  BY DEF Timely, Ample, Prompt, Late
<1>2. Init => Sound
  BY <1>1, AnswersNext, CommitInit DEF Answers, Sound
<1>3. Sound /\ [Next]_vars => Sound'
  BY <1>1, AnswersNext, CommitNext DEF Answers, Sound
<1>4. Sound => CommitIsStored
  BY CommitImplies
<1> QED BY <1>2, <1>3, <1>4, PTL DEF Spec

=============================================================================
