----------------------- MODULE TargetRegistryProofs -----------------------
(***************************************************************************)
(* The safety of TargetRegistry for any environments, any agents and any   *)
(* number of announcements that wait at a call.                            *)
(*                                                                         *)
(* RecordInv ties backends, records and sockets together: no two records   *)
(* have one backend, so that closing the backend of a machine that moved   *)
(* takes none from another.  HeardInv ties what was announced to what the  *)
(* records say or, while announcements wait, to the last of them.          *)
(***************************************************************************)
EXTENDS TargetRegistry, WellFoundedInduction, SequenceTheorems, TLAPS

Record == [known : BOOLEAN, address : Addresses \cup {Here, Invalid}, backend : 0 .. MaxSockets]
Socket == [id : 1 .. MaxSockets, address : Addresses \cup {Here}]
Ad == [selector : Agents, address : Addresses]

\* The records rs, the sockets ss and the number n of backends made fit together.
Fits(rs, ss, n) ==
  /\ rs \in [Selectors -> Record] /\ ss \subseteq Socket /\ n \in 0 .. MaxSockets
  /\ \A s \in Selectors :
       /\ rs[s].known => rs[s].address # Invalid
       /\ rs[s].backend # 0 =>
            /\ rs[s].known
            /\ rs[s].backend <= n
            /\ [id |-> rs[s].backend, address |-> rs[s].address] \in ss
            /\ \A t \in Selectors : rs[t].backend = rs[s].backend => t = s
  /\ \A b \in ss : \E s \in Selectors : rs[s].backend = b.id

RecordInv ==
  IF closed THEN sockets = {} /\ records \in [Selectors -> Record] /\ made \in 0 .. MaxSockets
  ELSE Fits(records, sockets, made)

\* The address of the last announcement of s that waits.
Latest(s) == inbox[Max(Waiting(s))].address

\* Where s was heard last, for a runtime that is open.
HeardInv ==
  ~ closed =>
    \A s \in Selectors :
      IF Waiting(s) = {} THEN heard[s] # Invalid => records[s].known /\ records[s].address = heard[s]
      ELSE Latest(s) = heard[s]

\* Before the configuration nothing is known.
StartInv ==
  /\ ~ configured =>
       /\ ~ declared.injected /\ ~ listening /\ inbox = << >>
       /\ records = [s \in Selectors |-> Unknown] /\ sockets = {} /\ made = 0
       /\ heard = [s \in Selectors |-> Invalid]
  /\ listening => Accepted /\ ~ declared.injected
  /\ ~ (Accepted /\ ~ declared.injected) => heard = [s \in Selectors |-> Invalid] /\ inbox = << >>

\* A record stands for a target a caller may know of, and the other way round if
\* the configuration came to its end.
KnownInv ==
  configured =>
    /\ \A s \in Selectors : records[s].known => s \in KnownTargets
    /\ ~ closed /\ (Accepted \/ declared.injected) =>
         \A s \in KnownTargets : records[s].known \/ heard[s] # Invalid

RegistryType ==
  /\ declared \in Environments
  /\ configured \in BOOLEAN /\ listening \in BOOLEAN /\ closed \in BOOLEAN
  /\ inbox \in Seq(Ad)
  /\ ads \in 0 .. MaxAds
  /\ heard \in [Selectors -> Addresses \cup {Invalid}]
  /\ last.target \in Targets
  /\ closed => ~ listening

RegistryInv == RegistryType /\ RecordInv /\ HeardInv /\ StartInv /\ KnownInv

----------------------------------------------------------------------------
(* Numbers and the last announcement.                                      *)

\* The relation < as a set of pairs.
Less == {p \in Nat \X Nat : p[1] < p[2]}

\* Every nonempty set of naturals has a least member.
LEMMA LeastNat ==
  ASSUME NEW T, T \subseteq Nat, T # {}
  PROVE  \E x \in T : \A y \in T : x <= y
<1>1. IsWellFoundedOn(OpToRel(<, Nat), Nat)
  BY NatLessThanWellFounded
<1>2. Less = OpToRel(<, Nat)
  BY Zenon DEF OpToRel, Less
<1>3. IsWellFoundedOn(Less, Nat)
  BY <1>1, <1>2
<1>4. \E x \in T : \A y \in T : ~ (<<y, x>> \in Less)
  BY <1>3, WFMin
<1>5. \A x, y \in Nat : ~ (<<y, x>> \in Less) => x <= y
  BY DEF Less
<1>6. QED
  BY <1>4, <1>5

\* Every nonempty set of places in a sequence has a last one.
LEMMA MaxIsLast ==
  ASSUME NEW n \in Nat, NEW S, S \subseteq 1 .. n, S # {}
  PROVE  Max(S) \in S /\ \A y \in S : y <= Max(S)
<1>. DEFINE T == {n - k : k \in S}
<1>1. \A k \in S : n - k \in Nat
  OBVIOUS
<1>2. T \subseteq Nat /\ T # {}
  BY <1>1, Zenon
<1>3. PICK x \in T : \A y \in T : x <= y
  BY <1>2, LeastNat
<1>4. PICK k \in S : x = n - k
  BY <1>3
<1>5. \A y \in S : k >= y
  <2>1. TAKE y \in S
  <2>2. n - y \in T
    OBVIOUS
  <2>3. n - k <= n - y
    BY <2>2, <1>3, <1>4
  <2>4. QED
    BY <2>3
<1>6. \E m \in S : \A y \in S : m >= y
  BY <1>5
<1>7. Max(S) \in S /\ \A y \in S : Max(S) >= y
  BY <1>6, Zenon DEF Max
<1>8. QED
  BY <1>7

\* The announcements of s that wait are places of the inbox; the last of them is one.
LEMMA LastAd ==
  ASSUME inbox \in Seq(Ad), NEW s, Waiting(s) # {}
  PROVE  /\ Max(Waiting(s)) \in Waiting(s)
         /\ \A k \in Waiting(s) : k <= Max(Waiting(s))
         /\ Max(Waiting(s)) \in 1 .. Len(inbox)
         /\ Latest(s) \in Addresses
         /\ s \in Agents
<1>1. Len(inbox) \in Nat /\ DOMAIN inbox = 1 .. Len(inbox)
  BY LenProperties
<1>2. Waiting(s) \subseteq 1 .. Len(inbox)
  BY <1>1 DEF Waiting
<1>3. Max(Waiting(s)) \in Waiting(s) /\ \A k \in Waiting(s) : k <= Max(Waiting(s))
  BY <1>1, <1>2, MaxIsLast
<1>4. inbox[Max(Waiting(s))] \in Ad /\ inbox[Max(Waiting(s))].selector = s
  BY <1>1, <1>3, ElementOfSeq DEF Waiting
<1>5. QED
  BY <1>2, <1>3, <1>4 DEF Ad, Latest

\* A new announcement is the last of its agent and changes nothing for the others.
LEMMA NewAd ==
  ASSUME inbox \in Seq(Ad), NEW a \in Agents, NEW x \in Addresses,
         inbox' = Append(inbox, [selector |-> a, address |-> x]), NEW s
  PROVE  /\ s = a => Waiting(s)' # {} /\ Latest(s)' = x
         /\ s # a => Waiting(s)' = Waiting(s)
         /\ s # a /\ Waiting(s) # {} =>
              Latest(s)' = Latest(s)
         /\ inbox' \in Seq(Ad)
<1>. DEFINE n == Len(inbox)
            ad == [selector |-> a, address |-> x]
<1>1. ad \in Ad
  BY DEF Ad
<1>2. /\ inbox' \in Seq(Ad) /\ Len(inbox') = n + 1 /\ n \in Nat
      /\ DOMAIN inbox' = 1 .. n + 1 /\ DOMAIN inbox = 1 .. n
      /\ \A k \in 1 .. n : inbox'[k] = inbox[k]
      /\ inbox'[n + 1] = ad
  BY <1>1, AppendProperties, LenProperties
<1>3. ASSUME s = a
      PROVE  Waiting(s)' # {} /\ Latest(s)' = x
  <2>1. n + 1 \in Waiting(s)'
    BY <1>2, <1>3 DEF Waiting
  <2>2. Waiting(s)' \subseteq 1 .. n + 1
    BY <1>2 DEF Waiting
  <2>3. n + 1 \in Nat
    BY <1>2
  <2>4. Max(Waiting(s)') \in Waiting(s)' /\ \A y \in Waiting(s)' : y <= Max(Waiting(s)')
    BY <2>1, <2>2, <2>3, MaxIsLast
  <2>5. Max(Waiting(s)') = n + 1
    BY <2>1, <2>2, <2>4, <1>2
  <2>6. QED
    BY <2>1, <2>5, <1>2 DEF Latest
<1>4. ASSUME s # a
      PROVE  Waiting(s)' = Waiting(s)
  <2>1. \A k \in 1 .. n + 1 : k \in 1 .. n \/ k = n + 1
    BY <1>2
  <2>2. 1 .. n \subseteq 1 .. n + 1
    BY <1>2
  <2>3. QED
    BY <2>1, <2>2, <1>2, <1>4 DEF Waiting
<1>5. ASSUME s # a, Waiting(s) # {}
      PROVE  Latest(s)' = Latest(s)
  <2>1. Max(Waiting(s)) \in 1 .. n
    BY <1>5, LastAd
  <2>2. QED
    BY <2>1, <1>2, <1>4, <1>5 DEF Latest
<1>6. QED
  BY <1>2, <1>3, <1>4, <1>5

----------------------------------------------------------------------------
(* The configuration.                                                      *)

\* The entries before the first one that is refused are valid.
LEMMA PrefixIsValid ==
  ASSUME declared \in Environments
  PROVE  /\ ValidPrefix \in 0 .. Len(declared.targets)
         /\ \A k \in 1 .. ValidPrefix : declared.targets[k].endpoint # Invalid
<1>. DEFINE n == Len(declared.targets)
            Bad(k) == declared.targets[k].endpoint = Invalid
            T == {k \in Nat : k < n /\ Bad(k + 1)}
            Good(m) == /\ \A k \in 1 .. m : declared.targets[k].endpoint # Invalid
                       /\ m < Len(declared.targets) =>
                            declared.targets[m + 1].endpoint = Invalid
<1>1. n \in Nat
  <2>1. declared \in Environment
    BY RegistryAssumption
  <2>2. declared.targets \in
          Seq([selector : Selectors, endpoint : Addresses \cup {Invalid}])
    BY <2>1 DEF Environment
  <2>3. QED
    BY <2>2, LenProperties
<1>2. \E m \in 0 .. n : Good(m)
  <2>1. CASE T = {}
    <3>1. \A k \in 1 .. n : ~ Bad(k)
      <4>1. SUFFICES ASSUME NEW k \in 1 .. n, Bad(k) PROVE FALSE
        OBVIOUS
      <4>2. k - 1 \in Nat /\ k - 1 < n /\ (k - 1) + 1 = k
        BY <1>1
      <4>3. k - 1 \in T
        BY <4>1, <4>2
      <4>4. QED
        BY <4>3, <2>1
    <3>2. Good(n) /\ n \in 0 .. n
      BY <3>1, <1>1
    <3>3. QED
      BY <3>2
  <2>2. CASE T # {}
    <3>1. PICK m \in T : \A y \in T : m <= y
      BY <2>2, LeastNat
    <3>2. \A k \in 1 .. m : ~ Bad(k)
      <4>1. SUFFICES ASSUME NEW k \in 1 .. m, Bad(k) PROVE FALSE
        OBVIOUS
      <4>2. k - 1 \in Nat /\ k - 1 < n /\ (k - 1) + 1 = k /\ ~ m <= k - 1
        BY <1>1, <3>1
      <4>3. k - 1 \in T
        BY <4>1, <4>2
      <4>4. QED
        BY <4>2, <4>3, <3>1
    <3>3. Good(m) /\ m \in 0 .. n
      BY <3>1, <3>2, <1>1
    <3>4. QED
      BY <3>3
  <2>3. QED
    BY <2>1, <2>2
<1>3. ValidPrefix \in 0 .. n /\ Good(ValidPrefix)
  BY <1>2, Zenon DEF ValidPrefix
<1>4. QED
  BY <1>3

\* Valid entries make records that fit, of the selectors they declare.
LEMMA StaticFits ==
  ASSUME declared \in Environments, NEW n \in 0 .. Len(declared.targets),
         \A k \in 1 .. n : declared.targets[k].endpoint # Invalid
  PROVE  /\ Fits(Static(n), {}, 0)
         /\ \A s \in Selectors :
              Static(n)[s].known <=> \E k \in 1 .. n : declared.targets[k].selector = s
<1>. DEFINE Entry == [selector : Selectors, endpoint : Addresses \cup {Invalid}]
            Of(s) == {k \in 1 .. n : declared.targets[k].selector = s}
            Pick(s) == CHOOSE k \in 1 .. n : declared.targets[k].selector = s
<1>1. declared.targets \in Seq(Entry)
  <2>1. declared \in Environment
    BY RegistryAssumption
  <2>2. QED
    BY <2>1 DEF Environment
<1>2. \A k \in 1 .. n : declared.targets[k] \in Entry
  <2>1. Len(declared.targets) \in Nat
    BY <1>1, LenProperties
  <2>2. 1 .. n \subseteq 1 .. Len(declared.targets)
    BY <2>1
  <2>3. QED
    BY <1>1, <2>2, ElementOfSeq
<1>3. \A s \in Selectors : Of(s) # {} =>
        /\ Pick(s) \in 1 .. n
        /\ declared.targets[Pick(s)].endpoint \in Addresses
        /\ declared.targets[Pick(s)].endpoint # Invalid
  <2>1. SUFFICES ASSUME NEW s \in Selectors, Of(s) # {}
                 PROVE  /\ Pick(s) \in 1 .. n
                        /\ declared.targets[Pick(s)].endpoint \in Addresses
                        /\ declared.targets[Pick(s)].endpoint # Invalid
    OBVIOUS
  <2>2. \E k \in 1 .. n : declared.targets[k].selector = s
    BY <2>1
  <2>3. Pick(s) \in 1 .. n
    BY <2>2, Zenon
  <2>4. QED
    BY <2>3, <1>2
<1>. DEFINE r == [s \in Selectors |->
                    IF Of(s) # {}
                    THEN [known |-> TRUE, backend |-> 0,
                          address |-> declared.targets[Pick(s)].endpoint]
                    ELSE Unknown]
<1>4. Static(n) = r
  BY DEF Static
<1>. HIDE DEF Pick
<1>5. \A s \in Selectors : /\ r[s] \in Record
                           /\ r[s].backend = 0
                           /\ r[s].known => r[s].address # Invalid
                           /\ r[s].known <=> Of(s) # {}
  <2>0. 0 \in 0 .. MaxSockets
    BY RegistryAssumption
  <2>1. TAKE s \in Selectors
  <2>2. CASE Of(s) # {}
    BY <2>0, <2>2, <1>3 DEF Record
  <2>3. CASE Of(s) = {}
    <3>1. r[s] = Unknown
      BY <2>3
    <3>2. QED
      BY <2>0, <2>3, <3>1 DEF Record, Unknown
  <2>4. QED
    BY <2>2, <2>3
<1>6. r \in [Selectors -> Record]
  BY <1>5
<1>7. Fits(r, {}, 0)
  <2>0. 0 \in 0 .. MaxSockets
    BY RegistryAssumption
  <2>. HIDE DEF r
  <2>1. QED
    BY <2>0, <1>5, <1>6 DEF Fits
<1>. HIDE DEF r
<1>8. \A s \in Selectors :
        Static(n)[s].known <=> \E k \in 1 .. n : declared.targets[k].selector = s
  BY <1>4, <1>5
<1>9. QED
  BY <1>4, <1>7, <1>8

\* The record that comes with its backend fits.
LEMMA OwnFits ==
  ASSUME NEW d \in Selectors
  PROVE  /\ Fits(Own(d), OwnSocket, 1)
         /\ \A s \in Selectors : Own(d)[s].known <=> s = d
<1>. DEFINE r == [s \in Selectors |->
                    IF s = d THEN [known |-> TRUE, address |-> Here, backend |-> 1]
                    ELSE [known |-> FALSE, address |-> Invalid, backend |-> 0]]
<1>1. Own(d) = r
  BY DEF Own, Unknown
<1>2. 0 \in 0 .. MaxSockets /\ 1 \in 1 .. MaxSockets /\ 1 \in 0 .. MaxSockets /\ Here # Invalid
  BY RegistryAssumption
<1>3. \A s \in Selectors : r[s] \in Record /\ (r[s].known <=> s = d)
  BY <1>2 DEF Record
<1>4. \A s \in Selectors : (r[s].backend # 0 => s = d) /\ (r[s].known => r[s].address # Invalid)
  BY <1>2
<1>5. r[d].backend = 1 /\ r[d].address = Here /\ r[d].known
  OBVIOUS
<1>6. OwnSocket \subseteq Socket
  BY <1>2 DEF OwnSocket, Socket
<1>7. r \in [Selectors -> Record]
  BY <1>3
<1>8. Fits(r, OwnSocket, 1)
  <2>. HIDE DEF r
  <2>0. 1 <= 1
    OBVIOUS
  <2>1. \A s \in Selectors : r[s].backend # 0 =>
          /\ r[s].known
          /\ r[s].backend <= 1
          /\ [id |-> r[s].backend, address |-> r[s].address] \in OwnSocket
          /\ \A t \in Selectors : r[t].backend = r[s].backend => t = s
    BY <1>4, <1>5, <2>0 DEF OwnSocket
  <2>2. \A b \in OwnSocket : \E s \in Selectors : r[s].backend = b.id
    BY <1>5 DEF OwnSocket
  <2>3. QED
    BY <2>1, <2>2, <1>2, <1>4, <1>6, <1>7 DEF Fits
<1>9. QED
  BY <1>1, <1>3, <1>8

\* The selectors that are declared.
LEMMA DeclaredSelectors ==
  ASSUME declared \in Environments
  PROVE  /\ DOMAIN declared.targets = 1 .. Len(declared.targets)
         /\ \A k \in DOMAIN declared.targets :
              /\ declared.targets[k].selector \in Selectors
              /\ NameOf[declared.targets[k].selector] = declared.targets[k].selector
         /\ KnownTargets \subseteq Selectors
<1>. DEFINE Entry == [selector : Selectors, endpoint : Addresses \cup {Invalid}]
            ts == declared.targets
<1>1. ts \in Seq(Entry)
  BY RegistryAssumption DEF Environment
<1>2. DOMAIN ts = 1 .. Len(ts)
  BY <1>1, LenProperties
<1>. HIDE DEF Entry, ts
<1>3. \A k \in 1 .. Len(ts) : ts[k] \in Entry
  BY <1>1, ElementOfSeq
<1>4. \A k \in DOMAIN ts : ts[k].selector \in Selectors
  BY <1>2, <1>3 DEF Entry
<1>5. KnownTargets \subseteq Selectors
  BY <1>4, RegistryAssumption DEF KnownTargets, ts
<1>6. QED
  BY <1>2, <1>4, <1>5, RegistryAssumption DEF ts

\* A call that gets past _configure.
Ready == RegistryInv /\ ~ closed /\ (configured \/ Accepted)

\* The records rs are of targets a caller may know of, and agree with what was
\* heard of the agents in S.
Agrees(rs, S) ==
  /\ \A s \in S : heard[s] # Invalid => rs[s].known /\ rs[s].address = heard[s]
  /\ \A s \in Selectors : rs[s].known => s \in KnownTargets
  /\ Accepted \/ declared.injected =>
       \A s \in KnownTargets : rs[s].known \/ heard[s] # Invalid

\* The agents that have no announcement waiting.
Quiet == {s \in Selectors : Waiting(s) = {}}

\* After _configure, the records fit and agree.
LEMMA ConfiguredIsGood ==
  ASSUME Ready
  PROVE  /\ Fits(Configured.records, Configured.sockets, Configured.made)
         /\ Agrees(Configured.records, Quiet)
<1>. USE DEF Ready, RegistryInv
<1>1. CASE configured
  <2>1. Configured = [records |-> records, sockets |-> sockets, made |-> made]
    BY <1>1 DEF Configured
  <2>2. Fits(records, sockets, made)
    BY DEF RecordInv
  <2>3. \A s \in Quiet : heard[s] # Invalid => records[s].known /\ records[s].address = heard[s]
    BY DEF HeardInv, Quiet
  <2>4. Agrees(records, Quiet)
    BY <1>1, <2>3 DEF KnownInv, Agrees
  <2>5. QED
    BY <2>1, <2>2, <2>4
<1>2. CASE ~ configured
  <2>1. /\ Accepted /\ ~ declared.injected /\ declared \in Environments
        /\ \A s \in Selectors : heard[s] = Invalid
    BY <1>2 DEF StartInv, RegistryType
  <2>2. CASE IsLocal
    <3>1. Configured = [records |-> Own(Local), sockets |-> OwnSocket, made |-> 1]
      BY <1>2, <2>2 DEF Configured
    <3>2. KnownTargets = {Local}
      BY <2>1, <2>2 DEF KnownTargets
    <3>3. Local \in Selectors
      BY RegistryAssumption
    <3>4. /\ Fits(Own(Local), OwnSocket, 1)
          /\ \A s \in Selectors : Own(Local)[s].known <=> s = Local
      BY <3>3, OwnFits
    <3>5. Agrees(Own(Local), Quiet)
      BY <2>1, <3>2, <3>3, <3>4 DEF Agrees, Quiet
    <3>6. QED
      BY <3>1, <3>4, <3>5
  <2>3. CASE ~ IsLocal
    <3>1. Configured = [records |-> Static(ValidPrefix), sockets |-> {}, made |-> 0]
      BY <1>2, <2>3 DEF Configured
    <3>2. /\ Fits(Static(ValidPrefix), {}, 0)
          /\ \A s \in Selectors : Static(ValidPrefix)[s].known <=>
               \E k \in 1 .. ValidPrefix : declared.targets[k].selector = s
      BY <2>1, PrefixIsValid, StaticFits
    <3>3. DOMAIN declared.targets = 1 .. ValidPrefix
      BY <2>1, DeclaredSelectors DEF Accepted
    <3>4. \A s \in Selectors : s \in KnownTargets <=>
            \E k \in 1 .. ValidPrefix : declared.targets[k].selector = s
      BY <2>1, <2>3, <3>3 DEF KnownTargets
    <3>5. KnownTargets \subseteq Selectors
      BY <2>1, DeclaredSelectors
    <3>6. Agrees(Static(ValidPrefix), Quiet)
      BY <2>1, <3>2, <3>4, <3>5 DEF Agrees, Quiet
    <3>7. QED
      BY <3>1, <3>2, <3>6
  <2>4. QED
    BY <2>2, <2>3
<1>3. QED
  BY <1>1, <1>2 DEF RegistryType

----------------------------------------------------------------------------
(* The announcements that are followed.                                    *)

\* What an announced move does to one record.
LEMMA FollowOne ==
  ASSUME inbox \in Seq(Ad), NEW s, NEW o \in Record,
         o.known => o.address # Invalid, o.backend # 0 => o.known
  PROVE  /\ Follow(s, o) \in Record
         /\ Follow(s, o).backend # 0 =>
              Follow(s, o).backend = o.backend /\ Follow(s, o).address = o.address
         /\ Follow(s, o).known <=> o.known \/ Waiting(s) # {}
         /\ Follow(s, o).known => Follow(s, o).address # Invalid
         /\ Waiting(s) = {} => Follow(s, o) = o
         /\ Waiting(s) # {} => Follow(s, o).address = Latest(s)
<1>1. CASE Waiting(s) = {}
  <2>1. Follow(s, o) = o
    BY <1>1 DEF Follow
  <2>2. QED
    BY <1>1, <2>1
<1>2. CASE Waiting(s) # {}
  <2>. DEFINE x == Latest(s)
              moved == \E k \in Waiting(s) : inbox[k].address # o.address
  <2>1. x \in Addresses /\ x # Invalid /\ Max(Waiting(s)) \in Waiting(s)
    BY <1>2, LastAd, RegistryAssumption
  <2>2. Follow(s, o) = [known |-> TRUE, address |-> x,
                        backend |-> IF moved THEN 0 ELSE o.backend]
    BY <1>2 DEF Follow, Latest
  <2>3. ~ moved => x = o.address
    BY <2>1 DEF Latest
  <2>. HIDE DEF x, moved
  <2>4. 0 \in 0 .. MaxSockets
    BY RegistryAssumption
  <2>5. Follow(s, o) \in Record
    BY <2>1, <2>2, <2>4 DEF Record
  <2>6. Follow(s, o).backend # 0 =>
          Follow(s, o).backend = o.backend /\ Follow(s, o).address = o.address
    BY <2>2, <2>3
  <2>7. /\ Follow(s, o).known /\ Follow(s, o).address # Invalid
        /\ Follow(s, o).address = x
    BY <2>1, <2>2
  <2>8. QED
    BY <1>2, <2>5, <2>6, <2>7 DEF x
<1>3. QED
  BY <1>1, <1>2

\* Records that follow the announcements fit the sockets that stay.
LEMMA FollowFits ==
  ASSUME inbox \in Seq(Ad), NEW rs, NEW ss, NEW n, Fits(rs, ss, n), NEW new,
         new = [s \in Selectors |-> Follow(s, rs[s])]
  PROVE  Fits(new, {b \in ss : \A s \in Selectors :
                                 rs[s].backend = b.id => new[s].backend = b.id}, n)
<1>. DEFINE open == {b \in ss : \A s \in Selectors :
                                  rs[s].backend = b.id => new[s].backend = b.id}
<1>1. \A s \in Selectors :
        /\ new[s] \in Record
        /\ new[s].backend # 0 => new[s].backend = rs[s].backend /\ new[s].address = rs[s].address
        /\ rs[s].known => new[s].known
        /\ new[s].known => new[s].address # Invalid
  <2>1. TAKE s \in Selectors
  <2>2. /\ rs[s] \in Record /\ (rs[s].known => rs[s].address # Invalid)
        /\ rs[s].backend # 0 => rs[s].known
    BY DEF Fits
  <2>3. new[s] = Follow(s, rs[s])
    OBVIOUS
  <2>4. QED
    BY <2>2, <2>3, FollowOne
<1>2. new \in [Selectors -> Record]
  BY <1>1
<1>. HIDE DEF open
<1>3. \A s \in Selectors : new[s].backend # 0 =>
        /\ new[s].known
        /\ new[s].backend <= n
        /\ [id |-> new[s].backend, address |-> new[s].address] \in open
        /\ \A t \in Selectors : new[t].backend = new[s].backend => t = s
  <2>1. SUFFICES ASSUME NEW s \in Selectors, new[s].backend # 0
                 PROVE  /\ new[s].known
                        /\ new[s].backend <= n
                        /\ [id |-> new[s].backend, address |-> new[s].address] \in open
                        /\ \A t \in Selectors : new[t].backend = new[s].backend => t = s
    OBVIOUS
  <2>2. new[s].backend = rs[s].backend /\ new[s].address = rs[s].address
    BY <2>1, <1>1
  <2>3. /\ rs[s].known /\ rs[s].backend <= n
        /\ [id |-> rs[s].backend, address |-> rs[s].address] \in ss
        /\ \A t \in Selectors : rs[t].backend = rs[s].backend => t = s
    BY <2>1, <2>2 DEF Fits
  <2>4. [id |-> new[s].backend, address |-> new[s].address] \in open
    BY <2>2, <2>3 DEF open
  <2>5. \A t \in Selectors : new[t].backend = new[s].backend => t = s
    BY <2>1, <2>2, <2>3, <1>1
  <2>6. QED
    BY <2>2, <2>3, <2>4, <2>5, <1>1
<1>4. \A b \in open : \E s \in Selectors : new[s].backend = b.id
  BY DEF open, Fits
<1>5. open \subseteq Socket /\ n \in 0 .. MaxSockets
  BY DEF open, Fits
<1>6. Fits(new, open, n)
  BY <1>1, <1>2, <1>3, <1>4, <1>5 DEF Fits
<1>7. QED
  BY <1>6 DEF open

\* After _configure and _refresh_discovery, the records fit the open backends and
\* agree with all that was heard.
LEMMA RefreshedIsGood ==
  ASSUME Ready
  PROVE  /\ Fits(Refreshed.records, Refreshed.sockets, Refreshed.made)
         /\ Agrees(Refreshed.records, Selectors)
         /\ Accepted \/ declared.injected => KnownTo(Refreshed) = KnownTargets
         /\ KnownTo(Refreshed) \subseteq KnownTargets
<1>. DEFINE old == Configured.records
            new == [s \in Selectors |-> Follow(s, old[s])]
            open == {b \in Configured.sockets : \A s \in Selectors :
                       old[s].backend = b.id => new[s].backend = b.id}
<1>1. /\ Fits(old, Configured.sockets, Configured.made)
      /\ Agrees(old, Quiet)
  BY ConfiguredIsGood
<1>2. inbox \in Seq(Ad)
  BY DEF Ready, RegistryInv, RegistryType
<1>3. Refreshed.records = new /\ Refreshed.sockets = open /\ Refreshed.made = Configured.made
  BY DEF Refreshed
<1>4. Fits(new, open, Configured.made)
  BY <1>1, <1>2, FollowFits
<1>5. \A s \in Selectors :
        /\ new[s].known <=> old[s].known \/ Waiting(s) # {}
        /\ Waiting(s) = {} => new[s] = old[s]
        /\ Waiting(s) # {} => new[s].address = Latest(s)
  <2>1. TAKE s \in Selectors
  <2>2. /\ old[s] \in Record /\ (old[s].known => old[s].address # Invalid)
        /\ old[s].backend # 0 => old[s].known
    BY <1>1 DEF Fits
  <2>3. new[s] = Follow(s, old[s])
    OBVIOUS
  <2>4. QED
    BY <1>2, <2>2, <2>3, FollowOne
<1>6. \A s \in Selectors : Waiting(s) # {} =>
        Latest(s) = heard[s] /\ heard[s] # Invalid
  BY <1>2, LastAd, RegistryAssumption DEF Ready, RegistryInv, HeardInv
<1>7. KnownTargets \subseteq Selectors
  BY DeclaredSelectors DEF Ready, RegistryInv, RegistryType
<1>. HIDE DEF new, old
<1>8. \A s \in Selectors : heard[s] # Invalid => new[s].known /\ new[s].address = heard[s]
  BY <1>1, <1>5, <1>6 DEF Agrees, Quiet
<1>9. \A s \in Selectors : new[s].known => s \in KnownTargets
  BY <1>1, <1>5, <1>6 DEF Agrees, KnownTargets
<1>10. Accepted \/ declared.injected => \A s \in KnownTargets : new[s].known
  BY <1>1, <1>5, <1>7, <1>8 DEF Agrees
<1>11. Agrees(new, Selectors)
  BY <1>8, <1>9, <1>10 DEF Agrees
<1>12. KnownTo(Refreshed) = {s \in Selectors : new[s].known}
  BY <1>3 DEF KnownTo
<1>13. QED
  BY <1>3, <1>4, <1>7, <1>9, <1>10, <1>11, <1>12

----------------------------------------------------------------------------
(* The steps.                                                              *)

\* What was declared says what is accepted, and with what was heard what is known.
LEMMA DeclaredStays ==
  ASSUME declared' = declared
  PROVE  /\ Accepted' <=> Accepted
         /\ heard' = heard => KnownTargets' = KnownTargets
<1>1. ValidPrefix' = ValidPrefix
  BY DEF ValidPrefix
<1>2. Accepted' <=> Accepted
  BY <1>1 DEF Accepted
<1>3. heard' = heard => KnownTargets' = KnownTargets
  BY DEF KnownTargets, IsLocal
<1>4. QED
  BY <1>2, <1>3

\* A record without a backend is given one that nobody had.
LEMMA GivenFits ==
  ASSUME NEW rs, NEW ss, NEW n, Fits(rs, ss, n), NEW s \in Selectors,
         rs[s].known, rs[s].backend = 0, n + 1 <= MaxSockets, NEW new,
         new = [rs EXCEPT ![s].backend = n + 1]
  PROVE  Fits(new, ss \cup {[id |-> n + 1, address |-> rs[s].address]}, n + 1)
<1>. DEFINE b == [id |-> n + 1, address |-> rs[s].address]
<1>1. /\ rs \in [Selectors -> Record] /\ ss \subseteq Socket /\ n \in 0 .. MaxSockets
      /\ rs[s].address # Invalid
  BY DEF Fits
<1>2. n + 1 \in 1 .. MaxSockets /\ n + 1 \in 0 .. MaxSockets /\ n + 1 # 0
  BY <1>1, RegistryAssumption
<1>3. b \in Socket
  BY <1>1, <1>2 DEF Socket, Record
<1>4. /\ \A t \in Selectors : t # s => new[t] = rs[t]
      /\ new[s].known /\ new[s].backend = n + 1 /\ new[s].address = rs[s].address
      /\ new \in [Selectors -> Record]
  BY <1>1, <1>2 DEF Record
<1>5. \A t \in Selectors : rs[t].backend # 0 => rs[t].backend <= n /\ rs[t].backend # n + 1
  <2>1. \A t \in Selectors : rs[t].backend # 0 => rs[t].backend <= n
    BY DEF Fits
  <2>2. \A t \in Selectors : rs[t].backend \in 0 .. MaxSockets
    BY <1>1 DEF Record
  <2>3. QED
    BY <2>1, <2>2, <1>1, RegistryAssumption
<1>6. \A t \in Selectors :
        /\ new[t].known => new[t].address # Invalid
        /\ new[t].backend # 0 =>
             /\ new[t].known
             /\ new[t].backend <= n + 1
             /\ [id |-> new[t].backend, address |-> new[t].address] \in ss \cup {b}
             /\ \A u \in Selectors : new[u].backend = new[t].backend => u = t
  <2>1. TAKE t \in Selectors
  <2>2. CASE t = s
    <3>1. \A u \in Selectors : new[u].backend = n + 1 => u = s
      BY <1>2, <1>4, <1>5
    <3>2. n + 1 <= n + 1
      BY <1>2
    <3>3. QED
      BY <2>2, <3>1, <3>2, <1>1, <1>4
  <2>3. CASE t # s
    <3>1. new[t] = rs[t]
      BY <2>3, <1>4
    <3>2. rs[t].known => rs[t].address # Invalid
      BY DEF Fits
    <3>3. CASE rs[t].backend = 0
      BY <3>1, <3>2, <3>3
    <3>4. CASE rs[t].backend # 0
      <4>1. /\ rs[t].known /\ rs[t].backend <= n
            /\ [id |-> rs[t].backend, address |-> rs[t].address] \in ss
            /\ \A u \in Selectors : rs[u].backend = rs[t].backend => u = t
        BY <3>4 DEF Fits
      <4>2. rs[t].backend \in Nat
        BY <1>1, RegistryAssumption DEF Record
      <4>3. rs[t].backend <= n + 1
        BY <4>1, <4>2, <1>1
      <4>4. \A u \in Selectors : new[u].backend = rs[t].backend => u = t
        BY <4>1, <3>4, <1>4, <1>5
      <4>5. QED
        BY <3>1, <3>2, <4>1, <4>3, <4>4
    <3>5. QED
      BY <3>3, <3>4
  <2>4. QED
    BY <2>2, <2>3
<1>7. \A c \in ss \cup {b} : \E t \in Selectors : new[t].backend = c.id
  <2>1. TAKE c \in ss \cup {b}
  <2>2. CASE c = b
    BY <2>2, <1>4
  <2>3. CASE c \in ss
    <3>1. PICK t \in Selectors : rs[t].backend = c.id
      BY <2>3 DEF Fits
    <3>2. c.id # 0
      BY <2>3, <1>1 DEF Socket
    <3>3. t # s
      BY <3>1, <3>2
    <3>4. QED
      BY <3>1, <3>3, <1>4
  <2>4. QED
    BY <2>2, <2>3
<1>8. ss \cup {b} \subseteq Socket
  BY <1>1, <1>3
<1>9. QED
  BY <1>2, <1>4, <1>6, <1>7, <1>8 DEF Fits

\* A call leaves records that fit, with the targets and addresses of Refreshed.
Settles ==
  /\ Fits(records', sockets', made')
  /\ \A s \in Selectors : /\ records'[s].known = Refreshed.records[s].known
                          /\ records'[s].address = Refreshed.records[s].address
  /\ last'.target \in Targets

\* A call that settles keeps the invariant.
LEMMA SettledKeeps ==
  ASSUME Ready, Prepare, Settles
  PROVE  RegistryInv'
<1>1. Agrees(Refreshed.records, Selectors)
  BY RefreshedIsGood
<1>2. declared' = declared /\ heard' = heard /\ closed' = closed /\ ads' = ads /\ inbox' = << >>
      /\ configured' = TRUE
  BY DEF Prepare
<1>3. (Accepted' <=> Accepted) /\ KnownTargets' = KnownTargets
  BY <1>2, DeclaredStays
<1>4. RegistryType /\ StartInv /\ ~ closed
  BY DEF Ready, RegistryInv
<1>5. declared.discovery \in BOOLEAN
  BY <1>4, RegistryAssumption DEF Environment, RegistryType
<1>6. listening' \in BOOLEAN
  BY <1>4, <1>5 DEF Prepare, RegistryType
<1>7. closed' = FALSE
  BY <1>2, <1>4 DEF RegistryType
<1>8. RegistryType'
  <2>1. << >> \in Seq(Ad)
    BY EmptySeq
  <2>2. QED
    BY <2>1, <1>2, <1>4, <1>6, <1>7 DEF RegistryType, Targets, Settles, Ad
<1>9. RecordInv'
  BY <1>7 DEF RecordInv, Settles, Fits, Record, Socket
<1>10. HeardInv'
  <2>1. \A s : Waiting(s)' = {}
    BY <1>2 DEF Waiting
  <2>2. \A s \in Selectors : heard[s] # Invalid => records'[s].known /\ records'[s].address = heard[s]
    BY <1>1 DEF Agrees, Settles
  <2>3. QED
    BY <2>1, <2>2, <1>2 DEF HeardInv
<1>11. StartInv'
  <2>1. listening' => Accepted /\ ~ declared.injected
    BY <1>4 DEF Prepare, StartInv
  <2>2. ~ (Accepted /\ ~ declared.injected) => heard = [s \in Selectors |-> Invalid]
    BY <1>4 DEF StartInv
  <2>3. QED
    BY <2>1, <2>2, <1>2, <1>3 DEF StartInv
<1>12. KnownInv'
  <2>1. KnownTargets \subseteq Selectors
    BY <1>4, DeclaredSelectors DEF RegistryType
  <2>2. QED
    BY <2>1, <1>1, <1>2, <1>3 DEF KnownInv, Agrees, Settles
<1>13. QED
  BY <1>8, <1>9, <1>10, <1>11, <1>12 DEF RegistryInv

\* What an argument stands for is known.
LEMMA DenotedIsKnown ==
  ASSUME NEW known, NEW t, NEW s, Denoted(known, t) = {s}
  PROVE  s \in known
BY DEF Denoted

\* A refused call, and one for the list, settle.
LEMMA GetNoneSettles ==
  ASSUME Ready, NEW t \in Targets, GetNone(t)
  PROVE  Prepare /\ Settles
<1>1. /\ records' = Refreshed.records /\ sockets' = Refreshed.sockets /\ made' = Refreshed.made
      /\ last' = [NoCall EXCEPT !.target = t]
  BY Zenon DEF GetNone
<1>2. last'.target = t
  BY <1>1 DEF NoCall
<1>3. Fits(Refreshed.records, Refreshed.sockets, Refreshed.made)
  BY RefreshedIsGood
<1>4. Settles
  BY <1>1, <1>2, <1>3, Zenon DEF Settles
<1>5. QED
  BY <1>4 DEF GetNone

\* list_targets looks every target up.
LEMMA ListSettles ==
  ASSUME Ready, ListTargets
  PROVE  Prepare /\ Settles
<1>1. /\ records' = Refreshed.records /\ sockets' = Refreshed.sockets /\ made' = Refreshed.made
      /\ last' = last
  BY Zenon DEF ListTargets
<1>2. last'.target \in Targets
  BY <1>1 DEF Ready, RegistryInv, RegistryType
<1>3. Fits(Refreshed.records, Refreshed.sockets, Refreshed.made)
  BY RefreshedIsGood
<1>4. Settles
  BY <1>1, <1>2, <1>3, Zenon DEF Settles
<1>5. QED
  BY <1>4 DEF ListTargets

\* A call that is served settles, and is handed an open backend to the address of
\* the one target it stands for.
LEMMA GetSettles ==
  ASSUME Ready, NEW t \in Targets, Get(t)
  PROVE  /\ Prepare /\ Settles
         /\ last'.target = t /\ last'.selector \in Selectors
         /\ Denoted(KnownTo(Refreshed), t) = {last'.selector}
         /\ [id |-> last'.backend, address |-> Refreshed.records[last'.selector].address] \in sockets'
<1>. DEFINE rs == Refreshed.records
            ss == Refreshed.sockets
            n  == Refreshed.made
            id(s) == IF rs[s].backend = 0 THEN n + 1 ELSE rs[s].backend
<1>1. PICK s \in Selectors :
        /\ Denoted(KnownTo(Refreshed), t) = {s}
        /\ id(s) <= MaxSockets
        /\ records' = [rs EXCEPT ![s].backend = id(s)]
        /\ sockets' = ss \cup (IF rs[s].backend = 0
                               THEN {[id |-> id(s), address |-> rs[s].address]} ELSE {})
        /\ made' = IF rs[s].backend = 0 THEN id(s) ELSE n
        /\ last' = [target |-> t, served |-> TRUE, selector |-> s, backend |-> id(s)]
  BY DEF Get
<1>2. Fits(rs, ss, n)
  BY RefreshedIsGood
<1>3. rs[s].known
  BY <1>1, DenotedIsKnown DEF KnownTo
<1>4. last'.target = t /\ last'.selector = s /\ last'.backend = id(s)
  BY <1>1
<1>. HIDE DEF rs, ss, n
<1>5. rs \in [Selectors -> Record]
  BY <1>2 DEF Fits
<1>6. CASE rs[s].backend = 0
  <2>1. /\ id(s) = n + 1
        /\ sockets' = ss \cup {[id |-> n + 1, address |-> rs[s].address]}
        /\ made' = n + 1
    BY <1>1, <1>6
  <2>2. n + 1 <= MaxSockets /\ records' = [rs EXCEPT ![s].backend = n + 1]
    BY <1>1, <1>6
  <2>3. Fits(records', ss \cup {[id |-> n + 1, address |-> rs[s].address]}, n + 1)
    BY <1>2, <1>3, <1>6, <2>2, GivenFits
  <2>4. Fits(records', sockets', made')
    BY <2>1, <2>3
  <2>5. [id |-> last'.backend, address |-> rs[s].address] \in sockets'
    BY <1>4, <2>1
  <2>6. \A u \in Selectors : records'[u].known = rs[u].known /\ records'[u].address = rs[u].address
    BY <1>1, <1>5 DEF Record
  <2>7. QED
    BY <1>1, <1>4, <2>4, <2>5, <2>6 DEF Settles, Get, rs
<1>7. CASE rs[s].backend # 0
  <2>1. id(s) = rs[s].backend /\ sockets' = ss /\ made' = n
    BY <1>1, <1>7
  <2>2. records' = rs
    BY <1>1, <1>5, <2>1 DEF Record
  <2>3. [id |-> last'.backend, address |-> rs[s].address] \in sockets'
    BY <1>2, <1>4, <1>7, <2>1 DEF Fits
  <2>4. QED
    BY <1>1, <1>2, <1>4, <2>1, <2>2, <2>3 DEF Settles, Get, rs
<1>8. QED
  BY <1>6, <1>7

\* A call that ends in _configure keeps the invariant.
LEMMA ConfigureFailsKeeps ==
  ASSUME RegistryInv, NEW t \in Targets, ConfigureFails(t)
  PROVE  RegistryInv'
<1>. DEFINE n == IF declared.fault = "early" THEN 0 ELSE ValidPrefix
<1>1. /\ ~ closed /\ ~ configured /\ ~ Accepted
      /\ configured' = TRUE /\ records' = Static(n)
      /\ last' = [NoCall EXCEPT !.target = t]
      /\ UNCHANGED <<declared, listening, inbox, sockets, made, closed, ads, heard>>
  BY DEF ConfigureFails
<1>2. /\ RegistryType /\ ~ declared.injected /\ ~ listening /\ inbox = << >>
      /\ sockets = {} /\ made = 0 /\ heard = [s \in Selectors |-> Invalid]
  BY <1>1 DEF RegistryInv, StartInv
<1>3. n \in 0 .. Len(declared.targets) /\ \A k \in 1 .. n : declared.targets[k].endpoint # Invalid
  <2>1. /\ ValidPrefix \in 0 .. Len(declared.targets)
        /\ \A k \in 1 .. ValidPrefix : declared.targets[k].endpoint # Invalid
    BY <1>2, PrefixIsValid DEF RegistryType
  <2>2. QED
    BY <2>1
<1>4. /\ Fits(Static(n), {}, 0)
      /\ \A s \in Selectors :
           Static(n)[s].known <=> \E k \in 1 .. n : declared.targets[k].selector = s
  BY <1>2, <1>3, StaticFits DEF RegistryType
<1>5. 1 .. n \subseteq DOMAIN declared.targets
  BY <1>2, <1>3, DeclaredSelectors DEF RegistryType
<1>6. (Accepted' <=> Accepted) /\ KnownTargets' = KnownTargets
  BY <1>1, DeclaredStays
<1>7. \A s \in Selectors : Static(n)[s].known => s \in KnownTargets
  <2>1. SUFFICES ASSUME NEW s \in Selectors, Static(n)[s].known
                 PROVE  s \in KnownTargets
    OBVIOUS
  <2>2. PICK k \in 1 .. n : declared.targets[k].selector = s
    BY <1>4, <2>1
  <2>3. k \in DOMAIN declared.targets
    BY <1>5
  <2>4. declared.targets # << >>
    BY <2>3
  <2>5. QED
    BY <1>2, <2>2, <2>3, <2>4 DEF KnownTargets, IsLocal
<1>. HIDE DEF n
<1>8. last'.target = t
  BY <1>1 DEF NoCall
<1>9. RegistryType'
  BY <1>1, <1>2, <1>8 DEF RegistryType, Targets, Ad
<1>10. RecordInv'
  BY <1>1, <1>2, <1>4 DEF RecordInv
<1>11. HeardInv'
  <2>1. \A s : Waiting(s)' = {}
    BY <1>1, <1>2 DEF Waiting
  <2>2. QED
    BY <2>1, <1>1, <1>2 DEF HeardInv
<1>12. StartInv'
  BY <1>1, <1>2 DEF StartInv
<1>13. KnownInv'
  BY <1>1, <1>2, <1>6, <1>7 DEF KnownInv
<1>14. QED
  BY <1>9, <1>10, <1>11, <1>12, <1>13 DEF RegistryInv

\* An announcement keeps the invariant.
LEMMA AnnounceKeeps ==
  ASSUME RegistryInv, NEW a \in Agents, NEW x \in Addresses, Announce(a, x)
  PROVE  RegistryInv'
<1>1. /\ ads < MaxAds /\ ads' = ads + 1
      /\ UNCHANGED <<declared, configured, listening, records, sockets, made, closed, last>>
  BY DEF Announce
<1>2. RegistryType /\ RecordInv /\ HeardInv /\ StartInv /\ KnownInv
  BY DEF RegistryInv
<1>3. ads' \in 0 .. MaxAds
  BY <1>1, <1>2, RegistryAssumption DEF RegistryType
<1>4. RecordInv'
  BY <1>1, <1>2 DEF RecordInv
<1>5. a \in Selectors /\ x # Invalid
  BY RegistryAssumption
<1>6. Accepted' <=> Accepted
  BY <1>1, DeclaredStays
<1>7. CASE ~ listening
  <2>1. inbox' = inbox /\ heard' = heard
    BY <1>7 DEF Announce
  <2>2. KnownTargets' = KnownTargets
    BY <1>1, <2>1, DeclaredStays
  <2>3. RegistryType'
    BY <1>1, <1>2, <1>3, <2>1 DEF RegistryType, Targets, Ad
  <2>4. \A s : Waiting(s)' = Waiting(s)
    BY <2>1 DEF Waiting
  <2>5. HeardInv'
    BY <1>1, <1>2, <2>1, <2>4 DEF HeardInv, Latest
  <2>6. StartInv'
    BY <1>1, <1>2, <1>6, <2>1 DEF StartInv
  <2>7. KnownInv'
    BY <1>1, <1>2, <1>6, <2>1, <2>2 DEF KnownInv
  <2>8. QED
    BY <1>4, <2>3, <2>5, <2>6, <2>7 DEF RegistryInv
<1>8. CASE listening
  <2>1. /\ inbox' = Append(inbox, [selector |-> a, address |-> x])
        /\ heard' = [heard EXCEPT ![a] = x]
    BY <1>8 DEF Announce
  <2>2. inbox \in Seq(Ad) /\ heard \in [Selectors -> Addresses \cup {Invalid}] /\ ~ closed
    BY <1>2, <1>8 DEF RegistryType
  <2>3. Accepted /\ ~ declared.injected /\ configured
    BY <1>2, <1>8 DEF StartInv
  <2>4. inbox' \in Seq(Ad)
    BY <2>1, <2>2, NewAd
  <2>5. /\ heard' \in [Selectors -> Addresses \cup {Invalid}]
        /\ heard'[a] = x
        /\ \A s \in Selectors : s # a => heard'[s] = heard[s]
    BY <1>5, <2>1, <2>2
  <2>6. RegistryType'
    BY <1>1, <1>2, <1>3, <2>4, <2>5 DEF RegistryType, Targets, Ad
  <2>7. HeardInv'
    <3>1. SUFFICES ASSUME NEW s \in Selectors
                   PROVE  (IF Waiting(s) = {}
                           THEN heard[s] # Invalid => records[s].known /\ records[s].address = heard[s]
                           ELSE Latest(s) = heard[s])'
      BY DEF HeardInv
    <3>0. /\ s = a => Waiting(s)' # {} /\ Latest(s)' = x
          /\ s # a => Waiting(s)' = Waiting(s)
          /\ s # a /\ Waiting(s) # {} =>
               Latest(s)' = Latest(s)
      BY <2>1, <2>2, NewAd
    <3>2. CASE s = a
      <4>1. Waiting(s)' # {} /\ Latest(s)' = x
        BY <3>0, <3>2
      <4>2. QED
        BY <4>1, <2>5, <3>2
    <3>3. CASE s # a
      <4>1. /\ Waiting(s)' = Waiting(s)
            /\ Waiting(s) # {} =>
                 Latest(s)' = Latest(s)
        BY <3>0, <3>3
      <4>2. IF Waiting(s) = {}
            THEN heard[s] # Invalid => records[s].known /\ records[s].address = heard[s]
            ELSE Latest(s) = heard[s]
        BY <1>2, <2>2 DEF HeardInv
      <4>3. heard'[s] = heard[s] /\ records' = records
        BY <1>1, <2>5, <3>3
      <4>4. QED
        BY <4>1, <4>2, <4>3
    <3>4. QED
      BY <3>2, <3>3
  <2>8. StartInv'
    BY <1>1, <1>6, <2>3 DEF StartInv
  <2>9. KnownTargets' = KnownTargets \cup {a}
    <3>1. {s \in Selectors : heard'[s] # Invalid} = {s \in Selectors : heard[s] # Invalid} \cup {a}
      BY <1>5, <2>5
    <3>2. QED
      BY <1>1, <3>1 DEF KnownTargets, IsLocal
  <2>10. KnownInv'
    <3>1. \A s \in Selectors : records[s].known => s \in KnownTargets
      BY <1>2, <2>3 DEF KnownInv
    <3>2. \A s \in KnownTargets : records[s].known \/ heard[s] # Invalid
      BY <1>2, <2>2, <2>3 DEF KnownInv
    <3>3. KnownTargets \subseteq Selectors
      BY <1>2, DeclaredSelectors DEF RegistryType
    <3>4. \A s \in KnownTargets \cup {a} : records[s].known \/ heard'[s] # Invalid
      BY <1>5, <2>5, <3>2, <3>3
    <3>5. QED
      BY <1>1, <2>9, <3>1, <3>4 DEF KnownInv
  <2>11. QED
    BY <1>4, <2>6, <2>7, <2>8, <2>10 DEF RegistryInv
<1>9. QED
  BY <1>7, <1>8

\* Closing keeps the invariant: every socket is the backend of a record.
LEMMA CloseKeeps ==
  ASSUME RegistryInv, Close
  PROVE  RegistryInv'
<1>1. /\ ~ closed /\ closed' = TRUE /\ listening' = FALSE /\ inbox' = << >>
      /\ sockets' = {b \in sockets : \A s \in Selectors : records[s].backend # b.id}
      /\ UNCHANGED <<declared, configured, records, made, ads, heard, last>>
  BY DEF Close
<1>2. RegistryType /\ RecordInv /\ StartInv /\ KnownInv
  BY DEF RegistryInv
<1>3. Fits(records, sockets, made)
  BY <1>1, <1>2 DEF RecordInv
<1>4. sockets' = {}
  BY <1>1, <1>3 DEF Fits
<1>5. RecordInv'
  BY <1>1, <1>3, <1>4 DEF RecordInv, Fits
<1>6. << >> \in Seq(Ad)
  BY EmptySeq
<1>7. RegistryType'
  BY <1>1, <1>2, <1>6 DEF RegistryType, Targets, Ad
<1>8. (Accepted' <=> Accepted) /\ KnownTargets' = KnownTargets
  BY <1>1, DeclaredStays
<1>9. HeardInv'
  BY <1>1 DEF HeardInv
<1>10. StartInv'
  BY <1>1, <1>2, <1>4, <1>8 DEF StartInv
<1>11. KnownInv'
  BY <1>1, <1>2, <1>8 DEF KnownInv
<1>12. QED
  BY <1>5, <1>7, <1>9, <1>10, <1>11 DEF RegistryInv

----------------------------------------------------------------------------
(* The invariant.                                                          *)

\* The bridge starts with the record it was handed, or with none.
LEMMA InitHolds ==
  ASSUME Init
  PROVE  RegistryInv
<1>1. /\ declared \in Environments /\ configured = declared.injected
      /\ listening = FALSE /\ inbox = << >> /\ closed = FALSE /\ ads = 0
      /\ heard = [s \in Selectors |-> Invalid] /\ last = NoCall
  BY DEF Init
<1>2. declared.injected \in BOOLEAN
  BY <1>1, RegistryAssumption DEF Environment
<1>3. 0 \in 0 .. MaxAds /\ 0 \in 0 .. MaxSockets /\ Default \in Selectors
  BY RegistryAssumption
<1>4. << >> \in Seq(Ad)
  BY EmptySeq
<1>5. last.target \in Targets
  BY <1>1 DEF NoCall, Targets
<1>6. RegistryType
  BY <1>1, <1>2, <1>3, <1>4, <1>5 DEF RegistryType
<1>7. HeardInv
  <2>1. \A s : Waiting(s) = {}
    BY <1>1 DEF Waiting
  <2>2. QED
    BY <2>1, <1>1 DEF HeardInv
<1>8. CASE declared.injected
  <2>1. records = Own(Default) /\ sockets = OwnSocket /\ made = 1
    BY <1>8 DEF Init
  <2>2. /\ Fits(Own(Default), OwnSocket, 1)
        /\ \A s \in Selectors : Own(Default)[s].known <=> s = Default
    BY <1>3, OwnFits
  <2>3. RecordInv
    BY <2>1, <2>2, <1>1 DEF RecordInv
  <2>4. KnownTargets = {Default}
    BY <1>1, <1>8 DEF KnownTargets
  <2>5. KnownInv
    BY <1>3, <2>1, <2>2, <2>4 DEF KnownInv
  <2>6. StartInv
    BY <1>1, <1>8 DEF StartInv
  <2>7. QED
    BY <1>6, <1>7, <2>3, <2>5, <2>6 DEF RegistryInv
<1>9. CASE ~ declared.injected
  <2>1. records = [s \in Selectors |-> Unknown] /\ sockets = {} /\ made = 0
    BY <1>9 DEF Init
  <2>2. \A s \in Selectors : records[s] = [known |-> FALSE, address |-> Invalid, backend |-> 0]
    BY <2>1 DEF Unknown
  <2>3. records \in [Selectors -> Record]
    <3>1. [known |-> FALSE, address |-> Invalid, backend |-> 0] \in Record
      BY <1>3 DEF Record
    <3>2. QED
      BY <2>1, <3>1 DEF Unknown
  <2>4. Fits(records, {}, 0)
    BY <1>3, <2>2, <2>3 DEF Fits
  <2>5. RecordInv
    BY <1>1, <2>1, <2>4 DEF RecordInv
  <2>6. StartInv
    BY <1>1, <1>9, <2>1 DEF StartInv
  <2>7. KnownInv
    BY <1>1, <1>9 DEF KnownInv
  <2>8. QED
    BY <1>6, <1>7, <2>5, <2>6, <2>7 DEF RegistryInv
<1>10. QED
  BY <1>8, <1>9

\* Every step keeps the invariant.
LEMMA StepKeeps ==
  ASSUME RegistryInv, [Next]_vars
  PROVE  RegistryInv'
<1>1. CASE \E t \in Targets : ConfigureFails(t)
  BY <1>1, ConfigureFailsKeeps
<1>2. ASSUME NEW t \in Targets, GetNone(t)
      PROVE  RegistryInv'
  <2>1. Ready
    BY <1>2 DEF Ready, GetNone, Prepare
  <2>2. QED
    BY <1>2, <2>1, GetNoneSettles, SettledKeeps
<1>3. ASSUME NEW t \in Targets, Get(t)
      PROVE  RegistryInv'
  <2>1. Ready
    BY <1>3 DEF Ready, Get, Prepare
  <2>2. QED
    BY <1>3, <2>1, GetSettles, SettledKeeps
<1>4. CASE ListTargets
  <2>1. Ready
    BY <1>4 DEF Ready, ListTargets, Prepare
  <2>2. QED
    BY <1>4, <2>1, ListSettles, SettledKeeps
<1>5. CASE \E s \in Agents, address \in Addresses : Announce(s, address)
  BY <1>5, AnnounceKeeps
<1>6. CASE Close
  BY <1>6, CloseKeeps
<1>7. CASE UNCHANGED vars
  <2>1. /\ declared' = declared /\ configured' = configured /\ listening' = listening
        /\ records' = records /\ inbox' = inbox /\ sockets' = sockets /\ made' = made
        /\ closed' = closed /\ ads' = ads /\ heard' = heard /\ last' = last
    BY <1>7 DEF vars
  <2>2. (Accepted' <=> Accepted) /\ KnownTargets' = KnownTargets
    BY <2>1, DeclaredStays
  <2>3. \A s : Waiting(s)' = Waiting(s) /\ Latest(s)' = Latest(s)
    BY <2>1 DEF Waiting, Latest
  <2>4. RegistryType' /\ RecordInv'
    BY <2>1 DEF RegistryInv, RegistryType, RecordInv, Targets, Ad
  <2>5. HeardInv'
    BY <2>1, <2>3 DEF RegistryInv, HeardInv
  <2>6. StartInv' /\ KnownInv'
    BY <2>1, <2>2 DEF RegistryInv, StartInv, KnownInv
  <2>7. QED
    BY <2>4, <2>5, <2>6 DEF RegistryInv
<1>8. QED
  BY <1>1, <1>2, <1>3, <1>4, <1>5, <1>6, <1>7 DEF Next

\* RegistryInv is an invariant.
THEOREM RegistryIsSound == Spec => []RegistryInv
<1>1. Init => RegistryInv
  BY InitHolds
<1>2. RegistryInv /\ [Next]_vars => RegistryInv'
  BY StepKeeps
<1>3. QED
  BY <1>1, <1>2, PTL DEF Spec

\* Type correctness (BackendRuntime): whatever is declared, announced and called,
\* sockets are open to valid addresses only.
THEOREM TypesHold == Spec => []TypeOK
<1>1. RegistryInv => TypeOK
  <2>1. SUFFICES ASSUME RegistryInv PROVE TypeOK
    OBVIOUS
  <2>2. RegistryType /\ RecordInv
    BY <2>1 DEF RegistryInv
  <2>3. /\ records \in [Selectors -> Record] /\ sockets \subseteq Socket
        /\ made \in 0 .. MaxSockets
    BY <2>2 DEF RecordInv, Fits
  <2>4. QED
    BY <2>2, <2>3 DEF RegistryType, TypeOK, Record, Socket, Ad
<1>2. QED
  BY <1>1, RegistryIsSound, PTL

\* _refresh_discovery and get: a record with a backend has an open one to its own
\* address, and no open backend is forgotten, however machines move.
THEOREM BackendsFollow == Spec => []BackendFollowsRecord
<1>1. RegistryInv => BackendFollowsRecord
  BY DEF RegistryInv, RecordInv, Fits, BackendFollowsRecord
<1>2. QED
  BY <1>1, RegistryIsSound, PTL

\* close: no socket survives it.
THEOREM CloseLeavesNothing == Spec => []CloseIsComplete
<1>1. RegistryInv => CloseIsComplete
  BY DEF RegistryInv, RecordInv, CloseIsComplete
<1>2. QED
  BY <1>1, RegistryIsSound, PTL

\* Only get serves a call.
LEMMA OnlyGetServes ==
  ASSUME [Next]_vars, last' # last, last'.served
  PROVE  \E t \in Targets : Get(t)
<1>1. \A t \in Targets : ~ ConfigureFails(t) /\ ~ GetNone(t)
  <2>1. TAKE t \in Targets
  <2>2. [NoCall EXCEPT !.target = t].served = FALSE
    BY DEF NoCall
  <2>3. QED
    BY <2>2 DEF ConfigureFails, GetNone
<1>2. ~ ListTargets
  BY DEF ListTargets
<1>3. \A s \in Agents, address \in Addresses : ~ Announce(s, address)
  BY DEF Announce
<1>4. ~ Close
  BY DEF Close
<1>5. QED
  BY <1>1, <1>2, <1>3, <1>4 DEF Next, vars

\* get: the backend handed over goes to where the agent announced itself last.
THEOREM LatestIsReached == Spec => ReachesLatest
<1>. DEFINE A == \A s \in Agents :
                   last' # last /\ last'.served /\ last'.selector = s /\ heard[s] # Invalid =>
                     [id |-> last'.backend, address |-> heard[s]] \in sockets'
<1>1. ASSUME RegistryInv, [Next]_vars
      PROVE  A
  <2>1. SUFFICES ASSUME NEW s \in Agents, last' # last, last'.served, last'.selector = s,
                        heard[s] # Invalid
                 PROVE  [id |-> last'.backend, address |-> heard[s]] \in sockets'
    OBVIOUS
  <2>2. PICK t \in Targets : Get(t)
    BY <1>1, <2>1, OnlyGetServes
  <2>3. Ready
    BY <1>1, <2>2 DEF Ready, Get, Prepare
  <2>4. [id |-> last'.backend, address |-> Refreshed.records[s].address] \in sockets'
    BY <2>1, <2>2, <2>3, GetSettles
  <2>5. s \in Selectors
    BY RegistryAssumption
  <2>6. Refreshed.records[s].address = heard[s]
    BY <2>1, <2>3, <2>5, RefreshedIsGood DEF Agrees
  <2>7. QED
    BY <2>4, <2>6
<1>2. RegistryInv /\ [Next]_vars => [A]_vars
  BY <1>1
<1>3. QED
  BY <1>2, RegistryIsSound, PTL DEF Spec, ReachesLatest

\* _resolve: a call is served by the one target its argument stands for.
THEOREM ChoiceIsUnique == Spec => OnlyChoice
<1>. DEFINE A == last' # last /\ last'.served /\ (last'.target = NoTarget => Accepted)
                   => Stands(last'.target, last'.selector)
<1>1. ASSUME RegistryInv, [Next]_vars
      PROVE  A
  <2>1. SUFFICES ASSUME last' # last, last'.served, last'.target = NoTarget => Accepted
                 PROVE  Stands(last'.target, last'.selector)
    OBVIOUS
  <2>2. PICK t \in Targets : Get(t)
    BY <1>1, <2>1, OnlyGetServes
  <2>3. Ready
    BY <1>1, <2>2 DEF Ready, Get, Prepare
  <2>. DEFINE K == KnownTo(Refreshed)
              s == last'.selector
  <2>4. last'.target = t /\ Denoted(K, t) = {s}
    BY <2>2, <2>3, GetSettles
  <2>5. K \subseteq KnownTargets /\ (Accepted \/ declared.injected => K = KnownTargets)
    BY <2>3, RefreshedIsGood
  <2>6. s \in K
    BY <2>4, DenotedIsKnown
  <2>. HIDE DEF K, s
  <2>7. CASE Accepted \/ declared.injected
    BY <2>1, <2>4, <2>5, <2>7 DEF Denoted, Stands, s
  <2>8. CASE ~ Accepted /\ ~ declared.injected
    <3>1. heard = [x \in Selectors |-> Invalid] /\ declared \in Environments
      BY <1>1, <2>8 DEF RegistryInv, StartInv, RegistryType
    <3>2. t # NoTarget /\ (t = s \/ NameOf[s] = t)
      BY <2>1, <2>4, <2>6, <2>8 DEF Denoted
    <3>3. CASE IsLocal
      <4>1. KnownTargets = {Local} /\ s = Local
        BY <2>5, <2>6, <2>8, <3>1, <3>3 DEF KnownTargets
      <4>2. QED
        BY <2>4, <3>2, <4>1 DEF Stands, s
    <3>4. CASE ~ IsLocal
      <4>1. PICK k \in DOMAIN declared.targets : s = declared.targets[k].selector
        BY <2>5, <2>6, <2>8, <3>1, <3>4 DEF KnownTargets
      <4>2. NameOf[s] = s
        BY <3>1, <4>1, DeclaredSelectors
      <4>3. QED
        BY <2>4, <3>2, <4>2 DEF Stands, s
    <3>5. QED
      BY <3>3, <3>4
  <2>9. QED
    BY <2>7, <2>8
<1>2. RegistryInv /\ [Next]_vars => [A]_vars
  BY <1>1
<1>3. QED
  BY <1>2, RegistryIsSound, PTL DEF Spec, OnlyChoice
============================================================================
