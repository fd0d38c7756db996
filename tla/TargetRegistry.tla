-------------------------- MODULE TargetRegistry --------------------------
(***************************************************************************)
(* BackendRuntime (src/dos_mcp/runtime.py): which machine a tool call      *)
(* reaches.  Targets are declared in the environment or announce themselves*)
(* by broadcast (DiscoveryListener in src/dos_mcp/discovery.py); the tools *)
(* of server.py call one after the other under operation_lock.  Without    *)
(* either there is one record that comes with its backend: the Linux shell *)
(* of this machine, or one handed to create_server.                        *)
(***************************************************************************)
EXTENDS Integers, Sequences, SequencesExt, FiniteSets

CONSTANTS
  Selectors,    \* canonical selectors: declared names and name@adapter-id
  Agents,       \* the selectors that announce themselves
  NameOf,       \* the name of the machine behind a selector
  Addresses,
  Environments, \* how the bridge may be started, see Environment
  Local, Default, \* selectors of the Linux target and of a backend handed over
  Here,         \* the address of those two
  NoTarget,     \* a call without target
  Invalid,      \* an endpoint _parse_endpoint refuses
  MaxAds,       \* bound on the announcements
  MaxSockets    \* bound on the backends

\* targets: DOS_MCP_TARGET or DOS_MCP_TARGETS, in order; the selector of such a
\* target is its name.  fault: "early" for two
\* targets variables, two credentials or a switch that is not 0 or 1;
\* "listener" for a discovery port that is refused.
Environment ==
  [targets : Seq([selector : Selectors, endpoint : Addresses \cup {Invalid}]),
   discovery : BOOLEAN, fault : {"none", "early", "listener"}, injected : BOOLEAN]

ASSUME RegistryAssumption ==
  /\ Agents \subseteq Selectors
  /\ DOMAIN NameOf = Selectors /\ {Local, Default} \subseteq Selectors
  /\ Environments \subseteq Environment
  /\ \A e \in Environments : \A k \in DOMAIN e.targets :
       NameOf[e.targets[k].selector] = e.targets[k].selector
  /\ Invalid \notin Addresses \cup {Here}
  /\ MaxAds \in Nat /\ MaxSockets \in Nat \ {0}

VARIABLES
  declared,    \* the environment the bridge was started in
  configured,  \* _configured
  listening,   \* whether there is a DiscoveryListener
  records,     \* _records
  inbox,       \* datagrams in the socket of the listener
  sockets,     \* the UdpBackends that are open, with their addresses
  made,        \* UdpBackends made so far
  closed,
  \* history
  ads,         \* announcements so far
  heard,       \* where each agent last announced itself
  last         \* the latest call and the record that served it

vars == <<declared, configured, listening, records, inbox, sockets, made, closed, ads, heard,
          last>>

\* backend 0 is None.
Unknown == [known |-> FALSE, address |-> Invalid, backend |-> 0]
NoCall  == [target |-> NoTarget, served |-> FALSE, selector |-> NoTarget, backend |-> 0]

\* A record with a backend from the start, which has the number 1.
Own(selector) ==
  [[s \in Selectors |-> Unknown] EXCEPT
     ![selector] = [known |-> TRUE, address |-> Here, backend |-> 1]]
OwnSocket == {[id |-> 1, address |-> Here]}

Init ==
  /\ declared \in Environments
  /\ configured = declared.injected
  /\ records = IF declared.injected THEN Own(Default) ELSE [s \in Selectors |-> Unknown]
  /\ sockets = IF declared.injected THEN OwnSocket ELSE {}
  /\ made = IF declared.injected THEN 1 ELSE 0
  /\ listening = FALSE
  /\ inbox = << >>
  /\ closed = FALSE
  /\ ads = 0
  /\ heard = [s \in Selectors |-> Invalid]
  /\ last = NoCall

----------------------------------------------------------------------------
\* _add_static for the first n entries.
Static(n) ==
  [s \in Selectors |->
     IF \E k \in 1 .. n : declared.targets[k].selector = s
     THEN [known |-> TRUE, backend |-> 0, address |->
             declared.targets[CHOOSE k \in 1 .. n : declared.targets[k].selector = s].endpoint]
     ELSE Unknown]

\* The entries before the first one that is refused.
ValidPrefix ==
  CHOOSE n \in 0 .. Len(declared.targets) :
    /\ \A k \in 1 .. n : declared.targets[k].endpoint # Invalid
    /\ n < Len(declared.targets) => declared.targets[n + 1].endpoint = Invalid

\* _configure gets to its end.
Accepted == declared.fault = "none" /\ ValidPrefix = Len(declared.targets)

\* Neither targets nor discovery: the Linux target of this machine.
IsLocal == declared.targets = << >> /\ ~ declared.discovery

\* Mutant: the record is added before its endpoint is parsed.
ConfigureFailsLate(t) ==
  /\ ~ closed /\ ~ configured /\ ~ Accepted
  /\ configured' = TRUE
  /\ records' = Static(IF ValidPrefix < Len(declared.targets) THEN ValidPrefix + 1 ELSE 0)
  /\ last' = [NoCall EXCEPT !.target = t]
  /\ UNCHANGED <<declared, listening, inbox, sockets, made, closed, ads, heard>>

\* _configure marks the runtime configured before it reads the environment:
\* what is refused ends the call, and what was added so far stays.
ConfigureFails(t) ==
  /\ ~ closed /\ ~ configured /\ ~ Accepted
  /\ configured' = TRUE
  /\ records' = Static(IF declared.fault = "early" THEN 0 ELSE ValidPrefix)
  /\ last' = [NoCall EXCEPT !.target = t]
  /\ UNCHANGED <<declared, listening, inbox, sockets, made, closed, ads, heard>>

\* _configure that succeeds, or returns at once.
Configured ==
  IF configured THEN [records |-> records, sockets |-> sockets, made |-> made]
  ELSE IF IsLocal THEN [records |-> Own(Local), sockets |-> OwnSocket, made |-> 1]
  ELSE [records |-> Static(ValidPrefix), sockets |-> {}, made |-> 0]

\* The announcements of s that wait in the socket.
Waiting(s) == {k \in DOMAIN inbox : inbox[k].selector = s}

\* Mutant: a backend is kept when its machine has moved.
FollowKeeping(s, old) ==
  IF Waiting(s) = {} THEN old
  ELSE [known |-> TRUE, address |-> inbox[Max(Waiting(s))].address, backend |-> old.backend]

\* Mutant: an agent that is known is not looked at again.
FollowOnce(s, old) ==
  IF Waiting(s) = {} \/ old.known THEN old
  ELSE [known |-> TRUE, address |-> inbox[Max(Waiting(s))].address, backend |-> 0]

\* What the loop of _refresh_discovery makes of the record of s: it is made, or
\* follows the agent from announcement to announcement; the first one from another
\* address takes its backend.
Follow(s, old) ==
  IF Waiting(s) = {} THEN old
  ELSE [known |-> TRUE, address |-> inbox[Max(Waiting(s))].address,
        backend |-> IF \E k \in Waiting(s) : inbox[k].address # old.address THEN 0
                    ELSE old.backend]

\* Mutant: a bare name picks any machine of that name.
DenotedFirst(known, t) ==
  IF t = NoTarget THEN known
  ELSE IF t \in known THEN {t}
  ELSE LET named == {s \in known : NameOf[s] = t}
       IN  IF named = {} THEN {} ELSE {CHOOSE s \in named : TRUE}

\* _resolve: the records an argument stands for; only a single one is accepted.
Denoted(known, t) ==
  IF t = NoTarget THEN known
  ELSE IF t \in known THEN {t}
  ELSE {s \in known : NameOf[s] = t}

\* _configure and _refresh_discovery, of all announcements waiting.
Prepare ==
  /\ ~ closed
  /\ configured \/ Accepted
  /\ configured' = TRUE
  /\ listening' = IF configured THEN listening ELSE declared.discovery
  /\ inbox' = << >>
  /\ UNCHANGED <<declared, closed, ads, heard>>

\* Mutant: the old backend is forgotten, not closed.
RefreshedLeaking ==
  [records |-> [s \in Selectors |-> Follow(s, Configured.records[s])],
   sockets |-> Configured.sockets, made |-> Configured.made]

\* A backend that its record has lost is closed.
Refreshed ==
  LET old == Configured.records
      new == [s \in Selectors |-> Follow(s, old[s])]
  IN  [records |-> new, made |-> Configured.made,
       sockets |-> {b \in Configured.sockets :
                      \A s \in Selectors : old[s].backend = b.id => new[s].backend = b.id}]

KnownTo(state) == {s \in Selectors : state.records[s].known}

\* The call is refused: no record, or several.
GetNone(t) ==
  /\ Prepare
  /\ LET state == Refreshed IN
     /\ Cardinality(Denoted(KnownTo(state), t)) # 1
     /\ records' = state.records /\ sockets' = state.sockets /\ made' = state.made
  /\ last' = [NoCall EXCEPT !.target = t]

\* get: the one record is served, by a new backend if it has none.
Get(t) ==
  /\ Prepare
  /\ LET state == Refreshed IN
     \E s \in Selectors :
       LET new == state.records[s].backend = 0
           id  == IF new THEN state.made + 1 ELSE state.records[s].backend
       IN
       /\ Denoted(KnownTo(state), t) = {s}
       /\ id <= MaxSockets
       /\ records' = [state.records EXCEPT ![s].backend = id]
       /\ sockets' = state.sockets \cup
            (IF new THEN {[id |-> id, address |-> state.records[s].address]} ELSE {})
       /\ made' = IF new THEN id ELSE state.made
       /\ last' = [target |-> t, served |-> TRUE, selector |-> s, backend |-> id]

\* list_targets resolves nothing, but follows the announcements as well.
ListTargets ==
  /\ Prepare
  /\ LET state == Refreshed IN
     records' = state.records /\ sockets' = state.sockets /\ made' = state.made
  /\ UNCHANGED last

\* An agent announces itself from an address; without a listener nobody hears it.
Announce(s, address) ==
  /\ ads < MaxAds
  /\ ads' = ads + 1
  /\ IF listening
     THEN /\ inbox' = Append(inbox, [selector |-> s, address |-> address])
          /\ heard' = [heard EXCEPT ![s] = address]
     ELSE UNCHANGED <<inbox, heard>>
  /\ UNCHANGED <<declared, configured, listening, records, sockets, made, closed, last>>

\* close, at exit.
Close ==
  /\ ~ closed
  /\ closed' = TRUE
  /\ listening' = FALSE
  /\ inbox' = << >>
  /\ sockets' = {b \in sockets : \A s \in Selectors : records[s].backend # b.id}
  /\ UNCHANGED <<declared, configured, records, made, ads, heard, last>>

Targets == Selectors \cup {NameOf[s] : s \in Selectors} \cup {NoTarget}

Next ==
  \/ \E t \in Targets : ConfigureFails(t) \/ GetNone(t) \/ Get(t)
  \/ ListTargets
  \/ \E s \in Agents, address \in Addresses : Announce(s, address)
  \/ Close

Spec == Init /\ [][Next]_vars

----------------------------------------------------------------------------
(* Properties.                                                             *)

\* Type correctness: what is open goes to a valid address.
TypeOK ==
  /\ declared \in Environments
  /\ configured \in BOOLEAN /\ listening \in BOOLEAN /\ closed \in BOOLEAN
  /\ records \in [Selectors -> [known : BOOLEAN, address : Addresses \cup {Here, Invalid},
                                backend : 0 .. MaxSockets]]
  /\ inbox \in Seq([selector : Agents, address : Addresses])
  /\ sockets \subseteq [id : 1 .. MaxSockets, address : Addresses \cup {Here}]
  /\ made \in 0 .. MaxSockets
  /\ ads \in 0 .. MaxAds
  /\ heard \in [Selectors -> Addresses \cup {Invalid}]
  /\ last.target \in Targets

\* Agents move while backends to them are open.  Every record that has a backend
\* has an open one to its own address, and no socket is open that no record has.
BackendFollowsRecord ==
  ~ closed =>
    /\ \A s \in Selectors : records[s].backend # 0 =>
         [id |-> records[s].backend, address |-> records[s].address] \in sockets
    /\ \A b \in sockets : \E s \in Selectors : records[s].backend = b.id

\* Closing the runtime leaves no socket open.
CloseIsComplete == closed => sockets = {}

\* When a call is served, the backend it is handed goes to the address its agent
\* announced last, however many announcements were waiting.
ReachesLatest ==
  [][\A s \in Agents : last' # last /\ last'.served /\ last'.selector = s /\ heard[s] # Invalid =>
       [id |-> last'.backend, address |-> heard[s]] \in sockets']_vars

\* The targets a caller may know of: the one handed over, or the declared ones and
\* those announced and heard.
KnownTargets ==
  {s \in Selectors : heard[s] # Invalid} \cup
    (IF declared.injected THEN {Default} ELSE IF IsLocal THEN {Local}
     ELSE {declared.targets[k].selector : k \in DOMAIN declared.targets})

\* s is the one known target the argument t stands for: its selector, a name no
\* other has, or no argument and no other target.
Stands(t, s) ==
  \/ t = s
  \/ t \notin KnownTargets /\ {x \in KnownTargets : NameOf[x] = t} = {s}
  \/ t = NoTarget /\ KnownTargets = {s}

\* A call is served only by the one target its argument stands for, although
\* targets appear between calls, and after a refused configuration too if it
\* names a target.
OnlyChoice ==
  [][last' # last /\ last'.served /\ (last'.target = NoTarget => Accepted)
       => Stands(last'.target, last'.selector)]_vars
============================================================================
