----------------------------- MODULE WireFormat -----------------------------
(***************************************************************************)
(* What travels between bridge and agents: the payload codecs of           *)
(* protocol/messages.py, the datagrams of protocol/packet.py, and how      *)
(* their receivers collect them.                                           *)
(*                                                                         *)
(* A message is its struct fields and the variable parts that follow them. *)
(* struct is external: a payload is a sequence of packed values, one for   *)
(* each field of the struct and one for each byte of a variable part, and  *)
(* the same Struct packs and unpacks them.  CRC-16 and MAC are ideal: they *)
(* accept what they were computed over.                                    *)
(***************************************************************************)
EXTENDS Integers, Sequences, SequencesExt, FiniteSetsExt

CONSTANTS
  MaxText, MaxKeys,   \* of a key request, 4096 and 128 in the code
  MaxPath,            \* MAX_DOS_PATH_BYTES, 80
  MaxBlock,           \* MAX_TRANSFER_BLOCK, 900
  FragmentPayload,    \* MAX_FRAGMENT_PAYLOAD, 1024
  MaxFragments        \* 32

ASSUME WireAssumption ==
  /\ MaxText \in Nat /\ MaxKeys \in Nat /\ MaxPath \in 1 .. 255 /\ MaxBlock \in Nat \ {0}
  /\ FragmentPayload \in Nat \ {0} /\ MaxFragments \in Nat \ {0}

Bad == [type |-> "bad"]     \* an exception
None == [type |-> "none"]

-----------------------------------------------------------------------------
(* The messages.                                                           *)

B(k) == [i \in 1 .. k |-> 255]
H(k) == [i \in 1 .. k |-> 65535]
I == <<2147483647>>   \* 32 bits; half of them, as TLC's integers have

\* The struct of each message: the largest value of each field.  A signed
\* field is its 16-bit pattern.
Struct ==
  [HelloRequest   |-> I,
   HelloResponse  |-> I \o I \o H(2),
   Status         |-> B(6) \o H(1) \o I,
   Diagnostics    |-> B(2) \o H(15) \o B(2) \o H(2) \o B(2),
   Capabilities   |-> I \o B(3) \o H(2),
   Screen         |-> B(9) \o H(2),
   KeyRequest     |-> H(1) \o B(1) \o H(1),
   KeyResponse    |-> H(1) \o B(1) \o H(1),
   FileReadBegin  |-> B(1),
   FileWriteBegin |-> B(1) \o I \o I \o B(1),
   TransferBegin  |-> H(1) \o I,
   ReadBlock      |-> H(1) \o I \o H(1),
   WriteBlock     |-> H(1) \o I \o H(1),
   BlockResponse  |-> H(1) \o I \o H(1) \o I,
   TransferEnd    |-> H(1),
   EndResponse    |-> I \o I,
   GraphicsBegin  |-> H(1) \o B(4) \o H(2) \o I \o I]

Types == DOMAIN Struct
Blocks == {"ReadBlock", "WriteBlock"}   \* TransferBlockRequest without and with data

Adapters == 0 .. 4 \cup {254}
Layouts == 1 .. 6
Planar4 == 4
Phases == 1 .. 7
KeyCodes == 1 .. 27
NoMemory == <<0, 0, 0, 0, 0, 0>>

\* Lengths of the variable parts that decode() expects after the fields f.
Follow(t, f) ==
  CASE t = "Diagnostics"    -> <<IF f[1] = 2 THEN 6 ELSE 0>>
    [] t = "Screen"         -> <<2 * f[1] * f[2]>>
    [] t = "KeyRequest"     -> <<f[1], f[2]>>
    [] t = "FileReadBegin"  -> <<f[1]>>
    [] t = "FileWriteBegin" -> <<f[4]>>
    [] t = "ReadBlock"      -> <<0>>
    [] t \in {"WriteBlock", "BlockResponse"} -> <<f[3]>>
    [] OTHER -> <<>>

-----------------------------------------------------------------------------
(* Checks that encode() and decode() share; f fields, v variable parts.    *)

ScreenValid(f, v) ==
  f[1] > 0 /\ f[2] > 0 /\ Len(v[1]) = 2 * f[1] * f[2] /\ f[5] < f[2] /\ f[6] < f[1]

PathValid(path) == Len(path) \in 1 .. MaxPath /\ 0 \notin Range(path)

BlockValid(f, v) ==
  f[1] # 0 /\ f[3] \in 1 .. MaxBlock /\ (v[1] # <<>> => Len(v[1]) = f[3])

-----------------------------------------------------------------------------
(* encode().                                                               *)

\* encode() does not raise.  The messages not named only pack their fields.
Encodes(m) ==
  LET f == m.fields  v == m.parts IN
  CASE m.type = "Diagnostics"   -> f[1] \in {1, 2} /\ (f[1] = 1 => v[1] = NoMemory)
    [] m.type = "Screen"        -> ScreenValid(f, v)
    [] m.type = "KeyRequest"    -> Len(v[1]) <= MaxText /\ Len(v[2]) <= MaxKeys /\ f[3] <= 1000
    [] m.type \in {"FileReadBegin", "FileWriteBegin"} -> PathValid(v[1])
    [] m.type \in Blocks        -> BlockValid(f, v)
    [] m.type = "BlockResponse" -> Len(v[1]) <= MaxBlock
    [] m.type = "TransferEnd"   -> f[1] # 0
    [] OTHER -> TRUE

\* Version 1 of the diagnostics ends with the fields.
Packed(m) ==
  IF m.type = "Diagnostics" /\ m.fields[1] = 1 THEN m.fields
  ELSE m.fields \o FlattenSeq(m.parts)

-----------------------------------------------------------------------------
(* decode().                                                               *)

HelloResponseValid(f) == f[4] \in 64 .. 1024 /\ f[3] # 0

\* The reserved bytes are zero; the byte before the last of version 2 is a flag.
DiagnosticsValid(f, v) ==
  f[1] \in {1, 2} /\ f[23] = 0 /\ (f[1] = 2 => v[1][5] \in {0, 1} /\ v[1][6] = 0)

\* Twelve capability flags are known.
CapabilitiesValid(f) ==
  f[1] < 4096 /\ f[2] > 0 /\ f[3] > 0 /\ f[4] \in Adapters /\ f[5] \in 64 .. 1024

\* Mutant: any nonzero flag counts as true.
FileWriteBeginLax(f, v) == PathValid(v[1])

FileWriteBeginValid(f, v) == f[1] <= 1 /\ PathValid(v[1])

GraphicsBeginValid(f) ==
  /\ f[1] # 0 /\ f[2] \in Adapters /\ f[4] \in Layouts
  /\ f[6] \in 1 .. 2048 /\ f[7] \in 1 .. 2048
  /\ f[8] # 0 /\ f[9] # 0 /\ f[5] \in 1 .. 4 /\ f[8] = f[5] * f[9]
  /\ f[5] = (IF f[4] = Planar4 THEN 4 ELSE 1)

\* decode() does not raise on values of the right number.
Valid(t, f, v) ==
  CASE t = "HelloResponse"  -> HelloResponseValid(f)
    [] t = "Status"         -> f[6] \in Phases
    [] t = "Diagnostics"    -> DiagnosticsValid(f, v)
    [] t = "Capabilities"   -> CapabilitiesValid(f)
    [] t = "Screen"         -> f[9] \in Adapters /\ ScreenValid(f, v)
    [] t = "KeyRequest"     -> Range(v[2]) \subseteq KeyCodes
    [] t = "FileReadBegin"  -> PathValid(v[1])
    [] t = "FileWriteBegin" -> FileWriteBeginValid(f, v)
    [] t = "TransferBegin"  -> f[1] # 0
    [] t \in Blocks         -> BlockValid(f, v)
    [] t = "BlockResponse"  -> f[3] <= MaxBlock
    [] t = "GraphicsBegin"  -> GraphicsBeginValid(f)
    [] OTHER -> TRUE

\* The message made of what was unpacked: bool() of the overwrite flag, no
\* reserved byte, and memory data of zeros for version 1.
Made(t, f, v) ==
  [type |-> t,
   fields |-> CASE t = "FileWriteBegin" -> [f EXCEPT ![1] = IF @ = 0 THEN 0 ELSE 1]
                [] t = "Diagnostics"    -> [f EXCEPT ![23] = 0]
                [] OTHER -> f,
   parts |-> IF t = "Diagnostics" /\ f[1] = 1 THEN <<NoMemory>> ELSE v]

Total(lengths) == FoldLeft(LAMBDA a, b : a + b, 0, lengths)

Decode(t, payload) ==
  LET size == Len(Struct[t])
      f == SubSeq(payload, 1, size)
      lengths == Follow(t, f)
      start(i) == Total(SubSeq(lengths, 1, i - 1)) + size
      v == [i \in DOMAIN lengths |-> SubSeq(payload, start(i) + 1, start(i) + lengths[i])]
  IN IF Len(payload) < size THEN Bad
     ELSE IF Len(payload) # size + Total(lengths) THEN Bad
     ELSE IF Valid(t, f, v) THEN Made(t, f, v) ELSE Bad

-----------------------------------------------------------------------------
(* Datagrams.                                                              *)

\* Mutant: the division drops the rest.
FragmentCountShort(n) == IF n < FragmentPayload THEN 1 ELSE n \div FragmentPayload

FragmentCount(n) ==
  LET k == (n + FragmentPayload - 1) \div FragmentPayload IN IF k = 0 THEN 1 ELSE k

\* fragment_message, with the identity of the message in each packet.
FragmentMessage(identity, payload) ==
  LET k == FragmentCount(Len(payload)) IN
  IF Len(payload) > FragmentPayload * MaxFragments THEN <<>>
  ELSE [i \in 1 .. k |->
          [identity |-> identity, index |-> i - 1, count |-> k,
           payload |-> SubSeq(payload, (i - 1) * FragmentPayload + 1,
                              IF i * FragmentPayload < Len(payload)
                              THEN i * FragmentPayload ELSE Len(payload))]]

\* Packet.__post_init__.
PacketValid(p) ==
  p.count \in 1 .. MaxFragments /\ p.index < p.count /\ Len(p.payload) <= FragmentPayload

EncodePacket(p) ==
  [identity |-> p.identity, index |-> p.index, count |-> p.count,
   declared |-> Len(p.payload), covered |-> p.payload, payload |-> p.payload]

\* Packet.decode: one zero byte may follow the payload.
DecodePacket(d) ==
  LET n == Len(d.payload)
      padded == n = d.declared + 1 /\ d.payload[n] = 0
      body == IF padded THEN SubSeq(d.payload, 1, n - 1) ELSE d.payload
  IN IF /\ d.declared <= FragmentPayload
        /\ padded \/ n = d.declared
        /\ d.count \in 1 .. MaxFragments /\ d.index < d.count
        /\ body = d.covered
     THEN [type |-> "packet", identity |-> d.identity, index |-> d.index, count |-> d.count,
           payload |-> body]
     ELSE Bad

\* reassemble_packets of the collected packets, a function of their indices.
Reassemble(packets) ==
  LET k == packets[CHOOSE i \in DOMAIN packets : TRUE].count IN
  IF \/ \E i \in DOMAIN packets : packets[i].count # k
     \/ Cardinality(DOMAIN packets) # k
  THEN Bad
  ELSE [type |-> "whole", payload |-> FlattenSeq([i \in 1 .. k |-> packets[i - 1].payload])]

-----------------------------------------------------------------------------
(* Messages to try: an example of each type, the example with one field at *)
(* a boundary, and with parts that fit, are short or empty, or have zeros. *)

Example ==
  [HelloRequest   |-> <<7>>,
   HelloResponse  |-> <<7, 8, 9, 1024>>,
   Status         |-> <<2, 0, 5, 0, 0, 3, 640, 7>>,
   Diagnostics    |-> <<2, 255>> \o H(15) \o <<3, 3, 65535, 0, 18, 0>>,
   Capabilities   |-> <<4095, 80, 25, 254, 1024, 128>>,
   Screen         |-> <<2, 2, 3, 0, 1, 1, 6, 7, 4, 437, 9>>,
   KeyRequest     |-> <<2, 1, 10>>,
   KeyResponse    |-> <<2, 1, 9>>,
   FileReadBegin  |-> <<2>>,
   FileWriteBegin |-> <<1, 7, 7, 2>>,
   TransferBegin  |-> <<5, 7>>,
   ReadBlock      |-> <<5, 7, 2>>,
   WriteBlock     |-> <<5, 7, 2>>,
   BlockResponse  |-> <<5, 7, 2, 7>>,
   TransferEnd    |-> <<5>>,
   EndResponse    |-> <<7, 7>>,
   GraphicsBegin  |-> <<5, 4, 18, 4, 4, 640, 480, 153600, 38400>>]

Boundaries == 0 .. 6 \cup {27, 28, 63, 64, 255, 1000, 1001, 1024, 1025, 2048, 2049, 4096, 65535}
MaxLength == 10   \* bound on a variable part that is tried

Fields(t) ==
  UNION {{[Example[t] EXCEPT ![i] = b] : b \in {x \in Boundaries : x <= Struct[t][i]}}
         : i \in DOMAIN Struct[t]}

Parts(t, f) ==
  IF t = "Diagnostics" THEN {<<NoMemory>>, <<<<1, 1, 1, 1, 1, 0>>>>}
  ELSE {[i \in DOMAIN Follow(t, f) |-> [j \in 1 .. Follow(t, f)[i] - cut |-> b]]
        : cut \in {0, 1, MaxLength}, b \in {0, 1}}
       \cup (IF t = "ReadBlock" THEN {<<[j \in 1 .. 2 |-> 1]>>} ELSE {})

\* The members of enumerations, booleans, reserved bytes and packed lengths
\* are what the classes make them.
Typed(m) ==
  LET f == m.fields  v == m.parts IN
  CASE m.type = "Status"         -> f[6] \in Phases
    [] m.type = "Diagnostics"    -> f[23] = 0
    [] m.type = "Capabilities"   -> f[4] \in Adapters
    [] m.type = "Screen"         -> f[9] \in Adapters
    [] m.type = "KeyRequest"     -> /\ f[1] = Len(v[1]) /\ f[2] = Len(v[2])
                                    /\ Range(v[2]) \subseteq KeyCodes
    [] m.type = "FileReadBegin"  -> f[1] = Len(v[1])
    [] m.type = "FileWriteBegin" -> f[1] \in {0, 1} /\ f[4] = Len(v[1])
    [] m.type = "BlockResponse"  -> f[3] = Len(v[1])
    [] m.type = "GraphicsBegin"  -> f[2] \in Adapters /\ f[4] \in Layouts
    [] OTHER -> TRUE

Messages ==
  {m \in UNION {[type : {t}, fields : {f}, parts : Parts(t, f)]
                : <<t, f>> \in UNION {{t} \X {f \in Fields(t) : \A i \in DOMAIN Follow(t, f) :
                                         Follow(t, f)[i] <= MaxLength} : t \in Types}}
   : Typed(m)}

ExampleMessage(t) ==
  [type |-> t, fields |-> Example[t],
   parts |-> [i \in DOMAIN Follow(t, Example[t]) |->
                [j \in 1 .. Follow(t, Example[t])[i] |-> IF t = "Diagnostics" THEN 0 ELSE 1]]]

\* A payload that is short or long, or has one other value.
Damaged(payload) ==
  {Front(payload), Append(payload, 0), payload \o <<0, 0>>} \cup
  {[payload EXCEPT ![i] = b] : i \in DOMAIN payload, b \in {0, 1, 2, 28, 255, 1001}}

-----------------------------------------------------------------------------
(* A payload crosses the network: it is cut, its datagrams arrive in any   *)
(* order, again, padded, damaged or not at all, among those of another     *)
(* message.                                                                *)

VARIABLES
  type, message,   \* what is sent, None for a payload of another maker
  payload,
  packets,         \* the payload cut into packets
  received,        \* collected packets, by their index
  value            \* what the receiver decoded, None before

wire == <<type, message, payload, packets, received, value>>

Send(t, m, values) ==
  /\ type = t /\ message = m /\ payload = values
  /\ packets = FragmentMessage("m", values)
  /\ received = <<>> /\ value = None

Init ==
  \/ \E m \in {x \in Messages : Encodes(x)} : Send(m.type, m, Packed(m))
  \/ \E t \in Types : \E values \in Damaged(Packed(ExampleMessage(t))) : Send(t, None, values)

\* As it was sent, with a pad byte, with two, and cut short.
Datagrams(p) ==
  LET d == EncodePacket(p) IN
  {d, [d EXCEPT !.payload = Append(@, 0)], [d EXCEPT !.payload = @ \o <<0, 0>>]} \cup
  (IF d.payload = <<>> THEN {} ELSE {[d EXCEPT !.payload = Front(@)]})

\* What is left of the datagrams after the packet p.  A repeated one replaces
\* itself; the last one completes the message.
Store(p) ==
  LET all == (p.index :> p) @@ received IN
  /\ received' = all
  /\ value' = IF Cardinality(DOMAIN all) # p.count THEN None
              ELSE IF Reassemble(all) = Bad THEN Bad
              ELSE Decode(type, Reassemble(all).payload)

\* One datagram of one of two messages.  Neither what Packet.decode refuses
\* nor a packet of the other message is kept.
Arrive(identity, i) ==
  /\ value = None
  /\ \E d \in Datagrams([packets[i] EXCEPT !.identity = identity]) :
       LET p == DecodePacket(d) IN
       IF p = Bad \/ identity # "m" THEN UNCHANGED <<received, value>> ELSE Store(p)
  /\ UNCHANGED <<type, message, payload, packets>>

Next == \E identity \in {"m", "o"}, i \in DOMAIN packets : Arrive(identity, i)

Spec == Init /\ [][Next]_wire

-----------------------------------------------------------------------------
\* Messages that encode() packs and decode() may refuse: the encoders that
\* check nothing, unless the fields have the values that _handle_hello and
\* _start_transfer give them, and data where the receiver expects the other.
MayBeRefused(m) ==
  \/ m.type = "HelloResponse" /\ (m.fields[3] = 0 \/ m.fields[4] # 1024)
  \/ m.type = "TransferBegin" /\ m.fields[1] = 0
  \/ m.type \in {"Capabilities", "GraphicsBegin"}
  \/ m.type \in Blocks /\ (m.type = "ReadBlock") # (m.parts[1] = <<>>)

(* What encode() lets through is decoded as it was, from its fragments in  *)
(* any order, repeated, padded, among damaged ones and those of another    *)
(* message, and only once all have arrived.  Where encode() checks less    *)
(* than decode() the message may be refused, but is never taken for        *)
(* another one (messages.py, fragment_message, Packet.decode,              *)
(* reassemble_packets, _exchange_with_packet).                             *)
ArrivesAsSent ==
  /\ \A i \in DOMAIN packets : PacketValid(packets[i])
  /\ value # None => \A i \in DOMAIN packets : i - 1 \in DOMAIN received
  /\ value # None /\ message # None => value = message \/ (value = Bad /\ MayBeRefused(message))

(* A payload that decode() accepts is the one packing of the value it      *)
(* returns: a lost, an added or a wrong byte is refused or is part of the  *)
(* value.  And it is what encode() would have sent, but for the limits of  *)
(* a key request and the reserved id of a transfer's end, which only       *)
(* encode() checks (messages.py).                                          *)
StrictDecode ==
  value \notin {None, Bad} =>
    /\ Packed(value) = payload
    /\ value.type \notin {"KeyRequest", "TransferEnd"} => Encodes(value)

=============================================================================
