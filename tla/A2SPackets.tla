------------------------------ MODULE A2SPackets ------------------------------
(***************************************************************************)
(* The packet builders of modules_1/src/utils.cpp.  A builder is given a   *)
(* buffer of some size, of which nothing is known; it copies to places of  *)
(* it and says how many bytes are to be sent.  Texts are sequences of      *)
(* bytes.  (Adding "\0" to a std::string adds nothing, so no byte          *)
(* separates the fields.)                                                  *)
(***************************************************************************)
EXTENDS Integers, Sequences, SequencesExt

CONSTANT SmallestBuffer   \* 1400: builders refuse a smaller buffer

ASSUME A2SPacketsAssumption == SmallestBuffer \in Nat

(* std::to_string of a number that is not negative. *)
Decimal[n \in Nat] ==
  IF n < 10 THEN <<48 + n>> ELSE Append(Decimal[n \div 10], 48 + (n % 10))

(* memcpy of n bytes to offset at: what it leaves in memory, by offset. *)
Copy(at, bytes, n) == [k \in at..(at + n - 1) |-> bytes[k - at + 1]]

(* Two copies, to places that do not overlap. *)
Both(first, second) ==
  [k \in DOMAIN first \cup DOMAIN second |->
     IF k \in DOMAIN first THEN first[k] ELSE second[k]]

(* What a builder returns, and what it has written. *)
Nothing == [size |-> 0, written |-> <<>>]

CreateMasterServerPacket(bufferSize, ip, port) ==
  LET payload   == ip \o <<58>> \o Decimal[port]
      totalSize == Len(payload)
  IN  IF bufferSize < SmallestBuffer \/ totalSize > bufferSize THEN Nothing
      ELSE [size |-> totalSize, written |-> Copy(0, payload, totalSize)]

(* Mutation of Answer: the header is forgotten when the size is compared. *)
AnswerPayloadFits(bufferSize, header, payload) ==
  LET totalSize == Len(header) - 1 + Len(payload)
  IN  IF bufferSize < SmallestBuffer \/ Len(payload) > bufferSize THEN Nothing
      ELSE [size |-> totalSize,
            written |-> Both(Copy(0, header, Len(header) - 1),
                             Copy(Len(header) - 1, payload, Len(payload)))]

(* The end of both answers: of the header all but the last byte, the type. *)
Answer(bufferSize, header, payload) ==
  LET totalSize == Len(header) - 1 + Len(payload)
  IN  IF bufferSize < SmallestBuffer \/ totalSize > bufferSize THEN Nothing
      ELSE [size |-> totalSize,
            written |-> Both(Copy(0, header, Len(header) - 1),
                             Copy(Len(header) - 1, payload, Len(payload)))]

CreateA2SInfoPacket(bufferSize, name, map, players, maxPlayers, version) ==
  Answer(bufferSize, <<255, 255, 255, 255, 73>>,
         name \o map \o Decimal[players] \o Decimal[maxPlayers] \o Decimal[version])

CreateA2SPlayerPacket(bufferSize, players) ==
  Answer(bufferSize, <<255, 255, 255, 255, 80>>, FlattenSeq(players))

(* A packet of which every byte sent was written, and none beside the buffer. *)
KeepsTo(packet, bufferSize) ==
  /\ DOMAIN packet.written \subseteq 0..(bufferSize - 1)
  /\ 0..(packet.size - 1) \subseteq DOMAIN packet.written
==============================================================================
