----------------------------- MODULE TFTP_proofs -----------------------------
(***************************************************************************)
(* Proofs about the TFTP server and its client (TFTP.tla), for files of    *)
(* every length, every width of the block numbers, and with or without     *)
(* other clients: the types, what may be in the file while it is received  *)
(* and afterwards, and what a client may rely on.                          *)
(***************************************************************************)
EXTENDS TFTP, SequenceTheorems, FiniteSetTheorems, TLAPS

(* No two different members.                                               *)
AtMostOne(S) == \A i, j \in S : i = j

(* While a block is waited for, the file is open, has as many blocks as    *)
(* were acknowledged, and the timeouts have not been used up.              *)
Counting ==
    server = "waiting" =>
      exists /\ Len(file) = Ack_counter /\ timeoutExpiredCount < NUMBER_OF_FAILURES

(* Where a block may be that does not belong where it is.  The next block  *)
(* may be written only behind blocks that are in place, and behind the one *)
(* block that an error of select has put there.                            *)
Placing ==
    /\ torn = "no" /\ (server = "waiting" \/ (exists /\ file # <<Other>>)) =>
         Misplaced(file) = {}
    /\ torn = "select" => AtMostOne(Misplaced(file))
    /\ torn \in {"write", "close"} =>
         /\ Misplaced(file) \subseteq {Len(file)}
         /\ server = "waiting" => Misplaced(file) = {}

(* While the client's own datagram was the last to come, its last block    *)
(* was not among those acknowledged; that one is acknowledged to the client *)
(* only with the file ended.                                               *)
Answering ==
    torn = "no" =>
      /\ server = "waiting" /\ client_addr = "client" => Ack_counter < size
      /\ size < BlockMod /\ size \in toClient => stored # "never"

(* A client that is done had its file reported; and a reported file is     *)
(* there and complete until the next write request is taken.               *)
Reported == client = "done" /\ torn = "no" /\ size < BlockMod => stored # "never"
Lasting  == stored = "yes" => server # "waiting" /\ exists /\ Ends(file)

IInv == /\ TypeOK /\ Counting /\ Placing /\ Answering /\ AllOrNothing
        /\ Reported /\ Lasting

-----------------------------------------------------------------------------
(* Block numbers and places *)

(* Of the blocks of a file, none but the last can have a number that is    *)
(* not its own, and that number is 0.                                      *)
LEMMA NumberOfBlock ==
    ASSUME NEW block \in 1 .. BlockMod
    PROVE  /\ block % BlockMod \in 0 .. BlockMod - 1
           /\ block < BlockMod => block % BlockMod = block
           /\ block = BlockMod => block % BlockMod = 0
  BY TFTPAssumption

LEMMA NumberOnWire ==
    ASSUME NEW block \in Nat
    PROVE  /\ block % BlockMod \in 0 .. BlockMod - 1
           /\ block < BlockMod => block % BlockMod = block
  BY TFTPAssumption

(* Appending a block makes no other block misplaced.                       *)
LEMMA AppendPlaces ==
    ASSUME NEW S, NEW blocks \in Seq(S), NEW block \in S
    PROVE  Misplaced(Append(blocks, block)) =
             Misplaced(blocks) \cup
               (IF block \in {Len(blocks) + 1, Foreign} THEN {} ELSE {Len(blocks) + 1})
<1>1. /\ DOMAIN Append(blocks, block) = 1 .. Len(blocks) + 1
      /\ DOMAIN blocks = 1 .. Len(blocks)
      /\ Len(blocks) \in Nat
  BY AppendProperties, LenProperties
<1>2. \A i \in 1 .. Len(blocks) : Append(blocks, block)[i] = blocks[i]
  BY AppendProperties
<1>3. Append(blocks, block)[Len(blocks) + 1] = block
  BY AppendProperties
<1> QED
  BY <1>1, <1>2, <1>3 DEF Misplaced

(* What a packet that is the next block may hold: that block of the        *)
(* client's file, its last one if it is not full, or a foreign block.      *)
LEMMA ExpectedBlock ==
    ASSUME TypeOK, NEW packet, Receive(packet), Expected(packet)
    PROVE  /\ client_addr' \in {"client", "other"}
           /\ packet.block \in Contents
           /\ packet.block \in {Ack_counter + 1, Foreign}
           /\ client_addr' = "client" =>
                /\ packet.block = Ack_counter + 1
                /\ Ack_counter + 1 \in 1 .. size
                /\ packet.full <=> Ack_counter + 1 # size
           /\ client_addr' = "other" => packet.block = Foreign
<1>1. CASE packet \in toServer /\ client_addr' = "client"
  <2>1. PICK block \in 1 .. size : packet = DATA(block)
    BY <1>1 DEF TypeOK, Packets, Expected, WRQ
  <2>2. packet.block = block /\ packet.number = block % BlockMod /\ packet.full = (block # size)
    BY <2>1 DEF DATA, Numbered
  <2>3. size \in 1 .. BlockMod
    BY TFTPAssumption DEF TypeOK
  <2>4. block % BlockMod = Ack_counter + 1 /\ Ack_counter \in Nat
    BY <2>2 DEF Expected, TypeOK
  <2>5. block = Ack_counter + 1
    BY <2>3, <2>4, NumberOfBlock, TFTPAssumption
  <2>6. packet.full <=> Ack_counter + 1 # size
    BY <2>2, <2>5
  <2> QED
    BY <1>1, <2>2, <2>3, <2>5, <2>6 DEF Contents
<1>2. CASE packet \in ForeignPackets /\ client_addr' = "other"
  <2>1. packet.block = Foreign
    BY <1>2 DEF ForeignPackets, Expected, WRQ, Numbered
  <2> QED
    BY <1>2, <2>1 DEF Contents
<1> QED
  BY <1>1, <1>2 DEF Receive

(* A packet of any kind leaves a block or nothing in the buffer.           *)
LEMMA AnyBlockType ==
    ASSUME TypeOK, NEW packet \in Arriving, packet.type # "WRQ"
    PROVE  packet.block \in Contents
<1>1. CASE packet \in toServer
  <2>1. PICK block \in 1 .. size : packet = DATA(block)
    BY <1>1 DEF TypeOK, Packets, WRQ
  <2> QED
    BY <2>1, TFTPAssumption DEF DATA, Numbered, Contents, TypeOK
<1>2. CASE packet \in ForeignPackets
  BY <1>2 DEF ForeignPackets, Numbered, WRQ, Contents
<1> QED
  BY <1>1, <1>2 DEF Arriving

-----------------------------------------------------------------------------
(* Init, and the steps that leave a file alone or discard it *)

LEMMA InitTypeOK == Init => TypeOK
<1> SUFFICES ASSUME Init PROVE TypeOK
  OBVIOUS
<1>1. file \in Seq(Contents) /\ size \in 1 .. BlockMod
  BY TFTPAssumption DEF Init, ServerInit, Contents, Other
<1>2. message \in Contents /\ sent \in 0 .. size /\ timeoutExpiredCount \in 0 .. NUMBER_OF_FAILURES
  BY <1>1 DEF Init, ServerInit, Contents, Other, NUMBER_OF_FAILURES
<1> QED
  BY <1>1, <1>2 DEF Init, ServerInit, TypeOK

LEMMA InitIInv == Init => IInv
<1> SUFFICES ASSUME Init PROVE IInv
  OBVIOUS
<1>2. TypeOK
  BY InitTypeOK
<1>3. Counting /\ Placing /\ Answering
  BY DEF Init, ServerInit, Counting, Placing, Answering
<1>4. AllOrNothing /\ Reported
  BY DEF Init, ServerInit, AllOrNothing, Reported
<1>5. Lasting
  BY DEF Init, ServerInit, Lasting
<1> QED
  BY <1>2, <1>3, <1>4, <1>5 DEF IInv

(* Between transfers a file stays as it is; a transfer that fails leaves   *)
(* none.                                                                   *)
LEMMA FileKept ==
    ASSUME IInv, size' = size, torn' = torn, server' # "waiting",
           \/ server = "idle" /\ UNCHANGED disk
           \/ server = "waiting" /\ Discard
    PROVE  Counting' /\ Placing' /\ AllOrNothing'
<1> USE DEF IInv
<1>1. Counting'
  BY DEF Counting
<1>2. Placing'
  BY DEF Placing, disk, Discard, Misplaced, AtMostOne
<1>3. AllOrNothing'
  BY DEF AllOrNothing, disk, Discard, Whole, Ends, Misplaced
<1> QED
  BY <1>1, <1>2, <1>3

(* An acknowledgement on its way has a number; one of the request or of a  *)
(* block before the last does not look like that of the last.              *)
LEMMA SendAckNumber ==
    ASSUME TypeOK, NEW to, NEW block \in Nat, SendAck(to, block)
    PROVE  /\ toClient' \subseteq 0 .. BlockMod - 1
           /\ toClient \subseteq toClient'
           /\ to # "client" => toClient' = toClient
           /\ block < size /\ size < BlockMod /\ size \in toClient' => size \in toClient
<1> DEFINE number == block % BlockMod
<1>1. toClient' = IF to = "client" THEN toClient \cup {number} ELSE toClient
  BY DEF SendAck
<1>2. number \in 0 .. BlockMod - 1
  BY NumberOnWire
<1>3. block < size /\ size < BlockMod => number = block
  BY NumberOnWire, TFTPAssumption DEF TypeOK
<1> HIDE DEF number
<1> QED
  BY <1>1, <1>2, <1>3, TFTPAssumption DEF TypeOK

-----------------------------------------------------------------------------
(* The steps of the server *)

(* The client's file stays the same.                                       *)
LEMMA SameFile ==
    ASSUME size' = size
    PROVE  Packets' = Packets /\ Contents' = Contents
  BY DEF Packets, DATA, Numbered, Contents

(* What becomes of the file when a block is put behind the others.         *)
LEMMA FileGrows ==
    ASSUME IInv, server = "waiting", NEW block \in Contents,
           file' = Append(file, block), UNCHANGED <<size, exists>>
    PROVE  /\ exists' /\ Len(file') = Ack_counter + 1 /\ file' \in Seq(Contents)
           /\ file'[Len(file')] = block
           /\ Misplaced(file)' = Misplaced(file) \cup
                (IF block \in {Ack_counter + 1, Foreign} THEN {} ELSE {Ack_counter + 1})
  BY AppendPlaces, AppendProperties DEF IInv, TypeOK, Counting, Misplaced

(* The types after a block is acknowledged.                                *)
LEMMA AckTypes ==
    ASSUME TypeOK, NEW full, Acknowledge(full),
           client_addr' \in {"client", "other"}, message' \in Contents,
           file' \in Seq(Contents), torn' \in {"no", "write", "close", "select"},
           UNCHANGED <<toServer, clientVars>>
    PROVE  TypeOK'
<1>1. Ack_counter + 1 \in Nat /\ size' = size
  BY DEF TypeOK, Acknowledge
<1>2. toClient' \subseteq 0 .. BlockMod - 1
  BY <1>1, SendAckNumber DEF Acknowledge
<1>3. stored' \in {"never", "yes", "retaken"}
  BY DEF Acknowledge, TypeOK
<1>4. server' \in {"waiting", "idle"} /\ timeoutExpiredCount' = 0 /\ Ack_counter' = Ack_counter + 1
      /\ exists' = exists
  BY DEF Acknowledge
<1> QED
  BY <1>1, <1>2, <1>3, <1>4, SameFile DEF TypeOK, clientVars, NUMBER_OF_FAILURES

(* What keeps a reported file there: while a block is waited for there is  *)
(* none, its last block makes it one, and between transfers nothing        *)
(* touches it.                                                             *)
LEMMA LastingAck ==
    ASSUME IInv, server = "waiting", NEW full, Acknowledge(full)
    PROVE  Lasting'
<1>1. exists' /\ stored # "yes"
  BY DEF IInv, Counting, Lasting, Acknowledge
<1>2. stored' = "yes" => ~full /\ Ends(file')
  BY <1>1 DEF Acknowledge
<1>3. Ends(file)' <=> Ends(file')
  BY DEF Ends, Misplaced, Acknowledge
<1> QED
  BY <1>1, <1>2, <1>3 DEF Lasting, Acknowledge

LEMMA LastingWaiting ==
    ASSUME IInv, server = "waiting", stored' = stored
    PROVE  Lasting'
  BY DEF IInv, Lasting

LEMMA LastingKept ==
    ASSUME IInv, UNCHANGED <<size, disk, stored>>, server' = "waiting" => server = "waiting"
    PROVE  Lasting'
<1>1. Ends(file)' <=> Ends(file)
  BY DEF Ends, Misplaced, disk
<1> QED
  BY <1>1 DEF IInv, Lasting, disk

LEMMA WriteBlockStep ==
    ASSUME IInv, WriteBlock, UNCHANGED clientVars
    PROVE  IInv'
<1> USE DEF IInv
<1>1. PICK packet \in Arriving :
        /\ Receive(packet) /\ Expected(packet)
        /\ message' = packet.block
        /\ file' = Append(file, packet.block)
        /\ Acknowledge(packet.full)
  BY DEF WriteBlock
<1>2. /\ client_addr' \in {"client", "other"}
      /\ packet.block \in Contents
      /\ packet.block \in {Ack_counter + 1, Foreign}
      /\ client_addr' = "client" =>
           /\ packet.block = Ack_counter + 1
           /\ Ack_counter + 1 \in 1 .. size
           /\ packet.full <=> Ack_counter + 1 # size
      /\ client_addr' = "other" => packet.block = Foreign
  BY <1>1, ExpectedBlock
<1>3. /\ UNCHANGED <<size, exists, torn, toServer>>
      /\ Ack_counter' = Ack_counter + 1 /\ timeoutExpiredCount' = 0
      /\ server' = IF packet.full THEN "waiting" ELSE "idle"
      /\ stored' = IF ~packet.full /\ Ends(file') THEN "yes" ELSE stored
      /\ SendAck(client_addr', Ack_counter + 1)
  BY <1>1 DEF WriteBlock, Acknowledge, Receive
<1>4. /\ exists' /\ Len(file') = Ack_counter + 1 /\ file' \in Seq(Contents)
      /\ file'[Len(file')] = packet.block
      /\ Misplaced(file)' = Misplaced(file)
  BY <1>1, <1>2, <1>3, FileGrows DEF WriteBlock
<1>5. Ack_counter + 1 \in Nat /\ size \in Nat
  BY TFTPAssumption DEF TypeOK
<1>6. TypeOK'
  BY <1>1, <1>2, <1>3, <1>4, AckTypes DEF TypeOK
<1>7. Counting' /\ Placing'
  BY <1>3, <1>4 DEF Counting, Placing, AtMostOne, WriteBlock, NUMBER_OF_FAILURES
<1>8. ASSUME torn = "no", client_addr' = "client", Ack_counter + 1 = size
      PROVE  ~packet.full /\ Ends(file')
  <2>1. Misplaced(file') = {}
    BY <1>4, <1>8 DEF Placing, WriteBlock
  <2> QED
    BY <1>2, <1>4, <1>8, <2>1 DEF Ends
<1>9. Answering'
  <2> SUFFICES ASSUME torn = "no"
               PROVE  /\ server' = "waiting" /\ client_addr' = "client" => Ack_counter + 1 < size
                      /\ size < BlockMod /\ size \in toClient' => stored' # "never"
    BY <1>3 DEF Answering
  <2>1. server' = "waiting" /\ client_addr' = "client" => Ack_counter + 1 < size
    BY <1>2, <1>3, <1>5, <1>8
  <2>2. /\ client_addr' # "client" => toClient' = toClient
        /\ Ack_counter + 1 < size /\ size < BlockMod /\ size \in toClient' => size \in toClient
    BY <1>3, <1>5, SendAckNumber
  <2>3. stored # "never" \/ (~packet.full /\ Ends(file')) => stored' # "never"
    BY <1>3
  <2>4. size < BlockMod /\ size \in toClient' => stored' # "never"
    BY <1>2, <1>3, <1>5, <1>8, <2>2, <2>3 DEF Answering
  <2> QED
    BY <2>1, <2>4
<1>10. AllOrNothing'
  <2> SUFFICES ASSUME server' = "idle", torn = "no"
               PROVE  Ends(file)' \/ (file' # <<>> /\ Last(file') = Foreign)
    BY <1>3 DEF AllOrNothing
  <2>1. CASE client_addr' = "client"
    BY <1>2, <1>3, <1>8, <2>1 DEF Ends, Misplaced
  <2>2. CASE client_addr' = "other"
    BY <1>1, <1>2, <1>4, <2>2 DEF Last
  <2> QED
    BY <1>2, <2>1, <2>2
<1>11. Reported'
  BY <1>3 DEF Reported, clientVars
<1>12. Lasting'
  BY <1>1, LastingAck DEF WriteBlock
<1> QED
  BY <1>6, <1>7, <1>9, <1>10, <1>11, <1>12

LEMMA WriteShortStep ==
    ASSUME IInv, WriteShort, UNCHANGED clientVars
    PROVE  IInv'
<1> USE DEF IInv
<1>1. PICK packet \in Arriving :
        Receive(packet) /\ Expected(packet) /\ message' = packet.block
  BY DEF WriteShort
<1>2. /\ client_addr' \in {"client", "other"} /\ message' \in Contents
      /\ UNCHANGED toServer
  BY <1>1, ExpectedBlock DEF Receive
<1>3. /\ UNCHANGED <<size, exists>> /\ torn = "no" /\ torn' = "write"
      /\ server' = "idle" /\ Other \in Contents
  BY TFTPAssumption DEF WriteShort, Acknowledge, Contents, TypeOK, Other
<1>4. /\ exists' /\ Len(file') = Ack_counter + 1 /\ file' \in Seq(Contents)
      /\ Misplaced(file)' \subseteq Misplaced(file) \cup {Ack_counter + 1}
  BY <1>3, FileGrows DEF WriteShort
<1>5. TypeOK'
  BY <1>2, <1>3, <1>4, AckTypes DEF WriteShort
<1>6. Counting' /\ Placing'
  BY <1>3, <1>4 DEF Counting, Placing, WriteShort
<1>7. Answering' /\ AllOrNothing' /\ Reported'
  BY <1>3 DEF Answering, AllOrNothing, Reported
<1>8. Lasting'
  BY LastingAck DEF WriteShort
<1> QED
  BY <1>5, <1>6, <1>7, <1>8

LEMMA CloseFailsStep ==
    ASSUME IInv, CloseFails, UNCHANGED clientVars
    PROVE  IInv'
<1> USE DEF IInv
<1>1. PICK packet \in Arriving :
        Receive(packet) /\ Expected(packet) /\ message' = packet.block
  BY DEF CloseFails
<1>2. /\ client_addr' \in {"client", "other"} /\ message' \in Contents
      /\ UNCHANGED toServer
  BY <1>1, ExpectedBlock DEF Receive
<1>3. /\ UNCHANGED <<size, exists>> /\ torn = "no" /\ torn' = "close"
      /\ server' = "idle" /\ Misplaced(file) = {}
  BY DEF CloseFails, Acknowledge, Placing
<1>4. PICK kept \in 0 .. Len(file), cut \in {<<>>, <<Other>>} :
        file' = SubSeq(file, 1, kept) \o cut
  BY DEF CloseFails
<1>5. file \in Seq(Contents) /\ cut \in Seq(Contents) /\ Len(cut) \in 0 .. 1
  <2>1. Other \in Contents
    BY TFTPAssumption DEF TypeOK, Contents, Other
  <2>2. CASE cut = <<>>
    BY <2>2 DEF TypeOK
  <2>3. CASE cut = <<Other>>
    BY <2>1, <2>3 DEF TypeOK
  <2> QED
    BY <1>4, <2>2, <2>3
<1>6. /\ SubSeq(file, 1, kept) \in Seq(Contents) /\ Len(SubSeq(file, 1, kept)) = kept
      /\ \A i \in 1 .. kept : SubSeq(file, 1, kept)[i] = file[i]
  BY <1>5, SubSeqProperties, LenProperties, ElementOfSeq
<1>7. /\ file' \in Seq(Contents) /\ Len(file') = kept + Len(cut)
      /\ \A i \in 1 .. kept : file'[i] = file[i]
  BY <1>4, <1>5, <1>6, ConcatProperties
<1>8. Misplaced(file') \subseteq {Len(file')}
  <2>1. DOMAIN file = 1 .. Len(file) /\ DOMAIN file' = 1 .. kept + Len(cut) /\ Len(file) \in Nat
    BY <1>5, <1>7, LenProperties
  <2>2. ASSUME NEW i \in 1 .. kept PROVE file'[i] \in {i, Foreign}
    BY <1>3, <1>7, <2>1 DEF Misplaced
  <2>3. \A i \in DOMAIN file' : i \notin 1 .. kept => i = Len(file')
    BY <1>4, <1>5, <1>7, <2>1
  <2> QED
    BY <2>2, <2>3 DEF Misplaced
<1>9. TypeOK'
  BY <1>2, <1>3, <1>7, AckTypes DEF CloseFails
<1>10. Counting' /\ Placing'
  BY <1>3, <1>8 DEF Counting, Placing, Misplaced
<1>11. Answering' /\ AllOrNothing' /\ Reported'
  BY <1>3 DEF Answering, AllOrNothing, Reported
<1>12. Lasting'
  BY LastingAck DEF CloseFails
<1> QED
  BY <1>9, <1>10, <1>11, <1>12

LEMMA SelectFailsStep ==
    ASSUME IInv, SelectFails, UNCHANGED clientVars
    PROVE  IInv'
<1> USE DEF IInv
<1>1. /\ torn = "no" /\ torn' = "select" /\ Misplaced(file) = {}
      /\ UNCHANGED <<toServer, client_addr, message>>
  BY DEF SelectFails, Placing
<1>2. Answering' /\ AllOrNothing' /\ Reported'
  BY <1>1 DEF Answering, AllOrNothing, Reported
<1>3. CASE \E full \in BOOLEAN : file' = Append(file, message) /\ Acknowledge(full)
  <2>1. PICK full \in BOOLEAN : file' = Append(file, message) /\ Acknowledge(full)
    BY <1>3
  <2>2. UNCHANGED <<size, exists>> /\ message \in Contents /\ server = "waiting"
    BY <2>1 DEF Acknowledge, TypeOK, SelectFails
  <2>3. /\ exists' /\ Len(file') = Ack_counter + 1 /\ file' \in Seq(Contents)
        /\ Misplaced(file)' \subseteq {Ack_counter + 1}
    BY <1>1, <2>1, <2>2, FileGrows
  <2>4. TypeOK'
    BY <1>1, <2>1, <2>2, <2>3, AckTypes DEF TypeOK
  <2>5. Counting' /\ Placing'
    BY <1>1, <2>1, <2>3 DEF Counting, Placing, AtMostOne, Acknowledge, NUMBER_OF_FAILURES
  <2>6. Lasting'
    BY <1>3, LastingAck DEF SelectFails
  <2> QED
    BY <1>2, <2>4, <2>5, <2>6
<1>4. CASE /\ server' = "exited"
           /\ UNCHANGED <<size, toClient, Ack_counter, timeoutExpiredCount, disk, stored>>
  <2>1. TypeOK'
    BY <1>1, <1>4, SameFile DEF TypeOK, disk, clientVars
  <2>2. Counting' /\ Placing'
    BY <1>1, <1>4 DEF Counting, Placing, AtMostOne, Misplaced, disk
  <2>3. Lasting'
    BY <1>4, LastingWaiting DEF SelectFails
  <2> QED
    BY <1>2, <2>1, <2>2, <2>3
<1> QED
  BY <1>3, <1>4 DEF SelectFails

LEMMA IgnoreRequestStep ==
    ASSUME IInv, IgnoreRequest, UNCHANGED clientVars
    PROVE  IInv'
<1> USE DEF IInv, IgnoreRequest
<1>1. PICK packet \in Arriving \ {WRQ} : Receive(packet)
  OBVIOUS
<1>2. client_addr' \in {"client", "other"} /\ UNCHANGED toServer
  BY <1>1 DEF Receive
<1>3. TypeOK'
  BY <1>2, SameFile DEF TypeOK, disk, clientVars
<1>4. Counting' /\ Placing' /\ AllOrNothing'
  BY FileKept
<1>5. Answering' /\ Reported'
  BY DEF Answering, Reported, clientVars
<1>6. Lasting'
  BY LastingKept
<1> QED
  BY <1>3, <1>4, <1>5, <1>6

LEMMA AcceptRequestStep ==
    ASSUME IInv, AcceptRequest, UNCHANGED clientVars
    PROVE  IInv'
<1> USE DEF IInv, AcceptRequest
<1>1. client_addr' \in {"client", "other"} /\ UNCHANGED toServer
  BY DEF Receive
<1>2. size \in Nat \ {0} /\ size' = size /\ message' \in Contents
  BY TFTPAssumption DEF TypeOK, Contents, Other
<1>3. /\ toClient' \subseteq 0 .. BlockMod - 1
      /\ 0 < size /\ size < BlockMod /\ size \in toClient' => size \in toClient
  BY SendAckNumber
<1>4. TypeOK'
  BY <1>1, <1>2, <1>3, SameFile DEF TypeOK, clientVars, NUMBER_OF_FAILURES
<1>5. Misplaced(file)' = {}
  BY DEF Misplaced
<1>6. Counting' /\ Placing'
  BY <1>5 DEF Counting, Placing, AtMostOne, NUMBER_OF_FAILURES
<1>7. Answering' /\ AllOrNothing' /\ Reported'
  BY <1>2, <1>3 DEF Answering, AllOrNothing, Reported, clientVars
<1>8. Lasting'
  BY DEF Lasting
<1> QED
  BY <1>4, <1>6, <1>7, <1>8

(* A request that the server does not survive.                             *)
LEMMA RequestLostStep ==
    ASSUME IInv, OpenFails \/ FirstAckFails \/ RequestFails, UNCHANGED clientVars
    PROVE  IInv'
<1> USE DEF IInv
<1>1. /\ server = "idle" /\ server' = "exited" /\ UNCHANGED <<size, disk, stored, torn>>
      /\ client_addr' \in {"client", "other"}
      /\ UNCHANGED <<toServer, Ack_counter, timeoutExpiredCount, message>>
  BY DEF OpenFails, FirstAckFails, RequestFails, Receive, network, transfer, TypeOK
<1>2. /\ toClient' \subseteq 0 .. BlockMod - 1
      /\ size < BlockMod /\ size \in toClient' => size \in toClient
  <2>1. 0 < size
    BY TFTPAssumption DEF TypeOK
  <2>2. CASE OpenFails
    BY <2>1, <2>2, SendAckNumber DEF OpenFails
  <2>3. CASE FirstAckFails \/ RequestFails
    BY <2>3 DEF FirstAckFails, RequestFails, network, TypeOK
  <2> QED
    BY <2>2, <2>3
<1>3. TypeOK'
  BY <1>1, <1>2, SameFile DEF TypeOK, disk, clientVars
<1>4. Counting' /\ Placing' /\ AllOrNothing'
  BY <1>1, FileKept
<1>5. Answering' /\ Reported'
  BY <1>1, <1>2 DEF Answering, Reported, clientVars
<1>6. Lasting'
  BY <1>1, LastingKept
<1> QED
  BY <1>3, <1>4, <1>5, <1>6

LEMMA RefusePacketStep ==
    ASSUME IInv, RefusePacket, UNCHANGED clientVars
    PROVE  IInv'
<1> USE DEF IInv, RefusePacket, Abort
<1>1. PICK packet \in Arriving :
        /\ Receive(packet)
        /\ message' = IF packet.type = "WRQ" THEN Other ELSE packet.block
  OBVIOUS
<1>2. client_addr' \in {"client", "other"} /\ UNCHANGED toServer
  BY <1>1 DEF Receive
<1>3. message' \in Contents
  BY <1>1, AnyBlockType, TFTPAssumption DEF TypeOK, Contents, Other
<1>4. TypeOK'
  BY <1>2, <1>3, SameFile DEF TypeOK, Discard, clientVars
<1>5. Counting' /\ Placing' /\ AllOrNothing'
  BY FileKept
<1>6. Answering' /\ Reported'
  BY DEF Answering, Reported, clientVars
<1>7. Lasting'
  BY LastingWaiting DEF Abort
<1> QED
  BY <1>4, <1>5, <1>6, <1>7

(* A timeout sends the last acknowledgement again and writes no block.      *)
LEMMA TimeoutKeeps ==
    ASSUME IInv, Timeout, UNCHANGED clientVars, server = "waiting",
           UNCHANGED <<size, stored, torn, toServer, client_addr, Ack_counter, message, file>>,
           timeoutExpiredCount' \in 0 .. NUMBER_OF_FAILURES, exists' \in BOOLEAN,
           \/ server' = "idle" /\ Discard
           \/ /\ server' = "waiting" /\ UNCHANGED disk
              /\ timeoutExpiredCount' < NUMBER_OF_FAILURES
    PROVE  IInv'
<1> USE DEF IInv
<1>1. size \in Nat /\ Ack_counter \in Nat
  BY TFTPAssumption DEF TypeOK
<1>2. /\ toClient' \subseteq 0 .. BlockMod - 1 /\ toClient \subseteq toClient'
      /\ client_addr # "client" => toClient' = toClient
      /\ Ack_counter < size /\ size < BlockMod /\ size \in toClient' => size \in toClient
  BY <1>1, SendAckNumber DEF Timeout
<1>3. TypeOK'
  BY <1>2, SameFile DEF TypeOK, clientVars
<1>4. Counting' /\ Placing' /\ AllOrNothing'
  <2>1. CASE server' = "waiting"
    BY <1>1, <2>1 DEF Counting, Placing, AllOrNothing, AtMostOne, Misplaced, disk
  <2>2. CASE server' = "idle"
    BY <1>1, <2>2, FileKept
  <2> QED
    BY <2>1, <2>2
<1>5. Answering' /\ Reported'
  BY <1>1, <1>2 DEF Answering, Reported, clientVars
<1>6. Lasting'
  BY LastingWaiting
<1> QED
  BY <1>3, <1>4, <1>5, <1>6

LEMMA TimeoutStep ==
    ASSUME IInv, Timeout, UNCHANGED clientVars
    PROVE  IInv'
<1> USE DEF IInv
<1>0. /\ server = "waiting" /\ exists /\ Len(file) = Ack_counter
      /\ timeoutExpiredCount \in Nat /\ timeoutExpiredCount < NUMBER_OF_FAILURES
      /\ timeoutExpiredCount' = timeoutExpiredCount + 1
      /\ size \in Nat /\ Ack_counter \in Nat
  BY TFTPAssumption DEF Timeout, Counting, TypeOK, NUMBER_OF_FAILURES
<1>1. CASE timeoutExpiredCount' >= NUMBER_OF_FAILURES
  <2>1. Abort
    BY <1>1 DEF Timeout
  <2>2. UNCHANGED <<size, stored, torn, toServer, client_addr, Ack_counter, message, file>>
    BY <2>1 DEF Timeout, Abort, Discard
  <2>3. server' = "idle" /\ Discard
    BY <2>1 DEF Abort
  <2>4. timeoutExpiredCount' \in 0 .. NUMBER_OF_FAILURES
    BY <1>0 DEF NUMBER_OF_FAILURES
  <2>5. exists' \in BOOLEAN
    BY <2>3 DEF Discard
  <2> QED
    BY <1>0, <2>2, <2>3, <2>4, <2>5, TimeoutKeeps
<1>2. CASE ~(timeoutExpiredCount' >= NUMBER_OF_FAILURES)
  <2>1. UNCHANGED <<size, server, Ack_counter, disk, stored, torn, toServer, client_addr, message>>
    BY <1>2 DEF Timeout
  <2>2. timeoutExpiredCount' \in 0 .. NUMBER_OF_FAILURES /\ timeoutExpiredCount' < NUMBER_OF_FAILURES
    BY <1>0, <1>2 DEF NUMBER_OF_FAILURES
  <2> QED
    BY <1>0, <2>1, <2>2, TimeoutKeeps DEF disk, TypeOK
<1> QED
  BY <1>1, <1>2

LEMMA SocketFailsStep ==
    ASSUME IInv, SocketFails, UNCHANGED clientVars
    PROVE  IInv'
<1> USE DEF IInv, SocketFails, network, transfer
<1>1. TypeOK'
  BY SameFile DEF TypeOK, Discard, clientVars
<1>2. Counting' /\ Placing' /\ AllOrNothing'
  BY FileKept
<1>3. Answering' /\ Reported'
  BY DEF Answering, Reported, clientVars
<1>4. Lasting'
  BY LastingWaiting, LastingKept
<1> QED
  BY <1>1, <1>2, <1>3, <1>4

-----------------------------------------------------------------------------
(* The steps of the client *)

(* The server's state is not the client's to change.                       *)
LEMMA ServerKept ==
    ASSUME IInv, UNCHANGED <<size, toClient, server, transfer, disk, stored, torn>>
    PROVE  Counting' /\ Placing' /\ Answering' /\ AllOrNothing'
<1> USE DEF IInv, transfer, disk
<1>1. Counting' /\ Placing' /\ Answering'
  BY DEF Counting, Placing, Answering, AtMostOne, Misplaced
<1>2. AllOrNothing'
  BY DEF AllOrNothing, Whole, Ends, Misplaced
<1> QED
  BY <1>1, <1>2

LEMMA ClientStepIInv ==
    ASSUME IInv, ClientStep
    PROVE  IInv'
<1> USE DEF IInv
<1>1. UNCHANGED <<size, toClient, server, transfer, disk, stored, torn>>
  BY DEF ClientStep, Request, GetAck, Retransmit, GiveUp, serverVars, network
<1>2. size \in Nat \ {0} /\ sent \in 0 .. size
  BY TFTPAssumption DEF TypeOK
<1>3. \A block \in 0 .. size : Packet(block) \in Packets
  BY <1>2 DEF Packet, Packets
<1>4. /\ client' \in {"start", "waiting", "done"} /\ sent' \in 0 .. size
      /\ toServer' \subseteq Packets
  <2>1. CASE Request
    BY <1>2, <1>3, <2>1 DEF Request, TypeOK
  <2>2. CASE GetAck
    BY <1>2, <1>3, <2>2 DEF GetAck, TypeOK
  <2>3. CASE Retransmit
    BY <1>2, <1>3, <2>3 DEF Retransmit, TypeOK, clientVars
  <2>4. CASE GiveUp
    BY <1>2, <2>4 DEF GiveUp, TypeOK, serverVars, network
  <2> QED
    BY <2>1, <2>2, <2>3, <2>4 DEF ClientStep
<1>5. TypeOK'
  BY <1>1, <1>4, SameFile DEF TypeOK, transfer, disk
<1>6. Reported'
  <2> SUFFICES ASSUME client' = "done", torn = "no", size < BlockMod
               PROVE  stored # "never"
    BY <1>1 DEF Reported
  <2>1. client = "done" \/ (sent = size /\ sent % BlockMod \in toClient)
    BY DEF ClientStep, Request, GetAck, Retransmit, GiveUp, clientVars
  <2>2. size % BlockMod = size
    BY <1>2, NumberOnWire
  <2> QED
    BY <2>1, <2>2 DEF Reported, Answering
<1>7. Lasting'
  BY <1>1, LastingKept
<1> QED
  BY <1>1, <1>5, <1>6, <1>7, ServerKept

-----------------------------------------------------------------------------
(* The theorems *)

LEMMA NextIInv == IInv /\ [Next]_vars => IInv'
<1> SUFFICES ASSUME IInv, [Next]_vars PROVE IInv'
  OBVIOUS
<1>1. CASE ServerStep /\ UNCHANGED clientVars
  BY <1>1, IgnoreRequestStep, AcceptRequestStep, WriteBlockStep, RefusePacketStep,
     TimeoutStep DEF ServerStep
<1>2. CASE ServerFault /\ UNCHANGED clientVars
  BY <1>2, RequestLostStep, WriteShortStep, CloseFailsStep, SelectFailsStep,
     SocketFailsStep DEF ServerFault
<1>3. CASE ClientStep
  BY <1>3, ClientStepIInv
<1>4. CASE UNCHANGED vars
  <2>1. UNCHANGED <<size, toServer, toClient, server, transfer, disk, stored, torn, client, sent>>
    BY <1>4 DEF vars, serverVars, network, clientVars
  <2>2. TypeOK' /\ Reported'
    BY <2>1, SameFile DEF IInv, TypeOK, Reported, transfer, disk
  <2>3. Lasting'
    BY <2>1, LastingKept DEF IInv
  <2> QED
    BY <2>1, <2>2, <2>3, ServerKept DEF IInv
<1> QED
  BY <1>1, <1>2, <1>3, <1>4 DEF Next

(* A set with no two different members has at most one.                    *)
LEMMA AtMostOneCardinality ==
    ASSUME NEW S, AtMostOne(S)
    PROVE  Cardinality(S) <= 1
<1>1. CASE S = {}
  BY <1>1, FS_EmptySet
<1>2. CASE S # {}
  <2>1. PICK i \in S : S = {i}
    BY <1>2 DEF AtMostOne
  <2> QED
    BY <2>1, FS_Singleton
<1> QED
  BY <1>1, <1>2

LEMMA IInvBlocksInPlace == IInv => BlocksInPlace
<1> SUFFICES ASSUME IInv PROVE BlocksInPlace
  OBVIOUS
<1>1. server = "waiting" => exists /\ Len(file) = Ack_counter
  BY DEF IInv, Counting
<1>2. torn \in {"no", "write", "close", "select"}
  BY DEF IInv, TypeOK
<1>3. torn = "select" => Cardinality(Misplaced(file)) <= 1
  BY AtMostOneCardinality DEF IInv, Placing
<1>4. torn = "no" /\ exists /\ file # <<Other>> => Misplaced(file) = {}
  BY DEF IInv, Placing
<1>5. torn \in {"write", "close"} => Misplaced(file) \subseteq {Len(file)}
  BY DEF IInv, Placing
<1> QED
  BY <1>1, <1>2, <1>3, <1>4, <1>5 DEF BlocksInPlace

(* The inductive invariant holds in every state of every behaviour.        *)
THEOREM TransferInvariant == Spec => []IInv
  BY InitIInv, NextIInv, PTL DEF Spec

(* The variables keep their types: no acknowledgement and no count leaves  *)
(* its range, whatever arrives.                                            *)
THEOREM TransferTypes == Spec => []TypeOK
<1>1. IInv => TypeOK
  BY DEF IInv
<1> QED
  BY <1>1, TransferInvariant, PTL

(* readData keeps as many blocks in the file as it acknowledged, each at   *)
(* the place of its number, under loss, duplicates, delay and foreign      *)
(* packets, and a fault spoils one block at most.                          *)
THEOREM EveryBlockInPlace == Spec => []BlocksInPlace
  BY IInvBlocksInPlace, TransferInvariant, PTL

(* Between transfers no half file of the client's is left under the name:  *)
(* internalError removed it, or the transfer ran to its last block.        *)
THEOREM WholeFileOrNone == Spec => []AllOrNothing
<1>1. IInv => AllOrNothing
  BY DEF IInv
<1> QED
  BY <1>1, TransferInvariant, PTL

(* A client whose last block was acknowledged finds its whole file in the  *)
(* server, unless a write request was taken after the file was reported;   *)
(* for files shorter than the block numbers reach, and while no write, no  *)
(* close and no select has failed unnoticed.                               *)
THEOREM AcknowledgedIsStored == Spec => []AcknowledgedIsThere
<1>1. IInv => AcknowledgedIsThere
  BY DEF IInv, TypeOK, Reported, Lasting, AcknowledgedIsThere
<1> QED
  BY <1>1, TransferInvariant, PTL
=============================================================================
