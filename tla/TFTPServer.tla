----------------------------- MODULE TFTPServer -----------------------------
(***************************************************************************)
(* The TFTP server of tftp/: Start waits for a write request, readData     *)
(* receives one file block by block.  The server has one socket and one    *)
(* thread.  One client is followed: toServer and toClient are what is on   *)
(* its way between the two.  Of the other clients the server may have it is*)
(* only assumed that their datagrams may arrive at any time, those of      *)
(* earlier transfers included.  The file system is the file at the one     *)
(* path that all requests name.                                            *)
(*                                                                         *)
(* Data is abstracted to the number of the block of the client's file that *)
(* it is, or Foreign.  A file ends with a block of less than 512 bytes.    *)
(***************************************************************************)
EXTENDS Naturals, Sequences

CONSTANTS
    Sizes,        \* lengths, in blocks, of the file to send
    BlockMod,     \* a block number is an unsigned short: 2^16
    Others        \* are there other clients?

(* Files of up to 2^16 blocks, 32 megabytes: the first that wrap a number. *)
ASSUME TFTPAssumption ==
    /\ BlockMod \in Nat \ {0, 1}
    /\ Sizes \subseteq 1 .. BlockMod
    /\ Others \in BOOLEAN

NUMBER_OF_FAILURES == 7

VARIABLES
    size,                  \* length of the client's file
    toServer, toClient,    \* datagrams on their way
    server,                \* in recvfrom, in select, or no longer running
    client_addr,           \* who sent the last datagram: "client" or "other"
    Ack_counter, timeoutExpiredCount,
    message,               \* the last block received in this transfer, 0: none
    exists, file,          \* is there a file, and the blocks it holds
    stored,                \* history: has RECVOK been printed for a file that
                           \* the client's last block has ended, and has a
                           \* write request been taken since: "never", "yes",
                           \* "retaken"
    torn                   \* history: what spoiled a file unnoticed, a short
                           \* write, a failing select or fclose, or nothing

network  == <<toServer, toClient>>
transfer == <<client_addr, Ack_counter, timeoutExpiredCount, message>>
disk     == <<exists, file>>
serverVars == <<size, network, server, transfer, disk, stored, torn>>

WRQ == [type |-> "WRQ"]
Numbered(block, content, full) ==
    [type |-> "DATA", number |-> block % BlockMod, block |-> content, full |-> full]
DATA(block) == Numbered(block, block, block # size)
Packets == {WRQ} \cup {DATA(block) : block \in 1 .. size}

(* Content that is no block of the client's file: what an older file holds,*)
(* a block cut off by a short write, an uninitialised buffer; and a block  *)
(* of some other client's file.                                            *)
Other   == 0
Foreign == BlockMod + 1

ForeignPackets ==
    {WRQ} \cup {Numbered(block, Foreign, full) : block \in 1 .. BlockMod, full \in BOOLEAN}

Whole == [block \in 1 .. size |-> block]

ServerInit ==
    /\ size \in Sizes
    /\ toServer = {} /\ toClient = {}
    /\ server = "idle"
    /\ client_addr = "client" /\ Ack_counter = 0 /\ timeoutExpiredCount = 0 /\ message = Other
    /\ exists \in BOOLEAN /\ file = <<Other>>
    /\ stored = "never" /\ torn = "no"

-----------------------------------------------------------------------------

(* recvfrom: a datagram is taken from the socket, and its sender's address *)
(* replaces the one before.  The datagram stays where it is, for the       *)
(* network may deliver it again (TFTP.tla).                                *)
Receive(packet) ==
    /\ \/ packet \in toServer /\ client_addr' = "client"
       \/ Others /\ packet \in ForeignPackets /\ client_addr' = "other"
    /\ UNCHANGED toServer

Arriving == toServer \cup (IF Others THEN ForeignPackets ELSE {})

(* sendAck: a number on the wire is an unsigned short. *)
SendAck(to, block) ==
    toClient' = IF to = "client" THEN toClient \cup {block % BlockMod} ELSE toClient

(* Mutant of Discard: the file is closed and left. *)
Leave == UNCHANGED <<exists, file>>

(* internalError closes and removes the file of the transfer. *)
Discard == exists' = FALSE /\ UNCHANGED file

(* ... and the loop of Start goes on to the next request (RECVFAIL).       *)
Abort ==
    /\ Discard
    /\ server' = "idle"
    /\ UNCHANGED <<size, Ack_counter, stored, torn>>

-----------------------------------------------------------------------------
(* Start *)

(* Anything but a write request is reported and ignored. *)
IgnoreRequest ==
    /\ server = "idle"
    /\ \E packet \in Arriving \ {WRQ} : Receive(packet)
    /\ UNCHANGED <<size, toClient, server, disk, stored, torn>>
    /\ UNCHANGED <<Ack_counter, timeoutExpiredCount, message>>

(* The request is acknowledged before the file is opened, which empties a  *)
(* file of that name.                                                      *)
AcceptRequest ==
    /\ server = "idle"
    /\ Receive(WRQ)
    /\ SendAck(client_addr', 0)
    /\ exists' = TRUE /\ file' = <<>>
    /\ Ack_counter' = 0 /\ timeoutExpiredCount' = 0 /\ message' = Other
    /\ server' = "waiting"
    /\ stored' = IF stored = "never" THEN "never" ELSE "retaken"
    /\ UNCHANGED <<size, torn>>

(* fopen fails: the server exits, with the request acknowledged. *)
OpenFails ==
    /\ server = "idle"
    /\ Receive(WRQ)
    /\ SendAck(client_addr', 0)
    /\ server' = "exited"
    /\ UNCHANGED <<size, Ack_counter, timeoutExpiredCount, message, disk, stored, torn>>

(* sendto fails for that first acknowledgement: no file is open yet. *)
FirstAckFails ==
    /\ server = "idle"
    /\ Receive(WRQ)
    /\ server' = "exited"
    /\ UNCHANGED <<size, toClient, Ack_counter, timeoutExpiredCount, message, disk, stored, torn>>

-----------------------------------------------------------------------------
(* readData *)

(* Mutant of Expected: the block number is not compared. *)
AnyBlock(packet) == packet.type = "DATA"

Expected(packet) ==
    packet.type = "DATA" /\ packet.number = Ack_counter + 1

(* Every block stands where its number says, and the client's last is last.*)
Misplaced(blocks) == {i \in DOMAIN blocks : blocks[i] \notin {i, Foreign}}
Ends(blocks) ==
    Len(blocks) = size /\ blocks[size] = size /\ Misplaced(blocks) = {}

(* A block that is not full ends the transfer: RECVOK, and back to Start.  *)
Acknowledge(full) ==
    /\ Ack_counter' = Ack_counter + 1
    /\ SendAck(client_addr', Ack_counter + 1)
    /\ timeoutExpiredCount' = 0
    /\ server' = IF full THEN "waiting" ELSE "idle"
    /\ stored' = IF ~full /\ Ends(file') THEN "yes" ELSE stored
    /\ UNCHANGED <<size, exists>>

WriteBlock ==
    /\ server = "waiting"
    /\ \E packet \in Arriving :
         /\ Receive(packet) /\ Expected(packet)
         /\ message' = packet.block
         /\ file' = Append(file, packet.block)
         /\ Acknowledge(packet.full)
    /\ UNCHANGED torn

(* The three faults that spoil the file without the server noticing.  Bound  *)
(* of this model: one of them in a behaviour, hence torn in their guards.  *)

(* fclose, called after RECVOK, fails to write what is still buffered. *)
CloseFails ==
    /\ server = "waiting" /\ torn = "no"
    /\ \E packet \in Arriving :
         /\ Receive(packet) /\ Expected(packet) /\ ~packet.full
         /\ message' = packet.block
    /\ \E kept \in 0 .. Len(file), cut \in {<<>>, <<Other>>} :
         file' = SubSeq(file, 1, kept) \o cut
    /\ Acknowledge(FALSE)
    /\ torn' = "close"

(* fwrite writes less than it should, and so the transfer looks finished.  *)
WriteShort ==
    /\ server = "waiting" /\ torn = "no"
    /\ \E packet \in Arriving :
         /\ Receive(packet) /\ Expected(packet)
         /\ message' = packet.block
    /\ file' = Append(file, Other)
    /\ Acknowledge(FALSE)
    /\ torn' = "write"

(* The packet is not the next block, nor a block at all: RECVFAIL. *)
RefusePacket ==
    /\ server = "waiting"
    /\ \E packet \in Arriving :
         /\ Receive(packet) /\ ~Expected(packet)
         /\ message' = IF packet.type = "WRQ" THEN Other ELSE packet.block
    /\ Abort
    /\ UNCHANGED <<toClient, timeoutExpiredCount>>

(* Mutants of Timeout: the eighth timeout fails the transfer; the next     *)
(* block is acknowledged; the count starts over.                           *)
TimeoutLate ==
    /\ server = "waiting"
    /\ timeoutExpiredCount' = timeoutExpiredCount + 1
    /\ SendAck(client_addr, Ack_counter)
    /\ IF timeoutExpiredCount' > NUMBER_OF_FAILURES
         THEN Abort
         ELSE UNCHANGED <<size, server, Ack_counter, disk, stored, torn>>
    /\ UNCHANGED <<toServer, client_addr, message>>

TimeoutAckNext ==
    /\ server = "waiting"
    /\ timeoutExpiredCount' = timeoutExpiredCount + 1
    /\ SendAck(client_addr, Ack_counter + 1)
    /\ IF timeoutExpiredCount' >= NUMBER_OF_FAILURES
         THEN Abort
         ELSE UNCHANGED <<size, server, Ack_counter, disk, stored, torn>>
    /\ UNCHANGED <<toServer, client_addr, message>>

TimeoutStartsOver ==
    /\ server = "waiting"
    /\ timeoutExpiredCount' = (timeoutExpiredCount + 1) % NUMBER_OF_FAILURES
    /\ SendAck(client_addr, Ack_counter)
    /\ UNCHANGED <<size, server, Ack_counter, disk, stored, torn>>
    /\ UNCHANGED <<toServer, client_addr, message>>

(* Nothing came for three seconds: the last acknowledgement goes out once  *)
(* more, and the seventh time in a row the transfer fails.                 *)
Timeout ==
    /\ server = "waiting"
    /\ timeoutExpiredCount' = timeoutExpiredCount + 1
    /\ SendAck(client_addr, Ack_counter)
    /\ IF timeoutExpiredCount' >= NUMBER_OF_FAILURES
         THEN Abort
         ELSE UNCHANGED <<size, server, Ack_counter, disk, stored, torn>>
    /\ UNCHANGED <<toServer, client_addr, message>>

(* select reports an error: neither branch is taken, the loop ends, and    *)
(* what the buffer last held is written and acknowledged as the next block.*)
(* Before the first block neither the buffer nor its length is set: any    *)
(* length may be found there, or one that makes the process crash.         *)
SelectFails ==
    /\ server = "waiting" /\ torn = "no"
    /\ torn' = "select"
    /\ UNCHANGED <<toServer, client_addr, message>>
    /\ \/ /\ file' = Append(file, message)
          /\ \E full \in BOOLEAN : (message # Other => full) /\ Acknowledge(full)
       \/ /\ message = Other
          /\ server' = "exited"
          /\ UNCHANGED <<size, toClient, Ack_counter, timeoutExpiredCount, disk, stored>>

(* recvfrom or sendto fails during a transfer: the server removes the file *)
(* and exits.                                                              *)
SocketFails ==
    /\ server = "waiting"
    /\ Discard
    /\ server' = "exited"
    /\ UNCHANGED <<size, network, transfer, stored, torn>>

(* recvfrom fails in Start. *)
RequestFails ==
    /\ server = "idle"
    /\ server' = "exited"
    /\ UNCHANGED <<size, network, transfer, disk, stored, torn>>

ServerStep ==
    \/ IgnoreRequest \/ AcceptRequest
    \/ WriteBlock \/ RefusePacket \/ Timeout

ServerFault ==
    \/ OpenFails \/ FirstAckFails \/ WriteShort \/ CloseFails
    \/ SelectFails \/ SocketFails \/ RequestFails
=============================================================================
