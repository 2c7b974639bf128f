-------------------------------- MODULE TFTP --------------------------------
(***************************************************************************)
(* The server together with what it talks to: a network that loses, delays,*)
(* reorders and duplicates datagrams, and one client that sends one file   *)
(* in lock step, as the protocol of tftp/README.md:7 has it.  The client   *)
(* is not part of the repository; it is modelled by what the server        *)
(* expects of it.  A client that gives up may try the same file again.     *)
(* A datagram, once sent, may be taken at any time, again, or never: that  *)
(* is all there is to delay, duplication and loss.                         *)
(***************************************************************************)
EXTENDS TFTPServer, FiniteSets, SequencesExt

VARIABLES
    client,       \* not begun, waiting for an acknowledgement, or done
    sent          \* the block to be acknowledged, 0 for the request

clientVars == <<client, sent>>
vars == <<serverVars, clientVars>>

Init == ServerInit /\ client = "start" /\ sent = 0

-----------------------------------------------------------------------------

Packet(block) == IF block = 0 THEN WRQ ELSE DATA(block)

Request ==
    /\ client = "start"
    /\ client' = "waiting" /\ sent' = 0
    /\ toServer' = toServer \cup {Packet(0)}
    /\ UNCHANGED <<size, toClient, server, transfer, disk, stored, torn>>

(* The acknowledgement waited for arrives: on to the next block.           *)
GetAck ==
    /\ client = "waiting"
    /\ sent % BlockMod \in toClient
    /\ IF sent = size
         THEN client' = "done" /\ UNCHANGED <<sent, toServer>>
         ELSE /\ sent' = sent + 1
              /\ toServer' = toServer \cup {Packet(sent + 1)}
              /\ UNCHANGED client
    /\ UNCHANGED <<size, toClient, server, transfer, disk, stored, torn>>

Retransmit ==
    /\ client = "waiting"
    /\ toServer' = toServer \cup {Packet(sent)}
    /\ UNCHANGED <<size, toClient, server, transfer, disk, stored, torn, clientVars>>

GiveUp ==
    /\ client = "waiting"
    /\ client' = "start" /\ sent' = 0
    /\ UNCHANGED serverVars

ClientStep == Request \/ GetAck \/ Retransmit \/ GiveUp

Next ==
    \/ (ServerStep \/ ServerFault) /\ UNCHANGED clientVars
    \/ ClientStep

Spec == Init /\ [][Next]_vars

(* The server keeps running, and select returns after three seconds at the *)
(* latest.  Nothing is assumed of the client or the network.               *)
Fairness == WF_vars(server = "waiting" /\ ServerStep /\ UNCHANGED clientVars)

FairSpec == Spec /\ Fairness

-----------------------------------------------------------------------------
(* Properties *)

Contents == 0 .. size \cup {Foreign}

TypeOK ==
    /\ size \in Sizes
    /\ toServer \subseteq Packets
    /\ toClient \subseteq 0 .. BlockMod - 1
    /\ server \in {"idle", "waiting", "exited"}
    /\ client_addr \in {"client", "other"} /\ Ack_counter \in Nat
    /\ timeoutExpiredCount \in 0 .. NUMBER_OF_FAILURES
    /\ message \in Contents
    /\ exists \in BOOLEAN /\ stored \in {"never", "yes", "retaken"}
    /\ torn \in {"no", "write", "close", "select"}
    /\ file \in Seq(Contents)
    /\ client \in {"start", "waiting", "done"} /\ sent \in 0 .. size

(* Whatever the network did to the packets, and whoever sent them: during  *)
(* a transfer the file has as many blocks as were acknowledged, and every  *)
(* block in it stands at the place its number says.  A fault that spoils a *)
(* file spoils one block; a short write or a failing fclose only the last. *)
BlocksInPlace ==
    LET spoilt == Misplaced(file) IN
    /\ server = "waiting" => exists /\ Len(file) = Ack_counter
    /\ exists /\ file # <<Other>> =>
         CASE torn = "no"     -> spoilt = {}
           [] torn = "select" -> Cardinality(spoilt) <= 1
           [] OTHER           -> spoilt \subseteq {Len(file)}

(* Between transfers the path holds no file, one that was there before, or *)
(* a finished one: the client's whole file, unless blocks of another       *)
(* client's are in it.                                                     *)
AllOrNothing ==
    server = "idle" /\ torn = "no" /\ exists =>
      \/ file \in {Whole, <<Other>>}
      \/ Ends(file)
      \/ file # <<>> /\ Last(file) = Foreign

(* A client that has the acknowledgement of its last block has its file in *)
(* the server, now: of that length, with that end, and every block of it   *)
(* the client's own or one of the same number from another client.  Only a *)
(* write request that was taken after the file was reported (RECVOK) may   *)
(* have emptied or removed it: one that was late or came twice, the same   *)
(* client's for its next try, or another client's.  Nothing is said once a *)
(* write, a close or a select has failed unnoticed (torn), nor of a file of*)
(* BlockMod blocks, whose last acknowledgement looks like the first.       *)
AcknowledgedIsThere ==
    client = "done" /\ torn = "no" /\ size < BlockMod =>
      \/ server # "waiting" /\ exists /\ Ends(file)
      \/ stored = "retaken"

(* Every transfer ends: by the last block, a wrong packet, or the seventh  *)
(* timeout in a row.                                                       *)
TransferEnds == server = "waiting" ~> server # "waiting"

(* A block that comes again does not cost the client its transfer: lock    *)
(* step with retransmission is how the protocol of README.md:7 works.      *)
RetransmissionTolerated ==
    [][server = "waiting" /\ server' = "idle" /\ ~exists' /\ torn = "no"
         /\ timeoutExpiredCount' < NUMBER_OF_FAILURES
         => message' \notin 1 .. Ack_counter]_vars
=============================================================================
