-------------------------- MODULE BrokerRefinement --------------------------
(***************************************************************************)
(* The broker implements Broadcast. A member is a connection that is open; *)
(* what it has been handed is what it has read and what the kernel holds   *)
(* for it. Polling, refusing, running out of slots and moving queues about *)
(* are steps Broadcast does not see.                                       *)
(***************************************************************************)
EXTENDS Broker

(* The forms of bytes a..b of c: as they are, or formatted for a reader of *)
(* the chat, at the start of a line or in its middle.                      *)
Forms(c, a, b) ==
    IF Chat THEN {FormatChat(id, start, Chunk(c, a, b)) : id \in 0..(IdMod - 1), start \in BOOLEAN}
    ELSE {Chunk(c, a, b)}

Abs == INSTANCE Broadcast WITH
    MaxMembers <- MaxClients,
    Room <- MaxBuffer,
    Message <- Forms,
    MayRunOut <- AllocFails,
    members <- {c \in Conn : st[c] = "open"},
    said <- sent,
    told <- rd,
    fin <- fin,
    broken <- rst,
    given <- owed,
    heard <- [c \in Conn |-> got[c] \o sockout[c]],
    over <- pc = "done"

(* Every client is told the same messages in the same order, hears them    *)
(* without gaps, and is dropped for one of four reasons only: it closed    *)
(* and all it sent was relayed, its connection broke, the message does not *)
(* fit into what --broker-buffer leaves free, or memory ran out.           *)
ImplementsBroadcast == Abs!Spec
=============================================================================
