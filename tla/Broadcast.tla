----------------------------- MODULE Broadcast ------------------------------
(***************************************************************************)
(* What the broker promises its clients, without slots, descriptors, poll  *)
(* rounds, queues or partial writes.                                       *)
(*                                                                         *)
(* Members say bytes. The broker takes a piece of what one member has said *)
(* and gives it, in one step, to every other member; so all members agree  *)
(* on the order of messages. A member hears what it was given from the     *)
(* front, without gaps. A member is let go only for a reason: it has       *)
(* finished and all it said was passed on, its connection broke, what it   *)
(* has not heard yet leaves no room for the message, or memory ran out.    *)
(***************************************************************************)
EXTENDS Integers, Sequences, FiniteSets

CONSTANTS
    Conn,               \* those who may become members
    MaxMembers,         \* how many there may be at a time
    Room,               \* bytes that may wait for one member
    Message(_, _, _),   \* the forms in which bytes a..b of c may be passed on
    MayRunOut           \* may memory run out?

VARIABLES
    members,
    said, told,         \* bytes a member has said, and has been passed on
    fin, broken,        \* the member has finished, its connection broke
    given,              \* what was passed on to each
    heard,              \* what of it was handed to the connection
    over                \* the broker has ended

vars == <<members, said, told, fin, broken, given, heard, over>>

Waiting(d) == Len(given[d]) - Len(heard[d])

Init ==
    /\ members = {} /\ over = FALSE
    /\ said = [c \in Conn |-> 0] /\ told = [c \in Conn |-> 0]
    /\ fin = [c \in Conn |-> FALSE] /\ broken = [c \in Conn |-> FALSE]
    /\ given = [c \in Conn |-> <<>>] /\ heard = [c \in Conn |-> <<>>]

(* A newcomer is given nothing of what was passed on before.               *)
Join(c) ==
    /\ c \notin members /\ given[c] = <<>> /\ ~over
    /\ Cardinality(members) < MaxMembers
    /\ members' = members \cup {c}
    /\ UNCHANGED <<said, told, fin, broken, given, heard, over>>

Say(c) ==
    /\ c \in members /\ ~fin[c] /\ ~broken[c]
    /\ said' = [said EXCEPT ![c] = @ + 1]
    /\ UNCHANGED <<members, told, fin, broken, given, heard, over>>

Finish(c) ==
    /\ c \in members
    /\ fin' = [fin EXCEPT ![c] = TRUE]
    /\ UNCHANGED <<members, said, told, broken, given, heard, over>>

Break(c) ==
    /\ c \in members
    /\ broken' = [broken EXCEPT ![c] = TRUE]
    /\ UNCHANGED <<members, said, told, fin, given, heard, over>>

(* The next bytes of c, up to its b-th, are passed on to all the others    *)
(* but those let go for want of room or memory.                            *)
Tell(c, b) ==
    /\ c \in members /\ b \in (told[c] + 1)..said[c]
    /\ told' = [told EXCEPT ![c] = b]
    /\ \E msg \in Message(c, told[c] + 1, b) :
        LET others == members \ {c}
            noroom == {d \in others : Waiting(d) + Len(msg) > Room}
        IN  /\ given' = [d \in Conn |-> IF d \in others THEN given[d] \o msg ELSE given[d]]
            /\ members' \subseteq members \ noroom
            /\ members \ members' \subseteq (IF MayRunOut THEN others ELSE noroom)
    /\ UNCHANGED <<said, fin, broken, heard, over>>

(* The next n bytes given to c are handed to its connection.               *)
Hear(c, n) ==
    /\ c \in members
    /\ n \in 1..Waiting(c)
    /\ heard' = [heard EXCEPT ![c] = SubSeq(given[c], 1, Len(heard[c]) + n)]
    /\ UNCHANGED <<members, said, told, fin, broken, given, over>>

(* One that has finished goes when everything it said was passed on.       *)
Leave(c) ==
    /\ c \in members
    /\ broken[c] \/ (fin[c] /\ told[c] = said[c])
    /\ members' = members \ {c}
    /\ UNCHANGED <<said, told, fin, broken, given, heard, over>>

(* No memory to form the message: its sender is let go.                    *)
LoseSender(c) ==
    /\ MayRunOut /\ c \in members /\ told[c] < said[c]
    /\ \E b \in (told[c] + 1)..said[c] : told' = [told EXCEPT ![c] = b]
    /\ members' = members \ {c}
    /\ UNCHANGED <<said, fin, broken, given, heard, over>>

End ==
    /\ ~over /\ over' = TRUE
    /\ members' = {}
    /\ UNCHANGED <<said, told, fin, broken, given, heard>>

Next ==
    \/ \E c \in Conn :
        \/ Join(c) \/ Say(c) \/ Finish(c) \/ Break(c) \/ Leave(c) \/ LoseSender(c)
        \/ \E b \in (told[c] + 1)..said[c] : Tell(c, b)
        \/ \E n \in 1..Waiting(c) : Hear(c, n)
    \/ End

Spec == Init /\ [][Next]_vars
=============================================================================
