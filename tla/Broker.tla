------------------------------- MODULE Broker -------------------------------
(***************************************************************************)
(* The broker of wirecat (src/src/broker.c): one process, one poll() loop. *)
(* Whatever one client sends is queued for every other client; each client *)
(* has a bounded output queue and is dropped when a message does not fit.  *)
(*                                                                         *)
(* The process is cut into steps where the kernel and the peers can act:   *)
(* between poll(), accept(), write(), read() and the next poll().          *)
(* Descriptor NUMBERS are part of the model, because the code looks the    *)
(* result of poll() up by number and the kernel gives the lowest free      *)
(* number to the next accept().                                            *)
(***************************************************************************)
EXTENDS Integers, Sequences, FiniteSets

CONSTANTS
    Conn,           \* the connections that peers may open
    NoConn,         \* "this descriptor is closed"
    Denied,         \* connections the access lists refuse
    Breaks,         \* connections that may be reset
    Readers,        \* peers that keep reading; the others may stop
    MaxClients,     \* --broker-max-clients
    MaxBuffer,      \* --broker-buffer, in bytes
    ReadMax,        \* WCAT_BROKER_BUF, the largest read
    NumFd,          \* descriptors the process may have besides the listener
    BacklogMax,     \* the listen() backlog
    SockBuf,        \* bytes the kernel holds between a write() and the peer
    Script,         \* Script[c][k] is the kind of the k-th byte c sends
    Chat,           \* --chat
    FormatChat(_, _, _), \* format_chat_message (module BrokerChat)
    IdMod,          \* number of values of next_client_id, 2^32 in the build
    AllocFails,     \* may realloc() fail?
    Signals         \* may a signal come?

Slot == 1..MaxClients
Fd == 1..NumFd
NoFd == 0
Kind == {"text", "nl", "ctl", "esc", "label"}

(* A byte carries its sender and a number that tells it from the sender's  *)
(* other bytes (for a label, the client id it shows): the broker copies    *)
(* bytes and never looks at these two.                                     *)
Item == [kind : Kind, src : Conn, n : Nat]
Byte(c, k) == [kind |-> Script[c][k], src |-> c, n |-> k]
Chunk(c, a, b) == [k \in 1..(b - a + 1) |-> Byte(c, a + k - 1)]

ASSUME SizesAssumption ==
    /\ MaxClients \in Nat \ {0}
    /\ NumFd \in Nat \ {0}
    /\ MaxBuffer \in Nat \ {0}
    /\ ReadMax \in Nat \ {0}
    /\ SockBuf \in Nat \ {0}
    /\ BacklogMax \in Nat \ {0}
    /\ IdMod \in Nat \ {0}

ASSUME ConnAssumption ==
    /\ NoConn \notin Conn
    /\ Denied \subseteq Conn /\ Breaks \subseteq Conn /\ Readers \subseteq Conn
    /\ Script \in [Conn -> Seq({"text", "nl", "ctl"})]
    /\ Chat \in BOOLEAN
    /\ AllocFails \in BOOLEAN /\ Signals \in BOOLEAN

(* Formatting a chunk gives a byte sequence that stands for its sender.    *)
ASSUME FormatAssumption ==
    \A id \in 0..(IdMod - 1), start \in BOOLEAN, c \in Conn :
        \A a \in 1..Len(Script[c]) : \A b \in a..Len(Script[c]) :
            FormatChat(id, start, Chunk(c, a, b)) \in Seq({x \in Item : x.src = c})

(* It begins with a label at the start of a line, has one after each line  *)
(* end in it and no other, and ends as the chunk does; the labels show the *)
(* id of the client.                                                       *)
ChatMessage(msg, id, start, last) ==
    /\ \A m \in DOMAIN msg : msg[m].kind = "label" => msg[m].n = id
    /\ msg # <<>> /\ (msg[1].kind = "label" <=> start)
    /\ \A m \in 2..Len(msg) :
          (msg[m].kind = "label" /\ msg[m - 1].kind # "label") <=> msg[m - 1].kind = "nl"
    /\ msg[Len(msg)].kind # "label"
    /\ msg[Len(msg)].kind = "nl" <=> last = "nl"

ASSUME LabelAssumption ==
    \A id \in 0..(IdMod - 1), start \in BOOLEAN, c \in Conn :
        \A a \in 1..Len(Script[c]) : \A b \in a..Len(Script[c]) :
            ChatMessage(FormatChat(id, start, Chunk(c, a, b)), id, start, Script[c][b])

VARIABLES
    stop,           \* wcat_stop, set by the signal handler
    pc,             \* where the loop is: poll, accept, flush, read or done
    i,              \* the slot the client loop has reached
    result,         \* exit status
    clients,        \* clients[], one record per slot
    next_client_id,
    pfds,           \* revents by descriptor number; {} when not polled
    lready,         \* POLLIN on the listener
    fdt,            \* kernel: the connection behind each descriptor
    backlog,        \* kernel: connections waiting for accept()
    st,             \* kernel: idle, backlog, open or closed, by connection
    sent, rd,       \* bytes the peer has sent, bytes read() has returned
    fin, rst,       \* the peer has shut down its side, has reset
    sockout,        \* bytes written to the peer that it has not read yet
    got,            \* bytes the peer has read
    owed,           \* history: what was relayed to the peer since it joined
    snap            \* history: fdt when poll() returned

loopVars == <<stop, pc, i, result>>
kernelVars == <<fdt, backlog, st>>
peerVars == <<sent, rd, fin, rst, sockout, got>>
vars == <<stop, pc, i, result, clients, next_client_id, pfds, lready,
          fdt, backlog, st, sent, rd, fin, rst, sockout, got, owed, snap>>

client_init == [fd |-> NoFd, id |-> 0, line_start |-> TRUE, out |-> <<>>, off |-> 0]

Pending(client) == Len(client.out) - client.off
PendingBytes(client) == SubSeq(client.out, client.off + 1, Len(client.out))

OpenSlots == {k \in Slot : clients[k].fd # NoFd}
FreeSlots == Slot \ OpenSlots
FreeFds == {f \in Fd : fdt[f] = NoConn}
Lowest(S) == {x \in S : \A y \in S : x <= y}
ConnOf(k) == fdt[clients[k].fd]
Least(x, y) == IF x < y THEN x ELSE y

-----------------------------------------------------------------------------
Init ==
    /\ stop = FALSE /\ pc = "poll" /\ i = 1 /\ result = 0
    /\ clients = [k \in Slot |-> client_init]
    /\ next_client_id = 1 % IdMod
    /\ pfds = [f \in Fd |-> {}] /\ lready = FALSE
    /\ fdt = [f \in Fd |-> NoConn]
    /\ backlog = <<>>
    /\ st = [c \in Conn |-> "idle"]
    /\ sent = [c \in Conn |-> 0] /\ rd = [c \in Conn |-> 0]
    /\ fin = [c \in Conn |-> FALSE] /\ rst = [c \in Conn |-> FALSE]
    /\ sockout = [c \in Conn |-> <<>>] /\ got = [c \in Conn |-> <<>>]
    /\ owed = [c \in Conn |-> <<>>]
    /\ snap = [f \in Fd |-> NoConn]

-----------------------------------------------------------------------------
(* The kernel's side.                                                      *)

Readable(c) == sent[c] > rd[c] \/ fin[c] \/ rst[c]

(* Fault: POLLOUT is never asked for.                                      *)
ReventsInputOnly(k) ==
    LET c == ConnOf(k)
    IN  (IF Readable(c) THEN {"POLLIN"} ELSE {}) \cup (IF rst[c] THEN {"POLLERR"} ELSE {})

(* What poll() reports for the descriptor f of slot k: POLLOUT is asked    *)
(* for only while output is queued.                                        *)
Revents(k) ==
    LET c == ConnOf(k)
    IN  (IF Readable(c) THEN {"POLLIN"} ELSE {})
        \cup (IF Pending(clients[k]) > 0 /\ (Len(sockout[c]) < SockBuf \/ rst[c])
              THEN {"POLLOUT"} ELSE {})
        \cup (IF rst[c] THEN {"POLLERR"} ELSE {})

PollResult ==
    [f \in Fd |-> UNION {Revents(k) : k \in {s \in OpenSlots : clients[s].fd = f}}]

(* close() of the descriptors of a set of slots.                           *)
CloseSlots(S) ==
    LET fds == {clients[k].fd : k \in S}
    IN  /\ fdt' = [f \in Fd |-> IF f \in fds THEN NoConn ELSE fdt[f]]
        /\ st' = [c \in Conn |-> IF \E k \in S : ConnOf(k) = c THEN "closed" ELSE st[c]]
        /\ UNCHANGED backlog

(* drop_client on the slots of S.                                          *)
drop_client(S) ==
    /\ clients' = [k \in Slot |-> IF k \in S THEN client_init ELSE clients[k]]
    /\ CloseSlots(S)

-----------------------------------------------------------------------------
(* The loop.                                                               *)

(* Fault: broken clients are dropped as soon as poll() reports them.       *)
PollDropsBroken ==
    /\ pc = "poll" /\ ~stop
    /\ pfds' = PollResult
    /\ lready' = (backlog # <<>>)
    /\ lready' \/ \E f \in Fd : pfds'[f] # {}
    /\ snap' = fdt
    /\ pc' = "accept"
    /\ drop_client({k \in OpenSlots : rst[ConnOf(k)]})
    /\ UNCHANGED <<stop, i, result, next_client_id, peerVars, owed>>

(* poll() returns with something ready. A timeout or EINTR starts the next *)
(* iteration with nothing changed, so it is a stuttering step.             *)
Poll ==
    /\ pc = "poll" /\ ~stop
    /\ pfds' = PollResult
    /\ lready' = (backlog # <<>>)
    /\ lready' \/ \E f \in Fd : pfds'[f] # {}
    /\ snap' = fdt
    /\ pc' = "accept"
    /\ UNCHANGED <<stop, i, result, clients, next_client_id, kernelVars, peerVars, owed>>

(* The loop ends: every client is dropped, queued output with it, and the  *)
(* listener is closed with the connections still in its backlog.           *)
Cleanup ==
    /\ pc' = "done"
    /\ clients' = [k \in Slot |-> IF k \in OpenSlots THEN client_init ELSE clients[k]]
    /\ fdt' = [f \in Fd |-> IF \E k \in OpenSlots : clients[k].fd = f THEN NoConn ELSE fdt[f]]
    /\ st' = [c \in Conn |-> IF st[c] = "backlog" \/ \E k \in OpenSlots : ConnOf(k) = c
                             THEN "closed" ELSE st[c]]
    /\ backlog' = <<>>
    /\ UNCHANGED <<stop, i, next_client_id, pfds, lready, peerVars, owed, snap>>

Shutdown ==
    /\ pc = "poll" /\ stop
    /\ Cleanup
    /\ UNCHANGED result

PollFails ==
    /\ pc = "poll" /\ ~stop
    /\ result' = 1
    /\ Cleanup

(* The result of poll() is not used after the round: it is forgotten.      *)
EndRound ==
    /\ pc' = "poll" /\ i' = 1
    /\ pfds' = [f \in Fd |-> {}] /\ lready' = FALSE /\ snap' = [f \in Fd |-> NoConn]

ToClients == pc' = "flush" /\ lready' = FALSE /\ UNCHANGED <<i, pfds, snap>>

(* No connection is waiting, or accept() fails for want of a descriptor.   *)
NoAccept ==
    /\ pc = "accept"
    /\ ~lready \/ FreeFds = {}
    /\ ToClients
    /\ UNCHANGED <<stop, result, clients, next_client_id, kernelVars, peerVars, owed>>

(* A refused peer: closed at once, and the round ends without a look at    *)
(* the clients.                                                            *)
AcceptDenied ==
    /\ pc = "accept" /\ lready /\ FreeFds # {}
    /\ Head(backlog) \in Denied
    /\ EndRound
    /\ st' = [st EXCEPT ![Head(backlog)] = "closed"]
    /\ backlog' = Tail(backlog)
    /\ UNCHANGED <<stop, result, clients, next_client_id, fdt,
                   peerVars, owed>>

(* Fault: the connection there is no slot for is not closed.               *)
AcceptFullLeaks ==
    /\ pc = "accept" /\ lready /\ FreeFds # {}
    /\ Head(backlog) \notin Denied
    /\ FreeSlots = {}
    /\ ToClients
    /\ \E fd \in Lowest(FreeFds) : fdt' = [fdt EXCEPT ![fd] = Head(backlog)]
    /\ st' = [st EXCEPT ![Head(backlog)] = "open"]
    /\ backlog' = Tail(backlog)
    /\ UNCHANGED <<stop, result, clients, next_client_id, peerVars, owed>>

AcceptFull ==
    /\ pc = "accept" /\ lready /\ FreeFds # {}
    /\ Head(backlog) \notin Denied
    /\ FreeSlots = {}
    /\ ToClients
    /\ st' = [st EXCEPT ![Head(backlog)] = "closed"]
    /\ backlog' = Tail(backlog)
    /\ UNCHANGED <<stop, result, clients, next_client_id, fdt,
                   peerVars, owed>>

(* Fault: clients are numbered by slot.                                    *)
JoinedBySlot(k, fd) ==
    [clients EXCEPT ![k].fd = fd, ![k].id = k % IdMod, ![k].line_start = TRUE]

Joined(k, fd) ==
    [clients EXCEPT ![k].fd = fd, ![k].id = next_client_id, ![k].line_start = TRUE]

AcceptClient ==
    /\ pc = "accept" /\ lready /\ FreeFds # {}
    /\ Head(backlog) \notin Denied
    /\ FreeSlots # {}
    /\ \E k \in Lowest(FreeSlots), fd \in Lowest(FreeFds) :
        /\ clients' = Joined(k, fd)
        /\ fdt' = [fdt EXCEPT ![fd] = Head(backlog)]
    /\ st' = [st EXCEPT ![Head(backlog)] = "open"]
    /\ next_client_id' = (next_client_id + 1) % IdMod
    /\ backlog' = Tail(backlog)
    /\ ToClients
    /\ UNCHANGED <<stop, result, peerVars, owed>>

-----------------------------------------------------------------------------
(* One client of the client loop: first its output, then its input.        *)

NextSlot ==
    IF i = MaxClients THEN EndRound
    ELSE pc' = "flush" /\ i' = i + 1 /\ UNCHANGED <<pfds, lready, snap>>

Served == clients[i].fd # NoFd
Event(e) == e \in pfds[clients[i].fd]

(* A free slot, or a client that poll() was not asked about.               *)
SkipClient ==
    /\ pc = "flush"
    /\ Served => pfds[clients[i].fd] = {}
    /\ NextSlot
    /\ UNCHANGED <<stop, result, clients, next_client_id, kernelVars, peerVars, owed>>

(* POLLERR, or flush_client fails on a connection reset since poll().      *)
DropBroken ==
    /\ pc = "flush" /\ Served
    /\ Event("POLLERR") \/ (Event("POLLOUT") /\ rst[ConnOf(i)])
    /\ drop_client({i})
    /\ NextSlot
    /\ UNCHANGED <<stop, result, next_client_id, peerVars, owed>>

(* Fault: the offset is advanced by one too many after a partial write.    *)
FlushPastEnd(client, n) == [client EXCEPT !.off = client.off + n + 1]

(* flush_client: write() until the queue is empty or the socket is full;   *)
(* an emptied queue is rewound.                                            *)
flush_client(client, n) ==
    IF n = Pending(client)
    THEN [client EXCEPT !.out = <<>>, !.off = 0]
    ELSE [client EXCEPT !.off = client.off + n]

Writable(c) == SockBuf - Len(sockout[c])

(* Fault: the sockets stay in blocking mode, so that write() waits until   *)
(* the peer has made room for all that is queued.                          *)
FlushBlocks ==
    /\ pc = "flush" /\ Served
    /\ pfds[clients[i].fd] # {} /\ ~Event("POLLERR")
    /\ LET c == ConnOf(i)
       IN  IF Event("POLLOUT")
           THEN /\ ~rst[c] /\ Pending(clients[i]) <= Writable(c)
                /\ clients' = [clients EXCEPT ![i].out = <<>>, ![i].off = 0]
                /\ sockout' = [sockout EXCEPT ![c] = @ \o PendingBytes(clients[i])]
           ELSE UNCHANGED <<clients, sockout>>
    /\ pc' = "read"
    /\ UNCHANGED <<stop, i, result, next_client_id, pfds, lready, kernelVars,
                   sent, rd, fin, rst, got, owed, snap>>

Flush ==
    /\ pc = "flush" /\ Served
    /\ pfds[clients[i].fd] # {} /\ ~Event("POLLERR")
    /\ Event("POLLOUT") => ~rst[ConnOf(i)]
    /\ LET c == ConnOf(i)
           n == IF Event("POLLOUT") THEN Least(Pending(clients[i]), Writable(c)) ELSE 0
       IN  /\ clients' = IF Event("POLLOUT")
                         THEN [clients EXCEPT ![i] = flush_client(clients[i], n)]
                         ELSE clients
           /\ sockout' = [sockout EXCEPT ![c] = @ \o SubSeq(PendingBytes(clients[i]), 1, n)]
    /\ pc' = "read"
    /\ UNCHANGED <<stop, i, result, next_client_id, pfds, lready, kernelVars,
                   sent, rd, fin, rst, got, owed, snap>>

(* POLLIN was not reported, or read() says EAGAIN.                         *)
NoInput ==
    /\ pc = "read"
    /\ ~Event("POLLIN") \/ ~Readable(ConnOf(i))
    /\ NextSlot
    /\ UNCHANGED <<stop, result, clients, next_client_id, kernelVars, peerVars, owed>>

(* Fault: end of input is taken for EAGAIN.                                *)
ReadEndIgnored ==
    /\ pc = "read" /\ Event("POLLIN")
    /\ sent[ConnOf(i)] = rd[ConnOf(i)] /\ (fin[ConnOf(i)] \/ rst[ConnOf(i)])
    /\ NextSlot
    /\ UNCHANGED <<stop, result, clients, next_client_id, kernelVars, peerVars, owed>>

(* read() returns 0 or an error: everything the peer sent was read before. *)
ReadEnds ==
    /\ pc = "read" /\ Event("POLLIN")
    /\ sent[ConnOf(i)] = rd[ConnOf(i)] /\ (fin[ConnOf(i)] \/ rst[ConnOf(i)])
    /\ drop_client({i})
    /\ NextSlot
    /\ UNCHANGED <<stop, result, next_client_id, peerVars, owed>>

(* Fault: the limit is off by one.                                         *)
OverflowsEarly(client, msg) ==
    Len(msg) > MaxBuffer \/ Pending(client) >= MaxBuffer - Len(msg)

(* queue_bytes: refuse what does not fit, otherwise move the pending bytes *)
(* to the front of the buffer and append.                                  *)
Overflows(client, msg) ==
    Len(msg) > MaxBuffer \/ Pending(client) > MaxBuffer - Len(msg)

(* Faults: the buffer only ever grows; it is rewound without the memmove.  *)
AppendOnly(client, msg) == [client EXCEPT !.out = client.out \o msg]
RewindOnly(client, msg) == [client EXCEPT !.out = client.out \o msg, !.off = 0]

queue_bytes(client, msg) ==
    LET kept == IF client.off > 0 /\ Pending(client) > 0 THEN PendingBytes(client)
                ELSE IF Pending(client) = 0 THEN <<>>
                ELSE client.out
    IN  [client EXCEPT !.out = kept \o msg, !.off = 0]

(* Fault: line_start is not carried over to the next read.                 *)
LineStartLost(client, buf) == client.line_start

LineStartAfter(client, buf) == buf[Len(buf)].kind = "nl"

InputLen(c) == Least(sent[c] - rd[c], ReadMax)

(* read() returns data: it is formatted if --chat asks for it and queued   *)
(* for every other client. A client whose queue has no room for it, or for *)
(* which there is no memory, is dropped.                                   *)
Relay ==
    /\ pc = "read" /\ Event("POLLIN")
    /\ sent[ConnOf(i)] > rd[ConnOf(i)]
    /\ \E nomem \in (IF AllocFails THEN SUBSET Slot ELSE {{}}) :
        LET c == ConnOf(i)
            n == InputLen(c)
            buf == Chunk(c, rd[c] + 1, rd[c] + n)
            msg == IF Chat THEN FormatChat(clients[i].id, clients[i].line_start, buf) ELSE buf
            others == OpenSlots \ {i}
            slow == {k \in others : Overflows(clients[k], msg) \/ k \in nomem}
        IN  /\ nomem \subseteq others
            /\ rd' = [rd EXCEPT ![c] = @ + n]
            /\ clients' = [k \in Slot |->
                   IF k = i /\ Chat
                     THEN [clients[k] EXCEPT !.line_start = LineStartAfter(clients[i], buf)]
                   ELSE IF k \in slow THEN client_init
                   ELSE IF k \in others THEN queue_bytes(clients[k], msg)
                   ELSE clients[k]]
            /\ CloseSlots(slow)
            /\ owed' = [d \in Conn |-> IF st[d] = "open" /\ d # c THEN owed[d] \o msg
                                                                  ELSE owed[d]]
    /\ NextSlot
    /\ UNCHANGED <<stop, result, next_client_id, sent, fin, rst, sockout, got>>

(* format_chat_message runs out of memory: the sender is dropped.          *)
FormatFails ==
    /\ pc = "read" /\ Event("POLLIN") /\ Chat /\ AllocFails
    /\ sent[ConnOf(i)] > rd[ConnOf(i)]
    /\ rd' = [rd EXCEPT ![ConnOf(i)] = @ + InputLen(ConnOf(i))]
    /\ drop_client({i})
    /\ NextSlot
    /\ UNCHANGED <<stop, result, next_client_id, sent, fin, rst, sockout, got, owed>>

BrokerStep ==
    \/ Poll \/ Shutdown
    \/ NoAccept \/ AcceptDenied \/ AcceptFull \/ AcceptClient
    \/ SkipClient \/ DropBroken \/ Flush
    \/ NoInput \/ ReadEnds \/ Relay \/ FormatFails

-----------------------------------------------------------------------------
(* The peers, and the signal. None of this is broker code. A peer may act  *)
(* before accept(), but the broker cannot tell that from acting just after *)
(* it, so bytes, end and reset are only produced on accepted connections.  *)
(* What a peer reads after the broker has closed is in sockout by then.    *)

procVars == <<pc, i, result, clients, next_client_id, pfds, lready, owed, snap>>

Connect(c) ==
    /\ st[c] = "idle" /\ pc # "done" /\ Len(backlog) < BacklogMax
    /\ st' = [st EXCEPT ![c] = "backlog"]
    /\ backlog' = Append(backlog, c)
    /\ UNCHANGED <<stop, procVars, fdt, peerVars>>

PeerSend(c) ==
    /\ st[c] = "open" /\ ~fin[c] /\ ~rst[c]
    /\ sent[c] < Len(Script[c])
    /\ sent' = [sent EXCEPT ![c] = @ + 1]
    /\ UNCHANGED <<stop, procVars, kernelVars, rd, fin, rst, sockout, got>>

PeerRead(c) ==
    /\ st[c] = "open" /\ sockout[c] # <<>> /\ ~rst[c]
    /\ got' = [got EXCEPT ![c] = @ \o sockout[c]]
    /\ sockout' = [sockout EXCEPT ![c] = <<>>]
    /\ UNCHANGED <<stop, procVars, kernelVars, sent, rd, fin, rst>>

PeerFin(c) ==
    /\ st[c] = "open" /\ ~fin[c] /\ ~rst[c]
    /\ fin' = [fin EXCEPT ![c] = TRUE]
    /\ UNCHANGED <<stop, procVars, kernelVars, sent, rd, rst, sockout, got>>

(* The connection breaks.                                                  *)
PeerReset(c) ==
    /\ c \in Breaks
    /\ st[c] = "open" /\ ~rst[c]
    /\ rst' = [rst EXCEPT ![c] = TRUE]
    /\ UNCHANGED <<stop, procVars, kernelVars, sent, rd, fin, sockout, got>>

(* The handler may run anywhere and only sets wcat_stop, which the loop    *)
(* reads at its head: the round goes on.                                   *)
Signal ==
    /\ Signals /\ ~stop /\ pc # "done"
    /\ stop' = TRUE
    /\ UNCHANGED <<procVars, kernelVars, peerVars>>

Peer(c) == Connect(c) \/ PeerSend(c) \/ PeerRead(c) \/ PeerFin(c) \/ PeerReset(c)

Terminated == pc = "done" /\ UNCHANGED vars

Next == BrokerStep \/ PollFails \/ (\E c \in Conn : Peer(c)) \/ Signal \/ Terminated

Spec == Init /\ [][Next]_vars

(* The broker is scheduled, and the peers in Readers read what arrives.    *)
(* Nothing forces the other peers to read, any peer to send, to close or   *)
(* to connect, or a signal to come.                                        *)
Fairness == WF_vars(BrokerStep) /\ \A c \in Readers : WF_vars(PeerRead(c))
FairSpec == Spec /\ Fairness

-----------------------------------------------------------------------------
(* Properties.                                                             *)

ClientRecord ==
    [fd : Fd \cup {NoFd}, id : 0..(IdMod - 1), line_start : BOOLEAN, out : Seq(Item), off : Nat]

(* Every variable has its type; out_off never passes out_len.              *)
TypeOK ==
    /\ stop \in BOOLEAN /\ pc \in {"poll", "accept", "flush", "read", "done"}
    /\ i \in Slot /\ result \in {0, 1}
    /\ clients \in [Slot -> ClientRecord]
    /\ next_client_id \in 0..(IdMod - 1)
    /\ pfds \in [Fd -> SUBSET {"POLLIN", "POLLOUT", "POLLERR"}] /\ lready \in BOOLEAN
    /\ fdt \in [Fd -> Conn \cup {NoConn}] /\ snap \in [Fd -> Conn \cup {NoConn}]
    /\ backlog \in Seq(Conn)
    /\ st \in [Conn -> {"idle", "backlog", "open", "closed"}]
    /\ sent \in [Conn -> Nat] /\ rd \in [Conn -> Nat]
    /\ \A c \in Conn : rd[c] <= sent[c] /\ sent[c] <= Len(Script[c])
    /\ fin \in [Conn -> BOOLEAN] /\ rst \in [Conn -> BOOLEAN]
    /\ sockout \in [Conn -> Seq(Item)] /\ got \in [Conn -> Seq(Item)]
    /\ owed \in [Conn -> Seq(Item)]
    /\ \A c \in Conn : Len(sockout[c]) <= SockBuf
    /\ \A k \in Slot : clients[k].off <= Len(clients[k].out)

(* queue_bytes keeps the allocation of every client, not only its pending  *)
(* bytes, within --broker-buffer, whatever mix of partial writes and new   *)
(* messages the queue has seen; a free slot holds no bytes at all.         *)
QueueBounded ==
    \A k \in Slot : /\ Len(clients[k].out) <= MaxBuffer
                    /\ clients[k].fd = NoFd => clients[k] = client_init

(* Slots and descriptors stay in step through accept, refusal, drops in    *)
(* the middle of a fan-out and shutdown: two slots never share a           *)
(* descriptor, a slot never holds a closed one, and no descriptor is open  *)
(* that no slot holds (which would leak it).                               *)
DescriptorsOwned ==
    /\ \A k \in OpenSlots : /\ ConnOf(k) \in Conn /\ st[ConnOf(k)] = "open"
                            /\ \A m \in OpenSlots : clients[m].fd = clients[k].fd => m = k
    /\ \A f \in Fd : fdt[f] # NoConn => \E k \in OpenSlots : clients[k].fd = f
    /\ \A c \in Conn : st[c] = "open" => \E k \in OpenSlots : ConnOf(k) = c

(* The client loop looks revents up by descriptor number. A number closed  *)
(* in this round is never handed to a new client before the round is over, *)
(* so events are acted on only for the connection poll() reported them of. *)
EventsAreFresh ==
    pc \in {"accept", "flush", "read"} =>
        \A k \in OpenSlots : pfds[clients[k].fd] # {} => ConnOf(k) = snap[clients[k].fd]

(* Relaying is exact: what a connected client has read, what the kernel    *)
(* holds for it and what its queue holds make up, in order and without     *)
(* loss or duplicate, what the others sent since it joined; its own bytes  *)
(* are not among them. A client that is gone has read a prefix of that.    *)
StreamIntact ==
    \A c \in Conn :
        LET written == got[c] \o sockout[c]
        IN  /\ \A k \in OpenSlots : ConnOf(k) = c =>
                    written \o PendingBytes(clients[k]) = owed[c]
            /\ written = SubSeq(owed[c], 1, Len(written)) /\ Len(written) <= Len(owed[c])
            /\ \A m \in DOMAIN owed[c] : owed[c][m].src # c

(* The n-th byte is its sender's next one after the m-th.                  *)
Follows(s, m, n) ==
    m < n /\ s[n].src = s[m].src /\ \A k \in (m + 1)..(n - 1) : s[k].src # s[m].src

(* --chat: in what a client receives, the bytes of one sender begin a new  *)
(* line with that sender's label, and the label is nowhere else. (A client *)
(* that joins in the middle of a line gets the rest of it without one.)    *)
LinesLabelled ==
    Chat => \A d \in Conn : \A m \in DOMAIN owed[d], n \in DOMAIN owed[d] :
        Follows(owed[d], m, n) =>
            ((owed[d][n].kind = "label" /\ owed[d][m].kind # "label") <=> owed[d][m].kind = "nl")

(* --chat: a label stands for one client, also after slots and descriptors *)
(* have been used again.                                                   *)
LabelsIdentify ==
    \A d \in Conn, e \in Conn : \A m \in DOMAIN owed[d], n \in DOMAIN owed[e] :
        (/\ owed[d][m].kind = "label" /\ owed[e][n].kind = "label"
         /\ owed[d][m].n = owed[e][n].n) => owed[d][m].src = owed[e][n].src

(* A signal ends the loop wherever in a round it comes: the round runs to  *)
(* its end with slots still to be flushed, read and sent to, and none of   *)
(* its steps waits for a peer, also where output is queued for one that    *)
(* never reads.                                                            *)
SignalStops == stop ~> pc = "done"

(* A peer that closes or breaks its connection loses its slot, however     *)
(* many bytes it left to be read and whatever the others do.               *)
DeadPeerFreed ==
    \A c \in Conn : (st[c] = "open" /\ (fin[c] \/ rst[c])) ~> st[c] = "closed"

(* "A slow receiver cannot stall every peer": what is relayed to a client  *)
(* that reads gets there, or the client is dropped, whether or not the     *)
(* others read. POLLOUT is asked for as long as something is queued.       *)
EventuallyDelivered ==
    \A c \in Readers : []<>(st[c] = "open" => got[c] = owed[c] \/ rst[c])
=============================================================================
