-------------------------------- MODULE Serve --------------------------------
(***************************************************************************)
(* The commands that serve one client after the other: run_listen of       *)
(* src/src/main.c, with a process behind each client if --exec asks for    *)
(* one, and wcat_proxy_server_run of src/src/proxy.c. The relay between    *)
(* the two ends is module Relay; here it is one state, which a session     *)
(* enters and leaves.                                                      *)
(*                                                                         *)
(* The C variables hold descriptor NUMBERS, and closing a number closes    *)
(* whatever has it at that moment. A signal that falls between a test of   *)
(* wcat_stop and the poll() after it is Relay's subject, not this one's.   *)
(***************************************************************************)
EXTENDS Integers, Sequences

CONSTANTS
    Conn,           \* connections clients may open
    NoConn,         \* nobody
    Denied,         \* connections the access lists refuse
    Configs,        \* command lines
    NumFd           \* the largest limit on descriptors in Configs

(* limit is the number of descriptors the process may have. --exec with a  *)
(* pipe or a terminal is for listen only.                                  *)
Config == [cmd : {"listen", "proxy"}, exec : {"none", "pipe", "pty"},
           tls : BOOLEAN, keep_open : BOOLEAN, limit : 1..NumFd]

ASSUME ServeAssumption ==
    /\ NumFd \in Nat \ {0} /\ NoConn \notin Conn /\ Denied \subseteq Conn
    /\ Configs \subseteq Config
    /\ \A f \in Configs : f.cmd = "proxy" => f.exec = "none" /\ ~f.tls

Fd == 1..NumFd
NoFd == 0

VARIABLES
    cfg, stop, pc, rc,
    fds,            \* kernel: what each descriptor number stands for
    cur, cfd,       \* the client being served, and its number
    in_fd, out_fd,  \* proc.in_fd, proc.out_fd
    upstream,       \* the proxy's connection to the target
    half,           \* the relay has seen the client's end of file
    child,          \* the process of each client
    backlog, st,    \* kernel: waiting connections, and the state of each
    says,           \* first words of the client: a handshake or a request
    fin, rst,       \* the client has finished sending, is gone
    upend,          \* the target has finished
    oserr           \* poll() or accept() has failed (history)

numVars == <<cur, cfd, in_fd, out_fd, upstream>>
peerVars == <<says, fin, rst, upend, oserr>>
vars == <<cfg, stop, pc, rc, fds, cur, cfd, in_fd, out_fd, upstream, half, child,
          backlog, st, says, fin, rst, upend, oserr>>

Free == [what |-> "free", conn |-> NoConn]
FreeFds == {n \in 1..cfg.limit : fds[n] = Free}
Lowest(S) == CHOOSE x \in S : \A y \in S : x <= y

(* close() of some numbers.                                                *)
Close(S) == [n \in Fd |-> IF n \in S THEN Free ELSE fds[n]]

Init ==
    /\ cfg \in Configs
    /\ stop = FALSE /\ rc = 0
    /\ pc = IF cfg.cmd = "listen" THEN "accept" ELSE "loop"
    /\ fds = [n \in Fd |-> IF n = 1 THEN [what |-> "listener", conn |-> NoConn] ELSE Free]
    /\ cur = NoConn /\ cfd = NoFd /\ in_fd = NoFd /\ out_fd = NoFd /\ upstream = NoFd
    /\ half = FALSE
    /\ child = [c \in Conn |-> "none"]
    /\ backlog = <<>> /\ st = [c \in Conn |-> "idle"]
    /\ says = "nothing" /\ fin = FALSE /\ rst = FALSE /\ upend = FALSE
    /\ oserr = FALSE

-----------------------------------------------------------------------------
(* The loop.                                                               *)

(* The loop is left: the listener is closed, and who waits in it refused.  *)
Exit ==
    /\ pc' = "done"
    /\ fds' = Close({1})
    /\ st' = [c \in Conn |-> IF st[c] = "backlog" THEN "closed" ELSE st[c]]
    /\ backlog' = <<>>

LoopAgain ==
    /\ pc = "loop" /\ ~stop /\ (cfg.cmd = "listen" => cfg.keep_open)
    /\ pc' = "accept"
    /\ UNCHANGED <<cfg, stop, rc, fds, numVars, half, child, backlog, st, peerVars>>

LoopExits ==
    /\ pc = "loop" /\ (stop \/ (cfg.cmd = "listen" /\ ~cfg.keep_open))
    /\ Exit
    /\ UNCHANGED <<cfg, stop, rc, numVars, half, child, peerVars>>

(* Fault: wcat_stop is looked at when a client has come.                   *)
AcceptStopsLate ==
    /\ pc = "accept" /\ cfg.cmd = "listen" /\ stop /\ backlog # <<>>
    /\ Exit
    /\ UNCHANGED <<cfg, stop, rc, numVars, half, child, peerVars>>

(* accept_when_ready looks at wcat_stop four times a second. The proxy     *)
(* waits in accept() itself, which wcat_accept repeats after a signal.     *)
AcceptStops ==
    /\ pc = "accept" /\ cfg.cmd = "listen" /\ stop
    /\ Exit
    /\ UNCHANGED <<cfg, stop, rc, numVars, half, child, peerVars>>

Waiting == pc = "accept" /\ backlog # <<>> /\ (cfg.cmd = "listen" => ~stop)

(* accept() finds no free descriptor: any error of it ends the command.    *)
AcceptExhausted ==
    /\ Waiting /\ FreeFds = {}
    /\ rc' = 1
    /\ Exit
    /\ UNCHANGED <<cfg, stop, numVars, half, child, peerVars>>

(* Every other error of poll() or accept() ends it too: a client that gave *)
(* up while it waited, no memory, no descriptor left in the whole system.  *)
AcceptFails ==
    /\ pc = "accept" /\ (cfg.cmd = "listen" => ~stop)
    /\ oserr' = TRUE
    /\ rc' = 1
    /\ Exit
    /\ UNCHANGED <<cfg, stop, numVars, half, child, says, fin, rst, upend>>

AcceptDenied ==
    /\ Waiting /\ FreeFds # {} /\ Head(backlog) \in Denied
    /\ st' = [st EXCEPT ![Head(backlog)] = "closed"]
    /\ backlog' = Tail(backlog)
    /\ pc' = "loop"
    /\ UNCHANGED <<cfg, stop, rc, fds, numVars, half, child, peerVars>>

Accepts ==
    /\ Waiting /\ FreeFds # {} /\ Head(backlog) \notin Denied
    /\ cur' = Head(backlog) /\ cfd' = Lowest(FreeFds)
    /\ fds' = [fds EXCEPT ![cfd'] = [what |-> "client", conn |-> cur']]
    /\ st' = [st EXCEPT ![cur'] = "open"]
    /\ backlog' = Tail(backlog)
    /\ half' = FALSE /\ says' = "nothing" /\ fin' = FALSE /\ rst' = FALSE /\ upend' = FALSE
    /\ pc' = IF cfg.cmd = "proxy" THEN "request"
             ELSE IF cfg.exec # "none" THEN "spawn"
             ELSE IF cfg.tls THEN "tls" ELSE "relay"
    /\ UNCHANGED <<cfg, stop, rc, in_fd, out_fd, upstream, child, oserr>>

-----------------------------------------------------------------------------
(* wcat_process_spawn, before the handshake.                               *)

(* What is left of the free numbers when one has been handed out.          *)
Rest(S) == S \ {Lowest(S)}

(* fork() fails, or there are too few descriptors for two pipes or for a   *)
(* terminal; what was opened is closed again. The client's descriptor is   *)
(* left open: nothing refers to it any more.                               *)
SpawnFails ==
    /\ pc = "spawn"
    /\ rc' = 1
    /\ st' = [st EXCEPT ![cur] = "leaked"]
    /\ pc' = "loop"
    /\ UNCHANGED <<cfg, stop, fds, numVars, half, child, backlog, peerVars>>

(* Two pipes take the four lowest numbers, of which the process's ends,    *)
(* the first and the last, are closed; a terminal takes two, one of which  *)
(* is the process's.                                                       *)
Spawns ==
    /\ pc = "spawn"
    /\ LET free2 == Rest(FreeFds)
           free3 == Rest(free2)
       IN  /\ FreeFds # {} /\ free2 # {}
           /\ IF cfg.exec = "pipe"
              THEN /\ free3 # {} /\ Rest(free3) # {}
                   /\ in_fd' = Lowest(free2) /\ out_fd' = Lowest(free3)
              ELSE in_fd' = Lowest(FreeFds) /\ out_fd' = Lowest(FreeFds)
    /\ fds' = [fds EXCEPT ![in_fd'] = [what |-> "in", conn |-> cur],
                          ![out_fd'] = [what |-> "out", conn |-> cur]]
    /\ child' = [child EXCEPT ![cur] = "running"]
    /\ pc' = IF cfg.tls THEN "tls" ELSE "relay"
    /\ UNCHANGED <<cfg, stop, rc, cur, cfd, upstream, half, backlog, st, peerVars>>

(* wcat_tls_server_open; the stream owns the client's descriptor.          *)
TlsOpens ==
    /\ pc = "tls" /\ says = "good"
    /\ pc' = "relay"
    /\ UNCHANGED <<cfg, stop, rc, fds, numVars, half, child, backlog, st, peerVars>>

(* Fault: a failed handshake leaves the process to itself.                 *)
TlsFailsOnly ==
    /\ pc = "tls" /\ (says = "bad" \/ fin \/ rst \/ stop)
    /\ rc' = 1
    /\ fds' = Close({cfd})
    /\ st' = [st EXCEPT ![cur] = "closed"]
    /\ pc' = "loop"
    /\ UNCHANGED <<cfg, stop, numVars, half, child, backlog, peerVars>>

(* The handshake fails, or a signal ends it: the client is closed, and     *)
(* then the process.                                                       *)
TlsFails ==
    /\ pc = "tls" /\ (says = "bad" \/ fin \/ rst \/ stop)
    /\ rc' = 1
    /\ fds' = Close({cfd})
    /\ st' = [st EXCEPT ![cur] = "closed"]
    /\ pc' = IF cfg.exec = "none" THEN "loop" ELSE "close"
    /\ UNCHANGED <<cfg, stop, numVars, half, child, backlog, peerVars>>

-----------------------------------------------------------------------------
(* serve_proxy_client, up to the relay. Reading the request is not ended   *)
(* by a signal.                                                            *)

RequestBad ==
    /\ pc = "request" /\ (says = "bad" \/ (says = "nothing" /\ (fin \/ rst)))
    /\ rc' = 1
    /\ pc' = "hangup"
    /\ UNCHANGED <<cfg, stop, fds, numVars, half, child, backlog, st, peerVars>>

(* The target cannot be reached, or the client is gone when it is told     *)
(* that it was; the connection to the target is closed again.              *)
RequestFails ==
    /\ pc = "request" /\ says = "good"
    /\ rc' = 1
    /\ pc' = "hangup"
    /\ UNCHANGED <<cfg, stop, fds, numVars, half, child, backlog, st, peerVars>>

RequestServed ==
    /\ pc = "request" /\ says = "good" /\ FreeFds # {}
    /\ upstream' = Lowest(FreeFds)
    /\ fds' = [fds EXCEPT ![upstream'] = [what |-> "upstream", conn |-> cur]]
    /\ pc' = "relay"
    /\ UNCHANGED <<cfg, stop, rc, cur, cfd, in_fd, out_fd, half, child, backlog, st, peerVars>>

-----------------------------------------------------------------------------
(* The relay. Where something stands behind the client, the client's end   *)
(* of file is passed on and the relay goes on.                             *)

ClientEnds == fin \/ rst
Backed == cfg.cmd = "proxy" \/ cfg.exec # "none"

(* Fault: the process's input stays open.                                  *)
RelayEofKept ==
    /\ pc = "relay" /\ Backed /\ ClientEnds /\ ~half
    /\ half' = TRUE
    /\ UNCHANGED <<cfg, stop, pc, rc, fds, numVars, child, backlog, st, peerVars>>

(* Fault: the client is hung up on.                                        *)
RelayEofHangsUp ==
    /\ pc = "relay" /\ Backed /\ ClientEnds /\ ~half
    /\ half' = TRUE
    /\ fds' = Close({cfd})
    /\ UNCHANGED <<cfg, stop, pc, rc, numVars, child, backlog, st, peerVars>>

(* fd_shutdown_write closes the pipe, proc.in_fd keeps the number; a       *)
(* terminal is not a socket and is told nothing.                           *)
RelayEof ==
    /\ pc = "relay" /\ Backed /\ ClientEnds /\ ~half
    /\ half' = TRUE
    /\ fds' = IF cfg.exec = "pipe" THEN Close({in_fd}) ELSE fds
    /\ UNCHANGED <<cfg, stop, pc, rc, numVars, child, backlog, st, peerVars>>

ChildGone == child[cur] = "exited"

(* wcat_relay_bidirectional returns: what is behind the client has ended,  *)
(* or nothing is and the client has, or a signal came. A write to an end   *)
(* that is gone makes it fail.                                             *)
RelayEnds ==
    /\ pc = "relay"
    /\ \/ rc' = 0 /\ stop
       \/ rc' = 0 /\ IF cfg.cmd = "proxy" THEN upend
                     ELSE IF cfg.exec = "none" THEN ClientEnds ELSE ChildGone
       \/ rc' = 1 /\ (rst \/ ChildGone \/ upend)
    /\ pc' = IF cfg.exec = "none" THEN "hangup" ELSE "close"
    /\ UNCHANGED <<cfg, stop, fds, numVars, half, child, backlog, st, peerVars>>

(* Nothing has come from either end for the time --timeout gives, or       *)
(* poll() fails.                                                           *)
RelayGivesUp ==
    /\ pc = "relay"
    /\ rc' \in {0, 1}
    /\ pc' = IF cfg.exec = "none" THEN "hangup" ELSE "close"
    /\ UNCHANGED <<cfg, stop, fds, numVars, half, child, backlog, st, peerVars>>

-----------------------------------------------------------------------------
(* The end of a session.                                                   *)

(* in_fd may have been closed by the relay: closing it again hits nothing, *)
(* for nothing has been opened in between.                                 *)
wcat_process_close ==
    /\ pc = "close"
    /\ fds' = Close({in_fd, out_fd})
    /\ in_fd' = NoFd /\ out_fd' = NoFd
    /\ pc' = "reap"
    /\ UNCHANGED <<cfg, stop, rc, cur, cfd, upstream, half, child, backlog, st, peerVars>>

(* Fault: the process is not waited for.                                   *)
NoWait ==
    /\ pc = "reap"
    /\ pc' = IF st[cur] = "open" THEN "hangup" ELSE "loop"
    /\ UNCHANGED <<cfg, stop, rc, fds, numVars, half, child, backlog, st, peerVars>>

(* waitpid(), which a signal does not end.                                 *)
wcat_process_wait ==
    /\ pc = "reap" /\ ChildGone
    /\ child' = [child EXCEPT ![cur] = "none"]
    /\ pc' = IF st[cur] = "open" THEN "hangup" ELSE "loop"
    /\ UNCHANGED <<cfg, stop, rc, fds, numVars, half, backlog, st, peerVars>>

Hangup ==
    /\ pc = "hangup" /\ cfg.cmd = "listen"
    /\ fds' = Close({cfd})
    /\ st' = [st EXCEPT ![cur] = "closed"]
    /\ pc' = "loop"
    /\ UNCHANGED <<cfg, stop, rc, numVars, half, child, backlog, peerVars>>

(* Fault: a failed session ends the proxy, with --keep-open too.           *)
KeepsOpenNever == FALSE

(* A session that fails ends the proxy, unless --keep-open is given.       *)
KeepsOpen == rc = 0 \/ cfg.keep_open

ProxyHangup ==
    /\ pc = "hangup" /\ cfg.cmd = "proxy"
    /\ upstream' = NoFd
    /\ IF KeepsOpen
       THEN /\ rc' = 0 /\ pc' = "loop"
            /\ fds' = Close({cfd, upstream})
            /\ st' = [st EXCEPT ![cur] = "closed"]
            /\ UNCHANGED backlog
       ELSE /\ UNCHANGED rc /\ pc' = "done"
            /\ fds' = Close({1, cfd, upstream})
            /\ st' = [c \in Conn |-> IF c = cur \/ st[c] = "backlog" THEN "closed" ELSE st[c]]
            /\ backlog' = <<>>
    /\ UNCHANGED <<cfg, stop, cur, cfd, in_fd, out_fd, half, child, peerVars>>

ServeStep ==
    \/ LoopAgain \/ LoopExits \/ AcceptStops \/ AcceptExhausted \/ AcceptDenied \/ Accepts
    \/ SpawnFails \/ Spawns \/ TlsOpens \/ TlsFails
    \/ RequestBad \/ RequestFails \/ RequestServed
    \/ RelayEof \/ RelayEnds
    \/ wcat_process_close \/ wcat_process_wait \/ Hangup \/ ProxyHangup

-----------------------------------------------------------------------------
(* The clients, the processes, the targets and the signal.                 *)

serveVars == <<cfg, pc, rc, fds, numVars, half>>

Connect(c) ==
    /\ st[c] = "idle" /\ pc # "done" /\ backlog = <<>>
    /\ st' = [st EXCEPT ![c] = "backlog"] /\ backlog' = Append(backlog, c)
    /\ UNCHANGED <<serveVars, stop, child, peerVars>>

InSession == cur # NoConn /\ st[cur] = "open"

Says(what) ==
    /\ InSession /\ says = "nothing" /\ ~fin /\ ~rst
    /\ cfg.cmd = "proxy" \/ cfg.tls
    /\ says' = what
    /\ UNCHANGED <<serveVars, stop, child, backlog, st, fin, rst, upend, oserr>>

(* The client finishes sending, or is gone altogether.                     *)
ClientFin ==
    /\ InSession /\ ~fin /\ ~rst
    /\ fin' = TRUE
    /\ UNCHANGED <<serveVars, stop, child, backlog, st, says, rst, upend, oserr>>

ClientGone ==
    /\ InSession /\ ~rst
    /\ rst' = TRUE
    /\ UNCHANGED <<serveVars, stop, child, backlog, st, says, fin, upend, oserr>>

(* A process may end at any time.                                          *)
ChildExits(c) ==
    /\ child[c] = "running"
    /\ child' = [child EXCEPT ![c] = "exited"]
    /\ UNCHANGED <<serveVars, stop, backlog, st, peerVars>>

InputEnded(c) == \A n \in Fd : ~(fds[n].conn = c /\ fds[n].what \in {"in", "out"})
                               \/ (cfg.exec = "pipe" /\ fds[n].what = "out")

UpstreamEnds ==
    /\ upstream # NoFd /\ pc = "relay" /\ ~upend
    /\ upend' = TRUE
    /\ UNCHANGED <<serveVars, stop, child, backlog, st, says, fin, rst, oserr>>

Signal ==
    /\ ~stop /\ pc # "done"
    /\ stop' = TRUE
    /\ UNCHANGED <<serveVars, child, backlog, st, peerVars>>

Outside == \/ \E c \in Conn : Connect(c) \/ ChildExits(c)
           \/ Says("good") \/ Says("bad") \/ ClientFin \/ ClientGone \/ UpstreamEnds

(* Nobody comes any more, or the command has ended.                        *)
Rests == (pc = "done" \/ (pc = "accept" /\ backlog = <<>>)) /\ UNCHANGED vars

Next == ServeStep \/ AcceptFails \/ RelayGivesUp \/ Outside \/ Signal \/ Rests

Spec == Init /\ [][Next]_vars

(* The process is scheduled; errors of the system and time-outs need not   *)
(* come; clients finish in the end; a process ends once its input has, or  *)
(* its terminal is closed; a target ends once its client has.              *)
Fairness ==
    /\ WF_vars(ServeStep)
    /\ WF_vars(ClientFin)
    /\ \A c \in Conn : WF_vars(InputEnded(c) /\ ChildExits(c))
    /\ WF_vars(half /\ UpstreamEnds)

FairSpec == Spec /\ Fairness

-----------------------------------------------------------------------------
(* Properties.                                                             *)

(* Every variable has its type; a session holds the descriptor of the      *)
(* client it serves.                                                       *)
TypeOK ==
    /\ cfg \in Configs /\ stop \in BOOLEAN /\ rc \in {0, 1} /\ half \in BOOLEAN
    /\ pc \in {"loop", "accept", "spawn", "tls", "request", "relay", "close", "reap",
               "hangup", "done"}
    /\ fds \in [Fd -> [what : {"free", "listener", "client", "in", "out", "upstream"},
                       conn : Conn \cup {NoConn}]]
    /\ cur \in Conn \cup {NoConn}
    /\ cfd \in Fd \cup {NoFd} /\ in_fd \in Fd \cup {NoFd}
    /\ out_fd \in Fd \cup {NoFd} /\ upstream \in Fd \cup {NoFd}
    /\ child \in [Conn -> {"none", "running", "exited"}]
    /\ upend \in BOOLEAN /\ oserr \in BOOLEAN /\ fin \in BOOLEAN /\ rst \in BOOLEAN
    /\ says \in {"nothing", "good", "bad"}
    /\ backlog \in Seq(Conn) /\ st \in [Conn -> {"idle", "backlog", "open", "closed", "leaked"}]
    /\ pc \in {"spawn", "tls", "request", "relay", "hangup"} =>
            fds[cfd] = [what |-> "client", conn |-> cur]

(* Every way out of a session closes what the session opened: when the     *)
(* next client is waited for, the descriptors in use are the listener's    *)
(* and those of clients whose process could not be spawned. The second     *)
(* close of a pipe does not hit another descriptor, the listener's least.  *)
DescriptorsBalanced ==
    pc \in {"loop", "accept", "done"} =>
        /\ \A n \in Fd : fds[n] # Free =>
                \/ n = 1 /\ fds[n].what = "listener"
                \/ fds[n].what = "client" /\ st[fds[n].conn] = "leaked"
        /\ pc # "done" <=> fds[1].what = "listener"

(* No process outlives its session as a zombie, on any error path.         *)
ChildrenReaped ==
    \A c \in Conn : child[c] # "none" =>
        c = cur /\ pc \in {"tls", "relay", "close", "reap"}

(* "Keep a listener open for sequential clients": with --keep-open, no     *)
(* failure of a client, its handshake, its request, its process or its     *)
(* target ends the command. A signal does, an error of poll() or accept()  *)
(* on the listener, or failed spawns once they have taken every descriptor *)
(* but the listener's.                                                     *)
KeepOpenStays ==
    (pc = "done" /\ cfg.keep_open) =>
        \/ stop \/ oserr
        \/ \A n \in 2..cfg.limit : fds[n].what = "client" /\ st[fds[n].conn] = "leaked"

(* A client that waits is accepted or refused in the end, also when the    *)
(* sessions before it fail. Clients finish sending in the end: one that is *)
(* silent for ever keeps the others waiting, and so does a terminal.       *)
NextClientServed ==
    \A c \in Conn : (st[c] = "backlog" /\ cfg.exec # "pty") ~> st[c] # "backlog"

(* A signal ends the command in whatever state a session is: a handshake,  *)
(* a relay, or waiting for the process. Only a proxy may be left waiting   *)
(* in accept(), while nobody connects.                                     *)
ListenerStops ==
    stop ~> (pc = "done" \/ (cfg.cmd = "proxy" /\ pc = "accept" /\ backlog = <<>>))

(* "Keep a listener open for sequential clients", with any kind of         *)
(* process.                                                                *)
SequentialClients == \A c \in Conn : st[c] = "backlog" ~> st[c] # "backlog"
=============================================================================
