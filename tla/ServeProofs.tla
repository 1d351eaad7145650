----------------------------- MODULE ServeProofs -----------------------------
(***************************************************************************)
(* Proofs about Serve, for every command line, every limit on descriptors  *)
(* and every number of clients.                                            *)
(***************************************************************************)
EXTENDS Serve, NatFacts

Serving == {"spawn", "tls", "request", "relay", "hangup"}
ClientFd == [what |-> "client", conn |-> cur]
ChildFds == [what : {"in", "out"}, conn : {cur}]

(* A connection that waits has not been accepted, and one waits at a time. *)
BacklogInv ==
    /\ Len(backlog) <= 1
    /\ \A m \in DOMAIN backlog : st[backlog[m]] = "backlog"

(* Who is served and which steps its session takes. After a failed         *)
(* handshake the client is closed while its process is being waited for.   *)
SessionInv ==
    /\ pc \in Serving \cup {"close", "reap"} => cur \in Conn /\ cfd \in Fd
    /\ pc \in Serving => st[cur] = "open"
    /\ pc \in {"close", "reap"} => \/ st[cur] = "closed"
                                   \/ st[cur] = "open" /\ fds[cfd] = ClientFd
    /\ pc \in {"spawn", "close", "reap"} => cfg.exec # "none"
    /\ pc = "request" => cfg.cmd = "proxy"

(* What the numbers of the process stand for: its own ends, or nothing     *)
(* once the relay has closed one; never somebody else's descriptor.        *)
ProcessInv ==
    IF cfg.exec # "none" /\ pc \in {"tls", "relay", "close"}
    THEN /\ in_fd \in Fd /\ fds[in_fd] \in ChildFds \cup {Free}
         /\ out_fd \in Fd /\ fds[out_fd] \in ChildFds \cup {Free}
    ELSE in_fd = NoFd /\ out_fd = NoFd

UpstreamInv ==
    upstream # NoFd => /\ cfg.cmd = "proxy" /\ pc \in {"relay", "hangup"}
                       /\ upstream \in Fd /\ fds[upstream].what = "upstream"

(* Every descriptor in use is accounted for.                               *)
LedgerInv ==
    /\ \A n \in Fd : fds[n] # Free =>
          \/ n = 1 /\ fds[n].what = "listener"
          \/ fds[n].what = "client" /\ fds[n].conn \in Conn /\ st[fds[n].conn] = "leaked"
          \/ n = cfd /\ fds[n] = ClientFd /\ pc \in Serving \cup {"close", "reap"} /\ st[cur] = "open"
          \/ n \in {in_fd, out_fd} /\ fds[n] \in ChildFds
          \/ n = upstream /\ fds[n].what = "upstream"
    /\ pc # "done" <=> fds[1].what = "listener"

ChildInv ==
    \A c \in Conn : child[c] # "none" =>
        /\ c = cur /\ pc \in {"tls", "relay", "close", "reap"} /\ cfg.exec # "none"

ServeInv ==
    /\ TypeOK /\ BacklogInv /\ SessionInv /\ ProcessInv /\ UpstreamInv
    /\ LedgerInv /\ ChildInv /\ KeepOpenStays

-----------------------------------------------------------------------------
(* Steps of the process, one lemma for each.                               *)

(* No connection waits after the last has been taken.                      *)
LEMMA EmptyIsSeq == <<>> \in Seq(Conn)
OBVIOUS

(* The least of some numbers is one of them.                               *)
LEMMA LowestIsMember ==
  ASSUME NEW S \in SUBSET Nat, S # {}
  PROVE  Lowest(S) \in S
<1>1. \E x \in S : \A y \in S : x <= y
  BY LeastMember
<1> QED BY <1>1 DEF Lowest

(* What the kernel hands out is a free number.                             *)
LEMMA FreeHasLowest ==
  ASSUME ServeInv
  PROVE  /\ FreeFds \in SUBSET Nat /\ FreeFds \subseteq Fd
         /\ FreeFds # {} => Lowest(FreeFds) \in FreeFds
<1>1. cfg.limit \in 1..NumFd /\ NumFd \in Nat
  BY ServeAssumption DEF ServeInv, TypeOK, Config
<1>2. FreeFds \in SUBSET Nat /\ FreeFds \subseteq Fd
  BY <1>1 DEF FreeFds, Fd
<1> QED BY <1>2, LowestIsMember

(* The loop goes round: no session is left open, so nothing is lost.       *)
LEMMA LoopAgainKeeps ==
  ASSUME ServeInv, LoopAgain
  PROVE  ServeInv'
<1>1. TypeOK'
  BY DEF ServeInv, TypeOK, numVars, peerVars, LoopAgain
<1>2. BacklogInv'
  BY DEF ServeInv, BacklogInv, LoopAgain
<1>3. SessionInv'
  BY DEF SessionInv, Serving, LoopAgain
<1>4. ProcessInv'
  BY DEF ServeInv, ProcessInv, numVars, LoopAgain
<1>5. UpstreamInv'
  BY DEF ServeInv, UpstreamInv, numVars, LoopAgain
<1>6. LedgerInv'
  BY DEF ServeInv, LedgerInv, ChildFds, Serving, numVars, LoopAgain
<1>7. ChildInv'
  BY DEF ServeInv, ChildInv, LoopAgain
<1>8. KeepOpenStays'
  BY DEF KeepOpenStays, LoopAgain
<1> QED BY <1>1, <1>2, <1>3, <1>4, <1>5, <1>6, <1>7, <1>8 DEF ServeInv

(* The loop ends and closes the listener.                                  *)
LEMMA LoopExitsKeeps ==
  ASSUME ServeInv, LoopExits
  PROVE  ServeInv'
<1>1. TypeOK'
  BY DEF ServeInv, TypeOK, Free, numVars, peerVars, LoopExits, Exit, Close
<1>2. BacklogInv'
  BY DEF BacklogInv, LoopExits, Exit
<1>3. SessionInv'
  BY DEF SessionInv, Serving, LoopExits, Exit
<1>4. ProcessInv'
  BY DEF ServeInv, ProcessInv, numVars, LoopExits, Exit
<1>5. UpstreamInv'
  BY DEF ServeInv, UpstreamInv, numVars, LoopExits
<1>6. LedgerInv'
  BY ServeAssumption DEF ServeInv, ProcessInv, LedgerInv, Serving, Fd, NoFd, Free,
     numVars, LoopExits, Exit, Close
<1>7. ChildInv'
  BY DEF ServeInv, ChildInv, LoopExits
<1>8. KeepOpenStays'
  BY DEF KeepOpenStays, LoopExits
<1> QED BY <1>1, <1>2, <1>3, <1>4, <1>5, <1>6, <1>7, <1>8 DEF ServeInv

(* A signal ends the wait for a client.                                    *)
LEMMA AcceptStopsKeeps ==
  ASSUME ServeInv, AcceptStops
  PROVE  ServeInv'
<1>1. TypeOK'
  BY DEF ServeInv, TypeOK, Free, numVars, peerVars, AcceptStops, Exit, Close
<1>2. BacklogInv'
  BY DEF BacklogInv, AcceptStops, Exit
<1>3. SessionInv'
  BY DEF SessionInv, Serving, AcceptStops, Exit
<1>4. ProcessInv'
  BY DEF ServeInv, ProcessInv, numVars, AcceptStops, Exit
<1>5. UpstreamInv'
  BY DEF ServeInv, UpstreamInv, numVars, AcceptStops
<1>6. LedgerInv'
  BY ServeAssumption DEF ServeInv, ProcessInv, LedgerInv, Serving, Fd, NoFd, Free,
     numVars, AcceptStops, Exit, Close
<1>7. ChildInv'
  BY DEF ServeInv, ChildInv, AcceptStops
<1>8. KeepOpenStays'
  BY DEF KeepOpenStays, AcceptStops
<1> QED BY <1>1, <1>2, <1>3, <1>4, <1>5, <1>6, <1>7, <1>8 DEF ServeInv

(* accept() finds no descriptor: all but the listener's belong to clients  *)
(* whose process could not be spawned.                                     *)
LEMMA AcceptExhaustedKeeps ==
  ASSUME ServeInv, AcceptExhausted
  PROVE  ServeInv'
<1>1. TypeOK'
  BY DEF ServeInv, TypeOK, Free, numVars, peerVars, AcceptExhausted, Exit, Close
<1>2. BacklogInv'
  BY DEF BacklogInv, AcceptExhausted, Exit
<1>3. SessionInv'
  BY DEF SessionInv, Serving, AcceptExhausted, Exit
<1>4. ProcessInv'
  BY DEF ServeInv, ProcessInv, numVars, AcceptExhausted, Exit, Waiting
<1>5. UpstreamInv'
  BY DEF ServeInv, UpstreamInv, numVars, AcceptExhausted, Waiting
<1>6. LedgerInv'
  BY ServeAssumption DEF ServeInv, LedgerInv, ChildFds, Serving, Fd, Free, numVars,
     AcceptExhausted, Exit, Close, Waiting
<1>7. ChildInv'
  BY DEF ServeInv, ChildInv, AcceptExhausted, Waiting
<1>8. KeepOpenStays'
  <2> SUFFICES ASSUME NEW n \in 2..cfg.limit
               PROVE  fds'[n].what = "client" /\ st'[fds'[n].conn] = "leaked"
    BY DEF KeepOpenStays, AcceptExhausted
  <2>1. n \in Fd /\ n # 1 /\ n \in 1..cfg.limit
    BY ServeAssumption DEF ServeInv, TypeOK, Config, Fd
  <2>2. fds[n] # Free
    BY <2>1 DEF AcceptExhausted, FreeFds
  <2>3. pc = "accept" /\ in_fd = NoFd /\ out_fd = NoFd /\ upstream = NoFd
    BY DEF ServeInv, ProcessInv, UpstreamInv, AcceptExhausted, Waiting
  <2>4. fds[n].what = "client" /\ fds[n].conn \in Conn /\ st[fds[n].conn] = "leaked"
    BY <2>1, <2>2, <2>3 DEF ServeInv, LedgerInv, Serving, Fd, NoFd
  <2>5. fds'[n] = fds[n]
    BY <2>1 DEF AcceptExhausted, Exit, Close
  <2>6. st'[fds[n].conn] = st[fds[n].conn]
    BY <2>4 DEF AcceptExhausted, Exit
  <2> QED BY <2>4, <2>5, <2>6
<1> QED BY <1>1, <1>2, <1>3, <1>4, <1>5, <1>6, <1>7, <1>8 DEF ServeInv

(* Any other error of poll() or accept() is recorded as what it is.        *)
LEMMA AcceptFailsKeeps ==
  ASSUME ServeInv, AcceptFails
  PROVE  ServeInv'
<1>1. TypeOK'
  BY DEF ServeInv, TypeOK, Free, numVars, peerVars, AcceptFails, Exit, Close
<1>2. BacklogInv'
  BY DEF BacklogInv, AcceptFails, Exit
<1>3. SessionInv'
  BY DEF SessionInv, Serving, AcceptFails, Exit
<1>4. ProcessInv'
  BY DEF ServeInv, ProcessInv, numVars, AcceptFails, Exit
<1>5. UpstreamInv'
  BY DEF ServeInv, UpstreamInv, numVars, AcceptFails
<1>6. LedgerInv'
  BY ServeAssumption DEF ServeInv, LedgerInv, ChildFds, Serving, Fd, Free, numVars,
     AcceptFails, Exit, Close
<1>7. ChildInv'
  BY DEF ServeInv, ChildInv, AcceptFails
<1>8. KeepOpenStays'
  BY DEF KeepOpenStays, AcceptFails
<1> QED BY <1>1, <1>2, <1>3, <1>4, <1>5, <1>6, <1>7, <1>8 DEF ServeInv

(* A refused client has had no descriptor that lasts.                      *)
LEMMA AcceptDeniedKeeps ==
  ASSUME ServeInv, AcceptDenied
  PROVE  ServeInv'
<1>1. TypeOK'
  BY DEF ServeInv, TypeOK, numVars, peerVars, AcceptDenied, Waiting
<1>2. BacklogInv'
  BY DEF ServeInv, BacklogInv, AcceptDenied
<1>3. SessionInv'
  BY DEF SessionInv, Serving, AcceptDenied
<1>4. ProcessInv'
  BY DEF ServeInv, ProcessInv, numVars, AcceptDenied, Waiting
<1>5. UpstreamInv'
  BY DEF ServeInv, UpstreamInv, numVars, AcceptDenied, Waiting
<1>6. LedgerInv'
  BY DEF ServeInv, BacklogInv, ProcessInv, UpstreamInv, LedgerInv, Serving, Fd, NoFd,
     AcceptDenied, Waiting
<1>7. ChildInv'
  BY DEF ServeInv, ChildInv, AcceptDenied, Waiting
<1>8. KeepOpenStays'
  BY DEF KeepOpenStays, AcceptDenied
<1> QED BY <1>1, <1>2, <1>3, <1>4, <1>5, <1>6, <1>7, <1>8 DEF ServeInv

(* A new client gets a number nobody has.                                  *)
LEMMA AcceptsKeeps ==
  ASSUME ServeInv, Accepts
  PROVE  ServeInv'
<1>0. cfd' \in FreeFds /\ cfd' \in Fd
  BY FreeHasLowest DEF Accepts
<1>a. cur' \in Conn /\ backlog' = <<>> /\ st[cur'] = "backlog"
  BY DEF ServeInv, TypeOK, BacklogInv, Accepts, Waiting
<1>b. /\ fds' = [fds EXCEPT ![cfd'] = [what |-> "client", conn |-> cur']]
      /\ fds'[cfd'] = ClientFd'
      /\ st' = [st EXCEPT ![cur'] = "open"] /\ st'[cur'] = "open"
  BY <1>0, <1>a DEF ServeInv, TypeOK, Accepts, ClientFd
<1>1. TypeOK'
  <2>1. fds' \in [Fd -> [what : {"free", "listener", "client", "in", "out", "upstream"},
                        conn : Conn \cup {NoConn}]]
    BY <1>a, <1>b DEF ServeInv, TypeOK
  <2>2. st' \in [Conn -> {"idle", "backlog", "open", "closed", "leaked"}]
    BY <1>b DEF ServeInv, TypeOK
  <2>3. pc' \in {"request", "spawn", "tls", "relay"}
    BY DEF Accepts
  <2> QED BY <1>0, <1>a, EmptyIsSeq DEF ServeInv, TypeOK, Accepts
<1>2. BacklogInv'
  BY DEF ServeInv, BacklogInv, Accepts
<1>3. SessionInv'
  BY <1>0, <1>a, <1>b DEF SessionInv, Accepts
<1>4. ProcessInv'
  <2>1. in_fd = NoFd /\ out_fd = NoFd
    BY DEF ServeInv, ProcessInv, Accepts, Waiting
  <2>2. cfg.exec # "none" => pc' \in {"request", "spawn"}
    BY DEF Accepts
  <2> QED BY <2>1 DEF ProcessInv, Accepts
<1>5. UpstreamInv'
  BY DEF ServeInv, UpstreamInv, Accepts, Waiting
<1>6. LedgerInv'
  BY <1>0, <1>a DEF ServeInv, TypeOK, ProcessInv, LedgerInv, ClientFd, Serving, Fd,
     NoFd, Free, Accepts, Waiting, FreeFds
<1>7. ChildInv'
  BY DEF ServeInv, ChildInv, Accepts, Waiting
<1>8. KeepOpenStays'
  BY DEF KeepOpenStays, Accepts
<1> QED BY <1>1, <1>2, <1>3, <1>4, <1>5, <1>6, <1>7, <1>8 DEF ServeInv

(* The one path on which a descriptor stays behind.                        *)
LEMMA SpawnFailsKeeps ==
  ASSUME ServeInv, SpawnFails
  PROVE  ServeInv'
<1>1. TypeOK'
  BY DEF ServeInv, TypeOK, SessionInv, Serving, numVars, peerVars, SpawnFails
<1>2. BacklogInv'
  BY DEF ServeInv, BacklogInv, SessionInv, Serving, SpawnFails
<1>3. SessionInv'
  BY DEF SessionInv, Serving, SpawnFails
<1>4. ProcessInv'
  BY DEF ServeInv, ProcessInv, numVars, SpawnFails
<1>5. UpstreamInv'
  BY DEF ServeInv, UpstreamInv, numVars, SpawnFails
<1>6. LedgerInv'
  BY DEF ServeInv, TypeOK, SessionInv, LedgerInv, ChildFds, numVars, SpawnFails
<1>7. ChildInv'
  BY DEF ServeInv, ChildInv, SpawnFails
<1>8. KeepOpenStays'
  BY DEF KeepOpenStays, SpawnFails
<1> QED BY <1>1, <1>2, <1>3, <1>4, <1>5, <1>6, <1>7, <1>8 DEF ServeInv

(* The process gets numbers that are not the client's or the listener's.   *)
LEMMA SpawnsKeeps ==
  ASSUME ServeInv, Spawns
  PROVE  ServeInv'
<1>0. in_fd' \in FreeFds /\ out_fd' \in FreeFds
  <2>1. FreeFds \in SUBSET Nat
    BY FreeHasLowest
  <2>2. Rest(FreeFds) \subseteq FreeFds /\ Rest(Rest(FreeFds)) \subseteq FreeFds
    BY DEF Rest
  <2>3. CASE cfg.exec = "pipe"
    <3>1. Lowest(Rest(FreeFds)) \in Rest(FreeFds)
      BY <2>1, <2>2, LowestIsMember DEF Spawns
    <3>2. Lowest(Rest(Rest(FreeFds))) \in Rest(Rest(FreeFds))
      BY <2>1, <2>2, <2>3, LowestIsMember DEF Spawns
    <3> QED BY <2>2, <2>3, <3>1, <3>2 DEF Spawns
  <2>4. CASE cfg.exec # "pipe"
    BY <2>4, FreeHasLowest DEF Spawns
  <2> QED BY <2>3, <2>4
<1>1. TypeOK'
  BY <1>0, ServeAssumption DEF ServeInv, TypeOK, SessionInv, Serving, Config, Fd, Free,
     peerVars, Spawns, FreeFds
<1>2. BacklogInv'
  BY DEF ServeInv, BacklogInv, Spawns
<1>3. SessionInv'
  BY DEF ServeInv, SessionInv, Serving, Spawns
<1>4. ProcessInv'
  BY <1>0, ServeAssumption DEF ServeInv, TypeOK, ProcessInv, ChildFds, Config, Fd,
     Spawns, FreeFds
<1>5. UpstreamInv'
  BY DEF ServeInv, UpstreamInv, Spawns
<1>6. LedgerInv'
  BY <1>0, ServeAssumption DEF ServeInv, TypeOK, ProcessInv, LedgerInv, ClientFd,
     ChildFds, Serving, Fd, NoFd, Free, Spawns, FreeFds
<1>7. ChildInv'
  BY DEF ServeInv, SessionInv, ChildInv, Spawns
<1>8. KeepOpenStays'
  BY DEF KeepOpenStays, Spawns
<1> QED BY <1>1, <1>2, <1>3, <1>4, <1>5, <1>6, <1>7, <1>8 DEF ServeInv

(* The handshake succeeds.                                                 *)
LEMMA TlsOpensKeeps ==
  ASSUME ServeInv, TlsOpens
  PROVE  ServeInv'
<1>1. TypeOK'
  BY DEF ServeInv, TypeOK, numVars, peerVars, TlsOpens
<1>2. BacklogInv'
  BY DEF ServeInv, BacklogInv, TlsOpens
<1>3. SessionInv'
  BY DEF ServeInv, SessionInv, Serving, numVars, TlsOpens
<1>4. ProcessInv'
  BY DEF ServeInv, ProcessInv, ChildFds, numVars, TlsOpens
<1>5. UpstreamInv'
  BY DEF ServeInv, UpstreamInv, numVars, TlsOpens
<1>6. LedgerInv'
  BY DEF ServeInv, LedgerInv, ClientFd, ChildFds, Serving, numVars, TlsOpens
<1>7. ChildInv'
  BY DEF ServeInv, ChildInv, numVars, TlsOpens
<1>8. KeepOpenStays'
  BY DEF KeepOpenStays, TlsOpens
<1> QED BY <1>1, <1>2, <1>3, <1>4, <1>5, <1>6, <1>7, <1>8 DEF ServeInv

(* The handshake fails: the client is closed, its process still to be      *)
(* closed and waited for.                                                  *)
LEMMA TlsFailsKeeps ==
  ASSUME ServeInv, TlsFails
  PROVE  ServeInv'
<1>1. TypeOK'
  BY DEF ServeInv, TypeOK, SessionInv, Serving, Free, numVars, peerVars, TlsFails,
     Close
<1>2. BacklogInv'
  BY DEF ServeInv, BacklogInv, SessionInv, Serving, TlsFails
<1>3. SessionInv'
  BY DEF ServeInv, TypeOK, SessionInv, Serving, numVars, TlsFails
<1>4. ProcessInv'
  BY DEF ServeInv, ProcessInv, ChildFds, numVars, TlsFails, Close
<1>5. UpstreamInv'
  BY DEF ServeInv, UpstreamInv, numVars, TlsFails
<1>6. LedgerInv'
  BY ServeAssumption DEF ServeInv, TypeOK, SessionInv, LedgerInv, ChildFds, Serving,
     Fd, numVars, TlsFails, Close
<1>7. ChildInv'
  BY DEF ServeInv, ChildInv, numVars, TlsFails
<1>8. KeepOpenStays'
  BY DEF KeepOpenStays, TlsFails
<1> QED BY <1>1, <1>2, <1>3, <1>4, <1>5, <1>6, <1>7, <1>8 DEF ServeInv

(* A bad request leaves the client to be hung up on.                       *)
LEMMA RequestBadKeeps ==
  ASSUME ServeInv, RequestBad
  PROVE  ServeInv'
<1>1. TypeOK'
  BY DEF ServeInv, TypeOK, numVars, peerVars, RequestBad
<1>2. BacklogInv'
  BY DEF ServeInv, BacklogInv, RequestBad
<1>3. SessionInv'
  BY DEF ServeInv, SessionInv, Serving, numVars, RequestBad
<1>4. ProcessInv'
  BY DEF ServeInv, ProcessInv, numVars, RequestBad
<1>5. UpstreamInv'
  BY DEF ServeInv, UpstreamInv, numVars, RequestBad
<1>6. LedgerInv'
  BY DEF ServeInv, LedgerInv, ClientFd, ChildFds, Serving, numVars, RequestBad
<1>7. ChildInv'
  BY DEF ServeInv, ChildInv, RequestBad
<1>8. KeepOpenStays'
  BY DEF KeepOpenStays, RequestBad
<1> QED BY <1>1, <1>2, <1>3, <1>4, <1>5, <1>6, <1>7, <1>8 DEF ServeInv

(* So does a target that cannot be reached.                                *)
LEMMA RequestFailsKeeps ==
  ASSUME ServeInv, RequestFails
  PROVE  ServeInv'
<1>1. TypeOK'
  BY DEF ServeInv, TypeOK, numVars, peerVars, RequestFails
<1>2. BacklogInv'
  BY DEF ServeInv, BacklogInv, RequestFails
<1>3. SessionInv'
  BY DEF ServeInv, SessionInv, Serving, numVars, RequestFails
<1>4. ProcessInv'
  BY DEF ServeInv, ProcessInv, numVars, RequestFails
<1>5. UpstreamInv'
  BY DEF ServeInv, UpstreamInv, numVars, RequestFails
<1>6. LedgerInv'
  BY DEF ServeInv, LedgerInv, ClientFd, ChildFds, Serving, numVars, RequestFails
<1>7. ChildInv'
  BY DEF ServeInv, ChildInv, RequestFails
<1>8. KeepOpenStays'
  BY DEF KeepOpenStays, RequestFails
<1> QED BY <1>1, <1>2, <1>3, <1>4, <1>5, <1>6, <1>7, <1>8 DEF ServeInv

(* The connection to the target gets a free number.                        *)
LEMMA RequestServedKeeps ==
  ASSUME ServeInv, RequestServed
  PROVE  ServeInv'
<1>0. upstream' \in FreeFds
  BY FreeHasLowest DEF RequestServed
<1>1. TypeOK'
  BY <1>0, ServeAssumption DEF ServeInv, TypeOK, Config, Fd, Free, peerVars,
     RequestServed, FreeFds
<1>2. BacklogInv'
  BY DEF ServeInv, BacklogInv, RequestServed
<1>3. SessionInv'
  BY DEF ServeInv, SessionInv, Serving, RequestServed
<1>4. ProcessInv'
  BY ServeAssumption DEF ServeInv, TypeOK, SessionInv, ProcessInv, RequestServed
<1>5. UpstreamInv'
  BY <1>0, ServeAssumption DEF ServeInv, TypeOK, SessionInv, UpstreamInv, Config, Fd,
     RequestServed, FreeFds
<1>6. LedgerInv'
  BY <1>0 DEF ServeInv, UpstreamInv, LedgerInv, ClientFd, ChildFds, Serving, Fd, NoFd,
     Free, RequestServed, FreeFds
<1>7. ChildInv'
  BY DEF ServeInv, ChildInv, RequestServed
<1>8. KeepOpenStays'
  BY DEF KeepOpenStays, RequestServed
<1> QED BY <1>1, <1>2, <1>3, <1>4, <1>5, <1>6, <1>7, <1>8 DEF ServeInv

(* The relay closes the process's input; in_fd keeps a number that is now  *)
(* free.                                                                   *)
LEMMA RelayEofKeeps ==
  ASSUME ServeInv, RelayEof
  PROVE  ServeInv'
<1>1. TypeOK'
  BY DEF ServeInv, TypeOK, SessionInv, ProcessInv, ChildFds, Serving, Free, numVars,
     peerVars, RelayEof, Close
<1>2. BacklogInv'
  BY DEF ServeInv, BacklogInv, RelayEof
<1>3. SessionInv'
  BY DEF ServeInv, SessionInv, numVars, RelayEof
<1>4. ProcessInv'
  BY DEF ServeInv, ProcessInv, ChildFds, numVars, RelayEof, Close
<1>5. UpstreamInv'
  BY ServeAssumption DEF ServeInv, TypeOK, UpstreamInv, numVars, RelayEof
<1>6. LedgerInv'
  BY ServeAssumption DEF ServeInv, ProcessInv, LedgerInv, ClientFd, ChildFds, Fd,
     numVars, RelayEof, Close
<1>7. ChildInv'
  BY DEF ServeInv, ChildInv, numVars, RelayEof
<1>8. KeepOpenStays'
  BY DEF KeepOpenStays, RelayEof
<1> QED BY <1>1, <1>2, <1>3, <1>4, <1>5, <1>6, <1>7, <1>8 DEF ServeInv

(* The relay returns.                                                      *)
LEMMA RelayEndsKeeps ==
  ASSUME ServeInv, RelayEnds
  PROVE  ServeInv'
<1>1. TypeOK'
  BY DEF ServeInv, TypeOK, numVars, peerVars, RelayEnds
<1>2. BacklogInv'
  BY DEF ServeInv, BacklogInv, RelayEnds
<1>3. SessionInv'
  BY DEF ServeInv, TypeOK, SessionInv, ClientFd, Serving, numVars, RelayEnds
<1>4. ProcessInv'
  BY DEF ServeInv, ProcessInv, ChildFds, numVars, RelayEnds
<1>5. UpstreamInv'
  BY ServeAssumption DEF ServeInv, TypeOK, UpstreamInv, numVars, RelayEnds
<1>6. LedgerInv'
  BY DEF ServeInv, LedgerInv, ClientFd, ChildFds, Serving, numVars, RelayEnds
<1>7. ChildInv'
  BY DEF ServeInv, ChildInv, numVars, RelayEnds
<1>8. KeepOpenStays'
  BY DEF KeepOpenStays, RelayEnds
<1> QED BY <1>1, <1>2, <1>3, <1>4, <1>5, <1>6, <1>7, <1>8 DEF ServeInv

(* So it does after a time-out or an error of poll().                      *)
LEMMA RelayGivesUpKeeps ==
  ASSUME ServeInv, RelayGivesUp
  PROVE  ServeInv'
<1>1. TypeOK'
  BY DEF ServeInv, TypeOK, numVars, peerVars, RelayGivesUp
<1>2. BacklogInv'
  BY DEF ServeInv, BacklogInv, RelayGivesUp
<1>3. SessionInv'
  BY DEF ServeInv, TypeOK, SessionInv, ClientFd, Serving, numVars, RelayGivesUp
<1>4. ProcessInv'
  BY DEF ServeInv, ProcessInv, ChildFds, numVars, RelayGivesUp
<1>5. UpstreamInv'
  BY ServeAssumption DEF ServeInv, TypeOK, UpstreamInv, numVars, RelayGivesUp
<1>6. LedgerInv'
  BY DEF ServeInv, LedgerInv, ClientFd, ChildFds, Serving, numVars, RelayGivesUp
<1>7. ChildInv'
  BY DEF ServeInv, ChildInv, numVars, RelayGivesUp
<1>8. KeepOpenStays'
  BY DEF KeepOpenStays, RelayGivesUp
<1> QED BY <1>1, <1>2, <1>3, <1>4, <1>5, <1>6, <1>7, <1>8 DEF ServeInv

(* Closing in_fd a second time hits nothing: its number is still free.     *)
LEMMA wcat_process_closeKeeps ==
  ASSUME ServeInv, wcat_process_close
  PROVE  ServeInv'
<1>1. TypeOK'
  BY DEF ServeInv, TypeOK, Free, peerVars, wcat_process_close, Close
<1>2. BacklogInv'
  BY DEF ServeInv, BacklogInv, wcat_process_close
<1>3. SessionInv'
  BY DEF ServeInv, SessionInv, ProcessInv, ClientFd, ChildFds, Serving,
     wcat_process_close, Close
<1>4. ProcessInv'
  BY DEF ProcessInv, wcat_process_close
<1>5. UpstreamInv'
  BY DEF ServeInv, UpstreamInv, wcat_process_close
<1>6. LedgerInv'
  BY ServeAssumption DEF ServeInv, ProcessInv, LedgerInv, ClientFd, ChildFds, Fd, NoFd,
     wcat_process_close, Close
<1>7. ChildInv'
  BY DEF ServeInv, ChildInv, wcat_process_close
<1>8. KeepOpenStays'
  BY DEF KeepOpenStays, wcat_process_close
<1> QED BY <1>1, <1>2, <1>3, <1>4, <1>5, <1>6, <1>7, <1>8 DEF ServeInv

(* The process is reaped.                                                  *)
LEMMA wcat_process_waitKeeps ==
  ASSUME ServeInv, wcat_process_wait
  PROVE  ServeInv'
<1>1. TypeOK'
  BY DEF ServeInv, TypeOK, SessionInv, ClientFd, numVars, peerVars, wcat_process_wait
<1>2. BacklogInv'
  BY DEF ServeInv, BacklogInv, wcat_process_wait
<1>3. SessionInv'
  BY DEF ServeInv, SessionInv, Serving, numVars, wcat_process_wait
<1>4. ProcessInv'
  BY DEF ServeInv, ProcessInv, numVars, wcat_process_wait
<1>5. UpstreamInv'
  BY DEF ServeInv, UpstreamInv, numVars, wcat_process_wait
<1>6. LedgerInv'
  BY DEF ServeInv, LedgerInv, ClientFd, ChildFds, Serving, numVars, wcat_process_wait
<1>7. ChildInv'
  BY DEF ServeInv, TypeOK, ChildInv, wcat_process_wait
<1>8. KeepOpenStays'
  BY DEF KeepOpenStays, wcat_process_wait
<1> QED BY <1>1, <1>2, <1>3, <1>4, <1>5, <1>6, <1>7, <1>8 DEF ServeInv

(* The client's descriptor is closed.                                      *)
LEMMA HangupKeeps ==
  ASSUME ServeInv, Hangup
  PROVE  ServeInv'
<1>1. TypeOK'
  BY DEF ServeInv, TypeOK, SessionInv, Serving, Free, numVars, peerVars, Hangup, Close
<1>2. BacklogInv'
  BY DEF ServeInv, BacklogInv, SessionInv, Serving, Hangup
<1>3. SessionInv'
  BY DEF SessionInv, Serving, Hangup
<1>4. ProcessInv'
  BY DEF ServeInv, ProcessInv, numVars, Hangup
<1>5. UpstreamInv'
  BY DEF ServeInv, UpstreamInv, numVars, Hangup
<1>6. LedgerInv'
  BY ServeAssumption DEF ServeInv, TypeOK, SessionInv, ProcessInv, LedgerInv, Serving,
     Fd, NoFd, numVars, Hangup, Close
<1>7. ChildInv'
  BY DEF ServeInv, ChildInv, Hangup
<1>8. KeepOpenStays'
  BY DEF KeepOpenStays, Hangup
<1> QED BY <1>1, <1>2, <1>3, <1>4, <1>5, <1>6, <1>7, <1>8 DEF ServeInv

(* The proxy closes the client and the target, and on failure the          *)
(* listener.                                                               *)
LEMMA ProxyHangupKeeps ==
  ASSUME ServeInv, ProxyHangup
  PROVE  ServeInv'
<1>1. TypeOK'
  <2>1. fds' \in [Fd -> [what : {"free", "listener", "client", "in", "out", "upstream"},
                        conn : Conn \cup {NoConn}]]
    BY DEF ServeInv, TypeOK, ProxyHangup, Close, Free
  <2>2. st' \in [Conn -> {"idle", "backlog", "open", "closed", "leaked"}]
    BY DEF ServeInv, TypeOK, ProxyHangup
  <2>3. backlog' \in Seq(Conn)
    BY EmptyIsSeq DEF ServeInv, TypeOK, ProxyHangup
  <2>4. pc' \in {"loop", "done"} /\ rc' \in {0, 1} /\ upstream' = NoFd
    BY DEF ServeInv, TypeOK, ProxyHangup
  <2> QED BY <2>1, <2>3 DEF ServeInv, TypeOK, ProxyHangup, peerVars
<1>2. BacklogInv'
  BY DEF ServeInv, TypeOK, BacklogInv, SessionInv, Serving, ProxyHangup
<1>3. SessionInv'
  BY DEF SessionInv, Serving, ProxyHangup
<1>4. ProcessInv'
  BY DEF ServeInv, ProcessInv, ProxyHangup
<1>5. UpstreamInv'
  BY DEF UpstreamInv, ProxyHangup
<1>6. LedgerInv'
  BY ServeAssumption DEF ServeInv, TypeOK, SessionInv, UpstreamInv, LedgerInv,
     ChildFds, Serving, Fd, NoFd, Free, ProxyHangup, Close
<1>7. ChildInv'
  BY DEF ServeInv, ChildInv, ProxyHangup
<1>8. KeepOpenStays'
  BY DEF KeepOpenStays, ProxyHangup, KeepsOpen
<1> QED BY <1>1, <1>2, <1>3, <1>4, <1>5, <1>6, <1>7, <1>8 DEF ServeInv

-----------------------------------------------------------------------------
(* The clients, the processes, the targets and the signal.                 *)

(* A connection comes to wait.                                             *)
LEMMA ConnectKeeps ==
  ASSUME ServeInv, NEW c \in Conn, Connect(c)
  PROVE  ServeInv'
<1>1. TypeOK'
  BY DEF ServeInv, TypeOK, numVars, peerVars, Connect, serveVars
<1>2. BacklogInv'
  BY DEF ServeInv, TypeOK, BacklogInv, Connect
<1>3. SessionInv'
  BY DEF ServeInv, SessionInv, ClientFd, numVars, Connect, serveVars
<1>4. ProcessInv'
  BY DEF ServeInv, ProcessInv, ChildFds, numVars, Connect, serveVars
<1>5. UpstreamInv'
  BY DEF ServeInv, UpstreamInv, numVars, Connect, serveVars
<1>6. LedgerInv'
  BY DEF ServeInv, LedgerInv, ClientFd, ChildFds, numVars, Connect, serveVars
<1>7. ChildInv'
  BY DEF ServeInv, ChildInv, numVars, Connect, serveVars
<1>8. KeepOpenStays'
  BY DEF KeepOpenStays, Connect, serveVars
<1> QED BY <1>1, <1>2, <1>3, <1>4, <1>5, <1>6, <1>7, <1>8 DEF ServeInv

(* A process ends and waits to be reaped.                                  *)
LEMMA ChildExitsKeeps ==
  ASSUME ServeInv, NEW c \in Conn, ChildExits(c)
  PROVE  ServeInv'
<1>1. TypeOK'
  BY DEF ServeInv, TypeOK, numVars, peerVars, ChildExits, serveVars
<1>2. BacklogInv'
  BY DEF ServeInv, BacklogInv, ChildExits
<1>3. SessionInv'
  BY DEF ServeInv, SessionInv, ClientFd, numVars, ChildExits, serveVars
<1>4. ProcessInv'
  BY DEF ServeInv, ProcessInv, ChildFds, numVars, ChildExits, serveVars
<1>5. UpstreamInv'
  BY DEF ServeInv, UpstreamInv, numVars, ChildExits, serveVars
<1>6. LedgerInv'
  BY DEF ServeInv, LedgerInv, ClientFd, ChildFds, numVars, ChildExits, serveVars
<1>7. ChildInv'
  BY DEF ServeInv, ChildInv, numVars, ChildExits, serveVars
<1>8. KeepOpenStays'
  BY DEF ServeInv, KeepOpenStays, ChildExits, serveVars, peerVars
<1> QED BY <1>1, <1>2, <1>3, <1>4, <1>5, <1>6, <1>7, <1>8 DEF ServeInv

(* The client speaks.                                                      *)
LEMMA SaysKeeps ==
  ASSUME ServeInv, NEW what \in {"good", "bad"}, Says(what)
  PROVE  ServeInv'
<1>1. TypeOK'
  BY DEF ServeInv, TypeOK, numVars, Says, serveVars
<1>2. BacklogInv'
  BY DEF ServeInv, BacklogInv, Says
<1>3. SessionInv'
  BY DEF ServeInv, SessionInv, ClientFd, numVars, Says, serveVars
<1>4. ProcessInv'
  BY DEF ServeInv, ProcessInv, ChildFds, numVars, Says, serveVars
<1>5. UpstreamInv'
  BY DEF ServeInv, UpstreamInv, numVars, Says, serveVars
<1>6. LedgerInv'
  BY DEF ServeInv, LedgerInv, ClientFd, ChildFds, numVars, Says, serveVars
<1>7. ChildInv'
  BY DEF ServeInv, ChildInv, numVars, Says, serveVars
<1>8. KeepOpenStays'
  BY DEF ServeInv, KeepOpenStays, Says, serveVars
<1> QED BY <1>1, <1>2, <1>3, <1>4, <1>5, <1>6, <1>7, <1>8 DEF ServeInv

(* The client finishes.                                                    *)
LEMMA ClientFinKeeps ==
  ASSUME ServeInv, ClientFin
  PROVE  ServeInv'
<1>1. TypeOK'
  BY DEF ServeInv, TypeOK, numVars, ClientFin, serveVars
<1>2. BacklogInv'
  BY DEF ServeInv, BacklogInv, ClientFin
<1>3. SessionInv'
  BY DEF ServeInv, SessionInv, ClientFd, numVars, ClientFin, serveVars
<1>4. ProcessInv'
  BY DEF ServeInv, ProcessInv, ChildFds, numVars, ClientFin, serveVars
<1>5. UpstreamInv'
  BY DEF ServeInv, UpstreamInv, numVars, ClientFin, serveVars
<1>6. LedgerInv'
  BY DEF ServeInv, LedgerInv, ClientFd, ChildFds, numVars, ClientFin, serveVars
<1>7. ChildInv'
  BY DEF ServeInv, ChildInv, numVars, ClientFin, serveVars
<1>8. KeepOpenStays'
  BY DEF ServeInv, KeepOpenStays, ClientFin, serveVars
<1> QED BY <1>1, <1>2, <1>3, <1>4, <1>5, <1>6, <1>7, <1>8 DEF ServeInv

(* The client disappears.                                                  *)
LEMMA ClientGoneKeeps ==
  ASSUME ServeInv, ClientGone
  PROVE  ServeInv'
<1>1. TypeOK'
  BY DEF ServeInv, TypeOK, numVars, ClientGone, serveVars
<1>2. BacklogInv'
  BY DEF ServeInv, BacklogInv, ClientGone
<1>3. SessionInv'
  BY DEF ServeInv, SessionInv, ClientFd, numVars, ClientGone, serveVars
<1>4. ProcessInv'
  BY DEF ServeInv, ProcessInv, ChildFds, numVars, ClientGone, serveVars
<1>5. UpstreamInv'
  BY DEF ServeInv, UpstreamInv, numVars, ClientGone, serveVars
<1>6. LedgerInv'
  BY DEF ServeInv, LedgerInv, ClientFd, ChildFds, numVars, ClientGone, serveVars
<1>7. ChildInv'
  BY DEF ServeInv, ChildInv, numVars, ClientGone, serveVars
<1>8. KeepOpenStays'
  BY DEF ServeInv, KeepOpenStays, ClientGone, serveVars
<1> QED BY <1>1, <1>2, <1>3, <1>4, <1>5, <1>6, <1>7, <1>8 DEF ServeInv

(* The target finishes.                                                    *)
LEMMA UpstreamEndsKeeps ==
  ASSUME ServeInv, UpstreamEnds
  PROVE  ServeInv'
<1>1. TypeOK'
  BY DEF ServeInv, TypeOK, numVars, UpstreamEnds, serveVars
<1>2. BacklogInv'
  BY DEF ServeInv, BacklogInv, UpstreamEnds
<1>3. SessionInv'
  BY DEF ServeInv, SessionInv, numVars, UpstreamEnds, serveVars
<1>4. ProcessInv'
  BY DEF ServeInv, ProcessInv, ChildFds, numVars, UpstreamEnds, serveVars
<1>5. UpstreamInv'
  BY DEF ServeInv, UpstreamInv, numVars, UpstreamEnds, serveVars
<1>6. LedgerInv'
  BY DEF ServeInv, LedgerInv, ClientFd, ChildFds, numVars, UpstreamEnds, serveVars
<1>7. ChildInv'
  BY DEF ServeInv, ChildInv, numVars, UpstreamEnds, serveVars
<1>8. KeepOpenStays'
  BY DEF KeepOpenStays, UpstreamEnds, serveVars
<1> QED BY <1>1, <1>2, <1>3, <1>4, <1>5, <1>6, <1>7, <1>8 DEF ServeInv

(* A signal is noted.                                                      *)
LEMMA SignalKeeps ==
  ASSUME ServeInv, Signal
  PROVE  ServeInv'
<1>1. TypeOK'
  BY DEF ServeInv, TypeOK, numVars, peerVars, Signal, serveVars
<1>2. BacklogInv'
  BY DEF ServeInv, BacklogInv, Signal
<1>3. SessionInv'
  BY DEF ServeInv, SessionInv, ClientFd, numVars, Signal, serveVars
<1>4. ProcessInv'
  BY DEF ServeInv, ProcessInv, ChildFds, numVars, Signal, serveVars
<1>5. UpstreamInv'
  BY DEF ServeInv, UpstreamInv, numVars, Signal, serveVars
<1>6. LedgerInv'
  BY DEF ServeInv, LedgerInv, ClientFd, ChildFds, numVars, Signal, serveVars
<1>7. ChildInv'
  BY DEF ServeInv, ChildInv, numVars, Signal, serveVars
<1>8. KeepOpenStays'
  BY DEF KeepOpenStays, Signal
<1> QED BY <1>1, <1>2, <1>3, <1>4, <1>5, <1>6, <1>7, <1>8 DEF ServeInv

-----------------------------------------------------------------------------
(* The invariant holds in the beginning.                                   *)
LEMMA InitEstablishes == Init => ServeInv
<1> SUFFICES ASSUME Init PROVE ServeInv
  OBVIOUS
<1>1. TypeOK
  <2>1. fds \in [Fd -> [what : {"free", "listener", "client", "in", "out", "upstream"},
                       conn : Conn \cup {NoConn}]]
    BY DEF Init, Free
  <2>2. pc \in {"accept", "loop"}
    BY DEF Init
  <2> QED BY <2>1, EmptyIsSeq DEF Init, TypeOK
<1>2. BacklogInv
  BY DEF BacklogInv, Init
<1>3. SessionInv
  BY DEF SessionInv, Serving, Init
<1>4. ProcessInv
  BY DEF ProcessInv, Init
<1>5. UpstreamInv
  BY DEF UpstreamInv, Init
<1>6. LedgerInv
  BY ServeAssumption DEF LedgerInv, Fd, Init
<1>7. ChildInv
  BY DEF ChildInv, Init
<1>8. KeepOpenStays
  BY DEF KeepOpenStays, Init
<1> QED BY <1>1, <1>2, <1>3, <1>4, <1>5, <1>6, <1>7, <1>8 DEF ServeInv

(* Every step keeps it.                                                    *)
LEMMA StepKeeps == ServeInv /\ [Next]_vars => ServeInv'
<1> SUFFICES ASSUME ServeInv, [Next]_vars PROVE ServeInv'
  OBVIOUS
<1>1. CASE ServeStep
  BY <1>1, LoopAgainKeeps, LoopExitsKeeps, AcceptStopsKeeps, AcceptExhaustedKeeps,
     AcceptDeniedKeeps, AcceptsKeeps, SpawnFailsKeeps, SpawnsKeeps, TlsOpensKeeps,
     TlsFailsKeeps, RequestBadKeeps, RequestFailsKeeps, RequestServedKeeps,
     RelayEofKeeps, RelayEndsKeeps, wcat_process_closeKeeps, wcat_process_waitKeeps,
     HangupKeeps, ProxyHangupKeeps DEF ServeStep
<1>2. CASE Outside
  BY <1>2, ConnectKeeps, ChildExitsKeeps, SaysKeeps, ClientFinKeeps, ClientGoneKeeps,
     UpstreamEndsKeeps DEF Outside
<1>3. CASE Signal
  BY <1>3, SignalKeeps
<1>4. CASE UNCHANGED vars
  <2>1. TypeOK'
    BY <1>4 DEF ServeInv, TypeOK, vars
  <2>2. BacklogInv'
    BY <1>4 DEF ServeInv, BacklogInv, vars
  <2>3. SessionInv'
    BY <1>4 DEF ServeInv, SessionInv, ClientFd, vars
  <2>4. ProcessInv'
    BY <1>4 DEF ServeInv, ProcessInv, ChildFds, vars
  <2>5. UpstreamInv'
    BY <1>4 DEF ServeInv, UpstreamInv, vars
  <2>6. LedgerInv'
    BY <1>4 DEF ServeInv, LedgerInv, ClientFd, ChildFds, vars
  <2>7. ChildInv'
    BY <1>4 DEF ServeInv, ChildInv, vars
  <2>8. KeepOpenStays'
    BY <1>4 DEF ServeInv, KeepOpenStays, vars
  <2> QED BY <2>1, <2>2, <2>3, <2>4, <2>5, <2>6, <2>7, <2>8 DEF ServeInv
<1>5. CASE AcceptFails \/ RelayGivesUp
  BY <1>5, AcceptFailsKeeps, RelayGivesUpKeeps
<1> QED BY <1>1, <1>2, <1>3, <1>4, <1>5 DEF Next, Rests

(* The invariant of the serving loop.                                      *)
LEMMA ServeInvariant == Spec => []ServeInv
BY InitEstablishes, StepKeeps, PTL DEF Spec

(* run_listen and wcat_proxy_server_run keep their variables in type, and  *)
(* a session has its client's descriptor until it is hung up on.           *)
THEOREM TypeCorrect == Spec => []TypeOK
<1>1. ServeInv => TypeOK
  BY DEF ServeInv
<1> QED BY <1>1, ServeInvariant, PTL

(* Whatever fails in a session, its descriptors are closed when it is      *)
(* over; only a client whose process could not be spawned leaves one.      *)
THEOREM NothingLeaks == Spec => []DescriptorsBalanced
<1>1. ServeInv => DescriptorsBalanced
  BY DEF ServeInv, ProcessInv, UpstreamInv, LedgerInv, DescriptorsBalanced, Serving,
     Fd, NoFd
<1> QED BY <1>1, ServeInvariant, PTL

(* No process is left unreaped when its session is over.                   *)
THEOREM NoZombies == Spec => []ChildrenReaped
<1>1. ServeInv => ChildrenReaped
  BY DEF ServeInv, ChildInv, ChildrenReaped
<1> QED BY <1>1, ServeInvariant, PTL

(* With --keep-open no session ends the command, however it fails: only a  *)
(* signal does, an error of poll() or accept() on the listener, or the     *)
(* failed spawns that together have taken every other descriptor.          *)
THEOREM StaysOpen == Spec => []KeepOpenStays
<1>1. ServeInv => KeepOpenStays
  BY DEF ServeInv
<1> QED BY <1>1, ServeInvariant, PTL
=============================================================================
