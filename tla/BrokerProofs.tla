---------------------------- MODULE BrokerProofs ----------------------------
(***************************************************************************)
(* Proofs about Broker, and that it implements Broadcast, for every number *)
(* of clients, descriptors and connections and every buffer size.          *)
(***************************************************************************)
EXTENDS BrokerRefinement, SequenceTheorems, FiniteSetTheorems, TLAPS

(* Connections wait in the backlog at most once and before they are open.  *)
BacklogInv ==
    /\ \A m \in DOMAIN backlog : st[backlog[m]] = "backlog"
    /\ \A m \in DOMAIN backlog, n \in DOMAIN backlog : backlog[m] = backlog[n] => m = n

(* A descriptor stands for one open connection.                            *)
TableInv ==
    /\ \A f \in Fd : fdt[f] # NoConn => st[fdt[f]] = "open"
    /\ \A f \in Fd, g \in Fd : fdt[f] = fdt[g] /\ fdt[f] # NoConn => f = g

(* Nothing is closed between poll() and accept(), and nothing is opened    *)
(* between accept() and the next poll().                                   *)
RoundInv ==
    /\ pc = "accept" => /\ snap = fdt
                        /\ lready => backlog # <<>>
                        /\ \A f \in Fd : pfds[f] # {} => fdt[f] # NoConn
    /\ pc \in {"flush", "read"} =>
           \A f \in Fd : pfds[f] # {} => fdt[f] = snap[f] \/ fdt[f] = NoConn
    /\ pc = "read" => clients[i].fd # NoFd

(* Before it is accepted, a connection has been relayed nothing.           *)
StreamInv ==
    /\ StreamIntact
    /\ \A c \in Conn : st[c] \in {"idle", "backlog"} =>
           got[c] = <<>> /\ sockout[c] = <<>> /\ owed[c] = <<>>

BrokerInv ==
    /\ TypeOK /\ QueueBounded /\ DescriptorsOwned
    /\ BacklogInv /\ TableInv /\ RoundInv /\ StreamInv

-----------------------------------------------------------------------------
(* The queue.                                                              *)

(* Taking n elements off the front of a suffix leaves a shorter suffix.    *)
LEMMA FrontOfSuffix ==
  ASSUME NEW S, NEW s \in Seq(S), NEW o \in Nat, NEW n \in Nat, o + n <= Len(s)
  PROVE  SubSeq(SubSeq(s, o + 1, Len(s)), 1, n) \o SubSeq(s, o + n + 1, Len(s))
            = SubSeq(s, o + 1, Len(s))
<1> DEFINE q == SubSeq(s, o + 1, Len(s))
<1>1. Len(s) \in Nat /\ q \in Seq(S) /\ Len(q) = Len(s) - o
  OBVIOUS
<1>2. SubSeq(q, 1, n) \in Seq(S) /\ Len(SubSeq(q, 1, n)) = n
  <2> HIDE DEF q
  <2> QED BY <1>1
<1>3. SubSeq(s, o + 1, o + n) \in Seq(S) /\ Len(SubSeq(s, o + 1, o + n)) = n
  BY <1>1
<1>4. \A m \in 1..n : SubSeq(q, 1, n)[m] = SubSeq(s, o + 1, o + n)[m]
  <2> TAKE m \in 1..n
  <2>1. SubSeq(q, 1, n)[m] = q[m]
    <3> HIDE DEF q
    <3> QED BY <1>1
  <2>2. q[m] = s[o + m]
    BY <1>1
  <2>3. SubSeq(s, o + 1, o + n)[m] = s[o + m]
    BY <1>1
  <2> QED BY <2>1, <2>2, <2>3
<1>5. SubSeq(q, 1, n) = SubSeq(s, o + 1, o + n)
  BY <1>2, <1>3, <1>4, SeqEqual
<1>6. SubSeq(s, o + 1, o + n) \o SubSeq(s, o + n + 1, Len(s)) = q
  <2> DEFINE m == o + 1
             k == o + n
  <2>1. m \in 1..Len(s) + 1 /\ k \in m - 1..Len(s) /\ Len(s) \in k..Len(s)
    BY <1>1
  <2> HIDE DEF m, k
  <2>2. SubSeq(s, m, k) \o SubSeq(s, k + 1, Len(s)) = SubSeq(s, m, Len(s))
    BY <2>1, ConcatAdjacentSubSeq
  <2> QED BY <2>2 DEF m, k
<1> QED BY <1>5, <1>6

(* A sequence is a prefix of its concatenation with another one.           *)
LEMMA PrefixOfConcat ==
  ASSUME NEW S, NEW s \in Seq(S), NEW t \in Seq(S)
  PROVE  s = SubSeq(s \o t, 1, Len(s)) /\ Len(s) <= Len(s \o t)
<1>1. SubSeq(s \o t, 1, Len(s)) \in Seq(S) /\ Len(SubSeq(s \o t, 1, Len(s))) = Len(s)
  OBVIOUS
<1>2. \A m \in 1..Len(s) : SubSeq(s \o t, 1, Len(s))[m] = s[m]
  OBVIOUS
<1>3. s = SubSeq(s \o t, 1, Len(s))
  BY <1>1, <1>2, SeqEqual
<1> QED BY <1>3

(* A prefix of a sequence is a prefix of every extension of it.            *)
LEMMA PrefixOfExtension ==
  ASSUME NEW S, NEW s \in Seq(S), NEW u \in Seq(S), NEW t \in Seq(S),
         s = SubSeq(u, 1, Len(s)), Len(s) <= Len(u)
  PROVE  s = SubSeq(u \o t, 1, Len(s)) /\ Len(s) <= Len(u \o t)
<1> DEFINE v == SubSeq(u \o t, 1, Len(s))
<1>1. v \in Seq(S) /\ Len(v) = Len(s)
  OBVIOUS
<1>2. \A m \in 1..Len(s) : v[m] = u[m]
  OBVIOUS
<1>3. \A m \in 1..Len(s) : s[m] = u[m]
  <2> TAKE m \in 1..Len(s)
  <2>1. SubSeq(u, 1, Len(s))[m] = u[m]
    OBVIOUS
  <2> QED BY <2>1
<1> HIDE DEF v
<1>4. s = v
  BY <1>1, <1>2, <1>3, SeqEqual
<1> QED BY <1>4 DEF v

(* Concatenation of byte sequences is associative and stays within them.   *)
LEMMA ItemsAssociative ==
  ASSUME NEW s \in Seq(Item), NEW t \in Seq(Item), NEW u \in Seq(Item)
  PROVE  (s \o t) \o u = s \o (t \o u)
<1> DEFINE l == (s \o t) \o u
           r == s \o (t \o u)
<1>1. l \in Seq(Item) /\ r \in Seq(Item) /\ Len(l) = Len(r)
  OBVIOUS
<1>2. \A m \in 1..Len(l) : l[m] = r[m]
  BY SMTT(30)
<1> HIDE DEF l, r
<1>3. l = r
  BY <1>1, <1>2, SeqEqual
<1> QED BY <1>3 DEF l, r

(* Byte sequences are closed under concatenation.                          *)
LEMMA ItemsConcat == \A s \in Seq(Item), t \in Seq(Item) : s \o t \in Seq(Item)
BY ConcatProperties, Zenon

(* The pending bytes are a sequence of the length the code computes.       *)
LEMMA PendingFacts ==
  ASSUME NEW client \in ClientRecord, client.off <= Len(client.out)
  PROVE  /\ client.out \in Seq(Item) /\ client.off \in Nat /\ Len(client.out) \in Nat
         /\ PendingBytes(client) \in Seq(Item)
         /\ Len(PendingBytes(client)) = Pending(client)
         /\ Pending(client) \in Nat
BY DEF ClientRecord, PendingBytes, Pending

(* queue_bytes, when the message fits, appends it to the pending bytes and *)
(* leaves a buffer within the limit; compaction loses nothing.             *)
LEMMA QueueBytesAppends ==
  ASSUME NEW client \in ClientRecord, client.off <= Len(client.out),
         NEW msg \in Seq(Item), ~Overflows(client, msg)
  PROVE  LET r == queue_bytes(client, msg)
         IN  /\ r \in ClientRecord
             /\ r.fd = client.fd /\ r.off = 0 /\ Len(r.out) <= MaxBuffer
             /\ PendingBytes(r) = PendingBytes(client) \o msg
<1> DEFINE q == PendingBytes(client)
           kept == IF client.off > 0 /\ Pending(client) > 0 THEN q
                   ELSE IF Pending(client) = 0 THEN <<>> ELSE client.out
           s == kept \o msg
           r == [client EXCEPT !.out = s, !.off = 0]
<1>1. /\ client.out \in Seq(Item) /\ client.off \in Nat /\ Len(client.out) \in Nat
      /\ q \in Seq(Item) /\ Len(q) = Pending(client) /\ Pending(client) \in Nat
  BY PendingFacts
<1>2. kept = q
  <2>1. CASE client.off > 0 /\ Pending(client) > 0
    BY <2>1
  <2>2. CASE Pending(client) = 0
    BY <1>1, <2>2
  <2>3. CASE client.off = 0 /\ Pending(client) # 0
    BY <1>1, <2>3, SubSeqFull DEF PendingBytes
  <2> QED BY <1>1, <2>1, <2>2, <2>3
<1>3. Pending(client) + Len(msg) <= MaxBuffer
  BY <1>1, SizesAssumption DEF Overflows
<1> HIDE DEF kept, q
<1>4. s = q \o msg /\ s \in Seq(Item) /\ Len(s) <= MaxBuffer /\ Len(s) \in Nat
  BY <1>1, <1>2, <1>3, SizesAssumption
<1>5. queue_bytes(client, msg) = r
  BY DEF queue_bytes, kept, q
<1> HIDE DEF s
<1>6. r \in ClientRecord /\ r.fd = client.fd /\ r.out = s /\ r.off = 0
  BY <1>4 DEF ClientRecord
<1> HIDE DEF r
<1>7. PendingBytes(r) = s
  <2>1. PendingBytes(r) = SubSeq(s, 1, Len(s))
    BY <1>6 DEF PendingBytes
  <2> QED BY <1>4, <2>1, SubSeqFull
<1> QED BY <1>4, <1>5, <1>6, <1>7 DEF q

(* flush_client takes the bytes it wrote off the front of the pending      *)
(* bytes, whether it rewinds the queue or not.                             *)
LEMMA FlushTakesFront ==
  ASSUME NEW client \in ClientRecord, client.off <= Len(client.out),
         NEW n \in Nat, n <= Pending(client)
  PROVE  LET r == flush_client(client, n)
             q == PendingBytes(client)
         IN  /\ r \in ClientRecord
             /\ r.fd = client.fd /\ Len(r.out) <= Len(client.out) /\ r.off <= Len(r.out)
             /\ SubSeq(q, 1, n) \in Seq(Item)
             /\ SubSeq(q, 1, n) \o PendingBytes(r) = q
<1> DEFINE q == PendingBytes(client)
<1>1. /\ client.out \in Seq(Item) /\ client.off \in Nat /\ Len(client.out) \in Nat
      /\ q \in Seq(Item) /\ Len(q) = Pending(client) /\ Pending(client) \in Nat
  BY PendingFacts
<1>2. /\ client.off + n <= Len(client.out) /\ client.off + n \in Nat
      /\ SubSeq(q, 1, n) \in Seq(Item)
  BY <1>1 DEF Pending
<1>3. CASE n = Pending(client)
  <2> DEFINE e == <<>>
             r == [client EXCEPT !.out = e, !.off = 0]
  <2>1. flush_client(client, n) = r
    BY <1>3 DEF flush_client
  <2>2. e \in Seq(Item) /\ Len(e) = 0 /\ SubSeq(q, 1, n) \o e = q
    BY <1>1, <1>3, SubSeqFull, ConcatEmptySeq
  <2>3. SubSeq(e, 1, 0) = e
    BY SubSeqEmpty
  <2> HIDE DEF e, q
  <2>4. r \in ClientRecord /\ r.fd = client.fd /\ r.out = e /\ r.off = 0
    BY <2>2 DEF ClientRecord
  <2> HIDE DEF r
  <2>5. PendingBytes(r) = e
    BY <2>2, <2>3, <2>4 DEF PendingBytes
  <2> QED BY <1>1, <1>2, <2>1, <2>2, <2>4, <2>5 DEF q
<1>4. CASE n # Pending(client)
  <2> DEFINE r == [client EXCEPT !.off = client.off + n]
  <2>1. flush_client(client, n) = r
    BY <1>4 DEF flush_client
  <2>2. r \in ClientRecord /\ r.fd = client.fd /\ r.out = client.out /\ r.off = client.off + n
    BY <1>2 DEF ClientRecord
  <2> HIDE DEF r
  <2>3. PendingBytes(r) = SubSeq(client.out, client.off + n + 1, Len(client.out))
    BY <2>2 DEF PendingBytes
  <2>4. SubSeq(q, 1, n) \o SubSeq(client.out, client.off + n + 1, Len(client.out)) = q
    BY <1>1, <1>2, FrontOfSuffix DEF PendingBytes
  <2>5. SubSeq(q, 1, n) \o PendingBytes(r) = q
    BY <2>3, <2>4
  <2>6. Len(r.out) <= Len(client.out) /\ r.off <= Len(r.out)
    BY <1>1, <1>2, <2>2
  <2> QED BY <1>2, <2>1, <2>2, <2>5, <2>6
<1> QED BY <1>3, <1>4

-----------------------------------------------------------------------------
(* Closing the descriptors of some open slots keeps slots, descriptors,    *)
(* connections and backlog in step; no descriptor is opened.               *)
LEMMA CloseKeepsTables ==
  ASSUME BrokerInv, NEW S \in SUBSET OpenSlots, CloseSlots(S),
         clients' \in [Slot -> ClientRecord],
         \A k \in S : clients'[k] = client_init,
         \A k \in Slot \ S : clients'[k].fd = clients[k].fd
  PROVE  /\ fdt' \in [Fd -> Conn \cup {NoConn}]
         /\ st' \in [Conn -> {"idle", "backlog", "open", "closed"}]
         /\ backlog' \in Seq(Conn)
         /\ DescriptorsOwned' /\ BacklogInv' /\ TableInv'
         /\ \A f \in Fd : fdt'[f] = fdt[f] \/ fdt'[f] = NoConn
<1> USE DEF Slot, NoFd
<1>1. /\ fdt \in [Fd -> Conn \cup {NoConn}] /\ clients \in [Slot -> ClientRecord]
      /\ st \in [Conn -> {"idle", "backlog", "open", "closed"}] /\ backlog \in Seq(Conn)
  BY DEF BrokerInv, TypeOK
<1>2. \A k \in Slot : clients[k].fd \in Fd \cup {NoFd} /\ clients'[k].fd \in Fd \cup {NoFd}
  BY <1>1 DEF ClientRecord
<1>3. OpenSlots' = OpenSlots \ S
  BY DEF OpenSlots, client_init
<1>4. \A f \in Fd : fdt'[f] = IF \E k \in S : clients[k].fd = f THEN NoConn ELSE fdt[f]
  BY DEF CloseSlots
<1>5. \A c \in Conn : st'[c] = IF \E k \in S : ConnOf(k) = c THEN "closed" ELSE st[c]
  BY DEF CloseSlots
<1>6. /\ fdt' \in [Fd -> Conn \cup {NoConn}]
      /\ st' \in [Conn -> {"idle", "backlog", "open", "closed"}]
      /\ backlog' = backlog
  BY <1>1 DEF CloseSlots
<1>7. \A k \in OpenSlots : /\ clients[k].fd \in Fd /\ ConnOf(k) \in Conn
                            /\ st[ConnOf(k)] = "open"
                            /\ \A m \in OpenSlots : clients[m].fd = clients[k].fd => m = k
  BY <1>2 DEF BrokerInv, DescriptorsOwned, OpenSlots
<1>8. \A k \in OpenSlots, m \in OpenSlots : ConnOf(k) = ConnOf(m) => k = m
  BY <1>7, ConnAssumption DEF BrokerInv, TableInv, ConnOf
<1>9. \A k \in OpenSlots \ S : /\ clients'[k].fd = clients[k].fd /\ ConnOf(k)' = ConnOf(k)
                                /\ st'[ConnOf(k)] = "open"
  <2> TAKE k \in OpenSlots \ S
  <2>1. clients'[k].fd = clients[k].fd
    BY DEF OpenSlots
  <2>2. ~ \E m \in S : clients[m].fd = clients[k].fd
    BY <1>7
  <2>3. ~ \E m \in S : ConnOf(m) = ConnOf(k)
    BY <1>8
  <2> QED BY <1>4, <1>5, <1>7, <2>1, <2>2, <2>3 DEF ConnOf
<1>10. DescriptorsOwned'
  <2>1. \A k \in OpenSlots' : /\ ConnOf(k)' \in Conn /\ st'[ConnOf(k)'] = "open"
                              /\ \A m \in OpenSlots' : clients'[m].fd = clients'[k].fd => m = k
    BY <1>3, <1>7, <1>9
  <2>2. \A f \in Fd : fdt'[f] # NoConn => \E k \in OpenSlots' : clients'[k].fd = f
    <3> SUFFICES ASSUME NEW f \in Fd, fdt'[f] # NoConn
                 PROVE  \E k \in OpenSlots' : clients'[k].fd = f
      OBVIOUS
    <3>1. fdt[f] # NoConn /\ ~ \E k \in S : clients[k].fd = f
      BY <1>4
    <3>2. PICK k \in OpenSlots : clients[k].fd = f
      BY <3>1 DEF BrokerInv, DescriptorsOwned
    <3> QED BY <1>3, <1>9, <3>1, <3>2
  <2>3. \A c \in Conn : st'[c] = "open" => \E k \in OpenSlots' : ConnOf(k)' = c
    <3> SUFFICES ASSUME NEW c \in Conn, st'[c] = "open"
                 PROVE  \E k \in OpenSlots' : ConnOf(k)' = c
      OBVIOUS
    <3>1. st[c] = "open" /\ ~ \E k \in S : ConnOf(k) = c
      BY <1>5
    <3>2. PICK k \in OpenSlots : ConnOf(k) = c
      BY <3>1 DEF BrokerInv, DescriptorsOwned
    <3> QED BY <1>3, <1>9, <3>1, <3>2
  <2> QED BY <2>1, <2>2, <2>3 DEF DescriptorsOwned
<1>11. BacklogInv'
  <2>1. \A m \in DOMAIN backlog : backlog[m] \in Conn /\ st[backlog[m]] = "backlog"
    BY <1>1 DEF BrokerInv, BacklogInv
  <2>2. \A m \in DOMAIN backlog : st'[backlog[m]] = "backlog"
    BY <1>5, <1>7, <2>1
  <2> QED BY <1>6, <2>2 DEF BrokerInv, BacklogInv
<1>12. TableInv'
  <2>1. \A f \in Fd : fdt'[f] # NoConn => fdt'[f] = fdt[f] /\ \E k \in OpenSlots \ S : clients[k].fd = f
    BY <1>4 DEF BrokerInv, DescriptorsOwned
  <2>2. \A f \in Fd : fdt'[f] # NoConn => st'[fdt'[f]] = "open"
    BY <1>9, <2>1 DEF ConnOf
  <2> QED BY <2>1, <2>2 DEF BrokerInv, TableInv
<1> QED BY <1>1, <1>4, <1>6, <1>10, <1>11, <1>12

(* Moving on to the next slot keeps the round's invariant, and its types,  *)
(* as long as the step opened no descriptor.                               *)
LEMMA NextSlotKeepsRound ==
  ASSUME BrokerInv, pc \in {"flush", "read"}, NextSlot,
         \A f \in Fd : fdt'[f] = fdt[f] \/ fdt'[f] = NoConn
  PROVE  /\ pc' \in {"poll", "flush"} /\ i' \in Slot /\ lready' \in BOOLEAN
         /\ pfds' \in [Fd -> SUBSET {"POLLIN", "POLLOUT", "POLLERR"}]
         /\ snap' \in [Fd -> Conn \cup {NoConn}]
         /\ RoundInv'
<1>1. i \in Slot /\ pfds \in [Fd -> SUBSET {"POLLIN", "POLLOUT", "POLLERR"}]
      /\ snap \in [Fd -> Conn \cup {NoConn}] /\ lready \in BOOLEAN
  BY DEF BrokerInv, TypeOK
<1>2. CASE i = MaxClients
  <2>1. /\ pc' = "poll" /\ i' = 1 /\ lready' = FALSE
        /\ pfds' = [f \in Fd |-> {}] /\ snap' = [f \in Fd |-> NoConn]
    BY <1>2 DEF NextSlot, EndRound
  <2>2. RoundInv'
    BY <2>1 DEF RoundInv
  <2>3. i' \in Slot
    BY <2>1, SizesAssumption DEF Slot
  <2> QED BY <2>1, <2>2, <2>3
<1>3. CASE i # MaxClients
  <2>1. pc' = "flush" /\ i' = i + 1 /\ UNCHANGED <<pfds, lready, snap>>
    BY <1>3 DEF NextSlot
  <2>2. i' \in Slot
    BY <1>1, <1>3, <2>1, SizesAssumption DEF Slot
  <2>3. \A f \in Fd : pfds[f] # {} => fdt[f] = snap[f] \/ fdt[f] = NoConn
    BY DEF BrokerInv, RoundInv
  <2>4. RoundInv'
    BY <2>1, <2>3 DEF RoundInv
  <2> QED BY <1>1, <2>1, <2>2, <2>4
<1> QED BY <1>2, <1>3

(* Streams are untouched by a step that relays nothing and writes nothing, *)
(* even if it closes connections.                                          *)
LEMMA StreamsKept ==
  ASSUME BrokerInv, UNCHANGED <<got, sockout, owed>>,
         OpenSlots' \subseteq OpenSlots,
         \A k \in OpenSlots' : /\ clients'[k].out = clients[k].out
                              /\ clients'[k].off = clients[k].off
                              /\ ConnOf(k)' = ConnOf(k),
         \A c \in Conn : st'[c] \in {"idle", "backlog"} => st[c] \in {"idle", "backlog"}
  PROVE  StreamInv'
<1>1. \A k \in OpenSlots' : PendingBytes(clients[k])' = PendingBytes(clients[k])
  BY DEF PendingBytes
<1>2. StreamIntact /\ \A c \in Conn : st[c] \in {"idle", "backlog"} =>
          got[c] = <<>> /\ sockout[c] = <<>> /\ owed[c] = <<>>
  BY DEF BrokerInv, StreamInv
<1>3. \A c \in Conn : \A k \in OpenSlots' : ConnOf(k)' = c =>
          (got[c] \o sockout[c]) \o PendingBytes(clients[k])' = owed[c]
  <2>1. \A c \in Conn : \A k \in OpenSlots : ConnOf(k) = c =>
            (got[c] \o sockout[c]) \o PendingBytes(clients[k]) = owed[c]
    BY <1>2 DEF StreamIntact
  <2> SUFFICES ASSUME NEW c \in Conn, NEW k \in OpenSlots', ConnOf(k)' = c
               PROVE  (got[c] \o sockout[c]) \o PendingBytes(clients[k])' = owed[c]
    OBVIOUS
  <2>2. k \in OpenSlots /\ ConnOf(k) = c
    OBVIOUS
  <2>3. PendingBytes(clients[k])' = PendingBytes(clients[k])
    BY <1>1
  <2> QED BY <2>1, <2>2, <2>3
<1>4. \A c \in Conn : /\ got[c] \o sockout[c] = SubSeq(owed[c], 1, Len(got[c] \o sockout[c]))
                      /\ Len(got[c] \o sockout[c]) <= Len(owed[c])
                      /\ \A m \in DOMAIN owed[c] : owed[c][m].src # c
  BY <1>2 DEF StreamIntact
<1>5. StreamIntact'
  BY <1>3, <1>4 DEF StreamIntact
<1> QED BY <1>2, <1>5 DEF StreamInv

(* drop_client on some open slots.                                         *)
LEMMA DropKeeps ==
  ASSUME BrokerInv, NEW S \in SUBSET OpenSlots, drop_client(S),
         UNCHANGED <<got, sockout, owed>>
  PROVE  /\ clients' \in [Slot -> ClientRecord]
         /\ \A k \in Slot : clients'[k].off <= Len(clients'[k].out)
         /\ fdt' \in [Fd -> Conn \cup {NoConn}]
         /\ st' \in [Conn -> {"idle", "backlog", "open", "closed"}]
         /\ backlog' \in Seq(Conn)
         /\ QueueBounded' /\ DescriptorsOwned' /\ BacklogInv' /\ TableInv' /\ StreamInv'
         /\ \A f \in Fd : fdt'[f] = fdt[f] \/ fdt'[f] = NoConn
<1>1. client_init \in ClientRecord /\ Len(client_init.out) = 0 /\ client_init.off = 0
      /\ client_init.fd = NoFd
  <2>1. <<>> \in Seq(Item) /\ Len(<<>>) = 0
    OBVIOUS
  <2> QED BY <2>1, SizesAssumption DEF client_init, ClientRecord, NoFd
<1>2. clients \in [Slot -> ClientRecord] /\ OpenSlots \subseteq Slot
  BY DEF BrokerInv, TypeOK, OpenSlots
<1>3. /\ CloseSlots(S)
      /\ \A k \in S : clients'[k] = client_init
      /\ \A k \in Slot \ S : clients'[k] = clients[k]
      /\ clients' \in [Slot -> ClientRecord]
  BY <1>1, <1>2 DEF drop_client
<1>4. \A k \in Slot : clients'[k].off <= Len(clients'[k].out)
  <2>1. \A k \in Slot : clients[k].off <= Len(clients[k].out)
    BY DEF BrokerInv, TypeOK
  <2>2. \A k \in S : clients'[k].off <= Len(clients'[k].out)
    BY <1>1, <1>3
  <2>3. \A k \in Slot \ S : clients'[k].off <= Len(clients'[k].out)
    BY <1>3, <2>1
  <2> QED BY <2>2, <2>3
<1>5. QueueBounded'
  BY <1>1, <1>3, SizesAssumption DEF BrokerInv, QueueBounded
<1>6. /\ fdt' \in [Fd -> Conn \cup {NoConn}]
      /\ st' \in [Conn -> {"idle", "backlog", "open", "closed"}]
      /\ backlog' \in Seq(Conn)
      /\ DescriptorsOwned' /\ BacklogInv' /\ TableInv'
      /\ \A f \in Fd : fdt'[f] = fdt[f] \/ fdt'[f] = NoConn
  BY <1>3, CloseKeepsTables
<1>7. StreamInv'
  <2>1. OpenSlots' \subseteq OpenSlots /\ OpenSlots' \cap S = {}
    BY <1>1, <1>3 DEF OpenSlots
  <2>2. \A k \in OpenSlots' : clients'[k] = clients[k] /\ ConnOf(k)' = ConnOf(k)
    <3> TAKE k \in OpenSlots'
    <3>1. k \in OpenSlots /\ clients'[k] = clients[k] /\ clients[k].fd \in Fd
      BY <1>2, <1>3, <2>1 DEF OpenSlots, ClientRecord
    <3>2. ConnOf(k)' \in Conn
      BY <1>6 DEF DescriptorsOwned
    <3> QED BY <1>6, <3>1, <3>2, ConnAssumption DEF ConnOf
  <2>3. \A c \in Conn : st'[c] = st[c] \/ st'[c] = "closed"
    BY <1>3 DEF CloseSlots
  <2> QED BY <2>1, <2>2, <2>3, StreamsKept
<1> QED BY <1>3, <1>4, <1>5, <1>6, <1>7

-----------------------------------------------------------------------------
(* The inductive invariant.                                                *)

(* The invariant holds before the first poll().                            *)
LEMMA InitialState == Init => BrokerInv
<1> SUFFICES ASSUME Init PROVE BrokerInv
  OBVIOUS
<1> DEFINE e == <<>>
<1>0. e \in Seq(Item) /\ e \in Seq(Conn) /\ Len(e) = 0 /\ DOMAIN e = {}
      /\ e \o e = e /\ SubSeq(e, 1, 0) = e
  BY SubSeqEmpty
<1>1. client_init = [fd |-> NoFd, id |-> 0, line_start |-> TRUE, out |-> e, off |-> 0]
  BY DEF client_init
<1>2. /\ sockout = [c \in Conn |-> e] /\ got = [c \in Conn |-> e] /\ owed = [c \in Conn |-> e]
      /\ backlog = e
  BY DEF Init
<1> HIDE DEF e
<1>3. client_init \in ClientRecord /\ client_init.out = e /\ client_init.off = 0
      /\ client_init.fd = NoFd
  BY <1>0, <1>1, SizesAssumption DEF ClientRecord
<1>4. OpenSlots = {} /\ \A k \in Slot : clients[k] = client_init
  BY <1>3 DEF Init, OpenSlots
<1>5. TypeOK
  <2>1. \A k \in Slot : clients[k].off <= Len(clients[k].out)
    BY <1>0, <1>3, <1>4
  <2>2. clients \in [Slot -> ClientRecord]
    BY <1>3 DEF Init
  <2>3. next_client_id \in 0..(IdMod - 1) /\ i \in Slot
    BY SizesAssumption DEF Init, Slot
  <2>4. \A c \in Conn : rd[c] <= sent[c] /\ sent[c] <= Len(Script[c])
    BY ConnAssumption DEF Init
  <2>5. /\ sockout \in [Conn -> Seq(Item)] /\ got \in [Conn -> Seq(Item)]
        /\ owed \in [Conn -> Seq(Item)] /\ backlog \in Seq(Conn)
    BY <1>0, <1>2
  <2>6. \A c \in Conn : Len(sockout[c]) <= SockBuf
    BY <1>0, <1>2, SizesAssumption
  <2> QED BY <2>1, <2>2, <2>3, <2>4, <2>5, <2>6 DEF Init, TypeOK
<1>6. QueueBounded
  BY <1>0, <1>3, <1>4, SizesAssumption DEF QueueBounded
<1>7. DescriptorsOwned /\ TableInv /\ RoundInv
  BY <1>4 DEF Init, DescriptorsOwned, TableInv, RoundInv
<1>8. BacklogInv
  BY <1>0, <1>2 DEF BacklogInv
<1>9. StreamInv
  <2>1. \A c \in Conn : got[c] = e /\ sockout[c] = e /\ owed[c] = e
    BY <1>2
  <2>2. StreamIntact
    <3>1. \A c \in Conn : /\ got[c] \o sockout[c] = e /\ Len(got[c] \o sockout[c]) = 0
                          /\ SubSeq(owed[c], 1, Len(got[c] \o sockout[c])) = e
                          /\ Len(owed[c]) = 0 /\ DOMAIN owed[c] = {}
      BY <1>0, <2>1
    <3>2. \A c \in Conn : /\ got[c] \o sockout[c] = SubSeq(owed[c], 1, Len(got[c] \o sockout[c]))
                          /\ Len(got[c] \o sockout[c]) <= Len(owed[c])
                          /\ \A m \in DOMAIN owed[c] : owed[c][m].src # c
      <4> TAKE c \in Conn
      <4>1. \A m \in DOMAIN owed[c] : owed[c][m].src # c
        BY <3>1, Zenon
      <4>2. Len(got[c] \o sockout[c]) <= Len(owed[c])
        <5>1. Len(got[c] \o sockout[c]) = 0 /\ Len(owed[c]) = 0
          BY <3>1, Zenon
        <5>2. \A x, y : x = 0 /\ y = 0 => x <= y
          OBVIOUS
        <5> QED BY <5>1, <5>2, Zenon
      <4>3. got[c] \o sockout[c] = SubSeq(owed[c], 1, Len(got[c] \o sockout[c]))
        BY <3>1, Zenon
      <4> QED BY <4>1, <4>2, <4>3
    <3>3. \A c \in Conn : \A k \in OpenSlots : ConnOf(k) = c =>
              (got[c] \o sockout[c]) \o PendingBytes(clients[k]) = owed[c]
      BY <1>4
    <3> QED BY <3>2, <3>3 DEF StreamIntact
  <2> QED BY <2>1, <2>2 DEF StreamInv, e
<1> QED BY <1>5, <1>6, <1>7, <1>8, <1>9 DEF BrokerInv

(* poll() reports events of connected descriptors only.                    *)
LEMMA PollKeeps == ASSUME BrokerInv, Poll PROVE BrokerInv'
<1>1. /\ UNCHANGED <<stop, i, result, clients, next_client_id, fdt, backlog, st,
                     sent, rd, fin, rst, sockout, got, owed>>
      /\ pc' = "accept" /\ snap' = fdt /\ pfds' = PollResult /\ lready' = (backlog # <<>>)
  BY DEF Poll, kernelVars, peerVars
<1>2. OpenSlots' = OpenSlots /\ \A k \in Slot : ConnOf(k)' = ConnOf(k)
  BY <1>1 DEF OpenSlots, ConnOf
<1>3. PollResult \in [Fd -> SUBSET {"POLLIN", "POLLOUT", "POLLERR"}]
  BY DEF PollResult, Revents
<1>4. TypeOK'
  BY <1>1, <1>3 DEF BrokerInv, TypeOK
<1>5. RoundInv'
  <2>1. \A f \in Fd : PollResult[f] # {} => fdt[f] # NoConn
    <3> SUFFICES ASSUME NEW f \in Fd, PollResult[f] # {} PROVE fdt[f] # NoConn
      OBVIOUS
    <3>1. PICK k \in OpenSlots : clients[k].fd = f
      BY DEF PollResult
    <3> QED BY <3>1, ConnAssumption DEF BrokerInv, DescriptorsOwned, ConnOf
  <2> QED BY <1>1, <2>1 DEF RoundInv
<1>6. QueueBounded' /\ BacklogInv' /\ TableInv'
  BY <1>1 DEF BrokerInv, QueueBounded, BacklogInv, TableInv
<1>7. DescriptorsOwned'
  BY <1>1, <1>2 DEF BrokerInv, DescriptorsOwned, OpenSlots, ConnOf
<1>8. StreamInv'
  BY <1>1, <1>2, StreamsKept DEF OpenSlots
<1> QED BY <1>4, <1>5, <1>6, <1>7, <1>8 DEF BrokerInv

(* The end of the loop, for both of its causes.                            *)
LEMMA CleanupKeeps ==
  ASSUME BrokerInv, Cleanup, result' \in {0, 1}
  PROVE  BrokerInv'
<1>1. /\ UNCHANGED <<stop, i, next_client_id, pfds, lready, sent, rd, fin, rst,
                     sockout, got, owed, snap>>
      /\ pc' = "done" /\ backlog' = <<>>
  BY DEF Cleanup, peerVars
<1>2. client_init \in ClientRecord /\ Len(client_init.out) = 0 /\ client_init.off = 0
      /\ client_init.fd = NoFd
  <2>1. <<>> \in Seq(Item) /\ Len(<<>>) = 0
    OBVIOUS
  <2> QED BY <2>1, SizesAssumption DEF client_init, ClientRecord, NoFd
<1>3. \A k \in Slot : clients'[k] = client_init
  BY DEF Cleanup, BrokerInv, QueueBounded, OpenSlots
<1>4. OpenSlots' = {}
  BY <1>2, <1>3 DEF OpenSlots
<1>5. /\ clients \in [Slot -> ClientRecord] /\ fdt \in [Fd -> Conn \cup {NoConn}]
      /\ st \in [Conn -> {"idle", "backlog", "open", "closed"}]
  BY DEF BrokerInv, TypeOK
<1>6. \A f \in Fd : fdt'[f] = NoConn
  BY DEF Cleanup, BrokerInv, DescriptorsOwned
<1>7. \A c \in Conn : st'[c] \in {"idle", "closed"} /\ (st'[c] = "idle" => st[c] = "idle")
  BY <1>5 DEF Cleanup, BrokerInv, DescriptorsOwned
<1>8. TypeOK'
  <2>1. clients' \in [Slot -> ClientRecord]
    BY <1>2, <1>5 DEF Cleanup
  <2>2. fdt' \in [Fd -> Conn \cup {NoConn}]
    BY <1>5 DEF Cleanup
  <2>3. st' \in [Conn -> {"idle", "backlog", "open", "closed"}]
    BY <1>5 DEF Cleanup
  <2>4. \A k \in Slot : clients'[k].off <= Len(clients'[k].out)
    BY <1>2, <1>3
  <2>5. backlog' \in Seq(Conn)
    BY <1>1
  <2> QED BY <1>1, <2>1, <2>2, <2>3, <2>4, <2>5 DEF BrokerInv, TypeOK
<1>9. QueueBounded'
  BY <1>2, <1>3, SizesAssumption DEF QueueBounded
<1>10. DescriptorsOwned' /\ TableInv'
  BY <1>4, <1>6, <1>7 DEF DescriptorsOwned, TableInv
<1>11. BacklogInv' /\ RoundInv'
  BY <1>1 DEF BacklogInv, RoundInv
<1>12. StreamInv'
  BY <1>1, <1>4, <1>7, StreamsKept
<1> QED BY <1>8, <1>9, <1>10, <1>11, <1>12 DEF BrokerInv

(* A step of the round that changes neither slots nor kernel nor streams.  *)
LEMMA QuietStepKeeps ==
  ASSUME BrokerInv,
         UNCHANGED <<stop, result, clients, next_client_id, fdt, backlog, st,
                     sent, rd, fin, rst, sockout, got, owed>>,
         pc' \in {"poll", "accept", "flush", "read", "done"}, i' \in Slot, lready' \in BOOLEAN,
         pfds' \in [Fd -> SUBSET {"POLLIN", "POLLOUT", "POLLERR"}],
         snap' \in [Fd -> Conn \cup {NoConn}], RoundInv'
  PROVE  BrokerInv'
<1>1. OpenSlots' = OpenSlots /\ \A k \in Slot : ConnOf(k)' = ConnOf(k)
  BY DEF OpenSlots, ConnOf
<1>2. TypeOK'
  BY DEF BrokerInv, TypeOK
<1>3. QueueBounded' /\ BacklogInv' /\ TableInv'
  BY DEF BrokerInv, QueueBounded, BacklogInv, TableInv
<1>4. DescriptorsOwned'
  BY <1>1 DEF BrokerInv, DescriptorsOwned, OpenSlots, ConnOf
<1>5. StreamInv'
  BY <1>1, StreamsKept DEF OpenSlots
<1> QED BY <1>2, <1>3, <1>4, <1>5 DEF BrokerInv

(* Going on from accept() to the clients.                                  *)
LEMMA ToClientsFacts ==
  ASSUME BrokerInv, pc = "accept", ToClients
  PROVE  /\ pc' = "flush" /\ i' \in Slot /\ lready' \in BOOLEAN
         /\ pfds' \in [Fd -> SUBSET {"POLLIN", "POLLOUT", "POLLERR"}]
         /\ snap' \in [Fd -> Conn \cup {NoConn}]
         /\ pfds' = pfds /\ snap' = fdt
BY DEF ToClients, BrokerInv, TypeOK, RoundInv

(* No connection waits, or accept() fails.                                 *)
LEMMA NoAcceptKeeps == ASSUME BrokerInv, NoAccept PROVE BrokerInv'
<1>1. pc = "accept" /\ ToClients
      /\ UNCHANGED <<stop, result, clients, next_client_id, fdt, backlog, st,
                     sent, rd, fin, rst, sockout, got, owed>>
  BY DEF NoAccept, kernelVars, peerVars
<1>2. RoundInv'
  BY <1>1, ToClientsFacts DEF RoundInv
<1> QED BY <1>1, <1>2, ToClientsFacts, QuietStepKeeps

(* A connection taken off the backlog and closed at once.                  *)
LEMMA RefusalKeeps ==
  ASSUME BrokerInv, pc = "accept", lready,
         UNCHANGED <<stop, result, clients, next_client_id, fdt,
                     sent, rd, fin, rst, sockout, got, owed>>,
         st' = [st EXCEPT ![Head(backlog)] = "closed"],
         backlog' = Tail(backlog),
         pc' \in {"poll", "flush"}, i' \in Slot, lready' \in BOOLEAN,
         pfds' \in [Fd -> SUBSET {"POLLIN", "POLLOUT", "POLLERR"}],
         snap' \in [Fd -> Conn \cup {NoConn}], RoundInv'
  PROVE  BrokerInv'
<1>1. backlog \in Seq(Conn) /\ backlog # <<>>
      /\ st \in [Conn -> {"idle", "backlog", "open", "closed"}]
  BY DEF BrokerInv, TypeOK, RoundInv
<1>2. /\ Head(backlog) = backlog[1] /\ Head(backlog) \in Conn /\ 1 \in DOMAIN backlog
      /\ Tail(backlog) \in Seq(Conn)
      /\ \A m \in DOMAIN Tail(backlog) : m + 1 \in DOMAIN backlog /\ m \in Nat
                                         /\ Tail(backlog)[m] = backlog[m + 1]
  BY <1>1
<1>3. st[Head(backlog)] = "backlog"
  BY <1>2 DEF BrokerInv, BacklogInv
<1>4. OpenSlots' = OpenSlots /\ \A k \in Slot : ConnOf(k)' = ConnOf(k)
  BY DEF OpenSlots, ConnOf
<1>5. TypeOK'
  BY <1>1, <1>2 DEF BrokerInv, TypeOK
<1>6. QueueBounded'
  BY DEF BrokerInv, QueueBounded
<1>7. \A c \in Conn : st'[c] = IF c = Head(backlog) THEN "closed" ELSE st[c]
  BY <1>1
<1>8. BacklogInv'
  <2>1. \A m \in DOMAIN Tail(backlog) : st[Tail(backlog)[m]] = "backlog" /\ Tail(backlog)[m] \in Conn
                                        /\ Tail(backlog)[m] # Head(backlog)
    BY <1>1, <1>2 DEF BrokerInv, BacklogInv
  <2>2. \A m \in DOMAIN Tail(backlog), n \in DOMAIN Tail(backlog) :
            Tail(backlog)[m] = Tail(backlog)[n] => m = n
    BY <1>2 DEF BrokerInv, BacklogInv
  <2> QED BY <1>7, <2>1, <2>2 DEF BacklogInv
<1>9. TableInv'
  <2>1. \A f \in Fd : fdt[f] # NoConn => fdt[f] \in Conn /\ st[fdt[f]] = "open"
    BY DEF BrokerInv, TypeOK, TableInv
  <2>2. \A f \in Fd : fdt[f] # NoConn => st'[fdt[f]] = "open"
    BY <1>3, <1>7, <2>1
  <2> QED BY <2>2 DEF BrokerInv, TableInv
<1>10. DescriptorsOwned'
  BY <1>3, <1>4, <1>7 DEF BrokerInv, DescriptorsOwned, OpenSlots, ConnOf
<1>11. StreamInv'
  BY <1>4, <1>7, StreamsKept DEF OpenSlots
<1> QED BY <1>5, <1>6, <1>8, <1>9, <1>10, <1>11 DEF BrokerInv

(* wcat_access_check_fd refuses the peer.                                  *)
LEMMA AcceptDeniedKeeps == ASSUME BrokerInv, AcceptDenied PROVE BrokerInv'
<1>1. /\ pc = "accept" /\ lready /\ EndRound
      /\ UNCHANGED <<stop, result, clients, next_client_id, fdt,
                     sent, rd, fin, rst, sockout, got, owed>>
      /\ st' = [st EXCEPT ![Head(backlog)] = "closed"]
      /\ backlog' = Tail(backlog)
  BY DEF AcceptDenied, peerVars
<1>2. /\ pc' = "poll" /\ i' \in Slot /\ lready' = FALSE
      /\ pfds' = [f \in Fd |-> {}] /\ snap' = [f \in Fd |-> NoConn]
  BY <1>1, SizesAssumption DEF EndRound, Slot
<1>3. RoundInv'
  BY <1>2 DEF RoundInv
<1> QED BY <1>1, <1>2, <1>3, RefusalKeeps

(* Every slot is taken: the new connection is closed.                      *)
LEMMA AcceptFullKeeps == ASSUME BrokerInv, AcceptFull PROVE BrokerInv'
<1>1. /\ pc = "accept" /\ lready /\ ToClients
      /\ UNCHANGED <<stop, result, clients, next_client_id, fdt,
                     sent, rd, fin, rst, sockout, got, owed>>
      /\ st' = [st EXCEPT ![Head(backlog)] = "closed"]
      /\ backlog' = Tail(backlog)
  BY DEF AcceptFull, peerVars
<1>2. RoundInv'
  BY <1>1, ToClientsFacts DEF RoundInv
<1> QED BY <1>1, <1>2, ToClientsFacts, RefusalKeeps

(* The new client gets a descriptor that was closed when poll() returned,  *)
(* so poll() reported nothing for it, and an empty queue.                  *)
LEMMA AcceptClientKeeps == ASSUME BrokerInv, AcceptClient PROVE BrokerInv'
<1>1. /\ pc = "accept" /\ lready /\ ToClients
      /\ UNCHANGED <<stop, result, sent, rd, fin, rst, sockout, got, owed>>
      /\ st' = [st EXCEPT ![Head(backlog)] = "open"]
      /\ backlog' = Tail(backlog)
      /\ next_client_id' = (next_client_id + 1) % IdMod
  BY DEF AcceptClient, peerVars
<1>2. PICK k \in FreeSlots, fd \in FreeFds :
          clients' = Joined(k, fd) /\ fdt' = [fdt EXCEPT ![fd] = Head(backlog)]
  BY DEF AcceptClient, Lowest
<1>3. /\ pc' = "flush" /\ i' \in Slot /\ lready' \in BOOLEAN
      /\ pfds' \in [Fd -> SUBSET {"POLLIN", "POLLOUT", "POLLERR"}]
      /\ snap' \in [Fd -> Conn \cup {NoConn}]
      /\ pfds' = pfds /\ snap' = fdt
  BY <1>1, ToClientsFacts
<1>4. /\ backlog \in Seq(Conn) /\ backlog # <<>>
      /\ st \in [Conn -> {"idle", "backlog", "open", "closed"}]
      /\ fdt \in [Fd -> Conn \cup {NoConn}] /\ clients \in [Slot -> ClientRecord]
      /\ next_client_id \in 0..(IdMod - 1)
  BY <1>1 DEF BrokerInv, TypeOK, RoundInv
<1> DEFINE c == Head(backlog)
<1>5. /\ c = backlog[1] /\ c \in Conn /\ 1 \in DOMAIN backlog /\ c # NoConn
      /\ Tail(backlog) \in Seq(Conn)
      /\ \A m \in DOMAIN Tail(backlog) : m + 1 \in DOMAIN backlog /\ m \in Nat
                                         /\ Tail(backlog)[m] = backlog[m + 1]
  BY <1>4, ConnAssumption
<1>6. st[c] = "backlog"
  BY <1>5 DEF BrokerInv, BacklogInv
<1>7. k \in Slot /\ k \notin OpenSlots /\ fd \in Fd /\ fdt[fd] = NoConn /\ clients[k] = client_init
      /\ fd # NoFd
  BY SizesAssumption DEF FreeSlots, FreeFds, OpenSlots, BrokerInv, QueueBounded, Fd, NoFd
<1> HIDE DEF c
<1>8. \A x \in Conn : st'[x] = IF x = c THEN "open" ELSE st[x]
  BY <1>1, <1>4 DEF c
<1>9. \A f \in Fd : fdt'[f] = IF f = fd THEN c ELSE fdt[f]
  BY <1>2, <1>4 DEF c
<1> DEFINE r == [client_init EXCEPT !.fd = fd, !.id = next_client_id, !.line_start = TRUE]
<1>10. /\ r \in ClientRecord /\ r.fd = fd /\ r.out = <<>> /\ r.off = 0
       /\ \A m \in Slot : clients'[m] = IF m = k THEN r ELSE clients[m]
       /\ clients' \in [Slot -> ClientRecord]
  <2>1. client_init \in ClientRecord /\ client_init.out = <<>> /\ client_init.off = 0
    <3>1. <<>> \in Seq(Item)
      OBVIOUS
    <3> QED BY <3>1, SizesAssumption DEF client_init, ClientRecord
  <2>2. r \in ClientRecord /\ r.fd = fd /\ r.out = <<>> /\ r.off = 0
    BY <1>4, <1>7, <2>1 DEF ClientRecord
  <2>3. clients' = [clients EXCEPT ![k] = r]
    BY <1>2, <1>4, <1>7 DEF Joined
  <2> HIDE DEF r
  <2>4. \A m \in Slot : clients'[m] = IF m = k THEN r ELSE clients[m]
    BY <1>4, <2>3
  <2>5. clients' \in [Slot -> ClientRecord]
    BY <1>4, <2>2, <2>3
  <2> QED BY <2>2, <2>4, <2>5
<1> HIDE DEF r
<1>11. OpenSlots' = OpenSlots \cup {k}
  BY <1>7, <1>10 DEF OpenSlots
<1>12. \A m \in OpenSlots : /\ m \in Slot /\ m # k /\ clients'[m] = clients[m] /\ clients[m].fd \in Fd
                             /\ clients[m].fd # fd /\ ConnOf(m)' = ConnOf(m)
                             /\ ConnOf(m) \in Conn /\ st[ConnOf(m)] = "open" /\ ConnOf(m) # c
  <2> TAKE m \in OpenSlots
  <2>1. m \in Slot /\ m # k /\ clients'[m] = clients[m] /\ clients[m].fd \in Fd
    BY <1>4, <1>7, <1>10 DEF OpenSlots, ClientRecord
  <2>2. ConnOf(m) \in Conn /\ st[ConnOf(m)] = "open"
    BY DEF BrokerInv, DescriptorsOwned
  <2>3. clients[m].fd # fd
    BY <1>7, <2>2, ConnAssumption DEF ConnOf
  <2> QED BY <1>6, <1>9, <2>1, <2>2, <2>3 DEF ConnOf
<1>13. ConnOf(k)' = c
  BY <1>7, <1>9, <1>10 DEF ConnOf
<1>14. TypeOK'
  <2>1. next_client_id' \in 0..(IdMod - 1)
    BY <1>1, <1>4, SizesAssumption
  <2>2. \A m \in Slot : clients'[m].off <= Len(clients'[m].out)
    <3>1. Len(<<>>) = 0
      OBVIOUS
    <3>2. \A m \in Slot : clients[m].off <= Len(clients[m].out)
      BY DEF BrokerInv, TypeOK
    <3> QED BY <1>10, <3>1, <3>2
  <2>3. fdt' \in [Fd -> Conn \cup {NoConn}] /\ st' \in [Conn -> {"idle", "backlog", "open", "closed"}]
    BY <1>1, <1>2, <1>4, <1>5 DEF c
  <2> QED BY <1>1, <1>3, <1>5, <1>10, <2>1, <2>2, <2>3 DEF BrokerInv, TypeOK
<1>15. QueueBounded'
  <2>1. Len(<<>>) = 0
    OBVIOUS
  <2> QED BY <1>7, <1>10, <2>1, SizesAssumption DEF BrokerInv, QueueBounded
<1>16. DescriptorsOwned'
  <2>1. \A m \in OpenSlots' : /\ ConnOf(m)' \in Conn /\ st'[ConnOf(m)'] = "open"
                              /\ \A n \in OpenSlots' : clients'[n].fd = clients'[m].fd => n = m
    <3>1. \A m \in OpenSlots, n \in OpenSlots : clients[n].fd = clients[m].fd => n = m
      BY DEF BrokerInv, DescriptorsOwned
    <3> QED BY <1>5, <1>7, <1>8, <1>10, <1>11, <1>12, <1>13, <3>1
  <2>2. \A f \in Fd : fdt'[f] # NoConn => \E m \in OpenSlots' : clients'[m].fd = f
    <3>1. \A f \in Fd : fdt[f] # NoConn => \E m \in OpenSlots : clients[m].fd = f
      BY DEF BrokerInv, DescriptorsOwned
    <3> QED BY <1>7, <1>9, <1>10, <1>11, <1>12, <3>1
  <2>3. \A x \in Conn : st'[x] = "open" => \E m \in OpenSlots' : ConnOf(m)' = x
    <3>1. \A x \in Conn : st[x] = "open" => \E m \in OpenSlots : ConnOf(m) = x
      BY DEF BrokerInv, DescriptorsOwned
    <3> QED BY <1>8, <1>11, <1>12, <1>13, <3>1
  <2> QED BY <2>1, <2>2, <2>3 DEF DescriptorsOwned
<1>17. BacklogInv'
  <2>1. \A m \in DOMAIN Tail(backlog) : st[Tail(backlog)[m]] = "backlog" /\ Tail(backlog)[m] \in Conn
                                        /\ Tail(backlog)[m] # c
    BY <1>4, <1>5 DEF BrokerInv, BacklogInv
  <2>2. \A m \in DOMAIN Tail(backlog), n \in DOMAIN Tail(backlog) :
            Tail(backlog)[m] = Tail(backlog)[n] => m = n
    BY <1>5 DEF BrokerInv, BacklogInv
  <2> QED BY <1>1, <1>8, <2>1, <2>2 DEF BacklogInv
<1>18. TableInv'
  <2>1. \A f \in Fd : fdt[f] # NoConn => fdt[f] \in Conn /\ st[fdt[f]] = "open"
    BY <1>4 DEF BrokerInv, TableInv
  <2>2. \A f \in Fd, g \in Fd : fdt[f] = fdt[g] /\ fdt[f] # NoConn => f = g
    BY DEF BrokerInv, TableInv
  <2>3. \A f \in Fd : fdt'[f] # NoConn => st'[fdt'[f]] = "open"
    BY <1>5, <1>8, <1>9, <2>1
  <2>4. \A f \in Fd, g \in Fd : fdt'[f] = fdt'[g] /\ fdt'[f] # NoConn => f = g
    BY <1>5, <1>6, <1>9, <2>1, <2>2
  <2> QED BY <2>3, <2>4 DEF TableInv
<1>19. RoundInv'
  <2>1. \A f \in Fd : pfds[f] # {} => fdt[f] # NoConn
    BY <1>1 DEF BrokerInv, RoundInv
  <2> QED BY <1>3, <1>7, <1>9, <2>1 DEF RoundInv
<1>20. StreamInv'
  <2>1. got[c] = <<>> /\ sockout[c] = <<>> /\ owed[c] = <<>>
    BY <1>5, <1>6 DEF BrokerInv, StreamInv
  <2>2. PendingBytes(r) = <<>>
    BY <1>10 DEF PendingBytes
  <2>3. (got[c] \o sockout[c]) \o PendingBytes(r) = owed[c]
    BY <2>1, <2>2
  <2>4. \A x \in Conn : /\ got[x] \o sockout[x] = SubSeq(owed[x], 1, Len(got[x] \o sockout[x]))
                        /\ Len(got[x] \o sockout[x]) <= Len(owed[x])
                        /\ \A m \in DOMAIN owed[x] : owed[x][m].src # x
    BY DEF BrokerInv, StreamInv, StreamIntact
  <2>5. \A x \in Conn : \A m \in OpenSlots : ConnOf(m) = x =>
            (got[x] \o sockout[x]) \o PendingBytes(clients[m]) = owed[x]
    BY DEF BrokerInv, StreamInv, StreamIntact
  <2>6. \A x \in Conn : \A m \in OpenSlots' : ConnOf(m)' = x =>
            (got[x] \o sockout[x]) \o PendingBytes(clients[m])' = owed[x]
    <3> SUFFICES ASSUME NEW x \in Conn, NEW m \in OpenSlots', ConnOf(m)' = x
                 PROVE  (got[x] \o sockout[x]) \o PendingBytes(clients[m])' = owed[x]
      OBVIOUS
    <3>1. CASE m = k
      BY <1>7, <1>10, <1>13, <2>3, <3>1
    <3>2. CASE m \in OpenSlots
      BY <1>12, <2>5, <3>2
    <3> QED BY <1>11, <3>1, <3>2
  <2>7. UNCHANGED <<got, sockout, owed>>
    BY <1>1
  <2>8. StreamIntact'
    BY <2>4, <2>6, <2>7 DEF StreamIntact
  <2> QED BY <1>1, <1>8, <2>8 DEF BrokerInv, StreamInv
<1> QED BY <1>14, <1>15, <1>16, <1>17, <1>18, <1>19, <1>20 DEF BrokerInv

-----------------------------------------------------------------------------
(* The client loop.                                                        *)

(* A slot without events, and a client without input.                      *)
LEMMA SkipKeeps == ASSUME BrokerInv, SkipClient \/ NoInput PROVE BrokerInv'
<1>1. /\ pc \in {"flush", "read"} /\ NextSlot
      /\ UNCHANGED <<stop, result, clients, next_client_id, fdt, backlog, st,
                     sent, rd, fin, rst, sockout, got, owed>>
  BY DEF SkipClient, NoInput, kernelVars, peerVars
<1>2. \A f \in Fd : fdt'[f] = fdt[f] \/ fdt'[f] = NoConn
  BY <1>1
<1> QED BY <1>1, <1>2, NextSlotKeepsRound, QuietStepKeeps

(* The served client is dropped, for whichever reason.                     *)
LEMMA DropServedKeeps ==
  ASSUME BrokerInv, pc \in {"flush", "read"}, i \in OpenSlots, drop_client({i}), NextSlot,
         UNCHANGED <<stop, result, next_client_id, sent, fin, rst, sockout, got, owed>>,
         rd' \in [Conn -> Nat], \A c \in Conn : rd'[c] <= sent[c]
  PROVE  BrokerInv'
<1>1. /\ clients' \in [Slot -> ClientRecord]
      /\ \A k \in Slot : clients'[k].off <= Len(clients'[k].out)
      /\ fdt' \in [Fd -> Conn \cup {NoConn}]
      /\ st' \in [Conn -> {"idle", "backlog", "open", "closed"}]
      /\ backlog' \in Seq(Conn)
      /\ QueueBounded' /\ DescriptorsOwned' /\ BacklogInv' /\ TableInv' /\ StreamInv'
      /\ \A f \in Fd : fdt'[f] = fdt[f] \/ fdt'[f] = NoConn
  <2>1. {i} \in SUBSET OpenSlots
    OBVIOUS
  <2> QED BY <2>1, DropKeeps
<1>2. /\ pc' \in {"poll", "flush"} /\ i' \in Slot /\ lready' \in BOOLEAN
      /\ pfds' \in [Fd -> SUBSET {"POLLIN", "POLLOUT", "POLLERR"}]
      /\ snap' \in [Fd -> Conn \cup {NoConn}]
      /\ RoundInv'
  BY <1>1, NextSlotKeepsRound
<1>3. TypeOK'
  BY <1>1, <1>2 DEF BrokerInv, TypeOK
<1> QED BY <1>1, <1>2, <1>3 DEF BrokerInv

(* The three ways in which the loop drops the client it serves.            *)
LEMMA DropBrokenKeeps == ASSUME BrokerInv, DropBroken \/ ReadEnds \/ FormatFails PROVE BrokerInv'
<1>1. rd \in [Conn -> Nat] /\ sent \in [Conn -> Nat] /\ (\A c \in Conn : rd[c] <= sent[c])
      /\ i \in Slot
  BY DEF BrokerInv, TypeOK
<1>2. CASE DropBroken
  <2>1. i \in OpenSlots
    BY <1>1, <1>2 DEF DropBroken, Served, OpenSlots
  <2> QED BY <1>1, <1>2, <2>1, DropServedKeeps DEF DropBroken, peerVars
<1>3. CASE ReadEnds
  <2>1. i \in OpenSlots
    BY <1>1, <1>3 DEF ReadEnds, BrokerInv, RoundInv, OpenSlots
  <2> QED BY <1>1, <1>3, <2>1, DropServedKeeps DEF ReadEnds, peerVars
<1>4. CASE FormatFails
  <2>1. i \in OpenSlots
    BY <1>1, <1>4 DEF FormatFails, BrokerInv, RoundInv, OpenSlots
  <2>2. ConnOf(i) \in Conn
    BY <2>1 DEF BrokerInv, DescriptorsOwned
  <2>3. sent[ConnOf(i)] > rd[ConnOf(i)] /\ rd' = [rd EXCEPT ![ConnOf(i)] = @ + InputLen(ConnOf(i))]
    BY <1>4 DEF FormatFails
  <2>4. InputLen(ConnOf(i)) \in Nat /\ InputLen(ConnOf(i)) <= sent[ConnOf(i)] - rd[ConnOf(i)]
    BY <1>1, <2>2, <2>3, SizesAssumption DEF InputLen, Least
  <2>5. rd' \in [Conn -> Nat] /\ \A c \in Conn : rd'[c] <= sent[c]
    BY <1>1, <2>2, <2>3, <2>4
  <2> QED BY <1>4, <2>1, <2>5, DropServedKeeps DEF FormatFails
<1> QED BY <1>2, <1>3, <1>4

(* flush_client moves bytes from the queue to the kernel, in order.        *)
LEMMA FlushKeeps == ASSUME BrokerInv, Flush PROVE BrokerInv'
<1> DEFINE c == ConnOf(i)
           n == IF Event("POLLOUT") THEN Least(Pending(clients[i]), Writable(c)) ELSE 0
           q == PendingBytes(clients[i])
           w == SubSeq(q, 1, n)
           r == IF Event("POLLOUT") THEN flush_client(clients[i], n) ELSE clients[i]
<1>1. /\ pc = "flush" /\ pc' = "read" /\ clients[i].fd # NoFd
      /\ UNCHANGED <<stop, i, result, next_client_id, pfds, lready, fdt, backlog, st,
                     sent, rd, fin, rst, got, owed, snap>>
      /\ sockout' = [sockout EXCEPT ![c] = @ \o w]
      /\ clients' = IF Event("POLLOUT") THEN [clients EXCEPT ![i] = r] ELSE clients
  BY DEF Flush, Served, kernelVars
<1>2. /\ i \in Slot /\ clients \in [Slot -> ClientRecord]
      /\ sockout \in [Conn -> Seq(Item)] /\ got \in [Conn -> Seq(Item)]
      /\ owed \in [Conn -> Seq(Item)]
      /\ \A x \in Conn : Len(sockout[x]) <= SockBuf
      /\ \A k \in Slot : clients[k].off <= Len(clients[k].out)
      /\ fdt \in [Fd -> Conn \cup {NoConn}]
  BY DEF BrokerInv, TypeOK
<1>3. i \in OpenSlots /\ c \in Conn /\ clients[i] \in ClientRecord
      /\ clients[i].off <= Len(clients[i].out)
  BY <1>1, <1>2 DEF OpenSlots, BrokerInv, DescriptorsOwned
<1>4. q \in Seq(Item) /\ Len(q) = Pending(clients[i]) /\ Pending(clients[i]) \in Nat
  BY <1>3, PendingFacts
<1>5. Writable(c) \in Nat
  BY <1>2, <1>3, SizesAssumption DEF Writable
<1>6. n \in Nat /\ n <= Pending(clients[i]) /\ n <= Writable(c)
  BY <1>4, <1>5 DEF Least
<1> HIDE DEF c, n, q, w, r
<1>7. /\ r \in ClientRecord /\ r.fd = clients[i].fd /\ Len(r.out) <= Len(clients[i].out)
      /\ r.off <= Len(r.out) /\ w \in Seq(Item) /\ w \o PendingBytes(r) = q
  <2>1. CASE Event("POLLOUT")
    <3>1. r = flush_client(clients[i], n)
      BY <2>1 DEF r
    <3> QED BY <1>3, <1>6, <3>1, FlushTakesFront DEF q, w
  <2>2. CASE ~Event("POLLOUT")
    <3>1. r = clients[i] /\ n = 0
      BY <2>2 DEF r, n
    <3>2. w = <<>>
      BY <3>1, SubSeqEmpty DEF w
    <3>3. w \in Seq(Item) /\ w \o q = q
      BY <1>4, <3>2, ConcatEmptySeq
    <3>4. Len(clients[i].out) \in Nat
      BY <1>3, PendingFacts
    <3> QED BY <1>3, <3>1, <3>3, <3>4 DEF q
  <2> QED BY <2>1, <2>2
<1>8. Len(w) = n
  BY <1>4, <1>6 DEF w
<1>9. /\ \A k \in Slot : clients'[k] = IF k = i THEN r ELSE clients[k]
      /\ clients' \in [Slot -> ClientRecord]
  BY <1>1, <1>2, <1>7 DEF r
<1>10. OpenSlots' = OpenSlots /\ \A k \in OpenSlots : ConnOf(k)' = ConnOf(k) /\ clients'[k].fd = clients[k].fd
  BY <1>1, <1>7, <1>9 DEF OpenSlots, ConnOf
<1>11. \A x \in Conn : sockout'[x] = IF x = c THEN sockout[c] \o w ELSE sockout[x]
  BY <1>1, <1>2, <1>3
<1>12. TypeOK'
  <2>1. \A k \in Slot : clients'[k].off <= Len(clients'[k].out)
    BY <1>2, <1>7, <1>9
  <2>2. sockout' \in [Conn -> Seq(Item)]
    BY <1>1, <1>2, <1>3, <1>7
  <2>3. \A x \in Conn : Len(sockout'[x]) <= SockBuf
    <3>1. Len(sockout[c] \o w) <= SockBuf
      BY <1>2, <1>3, <1>6, <1>7, <1>8, SizesAssumption DEF Writable
    <3> QED BY <1>2, <1>11, <3>1
  <2> QED BY <1>1, <1>9, <2>1, <2>2, <2>3 DEF BrokerInv, TypeOK
<1>13. QueueBounded'
  <2>1. \A k \in Slot : Len(clients[k].out) <= MaxBuffer /\ (clients[k].fd = NoFd => clients[k] = client_init)
    BY DEF BrokerInv, QueueBounded
  <2>2. Len(r.out) <= MaxBuffer
    <3>1. Len(r.out) \in Nat /\ Len(clients[i].out) \in Nat
      BY <1>3, <1>7, PendingFacts
    <3> QED BY <1>2, <1>7, <2>1, <3>1, SizesAssumption
  <2> QED BY <1>1, <1>7, <1>9, <2>1, <2>2 DEF QueueBounded
<1>14. DescriptorsOwned'
  BY <1>1, <1>10 DEF BrokerInv, DescriptorsOwned
<1>15. BacklogInv' /\ TableInv'
  BY <1>1 DEF BrokerInv, BacklogInv, TableInv
<1>16. RoundInv'
  BY <1>1, <1>2, <1>7, <1>9 DEF BrokerInv, RoundInv
<1>17. StreamInv'
  <2>1. /\ \A x \in Conn : /\ got[x] \o sockout[x] = SubSeq(owed[x], 1, Len(got[x] \o sockout[x]))
                           /\ Len(got[x] \o sockout[x]) <= Len(owed[x])
                           /\ \A m \in DOMAIN owed[x] : owed[x][m].src # x
        /\ \A x \in Conn : \A k \in OpenSlots : ConnOf(k) = x =>
               (got[x] \o sockout[x]) \o PendingBytes(clients[k]) = owed[x]
        /\ \A x \in Conn : st[x] \in {"idle", "backlog"} =>
               got[x] = <<>> /\ sockout[x] = <<>> /\ owed[x] = <<>>
    BY DEF BrokerInv, StreamInv, StreamIntact
  <2>2. (got[c] \o (sockout[c] \o w)) \o PendingBytes(r) = owed[c]
    <3> DEFINE g == got[c]
               o == sockout[c]
               p == PendingBytes(r)
    <3>1. g \in Seq(Item) /\ o \in Seq(Item) /\ p \in Seq(Item)
      BY <1>2, <1>3, <1>7, PendingFacts
    <3>2. (g \o o) \o q = owed[c]
      BY <1>3, <2>1 DEF c, q
    <3> HIDE DEF g, o, p
    <3>3. (g \o (o \o w)) \o p = (g \o o) \o (w \o p)
      <4>1. g \o o \in Seq(Item)
        BY <3>1
      <4>w. w \in Seq(Item)
        BY <1>7
      <4>2. (g \o o) \o w = g \o (o \o w)
        BY <3>1, <4>w, ItemsAssociative
      <4>3. ((g \o o) \o w) \o p = (g \o o) \o (w \o p)
        <5> DEFINE go == g \o o
        <5>1. go \in Seq(Item)
          BY <4>1
        <5> HIDE DEF go
        <5>2. (go \o w) \o p = go \o (w \o p)
          BY <3>1, <4>w, <5>1, ItemsAssociative
        <5> QED BY <5>2 DEF go
      <4> QED BY <4>2, <4>3
    <3> QED BY <1>7, <3>2, <3>3 DEF g, o, p
  <2>3. /\ got[c] \o (sockout[c] \o w) = SubSeq(owed[c], 1, Len(got[c] \o (sockout[c] \o w)))
        /\ Len(got[c] \o (sockout[c] \o w)) <= Len(owed[c])
    <3>1. got[c] \o (sockout[c] \o w) \in Seq(Item) /\ PendingBytes(r) \in Seq(Item)
      BY <1>2, <1>3, <1>7, PendingFacts
    <3> QED BY <2>2, <3>1, PrefixOfConcat
  <2>4. \A k \in OpenSlots : ConnOf(k) = c => k = i
    <3>1. \A k \in OpenSlots : clients[k].fd \in Fd
      BY <1>2 DEF OpenSlots, ClientRecord
    <3> QED BY <1>3, <3>1, ConnAssumption DEF BrokerInv, DescriptorsOwned, TableInv, ConnOf, c
  <2>5. \A x \in Conn : \A k \in OpenSlots' : ConnOf(k)' = x =>
            (got[x] \o sockout'[x]) \o PendingBytes(clients[k])' = owed[x]
    <3> SUFFICES ASSUME NEW x \in Conn, NEW k \in OpenSlots', ConnOf(k)' = x
                 PROVE  (got[x] \o sockout'[x]) \o PendingBytes(clients[k])' = owed[x]
      OBVIOUS
    <3>1. k \in OpenSlots /\ k \in Slot /\ ConnOf(k) = x
      BY <1>10 DEF OpenSlots
    <3>2. CASE x = c
      BY <1>9, <1>11, <2>2, <2>4, <3>1, <3>2
    <3>3. CASE x # c
      <4>1. k # i
        BY <3>1, <3>3 DEF c
      <4> QED BY <1>9, <1>11, <2>1, <3>1, <3>3, <4>1
    <3> QED BY <3>2, <3>3
  <2>6. \A x \in Conn : /\ got[x] \o sockout'[x] = SubSeq(owed[x], 1, Len(got[x] \o sockout'[x]))
                        /\ Len(got[x] \o sockout'[x]) <= Len(owed[x])
    BY <1>11, <2>1, <2>3
  <2>7. st[c] = "open"
    BY <1>3 DEF BrokerInv, DescriptorsOwned, c
  <2>8. got' = got /\ owed' = owed /\ st' = st
    BY <1>1
  <2>9. StreamIntact'
    BY <2>1, <2>5, <2>6, <2>8 DEF StreamIntact
  <2> QED BY <1>11, <2>1, <2>7, <2>8, <2>9 DEF StreamInv
<1> QED BY <1>12, <1>13, <1>14, <1>15, <1>16, <1>17 DEF BrokerInv

(* What is relayed is a sequence of bytes of the sender.                   *)
LEMMA ChunkType ==
  ASSUME NEW c \in Conn, NEW a \in Nat, NEW b \in Nat, 1 <= a, a <= b, b <= Len(Script[c])
  PROVE  /\ Chunk(c, a, b) \in Seq({x \in Item : x.src = c})
         /\ Len(Chunk(c, a, b)) = b - a + 1
<1>1. \A k \in a..b : Script[c][k] \in Kind
  BY ConnAssumption DEF Kind
<1>2. \A k \in a..b : Byte(c, k) \in {x \in Item : x.src = c}
  BY <1>1 DEF Byte, Item
<1>3. \A k \in 1..(b - a + 1) : a + k - 1 \in a..b
  OBVIOUS
<1> QED BY <1>2, <1>3 DEF Chunk

(* The fan-out: queue_bytes on every other client, and drop_client on      *)
(* those whose queue overflows.                                            *)
LEMMA RelayKeeps == ASSUME BrokerInv, Relay PROVE BrokerInv'
<1> DEFINE c == ConnOf(i)
           n == InputLen(c)
           buf == Chunk(c, rd[c] + 1, rd[c] + n)
           msg == IF Chat THEN FormatChat(clients[i].id, clients[i].line_start, buf) ELSE buf
           others == OpenSlots \ {i}
           ls == LineStartAfter(clients[i], buf)
<1>1. /\ pc = "read" /\ sent[c] > rd[c] /\ NextSlot
      /\ UNCHANGED <<stop, result, next_client_id, sent, fin, rst, sockout, got>>
  BY DEF Relay
<1>2. PICK nomem :
        LET slow == {k \in others : Overflows(clients[k], msg) \/ k \in nomem}
        IN  /\ nomem \subseteq others
            /\ rd' = [rd EXCEPT ![c] = @ + n]
            /\ clients' = [k \in Slot |->
                   IF k = i /\ Chat THEN [clients[k] EXCEPT !.line_start = ls]
                   ELSE IF k \in slow THEN client_init
                   ELSE IF k \in others THEN queue_bytes(clients[k], msg)
                   ELSE clients[k]]
            /\ CloseSlots(slow)
            /\ owed' = [d \in Conn |-> IF st[d] = "open" /\ d # c THEN owed[d] \o msg
                                                                  ELSE owed[d]]
  BY DEF Relay
<1> DEFINE slow == {k \in others : Overflows(clients[k], msg) \/ k \in nomem}
<1>3. /\ i \in Slot /\ clients \in [Slot -> ClientRecord]
      /\ rd \in [Conn -> Nat] /\ sent \in [Conn -> Nat]
      /\ \A x \in Conn : rd[x] <= sent[x] /\ sent[x] <= Len(Script[x])
      /\ sockout \in [Conn -> Seq(Item)] /\ got \in [Conn -> Seq(Item)]
      /\ owed \in [Conn -> Seq(Item)]
      /\ \A k \in Slot : clients[k].off <= Len(clients[k].out)
      /\ fdt \in [Fd -> Conn \cup {NoConn}]
  BY DEF BrokerInv, TypeOK
<1>4. i \in OpenSlots /\ c \in Conn /\ st[c] = "open"
  BY <1>1, <1>3 DEF OpenSlots, BrokerInv, RoundInv, DescriptorsOwned
<1>5. n \in Nat /\ n >= 1 /\ n <= sent[c] - rd[c]
  <2>1. rd[c] \in Nat /\ sent[c] \in Nat
    BY <1>3, <1>4
  <2> QED BY <1>1, <2>1, SizesAssumption DEF InputLen, Least
<1>6. Len(Script[c]) \in Nat
  BY <1>4, ConnAssumption
<1>7. msg \in Seq({x \in Item : x.src = c})
  <2> DEFINE a == rd[c] + 1
             b == rd[c] + n
  <2>1. a \in Nat /\ b \in Nat /\ 1 <= a /\ a <= b /\ b <= Len(Script[c])
    BY <1>3, <1>4, <1>5, <1>6
  <2>2. clients[i].id \in 0..(IdMod - 1) /\ clients[i].line_start \in BOOLEAN
    BY <1>3 DEF ClientRecord
  <2> HIDE DEF a, b, c
  <2>3. Chunk(c, a, b) \in Seq({x \in Item : x.src = c})
    BY <1>4, <2>1, ChunkType
  <2>4. a \in 1..Len(Script[c]) /\ b \in a..Len(Script[c])
    BY <1>6, <2>1
  <2>5. FormatChat(clients[i].id, clients[i].line_start, Chunk(c, a, b))
            \in Seq({x \in Item : x.src = c})
    BY <1>4, <2>2, <2>4, FormatAssumption
  <2> QED BY <2>3, <2>5 DEF a, b
<1> HIDE DEF c, n, buf, msg, ls
<1>8. msg \in Seq(Item) /\ \A m \in DOMAIN msg : msg[m].src = c
  BY <1>7
<1>9. ls \in BOOLEAN
  BY DEF ls, LineStartAfter
<1>10. /\ rd' = [rd EXCEPT ![c] = @ + n]
       /\ \A k \in Slot : clients'[k] =
                   IF k = i /\ Chat THEN [clients[k] EXCEPT !.line_start = ls]
                   ELSE IF k \in slow THEN client_init
                   ELSE IF k \in others THEN queue_bytes(clients[k], msg)
                   ELSE clients[k]
       /\ CloseSlots(slow)
       /\ \A d \in Conn : owed'[d] = IF st[d] = "open" /\ d # c THEN owed[d] \o msg ELSE owed[d]
       /\ DOMAIN clients' = Slot /\ clients' = [k \in Slot |-> clients'[k]]
       /\ DOMAIN owed' = Conn /\ owed' = [d \in Conn |-> owed'[d]]
  BY <1>2
<1>11. slow \subseteq others /\ others \subseteq OpenSlots /\ i \notin others /\ OpenSlots \subseteq Slot
  BY DEF OpenSlots
<1> HIDE DEF slow, others
<1>12. client_init \in ClientRecord /\ Len(client_init.out) = 0 /\ client_init.off = 0
       /\ client_init.fd = NoFd
  <2>1. <<>> \in Seq(Item) /\ Len(<<>>) = 0
    OBVIOUS
  <2> QED BY <2>1, SizesAssumption DEF client_init, ClientRecord, NoFd
<1>13. /\ clients'[i] \in ClientRecord /\ clients'[i].fd = clients[i].fd
       /\ clients'[i].out = clients[i].out /\ clients'[i].off = clients[i].off
  <2>1. clients[i] \in ClientRecord
    BY <1>3
  <2>2. CASE Chat
    <3>1. clients'[i] = [clients[i] EXCEPT !.line_start = ls]
      BY <1>3, <1>10, <2>2
    <3> QED BY <1>9, <2>1, <3>1 DEF ClientRecord
  <2>3. CASE ~Chat
    BY <1>3, <1>10, <1>11, <2>1, <2>3
  <2> QED BY <2>2, <2>3
<1>14. \A k \in slow : clients'[k] = client_init
  BY <1>10, <1>11
<1>15. \A k \in others \ slow : /\ clients'[k] \in ClientRecord /\ clients'[k].fd = clients[k].fd
                                /\ clients'[k].off = 0 /\ Len(clients'[k].out) <= MaxBuffer
                                /\ PendingBytes(clients[k])' = PendingBytes(clients[k]) \o msg
  <2> TAKE k \in others \ slow
  <2>1. k \in Slot /\ k # i /\ ~Overflows(clients[k], msg)
    BY <1>11 DEF slow
  <2>2. clients'[k] = queue_bytes(clients[k], msg)
    BY <1>10, <2>1
  <2>3. clients[k] \in ClientRecord /\ clients[k].off <= Len(clients[k].out)
    BY <1>3, <2>1
  <2> DEFINE r == queue_bytes(clients[k], msg)
  <2>4. /\ r \in ClientRecord /\ r.fd = clients[k].fd /\ r.off = 0 /\ Len(r.out) <= MaxBuffer
        /\ PendingBytes(r) = PendingBytes(clients[k]) \o msg
    BY <1>8, <2>1, <2>3, QueueBytesAppends, Zenon
  <2>5. PendingBytes(clients[k])' = PendingBytes(clients'[k])
    BY DEF PendingBytes
  <2> QED BY <2>2, <2>4, <2>5
<1>16. \A k \in Slot \ OpenSlots : clients'[k] = clients[k]
  BY <1>4, <1>10, <1>11
<1>17. clients' \in [Slot -> ClientRecord]
  <2>1. \A k \in Slot : clients'[k] \in ClientRecord
    BY <1>3, <1>12, <1>13, <1>14, <1>15, <1>16 DEF others
  <2> QED BY <1>10, <2>1
<1>18. \A k \in Slot \ slow : clients'[k].fd = clients[k].fd
  BY <1>13, <1>15, <1>16 DEF others
<1>19. /\ fdt' \in [Fd -> Conn \cup {NoConn}]
       /\ st' \in [Conn -> {"idle", "backlog", "open", "closed"}]
       /\ backlog' \in Seq(Conn)
       /\ DescriptorsOwned' /\ BacklogInv' /\ TableInv'
       /\ \A f \in Fd : fdt'[f] = fdt[f] \/ fdt'[f] = NoConn
  <2>1. slow \in SUBSET OpenSlots
    BY <1>11
  <2> QED BY <1>10, <1>14, <1>17, <1>18, <2>1, CloseKeepsTables
<1>20. /\ pc' \in {"poll", "flush"} /\ i' \in Slot /\ lready' \in BOOLEAN
       /\ pfds' \in [Fd -> SUBSET {"POLLIN", "POLLOUT", "POLLERR"}]
       /\ snap' \in [Fd -> Conn \cup {NoConn}]
       /\ RoundInv'
  BY <1>1, <1>19, NextSlotKeepsRound
<1>21. \A k \in Slot : /\ clients'[k].off <= Len(clients'[k].out)
                       /\ Len(clients'[k].out) <= MaxBuffer
                       /\ clients'[k].fd = NoFd => clients'[k] = client_init
  <2> TAKE k \in Slot
  <2>1. Len(clients[k].out) <= MaxBuffer /\ (clients[k].fd = NoFd => clients[k] = client_init)
    BY DEF BrokerInv, QueueBounded
  <2>2. CASE k = i
    BY <1>3, <1>4, <1>13, <2>1, <2>2 DEF OpenSlots
  <2>3. CASE k \in slow
    BY <1>12, <1>14, <2>3, SizesAssumption
  <2>4. CASE k \in others \ slow
    <3>1. clients'[k].out \in Seq(Item)
      BY <1>15, <2>4 DEF ClientRecord
    <3>2. clients[k].fd # NoFd
      BY <1>11, <2>4 DEF OpenSlots
    <3> QED BY <1>15, <2>4, <3>1, <3>2
  <2>5. CASE k \notin OpenSlots
    BY <1>3, <1>16, <2>1, <2>5
  <2> QED BY <2>2, <2>3, <2>4, <2>5 DEF others
<1>22. TypeOK'
  <2>1. rd' \in [Conn -> Nat] /\ \A x \in Conn : rd'[x] <= sent[x]
    BY <1>3, <1>4, <1>5, <1>10
  <2>2. owed' \in [Conn -> Seq(Item)]
    <3>1. \A x \in Conn : owed'[x] \in Seq(Item)
      <4> TAKE x \in Conn
      <4>1. owed[x] \in Seq(Item) /\ owed[x] \o msg \in Seq(Item)
        BY <1>3, <1>8, ItemsConcat
      <4>2. owed'[x] = owed[x] \o msg \/ owed'[x] = owed[x]
        BY <1>10
      <4> QED BY <4>1, <4>2
    <3> QED BY <1>10, <3>1
  <2> QED BY <1>1, <1>17, <1>19, <1>20, <1>21, <2>1, <2>2 DEF BrokerInv, TypeOK
<1>23. QueueBounded'
  BY <1>21 DEF QueueBounded
<1>24. StreamInv'
  <2>1. /\ \A x \in Conn : /\ got[x] \o sockout[x] = SubSeq(owed[x], 1, Len(got[x] \o sockout[x]))
                           /\ Len(got[x] \o sockout[x]) <= Len(owed[x])
                           /\ \A m \in DOMAIN owed[x] : owed[x][m].src # x
        /\ \A x \in Conn : \A k \in OpenSlots : ConnOf(k) = x =>
               (got[x] \o sockout[x]) \o PendingBytes(clients[k]) = owed[x]
        /\ \A x \in Conn : st[x] \in {"idle", "backlog"} =>
               got[x] = <<>> /\ sockout[x] = <<>> /\ owed[x] = <<>>
    BY DEF BrokerInv, StreamInv, StreamIntact
  <2>2. \A x \in Conn : got[x] \o sockout[x] \in Seq(Item) /\ owed[x] \in Seq(Item)
    BY <1>3
  <2>3. \A x \in Conn : /\ got[x] \o sockout[x] = SubSeq(owed'[x], 1, Len(got[x] \o sockout[x]))
                        /\ Len(got[x] \o sockout[x]) <= Len(owed'[x])
    <3> TAKE x \in Conn
    <3>1. CASE st[x] = "open" /\ x # c
      <4>1. owed'[x] = owed[x] \o msg
        BY <1>10, <3>1
      <4> DEFINE g == got[x] \o sockout[x]
                 o == owed[x]
      <4>2. g \in Seq(Item) /\ o \in Seq(Item) /\ g = SubSeq(o, 1, Len(g)) /\ Len(g) <= Len(o)
        BY <2>1, <2>2
      <4> HIDE DEF g, o
      <4>3. g = SubSeq(o \o msg, 1, Len(g)) /\ Len(g) <= Len(o \o msg)
        BY <1>8, <4>2, PrefixOfExtension
      <4> QED BY <4>1, <4>3 DEF g, o
    <3>2. CASE ~(st[x] = "open" /\ x # c)
      BY <1>10, <2>1, <3>2
    <3> QED BY <3>1, <3>2
  <2>4. \A x \in Conn : \A m \in DOMAIN owed'[x] : owed'[x][m].src # x
    <3> SUFFICES ASSUME NEW x \in Conn, NEW m \in DOMAIN owed'[x] PROVE owed'[x][m].src # x
      OBVIOUS
    <3>1. CASE st[x] = "open" /\ x # c
      <4> DEFINE o == owed[x]
      <4>1. owed'[x] = o \o msg /\ o \in Seq(Item)
        BY <1>10, <2>2, <3>1
      <4>2. \A j \in DOMAIN o : o[j].src # x
        BY <2>1
      <4> HIDE DEF o
      <4>3. m \in 1..(Len(o) + Len(msg)) /\ Len(o) \in Nat /\ Len(msg) \in Nat
        BY <1>8, <4>1
      <4>4. CASE m <= Len(o)
        <5>1. (o \o msg)[m] = o[m] /\ m \in DOMAIN o
          BY <1>8, <4>1, <4>3, <4>4
        <5> QED BY <4>1, <4>2, <5>1
      <4>5. CASE m > Len(o)
        <5>1. (o \o msg)[m] = msg[m - Len(o)] /\ m - Len(o) \in DOMAIN msg
          BY <1>8, <4>1, <4>3, <4>5
        <5> QED BY <1>8, <3>1, <4>1, <5>1
      <4> QED BY <4>3, <4>4, <4>5
    <3>2. CASE ~(st[x] = "open" /\ x # c)
      BY <1>10, <2>1, <3>2
    <3> QED BY <3>1, <3>2
  <2>5. \A k \in OpenSlots, m \in OpenSlots : ConnOf(k) = ConnOf(m) => k = m
    <3>1. \A k \in OpenSlots : clients[k].fd \in Fd /\ ConnOf(k) \in Conn
      BY <1>3 DEF OpenSlots, ClientRecord, BrokerInv, DescriptorsOwned
    <3> QED BY <3>1, ConnAssumption DEF BrokerInv, DescriptorsOwned, TableInv, ConnOf
  <2>6. \A k \in OpenSlots' : k \in OpenSlots \ slow /\ ConnOf(k)' = ConnOf(k)
    <3> TAKE k \in OpenSlots'
    <3>1. k \in OpenSlots \ slow /\ clients'[k].fd = clients[k].fd /\ clients[k].fd \in Fd
      BY <1>3, <1>12, <1>14, <1>18 DEF OpenSlots, ClientRecord
    <3>2. ConnOf(k)' \in Conn
      BY <1>19 DEF DescriptorsOwned
    <3> QED BY <1>19, <3>1, <3>2, ConnAssumption DEF ConnOf
  <2>7. \A x \in Conn : \A k \in OpenSlots' : ConnOf(k)' = x =>
            (got[x] \o sockout[x]) \o PendingBytes(clients[k])' = owed'[x]
    <3> SUFFICES ASSUME NEW x \in Conn, NEW k \in OpenSlots', ConnOf(k)' = x
                 PROVE  (got[x] \o sockout[x]) \o PendingBytes(clients[k])' = owed'[x]
      OBVIOUS
    <3>1. /\ k \in OpenSlots \ slow /\ k \in Slot /\ ConnOf(k) = x /\ st[x] = "open"
          /\ (got[x] \o sockout[x]) \o PendingBytes(clients[k]) = owed[x]
      <4>1. k \in OpenSlots \ slow /\ k \in Slot /\ ConnOf(k) = x
        BY <1>11, <2>6
      <4>2. st[ConnOf(k)] = "open"
        BY <4>1 DEF BrokerInv, DescriptorsOwned
      <4> QED BY <2>1, <4>1, <4>2
    <3>2. CASE k = i
      <4>1. x = c /\ owed'[x] = owed[x]
        BY <1>10, <3>1, <3>2 DEF c
      <4>2. PendingBytes(clients[k])' = PendingBytes(clients[k])
        BY <1>13, <3>2 DEF PendingBytes
      <4> QED BY <3>1, <4>1, <4>2
    <3>3. CASE k # i
      <4>1. x # c
        BY <1>4, <2>5, <3>1, <3>3 DEF c
      <4>2. owed'[x] = owed[x] \o msg
        BY <1>10, <3>1, <4>1
      <4>3. PendingBytes(clients[k])' = PendingBytes(clients[k]) \o msg
        BY <1>15, <3>1, <3>3 DEF others
      <4>4. PendingBytes(clients[k]) \in Seq(Item)
        BY <1>3, <3>1, PendingFacts
      <4>5. (got[x] \o sockout[x]) \o (PendingBytes(clients[k]) \o msg)
                = ((got[x] \o sockout[x]) \o PendingBytes(clients[k])) \o msg
        <5> DEFINE g == got[x] \o sockout[x]
                   o == PendingBytes(clients[k])
        <5>1. g \in Seq(Item) /\ o \in Seq(Item) /\ msg \in Seq(Item)
          BY <1>8, <2>2, <4>4
        <5> HIDE DEF g, o, msg
        <5>2. (g \o o) \o msg = g \o (o \o msg)
          BY <5>1, ItemsAssociative
        <5> QED BY <5>2, Zenon DEF g, o
      <4> QED BY <3>1, <4>2, <4>3, <4>5
    <3> QED BY <3>2, <3>3
  <2>8. got' = got /\ sockout' = sockout
    BY <1>1
  <2>9. StreamIntact'
    BY <2>3, <2>4, <2>7, <2>8 DEF StreamIntact
  <2>10. \A x \in Conn : st'[x] = st[x] \/ st'[x] = "closed"
    BY <1>10 DEF CloseSlots
  <2> QED BY <1>10, <2>1, <2>8, <2>9, <2>10 DEF StreamInv
<1> QED BY <1>19, <1>20, <1>22, <1>23, <1>24 DEF BrokerInv

-----------------------------------------------------------------------------
(* The peers and the signal.                                               *)

(* A step that moves neither connections nor relayed bytes: a peer sends,  *)
(* shuts down or breaks, the signal comes, or nothing happens.             *)
LEMMA OutsideStepKeeps ==
  ASSUME BrokerInv,
         UNCHANGED <<pc, i, result, clients, next_client_id, pfds, lready, owed, snap,
                     fdt, backlog, st, rd, sockout, got>>,
         stop' \in BOOLEAN, sent' \in [Conn -> Nat],
         \A c \in Conn : rd[c] <= sent'[c] /\ sent'[c] <= Len(Script[c]),
         fin' \in [Conn -> BOOLEAN], rst' \in [Conn -> BOOLEAN]
  PROVE  BrokerInv'
<1>1. OpenSlots' = OpenSlots /\ \A k \in Slot : ConnOf(k)' = ConnOf(k)
  BY DEF OpenSlots, ConnOf
<1>2. TypeOK'
  BY DEF BrokerInv, TypeOK
<1>3. QueueBounded' /\ BacklogInv' /\ TableInv' /\ RoundInv'
  BY DEF BrokerInv, QueueBounded, BacklogInv, TableInv, RoundInv
<1>4. DescriptorsOwned'
  BY <1>1 DEF BrokerInv, DescriptorsOwned, OpenSlots, ConnOf
<1>5. StreamInv'
  BY <1>1, StreamsKept DEF OpenSlots
<1> QED BY <1>2, <1>3, <1>4, <1>5 DEF BrokerInv

(* A peer sends, shuts its side down or breaks the connection.             *)
LEMMA PeerSignalKeeps ==
  ASSUME BrokerInv, NEW c \in Conn, PeerSend(c) \/ PeerFin(c) \/ PeerReset(c)
  PROVE  BrokerInv'
<1>1. /\ stop \in BOOLEAN /\ sent \in [Conn -> Nat] /\ rd \in [Conn -> Nat]
      /\ \A x \in Conn : rd[x] <= sent[x] /\ sent[x] <= Len(Script[x])
      /\ fin \in [Conn -> BOOLEAN] /\ rst \in [Conn -> BOOLEAN]
  BY DEF BrokerInv, TypeOK
<1>2. Len(Script[c]) \in Nat
  BY ConnAssumption
<1>3. CASE PeerSend(c)
  <2>1. /\ sent' = [sent EXCEPT ![c] = @ + 1] /\ sent[c] < Len(Script[c])
        /\ UNCHANGED <<stop, pc, i, result, clients, next_client_id, pfds, lready, owed, snap,
                       fdt, backlog, st, rd, fin, rst, sockout, got>>
    BY <1>3 DEF PeerSend, procVars, kernelVars
  <2>2. sent' \in [Conn -> Nat]
        /\ \A x \in Conn : rd[x] <= sent'[x] /\ sent'[x] <= Len(Script[x])
    BY <1>1, <1>2, <2>1
  <2> QED BY <1>1, <2>1, <2>2, OutsideStepKeeps
<1>4. CASE PeerFin(c)
  <2>1. /\ fin' = [fin EXCEPT ![c] = TRUE]
        /\ UNCHANGED <<stop, pc, i, result, clients, next_client_id, pfds, lready, owed, snap,
                       fdt, backlog, st, sent, rd, rst, sockout, got>>
    BY <1>4 DEF PeerFin, procVars, kernelVars
  <2> QED BY <1>1, <2>1, OutsideStepKeeps
<1>5. CASE PeerReset(c)
  <2>1. /\ rst' = [rst EXCEPT ![c] = TRUE]
        /\ UNCHANGED <<stop, pc, i, result, clients, next_client_id, pfds, lready, owed, snap,
                       fdt, backlog, st, sent, rd, fin, sockout, got>>
    BY <1>5 DEF PeerReset, procVars, kernelVars
  <2> QED BY <1>1, <2>1, OutsideStepKeeps
<1> QED BY <1>3, <1>4, <1>5

(* wcat_handle_signal, and the steps that change nothing.                  *)
LEMMA SignalKeeps == ASSUME BrokerInv, Signal \/ UNCHANGED vars PROVE BrokerInv'
<1>1. /\ stop \in BOOLEAN /\ sent \in [Conn -> Nat]
      /\ \A x \in Conn : rd[x] <= sent[x] /\ sent[x] <= Len(Script[x])
      /\ fin \in [Conn -> BOOLEAN] /\ rst \in [Conn -> BOOLEAN]
  BY DEF BrokerInv, TypeOK
<1>2. /\ stop' \in BOOLEAN
      /\ UNCHANGED <<pc, i, result, clients, next_client_id, pfds, lready, owed, snap,
                     fdt, backlog, st, sent, rd, fin, rst, sockout, got>>
  BY <1>1 DEF Signal, vars, procVars, kernelVars, peerVars
<1> QED BY <1>1, <1>2, OutsideStepKeeps

(* A peer takes what the kernel holds for it: the bytes change hands, the  *)
(* stream stays the same.                                                  *)
LEMMA PeerReadKeeps == ASSUME BrokerInv, NEW c \in Conn, PeerRead(c) PROVE BrokerInv'
<1> DEFINE e == <<>>
<1>1. /\ got' = [got EXCEPT ![c] = @ \o sockout[c]] /\ sockout' = [sockout EXCEPT ![c] = e]
      /\ st[c] = "open"
      /\ UNCHANGED <<stop, pc, i, result, clients, next_client_id, pfds, lready, owed, snap,
                     fdt, backlog, st, sent, rd, fin, rst>>
  BY DEF PeerRead, procVars, kernelVars
<1>2. /\ got \in [Conn -> Seq(Item)] /\ sockout \in [Conn -> Seq(Item)]
      /\ \A x \in Conn : Len(sockout[x]) <= SockBuf
  BY DEF BrokerInv, TypeOK
<1>3. e \in Seq(Item) /\ Len(e) = 0 /\ \A s \in Seq(Item) : s \o e = s
  BY ConcatEmptySeq
<1>4. \A x \in Conn : got[x] \o sockout[x] \in Seq(Item)
  BY <1>2, ItemsConcat
<1>5. 0 <= SockBuf
  BY SizesAssumption
<1>6. \A x \in Conn : (st[x] \in {"idle", "backlog"}) =>
          got[x] = e /\ sockout[x] = e /\ owed[x] = e
  BY DEF BrokerInv, StreamInv
<1> HIDE DEF e
<1>7. got' \in [Conn -> Seq(Item)] /\ sockout' \in [Conn -> Seq(Item)]
  BY <1>1, <1>2, <1>3, <1>4, Zenon
<1>8. \A x \in Conn : Len(sockout'[x]) <= SockBuf
  BY <1>1, <1>2, <1>3, <1>5, Zenon
<1>9. \A x \in Conn : got'[x] \o sockout'[x] = got[x] \o sockout[x]
  <2> TAKE x \in Conn
  <2>1. CASE x = c
    <3>1. got'[x] = got[x] \o sockout[x] /\ sockout'[x] = e
      BY <1>1, <1>2, <2>1, Zenon
    <3> QED BY <1>3, <1>4, <3>1, Zenon
  <2>2. CASE x # c
    BY <1>1, <1>2, <2>2, Zenon
  <2> QED BY <2>1, <2>2
<1>10. OpenSlots' = OpenSlots /\ \A k \in Slot : ConnOf(k)' = ConnOf(k)
  BY <1>1 DEF OpenSlots, ConnOf
<1>11. TypeOK'
  BY <1>1, <1>7, <1>8 DEF BrokerInv, TypeOK
<1>12. QueueBounded' /\ BacklogInv' /\ TableInv' /\ RoundInv'
  BY <1>1 DEF BrokerInv, QueueBounded, BacklogInv, TableInv, RoundInv
<1>13. DescriptorsOwned'
  BY <1>1, <1>10 DEF BrokerInv, DescriptorsOwned, OpenSlots, ConnOf
<1>14. StreamIntact'
  <2>1. \A k \in OpenSlots : PendingBytes(clients[k])' = PendingBytes(clients[k])
    BY <1>1 DEF PendingBytes
  <2>2. \A k \in OpenSlots : ConnOf(k)' = ConnOf(k)
    BY <1>10 DEF OpenSlots
  <2>3. \A x \in Conn :
          /\ \A k \in OpenSlots : ConnOf(k) = x =>
                 (got[x] \o sockout[x]) \o PendingBytes(clients[k]) = owed[x]
          /\ got[x] \o sockout[x] = SubSeq(owed[x], 1, Len(got[x] \o sockout[x]))
          /\ Len(got[x] \o sockout[x]) <= Len(owed[x])
          /\ \A m \in DOMAIN owed[x] : owed[x][m].src # x
    BY DEF BrokerInv, StreamInv, StreamIntact
  <2>4. owed' = owed
    BY <1>1
  <2>5. \A x \in Conn : \A k \in OpenSlots' : ConnOf(k)' = x =>
            (got'[x] \o sockout'[x]) \o PendingBytes(clients[k])' = owed'[x]
    <3> SUFFICES ASSUME NEW x \in Conn, NEW k \in OpenSlots', ConnOf(k)' = x
                 PROVE  (got'[x] \o sockout'[x]) \o PendingBytes(clients[k])' = owed'[x]
      OBVIOUS
    <3>1. k \in OpenSlots /\ ConnOf(k) = x /\ PendingBytes(clients[k])' = PendingBytes(clients[k])
      BY <1>10, <2>1, <2>2
    <3>2. (got[x] \o sockout[x]) \o PendingBytes(clients[k]) = owed[x]
      BY <2>3, <3>1
    <3>3. got'[x] \o sockout'[x] = got[x] \o sockout[x]
      BY <1>9
    <3> QED BY <2>4, <3>1, <3>2, <3>3, Zenon
  <2>6. \A x \in Conn :
          /\ got'[x] \o sockout'[x] = SubSeq(owed'[x], 1, Len(got'[x] \o sockout'[x]))
          /\ Len(got'[x] \o sockout'[x]) <= Len(owed'[x])
          /\ \A m \in DOMAIN owed'[x] : owed'[x][m].src # x
    <3> TAKE x \in Conn
    <3>1. got'[x] \o sockout'[x] = got[x] \o sockout[x]
      BY <1>9
    <3> QED BY <2>3, <2>4, <3>1, Zenon
  <2> QED BY <2>5, <2>6 DEF StreamIntact
<1>15. \A x \in Conn : st'[x] \in {"idle", "backlog"} =>
           got'[x] = e /\ sockout'[x] = e /\ owed'[x] = e
  BY <1>1, <1>2, <1>6, Zenon
<1>16. StreamInv'
  BY <1>14, <1>15 DEF StreamInv, e
<1> QED BY <1>11, <1>12, <1>13, <1>16 DEF BrokerInv

(* A new connection joins the end of the backlog.                          *)
LEMMA ConnectKeeps == ASSUME BrokerInv, NEW c \in Conn, Connect(c) PROVE BrokerInv'
<1>1. /\ st[c] = "idle" /\ st' = [st EXCEPT ![c] = "backlog"] /\ backlog' = Append(backlog, c)
      /\ UNCHANGED <<stop, pc, i, result, clients, next_client_id, pfds, lready, owed, snap,
                     fdt, sent, rd, fin, rst, sockout, got>>
  BY DEF Connect, procVars, peerVars
<1>2. /\ backlog \in Seq(Conn) /\ st \in [Conn -> {"idle", "backlog", "open", "closed"}]
      /\ fdt \in [Fd -> Conn \cup {NoConn}]
  BY DEF BrokerInv, TypeOK
<1>3. backlog' \in Seq(Conn) /\ st' \in [Conn -> {"idle", "backlog", "open", "closed"}]
  BY <1>1, <1>2
<1>4. BacklogInv'
  <2>1. \A m \in DOMAIN backlog : backlog[m] \in Conn /\ st[backlog[m]] = "backlog"
    BY <1>2 DEF BrokerInv, BacklogInv
  <2>2. \A m \in DOMAIN backlog' :
          (m \in DOMAIN backlog /\ backlog'[m] = backlog[m]) \/ (m = Len(backlog) + 1 /\ backlog'[m] = c)
    BY <1>1, <1>2
  <2>3. \A m \in DOMAIN backlog : backlog[m] # c
    BY <1>1, <2>1
  <2>4. \A m \in DOMAIN backlog' : st'[backlog'[m]] = "backlog"
    BY <1>1, <1>2, <2>1, <2>2
  <2>5. \A m \in DOMAIN backlog, n \in DOMAIN backlog : backlog[m] = backlog[n] => m = n
    BY DEF BrokerInv, BacklogInv
  <2>6. \A m \in DOMAIN backlog', n \in DOMAIN backlog' : backlog'[m] = backlog'[n] => m = n
    BY <2>2, <2>3, <2>5
  <2> QED BY <2>4, <2>6 DEF BacklogInv
<1>5. OpenSlots' = OpenSlots /\ \A k \in Slot : ConnOf(k)' = ConnOf(k)
  BY <1>1 DEF OpenSlots, ConnOf
<1>6. TypeOK'
  BY <1>1, <1>3 DEF BrokerInv, TypeOK
<1>7. QueueBounded' /\ TableInv'
  BY <1>1, <1>2 DEF BrokerInv, QueueBounded, TableInv
<1>8. DescriptorsOwned'
  <2>1. \A k \in OpenSlots : k \in Slot
    BY DEF OpenSlots
  <2>2. \A x \in Conn : st'[x] = "open" <=> st[x] = "open"
    BY <1>1, <1>2
  <2> QED BY <1>1, <1>5, <2>1, <2>2 DEF BrokerInv, DescriptorsOwned
<1>9. RoundInv'
  <2>1. backlog' # <<>>
    BY <1>1, <1>2
  <2> QED BY <1>1, <2>1 DEF BrokerInv, RoundInv
<1>10. StreamInv'
  <2>1. \A x \in Conn : st'[x] \in {"idle", "backlog"} => st[x] \in {"idle", "backlog"}
    BY <1>1, <1>2
  <2> QED BY <1>1, <1>5, <2>1, StreamsKept DEF OpenSlots
<1> QED BY <1>4, <1>6, <1>7, <1>8, <1>9, <1>10 DEF BrokerInv

-----------------------------------------------------------------------------
(* The theorems.                                                           *)

(* No step of the loop, of the kernel or of a peer leads out of the        *)
(* inductive invariant.                                                    *)
LEMMA StepKeeps == BrokerInv /\ [Next]_vars => BrokerInv'
<1> SUFFICES ASSUME BrokerInv, [Next]_vars PROVE BrokerInv'
  OBVIOUS
<1>1. CASE Poll
  BY <1>1, PollKeeps
<1>2. CASE Shutdown \/ PollFails
  <2>1. result \in {0, 1}
    BY DEF BrokerInv, TypeOK
  <2>2. Cleanup /\ result' \in {0, 1}
    BY <1>2, <2>1 DEF Shutdown, PollFails
  <2> QED BY <2>2, CleanupKeeps
<1>3. CASE NoAccept
  BY <1>3, NoAcceptKeeps
<1>4. CASE AcceptDenied
  BY <1>4, AcceptDeniedKeeps
<1>5. CASE AcceptFull
  BY <1>5, AcceptFullKeeps
<1>6. CASE AcceptClient
  BY <1>6, AcceptClientKeeps
<1>7. CASE SkipClient \/ NoInput
  BY <1>7, SkipKeeps
<1>8. CASE DropBroken \/ ReadEnds \/ FormatFails
  BY <1>8, DropBrokenKeeps
<1>9. CASE Flush
  BY <1>9, FlushKeeps
<1>10. CASE Relay
  BY <1>10, RelayKeeps
<1>11. CASE \E c \in Conn : Peer(c)
  <2> PICK c \in Conn : Peer(c)
    BY <1>11
  <2> QED BY ConnectKeeps, PeerSignalKeeps, PeerReadKeeps DEF Peer
<1>12. CASE Signal \/ Terminated \/ UNCHANGED vars
  BY <1>12, SignalKeeps DEF Terminated
<1> QED
  BY <1>1, <1>2, <1>3, <1>4, <1>5, <1>6, <1>7, <1>8, <1>9, <1>10, <1>11, <1>12
  DEF Next, BrokerStep

(* The inductive invariant holds in every reachable state.                 *)
LEMMA BrokerInvariant == Spec => []BrokerInv
<1>1. QED BY InitialState, StepKeeps, PTL DEF Spec

(* The variables keep their types and out_off never passes out_len, for    *)
(* every number of clients, descriptors and connections.                   *)
THEOREM TypeCorrect == Spec => []TypeOK
<1>1. BrokerInv => TypeOK
  BY DEF BrokerInv
<1> QED BY <1>1, BrokerInvariant, PTL

(* queue_bytes and flush_client keep every client's buffer within          *)
(* --broker-buffer, and drop_client leaves nothing behind.                 *)
THEOREM MemoryBounded == Spec => []QueueBounded
<1>1. BrokerInv => QueueBounded
  BY DEF BrokerInv
<1> QED BY <1>1, BrokerInvariant, PTL

(* No descriptor is leaked, shared by two slots or used after close().     *)
THEOREM NoDescriptorLeak == Spec => []DescriptorsOwned
<1>1. BrokerInv => DescriptorsOwned
  BY DEF BrokerInv
<1> QED BY <1>1, BrokerInvariant, PTL

(* The client loop never acts on revents of a connection that has since    *)
(* been replaced under the same descriptor number. When accept() follows   *)
(* poll() directly, a number it hands out is one poll() was not asked for. *)
THEOREM RoundsAreFresh == Spec => []EventsAreFresh
<1>1. BrokerInv => EventsAreFresh
  <2> SUFFICES ASSUME BrokerInv, pc \in {"accept", "flush", "read"},
                      NEW k \in OpenSlots, pfds[clients[k].fd] # {}
               PROVE  ConnOf(k) = snap[clients[k].fd]
    BY DEF EventsAreFresh
  <2>1. clients[k].fd \in Fd
    BY DEF OpenSlots, BrokerInv, TypeOK, ClientRecord
  <2>2. ConnOf(k) \in Conn
    BY DEF BrokerInv, DescriptorsOwned
  <2> QED BY <2>1, <2>2, ConnAssumption DEF BrokerInv, RoundInv, ConnOf
<1> QED BY <1>1, BrokerInvariant, PTL

(* Every client receives exactly what the others sent since it joined, in  *)
(* the order it was read, through any mix of partial writes, compaction    *)
(* and drops; never its own bytes.                                         *)
THEOREM RelayIsExact == Spec => []StreamIntact
<1>1. BrokerInv => StreamIntact
  BY DEF BrokerInv, StreamInv
<1> QED BY <1>1, BrokerInvariant, PTL


-----------------------------------------------------------------------------
(* Labels. As long as fewer connections come than there are ids, the ids   *)
(* identify: the counter, an unsigned int in the build, does not come      *)
(* round.                                                                  *)

(* The connections that were accepted or refused, and the ids given.       *)
Met == {c \in Conn : st[c] \in {"open", "closed"}}
GivenIds == IF next_client_id = 0 THEN 1..(IdMod - 1) ELSE 1..(next_client_id - 1)

(* A label with id n was sent for connection c.                            *)
Shown(n, c) ==
    \E d \in Conn : \E m \in DOMAIN owed[d] :
        owed[d][m].kind = "label" /\ owed[d][m].n = n /\ owed[d][m].src = c

(* The counter has not come round while there are connections to accept,   *)
(* so every client has an id of its own, and no earlier label shows that   *)
(* of another one.                                                         *)
CountInv ==
    IF next_client_id = 0 THEN Met = Conn ELSE next_client_id <= Cardinality(Met) + 1
IdInv ==
    \A k \in OpenSlots :
        /\ clients[k].id \in GivenIds
        /\ \A m \in OpenSlots : clients[m].id = clients[k].id => m = k
LabelInv ==
    \A n, c : Shown(n, c) =>
        /\ n \in GivenIds
        /\ \A k \in OpenSlots : clients[k].id = n => ConnOf(k) = c
Identify == \A n, c, d : Shown(n, c) /\ Shown(n, d) => c = d
NamesInv == CountInv /\ IdInv /\ LabelInv /\ Identify

(* A step that gives no id: clients may leave, the others keep theirs.     *)
SlotsKept ==
    /\ UNCHANGED next_client_id /\ Met \subseteq Met' /\ OpenSlots' \subseteq OpenSlots
    /\ \A d \in Conn : st'[d] = "open" => st[d] = "open"
    /\ \A k \in OpenSlots' : clients'[k].id = clients[k].id /\ ConnOf(k)' = ConnOf(k)

(* One in which, besides, nothing is said.                                 *)
Silent ==
    /\ SlotsKept /\ UNCHANGED owed
    /\ \A k \in OpenSlots' : clients'[k].line_start = clients[k].line_start

(* Labels are sent of clients that are there.                              *)
NamesKept ==
    /\ SlotsKept
    /\ \A n, c : Shown(n, c)' =>
          Shown(n, c) \/ \E k \in OpenSlots : n = clients[k].id /\ c = ConnOf(k)

(* It keeps the invariant.                                                 *)
LEMMA KeptNames ==
  ASSUME IsFiniteSet(Conn), BrokerInv, NamesInv, NamesKept
  PROVE  NamesInv'
<1>1. GivenIds' = GivenIds
  BY DEF GivenIds, NamesKept, SlotsKept
<1>2. CountInv'
  <2>1. IsFiniteSet(Met') /\ Met' \subseteq Conn /\ Met \subseteq Met'
    BY FS_Subset DEF Met, NamesKept, SlotsKept
  <2>2. Cardinality(Met) <= Cardinality(Met') /\ Cardinality(Met) \in Nat /\ Cardinality(Met') \in Nat
    BY <2>1, FS_Subset, FS_CardinalityType
  <2>3. next_client_id' = next_client_id /\ next_client_id \in Nat
    BY SizesAssumption DEF NamesKept, SlotsKept, BrokerInv, TypeOK
  <2>4. Met = Conn => Met' = Conn
    BY <2>1
  <2> QED BY <2>2, <2>3, <2>4 DEF NamesInv, CountInv
<1>3. IdInv'
  BY <1>1 DEF NamesInv, IdInv, NamesKept, SlotsKept
<1>4. LabelInv'
  <2> SUFFICES ASSUME NEW n, NEW c, Shown(n, c)'
               PROVE  /\ n \in GivenIds
                      /\ \A k \in OpenSlots' : clients'[k].id = n => ConnOf(k)' = c
    BY <1>1 DEF LabelInv
  <2>1. n \in GivenIds /\ \A k \in OpenSlots : clients[k].id = n => ConnOf(k) = c
    BY DEF NamesKept, NamesInv, LabelInv, IdInv
  <2> QED BY <2>1 DEF NamesKept, SlotsKept
<1>5. Identify'
  <2> SUFFICES ASSUME NEW n, NEW c, NEW d, Shown(n, c)', Shown(n, d)' PROVE c = d
    BY DEF Identify
  <2> QED BY DEF NamesKept, NamesInv, LabelInv, IdInv, Identify
<1> QED BY <1>2, <1>3, <1>4, <1>5 DEF NamesInv

(* Closing some slots leaves the others their connections.                 *)
LEMMA OthersStay ==
  ASSUME BrokerInv, NEW S \in SUBSET OpenSlots, CloseSlots(S),
         \A k \in S : clients'[k].fd = NoFd,
         \A k \in Slot \ S : clients'[k].fd = clients[k].fd
  PROVE  /\ Met \subseteq Met' /\ OpenSlots' \subseteq OpenSlots
         /\ \A k \in OpenSlots' : k \notin S /\ ConnOf(k)' = ConnOf(k)
         /\ \A d \in Conn : st'[d] = "open" => st[d] = "open"
<1>1. Met \subseteq Met' /\ \A d \in Conn : st'[d] = "open" => st[d] = "open"
  BY DEF Met, CloseSlots
<1>2. OpenSlots' = OpenSlots \ S
  BY DEF OpenSlots
<1>3. ASSUME NEW k \in OpenSlots \ S PROVE ConnOf(k)' = ConnOf(k)
  <2>1. clients'[k].fd = clients[k].fd /\ clients[k].fd \in Fd
    BY DEF OpenSlots, BrokerInv, TypeOK, ClientRecord
  <2>2. \A m \in S : clients[m].fd # clients[k].fd
    BY DEF BrokerInv, DescriptorsOwned
  <2>3. fdt'[clients[k].fd] = fdt[clients[k].fd]
    BY <2>1, <2>2 DEF CloseSlots
  <2> QED BY <2>1, <2>3 DEF ConnOf
<1> QED BY <1>1, <1>2, <1>3

(* A step that leaves slots, descriptors and labels alone.                 *)
LEMMA QuietSlots ==
  ASSUME BrokerInv, UNCHANGED <<clients, next_client_id, fdt, owed>>,
         \A d \in Conn : \/ st'[d] = st[d] \/ st'[d] = "closed"
                         \/ st[d] = "idle" /\ st'[d] = "backlog"
  PROVE  Silent
<1>1. OpenSlots' = OpenSlots /\ \A k \in Slot : ConnOf(k)' = ConnOf(k)
  BY DEF OpenSlots, ConnOf
<1>2. Met \subseteq Met' /\ \A d \in Conn : st'[d] = "open" => st[d] = "open"
  BY DEF Met
<1> QED BY <1>1, <1>2 DEF Silent, SlotsKept, OpenSlots

(* A client is dropped.                                                    *)
LEMMA DropSlots ==
  ASSUME BrokerInv, NEW S \in SUBSET OpenSlots, drop_client(S), UNCHANGED <<next_client_id, owed>>
  PROVE  Silent
<1>1. /\ \A k \in S : clients'[k].fd = NoFd
      /\ \A k \in Slot \ S : clients'[k] = clients[k]
  BY DEF drop_client, client_init, OpenSlots
<1>2. /\ Met \subseteq Met' /\ OpenSlots' \subseteq OpenSlots
      /\ \A k \in OpenSlots' : k \notin S /\ ConnOf(k)' = ConnOf(k)
      /\ \A d \in Conn : st'[d] = "open" => st[d] = "open"
  BY <1>1, OthersStay DEF drop_client
<1> QED BY <1>1, <1>2 DEF Silent, SlotsKept, OpenSlots

(* The loop ends.                                                          *)
LEMMA CleanupSlots ==
  ASSUME BrokerInv, Cleanup
  PROVE  Silent
<1>1. UNCHANGED <<next_client_id, owed>>
  BY DEF Cleanup
<1>2. \A k \in Slot : clients'[k].fd = NoFd
  BY DEF Cleanup, client_init, OpenSlots, BrokerInv, TypeOK
<1>3. OpenSlots' = {}
  BY <1>2 DEF OpenSlots
<1>4. Met \subseteq Met' /\ \A d \in Conn : st'[d] = "open" => st[d] = "open"
  BY DEF Met, Cleanup
<1> QED BY <1>1, <1>3, <1>4 DEF Silent, SlotsKept

(* Part of a queue is written.                                             *)
LEMMA FlushSlots ==
  ASSUME BrokerInv, Flush
  PROVE  Silent
<1>1. UNCHANGED <<next_client_id, owed, fdt, st>> /\ i \in Slot /\ clients \in [Slot -> ClientRecord]
  BY DEF Flush, kernelVars, BrokerInv, TypeOK
<1>2. \A n : /\ flush_client(clients[i], n).fd = clients[i].fd
             /\ flush_client(clients[i], n).id = clients[i].id
             /\ flush_client(clients[i], n).line_start = clients[i].line_start
  BY <1>1 DEF flush_client, ClientRecord
<1>3. clients' = clients \/ \E n : clients' = [clients EXCEPT ![i] = flush_client(clients[i], n)]
  BY DEF Flush
<1>4. \A k \in Slot : /\ clients'[k].fd = clients[k].fd /\ clients'[k].id = clients[k].id
                      /\ clients'[k].line_start = clients[k].line_start
  BY <1>1, <1>2, <1>3
<1>5. OpenSlots' = OpenSlots /\ \A k \in Slot : ConnOf(k)' = ConnOf(k)
  BY <1>1, <1>4 DEF OpenSlots, ConnOf
<1>6. Met' = Met
  BY <1>1 DEF Met
<1> QED BY <1>1, <1>4, <1>5, <1>6 DEF Silent, SlotsKept, OpenSlots

(* A client is accepted, something is relayed, or the step is silent.      *)
LEMMA StepIsSilent ==
  ASSUME BrokerInv, [Next]_vars, ~AcceptClient, ~Relay
  PROVE  Silent
<1>1. CASE UNCHANGED <<clients, next_client_id, fdt, owed, st>>
  BY <1>1, QuietSlots
<1>2. CASE Flush
  BY <1>2, FlushSlots
<1>3. CASE Shutdown \/ PollFails
  BY <1>3, CleanupSlots DEF Shutdown, PollFails
<1>4. CASE DropBroken \/ ReadEnds \/ FormatFails
  <2>1. i \in Slot /\ clients[i].fd # NoFd
    BY <1>4 DEF DropBroken, Served, ReadEnds, FormatFails, BrokerInv, RoundInv, TypeOK
  <2>2. {i} \in SUBSET OpenSlots /\ drop_client({i}) /\ UNCHANGED <<next_client_id, owed>>
    BY <1>4, <2>1 DEF DropBroken, ReadEnds, FormatFails, OpenSlots
  <2> QED BY <2>2, DropSlots
<1>5. CASE Poll \/ NoAccept \/ SkipClient \/ NoInput
  BY <1>1, <1>5 DEF Poll, NoAccept, SkipClient, NoInput, kernelVars
<1>6. CASE AcceptDenied \/ AcceptFull
  <2>1. /\ UNCHANGED <<clients, next_client_id, fdt, owed>>
        /\ \A d \in Conn : st'[d] = st[d] \/ st'[d] = "closed"
    BY <1>6 DEF AcceptDenied, AcceptFull, BrokerInv, TypeOK
  <2> QED BY <2>1, QuietSlots
<1>7. CASE \E c \in Conn : Peer(c)
  <2> PICK c \in Conn : Peer(c)
    BY <1>7
  <2>1. CASE Connect(c)
    <3>1. /\ UNCHANGED <<clients, next_client_id, fdt, owed>>
          /\ \A d \in Conn : st'[d] = st[d] \/ (st[d] = "idle" /\ st'[d] = "backlog")
      BY <2>1 DEF Connect, procVars, BrokerInv, TypeOK
    <3> QED BY <3>1, QuietSlots
  <2>2. CASE PeerSend(c) \/ PeerRead(c) \/ PeerFin(c) \/ PeerReset(c)
    BY <1>1, <2>2 DEF PeerSend, PeerRead, PeerFin, PeerReset, procVars, kernelVars
  <2> QED BY <2>1, <2>2 DEF Peer
<1>8. CASE Signal \/ Terminated \/ UNCHANGED vars
  BY <1>1, <1>8 DEF Signal, Terminated, procVars, kernelVars, vars
<1> QED
  BY <1>2, <1>3, <1>4, <1>5, <1>6, <1>7, <1>8 DEF Next, BrokerStep

(* What one read becomes: bytes of its sender; its labels show the         *)
(* sender's id and stand where lines begin, and the new line_start says    *)
(* whether it ends a line.                                                 *)
LEMMA RelayedMessage ==
  ASSUME BrokerInv, pc = "read", sent[ConnOf(i)] > rd[ConnOf(i)]
  PROVE  LET c == ConnOf(i)
             buf == Chunk(c, rd[c] + 1, rd[c] + InputLen(c))
             msg == IF Chat THEN FormatChat(clients[i].id, clients[i].line_start, buf) ELSE buf
         IN  /\ i \in OpenSlots /\ c \in Conn /\ msg \in Seq({x \in Item : x.src = c})
             /\ \A m \in DOMAIN msg : msg[m].kind = "label" => msg[m].n = clients[i].id
             /\ Chat => \E last : /\ ChatMessage(msg, clients[i].id, clients[i].line_start, last)
                                  /\ LineStartAfter(clients[i], buf) <=> last = "nl"
<1> DEFINE c == ConnOf(i)
           a == rd[c] + 1
           b == rd[c] + InputLen(c)
           fmt == FormatChat(clients[i].id, clients[i].line_start, Chunk(c, a, b))
<1>1. i \in Slot /\ i \in OpenSlots /\ c \in Conn
  BY DEF OpenSlots, BrokerInv, RoundInv, DescriptorsOwned, TypeOK
<1>2. clients[i].id \in 0..(IdMod - 1) /\ clients[i].line_start \in BOOLEAN
  BY <1>1 DEF BrokerInv, TypeOK, ClientRecord
<1>3. rd[c] \in Nat /\ sent[c] \in Nat /\ sent[c] <= Len(Script[c]) /\ Len(Script[c]) \in Nat
  BY <1>1, ConnAssumption DEF BrokerInv, TypeOK
<1>4. InputLen(c) \in Nat /\ InputLen(c) >= 1 /\ InputLen(c) <= sent[c] - rd[c]
  BY <1>3, SizesAssumption DEF InputLen, Least
<1>5. /\ a \in Nat /\ b \in Nat /\ 1 <= a /\ a <= b /\ b <= Len(Script[c])
      /\ a \in 1..Len(Script[c]) /\ b \in a..Len(Script[c])
  BY <1>3, <1>4
<1> HIDE DEF a, b, c
<1>6. Chunk(c, a, b) \in Seq({x \in Item : x.src = c})
  BY <1>1, <1>5, ChunkType
<1>7. \A m \in DOMAIN Chunk(c, a, b) : Chunk(c, a, b)[m].kind # "label"
  <2>1. \A k \in a..b : Script[c][k] \in {"text", "nl", "ctl"}
    BY <1>1, <1>5, ConnAssumption
  <2>2. \A k \in 1..(b - a + 1) : a + k - 1 \in a..b
    BY <1>5
  <2> QED BY <2>1, <2>2 DEF Chunk, Byte
<1>8. fmt \in Seq({x \in Item : x.src = c})
  BY <1>1, <1>2, <1>5, FormatAssumption
<1>9. ChatMessage(fmt, clients[i].id, clients[i].line_start, Script[c][b])
  BY <1>1, <1>2, <1>5, LabelAssumption
<1>10. \A m \in DOMAIN fmt : fmt[m].kind = "label" => fmt[m].n = clients[i].id
  BY <1>9 DEF ChatMessage
<1>11. LineStartAfter(clients[i], Chunk(c, a, b)) <=> Script[c][b] = "nl"
  <2>1. b - a + 1 \in 1..(b - a + 1) /\ a + (b - a + 1) - 1 = b /\ b - a + 1 \in Nat
    BY <1>5
  <2>2. Len(Chunk(c, a, b)) = b - a + 1
    BY <2>1 DEF Chunk
  <2>3. Chunk(c, a, b)[b - a + 1].kind = Script[c][b]
    BY <2>1 DEF Chunk, Byte
  <2> QED BY <2>2, <2>3 DEF LineStartAfter
<1> HIDE DEF fmt
<1>12. fmt = FormatChat(clients[i].id, clients[i].line_start, Chunk(c, a, b))
  BY DEF fmt
<1> QED BY <1>1, <1>6, <1>7, <1>8, <1>9, <1>10, <1>11, <1>12 DEF a, b, c

(* What the fan-out of msg, sent by slot i, does to slots and streams.     *)
Says(msg) ==
    /\ SlotsKept /\ i \in OpenSlots /\ ConnOf(i) \in Conn
    /\ msg \in Seq({x \in Item : x.src = ConnOf(i)})
    /\ \A m \in DOMAIN msg : msg[m].kind = "label" => msg[m].n = clients[i].id
    /\ owed' = [d \in Conn |-> IF st[d] = "open" /\ d # ConnOf(i) THEN owed[d] \o msg
                                                                 ELSE owed[d]]
    /\ \A k \in OpenSlots' : k # i => clients'[k].line_start = clients[k].line_start
    /\ Chat => \E last : /\ ChatMessage(msg, clients[i].id, clients[i].line_start, last)
                         /\ clients'[i].line_start <=> last = "nl"

(* The fan-out.                                                            *)
LEMMA RelaySays ==
  ASSUME BrokerInv, Relay
  PROVE  \E msg : Says(msg)
<1> DEFINE c == ConnOf(i)
           n == InputLen(c)
           buf == Chunk(c, rd[c] + 1, rd[c] + n)
           msg == IF Chat THEN FormatChat(clients[i].id, clients[i].line_start, buf) ELSE buf
           others == OpenSlots \ {i}
           ls == LineStartAfter(clients[i], buf)
<1>1. pc = "read" /\ sent[c] > rd[c] /\ UNCHANGED next_client_id
  BY DEF Relay
<1>2. PICK nomem :
        LET slow == {k \in others : Overflows(clients[k], msg) \/ k \in nomem}
        IN  /\ clients' = [k \in Slot |->
                   IF k = i /\ Chat THEN [clients[k] EXCEPT !.line_start = ls]
                   ELSE IF k \in slow THEN client_init
                   ELSE IF k \in others THEN queue_bytes(clients[k], msg)
                   ELSE clients[k]]
            /\ CloseSlots(slow)
            /\ owed' = [d \in Conn |-> IF st[d] = "open" /\ d # c THEN owed[d] \o msg
                                                                  ELSE owed[d]]
  BY DEF Relay
<1> DEFINE slow == {k \in others : Overflows(clients[k], msg) \/ k \in nomem}
<1>3. /\ i \in OpenSlots /\ c \in Conn /\ msg \in Seq({x \in Item : x.src = c})
      /\ \A m \in DOMAIN msg : msg[m].kind = "label" => msg[m].n = clients[i].id
      /\ Chat => \E last : /\ ChatMessage(msg, clients[i].id, clients[i].line_start, last)
                           /\ ls <=> last = "nl"
  BY <1>1, RelayedMessage
<1>4. clients \in [Slot -> ClientRecord] /\ owed \in [Conn -> Seq(Item)]
  BY DEF BrokerInv, TypeOK
<1> HIDE DEF msg, buf, n, ls, c
<1>5. slow \in SUBSET OpenSlots /\ i \notin slow /\ OpenSlots \subseteq Slot
  BY DEF OpenSlots
<1>6. \A k \in slow : clients'[k].fd = NoFd
  BY <1>2, <1>5 DEF client_init
<1>7. ASSUME NEW k \in Slot \ slow
      PROVE  /\ clients'[k].fd = clients[k].fd /\ clients'[k].id = clients[k].id
             /\ k # i => clients'[k].line_start = clients[k].line_start
  <2>1. clients[k] \in ClientRecord
    BY <1>4
  <2>2. /\ queue_bytes(clients[k], msg).fd = clients[k].fd
        /\ queue_bytes(clients[k], msg).id = clients[k].id
        /\ queue_bytes(clients[k], msg).line_start = clients[k].line_start
    BY <2>1 DEF queue_bytes, ClientRecord
  <2>3. /\ [clients[k] EXCEPT !.line_start = ls].fd = clients[k].fd
        /\ [clients[k] EXCEPT !.line_start = ls].id = clients[k].id
    BY <2>1 DEF ClientRecord
  <2>4. \/ k = i /\ clients'[k] = [clients[k] EXCEPT !.line_start = ls]
        \/ clients'[k] = queue_bytes(clients[k], msg)
        \/ clients'[k] = clients[k]
    BY <1>2
  <2> QED BY <2>2, <2>3, <2>4
<1>8. /\ Met \subseteq Met' /\ OpenSlots' \subseteq OpenSlots
      /\ \A k \in OpenSlots' : k \notin slow /\ ConnOf(k)' = ConnOf(k)
      /\ \A d \in Conn : st'[d] = "open" => st[d] = "open"
  <2>1. CloseSlots(slow)
    BY <1>2
  <2> HIDE DEF slow
  <2> QED BY <1>5, <1>6, <1>7, <2>1, OthersStay
<1>9. Chat => clients'[i].line_start = ls
  <2>1. i \in Slot /\ clients[i] \in ClientRecord
    BY <1>3, <1>4, <1>5
  <2>2. [clients[i] EXCEPT !.line_start = ls].line_start = ls
    BY <2>1 DEF ClientRecord
  <2> QED BY <1>2, <2>1, <2>2
<1>10. \A k \in OpenSlots' : k \in Slot \ slow
  BY <1>5, <1>8
<1>11. SlotsKept
  BY <1>1, <1>7, <1>8, <1>10 DEF SlotsKept
<1>12. Says(msg)
  BY <1>2, <1>3, <1>7, <1>9, <1>10, <1>11 DEF Says, c
<1> QED BY <1>12

(* Its labels are those of a client that is there.                         *)
LEMMA RelayNames ==
  ASSUME BrokerInv, Relay
  PROVE  NamesKept
<1> PICK msg : Says(msg)
  BY RelaySays
<1>1. owed \in [Conn -> Seq(Item)]
  BY DEF BrokerInv, TypeOK
<1>2. ASSUME NEW id, NEW s, Shown(id, s)'
      PROVE  Shown(id, s) \/ (id = clients[i].id /\ s = ConnOf(i))
  <2>0. PICK d \in Conn : \E x \in DOMAIN owed'[d] :
            owed'[d][x].kind = "label" /\ owed'[d][x].n = id /\ owed'[d][x].src = s
    BY <1>2 DEF Shown
  <2>1. PICK m \in DOMAIN owed'[d] :
            owed'[d][m].kind = "label" /\ owed'[d][m].n = id /\ owed'[d][m].src = s
    BY <2>0
  <2>2. owed'[d] = owed[d] \/ owed'[d] = owed[d] \o msg
    BY DEF Says
  <2>3. CASE owed'[d] = owed[d]
    BY <2>1, <2>3 DEF Shown
  <2>4. CASE owed'[d] = owed[d] \o msg
    <3>1. owed[d] \in Seq(Item) /\ msg \in Seq(Item) /\ \A x \in DOMAIN msg : msg[x].src = ConnOf(i)
      BY <1>1 DEF Says
    <3>2. /\ Len(owed[d] \o msg) = Len(owed[d]) + Len(msg) /\ Len(owed[d]) \in Nat /\ Len(msg) \in Nat
          /\ DOMAIN owed[d] = 1..Len(owed[d]) /\ DOMAIN msg = 1..Len(msg)
          /\ m \in 1..(Len(owed[d]) + Len(msg))
          /\ (owed[d] \o msg)[m] = IF m <= Len(owed[d]) THEN owed[d][m] ELSE msg[m - Len(owed[d])]
      BY <2>1, <2>4, <3>1
    <3>3. CASE m <= Len(owed[d])
      <4>1. m \in DOMAIN owed[d] /\ owed'[d][m] = owed[d][m]
        BY <2>4, <3>2, <3>3
      <4> QED BY <2>1, <4>1 DEF Shown
    <3>4. CASE m > Len(owed[d])
      <4>1. m - Len(owed[d]) \in DOMAIN msg /\ owed'[d][m] = msg[m - Len(owed[d])]
        BY <2>4, <3>2, <3>4
      <4> QED BY <2>1, <3>1, <4>1 DEF Says
    <3> QED BY <3>2, <3>3, <3>4
  <2> QED BY <2>2, <2>3, <2>4
<1> QED BY <1>2 DEF NamesKept, Says

(* A client is accepted: its id is new.                                    *)
LEMMA AcceptNames ==
  ASSUME IsFiniteSet(Conn), Cardinality(Conn) < IdMod, BrokerInv, NamesInv, AcceptClient
  PROVE  NamesInv'
<1> DEFINE c == Head(backlog)
           id == next_client_id
<1>1. /\ pc = "accept" /\ lready /\ UNCHANGED owed
      /\ st' = [st EXCEPT ![c] = "open"]
      /\ id' = (id + 1) % IdMod
  BY DEF AcceptClient
<1>2. PICK k \in FreeSlots, fd \in FreeFds :
          clients' = Joined(k, fd) /\ fdt' = [fdt EXCEPT ![fd] = c]
  BY DEF AcceptClient, Lowest
<1>3. /\ backlog \in Seq(Conn) /\ backlog # <<>>
      /\ st \in [Conn -> {"idle", "backlog", "open", "closed"}]
      /\ fdt \in [Fd -> Conn \cup {NoConn}] /\ clients \in [Slot -> ClientRecord]
      /\ id \in 0..(IdMod - 1)
  BY <1>1 DEF BrokerInv, TypeOK, RoundInv
<1>4. c = backlog[1] /\ c \in Conn /\ 1 \in DOMAIN backlog
  BY <1>3
<1>5. st[c] = "backlog"
  BY <1>4 DEF BrokerInv, BacklogInv
<1> HIDE DEF c
<1>6. c \notin Met /\ Met' = Met \cup {c}
  BY <1>1, <1>3, <1>4, <1>5 DEF Met
<1>7. /\ IsFiniteSet(Met) /\ Met' \subseteq Conn /\ Cardinality(Met') = Cardinality(Met) + 1
      /\ Cardinality(Met) \in Nat /\ Cardinality(Conn) \in Nat
      /\ Cardinality(Met') <= Cardinality(Conn) /\ (Cardinality(Met') = Cardinality(Conn) => Met' = Conn)
  <2>1. Met \in SUBSET Conn /\ Met' \in SUBSET Conn
    BY DEF Met
  <2>2. IsFiniteSet(Met)
    BY <2>1, FS_Subset
  <2>3. /\ Cardinality(Met') <= Cardinality(Conn)
        /\ Cardinality(Conn) = Cardinality(Met') => Conn = Met'
    BY <2>1, FS_Subset
  <2>4. Cardinality(Met \cup {c}) = Cardinality(Met) + 1
    BY <1>6, <2>2, FS_AddElement
  <2> QED BY <1>6, <2>1, <2>2, <2>3, <2>4, FS_CardinalityType
<1>8. id # 0 /\ id <= Cardinality(Met) + 1 /\ id \in 1..(IdMod - 1)
  <2>1. Met # Conn
    BY <1>4, <1>6
  <2> QED BY <1>3, <2>1, SizesAssumption DEF NamesInv, CountInv
<1>9. GivenIds = 1..(id - 1) /\ GivenIds' = 1..id /\ CountInv'
  <2>1. GivenIds = 1..(id - 1)
    BY <1>8 DEF GivenIds
  <2>2. CASE id + 1 < IdMod
    <3>1. id' = id + 1
      BY <1>1, <1>8, <2>2, SizesAssumption
    <3>2. id' # 0 /\ id' - 1 = id /\ id' <= Cardinality(Met') + 1
      BY <1>7, <1>8, <3>1
    <3> QED BY <2>1, <3>2 DEF GivenIds, CountInv
  <2>3. CASE id + 1 = IdMod
    <3>1. id' = 0
      BY <1>1, <2>3, SizesAssumption
    <3>2. IdMod - 1 = id /\ Met' = Conn
      BY <1>3, <1>7, <1>8, <2>3, SizesAssumption
    <3> QED BY <2>1, <3>1, <3>2 DEF GivenIds, CountInv
  <2> QED BY <1>8, <2>2, <2>3, SizesAssumption
<1>10. k \in Slot /\ k \notin OpenSlots /\ fd \in Fd /\ fdt[fd] = NoConn
  BY DEF FreeSlots, FreeFds
<1>11. /\ clients'[k].id = id
       /\ \A m \in Slot : m # k => clients'[m] = clients[m]
  <2>1. clients[k] \in ClientRecord
    BY <1>3, <1>10
  <2> QED BY <1>2, <1>3, <1>10, <2>1 DEF Joined, ClientRecord
<1>12. OpenSlots' \subseteq OpenSlots \cup {k}
  BY <1>11 DEF OpenSlots
<1>13. \A m \in OpenSlots : ConnOf(m)' = ConnOf(m) /\ m # k /\ clients'[m].id = clients[m].id
  <2> SUFFICES ASSUME NEW m \in OpenSlots
               PROVE  ConnOf(m)' = ConnOf(m) /\ m # k /\ clients'[m].id = clients[m].id
    OBVIOUS
  <2>1. m \in Slot /\ m # k /\ clients'[m] = clients[m]
    BY <1>10, <1>11 DEF OpenSlots
  <2>2. clients[m].fd \in Fd /\ fdt[clients[m].fd] \in Conn
    BY DEF OpenSlots, BrokerInv, TypeOK, ClientRecord, DescriptorsOwned, ConnOf
  <2>3. clients[m].fd # fd
    BY <1>10, <2>2, ConnAssumption
  <2>4. fdt'[clients[m].fd] = fdt[clients[m].fd]
    BY <1>2, <1>3, <2>2, <2>3
  <2> QED BY <2>1, <2>4 DEF ConnOf
<1>14. id \notin GivenIds /\ id \in GivenIds' /\ GivenIds \subseteq GivenIds'
  BY <1>8, <1>9
<1>15. IdInv'
  <2> SUFFICES ASSUME NEW m \in OpenSlots'
               PROVE  /\ clients'[m].id \in GivenIds'
                      /\ \A j \in OpenSlots' : clients'[j].id = clients'[m].id => j = m
    BY DEF IdInv
  <2>1. \A j \in OpenSlots : clients'[j].id \in GivenIds
    BY <1>13 DEF NamesInv, IdInv
  <2>2. CASE m = k
    BY <1>11, <1>12, <1>14, <2>1, <2>2
  <2>3. CASE m \in OpenSlots
    <3>1. clients'[m].id # id
      BY <1>14, <2>1, <2>3
    <3> QED BY <1>11, <1>12, <1>13, <1>14, <2>1, <2>3, <3>1 DEF NamesInv, IdInv
  <2> QED BY <1>12, <2>2, <2>3
<1>16. \A n, s : Shown(n, s)' <=> Shown(n, s)
  BY <1>1 DEF Shown
<1>17. LabelInv'
  <2> SUFFICES ASSUME NEW n, NEW s, Shown(n, s)
               PROVE  /\ n \in GivenIds'
                      /\ \A m \in OpenSlots' : clients'[m].id = n => ConnOf(m)' = s
    BY <1>16 DEF LabelInv
  <2>1. n \in GivenIds /\ \A m \in OpenSlots : clients[m].id = n => ConnOf(m) = s
    BY DEF NamesInv, LabelInv
  <2> QED BY <1>11, <1>12, <1>13, <1>14, <2>1
<1>18. Identify'
  BY <1>16 DEF NamesInv, Identify
<1> QED BY <1>9, <1>15, <1>17, <1>18 DEF NamesInv

(* Any step.                                                               *)
LEMMA NamesStep ==
  ASSUME IsFiniteSet(Conn), Cardinality(Conn) < IdMod
  PROVE  BrokerInv /\ NamesInv /\ [Next]_vars => NamesInv'
<1> SUFFICES ASSUME BrokerInv, NamesInv, [Next]_vars PROVE NamesInv'
  OBVIOUS
<1>1. CASE AcceptClient
  BY <1>1, AcceptNames
<1>2. CASE Relay
  BY <1>2, RelayNames, KeptNames
<1>3. CASE ~AcceptClient /\ ~Relay
  <2>1. Silent
    BY <1>3, StepIsSilent
  <2>2. \A n, c : Shown(n, c)' <=> Shown(n, c)
    BY <2>1 DEF Silent, Shown
  <2> QED BY <2>1, <2>2, KeptNames DEF NamesKept, Silent
<1> QED BY <1>1, <1>2, <1>3

(* At first nobody has an id.                                              *)
LEMMA NamesInit ==
  ASSUME IsFiniteSet(Conn), Cardinality(Conn) < IdMod
  PROVE  Init => NamesInv
<1> SUFFICES ASSUME Init PROVE NamesInv
  OBVIOUS
<1>1. OpenSlots = {} /\ Met = {} /\ \A d \in Conn : owed[d] = <<>>
  BY DEF Init, OpenSlots, client_init, Met
<1>2. \A n, c : ~Shown(n, c)
  BY <1>1 DEF Shown
<1>3. Cardinality(Met) = 0 /\ Cardinality(Conn) \in Nat /\ (Cardinality(Conn) = 0 => Conn = {})
  BY <1>1, FS_EmptySet, FS_CardinalityType
<1>4. CountInv
  <2>1. next_client_id = 1 % IdMod
    BY DEF Init
  <2>2. CASE IdMod = 1
    BY <1>1, <1>3, <2>1, <2>2 DEF CountInv
  <2>3. CASE IdMod > 1
    <3>1. next_client_id = 1
      BY <2>1, <2>3, SizesAssumption
    <3> QED BY <1>3, <3>1 DEF CountInv
  <2> QED BY <2>2, <2>3, SizesAssumption
<1> QED BY <1>1, <1>2, <1>4 DEF NamesInv, IdInv, LabelInv, Identify

(* --chat: as long as fewer than 2^32 connections are made, a label stands *)
(* for one client, although slots and descriptors are used again and ids   *)
(* come from one counter (format_chat_message, wcat_broker_run).           *)
THEOREM LabelsStandForOne ==
  ASSUME IsFiniteSet(Conn), Cardinality(Conn) < IdMod
  PROVE  Spec => []LabelsIdentify
<1>1. NamesInv => LabelsIdentify
  <2> SUFFICES ASSUME NamesInv, NEW d \in Conn, NEW e \in Conn,
                      NEW m \in DOMAIN owed[d], NEW n \in DOMAIN owed[e],
                      owed[d][m].kind = "label", owed[e][n].kind = "label",
                      owed[d][m].n = owed[e][n].n
               PROVE  owed[d][m].src = owed[e][n].src
    BY DEF LabelsIdentify
  <2>1. Shown(owed[d][m].n, owed[d][m].src) /\ Shown(owed[d][m].n, owed[e][n].src)
    BY DEF Shown
  <2> QED BY <2>1 DEF NamesInv, Identify
<1> QED BY <1>1, BrokerInvariant, NamesInit, NamesStep, PTL DEF Spec


-----------------------------------------------------------------------------
(* Lines. The line_start of a client tells how its last byte in every      *)
(* stream was: the next byte of its is judged by that.                     *)

(* The m-th byte of s is the last one of connection c.                     *)
Latest(s, c, m) == s[m].src = c /\ \A j \in DOMAIN s : j > m => s[j].src # c

(* Whose bytes are in a stream has been accepted.                          *)
SenderInv == \A d \in Conn : \A m \in DOMAIN owed[d] : owed[d][m].src \in Met

(* Line_start start is right for the next byte of connection c in s.       *)
Agrees(s, c, start) ==
    \A m \in DOMAIN s : Latest(s, c, m) => s[m].kind # "label" /\ (start <=> s[m].kind = "nl")

LineInv ==
    \A k \in OpenSlots, d \in Conn :
        st[d] = "open" => Agrees(owed[d], ConnOf(k), clients[k].line_start)

(* LinesLabelled of one stream.                                            *)
Labelled(s) ==
    \A m \in DOMAIN s, n \in DOMAIN s :
        Follows(s, m, n) => ((s[n].kind = "label" /\ s[m].kind # "label") <=> s[m].kind = "nl")

LinesInv == SenderInv /\ LineInv /\ \A d \in Conn : Labelled(owed[d])

(* A message of connection c is added to a stream whose last byte of c, if *)
(* there is one, agrees with line_start.                                   *)
LEMMA MessageIsLabelled ==
  ASSUME NEW c, NEW s \in Seq(Item), NEW msg \in Seq(Item), \A m \in DOMAIN msg : msg[m].src = c,
         NEW id, NEW start \in BOOLEAN, NEW last, ChatMessage(msg, id, start, last),
         Labelled(s), Agrees(s, c, start)
  PROVE  /\ Labelled(s \o msg) /\ Agrees(s \o msg, c, last = "nl")
         /\ \A e, b : e # c /\ Agrees(s, e, b) => Agrees(s \o msg, e, b)
<1> DEFINE t == s \o msg
           L == Len(s)
           N == Len(msg)
<1>1. /\ L \in Nat /\ N \in Nat /\ N >= 1 /\ DOMAIN s = 1..L /\ DOMAIN msg = 1..N
      /\ DOMAIN t = 1..(L + N) /\ Len(t) = L + N
  <2>1. msg \in Seq(Item) /\ msg # <<>>
    BY DEF ChatMessage
  <2> QED BY <2>1
<1>2. /\ \A m \in 1..L : t[m] = s[m]
      /\ \A m \in 1..N : t[L + m] = msg[m] /\ t[L + m].src = c
  <2>1. msg \in Seq(Item) /\ \A m \in 1..N : msg[m].src = c
    BY <1>1
  <2>2. /\ \A m \in 1..L : t[m] = s[m]
        /\ \A m \in 1..N : t[L + m] = msg[m]
    BY <1>1, <2>1
  <2> QED BY <2>1, <2>2
<1>3. /\ msg[1].kind = "label" <=> start
      /\ \A m \in 2..N :
            (msg[m].kind = "label" /\ msg[m - 1].kind # "label") <=> msg[m - 1].kind = "nl"
      /\ msg[N].kind # "label" /\ (msg[N].kind = "nl" <=> last = "nl")
  BY DEF ChatMessage
<1>4. \A m \in 1..(L + N) : m > L => m - L \in 1..N /\ t[m] = msg[m - L] /\ t[m].src = c
  <2> SUFFICES ASSUME NEW m \in 1..(L + N), m > L
               PROVE  m - L \in 1..N /\ t[m] = msg[m - L] /\ t[m].src = c
    OBVIOUS
  <2>1. m - L \in 1..N /\ L + (m - L) = m
    BY <1>1
  <2> QED BY <1>2, <2>1
<1> HIDE DEF t, L, N
<1>5. Labelled(t)
  <2> SUFFICES ASSUME NEW m \in 1..(L + N), NEW n \in 1..(L + N), Follows(t, m, n)
               PROVE  (t[n].kind = "label" /\ t[m].kind # "label") <=> t[m].kind = "nl"
    BY <1>1 DEF Labelled
  <2>0. m < n /\ t[n].src = t[m].src /\ \A k \in (m + 1)..(n - 1) : t[k].src # t[m].src
    BY DEF Follows
  <2>1. CASE n <= L
    <3>1. m \in 1..L /\ n \in 1..L /\ \A k \in (m + 1)..(n - 1) : k \in 1..L
      BY <1>1, <2>0, <2>1
    <3>2. t[m] = s[m] /\ t[n] = s[n] /\ \A k \in (m + 1)..(n - 1) : t[k] = s[k]
      BY <1>2, <3>1
    <3>3. Follows(s, m, n)
      BY <2>0, <3>2 DEF Follows
    <3> QED BY <1>1, <3>1, <3>2, <3>3 DEF Labelled
  <2>2. CASE m > L
    <3>1. t[m].src = c /\ t[n].src = c
      BY <1>1, <1>4, <2>0, <2>2
    <3>2. n = m + 1
      <4> SUFFICES ASSUME n # m + 1 PROVE FALSE
        OBVIOUS
      <4>1. m + 1 \in (m + 1)..(n - 1) /\ m + 1 \in 1..(L + N) /\ m + 1 > L
        BY <1>1, <2>0, <2>2
      <4> QED BY <1>4, <2>0, <3>1, <4>1
    <3>3. /\ n - L \in 2..N /\ (n - L) - 1 = m - L
          /\ t[n] = msg[n - L] /\ t[m] = msg[m - L]
      BY <1>1, <1>4, <2>0, <2>2, <3>2
    <3> QED BY <1>3, <3>3
  <2>3. CASE m <= L /\ n > L
    <3>1. t[n].src = c /\ t[m] = s[m] /\ m \in 1..L
      BY <1>1, <1>2, <1>4, <2>3
    <3>2. n = L + 1
      <4> SUFFICES ASSUME n # L + 1 PROVE FALSE
        OBVIOUS
      <4>1. L + 1 \in (m + 1)..(n - 1) /\ L + 1 \in 1..(L + N) /\ L + 1 > L
        BY <1>1, <2>0, <2>3
      <4> QED BY <1>4, <2>0, <3>1, <4>1
    <3>3. Latest(s, c, m)
      <4>1. \A j \in 1..L : j > m => j \in (m + 1)..(n - 1) /\ t[j] = s[j]
        BY <1>1, <1>2, <2>3, <3>2
      <4> QED BY <1>1, <2>0, <3>1, <4>1 DEF Latest
    <3>4. s[m].kind # "label" /\ (start <=> s[m].kind = "nl")
      BY <1>1, <3>1, <3>3 DEF Agrees
    <3>5. t[n] = msg[1]
      BY <1>1, <1>2, <3>2
    <3> QED BY <1>3, <3>1, <3>4, <3>5
  <2> QED BY <1>1, <2>1, <2>2, <2>3
<1>6. ASSUME NEW m \in 1..(L + N), Latest(t, c, m)
      PROVE  t[m].kind # "label" /\ (last = "nl" <=> t[m].kind = "nl")
  <2>1. L + N \in 1..(L + N) /\ L + N > L /\ (L + N) - L = N
    BY <1>1
  <2>2. t[L + N].src = c /\ t[L + N] = msg[N]
    BY <1>4, <2>1
  <2>3. m = L + N
    BY <1>1, <1>6, <2>1, <2>2 DEF Latest
  <2> QED BY <1>3, <2>2, <2>3
<1>7. ASSUME NEW e, NEW m \in 1..(L + N), e # c, Latest(t, e, m)
      PROVE  m \in 1..L /\ t[m] = s[m] /\ Latest(s, e, m)
  <2>1. m \in 1..L /\ t[m] = s[m]
    BY <1>1, <1>2, <1>4, <1>7 DEF Latest
  <2>2. \A j \in 1..L : j \in 1..(L + N) /\ t[j] = s[j]
    BY <1>1, <1>2
  <2> QED BY <1>1, <1>7, <2>1, <2>2 DEF Latest
<1>8. Agrees(t, c, last = "nl")
  BY <1>1, <1>6 DEF Agrees
<1>9. ASSUME NEW e, NEW b, e # c, Agrees(s, e, b) PROVE Agrees(t, e, b)
  BY <1>1, <1>7, <1>9 DEF Agrees
<1> QED BY <1>5, <1>8, <1>9 DEF t

(* A step in which nothing is said.                                        *)
LEMMA SilentLines ==
  ASSUME LinesInv, Silent
  PROVE  LinesInv'
<1>1. SenderInv' /\ \A d \in Conn : Labelled(owed'[d])
  BY DEF LinesInv, SenderInv, Silent, SlotsKept
<1>2. LineInv'
  <2> SUFFICES ASSUME NEW k \in OpenSlots', NEW d \in Conn, st'[d] = "open"
               PROVE  Agrees(owed'[d], ConnOf(k)', clients'[k].line_start)
    BY DEF LineInv
  <2>1. /\ k \in OpenSlots /\ owed' = owed /\ st[d] = "open" /\ ConnOf(k)' = ConnOf(k)
        /\ clients'[k].line_start = clients[k].line_start
    BY DEF Silent, SlotsKept
  <2> QED BY <2>1 DEF LinesInv, LineInv
<1> QED BY <1>1, <1>2 DEF LinesInv

(* A message is sent.                                                      *)
LEMMA RelayLines ==
  ASSUME Chat, BrokerInv, BrokerInv', LinesInv, Relay
  PROVE  LinesInv'
<1> DEFINE c == ConnOf(i)
<1> PICK msg : Says(msg)
  BY RelaySays
<1>1. /\ SlotsKept /\ i \in OpenSlots /\ c \in Conn /\ st[c] = "open"
      /\ clients[i].line_start \in BOOLEAN /\ owed \in [Conn -> Seq(Item)]
  BY DEF Says, BrokerInv, DescriptorsOwned, TypeOK, ClientRecord, OpenSlots
<1>2. msg \in Seq({x \in Item : x.src = c})
  BY DEF Says
<1>3. \A d \in Conn : owed'[d] = IF st[d] = "open" /\ d # c THEN owed[d] \o msg ELSE owed[d]
  BY DEF Says
<1>4. PICK last : /\ ChatMessage(msg, clients[i].id, clients[i].line_start, last)
                  /\ clients'[i].line_start <=> last = "nl"
  BY DEF Says
<1>5. /\ \A k \in OpenSlots' : /\ k \in OpenSlots /\ ConnOf(k)' = ConnOf(k)
                               /\ k # i => clients'[k].line_start = clients[k].line_start
      /\ \A d \in Conn : st'[d] = "open" => st[d] = "open"
  BY <1>1 DEF SlotsKept, Says
<1>6. \A k \in OpenSlots : k # i => ConnOf(k) # c
  <2> SUFFICES ASSUME NEW k \in OpenSlots, ConnOf(k) = c PROVE k = i
    OBVIOUS
  <2>1. clients[k].fd \in Fd /\ clients[i].fd \in Fd
    BY <1>1 DEF BrokerInv, TypeOK, ClientRecord, OpenSlots
  <2>2. c # NoConn
    BY <1>1, ConnAssumption
  <2>3. clients[k].fd = clients[i].fd
    BY <2>1, <2>2 DEF BrokerInv, TableInv, ConnOf
  <2> QED BY <1>1, <2>3 DEF BrokerInv, DescriptorsOwned
<1>7. \A m \in DOMAIN owed[c] : owed[c][m].src # c
  BY <1>1 DEF BrokerInv, StreamInv, StreamIntact
<1>8. ASSUME NEW d \in Conn, st[d] = "open", d # c
      PROVE  /\ Labelled(owed[d] \o msg) /\ Agrees(owed[d] \o msg, c, last = "nl")
             /\ \A e, b : e # c /\ Agrees(owed[d], e, b) => Agrees(owed[d] \o msg, e, b)
  <2>1. Labelled(owed[d]) /\ owed[d] \in Seq(Item)
    BY <1>1 DEF LinesInv
  <2>2. Agrees(owed[d], c, clients[i].line_start)
    BY <1>1, <1>8 DEF LinesInv, LineInv
  <2>3. msg \in Seq(Item) /\ \A m \in DOMAIN msg : msg[m].src = c
    BY <1>2
  <2> HIDE DEF c
  <2> QED BY <1>1, <1>4, <2>1, <2>2, <2>3, MessageIsLabelled
<1> HIDE DEF c
<1>9. \A d \in Conn : Labelled(owed'[d])
  BY <1>3, <1>8 DEF LinesInv
<1>10. SenderInv'
  <2> SUFFICES ASSUME NEW d \in Conn, NEW m \in DOMAIN owed'[d] PROVE owed'[d][m].src \in Met
    BY <1>1 DEF SenderInv, SlotsKept
  <2>1. CASE owed'[d] = owed[d]
    BY <2>1 DEF LinesInv, SenderInv
  <2>2. CASE owed'[d] = owed[d] \o msg
    <3>1. owed[d] \in Seq(Item) /\ msg \in Seq(Item) /\ \A x \in DOMAIN msg : msg[x].src = c
      BY <1>1, <1>2
    <3>2. /\ Len(owed[d] \o msg) = Len(owed[d]) + Len(msg) /\ Len(owed[d]) \in Nat /\ Len(msg) \in Nat
          /\ DOMAIN owed[d] = 1..Len(owed[d]) /\ DOMAIN msg = 1..Len(msg)
          /\ m \in 1..(Len(owed[d]) + Len(msg))
          /\ (owed[d] \o msg)[m] = IF m <= Len(owed[d]) THEN owed[d][m] ELSE msg[m - Len(owed[d])]
      BY <2>2, <3>1
    <3>3. c \in Met
      BY <1>1 DEF Met
    <3>4. CASE m <= Len(owed[d])
      <4>1. m \in DOMAIN owed[d] /\ owed'[d][m] = owed[d][m]
        BY <2>2, <3>2, <3>4
      <4> QED BY <4>1 DEF LinesInv, SenderInv
    <3>5. CASE m > Len(owed[d])
      <4>1. m - Len(owed[d]) \in DOMAIN msg /\ owed'[d][m] = msg[m - Len(owed[d])]
        BY <2>2, <3>2, <3>5
      <4> QED BY <3>1, <3>3, <4>1
    <3> QED BY <3>2, <3>4, <3>5
  <2> QED BY <1>3, <2>1, <2>2
<1>11. LineInv'
  <2> SUFFICES ASSUME NEW k \in OpenSlots', NEW d \in Conn, st'[d] = "open"
               PROVE  Agrees(owed'[d], ConnOf(k)', clients'[k].line_start)
    BY DEF LineInv
  <2>1. k \in OpenSlots /\ ConnOf(k)' = ConnOf(k) /\ st[d] = "open"
    BY <1>5
  <2>2. CASE k = i /\ d # c
    <3>1. ConnOf(k)' = c /\ clients'[k].line_start = (last = "nl") /\ owed'[d] = owed[d] \o msg
      <4>1. clients'[k].line_start \in BOOLEAN
        BY <2>1 DEF BrokerInv, TypeOK, ClientRecord, OpenSlots
      <4> QED BY <1>3, <1>4, <2>1, <2>2, <4>1 DEF c
    <3> QED BY <1>8, <2>1, <2>2, <3>1
  <2>3. CASE k = i /\ d = c
    BY <1>3, <1>7, <2>1, <2>3 DEF c, Latest, Agrees
  <2>4. CASE k # i
    <3>1. ConnOf(k) # c /\ clients'[k].line_start = clients[k].line_start
      BY <1>5, <1>6, <2>1, <2>4
    <3>2. Agrees(owed[d], ConnOf(k), clients[k].line_start)
      BY <2>1 DEF LinesInv, LineInv
    <3>3. Agrees(owed'[d], ConnOf(k), clients[k].line_start)
      BY <1>3, <1>8, <2>1, <3>1, <3>2
    <3> QED BY <2>1, <3>1, <3>3
  <2> QED BY <2>2, <2>3, <2>4
<1> QED BY <1>9, <1>10, <1>11 DEF LinesInv

(* A client is accepted: no byte of its is in a stream, and none in its.   *)
LEMMA AcceptLines ==
  ASSUME BrokerInv, LinesInv, AcceptClient
  PROVE  LinesInv'
<1> DEFINE c == Head(backlog)
<1>1. /\ pc = "accept" /\ lready /\ UNCHANGED owed
      /\ st' = [st EXCEPT ![c] = "open"]
  BY DEF AcceptClient
<1>2. PICK k \in FreeSlots, fd \in FreeFds :
          clients' = Joined(k, fd) /\ fdt' = [fdt EXCEPT ![fd] = c]
  BY DEF AcceptClient, Lowest
<1>3. /\ backlog \in Seq(Conn) /\ backlog # <<>>
      /\ st \in [Conn -> {"idle", "backlog", "open", "closed"}]
      /\ fdt \in [Fd -> Conn \cup {NoConn}] /\ clients \in [Slot -> ClientRecord]
  BY <1>1 DEF BrokerInv, TypeOK, RoundInv
<1>4. c = backlog[1] /\ c \in Conn /\ 1 \in DOMAIN backlog
  BY <1>3
<1>5. st[c] = "backlog" /\ owed[c] = <<>>
  BY <1>4 DEF BrokerInv, BacklogInv, StreamInv
<1> HIDE DEF c
<1>6. c \notin Met /\ Met \subseteq Met' /\ \A d \in Conn : d # c => st'[d] = st[d]
  BY <1>1, <1>3, <1>4, <1>5 DEF Met
<1>7. k \in Slot /\ k \notin OpenSlots /\ fd \in Fd /\ fdt[fd] = NoConn
  BY DEF FreeSlots, FreeFds
<1>8. /\ clients'[k].fd = fd /\ fd # NoFd
      /\ \A m \in Slot : m # k => clients'[m] = clients[m]
  <2>1. clients[k] \in ClientRecord /\ fd # NoFd
    BY <1>3, <1>7, SizesAssumption DEF Fd, NoFd
  <2> QED BY <1>2, <1>3, <1>7, <2>1 DEF Joined, ClientRecord
<1>9. ConnOf(k)' = c
  BY <1>2, <1>3, <1>7, <1>8 DEF ConnOf
<1>10. ASSUME NEW m \in OpenSlots', m # k
       PROVE  m \in OpenSlots /\ ConnOf(m)' = ConnOf(m) /\ clients'[m].line_start = clients[m].line_start
  <2>1. m \in OpenSlots /\ clients'[m] = clients[m]
    BY <1>8, <1>10 DEF OpenSlots
  <2>2. clients[m].fd \in Fd /\ fdt[clients[m].fd] \in Conn
    BY <2>1 DEF OpenSlots, BrokerInv, TypeOK, ClientRecord, DescriptorsOwned, ConnOf
  <2>3. clients[m].fd # fd
    BY <1>7, <2>2, ConnAssumption
  <2>4. fdt'[clients[m].fd] = fdt[clients[m].fd]
    BY <1>2, <1>3, <2>2, <2>3
  <2> QED BY <2>1, <2>4 DEF ConnOf
<1>11. SenderInv' /\ \A d \in Conn : Labelled(owed'[d])
  BY <1>1, <1>6 DEF LinesInv, SenderInv
<1>12. LineInv'
  <2> SUFFICES ASSUME NEW s \in OpenSlots', NEW d \in Conn, st'[d] = "open"
               PROVE  Agrees(owed[d], ConnOf(s)', clients'[s].line_start)
    BY <1>1 DEF LineInv
  <2>1. CASE d = c
    BY <1>5, <2>1 DEF Agrees
  <2>2. CASE s = k
    BY <1>6, <1>9, <2>2 DEF Agrees, Latest, LinesInv, SenderInv
  <2>3. CASE s # k /\ d # c
    <3>1. /\ s \in OpenSlots /\ st[d] = "open" /\ ConnOf(s)' = ConnOf(s)
          /\ clients'[s].line_start = clients[s].line_start
      BY <1>6, <1>10, <2>3
    <3>2. Agrees(owed[d], ConnOf(s), clients[s].line_start)
      BY <3>1 DEF LinesInv, LineInv
    <3> QED BY <3>1, <3>2
  <2> QED BY <2>1, <2>2, <2>3
<1> QED BY <1>11, <1>12 DEF LinesInv

(* --chat: in every client's stream each line of a sender begins with the  *)
(* sender's label and no label is elsewhere, however the lines are cut     *)
(* into reads and those of several senders mixed (format_chat_message and  *)
(* the line_start it keeps).                                               *)
THEOREM LinesGetLabels == Spec => []LinesLabelled
<1>1. CASE ~Chat
  <2>1. LinesLabelled
    BY <1>1 DEF LinesLabelled
  <2> QED BY <2>1, PTL
<1>2. CASE Chat
  <2>1. Init => LinesInv
    <3> SUFFICES ASSUME Init PROVE LinesInv
      OBVIOUS
    <3>1. OpenSlots = {} /\ \A d \in Conn : owed[d] = <<>>
      BY DEF Init, OpenSlots, client_init
    <3> QED BY <3>1 DEF LinesInv, SenderInv, LineInv, Labelled
  <2>2. BrokerInv /\ LinesInv /\ [Next]_vars => LinesInv'
    <3> SUFFICES ASSUME BrokerInv, LinesInv, [Next]_vars PROVE LinesInv'
      OBVIOUS
    <3>1. CASE AcceptClient
      BY <3>1, AcceptLines
    <3>2. CASE Relay
      BY <1>2, <3>2, StepKeeps, RelayLines
    <3>3. CASE ~AcceptClient /\ ~Relay
      BY <3>3, StepIsSilent, SilentLines
    <3> QED BY <3>1, <3>2, <3>3
  <2>3. LinesInv => LinesLabelled
    BY DEF LinesInv, Labelled, LinesLabelled
  <2> QED BY <2>1, <2>2, <2>3, BrokerInvariant, PTL DEF Spec
<1> QED BY <1>1, <1>2

-----------------------------------------------------------------------------
(* The broker implements Broadcast: every step of it is one step of        *)
(* Broadcast, or none that it sees.                                        *)

(* The members, and what each has heard.                                   *)
Members == {c \in Conn : st[c] = "open"}
Heard == [c \in Conn |-> got[c] \o sockout[c]]

(* An error poll() reported is one of the connection that was behind the   *)
(* descriptor then, and stays one.                                         *)
ErrorsInv == \A f \in Fd : "POLLERR" \in pfds[f] => snap[f] \in Conn /\ rst[snap[f]]

-----------------------------------------------------------------------------
(* Errors.                                                                 *)

(* poll() reports errors of the connections that have them.                *)
LEMMA ErrorsPolled ==
  ASSUME BrokerInv, Poll
  PROVE  ErrorsInv'
<1>1. pfds' = PollResult /\ snap' = fdt /\ rst' = rst
  BY DEF Poll, peerVars
<1>2. ASSUME NEW f \in Fd, "POLLERR" \in PollResult[f]
      PROVE  fdt[f] \in Conn /\ rst[fdt[f]]
  <2>1. PICK k \in OpenSlots : clients[k].fd = f /\ "POLLERR" \in Revents(k)
    BY <1>2 DEF PollResult
  <2>2. rst[ConnOf(k)]
    BY <2>1 DEF Revents
  <2>3. ConnOf(k) \in Conn
    BY DEF BrokerInv, DescriptorsOwned
  <2> QED BY <2>1, <2>2, <2>3 DEF ConnOf
<1> QED BY <1>1, <1>2 DEF ErrorsInv

(* No step forgets an error or reports one that is not there.              *)
LEMMA ErrorsKept ==
  ASSUME BrokerInv, ErrorsInv, [Next]_vars
  PROVE  ErrorsInv'
<1>1. rst \in [Conn -> BOOLEAN]
  BY DEF BrokerInv, TypeOK
<1>2. CASE UNCHANGED <<pfds, snap>> /\ rst' = rst
  BY <1>2 DEF ErrorsInv
<1>3. CASE pfds' = [f \in Fd |-> {}]
  BY <1>3 DEF ErrorsInv
<1>4. CASE pc = "accept" /\ ToClients /\ rst' = rst
  BY <1>4 DEF ToClients, ErrorsInv
<1>5. CASE NextSlot /\ rst' = rst
  BY <1>2, <1>3, <1>5 DEF NextSlot, EndRound
<1>6. CASE BrokerStep
  BY <1>2, <1>3, <1>4, <1>5, <1>6, ErrorsPolled
     DEF BrokerStep, Shutdown, Cleanup, NoAccept, AcceptDenied, AcceptFull, AcceptClient,
         SkipClient, DropBroken, Flush, NoInput, ReadEnds, Relay, FormatFails, peerVars, EndRound
<1>7. CASE PollFails \/ Signal \/ Terminated \/ UNCHANGED vars
  BY <1>2, <1>7 DEF PollFails, Cleanup, Signal, Terminated, vars, peerVars, procVars
<1>8. CASE \E c \in Conn : Peer(c)
  <2> PICK c \in Conn : Peer(c)
    BY <1>8
  <2>1. CASE PeerReset(c)
    <3>1. UNCHANGED <<pfds, snap>> /\ rst' = [rst EXCEPT ![c] = TRUE]
      BY <2>1 DEF PeerReset, procVars
    <3>2. \A d \in Conn : rst[d] => rst'[d]
      BY <1>1, <3>1
    <3> QED BY <3>1, <3>2 DEF ErrorsInv
  <2>2. CASE Connect(c) \/ PeerSend(c) \/ PeerRead(c) \/ PeerFin(c)
    BY <1>2, <2>2 DEF Connect, PeerSend, PeerRead, PeerFin, procVars, peerVars
  <2> QED BY <2>1, <2>2 DEF Peer
<1> QED BY <1>6, <1>7, <1>8 DEF Next

(* An error is acted on for the connection that has it.                    *)
LEMMA ErrorsTrue ==
  ASSUME BrokerInv, ErrorsInv, pc \in {"flush", "read"}, i \in OpenSlots, Event("POLLERR")
  PROVE  rst[ConnOf(i)]
<1>1. clients[i].fd \in Fd /\ ConnOf(i) \in Conn
  BY DEF BrokerInv, TypeOK, ClientRecord, OpenSlots, DescriptorsOwned
<1>2. ConnOf(i) = snap[clients[i].fd]
  BY <1>1, ConnAssumption DEF BrokerInv, RoundInv, Event, ConnOf
<1> QED BY <1>1, <1>2 DEF ErrorsInv, Event

-----------------------------------------------------------------------------
(* Steps Broadcast does not see.                                           *)

(* What Broadcast sees has not changed.                                    *)
LEMMA Unseen ==
  ASSUME Members' = Members, Heard' = Heard, UNCHANGED <<sent, rd, fin, rst, owed>>,
         (pc' = "done") <=> (pc = "done")
  PROVE  UNCHANGED Abs!vars
BY DEF Abs!vars, Members, Heard

(* Polling, passing over a slot and the signal are not seen.               *)
LEMMA QuietUnseen ==
  ASSUME BrokerInv, Poll \/ NoAccept \/ SkipClient \/ NoInput \/ Signal \/ Terminated \/ UNCHANGED vars
  PROVE  UNCHANGED Abs!vars
<1>1. UNCHANGED <<st, got, sockout, sent, rd, fin, rst, owed>>
  BY DEF Poll, NoAccept, SkipClient, NoInput, Signal, Terminated, vars, kernelVars, peerVars, procVars
<1>2. (pc' = "done") <=> (pc = "done")
  BY DEF Poll, NoAccept, ToClients, SkipClient, NoInput, NextSlot, EndRound, Signal, Terminated,
         vars, procVars
<1>3. Members' = Members /\ Heard' = Heard
  BY <1>1 DEF Members, Heard
<1> QED BY <1>1, <1>2, <1>3, Unseen

(* The connection that accept() takes waits in the backlog.                *)
LEMMA FirstWaits ==
  ASSUME BrokerInv, pc = "accept", lready
  PROVE  Head(backlog) \in Conn /\ st[Head(backlog)] = "backlog"
<1>1. backlog \in Seq(Conn) /\ backlog # <<>>
  BY DEF BrokerInv, TypeOK, RoundInv
<1>2. Head(backlog) = backlog[1] /\ Head(backlog) \in Conn /\ 1 \in DOMAIN backlog
  BY <1>1
<1> QED BY <1>2 DEF BrokerInv, BacklogInv

(* Refusing a connection that is not a member.                             *)
LEMMA RefusalUnseen ==
  ASSUME BrokerInv, AcceptDenied \/ AcceptFull
  PROVE  UNCHANGED Abs!vars
<1>1. /\ UNCHANGED <<got, sockout, sent, rd, fin, rst, owed>>
      /\ st' = [st EXCEPT ![Head(backlog)] = "closed"]
      /\ pc = "accept" /\ lready /\ pc' # "done"
  BY DEF AcceptDenied, AcceptFull, EndRound, ToClients, peerVars
<1>2. Head(backlog) \in Conn /\ st[Head(backlog)] = "backlog"
  BY <1>1, FirstWaits
<1>3. st \in [Conn -> {"idle", "backlog", "open", "closed"}]
  BY DEF BrokerInv, TypeOK
<1>4. \A c \in Conn : st'[c] = "open" <=> st[c] = "open"
  BY <1>1, <1>2, <1>3
<1>5. Members' = Members /\ Heard' = Heard
  BY <1>1, <1>4 DEF Members, Heard
<1> QED BY <1>1, <1>5, Unseen

(* A peer connects, and waits.                                             *)
LEMMA ConnectUnseen ==
  ASSUME BrokerInv, NEW c \in Conn, Connect(c)
  PROVE  UNCHANGED Abs!vars
<1>1. /\ UNCHANGED <<pc, got, sockout, sent, rd, fin, rst, owed>>
      /\ st' = [st EXCEPT ![c] = "backlog"] /\ st[c] = "idle"
  BY DEF Connect, procVars, peerVars
<1>2. st \in [Conn -> {"idle", "backlog", "open", "closed"}]
  BY DEF BrokerInv, TypeOK
<1>3. \A d \in Conn : st'[d] = "open" <=> st[d] = "open"
  BY <1>1, <1>2
<1>4. Members' = Members /\ Heard' = Heard
  BY <1>1, <1>3 DEF Members, Heard
<1> QED BY <1>1, <1>4, Unseen

(* A peer reads what the kernel holds for it: it was handed over before.   *)
LEMMA PeerReadUnseen ==
  ASSUME BrokerInv, NEW c \in Conn, PeerRead(c)
  PROVE  UNCHANGED Abs!vars
<1>1. /\ UNCHANGED <<pc, st, sent, rd, fin, rst, owed>>
      /\ got' = [got EXCEPT ![c] = @ \o sockout[c]]
      /\ sockout' = [sockout EXCEPT ![c] = <<>>]
  BY DEF PeerRead, procVars, kernelVars
<1>2. got \in [Conn -> Seq(Item)] /\ sockout \in [Conn -> Seq(Item)]
  BY DEF BrokerInv, TypeOK
<1>3. \A d \in Conn : got'[d] \o sockout'[d] = got[d] \o sockout[d]
  <2> TAKE d \in Conn
  <2>1. CASE d # c
    BY <1>1, <1>2, <2>1
  <2>2. CASE d = c
    <3> DEFINE g == got[c] \o sockout[c]
    <3>1. g \in Seq(Item)
      BY <1>2, ItemsConcat
    <3>2. got'[c] = g /\ sockout'[c] = <<>>
      BY <1>1, <1>2
    <3> HIDE DEF g
    <3>3. g \o <<>> = g
      BY <3>1, ConcatEmptySeq
    <3> QED BY <2>2, <3>2, <3>3 DEF g
  <2> QED BY <2>1, <2>2
<1>4. Members' = Members /\ Heard' = Heard
  BY <1>1, <1>3 DEF Members, Heard
<1> QED BY <1>1, <1>4, Unseen

-----------------------------------------------------------------------------
(* Steps of Broadcast.                                                     *)

(* An open slot stands for a member, and every member has a slot.          *)
LEMMA SlotsAreMembers ==
  ASSUME BrokerInv
  PROVE  /\ \A k \in OpenSlots : ConnOf(k) \in Members
         /\ \A c \in Members : \E k \in OpenSlots : ConnOf(k) = c
         /\ \A k \in OpenSlots, m \in OpenSlots : ConnOf(k) = ConnOf(m) => k = m
<1>1. \A k \in OpenSlots : clients[k].fd \in Fd /\ ConnOf(k) \in Conn /\ st[ConnOf(k)] = "open"
  BY DEF BrokerInv, TypeOK, ClientRecord, OpenSlots, DescriptorsOwned
<1>2. \A k \in OpenSlots, m \in OpenSlots : ConnOf(k) = ConnOf(m) => k = m
  BY <1>1, ConnAssumption DEF BrokerInv, DescriptorsOwned, TableInv, ConnOf
<1> QED BY <1>1, <1>2 DEF BrokerInv, DescriptorsOwned, Members

(* While a slot is free, there is room for a member.                       *)
LEMMA RoomForOne ==
  ASSUME BrokerInv, FreeSlots # {}
  PROVE  Cardinality(Members) < MaxClients
<1>1. IsFiniteSet(Slot) /\ Cardinality(Slot) = MaxClients
  BY FS_Interval, SizesAssumption DEF Slot
<1>2. /\ IsFiniteSet(OpenSlots) /\ Cardinality(OpenSlots) <= Cardinality(Slot)
      /\ Cardinality(OpenSlots) # Cardinality(Slot)
  <2>1. OpenSlots \in SUBSET Slot /\ OpenSlots # Slot
    BY DEF OpenSlots, FreeSlots
  <2> QED BY <1>1, <2>1, FS_Subset
<1> DEFINE f == [k \in OpenSlots |-> ConnOf(k)]
<1>3. f \in Surjection(OpenSlots, Members)
  BY SlotsAreMembers DEF Surjection
<1> HIDE DEF f
<1>4. IsFiniteSet(Members) /\ Cardinality(Members) <= Cardinality(OpenSlots)
  BY <1>2, <1>3, FS_Surjection
<1>5. Cardinality(Members) \in Nat /\ Cardinality(OpenSlots) \in Nat
  BY <1>2, <1>4, FS_CardinalityType
<1> QED BY <1>1, <1>2, <1>4, <1>5, SizesAssumption

(* Broadcast counts members as the broker's module does.                   *)
LEMMA SameCount == ASSUME NEW S PROVE Abs!Cardinality(S) = Cardinality(S)
BY DEF Abs!Cardinality, Cardinality

(* A connection that gets a slot becomes a member.                         *)
LEMMA AcceptJoins ==
  ASSUME BrokerInv, AcceptClient
  PROVE  \E c \in Conn : Abs!Join(c)
<1>1. /\ UNCHANGED <<got, sockout, sent, rd, fin, rst, owed>>
      /\ st' = [st EXCEPT ![Head(backlog)] = "open"] /\ FreeSlots # {}
      /\ pc = "accept" /\ lready /\ pc' = "flush"
  BY DEF AcceptClient, ToClients, peerVars
<1>2. PICK h \in Conn : h = Head(backlog) /\ st[h] = "backlog"
  BY <1>1, FirstWaits
<1>3. st \in [Conn -> {"idle", "backlog", "open", "closed"}]
  BY DEF BrokerInv, TypeOK
<1>4. owed[h] = <<>>
  BY <1>2 DEF BrokerInv, StreamInv
<1>5. Cardinality(Members) < MaxClients
  BY <1>1, RoomForOne
<1>6. h \notin Members /\ Members' = Members \cup {h} /\ Heard' = Heard
  BY <1>1, <1>2, <1>3 DEF Members, Heard
<1>7. h \notin {c \in Conn : st[c] = "open"} /\ owed[h] = <<>> /\ ~(pc = "done")
  BY <1>1, <1>4, <1>6 DEF Members
<1>8. Cardinality({c \in Conn : st[c] = "open"}) < MaxClients
  BY <1>5 DEF Members
<1>9. Abs!Cardinality({c \in Conn : st[c] = "open"}) < MaxClients
  BY <1>8, SameCount
<1>10. {c \in Conn : st[c] = "open"}' = {c \in Conn : st[c] = "open"} \cup {h}
  BY <1>6 DEF Members
<1>11. UNCHANGED <<sent, rd, fin, rst, owed, Heard, pc = "done">>
  BY <1>1, <1>6
<1>12. Abs!Join(h)
  BY <1>7, <1>9, <1>10, <1>11, Zenon DEF Abs!Join, Heard
<1> QED BY <1>12

(* Bytes, the end and a reset come from members.                           *)
LEMMA PeersSpeak ==
  ASSUME BrokerInv, NEW c \in Conn, PeerSend(c) \/ PeerFin(c) \/ PeerReset(c)
  PROVE  Abs!Say(c) \/ Abs!Finish(c) \/ Abs!Break(c)
<1>1. UNCHANGED <<pc, st, got, sockout, rd, owed>> /\ st[c] = "open"
  BY DEF PeerSend, PeerFin, PeerReset, procVars, kernelVars
<1>2. Members' = Members /\ Heard' = Heard /\ c \in Members
  BY <1>1 DEF Members, Heard
<1>3. CASE PeerSend(c)
  <2>1. Abs!Say(c)
    BY <1>1, <1>2, <1>3 DEF Abs!Say, PeerSend, Members, Heard
  <2> QED BY <2>1
<1>4. CASE PeerFin(c)
  <2>1. Abs!Finish(c)
    BY <1>1, <1>2, <1>4 DEF Abs!Finish, PeerFin, Members, Heard
  <2> QED BY <2>1
<1>5. CASE PeerReset(c)
  <2>1. Abs!Break(c)
    BY <1>1, <1>2, <1>5 DEF Abs!Break, PeerReset, Members, Heard
  <2> QED BY <2>1
<1> QED BY <1>3, <1>4, <1>5

(* The end of the loop lets all members go.                                *)
LEMMA CleanupEnds ==
  ASSUME BrokerInv, Shutdown \/ PollFails
  PROVE  Abs!End
<1>1. Cleanup /\ pc # "done" /\ pc' = "done" /\ UNCHANGED <<got, sockout, sent, rd, fin, rst, owed>>
  BY DEF Shutdown, PollFails, Cleanup, peerVars
<1>2. \A c \in Conn : st'[c] # "open"
  <2> TAKE c \in Conn
  <2>1. st'[c] = IF st[c] = "backlog" \/ \E k \in OpenSlots : ConnOf(k) = c
                 THEN "closed" ELSE st[c]
    BY <1>1 DEF Cleanup
  <2>2. st[c] = "open" => \E k \in OpenSlots : ConnOf(k) = c
    BY SlotsAreMembers DEF Members
  <2> QED BY <2>1, <2>2
<1>3. Members' = {} /\ Heard' = Heard
  BY <1>1, <1>2 DEF Members, Heard
<1> QED BY <1>1, <1>3 DEF Abs!End, Members, Heard

(* drop_client lets members go.                                            *)
LEMMA CloseLetsGo ==
  ASSUME BrokerInv, NEW S \in SUBSET OpenSlots, CloseSlots(S)
  PROVE  Members' = Members \ {ConnOf(k) : k \in S}
<1>1. \A c \in Conn : st'[c] = IF \E k \in S : ConnOf(k) = c THEN "closed" ELSE st[c]
  BY DEF CloseSlots
<1> QED BY <1>1 DEF Members

(* The served client is let go, and nothing more is heard.                 *)
LEMMA ServedGoes ==
  ASSUME BrokerInv, i \in OpenSlots, drop_client({i}), UNCHANGED <<got, sockout>>
  PROVE  Members' = Members \ {ConnOf(i)} /\ Heard' = Heard
<1>1. {i} \in SUBSET OpenSlots /\ CloseSlots({i})
  BY DEF drop_client
<1>2. Members' = Members \ {ConnOf(k) : k \in {i}}
  BY <1>1, CloseLetsGo
<1> QED BY <1>2 DEF Heard

(* A read takes some of what the peer has sent.                            *)
LEMMA InputCounts ==
  ASSUME BrokerInv, NEW c \in Conn, sent[c] > rd[c]
  PROVE  /\ InputLen(c) \in Nat \ {0} /\ rd[c] \in Nat /\ sent[c] \in Nat
         /\ rd[c] + InputLen(c) \in (rd[c] + 1)..sent[c]
<1>1. rd[c] \in Nat /\ sent[c] \in Nat
  BY DEF BrokerInv, TypeOK
<1> QED BY <1>1, SizesAssumption DEF InputLen, Least

(* The served client is let go because it broke or finished.               *)
LEMMA DropLeaves ==
  ASSUME BrokerInv, ErrorsInv, DropBroken \/ ReadEnds
  PROVE  \E c \in Conn : Abs!Leave(c)
<1>1. /\ drop_client({i}) /\ NextSlot /\ pc \in {"flush", "read"}
      /\ UNCHANGED <<got, sockout, sent, rd, fin, rst, owed>>
  BY DEF DropBroken, ReadEnds, peerVars
<1>2. i \in OpenSlots
  BY DEF DropBroken, ReadEnds, Served, BrokerInv, TypeOK, RoundInv, OpenSlots
<1>3. PICK c \in Conn : c = ConnOf(i) /\ c \in Members
  BY <1>2, SlotsAreMembers DEF Members
<1>4. rst[c] \/ (fin[c] /\ rd[c] = sent[c])
  BY <1>1, <1>2, <1>3, ErrorsTrue DEF DropBroken, ReadEnds
<1>5. Members' = Members \ {c} /\ Heard' = Heard
  BY <1>1, <1>2, <1>3, ServedGoes
<1>6. pc # "done" /\ pc' # "done"
  BY <1>1 DEF NextSlot, EndRound
<1>7. Abs!Leave(c)
  BY <1>1, <1>3, <1>4, <1>5, <1>6 DEF Abs!Leave, Members, Heard
<1> QED BY <1>7

(* format_chat_message fails: the sender is let go.                        *)
LEMMA FormatLoses ==
  ASSUME BrokerInv, FormatFails
  PROVE  \E c \in Conn : Abs!LoseSender(c)
<1>1. /\ drop_client({i}) /\ NextSlot /\ pc = "read" /\ AllocFails
      /\ UNCHANGED <<got, sockout, sent, fin, rst, owed>>
      /\ sent[ConnOf(i)] > rd[ConnOf(i)]
      /\ rd' = [rd EXCEPT ![ConnOf(i)] = @ + InputLen(ConnOf(i))]
  BY DEF FormatFails
<1>2. i \in OpenSlots
  BY <1>1 DEF BrokerInv, TypeOK, RoundInv, OpenSlots
<1>3. PICK c \in Conn : c = ConnOf(i) /\ c \in Members
  BY <1>2, SlotsAreMembers DEF Members
<1>4. PICK b \in (rd[c] + 1)..sent[c] : b = rd[c] + InputLen(c)
  BY <1>1, <1>3, InputCounts
<1>5. rd' = [rd EXCEPT ![c] = b] /\ rd[c] < sent[c]
  BY <1>1, <1>3, <1>4 DEF BrokerInv, TypeOK
<1>6. Members' = Members \ {c} /\ Heard' = Heard
  BY <1>1, <1>2, <1>3, ServedGoes
<1>7. pc # "done" /\ pc' # "done"
  BY <1>1 DEF NextSlot, EndRound
<1>8. Abs!LoseSender(c)
  BY <1>1, <1>3, <1>5, <1>6, <1>7 DEF Abs!LoseSender, Members, Heard
<1> QED BY <1>8


(* What a member has not heard is what its queue holds.                    *)
LEMMA QueueWaits ==
  ASSUME BrokerInv, NEW k \in OpenSlots
  PROVE  LET d == ConnOf(k)
         IN  /\ Len(owed[d]) \in Nat /\ Len(Heard[d]) \in Nat /\ Pending(clients[k]) \in Nat
             /\ Len(owed[d]) - Len(Heard[d]) = Pending(clients[k])
<1> DEFINE d == ConnOf(k)
           h == got[d] \o sockout[d]
           q == PendingBytes(clients[k])
<1>1. d \in Conn /\ k \in Slot
  BY DEF BrokerInv, DescriptorsOwned, OpenSlots
<1>2. clients[k] \in ClientRecord /\ clients[k].off <= Len(clients[k].out)
  BY <1>1 DEF BrokerInv, TypeOK
<1>3. q \in Seq(Item) /\ Len(q) = Pending(clients[k]) /\ Pending(clients[k]) \in Nat
  BY <1>2, PendingFacts
<1>4. h \in Seq(Item)
  BY <1>1, ItemsConcat DEF BrokerInv, TypeOK
<1>5. h \o q = owed[d]
  BY <1>1 DEF BrokerInv, StreamInv, StreamIntact
<1>6. Heard[d] = h
  BY <1>1 DEF Heard
<1> HIDE DEF d, h, q
<1>7. Len(h \o q) = Len(h) + Len(q) /\ Len(h) \in Nat /\ Len(q) \in Nat
  BY <1>3, <1>4
<1>8. Len(owed[d]) = Len(Heard[d]) + Pending(clients[k])
  BY <1>3, <1>5, <1>6, <1>7
<1>9. \A x \in Nat, y \in Nat : (x + y) - x = y /\ x + y \in Nat
  OBVIOUS
<1> QED BY <1>3, <1>6, <1>7, <1>8, <1>9 DEF d

(* flush_client hands over the next bytes, if it hands over any.           *)
LEMMA FlushHears ==
  ASSUME BrokerInv, BrokerInv', Flush
  PROVE  \/ UNCHANGED Abs!vars
         \/ \E c \in Conn : \E n \in 1..(Len(owed[c]) - Len(Heard[c])) : Abs!Hear(c, n)
<1>1. /\ pc = "flush" /\ pc' = "read" /\ clients[i].fd # NoFd
      /\ UNCHANGED <<fdt, st, sent, rd, fin, rst, got, owed>>
  BY DEF Flush, Served, kernelVars
<1>2. i \in OpenSlots /\ i \in Slot
  BY <1>1 DEF OpenSlots, BrokerInv, TypeOK
<1>3. PICK c \in Conn : c = ConnOf(i) /\ c \in Members
  BY <1>2, SlotsAreMembers DEF Members
<1> DEFINE q == PendingBytes(clients[i])
<1>4. q \in Seq(Item) /\ Len(q) = Pending(clients[i]) /\ Pending(clients[i]) \in Nat
  BY <1>2, PendingFacts DEF BrokerInv, TypeOK
<1>5. PICK n \in Nat : n <= Len(q) /\ sockout' = [sockout EXCEPT ![c] = @ \o SubSeq(q, 1, n)]
  <2> DEFINE n == IF Event("POLLOUT") THEN Least(Pending(clients[i]), Writable(c)) ELSE 0
  <2>1. sockout' = [sockout EXCEPT ![c] = @ \o SubSeq(q, 1, n)]
    BY <1>3 DEF Flush
  <2>2. Writable(c) \in Nat
    BY SizesAssumption DEF Writable, BrokerInv, TypeOK
  <2>3. n \in Nat /\ n <= Pending(clients[i])
    BY <1>4, <2>2 DEF Least
  <2> QED BY <1>4, <2>1, <2>3
<1> DEFINE w == SubSeq(q, 1, n)
<1> HIDE DEF q
<1>6. w \in Seq(Item) /\ Len(w) = n
  BY <1>4, <1>5
<1> HIDE DEF w
<1>7. /\ got \in [Conn -> Seq(Item)] /\ sockout \in [Conn -> Seq(Item)]
      /\ owed \in [Conn -> Seq(Item)]
  BY DEF BrokerInv, TypeOK
<1>8. /\ sockout'[c] = sockout[c] \o w
      /\ \A d \in Conn \ {c} : sockout'[d] = sockout[d]
  BY <1>5, <1>7 DEF w
<1>9. Heard'[c] = Heard[c] \o w /\ Heard[c] \in Seq(Item)
  <2>1. Heard[c] = got[c] \o sockout[c] /\ Heard'[c] = got[c] \o sockout'[c]
    BY <1>1 DEF Heard
  <2>2. got[c] \in Seq(Item) /\ sockout[c] \in Seq(Item)
    BY <1>7
  <2>3. got[c] \o (sockout[c] \o w) = (got[c] \o sockout[c]) \o w
    BY <1>6, <2>2, ItemsAssociative, Zenon
  <2>4. got[c] \o sockout[c] \in Seq(Item)
    BY <2>2, ItemsConcat
  <2> QED BY <1>8, <2>1, <2>3, <2>4
<1>10. Members' = Members
  BY <1>1 DEF Members
<1>11. CASE n = 0
  <2>1. w = <<>>
    BY <1>6, <1>11
  <2>2. Heard'[c] = Heard[c]
    BY <1>9, <2>1, ConcatEmptySeq
  <2>3. \A d \in Conn : got'[d] \o sockout'[d] = got[d] \o sockout[d]
    BY <1>1, <1>8, <2>2 DEF Heard
  <2>4. Heard' = Heard
    BY <2>3 DEF Heard
  <2> QED BY <1>1, <1>10, <2>4, Unseen
<1>12. CASE n # 0
  <2>1. Len(Heard'[c]) = Len(Heard[c]) + n /\ Len(Heard[c]) \in Nat
    BY <1>6, <1>9
  <2>2. /\ Heard'[c] = SubSeq(owed[c], 1, Len(Heard'[c]))
        /\ Len(Heard'[c]) <= Len(owed[c])
    <3>1. Heard'[c] = (got[c] \o sockout[c])'
      BY DEF Heard
    <3>2. owed' = owed
      BY <1>1
    <3> QED BY <3>1, <3>2 DEF BrokerInv, StreamInv, StreamIntact
  <2>3. n \in 1..(Len(owed[c]) - Len(Heard[c]))
    BY <1>5, <1>7, <1>12, <2>1, <2>2
  <2>4. Heard' = [Heard EXCEPT ![c] = SubSeq(owed[c], 1, Len(Heard[c]) + n)]
    <3>1. \A d \in Conn \ {c} : Heard'[d] = Heard[d]
      BY <1>1, <1>8 DEF Heard
    <3> QED BY <2>1, <2>2, <3>1 DEF Heard
  <2>5. Abs!Hear(c, n)
    BY <1>1, <1>3, <1>10, <2>3, <2>4 DEF Abs!Hear, Abs!Waiting, Heard, Members
  <2> QED BY <2>3, <2>5
<1> QED BY <1>11, <1>12


(* A client is dropped in a fan-out when it has no room, or when memory    *)
(* may run out.                                                            *)
LEMMA RoomIsCounted ==
  ASSUME BrokerInv, NEW k \in OpenSlots, NEW msg \in Seq(Item)
  PROVE  Overflows(clients[k], msg) <=>
             Len(owed[ConnOf(k)]) - Len(Heard[ConnOf(k)]) + Len(msg) > MaxBuffer
<1>1. Len(owed[ConnOf(k)]) - Len(Heard[ConnOf(k)]) = Pending(clients[k])
      /\ Pending(clients[k]) \in Nat
  BY QueueWaits
<1>2. Len(msg) \in Nat /\ MaxBuffer \in Nat
  BY SizesAssumption
<1>3. \A p \in Nat, l \in Nat, m \in Nat : (l > m \/ p > m - l) <=> p + l > m
  OBVIOUS
<1> QED BY <1>1, <1>2, <1>3, Zenon DEF Overflows

(* The message is one of the forms of the bytes read.                      *)
LEMMA MessageForm ==
  ASSUME BrokerInv, i \in OpenSlots, NEW c \in Conn, c = ConnOf(i), sent[c] > rd[c]
  PROVE  LET b == rd[c] + InputLen(c)
             buf == Chunk(c, rd[c] + 1, b)
             msg == IF Chat THEN FormatChat(clients[i].id, clients[i].line_start, buf) ELSE buf
         IN  msg \in Forms(c, rd[c] + 1, b) /\ msg \in Seq(Item)
<1> DEFINE a == rd[c] + 1
           b == rd[c] + InputLen(c)
<1>1. clients[i].id \in 0..(IdMod - 1) /\ clients[i].line_start \in BOOLEAN
  BY DEF BrokerInv, TypeOK, OpenSlots, ClientRecord
<1>2. rd[c] \in Nat /\ sent[c] \in Nat /\ sent[c] <= Len(Script[c]) /\ Len(Script[c]) \in Nat
  BY ConnAssumption DEF BrokerInv, TypeOK
<1>3. b \in a..sent[c]
  BY InputCounts
<1>4. /\ a \in Nat /\ b \in Nat /\ 1 <= a /\ a <= b /\ b <= Len(Script[c])
      /\ a \in 1..Len(Script[c]) /\ b \in a..Len(Script[c])
  BY <1>2, <1>3
<1> HIDE DEF a, b
<1>5. Chunk(c, a, b) \in Seq({x \in Item : x.src = c})
  BY <1>4, ChunkType
<1>6. FormatChat(clients[i].id, clients[i].line_start, Chunk(c, a, b)) \in Seq({x \in Item : x.src = c})
  BY <1>1, <1>4, FormatAssumption
<1>7. \A s \in Seq({x \in Item : x.src = c}) : s \in Seq(Item)
  OBVIOUS
<1> QED BY <1>1, <1>5, <1>6, <1>7 DEF Forms, a, b

(* The fan-out tells every other member at once.                           *)
LEMMA RelayTells ==
  ASSUME BrokerInv, Relay
  PROVE  \E c \in Conn : \E b \in (rd[c] + 1)..sent[c] : Abs!Tell(c, b)
<1>1. /\ pc = "read" /\ sent[ConnOf(i)] > rd[ConnOf(i)] /\ NextSlot
      /\ UNCHANGED <<sent, fin, rst, sockout, got>>
  BY DEF Relay
<1>2. i \in OpenSlots
  BY <1>1 DEF BrokerInv, TypeOK, RoundInv, OpenSlots
<1>3. PICK c \in Conn : c = ConnOf(i) /\ c \in Members
  BY <1>2, SlotsAreMembers DEF Members
<1>4. PICK b \in (rd[c] + 1)..sent[c] : b = rd[c] + InputLen(c)
  BY <1>1, <1>3, InputCounts
<1> DEFINE m == IF Chat THEN FormatChat(clients[i].id, clients[i].line_start, Chunk(c, rd[c] + 1, b))
                ELSE Chunk(c, rd[c] + 1, b)
<1>5. PICK msg \in Forms(c, rd[c] + 1, b) : msg = m /\ msg \in Seq(Item)
  <2>1. m \in Forms(c, rd[c] + 1, b) /\ m \in Seq(Item)
    BY <1>1, <1>2, <1>3, <1>4, MessageForm
  <2> QED BY <2>1
<1>6. PICK nomem \in (IF AllocFails THEN SUBSET Slot ELSE {{}}) :
        /\ nomem \subseteq OpenSlots \ {i}
        /\ rd' = [rd EXCEPT ![c] = b]
        /\ CloseSlots({k \in OpenSlots \ {i} : Overflows(clients[k], msg) \/ k \in nomem})
        /\ owed' = [d \in Conn |-> IF st[d] = "open" /\ d # c THEN owed[d] \o msg ELSE owed[d]]
  <2>1. PICK nomem \in (IF AllocFails THEN SUBSET Slot ELSE {{}}) :
          LET x == ConnOf(i)
              n == InputLen(x)
              buf == Chunk(x, rd[x] + 1, rd[x] + n)
              t == IF Chat THEN FormatChat(clients[i].id, clients[i].line_start, buf) ELSE buf
          IN  /\ nomem \subseteq OpenSlots \ {i}
              /\ rd' = [rd EXCEPT ![x] = @ + n]
              /\ CloseSlots({k \in OpenSlots \ {i} : Overflows(clients[k], t) \/ k \in nomem})
              /\ owed' = [d \in Conn |-> IF st[d] = "open" /\ d # x THEN owed[d] \o t ELSE owed[d]]
    BY DEF Relay
  <2> QED BY <1>3, <1>4, <1>5, <2>1
<1> HIDE DEF m
<1> DEFINE slow == {k \in OpenSlots \ {i} : Overflows(clients[k], msg) \/ k \in nomem}
           others == Members \ {c}
           noroom == {d \in others : Len(owed[d]) - Len(Heard[d]) + Len(msg) > MaxBuffer}
<1>7. Members' = Members \ {ConnOf(k) : k \in slow}
  <2>1. slow \in SUBSET OpenSlots /\ CloseSlots(slow)
    BY <1>6
  <2> QED BY <2>1, CloseLetsGo
<1>8. \A k \in slow : ConnOf(k) \in others
  BY <1>2, <1>3, SlotsAreMembers
<1>9. Members' \subseteq Members \ noroom
  <2> SUFFICES ASSUME NEW d \in noroom PROVE d \in {ConnOf(k) : k \in slow}
    BY <1>7
  <2>1. PICK k \in OpenSlots : ConnOf(k) = d
    BY SlotsAreMembers
  <2>2. k # i
    BY <1>3, <2>1
  <2>3. Overflows(clients[k], msg)
    BY <1>5, <2>1, RoomIsCounted
  <2> QED BY <2>1, <2>2, <2>3
<1>10. Members \ Members' \subseteq (IF AllocFails THEN others ELSE noroom)
  <2>1. Members \ Members' \subseteq {ConnOf(k) : k \in slow}
    BY <1>7
  <2>2. CASE AllocFails
    BY <1>8, <2>1, <2>2
  <2>3. CASE ~AllocFails
    <3>1. nomem = {}
      BY <1>6, <2>3
    <3>2. \A k \in slow : ConnOf(k) \in noroom
      <4> TAKE k \in slow
      <4>1. Overflows(clients[k], msg)
        BY <3>1
      <4> QED BY <1>5, <1>8, <4>1, RoomIsCounted
    <3> QED BY <2>1, <2>3, <3>2
  <2> QED BY <2>2, <2>3
<1>11. owed' = [d \in Conn |-> IF d \in others THEN owed[d] \o msg ELSE owed[d]]
  BY <1>6 DEF Members
<1>12. Heard' = Heard /\ pc # "done" /\ pc' # "done"
  BY <1>1 DEF Heard, NextSlot, EndRound
<1> HIDE DEF slow
<1>13. \E s \in Forms(c, rd[c] + 1, b) :
        /\ owed' = [d \in Conn |-> IF d \in others THEN owed[d] \o s ELSE owed[d]]
        /\ Members' \subseteq Members \ {d \in others : Len(owed[d]) - Len(Heard[d]) + Len(s) > MaxBuffer}
        /\ Members \ Members' \subseteq
             (IF AllocFails THEN others
              ELSE {d \in others : Len(owed[d]) - Len(Heard[d]) + Len(s) > MaxBuffer})
  BY <1>5, <1>9, <1>10, <1>11, Zenon
<1>14. Abs!Tell(c, b)
  BY <1>1, <1>3, <1>4, <1>6, <1>12, <1>13 DEF Abs!Tell, Abs!Waiting, Heard, Members
<1> QED BY <1>14

-----------------------------------------------------------------------------
(* The refinement.                                                         *)

(* The broker starts where Broadcast starts.                               *)
LEMMA StartMaps == Init => Abs!Init /\ ErrorsInv
<1> SUFFICES ASSUME Init PROVE Abs!Init /\ ErrorsInv
  OBVIOUS
<1>1. <<>> \o <<>> = <<>>
  BY ConcatEmptySeq
<1>2. Members = {} /\ Heard = [c \in Conn |-> <<>>]
  BY <1>1 DEF Init, Members, Heard
<1>3. Abs!Init
  BY <1>2 DEF Init, Abs!Init, Members, Heard
<1> QED BY <1>3 DEF Init, ErrorsInv

(* Every step of the broker is a step of Broadcast or leaves it alone.     *)
LEMMA StepMaps ==
  ASSUME BrokerInv, BrokerInv', ErrorsInv, [Next]_vars
  PROVE  [Abs!Next]_(Abs!vars)
<1>1. CASE Poll \/ NoAccept \/ SkipClient \/ NoInput \/ Signal \/ Terminated \/ UNCHANGED vars
  BY <1>1, QuietUnseen
<1>2. CASE AcceptDenied \/ AcceptFull
  BY <1>2, RefusalUnseen
<1>3. CASE Shutdown \/ PollFails
  BY <1>3, CleanupEnds DEF Abs!Next
<1>4. CASE AcceptClient
  BY <1>4, AcceptJoins DEF Abs!Next
<1>5. CASE DropBroken \/ ReadEnds
  BY <1>5, DropLeaves DEF Abs!Next
<1>6. CASE FormatFails
  BY <1>6, FormatLoses DEF Abs!Next
<1>7. CASE Relay
  BY <1>7, RelayTells DEF Abs!Next
<1>8. CASE Flush
  BY <1>8, FlushHears DEF Abs!Next, Abs!Waiting, Heard
<1>9. CASE \E c \in Conn : Peer(c)
  <2> PICK c \in Conn : Peer(c)
    BY <1>9
  <2>1. CASE Connect(c)
    BY <2>1, ConnectUnseen
  <2>2. CASE PeerRead(c)
    BY <2>2, PeerReadUnseen
  <2>3. CASE PeerSend(c) \/ PeerFin(c) \/ PeerReset(c)
    BY <2>3, PeersSpeak DEF Abs!Next
  <2> QED BY <2>1, <2>2, <2>3 DEF Peer
<1> QED BY <1>1, <1>2, <1>3, <1>4, <1>5, <1>6, <1>7, <1>8, <1>9 DEF Next, BrokerStep

(* The broker implements Broadcast: all clients see the same messages in   *)
(* the same order, hear them without gaps, and are let go only for one of  *)
(* the reasons Broadcast allows (broker.c, wcat_broker_run).               *)
THEOREM BrokerBroadcasts == Spec => ImplementsBroadcast
<1>1. Init => Abs!Init /\ ErrorsInv
  BY StartMaps
<1>2. BrokerInv /\ ErrorsInv /\ [Next]_vars => ErrorsInv'
  BY ErrorsKept
<1>3. BrokerInv /\ BrokerInv' /\ ErrorsInv /\ [Next]_vars => [Abs!Next]_(Abs!vars)
  BY StepMaps
<1> QED BY <1>1, <1>2, <1>3, BrokerInvariant, PTL DEF Spec, ImplementsBroadcast, Abs!Spec
=============================================================================
