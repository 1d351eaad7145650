----------------------------- MODULE MultiProofs -----------------------------
(***************************************************************************)
(* Proofs about MultiListen, for every number of sessions and connections, *)
(* and whatever the operator types.                                        *)
(***************************************************************************)
EXTENDS MultiListen, NatFacts, SequenceTheorems

(* The table: a session has its slot, its connection and its id to itself. *)
(* A free slot has no id.                                                  *)
SlotsInv ==
    /\ \A k \in OpenSlots : /\ st[sessions[k].conn] = "open"
                            /\ sessions[k].id \in 1..(next_id - 1)
                            /\ \A m \in OpenSlots \ {k} : /\ sessions[m].conn # sessions[k].conn
                                                          /\ sessions[m].id # sessions[k].id
    /\ \A c \in Conn : st[c] = "open" => \E k \in OpenSlots : sessions[k].conn = c
    /\ \A k \in Slot : sessions[k].conn = NoConn => sessions[k].id = 0

IdsInv == active_id < next_id /\ attached_id < next_id

(* A connection that waits is no session yet, one waits at a time, and     *)
(* accept() is called for one that waits.                                  *)
BacklogInv ==
    /\ Len(backlog) <= 1
    /\ \A m \in DOMAIN backlog : st[backlog[m]] = "backlog"
    /\ pc = "accept" /\ lready => backlog # <<>>

(* What was typed is handled once, and all of it is counted.               *)
CountInv == Len(owner) + Len(chunk) + Len(typed) <= MaxTyped

(* Numbers that a sequence does not pass, numbers that rise along it, and  *)
(* numbers later than all that was sent in attached mode.                  *)
UpTo(s, k) == \A m \in DOMAIN s : s[m].n <= k
Rising(s) == \A m \in DOMAIN s, n \in DOMAIN s : m < n => s[m].n < s[n].n
Later(h, s) == \A c \in Conn : \A m \in DOMAIN h[c], n \in DOMAIN s :
    h[c][m].via = "attached" => h[c][m].n < s[n].n

(* Numbers grow as tokens are handled: what is held back is in order and   *)
(* later than everything that was sent in attached mode.                   *)
OrderInv ==
    /\ \A c \in Conn : UpTo(to[c], Len(owner))
    /\ UpTo(line, Len(owner)) /\ UpTo(input, Len(owner))
    /\ held => Rising(line) /\ Later(to, line)
    /\ KeysInOrder

ConsoleInv == ConsoleOK /\ CountInv /\ OrderInv
KernelInv == KernelOK /\ BacklogInv

MultiInv == LoopOK /\ ConsoleInv /\ KernelInv /\ SlotsInv /\ IdsInv /\ ActiveLive

(* :all has not been used; a session is active if there is one.            *)
NoAll == \A n \in DOMAIN owner : owner[n].op # "all"
HasActive(s, id) == IF Open(s) = {} THEN id = 0 ELSE \E k \in Open(s) : s[k].id = id

(* What Sends adds to a connection.                                        *)
Via == {"attached", "control", "send", "all", "line"}
Labelled(items, via) == [m \in DOMAIN items |-> [n |-> items[m].n, via |-> via]]

-----------------------------------------------------------------------------
(* Numbers and sequences.                                                  *)

(* The least of some slots is one of them.                                 *)
LEMMA LowestIsMember ==
  ASSUME NEW S \in SUBSET Slot, S # {}
  PROVE  Lowest(S) \in S
<1>1. S \in SUBSET Nat
  BY MultiAssumption DEF Slot
<1>2. \E x \in S : \A y \in S : x <= y
  BY <1>1, LeastMember
<1> QED BY <1>2 DEF Lowest

(* What Sends adds is a sequence of what is sent.                          *)
LEMMA LabelledIsSeq ==
  ASSUME NEW items \in Seq(Item), NEW via \in Via
  PROVE  /\ Labelled(items, via) \in Seq(Sent)
         /\ Len(Labelled(items, via)) = Len(items)
         /\ \A m \in 1..Len(items) :
               Labelled(items, via)[m] = [n |-> items[m].n, via |-> via]
<1>1. Len(items) \in Nat /\ DOMAIN items = 1..Len(items)
  BY LenProperties
<1>2. \A m \in 1..Len(items) : items[m] \in Item
  BY ElementOfSeq
<1>3. Labelled(items, via) \in [1..Len(items) -> Sent]
  BY <1>1, <1>2 DEF Labelled, Item, Sent, Via
<1>4. Labelled(items, via) \in Seq(Sent)
  BY <1>1, <1>3, SeqDef
<1>5. Len(Labelled(items, via)) = Len(items)
  BY <1>1, <1>3, <1>4, LenProperties
<1> QED BY <1>1, <1>4, <1>5 DEF Labelled

(* A session is sent something, or nothing.                                *)
LEMMA SendsAppends ==
  ASSUME ConsoleOK, NEW S, NEW via \in Via, NEW items \in Seq(Item), Sends(S, via, items)
  PROVE  /\ to' \in [Conn -> Seq(Sent)]
         /\ \A c \in Conn : to'[c] = to[c] \/ to'[c] = to[c] \o Labelled(items, via)
<1>1. to \in [Conn -> Seq(Sent)] /\ Labelled(items, via) \in Seq(Sent)
  BY LabelledIsSeq DEF ConsoleOK
<1>2. \A c \in Conn : to[c] \in Seq(Sent) /\ to[c] \o Labelled(items, via) \in Seq(Sent)
  BY <1>1, ConcatProperties
<1>3. to' = [c \in Conn |-> IF \E k \in Reached(S) : sessions[k].conn = c
                            THEN to[c] \o Labelled(items, via) ELSE to[c]]
  BY DEF Sends, Labelled
<1> HIDE DEF Labelled
<1> QED BY <1>1, <1>2, <1>3

(* Keys of one sequence in order, and of one before those of another.      *)
InOrder(s) == \A m \in DOMAIN s, n \in DOMAIN s :
    (m < n /\ s[m].via = "attached" /\ s[n].via = "attached") => s[m].n < s[n].n
Before(s, l) == \A m \in DOMAIN s, n \in DOMAIN l :
    (s[m].via = "attached" /\ l[n].via = "attached") => s[m].n < l[n].n

(* What is sent has a number.                                              *)
LEMMA SentNumber ==
  ASSUME NEW s \in Seq(Sent), NEW m \in DOMAIN s
  PROVE  s[m] \in Sent /\ s[m].n \in Nat
<1>1. s[m] \in Sent
  BY LenProperties, ElementOfSeq
<1> QED BY <1>1, MultiAssumption DEF Sent

(* Where the elements of a longer sequence come from.                      *)
LEMMA ConcatElements ==
  ASSUME NEW s \in Seq(Sent), NEW l \in Seq(Sent), NEW t, t = s \o l
  PROVE  /\ DOMAIN t = 1..(Len(s) + Len(l)) /\ Len(s) \in Nat /\ Len(l) \in Nat
         /\ DOMAIN s = 1..Len(s) /\ DOMAIN l = 1..Len(l)
         /\ \A m \in DOMAIN t :
               \/ m \in DOMAIN s /\ t[m] = s[m]
               \/ m - Len(s) \in DOMAIN l /\ t[m] = l[m - Len(s)]
<1>1. /\ Len(s) \in Nat /\ Len(l) \in Nat
      /\ DOMAIN s = 1..Len(s) /\ DOMAIN l = 1..Len(l)
  BY LenProperties
<1>2. /\ t \in Seq(Sent) /\ Len(t) = Len(s) + Len(l)
      /\ \A m \in 1..(Len(s) + Len(l)) :
            t[m] = IF m <= Len(s) THEN s[m] ELSE l[m - Len(s)]
  BY ConcatProperties
<1>3. DOMAIN t = 1..(Len(s) + Len(l))
  BY <1>2, LenProperties
<1>4. ASSUME NEW m \in 1..(Len(s) + Len(l))
      PROVE  \/ m \in DOMAIN s /\ t[m] = s[m]
             \/ m - Len(s) \in DOMAIN l /\ t[m] = l[m - Len(s)]
  <2>1. CASE m <= Len(s)
    BY <1>1, <1>2, <2>1
  <2>2. CASE ~(m <= Len(s))
    <3>1. m - Len(s) \in 1..Len(l)
      BY <1>1, <2>2
    <3> QED BY <1>1, <1>2, <2>2, <3>1
  <2> QED BY <2>1, <2>2
<1> QED BY <1>1, <1>3, <1>4

(* Two sequences in order, one before the other.                           *)
LEMMA ConcatInOrder ==
  ASSUME NEW s \in Seq(Sent), NEW l \in Seq(Sent), NEW t, t = s \o l,
         InOrder(s), InOrder(l), Before(s, l)
  PROVE  InOrder(t)
<1>1. /\ Len(s) \in Nat /\ Len(l) \in Nat
      /\ DOMAIN s = 1..Len(s) /\ DOMAIN l = 1..Len(l)
  BY LenProperties
<1>2. /\ DOMAIN t = 1..(Len(s) + Len(l))
      /\ \A m \in DOMAIN t : \/ m \in DOMAIN s /\ t[m] = s[m]
                             \/ m - Len(s) \in DOMAIN l /\ t[m] = l[m - Len(s)]
  BY ConcatElements
<1>3. ASSUME NEW m \in DOMAIN t, NEW n \in DOMAIN t, m < n,
             t[m].via = "attached", t[n].via = "attached"
      PROVE  t[m].n < t[n].n
  <2>1. CASE n \in DOMAIN s /\ t[n] = s[n]
    <3>1. m \in DOMAIN s
      BY <1>1, <1>2, <1>3, <2>1
    <3>2. m - Len(s) \notin DOMAIN l
      BY <1>1, <3>1
    <3> QED BY <1>2, <1>3, <2>1, <3>1, <3>2 DEF InOrder
  <2>2. CASE /\ n - Len(s) \in DOMAIN l /\ t[n] = l[n - Len(s)]
             /\ m \in DOMAIN s /\ t[m] = s[m]
    BY <1>3, <2>2 DEF Before
  <2>3. CASE /\ n - Len(s) \in DOMAIN l /\ t[n] = l[n - Len(s)]
             /\ m - Len(s) \in DOMAIN l /\ t[m] = l[m - Len(s)]
    <3>1. m - Len(s) < n - Len(s)
      BY <1>1, <1>2, <1>3
    <3> QED BY <1>3, <2>3, <3>1 DEF InOrder
  <2> QED BY <1>2, <2>1, <2>2, <2>3
<1> QED BY <1>3 DEF InOrder

(* Sending keeps the order if what is sent in attached mode is in order    *)
(* and later than what was sent before.                                    *)
LEMMA SendsInOrder ==
  ASSUME ConsoleInv, NEW S, NEW via \in Via, NEW items \in Seq(Item), NEW top \in Nat,
         Sends(S, via, items), Len(owner) <= top, UpTo(items, top),
         via = "attached" => Rising(items) /\ Later(to, items)
  PROVE  /\ to' \in [Conn -> Seq(Sent)]
         /\ \A c \in Conn : UpTo(to'[c], top)
         /\ KeysInOrder'
         /\ via # "attached" => \A s : Later(to, s) => Later(to', s)
<1> DEFINE l == Labelled(items, via)
<1>1. /\ l \in Seq(Sent) /\ DOMAIN l = 1..Len(items) /\ DOMAIN items = 1..Len(items)
      /\ \A m \in 1..Len(items) : l[m] = [n |-> items[m].n, via |-> via]
  BY LabelledIsSeq, LenProperties
<1>2. /\ to \in [Conn -> Seq(Sent)] /\ to' \in [Conn -> Seq(Sent)]
      /\ \A c \in Conn : to'[c] = to[c] \/ to'[c] = to[c] \o l
  BY SendsAppends DEF ConsoleInv, ConsoleOK
<1> HIDE DEF l
<1>3. \A m \in DOMAIN l : l[m].n <= top /\ l[m].via = via
  BY <1>1 DEF UpTo
<1>4. InOrder(l)
  BY <1>1 DEF InOrder, Rising
<1>5. ASSUME NEW c \in Conn
      PROVE  /\ InOrder(to'[c]) /\ UpTo(to'[c], top)
             /\ \A m \in DOMAIN to'[c] : \/ m \in DOMAIN to[c] /\ to'[c][m] = to[c][m]
                                         \/ to'[c][m].via = via
  <2>1. to[c] \in Seq(Sent)
    BY <1>2
  <2>2. \A m \in DOMAIN to[c] : to[c][m].n <= top
    <3>1. \A m \in DOMAIN to[c] : to[c][m].n \in Nat
      BY <2>1, SentNumber
    <3>2. \A m \in DOMAIN to[c] : to[c][m].n <= Len(owner)
      BY DEF ConsoleInv, OrderInv, UpTo
    <3>3. Len(owner) \in Nat
      BY LenProperties DEF ConsoleInv, ConsoleOK
    <3> QED BY <3>1, <3>2, <3>3
  <2>3. InOrder(to[c])
    BY DEF ConsoleInv, OrderInv, KeysInOrder, InOrder
  <2>4. CASE to'[c] = to[c]
    BY <2>2, <2>3, <2>4 DEF UpTo
  <2>5. CASE to'[c] = to[c] \o l
    <3>1. Before(to[c], l)
      BY <1>1 DEF Before, Later
    <3>2. InOrder(to'[c])
      BY <1>1, <1>4, <2>1, <2>3, <2>5, <3>1, ConcatInOrder
    <3>3. \A m \in DOMAIN to'[c] : \/ m \in DOMAIN to[c] /\ to'[c][m] = to[c][m]
                                   \/ m - Len(to[c]) \in DOMAIN l /\ to'[c][m] = l[m - Len(to[c])]
      BY <1>1, <2>1, <2>5, ConcatElements
    <3> QED BY <1>3, <2>2, <3>2, <3>3 DEF UpTo
  <2> QED BY <1>2, <2>4, <2>5
<1>6. KeysInOrder'
  BY <1>5 DEF KeysInOrder, InOrder
<1>7. ASSUME via # "attached", NEW s, Later(to, s) PROVE Later(to', s)
  BY <1>5, <1>7 DEF Later
<1> QED BY <1>2, <1>5, <1>6, <1>7

(* A key with the next number goes to the end of what has lower numbers.   *)
LEMMA NextAppended ==
  ASSUME NEW s \in Seq(Item), NEW x \in Item, NEW k \in Nat, x.n = k + 1, UpTo(s, k),
         NEW t, t = Append(s, x)
  PROVE  /\ t \in Seq(Item) /\ UpTo(t, k + 1)
         /\ Rising(s) => Rising(t)
         /\ (/\ to \in [Conn -> Seq(Sent)] /\ \A c \in Conn : UpTo(to[c], k)
             /\ Later(to, s)) => Later(to, t)
<1>1. /\ t \in Seq(Item) /\ Len(s) \in Nat
      /\ DOMAIN s = 1..Len(s) /\ DOMAIN t = 1..(Len(s) + 1)
      /\ \A m \in 1..Len(s) : t[m] = s[m]
      /\ t[Len(s) + 1] = x
  BY AppendProperties, LenProperties
<1>2. \A m \in 1..Len(s) : s[m].n \in Nat /\ s[m].n <= k
  <2>1. \A m \in 1..Len(s) : s[m] \in Item
    BY ElementOfSeq
  <2> QED BY <1>1, <2>1, MultiAssumption DEF Item, UpTo
<1>3. \A m \in DOMAIN t : m \in 1..Len(s) \/ m = Len(s) + 1
  BY <1>1
<1>4. UpTo(t, k + 1)
  BY <1>1, <1>2, <1>3 DEF UpTo
<1>5. ASSUME Rising(s) PROVE Rising(t)
  BY <1>1, <1>2, <1>3, <1>5 DEF Rising
<1>6. ASSUME to \in [Conn -> Seq(Sent)], \A c \in Conn : UpTo(to[c], k), Later(to, s)
      PROVE  Later(to, t)
  <2>1. ASSUME NEW c \in Conn, NEW m \in DOMAIN to[c] PROVE to[c][m].n < k + 1
    <3>1. to[c][m].n \in Nat
      BY <1>6, SentNumber
    <3> QED BY <1>6, <3>1 DEF UpTo
  <2> QED BY <1>1, <1>3, <1>6, <2>1 DEF Later
<1> QED BY <1>1, <1>4, <1>5, <1>6

(* The empty line, and the line of one key.                                *)
LEMMA EmptyLine ==
  /\ <<>> \in Seq(Item) /\ MayDetach(<<>>)
  /\ \A k : UpTo(<<>>, k)
  /\ Rising(<<>>) /\ \A h : Later(h, <<>>)
<1>1. <<>> \in Seq(Item) /\ Len(<<>>) = 0
  BY EmptySeq
<1>2. DOMAIN <<>> = {}
  OBVIOUS
<1>3. MayDetach(<<>>)
  <2>1. Ops(<<>>) = <<>>
    BY <1>2 DEF Ops
  <2>2. SubSeq(DetachWord, 1, 0) = <<>>
    BY SubSeqEmpty
  <2>3. SubSeq(DetachWord, 1, Len(<<>>)) = <<>>
    BY <1>1, <2>2
  <2>4. Len(<<>>) <= 2
    BY <1>1
  <2> QED BY <2>1, <2>3, <2>4, Zenon DEF MayDetach
<1> QED BY <1>1, <1>2, <1>3 DEF UpTo, Rising, Later

(* A line of one key.                                                      *)
LEMMA OneKey ==
  ASSUME NEW x
  PROVE  <<x>> = Append(<<>>, x)
OBVIOUS

(* A line without its last key.                                            *)
LEMMA LastErased ==
  ASSUME NEW s \in Seq(Item), NEW t, t = SubSeq(s, 1, Len(s) - 1)
  PROVE  /\ t \in Seq(Item) /\ Len(s) \in Nat
         /\ DOMAIN t \subseteq DOMAIN s /\ \A m \in DOMAIN t : t[m] = s[m]
         /\ s # <<>> => Len(t) = Len(s) - 1
         /\ s = <<>> => t = <<>>
<1>1. Len(s) \in Nat /\ DOMAIN s = 1..Len(s) /\ \A m \in 1..Len(s) : s[m] \in Item
  BY LenProperties, ElementOfSeq
<1>2. CASE s = <<>>
  <2>1. t = <<>>
    BY <1>2, EmptySeq, SubSeqEmpty
  <2> QED BY <1>1, <1>2, <2>1
<1>3. CASE s # <<>>
  <2>1. Len(s) # 0
    BY <1>3, EmptySeq
  <2>2. \A m \in 1..(Len(s) - 1) : s[m] \in Item
    BY <1>1
  <2>3. /\ t \in Seq(Item) /\ Len(t) = Len(s) - 1
        /\ \A m \in 1..(Len(s) - 1) : t[m] = s[m]
    BY <1>1, <2>1, <2>2, SubSeqProperties
  <2>4. DOMAIN t = 1..(Len(s) - 1)
    BY <2>3, LenProperties
  <2> QED BY <1>1, <1>3, <2>3, <2>4
<1> QED BY <1>2, <1>3

(* What may become a detach word still may when its last key is erased.    *)
LEMMA ErasedMayDetach ==
  ASSUME NEW s \in Seq(Item), MayDetach(s)
  PROVE  MayDetach(SubSeq(s, 1, Len(s) - 1))
<1> DEFINE t == SubSeq(s, 1, Len(s) - 1)
<1>1. CASE s = <<>>
  BY <1>1, LastErased, EmptyLine
<1>2. CASE s # <<>>
  <2>1. /\ t \in Seq(Item) /\ Len(t) = Len(s) - 1 /\ DOMAIN t = 1..Len(t)
        /\ \A m \in DOMAIN t : t[m] = s[m]
    <3>1. /\ t \in Seq(Item) /\ Len(t) = Len(s) - 1
          /\ \A m \in DOMAIN t : t[m] = s[m]
      BY <1>2, LastErased
    <3> QED BY <3>1, LenProperties
  <2>5. Len(s) = 1 \/ Len(s) = 2
    <3>1. Len(s) \in Nat /\ Len(s) # 0
      BY <1>2, EmptySeq, LenProperties
    <3>2. Len(s) <= 2
      BY Zenon DEF MayDetach
    <3>3. \A n \in Nat : (n # 0 /\ n <= 2) => (n = 1 \/ n = 2)
      BY Z3
    <3> QED BY <3>1, <3>2, <3>3, Zenon
  <2> HIDE DEF t
  <2>2. CASE Len(s) = 1
    <3>1. t = <<>>
      BY <2>1, <2>2, EmptySeq
    <3> QED BY <3>1, EmptyLine DEF t
  <2>3. CASE Len(s) = 2
    <3>1. Ops(s)[1] = "b"
      BY <2>3 DEF MayDetach, DetachWord
    <3>2. t[1].op = "b"
      BY <2>1, <2>3, <3>1, LenProperties DEF Ops
    <3>3. Ops(t) = SubSeq(DetachWord, 1, 1)
      BY <2>1, <2>3, <3>2 DEF Ops, DetachWord
    <3> QED BY <2>1, <2>3, <3>3 DEF MayDetach, t
  <2> QED BY <2>2, <2>3, <2>5
<1> QED BY <1>1, <1>2

-----------------------------------------------------------------------------
(* The table.                                                              *)

Table == [Slot -> [conn : Conn \cup {NoConn}, id : Nat]]

(* The first session is one of them, if there is one.                      *)
LEMMA FirstIsOpen ==
  ASSUME NEW s
  PROVE  HasActive(s, multi_first_session_id(s))
<1>1. CASE Open(s) = {}
  BY <1>1 DEF HasActive, multi_first_session_id
<1>2. CASE Open(s) # {}
  <2>1. Open(s) \in SUBSET Slot
    BY DEF Open
  <2>2. Lowest(Open(s)) \in Open(s)
    BY <1>2, <2>1, LowestIsMember
  <2> QED BY <1>2, <2>2 DEF HasActive, multi_first_session_id
<1> QED BY <1>1, <1>2

(* The id of the active session has been given.                            *)
LEMMA ActiveGiven ==
  ASSUME NEW s \in Table, NEW n \in Nat \ {0}, NEW id, HasActive(s, id),
         \A k \in Open(s) : s[k].id \in 1..(n - 1)
  PROVE  id \in Nat /\ id < n
BY DEF HasActive

(* The active session is one that stays.                                   *)
LEMMA ActiveSurvives ==
  ASSUME NEW s, NEW t, NEW S, NEW id, HasActive(s, id), Open(t) = Open(s) \ S,
         \A k \in Open(s) \ S : t[k] = s[k],
         \A k \in Open(s) \cap S : s[k].id # id
  PROVE  HasActive(t, id)
<1>1. CASE Open(s) = {}
  BY <1>1 DEF HasActive
<1>2. CASE Open(s) # {}
  <2>1. PICK k \in Open(s) : s[k].id = id
    BY <1>2 DEF HasActive
  <2>2. k \in Open(t) /\ t[k].id = id
    BY <2>1
  <2> QED BY <2>2 DEF HasActive
<1> QED BY <1>1, <1>2

(* ActiveLive, before and after a step.                                    *)
LEMMA ActiveMeans ==
  /\ ActiveLive <=> ((NoAll /\ pc # "done") => HasActive(sessions, active_id))
  /\ ActiveLive' <=> ((NoAll' /\ pc' # "done") => HasActive(sessions', active_id'))
<1>1. \A s, id : {k \in Open(s) : s[k].id = id} # {} <=> \E k \in Open(s) : s[k].id = id
  OBVIOUS
<1> QED BY <1>1 DEF ActiveLive, NoAll, HasActive, OpenSlots, multi_find_by_id

(* multi_session_close frees the slots, closes their connections and       *)
(* leaves the others as they are.                                          *)
LEMMA CloseKeeps ==
  ASSUME LoopOK, KernelInv, SlotsInv, NEW S \in SUBSET OpenSlots,
         multi_session_close(S), next_id' = next_id
  PROVE  /\ sessions' \in Table
         /\ st' \in [Conn -> {"idle", "backlog", "open", "closed"}]
         /\ Open(sessions') = OpenSlots \ S
         /\ \A k \in OpenSlots \ S : sessions'[k] = sessions[k]
         /\ \A m \in DOMAIN backlog : st'[backlog[m]] = "backlog"
         /\ SlotsInv'
<1>1. /\ sessions \in Table /\ st \in [Conn -> {"idle", "backlog", "open", "closed"}]
      /\ OpenSlots \subseteq Slot
  BY DEF LoopOK, KernelInv, KernelOK, Table, OpenSlots, Open
<1>2. /\ sessions' \in Table
      /\ \A k \in Slot : sessions'[k] = IF k \in S THEN Free ELSE sessions[k]
  BY <1>1 DEF multi_session_close, Table, Free
<1>3. /\ st' \in [Conn -> {"idle", "backlog", "open", "closed"}]
      /\ \A c \in Conn : st'[c] = IF \E k \in S : sessions[k].conn = c THEN "closed" ELSE st[c]
  BY <1>1 DEF multi_session_close
<1>4. Open(sessions') = OpenSlots \ S
  BY <1>1, <1>2 DEF OpenSlots, Open, Free
<1>5. \A k \in OpenSlots \ S : sessions'[k] = sessions[k]
  BY <1>1, <1>2
<1>6. \A m \in DOMAIN backlog : st'[backlog[m]] = "backlog"
  <2> TAKE m \in DOMAIN backlog
  <2>1. backlog[m] \in Conn
    BY LenProperties, ElementOfSeq DEF KernelInv, KernelOK
  <2>2. st[backlog[m]] = "backlog"
    BY DEF KernelInv, BacklogInv
  <2>3. \A k \in S : sessions[k].conn # backlog[m]
    BY <2>2 DEF SlotsInv
  <2> QED BY <1>3, <2>1, <2>2, <2>3
<1>7. SlotsInv'
  <2>1. OpenSlots' = OpenSlots \ S
    BY <1>4 DEF OpenSlots
  <2>2. ASSUME NEW k \in OpenSlots \ S
        PROVE  /\ st'[sessions'[k].conn] = "open"
               /\ sessions'[k].id \in 1..(next_id' - 1)
               /\ \A m \in (OpenSlots \ S) \ {k} : /\ sessions'[m].conn # sessions'[k].conn
                                                   /\ sessions'[m].id # sessions'[k].id
    <3>1. sessions[k].conn \in Conn
      BY <1>1 DEF OpenSlots, Open, Table
    <3>2. \A m \in S : sessions[m].conn # sessions[k].conn
      BY DEF SlotsInv
    <3>3. st'[sessions[k].conn] = "open"
      BY <1>3, <3>1, <3>2 DEF SlotsInv
    <3> QED BY <1>5, <3>3 DEF SlotsInv
  <2>3. ASSUME NEW c \in Conn, st'[c] = "open"
        PROVE  \E k \in OpenSlots \ S : sessions'[k].conn = c
    <3>1. st[c] = "open" /\ \A k \in S : sessions[k].conn # c
      BY <1>3, <2>3
    <3> QED BY <1>5, <3>1 DEF SlotsInv
  <2>4. \A k \in Slot : sessions'[k].conn = NoConn => sessions'[k].id = 0
    BY <1>2 DEF SlotsInv, Free
  <2> QED BY <2>1, <2>2, <2>3, <2>4 DEF SlotsInv
<1> QED BY <1>2, <1>3, <1>4, <1>5, <1>6, <1>7

-----------------------------------------------------------------------------
(* What a step leaves alone.                                               *)

(* A step that does not touch the console keeps what holds of it.          *)
LEMMA ConsoleFrame ==
  ASSUME ConsoleInv, UNCHANGED consoleVars
  PROVE  ConsoleInv'
<1>1. UNCHANGED <<typed, chunk, sidx, input, line, held, owner, to>>
  BY DEF consoleVars
<1>2. ConsoleOK'
  BY <1>1 DEF ConsoleInv, ConsoleOK, MayDetach, Ops
<1>3. CountInv' /\ OrderInv'
  BY <1>1 DEF ConsoleInv, CountInv, OrderInv, KeysInOrder
<1> QED BY <1>2, <1>3 DEF ConsoleInv

(* The kernel after a step that only closes connections that do not wait.  *)
LEMMA KernelFrame ==
  ASSUME KernelInv, UNCHANGED <<backlog, pend, rx, fin, rst, stalled>>, pc' # "accept",
         st' \in [Conn -> {"idle", "backlog", "open", "closed"}],
         \A m \in DOMAIN backlog : st'[backlog[m]] = "backlog"
  PROVE  KernelInv'
BY DEF KernelInv, KernelOK, BacklogInv

(* The table is as it was.                                                 *)
LEMMA SlotsFrame ==
  ASSUME SlotsInv, UNCHANGED <<sessions, st, next_id>>
  PROVE  SlotsInv'
BY DEF SlotsInv, OpenSlots

(* The table and the active session are as they were.                      *)
LEMMA ActiveFrame ==
  ASSUME ActiveLive, UNCHANGED <<sessions, active_id>>, NoAll' => NoAll, pc # "done"
  PROVE  ActiveLive'
<1>1. HasActive(sessions', active_id') <=> HasActive(sessions, active_id)
  OBVIOUS
<1> QED BY <1>1, ActiveMeans

(* No token was handled, so :all has been used or not as before.           *)
LEMMA SameOwner ==
  ASSUME owner' = owner
  PROVE  NoAll' <=> NoAll
BY DEF NoAll

-----------------------------------------------------------------------------
(* A token is handled.                                                     *)

Owners == [op : Op, conn : Conn \cup {NoConn}]

(* The token gets the next number, and is counted.                         *)
LEMMA HandleFacts ==
  ASSUME LoopOK, ConsoleInv, Handle
  PROVE  /\ Now \in Item /\ Len(owner) \in Nat /\ Now.n = Len(owner) + 1
         /\ chunk' \in Seq(Tokens) /\ owner' \in Seq(Owners)
         /\ Len(owner') = Len(owner) + 1
         /\ CountInv'
         /\ NoAll' => NoAll /\ Now.op # "all"
<1>1. /\ chunk \in Seq(Tokens) /\ chunk # <<>> /\ typed \in Seq(Tokens)
      /\ owner \in Seq(Owners)
  BY DEF ConsoleInv, ConsoleOK, Handle, Owners
<1>2. /\ Head(chunk) \in Token /\ chunk' \in Seq(Tokens) /\ Len(chunk') = Len(chunk) - 1
      /\ Len(chunk) \in Nat \ {0}
  <2>1. Head(chunk) \in Tokens /\ Tail(chunk) \in Seq(Tokens) /\ Len(Tail(chunk)) = Len(chunk) - 1
    BY <1>1, HeadTailProperties
  <2>2. Len(chunk) \in Nat \ {0}
    BY <1>1, EmptySeq
  <2> QED BY <2>1, <2>2, MultiAssumption DEF Handle
<1>3. Len(owner) \in Nat /\ Len(typed) \in Nat
  BY <1>1, LenProperties
<1>4. Len(owner) + Len(chunk) + Len(typed) <= MaxTyped
  BY DEF ConsoleInv, CountInv
<1>5. Now \in Item /\ Now.n = Len(owner) + 1
  <2>1. Len(owner) + 1 \in 1..MaxTyped
    BY <1>2, <1>3, <1>4, MultiAssumption
  <2>2. Head(chunk).op \in Op
    BY <1>2 DEF Token
  <2> QED BY <2>1, <2>2 DEF Now, Item
<1>6. [op |-> Now.op, conn |-> AttachedConn] \in Owners
  <2>1. AttachedConn \in Conn \cup {NoConn}
    <3>1. CASE multi_find_by_id(attached_id) = {}
      BY <3>1 DEF AttachedConn
    <3>2. CASE multi_find_by_id(attached_id) # {}
      <4>1. multi_find_by_id(attached_id) \in SUBSET Slot
        BY DEF multi_find_by_id, OpenSlots, Open
      <4>2. Lowest(multi_find_by_id(attached_id)) \in Slot
        BY <3>2, <4>1, LowestIsMember
      <4> QED BY <3>2, <4>2 DEF AttachedConn, LoopOK
    <3> QED BY <3>1, <3>2
  <2>2. Now.op \in Op
    BY <1>5 DEF Item
  <2> QED BY <2>1, <2>2 DEF Owners
<1>7. owner' = Append(owner, [op |-> Now.op, conn |-> AttachedConn])
  BY DEF Handle
<1>8. /\ owner' \in Seq(Owners) /\ Len(owner') = Len(owner) + 1
      /\ \A m \in 1..Len(owner) : owner'[m] = owner[m]
      /\ owner'[Len(owner) + 1] = [op |-> Now.op, conn |-> AttachedConn]
  BY <1>1, <1>6, <1>7, AppendProperties
<1>9. CountInv'
  <2>1. typed' = typed
    BY DEF Handle
  <2> QED BY <1>2, <1>3, <1>4, <1>8, <2>1 DEF CountInv
<1>10. ASSUME NoAll' PROVE NoAll /\ Now.op # "all"
  <2>1. DOMAIN owner' = 1..(Len(owner) + 1) /\ DOMAIN owner = 1..Len(owner)
    BY <1>1, <1>8, LenProperties
  <2>2. \A m \in 1..(Len(owner) + 1) : owner'[m].op # "all"
    BY <1>10, <2>1 DEF NoAll
  <2>3. \A m \in 1..Len(owner) : owner[m].op # "all"
    BY <1>3, <1>8, <2>2
  <2>4. Now.op # "all"
    BY <1>3, <1>8, <2>2
  <2> QED BY <2>1, <2>3, <2>4 DEF NoAll
<1> QED BY <1>2, <1>3, <1>5, <1>8, <1>9, <1>10

(* The console is in order after a token if what the token changes is.     *)
LEMMA HandleKeeps ==
  ASSUME LoopOK, ConsoleInv, Handle,
         input' \in Seq(Item), line' \in Seq(Item), held' \in BOOLEAN,
         held' => MayDetach(line'), to' \in [Conn -> Seq(Sent)],
         UpTo(input', Len(owner) + 1), UpTo(line', Len(owner) + 1),
         \A c \in Conn : UpTo(to'[c], Len(owner) + 1),
         held' => Rising(line') /\ Later(to', line'), KeysInOrder'
  PROVE  ConsoleInv'
<1>1. /\ chunk' \in Seq(Tokens) /\ owner' \in Seq(Owners)
      /\ Len(owner') = Len(owner) + 1 /\ CountInv'
  BY HandleFacts
<1>2. typed' = typed /\ sidx' = sidx
  BY DEF Handle
<1>3. ConsoleOK'
  <2>1. (MayDetach(line))' <=> MayDetach(line')
    BY DEF MayDetach, Ops
  <2> QED BY <1>1, <1>2, <2>1 DEF ConsoleInv, ConsoleOK, Owners
<1>4. OrderInv'
  BY <1>1 DEF OrderInv
<1> QED BY <1>1, <1>3, <1>4 DEF ConsoleInv

(* The next number is past every number there is.                          *)
LEMMA NumbersPass ==
  ASSUME ConsoleInv
  PROVE  /\ Len(owner) \in Nat
         /\ UpTo(line, Len(owner) + 1) /\ UpTo(input, Len(owner) + 1)
         /\ \A c \in Conn : UpTo(to[c], Len(owner) + 1)
<1>1. Len(owner) \in Nat
  BY LenProperties DEF ConsoleInv, ConsoleOK
<1>2. ASSUME NEW s \in Seq(Item), UpTo(s, Len(owner)) PROVE UpTo(s, Len(owner) + 1)
  <2>1. \A m \in DOMAIN s : s[m].n \in Nat
    <3>1. \A m \in DOMAIN s : s[m] \in Item
      BY LenProperties, ElementOfSeq
    <3> QED BY <3>1, MultiAssumption DEF Item
  <2> QED BY <1>1, <1>2, <2>1 DEF UpTo
<1>3. ASSUME NEW s \in Seq(Sent), UpTo(s, Len(owner)) PROVE UpTo(s, Len(owner) + 1)
  <2>1. \A m \in DOMAIN s : s[m].n \in Nat
    BY SentNumber
  <2> QED BY <1>1, <1>3, <2>1 DEF UpTo
<1> QED BY <1>1, <1>2, <1>3 DEF ConsoleInv, ConsoleOK, OrderInv

(* A token that sends nothing and leaves the line alone.                   *)
LEMMA HandleSilent ==
  ASSUME LoopOK, ConsoleInv, Handle, UNCHANGED <<line, held, to>>,
         input' \in Seq(Item), UpTo(input', Len(owner) + 1)
  PROVE  ConsoleInv'
<1>1. UpTo(line', Len(owner) + 1) /\ \A c \in Conn : UpTo(to'[c], Len(owner) + 1)
  BY NumbersPass
<1>2. /\ line' \in Seq(Item) /\ held' \in BOOLEAN /\ (held' => MayDetach(line'))
      /\ to' \in [Conn -> Seq(Sent)]
  BY DEF ConsoleInv, ConsoleOK
<1>3. (held' => Rising(line') /\ Later(to', line')) /\ KeysInOrder'
  BY DEF ConsoleInv, OrderInv, KeysInOrder
<1> QED BY <1>1, <1>2, <1>3, HandleKeeps

(* A token that is sent past what is held back.                            *)
LEMMA HandlePasses ==
  ASSUME LoopOK, ConsoleInv, Handle, UNCHANGED <<line, held>>,
         NEW S, NEW via \in Via \ {"attached"}, NEW items \in Seq(Item),
         UpTo(items, Len(owner) + 1), Sends(S, via, items),
         input' \in Seq(Item), UpTo(input', Len(owner) + 1)
  PROVE  ConsoleInv'
<1>1. UpTo(line', Len(owner) + 1) /\ Len(owner) \in Nat
  BY NumbersPass
<1>2. line' \in Seq(Item) /\ held' \in BOOLEAN /\ (held' => MayDetach(line'))
  BY DEF ConsoleInv, ConsoleOK
<1>3. /\ to' \in [Conn -> Seq(Sent)] /\ \A c \in Conn : UpTo(to'[c], Len(owner) + 1)
      /\ KeysInOrder' /\ (Later(to, line) => Later(to', line))
  <2>1. Len(owner) + 1 \in Nat /\ Len(owner) <= Len(owner) + 1 /\ via \in Via /\ via # "attached"
    BY <1>1
  <2> QED BY <2>1, SendsInOrder
<1>4. held' => Rising(line') /\ Later(to', line')
  BY <1>3 DEF ConsoleInv, OrderInv
<1> QED BY <1>1, <1>2, <1>3, <1>4, HandleKeeps

(* A token that is sent with the line, and ends or releases it.            *)
LEMMA HandleReleases ==
  ASSUME LoopOK, ConsoleInv, Handle, input' = input, NEW S, NEW items \in Seq(Item),
         UpTo(items, Len(owner) + 1), Rising(items), Later(to, items),
         Sends(S, "attached", items),
         line' \in Seq(Item), UpTo(line', Len(owner) + 1),
         held' \in BOOLEAN, held' => line' = <<>>
  PROVE  ConsoleInv'
<1>1. UpTo(input', Len(owner) + 1) /\ Len(owner) \in Nat
  BY NumbersPass
<1>2. input' \in Seq(Item)
  BY DEF ConsoleInv, ConsoleOK
<1>3. /\ to' \in [Conn -> Seq(Sent)] /\ \A c \in Conn : UpTo(to'[c], Len(owner) + 1)
      /\ KeysInOrder'
  <2>1. Len(owner) + 1 \in Nat /\ Len(owner) <= Len(owner) + 1 /\ "attached" \in Via
    BY <1>1 DEF Via
  <2> QED BY <2>1, SendsInOrder
<1>4. held' => MayDetach(line') /\ Rising(line') /\ Later(to', line')
  BY EmptyLine
<1> QED BY <1>1, <1>2, <1>3, <1>4, HandleKeeps

-----------------------------------------------------------------------------
(* Steps that leave the table and the console alone.                       *)

(* A step of the loop that only moves on.                                  *)
LEMMA MovesOn ==
  ASSUME MultiInv, LoopOK', pc # "done",
         UNCHANGED <<sessions, idVars, consoleVars>>,
         UNCHANGED <<backlog, st, fin, rst, stalled>>, pc' # "accept",
         pend' \in [Conn -> {"none", "text", "http"}], rx' \in [Conn -> BOOLEAN]
  PROVE  MultiInv'
<1>1. ConsoleInv'
  BY ConsoleFrame DEF MultiInv
<1>2. KernelInv'
  BY DEF MultiInv, KernelInv, KernelOK, BacklogInv
<1>3. SlotsInv' /\ IdsInv'
  BY SlotsFrame DEF MultiInv, idVars, IdsInv
<1>4. ActiveLive'
  BY ActiveFrame, SameOwner DEF MultiInv, idVars, consoleVars
<1> QED BY <1>1, <1>2, <1>3, <1>4 DEF MultiInv

(* The sessions are connections.                                           *)
LEMMA ConnectedConn ==
  ASSUME LoopOK
  PROVE  Connected \subseteq Conn
BY DEF LoopOK, Connected, OpenSlots, Open

(* poll() reports sessions and finds who waits.                            *)
LEMMA PollKeeps ==
  ASSUME MultiInv, Poll
  PROVE  MultiInv'
<1>1. LoopOK'
  BY ConnectedConn DEF MultiInv, LoopOK, Poll, idVars, Eventful
<1>2. ConsoleInv'
  BY ConsoleFrame DEF MultiInv, Poll
<1>3. KernelInv'
  BY DEF MultiInv, KernelInv, KernelOK, BacklogInv, Poll, kernelVars
<1>4. SlotsInv' /\ IdsInv'
  BY SlotsFrame DEF MultiInv, Poll, idVars, kernelVars, IdsInv
<1>5. ActiveLive'
  BY ActiveFrame, SameOwner DEF MultiInv, Poll, idVars, consoleVars
<1> QED BY <1>1, <1>2, <1>3, <1>4, <1>5 DEF MultiInv

(* Nobody is accepted, nothing is read.                                    *)
LEMMA NothingKeeps ==
  ASSUME MultiInv, NoAccept \/ NoStdin
  PROVE  MultiInv'
<1>1. LoopOK'
  BY DEF MultiInv, LoopOK, NoAccept, NoStdin, idVars, pollVars
<1>2. pend' \in [Conn -> {"none", "text", "http"}] /\ rx' \in [Conn -> BOOLEAN]
  BY DEF MultiInv, KernelInv, KernelOK, NoAccept, NoStdin, kernelVars
<1> QED BY <1>1, <1>2, MovesOn DEF NoAccept, NoStdin, kernelVars

(* The next slot is a slot.                                                *)
LEMMA NextSlotOK ==
  ASSUME LoopOK, NextSlot
  PROVE  /\ i' \in Slot /\ pc' \in {"poll", "serve"}
         /\ evs' \subseteq Conn /\ errs' \subseteq evs'
         /\ lready' \in BOOLEAN /\ sready' \in BOOLEAN
<1>1. CASE i = MaxSessions
  <2>1. 1 \in Slot
    BY MultiAssumption DEF Slot
  <2>2. /\ pc' = "poll" /\ i' = 1 /\ evs' = {} /\ errs' = {}
        /\ lready' = FALSE /\ sready' = FALSE
    BY <1>1 DEF NextSlot
  <2> QED BY <2>1, <2>2
<1>2. CASE i # MaxSessions
  BY <1>2, MultiAssumption DEF NextSlot, Slot, LoopOK, pollVars
<1> QED BY <1>1, <1>2

(* A session has nothing to say, or is read.                               *)
LEMMA PassesKeeps ==
  ASSUME MultiInv, SkipSession \/ SessionReads
  PROVE  MultiInv'
<1>1. NextSlot /\ pc # "done"
  BY DEF SkipSession, SessionReads
<1>2. LoopOK'
  BY <1>1, NextSlotOK DEF MultiInv, LoopOK, SkipSession, SessionReads, idVars
<1>3. pend' \in [Conn -> {"none", "text", "http"}] /\ rx' \in [Conn -> BOOLEAN]
  BY DEF MultiInv, KernelInv, KernelOK, SkipSession, SessionReads, kernelVars
<1>4. pc' # "accept"
  BY <1>1, NextSlotOK DEF MultiInv
<1> QED BY <1>1, <1>2, <1>3, <1>4, MovesOn DEF SkipSession, SessionReads, kernelVars

(* Standard output is lost: the loop is told to stop.                      *)
LEMMA OutputFailsKeeps ==
  ASSUME MultiInv, OutputFails
  PROVE  MultiInv'
<1>1. LoopOK'
  BY DEF MultiInv, LoopOK, OutputFails, pollVars
<1>2. ConsoleInv'
  BY ConsoleFrame DEF MultiInv, OutputFails
<1>3. KernelInv'
  BY DEF MultiInv, KernelInv, KernelOK, BacklogInv, OutputFails
<1>4. SlotsInv' /\ IdsInv'
  BY SlotsFrame DEF MultiInv, OutputFails, IdsInv, LoopOK
<1>5. ActiveLive'
  BY ActiveFrame, SameOwner DEF MultiInv, OutputFails, consoleVars
<1> QED BY <1>1, <1>2, <1>3, <1>4, <1>5 DEF MultiInv

(* What has been typed is read, or has all been handled.                   *)
LEMMA ReadKeeps ==
  ASSUME MultiInv, ReadStdin \/ KeysDone
  PROVE  MultiInv'
<1>1. LoopOK'
  BY DEF MultiInv, LoopOK, ReadStdin, KeysDone, idVars, pollVars
<1>2. /\ typed' \in Seq(Tokens) /\ chunk' \in Seq(Tokens)
      /\ Len(chunk') + Len(typed') <= Len(chunk) + Len(typed)
      /\ Len(chunk') \in Nat /\ Len(typed') \in Nat
  <2>1. /\ typed \in Seq(Tokens) /\ chunk \in Seq(Tokens)
        /\ Len(chunk) \in Nat /\ Len(typed) \in Nat
    BY LenProperties DEF MultiInv, ConsoleInv, ConsoleOK
  <2>2. CASE ReadStdin
    BY <2>1, <2>2, EmptySeq DEF ReadStdin
  <2>3. CASE KeysDone
    BY <2>1, <2>3 DEF KeysDone
  <2> QED BY <2>2, <2>3
<1>3. sidx' \in Slot \cup {0}
  <2>1. multi_find_by_id(attached_id) \in SUBSET Slot
    BY DEF multi_find_by_id, OpenSlots, Open
  <2> QED BY <2>1, LowestIsMember DEF ReadStdin, KeysDone
<1>4. UNCHANGED <<input, line, held, owner, to>>
  BY DEF ReadStdin, KeysDone
<1>5. ConsoleInv'
  <2>1. ConsoleOK'
    BY <1>2, <1>3, <1>4 DEF MultiInv, ConsoleInv, ConsoleOK, MayDetach, Ops
  <2>2. CountInv'
    <3>1. Len(owner) \in Nat /\ Len(chunk) \in Nat /\ Len(typed) \in Nat
      BY LenProperties DEF MultiInv, ConsoleInv, ConsoleOK
    <3>2. Len(owner) + Len(chunk) + Len(typed) <= MaxTyped
      BY DEF MultiInv, ConsoleInv, CountInv
    <3> QED BY <1>2, <1>4, <3>1, <3>2, MultiAssumption DEF CountInv
  <2>3. OrderInv'
    BY <1>4 DEF MultiInv, ConsoleInv, OrderInv, KeysInOrder
  <2> QED BY <2>1, <2>2, <2>3 DEF ConsoleInv
<1>6. KernelInv'
  BY DEF MultiInv, KernelInv, KernelOK, BacklogInv, ReadStdin, KeysDone, kernelVars
<1>7. SlotsInv' /\ IdsInv'
  BY SlotsFrame DEF MultiInv, ReadStdin, KeysDone, kernelVars, idVars, IdsInv
<1>8. ActiveLive'
  BY <1>4, ActiveFrame, SameOwner DEF MultiInv, ReadStdin, KeysDone, idVars
<1> QED BY <1>1, <1>5, <1>6, <1>7, <1>8 DEF MultiInv

(* The attached session is gone: the first one becomes active.             *)
LEMMA AttachedGoneKeeps ==
  ASSUME MultiInv, AttachedGone
  PROVE  MultiInv'
<1>1. HasActive(sessions', active_id')
  BY FirstIsOpen DEF AttachedGone
<1>2. active_id' \in Nat /\ active_id' < next_id
  BY <1>1, ActiveGiven DEF MultiInv, LoopOK, SlotsInv, OpenSlots, Table, AttachedGone
<1>3. LoopOK'
  BY <1>2 DEF MultiInv, LoopOK, AttachedGone, pollVars
<1>4. ConsoleInv'
  BY ConsoleFrame DEF MultiInv, AttachedGone
<1>5. KernelInv'
  BY DEF MultiInv, KernelInv, KernelOK, BacklogInv, AttachedGone, kernelVars
<1>6. SlotsInv' /\ IdsInv'
  BY <1>2, SlotsFrame DEF MultiInv, AttachedGone, kernelVars, IdsInv, LoopOK
<1>7. ActiveLive'
  BY <1>1, ActiveMeans
<1> QED BY <1>3, <1>4, <1>5, <1>6, <1>7 DEF MultiInv

-----------------------------------------------------------------------------
(* Steps of the operator, the peers and the signal.                        *)

(* The operator types.                                                     *)
LEMMA TypeKeeps ==
  ASSUME MultiInv, NEW t \in Tokens, Type(t)
  PROVE  MultiInv'
<1>1. UNCHANGED <<stop, pc, i, result, sessions, idVars, pollVars, kernelVars>>
  BY DEF Type, loopVars
<1>2. UNCHANGED <<chunk, sidx, input, line, held, owner, to>>
  BY DEF Type, loopVars
<1>3. typed' \in Seq(Tokens) /\ Len(typed') = Len(typed) + 1
  BY AppendProperties DEF Type, MultiInv, ConsoleInv, ConsoleOK
<1>4. ConsoleInv'
  <2>1. ConsoleOK'
    BY <1>2, <1>3 DEF MultiInv, ConsoleInv, ConsoleOK, MayDetach, Ops
  <2>2. CountInv'
    <3>1. Len(owner) \in Nat /\ Len(chunk) \in Nat /\ Len(typed) \in Nat
      BY LenProperties DEF MultiInv, ConsoleInv, ConsoleOK
    <3>2. Len(owner) + Len(chunk) + Len(typed) < MaxTyped
      BY DEF Type
    <3> QED BY <1>2, <1>3, <3>1, <3>2, MultiAssumption DEF CountInv
  <2>3. OrderInv'
    BY <1>2 DEF MultiInv, ConsoleInv, OrderInv, KeysInOrder
  <2> QED BY <2>1, <2>2, <2>3 DEF ConsoleInv
<1>5. LoopOK' /\ KernelInv'
  BY <1>1 DEF MultiInv, LoopOK, KernelInv, KernelOK, BacklogInv, idVars, pollVars, kernelVars
<1>6. SlotsInv' /\ IdsInv'
  BY <1>1, SlotsFrame DEF MultiInv, kernelVars, idVars, IdsInv
<1>7. ActiveLive'
  BY <1>1, <1>2, ActiveFrame, SameOwner DEF MultiInv, idVars, Type
<1> QED BY <1>4, <1>5, <1>6, <1>7 DEF MultiInv

(* A peer connects: the connection waits.                                  *)
LEMMA ConnectKeeps ==
  ASSUME MultiInv, NEW c \in Conn, Connect(c)
  PROVE  MultiInv'
<1>1. UNCHANGED <<stop, pc, i, result, sessions, idVars, pollVars, consoleVars>>
  BY DEF Connect, loopVars, consoleVars
<1>2. LoopOK' /\ ConsoleInv'
  BY <1>1, ConsoleFrame DEF MultiInv, LoopOK, idVars, pollVars
<1>3. /\ st \in [Conn -> {"idle", "backlog", "open", "closed"}] /\ st[c] = "idle"
      /\ st' = [st EXCEPT ![c] = "backlog"]
  BY DEF MultiInv, KernelInv, KernelOK, Connect
<1>4. KernelInv'
  <2>1. backlog' = <<c>> /\ Len(backlog') = 1 /\ backlog' \in Seq(Conn) /\ backlog'[1] = c
    BY DEF Connect
  <2>2. \A m \in DOMAIN backlog' : st'[backlog'[m]] = "backlog"
    BY <1>3, <2>1
  <2>3. pc' # "accept"
    BY <1>1 DEF Connect
  <2> QED BY <1>3, <2>1, <2>2, <2>3 DEF MultiInv, KernelInv, KernelOK, BacklogInv, Connect
<1>5. SlotsInv' /\ IdsInv'
  <2>1. \A k \in OpenSlots : sessions[k].conn \in Conn \ {c}
    BY <1>3 DEF MultiInv, LoopOK, SlotsInv, OpenSlots, Open
  <2>2. \A d \in Conn \ {c} : st'[d] = st[d]
    BY <1>3
  <2>3. OpenSlots' = OpenSlots /\ next_id' = next_id
    BY <1>1 DEF OpenSlots, idVars
  <2>4. st'[c] = "backlog"
    BY <1>3
  <2> QED BY <1>1, <2>1, <2>2, <2>3, <2>4 DEF MultiInv, SlotsInv, IdsInv, idVars
<1>6. ActiveLive'
  BY <1>1, ActiveFrame, SameOwner DEF MultiInv, idVars, consoleVars, Connect
<1> QED BY <1>2, <1>4, <1>5, <1>6 DEF MultiInv

(* A peer talks, closes, stalls or reads again.                            *)
LEMMA PeerKeeps ==
  ASSUME MultiInv, NEW c \in Conn,
         \/ PeerSays(c, "text") \/ PeerSays(c, "http") \/ PeerCloses(c)
         \/ PeerStalls(c) \/ PeerResumes(c)
  PROVE  MultiInv'
<1>1. UNCHANGED <<stop, pc, i, result, sessions, idVars, pollVars, consoleVars, backlog, st>>
  BY DEF PeerSays, PeerCloses, PeerStalls, PeerResumes, loopVars, consoleVars
<1>2. LoopOK' /\ ConsoleInv'
  BY <1>1, ConsoleFrame DEF MultiInv, LoopOK, idVars, pollVars
<1>3. KernelInv'
  <2>1. /\ pend' \in [Conn -> {"none", "text", "http"}] /\ rx' \in [Conn -> BOOLEAN]
        /\ fin' \in [Conn -> BOOLEAN] /\ rst' \in [Conn -> BOOLEAN]
        /\ stalled' \in [Conn -> {"no", "yes", "over"}]
    BY DEF MultiInv, KernelInv, KernelOK, PeerSays, PeerCloses, PeerStalls, PeerResumes
  <2> QED BY <1>1, <2>1 DEF MultiInv, KernelInv, KernelOK, BacklogInv, pollVars
<1>4. SlotsInv' /\ IdsInv'
  BY <1>1, SlotsFrame DEF MultiInv, idVars, IdsInv
<1>5. ActiveLive'
  <2>1. NoAll' <=> NoAll
    BY <1>1, SameOwner DEF consoleVars
  <2>2. HasActive(sessions', active_id') <=> HasActive(sessions, active_id)
    BY <1>1 DEF idVars
  <2> QED BY <1>1, <2>1, <2>2, ActiveMeans DEF MultiInv
<1> QED BY <1>2, <1>3, <1>4, <1>5 DEF MultiInv

(* A signal, or nothing.                                                   *)
LEMMA SignalKeeps ==
  ASSUME MultiInv, Signal \/ Terminated \/ UNCHANGED vars
  PROVE  MultiInv'
<1>1. UNCHANGED <<pc, i, result, sessions, idVars, pollVars, consoleVars, kernelVars>>
  BY DEF Signal, Terminated, vars, loopVars, consoleVars, idVars, pollVars, kernelVars
<1>2. stop' \in BOOLEAN
  BY DEF MultiInv, LoopOK, Signal, Terminated, vars
<1>3. LoopOK' /\ ConsoleInv'
  BY <1>1, <1>2, ConsoleFrame DEF MultiInv, LoopOK, idVars, pollVars
<1>4. KernelInv'
  BY <1>1 DEF MultiInv, KernelInv, KernelOK, BacklogInv, kernelVars, pollVars
<1>5. SlotsInv' /\ IdsInv'
  BY <1>1, SlotsFrame DEF MultiInv, idVars, IdsInv, kernelVars
<1>6. ActiveLive'
  <2>1. NoAll' <=> NoAll
    BY <1>1, SameOwner DEF consoleVars
  <2>2. HasActive(sessions', active_id') <=> HasActive(sessions, active_id)
    BY <1>1 DEF idVars
  <2> QED BY <1>1, <2>1, <2>2, ActiveMeans DEF MultiInv
<1> QED BY <1>3, <1>4, <1>5, <1>6 DEF MultiInv

-----------------------------------------------------------------------------
(* Steps that change the table.                                            *)

(* The loop ends, and everything is closed.                                *)
LEMMA CleanupKeeps ==
  ASSUME MultiInv, Shutdown \/ PollFails
  PROVE  MultiInv'
<1>1. Cleanup /\ result' \in {0, 1}
  BY DEF MultiInv, LoopOK, Shutdown, PollFails
<1>2. sessions' = [k \in Slot |-> Free] /\ Open(sessions') = {}
  BY <1>1 DEF Cleanup, Open, Free
<1>3. sessions' \in [Slot -> [conn : Conn \cup {NoConn}, id : Nat]]
  BY <1>2 DEF Free
<1>4. LoopOK'
  BY <1>1, <1>3 DEF MultiInv, LoopOK, Cleanup, idVars, pollVars
<1>5. ConsoleInv'
  BY <1>1, ConsoleFrame DEF MultiInv, Cleanup
<1>6. /\ st' \in [Conn -> {"idle", "backlog", "open", "closed"}]
      /\ \A c \in Conn : st'[c] # "open"
  BY <1>1 DEF MultiInv, KernelInv, KernelOK, Cleanup
<1>7. KernelInv'
  <2>1. backlog' \in Seq(Conn) /\ Len(backlog') = 0 /\ DOMAIN backlog' = {}
    BY <1>1, EmptySeq DEF Cleanup
  <2> QED BY <1>1, <1>6, <2>1 DEF MultiInv, KernelInv, KernelOK, BacklogInv, Cleanup
<1>8. SlotsInv' /\ IdsInv'
  <2>1. \A k \in Slot : sessions'[k].id = 0
    BY <1>2 DEF Free
  <2> QED BY <1>1, <1>2, <1>6, <2>1 DEF MultiInv, SlotsInv, IdsInv, OpenSlots, Cleanup, idVars
<1>9. ActiveLive'
  BY <1>1, ActiveMeans DEF Cleanup
<1> QED BY <1>4, <1>5, <1>7, <1>8, <1>9 DEF MultiInv

(* The connection that is accepted is the only one that waits.             *)
LEMMA TheOneThatWaits ==
  ASSUME KernelInv, pc = "accept", lready
  PROVE  /\ Head(backlog) \in Conn /\ st[Head(backlog)] = "backlog"
         /\ Tail(backlog) \in Seq(Conn) /\ Len(Tail(backlog)) = 0
         /\ DOMAIN Tail(backlog) = {}
<1>1. backlog \in Seq(Conn) /\ backlog # <<>> /\ Len(backlog) <= 1
  BY DEF KernelInv, KernelOK, BacklogInv
<1>2. Len(backlog) = 1
  <2>1. Len(backlog) \in Nat \ {0}
    BY <1>1, EmptySeq
  <2>2. \A n \in Nat \ {0} : n <= 1 => n = 1
    OBVIOUS
  <2> QED BY <1>1, <2>1, <2>2, Zenon
<1>3. /\ Head(backlog) \in Conn /\ Tail(backlog) \in Seq(Conn)
      /\ Len(Tail(backlog)) = Len(backlog) - 1
  BY <1>1, HeadTailProperties
<1>4. Head(backlog) = backlog[1] /\ 1 \in DOMAIN backlog
  BY <1>1, <1>2, LenProperties
<1>5. st[Head(backlog)] = "backlog"
  BY <1>4 DEF KernelInv, BacklogInv
<1>6. Len(Tail(backlog)) = 0
  BY <1>2, <1>3
<1>7. DOMAIN Tail(backlog) = {}
  <2>1. DOMAIN Tail(backlog) = 1..Len(Tail(backlog))
    BY <1>3, LenProperties
  <2>2. 1..0 = {}
    OBVIOUS
  <2> QED BY <1>6, <2>1, <2>2, Zenon
<1> QED BY <1>3, <1>5, <1>6, <1>7

(* A connection is refused.                                                *)
LEMMA AcceptClosesKeeps ==
  ASSUME MultiInv, AcceptCloses
  PROVE  MultiInv'
<1> DEFINE h == Head(backlog)
<1>1. /\ h \in Conn /\ st[h] = "backlog" /\ backlog' \in Seq(Conn)
      /\ Len(backlog') = 0 /\ DOMAIN backlog' = {}
  BY TheOneThatWaits DEF MultiInv, AcceptCloses
<1>2. /\ st \in [Conn -> {"idle", "backlog", "open", "closed"}]
      /\ st' = [st EXCEPT ![h] = "closed"]
  BY DEF MultiInv, KernelInv, KernelOK, AcceptCloses
<1> HIDE DEF h
<1>3. LoopOK'
  BY DEF MultiInv, LoopOK, AcceptCloses, idVars, pollVars
<1>4. ConsoleInv'
  BY ConsoleFrame DEF MultiInv, AcceptCloses
<1>5. KernelInv'
  BY <1>1, <1>2 DEF MultiInv, KernelInv, KernelOK, BacklogInv, AcceptCloses
<1>6. SlotsInv' /\ IdsInv'
  <2>1. \A k \in OpenSlots : sessions[k].conn \in Conn \ {h}
    BY <1>1 DEF MultiInv, LoopOK, SlotsInv, OpenSlots, Open
  <2>2. \A d \in Conn \ {h} : st'[d] = st[d]
    BY <1>2
  <2>3. OpenSlots' = OpenSlots /\ UNCHANGED <<sessions, next_id, active_id, attached_id>>
    BY DEF OpenSlots, idVars, AcceptCloses
  <2>4. st'[h] = "closed"
    BY <1>1, <1>2
  <2> QED BY <2>1, <2>2, <2>3, <2>4 DEF MultiInv, SlotsInv, IdsInv
<1>7. ActiveLive'
  BY ActiveFrame, SameOwner DEF MultiInv, AcceptCloses, idVars, consoleVars
<1> QED BY <1>3, <1>4, <1>5, <1>6, <1>7 DEF MultiInv

(* A connection becomes a session: a free slot, and an id never given.     *)
LEMMA AcceptSessionKeeps ==
  ASSUME MultiInv, AcceptSession
  PROVE  MultiInv'
<1> DEFINE h == Head(backlog)
<1>1. /\ h \in Conn /\ st[h] = "backlog" /\ backlog' \in Seq(Conn)
      /\ Len(backlog') = 0 /\ DOMAIN backlog' = {}
  BY TheOneThatWaits DEF MultiInv, AcceptSession
<1>2. /\ st \in [Conn -> {"idle", "backlog", "open", "closed"}]
      /\ st' = [st EXCEPT ![h] = "open"]
  BY DEF MultiInv, KernelInv, KernelOK, AcceptSession
<1>3. JoinsAt \in Slot /\ JoinsAt \notin OpenSlots
  <2>1. Slot \ OpenSlots \in SUBSET Slot /\ Slot \ OpenSlots # {}
    BY DEF AcceptSession, OpenSlots, Open
  <2> QED BY <2>1, LowestIsMember DEF JoinsAt
<1>4. /\ sessions \in Table /\ next_id \in Nat \ {0}
      /\ sessions' = [sessions EXCEPT ![JoinsAt] = [conn |-> h, id |-> next_id]]
  BY DEF MultiInv, LoopOK, Table, AcceptSession
<1> HIDE DEF h
<1>5. /\ sessions' \in Table /\ sessions'[JoinsAt] = [conn |-> h, id |-> next_id]
      /\ \A k \in Slot \ {JoinsAt} : sessions'[k] = sessions[k]
  <2>1. [conn |-> h, id |-> next_id] \in [conn : Conn \cup {NoConn}, id : Nat]
    BY <1>1, <1>4
  <2> HIDE DEF JoinsAt
  <2> QED BY <1>3, <1>4, <2>1 DEF Table
<1>6. Open(sessions') = OpenSlots \cup {JoinsAt} /\ OpenSlots \subseteq Slot
  <2> HIDE DEF JoinsAt
  <2>1. sessions'[JoinsAt].conn # NoConn
    BY <1>1, <1>5, MultiAssumption
  <2> QED BY <1>3, <1>5, <2>1 DEF OpenSlots, Open
<1>7. LoopOK'
  <2>1. active_id' \in Nat /\ next_id' \in Nat \ {0}
    BY DEF MultiInv, LoopOK, AcceptSession
  <2> QED BY <1>5, <2>1 DEF MultiInv, LoopOK, Table, AcceptSession, pollVars
<1>8. ConsoleInv'
  BY ConsoleFrame DEF MultiInv, AcceptSession
<1>9. KernelInv'
  BY <1>1, <1>2 DEF MultiInv, KernelInv, KernelOK, BacklogInv, AcceptSession
<1>10. SlotsInv'
  <2>1. \A k \in OpenSlots : sessions[k].conn \in Conn \ {h} /\ k \in Slot \ {JoinsAt}
    BY <1>1, <1>3, <1>6 DEF MultiInv, LoopOK, SlotsInv, OpenSlots, Open
  <2>2. /\ \A d \in Conn \ {h} : st'[d] = st[d]
        /\ st'[h] = "open"
    BY <1>1, <1>2
  <2>3. OpenSlots' = OpenSlots \cup {JoinsAt} /\ next_id' = next_id + 1
    BY <1>6 DEF OpenSlots, AcceptSession
  <2> HIDE DEF JoinsAt
  <2>4. \A k \in OpenSlots : sessions'[k] = sessions[k] /\ sessions[k].id \in 1..(next_id - 1)
    BY <1>5, <2>1 DEF MultiInv, SlotsInv
  <2>5. \A k \in OpenSlots' : st'[sessions'[k].conn] = "open"
    BY <1>5, <2>1, <2>2, <2>3, <2>4 DEF MultiInv, SlotsInv
  <2>6. \A k \in OpenSlots' : sessions'[k].id \in 1..(next_id' - 1)
    BY <1>4, <1>5, <2>3, <2>4
  <2>7. ASSUME NEW k \in OpenSlots', NEW m \in OpenSlots' \ {k}
        PROVE  sessions'[m].conn # sessions'[k].conn /\ sessions'[m].id # sessions'[k].id
    <3>1. CASE k = JoinsAt
      BY <1>4, <1>5, <2>1, <2>3, <2>4, <3>1
    <3>2. CASE m = JoinsAt
      BY <1>4, <1>5, <2>1, <2>3, <2>4, <3>2
    <3>3. CASE k # JoinsAt /\ m # JoinsAt
      BY <2>3, <2>4, <3>3 DEF MultiInv, SlotsInv
    <3> QED BY <3>1, <3>2, <3>3
  <2>8. ASSUME NEW d \in Conn, st'[d] = "open" PROVE \E k \in OpenSlots' : sessions'[k].conn = d
    <3>1. CASE d = h
      BY <1>5, <2>3, <3>1
    <3>2. CASE d # h
      BY <2>2, <2>3, <2>4, <2>8, <3>2 DEF MultiInv, SlotsInv
    <3> QED BY <3>1, <3>2
  <2>9. ASSUME NEW k \in Slot, sessions'[k].conn = NoConn PROVE sessions'[k].id = 0
    <3>1. k # JoinsAt
      BY <1>1, <1>5, <2>9, MultiAssumption
    <3> QED BY <1>5, <2>9, <3>1 DEF MultiInv, SlotsInv
  <2> QED BY <2>5, <2>6, <2>7, <2>8, <2>9 DEF SlotsInv
<1>11. IdsInv'
  BY DEF MultiInv, LoopOK, IdsInv, AcceptSession
<1>12. ActiveLive'
  <2>1. NoAll' <=> NoAll
    BY SameOwner DEF AcceptSession, consoleVars
  <2>2. ASSUME NoAll PROVE HasActive(sessions', active_id')
    <3>1. HasActive(sessions, active_id)
      BY <2>2, ActiveMeans DEF MultiInv, AcceptSession
    <3> HIDE DEF JoinsAt
    <3>2. CASE active_id = 0
      <4>1. active_id' = next_id
        BY <3>2 DEF AcceptSession
      <4>2. JoinsAt \in Open(sessions') /\ sessions'[JoinsAt].id = active_id'
        BY <1>5, <1>6, <4>1
      <4> QED BY <4>2 DEF HasActive
    <3>3. CASE active_id # 0
      <4>1. PICK k \in OpenSlots : sessions[k].id = active_id
        BY <3>1, <3>3 DEF HasActive, OpenSlots
      <4>2. k \in Open(sessions') /\ sessions'[k].id = active_id
        BY <1>3, <1>5, <1>6, <4>1
      <4>3. active_id' = active_id
        BY <3>3 DEF AcceptSession
      <4> QED BY <4>2, <4>3 DEF HasActive
    <3> QED BY <3>2, <3>3
  <2> QED BY <2>1, <2>2, ActiveMeans
<1> QED BY <1>7, <1>8, <1>9, <1>10, <1>11, <1>12 DEF MultiInv

(* A session leaves: the first one takes the place of the active one.      *)
LEMMA LeaveKeeps ==
  ASSUME MultiInv, SessionLeaves \/ SessionHttp
  PROVE  MultiInv'
<1>1. /\ Leave /\ C \in evs /\ pc # "done"
      /\ pend' \in [Conn -> {"none", "text", "http"}]
  BY DEF MultiInv, KernelInv, KernelOK, SessionLeaves, SessionHttp
<1>2. {i} \in SUBSET OpenSlots
  BY <1>1, MultiAssumption DEF MultiInv, LoopOK, OpenSlots, Open, C
<1>3. multi_session_close({i}) /\ next_id' = next_id
  BY <1>1 DEF Leave
<1>4. /\ sessions' \in Table
      /\ st' \in [Conn -> {"idle", "backlog", "open", "closed"}]
      /\ Open(sessions') = OpenSlots \ {i}
      /\ \A k \in OpenSlots \ {i} : sessions'[k] = sessions[k]
      /\ \A m \in DOMAIN backlog : st'[backlog[m]] = "backlog"
      /\ SlotsInv'
  BY <1>2, <1>3, CloseKeeps DEF MultiInv
<1>5. active_id' \in Nat /\ active_id' < next_id
  <2>1. CASE active_id' = active_id
    BY <2>1 DEF MultiInv, LoopOK, IdsInv
  <2>2. CASE active_id' = multi_first_session_id(sessions')
    <3>1. HasActive(sessions', active_id')
      BY <2>2, FirstIsOpen
    <3> QED BY <1>3, <1>4, <3>1, ActiveGiven DEF MultiInv, LoopOK, SlotsInv, OpenSlots
  <2> QED BY <1>1, <2>1, <2>2 DEF Leave
<1>6. attached_id' \in Nat /\ attached_id' < next_id
  BY <1>1 DEF MultiInv, LoopOK, IdsInv, Leave
<1>7. LoopOK'
  <2>1. NextSlot /\ UNCHANGED <<stop, result, next_id>>
    BY <1>1 DEF Leave
  <2> QED BY <1>4, <1>5, <1>6, <2>1, NextSlotOK DEF MultiInv, LoopOK, Table
<1>8. ConsoleInv'
  BY <1>1, ConsoleFrame DEF MultiInv, Leave
<1>9. KernelInv'
  <2>1. pc' # "accept"
    BY <1>1, NextSlotOK DEF MultiInv, Leave
  <2> QED BY <1>1, <1>4, <2>1 DEF MultiInv, KernelInv, KernelOK, BacklogInv, Leave
<1>10. IdsInv'
  BY <1>3, <1>5, <1>6 DEF IdsInv
<1>11. ActiveLive'
  <2>1. NoAll' <=> NoAll
    BY <1>1, SameOwner DEF Leave, consoleVars
  <2>2. ASSUME NoAll PROVE HasActive(sessions', active_id')
    <3>1. active_id # 0
      <4>1. HasActive(sessions, active_id)
        BY <1>1, <2>2, ActiveMeans DEF MultiInv
      <4> QED BY <1>2, <4>1 DEF MultiInv, SlotsInv, HasActive, OpenSlots
    <3>2. CASE \A k \in Slot : sessions'[k].id # active_id
      <4>1. active_id' = multi_first_session_id(sessions')
        BY <1>1, <3>1, <3>2 DEF Leave
      <4> QED BY <4>1, FirstIsOpen
    <3>3. CASE ~(\A k \in Slot : sessions'[k].id # active_id)
      <4>1. active_id' = active_id
        BY <1>1, <3>3 DEF Leave
      <4>2. PICK k \in Slot : sessions'[k].id = active_id
        BY <3>3
      <4>3. sessions'[k].conn # NoConn
        BY <1>4, <3>1, <4>2 DEF SlotsInv
      <4>4. k \in Open(sessions')
        BY <4>3 DEF Open
      <4> QED BY <4>1, <4>2, <4>4 DEF HasActive
    <3> QED BY <3>2, <3>3
  <2> QED BY <2>1, <2>2, ActiveMeans
<1> QED BY <1>4, <1>7, <1>8, <1>9, <1>10, <1>11 DEF MultiInv

-----------------------------------------------------------------------------
(* Tokens, in attached mode and at the prompt.                             *)

(* The loop and the table after a token that closes the slots of S.        *)
LEMMA CommandKeeps ==
  ASSUME MultiInv, Handle, ConsoleInv', NEW S \in SUBSET OpenSlots, multi_session_close(S),
         UNCHANGED <<stop, attached_id>>,
         \/ active_id' = multi_first_session_id(sessions')
         \/ /\ active_id' = active_id
            /\ NoAll' => \A k \in S : sessions[k].id # active_id
  PROVE  MultiInv'
<1>1. /\ UNCHANGED <<pc, i, result, pollVars, next_id, backlog, pend, rx, fin, rst, stalled>>
      /\ pc = "keys"
  BY DEF Handle
<1>2. /\ sessions' \in Table
      /\ st' \in [Conn -> {"idle", "backlog", "open", "closed"}]
      /\ Open(sessions') = OpenSlots \ S
      /\ \A k \in OpenSlots \ S : sessions'[k] = sessions[k]
      /\ \A m \in DOMAIN backlog : st'[backlog[m]] = "backlog"
      /\ SlotsInv'
  BY <1>1, CloseKeeps DEF MultiInv
<1>3. active_id' \in Nat /\ active_id' < next_id
  <2>1. CASE active_id' = active_id
    BY <2>1 DEF MultiInv, LoopOK, IdsInv
  <2>2. CASE active_id' = multi_first_session_id(sessions')
    <3>1. HasActive(sessions', active_id')
      BY <2>2, FirstIsOpen
    <3> QED BY <1>1, <1>2, <3>1, ActiveGiven DEF MultiInv, LoopOK, SlotsInv, OpenSlots
  <2> QED BY <2>1, <2>2
<1>4. LoopOK'
  BY <1>1, <1>2, <1>3 DEF MultiInv, LoopOK, Table, pollVars
<1>5. KernelInv'
  BY <1>1, <1>2, KernelFrame DEF MultiInv
<1>6. IdsInv'
  BY <1>1, <1>3 DEF MultiInv, IdsInv
<1>7. ActiveLive'
  <2> SUFFICES ASSUME NoAll' PROVE HasActive(sessions', active_id')
    BY ActiveMeans
  <2>1. HasActive(sessions, active_id)
    BY <1>1, HandleFacts, ActiveMeans DEF MultiInv
  <2>2. CASE active_id' = active_id /\ \A k \in S : sessions[k].id # active_id
    <3>1. \A k \in Open(sessions) \cap S : sessions[k].id # active_id
      BY <2>2
    <3> QED BY <1>2, <2>1, <2>2, <3>1, ActiveSurvives DEF OpenSlots
  <2>3. CASE active_id' = multi_first_session_id(sessions')
    BY <2>3, FirstIsOpen
  <2> QED BY <2>2, <2>3
<1> QED BY <1>2, <1>4, <1>5, <1>6, <1>7 DEF MultiInv

(* A token that leaves the table alone, and may move the ids to a session. *)
LEMMA TokenKeeps ==
  ASSUME MultiInv, Handle, ConsoleInv', UNCHANGED <<sessions, st>>, stop' \in BOOLEAN,
         active_id' = active_id \/ \E k \in OpenSlots : sessions[k].id = active_id',
         \/ attached_id' \in {attached_id, 0}
         \/ \E k \in OpenSlots : sessions[k].id = attached_id'
  PROVE  MultiInv'
<1>1. /\ UNCHANGED <<pc, i, result, pollVars, next_id, backlog, pend, rx, fin, rst, stalled>>
      /\ pc = "keys"
  BY DEF Handle
<1>2. \A k \in OpenSlots : sessions[k].id \in Nat /\ sessions[k].id < next_id
  BY DEF MultiInv, SlotsInv, LoopOK
<1>3. /\ active_id' \in Nat /\ active_id' < next_id
      /\ attached_id' \in Nat /\ attached_id' < next_id
  BY <1>2 DEF MultiInv, LoopOK, IdsInv
<1>4. LoopOK'
  BY <1>1, <1>3 DEF MultiInv, LoopOK, pollVars
<1>5. KernelInv'
  BY <1>1 DEF MultiInv, KernelInv, KernelOK, BacklogInv
<1>6. SlotsInv' /\ IdsInv'
  BY <1>1, <1>3, SlotsFrame DEF MultiInv, IdsInv
<1>7. ActiveLive'
  <2> SUFFICES ASSUME NoAll' PROVE HasActive(sessions', active_id')
    BY ActiveMeans
  <2>1. HasActive(sessions, active_id)
    BY <1>1, HandleFacts, ActiveMeans DEF MultiInv
  <2> QED BY <2>1 DEF HasActive, OpenSlots
<1> QED BY <1>4, <1>5, <1>6, <1>7 DEF MultiInv

(* Ctrl-] or a detach word.                                                *)
LEMMA KeyDetachesKeeps ==
  ASSUME MultiInv, KeyDetaches
  PROVE  MultiInv'
<1>1. /\ Handle /\ UNCHANGED <<input, to, stop, sessions, active_id, st>>
      /\ line' = <<>> /\ held' = TRUE /\ attached_id' = 0
  BY DEF KeyDetaches, Detach
<1>2. ConsoleInv'
  <2>1. UpTo(input', Len(owner) + 1) /\ \A c \in Conn : UpTo(to'[c], Len(owner) + 1)
    BY <1>1, NumbersPass DEF MultiInv
  <2>2. input' \in Seq(Item) /\ to' \in [Conn -> Seq(Sent)] /\ KeysInOrder'
    BY <1>1 DEF MultiInv, ConsoleInv, ConsoleOK, OrderInv, KeysInOrder
  <2>3. /\ line' \in Seq(Item) /\ MayDetach(line') /\ UpTo(line', Len(owner) + 1)
        /\ Rising(line') /\ Later(to', line')
    BY <1>1, EmptyLine
  <2> QED BY <1>1, <2>1, <2>2, <2>3, HandleKeeps DEF MultiInv
<1> QED BY <1>1, <1>2, TokenKeeps DEF MultiInv, LoopOK

(* A key is held back, or sent after what was held back.                   *)
LEMMA KeyTypedKeeps ==
  ASSUME MultiInv, KeyTyped
  PROVE  MultiInv'
<1>1. /\ Handle /\ UNCHANGED <<input, stop, sessions, active_id, attached_id, st>>
      /\ line' = Append(line, Now) /\ held' = (held /\ MayDetach(line'))
      /\ IF held' THEN to' = to
         ELSE Sends({sidx}, "attached", IF held THEN line' ELSE <<Now>>)
  BY DEF KeyTyped
<1>2. /\ Now \in Item /\ Len(owner) \in Nat /\ Now.n = Len(owner) + 1
      /\ line \in Seq(Item) /\ held \in BOOLEAN /\ UpTo(line, Len(owner))
      /\ to \in [Conn -> Seq(Sent)] /\ \A c \in Conn : UpTo(to[c], Len(owner))
      /\ held => Rising(line) /\ Later(to, line)
  BY <1>1, HandleFacts DEF MultiInv, ConsoleInv, ConsoleOK, OrderInv
<1>3. /\ line' \in Seq(Item) /\ UpTo(line', Len(owner) + 1)
      /\ held => Rising(line') /\ Later(to, line')
  BY <1>1, <1>2, NextAppended
<1>4. CASE held'
  <2>1. UpTo(input', Len(owner) + 1) /\ \A c \in Conn : UpTo(to'[c], Len(owner) + 1)
    BY <1>1, <1>4, NumbersPass DEF MultiInv
  <2>2. input' \in Seq(Item) /\ to' \in [Conn -> Seq(Sent)] /\ KeysInOrder'
    BY <1>1, <1>4 DEF MultiInv, ConsoleInv, ConsoleOK, OrderInv, KeysInOrder
  <2>3. Later(to', line')
    BY <1>1, <1>3, <1>4
  <2>4. ConsoleInv'
    BY <1>1, <1>3, <1>4, <2>1, <2>2, <2>3, HandleKeeps DEF MultiInv
  <2> QED BY <1>1, <2>4, TokenKeeps DEF MultiInv, LoopOK
<1>5. CASE ~held'
  <2> DEFINE items == IF held THEN line' ELSE <<Now>>
  <2>1. /\ items \in Seq(Item) /\ UpTo(items, Len(owner) + 1)
        /\ Rising(items) /\ Later(to, items)
    <3>1. CASE held
      BY <1>3, <3>1
    <3>2. CASE ~held
      <4>1. items = Append(<<>>, Now)
        BY <3>2, OneKey
      <4> QED BY <1>2, <4>1, NextAppended, EmptyLine
    <3> QED BY <1>2, <3>1, <3>2
  <2>2. Sends({sidx}, "attached", items)
    BY <1>1, <1>5
  <2> HIDE DEF items
  <2>3. held' = FALSE
    BY <1>1, <1>5
  <2>4. ConsoleInv'
    BY <1>1, <1>3, <2>1, <2>2, <2>3, HandleReleases DEF MultiInv
  <2> QED BY <1>1, <2>4, TokenKeeps DEF MultiInv, LoopOK
<1> QED BY <1>4, <1>5

(* Backspace.                                                              *)
LEMMA KeyErasesKeeps ==
  ASSUME MultiInv, KeyErases
  PROVE  MultiInv'
<1>1. /\ Handle /\ UNCHANGED <<input, held, stop, sessions, active_id, attached_id, st>>
      /\ line' = SubSeq(line, 1, Len(line) - 1)
      /\ IF held \/ line = <<>> THEN to' = to ELSE Sends({sidx}, "attached", <<Now>>)
  BY DEF KeyErases
<1>2. /\ Now \in Item /\ Len(owner) \in Nat /\ Now.n = Len(owner) + 1
      /\ line \in Seq(Item) /\ held \in BOOLEAN /\ (held => MayDetach(line))
      /\ to \in [Conn -> Seq(Sent)] /\ \A c \in Conn : UpTo(to[c], Len(owner))
      /\ held => Rising(line) /\ Later(to, line)
  BY <1>1, HandleFacts DEF MultiInv, ConsoleInv, ConsoleOK, OrderInv
<1>3. UpTo(line, Len(owner) + 1)
  BY NumbersPass DEF MultiInv
<1>4. /\ line' \in Seq(Item) /\ UpTo(line', Len(owner) + 1)
      /\ held' => MayDetach(line') /\ Rising(line') /\ Later(to, line')
  <2>1. /\ line' \in Seq(Item) /\ DOMAIN line' \subseteq DOMAIN line
        /\ \A m \in DOMAIN line' : line'[m] = line[m]
    BY <1>1, <1>2, LastErased
  <2>2. held' => MayDetach(line')
    BY <1>1, <1>2, ErasedMayDetach
  <2>3. UpTo(line', Len(owner) + 1)
    BY <1>3, <2>1 DEF UpTo
  <2>4. held' => Rising(line') /\ Later(to, line')
    BY <1>1, <1>2, <2>1 DEF Rising, Later
  <2> QED BY <2>1, <2>2, <2>3, <2>4
<1>5. CASE to' = to
  <2>1. UpTo(input', Len(owner) + 1) /\ \A c \in Conn : UpTo(to'[c], Len(owner) + 1)
    BY <1>1, <1>5, NumbersPass DEF MultiInv
  <2>2. input' \in Seq(Item) /\ to' \in [Conn -> Seq(Sent)] /\ KeysInOrder'
    BY <1>1, <1>5 DEF MultiInv, ConsoleInv, ConsoleOK, OrderInv, KeysInOrder
  <2>3. held' => Rising(line') /\ Later(to', line')
    BY <1>4, <1>5
  <2>4. ConsoleInv'
    BY <1>1, <1>2, <1>4, <2>1, <2>2, <2>3, HandleKeeps DEF MultiInv
  <2> QED BY <1>1, <2>4, TokenKeeps DEF MultiInv, LoopOK
<1>6. CASE Sends({sidx}, "attached", <<Now>>) /\ ~held
  <2> DEFINE items == <<Now>>
  <2>1. /\ items \in Seq(Item) /\ UpTo(items, Len(owner) + 1)
        /\ Rising(items) /\ Later(to, items)
    <3>1. items = Append(<<>>, Now)
      BY OneKey
    <3> QED BY <1>2, <3>1, NextAppended, EmptyLine
  <2>2. Sends({sidx}, "attached", items) /\ held' = FALSE
    BY <1>1, <1>2, <1>6
  <2> HIDE DEF items
  <2>3. ConsoleInv'
    BY <1>1, <1>4, <2>1, <2>2, HandleReleases DEF MultiInv
  <2> QED BY <1>1, <2>3, TokenKeeps DEF MultiInv, LoopOK
<1> QED BY <1>1, <1>5, <1>6

(* The key alone, as a sequence.                                           *)
LEMMA NowAlone ==
  ASSUME LoopOK, ConsoleInv, Handle
  PROVE  /\ <<Now>> \in Seq(Item) /\ UpTo(<<Now>>, Len(owner) + 1)
         /\ Append(input, Now) \in Seq(Item) /\ UpTo(Append(input, Now), Len(owner) + 1)
<1>1. /\ Now \in Item /\ Len(owner) \in Nat /\ Now.n = Len(owner) + 1
      /\ input \in Seq(Item) /\ UpTo(input, Len(owner))
  BY HandleFacts DEF ConsoleInv, ConsoleOK, OrderInv
<1>2. <<Now>> = Append(<<>>, Now)
  BY OneKey
<1>3. Append(<<>>, Now) \in Seq(Item) /\ UpTo(Append(<<>>, Now), Len(owner) + 1)
  BY <1>1, NextAppended, EmptyLine
<1>4. Append(input, Now) \in Seq(Item) /\ UpTo(Append(input, Now), Len(owner) + 1)
  BY <1>1, NextAppended
<1> QED BY <1>2, <1>3, <1>4

(* A control key.                                                          *)
LEMMA KeyControlKeeps ==
  ASSUME MultiInv, KeyControl
  PROVE  MultiInv'
<1>1. /\ Handle /\ UNCHANGED <<input, line, held, stop, sessions, active_id, attached_id, st>>
      /\ to' = to \/ Sends({sidx}, "control", <<Now>>)
  BY DEF KeyControl
<1>2. input' \in Seq(Item) /\ UpTo(input', Len(owner) + 1)
  BY <1>1, NumbersPass DEF MultiInv, ConsoleInv, ConsoleOK
<1>3. ConsoleInv'
  <2>1. CASE to' = to
    BY <1>1, <1>2, <2>1, HandleSilent DEF MultiInv
  <2>2. CASE Sends({sidx}, "control", <<Now>>)
    <3>1. <<Now>> \in Seq(Item) /\ UpTo(<<Now>>, Len(owner) + 1)
      BY <1>1, NowAlone DEF MultiInv
    <3>2. "control" \in Via \ {"attached"}
      BY DEF Via
    <3> QED BY <1>1, <1>2, <2>2, <3>1, <3>2, HandlePasses DEF MultiInv
  <2> QED BY <1>1, <2>1, <2>2
<1> QED BY <1>1, <1>3, TokenKeeps DEF MultiInv, LoopOK

(* The end of a line: what was held back goes out, and the end after it.   *)
LEMMA KeyEndsLineKeeps ==
  ASSUME MultiInv, KeyEndsLine
  PROVE  MultiInv'
<1> DEFINE kept == IF held THEN line ELSE <<>>
           items == kept \o <<Now>>
<1>1. /\ Handle /\ UNCHANGED <<input, stop, sessions, active_id, attached_id, st>>
      /\ Sends({sidx}, "attached", items) /\ line' = <<>> /\ held' = TRUE
  BY DEF KeyEndsLine
<1>2. /\ Now \in Item /\ Len(owner) \in Nat /\ Now.n = Len(owner) + 1
      /\ line \in Seq(Item) /\ held \in BOOLEAN /\ UpTo(line, Len(owner))
      /\ to \in [Conn -> Seq(Sent)] /\ \A c \in Conn : UpTo(to[c], Len(owner))
      /\ held => Rising(line) /\ Later(to, line)
  BY <1>1, HandleFacts DEF MultiInv, ConsoleInv, ConsoleOK, OrderInv
<1>3. /\ kept \in Seq(Item) /\ UpTo(kept, Len(owner))
      /\ Rising(kept) /\ Later(to, kept)
  BY <1>2, EmptyLine
<1> HIDE DEF kept
<1>4. items = Append(kept, Now)
  BY <1>2, <1>3, AppendIsConcat
<1>5. /\ items \in Seq(Item) /\ UpTo(items, Len(owner) + 1)
      /\ Rising(items) /\ Later(to, items)
  BY <1>2, <1>3, <1>4, NextAppended
<1> HIDE DEF items
<1>6. line' \in Seq(Item) /\ UpTo(line', Len(owner) + 1)
  BY <1>1, EmptyLine
<1>7. ConsoleInv'
  BY <1>1, <1>5, <1>6, HandleReleases DEF MultiInv
<1> QED BY <1>1, <1>7, TokenKeeps DEF MultiInv, LoopOK

(* A key at the prompt.                                                    *)
LEMMA PromptKeyKeeps ==
  ASSUME MultiInv, PromptKey
  PROVE  MultiInv'
<1>1. /\ Handle /\ UNCHANGED <<line, held, to, stop, sessions, active_id, attached_id, st>>
      /\ \/ input' = Append(input, Now)
         \/ input' = SubSeq(input, 1, Len(input) - 1)
         \/ input' = input
  BY DEF PromptKey, Key
<1>2. input' \in Seq(Item) /\ UpTo(input', Len(owner) + 1)
  <2>1. input \in Seq(Item) /\ UpTo(input, Len(owner) + 1)
    BY NumbersPass DEF MultiInv, ConsoleInv, ConsoleOK
  <2>2. CASE input' = Append(input, Now)
    BY <1>1, <2>2, NowAlone DEF MultiInv
  <2>3. CASE input' = SubSeq(input, 1, Len(input) - 1)
    <3>1. /\ input' \in Seq(Item) /\ DOMAIN input' \subseteq DOMAIN input
          /\ \A m \in DOMAIN input' : input'[m] = input[m]
      BY <2>1, <2>3, LastErased
    <3> QED BY <2>1, <3>1 DEF UpTo
  <2> QED BY <1>1, <2>1, <2>2, <2>3
<1>3. ConsoleInv'
  BY <1>1, <1>2, HandleSilent DEF MultiInv
<1> QED BY <1>1, <1>3, TokenKeeps DEF MultiInv, LoopOK

(* A command that moves the ids moves them to a session.                   *)
LEMMA PromptMovesKeeps ==
  ASSUME MultiInv, PromptMoves
  PROVE  MultiInv'
<1>1. Handle /\ UNCHANGED <<input, line, held, to, sessions, st>>
  BY DEF PromptMoves
<1>2. stop' \in BOOLEAN
  BY DEF PromptMoves
<1>3. PICK id : /\ active_id' = IF multi_find_by_id(id) # {} THEN id ELSE active_id
                /\ attached_id' = CASE Now.op = "attach" /\ multi_find_by_id(id) # {} -> id
                                    [] Now.op = "detach" -> 0
                                    [] OTHER -> attached_id
  BY DEF PromptMoves
<1>4. /\ active_id' = active_id \/ \E k \in OpenSlots : sessions[k].id = active_id'
      /\ \/ attached_id' \in {attached_id, 0}
         \/ \E k \in OpenSlots : sessions[k].id = attached_id'
  BY <1>3 DEF multi_find_by_id
<1>5. ConsoleInv'
  <2>1. input' \in Seq(Item) /\ UpTo(input', Len(owner) + 1)
    BY <1>1, NumbersPass DEF MultiInv, ConsoleInv, ConsoleOK
  <2> QED BY <1>1, <2>1, HandleSilent DEF MultiInv
<1> QED BY <1>1, <1>2, <1>4, <1>5, TokenKeeps DEF MultiInv

(* :kill closes a session.                                                 *)
LEMMA PromptKillKeeps ==
  ASSUME MultiInv, PromptKill
  PROVE  MultiInv'
<1>1. /\ Handle /\ UNCHANGED <<input, line, held, to, stop, attached_id>>
      /\ multi_session_close(Target)
  BY DEF PromptKill
<1>2. Target \in SUBSET OpenSlots /\ \A k \in Target : sessions[k].id = Arg
  BY DEF Target, multi_find_by_id
<1>3. \/ active_id' = multi_first_session_id(sessions')
      \/ active_id' = active_id /\ \A k \in Target : sessions[k].id # active_id
  BY <1>2 DEF PromptKill, Reselect
<1>4. ConsoleInv'
  <2>1. input' \in Seq(Item) /\ UpTo(input', Len(owner) + 1)
    BY <1>1, NumbersPass DEF MultiInv, ConsoleInv, ConsoleOK
  <2> QED BY <1>1, <2>1, HandleSilent DEF MultiInv
<1> QED BY <1>1, <1>2, <1>3, <1>4, CommandKeeps

(* :send closes its session if it cannot be reached.                       *)
LEMMA PromptSendKeeps ==
  ASSUME MultiInv, PromptSend
  PROVE  MultiInv'
<1> DEFINE S == Target \ Reached(Target)
<1>1. /\ Handle /\ UNCHANGED <<input, line, held, stop, attached_id>>
      /\ Sends(Target, "send", <<Now>>) /\ multi_session_close(S)
  BY DEF PromptSend
<1>2. S \in SUBSET OpenSlots /\ \A k \in S : sessions[k].id = Arg
  BY DEF Target, multi_find_by_id
<1>3. \/ active_id' = multi_first_session_id(sessions')
      \/ active_id' = active_id /\ \A k \in S : sessions[k].id # active_id
  BY <1>2 DEF PromptSend, Reselect
<1> HIDE DEF S
<1>4. ConsoleInv'
  <2>1. input' \in Seq(Item) /\ UpTo(input', Len(owner) + 1)
    BY <1>1, NumbersPass DEF MultiInv, ConsoleInv, ConsoleOK
  <2>2. <<Now>> \in Seq(Item) /\ UpTo(<<Now>>, Len(owner) + 1)
    BY <1>1, NowAlone DEF MultiInv
  <2>3. "send" \in Via \ {"attached"}
    BY DEF Via
  <2> QED BY <1>1, <2>1, <2>2, <2>3, HandlePasses DEF MultiInv
<1> QED BY <1>1, <1>2, <1>3, <1>4, CommandKeeps

(* :all closes the sessions that cannot be reached, the active one too:    *)
(* from then on ActiveLive promises nothing.                               *)
LEMMA PromptAllKeeps ==
  ASSUME MultiInv, PromptAll
  PROVE  MultiInv'
<1> DEFINE S == OpenSlots \ Reached(OpenSlots)
<1>1. /\ Handle /\ UNCHANGED <<input, line, held, stop, attached_id, active_id>>
      /\ Sends(OpenSlots, "all", <<Now>>) /\ multi_session_close(S) /\ Now.op = "all"
  BY DEF PromptAll
<1>2. S \in SUBSET OpenSlots
  OBVIOUS
<1> HIDE DEF S
<1>3. ~NoAll'
  BY <1>1, HandleFacts DEF MultiInv
<1>4. ConsoleInv'
  <2>1. input' \in Seq(Item) /\ UpTo(input', Len(owner) + 1)
    BY <1>1, NumbersPass DEF MultiInv, ConsoleInv, ConsoleOK
  <2>2. <<Now>> \in Seq(Item) /\ UpTo(<<Now>>, Len(owner) + 1)
    BY <1>1, NowAlone DEF MultiInv
  <2>3. "all" \in Via \ {"attached"}
    BY DEF Via
  <2> QED BY <1>1, <2>1, <2>2, <2>3, HandlePasses DEF MultiInv
<1> QED BY <1>1, <1>2, <1>3, <1>4, CommandKeeps

(* A line closes the active session if it cannot be reached. The session   *)
(* has its id to itself, so it is reached or none is.                      *)
LEMMA PromptLineKeeps ==
  ASSUME MultiInv, PromptLine
  PROVE  MultiInv'
<1> DEFINE target == multi_find_by_id(active_id)
           S == target \ Reached(target)
<1>1. /\ Handle /\ UNCHANGED <<line, held, stop, attached_id>> /\ input' = <<>>
      /\ Sends(target, "line", Append(input, Now)) /\ multi_session_close(S)
      /\ active_id' = IF active_id # 0 /\ Reached(target) = {}
                      THEN multi_first_session_id(sessions') ELSE active_id
  BY DEF PromptLine
<1>2. S \in SUBSET OpenSlots
  BY DEF multi_find_by_id
<1>3. \/ active_id' = multi_first_session_id(sessions')
      \/ active_id' = active_id /\ \A k \in S : sessions[k].id # active_id
  <2>1. CASE active_id # 0 /\ Reached(target) = {}
    BY <1>1, <2>1
  <2>2. CASE active_id = 0
    <3>1. target = {}
      BY <2>2 DEF MultiInv, SlotsInv, multi_find_by_id
    <3> QED BY <1>1, <2>2, <3>1
  <2>3. CASE Reached(target) # {}
    <3>1. \A k, m \in target : k = m
      BY DEF MultiInv, SlotsInv, multi_find_by_id
    <3>2. S = {}
      BY <2>3, <3>1 DEF Reached
    <3> QED BY <1>1, <2>3, <3>2
  <2> QED BY <2>1, <2>2, <2>3
<1> HIDE DEF S, target
<1>4. ConsoleInv'
  <2>1. input' \in Seq(Item) /\ UpTo(input', Len(owner) + 1)
    BY <1>1, EmptyLine
  <2>2. Append(input, Now) \in Seq(Item) /\ UpTo(Append(input, Now), Len(owner) + 1)
    BY <1>1, NowAlone DEF MultiInv
  <2>3. "line" \in Via \ {"attached"}
    BY DEF Via
  <2> QED BY <1>1, <2>1, <2>2, <2>3, HandlePasses DEF MultiInv
<1> QED BY <1>1, <1>2, <1>3, <1>4, CommandKeeps

-----------------------------------------------------------------------------
(* The theorems.                                                           *)

(* The initial state satisfies the invariant.                              *)
LEMMA InitHolds ==
  ASSUME Init
  PROVE  MultiInv
<1>1. LoopOK
  <2>1. 1 \in Slot
    BY MultiAssumption DEF Slot
  <2>2. sessions \in [Slot -> [conn : Conn \cup {NoConn}, id : Nat]]
    BY DEF Init, Free
  <2>3. /\ stop \in BOOLEAN /\ lready \in BOOLEAN /\ sready \in BOOLEAN
        /\ pc \in {"poll", "accept", "stdin", "keys", "serve", "done"}
    BY DEF Init
  <2> QED BY <2>1, <2>2, <2>3 DEF Init, LoopOK
<1>2. ConsoleInv
  <2>1. ConsoleOK
    BY EmptyLine, EmptySeq DEF Init, ConsoleOK
  <2>2. CountInv
    <3>1. Len(owner) = 0 /\ Len(chunk) = 0 /\ Len(typed) = 0
      BY EmptySeq DEF Init
    <3> QED BY <3>1, MultiAssumption DEF CountInv
  <2>3. OrderInv
    <3>1. KeysInOrder
      BY DEF Init, KeysInOrder
    <3>2. \A c \in Conn : to[c] = <<>>
      BY DEF Init
    <3> QED BY <3>1, <3>2, EmptyLine DEF Init, OrderInv
  <2> QED BY <2>1, <2>2, <2>3 DEF ConsoleInv
<1>3. KernelInv
  <2>1. backlog \in Seq(Conn) /\ Len(backlog) = 0 /\ DOMAIN backlog = {}
    BY EmptySeq DEF Init
  <2> QED BY <2>1 DEF Init, KernelInv, KernelOK, BacklogInv
<1>4. Open(sessions) = {}
  BY DEF Init, Open, Free
<1>5. SlotsInv /\ IdsInv
  <2>1. \A k \in Slot : sessions[k].id = 0
    BY DEF Init, Free
  <2> QED BY <1>4, <2>1 DEF Init, SlotsInv, IdsInv, OpenSlots
<1>6. ActiveLive
  BY <1>4, ActiveMeans DEF Init, HasActive
<1> QED BY <1>1, <1>2, <1>3, <1>5, <1>6 DEF MultiInv

(* Every step keeps the invariant.                                         *)
LEMMA StepKeeps ==
  ASSUME MultiInv, [Next]_vars
  PROVE  MultiInv'
<1>1. CASE MultiStep
  BY <1>1, PollKeeps, CleanupKeeps, NothingKeeps, AcceptClosesKeeps, AcceptSessionKeeps,
     AttachedGoneKeeps, ReadKeeps, KeyDetachesKeeps, KeyTypedKeeps, KeyErasesKeeps,
     KeyControlKeeps, KeyEndsLineKeeps, PromptKeyKeeps, PromptMovesKeeps, PromptKillKeeps,
     PromptSendKeeps, PromptAllKeeps, PromptLineKeeps, PassesKeeps, LeaveKeeps
     DEF MultiStep
<1>2. CASE PollFails \/ OutputFails
  BY <1>2, CleanupKeeps, OutputFailsKeeps
<1>3. CASE \E t \in Tokens : Type(t)
  BY <1>3, TypeKeeps
<1>4. CASE \E c \in Conn : Peer(c)
  BY <1>4, ConnectKeeps, PeerKeeps DEF Peer
<1>5. CASE Signal \/ Terminated \/ UNCHANGED vars
  BY <1>5, SignalKeeps
<1> QED BY <1>1, <1>2, <1>3, <1>4, <1>5 DEF Next

(* The inductive invariant holds in every reachable state.                 *)
LEMMA MultiInvariant == Spec => []MultiInv
<1>1. Init => MultiInv
  BY InitHolds
<1>2. MultiInv /\ [Next]_vars => MultiInv'
  BY StepKeeps
<1> QED BY <1>1, <1>2, PTL DEF Spec

(* Every variable of run_multi_listen keeps its type, for any number of    *)
(* sessions and whatever is typed: attached_line holds keys back only      *)
(* while they may become a detach word.                                    *)
THEOREM TypeCorrect == Spec => []TypeOK
<1>1. MultiInv => TypeOK
  BY DEF MultiInv, ConsoleInv, KernelInv, TypeOK
<1> QED BY <1>1, MultiInvariant, PTL

(* Slots, ids and connections stay in step through accepts, :kill, the     *)
(* drops of :send, :all and plain lines, and sessions that leave; no id is *)
(* given twice.                                                            *)
THEOREM TableInStep == Spec => []SessionsDistinct
<1>1. MultiInv => SessionsDistinct
  BY DEF MultiInv, SlotsInv, IdsInv, SessionsDistinct, Connected
<1> QED BY <1>1, MultiInvariant, PTL

(* Until :all is used, every way a session can go leaves a live one active *)
(* if there is one.                                                        *)
THEOREM ActiveIsLive == Spec => []ActiveLive
<1>1. MultiInv => ActiveLive
  BY DEF MultiInv
<1> QED BY <1>1, MultiInvariant, PTL

(* Holding keys back, sending them late and letting control keys pass      *)
(* never reorders what is typed in attached mode.                          *)
THEOREM KeysKeepOrder == Spec => []KeysInOrder
<1>1. MultiInv => KeysInOrder
  BY DEF MultiInv, ConsoleInv, OrderInv
<1> QED BY <1>1, MultiInvariant, PTL

(* :send N writes to no session but the one with id N.                     *)
LEMMA SendStep ==
  ASSUME MultiInv, [Next]_vars, NEW k \in OpenSlots,
         pc = "keys", chunk # <<>>, Head(chunk).op = "send", sidx = 0, input = <<>>,
         to'[sessions[k].conn] # to[sessions[k].conn]
  PROVE  sessions[k].id = Arg
<1>1. to' # to /\ Now.op = "send"
  BY DEF Now
<1>2. PromptSend
  <2>1. ~Attached /\ IsCommand
    BY <1>1 DEF Attached, IsCommand, Command
  <2>2. MultiStep
    BY <1>1 DEF Next, PollFails, OutputFails, Type, Peer, Connect, PeerSays, PeerCloses,
       PeerStalls, PeerResumes, Signal, Terminated, vars, loopVars, consoleVars
  <2>3. \/ PromptKey \/ PromptMoves \/ PromptKill \/ PromptSend \/ PromptAll \/ PromptLine
    BY <2>1, <2>2 DEF MultiStep, Poll, Shutdown, NoAccept, AcceptCloses, AcceptSession,
       NoStdin, AttachedGone, ReadStdin, KeysDone, KeyDetaches, KeyTyped, KeyErases,
       KeyControl, KeyEndsLine, SkipSession, SessionLeaves, SessionHttp, SessionReads
  <2> QED BY <1>1, <2>1, <2>3 DEF PromptKey, PromptMoves, PromptKill, PromptAll, PromptLine, Key
<1>3. sessions[k].conn \in Conn
  BY DEF MultiInv, LoopOK, OpenSlots, Open
<1>4. PICK m \in Target : sessions[m].conn = sessions[k].conn
  <2>1. to' = [c \in Conn |->
                IF \E m \in Reached(Target) : sessions[m].conn = c
                THEN to[c] \o Labelled(<<Now>>, "send") ELSE to[c]]
    BY <1>2 DEF PromptSend, Sends, Labelled
  <2> HIDE DEF Labelled
  <2>2. \E m \in Reached(Target) : sessions[m].conn = sessions[k].conn
    BY <1>3, <2>1
  <2> QED BY <2>2 DEF Reached
<1>5. m \in OpenSlots /\ sessions[m].id = Arg
  BY DEF Target, multi_find_by_id
<1>6. m = k
  BY <1>4, <1>5 DEF MultiInv, SlotsInv
<1> QED BY <1>5, <1>6

(* ":send N" reaches the session with id N and no other, however often the *)
(* slots have been used again.                                             *)
THEOREM SendIsAimed == Spec => SendReachesItsSession
<1> DEFINE Aimed == \A k \in OpenSlots :
         (/\ pc = "keys" /\ chunk # <<>> /\ Head(chunk).op = "send"
          /\ sidx = 0 /\ input = <<>>
          /\ to'[sessions[k].conn] # to[sessions[k].conn]) => sessions[k].id = Arg
<1>1. MultiInv /\ [Next]_vars => [Aimed]_vars
  BY SendStep
<1> QED BY <1>1, MultiInvariant, PTL DEF Spec, SendReachesItsSession
=============================================================================
