----------------------------- MODULE RelayProofs -----------------------------
(***************************************************************************)
(* Proofs about Relay, for every pair of streams, every amount of data and *)
(* every size of the buffers and of the TLS records.                       *)
(***************************************************************************)
EXTENDS Relay, SequenceTheorems, TLAPS

(* The streams of a round take part in the relay; a stream that does not   *)
(* any more has been read to its end, and a stream read to its end takes   *)
(* part no more.                                                           *)
RoundInv ==
    /\ pc \in {"pump", "write"} => \A e \in todo : active[e]
    /\ \A e \in End : /\ ~active[e] => eof[e]
                      /\ eof[e] => pc = "done" \/ ~active[e]

(* The TLS layer takes whole records, and a peer ends between two of them; *)
(* without TLS there is no layer.                                          *)
RecordInv ==
    \A e \in End :
        /\ ~Tls(e) => raw[e] = 0 /\ held[e] = 0
        /\ Tls(e) => /\ (taken[e] + held[e]) % RecLen = 0
                     /\ ended[e] => made[e] % RecLen = 0

(* End of file is only seen of an end that is gone.                        *)
EofInv ==
    /\ EofFollowsData
    /\ \A e \in End : eof[e] => Gone(e)

(* A relay that ends by itself has seen the end of what stands behind each *)
(* stream that may end first.                                              *)
DoneInv ==
    (pc = "done" /\ result = 0 /\ ~stop /\ ~timedout) =>
        \A e \in End : ~setup[e].close_on_eof => eof[Other(e)]

RelayInv == TypeOK /\ RelayExact /\ RoundInv /\ RecordInv /\ EofInv /\ DoneInv

-----------------------------------------------------------------------------
(* Sequences and whole records.                                            *)

(* A run of consecutive bytes as a sequence.                               *)
LEMMA BytesSeq ==
  ASSUME NEW m \in Nat, NEW n \in Nat, m <= n + 1
  PROVE  /\ Bytes(m, n) \in Seq(Nat) /\ Len(Bytes(m, n)) = n - m + 1
         /\ \A i \in 1..(n - m + 1) : Bytes(m, n)[i] = m + i - 1
<1>1. Bytes(m, n) \in [1..(n - m + 1) -> Nat]
  BY DEF Bytes
<1>2. Bytes(m, n) \in Seq(Nat)
  BY <1>1
<1>3. Len(Bytes(m, n)) = n - m + 1
  BY <1>1
<1> QED BY DEF Bytes

(* The first bytes of a stream.                                            *)
LEMMA BytesFromOne ==
  ASSUME NEW n \in Nat
  PROVE  /\ Bytes(1, n) \in Seq(Nat) /\ Len(Bytes(1, n)) = n
         /\ \A i \in 1..n : Bytes(1, n)[i] = i
<1>1. n - 1 + 1 = n /\ 1 <= n + 1
  OBVIOUS
<1>2. /\ Bytes(1, n) \in Seq(Nat) /\ Len(Bytes(1, n)) = n - 1 + 1
      /\ \A i \in 1..(n - 1 + 1) : Bytes(1, n)[i] = 1 + i - 1
  BY <1>1, BytesSeq
<1>3. \A i \in 1..n : 1 + i - 1 = i
  OBVIOUS
<1> QED BY <1>2

(* Before the first byte there is nothing.                                 *)
LEMMA BytesEmpty == Bytes(1, 0) = <<>>
<1>1. Bytes(1, 0) \in Seq(Nat) /\ Len(Bytes(1, 0)) = 0
  BY BytesSeq
<1> QED BY <1>1

(* What is read next continues what was read before.                       *)
LEMMA BytesJoin ==
  ASSUME NEW n \in Nat, NEW k \in Nat
  PROVE  Bytes(1, n) \o Bytes(n + 1, n + k) = Bytes(1, n + k)
<1> DEFINE s == Bytes(1, n)
           t == Bytes(n + 1, n + k)
           u == Bytes(1, n + k)
<1>1. s \in Seq(Nat) /\ Len(s) = n /\ \A i \in 1..n : s[i] = i
  BY BytesFromOne
<1>2. t \in Seq(Nat) /\ Len(t) = k /\ \A i \in 1..k : t[i] = n + i
  <2>1. n + 1 \in Nat /\ n + k \in Nat /\ n + 1 <= (n + k) + 1
    OBVIOUS
  <2>2. (n + k) - (n + 1) + 1 = k
    OBVIOUS
  <2>3. /\ t \in Seq(Nat) /\ Len(t) = (n + k) - (n + 1) + 1
        /\ \A i \in 1..((n + k) - (n + 1) + 1) : t[i] = (n + 1) + i - 1
    BY <2>1, BytesSeq
  <2> HIDE DEF t
  <2> QED BY <2>3
<1>3. u \in Seq(Nat) /\ Len(u) = n + k /\ \A i \in 1..(n + k) : u[i] = i
  BY BytesFromOne
<1> HIDE DEF s, t, u
<1>4. /\ s \o t \in Seq(Nat) /\ Len(s \o t) = n + k
      /\ \A i \in 1..(n + k) : (s \o t)[i] = IF i <= n THEN s[i] ELSE t[i - n]
  <2>1. s \in Seq(Nat) /\ t \in Seq(Nat)
    BY <1>1, <1>2
  <2>2. /\ s \o t \in Seq(Nat) /\ Len(s \o t) = Len(s) + Len(t)
        /\ \A i \in 1..(Len(s) + Len(t)) : (s \o t)[i] = IF i <= Len(s) THEN s[i] ELSE t[i - Len(s)]
    BY <2>1, ConcatProperties
  <2>3. Len(s) = n /\ Len(t) = k
    BY <1>1, <1>2
  <2> QED BY <2>2, <2>3
<1>5. ASSUME NEW i \in 1..(n + k) PROVE (s \o t)[i] = u[i]
  <2>1. CASE i <= n
    <3>1. i \in 1..n
      BY <2>1
    <3>2. (s \o t)[i] = s[i]
      BY <1>4, <2>1
    <3> QED BY <1>1, <1>3, <3>1, <3>2
  <2>2. CASE i > n
    <3>1. i - n \in 1..k /\ n + (i - n) = i
      BY <2>2
    <3>2. (s \o t)[i] = t[i - n]
      BY <1>4, <2>2
    <3>3. t[i - n] = n + (i - n)
      BY <1>2, <3>1
    <3>4. u[i] = i
      BY <1>3
    <3> QED BY <3>1, <3>2, <3>3, <3>4, Zenon
  <2>3. i <= n \/ i > n
    OBVIOUS
  <2> QED BY <2>1, <2>2, <2>3, Zenon
<1>6. s \o t = u
  BY <1>3, <1>4, <1>5, SeqEqual
<1> QED BY <1>6 DEF s, t, u

(* Putting streams of bytes together is associative.                       *)
LEMMA BytesAssociative ==
  ASSUME NEW s \in Seq(Nat), NEW t \in Seq(Nat), NEW u \in Seq(Nat)
  PROVE  (s \o t) \o u = s \o (t \o u)
<1> DEFINE l == (s \o t) \o u
           r == s \o (t \o u)
<1>1. l \in Seq(Nat) /\ r \in Seq(Nat) /\ Len(l) = Len(r)
  OBVIOUS
<1>2. \A m \in 1..Len(l) : l[m] = r[m]
  BY SMTT(30)
<1> HIDE DEF l, r
<1>3. l = r
  BY <1>1, <1>2, SeqEqual
<1> QED BY <1>3 DEF l, r

(* A partial write moves the front of the buffer and loses nothing.        *)
LEMMA WriteSplit ==
  ASSUME NEW s \in Seq(Nat), NEW b \in Seq(Nat), NEW n \in 0..Len(b)
  PROVE  /\ SubSeq(b, 1, n) \in Seq(Nat) /\ SubSeq(b, n + 1, Len(b)) \in Seq(Nat)
         /\ (s \o SubSeq(b, 1, n)) \o SubSeq(b, n + 1, Len(b)) = s \o b
<1> DEFINE l == Len(b)
           p == SubSeq(b, 1, n)
           q == SubSeq(b, n + 1, l)
<1>1. l \in Nat /\ \A i \in 1..l : b[i] \in Nat
  OBVIOUS
<1>2. p \in Seq(Nat) /\ q \in Seq(Nat)
  OBVIOUS
<1>3. p \o q = b
  <2>1. p \o q = SubSeq(b, 1, l)
    <3>1. 1 \in 1..(l + 1) /\ n \in (1 - 1)..l /\ l \in n..l
      BY <1>1
    <3> QED BY <3>1, ConcatAdjacentSubSeq
  <2> QED BY <2>1, SubSeqFull
<1>4. (s \o p) \o q = s \o (p \o q)
  <2> HIDE DEF p, q
  <2> QED BY <1>2, BytesAssociative
<1> QED BY <1>2, <1>3, <1>4

(* Division with remainder.                                                *)
LEMMA DivMod ==
  ASSUME NEW d \in Nat \ {0}, NEW x \in Nat
  PROVE  x \div d \in Nat /\ x = d * (x \div d) + (x % d) /\ x % d \in 0..(d - 1)
OBVIOUS

(* Between two multiples of d there are d or more.                         *)
LEMMA MultiplesApart ==
  ASSUME NEW d \in Nat \ {0}, NEW x \in Nat, NEW y \in Nat,
         d * x <= d * y, d * y < d * x + d
  PROVE  x = y
<1>1. CASE x < y
  <2>1. x + 1 <= y
    BY <1>1
  <2>2. d * (x + 1) <= d * y
    BY <2>1
  <2>3. d * (x + 1) = d * x + d
    OBVIOUS
  <2> QED OBVIOUS
<1>2. CASE y < x
  <2>1. y + 1 <= x
    BY <1>2
  <2>2. d * (y + 1) <= d * x
    BY <2>1
  <2>3. d * (y + 1) = d * y + d
    OBVIOUS
  <2> QED OBVIOUS
<1> QED OBVIOUS

(* A multiple of d leaves no remainder.                                    *)
LEMMA MultipleMod ==
  ASSUME NEW d \in Nat \ {0}, NEW x \in Nat
  PROVE  (d * x) % d = 0
<1> DEFINE y == (d * x) \div d
           r == (d * x) % d
<1>1. y \in Nat /\ d * x = d * y + r /\ r \in 0..(d - 1)
  OBVIOUS
<1> HIDE DEF y, r
<1>2. y = x
  BY <1>1
<1>3. r = 0
  BY <1>1
<1> QED OBVIOUS

(* A whole record more is still a whole number of records.                 *)
LEMMA OneRecordMore ==
  ASSUME NEW x \in Nat, x % RecLen = 0
  PROVE  (x + RecLen) % RecLen = 0
<1>1. RecLen \in Nat \ {0}
  BY RelaySizes
<1> DEFINE y == x \div RecLen
<1>2. y \in Nat /\ x = RecLen * y
  BY <1>1
<1> HIDE DEF y
<1>3. x + RecLen = RecLen * (y + 1)
  BY <1>1, <1>2
<1>4. y + 1 \in Nat
  BY <1>2
<1> QED BY <1>1, <1>3, <1>4, MultipleMod

(* Less than a record between two whole numbers of records is nothing.     *)
LEMMA NoPartRecord ==
  ASSUME NEW x \in Nat, NEW y \in Nat, x % RecLen = 0, y % RecLen = 0,
         x <= y, y - x < RecLen
  PROVE  x = y
<1>1. RecLen \in Nat \ {0}
  BY RelaySizes
<1> DEFINE u == x \div RecLen
           v == y \div RecLen
<1>2. u \in Nat /\ x = RecLen * u /\ v \in Nat /\ y = RecLen * v
  BY <1>1
<1> HIDE DEF u, v
<1>3. u = v
  BY <1>1, <1>2
<1> QED BY <1>2, <1>3

-----------------------------------------------------------------------------
(* The steps of the relay.                                                 *)

(* The loop ends when a signal came or both streams have ended.            *)
LEMMA LoopEndsKeeps ==
  ASSUME RelayInv, LoopEnds
  PROVE  RelayInv'
<1>1. TypeOK'
  BY DEF RelayInv, TypeOK, LoopEnds, Return, farVars
<1>2. RelayExact'
  BY DEF RelayInv, RelayExact, Kept, Src, LoopEnds
<1>3. RoundInv'
  BY DEF RelayInv, RoundInv, LoopEnds, Return
<1>4. RecordInv'
  BY DEF RelayInv, RecordInv, Tls, LoopEnds, farVars
<1>5. EofInv'
  BY DEF RelayInv, EofInv, EofFollowsData, Gone, LoopEnds, farVars
<1>6. DoneInv'
  BY DEF RelayInv, RoundInv, DoneInv, End, Other, LoopEnds
<1> QED BY <1>1, <1>2, <1>3, <1>4, <1>5, <1>6 DEF RelayInv

(* A stream with decrypted bytes is to be read.                            *)
LEMMA ReadPendingKeeps ==
  ASSUME RelayInv, ReadPending
  PROVE  RelayInv'
<1>1. TypeOK'
  BY DEF RelayInv, TypeOK, End, ReadPending, Running, farVars
<1>2. RelayExact'
  BY DEF RelayInv, TypeOK, RelayExact, Kept, ReadPending, Running
<1>3. RoundInv'
  BY DEF RelayInv, RoundInv, End, ReadPending, Running, Pending
<1>4. RecordInv'
  BY DEF RelayInv, RecordInv, Tls, ReadPending, farVars
<1>5. EofInv'
  BY DEF RelayInv, EofInv, EofFollowsData, Gone, ReadPending, farVars
<1>6. DoneInv'
  BY DEF DoneInv, ReadPending
<1> QED BY <1>1, <1>2, <1>3, <1>4, <1>5, <1>6 DEF RelayInv

(* The loop goes to poll().                                                *)
LEMMA EnterPollKeeps ==
  ASSUME RelayInv, EnterPoll
  PROVE  RelayInv'
<1>1. TypeOK'
  BY DEF RelayInv, TypeOK, EnterPoll, farVars, Running
<1>2. RelayExact'
  BY DEF RelayInv, RelayExact, Kept, Src, EnterPoll
<1>3. RoundInv'
  BY DEF RelayInv, RoundInv, EnterPoll, Running
<1>4. RecordInv'
  BY DEF RelayInv, RecordInv, Tls, EnterPoll, farVars
<1>5. EofInv'
  BY DEF RelayInv, EofInv, EofFollowsData, Gone, EnterPoll, farVars
<1>6. DoneInv'
  BY DEF DoneInv, EnterPoll
<1> QED BY <1>1, <1>2, <1>3, <1>4, <1>5, <1>6 DEF RelayInv

(* The process sleeps.                                                     *)
LEMMA SleepKeeps ==
  ASSUME RelayInv, Sleep
  PROVE  RelayInv'
<1>1. TypeOK'
  BY DEF RelayInv, TypeOK, Sleep, farVars
<1>2. RelayExact'
  BY DEF RelayInv, RelayExact, Kept, Src, Sleep
<1>3. RoundInv'
  BY DEF RelayInv, RoundInv, Sleep
<1>4. RecordInv'
  BY DEF RelayInv, RecordInv, Tls, Sleep, farVars
<1>5. EofInv'
  BY DEF RelayInv, EofInv, EofFollowsData, Gone, Sleep, farVars
<1>6. DoneInv'
  BY DEF DoneInv, Sleep
<1> QED BY <1>1, <1>2, <1>3, <1>4, <1>5, <1>6 DEF RelayInv

(* poll() names streams that still take part.                              *)
LEMMA PollReadyKeeps ==
  ASSUME RelayInv, PollReady
  PROVE  RelayInv'
<1>1. TypeOK'
  BY DEF RelayInv, TypeOK, PollReady, Ready, farVars
<1>2. RelayExact'
  BY DEF RelayInv, TypeOK, RelayExact, Kept, PollReady
<1>3. RoundInv'
  BY DEF RelayInv, RoundInv, PollReady, Ready
<1>4. RecordInv'
  BY DEF RelayInv, RecordInv, Tls, PollReady, farVars
<1>5. EofInv'
  BY DEF RelayInv, EofInv, EofFollowsData, Gone, PollReady, farVars
<1>6. DoneInv'
  BY DEF DoneInv, PollReady
<1> QED BY <1>1, <1>2, <1>3, <1>4, <1>5, <1>6 DEF RelayInv

(* The tick of TLS wakes the loop.                                         *)
LEMMA TickWakesKeeps ==
  ASSUME RelayInv, TickWakes
  PROVE  RelayInv'
<1>1. TypeOK'
  BY DEF RelayInv, TypeOK, TickWakes, farVars
<1>2. RelayExact'
  BY DEF RelayInv, RelayExact, Kept, Src, TickWakes
<1>3. RoundInv'
  BY DEF RelayInv, RoundInv, TickWakes
<1>4. RecordInv'
  BY DEF RelayInv, RecordInv, Tls, TickWakes, farVars
<1>5. EofInv'
  BY DEF RelayInv, EofInv, EofFollowsData, Gone, TickWakes, farVars
<1>6. DoneInv'
  BY DEF DoneInv, TickWakes
<1> QED BY <1>1, <1>2, <1>3, <1>4, <1>5, <1>6 DEF RelayInv

(* The relay gives up; it says so in timedout.                             *)
LEMMA TimesOutKeeps ==
  ASSUME RelayInv, TimesOut
  PROVE  RelayInv'
<1>1. TypeOK'
  BY DEF RelayInv, TypeOK, TimesOut, Return, farVars
<1>2. RelayExact'
  BY DEF RelayInv, RelayExact, Kept, Src, TimesOut
<1>3. RoundInv'
  BY DEF RelayInv, RoundInv, TimesOut, Return
<1>4. RecordInv'
  BY DEF RelayInv, RecordInv, Tls, TimesOut, farVars
<1>5. EofInv'
  BY DEF RelayInv, EofInv, EofFollowsData, Gone, TimesOut, farVars
<1>6. DoneInv'
  BY DEF DoneInv, TimesOut
<1> QED BY <1>1, <1>2, <1>3, <1>4, <1>5, <1>6 DEF RelayInv

(* One read: the bytes go from the kernel and the TLS layer to the buffer. *)
LEMMA PumpReadsKeeps ==
  ASSUME RelayInv, PumpReads
  PROVE  RelayInv'
<1> DEFINE n == Least(ReadMax, Available)
<1>a. Src \in End /\ Src \in todo /\ buf = <<>> /\ todo' = todo
  BY DEF RelayInv, TypeOK, PumpReads, Src, End
<1>b. /\ made[Src] \in Nat /\ taken[Src] \in Nat /\ raw[Src] \in Nat /\ held[Src] \in Nat
      /\ taken[Src] + raw[Src] + held[Src] <= made[Src]
  BY <1>a DEF RelayInv, TypeOK
<1>c. Available \in Nat /\ n \in Nat /\ n > 0 /\ n <= Available
  BY <1>b, RelaySizes DEF PumpReads, Available, InKernel, Least
<1>d. /\ buf' = Bytes(taken[Src] + 1, taken[Src] + n)
      /\ taken' = [taken EXCEPT ![Src] = taken[Src] + n]
      /\ held' = [held EXCEPT ![Src] = IF Tls(Src) THEN Available - n ELSE 0]
      /\ raw' = [raw EXCEPT ![Src] = IF held[Src] > 0 THEN raw[Src] ELSE 0]
  BY DEF PumpReads
<1>e. /\ buf' \in Seq(Nat) /\ Len(buf') = n /\ buf' # <<>>
  <2>1. taken[Src] + 1 \in Nat /\ taken[Src] + n \in Nat /\ taken[Src] + 1 <= (taken[Src] + n) + 1
    BY <1>b, <1>c
  <2>2. (taken[Src] + n) - (taken[Src] + 1) + 1 = n
    BY <1>b, <1>c
  <2>3. buf' \in Seq(Nat) /\ Len(buf') = (taken[Src] + n) - (taken[Src] + 1) + 1
    BY <1>d, <2>1, BytesSeq
  <2> HIDE DEF n
  <2> QED BY <1>c, <2>2, <2>3
<1> HIDE DEF n
<1>1. TypeOK'
  <2>1. taken' \in [End -> Nat] /\ held' \in [End -> Nat] /\ raw' \in [End -> Nat]
    BY <1>a, <1>c, <1>d, SMTT(40) DEF RelayInv, TypeOK
  <2>2. ASSUME NEW e \in End
        PROVE  taken'[e] + raw'[e] + held'[e] <= made'[e]
    <3>1. CASE e = Src
      <4>1. /\ taken'[e] = taken[Src] + n /\ made'[e] = made[Src]
            /\ held'[e] = IF Tls(Src) THEN Available - n ELSE 0
            /\ raw'[e] = IF held[Src] > 0 THEN raw[Src] ELSE 0
        BY <1>d, <3>1 DEF RelayInv, TypeOK, PumpReads, farVars
      <4> QED BY <1>b, <1>c, <4>1 DEF Available, InKernel
    <3>2. CASE e # Src
      BY <3>2 DEF RelayInv, TypeOK, PumpReads, farVars
    <3> QED BY <3>1, <3>2
  <2> QED BY <1>e, <2>1, <2>2 DEF RelayInv, TypeOK, PumpReads, farVars
<1>2. RelayExact'
  <2> SUFFICES ASSUME NEW e \in End
               PROVE  out'[Other(e)] \o Kept(e)' = Bytes(1, taken'[e])
    BY DEF RelayExact
  <2>1. Other(e) \in End /\ out' = out /\ Src' = Src
    BY DEF End, Other, Src, PumpReads
  <2>2. out[Other(e)] \o <<>> = Bytes(1, taken[e])
    BY <1>a DEF RelayInv, RelayExact, Kept
  <2>3. out[Other(e)] = Bytes(1, taken[e])
    BY <2>2
  <2>4. CASE e = Src
    <3>1. Kept(e)' = Bytes(taken[e] + 1, taken[e] + n)
      BY <1>d, <2>1, <2>4 DEF Kept
    <3>2. taken'[e] = taken[e] + n
      BY <1>d, <2>4 DEF RelayInv, TypeOK
    <3> QED BY <1>b, <1>c, <2>1, <2>3, <2>4, <3>1, <3>2, BytesJoin
  <2>5. CASE e # Src
    <3>1. Kept(e)' = <<>>
      BY <2>1, <2>5 DEF Kept
    <3>2. taken'[e] = taken[e]
      BY <1>d, <2>5
    <3> QED BY <2>1, <2>2, <3>1, <3>2
  <2> QED BY <2>4, <2>5
<1>3. RoundInv'
  BY DEF RelayInv, RoundInv, PumpReads
<1>4. RecordInv'
  <2> SUFFICES ASSUME NEW e \in End
               PROVE  /\ ~Tls(e) => raw'[e] = 0 /\ held'[e] = 0
                      /\ Tls(e) => /\ (taken'[e] + held'[e]) % RecLen = 0
                                   /\ ended'[e] => made'[e] % RecLen = 0
    BY DEF RecordInv, Tls, PumpReads
  <2>1. CASE e # Src
    BY <2>1 DEF RelayInv, RecordInv, PumpReads, farVars
  <2>2. CASE e = Src /\ ~Tls(e)
    BY <1>d, <2>2 DEF RelayInv, RecordInv
  <2>3. CASE e = Src /\ Tls(e)
    <3>1. /\ taken'[e] = taken[e] + n /\ held'[e] = Available - n
          /\ (taken[e] + held[e]) % RecLen = 0
          /\ (ended[e] => made[e] % RecLen = 0)
      BY <1>d, <2>3 DEF RelayInv, TypeOK, RecordInv
    <3>2. taken'[e] + held'[e] = taken[e] + Available
      BY <1>b, <1>c, <2>3, <3>1
    <3>3. CASE held[e] > 0
      BY <2>3, <3>1, <3>2, <3>3 DEF Available, PumpReads, farVars
    <3>4. CASE ~(held[e] > 0)
      <4>1. held[e] = 0 /\ Available = RecLen
        BY <1>b, <1>c, <2>3, <3>4 DEF Available
      <4>2. taken[e] % RecLen = 0
        BY <1>b, <2>3, <3>1, <4>1
      <4>3. (taken[e] + RecLen) % RecLen = 0
        BY <1>b, <2>3, <4>2, OneRecordMore
      <4> QED BY <2>3, <3>1, <3>2, <4>1, <4>3 DEF PumpReads, farVars
    <3> QED BY <3>3, <3>4
  <2> QED BY <2>1, <2>2, <2>3
<1>5. EofInv'
  BY DEF RelayInv, EofInv, EofFollowsData, Gone, PumpReads, farVars
<1>6. DoneInv'
  BY DEF DoneInv, PumpReads
<1> QED BY <1>1, <1>2, <1>3, <1>4, <1>5, <1>6 DEF RelayInv

(* Part of a record goes to the TLS layer.                                 *)
LEMMA PumpAgainKeeps ==
  ASSUME RelayInv, PumpAgain
  PROVE  RelayInv'
<1>a. Src \in End /\ Src \in todo /\ buf = <<>>
  BY DEF RelayInv, TypeOK, PumpAgain, Src, End
<1>b. /\ made[Src] \in Nat /\ taken[Src] \in Nat /\ raw[Src] \in Nat /\ held[Src] \in Nat
      /\ taken[Src] + raw[Src] + held[Src] <= made[Src]
  BY <1>a DEF RelayInv, TypeOK
<1>c. /\ InKernel(Src) \in Nat
      /\ raw' = [raw EXCEPT ![Src] = raw[Src] + InKernel(Src)]
  BY <1>b DEF PumpAgain, InKernel
<1>1. TypeOK'
  <2>1. raw' \in [End -> Nat]
    BY <1>a, <1>c DEF RelayInv, TypeOK
  <2>2. ASSUME NEW e \in End
        PROVE  taken'[e] + raw'[e] + held'[e] <= made'[e]
    <3>1. CASE e = Src
      <4>1. /\ raw'[e] = raw[Src] + InKernel(Src) /\ made'[e] = made[Src]
            /\ taken'[e] = taken[Src] /\ held'[e] = held[Src]
        BY <3>1 DEF RelayInv, TypeOK, PumpAgain, farVars
      <4> QED BY <1>b, <4>1 DEF InKernel
    <3>2. CASE e # Src
      BY <3>2 DEF RelayInv, TypeOK, PumpAgain, farVars
    <3> QED BY <3>1, <3>2
  <2>3. todo' \subseteq End /\ pc' \in {"head", "pump"} /\ (pc' = "pump" => todo' # {})
    BY DEF RelayInv, TypeOK, PumpAgain, NextStream
  <2> QED BY <2>1, <2>2, <2>3 DEF RelayInv, TypeOK, PumpAgain, farVars
<1>2. RelayExact'
  BY DEF RelayInv, TypeOK, RelayExact, Kept, PumpAgain
<1>3. RoundInv'
  BY DEF RelayInv, RoundInv, PumpAgain, NextStream
<1>4. RecordInv'
  <2> SUFFICES ASSUME NEW e \in End
               PROVE  ~Tls(e) => raw'[e] = 0 /\ held'[e] = 0
    BY DEF RelayInv, RecordInv, Tls, PumpAgain, farVars
  <2>1. CASE e = Src /\ ~Tls(e)
    <3>1. InKernel(Src) = 0
      BY <2>1 DEF PumpAgain, Available
    <3> QED BY <3>1 DEF RelayInv, RecordInv, PumpAgain
  <2>2. CASE e # Src
    BY <2>2 DEF RelayInv, RecordInv, PumpAgain
  <2> QED BY <2>1, <2>2
<1>5. EofInv'
  BY DEF RelayInv, EofInv, EofFollowsData, Gone, PumpAgain, farVars
<1>6. DoneInv'
  BY DEF DoneInv, PumpAgain, NextStream
<1> QED BY <1>1, <1>2, <1>3, <1>4, <1>5, <1>6 DEF RelayInv

(* End of file: every byte the far end sent has been written.              *)
LEMMA PumpEofKeeps ==
  ASSUME RelayInv, PumpEof
  PROVE  RelayInv'
<1>a. Src \in End /\ Src \in todo /\ buf = <<>> /\ Dst \in End /\ Dst # Src
  BY DEF RelayInv, TypeOK, PumpEof, Src, Dst, Other, End
<1>b. /\ eof' = [eof EXCEPT ![Src] = TRUE]
      /\ shut' = [shut EXCEPT ![Dst] = shut'[Dst]] /\ shut' \in [End -> BOOLEAN]
  BY DEF RelayInv, TypeOK, PumpEof, AtEof, shutdown_write
<1>c. \/ /\ setup[Src].close_on_eof /\ pc' = "done" /\ result' = 0
         /\ todo' = todo /\ active' = active
      \/ /\ ~setup[Src].close_on_eof /\ pc' = (IF todo' = {} THEN "head" ELSE "pump")
         /\ todo' = todo \ {Src} /\ active' = [active EXCEPT ![Src] = FALSE]
         /\ result' = result
  BY DEF PumpEof, AtEof, NextStream, Return
<1>1. TypeOK'
  <2>1. eof' \in [End -> BOOLEAN] /\ active' \in [End -> BOOLEAN]
    BY <1>b, <1>c DEF RelayInv, TypeOK
  <2>2. /\ todo' \subseteq End /\ pc' \in {"head", "pump", "done"} /\ (pc' = "pump" => todo' # {})
        /\ result' \in {0, -1}
    BY <1>c DEF RelayInv, TypeOK
  <2> QED BY <1>b, <2>1, <2>2 DEF RelayInv, TypeOK, PumpEof, farVars
<1>2. RelayExact'
  BY DEF RelayInv, TypeOK, RelayExact, Kept, PumpEof
<1>3. RoundInv'
  <2>1. pc' = "pump" => \A e \in todo' : active'[e]
    BY <1>c DEF RelayInv, TypeOK, RoundInv, PumpEof
  <2>2. ASSUME NEW e \in End
        PROVE  /\ ~active'[e] => eof'[e]
               /\ eof'[e] => pc' = "done" \/ ~active'[e]
    <3>1. eof'[e] = (eof[e] \/ e = Src)
      BY <1>a, <1>b DEF RelayInv, TypeOK
    <3>2. /\ ~active[e] => eof[e]
          /\ eof[e] => ~active[e]
      BY DEF RelayInv, RoundInv, PumpEof
    <3>3. CASE pc' = "done" /\ active' = active
      BY <3>1, <3>2, <3>3
    <3>4. CASE active' = [active EXCEPT ![Src] = FALSE]
      <4>1. active'[e] = (active[e] /\ e # Src)
        BY <1>a, <3>4 DEF RelayInv, TypeOK
      <4> QED BY <3>1, <3>2, <4>1
    <3> QED BY <1>c, <3>3, <3>4
  <2>3. pc' # "write"
    BY <1>c
  <2> QED BY <2>1, <2>2, <2>3 DEF RoundInv
<1>4. RecordInv'
  BY DEF RelayInv, RecordInv, Tls, PumpEof, farVars
<1>5. EofInv'
  <2>1. \A e \in End : eof'[e] => Gone(e)'
    BY <1>b DEF RelayInv, EofInv, PumpEof, Gone, farVars
  <2>2. \A e \in End : shut'[Other(e)] => eof'[e]
    BY <1>a, <1>b DEF RelayInv, TypeOK, EofInv, EofFollowsData, End, Other
  <2>3. ASSUME ~broke[Src]
        PROVE  ended[Src] /\ out[Other(Src)] = Bytes(1, made[Src])
    <3>1. ended[Src]
      BY <2>3 DEF PumpEof, Gone
    <3>2. /\ made[Src] \in Nat /\ taken[Src] \in Nat /\ raw[Src] \in Nat /\ held[Src] \in Nat
          /\ taken[Src] + raw[Src] + held[Src] <= made[Src]
      BY <1>a DEF RelayInv, TypeOK
    <3>3. taken[Src] = made[Src]
      <4>1. CASE ~Tls(Src)
        BY <1>a, <3>2, <4>1 DEF RelayInv, RecordInv, PumpEof, Available, InKernel
      <4>2. CASE Tls(Src)
        <5>1. held[Src] = 0 /\ made[Src] - taken[Src] < RecLen
          BY <3>2, <4>2, RelaySizes DEF PumpEof, Available, InKernel
        <5>2. taken[Src] % RecLen = 0 /\ made[Src] % RecLen = 0
          BY <1>a, <3>1, <3>2, <4>2, <5>1 DEF RelayInv, RecordInv
        <5> QED BY <3>2, <5>1, <5>2, NoPartRecord
      <4> QED BY <4>1, <4>2
    <3>4. out[Other(Src)] \o <<>> = Bytes(1, taken[Src])
      BY <1>a DEF RelayInv, RelayExact, Kept
    <3>5. out[Other(Src)] \in Seq(Nat)
      BY <1>a DEF RelayInv, TypeOK, Dst
    <3> QED BY <3>1, <3>3, <3>4
  <2>4. \A e \in End : eof'[e] /\ ~broke[e] => ended[e] /\ out[Other(e)] = Bytes(1, made[e])
    BY <1>b, <2>3 DEF RelayInv, EofInv, EofFollowsData
  <2> QED BY <2>1, <2>2, <2>4 DEF EofInv, EofFollowsData, PumpEof, farVars
<1>6. DoneInv'
  BY DEF RelayInv, TypeOK, DoneInv, End, Other, Src, PumpEof, AtEof, NextStream
<1> QED BY <1>1, <1>2, <1>3, <1>4, <1>5, <1>6 DEF RelayInv

(* One write moves the front of the buffer to the far end.                 *)
LEMMA PumpWritesKeeps ==
  ASSUME RelayInv, PumpWrites
  PROVE  RelayInv'
<1> DEFINE n == Least(Len(buf), SockBuf - unread[Dst])
<1>a. Src \in End /\ Src \in todo /\ Dst \in End /\ Dst # Src
  BY DEF RelayInv, TypeOK, PumpWrites, Src, Dst, Other, End
<1>b. buf \in Seq(Nat) /\ buf # <<>> /\ Len(buf) \in Nat \ {0}
  BY DEF RelayInv, TypeOK, PumpWrites
<1>c. unread[Dst] \in Nat /\ n \in 1..Len(buf) /\ unread[Dst] + n <= SockBuf
  <2>1. unread[Dst] \in Nat /\ SockBuf \in Nat /\ unread[Dst] < SockBuf
    BY <1>a, RelaySizes DEF RelayInv, TypeOK, PumpWrites
  <2> QED BY <1>b, <2>1 DEF Least
<1>d. /\ out' = [out EXCEPT ![Dst] = out[Dst] \o SubSeq(buf, 1, n)]
      /\ unread' = [unread EXCEPT ![Dst] = unread[Dst] + n]
      /\ buf' = SubSeq(buf, n + 1, Len(buf))
  BY DEF PumpWrites, Written
<1> HIDE DEF n
<1>e. /\ SubSeq(buf, 1, n) \in Seq(Nat) /\ buf' \in Seq(Nat)
      /\ (out[Dst] \o SubSeq(buf, 1, n)) \o buf' = out[Dst] \o buf
  <2>1. out[Dst] \in Seq(Nat) /\ n \in 0..Len(buf)
    BY <1>a, <1>c DEF RelayInv, TypeOK
  <2> QED BY <1>b, <1>d, <2>1, WriteSplit
<1>f. \/ buf' = <<>> /\ todo' = todo \ {Src} /\ pc' = (IF todo' = {} THEN "head" ELSE "pump")
      \/ buf' # <<>> /\ todo' = todo /\ pc' = "write"
  BY DEF PumpWrites, NextStream
<1>1. TypeOK'
  <2>1. out' \in [End -> Seq(Nat)]
    <3>1. out[Dst] \o SubSeq(buf, 1, n) \in Seq(Nat)
      BY <1>a, <1>e DEF RelayInv, TypeOK
    <3> QED BY <1>d, <3>1 DEF RelayInv, TypeOK
  <2>2. unread' \in [End -> Nat] /\ \A e \in End : unread'[e] <= SockBuf
    <3>1. unread[Dst] + n \in Nat
      BY <1>c
    <3> QED BY <1>c, <1>d, <3>1 DEF RelayInv, TypeOK
  <2>3. /\ todo' \subseteq End /\ pc' \in {"head", "pump", "write"}
        /\ (pc' \in {"pump", "write"} => todo' # {}) /\ (pc' = "write" <=> buf' # <<>>)
    BY <1>a, <1>f DEF RelayInv, TypeOK
  <2> QED BY <1>e, <2>1, <2>2, <2>3 DEF RelayInv, TypeOK, PumpWrites, farVars
<1>2. RelayExact'
  <2> SUFFICES ASSUME NEW e \in End
               PROVE  out'[Other(e)] \o Kept(e)' = Bytes(1, taken[e])
    BY DEF RelayExact, PumpWrites
  <2>1. CASE e = Src
    <3>1. Kept(e) = buf /\ Other(e) = Dst
      BY <2>1 DEF Kept, Dst
    <3>2. out'[Dst] = out[Dst] \o SubSeq(buf, 1, n)
      BY <1>a, <1>d DEF RelayInv, TypeOK
    <3>3. Kept(e)' = buf'
      BY <1>f, <2>1 DEF Kept, Src
    <3>4. out[Dst] \o buf = Bytes(1, taken[e])
      BY <3>1 DEF RelayInv, RelayExact
    <3> QED BY <1>e, <3>1, <3>2, <3>3, <3>4
  <2>2. CASE e # Src
    <3>1. Kept(e) = <<>> /\ Kept(e)' = <<>>
      BY <1>f, <2>2 DEF Kept, Src
    <3>2. out'[Other(e)] = out[Other(e)]
      BY <1>a, <1>d, <2>2 DEF End, Other
    <3> QED BY <3>1, <3>2 DEF RelayInv, RelayExact
  <2> QED BY <2>1, <2>2
<1>3. RoundInv'
  BY DEF RelayInv, RoundInv, PumpWrites, NextStream
<1>4. RecordInv'
  BY DEF RelayInv, RecordInv, Tls, PumpWrites, farVars
<1>5. EofInv'
  <2>1. UNCHANGED <<eof, shut, farVars>> /\ pc = "write"
    BY DEF PumpWrites
  <2>2. ASSUME NEW e \in End, eof[e] PROVE out'[Other(e)] = out[Other(e)]
    <3>1. e # Src
      BY <1>a, <2>1, <2>2 DEF RelayInv, RoundInv
    <3>2. Other(e) # Dst /\ Other(e) \in End
      BY <1>a, <3>1 DEF End, Other, Dst
    <3> QED BY <1>a, <1>d, <3>2 DEF RelayInv, TypeOK
  <2> QED BY <2>1, <2>2 DEF RelayInv, EofInv, EofFollowsData, Gone, farVars
<1>6. DoneInv'
  BY DEF DoneInv, PumpWrites, NextStream
<1> QED BY <1>1, <1>2, <1>3, <1>4, <1>5, <1>6 DEF RelayInv

(* A write fails.                                                          *)
LEMMA PumpFailsKeeps ==
  ASSUME RelayInv, PumpFails
  PROVE  RelayInv'
<1>1. TypeOK'
  BY DEF RelayInv, TypeOK, PumpFails, Return, farVars
<1>2. RelayExact'
  BY DEF RelayInv, RelayExact, Kept, Src, PumpFails
<1>3. RoundInv'
  BY DEF RelayInv, RoundInv, PumpFails
<1>4. RecordInv'
  BY DEF RelayInv, RecordInv, Tls, PumpFails, farVars
<1>5. EofInv'
  BY DEF RelayInv, EofInv, EofFollowsData, Gone, PumpFails, farVars
<1>6. DoneInv'
  BY DEF DoneInv, PumpFails, Return
<1> QED BY <1>1, <1>2, <1>3, <1>4, <1>5, <1>6 DEF RelayInv

-----------------------------------------------------------------------------
(* The far ends and the signal.                                            *)

(* A far end sends.                                                        *)
LEMMA FarSendKeeps ==
  ASSUME RelayInv, NEW e \in End, FarSend(e), pc # "done"
  PROVE  RelayInv'
<1>1. TypeOK'
  <2>1. made' \in [End -> Nat] /\ \A x \in End : made[x] <= made'[x]
    <3>1. made \in [End -> Nat] /\ made' = [made EXCEPT ![e] = made[e] + 1]
      BY DEF RelayInv, TypeOK, FarSend
    <3> QED BY <3>1
  <2>2. ASSUME NEW x \in End PROVE taken[x] + raw[x] + held[x] <= made'[x]
    <3>1. /\ taken[x] \in Nat /\ raw[x] \in Nat /\ held[x] \in Nat /\ made[x] \in Nat
          /\ taken[x] + raw[x] + held[x] <= made[x]
      BY DEF RelayInv, TypeOK
    <3>2. made'[x] \in Nat /\ made[x] <= made'[x]
      BY <2>1
    <3> QED BY <3>1, <3>2
  <2> QED BY <2>1, <2>2 DEF RelayInv, TypeOK, FarSend, relayVars
<1>2. RelayExact'
  BY DEF RelayInv, RelayExact, Kept, Src, FarSend, relayVars
<1>3. RoundInv'
  BY DEF RelayInv, RoundInv, FarSend, relayVars
<1>4. RecordInv'
  BY DEF RelayInv, RecordInv, Tls, Gone, FarSend, relayVars
<1>5. EofInv'
  BY DEF RelayInv, EofInv, EofFollowsData, Gone, FarSend, relayVars
<1>6. DoneInv'
  BY DEF DoneInv, FarSend
<1> QED BY <1>1, <1>2, <1>3, <1>4, <1>5, <1>6 DEF RelayInv

(* A far end finishes, between two TLS records.                            *)
LEMMA FarEndsKeeps ==
  ASSUME RelayInv, NEW e \in End, FarEnds(e), pc # "done"
  PROVE  RelayInv'
<1>1. TypeOK'
  BY DEF RelayInv, TypeOK, FarEnds, relayVars
<1>2. RelayExact'
  BY DEF RelayInv, RelayExact, Kept, Src, FarEnds, relayVars
<1>3. RoundInv'
  BY DEF RelayInv, RoundInv, FarEnds, relayVars
<1>4. RecordInv'
  BY DEF RelayInv, RecordInv, Tls, Gone, FarEnds, relayVars
<1>5. EofInv'
  BY DEF RelayInv, EofInv, EofFollowsData, Gone, FarEnds, relayVars
<1>6. DoneInv'
  BY DEF DoneInv, FarEnds
<1> QED BY <1>1, <1>2, <1>3, <1>4, <1>5, <1>6 DEF RelayInv

(* A far end breaks.                                                       *)
LEMMA FarBreaksKeeps ==
  ASSUME RelayInv, NEW e \in End, FarBreaks(e), pc # "done"
  PROVE  RelayInv'
<1>1. TypeOK'
  BY DEF RelayInv, TypeOK, FarBreaks, relayVars
<1>2. RelayExact'
  BY DEF RelayInv, RelayExact, Kept, Src, FarBreaks, relayVars
<1>3. RoundInv'
  BY DEF RelayInv, RoundInv, FarBreaks, relayVars
<1>4. RecordInv'
  BY DEF RelayInv, RecordInv, Tls, FarBreaks, relayVars
<1>5. EofInv'
  BY DEF RelayInv, EofInv, EofFollowsData, Gone, FarBreaks, relayVars
<1>6. DoneInv'
  BY DEF DoneInv, FarBreaks
<1> QED BY <1>1, <1>2, <1>3, <1>4, <1>5, <1>6 DEF RelayInv

(* A far end reads.                                                        *)
LEMMA FarReadsKeeps ==
  ASSUME RelayInv, NEW e \in End, FarReads(e), pc # "done"
  PROVE  RelayInv'
<1>1. TypeOK'
  <2>1. unread' \in [End -> Nat] /\ \A x \in End : unread'[x] <= SockBuf
    <3>1. 0 \in Nat /\ 0 <= SockBuf
      BY RelaySizes
    <3>2. unread \in [End -> Nat] /\ unread' = [unread EXCEPT ![e] = 0]
      BY DEF RelayInv, TypeOK, FarReads
    <3>3. \A x \in End : unread[x] <= SockBuf
      BY DEF RelayInv, TypeOK
    <3> QED BY <3>1, <3>2, <3>3
  <2> QED BY <2>1 DEF RelayInv, TypeOK, FarReads, relayVars, farVars
<1>2. RelayExact'
  BY DEF RelayInv, RelayExact, Kept, Src, FarReads, relayVars
<1>3. RoundInv'
  BY DEF RelayInv, RoundInv, FarReads, relayVars
<1>4. RecordInv'
  BY DEF RelayInv, RecordInv, Tls, FarReads, relayVars, farVars
<1>5. EofInv'
  BY DEF RelayInv, EofInv, EofFollowsData, Gone, FarReads, relayVars, farVars
<1>6. DoneInv'
  BY DEF DoneInv, FarReads
<1> QED BY <1>1, <1>2, <1>3, <1>4, <1>5, <1>6 DEF RelayInv

(* A signal is noted, and interrupts poll().                               *)
LEMMA SignalKeeps ==
  ASSUME RelayInv, Signal
  PROVE  RelayInv'
<1>1. TypeOK'
  BY DEF RelayInv, TypeOK, Signal, relayVars, farVars
<1>2. RelayExact'
  BY DEF RelayInv, RelayExact, Kept, Src, Signal, relayVars
<1>3. RoundInv'
  BY DEF RelayInv, RoundInv, Signal, relayVars
<1>4. RecordInv'
  BY DEF RelayInv, RecordInv, Tls, Signal, relayVars, farVars
<1>5. EofInv'
  BY DEF RelayInv, EofInv, EofFollowsData, Gone, Signal, relayVars, farVars
<1>6. DoneInv'
  BY DEF DoneInv, Signal
<1> QED BY <1>1, <1>2, <1>3, <1>4, <1>5, <1>6 DEF RelayInv

-----------------------------------------------------------------------------
(* The invariant holds in the beginning.                                   *)
LEMMA InitEstablishes == Init => RelayInv
<1> SUFFICES ASSUME Init PROVE RelayInv
  OBVIOUS
<1>1. TypeOK
  <2>1. out \in [End -> Seq(Nat)] /\ buf \in Seq(Nat)
    BY DEF Init
  <2>2. /\ made \in [End -> Nat] /\ taken \in [End -> Nat] /\ raw \in [End -> Nat]
        /\ held \in [End -> Nat] /\ unread \in [End -> Nat]
    BY DEF Init
  <2>3. /\ active \in [End -> BOOLEAN] /\ eof \in [End -> BOOLEAN] /\ shut \in [End -> BOOLEAN]
        /\ ended \in [End -> BOOLEAN] /\ broke \in [End -> BOOLEAN]
    BY DEF Init
  <2>4. \A e \in End : taken[e] + raw[e] + held[e] <= made[e] /\ unread[e] <= SockBuf
    BY RelaySizes DEF Init
  <2> QED BY <2>1, <2>4 DEF Init, TypeOK
<1>2. RelayExact
  <2>1. <<>> \o <<>> = <<>>
    OBVIOUS
  <2> QED BY BytesEmpty DEF Init, RelayExact, Kept, End, Other
<1>3. RoundInv
  BY DEF RoundInv, Init
<1>4. RecordInv
  BY RelaySizes DEF RecordInv, Init
<1>5. EofInv
  BY DEF EofInv, EofFollowsData, End, Other, Init
<1>6. DoneInv
  BY DEF DoneInv, Init
<1> QED BY <1>1, <1>2, <1>3, <1>4, <1>5, <1>6 DEF RelayInv

(* Every step keeps it.                                                    *)
LEMMA StepKeeps == RelayInv /\ [Next]_vars => RelayInv'
<1> SUFFICES ASSUME RelayInv, [Next]_vars PROVE RelayInv'
  OBVIOUS
<1>1. CASE RelayStep
  BY <1>1, LoopEndsKeeps, ReadPendingKeeps, EnterPollKeeps, SleepKeeps, PollReadyKeeps,
     TickWakesKeeps, TimesOutKeeps, PumpReadsKeeps, PumpAgainKeeps, PumpEofKeeps,
     PumpWritesKeeps, PumpFailsKeeps DEF RelayStep
<1>2. CASE pc # "done" /\ Far
  BY <1>2, FarSendKeeps, FarEndsKeeps, FarBreaksKeeps, FarReadsKeeps DEF Far
<1>3. CASE Signal
  BY <1>3, SignalKeeps
<1>4. CASE UNCHANGED vars
  <2>1. TypeOK'
    BY <1>4 DEF RelayInv, TypeOK, vars
  <2>2. RelayExact'
    BY <1>4 DEF RelayInv, RelayExact, Kept, Src, vars
  <2>3. RoundInv'
    BY <1>4 DEF RelayInv, RoundInv, vars
  <2>4. RecordInv'
    BY <1>4 DEF RelayInv, RecordInv, Tls, vars
  <2>5. EofInv'
    BY <1>4 DEF RelayInv, EofInv, EofFollowsData, Gone, vars
  <2>6. DoneInv'
    BY <1>4 DEF RelayInv, DoneInv, vars
  <2> QED BY <2>1, <2>2, <2>3, <2>4, <2>5, <2>6 DEF RelayInv
<1> QED BY <1>1, <1>2, <1>3, <1>4 DEF Next, Terminated

(* The invariant of the relay.                                             *)
LEMMA RelayInvariant == Spec => []RelayInv
BY InitEstablishes, StepKeeps, PTL DEF Spec

-----------------------------------------------------------------------------
(* wcat_relay_bidirectional keeps its variables in type: no counter passes *)
(* what the far end has sent, no buffer its size.                          *)
THEOREM TypeCorrect == Spec => []TypeOK
<1>1. RelayInv => TypeOK
  BY DEF RelayInv
<1> QED BY <1>1, RelayInvariant, PTL

(* pump_once loses, repeats and reorders no byte, whatever the sizes of    *)
(* reads, writes and TLS records.                                          *)
THEOREM CopiesExactly == Spec => []RelayExact
<1>1. RelayInv => RelayExact
  BY DEF RelayInv
<1> QED BY <1>1, RelayInvariant, PTL

(* A direction is closed only when all of its bytes have been written.     *)
THEOREM EofComesLast == Spec => []EofFollowsData
<1>1. RelayInv => EofFollowsData
  BY DEF RelayInv, EofInv
<1> QED BY <1>1, RelayInvariant, PTL

(* What answers a stream that may end first is heard to its end.           *)
THEOREM AnswerHeard == Spec => []AnswerDelivered
<1>1. RelayInv => AnswerDelivered
  BY DEF RelayInv, DoneInv, EofInv, EofFollowsData, AnswerDelivered, End, Other
<1> QED BY <1>1, RelayInvariant, PTL
=============================================================================
