---------------------------- MODULE AccessProofs ----------------------------
(***************************************************************************)
(* Proof that the byte by byte comparison of access.c decides what the     *)
(* lists mean bit by bit, for every width of a byte and every length of an *)
(* address.                                                                *)
(***************************************************************************)
EXTENDS Access, NatFacts

-----------------------------------------------------------------------------
(* Powers of two. TwoTo is a recursive function: that there is one is to   *)
(* be shown first, from its finite beginnings.                             *)

Beginnings(n) == {g \in [0..n -> Nat] : g[0] = 1 /\ \A k \in 1..n : g[k] = 2 * g[k - 1]}

(* Every number has a beginning that reaches it.                           *)
LEMMA BeginningsExist == \A n \in Nat : Beginnings(n) # {}
<1> DEFINE S == {n \in Nat : Beginnings(n) # {}}
<1>1. 0 \in S
  <2>1. [k \in 0..0 |-> 1] \in Beginnings(0)
    BY DEF Beginnings
  <2> QED BY <2>1
<1>2. ASSUME NEW n \in Nat, n \in S PROVE n + 1 \in S
  <2>1. PICK g : g \in Beginnings(n)
    BY <1>2
  <2> DEFINE h == [k \in 0..(n + 1) |-> IF k = n + 1 THEN 2 * g[n] ELSE g[k]]
  <2>2. g \in [0..n -> Nat] /\ g[0] = 1 /\ \A k \in 1..n : g[k] = 2 * g[k - 1]
    BY <2>1 DEF Beginnings
  <2>3. h \in [0..(n + 1) -> Nat]
    BY <2>2
  <2>4. h[0] = 1
    BY <2>2
  <2>5. \A k \in 1..(n + 1) : h[k] = 2 * h[k - 1]
    BY <2>2
  <2>6. h \in Beginnings(n + 1)
    BY <2>3, <2>4, <2>5 DEF Beginnings
  <2> QED BY <2>6
<1> HIDE DEF S
<1>3. Nat \subseteq S
  BY <1>1, <1>2, SetInduction
<1> QED BY <1>3 DEF S

(* Two beginnings agree as far as both reach.                              *)
LEMMA BeginningsAgree ==
  ASSUME NEW n \in Nat, NEW m \in Nat, NEW g \in Beginnings(n), NEW h \in Beginnings(m)
  PROVE  \A k \in Nat : k <= n /\ k <= m => g[k] = h[k]
<1> DEFINE S == {k \in Nat : k <= n /\ k <= m => g[k] = h[k]}
<1>1. 0 \in S
  BY DEF Beginnings
<1>2. ASSUME NEW k \in Nat, k \in S PROVE k + 1 \in S
  <2> SUFFICES ASSUME k + 1 <= n, k + 1 <= m PROVE g[k + 1] = h[k + 1]
    OBVIOUS
  <2>1. g[k] = h[k] /\ k + 1 \in 1..n /\ k + 1 \in 1..m /\ (k + 1) - 1 = k
    BY <1>2
  <2>2. g[k + 1] = 2 * g[(k + 1) - 1] /\ h[k + 1] = 2 * h[(k + 1) - 1]
    BY <2>1 DEF Beginnings
  <2> QED BY <2>1, <2>2
<1> HIDE DEF S
<1>3. Nat \subseteq S
  BY <1>1, <1>2, SetInduction
<1> QED BY <1>3 DEF S

(* 2^0 is 1, and 2^n is twice 2^(n-1).                                     *)
LEMMA PowersOfTwo ==
  /\ TwoTo[0] = 1
  /\ \A n \in Nat : TwoTo[n] \in Nat \ {0} /\ TwoTo[n + 1] = 2 * TwoTo[n]
<1> DEFINE G(n) == CHOOSE g : g \in Beginnings(n)
           f == [n \in Nat |-> G(n)[n]]
<1>1. \A n \in Nat : G(n) \in Beginnings(n)
  BY BeginningsExist
<1> HIDE DEF G
<1>2. \A n \in Nat : G(n) \in [0..n -> Nat] /\ G(n)[0] = 1 /\ \A k \in 1..n : G(n)[k] = 2 * G(n)[k - 1]
  BY <1>1 DEF Beginnings
<1>3. f[0] = 1 /\ \A n \in Nat : f[n] \in Nat
  BY <1>2
<1>4. \A n \in Nat \ {0} : f[n] = 2 * f[n - 1]
  <2> TAKE n \in Nat \ {0}
  <2>1. n - 1 \in Nat /\ n - 1 <= n /\ n \in 1..n /\ n \in Nat
    OBVIOUS
  <2>2. G(n)[n] = 2 * G(n)[n - 1]
    BY <1>2, <2>1
  <2>3. G(n)[n - 1] = G(n - 1)[n - 1]
    BY <1>1, <2>1, BeginningsAgree
  <2> QED BY <2>1, <2>2, <2>3
<1>5. f = [n \in Nat |-> IF n = 0 THEN 1 ELSE 2 * f[n - 1]]
  BY <1>3, <1>4
<1> HIDE DEF f
<1>6. \E t : t = [n \in Nat |-> IF n = 0 THEN 1 ELSE 2 * t[n - 1]]
  BY <1>5
<1>7. TwoTo = [n \in Nat |-> IF n = 0 THEN 1 ELSE 2 * TwoTo[n - 1]]
  BY <1>6 DEF TwoTo
<1>8. TwoTo[0] = 1 /\ \A n \in Nat : TwoTo[n + 1] = 2 * TwoTo[n]
  BY <1>7
<1> DEFINE S == {n \in Nat : TwoTo[n] \in Nat \ {0}}
<1>9. Nat \subseteq S
  <2>1. 0 \in S
    BY <1>8
  <2>2. \A n \in Nat : n \in S => n + 1 \in S
    BY <1>8
  <2> HIDE DEF S
  <2> QED BY <2>1, <2>2, SetInduction
<1> QED BY <1>8, <1>9


-----------------------------------------------------------------------------
(* Arithmetic.                                                             *)

(* Halving the quotient is dividing by twice the number.                   *)
LEMMA Halves ==
  \A x \in Nat, m \in Nat \ {0} : /\ x \div (2 * m) = (x \div m) \div 2
                                  /\ x \div m \in Nat
OBVIOUS

(* Clearing the low digits leaves the quotient.                            *)
LEMMA ClearingLow ==
  \A x \in Nat, y \in Nat, m \in Nat \ {0} :
      x - (x % m) = y - (y % m) <=> x \div m = y \div m
OBVIOUS

(* A number is its last bit and its half.                                  *)
LEMMA LastBit == \A x \in Nat, y \in Nat : x = y <=> x \div 2 = y \div 2 /\ x % 2 = y % 2
OBVIOUS

(* Bit number j of a byte, the highest first.                              *)
BitOf(x, j) == (x \div TwoTo[ByteBits - 1 - j]) % 2

(* Two bytes agree in their first r bits when their quotients agree.       *)
LEMMA LeadingBits ==
  ASSUME NEW x \in 0..(TwoTo[ByteBits] - 1), NEW y \in 0..(TwoTo[ByteBits] - 1),
         NEW r \in 0..ByteBits
  PROVE  x \div TwoTo[ByteBits - r] = y \div TwoTo[ByteBits - r]
            <=> \A j \in 0..(r - 1) : BitOf(x, j) = BitOf(y, j)
<1> DEFINE same(n) == x \div TwoTo[ByteBits - n] = y \div TwoTo[ByteBits - n]
           agree(n) == \A j \in 0..(n - 1) : BitOf(x, j) = BitOf(y, j)
           S == {n \in Nat : n <= ByteBits => (same(n) <=> agree(n))}
<1>1. ByteBits \in Nat \ {0} /\ TwoTo[ByteBits] \in Nat /\ x \in Nat /\ y \in Nat
  BY WidthAssumption, PowersOfTwo
<1>2. 0 \in S
  <2>1. x \div TwoTo[ByteBits] = 0 /\ y \div TwoTo[ByteBits] = 0
    <3>1. \A t \in Nat : \A z \in 0..(t - 1) : z \div t = 0
      OBVIOUS
    <3> QED BY <1>1, <3>1
  <2>2. ByteBits - 0 = ByteBits
    BY <1>1
  <2>3. same(0) /\ agree(0)
    BY <2>1, <2>2
  <2> QED BY <2>3
<1>3. ASSUME NEW n \in Nat, n \in S PROVE n + 1 \in S
  <2> SUFFICES ASSUME n + 1 <= ByteBits PROVE same(n + 1) <=> agree(n + 1)
    OBVIOUS
  <2> DEFINE m == TwoTo[ByteBits - (n + 1)]
  <2>1. /\ ByteBits - (n + 1) \in Nat /\ (ByteBits - (n + 1)) + 1 = ByteBits - n
        /\ ByteBits - 1 - n = ByteBits - (n + 1)
    BY <1>1
  <2>2. m \in Nat \ {0} /\ TwoTo[ByteBits - n] = 2 * m
    BY <2>1, PowersOfTwo
  <2>3. BitOf(x, n) = (x \div m) % 2 /\ BitOf(y, n) = (y \div m) % 2
    BY <2>1 DEF BitOf
  <2> HIDE DEF m
  <2>4. same(n + 1) <=> x \div m = y \div m
    BY DEF m
  <2>5. x \div m = y \div m <=> (x \div m) \div 2 = (y \div m) \div 2 /\ BitOf(x, n) = BitOf(y, n)
    <3> DEFINE p == x \div m
               q == y \div m
    <3>1. p \in Nat /\ q \in Nat
      BY <1>1, <2>2, Halves
    <3> HIDE DEF p, q
    <3>2. p = q <=> p \div 2 = q \div 2 /\ p % 2 = q % 2
      BY <3>1, LastBit
    <3> QED BY <2>3, <3>2 DEF p, q
  <2>6. same(n) <=> (x \div m) \div 2 = (y \div m) \div 2
    <3>1. x \div (2 * m) = (x \div m) \div 2 /\ y \div (2 * m) = (y \div m) \div 2
      BY <1>1, <2>2, Halves
    <3> QED BY <2>2, <3>1
  <2>7. same(n) <=> agree(n)
    BY <1>1, <1>3
  <2>8. agree(n + 1) <=> agree(n) /\ BitOf(x, n) = BitOf(y, n)
    <3>1. 0..((n + 1) - 1) = (0..(n - 1)) \cup {n}
      OBVIOUS
    <3> QED BY <3>1
  <2> HIDE DEF same, agree
  <2> QED BY <2>4, <2>5, <2>6, <2>7, <2>8
<1> HIDE DEF S
<1>4. Nat \subseteq S
  BY <1>2, <1>3, SetInduction
<1>5. r \in S /\ r <= ByteBits
  BY <1>1, <1>4
<1> QED BY <1>5 DEF S

(* memcmp and the mask: bytes are equal when all their bits are, and agree *)
(* under the mask of rem bits when their first rem bits do.                *)
LEMMA BytesAsBits ==
  ASSUME NEW x \in 0..(TwoTo[ByteBits] - 1), NEW y \in 0..(TwoTo[ByteBits] - 1)
  PROVE  /\ x = y <=> \A t \in 0..(ByteBits - 1) : BitOf(x, t) = BitOf(y, t)
         /\ \A rem \in 0..ByteBits :
                Masked(x, rem) = Masked(y, rem) <=> \A t \in 0..(rem - 1) : BitOf(x, t) = BitOf(y, t)
<1>1. ByteBits \in Nat \ {0} /\ TwoTo[ByteBits] \in Nat /\ x \in Nat /\ y \in Nat
  BY WidthAssumption, PowersOfTwo
<1>2. x = y <=> \A t \in 0..(ByteBits - 1) : BitOf(x, t) = BitOf(y, t)
  <2>1. ByteBits \in 0..ByteBits /\ ByteBits - ByteBits = 0
    BY <1>1
  <2>2. x \div TwoTo[ByteBits - ByteBits] = x /\ y \div TwoTo[ByteBits - ByteBits] = y
    BY <1>1, <2>1, PowersOfTwo
  <2> QED BY <2>1, <2>2, LeadingBits
<1>3. ASSUME NEW rem \in 0..ByteBits
      PROVE  Masked(x, rem) = Masked(y, rem) <=> \A t \in 0..(rem - 1) : BitOf(x, t) = BitOf(y, t)
  <2>1. TwoTo[ByteBits - rem] \in Nat \ {0}
    BY <1>1, PowersOfTwo
  <2>2. Masked(x, rem) = Masked(y, rem) <=> x \div TwoTo[ByteBits - rem] = y \div TwoTo[ByteBits - rem]
    BY <1>1, <2>1, ClearingLow DEF Masked
  <2> QED BY <2>2, LeadingBits
<1> QED BY <1>2, <1>3

(* The bits of an address, counted through its bytes.                      *)
LEMMA Positions ==
  ASSUME NEW B \in Nat \ {0}
  PROVE  /\ \A j \in Nat : /\ j \div B \in Nat /\ j % B \in 0..(B - 1)
                           /\ j = (j \div B) * B + (j % B)
         /\ \A k \in Nat, t \in 0..(B - 1) : (k * B + t) \div B = k /\ (k * B + t) % B = t
<1>1. \A j \in Nat : j \div B \in Nat /\ j % B \in 0..(B - 1) /\ j = (j \div B) * B + (j % B)
  OBVIOUS
<1>2. \A k \in Nat, t \in 0..(B - 1) : (k * B + t) \div B = k /\ (k * B + t) % B = t
  OBVIOUS
<1> QED BY <1>1, <1>2

(* Below a number of bits: in one of its whole bytes, or in the rest.      *)
LEMMA Below ==
  ASSUME NEW B \in Nat \ {0}, NEW n \in Nat, NEW k \in Nat, NEW t \in 0..(B - 1)
  PROVE  k * B + t < n <=> k < n \div B \/ (k = n \div B /\ t < n % B)
<1> DEFINE q == n \div B
           r == n % B
<1>1. q \in Nat /\ r \in 0..(B - 1) /\ n = q * B + r
  BY Positions
<1> HIDE DEF q, r
<1>2. CASE k < q
  <2>1. k + 1 <= q /\ (k + 1) * B <= q * B
    BY <1>1, <1>2
  <2>2. (k + 1) * B = k * B + B
    OBVIOUS
  <2> QED BY <1>1, <1>2, <2>1, <2>2 DEF q
<1>3. CASE k = q
  BY <1>1, <1>3 DEF q, r
<1>4. CASE k > q
  <2>1. q + 1 <= k /\ (q + 1) * B <= k * B
    BY <1>1, <1>4
  <2>2. (q + 1) * B = q * B + B
    BY <1>1
  <2>3. ~(k * B + t < n)
    BY <1>1, <2>1, <2>2
  <2> QED BY <1>1, <1>4, <2>3 DEF q
<1> QED BY <1>1, <1>2, <1>3, <1>4


-----------------------------------------------------------------------------
(* Networks and lists.                                                     *)

(* match_net compares the first bits of two addresses.                     *)
LEMMA MatchesBits ==
  ASSUME NEW L \in Nat \ {0}, NEW net, net.bits \in 0..(ByteBits * L),
         NEW addr \in [1..L -> 0..(TwoTo[ByteBits] - 1)],
         net.addr \in [1..L -> 0..(TwoTo[ByteBits] - 1)]
  PROVE  match_net(addr, net) <=> \A j \in 0..(net.bits - 1) : Bit(net.addr, j) = Bit(addr, j)
<1> DEFINE B == ByteBits
           n == net.bits
           full == n \div B
           rem == n % B
           a(k) == addr[k + 1]
           b(k) == net.addr[k + 1]
           differ(k, t) == BitOf(b(k), t) # BitOf(a(k), t)
<1>1. B \in Nat \ {0} /\ n \in Nat /\ n <= B * L
  BY WidthAssumption
<1>2. full \in Nat /\ rem \in 0..(B - 1) /\ rem \in Nat /\ n = full * B + rem
  <2> HIDE DEF B, n
  <2>1. full \in Nat /\ rem \in 0..(B - 1) /\ n = full * B + rem
    BY <1>1, Positions
  <2> QED BY <1>1, <2>1
<1>3. full <= L /\ (rem # 0 => full < L)
  <2> HIDE DEF full, rem, n, B
  <2>1. CASE full >= L + 1
    <3>1. (L + 1) * B <= full * B
      BY <1>1, <1>2, <2>1
    <3>2. (L + 1) * B = B * L + B
      BY <1>1
    <3> DEFINE x == full * B
               y == B * L
    <3>3. x \in Nat /\ y \in Nat /\ y + B <= x /\ n = x + rem /\ n <= y
      BY <1>1, <1>2, <3>1, <3>2
    <3> HIDE DEF x, y
    <3>4. FALSE
      BY <1>1, <1>2, <3>3
    <3> QED BY <3>4
  <2>2. CASE full = L
    BY <1>1, <1>2, <2>2
  <2> QED BY <1>2, <2>1, <2>2
<1>4. ASSUME NEW k \in 0..(L - 1)
      PROVE  a(k) \in 0..(TwoTo[B] - 1) /\ b(k) \in 0..(TwoTo[B] - 1)
  <2>1. k + 1 \in 1..L
    OBVIOUS
  <2> DEFINE T == 0..(TwoTo[B] - 1)
  <2>2. addr \in [1..L -> T] /\ net.addr \in [1..L -> T]
    OBVIOUS
  <2> HIDE DEF T
  <2>3. a(k) \in T /\ b(k) \in T
    BY <2>1, <2>2
  <2> QED BY <2>3 DEF T
<1>5. \A j \in Nat : /\ Bit(addr, j) = BitOf(a(j \div B), j % B)
                     /\ Bit(net.addr, j) = BitOf(b(j \div B), j % B)
  BY DEF Bit, BitOf
<1> HIDE DEF B, n, full, rem, a, b, differ
<1>6. match_net(addr, net) <=>
        /\ \A k \in 0..(full - 1) : a(k) = b(k)
        /\ rem # 0 => Masked(a(full), rem) = Masked(b(full), rem)
  <2>1. match_net(addr, net) <=>
          /\ \A k \in 1..full : addr[k] = net.addr[k]
          /\ rem # 0 => Masked(addr[full + 1], rem) = Masked(net.addr[full + 1], rem)
    BY DEF match_net, full, rem, n, B
  <2>2. (\A k \in 1..full : addr[k] = net.addr[k]) <=> \A k \in 0..(full - 1) : a(k) = b(k)
    <3>1. ASSUME \A k \in 1..full : addr[k] = net.addr[k], NEW k \in 0..(full - 1)
          PROVE  a(k) = b(k)
      BY <1>2, <3>1 DEF a, b
    <3>2. ASSUME \A k \in 0..(full - 1) : a(k) = b(k), NEW k \in 1..full
          PROVE  addr[k] = net.addr[k]
      <4>1. k - 1 \in 0..(full - 1) /\ (k - 1) + 1 = k
        BY <1>2
      <4>2. a(k - 1) = b(k - 1)
        BY <3>2, <4>1
      <4> QED BY <4>1, <4>2 DEF a, b
    <3> QED BY <3>1, <3>2
  <2> QED BY <2>1, <2>2 DEF a, b
<1>7. ASSUME NEW k \in 0..(full - 1)
      PROVE  a(k) = b(k) <=> \A t \in 0..(B - 1) : ~differ(k, t)
  <2>1. k \in 0..(L - 1)
    BY <1>2, <1>3
  <2> QED BY <1>4, <2>1, BytesAsBits DEF differ, B
<1>8. rem # 0 => (Masked(a(full), rem) = Masked(b(full), rem)
                     <=> \A t \in 0..(rem - 1) : ~differ(full, t))
  <2> SUFFICES ASSUME rem # 0
               PROVE  Masked(a(full), rem) = Masked(b(full), rem)
                         <=> \A t \in 0..(rem - 1) : ~differ(full, t)
    OBVIOUS
  <2>1. full \in 0..(L - 1) /\ rem \in 0..B
    BY <1>1, <1>2, <1>3
  <2>2. PICK x \in 0..(TwoTo[ByteBits] - 1) : x = a(full)
    BY <1>4, <2>1 DEF B
  <2>3. PICK y \in 0..(TwoTo[ByteBits] - 1) : y = b(full)
    BY <1>4, <2>1 DEF B
  <2>4. PICK r \in 0..ByteBits : r = rem
    BY <2>1 DEF B
  <2>5. Masked(x, r) = Masked(y, r) <=> \A t \in 0..(r - 1) : BitOf(x, t) = BitOf(y, t)
    BY BytesAsBits
  <2> QED BY <2>2, <2>3, <2>4, <2>5 DEF differ
<1>9. match_net(addr, net) <=>
        /\ \A k \in 0..(full - 1) : \A t \in 0..(B - 1) : ~differ(k, t)
        /\ \A t \in 0..(rem - 1) : ~differ(full, t)
  <2>1. rem = 0 => \A t \in 0..(rem - 1) : ~differ(full, t)
    BY <1>2
  <2> QED BY <1>6, <1>7, <1>8, <2>1
<1>10. ASSUME NEW k \in Nat, NEW t \in 0..(B - 1), differ(k, t),
              k < full \/ (k = full /\ t < rem)
       PROVE  \E j \in 0..(n - 1) : Bit(net.addr, j) # Bit(addr, j)
  <2> DEFINE j == k * B + t
  <2>1. j \in Nat /\ j < n
    BY <1>1, <1>10, Below DEF full, rem
  <2>2. j \div B = k /\ j % B = t
    BY <1>1, Positions
  <2> HIDE DEF j
  <2>3. Bit(net.addr, j) # Bit(addr, j)
    BY <1>5, <1>10, <2>1, <2>2 DEF differ
  <2> QED BY <1>1, <2>1, <2>3
<1>11. ASSUME NEW j \in 0..(n - 1), Bit(net.addr, j) # Bit(addr, j)
       PROVE  \E k \in Nat : \E t \in 0..(B - 1) :
                  differ(k, t) /\ (k < full \/ (k = full /\ t < rem))
  <2> DEFINE k == j \div B
             t == j % B
  <2>0. j \in Nat /\ j < n
    BY <1>1
  <2>1. k \in Nat /\ t \in 0..(B - 1) /\ k * B + t = j
    BY <1>1, <2>0, Positions
  <2>2. differ(k, t)
    BY <1>5, <1>11, <2>0 DEF differ
  <2> HIDE DEF k, t
  <2>3. k < full \/ (k = full /\ t < rem)
    BY <1>1, <2>0, <2>1, Below DEF full, rem
  <2> QED BY <2>1, <2>2, <2>3
<1>12. ASSUME match_net(addr, net), NEW j \in 0..(n - 1) PROVE Bit(net.addr, j) = Bit(addr, j)
  <2> SUFFICES ASSUME Bit(net.addr, j) # Bit(addr, j) PROVE FALSE
    OBVIOUS
  <2>1. PICK k \in Nat : \E t \in 0..(B - 1) : differ(k, t) /\ (k < full \/ (k = full /\ t < rem))
    BY <1>11
  <2>2. PICK t \in 0..(B - 1) : differ(k, t) /\ (k < full \/ (k = full /\ t < rem))
    BY <2>1
  <2>3. CASE k < full
    <3>1. k \in 0..(full - 1)
      BY <1>2, <2>3
    <3> QED BY <1>9, <1>12, <2>2, <3>1
  <2>4. CASE k = full /\ t < rem
    <3>1. t \in 0..(rem - 1)
      BY <1>1, <1>2, <2>4
    <3> QED BY <1>9, <1>12, <2>2, <2>4, <3>1
  <2> QED BY <2>2, <2>3, <2>4
<1>13. ASSUME \A j \in 0..(n - 1) : Bit(net.addr, j) = Bit(addr, j) PROVE match_net(addr, net)
  <2>1. ASSUME NEW k \in 0..(full - 1), NEW t \in 0..(B - 1), differ(k, t) PROVE FALSE
    <3>1. k \in Nat /\ k < full
      BY <1>2
    <3> QED BY <1>10, <1>13, <2>1, <3>1
  <2>2. ASSUME NEW t \in 0..(rem - 1), differ(full, t) PROVE FALSE
    <3>1. t \in 0..(B - 1) /\ t < rem
      BY <1>1, <1>2
    <3> QED BY <1>2, <1>10, <1>13, <2>2, <3>1
  <2> QED BY <1>9, <2>1, <2>2
<1> QED BY <1>12, <1>13 DEF n

(* A list matches a peer when one of its networks covers the peer.         *)
LEMMA ListCovers ==
  ASSUME NEW list, NEW peer, IsList(list), IsPeer(peer), peer.family \in Family,
         wcat_access_validate_list(list)
  PROVE  list_matches(list, peer) <=> Covered(list, peer)
<1>1. list.tokens \in Seq({list.tokens[k] : k \in DOMAIN list.tokens})
  BY DEF IsList
<1>2. Visited(list) \subseteq DOMAIN list.tokens
  BY <1>1 DEF Visited
<1>3. \A k \in DOMAIN list.tokens : list.tokens[k].kind = "net" => k \in Visited(list)
  BY <1>1 DEF Visited
<1>4. ASSUME NEW k \in Visited(list)
      PROVE  (/\ list.tokens[k].kind \notin {"blank", "empty"}
              /\ parse_net(list.tokens[k]) /\ list.tokens[k].family = peer.family
              /\ match_net(peer.addr, list.tokens[k]))
                <=> Covers(list.tokens[k], peer)
  <2> DEFINE token == list.tokens[k]
  <2>1. IsToken(token) /\ token.kind \notin {"blank", "empty"} /\ parse_net(token)
    BY <1>2 DEF IsList, wcat_access_validate_list
  <2>2. /\ token.kind = "net" /\ token.family \in Family
        /\ token.addr \in Address(token.family)
        /\ token.bits \in 0..(ByteBits * AddrBytes[token.family])
    BY <2>1 DEF IsToken, parse_net
  <2> HIDE DEF token
  <2>3. CASE token.family = peer.family
    <3>1. PICK L \in Nat \ {0} : L = AddrBytes[token.family]
      BY <2>2, WidthAssumption
    <3>2. PICK net : net = token
      OBVIOUS
    <3>3. PICK addr \in [1..L -> 0..(TwoTo[ByteBits] - 1)] : addr = peer.addr
      BY <2>2, <2>3, <3>1 DEF IsPeer, Address
    <3>4. net.bits \in 0..(ByteBits * L) /\ net.addr \in [1..L -> 0..(TwoTo[ByteBits] - 1)]
      BY <2>2, <3>1, <3>2 DEF Address
    <3>5. match_net(addr, net) <=> \A j \in 0..(net.bits - 1) : Bit(net.addr, j) = Bit(addr, j)
      BY <3>4, MatchesBits
    <3> QED BY <2>1, <2>2, <2>3, <3>2, <3>3, <3>5 DEF Covers, token
  <2>4. CASE token.family # peer.family
    BY <2>4 DEF Covers, token
  <2> QED BY <2>3, <2>4
<1>5. list_matches(list, peer) <=> \E k \in Visited(list) : Covers(list.tokens[k], peer)
  BY <1>4 DEF list_matches
<1>6. Covered(list, peer) <=> \E k \in Visited(list) : Covers(list.tokens[k], peer)
  BY <1>2, <1>3 DEF Covered, Covers
<1> QED BY <1>5, <1>6

(* wcat_access_check_fd admits exactly the peers that lists which passed   *)
(* wcat_access_validate_list permit, bit by bit.                           *)
THEOREM ListsMeanBits ==
  ASSUME NEW allow, NEW deny, NEW peer, IsList(allow), IsList(deny), IsPeer(peer),
         wcat_access_validate_list(allow), wcat_access_validate_list(deny)
  PROVE  wcat_access_check_fd(allow, deny, peer) <=> Permitted(allow, deny, peer)
<1>1. CASE ~allow.given /\ ~deny.given
  BY <1>1 DEF wcat_access_check_fd, Permitted
<1>2. CASE peer.family \notin Family
  BY <1>2 DEF wcat_access_check_fd, Permitted
<1>3. CASE peer.family \in Family /\ (allow.given \/ deny.given)
  <2>1. /\ list_matches(allow, peer) <=> Covered(allow, peer)
        /\ list_matches(deny, peer) <=> Covered(deny, peer)
    BY <1>3, ListCovers
  <2>2. ~deny.given => ~Covered(deny, peer)
    BY DEF IsList, Covered
  <2> QED BY <1>3, <2>1, <2>2 DEF wcat_access_check_fd, Permitted
<1> QED BY <1>1, <1>2, <1>3
=============================================================================
