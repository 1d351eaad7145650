------------------------------- MODULE Access -------------------------------
(***************************************************************************)
(* Access lists (src/src/access.c): --allow and --deny are lists of        *)
(* networks, separated by commas. A network is an address and a number of  *)
(* leading bits; the code compares whole bytes and then a masked one. What *)
(* the lists mean is stated bit by bit at the end (Permitted).             *)
(***************************************************************************)
EXTENDS Integers, Sequences

CONSTANTS
    ByteBits,       \* bits of a byte, 8 in the build
    AddrBytes       \* bytes of an address by family, 4 and 16 in the build

Family == {"AF_INET", "AF_INET6"}

ASSUME WidthAssumption ==
    /\ ByteBits \in Nat \ {0}
    /\ AddrBytes \in [Family -> Nat \ {0}]

(* An address is a sequence of bytes. TwoTo is 1 << n.                     *)
TwoTo[n \in Nat] == IF n = 0 THEN 1 ELSE 2 * TwoTo[n - 1]
Address(family) == [1..AddrBytes[family] -> 0..(TwoTo[ByteBits] - 1)]

(* A token is what stands between two commas: a network, some other text,  *)
(* blanks only, or nothing at all. An address without a slash has all its  *)
(* bits. A list option that was not given is the null pointer.             *)
Net(family, addr, bits) == [kind |-> "net", family |-> family, addr |-> addr, bits |-> bits]
Other(kind) == [kind |-> kind, family |-> "none", addr |-> <<>>, bits |-> 0]
List(tokens) == [given |-> TRUE, tokens |-> tokens]
NullList == [given |-> FALSE, tokens |-> <<>>]

IsToken(token) ==
    \/ token.kind \in {"text", "blank", "empty"}
    \/ /\ token.kind = "net" /\ token.family \in Family
       /\ token.addr \in Address(token.family) /\ token.bits \in Int
IsList(list) ==
    /\ list.tokens \in Seq({list.tokens[k] : k \in DOMAIN list.tokens})
    /\ \A k \in DOMAIN list.tokens : IsToken(list.tokens[k])
    /\ ~list.given => list.tokens = <<>>
IsPeer(peer) == peer.family \in Family => peer.addr \in Address(peer.family)

(* The loop over a list stops at the end of the string, so nothing after   *)
(* the last comma is not looked at.                                        *)
Visited(list) ==
    LET n == Len(list.tokens)
    IN  IF n > 0 /\ list.tokens[n].kind = "empty" THEN 1..(n - 1) ELSE 1..n

parse_net(token) ==
    token.kind = "net" /\ token.bits \in 0..(ByteBits * AddrBytes[token.family])

Masked(byte, rem) == byte - (byte % TwoTo[ByteBits - rem])

(* Fault: only whole bytes are compared.                                   *)
MatchWholeBytes(addr, net) ==
    \A k \in 1..(net.bits \div ByteBits) : addr[k] = net.addr[k]

match_net(addr, net) ==
    LET full == net.bits \div ByteBits
        rem == net.bits % ByteBits
    IN  /\ \A k \in 1..full : addr[k] = net.addr[k]
        /\ rem # 0 => Masked(addr[full + 1], rem) = Masked(net.addr[full + 1], rem)

list_matches(list, peer) ==
    \E k \in Visited(list) :
        LET token == list.tokens[k]
        IN  /\ token.kind \notin {"blank", "empty"}
            /\ parse_net(token) /\ token.family = peer.family
            /\ match_net(peer.addr, token)

wcat_access_validate_list(list) ==
    \A k \in Visited(list) :
        /\ list.tokens[k].kind \notin {"blank", "empty"}
        /\ parse_net(list.tokens[k])

(* A peer without an Internet address, or one whose connection is already  *)
(* gone, has family "none" here: fd_peer_addr fails.                       *)
wcat_access_check_fd(allow, deny, peer) ==
    \/ ~allow.given /\ ~deny.given
    \/ /\ peer.family \in Family
       /\ deny.given => ~list_matches(deny, peer)
       /\ allow.given => list_matches(allow, peer)

-----------------------------------------------------------------------------
(* The meaning of a list, bit by bit.                                      *)

Bit(addr, j) ==
    (addr[(j \div ByteBits) + 1] \div TwoTo[ByteBits - 1 - (j % ByteBits)]) % 2

Covers(net, peer) ==
    /\ net.kind = "net" /\ net.family = peer.family
    /\ \A j \in 0..(net.bits - 1) : Bit(net.addr, j) = Bit(peer.addr, j)

Covered(list, peer) == \E k \in DOMAIN list.tokens : Covers(list.tokens[k], peer)

Permitted(allow, deny, peer) ==
    allow.given \/ deny.given =>
        /\ peer.family \in Family
        /\ ~Covered(deny, peer)
        /\ allow.given => Covered(allow, peer)
=============================================================================
