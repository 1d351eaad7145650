---------------------------- MODULE LaunchProofs ----------------------------
(***************************************************************************)
(* Proofs about the programs of Launch, for every configuration: they are  *)
(* sequences of well-formed steps that end in a loop, and wherever one of  *)
(* them stops it has released what it acquired, once and in order.         *)
(***************************************************************************)
EXTENDS Launch, SequencesExt, SequenceTheorems, TLAPS

-----------------------------------------------------------------------------
(* The programs of Launch.                                                 *)

Names == Fields \cup Resources
Undo == Seq(Names)

(* In send and recv (file) the socket and the client are always the same,  *)
(* and nothing but the list of addresses is freed on the way.              *)
FileCall(call, val) ==
    /\ call # "relay" /\ (call = "connect" => val = "sock") /\ (call = "accept" => val = "client")
IsStep(s, file) ==
    /\ s.val \in Resources \cup {""} /\ s.into \in Fields \cup {""} /\ s.undo \in Undo
    /\ file => FileCall(s.call, s.val) /\ (s.call = "free" => s.undo = <<"addrinfo">>)

(* A program, or a part of one.                                            *)
IsSteps(p, file) == \E S : p \in Seq(S) /\ \A x \in S : IsStep(x, file)

(* Sequences are closed under concatenation.                               *)
LEMMA Joined ==
  ASSUME NEW S, NEW s \in Seq(S), NEW t \in Seq(S)
  PROVE  s \o t \in Seq(S)
BY ConcatProperties

(* Short sequences.                                                        *)
LEMMA Short ==
  ASSUME NEW S
  PROVE  /\ <<>> \in Seq(S)
         /\ \A a \in S : <<a>> \in Seq(S)
         /\ \A a \in S, b \in S : <<a, b>> \in Seq(S)
         /\ \A a \in S, b \in S, c \in S : <<a, b, c>> \in Seq(S)
         /\ \A a \in S, b \in S, c \in S, d \in S : <<a, b, c, d>> \in Seq(S)
OBVIOUS

(* What the functions of the code release.                                 *)
LEMMA UndoTyped ==
  /\ <<>> \in Undo /\ wcat_tls_close \in Undo /\ wcat_quic_listener_close \in Undo
  /\ relay_endpoint_close(Left) \in Undo /\ relay_endpoint_close(Right) \in Undo
  /\ \A r \in Resources : <<r>> \in Undo
  /\ \A r \in Resources, q \in Resources : <<r, q>> \in Undo
  /\ \A r \in Resources, q \in Resources, o \in Resources : <<r, q, o>> \in Undo
  /\ \A u \in Undo, v \in Undo : u \o v \in Undo
<1>1. Resources \subseteq Names
  BY DEF Names
<1>2. wcat_tls_close \in Undo /\ wcat_quic_listener_close \in Undo
  BY DEF wcat_tls_close, wcat_quic_listener_close, Undo, Names, Fields
<1>3. relay_endpoint_close(Left) \in Undo /\ relay_endpoint_close(Right) \in Undo
  BY DEF relay_endpoint_close, Left, Right, Undo, Names, Fields
<1>4. \A u \in Undo, v \in Undo : u \o v \in Undo
  BY Joined DEF Undo
<1> QED BY <1>1, <1>2, <1>3, <1>4, Short DEF Undo

(* A step, by the ways Launch writes one.                                  *)
LEMMA StepTyped ==
  ASSUME NEW f \in BOOLEAN
  PROVE  /\ \A call : \A val \in Resources \cup {""}, into \in Fields \cup {""}, undo \in Undo :
                call # "free" /\ FileCall(call, val) => IsStep(Step(call, val, into, undo), f)
         /\ \A call : \A undo \in Undo :
                call \notin {"free", "relay", "connect", "accept"} => IsStep(Check(call, undo), f)
         /\ IsStep(Free(<<"addrinfo">>), f)
         /\ \A field \in Fields, val \in Resources \cup {""} : IsStep(Store(field, val), f)
<1>1. "" \in Resources \cup {""} /\ "" \in Fields \cup {""} /\ <<>> \in Undo /\ <<"addrinfo">> \in Undo
  BY UndoTyped DEF Resources
<1>2. ASSUME NEW call, NEW val \in Resources \cup {""}, NEW into \in Fields \cup {""},
             NEW undo \in Undo, call # "free", FileCall(call, val)
      PROVE  IsStep(Step(call, val, into, undo), f)
  BY <1>2 DEF IsStep, Step
<1>3. ASSUME NEW call, NEW undo \in Undo, call \notin {"free", "relay", "connect", "accept"}
      PROVE  IsStep(Check(call, undo), f)
  BY <1>1, <1>2, <1>3 DEF Check, FileCall
<1>4. IsStep(Free(<<"addrinfo">>), f)
  BY <1>1 DEF IsStep, Free, Step, FileCall
<1>5. ASSUME NEW field \in Fields, NEW val \in Resources \cup {""} PROVE IsStep(Store(field, val), f)
  BY <1>1, <1>2 DEF Store, FileCall
<1> QED BY <1>2, <1>3, <1>4, <1>5

(* The same outside send and recv, where any call may stand.               *)
LEMMA OtherStepTyped ==
  /\ \A call : \A val \in Resources \cup {""}, into \in Fields \cup {""}, undo \in Undo :
         IsStep(Step(call, val, into, undo), FALSE)
  /\ \A call : \A undo \in Undo : IsStep(Check(call, undo), FALSE)
  /\ \A undo \in Undo : IsStep(Free(undo), FALSE)
<1>1. "" \in Resources \cup {""} /\ "" \in Fields \cup {""}
  OBVIOUS
<1>2. ASSUME NEW call, NEW val \in Resources \cup {""}, NEW into \in Fields \cup {""}, NEW undo \in Undo
      PROVE  IsStep(Step(call, val, into, undo), FALSE)
  BY DEF IsStep, Step
<1>3. ASSUME NEW call, NEW undo \in Undo PROVE IsStep(Check(call, undo), FALSE)
  BY <1>1, <1>2 DEF Check
<1>4. ASSUME NEW undo \in Undo PROVE IsStep(Free(undo), FALSE)
  BY <1>1, <1>2 DEF Free
<1> QED BY <1>2, <1>3, <1>4

(* Pieces of a program.                                                    *)
LEMMA PiecesJoin ==
  ASSUME NEW f \in BOOLEAN
  PROVE
  /\ IsSteps(<<>>, f)
  /\ \A s, t : IsSteps(s, f) /\ IsSteps(t, f) => IsSteps(s \o t, f)
  /\ \A cond, s : IsSteps(s, f) => IsSteps(When(cond, s), f)
  /\ \A a : IsStep(a, f) => IsSteps(<<a>>, f)
  /\ \A a, b : IsStep(a, f) /\ IsStep(b, f) => IsSteps(<<a, b>>, f)
  /\ \A a, b, c : IsStep(a, f) /\ IsStep(b, f) /\ IsStep(c, f) => IsSteps(<<a, b, c>>, f)
  /\ \A a, b, c, d : IsStep(a, f) /\ IsStep(b, f) /\ IsStep(c, f) /\ IsStep(d, f) => IsSteps(<<a, b, c, d>>, f)
<1>1. IsSteps(<<>>, f)
  <2> DEFINE S == {}
  <2>1. <<>> \in Seq(S)
    OBVIOUS
  <2>2. \A x \in S : IsStep(x, f)
    OBVIOUS
  <2> HIDE DEF S
  <2> QED BY <2>1, <2>2 DEF IsSteps
<1>2. ASSUME NEW s, NEW t, IsSteps(s, f), IsSteps(t, f) PROVE IsSteps(s \o t, f)
  <2>1. PICK S : s \in Seq(S) /\ \A x \in S : IsStep(x, f)
    BY <1>2 DEF IsSteps
  <2>2. PICK T : t \in Seq(T) /\ \A x \in T : IsStep(x, f)
    BY <1>2 DEF IsSteps
  <2> DEFINE U == S \cup T
  <2>3. s \in Seq(U) /\ t \in Seq(U)
    BY <2>1, <2>2
  <2>4. \A x \in U : IsStep(x, f)
    BY <2>1, <2>2
  <2> HIDE DEF U
  <2>5. s \o t \in Seq(U)
    BY <2>3, Joined
  <2> QED BY <2>4, <2>5 DEF IsSteps
<1>3. \A cond, s : IsSteps(s, f) => IsSteps(When(cond, s), f)
  BY <1>1 DEF When
<1>4. ASSUME NEW a, NEW b, NEW c, NEW d, IsStep(a, f), IsStep(b, f), IsStep(c, f), IsStep(d, f)
      PROVE  IsSteps(<<a>>, f) /\ IsSteps(<<a, b>>, f) /\ IsSteps(<<a, b, c>>, f) /\ IsSteps(<<a, b, c, d>>, f)
  <2> DEFINE S == {a, b, c, d}
  <2>1. \A x \in S : IsStep(x, f)
    BY <1>4
  <2>2. a \in S /\ b \in S /\ c \in S /\ d \in S
    OBVIOUS
  <2> HIDE DEF S
  <2>3. <<a>> \in Seq(S) /\ <<a, b>> \in Seq(S) /\ <<a, b, c>> \in Seq(S) /\ <<a, b, c, d>> \in Seq(S)
    BY <2>2
  <2> QED BY <2>1, <2>3 DEF IsSteps
<1> QED BY <1>1, <1>2, <1>3, <1>4

(* The loop over addresses.                                                *)
LEMMA AddressLoopTyped ==
  ASSUME NEW f \in BOOLEAN, NEW call, NEW fd \in Resources, NEW into \in Fields \cup {""}, NEW undo \in Undo,
         call # "free", FileCall(call, fd)
  PROVE  IsSteps(AddressLoop(call, fd, into, undo), f)
<1>1. "addrinfo" \in Resources \cup {""} /\ "" \in Fields \cup {""} /\ fd \in Resources \cup {""}
  BY DEF Resources
<1>2. <<"addrinfo">> \o undo \in Undo
  BY UndoTyped DEF Resources
<1>3. "getaddrinfo" # "free" /\ FileCall("getaddrinfo", "addrinfo")
  BY DEF FileCall
<1>4. IsStep(Step("getaddrinfo", "addrinfo", "", undo), f)
  BY <1>1, <1>3, StepTyped
<1>5. IsStep(Step(call, fd, into, <<"addrinfo">> \o undo), f)
  BY <1>1, <1>2, StepTyped
<1>6. IsStep(Free(<<"addrinfo">>), f)
  BY StepTyped
<1> QED BY <1>4, <1>5, <1>6, PiecesJoin DEF AddressLoop

(* The connection of a client, through a proxy or not.                     *)
LEMMA ProxyConnectTyped ==
  ASSUME NEW f \in BOOLEAN, NEW cfg, NEW undo \in Undo
  PROVE  IsSteps(wcat_proxy_connect(cfg, undo), f)
<1>1. "sock" \in Resources /\ "" \in Fields \cup {""} /\ FileCall("connect", "sock")
  BY DEF Resources, FileCall
<1>2. IsSteps(inet_connect("sock", "", undo), f)
  BY <1>1, AddressLoopTyped DEF inet_connect
<1>3. <<"sock">> \o undo \in Undo
  BY <1>1, UndoTyped
<1>4. IsStep(Check("negotiate", <<"sock">> \o undo), f)
  BY <1>3, StepTyped
<1> QED BY <1>2, <1>4, PiecesJoin DEF wcat_proxy_connect

(* TLS streams.                                                            *)
LEMMA StreamInitTyped ==
  ASSUME NEW f \in BOOLEAN, NEW fd \in Resources
  PROVE  IsSteps(stream_init(fd), f)
<1>1. "s.fd" \in Fields /\ "s.owned" \in Fields /\ fd \in Resources \cup {""}
  BY DEF Fields
<1> QED BY <1>1, StepTyped, PiecesJoin DEF stream_init

(* wcat_tls_client_open, whatever is to be released when it fails.         *)
LEMMA TlsClientTyped ==
  ASSUME NEW f \in BOOLEAN, NEW cfg, NEW fd \in Resources, NEW undo \in Undo
  PROVE  IsSteps(wcat_tls_client_open(cfg, fd, undo), f)
<1> DEFINE failed == wcat_tls_close \o undo
<1>1. failed \in Undo
  BY UndoTyped
<1> HIDE DEF failed
<1>2. /\ "ctx" \in Resources \cup {""} /\ "ssl" \in Resources \cup {""}
      /\ "s.ctx" \in Fields \cup {""} /\ "s.ssl" \in Fields \cup {""}
      /\ FileCall("SSL_CTX_new", "ctx") /\ FileCall("SSL_new", "ssl")
  BY DEF Resources, Fields, FileCall
<1>3. /\ IsStep(Step("SSL_CTX_new", "ctx", "s.ctx", failed), f)
      /\ IsStep(Step("SSL_new", "ssl", "s.ssl", failed), f)
  BY <1>1, <1>2, StepTyped
<1>4. /\ IsStep(Check("load_ca", failed), f) /\ IsStep(Check("use_certificate", failed), f)
      /\ IsStep(Check("set1_host", failed), f) /\ IsStep(Check("SSL_connect", failed), f)
      /\ IsStep(Check("verify_result", failed), f)
  BY <1>1, StepTyped
<1>5. IsSteps(stream_init(fd), f)
  BY StreamInitTyped
<1> QED BY <1>3, <1>4, <1>5, PiecesJoin DEF wcat_tls_client_open, failed

(* wcat_tls_server_open.                                                   *)
LEMMA TlsServerTyped ==
  ASSUME NEW f \in BOOLEAN, NEW cfg, NEW fd \in Resources, NEW undo \in Undo
  PROVE  IsSteps(wcat_tls_server_open(cfg, fd, undo), f)
<1> DEFINE failed == wcat_tls_close \o undo
<1>1. failed \in Undo
  BY UndoTyped
<1> HIDE DEF failed
<1>2. /\ "ctx" \in Resources \cup {""} /\ "ssl" \in Resources \cup {""}
      /\ "s.ctx" \in Fields \cup {""} /\ "s.ssl" \in Fields \cup {""}
      /\ FileCall("SSL_CTX_new", "ctx") /\ FileCall("SSL_new", "ssl")
  BY DEF Resources, Fields, FileCall
<1>3. /\ IsStep(Step("SSL_CTX_new", "ctx", "s.ctx", failed), f)
      /\ IsStep(Step("SSL_new", "ssl", "s.ssl", failed), f)
  BY <1>1, <1>2, StepTyped
<1>4. /\ IsStep(Check("cert and key given", failed), f) /\ IsStep(Check("use_certificate", failed), f)
      /\ IsStep(Check("load_ca", failed), f) /\ IsStep(Check("SSL_accept", failed), f)
      /\ IsStep(Check("verify_result", failed), f)
  BY <1>1, StepTyped
<1>5. IsSteps(stream_init(fd), f)
  BY StreamInitTyped
<1> QED BY <1>3, <1>4, <1>5, PiecesJoin DEF wcat_tls_server_open, failed

-----------------------------------------------------------------------------
(* How programs begin and end, and what is in them.                        *)

LoopCalls == {"copy", "relay"}
Ends(p) == p # <<>> /\ p[Len(p)].call \in LoopCalls
Has(p, call) == \E k \in DOMAIN p : p[k].call = call

(* A part of a program is a sequence.                                      *)
LEMMA StepsAreSequence ==
  ASSUME NEW f \in BOOLEAN, NEW p, IsSteps(p, f)
  PROVE  /\ Len(p) \in Nat /\ DOMAIN p = 1..Len(p)
         /\ \A k \in DOMAIN p : IsStep(p[k], f)
         /\ p # <<>> => 1 \in DOMAIN p /\ Len(p) \in DOMAIN p
BY DEF IsSteps

(* The parts of a concatenation.                                           *)
LEMMA ConcatParts ==
  ASSUME NEW f \in BOOLEAN, NEW s, NEW t, IsSteps(s, f), IsSteps(t, f)
  PROVE  /\ Len(s \o t) = Len(s) + Len(t) /\ DOMAIN (s \o t) = 1..(Len(s) + Len(t))
         /\ \A k \in DOMAIN s : (s \o t)[k] = s[k]
         /\ \A k \in DOMAIN t : (s \o t)[Len(s) + k] = t[k]
         /\ \A k \in (Len(s) + 1)..(Len(s) + Len(t)) : k - Len(s) \in DOMAIN t /\ (s \o t)[k] = t[k - Len(s)]
<1>1. PICK S : s \in Seq(S)
  BY DEF IsSteps
<1>2. PICK T : t \in Seq(T)
  BY DEF IsSteps
<1> DEFINE U == S \cup T
<1>3. s \in Seq(U) /\ t \in Seq(U)
  BY <1>1, <1>2
<1> HIDE DEF U
<1>4. Len(s) \in Nat /\ Len(t) \in Nat /\ DOMAIN s = 1..Len(s) /\ DOMAIN t = 1..Len(t)
  BY <1>3
<1>5. Len(s \o t) = Len(s) + Len(t) /\ DOMAIN (s \o t) = 1..(Len(s) + Len(t))
  BY <1>3
<1>6. \A k \in DOMAIN s : (s \o t)[k] = s[k]
  BY <1>3, <1>4
<1>7. \A k \in (Len(s) + 1)..(Len(s) + Len(t)) : k - Len(s) \in DOMAIN t /\ (s \o t)[k] = t[k - Len(s)]
  BY <1>3, <1>4
<1>8. \A k \in DOMAIN t : (s \o t)[Len(s) + k] = t[k]
  BY <1>3, <1>4
<1> QED BY <1>5, <1>6, <1>7, <1>8

(* A concatenation has what its parts have, and ends as the last one does. *)
LEMMA ConcatHas ==
  ASSUME NEW f \in BOOLEAN, NEW s, NEW t, IsSteps(s, f), IsSteps(t, f)
  PROVE  /\ IsSteps(s \o t, f)
         /\ \A call : Has(s \o t, call) <=> Has(s, call) \/ Has(t, call)
         /\ Ends(t) => Ends(s \o t)
<1>1. Len(s) \in Nat /\ Len(t) \in Nat /\ DOMAIN s = 1..Len(s) /\ DOMAIN t = 1..Len(t)
  BY StepsAreSequence
<1>2. ASSUME NEW call, Has(s \o t, call) PROVE Has(s, call) \/ Has(t, call)
  <2>1. PICK k \in DOMAIN (s \o t) : (s \o t)[k].call = call
    BY <1>2 DEF Has
  <2>2. k \in 1..(Len(s) + Len(t))
    BY <2>1, ConcatParts
  <2>3. CASE k \in DOMAIN s
    BY <2>1, <2>3, ConcatParts DEF Has
  <2>4. CASE k \notin DOMAIN s
    <3>1. k \in (Len(s) + 1)..(Len(s) + Len(t))
      BY <1>1, <2>2, <2>4
    <3>2. k - Len(s) \in DOMAIN t /\ (s \o t)[k] = t[k - Len(s)]
      BY <3>1, ConcatParts
    <3> QED BY <2>1, <3>2 DEF Has
  <2> QED BY <2>3, <2>4
<1>3. ASSUME NEW call, Has(s, call) PROVE Has(s \o t, call)
  <2>1. PICK k \in DOMAIN s : s[k].call = call
    BY <1>3 DEF Has
  <2>2. k \in DOMAIN (s \o t) /\ (s \o t)[k] = s[k]
    BY <1>1, ConcatParts
  <2> QED BY <2>1, <2>2 DEF Has
<1>4. ASSUME NEW call, Has(t, call) PROVE Has(s \o t, call)
  <2>1. PICK k \in DOMAIN t : t[k].call = call
    BY <1>4 DEF Has
  <2>2. Len(s) + k \in 1..(Len(s) + Len(t))
    BY <1>1
  <2>3. Len(s) + k \in DOMAIN (s \o t) /\ (s \o t)[Len(s) + k] = t[k]
    BY <2>2, ConcatParts
  <2> QED BY <2>1, <2>3 DEF Has
<1>5. ASSUME Ends(t) PROVE Ends(s \o t)
  <2>1. Len(t) \in DOMAIN t
    BY <1>5, StepsAreSequence DEF Ends
  <2>2. (s \o t)[Len(s) + Len(t)] = t[Len(t)] /\ Len(s \o t) = Len(s) + Len(t)
    BY <2>1, ConcatParts
  <2>3. s \o t # <<>>
    <3>1. Len(s) + Len(t) >= 1
      BY <1>1, <2>1
    <3> QED BY <2>2, <3>1
  <2> QED BY <1>5, <2>2, <2>3 DEF Ends
<1>6. IsSteps(s \o t, f)
  BY PiecesJoin
<1> QED BY <1>2, <1>3, <1>4, <1>5, <1>6

(* Literal pieces.                                                         *)
LEMMA LiteralHas ==
  /\ \A call : ~Has(<<>>, call)
  /\ \A a, call : Has(<<a>>, call) <=> a.call = call
  /\ \A a, b, call : Has(<<a, b>>, call) <=> a.call = call \/ b.call = call
  /\ \A a, b, c, call : Has(<<a, b, c>>, call) <=> a.call = call \/ b.call = call \/ c.call = call
  /\ \A a : a.call \in LoopCalls => Ends(<<a>>)
<1>1. \A call : ~Has(<<>>, call)
  BY DEF Has
<1>2. ASSUME NEW a, NEW call PROVE Has(<<a>>, call) <=> a.call = call
  BY DEF Has
<1>3. ASSUME NEW a, NEW b, NEW call PROVE Has(<<a, b>>, call) <=> a.call = call \/ b.call = call
  BY DEF Has
<1>4. ASSUME NEW a, NEW b, NEW c, NEW call
      PROVE  Has(<<a, b, c>>, call) <=> a.call = call \/ b.call = call \/ c.call = call
  BY DEF Has
<1>5. ASSUME NEW a, a.call \in LoopCalls PROVE Ends(<<a>>)
  BY <1>5 DEF Ends
<1> QED BY <1>1, <1>2, <1>3, <1>4, <1>5

(* What is left of a program after a step that is not its last.            *)
LEMMA TailHas ==
  ASSUME NEW f \in BOOLEAN, NEW p, IsSteps(p, f), Ends(p), Head(p).call \notin LoopCalls
  PROVE  /\ IsSteps(Tail(p), f) /\ Ends(Tail(p))
         /\ \A call : Has(p, call) <=> Head(p).call = call \/ Has(Tail(p), call)
<1>1. PICK S : p \in Seq(S) /\ \A x \in S : IsStep(x, f)
  BY DEF IsSteps
<1>2. p # <<>> /\ Len(p) \in Nat /\ Len(p) # 0 /\ DOMAIN p = 1..Len(p) /\ Head(p) = p[1]
  BY <1>1 DEF Ends
<1>3. Len(p) >= 2
  BY <1>2 DEF Ends
<1>4. Tail(p) \in Seq(S) /\ Len(Tail(p)) = Len(p) - 1 /\ DOMAIN Tail(p) = 1..(Len(p) - 1)
      /\ \A k \in 1..(Len(p) - 1) : Tail(p)[k] = p[k + 1]
  BY <1>1, <1>2
<1>5. IsSteps(Tail(p), f)
  BY <1>1, <1>4 DEF IsSteps
<1>6. Ends(Tail(p))
  <2>1. Tail(p)[Len(p) - 1] = p[Len(p)]
    BY <1>3, <1>4
  <2>2. Tail(p) # <<>>
    BY <1>3, <1>4
  <2> QED BY <1>4, <2>1, <2>2 DEF Ends
<1>7. ASSUME NEW call PROVE Has(p, call) <=> Head(p).call = call \/ Has(Tail(p), call)
  <2>1. ASSUME NEW k \in DOMAIN p, p[k].call = call, k # 1 PROVE Has(Tail(p), call)
    <3>1. k - 1 \in 1..(Len(p) - 1) /\ (k - 1) + 1 = k
      BY <1>2, <2>1
    <3>2. Tail(p)[k - 1] = p[k]
      BY <1>4, <3>1
    <3> QED BY <1>4, <2>1, <3>1, <3>2 DEF Has
  <2>2. ASSUME Has(Tail(p), call) PROVE Has(p, call)
    <3>1. PICK k \in 1..(Len(p) - 1) : Tail(p)[k].call = call
      BY <1>4, <2>2 DEF Has
    <3>2. k + 1 \in DOMAIN p /\ p[k + 1].call = call
      BY <1>2, <1>4, <3>1
    <3> QED BY <3>2 DEF Has
  <2>3. 1 \in DOMAIN p
    BY <1>2, <1>3
  <2> QED BY <1>2, <2>1, <2>2, <2>3 DEF Has
<1> QED BY <1>5, <1>6, <1>7

(* One literal step, by its call.                                          *)
LEMMA OneStep ==
  ASSUME NEW f \in BOOLEAN, NEW a, IsStep(a, f)
  PROVE  /\ IsSteps(<<a>>, f) /\ Has(<<a>>, a.call)
         /\ a.call \in LoopCalls => Ends(<<a>>)
<1>1. IsSteps(<<a>>, f)
  BY PiecesJoin
<1>2. Has(<<a>>, a.call)
  BY LiteralHas
<1>3. a.call \in LoopCalls => Ends(<<a>>)
  BY LiteralHas
<1> QED BY <1>1, <1>2, <1>3

(* Two literal steps, by their calls.                                      *)
LEMMA TwoSteps ==
  ASSUME NEW f \in BOOLEAN, NEW a, NEW b, IsStep(a, f), IsStep(b, f)
  PROVE  /\ IsSteps(<<a, b>>, f)
         /\ \A call : Has(<<a, b>>, call) <=> a.call = call \/ b.call = call
<1>1. IsSteps(<<a, b>>, f)
  BY PiecesJoin
<1>2. \A call : Has(<<a, b>>, call) <=> a.call = call \/ b.call = call
  BY LiteralHas
<1> QED BY <1>1, <1>2

(* In a program, every call of the first kind stands before every one of   *)
(* the second.                                                             *)
Before(p, first, then) ==
    \A j \in DOMAIN p, k \in DOMAIN p : p[j].call = then /\ p[k].call = first => k < j

(* A part without the second call, and another behind it.                  *)
LEMMA BeforeJoins ==
  ASSUME NEW f \in BOOLEAN, NEW s, NEW t, IsSteps(s, f), IsSteps(t, f), NEW first, NEW then,
         ~Has(s, then), ~Has(t, first)
  PROVE  Before(s \o t, first, then)
<1> SUFFICES ASSUME NEW j \in DOMAIN (s \o t), NEW k \in DOMAIN (s \o t),
                    (s \o t)[j].call = then, (s \o t)[k].call = first
             PROVE  k < j
  BY DEF Before
<1>1. Len(s) \in Nat /\ Len(t) \in Nat /\ DOMAIN s = 1..Len(s) /\ DOMAIN t = 1..Len(t)
  BY StepsAreSequence
<1>2. j \in 1..(Len(s) + Len(t)) /\ k \in 1..(Len(s) + Len(t))
  BY ConcatParts
<1>3. j \notin DOMAIN s
  BY ConcatParts DEF Has
<1>4. k \in DOMAIN s
  <2> SUFFICES ASSUME k \notin DOMAIN s PROVE FALSE
    OBVIOUS
  <2>1. k \in (Len(s) + 1)..(Len(s) + Len(t))
    BY <1>1, <1>2
  <2>2. k - Len(s) \in DOMAIN t /\ (s \o t)[k] = t[k - Len(s)]
    BY <2>1, ConcatParts
  <2> QED BY <2>2 DEF Has
<1> QED BY <1>1, <1>2, <1>3, <1>4

(* A part with neither in front.                                           *)
LEMMA BeforeBehind ==
  ASSUME NEW f \in BOOLEAN, NEW s, NEW t, IsSteps(s, f), IsSteps(t, f), NEW first, NEW then,
         ~Has(s, then), Before(t, first, then)
  PROVE  Before(s \o t, first, then)
<1> SUFFICES ASSUME NEW j \in DOMAIN (s \o t), NEW k \in DOMAIN (s \o t),
                    (s \o t)[j].call = then, (s \o t)[k].call = first
             PROVE  k < j
  BY DEF Before
<1>1. Len(s) \in Nat /\ Len(t) \in Nat /\ DOMAIN s = 1..Len(s) /\ DOMAIN t = 1..Len(t)
  BY StepsAreSequence
<1>2. j \in 1..(Len(s) + Len(t)) /\ k \in 1..(Len(s) + Len(t))
  BY ConcatParts
<1>3. j \notin DOMAIN s
  BY ConcatParts DEF Has
<1>4. j \in (Len(s) + 1)..(Len(s) + Len(t))
  BY <1>1, <1>2, <1>3
<1>5. CASE k \in DOMAIN s
  BY <1>1, <1>4, <1>5
<1>6. CASE k \notin DOMAIN s
  <2>1. k \in (Len(s) + 1)..(Len(s) + Len(t))
    BY <1>1, <1>2, <1>6
  <2>2. k - Len(s) \in DOMAIN t /\ (s \o t)[k] = t[k - Len(s)]
    BY <2>1, ConcatParts
  <2>3. j - Len(s) \in DOMAIN t /\ (s \o t)[j] = t[j - Len(s)]
    BY <1>4, ConcatParts
  <2>4. k - Len(s) < j - Len(s)
    BY <2>2, <2>3 DEF Before
  <2> QED BY <1>1, <1>4, <2>1, <2>4
<1> QED BY <1>5, <1>6

(* The server's side of TLS makes no connection and copies nothing.        *)
LEMMA TlsServerHas ==
  ASSUME NEW cfg, NEW fd \in Resources, NEW undo \in Undo
  PROVE  LET p == wcat_tls_server_open(cfg, fd, undo) IN ~Has(p, "connect") /\ ~Has(p, "copy")
<1> DEFINE u == wcat_tls_close \o undo
           a == Check("cert and key given", u)
           b == Step("SSL_CTX_new", "ctx", "s.ctx", u)
           c == Check("use_certificate", u)
           d == Check("load_ca", u)
           e == Step("SSL_new", "ssl", "s.ssl", u)
           g == Check("SSL_accept", u)
           h == Check("verify_result", u)
           P1 == stream_init(fd)
           P2 == <<a, b, c>>
           P3 == When(cfg.tls_require_client_cert, <<d>>)
           P4 == <<e, g>>
           P5 == When(cfg.tls_require_client_cert, <<h>>)
           Quiet(p) == IsSteps(p, TRUE) /\ ~Has(p, "connect") /\ ~Has(p, "copy")
<1>1. wcat_tls_server_open(cfg, fd, undo) = (((P1 \o P2) \o P3) \o P4) \o P5
  BY DEF wcat_tls_server_open
<1>2. u \in Undo
  BY UndoTyped
<1> HIDE DEF u
<1>3. /\ "ctx" \in Resources \cup {""} /\ "ssl" \in Resources \cup {""}
      /\ "s.ctx" \in Fields \cup {""} /\ "s.ssl" \in Fields \cup {""}
      /\ FileCall("SSL_CTX_new", "ctx") /\ FileCall("SSL_new", "ssl")
  BY DEF Resources, Fields, FileCall
<1>4. IsStep(b, TRUE) /\ IsStep(e, TRUE)
  BY <1>2, <1>3, StepTyped
<1>5. IsStep(a, TRUE) /\ IsStep(c, TRUE) /\ IsStep(d, TRUE) /\ IsStep(g, TRUE) /\ IsStep(h, TRUE)
  BY <1>2, StepTyped
<1>6. /\ a.call \notin {"connect", "copy"} /\ b.call \notin {"connect", "copy"}
      /\ c.call \notin {"connect", "copy"} /\ d.call \notin {"connect", "copy"}
      /\ e.call \notin {"connect", "copy"} /\ g.call \notin {"connect", "copy"}
      /\ h.call \notin {"connect", "copy"}
  BY DEF Check, Step
<1> HIDE DEF a, b, c, d, e, g, h
<1>7. Quiet(P1)
  <2>1. IsSteps(P1, TRUE)
    BY StreamInitTyped
  <2>2. Store("s.fd", fd).call = "store" /\ Store("s.owned", fd).call = "store"
    BY DEF Store, Step
  <2> QED BY <2>1, <2>2, LiteralHas DEF stream_init
<1>8. Quiet(P2)
  <2>1. IsSteps(P2, TRUE)
    BY <1>4, <1>5, PiecesJoin
  <2>2. ~Has(P2, "connect") /\ ~Has(P2, "copy")
    BY <1>6, LiteralHas
  <2> QED BY <2>1, <2>2
<1>9. Quiet(P4)
  BY <1>4, <1>5, <1>6, TwoSteps
<1>10. Quiet(P3) /\ Quiet(P5)
  <2>1. Quiet(<<>>)
    BY PiecesJoin, LiteralHas
  <2>2. Quiet(<<d>>) /\ Quiet(<<h>>)
    BY <1>5, <1>6, OneStep, LiteralHas
  <2> HIDE DEF Quiet
  <2> QED BY <2>1, <2>2 DEF When
<1>11. \A s, t : Quiet(s) /\ Quiet(t) => Quiet(s \o t)
  BY ConcatHas
<1> HIDE DEF Quiet, P1, P2, P3, P4, P5
<1>12. Quiet((((P1 \o P2) \o P3) \o P4) \o P5)
  BY <1>7, <1>8, <1>9, <1>10, <1>11
<1> QED BY <1>1, <1>12 DEF Quiet

(* recv: its program accepts a client and checks its address, and makes no *)
(* connection of its own.                                                  *)
LEMMA RecvTyped ==
  ASSUME NEW cfg
  PROVE  LET p == wcat_recv_file(cfg)
         IN  /\ IsSteps(p, TRUE) /\ Ends(p) /\ Has(p, "access")
             /\ Has(p, "accept") /\ ~Has(p, "connect") /\ Before(p, "accept", "copy")
<1> DEFINE undo == (IF cfg.tls THEN wcat_tls_close ELSE <<"client">>) \o <<"listener", "file">>
           a == Step("open", "file", "", <<>>)
           b == Step("accept", "client", "", <<"listener", "file">>)
           c == Check("access", <<"client", "listener", "file">>)
           d == Check("copy", undo)
           L == inet_listen("listener", "", <<"file">>)
           D == When(cfg.tls, wcat_tls_server_open(cfg, "client", <<"listener", "file">>))
<1>1. wcat_recv_file(cfg) = (((<<a>> \o L) \o <<b, c>>) \o D) \o <<d>>
  BY DEF wcat_recv_file
<1>2. /\ "listener" \in Resources /\ "file" \in Resources /\ "client" \in Resources
      /\ "" \in Fields \cup {""} /\ "file" \in Resources \cup {""} /\ "client" \in Resources \cup {""}
      /\ FileCall("bind", "listener") /\ FileCall("open", "file") /\ FileCall("accept", "client")
  BY DEF Resources, FileCall
<1>3. /\ <<>> \in Undo /\ <<"file">> \in Undo /\ <<"listener", "file">> \in Undo /\ <<"client">> \in Undo
      /\ <<"client", "listener", "file">> \in Undo /\ undo \in Undo
  BY <1>2, UndoTyped
<1>4. a.call = "open" /\ b.call = "accept" /\ c.call = "access" /\ d.call = "copy"
  BY DEF Step, Check
<1> HIDE DEF undo
<1>5. IsStep(a, TRUE) /\ IsStep(b, TRUE)
  BY <1>2, <1>3, StepTyped
<1>6. IsStep(c, TRUE) /\ IsStep(d, TRUE)
  BY <1>3, StepTyped
<1>7. IsSteps(L, TRUE) /\ ~Has(L, "connect") /\ ~Has(L, "copy")
  <2>1. IsSteps(L, TRUE)
    BY <1>2, <1>3, AddressLoopTyped DEF inet_listen
  <2> DEFINE x == Step("getaddrinfo", "addrinfo", "", <<"file">>)
             y == Step("bind", "listener", "", <<"addrinfo">> \o <<"file">>)
             z == Free(<<"addrinfo">>)
  <2>2. x.call = "getaddrinfo" /\ y.call = "bind" /\ z.call = "free"
    BY DEF Step, Free
  <2>3. L = <<x, y, z>>
    BY DEF inet_listen, AddressLoop
  <2> HIDE DEF x, y, z
  <2>4. ~Has(<<x, y, z>>, "connect") /\ ~Has(<<x, y, z>>, "copy")
    BY <2>2, LiteralHas
  <2> QED BY <2>1, <2>3, <2>4
<1>8. IsSteps(D, TRUE) /\ ~Has(D, "connect") /\ ~Has(D, "copy")
  <2>1. IsSteps(wcat_tls_server_open(cfg, "client", <<"listener", "file">>), TRUE)
    BY <1>2, <1>3, TlsServerTyped
  <2>2. LET p == wcat_tls_server_open(cfg, "client", <<"listener", "file">>)
        IN  ~Has(p, "connect") /\ ~Has(p, "copy")
    BY <1>2, <1>3, TlsServerHas
  <2>3. IsSteps(<<>>, TRUE) /\ ~Has(<<>>, "connect") /\ ~Has(<<>>, "copy")
    BY PiecesJoin, LiteralHas
  <2> QED BY <2>1, <2>2, <2>3 DEF When
<1> HIDE DEF a, b, c, d, L, D
<1> DEFINE A == <<a>>
           B == <<b, c>>
           E == <<d>>
<1>9. /\ IsSteps(A, TRUE) /\ ~Has(A, "connect") /\ ~Has(A, "copy")
      /\ IsSteps(B, TRUE) /\ Has(B, "access") /\ Has(B, "accept") /\ ~Has(B, "connect") /\ ~Has(B, "copy")
      /\ IsSteps(E, TRUE) /\ Ends(E) /\ ~Has(E, "connect") /\ ~Has(E, "accept")
  <2>1. IsSteps(A, TRUE) /\ ~Has(A, "connect") /\ ~Has(A, "copy")
    BY <1>4, <1>5, OneStep, LiteralHas
  <2>2. IsSteps(B, TRUE) /\ Has(B, "access") /\ Has(B, "accept") /\ ~Has(B, "connect") /\ ~Has(B, "copy")
    <3>1. IsStep(b, TRUE) /\ IsStep(c, TRUE)
      BY <1>5, <1>6
    <3>2. IsSteps(B, TRUE) /\ \A call : Has(B, call) <=> b.call = call \/ c.call = call
      BY <3>1, TwoSteps
    <3> QED BY <1>4, <3>2
  <2>3. IsSteps(E, TRUE) /\ Ends(E) /\ ~Has(E, "connect") /\ ~Has(E, "accept")
    BY <1>4, <1>6, OneStep, LiteralHas DEF LoopCalls
  <2> QED BY <2>1, <2>2, <2>3
<1> HIDE DEF A, B, E
<1>10. IsSteps(A \o L, TRUE) /\ ~Has(A \o L, "connect") /\ ~Has(A \o L, "copy")
  BY <1>7, <1>9, ConcatHas
<1> DEFINE Served(p) == IsSteps(p, TRUE) /\ Has(p, "access") /\ Has(p, "accept") /\ ~Has(p, "connect")
<1> DEFINE K == A \o L
           M == K \o B
           F == M \o D
<1> HIDE DEF K
<1>11. IsSteps(M, TRUE) /\ Served(M) /\ ~Has(M, "copy")
  <2>1. IsSteps(K, TRUE) /\ ~Has(K, "connect") /\ ~Has(K, "copy")
    BY <1>10 DEF K
  <2> QED BY <1>9, <2>1, ConcatHas
<1> HIDE DEF M
<1>12. Served(F) /\ ~Has(F, "copy")
  BY <1>8, <1>11, ConcatHas
<1> HIDE DEF F
<1>13. (((A \o L) \o B) \o D) \o E = F \o E
  BY DEF F, M, K
<1>14. Served(F \o E) /\ Ends(F \o E)
  BY <1>9, <1>12, ConcatHas
<1>15. Before(F \o E, "accept", "copy")
  BY <1>9, <1>12, BeforeJoins
<1> QED BY <1>1, <1>13, <1>14, <1>15 DEF A, B, E

-----------------------------------------------------------------------------
(* The programs of the other commands.                                     *)

(* A program of send or recv is one of any command.                        *)
LEMMA FileStepsAreSteps ==
  ASSUME NEW p, IsSteps(p, TRUE)
  PROVE  IsSteps(p, FALSE)
BY DEF IsSteps, IsStep

(* A part, with the step of the relay or copy loop behind it.              *)
LEMMA EndsWith ==
  ASSUME NEW p, IsSteps(p, FALSE), NEW call \in LoopCalls, NEW undo \in Undo
  PROVE  IsSteps(p \o <<Check(call, undo)>>, FALSE) /\ Ends(p \o <<Check(call, undo)>>)
<1> DEFINE a == Check(call, undo)
<1>1. IsStep(a, FALSE)
  BY OtherStepTyped
<1>2. a.call \in LoopCalls
  BY DEF Check, Step
<1> HIDE DEF a
<1>3. IsSteps(<<a>>, FALSE) /\ Ends(<<a>>)
  BY <1>1, <1>2, OneStep
<1>4. IsSteps(p \o <<a>>, FALSE) /\ Ends(p \o <<a>>)
  BY <1>3, ConcatHas
<1> QED BY <1>4 DEF a

(* The ways to a socket.                                                   *)
LEMMA SocketTyped ==
  ASSUME NEW fd \in Resources, NEW into \in Fields \cup {""}, NEW undo \in Undo
  PROVE  /\ \A call : IsSteps(AddressLoop(call, fd, into, undo), FALSE)
         /\ IsSteps(wcat_unix_connect(fd, into, undo), FALSE)
         /\ IsSteps(wcat_unix_listen(fd, into, undo), FALSE)
         /\ IsSteps(wcat_vsock_connect(fd, into, undo), FALSE)
<1>1. /\ "addrinfo" \in Resources \cup {""} /\ "addrinfo" \in Resources /\ "" \in Fields \cup {""}
      /\ fd \in Resources \cup {""}
  BY DEF Resources
<1>2. <<"addrinfo">> \in Undo /\ <<"addrinfo">> \o undo \in Undo
  BY <1>1, UndoTyped
<1>3. ASSUME NEW call PROVE IsSteps(AddressLoop(call, fd, into, undo), FALSE)
  <2>1. /\ IsStep(Step("getaddrinfo", "addrinfo", "", undo), FALSE)
        /\ IsStep(Step(call, fd, into, <<"addrinfo">> \o undo), FALSE)
        /\ IsStep(Free(<<"addrinfo">>), FALSE)
    BY <1>1, <1>2, OtherStepTyped
  <2> QED BY <2>1, PiecesJoin DEF AddressLoop
<1>4. /\ IsStep(Check("path", undo), FALSE) /\ IsStep(Check("cid", undo), FALSE)
      /\ IsStep(Step("connect_once", fd, into, undo), FALSE)
      /\ IsStep(Step("bind_once", fd, into, undo), FALSE)
  BY <1>1, OtherStepTyped
<1> QED BY <1>3, <1>4, PiecesJoin DEF wcat_unix_connect, wcat_unix_listen, wcat_vsock_connect

(* connect.                                                                *)
LEMMA ConnectTyped ==
  ASSUME NEW cfg
  PROVE  IsSteps(run_connect(cfg), FALSE) /\ Ends(run_connect(cfg))
<1> DEFINE child == IF cfg.exec THEN <<"child">> ELSE <<>>
           undo == child \o (IF cfg.tls THEN wcat_tls_close ELSE <<"sock">>)
           A == connect_socket(cfg)
           B == When(cfg.exec, << Step("spawn", "child", "", <<>>) >>)
           C == When(cfg.tls, wcat_tls_client_open(cfg, "sock", child))
<1>1. run_connect(cfg) = A \o ((B \o C) \o <<Check("relay", undo)>>)
  BY DEF run_connect, relay_peer
<1>2. /\ "sock" \in Resources /\ "child" \in Resources /\ "child" \in Resources \cup {""}
      /\ "" \in Fields \cup {""} /\ "relay" \in LoopCalls
  BY DEF Resources, LoopCalls
<1>3. <<>> \in Undo /\ child \in Undo /\ undo \in Undo
  BY <1>2, UndoTyped
<1> HIDE DEF child, undo
<1>4. IsSteps(A, FALSE)
  <2>1. /\ IsSteps(wcat_udp_connect("sock", "", <<>>), FALSE)
        /\ IsSteps(inet_connect("sock", "", <<>>), FALSE)
        /\ IsSteps(wcat_unix_connect("sock", "", <<>>), FALSE)
        /\ IsSteps(wcat_vsock_connect("sock", "", <<>>), FALSE)
    BY <1>2, <1>3, SocketTyped DEF wcat_udp_connect, inet_connect
  <2>2. IsSteps(wcat_proxy_connect(cfg, <<>>), FALSE)
    BY <1>3, ProxyConnectTyped
  <2>3. IsStep(Check("proxy_parse", <<>>), FALSE)
    BY <1>3, OtherStepTyped
  <2> QED BY <2>1, <2>2, <2>3, PiecesJoin DEF connect_socket
<1>5. IsSteps(B, FALSE)
  <2>1. IsStep(Step("spawn", "child", "", <<>>), FALSE)
    BY <1>2, <1>3, OtherStepTyped
  <2> QED BY <2>1, PiecesJoin
<1>6. IsSteps(C, FALSE)
  <2>1. IsSteps(wcat_tls_client_open(cfg, "sock", child), FALSE)
    BY <1>2, <1>3, TlsClientTyped
  <2> QED BY <2>1, PiecesJoin
<1> HIDE DEF A, B, C
<1>7. IsSteps(B \o C, FALSE)
  BY <1>5, <1>6, ConcatHas
<1>8. IsSteps((B \o C) \o <<Check("relay", undo)>>, FALSE) /\ Ends((B \o C) \o <<Check("relay", undo)>>)
  BY <1>2, <1>3, <1>7, EndsWith
<1> QED BY <1>1, <1>4, <1>8, ConcatHas

(* The end of the QUIC commands.                                           *)
LEMMA ServeQuicTyped ==
  ASSUME NEW cfg, NEW undo \in Undo
  PROVE  IsSteps(serve_quic_stream(cfg, undo), FALSE) /\ Ends(serve_quic_stream(cfg, undo))
<1> DEFINE A == When(cfg.exec, << Step("spawn", "child", "", wcat_tls_close \o undo) >>)
           all == (IF cfg.exec THEN <<"child">> ELSE <<>>) \o wcat_tls_close \o undo
<1>1. serve_quic_stream(cfg, undo) = A \o <<Check("relay", all)>>
  BY DEF serve_quic_stream
<1>2. /\ "child" \in Resources /\ "child" \in Resources \cup {""} /\ "" \in Fields \cup {""}
      /\ "relay" \in LoopCalls
  BY DEF Resources, LoopCalls
<1>3. wcat_tls_close \o undo \in Undo /\ all \in Undo
  BY <1>2, UndoTyped
<1>4. IsSteps(A, FALSE)
  <2>1. IsStep(Step("spawn", "child", "", wcat_tls_close \o undo), FALSE)
    BY <1>2, <1>3, OtherStepTyped
  <2> QED BY <2>1, PiecesJoin
<1> HIDE DEF A, all
<1>5. IsSteps(A \o <<Check("relay", all)>>, FALSE) /\ Ends(A \o <<Check("relay", all)>>)
  BY <1>2, <1>3, <1>4, EndsWith
<1> QED BY <1>1, <1>5

(* connect --quic.                                                         *)
LEMMA QuicConnectTyped ==
  ASSUME NEW cfg
  PROVE  IsSteps(run_quic_connect(cfg), FALSE) /\ Ends(run_quic_connect(cfg))
<1> DEFINE u0 == <<>> \o wcat_tls_close
           u1 == <<"peer_addr">> \o wcat_tls_close
           u2 == <<"conn", "peer_addr">> \o wcat_tls_close
           u3 == <<"peer_addr", "conn">> \o wcat_tls_close
           u4 == <<"conn">> \o wcat_tls_close
           P1 == << Step("SSL_CTX_new", "ctx", "s.ctx", u0), Check("configure_client_ctx", u0) >>
           P2 == open_udp_peer(u0)
           P3 == stream_init("sock")
           P4 == << Step("SSL_new", "conn", "", u1), Check("BIO_new", u2) >>
           P5 == When(cfg.tls_verify, << Check("set1_host", u3) >>)
           P6 == << Check("set_alpn", u3), Free(<<"peer_addr">>), Check("handshake", u4) >>
           P7 == When(cfg.tls_verify, << Check("verify_result", u4) >>)
           P8 == << Check("set_blocking_mode", u4), Store("s.ssl", "conn") >>
<1>1. wcat_quic_client_open(cfg) = ((((((P1 \o P2) \o P3) \o P4) \o P5) \o P6) \o P7) \o P8
  BY DEF wcat_quic_client_open
<1>2. /\ "sock" \in Resources /\ "conn" \in Resources /\ "peer_addr" \in Resources /\ "addrinfo" \in Resources
      /\ "ctx" \in Resources \cup {""} /\ "conn" \in Resources \cup {""} /\ "addrinfo" \in Resources \cup {""}
      /\ "sock" \in Resources \cup {""} /\ "peer_addr" \in Resources \cup {""}
      /\ "s.ctx" \in Fields \cup {""} /\ "" \in Fields \cup {""} /\ "s.ssl" \in Fields
  BY DEF Resources, Fields
<1>3. u0 \in Undo /\ u1 \in Undo /\ u2 \in Undo /\ u3 \in Undo /\ u4 \in Undo /\ <<"peer_addr">> \in Undo
      /\ <<"addrinfo">> \in Undo /\ <<"addrinfo">> \o u0 \in Undo /\ <<"sock", "addrinfo">> \o u0 \in Undo
      /\ <<>> \in Undo
  BY <1>2, UndoTyped
<1> HIDE DEF u0, u1, u2, u3, u4
<1>4. IsSteps(P1, FALSE)
  <2>1. IsStep(Step("SSL_CTX_new", "ctx", "s.ctx", u0), FALSE) /\ IsStep(Check("configure_client_ctx", u0), FALSE)
    BY <1>2, <1>3, OtherStepTyped
  <2> QED BY <2>1, PiecesJoin
<1>5. IsSteps(P2, FALSE)
  <2>1. /\ IsStep(Step("BIO_lookup_ex", "addrinfo", "", u0), FALSE)
        /\ IsStep(Step("connect", "sock", "", <<"addrinfo">> \o u0), FALSE)
        /\ IsStep(Step("BIO_ADDR_dup", "peer_addr", "", <<"sock", "addrinfo">> \o u0), FALSE)
        /\ IsStep(Free(<<"addrinfo">>), FALSE)
    BY <1>2, <1>3, OtherStepTyped
  <2> QED BY <2>1, PiecesJoin DEF open_udp_peer
<1>6. IsSteps(P3, FALSE)
  BY <1>2, StreamInitTyped
<1>7. IsSteps(P4, FALSE)
  <2>1. IsStep(Step("SSL_new", "conn", "", u1), FALSE) /\ IsStep(Check("BIO_new", u2), FALSE)
    BY <1>2, <1>3, OtherStepTyped
  <2> QED BY <2>1, PiecesJoin
<1>8. IsSteps(P5, FALSE) /\ IsSteps(P7, FALSE)
  <2>1. IsStep(Check("set1_host", u3), FALSE) /\ IsStep(Check("verify_result", u4), FALSE)
    BY <1>3, OtherStepTyped
  <2> QED BY <2>1, PiecesJoin
<1>9. IsSteps(P6, FALSE)
  <2>1. /\ IsStep(Check("set_alpn", u3), FALSE) /\ IsStep(Free(<<"peer_addr">>), FALSE)
        /\ IsStep(Check("handshake", u4), FALSE)
    BY <1>3, OtherStepTyped
  <2> QED BY <2>1, PiecesJoin
<1>10. IsSteps(P8, FALSE)
  <2>1. IsStep(Check("set_blocking_mode", u4), FALSE)
    BY <1>3, OtherStepTyped
  <2>2. IsStep(Store("s.ssl", "conn"), FALSE)
    BY <1>2, StepTyped
  <2> QED BY <2>1, <2>2, PiecesJoin
<1> HIDE DEF P1, P2, P3, P4, P5, P6, P7, P8
<1>11. IsSteps(wcat_quic_client_open(cfg), FALSE)
  BY <1>1, <1>4, <1>5, <1>6, <1>7, <1>8, <1>9, <1>10, PiecesJoin
<1> QED BY <1>3, <1>11, ServeQuicTyped, ConcatHas DEF run_quic_connect

(* listen --quic.                                                          *)
LEMMA QuicListenTyped ==
  ASSUME NEW cfg
  PROVE  IsSteps(run_quic_listen(cfg), FALSE) /\ Ends(run_quic_listen(cfg))
<1> DEFINE u == wcat_quic_listener_close
           P1 == << Step("SSL_CTX_new", "ctx", "l.ctx", u), Check("configure_server_ctx", u) >>
           P2 == wcat_udp_bind("listener", "l.fd", u)
           P3 == << Check("set_nonblock", u), Step("SSL_new_listener", "listener_ssl", "l.listener", u),
                    Check("SSL_listen", u) >>
           P4 == wcat_quic_accept
<1>1. /\ "listener" \in Resources /\ "conn" \in Resources
      /\ "ctx" \in Resources \cup {""} /\ "conn" \in Resources \cup {""} /\ "listener" \in Resources \cup {""}
      /\ "listener_ssl" \in Resources \cup {""}
      /\ "l.ctx" \in Fields \cup {""} /\ "l.fd" \in Fields \cup {""} /\ "l.listener" \in Fields \cup {""}
      /\ "" \in Fields \cup {""} /\ "s.ssl" \in Fields /\ "s.fd" \in Fields
  BY DEF Resources, Fields
<1>2. u \in Undo /\ <<"conn">> \o u \in Undo
  BY <1>1, UndoTyped
<1>3. IsSteps(P1, FALSE)
  <2>1. IsStep(Step("SSL_CTX_new", "ctx", "l.ctx", u), FALSE) /\ IsStep(Check("configure_server_ctx", u), FALSE)
    BY <1>1, <1>2, OtherStepTyped
  <2> QED BY <2>1, PiecesJoin
<1>4. IsSteps(P2, FALSE)
  BY <1>1, <1>2, SocketTyped DEF wcat_udp_bind
<1>5. IsSteps(P3, FALSE)
  <2>1. /\ IsStep(Check("set_nonblock", u), FALSE) /\ IsStep(Check("SSL_listen", u), FALSE)
        /\ IsStep(Step("SSL_new_listener", "listener_ssl", "l.listener", u), FALSE)
    BY <1>1, <1>2, OtherStepTyped
  <2> QED BY <2>1, PiecesJoin
<1>6. IsSteps(P4, FALSE)
  <2>1. /\ IsStep(Step("quic_accept", "conn", "", u), FALSE)
        /\ IsStep(Check("set_blocking_mode", <<"conn">> \o u), FALSE)
    BY <1>1, <1>2, OtherStepTyped
  <2>2. IsStep(Store("s.fd", "listener"), FALSE) /\ IsStep(Store("s.ssl", "conn"), FALSE)
    BY <1>1, StepTyped
  <2> QED BY <2>1, <2>2, PiecesJoin DEF wcat_quic_accept
<1>7. run_quic_listen(cfg) = (((P1 \o P2) \o P3) \o P4) \o serve_quic_stream(cfg, u)
  BY DEF run_quic_listen, wcat_quic_listener_open
<1> HIDE DEF P1, P2, P3, P4, u
<1>8. IsSteps(((P1 \o P2) \o P3) \o P4, FALSE)
  BY <1>3, <1>4, <1>5, <1>6, PiecesJoin
<1> QED BY <1>2, <1>7, <1>8, ServeQuicTyped, ConcatHas

(* An endpoint of a relay.                                                 *)
LEMMA EndpointTyped ==
  ASSUME NEW kind, NEW ep, ep = Left \/ ep = Right, NEW undo \in Undo
  PROVE  IsSteps(open_relay_endpoint(kind, ep, undo), FALSE)
<1>1. /\ ep.sock \in Resources /\ ep.client \in Resources \cup {""} /\ ep.sock \in Resources \cup {""}
      /\ ep.child \in Resources \cup {""} /\ ep.fd1 \in Fields /\ ep.fd2 \in Fields /\ "" \in Resources \cup {""}
      /\ ep.fd1 \in Fields \cup {""} /\ ep.fd2 \in Fields \cup {""} /\ ep.proc \in Fields \cup {""}
  BY DEF Left, Right, Resources, Fields
<1>2. <<ep.fd1>> \in Undo
  BY <1>1, Short DEF Undo, Names
<1> DEFINE served == << Step("accept", ep.client, ep.fd2, undo), Free(<<ep.fd1>>),
                        Store(ep.fd1, ep.client), Store(ep.fd2, "") >>
<1>3. IsSteps(served, FALSE)
  <2>1. IsStep(Step("accept", ep.client, ep.fd2, undo), FALSE) /\ IsStep(Free(<<ep.fd1>>), FALSE)
    BY <1>1, <1>2, OtherStepTyped
  <2>2. IsStep(Store(ep.fd1, ep.client), FALSE) /\ IsStep(Store(ep.fd2, ""), FALSE)
    BY <1>1, StepTyped
  <2> QED BY <2>1, <2>2, PiecesJoin
<1>4. /\ IsSteps(<<Check("relay_spec", undo)>>, FALSE)
      /\ IsSteps(<<Step("open", ep.sock, ep.fd1, undo)>>, FALSE)
      /\ IsSteps(<<Step("spawn", ep.child, ep.proc, undo)>>, FALSE)
  <2>1. /\ IsStep(Check("relay_spec", undo), FALSE) /\ IsStep(Step("open", ep.sock, ep.fd1, undo), FALSE)
        /\ IsStep(Step("spawn", ep.child, ep.proc, undo), FALSE)
    BY <1>1, OtherStepTyped
  <2> QED BY <2>1, PiecesJoin
<1>5. /\ IsSteps(inet_connect(ep.sock, ep.fd1, undo), FALSE) /\ IsSteps(inet_listen(ep.sock, ep.fd1, undo), FALSE)
      /\ IsSteps(wcat_unix_connect(ep.sock, ep.fd1, undo), FALSE)
      /\ IsSteps(wcat_unix_listen(ep.sock, ep.fd1, undo), FALSE)
  BY <1>1, SocketTyped DEF inet_connect, inet_listen
<1> DEFINE r == <<Check("relay_spec", undo)>>
           c == inet_connect(ep.sock, ep.fd1, undo)
           l == inet_listen(ep.sock, ep.fd1, undo)
           v == wcat_unix_listen(ep.sock, ep.fd1, undo)
<1>6. IsSteps(<<>>, FALSE) /\ IsSteps(r \o c, FALSE) /\ IsSteps((r \o l) \o served, FALSE)
      /\ IsSteps(v \o served, FALSE)
  <2> HIDE DEF served
  <2> QED BY <1>3, <1>4, <1>5, PiecesJoin
<1>7. \/ open_relay_endpoint(kind, ep, undo)
              \in {<<>>, r, r \o c, wcat_unix_connect(ep.sock, ep.fd1, undo), (r \o l) \o served, v \o served}
      \/ open_relay_endpoint(kind, ep, undo) = <<Step("open", ep.sock, ep.fd1, undo)>>
      \/ open_relay_endpoint(kind, ep, undo) = <<Step("spawn", ep.child, ep.proc, undo)>>
  BY DEF open_relay_endpoint
<1> HIDE DEF r, c, l, v, served
<1> QED BY <1>4, <1>5, <1>6, <1>7 DEF r

(* relay.                                                                  *)
LEMMA RelayTyped ==
  ASSUME NEW cfg
  PROVE  IsSteps(run_relay(cfg), FALSE) /\ Ends(run_relay(cfg))
<1> DEFINE undo == relay_endpoint_close(Left) \o relay_endpoint_close(Right)
           A == open_relay_endpoint(cfg.left, Left, undo)
           B == open_relay_endpoint(cfg.right, Right, undo)
<1>1. undo \in Undo /\ "relay" \in LoopCalls
  BY UndoTyped DEF LoopCalls
<1>2. run_relay(cfg) = (A \o B) \o <<Check("relay", undo)>>
  BY DEF run_relay
<1> HIDE DEF undo
<1>3. IsSteps(A, FALSE) /\ IsSteps(B, FALSE)
  BY <1>1, EndpointTyped
<1> HIDE DEF A, B
<1>4. IsSteps(A \o B, FALSE)
  BY <1>3, PiecesJoin
<1>5. LET p == (A \o B) \o <<Check("relay", undo)>> IN IsSteps(p, FALSE) /\ Ends(p)
  BY <1>1, <1>4, EndsWith
<1> QED BY <1>2, <1>5

(* Concatenation is associative; the provers need it in this form.         *)
LEMMA Associative ==
  ASSUME NEW S, NEW s \in Seq(S), NEW t \in Seq(S), NEW u \in Seq(S)
  PROVE  s \o (t \o u) = (s \o t) \o u
<1>1. (s \o t) \o u = s \o (t \o u)
  BY ConcatAssociative
<1> QED BY <1>1

(* Parts of a program can be joined in any order.                          *)
LEMMA StepsAssociative ==
  ASSUME NEW A, NEW B, NEW C, NEW D, NEW E, IsSteps(A, TRUE), IsSteps(B, TRUE), IsSteps(C, TRUE),
         IsSteps(D, TRUE), IsSteps(E, TRUE)
  PROVE  (((A \o (B \o C)) \o D) \o E) = (A \o B) \o (C \o (D \o E))
<1>1. PICK SA, SB, SC, SD, SE :
        A \in Seq(SA) /\ B \in Seq(SB) /\ C \in Seq(SC) /\ D \in Seq(SD) /\ E \in Seq(SE)
  BY DEF IsSteps
<1> DEFINE S == SA \cup SB \cup SC \cup SD \cup SE
<1>2. A \in Seq(S) /\ B \in Seq(S) /\ C \in Seq(S) /\ D \in Seq(S) /\ E \in Seq(S)
  BY <1>1
<1> HIDE DEF S
<1>3. A \o B \in Seq(S) /\ C \o D \in Seq(S)
  BY <1>2, Joined, SMTT(30)
<1>4. A \o (B \o C) = (A \o B) \o C
  BY <1>2, Associative, SMTT(30)
<1>5. C \o (D \o E) = (C \o D) \o E
  BY <1>2, Associative, SMTT(30)
<1> DEFINE AB == A \o B
           CD == C \o D
<1> HIDE DEF AB, CD
<1>a. AB \in Seq(S) /\ CD \in Seq(S)
  BY <1>3 DEF AB, CD
<1>6. (A \o B) \o (C \o D) = ((A \o B) \o C) \o D
  <2>1. AB \in Seq(S) /\ C \in Seq(S) /\ D \in Seq(S)
    BY <1>2, <1>a
  <2>2. AB \o (C \o D) = (AB \o C) \o D
    BY <2>1, Associative, SMTT(30)
  <2> QED BY <2>2 DEF AB
<1>7. (A \o B) \o ((C \o D) \o E) = ((A \o B) \o (C \o D)) \o E
  <2>1. AB \in Seq(S) /\ CD \in Seq(S) /\ E \in Seq(S)
    BY <1>2, <1>a
  <2>2. AB \o (CD \o E) = (AB \o CD) \o E
    BY <2>1, Associative, SMTT(30)
  <2> QED BY <2>2 DEF AB, CD
<1> QED BY <1>4, <1>5, <1>6, <1>7, Zenon

(* No second connection is made for TLS, and no proxy is spoken to.        *)
LEMMA TlsClientHas ==
  ASSUME NEW cfg, NEW fd \in Resources, NEW undo \in Undo
  PROVE  LET p == wcat_tls_client_open(cfg, fd, undo) IN ~Has(p, "connect") /\ ~Has(p, "negotiate")
<1> DEFINE u == wcat_tls_close \o undo
           P1 == stream_init(fd)
           P2 == << Step("SSL_CTX_new", "ctx", "s.ctx", u) >>
           P3 == When(cfg.tls_verify, << Check("load_ca", u) >>)
           P4 == When(cfg.client_cert, << Check("use_certificate", u) >>)
           P5 == << Step("SSL_new", "ssl", "s.ssl", u) >>
           P6 == When(cfg.tls_verify, << Check("set1_host", u) >>)
           P7 == << Check("SSL_connect", u) >>
           P8 == When(cfg.tls_verify, << Check("verify_result", u) >>)
           Quiet(p) == IsSteps(p, TRUE) /\ ~Has(p, "connect") /\ ~Has(p, "negotiate")
<1>1. wcat_tls_client_open(cfg, fd, undo) = ((((((P1 \o P2) \o P3) \o P4) \o P5) \o P6) \o P7) \o P8
  BY DEF wcat_tls_client_open
<1>2. u \in Undo
  BY UndoTyped
<1> HIDE DEF u
<1>3. /\ "ctx" \in Resources \cup {""} /\ "ssl" \in Resources \cup {""}
      /\ "s.ctx" \in Fields \cup {""} /\ "s.ssl" \in Fields \cup {""}
      /\ FileCall("SSL_CTX_new", "ctx") /\ FileCall("SSL_new", "ssl")
  BY DEF Resources, Fields, FileCall
<1>4. Quiet(<<>>)
  BY PiecesJoin, LiteralHas
<1>5. \A a : IsStep(a, TRUE) /\ a.call \notin {"connect", "negotiate"} => Quiet(<<a>>)
  BY PiecesJoin, LiteralHas
<1>6. /\ Quiet(P2) /\ Quiet(P5)
  <2>1. /\ Step("SSL_CTX_new", "ctx", "s.ctx", u).call = "SSL_CTX_new"
        /\ Step("SSL_new", "ssl", "s.ssl", u).call = "SSL_new"
    BY DEF Step
  <2>2. IsStep(Step("SSL_CTX_new", "ctx", "s.ctx", u), TRUE) /\ IsStep(Step("SSL_new", "ssl", "s.ssl", u), TRUE)
    BY <1>2, <1>3, StepTyped
  <2> HIDE DEF Quiet
  <2> QED BY <1>5, <2>1, <2>2
<1>7. \A call : call \notin {"free", "relay", "connect", "accept", "negotiate"} => Quiet(<< Check(call, u) >>)
  <2>1. \A call : Check(call, u).call = call
    BY DEF Check, Step
  <2> HIDE DEF Quiet
  <2> QED BY <1>2, <1>5, <2>1, StepTyped
<1>8. Quiet(P3) /\ Quiet(P4) /\ Quiet(P6) /\ Quiet(P7) /\ Quiet(P8)
  <2> HIDE DEF Quiet
  <2> QED BY <1>4, <1>7 DEF When
<1>9. Quiet(P1)
  <2>1. IsSteps(P1, TRUE)
    BY StreamInitTyped
  <2>2. Store("s.fd", fd).call = "store" /\ Store("s.owned", fd).call = "store"
    BY DEF Store, Step
  <2> QED BY <2>1, <2>2, LiteralHas DEF stream_init
<1>10. \A s, t : Quiet(s) /\ Quiet(t) => Quiet(s \o t)
  BY ConcatHas
<1> HIDE DEF Quiet, P1, P2, P3, P4, P5, P6, P7, P8
<1>11. Quiet(((((((P1 \o P2) \o P3) \o P4) \o P5) \o P6) \o P7) \o P8)
  BY <1>6, <1>8, <1>9, <1>10
<1> QED BY <1>1, <1>11 DEF Quiet

(* send: the proxy is spoken to on the one connection that is made.        *)
LEMMA SendTyped ==
  ASSUME NEW cfg
  PROVE  LET p == wcat_send_file(cfg) IN IsSteps(p, TRUE) /\ Ends(p) /\ Before(p, "connect", "negotiate") /\ Has(p, "connect")
<1> DEFINE undo == (IF cfg.tls THEN wcat_tls_close ELSE <<"sock">>) \o <<"file">>
           both == <<"sock">> \o <<"file">>
           a == Step("open", "file", "", <<>>)
           b == Check("proxy_parse", <<"file">>)
           c == Check("negotiate", both)
           d == Check("copy", undo)
           A == <<a, b>>
           B == inet_connect("sock", "", <<"file">>)
           C == When(cfg.proxy # "none", <<c>>)
           D == When(cfg.tls, wcat_tls_client_open(cfg, "sock", <<"file">>))
           E == <<d>>
<1>1. wcat_send_file(cfg) = (((A \o (B \o C)) \o D) \o E)
  BY DEF wcat_send_file, wcat_proxy_connect
<1>2. "sock" \in Resources /\ "file" \in Resources /\ FileCall("connect", "sock") /\ FileCall("open", "file")
      /\ "" \in Fields \cup {""} /\ "file" \in Resources \cup {""}
  BY DEF Resources, FileCall
<1>3. <<>> \in Undo /\ <<"file">> \in Undo /\ both \in Undo /\ undo \in Undo
  BY <1>2, UndoTyped
<1> HIDE DEF undo, both
<1>4. a.call = "open" /\ b.call = "proxy_parse" /\ c.call = "negotiate" /\ d.call = "copy"
  BY DEF Step, Check
<1>5. IsStep(a, TRUE)
  BY <1>2, <1>3, StepTyped
<1>6. IsStep(b, TRUE) /\ IsStep(c, TRUE) /\ IsStep(d, TRUE)
  BY <1>3, StepTyped
<1> HIDE DEF a, b, c, d
<1>7. IsSteps(A, TRUE) /\ ~Has(A, "negotiate")
  BY <1>4, <1>5, <1>6, TwoSteps
<1>8. IsSteps(B, TRUE) /\ ~Has(B, "negotiate") /\ Has(B, "connect")
  <2>1. IsSteps(B, TRUE)
    BY <1>2, <1>3, AddressLoopTyped DEF inet_connect
  <2> DEFINE x == Step("getaddrinfo", "addrinfo", "", <<"file">>)
             y == Step("connect", "sock", "", <<"addrinfo">> \o <<"file">>)
             z == Free(<<"addrinfo">>)
  <2>2. x.call = "getaddrinfo" /\ y.call = "connect" /\ z.call = "free"
    BY DEF Step, Free
  <2>3. B = <<x, y, z>>
    BY DEF inet_connect, AddressLoop
  <2> HIDE DEF x, y, z
  <2>4. ~Has(<<x, y, z>>, "negotiate") /\ Has(<<x, y, z>>, "connect")
    BY <2>2, LiteralHas
  <2> QED BY <2>1, <2>3, <2>4
<1>9. IsSteps(C, TRUE) /\ ~Has(C, "connect")
  <2>1. IsSteps(<<c>>, TRUE) /\ ~Has(<<c>>, "connect")
    BY <1>4, <1>6, OneStep, LiteralHas
  <2>2. IsSteps(<<>>, TRUE) /\ ~Has(<<>>, "connect")
    BY PiecesJoin, LiteralHas
  <2> QED BY <2>1, <2>2 DEF When
<1>10. IsSteps(D, TRUE) /\ ~Has(D, "connect")
  <2>1. IsSteps(wcat_tls_client_open(cfg, "sock", <<"file">>), TRUE)
    BY <1>2, <1>3, TlsClientTyped
  <2>2. ~Has(wcat_tls_client_open(cfg, "sock", <<"file">>), "connect")
    BY <1>2, <1>3, TlsClientHas
  <2>3. IsSteps(<<>>, TRUE) /\ ~Has(<<>>, "connect")
    BY PiecesJoin, LiteralHas
  <2> QED BY <2>1, <2>2, <2>3 DEF When
<1>11. IsSteps(E, TRUE) /\ ~Has(E, "connect") /\ Ends(E)
  BY <1>4, <1>6, OneStep, LiteralHas DEF LoopCalls
<1> HIDE DEF A, B, C, D, E
<1>12. (((A \o (B \o C)) \o D) \o E) = (A \o B) \o (C \o (D \o E))
  <2>1. IsSteps(A, TRUE) /\ IsSteps(B, TRUE) /\ IsSteps(C, TRUE) /\ IsSteps(D, TRUE) /\ IsSteps(E, TRUE)
    BY <1>7, <1>8, <1>9, <1>10, <1>11
  <2> QED BY <2>1, StepsAssociative, SMTT(30)
<1> DEFINE F == A \o B
           G == C \o (D \o E)
<1>13. IsSteps(F, TRUE) /\ ~Has(F, "negotiate") /\ Has(F, "connect")
  BY <1>7, <1>8, ConcatHas
<1>14. IsSteps(D \o E, TRUE) /\ ~Has(D \o E, "connect") /\ Ends(D \o E)
  BY <1>10, <1>11, ConcatHas
<1>15. IsSteps(G, TRUE) /\ ~Has(G, "connect") /\ Ends(G)
  BY <1>9, <1>14, ConcatHas
<1> HIDE DEF F, G
<1>16. IsSteps(F \o G, TRUE) /\ Ends(F \o G) /\ Has(F \o G, "connect")
  BY <1>13, <1>15, ConcatHas
<1>17. Before(F \o G, "connect", "negotiate")
  BY <1>13, <1>15, BeforeJoins
<1> QED BY <1>1, <1>12, <1>16, <1>17 DEF F, G

(* What is left of a program while the command runs.                       *)
IsProgram(p) == IsSteps(p, FALSE) /\ Ends(p)

(* A program begins with the command line, ends with its loop, and that of *)
(* recv has the access check in it.                                        *)
LEMMA ProgramTyped ==
  ASSUME NEW cfg, cfg.mode \in {"connect", "listen", "send", "recv", "relay"}
  PROVE  /\ IsProgram(Program(cfg)) /\ Head(Program(cfg)).call = "parse_args"
         /\ cfg.mode = "recv" => Has(Program(cfg), "access")
<1> DEFINE a == Check("parse_args", <<>>)
           b == Check("wcat_signal_setup", <<>>)
           c == Check("wcat_tls_global_init", <<>>)
           body == CASE cfg.mode = "connect" -> IF cfg.quic THEN run_quic_connect(cfg) ELSE run_connect(cfg)
                     [] cfg.mode = "listen" -> run_quic_listen(cfg)
                     [] cfg.mode = "send" -> wcat_send_file(cfg)
                     [] cfg.mode = "recv" -> wcat_recv_file(cfg)
                     [] cfg.mode = "relay" -> run_relay(cfg)
<1>1. Program(cfg) = <<a, b, c>> \o body
  BY DEF Program
<1>2. IsSteps(body, FALSE) /\ Ends(body)
  <2>1. CASE cfg.mode = "connect"
    BY <2>1, QuicConnectTyped, ConnectTyped
  <2>2. CASE cfg.mode = "listen"
    BY <2>2, QuicListenTyped
  <2>3. CASE cfg.mode = "send"
    BY <2>3, SendTyped, FileStepsAreSteps
  <2>4. CASE cfg.mode = "recv"
    BY <2>4, RecvTyped, FileStepsAreSteps
  <2>5. CASE cfg.mode = "relay"
    BY <2>5, RelayTyped
  <2> QED BY <2>1, <2>2, <2>3, <2>4, <2>5
<1>3. cfg.mode = "recv" => Has(body, "access")
  BY RecvTyped
<1>4. IsStep(a, FALSE) /\ IsStep(b, FALSE) /\ IsStep(c, FALSE)
  BY UndoTyped, OtherStepTyped
<1>5. a.call = "parse_args"
  BY DEF Check, Step
<1> HIDE DEF a, b, c, body
<1>6. IsSteps(<<a, b, c>>, FALSE) /\ Len(<<a, b, c>>) = 3 /\ DOMAIN <<a, b, c>> = 1..3 /\ <<a, b, c>>[1] = a
  <2>1. IsSteps(<<a, b, c>>, FALSE)
    BY <1>4, PiecesJoin
  <2>2. Len(<<a, b, c>>) = 3 /\ DOMAIN <<a, b, c>> = 1..3 /\ <<a, b, c>>[1] = a
    OBVIOUS
  <2> QED BY <2>1, <2>2
<1> DEFINE s == <<a, b, c>>
           p == s \o body
<1>7. IsSteps(p, FALSE) /\ Ends(p) /\ (cfg.mode = "recv" => Has(p, "access"))
  <2> HIDE DEF s
  <2> QED BY <1>2, <1>3, <1>6, ConcatHas DEF s
<1>8. p[1] = a
  <2> HIDE DEF s
  <2>1. 1 \in DOMAIN s /\ s[1] = a
    BY <1>6 DEF s
  <2> QED BY <1>2, <1>6, <2>1, ConcatParts DEF s
<1>9. Head(p).call = "parse_args"
  BY <1>5, <1>8
<1> QED BY <1>1, <1>7, <1>9 DEF IsProgram

-----------------------------------------------------------------------------
(* Accounts. A command has a set h of resources and references r. A list   *)
(* of steps is followed with them as in a calculus of triples: Runs says   *)
(* that from h and r every step either releases all that is held or leads  *)
(* to the next one, and that the last leads to g and q.                    *)

Refs == [Fields -> Resources \cup {""}]

(* What a name in a list of releases stands for, and what releasing that   *)
(* takes.                                                                  *)
Means(r, x) == IF x \in Fields THEN r[x] ELSE x
Needs(r, x) ==
    {x} \cup CASE x \in {"ssl", "conn"} -> {r["s.fd"]}
               [] x = "listener_ssl" -> {r["l.fd"]}
               [] OTHER -> {}
Ready(h, r, x) == Means(r, x) # "" => Needs(r, Means(r, x)) \subseteq h
Given(r, undo, n) == {Means(r, undo[j]) : j \in 1..n}

(* Releasing undo from h is in order, and leaves g.                        *)
Clean(h, r, undo, g) ==
    /\ g = h \ Given(r, undo, Len(undo))
    /\ \A k \in DOMAIN undo : Ready(h \ Given(r, undo, k - 1), r, undo[k])

(* A step taken with h and r. When it fails nothing is left, but for the   *)
(* socket of connect (e) when the process cannot be started.               *)
Sound(e, h, r, s) ==
    s.call # "store" => \E g : /\ Clean(h, r, s.undo, g)
                               /\ \/ s.call = "free" \/ g = {}
                                  \/ e /\ s.call = "spawn" /\ g = {"sock"}
HeldAfter(h, r, s) ==
    IF s.call = "free" THEN h \ Given(r, s.undo, Len(s.undo))
    ELSE IF s.call = "store" THEN h ELSE h \cup ({s.val} \ {""})
RefAfter(r, s) == IF s.call = "free" \/ s.into = "" THEN r ELSE [r EXCEPT ![s.into] = s.val]

Runs(e, h, r, p, g, q) ==
    \E H, R :
        /\ H[1] = h /\ R[1] = r /\ H[Len(p) + 1] = g /\ R[Len(p) + 1] = q
        /\ \A k \in 1..Len(p) : /\ Sound(e, H[k], R[k], p[k])
                                /\ H[k + 1] = HeldAfter(H[k], R[k], p[k])
                                /\ R[k + 1] = RefAfter(R[k], p[k])

(* Releasing nothing.                                                      *)
LEMMA CleanNothing ==
  ASSUME NEW h, NEW r
  PROVE  Clean(h, r, <<>>, h)
BY DEF Clean, Given

(* Releasing one thing.                                                    *)
LEMMA CleanOne ==
  ASSUME NEW h, NEW r, NEW x, Ready(h, r, x)
  PROVE  Clean(h, r, <<x>>, h \ {Means(r, x)})
<1> DEFINE u == <<x>>
           n == Len(u)
<1>1. n = 1 /\ u[1] = x /\ DOMAIN u = 1..n
  <2>1. u \in Seq({x}) /\ Len(u) = 1 /\ u[1] = x
    OBVIOUS
  <2> HIDE DEF u
  <2> QED BY <2>1
<1> HIDE DEF u, n
<1>2. \A j : j \in 1..n <=> j = 1
  BY <1>1
<1>3. \A j \in 1..(1 - 1) : FALSE
  OBVIOUS
<1>4. Given(r, u, n) = {Means(r, x)}
  BY <1>1, <1>2 DEF Given
<1>5. Given(r, u, 1 - 1) = {}
  BY <1>3 DEF Given
<1>6. h \ Given(r, u, 1 - 1) = h
  BY <1>5
<1>7. Clean(h, r, u, h \ {Means(r, x)})
  BY <1>1, <1>2, <1>4, <1>6 DEF Clean, n
<1> QED BY <1>7 DEF u

(* Releasing one list and then another.                                    *)
LEMMA CleanJoin ==
  ASSUME NEW h, NEW r, NEW u \in Undo, NEW v \in Undo, NEW g, NEW f,
         Clean(h, r, u, g), Clean(g, r, v, f)
  PROVE  Clean(h, r, u \o v, f)
<1> DEFINE w == u \o v
<1>1. /\ Len(u) \in Nat /\ Len(v) \in Nat /\ Len(w) = Len(u) + Len(v)
      /\ DOMAIN u = 1..Len(u) /\ DOMAIN v = 1..Len(v) /\ DOMAIN w = 1..(Len(u) + Len(v))
      /\ \A k \in 1..Len(u) : w[k] = u[k]
      /\ \A k \in 1..Len(v) : w[Len(u) + k] = v[k]
  BY DEF Undo
<1> HIDE DEF w
<1>2. \A n \in 0..Len(u) : Given(r, w, n) = Given(r, u, n)
  BY <1>1 DEF Given
<1>3. ASSUME NEW n \in 0..Len(v)
      PROVE  Given(r, w, Len(u) + n) = Given(r, u, Len(u)) \cup Given(r, v, n)
  <2>1. ASSUME NEW j \in 1..(Len(u) + n)
        PROVE  Means(r, w[j]) \in Given(r, u, Len(u)) \cup Given(r, v, n)
    <3>1. CASE j \in 1..Len(u)
      BY <1>1, <3>1 DEF Given
    <3>2. CASE j \notin 1..Len(u)
      <4>1. j - Len(u) \in 1..n /\ j - Len(u) \in 1..Len(v) /\ Len(u) + (j - Len(u)) = j
        BY <1>1, <3>2
      <4>2. w[j] = v[j - Len(u)]
        BY <1>1, <4>1
      <4> QED BY <4>1, <4>2 DEF Given
    <3> QED BY <3>1, <3>2
  <2>2. ASSUME NEW j \in 1..Len(u) PROVE Means(r, u[j]) \in Given(r, w, Len(u) + n)
    <3>1. j \in 1..(Len(u) + n) /\ w[j] = u[j]
      BY <1>1
    <3> QED BY <3>1 DEF Given
  <2>3. ASSUME NEW j \in 1..n PROVE Means(r, v[j]) \in Given(r, w, Len(u) + n)
    <3>1. Len(u) + j \in 1..(Len(u) + n) /\ w[Len(u) + j] = v[j]
      BY <1>1
    <3> QED BY <3>1 DEF Given
  <2>4. Given(r, w, Len(u) + n) \subseteq Given(r, u, Len(u)) \cup Given(r, v, n)
    BY <2>1 DEF Given
  <2>5. Given(r, u, Len(u)) \subseteq Given(r, w, Len(u) + n)
    BY <2>2 DEF Given
  <2>6. Given(r, v, n) \subseteq Given(r, w, Len(u) + n)
    BY <2>3 DEF Given
  <2> QED BY <2>4, <2>5, <2>6
<1>4. g = h \ Given(r, u, Len(u)) /\ f = g \ Given(r, v, Len(v))
  BY DEF Clean
<1>5. f = h \ Given(r, w, Len(w))
  BY <1>1, <1>3, <1>4
<1>6. ASSUME NEW k \in DOMAIN w
      PROVE  Ready(h \ Given(r, w, k - 1), r, w[k])
  <2>1. CASE k \in 1..Len(u)
    <3>1. w[k] = u[k] /\ k - 1 \in 0..Len(u)
      BY <1>1, <2>1
    <3>2. Given(r, w, k - 1) = Given(r, u, k - 1)
      BY <1>2, <3>1
    <3> QED BY <1>1, <2>1, <3>1, <3>2 DEF Clean
  <2>2. CASE k \notin 1..Len(u)
    <3> DEFINE j == k - Len(u)
    <3>1. j \in 1..Len(v) /\ Len(u) + j = k /\ j - 1 \in 0..Len(v) /\ Len(u) + (j - 1) = k - 1
      BY <1>1, <2>2
    <3> HIDE DEF j
    <3>2. w[k] = v[j]
      BY <1>1, <3>1
    <3>3. Given(r, w, k - 1) = Given(r, u, Len(u)) \cup Given(r, v, j - 1)
      BY <1>3, <3>1
    <3>4. Ready(g \ Given(r, v, j - 1), r, v[j])
      BY <1>1, <3>1 DEF Clean
    <3>5. g \ Given(r, v, j - 1) = h \ Given(r, w, k - 1)
      BY <1>4, <3>3
    <3> QED BY <3>2, <3>4, <3>5
  <2> QED BY <2>1, <2>2
<1> QED BY <1>5, <1>6 DEF Clean, w

(* A list without steps.                                                   *)
LEMMA RunsNothing ==
  ASSUME NEW e, NEW h, NEW r
  PROVE  Runs(e, h, r, <<>>, h, r)
<1> DEFINE H == [k \in 1..1 |-> h]
           R == [k \in 1..1 |-> r]
<1>1. Len(<<>>) = 0 /\ H[1] = h /\ R[1] = r /\ (\A k \in 1..0 : FALSE)
  OBVIOUS
<1> HIDE DEF H, R
<1> QED BY <1>1 DEF Runs

(* One step.                                                               *)
LEMMA RunsOne ==
  ASSUME NEW e, NEW h, NEW r, NEW s, Sound(e, h, r, s)
  PROVE  Runs(e, h, r, <<s>>, HeldAfter(h, r, s), RefAfter(r, s))
<1> DEFINE H == [k \in 1..2 |-> IF k = 1 THEN h ELSE HeldAfter(h, r, s)]
           R == [k \in 1..2 |-> IF k = 1 THEN r ELSE RefAfter(r, s)]
           p == <<s>>
<1>1. Len(p) = 1 /\ p[1] = s /\ \A k : k \in 1..1 <=> k = 1
  OBVIOUS
<1>2. H[1] = h /\ R[1] = r /\ H[1 + 1] = HeldAfter(h, r, s) /\ R[1 + 1] = RefAfter(r, s)
  OBVIOUS
<1> HIDE DEF H, R, p
<1>3. Runs(e, h, r, p, HeldAfter(h, r, s), RefAfter(r, s))
  BY <1>1, <1>2 DEF Runs
<1> QED BY <1>3 DEF p

(* One list and then another.                                              *)
LEMMA RunsJoin ==
  ASSUME NEW e, NEW b \in BOOLEAN, NEW s, NEW t, IsSteps(s, b), IsSteps(t, b),
         NEW h, NEW r, NEW g, NEW q, NEW f, NEW z, Runs(e, h, r, s, g, q), Runs(e, g, q, t, f, z)
  PROVE  Runs(e, h, r, s \o t, f, z)
<1>1. PICK H, R :
        /\ H[1] = h /\ R[1] = r /\ H[Len(s) + 1] = g /\ R[Len(s) + 1] = q
        /\ \A k \in 1..Len(s) : /\ Sound(e, H[k], R[k], s[k])
                                /\ H[k + 1] = HeldAfter(H[k], R[k], s[k])
                                /\ R[k + 1] = RefAfter(R[k], s[k])
  BY DEF Runs
<1>2. PICK G, Q :
        /\ G[1] = g /\ Q[1] = q /\ G[Len(t) + 1] = f /\ Q[Len(t) + 1] = z
        /\ \A k \in 1..Len(t) : /\ Sound(e, G[k], Q[k], t[k])
                                /\ G[k + 1] = HeldAfter(G[k], Q[k], t[k])
                                /\ Q[k + 1] = RefAfter(Q[k], t[k])
  BY DEF Runs
<1> DEFINE m == Len(s)
           n == Len(t)
           p == s \o t
           I == [k \in 1..(m + n + 1) |-> IF k <= m THEN H[k] ELSE G[k - m]]
           T == [k \in 1..(m + n + 1) |-> IF k <= m THEN R[k] ELSE Q[k - m]]
<1>3. /\ m \in Nat /\ n \in Nat /\ Len(p) = m + n
      /\ \A k \in 1..m : p[k] = s[k]
      /\ \A k \in (m + 1)..(m + n) : k - m \in 1..n /\ p[k] = t[k - m]
  BY StepsAreSequence, ConcatParts
<1>4. /\ \A k \in 1..m : I[k] = H[k] /\ T[k] = R[k]
      /\ \A k \in (m + 1)..(m + n + 1) : I[k] = G[k - m] /\ T[k] = Q[k - m]
  BY <1>3
<1> HIDE DEF I, T, p, m, n
<1>5. I[m + 1] = g /\ T[m + 1] = q
  <2>1. m + 1 \in (m + 1)..(m + n + 1) /\ (m + 1) - m = 1
    BY <1>3
  <2> QED BY <1>2, <1>4, <2>1
<1>6. I[1] = h /\ T[1] = r
  <2>1. CASE m = 0
    BY <1>1, <1>5, <2>1 DEF m
  <2>2. CASE m # 0
    <3>1. 1 \in 1..m
      BY <1>3, <2>2
    <3> QED BY <1>1, <1>4, <3>1
  <2> QED BY <2>1, <2>2
<1>7. I[Len(p) + 1] = f /\ T[Len(p) + 1] = z
  <2>1. m + n + 1 \in (m + 1)..(m + n + 1) /\ (m + n + 1) - m = n + 1 /\ Len(p) + 1 = m + n + 1
    BY <1>3
  <2>2. I[m + n + 1] = G[n + 1] /\ T[m + n + 1] = Q[n + 1]
    BY <1>4, <2>1
  <2> QED BY <1>2, <2>1, <2>2 DEF n
<1>8. ASSUME NEW k \in 1..Len(p)
      PROVE  /\ Sound(e, I[k], T[k], p[k])
             /\ I[k + 1] = HeldAfter(I[k], T[k], p[k])
             /\ T[k + 1] = RefAfter(T[k], p[k])
  <2>1. CASE k \in 1..m
    <3>1. p[k] = s[k] /\ I[k] = H[k] /\ T[k] = R[k]
      BY <1>3, <1>4, <2>1
    <3>2. I[k + 1] = H[k + 1] /\ T[k + 1] = R[k + 1]
      <4>1. CASE k = m
        BY <1>1, <1>5, <4>1 DEF m
      <4>2. CASE k # m
        <5>1. k + 1 \in 1..m
          BY <1>3, <2>1, <4>2
        <5> QED BY <1>4, <5>1
      <4> QED BY <4>1, <4>2
    <3> QED BY <1>1, <2>1, <3>1, <3>2 DEF m
  <2>2. CASE k \notin 1..m
    <3>1. /\ k \in (m + 1)..(m + n) /\ k \in (m + 1)..(m + n + 1) /\ k + 1 \in (m + 1)..(m + n + 1)
          /\ (k + 1) - m = (k - m) + 1
      BY <1>3, <2>2
    <3>2. k - m \in 1..n /\ p[k] = t[k - m]
      BY <1>3, <3>1
    <3>3. /\ I[k] = G[k - m] /\ T[k] = Q[k - m]
          /\ I[k + 1] = G[(k - m) + 1] /\ T[k + 1] = Q[(k - m) + 1]
      BY <1>4, <3>1
    <3> QED BY <1>2, <3>2, <3>3 DEF n
  <2> QED BY <2>1, <2>2
<1>9. Runs(e, h, r, p, f, z)
  BY <1>6, <1>7, <1>8 DEF Runs
<1> QED BY <1>9 DEF p

(* The first step of a program, and the rest.                              *)
LEMMA RunsFirst ==
  ASSUME NEW e, NEW h, NEW r, NEW g, NEW q, NEW p, IsProgram(p), Runs(e, h, r, p, g, q)
  PROVE  /\ Sound(e, h, r, Head(p))
         /\ Head(p).call \notin LoopCalls =>
               Runs(e, HeldAfter(h, r, Head(p)), RefAfter(r, Head(p)), Tail(p), g, q)
<1>1. PICK S : p \in Seq(S)
  BY DEF IsProgram, IsSteps
<1>2. p # <<>> /\ Len(p) \in Nat /\ Len(p) # 0 /\ Head(p) = p[1]
  BY <1>1 DEF IsProgram, Ends
<1>3. /\ Len(Tail(p)) = Len(p) - 1
      /\ \A k \in 1..(Len(p) - 1) : Tail(p)[k] = p[k + 1]
  BY <1>1, <1>2
<1>4. PICK H, R :
        /\ H[1] = h /\ R[1] = r /\ H[Len(p) + 1] = g /\ R[Len(p) + 1] = q
        /\ \A k \in 1..Len(p) : /\ Sound(e, H[k], R[k], p[k])
                                /\ H[k + 1] = HeldAfter(H[k], R[k], p[k])
                                /\ R[k + 1] = RefAfter(R[k], p[k])
  BY DEF Runs
<1>5. 1 \in 1..Len(p)
  BY <1>2
<1>6. /\ Sound(e, h, r, Head(p))
      /\ H[1 + 1] = HeldAfter(h, r, Head(p)) /\ R[1 + 1] = RefAfter(r, Head(p))
  BY <1>2, <1>4, <1>5
<1> DEFINE n == Len(p)
           t == Tail(p)
           G == [k \in 1..n |-> H[k + 1]]
           Q == [k \in 1..n |-> R[k + 1]]
<1>7. \A k \in 1..n : G[k] = H[k + 1] /\ Q[k] = R[k + 1]
  OBVIOUS
<1> HIDE DEF G, Q, n, t
<1>8. n \in Nat /\ 1 \in 1..n /\ n \in 1..n /\ Len(t) = n - 1 /\ Len(t) + 1 = n
  BY <1>2, <1>3 DEF n, t
<1>9. G[1] = HeldAfter(h, r, Head(p)) /\ Q[1] = RefAfter(r, Head(p)) /\ G[Len(t) + 1] = g /\ Q[Len(t) + 1] = q
  BY <1>4, <1>6, <1>7, <1>8 DEF n
<1>10. ASSUME NEW k \in 1..Len(t)
       PROVE  /\ Sound(e, G[k], Q[k], t[k])
              /\ G[k + 1] = HeldAfter(G[k], Q[k], t[k])
              /\ Q[k + 1] = RefAfter(Q[k], t[k])
  <2>1. k \in 1..n /\ k + 1 \in 1..n
    BY <1>8
  <2>2. t[k] = p[k + 1]
    BY <1>3, <1>8 DEF n, t
  <2> QED BY <1>4, <1>7, <2>1, <2>2 DEF n
<1>11. Runs(e, HeldAfter(h, r, Head(p)), RefAfter(r, Head(p)), t, g, q)
  <2> DEFINE i == HeldAfter(h, r, Head(p))
             s == RefAfter(r, Head(p))
  <2>1. G[1] = i /\ Q[1] = s /\ G[Len(t) + 1] = g /\ Q[Len(t) + 1] = q
    BY <1>9
  <2> HIDE DEF i, s
  <2>2. \E I, T :
          /\ I[1] = i /\ T[1] = s /\ I[Len(t) + 1] = g /\ T[Len(t) + 1] = q
          /\ \A k \in 1..Len(t) : /\ Sound(e, I[k], T[k], t[k])
                                  /\ I[k + 1] = HeldAfter(I[k], T[k], t[k])
                                  /\ T[k + 1] = RefAfter(T[k], t[k])
    <3> WITNESS G, Q
    <3> QED BY <1>10, <2>1
  <2>3. Runs(e, i, s, t, g, q)
    BY <2>2 DEF Runs
  <2> QED BY <2>3 DEF i, s
<1> QED BY <1>6, <1>11 DEF t

(* The ways to write a step.                                               *)
LEMMA RunsStep ==
  ASSUME NEW e, NEW h, NEW r, NEW call, call \notin {"free", "store"}, NEW undo, Clean(h, r, undo, {})
  PROVE  /\ Runs(e, h, r, <<Check(call, undo)>>, h, r)
         /\ \A val \in Resources : Runs(e, h, r, <<Step(call, val, "", undo)>>, h \cup {val}, r)
         /\ \A val \in Resources, into \in Fields :
               Runs(e, h, r, <<Step(call, val, into, undo)>>, h \cup {val}, [r EXCEPT ![into] = val])
<1>1. \A val, into : Sound(e, h, r, Step(call, val, into, undo))
  BY DEF Sound, Step
<1>2. \A val, into : /\ HeldAfter(h, r, Step(call, val, into, undo)) = h \cup ({val} \ {""})
                     /\ RefAfter(r, Step(call, val, into, undo)) =
                           IF into = "" THEN r ELSE [r EXCEPT ![into] = val]
  BY DEF HeldAfter, RefAfter, Step
<1>3. "" \notin Resources /\ "" \notin Fields
  BY DEF Resources, Fields, Left, Right
<1>4. h \cup ({""} \ {""}) = h /\ \A val \in Resources : h \cup ({val} \ {""}) = h \cup {val}
  BY <1>3
<1>5. Runs(e, h, r, <<Check(call, undo)>>, h, r)
  <2> DEFINE s == Step(call, "", "", undo)
  <2>1. Sound(e, h, r, s) /\ HeldAfter(h, r, s) = h /\ RefAfter(r, s) = r
    BY <1>1, <1>2, <1>4
  <2> HIDE DEF s
  <2>2. Runs(e, h, r, <<s>>, h, r)
    BY <2>1, RunsOne
  <2> QED BY <2>2 DEF s, Check
<1>6. ASSUME NEW val \in Resources PROVE Runs(e, h, r, <<Step(call, val, "", undo)>>, h \cup {val}, r)
  <2> DEFINE s == Step(call, val, "", undo)
  <2>1. Sound(e, h, r, s) /\ HeldAfter(h, r, s) = h \cup {val} /\ RefAfter(r, s) = r
    BY <1>1, <1>2, <1>4
  <2> HIDE DEF s
  <2>2. Runs(e, h, r, <<s>>, h \cup {val}, r)
    BY <2>1, RunsOne
  <2> QED BY <2>2 DEF s
<1>7. ASSUME NEW val \in Resources, NEW into \in Fields
      PROVE  Runs(e, h, r, <<Step(call, val, into, undo)>>, h \cup {val}, [r EXCEPT ![into] = val])
  <2> DEFINE s == Step(call, val, into, undo)
             q == [r EXCEPT ![into] = val]
  <2>1. Sound(e, h, r, s) /\ HeldAfter(h, r, s) = h \cup {val} /\ RefAfter(r, s) = q
    BY <1>1, <1>2, <1>3, <1>4
  <2> HIDE DEF s, q
  <2>2. Runs(e, h, r, <<s>>, h \cup {val}, q)
    BY <2>1, RunsOne
  <2> QED BY <2>2 DEF s, q
<1> QED BY <1>5, <1>6, <1>7

(* Releasing on the way.                                                   *)
LEMMA RunsFree ==
  ASSUME NEW e, NEW h, NEW r, NEW undo, NEW g, Clean(h, r, undo, g)
  PROVE  Runs(e, h, r, <<Free(undo)>>, g, r)
<1> DEFINE s == Free(undo)
<1>1. Sound(e, h, r, s) /\ HeldAfter(h, r, s) = g /\ RefAfter(r, s) = r
  BY DEF Sound, HeldAfter, RefAfter, Free, Step, Clean
<1> HIDE DEF s
<1>2. Runs(e, h, r, <<s>>, g, r)
  BY <1>1, RunsOne
<1> QED BY <1>2 DEF s

(* Storing a reference.                                                    *)
LEMMA RunsStore ==
  ASSUME NEW e, NEW h, NEW r, NEW field \in Fields, NEW val
  PROVE  Runs(e, h, r, <<Store(field, val)>>, h, [r EXCEPT ![field] = val])
<1> DEFINE s == Store(field, val)
           q == [r EXCEPT ![field] = val]
<1>1. "" \notin Fields
  BY DEF Fields, Left, Right
<1>2. Sound(e, h, r, s) /\ HeldAfter(h, r, s) = h /\ RefAfter(r, s) = q
  BY <1>1 DEF Sound, HeldAfter, RefAfter, Store, Step
<1> HIDE DEF s, q
<1>3. Runs(e, h, r, <<s>>, h, q)
  BY <1>2, RunsOne
<1> QED BY <1>3 DEF s, q

-----------------------------------------------------------------------------
(* Parts of a program, with their accounts.                                *)

Part(e, h, r, p, g, q) == IsSteps(p, FALSE) /\ Runs(e, h, r, p, g, q)

(* A sequence that is one longer than another.                             *)
LEMMA Longer ==
  ASSUME NEW S, NEW s \in Seq(S), NEW w \in Seq(S), NEW d \in S, Len(w) = Len(s) + 1,
         \A k \in 1..Len(s) : w[k] = s[k], w[Len(s) + 1] = d
  PROVE  w = s \o <<d>>
<1> DEFINE u == <<d>>
<1>1. u \in Seq(S) /\ Len(u) = 1 /\ u[1] = d
  OBVIOUS
<1> HIDE DEF u
<1>2. /\ s \o u \in Seq(S) /\ Len(s) \in Nat /\ Len(s \o u) = Len(s) + 1
      /\ \A k \in 1..(Len(s) + 1) : (s \o u)[k] = IF k <= Len(s) THEN s[k] ELSE u[k - Len(s)]
  <2>1. /\ s \o u \in Seq(S) /\ Len(s \o u) = Len(s) + Len(u)
        /\ \A k \in 1..(Len(s) + Len(u)) : (s \o u)[k] = IF k <= Len(s) THEN s[k] ELSE u[k - Len(s)]
    BY <1>1, ConcatProperties
  <2>2. Len(s) \in Nat
    OBVIOUS
  <2> QED BY <1>1, <2>1, <2>2
<1>3. ASSUME NEW k \in 1..Len(w) PROVE w[k] = (s \o u)[k]
  <2>1. CASE k <= Len(s)
    BY <1>2, <2>1
  <2>2. CASE k = Len(s) + 1
    <3>1. k - Len(s) = 1 /\ ~(k <= Len(s))
      BY <1>2, <2>2
    <3> QED BY <1>1, <1>2, <2>2, <3>1
  <2> QED BY <1>2, <2>1, <2>2
<1>4. w = s \o u
  BY <1>2, <1>3, SeqEqual
<1> QED BY <1>4 DEF u

(* Literal sequences, taken apart.                                         *)
LEMMA TwoIs ==
  ASSUME NEW a, NEW b
  PROVE  <<a, b>> = <<a>> \o <<b>>
<1> DEFINE S == {a, b}
           s == <<a>>
           w == <<a, b>>
<1>1. s \in Seq(S) /\ w \in Seq(S) /\ b \in S
  <2>1. a \in S /\ b \in S
    OBVIOUS
  <2> HIDE DEF S
  <2> QED BY <2>1
<1>2. Len(s) = 1 /\ Len(w) = 2 /\ s[1] = a /\ w[1] = a /\ w[2] = b
  OBVIOUS
<1> HIDE DEF S, s, w
<1>3. Len(w) = Len(s) + 1 /\ w[Len(s) + 1] = b /\ \A k \in 1..Len(s) : w[k] = s[k]
  BY <1>2
<1>4. w = s \o <<b>>
  BY <1>1, <1>3, Longer
<1> QED BY <1>4 DEF s, w

(* Three elements.                                                         *)
LEMMA ThreeIs ==
  ASSUME NEW a, NEW b, NEW c
  PROVE  <<a, b, c>> = <<a, b>> \o <<c>>
<1> DEFINE S == {a, b, c}
           s == <<a, b>>
           w == <<a, b, c>>
<1>1. s \in Seq(S) /\ w \in Seq(S) /\ c \in S
  <2>1. a \in S /\ b \in S /\ c \in S
    OBVIOUS
  <2> HIDE DEF S
  <2> QED BY <2>1
<1>2. Len(s) = 2 /\ Len(w) = 3 /\ s[1] = a /\ s[2] = b /\ w[1] = a /\ w[2] = b /\ w[3] = c
  OBVIOUS
<1> HIDE DEF S, s, w
<1>3. Len(w) = Len(s) + 1 /\ w[Len(s) + 1] = c /\ \A k \in 1..Len(s) : w[k] = s[k]
  BY <1>2
<1>4. w = s \o <<c>>
  BY <1>1, <1>3, Longer
<1> QED BY <1>4 DEF s, w

(* Four elements.                                                          *)
LEMMA FourIs ==
  ASSUME NEW a, NEW b, NEW c, NEW d
  PROVE  <<a, b, c, d>> = <<a, b, c>> \o <<d>>
<1> DEFINE S == {a, b, c, d}
           s == <<a, b, c>>
           w == <<a, b, c, d>>
<1>1. s \in Seq(S) /\ w \in Seq(S) /\ d \in S
  <2>1. a \in S /\ b \in S /\ c \in S /\ d \in S
    OBVIOUS
  <2> HIDE DEF S
  <2> QED BY <2>1
<1>2. Len(s) = 3 /\ Len(w) = 4 /\ s[1] = a /\ s[2] = b /\ s[3] = c /\ w[1] = a /\ w[2] = b /\ w[3] = c /\ w[4] = d
  OBVIOUS
<1> HIDE DEF S, s, w
<1>3. Len(w) = Len(s) + 1 /\ w[Len(s) + 1] = d /\ \A k \in 1..Len(s) : w[k] = s[k]
  BY <1>2
<1>4. w = s \o <<d>>
  BY <1>1, <1>3, Longer
<1> QED BY <1>4 DEF s, w

(* No step.                                                                *)
LEMMA PartNothing ==
  ASSUME NEW e, NEW h, NEW r
  PROVE  Part(e, h, r, <<>>, h, r)
BY RunsNothing, PiecesJoin DEF Part

(* One part and then another.                                              *)
LEMMA PartJoin ==
  ASSUME NEW e, NEW s, NEW t, NEW h, NEW r, NEW g, NEW q, NEW f, NEW z,
         Part(e, h, r, s, g, q), Part(e, g, q, t, f, z)
  PROVE  Part(e, h, r, s \o t, f, z)
<1>1. IsSteps(s, FALSE) /\ IsSteps(t, FALSE) /\ Runs(e, h, r, s, g, q) /\ Runs(e, g, q, t, f, z)
  BY DEF Part
<1>2. Runs(e, h, r, s \o t, f, z)
  BY <1>1, RunsJoin
<1>3. IsSteps(s \o t, FALSE)
  BY <1>1, PiecesJoin
<1> QED BY <1>2, <1>3 DEF Part

(* A part that is there or not, and changes nothing if it is.              *)
LEMMA PartWhen ==
  ASSUME NEW e, NEW s, NEW h, NEW r, NEW cond, Part(e, h, r, s, h, r)
  PROVE  Part(e, h, r, When(cond, s), h, r)
BY PartNothing DEF When

(* One step.                                                               *)
LEMMA PartStep ==
  ASSUME NEW e, NEW h, NEW r, NEW call, call \notin {"free", "store"}, NEW undo \in Undo, Clean(h, r, undo, {})
  PROVE  /\ Part(e, h, r, <<Check(call, undo)>>, h, r)
         /\ \A val \in Resources : Part(e, h, r, <<Step(call, val, "", undo)>>, h \cup {val}, r)
         /\ \A val \in Resources, into \in Fields :
               Part(e, h, r, <<Step(call, val, into, undo)>>, h \cup {val}, [r EXCEPT ![into] = val])
<1>1. IsSteps(<<Check(call, undo)>>, FALSE)
  BY OtherStepTyped, PiecesJoin
<1>2. \A val \in Resources, into \in Fields \cup {""} : IsSteps(<<Step(call, val, into, undo)>>, FALSE)
  BY OtherStepTyped, PiecesJoin
<1> QED BY <1>1, <1>2, RunsStep DEF Part

(* A release on the way.                                                   *)
LEMMA PartFree ==
  ASSUME NEW e, NEW h, NEW r, NEW undo \in Undo, NEW g, Clean(h, r, undo, g)
  PROVE  Part(e, h, r, <<Free(undo)>>, g, r)
<1>1. IsSteps(<<Free(undo)>>, FALSE)
  BY OtherStepTyped, PiecesJoin
<1> QED BY <1>1, RunsFree DEF Part

(* A reference is stored.                                                  *)
LEMMA PartStore ==
  ASSUME NEW e, NEW h, NEW r, NEW field \in Fields, NEW val \in Resources \cup {""}
  PROVE  Part(e, h, r, <<Store(field, val)>>, h, [r EXCEPT ![field] = val])
<1>1. IsSteps(<<Store(field, val)>>, FALSE)
  BY StepTyped, PiecesJoin
<1> QED BY <1>1, RunsStore DEF Part

(* What needs nothing else can be released when it is held.                *)
Simple == Resources \ {"ssl", "conn", "listener_ssl"}
(* It can be released by its name.                                         *)
LEMMA CleanResource ==
  ASSUME NEW h, NEW r, NEW x \in Simple, x \in h
  PROVE  Clean(h, r, <<x>>, h \ {x})
<1>1. x \notin Fields
  BY DEF Simple, Resources, Fields, Left, Right
<1>2. Means(r, x) = x /\ Needs(r, x) = {x}
  BY <1>1 DEF Means, Needs, Simple
<1>3. Ready(h, r, x)
  BY <1>2 DEF Ready
<1> QED BY <1>2, <1>3, CleanOne

(* A connection of QUIC needs its socket.                                  *)
LEMMA CleanConn ==
  ASSUME NEW h, NEW r, "conn" \in h, NEW fd \in h, r["s.fd"] = fd, NEW g, g = h \ {"conn"}
  PROVE  Clean(h, r, <<"conn">>, g)
<1>1. "conn" \notin Fields
  BY DEF Fields, Left, Right
<1>2. Means(r, "conn") = "conn" /\ Needs(r, "conn") = {"conn", r["s.fd"]}
  BY <1>1 DEF Means, Needs
<1>3. Ready(h, r, "conn")
  BY <1>2 DEF Ready
<1> QED BY <1>2, <1>3, CleanOne

(* Three releases.                                                         *)
LEMMA CleanThree ==
  ASSUME NEW h, NEW r, NEW a \in Names, NEW b \in Names, NEW c \in Names,
         Ready(h, r, a), Ready(h \ {Means(r, a)}, r, b),
         Ready((h \ {Means(r, a)}) \ {Means(r, b)}, r, c)
  PROVE  Clean(h, r, <<a, b, c>>, ((h \ {Means(r, a)}) \ {Means(r, b)}) \ {Means(r, c)})
<1> DEFINE g == h \ {Means(r, a)}
           f == g \ {Means(r, b)}
<1>1. Clean(h, r, <<a>>, g) /\ Clean(g, r, <<b>>, f) /\ Clean(f, r, <<c>>, f \ {Means(r, c)})
  BY CleanOne
<1> HIDE DEF g, f
<1>2. <<a>> \in Undo /\ <<b>> \in Undo /\ <<c>> \in Undo /\ <<a, b>> \in Undo
  BY Short DEF Undo
<1>3. Clean(h, r, <<a>> \o <<b>>, f)
  BY <1>1, <1>2, CleanJoin
<1>4. <<a, b>> = <<a>> \o <<b>>
  BY TwoIs, Zenon
<1>5. <<a, b, c>> = <<a, b>> \o <<c>>
  BY ThreeIs, Zenon
<1>6. Clean(h, r, <<a, b>>, f)
  BY <1>3, <1>4, Zenon
<1>7. Clean(h, r, <<a, b>> \o <<c>>, f \ {Means(r, c)})
  BY <1>1, <1>2, <1>6, CleanJoin
<1>8. Clean(h, r, <<a, b, c>>, f \ {Means(r, c)})
  BY <1>5, <1>7, Zenon
<1> QED BY <1>8 DEF f, g

(* The same, with what they mean.                                          *)
LEMMA CleanMeant ==
  ASSUME NEW h, NEW r, NEW a \in Names, NEW b \in Names, NEW c \in Names, NEW x, NEW y, NEW z,
         Means(r, a) = x /\ Ready(h, r, a), Means(r, b) = y /\ Ready(h \ {x}, r, b),
         Means(r, c) = z /\ Ready((h \ {x}) \ {y}, r, c)
  PROVE  Clean(h, r, <<a, b, c>>, ((h \ {x}) \ {y}) \ {z})
BY CleanThree

(* Two steps, written as one sequence.                                     *)
LEMMA PartTwo ==
  ASSUME NEW e, NEW a, NEW b, NEW h, NEW r, NEW g, NEW q, NEW f, NEW z,
         Part(e, h, r, <<a>>, g, q), Part(e, g, q, <<b>>, f, z)
  PROVE  Part(e, h, r, <<a, b>>, f, z)
<1>1. Part(e, h, r, <<a>> \o <<b>>, f, z)
  BY PartJoin
<1>2. <<a, b>> = <<a>> \o <<b>>
  BY TwoIs, Zenon
<1> QED BY <1>1, <1>2, Zenon

(* Three steps.                                                            *)
LEMMA PartThree ==
  ASSUME NEW e, NEW a, NEW b, NEW c, NEW h, NEW r, NEW g, NEW q, NEW f, NEW z,
         Part(e, h, r, <<a, b>>, g, q), Part(e, g, q, <<c>>, f, z)
  PROVE  Part(e, h, r, <<a, b, c>>, f, z)
<1>1. Part(e, h, r, <<a, b>> \o <<c>>, f, z)
  BY PartJoin
<1>2. <<a, b, c>> = <<a, b>> \o <<c>>
  BY ThreeIs, Zenon
<1> QED BY <1>1, <1>2, Zenon

(* Four steps.                                                             *)
LEMMA PartFour ==
  ASSUME NEW e, NEW a, NEW b, NEW c, NEW d, NEW h, NEW r, NEW g, NEW q, NEW f, NEW z,
         Part(e, h, r, <<a, b, c>>, g, q), Part(e, g, q, <<d>>, f, z)
  PROVE  Part(e, h, r, <<a, b, c, d>>, f, z)
<1>1. Part(e, h, r, <<a, b, c>> \o <<d>>, f, z)
  BY PartJoin
<1>2. <<a, b, c, d>> = <<a, b, c>> \o <<d>>
  BY FourIs, Zenon
<1> QED BY <1>1, <1>2, Zenon

(* A field that refers to nothing, or to something that needs nothing      *)
(* else, can be released when that is held.                                *)
LEMMA ReadyField ==
  ASSUME NEW h, NEW r, NEW x \in Fields, r[x] \in Simple \cup {""}, r[x] # "" => r[x] \in h
  PROVE  Means(r, x) = r[x] /\ Ready(h, r, x)
<1>1. Means(r, x) = r[x]
  BY DEF Means
<1>2. r[x] # "" => Needs(r, r[x]) = {r[x]}
  BY DEF Needs, Simple
<1> QED BY <1>1, <1>2 DEF Ready

(* So can a session when its descriptor is open.                           *)
LEMMA ReadySession ==
  ASSUME NEW h, NEW r, NEW x \in Fields, NEW fd, r[x] # "" => r[x] \in h /\ r[fd] \in h,
         \/ r[x] \in {"", "ssl", "conn"} /\ fd = "s.fd"
         \/ r[x] \in {"", "listener_ssl"} /\ fd = "l.fd"
  PROVE  Means(r, x) = r[x] /\ Ready(h, r, x)
<1>1. Means(r, x) = r[x]
  BY DEF Means
<1>2. r[x] # "" => Needs(r, r[x]) = {r[x], r[fd]}
  BY DEF Needs
<1> QED BY <1>1, <1>2 DEF Ready

(* A stream whose parts, those it has, are held.                           *)
TlsOpen(h, r) ==
    /\ r["s.ssl"] \in {"", "ssl", "conn"} /\ r["s.ctx"] \in {"", "ctx"} /\ r["s.owned"] \in {"", "sock", "client"}
    /\ r["s.ssl"] # "" => r["s.ssl"] \in h /\ r["s.fd"] \in h
    /\ r["s.ctx"] # "" => r["s.ctx"] \in h
    /\ r["s.owned"] # "" => r["s.owned"] \in h
TlsClosed(h, r) == ((h \ {r["s.ssl"]}) \ {r["s.ctx"]}) \ {r["s.owned"]}

(* wcat_tls_close releases the session, the context and the descriptor of  *)
(* a stream, in an order that is right.                                    *)
LEMMA CleanTls ==
  ASSUME NEW h, NEW r, TlsOpen(h, r)
  PROVE  Clean(h, r, wcat_tls_close, TlsClosed(h, r))
<1>1. "s.ssl" \in Fields /\ "s.ctx" \in Fields /\ "s.owned" \in Fields
  BY DEF Fields
<1>2. {"ctx", "sock", "client"} \subseteq Simple
  BY DEF Simple, Resources
<1>3. Means(r, "s.ssl") = r["s.ssl"] /\ Ready(h, r, "s.ssl")
  BY <1>1, ReadySession DEF TlsOpen
<1>4. Means(r, "s.ctx") = r["s.ctx"] /\ Ready(h \ {r["s.ssl"]}, r, "s.ctx")
  <2>1. r["s.ctx"] \in Simple \cup {""} /\ (r["s.ctx"] # "" => r["s.ctx"] \in h \ {r["s.ssl"]})
    BY <1>2 DEF TlsOpen
  <2> QED BY <1>1, <2>1, ReadyField
<1>5. Means(r, "s.owned") = r["s.owned"] /\ Ready((h \ {r["s.ssl"]}) \ {r["s.ctx"]}, r, "s.owned")
  <2>1. /\ r["s.owned"] \in Simple \cup {""}
        /\ r["s.owned"] # "" => r["s.owned"] \in (h \ {r["s.ssl"]}) \ {r["s.ctx"]}
    BY <1>2 DEF TlsOpen
  <2> QED BY <1>1, <2>1, ReadyField
<1>6. "s.ssl" \in Names /\ "s.ctx" \in Names /\ "s.owned" \in Names
  BY <1>1 DEF Names
<1> DEFINE a == "s.ssl"
           b == "s.ctx"
           c == "s.owned"
           x == r["s.ssl"]
           y == r["s.ctx"]
           z == r["s.owned"]
<1> HIDE DEF a, b, c, x, y, z
<1>7. Clean(h, r, <<a, b, c>>, ((h \ {x}) \ {y}) \ {z})
  <2>1. Means(r, a) = x /\ Ready(h, r, a)
    BY <1>3 DEF a, x
  <2>2. Means(r, b) = y /\ Ready(h \ {x}, r, b)
    BY <1>4 DEF b, x, y
  <2>3. Means(r, c) = z /\ Ready((h \ {x}) \ {y}, r, c)
    BY <1>5 DEF c, x, y, z
  <2>4. a \in Names /\ b \in Names /\ c \in Names
    BY <1>6 DEF a, b, c
  <2> QED BY <2>1, <2>2, <2>3, <2>4, CleanMeant
<1> QED BY <1>7 DEF wcat_tls_close, a, b, c, x, y, z, TlsClosed

(* A listener whose parts, those it has, are held.                           *)
ListenerOpen(h, r) ==
    /\ r["l.listener"] \in {"", "listener_ssl"} /\ r["l.ctx"] \in {"", "ctx"} /\ r["l.fd"] \in {"", "listener"}
    /\ r["l.listener"] # "" => r["l.listener"] \in h /\ r["l.fd"] \in h
    /\ r["l.ctx"] # "" => r["l.ctx"] \in h
    /\ r["l.fd"] # "" => r["l.fd"] \in h
ListenerClosed(h, r) == ((h \ {r["l.listener"]}) \ {r["l.ctx"]}) \ {r["l.fd"]}

(* wcat_quic_listener_close does so for the listener.                      *)
LEMMA CleanListener ==
  ASSUME NEW h, NEW r, ListenerOpen(h, r)
  PROVE  Clean(h, r, wcat_quic_listener_close, ListenerClosed(h, r))
<1>1. "l.listener" \in Fields /\ "l.ctx" \in Fields /\ "l.fd" \in Fields
  BY DEF Fields
<1>2. {"ctx", "listener"} \subseteq Simple
  BY DEF Simple, Resources
<1>3. Means(r, "l.listener") = r["l.listener"] /\ Ready(h, r, "l.listener")
  BY <1>1, ReadySession DEF ListenerOpen
<1>4. Means(r, "l.ctx") = r["l.ctx"] /\ Ready(h \ {r["l.listener"]}, r, "l.ctx")
  <2>1. r["l.ctx"] \in Simple \cup {""} /\ (r["l.ctx"] # "" => r["l.ctx"] \in h \ {r["l.listener"]})
    BY <1>2 DEF ListenerOpen
  <2> QED BY <1>1, <2>1, ReadyField
<1>5. Means(r, "l.fd") = r["l.fd"] /\ Ready((h \ {r["l.listener"]}) \ {r["l.ctx"]}, r, "l.fd")
  <2>1. /\ r["l.fd"] \in Simple \cup {""}
        /\ r["l.fd"] # "" => r["l.fd"] \in (h \ {r["l.listener"]}) \ {r["l.ctx"]}
    BY <1>2 DEF ListenerOpen
  <2> QED BY <1>1, <2>1, ReadyField
<1>6. "l.listener" \in Names /\ "l.ctx" \in Names /\ "l.fd" \in Names
  BY <1>1 DEF Names
<1> DEFINE a == "l.listener"
           b == "l.ctx"
           c == "l.fd"
           x == r["l.listener"]
           y == r["l.ctx"]
           z == r["l.fd"]
<1> HIDE DEF a, b, c, x, y, z
<1>7. Clean(h, r, <<a, b, c>>, ((h \ {x}) \ {y}) \ {z})
  <2>1. Means(r, a) = x /\ Ready(h, r, a)
    BY <1>3 DEF a, x
  <2>2. Means(r, b) = y /\ Ready(h \ {x}, r, b)
    BY <1>4 DEF b, x, y
  <2>3. Means(r, c) = z /\ Ready((h \ {x}) \ {y}, r, c)
    BY <1>5 DEF c, x, y, z
  <2>4. a \in Names /\ b \in Names /\ c \in Names
    BY <1>6 DEF a, b, c
  <2> QED BY <2>1, <2>2, <2>3, <2>4, CleanMeant
<1> QED BY <1>7 DEF wcat_quic_listener_close, a, b, c, x, y, z, ListenerClosed

(* Two things in a row, the first of which is not in the rest.             *)
LEMMA CleanFirst ==
  ASSUME NEW g, NEW r, NEW x \in Simple, x \notin g, NEW undo \in Undo, NEW f, Clean(g, r, undo, f)
  PROVE  Clean(g \cup {x}, r, <<x>> \o undo, f)
<1>1. Clean(g \cup {x}, r, <<x>>, (g \cup {x}) \ {x})
  BY CleanResource
<1>2. (g \cup {x}) \ {x} = g
  OBVIOUS
<1>3. <<x>> \in Undo
  BY UndoTyped DEF Simple
<1>4. Clean(g \cup {x}, r, <<x>>, g)
  BY <1>1, <1>2
<1> QED BY <1>3, <1>4, CleanJoin

(* The end of such a row.                                                  *)
LEMMA CleanLast ==
  ASSUME NEW r, NEW x \in Simple
  PROVE  Clean({x}, r, <<x>>, {}) /\ <<x>> \in Undo
<1>1. Clean({x}, r, <<x>>, {x} \ {x})
  BY CleanResource
<1>2. {x} \ {x} = {}
  OBVIOUS
<1>3. <<x>> \in Undo
  BY UndoTyped DEF Simple
<1> QED BY <1>1, <1>2, <1>3

(* The loop over the addresses of a name: the list is freed, the           *)
(* descriptor is held.                                                     *)
LEMMA PartLoop ==
  ASSUME NEW e, NEW h, NEW r, NEW call, call \notin {"free", "store"}, NEW fd \in Resources, fd # "addrinfo",
         NEW undo \in Undo, Clean(h, r, undo, {}), "addrinfo" \notin h
  PROVE  /\ Part(e, h, r, AddressLoop(call, fd, "", undo), h \cup {fd}, r)
         /\ \A into \in Fields :
               Part(e, h, r, AddressLoop(call, fd, into, undo), h \cup {fd}, [r EXCEPT ![into] = fd])
<1> DEFINE h1 == h \cup {"addrinfo"}
           h2 == h1 \cup {fd}
           both == <<"addrinfo">> \o undo
<1>1. "addrinfo" \in Simple /\ "addrinfo" \in Resources
  BY DEF Simple, Resources
<1>2. Part(e, h, r, <<Step("getaddrinfo", "addrinfo", "", undo)>>, h1, r)
  BY <1>1, PartStep
<1>3. Clean(h1, r, both, {})
  BY <1>1, CleanFirst
<1>4. <<"addrinfo">> \in Undo /\ both \in Undo
  BY <1>1, UndoTyped
<1>5. /\ Part(e, h1, r, <<Step(call, fd, "", both)>>, h2, r)
      /\ \A into \in Fields : Part(e, h1, r, <<Step(call, fd, into, both)>>, h2, [r EXCEPT ![into] = fd])
  <2> HIDE DEF h1, both
  <2> QED BY <1>3, <1>4, PartStep
<1>6. h2 \ {"addrinfo"} = h \cup {fd} /\ "addrinfo" \in h2
  OBVIOUS
<1> HIDE DEF h1, h2, both
<1>7. ASSUME NEW q PROVE Part(e, h2, q, <<Free(<<"addrinfo">>)>>, h \cup {fd}, q)
  <2>1. Clean(h2, q, <<"addrinfo">>, h \cup {fd})
    BY <1>1, <1>6, CleanResource
  <2> QED BY <1>4, <2>1, PartFree
<1>8. Part(e, h, r, AddressLoop(call, fd, "", undo), h \cup {fd}, r)
  <2>1. Part(e, h, r, <<Step("getaddrinfo", "addrinfo", "", undo), Step(call, fd, "", both)>>, h2, r)
    BY <1>2, <1>5, PartTwo
  <2>2. Part(e, h2, r, <<Free(<<"addrinfo">>)>>, h \cup {fd}, r)
    BY <1>7
  <2> QED BY <2>1, <2>2, PartThree DEF AddressLoop, both
<1>9. ASSUME NEW into \in Fields
      PROVE  Part(e, h, r, AddressLoop(call, fd, into, undo), h \cup {fd}, [r EXCEPT ![into] = fd])
  <2> DEFINE q == [r EXCEPT ![into] = fd]
  <2>1. Part(e, h1, r, <<Step(call, fd, into, both)>>, h2, q)
    BY <1>5
  <2> HIDE DEF q
  <2>2. Part(e, h, r, <<Step("getaddrinfo", "addrinfo", "", undo), Step(call, fd, into, both)>>, h2, q)
    BY <1>2, <2>1, PartTwo
  <2>3. Part(e, h2, q, <<Free(<<"addrinfo">>)>>, h \cup {fd}, q)
    BY <1>7
  <2>4. Part(e, h, r, AddressLoop(call, fd, into, undo), h \cup {fd}, q)
    BY <2>2, <2>3, PartThree DEF AddressLoop, both
  <2> QED BY <2>4 DEF q
<1> QED BY <1>8, <1>9

(* A connection through a proxy or without one.                            *)
LEMMA PartProxyConnect ==
  ASSUME NEW e, NEW h, NEW r, NEW cfg, NEW undo \in Undo, Clean(h, r, undo, {}),
         "addrinfo" \notin h, "sock" \notin h
  PROVE  Part(e, h, r, wcat_proxy_connect(cfg, undo), h \cup {"sock"}, r)
<1>1. "sock" \in Simple /\ "sock" \in Resources
  BY DEF Simple, Resources
<1>2. Part(e, h, r, inet_connect("sock", "", undo), h \cup {"sock"}, r)
  BY <1>1, PartLoop DEF inet_connect
<1> DEFINE both == <<"sock">> \o undo
           g == h \cup {"sock"}
<1>3. Clean(g, r, both, {}) /\ both \in Undo
  BY <1>1, CleanFirst, UndoTyped
<1> HIDE DEF both, g
<1>4. Part(e, g, r, <<Check("negotiate", both)>>, g, r)
  BY <1>3, PartStep
<1>5. Part(e, g, r, When(cfg.proxy # "none", <<Check("negotiate", both)>>), g, r)
  BY <1>4, PartWhen
<1> QED BY <1>2, <1>5, PartJoin DEF wcat_proxy_connect, both, g

(* The socket of connect.                                                  *)
LEMMA PartConnectSocket ==
  ASSUME NEW e, NEW r, NEW cfg
  PROVE  Part(e, {}, r, connect_socket(cfg), {"sock"}, r)
<1>1. "sock" \in Resources /\ <<>> \in Undo /\ Clean({}, r, <<>>, {}) /\ {} \cup {"sock"} = {"sock"}
  <2>1. "sock" \in Resources /\ {} \cup {"sock"} = {"sock"}
    BY DEF Resources
  <2>2. <<>> \in Undo
    BY UndoTyped
  <2>3. Clean({}, r, <<>>, {})
    BY CleanNothing
  <2> QED BY <2>1, <2>2, <2>3
<1>2. Part(e, {}, r, AddressLoop("connect", "sock", "", <<>>), {"sock"}, r)
  BY <1>1, PartLoop
<1>3. ASSUME NEW call \in {"path", "cid", "proxy_parse"} PROVE Part(e, {}, r, <<Check(call, <<>>)>>, {}, r)
  BY <1>1, PartStep
<1>4. Part(e, {}, r, <<Step("connect_once", "sock", "", <<>>)>>, {"sock"}, r)
  <2>1. Part(e, {}, r, <<Step("connect_once", "sock", "", <<>>)>>, {} \cup {"sock"}, r)
    BY <1>1, PartStep
  <2> QED BY <1>1, <2>1
<1>5. Part(e, {}, r, wcat_unix_connect("sock", "", <<>>), {"sock"}, r)
  BY <1>3, <1>4, PartTwo DEF wcat_unix_connect
<1>6. Part(e, {}, r, wcat_vsock_connect("sock", "", <<>>), {"sock"}, r)
  BY <1>3, <1>4, PartTwo DEF wcat_vsock_connect
<1>7. Part(e, {}, r, wcat_proxy_connect(cfg, <<>>), {"sock"}, r)
  BY <1>1, PartProxyConnect
<1>8. Part(e, {}, r, <<Check("proxy_parse", <<>>)>> \o wcat_proxy_connect(cfg, <<>>), {"sock"}, r)
  BY <1>3, <1>7, PartJoin
<1>9. /\ Part(e, {}, r, wcat_udp_connect("sock", "", <<>>), {"sock"}, r)
      /\ Part(e, {}, r, inet_connect("sock", "", <<>>), {"sock"}, r)
  BY <1>2 DEF wcat_udp_connect, inet_connect
<1> QED BY <1>5, <1>6, <1>8, <1>9 DEF connect_socket

-----------------------------------------------------------------------------
(* Streams. A stream that owns fd, with its context and its session if it  *)
(* has them, beside the resources g.                                       *)
Stream(r, fd, ctx, ssl) ==
    r \in Refs /\ r["s.fd"] = fd /\ r["s.owned"] = fd /\ r["s.ctx"] = ctx /\ r["s.ssl"] = ssl

(* Closing it, and then the rest.                                          *)
LEMMA CleanStream ==
  ASSUME NEW h, NEW r, NEW fd \in {"sock", "client"}, NEW ctx \in {"", "ctx"}, NEW ssl \in {"", "ssl", "conn"},
         Stream(r, fd, ctx, ssl), NEW g, h = g \cup ({fd, ctx, ssl} \ {""}),
         fd \notin g, ctx \notin g, ssl \notin g, "" \notin g
  PROVE  /\ Clean(h, r, wcat_tls_close, g)
         /\ \A undo \in Undo : Clean(g, r, undo, {}) => Clean(h, r, wcat_tls_close \o undo, {})
<1>1. TlsOpen(h, r)
  BY DEF Stream, TlsOpen
<1>2. g = TlsClosed(h, r)
  BY DEF Stream, TlsClosed
<1>3. Clean(h, r, wcat_tls_close, TlsClosed(h, r))
  BY <1>1, CleanTls
<1>4. Clean(h, r, wcat_tls_close, g)
  BY <1>2, <1>3
<1> QED BY <1>4, UndoTyped, CleanJoin

(* stream_init.                                                            *)
LEMMA PartInit ==
  ASSUME NEW e, NEW h, NEW r \in Refs, NEW fd \in Resources
  PROVE  \E q : Part(e, h, r, stream_init(fd), h, q) /\ Stream(q, fd, r["s.ctx"], r["s.ssl"])
<1> DEFINE q1 == [r EXCEPT !["s.fd"] = fd]
           q2 == [q1 EXCEPT !["s.owned"] = fd]
<1>1. "s.fd" \in Fields /\ "s.owned" \in Fields /\ "s.ctx" \in Fields /\ "s.ssl" \in Fields
  BY DEF Fields
<1>2. Part(e, h, r, <<Store("s.fd", fd)>>, h, q1)
  BY <1>1, PartStore
<1>3. q1 \in Refs /\ q1["s.fd"] = fd /\ \A x \in Fields : x # "s.fd" => q1[x] = r[x]
  BY <1>1 DEF Refs
<1> HIDE DEF q1
<1>4. Part(e, h, q1, <<Store("s.owned", fd)>>, h, q2)
  BY <1>1, PartStore
<1>5. q2 \in Refs /\ q2["s.owned"] = fd /\ \A x \in Fields : x # "s.owned" => q2[x] = q1[x]
  BY <1>1, <1>3 DEF Refs
<1> HIDE DEF q2
<1>6. Part(e, h, r, stream_init(fd), h, q2)
  BY <1>2, <1>4, PartTwo DEF stream_init
<1>7. Stream(q2, fd, r["s.ctx"], r["s.ssl"])
  BY <1>1, <1>3, <1>5 DEF Stream
<1> QED BY <1>6, <1>7

(* The context and the session of a stream.                                *)
LEMMA StreamPut ==
  ASSUME NEW r, NEW fd, NEW ctx, NEW ssl, Stream(r, fd, ctx, ssl)
  PROVE  /\ Stream([r EXCEPT !["s.ctx"] = "ctx"], fd, "ctx", ssl)
         /\ \A x \in {"ssl", "conn"} : Stream([r EXCEPT !["s.ssl"] = x], fd, ctx, x)
<1>1. "s.fd" \in Fields /\ "s.owned" \in Fields /\ "s.ctx" \in Fields /\ "s.ssl" \in Fields
  BY DEF Fields
<1>2. "ctx" \in Resources \cup {""} /\ "ssl" \in Resources \cup {""} /\ "conn" \in Resources \cup {""}
  BY DEF Resources
<1>3. Stream([r EXCEPT !["s.ctx"] = "ctx"], fd, "ctx", ssl)
  <2> DEFINE q == [r EXCEPT !["s.ctx"] = "ctx"]
  <2>1. q \in Refs /\ q["s.ctx"] = "ctx" /\ \A x \in Fields : x # "s.ctx" => q[x] = r[x]
    BY <1>1, <1>2 DEF Stream, Refs
  <2> HIDE DEF q
  <2>2. Stream(q, fd, "ctx", ssl)
    BY <1>1, <2>1 DEF Stream
  <2> QED BY <2>2 DEF q
<1>4. ASSUME NEW y \in {"ssl", "conn"} PROVE Stream([r EXCEPT !["s.ssl"] = y], fd, ctx, y)
  <2> DEFINE q == [r EXCEPT !["s.ssl"] = y]
  <2>1. q \in Refs /\ q["s.ssl"] = y /\ \A x \in Fields : x # "s.ssl" => q[x] = r[x]
    BY <1>1, <1>2 DEF Stream, Refs
  <2> HIDE DEF q
  <2>2. Stream(q, fd, ctx, y)
    BY <1>1, <2>1 DEF Stream
  <2> QED BY <2>2 DEF q
<1> QED BY <1>3, <1>4

(* Everything that fails in wcat_tls_client_open and wcat_tls_server_open  *)
(* closes the stream and then releases the rest, g.                        *)
Failing(g, fd, undo, failed) ==
    /\ undo \in Undo /\ failed = wcat_tls_close \o undo /\ \A q \in Refs : Clean(g, q, undo, {})
    /\ fd \in {"sock", "client"} /\ g \cap {fd, "ctx", "ssl", ""} = {}
Beside(g, fd, ctx, ssl) == g \cup ({fd, ctx, ssl} \ {""})

(* wcat_tls_close and then the rest release all of it.                     *)
LEMMA CleanFailing ==
  ASSUME NEW g, NEW fd, NEW undo, NEW failed, Failing(g, fd, undo, failed),
         NEW r, NEW ctx \in {"", "ctx"}, NEW ssl \in {"", "ssl"}, Stream(r, fd, ctx, ssl),
         NEW h, h = Beside(g, fd, ctx, ssl)
  PROVE  failed \in Undo /\ Clean(h, r, failed, {})
<1>1. failed \in Undo
  BY UndoTyped DEF Failing
<1>2. r \in Refs
  BY DEF Stream
<1>3. ssl \in {"", "ssl", "conn"} /\ fd \in {"sock", "client"} /\ fd \notin g /\ ssl \notin g /\ ctx \notin g /\ "" \notin g
  BY DEF Failing
<1>4. undo \in Undo /\ Clean(g, r, undo, {}) /\ failed = wcat_tls_close \o undo
  BY <1>2 DEF Failing
<1>5. h = g \cup ({fd, ctx, ssl} \ {""})
  BY DEF Beside
<1>6. Clean(h, r, wcat_tls_close \o undo, {})
  BY <1>3, <1>4, <1>5, CleanStream
<1> QED BY <1>1, <1>4, <1>6

(* A check in them.                                                        *)
LEMMA PartTlsCheck ==
  ASSUME NEW e, NEW g, NEW fd, NEW undo, NEW failed, Failing(g, fd, undo, failed),
         NEW r, NEW ctx \in {"", "ctx"}, NEW ssl \in {"", "ssl"}, Stream(r, fd, ctx, ssl),
         NEW h, h = Beside(g, fd, ctx, ssl), NEW call, call \notin {"free", "store"}
  PROVE  Part(e, h, r, <<Check(call, failed)>>, h, r)
<1>1. failed \in Undo /\ Clean(h, r, failed, {})
  BY CleanFailing, ZenonT(40)
<1> QED BY <1>1, PartStep

(* The context of the stream.                                              *)
LEMMA PartTlsContext ==
  ASSUME NEW e, NEW g, NEW fd, NEW undo, NEW failed, Failing(g, fd, undo, failed),
         NEW r, Stream(r, fd, "", ""), NEW h, h = Beside(g, fd, "", ""), NEW h1, h1 = h \cup {"ctx"}
  PROVE  \E q : Part(e, h, r, <<Step("SSL_CTX_new", "ctx", "s.ctx", failed)>>, h1, q) /\ Stream(q, fd, "ctx", "")
<1>1. failed \in Undo /\ Clean(h, r, failed, {})
  BY CleanFailing
<1>2. "ctx" \in Resources /\ "s.ctx" \in Fields /\ "SSL_CTX_new" \notin {"free", "store"}
  BY DEF Resources, Fields
<1> DEFINE q == [r EXCEPT !["s.ctx"] = "ctx"]
<1>3. Part(e, h, r, <<Step("SSL_CTX_new", "ctx", "s.ctx", failed)>>, h1, q)
  BY <1>1, <1>2, PartStep
<1>4. Stream(q, fd, "ctx", "")
  BY StreamPut
<1> HIDE DEF q
<1> QED BY <1>3, <1>4

(* The session of the stream.                                              *)
LEMMA PartTlsSession ==
  ASSUME NEW e, NEW g, NEW fd, NEW undo, NEW failed, Failing(g, fd, undo, failed),
         NEW r, Stream(r, fd, "ctx", ""), NEW h, h = Beside(g, fd, "ctx", ""), NEW h1, h1 = h \cup {"ssl"}
  PROVE  \E q : Part(e, h, r, <<Step("SSL_new", "ssl", "s.ssl", failed)>>, h1, q) /\ Stream(q, fd, "ctx", "ssl")
<1>1. failed \in Undo /\ Clean(h, r, failed, {})
  BY CleanFailing
<1>2. "ssl" \in Resources /\ "s.ssl" \in Fields /\ "SSL_new" \notin {"free", "store"}
  BY DEF Resources, Fields
<1> DEFINE q == [r EXCEPT !["s.ssl"] = "ssl"]
<1>3. Part(e, h, r, <<Step("SSL_new", "ssl", "s.ssl", failed)>>, h1, q)
  BY <1>1, <1>2, PartStep
<1>4. Stream(q, fd, "ctx", "ssl")
  BY StreamPut
<1> HIDE DEF q
<1> QED BY <1>3, <1>4

(* wcat_tls_client_open, beside g.                                         *)
LEMMA PartTlsClient ==
  ASSUME NEW e, NEW cfg, NEW g, NEW fd, NEW undo, Failing(g, fd, undo, wcat_tls_close \o undo),
         NEW r \in Refs, r["s.ctx"] = "", r["s.ssl"] = ""
  PROVE  \E q : /\ Part(e, g \cup {fd}, r, wcat_tls_client_open(cfg, fd, undo), g \cup {fd, "ctx", "ssl"}, q)
                /\ Stream(q, fd, "ctx", "ssl")
<1> DEFINE failed == wcat_tls_close \o undo
           h0 == g \cup {fd}
           h1 == h0 \cup {"ctx"}
           h2 == h1 \cup {"ssl"}
<1>1. fd \in Resources /\ Failing(g, fd, undo, failed)
  BY DEF Resources, Failing
<1>2. /\ h0 = Beside(g, fd, "", "") /\ h1 = Beside(g, fd, "ctx", "")
      /\ h2 = Beside(g, fd, "ctx", "ssl") /\ h2 = g \cup {fd, "ctx", "ssl"}
      /\ h1 = h0 \cup {"ctx"} /\ h2 = h1 \cup {"ssl"}
  BY DEF Failing, Beside
<1> HIDE DEF h0, h1, h2, failed
<1>3. PICK r1 : Part(e, h0, r, stream_init(fd), h0, r1) /\ Stream(r1, fd, "", "")
  BY <1>1, PartInit
<1>4. PICK r2 : /\ Part(e, h0, r1, <<Step("SSL_CTX_new", "ctx", "s.ctx", failed)>>, h1, r2)
                /\ Stream(r2, fd, "ctx", "")
  BY <1>1, <1>2, <1>3, PartTlsContext
<1>5. \A call : call \notin {"free", "store"} => Part(e, h1, r2, <<Check(call, failed)>>, h1, r2)
  BY <1>1, <1>2, <1>4, PartTlsCheck
<1>6. PICK r3 : /\ Part(e, h1, r2, <<Step("SSL_new", "ssl", "s.ssl", failed)>>, h2, r3)
                /\ Stream(r3, fd, "ctx", "ssl")
  BY <1>1, <1>2, <1>4, PartTlsSession
<1>7. \A call : call \notin {"free", "store"} => Part(e, h2, r3, <<Check(call, failed)>>, h2, r3)
  BY <1>1, <1>2, <1>6, PartTlsCheck
<1> DEFINE s1 == stream_init(fd)
           s2 == <<Step("SSL_CTX_new", "ctx", "s.ctx", failed)>>
           s3 == When(cfg.tls_verify, <<Check("load_ca", failed)>>)
           s4 == When(cfg.client_cert, <<Check("use_certificate", failed)>>)
           s5 == <<Step("SSL_new", "ssl", "s.ssl", failed)>>
           s6 == When(cfg.tls_verify, <<Check("set1_host", failed)>>)
           s7 == <<Check("SSL_connect", failed)>>
           s8 == When(cfg.tls_verify, <<Check("verify_result", failed)>>)
<1>8. Part(e, h1, r2, s3, h1, r2) /\ Part(e, h1, r2, s4, h1, r2)
  BY <1>5, PartWhen
<1>9. Part(e, h2, r3, s6, h2, r3) /\ Part(e, h2, r3, s7, h2, r3) /\ Part(e, h2, r3, s8, h2, r3)
  BY <1>7, PartWhen
<1>10. wcat_tls_client_open(cfg, fd, undo) = s1 \o s2 \o s3 \o s4 \o s5 \o s6 \o s7 \o s8
  BY DEF wcat_tls_client_open, failed
<1>11. Part(e, h0, r, s1, h0, r1) /\ Part(e, h0, r1, s2, h1, r2) /\ Part(e, h1, r2, s5, h2, r3)
  BY <1>3, <1>4, <1>6
<1> HIDE DEF s1, s2, s3, s4, s5, s6, s7, s8
<1>12. Part(e, h0, r, s1 \o s2 \o s3 \o s4, h1, r2)
  BY <1>8, <1>11, PartJoin
<1>13. Part(e, h0, r, s1 \o s2 \o s3 \o s4 \o s5 \o s6, h2, r3)
  BY <1>9, <1>11, <1>12, PartJoin
<1>14. Part(e, h0, r, s1 \o s2 \o s3 \o s4 \o s5 \o s6 \o s7 \o s8, h2, r3)
  BY <1>9, <1>13, PartJoin
<1> QED BY <1>2, <1>6, <1>10, <1>14 DEF h0

(* wcat_tls_server_open, beside g.                                         *)
LEMMA PartTlsServer ==
  ASSUME NEW e, NEW cfg, NEW g, NEW fd, NEW undo, Failing(g, fd, undo, wcat_tls_close \o undo),
         NEW r \in Refs, r["s.ctx"] = "", r["s.ssl"] = ""
  PROVE  \E q : /\ Part(e, g \cup {fd}, r, wcat_tls_server_open(cfg, fd, undo), g \cup {fd, "ctx", "ssl"}, q)
                /\ Stream(q, fd, "ctx", "ssl")
<1> DEFINE failed == wcat_tls_close \o undo
           h0 == g \cup {fd}
           h1 == h0 \cup {"ctx"}
           h2 == h1 \cup {"ssl"}
<1>1. fd \in Resources /\ Failing(g, fd, undo, failed)
  BY DEF Resources, Failing
<1>2. /\ h0 = Beside(g, fd, "", "") /\ h1 = Beside(g, fd, "ctx", "")
      /\ h2 = Beside(g, fd, "ctx", "ssl") /\ h2 = g \cup {fd, "ctx", "ssl"}
      /\ h1 = h0 \cup {"ctx"} /\ h2 = h1 \cup {"ssl"}
  BY DEF Failing, Beside
<1> HIDE DEF h0, h1, h2, failed
<1>3. PICK r1 : Part(e, h0, r, stream_init(fd), h0, r1) /\ Stream(r1, fd, "", "")
  BY <1>1, PartInit
<1>4. PICK r2 : /\ Part(e, h0, r1, <<Step("SSL_CTX_new", "ctx", "s.ctx", failed)>>, h1, r2)
                /\ Stream(r2, fd, "ctx", "")
  BY <1>1, <1>2, <1>3, PartTlsContext
<1>5. /\ Part(e, h0, r1, <<Check("cert and key given", failed)>>, h0, r1)
      /\ \A call : call \notin {"free", "store"} => Part(e, h1, r2, <<Check(call, failed)>>, h1, r2)
  <2>1. \A call : call \notin {"free", "store"} => Part(e, h0, r1, <<Check(call, failed)>>, h0, r1)
    BY <1>1, <1>2, <1>3, PartTlsCheck
  <2>2. \A call : call \notin {"free", "store"} => Part(e, h1, r2, <<Check(call, failed)>>, h1, r2)
    BY <1>1, <1>2, <1>4, PartTlsCheck
  <2> QED BY <2>1, <2>2
<1>6. PICK r3 : /\ Part(e, h1, r2, <<Step("SSL_new", "ssl", "s.ssl", failed)>>, h2, r3)
                /\ Stream(r3, fd, "ctx", "ssl")
  BY <1>1, <1>2, <1>4, PartTlsSession
<1>7. \A call : call \notin {"free", "store"} => Part(e, h2, r3, <<Check(call, failed)>>, h2, r3)
  BY <1>1, <1>2, <1>6, PartTlsCheck
<1> DEFINE s1 == stream_init(fd)
           a == Check("cert and key given", failed)
           b == Step("SSL_CTX_new", "ctx", "s.ctx", failed)
           c == Check("use_certificate", failed)
           s3 == When(cfg.tls_require_client_cert, <<Check("load_ca", failed)>>)
           m == Step("SSL_new", "ssl", "s.ssl", failed)
           n == Check("SSL_accept", failed)
           s5 == When(cfg.tls_require_client_cert, <<Check("verify_result", failed)>>)
<1>8. Part(e, h1, r2, s3, h1, r2) /\ Part(e, h1, r2, <<c>>, h1, r2)
  BY <1>5, PartWhen
<1>9. Part(e, h2, r3, s5, h2, r3) /\ Part(e, h2, r3, <<n>>, h2, r3)
  BY <1>7, PartWhen
<1>10. wcat_tls_server_open(cfg, fd, undo) = s1 \o <<a, b, c>> \o s3 \o <<m, n>> \o s5
  BY DEF wcat_tls_server_open, failed
<1>11. Part(e, h0, r, s1, h0, r1) /\ Part(e, h0, r1, <<a>>, h0, r1) /\ Part(e, h0, r1, <<b>>, h1, r2)
  BY <1>3, <1>4, <1>5
<1>12. Part(e, h1, r2, <<m>>, h2, r3)
  BY <1>6
<1> HIDE DEF s1, a, b, c, s3, m, n, s5
<1>13. Part(e, h0, r1, <<a, b>>, h1, r2)
  BY <1>11, PartTwo
<1>14. Part(e, h0, r1, <<a, b, c>>, h1, r2)
  BY <1>8, <1>13, PartThree
<1>15. Part(e, h1, r2, <<m, n>>, h2, r3)
  BY <1>9, <1>12, PartTwo
<1> DEFINE s2 == <<a, b, c>>
           s4 == <<m, n>>
<1> HIDE DEF s2, s4
<1>16. Part(e, h0, r1, s2, h1, r2) /\ Part(e, h1, r2, s4, h2, r3)
  BY <1>14, <1>15 DEF s2, s4
<1>17. Part(e, h0, r, s1 \o s2 \o s3, h1, r2)
  BY <1>8, <1>11, <1>16, PartJoin
<1>18. Part(e, h0, r, s1 \o s2 \o s3 \o s4 \o s5, h2, r3)
  BY <1>9, <1>16, <1>17, PartJoin
<1> QED BY <1>2, <1>6, <1>10, <1>18 DEF h0, s2, s4

-----------------------------------------------------------------------------
(* The commands, from nothing held to nothing held.                        *)

(* A process that is started or not, and is waited for first or not at all.*)
LEMMA CleanChild ==
  ASSUME NEW r, NEW exec, NEW h, "child" \notin h, NEW rest \in Undo, Clean(h, r, rest, {}),
         NEW child, child = IF exec THEN <<"child">> ELSE <<>>,
         NEW k, k = IF exec THEN h \cup {"child"} ELSE h
  PROVE  child \in Undo /\ Clean(k, r, child \o rest, {})
<1>1. "child" \in Simple
  BY DEF Simple, Resources
<1>2. child \in Undo
  BY <1>1, UndoTyped DEF Simple
<1>3. CASE exec
  <2>1. child = <<"child">> /\ k = h \cup {"child"}
    BY <1>3
  <2> QED BY <1>1, <1>2, <2>1, CleanFirst
<1>4. CASE ~exec
  <2>1. child = <<>> /\ k = h
    BY <1>4
  <2>2. child \o rest = rest
    BY <2>1 DEF Undo
  <2> QED BY <1>2, <2>1, <2>2
<1> QED BY <1>3, <1>4

(* The process alone.                                                      *)
LEMMA CleanOnlyChild ==
  ASSUME NEW r, NEW exec, NEW child, child = IF exec THEN <<"child">> ELSE <<>>,
         NEW k, k = IF exec THEN {"child"} ELSE {}
  PROVE  Clean(k, r, child, {})
<1>1. "child" \in Simple
  BY DEF Simple, Resources
<1> QED BY <1>1, CleanLast, CleanNothing

(* connect: the relay with a process or standard input and output.         *)
LEMMA PartRelayPeer ==
  ASSUME NEW cfg, NEW r \in Refs, r["s.ctx"] = "", r["s.ssl"] = ""
  PROVE  \E g, q : Part(TRUE, {"sock"}, r, relay_peer(cfg), g, q)
<1> DEFINE child == IF cfg.exec THEN <<"child">> ELSE <<>>
           k == IF cfg.exec THEN {"child"} ELSE {}
           h == k \cup {"sock"}
           close == IF cfg.tls THEN wcat_tls_close ELSE <<"sock">>
           s1 == When(cfg.exec, <<Step("spawn", "child", "", <<>>)>>)
           s2 == When(cfg.tls, wcat_tls_client_open(cfg, "sock", child))
           s3 == <<Check("relay", child \o close)>>
<1>1. "child" \in Simple /\ "sock" \in Simple /\ "child" \in Resources /\ "sock" \in Resources
  BY DEF Simple, Resources
<1>2. relay_peer(cfg) = s1 \o s2 \o s3
  BY DEF relay_peer
<1>3. Part(TRUE, {"sock"}, r, s1, h, r)
  <2> DEFINE s == Step("spawn", "child", "", <<>>)
  <2>1. Part(TRUE, {"sock"}, r, <<s>>, {"child", "sock"}, r)
    <3>1. Clean({"sock"}, r, <<>>, {"sock"})
      BY CleanNothing
    <3>2. Sound(TRUE, {"sock"}, r, s)
      BY <3>1 DEF Sound, Step
    <3>3. HeldAfter({"sock"}, r, s) = {"child", "sock"} /\ RefAfter(r, s) = r
      BY DEF HeldAfter, RefAfter, Step
    <3>4. IsSteps(<<s>>, FALSE)
      <4>1. IsStep(s, FALSE)
        BY <1>1, OtherStepTyped, UndoTyped
      <4> HIDE DEF s
      <4> QED BY <4>1, PiecesJoin
    <3> HIDE DEF s
    <3>5. Runs(TRUE, {"sock"}, r, <<s>>, {"child", "sock"}, r)
      BY <3>2, <3>3, RunsOne
    <3> QED BY <3>4, <3>5 DEF Part
  <2>2. CASE cfg.exec
    <3>1. h = {"child", "sock"}
      BY <2>2
    <3> QED BY <2>1, <2>2, <3>1 DEF When
  <2>3. CASE ~cfg.exec
    <3>1. h = {"sock"}
      BY <2>3
    <3> QED BY <2>3, <3>1, PartNothing DEF When
  <2> QED BY <2>2, <2>3
<1>4. \A q : Clean(k, q, child, {})
  BY CleanOnlyChild
<1>5. child \in Undo /\ close \in Undo
  BY <1>1, UndoTyped
<1>6. Failing(k, "sock", child, wcat_tls_close \o child)
  BY <1>4, <1>5 DEF Failing
<1>7. CASE cfg.tls
  <2> DEFINE j == k \cup {"sock", "ctx", "ssl"}
             i == Beside({}, "sock", "ctx", "ssl")
  <2>1. \E q : Part(TRUE, h, r, wcat_tls_client_open(cfg, "sock", child), j, q) /\ Stream(q, "sock", "ctx", "ssl")
    <3> HIDE DEF k, child
    <3> QED BY <1>6, PartTlsClient
  <2>2. PICK q : Part(TRUE, h, r, s2, j, q) /\ Stream(q, "sock", "ctx", "ssl")
    BY <1>7, <2>1 DEF When
  <2>3. j = (IF cfg.exec THEN i \cup {"child"} ELSE i) /\ "child" \notin i
    BY DEF Beside
  <2>4. Clean(i, q, wcat_tls_close, {})
    BY <2>2, CleanStream DEF Beside
  <2>5. wcat_tls_close \in Undo /\ close = wcat_tls_close
    BY <1>7, UndoTyped
  <2>6. Clean(j, q, child \o close, {})
    <3> HIDE DEF i, j, close
    <3> QED BY <2>3, <2>4, <2>5, CleanChild
  <2>7. Part(TRUE, j, q, s3, j, q)
    <3>1. child \o close \in Undo
      BY <1>5, UndoTyped
    <3> HIDE DEF child, close, j
    <3> QED BY <2>6, <3>1, PartStep
  <2> HIDE DEF s1, s2, s3, h, j
  <2>8. Part(TRUE, {"sock"}, r, s1 \o s2 \o s3, j, q)
    BY <1>3, <2>2, <2>7, PartJoin
  <2> QED BY <1>2, <2>8
<1>8. CASE ~cfg.tls
  <2>1. s2 = <<>> /\ close = <<"sock">>
    BY <1>8 DEF When
  <2>2. Part(TRUE, h, r, s2, h, r)
    BY <2>1, PartNothing
  <2>3. Clean({"sock"}, r, <<"sock">>, {}) /\ <<"sock">> \in Undo
    BY <1>1, CleanLast
  <2>4. h = (IF cfg.exec THEN {"sock"} \cup {"child"} ELSE {"sock"}) /\ "child" \notin {"sock"}
    OBVIOUS
  <2>5. Clean(h, r, child \o close, {})
    <3> HIDE DEF h, close
    <3> QED BY <2>1, <2>3, <2>4, CleanChild
  <2>6. Part(TRUE, h, r, s3, h, r)
    <3>1. child \o close \in Undo
      BY <1>5, UndoTyped
    <3> HIDE DEF child, close, h
    <3> QED BY <2>5, <3>1, PartStep
  <2> HIDE DEF s1, s2, s3, h
  <2>7. Part(TRUE, {"sock"}, r, s1 \o s2 \o s3, h, r)
    BY <1>3, <2>2, <2>6, PartJoin
  <2> QED BY <1>2, <2>7
<1> QED BY <1>7, <1>8

(* Three elements, taken apart the other way.                              *)
LEMMA ThreeApart ==
  ASSUME NEW a, NEW b, NEW c
  PROVE  <<a, b, c>> = <<a>> \o <<b, c>>
<1> DEFINE S == {a, b, c}
           x == <<a>>
           y == <<b>>
           z == <<c>>
           xy == <<a, b>>
           yz == <<b, c>>
           xyz == <<a, b, c>>
<1>1. x \in Seq(S) /\ y \in Seq(S) /\ z \in Seq(S)
  <2>1. a \in S /\ b \in S /\ c \in S
    OBVIOUS
  <2> HIDE DEF S
  <2> QED BY <2>1
<1>2. xy = x \o y
  BY TwoIs, Zenon
<1>3. yz = y \o z
  BY TwoIs, Zenon
<1>4. xyz = xy \o z
  BY ThreeIs, Zenon
<1> HIDE DEF S, x, y, z, xy, yz, xyz
<1>5. x \o (y \o z) = (x \o y) \o z
  BY <1>1, Associative
<1>6. xyz = x \o yz
  BY <1>2, <1>3, <1>4, <1>5, Zenon
<1> QED BY <1>6 DEF x, yz, xyz

(* connect without QUIC.                                                   *)
LEMMA PartRunConnect ==
  ASSUME NEW cfg, NEW r \in Refs, r["s.ctx"] = "", r["s.ssl"] = ""
  PROVE  \E g, q : Part(TRUE, {}, r, run_connect(cfg), g, q)
<1>1. Part(TRUE, {}, r, connect_socket(cfg), {"sock"}, r)
  BY PartConnectSocket
<1>2. PICK g, q : Part(TRUE, {"sock"}, r, relay_peer(cfg), g, q)
  BY PartRelayPeer
<1>3. Part(TRUE, {}, r, connect_socket(cfg) \o relay_peer(cfg), g, q)
  BY <1>1, <1>2, PartJoin
<1> QED BY <1>3 DEF run_connect

(* send.                                                                   *)
LEMMA PartSend ==
  ASSUME NEW e, NEW cfg, NEW r \in Refs, r["s.ctx"] = "", r["s.ssl"] = ""
  PROVE  \E g, q : Part(e, {}, r, wcat_send_file(cfg), g, q)
<1> DEFINE close == IF cfg.tls THEN wcat_tls_close ELSE <<"sock">>
           f == {"file"}
           h == {"file", "sock"}
           s1 == <<Step("open", "file", "", <<>>), Check("proxy_parse", <<"file">>)>>
           s2 == wcat_proxy_connect(cfg, <<"file">>)
           s3 == When(cfg.tls, wcat_tls_client_open(cfg, "sock", <<"file">>))
           s4 == <<Check("copy", close \o <<"file">>)>>
<1>1. "file" \in Simple /\ "sock" \in Simple /\ "file" \in Resources
  BY DEF Simple, Resources
<1>2. wcat_send_file(cfg) = s1 \o s2 \o s3 \o s4
  BY DEF wcat_send_file
<1>3. <<"file">> \in Undo /\ \A q : Clean(f, q, <<"file">>, {})
  BY <1>1, CleanLast
<1>4. Part(e, {}, r, s1, f, r)
  <2>1. Part(e, {}, r, <<Step("open", "file", "", <<>>)>>, {} \cup {"file"}, r)
    BY <1>1, CleanNothing, UndoTyped, PartStep
  <2>2. {} \cup {"file"} = f
    OBVIOUS
  <2> HIDE DEF f
  <2>3. Part(e, f, r, <<Check("proxy_parse", <<"file">>)>>, f, r)
    BY <1>3, PartStep
  <2> QED BY <2>1, <2>2, <2>3, PartTwo
<1>5. Part(e, f, r, s2, h, r)
  <2>1. f \cup {"sock"} = h /\ "addrinfo" \notin f /\ "sock" \notin f
    OBVIOUS
  <2> HIDE DEF f, h
  <2> QED BY <1>3, <2>1, PartProxyConnect
<1>6. close \in Undo
  BY <1>1, UndoTyped DEF Simple
<1>7. ASSUME NEW k, NEW q, Clean(k, q, close, f) PROVE Part(e, k, q, s4, k, q)
  <2> HIDE DEF close, f
  <2>1. Clean(k, q, close \o <<"file">>, {})
    BY <1>3, <1>6, <1>7, CleanJoin
  <2>2. close \o <<"file">> \in Undo
    BY <1>3, <1>6, UndoTyped
  <2> QED BY <2>1, <2>2, PartStep
<1>8. CASE cfg.tls
  <2>1. Failing(f, "sock", <<"file">>, wcat_tls_close \o <<"file">>)
    BY <1>3 DEF Failing
  <2> DEFINE j == f \cup {"sock", "ctx", "ssl"}
  <2>2. h = f \cup {"sock"} /\ j = f \cup ({"sock", "ctx", "ssl"} \ {""}) /\ f \cap {"sock", "ctx", "ssl", ""} = {}
    OBVIOUS
  <2> HIDE DEF f, h
  <2>3. PICK q : Part(e, h, r, s3, j, q) /\ Stream(q, "sock", "ctx", "ssl")
    BY <1>8, <2>1, <2>2, PartTlsClient DEF When
  <2>4. Clean(j, q, close, f)
    BY <1>8, <2>2, <2>3, CleanStream
  <2>5. Part(e, j, q, s4, j, q)
    BY <1>7, <2>4
  <2> HIDE DEF s1, s2, s3, s4, j
  <2>6. Part(e, {}, r, s1 \o s2 \o s3 \o s4, j, q)
    BY <1>4, <1>5, <2>3, <2>5, PartJoin
  <2> QED BY <1>2, <2>6
<1>9. CASE ~cfg.tls
  <2>1. s3 = <<>> /\ close = <<"sock">>
    BY <1>9 DEF When
  <2>2. Part(e, h, r, s3, h, r)
    BY <2>1, PartNothing
  <2>3. Clean(h, r, <<"sock">>, h \ {"sock"}) /\ h \ {"sock"} = f
    BY <1>1, CleanResource
  <2>4. Clean(h, r, close, f)
    BY <2>1, <2>3
  <2>5. Part(e, h, r, s4, h, r)
    BY <1>7, <2>4
  <2> HIDE DEF s1, s2, s3, s4, h, f
  <2>6. Part(e, {}, r, s1 \o s2 \o s3 \o s4, h, r)
    BY <1>4, <1>5, <2>2, <2>5, PartJoin
  <2> QED BY <1>2, <2>6
<1> QED BY <1>8, <1>9

(* recv.                                                                   *)
LEMMA PartRecv ==
  ASSUME NEW e, NEW cfg, NEW r \in Refs, r["s.ctx"] = "", r["s.ssl"] = ""
  PROVE  \E g, q : Part(e, {}, r, wcat_recv_file(cfg), g, q)
<1> DEFINE close == IF cfg.tls THEN wcat_tls_close ELSE <<"client">>
           rest == <<"listener", "file">>
           f == {"file"}
           l == {"file", "listener"}
           h == {"file", "listener", "client"}
           s1 == <<Step("open", "file", "", <<>>)>>
           s2 == inet_listen("listener", "", <<"file">>)
           s3 == <<Step("accept", "client", "", rest), Check("access", <<"client", "listener", "file">>)>>
           s4 == When(cfg.tls, wcat_tls_server_open(cfg, "client", rest))
           s5 == <<Check("copy", close \o rest)>>
<1>1. {"file", "listener", "client"} \subseteq Simple /\ {"file", "listener", "client"} \subseteq Resources
  BY DEF Simple, Resources
<1>2. wcat_recv_file(cfg) = s1 \o s2 \o s3 \o s4 \o s5
  BY DEF wcat_recv_file
<1>3. <<"file">> \in Undo /\ \A q : Clean(f, q, <<"file">>, {})
  BY <1>1, CleanLast
<1>4. rest \in Undo /\ \A q : Clean(l, q, rest, {})
  <2>1. rest \in Undo
    BY <1>1, UndoTyped
  <2>2. rest = <<"listener">> \o <<"file">>
    BY TwoIs, Zenon
  <2>3. f \cup {"listener"} = l /\ "listener" \notin f
    OBVIOUS
  <2> HIDE DEF f, l, rest
  <2> QED BY <1>1, <1>3, <2>1, <2>2, <2>3, CleanFirst
<1>5. <<"client", "listener", "file">> \in Undo /\ \A q : Clean(h, q, <<"client", "listener", "file">>, {})
  <2> DEFINE all == <<"client", "listener", "file">>
  <2>1. all \in Undo
    BY <1>1, UndoTyped
  <2>2. all = <<"client">> \o rest
    BY ThreeApart, Zenon
  <2>3. l \cup {"client"} = h /\ "client" \notin l
    OBVIOUS
  <2> HIDE DEF h, l, rest, all
  <2>4. \A q : Clean(h, q, all, {})
    BY <1>1, <1>4, <2>1, <2>2, <2>3, CleanFirst
  <2> QED BY <2>1, <2>4 DEF all
<1>6. Part(e, {}, r, s1, f, r)
  <2>1. Part(e, {}, r, <<Step("open", "file", "", <<>>)>>, {} \cup {"file"}, r)
    BY <1>1, CleanNothing, UndoTyped, PartStep
  <2>2. {} \cup {"file"} = f
    OBVIOUS
  <2> QED BY <2>1, <2>2
<1>7. Part(e, f, r, s2, l, r)
  <2>1. f \cup {"listener"} = l /\ "addrinfo" \notin f
    OBVIOUS
  <2> HIDE DEF f, l
  <2> QED BY <1>1, <1>3, <2>1, PartLoop DEF inet_listen
<1>8. Part(e, l, r, s3, h, r)
  <2>1. l \cup {"client"} = h
    OBVIOUS
  <2> DEFINE all == <<"client", "listener", "file">>
  <2>2. all \in Undo /\ \A q : Clean(h, q, all, {})
    BY <1>5
  <2> HIDE DEF l, h, rest, all
  <2>3. Part(e, l, r, <<Step("accept", "client", "", rest)>>, h, r)
    BY <1>1, <1>4, <2>1, PartStep
  <2>4. Part(e, h, r, <<Check("access", all)>>, h, r)
    BY <2>2, PartStep
  <2> QED BY <2>3, <2>4, PartTwo DEF all
<1>9. close \in Undo
  BY <1>1, UndoTyped
<1>10. ASSUME NEW k, NEW q, Clean(k, q, close, l) PROVE Part(e, k, q, s5, k, q)
  <2> HIDE DEF close, l, rest
  <2>1. Clean(k, q, close \o rest, {})
    BY <1>4, <1>9, <1>10, CleanJoin
  <2>2. close \o rest \in Undo
    BY <1>4, <1>9, UndoTyped
  <2> QED BY <2>1, <2>2, PartStep
<1>11. CASE cfg.tls
  <2>1. Failing(l, "client", rest, wcat_tls_close \o rest)
    BY <1>4 DEF Failing
  <2> DEFINE j == l \cup {"client", "ctx", "ssl"}
  <2>2. h = l \cup {"client"} /\ j = l \cup ({"client", "ctx", "ssl"} \ {""}) /\ l \cap {"client", "ctx", "ssl", ""} = {}
    OBVIOUS
  <2> HIDE DEF l, h, rest
  <2>3. PICK q : Part(e, h, r, s4, j, q) /\ Stream(q, "client", "ctx", "ssl")
    BY <1>11, <2>1, <2>2, PartTlsServer DEF When
  <2>4. Clean(j, q, close, l)
    BY <1>11, <2>2, <2>3, CleanStream
  <2>5. Part(e, j, q, s5, j, q)
    BY <1>10, <2>4
  <2> HIDE DEF s1, s2, s3, s4, s5, j, f
  <2>6. Part(e, {}, r, s1 \o s2 \o s3, h, r)
    BY <1>6, <1>7, <1>8, PartJoin
  <2>7. Part(e, {}, r, s1 \o s2 \o s3 \o s4 \o s5, j, q)
    BY <2>3, <2>5, <2>6, PartJoin
  <2> QED BY <1>2, <2>7
<1>12. CASE ~cfg.tls
  <2>1. s4 = <<>> /\ close = <<"client">>
    BY <1>12 DEF When
  <2>2. Part(e, h, r, s4, h, r)
    BY <2>1, PartNothing
  <2>3. Clean(h, r, <<"client">>, h \ {"client"}) /\ h \ {"client"} = l
    BY <1>1, CleanResource
  <2>4. Clean(h, r, close, l)
    BY <2>1, <2>3
  <2>5. Part(e, h, r, s5, h, r)
    BY <1>10, <2>4
  <2> HIDE DEF s1, s2, s3, s4, s5, h, f, l
  <2>6. Part(e, {}, r, s1 \o s2 \o s3, h, r)
    BY <1>6, <1>7, <1>8, PartJoin
  <2>7. Part(e, {}, r, s1 \o s2 \o s3 \o s4 \o s5, h, r)
    BY <2>2, <2>5, <2>6, PartJoin
  <2> QED BY <1>2, <2>7
<1> QED BY <1>11, <1>12

(* The relay over QUIC, with a process or without.                         *)
LEMMA PartServeQuic ==
  ASSUME NEW e, NEW cfg, NEW h, NEW r, NEW undo \in Undo, Clean(h, r, wcat_tls_close \o undo, {}), "child" \notin h
  PROVE  \E g : Part(e, h, r, serve_quic_stream(cfg, undo), g, r)
<1> DEFINE child == IF cfg.exec THEN <<"child">> ELSE <<>>
           rest == wcat_tls_close \o undo
           k == IF cfg.exec THEN h \cup {"child"} ELSE h
           s1 == When(cfg.exec, <<Step("spawn", "child", "", rest)>>)
           s2 == <<Check("relay", child \o rest)>>
<1>1. "child" \in Resources /\ wcat_tls_close \in Undo /\ rest \in Undo
  BY UndoTyped DEF Resources
<1>2. child \in Undo /\ Clean(k, r, child \o rest, {})
  BY <1>1, CleanChild
<1>3. child \o wcat_tls_close \o undo = child \o rest
  <2> HIDE DEF child
  <2> QED BY <1>1, <1>2, Associative DEF Undo
<1>4. serve_quic_stream(cfg, undo) = s1 \o s2
  BY <1>3 DEF serve_quic_stream
<1>5. child \o rest \in Undo
  BY <1>1, <1>2, UndoTyped
<1> HIDE DEF rest
<1>6. Part(e, h, r, <<Step("spawn", "child", "", rest)>>, h \cup {"child"}, r)
  <2>1. Clean(h, r, rest, {})
    BY DEF rest
  <2> QED BY <1>1, <2>1, PartStep
<1>7. Part(e, h, r, s1, k, r)
  BY <1>6, PartNothing DEF When
<1>8. Part(e, k, r, s2, k, r)
  <2> HIDE DEF child, k
  <2> QED BY <1>2, <1>5, PartStep
<1> HIDE DEF s1, s2, k
<1>9. Part(e, h, r, s1 \o s2, k, r)
  BY <1>7, <1>8, PartJoin
<1> QED BY <1>4, <1>9

(* What wcat_quic_client_open has before it has a stream, and what is      *)
(* released then.                                                          *)
Bare(r, ctx) == r \in Refs /\ r["s.fd"] = "" /\ r["s.owned"] = "" /\ r["s.ctx"] = ctx /\ r["s.ssl"] = ""

(* wcat_tls_close releases it.                                             *)
LEMMA CleanBare ==
  ASSUME NEW r, NEW ctx \in {"", "ctx"}, Bare(r, ctx)
  PROVE  Clean({ctx} \ {""}, r, wcat_tls_close, {})
<1> DEFINE h == {ctx} \ {""}
<1>1. TlsOpen(h, r)
  BY DEF TlsOpen, Bare
<1>2. TlsClosed(h, r) = {}
  BY DEF TlsClosed, Bare
<1> HIDE DEF h
<1>3. Clean(h, r, wcat_tls_close, {})
  BY <1>1, <1>2, CleanTls
<1> QED BY <1>3 DEF h

(* The context.                                                            *)
LEMMA PartQuicContext ==
  ASSUME NEW e, NEW r, Bare(r, ""), NEW c, c = {"ctx"}
  PROVE  \E q : /\ Part(e, {}, r, <<Step("SSL_CTX_new", "ctx", "s.ctx", wcat_tls_close)>>, c, q)
                /\ Bare(q, "ctx")
<1>1. {""} \ {""} = {} /\ {} \cup {"ctx"} = {"ctx"} /\ wcat_tls_close \in Undo
  BY UndoTyped
<1>2. Clean({}, r, wcat_tls_close, {})
  BY <1>1, CleanBare
<1> DEFINE q == [r EXCEPT !["s.ctx"] = "ctx"]
<1>3. "ctx" \in Resources /\ "s.ctx" \in Fields
  BY DEF Resources, Fields
<1>4. Part(e, {}, r, <<Step("SSL_CTX_new", "ctx", "s.ctx", wcat_tls_close)>>, {} \cup {"ctx"}, q)
  BY <1>1, <1>2, <1>3, PartStep
<1>5. Part(e, {}, r, <<Step("SSL_CTX_new", "ctx", "s.ctx", wcat_tls_close)>>, c, q)
  BY <1>1, <1>4
<1>6. Bare(q, "ctx")
  BY <1>3 DEF Bare, Refs, Fields
<1> HIDE DEF q
<1> QED BY <1>5, <1>6

(* The socket of a QUIC client and the address of its peer.                *)
LEMMA PartUdpPeer ==
  ASSUME NEW e, NEW h, NEW r, NEW undo \in Undo, Clean(h, r, undo, {}), h \cap {"addrinfo", "sock", "peer_addr"} = {}
  PROVE  Part(e, h, r, open_udp_peer(undo), h \cup {"sock", "peer_addr"}, r)
<1> DEFINE h1 == h \cup {"addrinfo"}
           h2 == h1 \cup {"sock"}
           h3 == h2 \cup {"peer_addr"}
           u1 == <<"addrinfo">> \o undo
           u2 == <<"sock", "addrinfo">> \o undo
           a == Step("BIO_lookup_ex", "addrinfo", "", undo)
           b == Step("connect", "sock", "", u1)
           c == Step("BIO_ADDR_dup", "peer_addr", "", u2)
           d == Free(<<"addrinfo">>)
<1>1. {"addrinfo", "sock"} \subseteq Simple /\ {"addrinfo", "sock", "peer_addr"} \subseteq Resources
  BY DEF Simple, Resources
<1>2. "addrinfo" \notin h /\ "sock" \notin h1 /\ h3 \ {"addrinfo"} = h \cup {"sock", "peer_addr"} /\ "addrinfo" \in h3
  OBVIOUS
<1>3. Part(e, h, r, <<a>>, h1, r)
  BY <1>1, PartStep
<1>4. Clean(h1, r, u1, {}) /\ u1 \in Undo /\ <<"addrinfo">> \in Undo
  BY <1>1, <1>2, CleanFirst, UndoTyped
<1>5. u2 = <<"sock">> \o u1
  <2> DEFINE x == "sock"
             y == "addrinfo"
  <2>1. <<x>> \in Undo /\ <<y>> \in Undo
    BY <1>1, UndoTyped
  <2> HIDE DEF x, y
  <2>2. <<x, y>> = <<x>> \o <<y>>
    BY TwoIs, Zenon
  <2> DEFINE p == <<x>>
             q == <<y>>
  <2> HIDE DEF p, q
  <2>3. p \o (q \o undo) = (p \o q) \o undo
    BY <2>1, Associative DEF Undo, p, q
  <2>4. <<x, y>> \o undo = <<x>> \o (<<y>> \o undo)
    BY <2>2, <2>3, Zenon DEF p, q
  <2> QED BY <2>4 DEF x, y
<1> HIDE DEF h1, h2, h3, u1, u2
<1>6. Part(e, h1, r, <<b>>, h2, r)
  BY <1>1, <1>4, PartStep DEF h2
<1>7. Clean(h2, r, u2, {}) /\ u2 \in Undo
  <2>1. Clean(h1 \cup {"sock"}, r, <<"sock">> \o u1, {}) /\ <<"sock">> \o u1 \in Undo
    BY <1>1, <1>2, <1>4, CleanFirst, UndoTyped
  <2> QED BY <1>5, <2>1 DEF h2
<1>8. Part(e, h2, r, <<c>>, h3, r)
  BY <1>1, <1>7, PartStep DEF h3
<1>9. Part(e, h3, r, <<d>>, h \cup {"sock", "peer_addr"}, r)
  <2>1. Clean(h3, r, <<"addrinfo">>, h \cup {"sock", "peer_addr"})
    BY <1>1, <1>2, CleanResource
  <2> QED BY <1>4, <2>1, PartFree
<1>10. open_udp_peer(undo) = <<a, b, c, d>>
  BY DEF open_udp_peer, u1, u2
<1> HIDE DEF a, b, c, d
<1>11. Part(e, h, r, <<a, b>>, h2, r)
  BY <1>3, <1>6, PartTwo
<1>12. Part(e, h, r, <<a, b, c>>, h3, r)
  BY <1>8, <1>11, PartThree
<1> QED BY <1>9, <1>10, <1>12, PartFour

(* A list that closes the stream after its local variables.                *)
LEMMA CleanLocals ==
  ASSUME NEW h, NEW r, NEW locals \in Undo, NEW g, Clean(h, r, locals, g), Clean(g, r, wcat_tls_close, {})
  PROVE  locals \o wcat_tls_close \in Undo /\ Clean(h, r, locals \o wcat_tls_close, {})
BY UndoTyped, CleanJoin

(* The steps of wcat_quic_client_open from the stream on.                  *)
LEMMA CleanQuic ==
  ASSUME NEW r, Stream(r, "sock", "ctx", ""),
         NEW cs, cs = {"ctx", "sock"}, NEW csp, csp = {"ctx", "sock", "peer_addr"},
         NEW csc, csc = {"ctx", "sock", "conn"}, NEW all, all = {"ctx", "sock", "peer_addr", "conn"}
  PROVE  /\ Clean(csp, r, <<"peer_addr">> \o wcat_tls_close, {})
         /\ Clean(csc, r, <<"conn">> \o wcat_tls_close, {})
         /\ Clean(all, r, <<"conn", "peer_addr">> \o wcat_tls_close, {})
         /\ Clean(all, r, <<"peer_addr", "conn">> \o wcat_tls_close, {})
         /\ Clean(all, r, <<"peer_addr">>, csc)
         /\ {<<"peer_addr">>, <<"conn">>, <<"conn", "peer_addr">>, <<"peer_addr", "conn">>} \subseteq Undo
<1>1. "peer_addr" \in Simple /\ "peer_addr" \in Resources /\ "conn" \in Resources
  BY DEF Simple, Resources
<1>2. {<<"peer_addr">>, <<"conn">>, <<"conn", "peer_addr">>, <<"peer_addr", "conn">>} \subseteq Undo
  BY <1>1, UndoTyped
<1>3. Clean(cs, r, wcat_tls_close, {})
  <2>1. cs = {} \cup ({"sock", "ctx", ""} \ {""})
    OBVIOUS
  <2> QED BY <2>1, CleanStream
<1>4. r["s.fd"] = "sock"
  BY DEF Stream
<1>5. Clean(csp, r, <<"peer_addr">>, cs) /\ Clean(all, r, <<"peer_addr">>, csc)
  <2>1. csp \ {"peer_addr"} = cs /\ all \ {"peer_addr"} = csc
    OBVIOUS
  <2>2. Clean(csp, r, <<"peer_addr">>, csp \ {"peer_addr"}) /\ Clean(all, r, <<"peer_addr">>, all \ {"peer_addr"})
    BY <1>1, CleanResource
  <2> QED BY <2>1, <2>2, Zenon
<1>6. Clean(csc, r, <<"conn">>, cs) /\ Clean(all, r, <<"conn">>, csp)
  <2>1. csc \ {"conn"} = cs /\ all \ {"conn"} = csp /\ "conn" \in csc /\ "conn" \in all /\ "sock" \in csc /\ "sock" \in all
    OBVIOUS
  <2>2. \A h, g : "conn" \in h /\ "sock" \in h /\ h \ {"conn"} = g => Clean(h, r, <<"conn">>, g)
    BY <1>4, CleanConn, Zenon
  <2> QED BY <2>1, <2>2, Zenon
<1> DEFINE p == <<"peer_addr">>
           c == <<"conn">>
           pc == <<"peer_addr", "conn">>
           cp == <<"conn", "peer_addr">>
<1>7. pc = p \o c
  BY TwoIs, Zenon
<1>8. cp = c \o p
  BY TwoIs, Zenon
<1>9. p \in Undo /\ c \in Undo /\ pc \in Undo /\ cp \in Undo
  BY <1>2
<1> HIDE DEF p, c, pc, cp
<1>10. Clean(csp, r, p, cs) /\ Clean(all, r, p, csc) /\ Clean(csc, r, c, cs) /\ Clean(all, r, c, csp)
  BY <1>5, <1>6 DEF p, c
<1>11. Clean(all, r, pc, cs) /\ Clean(all, r, cp, cs)
  BY <1>7, <1>8, <1>9, <1>10, CleanJoin
<1>12. /\ Clean(csp, r, p \o wcat_tls_close, {}) /\ Clean(csc, r, c \o wcat_tls_close, {})
       /\ Clean(all, r, pc \o wcat_tls_close, {}) /\ Clean(all, r, cp \o wcat_tls_close, {})
  BY <1>3, <1>9, <1>10, <1>11, CleanLocals
<1> QED BY <1>2, <1>10, <1>12 DEF p, c, pc, cp

(* wcat_quic_client_open.                                                  *)
LEMMA PartQuicOpen ==
  ASSUME NEW e, NEW cfg, NEW r, Bare(r, "")
  PROVE  \E q : Part(e, {}, r, wcat_quic_client_open(cfg), {"ctx", "sock", "conn"}, q) /\ Stream(q, "sock", "ctx", "conn")
<1> DEFINE close == wcat_tls_close
           c == {"ctx"}
           csp == {"ctx", "sock", "peer_addr"}
           csc == {"ctx", "sock", "conn"}
           all == {"ctx", "sock", "peer_addr", "conn"}
           fp == <<"peer_addr">> \o close
           fc == <<"conn">> \o close
           fcp == <<"conn", "peer_addr">> \o close
           fpc == <<"peer_addr", "conn">> \o close
           s1 == <<Step("SSL_CTX_new", "ctx", "s.ctx", close), Check("configure_client_ctx", close)>>
           s2 == open_udp_peer(close)
           s3 == stream_init("sock")
           s4 == <<Step("SSL_new", "conn", "", fp), Check("BIO_new", fcp)>>
           s5 == When(cfg.tls_verify, <<Check("set1_host", fpc)>>)
           s6 == <<Check("set_alpn", fpc), Free(<<"peer_addr">>), Check("handshake", fc)>>
           s7 == When(cfg.tls_verify, <<Check("verify_result", fc)>>)
           s8 == <<Check("set_blocking_mode", fc), Store("s.ssl", "conn")>>
<1>1. <<>> \o wcat_tls_close = wcat_tls_close
  <2>1. wcat_tls_close \in Seq(Names)
    BY UndoTyped DEF Undo
  <2> QED BY <2>1, ConcatEmptySeq
<1>2. wcat_quic_client_open(cfg) = s1 \o s2 \o s3 \o s4 \o s5 \o s6 \o s7 \o s8
  BY <1>1 DEF wcat_quic_client_open
<1>3. /\ "sock" \in Resources /\ "conn" \in Resources /\ "s.ssl" \in Fields /\ close \in Undo
      /\ {"ctx"} \ {""} = c /\ c \cap {"addrinfo", "sock", "peer_addr"} = {}
      /\ c \cup {"sock", "peer_addr"} = csp /\ csp \cup {"conn"} = all
  <2>1. "sock" \in Resources /\ "conn" \in Resources /\ "s.ssl" \in Fields
    BY DEF Resources, Fields
  <2>2. close \in Undo
    BY UndoTyped
  <2>3. {"ctx"} \ {""} = c /\ c \cap {"addrinfo", "sock", "peer_addr"} = {}
    OBVIOUS
  <2>4. c \cup {"sock", "peer_addr"} = csp /\ csp \cup {"conn"} = all
    OBVIOUS
  <2> QED BY <2>1, <2>2, <2>3, <2>4
<1> HIDE DEF close, c, csp, csc, all
<1>4. PICK r1 : Part(e, {}, r, s1, c, r1) /\ Bare(r1, "ctx")
  <2>1. PICK r1 : /\ Part(e, {}, r, <<Step("SSL_CTX_new", "ctx", "s.ctx", close)>>, c, r1)
                  /\ Bare(r1, "ctx")
    BY PartQuicContext DEF close, c
  <2>2. Clean(c, r1, close, {})
    BY <1>3, <2>1, CleanBare DEF close
  <2>3. Part(e, c, r1, <<Check("configure_client_ctx", close)>>, c, r1)
    BY <1>3, <2>2, PartStep
  <2> QED BY <2>1, <2>3, PartTwo
<1>5. Part(e, c, r1, s2, csp, r1)
  <2>1. Clean(c, r1, close, {})
    BY <1>3, <1>4, CleanBare DEF close
  <2> QED BY <1>3, <2>1, PartUdpPeer
<1>6. PICK r2 : Part(e, csp, r1, s3, csp, r2) /\ Stream(r2, "sock", "ctx", "")
  <2>1. r1 \in Refs /\ r1["s.ctx"] = "ctx" /\ r1["s.ssl"] = ""
    BY <1>4 DEF Bare
  <2>2. \E q : Part(e, csp, r1, s3, csp, q) /\ Stream(q, "sock", r1["s.ctx"], r1["s.ssl"])
    BY <1>3, <2>1, PartInit
  <2> QED BY <2>1, <2>2
<1>7. /\ Clean(csp, r2, fp, {}) /\ Clean(csc, r2, fc, {}) /\ Clean(all, r2, fcp, {}) /\ Clean(all, r2, fpc, {})
      /\ Clean(all, r2, <<"peer_addr">>, csc)
      /\ fp \in Undo /\ fc \in Undo /\ fcp \in Undo /\ fpc \in Undo /\ <<"peer_addr">> \in Undo
  <2>1. csp = {"ctx", "sock", "peer_addr"} /\ csc = {"ctx", "sock", "conn"} /\ all = {"ctx", "sock", "peer_addr", "conn"}
    BY DEF csp, csc, all
  <2>2. /\ Clean(csp, r2, fp, {}) /\ Clean(csc, r2, fc, {}) /\ Clean(all, r2, fcp, {}) /\ Clean(all, r2, fpc, {})
        /\ Clean(all, r2, <<"peer_addr">>, csc)
        /\ {<<"peer_addr">>, <<"conn">>, <<"conn", "peer_addr">>, <<"peer_addr", "conn">>} \subseteq Undo
    BY <1>6, <2>1, CleanQuic DEF close
  <2> QED BY <1>3, <2>2, UndoTyped
<1> DEFINE q == [r2 EXCEPT !["s.ssl"] = "conn"]
           out == <<"peer_addr">>
<1> HIDE DEF fp, fc, fcp, fpc, out
<1>8. Part(e, csp, r2, s4, all, r2)
  <2>1. Part(e, csp, r2, <<Step("SSL_new", "conn", "", fp)>>, all, r2)
    BY <1>3, <1>7, PartStep
  <2>2. Part(e, all, r2, <<Check("BIO_new", fcp)>>, all, r2)
    BY <1>7, PartStep
  <2> QED BY <2>1, <2>2, PartTwo
<1>9. Part(e, all, r2, s5, all, r2)
  BY <1>7, PartStep, PartWhen
<1>10. Part(e, all, r2, s6, csc, r2)
  <2>1. Part(e, all, r2, <<Check("set_alpn", fpc)>>, all, r2)
    BY <1>7, PartStep
  <2>2. Part(e, all, r2, <<Free(out)>>, csc, r2)
    BY <1>7, PartFree DEF out
  <2>3. Part(e, csc, r2, <<Check("handshake", fc)>>, csc, r2)
    BY <1>7, PartStep
  <2> DEFINE x == Check("set_alpn", fpc)
             y == Free(out)
             z == Check("handshake", fc)
  <2>4. s6 = <<x, y, z>>
    BY DEF out
  <2>5. Part(e, all, r2, <<x>>, all, r2) /\ Part(e, all, r2, <<y>>, csc, r2) /\ Part(e, csc, r2, <<z>>, csc, r2)
    BY <2>1, <2>2, <2>3
  <2> HIDE DEF x, y, z, s6
  <2>6. Part(e, all, r2, <<x, y>>, csc, r2)
    BY <2>5, PartTwo
  <2> QED BY <2>4, <2>5, <2>6, PartThree
<1>11. Part(e, csc, r2, s7, csc, r2)
  BY <1>7, PartStep, PartWhen
<1>12. Part(e, csc, r2, s8, csc, q)
  <2>1. Part(e, csc, r2, <<Check("set_blocking_mode", fc)>>, csc, r2)
    BY <1>7, PartStep
  <2>2. Part(e, csc, r2, <<Store("s.ssl", "conn")>>, csc, q)
    BY <1>3, PartStore
  <2> HIDE DEF q
  <2> QED BY <2>1, <2>2, PartTwo
<1>13. Stream(q, "sock", "ctx", "conn")
  BY <1>6, StreamPut
<1> HIDE DEF s1, s2, s3, s4, s5, s6, s7, s8, q
<1>14. Part(e, {}, r, s1 \o s2 \o s3 \o s4, all, r2)
  BY <1>4, <1>5, <1>6, <1>8, PartJoin
<1>15. Part(e, {}, r, s1 \o s2 \o s3 \o s4 \o s5 \o s6, csc, r2)
  BY <1>9, <1>10, <1>14, PartJoin
<1>16. Part(e, {}, r, s1 \o s2 \o s3 \o s4 \o s5 \o s6 \o s7 \o s8, csc, q)
  BY <1>11, <1>12, <1>15, PartJoin
<1> QED BY <1>2, <1>13, <1>16 DEF csc

(* connect over QUIC.                                                      *)
LEMMA PartQuicConnect ==
  ASSUME NEW e, NEW cfg, NEW r, Bare(r, "")
  PROVE  \E g, q : Part(e, {}, r, run_quic_connect(cfg), g, q)
<1> DEFINE h == {"ctx", "sock", "conn"}
<1>1. PICK q : Part(e, {}, r, wcat_quic_client_open(cfg), h, q) /\ Stream(q, "sock", "ctx", "conn")
  BY PartQuicOpen
<1>2. Clean(h, q, wcat_tls_close \o <<>>, {})
  <2>1. h = {} \cup ({"sock", "ctx", "conn"} \ {""})
    OBVIOUS
  <2>2. Clean({}, q, <<>>, {}) /\ <<>> \in Undo
    BY CleanNothing, UndoTyped
  <2> HIDE DEF h
  <2> QED BY <1>1, <2>1, <2>2, CleanStream
<1>3. "child" \notin h
  OBVIOUS
<1> HIDE DEF h
<1>4. PICK g : Part(e, h, q, serve_quic_stream(cfg, <<>>), g, q)
  BY <1>2, <1>3, UndoTyped, PartServeQuic
<1>5. Part(e, {}, r, wcat_quic_client_open(cfg) \o serve_quic_stream(cfg, <<>>), g, q)
  BY <1>1, <1>4, PartJoin
<1> QED BY <1>5 DEF run_quic_connect

(* A QUIC listener with the parts it has, and the stream it accepts.       *)
Listens(r, ctx, fd, ssl, conn) ==
    /\ r \in Refs /\ r["l.ctx"] = ctx /\ r["l.fd"] = fd /\ r["l.listener"] = ssl
    /\ r["s.ssl"] = conn /\ r["s.ctx"] = "" /\ r["s.owned"] = "" /\ (conn # "" => r["s.fd"] = fd)
Parts(ctx, fd, ssl) == {ctx, fd, ssl} \ {""}

(* Closing it.                                                             *)
LEMMA CleanListens ==
  ASSUME NEW r, NEW ctx \in {"", "ctx"}, NEW fd \in {"", "listener"}, NEW ssl \in {"", "listener_ssl"}, NEW conn,
         Listens(r, ctx, fd, ssl, conn), ssl # "" => fd # ""
  PROVE  Clean(Parts(ctx, fd, ssl), r, wcat_quic_listener_close, {}) /\ wcat_quic_listener_close \in Undo
<1> DEFINE h == Parts(ctx, fd, ssl)
<1>1. ListenerOpen(h, r)
  BY DEF ListenerOpen, Listens, Parts
<1>2. ListenerClosed(h, r) = {}
  BY DEF ListenerClosed, Listens, Parts
<1> HIDE DEF h
<1>3. Clean(h, r, wcat_quic_listener_close, {})
  BY <1>1, <1>2, CleanListener
<1> QED BY <1>3, UndoTyped DEF h

(* Its parts, one by one.                                                  *)
LEMMA ListensPut ==
  ASSUME NEW r, NEW ctx, NEW fd, NEW ssl, Listens(r, ctx, fd, ssl, "")
  PROVE  /\ Listens([r EXCEPT !["l.ctx"] = "ctx"], "ctx", fd, ssl, "")
         /\ Listens([r EXCEPT !["l.fd"] = "listener"], ctx, "listener", ssl, "")
         /\ Listens([r EXCEPT !["l.listener"] = "listener_ssl"], ctx, fd, "listener_ssl", "")
         /\ fd = "listener" => LET q == [r EXCEPT !["s.fd"] = fd]
                               IN  /\ Listens(q, ctx, fd, ssl, "") /\ q["s.fd"] = fd
                                   /\ Listens([q EXCEPT !["s.ssl"] = "conn"], ctx, fd, ssl, "conn")
BY DEF Listens, Refs, Fields, Resources

(* wcat_quic_listener_open.                                                *)
LEMMA PartQuicListener ==
  ASSUME NEW e, NEW cfg, NEW r, Listens(r, "", "", "", "")
  PROVE  \E q : /\ Part(e, {}, r, wcat_quic_listener_open(cfg), Parts("ctx", "listener", "listener_ssl"), q)
                /\ Listens(q, "ctx", "listener", "listener_ssl", "")
<1> DEFINE close == wcat_quic_listener_close
           h1 == Parts("ctx", "", "")
           h2 == Parts("ctx", "listener", "")
           h3 == Parts("ctx", "listener", "listener_ssl")
           r1 == [r EXCEPT !["l.ctx"] = "ctx"]
           r2 == [r1 EXCEPT !["l.fd"] = "listener"]
           r3 == [r2 EXCEPT !["l.listener"] = "listener_ssl"]
           a == Step("SSL_CTX_new", "ctx", "l.ctx", close)
           b == Check("configure_server_ctx", close)
           s2 == wcat_udp_bind("listener", "l.fd", close)
           x == Check("set_nonblock", close)
           y == Step("SSL_new_listener", "listener_ssl", "l.listener", close)
           z == Check("SSL_listen", close)
<1>1. /\ {"ctx", "listener", "listener_ssl"} \subseteq Resources /\ {"l.ctx", "l.fd", "l.listener"} \subseteq Fields
      /\ Parts("", "", "") = {} /\ {} \cup {"ctx"} = h1 /\ h1 \cup {"listener"} = h2 /\ h2 \cup {"listener_ssl"} = h3
      /\ "addrinfo" \notin h1
  BY DEF Resources, Fields, Parts
<1>2. Listens(r1, "ctx", "", "", "")
  BY ListensPut
<1> HIDE DEF r1
<1>3. Listens(r2, "ctx", "listener", "", "")
  BY <1>2, ListensPut
<1> HIDE DEF r2
<1>4. Listens(r3, "ctx", "listener", "listener_ssl", "")
  BY <1>3, ListensPut
<1> HIDE DEF r3, h1, h2, h3
<1>5. close \in Undo /\ Clean({}, r, close, {})
  BY <1>1, CleanListens
<1>6. Clean(h1, r1, close, {})
  BY <1>2, CleanListens DEF h1
<1>7. Clean(h2, r2, close, {})
  BY <1>3, CleanListens DEF h2
<1>8. Clean(h3, r3, close, {})
  BY <1>4, CleanListens DEF h3
<1> HIDE DEF close
<1>9. Part(e, {}, r, <<a>>, h1, r1)
  <2>1. Part(e, {}, r, <<a>>, {} \cup {"ctx"}, r1)
    BY <1>1, <1>5, PartStep DEF r1
  <2> QED BY <1>1, <2>1, Zenon
<1>10. Part(e, h1, r1, <<b>>, h1, r1)
  BY <1>5, <1>6, PartStep
<1>11. Part(e, h1, r1, s2, h2, r2)
  <2>1. "listener" # "addrinfo" /\ "bind" \notin {"free", "store"}
    OBVIOUS
  <2>2. Part(e, h1, r1, AddressLoop("bind", "listener", "l.fd", close), h1 \cup {"listener"}, r2)
    BY <1>1, <1>5, <1>6, <2>1, PartLoop DEF r2
  <2> QED BY <1>1, <2>2, Zenon DEF wcat_udp_bind
<1>12. Part(e, h2, r2, <<x>>, h2, r2)
  BY <1>5, <1>7, PartStep
<1>13. Part(e, h2, r2, <<y>>, h3, r3)
  <2>1. Part(e, h2, r2, <<y>>, h2 \cup {"listener_ssl"}, r3)
    BY <1>1, <1>5, <1>7, PartStep DEF r3
  <2> QED BY <1>1, <2>1, Zenon
<1>14. Part(e, h3, r3, <<z>>, h3, r3)
  BY <1>5, <1>8, PartStep
<1>15. wcat_quic_listener_open(cfg) = <<a, b>> \o s2 \o <<x, y, z>>
  BY DEF wcat_quic_listener_open, close
<1> HIDE DEF a, b, x, y, z, s2
<1>16. Part(e, {}, r, <<a, b>>, h1, r1)
  BY <1>9, <1>10, PartTwo
<1>17. Part(e, h2, r2, <<x, y>>, h3, r3)
  BY <1>12, <1>13, PartTwo
<1>18. Part(e, h2, r2, <<x, y, z>>, h3, r3)
  BY <1>14, <1>17, PartThree
<1> DEFINE s1 == <<a, b>>
           s3 == <<x, y, z>>
<1> HIDE DEF s1, s3
<1>19. Part(e, {}, r, s1 \o s2 \o s3, h3, r3)
  BY <1>11, <1>16, <1>18, PartJoin DEF s1, s3
<1> QED BY <1>4, <1>15, <1>19 DEF s1, s3, h3

(* wcat_quic_accept.                                                       *)
LEMMA PartQuicAccept ==
  ASSUME NEW e, NEW r, Listens(r, "ctx", "listener", "listener_ssl", ""),
         NEW h, h = Parts("ctx", "listener", "listener_ssl"), NEW k, k = h \cup {"conn"}
  PROVE  \E q : Part(e, h, r, wcat_quic_accept, k, q) /\ Listens(q, "ctx", "listener", "listener_ssl", "conn")
<1> DEFINE close == wcat_quic_listener_close
           r1 == [r EXCEPT !["s.fd"] = "listener"]
           r2 == [r1 EXCEPT !["s.ssl"] = "conn"]
           both == <<"conn">> \o close
           a == Store("s.fd", "listener")
           b == Step("quic_accept", "conn", "", close)
           c == Check("set_blocking_mode", both)
           d == Store("s.ssl", "conn")
<1>1. /\ "listener" \in Resources /\ "conn" \in Resources /\ "s.fd" \in Fields /\ "s.ssl" \in Fields
      /\ "conn" \in k /\ "listener" \in k /\ h = k \ {"conn"} /\ <<"conn">> \in Undo
  <2>1. "listener" \in Resources /\ "conn" \in Resources /\ "s.fd" \in Fields /\ "s.ssl" \in Fields
    BY DEF Resources, Fields
  <2>2. "conn" \in k /\ "listener" \in k /\ h = k \ {"conn"}
    BY DEF Parts
  <2> QED BY <2>1, <2>2, UndoTyped
<1>2. Listens(r1, "ctx", "listener", "listener_ssl", "") /\ r1["s.fd"] = "listener"
  BY ListensPut
<1>3. Listens(r2, "ctx", "listener", "listener_ssl", "conn")
  BY ListensPut
<1>4. Part(e, h, r, <<a>>, h, r1)
  BY <1>1, PartStore
<1> HIDE DEF r1
<1>5. Part(e, k, r1, <<d>>, k, r2)
  BY <1>1, PartStore
<1> HIDE DEF r2
<1>6. Clean(h, r1, close, {}) /\ close \in Undo
  BY <1>2, CleanListens
<1> HIDE DEF close
<1>7. Part(e, h, r1, <<b>>, k, r1)
  BY <1>1, <1>6, PartStep
<1>8. Clean(k, r1, <<"conn">>, h)
  BY <1>1, <1>2, CleanConn, Zenon
<1>9. Clean(k, r1, both, {}) /\ both \in Undo
  BY <1>1, <1>6, <1>8, CleanJoin, UndoTyped
<1> HIDE DEF both
<1>10. Part(e, k, r1, <<c>>, k, r1)
  BY <1>9, PartStep
<1>11. wcat_quic_accept = <<a, b, c, d>>
  BY DEF wcat_quic_accept, both, close
<1> HIDE DEF a, b, c, d
<1>12. Part(e, h, r, <<a, b>>, k, r1)
  BY <1>4, <1>7, PartTwo
<1>13. Part(e, h, r, <<a, b, c>>, k, r1)
  BY <1>10, <1>12, PartThree
<1>14. Part(e, h, r, <<a, b, c, d>>, k, r2)
  BY <1>5, <1>13, PartFour
<1> QED BY <1>3, <1>11, <1>14

(* listen over QUIC.                                                       *)
LEMMA PartQuicListen ==
  ASSUME NEW e, NEW cfg, NEW r, Listens(r, "", "", "", "")
  PROVE  \E g, q : Part(e, {}, r, run_quic_listen(cfg), g, q)
<1> DEFINE h == Parts("ctx", "listener", "listener_ssl")
           k == h \cup {"conn"}
           s1 == wcat_quic_listener_open(cfg)
           s2 == wcat_quic_accept
           s3 == serve_quic_stream(cfg, wcat_quic_listener_close)
<1>1. PICK r1 : Part(e, {}, r, s1, h, r1) /\ Listens(r1, "ctx", "listener", "listener_ssl", "")
  BY PartQuicListener
<1>2. PICK r2 : Part(e, h, r1, s2, k, r2) /\ Listens(r2, "ctx", "listener", "listener_ssl", "conn")
  BY <1>1, PartQuicAccept
<1>3. TlsOpen(k, r2) /\ TlsClosed(k, r2) = h /\ "child" \notin k
  BY <1>2 DEF TlsOpen, TlsClosed, Listens, Parts
<1>4. Clean(h, r2, wcat_quic_listener_close, {}) /\ wcat_quic_listener_close \in Undo /\ wcat_tls_close \in Undo
  BY <1>2, CleanListens, UndoTyped
<1> HIDE DEF h, k
<1>5. Clean(k, r2, wcat_tls_close, h)
  BY <1>3, CleanTls
<1>6. Clean(k, r2, wcat_tls_close \o wcat_quic_listener_close, {})
  BY <1>4, <1>5, CleanJoin
<1>7. PICK g : Part(e, k, r2, s3, g, r2)
  BY <1>3, <1>4, <1>6, PartServeQuic
<1> HIDE DEF s1, s2, s3
<1>8. Part(e, {}, r, s1 \o s2 \o s3, g, r2)
  BY <1>1, <1>2, <1>7, PartJoin
<1> QED BY <1>8 DEF s1, s2, s3, run_quic_listen

-----------------------------------------------------------------------------
(* The endpoints of a relay.                                               *)

Ends2 == {Left, Right}
OwnFields(ep) == {ep.proc, ep.fd1, ep.fd2}
OwnResources(ep) == {ep.sock, ep.client, ep.child}

(* The names of an endpoint are its own.                                   *)
LEMMA EndpointNames ==
  ASSUME NEW ep \in Ends2
  PROVE  /\ ep.proc \in Fields /\ ep.fd1 \in Fields /\ ep.fd2 \in Fields
         /\ ep.sock \in Simple /\ ep.client \in Simple /\ ep.child \in Simple
         /\ ep.sock \in Resources /\ ep.client \in Resources /\ ep.child \in Resources
         /\ ep.proc # ep.fd1 /\ ep.proc # ep.fd2 /\ ep.fd1 # ep.fd2
         /\ ep.sock # ep.client /\ ep.sock # ep.child /\ ep.client # ep.child
         /\ "" \notin OwnResources(ep) /\ "addrinfo" \notin OwnResources(ep)
<1>1. CASE ep = Left
  BY <1>1 DEF Left, Fields, Simple, Resources, OwnResources
<1>2. CASE ep = Right
  BY <1>2 DEF Right, Fields, Simple, Resources, OwnResources
<1> QED BY <1>1, <1>2 DEF Ends2

(* They are not those of the other.                                        *)
LEMMA EndpointsApart ==
  /\ OwnFields(Left) \cap OwnFields(Right) = {} /\ OwnResources(Left) \cap OwnResources(Right) = {}
  /\ Left # Right
<1>1. OwnFields(Left) \cap OwnFields(Right) = {}
  BY DEF Left, Right, OwnFields
<1>2. OwnResources(Left) \cap OwnResources(Right) = {}
  BY DEF Left, Right, OwnResources
<1>3. Left # Right
  <2>1. Left.fd1 # Right.fd1
    BY DEF Left, Right
  <2> QED BY <2>1
<1> QED BY <1>1, <1>2, <1>3

(* The endpoint refers to things of its own, to none of them twice, and    *)
(* what it refers to is held.                                              *)
Kept(r, ep) ==
    /\ r[ep.proc] \in {"", ep.child} /\ r[ep.fd1] \in {"", ep.sock, ep.client} /\ r[ep.fd2] \in {"", ep.client}
    /\ r[ep.fd1] = ep.client => r[ep.fd2] = ""
Held(r, ep) == {r[ep.proc], r[ep.fd1], r[ep.fd2]} \ {""}
Fresh(r, ep) == r[ep.proc] = "" /\ r[ep.fd1] = "" /\ r[ep.fd2] = ""
Tidy(h, r) == r \in Refs /\ Kept(r, Left) /\ Kept(r, Right) /\ h = Held(r, Left) \cup Held(r, Right)

(* What an endpoint holds is its own.                                      *)
LEMMA HeldOwn ==
  ASSUME NEW ep \in Ends2, NEW r, Kept(r, ep)
  PROVE  Held(r, ep) \subseteq OwnResources(ep)
BY DEF Kept, Held, OwnResources

(* relay_endpoint_close gives it back.                                     *)
LEMMA CleanEndpoint ==
  ASSUME NEW ep \in Ends2, NEW r, Kept(r, ep), NEW g, g \cap OwnResources(ep) = {}, "" \notin g,
         NEW h, h = Held(r, ep) \cup g
  PROVE  Clean(h, r, relay_endpoint_close(ep), g)
<1> DEFINE a == ep.proc
           b == ep.fd1
           c == ep.fd2
           x == r[a]
           y == r[b]
           z == r[c]
<1>1. a \in Fields /\ b \in Fields /\ c \in Fields
  BY EndpointNames
<1>2. /\ x \in Simple \cup {""} /\ y \in Simple \cup {""} /\ z \in Simple \cup {""}
      /\ (x # "" => x # y) /\ (x # "" => x # z) /\ (y # "" => y # z)
  BY EndpointNames DEF Kept
<1>3. h = ({x, y, z} \ {""}) \cup g /\ x \notin g /\ y \notin g /\ z \notin g
  BY DEF Held, Kept, OwnResources
<1> HIDE DEF a, b, c
<1>4. Means(r, a) = x /\ Ready(h, r, a)
  BY <1>1, <1>2, <1>3, ReadyField
<1>5. Means(r, b) = y /\ Ready(h \ {x}, r, b)
  <2>1. y # "" => y \in h \ {x}
    BY <1>2, <1>3
  <2> QED BY <1>1, <1>2, <2>1, ReadyField
<1>6. Means(r, c) = z /\ Ready((h \ {x}) \ {y}, r, c)
  <2>1. z # "" => z \in (h \ {x}) \ {y}
    BY <1>2, <1>3
  <2> QED BY <1>1, <1>2, <2>1, ReadyField
<1>7. ((h \ {x}) \ {y}) \ {z} = g
  BY <1>3
<1> HIDE DEF x, y, z
<1>8. a \in Names /\ b \in Names /\ c \in Names
  BY <1>1 DEF Names
<1>9. Clean(h, r, <<a, b, c>>, ((h \ {x}) \ {y}) \ {z})
  BY <1>4, <1>5, <1>6, <1>8, CleanMeant
<1>10. Clean(h, r, <<a, b, c>>, g)
  BY <1>7, <1>9
<1> QED BY <1>10 DEF relay_endpoint_close, a, b, c

(* Closing both.                                                           *)
CloseBoth == relay_endpoint_close(Left) \o relay_endpoint_close(Right)
(* It releases all that two tidy endpoints hold.                           *)
LEMMA CleanTidy ==
  ASSUME NEW h, NEW r, Tidy(h, r)
  PROVE  CloseBoth \in Undo /\ Clean(h, r, CloseBoth, {})
<1> DEFINE g == Held(r, Right)
<1>1. Left \in Ends2 /\ Right \in Ends2 /\ Kept(r, Left) /\ Kept(r, Right) /\ h = Held(r, Left) \cup g
  BY DEF Ends2, Tidy
<1>2. g \cap OwnResources(Left) = {} /\ "" \notin g
  BY <1>1, HeldOwn, EndpointsApart DEF Held
<1>3. g = Held(r, Right) \cup {} /\ {} \cap OwnResources(Right) = {} /\ "" \notin {}
  OBVIOUS
<1> HIDE DEF g
<1>4. Clean(h, r, relay_endpoint_close(Left), g)
  BY <1>1, <1>2, CleanEndpoint
<1>5. Clean(g, r, relay_endpoint_close(Right), {})
  BY <1>1, <1>3, CleanEndpoint
<1>6. relay_endpoint_close(Left) \in Undo /\ relay_endpoint_close(Right) \in Undo
  BY UndoTyped
<1> QED BY <1>4, <1>5, <1>6, CleanJoin, UndoTyped DEF CloseBoth

(* Accounts that differ in one endpoint leave the other as it was.         *)
DiffersAt(r, q, ep) == \A f \in Fields : f \notin OwnFields(ep) => q[f] = r[f]
Spares(r, q, ep) == \A o \in Ends2 : o # ep /\ Fresh(r, o) => Fresh(q, o)
(* A change of one endpoint keeps both tidy.                               *)
LEMMA TidyChange ==
  ASSUME NEW ep \in Ends2, NEW h, NEW r, Tidy(h, r), NEW q \in Refs, Kept(q, ep), DiffersAt(r, q, ep),
         NEW k, k = (h \ Held(r, ep)) \cup Held(q, ep)
  PROVE  Tidy(k, q) /\ Spares(r, q, ep)
<1>1. Left \in Ends2 /\ Right \in Ends2 /\ Kept(r, Left) /\ Kept(r, Right) /\ h = Held(r, Left) \cup Held(r, Right)
  BY DEF Ends2, Tidy
<1>2. Held(r, Left) \cap Held(r, Right) = {}
  BY <1>1, HeldOwn, EndpointsApart
<1>3. CASE ep = Left
  <2>1. q[Right.proc] = r[Right.proc] /\ q[Right.fd1] = r[Right.fd1] /\ q[Right.fd2] = r[Right.fd2]
    BY <1>1, <1>3, EndpointNames, EndpointsApart DEF OwnFields, DiffersAt
  <2>2. Kept(q, Right) /\ Held(q, Right) = Held(r, Right) /\ (Fresh(r, Right) => Fresh(q, Right))
    BY <1>1, <2>1 DEF Kept, Held, Fresh
  <2>3. k = Held(q, Left) \cup Held(q, Right)
    BY <1>1, <1>2, <1>3, <2>2
  <2> QED BY <1>3, <2>2, <2>3 DEF Tidy, Ends2, Spares
<1>4. CASE ep = Right
  <2>1. q[Left.proc] = r[Left.proc] /\ q[Left.fd1] = r[Left.fd1] /\ q[Left.fd2] = r[Left.fd2]
    BY <1>1, <1>4, EndpointNames, EndpointsApart DEF OwnFields, DiffersAt
  <2>2. Kept(q, Left) /\ Held(q, Left) = Held(r, Left) /\ (Fresh(r, Left) => Fresh(q, Left))
    BY <1>1, <2>1 DEF Kept, Held, Fresh
  <2>3. k = Held(q, Left) \cup Held(q, Right)
    BY <1>1, <1>2, <1>4, <2>2
  <2> QED BY <1>4, <2>2, <2>3 DEF Tidy, Ends2, Spares
<1> QED BY <1>3, <1>4 DEF Ends2

(* An endpoint gets its descriptor.                                        *)
LEMMA TidySocket ==
  ASSUME NEW ep \in Ends2, NEW h, NEW r, Tidy(h, r), Fresh(r, ep)
  PROVE  LET q == [r EXCEPT ![ep.fd1] = ep.sock]
         IN  /\ Tidy(h \cup {ep.sock}, q) /\ Spares(r, q, ep)
             /\ q[ep.proc] = "" /\ q[ep.fd1] = ep.sock /\ q[ep.fd2] = ""
<1> DEFINE q == [r EXCEPT ![ep.fd1] = ep.sock]
<1>1. r \in Refs
  BY DEF Tidy
<1>2. /\ q \in Refs /\ q[ep.fd1] = ep.sock /\ q[ep.proc] = "" /\ q[ep.fd2] = ""
      /\ DiffersAt(r, q, ep)
  BY <1>1, EndpointNames DEF Refs, Fresh, OwnFields, DiffersAt
<1> HIDE DEF q
<1>3. Kept(q, ep) /\ Held(q, ep) = {ep.sock} /\ Held(r, ep) = {}
  BY <1>2, EndpointNames DEF Kept, Held, Fresh, OwnResources
<1>4. h \cup {ep.sock} = (h \ Held(r, ep)) \cup Held(q, ep)
  BY <1>3
<1>5. Tidy(h \cup {ep.sock}, q) /\ Spares(r, q, ep)
  BY <1>2, <1>3, <1>4, TidyChange
<1> QED BY <1>2, <1>5 DEF q

(* An endpoint gets its process.                                           *)
LEMMA TidyChild ==
  ASSUME NEW ep \in Ends2, NEW h, NEW r, Tidy(h, r), Fresh(r, ep)
  PROVE  LET q == [r EXCEPT ![ep.proc] = ep.child] IN Tidy(h \cup {ep.child}, q) /\ Spares(r, q, ep)
<1> DEFINE q == [r EXCEPT ![ep.proc] = ep.child]
<1>1. r \in Refs
  BY DEF Tidy
<1>2. /\ q \in Refs /\ q[ep.proc] = ep.child /\ q[ep.fd1] = "" /\ q[ep.fd2] = ""
      /\ DiffersAt(r, q, ep)
  BY <1>1, EndpointNames DEF Refs, Fresh, OwnFields, DiffersAt
<1> HIDE DEF q
<1>3. Kept(q, ep) /\ Held(q, ep) = {ep.child} /\ Held(r, ep) = {}
  BY <1>2, EndpointNames DEF Kept, Held, Fresh, OwnResources
<1>4. h \cup {ep.child} = (h \ Held(r, ep)) \cup Held(q, ep)
  BY <1>3
<1>5. Tidy(h \cup {ep.child}, q) /\ Spares(r, q, ep)
  BY <1>2, <1>3, <1>4, TidyChange
<1> QED BY <1>5 DEF q

(* A listener is replaced by its client.                                   *)
LEMMA PartServed ==
  ASSUME NEW e, NEW ep \in Ends2, NEW h, NEW r, Tidy(h, r), r[ep.proc] = "", r[ep.fd1] = ep.sock, r[ep.fd2] = "",
         NEW steps,
         steps = << Step("accept", ep.client, ep.fd2, CloseBoth), Free(<<ep.fd1>>),
                    Store(ep.fd1, ep.client), Store(ep.fd2, "") >>
  PROVE  \E g, q : Part(e, h, r, steps, g, q) /\ Tidy(g, q) /\ Spares(r, q, ep)
<1> DEFINE h1 == h \cup {ep.client}
           h2 == h1 \ {ep.sock}
           r1 == [r EXCEPT ![ep.fd2] = ep.client]
           r2 == [r1 EXCEPT ![ep.fd1] = ep.client]
           r3 == [r2 EXCEPT ![ep.fd2] = ""]
           a == Step("accept", ep.client, ep.fd2, CloseBoth)
           b == Free(<<ep.fd1>>)
           c == Store(ep.fd1, ep.client)
           d == Store(ep.fd2, "")
<1>1. /\ ep.fd1 \in Fields /\ ep.fd2 \in Fields /\ ep.client \in Resources /\ ep.client \in Resources \cup {""}
      /\ "" \in Resources \cup {""} /\ "accept" \notin {"free", "store"} /\ r \in Refs
  BY EndpointNames DEF Tidy
<1>2. CloseBoth \in Undo /\ Clean(h, r, CloseBoth, {})
  BY CleanTidy
<1>3. Part(e, h, r, <<a>>, h1, r1)
  BY <1>1, <1>2, PartStep
<1>4. r1 \in Refs /\ r1[ep.fd1] = ep.sock /\ \A f \in Fields : f # ep.fd2 => r1[f] = r[f]
  BY <1>1, EndpointNames DEF Refs
<1>5. ep.sock \in h1
  BY EndpointNames DEF Tidy, Held, Ends2, OwnResources
<1> HIDE DEF r1, h1
<1>6. Part(e, h1, r1, <<b>>, h2, r1)
  <2>1. ep.sock \in Simple \cup {""}
    BY EndpointNames
  <2>2. Means(r1, ep.fd1) = ep.sock /\ Ready(h1, r1, ep.fd1)
    <3> DEFINE f == ep.fd1
               x == r1[f]
    <3>1. f \in Fields /\ x \in Simple \cup {""} /\ (x # "" => x \in h1) /\ x = ep.sock
      BY <1>1, <1>4, <1>5, <2>1
    <3> HIDE DEF f
    <3>2. Means(r1, f) = r1[f] /\ Ready(h1, r1, f)
      BY <3>1, ReadyField
    <3> QED BY <3>1, <3>2 DEF f
  <2>3. Clean(h1, r1, <<ep.fd1>>, h1 \ {Means(r1, ep.fd1)})
    BY <2>2, CleanOne
  <2>4. Clean(h1, r1, <<ep.fd1>>, h2)
    BY <2>2, <2>3
  <2>5. <<ep.fd1>> \in Undo
    BY <1>1, Short DEF Undo, Names
  <2> HIDE DEF h2
  <2> QED BY <2>4, <2>5, PartFree
<1>7. Part(e, h2, r1, <<c>>, h2, r2)
  BY <1>1, PartStore
<1>8. r2 \in Refs /\ r2[ep.fd1] = ep.client /\ \A f \in Fields : f # ep.fd1 => r2[f] = r1[f]
  BY <1>1, <1>4 DEF Refs
<1> HIDE DEF r2
<1>9. Part(e, h2, r2, <<d>>, h2, r3)
  BY <1>1, PartStore
<1>10. r3 \in Refs /\ r3[ep.fd2] = "" /\ \A f \in Fields : f # ep.fd2 => r3[f] = r2[f]
  BY <1>1, <1>8 DEF Refs
<1> HIDE DEF r3
<1>11. /\ r3[ep.fd1] = ep.client /\ r3[ep.proc] = ""
       /\ DiffersAt(r, r3, ep)
  BY <1>1, <1>4, <1>8, <1>10, EndpointNames DEF OwnFields, DiffersAt
<1>12. Kept(r3, ep) /\ Held(r3, ep) = {ep.client} /\ Held(r, ep) = {ep.sock}
  BY <1>10, <1>11, EndpointNames DEF Kept, Held, OwnResources
<1>13. h2 = (h \ Held(r, ep)) \cup Held(r3, ep)
  BY <1>12, EndpointNames DEF h1
<1>14. Tidy(h2, r3) /\ Spares(r, r3, ep)
  BY <1>10, <1>11, <1>12, <1>13, TidyChange
<1>15. steps = <<a, b, c, d>>
  OBVIOUS
<1> HIDE DEF a, b, c, d, h2
<1>16. Part(e, h, r, <<a, b>>, h2, r1)
  BY <1>3, <1>6, PartTwo
<1>17. Part(e, h, r, <<a, b, c>>, h2, r2)
  BY <1>7, <1>16, PartThree
<1>18. Part(e, h, r, <<a, b, c, d>>, h2, r3)
  BY <1>9, <1>17, PartFour
<1> QED BY <1>14, <1>15, <1>18

(* Every kind of endpoint.                                                 *)
LEMMA PartEndpoint ==
  ASSUME NEW e, NEW kind, NEW ep \in Ends2, NEW h, NEW r, Tidy(h, r), Fresh(r, ep)
  PROVE  \E g, q : /\ Part(e, h, r, open_relay_endpoint(kind, ep, CloseBoth), g, q)
                   /\ Tidy(g, q) /\ Spares(r, q, ep)
<1> DEFINE served == << Step("accept", ep.client, ep.fd2, CloseBoth), Free(<<ep.fd1>>),
                        Store(ep.fd1, ep.client), Store(ep.fd2, "") >>
           Opens(p) == \E g, q : Part(e, h, r, p, g, q) /\ Tidy(g, q) /\ Spares(r, q, ep)
           hs == h \cup {ep.sock}
           rs == [r EXCEPT ![ep.fd1] = ep.sock]
<1>1. CloseBoth \in Undo /\ Clean(h, r, CloseBoth, {})
  BY CleanTidy
<1>2. /\ ep.fd1 \in Fields /\ ep.proc \in Fields /\ ep.sock \in Resources /\ ep.child \in Resources
      /\ ep.sock # "addrinfo" /\ "addrinfo" \notin h
  <2>1. "addrinfo" \notin OwnResources(Left) /\ "addrinfo" \notin OwnResources(Right)
    BY EndpointNames DEF Ends2
  <2>2. "addrinfo" \notin h
    BY <2>1, HeldOwn DEF Tidy, Ends2
  <2> QED BY <2>2, EndpointNames DEF OwnResources
<1>3. Tidy(hs, rs) /\ Spares(r, rs, ep) /\ rs[ep.proc] = "" /\ rs[ep.fd1] = ep.sock /\ rs[ep.fd2] = ""
  BY TidySocket
<1>4. Spares(r, r, ep) /\ \A q, t : Spares(r, q, ep) /\ Spares(q, t, ep) => Spares(r, t, ep)
  BY DEF Spares
<1>5. ASSUME NEW call, call \notin {"free", "store"}
      PROVE  /\ Part(e, h, r, <<Check(call, CloseBoth)>>, h, r)
             /\ Part(e, h, r, <<Step(call, ep.sock, ep.fd1, CloseBoth)>>, hs, rs)
             /\ Part(e, h, r, AddressLoop(call, ep.sock, ep.fd1, CloseBoth), hs, rs)
  <2>1. Part(e, h, r, <<Check(call, CloseBoth)>>, h, r)
    BY <1>1, <1>5, PartStep
  <2>2. Part(e, h, r, <<Step(call, ep.sock, ep.fd1, CloseBoth)>>, hs, rs)
    BY <1>1, <1>2, <1>5, PartStep
  <2>3. Part(e, h, r, AddressLoop(call, ep.sock, ep.fd1, CloseBoth), hs, rs)
    BY <1>1, <1>2, <1>5, PartLoop
  <2> QED BY <2>1, <2>2, <2>3
<1>6. Part(e, h, r, <<Step("spawn", ep.child, ep.proc, CloseBoth)>>, h \cup {ep.child}, [r EXCEPT ![ep.proc] = ep.child])
  BY <1>1, <1>2, PartStep
<1>7. Opens(<<Step("spawn", ep.child, ep.proc, CloseBoth)>>)
  <2> DEFINE q == [r EXCEPT ![ep.proc] = ep.child]
             g == h \cup {ep.child}
  <2>1. Part(e, h, r, <<Step("spawn", ep.child, ep.proc, CloseBoth)>>, g, q) /\ Tidy(g, q) /\ Spares(r, q, ep)
    BY <1>6, TidyChild
  <2> HIDE DEF q, g
  <2> QED BY <2>1
<1> HIDE DEF hs, rs
<1>8. \A p : Part(e, h, r, p, hs, rs) => Opens(p)
  BY <1>3
<1>9. Opens(<<>>) /\ Opens(<<Check("relay_spec", CloseBoth)>>)
  BY <1>4, <1>5, PartNothing
<1>10. ASSUME NEW p, Part(e, h, r, p, hs, rs) PROVE Opens(p \o served)
  <2>1. PICK g, q : Part(e, hs, rs, served, g, q) /\ Tidy(g, q) /\ Spares(rs, q, ep)
    BY <1>3, PartServed
  <2> HIDE DEF served
  <2>2. Part(e, h, r, p \o served, g, q)
    BY <1>10, <2>1, PartJoin
  <2>3. Spares(r, q, ep)
    BY <1>3, <1>4, <2>1
  <2> QED BY <2>1, <2>2, <2>3
<1>11. /\ Part(e, h, r, wcat_unix_connect(ep.sock, ep.fd1, CloseBoth), hs, rs)
       /\ Part(e, h, r, wcat_unix_listen(ep.sock, ep.fd1, CloseBoth), hs, rs)
  BY <1>5, PartTwo DEF wcat_unix_connect, wcat_unix_listen
<1>12. /\ Part(e, h, r, <<Check("relay_spec", CloseBoth)>> \o inet_connect(ep.sock, ep.fd1, CloseBoth), hs, rs)
       /\ Part(e, h, r, <<Check("relay_spec", CloseBoth)>> \o inet_listen(ep.sock, ep.fd1, CloseBoth), hs, rs)
  BY <1>5, PartJoin DEF inet_connect, inet_listen
<1>13. Part(e, h, r, <<Step("open", ep.sock, ep.fd1, CloseBoth)>>, hs, rs)
  BY <1>5
<1> HIDE DEF Opens
<1>14. CASE kind = "stdio"
  BY <1>9, <1>14 DEF open_relay_endpoint, Opens
<1>15. CASE kind = "tcp"
  BY <1>8, <1>12, <1>15 DEF open_relay_endpoint, Opens
<1>16. CASE kind = "unix"
  BY <1>8, <1>11, <1>16 DEF open_relay_endpoint, Opens
<1>17. CASE kind = "listen"
  BY <1>10, <1>12, <1>17 DEF open_relay_endpoint, Opens
<1>18. CASE kind = "unix-listen"
  BY <1>10, <1>11, <1>18 DEF open_relay_endpoint, Opens
<1>19. CASE kind = "file"
  BY <1>8, <1>13, <1>19 DEF open_relay_endpoint, Opens
<1>20. CASE kind = "exec"
  BY <1>7, <1>20 DEF open_relay_endpoint, Opens
<1>21. CASE kind \notin {"stdio", "tcp", "unix", "listen", "unix-listen", "file", "exec"}
  BY <1>9, <1>21 DEF open_relay_endpoint, Opens
<1> QED BY <1>14, <1>15, <1>16, <1>17, <1>18, <1>19, <1>20, <1>21

(* relay.                                                                  *)
LEMMA PartRelay ==
  ASSUME NEW e, NEW cfg, NEW r, Tidy({}, r), Fresh(r, Left), Fresh(r, Right)
  PROVE  \E g, q : Part(e, {}, r, run_relay(cfg), g, q)
<1> DEFINE s1 == open_relay_endpoint(cfg.left, Left, CloseBoth)
           s2 == open_relay_endpoint(cfg.right, Right, CloseBoth)
           s3 == <<Check("relay", CloseBoth)>>
<1>1. Left \in Ends2 /\ Right \in Ends2 /\ Left # Right
  BY EndpointsApart DEF Ends2
<1>2. PICK h1, r1 : Part(e, {}, r, s1, h1, r1) /\ Tidy(h1, r1) /\ Spares(r, r1, Left)
  BY <1>1, PartEndpoint
<1>3. Fresh(r1, Right)
  BY <1>1, <1>2 DEF Spares
<1>4. PICK h2, r2 : Part(e, h1, r1, s2, h2, r2) /\ Tidy(h2, r2)
  BY <1>1, <1>2, <1>3, PartEndpoint
<1>5. CloseBoth \in Undo /\ Clean(h2, r2, CloseBoth, {})
  BY <1>4, CleanTidy
<1>6. Part(e, h2, r2, s3, h2, r2)
  BY <1>5, PartStep
<1> HIDE DEF s1, s2, s3
<1>7. Part(e, {}, r, s1 \o s2 \o s3, h2, r2)
  BY <1>2, <1>4, <1>6, PartJoin
<1>8. run_relay(cfg) = s1 \o s2 \o s3
  BY DEF run_relay, CloseBoth, s1, s2, s3
<1> QED BY <1>7, <1>8

(* A command starts with nothing, and every program leads from there       *)
(* through steps each of which releases all that is held when it fails or  *)
(* ends the command.                                                       *)
NoRefs == [f \in Fields |-> ""]
(* So does that of every configuration of every command.                   *)
LEMMA ProgramRuns ==
  ASSUME NEW cfg, cfg.mode \in {"none", "connect", "listen", "send", "recv", "relay"}
  PROVE  \E g, q : Part(cfg.mode = "connect", {}, NoRefs, Program(cfg), g, q)
<1> DEFINE e == cfg.mode = "connect"
           r == NoRefs
           a == Check("parse_args", <<>>)
           b == Check("wcat_signal_setup", <<>>)
           c == Check("wcat_tls_global_init", <<>>)
           main == CASE cfg.mode = "connect" -> IF cfg.quic THEN run_quic_connect(cfg) ELSE run_connect(cfg)
                     [] cfg.mode = "listen" -> run_quic_listen(cfg)
                     [] cfg.mode = "send" -> wcat_send_file(cfg)
                     [] cfg.mode = "recv" -> wcat_recv_file(cfg)
                     [] cfg.mode = "relay" -> run_relay(cfg)
<1>1. r \in Refs /\ \A f \in Fields : r[f] = ""
  BY DEF Refs, NoRefs
<1>2. /\ r["s.ctx"] = "" /\ r["s.ssl"] = "" /\ Bare(r, "") /\ Listens(r, "", "", "", "")
      /\ Tidy({}, r) /\ Fresh(r, Left) /\ Fresh(r, Right)
  <2> HIDE DEF r
  <2>1. /\ {"s.fd", "s.owned", "s.ssl", "s.ctx", "l.fd", "l.listener", "l.ctx"} \subseteq Fields
        /\ Left \in Ends2 /\ Right \in Ends2
    BY DEF Fields, Ends2
  <2>2. Bare(r, "") /\ Listens(r, "", "", "", "")
    BY <1>1, <2>1 DEF Bare, Listens
  <2>3. Fresh(r, Left) /\ Fresh(r, Right)
    BY <1>1, <2>1, EndpointNames DEF Fresh
  <2>4. Tidy({}, r)
    BY <1>1, <2>1, <2>3, EndpointNames DEF Tidy, Kept, Held, Fresh, OwnResources
  <2> QED BY <1>1, <2>1, <2>2, <2>3, <2>4
<1> HIDE DEF e, r
<1>3. cfg.mode # "none" => \E g, q : Part(e, {}, r, main, g, q)
  <2>1. CASE cfg.mode = "connect"
    <3>1. e = TRUE
      BY <2>1 DEF e
    <3>2. CASE cfg.quic
      <4>1. main = run_quic_connect(cfg)
        BY <2>1, <3>2
      <4> HIDE DEF main
      <4> QED BY <1>2, <4>1, PartQuicConnect
    <3>3. CASE ~cfg.quic
      <4>1. main = run_connect(cfg)
        BY <2>1, <3>3
      <4> HIDE DEF main
      <4> QED BY <1>1, <1>2, <3>1, <4>1, PartRunConnect
    <3> QED BY <3>2, <3>3
  <2>2. CASE cfg.mode = "listen"
    <3>1. main = run_quic_listen(cfg)
      BY <2>2
    <3> HIDE DEF main
    <3> QED BY <1>2, <3>1, PartQuicListen
  <2>3. CASE cfg.mode = "send"
    <3>1. main = wcat_send_file(cfg)
      BY <2>3
    <3> HIDE DEF main
    <3> QED BY <1>1, <1>2, <3>1, PartSend
  <2>4. CASE cfg.mode = "recv"
    <3>1. main = wcat_recv_file(cfg)
      BY <2>4
    <3> HIDE DEF main
    <3> QED BY <1>1, <1>2, <3>1, PartRecv
  <2>5. CASE cfg.mode = "relay"
    <3>1. main = run_relay(cfg)
      BY <2>5
    <3> HIDE DEF main
    <3> QED BY <1>2, <3>1, PartRelay
  <2> QED BY <2>1, <2>2, <2>3, <2>4, <2>5
<1>4. Program(cfg) = IF cfg.mode = "none" THEN <<>> ELSE <<a, b, c>> \o main
  BY DEF Program
<1>5. Part(e, {}, r, <<a, b, c>>, {}, r)
  <2>1. <<>> \in Undo /\ Clean({}, r, <<>>, {})
    BY UndoTyped, CleanNothing
  <2>2. Part(e, {}, r, <<a>>, {}, r) /\ Part(e, {}, r, <<b>>, {}, r) /\ Part(e, {}, r, <<c>>, {}, r)
    BY <2>1, PartStep
  <2> HIDE DEF a, b, c
  <2>3. Part(e, {}, r, <<a, b>>, {}, r)
    BY <2>2, PartTwo
  <2> QED BY <2>2, <2>3, PartThree
<1> DEFINE s == <<a, b, c>>
<1> HIDE DEF s, main
<1>6. CASE cfg.mode = "none"
  BY <1>4, <1>6, PartNothing DEF e, r
<1>7. CASE cfg.mode # "none"
  <2>1. PICK g, q : Part(e, {}, r, main, g, q)
    BY <1>3, <1>7
  <2>2. Part(e, {}, r, s \o main, g, q)
    BY <1>5, <2>1, PartJoin DEF s
  <2>3. Program(cfg) = s \o main
    BY <1>4, <1>7 DEF s
  <2> QED BY <2>2, <2>3 DEF e, r
<1> QED BY <1>6, <1>7

-----------------------------------------------------------------------------
(* A command that uses a proxy speaks to it, and before its relay.         *)

(* send and recv have no relay.                                            *)
LEMMA NoRelay ==
  ASSUME NEW p, IsSteps(p, TRUE)
  PROVE  ~Has(p, "relay")
<1>1. \A k \in DOMAIN p : IsStep(p[k], TRUE)
  BY StepsAreSequence
<1> QED BY <1>1 DEF Has, IsStep, FileCall

(* The connection to the proxy.                                            *)
LEMMA ProxyConnectHas ==
  ASSUME NEW cfg, cfg.proxy # "none", NEW undo \in Undo
  PROVE  LET p == wcat_proxy_connect(cfg, undo) IN IsSteps(p, TRUE) /\ Has(p, "negotiate")
<1> DEFINE A == inet_connect("sock", "", undo)
           a == Check("negotiate", <<"sock">> \o undo)
<1>1. wcat_proxy_connect(cfg, undo) = A \o <<a>>
  BY DEF wcat_proxy_connect, When
<1>2. "sock" \in Resources /\ "" \in Fields \cup {""} /\ FileCall("connect", "sock")
  BY DEF Resources, FileCall
<1>3. IsSteps(A, TRUE)
  BY <1>2, AddressLoopTyped DEF inet_connect
<1>4. IsStep(a, TRUE) /\ a.call = "negotiate"
  <2>1. <<"sock">> \o undo \in Undo
    BY <1>2, UndoTyped
  <2>2. IsStep(a, TRUE)
    BY <2>1, StepTyped
  <2> QED BY <2>2 DEF Check, Step
<1> HIDE DEF A, a
<1>5. IsSteps(<<a>>, TRUE) /\ Has(<<a>>, "negotiate")
  BY <1>4, OneStep
<1> QED BY <1>1, <1>3, <1>5, ConcatHas

(* send.                                                                   *)
LEMMA SendNegotiates ==
  ASSUME NEW cfg, cfg.proxy # "none"
  PROVE  LET p == wcat_send_file(cfg) IN IsSteps(p, TRUE) /\ Has(p, "negotiate")
<1> DEFINE A == << Step("open", "file", "", <<>>), Check("proxy_parse", <<"file">>) >>
           B == wcat_proxy_connect(cfg, <<"file">>)
           C == When(cfg.tls, wcat_tls_client_open(cfg, "sock", <<"file">>))
           d == Check("copy", (IF cfg.tls THEN wcat_tls_close ELSE <<"sock">>) \o <<"file">>)
<1>1. wcat_send_file(cfg) = ((A \o B) \o C) \o <<d>>
  BY DEF wcat_send_file
<1>2. "sock" \in Resources /\ "file" \in Resources /\ "file" \in Resources \cup {""} /\ "" \in Fields \cup {""}
      /\ FileCall("open", "file")
  BY DEF Resources, FileCall
<1>3. <<>> \in Undo /\ <<"file">> \in Undo /\ (IF cfg.tls THEN wcat_tls_close ELSE <<"sock">>) \o <<"file">> \in Undo
  BY <1>2, UndoTyped
<1>4. IsSteps(A, TRUE)
  <2>1. IsStep(Step("open", "file", "", <<>>), TRUE) /\ IsStep(Check("proxy_parse", <<"file">>), TRUE)
    BY <1>2, <1>3, StepTyped
  <2> QED BY <2>1, PiecesJoin
<1>5. IsSteps(B, TRUE) /\ Has(B, "negotiate")
  BY <1>3, ProxyConnectHas
<1>6. IsSteps(C, TRUE)
  <2>1. IsSteps(wcat_tls_client_open(cfg, "sock", <<"file">>), TRUE)
    BY <1>2, <1>3, TlsClientTyped
  <2> QED BY <2>1, PiecesJoin
<1>7. IsSteps(<<d>>, TRUE)
  <2>1. IsStep(d, TRUE)
    BY <1>3, StepTyped
  <2> HIDE DEF d
  <2> QED BY <2>1, PiecesJoin
<1> HIDE DEF A, B, C, d
<1>8. IsSteps(A \o B, TRUE) /\ Has(A \o B, "negotiate")
  BY <1>4, <1>5, ConcatHas
<1> DEFINE AB == A \o B
<1> HIDE DEF AB
<1>9. IsSteps(AB \o C, TRUE) /\ Has(AB \o C, "negotiate")
  BY <1>6, <1>8, ConcatHas DEF AB
<1> DEFINE ABC == AB \o C
<1> HIDE DEF ABC
<1>10. IsSteps(ABC \o <<d>>, TRUE) /\ Has(ABC \o <<d>>, "negotiate")
  BY <1>7, <1>9, ConcatHas DEF ABC
<1> QED BY <1>1, <1>10 DEF AB, ABC

(* connect, over TCP.                                                      *)
LEMMA ConnectNegotiates ==
  ASSUME NEW cfg, cfg.proxy # "none", {"udp", "unix", "vsock", "sctp"} \cap cfg.flags = {}
  PROVE  LET p == run_connect(cfg)
         IN  IsSteps(p, FALSE) /\ Has(p, "negotiate") /\ Before(p, "negotiate", "relay")
<1> DEFINE child == IF cfg.exec THEN <<"child">> ELSE <<>>
           a == Check("proxy_parse", <<>>)
           A == wcat_proxy_connect(cfg, <<>>)
           b == Step("spawn", "child", "", <<>>)
           B == When(cfg.exec, <<b>>)
           C == When(cfg.tls, wcat_tls_client_open(cfg, "sock", child))
           d == Check("relay", child \o (IF cfg.tls THEN wcat_tls_close ELSE <<"sock">>))
<1>1. run_connect(cfg) = (<<a>> \o A) \o ((B \o C) \o <<d>>)
  <2>1. "udp" \notin cfg.flags /\ "unix" \notin cfg.flags /\ "vsock" \notin cfg.flags /\ "sctp" \notin cfg.flags
    OBVIOUS
  <2> QED BY <2>1 DEF run_connect, relay_peer, connect_socket
<1>2. "sock" \in Resources /\ "child" \in Resources /\ "child" \in Resources \cup {""} /\ "" \in Fields \cup {""}
      /\ FileCall("spawn", "child")
  BY DEF Resources, FileCall
<1>3. <<>> \in Undo /\ child \in Undo /\ child \o (IF cfg.tls THEN wcat_tls_close ELSE <<"sock">>) \in Undo
  BY <1>2, UndoTyped
<1>4. IsSteps(A, TRUE) /\ Has(A, "negotiate")
  BY <1>3, ProxyConnectHas
<1>5. IsSteps(<<a>>, TRUE)
  <2>1. IsStep(a, TRUE)
    BY <1>3, StepTyped
  <2> HIDE DEF a
  <2> QED BY <2>1, PiecesJoin
<1>6. IsSteps(B, TRUE) /\ ~Has(B, "negotiate")
  <2>1. IsStep(b, TRUE) /\ b.call = "spawn"
    <3>1. IsStep(b, TRUE)
      BY <1>2, <1>3, StepTyped
    <3> QED BY <3>1 DEF Step
  <2> HIDE DEF b
  <2>2. IsSteps(<<b>>, TRUE) /\ ~Has(<<b>>, "negotiate")
    BY <2>1, PiecesJoin, LiteralHas
  <2> QED BY <2>2, PiecesJoin, LiteralHas DEF When
<1>7. IsSteps(C, TRUE) /\ ~Has(C, "negotiate")
  <2> HIDE DEF child
  <2>1. LET p == wcat_tls_client_open(cfg, "sock", child) IN IsSteps(p, TRUE) /\ ~Has(p, "negotiate")
    BY <1>2, <1>3, TlsClientTyped, TlsClientHas
  <2> QED BY <2>1, PiecesJoin, LiteralHas DEF When
<1>8. IsSteps(<<d>>, FALSE) /\ ~Has(<<d>>, "negotiate")
  <2>1. IsStep(d, FALSE) /\ d.call = "relay"
    <3>1. IsStep(d, FALSE)
      BY <1>3, OtherStepTyped
    <3> QED BY <3>1 DEF Check, Step
  <2> HIDE DEF d
  <2> QED BY <2>1, PiecesJoin, LiteralHas
<1> HIDE DEF a, A, B, C, d
<1> DEFINE F == <<a>> \o A
           BC == B \o C
           G == BC \o <<d>>
<1>9. IsSteps(F, FALSE) /\ Has(F, "negotiate") /\ ~Has(F, "relay")
  <2>1. IsSteps(F, TRUE) /\ Has(F, "negotiate")
    BY <1>4, <1>5, ConcatHas
  <2> HIDE DEF F
  <2> QED BY <2>1, NoRelay, FileStepsAreSteps
<1>10. IsSteps(BC, FALSE) /\ ~Has(BC, "negotiate")
  <2>1. IsSteps(BC, TRUE) /\ ~Has(BC, "negotiate")
    BY <1>6, <1>7, ConcatHas
  <2> HIDE DEF BC
  <2> QED BY <2>1, FileStepsAreSteps
<1> HIDE DEF F, BC
<1>11. IsSteps(G, FALSE) /\ ~Has(G, "negotiate")
  BY <1>8, <1>10, ConcatHas
<1> HIDE DEF G
<1>12. IsSteps(F \o G, FALSE) /\ Has(F \o G, "negotiate") /\ Before(F \o G, "negotiate", "relay")
  BY <1>9, <1>11, ConcatHas, BeforeJoins
<1> QED BY <1>1, <1>12 DEF F, G, BC

(* The whole program of a command that uses a proxy.                       *)
LEMMA ProxiedProgram ==
  ASSUME NEW cfg, UsesProxy(cfg)
  PROVE  Has(Program(cfg), "negotiate") /\ Before(Program(cfg), "negotiate", "relay")
<1> DEFINE a == Check("parse_args", <<>>)
           b == Check("wcat_signal_setup", <<>>)
           c == Check("wcat_tls_global_init", <<>>)
           s == <<a, b, c>>
           main == IF cfg.mode = "send" THEN wcat_send_file(cfg) ELSE run_connect(cfg)
<1>1. Program(cfg) = s \o main
  BY DEF Program, UsesProxy
<1>2. IsSteps(main, FALSE) /\ Has(main, "negotiate") /\ Before(main, "negotiate", "relay")
  <2>1. CASE cfg.mode = "send"
    <3> DEFINE p == wcat_send_file(cfg)
    <3>1. IsSteps(p, TRUE) /\ Has(p, "negotiate")
      BY SendNegotiates DEF UsesProxy
    <3> HIDE DEF p
    <3>2. IsSteps(p, FALSE) /\ ~Has(p, "relay")
      BY <3>1, FileStepsAreSteps, NoRelay
    <3>3. Before(p, "negotiate", "relay")
      BY <3>2 DEF Before, Has
    <3> QED BY <2>1, <3>1, <3>2, <3>3 DEF p
  <2>2. CASE cfg.mode # "send"
    BY <2>2, ConnectNegotiates DEF UsesProxy
  <2> QED BY <2>1, <2>2
<1>3. IsSteps(s, TRUE)
  <2>1. IsStep(a, TRUE) /\ IsStep(b, TRUE) /\ IsStep(c, TRUE)
    BY UndoTyped, StepTyped
  <2> HIDE DEF a, b, c
  <2> QED BY <2>1, PiecesJoin
<1> HIDE DEF s, main
<1>4. IsSteps(s, FALSE) /\ ~Has(s, "relay")
  BY <1>3, FileStepsAreSteps, NoRelay
<1>5. Has(s \o main, "negotiate") /\ Before(s \o main, "negotiate", "relay")
  BY <1>2, <1>4, ConcatHas, BeforeBehind
<1> QED BY <1>1, <1>5
=============================================================================
