--------------------------- MODULE TransferProofs ---------------------------
(***************************************************************************)
(* Proofs about Transfer, for every file, every buffer size, every set of  *)
(* scenarios and of faults.                                                *)
(***************************************************************************)
EXTENDS Transfer, LaunchProofs, AccessProofs

-----------------------------------------------------------------------------
(* What a step of Transfer may do to a command: it goes on, it ends, or it *)
(* stays where it is.                                                      *)

(* The address that an access check may see lets the peer in, or not.      *)
LetIn(p) == \E peer \in PeerAddr : wcat_access_check_fd(sc[p].allow, sc[p].deny, peer)
TurnedAway(p) == \E peer \in PeerAddr : ~wcat_access_check_fd(sc[p].allow, sc[p].deny, peer)

GoesOn(p) ==
    /\ Present(p) /\ ~Ended(p) /\ Advance(p)
    /\ ThisStep(p).call \notin LoopCalls
    /\ ThisStep(p).call = "parse_args" => wcat_parse_args(sc[p])
    /\ ThisStep(p).call = "access" => LetIn(p)
    /\ ThisStep(p).call = "accept" /\ sc[p].mode = "recv" => link' = "up"
    /\ ThisStep(p).call = "negotiate" => neg'.pc = "granted"
Finishes(p) ==
    /\ Present(p) /\ ~Ended(p) /\ \E st \in {0, 1, 2} : End(p, st)
    /\ ThisStep(p).call \notin {"store", "free"}
    /\ ThisStep(p).call = "access" => TurnedAway(p)
Overruns ==
    /\ Negotiating /\ status' = [status EXCEPT !["client"] = Killed]
    /\ held' = [held EXCEPT !["client"] = {}]
    /\ UNCHANGED <<todo, ref, wrong, addrs, stop, head>>
NextAddress(p) ==
    /\ ~LastAddress(p) /\ addrs' = [addrs EXCEPT ![p] = @ - 1]
    /\ UNCHANGED <<todo, status, account, stop, head>>
Remains ==
    /\ UNCHANGED <<todo, status, account, addrs>>
    /\ \E p \in Proc, b \in BOOLEAN :
          /\ stop' = stop \/ stop' = [stop EXCEPT ![p] = TRUE]
          /\ head' = head \/ head' = [head EXCEPT ![p] = b]
Moves(p) == GoesOn(p) \/ Finishes(p) \/ NextAddress(p)

(* A failed call ends the command, with one of its exit statuses.          *)
LEMMA FailedFinishes ==
  ASSUME NEW p, Present(p), ~Ended(p), Failed(p), ThisStep(p).call \notin {"store", "free"},
         ThisStep(p).call = "access" => TurnedAway(p)
  PROVE  Finishes(p)
<1>1. FailsWith(p) \in {0, 1, 2}
  BY DEF FailsWith, FailStatus
<1> QED BY <1>1 DEF Finishes, Failed

(* Or it goes on to the next address.                                      *)
LEMMA CallFailsMoves ==
  ASSUME NEW p, Present(p), ~Ended(p), CallFails(p),
         ThisStep(p).call \notin {"store", "free", "access"}
  PROVE  Moves(p)
BY FailedFinishes DEF CallFails, Moves, NextAddress

(* The steps that both commands can take.                                  *)
LEMMA WorkMoves ==
  ASSUME NEW p \in Proc, Work(p)
  PROVE  UNCHANGED sc /\ (Moves(p) \/ Remains)
<1>1. CASE Plain(p)
  BY <1>1 DEF Plain, Moves, GoesOn, Waiting, LoopCalls
<1>2. CASE ParseArgs(p)
  BY <1>2, FailedFinishes DEF ParseArgs, Doing, Moves, GoesOn, LoopCalls
<1>3. CASE Connect(p)
  BY <1>3 DEF Connect, Doing, Moves, GoesOn, LoopCalls
<1>4. CASE Refused(p)
  BY <1>4, CallFailsMoves DEF Refused, Doing
<1>5. CASE Accept(p)
  BY <1>5 DEF Accept, Doing, Moves, GoesOn, LoopCalls
<1>6. CASE AcceptStopped(p)
  BY <1>6, FailedFinishes DEF AcceptStopped, Doing, Moves
<1>7. CASE AccessCheck(p)
  BY <1>7, FailedFinishes DEF AccessCheck, Doing, Moves, GoesOn, LoopCalls, LetIn, TurnedAway
<1>8. CASE Handshake(p)
  BY <1>8 DEF Handshake, Shaking, ShakeCalls, Doing, Moves, GoesOn, LoopCalls
<1>9. CASE HandshakeBroken(p)
  BY <1>9, FailedFinishes DEF HandshakeBroken, Shaking, ShakeCalls, Doing, Moves
<1>10. CASE CopyTest(p)
  BY <1>10 DEF CopyTest, Doing, Moves, Finishes, Remains, account
<1>11. CASE RelayCopies(p)
  BY <1>11 DEF RelayCopies, Remains
<1>12. CASE RelayEnds(p)
  BY <1>12 DEF RelayEnds, Doing, Moves, Finishes
<1> QED BY <1>1, <1>2, <1>3, <1>4, <1>5, <1>6, <1>7, <1>8, <1>9, <1>10, <1>11, <1>12 DEF Work

(* Any step: one command moves, the client is killed by the overrun of its *)
(* reply buffer, or both remain where they are.                            *)
LEMMA NextMoves ==
  ASSUME Next
  PROVE  UNCHANGED sc /\ ((\E p \in Proc : Moves(p)) \/ Overruns \/ Remains)
<1>1. "client" \in Proc /\ "server" \in Proc
  BY DEF Proc
<1>2. CASE Work("client") \/ Work("server")
  BY <1>1, <1>2, WorkMoves
<1>3. CASE NegotiateStart
  BY <1>1, <1>3 DEF NegotiateStart, Remains
<1>4. CASE NegotiateRead
  <2>1. Negotiating /\ UNCHANGED sc
    BY <1>4 DEF NegotiateRead
  <2>2. \/ neg' = Granted /\ Advance("client")
        \/ Failed("client") \/ UNCHANGED <<todo, status, addrs, stop, head, account>>
    BY <1>4 DEF NegotiateRead
  <2>3. Granted.pc = "granted"
    BY DEF Granted, Reading
  <2> QED BY <1>1, <2>1, <2>2, <2>3, FailedFinishes DEF Negotiating, Doing, Moves, GoesOn, LoopCalls, Remains
<1>5. CASE NegotiateEof
  BY <1>1, <1>5, FailedFinishes DEF NegotiateEof, Negotiating, Doing, Moves
<1>6. CASE SendChunk
  BY <1>1, <1>6 DEF SendChunk, ToTest, Remains
<1>7. CASE SendEnds
  BY <1>1, <1>7 DEF SendEnds, Pumping, Doing, Moves, Finishes
<1>8. CASE RecvChunk
  BY <1>1, <1>8 DEF RecvChunk, Pumping, Doing, Moves, Finishes, ToTest, Remains
<1>9. CASE RecvEnds
  BY <1>1, <1>9 DEF RecvEnds, Pumping, Doing, Moves, Finishes
<1>10. CASE RecvAgain
  BY <1>1, <1>10 DEF RecvAgain, ToTest, Remains
<1>11. CASE Surroundings
  BY <1>1, <1>11 DEF Surroundings, ProxyGreets, ProxyConnects, PeerConnects, Remains
<1>12. CASE ProxyCloses
  BY <1>1, <1>12 DEF ProxyCloses, Remains
<1>13. CASE ReplyOverrun
  BY <1>13 DEF ReplyOverrun, Overruns
<1>14. CASE Reset
  BY <1>1, <1>14 DEF Reset, Remains
<1>15. CASE \E p \in Proc : Fail(p)
  BY <1>15, CallFailsMoves DEF Fail
<1>16. CASE \E p \in Proc : Signal(p)
  BY <1>1, <1>16 DEF Signal, Remains
<1> QED BY <1>2, <1>3, <1>4, <1>5, <1>6, <1>7, <1>8, <1>9, <1>10, <1>11, <1>12, <1>13, <1>14, <1>15, <1>16
        DEF Next, ClientWork, ServerWork

-----------------------------------------------------------------------------
(* Each command is somewhere in its program, and past its command line     *)
(* only if that was accepted.                                              *)

LaunchInv ==
    /\ sc \in Scenarios
    /\ todo = [p \in Proc |-> todo[p]] /\ status \in [Proc -> {-1, 0, 1, 2, Killed}]
    /\ \A p \in Proc : Present(p) =>
          /\ IsProgram(todo[p])
          /\ Head(todo[p]).call = "parse_args" \/ wcat_parse_args(sc[p])

(* A scenario's commands.                                                  *)
LEMMA ScenarioTyped ==
  ASSUME sc \in Scenarios, NEW p \in Proc
  PROVE  /\ sc[p].mode \in {"none", "connect", "listen", "send", "recv", "relay"}
         /\ IsList(sc[p].allow) /\ IsList(sc[p].deny) /\ IsPeer(sc.peer)
BY TransferAssumption DEF IsScenario, Proc

(* It holds at first.                                                      *)
LEMMA LaunchInit == Init => LaunchInv
<1> SUFFICES ASSUME Init PROVE LaunchInv
  OBVIOUS
<1>1. sc \in Scenarios /\ todo = [p \in Proc |-> Program(sc[p])] /\ status = [p \in Proc |-> -1]
  BY DEF Init
<1>2. ASSUME NEW p \in Proc, Present(p)
      PROVE  IsProgram(todo[p]) /\ Head(todo[p]).call = "parse_args"
  <2>1. sc[p].mode \in {"connect", "listen", "send", "recv", "relay"}
    BY <1>1, <1>2, ScenarioTyped DEF Present
  <2>2. todo[p] = Program(sc[p])
    BY <1>1
  <2> QED BY <2>1, <2>2, ProgramTyped
<1> QED BY <1>1, <1>2 DEF LaunchInv

(* A step of a command.                                                    *)
LEMMA MoveKeepsLaunch ==
  ASSUME LaunchInv, UNCHANGED sc, NEW p \in Proc, Moves(p)
  PROVE  LaunchInv'
<1>1. \A q \in Proc : Present(q)' = Present(q)
  BY DEF Present
<1>2. CASE GoesOn(p)
  <2>1. Present(p) /\ ThisStep(p).call \notin LoopCalls /\ UNCHANGED status
    BY <1>2 DEF GoesOn, Advance
  <2>2. todo' = [todo EXCEPT ![p] = Tail(todo[p])]
    BY <1>2 DEF GoesOn, Advance
  <2>3. IsSteps(Tail(todo[p]), FALSE) /\ Ends(Tail(todo[p]))
    BY <2>1, TailHas DEF LaunchInv, ThisStep, IsProgram
  <2>4. wcat_parse_args(sc[p])
    BY <1>2, <2>1 DEF LaunchInv, GoesOn, ThisStep
  <2>5. todo'[p] = Tail(todo[p]) /\ \A q \in Proc : q # p => todo'[q] = todo[q]
    BY <2>2 DEF LaunchInv
  <2>6. todo' = [q \in Proc |-> todo'[q]]
    BY <2>2 DEF LaunchInv
  <2> QED BY <1>1, <2>1, <2>3, <2>4, <2>5, <2>6 DEF LaunchInv, IsProgram
<1>3. CASE Finishes(p)
  BY <1>1, <1>3 DEF LaunchInv, Finishes, End
<1>4. CASE NextAddress(p)
  BY <1>1, <1>4 DEF LaunchInv, NextAddress
<1> QED BY <1>2, <1>3, <1>4 DEF Moves

(* Any step.                                                               *)
LEMMA LaunchStep == LaunchInv /\ [Next]_vars => LaunchInv'
<1> SUFFICES ASSUME LaunchInv, [Next]_vars PROVE LaunchInv'
  OBVIOUS
<1>1. CASE UNCHANGED vars
  BY <1>1 DEF LaunchInv, vars, Present
<1>2. CASE Next
  <2>1. UNCHANGED sc /\ ((\E p \in Proc : Moves(p)) \/ Overruns \/ Remains)
    BY <1>2, NextMoves
  <2>2. CASE Overruns
    BY <2>1, <2>2 DEF LaunchInv, Overruns, Present, Proc
  <2>3. CASE Remains
    BY <2>1, <2>3 DEF LaunchInv, Remains, Present
  <2> QED BY <2>1, <2>2, <2>3, MoveKeepsLaunch
<1> QED BY <1>1, <1>2

(* Every command is always somewhere in its program.                       *)
LEMMA LaunchHolds == Spec => []LaunchInv
BY LaunchInit, LaunchStep, PTL DEF Spec

-----------------------------------------------------------------------------
(* The access check of recv.                                               *)

PeerPermitted == Permitted(sc["server"].allow, sc["server"].deny, sc.peer)
AccessInv ==
    sc["server"].mode = "recv" =>
        /\ Has(todo["server"], "access") \/ PeerPermitted
        /\ Head(todo["server"]).call = "access" /\ Ended("server") => ~PeerPermitted \/ reset

(* What the check decides, at the step that makes it.                      *)
LEMMA CheckDecides ==
  ASSUME LaunchInv, sc["server"].mode = "recv", Head(todo["server"]).call = "access"
  PROVE  /\ LetIn("server") => PeerPermitted
         /\ TurnedAway("server") => ~PeerPermitted \/ reset
<1>1. "server" \in Proc /\ Present("server")
  BY DEF Proc, Present
<1>2. wcat_parse_args(sc["server"])
  BY <1>1 DEF LaunchInv
<1>3. wcat_access_validate_list(sc["server"].allow) /\ wcat_access_validate_list(sc["server"].deny)
  BY <1>2 DEF wcat_parse_args
<1>4. IsList(sc["server"].allow) /\ IsList(sc["server"].deny) /\ IsPeer(sc.peer)
  BY <1>1, ScenarioTyped DEF LaunchInv
<1>5. wcat_access_check_fd(sc["server"].allow, sc["server"].deny, sc.peer) <=> PeerPermitted
  BY <1>3, <1>4, ListsMeanBits DEF PeerPermitted
<1>6. wcat_access_check_fd(sc["server"].allow, sc["server"].deny, NoAddress) => PeerPermitted
  BY DEF wcat_access_check_fd, PeerPermitted, Permitted, NoAddress, Family
<1>7. \A peer \in PeerAddr : peer = sc.peer \/ (peer = NoAddress /\ reset)
  BY DEF PeerAddr
<1> QED BY <1>5, <1>6, <1>7 DEF LetIn, TurnedAway

(* A connection that was reset stays so.                                   *)
LEMMA ResetStays == Next /\ reset => reset'
<1> SUFFICES ASSUME Next, reset PROVE reset'
  OBVIOUS
<1>1. ASSUME NEW p, Work(p) PROVE reset'
  <2>1. CASE Plain(p) \/ ParseArgs(p) \/ Connect(p) \/ Refused(p)
    BY <2>1 DEF Plain, ParseArgs, Connect, Refused, net
  <2>2. CASE Accept(p) \/ AcceptStopped(p) \/ AccessCheck(p) \/ Handshake(p)
    BY <2>2 DEF Accept, AcceptStopped, AccessCheck, Handshake, net
  <2>3. CASE HandshakeBroken(p) \/ CopyTest(p) \/ RelayCopies(p) \/ RelayEnds(p)
    BY <2>3 DEF HandshakeBroken, CopyTest, RelayCopies, RelayEnds, net
  <2> QED BY <1>1, <2>1, <2>2, <2>3 DEF Work
<1>2. CASE NegotiateStart \/ NegotiateRead \/ NegotiateEof \/ SendChunk \/ SendEnds
  BY <1>2 DEF NegotiateStart, NegotiateRead, NegotiateEof, SendChunk, SendEnds, net
<1>3. CASE RecvChunk \/ RecvEnds \/ RecvAgain
  BY <1>3 DEF RecvChunk, RecvEnds, RecvAgain, net
<1>4. CASE Surroundings \/ ProxyCloses \/ ReplyOverrun \/ Reset
  BY <1>4 DEF Surroundings, ProxyGreets, ProxyConnects, PeerConnects, ProxyCloses, ReplyOverrun, Reset, net
<1>5. CASE \E p \in Proc : Fail(p) \/ Signal(p)
  BY <1>5 DEF Fail, Signal, net
<1> QED BY <1>1, <1>2, <1>3, <1>4, <1>5 DEF Next, ClientWork, ServerWork

(* The step that takes the check away is one that lets the peer in.        *)
LEMMA AccessStep == LaunchInv /\ AccessInv /\ [Next]_vars => AccessInv'
<1> SUFFICES ASSUME LaunchInv, AccessInv, [Next]_vars, (sc["server"].mode = "recv")' PROVE AccessInv'
  BY DEF AccessInv
<1>1. "server" \in Proc /\ "client" \in Proc /\ "client" # "server"
  BY DEF Proc
<1>2. CASE UNCHANGED vars
  BY <1>2 DEF AccessInv, vars, net, PeerPermitted, Ended
<1>3. CASE Next
  <2>1. UNCHANGED sc /\ ((\E p \in Proc : Moves(p)) \/ Overruns \/ Remains) /\ (reset => reset')
    BY <1>3, NextMoves, ResetStays
  <2>2. sc["server"].mode = "recv" /\ (PeerPermitted' <=> PeerPermitted) /\ Present("server")
    BY <2>1 DEF PeerPermitted, Present
  <2>3. IsSteps(todo["server"], FALSE) /\ Ends(todo["server"])
    BY <1>1, <2>2 DEF LaunchInv, IsProgram
  <2>4. CASE todo'["server"] = todo["server"] /\ status'["server"] = status["server"]
    BY <2>1, <2>2, <2>4 DEF AccessInv, Ended
  <2>5. CASE GoesOn("server")
    <3>1. todo'["server"] = Tail(todo["server"]) /\ ~Ended("server") /\ UNCHANGED status
      BY <1>1, <2>5 DEF GoesOn, Advance, LaunchInv
    <3>2. Head(todo["server"]).call \notin LoopCalls
      BY <2>5 DEF GoesOn, ThisStep
    <3>3. Has(todo["server"], "access") <=> Head(todo["server"]).call = "access" \/ Has(Tail(todo["server"]), "access")
      BY <2>3, <3>2, TailHas
    <3>4. Head(todo["server"]).call = "access" => PeerPermitted
      BY <2>2, <2>5, CheckDecides DEF GoesOn, ThisStep
    <3>5. ~Ended("server")'
      BY <3>1 DEF Ended
    <3> QED BY <2>2, <3>1, <3>3, <3>4, <3>5 DEF AccessInv
  <2>6. CASE Finishes("server")
    <3>1. UNCHANGED todo
      BY <2>6 DEF Finishes, End
    <3>2. Head(todo["server"]).call = "access" => ~PeerPermitted \/ reset
      BY <2>2, <2>6, CheckDecides DEF Finishes, ThisStep
    <3> QED BY <2>1, <2>2, <3>1, <3>2 DEF AccessInv
  <2>7. \/ todo'["server"] = todo["server"] /\ status'["server"] = status["server"]
        \/ GoesOn("server") \/ Finishes("server")
    <3>1. CASE Overruns
      BY <1>1, <3>1 DEF Overruns, LaunchInv
    <3>2. CASE Remains
      BY <3>2 DEF Remains
    <3>3. CASE Moves("server")
      BY <3>3 DEF Moves, NextAddress
    <3>4. CASE Moves("client")
      BY <1>1, <3>4 DEF Moves, NextAddress, GoesOn, Advance, Finishes, End, LaunchInv
    <3> QED BY <2>1, <3>1, <3>2, <3>3, <3>4 DEF Proc
  <2> QED BY <2>4, <2>5, <2>6, <2>7
<1> QED BY <1>2, <1>3

(* The check of a program that is still to come, in Transfer's words.      *)
LEMMA HasComes ==
  ASSUME NEW p, IsSteps(todo[p], FALSE), Ends(todo[p]), NEW call, Has(todo[p], call)
  PROVE  ThisStep(p).call = call \/ ComesTo(p, call)
<1>1. DOMAIN todo[p] = 1..Len(todo[p]) /\ Len(todo[p]) \in Nat /\ Head(todo[p]) = todo[p][1]
  BY StepsAreSequence DEF Ends
<1>2. PICK k \in 1..Len(todo[p]) : todo[p][k].call = call
  BY <1>1 DEF Has
<1>3. k = 1 \/ k \in 2..Len(todo[p])
  BY <1>1
<1> QED BY <1>1, <1>2, <1>3 DEF ThisStep, ComesTo

(* A peer of recv is served only if the lists, bit by bit, let it in, and  *)
(* turned away only if they do not or its connection was reset: for all    *)
(* lists, addresses and address widths, whatever else happens in between   *)
(* (access.c, wcat_recv_file).                                             *)
THEOREM AccessIsDecided == Spec => []AccessDecides
<1>1. Init => AccessInv
  <2> SUFFICES ASSUME Init, sc["server"].mode = "recv" PROVE AccessInv
    BY DEF AccessInv
  <2>1. "server" \in Proc
    BY DEF Proc
  <2>2. todo["server"] = Program(sc["server"]) /\ ~Ended("server")
    BY <2>1 DEF Init, Ended
  <2>3. Has(Program(sc["server"]), "access")
    BY ProgramTyped
  <2> QED BY <2>2, <2>3 DEF AccessInv
<1>2. LaunchInv /\ AccessInv => AccessDecides
  <2> SUFFICES ASSUME LaunchInv, AccessInv, sc["server"].mode = "recv" PROVE AccessDecides
    BY DEF AccessDecides
  <2>1. IsSteps(todo["server"], FALSE) /\ Ends(todo["server"])
    BY DEF LaunchInv, Proc, Present, IsProgram
  <2>2. Has(todo["server"], "access") => ThisStep("server").call = "access" \/ ComesTo("server", "access")
    BY <2>1, HasComes
  <2> QED BY <2>2 DEF AccessInv, AccessDecides, PeerPermitted, ThisStep
<1> QED BY <1>1, <1>2, LaunchHolds, AccessStep, PTL DEF Spec

-----------------------------------------------------------------------------
(* Types.                                                                  *)

AccountOK ==
    /\ held \in [Proc -> SUBSET Resources]
    /\ ref \in [Proc -> [Fields -> Resources \cup {""}]]
    /\ wrong \subseteq Resources
    /\ addrs \in [Proc -> 1..MaxAddr]
    /\ stop \in [Proc -> BOOLEAN] /\ head \in [Proc -> BOOLEAN]

NetOK ==
    /\ link \in {"none", "backlog", "up"} /\ reset \in BOOLEAN
    /\ wire \in Seq(ToSet(File)) /\ Len(wire) <= WireMax
    /\ down \in Seq(Nat)
    /\ proxy \in {"idle", "greeted", "answered", "asked", "tunnel", "closed"}

(* The negotiation: a finished one reads nothing more, and the length of a *)
(* name is one byte.                                                       *)
NegType == [pc : {"start", "head", "method", "reply", "length", "bound", "rejected", "granted"},
            need : Nat, got : Seq(Nat)]
IsNeg(n) ==
    /\ n \in NegType
    /\ n.pc \in {"rejected", "granted"} => n.need = 0 /\ n.got = <<>>
    /\ n.pc = "length" => n.need = 1

CopyOK ==
    /\ fpos \in 0..Len(File) /\ ioerr \in BOOLEAN
    /\ out \in [Proc -> Seq(Nat)]

(* What is released is a resource, or nothing.                             *)
LEMMA NamedTyped ==
  ASSUME AccountOK, NEW p \in Proc, NEW undo \in Undo
  PROVE  /\ DOMAIN Named(p, undo) = DOMAIN undo
         /\ \A k \in DOMAIN undo : Named(p, undo)[k] \in Resources \cup {""}
<1>1. DOMAIN Named(p, undo) = DOMAIN undo
  BY DEF Named
<1>2. ASSUME NEW k \in DOMAIN undo PROVE Named(p, undo)[k] \in Resources \cup {""}
  <2>1. undo[k] \in Fields \cup Resources
    BY DEF Undo, Names
  <2>2. CASE undo[k] \in Fields
    <3>1. ref[p] \in [Fields -> Resources \cup {""}]
      BY DEF AccountOK
    <3>2. ref[p][undo[k]] \in Resources \cup {""}
      BY <2>2, <3>1
    <3> QED BY <2>2, <3>2 DEF Named
  <2>3. CASE undo[k] \notin Fields
    BY <2>1, <2>3 DEF Named
  <2> QED BY <2>2, <2>3
<1> QED BY <1>1, <1>2

(* Releasing keeps the account in type.                                    *)
LEMMA ReleaseTyped ==
  ASSUME AccountOK, NEW p \in Proc, NEW undo \in Undo, Release(p, undo)
  PROVE  /\ held' \in [Proc -> SUBSET Resources] /\ wrong' \subseteq Resources /\ UNCHANGED ref
<1>1. held' \in [Proc -> SUBSET Resources]
  <2>1. held' = [held EXCEPT ![p] = held[p] \ ToSet(Named(p, undo))]
    BY DEF Release
  <2>2. held \in [Proc -> SUBSET Resources]
    BY DEF AccountOK
  <2>3. held[p] \ ToSet(Named(p, undo)) \in SUBSET Resources
    BY <2>2
  <2> QED BY <2>1, <2>2, <2>3
<1>2. Misused(p, undo) \subseteq Resources
  <2>1. \A x \in Misused(p, undo) : \E k \in DOMAIN Named(p, undo) : x = Named(p, undo)[k] /\ x # ""
    BY DEF Misused
  <2> QED BY <2>1, NamedTyped
<1> QED BY <1>1, <1>2 DEF Release, AccountOK

(* A command goes on.                                                      *)
LEMMA AdvanceTyped ==
  ASSUME AccountOK, NEW p \in Proc, IsStep(ThisStep(p), FALSE), Advance(p)
  PROVE  AccountOK'
<1> DEFINE s == ThisStep(p)
<1>1. s.val \in Resources \cup {""} /\ s.into \in Fields \cup {""} /\ s.undo \in Undo
  BY DEF IsStep
<1>2. addrs' \in [Proc -> 1..MaxAddr]
  <2>1. MaxAddr \in 1..MaxAddr
    BY TransferAssumption
  <2> QED BY <2>1 DEF Advance, AccountOK
<1>3. UNCHANGED <<stop, head>>
  BY DEF Advance
<1>4. CASE s.call = "free"
  <2>1. Release(p, s.undo)
    BY <1>4 DEF Advance
  <2> QED BY <1>1, <1>2, <1>3, <2>1, ReleaseTyped DEF AccountOK
<1>5. CASE s.call # "free"
  <2>1. UNCHANGED wrong
    BY <1>5 DEF Advance
  <2>2. held' \in [Proc -> SUBSET Resources]
    <3>1. \/ held' = [held EXCEPT ![p] = held[p]]
          \/ held' = [held EXCEPT ![p] = held[p] \cup ({s.val} \ {""})]
      BY <1>5 DEF Advance
    <3>2. {s.val} \ {""} \subseteq Resources
      BY <1>1
    <3> QED BY <3>1, <3>2 DEF AccountOK
  <2>3. ref' \in [Proc -> [Fields -> Resources \cup {""}]]
    <3>1. CASE s.into = ""
      BY <1>5, <3>1 DEF Advance, AccountOK
    <3>2. CASE s.into # ""
      <4>1. ref' = [ref EXCEPT ![p] = [ref[p] EXCEPT ![s.into] = s.val]]
        BY <1>5, <3>2 DEF Advance
      <4>2. [ref[p] EXCEPT ![s.into] = s.val] \in [Fields -> Resources \cup {""}]
        BY <1>1, <3>2 DEF AccountOK
      <4> QED BY <4>1, <4>2 DEF AccountOK
    <3> QED BY <3>1, <3>2
  <2> QED BY <1>2, <1>3, <2>1, <2>2, <2>3 DEF AccountOK
<1> QED BY <1>4, <1>5

(* A command moves.                                                        *)
LEMMA MoveTyped ==
  ASSUME LaunchInv, AccountOK, NEW p \in Proc, Moves(p)
  PROVE  AccountOK'
<1>1. ASSUME Present(p) PROVE IsStep(ThisStep(p), FALSE)
  <2>1. IsSteps(todo[p], FALSE) /\ Ends(todo[p])
    BY <1>1 DEF LaunchInv, IsProgram
  <2>2. 1 \in DOMAIN todo[p] /\ (\A k \in DOMAIN todo[p] : IsStep(todo[p][k], FALSE))
    BY <2>1, StepsAreSequence DEF Ends
  <2>3. Head(todo[p]) = todo[p][1]
    BY <2>1, StepsAreSequence DEF Ends
  <2> QED BY <2>2, <2>3 DEF ThisStep
<1>2. CASE GoesOn(p)
  BY <1>1, <1>2, AdvanceTyped DEF GoesOn
<1>3. CASE Finishes(p)
  <2>1. Release(p, ThisStep(p).undo) /\ UNCHANGED <<addrs, stop, head>> /\ Present(p)
    BY <1>3 DEF Finishes, End
  <2>2. ThisStep(p).undo \in Undo
    BY <1>1, <2>1 DEF IsStep
  <2> QED BY <2>1, <2>2, ReleaseTyped DEF AccountOK
<1>4. CASE NextAddress(p)
  <2>1. addrs[p] - 1 \in 1..MaxAddr
    <3>1. addrs[p] \in 1..MaxAddr /\ addrs[p] # 1 /\ MaxAddr \in Nat
      BY <1>4, TransferAssumption DEF NextAddress, LastAddress, AccountOK
    <3> QED BY <3>1
  <2> QED BY <1>4, <2>1 DEF NextAddress, AccountOK, account
<1> QED BY <1>2, <1>3, <1>4 DEF Moves

(* The account, at any step.                                               *)
LEMMA AccountStep == LaunchInv /\ AccountOK /\ [Next]_vars => AccountOK'
<1> SUFFICES ASSUME LaunchInv, AccountOK, [Next]_vars PROVE AccountOK'
  OBVIOUS
<1>1. CASE UNCHANGED vars
  BY <1>1 DEF AccountOK, vars, account
<1>2. CASE Next
  <2>1. (\E p \in Proc : Moves(p)) \/ Overruns \/ Remains
    BY <1>2, NextMoves
  <2>2. CASE Overruns
    BY <2>2 DEF Overruns, AccountOK
  <2>3. CASE Remains
    <3>1. UNCHANGED <<held, ref, wrong, addrs>>
      BY <2>3 DEF Remains, account
    <3>2. stop' \in [Proc -> BOOLEAN] /\ head' \in [Proc -> BOOLEAN]
      BY <2>3 DEF Remains, AccountOK
    <3> QED BY <3>1, <3>2 DEF AccountOK
  <2> QED BY <2>1, <2>2, <2>3, MoveTyped
<1> QED BY <1>1, <1>2

(* Pieces of a sequence.                                                   *)
LEMMA PieceTyped ==
  ASSUME NEW S, NEW s \in Seq(S), NEW m \in Nat, NEW n \in Nat, n <= Len(s), m >= 1
  PROVE  SubSeq(s, m, n) \in Seq(S)
BY SubSeqProperties

(* The file is a sequence of its own bytes.                                *)
LEMMA FileTyped == File \in Seq(ToSet(File)) /\ Seq(ToSet(File)) \subseteq Seq(Nat) /\ Len(File) \in Nat
<1>1. File \in Seq(Nat)
  BY TransferAssumption
<1>2. File \in Seq(ToSet(File))
  BY <1>1 DEF ToSet
<1>3. ToSet(File) \subseteq Nat
  BY <1>1 DEF ToSet
<1> QED BY <1>1, <1>2, <1>3

(* The scenario's answers.                                                 *)
LEMMA AnswersTyped ==
  ASSUME sc \in Scenarios
  PROVE  sc.banner \in Seq(Nat) /\ sc.method \in Seq(Nat) /\ sc.reply \in Seq(Nat) /\ sc.refusal \in Seq(Nat)
BY TransferAssumption DEF IsScenario

(* The negotiation with a proxy.                                           *)
LEMMA ReadingTyped ==
  ASSUME NEW pc \in {"start", "head", "method", "reply", "length", "bound", "rejected", "granted"},
         NEW need \in Nat, pc \in {"rejected", "granted"} => need = 0, pc = "length" => need = 1
  PROVE  IsNeg(Reading(pc, need))
<1>1. <<>> \in Seq(Nat)
  OBVIOUS
<1> QED BY <1>1 DEF IsNeg, NegType, Reading

(* What follows a complete read of socks5_negotiate.                       *)
LEMMA Socks5Typed ==
  ASSUME NEW pc \in {"method", "reply", "length", "bound"}, NEW rep \in Seq(Nat),
         pc = "length" => Len(rep) >= 1
  PROVE  IsNeg(socks5_negotiate(pc, rep))
<1>1. IsNeg(Rejected) /\ IsNeg(Granted)
  BY ReadingTyped DEF Rejected, Granted
<1>2. CASE pc = "method"
  <2>1. IsNeg(Reading("reply", 4))
    BY ReadingTyped
  <2> QED BY <1>1, <1>2, <2>1 DEF socks5_negotiate
<1>3. CASE pc = "reply"
  <2>1. IsNeg(Reading("bound", 6)) /\ IsNeg(Reading("bound", 18)) /\ IsNeg(Reading("length", 1))
    BY ReadingTyped
  <2>2. socks5_negotiate(pc, rep) \in {Rejected, Reading("bound", 6), Reading("bound", 18), Reading("length", 1)}
    BY <1>3 DEF socks5_negotiate
  <2> QED BY <1>1, <2>1, <2>2
<1>4. CASE pc = "length"
  <2>1. rep[1] + 2 \in Nat
    BY <1>4
  <2>2. IsNeg(Reading("bound", rep[1] + 2))
    BY <2>1, ReadingTyped
  <2> QED BY <1>4, <2>2 DEF socks5_negotiate
<1>5. CASE pc = "bound"
  BY <1>1, <1>5 DEF socks5_negotiate
<1> QED BY <1>2, <1>3, <1>4, <1>5

(* What follows a byte of the response in http_connect_negotiate.          *)
LEMMA HttpTyped ==
  ASSUME NEW buf \in Seq(Nat)
  PROVE  IsNeg(http_connect_negotiate(buf))
<1>1. IsNeg(Rejected) /\ IsNeg(Granted)
  BY ReadingTyped DEF Rejected, Granted
<1>2. IsNeg([pc |-> "head", need |-> 0, got |-> buf])
  BY DEF IsNeg, NegType
<1> QED BY <1>1, <1>2 DEF http_connect_negotiate

(* A read of the negotiation.                                              *)
LEMMA NegotiateReadTyped ==
  ASSUME NetOK, IsNeg(neg), NegotiateRead
  PROVE  NetOK' /\ IsNeg(neg')
<1>0. down \in Seq(Nat) /\ Len(down) \in Nat /\ neg \in NegType
  BY DEF NetOK, IsNeg
<1>1. PICK n \in ReadSize(neg.pc) \cap 1..Len(down) :
        LET got == neg.got \o SubSeq(down, 1, n)
            next == CASE neg.pc = "head" -> http_connect_negotiate(got)
                      [] neg.pc # "head" /\ Len(got) < neg.need -> [neg EXCEPT !.got = got]
                      [] OTHER -> socks5_negotiate(neg.pc, got)
        IN  /\ down' = SubSeq(down, n + 1, Len(down))
            /\ neg' = next
            /\ proxy' = IF next.pc = "reply" /\ proxy = "answered" THEN "asked" ELSE proxy
  BY DEF NegotiateRead
<1> DEFINE got == neg.got \o SubSeq(down, 1, n)
<1>2. n \in Nat /\ n >= 1 /\ n <= Len(down)
  BY <1>0
<1>3. neg.pc \in {"head", "method", "reply", "length", "bound"}
  <2>1. neg.pc # "start"
    BY DEF NegotiateRead
  <2>2. ASSUME neg.pc \in {"rejected", "granted"} PROVE FALSE
    <3>1. neg.need = 0 /\ Len(neg.got) = 0
      BY <2>2 DEF IsNeg
    <3>2. n \in 1..(0 - 0)
      BY <2>2, <3>1 DEF ReadSize
    <3> QED BY <3>2
  <2> QED BY <1>0, <2>1, <2>2 DEF NegType
<1>4. got \in Seq(Nat)
  <2>1. SubSeq(down, 1, n) \in Seq(Nat)
    BY <1>0, <1>2, PieceTyped
  <2>2. neg.got \in Seq(Nat)
    BY <1>0 DEF NegType
  <2> QED BY <2>1, <2>2, Joined
<1> HIDE DEF got
<1>5. ASSUME neg.pc = "head" PROVE IsNeg(neg')
  <2>1. neg' = http_connect_negotiate(got)
    BY <1>1, <1>5 DEF got
  <2> QED BY <1>4, <2>1, HttpTyped
<1>6. ASSUME neg.pc # "head" /\ Len(got) < neg.need PROVE IsNeg(neg')
  <2>1. neg' = [neg EXCEPT !.got = got]
    BY <1>1, <1>6 DEF got
  <2>2. neg' \in NegType /\ neg'.pc = neg.pc /\ neg'.need = neg.need
    BY <1>0, <1>4, <2>1 DEF NegType
  <2>3. neg.pc \notin {"rejected", "granted"} /\ (neg.pc = "length" => neg.need = 1)
    BY <1>3 DEF IsNeg
  <2> QED BY <2>2, <2>3 DEF IsNeg
<1>7. ASSUME neg.pc # "head" /\ ~(Len(got) < neg.need) PROVE IsNeg(neg')
  <2>1. neg' = socks5_negotiate(neg.pc, got)
    BY <1>1, <1>7 DEF got
  <2>2. neg.pc = "length" => Len(got) >= 1
    BY <1>4, <1>7 DEF IsNeg
  <2>3. neg.pc \in {"method", "reply", "length", "bound"}
    BY <1>3, <1>7
  <2>4. IsNeg(socks5_negotiate(neg.pc, got))
    BY <1>4, <2>2, <2>3, Socks5Typed
  <2> QED BY <2>1, <2>4
<1>8. IsNeg(neg')
  BY <1>5, <1>6, <1>7
<1>9. down' \in Seq(Nat)
  BY <1>0, <1>1, <1>2, PieceTyped, SMTT(30)
<1>10. proxy' \in {"asked", proxy}
  BY <1>1
<1>11. UNCHANGED <<link, wire, reset>>
  BY DEF NegotiateRead
<1> QED BY <1>8, <1>9, <1>10, <1>11 DEF NetOK

(* Bytes are copied: what is taken from the front, and what is left.       *)
LEMMA FrontTyped ==
  ASSUME NEW S, NEW s \in Seq(S), NEW n \in Nat, n <= Len(s)
  PROVE  /\ SubSeq(s, 1, n) \in Seq(S) /\ SubSeq(s, n + 1, Len(s)) \in Seq(S)
         /\ Len(SubSeq(s, n + 1, Len(s))) <= Len(s) /\ Len(SubSeq(s, 1, n)) <= Len(s)
<1>1. Len(s) \in Nat /\ n + 1 \in Nat /\ n + 1 >= 1 /\ 1 \in Nat
  OBVIOUS
<1>2. SubSeq(s, 1, n) \in Seq(S) /\ SubSeq(s, n + 1, Len(s)) \in Seq(S)
  BY <1>1, PieceTyped
<1>3. Len(SubSeq(s, 1, n)) = n
  BY <1>1, SubSeqProperties
<1>4. Len(SubSeq(s, n + 1, Len(s))) = Len(s) - n
  BY <1>1, SubSeqProperties
<1> QED BY <1>1, <1>2, <1>3, <1>4

DataOK == NetOK /\ IsNeg(neg) /\ CopyOK

(* The steps that both commands can take.                                  *)
LEMMA WorkTyped ==
  ASSUME DataOK, sc \in Scenarios, NEW p \in Proc, Work(p)
  PROVE  DataOK'
<1>1. ASSUME UNCHANGED <<neg, net, copied>> PROVE DataOK'
  BY <1>1 DEF DataOK, NetOK, IsNeg, CopyOK, net, copied
<1>2. CASE Plain(p) \/ ParseArgs(p) \/ Refused(p) \/ AcceptStopped(p)
  BY <1>1, <1>2 DEF Plain, ParseArgs, Refused, AcceptStopped
<1>3. CASE AccessCheck(p) \/ Handshake(p) \/ HandshakeBroken(p) \/ CopyTest(p) \/ RelayEnds(p)
  BY <1>1, <1>3 DEF AccessCheck, Handshake, HandshakeBroken, CopyTest, RelayEnds
<1>4. CASE Connect(p)
  <2>1. /\ link' \in {"backlog", link} /\ (down' = down \/ down' = sc.banner)
        /\ UNCHANGED <<neg, wire, reset, proxy, copied>>
    BY <1>4 DEF Connect
  <2> QED BY <2>1, AnswersTyped DEF DataOK, NetOK, IsNeg, CopyOK, copied
<1>5. CASE Accept(p)
  <2>1. link' \in {"up", link} /\ UNCHANGED <<neg, wire, reset, down, proxy, copied>>
    BY <1>5 DEF Accept
  <2> QED BY <2>1 DEF DataOK, NetOK, IsNeg, CopyOK, copied
<1>6. CASE RelayCopies(p)
  <2>1. PICK n \in 1..ReadMax :
          /\ n <= Len(down) /\ out' = [out EXCEPT ![p] = out[p] \o SubSeq(down, 1, n)]
          /\ down' = SubSeq(down, n + 1, Len(down))
    BY <1>6 DEF RelayCopies
  <2>2. n \in Nat /\ n <= Len(down) /\ down \in Seq(Nat) /\ out \in [Proc -> Seq(Nat)]
    BY <2>1 DEF DataOK, NetOK, CopyOK
  <2>3. SubSeq(down, 1, n) \in Seq(Nat) /\ SubSeq(down, n + 1, Len(down)) \in Seq(Nat)
    BY <2>2, FrontTyped
  <2>4. out[p] \o SubSeq(down, 1, n) \in Seq(Nat)
    BY <2>2, <2>3, Joined
  <2>5. out' \in [Proc -> Seq(Nat)] /\ down' \in Seq(Nat)
    BY <2>1, <2>2, <2>3, <2>4
  <2>6. UNCHANGED <<neg, link, wire, reset, proxy, fpos, ioerr>>
    BY <1>6 DEF RelayCopies
  <2> QED BY <2>5, <2>6 DEF DataOK, NetOK, IsNeg, CopyOK
<1> QED BY <1>2, <1>3, <1>4, <1>5, <1>6 DEF Work

(* send.                                                                   *)
LEMMA SendChunkTyped ==
  ASSUME DataOK, SendChunk
  PROVE  DataOK'
<1>1. PICK n \in 1..ReadMax :
        /\ fpos + n <= Len(File)
        /\ \/ wire' = wire
           \/ Len(wire) + n <= WireMax /\ wire' = wire \o SubSeq(File, fpos + 1, fpos + n)
        /\ fpos' = fpos + n
  BY DEF SendChunk
<1>2. /\ n \in Nat /\ fpos \in Nat /\ fpos + n \in Nat /\ fpos + 1 \in Nat /\ fpos + 1 >= 1
      /\ wire \in Seq(ToSet(File)) /\ Len(wire) <= WireMax
  BY DEF DataOK, NetOK, CopyOK
<1>3. SubSeq(File, fpos + 1, fpos + n) \in Seq(ToSet(File)) /\ Len(SubSeq(File, fpos + 1, fpos + n)) = n
  <2>1. SubSeq(File, fpos + 1, fpos + n) \in Seq(ToSet(File))
    BY <1>1, <1>2, FileTyped, PieceTyped
  <2>2. Len(SubSeq(File, fpos + 1, fpos + n)) = n
    BY <1>1, <1>2, FileTyped, SubSeqProperties
  <2> QED BY <2>1, <2>2
<1>4. wire' \in Seq(ToSet(File)) /\ Len(wire') <= WireMax
  <2> DEFINE piece == SubSeq(File, fpos + 1, fpos + n)
  <2> HIDE DEF piece
  <2>1. piece \in Seq(ToSet(File)) /\ Len(piece) = n
    BY <1>3 DEF piece
  <2>2. wire \o piece \in Seq(ToSet(File)) /\ Len(wire \o piece) = Len(wire) + Len(piece)
    BY <1>2, <2>1, ConcatProperties
  <2> QED BY <1>1, <1>2, <2>1, <2>2 DEF piece
<1>5. fpos' \in 0..Len(File)
  BY <1>1, <1>2, FileTyped
<1>6. UNCHANGED <<neg, link, reset, down, proxy, out, ioerr>>
  BY DEF SendChunk
<1> QED BY <1>4, <1>5, <1>6 DEF DataOK, NetOK, IsNeg, CopyOK

(* recv.                                                                   *)
LEMMA RecvChunkTyped ==
  ASSUME DataOK, RecvChunk
  PROVE  DataOK'
<1>1. PICK n \in 1..ReadMax :
        /\ n <= Len(wire) /\ wire' = SubSeq(wire, n + 1, Len(wire))
        /\ \/ out' = [out EXCEPT !["server"] = out["server"] \o SubSeq(wire, 1, n)] /\ UNCHANGED ioerr
           \/ /\ ioerr' = TRUE
              /\ \E m \in 0..(n - 1) : out' = [out EXCEPT !["server"] = out["server"] \o SubSeq(wire, 1, m)]
  BY DEF RecvChunk
<1>2. PICK m \in 0..n : out' = [out EXCEPT !["server"] = out["server"] \o SubSeq(wire, 1, m)]
  <2>1. n \in 0..n /\ \A m \in 0..(n - 1) : m \in 0..n
    OBVIOUS
  <2> QED BY <1>1, <2>1
<1>3. /\ n \in Nat /\ m \in Nat /\ n <= Len(wire) /\ m <= Len(wire)
      /\ wire \in Seq(ToSet(File)) /\ Len(wire) <= WireMax /\ out \in [Proc -> Seq(Nat)]
  BY <1>1, <1>2 DEF DataOK, NetOK, CopyOK
<1>4. wire' \in Seq(ToSet(File)) /\ Len(wire') <= WireMax
  <2>1. wire' \in Seq(ToSet(File)) /\ Len(wire') <= Len(wire)
    BY <1>1, <1>3, FrontTyped
  <2> QED BY <1>3, <2>1, TransferAssumption
<1>5. out' \in [Proc -> Seq(Nat)]
  <2>1. SubSeq(wire, 1, m) \in Seq(Nat)
    BY <1>3, FrontTyped, FileTyped
  <2>2. "server" \in Proc
    BY DEF Proc
  <2>3. out["server"] \o SubSeq(wire, 1, m) \in Seq(Nat)
    BY <1>3, <2>1, <2>2, Joined
  <2> QED BY <1>2, <1>3, <2>3
<1>6. ioerr' \in BOOLEAN
  BY <1>1 DEF DataOK, CopyOK
<1>7. UNCHANGED <<neg, link, reset, down, proxy, fpos>>
  BY DEF RecvChunk
<1> QED BY <1>4, <1>5, <1>6, <1>7 DEF DataOK, NetOK, IsNeg, CopyOK

(* The surroundings: the proxy, the peer, the network.                     *)
LEMMA SurroundingsTyped ==
  ASSUME DataOK, sc \in Scenarios, Surroundings \/ ProxyCloses \/ ReplyOverrun \/ Reset
  PROVE  DataOK'
<1>1. CASE ProxyGreets
  <2>1. proxy' = "answered" /\ down' = down \o sc.method /\ UNCHANGED <<neg, link, wire, reset, copied>>
    BY <1>1 DEF ProxyGreets
  <2>2. down \o sc.method \in Seq(Nat)
    BY AnswersTyped, Joined DEF DataOK, NetOK
  <2> QED BY <2>1, <2>2 DEF DataOK, NetOK, IsNeg, CopyOK, copied
<1>2. CASE ProxyConnects
  <2>1. /\ proxy' \in {"tunnel", "closed"} /\ link' \in {"backlog", link}
        /\ \/ down' = (down \o sc.reply) \o <<>> \/ down' = (down \o sc.reply) \o sc.banner
           \/ down' = down \o sc.refusal
        /\ UNCHANGED <<neg, wire, reset, copied>>
    BY <1>2 DEF ProxyConnects
  <2>2. down \o sc.reply \in Seq(Nat) /\ down \o sc.refusal \in Seq(Nat)
    BY AnswersTyped, Joined DEF DataOK, NetOK
  <2>3. (down \o sc.reply) \o <<>> \in Seq(Nat) /\ (down \o sc.reply) \o sc.banner \in Seq(Nat)
    <3>1. <<>> \in Seq(Nat)
      OBVIOUS
    <3> QED BY <2>2, <3>1, AnswersTyped, Joined
  <2> QED BY <2>1, <2>2, <2>3 DEF DataOK, NetOK, IsNeg, CopyOK, copied
<1>3. CASE PeerConnects
  BY <1>3 DEF PeerConnects, DataOK, NetOK, IsNeg, CopyOK, copied
<1>4. CASE ProxyCloses
  BY <1>4 DEF ProxyCloses, DataOK, NetOK, IsNeg, CopyOK, copied
<1>5. CASE ReplyOverrun
  BY <1>5 DEF ReplyOverrun, DataOK, NetOK, IsNeg, CopyOK, copied, net
<1>6. CASE Reset
  <2>1. PICK n \in 0..Len(wire) : wire' = SubSeq(wire, 1, n)
    BY <1>6 DEF Reset
  <2>2. n \in Nat /\ n <= Len(wire) /\ wire \in Seq(ToSet(File)) /\ Len(wire) \in Nat /\ Len(wire) <= WireMax
    BY DEF DataOK, NetOK
  <2>3. wire' \in Seq(ToSet(File)) /\ Len(wire') <= Len(wire)
    BY <2>1, <2>2, FrontTyped
  <2>4. Len(wire') <= WireMax
    BY <2>2, <2>3, TransferAssumption
  <2>5. reset' = TRUE /\ UNCHANGED <<link, down, proxy, neg, copied>>
    BY <1>6 DEF Reset
  <2> QED BY <2>3, <2>4, <2>5 DEF DataOK, NetOK, IsNeg, CopyOK, copied
<1> QED BY <1>1, <1>2, <1>3, <1>4, <1>5, <1>6 DEF Surroundings

(* Any step.                                                               *)
LEMMA DataStep == LaunchInv /\ DataOK /\ [Next]_vars => DataOK'
<1> SUFFICES ASSUME LaunchInv, DataOK, [Next]_vars PROVE DataOK'
  OBVIOUS
<1>1. sc \in Scenarios /\ "client" \in Proc /\ "server" \in Proc
  BY DEF LaunchInv, Proc
<1>2. ASSUME UNCHANGED <<neg, net, copied>> PROVE DataOK'
  BY <1>2 DEF DataOK, NetOK, IsNeg, CopyOK, net, copied
<1>3. CASE UNCHANGED vars
  BY <1>2, <1>3 DEF vars
<1>4. CASE Work("client") \/ Work("server")
  BY <1>1, <1>4, WorkTyped
<1>5. CASE NegotiateStart
  <2>1. IsNeg(Reading("method", 2)) /\ IsNeg(Reading("head", 0))
    BY ReadingTyped
  <2>2. /\ IsNeg(neg') /\ proxy' \in {"greeted", "asked"}
        /\ UNCHANGED <<link, wire, reset, down, copied>>
    BY <1>5, <2>1 DEF NegotiateStart
  <2> QED BY <2>2 DEF DataOK, NetOK, CopyOK, copied
<1>6. CASE NegotiateRead
  <2>1. NetOK' /\ IsNeg(neg') /\ UNCHANGED copied
    BY <1>6, NegotiateReadTyped DEF DataOK, NegotiateRead
  <2> QED BY <2>1 DEF DataOK, CopyOK, copied
<1>7. CASE NegotiateEof \/ RecvEnds \/ RecvAgain
  BY <1>2, <1>7 DEF NegotiateEof, RecvEnds, RecvAgain
<1>8. CASE SendChunk
  BY <1>8, SendChunkTyped
<1>9. CASE SendEnds
  <2>1. ioerr' \in {TRUE, ioerr} /\ UNCHANGED <<neg, net, fpos, out>>
    BY <1>9 DEF SendEnds
  <2> QED BY <2>1 DEF DataOK, NetOK, IsNeg, CopyOK, net
<1>10. CASE RecvChunk
  BY <1>10, RecvChunkTyped
<1>11. CASE Surroundings \/ ProxyCloses \/ ReplyOverrun \/ Reset
  BY <1>1, <1>11, SurroundingsTyped
<1>12. CASE \E p \in Proc : Fail(p) \/ Signal(p)
  BY <1>2, <1>12 DEF Fail, Signal
<1> QED BY <1>3, <1>4, <1>5, <1>6, <1>7, <1>8, <1>9, <1>10, <1>11, <1>12 DEF Next, ClientWork, ServerWork

(* The types hold at first.                                                *)
LEMMA TypesInit == Init => AccountOK /\ DataOK
<1> SUFFICES ASSUME Init PROVE AccountOK /\ DataOK
  OBVIOUS
<1>1. AccountOK
  <2>1. MaxAddr \in 1..MaxAddr
    BY TransferAssumption
  <2> QED BY <2>1 DEF Init, AccountOK
<1>2. NetOK
  <2>1. WireMax \in Nat
    BY TransferAssumption
  <2>2. wire = <<>> /\ down = <<>> /\ link = "none" /\ reset = FALSE /\ proxy = "idle"
    BY DEF Init
  <2>3. wire \in Seq(ToSet(File)) /\ Len(wire) <= WireMax /\ down \in Seq(Nat)
    BY <2>1, <2>2
  <2> QED BY <2>2, <2>3 DEF NetOK
<1>3. IsNeg(neg)
  <2>1. neg = Reading("start", 0)
    BY DEF Init, Reading
  <2> QED BY <2>1, ReadingTyped
<1>4. CopyOK
  <2>1. fpos = 0 /\ ioerr = FALSE /\ out = [p \in Proc |-> <<>>]
    BY DEF Init
  <2>2. <<>> \in Seq(Nat)
    OBVIOUS
  <2>3. out \in [Proc -> Seq(Nat)]
    BY <2>1, <2>2
  <2>4. fpos \in 0..Len(File)
    BY <2>1, FileTyped
  <2> QED BY <2>1, <2>3, <2>4 DEF CopyOK
<1> QED BY <1>1, <1>2, <1>3, <1>4 DEF DataOK

(* The state always has its type: a command that runs has a step before it,*)
(* no loop runs out of addresses, the wire holds no more than the kernel   *)
(* does, and send reads no further than its file.                          *)
THEOREM TypesHold == Spec => []TypeOK
<1>1. LaunchInv /\ AccountOK /\ DataOK => TypeOK
  <2> SUFFICES ASSUME LaunchInv, AccountOK, DataOK PROVE TypeOK
    OBVIOUS
  <2>1. \A p \in Proc : Present(p) => todo[p] # <<>>
    BY DEF LaunchInv, IsProgram, Ends
  <2>2. status \in [Proc -> {-1, 0, 1, 2, Killed}]
    BY DEF LaunchInv
  <2>3. \A p \in Proc : out[p] \in Seq(Nat)
    BY DEF DataOK, CopyOK
  <2> QED BY <2>1, <2>2, <2>3 DEF TypeOK, AccountOK, DataOK, NetOK, CopyOK, IsNeg, NegType
<1> QED BY <1>1, LaunchHolds, TypesInit, AccountStep, DataStep, PTL DEF Spec

-----------------------------------------------------------------------------
(* A file on its way: what recv has written (o) and what is on the wire    *)
(* (w) are the beginning of the file, byte for byte.                       *)

Matches(o, w) ==
    /\ Len(o) + Len(w) <= Len(File)
    /\ \A k \in 1..Len(o) : o[k] = File[k]
    /\ \A k \in 1..Len(w) : w[k] = File[Len(o) + k]

(* A piece of a sequence, byte for byte.                                   *)
LEMMA PieceIs ==
  ASSUME NEW s \in Seq(Nat), NEW m \in Nat, NEW n \in Nat, m <= n, n <= Len(s)
  PROVE  /\ SubSeq(s, m + 1, n) \in Seq(Nat) /\ Len(SubSeq(s, m + 1, n)) = n - m
         /\ \A i \in 1..(n - m) : SubSeq(s, m + 1, n)[i] = s[m + i]
<1>1. Len(s) \in Nat /\ m + 1 \in Int /\ n \in Int /\ \A i \in (m + 1)..n : s[i] \in Nat
  OBVIOUS
<1>2. /\ SubSeq(s, m + 1, n) \in Seq(Nat)
      /\ Len(SubSeq(s, m + 1, n)) = IF m + 1 <= n THEN n - (m + 1) + 1 ELSE 0
      /\ \A i \in 1..(n - (m + 1) + 1) : SubSeq(s, m + 1, n)[i] = s[(m + 1) + i - 1]
  BY <1>1, SubSeqProperties, SMTT(30)
<1>3. n - (m + 1) + 1 = n - m /\ (m + 1 > n => n - m = 0)
  OBVIOUS
<1>4. Len(SubSeq(s, m + 1, n)) = n - m
  BY <1>2, <1>3
<1>5. ASSUME NEW i \in 1..(n - m) PROVE SubSeq(s, m + 1, n)[i] = s[m + i]
  <2>1. (m + 1) + i - 1 = m + i /\ i \in 1..(n - (m + 1) + 1)
    BY <1>3
  <2>2. SubSeq(s, m + 1, n)[i] = s[(m + 1) + i - 1]
    BY <1>2, <2>1
  <2> QED BY <2>1, <2>2
<1> QED BY <1>2, <1>4, <1>5

(* A concatenation, byte for byte.                                         *)
LEMMA JoinIs ==
  ASSUME NEW s \in Seq(Nat), NEW t \in Seq(Nat)
  PROVE  /\ s \o t \in Seq(Nat) /\ Len(s \o t) = Len(s) + Len(t)
         /\ \A i \in 1..Len(s) : (s \o t)[i] = s[i]
         /\ \A i \in (Len(s) + 1)..(Len(s) + Len(t)) : (s \o t)[i] = t[i - Len(s)]
<1>1. Len(s) \in Nat /\ Len(t) \in Nat
  OBVIOUS
<1>2. /\ s \o t \in Seq(Nat) /\ Len(s \o t) = Len(s) + Len(t)
      /\ \A i \in 1..(Len(s) + Len(t)) : (s \o t)[i] = IF i <= Len(s) THEN s[i] ELSE t[i - Len(s)]
  BY ConcatProperties
<1> QED BY <1>1, <1>2

(* send puts the next piece of the file on the wire.                       *)
LEMMA MatchesSent ==
  ASSUME NEW o \in Seq(Nat), NEW w \in Seq(Nat), Matches(o, w), NEW n \in Nat,
         Len(o) + Len(w) + n <= Len(File)
  PROVE  LET f == Len(o) + Len(w)
             v == w \o SubSeq(File, f + 1, f + n)
         IN  Matches(o, v) /\ Len(o) + Len(v) = f + n
<1> DEFINE f == Len(o) + Len(w)
           x == SubSeq(File, f + 1, f + n)
           v == w \o x
<1>1. File \in Seq(Nat) /\ Len(o) \in Nat /\ Len(w) \in Nat /\ f \in Nat /\ f + n \in Nat
      /\ Len(File) \in Nat
  BY TransferAssumption
<1>2. x \in Seq(Nat) /\ Len(x) = (f + n) - f /\ \A i \in 1..((f + n) - f) : x[i] = File[f + i]
  BY <1>1, PieceIs, SMTT(30)
<1>3. (f + n) - f = n
  BY <1>1
<1> HIDE DEF x
<1>4. /\ Len(v) = Len(w) + Len(x) /\ \A i \in 1..Len(w) : v[i] = w[i]
      /\ \A i \in (Len(w) + 1)..(Len(w) + Len(x)) : v[i] = x[i - Len(w)]
  BY <1>2, JoinIs
<1> HIDE DEF v
<1>5. ASSUME NEW k \in 1..Len(v) PROVE v[k] = File[Len(o) + k]
  <2>1. CASE k <= Len(w)
    <3>1. k \in 1..Len(w)
      BY <1>1, <2>1
    <3>2. v[k] = w[k]
      BY <1>4, <3>1
    <3>3. w[k] = File[Len(o) + k]
      BY <3>1 DEF Matches
    <3> QED BY <3>2, <3>3
  <2>2. CASE k > Len(w)
    <3>0. Len(x) = n /\ Len(v) = Len(w) + n /\ k \in 1..Len(v)
      BY <1>2, <1>3, <1>4
    <3>1. k \in (Len(w) + 1)..(Len(w) + Len(x)) /\ k - Len(w) \in 1..n
      BY <1>1, <2>2, <3>0
    <3>2. v[k] = x[k - Len(w)] /\ x[k - Len(w)] = File[f + (k - Len(w))]
      BY <1>2, <1>3, <1>4, <3>1
    <3>3. f + (k - Len(w)) = Len(o) + k
      BY <1>1, <3>1
    <3> QED BY <3>2, <3>3
  <2> QED BY <1>1, <1>2, <1>3, <1>4, <2>1, <2>2
<1>6. Len(o) + Len(v) = f + n
  BY <1>1, <1>2, <1>3, <1>4
<1>7. Matches(o, v)
  BY <1>1, <1>5, <1>6 DEF Matches
<1> QED BY <1>6, <1>7 DEF v, x

(* recv takes a piece from the wire, or a part of it.                      *)
LEMMA MatchesTaken ==
  ASSUME NEW o \in Seq(Nat), NEW w \in Seq(Nat), Matches(o, w), NEW n \in Nat, n <= Len(w)
  PROVE  LET q == o \o SubSeq(w, 1, n)
             v == SubSeq(w, n + 1, Len(w))
         IN  /\ Matches(q, v) /\ Matches(q, <<>>)
             /\ Len(q) + Len(v) = Len(o) + Len(w)
<1> DEFINE x == SubSeq(w, 1, n)
           v == SubSeq(w, n + 1, Len(w))
           q == o \o x
<1>1. Len(o) \in Nat /\ Len(w) \in Nat /\ Len(File) \in Nat /\ 0 \in Nat /\ 0 <= n
  BY FileTyped
<1>2. x \in Seq(Nat) /\ Len(x) = n /\ \A i \in 1..n : x[i] = w[i]
  <2>1. /\ SubSeq(w, 0 + 1, n) \in Seq(Nat) /\ Len(SubSeq(w, 0 + 1, n)) = n - 0
        /\ \A i \in 1..(n - 0) : SubSeq(w, 0 + 1, n)[i] = w[0 + i]
    BY <1>1, PieceIs
  <2> QED BY <2>1
<1>3. v \in Seq(Nat) /\ Len(v) = Len(w) - n /\ \A i \in 1..(Len(w) - n) : v[i] = w[n + i]
  BY <1>1, PieceIs
<1> HIDE DEF x, v
<1>4. /\ Len(q) = Len(o) + n /\ \A i \in 1..Len(o) : q[i] = o[i]
      /\ \A i \in (Len(o) + 1)..(Len(o) + n) : q[i] = x[i - Len(o)]
  BY <1>2, JoinIs
<1> HIDE DEF q
<1>5. ASSUME NEW k \in 1..Len(q) PROVE q[k] = File[k]
  <2>1. CASE k <= Len(o)
    BY <1>1, <1>4, <2>1 DEF Matches
  <2>2. CASE k > Len(o)
    <3>1. k \in (Len(o) + 1)..(Len(o) + n) /\ k - Len(o) \in 1..n /\ k - Len(o) \in 1..Len(w)
      BY <1>1, <1>4, <2>2
    <3>2. q[k] = w[k - Len(o)]
      BY <1>2, <1>4, <3>1
    <3>3. w[k - Len(o)] = File[Len(o) + (k - Len(o))] /\ Len(o) + (k - Len(o)) = k
      BY <1>1, <3>1 DEF Matches
    <3> QED BY <3>2, <3>3
  <2> QED BY <1>1, <1>4, <2>1, <2>2
<1>6. ASSUME NEW k \in 1..Len(v) PROVE v[k] = File[Len(q) + k]
  <2>1. n + k \in 1..Len(w) /\ k \in 1..(Len(w) - n) /\ Len(o) + (n + k) = Len(q) + k
    BY <1>1, <1>3, <1>4
  <2> QED BY <1>3, <2>1 DEF Matches
<1>7. Len(q) + Len(v) = Len(o) + Len(w) /\ Len(q) <= Len(File)
  BY <1>1, <1>3, <1>4 DEF Matches
<1>8. Matches(q, v)
  BY <1>5, <1>6, <1>7 DEF Matches
<1>9. Matches(q, <<>>)
  BY <1>1, <1>4, <1>5, <1>7 DEF Matches
<1> QED BY <1>7, <1>8, <1>9 DEF q, v, x

(* A reset takes the end off the wire.                                     *)
LEMMA MatchesCut ==
  ASSUME NEW o \in Seq(Nat), NEW w \in Seq(Nat), Matches(o, w), NEW n \in Nat, n <= Len(w)
  PROVE  Matches(o, SubSeq(w, 1, n))
<1> DEFINE x == SubSeq(w, 1, n)
<1>1. Len(o) \in Nat /\ Len(w) \in Nat /\ Len(File) \in Nat /\ 0 \in Nat /\ 0 <= n
  BY FileTyped
<1>2. Len(x) = n /\ \A i \in 1..n : x[i] = w[i]
  <2>1. /\ Len(SubSeq(w, 0 + 1, n)) = n - 0
        /\ \A i \in 1..(n - 0) : SubSeq(w, 0 + 1, n)[i] = w[0 + i]
    BY <1>1, PieceIs
  <2> QED BY <2>1
<1> HIDE DEF x
<1>3. Len(o) + Len(x) <= Len(File) /\ 1..n \subseteq 1..Len(w)
  BY <1>1, <1>2 DEF Matches
<1>4. Matches(o, x)
  BY <1>2, <1>3 DEF Matches
<1> QED BY <1>4 DEF x

(* What was written is a prefix of the file, and the file when it is as    *)
(* long.                                                                   *)
LEMMA MatchesPrefix ==
  ASSUME NEW o \in Seq(Nat), Matches(o, <<>>)
  PROVE  IsPrefix(o, File) /\ (Len(o) = Len(File) => o = File)
<1>1. Len(o) \in Nat /\ Len(File) \in Nat /\ File \in Seq(Nat) /\ 0 \in Nat /\ 0 <= Len(o)
  BY TransferAssumption
<1>2. Len(o) <= Len(File) /\ \A k \in 1..Len(o) : o[k] = File[k]
  <2>1. Len(<<>>) = 0
    OBVIOUS
  <2>2. Len(o) + Len(<<>>) <= Len(File) /\ \A k \in 1..Len(o) : o[k] = File[k]
    BY DEF Matches
  <2> QED BY <1>1, <2>1, <2>2
<1> DEFINE x == SubSeq(o, 1, Len(o))
           y == SubSeq(File, 1, Len(o))
<1>3. x \in Seq(Nat) /\ Len(x) = Len(o) /\ \A i \in 1..Len(o) : x[i] = o[i]
  <2>1. /\ SubSeq(o, 0 + 1, Len(o)) \in Seq(Nat) /\ Len(SubSeq(o, 0 + 1, Len(o))) = Len(o) - 0
        /\ \A i \in 1..(Len(o) - 0) : SubSeq(o, 0 + 1, Len(o))[i] = o[0 + i]
    BY <1>1, PieceIs
  <2> QED BY <1>1, <2>1
<1>4. y \in Seq(Nat) /\ Len(y) = Len(o) /\ \A i \in 1..Len(o) : y[i] = File[i]
  <2>1. /\ SubSeq(File, 0 + 1, Len(o)) \in Seq(Nat) /\ Len(SubSeq(File, 0 + 1, Len(o))) = Len(o) - 0
        /\ \A i \in 1..(Len(o) - 0) : SubSeq(File, 0 + 1, Len(o))[i] = File[0 + i]
    BY <1>1, <1>2, PieceIs
  <2> QED BY <1>1, <2>1
<1> HIDE DEF x, y
<1>5. x = y
  BY <1>2, <1>3, <1>4, SeqEqual
<1>6. Len(o) = Len(File) => o = File
  BY <1>1, <1>2, SeqEqual
<1> QED BY <1>2, <1>5, <1>6 DEF IsPrefix, x, y

-----------------------------------------------------------------------------
(* send and recv: where they are, and what that says of the connection.    *)

FileRun == sc["server"].mode = "recv" /\ sc["client"].mode = "send"

(* recv makes no connection and accepts one before it copies; send makes   *)
(* one before it speaks to a proxy.                                        *)
StepsInv ==
    /\ IsSteps(todo["client"], TRUE) /\ IsSteps(todo["server"], TRUE)
    /\ Before(todo["client"], "connect", "negotiate")
    /\ Before(todo["server"], "accept", "copy") /\ ~Has(todo["server"], "connect")

(* Without the socket of send there is no connection yet.                  *)
SockInv ==
    \/ Ended("client") \/ "sock" \in held["client"]
    \/ Has(todo["client"], "connect") /\ proxy = "idle" /\ link = "none"

(* Past accept there is one, and recv holds what it needs for it.          *)
AcceptInv == Has(todo["server"], "accept") \/ link # "none"
HeldInv ==
    ~Ended("server") => /\ link = "backlog" => "listener" \in held["server"]
                        /\ link = "up" => "client" \in held["server"]

ConnectedInv == FileRun => StepsInv /\ SockInv /\ AcceptInv /\ HeldInv

(* The first step of a program.                                            *)
LEMMA FirstStep ==
  ASSUME NEW f \in BOOLEAN, NEW p, IsSteps(p, f), Ends(p)
  PROVE  /\ 1 \in DOMAIN p /\ Head(p) = p[1] /\ IsStep(Head(p), f)
         /\ \A call : Head(p).call = call => Has(p, call)
<1>1. 1 \in DOMAIN p /\ \A k \in DOMAIN p : IsStep(p[k], f)
  BY StepsAreSequence DEF Ends
<1>2. Head(p) = p[1]
  BY StepsAreSequence DEF Ends
<1> QED BY <1>1, <1>2 DEF Has

(* An order of steps is kept when the first is taken.                      *)
LEMMA TailBefore ==
  ASSUME NEW f \in BOOLEAN, NEW p, IsSteps(p, f), Ends(p), NEW first, NEW then, Before(p, first, then)
  PROVE  Before(Tail(p), first, then) /\ (Head(p).call = then => ~Has(p, first))
<1>1. PICK S : p \in Seq(S)
  BY DEF IsSteps
<1>2. p # <<>> /\ Len(p) \in Nat /\ DOMAIN p = 1..Len(p) /\ Head(p) = p[1] /\ Len(p) >= 1
  BY <1>1 DEF Ends
<1>3. DOMAIN Tail(p) = 1..(Len(p) - 1) /\ \A k \in 1..(Len(p) - 1) : Tail(p)[k] = p[k + 1]
  BY <1>1, <1>2
<1>4. ASSUME NEW j \in DOMAIN Tail(p), NEW k \in DOMAIN Tail(p),
             Tail(p)[j].call = then, Tail(p)[k].call = first
      PROVE  k < j
  <2>1. j \in 1..(Len(p) - 1) /\ k \in 1..(Len(p) - 1) /\ j + 1 \in DOMAIN p /\ k + 1 \in DOMAIN p
    BY <1>2, <1>3
  <2>2. p[j + 1].call = then /\ p[k + 1].call = first
    BY <1>3, <1>4, <2>1
  <2>3. k + 1 < j + 1
    BY <2>1, <2>2 DEF Before
  <2> QED BY <2>1, <2>3
<1>5. ASSUME Head(p).call = then, Has(p, first) PROVE FALSE
  <2>1. PICK k \in DOMAIN p : p[k].call = first
    BY <1>5 DEF Has
  <2>2. k < 1
    BY <1>2, <1>5, <2>1 DEF Before
  <2> QED BY <1>2, <2>2
<1> QED BY <1>4, <1>5 DEF Before

(* send and recv release nothing on the way but the list of addresses.     *)
LEMMA HeldGrows ==
  ASSUME AccountOK, NEW p \in Proc, IsStep(ThisStep(p), TRUE), Advance(p)
  PROVE  /\ \A r \in held[p] : r # "addrinfo" => r \in held'[p]
         /\ \A q \in Proc : q # p => held'[q] = held[q]
         /\ ThisStep(p).call = "connect" => "sock" \in held'[p]
         /\ ThisStep(p).call = "accept" => "client" \in held'[p]
<1> DEFINE s == ThisStep(p)
<1>1. held \in [Proc -> SUBSET Resources]
  BY DEF AccountOK
<1>2. CASE s.call = "free"
  <2>1. s.undo = <<"addrinfo">> /\ Release(p, s.undo)
    BY <1>2 DEF IsStep, Advance
  <2>2. Named(p, <<"addrinfo">>) = <<"addrinfo">>
    <3>1. "addrinfo" \notin Fields
      BY DEF Fields, Left, Right
    <3> QED BY <3>1 DEF Named
  <2>3. ToSet(<<"addrinfo">>) = {"addrinfo"}
    BY DEF ToSet
  <2>4. held' = [held EXCEPT ![p] = held[p] \ {"addrinfo"}]
    BY <2>1, <2>2, <2>3 DEF Release
  <2> QED BY <1>1, <1>2, <2>4
<1>3. CASE s.call # "free"
  <2>1. held' = [held EXCEPT ![p] = IF s.call = "store" THEN held[p] ELSE held[p] \cup ({s.val} \ {""})]
    BY <1>3 DEF Advance
  <2>2. s.call = "connect" => s.val = "sock"
    BY DEF IsStep, FileCall
  <2>3. s.call = "accept" => s.val = "client"
    BY DEF IsStep, FileCall
  <2> QED BY <1>1, <2>1, <2>2, <2>3
<1> QED BY <1>2, <1>3

(* One of the two commands, at any step.                                   *)
LEMMA OneCommand ==
  ASSUME LaunchInv, AccountOK, FileRun, StepsInv, Next, NEW p \in Proc
  PROVE  /\ Ended(p) => Ended(p)'
         /\ UNCHANGED sc
         /\ todo'[p] = todo[p] \/ (GoesOn(p) /\ todo'[p] = Tail(todo[p]))
         /\ Ended(p)' \/ \A r \in held[p] : r # "addrinfo" => r \in held'[p]
<1>1. UNCHANGED sc /\ ((\E q \in Proc : Moves(q)) \/ Overruns \/ Remains)
  BY NextMoves
<1>2. /\ todo = [q \in Proc |-> todo[q]] /\ status \in [Proc -> {-1, 0, 1, 2, Killed}]
      /\ held \in [Proc -> SUBSET Resources]
  BY DEF LaunchInv, AccountOK
<1>3. CASE Remains
  BY <1>1, <1>3 DEF Remains, account, Ended
<1>4. CASE Overruns
  <2>1. UNCHANGED todo /\ status' = [status EXCEPT !["client"] = Killed] /\ held' = [held EXCEPT !["client"] = {}]
    BY <1>4 DEF Overruns
  <2>2. CASE p = "client"
    <3>1. status'[p] = Killed /\ Killed # -1
      BY <1>2, <2>1, <2>2 DEF Killed
    <3> QED BY <1>1, <2>1, <3>1 DEF Ended
  <2>3. CASE p # "client"
    BY <1>1, <1>2, <2>1, <2>3 DEF Ended
  <2> QED BY <2>2, <2>3
<1>5. ASSUME NEW q \in Proc, Moves(q)
      PROVE  /\ Ended(p) => Ended(p)'
             /\ todo'[p] = todo[p] \/ (GoesOn(p) /\ todo'[p] = Tail(todo[p]))
             /\ Ended(p)' \/ \A r \in held[p] : r # "addrinfo" => r \in held'[p]
  <2>1. CASE NextAddress(q)
    BY <2>1 DEF NextAddress, account, Ended
  <2>2. CASE GoesOn(q)
    <3>1. UNCHANGED status /\ todo' = [todo EXCEPT ![q] = Tail(todo[q])] /\ Advance(q) /\ Present(q)
      BY <2>2 DEF GoesOn, Advance
    <3>2. IsSteps(todo[q], TRUE)
      BY DEF StepsInv, Proc
    <3>3. Ends(todo[q])
      BY <3>1 DEF LaunchInv, IsProgram
    <3>4. IsStep(ThisStep(q), TRUE)
      BY <3>2, <3>3, FirstStep DEF ThisStep
    <3>5. \A r \in held[p] : r # "addrinfo" => r \in held'[p]
      BY <3>1, <3>4, HeldGrows
    <3>6. todo'[p] = todo[p] \/ (GoesOn(p) /\ todo'[p] = Tail(todo[p]))
      BY <1>2, <2>2, <3>1
    <3> QED BY <3>1, <3>5, <3>6 DEF Ended
  <2>3. CASE Finishes(q)
    <3>1. PICK st \in {0, 1, 2} : End(q, st)
      BY <2>3 DEF Finishes
    <3>2. /\ UNCHANGED todo /\ status' = [status EXCEPT ![q] = st]
          /\ held' = [held EXCEPT ![q] = held[q] \ ToSet(Named(q, ThisStep(q).undo))]
      BY <3>1 DEF End, Release
    <3>3. CASE p = q
      <4>1. status'[p] = st /\ st # -1
        BY <1>2, <3>2, <3>3
      <4> QED BY <3>2, <4>1 DEF Ended
    <3>4. CASE p # q
      BY <1>2, <3>2, <3>4 DEF Ended
    <3> QED BY <3>3, <3>4
  <2> QED BY <1>5, <2>1, <2>2, <2>3 DEF Moves
<1> QED BY <1>1, <1>3, <1>4, <1>5

(* The connection and the proxy, at any step.                              *)
LEMMA LinkMoves ==
  ASSUME FileRun, Next, ThisStep("server").call # "connect"
  PROVE  /\ \/ link' = link
            \/ /\ link' = "backlog" /\ Listening
               /\ proxy = "asked" \/ (GoesOn("client") /\ ThisStep("client").call = "connect")
            \/ /\ link = "backlog" /\ link' = "up"
               /\ GoesOn("server") /\ ThisStep("server").call = "accept"
         /\ proxy' = proxy \/ proxy # "idle" \/ Negotiating
<1>1. CASE UNCHANGED <<link, proxy>>
  BY <1>1
<1>2. ASSUME NEW p \in Proc, Connect(p)
      PROVE  /\ UNCHANGED proxy
             /\ \/ link' = link
                \/ link' = "backlog" /\ Listening /\ GoesOn("client") /\ ThisStep("client").call = "connect"
  <2>1. Doing(p, "connect")
    BY <1>2 DEF Connect
  <2>2. p = "client"
    BY <2>1 DEF Doing, Proc
  <2>3. GoesOn(p)
    BY <1>2 DEF Connect, Doing, GoesOn, LoopCalls
  <2>4. UNCHANGED proxy /\ (link' = link \/ (link' = "backlog" /\ Listening))
    BY <1>2 DEF Connect
  <2> QED BY <2>1, <2>2, <2>3, <2>4 DEF Doing
<1>3. ASSUME NEW p \in Proc, Accept(p)
      PROVE  /\ UNCHANGED proxy
             /\ \/ link' = link
                \/ link = "backlog" /\ link' = "up" /\ GoesOn("server") /\ ThisStep("server").call = "accept"
  <2>1. CASE sc[p].mode = "recv"
    <3>1. p = "server"
      BY <2>1 DEF FileRun, Proc
    <3>2. GoesOn(p)
      BY <1>3, <2>1 DEF Accept, Doing, GoesOn, LoopCalls
    <3> QED BY <1>3, <2>1, <3>1, <3>2 DEF Accept, Doing
  <2>2. CASE sc[p].mode # "recv"
    BY <1>3, <2>2 DEF Accept
  <2> QED BY <2>1, <2>2
<1>4. ASSUME NEW p \in Proc, Work(p), ~Connect(p), ~Accept(p) PROVE UNCHANGED <<link, proxy>>
  <2>1. CASE Plain(p) \/ ParseArgs(p) \/ Refused(p) \/ AcceptStopped(p)
    BY <2>1 DEF Plain, ParseArgs, Refused, AcceptStopped, net
  <2>2. CASE AccessCheck(p) \/ Handshake(p) \/ HandshakeBroken(p)
    BY <2>2 DEF AccessCheck, Handshake, HandshakeBroken, net
  <2>3. CASE CopyTest(p) \/ RelayCopies(p) \/ RelayEnds(p)
    BY <2>3 DEF CopyTest, RelayCopies, RelayEnds, net
  <2> QED BY <1>4, <2>1, <2>2, <2>3 DEF Work
<1>5. CASE Work("client") \/ Work("server")
  BY <1>2, <1>3, <1>4, <1>5 DEF Proc
<1>6. CASE NegotiateStart \/ NegotiateRead
  BY <1>6 DEF NegotiateStart, NegotiateRead
<1>7. CASE NegotiateEof \/ SendChunk \/ SendEnds
  BY <1>7 DEF NegotiateEof, SendChunk, SendEnds, net
<1>8. CASE RecvChunk \/ RecvEnds \/ RecvAgain
  BY <1>8 DEF RecvChunk, RecvEnds, RecvAgain, net
<1>9. CASE ProxyGreets \/ ProxyCloses
  BY <1>9 DEF ProxyGreets, ProxyCloses
<1>10. CASE ProxyConnects
  <2>1. proxy = "asked" /\ (link' = link \/ (link' = "backlog" /\ (Present("server") => Listening)))
    BY <1>10 DEF ProxyConnects
  <2>2. Present("server")
    BY DEF FileRun, Present
  <2> QED BY <2>1, <2>2
<1>11. CASE PeerConnects
  BY <1>11 DEF PeerConnects, FileRun, Present
<1>12. CASE ReplyOverrun \/ Reset
  BY <1>12 DEF ReplyOverrun, Reset, net
<1>13. CASE \E p \in Proc : Fail(p) \/ Signal(p)
  BY <1>13 DEF Fail, Signal, net
<1> QED BY <1>5, <1>6, <1>7, <1>8, <1>9, <1>10, <1>11, <1>12, <1>13 DEF Next, ClientWork, ServerWork, Surroundings

(* Any step keeps what is known of the connection.                         *)
LEMMA ConnectedStep == LaunchInv /\ AccountOK /\ ConnectedInv /\ [Next]_vars => ConnectedInv'
<1> SUFFICES ASSUME LaunchInv, AccountOK, ConnectedInv, [Next]_vars, FileRun'
             PROVE  (StepsInv /\ SockInv /\ AcceptInv /\ HeldInv)'
  BY DEF ConnectedInv
<1>1. CASE UNCHANGED vars
  BY <1>1 DEF ConnectedInv, FileRun, StepsInv, SockInv, AcceptInv, HeldInv, Ended, vars, net, account
<1>2. CASE Next
  <2>1. "client" \in Proc /\ "server" \in Proc
    BY DEF Proc
  <2>2. UNCHANGED sc
    BY <1>2, NextMoves
  <2>3. FileRun
    BY <2>2 DEF FileRun
  <2>4. StepsInv /\ SockInv /\ AcceptInv /\ HeldInv
    BY <2>3 DEF ConnectedInv
  <2>5. IsSteps(todo["client"], TRUE) /\ IsSteps(todo["server"], TRUE)
    BY <2>4 DEF StepsInv
  <2>6. Ends(todo["client"]) /\ Ends(todo["server"])
    BY <2>1, <2>3 DEF LaunchInv, IsProgram, FileRun, Present
  <2>7. ThisStep("server").call # "connect"
    BY <2>4, <2>5, <2>6, FirstStep DEF StepsInv, ThisStep
  <2>8. /\ Ended("client") => Ended("client")'
        /\ todo'["client"] = todo["client"] \/ (GoesOn("client") /\ todo'["client"] = Tail(todo["client"]))
        /\ Ended("client")' \/ \A r \in held["client"] : r # "addrinfo" => r \in held'["client"]
    BY <1>2, <2>1, <2>3, <2>4, OneCommand
  <2>9. /\ Ended("server") => Ended("server")'
        /\ todo'["server"] = todo["server"] \/ (GoesOn("server") /\ todo'["server"] = Tail(todo["server"]))
        /\ Ended("server")' \/ \A r \in held["server"] : r # "addrinfo" => r \in held'["server"]
    BY <1>2, <2>1, <2>3, <2>4, OneCommand
  <2>10. /\ \/ link' = link
            \/ /\ link' = "backlog" /\ Listening
               /\ proxy = "asked" \/ (GoesOn("client") /\ ThisStep("client").call = "connect")
            \/ /\ link = "backlog" /\ link' = "up"
               /\ GoesOn("server") /\ ThisStep("server").call = "accept"
         /\ proxy' = proxy \/ proxy # "idle" \/ Negotiating
    BY <1>2, <2>3, <2>7, LinkMoves
  <2>11. ASSUME GoesOn("client")
         PROVE  /\ IsSteps(Tail(todo["client"]), TRUE) /\ Before(Tail(todo["client"]), "connect", "negotiate")
                /\ Has(todo["client"], "connect") =>
                      "sock" \in held'["client"] \/ Has(Tail(todo["client"]), "connect")
                /\ ThisStep("client").call = "connect" => "sock" \in held'["client"]
    <3>1. Head(todo["client"]).call \notin LoopCalls /\ Advance("client")
      BY <2>11 DEF GoesOn, ThisStep
    <3>2. IsStep(ThisStep("client"), TRUE)
      BY <2>5, <2>6, FirstStep DEF ThisStep
    <3>3. ThisStep("client").call = "connect" => "sock" \in held'["client"]
      BY <2>1, <3>1, <3>2, HeldGrows
    <3>4. /\ IsSteps(Tail(todo["client"]), TRUE)
          /\ \A call : Has(todo["client"], call) <=> Head(todo["client"]).call = call \/ Has(Tail(todo["client"]), call)
      BY <2>5, <2>6, <3>1, TailHas
    <3>5. Before(Tail(todo["client"]), "connect", "negotiate")
      BY <2>4, <2>5, <2>6, TailBefore DEF StepsInv
    <3> QED BY <3>3, <3>4, <3>5 DEF ThisStep
  <2>12. ASSUME GoesOn("server")
         PROVE  /\ IsSteps(Tail(todo["server"]), TRUE) /\ ~Has(Tail(todo["server"]), "connect")
                /\ Before(Tail(todo["server"]), "accept", "copy")
                /\ Has(todo["server"], "accept") => link' = "up" \/ Has(Tail(todo["server"]), "accept")
                /\ ThisStep("server").call = "accept" => "client" \in held'["server"]
    <3>1. Head(todo["server"]).call \notin LoopCalls /\ Advance("server")
      BY <2>12 DEF GoesOn, ThisStep
    <3>2. IsStep(ThisStep("server"), TRUE)
      BY <2>5, <2>6, FirstStep DEF ThisStep
    <3>3. ThisStep("server").call = "accept" => "client" \in held'["server"]
      BY <2>1, <3>1, <3>2, HeldGrows
    <3>4. /\ IsSteps(Tail(todo["server"]), TRUE)
          /\ \A call : Has(todo["server"], call) <=> Head(todo["server"]).call = call \/ Has(Tail(todo["server"]), call)
      BY <2>5, <2>6, <3>1, TailHas
    <3>5. Head(todo["server"]).call = "accept" => link' = "up"
      BY <2>3, <2>12 DEF GoesOn, ThisStep, FileRun
    <3>6. Before(Tail(todo["server"]), "accept", "copy")
      BY <2>4, <2>5, <2>6, TailBefore DEF StepsInv
    <3> QED BY <2>4, <3>3, <3>4, <3>5, <3>6 DEF StepsInv
  <2>13. StepsInv'
    BY <2>4, <2>8, <2>9, <2>11, <2>12 DEF StepsInv
  <2>14. SockInv'
    <3>1. CASE Ended("client")
      BY <2>8, <3>1 DEF SockInv
    <3>2. CASE "sock" \in held["client"]
      BY <2>8, <3>2 DEF SockInv
    <3>3. CASE Has(todo["client"], "connect") /\ proxy = "idle" /\ link = "none"
      <4>1. ~Negotiating
        <5>1. Negotiating => Head(todo["client"]).call = "negotiate"
          BY DEF Negotiating, Doing, ThisStep
        <5> QED BY <2>4, <2>5, <2>6, <3>3, <5>1, TailBefore DEF StepsInv
      <4>2. proxy' = "idle"
        BY <2>10, <3>3, <4>1
      <4>3. link' = "none" \/ "sock" \in held'["client"]
        BY <2>10, <2>11, <3>3
      <4>4. Has(todo'["client"], "connect") \/ "sock" \in held'["client"]
        BY <2>8, <2>11, <3>3
      <4> QED BY <4>2, <4>3, <4>4 DEF SockInv
    <3> QED BY <2>4, <3>1, <3>2, <3>3 DEF SockInv
  <2>15. AcceptInv'
    BY <2>4, <2>9, <2>10, <2>12 DEF AcceptInv
  <2>16. HeldInv'
    <3> SUFFICES ASSUME ~Ended("server")'
                 PROVE  /\ link' = "backlog" => "listener" \in held'["server"]
                        /\ link' = "up" => "client" \in held'["server"]
      BY DEF HeldInv
    <3>1. ~Ended("server") /\ \A r \in held["server"] : r # "addrinfo" => r \in held'["server"]
      BY <2>9
    <3>2. CASE link' = link
      BY <2>4, <3>1, <3>2 DEF HeldInv
    <3>3. CASE link' = "backlog" /\ Listening
      BY <3>1, <3>3 DEF Listening
    <3>4. CASE link' = "up" /\ GoesOn("server") /\ ThisStep("server").call = "accept"
      BY <2>12, <3>4
    <3> QED BY <2>10, <3>2, <3>3, <3>4
  <2> QED BY <2>13, <2>14, <2>15, <2>16
<1> QED BY <1>1, <1>2

(* The whole programs of send and recv.                                    *)
IsFileProgram(p) == IsSteps(p, TRUE)

(* What is in them, and in which order.                                    *)
LEMMA FileProgramTyped ==
  ASSUME NEW cfg, cfg.mode \in {"send", "recv"}
  PROVE  LET p == Program(cfg)
         IN  /\ IsFileProgram(p)
             /\ cfg.mode = "send" => Before(p, "connect", "negotiate") /\ Has(p, "connect")
             /\ cfg.mode = "recv" =>
                   /\ Before(p, "accept", "copy") /\ Has(p, "accept") /\ ~Has(p, "connect")
<1> DEFINE a == Check("parse_args", <<>>)
           b == Check("wcat_signal_setup", <<>>)
           c == Check("wcat_tls_global_init", <<>>)
           s == <<a, b, c>>
<1>1. IsStep(a, TRUE) /\ IsStep(b, TRUE) /\ IsStep(c, TRUE)
  BY UndoTyped, StepTyped
<1>2. /\ a.call = "parse_args" /\ b.call = "wcat_signal_setup" /\ c.call = "wcat_tls_global_init"
  BY DEF Check, Step
<1> HIDE DEF a, b, c
<1>3. IsSteps(s, TRUE)
  BY <1>1, PiecesJoin
<1>4. \A call : Has(s, call) <=> a.call = call \/ b.call = call \/ c.call = call
  BY LiteralHas
<1>5. ~Has(s, "connect") /\ ~Has(s, "negotiate") /\ ~Has(s, "accept") /\ ~Has(s, "copy")
  BY <1>2, <1>4
<1>6. CASE cfg.mode = "send"
  <2> DEFINE t == wcat_send_file(cfg)
  <2>1. Program(cfg) = s \o t
    BY <1>6 DEF Program, a, b, c
  <2>2. IsSteps(t, TRUE) /\ Before(t, "connect", "negotiate") /\ Has(t, "connect")
    BY SendTyped
  <2> HIDE DEF s, t
  <2>3. IsSteps(s \o t, TRUE) /\ Has(s \o t, "connect")
    BY <1>3, <2>2, ConcatHas
  <2>4. Before(s \o t, "connect", "negotiate")
    BY <1>3, <1>5, <2>2, BeforeBehind
  <2> QED BY <1>6, <2>1, <2>3, <2>4 DEF IsFileProgram
<1>7. CASE cfg.mode = "recv"
  <2> DEFINE t == wcat_recv_file(cfg)
  <2>1. Program(cfg) = s \o t
    BY <1>7 DEF Program, a, b, c
  <2>2. IsSteps(t, TRUE) /\ Before(t, "accept", "copy") /\ Has(t, "accept") /\ ~Has(t, "connect")
    BY RecvTyped
  <2> HIDE DEF s, t
  <2>3. IsSteps(s \o t, TRUE) /\ Has(s \o t, "accept") /\ ~Has(s \o t, "connect")
    BY <1>3, <1>5, <2>2, ConcatHas
  <2>4. Before(s \o t, "accept", "copy")
    BY <1>3, <1>5, <2>2, BeforeBehind
  <2> QED BY <1>7, <2>1, <2>3, <2>4 DEF IsFileProgram
<1> QED BY <1>6, <1>7

(* At first.                                                               *)
LEMMA ConnectedInit == Init => ConnectedInv
<1> SUFFICES ASSUME Init, FileRun PROVE StepsInv /\ SockInv /\ AcceptInv /\ HeldInv
  BY DEF ConnectedInv
<1>1. todo = [p \in Proc |-> Program(sc[p])] /\ proxy = "idle" /\ link = "none"
  BY DEF Init
<1>2. todo["client"] = Program(sc["client"]) /\ todo["server"] = Program(sc["server"])
  BY <1>1 DEF Proc
<1>3. /\ IsFileProgram(Program(sc["client"])) /\ Before(Program(sc["client"]), "connect", "negotiate")
      /\ Has(Program(sc["client"]), "connect")
  BY FileProgramTyped DEF FileRun
<1>4. /\ IsFileProgram(Program(sc["server"])) /\ Before(Program(sc["server"]), "accept", "copy")
      /\ Has(Program(sc["server"]), "accept") /\ ~Has(Program(sc["server"]), "connect")
  BY FileProgramTyped DEF FileRun
<1> QED BY <1>1, <1>2, <1>3, <1>4 DEF StepsInv, SockInv, AcceptInv, HeldInv, IsFileProgram

-----------------------------------------------------------------------------
(* The contents. While recv runs, what it has written and what is on the   *)
(* wire are what send has read; a reset may take some of it. A success of  *)
(* send has a reason, and so has one of recv.                              *)
WireInv ==
    ~Ended("server") => /\ Matches(out["server"], wire)
                        /\ ~reset => Len(out["server"]) + Len(wire) = fpos
SentInv == status["client"] = 0 => stop["client"] \/ ioerr \/ fpos = Len(File)
ReceivedInv ==
    status["server"] = 0 =>
        stop["server"] \/ reset \/ (Ended("client") /\ Len(out["server"]) = fpos)
ContentInv ==
    FileRun => Matches(out["server"], <<>>) /\ WireInv /\ SentInv /\ ReceivedInv

(* A failure is no success.                                                *)
LEMMA FailedIsNotZero ==
  ASSUME FileRun, LaunchInv, NEW p \in Proc, status[p] = -1, NEW q \in Proc, Failed(q)
  PROVE  status'[p] # 0
<1>1. FailsWith(q) \in {1, 2}
  BY DEF FailsWith, FailStatus, FileRun, Proc
<1>2. status' = [status EXCEPT ![q] = FailsWith(q)]
  BY DEF Failed, End
<1>3. status'[p] = FailsWith(q) \/ status'[p] = status[p]
  BY <1>2 DEF LaunchInv
<1> QED BY <1>1, <1>3

(* How a command of the two comes to report success.                       *)
LEMMA ZeroEnds ==
  ASSUME FileRun, LaunchInv, Next, NEW p \in Proc, status[p] = -1, status'[p] = 0,
         \A q \in Proc : ThisStep(q).call # "relay"
  PROVE  \/ stop[p]
         \/ p = "client" /\ (fpos = Len(File) \/ ioerr') /\ UNCHANGED fpos
         \/ p = "server" /\ RecvEnds
<1>1. status'[p] # status[p]
  OBVIOUS
<1>2. ~UNCHANGED status /\ \A q \in Proc : ~Advance(q) /\ ~Failed(q) /\ ~CallFails(q)
  <2>1. ~UNCHANGED status
    BY <1>1
  <2>2. \A q \in Proc : ~Advance(q)
    BY <2>1 DEF Advance
  <2>3. \A q \in Proc : ~Failed(q)
    BY FailedIsNotZero
  <2> QED BY <2>1, <2>2, <2>3 DEF CallFails
<1>3. ASSUME NEW q \in Proc, NEW st, End(q, st) PROVE p = q
  BY <1>1, <1>3 DEF End, LaunchInv
<1>4. ASSUME NEW q \in Proc, Work(q) PROVE stop[p]
  <2>1. CASE Plain(q) \/ ParseArgs(q) \/ Connect(q) \/ Refused(q) \/ Accept(q)
    BY <1>2, <2>1 DEF Plain, ParseArgs, Connect, Refused, Accept
  <2>2. CASE AcceptStopped(q) \/ AccessCheck(q) \/ Handshake(q) \/ HandshakeBroken(q)
    BY <1>2, <2>2 DEF AcceptStopped, AccessCheck, Handshake, HandshakeBroken
  <2>3. CASE CopyTest(q)
    BY <1>2, <1>3, <2>3 DEF CopyTest
  <2>4. CASE RelayCopies(q) \/ RelayEnds(q)
    BY <2>4 DEF RelayCopies, RelayEnds, Doing
  <2> QED BY <1>4, <2>1, <2>2, <2>3, <2>4 DEF Work
<1>5. "client" \in Proc /\ "server" \in Proc
  BY DEF Proc
<1>6. CASE Work("client") \/ Work("server")
  BY <1>4, <1>5, <1>6
<1>7. CASE NegotiateStart \/ NegotiateRead \/ NegotiateEof \/ SendChunk
  BY <1>2, <1>5, <1>7 DEF NegotiateStart, NegotiateRead, NegotiateEof, SendChunk, ToTest
<1>8. CASE SendEnds
  <2>1. /\ UNCHANGED fpos
        /\ \/ fpos = Len(File) /\ End("client", 0)
           \/ ioerr' = TRUE /\ End("client", 0)
           \/ End("client", 1)
    BY <1>8 DEF SendEnds, FileEof
  <2>2. ~End("client", 1)
    BY <1>1, <1>5 DEF End, LaunchInv
  <2> QED BY <1>3, <1>5, <2>1, <2>2
<1>9. CASE RecvChunk
  <2>1. UNCHANGED status \/ End("server", 1)
    BY <1>9 DEF RecvChunk, ToTest
  <2>2. ~End("server", 1)
    BY <1>1, <1>5 DEF End, LaunchInv
  <2> QED BY <1>2, <2>1, <2>2
<1>10. CASE RecvEnds
  <2>1. End("server", 0)
    BY <1>10 DEF RecvEnds
  <2> QED BY <1>3, <1>5, <1>10, <2>1
<1>11. CASE RecvAgain \/ Surroundings \/ ProxyCloses \/ Reset
  BY <1>2, <1>11 DEF RecvAgain, ToTest, Surroundings, ProxyGreets, ProxyConnects, PeerConnects, ProxyCloses, Reset
<1>12. CASE ReplyOverrun
  <2>1. status' = [status EXCEPT !["client"] = Killed]
    BY <1>12 DEF ReplyOverrun
  <2> QED BY <1>1, <1>5, <2>1 DEF LaunchInv, Killed
<1>13. CASE \E q \in Proc : Fail(q) \/ Signal(q)
  BY <1>2, <1>13 DEF Fail, Signal
<1> QED BY <1>6, <1>7, <1>8, <1>9, <1>10, <1>11, <1>12, <1>13 DEF Next, ClientWork, ServerWork

(* What the steps that move no byte of the file leave alone.               *)
LEMMA Bystanders ==
  ASSUME FileRun, Next, ~SendChunk, ~RecvChunk, ~Reset, DataOK,
         \A q \in Proc : ThisStep(q).call # "relay"
  PROVE  UNCHANGED <<wire, fpos, reset, out>> /\ (ioerr => ioerr')
<1>1. ASSUME UNCHANGED <<net, copied>> PROVE UNCHANGED <<wire, fpos, reset, out, ioerr>>
  BY <1>1 DEF net, copied
<1>2. ASSUME NEW q \in Proc, Work(q) PROVE UNCHANGED <<wire, fpos, reset, out, ioerr>>
  <2>1. CASE Plain(q) \/ ParseArgs(q) \/ Refused(q) \/ AcceptStopped(q)
    BY <1>1, <2>1 DEF Plain, ParseArgs, Refused, AcceptStopped
  <2>2. CASE AccessCheck(q) \/ Handshake(q) \/ HandshakeBroken(q) \/ CopyTest(q)
    BY <1>1, <2>2 DEF AccessCheck, Handshake, HandshakeBroken, CopyTest
  <2>3. CASE Connect(q) \/ Accept(q)
    BY <2>3 DEF Connect, Accept, copied
  <2>4. CASE RelayCopies(q) \/ RelayEnds(q)
    BY <2>4 DEF RelayCopies, RelayEnds, Doing
  <2> QED BY <1>2, <2>1, <2>2, <2>3, <2>4 DEF Work
<1>3. CASE Work("client") \/ Work("server")
  BY <1>2, <1>3 DEF Proc
<1>4. CASE NegotiateStart \/ NegotiateRead \/ NegotiateEof
  BY <1>4 DEF NegotiateStart, NegotiateRead, NegotiateEof, net, copied
<1>5. CASE SendEnds
  BY <1>5 DEF SendEnds, net
<1>6. CASE RecvEnds \/ RecvAgain
  BY <1>1, <1>6 DEF RecvEnds, RecvAgain
<1>7. CASE Surroundings \/ ProxyCloses
  <2>1. CASE ProxyGreets
    BY <2>1 DEF ProxyGreets, copied
  <2>2. CASE ProxyConnects
    BY <2>2 DEF ProxyConnects, copied
  <2>3. CASE PeerConnects
    BY <2>3 DEF PeerConnects, copied
  <2>4. CASE ProxyCloses
    BY <2>4 DEF ProxyCloses, copied
  <2> QED BY <1>7, <2>1, <2>2, <2>3, <2>4 DEF Surroundings
<1>8. CASE ReplyOverrun \/ \E q \in Proc : Fail(q) \/ Signal(q)
  BY <1>1, <1>8 DEF ReplyOverrun, Fail, Signal
<1> QED BY <1>3, <1>4, <1>5, <1>6, <1>7, <1>8 DEF Next, ClientWork, ServerWork

(* A command that was told to stop stays so.                               *)
LEMMA StopStays ==
  ASSUME AccountOK, Next, NEW p \in Proc, stop[p]
  PROVE  stop'[p]
<1>1. (\E q \in Proc : Moves(q)) \/ Overruns \/ Remains
  BY NextMoves
<1>2. CASE \E q \in Proc : Moves(q)
  BY <1>2 DEF Moves, GoesOn, Advance, Finishes, End, NextAddress
<1>3. CASE Overruns
  BY <1>3 DEF Overruns
<1>4. CASE Remains
  BY <1>4 DEF Remains, AccountOK
<1> QED BY <1>1, <1>2, <1>3, <1>4

(* recv ends well: without a reset send has ended before, and all that it  *)
(* had read is written.                                                    *)
LEMMA RecvEndsKnows ==
  ASSUME FileRun, LaunchInv, StepsInv, SockInv, AcceptInv, RecvEnds, ~reset
  PROVE  Ended("client") /\ wire = <<>> /\ ~Ended("server")
<1>1. /\ wire = <<>> /\ NetworkEof /\ Head(todo["server"]).call = "copy" /\ ~Ended("server")
      /\ Present("server")
  BY DEF RecvEnds, Pumping, Doing, ThisStep
<1>2. "sock" \notin held["client"]
  BY <1>1 DEF NetworkEof, ClientGone, FileRun, Present
<1>3. IsSteps(todo["server"], TRUE) /\ Ends(todo["server"]) /\ Before(todo["server"], "accept", "copy")
  BY <1>1 DEF StepsInv, LaunchInv, IsProgram, Proc
<1>4. ~Has(todo["server"], "accept")
  BY <1>1, <1>3, TailBefore
<1> QED BY <1>1, <1>2, <1>4 DEF SockInv, AcceptInv

(* A command that has ended has its status for good.                       *)
LEMMA StatusStays ==
  ASSUME LaunchInv, Next, NEW p \in Proc, Ended(p)
  PROVE  status'[p] = status[p]
<1>1. (\E q \in Proc : Moves(q)) \/ Overruns \/ Remains
  BY NextMoves
<1>2. ASSUME NEW q \in Proc, Moves(q) PROVE status'[p] = status[p]
  <2>1. CASE GoesOn(q) \/ NextAddress(q)
    BY <2>1 DEF GoesOn, Advance, NextAddress
  <2>2. CASE Finishes(q)
    BY <2>2 DEF Finishes, End, LaunchInv
  <2> QED BY <1>2, <2>1, <2>2 DEF Moves
<1>3. CASE Overruns
  BY <1>3 DEF Overruns, Negotiating, Doing, LaunchInv
<1>4. CASE Remains
  BY <1>4 DEF Remains
<1> QED BY <1>1, <1>2, <1>3, <1>4

(* send reads a piece of the file. While recv runs and the connection      *)
(* stands, recv holds its end of it, and the piece is on the wire.         *)
LEMMA SendChunkKeeps ==
  ASSUME FileRun, LaunchInv, AccountOK, DataOK, ConnectedInv, ContentInv, SendChunk
  PROVE  (Matches(out["server"], <<>>) /\ WireInv /\ SentInv /\ ReceivedInv)'
<1>1. /\ ~Ended("client") /\ UNCHANGED <<status, stop, reset, out>>
      /\ \E n \in 1..ReadMax :
            /\ fpos + n <= Len(File) /\ fpos' = fpos + n
            /\ \/ (ServerGone \/ reset) /\ UNCHANGED wire
               \/ wire' = wire \o SubSeq(File, fpos + 1, fpos + n)
  BY DEF SendChunk, Pumping, Doing, ToTest
<1>2. PICK n \in 1..ReadMax :
            /\ fpos + n <= Len(File) /\ fpos' = fpos + n
            /\ \/ (ServerGone \/ reset) /\ UNCHANGED wire
               \/ ~reset /\ wire' = wire \o SubSeq(File, fpos + 1, fpos + n)
  BY DEF SendChunk
<1>3. Matches(out["server"], <<>>) /\ WireInv /\ SentInv /\ ReceivedInv
  BY DEF ContentInv
<1>4. WireInv'
  <2> SUFFICES ASSUME ~Ended("server")
               PROVE  Matches(out["server"], wire') /\ (~reset => Len(out["server"]) + Len(wire') = fpos')
    BY <1>1 DEF WireInv, Ended
  <2>1. Matches(out["server"], wire) /\ (~reset => Len(out["server"]) + Len(wire) = fpos)
    BY <1>3 DEF WireInv
  <2>2. CASE UNCHANGED wire /\ (ServerGone \/ reset)
    <3>1. ~ServerGone
      BY DEF ServerGone, HeldInv, ConnectedInv, Listening
    <3> QED BY <2>1, <2>2, <3>1
  <2>3. CASE ~reset /\ wire' = wire \o SubSeq(File, fpos + 1, fpos + n)
    <3>1. out["server"] \in Seq(Nat) /\ wire \in Seq(Nat)
      BY FileTyped DEF DataOK, CopyOK, NetOK, Proc
    <3>2. n \in Nat /\ Len(out["server"]) + Len(wire) = fpos
      BY <2>1, <2>3, TransferAssumption
    <3>3. Len(out["server"]) + Len(wire) + n <= Len(File)
      BY <1>2, <3>2
    <3>4. /\ Matches(out["server"], wire \o SubSeq(File, fpos + 1, fpos + n))
          /\ Len(out["server"]) + Len(wire \o SubSeq(File, fpos + 1, fpos + n)) = fpos + n
      BY <2>1, <3>1, <3>2, <3>3, MatchesSent
    <3> QED BY <1>2, <2>3, <3>4
  <2> QED BY <1>2, <2>2, <2>3
<1>5. SentInv' /\ ReceivedInv'
  BY <1>1, <1>3 DEF SentInv, ReceivedInv, Ended
<1> QED BY <1>1, <1>3, <1>4, <1>5

(* recv writes a piece from the wire, or a part of it when the disk fails. *)
LEMMA RecvChunkKeeps ==
  ASSUME FileRun, LaunchInv, AccountOK, DataOK, ContentInv, RecvChunk
  PROVE  (Matches(out["server"], <<>>) /\ WireInv /\ SentInv /\ ReceivedInv)'
<1> DEFINE o == out["server"]
<1>1. ~Ended("server") /\ UNCHANGED <<fpos, stop, reset>> /\ status'["client"] = status["client"]
  BY DEF RecvChunk, Pumping, Doing, ToTest, End, LaunchInv, Proc
<1>2. PICK n \in 1..ReadMax :
          /\ n <= Len(wire)
          /\ wire' = SubSeq(wire, n + 1, Len(wire))
          /\ \/ /\ out' = [out EXCEPT !["server"] = o \o SubSeq(wire, 1, n)]
                /\ UNCHANGED <<status, ioerr>>
             \/ /\ ioerr' = TRUE
                /\ \E m \in 0..(n - 1) : out' = [out EXCEPT !["server"] = o \o SubSeq(wire, 1, m)]
                /\ End("server", 1)
  BY DEF RecvChunk, ToTest
<1>3. Matches(o, wire) /\ (~reset => Len(o) + Len(wire) = fpos) /\ SentInv
  BY <1>1 DEF ContentInv, WireInv
<1>4. /\ o \in Seq(Nat) /\ wire \in Seq(Nat) /\ n \in Nat /\ Len(wire) \in Nat
      /\ out \in [Proc -> Seq(Nat)] /\ "server" \in Proc
  BY FileTyped, TransferAssumption DEF DataOK, CopyOK, NetOK, Proc
<1>5. CASE out' = [out EXCEPT !["server"] = o \o SubSeq(wire, 1, n)] /\ UNCHANGED <<status, ioerr>>
  <2>1. out'["server"] = o \o SubSeq(wire, 1, n)
    BY <1>4, <1>5
  <2>2. /\ Matches(o \o SubSeq(wire, 1, n), SubSeq(wire, n + 1, Len(wire)))
        /\ Matches(o \o SubSeq(wire, 1, n), <<>>)
        /\ Len(o \o SubSeq(wire, 1, n)) + Len(SubSeq(wire, n + 1, Len(wire))) = Len(o) + Len(wire)
    BY <1>2, <1>3, <1>4, MatchesTaken
  <2>3. Matches(out'["server"], <<>>) /\ WireInv'
    BY <1>1, <1>2, <1>3, <2>1, <2>2 DEF WireInv
  <2>4. SentInv' /\ ReceivedInv'
    BY <1>1, <1>3, <1>5 DEF SentInv, ReceivedInv, Ended
  <2> QED BY <2>3, <2>4
<1>6. CASE /\ ioerr' = TRUE /\ End("server", 1)
           /\ \E m \in 0..(n - 1) : out' = [out EXCEPT !["server"] = o \o SubSeq(wire, 1, m)]
  <2>1. PICK m \in 0..(n - 1) : out' = [out EXCEPT !["server"] = o \o SubSeq(wire, 1, m)]
    BY <1>6
  <2>2. m \in Nat /\ m <= Len(wire)
    BY <1>2, <1>4
  <2>3. out'["server"] = o \o SubSeq(wire, 1, m)
    BY <1>4, <2>1
  <2>4. Matches(o \o SubSeq(wire, 1, m), <<>>)
    BY <1>3, <1>4, <2>2, MatchesTaken
  <2>5. status'["server"] = 1
    BY <1>4, <1>6 DEF End, LaunchInv
  <2>6. Matches(out["server"], <<>>)'
    BY <2>3, <2>4
  <2>7. WireInv' /\ ReceivedInv'
    BY <2>5 DEF WireInv, ReceivedInv, Ended
  <2>8. SentInv'
    BY <1>6 DEF SentInv
  <2> QED BY <2>6, <2>7, <2>8
<1> QED BY <1>2, <1>5, <1>6

(* A reset.                                                                *)
LEMMA ResetKeeps ==
  ASSUME FileRun, DataOK, ContentInv, Reset
  PROVE  (Matches(out["server"], <<>>) /\ WireInv /\ SentInv /\ ReceivedInv)'
<1>1. UNCHANGED <<status, stop, fpos, out, ioerr>> /\ reset' = TRUE
  BY DEF Reset, copied
<1>2. PICK n \in 0..Len(wire) : wire' = SubSeq(wire, 1, n)
  BY DEF Reset
<1>3. out["server"] \in Seq(Nat) /\ wire \in Seq(Nat) /\ n \in Nat /\ n <= Len(wire)
  BY FileTyped DEF DataOK, CopyOK, NetOK, Proc
<1>4. ~Ended("server") => Matches(out["server"], wire')
  BY <1>2, <1>3, MatchesCut DEF ContentInv, WireInv
<1> QED BY <1>1, <1>4 DEF ContentInv, WireInv, SentInv, ReceivedInv, Ended

(* Any other step. It moves no byte, and a success has its reason.         *)
LEMMA OthersKeep ==
  ASSUME FileRun, LaunchInv, AccountOK, DataOK, ConnectedInv, ContentInv, Next,
         ~SendChunk, ~RecvChunk, ~Reset
  PROVE  (Matches(out["server"], <<>>) /\ WireInv /\ SentInv /\ ReceivedInv)'
<1>1. StepsInv /\ SockInv /\ AcceptInv /\ WireInv /\ SentInv /\ ReceivedInv /\ Matches(out["server"], <<>>)
  BY DEF ConnectedInv, ContentInv
<1>2. "client" \in Proc /\ "server" \in Proc
  BY DEF Proc
<1>3. \A q \in Proc : ThisStep(q).call # "relay"
  <2>1. ASSUME NEW q \in Proc PROVE ThisStep(q).call # "relay"
    <3>1. IsSteps(todo[q], TRUE) /\ Ends(todo[q])
      BY <1>1 DEF StepsInv, LaunchInv, IsProgram, FileRun, Present, Proc
    <3>2. IsStep(ThisStep(q), TRUE)
      BY <3>1, FirstStep DEF ThisStep
    <3> QED BY <3>2 DEF IsStep, FileCall
  <2> QED BY <2>1
<1>4. UNCHANGED <<wire, fpos, reset, out>> /\ (ioerr => ioerr')
  BY <1>3, Bystanders
<1>5. /\ stop["client"] => stop'["client"]
      /\ stop["server"] => stop'["server"]
  BY <1>2, StopStays
<1>6. \A p \in Proc : Ended(p) => status'[p] = status[p] /\ Ended(p)'
  BY StatusStays DEF Ended
<1>7. WireInv'
  BY <1>1, <1>2, <1>4, <1>6 DEF WireInv
<1>8. SentInv'
  <2>1. CASE status["client"] = -1 /\ status'["client"] = 0
    <3>1. stop["client"] \/ ((fpos = Len(File) \/ ioerr') /\ UNCHANGED fpos)
      BY <1>2, <1>3, <2>1, ZeroEnds
    <3> QED BY <1>5, <3>1 DEF SentInv
  <2>2. CASE status["client"] # -1
    BY <1>1, <1>2, <1>4, <1>5, <1>6, <2>2 DEF SentInv, Ended
  <2> QED BY <2>1, <2>2 DEF SentInv
<1>9. ReceivedInv'
  <2>1. CASE status["server"] = -1 /\ status'["server"] = 0
    <3>1. stop["server"] \/ RecvEnds
      BY <1>2, <1>3, <2>1, ZeroEnds
    <3>2. ASSUME RecvEnds, ~reset PROVE Ended("client")' /\ Len(out["server"]) = fpos
      <4>1. Ended("client") /\ wire = <<>> /\ ~Ended("server")
        BY <1>1, <3>2, RecvEndsKnows
      <4>2. Len(out["server"]) + 0 = fpos /\ Len(out["server"]) \in Nat
        BY <1>1, <1>2, <3>2, <4>1 DEF WireInv, DataOK, CopyOK
      <4> QED BY <1>2, <1>6, <4>1, <4>2
    <3> QED BY <1>4, <1>5, <3>1, <3>2 DEF ReceivedInv
  <2>2. CASE status["server"] # -1
    BY <1>1, <1>2, <1>4, <1>5, <1>6, <2>2 DEF ReceivedInv, Ended
  <2> QED BY <2>1, <2>2 DEF ReceivedInv
<1> QED BY <1>1, <1>4, <1>7, <1>8, <1>9

(* Any step keeps the contents.                                            *)
LEMMA ContentStep ==
  LaunchInv /\ AccountOK /\ DataOK /\ ConnectedInv /\ ContentInv /\ [Next]_vars => ContentInv'
<1> SUFFICES ASSUME LaunchInv, AccountOK, DataOK, ConnectedInv, ContentInv, [Next]_vars, FileRun'
             PROVE  (Matches(out["server"], <<>>) /\ WireInv /\ SentInv /\ ReceivedInv)'
  BY DEF ContentInv
<1>1. CASE UNCHANGED vars
  BY <1>1 DEF ContentInv, FileRun, WireInv, SentInv, ReceivedInv, Ended, vars, net, copied
<1>2. CASE Next
  <2>1. FileRun
    BY <1>2, NextMoves DEF FileRun
  <2> QED BY <1>2, <2>1, SendChunkKeeps, RecvChunkKeeps, ResetKeeps, OthersKeep
<1> QED BY <1>1, <1>2

(* At first nothing is sent and nobody has ended.                          *)
LEMMA ContentInit == Init => ContentInv
<1> SUFFICES ASSUME Init PROVE Matches(out["server"], <<>>) /\ WireInv /\ SentInv /\ ReceivedInv
  BY DEF ContentInv
<1>1. out["server"] = <<>> /\ wire = <<>> /\ fpos = 0 /\ status["client"] = -1 /\ status["server"] = -1
  BY DEF Init, Proc
<1>2. Len(<<>>) = 0 /\ Len(File) \in Nat
  BY FileTyped
<1>3. Matches(<<>>, <<>>)
  BY <1>2 DEF Matches
<1> QED BY <1>1, <1>2, <1>3 DEF WireInv, SentInv, ReceivedInv

(* recv writes a prefix of what send read, and the whole file when both    *)
(* report success, nobody was told to stop and nothing failed              *)
(* (wcat_copy_stream, wcat_send_file, wcat_recv_file): for every file,     *)
(* block size, capacity of the network, proxy and configuration.           *)
THEOREM FilesArrive == Spec => []TransferExact
<1>1. LaunchInv /\ DataOK /\ ContentInv => TransferExact
  <2> SUFFICES ASSUME DataOK, ContentInv, FileRun
               PROVE  /\ IsPrefix(out["server"], File)
                      /\ (\A p \in Proc : status[p] = 0 /\ ~stop[p]) /\ ~reset /\ ~ioerr
                            => out["server"] = File
    BY DEF TransferExact, FileRun
  <2>1. out["server"] \in Seq(Nat) /\ Matches(out["server"], <<>>) /\ SentInv /\ ReceivedInv
    BY DEF DataOK, CopyOK, Proc, ContentInv
  <2>2. IsPrefix(out["server"], File) /\ (Len(out["server"]) = Len(File) => out["server"] = File)
    BY <2>1, MatchesPrefix
  <2>3. ASSUME \A p \in Proc : status[p] = 0 /\ ~stop[p], ~reset, ~ioerr
        PROVE  Len(out["server"]) = Len(File)
    BY <2>1, <2>3 DEF SentInv, ReceivedInv, Proc
  <2> QED BY <2>2, <2>3
<1> QED BY <1>1, LaunchHolds, TypesInit, AccountStep, DataStep, ConnectedInit, ConnectedStep,
           ContentInit, ContentStep, PTL DEF Spec

-----------------------------------------------------------------------------
(* The account. Each command that runs is at a place of its program from   *)
(* which Launch's accounts follow it to the end.                           *)

Leaks(p) == sc[p].mode = "connect"
Follows(p) == \E g, q : Runs(Leaks(p), held[p], ref[p], todo[p], g, q)
Settled(p) ==
    \/ held[p] = {}
    \/ held[p] = {"sock"} /\ Leaks(p) /\ ThisStep(p).call = "spawn"
LedgerInv ==
    /\ wrong = {}
    /\ \A p \in Proc : /\ Ended(p) => Present(p) /\ Settled(p)
                       /\ Present(p) /\ ~Ended(p) => Follows(p)

(* A clean release misuses nothing and leaves what Clean says.             *)
LEMMA ReleaseClean ==
  ASSUME AccountOK, NEW p \in Proc, NEW undo \in Undo, NEW g,
         Clean(held[p], ref[p], undo, g), Release(p, undo)
  PROVE  held'[p] = g /\ wrong' = wrong
<1> DEFINE n == Len(undo)
           gone == Named(p, undo)
           h == held[p]
           r == ref[p]
<1>1. n \in Nat /\ DOMAIN undo = 1..n
  BY DEF Undo
<1>2. DOMAIN gone = 1..n /\ \A k \in 1..n : gone[k] = Means(r, undo[k])
  BY <1>1 DEF Named, Means
<1>3. ToSet(gone) = Given(r, undo, n)
  <2> HIDE DEF gone, n, r
  <2> QED BY <1>2 DEF ToSet, Given
<1>4. g = h \ Given(r, undo, n)
  BY DEF Clean
<1>5. held'[p] = h \ ToSet(gone)
  BY DEF Release, AccountOK
<1>6. ASSUME NEW k \in 1..n, gone[k] # ""
      PROVE  {gone[k]} \cup DescriptorOf(p, gone[k]) \subseteq h \ {gone[j] : j \in 1..(k - 1)}
  <2>1. Ready(h \ Given(r, undo, k - 1), r, undo[k])
    BY <1>1 DEF Clean
  <2>2. Needs(r, gone[k]) \subseteq h \ Given(r, undo, k - 1)
    <3> HIDE DEF gone, n, h, r
    <3> QED BY <1>2, <1>6, <2>1 DEF Ready
  <2>3. Given(r, undo, k - 1) = {gone[j] : j \in 1..(k - 1)}
    <3>1. \A j \in 1..(k - 1) : j \in 1..n
      BY <1>1
    <3> HIDE DEF gone, n, r
    <3> QED BY <1>2, <3>1 DEF Given
  <2>4. Needs(r, gone[k]) = {gone[k]} \cup DescriptorOf(p, gone[k])
    <3> HIDE DEF gone
    <3> QED BY DEF Needs, DescriptorOf
  <2> QED BY <2>2, <2>3, <2>4
<1>7. Misused(p, undo) = {}
  <2>1. Misused(p, undo) =
          {gone[k] : k \in {j \in DOMAIN gone :
              gone[j] # "" /\ ~({gone[j]} \cup DescriptorOf(p, gone[j]) \subseteq h \ {gone[i] : i \in 1..(j - 1)})}}
    BY DEF Misused
  <2> HIDE DEF gone, h
  <2> QED BY <1>2, <1>6, <2>1
<1>8. wrong' = wrong \cup Misused(p, undo)
  BY DEF Release
<1> QED BY <1>3, <1>4, <1>5, <1>7, <1>8

(* The step a command is at.                                               *)
LEMMA StepHere ==
  ASSUME LaunchInv, NEW p \in Proc, Present(p)
  PROVE  IsProgram(todo[p]) /\ IsStep(ThisStep(p), FALSE)
<1>1. IsSteps(todo[p], FALSE) /\ Ends(todo[p])
  BY DEF LaunchInv, IsProgram
<1>2. 1 \in DOMAIN todo[p] /\ (\A k \in DOMAIN todo[p] : IsStep(todo[p][k], FALSE))
  BY <1>1, StepsAreSequence DEF Ends
<1>3. Head(todo[p]) = todo[p][1]
  BY <1>1, StepsAreSequence DEF Ends
<1> QED BY <1>1, <1>2, <1>3 DEF ThisStep, IsProgram

(* A call succeeds: the account is what HeldAfter and RefAfter say.        *)
LEMMA AdvanceFollows ==
  ASSUME LaunchInv, AccountOK, NEW p \in Proc, Follows(p), GoesOn(p), UNCHANGED sc
  PROVE  Follows(p)' /\ wrong' = wrong
<1> DEFINE s == ThisStep(p)
<1>1. IsProgram(todo[p]) /\ IsStep(s, FALSE) /\ s.call \notin LoopCalls /\ Advance(p)
  BY StepHere DEF GoesOn
<1>2. s.undo \in Undo /\ s.into \in Fields \cup {""}
  BY <1>1 DEF IsStep
<1>3. PICK g, q : Runs(Leaks(p), held[p], ref[p], todo[p], g, q)
  BY DEF Follows
<1>4. /\ Sound(Leaks(p), held[p], ref[p], s)
      /\ Runs(Leaks(p), HeldAfter(held[p], ref[p], s), RefAfter(ref[p], s), Tail(todo[p]), g, q)
  BY <1>1, <1>3, RunsFirst DEF ThisStep
<1>5. todo'[p] = Tail(todo[p])
  BY <1>1 DEF Advance, LaunchInv
<1>6. held'[p] = HeldAfter(held[p], ref[p], s) /\ ref'[p] = RefAfter(ref[p], s) /\ wrong' = wrong
  <2>1. CASE s.call = "free"
    <3>1. Release(p, s.undo)
      BY <1>1, <2>1 DEF Advance
    <3>2. PICK f : Clean(held[p], ref[p], s.undo, f)
      BY <1>4, <2>1 DEF Sound
    <3>3. held'[p] = f /\ wrong' = wrong
      BY <1>2, <3>1, <3>2, ReleaseClean
    <3>4. f = HeldAfter(held[p], ref[p], s)
      BY <2>1, <3>2 DEF Clean, HeldAfter
    <3>5. ref' = ref /\ RefAfter(ref[p], s) = ref[p]
      BY <2>1, <3>1 DEF Release, RefAfter
    <3> QED BY <3>3, <3>4, <3>5
  <2>2. CASE s.call # "free"
    <3> HIDE DEF s
    <3>1. /\ held' = [held EXCEPT ![p] = IF s.call = "store" THEN @ ELSE @ \cup ({s.val} \ {""})]
          /\ ref' = IF s.into = "" THEN ref ELSE [ref EXCEPT ![p][s.into] = s.val]
          /\ wrong' = wrong
      BY <1>1, <2>2 DEF Advance, s
    <3>2. held'[p] = HeldAfter(held[p], ref[p], s)
      BY <2>2, <3>1 DEF HeldAfter, AccountOK
    <3>3. ref'[p] = RefAfter(ref[p], s)
      BY <2>2, <3>1 DEF RefAfter, AccountOK
    <3> QED BY <3>1, <3>2, <3>3
  <2> QED BY <2>1, <2>2
<1>7. Leaks(p)' = Leaks(p)
  BY DEF Leaks
<1> HIDE DEF s
<1>8. Runs(Leaks(p)', held'[p], ref'[p], todo'[p], g, q)
  BY <1>4, <1>5, <1>6, <1>7
<1> QED BY <1>6, <1>8 DEF Follows

(* A command ends: what its step releases is all it has.                   *)
LEMMA EndSettles ==
  ASSUME LaunchInv, AccountOK, NEW p \in Proc, Follows(p), Finishes(p), UNCHANGED sc
  PROVE  Settled(p)' /\ wrong' = wrong
<1> DEFINE s == ThisStep(p)
<1>1. IsProgram(todo[p]) /\ IsStep(s, FALSE) /\ s.call \notin {"store", "free"} /\ Release(p, s.undo)
      /\ UNCHANGED todo
  BY StepHere DEF Finishes, End
<1>2. s.undo \in Undo
  BY <1>1 DEF IsStep
<1>3. Sound(Leaks(p), held[p], ref[p], s)
  BY <1>1, RunsFirst DEF ThisStep, Follows
<1>4. PICK g : Clean(held[p], ref[p], s.undo, g) /\ (g = {} \/ (Leaks(p) /\ s.call = "spawn" /\ g = {"sock"}))
  BY <1>1, <1>3 DEF Sound
<1>5. held'[p] = g /\ wrong' = wrong
  BY <1>1, <1>2, <1>4, ReleaseClean
<1> QED BY <1>1, <1>4, <1>5 DEF Settled, Leaks, ThisStep

(* What a step leaves alone in the account of the other command.           *)
LEMMA OtherAccount ==
  ASSUME LaunchInv, AccountOK, NEW p \in Proc, NEW q \in Proc, q # p, Moves(p)
  PROVE  held'[q] = held[q] /\ ref'[q] = ref[q] /\ todo'[q] = todo[q] /\ status'[q] = status[q]
<1>1. CASE GoesOn(p)
  <2>1. todo'[q] = todo[q] /\ status' = status
    BY <1>1 DEF GoesOn, Advance, LaunchInv
  <2>2. held'[q] = held[q] /\ ref'[q] = ref[q]
    BY <1>1 DEF GoesOn, Advance, Release, AccountOK
  <2> QED BY <2>1, <2>2
<1>2. CASE Finishes(p)
  BY <1>2 DEF Finishes, End, Release, AccountOK, LaunchInv
<1>3. CASE NextAddress(p)
  BY <1>3 DEF NextAddress, account
<1> QED BY <1>1, <1>2, <1>3 DEF Moves

(* The account holds at first, as every program does.                      *)
LEMMA LedgerInit == Init => LedgerInv
<1> SUFFICES ASSUME Init PROVE LedgerInv
  OBVIOUS
<1>1. sc \in Scenarios /\ wrong = {} /\ \A p \in Proc : ~Ended(p)
  BY DEF Init, Ended
<1>2. ASSUME NEW p \in Proc PROVE Follows(p)
  <2>1. sc[p].mode \in {"none", "connect", "listen", "send", "recv", "relay"}
    BY <1>1, ScenarioTyped
  <2>2. held[p] = {} /\ ref[p] = NoRefs /\ todo[p] = Program(sc[p])
    BY DEF Init, NoRefs
  <2>3. \E g, q : Part(sc[p].mode = "connect", {}, NoRefs, Program(sc[p]), g, q)
    BY <2>1, ProgramRuns
  <2> QED BY <2>2, <2>3 DEF Follows, Leaks, Part
<1> QED BY <1>1, <1>2 DEF LedgerInv

(* A command moves.                                                        *)
LEMMA MoveKeepsLedger ==
  ASSUME LaunchInv, AccountOK, LedgerInv, NEW p \in Proc, Moves(p), UNCHANGED sc
  PROVE  LedgerInv'
<1>1. \A q \in Proc : (Present(q)' <=> Present(q)) /\ (Leaks(q)' <=> Leaks(q))
  BY DEF Present, Leaks
<1>2. ASSUME NEW q \in Proc, q # p
      PROVE  /\ (Ended(q) => Present(q) /\ Settled(q))'
             /\ (Present(q) /\ ~Ended(q) => Follows(q))'
  <2>1. held'[q] = held[q] /\ ref'[q] = ref[q] /\ todo'[q] = todo[q] /\ status'[q] = status[q]
    BY <1>2, OtherAccount
  <2>2. (Ended(q)' <=> Ended(q)) /\ (Settled(q)' <=> Settled(q)) /\ (Follows(q)' <=> Follows(q))
    BY <1>1, <2>1 DEF Ended, Settled, Follows, ThisStep, Leaks
  <2> QED BY <1>1, <2>2 DEF LedgerInv
<1>3. /\ wrong' = wrong
      /\ (Ended(p) => Present(p) /\ Settled(p))'
      /\ (Present(p) /\ ~Ended(p) => Follows(p))'
  <2>1. CASE GoesOn(p)
    <3>1. Follows(p) /\ status' = status /\ ~Ended(p)
      BY <2>1 DEF LedgerInv, GoesOn, Advance
    <3>2. Follows(p)' /\ wrong' = wrong
      BY <2>1, <3>1, AdvanceFollows
    <3> QED BY <3>1, <3>2 DEF Ended
  <2>2. CASE Finishes(p)
    <3>1. Follows(p) /\ Present(p)
      BY <2>2 DEF LedgerInv, Finishes
    <3>2. Settled(p)' /\ wrong' = wrong
      BY <2>2, <3>1, EndSettles
    <3>3. Ended(p)'
      <4>1. PICK st \in {0, 1, 2} : status' = [status EXCEPT ![p] = st]
        BY <2>2 DEF Finishes, End
      <4>2. status'[p] = st
        BY <4>1 DEF LaunchInv
      <4> QED BY <4>2 DEF Ended
    <3> QED BY <1>1, <3>1, <3>2, <3>3
  <2>3. CASE NextAddress(p)
    <3>1. UNCHANGED <<todo, status, held, ref, wrong>>
      BY <2>3 DEF NextAddress, account
    <3>2. (Ended(p)' <=> Ended(p)) /\ (Settled(p)' <=> Settled(p)) /\ (Follows(p)' <=> Follows(p))
      BY <1>1, <3>1 DEF Ended, Settled, Follows, ThisStep, Leaks
    <3> QED BY <1>1, <3>1, <3>2 DEF LedgerInv
  <2> QED BY <2>1, <2>2, <2>3 DEF Moves
<1> QED BY <1>2, <1>3 DEF LedgerInv

(* Any step.                                                               *)
LEMMA LedgerStep == LaunchInv /\ AccountOK /\ LedgerInv /\ [Next]_vars => LedgerInv'
<1> SUFFICES ASSUME LaunchInv, AccountOK, LedgerInv, [Next]_vars PROVE LedgerInv'
  OBVIOUS
<1>1. ASSUME UNCHANGED <<sc, todo, status, held, ref, wrong>> PROVE LedgerInv'
  <2>1. \A p \in Proc : /\ (Present(p)' <=> Present(p)) /\ (Ended(p)' <=> Ended(p))
                        /\ (Settled(p)' <=> Settled(p)) /\ (Follows(p)' <=> Follows(p))
    BY <1>1 DEF Present, Ended, Settled, Follows, ThisStep, Leaks
  <2> QED BY <1>1, <2>1 DEF LedgerInv
<1>2. CASE UNCHANGED vars
  BY <1>1, <1>2 DEF vars, account
<1>3. CASE Next
  <2>1. UNCHANGED sc /\ ((\E p \in Proc : Moves(p)) \/ Overruns \/ Remains)
    BY <1>3, NextMoves
  <2>2. CASE Overruns
    <3>1. "client" \in Proc /\ Present("client") /\ UNCHANGED <<todo, ref, wrong>>
      BY <2>2 DEF Overruns, Proc, Negotiating, Doing
    <3>2. held'["client"] = {} /\ Present("client")' /\ status'["client"] = Killed
      BY <2>1, <2>2, <3>1 DEF Overruns, Present, AccountOK, LaunchInv
    <3>3. Ended("client")' /\ Settled("client")'
      BY <3>2 DEF Ended, Settled, Killed
    <3>4. ASSUME NEW q \in Proc, q # "client"
          PROVE  held'[q] = held[q] /\ status'[q] = status[q]
      BY <2>2, <3>4 DEF Overruns, AccountOK, LaunchInv
    <3>5. ASSUME NEW q \in Proc, q # "client"
          PROVE  /\ (Present(q)' <=> Present(q)) /\ (Ended(q)' <=> Ended(q))
                 /\ (Settled(q)' <=> Settled(q)) /\ (Follows(q)' <=> Follows(q))
      BY <2>1, <3>1, <3>4, <3>5 DEF Present, Ended, Settled, Follows, ThisStep, Leaks
    <3> QED BY <3>1, <3>2, <3>3, <3>5 DEF LedgerInv
  <2>3. CASE Remains
    BY <1>1, <2>1, <2>3 DEF Remains, account
  <2> QED BY <2>1, <2>2, <2>3, MoveKeepsLedger
<1> QED BY <1>2, <1>3

(* Whatever call fails, in whatever order the commands, the network and    *)
(* the proxy take their steps, a command releases exactly once what it     *)
(* acquired, a session before the descriptor it needs, and leaves nothing  *)
(* behind but the socket of connect --exec whose process cannot be         *)
(* started: for every configuration of send, recv, connect, relay and      *)
(* listen --quic.                                                          *)
THEOREM NothingIsLeft == Spec => []LedgerSound
<1>1. Init => AccountOK
  BY TypesInit
<1>2. LedgerInv => LedgerSound
  BY DEF LedgerInv, LedgerSound, Settled, Leaks
<1> QED BY <1>1, <1>2, LaunchHolds, AccountStep, LedgerInit, LedgerStep, PTL DEF Spec

-----------------------------------------------------------------------------
(* The negotiation with a proxy. Of what is said (S) the first base bytes  *)
(* were read before, got is what this read has, and rest is on the way.    *)

Reads(got, rest, S, base) ==
    /\ base + Len(got) + Len(rest) = Len(S)
    /\ \A k \in 1..Len(got) : got[k] = S[base + k]
    /\ \A k \in 1..Len(rest) : rest[k] = S[base + Len(got) + k]

(* A piece is read.                                                        *)
LEMMA ReadsTaken ==
  ASSUME NEW got \in Seq(Nat), NEW rest \in Seq(Nat), NEW S \in Seq(Nat), NEW base \in Nat,
         Reads(got, rest, S, base), NEW n \in Nat, n <= Len(rest)
  PROVE  LET q == got \o SubSeq(rest, 1, n)
             v == SubSeq(rest, n + 1, Len(rest))
         IN  /\ q \in Seq(Nat) /\ v \in Seq(Nat) /\ Len(q) = Len(got) + n
             /\ \A i \in 1..Len(got) : q[i] = got[i]
             /\ Reads(q, v, S, base)
<1> DEFINE x == SubSeq(rest, 1, n)
           v == SubSeq(rest, n + 1, Len(rest))
           q == got \o x
<1>1. Len(got) \in Nat /\ Len(rest) \in Nat /\ Len(S) \in Nat /\ 0 \in Nat /\ 0 <= n
  OBVIOUS
<1>a. /\ base + Len(got) + Len(rest) = Len(S)
      /\ \A k \in 1..Len(got) : got[k] = S[base + k]
      /\ \A k \in 1..Len(rest) : rest[k] = S[base + Len(got) + k]
  BY DEF Reads
<1>2. x \in Seq(Nat) /\ Len(x) = n /\ \A i \in 1..n : x[i] = rest[i]
  <2>1. /\ SubSeq(rest, 0 + 1, n) \in Seq(Nat) /\ Len(SubSeq(rest, 0 + 1, n)) = n - 0
        /\ \A i \in 1..(n - 0) : SubSeq(rest, 0 + 1, n)[i] = rest[0 + i]
    BY <1>1, PieceIs
  <2> QED BY <2>1
<1>3. v \in Seq(Nat) /\ Len(v) = Len(rest) - n /\ \A i \in 1..(Len(rest) - n) : v[i] = rest[n + i]
  BY <1>1, PieceIs
<1> HIDE DEF x, v
<1>4. /\ q \in Seq(Nat) /\ Len(q) = Len(got) + n /\ \A i \in 1..Len(got) : q[i] = got[i]
      /\ \A i \in (Len(got) + 1)..(Len(got) + n) : q[i] = x[i - Len(got)]
  BY <1>2, JoinIs
<1> HIDE DEF q
<1>5. ASSUME NEW k \in 1..Len(q) PROVE q[k] = S[base + k]
  <2>1. CASE k <= Len(got)
    <3>1. k \in 1..Len(got)
      BY <1>1, <1>4, <2>1
    <3> QED BY <1>4, <1>a, <3>1
  <2>2. CASE k > Len(got)
    <3>1. k \in (Len(got) + 1)..(Len(got) + n) /\ k - Len(got) \in 1..n /\ k - Len(got) \in 1..Len(rest)
      BY <1>1, <1>4, <2>2
    <3>2. q[k] = rest[k - Len(got)]
      BY <1>2, <1>4, <3>1
    <3>3. rest[k - Len(got)] = S[base + Len(got) + (k - Len(got))]
      BY <1>a, <3>1
    <3>4. base + Len(got) + (k - Len(got)) = base + k
      BY <1>1, <3>1
    <3> QED BY <3>2, <3>3, <3>4
  <2> QED BY <1>1, <1>4, <2>1, <2>2
<1>6. ASSUME NEW k \in 1..Len(v) PROVE v[k] = S[base + Len(q) + k]
  <2>1. n + k \in 1..Len(rest) /\ k \in 1..(Len(rest) - n) /\ base + Len(got) + (n + k) = base + Len(q) + k
    BY <1>1, <1>3, <1>4
  <2> QED BY <1>3, <1>a, <2>1
<1>7. base + Len(q) + Len(v) = Len(S)
  <2>1. \A a, b, c, d \in Nat : a + b + c = d /\ n <= c => a + (b + n) + (c - n) = d
    OBVIOUS
  <2>2. base + (Len(got) + n) + (Len(rest) - n) = Len(S)
    <3>1. base + Len(got) + Len(rest) = Len(S)
      BY <1>a, Zenon
    <3> DEFINE b == Len(got)
               c == Len(rest)
               d == Len(S)
    <3>2. base \in Nat /\ b \in Nat /\ c \in Nat /\ d \in Nat /\ base + b + c = d /\ n <= c
      BY <1>1, <3>1
    <3> HIDE DEF b, c, d
    <3>3. base + (b + n) + (c - n) = d
      BY <2>1, <3>2
    <3> QED BY <3>3 DEF b, c, d
  <2> QED BY <1>3, <1>4, <2>2, Zenon
<1>8. Reads(q, v, S, base)
  BY <1>5, <1>6, <1>7 DEF Reads
<1> QED BY <1>3, <1>4, <1>8 DEF q, v, x

(* A read is complete, and the next begins.                                *)
LEMMA ReadsNext ==
  ASSUME NEW got \in Seq(Nat), NEW rest \in Seq(Nat), NEW S \in Seq(Nat), NEW base \in Nat,
         Reads(got, rest, S, base), NEW next, next = base + Len(got)
  PROVE  Reads(<<>>, rest, S, next) /\ next \in Nat
<1>1. Len(got) \in Nat /\ Len(rest) \in Nat /\ Len(<<>>) = 0 /\ next \in Nat
  OBVIOUS
<1>2. next + 0 + Len(rest) = Len(S) /\ next + 0 = base + Len(got)
  BY <1>1 DEF Reads
<1>3. \A k \in 1..0 : FALSE
  OBVIOUS
<1>4. \A k \in 1..Len(rest) : rest[k] = S[next + 0 + k]
  BY <1>2 DEF Reads
<1> DEFINE e == <<>>
<1>5. Len(e) = 0
  OBVIOUS
<1> HIDE DEF e
<1>6. Reads(e, rest, S, next)
  BY <1>2, <1>3, <1>4, <1>5 DEF Reads
<1> QED BY <1>1, <1>6 DEF e

(* Nothing was read yet.                                                   *)
LEMMA ReadsAll ==
  ASSUME NEW S \in Seq(Nat)
  PROVE  Reads(<<>>, S, S, 0)
<1> DEFINE e == <<>>
<1>1. Len(e) = 0 /\ Len(S) \in Nat
  OBVIOUS
<1> HIDE DEF e
<1>2. \A k \in 1..Len(S) : 0 + 0 + k = k
  BY <1>1
<1>3. Reads(e, S, S, 0)
  BY <1>1, <1>2 DEF Reads
<1> QED BY <1>3 DEF e

(* Behind an answer there is what follows it.                              *)
LEMMA ReadsBehind ==
  ASSUME NEW reply \in Seq(Nat), NEW after \in Seq(Nat), NEW rest \in Seq(Nat),
         Reads(<<>>, rest, reply \o after, Len(reply))
  PROVE  rest = after
<1> DEFINE e == <<>>
           S == reply \o after
<1>1. /\ S \in Seq(Nat) /\ Len(S) = Len(reply) + Len(after)
      /\ \A i \in (Len(reply) + 1)..(Len(reply) + Len(after)) : S[i] = after[i - Len(reply)]
  BY JoinIs
<1>2. Len(e) = 0 /\ Len(reply) \in Nat /\ Len(after) \in Nat /\ Len(rest) \in Nat /\ Reads(e, rest, S, Len(reply))
  OBVIOUS
<1> HIDE DEF e, S
<1>3. Len(rest) = Len(after)
  BY <1>1, <1>2 DEF Reads
<1>4. ASSUME NEW k \in 1..Len(rest) PROVE rest[k] = after[k]
  <2>1. rest[k] = S[Len(reply) + 0 + k]
    BY <1>2 DEF Reads
  <2>2. Len(reply) + 0 + k \in (Len(reply) + 1)..(Len(reply) + Len(after)) /\ (Len(reply) + 0 + k) - Len(reply) = k
    BY <1>2, <1>3
  <2>3. S[Len(reply) + 0 + k] = after[(Len(reply) + 0 + k) - Len(reply)]
    BY <1>1, <2>2
  <2> QED BY <2>1, <2>2, <2>3
<1> QED BY <1>3, <1>4, SeqEqual

(* Read and unread make up the whole.                                      *)
LEMMA ReadsWhole ==
  ASSUME NEW got \in Seq(Nat), NEW rest \in Seq(Nat), NEW S \in Seq(Nat), Reads(got, rest, S, 0)
  PROVE  got \o rest = S
<1> DEFINE j == got \o rest
<1>1. Len(got) \in Nat /\ Len(rest) \in Nat /\ Len(S) \in Nat
  OBVIOUS
<1>2. /\ j \in Seq(Nat) /\ Len(j) = Len(got) + Len(rest)
      /\ \A i \in 1..Len(got) : j[i] = got[i]
      /\ \A i \in (Len(got) + 1)..(Len(got) + Len(rest)) : j[i] = rest[i - Len(got)]
  BY JoinIs
<1> HIDE DEF j
<1>3. Len(j) = Len(S)
  BY <1>1, <1>2 DEF Reads
<1>4. ASSUME NEW k \in 1..Len(j) PROVE j[k] = S[k]
  <2>1. CASE k \in 1..Len(got)
    BY <1>1, <1>2, <2>1 DEF Reads
  <2>2. CASE k \notin 1..Len(got)
    <3>1. k \in (Len(got) + 1)..(Len(got) + Len(rest)) /\ k - Len(got) \in 1..Len(rest)
      BY <1>1, <1>2, <2>2
    <3>2. rest[k - Len(got)] = S[0 + Len(got) + (k - Len(got))] /\ 0 + Len(got) + (k - Len(got)) = k
      BY <1>1, <3>1 DEF Reads
    <3> QED BY <1>2, <3>1, <3>2
  <2> QED BY <2>1, <2>2
<1>5. j = S
  BY <1>2, <1>3, <1>4, SeqEqual
<1> QED BY <1>5 DEF j

(* What was read of an answer is its beginning.                            *)
LEMMA ReadsFront ==
  ASSUME NEW got \in Seq(Nat), NEW rest \in Seq(Nat), NEW reply \in Seq(Nat), NEW after \in Seq(Nat),
         NEW base \in Nat, Reads(got, rest, reply \o after, base)
  PROVE  /\ base + Len(got) + Len(rest) = Len(reply) + Len(after)
         /\ \A k \in 1..Len(got) : base + k <= Len(reply) => got[k] = reply[base + k]
<1> DEFINE S == reply \o after
<1>1. /\ Len(S) = Len(reply) + Len(after) /\ \A i \in 1..Len(reply) : S[i] = reply[i]
  BY JoinIs
<1>2. Len(reply) \in Nat /\ Len(got) \in Nat /\ Reads(got, rest, S, base)
  OBVIOUS
<1> HIDE DEF S
<1>3. ASSUME NEW k \in 1..Len(got), base + k <= Len(reply) PROVE got[k] = reply[base + k]
  <2>1. base + k \in 1..Len(reply)
    BY <1>2, <1>3
  <2> QED BY <1>1, <1>2, <2>1 DEF Reads
<1> QED BY <1>1, <1>2, <1>3 DEF Reads

(* What a client that uses a proxy knows while it negotiates. Behind the   *)
(* answer comes what the server says.                                      *)
Behind == IF Present("server") THEN <<>> ELSE sc.banner
Answered == sc.reply \o Behind
Nothing == neg.got = <<>> /\ down = <<>>
Gets(S, base) == Reads(neg.got, down, S, base)
AnswerInv ==
    \/ proxy \in {"asked", "closed"} /\ Nothing
    \/ proxy = "closed" /\ Gets(sc.refusal, 0)
    \/ proxy = "tunnel" /\ Gets(Answered, 0)
MethodInv ==
    /\ neg.pc = "method" /\ neg.need = 2
    /\ \/ proxy \in {"greeted", "closed"} /\ Nothing
       \/ proxy \in {"answered", "closed"} /\ Gets(sc.method, 0)
ReplyInv == neg.pc = "reply" /\ neg.need = 4 /\ AnswerInv
LengthInv ==
    /\ neg.pc = "length" /\ neg.need = 1 /\ proxy = "tunnel" /\ Gets(Answered, 4)
    /\ Len(sc.reply) >= 5 /\ Len(sc.reply) = 7 + sc.reply[5]
BoundInv ==
    /\ neg.pc = "bound" /\ proxy = "tunnel"
    /\ \E base \in {4, 5} : Gets(Answered, base) /\ base + neg.need = Len(sc.reply)
HeadInv ==
    /\ neg.pc = "head" /\ AnswerInv
    /\ HeadEnd \notin ToSet(neg.got) /\ Len(neg.got) < HeadMax
StartInv == neg.pc = "start" /\ proxy = "idle" /\ down = <<>>
NegInv ==
    /\ out["client"] = <<>>
    /\ \/ StartInv
       \/ sc["client"].proxy = "socks5" /\ (MethodInv \/ ReplyInv \/ LengthInv \/ BoundInv)
       \/ sc["client"].proxy # "socks5" /\ HeadInv

(* And when it is through.                                                 *)
Through ==
    /\ proxy = "tunnel"
    /\ ~Present("server") /\ HeaderFits => Reads(out["client"], down, sc.banner, 0)

(* The negotiation is before it, and before the relay, until the proxy     *)
(* grants the tunnel. recv has no relay.                                   *)
PlaceInv == Has(todo["client"], "negotiate") /\ Before(todo["client"], "negotiate", "relay")
ServerInv == Present("server") => IsSteps(todo["server"], TRUE)
TunnelInv ==
    /\ ServerInv
    /\ Proxied => IF neg.pc = "granted" THEN Through ELSE PlaceInv /\ (Ended("client") \/ NegInv)

(* A client that uses a proxy runs, and its proxy keeps to its protocol.   *)
LEMMA ProxyKeeps ==
  ASSUME sc \in Scenarios, Proxied
  PROVE  /\ Present("client")
         /\ sc["client"].proxy = "socks5" => KeepsToSocks5(sc)
         /\ sc["client"].proxy # "socks5" => KeepsToHttp(sc)
<1>1. IsScenario(sc)
  BY TransferAssumption
<1> QED BY <1>1 DEF IsScenario, Proxied, UsesProxy, Present

(* At first.                                                               *)
LEMMA TunnelInit == Init => TunnelInv
<1> SUFFICES ASSUME Init PROVE TunnelInv
  OBVIOUS
<1>1. sc \in Scenarios /\ "client" \in Proc /\ "server" \in Proc
  BY DEF Init, Proc
<1>2. todo["client"] = Program(sc["client"]) /\ todo["server"] = Program(sc["server"])
  BY <1>1 DEF Init
<1>3. ServerInv
  <2>1. Present("server") => sc["server"].mode = "recv"
    BY <1>1, TransferAssumption DEF IsScenario, Present
  <2>2. ASSUME Present("server") PROVE IsSteps(todo["server"], TRUE)
    <3>1. IsFileProgram(Program(sc["server"]))
      BY <2>1, <2>2, FileProgramTyped
    <3> QED BY <1>2, <3>1 DEF IsFileProgram
  <2> QED BY <2>2 DEF ServerInv
<1>4. Proxied => PlaceInv
  BY <1>2, ProxiedProgram DEF Proxied, PlaceInv
<1>5. NegInv /\ neg.pc # "granted"
  BY <1>1 DEF Init, NegInv, StartInv
<1> QED BY <1>3, <1>4, <1>5 DEF TunnelInv

(* The places of the two commands, at any step.                            *)
LEMMA PlacesKept ==
  ASSUME LaunchInv, Next, ServerInv
  PROVE  /\ ServerInv'
         /\ Present("client") /\ PlaceInv => PlaceInv' \/ neg'.pc = "granted"
<1>0. "client" \in Proc /\ "server" \in Proc /\ "client" # "server"
  BY DEF Proc
<1>1. UNCHANGED sc /\ ((\E p \in Proc : Moves(p)) \/ Overruns \/ Remains)
  BY NextMoves
<1>2. CASE UNCHANGED todo
  BY <1>1, <1>2 DEF ServerInv, PlaceInv, Present
<1>3. CASE GoesOn("client")
  <2>1. /\ todo'["client"] = Tail(todo["client"]) /\ todo'["server"] = todo["server"] /\ Present("client")
        /\ Head(todo["client"]).call \notin LoopCalls
        /\ Head(todo["client"]).call = "negotiate" => neg'.pc = "granted"
    BY <1>0, <1>3 DEF GoesOn, Advance, LaunchInv, ThisStep
  <2>2. IsSteps(todo["client"], FALSE) /\ Ends(todo["client"])
    BY <1>0, <2>1 DEF LaunchInv, IsProgram
  <2>3. ASSUME PlaceInv, Head(todo["client"]).call # "negotiate" PROVE PlaceInv'
    <3>1. Has(Tail(todo["client"]), "negotiate")
      BY <2>1, <2>2, <2>3, TailHas DEF PlaceInv
    <3>2. Before(Tail(todo["client"]), "negotiate", "relay")
      BY <2>2, <2>3, TailBefore DEF PlaceInv
    <3> QED BY <2>1, <3>1, <3>2 DEF PlaceInv
  <2> QED BY <1>1, <2>1, <2>3 DEF ServerInv, Present
<1>4. CASE GoesOn("server")
  <2>1. /\ todo'["server"] = Tail(todo["server"]) /\ todo'["client"] = todo["client"] /\ Present("server")
        /\ Head(todo["server"]).call \notin LoopCalls
    BY <1>0, <1>4 DEF GoesOn, Advance, LaunchInv, ThisStep
  <2>2. IsSteps(todo["server"], TRUE) /\ Ends(todo["server"])
    BY <1>0, <2>1 DEF LaunchInv, IsProgram, ServerInv
  <2>3. IsSteps(Tail(todo["server"]), TRUE)
    BY <2>1, <2>2, TailHas
  <2> QED BY <2>1, <2>3 DEF ServerInv, PlaceInv
<1>5. (\E p \in Proc : GoesOn(p)) \/ UNCHANGED todo
  BY <1>1 DEF Moves, Finishes, End, NextAddress, Overruns, Remains
<1> QED BY <1>2, <1>3, <1>4, <1>5 DEF Proc

(* What the steps that have nothing to do with the negotiation leave alone.*)
LEMMA TunnelBystanders ==
  ASSUME Proxied, Next, DataOK, ~NegotiateStart, ~NegotiateRead, ~ProxyGreets, ~ProxyConnects, ~ProxyCloses,
         ~RelayCopies("client"), ~RelayCopies("server")
  PROVE  UNCHANGED <<sc, neg, proxy, down>> /\ out'["client"] = out["client"]
<1>0. UNCHANGED sc
  BY NextMoves
<1>1. ASSUME UNCHANGED <<neg, net, copied>> PROVE UNCHANGED <<neg, proxy, down, out>>
  BY <1>1 DEF net, copied
<1>2. ASSUME NEW q \in Proc, Work(q) PROVE UNCHANGED <<neg, proxy, down, out>>
  <2>1. CASE Plain(q) \/ ParseArgs(q) \/ Refused(q) \/ AcceptStopped(q)
    BY <1>1, <2>1 DEF Plain, ParseArgs, Refused, AcceptStopped
  <2>2. CASE AccessCheck(q) \/ Handshake(q) \/ HandshakeBroken(q) \/ CopyTest(q) \/ RelayEnds(q)
    BY <1>1, <2>2 DEF AccessCheck, Handshake, HandshakeBroken, CopyTest, RelayEnds
  <2>3. CASE Connect(q)
    BY <2>3 DEF Connect, copied, DirectToServer
  <2>4. CASE Accept(q)
    BY <2>4 DEF Accept, copied
  <2>5. ~RelayCopies(q)
    BY DEF Proc
  <2> QED BY <1>2, <2>1, <2>2, <2>3, <2>4, <2>5 DEF Work
<1>3. CASE Work("client") \/ Work("server")
  BY <1>0, <1>2, <1>3 DEF Proc
<1>4. CASE NegotiateEof \/ RecvEnds \/ RecvAgain
  BY <1>0, <1>1, <1>4 DEF NegotiateEof, RecvEnds, RecvAgain
<1>5. CASE SendChunk \/ SendEnds
  BY <1>0, <1>5 DEF SendChunk, SendEnds, net
<1>6. CASE RecvChunk
  <2>1. UNCHANGED <<neg, proxy, down>>
    BY <1>6 DEF RecvChunk
  <2>2. out'["client"] = out["client"]
    BY <1>6 DEF RecvChunk, DataOK, CopyOK, Proc
  <2> QED BY <1>0, <2>1, <2>2
<1>7. CASE PeerConnects \/ ReplyOverrun \/ Reset
  BY <1>0, <1>7 DEF PeerConnects, ReplyOverrun, Reset, net, copied
<1>8. CASE \E q \in Proc : Fail(q) \/ Signal(q)
  BY <1>0, <1>1, <1>8 DEF Fail, Signal
<1> QED BY <1>3, <1>4, <1>5, <1>6, <1>7, <1>8 DEF Next, ClientWork, ServerWork, Surroundings

(* The proxy refused, and the client with it.                              *)
GivenUp == neg.pc # "granted" /\ Ended("client")

(* One read of the negotiation: with it got is what the read has and rest  *)
(* what is still on the way.                                               *)
Continues(got) ==
    /\ neg.pc = "head" => neg' = http_connect_negotiate(got)
    /\ neg.pc # "head" /\ Len(got) < neg.need => neg' = [neg EXCEPT !.got = got]
    /\ neg.pc # "head" /\ ~(Len(got) < neg.need) => Len(got) = neg.need /\ neg' = socks5_negotiate(neg.pc, got)
    /\ neg' = Rejected => GivenUp'
    /\ proxy' = IF neg'.pc = "reply" /\ proxy = "answered" THEN "asked" ELSE proxy
TakesRead(got, rest) ==
    /\ got \in Seq(Nat) /\ rest \in Seq(Nat) /\ down' = rest
    /\ Len(got) >= 1 /\ (neg.pc = "head" => Len(got) = Len(neg.got) + 1)
    /\ \A i \in 1..Len(neg.got) : got[i] = neg.got[i]
    /\ ~Nothing
    /\ \A S \in Seq(Nat), base \in Nat : Gets(S, base) => Reads(got, rest, S, base)

(* Every read is one.                                                      *)
LEMMA ReadTakes ==
  ASSUME LaunchInv, DataOK, NegotiateRead
  PROVE  \E got, rest : TakesRead(got, rest) /\ Continues(got)
<1>0. down \in Seq(Nat) /\ Len(down) \in Nat /\ neg \in NegType /\ neg.got \in Seq(Nat) /\ Len(neg.got) \in Nat
      /\ neg.need \in Nat /\ "client" \in Proc
  BY DEF DataOK, NetOK, IsNeg, NegType, Proc
<1>1. PICK n \in ReadSize(neg.pc) \cap 1..Len(down) :
        LET got == neg.got \o SubSeq(down, 1, n)
            next == CASE neg.pc = "head" -> http_connect_negotiate(got)
                      [] neg.pc # "head" /\ Len(got) < neg.need -> [neg EXCEPT !.got = got]
                      [] OTHER -> socks5_negotiate(neg.pc, got)
        IN  /\ down' = SubSeq(down, n + 1, Len(down))
            /\ neg' = next
            /\ proxy' = IF next.pc = "reply" /\ proxy = "answered" THEN "asked" ELSE proxy
            /\ CASE next = Granted -> Advance("client")
                 [] next = Rejected -> Failed("client")
                 [] OTHER -> UNCHANGED <<todo, status, addrs, stop, head, account>>
  BY DEF NegotiateRead
<1> DEFINE got == neg.got \o SubSeq(down, 1, n)
           rest == SubSeq(down, n + 1, Len(down))
<1>2. n \in Nat /\ n >= 1 /\ n <= Len(down) /\ n \in ReadSize(neg.pc)
  BY <1>0
<1>3. got \in Seq(Nat) /\ rest \in Seq(Nat) /\ Len(got) = Len(neg.got) + n
      /\ \A i \in 1..Len(neg.got) : got[i] = neg.got[i]
  <2>1. SubSeq(down, 1, n) \in Seq(Nat) /\ rest \in Seq(Nat) /\ Len(SubSeq(down, 1, n)) = n
    <3>1. SubSeq(down, 1, n) \in Seq(Nat) /\ rest \in Seq(Nat)
      BY <1>0, <1>2, FrontTyped
    <3>2. Len(SubSeq(down, 0 + 1, n)) = n - 0
      BY <1>0, <1>2, PieceIs
    <3> QED BY <1>2, <3>1, <3>2
  <2> DEFINE x == SubSeq(down, 1, n)
  <2> HIDE DEF x, rest
  <2>2. neg.got \o x \in Seq(Nat) /\ Len(neg.got \o x) = Len(neg.got) + Len(x)
        /\ \A i \in 1..Len(neg.got) : (neg.got \o x)[i] = neg.got[i]
    BY <1>0, <2>1, JoinIs DEF x
  <2> QED BY <2>1, <2>2 DEF x
<1>4. ASSUME NEW S \in Seq(Nat), NEW base \in Nat, Gets(S, base) PROVE Reads(got, rest, S, base)
  BY <1>0, <1>2, <1>4, ReadsTaken DEF Gets
<1>5. down' = rest /\ neg' = (CASE neg.pc = "head" -> http_connect_negotiate(got)
                      [] neg.pc # "head" /\ Len(got) < neg.need -> [neg EXCEPT !.got = got]
                      [] OTHER -> socks5_negotiate(neg.pc, got))
      /\ proxy' = IF neg'.pc = "reply" /\ proxy = "answered" THEN "asked" ELSE proxy
  BY <1>1
<1>6. neg' = Rejected => Failed("client")
  <2>1. neg' = Rejected /\ neg' # Granted => Failed("client")
    BY <1>1
  <2>2. Rejected # Granted
    BY DEF Rejected, Granted, Reading
  <2> QED BY <2>1, <2>2
<1> HIDE DEF got, rest
<1>7. Failed("client") => Ended("client")'
  <2> SUFFICES ASSUME Failed("client") PROVE Ended("client")'
    OBVIOUS
  <2>1. status' = [status EXCEPT !["client"] = FailsWith("client")] /\ FailsWith("client") \in {0, 1, 2}
    BY DEF Failed, End, FailsWith, FailStatus
  <2>2. status'["client"] = FailsWith("client")
    BY <1>0, <2>1 DEF LaunchInv
  <2> QED BY <2>1, <2>2 DEF Ended
<1>8. neg.pc # "head" => Len(got) <= neg.need
  BY <1>0, <1>2, <1>3 DEF ReadSize
<1>9. neg.pc = "head" => Len(got) = Len(neg.got) + 1
  BY <1>2, <1>3 DEF ReadSize
<1>10. ~Nothing
  BY <1>0, <1>2 DEF Nothing
<1>11. Len(got) \in Nat /\ Len(got) >= 1
  BY <1>0, <1>2, <1>3
<1>12. Continues(got)
  <2>1. neg.pc # "head" /\ ~(Len(got) < neg.need) => Len(got) = neg.need
    BY <1>0, <1>8, <1>11
  <2>2. neg.pc = "head" => neg' = http_connect_negotiate(got)
    BY <1>5
  <2>3. neg.pc # "head" /\ Len(got) < neg.need => neg' = [neg EXCEPT !.got = got]
    BY <1>5
  <2>4. neg.pc # "head" /\ ~(Len(got) < neg.need) => neg' = socks5_negotiate(neg.pc, got)
    BY <1>5
  <2>5. neg' = Rejected => GivenUp'
    <3>1. neg' = Rejected => neg'.pc # "granted"
      BY DEF Rejected, Reading
    <3> QED BY <1>6, <1>7, <3>1 DEF GivenUp
  <2> QED BY <1>5, <2>1, <2>2, <2>3, <2>4, <2>5 DEF Continues
<1>13. TakesRead(got, rest)
  BY <1>3, <1>4, <1>5, <1>9, <1>10, <1>11 DEF TakesRead
<1> QED BY <1>12, <1>13

(* What the proxy says.                                                    *)
LEMMA AnsweredTyped ==
  ASSUME sc \in Scenarios
  PROVE  /\ sc.banner \in Seq(Nat) /\ sc.method \in Seq(Nat) /\ sc.reply \in Seq(Nat) /\ sc.refusal \in Seq(Nat)
         /\ Behind \in Seq(Nat) /\ Answered \in Seq(Nat) /\ 0 \in Nat /\ Len(sc.reply) \in Nat
<1>1. sc.banner \in Seq(Nat) /\ sc.method \in Seq(Nat) /\ sc.reply \in Seq(Nat) /\ sc.refusal \in Seq(Nat)
  BY AnswersTyped
<1>2. Behind \in Seq(Nat)
  <2>1. <<>> \in Seq(Nat)
    OBVIOUS
  <2> QED BY <1>1, <2>1 DEF Behind
<1>3. Answered \in Seq(Nat)
  BY <1>1, <1>2, Joined DEF Answered
<1> QED BY <1>1, <1>2, <1>3

(* A read that is not complete yet.                                        *)
LEMMA ReadWaits ==
  ASSUME DataOK, NEW got, NEW rest, TakesRead(got, rest), Continues(got), neg.pc # "head", Len(got) < neg.need
  PROVE  /\ neg'.pc = neg.pc /\ neg'.need = neg.need /\ neg'.got = got
         /\ ~(neg.pc = "reply" /\ proxy = "answered") => proxy' = proxy
<1>1. neg \in NegType
  BY DEF DataOK, IsNeg
<1>2. neg' = [neg EXCEPT !.got = got]
  BY DEF Continues
<1>3. neg'.pc = neg.pc /\ neg'.need = neg.need /\ neg'.got = got
  BY <1>1, <1>2 DEF NegType
<1> QED BY <1>3 DEF Continues

(* The answer to the greeting.                                             *)
LEMMA MethodRead ==
  ASSUME LaunchInv, DataOK, Proxied, sc["client"].proxy = "socks5", MethodInv, UNCHANGED sc,
         NEW got, NEW rest, TakesRead(got, rest), Continues(got)
  PROVE  MethodInv' \/ ReplyInv' \/ GivenUp'
<1>0. sc \in Scenarios /\ neg.pc = "method" /\ neg.need = 2
  BY DEF LaunchInv, MethodInv
<1>1. Gets(sc.method, 0) /\ proxy \in {"answered", "closed"}
  BY DEF MethodInv, TakesRead
<1>2. Reads(got, rest, sc.method, 0)
  BY <1>0, <1>1, AnsweredTyped DEF TakesRead
<1>3. CASE Len(got) < 2
  <2>1. neg'.pc = "method" /\ neg'.need = 2 /\ neg'.got = got /\ proxy' = proxy /\ down' = rest
    BY <1>0, <1>3, ReadWaits DEF TakesRead
  <2>2. Gets(sc.method, 0)'
    BY <1>2, <2>1 DEF Gets
  <2> QED BY <1>1, <2>1, <2>2 DEF MethodInv
<1>4. CASE ~(Len(got) < 2)
  <2>1. Len(got) = 2 /\ neg' = socks5_negotiate("method", got)
    BY <1>0, <1>4 DEF Continues
  <2>2. neg' = Rejected \/ neg' = Reading("reply", 4)
    BY <2>1 DEF socks5_negotiate
  <2>3. CASE neg' = Rejected
    BY <2>3 DEF Continues
  <2>4. CASE neg' = Reading("reply", 4)
    <3>1. neg'.pc = "reply" /\ neg'.need = 4 /\ neg'.got = <<>>
      BY <2>4 DEF Reading
    <3>2. proxy' \in {"asked", "closed"}
      BY <1>1, <3>1 DEF Continues
    <3>3. rest = <<>>
      <4>1. Len(sc.method) = 2
        BY <1>0, ProxyKeeps DEF KeepsToSocks5
      <4>2. 0 + Len(got) + Len(rest) = Len(sc.method) /\ rest \in Seq(Nat)
        BY <1>2 DEF Reads, TakesRead
      <4>3. Len(rest) = 0
        BY <2>1, <4>1, <4>2
      <4> QED BY <4>2, <4>3, EmptySeq
    <3>4. Nothing'
      BY <3>1, <3>3 DEF Nothing, TakesRead
    <3> QED BY <3>1, <3>2, <3>4 DEF ReplyInv, AnswerInv
  <2> QED BY <2>2, <2>3, <2>4
<1> QED BY <1>3, <1>4

(* A read of the answer is complete, and the next one begins.              *)
LEMMA NextRead ==
  ASSUME sc \in Scenarios, UNCHANGED sc, NEW got, NEW rest, TakesRead(got, rest), Continues(got),
         NEW base \in Nat, Gets(Answered, base), proxy = "tunnel",
         NEW pc, pc # "reply", NEW need, neg' = Reading(pc, need), NEW at, at = base + Len(got)
  PROVE  /\ neg'.pc = pc /\ neg'.need = need /\ neg'.got = <<>> /\ proxy' = "tunnel"
         /\ Gets(Answered, at)'
<1>1. neg'.pc = pc /\ neg'.need = need /\ neg'.got = <<>>
  BY DEF Reading
<1>2. proxy' = "tunnel"
  BY <1>1 DEF Continues
<1>3. Reads(got, rest, Answered, base) /\ got \in Seq(Nat) /\ rest \in Seq(Nat) /\ down' = rest
  BY AnsweredTyped DEF TakesRead
<1>4. Reads(<<>>, rest, Answered, at)
  BY <1>3, AnsweredTyped, ReadsNext
<1>5. Answered' = Answered
  BY DEF Answered, Behind, Present
<1> QED BY <1>1, <1>2, <1>3, <1>4, <1>5 DEF Gets

(* What a read of the answer has is a part of the reply.                   *)
LEMMA PartOfReply ==
  ASSUME sc \in Scenarios, NEW got, NEW rest, TakesRead(got, rest), NEW base \in Nat, Gets(Answered, base)
  PROVE  /\ Reads(got, rest, Answered, base)
         /\ \A k \in 1..Len(got) : base + k <= Len(sc.reply) => got[k] = sc.reply[base + k]
<1>1. Reads(got, rest, Answered, base) /\ got \in Seq(Nat) /\ rest \in Seq(Nat)
  BY AnsweredTyped DEF TakesRead
<1>2. Reads(got, rest, sc.reply \o Behind, base)
  BY <1>1 DEF Answered
<1>3. sc.reply \in Seq(Nat) /\ Behind \in Seq(Nat)
  BY AnsweredTyped
<1>4. \A k \in 1..Len(got) : base + k <= Len(sc.reply) => got[k] = sc.reply[base + k]
  <2>1. \A r \in Seq(Nat), a \in Seq(Nat) : Reads(got, rest, r \o a, base) =>
          \A k \in 1..Len(got) : base + k <= Len(r) => got[k] = r[base + k]
    BY <1>1, ReadsFront
  <2> QED BY <1>2, <1>3, <2>1, Zenon
<1> QED BY <1>1, <1>4

(* The first four bytes of the answer to the request.                      *)
LEMMA ReplyRead ==
  ASSUME LaunchInv, DataOK, Proxied, sc["client"].proxy = "socks5", ReplyInv, UNCHANGED sc,
         NEW got, NEW rest, TakesRead(got, rest), Continues(got)
  PROVE  ReplyInv' \/ LengthInv' \/ BoundInv' \/ GivenUp'
<1>0. sc \in Scenarios /\ neg.pc = "reply" /\ neg.need = 4 /\ down' = rest /\ KeepsToSocks5(sc)
  BY ProxyKeeps DEF LaunchInv, ReplyInv, TakesRead
<1>1. \/ proxy = "closed" /\ Gets(sc.refusal, 0)
      \/ proxy = "tunnel" /\ Gets(Answered, 0)
  BY DEF ReplyInv, AnswerInv, TakesRead
<1>2. CASE Len(got) < 4
  <2>1. neg'.pc = "reply" /\ neg'.need = 4 /\ neg'.got = got /\ proxy' = proxy
    BY <1>0, <1>1, <1>2, ReadWaits
  <2>2. Answered' = Answered
    BY DEF Answered, Behind, Present
  <2>3. AnswerInv'
    <3>1. CASE proxy = "closed" /\ Gets(sc.refusal, 0)
      <4>1. Reads(got, rest, sc.refusal, 0)
        BY <1>0, <3>1, AnsweredTyped DEF TakesRead
      <4> QED BY <1>0, <2>1, <3>1, <4>1 DEF AnswerInv, Gets
    <3>2. CASE proxy = "tunnel" /\ Gets(Answered, 0)
      <4>1. Reads(got, rest, Answered, 0)
        BY <1>0, <3>2, AnsweredTyped DEF TakesRead
      <4> QED BY <1>0, <2>1, <2>2, <3>2, <4>1 DEF AnswerInv, Gets
    <3> QED BY <1>1, <3>1, <3>2
  <2> QED BY <2>1, <2>3 DEF ReplyInv
<1>3. CASE ~(Len(got) < 4)
  <2>1. Len(got) = 4 /\ neg' = socks5_negotiate("reply", got)
    BY <1>0, <1>3 DEF Continues
  <2>2. got[2] # 0 => neg' = Rejected
    BY <2>1 DEF socks5_negotiate
  <2>3. CASE proxy = "closed" /\ Gets(sc.refusal, 0)
    <3>1. Reads(got, rest, sc.refusal, 0)
      BY <1>0, <2>3, AnsweredTyped DEF TakesRead
    <3>2. 2 \in 1..Len(got) /\ 0 + 2 = 2
      BY <2>1
    <3>3. got[2] = sc.refusal[2]
      BY <3>1, <3>2 DEF Reads
    <3> QED BY <1>0, <2>2, <3>3 DEF KeepsToSocks5, Continues
  <2>4. CASE proxy = "tunnel" /\ Gets(Answered, 0)
    <3>1. got[2] = sc.reply[2] /\ got[4] = sc.reply[4]
      <4>1. \A k \in 1..Len(got) : 0 + k <= Len(sc.reply) => got[k] = sc.reply[0 + k]
        BY <1>0, <2>4, PartOfReply
      <4>2. 2 \in 1..Len(got) /\ 4 \in 1..Len(got) /\ 0 + 2 = 2 /\ 0 + 4 = 4
        BY <2>1
      <4>3. Len(sc.reply) \in Nat /\ 2 <= Len(sc.reply) /\ 4 <= Len(sc.reply)
        BY <1>0, AnsweredTyped DEF KeepsToSocks5
      <4> QED BY <4>1, <4>2, <4>3
    <3>2. 4 = 0 + Len(got) /\ 0 \in Nat
      BY <2>1
    <3>a. ASSUME NEW pc \in {"bound", "length"}, NEW need, neg' = Reading(pc, need)
          PROVE  neg'.pc = pc /\ neg'.need = need /\ proxy' = "tunnel" /\ Gets(Answered, 4)'
      <4>1. proxy = "tunnel" /\ Gets(Answered, 0) /\ pc # "reply"
        BY <2>4, <3>a
      <4> QED BY <1>0, <3>2, <3>a, <4>1, NextRead, ZenonT(40)
    <3>3. CASE got[2] # 0 \/ got[4] \notin {1, 3, 4}
      <4>1. neg' = Rejected
        BY <2>1, <2>2, <3>3 DEF socks5_negotiate
      <4> QED BY <4>1 DEF Continues
    <3>4. CASE got[2] = 0 /\ got[4] = 1
      <4>1. neg' = Reading("bound", 6)
        BY <2>1, <3>4 DEF socks5_negotiate
      <4>2. neg'.pc = "bound" /\ neg'.need = 6 /\ proxy' = "tunnel" /\ Gets(Answered, 4)'
        BY <3>a, <4>1
      <4>3. Len(sc'.reply) = 4 + 6
        BY <1>0, <3>1, <3>4 DEF KeepsToSocks5
      <4> QED BY <4>2, <4>3 DEF BoundInv
    <3>5. CASE got[2] = 0 /\ got[4] = 3
      <4>1. neg' = Reading("length", 1)
        BY <2>1, <3>5 DEF socks5_negotiate
      <4>2. neg'.pc = "length" /\ neg'.need = 1 /\ proxy' = "tunnel" /\ Gets(Answered, 4)'
        BY <3>a, <4>1
      <4>3. Len(sc'.reply) >= 5 /\ Len(sc'.reply) = 7 + sc'.reply[5]
        BY <1>0, <3>1, <3>5 DEF KeepsToSocks5
      <4> QED BY <4>2, <4>3 DEF LengthInv
    <3>6. CASE got[2] = 0 /\ got[4] = 4
      <4>1. neg' = Reading("bound", 18)
        BY <2>1, <3>6 DEF socks5_negotiate
      <4>2. neg'.pc = "bound" /\ neg'.need = 18 /\ proxy' = "tunnel" /\ Gets(Answered, 4)'
        BY <3>a, <4>1
      <4>3. Len(sc'.reply) = 4 + 18
        BY <1>0, <3>1, <3>6 DEF KeepsToSocks5
      <4> QED BY <4>2, <4>3 DEF BoundInv
    <3> QED BY <3>3, <3>4, <3>5, <3>6
  <2> QED BY <1>1, <2>3, <2>4
<1> QED BY <1>2, <1>3

(* The length of a name.                                                   *)
LEMMA LengthRead ==
  ASSUME LaunchInv, DataOK, Proxied, sc["client"].proxy = "socks5", LengthInv, UNCHANGED sc,
         NEW got, NEW rest, TakesRead(got, rest), Continues(got)
  PROVE  BoundInv'
<1>0. /\ sc \in Scenarios /\ neg.pc = "length" /\ neg.need = 1 /\ proxy = "tunnel" /\ Gets(Answered, 4)
      /\ Len(sc.reply) >= 5 /\ Len(sc.reply) = 7 + sc.reply[5]
  BY DEF LaunchInv, LengthInv
<1>1. Len(got) = 1 /\ neg' = socks5_negotiate("length", got)
  BY <1>0 DEF TakesRead, Continues
<1>2. got[1] = sc.reply[5]
  <2>1. \A k \in 1..Len(got) : 4 + k <= Len(sc.reply) => got[k] = sc.reply[4 + k]
    BY <1>0, PartOfReply
  <2>2. 1 \in 1..Len(got) /\ 4 + 1 = 5 /\ 4 + 1 <= Len(sc.reply)
    BY <1>0, <1>1, AnsweredTyped
  <2> QED BY <2>1, <2>2
<1>3. neg' = Reading("bound", got[1] + 2)
  BY <1>1 DEF socks5_negotiate
<1>4. 5 = 4 + Len(got) /\ 4 \in Nat
  BY <1>1
<1>5. neg'.pc = "bound" /\ neg'.need = got[1] + 2 /\ proxy' = "tunnel" /\ Gets(Answered, 5)'
  BY <1>0, <1>3, <1>4, NextRead
<1>6. 5 + (got[1] + 2) = Len(sc'.reply)
  <2>1. got[1] \in Nat
    <3>1. got \in Seq(Nat)
      BY DEF TakesRead
    <3>2. 1 \in 1..Len(got)
      BY <1>1
    <3> QED BY <3>1, <3>2, ElementOfSeq
  <2> QED BY <1>0, <1>2, <2>1
<1> QED BY <1>5, <1>6 DEF BoundInv

(* The proxy has granted the tunnel, and the answer was read to its end.   *)
LEMMA EndOfAnswer ==
  ASSUME sc \in Scenarios, UNCHANGED sc, UNCHANGED out, out["client"] = <<>>,
         NEW got, NEW rest, TakesRead(got, rest), Continues(got), proxy = "tunnel", neg' = Granted,
         HeaderFits => \E base \in Nat : Gets(Answered, base) /\ base + Len(got) = Len(sc.reply)
  PROVE  neg'.pc = "granted" /\ Through'
<1>1. neg'.pc = "granted"
  BY DEF Granted, Reading
<1>2. proxy' = "tunnel"
  BY <1>1 DEF Continues
<1>3. ASSUME ~Present("server")', HeaderFits' PROVE Reads(out'["client"], down', sc'.banner, 0)
  <2>1. ~Present("server") /\ HeaderFits
    BY <1>3 DEF Present, HeaderFits
  <2>2. PICK base \in Nat : Gets(Answered, base) /\ base + Len(got) = Len(sc.reply)
    BY <2>1
  <2>3. Reads(got, rest, Answered, base) /\ got \in Seq(Nat) /\ rest \in Seq(Nat) /\ down' = rest
    BY <2>2, AnsweredTyped DEF TakesRead
  <2>4. Reads(<<>>, rest, Answered, Len(sc.reply))
    BY <2>2, <2>3, AnsweredTyped, ReadsNext
  <2>5. rest = Behind
    BY <2>3, <2>4, AnsweredTyped, ReadsBehind DEF Answered
  <2>6. rest = sc.banner
    BY <2>1, <2>5 DEF Behind
  <2>7. Reads(<<>>, sc.banner, sc.banner, 0)
    BY AnsweredTyped, ReadsAll
  <2> QED BY <2>3, <2>6, <2>7
<1> QED BY <1>1, <1>2, <1>3 DEF Through

(* The rest of the reply.                                                  *)
LEMMA BoundRead ==
  ASSUME LaunchInv, DataOK, Proxied, sc["client"].proxy = "socks5", BoundInv, UNCHANGED sc, UNCHANGED out,
         out["client"] = <<>>, NEW got, NEW rest, TakesRead(got, rest), Continues(got)
  PROVE  BoundInv' \/ (neg'.pc = "granted" /\ Through')
<1>0. /\ sc \in Scenarios /\ neg.pc = "bound" /\ proxy = "tunnel" /\ down' = rest
  BY DEF LaunchInv, BoundInv, TakesRead
<1>1. PICK base \in {4, 5} : Gets(Answered, base) /\ base + neg.need = Len(sc.reply)
  BY DEF BoundInv
<1>2. base \in Nat
  BY <1>1
<1>3. CASE Len(got) < neg.need
  <2>1. neg'.pc = "bound" /\ neg'.need = neg.need /\ neg'.got = got /\ proxy' = proxy
    BY <1>0, <1>3, ReadWaits
  <2>2. Answered' = Answered
    BY DEF Answered, Behind, Present
  <2>3. Reads(got, rest, Answered, base)
    BY <1>0, <1>1, <1>2, PartOfReply
  <2>4. Gets(Answered, base)'
    BY <1>0, <2>1, <2>2, <2>3 DEF Gets
  <2> QED BY <1>0, <1>1, <2>1, <2>4 DEF BoundInv
<1>4. CASE ~(Len(got) < neg.need)
  <2>1. Len(got) = neg.need /\ neg' = Granted
    BY <1>0, <1>4 DEF Continues, socks5_negotiate
  <2>2. \E b \in Nat : Gets(Answered, b) /\ b + Len(got) = Len(sc.reply)
    BY <1>1, <1>2, <2>1
  <2> QED BY <1>0, <2>1, <2>2, EndOfAnswer
<1> QED BY <1>3, <1>4

(* The elements of a sequence.                                             *)
LEMMA InSet ==
  ASSUME NEW s \in Seq(Nat), NEW x
  PROVE  x \in ToSet(s) <=> \E k \in 1..Len(s) : s[k] = x
BY DEF ToSet

(* Where an HTTP response ends: at its first empty line, if it fits.       *)
LEMMA ResponseEnds ==
  ASSUME NEW reply \in Seq(Nat), reply # <<>>,
         \A k \in DOMAIN reply : reply[k] = HeadEnd <=> k = Len(reply),
         Len(reply) <= HeadMax, NEW before \in Seq(Nat), NEW got \in Seq(Nat), Len(got) = Len(before) + 1,
         \A k \in 1..Len(before) : got[k] = before[k],
         \A k \in 1..Len(got) : k <= Len(reply) => got[k] = reply[k],
         HeadEnd \notin ToSet(before), ~(HeadEnd \notin ToSet(got) /\ Len(got) < HeadMax)
  PROVE  Len(got) = Len(reply)
<1>1. Len(reply) \in Nat /\ Len(reply) >= 1 /\ DOMAIN reply = 1..Len(reply) /\ Len(got) \in Nat /\ Len(before) \in Nat
      /\ HeadMax \in Nat
  BY TransferAssumption
<1>2. Len(got) <= Len(reply)
  <2> SUFFICES ASSUME Len(got) > Len(reply) PROVE FALSE
    BY <1>1
  <2> DEFINE k == Len(reply)
  <2>1. k \in 1..Len(before) /\ k \in 1..Len(got) /\ k \in DOMAIN reply
    BY <1>1
  <2>2. reply[k] = HeadEnd
    BY <2>1
  <2>3. got[k] = reply[k]
    BY <1>1, <2>1
  <2>4. before[k] = HeadEnd
    BY <2>1, <2>2, <2>3
  <2> HIDE DEF k
  <2> QED BY <2>1, <2>4, InSet
<1>3. ~(Len(got) < Len(reply))
  <2> SUFFICES ASSUME Len(got) < Len(reply) PROVE FALSE
    OBVIOUS
  <2>1. ASSUME NEW k \in 1..Len(got) PROVE got[k] # HeadEnd
    <3>0. \A m, n \in Nat : m < n => \A i \in 1..m : i \in 1..n /\ i <= n /\ i # n
      OBVIOUS
    <3>1. k \in DOMAIN reply /\ k <= Len(reply) /\ k # Len(reply)
      BY <1>1, <3>0
    <3> QED BY <3>1
  <2>2. HeadEnd \notin ToSet(got)
    BY <2>1, InSet
  <2>3. Len(got) < HeadMax
    BY <1>1
  <2> QED BY <2>2, <2>3
<1>4. \A m, n \in Nat : m <= n /\ ~(m < n) => m = n
  OBVIOUS
<1> QED BY <1>1, <1>2, <1>3, <1>4, Zenon

(* A byte of an HTTP response.                                             *)
LEMMA HeadRead ==
  ASSUME LaunchInv, DataOK, Proxied, sc["client"].proxy # "socks5", HeadInv, UNCHANGED sc, UNCHANGED out,
         out["client"] = <<>>, NEW got, NEW rest, TakesRead(got, rest), Continues(got)
  PROVE  HeadInv' \/ GivenUp' \/ (neg'.pc = "granted" /\ Through')
<1>0. /\ sc \in Scenarios /\ neg.pc = "head" /\ down' = rest /\ KeepsToHttp(sc) /\ got \in Seq(Nat)
      /\ HeadEnd \notin ToSet(neg.got)
  BY ProxyKeeps DEF LaunchInv, HeadInv, TakesRead
<1>1. \/ proxy = "closed" /\ Gets(sc.refusal, 0)
      \/ proxy = "tunnel" /\ Gets(Answered, 0)
  BY DEF HeadInv, AnswerInv, TakesRead
<1>2. neg' = http_connect_negotiate(got)
  BY <1>0 DEF Continues
<1>3. CASE HeadEnd \notin ToSet(got) /\ Len(got) < HeadMax
  <2>1. neg' = [pc |-> "head", need |-> 0, got |-> got]
    BY <1>2, <1>3 DEF http_connect_negotiate
  <2>2. neg'.pc = "head" /\ neg'.got = got
    BY <2>1
  <2>3. proxy' = proxy
    BY <2>2 DEF Continues
  <2>4. Answered' = Answered
    BY DEF Answered, Behind, Present
  <2>5. AnswerInv'
    <3>1. CASE proxy = "closed" /\ Gets(sc.refusal, 0)
      <4>1. Reads(got, rest, sc.refusal, 0)
        BY <1>0, <3>1, AnsweredTyped DEF TakesRead
      <4> QED BY <1>0, <2>2, <2>3, <3>1, <4>1 DEF AnswerInv, Gets
    <3>2. CASE proxy = "tunnel" /\ Gets(Answered, 0)
      <4>1. Reads(got, rest, Answered, 0)
        BY <1>0, <3>2, AnsweredTyped DEF TakesRead
      <4> QED BY <1>0, <2>2, <2>3, <2>4, <3>2, <4>1 DEF AnswerInv, Gets
    <3> QED BY <1>1, <3>1, <3>2
  <2> QED BY <1>3, <2>2, <2>5 DEF HeadInv
<1>4. CASE ~(HeadEnd \notin ToSet(got) /\ Len(got) < HeadMax)
  <2>1. neg' = IF StatusOk \in ToSet(got) THEN Granted ELSE Rejected
    BY <1>2, <1>4 DEF http_connect_negotiate
  <2>2. CASE neg' = Rejected
    BY <2>2 DEF Continues
  <2>3. CASE StatusOk \in ToSet(got) /\ proxy = "closed" /\ Gets(sc.refusal, 0)
    <3>1. Reads(got, rest, sc.refusal, 0) /\ sc.refusal \in Seq(Nat)
      BY <1>0, <2>3, AnsweredTyped DEF TakesRead
    <3>2. PICK k \in 1..Len(got) : got[k] = StatusOk
      BY <1>0, <2>3, InSet
    <3>3. sc.refusal[0 + k] = StatusOk /\ 0 + k = k
      BY <3>1, <3>2 DEF Reads
    <3>4. k \in 1..Len(sc.refusal)
      <4>1. 0 + Len(got) + Len(rest) = Len(sc.refusal) /\ Len(got) \in Nat /\ Len(rest) \in Nat
        BY <1>0, <3>1 DEF Reads, TakesRead
      <4> QED BY <3>2, <4>1
    <3>5. StatusOk \in ToSet(sc.refusal)
      BY <3>1, <3>3, <3>4, InSet
    <3> QED BY <1>0, <3>5 DEF KeepsToHttp
  <2>4. CASE StatusOk \in ToSet(got) /\ proxy = "tunnel" /\ Gets(Answered, 0)
    <3>1. neg' = Granted
      BY <2>1, <2>4
    <3>2. ASSUME HeaderFits PROVE 0 + Len(got) = Len(sc.reply)
      <4>1. Len(sc.reply) <= HeadMax
        <5>1. sc["client"].proxy \in {"none", "socks5", "http"} /\ sc["client"].proxy # "none"
          BY <1>0, TransferAssumption DEF IsScenario, Proc, Proxied, UsesProxy
        <5> QED BY <3>2, <5>1 DEF HeaderFits
      <4>2. \A k \in 1..Len(got) : k <= Len(sc.reply) => got[k] = sc.reply[k]
        <5>1. \A k \in 1..Len(got) : 0 + k <= Len(sc.reply) => got[k] = sc.reply[0 + k]
          BY <1>0, <2>4, PartOfReply
        <5>2. \A k \in 1..Len(got) : 0 + k = k
          BY <1>0
        <5> QED BY <5>1, <5>2
      <4>3. Len(got) = Len(neg.got) + 1 /\ \A k \in 1..Len(neg.got) : got[k] = neg.got[k]
        BY <1>0 DEF TakesRead
      <4>4. sc.reply \in Seq(Nat) /\ neg.got \in Seq(Nat)
        BY <1>0, AnsweredTyped DEF DataOK, IsNeg, NegType
      <4>5. sc.reply # <<>> /\ \A k \in DOMAIN sc.reply : sc.reply[k] = HeadEnd <=> k = Len(sc.reply)
        BY <1>0 DEF KeepsToHttp
      <4>6. Len(got) = Len(sc.reply)
        BY <1>0, <1>4, <4>1, <4>2, <4>3, <4>4, <4>5, ResponseEnds
      <4> QED BY <1>0, <4>6
    <3>3. HeaderFits => \E base \in Nat : Gets(Answered, base) /\ base + Len(got) = Len(sc.reply)
      BY <2>4, <3>2
    <3> QED BY <1>0, <2>4, <3>1, <3>3, EndOfAnswer
  <2> QED BY <1>1, <2>1, <2>2, <2>3, <2>4
<1> QED BY <1>3, <1>4

(* Any read of the negotiation.                                            *)
LEMMA NegotiateReadKeeps ==
  ASSUME LaunchInv, DataOK, Proxied, NegInv, NegotiateRead
  PROVE  NegInv' \/ GivenUp' \/ (neg'.pc = "granted" /\ Through')
<1>1. UNCHANGED sc /\ UNCHANGED out /\ out["client"] = <<>> /\ neg.pc # "start"
  BY DEF NegotiateRead, copied, NegInv
<1>2. PICK got, rest : TakesRead(got, rest) /\ Continues(got)
  BY ReadTakes
<1>3. CASE sc["client"].proxy = "socks5" /\ MethodInv
  BY <1>1, <1>2, <1>3, MethodRead DEF NegInv
<1>4. CASE sc["client"].proxy = "socks5" /\ ReplyInv
  BY <1>1, <1>2, <1>4, ReplyRead DEF NegInv
<1>5. CASE sc["client"].proxy = "socks5" /\ LengthInv
  BY <1>1, <1>2, <1>5, LengthRead DEF NegInv
<1>6. CASE sc["client"].proxy = "socks5" /\ BoundInv
  BY <1>1, <1>2, <1>6, BoundRead DEF NegInv
<1>7. CASE sc["client"].proxy # "socks5" /\ HeadInv
  BY <1>1, <1>2, <1>7, HeadRead DEF NegInv
<1> QED BY <1>1, <1>3, <1>4, <1>5, <1>6, <1>7 DEF NegInv, StartInv

(* The relay does not run before the negotiation, nor in recv.             *)
LEMMA NoRelayYet ==
  ASSUME LaunchInv, ServerInv
  PROVE  ~RelayCopies("server") /\ (PlaceInv => ~RelayCopies("client"))
<1>0. "client" \in Proc /\ "server" \in Proc
  BY DEF Proc
<1>1. ASSUME RelayCopies("server") PROVE FALSE
  <2>1. Present("server") /\ Head(todo["server"]).call = "relay"
    BY <1>1 DEF RelayCopies, Doing, ThisStep
  <2>2. IsSteps(todo["server"], TRUE) /\ Ends(todo["server"])
    BY <1>0, <2>1 DEF LaunchInv, IsProgram, ServerInv
  <2>3. IsStep(Head(todo["server"]), TRUE)
    BY <2>2, FirstStep
  <2> QED BY <2>1, <2>3 DEF IsStep, FileCall
<1>2. ASSUME PlaceInv, RelayCopies("client") PROVE FALSE
  <2>1. Present("client") /\ Head(todo["client"]).call = "relay"
    BY <1>2 DEF RelayCopies, Doing, ThisStep
  <2>2. IsSteps(todo["client"], FALSE) /\ Ends(todo["client"])
    BY <1>0, <2>1 DEF LaunchInv, IsProgram
  <2>3. ~Has(todo["client"], "negotiate")
    BY <1>2, <2>1, <2>2, TailBefore DEF PlaceInv
  <2> QED BY <1>2, <2>3 DEF PlaceInv
<1> QED BY <1>1, <1>2

(* The client speaks first.                                                *)
LEMMA StartKeeps ==
  ASSUME NegInv, NegotiateStart, Proxied, LaunchInv
  PROVE  NegInv'
<1>1. /\ neg.pc = "start" /\ UNCHANGED <<sc, down, out>> /\ out["client"] = <<>> /\ HeadMax \in Nat /\ HeadMax > 0
      /\ sc["client"].proxy = "socks5" => proxy' = "greeted" /\ neg' = Reading("method", 2)
      /\ sc["client"].proxy # "socks5" => proxy' = "asked" /\ neg' = Reading("head", 0)
  BY TransferAssumption DEF NegotiateStart, NegInv, copied
<1>2. down = <<>>
  BY <1>1 DEF NegInv, StartInv, MethodInv, ReplyInv, LengthInv, BoundInv, HeadInv
<1>3. CASE sc["client"].proxy = "socks5"
  <2>1. neg'.pc = "method" /\ neg'.need = 2 /\ neg'.got = <<>> /\ proxy' = "greeted"
    BY <1>1, <1>3 DEF Reading
  <2>2. Nothing'
    BY <1>1, <1>2, <2>1 DEF Nothing
  <2> QED BY <1>1, <1>3, <2>1, <2>2 DEF NegInv, MethodInv
<1>4. CASE sc["client"].proxy # "socks5"
  <2>1. neg'.pc = "head" /\ neg'.got = <<>> /\ proxy' = "asked"
    BY <1>1, <1>4 DEF Reading
  <2>2. Nothing'
    BY <1>1, <1>2, <2>1 DEF Nothing
  <2>3. HeadEnd \notin ToSet(<<>>) /\ Len(<<>>) < HeadMax
    BY <1>1 DEF ToSet
  <2> QED BY <1>1, <1>4, <2>1, <2>2, <2>3 DEF NegInv, HeadInv, AnswerInv
<1> QED BY <1>3, <1>4

(* The proxy answers the greeting.                                         *)
LEMMA GreetKeeps ==
  ASSUME NegInv, ProxyGreets, Proxied, LaunchInv
  PROVE  NegInv'
<1>1. proxy = "greeted" /\ proxy' = "answered" /\ down' = down \o sc.method /\ UNCHANGED <<sc, neg, out>>
  BY DEF ProxyGreets, copied
<1>2. sc["client"].proxy = "socks5" /\ MethodInv
  BY <1>1 DEF NegInv, StartInv, ReplyInv, LengthInv, BoundInv, HeadInv, AnswerInv
<1>3. neg.got = <<>> /\ down = <<>>
  BY <1>1, <1>2 DEF MethodInv, Nothing
<1>4. sc.method \in Seq(Nat)
  BY AnsweredTyped DEF LaunchInv
<1>5. down' = sc.method
  BY <1>1, <1>3, <1>4, ConcatEmptySeq
<1>6. Reads(<<>>, sc.method, sc.method, 0)
  BY <1>4, ReadsAll
<1>7. MethodInv'
  BY <1>1, <1>2, <1>3, <1>5, <1>6 DEF MethodInv, Gets
<1> QED BY <1>1, <1>2, <1>7 DEF NegInv

(* The proxy answers the request.                                          *)
LEMMA AnswerKeeps ==
  ASSUME NegInv, ProxyConnects, Proxied, LaunchInv
  PROVE  NegInv'
<1>1. /\ proxy = "asked" /\ UNCHANGED <<sc, neg, out>>
      /\ \/ proxy' = "tunnel" /\ down' = (down \o sc.reply) \o Behind
         \/ proxy' = "closed" /\ down' = down \o sc.refusal
  BY DEF ProxyConnects, copied, Behind
<1>2. Nothing /\ (\/ sc["client"].proxy = "socks5" /\ ReplyInv
                  \/ sc["client"].proxy # "socks5" /\ HeadInv)
  BY <1>1 DEF NegInv, StartInv, MethodInv, LengthInv, BoundInv, ReplyInv, HeadInv, AnswerInv
<1>3. neg.got = <<>> /\ down = <<>>
  BY <1>2 DEF Nothing
<1>4. sc.reply \in Seq(Nat) /\ sc.refusal \in Seq(Nat) /\ Answered \in Seq(Nat)
  BY AnsweredTyped DEF LaunchInv
<1>5. down \o sc.reply = sc.reply /\ down \o sc.refusal = sc.refusal
  BY <1>3, <1>4, ConcatEmptySeq
<1>6. Reads(<<>>, Answered, Answered, 0) /\ Reads(<<>>, sc.refusal, sc.refusal, 0)
  BY <1>4, ReadsAll
<1>7. Answered' = Answered
  BY <1>1 DEF Answered, Behind, Present
<1>8. AnswerInv'
  <2>1. CASE proxy' = "tunnel" /\ down' = (down \o sc.reply) \o Behind
    <3>1. down' = Answered
      BY <1>5, <2>1 DEF Answered
    <3> QED BY <1>1, <1>3, <1>6, <1>7, <2>1, <3>1 DEF AnswerInv, Gets
  <2>2. CASE proxy' = "closed" /\ down' = down \o sc.refusal
    BY <1>1, <1>3, <1>5, <1>6, <2>2 DEF AnswerInv, Gets
  <2> QED BY <1>1, <2>1, <2>2
<1> QED BY <1>1, <1>2, <1>8 DEF NegInv, ReplyInv, HeadInv

(* The proxy gives up.                                                     *)
LEMMA CloseKeeps ==
  ASSUME NegInv, ProxyCloses, Proxied, LaunchInv
  PROVE  NegInv'
<1>1. proxy \in {"greeted", "answered", "asked"} /\ proxy' = "closed" /\ UNCHANGED <<sc, neg, down, out>>
  BY DEF ProxyCloses, copied
<1>2. (Nothing' <=> Nothing) /\ (Gets(sc.method, 0)' <=> Gets(sc.method, 0))
  BY <1>1 DEF Nothing, Gets
<1>3. CASE MethodInv
  <2>1. MethodInv'
    BY <1>1, <1>2, <1>3 DEF MethodInv
  <2> QED BY <1>1, <1>3, <2>1 DEF NegInv, MethodInv, HeadInv, StartInv
<1>4. CASE ReplyInv \/ HeadInv
  <2>1. Nothing
    BY <1>1, <1>4 DEF ReplyInv, HeadInv, AnswerInv
  <2>2. AnswerInv'
    BY <1>1, <1>2, <2>1 DEF AnswerInv
  <2>3. (ReplyInv => ReplyInv') /\ (HeadInv => HeadInv')
    BY <1>1, <2>2 DEF ReplyInv, HeadInv
  <2> QED BY <1>1, <1>4, <2>3 DEF NegInv, MethodInv, ReplyInv, LengthInv, BoundInv, HeadInv, StartInv
<1>5. MethodInv \/ ReplyInv \/ HeadInv
  BY <1>1 DEF NegInv, StartInv, LengthInv, BoundInv
<1> QED BY <1>3, <1>4, <1>5

(* Before the tunnel is granted.                                           *)
LEMMA NegotiationKept ==
  ASSUME LaunchInv, DataOK, ServerInv, Proxied, PlaceInv, NegInv, Next
  PROVE  NegInv' \/ GivenUp' \/ (neg'.pc = "granted" /\ Through')
<1>1. ~RelayCopies("server") /\ ~RelayCopies("client")
  BY NoRelayYet
<1>2. CASE NegotiateStart
  BY <1>2, StartKeeps
<1>3. CASE NegotiateRead
  BY <1>3, NegotiateReadKeeps
<1>4. CASE ProxyGreets
  BY <1>4, GreetKeeps
<1>5. CASE ProxyConnects
  BY <1>5, AnswerKeeps
<1>6. CASE ProxyCloses
  BY <1>6, CloseKeeps
<1>7. CASE ~NegotiateStart /\ ~NegotiateRead /\ ~ProxyGreets /\ ~ProxyConnects /\ ~ProxyCloses
  <2>1. UNCHANGED <<sc, neg, proxy, down>> /\ out'["client"] = out["client"]
    BY <1>1, <1>7, TunnelBystanders
  <2>2. Answered' = Answered
    BY <2>1 DEF Answered, Behind, Present
  <2>3. (Nothing' <=> Nothing) /\ (AnswerInv' <=> AnswerInv)
    BY <2>1, <2>2 DEF AnswerInv, Nothing, Gets
  <2>4. (MethodInv' <=> MethodInv) /\ (ReplyInv' <=> ReplyInv) /\ (HeadInv' <=> HeadInv)
    BY <2>1, <2>3 DEF MethodInv, ReplyInv, HeadInv, Gets
  <2>5. (LengthInv' <=> LengthInv) /\ (BoundInv' <=> BoundInv) /\ (StartInv' <=> StartInv)
    BY <2>1, <2>2 DEF LengthInv, BoundInv, StartInv, Gets
  <2> QED BY <2>1, <2>4, <2>5 DEF NegInv
<1> QED BY <1>2, <1>3, <1>4, <1>5, <1>6, <1>7

(* And after.                                                              *)
LEMMA ThroughKept ==
  ASSUME LaunchInv, DataOK, ServerInv, Proxied, neg.pc = "granted", Through, Next
  PROVE  neg'.pc = "granted" /\ Through'
<1>0. proxy = "tunnel" /\ "client" \in Proc /\ UNCHANGED sc /\ sc.banner \in Seq(Nat)
  BY NextMoves, AnsweredTyped DEF Through, Proc, LaunchInv
<1>1. ~NegotiateStart /\ ~ProxyGreets /\ ~ProxyConnects /\ ~ProxyCloses
  BY <1>0 DEF NegotiateStart, ProxyGreets, ProxyConnects, ProxyCloses
<1>2. ~NegotiateRead
  <2>1. neg.need = 0 /\ Len(neg.got) = 0
    BY DEF DataOK, IsNeg
  <2>2. \A n : n \notin ReadSize(neg.pc)
    BY <2>1 DEF ReadSize
  <2> QED BY <2>2 DEF NegotiateRead
<1>3. ~RelayCopies("server")
  BY NoRelayYet
<1>4. CASE RelayCopies("client")
  <2>1. PICK n \in 1..ReadMax :
          /\ n <= Len(down) /\ out' = [out EXCEPT !["client"] = out["client"] \o SubSeq(down, 1, n)]
          /\ down' = SubSeq(down, n + 1, Len(down))
    BY <1>4 DEF RelayCopies
  <2>2. UNCHANGED <<neg, proxy>>
    BY <1>4 DEF RelayCopies
  <2>3. n \in Nat /\ down \in Seq(Nat) /\ out["client"] \in Seq(Nat)
    BY <1>0 DEF DataOK, NetOK, CopyOK
  <2>4. out'["client"] = out["client"] \o SubSeq(down, 1, n)
    BY <1>0, <2>1 DEF DataOK, CopyOK
  <2>5. ASSUME Reads(out["client"], down, sc.banner, 0) PROVE Reads(out'["client"], down', sc.banner, 0)
    <3> DEFINE o == out["client"]
    <3>1. o \in Seq(Nat) /\ Reads(o, down, sc.banner, 0)
      BY <2>3, <2>5
    <3> HIDE DEF o
    <3>2. Reads(o \o SubSeq(down, 1, n), SubSeq(down, n + 1, Len(down)), sc.banner, 0)
      BY <1>0, <2>1, <2>3, <3>1, ReadsTaken
    <3> QED BY <2>1, <2>4, <3>2 DEF o
  <2> QED BY <1>0, <2>2, <2>5 DEF Through, Present, HeaderFits
<1>5. CASE ~RelayCopies("client")
  <2>1. UNCHANGED <<sc, neg, proxy, down>> /\ out'["client"] = out["client"]
    BY <1>1, <1>2, <1>3, <1>5, TunnelBystanders
  <2> QED BY <2>1 DEF Through, Present, HeaderFits
<1> QED BY <1>4, <1>5

(* Only the negotiation moves what it keeps.                               *)
LEMMA NegKept ==
  ASSUME Next, ~NegotiateStart, ~NegotiateRead
  PROVE  UNCHANGED neg
<1>1. ASSUME NEW q \in Proc, Work(q) PROVE UNCHANGED neg
  <2>1. CASE Plain(q) \/ ParseArgs(q) \/ Refused(q) \/ AcceptStopped(q)
    BY <2>1 DEF Plain, ParseArgs, Refused, AcceptStopped
  <2>2. CASE AccessCheck(q) \/ Handshake(q) \/ HandshakeBroken(q) \/ CopyTest(q)
    BY <2>2 DEF AccessCheck, Handshake, HandshakeBroken, CopyTest
  <2>3. CASE Connect(q) \/ Accept(q) \/ RelayCopies(q) \/ RelayEnds(q)
    BY <2>3 DEF Connect, Accept, RelayCopies, RelayEnds
  <2> QED BY <1>1, <2>1, <2>2, <2>3 DEF Work
<1>2. CASE Work("client") \/ Work("server")
  BY <1>1, <1>2 DEF Proc
<1>3. CASE NegotiateEof \/ SendChunk \/ SendEnds
  BY <1>3 DEF NegotiateEof, SendChunk, SendEnds
<1>4. CASE RecvChunk \/ RecvEnds \/ RecvAgain
  BY <1>4 DEF RecvChunk, RecvEnds, RecvAgain
<1>5. CASE Surroundings
  BY <1>5 DEF Surroundings, ProxyGreets, ProxyConnects, PeerConnects
<1>6. CASE ProxyCloses \/ ReplyOverrun \/ Reset
  BY <1>6 DEF ProxyCloses, ReplyOverrun, Reset
<1>7. CASE \E q \in Proc : Fail(q) \/ Signal(q)
  BY <1>7 DEF Fail, Signal
<1> QED BY <1>2, <1>3, <1>4, <1>5, <1>6, <1>7 DEF Next, ClientWork, ServerWork

(* Any step.                                                               *)
LEMMA TunnelStep == LaunchInv /\ DataOK /\ TunnelInv /\ [Next]_vars => TunnelInv'
<1> SUFFICES ASSUME LaunchInv, DataOK, TunnelInv, [Next]_vars PROVE TunnelInv'
  OBVIOUS
<1>1. CASE UNCHANGED vars
  <2>1. UNCHANGED <<sc, todo, status, neg, down, proxy, out>>
    BY <1>1 DEF vars, net, copied
  <2>2. /\ (ServerInv' <=> ServerInv) /\ (Proxied' <=> Proxied) /\ (PlaceInv' <=> PlaceInv)
        /\ (Ended("client")' <=> Ended("client")) /\ (Through' <=> Through)
    BY <2>1 DEF ServerInv, Proxied, PlaceInv, Ended, Through, Present, HeaderFits
  <2>3. Answered' = Answered
    BY <2>1 DEF Answered, Behind, Present
  <2>4. NegInv' <=> NegInv
    BY <2>1, <2>3 DEF NegInv, StartInv, MethodInv, ReplyInv, LengthInv, BoundInv, HeadInv, AnswerInv, Nothing, Gets
  <2> QED BY <2>1, <2>2, <2>4 DEF TunnelInv
<1>2. CASE Next
  <2>1. ServerInv /\ ServerInv' /\ UNCHANGED sc
    BY <1>2, PlacesKept, NextMoves DEF TunnelInv
  <2>2. Proxied' <=> Proxied
    BY <2>1 DEF Proxied
  <2>3. CASE Proxied /\ neg.pc = "granted"
    <3>1. neg'.pc = "granted" /\ Through'
      BY <1>2, <2>1, <2>3, ThroughKept DEF TunnelInv
    <3> QED BY <2>1, <3>1 DEF TunnelInv
  <2>4. CASE Proxied /\ neg.pc # "granted"
    <3>1. Present("client") /\ PlaceInv /\ (Ended("client") \/ NegInv)
      BY <2>4, ProxyKeeps DEF TunnelInv, LaunchInv
    <3>2. CASE Ended("client")
      <4>1. Ended("client")'
        BY <1>2, <3>2, StatusStays DEF Ended, Proc
      <4>2. neg'.pc # "granted" /\ PlaceInv'
        <5>1. ~NegotiateRead /\ ~NegotiateStart
          BY <3>2 DEF NegotiateRead, NegotiateStart, Negotiating, Doing
        <5>2. UNCHANGED neg
          BY <1>2, <5>1, NegKept
        <5> QED BY <1>2, <2>1, <2>4, <3>1, <5>2, PlacesKept
      <4> QED BY <2>1, <4>1, <4>2 DEF TunnelInv
    <3>3. CASE NegInv
      <4>1. NegInv' \/ GivenUp' \/ (neg'.pc = "granted" /\ Through')
        BY <1>2, <2>1, <2>4, <3>1, <3>3, NegotiationKept
      <4>2. PlaceInv' \/ neg'.pc = "granted"
        BY <1>2, <2>1, <3>1, PlacesKept
      <4>3. CASE NegInv'
        <5>1. neg'.pc # "granted"
          BY <4>3 DEF NegInv, StartInv, MethodInv, ReplyInv, LengthInv, BoundInv, HeadInv
        <5> QED BY <2>1, <4>2, <4>3, <5>1 DEF TunnelInv
      <4>4. CASE GivenUp'
        BY <2>1, <4>2, <4>4 DEF TunnelInv, GivenUp
      <4>5. CASE neg'.pc = "granted" /\ Through'
        BY <2>1, <4>5 DEF TunnelInv
      <4> QED BY <4>1, <4>3, <4>4, <4>5
    <3> QED BY <3>1, <3>2, <3>3
  <2> QED BY <2>1, <2>2, <2>3, <2>4 DEF TunnelInv
<1> QED BY <1>1, <1>2

(* A client that is past the negotiation was granted the tunnel.           *)
LEMMA TunnelKnown == LaunchInv /\ DataOK /\ TunnelInv => TunnelExact
<1> SUFFICES ASSUME LaunchInv, DataOK, TunnelInv, PastNegotiation
             PROVE  /\ proxy = "tunnel"
                    /\ ~Present("server") /\ HeaderFits => out["client"] \o down = sc.banner
  BY DEF TunnelExact
<1>0. Proxied /\ "client" \in Proc /\ sc \in Scenarios
  BY DEF PastNegotiation, LaunchInv, Proc
<1>1. IsSteps(todo["client"], FALSE) /\ Ends(todo["client"])
  BY <1>0, ProxyKeeps DEF LaunchInv, IsProgram
<1>2. ~Has(todo["client"], "negotiate")
  BY <1>1, HasComes DEF PastNegotiation
<1>3. Through
  BY <1>0, <1>2 DEF TunnelInv, PlaceInv
<1>4. out["client"] \in Seq(Nat) /\ down \in Seq(Nat) /\ sc.banner \in Seq(Nat)
  BY <1>0, AnsweredTyped DEF DataOK, NetOK, CopyOK
<1> QED BY <1>3, <1>4, ReadsWhole DEF Through

(* A client that uses a proxy goes on past the negotiation only through a  *)
(* granted tunnel, and what it then reads is what the server says from its *)
(* first byte: read_exact and the byte-wise reading of the HTTP response   *)
(* in proxy.c stop at the end of the proxy's answer, for every answer that *)
(* keeps to the protocol and however the network cuts it up. Only an HTTP  *)
(* header that does not fit the buffer is left aside.                      *)
THEOREM TunnelHolds == Spec => []TunnelExact
<1>1. Init => DataOK
  BY TypesInit
<1> QED BY <1>1, LaunchHolds, DataStep, TunnelInit, TunnelStep, TunnelKnown, PTL DEF Spec
=============================================================================
