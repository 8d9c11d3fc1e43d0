---------------------------- MODULE SessionProofs ----------------------------
(***************************************************************************)
(* What is proved of module Session, for any number of data frames: the    *)
(* types, that a success means a connected target, that credentials come   *)
(* first, that a client gets at most one reply and data only after it,     *)
(* that the payload of both directions arrives as it was sent, and that    *)
(* the hops count the same bytes.                                          *)
(***************************************************************************)
EXTENDS Session, TLAPS

Wires == [Streams -> Seq(Frames)]

-----------------------------------------------------------------------------
(* Frames and streams.                                                     *)

(* The frames that the handlers write are frames of the protocol.          *)
LEMMA Written ==
    /\ Eof \in Frames
    /\ \A a \in {"none", "pass", "unacceptable"} : Frame("method", a) \in Frames
    /\ \A a \in {"success", "failure"} : Frame("status", a) \in Frames
    /\ \A a \in {"success", "unsupported", "unreachable", "refused", "expired"} :
          Frame("reply", a) \in Frames
    /\ Frame("greeting", "none") \in Frames
    /\ Frame("request", "connect") \in Frames
    /\ \A i \in 1 .. MaxData : Data(i) \in Frames
BY Zenon DEF Frames

(* A frame is its kind, its argument and, for data, its number.            *)
LEMMA OnlyCredentials ==
    ASSUME NEW f \in Frames, f.kind = "credentials", f.arg = "good"
    PROVE  f = Frame("credentials", "good")
<1>1. \A k, a : Frame(k, a).kind = k
  BY Zenon DEF Frame
<1>2. \A i : Data(i).kind = "data"
  BY Zenon DEF Data
<1>3. \/ f = Eof \/ \E i : f = Data(i)
      \/ \E k \in {"greeting", "method", "status", "request", "reply"} : \E a : f = Frame(k, a)
      \/ \E a \in {"good", "wrong", "bad"} : f = Frame("credentials", a)
  BY Zenon DEF Frames
<1>4. f # Eof /\ ~(\E i : f = Data(i))
  <2>1. f # Eof
    BY <1>1, ZenonT(30) DEF Eof
  <2>2. ~(\E i : f = Data(i))
    BY <1>2, Zenon
  <2> QED
    BY <2>1, <2>2, Zenon
<1>5. ~(\E k \in {"greeting", "method", "status", "request", "reply"} : \E a : f = Frame(k, a))
  BY <1>1, Zenon
<1>6. PICK a : f = Frame("credentials", a)
  BY <1>3, <1>4, <1>5, Zenon
<1>7. f.arg = a
  BY <1>6, Zenon DEF Frame
<1> QED
  BY <1>6, <1>7, Zenon

(* A frame is put at the end of one stream; the others stay.               *)
LEMMA PutType ==
    ASSUME NEW w \in Wires, NEW s \in Streams, NEW f \in Frames
    PROVE  /\ Put(w, s, f) \in Wires
           /\ \A r \in Streams : Put(w, s, f)[r] = IF r = s THEN Append(w[s], f)
                                                   ELSE w[r]
BY DEF Put, Wires

(* Writing a frame changes the stream written to and no other.             *)
LEMMA PutOnly ==
    ASSUME NEW w \in Wires, NEW s \in Streams, NEW f \in Frames
    PROVE  /\ Put(w, s, f)[s] = Append(w[s], f)
           /\ \A r \in Streams \ {s} : Put(w, s, f)[r] = w[r]
BY Zenon DEF Put, Wires

(* Reading a frame.                                                        *)
LEMMA TakeType ==
    ASSUME NEW w \in Wires, NEW s \in Streams, w[s] # <<>>
    PROVE  /\ Take(w, s) \in Wires
           /\ \A r \in Streams : Take(w, s)[r] = IF r = s THEN Tail(w[s]) ELSE w[r]
           /\ Head(w[s]) \in Frames
<1>1. w[s] \in Seq(Frames) /\ Tail(w[s]) \in Seq(Frames) /\ Head(w[s]) \in Frames
  BY DEF Wires
<1> QED
  BY <1>1, Zenon DEF Take, Wires

(* Closing puts the end on a stream, at most.                              *)
LEMMA CloseType ==
    ASSUME NEW w \in Wires, NEW s \in Streams
    PROVE  /\ Close(w, s) \in Wires
           /\ \A r \in Streams : \/ Close(w, s)[r] = w[r]
                                 \/ r = s /\ Close(w, s)[r] = Append(w[s], Eof)
<1>1. /\ Put(w, s, Eof) \in Wires
      /\ \A r \in Streams : Put(w, s, Eof)[r] = IF r = s THEN Append(w[s], Eof)
                                                ELSE w[r]
  BY Written, PutType
<1> QED
  BY <1>1, Zenon DEF Close

(* A reply is written or lost, and nothing else happens.                   *)
LEMMA TryReplyType ==
    ASSUME NEW w \in Wires, NEW s \in Streams, NEW code,
           Frame("reply", code) \in Frames, NEW v \in try_reply(w, s, code)
    PROVE  /\ v \in Wires
           /\ \A r \in Streams : \/ v[r] = w[r]
                                 \/ r = s /\ v[r] = Append(w[s], Frame("reply", code))
<1> DEFINE f == Frame("reply", code)
<1>1. /\ Put(w, s, f) \in Wires
      /\ \A r \in Streams : Put(w, s, f)[r] = IF r = s THEN Append(w[s], f)
                                              ELSE w[r]
  BY PutType, Zenon
<1>2. v = w \/ v = Put(w, s, f)
  BY Zenon DEF try_reply
<1> QED
  BY <1>1, <1>2, Zenon

-----------------------------------------------------------------------------
(* Types.                                                                  *)

(* Going on or returning, the gateway keeps the types.                     *)
LEMMA GatewayMoves ==
    ASSUME TypeOK, NEW w \in Wires, NEW pc \in GatewayPc,
           GatewayEnds(w) \/ GatewayGoes(pc, w)
    PROVE  TypeOK'
<1>1. CASE GatewayGoes(pc, w)
  BY <1>1, Zenon DEF GatewayGoes, TypeOK, Wires, counts
<1>2. CASE GatewayEnds(w)
  <2>1. wire' \in Wires
    BY <1>2, CloseType, Zenon DEF GatewayEnds, GatewayReturns, Streams
  <2> QED
    BY <1>2, <2>1, Zenon DEF GatewayEnds, GatewayReturns, TypeOK, Wires, GatewayPc
<1> QED
  BY <1>1, <1>2, Zenon

(* The node likewise.                                                      *)
LEMMA NodeMoves ==
    ASSUME TypeOK, NEW w \in Wires, NEW pc \in NodePc,
           NodeEnds(w) \/ NodeGoes(pc, w)
    PROVE  TypeOK'
<1>1. CASE NodeGoes(pc, w)
  BY <1>1, Zenon DEF NodeGoes, TypeOK, Wires, counts
<1>2. CASE NodeEnds(w)
  <2>1. wire' \in Wires
    BY <1>2, CloseType, Zenon DEF NodeEnds, NodeReturns, Streams
  <2> QED
    BY <1>2, <2>1, Zenon DEF NodeEnds, NodeReturns, TypeOK, Wires, NodePc
<1> QED
  BY <1>1, <1>2, Zenon

(* A relayed frame keeps the types.                                        *)
LEMMA CopiesType ==
    ASSUME TypeOK, NEW hop \in Hops, NEW dir \in Directions,
           NEW from \in Streams, NEW to \in Streams, Copies(hop, dir, from, to)
    PROVE  TypeOK'
<1>1. /\ Take(wire, from) \in Wires
      /\ Head(wire[from]) \in Frames
  BY TakeType, Zenon DEF Copies, Arrived, TypeOK, Wires
<1>2. wire' \in Wires
  BY <1>1, PutType, CloseType, Zenon DEF Copies, Copied
<1>3. ended' \in [Hops -> SUBSET Directions]
  BY DEF Copies, TypeOK
<1>4. copied' \in [Hops -> Counts]
  <2>1. copied[hop] \in Counts /\ copied[hop][dir] + 1 \in Nat
    BY DEF TypeOK, Counts
  <2>2. [copied[hop] EXCEPT ![dir] = @ + 1] \in Counts
    BY <2>1, Zenon DEF Counts
  <2>3. \/ copied' = copied
        \/ copied' = [copied EXCEPT ![hop] = [copied[hop] EXCEPT ![dir] = @ + 1]]
    BY Zenon DEF Copies, TypeOK
  <2> QED
    BY <2>2, <2>3, Zenon DEF TypeOK
<1> QED
  BY <1>2, <1>3, <1>4, Zenon DEF Copies, TypeOK, Wires

(* The client keeps the types.                                             *)
LEMMA ClientType ==
    ASSUME TypeOK, ClientSends \/ ClientCloses
    PROVE  TypeOK'
<1> wire \in Wires
  BY Zenon DEF TypeOK, Wires
<1>1. CASE ClientSends
  <2>1. PICK f \in Frames : /\ sent' = Append(sent, f)
                           /\ wire' = Put(wire, "cg", f)
    BY <1>1, Zenon DEF ClientSends
  <2>2. wire' \in Wires /\ sent' \in Seq(Frames)
    BY <2>1, PutType DEF Streams, TypeOK
  <2> QED
    BY <1>1, <2>2, Zenon DEF ClientSends, TypeOK, Wires, counts
<1>2. CASE ClientCloses
  <2>1. wire' \in Wires
    BY <1>2, PutType, Written, Zenon DEF ClientCloses, Streams
  <2> QED
    BY <1>2, <2>1, Zenon DEF ClientCloses, TypeOK, Wires, counts
<1> QED
  BY <1>1, <1>2, Zenon

(* The target keeps the types.                                             *)
LEMMA TargetType ==
    ASSUME TypeOK, Len(answered) \in Nat, TargetSends \/ TargetCloses
    PROVE  TypeOK'
<1> wire \in Wires
  BY Zenon DEF TypeOK, Wires
<1>1. CASE TargetSends
  <2>1. Data(Len(answered) + 1) \in Frames
    BY <1>1, Written, MaxDataAssumption DEF TargetSends
  <2>2. wire' \in Wires /\ answered' \in Seq(Frames)
    BY <1>1, <2>1, PutType DEF TargetSends, Streams, TypeOK
  <2> QED
    BY <1>1, <2>2, Zenon DEF TargetSends, TypeOK, Wires, counts
<1>2. CASE TargetCloses
  <2>1. wire' \in Wires
    BY <1>2, PutType, Written, Zenon DEF TargetCloses, Streams
  <2> QED
    BY <1>2, <2>1, Zenon DEF TargetCloses, TypeOK, Wires, counts
<1> QED
  BY <1>1, <1>2, Zenon

(* What the gateway may do: it moves, records or copies.                   *)
LEMMA GatewayType ==
    ASSUME TypeOK, GatewayStep
    PROVE  TypeOK'
<1> wire \in Wires
  BY Zenon DEF TypeOK, Wires
<1> USE DEF Streams, GatewayPc
<1>1. CASE read_greeting
  <2> DEFINE w == Take(wire, "cg")
             m == negotiate(Head(wire.cg), auth, ~auth)
  <2>1. w \in Wires
    BY <1>1, TakeType, Zenon DEF read_greeting, Arrived
  <2>2. m \in {"none", "pass", "unacceptable"}
    BY Zenon DEF negotiate
  <2>3. Put(w, "gc", Frame("method", m)) \in Wires
    BY <2>1, <2>2, PutType, Written, Zenon
  <2> QED
    BY <1>1, <2>3, GatewayMoves, Zenon DEF read_greeting
<1>2. CASE handle_user_pass_auth
  <2> DEFINE w == Take(wire, "cg")
  <2>1. w \in Wires
    BY <1>2, TakeType, Zenon DEF handle_user_pass_auth, Arrived
  <2>2. /\ Put(w, "gc", Frame("status", "success")) \in Wires
        /\ Put(w, "gc", Frame("status", "failure")) \in Wires
    BY <2>1, PutType, Written, Zenon
  <2> QED
    BY <1>2, <2>2, GatewayMoves, Zenon DEF handle_user_pass_auth
<1>3. CASE read_request
  <2> DEFINE w == Take(wire, "cg")
  <2>1. w \in Wires
    BY <1>3, TakeType, Zenon DEF read_request, Arrived
  <2>2. \A v \in try_reply(w, "gc", "unsupported") : v \in Wires
    BY <2>1, TryReplyType, Written, Zenon
  <2> QED
    BY <1>3, <2>1, <2>2, GatewayMoves, Zenon DEF read_request
<1>4. CASE GatewayRejects
  <2>1. Take(wire, "cg") \in Wires
    BY <1>4, TakeType, Zenon DEF GatewayRejects, Arrived
  <2> QED
    BY <1>4, <2>1, GatewayMoves, Zenon DEF GatewayRejects
<1>5. CASE select_node \/ GatewayFails
  BY <1>5, GatewayMoves, Zenon DEF select_node, GatewayFails
<1>6. CASE SelectFails
  <2>1. \A v \in try_reply(wire, "gc", "unreachable") : v \in Wires
    BY TryReplyType, Written, Zenon
  <2> QED
    BY <1>6, <2>1, GatewayMoves, Zenon DEF SelectFails
<1>7. CASE ConnectNode
  <2>1. wire' \in Wires
    BY <1>7, PutType, Written, Zenon DEF ConnectNode
  <2> QED
    BY <1>7, <2>1, SMTT(30) DEF ConnectNode, TypeOK, Wires, NodePc, counts
<1>8. CASE ChainRequest
  <2> DEFINE w == Take(wire, "ng")
  <2>1. w \in Wires
    BY <1>8, TakeType, Zenon DEF ChainRequest, Arrived
  <2>2. Put(w, "gn", Frame("request", "connect")) \in Wires
    BY <2>1, PutType, Written, Zenon
  <2> QED
    BY <1>8, <2>1, <2>2, GatewayMoves, Zenon DEF ChainRequest
<1>9. CASE ChainReply
  <2>1. Take(wire, "ng") \in Wires
    BY <1>9, TakeType, Zenon DEF ChainReply, Arrived
  <2> QED
    BY <1>9, <2>1, GatewayMoves, Zenon DEF ChainReply
<1>10. CASE ReplySuccess
  <2>1. Put(wire, "gc", Frame("reply", "success")) \in Wires
    BY PutType, Written, Zenon
  <2> QED
    BY <1>10, <2>1, GatewayMoves, Zenon DEF ReplySuccess
<1>11. CASE GatewayCopies("up", "cg", "gn") \/ GatewayCopies("down", "ng", "gc")
  BY <1>11, CopiesType, Zenon DEF GatewayCopies, Hops, Directions
<1>12. CASE RelayEnds
  <2>1. wire' \in Wires
    BY <1>12, CloseType, Zenon DEF RelayEnds, GatewayReturns
  <2>2. recorded' \in [Hops -> Counts \cup {NotCounted}]
    BY <1>12, Zenon DEF RelayEnds, TypeOK, Hops
  <2> QED
    BY <1>12, <2>1, <2>2, SMTT(30) DEF RelayEnds, GatewayReturns, TypeOK, Wires
<1> QED
  BY <1>1, <1>2, <1>3, <1>4, <1>5, <1>6, <1>7, <1>8, <1>9, <1>10, <1>11, <1>12, Zenon
  DEF GatewayStep

(* Every step of the node keeps the types.                                 *)
LEMMA NodeType ==
    ASSUME TypeOK, NodeStep
    PROVE  TypeOK'
<1> wire \in Wires
  BY Zenon DEF TypeOK, Wires
<1> USE DEF Streams, NodePc
<1>1. CASE NodeGreeting
  <2> DEFINE w == Take(wire, "gn")
             m == negotiate(Head(wire.gn), FALSE, TRUE)
  <2>1. w \in Wires
    BY <1>1, TakeType, Zenon DEF NodeGreeting, Arrived
  <2>2. m \in {"none", "pass", "unacceptable"}
    BY Zenon DEF negotiate
  <2>3. Put(w, "ng", Frame("method", m)) \in Wires
    BY <2>1, <2>2, PutType, Written, Zenon
  <2> QED
    BY <1>1, <2>3, NodeMoves, Zenon DEF NodeGreeting
<1>2. CASE NodeRequest
  <2> DEFINE w == Take(wire, "gn")
  <2>1. w \in Wires
    BY <1>2, TakeType, Zenon DEF NodeRequest, Arrived
  <2>2. \A v \in try_reply(w, "ng", "unsupported") : v \in Wires
    BY <2>1, TryReplyType, Written, Zenon
  <2> QED
    BY <1>2, <2>1, <2>2, NodeMoves, Zenon DEF NodeRequest
<1>3. CASE NodeRejects
  <2>1. Take(wire, "gn") \in Wires
    BY <1>3, TakeType, Zenon DEF NodeRejects, Arrived
  <2> QED
    BY <1>3, <2>1, NodeMoves, Zenon DEF NodeRejects
<1>4. CASE ConnectTarget
  BY <1>4, Zenon DEF ConnectTarget, TypeOK, counts
<1>5. CASE ConnectTargetFails
  <2>1. \A code \in {"refused", "unreachable", "expired"} :
           \A v \in try_reply(wire, "ng", code) : v \in Wires
    BY TryReplyType, Written, Zenon
  <2> QED
    BY <1>5, <2>1, NodeMoves, Zenon DEF ConnectTargetFails
<1>6. CASE NodeSuccess
  <2>1. Put(wire, "ng", Frame("reply", "success")) \in Wires
    BY PutType, Written, Zenon
  <2> QED
    BY <1>6, <2>1, NodeMoves, Zenon DEF NodeSuccess
<1>7. CASE NodeCopies("up", "gn", "nt") \/ NodeCopies("down", "tn", "ng")
  BY <1>7, CopiesType, Zenon DEF NodeCopies, Hops, Directions
<1>8. CASE NodeRelayEnds
  <2>1. wire' \in Wires
    BY <1>8, CloseType, Zenon DEF NodeRelayEnds, NodeReturns
  <2>2. recorded' \in [Hops -> Counts \cup {NotCounted}]
    BY <1>8, Zenon DEF NodeRelayEnds, TypeOK, Hops
  <2> QED
    BY <1>8, <2>1, <2>2, SMTT(30) DEF NodeRelayEnds, NodeReturns, TypeOK, Wires
<1>9. CASE NodeFails
  BY <1>9, NodeMoves, Zenon DEF NodeFails
<1> QED
  BY <1>1, <1>2, <1>3, <1>4, <1>5, <1>6, <1>7, <1>8, <1>9, Zenon DEF NodeStep

(* The types hold at first.                                                *)
LEMMA TypeInit == Init => TypeOK
BY DEF Init, TypeOK, GatewayPc, NodePc, Counts, Directions, Hops

(* Every step keeps the types.                                             *)
LEMMA TypeStep == TypeOK /\ [Next]_vars => TypeOK'
<1> SUFFICES ASSUME TypeOK, [Next]_vars PROVE TypeOK'
  OBVIOUS
<1>1. CASE UNCHANGED vars
  BY <1>1, Zenon DEF vars, counts, TypeOK
<1>2. CASE Next
  <2>1. Len(answered) \in Nat
    BY DEF TypeOK
  <2> QED
    BY <1>2, <2>1, ClientType, TargetType, GatewayType, NodeType, Zenon DEF Next
<1> QED
  BY <1>1, <1>2, Zenon

(* Every frame on every stream is one that the protocol knows, and the     *)
(* counters stay counts, for sessions of any length.                       *)
THEOREM TypeCorrect == Spec => []TypeOK
BY TypeInit, TypeStep, PTL DEF Spec

-----------------------------------------------------------------------------
(* What a step of each handler may do to the streams, as far as the        *)
(* remaining properties go.                                                *)

Success == Frame("reply", "success")
Closed(s, t) == t = s \/ t = Append(s, Eof)
Shrinks(s, t) == t = s \/ (s # <<>> /\ t = Tail(s))

GatewayGivesUp == gpc' = "done" /\ npc' = npc /\ Closed(wire["gc"], wire'["gc"])

GatewayAnswers ==
    /\ gpc \in {"greeting", "credentials"}
    /\ gpc' \in {"credentials", "request", "done"} /\ npc' = npc
    /\ auth /\ gpc' = "request" => /\ wire["cg"] # <<>>
                                  /\ Head(wire["cg"]) = Frame("credentials", "good")
    /\ \E f \in Frames : /\ f.kind \in {"method", "status"}
                        /\ Closed(Append(wire["gc"], f), wire'["gc"])

GatewayDeclines ==
    /\ gpc \in {"request", "select"} /\ gpc' = "done" /\ npc' = npc
    /\ \E code \in {"unsupported", "unreachable"} :
          Closed(Append(wire["gc"], Frame("reply", code)), wire'["gc"])

GatewayGoesOn ==
    /\ \/ gpc = "request" /\ gpc' = "select" /\ npc' = npc
       \/ gpc = "select" /\ gpc' = "connect" /\ npc' = npc
       \/ gpc = "connect" /\ gpc' = "method" /\ npc' = "greeting"
       \/ gpc = "method" /\ gpc' = "reply" /\ npc' = npc
    /\ wire'["gc"] = wire["gc"]

GatewayHears ==
    /\ gpc = "reply" /\ gpc' = "success" /\ npc' = npc
    /\ wire["ng"] # <<>> /\ Head(wire["ng"]) = Success
    /\ wire'["ng"] = Tail(wire["ng"]) /\ wire'["gc"] = wire["gc"]

GatewaySucceeds ==
    /\ gpc = "success" /\ gpc' = "relay" /\ npc' = npc
    /\ wire'["gc"] = Append(wire["gc"], Success)

GatewayRelays ==
    /\ gpc = "relay" /\ gpc' = "relay" /\ npc' = npc
    /\ \/ Closed(wire["gc"], wire'["gc"])
       \/ wire["ng"] # <<>> /\ wire'["gc"] = Append(wire["gc"], Head(wire["ng"]))

GatewayDigest ==
    /\ UNCHANGED <<auth, target, sent>>
    /\ wire'["tn"] = wire["tn"]
    /\ Shrinks(wire["cg"], wire'["cg"]) /\ Shrinks(wire["ng"], wire'["ng"])
    /\ \/ GatewayGivesUp \/ GatewayAnswers \/ GatewayDeclines \/ GatewayGoesOn
       \/ GatewayHears \/ GatewaySucceeds \/ GatewayRelays

(* A gateway that returns closes its two sides.                            *)
LEMMA GatewayEndsDigest ==
    ASSUME NEW w \in Wires, GatewayReturns(w)
    PROVE  /\ gpc' = "done" /\ npc' = npc /\ UNCHANGED <<auth, target, sent>>
           /\ Closed(w["gc"], wire'["gc"])
           /\ \A r \in Streams \ {"gc", "gn"} : wire'[r] = w[r]
<1> USE DEF Streams
<1> DEFINE u == Close(w, "gc")
           v == Close(u, "gn")
<1>1. /\ u \in Wires /\ Closed(w["gc"], u["gc"])
      /\ \A r \in Streams \ {"gc"} : u[r] = w[r]
  BY CloseType, Zenon DEF Closed
<1>2. \A r \in Streams \ {"gn"} : v[r] = u[r]
  BY <1>1, CloseType
<1>3. wire' = u \/ wire' = v
  BY Zenon DEF GatewayReturns
<1> QED
  BY <1>1, <1>2, <1>3, Zenon DEF GatewayReturns

CopyStep(from, to) ==
    /\ wire'[from] = Tail(wire[from])
    /\ \/ Closed(wire[to], wire'[to])
       \/ wire'[to] = Append(wire[to], Head(wire[from]))
    /\ \A r \in Streams \ {from, to} : wire'[r] = wire[r]

(* A relayed frame leaves one stream and may reach the other.              *)
LEMMA CopyDigest ==
    ASSUME wire \in Wires, NEW from \in Streams, NEW to \in Streams, from # to,
           wire[from] # <<>>, wire' = Copied(from, to)
    PROVE  CopyStep(from, to)
<1> DEFINE w == Take(wire, from)
           f == Head(wire[from])
<1>1. /\ w \in Wires /\ f \in Frames /\ w[from] = Tail(wire[from])
      /\ \A r \in Streams \ {from} : w[r] = wire[r]
  BY TakeType, Zenon
<1> HIDE DEF w
<1>2. /\ Put(w, to, f)[to] = Append(w[to], f)
      /\ \A r \in Streams \ {to} : Put(w, to, f)[r] = w[r]
  BY <1>1, PutOnly, Zenon
<1>3. /\ Closed(w[to], Close(w, to)[to])
      /\ \A r \in Streams \ {to} : Close(w, to)[r] = w[r]
  BY <1>1, CloseType DEF Closed
<1>4. wire' = Put(w, to, f) \/ wire' = Close(w, to)
  BY Zenon DEF Copied, w
<1> QED
  BY <1>1, <1>2, <1>3, <1>4, Zenon DEF CopyStep

(* Every step of the gateway is summarised by its digest.                  *)
LEMMA GatewaySummary ==
    ASSUME TypeOK, GatewayStep
    PROVE  GatewayDigest
<1> wire \in Wires
  BY Zenon DEF TypeOK, Wires
<1> USE DEF Streams
<1>1. CASE read_greeting
  <2> DEFINE w == Take(wire, "cg")
             m == negotiate(Head(wire.cg), auth, ~auth)
             f == Frame("method", m)
             v == Put(w, "gc", f)
  <2>1. /\ w \in Wires /\ wire["cg"] # <<>> /\ w["cg"] = Tail(wire["cg"])
        /\ \A r \in Streams \ {"cg"} : w[r] = wire[r]
    BY <1>1, TakeType, Zenon DEF read_greeting, Arrived
  <2>2. m \in {"none", "pass", "unacceptable"} /\ (auth => m # "none")
    BY Zenon DEF negotiate
  <2>3. f \in Frames /\ f.kind = "method"
    BY <2>2, Written, Zenon DEF Frame
  <2>4. /\ v \in Wires /\ v["gc"] = Append(wire["gc"], f)
        /\ \A r \in Streams \ {"gc"} : v[r] = w[r]
    <3> HIDE DEF w, m, f
    <3>1. "gc" \in Streams \ {"cg"}
      OBVIOUS
    <3>2. /\ Put(w, "gc", f) \in Wires
          /\ \A r \in Streams : Put(w, "gc", f)[r] = IF r = "gc" THEN Append(w["gc"], f)
                                                     ELSE w[r]
      BY <2>1, <2>3, <3>1, PutType, Zenon
    <3> QED
      BY <2>1, <3>1, <3>2, Zenon
  <2>5. \/ gpc' = "done" /\ GatewayReturns(v)
        \/ gpc' \in {"credentials", "request"} /\ GatewayGoes(gpc', v)
           /\ (auth => gpc' = "credentials")
    BY <1>1, <2>2, Zenon DEF read_greeting, GatewayEnds, GatewayGoes, GatewayReturns
  <2>6. /\ Closed(v["gc"], wire'["gc"]) /\ npc' = npc
        /\ \A r \in Streams \ {"gc", "gn"} : wire'[r] = v[r]
        /\ UNCHANGED <<auth, target, sent>>
    BY <2>4, <2>5, GatewayEndsDigest, Zenon DEF GatewayGoes, Closed
  <2>7. GatewayAnswers
    BY <1>1, <2>3, <2>4, <2>5, <2>6, ZenonT(30) DEF GatewayAnswers, read_greeting
  <2> QED
    BY <2>1, <2>4, <2>6, <2>7, Zenon DEF GatewayDigest, Shrinks
<1>2. CASE handle_user_pass_auth
  <2> DEFINE w == Take(wire, "cg")
             good == Head(wire.cg).arg = "good"
             f == Frame("status", IF good THEN "success" ELSE "failure")
             v == Put(w, "gc", f)
  <2>1. /\ w \in Wires /\ wire["cg"] # <<>> /\ w["cg"] = Tail(wire["cg"])
        /\ \A r \in Streams \ {"cg"} : w[r] = wire[r]
        /\ Head(wire["cg"]) \in Frames
    BY <1>2, TakeType, Zenon DEF handle_user_pass_auth, Arrived
  <2>2. f \in Frames /\ f.kind = "status"
    BY Written, Zenon DEF Frame
  <2>3. /\ v \in Wires /\ v["gc"] = Append(wire["gc"], f)
        /\ \A r \in Streams \ {"gc"} : v[r] = w[r]
    <3> HIDE DEF w, good, f
    <3>1. "gc" \in Streams \ {"cg"}
      OBVIOUS
    <3>2. /\ Put(w, "gc", f) \in Wires
          /\ \A r \in Streams : Put(w, "gc", f)[r] = IF r = "gc" THEN Append(w["gc"], f)
                                                     ELSE w[r]
      BY <2>1, <2>2, <3>1, PutType
    <3> QED
      BY <2>1, <3>1, <3>2, Zenon
  <2>4. \/ gpc' = "done" /\ GatewayReturns(v)
        \/ gpc' = "request" /\ GatewayGoes(gpc', v) /\ good
    BY <1>2, Zenon DEF handle_user_pass_auth, GatewayEnds, GatewayGoes, GatewayReturns
  <2>5. good => Head(wire["cg"]) = Frame("credentials", "good")
    BY <1>2, <2>1, OnlyCredentials, SMTT(30) DEF handle_user_pass_auth, Parses
  <2>6. /\ Closed(v["gc"], wire'["gc"]) /\ npc' = npc
        /\ \A r \in Streams \ {"gc", "gn"} : wire'[r] = v[r]
        /\ UNCHANGED <<auth, target, sent>>
    BY <2>3, <2>4, GatewayEndsDigest, SMTT(30) DEF GatewayGoes, Closed
  <2>7. GatewayAnswers
    BY <1>2, <2>1, <2>2, <2>3, <2>4, <2>5, <2>6, Zenon
    DEF GatewayAnswers, handle_user_pass_auth
  <2> QED
    BY <2>1, <2>3, <2>6, <2>7, Zenon DEF GatewayDigest, Shrinks
<1>3. CASE read_request
  <2> DEFINE w == Take(wire, "cg")
  <2>1. /\ w \in Wires /\ wire["cg"] # <<>> /\ w["cg"] = Tail(wire["cg"])
        /\ \A r \in Streams \ {"cg"} : w[r] = wire[r]
    BY <1>3, TakeType, Zenon DEF read_request, Arrived
  <2>2. CASE GatewayGoes("select", w)
    BY <1>3, <2>1, <2>2, Zenon
    DEF read_request, GatewayGoes, GatewayDigest, GatewayGoesOn, Shrinks
  <2>3. CASE \E v \in try_reply(w, "gc", "unsupported") : GatewayEnds(v)
    <3>1. PICK v \in try_reply(w, "gc", "unsupported") : GatewayEnds(v)
      BY <2>3, Zenon
    <3>2. /\ v \in Wires /\ \A r \in Streams \ {"gc"} : v[r] = w[r]
          /\ \/ v["gc"] = w["gc"]
             \/ v["gc"] = Append(w["gc"], Frame("reply", "unsupported"))
      <4> HIDE DEF w
      <4> QED
        BY <2>1, TryReplyType, Written, SMTT(30)
    <3> QED
      BY <1>3, <2>1, <3>1, <3>2, GatewayEndsDigest, ZenonT(30)
      DEF read_request, GatewayEnds, GatewayDigest, GatewayGivesUp, GatewayDeclines,
          Shrinks
  <2> QED
    BY <1>3, <2>2, <2>3, Zenon DEF read_request
<1>4. CASE GatewayRejects
  <2> DEFINE w == Take(wire, "cg")
  <2>1. /\ w \in Wires /\ wire["cg"] # <<>> /\ w["cg"] = Tail(wire["cg"])
        /\ \A r \in Streams \ {"cg"} : w[r] = wire[r]
    BY <1>4, TakeType, Zenon DEF GatewayRejects, Arrived
  <2> QED
    BY <1>4, <2>1, GatewayEndsDigest, Zenon
    DEF GatewayRejects, GatewayEnds, GatewayDigest, GatewayGivesUp, Shrinks
<1>5. CASE select_node
  BY <1>5, Zenon DEF select_node, GatewayGoes, GatewayDigest, GatewayGoesOn, Shrinks
<1>6. CASE SelectFails
  <2>1. PICK v \in try_reply(wire, "gc", "unreachable") : GatewayEnds(v)
    BY <1>6, Zenon DEF SelectFails
  <2>2. /\ v \in Wires /\ \A r \in Streams \ {"gc"} : v[r] = wire[r]
        /\ \/ v["gc"] = wire["gc"]
           \/ v["gc"] = Append(wire["gc"], Frame("reply", "unreachable"))
    BY TryReplyType, Written, SMTT(30)
  <2> QED
    BY <1>6, <2>1, <2>2, GatewayEndsDigest, Zenon
    DEF SelectFails, GatewayEnds, GatewayDigest, GatewayGivesUp, GatewayDeclines,
        Shrinks
<1>7. CASE ConnectNode
  <2>1. \A r \in Streams \ {"gn"} : wire'[r] = wire[r]
    BY <1>7, PutOnly, Written, SMTT(30) DEF ConnectNode
  <2> QED
    BY <1>7, <2>1, Zenon DEF ConnectNode, GatewayDigest, GatewayGoesOn, Shrinks
<1>8. CASE ChainRequest
  <2> DEFINE w == Take(wire, "ng")
             v == Put(w, "gn", Frame("request", "connect"))
  <2>1. /\ w \in Wires /\ wire["ng"] # <<>> /\ w["ng"] = Tail(wire["ng"])
        /\ \A r \in Streams \ {"ng"} : w[r] = wire[r]
    BY <1>8, TakeType, Zenon DEF ChainRequest, Arrived
  <2>2. \A r \in Streams \ {"gn"} : v[r] = w[r]
    <3> HIDE DEF w
    <3> QED
      BY <2>1, PutOnly, Written, SMTT(30)
  <2>3. CASE GatewayGoes("reply", v)
    BY <1>8, <2>1, <2>2, <2>3, Zenon
    DEF ChainRequest, GatewayGoes, GatewayDigest, GatewayGoesOn, Shrinks
  <2>4. CASE GatewayEnds(w)
    BY <2>1, <2>4, GatewayEndsDigest, Zenon
    DEF GatewayEnds, GatewayDigest, GatewayGivesUp, Shrinks
  <2> QED
    BY <1>8, <2>3, <2>4, Zenon DEF ChainRequest
<1>9. CASE ChainReply
  <2> DEFINE w == Take(wire, "ng")
  <2>1. /\ w \in Wires /\ wire["ng"] # <<>> /\ w["ng"] = Tail(wire["ng"])
        /\ \A r \in Streams \ {"ng"} : w[r] = wire[r]
    BY <1>9, TakeType, Zenon DEF ChainReply, Arrived
  <2>2. CASE Head(wire.ng) = Frame("reply", "success") /\ GatewayGoes("success", w)
    BY <1>9, <2>1, <2>2, Zenon
    DEF ChainReply, GatewayGoes, GatewayDigest, GatewayHears, Shrinks, Success
  <2>3. CASE GatewayEnds(w)
    BY <2>1, <2>3, GatewayEndsDigest, Zenon
    DEF GatewayEnds, GatewayDigest, GatewayGivesUp, Shrinks
  <2> QED
    BY <1>9, <2>2, <2>3, Zenon DEF ChainReply
<1>10. CASE ReplySuccess
  <2>1. /\ wire'["gc"] = Append(wire["gc"], Success)
        /\ \A r \in Streams \ {"gc"} : wire'[r] = wire[r]
    BY <1>10, PutOnly, Written, SMTT(30) DEF ReplySuccess, GatewayGoes, Success
  <2> QED
    BY <1>10, <2>1, Zenon
    DEF ReplySuccess, GatewayGoes, GatewayDigest, GatewaySucceeds, Shrinks
<1>11. CASE GatewayCopies("up", "cg", "gn") \/ GatewayCopies("down", "ng", "gc")
  <2> PICK from, to : /\ <<from, to>> \in {<<"cg", "gn">>, <<"ng", "gc">>}
                      /\ gpc = "relay" /\ wire[from] # <<>>
                      /\ wire' = Copied(from, to)
                      /\ UNCHANGED <<auth, gpc, npc, target, sent>>
    BY <1>11 DEF GatewayCopies, Copies, Arrived
  <2>1. CopyStep(from, to)
    BY CopyDigest, Zenon
  <2> QED
    BY <2>1, Zenon DEF CopyStep, GatewayDigest, GatewayRelays, Shrinks, Closed
<1>12. CASE RelayEnds \/ GatewayFails
  <2>1. GatewayReturns(wire)
    BY <1>12, Zenon DEF RelayEnds, GatewayFails, GatewayEnds
  <2> QED
    BY <2>1, GatewayEndsDigest, Zenon DEF GatewayDigest, GatewayGivesUp, Shrinks
<1> QED
  BY <1>1, <1>2, <1>3, <1>4, <1>5, <1>6, <1>7, <1>8, <1>9, <1>10, <1>11, <1>12, Zenon
  DEF GatewayStep

NodeGivesUp == npc' = "done" /\ target' = target /\ Closed(wire["ng"], wire'["ng"])

NodeAnswers ==
    /\ npc = "greeting" /\ npc' \in {"request", "done"} /\ target' = target
    /\ \E f \in Frames : f.kind = "method" /\ Closed(Append(wire["ng"], f), wire'["ng"])

NodeDeclines ==
    /\ npc \in {"request", "connect"} /\ npc' = "done" /\ target' = target
    /\ \E code \in {"unsupported", "refused", "unreachable", "expired"} :
          Closed(Append(wire["ng"], Frame("reply", code)), wire'["ng"])

NodeGoesOn ==
    /\ \/ npc = "request" /\ npc' = "connect" /\ target' = target
       \/ npc = "connect" /\ npc' = "success" /\ target' = "connected"
    /\ wire'["ng"] = wire["ng"]

NodeSucceeds ==
    /\ npc = "success" /\ npc' = "relay" /\ target' = target
    /\ wire'["ng"] = Append(wire["ng"], Success)

NodeRelays ==
    /\ npc = "relay" /\ npc' = "relay" /\ target' = target
    /\ \/ Closed(wire["ng"], wire'["ng"])
       \/ wire["tn"] # <<>> /\ wire'["ng"] = Append(wire["ng"], Head(wire["tn"]))

NodeDigest ==
    /\ UNCHANGED <<auth, gpc, sent>>
    /\ npc # "off" /\ wire'["gc"] = wire["gc"] /\ wire'["cg"] = wire["cg"]
    /\ Shrinks(wire["tn"], wire'["tn"])
    /\ \/ NodeGivesUp \/ NodeAnswers \/ NodeDeclines \/ NodeGoesOn
       \/ NodeSucceeds \/ NodeRelays

(* A node that returns closes its two sides.                               *)
LEMMA NodeEndsDigest ==
    ASSUME NEW w \in Wires, NodeReturns(w)
    PROVE  /\ npc' = "done" /\ UNCHANGED <<auth, gpc, target, sent>>
           /\ Closed(w["ng"], wire'["ng"])
           /\ \A r \in Streams \ {"ng", "nt"} : wire'[r] = w[r]
<1> USE DEF Streams
<1> DEFINE u == Close(w, "ng")
           v == Close(u, "nt")
<1>1. /\ u \in Wires /\ Closed(w["ng"], u["ng"])
      /\ \A r \in Streams \ {"ng"} : u[r] = w[r]
  BY CloseType, Zenon DEF Closed
<1>2. \A r \in Streams \ {"nt"} : v[r] = u[r]
  BY <1>1, CloseType, Zenon
<1>3. wire' = u \/ wire' = v
  BY Zenon DEF NodeReturns
<1> QED
  BY <1>1, <1>2, <1>3, Zenon DEF NodeReturns

(* Every step of the node is summarised by its digest.                     *)
LEMMA NodeSummary ==
    ASSUME TypeOK, NodeStep
    PROVE  NodeDigest
<1> wire \in Wires
  BY Zenon DEF TypeOK, Wires
<1> USE DEF Streams
<1>1. CASE NodeGreeting
  <2> DEFINE w == Take(wire, "gn")
             m == negotiate(Head(wire.gn), FALSE, TRUE)
             f == Frame("method", m)
             v == Put(w, "ng", f)
  <2>1. w \in Wires /\ \A r \in Streams \ {"gn"} : w[r] = wire[r]
    BY <1>1, TakeType, Zenon DEF NodeGreeting, Arrived
  <2>2. m \in {"none", "pass", "unacceptable"}
    BY Zenon DEF negotiate
  <2>3. f \in Frames /\ f.kind = "method"
    BY <2>2, Written, Zenon DEF Frame
  <2>4. /\ v \in Wires /\ v["ng"] = Append(wire["ng"], f)
        /\ \A r \in Streams \ {"ng"} : v[r] = w[r]
    <3> HIDE DEF w, m, f
    <3>1. "ng" \in Streams \ {"gn"}
      OBVIOUS
    <3>2. v \in Wires
      BY <2>1, <2>3, <3>1, PutType, Zenon
    <3>3. /\ Put(w, "ng", f)["ng"] = Append(w["ng"], f)
          /\ \A r \in Streams \ {"ng"} : Put(w, "ng", f)[r] = w[r]
      BY <2>1, <2>3, <3>1, PutOnly, SMTT(30)
    <3> QED
      BY <2>1, <3>1, <3>2, <3>3, Zenon
  <2>5. \/ npc' = "done" /\ NodeReturns(v)
        \/ npc' = "request" /\ NodeGoes(npc', v)
    BY <1>1, Zenon DEF NodeGreeting, NodeEnds, NodeGoes, NodeReturns
  <2>6. /\ Closed(v["ng"], wire'["ng"]) /\ UNCHANGED <<auth, gpc, target, sent>>
        /\ \A r \in Streams \ {"ng", "nt"} : wire'[r] = v[r]
    BY <2>4, <2>5, NodeEndsDigest, Zenon DEF NodeGoes, Closed
  <2>7. NodeAnswers
    BY <1>1, <2>3, <2>4, <2>5, <2>6, Zenon DEF NodeAnswers, NodeGreeting
  <2> QED
    BY <1>1, <2>1, <2>4, <2>6, <2>7, Zenon DEF NodeDigest, NodeGreeting, Shrinks
<1>2. CASE NodeRequest
  <2> DEFINE w == Take(wire, "gn")
  <2>1. w \in Wires /\ \A r \in Streams \ {"gn"} : w[r] = wire[r]
    BY <1>2, TakeType, Zenon DEF NodeRequest, Arrived
  <2>2. CASE NodeGoes("connect", w)
    BY <1>2, <2>1, <2>2, Zenon DEF NodeRequest, NodeGoes, NodeDigest, NodeGoesOn, Shrinks
  <2>3. CASE \E v \in try_reply(w, "ng", "unsupported") : NodeEnds(v)
    <3>1. PICK v \in try_reply(w, "ng", "unsupported") : NodeEnds(v)
      BY <2>3, Zenon
    <3>2. /\ v \in Wires /\ \A r \in Streams \ {"ng"} : v[r] = w[r]
          /\ \/ v["ng"] = w["ng"]
             \/ v["ng"] = Append(w["ng"], Frame("reply", "unsupported"))
      <4> HIDE DEF w
      <4> QED
        BY <2>1, TryReplyType, Written, SMTT(30)
    <3> QED
      BY <1>2, <2>1, <3>1, <3>2, NodeEndsDigest, ZenonT(30)
      DEF NodeRequest, NodeEnds, NodeDigest, NodeGivesUp, NodeDeclines, Shrinks
  <2> QED
    BY <1>2, <2>2, <2>3, Zenon DEF NodeRequest
<1>3. CASE NodeRejects
  <2> DEFINE w == Take(wire, "gn")
  <2>1. w \in Wires /\ \A r \in Streams \ {"gn"} : w[r] = wire[r]
    BY <1>3, TakeType, Zenon DEF NodeRejects, Arrived
  <2> QED
    BY <1>3, <2>1, NodeEndsDigest, Zenon
    DEF NodeRejects, NodeEnds, NodeDigest, NodeGivesUp, Shrinks
<1>4. CASE ConnectTarget
  BY <1>4, Zenon DEF ConnectTarget, NodeDigest, NodeGoesOn, Shrinks
<1>5. CASE ConnectTargetFails
  <2>1. PICK code \in {"refused", "unreachable", "expired"} :
           \E v \in try_reply(wire, "ng", code) : NodeEnds(v)
    BY <1>5, Zenon DEF ConnectTargetFails
  <2>2. PICK v \in try_reply(wire, "ng", code) : NodeEnds(v)
    BY <2>1, Zenon
  <2>3. /\ v \in Wires /\ \A r \in Streams \ {"ng"} : v[r] = wire[r]
        /\ \/ v["ng"] = wire["ng"]
           \/ v["ng"] = Append(wire["ng"], Frame("reply", code))
    BY TryReplyType, Written, SMTT(30)
  <2> QED
    BY <1>5, <2>2, <2>3, NodeEndsDigest, Zenon
    DEF ConnectTargetFails, NodeEnds, NodeDigest, NodeGivesUp, NodeDeclines, Shrinks
<1>6. CASE NodeSuccess
  <2>1. /\ wire'["ng"] = Append(wire["ng"], Success)
        /\ \A r \in Streams \ {"ng"} : wire'[r] = wire[r]
    BY <1>6, PutOnly, Written, SMTT(30) DEF NodeSuccess, NodeGoes, Success
  <2> QED
    BY <1>6, <2>1, Zenon DEF NodeSuccess, NodeGoes, NodeDigest, NodeSucceeds, Shrinks
<1>7. CASE NodeCopies("up", "gn", "nt") \/ NodeCopies("down", "tn", "ng")
  <2> PICK from, to : /\ <<from, to>> \in {<<"gn", "nt">>, <<"tn", "ng">>}
                      /\ npc = "relay" /\ wire[from] # <<>>
                      /\ wire' = Copied(from, to)
                      /\ UNCHANGED <<auth, gpc, npc, target, sent>>
    BY <1>7 DEF NodeCopies, Copies, Arrived
  <2>1. CopyStep(from, to)
    BY CopyDigest, Zenon
  <2> QED
    BY <2>1, Zenon DEF CopyStep, NodeDigest, NodeRelays, Shrinks, Closed
<1>8. CASE NodeRelayEnds \/ NodeFails
  <2>1. NodeReturns(wire) /\ npc # "off"
    BY <1>8, Zenon DEF NodeRelayEnds, NodeFails, NodeEnds
  <2> QED
    BY <2>1, NodeEndsDigest, Zenon DEF NodeDigest, NodeGivesUp, Shrinks
<1> QED
  BY <1>1, <1>2, <1>3, <1>4, <1>5, <1>6, <1>7, <1>8, Zenon DEF NodeStep

EndsDigest ==
    /\ UNCHANGED <<auth, gpc, npc>>
    /\ \A r \in {"gc", "ng"} : wire'[r] = wire[r]
    /\ \/ /\ UNCHANGED <<target, sent>> /\ wire'["tn"] = wire["tn"]
          /\ wire'["cg"] = wire["cg"] \/ wire'["cg"] = Append(wire["cg"], Eof)
       \/ /\ UNCHANGED target /\ wire'["tn"] = wire["tn"]
          /\ \E f \in Frames : /\ sent' = Append(sent, f)
                              /\ wire'["cg"] = Append(wire["cg"], f)
       \/ /\ UNCHANGED sent /\ wire'["cg"] = wire["cg"]
          /\ target = "connected" /\ target' # "none"
          /\ \E f \in Frames : /\ f.kind \in {"data", "eof"}
                              /\ wire'["tn"] = Append(wire["tn"], f)

(* Every step of the client or the target is summarised by its digest.     *)
LEMMA EndsSummary ==
    ASSUME TypeOK, ClientSends \/ ClientCloses \/ TargetSends \/ TargetCloses
    PROVE  EndsDigest
<1> wire \in Wires
  BY Zenon DEF TypeOK, Wires
<1> USE DEF Streams
<1>1. CASE ClientSends
  <2>1. PICK f \in Frames : sent' = Append(sent, f) /\ wire' = Put(wire, "cg", f)
    BY <1>1, Zenon DEF ClientSends
  <2>2. /\ wire'["cg"] = Append(wire["cg"], f)
        /\ \A r \in Streams \ {"cg"} : wire'[r] = wire[r]
    BY <2>1, PutOnly, SMTT(30)
  <2> QED
    BY <1>1, <2>1, <2>2, Zenon DEF ClientSends, EndsDigest
<1>2. CASE ClientCloses
  <2>1. /\ wire'["cg"] = Append(wire["cg"], Eof)
        /\ \A r \in Streams \ {"cg"} : wire'[r] = wire[r]
    BY <1>2, PutOnly, Written, SMTT(30) DEF ClientCloses
  <2> QED
    BY <1>2, <2>1, Zenon DEF ClientCloses, EndsDigest
<1>3. CASE TargetSends
  <2> DEFINE f == Data(Len(answered) + 1)
  <2>1. f \in Frames /\ f.kind = "data"
    <3>1. Len(answered) \in Nat
      BY DEF TypeOK
    <3>2. f \in Frames
      BY <1>3, <3>1, Written, MaxDataAssumption DEF TargetSends
    <3> QED
      BY <3>2, Zenon DEF Data
  <2> HIDE DEF f
  <2>2. wire' = Put(wire, "tn", f)
    BY <1>3, Zenon DEF TargetSends, f
  <2>3. /\ wire'["tn"] = Append(wire["tn"], f)
        /\ \A r \in Streams \ {"tn"} : wire'[r] = wire[r]
    BY <2>1, <2>2, PutOnly, SMTT(30)
  <2> QED
    BY <1>3, <2>1, <2>3, Zenon DEF TargetSends, EndsDigest
<1>4. CASE TargetCloses
  <2>1. /\ wire'["tn"] = Append(wire["tn"], Eof)
        /\ \A r \in Streams \ {"tn"} : wire'[r] = wire[r]
    BY <1>4, PutOnly, Written, SMTT(30) DEF TargetCloses
  <2>2. Eof \in Frames /\ Eof.kind = "eof"
    BY Written, Zenon DEF Eof, Frame
  <2> QED
    BY <1>4, <2>1, <2>2, Zenon DEF TargetCloses, EndsDigest
<1> QED
  BY <1>1, <1>2, <1>3, <1>4, Zenon

(* Every step is one of the three, or changes none of what they speak of.  *)
LEMMA StepDigest ==
    ASSUME TypeOK, [Next]_vars
    PROVE  GatewayDigest \/ NodeDigest \/ EndsDigest
<1>1. CASE UNCHANGED vars
  BY <1>1, Zenon DEF vars, EndsDigest
<1>2. CASE Next
  BY <1>2, GatewaySummary, NodeSummary, EndsSummary, Zenon DEF Next
<1> QED
  BY <1>1, <1>2, Zenon

-----------------------------------------------------------------------------
(* What a stream holds.                                                    *)

(* What is on a stream after a write.                                      *)
LEMMA HoldsAppend ==
    ASSUME NEW s \in Seq(Frames), NEW f \in Frames, NEW g
    PROVE  Holds(Append(s, f), g) <=> Holds(s, g) \/ g = f
<1>1. /\ DOMAIN s = 1 .. Len(s) /\ DOMAIN Append(s, f) = 1 .. Len(s) + 1
      /\ Len(s) \in Nat
      /\ \A i \in 1 .. Len(s) : Append(s, f)[i] = s[i]
      /\ Append(s, f)[Len(s) + 1] = f
  OBVIOUS
<1> QED
  BY <1>1 DEF Holds

(* What is on a stream after its end is written.                           *)
LEMMA HoldsClosed ==
    ASSUME NEW s \in Seq(Frames), NEW t, Closed(s, t), NEW g
    PROVE  /\ Holds(t, g) => Holds(s, g) \/ g = Eof
           /\ Holds(s, g) => Holds(t, g)
<1>1. Eof \in Frames
  BY Written, Zenon
<1>2. Holds(Append(s, Eof), g) <=> Holds(s, g) \/ g = Eof
  BY <1>1, HoldsAppend, Zenon
<1> QED
  BY <1>2, Zenon DEF Closed

(* Reading adds nothing to a stream.                                       *)
LEMMA HoldsShrinks ==
    ASSUME NEW s \in Seq(Frames), NEW t, Shrinks(s, t), NEW g, Holds(t, g)
    PROVE  Holds(s, g)
<1>1. CASE t = s
  BY <1>1, Zenon
<1>2. CASE s # <<>> /\ t = Tail(s)
  <2>1. /\ DOMAIN s = 1 .. Len(s) /\ DOMAIN t = 1 .. Len(s) - 1 /\ Len(s) \in Nat
        /\ \A i \in 1 .. Len(s) - 1 : t[i] = s[i + 1]
    BY <1>2
  <2>2. PICK i \in 1 .. Len(s) - 1 : t[i] = g
    BY <2>1, Zenon DEF Holds
  <2>3. i + 1 \in DOMAIN s /\ s[i + 1] = g
    BY <2>1, <2>2
  <2> QED
    BY <2>3, Zenon DEF Holds
<1> QED
  BY <1>1, <1>2, Zenon DEF Shrinks

(* The first frame of a stream is on it.                                   *)
LEMMA HoldsHead ==
    ASSUME NEW s \in Seq(Frames), s # <<>>
    PROVE  Holds(s, Head(s)) /\ Head(s) \in Frames
<1>1. 1 \in DOMAIN s /\ Head(s) = s[1] /\ s[1] \in Frames
  OBVIOUS
<1> QED
  BY <1>1, Zenon DEF Holds

(* The kinds of the replies and of the end.                                *)
LEMMA Kinds ==
    /\ Success \in Frames /\ Success.kind = "reply" /\ Eof.kind = "eof"
    /\ \A code \in {"unsupported", "unreachable", "refused", "expired"} :
          /\ Frame("reply", code) \in Frames /\ Frame("reply", code) # Success
          /\ Frame("reply", code).kind = "reply"
<1>1. \A k, a : Frame(k, a).kind = k /\ Frame(k, a).arg = a
  BY Zenon DEF Frame
<1>2. Success.arg = "success"
  BY <1>1, Zenon DEF Success
<1>3. \A code \in {"unsupported", "unreachable", "refused", "expired"} :
         Frame("reply", code) # Success
  BY <1>1, <1>2
<1>4. Success \in Frames
  BY Written, Zenon DEF Success
<1> QED
  BY <1>1, <1>3, <1>4, Written, Zenon DEF Success, Eof

(* Streams are sequences of frames.                                        *)
LEMMA StreamTypes ==
    ASSUME TypeOK
    PROVE  \A r \in {"cg", "gc", "ng", "tn"} : wire[r] \in Seq(Frames)
BY Zenon DEF TypeOK, Streams

-----------------------------------------------------------------------------
(* A success means a connected target.  The invariant says that without a  *)
(* target no process has reached the success and no stream holds it.       *)

Connected ==
    target = "none" =>
        /\ gpc \notin {"success", "relay"} /\ npc \notin {"success", "relay"}
        /\ ~Holds(wire["ng"], Success) /\ ~Holds(wire["gc"], Success)

(* The gateway keeps the invariant.                                        *)
LEMMA ConnectedGateway ==
    ASSUME TypeOK, Connected, GatewayDigest
    PROVE  Connected'
<1> SUFFICES ASSUME target' = "none"
             PROVE  /\ gpc' \notin {"success", "relay"} /\ npc' \notin {"success", "relay"}
                    /\ ~Holds(wire'["ng"], Success) /\ ~Holds(wire'["gc"], Success)
  BY Zenon DEF Connected
<1> DEFINE gc == wire["gc"]
           ng == wire["ng"]
<1>1. /\ target = "none" /\ gpc \notin {"success", "relay"}
      /\ npc \notin {"success", "relay"} /\ ~Holds(ng, Success) /\ ~Holds(gc, Success)
  BY Zenon DEF Connected, GatewayDigest
<1>2. gc \in Seq(Frames) /\ ng \in Seq(Frames)
  BY StreamTypes, Zenon
<1>3. ~Holds(wire'["ng"], Success)
  BY <1>1, <1>2, HoldsShrinks, Zenon DEF GatewayDigest
<1>4. Success # Eof
  BY Kinds, Zenon
<1>5. CASE GatewayGivesUp
  BY <1>1, <1>2, <1>3, <1>4, <1>5, HoldsClosed, Zenon DEF GatewayGivesUp
<1>6. CASE GatewayAnswers
  <2>1. PICK f \in Frames : /\ f.kind \in {"method", "status"}
                           /\ Closed(Append(gc, f), wire'["gc"])
    BY <1>6, Zenon DEF GatewayAnswers
  <2>2. ~Holds(Append(gc, f), Success) /\ Append(gc, f) \in Seq(Frames)
    BY <1>1, <1>2, <2>1, HoldsAppend, Kinds
  <2> QED
    BY <1>1, <1>3, <1>4, <1>6, <2>1, <2>2, HoldsClosed, Zenon DEF GatewayAnswers
<1>7. CASE GatewayDeclines
  <2>1. PICK code \in {"unsupported", "unreachable"} :
            Closed(Append(gc, Frame("reply", code)), wire'["gc"])
    BY <1>7, Zenon DEF GatewayDeclines
  <2> DEFINE f == Frame("reply", code)
  <2>2. f \in Frames /\ f # Success
    BY Kinds, Zenon
  <2> HIDE DEF f
  <2>3. ~Holds(Append(gc, f), Success) /\ Append(gc, f) \in Seq(Frames)
    BY <1>1, <1>2, <2>2, HoldsAppend
  <2>4. Closed(Append(gc, f), wire'["gc"])
    BY <2>1, Zenon DEF f
  <2> QED
    BY <1>1, <1>3, <1>4, <1>7, <2>3, <2>4, HoldsClosed, Zenon DEF GatewayDeclines
<1>8. CASE GatewayGoesOn
  BY <1>1, <1>3, <1>8, Zenon DEF GatewayGoesOn
<1>9. ~GatewayHears
  BY <1>1, <1>2, HoldsHead, Zenon DEF GatewayHears
<1>10. ~GatewaySucceeds /\ ~GatewayRelays
  BY <1>1, Zenon DEF GatewaySucceeds, GatewayRelays
<1> QED
  BY <1>5, <1>6, <1>7, <1>8, <1>9, <1>10, Zenon DEF GatewayDigest

(* The node keeps it: it connects before it reports success.               *)
LEMMA ConnectedNode ==
    ASSUME TypeOK, Connected, NodeDigest
    PROVE  Connected'
<1> SUFFICES ASSUME target' = "none"
             PROVE  /\ gpc' \notin {"success", "relay"} /\ npc' \notin {"success", "relay"}
                    /\ ~Holds(wire'["ng"], Success) /\ ~Holds(wire'["gc"], Success)
  BY Zenon DEF Connected
<1> DEFINE ng == wire["ng"]
<1>1. target = "none"
  BY Zenon DEF NodeDigest, NodeGivesUp, NodeAnswers, NodeDeclines, NodeGoesOn,
         NodeSucceeds, NodeRelays
<1>2. /\ gpc' \notin {"success", "relay"} /\ npc \notin {"success", "relay"}
      /\ ~Holds(ng, Success) /\ ~Holds(wire'["gc"], Success)
  BY <1>1, Zenon DEF Connected, NodeDigest
<1>3. ng \in Seq(Frames)
  BY StreamTypes, Zenon
<1>4. Success # Eof
  BY Kinds, Zenon
<1>5. CASE NodeGivesUp
  BY <1>2, <1>3, <1>4, <1>5, HoldsClosed, Zenon DEF NodeGivesUp
<1>6. CASE NodeAnswers
  <2>1. PICK f \in Frames : /\ f.kind = "method"
                           /\ Closed(Append(ng, f), wire'["ng"])
    BY <1>6, Zenon DEF NodeAnswers
  <2>2. ~Holds(Append(ng, f), Success) /\ Append(ng, f) \in Seq(Frames)
    BY <1>2, <1>3, <2>1, HoldsAppend, Kinds
  <2> QED
    BY <1>2, <1>4, <1>6, <2>1, <2>2, HoldsClosed, Zenon DEF NodeAnswers
<1>7. CASE NodeDeclines
  <2>1. PICK code \in {"unsupported", "refused", "unreachable", "expired"} :
            Closed(Append(ng, Frame("reply", code)), wire'["ng"])
    BY <1>7, Zenon DEF NodeDeclines
  <2> DEFINE f == Frame("reply", code)
  <2>2. f \in Frames /\ f # Success
    BY Kinds, Zenon
  <2> HIDE DEF f
  <2>3. ~Holds(Append(ng, f), Success) /\ Append(ng, f) \in Seq(Frames)
    BY <1>2, <1>3, <2>2, HoldsAppend
  <2>4. Closed(Append(ng, f), wire'["ng"])
    BY <2>1, Zenon DEF f
  <2> QED
    BY <1>2, <1>4, <1>7, <2>3, <2>4, HoldsClosed, Zenon DEF NodeDeclines
<1>8. CASE NodeGoesOn
  BY <1>2, <1>8, Zenon DEF NodeGoesOn
<1>9. ~NodeSucceeds /\ ~NodeRelays
  BY <1>2, Zenon DEF NodeSucceeds, NodeRelays
<1> QED
  BY <1>5, <1>6, <1>7, <1>8, <1>9, Zenon DEF NodeDigest

(* The client and the target keep it.                                      *)
LEMMA ConnectedEnds ==
    ASSUME Connected, EndsDigest
    PROVE  Connected'
BY Zenon DEF Connected, EndsDigest

(* A client that is told "success" has a connected target, for sessions of *)
(* any length (run_with_ctx step 6 after connect_and_chain).               *)
THEOREM SuccessIsReal == Spec => []SuccessMeansConnected
<1>1. Init => Connected
  BY DEF Init, Connected, Holds, Streams
<1>2. TypeOK /\ Connected /\ [Next]_vars => Connected'
  BY StepDigest, ConnectedGateway, ConnectedNode, ConnectedEnds, Zenon
<1>3. Connected => SuccessMeansConnected
  BY Zenon DEF Connected, SuccessMeansConnected, Success
<1> QED
  BY <1>1, <1>2, <1>3, TypeCorrect, PTL DEF Spec

-----------------------------------------------------------------------------
(* Credentials come first: what the gateway reads, the client has sent.    *)

Asked ==
    /\ \A f \in Frames : Holds(wire["cg"], f) => f = Eof \/ Holds(sent, f)
    /\ CredentialsFirst
    /\ gpc \in {"greeting", "credentials"} => npc = "off"

(* The gateway keeps the invariant.                                        *)
LEMMA AskedGateway ==
    ASSUME TypeOK, Asked, GatewayDigest
    PROVE  Asked'
<1> DEFINE good == Frame("credentials", "good")
<1>1. wire["cg"] \in Seq(Frames) /\ sent' = sent /\ auth' = auth
  BY StreamTypes, Zenon DEF GatewayDigest
<1>2. \A f \in Frames : Holds(wire'["cg"], f) => f = Eof \/ Holds(sent', f)
  BY <1>1, HoldsShrinks, Zenon DEF Asked, GatewayDigest
<1>3. good \in Frames /\ good # Eof
  <2>1. good \in Frames
    BY Zenon DEF Frames
  <2> QED
    BY <2>1, Kinds DEF Frame
<1>4. CredentialsFirst' /\ (gpc' \in {"greeting", "credentials"} => npc' = "off")
  <2>1. CASE GatewayAnswers /\ auth /\ gpc' = "request"
    <3>1. Holds(wire["cg"], good)
      BY <1>1, <2>1, HoldsHead, Zenon DEF GatewayAnswers
    <3>2. Holds(sent', good)
      BY <1>1, <1>3, <3>1, Zenon DEF Asked
    <3> QED
      BY <2>1, <3>2, Zenon DEF CredentialsFirst
  <2>2. CASE GatewayAnswers /\ ~(auth /\ gpc' = "request")
    BY <1>1, <2>2, Zenon DEF Asked, CredentialsFirst, GatewayAnswers
  <2>3. CASE GatewayGivesUp
    BY <1>1, <2>3, Zenon DEF Asked, CredentialsFirst, GatewayGivesUp
  <2>4. CASE GatewayDeclines \/ GatewayGoesOn
    BY <1>1, <2>4, Zenon DEF Asked, CredentialsFirst, GatewayDeclines, GatewayGoesOn
  <2>5. CASE GatewayHears \/ GatewaySucceeds \/ GatewayRelays
    BY <1>1, <2>5, Zenon
    DEF Asked, CredentialsFirst, GatewayHears, GatewaySucceeds, GatewayRelays
  <2> QED
    BY <2>1, <2>2, <2>3, <2>4, <2>5, Zenon DEF GatewayDigest
<1> QED
  BY <1>2, <1>4, Zenon DEF Asked

(* The node keeps it.                                                      *)
LEMMA AskedNode ==
    ASSUME Asked, NodeDigest
    PROVE  Asked'
<1>1. /\ UNCHANGED <<auth, gpc, sent>> /\ npc # "off"
      /\ wire'["cg"] = wire["cg"]
  BY Zenon DEF NodeDigest
<1> QED
  BY <1>1, Zenon DEF Asked, CredentialsFirst

(* The client and the target keep it.                                      *)
LEMMA AskedEnds ==
    ASSUME TypeOK, Asked, EndsDigest
    PROVE  Asked'
<1>1. wire["cg"] \in Seq(Frames) /\ sent \in Seq(Frames)
  BY StreamTypes, Zenon DEF TypeOK
<1>2. UNCHANGED <<auth, gpc, npc>>
  BY Zenon DEF EndsDigest
<1>3. CASE sent' = sent
  <2>1. \A f : Holds(wire'["cg"], f) => f = Eof \/ Holds(wire["cg"], f)
    <3>1. \/ wire'["cg"] = wire["cg"] \/ wire'["cg"] = Append(wire["cg"], Eof)
          \/ \E f \in Frames : sent' = Append(sent, f)
      BY Zenon DEF EndsDigest
    <3>2. \A f \in Frames : Append(sent, f) # sent
      BY <1>1
    <3>3. Closed(wire["cg"], wire'["cg"])
      BY <1>3, <3>1, <3>2, Zenon DEF Closed
    <3> QED
      BY <1>1, <3>3, HoldsClosed, Zenon
  <2> QED
    BY <1>2, <1>3, <2>1, Zenon DEF Asked, CredentialsFirst
<1>4. CASE \E f \in Frames : /\ sent' = Append(sent, f)
                            /\ wire'["cg"] = Append(wire["cg"], f)
  <2>1. PICK f \in Frames : /\ sent' = Append(sent, f)
                           /\ wire'["cg"] = Append(wire["cg"], f)
    BY <1>4, Zenon
  <2>2. \A g : /\ Holds(wire'["cg"], g) => Holds(wire["cg"], g) \/ g = f
               /\ Holds(sent', g) <=> Holds(sent, g) \/ g = f
    BY <1>1, <2>1, HoldsAppend, Zenon
  <2> QED
    BY <1>2, <2>2, Zenon DEF Asked, CredentialsFirst
<1> QED
  BY <1>3, <1>4, Zenon DEF EndsDigest

(* With a user name and password configured, neither the control plane nor *)
(* a node hears of a client that has not sent them (handle_user_pass_auth  *)
(* before read_request).                                                   *)
THEOREM CredentialsComeFirst == Spec => []CredentialsFirst
<1>1. Init => Asked
  BY Zenon DEF Init, Asked, CredentialsFirst, Holds, Streams
<1>2. TypeOK /\ Asked /\ [Next]_vars => Asked'
  BY StepDigest, AskedGateway, AskedNode, AskedEnds, Zenon
<1>3. Asked => CredentialsFirst
  BY SMTT(30) DEF Asked
<1> QED
  BY <1>1, <1>2, <1>3, TypeCorrect, PTL DEF Spec

-----------------------------------------------------------------------------
(* One reply, and data only after it.                                      *)

No(kind, s) == \A i \in DOMAIN s : s[i].kind # kind
Single(s) == \A i, j \in DOMAIN s : s[i].kind = "reply" /\ s[j].kind = "reply" => i = j
DataAfter(s) == \A j \in DOMAIN s :
                    s[j].kind = "data" => \E k \in 1 .. j : s[k] = Success

(* The kinds of frames on a stream after a write.                          *)
LEMMA AppendKinds ==
    ASSUME NEW s \in Seq(Frames), NEW f \in Frames
    PROVE  /\ Append(s, f) \in Seq(Frames)
           /\ \A kind : No(kind, s) /\ f.kind # kind => No(kind, Append(s, f))
           /\ Single(s) /\ (f.kind # "reply" \/ No("reply", s)) => Single(Append(s, f))
           /\ DataAfter(s) /\ (f.kind # "data" \/ Holds(s, Success))
                 => DataAfter(Append(s, f))
<1> DEFINE t == Append(s, f)
<1>1. /\ DOMAIN s = 1 .. Len(s) /\ DOMAIN t = 1 .. Len(s) + 1 /\ Len(s) \in Nat
      /\ \A i \in 1 .. Len(s) : t[i] = s[i]
      /\ t[Len(s) + 1] = f /\ t \in Seq(Frames)
  OBVIOUS
<1> HIDE DEF t
<1>2. \A kind : No(kind, s) /\ f.kind # kind => No(kind, t)
  BY <1>1 DEF No
<1>3. Single(s) /\ (f.kind # "reply" \/ No("reply", s)) => Single(t)
  BY <1>1 DEF Single, No
<1>4. ASSUME DataAfter(s), f.kind # "data" \/ Holds(s, Success)
      PROVE  DataAfter(t)
  <2> SUFFICES ASSUME NEW j \in 1 .. Len(s) + 1, t[j].kind = "data"
               PROVE  \E k \in 1 .. j : t[k] = Success
    BY <1>1, Zenon DEF DataAfter
  <2>1. CASE j \in 1 .. Len(s)
    <3>1. PICK k \in 1 .. j : s[k] = Success
      BY <1>1, <1>4, <2>1, Zenon DEF DataAfter
    <3> QED
      BY <1>1, <2>1, <3>1
  <2>2. CASE j = Len(s) + 1
    <3>1. PICK k \in 1 .. Len(s) : s[k] = Success
      BY <1>1, <1>4, <2>2, Zenon DEF Holds
    <3> QED
      BY <1>1, <2>2, <3>1
  <2> QED
    BY <1>1, <2>1, <2>2
<1> QED
  BY <1>1, <1>2, <1>3, <1>4, Zenon DEF t

(* The kinds of frames on a stream after its end is written.               *)
LEMMA ClosedKinds ==
    ASSUME NEW s \in Seq(Frames), NEW t, Closed(s, t)
    PROVE  /\ t \in Seq(Frames)
           /\ \A kind : No(kind, s) /\ kind # "eof" => No(kind, t)
           /\ Single(s) => Single(t)
           /\ DataAfter(s) => DataAfter(t)
<1>1. Eof \in Frames /\ Eof.kind = "eof"
  BY Written, Kinds, Zenon
<1> DEFINE u == Append(s, Eof)
<1>2. /\ u \in Seq(Frames)
      /\ \A kind : No(kind, s) /\ Eof.kind # kind => No(kind, u)
      /\ Single(s) /\ (Eof.kind # "reply" \/ No("reply", s)) => Single(u)
      /\ DataAfter(s) /\ (Eof.kind # "data" \/ Holds(s, Success)) => DataAfter(u)
  BY <1>1, AppendKinds, Zenon
<1> HIDE DEF u
<1>3. t = s \/ t = u
  BY Zenon DEF Closed, u
<1> QED
  BY <1>1, <1>2, <1>3, Zenon

(* The kinds of frames on a stream after a read.                           *)
LEMMA ShrinksKinds ==
    ASSUME NEW s \in Seq(Frames), NEW t, Shrinks(s, t)
    PROVE  /\ \A kind : No(kind, s) => No(kind, t)
           /\ Single(s) => Single(t)
<1>1. CASE t = s
  BY <1>1, Zenon
<1>2. CASE s # <<>> /\ t = Tail(s)
  <2>1. /\ DOMAIN s = 1 .. Len(s) /\ DOMAIN t = 1 .. Len(s) - 1 /\ Len(s) \in Nat
        /\ \A i \in 1 .. Len(s) - 1 : t[i] = s[i + 1]
    BY <1>2
  <2>2. \A i \in DOMAIN t : i + 1 \in DOMAIN s /\ t[i] = s[i + 1] /\ i \in Int
    BY <2>1
  <2>3. \A kind : No(kind, s) => No(kind, t)
    BY <2>2, Zenon DEF No
  <2>4. ASSUME Single(s), NEW i \in DOMAIN t, NEW j \in DOMAIN t,
               t[i].kind = "reply", t[j].kind = "reply"
        PROVE  i = j
    <3>1. i + 1 = j + 1
      BY <2>2, <2>4, Zenon DEF Single
    <3> QED
      BY <2>2, <3>1
  <2> QED
    BY <2>3, <2>4, Zenon DEF Single
<1> QED
  BY <1>1, <1>2, Zenon DEF Shrinks

(* Once the only reply is read, none is left.                              *)
LEMMA ReplyTaken ==
    ASSUME NEW s \in Seq(Frames), s # <<>>, Single(s), Head(s).kind = "reply"
    PROVE  No("reply", Tail(s)) /\ ~No("reply", s)
<1> DEFINE t == Tail(s)
<1>1. /\ DOMAIN s = 1 .. Len(s) /\ DOMAIN t = 1 .. Len(s) - 1 /\ Len(s) \in Nat
      /\ \A i \in 1 .. Len(s) - 1 : t[i] = s[i + 1]
      /\ 1 \in DOMAIN s /\ s[1] = Head(s)
  OBVIOUS
<1> HIDE DEF t
<1>2. \A i \in DOMAIN t : i + 1 \in DOMAIN s /\ t[i] = s[i + 1] /\ i + 1 # 1
  BY <1>1
<1>3. No("reply", t)
  BY <1>1, <1>2, Zenon DEF Single, No
<1> QED
  BY <1>1, <1>3, Zenon DEF No, t

(* The invariant has a part on each hop.  A node is silent until it has    *)
(* relayed or ended, and answers once; a gateway that has read the success *)
(* finds no second reply to relay; and until then the client has none.     *)
NodeAnswered ==
    /\ gpc \in {"greeting", "credentials", "request", "select", "connect"} => npc = "off"
    /\ npc \notin {"relay", "done"} => No("reply", wire["ng"])
    /\ gpc \in {"success", "relay"} => No("reply", wire["ng"]) /\ npc \in {"relay", "done"}
    /\ Single(wire["ng"]) /\ No("reply", wire["tn"])

ClientAnswered ==
    /\ gpc \notin {"relay", "done"} => No("reply", wire["gc"]) /\ No("data", wire["gc"])
    /\ gpc = "relay" => Holds(wire["gc"], Success)
    /\ Single(wire["gc"]) /\ DataAfter(wire["gc"])

(* The gateway keeps the invariant of the node's stream.                   *)
LEMMA NodeAnsweredGateway ==
    ASSUME TypeOK, NodeAnswered, GatewayDigest
    PROVE  NodeAnswered'
<1>1. wire["ng"] \in Seq(Frames) /\ Shrinks(wire["ng"], wire'["ng"])
  BY StreamTypes, Zenon DEF GatewayDigest
<1>2. /\ No("reply", wire["ng"]) => No("reply", wire'["ng"])
      /\ Single(wire'["ng"]) /\ No("reply", wire'["tn"])
  BY <1>1, ShrinksKinds, Zenon DEF NodeAnswered, GatewayDigest
<1>3. CASE GatewayHears
  <2>1. No("reply", wire'["ng"]) /\ ~No("reply", wire["ng"])
    BY <1>1, <1>3, ReplyTaken, Kinds, Zenon DEF GatewayHears, NodeAnswered
  <2> QED
    BY <1>2, <1>3, <2>1, Zenon DEF GatewayHears, NodeAnswered
<1>4. CASE GatewayGoesOn
  BY <1>2, <1>4, Zenon DEF GatewayGoesOn, NodeAnswered
<1>5. CASE GatewayGivesUp \/ GatewayAnswers \/ GatewayDeclines
  BY <1>2, <1>5, SMTT(30) DEF GatewayGivesUp, GatewayAnswers, GatewayDeclines, NodeAnswered
<1>6. CASE GatewaySucceeds \/ GatewayRelays
  BY <1>2, <1>6, Zenon DEF GatewaySucceeds, GatewayRelays, NodeAnswered
<1> QED
  BY <1>3, <1>4, <1>5, <1>6, Zenon DEF GatewayDigest

(* The node keeps it: it replies once, then relays or returns.             *)
LEMMA NodeAnsweredNode ==
    ASSUME TypeOK, NodeAnswered, NodeDigest
    PROVE  NodeAnswered'
<1> DEFINE ng == wire["ng"]
           tn == wire["tn"]
           kept == /\ Single(wire'["ng"])
                   /\ No("reply", ng) => No("reply", wire'["ng"])
<1>1. ng \in Seq(Frames) /\ tn \in Seq(Frames)
  BY StreamTypes, SMTT(30)
<1>2. /\ gpc' = gpc /\ npc # "off" /\ npc' # "off" /\ No("reply", wire'["tn"])
      /\ gpc \notin {"greeting", "credentials", "request", "select", "connect"}
  BY <1>1, ShrinksKinds, SMTT(30)
  DEF NodeDigest, NodeAnswered, NodeGivesUp, NodeAnswers, NodeDeclines, NodeGoesOn,
      NodeSucceeds, NodeRelays
<1>3. CASE NodeGivesUp
  <2>1. kept
    BY <1>1, <1>3, ClosedKinds, Zenon DEF NodeGivesUp, NodeAnswered
  <2> QED
    BY <1>2, <1>3, <2>1, SMTT(30) DEF NodeGivesUp, NodeAnswered
<1>4. CASE NodeAnswers
  <2>1. PICK f \in Frames : f.kind = "method" /\ Closed(Append(ng, f), wire'["ng"])
    BY <1>4, Zenon DEF NodeAnswers
  <2>2. /\ Append(ng, f) \in Seq(Frames) /\ Single(Append(ng, f))
        /\ No("reply", ng) => No("reply", Append(ng, f))
    BY <1>1, <2>1, AppendKinds, SMTT(30) DEF NodeAnswered
  <2>3. kept
    BY <2>1, <2>2, ClosedKinds, Zenon
  <2> QED
    BY <1>2, <1>4, <2>3, Zenon DEF NodeAnswers, NodeAnswered
<1>5. CASE NodeDeclines
  <2>1. PICK code \in {"unsupported", "refused", "unreachable", "expired"} :
            Closed(Append(ng, Frame("reply", code)), wire'["ng"])
    BY <1>5, Zenon DEF NodeDeclines
  <2> DEFINE f == Frame("reply", code)
  <2>2. f \in Frames /\ Closed(Append(ng, f), wire'["ng"])
    BY <2>1, Kinds, Zenon
  <2> HIDE DEF f
  <2>3. npc \notin {"relay", "done"} /\ No("reply", ng)
    BY <1>5, Zenon DEF NodeDeclines, NodeAnswered
  <2>4. Append(ng, f) \in Seq(Frames) /\ Single(Append(ng, f))
    BY <1>1, <2>2, <2>3, AppendKinds, Zenon DEF NodeAnswered
  <2>5. Single(wire'["ng"])
    BY <2>2, <2>4, ClosedKinds, Zenon
  <2> QED
    BY <1>2, <1>5, <2>3, <2>5, Zenon DEF NodeDeclines, NodeAnswered
<1>6. CASE NodeGoesOn
  BY <1>2, <1>6, Zenon DEF NodeGoesOn, NodeAnswered
<1>7. CASE NodeSucceeds
  <2>1. No("reply", ng)
    BY <1>7, Zenon DEF NodeSucceeds, NodeAnswered
  <2>2. Single(wire'["ng"])
    BY <1>1, <1>7, <2>1, AppendKinds, Kinds, Zenon DEF NodeSucceeds, NodeAnswered
  <2> QED
    BY <1>2, <1>7, <2>2, Zenon DEF NodeSucceeds, NodeAnswered
<1>8. CASE NodeRelays
  <2>1. CASE Closed(ng, wire'["ng"])
    BY <1>1, <2>1, ClosedKinds, <1>2, <1>8, SMTT(30) DEF NodeRelays, NodeAnswered
  <2>2. CASE tn # <<>> /\ wire'["ng"] = Append(ng, Head(tn))
    <3>1. Head(tn) \in Frames /\ Head(tn).kind # "reply"
      <4>1. 1 \in DOMAIN tn /\ Head(tn) = tn[1] /\ tn[1] \in Frames
        BY <1>1, <2>2, SMTT(30)
      <4> QED
        BY <4>1, Zenon DEF NodeAnswered, No
    <3>2. kept
      BY <1>1, <2>2, <3>1, AppendKinds, Zenon DEF NodeAnswered
    <3> QED
      BY <1>2, <1>8, <3>2, Zenon DEF NodeRelays, NodeAnswered
  <2> QED
    BY <1>8, <2>1, <2>2, Zenon DEF NodeRelays
<1> QED
  BY <1>3, <1>4, <1>5, <1>6, <1>7, <1>8, Zenon DEF NodeDigest

(* The client and the target keep it.                                      *)
LEMMA NodeAnsweredEnds ==
    ASSUME TypeOK, NodeAnswered, EndsDigest
    PROVE  NodeAnswered'
<1>1. wire["tn"] \in Seq(Frames) /\ UNCHANGED <<gpc, npc>> /\ wire'["ng"] = wire["ng"]
  BY StreamTypes, Zenon DEF EndsDigest
<1>2. No("reply", wire'["tn"])
  <2>1. CASE wire'["tn"] = wire["tn"]
    BY <2>1, Zenon DEF NodeAnswered
  <2>2. CASE \E f \in Frames : /\ f.kind \in {"data", "eof"}
                              /\ wire'["tn"] = Append(wire["tn"], f)
    BY <1>1, <2>2, AppendKinds, Zenon DEF NodeAnswered
  <2> QED
    BY <2>1, <2>2, Zenon DEF EndsDigest
<1> QED
  BY <1>1, <1>2, Zenon DEF NodeAnswered

(* The gateway keeps the invariant of the client's stream.                 *)
LEMMA ClientAnsweredGateway ==
    ASSUME TypeOK, NodeAnswered, ClientAnswered, GatewayDigest
    PROVE  ClientAnswered'
<1> DEFINE gc == wire["gc"]
           ng == wire["ng"]
           kept == Single(wire'["gc"]) /\ DataAfter(wire'["gc"])
<1>1. gc \in Seq(Frames) /\ ng \in Seq(Frames) /\ Single(gc) /\ DataAfter(gc)
  BY StreamTypes, SMTT(30) DEF ClientAnswered
<1>2. CASE GatewayGivesUp
  <2>1. kept
    BY <1>1, <1>2, ClosedKinds, SMTT(30) DEF GatewayGivesUp
  <2> QED
    BY <1>2, <2>1, SMTT(30) DEF GatewayGivesUp, ClientAnswered
<1>3. CASE GatewayAnswers
  <2>1. PICK f \in Frames : /\ f.kind \in {"method", "status"}
                           /\ Closed(Append(gc, f), wire'["gc"])
    BY <1>3, Zenon DEF GatewayAnswers
  <2>2. No("reply", gc) /\ No("data", gc)
    BY <1>3, Zenon DEF GatewayAnswers, ClientAnswered
  <2>3. /\ Append(gc, f) \in Seq(Frames) /\ Single(Append(gc, f))
        /\ DataAfter(Append(gc, f))
        /\ No("reply", Append(gc, f)) /\ No("data", Append(gc, f))
    BY <1>1, <2>1, <2>2, AppendKinds, Zenon
  <2>4. kept /\ No("reply", wire'["gc"]) /\ No("data", wire'["gc"])
    BY <2>1, <2>3, ClosedKinds, Zenon
  <2> QED
    BY <1>3, <2>4, Zenon DEF GatewayAnswers, ClientAnswered
<1>4. CASE GatewayDeclines
  <2>1. PICK code \in {"unsupported", "unreachable"} :
            Closed(Append(gc, Frame("reply", code)), wire'["gc"])
    BY <1>4, Zenon DEF GatewayDeclines
  <2> DEFINE f == Frame("reply", code)
  <2>2. f \in Frames /\ f.kind = "reply" /\ Closed(Append(gc, f), wire'["gc"])
    BY <2>1, Kinds, Zenon
  <2> HIDE DEF f
  <2>3. No("reply", gc)
    BY <1>4, Zenon DEF GatewayDeclines, ClientAnswered
  <2>4. /\ Append(gc, f) \in Seq(Frames) /\ Single(Append(gc, f))
        /\ DataAfter(Append(gc, f))
    BY <1>1, <2>2, <2>3, AppendKinds, Zenon
  <2>5. kept
    BY <2>2, <2>4, ClosedKinds, Zenon
  <2> QED
    BY <1>4, <2>5, Zenon DEF GatewayDeclines, ClientAnswered
<1>5. CASE GatewayGoesOn \/ GatewayHears
  BY <1>5, Zenon DEF GatewayGoesOn, GatewayHears, ClientAnswered
<1>6. CASE GatewaySucceeds
  <2>1. No("reply", gc) /\ wire'["gc"] = Append(gc, Success)
    BY <1>6, Zenon DEF GatewaySucceeds, ClientAnswered
  <2>2. kept /\ Holds(wire'["gc"], Success)
    BY <1>1, <2>1, AppendKinds, HoldsAppend, Kinds
  <2> QED
    BY <1>6, <2>2, Zenon DEF GatewaySucceeds, ClientAnswered
<1>7. CASE GatewayRelays
  <2>1. Holds(gc, Success) /\ No("reply", ng)
    BY <1>7, SMTT(30) DEF GatewayRelays, ClientAnswered, NodeAnswered
  <2>2. CASE Closed(gc, wire'["gc"])
    <3>1. kept /\ Holds(wire'["gc"], Success)
      BY <1>1, <2>1, <2>2, ClosedKinds, HoldsClosed, Zenon
    <3> QED
      BY <1>7, <3>1, SMTT(30) DEF GatewayRelays, ClientAnswered
  <2>3. CASE ng # <<>> /\ wire'["gc"] = Append(gc, Head(ng))
    <3>1. Head(ng) \in Frames /\ Head(ng).kind # "reply"
      <4>1. 1 \in DOMAIN ng /\ Head(ng) = ng[1] /\ ng[1] \in Frames
        BY <1>1, <2>3, SMTT(30)
      <4> QED
        BY <2>1, <4>1, SMTT(30) DEF No
    <3>2. kept /\ Holds(wire'["gc"], Success)
      BY <1>1, <2>1, <2>3, <3>1, AppendKinds, HoldsAppend
    <3> QED
      BY <1>7, <3>2, Zenon DEF GatewayRelays, ClientAnswered
  <2> QED
    BY <1>7, <2>2, <2>3, SMTT(30) DEF GatewayRelays
<1> QED
  BY <1>2, <1>3, <1>4, <1>5, <1>6, <1>7, Zenon DEF GatewayDigest

(* Nobody else writes to the client.                                       *)
LEMMA ClientAnsweredOthers ==
    ASSUME ClientAnswered, NodeDigest \/ EndsDigest
    PROVE  ClientAnswered'
<1>1. gpc' = gpc /\ wire'["gc"] = wire["gc"]
  BY Zenon DEF NodeDigest, EndsDigest
<1> QED
  BY <1>1, Zenon DEF ClientAnswered

(* A client gets at most one reply and data only after a success, whatever *)
(* fails and however long the session (run_with_ctx, steps 3 to 7).        *)
THEOREM RepliesOnce == Spec => []OneReply
<1> DEFINE Answers == NodeAnswered /\ ClientAnswered
<1>1. Init => Answers
  BY DEF Init, NodeAnswered, ClientAnswered, No, Single, DataAfter, Streams
<1>2. TypeOK /\ Answers /\ [Next]_vars => Answers'
  <2> SUFFICES ASSUME TypeOK, Answers, [Next]_vars PROVE Answers'
    OBVIOUS
  <2>1. CASE GatewayDigest
    BY <2>1, NodeAnsweredGateway, ClientAnsweredGateway, Zenon
  <2>2. CASE NodeDigest
    BY <2>2, NodeAnsweredNode, ClientAnsweredOthers, Zenon
  <2>3. CASE EndsDigest
    BY <2>3, NodeAnsweredEnds, ClientAnsweredOthers, SMTT(30)
  <2> QED
    BY <2>1, <2>2, <2>3, StepDigest, Zenon
<1>3. Answers => OneReply
  BY Zenon DEF ClientAnswered, Single, DataAfter, OneReply, Success
<1> QED
  BY <1>1, <1>2, <1>3, TypeCorrect, PTL DEF Spec

-----------------------------------------------------------------------------
(* A stream is some handshake frames, of which one of kind `last' comes    *)
(* last, then the data frames after number a up to number b, then ends.    *)
Carries(s, q, a, b, last) ==
    /\ a <= b /\ q + (b - a) <= Len(s)
    /\ \A i \in 1 .. q : /\ s[i].kind \notin {"data", "eof"}
                         /\ s[i].kind = last => i = q
    /\ \A i \in q + 1 .. Len(s) :
          s[i] = IF i - q <= b - a THEN Data(a + (i - q)) ELSE Eof

(* What is on the way to a reader that is still listening; it is raw once  *)
(* the reader is past the handshake.                                       *)
Channel(s, listens, raw, a, b, last) ==
    listens => \E q \in Nat : Carries(s, q, a, b, last) /\ (raw => q = 0)

(* Who still reads a direction, and who has stopped writing it.            *)
Shut(s) == Holds(s, Eof)
GatewayListens(dir) == gpc # "done" /\ dir \notin ended["gateway"]
NodeListens(dir) == npc # "done" /\ dir \notin ended["node"]
GatewayStopped(dir) == gpc = "done" \/ dir \in ended["gateway"]
NodeStopped(dir) == npc = "done" \/ dir \in ended["node"]

(* A handler that has not reached its relay has ended and counted nothing, *)
(* and no target is known before the node connects.                        *)
Control ==
    /\ gpc \notin {"relay", "done"} =>
          ended["gateway"] = {} /\ \A d \in Directions : copied["gateway"][d] = 0
    /\ npc \notin {"relay", "done"} =>
          ended["node"] = {} /\ \A d \in Directions : copied["node"][d] = 0
    /\ npc \in {"off", "greeting", "request", "connect"} => target = "none"

(* On the way from client to gateway: the data that the client has sent    *)
(* and the gateway has not counted. A client sends one request at most,    *)
(* and nothing of the handshake after it.                                  *)
FromClient == \E p, k \in Nat :
    /\ Carries(sent, p, 0, k, "request") /\ Len(sent) = p + k
    /\ copied["gateway"]["up"] <= k
    /\ Channel(wire["cg"], GatewayListens("up"),
               gpc \notin {"greeting", "credentials", "request"},
               copied["gateway"]["up"], k, "request")
    /\ ~No("request", wire["cg"]) => ~No("request", sent)
    /\ gpc \notin {"greeting", "credentials", "request", "done"}
          => ~No("request", sent)

(* On the way from gateway to node: the data that the gateway has counted  *)
(* and the node has not. The stream ends only when the gateway has         *)
(* stopped.                                                                *)
ToNode ==
    /\ copied["node"]["up"] <= copied["gateway"]["up"]
    /\ Channel(wire["gn"], NodeListens("up"),
               npc \in {"connect", "success", "relay"},
               copied["node"]["up"], copied["gateway"]["up"], "request")
    /\ gpc \in {"greeting", "credentials", "request", "select", "connect", "method"}
          => No("request", wire["gn"])
    /\ gpc = "method" => npc \notin {"connect", "success", "relay"}
    /\ Shut(wire["gn"]) \/ "up" \in ended["node"] => GatewayStopped("up")
    /\ "up" \in ended["node"] => copied["node"]["up"] = copied["gateway"]["up"]

(* To the target goes what the node has counted, and nothing of a          *)
(* handshake.                                                              *)
ToTarget ==
    /\ Carries(wire["nt"], 0, 0, copied["node"]["up"], "eof")
    /\ Shut(wire["nt"]) => NodeStopped("up")

(* On the way from target to node: the answers the node has not counted.   *)
FromTarget ==
    /\ \A i \in 1 .. Len(answered) : answered[i] = Data(i)
    /\ copied["node"]["down"] <= Len(answered)
    /\ Channel(wire["tn"], NodeListens("down"), TRUE,
               copied["node"]["down"], Len(answered), "eof")
    /\ Shut(wire["tn"]) => target = "closed"

(* On the way from node to gateway: the answers the node has counted and   *)
(* the gateway has not.                                                    *)
ToGateway ==
    /\ copied["gateway"]["down"] <= copied["node"]["down"]
    /\ Channel(wire["ng"], GatewayListens("down"), gpc \in {"success", "relay"},
               copied["gateway"]["down"], copied["node"]["down"], "reply")
    /\ Shut(wire["ng"]) \/ "down" \in ended["gateway"] => NodeStopped("down")
    /\ "down" \in ended["gateway"]
          => copied["gateway"]["down"] = copied["node"]["down"]

(* To the client go the frames of the handshake and then what the gateway  *)
(* has counted.                                                            *)
ToClient ==
    /\ \E q \in Nat : Carries(wire["gc"], q, 0, copied["gateway"]["down"], "eof")
    /\ Shut(wire["gc"]) => GatewayStopped("down")

(* A hop records its counts when both its directions have ended.           *)
Counted ==
    /\ recorded["gateway"] # NotCounted =>
          /\ gpc = "done" /\ ended["gateway"] = Directions
          /\ recorded["gateway"] = copied["gateway"]
    /\ recorded["node"] # NotCounted =>
          /\ npc = "done" /\ ended["node"] = Directions
          /\ recorded["node"] = copied["node"]

-----------------------------------------------------------------------------
(* Data frames are no end of stream.                                       *)
LEMMA DataKind == \A i : Data(i).kind = "data" /\ Data(i) # Eof
<1>1. \A i : Data(i).kind = "data"
  BY Zenon DEF Data
<1>2. Eof.kind = "eof"
  BY Zenon DEF Eof, Frame
<1>3. QED
  BY <1>1, <1>2, Zenon

(* Appending to and taking from a sequence of frames.                      *)
LEMMA AppendTo ==
    ASSUME NEW s \in Seq(Frames), NEW f
    PROVE  /\ Len(s) \in Nat /\ Len(Append(s, f)) = Len(s) + 1
           /\ DOMAIN s = 1 .. Len(s)
           /\ Append(s, f)[Len(s) + 1] = f
           /\ \A i \in 1 .. Len(s) : Append(s, f)[i] = s[i]
  OBVIOUS

(* The elements of the rest of a sequence.                                 *)
LEMMA TailOf ==
    ASSUME NEW s \in Seq(Frames), s # <<>>
    PROVE  /\ Len(s) \in Nat \ {0} /\ Len(Tail(s)) = Len(s) - 1 /\ Head(s) = s[1]
           /\ \A i \in 1 .. Len(s) - 1 : Tail(s)[i] = s[i + 1]
           /\ DOMAIN s = 1 .. Len(s)
  OBVIOUS

(* No end on a stream: it stops with its data.                             *)
LEMMA StillOpen ==
    ASSUME NEW s \in Seq(Frames), NEW q \in Nat, NEW a \in Nat, NEW b \in Nat,
           NEW last, Carries(s, q, a, b, last), ~Shut(s)
    PROVE  Len(s) = q + (b - a)
<1>1. Len(s) \in Nat /\ DOMAIN s = 1 .. Len(s) /\ a <= b /\ q + (b - a) <= Len(s)
  BY DEF Carries
<1>2. SUFFICES ASSUME Len(s) > q + (b - a) PROVE FALSE
  BY <1>1
<1>3. Len(s) \in q + 1 .. Len(s) /\ ~(Len(s) - q <= b - a) /\ Len(s) \in DOMAIN s
  BY <1>1, <1>2
<1>4. s[Len(s)] = Eof
  BY <1>3, Zenon DEF Carries
<1>5. QED
  BY <1>3, <1>4, Zenon DEF Shut, Holds

(* The next frame of data is appended.                                     *)
LEMMA CarriesData ==
    ASSUME NEW s \in Seq(Frames), NEW q \in Nat, NEW a \in Nat, NEW b \in Nat,
           NEW last, Carries(s, q, a, b, last), ~Shut(s)
    PROVE  Carries(Append(s, Data(b + 1)), q, a, b + 1, last)
<1> DEFINE t == Append(s, Data(b + 1))
<1>1. Len(s) = q + (b - a) /\ a <= b
  <2>1. Len(s) = q + (b - a)
    BY StillOpen, Zenon
  <2>2. QED
    BY <2>1, Zenon DEF Carries
<1>2. /\ Len(s) \in Nat /\ Len(t) = Len(s) + 1
      /\ t[Len(s) + 1] = Data(b + 1) /\ \A i \in 1 .. Len(s) : t[i] = s[i]
  BY AppendTo
<1> HIDE DEF t
<1>3. a <= b + 1 /\ q + ((b + 1) - a) <= Len(t)
  BY <1>1, <1>2
<1>4. \A i \in 1 .. q : t[i] = s[i]
  BY <1>1, <1>2
<1>5. \A i \in 1 .. q : /\ t[i].kind \notin {"data", "eof"}
                        /\ t[i].kind = last => i = q
  BY <1>4, Zenon DEF Carries
<1>6. ASSUME NEW i \in q + 1 .. Len(t)
      PROVE  t[i] = IF i - q <= (b + 1) - a THEN Data(a + (i - q)) ELSE Eof
  <2>1. CASE i = Len(s) + 1
    <3>1. a + (i - q) = b + 1 /\ i - q <= (b + 1) - a
      BY <1>1, <1>2, <2>1
    <3>2. QED
      BY <1>2, <2>1, <3>1, Zenon
  <2>2. CASE i # Len(s) + 1
    <3>1. i \in q + 1 .. Len(s) /\ i \in 1 .. Len(s) /\ i - q <= b - a
          /\ i - q <= (b + 1) - a
      BY <1>1, <1>2, <2>2
    <3>2. s[i] = Data(a + (i - q))
      BY <3>1, Zenon DEF Carries
    <3>3. QED
      BY <1>2, <3>1, <3>2, Zenon
  <2>3. QED
    BY <2>1, <2>2, Zenon
<1>7. QED
  BY <1>3, <1>5, <1>6, Zenon DEF Carries, t

(* The end of the stream is appended, or was there already.                *)
LEMMA CarriesEof ==
    ASSUME NEW s \in Seq(Frames), NEW q \in Nat, NEW a \in Nat, NEW b \in Nat,
           NEW last, Carries(s, q, a, b, last), NEW u, Closed(s, u)
    PROVE  Carries(u, q, a, b, last)
<1> DEFINE t == Append(s, Eof)
<1>1. /\ Len(s) \in Nat /\ Len(t) = Len(s) + 1
      /\ t[Len(s) + 1] = Eof /\ \A i \in 1 .. Len(s) : t[i] = s[i]
  BY AppendTo
<1> HIDE DEF t
<1>2. q + (b - a) <= Len(s) /\ a <= b
  BY Zenon DEF Carries
<1>3. a <= b /\ q + (b - a) <= Len(t)
  BY <1>1, <1>2
<1>4. \A i \in 1 .. q : t[i] = s[i]
  BY <1>1, <1>2
<1>5. \A i \in 1 .. q : /\ t[i].kind \notin {"data", "eof"}
                        /\ t[i].kind = last => i = q
  BY <1>4, Zenon DEF Carries
<1>6. ASSUME NEW i \in q + 1 .. Len(t)
      PROVE  t[i] = IF i - q <= b - a THEN Data(a + (i - q)) ELSE Eof
  <2>1. CASE i = Len(s) + 1
    <3>1. ~(i - q <= b - a)
      BY <1>1, <1>2, <2>1
    <3>2. QED
      BY <1>1, <2>1, <3>1, Zenon
  <2>2. CASE i # Len(s) + 1
    <3>1. i \in q + 1 .. Len(s) /\ i \in 1 .. Len(s)
      BY <1>1, <1>2, <2>2
    <3>2. QED
      BY <1>1, <3>1, Zenon DEF Carries
  <2>3. QED
    BY <2>1, <2>2, Zenon
<1>7. Carries(t, q, a, b, last)
  BY <1>3, <1>5, <1>6, Zenon DEF Carries
<1>8. QED
  BY <1>7, Zenon DEF Closed, t

(* Before any data, another handshake frame may follow unless the last one *)
(* is there.                                                               *)
LEMMA CarriesMore ==
    ASSUME NEW s \in Seq(Frames), NEW q \in Nat, NEW a \in Nat, NEW last,
           Carries(s, q, a, a, last), ~Shut(s), No(last, s) \/ last = "eof",
           NEW f, f.kind \notin {"data", "eof"}
    PROVE  Carries(Append(s, f), q + 1, a, a, last)
<1> DEFINE t == Append(s, f)
<1>1. Len(s) = q
  <2>1. Len(s) = q + (a - a)
    BY StillOpen, Zenon
  <2>2. QED
    BY <2>1
<1>2. /\ Len(s) \in Nat /\ Len(t) = Len(s) + 1 /\ DOMAIN s = 1 .. Len(s)
      /\ t[Len(s) + 1] = f /\ \A i \in 1 .. Len(s) : t[i] = s[i]
  BY AppendTo
<1> HIDE DEF t
<1>3. ASSUME NEW i \in 1 .. q + 1
      PROVE  t[i].kind \notin {"data", "eof"} /\ (t[i].kind = last => i = q + 1)
  <2>1. CASE i = q + 1
    BY <1>1, <1>2, <2>1, Zenon
  <2>2. CASE i # q + 1
    <3>1. i \in 1 .. q
      BY <2>2
    <3>2. t[i] = s[i] /\ i \in DOMAIN s
      BY <1>1, <1>2, <3>1, Zenon
    <3>3. QED
      BY <3>1, <3>2, Zenon DEF Carries, No
  <2>3. QED
    BY <2>1, <2>2, Zenon
<1>4. a <= a /\ (q + 1) + (a - a) <= Len(t) /\ ~(\E i : i \in (q + 1) + 1 .. Len(t))
  BY <1>1, <1>2
<1>5. QED
  BY <1>3, <1>4, Zenon DEF Carries, t

(* The reader takes a handshake frame.                                     *)
LEMMA CarriesLess ==
    ASSUME NEW s \in Seq(Frames), NEW q \in Nat, NEW a \in Nat, NEW b \in Nat,
           NEW last, Carries(s, q, a, b, last), s # <<>>,
           Head(s).kind \notin {"data", "eof"}
    PROVE  /\ q - 1 \in Nat /\ Carries(Tail(s), q - 1, a, b, last)
           /\ Head(s).kind = last => q - 1 = 0
<1> DEFINE t == Tail(s)
<1>1. /\ Len(s) \in Nat \ {0} /\ Len(t) = Len(s) - 1 /\ Head(s) = s[1]
      /\ \A i \in 1 .. Len(s) - 1 : t[i] = s[i + 1]
  BY TailOf, Zenon
<1> HIDE DEF t
<1>2. q > 0
  <2>1. SUFFICES ASSUME q = 0 PROVE FALSE
    OBVIOUS
  <2>2. 1 \in q + 1 .. Len(s)
    BY <1>1, <2>1
  <2>3. s[1] = Data(a + (1 - q)) \/ s[1] = Eof
    BY <2>2, Zenon DEF Carries
  <2>4. QED
    BY <1>1, <2>3, Kinds, DataKind, Zenon
<1>3. Head(s).kind = last => q = 1
  <2>1. 1 \in 1 .. q
    BY <1>2
  <2>2. QED
    BY <1>1, <2>1, Zenon DEF Carries
<1>4. q + (b - a) <= Len(s) /\ a <= b
  BY Zenon DEF Carries
<1>5. a <= b /\ (q - 1) + (b - a) <= Len(t) /\ q - 1 \in Nat
  BY <1>1, <1>2, <1>4
<1>6. ASSUME NEW i \in 1 .. q - 1
      PROVE  t[i].kind \notin {"data", "eof"} /\ (t[i].kind = last => i = q - 1)
  <2>1. i + 1 \in 1 .. q /\ i \in 1 .. Len(s) - 1
    BY <1>1, <1>2, <1>4
  <2>2. t[i] = s[i + 1]
    BY <1>1, <2>1, Zenon
  <2>3. s[i + 1].kind \notin {"data", "eof"} /\ (s[i + 1].kind = last => i + 1 = q)
    BY <2>1, Zenon DEF Carries
  <2>4. i + 1 = q => i = q - 1
    OBVIOUS
  <2>5. QED
    BY <2>2, <2>3, <2>4, Zenon
<1>7. ASSUME NEW i \in (q - 1) + 1 .. Len(t)
      PROVE  t[i] = IF i - (q - 1) <= b - a THEN Data(a + (i - (q - 1))) ELSE Eof
  <2>1. i + 1 \in q + 1 .. Len(s) /\ i \in 1 .. Len(s) - 1
        /\ (i + 1) - q = i - (q - 1)
    BY <1>1, <1>2
  <2>2. t[i] = s[i + 1]
    BY <1>1, <2>1, Zenon
  <2>3. s[i + 1] = IF (i + 1) - q <= b - a THEN Data(a + ((i + 1) - q)) ELSE Eof
    BY <2>1, Zenon DEF Carries
  <2>4. QED
    BY <2>1, <2>2, <2>3, Zenon
<1>8. Carries(t, q - 1, a, b, last)
  BY <1>5, <1>6, <1>7, Zenon DEF Carries
<1>9. Head(s).kind = last => q - 1 = 0
  BY <1>3
<1>10. QED
  BY <1>5, <1>8, <1>9, Zenon DEF t

(* The relay takes a data frame, or the end.                               *)
LEMMA CarriesNext ==
    ASSUME NEW s \in Seq(Frames), NEW a \in Nat, NEW b \in Nat,
           NEW last, Carries(s, 0, a, b, last), s # <<>>
    PROVE  /\ Head(s) # Eof => /\ Head(s) = Data(a + 1) /\ a + 1 <= b
                               /\ Carries(Tail(s), 0, a + 1, b, last)
           /\ Head(s) = Eof => a = b /\ Shut(s)
<1> DEFINE t == Tail(s)
<1>1. /\ Len(s) \in Nat \ {0} /\ Len(t) = Len(s) - 1 /\ Head(s) = s[1]
      /\ \A i \in 1 .. Len(s) - 1 : t[i] = s[i + 1]
      /\ DOMAIN s = 1 .. Len(s)
  BY TailOf, Zenon
<1> HIDE DEF t
<1>2. 0 + (b - a) <= Len(s) /\ a <= b
  BY Zenon DEF Carries
<1>3. \A i \in 0 + 1 .. Len(s) :
         s[i] = IF i - 0 <= b - a THEN Data(a + (i - 0)) ELSE Eof
  BY Zenon DEF Carries
<1>4. \A i \in 1 .. Len(s) :
         /\ i <= b - a => s[i] = Data(a + i)
         /\ ~(i <= b - a) => s[i] = Eof
  BY <1>1, <1>3
<1>5. 1 \in 1 .. Len(s) /\ 1 \in DOMAIN s
  BY <1>1
<1>6. Data(a + 1) # Eof
  BY DataKind, Zenon
<1>7. Head(s) = Eof => a = b /\ Shut(s)
  <2>1. Head(s) = Eof => ~(1 <= b - a)
    BY <1>1, <1>4, <1>5, <1>6, Zenon
  <2>2. ~(1 <= b - a) => a = b
    BY <1>2
  <2>3. QED
    BY <1>1, <1>5, <2>1, <2>2, Zenon DEF Shut, Holds
<1>8. ASSUME Head(s) # Eof
      PROVE  Head(s) = Data(a + 1) /\ a + 1 <= b /\ Carries(t, 0, a + 1, b, last)
  <2>1. 1 <= b - a /\ Head(s) = Data(a + 1)
    BY <1>1, <1>4, <1>5, <1>8, Zenon
  <2>2. a + 1 <= b /\ 0 + (b - (a + 1)) <= Len(t)
    BY <1>1, <1>2, <2>1
  <2>3. ASSUME NEW i \in 0 + 1 .. Len(t)
        PROVE  t[i] = IF i - 0 <= b - (a + 1) THEN Data((a + 1) + (i - 0)) ELSE Eof
    <3>1. i + 1 \in 1 .. Len(s) /\ i \in 1 .. Len(s) - 1
          /\ (i + 1 <= b - a <=> i - 0 <= b - (a + 1))
          /\ a + (i + 1) = (a + 1) + (i - 0)
      BY <1>1
    <3>2. t[i] = s[i + 1]
      BY <1>1, <3>1, Zenon
    <3>3. /\ i + 1 <= b - a => s[i + 1] = Data(a + (i + 1))
          /\ ~(i + 1 <= b - a) => s[i + 1] = Eof
      BY <1>4, <3>1, Zenon
    <3>4. QED
      BY <3>1, <3>2, <3>3, Zenon
  <2>4. ~(\E i : i \in 1 .. 0)
    OBVIOUS
  <2>5. QED
    BY <2>1, <2>2, <2>3, <2>4, Zenon DEF Carries
<1>9. QED
  BY <1>7, <1>8, Zenon DEF t

(* What a step does to every stream, as far as the data go.                *)
Keeps(R) == \A r \in R : wire'[r] = wire[r]
Told(s, t) == \/ t = s
              \/ \E f \in Frames : f.kind \notin {"data", "eof"} /\ t = Append(s, f)

(* The gateway returns: it may reply, and closes both its streams.         *)
GatewayQuits ==
    /\ gpc # "done" /\ gpc' = "done"
    /\ UNCHANGED <<npc, ended, target, copied, sent, answered>>
    /\ Keeps({"nt", "tn"}) /\ Closed(wire["gn"], wire'["gn"])
    /\ Shrinks(wire["cg"], wire'["cg"]) /\ Shrinks(wire["ng"], wire'["ng"])
    /\ \E t : /\ t = wire["gc"] \/ (gpc # "relay" /\ Told(wire["gc"], t))
              /\ Closed(t, wire'["gc"])
    /\ \/ recorded' = recorded
       \/ /\ gpc = "relay" /\ ended["gateway"] = Directions
          /\ recorded' = [recorded EXCEPT !["gateway"] = copied["gateway"]]

(* The gateway takes a frame of the client's handshake.                    *)
GatewayReads ==
    /\ gpc \in {"greeting", "credentials", "request"}
    /\ gpc' \in {"credentials", "request", "select"}
    /\ UNCHANGED <<npc, ended, target, counts, sent, answered>>
    /\ wire["cg"] # <<>> /\ wire'["cg"] = Tail(wire["cg"])
    /\ Head(wire["cg"]).kind \notin {"data", "eof"}
    /\ gpc' = "select" => Head(wire["cg"]).kind = "request"
    /\ Told(wire["gc"], wire'["gc"]) /\ Keeps({"gn", "ng", "nt", "tn"})

(* The gateway goes through its handshake with the node.                   *)
GatewayAdvances ==
    /\ UNCHANGED <<ended, target, counts, sent, answered>>
    /\ Keeps({"cg", "nt", "tn"})
    /\ \/ /\ gpc = "select" /\ gpc' = "connect" /\ npc' = npc
          /\ Keeps({"gc", "gn", "ng"})
       \/ /\ gpc = "connect" /\ gpc' = "method" /\ npc' = "greeting"
          /\ Keeps({"gc", "ng"})
          /\ wire'["gn"] = Append(wire["gn"], Frame("greeting", "none"))
       \/ /\ gpc = "method" /\ gpc' = "reply" /\ npc' = npc /\ Keeps({"gc"})
          /\ wire["ng"] # <<>> /\ Head(wire["ng"]).kind = "method"
          /\ wire'["ng"] = Tail(wire["ng"])
          /\ wire'["gn"] = Append(wire["gn"], Frame("request", "connect"))
       \/ /\ gpc = "reply" /\ gpc' = "success" /\ npc' = npc /\ Keeps({"gc", "gn"})
          /\ wire["ng"] # <<>> /\ Head(wire["ng"]).kind = "reply"
          /\ wire'["ng"] = Tail(wire["ng"])
       \/ /\ gpc = "success" /\ gpc' = "relay" /\ npc' = npc /\ Keeps({"gn", "ng"})
          /\ wire'["gc"] = Append(wire["gc"], Success)

(* A relay passes a frame on, or the end of its stream.                    *)
Moves(hop, dir, from, to) ==
    /\ UNCHANGED <<gpc, npc, target, recorded, sent, answered>>
    /\ dir \notin ended[hop] /\ Keeps(Streams \ {from, to})
    /\ wire[from] # <<>> /\ wire'[from] = Tail(wire[from])
    /\ \/ /\ Head(wire[from]) = Eof /\ Closed(wire[to], wire'[to])
          /\ ended' = [ended EXCEPT ![hop] = @ \cup {dir}]
          /\ UNCHANGED copied
       \/ /\ Head(wire[from]) # Eof
          /\ wire'[to] = Append(wire[to], Head(wire[from]))
          /\ copied' = [copied EXCEPT ![hop][dir] = @ + 1]
          /\ UNCHANGED ended

GatewayFlow ==
    \/ GatewayQuits \/ GatewayReads \/ GatewayAdvances
    \/ gpc = "relay" /\ Moves("gateway", "up", "cg", "gn")
    \/ gpc = "relay" /\ Moves("gateway", "down", "ng", "gc")

(* The node's handler returns; it goes through its handshake; it relays.   *)
NodeQuits ==
    /\ npc \notin {"off", "done"} /\ npc' = "done"
    /\ UNCHANGED <<gpc, ended, target, copied, sent, answered>>
    /\ Keeps({"cg", "gc", "tn"}) /\ Closed(wire["nt"], wire'["nt"])
    /\ Shrinks(wire["gn"], wire'["gn"])
    /\ \E t : /\ t = wire["ng"] \/ (npc # "relay" /\ Told(wire["ng"], t))
              /\ Closed(t, wire'["ng"])
    /\ \/ recorded' = recorded
       \/ /\ npc = "relay" /\ ended["node"] = Directions
          /\ recorded' = [recorded EXCEPT !["node"] = copied["node"]]

NodeAdvances ==
    /\ UNCHANGED <<gpc, ended, counts, sent, answered>>
    /\ Keeps({"cg", "gc", "nt", "tn"})
    /\ \/ /\ npc = "greeting" /\ npc' = "request" /\ UNCHANGED target
          /\ wire["gn"] # <<>> /\ Head(wire["gn"]).kind = "greeting"
          /\ wire'["gn"] = Tail(wire["gn"])
          /\ wire'["ng"] = Append(wire["ng"], Frame("method", "none"))
       \/ /\ npc = "request" /\ npc' = "connect" /\ UNCHANGED target
          /\ wire["gn"] # <<>> /\ Head(wire["gn"]).kind = "request"
          /\ wire'["gn"] = Tail(wire["gn"]) /\ Keeps({"ng"})
       \/ /\ npc = "connect" /\ npc' = "success" /\ target' = "connected"
          /\ Keeps({"gn", "ng"})
       \/ /\ npc = "success" /\ npc' = "relay" /\ UNCHANGED target
          /\ wire'["ng"] = Append(wire["ng"], Success) /\ Keeps({"gn"})

NodeFlow ==
    \/ NodeQuits \/ NodeAdvances
    \/ npc = "relay" /\ Moves("node", "up", "gn", "nt")
    \/ npc = "relay" /\ Moves("node", "down", "tn", "ng")

-----------------------------------------------------------------------------
(* A copying step of a relay is such a move.                               *)
LEMMA CopiesMove ==
    ASSUME wire \in Wires, NEW hop \in Hops, NEW dir \in Directions,
           NEW from \in Streams, NEW to \in Streams, from # to,
           Copies(hop, dir, from, to)
    PROVE  Moves(hop, dir, from, to)
<1> DEFINE w == Take(wire, from)
           f == Head(wire[from])
<1>0. /\ wire[from] # <<>> /\ dir \notin ended[hop]
      /\ UNCHANGED <<gpc, npc, target, recorded, sent, answered>>
  BY Zenon DEF Copies, Arrived
<1>1. /\ w \in Wires /\ f \in Frames /\ w[from] = Tail(wire[from])
      /\ \A r \in Streams \ {from} : w[r] = wire[r]
  BY <1>0, TakeType, Zenon
<1>2. CASE f = Eof
  <2>1. /\ wire' = Close(w, to) /\ UNCHANGED copied
        /\ ended' = [ended EXCEPT ![hop] = @ \cup {dir}]
    BY <1>2, Zenon DEF Copies, Copied
  <2> HIDE DEF w
  <2>2. /\ Closed(w[to], Close(w, to)[to])
        /\ \A r \in Streams \ {to} : Close(w, to)[r] = w[r]
    BY <1>1, CloseType DEF Closed
  <2>3. Keeps(Streams \ {from, to})
    BY <1>1, <2>1, <2>2, Zenon DEF Keeps
  <2>4. wire'[from] = Tail(wire[from]) /\ Closed(wire[to], wire'[to])
    BY <1>1, <2>1, <2>2, Zenon
  <2>5. QED
    BY <1>0, <1>2, <2>1, <2>3, <2>4, Zenon DEF Moves
<1>3. CASE f # Eof
  <2>1. /\ wire' = Put(w, to, f) /\ UNCHANGED ended
        /\ copied' = [copied EXCEPT ![hop][dir] = @ + 1]
    BY <1>3, Zenon DEF Copies, Copied
  <2> HIDE DEF w
  <2>2. /\ Put(w, to, f)[to] = Append(w[to], f)
        /\ \A r \in Streams \ {to} : Put(w, to, f)[r] = w[r]
    BY <1>1, PutOnly, Zenon
  <2>3. Keeps(Streams \ {from, to})
    BY <1>1, <2>1, <2>2, Zenon DEF Keeps
  <2>4. wire'[from] = Tail(wire[from]) /\ wire'[to] = Append(wire[to], f)
    BY <1>1, <2>1, <2>2, Zenon
  <2>5. QED
    BY <1>0, <1>3, <2>1, <2>3, <2>4, Zenon DEF Moves
<1>4. QED
  BY <1>2, <1>3, Zenon

(* The gateway returns after it has read and written at most one frame.    *)
LEMMA GatewayQuitting ==
    ASSUME wire \in Wires, gpc # "done", NEW w \in Wires, GatewayReturns(w),
           \A r \in {"gn", "nt", "tn"} : w[r] = wire[r],
           Shrinks(wire["cg"], w["cg"]), Shrinks(wire["ng"], w["ng"]),
           w["gc"] = wire["gc"] \/ (gpc # "relay" /\ Told(wire["gc"], w["gc"])),
           \/ recorded' = recorded
           \/ /\ gpc = "relay" /\ ended["gateway"] = Directions
              /\ recorded' = [recorded EXCEPT !["gateway"] = copied["gateway"]]
    PROVE  GatewayQuits
<1> USE DEF Streams
<1> DEFINE u == Close(w, "gc")
           v == Close(u, "gn")
<1>1. /\ u \in Wires /\ Closed(w["gc"], u["gc"])
      /\ \A r \in Streams \ {"gc"} : u[r] = w[r]
  BY CloseType, Zenon DEF Closed
<1>2. /\ \A r \in Streams \ {"gn"} : v[r] = u[r]
      /\ Closed(u["gn"], v["gn"])
  <2> HIDE DEF u
  <2>1. QED
    BY <1>1, CloseType, ZenonT(30) DEF Closed
<1>3. wire' = u \/ wire' = v
  BY Zenon DEF GatewayReturns
<1> HIDE DEF u, v
<1>4. /\ \A r \in {"cg", "ng", "nt", "tn"} : wire'[r] = w[r]
      /\ Closed(w["gc"], wire'["gc"]) /\ Closed(w["gn"], wire'["gn"])
  BY <1>1, <1>2, <1>3, Zenon DEF Closed
<1>5. /\ gpc' = "done" /\ UNCHANGED <<npc, ended, target, copied, sent, answered>>
  BY Zenon DEF GatewayReturns
<1>6. \E t : /\ t = wire["gc"] \/ (gpc # "relay" /\ Told(wire["gc"], t))
             /\ Closed(t, wire'["gc"])
  BY <1>4, Zenon
<1>7. Keeps({"nt", "tn"}) /\ Closed(wire["gn"], wire'["gn"])
  BY <1>4, Zenon DEF Keeps
<1>8. Shrinks(wire["cg"], wire'["cg"]) /\ Shrinks(wire["ng"], wire'["ng"])
  BY <1>4, Zenon
<1>9. QED
  BY <1>5, <1>6, <1>7, <1>8, Zenon DEF GatewayQuits

(* The same for the node.                                                  *)
LEMMA NodeQuitting ==
    ASSUME wire \in Wires, npc \notin {"off", "done"}, NEW w \in Wires,
           NodeReturns(w), \A r \in {"cg", "gc", "nt", "tn"} : w[r] = wire[r],
           Shrinks(wire["gn"], w["gn"]),
           w["ng"] = wire["ng"] \/ (npc # "relay" /\ Told(wire["ng"], w["ng"])),
           \/ recorded' = recorded
           \/ /\ npc = "relay" /\ ended["node"] = Directions
              /\ recorded' = [recorded EXCEPT !["node"] = copied["node"]]
    PROVE  NodeQuits
<1> USE DEF Streams
<1> DEFINE u == Close(w, "ng")
           v == Close(u, "nt")
<1>1. /\ u \in Wires /\ Closed(w["ng"], u["ng"])
      /\ \A r \in Streams \ {"ng"} : u[r] = w[r]
  BY CloseType, Zenon DEF Closed
<1>2. /\ \A r \in Streams \ {"nt"} : v[r] = u[r]
      /\ Closed(u["nt"], v["nt"])
  <2> HIDE DEF u
  <2>1. QED
    BY <1>1, CloseType, ZenonT(30) DEF Closed
<1>3. wire' = u \/ wire' = v
  BY Zenon DEF NodeReturns
<1> HIDE DEF u, v
<1>4. /\ \A r \in {"cg", "gc", "gn", "tn"} : wire'[r] = w[r]
      /\ Closed(w["ng"], wire'["ng"]) /\ Closed(w["nt"], wire'["nt"])
  BY <1>1, <1>2, <1>3, Zenon DEF Closed
<1>5. /\ npc' = "done" /\ UNCHANGED <<gpc, ended, target, copied, sent, answered>>
  BY Zenon DEF NodeReturns
<1>6. \E t : /\ t = wire["ng"] \/ (npc # "relay" /\ Told(wire["ng"], t))
             /\ Closed(t, wire'["ng"])
  BY <1>4, Zenon
<1>7. Keeps({"cg", "gc", "tn"}) /\ Closed(wire["nt"], wire'["nt"])
  BY <1>4, Zenon DEF Keeps
<1>8. Shrinks(wire["gn"], wire'["gn"])
  BY <1>4, Zenon
<1>9. QED
  BY <1>5, <1>6, <1>7, <1>8, Zenon DEF NodeQuits

(* A frame of a handshake, put after another is taken.                     *)
LEMMA TakePut ==
    ASSUME wire \in Wires, NEW from \in Streams, NEW to \in Streams, from # to,
           wire[from] # <<>>, NEW f \in Frames
    PROVE  LET w == Take(wire, from)
               v == Put(w, to, f)
           IN  /\ w \in Wires /\ v \in Wires
               /\ w[from] = Tail(wire[from])
               /\ \A r \in Streams \ {from} : w[r] = wire[r]
               /\ v[from] = Tail(wire[from]) /\ v[to] = Append(wire[to], f)
               /\ \A r \in Streams \ {from, to} : v[r] = wire[r]
<1> DEFINE w == Take(wire, from)
<1>1. /\ w \in Wires /\ w[from] = Tail(wire[from])
      /\ \A r \in Streams \ {from} : w[r] = wire[r]
  BY TakeType, Zenon
<1> HIDE DEF w
<1>2. /\ Put(w, to, f) \in Wires /\ Put(w, to, f)[to] = Append(w[to], f)
      /\ \A r \in Streams \ {to} : Put(w, to, f)[r] = w[r]
  <2>1. Put(w, to, f) \in Wires
    BY <1>1, PutType, Zenon
  <2>2. QED
    BY <1>1, <2>1, PutOnly, Zenon
<1>3. QED
  BY <1>1, <1>2, Zenon DEF w

(* The kinds of the frames that the handlers write.                        *)
LEMMA FrameKinds ==
    /\ \A k, a : Frame(k, a).kind = k
    /\ \A a \in {"none", "pass", "unacceptable"} : Frame("method", a) \in Frames
    /\ \A a \in {"success", "failure"} : Frame("status", a) \in Frames
  BY Written, Zenon DEF Frame

(* Every step of the gateway is one of these.                              *)
LEMMA GatewayFlows ==
    ASSUME TypeOK, GatewayStep
    PROVE  GatewayFlow
<1> wire \in Wires
  BY Zenon DEF TypeOK, Wires
<1> USE DEF Streams
<1>1. CASE read_greeting
  <2> DEFINE m == negotiate(Head(wire.cg), auth, ~auth)
             f == Frame("method", m)
             v == Put(Take(wire, "cg"), "gc", f)
  <2>1. /\ wire["cg"] # <<>> /\ gpc = "greeting" /\ Head(wire["cg"]).kind = "greeting"
    BY <1>1, Zenon DEF read_greeting, Arrived, Parses
  <2>2. m \in {"none", "pass", "unacceptable"}
    BY Zenon DEF negotiate
  <2>3. f \in Frames /\ f.kind = "method"
    BY <2>2, FrameKinds, Zenon
  <2>4. \/ GatewayEnds(v)
        \/ gpc' \in {"credentials", "request"} /\ GatewayGoes(gpc', v)
    BY <1>1, <2>2, ZenonT(30) DEF read_greeting, GatewayGoes
  <2> HIDE DEF f, m
  <2>5. /\ v \in Wires /\ v["cg"] = Tail(wire["cg"])
        /\ v["gc"] = Append(wire["gc"], f)
        /\ \A r \in {"gn", "ng", "nt", "tn"} : v[r] = wire[r]
    BY <2>1, <2>3, TakePut, SMTT(30)
  <2> HIDE DEF v
  <2>6. Told(wire["gc"], v["gc"]) /\ Shrinks(wire["cg"], v["cg"])
        /\ Shrinks(wire["ng"], v["ng"])
    BY <2>1, <2>3, <2>5, Zenon DEF Told, Shrinks
  <2>7. CASE GatewayEnds(v)
    <3>1. GatewayReturns(v) /\ recorded' = recorded
      BY <2>7, Zenon DEF GatewayEnds
    <3>2. QED
      BY <2>1, <2>5, <2>6, <3>1, GatewayQuitting, Zenon DEF GatewayFlow
  <2>8. CASE gpc' \in {"credentials", "request"} /\ GatewayGoes(gpc', v)
    BY <2>1, <2>5, <2>6, <2>8, Zenon DEF GatewayFlow, GatewayReads, GatewayGoes, Keeps
  <2>9. QED
    BY <2>4, <2>7, <2>8, Zenon
<1>2. CASE handle_user_pass_auth
  <2> DEFINE f == Frame("status", IF Head(wire.cg).arg = "good" THEN "success"
                                  ELSE "failure")
             v == Put(Take(wire, "cg"), "gc", f)
  <2>1. /\ wire["cg"] # <<>> /\ gpc = "credentials"
        /\ Head(wire["cg"]).kind = "credentials"
    BY <1>2, Zenon DEF handle_user_pass_auth, Arrived, Parses
  <2>3. f \in Frames /\ f.kind = "status"
    BY FrameKinds, Zenon
  <2>4. GatewayEnds(v) \/ (gpc' = "request" /\ GatewayGoes(gpc', v))
    BY <1>2, ZenonT(30) DEF handle_user_pass_auth, GatewayGoes
  <2> HIDE DEF f
  <2>5. /\ v \in Wires /\ v["cg"] = Tail(wire["cg"])
        /\ v["gc"] = Append(wire["gc"], f)
        /\ \A r \in {"gn", "ng", "nt", "tn"} : v[r] = wire[r]
    BY <2>1, <2>3, TakePut, SMTT(30)
  <2> HIDE DEF v
  <2>6. Told(wire["gc"], v["gc"]) /\ Shrinks(wire["cg"], v["cg"])
        /\ Shrinks(wire["ng"], v["ng"])
    BY <2>1, <2>3, <2>5, Zenon DEF Told, Shrinks
  <2>7. CASE GatewayEnds(v)
    <3>1. GatewayReturns(v) /\ recorded' = recorded
      BY <2>7, Zenon DEF GatewayEnds
    <3>2. QED
      BY <2>1, <2>5, <2>6, <3>1, GatewayQuitting, Zenon DEF GatewayFlow
  <2>8. CASE gpc' = "request" /\ GatewayGoes(gpc', v)
    BY <2>1, <2>5, <2>6, <2>8, Zenon DEF GatewayFlow, GatewayReads, GatewayGoes, Keeps
  <2>9. QED
    BY <2>4, <2>7, <2>8, Zenon
<1>3. CASE read_request
  <2> DEFINE w == Take(wire, "cg")
  <2>1. /\ wire["cg"] # <<>> /\ gpc = "request" /\ Head(wire["cg"]).kind = "request"
    BY <1>3, Zenon DEF read_request, Arrived, Parses
  <2>2. /\ w \in Wires /\ w["cg"] = Tail(wire["cg"])
        /\ \A r \in Streams \ {"cg"} : w[r] = wire[r]
    BY <2>1, TakeType, Zenon
  <2>3. CASE GatewayGoes("select", w)
    BY <2>1, <2>2, <2>3, Zenon
    DEF GatewayFlow, GatewayReads, GatewayGoes, Keeps, Told
  <2>4. CASE \E v \in try_reply(w, "gc", "unsupported") : GatewayEnds(v)
    <3>1. PICK v \in try_reply(w, "gc", "unsupported") : GatewayEnds(v)
      BY <2>4, Zenon
    <3> HIDE DEF w
    <3>2. /\ v \in Wires /\ \A r \in Streams \ {"gc"} : v[r] = w[r]
          /\ \/ v["gc"] = w["gc"]
             \/ v["gc"] = Append(w["gc"], Frame("reply", "unsupported"))
      BY <2>2, TryReplyType, Written, SMTT(30)
    <3>3. Told(wire["gc"], v["gc"])
      BY <2>2, <3>2, Kinds, Zenon DEF Told
    <3>4. /\ Shrinks(wire["cg"], v["cg"]) /\ Shrinks(wire["ng"], v["ng"])
          /\ \A r \in {"gn", "nt", "tn"} : v[r] = wire[r]
      BY <2>1, <2>2, <3>2, Zenon DEF Shrinks
    <3>5. GatewayReturns(v) /\ recorded' = recorded
      BY <3>1, Zenon DEF GatewayEnds
    <3>6. QED
      BY <2>1, <3>2, <3>3, <3>4, <3>5, GatewayQuitting, Zenon DEF GatewayFlow
  <2>5. QED
    BY <1>3, <2>3, <2>4, Zenon DEF read_request
<1>4. CASE GatewayRejects
  <2> DEFINE w == Take(wire, "cg")
  <2>1. wire["cg"] # <<>> /\ gpc # "done" /\ GatewayReturns(w) /\ recorded' = recorded
    BY <1>4, Zenon DEF GatewayRejects, Arrived, GatewayEnds
  <2>2. /\ w \in Wires /\ w["cg"] = Tail(wire["cg"])
        /\ \A r \in Streams \ {"cg"} : w[r] = wire[r]
    BY <2>1, TakeType, Zenon
  <2> HIDE DEF w
  <2>3. Shrinks(wire["cg"], w["cg"]) /\ Shrinks(wire["ng"], w["ng"])
    BY <2>1, <2>2, Zenon DEF Shrinks
  <2>4. QED
    BY <2>1, <2>2, <2>3, GatewayQuitting, Zenon DEF GatewayFlow
<1>5. CASE select_node
  BY <1>5, Zenon DEF select_node, GatewayGoes, GatewayFlow, GatewayAdvances, Keeps
<1>6. CASE SelectFails
  <2>1. PICK v \in try_reply(wire, "gc", "unreachable") : GatewayEnds(v)
    BY <1>6, Zenon DEF SelectFails
  <2>2. /\ v \in Wires /\ \A r \in Streams \ {"gc"} : v[r] = wire[r]
        /\ \/ v["gc"] = wire["gc"]
           \/ v["gc"] = Append(wire["gc"], Frame("reply", "unreachable"))
    BY TryReplyType, Written, SMTT(30)
  <2>3. Told(wire["gc"], v["gc"]) /\ gpc = "select"
    BY <1>6, <2>2, Kinds, Zenon DEF Told, SelectFails
  <2>4. Shrinks(wire["cg"], v["cg"]) /\ Shrinks(wire["ng"], v["ng"])
    BY <2>2, Zenon DEF Shrinks
  <2>5. GatewayReturns(v) /\ recorded' = recorded
    BY <2>1, Zenon DEF GatewayEnds
  <2>6. QED
    BY <2>2, <2>3, <2>4, <2>5, GatewayQuitting, Zenon DEF GatewayFlow
<1>7. CASE ConnectNode
  <2>1. /\ wire'["gn"] = Append(wire["gn"], Frame("greeting", "none"))
        /\ \A r \in Streams \ {"gn"} : wire'[r] = wire[r]
    <3>1. Frame("greeting", "none") \in Frames /\ "gn" \in Streams
      BY Written, Zenon
    <3>2. wire' = Put(wire, "gn", Frame("greeting", "none"))
      BY <1>7, Zenon DEF ConnectNode
    <3>3. \A f \in Frames : /\ Put(wire, "gn", f)["gn"] = Append(wire["gn"], f)
                            /\ \A r \in Streams \ {"gn"} :
                                  Put(wire, "gn", f)[r] = wire[r]
      BY <3>1, PutOnly, Zenon
    <3>4. QED
      BY <3>1, <3>2, <3>3, Zenon
  <2>2. QED
    BY <1>7, <2>1, Zenon DEF ConnectNode, GatewayFlow, GatewayAdvances, Keeps
<1>8. CASE ChainRequest
  <2> DEFINE w == Take(wire, "ng")
             v == Put(w, "gn", Frame("request", "connect"))
  <2>1. wire["ng"] # <<>> /\ gpc = "method"
    BY <1>8, Zenon DEF ChainRequest, Arrived
  <2>2. /\ w \in Wires /\ w["ng"] = Tail(wire["ng"])
        /\ \A r \in Streams \ {"ng"} : w[r] = wire[r]
    BY <2>1, TakeType, Zenon
  <2>3. /\ v["ng"] = Tail(wire["ng"])
        /\ v["gn"] = Append(wire["gn"], Frame("request", "connect"))
        /\ \A r \in {"cg", "gc", "nt", "tn"} : v[r] = wire[r]
    BY <2>1, TakePut, Written, SMTT(30)
  <2>4. \/ GatewayEnds(w)
        \/ Head(wire["ng"]).kind = "method" /\ GatewayGoes("reply", v)
    BY <1>8, FrameKinds, Zenon DEF ChainRequest
  <2> HIDE DEF w, v
  <2>5. CASE GatewayEnds(w)
    <3>1. Shrinks(wire["cg"], w["cg"]) /\ Shrinks(wire["ng"], w["ng"])
      BY <2>1, <2>2, Zenon DEF Shrinks
    <3>2. GatewayReturns(w) /\ recorded' = recorded
      BY <2>5, Zenon DEF GatewayEnds
    <3>3. QED
      BY <2>1, <2>2, <3>1, <3>2, GatewayQuitting, Zenon DEF GatewayFlow
  <2>6. CASE Head(wire["ng"]).kind = "method" /\ GatewayGoes("reply", v)
    BY <2>1, <2>3, <2>6, Zenon DEF GatewayGoes, GatewayFlow, GatewayAdvances, Keeps
  <2>7. QED
    BY <2>4, <2>5, <2>6, Zenon
<1>9. CASE ChainReply
  <2> DEFINE w == Take(wire, "ng")
  <2>1. wire["ng"] # <<>> /\ gpc = "reply"
    BY <1>9, Zenon DEF ChainReply, Arrived
  <2>2. /\ w \in Wires /\ w["ng"] = Tail(wire["ng"])
        /\ \A r \in Streams \ {"ng"} : w[r] = wire[r]
    BY <2>1, TakeType, Zenon
  <2>3. \/ GatewayEnds(w)
        \/ Head(wire["ng"]).kind = "reply" /\ GatewayGoes("success", w)
    BY <1>9, FrameKinds, Zenon DEF ChainReply
  <2> HIDE DEF w
  <2>4. CASE GatewayEnds(w)
    <3>1. Shrinks(wire["cg"], w["cg"]) /\ Shrinks(wire["ng"], w["ng"])
      BY <2>1, <2>2, Zenon DEF Shrinks
    <3>2. GatewayReturns(w) /\ recorded' = recorded
      BY <2>4, Zenon DEF GatewayEnds
    <3>3. QED
      BY <2>1, <2>2, <3>1, <3>2, GatewayQuitting, Zenon DEF GatewayFlow
  <2>5. CASE Head(wire["ng"]).kind = "reply" /\ GatewayGoes("success", w)
    BY <2>1, <2>2, <2>5, Zenon DEF GatewayGoes, GatewayFlow, GatewayAdvances, Keeps
  <2>6. QED
    BY <2>3, <2>4, <2>5, Zenon
<1>10. CASE ReplySuccess
  <2>1. /\ wire'["gc"] = Append(wire["gc"], Success)
        /\ \A r \in Streams \ {"gc"} : wire'[r] = wire[r]
    BY <1>10, PutOnly, Written, SMTT(30) DEF ReplySuccess, GatewayGoes, Success
  <2>2. QED
    BY <1>10, <2>1, Zenon
    DEF ReplySuccess, GatewayGoes, GatewayFlow, GatewayAdvances, Keeps
<1>11. CASE GatewayCopies("up", "cg", "gn")
  BY <1>11, CopiesMove DEF GatewayCopies, GatewayFlow, Hops, Directions
<1>12. CASE GatewayCopies("down", "ng", "gc")
  BY <1>12, CopiesMove DEF GatewayCopies, GatewayFlow, Hops, Directions
<1>13. CASE RelayEnds \/ GatewayFails
  <2>1. GatewayReturns(wire) /\ gpc # "done"
    BY <1>13, Zenon DEF RelayEnds, GatewayFails, GatewayEnds
  <2>2. \/ recorded' = recorded
        \/ /\ gpc = "relay" /\ ended["gateway"] = Directions
           /\ recorded' = [recorded EXCEPT !["gateway"] = copied["gateway"]]
    BY <1>13, Zenon DEF RelayEnds, GatewayFails, GatewayEnds
  <2>3. Shrinks(wire["cg"], wire["cg"]) /\ Shrinks(wire["ng"], wire["ng"])
    BY Zenon DEF Shrinks
  <2>4. QED
    BY <2>1, <2>2, <2>3, GatewayQuitting, Zenon DEF GatewayFlow
<1>14. QED
  BY <1>1, <1>2, <1>3, <1>4, <1>5, <1>6, <1>7, <1>8, <1>9, <1>10, <1>11, <1>12,
     <1>13, Zenon DEF GatewayStep

(* Every step of the node is one of these.                                 *)
LEMMA NodeFlows ==
    ASSUME TypeOK, NodeStep
    PROVE  NodeFlow
<1> wire \in Wires
  BY Zenon DEF TypeOK, Wires
<1> USE DEF Streams
<1>1. CASE NodeGreeting
  <2> DEFINE m == negotiate(Head(wire.gn), FALSE, TRUE)
             f == Frame("method", m)
             v == Put(Take(wire, "gn"), "ng", f)
  <2>1. /\ wire["gn"] # <<>> /\ npc = "greeting" /\ Head(wire["gn"]).kind = "greeting"
    BY <1>1, Zenon DEF NodeGreeting, Arrived, Parses
  <2>2. m \in {"none", "pass", "unacceptable"}
    BY Zenon DEF negotiate
  <2>3. f \in Frames /\ f.kind = "method"
    BY <2>2, FrameKinds, Zenon
  <2>4. NodeEnds(v) \/ (m = "none" /\ NodeGoes("request", v))
    BY <1>1, <2>2, Zenon DEF NodeGreeting
  <2>5. m = "none" => f = Frame("method", "none")
    BY Zenon
  <2> HIDE DEF f, m
  <2>6. /\ v \in Wires /\ v["gn"] = Tail(wire["gn"])
        /\ v["ng"] = Append(wire["ng"], f)
        /\ \A r \in {"cg", "gc", "nt", "tn"} : v[r] = wire[r]
    BY <2>1, <2>3, TakePut, SMTT(30)
  <2> HIDE DEF v
  <2>7. Told(wire["ng"], v["ng"]) /\ Shrinks(wire["gn"], v["gn"])
    BY <2>1, <2>3, <2>6, Zenon DEF Told, Shrinks
  <2>8. CASE NodeEnds(v)
    <3>1. NodeReturns(v) /\ recorded' = recorded
      BY <2>8, Zenon DEF NodeEnds
    <3>2. QED
      BY <2>1, <2>6, <2>7, <3>1, NodeQuitting, Zenon DEF NodeFlow
  <2>9. CASE m = "none" /\ NodeGoes("request", v)
    BY <2>1, <2>5, <2>6, <2>9, Zenon DEF NodeFlow, NodeAdvances, NodeGoes, Keeps
  <2>10. QED
    BY <2>4, <2>8, <2>9, Zenon
<1>2. CASE NodeRequest
  <2> DEFINE w == Take(wire, "gn")
  <2>1. /\ wire["gn"] # <<>> /\ npc = "request" /\ Head(wire["gn"]).kind = "request"
    BY <1>2, Zenon DEF NodeRequest, Arrived, Parses
  <2>2. /\ w \in Wires /\ w["gn"] = Tail(wire["gn"])
        /\ \A r \in Streams \ {"gn"} : w[r] = wire[r]
    BY <2>1, TakeType, Zenon
  <2>3. CASE NodeGoes("connect", w)
    BY <2>1, <2>2, <2>3, Zenon DEF NodeFlow, NodeAdvances, NodeGoes, Keeps
  <2>4. CASE \E v \in try_reply(w, "ng", "unsupported") : NodeEnds(v)
    <3>1. PICK v \in try_reply(w, "ng", "unsupported") : NodeEnds(v)
      BY <2>4, Zenon
    <3> HIDE DEF w
    <3>2. /\ v \in Wires /\ \A r \in Streams \ {"ng"} : v[r] = w[r]
          /\ \/ v["ng"] = w["ng"]
             \/ v["ng"] = Append(w["ng"], Frame("reply", "unsupported"))
      BY <2>2, TryReplyType, Written, SMTT(30)
    <3>3. Told(wire["ng"], v["ng"])
      BY <2>2, <3>2, Kinds, Zenon DEF Told
    <3>4. /\ Shrinks(wire["gn"], v["gn"])
          /\ \A r \in {"cg", "gc", "nt", "tn"} : v[r] = wire[r]
      BY <2>1, <2>2, <3>2, Zenon DEF Shrinks
    <3>5. NodeReturns(v) /\ recorded' = recorded
      BY <3>1, Zenon DEF NodeEnds
    <3>6. QED
      BY <2>1, <3>2, <3>3, <3>4, <3>5, NodeQuitting, Zenon DEF NodeFlow
  <2>5. QED
    BY <1>2, <2>3, <2>4, Zenon DEF NodeRequest
<1>3. CASE NodeRejects
  <2> DEFINE w == Take(wire, "gn")
  <2>1. /\ wire["gn"] # <<>> /\ npc \notin {"off", "done", "relay"}
        /\ NodeReturns(w) /\ recorded' = recorded
    BY <1>3, Zenon DEF NodeRejects, Arrived, NodeEnds
  <2>2. /\ w \in Wires /\ w["gn"] = Tail(wire["gn"])
        /\ \A r \in Streams \ {"gn"} : w[r] = wire[r]
    BY <2>1, TakeType, Zenon
  <2> HIDE DEF w
  <2>3. Shrinks(wire["gn"], w["gn"])
    BY <2>1, <2>2, Zenon DEF Shrinks
  <2>4. QED
    BY <2>1, <2>2, <2>3, NodeQuitting, Zenon DEF NodeFlow
<1>4. CASE ConnectTarget
  BY <1>4, Zenon DEF ConnectTarget, NodeFlow, NodeAdvances, Keeps
<1>5. CASE ConnectTargetFails
  <2>1. PICK code \in {"refused", "unreachable", "expired"} :
           \E v \in try_reply(wire, "ng", code) : NodeEnds(v)
    BY <1>5, Zenon DEF ConnectTargetFails
  <2>2. PICK v \in try_reply(wire, "ng", code) : NodeEnds(v)
    BY <2>1, Zenon
  <2>3. Frame("reply", code) \in Frames /\ Frame("reply", code).kind = "reply"
    BY Kinds, Zenon
  <2>4. /\ v \in Wires /\ \A r \in Streams \ {"ng"} : v[r] = wire[r]
        /\ v["ng"] = wire["ng"] \/ v["ng"] = Append(wire["ng"], Frame("reply", code))
    BY <2>3, TryReplyType, SMTT(30)
  <2>5. Told(wire["ng"], v["ng"]) /\ npc = "connect"
    BY <1>5, <2>3, <2>4, Zenon DEF Told, ConnectTargetFails
  <2>6. Shrinks(wire["gn"], v["gn"])
    BY <2>4, Zenon DEF Shrinks
  <2>7. NodeReturns(v) /\ recorded' = recorded
    BY <2>2, Zenon DEF NodeEnds
  <2>8. QED
    BY <2>4, <2>5, <2>6, <2>7, NodeQuitting, Zenon DEF NodeFlow
<1>6. CASE NodeSuccess
  <2>1. /\ wire'["ng"] = Append(wire["ng"], Success)
        /\ \A r \in Streams \ {"ng"} : wire'[r] = wire[r]
    BY <1>6, PutOnly, Written, SMTT(30) DEF NodeSuccess, NodeGoes, Success
  <2>2. QED
    BY <1>6, <2>1, Zenon DEF NodeSuccess, NodeGoes, NodeFlow, NodeAdvances, Keeps
<1>7. CASE NodeCopies("up", "gn", "nt")
  BY <1>7, CopiesMove, Zenon DEF NodeCopies, NodeFlow, Hops, Directions
<1>8. CASE NodeCopies("down", "tn", "ng")
  BY <1>8, CopiesMove, Zenon DEF NodeCopies, NodeFlow, Hops, Directions
<1>9. CASE NodeRelayEnds \/ NodeFails
  <2>1. NodeReturns(wire) /\ npc \notin {"off", "done"}
    BY <1>9, Zenon DEF NodeRelayEnds, NodeFails, NodeEnds
  <2>2. \/ recorded' = recorded
        \/ /\ npc = "relay" /\ ended["node"] = Directions
           /\ recorded' = [recorded EXCEPT !["node"] = copied["node"]]
    BY <1>9, Zenon DEF NodeRelayEnds, NodeFails, NodeEnds
  <2>3. Shrinks(wire["gn"], wire["gn"])
    BY Zenon DEF Shrinks
  <2>4. QED
    BY <2>1, <2>2, <2>3, NodeQuitting, Zenon DEF NodeFlow
<1>10. QED
  BY <1>1, <1>2, <1>3, <1>4, <1>5, <1>6, <1>7, <1>8, <1>9, Zenon DEF NodeStep

(* Client and target.                                                      *)
EndsFlow ==
    /\ UNCHANGED <<gpc, npc, ended, counts>> /\ Keeps({"gc", "gn", "ng", "nt"})
    /\ \/ UNCHANGED <<target, sent, answered>> /\ Keeps({"cg", "tn"})
       \/ /\ UNCHANGED <<target, answered>> /\ Keeps({"tn"})
          /\ GatewayListens("up") /\ ~IsClosed(wire, "cg")
          /\ \E f \in Frames : /\ Follows(f) /\ sent' = Append(sent, f)
                              /\ wire'["cg"] = Append(wire["cg"], f)
       \/ /\ UNCHANGED <<target, sent, answered>> /\ Keeps({"tn"})
          /\ wire'["cg"] = Append(wire["cg"], Eof)
       \/ /\ UNCHANGED <<target, sent>> /\ Keeps({"cg"}) /\ target = "connected"
          /\ answered' = Append(answered, Data(Len(answered) + 1))
          /\ wire'["tn"] = Append(wire["tn"], Data(Len(answered) + 1))
       \/ /\ UNCHANGED <<sent, answered>> /\ Keeps({"cg"})
          /\ target = "connected" /\ target' = "closed"
          /\ wire'["tn"] = Append(wire["tn"], Eof)

(* Every step of client and target is one of these.                        *)
LEMMA EndsFlows ==
    ASSUME TypeOK, ClientSends \/ ClientCloses \/ TargetSends \/ TargetCloses
    PROVE  EndsFlow
<1> wire \in Wires
  BY Zenon DEF TypeOK, Wires
<1> USE DEF Streams
<1>1. CASE ClientSends
  <2>1. PICK f \in Frames : /\ Follows(f) /\ sent' = Append(sent, f)
                            /\ wire' = Put(wire, "cg", f)
    BY <1>1, Zenon DEF ClientSends
  <2>2. /\ wire'["cg"] = Append(wire["cg"], f)
        /\ \A r \in Streams \ {"cg"} : wire'[r] = wire[r]
    BY <2>1, PutOnly, SMTT(30)
  <2>3. /\ GatewayListens("up") /\ ~IsClosed(wire, "cg")
        /\ UNCHANGED <<gpc, npc, ended, counts, target, answered>>
    BY <1>1, Zenon DEF ClientSends, ClientOpen, GatewayListens
  <2>4. QED
    BY <2>1, <2>2, <2>3, Zenon DEF EndsFlow, Keeps
<1>2. CASE ClientCloses
  <2>1. /\ wire'["cg"] = Append(wire["cg"], Eof)
        /\ \A r \in Streams \ {"cg"} : wire'[r] = wire[r]
    BY <1>2, PutOnly, Written, SMTT(30) DEF ClientCloses
  <2>2. QED
    BY <1>2, <2>1, Zenon DEF ClientCloses, EndsFlow, Keeps
<1>3. CASE TargetSends
  <2> DEFINE f == Data(Len(answered) + 1)
  <2>1. f \in Frames
    <3>1. Len(answered) \in Nat
      BY DEF TypeOK
    <3>2. QED
      BY <1>3, <3>1, Written, MaxDataAssumption DEF TargetSends
  <2>2. wire' = Put(wire, "tn", f) /\ answered' = Append(answered, f)
    BY <1>3, Zenon DEF TargetSends
  <2> HIDE DEF f
  <2>3. /\ wire'["tn"] = Append(wire["tn"], f)
        /\ \A r \in Streams \ {"tn"} : wire'[r] = wire[r]
    BY <2>1, <2>2, PutOnly, SMTT(30)
  <2>4. QED
    BY <1>3, <2>2, <2>3, Zenon DEF TargetSends, EndsFlow, Keeps, f
<1>4. CASE TargetCloses
  <2>1. /\ wire'["tn"] = Append(wire["tn"], Eof)
        /\ \A r \in Streams \ {"tn"} : wire'[r] = wire[r]
    BY <1>4, PutOnly, Written, SMTT(30) DEF TargetCloses
  <2>2. QED
    BY <1>4, <2>1, Zenon DEF TargetCloses, EndsFlow, Keeps
<1>5. QED
  BY <1>1, <1>2, <1>3, <1>4, Zenon

(* Every step is one of these.                                             *)
LEMMA StepFlows ==
    ASSUME TypeOK, [Next]_vars
    PROVE  GatewayFlow \/ NodeFlow \/ EndsFlow
<1>1. CASE UNCHANGED vars
  BY <1>1, Zenon DEF vars, EndsFlow, Keeps
<1>2. CASE Next
  BY <1>2, GatewayFlows, NodeFlows, EndsFlows, Zenon DEF Next
<1>3. QED
  BY <1>1, <1>2, Zenon

(* The inductive invariant: what each of the six streams carries is the    *)
(* difference of the counts at its two ends.                               *)
PayloadInv ==
    /\ TypeOK /\ NodeAnswered /\ Control /\ Counted
    /\ FromClient /\ ToNode /\ ToTarget /\ FromTarget /\ ToGateway /\ ToClient

(* The types of counts and streams.                                        *)
LEMMA CountTypes ==
    ASSUME TypeOK
    PROVE  /\ \A h \in Hops : \A d \in Directions : copied[h][d] \in Nat
           /\ \A r \in Streams : wire[r] \in Seq(Frames)
           /\ sent \in Seq(Frames) /\ answered \in Seq(Frames)
  BY Zenon DEF TypeOK, Counts

(* A relay counts what it passes on, or notes the end.                     *)
LEMMA MovesCount ==
    ASSUME TypeOK, NEW hop \in Hops, NEW dir \in Directions,
           NEW from, NEW to, Moves(hop, dir, from, to)
    PROVE  /\ Head(wire[from]) = Eof =>
                 /\ copied' = copied /\ ended'[hop] = ended[hop] \cup {dir}
                 /\ \A h \in Hops \ {hop} : ended'[h] = ended[h]
           /\ Head(wire[from]) # Eof =>
                 /\ ended' = ended /\ copied'[hop][dir] = copied[hop][dir] + 1
                 /\ \A d \in Directions \ {dir} : copied'[hop][d] = copied[hop][d]
                 /\ \A h \in Hops \ {hop} : copied'[h] = copied[h]
<1>1. DOMAIN ended = Hops /\ DOMAIN copied = Hops /\ DOMAIN copied[hop] = Directions
  BY Zenon DEF TypeOK, Counts
<1>2. QED
  BY <1>1, Zenon DEF Moves

(* The parts of the invariant, one after the other, under every step.      *)
LEMMA ControlKept ==
    ASSUME PayloadInv, GatewayFlow \/ NodeFlow \/ EndsFlow
    PROVE  Control'
<1> TypeOK /\ NodeAnswered /\ Control
  BY Zenon DEF PayloadInv
<1> USE DEF Control
<1>1. CASE GatewayQuits \/ GatewayReads
  BY <1>1, Zenon DEF GatewayQuits, GatewayReads, counts
<1>2. CASE GatewayAdvances
  BY <1>2, Zenon DEF GatewayAdvances, NodeAnswered, counts
<1>3. CASE gpc = "relay" /\ \E dir \in Directions, from, to \in Streams :
              Moves("gateway", dir, from, to)
  <2>1. PICK dir \in Directions, from, to \in Streams :
              gpc = "relay" /\ Moves("gateway", dir, from, to)
    BY <1>3, Zenon
  <2>2. ended'["node"] = ended["node"] /\ copied'["node"] = copied["node"]
    BY <2>1, MovesCount, Zenon DEF Hops
  <2>3. QED
    BY <2>1, <2>2, Zenon DEF Moves
<1>4. CASE NodeQuits \/ NodeAdvances
  BY <1>4, Zenon DEF NodeQuits, NodeAdvances, counts
<1>5. CASE npc = "relay" /\ \E dir \in Directions, from, to \in Streams :
              Moves("node", dir, from, to)
  <2>1. PICK dir \in Directions, from, to \in Streams :
              npc = "relay" /\ Moves("node", dir, from, to)
    BY <1>5, Zenon
  <2>2. /\ ended'["gateway"] = ended["gateway"]
        /\ copied'["gateway"] = copied["gateway"]
    BY <2>1, MovesCount, Zenon DEF Hops
  <2>3. QED
    BY <2>1, <2>2, Zenon DEF Moves
<1>6. CASE EndsFlow
  BY <1>6, Zenon DEF EndsFlow, counts
<1>7. QED
  BY <1>1, <1>2, <1>3, <1>4, <1>5, <1>6, Zenon
  DEF GatewayFlow, NodeFlow, Directions, Streams

(* Counts are recorded after the relays and stay.                          *)
LEMMA CountedKept ==
    ASSUME PayloadInv, GatewayFlow \/ NodeFlow \/ EndsFlow
    PROVE  Counted'
<1> TypeOK /\ NodeAnswered /\ Counted
  BY Zenon DEF PayloadInv
<1> DOMAIN recorded = Hops
  BY Zenon DEF TypeOK
<1> USE DEF Counted
<1>1. CASE GatewayQuits
  <2>1. /\ gpc # "done" /\ gpc' = "done" /\ UNCHANGED <<npc, ended, copied>>
        /\ \/ recorded' = recorded
           \/ /\ ended["gateway"] = Directions
              /\ recorded' = [recorded EXCEPT !["gateway"] = copied["gateway"]]
    BY <1>1, Zenon DEF GatewayQuits
  <2>2. QED
    BY <2>1, Zenon DEF Hops
<1>2. CASE GatewayReads
  BY <1>2, Zenon DEF GatewayReads, counts
<1>3. CASE GatewayAdvances
  BY <1>3, Zenon DEF GatewayAdvances, NodeAnswered, counts
<1>4. CASE gpc = "relay" /\ \E dir \in Directions, from, to \in Streams :
              Moves("gateway", dir, from, to)
  <2>1. PICK dir \in Directions, from, to \in Streams :
              gpc = "relay" /\ Moves("gateway", dir, from, to)
    BY <1>4, Zenon
  <2>2. ended'["node"] = ended["node"] /\ copied'["node"] = copied["node"]
    BY <2>1, MovesCount, Zenon DEF Hops
  <2>3. QED
    BY <2>1, <2>2, Zenon DEF Moves
<1>5. CASE NodeQuits
  <2>1. /\ npc # "done" /\ npc' = "done" /\ UNCHANGED <<gpc, ended, copied>>
        /\ \/ recorded' = recorded
           \/ /\ ended["node"] = Directions
              /\ recorded' = [recorded EXCEPT !["node"] = copied["node"]]
    BY <1>5, Zenon DEF NodeQuits
  <2>2. QED
    BY <2>1, Zenon DEF Hops
<1>6. CASE NodeAdvances
  BY <1>6, Zenon DEF NodeAdvances, counts
<1>7. CASE npc = "relay" /\ \E dir \in Directions, from, to \in Streams :
              Moves("node", dir, from, to)
  <2>1. PICK dir \in Directions, from, to \in Streams :
              npc = "relay" /\ Moves("node", dir, from, to)
    BY <1>7, Zenon
  <2>2. /\ ended'["gateway"] = ended["gateway"]
        /\ copied'["gateway"] = copied["gateway"]
    BY <2>1, MovesCount, Zenon DEF Hops
  <2>3. QED
    BY <2>1, <2>2, Zenon DEF Moves
<1>8. CASE EndsFlow
  BY <1>8, Zenon DEF EndsFlow, counts
<1>9. QED
  BY <1>1, <1>2, <1>3, <1>4, <1>5, <1>6, <1>7, <1>8, Zenon
  DEF GatewayFlow, NodeFlow, Directions, Streams

(* What ends a stream, and what does not.                                  *)
LEMMA ShutBy ==
    ASSUME NEW s \in Seq(Frames)
    PROVE  /\ \A f \in Frames : f # Eof /\ Shut(Append(s, f)) => Shut(s)
           /\ \A t : Shrinks(s, t) /\ Shut(t) => Shut(s)
           /\ s # <<>> /\ Shut(Tail(s)) => Shut(s)
<1>1. \A f \in Frames : f # Eof /\ Shut(Append(s, f)) => Shut(s)
  BY HoldsAppend, Zenon DEF Shut
<1>2. \A t : Shrinks(s, t) /\ Shut(t) => Shut(s)
  BY HoldsShrinks, Zenon DEF Shut
<1>3. QED
  BY <1>1, <1>2, Zenon DEF Shrinks

(* The stream to the target: only the node's uplink writes to it.          *)
LEMMA ToTargetKept ==
    ASSUME PayloadInv, GatewayFlow \/ NodeFlow \/ EndsFlow
    PROVE  ToTarget'
<1> /\ TypeOK /\ NodeAnswered /\ Control /\ ToNode /\ ToTarget
  BY Zenon DEF PayloadInv
<1> DEFINE n == copied["node"]["up"]
<1>0. n \in Nat /\ wire["nt"] \in Seq(Frames) /\ wire["gn"] \in Seq(Frames)
      /\ copied["gateway"]["up"] \in Nat
  BY CountTypes, Zenon DEF Hops, Directions, Streams
<1>1. ASSUME UNCHANGED <<npc, ended, copied>>, Keeps({"nt"})
      PROVE  ToTarget'
  BY <1>1, Zenon DEF ToTarget, Keeps, NodeStopped
<1>2. CASE GatewayQuits \/ GatewayReads \/ EndsFlow
  BY <1>1, <1>2, Zenon DEF GatewayQuits, GatewayReads, EndsFlow, counts, Keeps
<1>3. CASE GatewayAdvances
  <2>1. UNCHANGED <<ended, copied>> /\ Keeps({"nt"})
        /\ (npc' = npc \/ (gpc = "connect" /\ npc' # "done"))
    BY <1>3, Zenon DEF GatewayAdvances, counts, Keeps
  <2>2. CASE npc' # npc
    <3>1. npc = "off"
      BY <2>1, <2>2, Zenon DEF NodeAnswered
    <3>2. ~Shut(wire["nt"])
      BY <3>1, Zenon DEF ToTarget, NodeStopped, Control
    <3>3. QED
      BY <2>1, <3>2, Zenon DEF ToTarget, Keeps
  <2>3. QED
    BY <1>1, <2>1, <2>2, Zenon
<1>4. ASSUME NEW dir \in Directions, NEW from \in Streams, NEW to \in Streams,
             "nt" \notin {from, to}, Moves("gateway", dir, from, to)
      PROVE  ToTarget'
  <2>1. ended'["node"] = ended["node"] /\ copied'["node"] = copied["node"]
    BY <1>4, MovesCount, Zenon DEF Hops
  <2>2. npc' = npc /\ wire'["nt"] = wire["nt"]
    BY <1>4, Zenon DEF Moves, Keeps, Streams
  <2>3. QED
    BY <2>1, <2>2, Zenon DEF ToTarget, NodeStopped
<1>5. CASE NodeQuits
  <2>1. npc' = "done" /\ copied' = copied /\ Closed(wire["nt"], wire'["nt"])
    BY <1>5, Zenon DEF NodeQuits
  <2>2. Carries(wire'["nt"], 0, 0, n, "eof")
    BY <1>0, <2>1, CarriesEof, Zenon DEF ToTarget
  <2>3. QED
    BY <2>1, <2>2, Zenon DEF ToTarget, NodeStopped
<1>6. CASE NodeAdvances
  <2>1. /\ npc \notin {"done", "relay"} /\ npc' # "done"
        /\ UNCHANGED <<ended, copied>> /\ Keeps({"nt"})
    BY <1>6, Zenon DEF NodeAdvances, counts, Keeps
  <2>2. ~Shut(wire["nt"])
    BY <2>1, Zenon DEF ToTarget, NodeStopped, Control
  <2>3. QED
    BY <2>1, <2>2, Zenon DEF ToTarget, Keeps
<1>7. CASE npc = "relay" /\ Moves("node", "down", "tn", "ng")
  <2>1. /\ copied'["node"]["up"] = n
        /\ "up" \in ended["node"] => "up" \in ended'["node"]
    BY <1>7, MovesCount, Zenon DEF Hops, Directions
  <2>2. npc' = npc /\ wire'["nt"] = wire["nt"]
    BY <1>7, Zenon DEF Moves, Keeps, Streams
  <2>3. QED
    BY <2>1, <2>2, Zenon DEF ToTarget, NodeStopped
<1>8. CASE npc = "relay" /\ Moves("node", "up", "gn", "nt")
  <2>1. /\ npc' = npc /\ npc = "relay" /\ "up" \notin ended["node"] /\ wire["gn"] # <<>>
        /\ Head(wire["gn"]) = Eof => Closed(wire["nt"], wire'["nt"])
        /\ Head(wire["gn"]) # Eof
              => wire'["nt"] = Append(wire["nt"], Head(wire["gn"]))
    BY <1>8, Zenon DEF Moves
  <2>2. ~Shut(wire["nt"])
    BY <2>1, Zenon DEF ToTarget, NodeStopped
  <2>3. Carries(wire["gn"], 0, n, copied["gateway"]["up"], "request")
    BY <2>1, Zenon DEF ToNode, Channel, NodeListens
  <2>4. Carries(wire["nt"], 0, 0, n, "eof")
    BY Zenon DEF ToTarget
  <2> HIDE DEF n
  <2>5. CASE Head(wire["gn"]) = Eof
    <3>1. copied'["node"]["up"] = n /\ "up" \in ended'["node"]
      BY <1>8, <2>5, MovesCount, Zenon DEF Hops, Directions, n
    <3>2. Carries(wire'["nt"], 0, 0, n, "eof")
      BY <1>0, <2>1, <2>4, <2>5, CarriesEof, Zenon
    <3>3. QED
      BY <3>1, <3>2, Zenon DEF ToTarget, NodeStopped
  <2>6. CASE Head(wire["gn"]) # Eof
    <3>1. copied'["node"]["up"] = n + 1
      BY <1>8, <2>6, MovesCount, Zenon DEF Hops, Directions, n
    <3>2. Head(wire["gn"]) = Data(n + 1)
      BY <1>0, <2>1, <2>3, <2>6, CarriesNext, ZenonT(30)
    <3>3. Carries(wire'["nt"], 0, 0, n + 1, "eof")
      BY <1>0, <2>1, <2>2, <2>4, <2>6, <3>2, CarriesData, Zenon
    <3>4. ~Shut(wire'["nt"])
      BY <1>0, <2>1, <2>2, <2>6, HoldsHead, ShutBy, Zenon
    <3>5. QED
      BY <3>1, <3>3, <3>4, Zenon DEF ToTarget
  <2>7. QED
    BY <2>5, <2>6, Zenon
<1>9. QED
  <2>1. CASE GatewayFlow
    BY <1>2, <1>3, <1>4, <2>1 DEF GatewayFlow, Directions, Streams
  <2>2. CASE NodeFlow
    BY <1>5, <1>6, <1>7, <1>8, <2>2, Zenon DEF NodeFlow
  <2>3. QED
    BY <1>2, <2>1, <2>2, Zenon

(* The stream to the client: the gateway answers, then relays.             *)
LEMMA ToClientKept ==
    ASSUME PayloadInv, GatewayFlow \/ NodeFlow \/ EndsFlow
    PROVE  ToClient'
<1> /\ TypeOK /\ NodeAnswered /\ Control /\ ToGateway /\ ToClient
  BY Zenon DEF PayloadInv
<1> DEFINE n == copied["gateway"]["down"]
<1>0. n \in Nat /\ wire["gc"] \in Seq(Frames) /\ wire["ng"] \in Seq(Frames)
      /\ copied["node"]["down"] \in Nat /\ Success \in Frames
  BY CountTypes, Kinds, Zenon DEF Hops, Directions, Streams
<1>a. PICK q \in Nat : Carries(wire["gc"], q, 0, n, "eof")
  BY Zenon DEF ToClient
<1>1. ASSUME UNCHANGED <<gpc, ended, copied>>, Keeps({"gc"})
      PROVE  ToClient'
  BY <1>1, Zenon DEF ToClient, Keeps, GatewayStopped
<1>2. CASE NodeQuits \/ NodeAdvances \/ EndsFlow
  BY <1>1, <1>2, Zenon DEF NodeQuits, NodeAdvances, EndsFlow, counts, Keeps
<1>3. ASSUME NEW dir \in Directions, NEW from \in Streams, NEW to \in Streams,
             "gc" \notin {from, to}, Moves("node", dir, from, to)
      PROVE  ToClient'
  <2>1. /\ ended'["gateway"] = ended["gateway"]
        /\ copied'["gateway"] = copied["gateway"]
    BY <1>3, MovesCount, Zenon DEF Hops
  <2>2. gpc' = gpc /\ wire'["gc"] = wire["gc"]
    BY <1>3, Zenon DEF Moves, Keeps, Streams
  <2>3. QED
    BY <2>1, <2>2, Zenon DEF ToClient, GatewayStopped
(* Another frame of the handshake.                                         *)
<1>4. ASSUME NEW t, Told(wire["gc"], t), gpc \notin {"relay", "done"}
      PROVE  /\ \E p \in Nat : Carries(t, p, 0, n, "eof")
             /\ ~Shut(t) /\ t \in Seq(Frames)
  <2>1. n = 0 /\ ~Shut(wire["gc"])
    BY <1>4, Zenon DEF Control, ToClient, GatewayStopped, Directions
  <2>2. CASE t = wire["gc"]
    BY <1>0, <1>a, <2>1, <2>2, Zenon
  <2>3. CASE t # wire["gc"]
    <3>1. PICK f \in Frames : f.kind \notin {"data", "eof"} /\ t = Append(wire["gc"], f)
      BY <1>4, <2>3, Zenon DEF Told
    <3>2. f # Eof
      BY <3>1, Kinds, Zenon
    <3>3. Carries(wire["gc"], q, 0, 0, "eof")
      BY <1>a, <2>1, Zenon
    <3>4. Carries(t, q + 1, 0, 0, "eof") /\ q + 1 \in Nat
      BY <1>0, <2>1, <3>1, <3>3, CarriesMore
    <3>5. ~Shut(t)
      BY <1>0, <2>1, <3>1, <3>2, ShutBy, Zenon
    <3>6. t \in Seq(Frames)
      BY <1>0, <3>1
    <3>7. QED
      BY <2>1, <3>4, <3>5, <3>6, Zenon
  <2>4. QED
    BY <2>2, <2>3, Zenon
<1>5. CASE GatewayQuits
  <2>1. /\ gpc # "done" /\ gpc' = "done" /\ copied' = copied
    BY <1>5, Zenon DEF GatewayQuits
  <2>2. PICK t : /\ t = wire["gc"] \/ (gpc # "relay" /\ Told(wire["gc"], t))
                 /\ Closed(t, wire'["gc"])
    BY <1>5, Zenon DEF GatewayQuits
  <2>3. PICK p \in Nat : Carries(t, p, 0, n, "eof")
    BY <1>a, <1>4, <2>1, <2>2, Zenon
  <2>4. t \in Seq(Frames)
    BY <1>0, <1>4, <2>1, <2>2, Zenon
  <2>5. Carries(wire'["gc"], p, 0, n, "eof")
    BY <1>0, <2>2, <2>3, <2>4, CarriesEof, Zenon
  <2>6. QED
    BY <2>1, <2>5, Zenon DEF ToClient, GatewayStopped
<1>6. CASE GatewayReads
  <2>1. /\ gpc \notin {"relay", "done"} /\ copied' = copied
        /\ Told(wire["gc"], wire'["gc"])
    BY <1>6, Zenon DEF GatewayReads, counts
  <2>2. QED
    BY <1>4, <2>1, Zenon DEF ToClient
<1>7. CASE GatewayAdvances
  <2>1. /\ gpc \notin {"relay", "done"} /\ copied' = copied
        /\ wire'["gc"] = wire["gc"] \/ wire'["gc"] = Append(wire["gc"], Success)
    BY <1>7, Zenon DEF GatewayAdvances, counts, Keeps
  <2>2. Told(wire["gc"], wire'["gc"])
    BY <1>0, <2>1, Kinds, Zenon DEF Told
  <2>3. QED
    BY <1>4, <2>1, <2>2, Zenon DEF ToClient
<1>8. CASE gpc = "relay" /\ Moves("gateway", "up", "cg", "gn")
  <2>1. /\ copied'["gateway"]["down"] = n
        /\ "down" \in ended["gateway"] => "down" \in ended'["gateway"]
    BY <1>8, MovesCount, Zenon DEF Hops, Directions
  <2>2. gpc' = gpc /\ wire'["gc"] = wire["gc"]
    BY <1>8, Zenon DEF Moves, Keeps, Streams
  <2>3. QED
    BY <2>1, <2>2, Zenon DEF ToClient, GatewayStopped
<1>9. CASE gpc = "relay" /\ Moves("gateway", "down", "ng", "gc")
  <2>1. /\ gpc' = gpc /\ gpc = "relay" /\ "down" \notin ended["gateway"]
        /\ wire["ng"] # <<>>
        /\ Head(wire["ng"]) = Eof => Closed(wire["gc"], wire'["gc"])
        /\ Head(wire["ng"]) # Eof
              => wire'["gc"] = Append(wire["gc"], Head(wire["ng"]))
    BY <1>9, Zenon DEF Moves
  <2>2. ~Shut(wire["gc"])
    BY <2>1, Zenon DEF ToClient, GatewayStopped
  <2>3. Carries(wire["ng"], 0, n, copied["node"]["down"], "reply")
    BY <2>1, Zenon DEF ToGateway, Channel, GatewayListens
  <2> HIDE DEF n
  <2>5. CASE Head(wire["ng"]) = Eof
    <3>1. copied'["gateway"]["down"] = n /\ "down" \in ended'["gateway"]
      BY <1>9, <2>5, MovesCount, Zenon DEF Hops, Directions, n
    <3>2. Carries(wire'["gc"], q, 0, n, "eof")
      BY <1>0, <1>a, <2>1, <2>5, CarriesEof, Zenon
    <3>3. QED
      BY <3>1, <3>2, Zenon DEF ToClient, GatewayStopped
  <2>6. CASE Head(wire["ng"]) # Eof
    <3>1. copied'["gateway"]["down"] = n + 1
      BY <1>9, <2>6, MovesCount, Zenon DEF Hops, Directions, n
    <3>2. Head(wire["ng"]) = Data(n + 1)
      BY <1>0, <2>1, <2>3, <2>6, CarriesNext, ZenonT(30)
    <3>3. Carries(wire'["gc"], q, 0, n + 1, "eof")
      BY <1>0, <1>a, <2>1, <2>2, <2>6, <3>2, CarriesData, Zenon
    <3>4. ~Shut(wire'["gc"])
      BY <1>0, <2>1, <2>2, <2>6, HoldsHead, ShutBy, Zenon
    <3>5. QED
      BY <3>1, <3>3, <3>4, Zenon DEF ToClient
  <2>7. QED
    BY <2>5, <2>6, Zenon
<1>10. QED
  <2>1. CASE NodeFlow
    BY <1>2, <1>3, <2>1, Zenon DEF NodeFlow, Directions, Streams
  <2>2. CASE GatewayFlow
    BY <1>5, <1>6, <1>7, <1>8, <1>9, <2>2, Zenon DEF GatewayFlow
  <2>3. QED
    BY <1>2, <2>1, <2>2, Zenon

(* A stream that has not ended has not ended after one more frame of data. *)
LEMMA OpenAfterData ==
    ASSUME NEW s \in Seq(Frames), ~Shut(s), NEW n
    PROVE  ~Shut(Append(s, Data(n)))
<1> DEFINE t == Append(s, Data(n))
<1>1. /\ Len(s) \in Nat /\ DOMAIN s = 1 .. Len(s) /\ t[Len(s) + 1] = Data(n)
      /\ \A i \in 1 .. Len(s) : t[i] = s[i]
  BY AppendTo
<1>2. \A i \in DOMAIN t : i \in 1 .. Len(s) \/ i = Len(s) + 1
  OBVIOUS
<1> HIDE DEF t
<1>3. \A i \in DOMAIN t : t[i] # Eof
  BY <1>1, <1>2, DataKind, Zenon DEF Shut, Holds
<1>4. QED
  BY <1>3, Zenon DEF Shut, Holds, t

(* The stream from the target: raw from the start.                         *)
LEMMA FromTargetKept ==
    ASSUME PayloadInv, GatewayFlow \/ NodeFlow \/ EndsFlow
    PROVE  FromTarget'
<1> /\ TypeOK /\ NodeAnswered /\ Control /\ FromTarget
  BY Zenon DEF PayloadInv
<1> DEFINE n == copied["node"]["down"]
           m == Len(answered)
           s == wire["tn"]
<1>0. n \in Nat /\ m \in Nat /\ s \in Seq(Frames) /\ answered \in Seq(Frames)
  <2>1. n \in Nat /\ s \in Seq(Frames) /\ answered \in Seq(Frames)
    BY CountTypes, Zenon DEF Hops, Directions, Streams
  <2>2. QED
    BY <2>1
<1>1. ASSUME NodeListens("down")' => NodeListens("down"),
             copied'["node"]["down"] = n, UNCHANGED <<answered, target>>,
             Keeps({"tn"})
      PROVE  FromTarget'
  BY <1>1, Zenon DEF FromTarget, Channel, Keeps
<1>2. CASE GatewayQuits \/ GatewayReads
  BY <1>1, <1>2, Zenon DEF GatewayQuits, GatewayReads, counts, Keeps, NodeListens
<1>3. CASE GatewayAdvances
  <2>1. UNCHANGED <<ended, copied, answered, target>> /\ Keeps({"tn"})
        /\ (npc' = npc \/ gpc = "connect")
    BY <1>3, Zenon DEF GatewayAdvances, counts, Keeps
  <2>2. gpc = "connect" => npc = "off"
    BY Zenon DEF NodeAnswered
  <2>3. QED
    BY <1>1, <2>1, <2>2, Zenon DEF NodeListens
<1>4. ASSUME NEW dir \in Directions, NEW from \in Streams, NEW to \in Streams,
             "tn" \notin {from, to}, Moves("gateway", dir, from, to)
      PROVE  FromTarget'
  <2>1. ended'["node"] = ended["node"] /\ copied'["node"] = copied["node"]
    BY <1>4, MovesCount, Zenon DEF Hops
  <2>2. UNCHANGED <<npc, answered, target>> /\ Keeps({"tn"})
    BY <1>4, Zenon DEF Moves, Keeps, Streams
  <2>3. QED
    BY <1>1, <2>1, <2>2, Zenon DEF NodeListens
<1>5. CASE NodeQuits
  BY <1>1, <1>5, Zenon DEF NodeQuits, Keeps, NodeListens
<1>6. CASE NodeAdvances
  <2>1. /\ npc # "done" /\ UNCHANGED <<ended, copied, answered>> /\ Keeps({"tn"})
        /\ target' = target \/ npc = "connect"
    BY <1>6, Zenon DEF NodeAdvances, counts, Keeps
  <2>2. npc = "connect" => ~Shut(wire["tn"])
    BY Zenon DEF Control, FromTarget
  <2>3. QED
    BY <2>1, <2>2, Zenon DEF FromTarget, Channel, Keeps, NodeListens
<1>7. CASE npc = "relay" /\ Moves("node", "up", "gn", "nt")
  <2>1. /\ copied'["node"]["down"] = n
        /\ "down" \in ended["node"] => "down" \in ended'["node"]
    BY <1>7, MovesCount, Zenon DEF Hops, Directions
  <2>2. UNCHANGED <<npc, answered, target>> /\ Keeps({"tn"})
    BY <1>7, Zenon DEF Moves, Keeps, Streams
  <2>3. QED
    BY <1>1, <2>1, <2>2, Zenon DEF NodeListens
<1>8. CASE npc = "relay" /\ Moves("node", "down", "tn", "ng")
  <2>1. /\ UNCHANGED <<npc, target, answered>> /\ npc = "relay"
        /\ "down" \notin ended["node"] /\ s # <<>> /\ wire'["tn"] = Tail(s)
    BY <1>8, Zenon DEF Moves
  <2>2. Carries(s, 0, n, m, "eof")
    BY <2>1, Zenon DEF FromTarget, Channel, NodeListens
  <2>3. Shut(Tail(s)) => target = "closed"
    BY <1>0, <2>1, ShutBy, Zenon DEF FromTarget
  <2>4. (\A i \in 1 .. Len(answered) : answered[i] = Data(i)) /\ n <= m
    BY Zenon DEF FromTarget
  <2> HIDE DEF n, m, s
  <2>5. CASE Head(s) = Eof
    <3>1. copied'["node"]["down"] = n /\ "down" \in ended'["node"]
      BY <1>8, <2>5, MovesCount, Zenon DEF Hops, Directions, n, s
    <3>2. QED
      BY <2>1, <2>3, <2>4, <3>1, Zenon DEF FromTarget, Channel, NodeListens, m
  <2>6. CASE Head(s) # Eof
    <3>1. copied'["node"]["down"] = n + 1
      BY <1>8, <2>6, MovesCount, Zenon DEF Hops, Directions, n, s
    <3>2. n + 1 <= m /\ Carries(Tail(s), 0, n + 1, m, "eof")
      BY <1>0, <2>1, <2>2, <2>6, CarriesNext, Zenon
    <3>3. 0 \in Nat
      OBVIOUS
    <3>4. QED
      BY <2>1, <2>3, <2>4, <3>1, <3>2, <3>3, Zenon DEF FromTarget, Channel, m
  <2>7. QED
    BY <2>5, <2>6, Zenon
<1>9. CASE EndsFlow
  <2>1. UNCHANGED <<npc, ended, copied>>
    BY <1>9, Zenon DEF EndsFlow, counts
  <2>2. CASE UNCHANGED <<target, answered>> /\ Keeps({"tn"})
    BY <1>1, <2>1, <2>2, Zenon DEF NodeListens
  <2>3. CASE target' = target /\ target = "connected"
             /\ answered' = Append(answered, Data(Len(answered) + 1))
             /\ wire'["tn"] = Append(s, Data(Len(answered) + 1))
    <3>1. ~Shut(s)
      BY <2>3, Zenon DEF FromTarget
    <3>2. ~Shut(wire'["tn"])
      BY <1>0, <2>3, <3>1, OpenAfterData, Zenon
    <3>3. /\ Len(answered') = m + 1 /\ answered'[m + 1] = Data(m + 1)
          /\ \A i \in 1 .. m : answered'[i] = answered[i]
      BY <1>0, <2>3
    <3>4. \A i \in 1 .. m : answered[i] = Data(i)
      BY Zenon DEF FromTarget
    <3>5. \A i \in 1 .. Len(answered') : answered'[i] = Data(i)
      <4> HIDE DEF m
      <4>1. \A i \in 1 .. Len(answered') : i \in 1 .. m \/ i = m + 1
        BY <1>0, <3>3
      <4>2. QED
        BY <3>3, <3>4, <4>1, Zenon
    <3>6. n <= m + 1
      BY <1>0 DEF FromTarget
    <3>7. NodeListens("down") => Carries(wire'["tn"], 0, n, m + 1, "eof")
      <4>1. 0 \in Nat
        OBVIOUS
      <4>2. NodeListens("down") => Carries(s, 0, n, m, "eof")
        BY Zenon DEF FromTarget, Channel
      <4> HIDE DEF n, m, s
      <4>3. NodeListens("down") => Carries(Append(s, Data(m + 1)), 0, n, m + 1, "eof")
        BY <1>0, <3>1, <4>1, <4>2, CarriesData, Zenon
      <4>4. QED
        BY <2>3, <4>3, Zenon DEF m
    <3>8. 0 \in Nat /\ NodeListens("down")' = NodeListens("down")
      BY <2>1, Zenon DEF NodeListens
    <3>9. QED
      BY <2>1, <3>2, <3>3, <3>5, <3>6, <3>7, <3>8, Zenon DEF FromTarget, Channel
  <2>4. CASE answered' = answered /\ target' = "closed" /\ wire'["tn"] = Append(s, Eof)
    <3>1. 0 \in Nat /\ Closed(s, wire'["tn"])
      BY <2>4, Zenon DEF Closed
    <3>2. NodeListens("down") => Carries(wire'["tn"], 0, n, m, "eof")
      <4>1. NodeListens("down") => Carries(s, 0, n, m, "eof")
        BY Zenon DEF FromTarget, Channel
      <4> HIDE DEF n, m, s
      <4>2. QED
        BY <1>0, <3>1, <4>1, CarriesEof, Zenon
    <3>3. NodeListens("down")' = NodeListens("down")
      BY <2>1, Zenon DEF NodeListens
    <3>4. QED
      BY <2>1, <2>4, <3>1, <3>2, <3>3, Zenon DEF FromTarget, Channel
  <2>5. QED
    <3>1. \/ UNCHANGED <<target, answered>> /\ Keeps({"tn"})
          \/ /\ target' = target /\ target = "connected"
             /\ answered' = Append(answered, Data(Len(answered) + 1))
             /\ wire'["tn"] = Append(wire["tn"], Data(Len(answered) + 1))
          \/ /\ answered' = answered /\ target' = "closed"
             /\ wire'["tn"] = Append(wire["tn"], Eof)
      BY <1>9, Zenon DEF EndsFlow, Keeps
    <3>2. QED
      BY <2>2, <2>3, <2>4, <3>1, Zenon
<1>10. QED
  <2>1. CASE GatewayFlow
    BY <1>2, <1>3, <1>4, <2>1, Zenon DEF GatewayFlow, Directions, Streams
  <2>2. CASE NodeFlow
    BY <1>5, <1>6, <1>7, <1>8, <2>2, Zenon DEF NodeFlow
  <2>3. QED
    BY <1>9, <2>1, <2>2, Zenon

(* The stream from node to gateway: the gateway reads the node's reply     *)
(* before it relays, so no frame of the handshake is left when it does.    *)
LEMMA ToGatewayKept ==
    ASSUME PayloadInv, GatewayFlow \/ NodeFlow \/ EndsFlow
    PROVE  ToGateway'
<1> /\ TypeOK /\ NodeAnswered /\ Control /\ FromTarget /\ ToGateway
  BY Zenon DEF PayloadInv
<1> DEFINE n == copied["gateway"]["down"]
           m == copied["node"]["down"]
           s == wire["ng"]
<1>0. n \in Nat /\ m \in Nat /\ s \in Seq(Frames) /\ 0 \in Nat
      /\ wire["tn"] \in Seq(Frames) /\ Len(answered) \in Nat
  <2>1. /\ n \in Nat /\ m \in Nat /\ s \in Seq(Frames) /\ wire["tn"] \in Seq(Frames)
        /\ answered \in Seq(Frames)
    BY CountTypes, Zenon DEF Hops, Directions, Streams
  <2>2. QED
    BY <2>1
<1>1. ASSUME GatewayListens("down")' => GatewayListens("down"),
             (gpc \in {"success", "relay"})' => gpc \in {"success", "relay"},
             NodeStopped("down") => NodeStopped("down")',
             copied'["node"]["down"] = m, copied'["gateway"]["down"] = n,
             "down" \in ended'["gateway"] => "down" \in ended["gateway"],
             Keeps({"ng"})
      PROVE  ToGateway'
  BY <1>1, Zenon DEF ToGateway, Channel, Keeps
<1>2. CASE GatewayQuits
  <2>1. /\ gpc' = "done" /\ UNCHANGED <<npc, ended, copied>>
        /\ Shrinks(s, wire'["ng"])
    BY <1>2, Zenon DEF GatewayQuits
  <2>2. Shut(wire'["ng"]) => Shut(s)
    BY <1>0, <2>1, ShutBy, Zenon
  <2>3. QED
    BY <2>1, <2>2, Zenon DEF ToGateway, Channel, GatewayListens, NodeStopped
<1>3. CASE GatewayReads \/ EndsFlow
  <2>1. /\ UNCHANGED <<npc, ended, copied>> /\ Keeps({"ng"})
        /\ \/ gpc' = gpc
           \/ /\ gpc' \in {"credentials", "request", "select"}
              /\ gpc \in {"greeting", "credentials", "request"}
    BY <1>3, Zenon DEF GatewayReads, EndsFlow, counts, Keeps
  <2>2. QED
    BY <1>1, <2>1, Zenon DEF GatewayListens, NodeStopped
<1>4. CASE GatewayAdvances
  <2>1. /\ UNCHANGED <<ended, copied>> /\ gpc \notin {"relay", "done"}
        /\ npc' = npc \/ gpc = "connect"
        /\ \/ Keeps({"ng"}) /\ (gpc' \in {"success", "relay"} => gpc = "success")
           \/ /\ s # <<>> /\ wire'["ng"] = Tail(s)
              /\ \/ Head(s).kind = "method" /\ gpc' = "reply"
                 \/ Head(s).kind = "reply" /\ gpc' = "success"
    BY <1>4, Zenon DEF GatewayAdvances, counts, Keeps
  <2>2. NodeStopped("down") => npc' = npc
    BY <2>1, Zenon DEF NodeAnswered, NodeStopped, Control
  <2>3. GatewayListens("down") /\ "down" \notin ended["gateway"]
    BY <2>1, Zenon DEF GatewayListens, Control
  <2>4. CASE Keeps({"ng"}) /\ (gpc' \in {"success", "relay"} => gpc = "success")
    BY <1>1, <2>1, <2>2, <2>3, <2>4, Zenon DEF NodeStopped
  <2>5. CASE /\ s # <<>> /\ wire'["ng"] = Tail(s)
             /\ \/ Head(s).kind = "method" /\ gpc' = "reply"
                \/ Head(s).kind = "reply" /\ gpc' = "success"
    <3>1. PICK q \in Nat : Carries(s, q, n, m, "reply")
      BY <2>3, Zenon DEF ToGateway, Channel
    <3>2. n <= m
      BY Zenon DEF ToGateway
    <3>3. Shut(Tail(s)) => NodeStopped("down")
      BY <1>0, <2>5, ShutBy, Zenon DEF ToGateway
    <3> HIDE DEF n, m, s
    <3>4. /\ q - 1 \in Nat /\ Carries(Tail(s), q - 1, n, m, "reply")
          /\ Head(s).kind = "reply" => q - 1 = 0
      <4>1. Head(s).kind \notin {"data", "eof"}
        BY <2>5, Zenon
      <4>2. QED
        BY <1>0, <2>5, <3>1, <4>1, CarriesLess, Zenon
    <3>5. gpc' \in {"success", "relay"} => Head(s).kind = "reply"
      BY <2>5, Zenon
    <3>6. QED
      BY <2>1, <2>2, <2>3, <2>5, <3>2, <3>3, <3>4, <3>5, Zenon
      DEF ToGateway, Channel, NodeStopped, n, m
  <2>6. QED
    BY <2>1, <2>4, <2>5, Zenon
<1>5. CASE gpc = "relay" /\ Moves("gateway", "up", "cg", "gn")
  <2>1. /\ copied'["gateway"]["down"] = n /\ copied'["node"] = copied["node"]
        /\ "down" \in ended["gateway"] <=> "down" \in ended'["gateway"]
        /\ ended'["node"] = ended["node"]
    BY <1>5, MovesCount, Zenon DEF Hops, Directions
  <2>2. UNCHANGED <<gpc, npc>> /\ Keeps({"ng"})
    BY <1>5, Zenon DEF Moves, Keeps, Streams
  <2>3. QED
    BY <1>1, <2>1, <2>2, Zenon DEF GatewayListens, NodeStopped
<1>6. CASE gpc = "relay" /\ Moves("gateway", "down", "ng", "gc")
  <2>1. /\ UNCHANGED <<npc, gpc>> /\ gpc = "relay"
        /\ "down" \notin ended["gateway"] /\ s # <<>> /\ wire'["ng"] = Tail(s)
    BY <1>6, Zenon DEF Moves
  <2>2. Carries(s, 0, n, m, "reply")
    BY <2>1, Zenon DEF ToGateway, Channel, GatewayListens
  <2>3. /\ Shut(s) => NodeStopped("down")
        /\ Shut(Tail(s)) => Shut(s)
    BY <1>0, <2>1, ShutBy, Zenon DEF ToGateway
  <2>4. /\ copied'["node"]["down"] = m /\ ended'["node"] = ended["node"]
    BY <1>6, MovesCount, Zenon DEF Hops, Directions
  <2> HIDE DEF n, m, s
  <2>5. CASE Head(s) = Eof
    <3>1. copied'["gateway"]["down"] = n /\ "down" \in ended'["gateway"]
      BY <1>6, <2>5, MovesCount, Zenon DEF Hops, Directions, n, s
    <3>2. n = m /\ Shut(s)
      BY <1>0, <2>1, <2>2, <2>5, CarriesNext, Zenon
    <3>3. n <= m
      BY <1>0, <3>2
    <3>4. QED
      BY <2>1, <2>3, <2>4, <3>1, <3>2, <3>3, Zenon
      DEF ToGateway, Channel, GatewayListens, NodeStopped
  <2>6. CASE Head(s) # Eof
    <3>1. copied'["gateway"]["down"] = n + 1 /\ ended' = ended
      BY <1>6, <2>6, MovesCount, Zenon DEF Hops, Directions, n, s
    <3>2. n + 1 <= m /\ Carries(Tail(s), 0, n + 1, m, "reply")
      BY <1>0, <2>1, <2>2, <2>6, CarriesNext, Zenon
    <3>3. QED
      BY <1>0, <2>1, <2>3, <2>4, <3>1, <3>2, Zenon
      DEF ToGateway, Channel, NodeStopped
  <2>7. QED
    BY <2>5, <2>6, Zenon
(* Another frame of the handshake.                                         *)
<1>7. ASSUME NEW t, Told(s, t), npc \notin {"relay", "done"},
             GatewayListens("down")
      PROVE  /\ \E q \in Nat : Carries(t, q, n, m, "reply")
             /\ gpc \notin {"success", "relay"}
             /\ ~Shut(t) /\ t \in Seq(Frames)
  <2>1. n = 0 /\ m = 0 /\ ~Shut(s) /\ No("reply", s)
        /\ gpc \notin {"success", "relay"}
    <3>1. m = 0 /\ ~Shut(s) /\ No("reply", s) /\ n <= m
          /\ gpc \notin {"success", "relay"}
      BY <1>7, Zenon DEF Control, ToGateway, NodeStopped, NodeAnswered, Directions
    <3> HIDE DEF n, m, s
    <3>2. QED
      BY <1>0, <3>1
  <2>a. PICK q \in Nat : Carries(s, q, n, m, "reply")
    BY <1>7, Zenon DEF ToGateway, Channel
  <2> HIDE DEF n, m, s
  <2>2. CASE t = s
    BY <1>0, <2>a, <2>1, <2>2, Zenon
  <2>3. CASE t # s
    <3>1. PICK f \in Frames : f.kind \notin {"data", "eof"} /\ t = Append(s, f)
      BY <1>7, <2>3, Zenon DEF Told
    <3>2. f # Eof
      BY <3>1, Kinds, Zenon
    <3>3. Carries(s, q, 0, 0, "reply")
      BY <2>a, <2>1, Zenon
    <3>4. Carries(t, q + 1, 0, 0, "reply") /\ q + 1 \in Nat
      BY <1>0, <2>1, <3>1, <3>3, CarriesMore
    <3>5. ~Shut(t)
      BY <1>0, <2>1, <3>1, <3>2, ShutBy, Zenon
    <3>6. t \in Seq(Frames)
      BY <1>0, <3>1
    <3>7. QED
      BY <2>1, <3>4, <3>5, <3>6, Zenon
  <2>4. QED
    BY <2>2, <2>3, Zenon
<1>8. CASE NodeQuits
  <2>1. /\ npc # "done" /\ npc' = "done" /\ UNCHANGED <<gpc, ended, copied>>
    BY <1>8, Zenon DEF NodeQuits
  <2>2. PICK t : /\ t = s \/ (npc # "relay" /\ Told(s, t))
                 /\ Closed(t, wire'["ng"])
    BY <1>8, Zenon DEF NodeQuits
  <2>3. ASSUME GatewayListens("down")
        PROVE  \E q \in Nat : /\ Carries(wire'["ng"], q, n, m, "reply")
                              /\ gpc \in {"success", "relay"} => q = 0
    <3>1. PICK q \in Nat : /\ Carries(t, q, n, m, "reply")
                           /\ gpc \in {"success", "relay"} => q = 0
      BY <1>7, <2>1, <2>2, <2>3, Zenon DEF ToGateway, Channel
    <3>2. t \in Seq(Frames)
      BY <1>0, <1>7, <2>1, <2>2, <2>3, Zenon
    <3> HIDE DEF n, m, s
    <3>3. Carries(wire'["ng"], q, n, m, "reply")
      BY <1>0, <2>2, <3>1, <3>2, CarriesEof, Zenon
    <3>4. QED
      BY <3>1, <3>3, Zenon
  <2>4. /\ n <= m /\ ("down" \in ended["gateway"] => n = m)
    BY Zenon DEF ToGateway
  <2>5. QED
    BY <2>1, <2>3, <2>4, Zenon DEF ToGateway, Channel, GatewayListens, NodeStopped
<1>9. CASE NodeAdvances
  <2>1. /\ npc \notin {"done", "relay"} /\ UNCHANGED <<gpc, ended, copied>>
        /\ npc' # "done"
        /\ Keeps({"ng"}) \/ \E f \in {Frame("method", "none"), Success} :
                                  wire'["ng"] = Append(s, f)
    BY <1>9, Zenon DEF NodeAdvances, counts, Keeps
  <2>2. Told(s, wire'["ng"])
    <3>1. \A f \in {Frame("method", "none"), Success} :
             f \in Frames /\ f.kind \notin {"data", "eof"}
      BY Kinds, FrameKinds
    <3>2. QED
      BY <2>1, <3>1, Zenon DEF Told, Keeps
  <2>3. ~NodeStopped("down")
    BY <2>1, Zenon DEF NodeStopped, Control
  <2>4. /\ n <= m /\ "down" \notin ended["gateway"] /\ ~Shut(s)
    BY <2>3, Zenon DEF ToGateway
  <2>5. CASE GatewayListens("down")
    BY <1>7, <2>1, <2>2, <2>4, <2>5, Zenon DEF ToGateway, Channel
  <2>6. CASE ~GatewayListens("down")
    <3>1. ~Shut(wire'["ng"])
      <4>1. \A f \in Frames : f.kind \notin {"data", "eof"} => f # Eof
        BY Kinds, Zenon
      <4>2. QED
        BY <1>0, <2>2, <2>4, <4>1, ShutBy, Zenon DEF Told
    <3>2. QED
      BY <2>1, <2>4, <2>6, <3>1, Zenon DEF ToGateway, Channel, GatewayListens
  <2>7. QED
    BY <2>5, <2>6, Zenon
<1>10. CASE npc = "relay" /\ Moves("node", "up", "gn", "nt")
  <2>1. /\ copied'["node"]["down"] = m /\ copied'["gateway"] = copied["gateway"]
        /\ "down" \in ended["node"] => "down" \in ended'["node"]
        /\ ended'["gateway"] = ended["gateway"]
    BY <1>10, MovesCount, Zenon DEF Hops, Directions
  <2>2. UNCHANGED <<gpc, npc>> /\ Keeps({"ng"})
    BY <1>10, Zenon DEF Moves, Keeps, Streams
  <2>3. QED
    BY <1>1, <2>1, <2>2, Zenon DEF GatewayListens, NodeStopped
<1>11. CASE npc = "relay" /\ Moves("node", "down", "tn", "ng")
  <2>1. /\ UNCHANGED <<gpc, npc>> /\ npc = "relay" /\ "down" \notin ended["node"]
        /\ wire["tn"] # <<>>
        /\ Head(wire["tn"]) = Eof => Closed(s, wire'["ng"])
        /\ Head(wire["tn"]) # Eof => wire'["ng"] = Append(s, Head(wire["tn"]))
    BY <1>11, Zenon DEF Moves
  <2>2. ~Shut(s) /\ "down" \notin ended["gateway"] /\ n <= m
    BY <2>1, Zenon DEF ToGateway, NodeStopped
  <2>3. Carries(wire["tn"], 0, m, Len(answered), "eof")
    BY <2>1, Zenon DEF FromTarget, Channel, NodeListens
  <2>4. copied'["gateway"]["down"] = n /\ ended'["gateway"] = ended["gateway"]
    BY <1>11, MovesCount, Zenon DEF Hops, Directions
  <2>5. GatewayListens("down") =>
           \E q \in Nat : /\ Carries(s, q, n, m, "reply")
                          /\ gpc \in {"success", "relay"} => q = 0
    BY Zenon DEF ToGateway, Channel
  <2> HIDE DEF n, m, s
  <2>6. CASE Head(wire["tn"]) = Eof
    <3>1. copied'["node"]["down"] = m /\ "down" \in ended'["node"]
      BY <1>11, <2>6, MovesCount, Zenon DEF Hops, Directions, m
    <3>2. \A q \in Nat : Carries(s, q, n, m, "reply")
                            => Carries(wire'["ng"], q, n, m, "reply")
      BY <1>0, <2>1, <2>6, CarriesEof, Zenon
    <3>3. QED
      BY <2>1, <2>2, <2>4, <2>5, <3>1, <3>2, Zenon
      DEF ToGateway, Channel, GatewayListens, NodeStopped
  <2>7. CASE Head(wire["tn"]) # Eof
    <3>1. copied'["node"]["down"] = m + 1
      BY <1>11, <2>7, MovesCount, Zenon DEF Hops, Directions, m
    <3>2. Head(wire["tn"]) = Data(m + 1)
      BY <1>0, <2>1, <2>3, <2>7, CarriesNext, Zenon
    <3>3. \A q \in Nat : Carries(s, q, n, m, "reply")
                            => Carries(wire'["ng"], q, n, m + 1, "reply")
      BY <1>0, <2>1, <2>2, <2>7, <3>2, CarriesData, Zenon
    <3>4. ~Shut(wire'["ng"])
      BY <1>0, <2>1, <2>2, <2>7, <3>2, OpenAfterData, Zenon
    <3>5. n <= m + 1
      BY <1>0, <2>2
    <3>6. QED
      BY <2>1, <2>2, <2>4, <2>5, <3>1, <3>3, <3>4, <3>5, Zenon
      DEF ToGateway, Channel, GatewayListens, NodeStopped
  <2>8. QED
    BY <2>6, <2>7, Zenon
<1>12. QED
  BY <1>2, <1>3, <1>4, <1>5, <1>6, <1>8, <1>9, <1>10, <1>11, Zenon
  DEF GatewayFlow, NodeFlow

(* The stream from gateway to node: the node reads the request before it   *)
(* relays.                                                                 *)
LEMMA ToNodeKept ==
    ASSUME PayloadInv, GatewayFlow \/ NodeFlow \/ EndsFlow
    PROVE  ToNode'
<1> /\ TypeOK /\ NodeAnswered /\ Control /\ FromClient /\ ToNode
  BY Zenon DEF PayloadInv
<1> DEFINE n == copied["node"]["up"]
           m == copied["gateway"]["up"]
           s == wire["gn"]
           Early == {"greeting", "credentials", "request", "select", "connect", "method"}
<1>0. n \in Nat /\ m \in Nat /\ s \in Seq(Frames) /\ 0 \in Nat
      /\ wire["cg"] \in Seq(Frames)
  BY CountTypes, Zenon DEF Hops, Directions, Streams
<1>1. ASSUME NodeListens("up")' => NodeListens("up"),
             (npc \in {"connect", "success", "relay"})'
                => npc \in {"connect", "success", "relay"},
             gpc' \in Early => gpc \in Early, gpc' = "method" => gpc = "method",
             GatewayStopped("up") => GatewayStopped("up")',
             copied'["node"]["up"] = n, copied'["gateway"]["up"] = m,
             "up" \in ended'["node"] => "up" \in ended["node"], Keeps({"gn"})
      PROVE  ToNode'
  BY <1>1, Zenon DEF ToNode, Channel, Keeps
<1>2. CASE GatewayQuits
  <2>1. /\ gpc' = "done" /\ UNCHANGED <<npc, ended, copied>>
        /\ Closed(s, wire'["gn"])
    BY <1>2, Zenon DEF GatewayQuits
  <2>2. \A q \in Nat : Carries(s, q, n, m, "request")
                          => Carries(wire'["gn"], q, n, m, "request")
    <3> HIDE DEF n, m, s
    <3>1. QED
      BY <1>0, <2>1, CarriesEof, Zenon
  <2>3. gpc' \notin Early
    BY <2>1, Zenon
  <2>4. QED
    BY <2>1, <2>2, <2>3, Zenon DEF ToNode, Channel, NodeListens, GatewayStopped
<1>3. CASE GatewayReads \/ EndsFlow
  <2>1. /\ UNCHANGED <<npc, ended, copied>> /\ Keeps({"gn"})
        /\ \/ gpc' = gpc
           \/ /\ gpc' \in {"credentials", "request", "select"}
              /\ gpc \in {"greeting", "credentials", "request"}
    BY <1>3, Zenon DEF GatewayReads, EndsFlow, counts, Keeps
  <2>2. QED
    BY <1>1, <2>1, Zenon DEF NodeListens, GatewayStopped
<1>4. CASE GatewayAdvances
  <2>1. /\ UNCHANGED <<ended, copied>>
        /\ gpc \in {"select", "connect", "method", "reply", "success"}
        /\ \/ /\ gpc = "select" /\ gpc' = "connect" /\ npc' = npc /\ Keeps({"gn"})
           \/ /\ gpc = "connect" /\ gpc' = "method" /\ npc' = "greeting"
              /\ wire'["gn"] = Append(s, Frame("greeting", "none"))
           \/ /\ gpc = "method" /\ gpc' = "reply" /\ npc' = npc
              /\ wire'["gn"] = Append(s, Frame("request", "connect"))
           \/ /\ gpc = "reply" /\ gpc' = "success" /\ npc' = npc /\ Keeps({"gn"})
           \/ /\ gpc = "success" /\ gpc' = "relay" /\ npc' = npc /\ Keeps({"gn"})
    BY <1>4, Zenon DEF GatewayAdvances, counts, Keeps
  <2>2. ~GatewayStopped("up") /\ m = 0 /\ n <= m /\ n = 0
    <3>1. ~GatewayStopped("up") /\ m = 0 /\ n <= m
      BY <2>1, Zenon DEF GatewayStopped, Control, ToNode, Directions
    <3> HIDE DEF n, m
    <3>2. QED
      BY <1>0, <3>1
  <2>3. ~Shut(s) /\ "up" \notin ended["node"]
    BY <2>2, Zenon DEF ToNode
  <2>4. ASSUME NEW k, NEW a, k \in {"greeting", "request"}, No("request", s),
               wire'["gn"] = Append(s, Frame(k, a))
        PROVE  /\ NodeListens("up") =>
                     \E q \in Nat : Carries(wire'["gn"], q, n, m, "request")
               /\ ~Shut(wire'["gn"])
    <3>1. Frame(k, a).kind \notin {"data", "eof"}
      BY <2>4, FrameKinds, Zenon
    <3>2. \A q \in Nat : Carries(s, q, n, m, "request")
             => Carries(wire'["gn"], q + 1, n, m, "request") /\ q + 1 \in Nat
      <4>1. n = m
        BY <2>2, Zenon
      <4> HIDE DEF n, m, s
      <4>2. QED
        BY <1>0, <2>3, <2>4, <3>1, <4>1, CarriesMore
    <3>3. ~Shut(wire'["gn"])
      <4> HIDE DEF s
      <4>1. Frame(k, a) # Eof
        BY <3>1, Kinds, Zenon
      <4>2. \A i \in DOMAIN Append(s, Frame(k, a)) :
               \/ Append(s, Frame(k, a))[i] = Frame(k, a)
               \/ i \in DOMAIN s /\ Append(s, Frame(k, a))[i] = s[i]
        BY <1>0
      <4>3. QED
        BY <2>3, <2>4, <4>1, <4>2, Zenon DEF Shut, Holds
    <3>4. QED
      BY <3>2, <3>3, Zenon DEF ToNode, Channel
  <2>5. CASE npc' = npc /\ Keeps({"gn"}) /\ gpc \in {"select", "reply", "success"}
             /\ (gpc' \in Early => gpc = "select") /\ gpc' # "method"
    BY <1>1, <2>1, <2>2, <2>5, Zenon DEF NodeListens, GatewayStopped
  <2>6. CASE gpc = "connect" /\ gpc' = "method" /\ npc' = "greeting"
             /\ wire'["gn"] = Append(s, Frame("greeting", "none"))
    <3>1. npc = "off" /\ NodeListens("up") /\ No("request", s)
      BY <2>3, <2>6, Zenon DEF NodeAnswered, NodeListens, ToNode
    <3>2. No("request", wire'["gn"])
      <4>1. /\ Frame("greeting", "none").kind = "greeting"
            /\ Frame("greeting", "none") \in Frames
        BY FrameKinds, Written, Zenon
      <4>2. QED
        BY <1>0, <2>6, <3>1, <4>1, AppendKinds, Zenon
    <3>3. /\ \E q \in Nat : Carries(wire'["gn"], q, n, m, "request")
          /\ ~Shut(wire'["gn"])
      BY <2>4, <2>6, <3>1
    <3>4. QED
      BY <2>1, <2>2, <2>3, <2>6, <3>2, <3>3, Zenon DEF ToNode, Channel
  <2>7. CASE gpc = "method" /\ gpc' = "reply" /\ npc' = npc
             /\ wire'["gn"] = Append(s, Frame("request", "connect"))
    <3>1. No("request", s) /\ npc \notin {"connect", "success", "relay"}
      BY <2>7, Zenon DEF ToNode
    <3>2. gpc' \notin Early /\ gpc' # "method"
      BY <2>7, Zenon
    <3>3. /\ NodeListens("up") =>
                \E q \in Nat : Carries(wire'["gn"], q, n, m, "request")
          /\ ~Shut(wire'["gn"])
      BY <2>4, <2>7, <3>1
    <3>4. QED
      BY <2>1, <2>2, <2>3, <2>7, <3>1, <3>2, <3>3, Zenon DEF ToNode, Channel, NodeListens
  <2>8. QED
    BY <2>1, <2>5, <2>6, <2>7, Zenon
<1>5. CASE gpc = "relay" /\ Moves("gateway", "up", "cg", "gn")
  <2>1. /\ UNCHANGED <<gpc, npc>> /\ gpc = "relay" /\ "up" \notin ended["gateway"]
        /\ wire["cg"] # <<>>
        /\ Head(wire["cg"]) = Eof => Closed(s, wire'["gn"])
        /\ Head(wire["cg"]) # Eof => wire'["gn"] = Append(s, Head(wire["cg"]))
    BY <1>5, Zenon DEF Moves
  <2>2. ~Shut(s) /\ "up" \notin ended["node"] /\ n <= m
    BY <2>1, Zenon DEF ToNode, GatewayStopped
  <2>3. PICK k \in Nat : Carries(wire["cg"], 0, m, k, "request")
    BY <2>1, Zenon DEF FromClient, Channel, GatewayListens
  <2>4. copied'["node"]["up"] = n /\ ended'["node"] = ended["node"]
    BY <1>5, MovesCount, Zenon DEF Hops, Directions
  <2>5. NodeListens("up") =>
           \E q \in Nat : /\ Carries(s, q, n, m, "request")
                          /\ npc \in {"connect", "success", "relay"} => q = 0
    BY Zenon DEF ToNode, Channel
  <2> HIDE DEF n, m, s
  <2>6. CASE Head(wire["cg"]) = Eof
    <3>1. copied'["gateway"]["up"] = m /\ "up" \in ended'["gateway"]
      BY <1>5, <2>6, MovesCount, Zenon DEF Hops, Directions, m
    <3>2. \A q \in Nat : Carries(s, q, n, m, "request")
                            => Carries(wire'["gn"], q, n, m, "request")
      BY <1>0, <2>1, <2>6, CarriesEof, Zenon
    <3>3. QED
      BY <2>1, <2>2, <2>4, <2>5, <3>1, <3>2, Zenon
      DEF ToNode, Channel, NodeListens, GatewayStopped
  <2>7. CASE Head(wire["cg"]) # Eof
    <3>1. copied'["gateway"]["up"] = m + 1
      BY <1>5, <2>7, MovesCount, Zenon DEF Hops, Directions, m
    <3>2. Head(wire["cg"]) = Data(m + 1)
      BY <1>0, <2>1, <2>3, <2>7, CarriesNext, Zenon
    <3>3. \A q \in Nat : Carries(s, q, n, m, "request")
                            => Carries(wire'["gn"], q, n, m + 1, "request")
      BY <1>0, <2>1, <2>2, <2>7, <3>2, CarriesData, Zenon
    <3>4. ~Shut(wire'["gn"])
      BY <1>0, <2>1, <2>2, <2>7, <3>2, OpenAfterData, Zenon
    <3>5. n <= m + 1
      BY <1>0, <2>2
    <3>6. QED
      BY <2>1, <2>2, <2>4, <2>5, <3>1, <3>3, <3>4, <3>5, Zenon
      DEF ToNode, Channel, NodeListens, GatewayStopped
  <2>8. QED
    BY <2>6, <2>7, Zenon
<1>6. CASE gpc = "relay" /\ Moves("gateway", "down", "ng", "gc")
  <2>1. /\ copied'["gateway"]["up"] = m /\ copied'["node"] = copied["node"]
        /\ "up" \in ended["gateway"] => "up" \in ended'["gateway"]
        /\ ended'["node"] = ended["node"]
    BY <1>6, MovesCount, Zenon DEF Hops, Directions
  <2>2. UNCHANGED <<gpc, npc>> /\ Keeps({"gn"})
    BY <1>6, Zenon DEF Moves, Keeps, Streams
  <2>3. QED
    BY <1>1, <2>1, <2>2, Zenon DEF NodeListens, GatewayStopped
<1>7. CASE NodeQuits
  <2>1. /\ npc' = "done" /\ UNCHANGED <<gpc, ended, copied>>
        /\ Shrinks(s, wire'["gn"])
    BY <1>7, Zenon DEF NodeQuits
  <2>2. /\ Shut(wire'["gn"]) => Shut(s)
        /\ No("request", s) => No("request", wire'["gn"])
    BY <1>0, <2>1, ShutBy, ShrinksKinds, Zenon
  <2>3. QED
    BY <2>1, <2>2, Zenon DEF ToNode, Channel, NodeListens, GatewayStopped
<1>8. CASE NodeAdvances
  <2>1. /\ UNCHANGED <<gpc, ended, copied>>
        /\ \/ /\ npc = "greeting" /\ npc' = "request"
              /\ s # <<>> /\ Head(s).kind = "greeting" /\ wire'["gn"] = Tail(s)
           \/ /\ npc = "request" /\ npc' = "connect"
              /\ s # <<>> /\ Head(s).kind = "request" /\ wire'["gn"] = Tail(s)
           \/ /\ npc = "connect" /\ npc' = "success" /\ Keeps({"gn"})
           \/ /\ npc = "success" /\ npc' = "relay" /\ Keeps({"gn"})
    BY <1>8, Zenon DEF NodeAdvances, counts, Keeps
  <2>2. CASE npc \in {"connect", "success"} /\ npc' # "done" /\ Keeps({"gn"})
    BY <1>1, <2>1, <2>2, Zenon DEF NodeListens, GatewayStopped
  <2>3. CASE /\ s # <<>> /\ wire'["gn"] = Tail(s) /\ npc \in {"greeting", "request"}
             /\ \/ Head(s).kind = "greeting" /\ npc' = "request"
                \/ Head(s).kind = "request" /\ npc' = "connect"
    <3>1. NodeListens("up")
      BY <2>3, Zenon DEF NodeListens, Control
    <3>2. PICK q \in Nat : Carries(s, q, n, m, "request")
      BY <3>1, Zenon DEF ToNode, Channel
    <3>3. /\ Shut(Tail(s)) => Shut(s)
          /\ No("request", s) => No("request", Tail(s))
      BY <1>0, <2>3, ShutBy, ShrinksKinds, Zenon DEF Shrinks
    <3>4. gpc = "method" => npc' # "connect"
      <4>1. Head(s).kind = "request" => ~No("request", s)
        BY <1>0, <2>3, HoldsHead, Zenon DEF Holds, No
      <4>2. gpc = "method" => No("request", s)
        BY Zenon DEF ToNode
      <4>3. QED
        BY <2>3, <4>1, <4>2, Zenon
    <3>5. /\ q - 1 \in Nat /\ Carries(Tail(s), q - 1, n, m, "request")
          /\ Head(s).kind = "request" => q - 1 = 0
      <4>1. Head(s).kind \notin {"data", "eof"}
        BY <2>3, Zenon
      <4> HIDE DEF n, m, s
      <4>2. QED
        BY <1>0, <2>3, <3>2, <4>1, CarriesLess, Zenon
    <3>6. /\ (npc \in {"connect", "success", "relay"})' => Head(s).kind = "request"
          /\ (npc \in {"connect", "success", "relay"})' => npc' = "connect"
      BY <2>3, Zenon
    <3>7. QED
      BY <2>1, <2>3, <3>3, <3>4, <3>5, <3>6, Zenon DEF ToNode, Channel, GatewayStopped
  <2>4. QED
    BY <2>1, <2>2, <2>3, Zenon
<1>9. CASE npc = "relay" /\ Moves("node", "up", "gn", "nt")
  <2>1. /\ UNCHANGED <<npc, gpc>> /\ npc = "relay"
        /\ "up" \notin ended["node"] /\ s # <<>> /\ wire'["gn"] = Tail(s)
    BY <1>9, Zenon DEF Moves
  <2>2. Carries(s, 0, n, m, "request")
    BY <2>1, Zenon DEF ToNode, Channel, NodeListens
  <2>3. /\ Shut(s) => GatewayStopped("up")
        /\ Shut(Tail(s)) => Shut(s)
    BY <1>0, <2>1, ShutBy, Zenon DEF ToNode
  <2>4. /\ copied'["gateway"]["up"] = m /\ ended'["gateway"] = ended["gateway"]
    BY <1>9, MovesCount, Zenon DEF Hops, Directions
  <2>a. gpc \notin Early /\ gpc # "method"
    BY <2>1, Zenon DEF ToNode, NodeAnswered
  <2> HIDE DEF n, m, s
  <2>5. CASE Head(s) = Eof
    <3>1. copied'["node"]["up"] = n /\ "up" \in ended'["node"]
      BY <1>9, <2>5, MovesCount, Zenon DEF Hops, Directions, n, s
    <3>2. n = m /\ Shut(s)
      BY <1>0, <2>1, <2>2, <2>5, CarriesNext, Zenon
    <3>3. n <= m
      BY <1>0, <3>2
    <3>4. QED
      BY <2>1, <2>a, <2>3, <2>4, <3>1, <3>2, <3>3, Zenon
      DEF ToNode, Channel, NodeListens, GatewayStopped
  <2>6. CASE Head(s) # Eof
    <3>1. copied'["node"]["up"] = n + 1 /\ ended' = ended
      BY <1>9, <2>6, MovesCount, Zenon DEF Hops, Directions, n, s
    <3>2. n + 1 <= m /\ Carries(Tail(s), 0, n + 1, m, "request")
      BY <1>0, <2>1, <2>2, <2>6, CarriesNext, Zenon
    <3>3. QED
      BY <1>0, <2>1, <2>a, <2>3, <2>4, <3>1, <3>2, Zenon
      DEF ToNode, Channel, GatewayStopped
  <2>7. QED
    BY <2>5, <2>6, Zenon
<1>10. CASE npc = "relay" /\ Moves("node", "down", "tn", "ng")
  <2>1. /\ copied'["node"]["up"] = n /\ copied'["gateway"] = copied["gateway"]
        /\ "up" \in ended["node"] <=> "up" \in ended'["node"]
        /\ ended'["gateway"] = ended["gateway"]
    BY <1>10, MovesCount, Zenon DEF Hops, Directions
  <2>2. UNCHANGED <<gpc, npc>> /\ Keeps({"gn"})
    BY <1>10, Zenon DEF Moves, Keeps, Streams
  <2>3. QED
    BY <1>1, <2>1, <2>2, Zenon DEF NodeListens, GatewayStopped
<1>11. QED
  BY <1>2, <1>3, <1>4, <1>5, <1>6, <1>7, <1>8, <1>9, <1>10, Zenon
  DEF GatewayFlow, NodeFlow

(* A stream that has ended ends in its end.                                *)
LEMMA ShutLast ==
    ASSUME NEW s \in Seq(Frames), NEW q \in Nat, NEW a \in Nat, NEW b \in Nat,
           NEW last, Carries(s, q, a, b, last), Shut(s)
    PROVE  s # <<>> /\ s[Len(s)] = Eof /\ Len(s) > q + (b - a)
<1>1. PICK i \in DOMAIN s : s[i] = Eof
  BY Zenon DEF Shut, Holds
<1>2. Len(s) \in Nat /\ i \in 1 .. Len(s) /\ s # <<>>
  OBVIOUS
<1>3. i \notin 1 .. q
  BY <1>1, Kinds, Zenon DEF Carries
<1>4. i \in q + 1 .. Len(s)
  BY <1>2, <1>3
<1>5. ~(i - q <= b - a)
  BY <1>1, <1>4, DataKind, Zenon DEF Carries
<1>6. Len(s) \in q + 1 .. Len(s) /\ ~(Len(s) - q <= b - a) /\ a <= b
      /\ Len(s) > q + (b - a)
  BY <1>2, <1>4, <1>5 DEF Carries
<1>7. s[Len(s)] = Eof
  BY <1>6, Zenon DEF Carries
<1>8. QED
  BY <1>2, <1>6, <1>7, Zenon

(* A kind that does not occur, after one more frame.                       *)
LEMMA NoAppend ==
    ASSUME NEW s \in Seq(Frames), NEW f, NEW kind
    PROVE  No(kind, Append(s, f)) <=> No(kind, s) /\ f.kind # kind
<1> DEFINE t == Append(s, f)
<1>1. /\ Len(s) \in Nat /\ DOMAIN s = 1 .. Len(s) /\ t[Len(s) + 1] = f
      /\ \A i \in 1 .. Len(s) : t[i] = s[i]
  BY AppendTo
<1>2. /\ \A i \in DOMAIN t : i \in 1 .. Len(s) \/ i = Len(s) + 1
      /\ \A i \in 1 .. Len(s) : i \in DOMAIN t
      /\ Len(s) + 1 \in DOMAIN t
  OBVIOUS
<1> HIDE DEF t
<1>3. No(kind, t) <=> No(kind, s) /\ f.kind # kind
  BY <1>1, <1>2, Zenon DEF No
<1>4. QED
  BY <1>3, Zenon DEF t

(* Numbers are for data only.                                              *)
LEMMA Numbers ==
    ASSUME NEW f \in Frames
    PROVE  /\ f.kind = "data" => f = Data(f.no)
           /\ f.kind # "data" => f.no = 0
<1>1. \A k, a : Frame(k, a).kind = k /\ Frame(k, a).no = 0
  BY Zenon DEF Frame
<1>2. \A i : Data(i).kind = "data" /\ Data(i).no = i
  BY Zenon DEF Data
<1>3. Eof.kind = "eof" /\ Eof.no = 0
  BY <1>1, Zenon DEF Eof
<1>4. CASE f \in {Data(i) : i \in 1 .. MaxData}
  <2>1. PICK i \in 1 .. MaxData : f = Data(i)
    BY <1>4, Zenon
  <2>2. f.no = i /\ f.kind = "data"
    BY <1>2, <2>1, Zenon
  <2>3. QED
    BY <2>1, <2>2, Zenon
<1>5. CASE f \notin {Data(i) : i \in 1 .. MaxData}
  <2>1. f = Eof \/ \E k \in {"greeting", "method", "credentials", "status",
                            "request", "reply"} : \E a : f = Frame(k, a)
    BY <1>5, Zenon DEF Frames
  <2>2. f.kind # "data" /\ f.no = 0
    BY <1>1, <1>3, <2>1
  <2>3. QED
    BY <2>2, Zenon
<1>6. QED
  BY <1>4, <1>5, Zenon

(* What the client may send next.                                          *)
LEMMA NextSent ==
    ASSUME sent \in Seq(Frames), NEW p \in Nat, NEW k \in Nat,
           Carries(sent, p, 0, k, "request"), Len(sent) = p + k,
           NEW f \in Frames, Follows(f)
    PROVE  \/ f = Data(k + 1)
           \/ /\ f.kind \notin {"data", "eof"} /\ k = 0 /\ No("request", sent)
<1> DEFINE last == sent[Len(sent)]
<1>0. /\ \A i \in 1 .. p : /\ sent[i].kind \notin {"data", "eof"}
                           /\ sent[i].kind = "request" => i = p
      /\ \A i \in p + 1 .. Len(sent) :
            sent[i] = IF i - p <= k - 0 THEN Data(0 + (i - p)) ELSE Eof
  BY Zenon DEF Carries
<1>1. /\ DOMAIN sent = 1 .. Len(sent) /\ Len(sent) \in Nat
      /\ sent = <<>> <=> Len(sent) = 0
      /\ \A i \in 1 .. Len(sent) : sent[i] \in Frames
  OBVIOUS
<1>2. k > 0 => sent # <<>> /\ last = Data(k)
  <2>1. SUFFICES ASSUME k > 0 PROVE sent # <<>> /\ last = Data(k)
    OBVIOUS
  <2>2. Len(sent) \in p + 1 .. Len(sent) /\ Len(sent) - p <= k - 0
        /\ 0 + (Len(sent) - p) = k /\ Len(sent) # 0
    BY <2>1
  <2>3. QED
    BY <1>0, <1>1, <2>2, Zenon
<1>3. k = 0 /\ sent # <<>> => /\ last \in Frames /\ last.kind \notin {"data", "eof"}
  <2>1. SUFFICES ASSUME k = 0, sent # <<>>
                 PROVE  last \in Frames /\ last.kind \notin {"data", "eof"}
    OBVIOUS
  <2>2. Len(sent) \in 1 .. p /\ Len(sent) \in 1 .. Len(sent)
    BY <1>1, <2>1
  <2>3. QED
    BY <1>0, <1>1, <2>2, Zenon
<1>4. CASE f.kind = "data"
  <2>1. f = Data(f.no)
    BY <1>4, Numbers, Zenon
  <2>2. CASE k > 0
    <3>1. last.no = k
      <4>1. \A i : Data(i).no = i
        BY Zenon DEF Data
      <4>2. last = Data(k)
        BY <1>2, <2>2, Zenon
      <4>3. QED
        BY <4>1, <4>2, Zenon
    <3>2. f.no = last.no + 1
      <4> HIDE DEF last
      <4>1. f.no = (IF sent = <<>> THEN [stage |-> 0, no |-> 0]
                    ELSE [stage |-> Stage[last.kind], no |-> last.no]).no + 1
        BY <1>4, Zenon DEF Follows, last
      <4>2. QED
        BY <1>2, <2>2, <4>1, Zenon
    <3>3. QED
      BY <2>1, <3>1, <3>2, Zenon
  <2>3. CASE k = 0 /\ sent # <<>>
    <3>1. last.no = 0
      BY <1>3, <2>3, Numbers, Zenon
    <3>2. f.no = last.no + 1
      <4> HIDE DEF last
      <4>1. f.no = (IF sent = <<>> THEN [stage |-> 0, no |-> 0]
                    ELSE [stage |-> Stage[last.kind], no |-> last.no]).no + 1
        BY <1>4, Zenon DEF Follows, last
      <4>2. QED
        BY <2>3, <4>1, Zenon
    <3>3. QED
      BY <2>1, <2>3, <3>1, <3>2, Zenon
  <2>4. CASE sent = <<>>
    <3>1. f.no = 0 + 1 /\ k = 0
      <4> HIDE DEF last
      <4>1. f.no = (IF sent = <<>> THEN [stage |-> 0, no |-> 0]
                    ELSE [stage |-> Stage[last.kind], no |-> last.no]).no + 1
        BY <1>4, Zenon DEF Follows, last
      <4>2. k = 0
        BY <1>1, <2>4
      <4>3. QED
        BY <2>4, <4>1, <4>2, Zenon
    <3>2. QED
      BY <2>1, <3>1, Zenon
  <2>5. QED
    BY <2>2, <2>3, <2>4
<1>5. CASE f.kind # "data"
  <2>1. /\ f.kind \in {"greeting", "credentials", "request"}
        /\ sent # <<>> => Stage[last.kind] < Stage[f.kind]
    <3> HIDE DEF last
    <3>1. /\ f.kind \in DOMAIN Stage
          /\ (IF sent = <<>> THEN [stage |-> 0, no |-> 0]
              ELSE [stage |-> Stage[last.kind], no |-> last.no]).stage < Stage[f.kind]
      BY <1>5, Zenon DEF Follows, last
    <3>2. f.kind \in {"greeting", "credentials", "request"}
      BY <1>5, <3>1, Zenon DEF Stage
    <3>3. sent # <<>> => Stage[last.kind] < Stage[f.kind]
      BY <3>1, Zenon
    <3>4. QED
      BY <3>2, <3>3, Zenon
  <2>2. sent # <<>> => last.kind \notin {"data", "request"}
    <3> HIDE DEF last
    <3>1. QED
      BY <2>1 DEF Stage
  <2>3. k = 0
    <3>1. k > 0 => FALSE
      BY <1>2, <2>2, DataKind, Zenon
    <3>2. QED
      BY <3>1
  <2>4. No("request", sent)
    <3>1. SUFFICES ASSUME NEW i \in DOMAIN sent, sent[i].kind = "request" PROVE FALSE
      BY Zenon DEF No
    <3>2. i \in 1 .. p
      BY <1>1, <2>3, <3>1
    <3>3. i = p
      BY <1>0, <3>1, <3>2, Zenon
    <3>4. i = Len(sent) /\ sent # <<>>
      BY <1>1, <2>3, <3>3
    <3>5. QED
      BY <2>2, <3>1, <3>4, Zenon
  <2>5. QED
    BY <2>1, <2>3, <2>4, Zenon
<1>6. QED
  BY <1>4, <1>5, Zenon

(* The stream from the client, who may send data before any reply.         *)
LEMMA FromClientKept ==
    ASSUME PayloadInv, GatewayFlow \/ NodeFlow \/ EndsFlow
    PROVE  FromClient'
<1> /\ TypeOK /\ NodeAnswered /\ Control /\ FromClient
  BY Zenon DEF PayloadInv
<1> DEFINE n == copied["gateway"]["up"]
           s == wire["cg"]
           Past == gpc \notin {"greeting", "credentials", "request"}
<1>0. n \in Nat /\ s \in Seq(Frames) /\ sent \in Seq(Frames) /\ 0 \in Nat
  BY CountTypes, Zenon DEF Hops, Directions, Streams
<1>a. PICK p \in Nat, k \in Nat :
         /\ Carries(sent, p, 0, k, "request") /\ Len(sent) = p + k /\ n <= k
         /\ Channel(s, GatewayListens("up"), Past, n, k, "request")
  BY Zenon DEF FromClient
<1>b. /\ ~No("request", s) => ~No("request", sent)
      /\ Past /\ gpc # "done" => ~No("request", sent)
  BY Zenon DEF FromClient
<1>1. ASSUME UNCHANGED <<gpc, sent>>, Keeps({"cg"}), copied'["gateway"]["up"] = n,
             "up" \in ended["gateway"] => "up" \in ended'["gateway"]
      PROVE  FromClient'
  BY <1>1, <1>a, <1>b, Zenon DEF FromClient, Channel, Keeps, GatewayListens
<1>2. CASE GatewayQuits
  <2>1. /\ gpc' = "done" /\ UNCHANGED <<ended, copied, sent>>
        /\ Shrinks(s, wire'["cg"])
    BY <1>2, Zenon DEF GatewayQuits
  <2>2. No("request", s) => No("request", wire'["cg"])
    BY <1>0, <2>1, ShrinksKinds, Zenon
  <2>3. QED
    BY <2>1, <2>2, <1>a, <1>b, Zenon DEF FromClient, Channel, GatewayListens
<1>3. CASE GatewayReads
  <2>1. /\ ~Past /\ gpc' \in {"credentials", "request", "select"}
        /\ UNCHANGED <<ended, copied, sent>>
        /\ s # <<>> /\ wire'["cg"] = Tail(s) /\ Head(s).kind \notin {"data", "eof"}
        /\ gpc' = "select" => Head(s).kind = "request"
    BY <1>3, Zenon DEF GatewayReads, counts
  <2>2. GatewayListens("up")
    BY <2>1, Zenon DEF GatewayListens, Control
  <2>3. PICK q \in Nat : Carries(s, q, n, k, "request")
    BY <1>a, <2>2, Zenon DEF Channel
  <2>4. No("request", s) => No("request", Tail(s))
    BY <1>0, <2>1, ShrinksKinds, Zenon DEF Shrinks
  <2>5. Head(s).kind = "request" => ~No("request", s)
    BY <1>0, <2>1, HoldsHead, Zenon DEF Holds, No
  <2>6. /\ q - 1 \in Nat /\ Carries(Tail(s), q - 1, n, k, "request")
        /\ Head(s).kind = "request" => q - 1 = 0
    <3> HIDE DEF n, s
    <3>1. QED
      BY <1>0, <2>1, <2>3, CarriesLess, Zenon
  <2>7. Past' => gpc' = "select"
    BY <2>1, Zenon
  <2>8. QED
    BY <1>a, <1>b, <2>1, <2>4, <2>5, <2>6, <2>7, Zenon DEF FromClient, Channel
<1>4. CASE GatewayAdvances
  <2>1. /\ Past /\ gpc # "done" /\ gpc' # "done" /\ Keeps({"cg"})
        /\ UNCHANGED <<ended, copied, sent>>
    BY <1>4, Zenon DEF GatewayAdvances, counts, Keeps
  <2>2. QED
    BY <2>1, <1>a, <1>b, Zenon DEF FromClient, Channel, Keeps, GatewayListens
<1>5. CASE gpc = "relay" /\ Moves("gateway", "up", "cg", "gn")
  <2>1. /\ UNCHANGED <<gpc, sent>> /\ gpc = "relay" /\ "up" \notin ended["gateway"]
        /\ s # <<>> /\ wire'["cg"] = Tail(s)
    BY <1>5, Zenon DEF Moves
  <2>2. Carries(s, 0, n, k, "request")
    BY <1>a, <2>1, Zenon DEF Channel, GatewayListens
  <2>3. No("request", s) => No("request", Tail(s))
    BY <1>0, <2>1, ShrinksKinds, Zenon DEF Shrinks
  <2> HIDE DEF n, s
  <2>4. CASE Head(s) = Eof
    <3>1. copied'["gateway"]["up"] = n /\ "up" \in ended'["gateway"]
      BY <1>5, <2>4, MovesCount, Zenon DEF Hops, Directions, n, s
    <3>2. QED
      BY <1>a, <1>b, <2>1, <2>3, <3>1, Zenon DEF FromClient, Channel, GatewayListens
  <2>5. CASE Head(s) # Eof
    <3>1. copied'["gateway"]["up"] = n + 1
      BY <1>5, <2>5, MovesCount, Zenon DEF Hops, Directions, n, s
    <3>2. n + 1 <= k /\ Carries(Tail(s), 0, n + 1, k, "request")
      BY <1>0, <1>a, <2>1, <2>2, <2>5, CarriesNext, Zenon
    <3>3. QED
      BY <1>0, <1>a, <1>b, <2>1, <2>3, <3>1, <3>2, Zenon DEF FromClient, Channel
  <2>6. QED
    BY <2>4, <2>5, Zenon
<1>6. CASE gpc = "relay" /\ Moves("gateway", "down", "ng", "gc")
  <2>1. /\ copied'["gateway"]["up"] = n
        /\ "up" \in ended["gateway"] => "up" \in ended'["gateway"]
    BY <1>6, MovesCount, Zenon DEF Hops, Directions
  <2>2. UNCHANGED <<gpc, sent>> /\ Keeps({"cg"})
    BY <1>6, Zenon DEF Moves, Keeps, Streams
  <2>3. QED
    BY <1>1, <2>1, <2>2, Zenon
<1>7. CASE NodeQuits \/ NodeAdvances
  BY <1>1, <1>7, Zenon DEF NodeQuits, NodeAdvances, counts, Keeps
<1>8. ASSUME NEW dir \in Directions, NEW from \in Streams, NEW to \in Streams,
             "cg" \notin {from, to}, Moves("node", dir, from, to)
      PROVE  FromClient'
  <2>1. /\ ended'["gateway"] = ended["gateway"]
        /\ copied'["gateway"] = copied["gateway"]
    BY <1>8, MovesCount, Zenon DEF Hops
  <2>2. UNCHANGED <<gpc, sent>> /\ Keeps({"cg"})
    BY <1>8, Zenon DEF Moves, Keeps, Streams
  <2>3. QED
    BY <1>1, <2>1, <2>2, Zenon
<1>9. CASE EndsFlow
  <2>1. UNCHANGED <<gpc, ended, copied>>
    BY <1>9, Zenon DEF EndsFlow, counts
  <2>2. CASE UNCHANGED sent /\ Keeps({"cg"})
    BY <1>1, <2>1, <2>2, Zenon
  <2>3. CASE UNCHANGED sent /\ wire'["cg"] = Append(s, Eof)
    <3>1. \A q \in Nat : Carries(s, q, n, k, "request")
                            => Carries(wire'["cg"], q, n, k, "request")
      <4> HIDE DEF n, s
      <4>1. Closed(s, wire'["cg"])
        BY <2>3, Zenon DEF Closed
      <4>2. QED
        BY <1>0, <4>1, CarriesEof, Zenon
    <3>2. No("request", wire'["cg"]) <=> No("request", s)
      BY <1>0, <2>3, NoAppend, Kinds
    <3>3. QED
      BY <1>a, <1>b, <2>1, <2>3, <3>1, <3>2, Zenon DEF FromClient, Channel, GatewayListens
  <2>4. ASSUME GatewayListens("up"), ~IsClosed(wire, "cg"), NEW f \in Frames,
               Follows(f), sent' = Append(sent, f), wire'["cg"] = Append(s, f)
        PROVE  FromClient'
    <3>1. PICK q \in Nat : Carries(s, q, n, k, "request") /\ (Past => q = 0)
      BY <1>a, <2>4, Zenon DEF Channel
    <3>2. ~Shut(s) /\ ~Shut(sent)
      <4>1. ~(s # <<>> /\ s[Len(s)] = Eof)
        BY <2>4, Zenon DEF IsClosed
      <4> HIDE DEF n, s
      <4>2. ~Shut(s)
        BY <1>0, <3>1, <4>1, ShutLast, Zenon
      <4>3. ASSUME Shut(sent) PROVE FALSE
        <5>1. Len(sent) > p + (k - 0)
          BY <1>0, <1>a, <4>3, ShutLast, Zenon
        <5>2. QED
          BY <1>a, <5>1
      <4>4. QED
        BY <4>2, <4>3, Zenon
    <3>3. /\ ~No("request", wire'["cg"]) => ~No("request", sent')
          /\ ~No("request", sent) => ~No("request", sent')
      <4>1. /\ No("request", Append(s, f)) <=> No("request", s) /\ f.kind # "request"
            /\ No("request", Append(sent, f))
                  <=> No("request", sent) /\ f.kind # "request"
        BY <1>0, NoAppend, Zenon
      <4>2. QED
        BY <1>b, <2>4, <4>1, Zenon
    <3>4. gpc # "done"
      BY <2>4, Zenon DEF GatewayListens
    <3>5. Len(sent') = Len(sent) + 1
      BY <1>0, <2>4
    <3> HIDE DEF n, s
    <3>6. CASE f = Data(k + 1)
      <4>1. Carries(sent', p, 0, k + 1, "request")
        BY <1>0, <1>a, <2>4, <3>2, <3>6, CarriesData, Zenon
      <4>2. Carries(wire'["cg"], q, n, k + 1, "request")
        BY <1>0, <2>4, <3>1, <3>2, <3>6, CarriesData, Zenon
      <4>3. k + 1 \in Nat /\ n <= k + 1 /\ Len(sent') = p + (k + 1)
        BY <1>0, <1>a, <3>5
      <4>4. QED
        BY <1>b, <2>1, <3>1, <3>3, <4>1, <4>2, <4>3, Zenon DEF FromClient, Channel, n
    <3>7. CASE f.kind \notin {"data", "eof"} /\ k = 0 /\ No("request", sent)
      <4>1. n = 0 /\ ~Past /\ No("request", s)
        <5>1. ~Past /\ No("request", s)
          BY <1>b, <3>4, <3>7, Zenon
        <5>2. QED
          BY <1>0, <1>a, <3>7, <5>1
      <4>2. Carries(sent', p + 1, 0, k, "request")
        BY <1>0, <1>a, <2>4, <3>2, <3>7, CarriesMore, Zenon
      <4>3. Carries(wire'["cg"], q + 1, n, k, "request")
        <5>1. Carries(s, q, 0, 0, "request")
          BY <3>1, <3>7, <4>1, Zenon
        <5>2. Carries(wire'["cg"], q + 1, 0, 0, "request")
          BY <1>0, <2>4, <3>2, <3>7, <4>1, <5>1, CarriesMore, Zenon
        <5>3. QED
          BY <3>7, <4>1, <5>2, Zenon
      <4>4. p + 1 \in Nat /\ q + 1 \in Nat /\ n <= k /\ Len(sent') = (p + 1) + k
        BY <1>0, <1>a, <3>5
      <4>5. ~Past'
        BY <2>1, <4>1, Zenon
      <4>6. QED
        BY <1>b, <2>1, <3>3, <4>2, <4>3, <4>4, <4>5, Zenon DEF FromClient, Channel, n
    <3>8. QED
      BY <1>0, <1>a, <2>4, <3>6, <3>7, NextSent, Zenon
  <2>5. QED
    <3>1. \/ UNCHANGED sent /\ Keeps({"cg"})
          \/ UNCHANGED sent /\ wire'["cg"] = Append(wire["cg"], Eof)
          \/ /\ GatewayListens("up") /\ ~IsClosed(wire, "cg")
             /\ \E f \in Frames : /\ Follows(f) /\ sent' = Append(sent, f)
                                  /\ wire'["cg"] = Append(wire["cg"], f)
      BY <1>9, Zenon DEF EndsFlow, Keeps
    <3>2. QED
      BY <2>2, <2>3, <2>4, <3>1, Zenon
<1>10. QED
  <2>1. CASE NodeFlow
    BY <1>7, <1>8, <2>1, Zenon DEF NodeFlow, Directions, Streams
  <2>2. CASE GatewayFlow
    BY <1>2, <1>3, <1>4, <1>5, <1>6, <2>2, Zenon DEF GatewayFlow
  <2>3. QED
    BY <1>9, <2>1, <2>2, Zenon

(* A stream on which nothing has been sent.                                *)
LEMMA EmptyCarries == \A last : Carries(<<>>, 0, 0, 0, last) /\ ~Shut(<<>>)
                                /\ No("request", <<>>)
  BY DEF Carries, Shut, Holds, No

(* The invariant holds of a fresh session, and every step keeps it.        *)
LEMMA PayInit == Init => PayloadInv
<1> SUFFICES ASSUME Init PROVE PayloadInv
  OBVIOUS
<1>1. TypeOK
  BY TypeInit, Zenon
<1>2. NodeAnswered
  BY DEF Init, NodeAnswered, No, Single, DataAfter, Streams
<1>3. /\ gpc = "greeting" /\ npc = "off" /\ target = "none"
      /\ \A h \in Hops : ended[h] = {} /\ recorded[h] = NotCounted
      /\ \A h \in Hops : \A d \in Directions : copied[h][d] = 0
      /\ \A r \in Streams : wire[r] = <<>>
      /\ sent = <<>> /\ answered = <<>>
  BY Zenon DEF Init
<1>4. /\ "gateway" \in Hops /\ "node" \in Hops
      /\ "up" \in Directions /\ "down" \in Directions
      /\ \A r \in {"cg", "gc", "gn", "ng", "nt", "tn"} : r \in Streams
      /\ 0 \in Nat /\ 0 <= 0 /\ Len(<<>>) = 0 /\ 0 + 0 = 0 /\ 1 .. 0 = {}
  BY DEF Hops, Directions, Streams
<1>5. Control
  BY <1>3, <1>4, Zenon DEF Control
<1>6. FromClient
  BY <1>3, <1>4, EmptyCarries, Zenon DEF FromClient, Channel
<1>7. ToNode /\ ToTarget /\ ToGateway /\ ToClient
  BY <1>3, <1>4, EmptyCarries, Zenon DEF ToNode, ToTarget, ToGateway, ToClient, Channel
<1>8. FromTarget
  BY <1>3, <1>4, EmptyCarries, Zenon DEF FromTarget, Channel
<1>9. Counted
  BY <1>3, <1>4, Zenon DEF Counted
<1>10. QED
  BY <1>1, <1>2, <1>5, <1>6, <1>7, <1>8, <1>9, Zenon DEF PayloadInv

(* Every step of a process keeps what the streams carry.                   *)
LEMMA PayStep == PayloadInv /\ [Next]_vars => PayloadInv'
<1> SUFFICES ASSUME PayloadInv, [Next]_vars PROVE PayloadInv'
  OBVIOUS
<1>1. TypeOK /\ NodeAnswered
  BY Zenon DEF PayloadInv
<1>2. TypeOK'
  BY <1>1, TypeStep, Zenon
<1>3. NodeAnswered'
  <2>1. CASE GatewayDigest
    BY <1>1, <2>1, NodeAnsweredGateway, Zenon
  <2>2. CASE NodeDigest
    BY <1>1, <2>2, NodeAnsweredNode, Zenon
  <2>3. CASE EndsDigest
    BY <1>1, <2>3, NodeAnsweredEnds, SMTT(30)
  <2>4. QED
    BY <1>1, <2>1, <2>2, <2>3, StepDigest, Zenon
<1>4. GatewayFlow \/ NodeFlow \/ EndsFlow
  BY <1>1, StepFlows, Zenon
<1>5. QED
  BY <1>2, <1>3, <1>4, ControlKept, FromClientKept, ToNodeKept, ToTargetKept,
     FromTargetKept, ToGatewayKept, ToClientKept, CountedKept, Zenon DEF PayloadInv

-----------------------------------------------------------------------------
(* Counting.                                                               *)

FST == INSTANCE FiniteSetTheorems

(* Of the first i frames of a stream those from q + 1 to e are data.       *)
IsDataFrom(s, i, q, e) == \A j \in 1 .. i : s[j].kind = "data" <=> j \in q + 1 .. e

(* Their number is the length of that interval.                            *)
LEMMA DataBetween ==
    ASSUME NEW s, NEW i \in Nat, NEW q \in Nat, NEW e \in q .. i,
           IsDataFrom(s, i, q, e)
    PROVE  DataIn(s, i) = e - q
<1>1. \A j \in q + 1 .. e : j \in 1 .. i
  OBVIOUS
<1>2. {j \in 1 .. i : s[j].kind = "data"} = q + 1 .. e
  BY <1>1, Zenon DEF IsDataFrom
<1>3. q + 1 \in Int /\ e \in Int /\ e >= q
  OBVIOUS
<1>4. Cardinality(q + 1 .. e) = IF q + 1 > e THEN 0 ELSE e - (q + 1) + 1
  <2>1. FST!Cardinality(q + 1 .. e) = IF q + 1 > e THEN 0 ELSE e - (q + 1) + 1
    BY <1>3, FST!FS_Interval, Zenon
  <2>2. Cardinality(q + 1 .. e) = FST!Cardinality(q + 1 .. e)
    BY Zenon DEF Cardinality, FST!Cardinality
  <2>3. QED
    BY <2>1, <2>2, Zenon
<1>5. Cardinality(q + 1 .. e) = e - q
  BY <1>3, <1>4
<1>6. QED
  BY <1>2, <1>5, Zenon DEF DataIn

(* Counting the data of a stream that carries n frames of it.              *)
LEMMA DataCount ==
    ASSUME NEW s \in Seq(Frames), NEW q \in Nat, NEW n \in Nat, NEW last,
           Carries(s, q, 0, n, last)
    PROVE  /\ \A i \in q .. q + n : DataIn(s, i) = i - q
           /\ DataIn(s, Len(s)) = n
<1>1. /\ q + n <= Len(s) /\ Len(s) \in Nat
      /\ \A j \in 1 .. q : s[j].kind # "data"
      /\ \A j \in q + 1 .. Len(s) :
            s[j] = IF j - q <= n - 0 THEN Data(0 + (j - q)) ELSE Eof
  BY DEF Carries
<1>2. ASSUME NEW j \in 1 .. Len(s)
      PROVE  s[j].kind = "data" <=> j \in q + 1 .. q + n
  <2>1. CASE j \in 1 .. q
    BY <1>1, <2>1
  <2>2. CASE j \in q + 1 .. q + n
    <3>1. j \in q + 1 .. Len(s) /\ j - q <= n - 0
      BY <1>1, <2>2
    <3>2. QED
      BY <1>1, <2>2, <3>1, DataKind, Zenon
  <2>3. CASE j \notin 1 .. q /\ j \notin q + 1 .. q + n
    <3>1. j \in q + 1 .. Len(s) /\ ~(j - q <= n - 0)
      BY <1>1, <2>3
    <3>2. s[j] = Eof
      BY <1>1, <3>1, Zenon
    <3>3. QED
      BY <2>3, <3>2, Kinds
  <2>4. QED
    BY <2>1, <2>2, <2>3, Zenon
<1>3. ASSUME NEW i \in q .. q + n PROVE DataIn(s, i) = i - q
  <2>1. /\ i \in Nat /\ i \in q .. i /\ \A j \in 1 .. i : j \in 1 .. Len(s)
        /\ \A j \in 1 .. i : j \in q + 1 .. q + n <=> j \in q + 1 .. i
    BY <1>1
  <2>2. IsDataFrom(s, i, q, i)
    BY <1>2, <2>1, Zenon DEF IsDataFrom
  <2>3. QED
    BY <2>1, <2>2, DataBetween, Zenon
<1>4. DataIn(s, Len(s)) = n
  <2>1. q + n \in q .. Len(s) /\ (q + n) - q = n
    BY <1>1
  <2>2. IsDataFrom(s, Len(s), q, q + n)
    BY <1>2, Zenon DEF IsDataFrom
  <2>3. DataIn(s, Len(s)) = (q + n) - q
    BY <1>1, <2>1, <2>2, DataBetween, Zenon
  <2>4. QED
    BY <2>1, <2>3, Zenon
<1>5. QED
  BY <1>3, <1>4, Zenon

(* One stream carries the first n data frames of another.                  *)
LEMMA FirstFrames ==
    ASSUME NEW s \in Seq(Frames), NEW t \in Seq(Frames), NEW q \in Nat, NEW p \in Nat,
           NEW n \in Nat, NEW k \in Nat, n <= k, NEW u, NEW v,
           Carries(s, q, 0, n, u), Carries(t, p, 0, k, v)
    PROVE  /\ DataPrefix(s, t) /\ DataIn(s, Len(s)) = n
           /\ \A i \in DOMAIN s : s[i].kind \in {"data", "eof"} \/ i \in 1 .. q
<1>1. /\ q + n <= Len(s) /\ p + k <= Len(t) /\ Len(s) \in Nat /\ Len(t) \in Nat
      /\ DOMAIN s = 1 .. Len(s) /\ DOMAIN t = 1 .. Len(t)
  BY DEF Carries
<1>2. /\ \A i \in 1 .. q : s[i].kind # "data"
      /\ \A i \in q + 1 .. Len(s) :
            s[i] = IF i - q <= n - 0 THEN Data(0 + (i - q)) ELSE Eof
      /\ \A i \in p + 1 .. Len(t) :
            t[i] = IF i - p <= k - 0 THEN Data(0 + (i - p)) ELSE Eof
  BY Zenon DEF Carries
<1>3. ASSUME NEW i \in DOMAIN s, s[i].kind = "data"
      PROVE  \E j \in DOMAIN t : t[j] = s[i] /\ DataIn(t, j) = DataIn(s, i)
  <2>1. i \in q + 1 .. Len(s)
    BY <1>1, <1>2, <1>3
  <2>2. i - q <= n - 0
    <3>1. ~(i - q <= n - 0) => s[i] = Eof
      BY <1>2, <2>1, Zenon
    <3>2. QED
      BY <1>3, <3>1, Kinds, Zenon
  <2> DEFINE j == p + (i - q)
  <2>3. /\ j \in p + 1 .. Len(t) /\ j \in DOMAIN t /\ j - p <= k - 0
        /\ 0 + (j - p) = 0 + (i - q) /\ j - p = i - q
        /\ j \in p .. p + k /\ i \in q .. q + n
    BY <1>1, <2>1, <2>2
  <2> HIDE DEF j
  <2>4. t[j] = s[i]
    BY <1>2, <2>1, <2>2, <2>3, Zenon
  <2>5. DataIn(t, j) = j - p
    <3>1. \A x \in p .. p + k : DataIn(t, x) = x - p
      BY DataCount, Zenon
    <3>2. QED
      BY <2>3, <3>1, Zenon
  <2>6. DataIn(s, i) = i - q
    <3>1. \A x \in q .. q + n : DataIn(s, x) = x - q
      BY DataCount, Zenon
    <3>2. QED
      BY <2>3, <3>1, Zenon
  <2>7. QED
    BY <2>3, <2>4, <2>5, <2>6, Zenon
<1>4. DataIn(s, Len(s)) = n
  BY DataCount, Zenon
<1>5. ASSUME NEW i \in DOMAIN s, i \notin 1 .. q
      PROVE  s[i].kind \in {"data", "eof"}
  <2>1. i \in q + 1 .. Len(s)
    BY <1>1, <1>5
  <2>2. s[i] = Data(0 + (i - q)) \/ s[i] = Eof
    BY <1>2, <2>1, Zenon
  <2>3. QED
    BY <2>2, DataKind, Kinds, Zenon
<1>6. QED
  BY <1>3, <1>4, <1>5, Zenon DEF DataPrefix

(* What is in the streams to target and client.                            *)
LEMMA Delivered ==
    ASSUME PayloadInv
    PROVE  /\ DataPrefix(wire["nt"], sent) /\ DataPrefix(wire["gc"], answered)
           /\ \A i \in DOMAIN wire["nt"] : wire["nt"][i].kind \in {"data", "eof"}
           /\ DataIn(wire["nt"], Len(wire["nt"])) = copied["node"]["up"]
           /\ DataIn(wire["gc"], Len(wire["gc"])) = copied["gateway"]["down"]
<1> TypeOK /\ FromClient /\ ToNode /\ ToTarget /\ FromTarget /\ ToGateway /\ ToClient
  BY Zenon DEF PayloadInv
<1> DEFINE gu == copied["gateway"]["up"]
           nu == copied["node"]["up"]
           gd == copied["gateway"]["down"]
           nd == copied["node"]["down"]
           m == Len(answered)
<1>0. /\ gu \in Nat /\ nu \in Nat /\ gd \in Nat /\ nd \in Nat /\ 0 \in Nat
      /\ wire["nt"] \in Seq(Frames) /\ wire["gc"] \in Seq(Frames)
      /\ sent \in Seq(Frames) /\ answered \in Seq(Frames)
  BY CountTypes, Zenon DEF Hops, Directions, Streams
<1>1. PICK p \in Nat, k \in Nat : Carries(sent, p, 0, k, "request") /\ gu <= k
  BY Zenon DEF FromClient
<1>2. PICK q \in Nat : Carries(wire["gc"], q, 0, gd, "eof")
  BY Zenon DEF ToClient
<1>3. Carries(wire["nt"], 0, 0, nu, "eof") /\ nu <= gu /\ gd <= nd /\ nd <= m
  BY Zenon DEF ToTarget, ToNode, ToGateway, FromTarget
<1>4. \A i \in 1 .. m : answered[i] = Data(i)
  BY Zenon DEF FromTarget
<1>5. m \in Nat
  BY <1>0
<1> HIDE DEF gu, nu, gd, nd
<1>6. Carries(answered, 0, 0, m, "eof")
  <2>1. \A i \in 0 + 1 .. Len(answered) :
           /\ i - 0 <= m - 0 /\ i \in 1 .. m /\ 0 + (i - 0) = i
    BY <1>5
  <2>2. \A i \in 1 .. 0 : FALSE
    OBVIOUS
  <2>3. 0 <= m /\ 0 + (m - 0) <= Len(answered)
    BY <1>5
  <2> HIDE DEF m
  <2>4. \A i \in 0 + 1 .. Len(answered) :
           answered[i] = IF i - 0 <= m - 0 THEN Data(0 + (i - 0)) ELSE Eof
    BY <1>4, <2>1, Zenon
  <2>5. QED
    BY <2>2, <2>3, <2>4, Zenon DEF Carries
<1>7. nu <= k /\ gd <= m
  BY <1>0, <1>1, <1>3, <1>5
<1> HIDE DEF m
<1>8. /\ DataPrefix(wire["nt"], sent) /\ DataIn(wire["nt"], Len(wire["nt"])) = nu
      /\ \A i \in DOMAIN wire["nt"] :
            wire["nt"][i].kind \in {"data", "eof"} \/ i \in 1 .. 0
  BY <1>0, <1>1, <1>3, <1>7, FirstFrames, Zenon
<1>9. DataPrefix(wire["gc"], answered) /\ DataIn(wire["gc"], Len(wire["gc"])) = gd
  BY <1>0, <1>2, <1>5, <1>6, <1>7, FirstFrames, Zenon
<1>10. \A i \in 1 .. 0 : FALSE
  OBVIOUS
<1>11. QED
  BY <1>8, <1>9, <1>10, Zenon DEF nu, gd

(* The target receives a prefix of the client's data and nothing of the    *)
(* handshakes, the client a prefix of the target's: the buffered readers   *)
(* of both handshakes hand every byte read ahead to the relay.             *)
THEOREM PayloadArrivesIntact == Spec => []PayloadIntact
<1>1. PayloadInv => PayloadIntact
  BY Delivered, Zenon DEF PayloadIntact
<1>2. QED
  BY <1>1, PayInit, PayStep, PTL DEF Spec

(* When both hops have recorded the session, they have recorded the same   *)
(* bytes, and those are the bytes that arrived.                            *)
THEOREM CountsAgree == Spec => []HopsAgree
<1>1. ASSUME PayloadInv, \A h \in Hops : recorded[h] # NotCounted
      PROVE  /\ recorded["gateway"] = recorded["node"]
             /\ recorded["gateway"]["up"] = copied["node"]["up"]
             /\ recorded["gateway"]["down"] = copied["gateway"]["down"]
  <2>1. TypeOK /\ Counted /\ ToNode /\ ToGateway
    BY <1>1, Zenon DEF PayloadInv
  <2>2. /\ recorded["gateway"] = copied["gateway"] /\ recorded["node"] = copied["node"]
        /\ ended["gateway"] = Directions /\ ended["node"] = Directions
    BY <1>1, <2>1, Zenon DEF Counted, Hops
  <2>3. /\ copied["gateway"]["up"] = copied["node"]["up"]
        /\ copied["gateway"]["down"] = copied["node"]["down"]
    BY <2>1, <2>2, Zenon DEF ToNode, ToGateway, Directions
  <2>4. /\ copied["gateway"] \in [Directions -> Nat]
        /\ copied["node"] \in [Directions -> Nat]
    BY <2>1, Zenon DEF TypeOK, Counts, Hops
  <2>5. copied["gateway"] = copied["node"]
    BY <2>3, <2>4 DEF Directions
  <2>6. QED
    BY <2>2, <2>3, <2>5, Zenon
<1>2. PayloadInv => HopsAgree
  BY <1>1, Delivered, Zenon DEF HopsAgree
<1>3. QED
  BY <1>2, PayInit, PayStep, PTL DEF Spec
=============================================================================
