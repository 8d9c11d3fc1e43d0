-------------------------- MODULE HandshakeProofs --------------------------
(***************************************************************************)
(* The theorems of the handshake: every action of the client, the gateway  *)
(* and the node keeps the inductive invariant of FramingProofs, which      *)
(* implies what the runs check.                                            *)
(***************************************************************************)
EXTENDS FramingProofs

-----------------------------------------------------------------------------
(* What a step leaves alone.                                               *)

(* A client that does not move keeps its part of the invariant ...         *)
LEMMA ClientFrame ==
    ASSUME ClientInv, Steady, at'["client"] = at["client"], taken'["gc"] = taken["gc"]
    PROVE  ClientInv'
BY SteadyFacts, Zenon DEF ClientInv, Steady

(* ... and so does a node, whatever the gateway sends it ...               *)
LEMMA NodeFrame ==
    ASSUME NodeInv, Steady, at'["node"] = at["node"], taken'["gn"] = taken["gn"],
           ends'["ng"] = ends["ng"], \A k : Code("ng", k)' = Code("ng", k), dialled' = dialled,
           ends'["gn"] = ends["gn"] \/ Len(ends'["gn"]) > 0
    PROVE  NodeInv'
<1>1. Code("ng", 2)' = Code("ng", 2)
  BY Zenon
<1> QED
  BY <1>1, Zenon DEF NodeInv, Steady

(* ... and a gateway, unless more of the credentials came in.              *)
LEMMA GatewayFrame ==
    ASSUME GatewayInv, Steady, at'["gateway"] = at["gateway"],
           taken'["cg"] = taken["cg"], taken'["ng"] = taken["ng"],
           ends'["gc"] = ends["gc"], ends'["gn"] = ends["gn"],
           \A k : Code("gc", k)' = Code("gc", k), request' = request,
           at["gateway"] = "credentials" => Boundary(buf'["cg"])
    PROVE  GatewayInv'
<1>1. PICK r : r = Rounds
  BY Zenon
<1>2. Rounds' = r /\ Code("gc", r)' = Code("gc", r)
  BY <1>1, SteadyFacts, Zenon
<1>3. /\ Offered' = Offered /\ Welcome' = Welcome /\ HasCredentials' = HasCredentials
      /\ Cred' = Cred /\ auth' = auth /\ client' = client
  BY SteadyFacts, Zenon DEF Steady
<1>4. Code("gc", Rounds)' = Code("gc", Rounds)
  BY <1>1, <1>2, Zenon DEF Code, End
<1> QED
  BY <1>1, <1>2, <1>3, <1>4, Zenon DEF GatewayInv

(* Where nobody moves, and only the client may have written.               *)
LEMMA Quiet ==
    ASSUME HandshakeInv, TypeOK', \A x \in Streams : StreamOK(x)', Steady,
           at' = at, taken' = taken, request' = request, dialled' = dialled,
           \A x \in Streams \ {"cg"} : ends'[x] = ends[x] /\ \A k : Code(x, k)' = Code(x, k),
           at["gateway"] = "credentials" => Boundary(buf'["cg"])
    PROVE  HandshakeInv'
<1>1. GatewayInv /\ NodeInv /\ ClientInv /\ RightVerdict
  BY Zenon DEF HandshakeInv
<1>2. /\ \A k : Code("gc", k)' = Code("gc", k)
      /\ \A k : Code("ng", k)' = Code("ng", k)
      /\ ends'["gc"] = ends["gc"] /\ ends'["gn"] = ends["gn"] /\ ends'["ng"] = ends["ng"]
  BY Zenon DEF Streams
<1>3. GatewayInv'
  BY <1>1, <1>2, GatewayFrame, Zenon
<1>4. NodeInv'
  BY <1>1, <1>2, NodeFrame, Zenon
<1>5. ClientInv'
  BY <1>1, ClientFrame, Zenon
<1>6. RightVerdict'
  <2>1. Welcome' = Welcome
    BY SteadyFacts, Zenon
  <2> QED
    BY <1>1, <2>1, Zenon DEF RightVerdict
<1> QED
  BY <1>3, <1>4, <1>5, <1>6, Zenon DEF HandshakeInv

-----------------------------------------------------------------------------
(* Every action preserves the invariant.                                   *)

(* Delivery of a byte.                                                     *)
LEMMA ArriveStep ==
    ASSUME HandshakeInv, NEW s \in Streams, Arrive(s)
    PROVE  HandshakeInv'
<1>1. /\ TypeOK' /\ \A x \in Streams : StreamOK(x)'
      /\ Steady /\ Mute /\ at' = at /\ taken' = taken /\ buf' = buf
      /\ request' = request /\ dialled' = dialled
  BY ArriveEffect, Zenon
<1>2. at["gateway"] = "credentials" => Boundary(buf'["cg"])
  BY <1>1, Zenon DEF HandshakeInv, GatewayInv
<1> QED
  BY <1>1, <1>2, Quiet, Zenon DEF Mute

(* read_exact, by any party.                                               *)
LEMMA ReadStep ==
    ASSUME HandshakeInv, NEW p \in Parties, read_exact(p)
    PROVE  HandshakeInv'
<1>1. PICK s : s = Incoming(p)
  BY Zenon
<1>2. /\ TypeOK' /\ \A x \in Streams : StreamOK(x)'
      /\ Steady /\ Mute /\ at' = at /\ taken' = taken
      /\ \A x \in Streams \ {s} : buf'[x] = buf[x]
      /\ at[p] = "credentials" => Boundary(buf'[s])
      /\ request' = request /\ dialled' = dialled
  BY <1>1, ReadEffect, Zenon
<1>3. at["gateway"] = "credentials" => Boundary(buf'["cg"])
  <2> SUFFICES ASSUME at["gateway"] = "credentials" PROVE Boundary(buf'["cg"])
    BY Zenon
  <2>1. CASE s = "cg"
    <3>1. p = "gateway"
      BY <1>1, <2>1, Zenon DEF Incoming, Source, Parties
    <3> QED
      BY <1>2, <2>1, <3>1, Zenon
  <2>2. CASE s # "cg"
    BY <1>2, <2>2, Zenon DEF HandshakeInv, GatewayInv, Streams
  <2> QED
    BY <2>1, <2>2, Zenon
<1> QED
  BY <1>2, <1>3, Quiet, Zenon DEF Mute

(* The client writes its next frame.                                       *)
LEMMA ClientSendsStep ==
    ASSUME HandshakeInv, ClientSends
    PROVE  HandshakeInv'
<1>1. /\ TypeOK' /\ \A x \in Streams : StreamOK(x)'
      /\ Steady /\ at' = at /\ taken' = taken /\ buf' = buf
      /\ \A x \in Streams \ {"cg"} : ends'[x] = ends[x] /\ \A k : Code(x, k)' = Code(x, k)
      /\ request' = request /\ dialled' = dialled
  BY SendEffect, Zenon
<1>2. at["gateway"] = "credentials" => Boundary(buf'["cg"])
  BY <1>1, Zenon DEF HandshakeInv, GatewayInv
<1> QED
  BY <1>1, <1>2, Quiet, Zenon

(* The node accepts the connection of the gateway.                         *)
LEMMA NodeAcceptsStep ==
    ASSUME HandshakeInv, NodeAccepts
    PROVE  HandshakeInv'
<1>1. GatewayInv /\ NodeInv /\ ClientInv /\ RightVerdict
  BY Zenon DEF HandshakeInv
<1>2. /\ at["node"] = "off" /\ ends["gn"] # <<>> /\ at' = [at EXCEPT !["node"] = "greeting"]
      /\ UNCHANGED <<stable, streams>> /\ request' = request /\ dialled' = dialled
  BY Zenon DEF NodeAccepts
<1>3. /\ TypeOK' /\ \A x \in Streams : StreamOK(x)'
      /\ Steady /\ Moved("node", "greeting") /\ Mute /\ taken' = taken /\ buf' = buf
  BY <1>2, Idle, Zenon DEF Parties, Stages
<1>4. /\ at'["node"] = "greeting" /\ at'["client"] = at["client"]
      /\ at'["gateway"] = at["gateway"]
  BY <1>3, Zenon DEF Moved, Parties
<1>5. /\ \A k : Code("gc", k)' = Code("gc", k)
      /\ ends'["gc"] = ends["gc"] /\ ends'["gn"] = ends["gn"] /\ ends'["ng"] = ends["ng"]
  BY <1>3, Zenon DEF Mute, Streams
<1>6. GatewayInv'
  <2>1. at["gateway"] = "credentials" => Boundary(buf'["cg"])
    BY <1>1, <1>3, Zenon DEF GatewayInv
  <2> QED
    BY <1>1, <1>2, <1>3, <1>4, <1>5, <2>1, GatewayFrame, Zenon
<1>7. ClientInv'
  BY <1>1, <1>3, <1>4, ClientFrame, Zenon
<1>8. NodeInv'
  <2>1. ends["gn"] \in Seq(Nat)
    BY Zenon DEF HandshakeInv, TypeOK, Streams
  <2>2. Len(ends["gn"]) > 0
    BY <1>2, <2>1
  <2>3. taken["gn"] = 0 /\ Len(ends["ng"]) = 0 /\ dialled \subseteq {client.addr}
    BY <1>1, <1>2, Zenon DEF NodeInv
  <2> QED
    BY <1>2, <1>3, <1>4, <1>5, <2>2, <2>3 DEF NodeInv, Steady
<1>9. RightVerdict'
  <2>1. Welcome' = Welcome
    BY <1>3, SteadyFacts, Zenon
  <2> QED
    BY <1>1, <1>2, <1>4, <2>1, Zenon DEF RightVerdict
<1> QED
  BY <1>3, <1>6, <1>7, <1>8, <1>9, Zenon DEF HandshakeInv

(* A party that is done with a frame has the one that its peer wrote.      *)
LEMMA Whole ==
    ASSUME HandshakeInv, NEW p \in Parties, Reading(p), Missing(p) = 0,
           NEW s, s = Incoming(p), ~Exempt(s), NEW t, t = taken[s]
    PROVE  /\ s \in Streams /\ t \in Nat /\ t < Len(ends[s]) /\ t < Cap(s)
           /\ Len(ends[s]) \in Nat /\ Len(ends[s]) <= Cap(s)
           /\ Frame(p) \in Expect(s, t + 1) /\ Code(s, t + 1) = Frame(p)[2]
<1>1. /\ s \in Streams /\ t \in Nat /\ t < Len(ends[s])
      /\ buf[s] \in Expect(s, t + 1) /\ HoldsAt(s, t + 1, buf[s])
  BY Finished, Zenon
<1>2. Frame(p) = buf[s]
  BY Zenon DEF Frame
<1>3. /\ client \in Clients /\ auth \in BOOLEAN /\ StreamType(s)
      /\ Len(ends[s]) <= Cap(s) /\ Cap(s) \in Nat
  BY <1>1, CapIs, Zenon DEF HandshakeInv, TypeOK, StreamOK, Framed
<1>4. Len(ends[s]) \in Nat
  BY <1>3 DEF StreamType
<1>5. t + 1 \in 1 .. Cap(s) /\ t < Cap(s) /\ (t + 1) - 1 = t
  BY <1>1, <1>3, <1>4
<1>6. Len(buf[s]) \in Nat /\ Len(buf[s]) >= 2
  BY <1>1, <1>3, <1>5, ExpectSeq, Zenon
<1>7. 2 \in 1 .. Len(buf[s])
  BY <1>6
<1>8. written[s][End(s, (t + 1) - 1) + 2] = buf[s][2]
  BY <1>1, <1>7, Zenon DEF HoldsAt
<1> QED
  BY <1>1, <1>2, <1>3, <1>4, <1>5, <1>8 DEF Code

(* The answers that a client gets, and the verdict they amount to.         *)
LEMMA ClientHears ==
    ASSUME HandshakeInv, Reading("client"), Missing("client") = 0,
           NEW f, f = Frame("client")
    PROVE  /\ at["client"] = "method" =>
                 f[2] = IF Offered THEN Offer ELSE NO_ACCEPTABLE
           /\ at["client"] = "status" => f[2] = IF Cred = Expected THEN 0 ELSE 1
           /\ at["client"] = "reply" =>
                 /\ at["gateway"] \in {"relay", "failed"}
                 /\ f[2] = SUCCESS <=> at["gateway"] = "relay"
<1>1. /\ auth \in BOOLEAN /\ GatewayInv /\ ClientInv
      /\ Incoming("client") = "gc" /\ ~Exempt("gc") /\ "client" \in Parties
  BY Zenon DEF HandshakeInv, TypeOK, Incoming, Source, Exempt, Parties
<1>2. PICK t : t = taken["gc"]
  BY Zenon
<1>3. /\ t \in Nat /\ t < Len(ends["gc"]) /\ t < Cap("gc")
      /\ Len(ends["gc"]) \in Nat /\ Len(ends["gc"]) <= Cap("gc")
      /\ f \in Expect("gc", t + 1) /\ Code("gc", t + 1) = f[2]
  BY <1>1, <1>2, Whole, Zenon
<1>4. at["client"] = "method" => f[2] = IF Offered THEN Offer ELSE NO_ACCEPTABLE
  <2> SUFFICES ASSUME at["client"] = "method"
               PROVE  f[2] = IF Offered THEN Offer ELSE NO_ACCEPTABLE
    BY Zenon
  <2>1. t = 0
    BY <1>1, <1>2, Zenon DEF ClientInv
  <2>2. f = MethodBytes(IF Offered THEN Offer ELSE NO_ACCEPTABLE)
    BY <1>1, <1>3, <2>1, ExpectIs
  <2> QED
    BY <2>2 DEF MethodBytes
<1>5. at["client"] = "status" => f[2] = IF Cred = Expected THEN 0 ELSE 1
  <2> SUFFICES ASSUME at["client"] = "status"
               PROVE  f[2] = IF Cred = Expected THEN 0 ELSE 1
    BY Zenon
  <2>1. t = 1 /\ auth
    BY <1>1, <1>2, Zenon DEF ClientInv
  <2>2. t + 1 = 2
    BY <2>1
  <2>3. f = auth_reply_bytes(Cred = Expected)
    BY <1>1, <1>3, <2>1, <2>2, ExpectIs
  <2> QED
    BY <2>3 DEF auth_reply_bytes
<1>6. at["client"] = "reply" => /\ at["gateway"] \in {"relay", "failed"}
                                /\ f[2] = SUCCESS <=> at["gateway"] = "relay"
  <2> SUFFICES ASSUME at["client"] = "reply"
               PROVE  /\ at["gateway"] \in {"relay", "failed"}
                      /\ f[2] = SUCCESS <=> at["gateway"] = "relay"
    BY Zenon
  <2>1. t = Rounds - 1 /\ Cap("gc") = Rounds /\ Rounds \in {2, 3}
    BY <1>1, <1>2, ExpectIs, Zenon DEF ClientInv
  <2>2. t + 1 = Rounds /\ Len(ends["gc"]) = Rounds
    BY <1>3, <2>1
  <2>3. Code("gc", Rounds) = f[2]
    BY <1>3, <2>2, Zenon
  <2> QED
    BY <1>1, <2>2, <2>3, Zenon DEF GatewayInv
<1> QED
  BY <1>4, <1>5, <1>6, Zenon

(* The client goes by the answer it got.                                   *)
LEMMA ClientTakesStep ==
    ASSUME HandshakeInv, ClientTakes
    PROVE  HandshakeInv'
<1>1. /\ GatewayInv /\ NodeInv /\ ClientInv /\ RightVerdict /\ auth \in BOOLEAN
      /\ Incoming("client") = "gc" /\ ~Exempt("gc") /\ "client" \in Parties
  BY Zenon DEF HandshakeInv, TypeOK, Incoming, Source, Exempt, Parties
<1>2. PICK f : f = Frame("client")
  BY Zenon
<1>3. PICK good \in BOOLEAN :
        good <=> CASE at["client"] = "method" ->
                        f[2] = (IF HasCredentials THEN USER_PASS ELSE NO_AUTH)
                   [] OTHER -> f[2] = SUCCESS
  BY Zenon
<1>4. PICK next : next = CASE at["client"] = "method" /\ HasCredentials -> "status"
                           [] at["client"] = "reply" -> "relay"
                           [] OTHER -> "reply"
  BY Zenon
<1>5. PICK stage : stage = IF good THEN next ELSE "failed"
  BY Zenon
<1>6. /\ Reading("client") /\ Missing("client") = 0 /\ Accept("client", stage) /\ Silence
      /\ request' = request /\ dialled' = dialled
  BY <1>2, <1>3, <1>4, <1>5, Zenon DEF ClientTakes
<1>7. at["client"] \in {"method", "status", "reply"}
  BY <1>1, <1>6, Zenon DEF ClientInv, Reading
<1>8. stage \in Stages
  BY <1>4, <1>5, <1>7, Zenon DEF Stages
<1>9. /\ TypeOK' /\ \A x \in Streams : StreamOK(x)'
      /\ Steady /\ Moved("client", stage) /\ Took("gc") /\ Mute
  BY <1>1, <1>6, <1>8, Listen, Zenon
<1>10. /\ at'["client"] = stage /\ at'["gateway"] = at["gateway"] /\ at'["node"] = at["node"]
       /\ taken'["gc"] = taken["gc"] + 1 /\ taken'["cg"] = taken["cg"]
       /\ taken'["gn"] = taken["gn"] /\ taken'["ng"] = taken["ng"] /\ buf'["cg"] = buf["cg"]
  BY <1>9, Zenon DEF Moved, Took, Parties, Streams
<1>11. /\ \A k : Code("gc", k)' = Code("gc", k)
       /\ \A k : Code("ng", k)' = Code("ng", k)
       /\ ends'["gc"] = ends["gc"] /\ ends'["gn"] = ends["gn"] /\ ends'["ng"] = ends["ng"]
  BY <1>9, Zenon DEF Mute, Streams
<1>12. GatewayInv'
  <2>1. at["gateway"] = "credentials" => Boundary(buf'["cg"])
    BY <1>1, <1>10, Zenon DEF GatewayInv
  <2> QED
    BY <1>1, <1>6, <1>9, <1>10, <1>11, <2>1, GatewayFrame, Zenon
<1>13. NodeInv'
  BY <1>1, <1>6, <1>9, <1>10, <1>11, NodeFrame, Zenon
<1>14. /\ at["client"] = "method" => f[2] = IF Offered THEN Offer ELSE NO_ACCEPTABLE
       /\ at["client"] = "status" => f[2] = IF Cred = Expected THEN 0 ELSE 1
       /\ at["client"] = "reply" => /\ at["gateway"] \in {"relay", "failed"}
                                    /\ f[2] = SUCCESS <=> at["gateway"] = "relay"
  BY <1>2, <1>6, ClientHears, Zenon
<1>15. /\ Welcome' = Welcome /\ HasCredentials' = HasCredentials /\ Rounds' = Rounds
       /\ auth' = auth /\ HasCredentials \in BOOLEAN
  BY <1>9, SteadyFacts, Zenon DEF Steady, HasCredentials
<1>16. /\ Rounds = IF auth THEN 3 ELSE 2
       /\ Offer = IF auth THEN USER_PASS ELSE NO_AUTH
  BY Zenon DEF Rounds, Offer
<1>17. CASE at["client"] = "method"
  <2>1. good <=> f[2] = (IF HasCredentials THEN USER_PASS ELSE NO_AUTH)
    BY <1>3, <1>17, Zenon
  <2>2. good => auth = HasCredentials
    BY <1>1, <1>14, <1>15, <1>16, <1>17, <2>1 DEF USER_PASS, NO_AUTH, NO_ACCEPTABLE
  <2>3. next = IF HasCredentials THEN "status" ELSE "reply"
    BY <1>4, <1>15, <1>17, Zenon
  <2>4. taken["gc"] = 0
    BY <1>1, <1>17, Zenon DEF ClientInv
  <2>5. ClientInv'
    BY <1>5, <1>10, <1>15, <1>16, <2>2, <2>3, <2>4 DEF ClientInv
  <2>6. Welcome => Offered /\ auth = HasCredentials
    BY Zenon DEF Welcome, Offered, Offer
  <2>7. Welcome => good
    BY <1>14, <1>16, <1>17, <2>1, <2>6
  <2>8. RightVerdict'
    BY <1>1, <1>5, <1>6, <1>10, <1>15, <2>3, <2>7, Zenon DEF RightVerdict
  <2> QED
    BY <1>9, <1>12, <1>13, <2>5, <2>8, Zenon DEF HandshakeInv
<1>18. CASE at["client"] = "status"
  <2>1. (good <=> f[2] = SUCCESS) /\ next = "reply"
    BY <1>3, <1>4, <1>18, Zenon
  <2>2. taken["gc"] = 1 /\ auth /\ HasCredentials
    BY <1>1, <1>18, Zenon DEF ClientInv
  <2>3. ClientInv'
    BY <1>5, <1>10, <1>15, <1>16, <2>1, <2>2 DEF ClientInv
  <2>4. Welcome => Cred = Expected
    BY <2>2, Zenon DEF Welcome, Cred
  <2>5. Welcome => good
    BY <1>14, <1>18, <2>1, <2>4, Zenon DEF SUCCESS
  <2>6. RightVerdict'
    BY <1>1, <1>5, <1>6, <1>10, <1>15, <2>1, <2>5, Zenon DEF RightVerdict
  <2> QED
    BY <1>9, <1>12, <1>13, <2>3, <2>6, Zenon DEF HandshakeInv
<1>19. CASE at["client"] = "reply"
  <2>1. (good <=> f[2] = SUCCESS) /\ next = "relay"
    BY <1>3, <1>4, <1>19, Zenon
  <2>2. ClientInv'
    BY <1>5, <1>10, <2>1, Zenon DEF ClientInv
  <2>3. RightVerdict'
    BY <1>1, <1>5, <1>6, <1>10, <1>14, <1>15, <1>19, <2>1, Zenon DEF RightVerdict
  <2> QED
    BY <1>9, <1>12, <1>13, <2>2, <2>3, Zenon DEF HandshakeInv
<1> QED
  BY <1>7, <1>17, <1>18, <1>19, Zenon

(* The frames that a node reads, and what its parsers make of them.        *)
LEMMA NodeHears ==
    ASSUME HandshakeInv, Reading("node"), Missing("node") = 0
    PROVE  /\ at["node"] = "greeting" => ParseGreeting(Frame("node")) = {<<NO_AUTH>>}
           /\ at["node"] = "request" =>
                 /\ ParseRequest(Frame("node")) = {[command |-> CONNECT, addr |-> client.addr]}
                 /\ Welcome
<1>1. /\ client \in Clients /\ auth \in BOOLEAN /\ GatewayInv /\ NodeInv
      /\ Incoming("node") = "gn" /\ ~Exempt("gn") /\ "node" \in Parties
  BY Zenon DEF HandshakeInv, TypeOK, Incoming, Source, Exempt, Parties
<1>2. PICK t : t = taken["gn"]
  BY Zenon
<1>3. /\ t \in Nat /\ t < Len(ends["gn"]) /\ Len(ends["gn"]) \in Nat
      /\ Frame("node") \in Expect("gn", t + 1)
  BY <1>1, <1>2, Whole, Zenon
<1>4. ASSUME at["node"] = "greeting"
      PROVE  ParseGreeting(Frame("node")) = {<<NO_AUTH>>}
  <2>1. t = 0
    BY <1>1, <1>2, <1>4, Zenon DEF NodeInv
  <2>2. Frame("node") = GreetingBytes(VERSION, <<NO_AUTH>>)
    BY <1>1, <1>3, <2>1, ExpectIs
  <2>3. ParseGreeting(GreetingBytes(VERSION, <<NO_AUTH>>)) = {<<NO_AUTH>>}
    BY Constants, GreetingPaces, Zenon
  <2> QED
    BY <2>2, <2>3, Zenon
<1>5. ASSUME at["node"] = "request"
      PROVE  /\ ParseRequest(Frame("node")) = {[command |-> CONNECT, addr |-> client.addr]}
             /\ Welcome
  <2>1. t = 1
    BY <1>1, <1>2, <1>5, Zenon DEF NodeInv
  <2>2. t + 1 = 2
    BY <2>1
  <2>3. Frame("node") = RequestBytes(CONNECT, 0, client.addr)
    BY <1>1, <1>3, <2>2, ExpectIs, Zenon
  <2>4. Len(ends["gn"]) > 0
    BY <1>3
  <2>5. Welcome
    BY <1>1, <2>4, Zenon DEF GatewayInv
  <2>6. Proper(client.addr) /\ client.addr \in ClientAddr
    BY <1>1, <2>5, ClientParts, Zenon DEF Welcome
  <2>7. CONNECT \in 1 .. 3
    BY DEF CONNECT
  <2>8. ParseRequest(RequestBytes(CONNECT, 0, client.addr))
            = {[command |-> CONNECT, addr |-> client.addr]}
    BY <2>6, <2>7, Constants, RequestRoundTrip, Zenon
  <2> QED
    BY <2>3, <2>5, <2>8, Zenon
<1> QED
  BY <1>4, <1>5, Zenon

(* A node that moves on with an answer disturbs nobody else.               *)
LEMMA NodeMoves ==
    ASSUME HandshakeInv, Steady, NEW stage, Moved("node", stage), Took("gn"),
           NEW n, NEW c, Sent("ng", n, c), request' = request
    PROVE  /\ GatewayInv' /\ ClientInv' /\ at'["node"] = stage
           /\ at'["client"] = at["client"] /\ at'["gateway"] = at["gateway"]
           /\ taken'["gn"] = taken["gn"] + 1 /\ ends'["gn"] = ends["gn"]
           /\ Len(ends'["ng"]) = n + 1 /\ Code("ng", n + 1)' = c
<1>1. GatewayInv /\ ClientInv
  BY Zenon DEF HandshakeInv
<1>2. /\ at'["node"] = stage /\ at'["client"] = at["client"]
      /\ at'["gateway"] = at["gateway"]
  BY Zenon DEF Moved, Parties
<1>3. /\ taken'["gn"] = taken["gn"] + 1 /\ taken'["cg"] = taken["cg"]
      /\ taken'["gc"] = taken["gc"] /\ taken'["ng"] = taken["ng"] /\ buf'["cg"] = buf["cg"]
  BY Zenon DEF Took, Streams
<1>4. /\ ends'["gc"] = ends["gc"] /\ ends'["gn"] = ends["gn"]
      /\ \A k : Code("gc", k)' = Code("gc", k)
      /\ Len(ends'["ng"]) = n + 1 /\ Code("ng", n + 1)' = c
  BY Zenon DEF Sent, Streams
<1>5. at["gateway"] = "credentials" => Boundary(buf'["cg"])
  BY <1>1, <1>3, Zenon DEF GatewayInv
<1>6. GatewayInv'
  BY <1>1, <1>2, <1>3, <1>4, <1>5, GatewayFrame, Zenon
<1>7. ClientInv'
  BY <1>1, <1>2, <1>3, ClientFrame, Zenon
<1> QED
  BY <1>2, <1>3, <1>4, <1>6, <1>7, Zenon

(* The node answers the greeting.                                          *)
LEMMA NodeGreetingStep ==
    ASSUME HandshakeInv, NodeGreeting
    PROVE  HandshakeInv'
<1>1. /\ auth \in BOOLEAN /\ GatewayInv /\ NodeInv /\ RightVerdict
      /\ Incoming("node") = "gn" /\ ~Exempt("gn") /\ "node" \in Parties
  BY Zenon DEF HandshakeInv, TypeOK, Incoming, Source, Exempt, Parties
<1>2. /\ at["node"] = "greeting" /\ Missing("node") = 0 /\ Reading("node")
      /\ request' = request /\ dialled' = dialled
  BY Zenon DEF NodeGreeting, Complete, Reading
<1>3. ParseGreeting(Frame("node")) = {<<NO_AUTH>>}
  BY <1>2, NodeHears, Zenon
<1>4. negotiate(<<NO_AUTH>>, FALSE, TRUE) = NO_AUTH
  BY DEF negotiate
<1>5. Accept("node", "request") /\ Writes("ng", MethodBytes(NO_AUTH), <<>>)
  BY <1>3, <1>4, Zenon DEF NodeGreeting
<1>6. PICK n : n = Len(ends["ng"])
  BY Zenon
<1>7. n = 0 /\ taken["gn"] = 0 /\ Len(ends["gn"]) > 0 /\ dialled \subseteq {client.addr}
  BY <1>1, <1>2, <1>6, Zenon DEF NodeInv
<1>8. PICK f : f = MethodBytes(NO_AUTH)
  BY Zenon
<1>9. /\ f \in Seq(Byte) /\ Len(f) >= 2
  BY <1>8, Constants DEF MethodBytes
<1>10. /\ n < Cap("ng") /\ f \in Expect("ng", n + 1)
       /\ "ng" \in Streams \ {"gn"} /\ "request" \in Stages
  BY <1>1, <1>7, <1>8, ExpectIs DEF Streams, Stages
<1>11. /\ TypeOK' /\ \A x \in Streams : StreamOK(x)'
       /\ Steady /\ Moved("node", "request") /\ Took("gn") /\ Sent("ng", n, f[2])
  BY <1>1, <1>2, <1>5, <1>6, <1>8, <1>9, <1>10, PayloadIs, Exchange, Zenon
<1>12. /\ GatewayInv' /\ ClientInv' /\ at'["node"] = "request"
       /\ at'["client"] = at["client"] /\ at'["gateway"] = at["gateway"]
       /\ taken'["gn"] = taken["gn"] + 1 /\ ends'["gn"] = ends["gn"]
       /\ Len(ends'["ng"]) = n + 1
  BY <1>2, <1>11, NodeMoves, Zenon
<1>13. taken'["gn"] = 1 /\ Len(ends'["ng"]) = 1 /\ client' = client
  BY <1>7, <1>11, <1>12 DEF Steady
<1>14. NodeInv'
  BY <1>2, <1>7, <1>12, <1>13 DEF NodeInv
<1>15. RightVerdict'
  <2>1. Welcome' = Welcome
    BY <1>11, SteadyFacts, Zenon
  <2> QED
    BY <1>1, <1>2, <1>12, <2>1, Zenon DEF RightVerdict
<1> QED
  BY <1>11, <1>12, <1>14, <1>15, Zenon DEF HandshakeInv

(* The node parses the request, dials and replies.                         *)
LEMMA NodeRequestStep ==
    ASSUME HandshakeInv, NodeRequest
    PROVE  HandshakeInv'
<1>1. /\ auth \in BOOLEAN /\ GatewayInv /\ NodeInv /\ RightVerdict
      /\ Incoming("node") = "gn" /\ ~Exempt("gn") /\ "node" \in Parties
  BY Zenon DEF HandshakeInv, TypeOK, Incoming, Source, Exempt, Parties
<1>2. at["node"] = "request" /\ Missing("node") = 0 /\ Reading("node") /\ request' = request
  BY Zenon DEF NodeRequest, Complete, Reading
<1>3. ParseRequest(Frame("node")) = {[command |-> CONNECT, addr |-> client.addr]} /\ Welcome
  BY <1>2, NodeHears, Zenon
<1>4. PICK r \in ParseRequest(Frame("node")) :
         /\ dialled' = {r.addr}
         /\ \E code \in IF r.command = CONNECT THEN ReplyCodes
                        ELSE {COMMAND_NOT_SUPPORTED} :
               /\ Accept("node", IF code = SUCCESS THEN "relay" ELSE "failed")
               /\ Writes("ng", simple_reply(code),
                         IF code = SUCCESS THEN Payload ELSE <<>>)
  BY Zenon DEF NodeRequest
<1>5. r.command = CONNECT /\ r.addr = client.addr
  BY <1>3, <1>4
<1>6. PICK code \in ReplyCodes :
         /\ Accept("node", IF code = SUCCESS THEN "relay" ELSE "failed")
         /\ Writes("ng", simple_reply(code), IF code = SUCCESS THEN Payload ELSE <<>>)
  BY <1>4, <1>5, Zenon
<1>7. code \in Byte
  BY CodesAssumption, Zenon
<1>8. PICK stage : stage = IF code = SUCCESS THEN "relay" ELSE "failed"
  BY Zenon
<1>9. PICK data : data = IF code = SUCCESS THEN Payload ELSE <<>>
  BY Zenon
<1>10. PICK f : f = simple_reply(code)
  BY Zenon
<1>11. /\ Accept("node", stage) /\ Writes("ng", f, data) /\ stage \in Stages
       /\ data \in Seq(Byte)
  BY <1>6, <1>8, <1>9, <1>10, PayloadIs, Zenon DEF Stages
<1>12. f \in Seq(Byte) /\ Len(f) >= 2 /\ f[2] = code
  <2>1. f \in Seq(Byte) /\ Len(f) = 10 /\ f[2] = code
    BY <1>7, <1>10, ReplyLayout, Zenon
  <2> QED
    BY <2>1
<1>13. PICK n : n = Len(ends["ng"])
  BY Zenon
<1>14. n = 1 /\ taken["gn"] = 1 /\ Len(ends["gn"]) > 0
  BY <1>1, <1>2, <1>13, Zenon DEF NodeInv
<1>15. n + 1 = 2
  BY <1>14
<1>16. /\ n < Cap("ng") /\ n + 1 = Cap("ng") /\ "ng" \in Streams \ {"gn"}
  BY <1>1, <1>14, ExpectIs DEF Streams
<1>17. f \in Expect("ng", n + 1)
  <2>1. code \in 0 .. 255
    BY <1>7, Constants, Zenon
  <2>2. Expect("ng", 2) = {simple_reply(c) : c \in 0 .. 255}
    BY <1>1, ExpectIs, Zenon
  <2> QED
    BY <1>10, <1>15, <2>1, <2>2
<1>18. /\ TypeOK' /\ \A x \in Streams : StreamOK(x)'
       /\ Steady /\ Moved("node", stage) /\ Took("gn") /\ Sent("ng", n, f[2])
  BY <1>1, <1>2, <1>11, <1>12, <1>13, <1>16, <1>17, Exchange, Zenon
<1>19. /\ GatewayInv' /\ ClientInv' /\ at'["node"] = stage
       /\ at'["client"] = at["client"] /\ at'["gateway"] = at["gateway"]
       /\ ends'["gn"] = ends["gn"] /\ Len(ends'["ng"]) = n + 1 /\ Code("ng", n + 1)' = f[2]
  BY <1>2, <1>18, NodeMoves, Zenon
<1>20. /\ dialled' = {client.addr} /\ client' = client /\ Len(ends'["ng"]) = 2
       /\ Code("ng", 2)' = code
  <2>1. Code("ng", n + 1)' = code /\ Len(ends'["ng"]) = n + 1
    BY <1>12, <1>19, Zenon
  <2> QED
    BY <1>4, <1>5, <1>15, <1>18, <2>1, Zenon DEF Steady
<1>21. NodeInv'
  BY <1>8, <1>14, <1>19, <1>20, Zenon DEF NodeInv
<1>22. RightVerdict'
  <2>1. Welcome' = Welcome
    BY <1>18, SteadyFacts, Zenon
  <2>2. dialled' # {}
    BY <1>20, Zenon
  <2> QED
    BY <1>1, <1>2, <1>3, <1>8, <1>19, <2>1, <2>2, Zenon DEF RightVerdict
<1> QED
  BY <1>18, <1>19, <1>21, <1>22, Zenon DEF HandshakeInv

(* The gateway agrees to its one method when the client offers it.         *)
LEMMA Negotiated ==
    ASSUME auth \in BOOLEAN
    PROVE  negotiate(client.methods, auth, ~auth) = IF Offered THEN Offer ELSE NO_ACCEPTABLE
<1> DEFINE offers(m) == \E i \in DOMAIN client.methods : client.methods[i] = m
<1>1. negotiate(client.methods, auth, ~auth)
          = IF ~auth /\ offers(NO_AUTH) THEN NO_AUTH
            ELSE IF auth /\ offers(USER_PASS) THEN USER_PASS ELSE NO_ACCEPTABLE
  BY Zenon DEF negotiate
<1>2. Offered <=> offers(Offer)
  BY Zenon DEF Offered
<1> HIDE DEF offers
<1>3. Offer = IF auth THEN USER_PASS ELSE NO_AUTH
  BY Zenon DEF Offer
<1> QED
  BY <1>1, <1>2, <1>3, Zenon

(* The frames that the gateway reads of a client, and what its parsers     *)
(* make of them.                                                           *)
LEMMA GatewayHears ==
    ASSUME HandshakeInv, Reading("gateway"), Missing("gateway") = 0,
           ~Exempt(Incoming("gateway"))
    PROVE  /\ at["gateway"] = "greeting" =>
                 ParseGreeting(Frame("gateway")) =
                    IF client.ver = VERSION /\ client.methods # <<>>
                    THEN {client.methods} ELSE Bad
           /\ at["gateway"] = "credentials" =>
                 /\ HasCredentials
                 /\ TakeCredentials(Frame("gateway")) =
                       IF from_utf8(client.user) /\ from_utf8(client.password)
                       THEN {Cred} ELSE Bad
           /\ at["gateway"] = "request" =>
                 /\ auth = HasCredentials
                 /\ ParseRequest(Frame("gateway")) =
                       IF client.command \in 1 .. 3 /\ Proper(client.addr)
                       THEN {[command |-> client.command, addr |-> client.addr]} ELSE Bad
<1>1. client \in Clients /\ auth \in BOOLEAN /\ GatewayInv /\ "gateway" \in Parties
  BY Zenon DEF HandshakeInv, TypeOK, Parties
<1>2. /\ client.ver \in Byte /\ client.methods \in Text
      /\ client.user \in Text /\ client.password \in Text
      /\ client.command \in Byte /\ client.rsv \in Byte
      /\ client.addr \in ClientAddr
  BY <1>1, ClientParts, Zenon
<1>3. PICK t : t = taken["cg"]
  BY Zenon
<1>4. PICK f : f = Frame("gateway")
  BY Zenon
<1>5. ASSUME at["gateway"] \in {"greeting", "credentials", "request"}
      PROVE  t \in Nat /\ f = Script[t + 1] /\ ~Exempt("cg")
  <2>1. Incoming("gateway") = "cg"
    BY <1>5, Zenon DEF Incoming, Source
  <2>2. t \in Nat /\ f \in Expect("cg", t + 1)
    BY <1>1, <1>3, <1>4, <2>1, Whole, Zenon
  <2> QED
    BY <2>1, <2>2, Scripted, Zenon
<1>6. ASSUME at["gateway"] = "greeting"
      PROVE  ParseGreeting(f) = IF client.ver = VERSION /\ client.methods # <<>>
                                THEN {client.methods} ELSE Bad
  <2>1. t = 0
    BY <1>1, <1>3, <1>6, Zenon DEF GatewayInv
  <2>2. t + 1 = 1
    BY <2>1
  <2>3. f = GreetingBytes(client.ver, client.methods)
    BY <1>5, <1>6, <2>2, ScriptIs, Zenon
  <2> QED
    BY <1>2, <2>3, GreetingPaces, Zenon
<1>7. ASSUME at["gateway"] = "credentials"
      PROVE  /\ HasCredentials
             /\ TakeCredentials(f) = IF from_utf8(client.user) /\ from_utf8(client.password)
                                     THEN {Cred} ELSE Bad
  <2>1. t = 1
    BY <1>1, <1>3, <1>7, Zenon DEF GatewayInv
  <2>2. t + 1 = 2
    BY <2>1
  <2>3. f = Script[2]
    BY <1>5, <1>7, <2>2, Zenon
  <2>4. HasCredentials
    <3> SUFFICES ASSUME ~HasCredentials PROVE FALSE
      BY Zenon
    <3>1. f = RequestBytes(client.command, client.rsv, client.addr)
      BY <2>3, ScriptIs, Zenon
    <3>2. handle_user_pass_auth(f) = Refused /\ f \in Seq(Byte)
      BY <1>2, <3>1, RequestForCredentials, Zenon DEF Paces
    <3>3. Missing("gateway") = handle_user_pass_auth(f) - Len(f)
      BY <1>4, <1>7, Zenon DEF Missing, Asks
    <3>4. Missing("gateway") = Refused - Len(f) /\ Len(f) \in Nat
      BY <3>2, <3>3
    <3> QED
      BY <3>4 DEF Refused
  <2>5. f = CredentialBytes(client.user, client.password) /\ client.user # <<>>
    BY <2>3, <2>4, ScriptIs, Zenon DEF HasCredentials
  <2> QED
    BY <1>2, <2>4, <2>5, CredentialPaces, Zenon DEF Cred
<1>8. ASSUME at["gateway"] = "request"
      PROVE  /\ auth = HasCredentials
             /\ ParseRequest(f) = IF client.command \in 1 .. 3 /\ Proper(client.addr)
                                  THEN {[command |-> client.command, addr |-> client.addr]}
                                  ELSE Bad
  <2>1. t = Rounds - 1 /\ (auth => HasCredentials)
    BY <1>1, <1>3, <1>8, Zenon DEF GatewayInv
  <2>2. ~auth => t = 1
    BY <2>1 DEF Rounds
  <2>3. ~auth => ~HasCredentials
    BY <1>3, <1>5, <1>8, <2>2, Zenon DEF Exempt
  <2>4. auth = HasCredentials
    BY <1>1, <2>1, <2>3, Zenon DEF HasCredentials
  <2>5. Len(Script) = Rounds
    BY <2>4, ScriptIs, Zenon DEF Rounds
  <2>6. t + 1 = Rounds
    BY <2>1 DEF Rounds
  <2>7. f = RequestBytes(client.command, client.rsv, client.addr)
    BY <1>5, <1>8, <2>5, <2>6, ScriptIs, Zenon
  <2> QED
    BY <1>2, <2>4, <2>7, RequestRoundTrip, Zenon
<1> QED
  BY <1>4, <1>6, <1>7, <1>8, Zenon

(* A gateway that answers its client disturbs nobody else.                 *)
LEMMA GatewayAnswers ==
    ASSUME HandshakeInv, Steady, NEW stage, Moved("gateway", stage),
           NEW s \in {"cg", "ng"}, Took(s), NEW n, NEW c, Sent("gc", n, c), dialled' = dialled
    PROVE  /\ ClientInv' /\ NodeInv' /\ at'["gateway"] = stage
           /\ at'["client"] = at["client"] /\ at'["node"] = at["node"]
           /\ taken'[s] = taken[s] + 1 /\ taken'[IF s = "cg" THEN "ng" ELSE "cg"]
                                            = taken[IF s = "cg" THEN "ng" ELSE "cg"]
           /\ ends'["gn"] = ends["gn"] /\ Len(ends'["gc"]) = n + 1 /\ Code("gc", n + 1)' = c
<1>1. NodeInv /\ ClientInv
  BY Zenon DEF HandshakeInv
<1>2. /\ at'["gateway"] = stage /\ at'["client"] = at["client"] /\ at'["node"] = at["node"]
  BY Zenon DEF Moved, Parties
<1>3. /\ taken'[s] = taken[s] + 1 /\ taken'["gc"] = taken["gc"] /\ taken'["gn"] = taken["gn"]
      /\ taken'[IF s = "cg" THEN "ng" ELSE "cg"] = taken[IF s = "cg" THEN "ng" ELSE "cg"]
  BY Zenon DEF Took, Streams
<1>4. /\ ends'["ng"] = ends["ng"] /\ ends'["gn"] = ends["gn"]
      /\ \A k : Code("ng", k)' = Code("ng", k)
      /\ Len(ends'["gc"]) = n + 1 /\ Code("gc", n + 1)' = c
  BY Zenon DEF Sent, Streams
<1>5. NodeInv'
  BY <1>1, <1>2, <1>3, <1>4, NodeFrame, Zenon
<1>6. ClientInv'
  BY <1>1, <1>2, <1>3, ClientFrame, Zenon
<1> QED
  BY <1>2, <1>3, <1>4, <1>5, <1>6, Zenon

(* Nor does one that writes to its node.                                   *)
LEMMA GatewayForwards ==
    ASSUME HandshakeInv, Steady, NEW stage, Moved("gateway", stage),
           NEW s \in {"cg", "ng"}, Took(s), NEW n \in Nat, NEW c, Sent("gn", n, c),
           dialled' = dialled
    PROVE  /\ ClientInv' /\ NodeInv' /\ at'["gateway"] = stage
           /\ at'["client"] = at["client"] /\ at'["node"] = at["node"]
           /\ taken'[s] = taken[s] + 1 /\ taken'[IF s = "cg" THEN "ng" ELSE "cg"]
                                            = taken[IF s = "cg" THEN "ng" ELSE "cg"]
           /\ ends'["gc"] = ends["gc"] /\ Len(ends'["gn"]) = n + 1
<1>1. NodeInv /\ ClientInv
  BY Zenon DEF HandshakeInv
<1>2. /\ at'["gateway"] = stage /\ at'["client"] = at["client"] /\ at'["node"] = at["node"]
  BY Zenon DEF Moved, Parties
<1>3. /\ taken'[s] = taken[s] + 1 /\ taken'["gc"] = taken["gc"] /\ taken'["gn"] = taken["gn"]
      /\ taken'[IF s = "cg" THEN "ng" ELSE "cg"] = taken[IF s = "cg" THEN "ng" ELSE "cg"]
  BY Zenon DEF Took, Streams
<1>4. /\ ends'["ng"] = ends["ng"] /\ ends'["gc"] = ends["gc"]
      /\ \A k : Code("ng", k)' = Code("ng", k)
      /\ Len(ends'["gn"]) = n + 1
  BY Zenon DEF Sent, Streams
<1>5. Len(ends'["gn"]) > 0
  BY <1>4
<1>6. NodeInv'
  BY <1>1, <1>2, <1>3, <1>4, <1>5, NodeFrame, Zenon
<1>7. ClientInv'
  BY <1>1, <1>2, <1>3, ClientFrame, Zenon
<1> QED
  BY <1>2, <1>3, <1>4, <1>6, <1>7, Zenon

(* The gateway negotiates the method.                                      *)
LEMMA GatewayGreetingStep ==
    ASSUME HandshakeInv, GatewayGreeting
    PROVE  HandshakeInv'
<1>1. /\ auth \in BOOLEAN /\ client \in Clients /\ GatewayInv /\ RightVerdict /\ Shape
      /\ "gateway" \in Parties
  BY ShapeIs, Zenon DEF HandshakeInv, TypeOK, Parties
<1>2. /\ at["gateway"] = "greeting" /\ Missing("gateway") = 0 /\ Reading("gateway")
      /\ request' = request /\ dialled' = dialled
  BY Zenon DEF GatewayGreeting, Complete, Reading
<1>3. /\ taken["cg"] = 0 /\ taken["ng"] = 0 /\ Len(ends["gc"]) = 0 /\ Len(ends["gn"]) = 0
      /\ request \subseteq {[command |-> client.command, addr |-> client.addr]}
  BY <1>1, <1>2, Zenon DEF GatewayInv
<1>4. Incoming("gateway") = "cg" /\ ~Exempt("cg")
  BY <1>2, <1>3 DEF Incoming, Source, Exempt
<1>5. PICK methods \in ParseGreeting(Frame("gateway")) :
         LET m == negotiate(methods, auth, ~auth)
         IN  /\ Accept("gateway", CASE m = NO_ACCEPTABLE -> "failed"
                                    [] m = USER_PASS -> "credentials"
                                    [] OTHER -> "request")
             /\ Writes("gc", MethodBytes(m), <<>>)
  BY Zenon DEF GatewayGreeting
<1>6. methods = client.methods /\ client.ver = VERSION
  <2>1. ParseGreeting(Frame("gateway")) =
            IF client.ver = VERSION /\ client.methods # <<>> THEN {client.methods} ELSE Bad
    BY <1>2, <1>4, GatewayHears, Zenon
  <2> QED
    BY <1>5, <2>1, Zenon DEF Bad
<1>7. PICK m : m = IF Offered THEN Offer ELSE NO_ACCEPTABLE
  BY Zenon
<1>8. negotiate(methods, auth, ~auth) = m
  BY <1>1, <1>6, <1>7, Negotiated, Zenon
<1>9. PICK stage : stage = CASE m = NO_ACCEPTABLE -> "failed"
                             [] m = USER_PASS -> "credentials"
                             [] OTHER -> "request"
  BY Zenon
<1>10. Accept("gateway", stage) /\ Writes("gc", MethodBytes(m), <<>>)
  BY <1>5, <1>8, <1>9, Zenon
<1>11. stage = IF ~Offered THEN "failed" ELSE IF auth THEN "credentials" ELSE "request"
  BY <1>1, <1>7, <1>9 DEF Offer, NO_ACCEPTABLE, USER_PASS, NO_AUTH
<1>12. stage \in Stages /\ "gc" \in Streams \ {"cg"} /\ "cg" \in Streams
  BY <1>11, Zenon DEF Stages, Streams
<1>13. PICK f : f = MethodBytes(m)
  BY Zenon
<1>14. f \in Seq(Byte) /\ Len(f) >= 2
  <2>1. m \in Byte
    BY <1>7, Constants, Zenon DEF Offer
  <2> QED
    BY <1>13, <2>1, Constants DEF MethodBytes
<1>15. PICK n : n = Len(ends["gc"])
  BY Zenon
<1>16. n = 0 /\ n < Cap("gc") /\ f \in Expect("gc", n + 1) /\ Rounds = IF auth THEN 3 ELSE 2
  BY <1>1, <1>3, <1>7, <1>13, <1>15, ExpectIs
<1>17. /\ TypeOK' /\ \A x \in Streams : StreamOK(x)'
       /\ Steady /\ Moved("gateway", stage) /\ Took("cg") /\ Sent("gc", n, f[2])
  BY <1>1, <1>2, <1>4, <1>10, <1>12, <1>13, <1>14, <1>15, <1>16, PayloadIs, Exchange, Zenon
<1>18. /\ ClientInv' /\ NodeInv' /\ at'["gateway"] = stage
       /\ at'["client"] = at["client"] /\ at'["node"] = at["node"]
       /\ taken'["cg"] = 1 /\ taken'["ng"] = 0
       /\ ends'["gn"] = ends["gn"] /\ Len(ends'["gc"]) = 1
  <2>1. /\ ClientInv' /\ NodeInv' /\ at'["gateway"] = stage
        /\ at'["client"] = at["client"] /\ at'["node"] = at["node"]
        /\ taken'["cg"] = taken["cg"] + 1 /\ taken'["ng"] = taken["ng"]
        /\ ends'["gn"] = ends["gn"] /\ Len(ends'["gc"]) = n + 1
    BY <1>2, <1>17, GatewayAnswers, Zenon
  <2> QED
    BY <1>3, <1>16, <2>1
<1>19. Boundary(buf'["cg"])
  <2>1. buf'["cg"] = <<>>
    BY <1>1, <1>4, <1>10, <1>12, AcceptEffect, Zenon
  <2> QED
    BY <2>1 DEF Boundary
<1>20. /\ Welcome' = Welcome /\ Offered' = Offered /\ Rounds' = Rounds
       /\ auth' = auth /\ client' = client
  BY <1>17, SteadyFacts, Zenon DEF Steady
<1>21. GatewayInv'
  BY <1>1, <1>2, <1>3, <1>6, <1>11, <1>16, <1>18, <1>19, <1>20, SMTT(30) DEF GatewayInv
<1>22. RightVerdict'
  <2>1. Welcome => Offered
    BY Zenon DEF Welcome, Offered, Offer
  <2> QED
    BY <1>1, <1>2, <1>11, <1>18, <1>20, <2>1, Zenon DEF RightVerdict
<1> QED
  BY <1>17, <1>18, <1>21, <1>22, Zenon DEF HandshakeInv

(* The gateway checks the credentials.                                     *)
LEMMA GatewayCredentialsStep ==
    ASSUME HandshakeInv, GatewayCredentials
    PROVE  HandshakeInv'
<1>1. /\ auth \in BOOLEAN /\ client \in Clients /\ GatewayInv /\ RightVerdict
      /\ "gateway" \in Parties
  BY Zenon DEF HandshakeInv, TypeOK, Parties
<1>2. /\ at["gateway"] = "credentials" /\ Missing("gateway") = 0 /\ Reading("gateway")
      /\ request' = request /\ dialled' = dialled
  BY Zenon DEF GatewayCredentials, Complete, Reading
<1>3. /\ auth /\ taken["cg"] = 1 /\ taken["ng"] = 0
      /\ Len(ends["gc"]) = 1 /\ Len(ends["gn"]) = 0
      /\ request \subseteq {[command |-> client.command, addr |-> client.addr]}
      /\ client.ver = VERSION /\ Offered
  BY <1>1, <1>2, Zenon DEF GatewayInv
<1>4. Incoming("gateway") = "cg" /\ ~Exempt("cg")
  BY <1>2, <1>3, Zenon DEF Incoming, Source, Exempt
<1>5. PICK c \in TakeCredentials(Frame("gateway")) :
         /\ Accept("gateway", IF c = Expected THEN "request" ELSE "failed")
         /\ Writes("gc", auth_reply_bytes(c = Expected), <<>>)
  BY Zenon DEF GatewayCredentials
<1>6. c = Cred /\ HasCredentials
  <2>1. /\ HasCredentials
        /\ TakeCredentials(Frame("gateway")) =
              IF from_utf8(client.user) /\ from_utf8(client.password) THEN {Cred} ELSE Bad
    BY <1>2, <1>4, GatewayHears, Zenon
  <2> QED
    BY <1>5, <2>1, Zenon DEF Bad
<1>7. PICK stage : stage = IF Cred = Expected THEN "request" ELSE "failed"
  BY Zenon
<1>8. PICK f : f = auth_reply_bytes(Cred = Expected)
  BY Zenon
<1>9. Accept("gateway", stage) /\ Writes("gc", f, <<>>)
  BY <1>5, <1>6, <1>7, <1>8, Zenon
<1>10. stage \in Stages /\ "gc" \in Streams \ {"cg"} /\ "cg" \in Streams
  BY <1>7, Zenon DEF Stages, Streams
<1>11. f \in Seq(Byte) /\ Len(f) >= 2
  BY <1>8, Constants DEF auth_reply_bytes
<1>12. PICK n : n = Len(ends["gc"])
  BY Zenon
<1>13. n = 1 /\ n + 1 = 2 /\ Rounds = 3 /\ Cap("gc") = Rounds
  BY <1>1, <1>3, <1>12, Caps
<1>14. n < Cap("gc") /\ f \in Expect("gc", n + 1)
  BY <1>1, <1>3, <1>8, <1>13, ExpectIs
<1>15. /\ TypeOK' /\ \A x \in Streams : StreamOK(x)'
       /\ Steady /\ Moved("gateway", stage) /\ Took("cg") /\ Sent("gc", n, f[2])
  BY <1>1, <1>2, <1>4, <1>9, <1>10, <1>11, <1>12, <1>14, PayloadIs, Exchange, Zenon
<1>16. /\ ClientInv' /\ NodeInv' /\ at'["gateway"] = stage
       /\ at'["client"] = at["client"] /\ at'["node"] = at["node"]
       /\ taken'["cg"] = 2 /\ taken'["ng"] = 0
       /\ ends'["gn"] = ends["gn"] /\ Len(ends'["gc"]) = 2
  BY <1>2, <1>3, <1>13, <1>15, GatewayAnswers, Zenon
<1>17. /\ Welcome' = Welcome /\ Offered' = Offered /\ Rounds' = Rounds
       /\ HasCredentials' = HasCredentials /\ Cred' = Cred
       /\ auth' = auth /\ client' = client
  BY <1>15, SteadyFacts, Zenon DEF Steady
<1>18. GatewayInv'
  BY <1>2, <1>3, <1>6, <1>7, <1>13, <1>16, <1>17 DEF GatewayInv
<1>19. RightVerdict'
  <2>1. Welcome => Cred = Expected
    BY <1>3, Zenon DEF Welcome, Cred
  <2> QED
    BY <1>1, <1>2, <1>7, <1>16, <1>17, <2>1, Zenon DEF RightVerdict
<1> QED
  BY <1>15, <1>16, <1>18, <1>19, Zenon DEF HandshakeInv

(* The gateway parses the request and greets a node or turns it down.      *)
LEMMA GatewayRequestStep ==
    ASSUME HandshakeInv, GatewayRequest
    PROVE  HandshakeInv'
<1>1. /\ auth \in BOOLEAN /\ client \in Clients /\ GatewayInv /\ RightVerdict
      /\ "gateway" \in Parties
  BY Zenon DEF HandshakeInv, TypeOK, Parties
<1>2. /\ at["gateway"] = "request" /\ Missing("gateway") = 0 /\ Reading("gateway")
      /\ dialled' = dialled
  BY Zenon DEF GatewayRequest, Complete, Reading
<1>3. /\ taken["cg"] = Rounds - 1 /\ taken["ng"] = 0
      /\ Len(ends["gc"]) = Rounds - 1 /\ Len(ends["gn"]) = 0
      /\ (auth => HasCredentials /\ Cred = Expected)
      /\ client.ver = VERSION /\ Offered
  BY <1>1, <1>2, Zenon DEF GatewayInv
<1>4. Incoming("gateway") = "cg" /\ "cg" \in Streams
  BY <1>2, Zenon DEF Incoming, Source, Streams
<1>5. PICK r \in ParseRequest(Frame("gateway")) :
         /\ \/ /\ r.command = CONNECT
               /\ Accept("gateway", "method")
               /\ Writes("gn", GreetingBytes(VERSION, <<NO_AUTH>>), <<>>)
            \/ /\ r.command # CONNECT
               /\ Accept("gateway", "failed")
               /\ Writes("gc", simple_reply(COMMAND_NOT_SUPPORTED), <<>>)
         /\ request' = {r}
  BY Zenon DEF GatewayRequest
<1>6. ~Exempt("cg")
  BY <1>1, <1>2, <1>4, <1>5, ExemptReader, Zenon DEF Bad
<1>7. /\ r = [command |-> client.command, addr |-> client.addr]
      /\ Proper(client.addr) /\ auth = HasCredentials
  <2>1. /\ auth = HasCredentials
        /\ ParseRequest(Frame("gateway")) =
              IF client.command \in 1 .. 3 /\ Proper(client.addr)
              THEN {[command |-> client.command, addr |-> client.addr]} ELSE Bad
    BY <1>2, <1>4, <1>6, GatewayHears, Zenon
  <2> QED
    BY <1>5, <2>1, Zenon DEF Bad
<1>8. r.command = client.command /\ request' = {[command |-> client.command, addr |-> client.addr]}
  BY <1>5, <1>7, Zenon
<1>9. Rounds \in {2, 3} /\ Cap("gc") = Rounds /\ Cap("gn") = 2
  BY <1>1, ExpectIs, Zenon
<1>10. CASE r.command = CONNECT
  <2>1. Welcome
    BY <1>1, <1>3, <1>7, <1>8, <1>10, Zenon DEF Welcome, Offered, Offer, Cred
  <2>2. PICK f : f = GreetingBytes(VERSION, <<NO_AUTH>>)
    BY Zenon
  <2>3. Accept("gateway", "method") /\ Writes("gn", f, <<>>)
    BY <1>5, <1>10, <2>2, Zenon
  <2>4. PICK n : n = Len(ends["gn"])
    BY Zenon
  <2>5. /\ n = 0 /\ n < Cap("gn") /\ f \in Expect("gn", n + 1)
        /\ "gn" \in Streams \ {"cg"} /\ "method" \in Stages
    BY <1>1, <1>3, <1>9, <2>2, <2>4, ExpectIs DEF Streams, Stages
  <2>6. n + 1 \in 1 .. Cap("gn")
    BY <1>9, <2>5
  <2>7. f \in Seq(Byte) /\ Len(f) >= 2
    BY <1>1, <2>5, <2>6, ExpectSeq, Zenon
  <2>8. /\ TypeOK' /\ \A x \in Streams : StreamOK(x)'
        /\ Steady /\ Moved("gateway", "method") /\ Took("cg") /\ Sent("gn", n, f[2])
    BY <1>1, <1>2, <1>4, <1>6, <2>3, <2>4, <2>5, <2>7, PayloadIs, Exchange, Zenon
  <2>9. /\ ClientInv' /\ NodeInv' /\ at'["gateway"] = "method"
        /\ at'["client"] = at["client"] /\ at'["node"] = at["node"]
        /\ taken'["ng"] = taken["ng"]
        /\ ends'["gc"] = ends["gc"] /\ Len(ends'["gn"]) = n + 1
    <3>1. n \in Nat
      BY <2>5, Zenon
    <3> QED
      BY <1>2, <2>8, <3>1, GatewayForwards, Zenon
  <2>10. Len(ends'["gn"]) = 1
    BY <2>5, <2>9
  <2>11. /\ Welcome' = Welcome /\ Offered' = Offered /\ Rounds' = Rounds
         /\ auth' = auth /\ client' = client
    BY <2>8, SteadyFacts, Zenon DEF Steady
  <2>12. GatewayInv'
    <3>1. Len(ends'["gc"]) = Rounds' - 1 /\ Len(ends'["gc"]) # Rounds' /\ taken'["ng"] = 0
      BY <1>3, <1>9, <2>9, <2>11
    <3> QED
      BY <1>3, <1>8, <2>1, <2>9, <2>10, <2>11, <3>1, Zenon DEF GatewayInv
  <2>13. RightVerdict'
    BY <1>1, <1>2, <2>9, <2>11, Zenon DEF RightVerdict
  <2> QED
    BY <2>8, <2>9, <2>12, <2>13, Zenon DEF HandshakeInv
<1>11. CASE r.command # CONNECT
  <2>1. ~Welcome
    BY <1>8, <1>11, Zenon DEF Welcome
  <2>2. PICK f : f = simple_reply(COMMAND_NOT_SUPPORTED)
    BY Zenon
  <2>3. Accept("gateway", "failed") /\ Writes("gc", f, <<>>)
    BY <1>5, <1>11, <2>2, Zenon
  <2>4. PICK n : n = Len(ends["gc"])
    BY Zenon
  <2>5. n = Rounds - 1 /\ n < Cap("gc") /\ n + 1 = Rounds
    BY <1>3, <1>9, <2>4
  <2>6. f \in Expect("gc", n + 1) /\ "gc" \in Streams \ {"cg"} /\ "failed" \in Stages
    BY <1>1, <2>2, <2>5, ExpectIs, Zenon DEF Streams, Stages
  <2>7. f \in Seq(Byte) /\ Len(f) >= 2 /\ f[2] = COMMAND_NOT_SUPPORTED
    <3>1. f \in Seq(Byte) /\ Len(f) = 10 /\ f[2] = COMMAND_NOT_SUPPORTED
      BY <2>2, Constants, ReplyLayout, Zenon
    <3> QED
      BY <3>1
  <2>8. /\ TypeOK' /\ \A x \in Streams : StreamOK(x)'
        /\ Steady /\ Moved("gateway", "failed") /\ Took("cg") /\ Sent("gc", n, f[2])
    BY <1>1, <1>2, <1>4, <1>6, <2>3, <2>4, <2>5, <2>6, <2>7, PayloadIs, Exchange, Zenon
  <2>9. /\ ClientInv' /\ NodeInv' /\ at'["gateway"] = "failed"
        /\ at'["client"] = at["client"] /\ at'["node"] = at["node"]
        /\ ends'["gn"] = ends["gn"] /\ Code("gc", n + 1)' = f[2]
    BY <1>2, <2>8, GatewayAnswers, Zenon
  <2>10. /\ Welcome' = Welcome /\ Rounds' = Rounds /\ client' = client
    BY <2>8, SteadyFacts, Zenon DEF Steady
  <2>11. ~(Code("gc", Rounds)' = SUCCESS)
    <3>1. n + 1 = Rounds'
      BY <2>5, <2>10, Zenon
    <3>2. Code("gc", Rounds)' = f[2]
      BY <2>9, <3>1, Zenon DEF Code, End
    <3> QED
      BY <2>7, <3>2 DEF COMMAND_NOT_SUPPORTED, SUCCESS
  <2>12. GatewayInv'
    BY <1>3, <1>8, <2>9, <2>10, <2>11 DEF GatewayInv
  <2>13. RightVerdict'
    BY <1>1, <1>2, <2>1, <2>9, <2>10, Zenon DEF RightVerdict
  <2> QED
    BY <2>8, <2>9, <2>12, <2>13, Zenon DEF HandshakeInv
<1> QED
  BY <1>10, <1>11, Zenon

(* The gateway passes the request on to the node.                          *)
LEMMA GatewayMethodStep ==
    ASSUME HandshakeInv, GatewayMethod
    PROVE  HandshakeInv'
<1>1. /\ auth \in BOOLEAN /\ client \in Clients /\ GatewayInv /\ RightVerdict
      /\ "gateway" \in Parties
  BY Zenon DEF HandshakeInv, TypeOK, Parties
<1>2. /\ at["gateway"] = "method" /\ Missing("gateway") = 0 /\ Reading("gateway")
      /\ request' = request /\ dialled' = dialled
  BY Zenon DEF GatewayMethod, Complete, Reading
<1>3. /\ taken["ng"] = 0 /\ Len(ends["gn"]) = 1 /\ Len(ends["gc"]) = Rounds - 1
      /\ client.ver = VERSION /\ Offered /\ Welcome
      /\ request \subseteq {[command |-> client.command, addr |-> client.addr]}
  BY <1>1, <1>2, Zenon DEF GatewayInv
<1>4. Incoming("gateway") = "ng" /\ "ng" \in Streams /\ ~Exempt("ng")
  BY <1>2, Zenon DEF Incoming, Source, Streams, Exempt
<1>5. Frame("gateway") = MethodBytes(NO_AUTH)
  <2>1. Frame("gateway") \in Expect("ng", 0 + 1)
    BY <1>1, <1>2, <1>3, <1>4, Whole, Zenon
  <2> QED
    BY <1>1, <2>1, ExpectIs
<1>6. PICK r \in request : /\ Accept("gateway", "reply")
                           /\ Writes("gn", RequestBytes(CONNECT, 0, r.addr), <<>>)
  BY <1>5, Zenon DEF GatewayMethod
<1>7. r.addr = client.addr
  BY <1>3, <1>6
<1>8. PICK f : f = RequestBytes(CONNECT, 0, client.addr)
  BY Zenon
<1>9. PICK n : n = Len(ends["gn"])
  BY Zenon
<1>10. /\ n = 1 /\ n + 1 = 2 /\ Cap("gn") = 2 /\ n < Cap("gn") /\ n \in Nat
       /\ n + 1 \in 1 .. Cap("gn") /\ Rounds \in {2, 3}
  BY <1>1, <1>3, <1>9, ExpectIs
<1>11. f \in Expect("gn", n + 1) /\ "gn" \in Streams \ {"ng"} /\ "reply" \in Stages
  BY <1>1, <1>8, <1>10, ExpectIs, Zenon DEF Streams, Stages
<1>12. f \in Seq(Byte) /\ Len(f) >= 2
  BY <1>1, <1>10, <1>11, ExpectSeq, Zenon
<1>13. Accept("gateway", "reply") /\ Writes("gn", f, <<>>)
  BY <1>6, <1>7, <1>8, Zenon
<1>14. /\ TypeOK' /\ \A x \in Streams : StreamOK(x)'
       /\ Steady /\ Moved("gateway", "reply") /\ Took("ng") /\ Sent("gn", n, f[2])
  BY <1>1, <1>2, <1>4, <1>9, <1>10, <1>11, <1>12, <1>13, PayloadIs, Exchange, Zenon
<1>15. /\ ClientInv' /\ NodeInv' /\ at'["gateway"] = "reply"
       /\ at'["client"] = at["client"] /\ at'["node"] = at["node"]
       /\ taken'["ng"] = taken["ng"] + 1
       /\ ends'["gc"] = ends["gc"] /\ Len(ends'["gn"]) = n + 1
  BY <1>2, <1>10, <1>14, GatewayForwards, Zenon
<1>16. taken'["ng"] = 1 /\ Len(ends'["gn"]) = 2
  BY <1>3, <1>10, <1>15
<1>17. /\ Welcome' = Welcome /\ Offered' = Offered /\ Rounds' = Rounds
       /\ auth' = auth /\ client' = client
  BY <1>14, SteadyFacts, Zenon DEF Steady
<1>18. GatewayInv'
  BY <1>2, <1>3, <1>10, <1>15, <1>16, <1>17 DEF GatewayInv
<1>19. RightVerdict'
  BY <1>1, <1>2, <1>15, <1>17, Zenon DEF RightVerdict
<1> QED
  BY <1>14, <1>15, <1>18, <1>19, Zenon DEF HandshakeInv

(* The gateway passes a success on to its client, or gives up.             *)
LEMMA GatewayReplyStep ==
    ASSUME HandshakeInv, GatewayReply
    PROVE  HandshakeInv'
<1>1. /\ auth \in BOOLEAN /\ client \in Clients /\ GatewayInv /\ NodeInv /\ ClientInv
      /\ RightVerdict /\ "gateway" \in Parties
  BY Zenon DEF HandshakeInv, TypeOK, Parties
<1>2. /\ at["gateway"] = "reply" /\ Missing("gateway") = 0 /\ Reading("gateway")
      /\ request' = request /\ dialled' = dialled
  BY Zenon DEF GatewayReply, Complete, Reading
<1>3. /\ taken["ng"] = 1 /\ Len(ends["gn"]) = 2 /\ Len(ends["gc"]) = Rounds - 1
      /\ client.ver = VERSION /\ Offered /\ Welcome
      /\ request \subseteq {[command |-> client.command, addr |-> client.addr]}
  BY <1>1, <1>2, Zenon DEF GatewayInv
<1>4. Incoming("gateway") = "ng" /\ "ng" \in Streams /\ ~Exempt("ng")
  BY <1>2, Zenon DEF Incoming, Source, Streams, Exempt
<1>5. /\ at["node"] \in {"relay", "failed"}
      /\ Frame("gateway")[2] = SUCCESS <=> at["node"] = "relay"
  <2>1. PICK t : t = taken["ng"]
    BY Zenon
  <2>2. /\ t < Len(ends["ng"]) /\ Len(ends["ng"]) \in Nat /\ Len(ends["ng"]) <= Cap("ng")
        /\ Code("ng", t + 1) = Frame("gateway")[2]
    BY <1>1, <1>2, <1>4, <2>1, Whole, Zenon
  <2>3. t + 1 = 2 /\ Len(ends["ng"]) = 2
    <3>1. Cap("ng") = 2
      BY <1>1, ExpectIs, Zenon
    <3>2. t = 1 /\ 1 + 1 = 2
      BY <1>3, <2>1
    <3>3. \A l \in Nat : 1 < l /\ l <= 2 => l = 2
      OBVIOUS
    <3> QED
      BY <2>2, <3>1, <3>2, <3>3, Zenon
  <2>4. Code("ng", 2) = Frame("gateway")[2]
    BY <2>2, <2>3, Zenon
  <2> QED
    BY <1>1, <2>3, <2>4, Zenon DEF NodeInv
<1>6. Rounds \in {2, 3} /\ Cap("gc") = Rounds /\ "relay" \in Stages /\ "failed" \in Stages
  BY <1>1, ExpectIs, Zenon DEF Stages
<1>7. CASE Frame("gateway")[2] = SUCCESS
  <2>1. PICK f : f = simple_reply(SUCCESS)
    BY Zenon
  <2>2. Accept("gateway", "relay") /\ Writes("gc", f, Payload)
    BY <1>7, <2>1, Zenon DEF GatewayReply
  <2>3. PICK n : n = Len(ends["gc"])
    BY Zenon
  <2>4. n = Rounds - 1 /\ n < Cap("gc") /\ n + 1 = Rounds /\ n + 1 = Cap("gc")
    BY <1>3, <1>6, <2>3
  <2>5. f \in Expect("gc", n + 1) /\ "gc" \in Streams \ {"ng"}
    BY <1>1, <2>1, <2>4, ExpectIs, Zenon DEF Streams
  <2>6. f \in Seq(Byte) /\ Len(f) >= 2 /\ f[2] = SUCCESS
    <3>1. f \in Seq(Byte) /\ Len(f) = 10 /\ f[2] = SUCCESS
      BY <2>1, Constants, ReplyLayout, Zenon
    <3> QED
      BY <3>1
  <2>7. /\ TypeOK' /\ \A x \in Streams : StreamOK(x)'
        /\ Steady /\ Moved("gateway", "relay") /\ Took("ng") /\ Sent("gc", n, f[2])
    BY <1>1, <1>2, <1>4, <1>6, <2>2, <2>3, <2>4, <2>5, <2>6, PayloadIs, Exchange, Zenon
  <2>8. /\ ClientInv' /\ NodeInv' /\ at'["gateway"] = "relay"
        /\ at'["client"] = at["client"] /\ at'["node"] = at["node"]
        /\ ends'["gn"] = ends["gn"] /\ Code("gc", n + 1)' = f[2]
    BY <1>2, <2>7, GatewayAnswers, Zenon
  <2>9. /\ Welcome' = Welcome /\ Offered' = Offered /\ Rounds' = Rounds /\ client' = client
    BY <2>7, SteadyFacts, Zenon DEF Steady
  <2>10. Code("gc", Rounds)' = SUCCESS
    <3>1. n + 1 = Rounds'
      BY <2>4, <2>9, Zenon
    <3>2. Code("gc", Rounds)' = f[2]
      BY <2>8, <3>1, Zenon DEF Code, End
    <3> QED
      BY <2>6, <3>2, Zenon
  <2>11. GatewayInv'
    BY <1>2, <1>3, <2>8, <2>9, <2>10, Zenon DEF GatewayInv
  <2>12. RightVerdict'
    BY <1>1, <1>2, <1>5, <1>7, <2>8, <2>9, Zenon DEF RightVerdict
  <2> QED
    BY <2>7, <2>8, <2>11, <2>12, Zenon DEF HandshakeInv
<1>8. CASE Frame("gateway")[2] # SUCCESS
  <2>1. Accept("gateway", "failed") /\ Silence
    BY <1>8, Zenon DEF GatewayReply
  <2>2. /\ TypeOK' /\ \A x \in Streams : StreamOK(x)'
        /\ Steady /\ Moved("gateway", "failed") /\ Took("ng") /\ Mute
    BY <1>1, <1>2, <1>4, <1>6, <2>1, Listen, Zenon
  <2>3. /\ at'["gateway"] = "failed" /\ at'["client"] = at["client"]
        /\ at'["node"] = at["node"]
    BY <2>2, Zenon DEF Moved, Parties
  <2>4. taken'["gc"] = taken["gc"] /\ taken'["gn"] = taken["gn"]
    BY <2>2, Zenon DEF Took, Streams
  <2>5. /\ ends'["gc"] = ends["gc"] /\ ends'["gn"] = ends["gn"] /\ ends'["ng"] = ends["ng"]
        /\ \A k : Code("ng", k)' = Code("ng", k)
    BY <2>2, Zenon DEF Mute, Streams
  <2>6. ClientInv'
    BY <1>1, <2>2, <2>3, <2>4, ClientFrame, Zenon
  <2>7. NodeInv'
    BY <1>1, <1>2, <2>2, <2>3, <2>4, <2>5, NodeFrame, Zenon
  <2>8. /\ Welcome' = Welcome /\ Offered' = Offered /\ Rounds' = Rounds /\ client' = client
    BY <2>2, SteadyFacts, Zenon DEF Steady
  <2>9. Len(ends'["gc"]) # Rounds'
    BY <1>3, <1>6, <2>5, <2>8
  <2>10. GatewayInv'
    BY <1>2, <1>3, <2>3, <2>8, <2>9, Zenon DEF GatewayInv
  <2>11. RightVerdict'
    BY <1>1, <1>2, <1>5, <1>8, <2>3, <2>8, Zenon DEF RightVerdict
  <2> QED
    BY <2>2, <2>6, <2>7, <2>10, <2>11, Zenon DEF HandshakeInv
<1> QED
  BY <1>7, <1>8, Zenon

(* Nobody refuses a client that follows the protocol and the policy.       *)
LEMMA RefusesOthers ==
    ASSUME HandshakeInv, NEW p \in Parties, Refuse(p)
    PROVE  ~Welcome /\ Reading(p)
<1> SUFFICES ASSUME Welcome PROVE FALSE
  BY Zenon DEF Refuse
<1>1. /\ client \in Clients /\ auth \in BOOLEAN /\ GatewayInv /\ NodeInv /\ ClientInv
  BY Zenon DEF HandshakeInv, TypeOK
<1>2. PICK n : n = Missing(p)
  BY Zenon
<1>3. /\ Reading(p)
      /\ \/ n < 0
         \/ n = 0 /\ at[p] = "greeting" /\ ParseGreeting(Frame(p)) = Bad
         \/ n = 0 /\ at[p] = "credentials" /\ TakeCredentials(Frame(p)) = Bad
         \/ n = 0 /\ at[p] = "request" /\ ParseRequest(Frame(p)) = Bad
  BY <1>2, Zenon DEF Refuse, Complete
<1>4. ~Exempt(Incoming(p))
  BY <1>3, ExemptReader, Zenon
<1>5. n \in Int /\ n >= 0
  BY <1>2, <1>3, <1>4, Reader, Zenon
<1>6. /\ n = 0
      /\ \/ at[p] = "greeting" /\ ParseGreeting(Frame(p)) = Bad
         \/ at[p] = "credentials" /\ TakeCredentials(Frame(p)) = Bad
         \/ at[p] = "request" /\ ParseRequest(Frame(p)) = Bad
  <2>1. ~(n < 0)
    BY <1>5
  <2> QED
    BY <1>3, <2>1, Zenon
<1>7. CASE p = "client"
  BY <1>1, <1>6, <1>7, Zenon DEF ClientInv
<1>8. CASE p = "node"
  BY <1>1, <1>2, <1>3, <1>6, <1>8, NodeHears, Zenon DEF NodeInv, Bad
<1>9. CASE p = "gateway"
  <2>1. /\ client.ver = VERSION /\ auth = HasCredentials
        /\ client.command = CONNECT /\ Proper(client.addr)
    BY Zenon DEF Welcome
  <2>2. CASE at[p] = "greeting"
    <3>1. client.methods # <<>>
      BY DEF Welcome
    <3> QED
      BY <1>2, <1>3, <1>4, <1>6, <1>9, <2>1, <2>2, <3>1, GatewayHears, Zenon DEF Bad
  <2>3. CASE at[p] = "credentials"
    <3>1. auth
      BY <1>1, <1>9, <2>3, Zenon DEF GatewayInv
    <3>2. Cred = Expected
      BY <3>1, Zenon DEF Welcome, Cred
    <3>3. Expected.user = client.user /\ Expected.password = client.password
      BY <3>2, Zenon DEF Cred
    <3>4. from_utf8(client.user) /\ from_utf8(client.password)
      BY <3>3, ExpectedAssumption, Zenon
    <3>5. TakeCredentials(Frame("gateway")) = {Cred}
      BY <1>2, <1>3, <1>4, <1>6, <1>9, <2>3, <3>4, GatewayHears, Zenon
    <3> QED
      BY <1>6, <1>9, <2>3, <3>5, Zenon DEF Bad
  <2>4. CASE at[p] = "request"
    <3>1. client.command \in 1 .. 3
      BY <2>1 DEF CONNECT
    <3> QED
      BY <1>2, <1>3, <1>4, <1>6, <1>9, <2>1, <2>4, <3>1, GatewayHears, Zenon DEF Bad
  <2> QED
    BY <1>6, <2>2, <2>3, <2>4, Zenon
<1> QED
  BY <1>7, <1>8, <1>9, Zenon DEF Parties

(* A party that gives up, which it may only do on other clients or because *)
(* of what became of its peer.                                             *)
LEMMA GivesUp ==
    ASSUME HandshakeInv, NEW p \in Parties, Reading(p),
           at' = [at EXCEPT ![p] = "failed"], UNCHANGED <<stable, streams>>,
           request' = request, dialled' = dialled,
           Welcome => /\ p = "client" => at["gateway"] = "failed"
                      /\ p = "gateway" => at["node"] = "failed"
                      /\ p # "node"
    PROVE  HandshakeInv'
<1>1. GatewayInv /\ NodeInv /\ ClientInv /\ RightVerdict
  BY Zenon DEF HandshakeInv
<1>2. /\ TypeOK' /\ \A x \in Streams : StreamOK(x)'
      /\ Steady /\ Moved(p, "failed") /\ Mute /\ taken' = taken /\ buf' = buf
  BY Idle, Zenon DEF Stages
<1>3. /\ at'[p] = "failed" /\ \A q \in Parties \ {p} : at'[q] = at[q]
  BY <1>2, Zenon DEF Moved
<1>4. /\ \A k : Code("gc", k)' = Code("gc", k)
      /\ \A k : Code("ng", k)' = Code("ng", k)
      /\ ends'["gc"] = ends["gc"] /\ ends'["gn"] = ends["gn"] /\ ends'["ng"] = ends["ng"]
  BY <1>2, Zenon DEF Mute, Streams
<1>5. Welcome' = Welcome /\ Rounds' = Rounds /\ client' = client
  BY <1>2, SteadyFacts, Zenon DEF Steady
<1>6. at[p] # "relay" /\ at[p] # "failed" /\ at[p] # "off"
  BY Zenon DEF Reading
<1>7. ClientInv'
  <2>1. CASE p = "client"
    BY <1>3, <2>1, Zenon DEF ClientInv
  <2>2. CASE p # "client"
    <3>1. at'["client"] = at["client"]
      BY <1>3, <2>2, Zenon DEF Parties
    <3> QED
      BY <1>1, <1>2, <3>1, ClientFrame, Zenon
  <2> QED
    BY <2>1, <2>2, Zenon
<1>8. NodeInv'
  <2>1. CASE p = "node"
    <3>1. Len(ends["ng"]) # 2 /\ Len(ends["gn"]) > 0 /\ dialled \subseteq {client.addr}
      BY <1>1, <1>6, <2>1, Zenon DEF NodeInv
    <3> QED
      BY <1>3, <1>4, <1>5, <2>1, <3>1, Zenon DEF NodeInv
  <2>2. CASE p # "node"
    <3>1. at'["node"] = at["node"]
      BY <1>3, <2>2, Zenon DEF Parties
    <3> QED
      BY <1>1, <1>2, <1>4, <3>1, NodeFrame, Zenon
  <2> QED
    BY <2>1, <2>2, Zenon
<1>9. GatewayInv'
  <2>1. CASE p = "gateway"
    <3>1. /\ Len(ends["gc"]) # Rounds /\ (Len(ends["gn"]) > 0 => Welcome)
          /\ request \subseteq {[command |-> client.command, addr |-> client.addr]}
      BY <1>1, <1>6, <2>1, Zenon DEF GatewayInv
    <3> QED
      BY <1>3, <1>4, <1>5, <2>1, <3>1, Zenon DEF GatewayInv
  <2>2. CASE p # "gateway"
    <3>1. at'["gateway"] = at["gateway"]
      BY <1>3, <2>2, Zenon DEF Parties
    <3>2. at["gateway"] = "credentials" => Boundary(buf'["cg"])
      BY <1>1, <1>2, Zenon DEF GatewayInv
    <3> QED
      BY <1>1, <1>2, <1>4, <3>1, <3>2, GatewayFrame, Zenon
  <2> QED
    BY <2>1, <2>2, Zenon
<1>10. RightVerdict'
  <2>1. CASE p = "client"
    BY <1>1, <1>3, <1>5, <1>6, <2>1, Zenon DEF RightVerdict, Parties
  <2>2. CASE p = "gateway"
    BY <1>1, <1>3, <1>5, <1>6, <2>2, Zenon DEF RightVerdict, Parties
  <2>3. CASE p = "node"
    BY <1>1, <1>3, <1>5, <1>6, <2>3, Zenon DEF RightVerdict, Parties
  <2> QED
    BY <2>1, <2>2, <2>3, Zenon DEF Parties
<1> QED
  BY <1>2, <1>7, <1>8, <1>9, <1>10, Zenon DEF HandshakeInv

(* A handler returns an error on what it has read.                         *)
LEMMA RefuseStep ==
    ASSUME HandshakeInv, NEW p \in Parties, Refuse(p)
    PROVE  HandshakeInv'
<1>1. ~Welcome /\ Reading(p)
  BY RefusesOthers, Zenon
<1>2. /\ at' = [at EXCEPT ![p] = "failed"] /\ UNCHANGED <<stable, streams>>
      /\ request' = request /\ dialled' = dialled
  BY Zenon DEF Refuse
<1> QED
  BY <1>1, <1>2, GivesUp, Zenon

(* A read ends because the peer has gone.                                  *)
LEMMA UnexpectedEofStep ==
    ASSUME HandshakeInv, NEW p \in Parties, UnexpectedEof(p)
    PROVE  HandshakeInv'
<1>1. /\ Reading(p) /\ at[Writer(Incoming(p))] = "failed"
      /\ at' = [at EXCEPT ![p] = "failed"] /\ UNCHANGED <<stable, streams>>
      /\ request' = request /\ dialled' = dialled
  BY Zenon DEF UnexpectedEof
<1>2. RightVerdict
  BY Zenon DEF HandshakeInv
<1>3. /\ p = "client" => Writer(Incoming(p)) = "gateway"
      /\ p = "gateway" => Writer(Incoming(p)) \in {"client", "node"}
      /\ p = "node" => Writer(Incoming(p)) = "gateway"
  BY Zenon DEF Incoming, Source, Writer
<1>4. Welcome => /\ p = "client" => at["gateway"] = "failed"
                 /\ p = "gateway" => at["node"] = "failed"
                 /\ p # "node"
  BY <1>1, <1>2, <1>3, Zenon DEF RightVerdict, Reading
<1> QED
  BY <1>1, <1>4, GivesUp, Zenon

-----------------------------------------------------------------------------
(* The results.                                                            *)

(* Nothing has been written, read or accepted at first.                    *)
LEMMA InitInv == Init => HandshakeInv
<1> SUFFICES ASSUME Init PROVE HandshakeInv
  BY Zenon
<1>1. /\ client \in Clients /\ auth \in BOOLEAN /\ request = {} /\ dialled = {}
      /\ written = [s \in Streams |-> <<>>] /\ ends = [s \in Streams |-> <<>>]
      /\ buf = [s \in Streams |-> <<>>] /\ arrived = [s \in Streams |-> 0]
      /\ pos = [s \in Streams |-> 0] /\ taken = [s \in Streams |-> 0]
  BY Zenon DEF Init
<1>2. /\ at \in [Parties -> Stages] /\ at["client"] = "method"
      /\ at["gateway"] = "greeting" /\ at["node"] = "off"
  BY Zenon DEF Init, Parties, Stages
<1>3. TypeOK
  BY <1>1, <1>2 DEF TypeOK
<1>4. ASSUME NEW s \in Streams PROVE StreamOK(s)
  <2>1. /\ written[s] = <<>> /\ ends[s] = <<>> /\ buf[s] = <<>>
        /\ arrived[s] = 0 /\ pos[s] = 0 /\ taken[s] = 0
    BY <1>1, Zenon
  <2>2. StreamType(s)
    BY <2>1 DEF StreamType
  <2>3. Cap(s) \in {2, 3}
    BY CapIs, Zenon
  <2>4. Len(ends[s]) = 0 /\ End(s, 0) = 0 /\ Len(written[s]) = 0
    BY <2>1, Zenon DEF End
  <2>5. Framed(s)
    BY <2>3, <2>4 DEF Framed
  <2>6. Placed(s) /\ Within(s)
    BY <2>1, <2>4 DEF Placed, Within
  <2> QED
    BY <2>2, <2>5, <2>6, Zenon DEF StreamOK
<1>5. /\ taken["cg"] = 0 /\ taken["gc"] = 0 /\ taken["gn"] = 0 /\ taken["ng"] = 0
      /\ Len(ends["gc"]) = 0 /\ Len(ends["gn"]) = 0 /\ Len(ends["ng"]) = 0
  BY <1>1, Zenon DEF Streams
<1>6. Rounds \in {2, 3}
  BY Zenon DEF Rounds
<1>7. GatewayInv
  BY <1>1, <1>2, <1>5, <1>6 DEF GatewayInv
<1>8. NodeInv
  <2>1. \A x : x = 0 => x # 2
    OBVIOUS
  <2>2. Len(ends["ng"]) # 2
    BY <1>5, <2>1, Zenon
  <2>3. dialled \subseteq {client.addr}
    BY <1>1, Zenon
  <2> QED
    BY <1>2, <1>5, <2>2, <2>3, Zenon DEF NodeInv
<1>9. ClientInv
  BY <1>2, <1>5, Zenon DEF ClientInv
<1>10. RightVerdict
  BY <1>1, <1>2, Zenon DEF RightVerdict
<1> QED
  BY <1>3, <1>4, <1>7, <1>8, <1>9, <1>10, Zenon DEF HandshakeInv

(* No step leaves the invariant.                                           *)
LEMMA StepInv == HandshakeInv /\ [Next]_vars => HandshakeInv'
<1> SUFFICES ASSUME HandshakeInv, [Next]_vars PROVE HandshakeInv'
  BY Zenon
<1>1. CASE GatewayGreeting
  BY <1>1, GatewayGreetingStep, Zenon
<1>2. CASE GatewayCredentials
  BY <1>2, GatewayCredentialsStep, Zenon
<1>3. CASE GatewayRequest
  BY <1>3, GatewayRequestStep, Zenon
<1>4. CASE GatewayMethod
  BY <1>4, GatewayMethodStep, Zenon
<1>5. CASE GatewayReply
  BY <1>5, GatewayReplyStep, Zenon
<1>6. CASE NodeAccepts
  BY <1>6, NodeAcceptsStep, Zenon
<1>7. CASE NodeGreeting
  BY <1>7, NodeGreetingStep, Zenon
<1>8. CASE NodeRequest
  BY <1>8, NodeRequestStep, Zenon
<1>9. CASE ClientSends
  BY <1>9, ClientSendsStep, Zenon
<1>10. CASE ClientTakes
  BY <1>10, ClientTakesStep, Zenon
<1>11. ASSUME NEW p \in Parties, read_exact(p) \/ Refuse(p) \/ UnexpectedEof(p)
       PROVE  HandshakeInv'
  BY <1>11, ReadStep, RefuseStep, UnexpectedEofStep, Zenon
<1>12. ASSUME NEW s \in Streams, Arrive(s) PROVE HandshakeInv'
  BY <1>12, ArriveStep, Zenon
<1>13. CASE UNCHANGED vars
  <2>1. /\ client' = client /\ auth' = auth /\ written' = written /\ ends' = ends
        /\ at' = at /\ arrived' = arrived /\ pos' = pos /\ buf' = buf /\ taken' = taken
        /\ request' = request /\ dialled' = dialled
    BY <1>13, Zenon DEF vars, stable, streams
  <2>2. Steady /\ Shape /\ \A x \in Streams : StreamOK(x)
    BY <2>1, ShapeIs, Zenon DEF Steady, HandshakeInv
  <2>3. ASSUME NEW x \in Streams
        PROVE  StreamOK(x)' /\ ends'[x] = ends[x] /\ \A k : Code(x, k)' = Code(x, k)
    <3>1. Stands(x)
      BY <2>1, Zenon DEF Stands
    <3> QED
      BY <2>1, <2>2, <3>1, StandsStream, Zenon
  <2>4. TypeOK'
    <3>1. Shape'
      BY <2>1, <2>2, Zenon DEF Shape
    <3> QED
      BY <2>3, <3>1, TypeIs, Zenon
  <2>5. at["gateway"] = "credentials" => Boundary(buf'["cg"])
    BY <2>1, Zenon DEF HandshakeInv, GatewayInv
  <2> QED
    BY <2>1, <2>2, <2>3, <2>4, <2>5, Quiet, Zenon
<1> QED
  BY <1>1, <1>2, <1>3, <1>4, <1>5, <1>6, <1>7, <1>8, <1>9, <1>10, <1>11, <1>12, <1>13, Zenon
     DEF Next, Handles, Arrives

(* The invariant is one, for any clients, settings and codes of nodes.     *)
THEOREM HandshakeInvariant == Spec => []HandshakeInv
BY InitInv, StepInv, PTL DEF Spec

(* Readers never have more than has arrived, nor more than was written.    *)
THEOREM TypeCorrect == Spec => []TypeOK
<1>1. HandshakeInv => TypeOK
  BY Zenon DEF HandshakeInv
<1> QED
  BY <1>1, HandshakeInvariant, PTL

(* Framing is exact however streams cut the bytes: read_exact never takes  *)
(* a byte of the next frame or of the data after the handshake.            *)
THEOREM FramingIsExact == Spec => []Aligned
<1>1. HandshakeInv => Aligned
  <2> SUFFICES ASSUME HandshakeInv, NEW s \in Streams, ~(s = "cg" /\ HasCredentials /\ ~auth)
               PROVE  /\ buf[s] = SubSeq(written[s], End(s, taken[s]) + 1, pos[s])
                      /\ pos[s] = End(s, taken[s]) + Len(buf[s])
                      /\ buf[s] # <<>> => /\ taken[s] < Len(ends[s])
                                          /\ pos[s] <= End(s, taken[s] + 1)
    BY Zenon DEF Aligned
  <2>1. Placed(s) /\ Within(s)
    BY Zenon DEF HandshakeInv, StreamOK
  <2>2. ~Exempt(s)
    BY Zenon DEF Exempt
  <2> QED
    BY <2>1, <2>2, Zenon DEF Placed, Within
<1> QED
  BY <1>1, HandshakeInvariant, PTL

(* The node dials the address that the client asked for, whatever its kind *)
(* and bytes.                                                              *)
THEOREM DestinationIsKept == Spec => []DestinationKept
<1>1. HandshakeInv => DestinationKept
  BY Zenon DEF HandshakeInv, NodeInv, DestinationKept
<1> QED
  BY <1>1, HandshakeInvariant, PTL

(* Dialling, relaying and giving up agree between the parties, and with    *)
(* what the protocol and the policy of the gateway say of the client.      *)
THEOREM VerdictIsRight == Spec => []RightVerdict
<1>1. HandshakeInv => RightVerdict
  BY Zenon DEF HandshakeInv
<1> QED
  BY <1>1, HandshakeInvariant, PTL

(* A complete greeting has the length that Greeting::frame_len tells.      *)
LEMMA GreetingAgrees ==
    ASSUME NEW f \in Seq(Byte), read_greeting(f) - Len(f) = 0
    PROVE  frame_len(f) = {Len(f)}
<1>1. Len(f) \in Nat
  OBVIOUS
<1>2. CASE Len(f) < 2
  <2>1. read_greeting(f) = 2
    BY <1>2, Zenon DEF read_greeting
  <2> QED
    BY <1>1, <1>2, <2>1
<1>3. CASE Len(f) >= 2
  <2>1. f[2] \in Nat
    BY <1>3 DEF Byte
  <2>2. read_greeting(f) = IF f[2] = 0 THEN Refused ELSE 2 + f[2]
    BY <1>1, <1>3 DEF read_greeting
  <2>3. Len(f) = 2 + f[2]
    BY <1>1, <2>1, <2>2 DEF Refused
  <2>4. Has(f, 1, 2)
    BY <1>1, <1>3 DEF Has
  <2> QED
    BY <2>3, <2>4, Zenon DEF frame_len
<1> QED
  BY <1>1, <1>2, <1>3

(* UsernamePassword::parse has no objection to complete credentials.       *)
LEMMA CredentialsAgree ==
    ASSUME NEW f \in Seq(Byte), Boundary(f), handle_user_pass_auth(f) - Len(f) = 0
    PROVE  TakeCredentials(f) = ParseCredentials(f)
<1> DEFINE v == handle_user_pass_auth(f)
<1>1. Len(f) \in Nat
  OBVIOUS
<1>2. CASE Len(f) < 2
  <2>1. Len(f) = 0 => v = 1
    BY DEF handle_user_pass_auth
  <2>2. Len(f) = 1 => v \in {2, Refused}
    BY Zenon DEF handle_user_pass_auth
  <2> HIDE DEF v
  <2>3. PICK l : l = Len(f)
    BY Zenon
  <2>4. l \in Nat /\ l < 2 /\ v - l = 0 /\ (l = 0 => v = 1) /\ (l = 1 => v \in {2, Refused})
    BY <1>1, <1>2, <2>1, <2>2, <2>3, Zenon DEF v
  <2> QED
    BY <2>4 DEF Refused
<1>3. CASE Len(f) >= 2
  <2>1. f # <<>> /\ f[2] \in Nat /\ Len(f) # 1
    BY <1>3 DEF Byte
  <2>2. v = IF f[1] # AUTH_VERSION \/ f[2] = 0 THEN Refused
            ELSE IF Len(f) = 2 THEN 2 + f[2]
            ELSE IF Len(f) = 2 + f[2] THEN 3 + f[2]
            ELSE 3 + f[2] + f[3 + f[2]]
    BY <2>1, Zenon DEF handle_user_pass_auth
  <2> HIDE DEF v
  <2>3. v - Len(f) = 0
    BY Zenon DEF v
  <2>4. f[1] = AUTH_VERSION /\ f[2] > 0
    BY <1>1, <2>1, <2>2, <2>3 DEF Refused
  <2>5. PICK l \in Nat, u \in Nat : l = Len(f) /\ u = f[2]
    BY <1>1, <2>1, Zenon
  <2>6. PICK x : x = f[3 + f[2]]
    BY Zenon
  <2>7. /\ v = IF l = 2 THEN 2 + u ELSE IF l = 2 + u THEN 3 + u ELSE 3 + u + x
        /\ l >= 2 /\ u > 0 /\ (l <= 2 \/ l >= 2 + u) /\ v - l = 0
    <3>1. v = IF Len(f) = 2 THEN 2 + f[2]
              ELSE IF Len(f) = 2 + f[2] THEN 3 + f[2] ELSE 3 + f[2] + f[3 + f[2]]
      <4>1. ~(f[1] # AUTH_VERSION \/ f[2] = 0)
        BY <2>1, <2>4
      <4> QED
        BY <2>2, <4>1, Zenon
    <3> QED
      BY <1>3, <2>3, <2>4, <2>5, <2>6, <3>1, Zenon DEF Boundary
  <2>8. l # 2 /\ l # 2 + u
    BY <2>7
  <2>9. v = 3 + u + x /\ l >= 3 + u
    BY <2>7, <2>8
  <2>10. x \in Nat
    <3>1. 3 + f[2] \in 1 .. Len(f)
      BY <2>5, <2>9
    <3> QED
      BY <2>5, <2>6, <3>1 DEF Byte
  <2>11. l = 3 + u + x
    BY <2>7, <2>9, <2>10
  <2>12. Has(f, 1, 2) /\ Has(f, 3, f[2] + 1) /\ Has(f, 4 + f[2], f[3 + f[2]])
    <3>1. 1 + 2 - 1 <= l /\ 3 + (u + 1) - 1 <= l /\ (4 + u) + x - 1 <= l
      BY <2>7, <2>10, <2>11
    <3> QED
      BY <2>5, <2>6, <3>1, Zenon DEF Has
  <2> QED
    BY <2>4, <2>12, Zenon DEF ParseCredentials
<1> QED
  BY <1>1, <1>2, <1>3

(* The handlers' piecemeal reads and the parsers of the protocol crate     *)
(* agree on every complete frame.                                          *)
THEOREM ParsersAlwaysAgree == Spec => []ParsersAgree
<1>1. HandshakeInv => ParsersAgree
  <2> SUFFICES ASSUME HandshakeInv, NEW p \in Parties, NEW f, f = Frame(p)
               PROVE  /\ Complete(p, "greeting") => frame_len(f) = {Len(f)}
                      /\ Complete(p, "credentials") => TakeCredentials(f) = ParseCredentials(f)
                      /\ Complete(p, "reply") =>
                            ParseReply(f) = {[code |-> f[2], bind_addr |-> Unspecified]}
    BY Zenon DEF ParsersAgree
  <2>1. /\ auth \in BOOLEAN /\ GatewayInv /\ NodeInv /\ ClientInv
    BY Zenon DEF HandshakeInv, TypeOK
  <2>2. Incoming(p) \in Streams
    BY Zenon DEF Incoming, Source, Parties, Streams
  <2>3. f \in Seq(Byte)
    BY <2>2, Zenon DEF HandshakeInv, TypeOK, Frame
  <2>4. ASSUME Complete(p, "greeting") PROVE frame_len(f) = {Len(f)}
    <3>1. read_greeting(f) - Len(f) = 0
      BY <2>4, Zenon DEF Complete, Missing, Asks
    <3> QED
      BY <2>3, <3>1, GreetingAgrees, Zenon
  <2>5. ASSUME Complete(p, "credentials") PROVE TakeCredentials(f) = ParseCredentials(f)
    <3>1. at[p] = "credentials" /\ handle_user_pass_auth(f) - Len(f) = 0
      BY <2>5, Zenon DEF Complete, Missing, Asks
    <3>2. p = "gateway"
      BY <2>1, <3>1, Zenon DEF NodeInv, ClientInv, Parties
    <3>3. Incoming(p) = "cg"
      BY <3>1, <3>2, Zenon DEF Incoming, Source
    <3>4. Boundary(f)
      BY <2>1, <3>1, <3>2, <3>3, Zenon DEF GatewayInv, Frame
    <3> QED
      BY <2>3, <3>1, <3>4, CredentialsAgree, Zenon
  <2>6. ASSUME Complete(p, "reply")
        PROVE  ParseReply(f) = {[code |-> f[2], bind_addr |-> Unspecified]}
    <3>1. at[p] = "reply" /\ Missing(p) = 0 /\ Reading(p)
      BY <2>6, Zenon DEF Complete, Reading
    <3>2. \E code \in Byte : f = simple_reply(code)
      <4>1. CASE p = "client"
        <5>1. Incoming(p) = "gc" /\ ~Exempt("gc") /\ taken["gc"] = Rounds - 1
          BY <2>1, <3>1, <4>1, Zenon DEF Incoming, Source, Exempt, ClientInv
        <5>2. f \in Expect("gc", (Rounds - 1) + 1)
          BY <3>1, <5>1, Whole, Zenon
        <5>3. (Rounds - 1) + 1 = Rounds
          BY DEF Rounds
        <5> QED
          BY <2>1, <5>2, <5>3, ExpectIs, Constants, Zenon
      <4>2. CASE p = "gateway"
        <5>1. Incoming(p) = "ng" /\ ~Exempt("ng") /\ taken["ng"] = 1
          BY <2>1, <3>1, <4>2, Zenon DEF Incoming, Source, Exempt, GatewayInv
        <5>2. f \in Expect("ng", 1 + 1)
          BY <3>1, <5>1, Whole, Zenon
        <5>3. f \in {simple_reply(code) : code \in 0 .. 255}
          <6>1. 1 + 1 = 2
            OBVIOUS
          <6> QED
            BY <2>1, <5>2, <6>1, ExpectIs, Zenon
        <5> QED
          BY <5>3, Constants, Zenon
      <4>3. p # "node"
        BY <2>1, <3>1, Zenon DEF NodeInv
      <4> QED
        BY <4>1, <4>2, <4>3, Zenon DEF Parties
    <3> QED
      BY <3>2, ReplyPaces, Zenon
  <2> QED
    BY <2>4, <2>5, <2>6, Zenon
<1> QED
  BY <1>1, HandshakeInvariant, PTL
=============================================================================
