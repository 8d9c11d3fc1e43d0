------------------------------ MODULE Handshake ------------------------------
(***************************************************************************)
(* The handshake of module Session byte by byte: client, gateway and node  *)
(* read their frames with read_exact from streams that deliver any number  *)
(* of bytes at a time.  The client sends everything at once or waits for   *)
(* each answer, as the load generator does.                                *)
(*                                                                         *)
(* Timeouts are in module Session: here a read ends with its bytes or with *)
(* the end of the stream.  The node selection always succeeds.             *)
(***************************************************************************)
EXTENDS Codecs

CONSTANTS
    Clients,     \* what clients may send
    Expected,    \* the user name and password of the gateway
    ReplyCodes   \* the codes a node may answer with

(* Any bytes, but lengths fit in the byte that announces them, and an IP    *)
(* address has its number of octets.                                       *)
Fits(addr) == /\ addr.atyp = IPV4 => Len(addr.host) = 4
              /\ addr.atyp = IPV6 => Len(addr.host) = 16
              /\ addr.atyp = DOMAIN_NAME => Len(addr.host) < 256

ClientAddr == {a \in [atyp : Byte, host : Seq(Byte), port : Port] : Fits(a)}

Text == {t \in Seq(Byte) : Len(t) < 256}

ASSUME ClientsAssumption ==
    Clients \subseteq [pipelines : BOOLEAN, ver : Byte, methods : Text,
                       user : Text, password : Text,
                       command : Byte, rsv : Byte, addr : ClientAddr]
(* The settings of the gateway are strings.                                *)
ASSUME ExpectedAssumption == from_utf8(Expected.user) /\ from_utf8(Expected.password)
ASSUME CodesAssumption == SUCCESS \in ReplyCodes /\ ReplyCodes \subseteq Byte

VARIABLES
    client,    \* what this client sends
    auth,      \* whether the gateway asks for credentials
    at,        \* where each party is
    written,   \* the bytes written to each stream
    ends,      \* history: where in it the frames end
    arrived,   \* how many bytes of it have arrived
    pos,       \* how many of those were read
    buf,       \* what its reader has of the current frame
    taken,     \* history: how many frames it has accepted
    request,   \* the request that the gateway has parsed, if any
    dialled    \* the address that the node has parsed, if any

stable == <<client, auth>>
streams == <<written, ends, arrived, pos, buf, taken>>
vars == <<stable, at, streams, request, dialled>>

Parties == {"client", "gateway", "node"}
Streams == {"cg", "gc", "gn", "ng"}
Stages == {"off", "greeting", "credentials", "request", "method", "status",
           "reply", "relay", "failed"}

(* The stream that a party reads in a stage.                               *)
Source(p, stage) == CASE p = "client" -> "gc"
                      [] p = "node" -> "gn"
                      [] p = "gateway" -> IF stage \in {"method", "reply"}
                                          THEN "ng" ELSE "cg"

Writer(s) == CASE s = "cg" -> "client" [] s = "ng" -> "node" [] OTHER -> "gateway"

Reading(p) == at[p] \notin {"off", "relay", "failed"}
Incoming(p) == Source(p, at[p])
HasCredentials == client.user # <<>>

(* Data that follows the handshake at once.  (A client that waits sends    *)
(* its data when nobody reads frames any more.)                            *)
Payload == <<VERSION, 171>>

Script ==
    <<GreetingBytes(client.ver, client.methods)>>
    \o (IF HasCredentials THEN <<CredentialBytes(client.user, client.password)>>
        ELSE <<>>)
    \o <<RequestBytes(client.command, client.rsv, client.addr)>>

Init ==
    /\ client \in Clients
    /\ auth \in BOOLEAN
    /\ at = [p \in Parties |-> CASE p = "client" -> "method"
                                 [] p = "gateway" -> "greeting"
                                 [] p = "node" -> "off"]
    /\ written = [s \in Streams |-> <<>>]
    /\ ends = [s \in Streams |-> <<>>]
    /\ arrived = [s \in Streams |-> 0]
    /\ pos = [s \in Streams |-> 0]
    /\ buf = [s \in Streams |-> <<>>]
    /\ taken = [s \in Streams |-> 0]
    /\ request = {} /\ dialled = {}

-----------------------------------------------------------------------------
(* Streams.                                                                *)

Writes(s, frame, data) ==
    /\ written' = [written EXCEPT ![s] = @ \o (frame \o data)]
    /\ ends' = [ends EXCEPT ![s] = Append(@, Len(written[s]) + Len(frame))]

Arrive(s) ==
    /\ arrived[s] < Len(written[s])
    /\ arrived' = [arrived EXCEPT ![s] = @ + 1]
    /\ UNCHANGED <<stable, at, written, ends, pos, buf, taken, request, dialled>>

(* How many bytes p wants of a frame, given those that it has.  The load   *)
(* generator reads fixed sizes; so does a client that knows that the proxy *)
(* answers with IPv4 addresses.                                            *)
Asks(p, stage, b) ==
    CASE stage = "greeting" -> read_greeting(b)
      [] stage = "credentials" -> handle_user_pass_auth(b)
      [] stage = "request" -> read_request(b)
      [] stage \in {"method", "status"} -> 2
      [] OTHER -> IF p = "client" THEN 10 ELSE read_reply(b)

Frame(p) == buf[Incoming(p)]
Missing(p) == Asks(p, at[p], Frame(p)) - Len(Frame(p))
Complete(p, stage) == at[p] = stage /\ Missing(p) = 0

read_exact(p) ==
    LET s == Incoming(p)
    IN  /\ Reading(p) /\ Missing(p) > 0
        /\ arrived[s] - pos[s] >= Missing(p)
        /\ buf' = [buf EXCEPT ![s] = @ \o Piece(written[s], pos[s] + 1, Missing(p))]
        /\ pos' = [pos EXCEPT ![s] = @ + Missing(p)]
        /\ UNCHANGED <<stable, at, written, ends, arrived, taken, request, dialled>>

(* The writer is gone and what it has written does not suffice.            *)
UnexpectedEof(p) ==
    LET s == Incoming(p)
    IN  /\ Reading(p) /\ Missing(p) > 0
        /\ at[Writer(s)] = "failed" /\ Len(written[s]) - pos[s] < Missing(p)
        /\ at' = [at EXCEPT ![p] = "failed"]
        /\ UNCHANGED <<stable, streams, request, dialled>>

(* p has accepted its frame and goes on to a stage.                        *)
Accept(p, stage) ==
    /\ at' = [at EXCEPT ![p] = stage]
    /\ buf' = [buf EXCEPT ![Incoming(p)] = <<>>]
    /\ taken' = [taken EXCEPT ![Incoming(p)] = @ + 1]
    /\ UNCHANGED <<stable, arrived, pos>>

Silence == UNCHANGED <<written, ends>>

Refuse(p) ==
    /\ Reading(p)
    /\ \/ Missing(p) < 0
       \/ Complete(p, "greeting") /\ ParseGreeting(Frame(p)) = Bad
       \/ Complete(p, "credentials") /\ TakeCredentials(Frame(p)) = Bad
       \/ Complete(p, "request") /\ ParseRequest(Frame(p)) = Bad
    /\ at' = [at EXCEPT ![p] = "failed"]
    /\ UNCHANGED <<stable, streams, request, dialled>>

-----------------------------------------------------------------------------
(* The client.                                                             *)

Answers == taken["gc"]

ClientSends ==
    LET k == Len(ends["cg"])
    IN  /\ at["client"] # "failed" /\ k < Len(Script)
        /\ client.pipelines \/ Answers >= k
        /\ Writes("cg", Script[k + 1],
                  IF client.pipelines /\ k + 1 = Len(Script) THEN Payload ELSE <<>>)
        /\ UNCHANGED <<stable, at, arrived, pos, buf, taken, request, dialled>>

ClientTakes ==
    LET f == Frame("client")
        welcome == CASE at["client"] = "method" ->
                           f[2] = (IF HasCredentials THEN USER_PASS ELSE NO_AUTH)
                     [] OTHER -> f[2] = SUCCESS
        next == CASE at["client"] = "method" /\ HasCredentials -> "status"
                  [] at["client"] = "reply" -> "relay"
                  [] OTHER -> "reply"
    IN  /\ Reading("client") /\ Missing("client") = 0
        /\ Accept("client", IF welcome THEN next ELSE "failed") /\ Silence
        /\ UNCHANGED <<request, dialled>>

-----------------------------------------------------------------------------
(* The gateway.                                                            *)

GatewayGreeting ==
    /\ Complete("gateway", "greeting")
    /\ \E methods \in ParseGreeting(Frame("gateway")) :
          LET m == negotiate(methods, auth, ~auth)
          IN  /\ Accept("gateway", CASE m = NO_ACCEPTABLE -> "failed"
                                     [] m = USER_PASS -> "credentials"
                                     [] OTHER -> "request")
              /\ Writes("gc", MethodBytes(m), <<>>)
    /\ UNCHANGED <<request, dialled>>

(* Mutant of GatewayCredentials: no return after the refusal is sent.      *)
GatewayCredentialsGoOn ==
    /\ Complete("gateway", "credentials")
    /\ \E c \in TakeCredentials(Frame("gateway")) :
          /\ Accept("gateway", "request")
          /\ Writes("gc", auth_reply_bytes(c = Expected), <<>>)
    /\ UNCHANGED <<request, dialled>>

GatewayCredentials ==
    /\ Complete("gateway", "credentials")
    /\ \E c \in TakeCredentials(Frame("gateway")) :
          /\ Accept("gateway", IF c = Expected THEN "request" ELSE "failed")
          /\ Writes("gc", auth_reply_bytes(c = Expected), <<>>)
    /\ UNCHANGED <<request, dialled>>

(* A CONNECT goes on to a node, which is greeted; the node begins to read. *)
GatewayRequest ==
    /\ Complete("gateway", "request")
    /\ \E r \in ParseRequest(Frame("gateway")) :
          /\ \/ /\ r.command = CONNECT
                /\ Accept("gateway", "method")
                /\ Writes("gn", GreetingBytes(VERSION, <<NO_AUTH>>), <<>>)
             \/ /\ r.command # CONNECT
                /\ Accept("gateway", "failed")
                /\ Writes("gc", simple_reply(COMMAND_NOT_SUPPORTED), <<>>)
          /\ request' = {r}
    /\ UNCHANGED dialled

GatewayMethod ==
    /\ Complete("gateway", "method")
    /\ \E r \in request :
          \/ /\ Frame("gateway") = MethodBytes(NO_AUTH)
             /\ Accept("gateway", "reply")
             /\ Writes("gn", RequestBytes(CONNECT, 0, r.addr), <<>>)
          \/ /\ Frame("gateway") # MethodBytes(NO_AUTH)
             /\ Accept("gateway", "failed") /\ Silence
    /\ UNCHANGED <<request, dialled>>

(* Mutant of GatewayReply: the relay begins without a reply to the client. *)
GatewayReplySilent ==
    /\ Complete("gateway", "reply")
    /\ Accept("gateway", IF Frame("gateway")[2] = SUCCESS THEN "relay" ELSE "failed")
    /\ Silence
    /\ UNCHANGED <<request, dialled>>

(* A success is passed on to the client; without one it gets no reply.     *)
GatewayReply ==
    /\ Complete("gateway", "reply")
    /\ \/ /\ Frame("gateway")[2] = SUCCESS
          /\ Accept("gateway", "relay")
          /\ Writes("gc", simple_reply(SUCCESS), Payload)
       \/ /\ Frame("gateway")[2] # SUCCESS
          /\ Accept("gateway", "failed") /\ Silence
    /\ UNCHANGED <<request, dialled>>

-----------------------------------------------------------------------------
(* The node.                                                               *)

NodeAccepts ==
    /\ at["node"] = "off" /\ ends["gn"] # <<>>
    /\ at' = [at EXCEPT !["node"] = "greeting"]
    /\ UNCHANGED <<stable, streams, request, dialled>>

NodeGreeting ==
    /\ Complete("node", "greeting")
    /\ \E methods \in ParseGreeting(Frame("node")) :
          LET m == negotiate(methods, FALSE, TRUE)
          IN  /\ Accept("node", IF m = NO_AUTH THEN "request" ELSE "failed")
              /\ Writes("ng", MethodBytes(m), <<>>)
    /\ UNCHANGED <<request, dialled>>

NodeRequest ==
    /\ Complete("node", "request")
    /\ \E r \in ParseRequest(Frame("node")) :
          /\ dialled' = {r.addr}
          /\ \E code \in IF r.command = CONNECT THEN ReplyCodes
                         ELSE {COMMAND_NOT_SUPPORTED} :
                /\ Accept("node", IF code = SUCCESS THEN "relay" ELSE "failed")
                /\ Writes("ng", simple_reply(code),
                          IF code = SUCCESS THEN Payload ELSE <<>>)
    /\ UNCHANGED request

Handles ==
    \/ GatewayGreeting \/ GatewayCredentials \/ GatewayRequest
    \/ GatewayMethod \/ GatewayReply
    \/ NodeAccepts \/ NodeGreeting \/ NodeRequest
    \/ ClientSends \/ ClientTakes
    \/ \E p \in Parties : read_exact(p) \/ Refuse(p) \/ UnexpectedEof(p)

Arrives == \E s \in Streams : Arrive(s)

Next == Handles \/ Arrives

(* Written bytes arrive, and the parties go on while they can.             *)
Spec == Init /\ [][Next]_vars
FairSpec == Spec /\ WF_vars(Handles) /\ WF_vars(Arrives)

-----------------------------------------------------------------------------
(* No reader has more than has arrived, and no more than was written has.  *)
TypeOK ==
    /\ client \in Clients /\ auth \in BOOLEAN
    /\ at \in [Parties -> Stages]
    /\ written \in [Streams -> Seq(Byte)]
    /\ ends \in [Streams -> Seq(Nat)]
    /\ buf \in [Streams -> Seq(Byte)]
    /\ arrived \in [Streams -> Nat] /\ pos \in [Streams -> Nat]
    /\ taken \in [Streams -> Nat]
    /\ \A s \in Streams : /\ taken[s] <= Len(ends[s])
                          /\ pos[s] <= arrived[s] /\ arrived[s] <= Len(written[s])

(* Where the k-th frame of a stream ends.                                  *)
End(s, k) == IF k = 0 THEN 0 ELSE ends[s][k]

(* Framing is exact, however the bytes were cut on their way: what a       *)
(* reader has is always the beginning of one frame that its peer wrote,    *)
(* the frames before it are used up to their last byte, and no byte of the *)
(* data after a handshake is taken by it.  (Credentials that a client      *)
(* sends unasked are read as its request.)                                 *)
Aligned ==
    \A s \in Streams :
        \/ s = "cg" /\ HasCredentials /\ ~auth
        \/ /\ buf[s] = SubSeq(written[s], End(s, taken[s]) + 1, pos[s])
           /\ pos[s] = End(s, taken[s]) + Len(buf[s])
           /\ buf[s] # <<>> => /\ taken[s] < Len(ends[s])
                               /\ pos[s] <= End(s, taken[s] + 1)

(* The node dials the destination that the client asked for: it survives   *)
(* two parsers and the serializer between them.                            *)
DestinationKept == dialled \subseteq {client.addr}

(* The handlers' way of reading and the parsers of the protocol crate that *)
(* only tests use agree on every frame that is complete.                   *)
ParsersAgree ==
    \A p \in Parties :
        LET f == Frame(p)
        IN  /\ Complete(p, "greeting") => frame_len(f) = {Len(f)}
            /\ Complete(p, "credentials") => TakeCredentials(f) = ParseCredentials(f)
            /\ Complete(p, "reply") => ParseReply(f) = {[code |-> f[2],
                                                         bind_addr |-> Unspecified]}

(* What RFC 1928 and the policy of the gateway call for.                   *)
Proper(addr) ==
    \/ addr.atyp = IPV4 \/ addr.atyp = IPV6
    \/ addr.atyp = DOMAIN_NAME /\ Len(addr.host) \in 1 .. 255 /\ from_utf8(addr.host)

Welcome ==
    /\ client.ver = VERSION
    /\ auth = HasCredentials
    /\ (IF auth THEN USER_PASS ELSE NO_AUTH) \in {client.methods[i] : i \in DOMAIN client.methods}
    /\ auth => [user |-> client.user, password |-> client.password] = Expected
    /\ client.command = CONNECT /\ Proper(client.addr)

(* The verdict is right at every moment: no target is dialled for a client *)
(* that does not follow the protocol or the policy, a party relays only    *)
(* when the next one does, and a client that follows them is given up only *)
(* when its target was dialled and could not be reached.                   *)
RightVerdict ==
    /\ dialled # {} => Welcome
    /\ at["client"] = "relay" => at["gateway"] = "relay"
    /\ at["gateway"] = "relay" => at["node"] = "relay"
    /\ at["node"] = "relay" => dialled # {}
    /\ Welcome => /\ at["client"] = "failed" => at["gateway"] = "failed"
                  /\ at["gateway"] = "failed" => at["node"] = "failed"
                  /\ at["node"] = "failed" => dialled # {}

(* A client that follows the protocol gets through, unless the node cannot *)
(* reach its target, and any other is turned away, also when it waits for  *)
(* each answer: nobody waits for a byte that its peer is not going to send.*)
HandshakeCompletes ==
    <>[](/\ at["client"] = "relay" <=> at["gateway"] = "relay"
         /\ at["gateway"] \in {"relay", "failed"}
         /\ Welcome => /\ dialled # {}
                       /\ at["client"] \in {"relay", "failed"}
                       /\ at["node"] = at["client"]
         /\ ~Welcome => at["client"] # "relay" /\ dialled = {})
=============================================================================
