------------------------------- MODULE Session -------------------------------
(***************************************************************************)
(* One proxied connection: client, gateway handler, node handler, target.  *)
(* The gateway handler (crates/gateway/src/handler.rs) does the client's   *)
(* handshake, asks the control plane for a node, chains a CONNECT through  *)
(* it and splices the streams; the node handler (crates/node/src/          *)
(* handler.rs) does the same one hop further.                              *)
(*                                                                         *)
(* A stream is a sequence of frames.  A handshake frame that the reader    *)
(* does not expect, or that does not parse, fails the read.  Any read or   *)
(* write may also time out or fail, and either process may die: the        *)
(* handler then ends and its streams close.                                *)
(***************************************************************************)
EXTENDS Integers, Sequences, FiniteSets

CONSTANT MaxData   \* bound: data frames that each end sends

ASSUME MaxDataAssumption == MaxData \in Nat

VARIABLES
    auth,      \* whether the gateway has a user name and password
    gpc, npc,  \* where the handlers are
    ended,     \* the directions of each relay that have seen the end
    wire,      \* the streams; gc and nt keep all that was delivered
    target,    \* "none" until the node has connected to the target
    copied,    \* the data frames that each relay has passed on, by direction
    recorded,  \* the counts that each hop has added to its metrics
    sent,      \* history: what the client sent
    answered   \* history: what the target sent

counts == <<copied, recorded>>
vars == <<auth, gpc, npc, ended, wire, target, counts, sent, answered>>

(* cg: client to gateway, gn: gateway to node, nt: node to target, and the *)
(* streams back.                                                           *)
Streams == {"cg", "gc", "gn", "ng", "nt", "tn"}

Frame(k, a) == [kind |-> k, arg |-> a, no |-> 0]
Data(i) == [kind |-> "data", arg |-> "", no |-> i]
Eof == Frame("eof", "")
Frames == {Eof}
    \cup {Frame("greeting", a) : a \in {"none", "pass", "both", "neither", "bad"}}
    \cup {Frame("method", a) : a \in {"none", "pass", "unacceptable"}}
    \cup {Frame("credentials", a) : a \in {"good", "wrong", "bad"}}
    \cup {Frame("status", a) : a \in {"success", "failure"}}
    \cup {Frame("request", a) : a \in {"connect", "other", "bad"}}
    \cup {Frame("reply", a) : a \in {"success", "unsupported", "unreachable",
                                     "refused", "expired"}}
    \cup {Data(i) : i \in 1 .. MaxData}

GatewayPc == {"greeting", "credentials", "request", "select", "connect", "method",
              "reply", "success", "relay", "done"}
NodePc == {"off", "greeting", "request", "connect", "success", "relay", "done"}

(* The two relays, and what copy_bidirectional returns.                    *)
Hops == {"gateway", "node"}
Directions == {"up", "down"}
Counts == [Directions -> Nat]
NotCounted == [d \in Directions |-> -1]

Init ==
    /\ auth \in BOOLEAN
    /\ gpc = "greeting" /\ npc = "off"
    /\ ended = [h \in Hops |-> {}]
    /\ wire = [s \in Streams |-> <<>>]
    /\ target = "none"
    /\ copied = [h \in Hops |-> [d \in Directions |-> 0]]
    /\ recorded = [h \in Hops |-> NotCounted]
    /\ sent = <<>> /\ answered = <<>>

-----------------------------------------------------------------------------
(* Steps on the streams.                                                   *)

Arrived(s) == wire[s] # <<>>
Take(w, s) == [w EXCEPT ![s] = Tail(@)]
Put(w, s, f) == [w EXCEPT ![s] = Append(@, f)]

(* Closing a stream twice is closing it once.                              *)
IsClosed(w, s) == w[s] # <<>> /\ w[s][Len(w[s])] = Eof
Close(w, s) == IF IsClosed(w, s) THEN w ELSE Put(w, s, Eof)

(* A write whose failure is ignored.                                       *)
try_reply(w, s, code) == {w, Put(w, s, Frame("reply", code))}

(* The gateway handler returns: it drops the client's stream and, once it  *)
(* has one, the node's.                                                    *)
GatewayReturns(w) ==
    /\ gpc' = "done"
    /\ wire' = IF npc = "off" THEN Close(w, "gc")
               ELSE Close(Close(w, "gc"), "gn")
    /\ UNCHANGED <<auth, npc, ended, target, copied, sent, answered>>

GatewayEnds(w) == GatewayReturns(w) /\ UNCHANGED recorded

GatewayGoes(pc, w) ==
    /\ gpc' = pc
    /\ wire' = w
    /\ UNCHANGED <<auth, npc, ended, target, counts, sent, answered>>

NodeReturns(w) ==
    /\ npc' = "done"
    /\ wire' = IF target = "none" THEN Close(w, "ng")
               ELSE Close(Close(w, "ng"), "nt")
    /\ UNCHANGED <<auth, gpc, ended, target, copied, sent, answered>>

NodeEnds(w) == NodeReturns(w) /\ UNCHANGED recorded

NodeGoes(pc, w) ==
    /\ npc' = pc
    /\ wire' = w
    /\ UNCHANGED <<auth, gpc, ended, target, counts, sent, answered>>

-----------------------------------------------------------------------------
(* The client and the target.                                              *)

Stage == [greeting |-> 1, credentials |-> 2, request |-> 3, data |-> 4]

(* The client may send its frames without waiting for answers, leave some  *)
(* out and get them wrong.                                                 *)
Follows(f) ==
    LET last == sent[Len(sent)]
        before == IF sent = <<>> THEN [stage |-> 0, no |-> 0]
                  ELSE [stage |-> Stage[last.kind], no |-> last.no]
    IN  IF f.kind = "data" THEN f.no = before.no + 1
        ELSE f.kind \in DOMAIN Stage /\ before.stage < Stage[f.kind]

ClientOpen == ~IsClosed(wire, "cg")

ClientSends ==
    /\ ClientOpen /\ "up" \notin ended["gateway"] /\ gpc # "done"
    /\ \E f \in Frames :
          /\ Follows(f)
          /\ sent' = Append(sent, f)
          /\ wire' = Put(wire, "cg", f)
    /\ UNCHANGED <<auth, gpc, npc, ended, target, counts, answered>>

ClientCloses ==
    /\ ClientOpen /\ "up" \notin ended["gateway"] /\ gpc # "done"
    /\ wire' = Put(wire, "cg", Eof)
    /\ UNCHANGED <<auth, gpc, npc, ended, target, counts, sent, answered>>

TargetSends ==
    /\ target = "connected" /\ Len(answered) < MaxData
    /\ answered' = Append(answered, Data(Len(answered) + 1))
    /\ wire' = Put(wire, "tn", Data(Len(answered) + 1))
    /\ UNCHANGED <<auth, gpc, npc, ended, target, counts, sent>>

TargetCloses ==
    /\ target = "connected"
    /\ target' = "closed"
    /\ wire' = Put(wire, "tn", Eof)
    /\ UNCHANGED <<auth, gpc, npc, ended, counts, sent, answered>>

-----------------------------------------------------------------------------
(* The gateway handler.                                                    *)

Offers(f, m) == f.arg \in {m, "both"}

negotiate(f, user_pass, no_auth) ==
    IF no_auth /\ Offers(f, "none") THEN "none"
    ELSE IF user_pass /\ Offers(f, "pass") THEN "pass"
    ELSE "unacceptable"

(* The head of a stream is a frame of this kind, and it parses.            *)
Parses(s, kind) == Head(wire[s]).kind = kind /\ Head(wire[s]).arg # "bad"

(* Any await fails or times out, or the process dies.                      *)
GatewayFails ==
    /\ gpc \notin {"select", "done"}
    /\ GatewayEnds(wire)

read_greeting ==
    LET w == Take(wire, "cg")
        m == negotiate(Head(wire.cg), auth, ~auth)
    IN  /\ gpc = "greeting" /\ Arrived("cg") /\ Parses("cg", "greeting")
        /\ CASE m = "unacceptable" ->
                   GatewayEnds(Put(w, "gc", Frame("method", m)))
             [] m = "pass" -> GatewayGoes("credentials", Put(w, "gc", Frame("method", m)))
             [] OTHER -> GatewayGoes("request", Put(w, "gc", Frame("method", m)))

(* Mutant of handle_user_pass_auth: it goes on after a failure.            *)
handle_user_pass_auth_lenient ==
    LET w == Take(wire, "cg")
    IN  /\ gpc = "credentials" /\ Arrived("cg") /\ Parses("cg", "credentials")
        /\ IF Head(wire.cg).arg = "good"
           THEN GatewayGoes("request", Put(w, "gc", Frame("status", "success")))
           ELSE GatewayGoes("request", Put(w, "gc", Frame("status", "failure")))

handle_user_pass_auth ==
    LET w == Take(wire, "cg")
    IN  /\ gpc = "credentials" /\ Arrived("cg") /\ Parses("cg", "credentials")
        /\ IF Head(wire.cg).arg = "good"
           THEN GatewayGoes("request", Put(w, "gc", Frame("status", "success")))
           ELSE GatewayEnds(Put(w, "gc", Frame("status", "failure")))

(* Mutant of read_request: it reads past the request.                      *)
read_request_overread ==
    LET w == Take(wire, "cg")
        v == IF w.cg # <<>> THEN Take(w, "cg") ELSE w
    IN  /\ gpc = "request" /\ Arrived("cg") /\ Parses("cg", "request")
        /\ IF Head(wire.cg).arg = "connect" THEN GatewayGoes("select", v)
           ELSE \E u \in try_reply(w, "gc", "unsupported") : GatewayEnds(u)

read_request ==
    LET w == Take(wire, "cg")
    IN  /\ gpc = "request" /\ Arrived("cg") /\ Parses("cg", "request")
        /\ IF Head(wire.cg).arg = "connect" THEN GatewayGoes("select", w)
           ELSE \E v \in try_reply(w, "gc", "unsupported") : GatewayEnds(v)

(* A frame that does not parse ends the session without a reply.           *)
GatewayRejects ==
    /\ gpc \in {"greeting", "credentials", "request"}
    /\ Arrived("cg") /\ ~Parses("cg", gpc)
    /\ GatewayEnds(Take(wire, "cg"))

(* The control plane names a node; or it is unreachable, has no node, or   *)
(* does not answer in time.                                                *)
select_node == gpc = "select" /\ GatewayGoes("connect", wire)

(* Mutant of SelectFails: the return after the reply is missing.           *)
SelectFailsGoesOn ==
    /\ gpc = "select"
    /\ \E v \in try_reply(wire, "gc", "unreachable") : GatewayGoes("connect", v)

SelectFails ==
    /\ gpc = "select"
    /\ \E v \in try_reply(wire, "gc", "unreachable") : GatewayEnds(v)

(* connect_and_chain: connect and greet, send the request, read the reply. *)
ConnectNode ==
    /\ gpc = "connect"
    /\ gpc' = "method" /\ npc' = "greeting"
    /\ wire' = Put(wire, "gn", Frame("greeting", "none"))
    /\ UNCHANGED <<auth, ended, target, counts, sent, answered>>

ChainRequest ==
    LET w == Take(wire, "ng")
    IN  /\ gpc = "method" /\ Arrived("ng")
        /\ IF Head(wire.ng) = Frame("method", "none")
           THEN GatewayGoes("reply", Put(w, "gn", Frame("request", "connect")))
           ELSE GatewayEnds(w)

(* Mutant of ChainReply: the reply code is not looked at.                  *)
ChainReplyAny ==
    LET w == Take(wire, "ng")
    IN  /\ gpc = "reply" /\ Arrived("ng")
        /\ IF Head(wire.ng).kind = "reply"
           THEN GatewayGoes("success", w) ELSE GatewayEnds(w)

ChainReply ==
    LET w == Take(wire, "ng")
    IN  /\ gpc = "reply" /\ Arrived("ng")
        /\ IF Head(wire.ng) = Frame("reply", "success")
           THEN GatewayGoes("success", w) ELSE GatewayEnds(w)

ReplySuccess ==
    /\ gpc = "success"
    /\ GatewayGoes("relay", Put(wire, "gc", Frame("reply", "success")))

(* relay: copy_bidirectional passes what arrives on and counts it, passes  *)
(* the end of one stream on too, and returns when both have ended.         *)
Copied(from, to) == IF Head(wire[from]) = Eof THEN Close(Take(wire, from), to)
                    ELSE Put(Take(wire, from), to, Head(wire[from]))

Copies(hop, dir, from, to) ==
    /\ dir \notin ended[hop] /\ Arrived(from)
    /\ wire' = Copied(from, to)
    /\ IF Head(wire[from]) = Eof
       THEN /\ ended' = [ended EXCEPT ![hop] = @ \cup {dir}]
            /\ UNCHANGED copied
       ELSE /\ copied' = [copied EXCEPT ![hop][dir] = @ + 1]
            /\ UNCHANGED ended
    /\ UNCHANGED <<auth, gpc, npc, target, recorded, sent, answered>>

GatewayCopies(dir, from, to) == gpc = "relay" /\ Copies("gateway", dir, from, to)

(* Mutant of RelayEnds: the two counts are swapped.                        *)
RelayEndsSwapped ==
    /\ gpc = "relay" /\ ended["gateway"] = Directions
    /\ recorded' = [recorded EXCEPT !["gateway"] =
           [d \in Directions |-> copied["gateway"][IF d = "up" THEN "down" ELSE "up"]]]
    /\ GatewayReturns(wire)

(* Only a relay that ends well is counted: an error, or the timeout, loses *)
(* the counts with the future that held them.                              *)
RelayEnds ==
    /\ gpc = "relay" /\ ended["gateway"] = Directions
    /\ recorded' = [recorded EXCEPT !["gateway"] = copied["gateway"]]
    /\ GatewayReturns(wire)

GatewayStep ==
    \/ read_greeting \/ handle_user_pass_auth \/ read_request
    \/ GatewayRejects \/ select_node \/ SelectFails \/ ConnectNode
    \/ ChainRequest \/ ChainReply \/ ReplySuccess
    \/ GatewayCopies("up", "cg", "gn") \/ GatewayCopies("down", "ng", "gc")
    \/ RelayEnds \/ GatewayFails

-----------------------------------------------------------------------------
(* The node handler; a node asks for no authentication.                    *)

(* Mutant of NodeFails: the relay has no timeout.                          *)
NodeFailsNotInRelay ==
    /\ npc \notin {"off", "connect", "relay", "done"}
    /\ NodeEnds(wire)

NodeFails ==
    /\ npc \notin {"off", "connect", "done"}
    /\ NodeEnds(wire)

NodeGreeting ==
    LET w == Take(wire, "gn")
        m == negotiate(Head(wire.gn), FALSE, TRUE)
    IN  /\ npc = "greeting" /\ Arrived("gn") /\ Parses("gn", "greeting")
        /\ IF m = "none" THEN NodeGoes("request", Put(w, "ng", Frame("method", m)))
           ELSE NodeEnds(Put(w, "ng", Frame("method", m)))

NodeRequest ==
    LET w == Take(wire, "gn")
    IN  /\ npc = "request" /\ Arrived("gn") /\ Parses("gn", "request")
        /\ IF Head(wire.gn).arg = "connect" THEN NodeGoes("connect", w)
           ELSE \E v \in try_reply(w, "ng", "unsupported") : NodeEnds(v)

NodeRejects ==
    /\ npc \in {"greeting", "request"}
    /\ Arrived("gn") /\ ~Parses("gn", npc)
    /\ NodeEnds(Take(wire, "gn"))

ConnectTarget ==
    /\ npc = "connect"
    /\ npc' = "success" /\ target' = "connected"
    /\ UNCHANGED <<auth, gpc, ended, wire, counts, sent, answered>>

(* The target refuses, cannot be reached, or does not answer in time.      *)
ConnectTargetFails ==
    /\ npc = "connect"
    /\ \E code \in {"refused", "unreachable", "expired"} :
          \E v \in try_reply(wire, "ng", code) : NodeEnds(v)

NodeSuccess ==
    /\ npc = "success"
    /\ NodeGoes("relay", Put(wire, "ng", Frame("reply", "success")))

NodeCopies(dir, from, to) == npc = "relay" /\ Copies("node", dir, from, to)

NodeRelayEnds ==
    /\ npc = "relay" /\ ended["node"] = Directions
    /\ recorded' = [recorded EXCEPT !["node"] = copied["node"]]
    /\ NodeReturns(wire)

NodeStep ==
    \/ NodeGreeting \/ NodeRequest \/ NodeRejects \/ ConnectTarget
    \/ ConnectTargetFails \/ NodeSuccess
    \/ NodeCopies("up", "gn", "nt") \/ NodeCopies("down", "tn", "ng")
    \/ NodeRelayEnds \/ NodeFails

Next == \/ ClientSends \/ ClientCloses \/ TargetSends \/ TargetCloses
        \/ GatewayStep \/ NodeStep

Spec == Init /\ [][Next]_vars

(* Every await of a handler returns or times out.  Client and target owe   *)
(* nothing.                                                                *)
FairSpec == Spec /\ WF_vars(GatewayStep) /\ WF_vars(NodeStep)

-----------------------------------------------------------------------------
(* Every frame on every stream is one that the protocol knows.             *)
TypeOK ==
    /\ auth \in BOOLEAN
    /\ gpc \in GatewayPc /\ npc \in NodePc
    /\ ended \in [Hops -> SUBSET Directions]
    /\ wire \in [Streams -> Seq(Frames)]
    /\ target \in {"none", "connected", "closed"}
    /\ copied \in [Hops -> Counts]
    /\ recorded \in [Hops -> Counts \cup {NotCounted}]
    /\ sent \in Seq(Frames) /\ answered \in Seq(Frames)

Holds(stream, f) == \E i \in DOMAIN stream : stream[i] = f

(* A client that is told "success" has a path to its target: the node had  *)
(* connected, and no timeout, late reply or refusal on the way turns into  *)
(* a success (run_with_ctx step 6 after connect_and_chain).                *)
SuccessMeansConnected ==
    Holds(wire.gc, Frame("reply", "success")) => target # "none"

(* The client gets at most one reply to its CONNECT, and data only after a *)
(* success, whichever step fails.                                          *)
OneReply ==
    \A i, j \in DOMAIN wire.gc :
        /\ wire.gc[i].kind = "reply" /\ wire.gc[j].kind = "reply" => i = j
        /\ wire.gc[j].kind = "data" =>
              \E k \in 1 .. j : wire.gc[k] = Frame("reply", "success")

(* With a user name and password configured, neither the control plane nor *)
(* a node hears of a client that has not sent them.                        *)
CredentialsFirst ==
    auth /\ (gpc \notin {"greeting", "credentials", "done"} \/ npc # "off")
        => Holds(sent, Frame("credentials", "good"))

(* The number of data frames among the first i frames of a stream.         *)
DataIn(s, i) == Cardinality({j \in 1 .. i : s[j].kind = "data"})

(* The data frames of s are the first data frames of t, in the same order. *)
DataPrefix(s, t) ==
    \A i \in DOMAIN s : s[i].kind = "data" =>
        \E j \in DOMAIN t : t[j] = s[i] /\ DataIn(t, j) = DataIn(s, i)

(* The target receives a prefix of the client's data and nothing else, and *)
(* the client a prefix of the target's: no byte of a handshake is relayed, *)
(* and data sent before the reply is neither lost nor reordered.           *)
PayloadIntact ==
    /\ \A i \in DOMAIN wire.nt : wire.nt[i].kind \in {"data", "eof"}
    /\ DataPrefix(wire.nt, sent)
    /\ DataPrefix(wire.gc, answered)

(* When both hops have counted the session they agree, and the counts are  *)
(* what target and client received, whatever failed after the relays.      *)
HopsAgree ==
    (\A h \in Hops : recorded[h] # NotCounted) =>
        /\ recorded["gateway"] = recorded["node"]
        /\ recorded["gateway"]["up"] = DataIn(wire.nt, Len(wire.nt))
        /\ recorded["gateway"]["down"] = DataIn(wire.gc, Len(wire.gc))

(* Every session ends on both hops, even when client and target keep       *)
(* silent: no handler waits for ever (handshake timeouts, and a timeout on *)
(* the whole relay).                                                       *)
EverySessionEnds == <>(gpc = "done" /\ npc \in {"off", "done"})
=============================================================================
