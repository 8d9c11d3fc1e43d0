------------------------------- MODULE Codecs -------------------------------
(***************************************************************************)
(* The SOCKS5 messages as bytes (crates/protocol): serializers, parsers,   *)
(* and how many bytes the handlers ask for next while they read one.       *)
(*                                                                         *)
(* A parser returns the set of its result, or the empty set for any kind   *)
(* of ProtocolError.  Text is valid when its bytes are below 128; the only *)
(* other byte the inputs use is 255, which occurs in no UTF-8 text.        *)
(***************************************************************************)
EXTENDS Integers, Sequences

Byte == {b \in Nat : b < 256}
Port == {p \in Nat : p < 65536}

VERSION == 5
AUTH_VERSION == 1
NO_AUTH == 0
USER_PASS == 2
NO_ACCEPTABLE == 255
CONNECT == 1
IPV4 == 1
DOMAIN_NAME == 3
IPV6 == 4
SUCCESS == 0
COMMAND_NOT_SUPPORTED == 7

Bad == {}
from_utf8(bytes) == \A i \in DOMAIN bytes : bytes[i] < 128

(* Reader: n bytes from position i, when there are as many.                *)
Has(b, i, n) == i + n - 1 <= Len(b)
Piece(b, i, n) == SubSeq(b, i, i + n - 1)

-----------------------------------------------------------------------------
(* Addresses (host.rs), as records of atyp, host and port.  The host of an *)
(* IP address is its octets.                                               *)

(* Mutant of to_vec: the high byte of the port is lost.                    *)
to_vec_low_byte(addr) ==
    (IF addr.atyp = DOMAIN_NAME THEN <<Len(addr.host) % 256>> ELSE <<>>)
        \o addr.host \o <<addr.port % 256, addr.port % 256>>

to_vec(addr) ==
    (IF addr.atyp = DOMAIN_NAME THEN <<Len(addr.host) % 256>> ELSE <<>>)
        \o addr.host \o <<addr.port \div 256, addr.port % 256>>

(* The length of address and port; 0 is an error.                          *)
addr_len(atyp, domain_len) ==
    CASE atyp = IPV4 -> 4 + 2
      [] atyp = IPV6 -> 16 + 2
      [] atyp = DOMAIN_NAME /\ domain_len > 0 -> 1 + domain_len + 2
      [] OTHER -> 0

(* The address and port of a frame whose header has four bytes.            *)
ParseAddr(b) ==
    LET named == b[4] = DOMAIN_NAME
        at == IF named THEN 6 ELSE 5
        n == IF named THEN b[5] ELSE addr_len(b[4], 0) - 2
    IN  IF /\ named => Has(b, 5, 1)
           /\ addr_len(b[4], n) > 0 /\ Has(b, at, n + 2)
           /\ named => from_utf8(Piece(b, at, n))
        THEN {[atyp |-> b[4], host |-> Piece(b, at, n),
               port |-> b[at + n] * 256 + b[at + n + 1]]}
        ELSE Bad

-----------------------------------------------------------------------------
(* Greeting and method selection (handshake.rs).                           *)
GreetingBytes(ver, methods) == <<ver, Len(methods)>> \o methods

frame_len(b) == IF Has(b, 1, 2) THEN {2 + b[2]} ELSE Bad

ParseGreeting(b) ==
    IF Has(b, 1, 2) /\ b[1] = VERSION /\ b[2] > 0 /\ Has(b, 3, b[2])
    THEN {Piece(b, 3, b[2])} ELSE Bad

negotiate(methods, allow_user_pass, allow_no_auth) ==
    LET offered(m) == \E i \in DOMAIN methods : methods[i] = m
    IN  IF allow_no_auth /\ offered(NO_AUTH) THEN NO_AUTH
        ELSE IF allow_user_pass /\ offered(USER_PASS) THEN USER_PASS
        ELSE NO_ACCEPTABLE

MethodBytes(method) == <<VERSION, method>>

-----------------------------------------------------------------------------
(* Credentials and the verdict on them (auth.rs).                          *)
CredentialBytes(user, password) ==
    <<AUTH_VERSION, Len(user) % 256>> \o user
        \o <<Len(password) % 256>> \o password

(* handle_user_pass_auth has read the five pieces one by one.              *)
TakeCredentials(b) ==
    LET user == Piece(b, 3, b[2])
        password == Piece(b, 4 + b[2], b[3 + b[2]])
    IN  IF from_utf8(user) /\ from_utf8(password)
        THEN {[user |-> user, password |-> password]} ELSE Bad

(* Mutant of ParseCredentials: an empty password is refused.               *)
ParseCredentialsStrict(b) ==
    IF /\ Has(b, 1, 2) /\ b[1] = AUTH_VERSION /\ b[2] > 0
       /\ Has(b, 3, b[2] + 1) /\ b[3 + b[2]] > 0
       /\ Has(b, 4 + b[2], b[3 + b[2]])
    THEN TakeCredentials(b) ELSE Bad

(* UsernamePassword::parse.                                                *)
ParseCredentials(b) ==
    IF /\ Has(b, 1, 2) /\ b[1] = AUTH_VERSION /\ b[2] > 0
       /\ Has(b, 3, b[2] + 1) /\ Has(b, 4 + b[2], b[3 + b[2]])
    THEN TakeCredentials(b) ELSE Bad

auth_reply_bytes(ok) == <<AUTH_VERSION, IF ok THEN 0 ELSE 1>>

-----------------------------------------------------------------------------
(* Requests and replies (request.rs, reply.rs).  A client may put anything *)
(* in the reserved byte; Request::to_bytes puts a zero.                    *)
RequestBytes(command, rsv, addr) ==
    <<VERSION, command, rsv, addr.atyp>> \o to_vec(addr)

ParseRequest(b) ==
    IF Has(b, 1, 4) /\ b[1] = VERSION /\ b[2] \in 1 .. 3
    THEN {[command |-> b[2], addr |-> a] : a \in ParseAddr(b)} ELSE Bad

Unspecified == [atyp |-> IPV4, host |-> <<0, 0, 0, 0>>, port |-> 0]

(* Reply::parse; it takes an empty name, where a request does not.         *)
ParseReply(b) ==
    LET nameless == [atyp |-> DOMAIN_NAME, host |-> <<>>,
                     port |-> b[6] * 256 + b[7]]
        addrs == IF b[4] = DOMAIN_NAME /\ Has(b, 5, 3) /\ b[5] = 0
                 THEN {nameless} ELSE ParseAddr(b)
    IN  IF Has(b, 1, 4) /\ b[1] = VERSION
        THEN {[code |-> b[2], bind_addr |-> a] : a \in addrs} ELSE Bad

simple_reply(code) == <<VERSION, code, 0, Unspecified.atyp>> \o to_vec(Unspecified)

-----------------------------------------------------------------------------
(* What a handler wants to have of a frame before it looks at it again,    *)
(* given what it has: one read_exact per stage.  When it has that much the *)
(* frame is complete; Refused is an error return before that.              *)
Refused == -1

read_greeting(b) ==
    IF Len(b) < 2 THEN 2
    ELSE IF b[2] = 0 THEN Refused
    ELSE 2 + b[2]

handle_user_pass_auth(b) ==
    IF b = <<>> THEN 1
    ELSE IF b[1] # AUTH_VERSION THEN Refused
    ELSE IF Len(b) = 1 THEN 2
    ELSE IF b[2] = 0 THEN Refused
    ELSE IF Len(b) = 2 THEN 2 + b[2]
    ELSE IF Len(b) = 2 + b[2] THEN 3 + b[2]
    ELSE 3 + b[2] + b[3 + b[2]]

(* Mutant of read_request: the length byte is counted twice.               *)
read_request_long(b) ==
    LET length == addr_len(b[4], IF b[4] = DOMAIN_NAME THEN b[5] ELSE 0)
    IN  IF Len(b) < 4 THEN 4
        ELSE IF b[4] = DOMAIN_NAME /\ Len(b) = 4 THEN 5
        ELSE IF length = 0 THEN Refused
        ELSE IF b[4] = DOMAIN_NAME THEN 5 + length ELSE 4 + length

read_request(b) ==
    LET length == addr_len(b[4], IF b[4] = DOMAIN_NAME THEN b[5] ELSE 0)
    IN  IF Len(b) < 4 THEN 4
        ELSE IF b[4] = DOMAIN_NAME /\ Len(b) = 4 THEN 5
        ELSE IF length = 0 THEN Refused
        ELSE 4 + length

(* connect_and_chain: the length of a name is read, and then counted in    *)
(* what is left to read.  Nodes answer with IPv4 addresses only.           *)
read_reply(b) ==
    IF Len(b) < 4 THEN 4
    ELSE IF b[1] # VERSION THEN Refused
    ELSE IF b[4] = DOMAIN_NAME THEN IF Len(b) = 4 THEN 5 ELSE 5 + (1 + b[5] + 2)
    ELSE IF addr_len(b[4], 0) > 0 THEN 4 + addr_len(b[4], 0)
    ELSE Refused
=============================================================================
