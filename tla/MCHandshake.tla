----------------------------- MODULE MCHandshake -----------------------------
(* The handshake for TLC: the lengths at which framing goes wrong, and     *)
(* each field in turn out of the ordinary.                                 *)
EXTENDS Handshake

Letters(n) == [i \in 1 .. n |-> 96 + (i % 3)]
Addr(atyp, host, port) == [atyp |-> atyp, host |-> host, port |-> port]

Addrs ==
    {Addr(IPV4, <<10, 0, 0, 255>>, 443), Addr(IPV6, Letters(16), 80),
     Addr(DOMAIN_NAME, Letters(1), 65535), Addr(DOMAIN_NAME, Letters(255), 0),
     Addr(DOMAIN_NAME, <<>>, 80), Addr(DOMAIN_NAME, <<97, 255>>, 80),
     Addr(2, <<10, 0, 0, 255>>, 80)}

SomeExpected == [user |-> Letters(2), password |-> Letters(1)]

Plain == [pipelines |-> TRUE, ver |-> VERSION, methods |-> <<NO_AUTH>>,
          user |-> <<>>, password |-> <<>>, command |-> CONNECT, rsv |-> 0,
          addr |-> Addr(DOMAIN_NAME, Letters(1), 258)]
Known == [Plain EXCEPT !.methods = <<NO_AUTH, USER_PASS>>, !.user = Letters(2),
                       !.password = Letters(1)]

SomeClients ==
    LET odd == {[c EXCEPT !.addr = a] : c \in {Plain, Known}, a \in Addrs}
               \cup {[c EXCEPT !.command = k, !.rsv = 7] :
                         c \in {Plain, Known}, k \in {CONNECT, 2, 9}}
               \cup {[Known EXCEPT !.user = u, !.password = w] :
                         u \in {Letters(1), Letters(2), <<97, 255>>},
                         w \in {<<>>, Letters(1)}}
               \cup {[c EXCEPT !.methods = m] : c \in {Plain, Known},
                         m \in {<<>>, <<USER_PASS>>, <<1>>, <<1, 2, 0>>}}
               \cup {[c EXCEPT !.ver = 4] : c \in {Plain, Known}}
    IN  {[c EXCEPT !.pipelines = b] : c \in odd, b \in BOOLEAN}
=============================================================================
