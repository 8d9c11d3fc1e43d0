--------------------------- MODULE FramingProofs ---------------------------
(***************************************************************************)
(* The bytes of the handshake for every client, every address and every    *)
(* way to cut a stream: what the codecs write and read back, where the     *)
(* frames of a stream end, the inductive invariant of the handshake and    *)
(* what a read, a write or an end of a party does to it.                   *)
(***************************************************************************)
EXTENDS Handshake, TLAPS

-----------------------------------------------------------------------------
(* The codecs.                                                             *)

(* Where the host begins, less one.                                        *)
Before(a) == IF a.atyp = DOMAIN_NAME THEN 5 ELSE 4

(* A port is its two bytes.                                                *)
LEMMA PortBytes ==
    ASSUME NEW p \in Port
    PROVE  /\ p \div 256 \in Byte /\ p % 256 \in Byte
           /\ (p \div 256) * 256 + (p % 256) = p
<1>1. p \in Nat /\ p < 65536
  BY DEF Port
<1> QED
  BY <1>1 DEF Byte

(* The bytes of a concatenation.                                           *)
LEMMA Joined ==
    ASSUME NEW s \in Seq(Byte), NEW t \in Seq(Byte)
    PROVE  /\ s \o t \in Seq(Byte) /\ Len(s \o t) = Len(s) + Len(t)
           /\ \A i \in 1 .. Len(s) : (s \o t)[i] = s[i]
           /\ \A i \in 1 .. Len(t) : (s \o t)[Len(s) + i] = t[i]
OBVIOUS

(* The bytes of a request f for the destination a, one by one.             *)
Laid(f, command, rsv, a) ==
    LET n == Len(a.host)
        k == Before(a)
    IN  /\ f \in Seq(Byte) /\ n \in Nat /\ Len(f) = k + n + 2
        /\ f[1] = VERSION /\ f[2] = command /\ f[3] = rsv /\ f[4] = a.atyp
        /\ a.atyp = DOMAIN_NAME => f[5] = n
        /\ \A i \in 1 .. n : f[k + i] = a.host[i]
        /\ f[k + n + 1] = a.port \div 256 /\ f[k + n + 2] = a.port % 256

(* Request::to_bytes lays a request out like that.                         *)
LEMMA Layout ==
    ASSUME NEW a \in ClientAddr, NEW command \in Byte, NEW rsv \in Byte
    PROVE  Laid(RequestBytes(command, rsv, a), command, rsv, a)
<1> DEFINE n == Len(a.host)
           k == Before(a)
           h == a.host
           head == <<VERSION, command, rsv, a.atyp>>
           size == IF a.atyp = DOMAIN_NAME THEN <<Len(a.host) % 256>> ELSE <<>>
           port == <<a.port \div 256, a.port % 256>>
<1>1. /\ h \in Seq(Byte) /\ n \in Nat /\ a.atyp \in Byte
      /\ a.port \in Port /\ (a.atyp = DOMAIN_NAME => n < 256)
  BY DEF ClientAddr, Fits
<1>2. port \in Seq(Byte) /\ Len(port) = 2 /\ port[1] = a.port \div 256
      /\ port[2] = a.port % 256
  BY <1>1, PortBytes
<1>3. /\ head \in Seq(Byte) /\ Len(head) = 4 /\ head[1] = VERSION /\ head[2] = command
      /\ head[3] = rsv /\ head[4] = a.atyp
  BY <1>1 DEF Byte, VERSION
<1>4. /\ size \in Seq(Byte) /\ Len(size) = k - 4 /\ k \in {4, 5}
      /\ a.atyp = DOMAIN_NAME => size[1] = n /\ k = 5
  <2>1. CASE a.atyp = DOMAIN_NAME
    <3>1. \A m \in Nat : m < 256 => m % 256 = m /\ m \in Byte
      BY DEF Byte
    <3>2. n % 256 = n /\ n \in Byte
      BY <1>1, <2>1, <3>1, Zenon
    <3>3. size = <<n>>
      BY <2>1, <3>2, Zenon
    <3>4. <<n>> \in Seq(Byte) /\ Len(<<n>>) = 1 /\ <<n>>[1] = n
      BY <3>2
    <3>5. k = 5
      BY <2>1, Zenon DEF Before
    <3> HIDE DEF size, n, k
    <3> QED
      BY <2>1, <3>3, <3>4, <3>5
  <2>2. CASE a.atyp # DOMAIN_NAME
    BY <2>2 DEF Before
  <2> QED
    BY <2>1, <2>2, Zenon
<1> HIDE DEF head, size, port, h, n, k
<1>5. RequestBytes(command, rsv, a) = head \o ((size \o h) \o port)
  BY Zenon DEF RequestBytes, to_vec, head, size, port, h
<1> DEFINE b == size \o h
           c == b \o port
           f == head \o c
<1>6. /\ b \in Seq(Byte) /\ Len(b) = k - 4 + n
      /\ \A i \in 1 .. k - 4 : b[i] = size[i]
      /\ \A i \in 1 .. n : b[k - 4 + i] = h[i]
  <2>1. /\ b \in Seq(Byte) /\ Len(b) = Len(size) + Len(h)
        /\ \A i \in 1 .. Len(size) : b[i] = size[i]
        /\ \A i \in 1 .. Len(h) : b[Len(size) + i] = h[i]
    BY <1>1, <1>4, Joined, Zenon
  <2>2. Len(h) = n
    BY Zenon DEF n, h
  <2> QED
    BY <1>4, <2>1, <2>2, Zenon
<1> HIDE DEF b
<1>7. /\ c \in Seq(Byte) /\ Len(c) = k - 4 + n + 2
      /\ \A i \in 1 .. k - 4 + n : c[i] = b[i]
      /\ c[k - 4 + n + 1] = port[1] /\ c[k - 4 + n + 2] = port[2]
  <2>1. /\ c \in Seq(Byte) /\ Len(c) = Len(b) + 2
        /\ \A i \in 1 .. Len(b) : c[i] = b[i]
        /\ \A i \in 1 .. 2 : c[Len(b) + i] = port[i]
    <3>1. b \in Seq(Byte) /\ port \in Seq(Byte)
      BY <1>2, <1>6, Zenon
    <3>2. /\ c \in Seq(Byte) /\ Len(c) = Len(b) + Len(port)
          /\ \A i \in 1 .. Len(b) : c[i] = b[i]
          /\ \A i \in 1 .. Len(port) : c[Len(b) + i] = port[i]
      BY <3>1, Joined, ZenonT(30)
    <3> QED
      BY <1>2, <3>2, Zenon
  <2> QED
    BY <1>6, <2>1, SMTT(30)
<1> HIDE DEF c
<1>8. /\ f \in Seq(Byte) /\ Len(f) = k + n + 2
      /\ f[1] = head[1] /\ f[2] = head[2] /\ f[3] = head[3] /\ f[4] = head[4]
      /\ \A i \in 1 .. k - 4 + n + 2 : f[4 + i] = c[i]
  <2>1. /\ f \in Seq(Byte) /\ Len(f) = 4 + Len(c)
        /\ \A i \in 1 .. 4 : f[i] = head[i]
        /\ \A i \in 1 .. Len(c) : f[4 + i] = c[i]
    <3>1. /\ f \in Seq(Byte) /\ Len(f) = Len(head) + Len(c)
          /\ \A i \in 1 .. Len(head) : f[i] = head[i]
          /\ \A i \in 1 .. Len(c) : f[Len(head) + i] = c[i]
      BY <1>3, <1>7, Joined, Zenon
    <3> QED
      BY <1>3, <3>1, Zenon
  <2>2. Len(f) = k + n + 2
    BY <1>1, <1>4, <1>7, <2>1
  <2>3. 1 \in 1 .. 4 /\ 2 \in 1 .. 4 /\ 3 \in 1 .. 4 /\ 4 \in 1 .. 4
    OBVIOUS
  <2> QED
    BY <1>7, <2>1, <2>2, <2>3, Zenon
<1> HIDE DEF f
<1>9. a.atyp = DOMAIN_NAME => f[5] = n
  <2> SUFFICES ASSUME a.atyp = DOMAIN_NAME PROVE f[5] = n
    BY Zenon
  <2>1. k = 5 /\ 1 \in 1 .. k - 4 /\ 1 \in 1 .. k - 4 + n /\ 1 \in 1 .. k - 4 + n + 2
    BY <1>1, <1>4
  <2>2. f[4 + 1] = c[1] /\ c[1] = b[1] /\ b[1] = size[1]
    BY <2>1, <1>6, <1>7, <1>8, Zenon
  <2> QED
    BY <2>2, <1>4
<1>10. ASSUME NEW i \in 1 .. n PROVE f[k + i] = h[i]
  <2>1. /\ k - 4 + i \in 1 .. k - 4 + n /\ k - 4 + i \in 1 .. k - 4 + n + 2
        /\ 4 + (k - 4 + i) = k + i
    BY <1>1, <1>4
  <2> QED
    BY <2>1, <1>6, <1>7, <1>8, SMTT(30)
<1>11. f[k + n + 1] = a.port \div 256 /\ f[k + n + 2] = a.port % 256
  <2>1. /\ k - 4 + n + 1 \in 1 .. k - 4 + n + 2 /\ k - 4 + n + 2 \in 1 .. k - 4 + n + 2
        /\ 4 + (k - 4 + n + 1) = k + n + 1 /\ 4 + (k - 4 + n + 2) = k + n + 2
    BY <1>1, <1>4
  <2> QED
    BY <2>1, <1>2, <1>7, <1>8, SMTT(30)
<1>12. f = RequestBytes(command, rsv, a)
  BY <1>5, Zenon DEF f, c, b
<1>13. Laid(f, command, rsv, a)
  BY <1>1, <1>3, <1>8, <1>9, <1>10, <1>11, Zenon DEF n, k, h, Laid
<1> QED
  BY <1>12, <1>13, Zenon

(* Bytes found in a row are the piece of the frame that holds them.        *)
LEMMA Slice ==
    ASSUME NEW f \in Seq(Byte), NEW h \in Seq(Byte), NEW i \in Nat,
           i + Len(h) <= Len(f), \A j \in 1 .. Len(h) : f[i + j] = h[j]
    PROVE  Piece(f, i + 1, Len(h)) = h
<1> DEFINE s == SubSeq(f, i + 1, i + 1 + Len(h) - 1)
<1>1. Len(h) \in Nat /\ Len(f) \in Nat
  OBVIOUS
<1>2. s \in Seq(Byte) /\ Len(s) = Len(h) /\ \A j \in 1 .. Len(h) : s[j] = f[i + j]
  BY <1>1
<1> HIDE DEF s
<1>3. s = h
  BY <1>2, SMTT(30)
<1> QED
  BY <1>3, Zenon DEF Piece, s

(* What ClientsAssumption says of an address.                              *)
LEMMA AddrParts ==
    ASSUME NEW a \in ClientAddr
    PROVE  /\ a.host \in Seq(Byte) /\ Len(a.host) \in Nat /\ a.port \in Port
           /\ a.atyp \in Byte
           /\ a.atyp = IPV4 => Len(a.host) = 4
           /\ a.atyp = IPV6 => Len(a.host) = 16
           /\ a.atyp = DOMAIN_NAME => Len(a.host) < 256
           /\ a = [atyp |-> a.atyp, host |-> a.host, port |-> a.port]
BY DEF ClientAddr, Fits

(* ParseAddr finds the address in a frame that carries a proper one, and   *)
(* nothing in any other.                                                   *)
LEMMA AddrRoundTrip ==
    ASSUME NEW a \in ClientAddr, NEW f, NEW command, NEW rsv,
           Laid(f, command, rsv, a)
    PROVE  ParseAddr(f) = IF Proper(a) THEN {a} ELSE Bad
<1> DEFINE h == a.host
           n == Len(a.host)
           k == Before(a)
<1>1. /\ f \in Seq(Byte) /\ n \in Nat /\ Len(f) = k + n + 2
      /\ f[1] = VERSION /\ f[2] = command /\ f[4] = a.atyp
      /\ a.atyp = DOMAIN_NAME => f[5] = n
      /\ \A i \in 1 .. n : f[k + i] = h[i]
      /\ f[k + n + 1] = a.port \div 256 /\ f[k + n + 2] = a.port % 256
  BY Zenon DEF Laid
<1>2. /\ h \in Seq(Byte) /\ a.port \in Port
      /\ a.atyp = IPV4 => n = 4
      /\ a.atyp = IPV6 => n = 16
      /\ a.atyp = DOMAIN_NAME => n < 256
      /\ a = [atyp |-> a.atyp, host |-> h, port |-> a.port]
  BY AddrParts, Zenon
<1>3. k \in {4, 5} /\ (k = 5 <=> a.atyp = DOMAIN_NAME)
  BY DEF Before
<1>4. (a.port \div 256) * 256 + (a.port % 256) = a.port
  BY <1>2, PortBytes, Zenon
<1>p. Proper(a) <=> \/ a.atyp = IPV4 \/ a.atyp = IPV6
                    \/ a.atyp = DOMAIN_NAME /\ n \in 1 .. 255 /\ from_utf8(h)
  BY Zenon DEF Proper
<1> HIDE DEF h, n, k
<1>5. Piece(f, k + 1, n) = h
  <2>1. n = Len(h) /\ k \in Nat
    BY <1>3 DEF n, h
  <2>2. k + Len(h) <= Len(f)
    BY <1>1, <1>3, <2>1
  <2>3. \A j \in 1 .. Len(h) : f[k + j] = h[j]
    BY <1>1, <2>1, Zenon
  <2>4. f \in Seq(Byte) /\ h \in Seq(Byte)
    BY <1>1, <1>2, Zenon
  <2>5. Piece(f, k + 1, Len(h)) = h
    BY <2>1, <2>2, <2>3, <2>4, Slice, Zenon
  <2> QED
    BY <2>1, <2>5, Zenon
<1>6. f[k + 1 + n] * 256 + f[k + 1 + n + 1] = a.port
  <2>1. k + 1 + n = k + n + 1 /\ k + 1 + n + 1 = k + n + 2
    BY <1>1, <1>3
  <2> QED
    BY <1>1, <1>4, <2>1
<1> DEFINE r == [atyp |-> f[4], host |-> Piece(f, k + 1, n),
                 port |-> f[k + 1 + n] * 256 + f[k + 1 + n + 1]]
<1>7. r = a
  BY <1>1, <1>2, <1>5, <1>6, Zenon
<1>8. Has(f, k + 1, n + 2) /\ Has(f, 5, 1)
  BY <1>1, <1>3 DEF Has
<1> HIDE DEF r
<1>9. CASE a.atyp = DOMAIN_NAME
  <2>1. k + 1 = 6 /\ f[5] = n
    BY <1>1, <1>3, <1>9
  <2>2. addr_len(a.atyp, n) > 0 <=> n > 0
    BY <1>1, <1>9 DEF addr_len, IPV4, IPV6, DOMAIN_NAME
  <2>3. ParseAddr(f) = IF n > 0 /\ from_utf8(h) THEN {r} ELSE Bad
    BY <1>1, <1>5, <1>8, <1>9, <2>1, <2>2, ZenonT(30) DEF ParseAddr, r
  <2>4. Proper(a) <=> n > 0 /\ from_utf8(h)
    <3>0. n \in Nat /\ n < 256
      BY <1>1, <1>2, <1>9, Zenon
    <3>1. a.atyp # IPV4 /\ a.atyp # IPV6 /\ (n \in 1 .. 255 <=> n > 0)
      BY <1>9, <3>0 DEF IPV4, IPV6, DOMAIN_NAME
    <3> QED
      BY <1>9, <1>p, <3>1, Zenon
  <2> QED
    BY <1>7, <2>3, <2>4, Zenon
<1>10. CASE a.atyp # DOMAIN_NAME /\ Proper(a)
  <2>1. k + 1 = 5 /\ addr_len(a.atyp, 0) - 2 = n /\ addr_len(a.atyp, n) > 0
    BY <1>2, <1>3, <1>10, <1>p DEF addr_len, IPV4, IPV6, DOMAIN_NAME
  <2>2. ParseAddr(f) = {r}
    BY <1>1, <1>8, <1>10, <2>1 DEF ParseAddr, r
  <2> QED
    BY <1>7, <1>10, <2>2, Zenon
<1>11. CASE a.atyp # DOMAIN_NAME /\ ~Proper(a)
  <2>1. a.atyp # IPV4 /\ a.atyp # IPV6
    BY <1>11, <1>p, Zenon
  <2>2. \A d : addr_len(f[4], d) = 0
    BY <1>1, <1>11, <2>1, Zenon DEF addr_len
  <2>3. ParseAddr(f) = Bad
    BY <1>1, <1>11, <2>2 DEF ParseAddr
  <2> QED
    BY <1>11, <2>3, Zenon
<1> QED
  BY <1>9, <1>10, <1>11, Zenon

(* The destination survives: a node parses the very request that the       *)
(* gateway has serialized, for every address, port and reserved byte       *)
(* (Request::parse after Request::to_bytes), and a request for anything    *)
(* that is not an address, or with an unknown command, is an error.        *)
THEOREM RequestRoundTrip ==
    ASSUME NEW a \in ClientAddr, NEW command \in Byte, NEW rsv \in Byte
    PROVE  ParseRequest(RequestBytes(command, rsv, a))
               = IF command \in 1 .. 3 /\ Proper(a)
                 THEN {[command |-> command, addr |-> a]} ELSE Bad
<1> DEFINE f == RequestBytes(command, rsv, a)
<1>1. Laid(f, command, rsv, a)
  BY Layout, Zenon
<1> HIDE DEF f
<1>2. ParseAddr(f) = IF Proper(a) THEN {a} ELSE Bad
  BY <1>1, AddrRoundTrip, Zenon
<1>3. Has(f, 1, 4) /\ f[1] = VERSION /\ f[2] = command
  <2> DEFINE n == Len(a.host)
             k == Before(a)
  <2>1. n \in Nat /\ Len(f) = k + n + 2 /\ f[1] = VERSION /\ f[2] = command
    BY <1>1, Zenon DEF Laid
  <2>2. k \in {4, 5}
    BY Zenon DEF Before
  <2> HIDE DEF n, k
  <2> QED
    BY <2>1, <2>2 DEF Has
<1>4. ParseRequest(f) = IF command \in 1 .. 3 /\ Proper(a)
                        THEN {[command |-> command, addr |-> a]} ELSE Bad
  BY <1>2, <1>3, Zenon DEF ParseRequest, Bad
<1> QED
  BY <1>4, Zenon DEF f

(* The addresses whose length read_request can tell.                       *)
Measured(a) == \/ a.atyp \in {IPV4, IPV6}
               \/ a.atyp = DOMAIN_NAME /\ Len(a.host) > 0

(* What a reader has of a frame.                                           *)
LEMMA Prefix ==
    ASSUME NEW f \in Seq(Byte), NEW m \in 0 .. Len(f)
    PROVE  /\ SubSeq(f, 1, m) \in Seq(Byte) /\ Len(SubSeq(f, 1, m)) = m
           /\ \A i \in 1 .. m : SubSeq(f, 1, m)[i] = f[i]
OBVIOUS

(* Framing is exact: with any part of a request at hand, the next read of  *)
(* read_request stays inside the request and makes progress, and with the  *)
(* last byte it stops.  So the data after a request is never touched, and  *)
(* nobody waits for a byte that is not part of it.  Only an address whose  *)
(* length cannot be told is refused on the way.                            *)
THEOREM RequestFraming ==
    ASSUME NEW a \in ClientAddr, NEW command \in Byte, NEW rsv \in Byte,
           NEW m \in 0 .. Len(RequestBytes(command, rsv, a))
    PROVE  LET f == RequestBytes(command, rsv, a)
               wanted == read_request(SubSeq(f, 1, m))
           IN  \/ wanted = Refused /\ ~Measured(a)
               \/ /\ wanted \in 1 .. Len(f)
                  /\ m < Len(f) => wanted > m
                  /\ m = Len(f) => wanted = m
<1> DEFINE f == RequestBytes(command, rsv, a)
           n == Len(a.host)
           k == Before(a)
           b == SubSeq(f, 1, m)
<1>1. /\ f \in Seq(Byte) /\ n \in Nat /\ Len(f) = k + n + 2
      /\ f[4] = a.atyp
      /\ a.atyp = DOMAIN_NAME => f[5] = n
  BY Layout DEF Laid
<1>2. /\ a.atyp = IPV4 => n = 4
      /\ a.atyp = IPV6 => n = 16
      /\ Measured(a) <=> \/ a.atyp \in {IPV4, IPV6}
                         \/ a.atyp = DOMAIN_NAME /\ n > 0
  <2>1. Measured(a) <=> \/ a.atyp \in {IPV4, IPV6}
                        \/ a.atyp = DOMAIN_NAME /\ n > 0
    BY Zenon DEF Measured
  <2> QED
    BY <2>1, AddrParts, Zenon
<1>3. k \in {4, 5} /\ (k = 5 <=> a.atyp = DOMAIN_NAME)
  BY DEF Before
<1>4. m \in 0 .. Len(f)
  BY Zenon
<1> HIDE DEF f, n, k
<1>5. Len(b) = m /\ \A i \in 1 .. m : b[i] = f[i]
  BY <1>1, <1>4, Prefix, Zenon
<1>6. /\ a.atyp \in {IPV4, IPV6} => addr_len(a.atyp, 0) = n + 2 /\ n > 0
      /\ a.atyp \notin {IPV4, IPV6, DOMAIN_NAME} => addr_len(a.atyp, 0) = 0
      /\ a.atyp = DOMAIN_NAME => addr_len(a.atyp, n) = IF n > 0 THEN 1 + n + 2 ELSE 0
  BY <1>1, <1>2 DEF addr_len, IPV4, IPV6, DOMAIN_NAME
<1> HIDE DEF b
<1>7. CASE m < 4
  <2>1. read_request(b) = 4
    BY <1>4, <1>5, <1>7, Zenon DEF read_request
  <2> QED
    BY <1>1, <1>3, <1>7, <2>1 DEF f, b
<1>8. CASE m >= 4 /\ a.atyp # DOMAIN_NAME
  <2>1. b[4] = a.atyp /\ ~(Len(b) < 4)
    BY <1>1, <1>4, <1>5, <1>8
  <2>2. CASE a.atyp \in {IPV4, IPV6}
    <3>1. read_request(b) = Len(f)
      BY <1>1, <1>3, <1>6, <1>8, <2>1, <2>2 DEF read_request
    <3> QED
      BY <1>1, <1>3, <1>4, <3>1 DEF f, b
  <2>3. CASE a.atyp \notin {IPV4, IPV6}
    <3>1. read_request(b) = Refused
      BY <1>6, <1>8, <2>1, <2>3, Zenon DEF read_request
    <3> QED
      BY <1>2, <1>8, <2>3, <3>1, Zenon DEF f, b
  <2> QED
    BY <2>2, <2>3, Zenon
<1>9. CASE m = 4 /\ a.atyp = DOMAIN_NAME
  <2>1. b[4] = a.atyp
    BY <1>1, <1>4, <1>5, <1>9
  <2>2. read_request(b) = 5
    BY <1>5, <1>9, <2>1 DEF read_request
  <2> QED
    BY <1>1, <1>3, <1>9, <2>2 DEF f, b
<1>10. CASE m > 4 /\ a.atyp = DOMAIN_NAME
  <2>1. b[4] = a.atyp /\ b[5] = n
    BY <1>1, <1>4, <1>5, <1>10
  <2>2. Len(b) # 4 /\ ~(Len(b) < 4)
    BY <1>4, <1>5, <1>10
  <2>3. CASE n > 0
    <3>1. addr_len(b[4], b[5]) = n + 3 /\ n + 3 # 0 /\ 4 + (n + 3) = Len(f)
      BY <1>1, <1>3, <1>6, <1>10, <2>1, <2>3
    <3>2. read_request(b) = Len(f)
      BY <1>10, <2>1, <2>2, <3>1, Zenon DEF read_request
    <3> QED
      BY <1>1, <1>3, <1>4, <3>2 DEF f, b
  <2>4. CASE ~(n > 0)
    <3>1. addr_len(b[4], b[5]) = 0
      BY <1>1, <1>6, <1>10, <2>1, <2>4, Zenon
    <3>2. read_request(b) = Refused
      BY <1>10, <2>1, <2>2, <3>1, Zenon DEF read_request
    <3>3. ~Measured(a)
      BY <1>2, <1>10, <2>4 DEF IPV4, IPV6, DOMAIN_NAME
    <3> QED
      BY <3>2, <3>3, Zenon DEF f, b
  <2> QED
    BY <2>3, <2>4, Zenon
<1> QED
  BY <1>4, <1>7, <1>8, <1>9, <1>10

(* A reader of credentials stops at these lengths only: the name comes in  *)
(* one piece.                                                              *)
Boundary(b) == Len(b) <= 2 \/ Len(b) >= 2 + b[2]

(* With m bytes of the frame f at hand, a party in a stage asks for bytes  *)
(* of f only, is done with its last byte and not before, or gives up.      *)
Pace(p, stage, f, m) ==
    LET w == Asks(p, stage, SubSeq(f, 1, m))
    IN  \/ w = Refused
        \/ w \in 1 .. Len(f) /\ m <= w /\ (w = m => m = Len(f))

Paces(p, stage, f) ==
    /\ f \in Seq(Byte) /\ Len(f) > 0
    /\ \A m \in 0 .. Len(f) :
          (stage = "credentials" => Boundary(SubSeq(f, 1, m))) => Pace(p, stage, f, m)

(* It never gives up on the frame.                                         *)
Sure(p, stage, f) ==
    \A m \in 0 .. Len(f) :
        (stage = "credentials" => Boundary(SubSeq(f, 1, m)))
            => Asks(p, stage, SubSeq(f, 1, m)) # Refused

(* read_request reads requests.                                            *)
LEMMA RequestPaces ==
    ASSUME NEW a \in ClientAddr, NEW command \in Byte, NEW rsv \in Byte, NEW p
    PROVE  /\ Paces(p, "request", RequestBytes(command, rsv, a))
           /\ Proper(a) => Sure(p, "request", RequestBytes(command, rsv, a))
<1> DEFINE f == RequestBytes(command, rsv, a)
<1>1. Laid(f, command, rsv, a)
  BY Layout, Zenon
<1>2. ASSUME NEW m \in 0 .. Len(f)
      PROVE  LET wanted == read_request(SubSeq(f, 1, m))
             IN  \/ wanted = Refused /\ ~Measured(a)
                 \/ /\ wanted \in 1 .. Len(f)
                    /\ m < Len(f) => wanted > m
                    /\ m = Len(f) => wanted = m
  BY RequestFraming, Zenon
<1> HIDE DEF f
<1>3. f \in Seq(Byte) /\ Len(f) \in Nat /\ Len(f) > 0
  <2>1. Len(a.host) \in Nat /\ Len(f) = Before(a) + Len(a.host) + 2 /\ f \in Seq(Byte)
    BY <1>1, Zenon DEF Laid
  <2>2. Before(a) \in {4, 5}
    BY Zenon DEF Before
  <2> QED
    BY <2>1, <2>2
<1>4. ASSUME NEW m \in 0 .. Len(f)
      PROVE  /\ Pace(p, "request", f, m)
             /\ Proper(a) => Asks(p, "request", SubSeq(f, 1, m)) # Refused
  <2> DEFINE w == read_request(SubSeq(f, 1, m))
  <2>1. Asks(p, "request", SubSeq(f, 1, m)) = w
    BY Zenon DEF Asks
  <2>2. \/ w = Refused /\ ~Measured(a)
        \/ w \in 1 .. Len(f) /\ (m < Len(f) => w > m) /\ (m = Len(f) => w = m)
    BY <1>2, Zenon
  <2>3. Proper(a) => Measured(a)
    <3>1. \A j \in 1 .. 255 : j > 0
      OBVIOUS
    <3>2. a.atyp = IPV4 \/ a.atyp = IPV6 => a.atyp \in {IPV4, IPV6}
      BY Zenon
    <3> QED
      BY <3>1, <3>2, Zenon DEF Proper, Measured
  <2> HIDE DEF w
  <2>4. \/ w = Refused
        \/ w \in 1 .. Len(f) /\ m <= w /\ (w = m => m = Len(f))
    BY <1>3, <2>2
  <2>5. Proper(a) => w # Refused
    BY <1>3, <2>2, <2>3 DEF Refused
  <2> QED
    BY <2>1, <2>4, <2>5, Zenon DEF Pace
<1> QED
  BY <1>3, <1>4, Zenon DEF Paces, Sure, f

(* A greeting as ClientGreeting::to_bytes writes it.                       *)
LEMMA GreetingLayout ==
    ASSUME NEW v \in Byte, NEW ms \in Text
    PROVE  LET f == GreetingBytes(v, ms)
           IN  /\ ms \in Seq(Byte) /\ Len(ms) \in Nat
               /\ f \in Seq(Byte) /\ Len(f) = 2 + Len(ms)
               /\ f[1] = v /\ f[2] = Len(ms)
               /\ \A i \in 1 .. Len(ms) : f[2 + i] = ms[i]
<1> DEFINE head == <<v, Len(ms)>>
<1>1. ms \in Seq(Byte) /\ Len(ms) \in Nat /\ Len(ms) < 256
  BY DEF Text
<1>2. Len(ms) \in Byte
  BY <1>1, Zenon DEF Byte
<1>3. head \in Seq(Byte) /\ Len(head) = 2 /\ head[1] = v /\ head[2] = Len(ms)
  BY <1>2
<1> HIDE DEF head
<1> DEFINE f == head \o ms
<1>4. /\ f \in Seq(Byte) /\ Len(f) = Len(head) + Len(ms)
      /\ \A i \in 1 .. Len(head) : f[i] = head[i]
      /\ \A i \in 1 .. Len(ms) : f[Len(head) + i] = ms[i]
  BY <1>1, <1>3, Joined, Zenon
<1>5. f = GreetingBytes(v, ms)
  BY Zenon DEF GreetingBytes, head
<1> HIDE DEF f
<1>6. /\ ms \in Seq(Byte) /\ Len(ms) \in Nat
      /\ f \in Seq(Byte) /\ Len(f) = 2 + Len(ms)
      /\ f[1] = v /\ f[2] = Len(ms)
      /\ \A i \in 1 .. Len(ms) : f[2 + i] = ms[i]
  BY <1>1, <1>3, <1>4
<1> QED
  BY <1>5, <1>6, Zenon

(* read_greeting reads greetings, and the parser finds the methods.        *)
LEMMA GreetingPaces ==
    ASSUME NEW v \in Byte, NEW ms \in Text, NEW p
    PROVE  /\ Paces(p, "greeting", GreetingBytes(v, ms))
           /\ ms # <<>> => Sure(p, "greeting", GreetingBytes(v, ms))
           /\ ParseGreeting(GreetingBytes(v, ms)) =
                 IF v = VERSION /\ ms # <<>> THEN {ms} ELSE Bad
<1> DEFINE f == GreetingBytes(v, ms)
           n == Len(ms)
<1>1. /\ ms \in Seq(Byte) /\ n \in Nat
      /\ f \in Seq(Byte) /\ Len(f) = 2 + n /\ f[1] = v /\ f[2] = n
      /\ \A i \in 1 .. n : f[2 + i] = ms[i]
  BY GreetingLayout, Zenon
<1>2. ms # <<>> <=> n > 0
  BY <1>1
<1> HIDE DEF f, n
<1>3. ASSUME NEW m \in 0 .. Len(f)
      PROVE  /\ Pace(p, "greeting", f, m)
             /\ ms # <<>> => Asks(p, "greeting", SubSeq(f, 1, m)) # Refused
  <2> DEFINE b == SubSeq(f, 1, m)
             w == read_greeting(b)
  <2>1. Asks(p, "greeting", b) = w
    BY Zenon DEF Asks
  <2>2. Len(b) = m /\ (m >= 2 => b[2] = n)
    BY <1>1, Prefix
  <2> HIDE DEF b
  <2>3. w = IF m < 2 THEN 2 ELSE IF n = 0 THEN Refused ELSE 2 + n
    BY <1>1, <2>2 DEF read_greeting
  <2> HIDE DEF w
  <2>4. \/ w = Refused /\ ~(n > 0)
        \/ w # Refused /\ w \in 1 .. Len(f) /\ m <= w /\ (w = m => m = Len(f))
    BY <1>1, <2>3 DEF Refused
  <2> QED
    BY <1>2, <2>1, <2>4, Zenon DEF Pace, b
<1>4. ParseGreeting(f) = IF v = VERSION /\ ms # <<>> THEN {ms} ELSE Bad
  <2>1. Has(f, 1, 2) /\ Has(f, 3, n)
    BY <1>1 DEF Has
  <2>2. Piece(f, 2 + 1, Len(ms)) = ms
    BY <1>1, Slice DEF n
  <2>3. Piece(f, 3, n) = ms
    BY <2>2 DEF n
  <2> QED
    BY <1>1, <1>2, <2>1, <2>3, Zenon DEF ParseGreeting
<1>5. Len(f) > 0
  BY <1>1
<1> QED
  BY <1>1, <1>3, <1>4, <1>5, Zenon DEF Paces, Sure, f

(* Credentials as UsernamePassword::to_bytes writes them.                  *)
LEMMA CredentialLayout ==
    ASSUME NEW u \in Text, NEW w \in Text
    PROVE  LET f == CredentialBytes(u, w)
           IN  /\ u \in Seq(Byte) /\ w \in Seq(Byte) /\ Len(u) \in Nat /\ Len(w) \in Nat
               /\ f \in Seq(Byte) /\ Len(f) = 3 + Len(u) + Len(w)
               /\ f[1] = AUTH_VERSION /\ f[2] = Len(u) /\ f[3 + Len(u)] = Len(w)
               /\ \A i \in 1 .. Len(u) : f[2 + i] = u[i]
               /\ \A i \in 1 .. Len(w) : f[3 + Len(u) + i] = w[i]
<1> DEFINE n == Len(u)
           k == Len(w)
           head == <<AUTH_VERSION, Len(u) % 256>>
           size == <<Len(w) % 256>>
<1>1. /\ u \in Seq(Byte) /\ w \in Seq(Byte)
      /\ n \in Nat /\ n < 256 /\ k \in Nat /\ k < 256
  BY DEF Text
<1>2. \A j \in Nat : j < 256 => j % 256 = j /\ j \in Byte
  BY DEF Byte
<1>3. n % 256 = n /\ n \in Byte /\ k % 256 = k /\ k \in Byte
  BY <1>1, <1>2, Zenon
<1>4. head = <<AUTH_VERSION, n>> /\ size = <<k>>
  BY <1>3, Zenon
<1>5. AUTH_VERSION \in Byte
  BY DEF AUTH_VERSION, Byte
<1> HIDE DEF n, k
<1>6. /\ <<AUTH_VERSION, n>> \in Seq(Byte) /\ Len(<<AUTH_VERSION, n>>) = 2
      /\ <<k>> \in Seq(Byte) /\ Len(<<k>>) = 1
  BY <1>3, <1>5
<1>7. /\ head \in Seq(Byte) /\ Len(head) = 2 /\ head[1] = AUTH_VERSION /\ head[2] = n
      /\ size \in Seq(Byte) /\ Len(size) = 1 /\ size[1] = k
  BY <1>4, <1>6, Zenon
<1> HIDE DEF head, size
<1> DEFINE a == head \o u
           b == a \o size
           f == b \o w
<1>8. CredentialBytes(u, w) = f
  BY <1>1, <1>7, Zenon DEF CredentialBytes, head, size
<1>9. /\ a \in Seq(Byte) /\ Len(a) = 2 + n
      /\ a[1] = AUTH_VERSION /\ a[2] = n
      /\ \A i \in 1 .. n : a[2 + i] = u[i]
  <2>1. /\ a \in Seq(Byte) /\ Len(a) = Len(head) + Len(u)
        /\ \A i \in 1 .. Len(head) : a[i] = head[i]
        /\ \A i \in 1 .. Len(u) : a[Len(head) + i] = u[i]
    BY <1>1, <1>7, Joined, Zenon
  <2>2. Len(u) = n
    BY Zenon DEF n
  <2> QED
    BY <1>1, <1>7, <2>1, <2>2
<1> HIDE DEF a
<1>10. /\ b \in Seq(Byte) /\ Len(b) = 3 + n
       /\ \A i \in 1 .. 2 + n : b[i] = a[i]
       /\ b[3 + n] = k
  <2>1. /\ b \in Seq(Byte) /\ Len(b) = Len(a) + Len(size)
        /\ \A i \in 1 .. Len(a) : b[i] = a[i]
        /\ \A i \in 1 .. Len(size) : b[Len(a) + i] = size[i]
    BY <1>7, <1>9, Joined, Zenon
  <2>2. 1 \in 1 .. Len(size) /\ Len(a) + 1 = 3 + n
    BY <1>1, <1>7, <1>9
  <2>3. b[Len(a) + 1] = size[1]
    BY <2>1, <2>2, Zenon
  <2> QED
    BY <1>1, <1>7, <1>9, <2>1, <2>2, <2>3, Zenon
<1> HIDE DEF b
<1>11. /\ f \in Seq(Byte) /\ Len(f) = 3 + n + k
       /\ \A i \in 1 .. 3 + n : f[i] = b[i]
       /\ \A i \in 1 .. k : f[3 + n + i] = w[i]
  <2>1. /\ f \in Seq(Byte) /\ Len(f) = Len(b) + Len(w)
        /\ \A i \in 1 .. Len(b) : f[i] = b[i]
        /\ \A i \in 1 .. Len(w) : f[Len(b) + i] = w[i]
    BY <1>1, <1>10, Joined, Zenon
  <2>2. Len(w) = k
    BY Zenon DEF k
  <2> QED
    BY <1>1, <1>10, <2>1, <2>2, Zenon
<1> HIDE DEF f
<1>12. ASSUME NEW i \in 1 .. 2 + n PROVE f[i] = a[i]
  <2>1. i \in 1 .. 3 + n
    BY <1>1
  <2> QED
    BY <2>1, <1>10, <1>11, Zenon
<1>13. 1 \in 1 .. 2 + n /\ 2 \in 1 .. 2 + n /\ 3 + n \in 1 .. 3 + n
  BY <1>1
<1>14. f[1] = AUTH_VERSION /\ f[2] = n /\ f[3 + n] = k
  BY <1>9, <1>10, <1>11, <1>12, <1>13, Zenon
<1>15. ASSUME NEW i \in 1 .. n PROVE f[2 + i] = u[i]
  <2>1. 2 + i \in 1 .. 2 + n
    BY <1>1
  <2>2. f[2 + i] = a[2 + i]
    BY <1>12, <2>1, Zenon
  <2> QED
    BY <2>2, <1>9, Zenon
<1>16. /\ u \in Seq(Byte) /\ w \in Seq(Byte) /\ n \in Nat /\ k \in Nat
       /\ f \in Seq(Byte) /\ Len(f) = 3 + n + k
       /\ f[1] = AUTH_VERSION /\ f[2] = n /\ f[3 + n] = k
       /\ \A i \in 1 .. n : f[2 + i] = u[i]
       /\ \A i \in 1 .. k : f[3 + n + i] = w[i]
  BY <1>1, <1>11, <1>14, <1>15, Zenon
<1> QED
  BY <1>8, <1>16, Zenon DEF n, k

(* handle_user_pass_auth reads credentials with a name in them and finds   *)
(* both texts.                                                             *)
LEMMA CredentialPaces ==
    ASSUME NEW u \in Text, NEW w \in Text, u # <<>>, NEW p
    PROVE  /\ Paces(p, "credentials", CredentialBytes(u, w))
           /\ Sure(p, "credentials", CredentialBytes(u, w))
           /\ TakeCredentials(CredentialBytes(u, w)) =
                 IF from_utf8(u) /\ from_utf8(w)
                 THEN {[user |-> u, password |-> w]} ELSE Bad
<1> DEFINE f == CredentialBytes(u, w)
           n == Len(u)
           k == Len(w)
<1>1. /\ u \in Seq(Byte) /\ w \in Seq(Byte) /\ n \in Nat /\ k \in Nat
      /\ f \in Seq(Byte) /\ Len(f) = 3 + n + k
      /\ f[1] = AUTH_VERSION /\ f[2] = n /\ f[3 + n] = k
      /\ \A i \in 1 .. n : f[2 + i] = u[i]
      /\ \A i \in 1 .. k : f[3 + n + i] = w[i]
  BY CredentialLayout, Zenon
<1>2. n > 0
  BY <1>1
<1> HIDE DEF f, n, k
<1>3. ASSUME NEW m \in 0 .. Len(f), Boundary(SubSeq(f, 1, m))
      PROVE  /\ Pace(p, "credentials", f, m)
             /\ Asks(p, "credentials", SubSeq(f, 1, m)) # Refused
  <2> DEFINE b == SubSeq(f, 1, m)
             v == handle_user_pass_auth(b)
  <2>1. Asks(p, "credentials", b) = v
    BY Zenon DEF Asks
  <2>2. /\ b \in Seq(Byte) /\ Len(b) = m
        /\ \A i \in 1 .. m : b[i] = f[i]
    BY <1>1, Prefix, Zenon
  <2>3. m <= 2 \/ m >= 2 + b[2]
    BY <1>3, <2>2, Zenon DEF Boundary
  <2> HIDE DEF b
  <2>4. /\ m >= 1 => b[1] = AUTH_VERSION
        /\ m >= 2 => b[2] = n
        /\ m >= 3 + n => b[3 + n] = k
    BY <1>1, <2>2
  <2>5. CASE m = 0
    <3>1. v = 1
      BY <2>2, <2>5 DEF handle_user_pass_auth
    <3> QED
      BY <1>1, <2>1, <2>5, <3>1 DEF Pace, b, Refused
  <2>6. CASE m = 1
    <3>1. v = 2
      BY <2>2, <2>4, <2>6 DEF handle_user_pass_auth
    <3> QED
      BY <1>1, <2>1, <2>6, <3>1 DEF Pace, b, Refused
  <2>7. CASE m = 2
    <3>0. b # <<>> /\ Len(b) = 2
      <4>1. Len(b) = 2
        BY <2>2, <2>7, Zenon
      <4>2. Len(<<>>) # 2
        OBVIOUS
      <4> QED
        BY <4>1, <4>2, Zenon
    <3>1. b[1] = AUTH_VERSION /\ b[2] = n /\ n # 0
      BY <1>1, <1>2, <2>4, <2>7
    <3>2. v = 2 + n
      BY <3>0, <3>1 DEF handle_user_pass_auth
    <3> QED
      BY <1>1, <1>2, <2>1, <2>7, <3>2 DEF Pace, b, Refused
  <2>8. CASE m > 2
    <3>1. m >= 2 + n /\ b # <<>> /\ b[1] = AUTH_VERSION /\ b[2] = n
      BY <2>2, <2>3, <2>4, <2>8
    <3>2. v = IF m = 2 + n THEN 3 + n ELSE 3 + n + k
      <4>1. m # 2 + n => b[3 + n] = k
        BY <1>1, <2>4, <3>1
      <4> QED
        BY <1>1, <1>2, <2>2, <2>8, <3>1, <4>1 DEF handle_user_pass_auth
    <3> HIDE DEF v
    <3> QED
      BY <1>1, <1>2, <2>1, <2>8, <3>1, <3>2 DEF Pace, b, Refused
  <2> QED
    BY <2>5, <2>6, <2>7, <2>8, <1>1
<1>4. TakeCredentials(f) = IF from_utf8(u) /\ from_utf8(w)
                           THEN {[user |-> u, password |-> w]} ELSE Bad
  <2>0. /\ 2 \in Nat /\ 2 + Len(u) <= Len(f) /\ \A j \in 1 .. Len(u) : f[2 + j] = u[j]
        /\ 3 + n \in Nat /\ 3 + n + Len(w) <= Len(f)
        /\ \A j \in 1 .. Len(w) : f[3 + n + j] = w[j]
    BY <1>1 DEF n, k
  <2>1. Piece(f, 2 + 1, Len(u)) = u
    BY <1>1, <2>0, Slice, Zenon
  <2>2. Piece(f, 3 + n + 1, Len(w)) = w
    BY <1>1, <2>0, Slice, Zenon
  <2>3. Piece(f, 3, f[2]) = u
    BY <1>1, <2>1 DEF n
  <2>4. 3 + n + 1 = 4 + n
    BY <1>1
  <2>5. Piece(f, 4 + f[2], f[3 + f[2]]) = w
    BY <1>1, <2>2, <2>4, Zenon DEF k
  <2> QED
    BY <2>3, <2>5, Zenon DEF TakeCredentials
<1>5. Len(f) > 0
  BY <1>1
<1> QED
  BY <1>1, <1>3, <1>4, <1>5, Zenon DEF Paces, Sure, f

(* A request that comes in place of credentials is given up at its first   *)
(* byte.                                                                   *)
LEMMA RequestForCredentials ==
    ASSUME NEW a \in ClientAddr, NEW command \in Byte, NEW rsv \in Byte, NEW p
    PROVE  LET f == RequestBytes(command, rsv, a)
           IN  /\ Paces(p, "credentials", f)
               /\ handle_user_pass_auth(f) = Refused
<1> DEFINE f == RequestBytes(command, rsv, a)
<1>1. f \in Seq(Byte) /\ Len(f) \in Nat /\ Len(f) > 0
  BY RequestPaces DEF Paces
<1>2. f[1] = VERSION
  BY Layout DEF Laid
<1> HIDE DEF f
<1>3. ASSUME NEW b \in Seq(Byte), Len(b) > 0, b[1] = VERSION
      PROVE  handle_user_pass_auth(b) = Refused
  BY <1>3 DEF handle_user_pass_auth, VERSION, AUTH_VERSION
<1>4. ASSUME NEW m \in 0 .. Len(f) PROVE Pace(p, "credentials", f, m)
  <2> DEFINE b == SubSeq(f, 1, m)
  <2>1. Asks(p, "credentials", b) = handle_user_pass_auth(b)
    BY Zenon DEF Asks
  <2>2. b \in Seq(Byte) /\ Len(b) = m /\ \A i \in 1 .. m : b[i] = f[i]
    BY <1>1, Prefix, Zenon
  <2> HIDE DEF b
  <2>3. CASE m = 0
    <3>1. handle_user_pass_auth(b) = 1
      BY <2>2, <2>3 DEF handle_user_pass_auth
    <3> QED
      BY <1>1, <2>1, <2>3, <3>1 DEF Pace, b
  <2>4. CASE m > 0
    <3>1. b[1] = VERSION /\ Len(b) > 0
      BY <1>2, <2>2, <2>4
    <3>2. handle_user_pass_auth(b) = Refused
      BY <1>3, <2>2, <3>1, Zenon
    <3> QED
      BY <2>1, <3>2, Zenon DEF Pace, b
  <2> QED
    BY <2>3, <2>4
<1>5. Paces(p, "credentials", f)
  BY <1>1, <1>4, Zenon DEF Paces
<1>6. handle_user_pass_auth(f) = Refused
  BY <1>1, <1>2, <1>3, Zenon
<1> QED
  BY <1>5, <1>6, Zenon DEF f

(* The two bytes that answer a greeting or credentials.                    *)
LEMMA ShortPaces ==
    ASSUME NEW x \in Byte, NEW y \in Byte, NEW p, NEW stage \in {"method", "status"}
    PROVE  /\ Paces(p, stage, <<x, y>>) /\ Sure(p, stage, <<x, y>>)
           /\ <<x, y>>[2] = y
<1> DEFINE f == <<x, y>>
<1>1. f \in Seq(Byte) /\ Len(f) = 2 /\ f[2] = y
  OBVIOUS
<1> HIDE DEF f
<1>2. ASSUME NEW m \in 0 .. Len(f)
      PROVE  Pace(p, stage, f, m) /\ Asks(p, stage, SubSeq(f, 1, m)) # Refused
  <2>1. Asks(p, stage, SubSeq(f, 1, m)) = 2
    BY Zenon DEF Asks
  <2> QED
    BY <1>1, <2>1 DEF Pace, Refused
<1> QED
  BY <1>1, <1>2 DEF Paces, Sure, f

(* The address in replies, 0.0.0.0:0, is one.                              *)
LEMMA AnyAddr == Unspecified \in ClientAddr /\ Proper(Unspecified)
<1>1. 0 \in Byte /\ IPV4 \in Byte /\ 0 \in Port
  BY DEF IPV4, Byte, Port
<1>2. <<0, 0, 0, 0>> \in Seq(Byte) /\ Len(<<0, 0, 0, 0>>) = 4
  BY <1>1
<1>3. Unspecified \in [atyp : Byte, host : Seq(Byte), port : Port]
  BY <1>1, <1>2, Zenon DEF Unspecified
<1> QED
  BY <1>2, <1>3 DEF ClientAddr, Fits, Proper, Unspecified, IPV4, IPV6, DOMAIN_NAME

(* Reply::to_bytes, for the replies that the code sends.                   *)
LEMMA ReplyLayout ==
    ASSUME NEW code \in Byte
    PROVE  LET f == simple_reply(code)
           IN  /\ Laid(f, code, 0, Unspecified)
               /\ f \in Seq(Byte) /\ Len(f) = 10
               /\ f[1] = VERSION /\ f[2] = code /\ f[4] = IPV4
<1> DEFINE a == Unspecified
           f == simple_reply(code)
<1>1. /\ a.atyp = IPV4 /\ a.host = <<0, 0, 0, 0>> /\ a.port = 0
      /\ a = [atyp |-> IPV4, host |-> <<0, 0, 0, 0>>, port |-> 0]
  BY Zenon DEF Unspecified
<1>2. Len(a.host) = 4
  BY <1>1, Zenon
<1>3. a \in ClientAddr
  BY AnyAddr, Zenon
<1>4. 0 \in Byte
  BY DEF Byte
<1>5. f = RequestBytes(code, 0, a)
  BY Zenon DEF simple_reply, RequestBytes
<1>6. Laid(f, code, 0, a)
  BY <1>3, <1>4, <1>5, Layout, Zenon
<1>7. Before(a) = 4
  BY <1>1 DEF Before, IPV4, DOMAIN_NAME
<1> HIDE DEF f, a
<1>8. f \in Seq(Byte) /\ Len(f) = 10 /\ f[1] = VERSION /\ f[2] = code /\ f[4] = IPV4
  <2>1. /\ f \in Seq(Byte) /\ Len(f) = Before(a) + Len(a.host) + 2
        /\ f[1] = VERSION /\ f[2] = code /\ f[4] = a.atyp
    BY <1>6, Zenon DEF Laid
  <2> QED
    BY <1>1, <1>2, <1>7, <2>1
<1> QED
  BY <1>6, <1>8, Zenon DEF f, a

(* Both readers of a reply stop at its last byte, and Reply::parse finds   *)
(* the code.                                                               *)
LEMMA ReplyPaces ==
    ASSUME NEW code \in Byte, NEW p
    PROVE  LET f == simple_reply(code)
           IN  /\ Paces(p, "reply", f) /\ Sure(p, "reply", f) /\ f[2] = code
               /\ ParseReply(f) = {[code |-> f[2], bind_addr |-> Unspecified]}
<1> DEFINE f == simple_reply(code)
<1>1. /\ f \in Seq(Byte) /\ Len(f) = 10
      /\ f[1] = VERSION /\ f[2] = code /\ f[4] = IPV4
      /\ Laid(f, code, 0, Unspecified)
  BY ReplyLayout, Zenon
<1> HIDE DEF f
<1>2. ASSUME NEW m \in 0 .. Len(f)
      PROVE  Pace(p, "reply", f, m) /\ Asks(p, "reply", SubSeq(f, 1, m)) # Refused
  <2> DEFINE b == SubSeq(f, 1, m)
             w == Asks(p, "reply", b)
  <2>1. w = IF p = "client" THEN 10 ELSE read_reply(b)
    BY Zenon DEF Asks
  <2>2. Len(b) = m /\ \A i \in 1 .. m : b[i] = f[i]
    BY <1>1, Prefix, Zenon
  <2> HIDE DEF b
  <2>3. addr_len(IPV4, 0) = 6
    BY DEF addr_len, IPV4, IPV6, DOMAIN_NAME
  <2>4. read_reply(b) = IF m < 4 THEN 4 ELSE 10
    <3>1. m >= 4 => b[1] = VERSION /\ b[4] = IPV4
      BY <1>1, <2>2
    <3> QED
      BY <1>1, <2>2, <2>3, <3>1 DEF read_reply, IPV4, DOMAIN_NAME
  <2> HIDE DEF w
  <2>5. w \in {4, 10} /\ m <= w /\ (w = m => m = 10)
    BY <1>1, <2>1, <2>4
  <2> QED
    BY <1>1, <2>5 DEF Pace, Refused, b, w
<1>3. ParseReply(f) = {[code |-> f[2], bind_addr |-> Unspecified]}
  <2>1. ParseAddr(f) = {Unspecified}
    BY <1>1, AnyAddr, AddrRoundTrip, Zenon
  <2>2. Has(f, 1, 4)
    BY <1>1 DEF Has
  <2> QED
    BY <1>1, <2>1, <2>2 DEF ParseReply, IPV4, DOMAIN_NAME
<1>4. Len(f) > 0
  BY <1>1
<1> QED
  BY <1>1, <1>2, <1>3, <1>4, Zenon DEF Paces, Sure, f

-----------------------------------------------------------------------------
(* The inductive invariant.                                                *)

(* The method that the gateway can agree to, and how many frames it sends  *)
(* a client that gets through.                                             *)
Offer == IF auth THEN USER_PASS ELSE NO_AUTH
Offered == Offer \in {client.methods[i] : i \in DOMAIN client.methods}
Rounds == IF auth THEN 3 ELSE 2
Cred == [user |-> client.user, password |-> client.password]

(* How many frames a stream carries at most, and which: the client's       *)
(* script, and the answers that the policy calls for.                      *)
Cap(s) == CASE s = "cg" -> Len(Script) [] s = "gc" -> Rounds [] OTHER -> 2

Answer(k) ==
    IF k = 1 THEN {MethodBytes(IF Offered THEN Offer ELSE NO_ACCEPTABLE)}
    ELSE IF k = 2 /\ auth THEN {auth_reply_bytes(Cred = Expected)}
    ELSE {simple_reply(SUCCESS), simple_reply(COMMAND_NOT_SUPPORTED)}

Expect(s, k) ==
    CASE s = "cg" -> {Script[k]}
      [] s = "gc" -> Answer(k)
      [] s = "gn" -> IF k = 1 THEN {GreetingBytes(VERSION, <<NO_AUTH>>)}
                     ELSE {RequestBytes(CONNECT, 0, client.addr)}
      [] OTHER -> IF k = 1 THEN {MethodBytes(NO_AUTH)}
                  ELSE {simple_reply(code) : code \in 0 .. 255}

(* The k-th frame on a stream is f.                                        *)
HoldsAt(s, k, f) ==
    /\ ends[s][k] = End(s, k - 1) + Len(f) /\ ends[s][k] <= Len(written[s])
    /\ \A i \in 1 .. Len(f) : written[s][End(s, k - 1) + i] = f[i]

(* What is written is frames; data follows only the last one.              *)
Framed(s) ==
    /\ Len(ends[s]) <= Cap(s)
    /\ \A k \in 1 .. Len(ends[s]) : \E f \in Expect(s, k) : HoldsAt(s, k, f)
    /\ Len(ends[s]) < Cap(s) => Len(written[s]) = End(s, Len(ends[s]))

(* What a reader has begins where the last accepted frame ends ...         *)
Placed(s) ==
    /\ buf[s] = SubSeq(written[s], End(s, taken[s]) + 1, pos[s])
    /\ pos[s] = End(s, taken[s]) + Len(buf[s])

(* ... and does not go beyond the next one, but where a gateway that has   *)
(* no use for credentials gets some.                                       *)
Exempt(s) == s = "cg" /\ HasCredentials /\ ~auth /\ taken[s] = 1

Within(s) ==
    buf[s] # <<>> /\ ~Exempt(s) => /\ taken[s] < Len(ends[s])
                                   /\ pos[s] <= End(s, taken[s] + 1)

StreamType(s) ==
    /\ written[s] \in Seq(Byte) /\ ends[s] \in Seq(Nat) /\ buf[s] \in Seq(Byte)
    /\ arrived[s] \in Nat /\ pos[s] \in Nat /\ taken[s] \in Nat
    /\ taken[s] <= Len(ends[s])
    /\ pos[s] <= arrived[s] /\ arrived[s] <= Len(written[s])

StreamOK(s) == StreamType(s) /\ Framed(s) /\ Placed(s) /\ Within(s)

(* The second byte of a frame: a method, a status or a code.               *)
Code(s, k) == written[s][End(s, k - 1) + 2]

(* The gateway knows what it has read and what it has answered.            *)
GatewayInv ==
    LET g == at["gateway"]
    IN  /\ g \in {"greeting", "credentials", "request", "method", "reply", "relay", "failed"}
        /\ g = "greeting" => taken["cg"] = 0 /\ Len(ends["gc"]) = 0
        /\ g = "credentials" => /\ auth /\ taken["cg"] = 1 /\ Len(ends["gc"]) = 1
                                /\ Boundary(buf["cg"])
        /\ g = "request" => /\ taken["cg"] = Rounds - 1 /\ Len(ends["gc"]) = Rounds - 1
                            /\ auth => HasCredentials /\ Cred = Expected
        /\ g \notin {"greeting", "failed"} => client.ver = VERSION /\ Offered
        /\ g \in {"greeting", "credentials", "request"} =>
              Len(ends["gn"]) = 0 /\ taken["ng"] = 0
        /\ g = "method" => Len(ends["gn"]) = 1 /\ taken["ng"] = 0
        /\ g = "reply" => Len(ends["gn"]) = 2 /\ taken["ng"] = 1
        /\ g \in {"method", "reply"} => Len(ends["gc"]) = Rounds - 1
        /\ g \in {"method", "reply", "relay"} => Welcome
        /\ Len(ends["gn"]) > 0 => Welcome
        /\ request \subseteq {[command |-> client.command, addr |-> client.addr]}
        /\ Len(ends["gc"]) = Rounds =>
              /\ g \in {"relay", "failed"}
              /\ Code("gc", Rounds) = SUCCESS <=> g = "relay"

(* So does the node ...                                                    *)
NodeInv ==
    LET n == at["node"]
    IN  /\ n \in {"off", "greeting", "request", "relay", "failed"}
        /\ n \in {"off", "greeting"} => taken["gn"] = 0 /\ Len(ends["ng"]) = 0
        /\ n = "request" => taken["gn"] = 1 /\ Len(ends["ng"]) = 1
        /\ n # "off" => Len(ends["gn"]) > 0
        /\ dialled \subseteq {client.addr}
        /\ Len(ends["ng"]) = 2 => /\ n \in {"relay", "failed"}
                                  /\ Code("ng", 2) = SUCCESS <=> n = "relay"

(* ... and the client.                                                     *)
ClientInv ==
    LET c == at["client"]
    IN  /\ c \in {"method", "status", "reply", "relay", "failed"}
        /\ c = "method" => taken["gc"] = 0
        /\ c = "status" => taken["gc"] = 1 /\ auth /\ HasCredentials
        /\ c = "reply" => taken["gc"] = Rounds - 1 /\ auth = HasCredentials

HandshakeInv ==
    /\ TypeOK
    /\ \A s \in Streams : StreamOK(s)
    /\ GatewayInv /\ NodeInv /\ ClientInv /\ RightVerdict

-----------------------------------------------------------------------------
(* What the streams are to carry.                                          *)

(* A client of the assumption, field by field.                             *)
LEMMA ClientParts ==
    ASSUME client \in Clients
    PROVE  /\ client.ver \in Byte /\ client.methods \in Text
           /\ client.user \in Text /\ client.password \in Text
           /\ client.command \in Byte /\ client.rsv \in Byte
           /\ client.addr \in ClientAddr
BY ClientsAssumption, Zenon

(* Three frames in a row.                                                  *)
LEMMA Three ==
    ASSUME NEW a, NEW b, NEW c
    PROVE  /\ Len(<<a>> \o <<b>> \o <<c>>) = 3 /\ (<<a>> \o <<b>> \o <<c>>)[1] = a
           /\ (<<a>> \o <<b>> \o <<c>>)[2] = b /\ (<<a>> \o <<b>> \o <<c>>)[3] = c
OBVIOUS

(* The frames of the client, in order.                                     *)
LEMMA ScriptIs ==
    /\ Len(Script) = IF HasCredentials THEN 3 ELSE 2
    /\ Script[1] = GreetingBytes(client.ver, client.methods)
    /\ HasCredentials => Script[2] = CredentialBytes(client.user, client.password)
    /\ Script[Len(Script)] = RequestBytes(client.command, client.rsv, client.addr)
<1> DEFINE g == GreetingBytes(client.ver, client.methods)
           c == CredentialBytes(client.user, client.password)
           r == RequestBytes(client.command, client.rsv, client.addr)
<1>1. CASE HasCredentials
  <2>1. Script = <<g>> \o <<c>> \o <<r>>
    BY <1>1, Zenon DEF Script
  <2> HIDE DEF g, c, r
  <2>2. Len(Script) = 3 /\ Script[1] = g /\ Script[2] = c /\ Script[3] = r
    <3> DEFINE x == <<g>> \o <<c>> \o <<r>>
    <3>1. Len(x) = 3 /\ x[1] = g /\ x[2] = c /\ x[3] = r
      BY Three
    <3>2. Script = x
      BY <2>1, Zenon
    <3> HIDE DEF x
    <3> QED
      BY <3>1, <3>2, Zenon
  <2> QED
    BY <1>1, <2>2, Zenon DEF g, c, r
<1>2. CASE ~HasCredentials
  <2>1. Script = <<g>> \o <<>> \o <<r>>
    BY <1>2, Zenon DEF Script
  <2> HIDE DEF g, c, r
  <2>2. Len(Script) = 2 /\ Script[1] = g /\ Script[2] = r
    BY <2>1
  <2> QED
    BY <1>2, <2>2, Zenon DEF g, c, r
<1> QED
  BY <1>1, <1>2, Zenon

(* A stream carries two frames or three.                                   *)
LEMMA CapIs ==
    ASSUME NEW s \in Streams
    PROVE  Cap(s) \in {2, 3} /\ Cap(s) \in Nat
BY ScriptIs DEF Cap, Rounds

(* Every expected frame is some bytes, two at least.                       *)
LEMMA ExpectSeq ==
    ASSUME client \in Clients, auth \in BOOLEAN, NEW s \in Streams,
           NEW k \in 1 .. Cap(s), NEW f \in Expect(s, k)
    PROVE  f \in Seq(Byte) /\ Len(f) \in Nat /\ Len(f) >= 2
<1>1. /\ client.ver \in Byte /\ client.methods \in Text
      /\ client.user \in Text /\ client.password \in Text
      /\ client.command \in Byte /\ client.rsv \in Byte
      /\ client.addr \in ClientAddr
  BY ClientParts, Zenon
<1>2. ASSUME NEW c \in Byte, NEW r \in Byte, NEW g, g = RequestBytes(c, r, client.addr)
      PROVE  g \in Seq(Byte) /\ Len(g) \in Nat /\ Len(g) >= 2
  <2>0. Laid(g, c, r, client.addr)
    BY <1>1, <1>2, Layout, Zenon
  <2>1. Laid(g, c, r, client.addr) /\ Len(client.addr.host) \in Nat
    BY <1>1, <2>0, AddrParts, Zenon
  <2>2. g \in Seq(Byte) /\ Len(g) = Before(client.addr) + Len(client.addr.host) + 2
    BY <2>1, Zenon DEF Laid
  <2>3. Before(client.addr) \in {4, 5}
    BY Zenon DEF Before
  <2> QED
    BY <2>1, <2>2, <2>3
<1>3. ASSUME NEW v \in Byte, NEW ms \in Text, NEW g, g = GreetingBytes(v, ms)
      PROVE  g \in Seq(Byte) /\ Len(g) \in Nat /\ Len(g) >= 2
  BY <1>3, GreetingLayout
<1>4. ASSUME NEW c \in Byte, NEW g, g = simple_reply(c)
      PROVE  g \in Seq(Byte) /\ Len(g) \in Nat /\ Len(g) >= 2
  BY <1>4, ReplyLayout
<1>5. ASSUME NEW x \in Byte, NEW y \in Byte, NEW g, g = <<x, y>>
      PROVE  g \in Seq(Byte) /\ Len(g) \in Nat /\ Len(g) >= 2
  BY <1>5
<1>6. CASE s = "cg"
  <2>1. Cap(s) = Len(Script) /\ f = Script[k]
    BY <1>6, Zenon DEF Cap, Expect
  <2>2. \/ f = GreetingBytes(client.ver, client.methods)
        \/ f = CredentialBytes(client.user, client.password)
        \/ f = RequestBytes(client.command, client.rsv, client.addr)
    <3>1. k = 1 \/ (k = 2 /\ HasCredentials) \/ k = Len(Script)
      BY <2>1, ScriptIs
    <3> QED
      BY <2>1, <3>1, ScriptIs, Zenon
  <2>3. CASE f = CredentialBytes(client.user, client.password)
    <3>1. ASSUME NEW u \in Text, NEW w \in Text, NEW g, g = CredentialBytes(u, w)
          PROVE  g \in Seq(Byte) /\ Len(g) \in Nat /\ Len(g) >= 2
      BY <3>1, CredentialLayout
    <3> QED
      BY <1>1, <2>3, <3>1, Zenon
  <2> QED
    BY <1>1, <1>2, <1>3, <2>2, <2>3, Zenon
<1>7. CASE s = "gc"
  <2>1. f \in Answer(k)
    BY <1>7, Zenon DEF Expect
  <2>2. \/ \E x \in Byte, y \in Byte : f = <<x, y>>
        \/ \E c \in Byte : f = simple_reply(c)
    BY <2>1 DEF Answer, MethodBytes, auth_reply_bytes, Offer, USER_PASS, NO_AUTH,
                NO_ACCEPTABLE, VERSION, AUTH_VERSION, SUCCESS,
                COMMAND_NOT_SUPPORTED, Byte
  <2> QED
    BY <1>4, <1>5, <2>2, Zenon
<1>8. CASE s = "gn"
  <2>1. f \in {GreetingBytes(VERSION, <<NO_AUTH>>), RequestBytes(CONNECT, 0, client.addr)}
    BY <1>8, Zenon DEF Expect
  <2>2. VERSION \in Byte /\ CONNECT \in Byte /\ 0 \in Byte /\ NO_AUTH \in Byte
    BY DEF VERSION, CONNECT, NO_AUTH, Byte
  <2>3. <<NO_AUTH>> \in Text
    BY <2>2 DEF Text
  <2> QED
    BY <1>2, <1>3, <2>1, <2>2, <2>3, Zenon
<1>9. CASE s = "ng"
  <2>1. \/ \E x \in Byte, y \in Byte : f = <<x, y>>
        \/ \E c \in Byte : f = simple_reply(c)
    <3>1. VERSION \in Byte /\ NO_AUTH \in Byte /\ \A c \in 0 .. 255 : c \in Byte
      BY DEF VERSION, NO_AUTH, Byte
    <3>2. f = MethodBytes(NO_AUTH) \/ \E c \in 0 .. 255 : f = simple_reply(c)
      BY <1>9, Zenon DEF Expect
    <3> QED
      BY <3>1, <3>2, Zenon DEF MethodBytes
  <2> QED
    BY <1>4, <1>5, <2>1, Zenon
<1> QED
  BY <1>6, <1>7, <1>8, <1>9, Zenon DEF Streams

-----------------------------------------------------------------------------
(* The streams.                                                            *)

(* What one step may do to a stream.  The rest of it stays as it is.       *)
Stands(s) == /\ written'[s] = written[s] /\ ends'[s] = ends[s]
             /\ arrived'[s] = arrived[s] /\ pos'[s] = pos[s]
             /\ buf'[s] = buf[s] /\ taken'[s] = taken[s]

Delivers(s) == /\ written'[s] = written[s] /\ ends'[s] = ends[s]
               /\ arrived'[s] = arrived[s] + 1 /\ arrived'[s] <= Len(written[s])
               /\ pos'[s] = pos[s] /\ buf'[s] = buf[s] /\ taken'[s] = taken[s]

Grows(s, f, data) ==
    /\ written'[s] = written[s] \o (f \o data)
    /\ ends'[s] = Append(ends[s], Len(written[s]) + Len(f))
    /\ arrived'[s] = arrived[s] /\ pos'[s] = pos[s]
    /\ buf'[s] = buf[s] /\ taken'[s] = taken[s]

Reads(s, n) ==
    /\ written'[s] = written[s] /\ ends'[s] = ends[s] /\ taken'[s] = taken[s]
    /\ arrived'[s] = arrived[s] /\ n <= arrived[s] - pos[s]
    /\ buf'[s] = buf[s] \o Piece(written[s], pos[s] + 1, n)
    /\ pos'[s] = pos[s] + n

Turns(s) == /\ written'[s] = written[s] /\ ends'[s] = ends[s]
            /\ arrived'[s] = arrived[s] /\ pos'[s] = pos[s]
            /\ buf'[s] = <<>> /\ taken'[s] = taken[s] + 1

Steady == client' = client /\ auth' = auth

(* No step changes what the streams are to carry, nor the policy's view of *)
(* the client.                                                             *)
LEMMA SteadyFacts ==
    ASSUME Steady
    PROVE  /\ \A s, k : Expect(s, k)' = Expect(s, k)
           /\ \A s : Cap(s)' = Cap(s)
           /\ Rounds' = Rounds /\ Offered' = Offered /\ Welcome' = Welcome
           /\ HasCredentials' = HasCredentials /\ Cred' = Cred
<1> USE DEF Steady
<1>1. HasCredentials' = HasCredentials /\ Cred' = Cred /\ Rounds' = Rounds
  BY Zenon DEF HasCredentials, Cred, Rounds
<1>2. Offer' = Offer /\ Offered' = Offered
  BY Zenon DEF Offer, Offered
<1>3. Script' = Script
  BY <1>1, Zenon DEF Script
<1>4. Welcome' = Welcome
  BY <1>1, Zenon DEF Welcome
<1>5. ASSUME NEW k PROVE Answer(k)' = Answer(k)
  BY <1>1, <1>2, Zenon DEF Answer
<1>6. ASSUME NEW s, NEW k PROVE Expect(s, k)' = Expect(s, k)
  BY <1>3, <1>5, Zenon DEF Expect
<1>7. ASSUME NEW s PROVE Cap(s)' = Cap(s)
  BY <1>1, <1>3, Zenon DEF Cap
<1> QED
  BY <1>1, <1>2, <1>4, <1>6, <1>7, Zenon

(* Frames end inside of what is written.                                   *)
LEMMA EndsInside ==
    ASSUME NEW s, StreamType(s), Framed(s), NEW k \in 0 .. Len(ends[s])
    PROVE  End(s, k) \in Nat /\ End(s, k) <= Len(written[s])
<1>1. written[s] \in Seq(Byte) /\ ends[s] \in Seq(Nat)
  BY Zenon DEF StreamType
<1>2. CASE k = 0
  BY <1>1, <1>2 DEF End
<1>3. CASE k # 0
  <2>1. k \in 1 .. Len(ends[s])
    BY <1>1, <1>3
  <2>2. ends[s][k] <= Len(written[s])
    BY <2>1, Zenon DEF Framed, HoldsAt
  <2>3. ends[s][k] \in Nat
    BY <1>1, <2>1
  <2> QED
    BY <1>3, <2>2, <2>3, Zenon DEF End
<1> QED
  BY <1>2, <1>3, Zenon

(* A stream on which nothing happens is as it was, and so is one on which  *)
(* a byte arrives.                                                         *)
LEMMA StandsStream ==
    ASSUME NEW s, StreamOK(s), Steady, Stands(s) \/ Delivers(s)
    PROVE  /\ StreamOK(s)'
           /\ \A k : Code(s, k)' = Code(s, k)
<1>1. /\ written'[s] = written[s] /\ ends'[s] = ends[s] /\ pos'[s] = pos[s]
      /\ buf'[s] = buf[s] /\ taken'[s] = taken[s]
  BY Zenon DEF Stands, Delivers
<1>2. \A k : End(s, k)' = End(s, k)
  BY <1>1, Zenon DEF End
<1>3. \A k, f : HoldsAt(s, k, f)' <=> HoldsAt(s, k, f)
  BY <1>1, <1>2, Zenon DEF HoldsAt
<1>4. Framed(s)'
  BY <1>1, <1>2, <1>3, SteadyFacts, Zenon DEF Framed, StreamOK
<1>5. Placed(s)'
  BY <1>1, <1>2, Zenon DEF Placed, StreamOK
<1>6. Exempt(s)' <=> Exempt(s)
  BY <1>1, SteadyFacts DEF Exempt, Steady
<1>7. Within(s)'
  BY <1>1, <1>2, <1>6, Zenon DEF Within, StreamOK
<1>8. StreamType(s)'
  BY <1>1 DEF StreamOK, StreamType, Stands, Delivers
<1>9. \A k : Code(s, k)' = Code(s, k)
  BY <1>1, <1>2, Zenon DEF Code
<1> QED
  BY <1>4, <1>5, <1>7, <1>8, <1>9, Zenon DEF StreamOK

(* A length is a number, and all of a sequence is the sequence.            *)
LEMMA Lengths ==
    /\ \A q \in Seq(Byte) : Len(q) \in Nat /\ SubSeq(q, 1, Len(q)) = q
    /\ \A q \in Seq(Nat) : Len(q) \in Nat
OBVIOUS

(* Numbers below others.                                                   *)
LEMMA Below ==
    /\ \A y \in Nat : \A x \in 0 .. y : x < y => x + 1 \in 0 .. y /\ x < y + 1
    /\ \A y \in Nat : \A x \in 0 .. y : x \in Nat /\ x <= y /\ x <= y + 1
    /\ \A y \in Nat, x \in Nat : x <= y => x \in 0 .. y
    /\ \A x \in Nat, y \in Nat, z \in Nat : x <= y /\ y <= z => x <= z
    /\ \A x \in Nat, y \in Nat, u \in Nat, v \in Nat : x <= y => x <= y + u + v
OBVIOUS

(* What is known of a stream, as numbers and sequences.                    *)
LEMMA Typed ==
    ASSUME NEW s, StreamOK(s)
    PROVE  /\ written[s] \in Seq(Byte) /\ ends[s] \in Seq(Nat) /\ buf[s] \in Seq(Byte)
           /\ Len(written[s]) \in Nat /\ Len(ends[s]) \in Nat /\ Len(buf[s]) \in Nat
           /\ arrived[s] \in Nat /\ pos[s] \in Nat /\ taken[s] \in Nat
           /\ taken[s] <= Len(ends[s]) /\ taken[s] \in 0 .. Len(ends[s])
           /\ pos[s] <= arrived[s] /\ arrived[s] <= Len(written[s])
           /\ pos[s] <= Len(written[s])
<1>1. /\ written[s] \in Seq(Byte) /\ ends[s] \in Seq(Nat) /\ buf[s] \in Seq(Byte)
      /\ arrived[s] \in Nat /\ pos[s] \in Nat /\ taken[s] \in Nat
      /\ taken[s] <= Len(ends[s])
      /\ pos[s] <= arrived[s] /\ arrived[s] <= Len(written[s])
  BY Zenon DEF StreamOK, StreamType
<1>2. Len(written[s]) \in Nat /\ Len(ends[s]) \in Nat /\ Len(buf[s]) \in Nat
  BY <1>1, Lengths, Zenon
<1>3. taken[s] \in 0 .. Len(ends[s])
  BY <1>1, <1>2, Below, Zenon
<1>4. pos[s] <= Len(written[s])
  BY <1>1, <1>2, Below, Zenon
<1> QED
  BY <1>1, <1>2, <1>3, <1>4, Zenon

(* Bytes appended to a stream change no earlier piece of it.               *)
LEMMA OldPiece ==
    ASSUME NEW w \in Seq(Byte), NEW v \in Seq(Byte), NEW e \in Nat, NEW q \in Nat,
           e <= q, q <= Len(w)
    PROVE  SubSeq(w \o v, e + 1, q) = SubSeq(w, e + 1, q)
<1> DEFINE a == SubSeq(w \o v, e + 1, q)
           b == SubSeq(w, e + 1, q)
<1>1. /\ w \o v \in Seq(Byte) /\ Len(w \o v) = Len(w) + Len(v)
      /\ \A i \in 1 .. Len(w) : (w \o v)[i] = w[i]
  BY Joined, Zenon
<1>2. b \in Seq(Byte) /\ Len(b) = q - e /\ \A i \in 1 .. q - e : b[i] = w[e + i]
  OBVIOUS
<1>3. a \in Seq(Byte) /\ Len(a) = q - e /\ \A i \in 1 .. q - e : a[i] = (w \o v)[e + i]
  BY <1>1
<1>4. \A i \in 1 .. q - e : (w \o v)[e + i] = w[e + i]
  BY <1>1
<1> HIDE DEF a, b
<1>5. a = b
  BY <1>2, <1>3, <1>4, SMTT(30)
<1> QED
  BY <1>5, Zenon DEF a, b

(* A frame of the expected kind is added behind frames only.               *)
LEMMA GrowsStream ==
    ASSUME NEW s \in Streams, client \in Clients, auth \in BOOLEAN, StreamOK(s), Steady,
           NEW f \in Seq(Byte), NEW data \in Seq(Byte),
           Grows(s, f, data), NEW n, n = Len(ends[s]), n < Cap(s),
           f \in Expect(s, n + 1), data = <<>> \/ n + 1 = Cap(s)
    PROVE  /\ StreamOK(s)' /\ Len(ends'[s]) = n + 1
           /\ Len(f) >= 2 => Code(s, n + 1)' = f[2]
<1> DEFINE W == written[s]
           V == f \o data
<1>1. /\ W \in Seq(Byte) /\ ends[s] \in Seq(Nat) /\ n \in Nat /\ Len(W) \in Nat
      /\ Len(f) \in Nat /\ Len(data) \in Nat
  BY Typed, Lengths, Zenon
<1>2. /\ V \in Seq(Byte) /\ Len(V) = Len(f) + Len(data)
      /\ \A i \in 1 .. Len(f) : V[i] = f[i]
  BY Joined, Zenon
<1> HIDE DEF V
<1>3. /\ written'[s] = W \o V /\ ends'[s] = Append(ends[s], Len(W) + Len(f))
      /\ arrived'[s] = arrived[s] /\ pos'[s] = pos[s]
      /\ buf'[s] = buf[s] /\ taken'[s] = taken[s]
  BY Zenon DEF Grows, V
<1> HIDE DEF W
<1>4. /\ written'[s] \in Seq(Byte) /\ Len(written'[s]) = Len(W) + Len(f) + Len(data)
      /\ \A i \in 1 .. Len(W) : written'[s][i] = W[i]
      /\ \A i \in 1 .. Len(f) : written'[s][Len(W) + i] = f[i]
  <2>1. /\ W \o V \in Seq(Byte) /\ Len(W \o V) = Len(W) + Len(V)
        /\ \A i \in 1 .. Len(W) : (W \o V)[i] = W[i]
        /\ \A i \in 1 .. Len(V) : (W \o V)[Len(W) + i] = V[i]
    BY <1>1, <1>2, Joined, Zenon
  <2>2. \A i \in 1 .. Len(f) : i \in 1 .. Len(V)
    BY <1>1, <1>2
  <2>3. \A i \in 1 .. Len(f) : (W \o V)[Len(W) + i] = f[i]
    BY <1>2, <2>1, <2>2, Zenon
  <2>4. Len(W \o V) = Len(W) + Len(f) + Len(data)
    BY <1>1, <1>2, <2>1
  <2> QED
    BY <1>3, <2>1, <2>3, <2>4, Zenon
<1>5. /\ ends'[s] \in Seq(Nat) /\ Len(ends'[s]) = n + 1
      /\ \A k \in 1 .. n : ends'[s][k] = ends[s][k]
      /\ ends'[s][n + 1] = Len(W) + Len(f)
  BY <1>1, <1>3
<1>6. \A k \in 0 .. n : /\ End(s, k)' = End(s, k) /\ End(s, k) \in Nat
                        /\ End(s, k) <= Len(W)
  <2>1. \A k \in 0 .. n : End(s, k) \in Nat /\ End(s, k) <= Len(W)
    BY EndsInside, Zenon DEF StreamOK, W
  <2>2. \A k \in 0 .. n : End(s, k)' = End(s, k)
    <3> TAKE k \in 0 .. n
    <3>1. CASE k = 0
      BY <3>1, Zenon DEF End
    <3>2. CASE k # 0
      <4>1. k \in 1 .. n
        BY <1>1, <3>2
      <4> QED
        BY <1>5, <3>2, <4>1, Zenon DEF End
    <3> QED
      BY <3>1, <3>2, Zenon
  <2> QED
    BY <2>1, <2>2, Zenon
<1>7. End(s, n) = Len(W) /\ Len(ends[s]) = n
  BY Zenon DEF StreamOK, Framed, W
<1>8. ASSUME NEW k \in 1 .. n, NEW g, Len(g) \in Nat, HoldsAt(s, k, g)
      PROVE  HoldsAt(s, k, g)'
  <2>1. k - 1 \in 0 .. n /\ k \in 0 .. n
    BY <1>1
  <2>2. End(s, k - 1)' = End(s, k - 1) /\ End(s, k - 1) \in Nat
    BY <1>6, <2>1, Zenon
  <2>3. /\ ends[s][k] = End(s, k - 1) + Len(g) /\ ends[s][k] <= Len(W)
        /\ \A i \in 1 .. Len(g) : W[End(s, k - 1) + i] = g[i]
    BY <1>8, Zenon DEF HoldsAt, W
  <2>4. \A i \in 1 .. Len(g) : written'[s][End(s, k - 1) + i] = g[i]
    <3> TAKE i \in 1 .. Len(g)
    <3>0. End(s, k - 1) + Len(g) <= Len(W) /\ Len(g) \in Nat /\ Len(W) \in Nat
      BY <1>1, <1>8, <2>3, Zenon
    <3>1. End(s, k - 1) + i \in 1 .. Len(W)
      BY <2>2, <3>0
    <3> QED
      BY <1>4, <2>3, <3>1, Zenon
  <2>5. ends'[s][k] = End(s, k - 1) + Len(g) /\ ends'[s][k] <= Len(written'[s])
    <3>1. ends'[s][k] = ends[s][k]
      BY <1>5, Zenon
    <3>2. ends[s][k] \in Nat
      <4>1. End(s, k - 1) + Len(g) \in Nat
        BY <1>8, <2>2
      <4> QED
        BY <2>3, <4>1, Zenon
    <3>3. ends[s][k] <= Len(W) + Len(f) + Len(data)
      BY <1>1, <2>3, <3>2, Below, Zenon
    <3> QED
      BY <1>4, <2>3, <3>1, <3>3, Zenon
  <2> QED
    BY <2>2, <2>4, <2>5, Zenon DEF HoldsAt
<1>9. ASSUME NEW k, k = n + 1
      PROVE  HoldsAt(s, k, f)' /\ (Len(f) >= 2 => Code(s, k)' = f[2])
  <2>1. k - 1 = n /\ n \in 0 .. n
    BY <1>1, <1>9
  <2>2. End(s, k - 1)' = Len(W)
    BY <1>6, <1>7, <2>1, Zenon
  <2>3. ends'[s][k] <= Len(written'[s])
    BY <1>1, <1>4, <1>5, <1>9
  <2>4. \A i \in 1 .. Len(f) : written'[s][End(s, k - 1)' + i] = f[i]
    BY <1>4, <2>2, Zenon
  <2>5. ends'[s][k] = End(s, k - 1)' + Len(f)
    BY <1>5, <1>9, <2>2, Zenon
  <2>6. HoldsAt(s, k, f)'
    BY <2>3, <2>4, <2>5, Zenon DEF HoldsAt
  <2>7. Len(f) >= 2 => Code(s, k)' = f[2]
    BY <1>1, <2>4 DEF Code
  <2> QED
    BY <2>6, <2>7, Zenon
<1>10. \A k : Expect(s, k)' = Expect(s, k)
  BY SteadyFacts, Zenon
<1>11. Cap(s)' = Cap(s)
  BY SteadyFacts, Zenon
<1>12. Framed(s)'
  <2>0. Cap(s) \in Nat
    BY CapIs, Zenon
  <2>1. n + 1 <= Cap(s)
    BY <1>1, <1>7, <2>0
  <2>2. ASSUME NEW k \in 1 .. n + 1 PROVE \E g \in Expect(s, k) : HoldsAt(s, k, g)'
    <3>1. CASE k = n + 1
      BY <1>7, <1>9, <3>1, Zenon
    <3>2. CASE k # n + 1
      <4>1. k \in 1 .. n
        BY <1>1, <3>2
      <4>2. PICK g \in Expect(s, k) : HoldsAt(s, k, g)
        BY <4>1, Zenon DEF StreamOK, Framed
      <4>3. k \in 1 .. Cap(s)
        BY <1>1, <1>7, <2>0, <4>1
      <4>4. Len(g) \in Nat
        BY <4>2, <4>3, ExpectSeq, Zenon
      <4> QED
        BY <1>8, <4>1, <4>2, <4>4, Zenon
    <3> QED
      BY <3>1, <3>2, Zenon
  <2>3. n + 1 < Cap(s) => Len(written'[s]) = End(s, n + 1)'
    <3>1. End(s, n + 1)' = Len(W) + Len(f)
      BY <1>1, <1>5 DEF End
    <3> QED
      BY <1>1, <1>4, <1>7, <2>0, <3>1
  <2> QED
    BY <1>5, <1>10, <1>11, <2>1, <2>2, <2>3, Zenon DEF Framed
<1>13. PICK t : t = taken[s]
  BY Zenon
<1>14. /\ t \in 0 .. n /\ n \in Nat /\ taken'[s] = t
       /\ pos[s] \in Nat /\ pos[s] <= Len(W) /\ Len(W) \in Nat
  BY <1>3, <1>13, Typed, Zenon DEF W
<1>15. End(s, t)' = End(s, t) /\ End(s, t) \in Nat
  BY <1>6, <1>14, Zenon
<1>16. Placed(s)'
  <2>1. buf[s] = SubSeq(W, End(s, t) + 1, pos[s]) /\ pos[s] = End(s, t) + Len(buf[s])
    BY <1>13, Zenon DEF StreamOK, Placed, W
  <2>2. End(s, t) <= pos[s]
    <3>1. Len(buf[s]) \in Nat
      BY Typed, Zenon
    <3>2. pos[s] = End(s, t) + Len(buf[s])
      BY <2>1, Zenon
    <3> QED
      BY <1>14, <1>15, <3>1, <3>2
  <2>3. W \in Seq(Byte) /\ V \in Seq(Byte) /\ End(s, t) \in Nat /\ pos[s] \in Nat
    BY <1>1, <1>2, <1>14, <1>15, Zenon
  <2>4. SubSeq(W \o V, End(s, t) + 1, pos[s]) = SubSeq(W, End(s, t) + 1, pos[s])
    <3>1. \A e \in Nat, q \in Nat : e <= q /\ q <= Len(W) =>
              SubSeq(W \o V, e + 1, q) = SubSeq(W, e + 1, q)
      BY <2>3, OldPiece
    <3> QED
      BY <1>14, <2>2, <2>3, <3>1, Zenon
  <2>5. /\ buf'[s] = SubSeq(written'[s], End(s, t)' + 1, pos'[s])
        /\ pos'[s] = End(s, t)' + Len(buf'[s])
    BY <1>3, <1>15, <2>1, <2>4, Zenon
  <2> QED
    BY <1>14, <2>5, Zenon DEF Placed
<1>17. Within(s)'
  <2>1. Exempt(s)' <=> Exempt(s)
    <3>1. HasCredentials' = HasCredentials /\ auth' = auth /\ taken'[s] = taken[s]
      BY <1>3, SteadyFacts, Zenon DEF Steady
    <3> QED
      BY <3>1, Zenon DEF Exempt
  <2>2. ASSUME buf[s] # <<>>, ~Exempt(s)
        PROVE  t < n + 1 /\ pos[s] <= End(s, t + 1)'
    <3>1. t < n /\ pos[s] <= End(s, t + 1)
      BY <1>13, <2>2, Zenon DEF StreamOK, Within
    <3>2. t + 1 \in 0 .. n /\ t < n + 1
      BY <1>14, <3>1, Below, Zenon
    <3>3. End(s, t + 1)' = End(s, t + 1)
      BY <1>6, <3>2, Zenon
    <3> QED
      BY <3>1, <3>2, <3>3, Zenon
  <2> QED
    BY <1>3, <1>5, <1>14, <2>1, <2>2, Zenon DEF Within
<1>18. StreamType(s)'
  <2>1. taken'[s] <= Len(ends'[s]) /\ taken[s] \in Nat
    <3>1. taken[s] \in Nat
      BY Typed, Zenon
    <3>2. t <= n + 1
      BY <1>14, Below, Zenon
    <3> QED
      BY <1>5, <1>14, <3>1, <3>2, Zenon
  <2>2. arrived'[s] <= Len(written'[s])
    <3>1. arrived[s] \in Nat /\ arrived[s] <= Len(W)
      BY Typed, Zenon DEF W
    <3>2. arrived[s] <= Len(W) + Len(f) + Len(data)
      BY <1>1, <3>1, Below, Zenon
    <3> QED
      BY <1>3, <1>4, <3>2, Zenon
  <2> QED
    BY <1>3, <1>4, <1>5, <2>1, <2>2, Typed, Zenon DEF StreamType
<1> QED
  BY <1>5, <1>9, <1>12, <1>16, <1>17, <1>18, Zenon DEF StreamOK

(* Texts with the same bytes are equal.                                    *)
LEMMA SameBytes ==
    ASSUME NEW b \in Seq(Byte), NEW c \in Seq(Byte), Len(b) = Len(c),
           \A i \in 1 .. Len(b) : b[i] = c[i]
    PROVE  b = c
OBVIOUS

(* Two pieces in a row are one.                                            *)
LEMMA NextPiece ==
    ASSUME NEW w \in Seq(Byte), NEW e \in Nat, NEW q \in Nat, NEW n \in Nat,
           e <= q, q + n <= Len(w)
    PROVE  /\ SubSeq(w, e + 1, q) \o Piece(w, q + 1, n) = SubSeq(w, e + 1, q + n)
           /\ SubSeq(w, e + 1, q + n) \in Seq(Byte)
           /\ Len(SubSeq(w, e + 1, q + n)) = q + n - e
<1> DEFINE a == SubSeq(w, e + 1, q)
           b == SubSeq(w, q + 1, q + 1 + n - 1)
           c == SubSeq(w, e + 1, q + n)
           d == a \o b
<1>1. a \in Seq(Byte) /\ Len(a) = q - e /\ \A i \in 1 .. q - e : a[i] = w[e + i]
  OBVIOUS
<1>2. b \in Seq(Byte) /\ Len(b) = n /\ \A i \in 1 .. n : b[i] = w[q + i]
  OBVIOUS
<1>3. c \in Seq(Byte) /\ Len(c) = q + n - e /\ \A i \in 1 .. q + n - e : c[i] = w[e + i]
  OBVIOUS
<1> HIDE DEF a, b, c
<1>4. /\ d \in Seq(Byte) /\ Len(d) = Len(a) + Len(b)
      /\ \A i \in 1 .. Len(a) : d[i] = a[i]
      /\ \A i \in 1 .. Len(b) : d[Len(a) + i] = b[i]
  BY <1>1, <1>2, Joined, Zenon
<1> HIDE DEF d
<1>5. Len(d) = q + n - e
  BY <1>1, <1>2, <1>4
<1>6. ASSUME NEW i \in 1 .. q + n - e PROVE d[i] = c[i]
  <2>1. CASE i <= q - e
    <3>1. i \in 1 .. q - e /\ i \in 1 .. Len(a)
      BY <1>1, <2>1
    <3> QED
      BY <1>1, <1>3, <1>4, <3>1, Zenon
  <2>2. CASE i > q - e
    <3> DEFINE j == i - (q - e)
    <3>1. j \in 1 .. n /\ Len(a) + j = i /\ q + j = e + i
      BY <1>1, <2>2
    <3>2. j \in 1 .. Len(b)
      BY <1>2, <3>1, Zenon
    <3> HIDE DEF j
    <3>3. d[i] = b[j] /\ b[j] = w[e + i]
      BY <1>2, <1>4, <3>1, <3>2, Zenon
    <3> QED
      BY <1>3, <3>3, Zenon
  <2> QED
    BY <2>1, <2>2
<1>7. d = c
  <2>1. Len(d) = Len(c) /\ \A i \in 1 .. Len(d) : d[i] = c[i]
    BY <1>3, <1>5, <1>6, Zenon
  <2> QED
    BY <1>3, <1>4, <2>1, SameBytes, Zenon
<1> QED
  BY <1>3, <1>7, Zenon DEF a, b, c, d, Piece

(* A read that stays in the next frame.                                    *)
LEMMA ReadsStream ==
    ASSUME NEW s \in Streams, StreamOK(s), Steady, NEW n \in Nat, Reads(s, n),
           NEW t, t = taken[s],
           Exempt(s) \/ (t < Len(ends[s]) /\ pos[s] + n <= End(s, t + 1))
    PROVE  StreamOK(s)' /\ \A k : Code(s, k)' = Code(s, k)
<1>1. /\ written'[s] = written[s] /\ ends'[s] = ends[s] /\ taken'[s] = t /\ taken[s] = t
      /\ arrived'[s] = arrived[s] /\ n <= arrived[s] - pos[s]
      /\ buf'[s] = buf[s] \o Piece(written[s], pos[s] + 1, n)
      /\ pos'[s] = pos[s] + n
  BY Zenon DEF Reads
<1>2. \A k : End(s, k)' = End(s, k)
  BY <1>1, Zenon DEF End
<1>3. \A k, f : HoldsAt(s, k, f)' <=> HoldsAt(s, k, f)
  BY <1>1, <1>2, Zenon DEF HoldsAt
<1>4. Framed(s)'
  BY <1>1, <1>2, <1>3, SteadyFacts, Zenon DEF Framed, StreamOK
<1>5. /\ written[s] \in Seq(Byte) /\ pos[s] \in Nat /\ arrived[s] \in Nat
      /\ arrived[s] <= Len(written[s]) /\ Len(written[s]) \in Nat
      /\ ends[s] \in Seq(Nat) /\ t \in Nat /\ t <= Len(ends[s]) /\ buf[s] \in Seq(Byte)
  BY <1>1, Typed, Zenon
<1>6. End(s, t) \in Nat /\ Len(buf[s]) \in Nat
  <2>1. t \in 0 .. Len(ends[s])
    BY <1>1, Typed, Zenon
  <2> QED
    BY <1>5, <2>1, EndsInside DEF StreamOK
<1>7. buf[s] = SubSeq(written[s], End(s, t) + 1, pos[s]) /\ pos[s] = End(s, t) + Len(buf[s])
  BY <1>1, Zenon DEF StreamOK, Placed
<1>8. End(s, t) <= pos[s] /\ pos[s] + n <= Len(written[s]) /\ pos[s] + n <= arrived[s]
  <2>1. pos[s] = End(s, t) + Len(buf[s]) /\ n <= arrived[s] - pos[s]
    BY <1>1, <1>7, Zenon
  <2>2. pos[s] \in Nat /\ arrived[s] \in Nat /\ arrived[s] <= Len(written[s])
        /\ Len(written[s]) \in Nat
    BY <1>5, Zenon
  <2> QED
    BY <1>6, <2>1, <2>2
<1>9. /\ buf'[s] = SubSeq(written[s], End(s, t) + 1, pos[s] + n)
      /\ buf'[s] \in Seq(Byte) /\ Len(buf'[s]) = pos[s] + n - End(s, t)
  <2>1. ASSUME NEW e \in Nat, NEW q \in Nat, e <= q, q + n <= Len(written[s])
        PROVE  /\ SubSeq(written[s], e + 1, q) \o Piece(written[s], q + 1, n)
                      = SubSeq(written[s], e + 1, q + n)
               /\ SubSeq(written[s], e + 1, q + n) \in Seq(Byte)
               /\ Len(SubSeq(written[s], e + 1, q + n)) = q + n - e
    <3>1. written[s] \in Seq(Byte)
      BY <1>5, Zenon
    <3> QED
      BY <2>1, <3>1, NextPiece, Zenon
  <2>2. /\ SubSeq(written[s], End(s, t) + 1, pos[s]) \o Piece(written[s], pos[s] + 1, n)
               = SubSeq(written[s], End(s, t) + 1, pos[s] + n)
        /\ SubSeq(written[s], End(s, t) + 1, pos[s] + n) \in Seq(Byte)
        /\ Len(SubSeq(written[s], End(s, t) + 1, pos[s] + n)) = pos[s] + n - End(s, t)
    BY <1>5, <1>6, <1>8, <2>1, Zenon
  <2> QED
    BY <1>1, <1>7, <2>2, Zenon
<1>10. Placed(s)'
  <2>1. pos[s] + n = End(s, t) + (pos[s] + n - End(s, t))
    BY <1>5, <1>6
  <2>2. /\ buf'[s] = SubSeq(written'[s], End(s, t)' + 1, pos'[s])
        /\ pos'[s] = End(s, t)' + Len(buf'[s])
    BY <1>1, <1>2, <1>9, <2>1, Zenon
  <2> QED
    BY <1>1, <2>2, Zenon DEF Placed
<1>11. Exempt(s)' <=> Exempt(s)
  BY <1>1, SteadyFacts DEF Exempt, Steady
<1>12. Within(s)'
  <2>1. ~Exempt(s) => t < Len(ends'[s]) /\ pos'[s] <= End(s, t + 1)'
    BY <1>1, <1>2, Zenon
  <2> QED
    BY <1>1, <1>11, <2>1, Zenon DEF Within
<1>13. StreamType(s)'
  <2>1. pos'[s] \in Nat /\ pos'[s] <= arrived'[s]
    BY <1>1, <1>5, <1>8
  <2> QED
    BY <1>1, <1>5, <1>9, <2>1, Zenon DEF StreamType
<1>14. \A k : Code(s, k)' = Code(s, k)
  BY <1>1, <1>2, Zenon DEF Code
<1> QED
  BY <1>4, <1>10, <1>12, <1>13, <1>14, Zenon DEF StreamOK

(* A frame is accepted when it is read to its last byte.                   *)
LEMMA TurnsStream ==
    ASSUME NEW s \in Streams, StreamOK(s), Steady, Turns(s), NEW t, t = taken[s],
           t < Len(ends[s]), pos[s] = End(s, t + 1)
    PROVE  StreamOK(s)' /\ \A k : Code(s, k)' = Code(s, k)
<1>1. /\ written'[s] = written[s] /\ ends'[s] = ends[s] /\ taken'[s] = t + 1
      /\ arrived'[s] = arrived[s] /\ buf'[s] = <<>> /\ pos'[s] = pos[s]
  BY Zenon DEF Turns
<1>2. \A k : End(s, k)' = End(s, k)
  BY <1>1, Zenon DEF End
<1>3. \A k, f : HoldsAt(s, k, f)' <=> HoldsAt(s, k, f)
  BY <1>1, <1>2, Zenon DEF HoldsAt
<1>4. Framed(s)'
  BY <1>1, <1>2, <1>3, SteadyFacts, Zenon DEF Framed, StreamOK
<1>5. /\ written[s] \in Seq(Byte) /\ pos[s] \in Nat /\ t \in Nat
      /\ ends[s] \in Seq(Nat) /\ Len(ends[s]) \in Nat
  BY DEF StreamOK, StreamType
<1>6. Placed(s)'
  <2>1. SubSeq(written[s], pos[s] + 1, pos[s]) = <<>>
    BY <1>5
  <2>2. pos[s] = pos[s] + Len(<<>>)
    BY <1>5
  <2>3. /\ buf'[s] = SubSeq(written'[s], End(s, t + 1)' + 1, pos'[s])
        /\ pos'[s] = End(s, t + 1)' + Len(buf'[s])
    <3>1. End(s, t + 1)' = pos[s]
      BY <1>2, Zenon
    <3> QED
      BY <1>1, <2>1, <2>2, <3>1, Zenon
  <2> QED
    BY <1>1, <2>3, Zenon DEF Placed
<1>7. Within(s)'
  BY <1>1, Zenon DEF Within
<1>8. StreamType(s)'
  <2>1. t + 1 \in Nat /\ t + 1 <= Len(ends[s])
    BY <1>5
  <2>2. <<>> \in Seq(Byte)
    OBVIOUS
  <2> QED
    BY <1>1, <2>1, <2>2, Zenon DEF StreamOK, StreamType
<1>9. \A k : Code(s, k)' = Code(s, k)
  BY <1>1, <1>2, Zenon DEF Code
<1> QED
  BY <1>4, <1>6, <1>7, <1>8, <1>9, Zenon DEF StreamOK

(* The frame that a reader is in, as far as it has come.                   *)
LEMMA FrameBegun ==
    ASSUME NEW s \in Streams, client \in Clients, auth \in BOOLEAN, StreamOK(s),
           ~Exempt(s), NEW t, t = taken[s], t < Len(ends[s])
    PROVE  \E f \in Expect(s, t + 1) :
              /\ f \in Seq(Byte) /\ Len(buf[s]) \in 0 .. Len(f)
              /\ buf[s] = SubSeq(f, 1, Len(buf[s]))
              /\ End(s, t + 1) = End(s, t) + Len(f) /\ HoldsAt(s, t + 1, f)
<1>1. /\ written[s] \in Seq(Byte) /\ pos[s] \in Nat /\ Len(written[s]) \in Nat
      /\ ends[s] \in Seq(Nat) /\ t \in Nat /\ buf[s] \in Seq(Byte)
      /\ Len(ends[s]) \in Nat /\ Len(buf[s]) \in Nat /\ pos[s] <= Len(written[s])
  BY Typed, Zenon
<1>2. /\ t \in 0 .. Len(ends[s]) /\ t + 1 \in 1 .. Len(ends[s])
      /\ (t + 1) - 1 = t /\ t + 1 # 0 /\ t + 1 \in 1 .. Cap(s)
  <2>1. Len(ends[s]) <= Cap(s) /\ Cap(s) \in Nat
    BY CapIs, Zenon DEF StreamOK, Framed
  <2> QED
    BY <1>1, <2>1
<1>3. PICK f \in Expect(s, t + 1) : HoldsAt(s, t + 1, f)
  BY <1>2, Zenon DEF StreamOK, Framed
<1>4. f \in Seq(Byte) /\ Len(f) \in Nat
  BY <1>2, <1>3, ExpectSeq, Zenon
<1>5. End(s, t) \in Nat
  BY <1>2, EndsInside, Zenon DEF StreamOK
<1>6. /\ End(s, t + 1) = End(s, t) + Len(f)
      /\ \A i \in 1 .. Len(f) : written[s][End(s, t) + i] = f[i]
  <2>1. /\ ends[s][t + 1] = End(s, t) + Len(f)
        /\ \A i \in 1 .. Len(f) : written[s][End(s, t) + i] = f[i]
    <3>1. /\ ends[s][t + 1] = End(s, (t + 1) - 1) + Len(f)
          /\ \A i \in 1 .. Len(f) : written[s][End(s, (t + 1) - 1) + i] = f[i]
      BY <1>3, Zenon DEF HoldsAt
    <3>2. End(s, (t + 1) - 1) = End(s, t)
      BY <1>2, Zenon
    <3> QED
      BY <3>1, <3>2, Zenon
  <2>2. End(s, t + 1) = ends[s][t + 1]
    BY <1>2, Zenon DEF End
  <2> QED
    BY <2>1, <2>2, Zenon
<1>7. buf[s] = SubSeq(written[s], End(s, t) + 1, pos[s]) /\ pos[s] = End(s, t) + Len(buf[s])
  BY Zenon DEF StreamOK, Placed
<1>8. Len(buf[s]) \in 0 .. Len(f)
  <2>1. CASE buf[s] = <<>>
    BY <1>4, <2>1
  <2>2. CASE buf[s] # <<>>
    <3>1. pos[s] <= End(s, t + 1)
      BY <2>2, Zenon DEF StreamOK, Within
    <3>2. End(s, t) + Len(buf[s]) <= End(s, t) + Len(f)
      BY <1>6, <1>7, <3>1, Zenon
    <3> QED
      BY <1>1, <1>4, <1>5, <3>2
  <2> QED
    BY <2>1, <2>2, Zenon
<1>9. ASSUME NEW i \in 1 .. Len(buf[s]) PROVE buf[s][i] = f[i]
  <2> DEFINE e == End(s, t)
             q == pos[s]
             w == written[s]
  <2>1. e \in Nat /\ q \in Nat /\ q <= Len(w) /\ w \in Seq(Byte) /\ i \in 1 .. q - e
    <3>1. q = e + Len(buf[s])
      BY <1>7, Zenon
    <3>2. i \in 1 .. q - e
      BY <1>1, <1>5, <3>1
    <3> QED
      BY <1>1, <1>5, <3>2, Zenon
  <2> HIDE DEF e, q, w
  <2>2. SubSeq(w, e + 1, q)[i] = w[e + i]
    BY <2>1
  <2>3. buf[s][i] = written[s][End(s, t) + i]
    BY <1>7, <2>2, Zenon DEF e, q, w
  <2>4. i \in 1 .. Len(f)
    BY <1>1, <1>4, <1>8
  <2> QED
    BY <1>6, <2>3, <2>4, Zenon
<1>10. buf[s] = SubSeq(f, 1, Len(buf[s]))
  <2> DEFINE m == Len(buf[s])
             c == SubSeq(f, 1, m)
  <2>1. m \in 0 .. Len(f)
    BY <1>8, Zenon
  <2> HIDE DEF m
  <2>2. c \in Seq(Byte) /\ Len(c) = m /\ \A i \in 1 .. m : c[i] = f[i]
    BY <1>4, <2>1, Prefix, Zenon
  <2> HIDE DEF c
  <2>3. \A i \in 1 .. m : buf[s][i] = c[i]
    BY <1>9, <2>2, Zenon DEF m
  <2>4. buf[s] = c
    BY <1>1, <2>2, <2>3, SameBytes, Zenon DEF m
  <2> QED
    BY <2>4, Zenon DEF c, m
<1> QED
  BY <1>3, <1>4, <1>6, <1>8, <1>10, Zenon

(* With m bytes of the l of a frame that begins after e, a reader that     *)
(* wants w in all wants n more, which are bytes of the frame.              *)
LEMMA Remaining ==
    ASSUME NEW e \in Nat, NEW l \in Nat, NEW m \in 0 .. l, NEW w, NEW n, n = w - m,
           w = Refused \/ (w \in 1 .. l /\ m <= w /\ (w = m => m = l))
    PROVE  /\ n \in Int /\ (n > 0 => (e + m) + n <= e + l)
           /\ (n = 0 => e + m = e + l /\ m = l) /\ (w # Refused => n >= 0)
BY DEF Refused

(* What a party that paces the expected frames does on its stream: it      *)
(* finishes when it has one of them to the last byte, and what it asks for *)
(* is part of it.                                                          *)
LEMMA PacedReader ==
    ASSUME NEW s \in Streams, client \in Clients, auth \in BOOLEAN, StreamOK(s),
           ~Exempt(s), NEW t, t = taken[s], t < Cap(s), NEW p, NEW stage,
           \A f \in Expect(s, t + 1) : Paces(p, stage, f), Expect(s, t + 1) # {},
           stage = "credentials" => Boundary(buf[s]),
           NEW n, n = Asks(p, stage, buf[s]) - Len(buf[s])
    PROVE  /\ n \in Int
           /\ n > 0 /\ n <= Len(written[s]) - pos[s] =>
                 t < Len(ends[s]) /\ pos[s] + n <= End(s, t + 1)
           /\ n = 0 => /\ t < Len(ends[s]) /\ pos[s] = End(s, t + 1)
                       /\ buf[s] \in Expect(s, t + 1) /\ HoldsAt(s, t + 1, buf[s])
           /\ (\A f \in Expect(s, t + 1) : Sure(p, stage, f)) => n >= 0
<1>1. /\ written[s] \in Seq(Byte) /\ pos[s] \in Nat /\ Len(written[s]) \in Nat
      /\ ends[s] \in Seq(Nat) /\ t \in Nat /\ buf[s] \in Seq(Byte)
      /\ Len(ends[s]) \in Nat /\ Len(buf[s]) \in Nat /\ t <= Len(ends[s])
  BY Typed, Zenon
<1>2. pos[s] = End(s, t) + Len(buf[s])
  BY Zenon DEF StreamOK, Placed
<1>3. End(s, t) \in Nat
  <2>1. t \in 0 .. Len(ends[s])
    BY Typed, Zenon
  <2> QED
    BY <2>1, EndsInside, Zenon DEF StreamOK
<1>4. CASE t < Len(ends[s])
  <2>1. PICK f \in Expect(s, t + 1) :
              /\ f \in Seq(Byte) /\ Len(buf[s]) \in 0 .. Len(f)
              /\ buf[s] = SubSeq(f, 1, Len(buf[s]))
              /\ End(s, t + 1) = End(s, t) + Len(f) /\ HoldsAt(s, t + 1, f)
    BY <1>4, FrameBegun, Zenon
  <2>2. Paces(p, stage, f)
    BY <2>1, Zenon
  <2> DEFINE m == Len(buf[s])
             w == Asks(p, stage, buf[s])
  <2>3. \/ w = Refused
        \/ w \in 1 .. Len(f) /\ m <= w /\ (w = m => m = Len(f))
    <3>1. Pace(p, stage, f, m)
      BY <2>1, <2>2, Zenon DEF Paces
    <3> QED
      BY <2>1, <3>1, Zenon DEF Pace
  <2>4. Sure(p, stage, f) => w # Refused
    BY <2>1, Zenon DEF Sure
  <2>5. m \in 0 .. Len(f) /\ Len(f) \in Nat /\ n = w - m /\ pos[s] = End(s, t) + m
        /\ End(s, t + 1) = End(s, t) + Len(f)
    BY <1>2, <2>1, Lengths, Zenon
  <2>6. m = Len(f) => buf[s] = f
    BY <2>1, Lengths, Zenon
  <2> HIDE DEF m, w
  <2>7. /\ n \in Int /\ (n > 0 => pos[s] + n <= End(s, t + 1))
        /\ (n = 0 => pos[s] = End(s, t + 1) /\ m = Len(f))
        /\ (w # Refused => n >= 0)
    <3>1. m \in 0 .. Len(f) /\ Len(f) \in Nat /\ n = w - m
      BY <2>5, Zenon
    <3>2. /\ n \in Int /\ (n > 0 => (End(s, t) + m) + n <= End(s, t) + Len(f))
          /\ (n = 0 => End(s, t) + m = End(s, t) + Len(f) /\ m = Len(f))
          /\ (w # Refused => n >= 0)
      BY <1>3, <2>3, <3>1, Remaining
    <3>3. pos[s] = End(s, t) + m /\ End(s, t + 1) = End(s, t) + Len(f)
      BY <2>5, Zenon
    <3> QED
      BY <3>2, <3>3, Zenon
  <2> QED
    BY <1>4, <2>1, <2>4, <2>6, <2>7, Zenon
<1>5. CASE ~(t < Len(ends[s]))
  <2>1. t = Len(ends[s])
    BY <1>1, <1>5
  <2>2. buf[s] = <<>>
    BY <1>5, Zenon DEF StreamOK, Within
  <2>3. Len(written[s]) = End(s, t)
    BY <2>1, Zenon DEF StreamOK, Framed
  <2>4. PICK f \in Expect(s, t + 1) : Paces(p, stage, f)
    BY Zenon
  <2>5. f \in Seq(Byte) /\ Len(f) > 0 /\ 0 \in 0 .. Len(f) /\ SubSeq(f, 1, 0) = <<>>
    BY <2>4 DEF Paces
  <2> DEFINE w == Asks(p, stage, <<>>)
  <2>6. \/ w = Refused
        \/ w \in 1 .. Len(f)
    <3>1. Boundary(<<>>)
      BY DEF Boundary
    <3>2. Pace(p, stage, f, 0)
      BY <2>4, <2>5, <3>1, Zenon DEF Paces
    <3> QED
      BY <2>5, <3>2, Zenon DEF Pace
  <2>7. Sure(p, stage, f) => w # Refused
    <3>1. Boundary(<<>>)
      BY DEF Boundary
    <3> QED
      BY <2>5, <3>1, Zenon DEF Sure
  <2>8. n = w - 0
    BY <2>2, Zenon
  <2> HIDE DEF w
  <2>9. n \in Int /\ n # 0 /\ (w # Refused => n >= 0) /\ (n > 0 => ~(n <= 0))
    BY <2>5, <2>6, <2>8 DEF Refused
  <2>10. Len(written[s]) - pos[s] = 0
    <3>1. Len(buf[s]) = 0
      BY <2>2
    <3> QED
      BY <1>2, <1>3, <2>3, <3>1
  <2> QED
    BY <2>4, <2>7, <2>9, <2>10, Zenon
<1> QED
  BY <1>4, <1>5, Zenon

-----------------------------------------------------------------------------
(* The parties.                                                            *)

(* The expected frames, one by one.                                        *)
LEMMA ExpectIs ==
    ASSUME auth \in BOOLEAN
    PROVE  /\ \A k : Expect("cg", k) = {Script[k]}
           /\ Expect("gc", 1) = {MethodBytes(IF Offered THEN Offer ELSE NO_ACCEPTABLE)}
           /\ auth => Expect("gc", 2) = {auth_reply_bytes(Cred = Expected)}
           /\ Expect("gc", Rounds) = {simple_reply(SUCCESS),
                                      simple_reply(COMMAND_NOT_SUPPORTED)}
           /\ Expect("gn", 1) = {GreetingBytes(VERSION, <<NO_AUTH>>)}
           /\ Expect("gn", 2) = {RequestBytes(CONNECT, 0, client.addr)}
           /\ Expect("ng", 1) = {MethodBytes(NO_AUTH)}
           /\ Expect("ng", 2) = {simple_reply(code) : code \in 0 .. 255}
           /\ Cap("cg") = Len(Script) /\ Cap("gc") = Rounds
           /\ Cap("gn") = 2 /\ Cap("ng") = 2
           /\ Rounds = (IF auth THEN 3 ELSE 2)
<1>1. /\ \A k : Expect("cg", k) = {Script[k]}
      /\ \A k : Expect("gc", k) = Answer(k)
      /\ Expect("gn", 1) = {GreetingBytes(VERSION, <<NO_AUTH>>)}
      /\ Expect("gn", 2) = {RequestBytes(CONNECT, 0, client.addr)}
      /\ Expect("ng", 1) = {MethodBytes(NO_AUTH)}
      /\ Expect("ng", 2) = {simple_reply(code) : code \in 0 .. 255}
  BY DEF Expect
<1>2. Answer(1) = {MethodBytes(IF Offered THEN Offer ELSE NO_ACCEPTABLE)}
  BY Zenon DEF Answer
<1>3. auth => Answer(2) = {auth_reply_bytes(Cred = Expected)}
  BY DEF Answer
<1>4. Answer(Rounds) = {simple_reply(SUCCESS), simple_reply(COMMAND_NOT_SUPPORTED)}
  BY DEF Answer, Rounds
<1>5. /\ Cap("cg") = Len(Script) /\ Cap("gc") = Rounds /\ Cap("gn") = 2 /\ Cap("ng") = 2
  BY Zenon DEF Cap
<1> QED
  BY <1>1, <1>2, <1>3, <1>4, <1>5, Zenon DEF Rounds

(* How many frames the parties send each other.                            *)
LEMMA Caps ==
    ASSUME auth \in BOOLEAN
    PROVE  /\ Cap("cg") = Len(Script) /\ Cap("gc") = Rounds
           /\ Cap("gn") = 2 /\ Cap("ng") = 2 /\ Rounds = (IF auth THEN 3 ELSE 2)
BY Zenon DEF Cap, Rounds

(* The client sends its script.                                            *)
LEMMA Scripted == \A k : Expect("cg", k) = {Script[k]}
BY Zenon DEF Expect

(* Where the bytes of the protocol lie.                                    *)
LEMMA Constants ==
    /\ VERSION \in Byte /\ AUTH_VERSION \in Byte /\ NO_AUTH \in Byte /\ USER_PASS \in Byte
    /\ NO_ACCEPTABLE \in Byte /\ CONNECT \in Byte /\ SUCCESS \in Byte
    /\ COMMAND_NOT_SUPPORTED \in Byte /\ 0 \in Byte /\ 1 \in Byte
    /\ \A c \in 0 .. 255 : c \in Byte
    /\ \A c \in Byte : c \in 0 .. 255
    /\ <<NO_AUTH>> \in Text /\ <<NO_AUTH>> # <<>>
<1>1. /\ VERSION \in Byte /\ AUTH_VERSION \in Byte /\ NO_AUTH \in Byte /\ USER_PASS \in Byte
      /\ NO_ACCEPTABLE \in Byte /\ CONNECT \in Byte /\ SUCCESS \in Byte
      /\ COMMAND_NOT_SUPPORTED \in Byte /\ 0 \in Byte /\ 1 \in Byte
      /\ \A c \in 0 .. 255 : c \in Byte
      /\ \A c \in Byte : c \in 0 .. 255
  BY DEF VERSION, AUTH_VERSION, NO_AUTH, USER_PASS, NO_ACCEPTABLE, CONNECT, SUCCESS,
         COMMAND_NOT_SUPPORTED, Byte
<1>2. <<NO_AUTH>> \in Seq(Byte) /\ Len(<<NO_AUTH>>) < 256 /\ <<NO_AUTH>> # <<>>
  BY <1>1
<1> QED
  BY <1>1, <1>2, Zenon DEF Text

(* A party that reads frames of its stream is at the right one: it paces   *)
(* what its peer writes there, and does not give up on a welcome client.   *)
OnTrack(p, s) ==
    /\ taken[s] \in Nat /\ taken[s] < Cap(s)
    /\ Expect(s, taken[s] + 1) # {}
    /\ \A f \in Expect(s, taken[s] + 1) : Paces(p, at[p], f)
    /\ Welcome => \A f \in Expect(s, taken[s] + 1) : Sure(p, at[p], f)
    /\ at[p] = "credentials" => Boundary(buf[s])

(* The client, whatever answer it waits for.                               *)
LEMMA ClientOnTrack ==
    ASSUME HandshakeInv, Reading("client")
    PROVE  Incoming("client") = "gc" /\ OnTrack("client", "gc")
<1>1. client \in Clients /\ auth \in BOOLEAN /\ ClientInv
  BY Zenon DEF HandshakeInv, TypeOK
<1>2. Incoming("client") = "gc"
  BY Zenon DEF Incoming, Source
<1>3. at["client"] \in {"method", "status", "reply"}
  BY <1>1, Zenon DEF ClientInv, Reading
<1>4. Offer \in Byte /\ Rounds \in {2, 3}
  BY Constants, Zenon DEF Offer, Rounds
<1>5. CASE at["client"] = "method"
  <2>1. taken["gc"] = 0 /\ 0 + 1 = 1 /\ 0 \in Nat
    BY <1>1, <1>5 DEF ClientInv
  <2> DEFINE y == IF Offered THEN Offer ELSE NO_ACCEPTABLE
  <2>2. y \in Byte
    BY <1>4, Constants, Zenon
  <2> HIDE DEF y
  <2>3. Expect("gc", taken["gc"] + 1) = {<<VERSION, y>>}
    BY <1>1, <2>1, ExpectIs, Zenon DEF MethodBytes, y
  <2>4. Paces("client", "method", <<VERSION, y>>) /\ Sure("client", "method", <<VERSION, y>>)
    BY <2>2, Constants, ShortPaces, Zenon
  <2>5. taken["gc"] < Cap("gc")
    BY <1>1, <1>4, <2>1, Caps
  <2> QED
    BY <1>2, <1>5, <2>1, <2>3, <2>4, <2>5, Zenon DEF OnTrack
<1>6. CASE at["client"] = "status"
  <2>1. taken["gc"] = 1 /\ auth /\ 1 + 1 = 2 /\ 1 \in Nat
    BY <1>1, <1>6 DEF ClientInv
  <2> DEFINE y == IF Cred = Expected THEN 0 ELSE 1
  <2>2. y \in Byte
    BY Constants, Zenon
  <2> HIDE DEF y
  <2>3. Expect("gc", taken["gc"] + 1) = {<<AUTH_VERSION, y>>}
    BY <1>1, <2>1, ExpectIs, Zenon DEF auth_reply_bytes, y
  <2>4. /\ Paces("client", "status", <<AUTH_VERSION, y>>)
        /\ Sure("client", "status", <<AUTH_VERSION, y>>)
    BY <2>2, Constants, ShortPaces, Zenon
  <2>5. taken["gc"] < Cap("gc")
    BY <1>1, <2>1, Caps
  <2> QED
    BY <1>2, <1>6, <2>1, <2>3, <2>4, <2>5, Zenon DEF OnTrack
<1>7. CASE at["client"] = "reply"
  <2>1. taken["gc"] = Rounds - 1
    BY <1>1, <1>7, Zenon DEF ClientInv
  <2>2. taken["gc"] + 1 = Rounds /\ taken["gc"] \in Nat /\ taken["gc"] < Rounds
    BY <1>4, <2>1
  <2>3. Expect("gc", taken["gc"] + 1) = {simple_reply(SUCCESS),
                                         simple_reply(COMMAND_NOT_SUPPORTED)}
    BY <1>1, <2>2, ExpectIs, Zenon
  <2>4. \A f \in Expect("gc", taken["gc"] + 1) :
           Paces("client", "reply", f) /\ Sure("client", "reply", f)
    BY <2>3, Constants, ReplyPaces
  <2>5. taken["gc"] < Cap("gc")
    BY <1>1, <2>2, Caps, Zenon
  <2> QED
    BY <1>2, <1>7, <2>2, <2>3, <2>4, <2>5, Zenon DEF OnTrack
<1> QED
  BY <1>3, <1>5, <1>6, <1>7, Zenon

(* The node, at the greeting and at the request of the gateway.            *)
LEMMA NodeOnTrack ==
    ASSUME HandshakeInv, Reading("node")
    PROVE  Incoming("node") = "gn" /\ OnTrack("node", "gn")
<1>1. client \in Clients /\ auth \in BOOLEAN /\ NodeInv
  BY Zenon DEF HandshakeInv, TypeOK
<1>2. Incoming("node") = "gn"
  BY Zenon DEF Incoming, Source
<1>3. at["node"] \in {"greeting", "request"}
  BY <1>1, Zenon DEF NodeInv, Reading
<1>4. client.addr \in ClientAddr
  BY <1>1, ClientParts, Zenon
<1>5. CASE at["node"] = "greeting"
  <2>1. taken["gn"] = 0 /\ 0 + 1 = 1 /\ 0 \in Nat
    BY <1>1, <1>5 DEF NodeInv
  <2>2. Expect("gn", taken["gn"] + 1) = {GreetingBytes(VERSION, <<NO_AUTH>>)}
    BY <1>1, <2>1, ExpectIs, Zenon
  <2>3. /\ Paces("node", "greeting", GreetingBytes(VERSION, <<NO_AUTH>>))
        /\ Sure("node", "greeting", GreetingBytes(VERSION, <<NO_AUTH>>))
    BY Constants, GreetingPaces, Zenon
  <2>4. taken["gn"] < Cap("gn")
    BY <1>1, <2>1, Caps
  <2> QED
    BY <1>2, <1>5, <2>1, <2>2, <2>3, <2>4, Zenon DEF OnTrack
<1>6. CASE at["node"] = "request"
  <2>1. taken["gn"] = 1 /\ 1 + 1 = 2 /\ 1 \in Nat
    BY <1>1, <1>6 DEF NodeInv
  <2>2. Expect("gn", taken["gn"] + 1) = {RequestBytes(CONNECT, 0, client.addr)}
    BY <1>1, <2>1, ExpectIs, Zenon
  <2>3. /\ Paces("node", "request", RequestBytes(CONNECT, 0, client.addr))
        /\ Proper(client.addr) => Sure("node", "request", RequestBytes(CONNECT, 0, client.addr))
    BY <1>4, Constants, RequestPaces, Zenon
  <2>4. taken["gn"] < Cap("gn")
    BY <1>1, <2>1, Caps
  <2>5. Welcome => Proper(client.addr)
    BY Zenon DEF Welcome
  <2> QED
    BY <1>2, <1>6, <2>1, <2>2, <2>3, <2>4, <2>5, Zenon DEF OnTrack
<1> QED
  BY <1>3, <1>5, <1>6, Zenon

(* Whatever bytes it has, read_request asks for some number of them.       *)
LEMMA RequestInt ==
    ASSUME NEW b \in Seq(Byte)
    PROVE  read_request(b) \in Int /\ (read_request(b) = Len(b) => Len(b) > 0)
<1>1. CASE Len(b) < 4
  <2>1. read_request(b) = 4
    BY <1>1, Zenon DEF read_request
  <2> QED
    BY <2>1
<1>2. CASE Len(b) >= 4
  <2>1. b[4] \in Nat
    BY <1>2 DEF Byte
  <2>2. Len(b) > 4 => b[5] \in Nat
    BY <1>2 DEF Byte
  <2>3. \A d \in Nat : addr_len(b[4], d) \in Nat
    BY DEF addr_len
  <2> DEFINE c == IF b[4] = DOMAIN_NAME THEN b[5] ELSE 0
             l == addr_len(b[4], c)
  <2>4. read_request(b) = IF b[4] = DOMAIN_NAME /\ Len(b) = 4 THEN 5
                          ELSE IF l = 0 THEN Refused ELSE 4 + l
    BY <1>2 DEF read_request
  <2>5. ~(b[4] = DOMAIN_NAME /\ Len(b) = 4) => c \in Nat
    <3>1. \A x \in Nat : x >= 4 /\ x # 4 => x > 4
      OBVIOUS
    <3>2. Len(b) \in Nat
      OBVIOUS
    <3>3. b[4] = DOMAIN_NAME /\ Len(b) # 4 => b[5] \in Nat
      BY <1>2, <2>2, <3>1, <3>2, Zenon
    <3> QED
      BY <3>3, Zenon
  <2>6. ~(b[4] = DOMAIN_NAME /\ Len(b) = 4) => l \in Nat
    BY <2>3, <2>5, Zenon
  <2> HIDE DEF l, c
  <2> QED
    BY <1>2, <2>4, <2>6 DEF Refused
<1> QED
  BY <1>1, <1>2

(* The gateway, on the side of the client and on that of the node.         *)
LEMMA GatewayOnTrack ==
    ASSUME HandshakeInv, Reading("gateway"), ~Exempt(Incoming("gateway"))
    PROVE  /\ Incoming("gateway") \in {"cg", "ng"}
           /\ OnTrack("gateway", Incoming("gateway"))
<1>1. client \in Clients /\ auth \in BOOLEAN /\ GatewayInv
  BY Zenon DEF HandshakeInv, TypeOK
<1>2. /\ at["gateway"] \in {"greeting", "credentials", "request"} => Incoming("gateway") = "cg"
      /\ at["gateway"] \in {"method", "reply"} => Incoming("gateway") = "ng"
  BY Zenon DEF Incoming, Source
<1>3. at["gateway"] \in {"greeting", "credentials", "request", "method", "reply"}
  BY <1>1, Zenon DEF GatewayInv, Reading
<1>4. /\ client.ver \in Byte /\ client.methods \in Text
      /\ client.user \in Text /\ client.password \in Text
      /\ client.command \in Byte /\ client.rsv \in Byte
      /\ client.addr \in ClientAddr
  BY <1>1, ClientParts, Zenon
<1>5. /\ Welcome => client.methods # <<>> /\ Proper(client.addr)
      /\ Welcome => (auth <=> HasCredentials)
  BY DEF Welcome
<1>6. CASE at["gateway"] = "greeting"
  <2> DEFINE f == GreetingBytes(client.ver, client.methods)
  <2>1. taken["cg"] = 0 /\ 0 + 1 = 1 /\ 0 \in Nat
    BY <1>1, <1>6 DEF GatewayInv
  <2>2. Expect("cg", taken["cg"] + 1) = {f}
    BY <1>1, <2>1, ExpectIs, ScriptIs
  <2>3. Paces("gateway", "greeting", f) /\ (client.methods # <<>> => Sure("gateway", "greeting", f))
    BY <1>4, GreetingPaces, Zenon
  <2>4. taken["cg"] < Cap("cg")
    BY <1>1, <2>1, Caps, ScriptIs
  <2> HIDE DEF f
  <2> QED
    BY <1>2, <1>5, <1>6, <2>1, <2>2, <2>3, <2>4, Zenon DEF OnTrack
<1>7. CASE at["gateway"] = "credentials"
  <2>1. taken["cg"] = 1 /\ 1 + 1 = 2 /\ 1 \in Nat /\ auth /\ Boundary(buf["cg"])
    BY <1>1, <1>7 DEF GatewayInv
  <2>2. Expect("cg", taken["cg"] + 1) = {Script[2]}
    BY <1>1, <2>1, ExpectIs, Zenon
  <2>3. /\ Paces("gateway", "credentials", Script[2])
        /\ HasCredentials => Sure("gateway", "credentials", Script[2])
    <3>1. CASE HasCredentials
      <4> DEFINE f == CredentialBytes(client.user, client.password)
      <4>1. Paces("gateway", "credentials", f) /\ Sure("gateway", "credentials", f)
        BY <1>4, <3>1, CredentialPaces, Zenon DEF HasCredentials
      <4>2. Script[2] = f
        BY <3>1, ScriptIs, Zenon
      <4> QED
        BY <4>1, <4>2, Zenon
    <3>2. CASE ~HasCredentials
      <4> DEFINE f == RequestBytes(client.command, client.rsv, client.addr)
      <4>1. Paces("gateway", "credentials", f)
        BY <1>4, RequestForCredentials, Zenon
      <4>2. Script[2] = f
        BY <3>2, ScriptIs, Zenon
      <4> QED
        BY <3>2, <4>1, <4>2, Zenon
    <3> QED
      BY <3>1, <3>2, Zenon
  <2>4. taken["cg"] < Cap("cg")
    BY <1>1, <2>1, Caps, ScriptIs
  <2> QED
    BY <1>2, <1>5, <1>7, <2>1, <2>2, <2>3, <2>4, Zenon DEF OnTrack
<1>8. CASE at["gateway"] = "request"
  <2> DEFINE f == RequestBytes(client.command, client.rsv, client.addr)
  <2>1. taken["cg"] = Rounds - 1 /\ (auth => HasCredentials)
    BY <1>1, <1>8, Zenon DEF GatewayInv
  <2>2. auth <=> HasCredentials
    <3>1. ~Exempt("cg")
      BY <1>2, <1>8, Zenon
    <3> QED
      BY <2>1, <3>1 DEF Exempt, Rounds
  <2>3. Len(Script) = Rounds /\ Rounds \in {2, 3}
    BY <1>1, <2>2, ScriptIs, Zenon DEF Rounds
  <2>4. taken["cg"] \in Nat /\ taken["cg"] + 1 = Len(Script) /\ taken["cg"] < Len(Script)
    BY <2>1, <2>3
  <2>5. Script[taken["cg"] + 1] = f
    BY <2>4, ScriptIs, Zenon
  <2>6. Expect("cg", taken["cg"] + 1) = {f}
    BY <1>1, <2>5, ExpectIs, Zenon
  <2>7. Paces("gateway", "request", f) /\ (Proper(client.addr) => Sure("gateway", "request", f))
    BY <1>4, RequestPaces, Zenon
  <2>8. taken["cg"] < Cap("cg")
    BY <1>1, <2>4, Caps, Zenon
  <2> HIDE DEF f
  <2> QED
    BY <1>2, <1>5, <1>8, <2>4, <2>6, <2>7, <2>8, Zenon DEF OnTrack
<1>9. CASE at["gateway"] = "method"
  <2>1. taken["ng"] = 0 /\ 0 + 1 = 1 /\ 0 \in Nat
    BY <1>1, <1>9 DEF GatewayInv
  <2>2. Expect("ng", taken["ng"] + 1) = {<<VERSION, NO_AUTH>>}
    BY <1>1, <2>1, ExpectIs, Zenon DEF MethodBytes
  <2>3. /\ Paces("gateway", "method", <<VERSION, NO_AUTH>>)
        /\ Sure("gateway", "method", <<VERSION, NO_AUTH>>)
    BY Constants, ShortPaces, Zenon
  <2>4. taken["ng"] < Cap("ng")
    BY <1>1, <2>1, Caps
  <2> QED
    BY <1>2, <1>9, <2>1, <2>2, <2>3, <2>4, Zenon DEF OnTrack
<1>10. CASE at["gateway"] = "reply"
  <2>1. taken["ng"] = 1 /\ 1 + 1 = 2 /\ 1 \in Nat
    BY <1>1, <1>10 DEF GatewayInv
  <2>2. Expect("ng", taken["ng"] + 1) = {simple_reply(code) : code \in 0 .. 255}
    BY <1>1, <2>1, ExpectIs, Zenon
  <2>3. \A f \in Expect("ng", taken["ng"] + 1) :
           Paces("gateway", "reply", f) /\ Sure("gateway", "reply", f)
    BY <2>2, Constants, ReplyPaces
  <2>4. taken["ng"] < Cap("ng")
    BY <1>1, <2>1, Caps
  <2>5. Expect("ng", taken["ng"] + 1) # {}
    <3>1. 0 \in 0 .. 255
      OBVIOUS
    <3>2. simple_reply(0) \in Expect("ng", taken["ng"] + 1)
      BY <2>2, <3>1, Zenon
    <3> QED
      BY <3>2, Zenon
  <2> QED
    BY <1>2, <1>10, <2>1, <2>3, <2>4, <2>5, Zenon DEF OnTrack
<1> QED
  BY <1>2, <1>3, <1>6, <1>7, <1>8, <1>9, <1>10, Zenon

(* Where every reader is, and what it can do next.                         *)
LEMMA Reader ==
    ASSUME HandshakeInv, NEW p \in Parties, Reading(p),
           NEW s, s = Incoming(p), ~Exempt(s), NEW t, t = taken[s],
           NEW n, n = Missing(p)
    PROVE  /\ s \in Streams /\ n \in Int /\ t \in Nat
           /\ n > 0 /\ n <= Len(written[s]) - pos[s] =>
                 t < Len(ends[s]) /\ pos[s] + n <= End(s, t + 1)
           /\ n = 0 => /\ t < Len(ends[s]) /\ pos[s] = End(s, t + 1)
                       /\ buf[s] \in Expect(s, t + 1) /\ HoldsAt(s, t + 1, buf[s])
           /\ Welcome => n >= 0
<1>1. s \in Streams /\ OnTrack(p, s)
  BY ClientOnTrack, NodeOnTrack, GatewayOnTrack, Zenon DEF Parties, Streams
<1>2. client \in Clients /\ auth \in BOOLEAN /\ StreamOK(s)
  BY <1>1, Zenon DEF HandshakeInv, TypeOK
<1>3. n = Asks(p, at[p], buf[s]) - Len(buf[s])
  BY Zenon DEF Missing, Frame
<1>4. /\ t \in Nat /\ t < Cap(s) /\ Expect(s, t + 1) # {}
      /\ \A f \in Expect(s, t + 1) : Paces(p, at[p], f)
      /\ Welcome => \A f \in Expect(s, t + 1) : Sure(p, at[p], f)
      /\ at[p] = "credentials" => Boundary(buf[s])
  BY <1>1, Zenon DEF OnTrack
<1>5. /\ n \in Int
      /\ n > 0 /\ n <= Len(written[s]) - pos[s] =>
            t < Len(ends[s]) /\ pos[s] + n <= End(s, t + 1)
      /\ n = 0 => /\ t < Len(ends[s]) /\ pos[s] = End(s, t + 1)
                  /\ buf[s] \in Expect(s, t + 1) /\ HoldsAt(s, t + 1, buf[s])
      /\ (\A f \in Expect(s, t + 1) : Sure(p, at[p], f)) => n >= 0
  BY <1>1, <1>2, <1>3, <1>4, PacedReader, ZenonT(30)
<1> QED
  BY <1>1, <1>4, <1>5, Zenon

(* A reader that misses nothing holds the frame it expects.                *)
LEMMA Finished ==
    ASSUME HandshakeInv, NEW p \in Parties, Reading(p), Missing(p) = 0,
           NEW s, s = Incoming(p), ~Exempt(s), NEW t, t = taken[s]
    PROVE  /\ s \in Streams /\ t \in Nat /\ t < Len(ends[s]) /\ pos[s] = End(s, t + 1)
           /\ buf[s] \in Expect(s, t + 1) /\ HoldsAt(s, t + 1, buf[s])
<1>1. PICK n : n = Missing(p)
  BY Zenon
<1>2. /\ s \in Streams /\ n \in Int /\ t \in Nat
      /\ n > 0 /\ n <= Len(written[s]) - pos[s] =>
            t < Len(ends[s]) /\ pos[s] + n <= End(s, t + 1)
      /\ n = 0 => /\ t < Len(ends[s]) /\ pos[s] = End(s, t + 1)
                  /\ buf[s] \in Expect(s, t + 1) /\ HoldsAt(s, t + 1, buf[s])
      /\ Welcome => n >= 0
  BY <1>1, Reader
<1> QED
  BY <1>1, <1>2, Zenon

(* A gateway that reads credentials as a request finds no request.         *)
LEMMA ExemptReader ==
    ASSUME HandshakeInv, NEW p \in Parties, Reading(p), Exempt(Incoming(p))
    PROVE  /\ p = "gateway" /\ at[p] = "request" /\ Incoming(p) = "cg"
           /\ Missing(p) \in Int /\ ~Welcome
           /\ Missing(p) = 0 => ParseRequest(Frame(p)) = Bad
<1>1. /\ client \in Clients /\ auth \in BOOLEAN /\ GatewayInv /\ StreamOK("cg")
  BY Zenon DEF HandshakeInv, TypeOK, Streams
<1>2. p = "gateway" /\ Incoming(p) = "cg"
  BY Zenon DEF Exempt, Incoming, Source, Parties
<1>3. Exempt("cg")
  BY <1>2, Zenon
<1>4. HasCredentials /\ ~auth /\ taken["cg"] = 1
  BY <1>3, Zenon DEF Exempt
<1>5. at["gateway"] = "request"
  BY <1>1, <1>2, <1>4 DEF GatewayInv, Reading, Incoming, Source
<1>6. ~Welcome
  BY <1>4, Zenon DEF Welcome
<1> DEFINE b == buf["cg"]
           w == written["cg"]
           e == End("cg", 1)
<1>7. b \in Seq(Byte) /\ Frame(p) = b /\ Missing(p) = read_request(b) - Len(b)
  <2>1. Asks(p, at[p], b) = read_request(b)
    BY <1>2, <1>5, Zenon DEF Asks
  <2> QED
    BY <1>1, <1>2, <2>1, Zenon DEF Frame, Missing, StreamOK, StreamType
<1>8. b # <<>> => b[1] = AUTH_VERSION
  <2> SUFFICES ASSUME b # <<>> PROVE b[1] = AUTH_VERSION
    BY Zenon
  <2>1. /\ w \in Seq(Byte) /\ ends["cg"] \in Seq(Nat) /\ pos["cg"] \in Nat
        /\ 1 <= Len(ends["cg"]) /\ pos["cg"] <= Len(w) /\ Len(ends["cg"]) \in Nat
    BY <1>1, <1>4 DEF StreamOK, StreamType
  <2>2. e \in Nat
    <3>1. 1 \in 0 .. Len(ends["cg"])
      BY <2>1
    <3> QED
      BY <1>1, <3>1, EndsInside, Zenon DEF StreamOK
  <2>3. b = SubSeq(w, e + 1, pos["cg"]) /\ pos["cg"] = e + Len(b)
    BY <1>1, <1>4, Zenon DEF StreamOK, Placed
  <2>4. Len(b) \in Nat /\ Len(b) > 0
    BY <1>7
  <2>5. Cap("cg") = 3
    BY <1>1, <1>4, ExpectIs, ScriptIs, Zenon
  <2>6. 2 <= Len(ends["cg"])
    <3>0. Len(ends["cg"]) \in Nat /\ 1 <= Len(ends["cg"])
      BY <2>1, Zenon
    <3>a. \A x \in Nat : 1 <= x /\ x # 1 => 2 <= x
      OBVIOUS
    <3> SUFFICES ASSUME Len(ends["cg"]) = 1 PROVE FALSE
      BY <3>0, <3>a, Zenon
    <3>1. Len(w) = e
      BY <1>1, <2>5 DEF StreamOK, Framed
    <3>2. pos["cg"] = e + Len(b) /\ pos["cg"] <= Len(w)
      BY <2>1, <2>3, Zenon
    <3> HIDE DEF e, w, b
    <3> QED
      BY <2>2, <2>4, <3>1, <3>2
  <2>7. HoldsAt("cg", 2, Script[2])
    <3>1. 2 \in 1 .. Len(ends["cg"])
      BY <2>1, <2>6
    <3>2. PICK f \in Expect("cg", 2) : HoldsAt("cg", 2, f)
      BY <1>1, <3>1, Zenon DEF StreamOK, Framed
    <3>3. f = Script[2]
      BY <1>1, <3>2, ExpectIs, Zenon
    <3> QED
      BY <3>2, <3>3, Zenon
  <2>8. Len(Script[2]) \in Nat /\ Len(Script[2]) >= 2 /\ Script[2][1] = AUTH_VERSION
    <3>1. client.user \in Text /\ client.password \in Text
      BY <1>1, ClientParts, Zenon
    <3>2. ASSUME NEW u \in Text, NEW v \in Text, NEW g, g = CredentialBytes(u, v)
          PROVE  Len(g) \in Nat /\ Len(g) >= 2 /\ g[1] = AUTH_VERSION
      BY <3>2, CredentialLayout
    <3>3. Script[2] = CredentialBytes(client.user, client.password)
      BY <1>4, ScriptIs, Zenon
    <3> QED
      BY <3>1, <3>2, <3>3, Zenon
  <2>9. w[e + 1] = AUTH_VERSION
    <3>1. 1 \in 1 .. Len(Script[2]) /\ 2 - 1 = 1
      BY <2>8
    <3>2. w[e + 1] = Script[2][1]
      BY <2>7, <3>1, Zenon DEF HoldsAt
    <3> QED
      BY <2>8, <3>2, Zenon
  <2>10. SubSeq(w, e + 1, pos["cg"])[1] = w[e + 1]
    <3> DEFINE q == pos["cg"]
    <3>1. w \in Seq(Byte) /\ q \in Nat /\ q <= Len(w) /\ q = e + Len(b)
      BY <2>1, <2>3, Zenon
    <3> HIDE DEF w, e, q, b
    <3>2. e + 1 <= q
      BY <2>2, <2>4, <3>1
    <3>3. SubSeq(w, e + 1, q)[1] = w[e + 1]
      BY <2>2, <3>1, <3>2
    <3> QED
      BY <3>3, Zenon DEF q
  <2> QED
    BY <2>3, <2>9, <2>10, Zenon
<1> HIDE DEF b
<1>9. read_request(b) \in Int /\ (read_request(b) = Len(b) => Len(b) > 0)
  BY <1>7, RequestInt, Zenon
<1>10. Missing(p) = 0 => ParseRequest(b) = Bad
  <2> SUFFICES ASSUME Missing(p) = 0 PROVE ParseRequest(b) = Bad
    BY Zenon
  <2>1. read_request(b) = Len(b) /\ Len(b) > 0
    BY <1>7, <1>9
  <2>2. b[1] = AUTH_VERSION
    BY <1>7, <1>8, <2>1
  <2>3. AUTH_VERSION # VERSION
    BY DEF AUTH_VERSION, VERSION
  <2> QED
    BY <2>2, <2>3, Zenon DEF ParseRequest
<1>11. Missing(p) \in Int
  BY <1>7, <1>9
<1> QED
  BY <1>2, <1>5, <1>6, <1>7, <1>10, <1>11, Zenon

-----------------------------------------------------------------------------
(* Steps.                                                                  *)

(* The functions of the state, without what they hold.                     *)
Shape == /\ client \in Clients /\ auth \in BOOLEAN /\ at \in [Parties -> Stages]
         /\ written = [s \in Streams |-> written[s]] /\ ends = [s \in Streams |-> ends[s]]
         /\ arrived = [s \in Streams |-> arrived[s]] /\ pos = [s \in Streams |-> pos[s]]
         /\ buf = [s \in Streams |-> buf[s]] /\ taken = [s \in Streams |-> taken[s]]

(* The type invariant, stream by stream.                                   *)
LEMMA ShapeIs == TypeOK => Shape /\ \A s \in Streams : StreamType(s)
BY Zenon DEF TypeOK, Shape, StreamType

(* The types of the streams make up the type invariant.                    *)
LEMMA TypeIs ==
    ASSUME Shape', \A s \in Streams : StreamOK(s)'
    PROVE  TypeOK'
<1>1. \A s \in Streams : StreamType(s)'
  BY Zenon DEF StreamOK
<1> QED
  BY <1>1, Zenon DEF TypeOK, Shape, StreamType

(* What one party does to the control, to what was read, and to what was   *)
(* written.                                                                *)
Moved(p, stage) == at'[p] = stage /\ \A q \in Parties \ {p} : at'[q] = at[q]

Took(s) == /\ taken'[s] = taken[s] + 1
           /\ \A x \in Streams \ {s} : taken'[x] = taken[x] /\ buf'[x] = buf[x]

Sent(u, n, c) ==
    /\ Len(ends'[u]) = n + 1 /\ Code(u, n + 1)' = c
    /\ \A x \in Streams \ {u} : ends'[x] = ends[x] /\ \A k : Code(x, k)' = Code(x, k)

Mute == \A x \in Streams : ends'[x] = ends[x] /\ \A k : Code(x, k)' = Code(x, k)

(* The effect of Accept and of Writes, stream by stream.                   *)
LEMMA AcceptEffect ==
    ASSUME Shape, NEW p \in Parties, NEW stage \in Stages, Accept(p, stage),
           NEW s \in Streams, s = Incoming(p)
    PROVE  /\ Steady /\ Moved(p, stage) /\ at' \in [Parties -> Stages]
           /\ buf' = [x \in Streams |-> buf'[x]] /\ taken' = [x \in Streams |-> taken'[x]]
           /\ arrived' = arrived /\ pos' = pos /\ buf'[s] = <<>>
           /\ Took(s)
<1>1. /\ at' = [at EXCEPT ![p] = stage]
      /\ buf' = [buf EXCEPT ![s] = <<>>]
      /\ taken' = [taken EXCEPT ![s] = taken[s] + 1]
      /\ arrived' = arrived /\ pos' = pos /\ client' = client /\ auth' = auth
  BY Zenon DEF Accept, stable
<1>2. at' \in [Parties -> Stages] /\ Moved(p, stage)
  BY <1>1, Zenon DEF Shape, Moved
<1>3. /\ buf' = [x \in Streams |-> buf'[x]] /\ buf'[s] = <<>>
      /\ \A x \in Streams \ {s} : buf'[x] = buf[x]
  BY <1>1, Zenon DEF Shape
<1>4. /\ taken' = [x \in Streams |-> taken'[x]] /\ taken'[s] = taken[s] + 1
      /\ \A x \in Streams \ {s} : taken'[x] = taken[x]
  BY <1>1, Zenon DEF Shape
<1> QED
  BY <1>1, <1>2, <1>3, <1>4, Zenon DEF Steady, Took

(* Writing changes one stream.                                             *)
LEMMA WritesEffect ==
    ASSUME Shape, NEW u \in Streams, NEW f, NEW data, Writes(u, f, data)
    PROVE  /\ written' = [x \in Streams |-> written'[x]] /\ ends' = [x \in Streams |-> ends'[x]]
           /\ written'[u] = written[u] \o (f \o data)
           /\ ends'[u] = Append(ends[u], Len(written[u]) + Len(f))
           /\ \A x \in Streams \ {u} : written'[x] = written[x] /\ ends'[x] = ends[x]
<1>1. /\ written' = [written EXCEPT ![u] = written[u] \o (f \o data)]
      /\ ends' = [ends EXCEPT ![u] = Append(ends[u], Len(written[u]) + Len(f))]
  BY Zenon DEF Writes
<1> DEFINE w == written[u] \o (f \o data)
           e == Append(ends[u], Len(written[u]) + Len(f))
<1> HIDE DEF w, e
<1>2. written' = [written EXCEPT ![u] = w] /\ ends' = [ends EXCEPT ![u] = e]
  BY <1>1, Zenon DEF w, e
<1>3. /\ written' = [x \in Streams |-> written'[x]] /\ written'[u] = w
      /\ \A x \in Streams \ {u} : written'[x] = written[x]
  BY <1>2, Zenon DEF Shape
<1>4. /\ ends' = [x \in Streams |-> ends'[x]] /\ ends'[u] = e
      /\ \A x \in Streams \ {u} : ends'[x] = ends[x]
  BY <1>2, Zenon DEF Shape
<1> QED
  BY <1>3, <1>4, Zenon DEF w, e

(* A party accepts its frame and writes an answer somewhere.               *)
LEMMA Exchange ==
    ASSUME HandshakeInv, NEW p \in Parties, Reading(p), Missing(p) = 0,
           NEW s, s = Incoming(p), ~Exempt(s), NEW stage \in Stages, Accept(p, stage),
           NEW u \in Streams \ {s}, NEW f \in Seq(Byte), NEW data \in Seq(Byte),
           Writes(u, f, data), NEW n, n = Len(ends[u]), n < Cap(u), Len(f) >= 2,
           f \in Expect(u, n + 1), data = <<>> \/ n + 1 = Cap(u)
    PROVE  /\ TypeOK' /\ \A x \in Streams : StreamOK(x)'
           /\ Steady /\ Moved(p, stage) /\ Took(s) /\ Sent(u, n, f[2])
<1>1. Shape /\ client \in Clients /\ auth \in BOOLEAN /\ \A x \in Streams : StreamOK(x)
  BY ShapeIs, Zenon DEF HandshakeInv, TypeOK
<1>2. PICK t : t = taken[s]
  BY Zenon
<1>3. s \in Streams /\ t < Len(ends[s]) /\ pos[s] = End(s, t + 1)
  BY <1>2, Finished, Zenon
<1>4. /\ Steady /\ Moved(p, stage) /\ at' \in [Parties -> Stages]
      /\ buf' = [x \in Streams |-> buf'[x]] /\ taken' = [x \in Streams |-> taken'[x]]
      /\ arrived' = arrived /\ pos' = pos /\ buf'[s] = <<>>
      /\ Took(s)
  BY <1>1, <1>3, AcceptEffect, Zenon
<1>5. /\ written' = [x \in Streams |-> written'[x]] /\ ends' = [x \in Streams |-> ends'[x]]
      /\ written'[u] = written[u] \o (f \o data)
      /\ ends'[u] = Append(ends[u], Len(written[u]) + Len(f))
      /\ \A x \in Streams \ {u} : written'[x] = written[x] /\ ends'[x] = ends[x]
  BY <1>1, WritesEffect, Zenon
<1>6. Grows(u, f, data)
  BY <1>4, <1>5, Zenon DEF Grows, Took
<1>7. StreamOK(u)' /\ Len(ends'[u]) = n + 1 /\ Code(u, n + 1)' = f[2]
  BY <1>1, <1>4, <1>6, GrowsStream
<1>8. Turns(s)
  BY <1>3, <1>4, <1>5, Zenon DEF Turns, Took
<1>9. StreamOK(s)' /\ \A k : Code(s, k)' = Code(s, k)
  BY <1>1, <1>2, <1>3, <1>4, <1>8, TurnsStream, Zenon
<1>10. ASSUME NEW x \in Streams \ {s, u}
       PROVE  StreamOK(x)' /\ \A k : Code(x, k)' = Code(x, k)
  <2>1. Stands(x)
    BY <1>4, <1>5, Zenon DEF Stands, Took
  <2> QED
    BY <1>1, <1>4, <2>1, StandsStream, Zenon
<1>11. \A x \in Streams : StreamOK(x)'
  BY <1>7, <1>9, <1>10, Zenon
<1>12. Shape'
  BY <1>1, <1>4, <1>5, Zenon DEF Shape, Steady
<1>13. TypeOK'
  BY <1>11, <1>12, TypeIs, Zenon
<1>14. Sent(u, n, f[2])
  BY <1>5, <1>7, <1>9, <1>10, Zenon DEF Sent
<1> QED
  BY <1>4, <1>11, <1>13, <1>14, Zenon

(* A party accepts its frame and writes nothing.                           *)
LEMMA Listen ==
    ASSUME HandshakeInv, NEW p \in Parties, Reading(p), Missing(p) = 0,
           NEW s, s = Incoming(p), ~Exempt(s), NEW stage \in Stages, Accept(p, stage), Silence
    PROVE  /\ TypeOK' /\ \A x \in Streams : StreamOK(x)'
           /\ Steady /\ Moved(p, stage) /\ Took(s) /\ Mute
<1>1. Shape /\ \A x \in Streams : StreamOK(x)
  BY ShapeIs, Zenon DEF HandshakeInv
<1>2. PICK t : t = taken[s]
  BY Zenon
<1>3. s \in Streams /\ t < Len(ends[s]) /\ pos[s] = End(s, t + 1)
  BY <1>2, Finished, Zenon
<1>4. /\ Steady /\ Moved(p, stage) /\ at' \in [Parties -> Stages]
      /\ buf' = [x \in Streams |-> buf'[x]] /\ taken' = [x \in Streams |-> taken'[x]]
      /\ arrived' = arrived /\ pos' = pos /\ buf'[s] = <<>>
      /\ Took(s)
  BY <1>1, <1>3, AcceptEffect, Zenon
<1>5. written' = written /\ ends' = ends
  BY Zenon DEF Silence
<1>6. Turns(s)
  BY <1>3, <1>4, <1>5, Zenon DEF Turns, Took
<1>7. StreamOK(s)' /\ \A k : Code(s, k)' = Code(s, k)
  BY <1>1, <1>2, <1>3, <1>4, <1>6, TurnsStream, Zenon
<1>8. ASSUME NEW x \in Streams \ {s}
      PROVE  StreamOK(x)' /\ \A k : Code(x, k)' = Code(x, k)
  <2>1. Stands(x)
    BY <1>4, <1>5, Zenon DEF Stands, Took
  <2> QED
    BY <1>1, <1>4, <2>1, StandsStream, Zenon
<1>9. \A x \in Streams : StreamOK(x)'
  BY <1>7, <1>8, Zenon
<1>10. Shape'
  BY <1>1, <1>4, <1>5, Zenon DEF Shape, Steady
<1>11. TypeOK'
  BY <1>9, <1>10, TypeIs, Zenon
<1>12. Mute
  BY <1>5, <1>7, <1>8, Zenon DEF Mute
<1> QED
  BY <1>4, <1>9, <1>11, <1>12, Zenon

(* A party only changes its stage.                                         *)
LEMMA Idle ==
    ASSUME HandshakeInv, NEW p \in Parties, NEW stage \in Stages,
           at' = [at EXCEPT ![p] = stage], UNCHANGED <<stable, streams>>
    PROVE  /\ TypeOK' /\ \A x \in Streams : StreamOK(x)'
           /\ Steady /\ Moved(p, stage) /\ Mute /\ taken' = taken /\ buf' = buf
<1>1. Shape /\ \A x \in Streams : StreamOK(x)
  BY ShapeIs, Zenon DEF HandshakeInv
<1>2. /\ client' = client /\ auth' = auth /\ written' = written /\ ends' = ends
      /\ arrived' = arrived /\ pos' = pos /\ buf' = buf /\ taken' = taken
  BY Zenon DEF stable, streams
<1>3. at' \in [Parties -> Stages] /\ Moved(p, stage)
  BY <1>1, Zenon DEF Shape, Moved
<1>4. Steady
  BY <1>2, Zenon DEF Steady
<1>5. ASSUME NEW x \in Streams
      PROVE  StreamOK(x)' /\ \A k : Code(x, k)' = Code(x, k)
  <2>1. Stands(x)
    BY <1>2, Zenon DEF Stands
  <2> QED
    BY <1>1, <1>4, <2>1, StandsStream, Zenon
<1>6. Shape'
  BY <1>1, <1>2, <1>3, Zenon DEF Shape
<1>7. TypeOK'
  BY <1>5, <1>6, TypeIs, Zenon
<1>8. Mute
  BY <1>2, <1>5, Zenon DEF Mute
<1> QED
  BY <1>2, <1>3, <1>4, <1>5, <1>7, <1>8, Zenon

(* The data after a handshake is bytes.                                    *)
LEMMA PayloadIs == Payload \in Seq(Byte) /\ <<>> \in Seq(Byte)
<1>1. VERSION \in Byte /\ 171 \in Byte
  BY DEF VERSION, Byte
<1> QED
  BY <1>1 DEF Payload

(* A byte arrives.                                                         *)
LEMMA ArriveEffect ==
    ASSUME HandshakeInv, NEW s \in Streams, Arrive(s)
    PROVE  /\ TypeOK' /\ \A x \in Streams : StreamOK(x)'
           /\ Steady /\ Mute /\ at' = at /\ taken' = taken /\ buf' = buf
           /\ request' = request /\ dialled' = dialled
<1>1. Shape /\ \A x \in Streams : StreamOK(x)
  BY ShapeIs, Zenon DEF HandshakeInv
<1>2. /\ client' = client /\ auth' = auth /\ written' = written /\ ends' = ends
      /\ at' = at /\ pos' = pos /\ buf' = buf /\ taken' = taken
      /\ request' = request /\ dialled' = dialled
      /\ arrived' = [arrived EXCEPT ![s] = arrived[s] + 1]
      /\ arrived[s] < Len(written[s])
  BY Zenon DEF Arrive, stable
<1>3. Steady
  BY <1>2, Zenon DEF Steady
<1>4. /\ arrived' = [x \in Streams |-> arrived'[x]] /\ arrived'[s] = arrived[s] + 1
      /\ \A x \in Streams \ {s} : arrived'[x] = arrived[x]
  BY <1>1, <1>2, Zenon DEF Shape
<1>5. ASSUME NEW x \in Streams
      PROVE  StreamOK(x)' /\ \A k : Code(x, k)' = Code(x, k)
  <2>1. CASE x = s
    <3>1. arrived[s] \in Nat /\ Len(written[s]) \in Nat
      BY <1>1 DEF StreamOK, StreamType
    <3>2. arrived'[s] <= Len(written[s])
      BY <1>2, <1>4, <3>1
    <3>3. Delivers(x)
      BY <1>2, <1>4, <2>1, <3>2, Zenon DEF Delivers
    <3> QED
      BY <1>1, <1>3, <3>3, StandsStream, Zenon
  <2>2. CASE x # s
    <3>1. Stands(x)
      BY <1>2, <1>4, <2>2, Zenon DEF Stands
    <3> QED
      BY <1>1, <1>3, <3>1, StandsStream, Zenon
  <2> QED
    BY <2>1, <2>2, Zenon
<1>6. Shape'
  BY <1>1, <1>2, <1>4, Zenon DEF Shape
<1>7. TypeOK'
  BY <1>5, <1>6, TypeIs, Zenon
<1>8. Mute
  BY <1>2, <1>5, Zenon DEF Mute
<1> QED
  BY <1>2, <1>3, <1>5, <1>7, <1>8, Zenon

(* handle_user_pass_auth stops at its lengths only.                        *)
LEMMA BoundaryKept ==
    ASSUME NEW b \in Seq(Byte), NEW c \in Seq(Byte), Boundary(b), Len(c) > 0,
           Len(c) = handle_user_pass_auth(b) - Len(b)
    PROVE  Boundary(b \o c)
<1> DEFINE d == b \o c
           v == handle_user_pass_auth(b)
<1>1. /\ d \in Seq(Byte) /\ Len(d) = Len(b) + Len(c)
      /\ \A i \in 1 .. Len(b) : d[i] = b[i]
  BY Joined, Zenon
<1>2. Len(b) \in Nat /\ Len(c) \in Nat
  OBVIOUS
<1> HIDE DEF d
<1>3. CASE Len(b) = 0
  <2>1. v = 1
    BY <1>3 DEF handle_user_pass_auth
  <2>2. Len(d) <= 2
    BY <1>1, <1>2, <1>3, <2>1
  <2> QED
    BY <2>2, Zenon DEF Boundary, d
<1>4. CASE Len(b) = 1
  <2>1. v \in {2, Refused}
    BY <1>4, Zenon DEF handle_user_pass_auth
  <2> HIDE DEF v
  <2>2. Len(c) = v - 1
    BY <1>4, Zenon DEF v
  <2>3. Len(d) <= 2
    BY <1>1, <1>2, <1>4, <2>1, <2>2 DEF Refused
  <2> QED
    BY <2>3, Zenon DEF Boundary, d
<1>5. CASE Len(b) >= 2
  <2>1. d[2] = b[2] /\ b[2] \in Nat
    BY <1>1, <1>5 DEF Byte
  <2>2. CASE Len(b) = 2
    <3>1. v \in {2 + b[2], Refused}
      BY <2>2 DEF handle_user_pass_auth
    <3> HIDE DEF v
    <3>2. Len(c) = v - 2
      BY <2>2, Zenon DEF v
    <3>3. Len(d) >= 2 + d[2]
      BY <1>1, <1>2, <2>1, <2>2, <3>1, <3>2 DEF Refused
    <3> QED
      BY <3>3, Zenon DEF Boundary, d
  <2>3. CASE Len(b) # 2
    <3>1. \A x \in Nat : x >= 2 /\ x # 2 => ~(x <= 2)
      OBVIOUS
    <3>2. Len(b) >= 2 + b[2]
      BY <1>2, <1>5, <2>3, <3>1, Zenon DEF Boundary
    <3>3. Len(d) >= 2 + d[2]
      BY <1>1, <1>2, <2>1, <3>2
    <3> QED
      BY <3>3, Zenon DEF Boundary, d
  <2> QED
    BY <2>2, <2>3, Zenon
<1>6. \A x \in Nat : x = 0 \/ x = 1 \/ x >= 2
  OBVIOUS
<1> QED
  BY <1>2, <1>3, <1>4, <1>5, <1>6, Zenon

(* A party reads what it asks for.                                         *)
LEMMA ReadEffect ==
    ASSUME HandshakeInv, NEW p \in Parties, read_exact(p), NEW s, s = Incoming(p)
    PROVE  /\ TypeOK' /\ \A x \in Streams : StreamOK(x)'
           /\ Steady /\ Mute /\ at' = at /\ taken' = taken
           /\ \A x \in Streams \ {s} : buf'[x] = buf[x]
           /\ at[p] = "credentials" => Boundary(buf'[s])
           /\ request' = request /\ dialled' = dialled
<1>1. Shape /\ \A x \in Streams : StreamOK(x)
  BY ShapeIs, Zenon DEF HandshakeInv
<1>2. PICK n : n = Missing(p)
  BY Zenon
<1>3. PICK t : t = taken[s]
  BY Zenon
<1>4. Reading(p) /\ n > 0 /\ arrived[s] - pos[s] >= n
  BY <1>2, Zenon DEF read_exact
<1>5. /\ client' = client /\ auth' = auth /\ written' = written /\ ends' = ends
      /\ at' = at /\ arrived' = arrived /\ taken' = taken
      /\ request' = request /\ dialled' = dialled
      /\ buf' = [buf EXCEPT ![s] = buf[s] \o Piece(written[s], pos[s] + 1, n)]
      /\ pos' = [pos EXCEPT ![s] = pos[s] + n]
  BY <1>2, Zenon DEF read_exact, stable
<1>6. Steady
  BY <1>5, Zenon DEF Steady
<1>7. s \in Streams /\ n \in Int
  <2>1. CASE Exempt(s)
    <3>1. s = "cg" /\ n \in Int
      BY <1>2, <1>4, <2>1, ExemptReader, Zenon
    <3> QED
      BY <3>1, Zenon DEF Streams
  <2>2. CASE ~Exempt(s)
    BY <1>2, <1>4, <2>2, Reader, Zenon
  <2> QED
    BY <2>1, <2>2, Zenon
<1>8. /\ arrived[s] \in Nat /\ pos[s] \in Nat /\ Len(written[s]) \in Nat
      /\ arrived[s] <= Len(written[s])
  BY <1>1, <1>7 DEF StreamOK, StreamType
<1>9. n \in Nat /\ n <= Len(written[s]) - pos[s] /\ n <= arrived[s] - pos[s]
  BY <1>4, <1>7, <1>8
<1>10. Exempt(s) \/ (t < Len(ends[s]) /\ pos[s] + n <= End(s, t + 1))
  BY <1>2, <1>3, <1>4, <1>9, Reader, Zenon
<1> DEFINE piece == Piece(written[s], pos[s] + 1, n)
<1>11. /\ buf' = [x \in Streams |-> buf'[x]] /\ buf'[s] = buf[s] \o piece
       /\ \A x \in Streams \ {s} : buf'[x] = buf[x]
  <2> HIDE DEF piece
  <2>1. buf' = [buf EXCEPT ![s] = buf[s] \o piece]
    BY <1>5, Zenon DEF piece
  <2> QED
    BY <1>1, <1>7, <2>1, Zenon DEF Shape
<1>12. /\ pos' = [x \in Streams |-> pos'[x]] /\ pos'[s] = pos[s] + n
       /\ \A x \in Streams \ {s} : pos'[x] = pos[x]
  BY <1>1, <1>5, <1>7, Zenon DEF Shape
<1>13. Reads(s, n)
  BY <1>5, <1>9, <1>11, <1>12, Zenon DEF Reads
<1>14. StreamOK(s)' /\ \A k : Code(s, k)' = Code(s, k)
  BY <1>1, <1>3, <1>6, <1>7, <1>9, <1>10, <1>13, ReadsStream, Zenon
<1>15. ASSUME NEW x \in Streams \ {s}
       PROVE  StreamOK(x)' /\ \A k : Code(x, k)' = Code(x, k)
  <2>1. Stands(x)
    BY <1>5, <1>11, <1>12, Zenon DEF Stands
  <2> QED
    BY <1>1, <1>6, <2>1, StandsStream, Zenon
<1>16. Shape'
  BY <1>1, <1>5, <1>11, <1>12, Zenon DEF Shape
<1>17. \A x \in Streams : StreamOK(x)'
  BY <1>14, <1>15, Zenon
<1>18. TypeOK'
  BY <1>16, <1>17, TypeIs, Zenon
<1>19. Mute
  BY <1>5, <1>14, <1>15, Zenon DEF Mute
<1>20. at[p] = "credentials" => Boundary(buf'[s])
  <2> SUFFICES ASSUME at[p] = "credentials" PROVE Boundary(buf'[s])
    BY Zenon
  <2>1. p = "gateway"
    BY Zenon DEF HandshakeInv, NodeInv, ClientInv, Parties
  <2>2. Boundary(buf[s])
    BY <2>1, Zenon DEF HandshakeInv, GatewayInv, Incoming, Source
  <2>3. n = handle_user_pass_auth(buf[s]) - Len(buf[s])
    BY <1>2, Zenon DEF Missing, Frame, Asks
  <2>4. buf[s] \in Seq(Byte) /\ written[s] \in Seq(Byte)
    BY <1>1, <1>7, Zenon DEF StreamOK, StreamType
  <2>5. piece \in Seq(Byte) /\ Len(piece) = n
    <3>1. ASSUME NEW w \in Seq(Byte), NEW q \in Nat, q + n <= Len(w)
          PROVE  Piece(w, q + 1, n) \in Seq(Byte) /\ Len(Piece(w, q + 1, n)) = n
      BY <1>9, <3>1 DEF Piece
    <3>2. pos[s] + n <= Len(written[s])
      BY <1>8, <1>9
    <3> QED
      BY <1>8, <2>4, <3>1, <3>2, Zenon
  <2> HIDE DEF piece
  <2>6. Boundary(buf[s] \o piece)
    BY <1>4, <2>2, <2>3, <2>4, <2>5, BoundaryKept, Zenon
  <2> QED
    BY <1>11, <2>6, Zenon
<1> QED
  BY <1>5, <1>6, <1>11, <1>17, <1>18, <1>19, <1>20, Zenon

(* The client writes the next frame of its script.                         *)
LEMMA SendEffect ==
    ASSUME HandshakeInv, ClientSends
    PROVE  /\ TypeOK' /\ \A x \in Streams : StreamOK(x)'
           /\ Steady /\ at' = at /\ taken' = taken /\ buf' = buf
           /\ \A x \in Streams \ {"cg"} : ends'[x] = ends[x] /\ \A k : Code(x, k)' = Code(x, k)
           /\ request' = request /\ dialled' = dialled
<1>1. Shape /\ client \in Clients /\ auth \in BOOLEAN /\ \A x \in Streams : StreamOK(x)
  BY ShapeIs, Zenon DEF HandshakeInv, TypeOK
<1>2. PICK n : n = Len(ends["cg"])
  BY Zenon
<1>3. PICK data : data = IF client.pipelines /\ n + 1 = Len(Script) THEN Payload ELSE <<>>
  BY Zenon
<1>4. PICK f : f = Script[n + 1]
  BY Zenon
<1>5. /\ n < Len(Script) /\ Writes("cg", f, data)
      /\ client' = client /\ auth' = auth /\ at' = at /\ arrived' = arrived /\ pos' = pos
      /\ buf' = buf /\ taken' = taken /\ request' = request /\ dialled' = dialled
  BY <1>2, <1>3, <1>4, Zenon DEF ClientSends, stable
<1>6. Steady
  BY <1>5, Zenon DEF Steady
<1>7. "cg" \in Streams /\ Cap("cg") = Len(Script) /\ Expect("cg", n + 1) = {Script[n + 1]}
  BY <1>1, ExpectIs, Zenon DEF Streams
<1>8. n \in Nat /\ Len(Script) \in Nat
  BY <1>1, <1>2, <1>7, CapIs DEF StreamOK, StreamType
<1>9. f \in Expect("cg", n + 1) /\ f \in Seq(Byte)
  <2>1. n + 1 \in 1 .. Cap("cg")
    BY <1>5, <1>7, <1>8
  <2>2. f \in Expect("cg", n + 1)
    BY <1>4, <1>7, Zenon
  <2> QED
    BY <1>1, <1>7, <2>1, <2>2, ExpectSeq, Zenon
<1>10. data \in Seq(Byte) /\ (data = <<>> \/ n + 1 = Cap("cg"))
  BY <1>3, <1>7, PayloadIs, Zenon
<1>11. /\ written' = [x \in Streams |-> written'[x]] /\ ends' = [x \in Streams |-> ends'[x]]
       /\ written'["cg"] = written["cg"] \o (f \o data)
       /\ ends'["cg"] = Append(ends["cg"], Len(written["cg"]) + Len(f))
       /\ \A x \in Streams \ {"cg"} : written'[x] = written[x] /\ ends'[x] = ends[x]
  BY <1>1, <1>5, <1>7, WritesEffect, Zenon
<1>12. Grows("cg", f, data)
  BY <1>5, <1>11, Zenon DEF Grows
<1>13. StreamOK("cg")'
  BY <1>1, <1>2, <1>5, <1>6, <1>7, <1>9, <1>10, <1>12, GrowsStream, Zenon
<1>14. ASSUME NEW x \in Streams \ {"cg"}
       PROVE  StreamOK(x)' /\ \A k : Code(x, k)' = Code(x, k)
  <2>1. Stands(x)
    BY <1>5, <1>11, Zenon DEF Stands
  <2> QED
    BY <1>1, <1>6, <2>1, StandsStream, Zenon
<1>15. \A x \in Streams : StreamOK(x)'
  BY <1>13, <1>14, Zenon
<1>16. Shape'
  BY <1>1, <1>5, <1>11, Zenon DEF Shape
<1>17. TypeOK'
  BY <1>15, <1>16, TypeIs, Zenon
<1> QED
  BY <1>5, <1>6, <1>11, <1>14, <1>15, <1>17, Zenon

=============================================================================
