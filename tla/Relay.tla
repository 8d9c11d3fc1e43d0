-------------------------------- MODULE Relay --------------------------------
(***************************************************************************)
(* relay (crates/gateway/src/relay.rs): copy_bidirectional under a         *)
(* timeout.                                                                *)
(* copy_bidirectional passes bytes and the end of each stream on and       *)
(* returns when both streams have ended.                                   *)
(***************************************************************************)
EXTENDS Integers

CONSTANTS
    idle_timeout,  \* ticks that the relay may last
    MaxBytes       \* bound: bytes in each direction

VARIABLES
    result,     \* "running", or how the relay returned
    forwarded,  \* bytes copied, per direction
    ended,      \* directions whose stream has ended
    elapsed,    \* ticks since the relay began
    idle        \* history: ticks since the last progress

vars == <<result, forwarded, ended, elapsed, idle>>

Dirs == {"up", "down"}

Init ==
    /\ result = "running"
    /\ forwarded = [d \in Dirs |-> 0]
    /\ ended = {}
    /\ elapsed = 0 /\ idle = 0

Copy(d) ==
    /\ result = "running" /\ d \notin ended
    /\ forwarded[d] < MaxBytes
    /\ forwarded' = [forwarded EXCEPT ![d] = @ + 1]
    /\ idle' = 0
    /\ UNCHANGED <<result, ended, elapsed>>

Ends(d) ==
    /\ result = "running" /\ d \notin ended
    /\ ended' = ended \cup {d}
    /\ idle' = 0
    /\ UNCHANGED <<result, forwarded, elapsed>>

(* Both streams have ended: the counts are returned.                       *)
Completes ==
    /\ result = "running" /\ ended = Dirs
    /\ result' = "ok"
    /\ UNCHANGED <<forwarded, ended, elapsed, idle>>

IoError ==
    /\ result = "running"
    /\ result' = "io error"
    /\ UNCHANGED <<forwarded, ended, elapsed, idle>>

TimesOut ==
    /\ result = "running" /\ elapsed >= idle_timeout
    /\ result' = "timeout"
    /\ UNCHANGED <<forwarded, ended, elapsed, idle>>

Tick ==
    /\ result = "running" /\ elapsed < idle_timeout
    /\ elapsed' = elapsed + 1
    /\ idle' = idle + 1
    /\ UNCHANGED <<result, forwarded, ended>>

Next == \/ \E d \in Dirs : Copy(d) \/ Ends(d)
        \/ Completes \/ IoError \/ TimesOut \/ Tick

Spec == Init /\ [][Next]_vars

-----------------------------------------------------------------------------
(* README.md, of idle_timeout: "Tear down idle proxied connections";       *)
(* relay.rs: "if neither side progresses within the window the connection  *)
(* is torn down".                                                          *)
TornDownOnlyWhenIdle == result = "timeout" => idle >= idle_timeout
=============================================================================
