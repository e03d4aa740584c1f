----------------------------- MODULE HTTPCheck -----------------------------
(***************************************************************************)
(* The HTTP check (checker/http.go) and its phase timings                  *)
(* (checker/httptiming.go).                                                *)
(*                                                                         *)
(* The HTTP client follows redirects; every hop uses a connection: one     *)
(* that is open, or a new one, whose lookup, racing dials and handshake    *)
(* call back concurrently and may go on when the hop is already over.      *)
(***************************************************************************)
EXTENDS Integers

CONSTANTS
    Conn,          \* connections
    MaxRacers,     \* dials of one connection
    MaxRedirects,  \* after so many the client gives up
    Timeout,       \* of the whole request
    MaxLag         \* bound on the time between the two starts

ConstantsOK ==
    /\ MaxRacers \in Nat \ {0} /\ MaxRedirects \in Nat \ {0} /\ Timeout \in Nat \ {0}
    /\ MaxLag \in Nat

Zero == -1   \* the zero time.Time

VARIABLES
    pc,          \* where performHTTPCheck is
    hop,         \* the requests sent
    using,       \* the connection of this hop: a set of at most one
    conn,        \* where every connection is
    tries,       \* the dials begun for it
    racing,      \* those under way
    clock,       \* since performHTTPCheck's start, the one of the total
    lag,         \* by which the trace's own start is earlier
    dnsStart, connStart, tlsStart, dnsMs, connectMs, tlsMs, firstByteMs,
    details,     \* total_time_ms, when reported
    answered,    \* history: when the last response began
    fails

timings == <<dnsStart, connStart, tlsStart, dnsMs, connectMs, tlsMs, firstByteMs>>
net == <<conn, tries, racing>>
request == <<hop, using>>
report == <<details, answered, fails, lag>>
vars == <<pc, net, request, clock, timings, report>>

Init ==
    /\ pc = "dial" /\ hop = 1 /\ using = {}
    /\ conn = [c \in Conn |-> "new"] /\ tries = [c \in Conn |-> 0]
    /\ racing = [c \in Conn |-> 0]
    /\ clock = 0 /\ lag \in 0 .. MaxLag
    /\ dnsStart = Zero /\ connStart = Zero /\ tlsStart = Zero
    /\ dnsMs = 0 /\ connectMs = 0 /\ tlsMs = 0 /\ firstByteMs = 0
    /\ details = Zero /\ answered = 0 /\ fails = {}

Running == pc # "done"

-----------------------------------------------------------------------------
(* The connections, and what they call back. *)

Goes(c, from, to) == Running /\ conn[c] = from /\ conn' = [conn EXCEPT ![c] = to]

DNSStart(c) ==
    /\ pc = "dial" /\ Goes(c, "new", "lookup")
    /\ dnsStart' = clock
    /\ UNCHANGED <<pc, tries, racing, request, clock, connStart, tlsStart, dnsMs,
                   connectMs, tlsMs, firstByteMs, report>>

DNSDone(c) ==
    /\ Goes(c, "lookup", "dialling")
    /\ IF dnsStart # Zero
       THEN dnsMs' = dnsMs + (clock - dnsStart) /\ dnsStart' = Zero
       ELSE UNCHANGED <<dnsMs, dnsStart>>
    /\ UNCHANGED <<pc, tries, racing, request, clock, connStart, tlsStart,
                   connectMs, tlsMs, firstByteMs, report>>

\* A racing dial may begin when another has just won.
ConnectStart(c) ==
    /\ Running /\ conn[c] \notin {"new", "lookup"} /\ tries[c] < MaxRacers
    /\ conn[c] = "dialling" \/ tries[c] > 0
    /\ tries' = [tries EXCEPT ![c] = @ + 1] /\ racing' = [racing EXCEPT ![c] = @ + 1]
    /\ connStart' = IF connStart = Zero THEN clock ELSE connStart
    /\ UNCHANGED <<pc, conn, request, clock, dnsStart, tlsStart, dnsMs, connectMs,
                   tlsMs, firstByteMs, report>>

\* Mutant: the start is kept for the other dials.
AddConnectOnly ==
    IF connStart # Zero
    THEN connectMs' = connectMs + (clock - connStart) /\ UNCHANGED connStart
    ELSE UNCHANGED <<connectMs, connStart>>

\* The time since the earliest start; the next one starts anew.
AddConnect ==
    IF connStart # Zero
    THEN connectMs' = connectMs + (clock - connStart) /\ connStart' = Zero
    ELSE UNCHANGED <<connectMs, connStart>>

\* A dial wins, comes second, or fails.
ConnectDone(c) ==
    /\ Running /\ racing[c] > 0
    /\ racing' = [racing EXCEPT ![c] = @ - 1]
    /\ \/ AddConnect /\ conn' = [conn EXCEPT ![c] = IF @ = "dialling" THEN "shaking" ELSE @]
       \/ UNCHANGED <<conn, connectMs, connStart>>
    /\ UNCHANGED <<pc, tries, request, clock, dnsStart, tlsStart, dnsMs, tlsMs,
                   firstByteMs, report>>

TLSHandshakeStart(c) ==
    /\ Goes(c, "shaking", "tls")
    /\ tlsStart' = clock
    /\ UNCHANGED <<pc, tries, racing, request, clock, dnsStart, connStart, dnsMs,
                   connectMs, tlsMs, firstByteMs, report>>

TLSHandshakeDone(c) ==
    /\ \/ /\ Goes(c, "tls", "open")
          /\ IF tlsStart # Zero
             THEN tlsMs' = tlsMs + (clock - tlsStart) /\ tlsStart' = Zero
             ELSE UNCHANGED <<tlsMs, tlsStart>>
       \/ Goes(c, "tls", "failed") /\ UNCHANGED <<tlsMs, tlsStart>>
    /\ UNCHANGED <<pc, tries, racing, request, clock, dnsStart, connStart, dnsMs,
                   connectMs, firstByteMs, report>>

-----------------------------------------------------------------------------
(* The request. *)

\* Over plain HTTP a connection needs no handshake.
Use(c) ==
    /\ pc = "dial" /\ conn[c] \in {"open", "shaking"}
    /\ conn' = [conn EXCEPT ![c] = "open"]
    /\ pc' = "sent" /\ using' = {c}
    /\ UNCHANGED <<tries, racing, hop, clock, timings, report>>

GotFirstResponseByte ==
    /\ pc = "sent" /\ pc' = "headers"
    /\ firstByteMs' = clock + lag /\ answered' = clock
    /\ UNCHANGED <<net, request, clock, dnsStart, connStart, tlsStart, dnsMs,
                   connectMs, tlsMs, details, fails, lag>>

\* The connection is kept for the next hop, or closed.
Redirect ==
    /\ pc = "headers" /\ hop < MaxRedirects
    /\ hop' = hop + 1 /\ pc' = "dial" /\ using' = {}
    /\ \E c \in using, next \in {"open", "closed"} : conn' = [conn EXCEPT ![c] = next]
    /\ UNCHANGED <<tries, racing, clock, timings, report>>

\* Do returns an error: no connection, no answer in time, too many redirects.
RequestFails ==
    /\ \/ pc \in {"dial", "sent"}
       \/ pc = "headers" /\ hop = MaxRedirects
    /\ pc' = "done" /\ fails' = {"request"}
    /\ UNCHANGED <<net, request, clock, timings, details, answered, lag>>

\* The body is read, in part if that fails; then the timings are reported, and
\* the status and the string, if one is demanded, decide.
ReadBody ==
    /\ pc = "headers"
    /\ pc' = "done" /\ details' = clock
    /\ \E expected, demands, contained, read \in BOOLEAN :
          fails' = IF ~expected THEN {"status"}
                   ELSE IF demands /\ ~(read /\ contained) THEN {"content"}
                   ELSE {}
    /\ UNCHANGED <<net, request, clock, timings, answered, lag>>

Tick ==
    /\ Running /\ clock < Timeout
    /\ clock' = clock + 1
    /\ UNCHANGED <<pc, net, request, timings, report>>

Next ==
    \/ \E c \in Conn :
          \/ DNSStart(c) \/ DNSDone(c) \/ ConnectStart(c) \/ ConnectDone(c)
          \/ TLSHandshakeStart(c) \/ TLSHandshakeDone(c) \/ Use(c)
    \/ GotFirstResponseByte \/ Redirect \/ RequestFails \/ ReadBody \/ Tick

Spec == Init /\ [][Next]_vars

-----------------------------------------------------------------------------
(* What the report says. *)

TypeOK ==
    /\ pc \in {"dial", "sent", "headers", "done"}
    /\ hop \in 1 .. MaxRedirects /\ using \subseteq Conn
    /\ conn \in [Conn -> {"new", "lookup", "dialling", "shaking", "tls", "open",
                          "failed", "closed"}]
    /\ tries \in [Conn -> 0 .. MaxRacers] /\ racing \in [Conn -> 0 .. MaxRacers]
    /\ clock \in 0 .. Timeout /\ lag \in 0 .. MaxLag
    /\ {dnsStart, connStart, tlsStart, details} \subseteq {Zero} \cup 0 .. Timeout
    /\ {dnsMs, connectMs, tlsMs, firstByteMs, answered} \subseteq Nat
    /\ fails \subseteq {"request", "status", "content"}

\* Whatever callbacks fire concurrently and over how many hops, no phase that
\* is reported exceeds the total, and the first byte is "anchored to the final
\* response" (httptiming.go): from the trace's own start, so it can exceed the
\* total by what lies between the two starts, and by no more.
TimingsFit ==
    details # Zero =>
        /\ dnsMs <= details /\ connectMs <= details /\ tlsMs <= details
        /\ firstByteMs = answered + lag /\ answered <= details
=============================================================================
