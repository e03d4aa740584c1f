--------------------------- MODULE ResultDelivery ---------------------------
(***************************************************************************)
(* What the result path of a poller promises: the sink acknowledges        *)
(* results in the order the checks finished, each of them once, and none   *)
(* is lost while the poller keeps serving as leader.  Only a submission    *)
(* that failed can leave copies behind, which the sink may receive at any  *)
(* later time.                                                             *)
(***************************************************************************)
EXTENDS Naturals, Sequences, Functions

CONSTANT Result

VARIABLES
    pending,   \* finished results the sink has not acknowledged, oldest first
    straying,  \* results of failed submissions still on their way
    received,  \* everything the sink received, in order
    serving    \* the poller is leader and not stepping down

vars == <<pending, straying, received, serving>>

Prefix(n) == SubSeq(pending, 1, n)

Init == pending = << >> /\ straying = {} /\ received = << >> /\ serving = FALSE

\* A check finishes.
Complete ==
    /\ \E r \in Result : pending' = Append(pending, r)
    /\ UNCHANGED <<straying, received, serving>>

\* The sink receives the oldest results and acknowledges them.
Deliver ==
    /\ \E n \in 1 .. Len(pending) :
          /\ received' = received \o Prefix(n)
          /\ pending' = SubSeq(pending, n + 1, Len(pending))
    /\ UNCHANGED <<straying, serving>>

\* A submission fails: the results stay pending, copies may be on their way.
Fail ==
    /\ \E copies \in SUBSET Range(pending) : straying' = straying \cup copies
    /\ UNCHANGED <<pending, received, serving>>

\* The sink receives a copy; there may be another.
ReceiveCopy ==
    /\ \E r \in straying :
          /\ received' = Append(received, r)
          /\ straying' \in {straying, straying \ {r}}
    /\ UNCHANGED <<pending, serving>>

\* Stepping down or exiting gives up what is still pending.
GiveUp ==
    /\ ~serving
    /\ pending' = << >>
    /\ UNCHANGED <<straying, received, serving>>

SwitchRole == serving' = ~serving /\ UNCHANGED <<pending, straying, received>>

Next == Complete \/ Deliver \/ Fail \/ ReceiveCopy \/ GiveUp \/ SwitchRole

Spec == Init /\ [][Next]_vars
=============================================================================
