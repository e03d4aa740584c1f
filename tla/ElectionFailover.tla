-------------------------- MODULE ElectionFailover --------------------------
(***************************************************************************)
(* How long a location can be without a leader.  A stopwatch runs beside   *)
(* Election while nobody leads and a poller is up; it starts again at      *)
(* whatever the bound cannot cover: another failure, a poller that stops   *)
(* or starts, a late request that reaches apapi.                           *)
(***************************************************************************)
EXTENDS Election

VARIABLE gap   \* time without a leader since the last disturbance

fvars == <<vars, gap>>

\* The lease of a leader that died runs out, the answer to a refused acquire
\* is still on its way, the follower sleeps, and its next acquire is answered.
FailoverBound == LeaseTTL + 2 * Timeout + AcquireInterval

Steady == \E p \in Poller : Running(p) /\ ~cancelled[p]
Led == \E p \in Poller : Leading(p)

Disturbed ==
    \/ disruptions' # disruptions
    \/ late' # late
    \/ \E p \in Poller : Running(p)' # Running(p)

FInit == Init /\ gap = 0

FTick ==
    /\ Tick
    /\ gap' = IF Led \/ ~Steady THEN 0
              ELSE IF gap <= FailoverBound THEN gap + 1 ELSE gap

FAct ==
    /\ Act
    /\ gap' = IF Led \/ Led' \/ Disturbed THEN 0 ELSE gap

FNext == FTick \/ FAct

FSpec == FInit /\ [][FNext]_fvars

FairFSpec == FSpec /\ Fairness

\* However a leader is lost (crash, failed renewal, shutdown, a release that
\* never arrives), the location has a leader again in less than FailoverBound.
FailoverInTime == gap < FailoverBound

-----------------------------------------------------------------------------
(* The inductive invariant behind the bound. *)

\* A follower sleeps for at most its interval, a call that is blocked in has a
\* request on its way or an answer, and only a shutdown releases or stops.
WaitInv ==
    \A p \in Poller :
        /\ pc[p] = "acquireSleep" => timer[p] <= AcquireInterval
        /\ pc[p] \in Calling => call[p] # "idle"
        /\ pc[p] \in {"releasing", "stopped"} => cancelled[p]

\* The poller was granted the lease and has not heard of it.
Won(p) == pc[p] = "acquiring" /\ call[p] = "ok"

Seeking == {"top", "acquireSleep", "acquiring"}

\* How long it can take the poller until it has had an answer to an acquire
\* that it did not have yet.
Owed(p) ==
    CASE pc[p] = "top" -> Timeout
      [] pc[p] = "acquireSleep" -> timer[p] + Timeout
      [] pc[p] = "acquiring" /\ call[p] # "conflict" -> timer[p]
      [] pc[p] = "acquiring" /\ call[p] = "conflict" -> timer[p] + AcquireInterval + Timeout

\* While nobody leads, one poller has won the lease and hears of it in time, or
\* the old lease still runs, or it is over and every follower's next answer
\* comes in time.
InTime ==
    \/ \E p \in Poller : Won(p) /\ gap + timer[p] < FailoverBound
    \/ left > 0 /\ left + gap <= LeaseTTL
    \/ left = 0 /\ \A p \in Poller : pc[p] \in Seeking => gap + Owed(p) < FailoverBound

GapInv ==
    /\ gap \in Nat
    /\ Led \/ ~Steady => gap = 0
    /\ InTime
=============================================================================
