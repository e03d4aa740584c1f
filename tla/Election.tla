------------------------------ MODULE Election ------------------------------
(***************************************************************************)
(* Active/passive leader election of the pollers of one location, as       *)
(* leader/leader.go runs it against the lease apapi keeps.                 *)
(*                                                                         *)
(* Every poller runs Elector.Run: a follower tries to acquire the lease    *)
(* every AcquireInterval, a leader renews it every RenewInterval, and any  *)
(* failed renewal, a conflict or a network error alike, makes it step      *)
(* down.  A call is a request apapi handles at some moment and an answer   *)
(* the poller sees at a later one; a call may take up to Timeout (the      *)
(* client's HTTP timeout), and a call the poller gave up on may still be   *)
(* handled by apapi long afterwards.                                       *)
(*                                                                         *)
(* Time is discrete.  Sleeps and calls carry the time they have left, and  *)
(* Tick waits for every poller that has something to do now.               *)
(***************************************************************************)
EXTENDS Integers, FiniteSets

CONSTANTS
    Poller,           \* the pollers of the location
    None,             \* "nobody holds the lease"
    LeaseTTL,         \* apapi's PollerLeaseTTL
    RenewInterval,    \* Config.RenewInterval
    AcquireInterval,  \* Config.AcquireInterval
    Timeout,          \* http.Client.Timeout
    MaxTerm,          \* bound on the lease terms granted
    MaxDisruptions    \* bound on failed calls, crashes and shutdowns together

ASSUME ElectionAssumption ==
    /\ None \notin Poller
    /\ LeaseTTL \in Nat \ {0}
    /\ RenewInterval \in Nat \ {0}
    /\ AcquireInterval \in Nat \ {0}
    /\ Timeout \in Nat \ {0}
    /\ MaxTerm \in Nat
    /\ MaxDisruptions \in Nat

VARIABLES
    \* the lease document, in apapi
    holder,      \* poller_uuid in the lease document
    left,        \* time until the lease expires
    term,        \* lease term, incremented on acquire
    \* each poller's elector
    pc,          \* where Run is
    timer,       \* time left of the sleep or of the call Run is blocked in
    role,        \* Elector.state
    myTerm,      \* Elector.term
    cancelled,   \* the root context is cancelled
    \* the network
    call,        \* the outstanding lease call: idle, sent, or answered
    replyTerm,   \* the term in the answer
    late,        \* requests given up on that apapi may still handle
    \* bookkeeping
    age,         \* time since apapi last granted this poller the lease
    released,    \* a release of this poller took that grant away again
    disruptions  \* failed calls, crashes and shutdowns so far

lease == <<holder, left, term>>
elector == <<pc, timer, role, myTerm>>
network == <<call, replyTerm, late>>
grant == <<age, released>>
vars == <<holder, left, term, pc, timer, role, myTerm, cancelled,
          call, replyTerm, late, age, released, disruptions>>

LeaseOp == {"acquire", "renew", "release"}
Sleeping == {"acquireSleep", "renewSleep"}
Calling == {"acquiring", "renewing", "releasing"}
Gone == {"stopped", "down"}
Where == {"top"} \cup Sleeping \cup Calling \cup Gone

OpAt(w) == CASE w = "acquiring" -> "acquire"
             [] w = "renewing"  -> "renew"
             [] w = "releasing" -> "release"

\* Ages are not told apart beyond this one.
AgeCap == LeaseTTL + 2 * Timeout + RenewInterval + 1

Running(p) == pc[p] \notin Gone

\* The poller acts as leader: its elector says so and is not shutting down.
Leading(p) == role[p] = "leader" /\ pc[p] \in {"top", "renewSleep", "renewing"}

Init ==
    /\ holder = None /\ left = 0 /\ term = 0
    /\ pc = [p \in Poller |-> "top"]
    /\ timer = [p \in Poller |-> 0]
    /\ role = [p \in Poller |-> "follower"]
    /\ myTerm = [p \in Poller |-> 0]
    /\ cancelled = [p \in Poller |-> FALSE]
    /\ call = [p \in Poller |-> "idle"]
    /\ replyTerm = [p \in Poller |-> 0]
    /\ late = [p \in Poller |-> [op \in LeaseOp |-> 0]]
    /\ age = [p \in Poller |-> AgeCap]
    /\ released = [p \in Poller |-> FALSE]
    /\ disruptions = 0

-----------------------------------------------------------------------------
(* Elector.Run *)

\* Block in a sleep, or in the call that "w" stands for.
Sleep(p, w, d) ==
    /\ pc' = [pc EXCEPT ![p] = w]
    /\ timer' = [timer EXCEPT ![p] = d]
    /\ UNCHANGED network

Send(p, w) ==
    /\ pc' = [pc EXCEPT ![p] = w]
    /\ timer' = [timer EXCEPT ![p] = Timeout]
    /\ call' = [call EXCEPT ![p] = "sent"]
    /\ UNCHANGED <<replyTerm, late>>

\* The call returned: Run goes on at w, d time from its next step.
Return(p, w, d) ==
    /\ pc' = [pc EXCEPT ![p] = w]
    /\ timer' = [timer EXCEPT ![p] = d]
    /\ call' = [call EXCEPT ![p] = "idle"]
    /\ replyTerm' = [replyTerm EXCEPT ![p] = 0]

\* shutdown(): only a leader has a lease to release.
EnterShutdown(p) ==
    IF role[p] = "leader" THEN Send(p, "releasing") ELSE Sleep(p, "stopped", 0)

LoopTop(p) ==
    /\ pc[p] = "top"
    /\ \/ cancelled[p] /\ EnterShutdown(p)
       \/ ~cancelled[p] /\ role[p] = "leader" /\ Sleep(p, "renewSleep", RenewInterval)
       \/ ~cancelled[p] /\ role[p] = "follower" /\ Send(p, "acquiring")
    /\ UNCHANGED <<lease, role, myTerm, cancelled, grant, disruptions>>

\* When the timer and ctx.Done() are both ready, select takes either.
SleepOver(p) ==
    /\ pc[p] \in Sleeping
    /\ timer[p] = 0
    /\ IF pc[p] = "renewSleep" THEN Send(p, "renewing") ELSE Sleep(p, "top", 0)
    /\ UNCHANGED <<lease, role, myTerm, cancelled, grant, disruptions>>

SleepCut(p) ==
    /\ pc[p] \in Sleeping
    /\ cancelled[p]
    /\ EnterShutdown(p)
    /\ UNCHANGED <<lease, role, myTerm, cancelled, grant, disruptions>>

\* Mutant: a 409 is not mapped to an error, so any answer makes a leader.
AcquireIgnoresConflict(p) ==
    /\ pc[p] = "acquiring" /\ call[p] \in {"ok", "conflict"}
    /\ myTerm' = [myTerm EXCEPT ![p] = replyTerm[p]]
    /\ role' = [role EXCEPT ![p] = "leader"]
    /\ Return(p, "top", 0)
    /\ UNCHANGED <<lease, cancelled, late, grant, disruptions>>

\* Mutant: the term of the answer is not stored.
AcquireForgetsTerm(p) ==
    /\ pc[p] = "acquiring"
    /\ \/ /\ call[p] = "ok"
          /\ role' = [role EXCEPT ![p] = "leader"]
          /\ Return(p, "top", 0)
       \/ /\ call[p] = "conflict"
          /\ Return(p, "acquireSleep", AcquireInterval)
          /\ UNCHANGED role
    /\ UNCHANGED <<lease, myTerm, cancelled, late, grant, disruptions>>

\* Mutant: a refused follower sleeps out a whole lease before it tries again.
AcquireSleepsLease(p) ==
    /\ pc[p] = "acquiring"
    /\ \/ /\ call[p] = "ok"
          /\ myTerm' = [myTerm EXCEPT ![p] = replyTerm[p]]
          /\ role' = [role EXCEPT ![p] = "leader"]
          /\ Return(p, "top", 0)
       \/ /\ call[p] = "conflict"
          /\ Return(p, "acquireSleep", LeaseTTL)
          /\ UNCHANGED <<role, myTerm>>
    /\ UNCHANGED <<lease, cancelled, late, grant, disruptions>>

AcquireReturns(p) ==
    /\ pc[p] = "acquiring"
    /\ \/ /\ call[p] = "ok"
          /\ myTerm' = [myTerm EXCEPT ![p] = replyTerm[p]]
          /\ role' = [role EXCEPT ![p] = "leader"]
          /\ Return(p, "top", 0)
       \/ /\ call[p] = "conflict"
          /\ Return(p, "acquireSleep", AcquireInterval)
          /\ UNCHANGED <<role, myTerm>>
    /\ UNCHANGED <<lease, cancelled, late, grant, disruptions>>

\* A failed renewal makes the poller a follower that tries to acquire at
\* once: the loop does not sleep on that path.
RenewReturns(p) ==
    /\ pc[p] = "renewing"
    /\ \/ /\ call[p] = "ok"
          /\ myTerm' = [myTerm EXCEPT ![p] = replyTerm[p]]
          /\ UNCHANGED role
       \/ /\ call[p] = "conflict"
          /\ role' = [role EXCEPT ![p] = "follower"]
          /\ UNCHANGED myTerm
    /\ Return(p, "top", 0)
    /\ UNCHANGED <<lease, cancelled, late, grant, disruptions>>

ReleaseReturns(p) ==
    /\ pc[p] = "releasing"
    /\ call[p] = "ok"
    /\ Return(p, "stopped", 0)
    /\ UNCHANGED <<lease, role, myTerm, cancelled, late, grant, disruptions>>

\* The poller gives up on a request; apapi may not have seen it yet.
Abandon(p) ==
    \/ UNCHANGED late
    \/ /\ call[p] = "sent"
       /\ late' = [late EXCEPT ![p][OpAt(pc[p])] = @ + 1]

\* Mutant: a renewal that failed with anything but a conflict is only logged.
CallFailsKeepsRole(p) ==
    /\ pc[p] \in Calling
    /\ disruptions < MaxDisruptions
    /\ disruptions' = disruptions + 1
    /\ Abandon(p)
    /\ \/ pc[p] = "acquiring" /\ Return(p, "acquireSleep", AcquireInterval)
       \/ pc[p] = "renewing" /\ Return(p, "top", 0)
       \/ pc[p] = "releasing" /\ Return(p, "stopped", 0)
    /\ UNCHANGED <<lease, role, myTerm, cancelled, grant>>

\* The call ends without an answer the client can use: refused, reset, timed
\* out, or a status other than 200 and 409.
CallFails(p) ==
    /\ pc[p] \in Calling
    /\ disruptions < MaxDisruptions
    /\ disruptions' = disruptions + 1
    /\ Abandon(p)
    /\ \/ /\ pc[p] = "acquiring"
          /\ Return(p, "acquireSleep", AcquireInterval)
          /\ UNCHANGED role
       \/ /\ pc[p] = "renewing"
          /\ role' = [role EXCEPT ![p] = "follower"]
          /\ Return(p, "top", 0)
       \/ /\ pc[p] = "releasing"
          /\ Return(p, "stopped", 0)
          /\ UNCHANGED role
    /\ UNCHANGED <<lease, myTerm, cancelled, grant>>

-----------------------------------------------------------------------------
(* The process: SIGTERM, crashes, and the supervisor that restarts it.  A   *)
(* process whose context is cancelled may exit at any moment, because main  *)
(* does not wait for the elector.                                           *)

Shutdown(p) ==
    /\ Running(p) /\ ~cancelled[p]
    /\ disruptions < MaxDisruptions
    /\ disruptions' = disruptions + 1
    /\ cancelled' = [cancelled EXCEPT ![p] = TRUE]
    /\ UNCHANGED <<lease, elector, network, grant>>

Die(p) ==
    /\ Abandon(p)
    /\ Return(p, "down", 0)
    /\ role' = [role EXCEPT ![p] = "follower"]
    /\ myTerm' = [myTerm EXCEPT ![p] = 0]
    /\ cancelled' = [cancelled EXCEPT ![p] = FALSE]
    /\ UNCHANGED <<lease, grant>>

Crash(p) ==
    /\ Running(p)
    /\ disruptions < MaxDisruptions
    /\ disruptions' = disruptions + 1
    /\ Die(p)

Exit(p) ==
    /\ cancelled[p]
    /\ Die(p)
    /\ UNCHANGED disruptions

Restart(p) ==
    /\ pc[p] = "down"
    /\ pc' = [pc EXCEPT ![p] = "top"]
    /\ UNCHANGED <<lease, timer, role, myTerm, cancelled, network, grant, disruptions>>

-----------------------------------------------------------------------------
(* apapi's lease endpoints, from what client.go and leader.go say of them.  *)

Granting(p) ==
    /\ age' = [age EXCEPT ![p] = 0]
    /\ released' = [released EXCEPT ![p] = FALSE]

\* Mutant: a lease that expired is not free.
GrantAcquireUnexpired(p) ==
    /\ holder \in {None, p}
    /\ term < MaxTerm
    /\ holder' = p /\ left' = LeaseTTL /\ term' = term + 1
    /\ Granting(p)

GrantAcquire(p) ==
    /\ holder \in {None, p} \/ left = 0
    /\ term < MaxTerm
    /\ holder' = p /\ left' = LeaseTTL /\ term' = term + 1
    /\ Granting(p)

\* The holder that acquires again is granted or refused: the code needs
\* neither.  At the bound on terms every acquire is refused.
RefuseAcquire(p) ==
    /\ (holder # None /\ left > 0) \/ term = MaxTerm
    /\ UNCHANGED <<lease, grant>>

\* Mutant: a renewal adds a TTL to what is left.
GrantRenewAdds(p) ==
    /\ holder = p /\ left > 0
    /\ left' = left + LeaseTTL
    /\ Granting(p)
    /\ UNCHANGED <<holder, term>>

GrantRenew(p) ==
    /\ holder = p /\ left > 0
    /\ left' = LeaseTTL
    /\ Granting(p)
    /\ UNCHANGED <<holder, term>>

RefuseRenew(p) ==
    /\ holder # p \/ left = 0
    /\ UNCHANGED <<lease, grant>>

\* Mutant: a release clears the lease whoever holds it.
DoReleaseAny(p) ==
    /\ holder' = None /\ left' = 0
    /\ released' = [released EXCEPT ![p] = @ \/ holder = p]
    /\ UNCHANGED <<term, age>>

\* The release names the poller and not the grant it means to give back.
DoRelease(p) ==
    /\ holder' = IF holder = p THEN None ELSE holder
    /\ left' = IF holder = p THEN 0 ELSE left
    /\ released' = [released EXCEPT ![p] = @ \/ holder = p]
    /\ UNCHANGED <<term, age>>

Answer(p, a) ==
    /\ call' = [call EXCEPT ![p] = a]
    /\ replyTerm' = [replyTerm EXCEPT ![p] = IF a = "ok" THEN term' ELSE 0]

\* apapi handles the request of the call p is blocked in.
Handle(p) ==
    /\ call[p] = "sent"
    /\ \/ pc[p] = "acquiring" /\ GrantAcquire(p) /\ Answer(p, "ok")
       \/ pc[p] = "acquiring" /\ RefuseAcquire(p) /\ Answer(p, "conflict")
       \/ pc[p] = "renewing" /\ GrantRenew(p) /\ Answer(p, "ok")
       \/ pc[p] = "renewing" /\ RefuseRenew(p) /\ Answer(p, "conflict")
       \/ pc[p] = "releasing" /\ DoRelease(p) /\ Answer(p, "ok")
    /\ UNCHANGED <<elector, cancelled, late, disruptions>>

\* apapi handles a request whose poller no longer waits for the answer.
HandleLate(p, op) ==
    /\ late[p][op] > 0
    /\ late' = [late EXCEPT ![p][op] = @ - 1]
    /\ \/ op = "acquire" /\ (GrantAcquire(p) \/ RefuseAcquire(p))
       \/ op = "renew" /\ (GrantRenew(p) \/ RefuseRenew(p))
       \/ op = "release" /\ DoRelease(p)
    /\ UNCHANGED <<elector, cancelled, call, replyTerm, disruptions>>

-----------------------------------------------------------------------------
(* Time passes when no poller can act now: none is between two blocking     *)
(* steps, no sleep is over and no call has used up its Timeout.             *)

Blocked(p) == Running(p) => pc[p] # "top" /\ (timer[p] > 0)

Tick ==
    /\ \A p \in Poller : Blocked(p)
    /\ left' = IF left > 0 THEN left - 1 ELSE 0
    /\ timer' = [p \in Poller |-> IF Running(p) THEN timer[p] - 1 ELSE timer[p]]
    /\ age' = [p \in Poller |-> IF age[p] < AgeCap THEN age[p] + 1 ELSE age[p]]
    /\ UNCHANGED <<holder, term, pc, role, myTerm, cancelled, network, released, disruptions>>

Elector(p) ==
    LoopTop(p) \/ SleepOver(p) \/ SleepCut(p)
        \/ AcquireReturns(p) \/ RenewReturns(p) \/ ReleaseReturns(p)

\* Everything that takes no time.
Act ==
    \E p \in Poller :
        \/ LoopTop(p) \/ SleepOver(p) \/ SleepCut(p)
        \/ AcquireReturns(p) \/ RenewReturns(p) \/ ReleaseReturns(p)
        \/ CallFails(p)
        \/ Shutdown(p) \/ Crash(p) \/ Exit(p) \/ Restart(p)
        \/ Handle(p)
        \/ \E op \in LeaseOp : HandleLate(p, op)

Next == Tick \/ Act

Spec == Init /\ [][Next]_vars

\* Run keeps running, apapi keeps answering and time keeps passing.
Fairness ==
    /\ WF_vars(Tick)
    /\ \A p \in Poller : WF_vars(Elector(p)) /\ WF_vars(Handle(p))

FairSpec == Spec /\ Fairness

-----------------------------------------------------------------------------
(* What the election promises. *)

\* The type invariant.
TypeOK ==
    /\ holder \in Poller \cup {None}
    /\ left \in 0 .. LeaseTTL
    /\ term \in 0 .. MaxTerm
    /\ pc \in [Poller -> Where]
    /\ timer \in [Poller -> Nat]
    /\ role \in [Poller -> {"leader", "follower"}]
    /\ myTerm \in [Poller -> 0 .. MaxTerm]
    /\ cancelled \in [Poller -> BOOLEAN]
    /\ call \in [Poller -> {"idle", "sent", "ok", "conflict"}]
    /\ replyTerm \in [Poller -> 0 .. MaxTerm]
    /\ late \in [Poller -> [LeaseOp -> Nat]]
    /\ age \in [Poller -> 0 .. AgeCap]
    /\ released \in [Poller -> BOOLEAN]
    /\ disruptions \in 0 .. MaxDisruptions

\* A poller that acts as leader was granted the lease at most one call, one
\* RenewInterval and one more call ago (Run blocks in nothing else between
\* the grant and the step-down that follows a failed renewal).
StaleLeaderBound ==
    \A p \in Poller : Leading(p) => age[p] <= 2 * Timeout + RenewInterval

\* "One poller per location is leader at any moment" (leader.go).  The code
\* does not keep this promise.
AtMostOneLeader ==
    \A p, q \in Poller : Leading(p) /\ Leading(q) => p = q

\* What it does keep: when two pollers act as leader, either a release took
\* the grant of one of them away, or the younger of the two grants is no older
\* than a leader's grant can get minus the TTL.  Two leaders that no release
\* made last for 2 * Timeout + RenewInterval - LeaseTTL at most, and there are
\* none where that is negative.
OverlapIsBounded ==
    \A p, q \in Poller :
        p # q /\ Leading(p) /\ Leading(q) /\ ~released[p] /\ ~released[q]
            => \E y \in {p, q} :
                   age[y] + LeaseTTL <= 2 * Timeout + RenewInterval

\* Elector.Term fences: two pollers that act as leader at the same time never
\* observed the same term.
FencingTerms ==
    \A p, q \in Poller :
        p # q /\ Leading(p) /\ Leading(q) => myTerm[p] # myTerm[q]

\* apapi refuses the renewal that poller p waits for.
Refused(p) == pc[p] = "renewing" /\ call[p] = "sent" /\ call'[p] = "conflict"

\* A renewal is refused with ErrLeaseConflict when the poller "failed to renew
\* within the TTL window" (client.go).  That is one of two explanations; the
\* other is a release of the poller's own, sent before it was restarted, that
\* was handled after a grant it did not mean.  No other poller can take a
\* lease away.
ConflictIsExplained ==
    [][\A p \in Poller : Refused(p) => age[p] >= LeaseTTL \/ released[p]]_vars

\* As long as one poller stays up, some poller becomes leader again and again:
\* no crash, lost call or late request leaves the location without a leader.
SomeoneLeads ==
    \A p \in Poller :
        <>[](Running(p) /\ ~cancelled[p]) => []<>(\E q \in Poller : Leading(q))

-----------------------------------------------------------------------------
(* The inductive invariant of the proofs, part by part. *)

\* Where Run is decides the elector's role and whether a call is outstanding.
ControlInv ==
    \A p \in Poller :
        /\ pc[p] \in {"renewSleep", "renewing", "releasing"} => role[p] = "leader"
        /\ pc[p] \in {"acquiring", "acquireSleep", "down"} => role[p] = "follower"
        /\ call[p] # "idle" => pc[p] \in Calling
        /\ pc[p] \in Calling => timer[p] <= Timeout
        /\ pc[p] = "renewSleep" => timer[p] <= RenewInterval

\* How old the grant can be that a poller still relies on, at each place of
\* its renewal cycle.
AgeInv ==
    \A p \in Poller :
        /\ pc[p] = "top" /\ role[p] = "leader" => age[p] <= Timeout
        /\ pc[p] = "renewSleep" => age[p] + timer[p] <= Timeout + RenewInterval
        /\ pc[p] = "renewing" => age[p] + timer[p] <= 2 * Timeout + RenewInterval
        /\ pc[p] \in {"acquiring", "renewing"} /\ call[p] = "ok"
               => age[p] + timer[p] <= Timeout

\* The poller leads, or is about to learn that it does.
Granted(p) == Leading(p) \/ (pc[p] = "acquiring" /\ call[p] = "ok")

\* A grant younger than the TTL is still the lease document, unless a release
\* took it away.
LeaseInv ==
    \A p \in Poller :
        /\ holder = p => left + age[p] >= LeaseTTL
        /\ Granted(p) /\ age[p] < LeaseTTL /\ ~released[p] => holder = p

\* Of two grants that pollers rely on, one is a TTL older than the other or
\* was released.
Apart(p, q) == age[p] + LeaseTTL <= age[q] \/ age[q] + LeaseTTL <= age[p]

ApartInv ==
    \A p, q \in Poller :
        p # q /\ Granted(p) /\ Granted(q) /\ ~released[p] /\ ~released[q]
            => Apart(p, q)

\* A poller that leads, or is about to, knows the term it stored and the term
\* of the answer on its way.
Knows(p, t) ==
    \/ Leading(p) /\ t = myTerm[p]
    \/ Granted(p) /\ call[p] = "ok" /\ t = replyTerm[p]

\* Only the last poller the lease was granted to knows the current term, and
\* no term is known to two pollers.
TermInv ==
    /\ \A p \in Poller, t \in 0 .. MaxTerm : Knows(p, t) => t <= term
    /\ \A p \in Poller : Knows(p, term) => holder \in {p, None}
    /\ \A p, q \in Poller : \A t \in 0 .. MaxTerm :
           Knows(p, t) /\ Knows(q, t) => p = q

TimingInv == TypeOK /\ ControlInv /\ AgeInv
=============================================================================
