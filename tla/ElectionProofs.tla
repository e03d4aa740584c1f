--------------------------- MODULE ElectionProofs ---------------------------
(***************************************************************************)
(* Proofs about Election, for every set of pollers and every timing.       *)
(***************************************************************************)
EXTENDS ElectionFailover, TLAPS

USE ElectionAssumption

-----------------------------------------------------------------------------
(* Type correctness, in three groups of variables. *)

LeaseType ==
    /\ holder \in Poller \cup {None}
    /\ left \in 0 .. LeaseTTL
    /\ term \in 0 .. MaxTerm
    /\ age \in [Poller -> 0 .. AgeCap]
    /\ released \in [Poller -> BOOLEAN]
    /\ disruptions \in 0 .. MaxDisruptions

ElectorType ==
    /\ pc \in [Poller -> Where]
    /\ timer \in [Poller -> Nat]
    /\ role \in [Poller -> {"leader", "follower"}]
    /\ myTerm \in [Poller -> 0 .. MaxTerm]
    /\ cancelled \in [Poller -> BOOLEAN]

NetworkType ==
    /\ call \in [Poller -> {"idle", "sent", "ok", "conflict"}]
    /\ replyTerm \in [Poller -> 0 .. MaxTerm]
    /\ late \in [Poller -> [LeaseOp -> Nat]]

LEMMA AgeCapType == AgeCap \in Nat /\ LeaseTTL <= AgeCap
  BY DEF AgeCap

\* Blocking in a sleep or a call, and coming back from a call.
LEMMA BlockType ==
  ASSUME TypeOK, NEW p \in Poller, NEW w \in Where, NEW d \in Nat,
         Sleep(p, w, d) \/ Send(p, w)
  PROVE  pc' \in [Poller -> Where] /\ timer' \in [Poller -> Nat] /\ NetworkType'
<1>1. CASE Sleep(p, w, d)
  BY <1>1 DEF Sleep, TypeOK, NetworkType, network
<1>2. CASE Send(p, w)
  BY <1>2 DEF Send, TypeOK, NetworkType
<1> QED  BY <1>1, <1>2

LEMMA ReturnType ==
  ASSUME TypeOK, NEW p \in Poller, NEW w \in Where, NEW d \in Nat, Return(p, w, d)
  PROVE  /\ pc' \in [Poller -> Where] /\ timer' \in [Poller -> Nat]
         /\ call' \in [Poller -> {"idle", "sent", "ok", "conflict"}]
         /\ replyTerm' \in [Poller -> 0 .. MaxTerm]
  BY DEF Return, TypeOK

LEMMA AbandonType ==
  ASSUME TypeOK, NEW p \in Poller, Abandon(p), call[p] # "idle" => pc[p] \in Calling
  PROVE  late' \in [Poller -> [LeaseOp -> Nat]]
<1>1. CASE UNCHANGED late
  BY <1>1 DEF TypeOK
<1>2. CASE ~UNCHANGED late
  <2>1. PICK op \in LeaseOp : late' = [late EXCEPT ![p][op] = @ + 1]
    BY <1>2 DEF Abandon, OpAt, Calling, LeaseOp
  <2> QED  BY <2>1 DEF TypeOK
<1> QED  BY <1>1, <1>2

\* apapi's answer to any request.
LEMMA ServeType ==
  ASSUME TypeOK, NEW p \in Poller, UNCHANGED disruptions,
         \/ GrantAcquire(p) \/ RefuseAcquire(p)
         \/ GrantRenew(p) \/ RefuseRenew(p) \/ DoRelease(p)
  PROVE  LeaseType' /\ term' \in 0 .. MaxTerm
<1> USE AgeCapType DEF TypeOK, LeaseType
<1>1. CASE GrantAcquire(p)
  BY <1>1 DEF GrantAcquire, Granting
<1>2. CASE RefuseAcquire(p)
  BY <1>2 DEF RefuseAcquire, lease, grant
<1>3. CASE GrantRenew(p)
  BY <1>3 DEF GrantRenew, Granting
<1>4. CASE RefuseRenew(p)
  BY <1>4 DEF RefuseRenew, lease, grant
<1>5. CASE DoRelease(p)
  BY <1>5 DEF DoRelease
<1> QED  BY <1>1, <1>2, <1>3, <1>4, <1>5

\* Every step keeps the types.
LEMMA TypeStep == TypeOK /\ ControlInv /\ [Next]_vars => TypeOK'
<1> SUFFICES ASSUME TypeOK, ControlInv, [Next]_vars PROVE TypeOK'
  OBVIOUS
<1>1. CASE Tick
  <2>1. LeaseType'
    BY <1>1, AgeCapType DEF Tick, TypeOK, LeaseType
  <2>2. ElectorType'
    BY <1>1 DEF Tick, Blocked, TypeOK, ElectorType
  <2>3. NetworkType'
    BY <1>1 DEF Tick, TypeOK, NetworkType, network
  <2> QED  BY <2>1, <2>2, <2>3 DEF TypeOK, LeaseType, ElectorType, NetworkType
<1>2. ASSUME NEW p \in Poller, LoopTop(p) PROVE TypeOK'
  <2>1. PICK w \in Where, d \in Nat : Sleep(p, w, d) \/ Send(p, w)
    BY <1>2 DEF LoopTop, EnterShutdown, Where, Sleeping, Calling, Gone
  <2>2. LeaseType' /\ ElectorType'
    BY <1>2, <2>1, BlockType DEF LoopTop, lease, grant, TypeOK, LeaseType, ElectorType
  <2> QED  BY <2>1, <2>2, BlockType DEF TypeOK, LeaseType, ElectorType, NetworkType
<1>3. ASSUME NEW p \in Poller, SleepOver(p) PROVE TypeOK'
  <2>1. PICK w \in Where, d \in Nat : Sleep(p, w, d) \/ Send(p, w)
    BY <1>3 DEF SleepOver, Where, Sleeping, Calling, Gone
  <2>2. LeaseType' /\ ElectorType'
    BY <1>3, <2>1, BlockType DEF SleepOver, lease, grant, TypeOK, LeaseType,
       ElectorType
  <2> QED  BY <2>1, <2>2, BlockType DEF TypeOK, LeaseType, ElectorType, NetworkType
<1>4. ASSUME NEW p \in Poller, SleepCut(p) PROVE TypeOK'
  <2>1. PICK w \in Where, d \in Nat : Sleep(p, w, d) \/ Send(p, w)
    BY <1>4 DEF SleepCut, EnterShutdown, Where, Sleeping, Calling, Gone
  <2>2. LeaseType' /\ ElectorType'
    BY <1>4, <2>1, BlockType DEF SleepCut, lease, grant, TypeOK, LeaseType, ElectorType
  <2> QED  BY <2>1, <2>2, BlockType DEF TypeOK, LeaseType, ElectorType, NetworkType
<1>5. ASSUME NEW p \in Poller, AcquireReturns(p) PROVE TypeOK'
  <2>1. PICK w \in Where, d \in Nat : Return(p, w, d)
    BY <1>5 DEF AcquireReturns, Where, Sleeping, Calling, Gone
  <2>2. late' \in [Poller -> [LeaseOp -> Nat]]
    BY <1>5 DEF AcquireReturns, TypeOK
  <2>3. LeaseType'
    BY <1>5 DEF AcquireReturns, lease, grant, TypeOK, LeaseType
  <2>4. ElectorType'
    BY <1>5, <2>1, ReturnType DEF AcquireReturns, TypeOK, ElectorType
  <2> QED  BY <2>1, <2>2, <2>3, <2>4, ReturnType DEF NetworkType, TypeOK, LeaseType, ElectorType
<1>6. ASSUME NEW p \in Poller, RenewReturns(p) PROVE TypeOK'
  <2>1. PICK w \in Where, d \in Nat : Return(p, w, d)
    BY <1>6 DEF RenewReturns, Where, Sleeping, Calling, Gone
  <2>2. late' \in [Poller -> [LeaseOp -> Nat]]
    BY <1>6 DEF RenewReturns, TypeOK
  <2>3. LeaseType'
    BY <1>6 DEF RenewReturns, lease, grant, TypeOK, LeaseType
  <2>4. ElectorType'
    BY <1>6, <2>1, ReturnType DEF RenewReturns, TypeOK, ElectorType
  <2> QED  BY <2>1, <2>2, <2>3, <2>4, ReturnType DEF NetworkType, TypeOK, LeaseType, ElectorType
<1>7. ASSUME NEW p \in Poller, ReleaseReturns(p) PROVE TypeOK'
  <2>1. PICK w \in Where, d \in Nat : Return(p, w, d)
    BY <1>7 DEF ReleaseReturns, Where, Sleeping, Calling, Gone
  <2>2. late' \in [Poller -> [LeaseOp -> Nat]]
    BY <1>7 DEF ReleaseReturns, TypeOK
  <2>3. LeaseType'
    BY <1>7 DEF ReleaseReturns, lease, grant, TypeOK, LeaseType
  <2>4. ElectorType'
    BY <1>7, <2>1, ReturnType DEF ReleaseReturns, TypeOK, ElectorType
  <2> QED  BY <2>1, <2>2, <2>3, <2>4, ReturnType DEF NetworkType, TypeOK, LeaseType, ElectorType
<1>8. ASSUME NEW p \in Poller, CallFails(p) PROVE TypeOK'
  <2>1. PICK w \in Where, d \in Nat : Return(p, w, d)
    BY <1>8 DEF CallFails, Where, Sleeping, Calling, Gone
  <2>2. late' \in [Poller -> [LeaseOp -> Nat]]
    BY <1>8, AbandonType DEF ControlInv, CallFails
  <2>3. LeaseType'
    BY <1>8 DEF CallFails, lease, grant, TypeOK, LeaseType
  <2>4. ElectorType'
    BY <1>8, <2>1, ReturnType DEF CallFails, TypeOK, ElectorType
  <2> QED  BY <2>1, <2>2, <2>3, <2>4, ReturnType DEF NetworkType, TypeOK, LeaseType, ElectorType
<1>9. ASSUME NEW p \in Poller, Shutdown(p) PROVE TypeOK'
  BY <1>9 DEF Shutdown, TypeOK, lease, grant, elector, network, Where
<1>10. ASSUME NEW p \in Poller, Crash(p) PROVE TypeOK'
  <2>1. PICK w \in Where, d \in Nat : Return(p, w, d)
    BY <1>10 DEF Crash, Die, Where, Sleeping, Calling, Gone
  <2>2. late' \in [Poller -> [LeaseOp -> Nat]]
    BY <1>10, AbandonType DEF ControlInv, Crash, Die
  <2>3. LeaseType'
    BY <1>10 DEF Crash, Die, lease, grant, TypeOK, LeaseType
  <2>4. ElectorType'
    BY <1>10, <2>1, ReturnType DEF Crash, Die, TypeOK, ElectorType
  <2> QED  BY <2>1, <2>2, <2>3, <2>4, ReturnType DEF NetworkType, TypeOK, LeaseType, ElectorType
<1>11. ASSUME NEW p \in Poller, Exit(p) PROVE TypeOK'
  <2>1. PICK w \in Where, d \in Nat : Return(p, w, d)
    BY <1>11 DEF Exit, Die, Where, Sleeping, Calling, Gone
  <2>2. late' \in [Poller -> [LeaseOp -> Nat]]
    BY <1>11, AbandonType DEF ControlInv, Exit, Die
  <2>3. LeaseType'
    BY <1>11 DEF Exit, Die, lease, grant, TypeOK, LeaseType
  <2>4. ElectorType'
    BY <1>11, <2>1, ReturnType DEF Exit, Die, TypeOK, ElectorType
  <2> QED  BY <2>1, <2>2, <2>3, <2>4, ReturnType DEF NetworkType, TypeOK, LeaseType, ElectorType
<1>12. ASSUME NEW p \in Poller, Restart(p) PROVE TypeOK'
  BY <1>12 DEF Restart, TypeOK, lease, grant, elector, network, Where
<1>13. ASSUME NEW p \in Poller, Handle(p) PROVE TypeOK'
  <2>1. LeaseType'
    BY <1>13, ServeType DEF Handle
  <2>2. ElectorType'
    BY <1>13 DEF Handle, elector, TypeOK, ElectorType
  <2>3. NetworkType'
    <3>1. term' \in 0 .. MaxTerm
      BY <1>13, ServeType DEF Handle
    <3>2. PICK a \in {"ok", "conflict"} : Answer(p, a)
      BY <1>13 DEF Handle
    <3>3. late' = late
      BY <1>13 DEF Handle
    <3> QED  BY <3>1, <3>2, <3>3 DEF Answer, TypeOK, NetworkType
  <2> QED  BY <2>1, <2>2, <2>3 DEF TypeOK, LeaseType, ElectorType, NetworkType
<1>14. ASSUME NEW p \in Poller, NEW op \in LeaseOp, HandleLate(p, op) PROVE TypeOK'
  <2>1. LeaseType'
    BY <1>14, ServeType DEF HandleLate
  <2>2. ElectorType'
    BY <1>14 DEF HandleLate, elector, TypeOK, ElectorType
  <2>3. NetworkType'
    BY <1>14 DEF HandleLate, TypeOK, NetworkType
  <2> QED  BY <2>1, <2>2, <2>3 DEF TypeOK, LeaseType, ElectorType, NetworkType
<1>15. CASE UNCHANGED vars
  BY <1>15 DEF vars, TypeOK
<1> QED
  BY <1>1, <1>2, <1>3, <1>4, <1>5, <1>6, <1>7, <1>8, <1>9, <1>10, <1>11,
     <1>12, <1>13, <1>14, <1>15 DEF Next, Act
-----------------------------------------------------------------------------
(* The parts of the inductive invariant, one lemma each. *)

\* Every step keeps the role and the outstanding call in line with Run's place.
LEMMA ControlStep == TypeOK /\ ControlInv /\ [Next]_vars => ControlInv'
<1> SUFFICES ASSUME TypeOK, ControlInv, [Next]_vars PROVE ControlInv'
  OBVIOUS
<1> USE DEF TypeOK, ControlInv, LeaseOp, Sleeping, Calling, Gone, Where, lease, grant,
        elector, network, Send, Sleep, Return
<1>1. CASE Tick
  BY <1>1 DEF Tick, Blocked, Running
<1>2. ASSUME NEW p \in Poller, LoopTop(p) PROVE ControlInv'
  BY <1>2 DEF LoopTop, EnterShutdown
<1>3. ASSUME NEW p \in Poller, SleepOver(p) PROVE ControlInv'
  BY <1>3 DEF SleepOver
<1>4. ASSUME NEW p \in Poller, SleepCut(p) PROVE ControlInv'
  BY <1>4 DEF SleepCut, EnterShutdown
<1>5. ASSUME NEW p \in Poller, AcquireReturns(p) PROVE ControlInv'
  BY <1>5 DEF AcquireReturns
<1>6. ASSUME NEW p \in Poller, RenewReturns(p) PROVE ControlInv'
  BY <1>6 DEF RenewReturns
<1>7. ASSUME NEW p \in Poller, ReleaseReturns(p) PROVE ControlInv'
  BY <1>7 DEF ReleaseReturns
<1>8. ASSUME NEW p \in Poller, CallFails(p) PROVE ControlInv'
  BY <1>8 DEF CallFails, Abandon, OpAt
<1>9. ASSUME NEW p \in Poller, Shutdown(p) PROVE ControlInv'
  BY <1>9 DEF Shutdown
<1>10. ASSUME NEW p \in Poller, Crash(p) PROVE ControlInv'
  BY <1>10 DEF Crash, Die, Abandon, OpAt
<1>11. ASSUME NEW p \in Poller, Exit(p) PROVE ControlInv'
  BY <1>11 DEF Exit, Die, Abandon, OpAt
<1>12. ASSUME NEW p \in Poller, Restart(p) PROVE ControlInv'
  BY <1>12 DEF Restart
<1>13. ASSUME NEW p \in Poller, Handle(p) PROVE ControlInv'
  BY <1>13 DEF Handle, Answer, GrantAcquire, RefuseAcquire, GrantRenew, Granting,
     RefuseRenew, DoRelease
<1>14. ASSUME NEW p \in Poller, NEW op \in LeaseOp, HandleLate(p, op) PROVE ControlInv'
  BY <1>14 DEF HandleLate, GrantAcquire, RefuseAcquire, GrantRenew, Granting,
     RefuseRenew, DoRelease
<1>15. CASE UNCHANGED vars
  BY <1>15 DEF vars
<1> QED
  BY <1>1, <1>2, <1>3, <1>4, <1>5, <1>6, <1>7, <1>8, <1>9, <1>10, <1>11,
     <1>12, <1>13, <1>14, <1>15 DEF Next, Act

\* Every step keeps the bounds on the age of a grant.
LEMMA AgeStep == TypeOK /\ ControlInv /\ AgeInv /\ [Next]_vars => AgeInv'
<1> SUFFICES ASSUME TypeOK, ControlInv, AgeInv, [Next]_vars PROVE AgeInv'
  OBVIOUS
<1> USE DEF TypeOK, ControlInv, AgeInv, AgeCap, LeaseOp, Sleeping, Calling,
        Gone, Where, lease, grant, elector, network, Send, Sleep, Return
<1>1. CASE Tick
  BY <1>1 DEF Tick, Blocked, Running
<1>2. ASSUME NEW p \in Poller, LoopTop(p) PROVE AgeInv'
  BY <1>2 DEF LoopTop, EnterShutdown
<1>3. ASSUME NEW p \in Poller, SleepOver(p) PROVE AgeInv'
  BY <1>3 DEF SleepOver
<1>4. ASSUME NEW p \in Poller, SleepCut(p) PROVE AgeInv'
  BY <1>4 DEF SleepCut, EnterShutdown
<1>5. ASSUME NEW p \in Poller, AcquireReturns(p) PROVE AgeInv'
  BY <1>5 DEF AcquireReturns
<1>6. ASSUME NEW p \in Poller, RenewReturns(p) PROVE AgeInv'
  BY <1>6 DEF RenewReturns
<1>7. ASSUME NEW p \in Poller, ReleaseReturns(p) PROVE AgeInv'
  BY <1>7 DEF ReleaseReturns
<1>8. ASSUME NEW p \in Poller, CallFails(p) PROVE AgeInv'
  BY <1>8 DEF CallFails, Abandon, OpAt
<1>9. ASSUME NEW p \in Poller, Shutdown(p) PROVE AgeInv'
  BY <1>9 DEF Shutdown
<1>10. ASSUME NEW p \in Poller, Crash(p) PROVE AgeInv'
  BY <1>10 DEF Crash, Die, Abandon, OpAt
<1>11. ASSUME NEW p \in Poller, Exit(p) PROVE AgeInv'
  BY <1>11 DEF Exit, Die, Abandon, OpAt
<1>12. ASSUME NEW p \in Poller, Restart(p) PROVE AgeInv'
  BY <1>12 DEF Restart
<1>13. ASSUME NEW p \in Poller, Handle(p) PROVE AgeInv'
  BY <1>13 DEF Handle, Answer, GrantAcquire, RefuseAcquire, GrantRenew, Granting,
     RefuseRenew, DoRelease
<1>14. ASSUME NEW p \in Poller, NEW op \in LeaseOp, HandleLate(p, op) PROVE AgeInv'
  BY <1>14 DEF HandleLate, GrantAcquire, RefuseAcquire, GrantRenew, Granting,
     RefuseRenew, DoRelease
<1>15. CASE UNCHANGED vars
  BY <1>15 DEF vars
<1> QED
  BY <1>1, <1>2, <1>3, <1>4, <1>5, <1>6, <1>7, <1>8, <1>9, <1>10, <1>11,
     <1>12, <1>13, <1>14, <1>15 DEF Next, Act

\* Every step keeps a young grant in the lease document.
LEMMA LeaseStep == TypeOK /\ ControlInv /\ LeaseInv /\ [Next]_vars => LeaseInv'
<1> SUFFICES ASSUME TypeOK, ControlInv, LeaseInv, [Next]_vars PROVE LeaseInv'
  OBVIOUS
<1> USE DEF TypeOK, ControlInv, LeaseInv, Granted, Leading, AgeCap, LeaseOp,
        Sleeping, Calling, Gone, Where, lease, grant, elector, network, Send, Sleep,
        Return
<1>1. CASE Tick
  BY <1>1 DEF Tick, Blocked, Running
<1>2. ASSUME NEW p \in Poller, LoopTop(p) PROVE LeaseInv'
  BY <1>2 DEF LoopTop, EnterShutdown
<1>3. ASSUME NEW p \in Poller, SleepOver(p) PROVE LeaseInv'
  BY <1>3 DEF SleepOver
<1>4. ASSUME NEW p \in Poller, SleepCut(p) PROVE LeaseInv'
  BY <1>4 DEF SleepCut, EnterShutdown
<1>5. ASSUME NEW p \in Poller, AcquireReturns(p) PROVE LeaseInv'
  BY <1>5 DEF AcquireReturns
<1>6. ASSUME NEW p \in Poller, RenewReturns(p) PROVE LeaseInv'
  BY <1>6 DEF RenewReturns
<1>7. ASSUME NEW p \in Poller, ReleaseReturns(p) PROVE LeaseInv'
  BY <1>7 DEF ReleaseReturns
<1>8. ASSUME NEW p \in Poller, CallFails(p) PROVE LeaseInv'
  BY <1>8 DEF CallFails, Abandon, OpAt
<1>9. ASSUME NEW p \in Poller, Shutdown(p) PROVE LeaseInv'
  BY <1>9 DEF Shutdown
<1>10. ASSUME NEW p \in Poller, Crash(p) PROVE LeaseInv'
  BY <1>10 DEF Crash, Die, Abandon, OpAt
<1>11. ASSUME NEW p \in Poller, Exit(p) PROVE LeaseInv'
  BY <1>11 DEF Exit, Die, Abandon, OpAt
<1>12. ASSUME NEW p \in Poller, Restart(p) PROVE LeaseInv'
  BY <1>12 DEF Restart
<1>13. ASSUME NEW p \in Poller, Handle(p) PROVE LeaseInv'
  BY <1>13 DEF Handle, Answer, GrantAcquire, RefuseAcquire, GrantRenew, Granting,
     RefuseRenew, DoRelease
<1>14. ASSUME NEW p \in Poller, NEW op \in LeaseOp, HandleLate(p, op) PROVE LeaseInv'
  <2>1. UNCHANGED <<pc, role, call>>
    BY <1>14 DEF HandleLate
  <2>2. CASE GrantAcquire(p)
    BY <2>1, <2>2 DEF GrantAcquire, Granting
  <2>3. CASE GrantRenew(p)
    BY <2>1, <2>3 DEF GrantRenew, Granting
  <2>4. CASE RefuseAcquire(p) \/ RefuseRenew(p)
    BY <2>1, <2>4 DEF RefuseAcquire, RefuseRenew
  <2>5. CASE DoRelease(p)
    BY <2>1, <2>5 DEF DoRelease
  <2>6. QED
    BY <1>14, <2>2, <2>3, <2>4, <2>5 DEF HandleLate
<1>15. CASE UNCHANGED vars
  BY <1>15 DEF vars
<1> QED
  BY <1>1, <1>2, <1>3, <1>4, <1>5, <1>6, <1>7, <1>8, <1>9, <1>10, <1>11,
     <1>12, <1>13, <1>14, <1>15 DEF Next, Act

\* A step that grants no poller the lease, and gives no release back, keeps the
\* grants apart.
LEMMA NothingGranted ==
  ASSUME ApartInv, UNCHANGED age,
         \A q \in Poller : (Granted(q)' => Granted(q)) /\ (released[q] => released'[q])
  PROVE  ApartInv'
  BY DEF ApartInv, Apart

\* A grant to p comes a TTL after every grant it did not release.
LEMMA GrantApart ==
  ASSUME TypeOK, LeaseInv, ApartInv, NEW p \in Poller, GrantAcquire(p) \/ GrantRenew(p),
         \A q \in Poller : q # p => (Granted(q)' => Granted(q))
  PROVE  ApartInv'
<1>1. age' = [age EXCEPT ![p] = 0] /\ released' = [released EXCEPT ![p] = FALSE]
  BY DEF GrantAcquire, GrantRenew, Granting
<1>2. ASSUME NEW q \in Poller, q # p, Granted(q), ~released[q] PROVE LeaseTTL <= age[q]
  <2>1. CASE holder = q
    <3>1. left = 0
      BY <1>2, <2>1 DEF GrantAcquire, GrantRenew
    <3>2. QED
      BY <2>1, <3>1 DEF LeaseInv, TypeOK
  <2>2. CASE holder # q
    BY <1>2, <2>2 DEF LeaseInv, TypeOK, AgeCap
  <2>3. QED
    BY <2>1, <2>2
<1>3. ASSUME NEW q \in Poller, q # p, Granted(q)', ~released'[q]
      PROVE  age'[p] + LeaseTTL <= age'[q]
  <2>1. ~released[q] /\ Granted(q)
    BY <1>1, <1>3 DEF TypeOK
  <2>2. LeaseTTL <= age[q]
    BY <1>2, <1>3, <2>1
  <2>3. age'[q] = age[q] /\ age'[p] = 0
    BY <1>1, <1>3 DEF TypeOK
  <2>4. QED
    BY <2>2, <2>3
<1>4. ASSUME NEW q \in Poller, NEW r \in Poller, q # r, q # p, r # p, Granted(q)', Granted(r)',
             ~released'[q], ~released'[r]
      PROVE  Apart(q, r)'
  <2>1. UNCHANGED <<age[q], age[r], released[q], released[r]>>
    BY <1>1, <1>4 DEF TypeOK
  <2>2. Apart(q, r)
    BY <1>4, <2>1 DEF ApartInv
  <2>3. QED
    BY <2>1, <2>2 DEF Apart
<1>5. QED
  BY <1>3, <1>4 DEF ApartInv, Apart

\* Every step keeps the grants apart.
LEMMA ApartStep ==
  TypeOK /\ ControlInv /\ AgeInv /\ LeaseInv /\ ApartInv /\ [Next]_vars => ApartInv'
<1> SUFFICES ASSUME TypeOK, ControlInv, AgeInv, LeaseInv, ApartInv, [Next]_vars PROVE ApartInv'
  OBVIOUS
<1> USE DEF TypeOK, ControlInv, Granted, Leading, LeaseOp, Sleeping, Calling, Gone, Where, lease,
        grant, elector, network, Send, Sleep, Return
<1>1. CASE Tick
  <2>1. \A q \in Poller : Granted(q)' => Granted(q) /\ age'[q] = age[q] + 1
    BY <1>1 DEF Tick, Blocked, Running, AgeInv, AgeCap
  <2>2. released' = released
    BY <1>1 DEF Tick
  <2>3. ASSUME NEW q \in Poller, NEW r \in Poller, q # r, Granted(q)', Granted(r)',
               ~released'[q], ~released'[r]
        PROVE  Apart(q, r)'
    <3>1. Apart(q, r)
      BY <2>1, <2>2, <2>3 DEF ApartInv
    <3>2. QED
      BY <2>1, <2>3, <3>1 DEF Apart
  <2>4. QED
    BY <2>3 DEF ApartInv
<1>2. ASSUME NEW p \in Poller, LoopTop(p) PROVE ApartInv'
  <2>1. UNCHANGED grant /\ \A q \in Poller : Granted(q)' => Granted(q)
    BY <1>2 DEF LoopTop, EnterShutdown
  <2>2. QED
    BY <2>1, NothingGranted
<1>3. ASSUME NEW p \in Poller, SleepOver(p) PROVE ApartInv'
  <2>1. UNCHANGED grant /\ \A q \in Poller : Granted(q)' => Granted(q)
    BY <1>3 DEF SleepOver
  <2>2. QED
    BY <2>1, NothingGranted
<1>4. ASSUME NEW p \in Poller, SleepCut(p) PROVE ApartInv'
  <2>1. UNCHANGED grant /\ \A q \in Poller : Granted(q)' => Granted(q)
    BY <1>4 DEF SleepCut, EnterShutdown
  <2>2. QED
    BY <2>1, NothingGranted
<1>5. ASSUME NEW p \in Poller, AcquireReturns(p) PROVE ApartInv'
  <2>1. UNCHANGED grant /\ \A q \in Poller : Granted(q)' => Granted(q)
    BY <1>5 DEF AcquireReturns
  <2>2. QED
    BY <2>1, NothingGranted
<1>6. ASSUME NEW p \in Poller, RenewReturns(p) PROVE ApartInv'
  <2>1. UNCHANGED grant /\ \A q \in Poller : Granted(q)' => Granted(q)
    BY <1>6 DEF RenewReturns
  <2>2. QED
    BY <2>1, NothingGranted
<1>7. ASSUME NEW p \in Poller, ReleaseReturns(p) PROVE ApartInv'
  <2>1. UNCHANGED grant /\ \A q \in Poller : Granted(q)' => Granted(q)
    BY <1>7 DEF ReleaseReturns
  <2>2. QED
    BY <2>1, NothingGranted
<1>8. ASSUME NEW p \in Poller, CallFails(p) PROVE ApartInv'
  <2>1. UNCHANGED grant /\ \A q \in Poller : Granted(q)' => Granted(q)
    BY <1>8 DEF CallFails
  <2>2. QED
    BY <2>1, NothingGranted
<1>9. ASSUME NEW p \in Poller, Shutdown(p) PROVE ApartInv'
  <2>1. UNCHANGED grant /\ \A q \in Poller : Granted(q)' => Granted(q)
    BY <1>9 DEF Shutdown
  <2>2. QED
    BY <2>1, NothingGranted
<1>10. ASSUME NEW p \in Poller, Crash(p) PROVE ApartInv'
  <2>1. UNCHANGED grant /\ \A q \in Poller : Granted(q)' => Granted(q)
    BY <1>10 DEF Crash, Die
  <2>2. QED
    BY <2>1, NothingGranted
<1>11. ASSUME NEW p \in Poller, Exit(p) PROVE ApartInv'
  <2>1. UNCHANGED grant /\ \A q \in Poller : Granted(q)' => Granted(q)
    BY <1>11 DEF Exit, Die
  <2>2. QED
    BY <2>1, NothingGranted
<1>12. ASSUME NEW p \in Poller, Restart(p) PROVE ApartInv'
  <2>1. UNCHANGED grant /\ \A q \in Poller : Granted(q)' => Granted(q)
    BY <1>12 DEF Restart
  <2>2. QED
    BY <2>1, NothingGranted
<1>13. ASSUME NEW p \in Poller, Handle(p) PROVE ApartInv'
  <2>1. \A q \in Poller : q # p => (Granted(q)' => Granted(q))
    BY <1>13 DEF Handle, Answer
  <2>2. CASE GrantAcquire(p) \/ GrantRenew(p)
    BY <2>1, <2>2, GrantApart
  <2>3. CASE ~GrantAcquire(p) /\ ~GrantRenew(p)
    <3>1. UNCHANGED age /\ \A q \in Poller : released[q] => released'[q]
      BY <1>13, <2>3 DEF Handle, RefuseAcquire, RefuseRenew, DoRelease
    <3>2. Granted(p)' => Granted(p)
      BY <1>13, <2>3 DEF Handle, Answer
    <3>3. QED
      BY <2>1, <3>1, <3>2, NothingGranted
  <2>4. QED
    BY <2>2, <2>3
<1>14. ASSUME NEW p \in Poller, NEW op \in LeaseOp, HandleLate(p, op) PROVE ApartInv'
  <2>1. \A q \in Poller : Granted(q)' => Granted(q)
    BY <1>14 DEF HandleLate
  <2>2. CASE GrantAcquire(p) \/ GrantRenew(p)
    BY <2>1, <2>2, GrantApart
  <2>3. CASE ~GrantAcquire(p) /\ ~GrantRenew(p)
    <3>1. UNCHANGED age /\ \A q \in Poller : released[q] => released'[q]
      BY <1>14, <2>3 DEF HandleLate, RefuseAcquire, RefuseRenew, DoRelease
    <3>2. QED
      BY <2>1, <3>1, NothingGranted
  <2>4. QED
    BY <2>2, <2>3
<1>15. CASE UNCHANGED vars
  <2>1. UNCHANGED grant /\ \A q \in Poller : Granted(q)' => Granted(q)
    BY <1>15 DEF vars
  <2>2. QED
    BY <2>1, NothingGranted
<1> QED
  BY <1>1, <1>2, <1>3, <1>4, <1>5, <1>6, <1>7, <1>8, <1>9, <1>10, <1>11,
     <1>12, <1>13, <1>14, <1>15 DEF Next, Act

\* A step that teaches nobody a term keeps the known terms apart, if the lease
\* document stays as it is or loses its holder.
LEMMA NothingLearned ==
  ASSUME TermInv, TypeOK, term' = term, holder' \in {holder, None},
         \A q \in Poller, t \in 0 .. MaxTerm : Knows(q, t)' => Knows(q, t)
  PROVE  TermInv'
  BY DEF TermInv, TypeOK

\* So does a grant to p, even if p learns the term.
LEMMA GrantLearned ==
  ASSUME TermInv, TypeOK, TypeOK', NEW p \in Poller, holder' = p,
         term' = term + 1 \/ (term' = term /\ holder = p),
         \A q \in Poller, t \in 0 .. MaxTerm :
             Knows(q, t)' => Knows(q, t) \/ (q = p /\ t = term')
  PROVE  TermInv'
<1> USE DEF TypeOK
<1>1. \A q \in Poller, t \in 0 .. MaxTerm : Knows(q, t)' => t <= term'
  BY DEF TermInv
<1>2. \A q \in Poller : Knows(q, term)' => holder' \in {q, None}
  BY DEF TermInv
<1>3. \A q, r \in Poller : \A t \in 0 .. MaxTerm :
          Knows(q, t)' /\ Knows(r, t)' => q = r
  <2>1. \A r \in Poller : Knows(r, term') => r = p
    BY DEF TermInv
  <2>2. SUFFICES ASSUME NEW q \in Poller, NEW r \in Poller, NEW t \in 0 .. MaxTerm,
                        Knows(q, t)', Knows(r, t)'
                 PROVE  q = r
    OBVIOUS
  <2>3. CASE t = term'
    <3>1. q = p
      BY <2>1, <2>2, <2>3
    <3>2. r = p
      BY <2>1, <2>2, <2>3
    <3> QED  BY <3>1, <3>2
  <2>4. CASE t # term'
    <3>1. Knows(q, t) /\ Knows(r, t)
      BY <2>2, <2>4
    <3> QED  BY <3>1 DEF TermInv
  <2> QED  BY <2>3, <2>4
<1> QED  BY <1>1, <1>2, <1>3 DEF TermInv

\* Every step keeps the known terms apart.
LEMMA TermStep == TypeOK /\ ControlInv /\ TermInv /\ [Next]_vars => TermInv'
<1> SUFFICES ASSUME TypeOK, ControlInv, TermInv, [Next]_vars PROVE TermInv'
  OBVIOUS
<1>1. CASE Tick
  <2>1. \A q \in Poller, t \in 0 .. MaxTerm : Knows(q, t)' => Knows(q, t)
    BY <1>1 DEF Tick, Blocked, Running, LeaseOp, Sleeping, Calling, Gone,
       Where, lease, grant, elector, network, Send, Sleep, Return, TypeOK,
       ControlInv, Knows, Granted, Leading
  <2>2. term' = term /\ holder' \in {holder, None}
    BY <1>1 DEF Tick, Blocked, Running, lease, grant
  <2> QED  BY <2>1, <2>2, NothingLearned DEF TypeOK
<1>2. ASSUME NEW p \in Poller, LoopTop(p) PROVE TermInv'
  <2>1. \A q \in Poller, t \in 0 .. MaxTerm : Knows(q, t)' => Knows(q, t)
    BY <1>2 DEF LoopTop, EnterShutdown, LeaseOp, Sleeping, Calling, Gone,
       Where, lease, grant, elector, network, Send, Sleep, Return, TypeOK,
       ControlInv, Knows, Granted, Leading
  <2>2. term' = term /\ holder' \in {holder, None}
    BY <1>2 DEF LoopTop, EnterShutdown, lease, grant
  <2> QED  BY <2>1, <2>2, NothingLearned DEF TypeOK
<1>3. ASSUME NEW p \in Poller, SleepOver(p) PROVE TermInv'
  <2>1. \A q \in Poller, t \in 0 .. MaxTerm : Knows(q, t)' => Knows(q, t)
    BY <1>3 DEF SleepOver, LeaseOp, Sleeping, Calling, Gone, Where, lease, grant,
       elector, network, Send, Sleep, Return, TypeOK, ControlInv, Knows,
       Granted, Leading
  <2>2. term' = term /\ holder' \in {holder, None}
    BY <1>3 DEF SleepOver, lease, grant
  <2> QED  BY <2>1, <2>2, NothingLearned DEF TypeOK
<1>4. ASSUME NEW p \in Poller, SleepCut(p) PROVE TermInv'
  <2>1. \A q \in Poller, t \in 0 .. MaxTerm : Knows(q, t)' => Knows(q, t)
    BY <1>4 DEF SleepCut, EnterShutdown, LeaseOp, Sleeping, Calling, Gone,
       Where, lease, grant, elector, network, Send, Sleep, Return, TypeOK,
       ControlInv, Knows, Granted, Leading
  <2>2. term' = term /\ holder' \in {holder, None}
    BY <1>4 DEF SleepCut, EnterShutdown, lease, grant
  <2> QED  BY <2>1, <2>2, NothingLearned DEF TypeOK
<1>5. ASSUME NEW p \in Poller, AcquireReturns(p) PROVE TermInv'
  <2>1. \A q \in Poller, t \in 0 .. MaxTerm : Knows(q, t)' => Knows(q, t)
    BY <1>5 DEF AcquireReturns, LeaseOp, Sleeping, Calling, Gone, Where,
       lease, grant, elector, network, Send, Sleep, Return, TypeOK, ControlInv,
       Knows, Granted, Leading
  <2>2. term' = term /\ holder' \in {holder, None}
    BY <1>5 DEF AcquireReturns, lease, grant
  <2> QED  BY <2>1, <2>2, NothingLearned DEF TypeOK
<1>6. ASSUME NEW p \in Poller, RenewReturns(p) PROVE TermInv'
  <2>1. \A q \in Poller, t \in 0 .. MaxTerm : Knows(q, t)' => Knows(q, t)
    BY <1>6 DEF RenewReturns, LeaseOp, Sleeping, Calling, Gone, Where,
       lease, grant, elector, network, Send, Sleep, Return, TypeOK, ControlInv,
       Knows, Granted, Leading
  <2>2. term' = term /\ holder' \in {holder, None}
    BY <1>6 DEF RenewReturns, lease, grant
  <2> QED  BY <2>1, <2>2, NothingLearned DEF TypeOK
<1>7. ASSUME NEW p \in Poller, ReleaseReturns(p) PROVE TermInv'
  <2>1. \A q \in Poller, t \in 0 .. MaxTerm : Knows(q, t)' => Knows(q, t)
    BY <1>7 DEF ReleaseReturns, LeaseOp, Sleeping, Calling, Gone, Where,
       lease, grant, elector, network, Send, Sleep, Return, TypeOK, ControlInv,
       Knows, Granted, Leading
  <2>2. term' = term /\ holder' \in {holder, None}
    BY <1>7 DEF ReleaseReturns, lease, grant
  <2> QED  BY <2>1, <2>2, NothingLearned DEF TypeOK
<1>8. ASSUME NEW p \in Poller, CallFails(p) PROVE TermInv'
  <2>1. \A q \in Poller, t \in 0 .. MaxTerm : Knows(q, t)' => Knows(q, t)
    BY <1>8 DEF CallFails, Abandon, OpAt, LeaseOp, Sleeping, Calling, Gone,
       Where, lease, grant, elector, network, Send, Sleep, Return, TypeOK,
       ControlInv, Knows, Granted, Leading
  <2>2. term' = term /\ holder' \in {holder, None}
    BY <1>8 DEF CallFails, Abandon, OpAt, lease, grant
  <2> QED  BY <2>1, <2>2, NothingLearned DEF TypeOK
<1>9. ASSUME NEW p \in Poller, Shutdown(p) PROVE TermInv'
  <2>1. \A q \in Poller, t \in 0 .. MaxTerm : Knows(q, t)' => Knows(q, t)
    BY <1>9 DEF Shutdown, LeaseOp, Sleeping, Calling, Gone, Where, lease, grant,
       elector, network, Send, Sleep, Return, TypeOK, ControlInv, Knows,
       Granted, Leading
  <2>2. term' = term /\ holder' \in {holder, None}
    BY <1>9 DEF Shutdown, lease, grant
  <2> QED  BY <2>1, <2>2, NothingLearned DEF TypeOK
<1>10. ASSUME NEW p \in Poller, Crash(p) PROVE TermInv'
  <2>1. \A q \in Poller, t \in 0 .. MaxTerm : Knows(q, t)' => Knows(q, t)
    BY <1>10 DEF Crash, Die, Abandon, OpAt, LeaseOp, Sleeping, Calling,
       Gone, Where, lease, grant, elector, network, Send, Sleep, Return, TypeOK,
       ControlInv, Knows, Granted, Leading
  <2>2. term' = term /\ holder' \in {holder, None}
    BY <1>10 DEF Crash, Die, Abandon, OpAt, lease, grant
  <2> QED  BY <2>1, <2>2, NothingLearned DEF TypeOK
<1>11. ASSUME NEW p \in Poller, Exit(p) PROVE TermInv'
  <2>1. \A q \in Poller, t \in 0 .. MaxTerm : Knows(q, t)' => Knows(q, t)
    BY <1>11 DEF Exit, Die, Abandon, OpAt, LeaseOp, Sleeping, Calling, Gone,
       Where, lease, grant, elector, network, Send, Sleep, Return, TypeOK,
       ControlInv, Knows, Granted, Leading
  <2>2. term' = term /\ holder' \in {holder, None}
    BY <1>11 DEF Exit, Die, Abandon, OpAt, lease, grant
  <2> QED  BY <2>1, <2>2, NothingLearned DEF TypeOK
<1>12. ASSUME NEW p \in Poller, Restart(p) PROVE TermInv'
  <2>1. \A q \in Poller, t \in 0 .. MaxTerm : Knows(q, t)' => Knows(q, t)
    BY <1>12 DEF Restart, LeaseOp, Sleeping, Calling, Gone, Where, lease, grant,
       elector, network, Send, Sleep, Return, TypeOK, ControlInv, Knows,
       Granted, Leading
  <2>2. term' = term /\ holder' \in {holder, None}
    BY <1>12 DEF Restart, lease, grant
  <2> QED  BY <2>1, <2>2, NothingLearned DEF TypeOK
<1>13. ASSUME NEW p \in Poller, Handle(p) PROVE TermInv'
  <2> TypeOK'
    BY TypeStep
  <2>1. CASE GrantAcquire(p)
    <3>1. \A q \in Poller, t \in 0 .. MaxTerm :
              Knows(q, t)' => Knows(q, t) \/ (q = p /\ t = term')
      BY <1>13, <2>1 DEF Handle, Answer, GrantAcquire, Granting, LeaseOp, Sleeping,
         Calling, Gone, Where, lease, grant, elector, network, Send, Sleep,
         Return, TypeOK, ControlInv, Knows, Granted, Leading
    <3> QED  BY <2>1, <3>1, GrantLearned DEF GrantAcquire, Granting, TypeOK
  <2>2. CASE GrantRenew(p)
    <3>1. \A q \in Poller, t \in 0 .. MaxTerm :
              Knows(q, t)' => Knows(q, t) \/ (q = p /\ t = term')
      BY <1>13, <2>2 DEF Handle, Answer, GrantRenew, Granting, LeaseOp, Sleeping,
         Calling, Gone, Where, lease, grant, elector, network, Send, Sleep,
         Return, TypeOK, ControlInv, Knows, Granted, Leading
    <3> QED  BY <2>2, <3>1, GrantLearned DEF GrantRenew, Granting, TypeOK
  <2>3. CASE ~GrantAcquire(p) /\ ~GrantRenew(p)
    <3>1. \A q \in Poller, t \in 0 .. MaxTerm : Knows(q, t)' => Knows(q, t)
      <4>1. call[p] = "sent" /\ call' \in {[call EXCEPT ![p] = "conflict"], [call EXCEPT ![p] = "ok"]}
        BY <1>13 DEF Handle, Answer
      <4>2. pc[p] = "releasing" \/ call' = [call EXCEPT ![p] = "conflict"]
        BY <1>13, <2>3 DEF Handle, Answer
      <4>3. UNCHANGED <<pc, role, myTerm>> /\ \A q \in Poller : q # p => replyTerm'[q] = replyTerm[q]
        BY <1>13 DEF Handle, Answer, elector, TypeOK
      <4> QED  BY <4>1, <4>2, <4>3 DEF Knows, Granted, Leading, TypeOK
    <3>2. term' = term /\ holder' \in {holder, None}
      BY <1>13, <2>3 DEF Handle, RefuseAcquire, RefuseRenew, DoRelease, lease, grant
    <3> QED  BY <3>1, <3>2, NothingLearned
  <2> QED  BY <1>13, <2>1, <2>2, <2>3 DEF Handle
<1>14. ASSUME NEW p \in Poller, NEW op \in LeaseOp, HandleLate(p, op) PROVE TermInv'
  <2> TypeOK'
    BY TypeStep
  <2>1. CASE GrantAcquire(p)
    <3>1. \A q \in Poller, t \in 0 .. MaxTerm :
              Knows(q, t)' => Knows(q, t) \/ (q = p /\ t = term')
      BY <1>14, <2>1 DEF HandleLate, GrantAcquire, Granting, LeaseOp, Sleeping,
         Calling, Gone, Where, lease, grant, elector, network, Send, Sleep,
         Return, TypeOK, ControlInv, Knows, Granted, Leading
    <3> QED  BY <2>1, <3>1, GrantLearned DEF GrantAcquire, Granting, TypeOK
  <2>2. CASE GrantRenew(p)
    <3>1. \A q \in Poller, t \in 0 .. MaxTerm :
              Knows(q, t)' => Knows(q, t) \/ (q = p /\ t = term')
      BY <1>14, <2>2 DEF HandleLate, GrantRenew, Granting, LeaseOp, Sleeping,
         Calling, Gone, Where, lease, grant, elector, network, Send, Sleep,
         Return, TypeOK, ControlInv, Knows, Granted, Leading
    <3> QED  BY <2>2, <3>1, GrantLearned DEF GrantRenew, Granting, TypeOK
  <2>3. CASE ~GrantAcquire(p) /\ ~GrantRenew(p)
    <3>1. \A q \in Poller, t \in 0 .. MaxTerm : Knows(q, t)' => Knows(q, t)
      BY <1>14, <2>3 DEF HandleLate, elector, Knows, Granted, Leading
    <3>2. term' = term /\ holder' \in {holder, None}
      BY <1>14, <2>3 DEF HandleLate, RefuseAcquire, RefuseRenew,
         DoRelease, lease, grant
    <3> QED  BY <3>1, <3>2, NothingLearned
  <2> QED  BY <1>14, <2>1, <2>2, <2>3 DEF HandleLate
<1>15. CASE UNCHANGED vars
  BY <1>15 DEF vars, TermInv, Knows, Granted, Leading
<1> QED
  BY <1>1, <1>2, <1>3, <1>4, <1>5, <1>6, <1>7, <1>8, <1>9, <1>10, <1>11,
     <1>12, <1>13, <1>14, <1>15 DEF Next, Act

-----------------------------------------------------------------------------
(* The theorems. *)

LEMMA TimingInduction == Spec => []TimingInv
<1>1. Init => TimingInv
  BY DEF Init, TimingInv, TypeOK, ControlInv, AgeInv, Where, Sleeping, Calling,
         Gone, LeaseOp, AgeCap
<1>2. TimingInv /\ [Next]_vars => TimingInv'
  BY TypeStep, ControlStep, AgeStep DEF TimingInv
<1> QED  BY <1>1, <1>2, PTL DEF Spec

\* Every variable keeps its type, whatever the timing and the failures.
THEOREM TypeCorrect == Spec => []TypeOK
<1>1. TimingInv => TypeOK
  BY DEF TimingInv
<1> QED  BY <1>1, TimingInduction, PTL

\* A poller never acts as leader longer after a grant than one renewal cycle
\* and the call before and after it can last.
THEOREM StaleLeader == Spec => []StaleLeaderBound
<1>1. TimingInv => StaleLeaderBound
  BY DEF TimingInv, TypeOK, ControlInv, AgeInv, StaleLeaderBound, Leading,
         Where, Sleeping, Calling, Gone, AgeCap
<1> QED  BY <1>1, TimingInduction, PTL

LEMMA LeaseInduction == Spec => [](LeaseInv /\ ApartInv)
<1>1. Init => LeaseInv /\ ApartInv
  BY DEF Init, LeaseInv, ApartInv, Granted, Leading, LeaseOp, AgeCap
<1>2. TimingInv /\ (LeaseInv /\ ApartInv) /\ [Next]_vars => (LeaseInv /\ ApartInv)'
  BY LeaseStep, ApartStep DEF TimingInv
<1> QED  BY <1>1, <1>2, TimingInduction, PTL DEF Spec

\* Whatever the timing, two pollers lead at once only if a release took the
\* grant of one of them away, or for as long as the worst renewal cycle exceeds
\* the TTL.  With a timeout that lets it exceed nothing, and no release, there
\* is one leader.
THEOREM BoundedOverlap == Spec => []OverlapIsBounded
<1>1. TimingInv /\ LeaseInv /\ ApartInv /\ StaleLeaderBound => OverlapIsBounded
  <2> SUFFICES ASSUME TimingInv, ApartInv, StaleLeaderBound, NEW p \in Poller, NEW q \in Poller,
                      p # q, Leading(p), Leading(q), ~released[p], ~released[q]
               PROVE  \E y \in {p, q} : age[y] + LeaseTTL <= 2 * Timeout + RenewInterval
    BY DEF OverlapIsBounded
  <2>1. Apart(p, q)
    BY DEF ApartInv, Granted
  <2>2. age[p] \in Nat /\ age[q] \in Nat
    BY DEF TimingInv, TypeOK, AgeCap
  <2>3. age[p] <= 2 * Timeout + RenewInterval /\ age[q] <= 2 * Timeout + RenewInterval
    BY DEF StaleLeaderBound
  <2> QED  BY <2>1, <2>2, <2>3 DEF Apart
<1> QED  BY <1>1, TimingInduction, StaleLeader, LeaseInduction, PTL

\* Whatever the timing and the failures, a renewal is refused only a TTL after
\* the poller's last grant, or after a release of the poller's own took that
\* grant away: no other poller's request can.
THEOREM ConflictsExplained == Spec => ConflictIsExplained
<1>1. TimingInv /\ LeaseInv /\ [Next]_vars =>
        [\A p \in Poller : Refused(p) => age[p] >= LeaseTTL \/ released[p]]_vars
  <2> SUFFICES ASSUME TimingInv, LeaseInv, Next, NEW p \in Poller, Refused(p), ~released[p]
               PROVE  age[p] >= LeaseTTL
    OBVIOUS
  <2> USE DEF TimingInv, TypeOK, Refused
  <2>1. RefuseRenew(p)
    <3>1. call' # call
      OBVIOUS
    <3>2. PICK q \in Poller : Handle(q)
      BY <3>1 DEF Next, Act, Tick, LoopTop, EnterShutdown, Send, Sleep,
         SleepOver,
         SleepCut, AcquireReturns, RenewReturns, ReleaseReturns, Return, CallFails,
         Shutdown, Crash, Exit, Die, Restart, HandleLate, network
    <3>3. q = p
      BY <3>2 DEF Handle, Answer
    <3> QED  BY <3>2, <3>3 DEF Handle, Answer
  <2>2. Leading(p)
    BY DEF Leading, ControlInv
  <2>3. age[p] < LeaseTTL => holder = p /\ left > 0
    BY <2>2 DEF LeaseInv, Granted, AgeCap
  <2> QED  BY <2>1, <2>3 DEF RefuseRenew, AgeCap
<1> QED  BY <1>1, TimingInduction, LeaseInduction, PTL DEF Spec, ConflictIsExplained

\* Whatever the timing, two pollers that lead at once hold different terms.
THEOREM TermsFence == Spec => []FencingTerms
<1>1. Init => TermInv
  BY DEF Init, TermInv, Knows, Granted, Leading
<1>2. TimingInv /\ TermInv /\ [Next]_vars => TermInv'
  BY TermStep DEF TimingInv
<1>3. TimingInv /\ TermInv => FencingTerms
  BY DEF TimingInv, TypeOK, TermInv, Knows, FencingTerms
<1> QED  BY <1>1, <1>2, <1>3, TimingInduction, PTL DEF Spec

-----------------------------------------------------------------------------
(* Failover: how long nobody leads. *)

Shape == TypeOK /\ ControlInv /\ WaitInv

\* Every step keeps the sleeps, the calls and the shutdowns in line.
LEMMA WaitStep == TypeOK /\ ControlInv /\ WaitInv /\ [Next]_vars => WaitInv'
<1> SUFFICES ASSUME TypeOK, ControlInv, WaitInv, [Next]_vars PROVE WaitInv'
  OBVIOUS
<1> USE DEF TypeOK, ControlInv, WaitInv, LeaseOp, Sleeping, Calling, Gone, Where, lease, grant,
        elector, network, Send, Sleep, Return
<1>1. CASE Tick
  BY <1>1 DEF Tick, Blocked, Running
<1>2. ASSUME NEW p \in Poller, LoopTop(p) PROVE WaitInv'
  BY <1>2 DEF LoopTop, EnterShutdown
<1>3. ASSUME NEW p \in Poller, SleepOver(p) PROVE WaitInv'
  BY <1>3 DEF SleepOver
<1>4. ASSUME NEW p \in Poller, SleepCut(p) PROVE WaitInv'
  BY <1>4 DEF SleepCut, EnterShutdown
<1>5. ASSUME NEW p \in Poller, AcquireReturns(p) PROVE WaitInv'
  BY <1>5 DEF AcquireReturns
<1>6. ASSUME NEW p \in Poller, RenewReturns(p) PROVE WaitInv'
  BY <1>6 DEF RenewReturns
<1>7. ASSUME NEW p \in Poller, ReleaseReturns(p) PROVE WaitInv'
  BY <1>7 DEF ReleaseReturns
<1>8. ASSUME NEW p \in Poller, CallFails(p) PROVE WaitInv'
  BY <1>8 DEF CallFails, Abandon, OpAt
<1>9. ASSUME NEW p \in Poller, Shutdown(p) PROVE WaitInv'
  BY <1>9 DEF Shutdown
<1>10. ASSUME NEW p \in Poller, Crash(p) \/ Exit(p) PROVE WaitInv'
  BY <1>10 DEF Crash, Exit, Die, Abandon, OpAt
<1>11. ASSUME NEW p \in Poller, Restart(p) PROVE WaitInv'
  BY <1>11 DEF Restart
<1>12. ASSUME NEW p \in Poller, Handle(p) PROVE WaitInv'
  BY <1>12 DEF Handle, Answer, GrantAcquire, RefuseAcquire, GrantRenew, Granting,
     RefuseRenew, DoRelease
<1>13. ASSUME NEW p \in Poller, NEW op \in LeaseOp, HandleLate(p, op) PROVE WaitInv'
  BY <1>13 DEF HandleLate, GrantAcquire, RefuseAcquire, GrantRenew, Granting,
     RefuseRenew, DoRelease
<1>14. CASE UNCHANGED vars
  BY <1>14 DEF vars
<1> QED
  BY <1>1, <1>2, <1>3, <1>4, <1>5, <1>6, <1>7, <1>8, <1>9, <1>10, <1>11,
     <1>12, <1>13, <1>14 DEF Next, Act

LEMMA BoundType ==
  FailoverBound \in Nat /\ LeaseTTL + Timeout + AcquireInterval + Timeout <= FailoverBound
  BY DEF FailoverBound

\* A follower's next answer is never further away than the rest of a call, a
\* sleep and a call.
LEMMA OwedSize ==
  ASSUME Shape, NEW p \in Poller, pc[p] \in Seeking
  PROVE  Owed(p) \in Nat /\ Owed(p) <= Timeout + AcquireInterval + Timeout
  BY DEF Shape, TypeOK, ControlInv, WaitInv, Owed, Seeking, Calling

\* When the stopwatch starts again, there is time enough.
LEMMA FreshInTime ==
  ASSUME Shape', gap' = 0
  PROVE  GapInv'
<1>1. left' \in 0 .. LeaseTTL
  BY DEF Shape, TypeOK
<1>2. CASE left' > 0
  <2>1. \A a, b \in Nat : a \in 0 .. LeaseTTL /\ b = 0 => a + b <= LeaseTTL
    OBVIOUS
  <2>2. left' \in Nat /\ gap' \in Nat
    BY <1>1
  <2>3. left' + gap' <= LeaseTTL
    BY <1>1, <2>1, <2>2, Zenon
  <2>4. QED
    BY <1>2, <2>2, <2>3 DEF GapInv, InTime
<1>3. CASE left' = 0
  <2>1. ASSUME NEW p \in Poller, pc'[p] \in Seeking
        PROVE  Owed(p)' \in Nat /\ Owed(p)' <= Timeout + AcquireInterval + Timeout
    BY <2>1 DEF Shape, TypeOK, ControlInv, WaitInv, Owed, Seeking, Calling
  <2>2. \A p \in Poller : pc'[p] \in Seeking => gap' + Owed(p)' < FailoverBound
    BY <2>1, BoundType DEF FailoverBound
  <2>3. QED
    BY <1>3, <2>2 DEF GapInv, InTime
<1>4. QED
  BY <1>1, <1>2, <1>3

\* A step of one poller that brings its next answer no further away, and leaves
\* the lease and the other pollers alone, keeps to the time.
LEMMA MoveInTime ==
  ASSUME Shape, Shape', InTime, gap \in Nat, UNCHANGED <<gap, left>>, NEW p \in Poller, ~Won(p),
         \A q \in Poller : q # p => UNCHANGED <<pc[q], timer[q], call[q]>>,
         pc'[p] \in Seeking => pc[p] \in Seeking /\ Owed(p)' <= Owed(p)
  PROVE  InTime'
<1>1. CASE \E q \in Poller : Won(q) /\ gap + timer[q] < FailoverBound
  BY <1>1 DEF InTime, Won
<1>2. CASE left > 0 /\ left + gap <= LeaseTTL
  BY <1>2 DEF InTime
<1>3. CASE left = 0 /\ \A q \in Poller : pc[q] \in Seeking => gap + Owed(q) < FailoverBound
  <2>1. ASSUME NEW q \in Poller, pc'[q] \in Seeking PROVE gap' + Owed(q)' < FailoverBound
    <3>1. CASE q = p
      <4>1. Owed(p) \in Nat /\ gap + Owed(p) < FailoverBound
        BY <1>3, <2>1, <3>1, OwedSize
      <4>2. Owed(p)' \in Nat
        BY <2>1, <3>1 DEF Shape, TypeOK, Owed, Seeking
      <4>3. QED
        BY <2>1, <3>1, <4>1, <4>2, BoundType
    <3>2. CASE q # p
      <4>1. Owed(q)' = Owed(q) /\ pc[q] \in Seeking
        BY <2>1, <3>2 DEF Owed
      <4>2. QED
        BY <1>3, <4>1
    <3>3. QED
      BY <3>1, <3>2
  <2>2. QED
    BY <1>3, <2>1 DEF InTime
<1>4. QED
  BY <1>1, <1>2, <1>3 DEF InTime

\* apapi's answer keeps to the time: a grant is heard of before the call is
\* over, a refusal means that the lease still runs, and a release leaves every
\* follower time for an answer.
LEMMA AnswerInTime ==
  ASSUME Shape, Shape', InTime, gap \in Nat, gap' = gap, term' < MaxTerm, ~Led,
         NEW p \in Poller, Handle(p)
  PROVE  InTime'
<1>1. /\ UNCHANGED <<pc, timer>> /\ call[p] = "sent" /\ call' = [call EXCEPT ![p] = call'[p]]
      /\ \A q \in Poller : q # p => call'[q] = call[q]
  BY DEF Handle, Answer, elector, Shape, TypeOK
<1>2. timer[p] \in Nat /\ timer[p] <= Timeout /\ left \in 0 .. LeaseTTL
  BY <1>1 DEF Shape, TypeOK, ControlInv
<1>3. \A q \in Poller : Won(q) => Won(q)' /\ timer'[q] = timer[q]
  BY <1>1 DEF Won
<1>4. CASE \E q \in Poller : Won(q) /\ gap + timer[q] < FailoverBound
  BY <1>3, <1>4 DEF InTime
<1>5. CASE pc[p] = "acquiring" /\ GrantAcquire(p) /\ Answer(p, "ok") /\ ~\E q \in Poller : Won(q) /\ gap + timer[q] < FailoverBound
  <2>1. Won(p)'
    BY <1>1, <1>5 DEF Won, Answer, Shape, TypeOK
  <2>2. CASE left > 0 /\ left + gap <= LeaseTTL
    <3>1. gap + timer[p] < FailoverBound
      BY <1>2, <2>2, BoundType DEF FailoverBound
    <3>2. QED
      BY <1>1, <2>1, <3>1 DEF InTime
  <2>3. CASE \A q \in Poller : pc[q] \in Seeking => gap + Owed(q) < FailoverBound
    <3>1. Owed(p) = timer[p] /\ pc[p] \in Seeking
      BY <1>1, <1>5 DEF Owed, Seeking
    <3>2. QED
      BY <1>1, <2>1, <2>3, <3>1 DEF InTime
  <2>4. QED
    BY <1>5, <2>2, <2>3 DEF InTime
<1>6. CASE pc[p] = "acquiring" /\ RefuseAcquire(p) /\ Answer(p, "conflict") /\ ~\E q \in Poller : Won(q) /\ gap + timer[q] < FailoverBound
  <2>1. left > 0 /\ left' = left
    BY <1>6 DEF RefuseAcquire, lease, grant
  <2>2. QED
    BY <1>6, <2>1 DEF InTime
<1>7. CASE pc[p] = "renewing"
  BY <1>7 DEF Led, Leading, Shape, ControlInv
<1>8. CASE pc[p] = "releasing" /\ DoRelease(p) /\ Answer(p, "ok") /\ ~\E q \in Poller : Won(q) /\ gap + timer[q] < FailoverBound
  <2>1. left' = left \/ left' = 0
    BY <1>8 DEF DoRelease
  <2>2. \A q \in Poller : pc[q] \in Seeking => UNCHANGED <<pc[q], timer[q], call[q]>>
    BY <1>1, <1>8 DEF Seeking
  <2>3. \A q \in Poller : pc[q] \in Seeking => Owed(q)' = Owed(q)
    BY <2>2 DEF Owed
  <2>4. CASE left > 0 /\ left + gap <= LeaseTTL
    <3>1. CASE left' = left
      BY <2>4, <3>1 DEF InTime
    <3>2. CASE left' = 0
      <4>1. gap < LeaseTTL
        BY <1>2, <2>4
      <4>2. \A q \in Poller : pc[q] \in Seeking => gap + Owed(q) < FailoverBound
        BY <4>1, OwedSize, BoundType DEF FailoverBound
      <4>3. QED
        BY <1>1, <2>3, <3>2, <4>2 DEF InTime
    <3>3. QED
      BY <2>1, <3>1, <3>2
  <2>5. CASE left = 0 /\ \A q \in Poller : pc[q] \in Seeking => gap + Owed(q) < FailoverBound
    BY <1>1, <2>1, <2>3, <2>5 DEF InTime
  <2>6. QED
    BY <1>8, <2>4, <2>5 DEF InTime
<1>9. QED
  BY <1>4, <1>5, <1>6, <1>7, <1>8 DEF Handle

\* A step that takes no time keeps to the time, unless the stopwatch starts
\* again with it.
LEMMA ActInTime ==
  ASSUME Shape, Shape', GapInv, term' < MaxTerm, FAct
  PROVE  GapInv'
<1>1. CASE gap' = 0
  BY <1>1, FreshInTime
<1>2. CASE gap' # 0
  <2>1. /\ gap' = gap /\ gap \in Nat /\ ~Led /\ ~Led' /\ Steady /\ InTime
        /\ disruptions' = disruptions /\ late' = late
        /\ \A p \in Poller : Running(p)' = Running(p)
    BY <1>2 DEF FAct, GapInv, Disturbed
  <2>2. Act
    BY DEF FAct
  <2> USE DEF Shape, TypeOK
  <2>a. \A p \in Poller : ~Leading(p) /\ ~Leading(p)'
    BY <2>1 DEF Led
  <2>3. \A p \in Poller : cancelled'[p] => cancelled[p]
    BY <2>1, <2>2 DEF Act, LoopTop, SleepOver, SleepCut, AcquireReturns, RenewReturns, ReleaseReturns,
       CallFails, Shutdown, Crash, Exit, Die, Restart, Handle, HandleLate
  <2>4. Steady'
    BY <2>1, <2>3 DEF Steady
  <2>5. InTime'
    <3>1. ASSUME NEW p \in Poller, LoopTop(p) PROVE InTime'
      <4>1. ~cancelled[p] /\ role[p] = "follower" /\ Send(p, "acquiring")
        BY <2>1, <2>a, <3>1 DEF LoopTop, EnterShutdown, Sleep, Leading, Running, Gone
      <4>2. pc[p] = "top" /\ UNCHANGED left
        BY <3>1 DEF LoopTop, lease, grant
      <4>3. /\ \A q \in Poller : q # p => UNCHANGED <<pc[q], timer[q], call[q]>>
            /\ pc'[p] = "acquiring" /\ call'[p] = "sent" /\ timer'[p] = Timeout
        BY <4>1 DEF Send
      <4>4. ~Won(p) /\ pc[p] \in Seeking /\ Owed(p)' = Owed(p)
        BY <4>2, <4>3 DEF Won, Seeking, Owed
      <4>5. Owed(p)' <= Owed(p)
        BY <4>4, OwedSize
      <4>6. QED
        BY <2>1, <4>2, <4>3, <4>4, <4>5, MoveInTime
    <3>2. ASSUME NEW p \in Poller, SleepOver(p) PROVE InTime'
      <4>1. pc[p] = "acquireSleep" /\ timer[p] = 0 /\ Sleep(p, "top", 0) /\ UNCHANGED left
        BY <2>a, <3>2 DEF SleepOver, Sleeping, Leading, ControlInv, lease, grant
      <4>2. /\ \A q \in Poller : q # p => UNCHANGED <<pc[q], timer[q], call[q]>>
            /\ pc'[p] = "top"
        BY <4>1 DEF Sleep, network
      <4>3. ~Won(p) /\ pc[p] \in Seeking /\ Owed(p)' = Owed(p)
        BY <4>1, <4>2 DEF Won, Seeking, Owed
      <4>4. Owed(p)' <= Owed(p)
        BY <4>3, OwedSize
      <4>5. QED
        BY <2>1, <4>1, <4>2, <4>3, <4>4, MoveInTime
    <3>3. ASSUME NEW p \in Poller, SleepCut(p) PROVE InTime'
      <4>1. pc[p] = "acquireSleep" /\ role[p] = "follower"
        BY <2>a, <3>3 DEF SleepCut, Sleeping, Leading, ControlInv
      <4>2. pc'[p] = "stopped"
        BY <3>3, <4>1 DEF SleepCut, EnterShutdown, Sleep
      <4>3. QED
        BY <2>1, <4>1, <4>2 DEF Running, Gone
    <3>4. ASSUME NEW p \in Poller, AcquireReturns(p) PROVE InTime'
      <4>1. /\ pc[p] = "acquiring" /\ call[p] = "conflict"
            /\ Return(p, "acquireSleep", AcquireInterval) /\ UNCHANGED left
        BY <2>a, <3>4 DEF AcquireReturns, Return, Leading, lease, grant
      <4>2. /\ \A q \in Poller : q # p => UNCHANGED <<pc[q], timer[q], call[q]>>
            /\ pc'[p] = "acquireSleep" /\ timer'[p] = AcquireInterval
        BY <4>1 DEF Return
      <4>3. ~Won(p) /\ pc[p] \in Seeking
        BY <4>1 DEF Won, Seeking
      <4>4. Owed(p)' <= Owed(p)
        BY <4>1, <4>2 DEF Owed
      <4>5. QED
        BY <2>1, <4>1, <4>2, <4>3, <4>4, MoveInTime
    <3>5. ASSUME NEW p \in Poller, RenewReturns(p) PROVE InTime'
      BY <2>a, <3>5 DEF RenewReturns, Leading, ControlInv
    <3>6. ASSUME NEW p \in Poller, ReleaseReturns(p) PROVE InTime'
      BY <2>1, <3>6 DEF ReleaseReturns, Return, Running, Gone
    <3>7. ASSUME NEW p \in Poller, CallFails(p) \/ Shutdown(p) \/ Crash(p) PROVE InTime'
      BY <2>1, <3>7 DEF CallFails, Shutdown, Crash
    <3>8. ASSUME NEW p \in Poller, Exit(p) PROVE InTime'
      <4>1. Return(p, "down", 0) /\ UNCHANGED left
        BY <3>8 DEF Exit, Die, lease, grant
      <4>2. pc[p] \in Gone
        BY <2>1, <4>1 DEF Return, Running, Gone
      <4>3. QED
        BY <2>1, <4>1, <4>2, MoveInTime DEF Return, Won, Seeking, Gone
    <3>9. ASSUME NEW p \in Poller, Restart(p) PROVE InTime'
      BY <2>1, <3>9 DEF Restart, Running, Gone
    <3>10. ASSUME NEW p \in Poller, Handle(p) PROVE InTime'
      BY <2>1, <3>10, AnswerInTime
    <3>11. ASSUME NEW p \in Poller, NEW op \in LeaseOp, HandleLate(p, op) PROVE InTime'
      BY <2>1, <3>11 DEF HandleLate
    <3>12. QED
      BY <2>2, <3>1, <3>2, <3>3, <3>4, <3>5, <3>6, <3>7, <3>8, <3>9, <3>10, <3>11 DEF Act
  <2>6. QED
    BY <2>1, <2>4, <2>5 DEF GapInv
<1>3. QED
  BY <1>1, <1>2

\* So does the passing of time.
LEMMA TickInTime ==
  ASSUME Shape, Shape', GapInv, FTick
  PROVE  GapInv'
<1>1. CASE gap' = 0
  BY <1>1, FreshInTime
<1>2. CASE gap' # 0
  <2>1. /\ gap \in Nat /\ gap' \in Nat /\ gap' <= gap + 1 /\ ~Led /\ Steady /\ InTime
    BY <1>2 DEF FTick, GapInv
  <2>2. /\ UNCHANGED <<pc, role, cancelled, call>> /\ left \in 0 .. LeaseTTL
        /\ left' = IF left > 0 THEN left - 1 ELSE 0
    BY DEF FTick, Tick, network, Shape, TypeOK
  <2>3. \A p \in Poller : pc[p] \in Seeking =>
           pc[p] # "top" /\ timer[p] \in Nat \ {0} /\ timer'[p] = timer[p] - 1
    <3>1. SUFFICES ASSUME NEW p \in Poller, pc[p] \in Seeking
                   PROVE  pc[p] # "top" /\ timer[p] \in Nat \ {0} /\ timer'[p] = timer[p] - 1
      OBVIOUS
    <3>2. Running(p)
      BY <3>1 DEF Running, Seeking, Gone
    <3>3. pc[p] # "top" /\ timer[p] > 0 /\ timer'[p] = timer[p] - 1
      BY <3>2 DEF FTick, Tick, Blocked
    <3>4. timer[p] \in Nat
      BY DEF Shape, TypeOK
    <3>5. QED
      BY <3>3, <3>4
  <2>4. \A p \in Poller : pc[p] \in Seeking => Owed(p)' = Owed(p) - 1
    BY <2>2, <2>3 DEF Owed, Seeking
  <2>5. ~Led' /\ Steady'
    BY <2>1, <2>2 DEF Led, Leading, Steady, Running
  <2>6. CASE \E p \in Poller : Won(p) /\ gap + timer[p] < FailoverBound
    <3>1. PICK p \in Poller : Won(p) /\ gap + timer[p] < FailoverBound
      BY <2>6
    <3>2. Won(p)' /\ gap' + timer'[p] < FailoverBound
      BY <2>1, <2>2, <2>3, <3>1, BoundType DEF Won, Seeking
    <3>3. QED
      BY <2>1, <2>5, <3>2 DEF GapInv, InTime
  <2>7. CASE left > 0 /\ left + gap <= LeaseTTL
    <3>1. CASE left' > 0
      <4>1. \A k, m \in Nat : k = left - 1 /\ m <= gap + 1 => k + m <= LeaseTTL
        BY <2>1, <2>2, <2>7
      <4>2. left' \in Nat /\ left' = left - 1
        BY <2>2, <2>7
      <4>3. left' + gap' <= LeaseTTL
        BY <2>1, <4>1, <4>2, Zenon
      <4>4. QED
        BY <2>1, <2>5, <3>1, <4>3 DEF GapInv, InTime
    <3>2. CASE left' = 0
      <4>1. gap' <= LeaseTTL
        BY <2>1, <2>2, <2>7, <3>2
      <4>2. ASSUME NEW p \in Poller, pc'[p] \in Seeking PROVE gap' + Owed(p)' < FailoverBound
        <5>1. /\ Owed(p) \in Nat /\ Owed(p) <= Timeout + AcquireInterval + Timeout
              /\ Owed(p)' = Owed(p) - 1
          BY <2>2, <2>4, <4>2, OwedSize
        <5>2. QED
          BY <2>1, <4>1, <5>1, BoundType DEF FailoverBound
      <4>3. QED
        BY <2>1, <2>5, <3>2, <4>2 DEF GapInv, InTime
    <3>3. QED
      BY <2>2, <3>1, <3>2
  <2>8. CASE left = 0 /\ \A p \in Poller : pc[p] \in Seeking => gap + Owed(p) < FailoverBound
    <3>1. ASSUME NEW p \in Poller, pc'[p] \in Seeking PROVE gap' + Owed(p)' < FailoverBound
      <4>1. Owed(p) \in Nat /\ Owed(p)' = Owed(p) - 1 /\ gap + Owed(p) < FailoverBound
        BY <2>2, <2>4, <2>8, <3>1, OwedSize
      <4>2. QED
        BY <2>1, <4>1, BoundType
    <3>2. QED
      BY <2>1, <2>2, <2>5, <2>8, <3>1 DEF GapInv, InTime
  <2>9. QED
    BY <2>1, <2>6, <2>7, <2>8 DEF InTime
<1>3. QED
  BY <1>1, <1>2

\* While nobody leads, the stopwatch is within the bound.
LEMMA GapIsShort == ASSUME Shape, GapInv PROVE FailoverInTime
<1>1. gap \in Nat
  BY DEF GapInv
<1>2. CASE gap = 0
  BY <1>2, BoundType DEF FailoverInTime, FailoverBound
<1>3. CASE gap # 0
  <2>1. PICK p \in Poller : Running(p) /\ ~cancelled[p] /\ ~Leading(p)
    BY <1>3 DEF GapInv, Steady, Led
  <2>2. pc[p] \in Seeking
    BY <2>1 DEF Running, Gone, Leading, Seeking, Shape, TypeOK, ControlInv, WaitInv, Where, Sleeping, Calling
  <2>3. CASE \E q \in Poller : Won(q) /\ gap + timer[q] < FailoverBound
    BY <1>1, <2>3, BoundType DEF FailoverInTime, Shape, TypeOK
  <2>4. CASE left > 0 /\ left + gap <= LeaseTTL
    BY <1>1, <2>4, BoundType DEF FailoverInTime, FailoverBound, Shape, TypeOK
  <2>5. CASE \A q \in Poller : pc[q] \in Seeking => gap + Owed(q) < FailoverBound
    BY <1>1, <2>2, <2>5, OwedSize, BoundType DEF FailoverInTime
  <2>6. QED
    BY <2>3, <2>4, <2>5 DEF GapInv, InTime
<1>4. QED
  BY <1>2, <1>3

\* The term never goes back.
LEMMA TermGrows == ASSUME TypeOK, [Next]_vars PROVE term <= term'
<1> USE DEF TypeOK
<1>1. ASSUME NEW p \in Poller, GrantAcquire(p) \/ RefuseAcquire(p) \/ GrantRenew(p) \/ RefuseRenew(p)
                               \/ DoRelease(p)
      PROVE  term <= term'
  BY <1>1 DEF GrantAcquire, RefuseAcquire, GrantRenew, Granting, RefuseRenew, DoRelease, lease, grant
<1>2. CASE term' = term
  BY <1>2
<1>3. QED
  BY <1>1, <1>2 DEF Next, Act, vars, Tick, LoopTop, SleepOver, SleepCut, AcquireReturns, RenewReturns,
     ReleaseReturns, CallFails, Shutdown, Crash, Exit, Die, Restart, Handle, HandleLate, lease, grant

\* Until the terms the model grants are used up, no failure leaves a location
\* with a running poller without a leader for FailoverBound, whatever the TTL,
\* the intervals, the timeout and the number of pollers: the sleeps of Run and
\* the client's timeout add up to no more, and a disruption only starts the
\* stopwatch again.
THEOREM FailoverBounded == FSpec => [](term < MaxTerm => FailoverInTime)
<1> DEFINE I == Shape /\ (term < MaxTerm => GapInv)
<1>1. FInit => I
  <2> SUFFICES ASSUME FInit PROVE Shape /\ GapInv
    OBVIOUS
  <2>1. Shape
    BY DEF FInit, Init, Shape, TypeOK, ControlInv, WaitInv, Where, Sleeping, Calling,
           Gone, LeaseOp, AgeCap
  <2>2. ~Led
    BY DEF FInit, Init, Led, Leading
  <2>3. \A p \in Poller : Owed(p) = Timeout
    BY DEF FInit, Init, Owed
  <2>4. InTime
    BY <2>3, BoundType DEF FInit, Init, InTime, FailoverBound
  <2>5. QED
    BY <2>1, <2>2, <2>4 DEF FInit, GapInv
<1>2. I /\ [FNext]_fvars => I'
  <2> SUFFICES ASSUME I, [FNext]_fvars PROVE I'
    OBVIOUS
  <2>1. [Next]_vars
    BY DEF FNext, FTick, FAct, Next, fvars, vars
  <2>2. Shape'
    BY <2>1, TypeStep, ControlStep, WaitStep DEF Shape
  <2>3. ASSUME term' < MaxTerm PROVE GapInv'
    <3>1. term < MaxTerm
      BY <2>1, <2>2, <2>3, TermGrows DEF Shape, TypeOK
    <3>2. GapInv
      BY <3>1
    <3>3. CASE FTick
      BY <2>2, <3>2, <3>3, TickInTime
    <3>4. CASE FAct
      BY <2>2, <2>3, <3>2, <3>4, ActInTime
    <3>5. CASE UNCHANGED fvars
      BY <3>2, <3>5 DEF fvars, vars, GapInv, InTime, Led, Leading, Steady, Running, Won, Owed, Seeking
    <3>6. QED
      BY <3>3, <3>4, <3>5 DEF FNext
  <2>4. QED
    BY <2>2, <2>3
<1>3. I => (term < MaxTerm => FailoverInTime)
  BY GapIsShort
<1>4. QED
  BY <1>1, <1>2, <1>3, PTL DEF FSpec
=============================================================================
