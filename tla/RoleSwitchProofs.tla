-------------------------- MODULE RoleSwitchProofs --------------------------
(***************************************************************************)
(* Proofs about RoleSwitch, for every channel capacity and however long    *)
(* the role flaps.                                                         *)
(***************************************************************************)
EXTENDS RoleSwitch, SequenceTheorems, FiniteSetTheorems, TLAPS

USE RoleSwitchAssumption

Role == {"follower", "leader"}

\* The types the argument needs.
Types ==
    /\ role \in Role
    /\ ch \in Seq(Role)
    /\ seen \in Role \cup {"none"}
    /\ pc \in [Stopper -> {"receive", "start", "take", "wait", "flush", "serving",
                           "cancel", "close", "drain", "exited"}]
    /\ gens \in Nat

\* Taking the head of a queue leaves its last element, if any is left.
LEMMA LastOfTail ==
  ASSUME NEW S, NEW s \in Seq(S), s # << >>
  PROVE  /\ Head(s) \in S /\ Tail(s) \in Seq(S)
         /\ Tail(s) = << >> => s[Len(s)] = Head(s)
         /\ Tail(s) # << >> => Tail(s)[Len(Tail(s))] = s[Len(s)]
<1>1. Head(s) \in S /\ Tail(s) \in Seq(S) /\ Len(Tail(s)) = Len(s) - 1
  BY HeadTailProperties
<1>2. Len(s) \in Nat \ {0} /\ Len(Tail(s)) \in Nat
  BY <1>1
<1>3. Tail(s) = << >> => Len(Tail(s)) = 0
  BY <1>1, EmptySeq, Zenon
<1>4. Tail(s) # << >> => Len(Tail(s)) # 0
  BY <1>1, EmptySeq, Zenon
<1>5. CASE Tail(s) = << >>
  <2>1. Len(s) = 1
    BY <1>1, <1>2, <1>3, <1>5
  <2> QED  BY <1>1, <1>5, <2>1
<1>6. CASE Tail(s) # << >>
  <2>1. Len(Tail(s)) \in 1 .. Len(Tail(s)) /\ Len(Tail(s)) + 1 = Len(s)
    BY <1>1, <1>2, <1>4, <1>6
  <2>2. Tail(s)[Len(Tail(s))] = s[Len(Tail(s)) + 1]
    BY <2>1, HeadTailProperties
  <2> QED  BY <1>1, <1>6, <2>1, <2>2
<1> QED  BY <1>5, <1>6

\* The last role published: the end of the channel, or what the consumer took.
Latest == IF ch = << >> THEN seen ELSE ch[Len(ch)]

\* Nothing dropped means nothing lost: the last role published is the role.
ChannelInv ==
    /\ elector = "start" => role = "follower" /\ ch = << >>
    /\ elector # "start" /\ ~dropped => role = Latest

\* While main serves, only the consumer touches work: what it does for the
\* state it took last decides whether there is work.
ConsumerInv ==
    pc["main"] = "serving" =>
        /\ pc["consumer"] = "receive" => (work # NoWork <=> seen = "leader")
        /\ pc["consumer"] = "start" => seen = "leader"
        /\ pc["consumer"] = "take" => seen = "follower"
        /\ pc["consumer"] \in {"wait", "flush"} => seen = "follower" /\ work = NoWork

\* The main thread never comes back to serving, the consumer never gets there.
PlaceInv ==
    /\ pc["consumer"] \in {"receive", "start", "take", "wait", "flush"}
    /\ pc["main"] \notin {"receive", "start"}

Inv == Types /\ PlaceInv /\ ChannelInv /\ ConsumerInv

LEMMA InitInv == Init => Inv
  BY DEF Init, Inv, Types, PlaceInv, ChannelInv, ConsumerInv, Role, Stopper, NoWork

\* Every step keeps the invariant.
LEMMA StepInv == Inv /\ [Next]_vars => Inv'
<1> SUFFICES ASSUME Inv, [Next]_vars PROVE Inv'
  OBVIOUS
<1> USE DEF Inv, Types, PlaceInv, ChannelInv, ConsumerInv, Latest, Role, Stopper,
            NoWork, election, lifecycle, goroutines, Goto, After
<1>1. CASE ElectorStart
  BY <1>1 DEF ElectorStart
<1>2. CASE ElectorLoop
  BY <1>2 DEF ElectorLoop
<1>3. CASE ElectorCut
  BY <1>3 DEF ElectorCut
<1>4. CASE ElectorReturn
  BY <1>4, SMTT(30) DEF ElectorReturn, SetState
<1>5. CASE Receive
  <2>1. ch # << >> /\ ch \in Seq(Role)
    BY <1>5 DEF Receive
  <2>2. Head(ch) \in Role /\ Tail(ch) \in Seq(Role)
    BY <2>1, LastOfTail, Zenon
  <2>3. Tail(ch) = << >> => ch[Len(ch)] = Head(ch)
    BY <2>1, LastOfTail, Zenon
  <2>4. Tail(ch) # << >> => Tail(ch)[Len(Tail(ch))] = ch[Len(ch)]
    BY <2>1, LastOfTail, Zenon
  <2> QED  BY <1>5, <2>2, <2>3, <2>4 DEF Receive
<1>6. CASE StartWork
  BY <1>6 DEF StartWork
<1>7. ASSUME NEW s \in Stopper, Take(s) PROVE Inv'
  BY <1>7 DEF Take
<1>8. ASSUME NEW s \in Stopper, Wait(s) PROVE Inv'
  BY <1>8 DEF Wait
<1>9. ASSUME NEW s \in Stopper, CloseTransport(s) PROVE Inv'
  BY <1>9 DEF CloseTransport
<1>10. CASE Signal \/ CancelRoot \/ CloseChecks \/ ExitMain
  BY <1>10 DEF Signal, CancelRoot, CloseChecks, ExitMain
<1>11. ASSUME NEW g \in Gen, NEW k \in Thread,
              \/ Runs(Begin(g, k)) \/ Runs(Quit(g, k)) \/ Runs(Tick(g, k))
              \/ Runs(Finish(g, k)) \/ Runs(SendDue(g, k))
       PROVE Inv'
  BY <1>11 DEF Runs
<1>12. CASE UNCHANGED vars
  BY <1>12 DEF vars
<1> QED
  BY <1>1, <1>2, <1>3, <1>4, <1>5, <1>6, <1>7, <1>8, <1>9, <1>10, <1>11, <1>12
     DEF Next, Stutter

\* Whatever the interleaving of the elector, the consumer, main and the
\* goroutines, a consumer that caught up has work running exactly when the
\* elector leads, unless a transition was dropped.
THEOREM WorkFollows == Spec => []WorkFollowsRole
<1>1. Inv => WorkFollowsRole
  BY DEF Inv, Types, ChannelInv, ConsumerInv, Latest, WorkFollowsRole, Role
<1> QED  BY <1>1, InitInv, StepInv, PTL DEF Spec

-----------------------------------------------------------------------------
(* The generations of work. *)

Places == {"none", "new", "fetch", "select", "send", "submit", "exited"}

GoTypes ==
    /\ mine \in [Stopper -> Nat] /\ work \in Nat
    /\ thread \in [Gen -> [Thread -> Places]]
    /\ group \in [Gen -> [Thread -> Nat]]
    /\ wg \in [Gen -> Nat]
    /\ checkChan = "closed" => pc["main"] \in {"drain", "exited"}

\* A generation is main's work, or one stopper's, or closed; never two of it.
Unique ==
    /\ closed \subseteq 1 .. gens
    /\ work \in 0 .. gens \ closed
    /\ \A s \in Stopper :
          /\ mine[s] \in 0 .. gens \ closed
          /\ mine[s] # NoWork <=> pc[s] \in {"wait", "flush"}
          /\ mine[s] # NoWork => mine[s] # work
    /\ mine["consumer"] = mine["main"] => mine["main"] = NoWork

\* A goroutine that has not run its first statement is in no WaitGroup.
Fresh ==
    \A g \in Gen, k \in Thread :
        /\ thread[g][k] \in {"none", "new"} => group[g][k] = NoWork
        /\ g > gens => thread[g][k] = "none"

Active(g, k) == IF thread[g][k] \in {"none", "exited"} THEN 0 ELSE 1

\* The WaitGroups count their own goroutines: so a generation whose counter is
\* zero has none, and one that has some belongs to somebody.
Counted ==
    \A g \in Gen :
        /\ wg[g] = Active(g, "dispatcher") + Active(g, "flusher")
        /\ Live(g) => g = work \/ \E s \in Stopper : g = mine[s] /\ pc[s] = "wait"
        /\ \A k \in Thread : thread[g][k] \notin {"none", "new"} => group[g][k] = g

GenInv ==
    /\ Inv /\ GoTypes /\ Unique /\ Fresh
    /\ pc["main"] = "serving" => ~Crossed
    /\ ~Crossed => Counted

LEMMA InitGen == Init => GenInv
<1> SUFFICES ASSUME Init PROVE GenInv
  OBVIOUS
<1>1. Inv
  BY InitInv
<1>2. GoTypes /\ Unique /\ Fresh
  BY DEF Init, GoTypes, Unique, Fresh, Places, Stopper, NoWork, Gen
<1>3. ~Crossed /\ Counted
  BY DEF Init, Crossed, Counted, Active, Live, Thread, NoWork
<1> QED  BY <1>1, <1>2, <1>3 DEF GenInv

\* What the updates of the goroutines' places and groups do.
LEMMA Moved ==
  ASSUME GoTypes, NEW g \in Gen, NEW k \in Thread, NEW w \in Places, Move(g, k, w)
  PROVE  /\ thread' \in [Gen -> [Thread -> Places]]
         /\ \A h \in Gen, j \in Thread :
               thread'[h][j] = IF h = g /\ j = k THEN w ELSE thread[h][j]
  BY DEF GoTypes, Move

Joins(g, k) == group' = [group EXCEPT ![g][k] = work]

LEMMA Joined ==
  ASSUME GoTypes, NEW g \in Gen, NEW k \in Thread, Joins(g, k)
  PROVE  /\ group' \in [Gen -> [Thread -> Nat]]
         /\ \A h \in Gen, j \in Thread :
               group'[h][j] = IF h = g /\ j = k THEN work ELSE group[h][j]
  BY DEF GoTypes, Joins

LEMMA Started ==
  ASSUME GoTypes, StartWork, work = NoWork, gens \in Nat
  PROVE  /\ thread' \in [Gen -> [Thread -> Places]] /\ wg' \in [Gen -> Nat]
         /\ \A h \in Gen, j \in Thread :
               thread'[h][j] = IF h = gens + 1 THEN "new" ELSE thread[h][j]
         /\ \A h \in Gen : wg'[h] = IF h = gens + 1 THEN 2 ELSE wg[h]
<1>1. [j \in Thread |-> "new"] \in [Thread -> Places]
  BY DEF Places
<1>2. /\ thread' = [thread EXCEPT ![gens + 1] = [j \in Thread |-> "new"]]
      /\ wg' = [wg EXCEPT ![gens + 1] = 2]
  BY DEF StartWork
<1>3. thread' \in [Gen -> [Thread -> Places]] /\ wg' \in [Gen -> Nat]
  BY <1>1, <1>2 DEF GoTypes
<1>4. \A h \in Gen : thread'[h] = IF h = gens + 1 THEN [j \in Thread |-> "new"] ELSE thread[h]
  BY <1>2 DEF GoTypes
<1>5. \A h \in Gen, j \in Thread :
         thread'[h][j] = IF h = gens + 1 THEN "new" ELSE thread[h][j]
  BY <1>4
<1>6. \A h \in Gen : wg'[h] = IF h = gens + 1 THEN 2 ELSE wg[h]
  BY <1>2 DEF GoTypes
<1> QED  BY <1>3, <1>5, <1>6

\* What a goroutine of a generation does to its place, its group and the
\* counters: it begins, moves on, panics or leaves.
Begins(g, k) ==
    /\ thread[g][k] = "new" /\ work # NoWork
    /\ \E w \in Places \ {"none", "new", "exited"} : Move(g, k, w)
    /\ Joins(g, k) /\ UNCHANGED wg

MovesOn(g, k) ==
    /\ thread[g][k] \notin {"none", "new", "exited"}
    /\ \E w \in Places \ {"none", "new", "exited"} : Move(g, k, w)
    /\ UNCHANGED <<group, wg>>

Leaves(g, k) == thread[g][k] \notin {"none", "new", "exited"} /\ Leave(g, k)

Panics == UNCHANGED <<thread, group, wg>>

LEMMA GoSteps ==
  ASSUME NEW g \in Gen, NEW k \in Thread,
         \/ Runs(Begin(g, k)) \/ Runs(Quit(g, k)) \/ Runs(Tick(g, k))
         \/ Runs(Finish(g, k)) \/ Runs(SendDue(g, k))
  PROVE  /\ Begins(g, k) \/ MovesOn(g, k) \/ Leaves(g, k) \/ Panics
         /\ UNCHANGED <<election, seen, pc, mine, lifecycle>>
<1> USE DEF Runs, At, Places
<1>1. CASE Runs(Begin(g, k))
  BY <1>1 DEF Begin, Begins, Joins, Panics
<1>2. CASE Runs(Quit(g, k))
  BY <1>2 DEF Quit, Leaves
<1>3. CASE Runs(Tick(g, k))
  BY <1>3 DEF Tick, MovesOn
<1>4. CASE Runs(Finish(g, k))
  BY <1>4 DEF Finish, MovesOn
<1>5. CASE Runs(SendDue(g, k))
  BY <1>5 DEF SendDue, MovesOn, Leaves, Panics
<1> QED  BY <1>1, <1>2, <1>3, <1>4, <1>5

LEMMA UniqueStep == GenInv /\ [Next]_vars => GoTypes' /\ Unique'
<1> SUFFICES ASSUME GenInv, [Next]_vars PROVE GoTypes' /\ Unique'
  OBVIOUS
<1> USE DEF GenInv, Inv, Types, PlaceInv, ConsumerInv, GoTypes, Unique, Stopper, NoWork,
            election, lifecycle, goroutines, Goto, After
<1>1. CASE ElectorStart \/ ElectorLoop \/ ElectorCut \/ ElectorReturn
  BY <1>1 DEF ElectorStart, ElectorLoop, ElectorCut, ElectorReturn
<1>2. CASE Receive
  BY <1>2 DEF Receive
<1>3. CASE StartWork
  <2>1. CASE work = 0
    <3>1. thread' \in [Gen -> [Thread -> Places]] /\ wg' \in [Gen -> Nat]
      BY <1>3, <2>1, Started
    <3>2. /\ work' = gens + 1 /\ gens' = gens + 1 /\ pc["consumer"] = "start"
          /\ pc' = [pc EXCEPT !["consumer"] = "receive"]
          /\ UNCHANGED <<mine, closed, group, checkChan>>
      BY <1>3, <2>1 DEF StartWork
    <3> QED  BY <3>1, <3>2
  <2>2. CASE work # 0
    BY <1>3, <2>2 DEF StartWork
  <2> QED  BY <2>1, <2>2
<1>4. ASSUME NEW s \in Stopper, Take(s) PROVE GoTypes' /\ Unique'
  BY <1>4 DEF Take
<1>5. ASSUME NEW s \in Stopper, Wait(s) PROVE GoTypes' /\ Unique'
  BY <1>5 DEF Wait
<1>6. ASSUME NEW s \in Stopper, CloseTransport(s) PROVE GoTypes' /\ Unique'
  <2>1. /\ pc[s] = "flush" /\ closed' = closed \cup {mine[s]}
        /\ mine' = [mine EXCEPT ![s] = NoWork]
        /\ pc' = [pc EXCEPT ![s] = IF s = "main" THEN "cancel" ELSE "receive"]
        /\ UNCHANGED <<thread, group, wg, work, gens, checkChan>>
    BY <1>6 DEF CloseTransport
  <2>a. mine' \in [Stopper -> Nat] /\ mine[s] # NoWork /\ mine[s] \in 1 .. gens
    BY <2>1
  <2>2. CASE s = "main"
    <3>1. /\ pc'["main"] = "cancel" /\ pc'["consumer"] = pc["consumer"]
          /\ mine'["main"] = 0 /\ mine'["consumer"] = mine["consumer"]
      BY <2>1, <2>2
    <3>2. mine["consumer"] # mine["main"] /\ work # mine["main"]
      BY <2>1, <2>2, <2>a
    <3>3. GoTypes'
      BY <2>1, <2>2, <2>a, <3>1
    <3>4. closed' = closed \cup {mine["main"]} /\ closed' \subseteq 1 .. gens
      BY <2>1, <2>2, <2>a
    <3> QED  BY <2>1, <3>1, <3>2, <3>3, <3>4
  <2>3. CASE s = "consumer"
    <3>1. /\ pc'["consumer"] = "receive" /\ pc'["main"] = pc["main"]
          /\ mine'["consumer"] = 0 /\ mine'["main"] = mine["main"]
      BY <2>1, <2>3
    <3>2. mine["consumer"] # mine["main"] /\ work # mine["consumer"]
      BY <2>1, <2>3, <2>a
    <3>3. GoTypes'
      BY <2>1, <2>3, <2>a, <3>1
    <3>4. closed' = closed \cup {mine["consumer"]} /\ closed' \subseteq 1 .. gens
      BY <2>1, <2>3, <2>a
    <3> QED  BY <2>1, <3>1, <3>2, <3>3, <3>4
  <2> QED  BY <2>2, <2>3
<1>7. CASE Signal \/ CancelRoot \/ CloseChecks \/ ExitMain
  BY <1>7 DEF Signal, CancelRoot, CloseChecks, ExitMain
<1>8. ASSUME NEW g \in Gen, NEW k \in Thread,
             Begins(g, k) \/ MovesOn(g, k) \/ Leaves(g, k) \/ Panics,
             UNCHANGED <<election, seen, pc, mine, lifecycle>>
      PROVE  GoTypes' /\ Unique'
  <2>1. thread' \in [Gen -> [Thread -> Places]]
    <3>1. CASE Leaves(g, k)
      <4>1. Move(g, k, "exited") /\ "exited" \in Places
        BY <3>1 DEF Leaves, Leave, Places
      <4> QED  BY <4>1, Moved
    <3>2. CASE Begins(g, k) \/ MovesOn(g, k)
      BY <3>2, Moved DEF Begins, MovesOn
    <3> QED  BY <1>8, <3>1, <3>2 DEF Panics
  <2>2. group' \in [Gen -> [Thread -> Nat]]
    BY <1>8, Joined DEF Begins, MovesOn, Leaves, Leave, Panics
  <2>3. wg' \in [Gen -> Nat]
    <3>1. CASE Leaves(g, k)
      <4> DEFINE x == group[g][k]
      <4>1. \/ wg' = wg
            \/ wg[x] # 0 /\ wg' = [wg EXCEPT ![x] = wg[x] - 1]
        BY <3>1 DEF Leaves, Leave
      <4> HIDE DEF x
      <4>2. CASE x \in Gen
        <5>1. wg \in [Gen -> Nat] /\ wg[x] \in Nat
          BY <4>2
        <5>2. wg[x] # 0 => wg[x] - 1 \in Nat
          BY <5>1
        <5> QED  BY <4>1, <4>2, <5>1, <5>2
      <4>3. CASE x \notin Gen
        BY <4>1, <4>3
      <4> QED  BY <4>2, <4>3
    <3> QED  BY <1>8, <3>1 DEF Begins, MovesOn, Panics
  <2> QED  BY <1>8, <2>1, <2>2, <2>3
<1>13. CASE UNCHANGED vars
  BY <1>13 DEF vars
<1> QED
  BY <1>1, <1>2, <1>3, <1>4, <1>5, <1>6, <1>7, <1>8, <1>13, GoSteps
     DEF Next, Stutter

LEMMA FreshStep == GenInv /\ [Next]_vars => Fresh' /\ (~Crossed' => ~Crossed)
<1> SUFFICES ASSUME GenInv, [Next]_vars PROVE Fresh' /\ (~Crossed' => ~Crossed)
  OBVIOUS
<1> USE DEF GenInv, Inv, Types, Fresh, Crossed, NoWork, election, lifecycle, goroutines
<1>1. CASE ElectorStart \/ ElectorLoop \/ ElectorCut \/ ElectorReturn \/ Receive
           \/ Signal \/ CancelRoot \/ CloseChecks \/ ExitMain \/ UNCHANGED vars
  BY <1>1 DEF ElectorStart, ElectorLoop, ElectorCut, ElectorReturn, Receive, Signal,
              CancelRoot, CloseChecks, ExitMain, vars
<1>2. CASE StartWork
  <2>1. CASE work = 0
    <3>1. /\ gens' = gens + 1 /\ UNCHANGED group
          /\ \A h \in Gen, j \in Thread :
               thread'[h][j] = IF h = gens + 1 THEN "new" ELSE thread[h][j]
      BY <1>2, <2>1, Started DEF StartWork
    <3>2. Gen \subseteq Nat
      BY DEF Gen
    <3> QED  BY <3>1, <3>2
  <2>2. CASE work # 0
    BY <1>2, <2>2 DEF StartWork
  <2> QED  BY <2>1, <2>2
<1>3. ASSUME NEW s \in Stopper, Take(s) \/ Wait(s) \/ CloseTransport(s)
      PROVE  Fresh' /\ (~Crossed' => ~Crossed)
  BY <1>3 DEF Take, Wait, CloseTransport
<1>4. ASSUME NEW g \in Gen, NEW k \in Thread,
             Begins(g, k) \/ MovesOn(g, k) \/ Leaves(g, k) \/ Panics,
             UNCHANGED <<election, seen, pc, mine, lifecycle>>
      PROVE  Fresh' /\ (~Crossed' => ~Crossed)
  <2>1. CASE Begins(g, k)
    <3>1. gens' = gens /\ thread[g][k] = "new" /\ Joins(g, k)
      BY <1>4, <2>1 DEF Begins
    <3>3. \A h \in Gen, j \in Thread :
             group'[h][j] = IF h = g /\ j = k THEN work ELSE group[h][j]
      BY <3>1, Joined
    <3>2. PICK w \in Places \ {"none", "new", "exited"} :
             \A h \in Gen, j \in Thread :
                thread'[h][j] = IF h = g /\ j = k THEN w ELSE thread[h][j]
      BY <2>1, Moved DEF Begins
    <3> QED  BY <3>1, <3>2, <3>3
  <2>2. CASE MovesOn(g, k)
    BY <1>4, <2>2, Moved DEF MovesOn
  <2>3. CASE Leaves(g, k)
    <3>1. /\ gens' = gens /\ group' = group /\ thread[g][k] \notin {"none", "new"}
          /\ Move(g, k, "exited") /\ "exited" \in Places
      BY <1>4, <2>3 DEF Leaves, Leave, Places
    <3>2. \A h \in Gen, j \in Thread :
             thread'[h][j] = IF h = g /\ j = k THEN "exited" ELSE thread[h][j]
      BY <3>1, Moved
    <3> QED  BY <3>1, <3>2
  <2>4. CASE Panics
    BY <1>4, <2>4 DEF Panics
  <2> QED  BY <1>4, <2>1, <2>2, <2>3, <2>4
<1> QED
  BY <1>1, <1>2, <1>3, <1>4, GoSteps DEF Next, Stutter

LEMMA CountedStep ==
  GenInv /\ [Next]_vars =>
    (pc["main"] = "serving" => ~Crossed)' /\ (~Crossed => Counted)'
<1> DEFINE Goal == (pc["main"] = "serving" => ~Crossed)' /\ (~Crossed' => Counted')
<1> SUFFICES ASSUME GenInv, [Next]_vars PROVE Goal
  OBVIOUS
<1>a. ~Crossed' => ~Crossed /\ Counted
  BY FreshStep DEF GenInv
<1>b. 0 \notin Gen /\ Gen \subseteq Nat /\ Thread = {"dispatcher", "flusher"}
  BY DEF Gen, Thread
<1>c. UNCHANGED <<thread, group, wg>> => Crossed' = Crossed
  BY DEF Crossed
<1> USE DEF Counted, Live, Active, NoWork, Stopper, election, lifecycle, goroutines
<1>1. CASE ElectorStart \/ ElectorLoop \/ ElectorCut \/ ElectorReturn \/ UNCHANGED vars
  <2>1. UNCHANGED <<pc, mine, work, thread, group, wg>>
    BY <1>1 DEF ElectorStart, ElectorLoop, ElectorCut, ElectorReturn, vars
  <2> QED  BY <2>1, <1>a, <1>c DEF GenInv
<1>2. CASE Receive \/ Signal \/ CancelRoot \/ CloseChecks \/ ExitMain
  <2>1. /\ UNCHANGED <<mine, work, thread, group, wg>>
        /\ \A s \in Stopper : pc[s] = "wait" => pc'[s] = "wait"
        /\ pc'["main"] = "serving" => pc["main"] = "serving"
    BY <1>2 DEF Receive, Signal, CancelRoot, CloseChecks, ExitMain, Goto, GenInv, Inv, Types
  <2> QED  BY <2>1, <1>a, <1>c DEF GenInv
<1>3. CASE StartWork
  <2>1. /\ UNCHANGED <<mine, group>>
        /\ \A s \in Stopper : pc[s] = "wait" => pc'[s] = "wait"
        /\ pc'["main"] = pc["main"]
    BY <1>3 DEF StartWork, Goto, GenInv, Inv, Types
  <2>2. Crossed' = Crossed
    BY <2>1 DEF Crossed
  <2>3. CASE work # 0
    <3>1. UNCHANGED <<thread, wg, work>>
      BY <1>3, <2>3 DEF StartWork
    <3> QED  BY <2>1, <2>2, <3>1, <1>a DEF GenInv
  <2>4. CASE work = 0
    <3>1. work' = gens + 1 /\ gens \in Nat
      BY <1>3, <2>4 DEF StartWork, GenInv, Inv, Types
    <3>2. \A h \in Gen, j \in Thread :
             thread'[h][j] = IF h = gens + 1 THEN "new" ELSE thread[h][j]
      BY <1>3, <2>4, <3>1, Started DEF GenInv
    <3>3. \A h \in Gen : wg'[h] = IF h = gens + 1 THEN 2 ELSE wg[h]
      BY <1>3, <2>4, <3>1, Started DEF GenInv
    <3>4. ~Crossed => Counted'
      BY <1>a, <1>b, <2>1, <2>2, <2>4, <3>1, <3>2, <3>3
    <3> QED  BY <2>1, <2>2, <3>4 DEF GenInv
  <2> QED  BY <2>3, <2>4
<1>4. ASSUME NEW s \in Stopper, Take(s) PROVE Goal
  <2>1. /\ UNCHANGED <<thread, group, wg>> /\ mine'[s] = work /\ work' = 0
        /\ work # 0 => pc'[s] = "wait"
        /\ \A r \in Stopper : r # s => pc'[r] = pc[r] /\ mine'[r] = mine[r]
        /\ pc[s] # "wait" /\ pc'["main"] = "serving" => pc["main"] = "serving"
    BY <1>4 DEF Take, Goto, GenInv, Inv, Types, GoTypes, After
  <2>2. pc[s] # "wait"
    BY <1>4 DEF Take
  <2> QED  BY <1>a, <1>b, <1>c, <2>1, <2>2 DEF GenInv
<1>5. ASSUME NEW s \in Stopper, Wait(s) PROVE Goal
  <2>1. /\ UNCHANGED <<thread, group, wg, mine, work>> /\ wg[mine[s]] = 0
        /\ \A r \in Stopper : r # s => pc'[r] = pc[r]
        /\ pc'["main"] = "serving" => pc["main"] = "serving"
    BY <1>5 DEF Wait, Goto, GenInv, Inv, Types
  <2>2. Counted => \A g \in Gen : g = mine[s] => ~Live(g)
    BY <1>b, <2>1
  <2>3. Counted => Counted'
    BY <2>1, <2>2
  <2> QED  BY <1>a, <1>c, <2>1, <2>3 DEF GenInv
<1>6. ASSUME NEW s \in Stopper, CloseTransport(s) PROVE Goal
  <2>1. /\ UNCHANGED <<thread, group, wg, work>> /\ pc[s] = "flush"
        /\ \A r \in Stopper : r # s => pc'[r] = pc[r] /\ mine'[r] = mine[r]
        /\ pc'["main"] = "serving" => pc["main"] = "serving"
    BY <1>6 DEF CloseTransport, Goto, GenInv, Inv, Types, GoTypes, After
  <2> QED  BY <1>a, <1>c, <2>1 DEF GenInv
<1>7. ASSUME NEW g \in Gen, NEW k \in Thread, UNCHANGED <<pc, mine, work>>, Begins(g, k)
      PROVE  Goal
  <2>1. PICK w \in Places \ {"none", "new", "exited"} :
           \A h \in Gen, j \in Thread :
              thread'[h][j] = IF h = g /\ j = k THEN w ELSE thread[h][j]
    BY <1>7, Moved DEF Begins, GenInv
  <2>2. \A h \in Gen, j \in Thread :
           group'[h][j] = IF h = g /\ j = k THEN work ELSE group[h][j]
    BY <1>7, Joined DEF Begins, GenInv
  <2>3. thread[g][k] = "new" /\ work # 0 /\ wg' = wg
    BY <1>7 DEF Begins
  <2>4. pc["main"] = "serving" => ~Crossed'
    <3> SUFFICES ASSUME pc["main"] = "serving" PROVE ~Crossed'
      OBVIOUS
    <3>1. ~Crossed /\ Counted
      BY DEF GenInv
    <3>2. Live(g)
      BY <2>3
    <3>3. pc["consumer"] # "wait"
      BY <2>3 DEF GenInv, Inv, ConsumerInv
    <3>4. g = work
      BY <3>1, <3>2, <3>3
    <3> QED  BY <2>2, <3>1, <3>4 DEF Crossed
  <2>5. ~Crossed' => work = g
    BY <2>2, <2>3 DEF Crossed
  <2>6. ~Crossed' => Counted'
    BY <1>7, <1>a, <1>b, <2>1, <2>2, <2>3, <2>5
  <2> QED  BY <1>7, <2>4, <2>6
<1>8. ASSUME NEW g \in Gen, NEW k \in Thread, UNCHANGED <<pc, mine, work>>, MovesOn(g, k)
      PROVE  Goal
  <2>1. PICK w \in Places \ {"none", "new", "exited"} :
           \A h \in Gen, j \in Thread :
              thread'[h][j] = IF h = g /\ j = k THEN w ELSE thread[h][j]
    BY <1>8, Moved DEF MovesOn, GenInv
  <2>2. thread[g][k] \notin {"none", "new", "exited"} /\ UNCHANGED <<group, wg>>
    BY <1>8 DEF MovesOn
  <2>3. Crossed' = Crossed
    BY <2>2 DEF Crossed
  <2>4. Counted => Counted'
    BY <1>8, <1>b, <2>1, <2>2
  <2> QED  BY <1>8, <1>a, <2>3, <2>4 DEF GenInv
<1>9. ASSUME NEW g \in Gen, NEW k \in Thread, UNCHANGED <<pc, mine, work>>, Leaves(g, k)
      PROVE  Goal
  <2>1. /\ thread[g][k] \notin {"none", "new", "exited"} /\ group' = group
        /\ Move(g, k, "exited") /\ "exited" \in Places
    BY <1>9 DEF Leaves, Leave, Places
  <2>2. \A h \in Gen, j \in Thread :
           thread'[h][j] = IF h = g /\ j = k THEN "exited" ELSE thread[h][j]
    BY <2>1, Moved DEF GenInv
  <2>3. Crossed' = Crossed
    BY <2>1 DEF Crossed
  <2>4. Counted => Counted'
    <3> SUFFICES ASSUME Counted PROVE Counted'
      OBVIOUS
    <3>1. group[g][k] = g /\ wg \in [Gen -> Nat] /\ wg[g] # 0
      BY <1>b, <2>1 DEF GenInv, GoTypes
    <3>2. \A h \in Gen : wg'[h] = IF h = g THEN wg[g] - 1 ELSE wg[h]
      BY <1>9, <3>1 DEF Leaves, Leave
    <3> QED  BY <1>9, <1>b, <2>1, <2>2, <3>1, <3>2
  <2> QED  BY <1>9, <1>a, <2>3, <2>4 DEF GenInv
<1>10. ASSUME UNCHANGED <<pc, mine, work>>, Panics PROVE Goal
  BY <1>10, <1>a, <1>c DEF Panics, GenInv
<1> QED
  BY <1>1, <1>2, <1>3, <1>4, <1>5, <1>6, <1>7, <1>8, <1>9, <1>10, GoSteps
     DEF Next, Stutter

LEMMA StepGen == GenInv /\ [Next]_vars => GenInv'
  BY StepInv, UniqueStep, FreshStep, CountedStep DEF GenInv

LEMMA GenHolds == Spec => []GenInv
  BY InitGen, StepGen, PTL DEF Spec

\* While the poller serves, a new generation of work begins only when every
\* goroutine of the last one has returned, however often the role flaps.
THEOREM AtMostOneGeneration == Spec => []OneGeneration
<1>1. GenInv => OneGeneration
  BY DEF GenInv, Inv, ConsumerInv, Unique, Counted, OneGeneration, Stopper, NoWork, Gen
<1> QED  BY <1>1, GenHolds, PTL

\* No goroutine is left that could use a transport when it is closed, and no
\* transport is closed twice, by either stopper, as long as the WaitGroups
\* count their own goroutines.
THEOREM ClosedIsUnused == Spec => []OpenWhileUsed
<1>1. GenInv => OpenWhileUsed
  BY DEF GenInv, Unique, Counted, OpenWhileUsed
<1> QED  BY <1>1, GenHolds, PTL

\* When main closes checkChan, the only dispatchers left are those of work that
\* the consumer took first, or started after main had stopped the work.
THEOREM CloseRacesConsumer == Spec => []CloseIsRaced
<1>1. GenInv => CloseIsRaced
  BY DEF GenInv, GoTypes, Counted, CloseIsRaced, Live, Thread, Stopper
<1> QED  BY <1>1, GenHolds, PTL

-----------------------------------------------------------------------------
(* The types: every generation answers a role that was published. *)

Leads(s) == {i \in 1 .. Len(s) : s[i] = "leader"}
Leaders(s) == Cardinality(Leads(s))
One(b) == IF b THEN 1 ELSE 0

LEMMA LeadersFinite ==
  ASSUME NEW s \in Seq(Role)
  PROVE  IsFiniteSet(Leads(s)) /\ Leaders(s) \in Nat
<1>1. IsFiniteSet(1 .. Len(s))
  BY FS_Interval
<1>2. Leads(s) \subseteq 1 .. Len(s)
  BY DEF Leads
<1>3. IsFiniteSet(Leads(s))
  BY <1>1, <1>2, FS_Subset
<1> QED  BY <1>3, FS_CardinalityType DEF Leaders

LEMMA LeadersOfAppend ==
  ASSUME NEW s \in Seq(Role), NEW r \in Role
  PROVE  Leaders(Append(s, r)) = Leaders(s) + One(r = "leader")
<1>1. CASE r = "leader"
  <2>1. Leads(Append(s, r)) = Leads(s) \cup {Len(s) + 1} /\ Len(s) + 1 \notin Leads(s)
    BY <1>1 DEF Leads
  <2>2. Cardinality(Leads(s) \cup {Len(s) + 1}) = Cardinality(Leads(s)) + 1
    BY <2>1, LeadersFinite, FS_AddElement
  <2> QED  BY <1>1, <2>1, <2>2 DEF Leaders, One
<1>2. CASE r # "leader"
  <2>1. Leads(Append(s, r)) = Leads(s)
    BY <1>2 DEF Leads
  <2> QED  BY <1>2, <2>1, LeadersFinite DEF Leaders, One
<1> QED  BY <1>1, <1>2

LEMMA LeadersOfTail ==
  ASSUME NEW s \in Seq(Role), s # << >>
  PROVE  Leaders(s) = Leaders(Tail(s)) + One(Head(s) = "leader")
<1> DEFINE Rest == {i \in 2 .. Len(s) : s[i] = "leader"}
           f == [i \in Leads(Tail(s)) |-> i + 1]
<1>1. /\ Tail(s) \in Seq(Role) /\ Len(Tail(s)) = Len(s) - 1 /\ Len(s) \in Nat \ {0}
      /\ \A i \in 1 .. Len(Tail(s)) : Tail(s)[i] = s[i + 1]
      /\ Head(s) = s[1]
  BY HeadTailProperties, EmptySeq
<1>2. f \in Bijection(Leads(Tail(s)), Rest)
  <2>1. \A i \in Leads(Tail(s)) : f[i] \in Rest
    BY <1>1 DEF Leads
  <2>2. \A i \in Rest : i - 1 \in Leads(Tail(s)) /\ f[i - 1] = i
    BY <1>1 DEF Leads
  <2>3. \A i, j \in Leads(Tail(s)) : f[i] = f[j] => i = j
    BY DEF Leads
  <2>4. f \in [Leads(Tail(s)) -> Rest]
    BY <2>1
  <2>5. f \in Injection(Leads(Tail(s)), Rest)
    BY <2>3, <2>4 DEF Injection, IsInjective
  <2>6. f \in Surjection(Leads(Tail(s)), Rest)
    <3>1. \A i \in Rest : \E j \in Leads(Tail(s)) : f[j] = i
      BY <2>2
    <3> QED  BY <2>4, <3>1 DEF Surjection
  <2> QED  BY <2>5, <2>6 DEF Bijection
<1>3. IsFiniteSet(Rest) /\ Cardinality(Rest) = Leaders(Tail(s))
  <2>1. ExistsBijection(Leads(Tail(s)), Rest)
    BY <1>2 DEF ExistsBijection
  <2> QED  BY <1>1, <2>1, LeadersFinite, FS_Bijection DEF Leaders
<1>4. CASE Head(s) = "leader"
  <2>1. Leads(s) = Rest \cup {1} /\ 1 \notin Rest
    BY <1>1, <1>4 DEF Leads
  <2>2. Cardinality(Rest \cup {1}) = Cardinality(Rest) + 1
    BY <1>3, <2>1, FS_AddElement
  <2> QED  BY <1>3, <1>4, <2>1, <2>2 DEF Leaders, One
<1>5. CASE Head(s) # "leader"
  <2>1. Leads(s) = Rest
    <3>1. \A i \in 1 .. Len(s) : i = 1 \/ i \in 2 .. Len(s)
      BY <1>1
    <3> QED  BY <1>1, <1>5, <3>1 DEF Leads
  <2>2. Leaders(s) = Leaders(Tail(s)) /\ Leaders(s) \in Nat
    BY <1>3, <2>1, LeadersFinite DEF Leaders
  <2> QED  BY <1>5, <2>2 DEF One
<1> QED  BY <1>4, <1>5

Flags == dropped \in BOOLEAN /\ root \in BOOLEAN

Names ==
    /\ elector \in {"start", "top", "calling", "done"}
    /\ pc["main"] \in {"serving", "take", "wait", "flush", "cancel", "close", "drain", "exited"}
    /\ checkChan \in {"open", "closed"}
    /\ panic \in {"none", "nil work", "negative WaitGroup", "send on closed channel"}

Limits == flaps \in 0 .. MaxFlaps /\ Len(ch) <= Capacity

Groups ==
    /\ ctx \subseteq Gen
    /\ group \in [Gen -> [Thread -> Gen \cup {NoWork}]]
    /\ wg \in [Gen -> {0, 1, 2}]

\* Every second role published is a leader's; a generation started, one about
\* to be, and every leader in the channel is one of those.
Answered ==
    2 * (gens + One(pc["consumer"] = "start") + Leaders(ch)) <= flaps + One(role = "leader")

TypeInv == GenInv /\ Flags /\ Names /\ Limits /\ Groups /\ Answered

LEMMA InGen ==
  ASSUME GenInv, Limits, Answered
  PROVE  /\ \A n \in 1 .. gens : n \in Gen
         /\ gens \in 0 .. ((MaxFlaps + 1) \div 2)
<1>1. gens \in Nat /\ ch \in Seq(Role)
  BY DEF GenInv, Inv, Types
<1>2. Leaders(ch) \in Nat
  BY <1>1, LeadersFinite
<1>3. flaps \in 0 .. MaxFlaps
  BY DEF Limits
<1>4. 2 * gens <= MaxFlaps + 1
  BY <1>1, <1>2, <1>3 DEF Answered, One
<1> QED  BY <1>1, <1>4 DEF Gen

LEMMA InitType == Init => TypeInv
<1> SUFFICES ASSUME Init PROVE TypeInv
  OBVIOUS
<1>1. Flags
  BY DEF Init, Flags
<1>2. Names
  BY DEF Init, Names, Stopper
<1>3. Limits
  BY DEF Init, Limits
<1>4. Groups
  BY DEF Init, Groups, NoWork
<1>5. Leaders(<< >>) = 0
  BY FS_EmptySet DEF Leaders, Leads
<1>6. Answered
  BY <1>5 DEF Init, Answered, One, Stopper
<1> QED  BY <1>1, <1>2, <1>3, <1>4, <1>6, InitGen DEF TypeInv

LEMMA FlagsStep == TypeInv /\ [Next]_vars => Flags'
<1> SUFFICES ASSUME TypeInv, [Next]_vars PROVE Flags'
  OBVIOUS
<1>1. dropped' = dropped \/ dropped' = TRUE
  BY GoSteps DEF Next, Stutter, vars, election, ElectorStart, ElectorLoop, ElectorCut,
         ElectorReturn, SetState, Receive, StartWork, Take, Wait, CloseTransport,
         Signal, CancelRoot, CloseChecks, ExitMain
<1>2. root' = root \/ root' = TRUE
  BY GoSteps DEF Next, Stutter, vars, lifecycle, ElectorStart, ElectorLoop, ElectorCut,
         ElectorReturn, Receive, StartWork, Take, Wait, CloseTransport,
         Signal, CancelRoot, CloseChecks, ExitMain
<1> QED  BY <1>1, <1>2 DEF TypeInv, Flags

LEMMA NamesStep == TypeInv /\ [Next]_vars => Names'
<1> SUFFICES ASSUME Names, [Next]_vars,
                    pc \in [Stopper -> {"receive", "start", "take", "wait", "flush",
                                        "serving", "cancel", "close", "drain", "exited"}]
             PROVE  Names'
  BY DEF TypeInv, GenInv, Inv, Types
<1> USE DEF Names, Stopper, Goto, After, election, lifecycle, goroutines
<1>1. CASE ElectorStart \/ ElectorLoop \/ ElectorCut \/ ElectorReturn
  BY <1>1 DEF ElectorStart, ElectorLoop, ElectorCut, ElectorReturn
<1>2. CASE Receive \/ StartWork
  BY <1>2 DEF Receive, StartWork
<1>3. ASSUME NEW s \in Stopper, Take(s) \/ Wait(s) \/ CloseTransport(s) PROVE Names'
  BY <1>3 DEF Take, Wait, CloseTransport
<1>4. CASE Signal \/ CancelRoot \/ CloseChecks \/ ExitMain
  BY <1>4 DEF Signal, CancelRoot, CloseChecks, ExitMain
<1>5. ASSUME NEW g \in Gen, NEW k \in Thread,
             \/ Runs(Begin(g, k)) \/ Runs(Quit(g, k)) \/ Runs(Tick(g, k))
             \/ Runs(Finish(g, k)) \/ Runs(SendDue(g, k))
      PROVE  Names'
  BY <1>5 DEF Runs, Begin, Quit, Tick, Finish, SendDue, Leave
<1>6. CASE UNCHANGED vars
  BY <1>6 DEF vars
<1> QED  BY <1>1, <1>2, <1>3, <1>4, <1>5, <1>6 DEF Next, Stutter

LEMMA LimitsStep == TypeInv /\ [Next]_vars => Limits'
<1> SUFFICES ASSUME [Next]_vars, flaps \in 0 .. MaxFlaps, Len(ch) <= Capacity,
                    ch \in Seq(Role)
             PROVE  Limits'
  BY DEF TypeInv, GenInv, Inv, Types, Limits
<1>a. Len(ch) \in Nat /\ \A r \in Role : Len(Append(ch, r)) = Len(ch) + 1
  OBVIOUS
<1>1. CASE ElectorStart \/ ElectorReturn
  BY <1>1, <1>a DEF ElectorStart, ElectorReturn, SetState, Role, Limits
<1>2. CASE Receive
  <2>1. ch # << >> /\ ch' = Tail(ch) /\ flaps' = flaps
    BY <1>2 DEF Receive
  <2>2. Len(ch') = Len(ch) - 1
    BY <2>1, HeadTailProperties
  <2> QED  BY <1>a, <2>1, <2>2 DEF Limits
<1>3. CASE UNCHANGED <<flaps, ch>>
  BY <1>3 DEF Limits
<1> QED
  BY <1>1, <1>2, <1>3, GoSteps
     DEF Next, Stutter, vars, election, ElectorLoop, ElectorCut, StartWork, Take, Wait,
         CloseTransport, Signal, CancelRoot, CloseChecks, ExitMain

LEMMA GroupsStep == TypeInv /\ [Next]_vars => Groups'
<1>a. TypeInv => work \in Gen \cup {NoWork} /\ work \in Nat /\ gens \in Nat
  BY InGen DEF TypeInv, GenInv, Inv, Types, Unique, NoWork
<1> SUFFICES ASSUME [Next]_vars, Groups, work \in Gen \cup {NoWork} PROVE Groups'
  BY <1>a DEF TypeInv
<1> USE DEF Groups, lifecycle, goroutines
<1>1. CASE UNCHANGED <<ctx, group, wg>>
  BY <1>1
<1>2. CASE StartWork
  <2>1. /\ UNCHANGED <<ctx, group>>
        /\ wg' = wg \/ wg' = [wg EXCEPT ![gens + 1] = 2]
    BY <1>2 DEF StartWork
  <2> QED  BY <2>1
<1>3. ASSUME NEW s \in Stopper, Take(s) PROVE Groups'
  BY <1>3 DEF Take
<1>4. ASSUME NEW g \in Gen, NEW k \in Thread, Begins(g, k), ctx' = ctx PROVE Groups'
  <2>1. group' = [group EXCEPT ![g][k] = work] /\ wg' = wg
    BY <1>4 DEF Begins, Joins
  <2>2. group' \in [Gen -> [Thread -> Gen \cup {NoWork}]]
    BY <2>1
  <2> QED  BY <1>4, <2>1, <2>2
<1>5. ASSUME NEW g \in Gen, NEW k \in Thread, Leaves(g, k), ctx' = ctx PROVE Groups'
  <2>a. Leave(g, k)
    BY <1>5 DEF Leaves
  <2>b. group' = group
    BY <2>a DEF Leave
  <2> DEFINE x == group[g][k]
  <2>1. \/ wg' = wg
        \/ wg[x] # 0 /\ wg' = [wg EXCEPT ![x] = wg[x] - 1]
    BY <2>a DEF Leave
  <2>2. wg \in [Gen -> {0, 1, 2}]
    OBVIOUS
  <2> HIDE DEF x
  <2>3. wg' \in [Gen -> {0, 1, 2}]
    <3>1. CASE x \in Gen
      <4>1. wg[x] \in {0, 1, 2}
        BY <2>2, <3>1
      <4>2. \A n \in {0, 1, 2} : n # 0 => n - 1 \in {0, 1, 2}
        OBVIOUS
      <4> QED  BY <2>1, <2>2, <4>1, <4>2
    <3>2. CASE x \notin Gen
      BY <2>1, <2>2, <3>2
    <3> QED  BY <3>1, <3>2
  <2> QED  BY <1>5, <2>b, <2>3
<1>6. ASSUME NEW g \in Gen, NEW k \in Thread,
             Begins(g, k) \/ MovesOn(g, k) \/ Leaves(g, k) \/ Panics, ctx' = ctx
      PROVE  Groups'
  BY <1>1, <1>4, <1>5, <1>6 DEF MovesOn, Panics
<1> QED
  BY <1>1, <1>2, <1>3, <1>6, GoSteps
     DEF Next, Stutter, vars, ElectorStart, ElectorLoop, ElectorCut, ElectorReturn, Receive,
         Wait, CloseTransport, Signal, CancelRoot, CloseChecks, ExitMain

LEMMA AnsweredStep == TypeInv /\ [Next]_vars => Answered'
<1> SUFFICES ASSUME TypeInv, [Next]_vars PROVE Answered'
  OBVIOUS
<1>a. /\ ch \in Seq(Role) /\ gens \in Nat /\ flaps \in Nat /\ role \in Role
      /\ Leaders(ch) \in Nat
      /\ pc \in [Stopper -> {"receive", "start", "take", "wait", "flush",
                             "serving", "cancel", "close", "drain", "exited"}]
  <2>1. Types /\ flaps \in Nat
    BY DEF TypeInv, GenInv, Inv, Limits
  <2>2. Leaders(ch) \in Nat
    BY <2>1, LeadersFinite DEF Types
  <2> QED  BY <2>1, <2>2 DEF Types
<1>b. 2 * (gens + One(pc["consumer"] = "start") + Leaders(ch)) <= flaps + One(role = "leader")
  BY DEF TypeInv, Answered
<1> USE DEF Answered, One, election, lifecycle, goroutines, Stopper
<1>1. CASE ElectorStart
  <2>1. Leaders(Append(ch, "follower")) = Leaders(ch)
    BY <1>a, LeadersOfAppend DEF Role
  <2> QED  BY <1>1, <1>a, <1>b, <2>1 DEF ElectorStart
<1>2. CASE ElectorLoop \/ ElectorCut
  BY <1>2, <1>b DEF ElectorLoop, ElectorCut
<1>3. CASE ElectorReturn
  <2>1. /\ Leaders(Append(ch, "follower")) = Leaders(ch)
        /\ Leaders(Append(ch, "leader")) = Leaders(ch) + 1
    <3>1. "follower" \in Role /\ "leader" \in Role
      BY DEF Role
    <3>2. /\ Leaders(Append(ch, "follower")) = Leaders(ch) + One("follower" = "leader")
          /\ Leaders(Append(ch, "leader")) = Leaders(ch) + One("leader" = "leader")
      BY <1>a, <3>1, LeadersOfAppend
    <3> QED  BY <1>a, <3>2
  <2>2. CASE role = "follower" /\ SetState("leader")
    <3>1. role' = "leader" /\ flaps' = flaps + 1 /\ UNCHANGED <<pc, gens>>
      BY <1>3, <2>2 DEF ElectorReturn, SetState
    <3>2. Leaders(ch') = Leaders(ch) \/ Leaders(ch') = Leaders(ch) + 1
      BY <2>1, <2>2 DEF SetState
    <3> QED  BY <1>a, <1>b, <2>2, <3>1, <3>2
  <2>3. CASE role = "leader" /\ SetState("follower")
    <3>1. role' = "follower" /\ flaps' = flaps + 1 /\ UNCHANGED <<pc, gens>>
      BY <1>3, <2>3 DEF ElectorReturn, SetState
    <3>2. Leaders(ch') = Leaders(ch)
      BY <2>1, <2>3 DEF SetState
    <3> QED  BY <1>a, <1>b, <2>3, <3>1, <3>2
  <2>4. CASE UNCHANGED <<role, ch, flaps, dropped>>
    BY <1>3, <1>b, <2>4 DEF ElectorReturn
  <2> QED  BY <1>3, <2>2, <2>3, <2>4 DEF ElectorReturn
<1>4. CASE Receive
  <2>1. Leaders(ch) = Leaders(Tail(ch)) + One(Head(ch) = "leader") /\ Tail(ch) \in Seq(Role)
    BY <1>4, <1>a, LeadersOfTail, LastOfTail DEF Receive
  <2>2. Leaders(Tail(ch)) \in Nat
    BY <2>1, LeadersFinite
  <2> QED  BY <1>4, <1>a, <1>b, <2>1, <2>2 DEF Receive, Goto
<1>5. CASE StartWork
  BY <1>5, <1>a, <1>b DEF StartWork, Goto
<1>6. ASSUME NEW s \in Stopper, Take(s) \/ Wait(s) \/ CloseTransport(s) PROVE Answered'
  BY <1>6, <1>a, <1>b DEF Take, Wait, CloseTransport, Goto, After
<1>7. CASE Signal \/ CancelRoot \/ CloseChecks \/ ExitMain
  BY <1>7, <1>a, <1>b DEF Signal, CancelRoot, CloseChecks, ExitMain, Goto
<1>8. CASE UNCHANGED <<election, seen, pc, mine, lifecycle>>
  BY <1>8, <1>b
<1>9. CASE UNCHANGED vars
  BY <1>9, <1>b DEF vars
<1> QED
  BY <1>1, <1>2, <1>3, <1>4, <1>5, <1>6, <1>7, <1>8, <1>9, GoSteps DEF Next, Stutter

\* Every variable keeps its type; the generations are never more than the
\* roles that were published, and no WaitGroup counts more than two.
THEOREM TypeCorrect == Spec => []TypeOK
<1>1. TypeInv /\ [Next]_vars => TypeInv'
  BY StepGen, FlagsStep, NamesStep, LimitsStep, GroupsStep, AnsweredStep DEF TypeInv
<1>2. ASSUME TypeInv PROVE TypeOK
  <2>1. (MaxFlaps + 1) \div 2 \in Nat /\ Cardinality(Gen) = (MaxFlaps + 1) \div 2
    <3>1. (MaxFlaps + 1) \div 2 \in Nat
      OBVIOUS
    <3> QED  BY <3>1, FS_Interval DEF Gen
  <2>2. /\ gens \in 0 .. Cardinality(Gen) /\ closed \subseteq Gen
        /\ work \in Gen \cup {NoWork}
        /\ mine \in [Stopper -> Gen \cup {NoWork}]
    BY <1>2, <2>1, InGen DEF TypeInv, GenInv, Unique, GoTypes, NoWork
  <2>3. dropped \in BOOLEAN /\ root \in BOOLEAN
    BY <1>2 DEF TypeInv, Flags
  <2>4. wg \in [Gen -> 0 .. 2]
    <3>1. 0 .. 2 = {0, 1, 2}
      OBVIOUS
    <3> QED  BY <1>2, <3>1 DEF TypeInv, Groups
  <2>5. flaps \in 0 .. MaxFlaps /\ Len(ch) <= Capacity
    BY <1>2 DEF TypeInv, Limits
  <2>6. /\ role \in {"follower", "leader"} /\ ch \in Seq({"follower", "leader"})
        /\ seen \in {"none", "follower", "leader"}
        /\ pc["consumer"] \in {"receive", "start", "take", "wait", "flush"}
        /\ thread \in [Gen -> [Thread -> {"none", "new", "fetch", "select", "send",
                                          "submit", "exited"}]]
    BY <1>2 DEF TypeInv, GenInv, Inv, Types, PlaceInv, GoTypes, Places, Role
  <2>7. /\ ctx \in SUBSET Gen
        /\ group \in [Gen -> [Thread -> Gen \cup {NoWork}]]
    BY <1>2 DEF TypeInv, Groups
  <2>8. Names
    BY <1>2 DEF TypeInv
  <2> QED
    BY <2>2, <2>3, <2>4, <2>5, <2>6, <2>7, <2>8, Zenon DEF TypeOK, Names
<1> QED  BY <1>1, <1>2, InitType, PTL DEF Spec
=============================================================================
