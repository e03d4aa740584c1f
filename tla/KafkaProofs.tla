---------------------------- MODULE KafkaProofs ----------------------------
(***************************************************************************)
(* Proofs about KafkaDispatch, for any pollers, workers and messages.      *)
(***************************************************************************)
EXTENDS LeaderTransport, FiniteSetTheorems, FunctionTheorems, TLAPS

USE KafkaAssumption DEF Kafka!ConstantsOK

LEMMA FiniteIsFinite == \A S : Kafka!IsFiniteSet(S) <=> IsFiniteSet(S)
  BY DEF Kafka!IsFiniteSet, IsFiniteSet

\* Its types in the parts that different steps disturb, with what ties the
\* offsets together: a reader marks what it reads, and a partition that is
\* free has been committed as far as it was marked.
Offsets ==
    /\ produced \in 0 .. MaxOffset
    /\ marked \in 0 .. produced /\ committed \in 0 .. marked
    /\ position = marked
    /\ owner = NoPoller => position = committed

Reader ==
    /\ owner \in Poller \cup {NoPoller}
    /\ at \in [Poller -> {"closed", "read", "backoff", "send", "exited"}]
    /\ held \in [Poller -> Kafka!Offset \cup {0}]
    /\ \A p \in Poller : at[p] = "send" <=> held[p] # 0
    /\ \A p \in Poller : owner = p => at[p] # "closed"
    /\ kafkaCancelled \in [Poller -> BOOLEAN]

Pool ==
    /\ kafkaChan \in [Poller -> Seq(Kafka!Offset)]
    /\ executing \in [Poller -> [Kafka!Worker -> Kafka!Offset \cup {0}]]
    /\ done \subseteq Kafka!Offset

Counts ==
    /\ handed \in [Kafka!Offset -> Nat]
    /\ stops \in 0 .. MaxStops /\ crashes \in Nat /\ replays \in Nat

\* The readers that hold a message, and how many there are.
Holders(o) == {p \in Poller : held[p] = o}
Copies(o) == Cardinality(Holders(o))

\* A message that lies behind the partition's position was handed over once
\* more than faults took it back; those that are held are about to be.
Covered ==
    \A o \in Kafka!Offset :
        handed[o] + Copies(o) <= crashes + replays + (IF o <= position THEN 1 ELSE 0)

Inv == Offsets /\ Reader /\ Pool /\ Counts /\ Covered

LEMMA HoldersAreFinite ==
  \A o : IsFiniteSet(Holders(o)) /\ Copies(o) \in Nat /\ Copies(o)' \in Nat
<1>1. IsFiniteSet(Poller)
  BY FiniteIsFinite
<1>2. \A S \in SUBSET Poller : IsFiniteSet(S) /\ Cardinality(S) \in Nat
  BY <1>1, FS_Subset, FS_CardinalityType
<1>3. \A o : Holders(o) \in SUBSET Poller /\ Holders(o)' \in SUBSET Poller
  BY DEF Holders
<1>4. QED
  BY <1>2, <1>3 DEF Copies

\* How a finite set's size changes with one element more, or less.
LEMMA SizeChanges ==
  ASSUME NEW H, IsFiniteSet(H), NEW G
  PROVE  /\ Cardinality(H) \in Nat
         /\ G \subseteq H => Cardinality(G) \in Nat /\ Cardinality(G) <= Cardinality(H)
         /\ \A p : G \subseteq H \cup {p}
                      => Cardinality(G) \in Nat /\ Cardinality(G) <= Cardinality(H) + 1
         /\ \A p \in H : G \subseteq H \ {p}
                            => Cardinality(G) \in Nat /\ Cardinality(G) + 1 <= Cardinality(H)
<1>1. Cardinality(H) \in Nat
  BY FS_CardinalityType
<1>2. \A S, T : IsFiniteSet(T) /\ S \subseteq T
                   => Cardinality(S) \in Nat /\ Cardinality(T) \in Nat /\ Cardinality(S) <= Cardinality(T)
  BY FS_Subset, FS_CardinalityType
<1>3. G \subseteq H => Cardinality(G) <= Cardinality(H) /\ Cardinality(G) \in Nat
  BY <1>1, <1>2
<1>4. ASSUME NEW p, G \subseteq H \cup {p}
      PROVE  Cardinality(G) <= Cardinality(H) + 1 /\ Cardinality(G) \in Nat
  <2>1. /\ IsFiniteSet(H \cup {p})
        /\ Cardinality(H \cup {p}) = IF p \in H THEN Cardinality(H) ELSE Cardinality(H) + 1
    BY <1>1, FS_AddElement, Zenon
  <2>2. Cardinality(G) <= Cardinality(H \cup {p}) /\ Cardinality(G) \in Nat
    BY <1>2, <1>4, <2>1, Zenon
  <2>3. Cardinality(H \cup {p}) <= Cardinality(H) + 1 /\ Cardinality(H \cup {p}) \in Nat
    <3>1. CASE p \in H
      BY <1>1, <2>1, <3>1
    <3>2. CASE p \notin H
      BY <1>1, <2>1, <3>2
    <3>3. QED
      BY <3>1, <3>2
  <2>4. QED
    BY <1>1, <2>2, <2>3
<1>5. ASSUME NEW p \in H, G \subseteq H \ {p}
      PROVE  Cardinality(G) + 1 <= Cardinality(H) /\ Cardinality(G) \in Nat
  <2>1. IsFiniteSet(H \ {p}) /\ Cardinality(H \ {p}) = Cardinality(H) - 1
    BY <1>1, <1>5, FS_RemoveElement
  <2>2. Cardinality(G) <= Cardinality(H \ {p}) /\ Cardinality(G) \in Nat
    BY <1>2, <1>5, <2>1, Zenon
  <2>3. QED
    BY <1>1, <2>1, <2>2
<1>6. QED
  BY <1>1, <1>3, <1>4, <1>5

\* One reader more, or less, that holds a message.
LEMMA OneHolder ==
  ASSUME NEW o
  PROVE  /\ Holders(o)' \subseteq Holders(o) => Copies(o)' <= Copies(o)
         /\ \A p : Holders(o)' \subseteq Holders(o) \cup {p} => Copies(o)' <= Copies(o) + 1
         /\ \A p \in Holders(o) : Holders(o)' \subseteq Holders(o) \ {p}
                                     => Copies(o)' + 1 <= Copies(o)
<1> DEFINE H == Holders(o)
           G == Holders(o)'
<1>1. IsFiniteSet(H) /\ Copies(o) = Cardinality(H) /\ Copies(o)' = Cardinality(G)
  BY HoldersAreFinite DEF Copies
<1> HIDE DEF G, H
<1>2. /\ G \subseteq H => Cardinality(G) <= Cardinality(H)
      /\ \A p : G \subseteq H \cup {p} => Cardinality(G) <= Cardinality(H) + 1
      /\ \A p \in H : G \subseteq H \ {p} => Cardinality(G) + 1 <= Cardinality(H)
  BY <1>1, SizeChanges
<1>3. QED
  BY <1>1, <1>2 DEF G, H

LEMMA InitInv == Kafka!Init => Inv
<1> SUFFICES ASSUME Kafka!Init PROVE Inv
  OBVIOUS
<1> USE DEF Kafka!Init, Kafka!Offset
<1>1. Offsets
  BY DEF Offsets
<1>2. Reader
  BY DEF Reader
<1>3. Pool
  BY DEF Pool
<1>4. Counts
  BY DEF Counts
<1>5. \A o \in Kafka!Offset : Holders(o) = {}
  BY DEF Holders
<1>6. \A o \in Kafka!Offset : Copies(o) = 0
  BY <1>5, FS_EmptySet DEF Copies
<1>7. Covered
  BY <1>6 DEF Covered
<1>8. QED
  BY <1>1, <1>2, <1>3, <1>4, <1>7 DEF Inv

-----------------------------------------------------------------------------

LEMMA OffsetsStep == Inv /\ [Kafka!Next]_(Kafka!vars) => Offsets'
<1> SUFFICES ASSUME Inv, [Kafka!Next]_(Kafka!vars) PROVE Offsets'
  OBVIOUS
<1> USE DEF Inv, Offsets, Kafka!partition
<1>1. CASE Kafka!Produce
  BY <1>1 DEF Kafka!Produce
<1>2. CASE Kafka!Commit
  BY <1>2 DEF Kafka!Commit
<1>3. ASSUME NEW p \in Poller, Kafka!PollerStep(p) PROVE Offsets'
  <2>1. CASE Kafka!Read(p)
    BY <2>1 DEF Kafka!Read
  <2>2. CASE Kafka!Close(p)
    BY <2>2 DEF Kafka!Close
  <2>3. CASE Kafka!Assign(p)
    BY <2>3 DEF Kafka!Assign
  <2>4. CASE Kafka!Rebalance(p)
    BY <2>4 DEF Kafka!Rebalance
  <2>5. CASE Kafka!Crash(p)
    BY <2>5 DEF Kafka!Crash
  <2>6. ASSUME UNCHANGED Kafka!partition PROVE Offsets'
    BY <2>6
  <2>7. QED
    BY <1>3, <2>1, <2>2, <2>3, <2>4, <2>5, <2>6
       DEF Kafka!PollerStep, Kafka!Lead, Kafka!ReadFails, Kafka!BackOff, Kafka!GiveUp, Kafka!Send,
           Kafka!Quit, Kafka!StepDown, Kafka!Take, Kafka!Finish
<1>4. CASE UNCHANGED Kafka!vars
  BY <1>4 DEF Kafka!vars
<1>5. QED
  BY <1>1, <1>2, <1>3, <1>4 DEF Kafka!Next

LEMMA ReaderStep == Inv /\ [Kafka!Next]_(Kafka!vars) => Reader'
<1> SUFFICES ASSUME Inv, [Kafka!Next]_(Kafka!vars) PROVE Reader'
  OBVIOUS
<1>a. /\ owner \in Poller \cup {NoPoller}
      /\ at \in [Poller -> {"closed", "read", "backoff", "send", "exited"}]
      /\ held \in [Poller -> Kafka!Offset \cup {0}]
      /\ \A p \in Poller : at[p] = "send" <=> held[p] # 0
      /\ \A p \in Poller : owner = p => at[p] # "closed"
      /\ kafkaCancelled \in [Poller -> BOOLEAN]
  BY DEF Inv, Reader
<1> USE <1>a DEF Reader, Kafka!partition, Kafka!runs
<1>1. CASE Kafka!Produce \/ Kafka!Commit
  BY <1>1 DEF Kafka!Produce, Kafka!Commit
<1>2. ASSUME NEW p \in Poller, Kafka!PollerStep(p) PROVE Reader'
  <2>1. CASE Kafka!Lead(p)
    BY <2>1 DEF Kafka!Lead
  <2>2. CASE Kafka!Read(p)
    <3>1. position + 1 \in Kafka!Offset /\ position + 1 # 0
      BY <2>2 DEF Kafka!Read, Inv, Offsets, Kafka!Offset
    <3>2. QED
      BY <2>2, <3>1 DEF Kafka!Read
  <2>3. CASE Kafka!ReadFails(p) \/ Kafka!BackOff(p) \/ Kafka!GiveUp(p)
    BY <2>3 DEF Kafka!ReadFails, Kafka!BackOff, Kafka!GiveUp
  <2>4. CASE Kafka!Send(p)
    BY <2>4 DEF Kafka!Send
  <2>5. CASE Kafka!Quit(p)
    BY <2>5 DEF Kafka!Quit
  <2>6. CASE Kafka!StepDown(p)
    BY <2>6 DEF Kafka!StepDown
  <2>7. CASE Kafka!Close(p)
    BY <2>7 DEF Kafka!Close
  <2>8. CASE Kafka!Assign(p) \/ Kafka!Rebalance(p)
    BY <2>8 DEF Kafka!Assign, Kafka!Rebalance
  <2>9. CASE Kafka!Crash(p)
    BY <2>9 DEF Kafka!Crash
  <2>10. ASSUME NEW w, Kafka!Take(p, w) \/ Kafka!Finish(p, w) PROVE Reader'
    BY <2>10 DEF Kafka!Take, Kafka!Finish
  <2>11. QED
    BY <1>2, <2>1, <2>2, <2>3, <2>4, <2>5, <2>6, <2>7, <2>8, <2>9, <2>10 DEF Kafka!PollerStep
<1>3. CASE UNCHANGED Kafka!vars
  BY <1>3 DEF Kafka!vars
<1>4. QED
  BY <1>1, <1>2, <1>3 DEF Kafka!Next

LEMMA PoolStep == Inv /\ [Kafka!Next]_(Kafka!vars) => Pool'
<1> SUFFICES ASSUME Inv, [Kafka!Next]_(Kafka!vars) PROVE Pool'
  OBVIOUS
<1> USE DEF Inv, Pool
<1>1. ASSUME UNCHANGED Kafka!pool PROVE Pool'
  BY <1>1 DEF Kafka!pool
<1>2. ASSUME NEW p \in Poller, Kafka!PollerStep(p) PROVE Pool'
  <2>1. CASE Kafka!Send(p)
    <3>1. held[p] \in Kafka!Offset
      BY <2>1 DEF Kafka!Send, Reader
    <3>2. QED
      BY <2>1, <3>1 DEF Kafka!Send
  <2>2. CASE Kafka!Crash(p)
    BY <2>2 DEF Kafka!Crash
  <2>3. ASSUME NEW w \in Kafka!Worker, Kafka!Take(p, w) PROVE Pool'
    <3>1. kafkaChan[p] \in Seq(Kafka!Offset) /\ kafkaChan[p] # << >>
      BY <2>3 DEF Kafka!Take
    <3>2. Head(kafkaChan[p]) \in Kafka!Offset /\ Tail(kafkaChan[p]) \in Seq(Kafka!Offset)
      BY <3>1
    <3>3. QED
      BY <2>3, <3>2 DEF Kafka!Take
  <2>4. ASSUME NEW w \in Kafka!Worker, Kafka!Finish(p, w) PROVE Pool'
    BY <2>4 DEF Kafka!Finish
  <2>5. QED
    BY <1>1, <1>2, <2>1, <2>2, <2>3, <2>4
       DEF Kafka!PollerStep, Kafka!Lead, Kafka!Read, Kafka!ReadFails, Kafka!BackOff, Kafka!GiveUp,
           Kafka!Quit, Kafka!StepDown, Kafka!Close, Kafka!Assign, Kafka!Rebalance
<1>3. QED
  BY <1>1, <1>2 DEF Kafka!Next, Kafka!vars, Kafka!Produce, Kafka!Commit

LEMMA CountsStep == Inv /\ [Kafka!Next]_(Kafka!vars) => Counts'
<1> SUFFICES ASSUME Inv, [Kafka!Next]_(Kafka!vars) PROVE Counts'
  OBVIOUS
<1> USE DEF Inv, Counts
<1>1. ASSUME UNCHANGED <<handed, Kafka!faults>> PROVE Counts'
  BY <1>1 DEF Kafka!faults
<1>2. ASSUME NEW p \in Poller, Kafka!PollerStep(p) PROVE Counts'
  <2>1. CASE Kafka!Send(p)
    <3>1. held[p] \in Kafka!Offset
      BY <2>1 DEF Kafka!Send, Reader
    <3>2. QED
      BY <2>1, <3>1 DEF Kafka!Send, Kafka!faults
  <2>2. CASE Kafka!StepDown(p)
    BY <2>2 DEF Kafka!StepDown
  <2>3. CASE Kafka!Rebalance(p)
    BY <2>3 DEF Kafka!Rebalance
  <2>4. CASE Kafka!Crash(p)
    BY <2>4 DEF Kafka!Crash
  <2>5. QED
    BY <1>1, <1>2, <2>1, <2>2, <2>3, <2>4
       DEF Kafka!PollerStep, Kafka!Lead, Kafka!Read, Kafka!ReadFails, Kafka!BackOff, Kafka!GiveUp,
           Kafka!Quit, Kafka!Close, Kafka!Assign, Kafka!Take, Kafka!Finish
<1>3. QED
  BY <1>1, <1>2 DEF Kafka!Next, Kafka!vars, Kafka!Produce, Kafka!Commit

\* A reader takes on a message that nobody was handed since the last fault; a
\* send hands over what it held; whatever else happens, fewer hold it.
LEMMA CoveredStep == Inv /\ [Kafka!Next]_(Kafka!vars) => Covered'
<1> SUFFICES ASSUME Inv, [Kafka!Next]_(Kafka!vars), NEW o \in Kafka!Offset
             PROVE  (handed[o] + Copies(o) <= crashes + replays + (IF o <= position THEN 1 ELSE 0))'
  BY DEF Covered
<1> DEFINE Behind == IF o <= position THEN 1 ELSE 0
           Goal == (handed[o] + Copies(o) <= crashes + replays + Behind)'
<1>a. /\ handed[o] \in Nat /\ crashes \in Nat /\ replays \in Nat /\ o \in Nat /\ o # 0
      /\ position \in Nat /\ committed \in Nat /\ marked \in Nat
      /\ produced \in Nat /\ position = marked /\ committed <= marked
      /\ Copies(o) \in Nat
      /\ handed[o] + Copies(o) <= crashes + replays + Behind
      /\ handed \in [Kafka!Offset -> Nat]
      /\ held \in [Poller -> Kafka!Offset \cup {0}]
      /\ \A p \in Poller : at[p] = "send" <=> held[p] # 0
  BY HoldersAreFinite DEF Inv, Offsets, Reader, Counts, Covered, Kafka!Offset
<1>b. Copies(o)' \in Nat
  BY HoldersAreFinite
<1>c. Behind \in {0, 1} /\ Behind' \in {0, 1}
  OBVIOUS
<1>1. ASSUME UNCHANGED <<handed, crashes, replays>>, Behind <= Behind', Holders(o)' \subseteq Holders(o)
      PROVE  Goal
  <2>1. Copies(o)' <= Copies(o)
    BY <1>1, OneHolder
  <2> HIDE DEF Behind
  <2>2. QED
    BY <1>1, <1>a, <1>b, <1>c, <2>1
<1>2. ASSUME UNCHANGED <<handed, position, held, crashes, replays>> PROVE Goal
  BY <1>1, <1>2 DEF Holders
<1>3. ASSUME handed' = handed, Holders(o)' \subseteq Holders(o),
             \/ crashes' = crashes + 1 /\ replays' = replays
             \/ crashes' = crashes /\ replays' = replays + 1
      PROVE  Goal
  <2>1. Copies(o)' <= Copies(o)
    BY <1>3, OneHolder
  <2> HIDE DEF Behind
  <2>2. CASE crashes' = crashes + 1 /\ replays' = replays
    BY <1>3, <1>a, <1>b, <1>c, <2>1, <2>2
  <2>3. CASE crashes' = crashes /\ replays' = replays + 1
    BY <1>3, <1>a, <1>b, <1>c, <2>1, <2>3
  <2>4. QED
    BY <1>3, <2>2, <2>3
<1>4. ASSUME NEW p \in Poller, Kafka!PollerStep(p) PROVE Goal
  <2>1. CASE Kafka!Read(p)
    <3>1. position' = position + 1 /\ UNCHANGED <<handed, crashes, replays>>
      BY <2>1 DEF Kafka!Read, Kafka!faults
    <3>2. Behind <= Behind'
      BY <3>1, <1>a
    <3>3. CASE o = position + 1 /\ held' # held
      <4>1. held' = [held EXCEPT ![p] = position + 1]
        BY <2>1, <3>3 DEF Kafka!Read
      <4>2. Holders(o)' \subseteq Holders(o) \cup {p}
        BY <1>a, <4>1 DEF Holders
      <4>3. Copies(o)' <= Copies(o) + 1
        BY <4>2, OneHolder
      <4>4. Behind = 0 /\ Behind' = 1
        BY <1>a, <3>1, <3>3
      <4> HIDE DEF Behind
      <4>5. QED
        BY <1>a, <1>b, <3>1, <4>3, <4>4
    <3>4. CASE ~(o = position + 1 /\ held' # held)
      <4>1. Holders(o)' \subseteq Holders(o)
        <5>1. CASE held' = held
          BY <5>1 DEF Holders
        <5>2. CASE held' # held
          <6>1. held' = [held EXCEPT ![p] = position + 1] /\ o # position + 1
            BY <2>1, <3>4, <5>2 DEF Kafka!Read
          <6>2. QED
            BY <1>a, <6>1 DEF Holders
        <5>3. QED
          BY <5>1, <5>2
      <4>2. QED
        BY <1>1, <3>1, <3>2, <4>1
    <3>5. QED
      BY <3>3, <3>4
  <2>2. CASE Kafka!Send(p)
    <3>1. /\ held[p] \in Kafka!Offset /\ UNCHANGED <<position, crashes, replays>>
          /\ held' = [held EXCEPT ![p] = 0] /\ handed' = [handed EXCEPT ![held[p]] = @ + 1]
      BY <1>a, <2>2 DEF Kafka!Send, Kafka!faults, Kafka!partition
    <3>2. CASE held[p] = o
      <4>1. p \in Holders(o) /\ Holders(o)' \subseteq Holders(o) \ {p}
        BY <1>a, <3>1, <3>2 DEF Holders
      <4>2. Copies(o)' + 1 <= Copies(o)
        BY <4>1, OneHolder
      <4>3. handed'[o] = handed[o] + 1
        BY <1>a, <3>1, <3>2
      <4>4. QED
        BY <1>a, <1>b, <3>1, <4>2, <4>3
    <3>3. CASE held[p] # o
      <4>1. Holders(o)' \subseteq Holders(o)
        BY <1>a, <3>1, <3>3 DEF Holders
      <4>2. Copies(o)' <= Copies(o)
        BY <4>1, OneHolder
      <4>3. handed'[o] = handed[o]
        BY <1>a, <3>1, <3>3
      <4>4. QED
        BY <1>a, <1>b, <3>1, <4>2, <4>3
    <3>4. QED
      BY <3>2, <3>3
  <2>3. CASE Kafka!Quit(p)
    <3>1. held' = [held EXCEPT ![p] = 0] /\ UNCHANGED <<handed, position, crashes, replays>>
      BY <2>3 DEF Kafka!Quit, Kafka!faults, Kafka!partition
    <3>2. Holders(o)' \subseteq Holders(o)
      BY <1>a, <3>1 DEF Holders
    <3>3. QED
      BY <1>1, <1>c, <3>1, <3>2
  <2>4. CASE Kafka!Assign(p)
    <3>1. UNCHANGED <<handed, position, held, crashes, replays>>
      BY <1>a, <2>4 DEF Kafka!Assign, Kafka!faults, Kafka!runs
    <3>2. QED
      BY <1>2, <3>1
  <2>5. CASE Kafka!Rebalance(p)
    <3>1. handed' = handed /\ held' = held /\ crashes' = crashes /\ replays' = replays + 1
      BY <1>a, <2>5 DEF Kafka!Rebalance, Kafka!runs
    <3>2. Holders(o)' \subseteq Holders(o)
      BY <3>1 DEF Holders
    <3>3. QED
      BY <1>3, <3>1, <3>2
  <2>6. CASE Kafka!Crash(p)
    <3>1. /\ handed' = handed /\ held' = [held EXCEPT ![p] = 0]
          /\ crashes' = crashes + 1 /\ replays' = replays
      BY <1>a, <2>6 DEF Kafka!Crash
    <3>2. Holders(o)' \subseteq Holders(o)
      BY <1>a, <3>1 DEF Holders
    <3>3. QED
      BY <1>3, <3>1, <3>2
  <2>7. QED
    BY <1>2, <1>4, <2>1, <2>2, <2>3, <2>4, <2>5, <2>6
       DEF Kafka!PollerStep, Kafka!Lead, Kafka!ReadFails, Kafka!BackOff, Kafka!GiveUp,
           Kafka!StepDown, Kafka!Close, Kafka!Take, Kafka!Finish, Kafka!partition, Kafka!runs,
           Kafka!faults
<1>5. QED
  BY <1>2, <1>4 DEF Kafka!Next, Kafka!vars, Kafka!Produce, Kafka!Commit, Kafka!partition,
                    Kafka!runs, Kafka!faults

-----------------------------------------------------------------------------

\* Every step of a leader is one of its Kafka dispatcher, or leaves that alone.
LEMMA StepIsKafka == [TransportNext]_transport => [Kafka!Next]_(Kafka!vars)
  BY DEF TransportNext, HTTPStep, KafkaStep, Rest, transport, kafkaVars, Kafka!vars,
         Kafka!partition, Kafka!runs, Kafka!pool, Kafka!faults

LEMMA StepInv == Inv /\ [TransportNext]_transport => Inv'
  BY StepIsKafka, OffsetsStep, ReaderStep, PoolStep, CountsStep, CoveredStep DEF Inv

\* However leaders change, overlap, crash and rebalance, an assignment is
\* handed to workers once, and once more for every fault that took back its
\* mark (KafkaDispatcher.Run and Close).
THEOREM HandedOnce == TransportSpec => []DuplicatesAreBounded
<1>1. TransportInit => Inv
  BY InitInv DEF TransportInit
<1>2. Inv => DuplicatesAreBounded
  <2> SUFFICES ASSUME Inv, NEW o \in Kafka!Offset PROVE handed[o] <= 1 + crashes + replays
    BY DEF DuplicatesAreBounded, Kafka!DuplicatesAreBounded
  <2>1. /\ handed[o] \in Nat /\ crashes \in Nat /\ replays \in Nat /\ Copies(o) \in Nat
        /\ handed[o] + Copies(o) <= crashes + replays + (IF o <= position THEN 1 ELSE 0)
    BY HoldersAreFinite DEF Inv, Counts, Covered
  <2>2. QED
    BY <2>1
<1>3. QED
  BY <1>1, <1>2, StepInv, PTL DEF TransportSpec

-----------------------------------------------------------------------------
(* What is lost. *)

\* What a poller's channel and workers can hold, and what Run holds besides.
Burst == 1 + Kafka!ChanCap + MaxConcurrency

Room == \A p \in Poller : Len(kafkaChan[p]) <= Kafka!ChanCap

\* The marked messages that will be executed only if a rebalance or a crash
\* takes their marks back.
Missing ==
    {o \in 1 .. marked \ (Malformed \cup done \cup Kafka!Held) :
        \A p \in Poller : o \notin Kafka!Queued(p) \cup Kafka!Executing(p)}

\* The step-downs that may still cost the message Run holds or reads next.
Pending == {p \in Poller : kafkaCancelled[p] /\ at[p] \in {"read", "backoff", "send"}}

Cost == crashes * Burst

LossInv == Cardinality(Missing) + Cardinality(Pending) <= stops + Cost

LEMMA CardinalityIsOne == \A S : Kafka!Cardinality(S) = Cardinality(S)
  BY DEF Kafka!Cardinality, Cardinality

\* What crashes cost in all, and that one more costs a Burst more.
LEMMA CostGrows ==
  ASSUME Counts
  PROVE  /\ Burst \in Nat /\ Cost \in Nat
         /\ UNCHANGED crashes => Cost' = Cost
         /\ crashes' = crashes + 1 => Cost' = Cost + Burst
<1>1. Burst \in Nat /\ crashes \in Nat
  BY DEF Burst, Kafka!ChanCap, Counts
<1>2. \A c, k \in Nat : c * k \in Nat /\ (c + 1) * k = c * k + k
  OBVIOUS
<1>3. QED
  BY <1>1, <1>2 DEF Cost, Burst

\* A part of a set of offsets is no larger than the set.
LEMMA PartIsSmaller ==
  ASSUME NEW S \in SUBSET Nat, NEW n \in Nat, S \subseteq 0 .. n, NEW T, T \subseteq S
  PROVE  /\ IsFiniteSet(S) /\ IsFiniteSet(T)
         /\ Cardinality(S) \in Nat /\ Cardinality(T) \in Nat
         /\ Cardinality(T) <= Cardinality(S)
<1>1. IsFiniteSet(0 .. n)
  BY FS_Interval
<1>2. IsFiniteSet(S)
  BY <1>1, FS_Subset
<1>3. IsFiniteSet(T) /\ Cardinality(T) <= Cardinality(S)
  BY <1>2, FS_Subset
<1>4. QED
  BY <1>2, <1>3, FS_CardinalityType

\* A set of offsets grows by no more than what is added.
LEMMA JoinIsBounded ==
  ASSUME NEW S, IsFiniteSet(S), NEW T, IsFiniteSet(T), NEW a \in Nat, NEW b \in Nat,
         Cardinality(S) <= a, Cardinality(T) <= b
  PROVE  IsFiniteSet(S \cup T) /\ Cardinality(S \cup T) <= a + b
<1>1. /\ IsFiniteSet(S \cup T) /\ IsFiniteSet(S \cap T)
      /\ Cardinality(S \cup T) = Cardinality(S) + Cardinality(T) - Cardinality(S \cap T)
  BY FS_Union, FS_Intersection
<1>2. Cardinality(S) \in Nat /\ Cardinality(T) \in Nat /\ Cardinality(S \cap T) \in Nat
  BY <1>1, FS_CardinalityType
<1>3. QED
  BY <1>1, <1>2

\* Appending keeps what is there.
LEMMA Appended ==
  ASSUME NEW S, NEW s \in Seq(S), NEW x \in S
  PROVE  /\ Len(s) + 1 \in DOMAIN Append(s, x) /\ Append(s, x)[Len(s) + 1] = x
         /\ \A i \in DOMAIN s : i \in DOMAIN Append(s, x) /\ Append(s, x)[i] = s[i]
  OBVIOUS

\* A channel holds no more different messages than it is long.
LEMMA QueuedSize ==
  ASSUME Pool, NEW p \in Poller
  PROVE  /\ IsFiniteSet(Kafka!Queued(p)) /\ Kafka!Queued(p) \subseteq Kafka!Offset
         /\ Cardinality(Kafka!Queued(p)) <= Len(kafkaChan[p])
<1> DEFINE c == kafkaChan[p]
           Q == Kafka!Queued(p)
<1>1. c \in Seq(Kafka!Offset) /\ Len(c) \in Nat /\ DOMAIN c = 1 .. Len(c)
  BY DEF Pool
<1>2. Q = {c[i] : i \in 1 .. Len(c)}
  BY <1>1 DEF Kafka!Queued
<1>3. c \in [1 .. Len(c) -> Q]
  BY <1>1, <1>2
<1>4. c \in Surjection(1 .. Len(c), Q)
  BY <1>2, <1>3, Fun_IsSurj
<1>5. ExistsSurjection(1 .. Len(c), Q)
  BY <1>4 DEF ExistsSurjection
<1>6. Cardinality(Q) <= Len(c)
  BY <1>1, <1>5, FS_SurjCardinalityBound
<1>7. Q \subseteq Kafka!Offset
  BY <1>1, <1>2
<1>8. IsFiniteSet(Q)
  <2>1. IsFiniteSet(Kafka!Offset)
    BY FS_Interval DEF Kafka!Offset
  <2>2. QED
    BY <1>7, <2>1, FS_Subset
<1>9. QED
  BY <1>6, <1>7, <1>8

\* A poller executes no more messages than it has workers.
LEMMA ExecutingSize ==
  ASSUME Pool, NEW p \in Poller
  PROVE  /\ IsFiniteSet(Kafka!Executing(p))
         /\ Cardinality(Kafka!Executing(p)) <= MaxConcurrency
<1> DEFINE b == executing[p]
           Q == Kafka!Executing(p)
<1>1. b \in [1 .. MaxConcurrency -> Kafka!Offset \cup {0}]
  BY DEF Pool, Kafka!Worker
<1>2. Q = {b[i] : i \in 1 .. MaxConcurrency}
  BY DEF Kafka!Executing, Kafka!Worker
<1>3. b \in [1 .. MaxConcurrency -> Q]
  BY <1>1, <1>2
<1>4. b \in Surjection(1 .. MaxConcurrency, Q)
  BY <1>2, <1>3, Fun_IsSurj
<1>5. IsFiniteSet(1 .. MaxConcurrency) /\ Cardinality(1 .. MaxConcurrency) = MaxConcurrency
  BY FS_Interval
<1>6. QED
  BY <1>4, <1>5, FS_Surjection

\* No channel ever holds more than it has room for.
LEMMA RoomStep == Inv /\ Room /\ [Kafka!Next]_(Kafka!vars) => Room'
<1> SUFFICES ASSUME Inv, Room, [Kafka!Next]_(Kafka!vars), NEW q \in Poller
             PROVE  Len(kafkaChan'[q]) <= Kafka!ChanCap
  BY DEF Room, Kafka!ChanCap
<1> DEFINE Goal == Len(kafkaChan'[q]) <= Kafka!ChanCap
<1>a. /\ kafkaChan \in [Poller -> Seq(Kafka!Offset)]
      /\ Len(kafkaChan[q]) <= Kafka!ChanCap /\ Kafka!ChanCap \in Nat
  BY DEF Inv, Pool, Room, Kafka!ChanCap
<1>1. ASSUME UNCHANGED kafkaChan PROVE Goal
  BY <1>a, <1>1
<1>2. ASSUME NEW p \in Poller, Kafka!PollerStep(p) PROVE Goal
  <2>1. CASE Kafka!Send(p)
    <3>1. /\ held[p] \in Kafka!Offset /\ kafkaChan' = [kafkaChan EXCEPT ![p] = Append(@, held[p])]
          /\ Len(kafkaChan[p]) < Kafka!ChanCap
      BY <2>1 DEF Inv, Reader, Kafka!Send
    <3>2. CASE q = p
      BY <1>a, <3>1, <3>2
    <3>3. CASE q # p
      BY <1>a, <3>1, <3>3
    <3>4. QED
      BY <3>2, <3>3
  <2>2. CASE Kafka!Crash(p)
    <3>1. kafkaChan' = [kafkaChan EXCEPT ![p] = << >>]
      BY <2>2 DEF Kafka!Crash
    <3>2. QED
      BY <1>a, <3>1
  <2>3. ASSUME NEW w \in Kafka!Worker, Kafka!Take(p, w) PROVE Goal
    <3>1. kafkaChan[p] # << >> /\ kafkaChan' = [kafkaChan EXCEPT ![p] = Tail(@)]
      BY <2>3 DEF Kafka!Take
    <3>2. CASE q = p
      BY <1>a, <3>1, <3>2
    <3>3. CASE q # p
      BY <1>a, <3>1, <3>3
    <3>4. QED
      BY <3>2, <3>3
  <2>4. QED
    BY <1>1, <1>2, <2>1, <2>2, <2>3
       DEF Kafka!PollerStep, Kafka!Lead, Kafka!Read, Kafka!ReadFails, Kafka!BackOff, Kafka!GiveUp,
           Kafka!Quit, Kafka!StepDown, Kafka!Close, Kafka!Assign, Kafka!Rebalance, Kafka!Finish,
           Kafka!pool
<1>3. QED
  BY <1>1, <1>2 DEF Kafka!Next, Kafka!vars, Kafka!Produce, Kafka!Commit, Kafka!pool

\* Only Quit and Crash give a marked message up: Quit the one that Run holds, a
\* crash that one and what the poller's channel and workers hold.
LEMMA MissingStep ==
  ASSUME Inv, [Kafka!Next]_(Kafka!vars)
  PROVE  \/ Missing' \subseteq Missing
         \/ \E p \in Poller : Kafka!Quit(p) /\ Missing' \subseteq Missing \cup {held[p]}
         \/ \E p \in Poller : /\ Kafka!Crash(p)
                              /\ Missing' \subseteq (Missing \cup {held[p]})
                                                    \cup (Kafka!Queued(p) \cup Kafka!Executing(p))
<1> DEFINE Goal == \/ Missing' \subseteq Missing
                   \/ \E p \in Poller : Kafka!Quit(p) /\ Missing' \subseteq Missing \cup {held[p]}
                   \/ \E p \in Poller : /\ Kafka!Crash(p)
                              /\ Missing' \subseteq (Missing \cup {held[p]})
                                                    \cup (Kafka!Queued(p) \cup Kafka!Executing(p))
<1>a. /\ marked \in Nat /\ committed \in Nat /\ committed <= marked /\ position = marked
      /\ held \in [Poller -> Kafka!Offset \cup {0}]
      /\ \A p \in Poller : at[p] = "send" <=> held[p] # 0
      /\ kafkaChan \in [Poller -> Seq(Kafka!Offset)]
      /\ executing \in [Poller -> [Kafka!Worker -> Kafka!Offset \cup {0}]]
  BY DEF Inv, Offsets, Reader, Pool, Kafka!Offset
<1>b. ASSUME UNCHANGED <<kafkaChan, executing, done, held>>, marked' \in {marked, committed}
      PROVE  Missing' \subseteq Missing
  BY <1>a, <1>b DEF Missing, Kafka!Queued, Kafka!Executing, Kafka!Held
<1>1. ASSUME NEW p \in Poller, Kafka!PollerStep(p) PROVE Goal
  <2>1. CASE Kafka!Read(p)
    <3>1. /\ marked' = marked + 1 /\ UNCHANGED <<kafkaChan, executing, done>>
          /\ held[p] = 0
          /\ \/ marked + 1 \in Malformed /\ held' = held
             \/ held' = [held EXCEPT ![p] = marked + 1]
      BY <1>a, <2>1 DEF Kafka!Read, Kafka!pool
    <3>2. /\ Kafka!Held \subseteq Kafka!Held' \cup {0}
          /\ marked + 1 \in Malformed \cup Kafka!Held'
      BY <1>a, <3>1 DEF Kafka!Held
    <3>3. \A q \in Poller : Kafka!Queued(q)' = Kafka!Queued(q) /\ Kafka!Executing(q)' = Kafka!Executing(q)
      BY <3>1 DEF Kafka!Queued, Kafka!Executing
    <3>4. 1 .. marked' = 1 .. marked \cup {marked + 1}
      BY <1>a, <3>1
    <3>5. QED
      BY <1>a, <3>1, <3>2, <3>3, <3>4 DEF Missing
  <2>2. CASE Kafka!Send(p)
    <3>1. /\ marked' = marked /\ done' = done /\ executing' = executing
          /\ held' = [held EXCEPT ![p] = 0] /\ held[p] \in Kafka!Offset
          /\ kafkaChan' = [kafkaChan EXCEPT ![p] = Append(@, held[p])]
      BY <1>a, <2>2 DEF Kafka!Send, Kafka!partition
    <3>2. kafkaChan'[p] = Append(kafkaChan[p], held[p]) /\ kafkaChan[p] \in Seq(Kafka!Offset)
      BY <1>a, <3>1
    <3>3. Kafka!Queued(p) \subseteq Kafka!Queued(p)' /\ held[p] \in Kafka!Queued(p)'
      BY <3>1, <3>2, Appended DEF Kafka!Queued
    <3>4. \A q \in Poller : q # p => Kafka!Queued(q)' = Kafka!Queued(q)
      BY <1>a, <3>1 DEF Kafka!Queued
    <3>5. \A q \in Poller : Kafka!Executing(q)' = Kafka!Executing(q)
      BY <3>1 DEF Kafka!Executing
    <3>6. Kafka!Held \subseteq Kafka!Held' \cup {held[p]}
      BY <1>a, <3>1 DEF Kafka!Held
    <3>7. SUFFICES ASSUME NEW o \in Missing' PROVE o \in Missing
      OBVIOUS
    <3>a. /\ o \in 1 .. marked /\ o \notin Malformed /\ o \notin done /\ o \notin Kafka!Held'
          /\ \A q \in Poller : o \notin Kafka!Queued(q)' /\ o \notin Kafka!Executing(q)'
      BY <3>1 DEF Missing
    <3>b. o # held[p] /\ o \notin Kafka!Held
      BY <3>3, <3>6, <3>a
    <3>c. \A q \in Poller : o \notin Kafka!Queued(q) /\ o \notin Kafka!Executing(q)
      BY <3>3, <3>4, <3>5, <3>a
    <3>d. QED
      BY <3>a, <3>b, <3>c DEF Missing
  <2>3. CASE Kafka!Quit(p)
    <3>1. /\ UNCHANGED <<marked, done, kafkaChan, executing>>
          /\ held' = [held EXCEPT ![p] = 0]
      BY <2>3 DEF Kafka!Quit, Kafka!partition, Kafka!pool
    <3>2. \A q \in Poller : Kafka!Queued(q)' = Kafka!Queued(q) /\ Kafka!Executing(q)' = Kafka!Executing(q)
      BY <3>1 DEF Kafka!Queued, Kafka!Executing
    <3>3. Kafka!Held \subseteq Kafka!Held' \cup {held[p]}
      BY <1>a, <3>1 DEF Kafka!Held
    <3>4. Missing' \subseteq Missing \cup {held[p]}
      BY <3>1, <3>2, <3>3 DEF Missing
    <3>5. QED
      BY <2>3, <3>4
  <2>4. CASE Kafka!Crash(p)
    <3>1. /\ done' = done /\ marked' \in {marked, committed}
          /\ held' = [held EXCEPT ![p] = 0]
          /\ \A q \in Poller : q # p => kafkaChan'[q] = kafkaChan[q] /\ executing'[q] = executing[q]
      BY <2>4, <1>a DEF Kafka!Crash
    <3>2. \A q \in Poller : q # p => Kafka!Queued(q)' = Kafka!Queued(q) /\ Kafka!Executing(q)' = Kafka!Executing(q)
      BY <3>1 DEF Kafka!Queued, Kafka!Executing
    <3>3. Kafka!Held \subseteq Kafka!Held' \cup {held[p]}
      BY <1>a, <3>1 DEF Kafka!Held
    <3>4. 1 .. marked' \subseteq 1 .. marked
      BY <1>a, <3>1
    <3>5. Missing' \subseteq (Missing \cup {held[p]}) \cup (Kafka!Queued(p) \cup Kafka!Executing(p))
      BY <3>1, <3>2, <3>3, <3>4 DEF Missing
    <3>6. QED
      BY <2>4, <3>5
  <2>5. ASSUME NEW w \in Kafka!Worker, Kafka!Take(p, w) PROVE Goal
    <3>1. /\ kafkaChan[p] # << >> /\ UNCHANGED <<marked, held, done>> /\ executing[p][w] = 0
          /\ executing' = [executing EXCEPT ![p][w] = Head(kafkaChan[p])]
          /\ kafkaChan' = [kafkaChan EXCEPT ![p] = Tail(@)]
      BY <2>5 DEF Kafka!Take, Kafka!partition, Kafka!runs
    <3>2. /\ \A v \in Kafka!Worker : executing'[p][v] = IF v = w THEN Head(kafkaChan[p]) ELSE executing[p][v]
          /\ \A q \in Poller : q # p => executing'[q] = executing[q] /\ kafkaChan'[q] = kafkaChan[q]
      BY <1>a, <3>1
    <3>3. Head(kafkaChan[p]) \in Kafka!Executing(p)' /\ Kafka!Executing(p) \subseteq Kafka!Executing(p)' \cup {0}
      BY <3>1, <3>2 DEF Kafka!Executing
    <3>4. Kafka!Queued(p) \subseteq Kafka!Queued(p)' \cup Kafka!Executing(p)'
      <4>1. SUFFICES ASSUME NEW i \in DOMAIN kafkaChan[p]
                     PROVE  kafkaChan[p][i] \in Kafka!Queued(p)' \cup Kafka!Executing(p)'
        BY DEF Kafka!Queued
      <4>2. CASE i = 1
        BY <1>a, <3>3, <4>2
      <4>3. CASE i # 1
        <5>1. i - 1 \in DOMAIN Tail(kafkaChan[p]) /\ Tail(kafkaChan[p])[i - 1] = kafkaChan[p][i]
          BY <1>a, <3>1, <4>3
        <5>2. kafkaChan'[p] = Tail(kafkaChan[p])
          BY <1>a, <3>1
        <5>3. QED
          BY <5>1, <5>2 DEF Kafka!Queued
      <4>4. QED
        BY <4>2, <4>3
    <3>5. \A q \in Poller : q # p => Kafka!Queued(q)' = Kafka!Queued(q) /\ Kafka!Executing(q)' = Kafka!Executing(q)
      BY <3>2 DEF Kafka!Queued, Kafka!Executing
    <3>6. Kafka!Held' = Kafka!Held /\ 0 \notin 1 .. marked
      BY <1>a, <3>1 DEF Kafka!Held
    <3>7. SUFFICES ASSUME NEW o \in Missing' PROVE o \in Missing
      OBVIOUS
    <3>a. /\ o \in 1 .. marked /\ o \notin Malformed /\ o \notin done /\ o \notin Kafka!Held'
          /\ \A q \in Poller : o \notin Kafka!Queued(q)' /\ o \notin Kafka!Executing(q)'
      BY <3>1 DEF Missing
    <3>b. o # 0 /\ o \notin Kafka!Held
      BY <3>6, <3>a
    <3>c. \A q \in Poller : o \notin Kafka!Queued(q) /\ o \notin Kafka!Executing(q)
      BY <3>3, <3>4, <3>5, <3>a, <3>b
    <3>d. QED
      BY <3>a, <3>b, <3>c DEF Missing
  <2>6. ASSUME NEW w \in Kafka!Worker, Kafka!Finish(p, w) PROVE Goal
    <3>1. /\ UNCHANGED <<marked, held, kafkaChan>>
          /\ executing' = [executing EXCEPT ![p][w] = 0] /\ done' = done \cup {executing[p][w]}
      BY <2>6 DEF Kafka!Finish, Kafka!partition, Kafka!runs
    <3>2. \A q \in Poller : \A v \in Kafka!Worker : executing'[q][v] # executing[q][v] => q = p /\ v = w
      BY <1>a, <3>1
    <3>3. \A q \in Poller : Kafka!Executing(q) \subseteq Kafka!Executing(q)' \cup {executing[p][w]}
      BY <3>2 DEF Kafka!Executing
    <3>4. Kafka!Held' = Kafka!Held /\ \A q \in Poller : Kafka!Queued(q)' = Kafka!Queued(q)
      BY <3>1 DEF Kafka!Held, Kafka!Queued
    <3>5. SUFFICES ASSUME NEW o \in Missing' PROVE o \in Missing
      OBVIOUS
    <3>a. /\ o \in 1 .. marked /\ o \notin Malformed /\ o \notin done /\ o \notin Kafka!Held'
          /\ \A q \in Poller : o \notin Kafka!Queued(q)' /\ o \notin Kafka!Executing(q)'
      BY <3>1 DEF Missing
    <3>b. o # executing[p][w] /\ o \notin Kafka!Held
      <4>1. o \notin done'
        BY DEF Missing
      <4>2. QED
        BY <3>1, <3>4, <3>a, <4>1
    <3>c. \A q \in Poller : o \notin Kafka!Queued(q) /\ o \notin Kafka!Executing(q)
      BY <3>3, <3>4, <3>a, <3>b
    <3>d. QED
      BY <3>a, <3>b, <3>c DEF Missing
  <2>7. CASE Kafka!Lead(p) \/ Kafka!ReadFails(p) \/ Kafka!BackOff(p) \/ Kafka!GiveUp(p) \/ Kafka!StepDown(p)
    BY <1>b, <2>7 DEF Kafka!Lead, Kafka!ReadFails, Kafka!BackOff, Kafka!GiveUp, Kafka!StepDown,
                      Kafka!partition, Kafka!pool
  <2>8. CASE Kafka!Close(p) \/ Kafka!Assign(p) \/ Kafka!Rebalance(p)
    BY <1>b, <2>8 DEF Kafka!Close, Kafka!Assign, Kafka!Rebalance, Kafka!runs, Kafka!pool
  <2>9. QED
    BY <1>1, <2>1, <2>2, <2>3, <2>4, <2>5, <2>6, <2>7, <2>8 DEF Kafka!PollerStep
<1>2. CASE Kafka!Produce \/ Kafka!Commit \/ UNCHANGED Kafka!vars
  BY <1>b, <1>2 DEF Kafka!Produce, Kafka!Commit, Kafka!vars, Kafka!partition, Kafka!runs, Kafka!pool
<1>3. QED
  BY <1>1, <1>2 DEF Kafka!Next

\* Only a step-down adds to those that may still cost something, and one that
\* has cost its message counts no more.
LEMMA PendingStep ==
  ASSUME Inv, [Kafka!Next]_(Kafka!vars)
  PROVE  /\ \A p \in Poller : Kafka!Quit(p) => p \in Pending /\ Pending' \subseteq Pending \ {p}
         /\ \/ Pending' \subseteq Pending
            \/ \E p \in Poller : Kafka!StepDown(p) /\ Pending' \subseteq Pending \cup {p}
<1>a. /\ at \in [Poller -> {"closed", "read", "backoff", "send", "exited"}]
      /\ kafkaCancelled \in [Poller -> BOOLEAN]
  BY DEF Inv, Reader
<1>1. ASSUME NEW p \in Poller, Kafka!Quit(p) PROVE p \in Pending /\ Pending' \subseteq Pending \ {p}
  BY <1>a, <1>1 DEF Kafka!Quit, Pending
<1>2. ASSUME NEW p \in Poller, Kafka!PollerStep(p)
      PROVE  \/ Pending' \subseteq Pending
             \/ Kafka!StepDown(p) /\ Pending' \subseteq Pending \cup {p}
  <2>1. CASE Kafka!Lead(p)
    BY <1>a, <2>1 DEF Kafka!Lead, Pending
  <2>2. CASE Kafka!Read(p)
    BY <1>a, <2>2 DEF Kafka!Read, Pending
  <2>3. CASE Kafka!ReadFails(p) \/ Kafka!BackOff(p) \/ Kafka!GiveUp(p)
    BY <1>a, <2>3 DEF Kafka!ReadFails, Kafka!BackOff, Kafka!GiveUp, Pending
  <2>4. CASE Kafka!Send(p)
    BY <1>a, <2>4 DEF Kafka!Send, Pending
  <2>5. CASE Kafka!Quit(p)
    BY <1>1, <2>5
  <2>6. CASE Kafka!StepDown(p)
    BY <1>a, <2>6 DEF Kafka!StepDown, Pending
  <2>7. CASE Kafka!Close(p) \/ Kafka!Crash(p)
    BY <1>a, <2>7 DEF Kafka!Close, Kafka!Crash, Pending
  <2>8. CASE Kafka!Assign(p) \/ Kafka!Rebalance(p)
    BY <2>8 DEF Kafka!Assign, Kafka!Rebalance, Kafka!runs, Pending
  <2>9. ASSUME NEW w, Kafka!Take(p, w) \/ Kafka!Finish(p, w) PROVE Pending' \subseteq Pending
    BY <2>9 DEF Kafka!Take, Kafka!Finish, Kafka!runs, Pending
  <2>10. QED
    BY <1>2, <2>1, <2>2, <2>3, <2>4, <2>5, <2>6, <2>7, <2>8, <2>9 DEF Kafka!PollerStep
<1>3. ASSUME Kafka!Produce \/ Kafka!Commit \/ UNCHANGED Kafka!vars
      PROVE  Pending' \subseteq Pending
  BY <1>3 DEF Kafka!Produce, Kafka!Commit, Kafka!vars, Kafka!runs, Pending
<1>4. QED
  BY <1>1, <1>2, <1>3 DEF Kafka!Next

\* What a step pays: a step-down one, a crash a burst.
LEMMA Paid ==
  ASSUME Inv, [Kafka!Next]_(Kafka!vars)
  PROVE  /\ stops \in Nat /\ Cost \in Nat /\ Burst \in Nat
         /\ stops' \in Nat /\ stops <= stops' /\ Cost' \in Nat /\ Cost <= Cost'
         /\ \A p \in Poller : Kafka!StepDown(p) => stops' = stops + 1
         /\ \A p \in Poller : Kafka!Crash(p) => Cost' = Cost + Burst
<1>1. /\ stops \in Nat /\ Cost \in Nat /\ Burst \in Nat
      /\ UNCHANGED crashes => Cost' = Cost
      /\ crashes' = crashes + 1 => Cost' = Cost + Burst
  BY CostGrows DEF Inv, Counts
<1>2. /\ stops' = stops \/ stops' = stops + 1
      /\ UNCHANGED crashes \/ crashes' = crashes + 1
  BY DEF Kafka!Next, Kafka!PollerStep, Kafka!Produce, Kafka!Commit, Kafka!Lead, Kafka!Read,
         Kafka!ReadFails, Kafka!BackOff, Kafka!GiveUp, Kafka!Send, Kafka!Quit, Kafka!StepDown,
         Kafka!Close, Kafka!Assign, Kafka!Rebalance, Kafka!Crash, Kafka!Take, Kafka!Finish,
         Kafka!vars, Kafka!faults
<1>3. stops' \in Nat /\ stops <= stops'
  <2>1. CASE stops' = stops
    BY <1>1, <2>1
  <2>2. CASE stops' = stops + 1
    BY <1>1, <2>2
  <2>3. QED
    BY <1>2, <2>1, <2>2
<1>4. Cost' \in Nat /\ Cost <= Cost'
  <2>1. CASE Cost' = Cost
    BY <1>1, <2>1
  <2>2. CASE Cost' = Cost + Burst
    BY <1>1, <2>2
  <2>3. QED
    BY <1>1, <1>2, <2>1, <2>2
<1>5. \A p \in Poller : (Kafka!StepDown(p) => stops' = stops + 1)
                        /\ (Kafka!Crash(p) => Cost' = Cost + Burst)
  BY <1>1 DEF Kafka!StepDown, Kafka!Crash
<1>6. QED
  BY <1>1, <1>3, <1>4, <1>5

\* Every step keeps the books: what is missing is paid for by a step-down, or
\* by a crash.
LEMMA LossStep == Inv /\ Room /\ LossInv /\ [Kafka!Next]_(Kafka!vars) => LossInv'
<1> SUFFICES ASSUME Inv, Room, LossInv, [Kafka!Next]_(Kafka!vars) PROVE LossInv'
  OBVIOUS
<1> DEFINE M == Missing
           P == Pending
<1>a. /\ stops \in Nat /\ Cost \in Nat /\ Burst \in Nat
      /\ stops' \in Nat /\ stops <= stops' /\ Cost' \in Nat /\ Cost <= Cost'
      /\ \A p \in Poller : Kafka!StepDown(p) => stops' = stops + 1
      /\ \A p \in Poller : Kafka!Crash(p) => Cost' = Cost + Burst
  BY Paid
<1>b. IsFiniteSet(M) /\ IsFiniteSet(P)
  <2>1. marked \in Nat /\ M \in SUBSET Nat /\ M \subseteq 0 .. marked
    BY DEF Missing, Inv, Offsets
  <2>2. IsFiniteSet(Poller) /\ P \subseteq Poller
    BY FiniteIsFinite DEF Pending
  <2>3. QED
    BY <2>1, <2>2, PartIsSmaller, FS_Subset
<1>c. Cardinality(M) + Cardinality(P) <= stops + Cost
  BY DEF LossInv
<1>d. Cardinality(M) \in Nat /\ Cardinality(P) \in Nat
  BY <1>b, FS_CardinalityType
<1>e. LossInv' <=> Cardinality(M') + Cardinality(P') <= stops' + Cost'
  BY DEF LossInv
<1>f. /\ \A p \in Poller : Kafka!Quit(p) => p \in P /\ P' \subseteq P \ {p}
      /\ P' \subseteq P \/ \E p \in Poller : Kafka!StepDown(p) /\ P' \subseteq P \cup {p}
  BY PendingStep
<1>g. \/ M' \subseteq M
      \/ \E p \in Poller : Kafka!Quit(p) /\ M' \subseteq M \cup {held[p]}
      \/ \E p \in Poller : /\ Kafka!Crash(p)
                           /\ M' \subseteq (M \cup {held[p]}) \cup (Kafka!Queued(p) \cup Kafka!Executing(p))
  BY MissingStep
<1>h. \A p \in Poller : /\ IsFiniteSet(Kafka!Queued(p) \cup Kafka!Executing(p))
                        /\ Cardinality(Kafka!Queued(p) \cup Kafka!Executing(p)) <= Kafka!ChanCap + MaxConcurrency
  <2> TAKE p \in Poller
  <2>1. IsFiniteSet(Kafka!Queued(p)) /\ Cardinality(Kafka!Queued(p)) <= Kafka!ChanCap
    <3>1. /\ IsFiniteSet(Kafka!Queued(p))
          /\ Cardinality(Kafka!Queued(p)) <= Len(kafkaChan[p])
          /\ Len(kafkaChan[p]) \in Nat /\ Len(kafkaChan[p]) <= Kafka!ChanCap
      BY QueuedSize DEF Inv, Room, Pool
    <3>2. Cardinality(Kafka!Queued(p)) \in Nat /\ Kafka!ChanCap \in Nat
      BY <3>1, FS_CardinalityType DEF Kafka!ChanCap
    <3>3. QED
      BY <3>1, <3>2
  <2>2. IsFiniteSet(Kafka!Executing(p)) /\ Cardinality(Kafka!Executing(p)) <= MaxConcurrency
    BY ExecutingSize DEF Inv
  <2>3. Kafka!ChanCap \in Nat /\ MaxConcurrency \in Nat
    BY DEF Kafka!ChanCap
  <2>4. QED
    BY <2>1, <2>2, <2>3, JoinIsBounded
<1> HIDE DEF M, P
<1>1. ASSUME NEW p \in Poller, Kafka!Quit(p), M' \subseteq M \cup {held[p]}
      PROVE  LossInv'
  <2>1. Cardinality(M') \in Nat /\ Cardinality(M') <= Cardinality(M) + 1
    BY <1>1, <1>b, SizeChanges
  <2>2. Cardinality(P') \in Nat /\ Cardinality(P') + 1 <= Cardinality(P)
    BY <1>1, <1>b, <1>f, SizeChanges
  <2>3. Cardinality(M') + Cardinality(P') <= stops' + Cost'
    BY <1>a, <1>c, <1>d, <2>1, <2>2
  <2>4. QED
    BY <1>e, <2>3
<1>2. ASSUME NEW p \in Poller, Kafka!Crash(p),
             M' \subseteq (M \cup {held[p]}) \cup (Kafka!Queued(p) \cup Kafka!Executing(p))
      PROVE  LossInv'
  <2> DEFINE B == Kafka!Queued(p) \cup Kafka!Executing(p)
             J == (M \cup {held[p]}) \cup B
  <2>1. Cardinality(P') \in Nat /\ Cardinality(P') <= Cardinality(P)
    <3>1. ~ \E q \in Poller : Kafka!StepDown(q)
      <4>1. crashes' = crashes + 1 /\ crashes \in Nat
        BY <1>2 DEF Kafka!Crash, Inv, Counts
      <4>2. \A q \in Poller : Kafka!StepDown(q) => crashes' = crashes
        BY DEF Kafka!StepDown
      <4>3. QED
        BY <4>1, <4>2
    <3>2. P' \subseteq P
      BY <1>f, <3>1
    <3>3. QED
      BY <1>b, <3>2, SizeChanges
  <2>2. IsFiniteSet(M \cup {held[p]}) /\ Cardinality(M \cup {held[p]}) <= Cardinality(M) + 1
    BY <1>b, FS_AddElement, SizeChanges
  <2>3. IsFiniteSet(B) /\ Cardinality(B) <= Kafka!ChanCap + MaxConcurrency
    BY <1>h
  <2>4. Cardinality(M) + 1 \in Nat /\ Kafka!ChanCap + MaxConcurrency \in Nat
    BY <1>d DEF Kafka!ChanCap
  <2> HIDE DEF B
  <2>5. /\ IsFiniteSet(J)
        /\ Cardinality(J) <= (Cardinality(M) + 1) + (Kafka!ChanCap + MaxConcurrency)
    BY <2>2, <2>3, <2>4, JoinIsBounded
  <2>6. M' \subseteq J
    BY <1>2 DEF B
  <2> HIDE DEF J
  <2>7. Cardinality(M') \in Nat /\ Cardinality(J) \in Nat /\ Cardinality(M') <= Cardinality(J)
    BY <2>5, <2>6, SizeChanges
  <2>8. Cardinality(M') <= Cardinality(M) + Burst
    BY <1>d, <2>4, <2>5, <2>7 DEF Burst, Kafka!ChanCap
  <2>9. Cost' = Cost + Burst
    BY <1>a, <1>2
  <2>10. Cardinality(M') + Cardinality(P') <= stops' + Cost'
    BY <1>a, <1>c, <1>d, <2>1, <2>7, <2>8, <2>9
  <2>11. QED
    BY <1>e, <2>10
<1>3. CASE M' \subseteq M
  <2>1. Cardinality(M') \in Nat /\ Cardinality(M') <= Cardinality(M)
    BY <1>3, <1>b, SizeChanges
  <2>2. CASE P' \subseteq P
    <3>1. Cardinality(P') \in Nat /\ Cardinality(P') <= Cardinality(P)
      BY <2>2, <1>b, SizeChanges
    <3>2. Cardinality(M') + Cardinality(P') <= stops' + Cost'
      BY <1>a, <1>c, <1>d, <2>1, <3>1
    <3>3. QED
      BY <1>e, <3>2
  <2>3. ASSUME NEW p \in Poller, Kafka!StepDown(p), P' \subseteq P \cup {p} PROVE LossInv'
    <3>1. Cardinality(P') \in Nat /\ Cardinality(P') <= Cardinality(P) + 1
      BY <2>3, <1>b, SizeChanges
    <3>2. stops' = stops + 1
      BY <1>a, <2>3
    <3>3. Cardinality(M') + Cardinality(P') <= stops' + Cost'
      BY <1>a, <1>c, <1>d, <2>1, <3>1, <3>2
    <3>4. QED
      BY <1>e, <3>3
  <2>4. QED
    BY <1>f, <2>2, <2>3
<1>4. QED
  BY <1>1, <1>2, <1>3, <1>g

\* A step-down costs at most the assignment that waits for room, a crash that
\* one and what the poller's channel and workers hold; nothing else is lost, for
\* any number of pollers, workers, messages, rebalances and changes of leader,
\* overlapping or not (ReadMessage, the send in Run, and Close).
THEOREM LossBounded == TransportSpec => []LossIsBounded
<1>1. TransportInit => Inv /\ Room /\ LossInv
  <2> SUFFICES ASSUME TransportInit PROVE Inv /\ Room /\ LossInv
    OBVIOUS
  <2>1. Kafka!Init
    BY DEF TransportInit
  <2>2. Inv
    BY <2>1, InitInv
  <2>3. Room
    BY <2>1 DEF Kafka!Init, Room, Kafka!ChanCap
  <2>4. Missing = {} /\ Pending = {} /\ stops = 0
    BY <2>1 DEF Kafka!Init, Missing, Pending
  <2>5. LossInv
    BY <2>2, <2>4, FS_EmptySet, CostGrows DEF LossInv, Inv
  <2>6. QED
    BY <2>2, <2>3, <2>5
<1>2. Inv /\ Room /\ LossInv /\ [TransportNext]_transport => (Room /\ LossInv)'
  BY StepIsKafka, RoomStep, LossStep
<1>3. Inv /\ LossInv => LossIsBounded
  <2> SUFFICES ASSUME Inv, LossInv PROVE LossIsBounded
    OBVIOUS
  <2>1. /\ marked \in Nat /\ committed \in Nat /\ committed <= marked
        /\ stops \in Nat /\ Cost \in Nat
    BY CostGrows DEF Inv, Offsets, Counts
  <2>2. Kafka!Gone \subseteq Missing
    BY <2>1 DEF Kafka!Gone, Missing
  <2>3. Missing \in SUBSET Nat /\ Missing \subseteq 0 .. marked
    BY <2>1 DEF Missing
  <2>4. /\ Cardinality(Kafka!Gone) <= Cardinality(Missing)
        /\ Cardinality(Kafka!Gone) \in Nat /\ Cardinality(Missing) \in Nat
    BY <2>1, <2>2, <2>3, PartIsSmaller
  <2>5. Cardinality(Pending) \in Nat
    <3>1. IsFiniteSet(Poller) /\ Pending \subseteq Poller
      BY FiniteIsFinite DEF Pending
    <3>2. QED
      BY <3>1, FS_Subset, FS_CardinalityType
  <2>6. Cardinality(Kafka!Gone) <= stops + Cost
    BY <2>1, <2>4, <2>5 DEF LossInv
  <2>7. QED
    BY <2>6, CardinalityIsOne DEF LossIsBounded, Kafka!LossIsBounded, Cost, Burst
<1>4. QED
  BY <1>1, <1>2, <1>3, StepInv, PTL DEF TransportSpec
=============================================================================
