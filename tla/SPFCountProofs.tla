--------------------------- MODULE SPFCountProofs ---------------------------
(***************************************************************************)
(* What the count of an SPF record's lookups is worth, for every zone and  *)
(* every limit: it is never more than what the written records cost, just  *)
(* that where the includes are a tree within its reach, and there never    *)
(* less than what receivers look up, who leave out what is behind an       *)
(* "all" and a redirect beside one.                                        *)
(*                                                                         *)
(* count and the measures of what is written are recursive functions       *)
(* (MailPosture.tla).  Each is shown to exist and to be what its recursion *)
(* says, from its last level or its first number on; the rest is induction *)
(* on numbers, which is cited as Smallest and Onward.                      *)
(***************************************************************************)
EXTENDS CheckExecution, Sequences, FiniteSetTheorems, FunctionTheorems, WellFoundedInduction, TLAPS

USE CheckAssumption

-----------------------------------------------------------------------------
(* The count of lookups, one term at a time. *)

NoRec == Mail!NoRecord
State == [lookups : Nat, seen : SUBSET Name, dangling : BOOLEAN]
Place == Name \X (0 .. MaxDepth) \X SUBSET Name
AnyRecord == Mail!Record \cup {Mail!NoRecord}
Zones == [Name -> AnyRecord]

Begin(seen) == [lookups |-> 0, seen |-> seen, dangling |-> FALSE]

\* One term more, where sub is what count makes of the names.
Follow(zone, sub, depth, acc, t) ==
    IF t = "a" \/ depth = MaxDepth \/ t \in acc.seen \/ acc.lookups + 1 > MaxBranch
    THEN [acc EXCEPT !.lookups = acc.lookups + 1]
    ELSE IF zone[t] = Mail!NoRecord
    THEN [lookups |-> acc.lookups + 1, seen |-> acc.seen \cup {t}, dangling |-> TRUE]
    ELSE [lookups |-> acc.lookups + 1 + sub[<<t, depth + 1, acc.seen \cup {t}>>].lookups,
          seen |-> sub[<<t, depth + 1, acc.seen \cup {t}>>].seen,
          dangling |-> acc.dangling \/ sub[<<t, depth + 1, acc.seen \cup {t}>>].dangling]

\* What FoldLeft makes of the terms whose indices are in s, for every s.
IsFold(it, n, zone, sub, terms, depth, seen) ==
    it = [s \in SUBSET (1 .. n) |->
            IF s = {} THEN Begin(seen)
            ELSE Follow(zone, sub, depth, it[s \ {Mail!Max(s)}], terms[Mail!Max(s)])]

Fold(zone, sub, terms, depth, seen) ==
    LET iter[s \in SUBSET DOMAIN terms] ==
        IF s = {} THEN [lookups |-> 0, seen |-> seen, dangling |-> FALSE]
        ELSE Follow(zone, sub, depth, iter[s \ {Mail!Max(s)}], terms[Mail!Max(s)])
    IN iter[DOMAIN terms]

IsCount(zone, c) ==
    c = [at \in Name \X (0 .. MaxDepth) \X SUBSET Name |->
            Fold(zone, c, Mail!Terms(zone[at[1]]), at[2], at[3])]

LEMMA CountUnfolds ==
  ASSUME NEW zone, NEW name
  PROVE  Mail!Count(zone, name) = (CHOOSE c : IsCount(zone, c))[<<name, 0, {}>>]
  BY DEF Mail!Count, IsCount, Fold, Follow, Mail!FoldLeft, Mail!MapThenFoldSet

LEMMA MaxIs ==
  ASSUME NEW n \in Nat, NEW T \in SUBSET (1 .. n), NEW k \in T, \A m \in T : m <= k
  PROVE  Mail!Max(T) = k
<1>1. \A m \in T : m \in Int
  OBVIOUS
<1>2. \A x \in T : (\A y \in T : x >= y) => x = k
  BY <1>1
<1> QED  BY <1>2 DEF Mail!Max

LEMMA Smallest ==
  ASSUME NEW T \in SUBSET Nat, T # {}
  PROVE  \E k \in T : \A m \in T : k <= m
<1>2. PICK a \in T : \A b \in T : ~(<<b, a>> \in OpToRel(<, Nat))
  BY NatLessThanWellFounded, WFMin, Zenon
<1>3. \A b \in T : ~(b < a)
  BY <1>2 DEF OpToRel
<1>4. \A b \in T : b \in Nat
  OBVIOUS
<1> QED  BY <1>3, <1>4

\* The fold exists: over all subsets of 1 .. n, for one n after the other.
LEMMA FoldsExist ==
  ASSUME NEW zone, NEW sub, NEW terms, NEW depth, NEW seen, NEW n \in Nat
  PROVE  \E it : IsFold(it, n, zone, sub, terms, depth, seen)
<1> DEFINE Has(k) == \E it : IsFold(it, k, zone, sub, terms, depth, seen)
           T == {k \in Nat : ~Has(k)}
<1> SUFFICES ASSUME T # {} PROVE FALSE
  OBVIOUS
<1>1. PICK k \in T : \A m \in T : k <= m
  BY Smallest
<1>2. k # 0
  <2>1. SUBSET (1 .. 0) = {{}}
    OBVIOUS
  <2>2. IsFold([s \in SUBSET (1 .. 0) |-> Begin(seen)], 0, zone, sub, terms, depth, seen)
    BY <2>1 DEF IsFold
  <2> QED  BY <2>2
<1>3. PICK j \in Nat : k = j + 1
  BY <1>2
<1>4. PICK it : IsFold(it, j, zone, sub, terms, depth, seen)
  BY <1>1, <1>3
<1> DEFINE Longer(s) == IF k \in s THEN Follow(zone, sub, depth, it[s \ {k}], terms[k]) ELSE it[s]
           more == [s \in SUBSET (1 .. k) |-> Longer(s)]
<1>5. IsFold(more, k, zone, sub, terms, depth, seen)
  <2>1. ASSUME NEW s \in SUBSET (1 .. k)
        PROVE  more[s] = IF s = {} THEN Begin(seen)
                         ELSE Follow(zone, sub, depth, more[s \ {Mail!Max(s)}], terms[Mail!Max(s)])
    <3>1. CASE k \in s
      <4>1. \A m \in s : m <= k
        BY <1>3
      <4>2. Mail!Max(s) = k
        BY <3>1, <4>1, MaxIs, k \in Nat
      <4>3. s \ {k} \in SUBSET (1 .. k) /\ k \notin s \ {k}
        OBVIOUS
      <4>4. more[s \ {k}] = it[s \ {k}]
        BY <4>3
      <4>5. more[s] = Follow(zone, sub, depth, it[s \ {k}], terms[k])
        BY <3>1
      <4> HIDE DEF more
      <4> QED  BY <3>1, <4>2, <4>4, <4>5
    <3>2. CASE k \notin s
      <4>1. s \in SUBSET (1 .. j)
        BY <1>3, <3>2
      <4>2. more[s] = it[s]
        BY <3>2
      <4>3. it[s] = IF s = {} THEN Begin(seen)
                    ELSE Follow(zone, sub, depth, it[s \ {Mail!Max(s)}], terms[Mail!Max(s)])
        BY <1>4, <4>1 DEF IsFold
      <4>4. \A m : more[s \ {m}] = it[s \ {m}]
        <5>1. ASSUME NEW m PROVE s \ {m} \in SUBSET (1 .. k) /\ k \notin s \ {m}
          BY <3>2
        <5> QED  BY <5>1
      <4> HIDE DEF more
      <4> QED  BY <4>2, <4>3, <4>4
    <3> QED  BY <3>1, <3>2
  <2>2. more = [s \in SUBSET (1 .. k) |-> more[s]]
    OBVIOUS
  <2> HIDE DEF more
  <2>3. more = [s \in SUBSET (1 .. k) |->
                    IF s = {} THEN Begin(seen)
                    ELSE Follow(zone, sub, depth, more[s \ {Mail!Max(s)}], terms[Mail!Max(s)])]
    BY <2>1, <2>2
  <2> QED  BY <2>3, Zenon DEF IsFold
<1> QED  BY <1>1, <1>5

\* So it is the last state of a walk along the terms.
IsWalk(P, zone, sub, terms, depth, seen) ==
    /\ P[0] = Begin(seen)
    /\ \A k \in 1 .. Len(terms) : P[k] = Follow(zone, sub, depth, P[k - 1], terms[k])

LEMMA FoldWalks ==
  ASSUME NEW zone, NEW sub, NEW terms, NEW depth, NEW seen,
         Len(terms) \in Nat, DOMAIN terms = 1 .. Len(terms)
  PROVE  \E P : /\ IsWalk(P, zone, sub, terms, depth, seen)
                /\ Fold(zone, sub, terms, depth, seen) = P[Len(terms)]
<1> DEFINE n == Len(terms)
           it == CHOOSE f : IsFold(f, n, zone, sub, terms, depth, seen)
           P == [k \in 0 .. n |-> it[1 .. k]]
<1>1. Fold(zone, sub, terms, depth, seen) = it[1 .. n]
  BY DEF Fold, IsFold, Begin
<1>2. IsFold(it, n, zone, sub, terms, depth, seen)
  <2> HIDE DEF n
  <2>1. n \in Nat
    BY DEF n
  <2> QED  BY <2>1, FoldsExist
<1> HIDE DEF it
<1>3. P[0] = Begin(seen)
  <2>1. 1 .. 0 = {} /\ 1 .. 0 \in SUBSET (1 .. n)
    OBVIOUS
  <2>2. it[1 .. 0] = Begin(seen)
    BY <1>2, <2>1 DEF IsFold
  <2> QED  BY <2>2
<1>4. ASSUME NEW k \in 1 .. n PROVE P[k] = Follow(zone, sub, depth, P[k - 1], terms[k])
  <2>1. Mail!Max(1 .. k) = k
    <3>1. k \in Nat /\ k \in 1 .. k /\ 1 .. k \in SUBSET (1 .. k) /\ \A m \in 1 .. k : m <= k
      OBVIOUS
    <3> QED  BY <3>1, MaxIs, Zenon
  <2>2. 1 .. k \in SUBSET (1 .. n) /\ 1 .. k # {} /\ (1 .. k) \ {k} = 1 .. k - 1
    OBVIOUS
  <2>3. it[1 .. k] = Follow(zone, sub, depth, it[(1 .. k) \ {k}], terms[k])
    BY <1>2, <2>1, <2>2 DEF IsFold
  <2>4. P[k] = it[1 .. k] /\ P[k - 1] = it[1 .. k - 1]
    OBVIOUS
  <2> HIDE DEF P
  <2> QED  BY <2>2, <2>3, <2>4
<1>5. P[n] = it[1 .. n]
  OBVIOUS
<1> HIDE DEF P
<1> QED  BY <1>1, <1>3, <1>4, <1>5 DEF IsWalk

-----------------------------------------------------------------------------
(* count is a function, and its values are states. *)

LEMMA MailConstants ==
  /\ NoRec \in AnyRecord /\ Records \subseteq AnyRecord
  /\ Domain \in Name /\ MaxDepth \in Nat /\ MaxBranch \in Nat /\ LookupLimit \in Nat
  /\ \A r \in AnyRecord : Mail!Terms(r) \in Seq(Name \cup {"a"})
  /\ Mail!Terms(NoRec) = << >>
<1>1. ASSUME NEW r \in AnyRecord PROVE Mail!Terms(r) \in Seq(Name \cup {"a"})
  <2>1. CASE r = Mail!NoRecord
    BY <2>1 DEF Mail!NoRecord, Mail!Terms
  <2>2. CASE r # Mail!NoRecord
    <3>1. r \in Mail!Record
      BY <2>2 DEF AnyRecord
    <3>2. /\ r.mechanisms \in Seq(Name \cup {"a"}) /\ r.behind \in Seq(Name \cup {"a"})
          /\ r.redirect \in Name \cup {"none"}
      BY <3>1 DEF Mail!Record
    <3>3. (IF r.redirect = "none" THEN << >> ELSE <<r.redirect>>) \in Seq(Name \cup {"a"})
      <4>1. r.redirect # "none" => <<r.redirect>> \in Seq(Name \cup {"a"})
        BY <3>2
      <4>2. << >> \in Seq(Name \cup {"a"})
        OBVIOUS
      <4> QED  BY <4>1, <4>2, Zenon
    <3> QED  BY <3>2, <3>3 DEF Mail!Terms
  <2> QED  BY <2>1, <2>2
<1>2. Mail!Terms(NoRec) = << >>
  BY DEF Mail!NoRecord, Mail!Terms, NoRec
<1> QED  BY <1>1, <1>2, CheckAssumption DEF Mail!ConstantsOK, NoRec, AnyRecord

\* The terms of a name, in a zone.
LEMMA TermsType ==
  ASSUME NEW zone \in Zones, NEW n \in Name
  PROVE  LET terms == Mail!Terms(zone[n]) IN
         /\ terms \in Seq(Name \cup {"a"}) /\ Len(terms) \in Nat /\ DOMAIN terms = 1 .. Len(terms)
         /\ \A k \in 1 .. Len(terms) : terms[k] \in Name \cup {"a"}
<1>1. Mail!Terms(zone[n]) \in Seq(Name \cup {"a"})
  BY MailConstants DEF Zones
<1> DEFINE terms == Mail!Terms(zone[n])
<1> HIDE DEF terms
<1>2. terms \in Seq(Name \cup {"a"})
  BY <1>1 DEF terms
<1>3. /\ Len(terms) \in Nat /\ DOMAIN terms = 1 .. Len(terms)
      /\ \A k \in 1 .. Len(terms) : terms[k] \in Name \cup {"a"}
  BY <1>2
<1> QED  BY <1>2, <1>3 DEF terms

LEMMA FollowType ==
  ASSUME NEW zone, NEW sub \in [Place -> State], NEW depth \in 0 .. MaxDepth,
         NEW acc \in State, NEW t \in Name \cup {"a"}
  PROVE  Follow(zone, sub, depth, acc, t) \in State
<1>1. CASE t = "a" \/ depth = MaxDepth \/ t \in acc.seen \/ acc.lookups + 1 > MaxBranch
  <2>1. acc = [lookups |-> acc.lookups, seen |-> acc.seen, dangling |-> acc.dangling]
        /\ acc.lookups + 1 \in Nat /\ acc.seen \in SUBSET Name /\ acc.dangling \in BOOLEAN
    BY DEF State
  <2>2. Follow(zone, sub, depth, acc, t) = [acc EXCEPT !.lookups = acc.lookups + 1]
    BY <1>1 DEF Follow
  <2>3. Follow(zone, sub, depth, acc, t)
            = [lookups |-> acc.lookups + 1, seen |-> acc.seen, dangling |-> acc.dangling]
    BY <2>1, <2>2
  <2> QED  BY <2>1, <2>3 DEF State
<1>2. CASE ~(t = "a" \/ depth = MaxDepth \/ t \in acc.seen \/ acc.lookups + 1 > MaxBranch)
  <2>1. t \in Name /\ depth + 1 \in 0 .. MaxDepth /\ acc.seen \cup {t} \in SUBSET Name
    BY <1>2, MailConstants DEF State
  <2>2. <<t, depth + 1, acc.seen \cup {t}>> \in Place
    BY <2>1 DEF Place
  <2>3. sub[<<t, depth + 1, acc.seen \cup {t}>>] \in State
    BY <2>2
  <2>4. PICK s \in State : s = sub[<<t, depth + 1, acc.seen \cup {t}>>]
    BY <2>3
  <2>5. /\ acc.lookups + 1 \in Nat /\ acc.lookups + 1 + s.lookups \in Nat /\ s.seen \in SUBSET Name
        /\ acc.dangling \in BOOLEAN /\ (acc.dangling \/ s.dangling) \in BOOLEAN
    BY DEF State
  <2>6. \/ Follow(zone, sub, depth, acc, t)
              = [lookups |-> acc.lookups + 1, seen |-> acc.seen \cup {t}, dangling |-> TRUE]
        \/ Follow(zone, sub, depth, acc, t)
              = [lookups |-> acc.lookups + 1 + s.lookups, seen |-> s.seen,
                 dangling |-> acc.dangling \/ s.dangling]
    BY <1>2, <2>4, Zenon DEF Follow
  <2>7. /\ [lookups |-> acc.lookups + 1, seen |-> acc.seen \cup {t}, dangling |-> TRUE] \in State
        /\ [lookups |-> acc.lookups + 1 + s.lookups, seen |-> s.seen,
            dangling |-> acc.dangling \/ s.dangling] \in State
    BY <2>1, <2>5 DEF State
  <2> QED  BY <2>6, <2>7, Zenon
<1> QED  BY <1>1, <1>2

\* A walk depends on sub only one level deeper.
Alike(sub, other, depth) ==
    depth # MaxDepth =>
        \A m \in Name : \A s \in SUBSET Name : sub[<<m, depth + 1, s>>] = other[<<m, depth + 1, s>>]

LEMMA FollowSame ==
  ASSUME NEW zone, NEW sub, NEW other, NEW depth \in 0 .. MaxDepth,
         NEW acc \in State, NEW t \in Name \cup {"a"},
         Alike(sub, other, depth)
  PROVE  Follow(zone, sub, depth, acc, t) = Follow(zone, other, depth, acc, t)
<1>1. CASE t = "a" \/ depth = MaxDepth \/ t \in acc.seen \/ acc.lookups + 1 > MaxBranch
  BY <1>1 DEF Follow
<1>2. CASE ~(t = "a" \/ depth = MaxDepth \/ t \in acc.seen \/ acc.lookups + 1 > MaxBranch)
  <2>1. t \in Name /\ acc.seen \cup {t} \in SUBSET Name
    BY <1>2 DEF State
  <2>2. sub[<<t, depth + 1, acc.seen \cup {t}>>] = other[<<t, depth + 1, acc.seen \cup {t}>>]
    BY <1>2, <2>1 DEF Alike
  <2> QED  BY <1>2, <2>2 DEF Follow
<1> QED  BY <1>1, <1>2

LEMMA WalkType ==
  ASSUME NEW zone \in Zones, NEW sub \in [Place -> State], NEW n \in Name,
         NEW depth \in 0 .. MaxDepth, NEW seen \in SUBSET Name, NEW P,
         IsWalk(P, zone, sub, Mail!Terms(zone[n]), depth, seen)
  PROVE  \A k \in 0 .. Len(Mail!Terms(zone[n])) : P[k] \in State
<1> DEFINE terms == Mail!Terms(zone[n])
           T == {k \in 0 .. Len(terms) : P[k] \notin State}
<1>1. Len(terms) \in Nat /\ \A k \in 1 .. Len(terms) : terms[k] \in Name \cup {"a"}
  BY TermsType
<1>2. P[0] = Begin(seen) /\ \A k \in 1 .. Len(terms) : P[k] = Follow(zone, sub, depth, P[k - 1], terms[k])
  BY DEF IsWalk
<1> HIDE DEF terms
<1> SUFFICES ASSUME T # {} PROVE FALSE
  BY DEF terms
<1>3. PICK k \in T : \A m \in T : k <= m
  <2>1. T \in SUBSET Nat
    BY <1>1
  <2> HIDE DEF T
  <2> QED  BY <2>1, Smallest
<1>4. k # 0
  <2>1. Begin(seen) \in State
    BY DEF Begin, State
  <2> QED  BY <1>2, <1>3, <2>1
<1>5. k \in 1 .. Len(terms) /\ k - 1 \in 0 .. Len(terms) /\ k - 1 \notin T
  BY <1>1, <1>3, <1>4
<1>6. P[k - 1] \in State
  BY <1>5
<1>7. P[k] \in State
  BY <1>1, <1>2, <1>5, <1>6, FollowType
<1> QED  BY <1>7

LEMMA FoldType ==
  ASSUME NEW zone \in Zones, NEW sub \in [Place -> State], NEW n \in Name,
         NEW depth \in 0 .. MaxDepth, NEW seen \in SUBSET Name
  PROVE  Fold(zone, sub, Mail!Terms(zone[n]), depth, seen) \in State
<1> DEFINE terms == Mail!Terms(zone[n])
<1>1. Len(terms) \in Nat /\ DOMAIN terms = 1 .. Len(terms)
  BY TermsType
<1>2. PICK P : IsWalk(P, zone, sub, terms, depth, seen) /\ Fold(zone, sub, terms, depth, seen) = P[Len(terms)]
  <2> HIDE DEF terms
  <2> QED  BY <1>1, FoldWalks
<1>3. \A k \in 0 .. Len(terms) : P[k] \in State
  BY <1>2, WalkType
<1> HIDE DEF terms
<1>4. P[Len(terms)] \in State
  BY <1>1, <1>3
<1> QED  BY <1>2, <1>4 DEF terms

LEMMA FoldSame ==
  ASSUME NEW zone \in Zones, NEW sub \in [Place -> State], NEW other, NEW n \in Name,
         NEW depth \in 0 .. MaxDepth, NEW seen \in SUBSET Name,
         Alike(sub, other, depth)
  PROVE  Fold(zone, sub, Mail!Terms(zone[n]), depth, seen)
             = Fold(zone, other, Mail!Terms(zone[n]), depth, seen)
<1> DEFINE terms == Mail!Terms(zone[n])
<1>1. /\ Len(terms) \in Nat /\ DOMAIN terms = 1 .. Len(terms)
      /\ \A k \in 1 .. Len(terms) : terms[k] \in Name \cup {"a"}
  BY TermsType
<1>2. PICK P : IsWalk(P, zone, sub, terms, depth, seen) /\ Fold(zone, sub, terms, depth, seen) = P[Len(terms)]
  <2> HIDE DEF terms
  <2> QED  BY <1>1, FoldWalks
<1>3. PICK Q : IsWalk(Q, zone, other, terms, depth, seen) /\ Fold(zone, other, terms, depth, seen) = Q[Len(terms)]
  <2> HIDE DEF terms
  <2> QED  BY <1>1, FoldWalks
<1>4. \A k \in 0 .. Len(terms) : P[k] \in State
  BY <1>2, WalkType
<1> HIDE DEF terms
<1> DEFINE T == {k \in 0 .. Len(terms) : P[k] # Q[k]}
<1>5. T = {}
  <2> SUFFICES ASSUME T # {} PROVE FALSE
    OBVIOUS
  <2>1. PICK k \in T : \A m \in T : k <= m
    <3>1. T \in SUBSET Nat
      BY <1>1
    <3> HIDE DEF T
    <3> QED  BY <3>1, Smallest
  <2>2. k # 0
    BY <1>2, <1>3 DEF IsWalk
  <2>3. k \in 1 .. Len(terms) /\ k - 1 \in 0 .. Len(terms) /\ k - 1 \notin T
    BY <1>1, <2>1, <2>2
  <2>4. P[k - 1] = Q[k - 1] /\ P[k - 1] \in State /\ terms[k] \in Name \cup {"a"}
    BY <1>1, <1>4, <2>3
  <2>5. P[k] = Follow(zone, sub, depth, P[k - 1], terms[k]) /\ Q[k] = Follow(zone, other, depth, Q[k - 1], terms[k])
    BY <1>2, <1>3, <2>3 DEF IsWalk
  <2>6. Follow(zone, sub, depth, P[k - 1], terms[k]) = Follow(zone, other, depth, P[k - 1], terms[k])
    BY <2>4, FollowSame
  <2>7. P[k] = Q[k]
    BY <2>4, <2>5, <2>6
  <2> QED  BY <2>7
<1>6. P[Len(terms)] = Q[Len(terms)]
  BY <1>1, <1>5
<1> QED  BY <1>2, <1>3, <1>6 DEF terms

\* sub is what count is, from all but the first levels.
Once(zone, sub) ==
    [at \in Place |-> Fold(zone, sub, Mail!Terms(zone[at[1]]), at[2], at[3])]

Counts(zone, sub, k) ==
    \A depth \in 0 .. MaxDepth :
        depth + k > MaxDepth =>
            \A n \in Name : \A seen \in SUBSET Name :
                sub[<<n, depth, seen>>] = Fold(zone, sub, Mail!Terms(zone[n]), depth, seen)

LEMMA OnceType ==
  ASSUME NEW zone \in Zones, NEW sub \in [Place -> State]
  PROVE  Once(zone, sub) \in [Place -> State]
<1>1. \A n \in Name : \A depth \in 0 .. MaxDepth : \A seen \in SUBSET Name :
          Fold(zone, sub, Mail!Terms(zone[n]), depth, seen) \in State
  BY FoldType
<1> QED  BY <1>1 DEF Once, Place

LEMMA OnceCounts ==
  ASSUME NEW zone \in Zones, NEW sub \in [Place -> State], NEW k \in Nat, Counts(zone, sub, k)
  PROVE  Counts(zone, Once(zone, sub), k + 1)
<1> DEFINE more == Once(zone, sub)
<1>1. \A n \in Name : \A depth \in 0 .. MaxDepth : \A seen \in SUBSET Name :
          more[<<n, depth, seen>>] = Fold(zone, sub, Mail!Terms(zone[n]), depth, seen)
  <2>1. ASSUME NEW n \in Name, NEW depth \in 0 .. MaxDepth, NEW seen \in SUBSET Name
        PROVE  more[<<n, depth, seen>>] = Fold(zone, sub, Mail!Terms(zone[n]), depth, seen)
    <3>1. <<n, depth, seen>> \in Place
      BY DEF Place
    <3> QED  BY <3>1 DEF Once
  <2> QED  BY <2>1
<1> HIDE DEF more
<1>2. ASSUME NEW depth \in 0 .. MaxDepth, depth + k > MaxDepth
      PROVE  \A n \in Name : \A s \in SUBSET Name : sub[<<n, depth, s>>] = more[<<n, depth, s>>]
  BY <1>1, <1>2 DEF Counts
<1>3. ASSUME NEW depth \in 0 .. MaxDepth, depth + (k + 1) > MaxDepth
      PROVE  Alike(sub, more, depth)
  <2> SUFFICES ASSUME depth # MaxDepth
               PROVE  \A m \in Name : \A s \in SUBSET Name : sub[<<m, depth + 1, s>>] = more[<<m, depth + 1, s>>]
    BY DEF Alike
  <2>1. depth + 1 \in 0 .. MaxDepth /\ (depth + 1) + k > MaxDepth
    BY <1>3, MailConstants
  <2> QED  BY <1>2, <2>1
<1>4. ASSUME NEW depth \in 0 .. MaxDepth, depth + (k + 1) > MaxDepth, NEW n \in Name,
             NEW seen \in SUBSET Name
      PROVE  more[<<n, depth, seen>>] = Fold(zone, more, Mail!Terms(zone[n]), depth, seen)
  <2>1. Alike(sub, more, depth)
    BY <1>3, <1>4
  <2>2. Fold(zone, sub, Mail!Terms(zone[n]), depth, seen)
            = Fold(zone, more, Mail!Terms(zone[n]), depth, seen)
    BY <2>1, FoldSame
  <2> QED  BY <1>1, <2>2
<1>5. Counts(zone, more, k + 1)
  BY <1>4 DEF Counts
<1> QED  BY <1>5 DEF more

LEMMA CountsExist ==
  ASSUME NEW zone \in Zones
  PROVE  \E c \in [Place -> State] : Counts(zone, c, MaxDepth + 1)
<1> DEFINE Has(k) == \E c \in [Place -> State] : Counts(zone, c, k)
           T == {k \in Nat : ~Has(k)}
<1>1. T = {}
  <2> SUFFICES ASSUME T # {} PROVE FALSE
    OBVIOUS
  <2>1. PICK k \in T : \A m \in T : k <= m
    BY Smallest
  <2>2. k # 0
    <3> DEFINE c == [p \in Place |-> Begin({})]
    <3>1. Begin({}) \in State
      BY DEF Begin, State
    <3>2. c \in [Place -> State]
      BY <3>1
    <3>3. Counts(zone, c, 0)
      BY MailConstants DEF Counts
    <3> HIDE DEF c
    <3>4. Has(0)
      BY <3>2, <3>3
    <3> QED  BY <3>4
  <2>3. PICK j \in Nat : k = j + 1
    BY <2>2
  <2>4. PICK c \in [Place -> State] : Counts(zone, c, j)
    BY <2>1, <2>3
  <2>5. Has(k)
    BY <2>3, <2>4, OnceType, OnceCounts
  <2> QED  BY <2>5
<1>2. MaxDepth + 1 \in Nat
  BY MailConstants
<1> QED  BY <1>1, <1>2

\* Two functions that are what count is are the same, from the last level up.
IsWhatItFolds(zone, c) ==
    \A n \in Name : \A depth \in 0 .. MaxDepth : \A seen \in SUBSET Name :
        c[<<n, depth, seen>>] = Fold(zone, c, Mail!Terms(zone[n]), depth, seen)

SameUpTo(c, f, k) ==
    \A depth \in 0 .. MaxDepth : depth + k > MaxDepth =>
        \A n \in Name : \A s \in SUBSET Name : c[<<n, depth, s>>] = f[<<n, depth, s>>]

LEMMA SameOneMore ==
  ASSUME NEW zone \in Zones, NEW c \in [Place -> State], NEW f, NEW k \in Nat,
         IsWhatItFolds(zone, c), IsWhatItFolds(zone, f), SameUpTo(c, f, k)
  PROVE  SameUpTo(c, f, k + 1)
<1> SUFFICES ASSUME NEW depth \in 0 .. MaxDepth, depth + (k + 1) > MaxDepth,
                    NEW n \in Name, NEW s \in SUBSET Name
             PROVE  c[<<n, depth, s>>] = f[<<n, depth, s>>]
  BY DEF SameUpTo
<1>1. Alike(c, f, depth)
  <2> SUFFICES ASSUME depth # MaxDepth
               PROVE  \A m \in Name : \A t \in SUBSET Name : c[<<m, depth + 1, t>>] = f[<<m, depth + 1, t>>]
    BY DEF Alike
  <2>1. depth + 1 \in 0 .. MaxDepth /\ (depth + 1) + k > MaxDepth
    BY MailConstants
  <2> QED  BY <2>1 DEF SameUpTo
<1>2. Fold(zone, c, Mail!Terms(zone[n]), depth, s) = Fold(zone, f, Mail!Terms(zone[n]), depth, s)
  BY <1>1, FoldSame
<1> QED  BY <1>2 DEF IsWhatItFolds

LEMMA SameAll ==
  ASSUME NEW zone \in Zones, NEW c \in [Place -> State], NEW f,
         IsWhatItFolds(zone, c), IsWhatItFolds(zone, f)
  PROVE  \A n \in Name : \A depth \in 0 .. MaxDepth : \A s \in SUBSET Name :
             c[<<n, depth, s>>] = f[<<n, depth, s>>]
<1> DEFINE T == {k \in Nat : ~SameUpTo(c, f, k)}
<1>1. T = {}
  <2> SUFFICES ASSUME T # {} PROVE FALSE
    OBVIOUS
  <2>1. PICK k \in T : \A m \in T : k <= m
    <3>1. T \in SUBSET Nat
      OBVIOUS
    <3> HIDE DEF T
    <3> QED  BY <3>1, Smallest
  <2>2. k \in Nat /\ ~SameUpTo(c, f, k)
    OBVIOUS
  <2>3. SameUpTo(c, f, 0)
    BY MailConstants DEF SameUpTo
  <2>4. PICK j \in Nat : k = j + 1
    BY <2>2, <2>3
  <2>5. SameUpTo(c, f, j)
    BY <2>1, <2>4
  <2> QED  BY <2>2, <2>4, <2>5, SameOneMore
<1>2. MaxDepth + 1 \in Nat /\ \A depth \in 0 .. MaxDepth : depth + (MaxDepth + 1) > MaxDepth
  BY MailConstants
<1>3. SameUpTo(c, f, MaxDepth + 1)
  BY <1>1, <1>2
<1> QED  BY <1>2, <1>3 DEF SameUpTo

\* What count is, of every name, depth and set of names seen.
CountOf(zone) == CHOOSE c : IsCount(zone, c)

LEMMA CountOfIs ==
  ASSUME NEW zone \in Zones
  PROVE  /\ CountOf(zone) \in [Place -> State]
         /\ \A n \in Name, depth \in 0 .. MaxDepth, seen \in SUBSET Name :
                \E P : /\ IsWalk(P, zone, CountOf(zone), Mail!Terms(zone[n]), depth, seen)
                       /\ CountOf(zone)[<<n, depth, seen>>] = P[Len(Mail!Terms(zone[n]))]
<1> DEFINE f == CountOf(zone)
<1>1. PICK c \in [Place -> State] : Counts(zone, c, MaxDepth + 1)
  BY CountsExist
<1>2. \A n \in Name : \A depth \in 0 .. MaxDepth : \A seen \in SUBSET Name :
          c[<<n, depth, seen>>] = Fold(zone, c, Mail!Terms(zone[n]), depth, seen)
  <2>1. \A depth \in 0 .. MaxDepth : depth + (MaxDepth + 1) > MaxDepth
    BY MailConstants
  <2> QED  BY <1>1, <2>1 DEF Counts
<1>3. IsCount(zone, c)
  <2>1. c = [at \in Place |-> c[at]]
    OBVIOUS
  <2>2. ASSUME NEW at \in Place PROVE c[at] = Fold(zone, c, Mail!Terms(zone[at[1]]), at[2], at[3])
    <3>1. PICK n \in Name, depth \in 0 .. MaxDepth, seen \in SUBSET Name : at = <<n, depth, seen>>
      BY DEF Place
    <3> QED  BY <1>2, <3>1
  <2>3. c = [at \in Place |-> Fold(zone, c, Mail!Terms(zone[at[1]]), at[2], at[3])]
    BY <2>1, <2>2, Zenon
  <2> QED  BY <2>3 DEF IsCount, Place
<1>4. IsCount(zone, f)
  BY <1>3 DEF CountOf
<1> HIDE DEF f
<1>5. \A n \in Name : \A depth \in 0 .. MaxDepth : \A seen \in SUBSET Name :
          f[<<n, depth, seen>>] = Fold(zone, f, Mail!Terms(zone[n]), depth, seen)
  BY <1>4 DEF IsCount
<1>7. \A n \in Name : \A depth \in 0 .. MaxDepth : \A s \in SUBSET Name :
          c[<<n, depth, s>>] = f[<<n, depth, s>>]
  <2>1. IsWhatItFolds(zone, c) /\ IsWhatItFolds(zone, f)
    BY <1>2, <1>5, Zenon DEF IsWhatItFolds
  <2> QED  BY <2>1, SameAll, ZenonT(40)
<1>8. f \in [Place -> State]
  <2>1. f = [at \in Place |-> f[at]]
    BY <1>4, Zenon DEF IsCount, Place
  <2>2. ASSUME NEW at \in Place PROVE f[at] \in State
    <3>1. PICK n \in Name, depth \in 0 .. MaxDepth, seen \in SUBSET Name : at = <<n, depth, seen>>
      BY DEF Place
    <3>2. f[at] = c[at]
      BY <1>7, <3>1
    <3> QED  BY <3>2
  <2> QED  BY <2>1, <2>2, Zenon
<1>9. ASSUME NEW n \in Name, NEW depth \in 0 .. MaxDepth, NEW seen \in SUBSET Name
      PROVE  \E P : /\ IsWalk(P, zone, f, Mail!Terms(zone[n]), depth, seen)
                    /\ f[<<n, depth, seen>>] = P[Len(Mail!Terms(zone[n]))]
  <2> DEFINE terms == Mail!Terms(zone[n])
  <2>1. Len(terms) \in Nat /\ DOMAIN terms = 1 .. Len(terms)
    BY TermsType
  <2>2. f[<<n, depth, seen>>] = Fold(zone, f, terms, depth, seen)
    BY <1>5
  <2> HIDE DEF terms
  <2>3. \E P : IsWalk(P, zone, f, terms, depth, seen) /\ f[<<n, depth, seen>>] = P[Len(terms)]
    BY <2>1, <2>2, FoldWalks
  <2> QED  BY <2>3 DEF terms
<1> QED  BY <1>8, <1>9 DEF f

-----------------------------------------------------------------------------
(* Recursive functions on 0 .. K. *)

Iterate(f, base, step, K) ==
    f[0] = base /\ \A j \in 1 .. K : f[j] = step[<<j, f[j - 1]>>]

LEMMA Iterates ==
  ASSUME NEW V, NEW base \in V, NEW K \in Nat, NEW step \in [(1 .. K) \X V -> V]
  PROVE  \E f : f \in [0 .. K -> V] /\ Iterate(f, base, step, K)
<1> DEFINE Upto(f, k) == f[0] = base /\ \A j \in 1 .. K : j <= k => f[j] = step[<<j, f[j - 1]>>]
           Has(k) == \E f \in [0 .. K -> V] : Upto(f, k)
           T == {k \in 0 .. K : ~Has(k)}
<1>1. T = {}
  <2> SUFFICES ASSUME T # {} PROVE FALSE
    OBVIOUS
  <2>1. PICK k \in T : \A m \in T : k <= m
    <3>1. T \in SUBSET Nat
      OBVIOUS
    <3> HIDE DEF T
    <3> QED  BY <3>1, Smallest
  <2>2. k # 0
    <3> DEFINE f == [j \in 0 .. K |-> base]
    <3>1. f \in [0 .. K -> V] /\ Upto(f, 0)
      OBVIOUS
    <3> HIDE DEF f, Upto
    <3>2. Has(0)
      BY <3>1
    <3> QED  BY <3>2
  <2>3. PICK j \in 0 .. K : k = j + 1 /\ j \notin T
    BY <2>1, <2>2
  <2>4. PICK f \in [0 .. K -> V] : Upto(f, j)
    <3> HIDE DEF Upto
    <3> QED  BY <2>3
  <2>5. k \in 1 .. K /\ k - 1 = j /\ step[<<k, f[j]>>] \in V
    BY <2>3
  <2> DEFINE g == [f EXCEPT ![k] = step[<<k, f[j]>>]]
  <2>6. g \in [0 .. K -> V]
    BY <2>5
  <2>7. g[k] = step[<<k, f[j]>>] /\ \A i \in 0 .. K : i # k => g[i] = f[i]
    BY <2>5
  <2> HIDE DEF g
  <2>8. Upto(g, k)
    <3>1. g[0] = base
      BY <2>4, <2>5, <2>7
    <3>2. ASSUME NEW i \in 1 .. K, i <= k PROVE g[i] = step[<<i, g[i - 1]>>]
      <4>1. i - 1 \in 0 .. K /\ i - 1 # k /\ g[i - 1] = f[i - 1]
        BY <2>5, <2>7, <3>2
      <4>2. CASE i = k
        BY <2>5, <2>7, <4>1, <4>2
      <4>3. CASE i # k
        BY <2>3, <2>4, <2>7, <3>2, <4>1, <4>3
      <4> QED  BY <4>2, <4>3
    <3> QED  BY <3>1, <3>2
  <2> HIDE DEF Upto
  <2>9. Has(k)
    BY <2>6, <2>8
  <2> QED  BY <2>9
<1>2. PICK f \in [0 .. K -> V] : Upto(f, K)
  <2> HIDE DEF Upto
  <2>1. K \in 0 .. K /\ K \notin T
    BY <1>1
  <2> QED  BY <2>1
<1>3. Iterate(f, base, step, K)
  BY <1>2 DEF Iterate
<1> QED  BY <1>2, <1>3

\* What a property passes on from each number to the next, all have.
LEMMA Onward ==
  ASSUME NEW K \in Nat, NEW A, 0 \in A, \A j \in 1 .. K : j - 1 \in A => j \in A
  PROVE  \A j \in 0 .. K : j \in A
<1> DEFINE T == {k \in 0 .. K : k \notin A}
<1> SUFFICES ASSUME T # {} PROVE FALSE
  OBVIOUS
<1>1. PICK k \in T : \A m \in T : k <= m
  <2>1. T \in SUBSET Nat
    OBVIOUS
  <2> HIDE DEF T
  <2> QED  BY <2>1, Smallest
<1>2. k \in 1 .. K /\ k - 1 \in 0 .. K /\ k - 1 \notin T
  BY <1>1
<1> QED  BY <1>2

-----------------------------------------------------------------------------
(* Sums of lookups. *)

Each(below, t) == IF t = "a" THEN 1 ELSE 1 + below[t]

Terminal == Seq(Name \cup {"a"})

\* Q has the sums of the beginnings of the terms.
IsSum(Q, terms, below) ==
    /\ Q \in [0 .. Len(terms) -> Nat]
    /\ Q[0] = 0
    /\ \A k \in 1 .. Len(terms) : Q[k] = Q[k - 1] + Each(below, terms[k])

LEMMA SumIs ==
  ASSUME NEW terms \in Terminal, NEW below \in [Name -> Nat]
  PROVE  \E Q : IsSum(Q, terms, below) /\ Mail!LookupsOf(terms, below) = Q[Len(terms)]
<1> DEFINE n == Len(terms)
           step == [p \in (1 .. n) \X Nat |-> p[2] + Each(below, terms[p[1]])]
           IsF(f) == f = [i \in 0 .. Len(terms) |->
                            IF i = 0 THEN 0
                            ELSE f[i - 1] + (IF terms[i] = "a" THEN 1 ELSE 1 + below[terms[i]])]
           c == CHOOSE f : IsF(f)
<1>1. n \in Nat /\ \A k \in 1 .. n : terms[k] \in Name \cup {"a"}
  BY DEF Terminal
<1>2. \A t \in Name \cup {"a"} : Each(below, t) \in Nat
  BY DEF Each
<1>3. step \in [(1 .. n) \X Nat -> Nat] /\ \A k \in 1 .. n, s \in Nat : step[<<k, s>>] = s + Each(below, terms[k])
  <2> HIDE DEF n
  <2> QED  BY <1>1, <1>2
<1> HIDE DEF step, n
<1>4. PICK f : f \in [0 .. n -> Nat] /\ Iterate(f, 0, step, n)
  <2>1. 0 \in Nat /\ step \in [(1 .. n) \X Nat -> Nat] /\ n \in Nat
    BY <1>1, <1>3
  <2> QED  BY <2>1, Iterates
<1>4a. f[0] = 0 /\ \A j \in 1 .. n : f[j] = step[<<j, f[j - 1]>>]
  BY <1>4 DEF Iterate
<1>5. \A j \in 1 .. n : f[j] = f[j - 1] + Each(below, terms[j])
  <2>1. \A j \in 1 .. n : f[j - 1] \in Nat
    BY <1>1, <1>4, <1>4a
  <2> QED  BY <1>3, <1>4a, <2>1
<1>6. IsF(f)
  <2>1. f = [i \in 0 .. n |-> f[i]]
    BY <1>4, Zenon
  <2>2. ASSUME NEW i \in 0 .. n
        PROVE  f[i] = IF i = 0 THEN 0 ELSE f[i - 1] + (IF terms[i] = "a" THEN 1 ELSE 1 + below[terms[i]])
    <3>1. CASE i = 0
      BY <1>4a, <3>1
    <3>2. CASE i # 0
      BY <1>1, <1>5, <3>2 DEF Each
    <3> QED  BY <3>1, <3>2
  <2>3. f = [i \in 0 .. n |->
                IF i = 0 THEN 0 ELSE f[i - 1] + (IF terms[i] = "a" THEN 1 ELSE 1 + below[terms[i]])]
    BY <2>1, <2>2, Zenon
  <2> QED  BY <2>3, Zenon DEF n
<1>7. IsF(c)
  BY <1>6
<1>8. Mail!LookupsOf(terms, below) = c[n]
  BY DEF Mail!LookupsOf, n
<1> HIDE DEF c
<1>9. DOMAIN c = 0 .. n /\ c[0] = 0 /\ \A k \in 1 .. n : c[k] = c[k - 1] + Each(below, terms[k])
  <2>1. /\ DOMAIN c = 0 .. n
        /\ \A i \in 0 .. n : c[i] = IF i = 0 THEN 0 ELSE c[i - 1] + (IF terms[i] = "a" THEN 1 ELSE 1 + below[terms[i]])
    BY <1>7 DEF n
  <2>2. \A i \in 1 .. n : i # 0 /\ i \in 0 .. n
    BY <1>1
  <2>3. 0 \in 0 .. n
    BY <1>1
  <2> QED  BY <2>1, <2>2, <2>3 DEF Each
<1>10. \A k \in 0 .. n : c[k] \in Nat
  <2> DEFINE A == {k \in 0 .. n : c[k] \in Nat}
  <2>1. 0 \in A
    BY <1>1, <1>9
  <2>2. ASSUME NEW j \in 1 .. n, j - 1 \in A PROVE j \in A
    <3>1. Each(below, terms[j]) \in Nat
      BY <1>1, <1>2
    <3> QED  BY <1>1, <1>9, <2>2, <3>1
  <2> HIDE DEF A
  <2>3. \A k \in 0 .. n : k \in A
    BY <1>1, <2>1, <2>2, Onward
  <2> QED  BY <2>3 DEF A
<1>11. c = [i \in 0 .. n |-> c[i]]
  BY <1>7, Zenon DEF n
<1>12. c \in [0 .. n -> Nat]
  BY <1>10, <1>11, Zenon
<1>13. IsSum(c, terms, below)
  BY <1>9, <1>12 DEF IsSum, n
<1> QED  BY <1>8, <1>13, Zenon DEF n

\* Where names cost no less, the terms cost no less; and if they cost the same,
\* each of the names does.
LEMMA SumCompares ==
  ASSUME NEW terms \in Terminal, NEW below \in [Name -> Nat], NEW other \in [Name -> Nat],
         \A k \in 1 .. Len(terms) : terms[k] \in Name => below[terms[k]] <= other[terms[k]]
  PROVE  /\ Mail!LookupsOf(terms, below) \in Nat /\ Mail!LookupsOf(terms, other) \in Nat
         /\ Mail!LookupsOf(terms, below) <= Mail!LookupsOf(terms, other)
         /\ Mail!LookupsOf(terms, below) = Mail!LookupsOf(terms, other)
                => \A k \in 1 .. Len(terms) : terms[k] \in Name => below[terms[k]] = other[terms[k]]
<1> DEFINE n == Len(terms)
<1>1. n \in Nat /\ \A k \in 1 .. n : terms[k] \in Name \cup {"a"}
  BY DEF Terminal
<1>2. PICK Q : IsSum(Q, terms, below) /\ Mail!LookupsOf(terms, below) = Q[n]
  BY SumIs
<1>3. PICK R : IsSum(R, terms, other) /\ Mail!LookupsOf(terms, other) = R[n]
  BY SumIs
<1> HIDE DEF n
<1>4. /\ \A k \in 0 .. n : Q[k] \in Nat /\ R[k] \in Nat
      /\ \A k \in 1 .. n : Q[k] = Q[k - 1] + Each(below, terms[k]) /\ R[k] = R[k - 1] + Each(other, terms[k])
      /\ Q[0] = 0 /\ R[0] = 0
  BY <1>2, <1>3 DEF IsSum, n
<1> DEFINE A == {k \in 0 .. n : /\ Q[k] <= R[k]
                                /\ Q[k] = R[k] => \A i \in 1 .. k : terms[i] \in Name => below[terms[i]] = other[terms[i]]}
<1>5. 0 \in A
  BY <1>1, <1>4
<1>6. ASSUME NEW j \in 1 .. n, j - 1 \in A PROVE j \in A
  <2> DEFINE t == terms[j]
  <2>1. t \in Name \cup {"a"} /\ (t \in Name => below[t] <= other[t] /\ below[t] \in Nat /\ other[t] \in Nat)
    BY <1>1 DEF n
  <2>2. Q[j] = Q[j - 1] + Each(below, t) /\ R[j] = R[j - 1] + Each(other, t)
    BY <1>4
  <2>3. /\ Q[j - 1] \in Nat /\ R[j - 1] \in Nat /\ Q[j] \in Nat /\ R[j] \in Nat /\ Q[j - 1] <= R[j - 1]
        /\ Q[j - 1] = R[j - 1] => \A i \in 1 .. j - 1 : terms[i] \in Name => below[terms[i]] = other[terms[i]]
    BY <1>1, <1>4, <1>6
  <2>4. /\ Each(below, t) \in Nat /\ Each(other, t) \in Nat /\ Each(below, t) <= Each(other, t)
        /\ Each(below, t) = Each(other, t) /\ t \in Name => below[t] = other[t]
    <3>1. CASE t = "a"
      <4>1. t \notin Name
        BY <3>1, CheckAssumption DEF Mail!ConstantsOK
      <4> HIDE DEF t
      <4>2. Each(below, t) = 1 /\ Each(other, t) = 1
        BY <3>1 DEF Each
      <4> QED  BY <4>1, <4>2
    <3>2. CASE t # "a"
      BY <2>1, <3>2 DEF Each
    <3> QED  BY <3>1, <3>2
  <2> HIDE DEF t
  <2>5. Q[j] <= R[j] /\ (Q[j] = R[j] => Q[j - 1] = R[j - 1] /\ Each(below, t) = Each(other, t))
    BY <2>2, <2>3, <2>4
  <2>6. \A i \in 1 .. j : i = j \/ i \in 1 .. j - 1
    BY <1>1
  <2>7. ASSUME Q[j] = R[j], NEW i \in 1 .. j, terms[i] \in Name PROVE below[terms[i]] = other[terms[i]]
    <3>1. CASE i = j
      BY <2>4, <2>5, <2>7, <3>1 DEF t
    <3>2. CASE i \in 1 .. j - 1
      BY <2>3, <2>5, <2>7, <3>2
    <3> QED  BY <2>6, <3>1, <3>2
  <2> QED  BY <2>5, <2>7
<1>7. \A k \in 0 .. n : k \in A
  <2> HIDE DEF A
  <2> QED  BY <1>1, <1>5, <1>6, Onward
<1>8. n \in A
  BY <1>1, <1>7
<1> QED  BY <1>1, <1>2, <1>3, <1>4, <1>8 DEF n

LEMMA SumSame ==
  ASSUME NEW terms \in Terminal, NEW below \in [Name -> Nat], NEW other \in [Name -> Nat],
         \A k \in 1 .. Len(terms) : terms[k] \in Name => below[terms[k]] = other[terms[k]]
  PROVE  Mail!LookupsOf(terms, below) = Mail!LookupsOf(terms, other)
<1>1. \A k \in 1 .. Len(terms) : terms[k] \in Name =>
          below[terms[k]] <= other[terms[k]] /\ other[terms[k]] <= below[terms[k]]
  <2>1. \A m \in Name : below[m] \in Nat /\ other[m] \in Nat
    OBVIOUS
  <2> QED  BY <2>1
<1>2. Mail!LookupsOf(terms, below) <= Mail!LookupsOf(terms, other)
      /\ Mail!LookupsOf(terms, below) \in Nat /\ Mail!LookupsOf(terms, other) \in Nat
  BY <1>1, SumCompares
<1>3. Mail!LookupsOf(terms, other) <= Mail!LookupsOf(terms, below)
  BY <1>1, SumCompares
<1> QED  BY <1>2, <1>3

Zero == [n \in Name |-> 0]

LEMMA SumOfNone ==
  ASSUME NEW terms \in Terminal
  PROVE  Mail!LookupsOf(terms, Zero) = Len(terms)
<1> DEFINE n == Len(terms)
<1>1. n \in Nat /\ \A k \in 1 .. n : terms[k] \in Name \cup {"a"}
  BY DEF Terminal
<1>2. Zero \in [Name -> Nat] /\ \A t \in Name \cup {"a"} : Each(Zero, t) = 1
  BY DEF Zero, Each
<1>3. PICK Q : IsSum(Q, terms, Zero) /\ Mail!LookupsOf(terms, Zero) = Q[n]
  BY <1>2, SumIs
<1> HIDE DEF n
<1>4. Q[0] = 0 /\ \A k \in 1 .. n : Q[k] = Q[k - 1] + 1
  BY <1>1, <1>2, <1>3 DEF IsSum, n
<1> DEFINE A == {k \in 0 .. n : Q[k] = k}
<1>5. 0 \in A /\ \A j \in 1 .. n : j - 1 \in A => j \in A
  BY <1>1, <1>4
<1>6. \A k \in 0 .. n : k \in A
  <2> HIDE DEF A
  <2> QED  BY <1>1, <1>5, Onward
<1>7. n \in A
  BY <1>1, <1>6
<1> QED  BY <1>3, <1>7 DEF n

-----------------------------------------------------------------------------
(* What is written, by levels: u[j] is what the names cost where includes are *)
(* followed j - 1 levels deep.                                                *)

TermsIn(zone, n) == Mail!Terms(zone[n])

IsTotals(u, zone, K) ==
    /\ u \in [0 .. K -> [Name -> Nat]]
    /\ u[0] = Zero
    /\ \A j \in 1 .. K : \A n \in Name : u[j][n] = Mail!LookupsOf(TermsIn(zone, n), u[j - 1])

LEMMA InTerminal ==
  ASSUME NEW zone \in Zones, NEW n \in Name PROVE TermsIn(zone, n) \in Terminal
  BY MailConstants DEF Zones, TermsIn, Terminal

LEMMA TotalsExist ==
  ASSUME NEW zone \in Zones, NEW K \in Nat
  PROVE  \E u : IsTotals(u, zone, K)
<1> DEFINE V == [Name -> Nat]
           step == [p \in (1 .. K) \X V |-> [n \in Name |-> Mail!LookupsOf(TermsIn(zone, n), p[2])]]
<1>1. \A b \in V : \A n \in Name : Mail!LookupsOf(TermsIn(zone, n), b) \in Nat
  <2> SUFFICES ASSUME NEW b \in V, NEW n \in Name PROVE Mail!LookupsOf(TermsIn(zone, n), b) \in Nat
    OBVIOUS
  <2>1. TermsIn(zone, n) \in Terminal
    BY InTerminal
  <2>2. \A k \in 1 .. Len(TermsIn(zone, n)) : TermsIn(zone, n)[k] \in Name => b[TermsIn(zone, n)[k]] <= b[TermsIn(zone, n)[k]]
    <3>1. \A m \in Name : b[m] \in Nat
      OBVIOUS
    <3> QED  BY <3>1
  <2> QED  BY <2>1, <2>2, SumCompares
<1>2. \A j \in 1 .. K, b \in V : step[<<j, b>>] = [n \in Name |-> Mail!LookupsOf(TermsIn(zone, n), b)]
  OBVIOUS
<1>3. step \in [(1 .. K) \X V -> V]
  <2>1. \A p \in (1 .. K) \X V : p[2] \in V
    OBVIOUS
  <2>2. \A p \in (1 .. K) \X V : [n \in Name |-> Mail!LookupsOf(TermsIn(zone, n), p[2])] \in V
    BY <1>1, <2>1
  <2> QED  BY <2>2
<1>4. Zero \in V
  BY DEF Zero
<1> HIDE DEF step, V
<1>5. PICK u : u \in [0 .. K -> V] /\ Iterate(u, Zero, step, K)
  BY <1>3, <1>4, Iterates
<1>6. \A j \in 1 .. K : \A n \in Name : u[j][n] = Mail!LookupsOf(TermsIn(zone, n), u[j - 1])
  <2> SUFFICES ASSUME NEW j \in 1 .. K, NEW n \in Name PROVE u[j][n] = Mail!LookupsOf(TermsIn(zone, n), u[j - 1])
    OBVIOUS
  <2>1. j - 1 \in 0 .. K
    OBVIOUS
  <2>2. u[j] = step[<<j, u[j - 1]>>] /\ u[j - 1] \in V
    BY <1>5, <2>1 DEF Iterate
  <2>3. u[j] = [m \in Name |-> Mail!LookupsOf(TermsIn(zone, m), u[j - 1])]
    BY <1>2, <2>2
  <2> QED  BY <2>3
<1> QED  BY <1>5, <1>6 DEF IsTotals, Iterate, V

LEMMA TotalIs ==
  ASSUME NEW zone \in Zones, NEW K \in Nat, NEW u, IsTotals(u, zone, K + 1), NEW k \in 0 .. K
  PROVE  Mail!Total(zone, k) = u[k + 1][Domain]
<1> DEFINE IsT(f) == f = [j \in 0 .. k |->
                            IF j = 0 THEN [n \in Name |-> Len(Mail!Terms(zone[n]))]
                            ELSE [n \in Name |-> Mail!LookupsOf(Mail!Terms(zone[n]), f[j - 1])]]
           c == CHOOSE f : IsT(f)
           g == [j \in 0 .. k |-> u[j + 1]]
<1>1. \A j \in 0 .. k : j + 1 \in 1 .. K + 1 /\ (j + 1) - 1 = j /\ j \in 0 .. K + 1 /\ k \in Nat
  OBVIOUS
<1>2. \A j \in 0 .. K + 1 : u[j] = [n \in Name |-> u[j][n]]
  BY DEF IsTotals
<1>3. \A j \in 1 .. K + 1 : u[j] = [n \in Name |-> Mail!LookupsOf(Mail!Terms(zone[n]), u[j - 1])]
  <2> SUFFICES ASSUME NEW j \in 1 .. K + 1
               PROVE  u[j] = [n \in Name |-> Mail!LookupsOf(Mail!Terms(zone[n]), u[j - 1])]
    OBVIOUS
  <2>1. u[j] = [n \in Name |-> u[j][n]]
    BY <1>2
  <2>2. \A n \in Name : u[j][n] = Mail!LookupsOf(Mail!Terms(zone[n]), u[j - 1])
    BY DEF IsTotals, TermsIn
  <2> QED  BY <2>1, <2>2, Zenon
<1>4. u[1] = [n \in Name |-> Len(Mail!Terms(zone[n]))]
  <2>1. u[1] = [n \in Name |-> Mail!LookupsOf(Mail!Terms(zone[n]), Zero)]
    <3>1. 1 \in 1 .. K + 1 /\ 1 - 1 = 0
      OBVIOUS
    <3>2. u[1] = [n \in Name |-> Mail!LookupsOf(Mail!Terms(zone[n]), u[1 - 1])]
      BY <1>3, <3>1, Zenon
    <3> QED  BY <3>1, <3>2 DEF IsTotals
  <2>2. \A n \in Name : Mail!LookupsOf(Mail!Terms(zone[n]), Zero) = Len(Mail!Terms(zone[n]))
    BY InTerminal, SumOfNone DEF TermsIn
  <2> QED  BY <2>1, <2>2
<1> DEFINE Equation(f, j) == IF j = 0 THEN [n \in Name |-> Len(Mail!Terms(zone[n]))]
                             ELSE [n \in Name |-> Mail!LookupsOf(Mail!Terms(zone[n]), f[j - 1])]
<1>5. \A j \in 0 .. k : g[j] = Equation(g, j)
  <2> SUFFICES ASSUME NEW j \in 0 .. k PROVE g[j] = Equation(g, j)
    OBVIOUS
  <2>1. CASE j = 0
    BY <1>4, <2>1
  <2>2. CASE j # 0
    <3>1. g[j] = u[j + 1] /\ g[j - 1] = u[j] /\ (j - 1) + 1 = j
      BY <2>2
    <3>2. u[j + 1] = [n \in Name |-> Mail!LookupsOf(Mail!Terms(zone[n]), u[j])]
      <4>1. u[j + 1] = [n \in Name |-> Mail!LookupsOf(Mail!Terms(zone[n]), u[(j + 1) - 1])]
        BY <1>1, <1>3, Zenon
      <4> QED  BY <1>1, <4>1, Zenon
    <3> HIDE DEF g
    <3>3. [n \in Name |-> Mail!LookupsOf(Mail!Terms(zone[n]), u[j])]
              = [n \in Name |-> Mail!LookupsOf(Mail!Terms(zone[n]), g[j - 1])]
      BY <3>1
    <3> QED  BY <2>2, <3>1, <3>2, <3>3
  <2> QED  BY <2>1, <2>2
<1>6. IsT(g)
  <2>1. g = [j \in 0 .. k |-> g[j]]
    OBVIOUS
  <2> HIDE DEF g, Equation
  <2>2. g = [j \in 0 .. k |-> Equation(g, j)]
    BY <1>5, <2>1, Zenon
  <2> QED  BY <2>2, Zenon DEF Equation
<1>7. IsT(c)
  <2> HIDE DEF g
  <2> QED  BY <1>6
<1>8. Mail!Total(zone, k) = c[k][Domain]
  BY DEF Mail!Total
<1> HIDE DEF c, g
<1>9. c[0] = u[1] /\ \A j \in 1 .. k : c[j - 1] = u[j] => c[j] = u[j + 1]
  <2>1. \A j \in 0 .. k : c[j] = Equation(c, j)
    BY <1>7, Zenon
  <2>2. c[0] = u[1]
    <3>1. 0 \in 0 .. k
      OBVIOUS
    <3>2. c[0] = Equation(c, 0)
      BY <2>1, <3>1, Zenon
    <3> QED  BY <1>4, <3>2
  <2>3. ASSUME NEW j \in 1 .. k, c[j - 1] = u[j] PROVE c[j] = u[j + 1]
    <3>1. j # 0 /\ j \in 0 .. k
      OBVIOUS
    <3>2. c[j] = [n \in Name |-> Mail!LookupsOf(Mail!Terms(zone[n]), c[j - 1])]
      BY <2>1, <3>1
    <3>3. u[j + 1] = [n \in Name |-> Mail!LookupsOf(Mail!Terms(zone[n]), u[j])]
      <4>1. u[j + 1] = [n \in Name |-> Mail!LookupsOf(Mail!Terms(zone[n]), u[(j + 1) - 1])]
        BY <1>1, <1>3, <3>1, Zenon
      <4> QED  BY <1>1, <3>1, <4>1, Zenon
    <3> QED  BY <2>3, <3>2, <3>3, Zenon
  <2> QED  BY <2>2, <2>3
<1> DEFINE A == {j \in 0 .. k : c[j] = u[j + 1]}
<1>10. k \in Nat /\ k \in 0 .. k /\ 0 \in 0 .. k
  OBVIOUS
<1>11. 0 \in A
  BY <1>9, <1>10
<1>12. \A j \in 1 .. k : j - 1 \in A => j \in A
  BY <1>9
<1>13. \A j \in 0 .. k : j \in A
  <2> HIDE DEF A
  <2> QED  BY <1>10, <1>11, <1>12, Onward
<1> QED  BY <1>8, <1>10, <1>13

\* One level more never costs less.
LEMMA TotalsGrow ==
  ASSUME NEW zone \in Zones, NEW K \in Nat, NEW u, IsTotals(u, zone, K)
  PROVE  \A j \in 1 .. K : \A n \in Name : u[j - 1][n] <= u[j][n]
<1> DEFINE A == {j \in 0 .. K : j # 0 => \A n \in Name : u[j - 1][n] <= u[j][n]}
<1>1. 0 \in A
  OBVIOUS
<1>2. \A j \in 0 .. K : u[j] \in [Name -> Nat] /\ \A n \in Name : u[j][n] \in Nat
  BY DEF IsTotals
<1>3. ASSUME NEW j \in 1 .. K, j - 1 \in A PROVE j \in A
  <2> SUFFICES ASSUME NEW n \in Name PROVE u[j - 1][n] <= u[j][n]
    OBVIOUS
  <2>1. u[j][n] \in Nat /\ u[j - 1] \in [Name -> Nat]
    BY <1>2
  <2>2. CASE j = 1
    <3>1. u[j - 1][n] = 0
      BY <2>2 DEF IsTotals, Zero
    <3> QED  BY <2>1, <3>1
  <2>3. CASE j # 1
    <3>1. j - 1 \in 1 .. K /\ j - 2 \in 0 .. K /\ (j - 1) - 1 = j - 2
      BY <2>3
    <3>2. u[j - 2] \in [Name -> Nat] /\ \A m \in Name : u[j - 2][m] <= u[j - 1][m]
      BY <1>2, <1>3, <3>1
    <3>3. u[j][n] = Mail!LookupsOf(TermsIn(zone, n), u[j - 1]) /\ u[j - 1][n] = Mail!LookupsOf(TermsIn(zone, n), u[j - 2])
      BY <3>1 DEF IsTotals
    <3> QED  BY <2>1, <3>2, <3>3, InTerminal, SumCompares
  <2> QED  BY <2>2, <2>3
<1>4. \A j \in 0 .. K : j \in A
  <2> HIDE DEF A
  <2> QED  BY <1>1, <1>3, Onward
<1> QED  BY <1>4

\* Where a level more costs nothing, the next costs nothing.
LEMMA TotalsSettle ==
  ASSUME NEW zone \in Zones, NEW K \in Nat, NEW u, IsTotals(u, zone, K)
  PROVE  \A j \in 2 .. K : \A n \in Name : u[j - 2][n] = u[j - 1][n] => u[j - 1][n] = u[j][n]
<1> DEFINE A == {j \in 0 .. K : j >= 2 => \A n \in Name : u[j - 2][n] = u[j - 1][n] => u[j - 1][n] = u[j][n]}
<1>1. 0 \in A
  OBVIOUS
<1>2. \A j \in 0 .. K : u[j] \in [Name -> Nat] /\ \A n \in Name : u[j][n] \in Nat
  BY DEF IsTotals
<1>3. ASSUME NEW j \in 1 .. K, j - 1 \in A PROVE j \in A
  <2> SUFFICES ASSUME j >= 2, NEW n \in Name, u[j - 2][n] = u[j - 1][n] PROVE u[j - 1][n] = u[j][n]
    OBVIOUS
  <2> DEFINE terms == TermsIn(zone, n)
  <2>1. j - 1 \in 1 .. K /\ j - 2 \in 0 .. K /\ (j - 1) - 1 = j - 2 /\ j - 1 \in 0 .. K
    OBVIOUS
  <2>2. u[j - 2] \in [Name -> Nat] /\ u[j - 1] \in [Name -> Nat] /\ terms \in Terminal
    BY <1>2, <2>1, InTerminal
  <2>3. u[j][n] = Mail!LookupsOf(terms, u[j - 1]) /\ u[j - 1][n] = Mail!LookupsOf(terms, u[j - 2])
    BY <2>1 DEF IsTotals
  <2> HIDE DEF terms
  <2>4. \A k \in 1 .. Len(terms) : terms[k] \in Name => u[j - 2][terms[k]] = u[j - 1][terms[k]]
    <3>1. CASE j = 2
      <4>1. u[0] = Zero /\ u[j - 2] = Zero
        BY <3>1 DEF IsTotals
      <4>2. u[j - 1][n] = 0
        BY <3>1, <4>1 DEF Zero
      <4>3. u[j - 1][n] = Len(terms)
        BY <2>2, <2>3, <4>1, SumOfNone
      <4>4. Len(terms) = 0
        BY <4>2, <4>3
      <4> QED  BY <4>4
    <3>2. CASE j # 2
      <4>1. j - 3 \in 0 .. K /\ j - 1 >= 2 /\ (j - 1) - 2 = j - 3
        BY <3>2
      <4>2. \A m \in Name : u[j - 3][m] = u[j - 2][m] => u[j - 2][m] = u[j - 1][m]
        BY <1>3, <2>1, <4>1
      <4>3. u[j - 3] \in [Name -> Nat] /\ u[j - 2][n] = Mail!LookupsOf(terms, u[j - 3])
        <5>1. j - 2 \in 1 .. K /\ (j - 2) - 1 = j - 3
          BY <4>1
        <5> QED  BY <1>2, <4>1, <5>1 DEF IsTotals, terms
      <4>4. \A m \in Name : u[j - 3][m] <= u[j - 2][m]
        <5>1. j - 2 \in 1 .. K /\ (j - 2) - 1 = j - 3
          BY <4>1
        <5> QED  BY <5>1, TotalsGrow
      <4>5. \A k \in 1 .. Len(terms) : terms[k] \in Name => u[j - 3][terms[k]] = u[j - 2][terms[k]]
        <5>1. Mail!LookupsOf(terms, u[j - 3]) = Mail!LookupsOf(terms, u[j - 2])
          BY <2>3, <4>3
        <5> QED  BY <2>2, <4>3, <4>4, <5>1, SumCompares
      <4> QED  BY <4>2, <4>5
    <3> QED  BY <3>1, <3>2
  <2>5. Mail!LookupsOf(terms, u[j - 2]) = Mail!LookupsOf(terms, u[j - 1])
    BY <2>2, <2>4, SumSame
  <2> QED  BY <2>3, <2>5
<1>4. \A j \in 0 .. K : j \in A
  <2> HIDE DEF A
  <2> QED  BY <1>1, <1>3, Onward
<1>5. \A j \in 2 .. K : j \in 0 .. K /\ j >= 2
  OBVIOUS
<1> QED  BY <1>4, <1>5

-----------------------------------------------------------------------------
(* The count is never more than what is written. *)

\* What the names cost at most one level deeper.
AtMost(sub, depth, below) ==
    depth # MaxDepth =>
        \A m \in Name : \A s \in SUBSET Name : sub[<<m, depth + 1, s>>].lookups <= below[m]

LEMMA FollowBound ==
  ASSUME NEW zone, NEW sub \in [Place -> State], NEW depth \in 0 .. MaxDepth,
         NEW acc \in State, NEW t \in Name \cup {"a"}, NEW below \in [Name -> Nat], NEW q \in Nat,
         acc.lookups <= q, AtMost(sub, depth, below)
  PROVE  Follow(zone, sub, depth, acc, t).lookups <= q + Each(below, t)
<1>1. acc.lookups \in Nat /\ Each(below, t) \in Nat /\ Each(below, t) >= 1
  BY DEF State, Each
<1>2. CASE t = "a" \/ depth = MaxDepth \/ t \in acc.seen \/ acc.lookups + 1 > MaxBranch
  <2>1. Follow(zone, sub, depth, acc, t) = [acc EXCEPT !.lookups = acc.lookups + 1]
    BY <1>2 DEF Follow
  <2>2. Follow(zone, sub, depth, acc, t).lookups = acc.lookups + 1
    BY <2>1 DEF State
  <2> QED  BY <1>1, <2>2
<1>3. CASE ~(t = "a" \/ depth = MaxDepth \/ t \in acc.seen \/ acc.lookups + 1 > MaxBranch)
  <2>1. t \in Name /\ depth + 1 \in 0 .. MaxDepth /\ acc.seen \cup {t} \in SUBSET Name
    BY <1>3, MailConstants DEF State
  <2>2. <<t, depth + 1, acc.seen \cup {t}>> \in Place
    BY <2>1 DEF Place
  <2>3. PICK s \in State : s = sub[<<t, depth + 1, acc.seen \cup {t}>>]
    BY <2>2
  <2>4. s.lookups \in Nat /\ s.lookups <= below[t] /\ below[t] \in Nat /\ Each(below, t) = 1 + below[t]
    BY <1>3, <2>1, <2>3 DEF State, AtMost, Each
  <2>5. \/ Follow(zone, sub, depth, acc, t).lookups = acc.lookups + 1
        \/ Follow(zone, sub, depth, acc, t).lookups = acc.lookups + 1 + s.lookups
    BY <1>3, <2>3 DEF Follow
  <2> QED  BY <1>1, <2>4, <2>5
<1> QED  BY <1>2, <1>3

LEMMA WalkBound ==
  ASSUME NEW zone \in Zones, NEW sub \in [Place -> State], NEW n \in Name,
         NEW depth \in 0 .. MaxDepth, NEW seen \in SUBSET Name, NEW below \in [Name -> Nat],
         AtMost(sub, depth, below), NEW P,
         IsWalk(P, zone, sub, Mail!Terms(zone[n]), depth, seen)
  PROVE  P[Len(Mail!Terms(zone[n]))].lookups <= Mail!LookupsOf(TermsIn(zone, n), below)
<1> DEFINE terms == Mail!Terms(zone[n])
           len == Len(terms)
<1>1. len \in Nat /\ \A k \in 1 .. len : terms[k] \in Name \cup {"a"}
  BY TermsType
<1>2. \A k \in 0 .. len : P[k] \in State
  BY WalkType
<1>3. terms \in Terminal
  BY InTerminal DEF TermsIn
<1>4. P[0] = Begin(seen) /\ \A k \in 1 .. len : P[k] = Follow(zone, sub, depth, P[k - 1], terms[k])
  BY DEF IsWalk
<1> HIDE DEF terms
<1>5. PICK Q : IsSum(Q, terms, below) /\ Mail!LookupsOf(terms, below) = Q[len]
  BY <1>3, SumIs
<1> HIDE DEF len
<1>6. Q[0] = 0 /\ \A k \in 1 .. len : Q[k] = Q[k - 1] + Each(below, terms[k])
  BY <1>5 DEF IsSum, len
<1>7. \A k \in 0 .. len : Q[k] \in Nat
  BY <1>5 DEF IsSum, len
<1> DEFINE A == {k \in 0 .. len : P[k].lookups <= Q[k]}
<1>8. 0 \in A
  BY <1>1, <1>4, <1>6 DEF Begin
<1>9. ASSUME NEW j \in 1 .. len, j - 1 \in A PROVE j \in A
  <2>1. /\ P[j - 1] \in State /\ Q[j - 1] \in Nat /\ P[j - 1].lookups <= Q[j - 1]
        /\ terms[j] \in Name \cup {"a"}
    BY <1>1, <1>2, <1>7, <1>9
  <2>2. P[j] = Follow(zone, sub, depth, P[j - 1], terms[j]) /\ Q[j] = Q[j - 1] + Each(below, terms[j])
    BY <1>4, <1>6
  <2>3. Follow(zone, sub, depth, P[j - 1], terms[j]).lookups <= Q[j - 1] + Each(below, terms[j])
    BY <2>1, FollowBound
  <2> QED  BY <2>2, <2>3
<1>10. \A k \in 0 .. len : k \in A
  <2> HIDE DEF A
  <2> QED  BY <1>1, <1>8, <1>9, Onward
<1>11. P[len].lookups <= Q[len]
  BY <1>1, <1>10
<1> QED  BY <1>5, <1>11 DEF terms, len, TermsIn

LEMMA KnownIs ==
  ASSUME NEW zone \in Zones, NEW lost \in SUBSET Name
  PROVE  /\ Mail!Known(zone, lost) \in Zones
         /\ \A n \in Name : n \in lost => Mail!Known(zone, lost)[n] = NoRec
         /\ \A n \in Name : n \notin lost => Mail!Known(zone, lost)[n] = zone[n]
         /\ lost = {} => Mail!Known(zone, lost) = zone
<1>1. \A n \in Name : (IF n \in lost THEN Mail!NoRecord ELSE zone[n]) \in AnyRecord
  BY MailConstants DEF NoRec, Zones
<1>2. Mail!Known(zone, lost) = [n \in Name |-> IF n \in lost THEN Mail!NoRecord ELSE zone[n]]
  BY DEF Mail!Known
<1>3. lost = {} => Mail!Known(zone, lost) = zone
  BY <1>2 DEF Zones
<1> QED  BY <1>1, <1>2, <1>3 DEF Zones, NoRec

\* Whatever names are not answered.
LEMMA CountIsBounded ==
  ASSUME NEW zone \in Zones, NEW lost \in SUBSET Name, NEW K \in Nat, K > MaxDepth, NEW u, IsTotals(u, zone, K)
  PROVE  \A k \in 0 .. MaxDepth : \A n \in Name : \A seen \in SUBSET Name :
             CountOf(Mail!Known(zone, lost))[<<n, MaxDepth - k, seen>>].lookups <= u[k + 1][n]
<1> DEFINE known == Mail!Known(zone, lost)
           c == CountOf(known)
           A == {k \in 0 .. MaxDepth : \A n \in Name : \A seen \in SUBSET Name :
                    c[<<n, MaxDepth - k, seen>>].lookups <= u[k + 1][n]}
<1>1. MaxDepth \in Nat /\ known \in Zones
  BY MailConstants, KnownIs
<1>2. \A n \in Name : (n \in lost => known[n] = NoRec) /\ (n \notin lost => known[n] = zone[n])
  BY KnownIs
<1> HIDE DEF known
<1>3. /\ c \in [Place -> State]
      /\ \A n \in Name, depth \in 0 .. MaxDepth, seen \in SUBSET Name :
             \E P : /\ IsWalk(P, known, c, Mail!Terms(known[n]), depth, seen)
                    /\ c[<<n, depth, seen>>] = P[Len(Mail!Terms(known[n]))]
  BY <1>1, CountOfIs
<1> HIDE DEF c
<1>4. ASSUME NEW k \in 0 .. MaxDepth, AtMost(c, MaxDepth - k, u[k]) PROVE k \in A
  <2> SUFFICES ASSUME NEW n \in Name, NEW seen \in SUBSET Name
               PROVE  c[<<n, MaxDepth - k, seen>>].lookups <= u[k + 1][n]
    OBVIOUS
  <2>1. MaxDepth - k \in 0 .. MaxDepth /\ k + 1 \in 1 .. K /\ (k + 1) - 1 = k /\ k \in 0 .. K
    BY <1>1
  <2>2. u[k] \in [Name -> Nat] /\ u[k + 1] \in [Name -> Nat]
    BY <2>1 DEF IsTotals
  <2>3. u[k + 1][n] = Mail!LookupsOf(TermsIn(zone, n), u[k])
    BY <2>1 DEF IsTotals
  <2>4. PICK P : /\ IsWalk(P, known, c, Mail!Terms(known[n]), MaxDepth - k, seen)
                 /\ c[<<n, MaxDepth - k, seen>>] = P[Len(Mail!Terms(known[n]))]
    BY <1>3, <2>1
  <2>5. CASE n \in lost
    <3>1. Mail!Terms(known[n]) = << >>
      BY <1>2, <2>5, MailConstants
    <3>2. c[<<n, MaxDepth - k, seen>>] = Begin(seen)
      BY <2>4, <3>1 DEF IsWalk
    <3>3. u[k + 1][n] \in Nat
      BY <2>2
    <3> QED  BY <3>2, <3>3 DEF Begin
  <2>6. CASE n \notin lost
    <3>1. known[n] = zone[n] /\ TermsIn(known, n) = TermsIn(zone, n)
      BY <1>2, <2>6 DEF TermsIn
    <3>2. P[Len(Mail!Terms(known[n]))].lookups <= Mail!LookupsOf(TermsIn(known, n), u[k])
      BY <1>1, <1>3, <1>4, <2>1, <2>2, <2>4, WalkBound
    <3> QED  BY <2>3, <2>4, <3>1, <3>2
  <2> QED  BY <2>5, <2>6
<1>5. 0 \in A
  <2>1. 0 \in 0 .. MaxDepth /\ MaxDepth - 0 = MaxDepth
    BY <1>1
  <2>2. AtMost(c, MaxDepth - 0, u[0])
    BY <2>1 DEF AtMost
  <2> HIDE DEF A
  <2> QED  BY <1>4, <2>1, <2>2
<1>6. ASSUME NEW j \in 1 .. MaxDepth, j - 1 \in A PROVE j \in A
  <2>1. j \in 0 .. MaxDepth /\ (MaxDepth - j) + 1 = MaxDepth - (j - 1) /\ (j - 1) + 1 = j
    BY <1>1
  <2>2. \A m \in Name : \A s \in SUBSET Name : c[<<m, MaxDepth - (j - 1), s>>].lookups <= u[j][m]
    BY <1>6, <2>1
  <2>3. AtMost(c, MaxDepth - j, u[j])
    BY <2>1, <2>2 DEF AtMost
  <2> HIDE DEF A
  <2> QED  BY <1>4, <2>1, <2>3
<1>7. \A k \in 0 .. MaxDepth : k \in A
  <2> HIDE DEF A
  <2> QED  BY <1>1, <1>5, <1>6, Onward
<1> QED  BY <1>7 DEF known, c

\* If what is written comes to an end, it is no less than what is counted.
LEMMA BoundedByTruth ==
  ASSUME NEW zone \in Zones, NEW lost \in SUBSET Name, NEW N \in Nat,
         Mail!Total(zone, N) = Mail!Total(zone, N + 1)
  PROVE  Mail!Count(Mail!Known(zone, lost), Domain).lookups <= Mail!Total(zone, N)
<1> DEFINE K == N + MaxDepth + 1
<1>1. MaxDepth \in Nat /\ Domain \in Name /\ K \in Nat /\ K + 1 \in Nat /\ K + 1 > MaxDepth
  BY MailConstants
<1>2. PICK u : IsTotals(u, zone, K + 1)
  BY <1>1, TotalsExist
<1>3. N \in 0 .. K /\ N + 1 \in 0 .. K
  BY <1>1
<1> HIDE DEF K
<1>4. Mail!Total(zone, N) = u[N + 1][Domain]
  BY <1>1, <1>2, <1>3, TotalIs
<1>5. Mail!Total(zone, N + 1) = u[(N + 1) + 1][Domain]
  BY <1>1, <1>2, <1>3, TotalIs
<1>6. \A j \in 0 .. K + 1 : u[j][Domain] \in Nat
  BY <1>1, <1>2 DEF IsTotals
<1>7. CountOf(Mail!Known(zone, lost))[<<Domain, 0, {}>>].lookups <= u[MaxDepth + 1][Domain]
  <2>1. MaxDepth \in 0 .. MaxDepth /\ MaxDepth - MaxDepth = 0 /\ {} \in SUBSET Name
    BY <1>1
  <2>2. CountOf(Mail!Known(zone, lost))[<<Domain, MaxDepth - MaxDepth, {}>>].lookups <= u[MaxDepth + 1][Domain]
    BY <1>1, <1>2, <2>1, CountIsBounded
  <2> QED  BY <2>1, <2>2
<1>8. Mail!Count(Mail!Known(zone, lost), Domain) = CountOf(Mail!Known(zone, lost))[<<Domain, 0, {}>>]
  BY CountUnfolds DEF CountOf
<1>9. \A j \in 1 .. K + 1 : u[j - 1][Domain] <= u[j][Domain]
  BY <1>1, <1>2, TotalsGrow
<1>10. \A j \in 2 .. K + 1 : u[j - 2][Domain] = u[j - 1][Domain] => u[j - 1][Domain] = u[j][Domain]
  BY <1>1, <1>2, TotalsSettle
\* Up to N the totals grow towards that of N.
<1> DEFINE B == {i \in 0 .. N : u[(N - i) + 1][Domain] <= u[N + 1][Domain]}
<1>11. \A i \in 0 .. N : i \in B
  <2>1. 0 \in B
    BY <1>3, <1>6, <1>1
  <2>2. ASSUME NEW i \in 1 .. N, i - 1 \in B PROVE i \in B
    <3>1. (N - i) + 2 \in 1 .. K + 1 /\ ((N - i) + 2) - 1 = (N - i) + 1 /\ (N - (i - 1)) + 1 = (N - i) + 2
          /\ N + 1 \in 0 .. K + 1 /\ (N - i) + 1 \in 0 .. K + 1
      BY <1>1, <1>3
    <3>2. u[(N - i) + 1][Domain] <= u[(N - i) + 2][Domain]
      BY <1>9, <3>1
    <3>3. u[(N - i) + 2][Domain] <= u[N + 1][Domain]
      BY <2>2, <3>1
    <3>4. u[(N - i) + 1][Domain] \in Nat /\ u[(N - i) + 2][Domain] \in Nat /\ u[N + 1][Domain] \in Nat
      BY <1>6, <3>1
    <3> QED  BY <3>2, <3>3, <3>4
  <2> HIDE DEF B
  <2> QED  BY <2>1, <2>2, Onward
\* From N on they stay.
<1> DEFINE C == {i \in 0 .. MaxDepth : /\ u[(N + i) + 1][Domain] = u[N + 1][Domain]
                                       /\ u[(N + i) + 2][Domain] = u[N + 1][Domain]}
<1>12. \A i \in 0 .. MaxDepth : i \in C
  <2>1. 0 \in C
    BY <1>1, <1>4, <1>5
  <2>2. ASSUME NEW i \in 1 .. MaxDepth, i - 1 \in C PROVE i \in C
    <3>1. /\ (N + i) + 2 \in 2 .. K + 1 /\ ((N + i) + 2) - 1 = (N + i) + 1 /\ ((N + i) + 2) - 2 = (N + i)
          /\ (N + (i - 1)) + 1 = N + i /\ (N + (i - 1)) + 2 = (N + i) + 1
      BY <1>1 DEF K
    <3>2. u[N + i][Domain] = u[N + 1][Domain] /\ u[(N + i) + 1][Domain] = u[N + 1][Domain]
      BY <2>2, <3>1
    <3>3. u[(N + i) + 2][Domain] = u[(N + i) + 1][Domain]
      BY <1>10, <3>1, <3>2
    <3> QED  BY <3>2, <3>3
  <2> HIDE DEF C
  <2> QED  BY <1>1, <2>1, <2>2, Onward
<1>13. u[MaxDepth + 1][Domain] <= u[N + 1][Domain]
  <2>1. CASE MaxDepth <= N
    <3>1. N - MaxDepth \in 0 .. N /\ N - (N - MaxDepth) = MaxDepth
      BY <1>1, <2>1
    <3>2. u[(N - (N - MaxDepth)) + 1][Domain] <= u[N + 1][Domain]
      BY <1>11, <3>1
    <3> QED  BY <3>1, <3>2
  <2>2. CASE MaxDepth > N
    <3>1. MaxDepth - N \in 0 .. MaxDepth /\ N + (MaxDepth - N) = MaxDepth /\ N + 1 \in 0 .. K + 1
      BY <1>1, <1>3, <2>2
    <3>2. u[(N + (MaxDepth - N)) + 1][Domain] = u[N + 1][Domain]
      BY <1>12, <3>1
    <3> QED  BY <1>6, <3>1, <3>2
  <2> QED  BY <1>1, <2>1, <2>2
<1>14. /\ u[MaxDepth + 1][Domain] \in Nat /\ u[N + 1][Domain] \in Nat
       /\ CountOf(Mail!Known(zone, lost))[<<Domain, 0, {}>>].lookups \in Nat
  <2>1. MaxDepth + 1 \in 0 .. K + 1 /\ N + 1 \in 0 .. K + 1
    BY <1>1, <1>3 DEF K
  <2>2. CountOf(Mail!Known(zone, lost)) \in [Place -> State]
    BY KnownIs, CountOfIs
  <2>3. <<Domain, 0, {}>> \in Place
    BY <1>1 DEF Place
  <2>4. CountOf(Mail!Known(zone, lost))[<<Domain, 0, {}>>] \in State
    BY <2>2, <2>3
  <2> QED  BY <1>6, <2>1, <2>4 DEF State
<1> QED  BY <1>4, <1>7, <1>8, <1>13, <1>14

-----------------------------------------------------------------------------
(* What is reached. *)

Includes(zone, n) == Mail!Included(zone, n)

More(zone, s) == s \cup UNION {Includes(zone, n) : n \in s}

IsReach(r, zone, K) ==
    /\ r \in [0 .. K -> SUBSET Name]
    /\ r[0] = {Domain}
    /\ \A j \in 1 .. K : r[j] = More(zone, r[j - 1])

LEMMA MoreIs ==
  ASSUME NEW zone, NEW s \in SUBSET Name
  PROVE  /\ More(zone, s) \in SUBSET Name
         /\ \A m : m \in More(zone, s) <=> m \in s \/ \E n \in s : m \in Includes(zone, n)
<1>1. \A n : Includes(zone, n) \subseteq Name
  BY DEF Includes, Mail!Included
<1> QED  BY <1>1 DEF More

LEMMA ReachExists ==
  ASSUME NEW zone, NEW K \in Nat
  PROVE  \E r : IsReach(r, zone, K)
<1> DEFINE V == SUBSET Name
           step == [p \in (1 .. K) \X V |-> More(zone, p[2])]
<1>1. \A s \in V : More(zone, s) \in V
  BY MoreIs
<1>2. \A j \in 1 .. K, s \in V : step[<<j, s>>] = More(zone, s)
  OBVIOUS
<1>3. step \in [(1 .. K) \X V -> V]
  <2>1. \A p \in (1 .. K) \X V : p[2] \in V
    OBVIOUS
  <2> HIDE DEF V
  <2> QED  BY <1>1, <2>1
<1>4. {Domain} \in V
  BY MailConstants
<1> HIDE DEF step, V
<1>5. PICK r : r \in [0 .. K -> V] /\ Iterate(r, {Domain}, step, K)
  BY <1>3, <1>4, Iterates
<1>6. \A j \in 1 .. K : r[j] = More(zone, r[j - 1])
  <2> SUFFICES ASSUME NEW j \in 1 .. K PROVE r[j] = More(zone, r[j - 1])
    OBVIOUS
  <2>1. j - 1 \in 0 .. K
    OBVIOUS
  <2> QED  BY <1>2, <1>5, <2>1 DEF Iterate
<1> QED  BY <1>5, <1>6 DEF IsReach, Iterate, V

LEMMA ReachIs ==
  ASSUME NEW zone, NEW K \in Nat, NEW r, IsReach(r, zone, K), NEW k \in 0 .. K
  PROVE  Mail!Reach(zone, k) = r[k]
<1> DEFINE Equation(f, j) == IF j = 0 THEN {Domain} ELSE f[j - 1] \cup (UNION {Mail!Included(zone, n) : n \in f[j - 1]})
           IsR(f) == f = [j \in 0 .. k |-> IF j = 0 THEN {Domain} ELSE f[j - 1] \cup (UNION {Mail!Included(zone, n) : n \in f[j - 1]})]
           c == CHOOSE f : IsR(f)
           g == [j \in 0 .. k |-> r[j]]
<1>1. k \in Nat /\ 0 \in 0 .. k /\ k \in 0 .. k /\ \A j \in 1 .. k : j \in 1 .. K /\ j - 1 \in 0 .. k /\ j \in 0 .. k /\ j # 0
  OBVIOUS
<1>2. r[0] = {Domain} /\ \A j \in 1 .. k : r[j] = r[j - 1] \cup (UNION {Mail!Included(zone, n) : n \in r[j - 1]})
  BY <1>1 DEF IsReach, More, Includes
<1>3. \A j \in 0 .. k : g[j] = Equation(g, j)
  <2> SUFFICES ASSUME NEW j \in 0 .. k PROVE g[j] = Equation(g, j)
    OBVIOUS
  <2>1. CASE j = 0
    BY <1>2, <2>1
  <2>2. CASE j # 0
    <3>1. j \in 1 .. k /\ g[j] = r[j] /\ g[j - 1] = r[j - 1]
      BY <2>2
    <3> HIDE DEF g
    <3> QED  BY <1>2, <2>2, <3>1
  <2> QED  BY <2>1, <2>2
<1>4. IsR(g)
  <2>1. g = [j \in 0 .. k |-> g[j]]
    OBVIOUS
  <2> HIDE DEF g, Equation
  <2>2. g = [j \in 0 .. k |-> Equation(g, j)]
    BY <1>3, <2>1, Zenon
  <2> QED  BY <2>2, Zenon DEF Equation
<1>5. IsR(c)
  <2> HIDE DEF g
  <2> QED  BY <1>4
<1>6. Mail!Reach(zone, k) = c[k]
  BY DEF Mail!Reach
<1> HIDE DEF c, g
<1>7. \A j \in 0 .. k : c[j] = Equation(c, j)
  BY <1>5, Zenon
<1> DEFINE A == {j \in 0 .. k : c[j] = r[j]}
<1>8. 0 \in A
  <2>1. c[0] = Equation(c, 0)
    BY <1>1, <1>7, Zenon
  <2> QED  BY <1>1, <1>2, <2>1
<1>9. ASSUME NEW j \in 1 .. k, j - 1 \in A PROVE j \in A
  <2>1. c[j] = Equation(c, j) /\ j # 0 /\ j \in 0 .. k
    BY <1>1, <1>7, Zenon
  <2>2. c[j - 1] = r[j - 1]
    BY <1>9
  <2> QED  BY <1>2, <2>1, <2>2
<1>10. \A j \in 0 .. k : j \in A
  <2> HIDE DEF A
  <2> QED  BY <1>1, <1>8, <1>9, Onward
<1> QED  BY <1>1, <1>6, <1>10

LEMMA ReachGrows ==
  ASSUME NEW zone, NEW K \in Nat, NEW r, IsReach(r, zone, K), NEW k \in 0 .. K
  PROVE  \A j \in 0 .. k : r[j] \subseteq r[k]
<1> DEFINE A == {i \in 0 .. k : r[k - i] \subseteq r[k]}
<1>1. k \in Nat /\ 0 \in A
  OBVIOUS
<1>2. ASSUME NEW i \in 1 .. k, i - 1 \in A PROVE i \in A
  <2>1. (k - (i - 1)) \in 1 .. K /\ (k - (i - 1)) - 1 = k - i /\ k - i \in 0 .. K
    OBVIOUS
  <2>2. r[k - (i - 1)] = More(zone, r[k - i])
    BY <2>1 DEF IsReach
  <2> QED  BY <1>2, <2>2 DEF More
<1>3. \A i \in 0 .. k : i \in A
  <2> HIDE DEF A
  <2> QED  BY <1>1, <1>2, Onward
<1>4. \A j \in 0 .. k : k - j \in 0 .. k /\ k - (k - j) = j
  OBVIOUS
<1> QED  BY <1>3, <1>4

\* Whatever is reached, other than the domain, is included by what was reached
\* a step earlier.
LEMMA Came ==
  ASSUME NEW zone, NEW K \in Nat, NEW r, IsReach(r, zone, K), NEW k \in 0 .. K, NEW m \in r[k], m # Domain
  PROVE  \E j \in 1 .. k : m \in r[j] /\ m \notin r[j - 1] /\ \E n \in r[j - 1] : m \in Includes(zone, n)
<1> DEFINE T == {j \in 0 .. k : m \in r[j]}
<1>1. PICK j \in T : \A i \in T : j <= i
  <2>1. T \in SUBSET Nat /\ T # {}
    OBVIOUS
  <2> HIDE DEF T
  <2> QED  BY <2>1, Smallest
<1>2. r[0] = {Domain}
  BY DEF IsReach
<1>3. j \in 1 .. k /\ j - 1 \in 0 .. k /\ j - 1 \notin T /\ j \in 1 .. K
  BY <1>1, <1>2
<1>4. m \in r[j] /\ m \notin r[j - 1]
  BY <1>3
<1>5. r[j] = More(zone, r[j - 1])
  BY <1>3 DEF IsReach
<1> QED  BY <1>3, <1>4, <1>5 DEF More

All(zone) == Mail!Reach(zone, Mail!Cardinality(Name))

\* Every name of V other than the domain is included by exactly one term.
IsIncludeTree(zone, V) ==
    /\ V \in SUBSET Name /\ Domain \in V
    /\ \A n \in V : Includes(zone, n) \subseteq V \ {Domain}
    /\ \A n \in V : \A p \in V :
          \A i \in 1 .. Len(TermsIn(zone, n)) : \A j \in 1 .. Len(TermsIn(zone, p)) :
             TermsIn(zone, n)[i] \in Name /\ TermsIn(zone, n)[i] = TermsIn(zone, p)[j] => n = p /\ i = j

LEMMA FiniteNames ==
  /\ IsFiniteSet(Name) /\ IsFiniteSet(Query)
  /\ \A S : Mail!Cardinality(S) = Cardinality(S)
<1>1. \A S : (Mail!IsFiniteSet(S) <=> IsFiniteSet(S)) /\ Mail!Cardinality(S) = Cardinality(S)
  BY DEF Mail!IsFiniteSet, IsFiniteSet, Mail!Cardinality, Cardinality
<1> QED  BY <1>1, CheckAssumption DEF Mail!ConstantsOK

LEMMA IncludesIs ==
  ASSUME NEW zone \in Zones, NEW n \in Name
  PROVE  \A m : m \in Includes(zone, n) <=>
             m \in Name /\ \E i \in 1 .. Len(TermsIn(zone, n)) : m = TermsIn(zone, n)[i]
<1>1. DOMAIN TermsIn(zone, n) = 1 .. Len(TermsIn(zone, n))
  BY TermsType DEF TermsIn
<1>2. Includes(zone, n) = {TermsIn(zone, n)[i] : i \in DOMAIN TermsIn(zone, n)} \cap Name
  BY DEF Includes, Mail!Included, Mail!ToSet, TermsIn
<1> QED  BY <1>1, <1>2

\* The includes of the names of V, and what they include.
Edges(zone, V) ==
    UNION {{<<n, i>> : i \in {j \in DOMAIN Mail!Terms(zone[n]) : Mail!Terms(zone[n])[j] \in Name}} : n \in V}

LEMMA EdgesAre ==
  ASSUME NEW zone \in Zones, NEW V \in SUBSET Name
  PROVE  /\ IsFiniteSet(Edges(zone, V))
         /\ \A n \in V : \A i \in 1 .. Len(TermsIn(zone, n)) :
                TermsIn(zone, n)[i] \in Name => <<n, i>> \in Edges(zone, V)
         /\ \A e \in Edges(zone, V) : \E n \in V : \E i \in 1 .. Len(TermsIn(zone, n)) :
                e = <<n, i>> /\ TermsIn(zone, n)[i] \in Name
<1>1. \A n \in V : DOMAIN TermsIn(zone, n) = 1 .. Len(TermsIn(zone, n)) /\ Len(TermsIn(zone, n)) \in Nat
  BY TermsType DEF TermsIn
<1> DEFINE Of(n) == {<<n, i>> : i \in {j \in DOMAIN TermsIn(zone, n) : TermsIn(zone, n)[j] \in Name}}
<1>2. Edges(zone, V) = UNION {Of(n) : n \in V}
  BY DEF Edges, TermsIn
<1>3. \A n \in V : IsFiniteSet(Of(n))
  <2> SUFFICES ASSUME NEW n \in V PROVE IsFiniteSet(Of(n))
    OBVIOUS
  <2>1. IsFiniteSet(1 .. Len(TermsIn(zone, n)))
    BY <1>1, FS_Interval
  <2>2. IsFiniteSet({n} \X (1 .. Len(TermsIn(zone, n))))
    BY <2>1, FS_Singleton, FS_Product
  <2>3. Of(n) \in SUBSET ({n} \X (1 .. Len(TermsIn(zone, n))))
    BY <1>1
  <2> HIDE DEF Of
  <2> QED  BY <2>2, <2>3, FS_Subset
<1>4. IsFiniteSet({Of(n) : n \in V})
  <2>1. IsFiniteSet(V)
    BY FiniteNames, FS_Subset
  <2> HIDE DEF Of
  <2> DEFINE W == {Of(n) : n \in V}
             f == [n \in V |-> Of(n)]
  <2>2. f \in Surjection(V, W)
    BY Fun_IsSurj
  <2> HIDE DEF W, f
  <2>3. IsFiniteSet(W)
    BY <2>1, <2>2, FS_Surjection
  <2> QED  BY <2>3 DEF W
<1>5. IsFiniteSet(Edges(zone, V))
  <2> HIDE DEF Of
  <2>1. \A T \in {Of(n) : n \in V} : IsFiniteSet(T)
    BY <1>3
  <2> QED  BY <1>2, <1>4, <2>1, FS_UNION
<1>6. \A n \in V : \A i \in 1 .. Len(TermsIn(zone, n)) :
          TermsIn(zone, n)[i] \in Name => <<n, i>> \in Edges(zone, V)
  BY <1>1, <1>2
<1>7. \A e \in Edges(zone, V) : \E n \in V : \E i \in 1 .. Len(TermsIn(zone, n)) :
          e = <<n, i>> /\ TermsIn(zone, n)[i] \in Name
  BY <1>1, <1>2
<1> QED  BY <1>5, <1>6, <1>7

LEMMA TreeIs ==
  ASSUME NEW zone \in Zones, Mail!WithinReach(zone)
  PROVE  IsIncludeTree(zone, All(zone)) /\ Mail!Reach(zone, MaxDepth) = All(zone)
<1> DEFINE N == Cardinality(Name)
           V == All(zone)
           E == Edges(zone, V)
<1>1. N \in Nat /\ V = Mail!Reach(zone, N)
  BY FiniteNames, FS_CardinalityType DEF All
<1>2. Mail!Reach(zone, MaxDepth) = V /\ Cardinality(E) = Cardinality(V) - 1
  <2>1. \A S : Mail!Cardinality(S) = Cardinality(S)
    BY FiniteNames
  <2>2. Mail!Reach(zone, MaxDepth) = V /\ Mail!Cardinality(E) = Mail!Cardinality(V) - 1
    BY DEF Mail!WithinReach, All, Edges
  <2> QED  BY <2>1, <2>2
<1> HIDE DEF N, V, E
<1>3. PICK r : IsReach(r, zone, N)
  BY <1>1, ReachExists
<1>4. V = r[N] /\ N \in 0 .. N /\ 0 \in 0 .. N
  BY <1>1, <1>3, ReachIs
<1>5. V \in SUBSET Name /\ Domain \in V
  <2>1. r[0] \subseteq r[N]
    BY <1>1, <1>3, <1>4, ReachGrows
  <2> QED  BY <1>3, <1>4, <2>1 DEF IsReach
<1>6. \A m \in V : m # Domain => \E n \in V : m \in Includes(zone, n)
  <2> SUFFICES ASSUME NEW m \in V, m # Domain PROVE \E n \in V : m \in Includes(zone, n)
    OBVIOUS
  <2>1. PICK j \in 1 .. N : \E n \in r[j - 1] : m \in Includes(zone, n)
    BY <1>1, <1>3, <1>4, Came
  <2>2. r[j - 1] \subseteq V
    <3>1. j - 1 \in 0 .. N
      BY <1>1
    <3> QED  BY <1>1, <1>3, <1>4, <3>1, ReachGrows
  <2> QED  BY <2>1, <2>2
<1> DEFINE target == [e \in E |-> TermsIn(zone, e[1])[e[2]]]
           X == {target[e] : e \in E}
<1>7. /\ IsFiniteSet(E)
      /\ \A n \in V : \A i \in 1 .. Len(TermsIn(zone, n)) : TermsIn(zone, n)[i] \in Name => <<n, i>> \in E
      /\ \A e \in E : \E n \in V : \E i \in 1 .. Len(TermsIn(zone, n)) : e = <<n, i>> /\ TermsIn(zone, n)[i] \in Name
  BY <1>5, EdgesAre DEF E
<1>8. V \ {Domain} \in SUBSET X
  <2> SUFFICES ASSUME NEW m \in V, m # Domain PROVE m \in X
    OBVIOUS
  <2>1. PICK n \in V : m \in Includes(zone, n)
    BY <1>6
  <2>2. PICK i \in 1 .. Len(TermsIn(zone, n)) : m = TermsIn(zone, n)[i] /\ m \in Name
    BY <1>5, <2>1, IncludesIs
  <2>3. <<n, i>> \in E
    BY <1>7, <2>2
  <2> QED  BY <2>2, <2>3
<1>9. target \in Surjection(E, X)
  <2>1. target \in [E -> X] /\ \A x \in X : \E e \in E : target[e] = x
    OBVIOUS
  <2> HIDE DEF target, X
  <2> QED  BY <2>1, Fun_IsSurj
<1>a. \A e \in E : target[e] = TermsIn(zone, e[1])[e[2]]
  OBVIOUS
<1>b. X = {target[e] : e \in E}
  OBVIOUS
<1> HIDE DEF target, X
<1>10. /\ IsFiniteSet(X) /\ Cardinality(X) <= Cardinality(E)
       /\ Cardinality(X) = Cardinality(E) <=> target \in Injection(E, X)
  BY <1>7, <1>9, FS_Surjection
<1>11. IsFiniteSet(V) /\ Cardinality(V) \in Nat /\ Cardinality(V \ {Domain}) = Cardinality(V) - 1
  <2>1. IsFiniteSet(V)
    BY <1>5, FiniteNames, FS_Subset
  <2> QED  BY <1>5, <2>1, FS_CardinalityType, FS_RemoveElement
<1>12. Cardinality(V \ {Domain}) <= Cardinality(X) /\ (Cardinality(X) = Cardinality(V \ {Domain}) => X = V \ {Domain})
  BY <1>8, <1>10, FS_Subset
<1>13. Cardinality(X) \in Nat
  BY <1>10, FS_CardinalityType
<1>14. X = V \ {Domain} /\ target \in Injection(E, X)
  BY <1>2, <1>10, <1>11, <1>12, <1>13
<1>15. \A n \in V : Includes(zone, n) \subseteq V \ {Domain}
  <2> SUFFICES ASSUME NEW n \in V, NEW m \in Includes(zone, n) PROVE m \in X
    BY <1>14
  <2>1. PICK i \in 1 .. Len(TermsIn(zone, n)) : m = TermsIn(zone, n)[i] /\ m \in Name
    BY <1>5, IncludesIs
  <2>2. <<n, i>> \in E
    BY <1>7, <2>1
  <2>3. target[<<n, i>>] = m
    BY <1>a, <2>1, <2>2
  <2> QED  BY <1>b, <2>2, <2>3
<1>16. ASSUME NEW n \in V, NEW p \in V, NEW i \in 1 .. Len(TermsIn(zone, n)), NEW j \in 1 .. Len(TermsIn(zone, p)),
              TermsIn(zone, n)[i] \in Name, TermsIn(zone, n)[i] = TermsIn(zone, p)[j]
       PROVE  n = p /\ i = j
  <2>1. <<n, i>> \in E /\ <<p, j>> \in E
    BY <1>7, <1>16
  <2>2. target[<<n, i>>] = target[<<p, j>>]
    BY <1>a, <1>16, <2>1
  <2>3. <<n, i>> = <<p, j>>
    BY <1>14, <2>1, <2>2 DEF Injection, IsInjective
  <2> QED  BY <2>3
<1> QED  BY <1>2, <1>5, <1>15, <1>16 DEF IsIncludeTree, V

-----------------------------------------------------------------------------
(* Below a name of a tree. *)

First(r, n, d) == n \in r[d] /\ (d # 0 => n \notin r[d - 1])

Closed(zone, C) == \A x \in C : Includes(zone, x) \subseteq C

Below(zone, V, n) == {m \in V : \A C \in SUBSET V : n \in C /\ Closed(zone, C) => m \in C}

\* A tree and the steps in which it is reached.
Grown(zone, V, r, K) ==
    /\ IsIncludeTree(zone, V) /\ IsReach(r, zone, K)
    /\ \A k \in 0 .. K : r[k] \subseteq V
    /\ \A n \in V : \E k \in 0 .. K : n \in r[k]

LEMMA OneParent ==
  ASSUME NEW zone \in Zones, NEW V, IsIncludeTree(zone, V), NEW p \in V, NEW q \in V,
         NEW x \in Includes(zone, p), x \in Includes(zone, q)
  PROVE  p = q
<1>1. p \in Name /\ q \in Name
  BY DEF IsIncludeTree
<1>2. PICK i \in 1 .. Len(TermsIn(zone, p)) : x = TermsIn(zone, p)[i] /\ x \in Name
  BY <1>1, IncludesIs
<1>3. PICK j \in 1 .. Len(TermsIn(zone, q)) : x = TermsIn(zone, q)[j]
  BY <1>1, IncludesIs
<1>4. TermsIn(zone, p)[i] \in Name /\ TermsIn(zone, p)[i] = TermsIn(zone, q)[j]
  BY <1>2, <1>3
<1> QED  BY <1>2, <1>3, <1>4, Zenon DEF IsIncludeTree

LEMMA CameFrom ==
  ASSUME NEW zone \in Zones, NEW V, NEW r, NEW K \in Nat, Grown(zone, V, r, K),
         NEW k \in 0 .. K, NEW m \in r[k], NEW p \in V, m \in Includes(zone, p)
  PROVE  \E j \in 1 .. k : p \in r[j - 1]
<1>1. m # Domain
  BY DEF Grown, IsIncludeTree
<1>2. PICK j \in 1 .. k : \E n \in r[j - 1] : m \in Includes(zone, n)
  BY <1>1, Came DEF Grown
<1>3. PICK n \in r[j - 1] : m \in Includes(zone, n)
  BY <1>2
<1>4. j - 1 \in 0 .. K
  OBVIOUS
<1>5. n \in V
  BY <1>3, <1>4 DEF Grown
<1> QED  BY <1>3, <1>5, OneParent DEF Grown

LEMMA LevelDown ==
  ASSUME NEW zone \in Zones, NEW V, NEW r, NEW K \in Nat, Grown(zone, V, r, K),
         NEW d \in 0 .. K, d < K, NEW n \in V, First(r, n, d), NEW m \in Includes(zone, n)
  PROVE  First(r, m, d + 1)
<1>1. d + 1 \in 1 .. K /\ (d + 1) - 1 = d /\ d + 1 # 0
  OBVIOUS
<1>2. m \in r[d + 1]
  <2>1. r[d + 1] = More(zone, r[d])
    BY <1>1 DEF Grown, IsReach
  <2> QED  BY <2>1 DEF More, First
<1>3. m \notin r[d]
  <2> SUFFICES ASSUME m \in r[d] PROVE FALSE
    OBVIOUS
  <2>1. PICK j \in 1 .. d : n \in r[j - 1]
    BY CameFrom
  <2>2. d # 0 /\ d - 1 \in 0 .. K /\ j - 1 \in 0 .. d - 1
    OBVIOUS
  <2>3. r[j - 1] \subseteq r[d - 1]
    BY <2>2, ReachGrows DEF Grown
  <2> QED  BY <2>1, <2>2, <2>3 DEF First
<1> QED  BY <1>1, <1>2, <1>3 DEF First

LEMMA BelowIs ==
  ASSUME NEW zone \in Zones, NEW V, IsIncludeTree(zone, V), NEW n \in V
  PROVE  /\ n \in Below(zone, V, n) /\ Below(zone, V, n) \subseteq V
         /\ Closed(zone, Below(zone, V, n))
         /\ \A C \in SUBSET V : n \in C /\ Closed(zone, C) => Below(zone, V, n) \subseteq C
<1>1. \A x \in V : Includes(zone, x) \subseteq V
  BY DEF IsIncludeTree
<1> QED  BY <1>1 DEF Below, Closed

LEMMA BelowIncluded ==
  ASSUME NEW zone \in Zones, NEW V, IsIncludeTree(zone, V), NEW n \in V, NEW m \in Includes(zone, n)
  PROVE  m \in V /\ Below(zone, V, m) \subseteq Below(zone, V, n)
<1>1. m \in V
  BY DEF IsIncludeTree
<1>2. m \in Below(zone, V, n)
  BY BelowIs DEF Closed
<1> QED  BY <1>1, <1>2, BelowIs

\* What is below n, other than n, is included by something below n.
LEMMA BelowCame ==
  ASSUME NEW zone \in Zones, NEW V, IsIncludeTree(zone, V), NEW n \in V, NEW x \in Below(zone, V, n), x # n
  PROVE  \E p \in Below(zone, V, n) : x \in Includes(zone, p)
<1> DEFINE C == Below(zone, V, n) \ {x}
<1> SUFFICES ASSUME \A p \in Below(zone, V, n) : x \notin Includes(zone, p) PROVE FALSE
  OBVIOUS
<1>1. C \in SUBSET V /\ n \in C /\ Closed(zone, C)
  BY BelowIs DEF Closed
<1> HIDE DEF C
<1>2. Below(zone, V, n) \subseteq C
  BY <1>1, BelowIs
<1> QED  BY <1>2 DEF C

LEMMA BelowOne ==
  ASSUME NEW zone \in Zones, NEW V, IsIncludeTree(zone, V), NEW n \in V, NEW x \in Below(zone, V, n), x # n
  PROVE  \E m \in Includes(zone, n) : x \in Below(zone, V, m)
<1> DEFINE C == {n} \cup UNION {Below(zone, V, m) : m \in Includes(zone, n)}
<1>1. \A m \in Includes(zone, n) : m \in V /\ m \in Below(zone, V, m) /\ Below(zone, V, m) \subseteq V
                                  /\ Closed(zone, Below(zone, V, m))
  <2> SUFFICES ASSUME NEW m \in Includes(zone, n)
               PROVE  m \in V /\ m \in Below(zone, V, m) /\ Below(zone, V, m) \subseteq V
                      /\ Closed(zone, Below(zone, V, m))
    OBVIOUS
  <2>1. m \in V
    BY BelowIncluded
  <2> QED  BY <2>1, BelowIs
<1>2. C \in SUBSET V /\ n \in C
  BY <1>1
<1>3. Closed(zone, C)
  <2> SUFFICES ASSUME NEW y \in C, NEW z \in Includes(zone, y) PROVE z \in C
    BY DEF Closed
  <2>1. CASE y = n
    BY <1>1, <2>1
  <2>2. CASE y # n
    <3>1. PICK m \in Includes(zone, n) : y \in Below(zone, V, m)
      BY <2>2
    <3>2. z \in Below(zone, V, m)
      BY <1>1, <3>1 DEF Closed
    <3> QED  BY <3>1, <3>2
  <2> QED  BY <2>1, <2>2
<1>4. x \in C
  <2> HIDE DEF C
  <2> QED  BY <1>2, <1>3, BelowIs
<1> QED  BY <1>4

\* Nothing below n is reached before n is.
LEMMA BelowLater ==
  ASSUME NEW zone \in Zones, NEW V, NEW r, NEW K \in Nat, Grown(zone, V, r, K),
         NEW d \in 0 .. K, NEW n \in V, n \notin r[d], NEW x \in Below(zone, V, n)
  PROVE  x \notin r[d]
<1> DEFINE C == {y \in V : y \notin r[d]}
<1>1. Closed(zone, C)
  <2> SUFFICES ASSUME NEW y \in C, NEW z \in Includes(zone, y) PROVE z \in C
    BY DEF Closed
  <2>1. z \in V
    BY DEF Grown, IsIncludeTree
  <2>2. ASSUME z \in r[d] PROVE FALSE
    <3>1. PICK j \in 1 .. d : y \in r[j - 1]
      BY <2>2, CameFrom
    <3>2. j - 1 \in 0 .. d
      OBVIOUS
    <3>3. r[j - 1] \subseteq r[d]
      BY <3>2, ReachGrows DEF Grown
    <3> QED  BY <3>1, <3>3
  <2> QED  BY <2>1, <2>2
<1>2. C \in SUBSET V /\ n \in C
  OBVIOUS
<1> HIDE DEF C
<1>3. x \in C
  BY <1>1, <1>2, BelowIs DEF Grown
<1> QED  BY <1>3 DEF C

\* What n includes is not above n, and has nothing in common below.
LEMMA Apart ==
  ASSUME NEW zone \in Zones, NEW V, NEW r, NEW K \in Nat, Grown(zone, V, r, K),
         NEW d \in 0 .. K, d < K, NEW n \in V, First(r, n, d), NEW s \in Includes(zone, n)
  PROVE  /\ n \notin Below(zone, V, s)
         /\ \A t \in Includes(zone, n) : t # s => t \notin Below(zone, V, s)
<1>1. s \in V
  BY BelowIncluded DEF Grown
<1>2. s \notin r[d] /\ n \in r[d]
  <2>1. First(r, s, d + 1) /\ d + 1 # 0 /\ (d + 1) - 1 = d
    BY LevelDown
  <2> QED  BY <2>1 DEF First
<1>3. n \notin Below(zone, V, s)
  BY <1>1, <1>2, BelowLater
<1>4. ASSUME NEW t \in Includes(zone, n), t # s, t \in Below(zone, V, s) PROVE FALSE
  <2>1. PICK p \in Below(zone, V, s) : t \in Includes(zone, p)
    BY <1>1, <1>4, BelowCame DEF Grown
  <2>2. p \in V
    BY DEF Below
  <2>3. p = n
    BY <1>4, <2>1, <2>2, OneParent DEF Grown
  <2> QED  BY <1>3, <2>1, <2>3
<1> QED  BY <1>3, <1>4

LEMMA Disjoint ==
  ASSUME NEW zone \in Zones, NEW V, NEW r, NEW K \in Nat, Grown(zone, V, r, K),
         NEW d \in 0 .. K, d < K, NEW n \in V, First(r, n, d),
         NEW s \in Includes(zone, n), NEW t \in Includes(zone, n), s # t
  PROVE  Below(zone, V, s) \cap Below(zone, V, t) = {}
<1> DEFINE Both == Below(zone, V, s) \cap Below(zone, V, t)
           T == {k \in 0 .. K : \E x \in Both : x \in r[k]}
<1> SUFFICES ASSUME Both # {} PROVE FALSE
  OBVIOUS
<1>1. s \in V /\ t \in V /\ Both \subseteq V
  BY BelowIncluded DEF Grown, Below
<1>2. T \in SUBSET Nat /\ T # {}
  BY <1>1 DEF Grown
<1>3. PICK k \in T : \A i \in T : k <= i
  <2> HIDE DEF T
  <2> QED  BY <1>2, Smallest
<1>4. PICK x \in Both : x \in r[k]
  OBVIOUS
<1>5. x # s /\ x # t
  BY Apart
<1>6. PICK p \in Below(zone, V, s) : x \in Includes(zone, p)
  BY <1>1, <1>5, BelowCame DEF Grown
<1>7. PICK q \in Below(zone, V, t) : x \in Includes(zone, q)
  BY <1>1, <1>5, BelowCame DEF Grown
<1>8. p = q /\ p \in V
  <2>1. p \in V /\ q \in V
    BY DEF Below
  <2> QED  BY <1>6, <1>7, <2>1, OneParent DEF Grown
<1>9. PICK j \in 1 .. k : p \in r[j - 1]
  BY <1>4, <1>6, <1>8, CameFrom
<1>10. j - 1 \in 0 .. K /\ j - 1 < k
  BY <1>3
<1>11. j - 1 \in T
  BY <1>6, <1>7, <1>8, <1>9, <1>10
<1> QED  BY <1>3, <1>10, <1>11

\* Everything is below the domain.
LEMMA BelowDomain ==
  ASSUME NEW zone \in Zones, NEW V, NEW r, NEW K \in Nat, Grown(zone, V, r, K)
  PROVE  Below(zone, V, Domain) = V
<1>1. Domain \in V
  BY DEF Grown, IsIncludeTree
<1> DEFINE A == {k \in 0 .. K : r[k] \subseteq Below(zone, V, Domain)}
<1>2. 0 \in A
  BY <1>1, BelowIs DEF Grown, IsReach
<1>3. ASSUME NEW j \in 1 .. K, j - 1 \in A PROVE j \in A
  <2>1. r[j] = More(zone, r[j - 1])
    BY DEF Grown, IsReach
  <2>2. Closed(zone, Below(zone, V, Domain))
    BY <1>1, BelowIs DEF Grown
  <2> QED  BY <1>3, <2>1, <2>2 DEF More, Closed
<1>4. \A k \in 0 .. K : k \in A
  <2> HIDE DEF A
  <2> QED  BY <1>2, <1>3, Onward
<1>5. Below(zone, V, Domain) \subseteq V
  BY DEF Below
<1> QED  BY <1>4, <1>5 DEF Grown

-----------------------------------------------------------------------------
(* In a tree, the count is what is written. *)

Under(zone, V, n) == Below(zone, V, n) \ {n}

Missing(zone, s) == \E x \in s : zone[x] = NoRec

\* A state in which the names of passed were added to those seen, at a cost of q.
Holds(zone, acc, seen, passed, q) ==
    /\ acc.seen = seen \cup passed
    /\ acc.lookups = q
    /\ acc.dangling <=> Missing(zone, passed)

\* Unless it is hopeless.
Exactly(zone, V, acc, n, seen, q) ==
    acc.lookups <= MaxBranch => Holds(zone, acc, seen, Under(zone, V, n), q)

\* What count makes of t, one level deeper.
Deeper(zone, V, sub, depth, t, q) ==
    \A s \in SUBSET Name : s \cap Under(zone, V, t) = {} =>
        Exactly(zone, V, sub[<<t, depth + 1, s>>], t, s, q)

LEMMA FollowGrows ==
  ASSUME NEW zone, NEW sub \in [Place -> State], NEW depth \in 0 .. MaxDepth,
         NEW acc \in State, NEW t \in Name \cup {"a"}
  PROVE  Follow(zone, sub, depth, acc, t).lookups >= acc.lookups + 1
<1>1. acc.lookups \in Nat
  BY DEF State
<1>2. CASE t = "a" \/ depth = MaxDepth \/ t \in acc.seen \/ acc.lookups + 1 > MaxBranch
  <2>1. Follow(zone, sub, depth, acc, t) = [acc EXCEPT !.lookups = acc.lookups + 1]
    BY <1>2 DEF Follow
  <2>2. Follow(zone, sub, depth, acc, t).lookups = acc.lookups + 1
    BY <2>1 DEF State
  <2> QED  BY <1>1, <2>2
<1>3. CASE ~(t = "a" \/ depth = MaxDepth \/ t \in acc.seen \/ acc.lookups + 1 > MaxBranch)
  <2>1. t \in Name /\ depth + 1 \in 0 .. MaxDepth /\ acc.seen \cup {t} \in SUBSET Name
    BY <1>3, MailConstants DEF State
  <2>2. <<t, depth + 1, acc.seen \cup {t}>> \in Place
    BY <2>1 DEF Place
  <2>3. PICK s \in State : s = sub[<<t, depth + 1, acc.seen \cup {t}>>]
    BY <2>2
  <2>4. s.lookups \in Nat
    BY DEF State
  <2>5. \/ Follow(zone, sub, depth, acc, t).lookups = acc.lookups + 1
        \/ Follow(zone, sub, depth, acc, t).lookups = acc.lookups + 1 + s.lookups
    BY <1>3, <2>3 DEF Follow
  <2> QED  BY <1>1, <2>4, <2>5
<1> QED  BY <1>2, <1>3

LEMMA FollowExact ==
  ASSUME NEW zone \in Zones, NEW V, IsIncludeTree(zone, V), NEW t \in V,
         NEW sub \in [Place -> State], NEW depth \in 0 .. MaxDepth, depth # MaxDepth,
         NEW acc \in State, NEW seen \in SUBSET Name, NEW passed \in SUBSET Name, NEW q \in Nat, NEW cost \in Nat,
         Holds(zone, acc, seen, passed, q),
         seen \cap Below(zone, V, t) = {}, passed \cap Below(zone, V, t) = {},
         zone[t] = NoRec => cost = 0,
         Deeper(zone, V, sub, depth, t, cost),
         Follow(zone, sub, depth, acc, t).lookups <= MaxBranch
  PROVE  Holds(zone, Follow(zone, sub, depth, acc, t), seen, passed \cup Below(zone, V, t), q + (1 + cost))
<1> DEFINE B == Below(zone, V, t)
           f == Follow(zone, sub, depth, acc, t)
           start == acc.seen \cup {t}
<1>1. t \in B /\ B \subseteq V /\ V \subseteq Name /\ t \in Name
  BY BelowIs DEF IsIncludeTree
<1>2. acc.seen = seen \cup passed /\ acc.lookups = q /\ acc.seen \in SUBSET Name /\ acc.dangling \in BOOLEAN
  BY DEF Holds, State
<1>3. acc.dangling <=> Missing(zone, passed)
  BY DEF Holds
<1>4. t # "a" /\ t \notin acc.seen
  <2>1. t # "a"
    BY <1>1, CheckAssumption DEF Mail!ConstantsOK
  <2> HIDE DEF f
  <2> QED  BY <1>1, <1>2, <2>1
<1>5. acc.lookups + 1 <= MaxBranch
  <2>1. f.lookups >= acc.lookups + 1
    BY <1>1, FollowGrows
  <2>2. f \in State
    BY <1>1, FollowType
  <2>3. f.lookups \in Nat /\ MaxBranch \in Nat /\ f.lookups <= MaxBranch
    BY <2>2, MailConstants DEF State
  <2> HIDE DEF f
  <2> QED  BY <1>2, <2>1, <2>3
<1>6. ~(acc.lookups + 1 > MaxBranch)
  BY <1>2, <1>5, MailConstants
<1>7. CASE zone[t] = NoRec
  <2>1. f = [lookups |-> acc.lookups + 1, seen |-> start, dangling |-> TRUE]
    BY <1>4, <1>6, <1>7 DEF Follow, NoRec
  <2>2. B = {t}
    <3>1. TermsIn(zone, t) = << >>
      BY <1>7, MailConstants DEF TermsIn
    <3>2. Includes(zone, t) = {}
      BY <1>1, <3>1, IncludesIs
    <3>3. {t} \in SUBSET V /\ t \in {t} /\ Closed(zone, {t})
      BY <3>2 DEF Closed
    <3>4. B \subseteq {t}
      BY <3>3, BelowIs
    <3> QED  BY <1>1, <3>4
  <2>3. f.seen = seen \cup (passed \cup B)
    BY <1>2, <2>1, <2>2
  <2>4. f.lookups = q + (1 + cost)
    BY <1>2, <1>7, <2>1
  <2>5. f.dangling <=> Missing(zone, passed \cup B)
    BY <1>1, <1>7, <2>1 DEF Missing
  <2> HIDE DEF f, B
  <2>6. Holds(zone, f, seen, passed \cup B, q + (1 + cost))
    BY <2>3, <2>4, <2>5 DEF Holds
  <2> QED  BY <2>6 DEF f, B
<1>8. CASE zone[t] # NoRec
  <2>1. depth + 1 \in 0 .. MaxDepth /\ start \in SUBSET Name
    BY <1>1, <1>2, MailConstants
  <2>2. <<t, depth + 1, start>> \in Place
    BY <1>1, <2>1 DEF Place
  <2>3. PICK s \in State : s = sub[<<t, depth + 1, start>>]
    BY <2>2
  <2>4. f = [lookups |-> acc.lookups + 1 + s.lookups, seen |-> s.seen, dangling |-> acc.dangling \/ s.dangling]
    BY <1>4, <1>6, <1>8, <2>3 DEF Follow, NoRec
  <2>5. f.lookups = acc.lookups + 1 + s.lookups /\ f.seen = s.seen /\ f.dangling = (acc.dangling \/ s.dangling)
    BY <2>4
  <2>6. s.lookups \in Nat /\ s.lookups <= MaxBranch
    <3>1. s.lookups \in Nat
      BY DEF State
    <3>2. f.lookups <= MaxBranch
      OBVIOUS
    <3> HIDE DEF f
    <3> QED  BY <1>2, <2>5, <3>1, <3>2, MailConstants
  <2>7. start \cap Under(zone, V, t) = {}
    BY <1>2 DEF Under
  <2>8. Holds(zone, s, start, Under(zone, V, t), cost)
    BY <2>1, <2>3, <2>6, <2>7 DEF Deeper, Exactly
  <2> HIDE DEF f
  <2>9. f.seen = seen \cup (passed \cup B)
    BY <1>1, <1>2, <2>5, <2>8 DEF Holds, Under
  <2>10. f.lookups = q + (1 + cost)
    <3>1. s.lookups = cost
      BY <2>8 DEF Holds
    <3> QED  BY <1>2, <2>5, <2>6, <3>1
  <2>11. Missing(zone, Under(zone, V, t)) <=> Missing(zone, B)
    BY <1>8 DEF Missing, Under
  <2>12. s.dangling <=> Missing(zone, B)
    BY <2>8, <2>11 DEF Holds
  <2>13. Missing(zone, passed \cup B) <=> Missing(zone, passed) \/ Missing(zone, B)
    BY DEF Missing
  <2>14. f.dangling <=> Missing(zone, passed \cup B)
    BY <1>3, <2>5, <2>12, <2>13
  <2> HIDE DEF B
  <2>15. Holds(zone, f, seen, passed \cup B, q + (1 + cost))
    BY <2>9, <2>10, <2>14 DEF Holds
  <2> QED  BY <2>15 DEF f, B
<1> QED  BY <1>7, <1>8

-----------------------------------------------------------------------------
(* The terms of a name of a tree, one after the other. *)

\* What is below the first k of the terms.
Passed(zone, V, terms, k) ==
    UNION {Below(zone, V, terms[i]) : i \in {j \in 1 .. k : terms[j] \in Name}}

LEMMA PassedIs ==
  ASSUME NEW zone \in Zones, NEW V, NEW r, NEW K \in Nat, Grown(zone, V, r, K),
         NEW d \in 0 .. K, d < K, NEW n \in V, First(r, n, d)
  PROVE  /\ Passed(zone, V, TermsIn(zone, n), 0) = {}
         /\ \A k \in 0 .. Len(TermsIn(zone, n)) : Passed(zone, V, TermsIn(zone, n), k) \in SUBSET Name
         /\ \A k \in 1 .. Len(TermsIn(zone, n)) : TermsIn(zone, n)[k] \notin Name =>
                Passed(zone, V, TermsIn(zone, n), k) = Passed(zone, V, TermsIn(zone, n), k - 1)
         /\ \A k \in 1 .. Len(TermsIn(zone, n)) : TermsIn(zone, n)[k] \in Name =>
                /\ Passed(zone, V, TermsIn(zone, n), k)
                       = Passed(zone, V, TermsIn(zone, n), k - 1) \cup Below(zone, V, TermsIn(zone, n)[k])
                /\ Passed(zone, V, TermsIn(zone, n), k - 1) \cap Below(zone, V, TermsIn(zone, n)[k]) = {}
         /\ Passed(zone, V, TermsIn(zone, n), Len(TermsIn(zone, n))) = Under(zone, V, n)
<1> DEFINE terms == TermsIn(zone, n)
           len == Len(terms)
           p(k) == Passed(zone, V, terms, k)
<1>1. len \in Nat /\ V \in SUBSET Name /\ IsIncludeTree(zone, V) /\ n \in Name
  <2>1. V \in SUBSET Name /\ IsIncludeTree(zone, V)
    BY DEF Grown, IsIncludeTree
  <2> QED  BY <2>1, TermsType DEF TermsIn
<1>2. \A m : m \in Includes(zone, n) <=> m \in Name /\ \E i \in 1 .. len : m = terms[i]
  BY <1>1, IncludesIs
<1>3. \A i \in 1 .. len : \A j \in 1 .. len : terms[i] \in Name /\ terms[i] = terms[j] => i = j
  BY <1>1 DEF IsIncludeTree
<1> HIDE DEF terms, len
<1>4. ASSUME NEW k \in 0 .. len PROVE \A x : x \in p(k) <=> \E i \in 1 .. k : terms[i] \in Name /\ x \in Below(zone, V, terms[i])
  BY DEF Passed
<1>5. \A k \in 0 .. len : p(k) \in SUBSET Name
  BY <1>1, <1>4 DEF Below
<1>6. ASSUME NEW k \in 1 .. len PROVE k - 1 \in 0 .. len /\ k \in 0 .. len /\ \A i \in 1 .. k : i = k \/ i \in 1 .. k - 1
  BY <1>1
<1>7. ASSUME NEW k \in 1 .. len, terms[k] \notin Name PROVE p(k) = p(k - 1)
  <2>1. \A i \in 1 .. k - 1 : i \in 1 .. k
    BY <1>1
  <2> HIDE DEF p
  <2>2. \A x : x \in p(k) <=> x \in p(k - 1)
    BY <1>4, <1>6, <1>7, <2>1
  <2> QED  BY <2>2
<1>8. ASSUME NEW k \in 1 .. len, terms[k] \in Name
      PROVE  p(k) = p(k - 1) \cup Below(zone, V, terms[k]) /\ p(k - 1) \cap Below(zone, V, terms[k]) = {}
  <2>1. \A i \in 1 .. k - 1 : i \in 1 .. k /\ i \in 1 .. len /\ i # k
    BY <1>1
  <2>2. k \in 1 .. k
    BY <1>1
  <2> HIDE DEF p
  <2>3. \A x : x \in p(k) <=> x \in p(k - 1) \/ x \in Below(zone, V, terms[k])
    BY <1>4, <1>6, <1>8, <2>1, <2>2
  <2>4. ASSUME NEW x \in p(k - 1), x \in Below(zone, V, terms[k]) PROVE FALSE
    <3>1. PICK i \in 1 .. k - 1 : terms[i] \in Name /\ x \in Below(zone, V, terms[i])
      BY <1>4, <1>6, <2>4
    <3>2. terms[i] # terms[k] /\ terms[i] \in Includes(zone, n) /\ terms[k] \in Includes(zone, n)
      BY <1>2, <1>3, <1>8, <2>1, <3>1
    <3>3. Below(zone, V, terms[i]) \cap Below(zone, V, terms[k]) = {}
      BY <3>2, Disjoint
    <3> QED  BY <2>4, <3>1, <3>3
  <2> QED  BY <2>3, <2>4
<1>9. p(len) = Under(zone, V, n)
  <2>1. len \in 0 .. len
    BY <1>1
  <2> HIDE DEF p
  <2>2. ASSUME NEW x \in p(len) PROVE x \in Under(zone, V, n)
    <3>1. PICK i \in 1 .. len : terms[i] \in Name /\ x \in Below(zone, V, terms[i])
      BY <1>4, <2>1
    <3>2. terms[i] \in Includes(zone, n)
      BY <1>2, <3>1
    <3>3. Below(zone, V, terms[i]) \subseteq Below(zone, V, n) /\ n \notin Below(zone, V, terms[i])
      BY <1>1, <3>2, BelowIncluded, Apart
    <3> QED  BY <3>1, <3>3 DEF Under
  <2>3. ASSUME NEW x \in Under(zone, V, n) PROVE x \in p(len)
    <3>1. PICK m \in Includes(zone, n) : x \in Below(zone, V, m)
      BY <1>1, <2>3, BelowOne DEF Under
    <3>2. PICK i \in 1 .. len : m = terms[i] /\ m \in Name
      BY <1>2
    <3> QED  BY <1>4, <2>1, <3>1, <3>2
  <2> QED  BY <2>2, <2>3
<1>10. p(0) = {}
  BY DEF Passed
<1> QED  BY <1>5, <1>7, <1>8, <1>9, <1>10 DEF terms, len

\* A term that is no name.
LEMMA FollowOther ==
  ASSUME NEW zone, NEW sub, NEW depth, NEW acc \in State, NEW seen, NEW passed, NEW q \in Nat,
         Holds(zone, acc, seen, passed, q)
  PROVE  Holds(zone, Follow(zone, sub, depth, acc, "a"), seen, passed, q + 1)
<1>1. Follow(zone, sub, depth, acc, "a") = [acc EXCEPT !.lookups = acc.lookups + 1]
  BY DEF Follow
<1>2. /\ Follow(zone, sub, depth, acc, "a").lookups = acc.lookups + 1
      /\ Follow(zone, sub, depth, acc, "a").seen = acc.seen
      /\ Follow(zone, sub, depth, acc, "a").dangling = acc.dangling
  BY <1>1 DEF State
<1> QED  BY <1>2 DEF Holds

\* What the includes of n cost, if they are counted exactly one level deeper.
Counted(zone, V, sub, d, n, below) ==
    \A t \in Includes(zone, n) :
        d # MaxDepth /\ Deeper(zone, V, sub, d, t, below[t]) /\ (zone[t] = NoRec => below[t] = 0)

LEMMA WalkExact ==
  ASSUME NEW zone \in Zones, NEW V, NEW r, NEW K \in Nat, Grown(zone, V, r, K),
         NEW d \in 0 .. MaxDepth, d < K, NEW n \in V, First(r, n, d),
         NEW sub \in [Place -> State], NEW below \in [Name -> Nat], NEW seen \in SUBSET Name,
         seen \cap Under(zone, V, n) = {}, Counted(zone, V, sub, d, n, below),
         NEW P, IsWalk(P, zone, sub, Mail!Terms(zone[n]), d, seen)
  PROVE  Exactly(zone, V, P[Len(Mail!Terms(zone[n]))], n, seen, Mail!LookupsOf(TermsIn(zone, n), below))
<1> DEFINE terms == TermsIn(zone, n)
           len == Len(terms)
           p(k) == Passed(zone, V, terms, k)
<1>1. V \in SUBSET Name /\ IsIncludeTree(zone, V) /\ n \in Name /\ d \in 0 .. K
  <2>1. V \in SUBSET Name /\ IsIncludeTree(zone, V)
    BY DEF Grown, IsIncludeTree
  <2> QED  BY <2>1, MailConstants
<1>2. len \in Nat /\ terms \in Terminal /\ \A k \in 1 .. len : terms[k] \in Name \cup {"a"}
  BY <1>1, TermsType, InTerminal DEF TermsIn
<1>3. /\ p(0) = {} /\ p(len) = Under(zone, V, n)
      /\ \A k \in 0 .. len : p(k) \in SUBSET Name
      /\ \A k \in 1 .. len : terms[k] \notin Name => p(k) = p(k - 1)
      /\ \A k \in 1 .. len : terms[k] \in Name => /\ p(k) = p(k - 1) \cup Below(zone, V, terms[k])
                                                  /\ p(k - 1) \cap Below(zone, V, terms[k]) = {}
  BY <1>1, PassedIs
<1>4. \A m : m \in Includes(zone, n) <=> m \in Name /\ \E i \in 1 .. len : m = terms[i]
  BY <1>1, IncludesIs
<1>5. P[0] = Begin(seen) /\ \A k \in 1 .. len : P[k] = Follow(zone, sub, d, P[k - 1], terms[k])
  BY DEF IsWalk, TermsIn
<1>6. \A k \in 0 .. len : P[k] \in State
  BY <1>1, WalkType DEF TermsIn
<1>7. PICK Q : IsSum(Q, terms, below) /\ Mail!LookupsOf(terms, below) = Q[len]
  BY <1>2, SumIs
<1>8. Q[0] = 0 /\ (\A k \in 1 .. len : Q[k] = Q[k - 1] + Each(below, terms[k])) /\ \A k \in 0 .. len : Q[k] \in Nat
  BY <1>7 DEF IsSum
<1> HIDE DEF terms, len, p
<1> DEFINE A == {k \in 0 .. len : P[k].lookups <= MaxBranch => Holds(zone, P[k], seen, p(k), Q[k])}
<1>9. 0 \in A
  <2>1. Holds(zone, Begin(seen), seen, {}, 0)
    BY DEF Holds, Begin, Missing
  <2>2. 0 \in 0 .. len
    BY <1>2
  <2>3. Holds(zone, P[0], seen, p(0), Q[0])
    BY <1>3, <1>5, <1>8, <2>1
  <2> QED  BY <2>2, <2>3
<1>10. ASSUME NEW j \in 1 .. len, j - 1 \in A PROVE j \in A
  <2> SUFFICES ASSUME P[j].lookups <= MaxBranch PROVE Holds(zone, P[j], seen, p(j), Q[j])
    BY <1>2
  <2> DEFINE t == terms[j]
  <2>1. t \in Name \cup {"a"} /\ j - 1 \in 0 .. len /\ j \in 0 .. len
    BY <1>2
  <2>2. /\ P[j - 1] \in State /\ p(j - 1) \in SUBSET Name /\ Q[j - 1] \in Nat
        /\ P[j] = Follow(zone, sub, d, P[j - 1], t) /\ Q[j] = Q[j - 1] + Each(below, t)
    BY <1>3, <1>5, <1>6, <1>8, <2>1
  <2>3. P[j - 1].lookups <= MaxBranch
    <3>1. Follow(zone, sub, d, P[j - 1], t).lookups >= P[j - 1].lookups + 1
      BY <2>1, <2>2, FollowGrows
    <3>2. P[j].lookups >= P[j - 1].lookups + 1
      BY <2>2, <3>1
    <3>3. P[j - 1].lookups \in Nat /\ P[j].lookups \in Nat
      BY <1>6, <2>1 DEF State
    <3>4. \A a, b \in Nat : b >= a + 1 /\ b <= MaxBranch => a <= MaxBranch
      BY MailConstants
    <3> QED  BY <3>2, <3>3, <3>4, Zenon
  <2>4. Holds(zone, P[j - 1], seen, p(j - 1), Q[j - 1])
    BY <1>10, <2>3
  <2>5. CASE t = "a"
    <3>1. Holds(zone, Follow(zone, sub, d, P[j - 1], "a"), seen, p(j - 1), Q[j - 1] + 1)
      BY <2>2, <2>4, FollowOther
    <3>2. "a" \notin Name
      BY CheckAssumption DEF Mail!ConstantsOK
    <3>3. p(j) = p(j - 1)
      BY <1>3, <2>5, <3>2
    <3>4. Each(below, t) = 1
      BY <2>5 DEF Each
    <3> HIDE DEF t
    <3> QED  BY <2>2, <2>5, <3>1, <3>3, <3>4
  <2>6. CASE t # "a"
    <3>1. t \in Name /\ t \in Includes(zone, n)
      BY <1>4, <2>1, <2>6
    <3>2. p(j) = p(j - 1) \cup Below(zone, V, t) /\ p(j - 1) \cap Below(zone, V, t) = {}
      BY <1>3, <3>1
    <3> HIDE DEF t
    <3>3. t \in V /\ Below(zone, V, t) \subseteq Below(zone, V, n) /\ n \notin Below(zone, V, t)
      BY <1>1, <3>1, BelowIncluded, Apart
    <3>4. seen \cap Below(zone, V, t) = {}
      BY <3>3 DEF Under
    <3>5. d # MaxDepth /\ Deeper(zone, V, sub, d, t, below[t]) /\ (zone[t] = NoRec => below[t] = 0)
      BY <3>1 DEF Counted
    <3>6. below[t] \in Nat
      BY <3>1
    <3>7. Follow(zone, sub, d, P[j - 1], t).lookups <= MaxBranch
      BY <2>2
    <3>8. Holds(zone, Follow(zone, sub, d, P[j - 1], t), seen, p(j - 1) \cup Below(zone, V, t), Q[j - 1] + (1 + below[t]))
      BY <1>1, <2>2, <2>4, <3>2, <3>3, <3>4, <3>5, <3>6, <3>7, FollowExact
    <3>9. Each(below, t) = 1 + below[t]
      BY <2>6 DEF Each
    <3> QED  BY <2>2, <3>2, <3>8, <3>9
  <2> QED  BY <2>5, <2>6
<1>11. \A k \in 0 .. len : k \in A
  <2> HIDE DEF A
  <2> QED  BY <1>2, <1>9, <1>10, Onward
<1>12. P[len].lookups <= MaxBranch => Holds(zone, P[len], seen, p(len), Q[len])
  BY <1>2, <1>11
<1>13. Exactly(zone, V, P[len], n, seen, Q[len])
  BY <1>3, <1>12 DEF Exactly
<1> QED  BY <1>7, <1>13 DEF terms, len, TermsIn

-----------------------------------------------------------------------------
(* From the deepest names to the domain. *)

\* V is a tree, which is reached in N steps and in MaxDepth steps.
Spanned(zone, V, r, N, K) ==
    /\ Grown(zone, V, r, K)
    /\ r[N] = V /\ r[MaxDepth] = V

LEMMA SpannedIs ==
  ASSUME NEW zone \in Zones, Mail!WithinReach(zone)
  PROVE  \E r : Spanned(zone, All(zone), r, Cardinality(Name), Cardinality(Name) + MaxDepth + 2)
<1> DEFINE N == Cardinality(Name)
           V == All(zone)
           K == N + MaxDepth + 2
<1>1. N \in Nat /\ MaxDepth \in Nat /\ V = Mail!Reach(zone, N)
  BY FiniteNames, FS_CardinalityType, MailConstants DEF All
<1>2. IsIncludeTree(zone, V) /\ Mail!Reach(zone, MaxDepth) = V
  BY TreeIs
<1>3. K \in Nat /\ N \in 0 .. K /\ MaxDepth \in 0 .. K
  BY <1>1
<1> HIDE DEF N, V, K
<1>4. PICK r : IsReach(r, zone, K)
  BY <1>3, ReachExists
<1>5. r[N] = V /\ r[MaxDepth] = V
  BY <1>1, <1>2, <1>3, <1>4, ReachIs
<1> DEFINE A == {k \in 0 .. K : r[k] \subseteq V}
<1>6. 0 \in A
  BY <1>2, <1>3, <1>4 DEF IsReach, IsIncludeTree
<1>7. ASSUME NEW j \in 1 .. K, j - 1 \in A PROVE j \in A
  <2>1. r[j] = More(zone, r[j - 1])
    BY <1>4 DEF IsReach
  <2> QED  BY <1>2, <1>7, <2>1 DEF More, IsIncludeTree
<1>8. \A k \in 0 .. K : k \in A
  <2> HIDE DEF A
  <2> QED  BY <1>3, <1>6, <1>7, Onward
<1>9. Grown(zone, V, r, K)
  BY <1>2, <1>3, <1>4, <1>5, <1>8 DEF Grown
<1>10. Spanned(zone, V, r, N, K)
  BY <1>5, <1>9 DEF Spanned
<1> QED  BY <1>10 DEF N, V, K

\* No name is first reached in more steps than all are reached in, and those
\* that include another in fewer.
LEMMA ReachedInTime ==
  ASSUME NEW zone \in Zones, NEW V, NEW r, NEW K \in Nat, Grown(zone, V, r, K),
         NEW M \in 0 .. K, r[M] = V, M < K, NEW d \in 0 .. K, NEW n \in V, First(r, n, d)
  PROVE  d <= M /\ \A m \in Includes(zone, n) : d + 1 <= M
<1>1. ASSUME NEW e \in 0 .. K, NEW m \in V, First(r, m, e), e > M PROVE FALSE
  <2>1. e # 0 /\ e - 1 \in 0 .. K /\ M \in 0 .. e - 1
    BY <1>1
  <2>2. r[M] \subseteq r[e - 1]
    BY <2>1, ReachGrows DEF Grown
  <2> QED  BY <1>1, <2>1, <2>2 DEF First
<1>2. d <= M
  BY <1>1
<1>3. ASSUME NEW m \in Includes(zone, n) PROVE d + 1 <= M
  <2>1. d < K /\ d + 1 \in 0 .. K
    BY <1>2
  <2>2. First(r, m, d + 1)
    BY <2>1, LevelDown
  <2>3. m \in V
    BY BelowIncluded DEF Grown
  <2> QED  BY <1>1, <2>1, <2>2, <2>3
<1> QED  BY <1>2, <1>3

\* In a tree, what is written comes to an end.
LEMMA TotalsStay ==
  ASSUME NEW zone \in Zones, NEW V, NEW r, NEW N \in Nat, NEW K \in Nat, N + 2 <= K,
         Spanned(zone, V, r, N, K), NEW u, IsTotals(u, zone, K)
  PROVE  u[N + 1][Domain] = u[N + 2][Domain]
<1> DEFINE A == {i \in 0 .. N : \A n \in V : First(r, n, N - i) => u[i + 1][n] = u[i + 2][n]}
<1>1. /\ Grown(zone, V, r, K) /\ r[N] = V /\ N \in 0 .. K /\ N < K
      /\ IsIncludeTree(zone, V) /\ V \in SUBSET Name /\ Domain \in V
  BY DEF Spanned, Grown, IsIncludeTree
<1>2. \A j \in 0 .. K : u[j] \in [Name -> Nat]
  BY DEF IsTotals
<1>3. ASSUME NEW i \in 0 .. N,
             \A n \in V : \A t \in Includes(zone, n) : First(r, n, N - i) => u[i][t] = u[i + 1][t]
      PROVE  i \in A
  <2> SUFFICES ASSUME NEW n \in V, First(r, n, N - i) PROVE u[i + 1][n] = u[i + 2][n]
    OBVIOUS
  <2> DEFINE terms == TermsIn(zone, n)
  <2>1. n \in Name /\ i \in 0 .. K /\ i + 1 \in 1 .. K /\ i + 2 \in 1 .. K /\ (i + 1) - 1 = i /\ (i + 2) - 1 = i + 1
        /\ i + 1 \in 0 .. K
    BY <1>1
  <2>2. u[i] \in [Name -> Nat] /\ u[i + 1] \in [Name -> Nat] /\ terms \in Terminal
    BY <1>2, <2>1, InTerminal
  <2>3. \A k \in 1 .. Len(terms) : terms[k] \in Name => terms[k] \in Includes(zone, n)
    BY <2>1, IncludesIs
  <2>4. u[i + 1][n] = Mail!LookupsOf(terms, u[i]) /\ u[i + 2][n] = Mail!LookupsOf(terms, u[i + 1])
    BY <2>1 DEF IsTotals
  <2> HIDE DEF terms
  <2>5. \A k \in 1 .. Len(terms) : terms[k] \in Name => u[i][terms[k]] = u[i + 1][terms[k]]
    BY <1>3, <2>3
  <2> QED  BY <2>2, <2>4, <2>5, SumSame
<1>4. 0 \in A
  <2>1. ASSUME NEW n \in V, NEW t \in Includes(zone, n), First(r, n, N) PROVE FALSE
    <3>1. N + 1 <= N
      BY <1>1, <2>1, ReachedInTime
    <3> QED  BY <3>1
  <2>2. 0 \in 0 .. N /\ N - 0 = N
    OBVIOUS
  <2> HIDE DEF A
  <2> QED  BY <1>3, <2>1, <2>2
<1>5. ASSUME NEW i \in 1 .. N, i - 1 \in A PROVE i \in A
  <2>1. i \in 0 .. N /\ N - i \in 0 .. K /\ N - i < K /\ (N - i) + 1 = N - (i - 1) /\ (i - 1) + 1 = i /\ (i - 1) + 2 = i + 1
    BY <1>1
  <2>2. ASSUME NEW n \in V, NEW t \in Includes(zone, n), First(r, n, N - i) PROVE u[i][t] = u[i + 1][t]
    <3>1. First(r, t, (N - i) + 1) /\ t \in V
      BY <1>1, <2>1, <2>2, LevelDown, BelowIncluded
    <3> QED  BY <1>5, <2>1, <3>1
  <2> HIDE DEF A
  <2> QED  BY <1>3, <2>1, <2>2
<1>6. \A i \in 0 .. N : i \in A
  <2> HIDE DEF A
  <2> QED  BY <1>4, <1>5, Onward
<1>7. First(r, Domain, 0)
  BY <1>1 DEF Grown, IsReach, First
<1> QED  BY <1>1, <1>6, <1>7

LEMMA CountExact ==
  ASSUME NEW zone \in Zones, NEW V, NEW r, NEW N \in Nat, NEW K \in Nat, N + 2 <= K, MaxDepth < K,
         Spanned(zone, V, r, N, K), NEW u, IsTotals(u, zone, K)
  PROVE  Exactly(zone, V, CountOf(zone)[<<Domain, 0, {}>>], Domain, {}, u[N + 1][Domain])
<1> DEFINE c == CountOf(zone)
           M == IF N < MaxDepth THEN N ELSE MaxDepth
           A == {i \in 0 .. M : \A n \in V : First(r, n, M - i) =>
                    \A seen \in SUBSET Name : seen \cap Under(zone, V, n) = {} =>
                        Exactly(zone, V, c[<<n, M - i, seen>>], n, seen, u[(N + 1) - (M - i)][n])}
<1>1. /\ Grown(zone, V, r, K) /\ r[N] = V /\ r[MaxDepth] = V
      /\ IsIncludeTree(zone, V) /\ V \in SUBSET Name /\ Domain \in V
  BY DEF Spanned, Grown, IsIncludeTree
<1>2. MaxDepth \in Nat /\ M \in Nat /\ M <= N /\ M <= MaxDepth /\ r[M] = V /\ M \in 0 .. K /\ M < K
  BY <1>1, MailConstants
<1>3. c \in [Place -> State]
  BY CountOfIs
<1>4. \A n \in Name, depth \in 0 .. MaxDepth, seen \in SUBSET Name :
          \E P : /\ IsWalk(P, zone, c, Mail!Terms(zone[n]), depth, seen)
                 /\ c[<<n, depth, seen>>] = P[Len(Mail!Terms(zone[n]))]
  BY CountOfIs
<1>5. \A j \in 0 .. K : u[j] \in [Name -> Nat]
  BY DEF IsTotals
<1> HIDE DEF c, M
<1>6. ASSUME NEW i \in 0 .. M,
             \A n \in V : First(r, n, M - i) => Counted(zone, V, c, M - i, n, u[N - (M - i)])
      PROVE  i \in A
  <2> DEFINE d == M - i
  <2>1. d \in 0 .. MaxDepth /\ d < K /\ (N + 1) - d \in 1 .. K /\ ((N + 1) - d) - 1 = N - d /\ N - d \in 0 .. K
    BY <1>2
  <2> SUFFICES ASSUME NEW n \in V, First(r, n, d), NEW seen \in SUBSET Name, seen \cap Under(zone, V, n) = {}
               PROVE  Exactly(zone, V, c[<<n, d, seen>>], n, seen, u[(N + 1) - d][n])
    OBVIOUS
  <2>2. Counted(zone, V, c, d, n, u[N - d])
    BY <1>6
  <2> HIDE DEF d
  <2>3. n \in Name /\ u[N - d] \in [Name -> Nat]
    BY <1>1, <1>5, <2>1
  <2>4. u[(N + 1) - d][n] = Mail!LookupsOf(TermsIn(zone, n), u[N - d])
    BY <2>1, <2>3 DEF IsTotals
  <2>5. PICK P : /\ IsWalk(P, zone, c, Mail!Terms(zone[n]), d, seen)
                 /\ c[<<n, d, seen>>] = P[Len(Mail!Terms(zone[n]))]
    BY <1>4, <2>1, <2>3
  <2>6. Exactly(zone, V, P[Len(Mail!Terms(zone[n]))], n, seen, Mail!LookupsOf(TermsIn(zone, n), u[N - d]))
    BY <1>1, <1>3, <2>1, <2>2, <2>3, <2>5, WalkExact
  <2> QED  BY <2>4, <2>5, <2>6
<1>7. 0 \in A
  <2>1. ASSUME NEW n \in V, NEW t \in Includes(zone, n), First(r, n, M) PROVE FALSE
    <3>1. M + 1 <= M
      BY <1>1, <1>2, <2>1, ReachedInTime
    <3> QED  BY <1>2, <3>1
  <2>2. 0 \in 0 .. M /\ M - 0 = M
    BY <1>2
  <2>3. \A n \in V : First(r, n, M) => Counted(zone, V, c, M, n, u[N - M])
    BY <2>1 DEF Counted
  <2> HIDE DEF A
  <2> QED  BY <1>6, <2>2, <2>3
<1>8. ASSUME NEW i \in 1 .. M, i - 1 \in A PROVE i \in A
  <2> DEFINE d == M - i
  <2>1. /\ i \in 0 .. M /\ d \in 0 .. K /\ d < K /\ d + 1 = M - (i - 1) /\ (N + 1) - (M - (i - 1)) = N - d
        /\ d # MaxDepth /\ N - d \in 1 .. K /\ (N - d) - 1 \in 0 .. K
    BY <1>2
  <2>2. ASSUME NEW n \in V, First(r, n, d) PROVE Counted(zone, V, c, d, n, u[N - d])
    <3> SUFFICES ASSUME NEW t \in Includes(zone, n)
                 PROVE  Deeper(zone, V, c, d, t, u[N - d][t]) /\ (zone[t] = NoRec => u[N - d][t] = 0)
      BY <2>1 DEF Counted
    <3> HIDE DEF d
    <3>1. First(r, t, d + 1) /\ t \in V /\ t \in Name
      BY <1>1, <2>1, <2>2, LevelDown, BelowIncluded
    <3>2. \A seen \in SUBSET Name : seen \cap Under(zone, V, t) = {} =>
              Exactly(zone, V, c[<<t, d + 1, seen>>], t, seen, u[N - d][t])
      BY <1>8, <2>1, <3>1
    <3>3. Deeper(zone, V, c, d, t, u[N - d][t])
      BY <3>2 DEF Deeper
    <3>4. ASSUME zone[t] = NoRec PROVE u[N - d][t] = 0
      <4>1. TermsIn(zone, t) = << >>
        BY <3>4, MailConstants DEF TermsIn
      <4>2. u[N - d][t] = Mail!LookupsOf(<< >>, u[(N - d) - 1])
        BY <2>1, <3>1, <4>1 DEF IsTotals
      <4>3. << >> \in Terminal /\ Len(<< >>) = 0 /\ Zero \in [Name -> Nat] /\ u[(N - d) - 1] \in [Name -> Nat]
        BY <1>5, <2>1 DEF Terminal, Zero
      <4>4. Mail!LookupsOf(<< >>, Zero) = 0
        BY <4>3, SumOfNone
      <4>5. Mail!LookupsOf(<< >>, u[(N - d) - 1]) = Mail!LookupsOf(<< >>, Zero)
        <5>1. \A k \in 1 .. Len(<< >>) : FALSE
          BY <4>3
        <5> QED  BY <4>3, <5>1, SumSame
      <4> QED  BY <4>2, <4>4, <4>5
    <3> QED  BY <3>3, <3>4
  <2>3. i \in 0 .. M
    BY <2>1
  <2> HIDE DEF A
  <2> QED  BY <1>6, <2>2, <2>3
<1>9. \A i \in 0 .. M : i \in A
  <2> HIDE DEF A
  <2> QED  BY <1>2, <1>7, <1>8, Onward
<1>10. First(r, Domain, 0)
  BY <1>1 DEF Grown, IsReach, First
<1>11. M \in 0 .. M /\ M - M = 0 /\ (N + 1) - 0 = N + 1
  BY <1>2
<1>12. M \in A
  BY <1>9, <1>11
<1>13. Exactly(zone, V, c[<<Domain, M - M, {}>>], Domain, {}, u[(N + 1) - (M - M)][Domain])
  BY <1>1, <1>10, <1>11, <1>12
<1> QED  BY <1>11, <1>13 DEF c

-----------------------------------------------------------------------------
(* What mailCheckSPF finds out, and what it is worth. *)

\* In a tree, what is counted is what is written, unless it is hopeless.
LEMMA TreeCounted ==
  ASSUME NEW zone \in Zones, Mail!WithinReach(zone)
  PROVE  LET counted == Mail!Count(zone, Domain)
             total == Mail!Total(zone, Cardinality(Name)) IN
         /\ counted \in State /\ total \in Nat /\ counted.lookups <= total
         /\ total = Mail!Total(zone, Cardinality(Name) + 1)
         /\ counted.lookups <= MaxBranch =>
                /\ counted.lookups = total
                /\ counted.dangling <=> \E n \in All(zone) : n # Domain /\ zone[n] = NoRec
<1> DEFINE N == Cardinality(Name)
           V == All(zone)
           K == N + MaxDepth + 2
           counted == CountOf(zone)[<<Domain, 0, {}>>]
<1>1. N \in Nat /\ MaxDepth \in Nat
  BY FiniteNames, FS_CardinalityType, MailConstants
<1>2. K \in Nat /\ N + 2 <= K /\ MaxDepth < K /\ K - 1 \in Nat /\ (K - 1) + 1 = K
      /\ N \in 0 .. K - 1 /\ N + 1 \in 0 .. K - 1 /\ N + 1 \in 0 .. K /\ (N + 1) + 1 = N + 2
  BY <1>1
<1>3. PICK r : Spanned(zone, V, r, N, K)
  BY SpannedIs
<1> HIDE DEF N, V, K
<1>4. PICK u : IsTotals(u, zone, K)
  BY <1>2, TotalsExist
<1>5. Mail!Total(zone, N) = u[N + 1][Domain] /\ Mail!Total(zone, N + 1) = u[N + 2][Domain]
  <2>1. IsTotals(u, zone, (K - 1) + 1)
    BY <1>2, <1>4
  <2>2. Mail!Total(zone, N) = u[N + 1][Domain]
    BY <1>2, <2>1, TotalIs
  <2>3. Mail!Total(zone, N + 1) = u[(N + 1) + 1][Domain]
    BY <1>2, <2>1, TotalIs
  <2> QED  BY <1>2, <2>2, <2>3
<1>6. Mail!Total(zone, N) = Mail!Total(zone, N + 1)
  BY <1>1, <1>2, <1>3, <1>4, <1>5, TotalsStay
<1>7. counted = Mail!Count(zone, Domain)
  BY CountUnfolds DEF CountOf
<1>8. counted.lookups <= Mail!Total(zone, N)
  <2>1. Mail!Known(zone, {}) = zone
    BY KnownIs
  <2> HIDE DEF counted
  <2> QED  BY <1>1, <1>6, <1>7, <2>1, BoundedByTruth
<1>9. counted \in State
  <2>1. <<Domain, 0, {}>> \in Place
    BY <1>1, MailConstants DEF Place
  <2> QED  BY <2>1, CountOfIs
<1>10. Exactly(zone, V, counted, Domain, {}, u[N + 1][Domain])
  BY <1>1, <1>2, <1>3, <1>4, CountExact
<1> HIDE DEF counted
<1>11. Mail!Total(zone, N) \in Nat
  BY <1>2, <1>4, <1>5, MailConstants DEF IsTotals
<1>12. Under(zone, V, Domain) = V \ {Domain}
  <2>1. Below(zone, V, Domain) = V
    BY <1>2, <1>3, BelowDomain DEF Spanned
  <2> QED  BY <2>1 DEF Under
<1>13. ASSUME counted.lookups <= MaxBranch
       PROVE  /\ counted.lookups = Mail!Total(zone, N)
              /\ counted.dangling <=> \E n \in V : n # Domain /\ zone[n] = NoRec
  <2>1. Holds(zone, counted, {}, V \ {Domain}, u[N + 1][Domain])
    BY <1>10, <1>12, <1>13 DEF Exactly
  <2>2. counted.lookups = u[N + 1][Domain] /\ (counted.dangling <=> Missing(zone, V \ {Domain}))
    BY <2>1 DEF Holds
  <2>3. Missing(zone, V \ {Domain}) <=> \E n \in V : n # Domain /\ zone[n] = NoRec
    BY DEF Missing
  <2> QED  BY <1>5, <2>2, <2>3
<1> QED  BY <1>6, <1>7, <1>8, <1>9, <1>11, <1>13 DEF N, V

-----------------------------------------------------------------------------
(* What receivers evaluate is the beginning of what is written. *)

IsPrefix(first, terms) ==
    Len(first) <= Len(terms) /\ \A k \in 1 .. Len(first) : first[k] = terms[k]

LEMMA EvaluatedIs ==
  ASSUME NEW r \in AnyRecord
  PROVE  /\ Mail!Evaluated(r) \in AnyRecord
         /\ IsPrefix(Mail!Terms(Mail!Evaluated(r)), Mail!Terms(r))
         /\ Mail!Evaluated(r) = NoRec <=> r = NoRec
<1>1. CASE Mail!Evaluated(r) = r
  <2>1. IsPrefix(Mail!Terms(r), Mail!Terms(r))
    <3>1. Len(Mail!Terms(r)) \in Nat
      BY MailConstants
    <3> QED  BY <3>1 DEF IsPrefix
  <2> QED  BY <1>1, <2>1
<1>2. CASE r = Mail!NoRecord
  <2>1. /\ r = [mechanisms |-> << >>, all |-> "none", behind |-> << >>, redirect |-> "none"]
        /\ r.all # ""
    BY <1>2, Zenon DEF Mail!NoRecord
  <2>2. Mail!Evaluated(r) = [mechanisms |-> r.mechanisms, all |-> r.all, behind |-> << >>,
                             redirect |-> "none"]
    BY <2>1, Zenon DEF Mail!Evaluated
  <2>3. [mechanisms |-> r.mechanisms, all |-> r.all, behind |-> << >>, redirect |-> "none"] = r
    BY <2>1
  <2> QED  BY <1>1, <2>1, <2>2, <2>3
<1>3. CASE r # Mail!NoRecord /\ r.all # ""
  <2>1. r \in Mail!Record
    BY <1>3 DEF AnyRecord
  <2>2. /\ r.mechanisms \in Seq(Name \cup {"a"}) /\ r.behind \in Seq(Name \cup {"a"})
        /\ r.redirect \in Name \cup {"none"} /\ r.all \in Mail!Qualified
        /\ r = [mechanisms |-> r.mechanisms, all |-> r.all, behind |-> r.behind,
                redirect |-> r.redirect]
    BY <2>1 DEF Mail!Record
  <2> DEFINE e == [mechanisms |-> r.mechanisms, all |-> r.all, behind |-> << >>, redirect |-> "none"]
  <2>3. Mail!Evaluated(r) = e
    BY <1>3, Zenon DEF Mail!Evaluated
  <2>4. e \in Mail!Record
    <3>1. << >> \in Seq(Name \cup {"a"})
      OBVIOUS
    <3> QED  BY <2>2, <3>1 DEF Mail!Record
  <2>5. e # Mail!NoRecord
    <3>1. Mail!NoRecord.all = "none"
      BY DEF Mail!NoRecord
    <3>2. "none" \notin Mail!Qualified
      BY Zenon DEF Mail!Qualified
    <3> QED  BY <2>2, <3>1, <3>2
  <2>6. Mail!Terms(e) = r.mechanisms
    BY <2>2 DEF Mail!Terms
  <2> HIDE DEF e
  <2>7. IsPrefix(r.mechanisms, Mail!Terms(r))
    <3> DEFINE m == r.mechanisms
               b == r.behind
               target == IF r.redirect = "none" THEN << >> ELSE <<r.redirect>>
    <3>1. target \in Seq(Name \cup {"a"})
      <4>1. r.redirect # "none" => <<r.redirect>> \in Seq(Name \cup {"a"})
        BY <2>2
      <4>2. << >> \in Seq(Name \cup {"a"})
        OBVIOUS
      <4> QED  BY <4>1, <4>2, Zenon
    <3>2. Mail!Terms(r) = m \o b \o target /\ m \in Seq(Name \cup {"a"}) /\ b \in Seq(Name \cup {"a"})
      BY <2>2 DEF Mail!Terms
    <3> HIDE DEF target, m, b
    <3>3. /\ Len(m \o b \o target) = Len(m) + Len(b) + Len(target)
          /\ Len(m) \in Nat /\ Len(b) \in Nat /\ Len(target) \in Nat
          /\ \A k \in 1 .. Len(m) : (m \o b \o target)[k] = m[k]
      <4>1. /\ m \o b \in Seq(Name \cup {"a"}) /\ Len(m \o b) = Len(m) + Len(b)
            /\ Len(m) \in Nat /\ Len(b) \in Nat /\ Len(target) \in Nat
            /\ \A k \in 1 .. Len(m) : (m \o b)[k] = m[k]
        BY <3>1, <3>2
      <4>2. /\ Len((m \o b) \o target) = Len(m \o b) + Len(target)
            /\ \A k \in 1 .. Len(m \o b) : ((m \o b) \o target)[k] = (m \o b)[k]
        BY <3>1, <4>1
      <4> QED  BY <4>1, <4>2
    <3>4. IsPrefix(m, m \o b \o target)
      BY <3>3 DEF IsPrefix
    <3> QED  BY <3>2, <3>4 DEF m
  <2>8. e \in AnyRecord
    BY <2>4 DEF AnyRecord
  <2>9. IsPrefix(Mail!Terms(e), Mail!Terms(r))
    BY <2>6, <2>7
  <2> QED  BY <1>3, <2>3, <2>5, <2>8, <2>9, Zenon DEF NoRec
<1>4. r.all = "" => Mail!Evaluated(r) = r
  BY DEF Mail!Evaluated
<1> QED  BY <1>1, <1>2, <1>3, <1>4, Zenon

LEMMA HeardIs ==
  ASSUME NEW zone \in Zones
  PROVE  /\ Mail!Heard(zone) \in Zones
         /\ \A n \in Name : /\ IsPrefix(TermsIn(Mail!Heard(zone), n), TermsIn(zone, n))
                            /\ Mail!Heard(zone)[n] = NoRec <=> zone[n] = NoRec
<1>1. \A n \in Name : zone[n] \in AnyRecord /\ Mail!Heard(zone)[n] = Mail!Evaluated(zone[n])
  BY DEF Zones, Mail!Heard
<1>2. \A n \in Name : /\ Mail!Evaluated(zone[n]) \in AnyRecord
                      /\ IsPrefix(Mail!Terms(Mail!Evaluated(zone[n])), Mail!Terms(zone[n]))
                      /\ Mail!Evaluated(zone[n]) = NoRec <=> zone[n] = NoRec
  BY <1>1, EvaluatedIs
<1>3. Mail!Heard(zone) \in Zones
  BY <1>2 DEF Mail!Heard, Zones
<1> QED  BY <1>1, <1>2, <1>3, Zenon DEF TermsIn

\* The beginning of a list costs no more than the list.
LEMMA SumOfPrefix ==
  ASSUME NEW first \in Terminal, NEW terms \in Terminal, IsPrefix(first, terms),
         NEW below \in [Name -> Nat]
  PROVE  Mail!LookupsOf(first, below) <= Mail!LookupsOf(terms, below)
<1> DEFINE m == Len(first)
           n == Len(terms)
<1>1. m \in Nat /\ n \in Nat /\ m <= n /\ \A k \in 1 .. m : first[k] = terms[k]
  BY DEF Terminal, IsPrefix
<1>2. PICK Q : IsSum(Q, first, below) /\ Mail!LookupsOf(first, below) = Q[m]
  BY SumIs
<1>3. PICK R : IsSum(R, terms, below) /\ Mail!LookupsOf(terms, below) = R[n]
  BY SumIs
<1>4. /\ Q[0] = 0 /\ R[0] = 0
      /\ \A k \in 1 .. m : Q[k] = Q[k - 1] + Each(below, first[k])
      /\ \A k \in 1 .. n : R[k] = R[k - 1] + Each(below, terms[k])
      /\ \A k \in 0 .. n : R[k] \in Nat
  BY <1>2, <1>3 DEF IsSum
<1>5. \A k \in 1 .. n : Each(below, terms[k]) \in Nat
  <2>1. \A k \in 1 .. n : terms[k] \in Name \cup {"a"}
    BY DEF Terminal
  <2> QED  BY <2>1 DEF Each
<1> HIDE DEF m, n
<1> DEFINE A == {k \in 0 .. m : Q[k] = R[k]}
           B == {i \in 0 .. n - m : R[m] <= R[m + i]}
<1>6. \A k \in 0 .. m : k \in A
  <2>1. 0 \in A
    BY <1>1, <1>4
  <2>2. ASSUME NEW j \in 1 .. m, j - 1 \in A PROVE j \in A
    <3>1. j \in 1 .. n /\ first[j] = terms[j] /\ Q[j - 1] = R[j - 1]
      BY <1>1, <2>2
    <3>2. Q[j] = R[j]
      BY <1>4, <3>1
    <3> QED  BY <1>1, <3>2
  <2> HIDE DEF A
  <2> QED  BY <1>1, <2>1, <2>2, Onward
<1>7. \A i \in 0 .. n - m : i \in B
  <2>1. 0 \in B
    BY <1>1, <1>4
  <2>2. ASSUME NEW j \in 1 .. n - m, j - 1 \in B PROVE j \in B
    <3>1. m + j \in 1 .. n /\ (m + j) - 1 = m + (j - 1) /\ m + (j - 1) \in 0 .. n /\ m \in 0 .. n
      BY <1>1
    <3>2. R[m] <= R[m + (j - 1)] /\ R[m] \in Nat /\ R[m + (j - 1)] \in Nat
      BY <1>4, <2>2, <3>1
    <3>3. R[m + j] = R[m + (j - 1)] + Each(below, terms[m + j]) /\ Each(below, terms[m + j]) \in Nat
      BY <1>4, <1>5, <3>1
    <3> QED  BY <1>1, <3>2, <3>3
  <2>3. n - m \in Nat
    BY <1>1
  <2> HIDE DEF B
  <2> QED  BY <2>1, <2>2, <2>3, Onward
<1>8. Q[m] = R[m] /\ R[m] <= R[n]
  <2>1. m \in 0 .. m /\ n - m \in 0 .. n - m /\ m + (n - m) = n
    BY <1>1
  <2>2. m \in A /\ n - m \in B
    BY <1>6, <1>7, <2>1
  <2> QED  BY <2>1, <2>2
<1> QED  BY <1>2, <1>3, <1>8 DEF m, n

\* Receivers look up no more than is written.
LEMMA HeardCosts ==
  ASSUME NEW zone \in Zones, NEW N \in Nat
  PROVE  /\ Mail!Total(Mail!Heard(zone), N) \in Nat /\ Mail!Total(zone, N) \in Nat
         /\ Mail!Total(Mail!Heard(zone), N) <= Mail!Total(zone, N)
<1> DEFINE heard == Mail!Heard(zone)
<1>1. heard \in Zones /\ \A n \in Name : IsPrefix(TermsIn(heard, n), TermsIn(zone, n))
  BY HeardIs
<1> HIDE DEF heard
<1>2. PICK u : IsTotals(u, heard, N + 1)
  BY <1>1, TotalsExist
<1>3. PICK w : IsTotals(w, zone, N + 1)
  BY TotalsExist
<1>4. \A j \in 0 .. N + 1 : u[j] \in [Name -> Nat] /\ w[j] \in [Name -> Nat]
  BY <1>2, <1>3 DEF IsTotals
<1> DEFINE A == {j \in 0 .. N + 1 : \A n \in Name : u[j][n] <= w[j][n]}
<1>5. 0 \in A
  BY <1>2, <1>3 DEF IsTotals, Zero
<1>6. ASSUME NEW j \in 1 .. N + 1, j - 1 \in A PROVE j \in A
  <2> SUFFICES ASSUME NEW n \in Name PROVE u[j][n] <= w[j][n]
    OBVIOUS
  <2> DEFINE first == TermsIn(heard, n)
             terms == TermsIn(zone, n)
             b == u[j - 1]
             c == w[j - 1]
  <2>1. first \in Terminal /\ terms \in Terminal /\ IsPrefix(first, terms)
    BY <1>1, InTerminal
  <2>2. b \in [Name -> Nat] /\ c \in [Name -> Nat] /\ \A m \in Name : b[m] <= c[m]
    <3>1. j - 1 \in 0 .. N + 1
      OBVIOUS
    <3> QED  BY <1>4, <1>6, <3>1
  <2>3. u[j][n] = Mail!LookupsOf(first, b) /\ w[j][n] = Mail!LookupsOf(terms, c)
    BY <1>2, <1>3 DEF IsTotals
  <2> HIDE DEF first, terms, b, c, A
  <2>4. /\ Mail!LookupsOf(first, b) <= Mail!LookupsOf(first, c)
        /\ Mail!LookupsOf(first, b) \in Nat /\ Mail!LookupsOf(first, c) \in Nat
    BY <2>1, <2>2, SumCompares
  <2>5. Mail!LookupsOf(first, c) <= Mail!LookupsOf(terms, c)
    BY <2>1, <2>2, SumOfPrefix
  <2>6. Mail!LookupsOf(terms, c) \in Nat
    <3>1. \A m \in Name : c[m] <= c[m]
      BY <2>2
    <3> QED  BY <2>1, <2>2, <3>1, SumCompares
  <2> QED  BY <2>3, <2>4, <2>5, <2>6
<1>7. \A j \in 0 .. N + 1 : j \in A
  <2> HIDE DEF A
  <2> QED  BY <1>5, <1>6, Onward
<1>8. N \in 0 .. N /\ N + 1 \in 0 .. N + 1
  OBVIOUS
<1>9. Mail!Total(heard, N) = u[N + 1][Domain] /\ Mail!Total(zone, N) = w[N + 1][Domain]
  BY <1>1, <1>2, <1>3, <1>8, TotalIs
<1>10. /\ u[N + 1][Domain] <= w[N + 1][Domain]
       /\ u[N + 1][Domain] \in Nat /\ w[N + 1][Domain] \in Nat
  BY <1>4, <1>7, <1>8, MailConstants
<1> QED  BY <1>9, <1>10 DEF heard

\* Receivers reach no more names than are written.
LEMMA HeardReaches ==
  ASSUME NEW zone \in Zones, NEW K \in Nat
  PROVE  Mail!Reach(Mail!Heard(zone), K) \subseteq Mail!Reach(zone, K)
<1> DEFINE heard == Mail!Heard(zone)
<1>1. heard \in Zones /\ \A n \in Name : IsPrefix(TermsIn(heard, n), TermsIn(zone, n))
  BY HeardIs
<1>2. \A n \in Name : Includes(heard, n) \subseteq Includes(zone, n)
  <2> SUFFICES ASSUME NEW n \in Name, NEW t \in Includes(heard, n) PROVE t \in Includes(zone, n)
    OBVIOUS
  <2> DEFINE first == TermsIn(heard, n)
             terms == TermsIn(zone, n)
  <2>1. first \in Terminal /\ terms \in Terminal /\ IsPrefix(first, terms)
    BY <1>1, InTerminal
  <2>2. t \in Name /\ t \in Mail!ToSet(first)
    BY DEF Includes, Mail!Included, TermsIn
  <2>3. Includes(zone, n) = Mail!ToSet(terms) \cap Name
    BY DEF Includes, Mail!Included, TermsIn
  <2> HIDE DEF first, terms, heard
  <2>4. PICK k \in DOMAIN first : t = first[k]
    BY <2>2 DEF Mail!ToSet
  <2>5. k \in DOMAIN terms /\ t = terms[k]
    BY <2>1, <2>4 DEF Terminal, IsPrefix
  <2> QED  BY <2>2, <2>3, <2>5 DEF Mail!ToSet
<1> HIDE DEF heard
<1>3. PICK r : IsReach(r, heard, K)
  BY ReachExists
<1>4. PICK s : IsReach(s, zone, K)
  BY ReachExists
<1>5. \A j \in 0 .. K : r[j] \in SUBSET Name /\ s[j] \in SUBSET Name
  BY <1>3, <1>4 DEF IsReach
<1> DEFINE A == {j \in 0 .. K : r[j] \subseteq s[j]}
<1>6. 0 \in A
  BY <1>3, <1>4 DEF IsReach
<1>7. ASSUME NEW j \in 1 .. K, j - 1 \in A PROVE j \in A
  <2>1. j - 1 \in 0 .. K /\ r[j - 1] \subseteq s[j - 1]
    BY <1>7
  <2>2. r[j] = More(heard, r[j - 1]) /\ s[j] = More(zone, s[j - 1])
    BY <1>3, <1>4 DEF IsReach
  <2>3. More(heard, r[j - 1]) \subseteq More(zone, s[j - 1])
    <3>1. r[j - 1] \in SUBSET Name /\ s[j - 1] \in SUBSET Name
      BY <1>5, <2>1
    <3> SUFFICES ASSUME NEW m \in More(heard, r[j - 1]) PROVE m \in More(zone, s[j - 1])
      OBVIOUS
    <3>2. m \in r[j - 1] \/ \E n \in r[j - 1] : m \in Includes(heard, n)
      BY <3>1, MoreIs
    <3>3. m \in s[j - 1] \/ \E n \in s[j - 1] : m \in Includes(zone, n)
      BY <1>2, <2>1, <3>1, <3>2
    <3> QED  BY <3>1, <3>3, MoreIs
  <2> QED  BY <2>2, <2>3
<1>8. \A j \in 0 .. K : j \in A
  <2> HIDE DEF A
  <2> QED  BY <1>6, <1>7, Onward
<1>9. K \in 0 .. K
  OBVIOUS
<1>10. Mail!Reach(heard, K) = r[K] /\ Mail!Reach(zone, K) = s[K]
  BY <1>3, <1>4, <1>9, ReachIs
<1> QED  BY <1>8, <1>9, <1>10 DEF heard
=============================================================================
