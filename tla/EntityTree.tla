----------------------------- MODULE EntityTree -----------------------------
(* The entities of a registry's answer (checker/domain.go): a tree, written  *)
(* as the list that a walk through the document makes of it.                 *)
EXTENDS Integers, Sequences, FiniteSetsExt

\* The depths of the entities of a document, in its order.
IsNesting(d) == \A i \in DOMAIN d : d[i] = 1 \/ (i > 1 /\ d[i] \in 1 .. d[i - 1] + 1)

\* The entities behind the i-th that are not within it.
Behind(d, i) == {j \in DOMAIN d : j > i /\ d[j] <= d[i]}

\* The first entity within the i-th, and the one after it in its list; 0 for none.
Inner(d, i) == IF i < Len(d) /\ d[i + 1] > d[i] THEN i + 1 ELSE 0
After(d, i) ==
    IF Behind(d, i) = {} \/ d[Min(Behind(d, i))] < d[i] THEN 0 ELSE Min(Behind(d, i))

\* Entities: a tree in the order of the document, where the card stands for the
\* name and the IANA id, 0 for neither.
IsDocument(es) ==
    /\ es \in Seq([role : STRING, card : Nat, inner : Nat, next : Nat])
    /\ \E d \in [1 .. Len(es) -> 1 .. Len(es)] :
          /\ IsNesting(d)
          /\ \A i \in 1 .. Len(es) : es[i].inner = Inner(d, i) /\ es[i].next = After(d, i)
=============================================================================
