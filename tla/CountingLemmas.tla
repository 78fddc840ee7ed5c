--------------------------- MODULE CountingLemmas ---------------------------
(* Bounds on rows whose number is checked in one query and raised in        *)
(* another: the rows S and the requests F of R that have passed the check   *)
(* and may still add a row are counted together.                            *)
EXTENDS FiniteSetTheorems, TLAPS

(* Rows are deleted or closed and requests end or fail; or nothing is there *)
(* when a request passes the check; or one request becomes one row: the     *)
(* bound N on rows and requests together survives each of these.            *)
LEMMA Counting ==
  ASSUME NEW S, NEW F, NEW T, NEW G, NEW R, NEW N \in Nat,
         IsFiniteSet(S), IsFiniteSet(R), F \subseteq R, G \subseteq R,
         Cardinality(S) + Cardinality(F) <= N,
         Cardinality(R) <= N,
         \/ T \subseteq S /\ G \subseteq F
         \/ T = {}
         \/ \E i, r : i \notin S /\ T = S \cup {i} /\ r \in F /\ G = F \ {r}
  PROVE  IsFiniteSet(T) /\ Cardinality(T) + Cardinality(G) <= N
<1>1. /\ IsFiniteSet(F) /\ IsFiniteSet(G)
      /\ Cardinality(G) <= Cardinality(R)
  BY FS_Subset
<1>2. {Cardinality(S), Cardinality(F), Cardinality(G), Cardinality(R)} \subseteq Nat
  BY <1>1, FS_CardinalityType
<1>3. CASE T \subseteq S /\ G \subseteq F
  <2>1. Cardinality(G) <= Cardinality(F)
    BY <1>1, <1>3, FS_Subset
  <2>2. IsFiniteSet(T) /\ Cardinality(T) <= Cardinality(S)
    BY <1>3, FS_Subset
  <2>3. Cardinality(T) \in Nat
    BY <2>2, FS_CardinalityType
  <2> QED
    BY <2>1, <2>2, <2>3, <1>2
<1>4. CASE T = {}
  BY <1>1, <1>2, <1>4, FS_EmptySet
<1>5. ASSUME NEW i, NEW r, i \notin S, T = S \cup {i}, r \in F, G = F \ {r}
      PROVE  IsFiniteSet(T) /\ Cardinality(T) + Cardinality(G) <= N
  <2>1. IsFiniteSet(T) /\ Cardinality(T) = Cardinality(S) + 1
    BY <1>5, FS_AddElement
  <2>2. Cardinality(G) = Cardinality(F) - 1
    BY <1>1, <1>5, FS_RemoveElement
  <2> QED
    BY <2>1, <2>2, <1>2
<1> QED
  BY <1>3, <1>4, <1>5

(* Counters that are read, incremented and written back, of rows that were  *)
(* stored before: P are the counter and the values about to be written, G   *)
(* the requests that have stored a row and not yet read, N the rows.  Rows  *)
(* are added and requests write or end; or one request stores a row; or one *)
(* of them reads: no value gets ahead of the rows.                          *)
Counted(P, G, N) == \A n \in P : n + Cardinality(G) <= N

Proceeds(P, Q, G, H, N, M) ==
  \/ Q \subseteq P /\ H \subseteq G /\ N <= M
  \/ Q \subseteq P /\ M = N + 1 /\ \E r : H \subseteq G \cup {r}
  \/ /\ \E n \in P : Q \subseteq P \cup {n + 1}
     /\ \E r \in G : H = G \ {r}
     /\ N = M

LEMMA ReadThenWrite ==
  ASSUME NEW P, NEW Q, P \subseteq Nat, Q \subseteq Nat,
         NEW R, NEW G \in SUBSET R, NEW H \in SUBSET R, IsFiniteSet(R),
         NEW N \in Nat, NEW M \in Nat,
         Counted(P, G, N), Proceeds(P, Q, G, H, N, M)
  PROVE  Counted(Q, H, M)
<1> USE DEF Counted
<1>1. IsFiniteSet(G) /\ IsFiniteSet(H)
  BY FS_Subset
<1>2. Cardinality(G) \in Nat /\ Cardinality(H) \in Nat
  BY <1>1, FS_CardinalityType
<1>3. CASE Q \subseteq P /\ H \subseteq G /\ N <= M
  <2>1. Cardinality(H) <= Cardinality(G)
    BY <1>1, <1>3, FS_Subset
  <2> QED
    BY <1>2, <1>3, <2>1
<1>4. ASSUME Q \subseteq P, M = N + 1, NEW r, H \subseteq G \cup {r}
      PROVE  \A n \in Q : n + Cardinality(H) <= M
  <2>1. /\ IsFiniteSet(G \cup {r})
        /\ Cardinality(G \cup {r}) <= Cardinality(G) + 1
    <3>1. CASE r \in G
      <4>1. G \cup {r} = G
        BY <3>1
      <4> QED
        BY <1>1, <1>2, <4>1
    <3>2. CASE r \notin G
      <4>1. IsFiniteSet(G \cup {r}) /\ Cardinality(G \cup {r}) = Cardinality(G) + 1
        BY <1>1, <3>2, FS_AddElement
      <4> QED
        BY <1>2, <4>1
    <3> QED
      BY <3>1, <3>2
  <2>2. Cardinality(H) <= Cardinality(G \cup {r}) /\ Cardinality(G \cup {r}) \in Nat
    BY <1>4, <2>1, FS_Subset, FS_CardinalityType
  <2>3. Cardinality(H) <= Cardinality(G) + 1
    BY <1>2, <2>1, <2>2
  <2> QED
    BY <1>2, <1>4, <2>3
<1>5. ASSUME NEW n \in P, Q \subseteq P \cup {n + 1}, NEW r \in G, H = G \ {r}, N = M
      PROVE  \A m \in Q : m + Cardinality(H) <= M
  <2>1. Cardinality(H) = Cardinality(G) - 1
    BY <1>1, <1>5, FS_RemoveElement
  <2> QED
    BY <1>2, <1>5, <2>1
<1> QED
  BY <1>3, <1>4, <1>5 DEF Proceeds

-----------------------------------------------------------------------------
(* Rows that are listed in one query, of which a request r removes V[r], all *)
(* but a few, in the next, to add one row in a third: C are the rows, F the  *)
(* requests that may add one, and D those that have listed the rows and not *)
(* yet removed any.  before[r] are the requests of D that listed the rows    *)
(* earlier than r; the ones of P did so earlier than the last request whose *)
(* removal is done.  What r leaves is bounded by low before its removal,     *)
(* and by high once others have put back rows that it has removed.           *)
InOrder(before, P, D) ==
  \A q \in D \ P :
     /\ P \cap D \subseteq before[q]
     /\ \A p \in D \ P : /\ p = q \/ p \in before[q] \/ q \in before[p]
                         /\ p \in before[q] => before[p] \cap D \subseteq before[q]

Leaves(C, V, F, D, before, P, low, high) ==
  /\ Cardinality(C) + Cardinality(F) + Cardinality(P \cap D) <= high
  /\ \A q \in D \ P :
        Cardinality(C \ V[q]) + Cardinality(F) + Cardinality(before[q] \cap D) <= low

Removing(C, V, F, D, R, low, high) ==
  /\ IsFiniteSet(C)
  /\ \E P \in SUBSET R, before \in [R -> SUBSET R] :
        InOrder(before, P, D) /\ Leaves(C, V, F, D, before, P, low, high)

(* A subset of a finite set has no more elements. *)
LEMMA Fewer ==
  ASSUME NEW S, IsFiniteSet(S), NEW T, T \subseteq S
  PROVE  /\ IsFiniteSet(T) /\ Cardinality(T) \in Nat /\ Cardinality(S) \in Nat
         /\ Cardinality(T) <= Cardinality(S)
  BY FS_Subset, FS_CardinalityType

(* Rows are removed, requests end, and nothing is added. *)
LEMMA RemovingShrinks ==
  ASSUME NEW C, NEW V, NEW R, IsFiniteSet(R), NEW F \in SUBSET R, NEW D \in SUBSET R,
         NEW low \in Nat, NEW high \in Nat,
         Removing(C, V, F, D, R, low, high),
         NEW C2, C2 \subseteq C, NEW F2, F2 \subseteq F, NEW D2, D2 \subseteq D,
         NEW V2, \A q \in D2 : V2[q] = V[q]
  PROVE  Removing(C2, V2, F2, D2, R, low, high)
<1>1. PICK P \in SUBSET R, before \in [R -> SUBSET R] :
        InOrder(before, P, D) /\ Leaves(C, V, F, D, before, P, low, high)
  BY DEF Removing
<1>2. IsFiniteSet(C) /\ IsFiniteSet(F) /\ IsFiniteSet(D)
  BY FS_Subset DEF Removing
<1>3. InOrder(before, P, D2)
  BY <1>1 DEF InOrder
<1>4. /\ IsFiniteSet(C2)
      /\ {Cardinality(C2), Cardinality(C), Cardinality(F2), Cardinality(F)} \subseteq Nat
      /\ Cardinality(C2) <= Cardinality(C) /\ Cardinality(F2) <= Cardinality(F)
  BY <1>2, Fewer
<1>5. Cardinality(C2) + Cardinality(F2) + Cardinality(P \cap D2) <= high
  <2>1. /\ Cardinality(P \cap D2) \in Nat /\ Cardinality(P \cap D) \in Nat
        /\ Cardinality(P \cap D2) <= Cardinality(P \cap D)
    <3>1. IsFiniteSet(P \cap D) /\ P \cap D2 \subseteq P \cap D
      BY <1>2, Fewer
    <3> QED
      BY <3>1, Fewer
  <2>2. Cardinality(C) + Cardinality(F) + Cardinality(P \cap D) <= high
    BY <1>1 DEF Leaves
  <2> QED
    BY <1>4, <2>1, <2>2
<1>6. ASSUME NEW q \in D2 \ P
      PROVE  Cardinality(C2 \ V2[q]) + Cardinality(F2) + Cardinality(before[q] \cap D2)
                <= low
  <2>1. /\ Cardinality(before[q] \cap D2) \in Nat /\ Cardinality(before[q] \cap D) \in Nat
        /\ Cardinality(before[q] \cap D2) <= Cardinality(before[q] \cap D)
    <3>1. IsFiniteSet(before[q] \cap D) /\ before[q] \cap D2 \subseteq before[q] \cap D
      BY <1>2, Fewer
    <3> QED
      BY <3>1, Fewer
  <2>2. /\ Cardinality(C2 \ V2[q]) \in Nat /\ Cardinality(C \ V[q]) \in Nat
        /\ Cardinality(C2 \ V2[q]) <= Cardinality(C \ V[q])
    <3>1. IsFiniteSet(C \ V[q]) /\ C2 \ V2[q] \subseteq C \ V[q]
      BY <1>2, Fewer
    <3> QED
      BY <3>1, Fewer
  <2>3. Cardinality(C \ V[q]) + Cardinality(F) + Cardinality(before[q] \cap D) <= low
    BY <1>1, <1>6 DEF Leaves
  <2> QED
    BY <1>4, <2>1, <2>2, <2>3
<1> QED
  BY <1>1, <1>3, <1>4, <1>5, <1>6 DEF Removing, Leaves

(* A request adds its row. *)
LEMMA RemovingAdds ==
  ASSUME NEW C, NEW V, NEW R, IsFiniteSet(R), NEW F \in SUBSET R, NEW D \in SUBSET R,
         NEW low \in Nat, NEW high \in Nat,
         Removing(C, V, F, D, R, low, high),
         NEW i, NEW r \in F
  PROVE  Removing(C \cup {i}, V, F \ {r}, D, R, low, high)
<1>1. PICK P \in SUBSET R, before \in [R -> SUBSET R] :
        InOrder(before, P, D) /\ Leaves(C, V, F, D, before, P, low, high)
  BY DEF Removing
<1>2. IsFiniteSet(C) /\ IsFiniteSet(F) /\ IsFiniteSet(D)
  BY FS_Subset DEF Removing
<1>3. /\ Cardinality(F) \in Nat
      /\ Cardinality(F \ {r}) = Cardinality(F) - 1
  BY <1>2, FS_RemoveElement, FS_CardinalityType
<1>4. ASSUME NEW S, IsFiniteSet(S)
      PROVE  /\ IsFiniteSet(S \cup {i})
             /\ Cardinality(S) \in Nat /\ Cardinality(S \cup {i}) \in Nat
             /\ Cardinality(S \cup {i}) <= Cardinality(S) + 1
  <2>1. /\ IsFiniteSet(S \cup {i})
        /\ Cardinality(S \cup {i}) = IF i \in S THEN Cardinality(S)
                                      ELSE Cardinality(S) + 1
    BY <1>4, FS_AddElement
  <2>2. Cardinality(S) \in Nat
    BY <1>4, FS_CardinalityType
  <2> QED
    BY <2>1, <2>2
<1>5. \A q : before[q] \cap D \subseteq D /\ P \cap D \subseteq D
  OBVIOUS
<1>6. ASSUME NEW q \in D \ P
      PROVE  Cardinality((C \cup {i}) \ V[q]) + Cardinality(F \ {r})
                + Cardinality(before[q] \cap D) <= low
  <2>1. IsFiniteSet(C \ V[q]) /\ (C \cup {i}) \ V[q] \subseteq (C \ V[q]) \cup {i}
    BY <1>2, Fewer
  <2>2. /\ Cardinality((C \cup {i}) \ V[q]) \in Nat
        /\ Cardinality(C \ V[q]) \in Nat
        /\ Cardinality((C \cup {i}) \ V[q]) <= Cardinality(C \ V[q]) + 1
    <3>1. /\ IsFiniteSet((C \ V[q]) \cup {i})
          /\ Cardinality(C \ V[q]) \in Nat
          /\ Cardinality((C \ V[q]) \cup {i}) <= Cardinality(C \ V[q]) + 1
      BY <1>4, <2>1
    <3>2. /\ Cardinality((C \cup {i}) \ V[q]) \in Nat
          /\ Cardinality((C \ V[q]) \cup {i}) \in Nat
          /\ Cardinality((C \cup {i}) \ V[q]) <= Cardinality((C \ V[q]) \cup {i})
      BY <2>1, <3>1, Fewer
    <3> QED
      BY <3>1, <3>2
  <2>3. Cardinality(before[q] \cap D) \in Nat
    BY <1>2, <1>5, Fewer
  <2>4. Cardinality(C \ V[q]) + Cardinality(F) + Cardinality(before[q] \cap D) <= low
    BY <1>1, <1>6 DEF Leaves
  <2> QED
    BY <1>3, <2>2, <2>3, <2>4
<1>7. Cardinality(C \cup {i}) + Cardinality(F \ {r}) + Cardinality(P \cap D) <= high
  <2>1. Cardinality(P \cap D) \in Nat
    BY <1>2, <1>5, Fewer
  <2>2. Cardinality(C) + Cardinality(F) + Cardinality(P \cap D) <= high
    BY <1>1 DEF Leaves
  <2> QED
    BY <1>2, <1>3, <1>4, <2>1, <2>2
<1> QED
  BY <1>1, <1>2, <1>4, <1>6, <1>7 DEF Removing, Leaves

(* A request lists few rows, and goes on to add one at once. *)
LEMMA RemovingAdmits ==
  ASSUME NEW C, NEW V, NEW R, IsFiniteSet(R), NEW F, NEW D \in SUBSET R,
         NEW low, NEW high,
         IsFiniteSet(C), Cardinality(C) + Cardinality(F) + Cardinality(D) <= high
  PROVE  Removing(C, V, F, D, R, low, high)
<1>1. PICK before \in [R -> SUBSET R] : before = [q \in R |-> {}]
  OBVIOUS
<1>2. InOrder(before, D, D) /\ D \cap D = D
  BY DEF InOrder
<1>3. Leaves(C, V, F, D, before, D, low, high)
  BY <1>2 DEF Leaves
<1> QED
  BY <1>2, <1>3 DEF Removing

(* A request lists too many rows and is about to remove some. *)
LEMMA RemovingLists ==
  ASSUME NEW C, NEW V, NEW R, IsFiniteSet(R), NEW F \in SUBSET R, NEW D \in SUBSET R,
         NEW low \in Nat, NEW high \in Nat,
         Removing(C, V, F, D, R, low, high),
         NEW r \in R, r \notin D, NEW V2, \A q \in D : V2[q] = V[q],
         Cardinality(C \ V2[r]) + Cardinality(F) + Cardinality(D) <= low
  PROVE  Removing(C, V2, F, D \cup {r}, R, low, high)
<1>1. PICK P \in SUBSET R, before \in [R -> SUBSET R] :
        InOrder(before, P, D) /\ Leaves(C, V, F, D, before, P, low, high)
  BY DEF Removing
<1> DEFINE P2 == P \ {r}
           last == [q \in R |-> IF q = r THEN D ELSE before[q] \ {r}]
<1>2. /\ P2 \in SUBSET R /\ last \in [R -> SUBSET R]
      /\ P2 \cap (D \cup {r}) = P \cap D
      /\ last[r] = D /\ last[r] \cap (D \cup {r}) = D
      /\ \A q \in D : last[q] = before[q] \ {r} /\ last[q] \cap (D \cup {r}) = before[q] \cap D
  OBVIOUS
<1>3. InOrder(last, P2, D \cup {r})
  <2> SUFFICES ASSUME NEW q \in (D \cup {r}) \ P2
               PROVE  /\ P2 \cap (D \cup {r}) \subseteq last[q]
                      /\ \A p \in (D \cup {r}) \ P2 :
                            /\ p = q \/ p \in last[q] \/ q \in last[p]
                            /\ p \in last[q] => last[p] \cap (D \cup {r}) \subseteq last[q]
    BY DEF InOrder
  <2>1. CASE q = r
    BY <1>2, <2>1
  <2>2. CASE q # r
    <3>1. q \in D \ P /\ q \in last[r] /\ r \notin last[q]
      BY <1>2, <2>2
    <3>2. /\ P \cap D \subseteq before[q]
          /\ \A p \in D \ P : /\ p = q \/ p \in before[q] \/ q \in before[p]
                              /\ p \in before[q] => before[p] \cap D \subseteq before[q]
      BY <1>1, <3>1 DEF InOrder
    <3> HIDE DEF last
    <3>3. P2 \cap (D \cup {r}) \subseteq last[q]
      BY <1>2, <3>1, <3>2
    <3>4. ASSUME NEW p \in (D \cup {r}) \ P2
          PROVE  /\ p = q \/ p \in last[q] \/ q \in last[p]
                 /\ p \in last[q] => last[p] \cap (D \cup {r}) \subseteq last[q]
      <4>1. CASE p = r
        BY <3>1, <4>1
      <4>2. CASE p # r
        BY <1>2, <2>2, <3>1, <3>2, <4>2
      <4> QED
        BY <4>1, <4>2
    <3> QED
      BY <3>3, <3>4
  <2> QED
    BY <2>1, <2>2
<1>4. Leaves(C, V2, F, D \cup {r}, last, P2, low, high)
  <2> HIDE DEF P2, last
  <2>1. ASSUME NEW q \in (D \cup {r}) \ P2
        PROVE  Cardinality(C \ V2[q]) + Cardinality(F)
                  + Cardinality(last[q] \cap (D \cup {r})) <= low
    <3>1. CASE q = r
      BY <1>2, <3>1
    <3>2. CASE q # r
      <4>1. q \in D \ P
        BY <1>2, <2>1, <3>2 DEF P2
      <4>2. V2[q] = V[q] /\ last[q] \cap (D \cup {r}) = before[q] \cap D
        BY <1>2, <4>1
      <4> QED
        BY <1>1, <4>1, <4>2 DEF Leaves
    <3> QED
      BY <3>1, <3>2
  <2>2. Cardinality(C) + Cardinality(F) + Cardinality(P2 \cap (D \cup {r})) <= high
    BY <1>1, <1>2 DEF Leaves
  <2> QED
    BY <2>1, <2>2 DEF Leaves
<1> QED
  BY <1>2, <1>3, <1>4 DEF Removing

(* A request removes the rows that it has listed; X are put back. *)
LEMMA RemovingRemoves ==
  ASSUME NEW C, NEW V, NEW R, IsFiniteSet(R), NEW F \in SUBSET R, NEW D \in SUBSET R,
         NEW low \in Nat, NEW high \in Nat,
         Removing(C, V, F, D, R, low, high),
         NEW r \in D, r \notin F,
         NEW C2, C2 \subseteq C, NEW X, IsFiniteSet(X), C2 \subseteq (C \ V[r]) \cup X,
         low + Cardinality(X) + 1 <= high,
         NEW V2, \A q \in D \ {r} : V2[q] = V[q]
  PROVE  Removing(C2, V2, F \cup {r}, D \ {r}, R, low, high)
<1>1. PICK P \in SUBSET R, before \in [R -> SUBSET R] :
        InOrder(before, P, D) /\ Leaves(C, V, F, D, before, P, low, high)
  BY DEF Removing
<1>2. IsFiniteSet(C) /\ IsFiniteSet(F) /\ IsFiniteSet(D)
  BY FS_Subset DEF Removing
<1>3. /\ Cardinality(F) \in Nat
      /\ Cardinality(F \cup {r}) = Cardinality(F) + 1
  BY <1>2, FS_AddElement, FS_CardinalityType
<1>4. /\ IsFiniteSet(C2)
      /\ Cardinality(C2) \in Nat /\ Cardinality(C) \in Nat
      /\ Cardinality(C2) <= Cardinality(C)
  BY <1>2, Fewer
(* One request less is in D, of those that the set B counts. *)
<1>5. ASSUME NEW B, r \in B
      PROVE  /\ Cardinality(B \cap D) \in Nat
             /\ Cardinality(B \cap (D \ {r})) = Cardinality(B \cap D) - 1
  <2>1. IsFiniteSet(B \cap D) /\ Cardinality(B \cap D) \in Nat
    BY <1>2, Fewer
  <2>2. B \cap (D \ {r}) = (B \cap D) \ {r} /\ r \in B \cap D
    BY <1>5
  <2>3. Cardinality((B \cap D) \ {r}) = Cardinality(B \cap D) - 1
    BY <2>1, <2>2, FS_RemoveElement
  <2> QED
    BY <2>1, <2>2, <2>3
<1>6. ASSUME NEW q \in (D \ {r}) \ P, r \in before[q]
      PROVE  Cardinality(C2 \ V2[q]) + Cardinality(F \cup {r})
                + Cardinality(before[q] \cap (D \ {r})) <= low
  <2>1. /\ Cardinality(C2 \ V2[q]) \in Nat /\ Cardinality(C \ V[q]) \in Nat
        /\ Cardinality(C2 \ V2[q]) <= Cardinality(C \ V[q])
    <3>1. IsFiniteSet(C \ V[q]) /\ C2 \ V2[q] \subseteq C \ V[q]
      BY <1>2, Fewer
    <3> QED
      BY <3>1, Fewer
  <2>2. Cardinality(C \ V[q]) + Cardinality(F) + Cardinality(before[q] \cap D) <= low
    BY <1>1 DEF Leaves
  <2> QED
    BY <1>3, <1>5, <1>6, <2>1, <2>2
<1>7. CASE r \in P
  <2>1. InOrder(before, P, D \ {r})
    BY <1>1 DEF InOrder
  <2>2. \A q \in (D \ {r}) \ P : r \in before[q]
    BY <1>1, <1>7 DEF InOrder
  <2>3. Cardinality(C2) + Cardinality(F \cup {r}) + Cardinality(P \cap (D \ {r})) <= high
    <3>1. Cardinality(C) + Cardinality(F) + Cardinality(P \cap D) <= high
      BY <1>1 DEF Leaves
    <3> QED
      BY <1>3, <1>4, <1>5, <1>7, <3>1
  <2> QED
    BY <1>4, <1>6, <2>1, <2>2, <2>3 DEF Removing, Leaves
<1>8. CASE r \notin P
  <2> DEFINE P2 == before[r]
  <2>1. /\ P2 \in SUBSET R
        /\ \A q \in (D \ {r}) \ P2 : q \in D \ P /\ r \in before[q]
    BY <1>1, <1>8 DEF InOrder
  <2>2. InOrder(before, P2, D \ {r})
    BY <1>1, <1>8, <2>1 DEF InOrder
  <2>3. Cardinality(C2) + Cardinality(F \cup {r}) + Cardinality(P2 \cap (D \ {r})) <= high
    <3>1. Cardinality(C \ V[r]) + Cardinality(F) + Cardinality(P2 \cap D) <= low
      BY <1>1, <1>8 DEF Leaves
    <3>2. /\ Cardinality(P2 \cap (D \ {r})) \in Nat /\ Cardinality(P2 \cap D) \in Nat
          /\ Cardinality(P2 \cap (D \ {r})) <= Cardinality(P2 \cap D)
      <4>1. IsFiniteSet(P2 \cap D) /\ P2 \cap (D \ {r}) \subseteq P2 \cap D
        BY <1>2, Fewer
      <4> QED
        BY <4>1, Fewer
    <3>3. /\ Cardinality(C \ V[r]) \in Nat /\ Cardinality(X) \in Nat
          /\ Cardinality(C2) <= Cardinality(C \ V[r]) + Cardinality(X)
      <4>1. IsFiniteSet(C \ V[r]) /\ Cardinality(C \ V[r]) \in Nat
        BY <1>2, Fewer
      <4>2. /\ IsFiniteSet((C \ V[r]) \cup X)
            /\ Cardinality((C \ V[r]) \cup X)
                  = Cardinality(C \ V[r]) + Cardinality(X)
                    - Cardinality((C \ V[r]) \cap X)
        BY <4>1, FS_Union
      <4>3. Cardinality((C \ V[r]) \cap X) \in Nat /\ Cardinality(X) \in Nat
        BY <4>1, Fewer
      <4>4. /\ Cardinality((C \ V[r]) \cup X) \in Nat
            /\ Cardinality(C2) <= Cardinality((C \ V[r]) \cup X)
        BY <4>2, Fewer
      <4> QED
        BY <1>4, <4>1, <4>2, <4>3, <4>4
    <3> QED
      BY <1>3, <1>4, <3>1, <3>2, <3>3
  <2>4. \A q \in (D \ {r}) \ P2 :
          Cardinality(C2 \ V2[q]) + Cardinality(F \cup {r})
             + Cardinality(before[q] \cap (D \ {r})) <= low
    BY <1>6, <2>1
  <2> QED
    BY <1>4, <2>1, <2>2, <2>3, <2>4 DEF Removing, Leaves
<1> QED
  BY <1>7, <1>8
=============================================================================
