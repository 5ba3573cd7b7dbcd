------------------------------ MODULE BootProofs ------------------------------
(***************************************************************************)
(* For any configuration whose lines have the form that Config and Boot    *)
(* assume, and any number of files, templates, interfaces and variables:   *)
(* the files are read in order and none is skipped while the ring of paths *)
(* is not full, an interface is made from the latest template of its tag,  *)
(* no resource is used more often than there are of it, and when the       *)
(* schedulers are enabled the interfaces fit their modules and the         *)
(* pointers are what was requested.                                        *)
(*                                                                         *)
(* The argument has one part per component: the slots between head and     *)
(* tail are the paths not yet loaded, in order; the map of templates holds *)
(* for every tag the last one read, which rests on what map_set and        *)
(* map_get do in every map; a count is the number of places of its         *)
(* resource in the interfaces; and a request is answered or a relocation   *)
(* of a source that vr_connect visits.  Where a fact about all numbers up  *)
(* to one is needed, the least number that violates it is taken            *)
(* (MinOfNats).                                                            *)
(***************************************************************************)
EXTENDS Boot, FiniteSetTheorems, WellFoundedInduction, TLAPS

USE ChunkAssumption

-----------------------------------------------------------------------------
(* The least element of a set, and division                                *)

\* A nonempty set of natural numbers has a least element.
LEMMA MinOfNats ==
  ASSUME NEW S, S \subseteq Nat, S # {}
  PROVE  Min(S) \in S /\ \A y \in S : Min(S) <= y
  <1> DEFINE R == OpToRel(<, Nat)
  <1>1. IsWellFoundedOn(R, Nat)
    BY NatLessThanWellFounded
  <1>2. \E x \in S : \A y \in S : ~ (<<y, x>> \in R)
    BY <1>1, WFMin, Zenon
  <1>3. R = {ss \in Nat \X Nat : ss[1] < ss[2]}
    BY Zenon DEF OpToRel
  <1> HIDE DEF R
  <1>4. \A x, y \in Nat : <<y, x>> \in R <=> y < x
    BY <1>3
  <1>5. PICK x \in S : \A y \in S : ~ (<<y, x>> \in R)
    BY <1>2
  <1>6. \A y \in S : ~(y < x)
    BY <1>4, <1>5
  <1>7. \A y \in S : x <= y
    BY <1>6
  <1> QED BY <1>7, Zenon DEF Min

\* Quotient and remainder, and that they are the only ones.
LEMMA Division ==
  ASSUME NEW x \in Nat, NEW d \in Nat, d # 0
  PROVE  /\ x \div d \in Nat /\ x % d \in 0 .. (d - 1)
         /\ x = (x \div d) * d + (x % d)
  OBVIOUS

LEMMA DivisionUnique ==
  ASSUME NEW d \in Nat, d # 0, NEW q \in Nat, NEW r \in 0 .. (d - 1)
  PROVE  (q * d + r) \div d = q /\ (q * d + r) % d = r
  OBVIOUS

\* Functions on 1 .. k are the sequences of length k.
LEMMA FunctionIsSequence ==
  ASSUME NEW S, NEW k \in Nat, NEW f \in [1 .. k -> S]
  PROVE  f \in Seq(S) /\ Len(f) = k
  OBVIOUS

-----------------------------------------------------------------------------
(* lib/map.c                                                               *)

\* Maps with elements in E.  The elements come before the NULLs.
IsMap(m, E) ==
  /\ m \in Seq([1 .. ChunkLen -> E \cup {NULL}])
  /\ \A p, q \in Places(m) : p < q /\ Elem(m, q) # NULL => Elem(m, p) # NULL

\* A place is a chunk and an index in it.
LEMMA PlaceIs ==
  ASSUME NEW m, Len(m) \in Nat, NEW p \in Places(m)
  PROVE  /\ p \in Nat /\ ChunkOf(p) \in 1 .. Len(m) /\ IndexOf(p) \in 1 .. ChunkLen
         /\ p = (ChunkOf(p) - 1) * ChunkLen + IndexOf(p)
  <1> DEFINE q == (p - 1) \div ChunkLen
             r == (p - 1) % ChunkLen
  <1>1. p \in Nat /\ p - 1 \in Nat /\ p <= Len(m) * ChunkLen
    BY DEF Places
  <1>2. q \in Nat /\ r \in 0 .. (ChunkLen - 1) /\ p - 1 = q * ChunkLen + r
    BY <1>1, Division
  <1>3. ChunkOf(p) = 1 + q /\ IndexOf(p) = 1 + r
    BY DEF ChunkOf, IndexOf
  <1> HIDE DEF q, r
  <1>4. q * ChunkLen < Len(m) * ChunkLen
    <2>1. q * ChunkLen \in Nat /\ Len(m) * ChunkLen \in Nat
      BY <1>2
    <2> QED BY <1>1, <1>2, <2>1
  <1>5. q < Len(m)
    BY <1>2, <1>4
  <1>6. (1 + q) - 1 = q /\ q * ChunkLen \in Nat
    BY <1>2
  <1> QED BY <1>1, <1>2, <1>3, <1>5, <1>6

\* The place of a chunk's index.
LEMMA PlaceOf ==
  ASSUME NEW c \in Nat \ {0}, NEW i \in 1 .. ChunkLen
  PROVE  LET p == (c - 1) * ChunkLen + i IN ChunkOf(p) = c /\ IndexOf(p) = i
  <1>1. i - 1 \in 0 .. (ChunkLen - 1) /\ c - 1 \in Nat
    OBVIOUS
  <1>2. /\ ((c - 1) * ChunkLen + (i - 1)) \div ChunkLen = c - 1
        /\ ((c - 1) * ChunkLen + (i - 1)) % ChunkLen = i - 1
    BY <1>1, DivisionUnique
  <1>3. (c - 1) * ChunkLen + i - 1 = (c - 1) * ChunkLen + (i - 1)
    BY <1>1
  <1> QED BY <1>2, <1>3 DEF ChunkOf, IndexOf

\* The elements of a map.
LEMMA ElemType ==
  ASSUME NEW E, NEW m, IsMap(m, E), NEW p \in Places(m)
  PROVE  Elem(m, p) \in E \cup {NULL}
  <1>1. Len(m) \in Nat
    BY DEF IsMap
  <1>2. ChunkOf(p) \in 1 .. Len(m) /\ IndexOf(p) \in 1 .. ChunkLen
    BY <1>1, PlaceIs
  <1> QED BY <1>2 DEF IsMap, Elem

\* Where map_set stores: the first place that is free or has the tag, or the
\* first of a new chunk.
FirstHit(m, tag) ==
  IF Hits(m, tag) # {} THEN Min(Hits(m, tag)) ELSE Len(m) * ChunkLen + 1

\* The loops pass only elements with other tags.
LEMMA FirstHitIs ==
  ASSUME NEW m, Len(m) \in Nat, NEW tag
  PROVE  LET q == FirstHit(m, tag) IN
         /\ q \in Nat \ {0}
         /\ \A r \in 1 .. (q - 1) :
              r \in Places(m) /\ Elem(m, r) # NULL /\ Elem(m, r)[1] # tag
         /\ \/ q \in Places(m) /\ (Elem(m, q) = NULL \/ Elem(m, q)[1] = tag)
            \/ q = Len(m) * ChunkLen + 1
         /\ Hits(m, tag) # {} <=> q \in Places(m)
  <1> DEFINE H == Hits(m, tag)
             N == Len(m) * ChunkLen
  <1>1. N \in Nat /\ Places(m) = 1 .. N
    BY DEF Places
  <1>2. /\ H \subseteq Places(m)
        /\ \A p \in H : Elem(m, p) = NULL \/ Elem(m, p)[1] = tag
        /\ \A p \in Places(m) \ H : Elem(m, p) # NULL /\ Elem(m, p)[1] # tag
    BY DEF Hits
  <1> HIDE DEF H, N
  <1>3. CASE H # {}
    <2> DEFINE q == Min(H)
    <2>1. q \in H /\ \A y \in H : q <= y
      <3>1. H \subseteq Nat
        BY <1>1, <1>2
      <3> QED BY <1>3, <3>1, MinOfNats
    <2>2. FirstHit(m, tag) = q
      BY <1>3 DEF FirstHit, H
    <2> HIDE DEF q
    <2>3. q \in 1 .. N
      BY <1>1, <1>2, <2>1
    <2>4. \A r \in 1 .. (q - 1) : r \in Places(m) \ H
      BY <1>1, <2>1, <2>3
    <2> QED BY <1>1, <1>2, <1>3, <2>1, <2>2, <2>3, <2>4 DEF H
  <1>4. CASE H = {}
    <2>1. FirstHit(m, tag) = N + 1
      BY <1>4 DEF FirstHit, H, N
    <2>2. \A r \in 1 .. N : r \in Places(m) \ H
      BY <1>1, <1>4
    <2> QED BY <1>1, <1>2, <1>4, <2>1, <2>2 DEF H, N
  <1> QED BY <1>3, <1>4

\* What map_get returns when it finds the tag ...
LEMMA GetFound ==
  ASSUME NEW m, Len(m) \in Nat, NEW tag, NEW s \in Places(m),
         Elem(m, s) # NULL, Elem(m, s)[1] = tag,
         \A r \in 1 .. (s - 1) : Elem(m, r) # NULL /\ Elem(m, r)[1] # tag
  PROVE  map_get(m, tag) = Elem(m, s)[2]
  <1> DEFINE H == Hits(m, tag)
  <1>1. Places(m) \subseteq Nat \ {0}
    BY DEF Places
  <1>2. s \in H /\ H \subseteq Nat /\ \A p \in H : ~(p \in 1 .. (s - 1))
    BY <1>1 DEF Hits
  <1> HIDE DEF H
  <1>3. Min(H) \in H /\ \A y \in H : Min(H) <= y
    BY <1>2, MinOfNats
  <1>4. Min(H) = s
    <2>1. PICK k \in H : k = Min(H)
      BY <1>3
    <2>2. s \in Nat \ {0} /\ k \in Nat \ {0}
      BY <1>1 DEF H, Hits
    <2>3. k <= s /\ ~(k \in 1 .. (s - 1))
      BY <1>2, <1>3, <2>1
    <2> QED BY <2>1, <2>2, <2>3
  <1> QED BY <1>2, <1>4 DEF map_get, H

\* ... and when no element has it.
LEMMA GetNotFound ==
  ASSUME NEW m, Len(m) \in Nat, NEW tag,
         \A p \in Places(m) : Elem(m, p) # NULL => Elem(m, p)[1] # tag
  PROVE  map_get(m, tag) = NULL
  <1> DEFINE H == Hits(m, tag)
  <1>1. \A p \in H : Elem(m, p) = NULL
    BY DEF Hits
  <1>2. H \subseteq Nat
    BY DEF Hits, Places
  <1> HIDE DEF H
  <1>3. H # {} => Min(H) \in H
    BY <1>2, MinOfNats
  <1> QED BY <1>1, <1>3 DEF map_get, H

\* There is no other case.
LEMMA GetCases ==
  ASSUME NEW E, NEW m, IsMap(m, E), NEW tag
  PROVE  \/ \E s \in Places(m) :
              /\ Elem(m, s) # NULL /\ Elem(m, s)[1] = tag
              /\ \A r \in 1 .. (s - 1) : Elem(m, r) # NULL /\ Elem(m, r)[1] # tag
         \/ \A p \in Places(m) : Elem(m, p) # NULL => Elem(m, p)[1] # tag
  <1>1. Len(m) \in Nat /\ Places(m) = 1 .. Len(m) * ChunkLen
    BY DEF IsMap, Places
  <1>2. PICK q : q = FirstHit(m, tag)
    OBVIOUS
  <1>3. /\ q \in Nat \ {0}
        /\ \A r \in 1 .. (q - 1) :
             r \in Places(m) /\ Elem(m, r) # NULL /\ Elem(m, r)[1] # tag
        /\ \/ q \in Places(m) /\ (Elem(m, q) = NULL \/ Elem(m, q)[1] = tag)
           \/ q = Len(m) * ChunkLen + 1
    BY <1>1, <1>2, FirstHitIs
  <1>4. CASE q \in Places(m) /\ Elem(m, q) # NULL
    <2>1. q # Len(m) * ChunkLen + 1
      <3>1. Len(m) * ChunkLen \in Nat
        BY <1>1
      <3> QED BY <1>1, <1>4, <3>1
    <2> QED BY <1>3, <1>4, <2>1
  <1>5. CASE ~(q \in Places(m) /\ Elem(m, q) # NULL)
    <2> SUFFICES ASSUME NEW p \in Places(m), Elem(m, p) # NULL
                 PROVE  Elem(m, p)[1] # tag
      OBVIOUS
    <2>1. p \in 1 .. (q - 1)
      <3>1. p \in Nat \ {0} /\ Len(m) * ChunkLen \in Nat /\ p <= Len(m) * ChunkLen
        BY <1>1
      <3>2. CASE q \in Places(m)
        <4>1. Elem(m, q) = NULL
          BY <1>5, <3>2
        <4>2. ~(q < p) /\ p # q
          BY <3>2, <4>1 DEF IsMap
        <4> QED BY <1>3, <3>1, <4>2
      <3>3. CASE q \notin Places(m)
        BY <1>3, <3>1, <3>3
      <3> QED BY <3>2, <3>3
    <2> QED BY <1>3, <2>1
  <1> QED BY <1>4, <1>5

\* map_set stores at the first hit and changes no other place; the places of
\* a new chunk are free.
LEMMA SetElems ==
  ASSUME NEW E, NEW m, IsMap(m, E), NEW tag, NEW v, <<tag, v>> \in E
  PROVE  LET n == map_set(m, tag, v)
             q == FirstHit(m, tag)
         IN /\ n \in Seq([1 .. ChunkLen -> E \cup {NULL}])
            /\ Places(m) \subseteq Places(n) /\ q \in Places(n)
            /\ \A p \in Places(n) :
                 Elem(n, p) = IF p = q THEN <<tag, v>>
                              ELSE IF p \in Places(m) THEN Elem(m, p) ELSE NULL
  <1> DEFINE n == map_set(m, tag, v)
             e == <<tag, v>>
             C == [1 .. ChunkLen -> E \cup {NULL}]
  <1>1. m \in Seq(C) /\ Len(m) \in Nat
    BY DEF IsMap
  <1>2. PICK q : q = FirstHit(m, tag)
    OBVIOUS
  <1>3. /\ q \in Nat \ {0}
        /\ q \in Places(m) \/ q = Len(m) * ChunkLen + 1
        /\ Hits(m, tag) # {} <=> q \in Places(m)
    BY <1>1, <1>2, FirstHitIs
  <1>4. CASE q \in Places(m)
    <2> DEFINE c == ChunkOf(q)
               i == IndexOf(q)
    <2>1. n = [m EXCEPT ![c][i] = e]
      BY <1>2, <1>3, <1>4 DEF map_set, Put, FirstHit
    <2>2. c \in 1 .. Len(m) /\ i \in 1 .. ChunkLen /\ q = (c - 1) * ChunkLen + i
      BY <1>1, <1>4, PlaceIs
    <2> HIDE DEF n, e, c, i
    <2>3. /\ n \in Seq(C) /\ Len(n) = Len(m)
          /\ \A k \in 1 .. Len(m) : \A j \in 1 .. ChunkLen :
               n[k][j] = IF k = c /\ j = i THEN e ELSE m[k][j]
      <3>1. e \in E \cup {NULL}
        BY DEF e
      <3>2. m \in [1 .. Len(m) -> C]
        BY <1>1
      <3>3. n \in [1 .. Len(m) -> C]
        <4>1. [m[c] EXCEPT ![i] = e] \in C
          BY <2>2, <3>1, <3>2
        <4> HIDE DEF C
        <4> QED BY ONLY <2>1, <2>2, <3>2, <4>1
      <3>4. n \in Seq(C) /\ Len(n) = Len(m)
        <4> HIDE DEF C
        <4> QED BY ONLY <1>1, <3>3, FunctionIsSequence
      <3>5. \A k \in 1 .. Len(m) : \A j \in 1 .. ChunkLen :
               n[k][j] = IF k = c /\ j = i THEN e ELSE m[k][j]
        BY <2>1, <2>2, <3>2
      <3> QED BY <3>4, <3>5
    <2>4. Places(n) = Places(m)
      BY <2>3 DEF Places
    <2>5. ASSUME NEW p \in Places(n)
          PROVE  Elem(n, p) = IF p = q THEN e ELSE Elem(m, p)
      <3>1. /\ ChunkOf(p) \in 1 .. Len(m) /\ IndexOf(p) \in 1 .. ChunkLen
            /\ p = (ChunkOf(p) - 1) * ChunkLen + IndexOf(p)
        BY <1>1, <2>4, PlaceIs
      <3>2. p = q <=> (ChunkOf(p) = c /\ IndexOf(p) = i)
        BY <2>2, <3>1 DEF c, i
      <3> QED BY <2>3, <3>1, <3>2 DEF Elem
    <2> QED BY <1>2, <1>4, <2>3, <2>4, <2>5 DEF e, n
  <1>5. CASE q \notin Places(m)
    <2> DEFINE d == [Chunk EXCEPT ![1] = e]
               N == Len(m) * ChunkLen
    <2>1. n = Append(m, d) /\ q = N + 1
      BY <1>3, <1>5 DEF map_set, Put
    <2>2. /\ d \in C /\ d[1] = e
          /\ \A j \in 1 .. ChunkLen : j # 1 => d[j] = NULL
      BY DEF Chunk
    <2> HIDE DEF n, e, d
    <2>3. /\ n \in Seq(C) /\ Len(n) = Len(m) + 1 /\ n[Len(m) + 1] = d
          /\ \A k \in 1 .. Len(m) : n[k] = m[k]
      BY <1>1, <2>1, <2>2
    <2>4. N \in Nat /\ Places(m) = 1 .. N /\ Places(n) = 1 .. (N + ChunkLen)
      <3>1. (Len(m) + 1) * ChunkLen = N + ChunkLen /\ N \in Nat
        BY <1>1
      <3> QED BY <2>3, <3>1 DEF Places
    <2>5. ASSUME NEW p \in Places(m) PROVE Elem(n, p) = Elem(m, p)
      BY <1>1, <2>3, <2>5, PlaceIs DEF Elem
    <2>6. ASSUME NEW p \in Places(n), p \notin Places(m)
          PROVE  Elem(n, p) = IF p = q THEN e ELSE NULL
      <3>1. PICK j \in 1 .. ChunkLen : p = N + j
        <4>1. p - N \in 1 .. ChunkLen /\ p = N + (p - N)
          BY <2>4, <2>6
        <4> QED BY <4>1
      <3>2. ChunkOf(p) = Len(m) + 1 /\ IndexOf(p) = j
        <4>1. PICK c \in Nat \ {0} : c = Len(m) + 1
          BY <1>1
        <4>2. /\ ChunkOf((c - 1) * ChunkLen + j) = c
              /\ IndexOf((c - 1) * ChunkLen + j) = j
          BY PlaceOf
        <4>3. c - 1 = Len(m)
          BY <1>1, <4>1
        <4> QED BY <3>1, <4>1, <4>2, <4>3
      <3>3. Elem(n, p) = d[j]
        BY <2>3, <3>2 DEF Elem
      <3>4. p = q <=> j = 1
        BY <2>1, <2>4, <3>1
      <3> QED BY <2>2, <3>3, <3>4
    <2>7. Places(m) \subseteq Places(n) /\ q \in Places(n)
      BY <2>1, <2>4
    <2> HIDE DEF N
    <2> QED BY <1>2, <1>5, <2>3, <2>5, <2>6, <2>7 DEF e, n
  <1> QED BY <1>4, <1>5

\* map_set keeps a map a map; the tag then has the value, and other tags have
\* the values they had.
LEMMA SetGet ==
  ASSUME NEW E, NULL \notin E, NEW m, IsMap(m, E), NEW tag, NEW v,
         <<tag, v>> \in E
  PROVE  LET n == map_set(m, tag, v)
         IN /\ IsMap(n, E)
            /\ map_get(n, tag) = v
            /\ \A u : u # tag => map_get(n, u) = map_get(m, u)
  <1> DEFINE e == <<tag, v>>
             C == [1 .. ChunkLen -> E \cup {NULL}]
  <1>1. m \in Seq(C) /\ Len(m) \in Nat /\ e # NULL /\ e[1] = tag /\ e[2] = v
    BY DEF IsMap
  <1>2. PICK q : q = FirstHit(m, tag)
    OBVIOUS
  <1>3. /\ q \in Nat \ {0}
        /\ \A r \in 1 .. (q - 1) :
             r \in Places(m) /\ Elem(m, r) # NULL /\ Elem(m, r)[1] # tag
        /\ \/ q \in Places(m) /\ (Elem(m, q) = NULL \/ Elem(m, q)[1] = tag)
           \/ q = Len(m) * ChunkLen + 1
    BY <1>1, <1>2, FirstHitIs
  <1>4. PICK n : n = map_set(m, tag, v)
    OBVIOUS
  <1>5. /\ n \in Seq(C)
        /\ Places(m) \subseteq Places(n) /\ q \in Places(n)
        /\ \A p \in Places(n) :
             Elem(n, p) = IF p = q THEN e
                          ELSE IF p \in Places(m) THEN Elem(m, p) ELSE NULL
    BY <1>2, <1>4, SetElems
  <1> HIDE DEF e, C
  <1>6. Len(n) \in Nat /\ Places(m) \subseteq Nat \ {0} /\ Places(n) \subseteq Nat
    BY <1>5 DEF Places
  <1>7. \A p \in Places(m), r \in Nat \ {0} : r < p => r \in Places(m)
    <2>1. Len(m) * ChunkLen \in Nat
      BY <1>1
    <2> QED BY <2>1 DEF Places
  <1>8. \A r \in 1 .. (q - 1) : Elem(n, r) = Elem(m, r)
    BY <1>3, <1>5
  <1>9. IsMap(n, E)
    <2> SUFFICES ASSUME NEW p \in Places(n), NEW s \in Places(n), p < s,
                        Elem(n, s) # NULL
                 PROVE  Elem(n, p) # NULL
      BY <1>5 DEF IsMap, C
    <2>1. p \in Nat \ {0}
      BY DEF Places
    <2>2. CASE p = q
      BY <1>1, <1>5, <2>2
    <2>3. CASE s = q
      <3>1. p \in 1 .. (q - 1)
        BY <1>3, <2>1, <2>3
      <3> QED BY <1>3, <1>8, <3>1
    <2>4. CASE p # q /\ s # q
      <3>1. s \in Places(m) /\ Elem(m, s) # NULL
        BY <1>5, <2>4
      <3>2. p \in Places(m)
        BY <1>7, <2>1, <3>1
      <3>3. Elem(m, p) # NULL
        BY <3>1, <3>2 DEF IsMap
      <3> QED BY <1>5, <2>4, <3>2, <3>3
    <2> QED BY <2>2, <2>3, <2>4
  <1>10. map_get(n, tag) = v
    <2>1. Elem(n, q) = e
      BY <1>5
    <2>2. \A r \in 1 .. (q - 1) : Elem(n, r) # NULL /\ Elem(n, r)[1] # tag
      BY <1>3, <1>8
    <2> QED BY <1>1, <1>5, <1>6, <2>1, <2>2, GetFound
  <1>11. ASSUME NEW u, u # tag PROVE map_get(n, u) = map_get(m, u)
    <2>1. ASSUME NEW s \in Places(m), Elem(m, s) # NULL, Elem(m, s)[1] = u,
                 \A r \in 1 .. (s - 1) : Elem(m, r) # NULL /\ Elem(m, r)[1] # u
          PROVE  map_get(n, u) = map_get(m, u)
      <3>1. map_get(m, u) = Elem(m, s)[2]
        BY <1>1, <2>1, GetFound
      <3>2. s # q
        <4>1. Len(m) * ChunkLen + 1 \notin Places(m)
          <5>1. Len(m) * ChunkLen \in Nat
            BY <1>1
          <5> QED BY <5>1 DEF Places
        <4> QED BY <1>3, <1>11, <2>1, <4>1
      <3>3. Elem(n, s) = Elem(m, s) /\ s \in Places(n)
        BY <1>5, <3>2
      <3>4. ASSUME NEW r \in 1 .. (s - 1)
            PROVE  Elem(n, r) # NULL /\ Elem(n, r)[1] # u
        <4>1. r \in Places(m)
          BY <1>6, <1>7
        <4>2. Elem(n, r) = e \/ Elem(n, r) = Elem(m, r)
          BY <1>5, <4>1
        <4> QED BY <1>1, <1>11, <2>1, <4>2
      <3>5. map_get(n, u) = Elem(n, s)[2]
        BY <1>6, <2>1, <3>3, <3>4, GetFound
      <3> QED BY <3>1, <3>3, <3>5
    <2>2. ASSUME \A p \in Places(m) : Elem(m, p) # NULL => Elem(m, p)[1] # u
          PROVE  map_get(n, u) = map_get(m, u)
      <3>1. \A p \in Places(n) : Elem(n, p) # NULL => Elem(n, p)[1] # u
        BY <1>1, <1>5, <1>11, <2>2
      <3>2. map_get(n, u) = NULL
        BY <1>6, <3>1, GetNotFound
      <3>3. map_get(m, u) = NULL
        BY <1>1, <2>2, GetNotFound
      <3> QED BY <3>2, <3>3
    <2> QED BY <2>1, <2>2, GetCases
  <1> QED BY <1>4, <1>9, <1>10, <1>11

\* A new map has one chunk, and no element.
LEMMA CreateIsMap ==
  ASSUME NEW E
  PROVE  /\ IsMap(map_create, E)
         /\ \A p \in Places(map_create) : Elem(map_create, p) = NULL
         /\ \A tag : map_get(map_create, tag) = NULL
  <1> DEFINE C == [1 .. ChunkLen -> E \cup {NULL}]
             m == map_create
  <1>1. m \in Seq(C) /\ Len(m) = 1 /\ m[1] = Chunk
    <2>1. Chunk \in C
      BY DEF Chunk
    <2> HIDE DEF C
    <2> QED BY <2>1 DEF map_create
  <1> HIDE DEF m, C
  <1>2. \A p \in Places(m) : Elem(m, p) = NULL
    <2> SUFFICES ASSUME NEW p \in Places(m) PROVE Elem(m, p) = NULL
      OBVIOUS
    <2>1. Len(m) \in Nat
      BY <1>1
    <2>2. ChunkOf(p) \in 1 .. Len(m) /\ IndexOf(p) \in 1 .. ChunkLen
      BY <2>1, PlaceIs
    <2>3. ChunkOf(p) = 1
      BY <1>1, <2>2
    <2> QED BY <1>1, <2>2, <2>3 DEF Elem, Chunk
  <1>3. IsMap(m, E)
    BY <1>1, <1>2 DEF IsMap, C
  <1>4. \A tag : map_get(m, tag) = NULL
    BY <1>1, <1>2, GetNotFound
  <1> QED BY <1>2, <1>3, <1>4 DEF m

\* map_iter_next visits every element.
LEMMA VisitedIs ==
  ASSUME NEW E, NEW m, IsMap(m, E)
  PROVE  Visited(m) = {Elem(m, p)[2] : p \in {q \in Places(m) : Elem(m, q) # NULL}}
  <1>1. {q \in Places(m) : \A r \in 1 .. q : Elem(m, r) # NULL}
          = {q \in Places(m) : Elem(m, q) # NULL}
    <2>1. ASSUME NEW q \in Places(m), Elem(m, q) # NULL, NEW r \in 1 .. q
          PROVE  Elem(m, r) # NULL
      <3>1. Len(m) * ChunkLen \in Nat /\ Places(m) = 1 .. Len(m) * ChunkLen
        BY DEF IsMap, Places
      <3>2. r \in Places(m) /\ (r < q \/ r = q)
        BY <3>1
      <3> QED BY <2>1, <3>2 DEF IsMap
    <2>2. \A q \in Places(m) : q \in 1 .. q
      BY DEF Places
    <2> QED BY <2>1, <2>2
  <1> QED BY <1>1, Zenon DEF Visited

\* A value stored under a tag that no element has is visited as well.
LEMMA SetVisited ==
  ASSUME NEW E, NULL \notin E, NEW m, IsMap(m, E), NEW tag, NEW v,
         <<tag, v>> \in E,
         \A p \in Places(m) : Elem(m, p) # NULL => Elem(m, p)[1] # tag
  PROVE  Visited(map_set(m, tag, v)) = Visited(m) \cup {v}
  <1> DEFINE e == <<tag, v>>
  <1>1. Len(m) \in Nat /\ e # NULL /\ e[2] = v
    <2>1. m \in Seq([1 .. ChunkLen -> E \cup {NULL}])
      BY DEF IsMap
    <2>2. Len(m) \in Nat
      BY ONLY <2>1
    <2>3. e # NULL /\ e[2] = v
      OBVIOUS
    <2> QED BY <2>2, <2>3
  <1>2. PICK q : q = FirstHit(m, tag)
    OBVIOUS
  <1>3. q \in Places(m) => Elem(m, q) = NULL
    <2>1. \/ q \in Places(m) /\ (Elem(m, q) = NULL \/ Elem(m, q)[1] = tag)
          \/ q = Len(m) * ChunkLen + 1
      BY <1>1, <1>2, FirstHitIs
    <2>2. Len(m) * ChunkLen + 1 \notin Places(m)
      <3>1. Len(m) * ChunkLen \in Nat
        BY <1>1
      <3> QED BY <3>1 DEF Places
    <2> QED BY <2>1, <2>2
  <1>4. PICK n : n = map_set(m, tag, v)
    OBVIOUS
  <1>5. /\ Places(m) \subseteq Places(n) /\ q \in Places(n)
        /\ \A p \in Places(n) :
             Elem(n, p) = IF p = q THEN e
                          ELSE IF p \in Places(m) THEN Elem(m, p) ELSE NULL
    BY <1>2, <1>4, SetElems
  <1>6. IsMap(n, E)
    BY <1>4, SetGet
  <1> HIDE DEF e
  <1>7. /\ Visited(n) = {Elem(n, p)[2] : p \in {k \in Places(n) : Elem(n, k) # NULL}}
        /\ Visited(m) = {Elem(m, p)[2] : p \in {k \in Places(m) : Elem(m, k) # NULL}}
    BY <1>6, VisitedIs
  <1>8. ASSUME NEW x \in Visited(n) PROVE x \in Visited(m) \cup {v}
    <2>1. PICK p \in Places(n) : Elem(n, p) # NULL /\ x = Elem(n, p)[2]
      BY <1>7, <1>8
    <2> QED BY <1>1, <1>5, <1>7, <2>1
  <1>9. ASSUME NEW x \in Visited(m) PROVE x \in Visited(n)
    <2>1. PICK p \in Places(m) : Elem(m, p) # NULL /\ x = Elem(m, p)[2]
      BY <1>7, <1>9
    <2>2. p # q /\ p \in Places(n)
      BY <1>3, <1>5, <2>1
    <2>3. Elem(n, p) = Elem(m, p)
      BY <1>5, <2>1, <2>2
    <2> QED BY <1>7, <2>1, <2>2, <2>3
  <1>10. v \in Visited(n)
    <2>1. Elem(n, q) = e
      BY <1>5
    <2> QED BY <1>1, <1>5, <1>7, <2>1
  <1> QED BY <1>4, <1>8, <1>9, <1>10

\* The sources: a struct of every name that was registered or requested.
Sources == {<<n, n>> : n \in Names}

\* vr_get_source adds the source to those vr_connect visits, if it is new.
LEMMA SourceVisited ==
  ASSUME IsMap(vr_sources, Sources), NEW n \in Names
  PROVE  /\ IsMap(WithSource(n), Sources)
         /\ Visited(WithSource(n)) = Visited(vr_sources) \cup {n}
  <1> DEFINE m == vr_sources
  <1>1. NULL \notin Sources /\ NULL \notin Names /\ <<n, n>> \in Sources
    BY NullAssumption DEF Sources
  <1>2. Len(m) \in Nat
    BY DEF IsMap
  <1>3. \A p \in Places(m) : Elem(m, p) \in Sources \cup {NULL}
    BY ElemType
  <1>4. ASSUME NEW s \in Places(m), Elem(m, s) # NULL, Elem(m, s)[1] = n,
               \A r \in 1 .. (s - 1) : Elem(m, r) # NULL /\ Elem(m, r)[1] # n
        PROVE  map_get(m, n) # NULL /\ n \in Visited(m)
    <2>1. Elem(m, s)[2] = n
      BY <1>3, <1>4 DEF Sources
    <2>2. map_get(m, n) = n
      BY <1>2, <1>4, <2>1, GetFound
    <2>3. n \in Visited(m)
      BY <1>4, <2>1, VisitedIs
    <2> QED BY <1>1, <2>2, <2>3
  <1>5. CASE map_get(m, n) = NULL
    <2>1. \A p \in Places(m) : Elem(m, p) # NULL => Elem(m, p)[1] # n
      BY <1>4, <1>5, GetCases
    <2>2. WithSource(n) = map_set(m, n, n)
      BY <1>5 DEF WithSource
    <2>3. IsMap(map_set(m, n, n), Sources)
      BY <1>1, SetGet
    <2>4. Visited(map_set(m, n, n)) = Visited(m) \cup {n}
      BY <1>1, <2>1, SetVisited
    <2> QED BY <2>2, <2>3, <2>4
  <1>6. CASE map_get(m, n) # NULL
    <2>1. WithSource(n) = m
      BY <1>6 DEF WithSource
    <2>2. ~ \A p \in Places(m) : Elem(m, p) # NULL => Elem(m, p)[1] # n
      BY <1>2, <1>6, GetNotFound
    <2>3. n \in Visited(m)
      BY <1>4, <2>2, GetCases
    <2> QED BY <2>1, <2>3
  <1> QED BY <1>5, <1>6

-----------------------------------------------------------------------------
(* The inductive invariant                                                 *)

\* The elements of the map of templates.
Templates == {<<l[2], l[3]>> : l \in PerLines}

ReaderTypes ==
  /\ CfTypeOK /\ peak \in Nat
  /\ prelude \in Seq(AllLines)
  /\ pc \in {"next", "read", "line", "args", "init", "done", "failed"}
  /\ pc \in {"line", "args", "init"} => line \in AllLines
  /\ pc \in {"args", "init"} => line[1] = "mod" /\ line[3] \in DOMAIN Kinds
  /\ pers \in Seq(Templates)
  /\ IsMap(cf_peripherals, Templates)

\* How many slots after the head of the queue a slot is.
Ahead(i) == IF i >= cf_queue_head THEN i - cf_queue_head
                                  ELSE i - cf_queue_head + QueueLen

\* The slots between head and tail hold the paths still to be loaded, in
\* their order, as long as the ring was never full.
QueueHolds ==
  /\ peak < QueueLen =>
       /\ Len(pushed) = Len(loaded) + Ahead(cf_queue_tail)
       /\ Ahead(cf_queue_tail) <= peak
       /\ \A k \in 1 .. Len(loaded) : loaded[k] = pushed[k]
       /\ \A i \in Ring : Ahead(i) < Ahead(cf_queue_tail) =>
            cf_path_queue[i] = pushed[Len(loaded) + 1 + Ahead(i)]
  /\ pc = "done" => cf_queue_head = cf_queue_tail

\* The last template of a tag among those read.
OfTag(tag) == {k \in 1 .. Len(pers) : pers[k][1] = tag}
LatestOf(tag) == IF OfTag(tag) = {} THEN NULL ELSE pers[Max(OfTag(tag))][2]

\* The tags of templates.
Tags == {l[2] : l \in PerLines}

\* The map holds, for every tag, the last template of those read.
MapHoldsLatest == \A tag : map_get(cf_peripherals, tag) = LatestOf(tag)

InterfaceTypes == {"SERIAL", "SPI", "PWM", "GPIO"}
Interface == [per : Peripherals, rscs : Seq(Rscs), tag : Tags, at : Nat,
              for : InterfaceTypes]

InterfacesMade ==
  /\ interfaces \in Seq(Interface)
  /\ \A i \in 1 .. Len(interfaces) : interfaces[i].at <= Len(pers)

\* An interface that does not fit its module ends in an error.
InterfacesFit ==
  /\ pc # "failed" =>
       \A i \in 1 .. Len(interfaces) : PpType[interfaces[i].per] = interfaces[i].for
  /\ \A i, j \in 1 .. Len(interfaces) :
       PpType[interfaces[i].per] = "SERIAL" /\ interfaces[i].per = interfaces[j].per
         => i = j

UsesFinite == \A r \in Rscs : IsFiniteSet(Uses(r))

\* main_task goes on only after cf_init returned.
PhaseInv ==
  /\ phase # "load" => pc \in {"done", "failed"}
  /\ phase = "enabled" => pc = "done" /\ Connected

\* Volumes are named by lines; the schedulers among the arguments parsed so far
\* exist.
ModulesInv ==
  /\ rs_states \in [Rscs -> 0 .. (CountMod - 1)]
  /\ sourced \subseteq sc_schedulers
  /\ volumes \in Seq({"int"} \cup {l[2] : l \in AllLines})
  /\ Len(volumes) \in 1 .. MaxVolumes
  /\ pc = "args" =>
       /\ curarg \in Nat \ {0}
       /\ \A i \in 1 .. (curarg - 1) :
            Decl[i].type = "SCHEDULER" /\ Args[i] # "-" => Args[i] \in sc_schedulers

\* The calls a module's init has still to make.
CallsLeft ==
  pc = "init" =>
    todo \in Seq(({"register"} \X Names) \cup ({"request"} \X Links))

\* A relocation of a source is for a request, and the source is one that
\* vr_connect visits.
RelocFor(n, r) ==
  /\ req[r.dst] # NULL /\ req[r.dst].name = n /\ req[r.dst].type = r.type
  /\ r.index = req[r.dst].index % IndexMod
RelocsRequested ==
  \A n \in Names :
    /\ reloc[n] # <<>> => n \in Visited(vr_sources)
    /\ \A k \in 1 .. Len(reloc[n]) : RelocFor(n, reloc[n][k])

\* A request is answered or still a relocation, and then not answered wrongly.
RequestsAnswered ==
  \A t \in Targets :
    /\ req[t] = NULL => ptr[t] = NULL
    /\ req[t] # NULL /\ InWidth(req[t]) =>
         \/ ptr[t] = Resolve(req[t])
         \/ /\ ptr[t] = NULL
            /\ \E k \in 1 .. Len(reloc[req[t].name]) : reloc[req[t].name][k].dst = t

-----------------------------------------------------------------------------
(* The queue of paths                                                      *)

\* The next slot of the ring.
LEMMA NextSlot ==
  ASSUME NEW i \in Ring
  PROVE  Slot(i) \in Ring /\ Slot(i) = IF i = QueueLen - 1 THEN 0 ELSE i + 1
  BY QueueAssumption DEF Ring, Slot

\* A slot is ahead of the head by less than the length, and only the head by
\* 0; no two slots are equally far ahead.
LEMMA AheadRange ==
  ASSUME cf_queue_head \in Ring, NEW i \in Ring
  PROVE  /\ Ahead(i) \in 0 .. (QueueLen - 1)
         /\ Ahead(i) = 0 <=> i = cf_queue_head
         /\ \A j \in Ring : Ahead(j) = Ahead(i) => j = i
  BY QueueAssumption DEF Ring, Ahead

\* The slot after one that is not the last is one further ahead.
LEMMA AheadOfNext ==
  ASSUME cf_queue_head \in Ring, NEW i \in Ring, Ahead(i) < QueueLen - 1
  PROVE  Ahead(Slot(i)) = Ahead(i) + 1
  <1>1. PICK j \in Ring : j = Slot(i) /\ j = IF i = QueueLen - 1 THEN 0 ELSE i + 1
    BY NextSlot
  <1>2. /\ i \in Nat /\ i < QueueLen /\ QueueLen \in Nat
        /\ cf_queue_head \in Nat /\ cf_queue_head < QueueLen
    BY QueueAssumption DEF Ring
  <1>3. CASE i = QueueLen - 1
    BY <1>1, <1>2, <1>3 DEF Ahead
  <1>4. CASE i # QueueLen - 1
    BY <1>1, <1>2, <1>4 DEF Ahead
  <1> QED BY <1>3, <1>4

\* When the head advances the others are one less ahead.
LEMMA AheadOfAdvanced ==
  ASSUME cf_queue_head \in Ring, cf_queue_head' = Slot(cf_queue_head),
         NEW i \in Ring
  PROVE  /\ i # cf_queue_head => Ahead(i)' = Ahead(i) - 1
         /\ i = cf_queue_head => Ahead(i)' = QueueLen - 1
  <1>1. cf_queue_head' = IF cf_queue_head = QueueLen - 1 THEN 0
                         ELSE cf_queue_head + 1
    BY NextSlot
  <1>2. /\ i \in Nat /\ i < QueueLen /\ QueueLen \in Nat /\ QueueLen > 1
        /\ cf_queue_head \in Nat /\ cf_queue_head < QueueLen
    BY QueueAssumption DEF Ring
  <1>3. CASE cf_queue_head = QueueLen - 1
    BY <1>1, <1>2, <1>3 DEF Ahead
  <1>4. CASE cf_queue_head # QueueLen - 1
    BY <1>1, <1>2, <1>4 DEF Ahead
  <1> QED BY <1>3, <1>4

\* The greater of two numbers.
LEMMA MaxOfTwo ==
  ASSUME NEW a \in Nat, NEW b \in Int
  PROVE  /\ Max({a, b}) \in Nat /\ a <= Max({a, b}) /\ b <= Max({a, b})
  <1>1. \E x \in {a, b} : \A y \in {a, b} : x >= y
    OBVIOUS
  <1>2. /\ Max({a, b}) \in {a, b}
        /\ \A y \in {a, b} : Max({a, b}) >= y
    BY <1>1, Zenon DEF Max
  <1> QED BY <1>2

\* A step that leaves the queue alone.
LEMMA QueueQuiet ==
  ASSUME QueueHolds, UNCHANGED queueVars,
         pc' = "done" => cf_queue_head = cf_queue_tail
  PROVE  QueueHolds'
  BY DEF QueueHolds, Ahead, queueVars

\* The file at the head is the first of those queued and not loaded.
LEMMA OpenQueue ==
  ASSUME CfTypeOK, peak \in Nat, QueueHolds, NEW mounted, cf_open(mounted)
  PROVE  QueueHolds'
  <1> DEFINE h == cf_queue_head
             t == cf_queue_tail
             n == Len(loaded)
  <1>1. /\ h \in Ring /\ t \in Ring /\ h # t
        /\ cf_path_queue \in [Ring -> Paths \cup {NULL}]
        /\ loaded \in Seq(Paths) /\ n \in Nat /\ QueueLen \in Nat
    BY QueueAssumption DEF CfTypeOK, cf_open
  <1>2. /\ cf_queue_head' = Slot(h) /\ UNCHANGED <<cf_path_queue, cf_queue_tail,
             pushed, peak>>
        /\ loaded' = Append(loaded, cf_path_queue[h]) /\ pc' = "read"
    BY DEF cf_open
  <1>3. ASSUME peak < QueueLen
        PROVE  /\ Len(pushed) = Len(loaded') + Ahead(t)'
               /\ Ahead(t)' <= peak
               /\ \A k \in 1 .. Len(loaded') : loaded'[k] = pushed[k]
               /\ \A i \in Ring : Ahead(i)' < Ahead(t)' =>
                    cf_path_queue[i] = pushed[Len(loaded') + 1 + Ahead(i)']
    <2>1. /\ Len(pushed) = n + Ahead(t) /\ Ahead(t) <= peak
          /\ \A k \in 1 .. n : loaded[k] = pushed[k]
          /\ \A i \in Ring : Ahead(i) < Ahead(t) =>
               cf_path_queue[i] = pushed[n + 1 + Ahead(i)]
      BY <1>3 DEF QueueHolds
    <2>2. Ahead(t) \in 1 .. (QueueLen - 1) /\ Ahead(h) = 0
      BY <1>1, AheadRange
    <2>3. Ahead(t)' = Ahead(t) - 1
      BY <1>1, <1>2, AheadOfAdvanced
    <2> HIDE DEF n, h, t
    <2>4. cf_path_queue[h] = pushed[n + 1]
      <3>1. cf_path_queue[h] = pushed[n + 1 + Ahead(h)] /\ n + 1 + Ahead(h) = n + 1
        BY <1>1, <2>1, <2>2
      <3> QED BY <3>1
    <2>5. /\ Len(loaded') = n + 1 /\ loaded'[n + 1] = cf_path_queue[h]
          /\ \A k \in 1 .. n : loaded'[k] = loaded[k]
      <3>1. NULL \in Paths \cup {NULL} /\ cf_path_queue[h] \in Paths \cup {NULL}
            /\ loaded \in Seq(Paths \cup {NULL})
        BY <1>1
      <3> QED BY <1>2, <3>1 DEF n
    <2>6. ASSUME NEW i \in Ring, Ahead(i)' < Ahead(t)'
          PROVE  cf_path_queue[i] = pushed[Len(loaded') + 1 + Ahead(i)']
      <3>1. Ahead(i) \in 0 .. (QueueLen - 1)
        BY <1>1, AheadRange DEF h
      <3>2. i # h
        <4>1. i = h => Ahead(i)' = QueueLen - 1
          BY <1>1, <1>2, AheadOfAdvanced DEF h
        <4> QED BY <1>1, <2>2, <2>3, <2>6, <4>1
      <3>3. Ahead(i)' = Ahead(i) - 1
        BY <1>1, <1>2, <3>2, AheadOfAdvanced DEF h
      <3>4. Ahead(i) - 1 < Ahead(t) - 1
        BY <2>3, <2>6, <3>3, Zenon
      <3>5. Ahead(i) < Ahead(t)
        BY <2>2, <3>1, <3>4
      <3>6. n + 1 + 1 + (Ahead(i) - 1) = n + 1 + Ahead(i)
        BY <1>1, <3>1
      <3> QED BY <2>1, <2>5, <3>3, <3>5, <3>6
    <2>7. \A k \in 1 .. Len(loaded') : loaded'[k] = pushed[k]
      BY <1>1, <2>1, <2>4, <2>5
    <2> QED BY <1>1, <2>1, <2>2, <2>3, <2>5, <2>6, <2>7
  <1> QED BY <1>2, <1>3 DEF QueueHolds

\* A path is queued behind the others, unless the ring is full with it.
LEMMA IncludeQueue ==
  ASSUME CfTypeOK, peak \in Nat, QueueHolds, cf_process_inc, line[2] \in Paths
  PROVE  QueueHolds' /\ peak' \in Nat
  <1> DEFINE h == cf_queue_head
             t == cf_queue_tail
             n == Len(loaded)
             m == Len(pushed)
  <1>1. /\ h \in Ring /\ t \in Ring /\ m \in Nat /\ n \in Nat
        /\ cf_path_queue \in [Ring -> Paths \cup {NULL}]
        /\ pushed \in Seq(Paths) /\ loaded \in Seq(Paths) /\ QueueLen \in Nat
    BY QueueAssumption DEF CfTypeOK
  <1>2. /\ cf_queue_tail' = Slot(t) /\ UNCHANGED <<cf_queue_head, loaded>>
        /\ cf_path_queue' = [cf_path_queue EXCEPT ![t] = line[2]]
        /\ pushed' = Append(pushed, line[2]) /\ pc' = "read"
        /\ peak' = Max({peak, Len(pushed') - Len(loaded)})
    BY DEF cf_process_inc, Return0
  <1>3. /\ Len(pushed') = m + 1 /\ pushed'[m + 1] = line[2]
        /\ \A k \in 1 .. m : pushed'[k] = pushed[k]
    BY <1>1, <1>2
  <1>4. peak' \in Nat /\ peak <= peak' /\ m + 1 - n <= peak'
    <2>1. Len(pushed') - Len(loaded) = m + 1 - n /\ m + 1 - n \in Int
      BY <1>1, <1>3
    <2>2. peak' = Max({peak, m + 1 - n})
      BY <1>2, <2>1
    <2> QED BY <2>1, <2>2, MaxOfTwo
  <1>5. ASSUME peak' < QueueLen
        PROVE  /\ Len(pushed') = n + Ahead(Slot(t))
               /\ Ahead(Slot(t)) <= peak'
               /\ \A k \in 1 .. n : loaded[k] = pushed'[k]
               /\ \A i \in Ring : Ahead(i) < Ahead(Slot(t)) =>
                    cf_path_queue'[i] = pushed'[n + 1 + Ahead(i)]
    <2>1. /\ m = n + Ahead(t)
          /\ \A k \in 1 .. n : loaded[k] = pushed[k]
          /\ \A i \in Ring : Ahead(i) < Ahead(t) =>
               cf_path_queue[i] = pushed[n + 1 + Ahead(i)]
      BY <1>1, <1>4, <1>5 DEF QueueHolds
    <2>2. Ahead(t) \in 0 .. (QueueLen - 1)
      BY <1>1, AheadRange
    <2>3. Ahead(t) < QueueLen - 1
      BY <1>1, <1>4, <1>5, <2>1, <2>2
    <2>4. Ahead(Slot(t)) = Ahead(t) + 1
      BY <1>1, <2>3, AheadOfNext
    <2> HIDE DEF h, t, n, m
    <2>5. ASSUME NEW i \in Ring, Ahead(i) < Ahead(Slot(t))
          PROVE  cf_path_queue'[i] = pushed'[n + 1 + Ahead(i)]
      <3>1. Ahead(i) \in 0 .. (QueueLen - 1)
        BY <1>1, AheadRange DEF h
      <3>2. CASE i = t
        <4>1. n + 1 + Ahead(i) = m + 1
          BY <1>1, <2>1, <2>2, <3>2
        <4> QED BY <1>1, <1>2, <1>3, <3>2, <4>1
      <3>3. CASE i # t
        <4>1. Ahead(i) # Ahead(t)
          BY <1>1, <3>3, AheadRange DEF h
        <4>2. Ahead(i) < Ahead(t)
          BY <2>2, <2>4, <2>5, <3>1, <4>1
        <4>3. n + 1 + Ahead(i) \in 1 .. m
          BY <1>1, <2>1, <2>2, <3>1, <4>2
        <4> QED BY <1>1, <1>2, <1>3, <2>1, <3>3, <4>2, <4>3
      <3> QED BY <3>2, <3>3
    <2>6. Len(pushed') = n + Ahead(Slot(t)) /\ Ahead(Slot(t)) <= peak'
      <3>1. m = n + Ahead(t) /\ Len(pushed') = m + 1 /\ m + 1 - n <= peak'
        BY <1>3, <1>4, <2>1
      <3>2. n \in Nat /\ m \in Nat /\ QueueLen \in Nat
        BY <1>1
      <3> QED BY ONLY <2>2, <2>4, <3>1, <3>2
    <2>7. ASSUME NEW k \in 1 .. n PROVE loaded[k] = pushed'[k]
      <3>1. n \in Nat /\ m \in Nat /\ Ahead(t) \in Nat /\ m = n + Ahead(t)
        BY <1>1, <2>1, <2>2
      <3>2. k \in 1 .. m
        BY ONLY <3>1, k \in 1 .. n
      <3> QED BY <1>3, <2>1, <3>2
    <2> QED BY <2>5, <2>6, <2>7
  <1>6. /\ \A i : Ahead(i)' = Ahead(i)
        /\ Ahead(cf_queue_tail)' = Ahead(Slot(t))
    BY <1>2 DEF Ahead
  <1> QED BY <1>2, <1>4, <1>5, <1>6 DEF QueueHolds

-----------------------------------------------------------------------------
(* Templates                                                               *)

\* A nonempty set of numbers up to n has a greatest element.
LEMMA MaxOfBounded ==
  ASSUME NEW n \in Nat, NEW S, S \subseteq 1 .. n, S # {}
  PROVE  Max(S) \in S /\ \A y \in S : y <= Max(S)
  <1> DEFINE T == {n - k : k \in S}
  <1>1. T \subseteq Nat /\ T # {}
    <2>1. \A k \in S : n - k \in Nat
      OBVIOUS
    <2>2. PICK k : k \in S
      OBVIOUS
    <2>3. n - k \in T
      BY <2>2
    <2> QED BY <2>1, <2>3
  <1>2. Min(T) \in T /\ \A y \in T : Min(T) <= y
    <2> HIDE DEF T
    <2> QED BY <1>1, MinOfNats
  <1>3. PICK k \in S : Min(T) = n - k
    BY <1>2
  <1>4. \A y \in S : n - k <= n - y
    BY <1>2, <1>3
  <1>5. \A y \in S : k >= y
    BY <1>4
  <1>6. Max(S) \in S /\ \A y \in S : Max(S) >= y
    BY <1>5, Zenon DEF Max
  <1> QED BY <1>6

\* The words of a template.
LEMMA TemplateWords ==
  ASSUME NEW e \in Templates
  PROVE  e[1] \in Tags /\ e[2] \in Seq(Words) /\ e[2] # NULL
  BY LinesAssumption DEF Templates, Tags

\* cf_process_per: the template of its tag is the new one, and those of the
\* other tags stay.
LEMMA PerPreserves ==
  ASSUME ReaderTypes, MapHoldsLatest, cf_process_per
  PROVE  /\ IsMap(cf_peripherals', Templates)
         /\ pers' \in Seq(Templates) /\ Len(pers') = Len(pers) + 1
         /\ \A k \in 1 .. Len(pers) : pers'[k] = pers[k]
         /\ MapHoldsLatest'
  <1> DEFINE e == <<line[2], line[3]>>
             n == Len(pers)
  <1>1. /\ e \in Templates /\ NULL \notin Templates
    BY LinesAssumption DEF ReaderTypes, cf_process_per, Templates, PerLines
  <1>2. /\ cf_peripherals' = map_set(cf_peripherals, line[2], line[3])
        /\ pers' = Append(pers, e) /\ pers \in Seq(Templates) /\ n \in Nat
        /\ IsMap(cf_peripherals, Templates)
    BY DEF ReaderTypes, cf_process_per
  <1>3. /\ pers' \in Seq(Templates) /\ Len(pers') = n + 1 /\ pers'[n + 1] = e
        /\ \A k \in 1 .. n : pers'[k] = pers[k]
    <2> HIDE DEF e
    <2> QED BY <1>1, <1>2
  <1>4. /\ IsMap(cf_peripherals', Templates)
        /\ map_get(cf_peripherals', line[2]) = line[3]
        /\ \A u : u # line[2] =>
             map_get(cf_peripherals', u) = map_get(cf_peripherals, u)
    BY <1>1, <1>2, SetGet
  <1>5. e[1] = line[2] /\ e[2] = line[3]
    OBVIOUS
  <1> HIDE DEF e, n
  <1>6. ASSUME NEW tag PROVE map_get(cf_peripherals', tag) = LatestOf(tag)'
    <2> DEFINE S == OfTag(tag)
               T == OfTag(tag)'
    <2>1. /\ S = {k \in 1 .. n : pers[k][1] = tag}
          /\ T = {k \in 1 .. (n + 1) : pers'[k][1] = tag}
          /\ LatestOf(tag) = IF S = {} THEN NULL ELSE pers[Max(S)][2]
          /\ LatestOf(tag)' = IF T = {} THEN NULL ELSE pers'[Max(T)][2]
      BY <1>3 DEF OfTag, LatestOf, n
    <2>2. map_get(cf_peripherals, tag) = LatestOf(tag)
      BY DEF MapHoldsLatest
    <2> HIDE DEF S, T
    <2>3. CASE tag = line[2]
      <3>1. n + 1 \in T /\ T \subseteq 1 .. (n + 1) /\ n + 1 \in Nat
        BY <1>2, <1>3, <1>5, <2>1, <2>3
      <3>2. Max(T) \in T /\ \A y \in T : y <= Max(T)
        BY <3>1, MaxOfBounded
      <3>3. Max(T) = n + 1
        <4>1. PICK k \in T : k = Max(T)
          BY <3>2
        <4>2. k \in 1 .. (n + 1) /\ n + 1 <= k
          BY <3>1, <3>2, <4>1
        <4> QED BY <1>2, <4>1, <4>2
      <3> QED BY <1>3, <1>4, <1>5, <2>1, <2>3, <3>1, <3>3
    <2>4. CASE tag # line[2]
      <3>1. T = S
        <4>1. \A k \in 1 .. (n + 1) : k \in 1 .. n \/ k = n + 1
          BY <1>2
        <4>2. n + 1 \notin T
          BY <1>3, <1>5, <2>1, <2>4
        <4>3. 1 .. n \subseteq 1 .. (n + 1)
          BY <1>2
        <4> QED BY <1>3, <2>1, <4>1, <4>2, <4>3
      <3>2. S # {} => Max(S) \in 1 .. n
        <4>1. S \subseteq 1 .. n
          BY <2>1
        <4> QED BY <1>2, <4>1, MaxOfBounded
      <3> QED BY <1>3, <1>4, <2>1, <2>2, <2>4, <3>1, <3>2
    <2> QED BY <2>3, <2>4
  <1> QED BY <1>3, <1>4, <1>6 DEF MapHoldsLatest, n

\* What LatestTemplate says of one interface.
MadeFrom(f) ==
  LET of == {k \in 1 .. f.at : pers[k][1] = f.tag}
  IN of # {} /\ pers[Max(of)][2] = <<f.per>> \o f.rscs

\* Reading further templates changes nothing for an interface that exists.
LEMMA MadeFromKept ==
  ASSUME NEW f, f.at \in Nat, f.at <= Len(pers), Len(pers) \in Nat, MadeFrom(f),
         \A k \in 1 .. Len(pers) : pers'[k] = pers[k]
  PROVE  MadeFrom(f)'
  <1> DEFINE S == {k \in 1 .. f.at : pers[k][1] = f.tag}
             T == {k \in 1 .. f.at : pers'[k][1] = f.tag}
  <1>1. S # {} /\ pers[Max(S)][2] = <<f.per>> \o f.rscs
    BY DEF MadeFrom
  <1>2. 1 .. f.at \subseteq 1 .. Len(pers)
    OBVIOUS
  <1>3. T = S
    BY <1>2
  <1>4. Max(S) \in 1 .. f.at
    <2>1. S \subseteq 1 .. f.at
      OBVIOUS
    <2> HIDE DEF S
    <2> QED BY <1>1, <2>1, MaxOfBounded
  <1> HIDE DEF S
  <1>5. pers'[Max(S)] = pers[Max(S)]
    BY <1>2, <1>4
  <1> QED BY <1>1, <1>3, <1>5 DEF MadeFrom

\* The interface that arg_peripheral adds.
NewInterface(argv) ==
  [per |-> argv[1], rscs |-> Tail(argv), tag |-> Arg, at |-> Len(pers),
   for |-> Decl[curarg].type]

\* It is made from the last template of its tag.
LEMMA NewInterfaceIs ==
  ASSUME ReaderTypes, MapHoldsLatest, NEW argv,
         argv = map_get(cf_peripherals, Arg), Valid(argv),
         Decl[curarg].type \in InterfaceTypes
  PROVE  /\ NewInterface(argv) \in Interface /\ MadeFrom(NewInterface(argv))
         /\ argv \in Seq(Words) /\ argv # <<>>
         /\ Len(Tail(argv)) = Len(argv) - 1
         /\ \A i \in 1 .. (Len(argv) - 1) : Tail(argv)[i] = argv[i + 1]
  <1> DEFINE S == OfTag(Arg)
             n == Len(pers)
             f == NewInterface(argv)
  <1>1. argv # NULL /\ argv # <<>> /\ argv[1] \in Peripherals
        /\ \A i \in 1 .. (Len(argv) - 1) : argv[i + 1] \in Rscs
    BY DEF Valid
  <1>2. S # {} /\ argv = pers[Max(S)][2]
    BY <1>1 DEF MapHoldsLatest, LatestOf
  <1>3. pers \in Seq(Templates) /\ n \in Nat
    BY DEF ReaderTypes
  <1>4. Max(S) \in 1 .. n /\ pers[Max(S)][1] = Arg
    <2>1. S \subseteq 1 .. n /\ \A k \in S : pers[k][1] = Arg
      BY DEF OfTag
    <2> HIDE DEF S, n
    <2>2. Max(S) \in S
      BY <1>2, <1>3, <2>1, MaxOfBounded
    <2> QED BY <2>1, <2>2
  <1>5. pers[Max(S)] \in Templates
    BY <1>3, <1>4
  <1>6. Arg \in Tags /\ argv \in Seq(Words)
    BY <1>2, <1>4, <1>5, TemplateWords
  <1>7. /\ Len(argv) \in Nat \ {0} /\ Len(Tail(argv)) = Len(argv) - 1
        /\ \A i \in 1 .. (Len(argv) - 1) : Tail(argv)[i] = argv[i + 1]
        /\ Tail(argv) \in Seq(Words)
    BY <1>1, <1>6
  <1>8. Tail(argv) \in Seq(Rscs)
    <2>1. PICK r \in Seq(Words) : r = Tail(argv)
      BY <1>7
    <2>2. Len(r) \in Nat /\ \A i \in 1 .. Len(r) : r[i] \in Rscs
      BY <1>1, <1>7, <2>1
    <2>3. r \in [1 .. Len(r) -> Rscs]
      BY <2>2
    <2> QED BY <2>1, <2>2, <2>3, FunctionIsSequence
  <1>9. <<argv[1]>> \o Tail(argv) = argv
    <2>1. argv[1] \in Words
      BY <1>6, <1>7
    <2> QED BY <1>6, <1>7, <2>1
  <1>10. f \in Interface
    BY <1>1, <1>3, <1>6, <1>8 DEF Interface, NewInterface
  <1>11. MadeFrom(f)
    <2>1. {k \in 1 .. f.at : pers[k][1] = f.tag} = S
      BY DEF NewInterface, OfTag
    <2>2. <<f.per>> \o f.rscs = argv
      BY <1>9 DEF NewInterface
    <2> QED BY <1>2, <2>1, <2>2 DEF MadeFrom
  <1> QED BY <1>1, <1>6, <1>7, <1>10, <1>11

-----------------------------------------------------------------------------
(* Variables                                                               *)

\* The relocations vr_register takes off the list are the first ones; the
\* last of them may be one that was not executed.
LEMMA RemovedIs ==
  ASSUME NEW n, Len(reloc[n]) \in Nat
  PROVE  \E c \in 0 .. Len(reloc[n]) :
           /\ Cardinality(Removed(n)) = c
           /\ Executed(n) \subseteq 1 .. c
           /\ \A k \in Executed(n) : Matches(n, reloc[n][k])
           /\ \A k \in 1 .. c : k \in Executed(n) \/ ~Matches(n, reloc[n][k])
  <1> DEFINE l == Len(reloc[n])
             M(k) == Matches(n, reloc[n][k])
             F == {k \in 1 .. l : ~M(k)}
  <1>1. /\ Removed(n) = {k \in 1 .. l : \A j \in 1 .. (k - 1) : M(j)}
        /\ Executed(n) = {k \in 1 .. l : \A j \in 1 .. k : M(j)}
    BY DEF Removed, Executed
  <1>2. PICK c \in 0 .. l : /\ \A j \in 1 .. (c - 1) : M(j)
                            /\ c # l => c > 0 /\ ~M(c)
    <2>1. CASE F = {}
      <3>1. l \in 0 .. l /\ \A j \in 1 .. (l - 1) : M(j)
        BY <2>1
      <3> QED BY <3>1
    <2>2. CASE F # {}
      <3>1. Min(F) \in F /\ \A y \in F : Min(F) <= y
        <4>1. F \subseteq Nat
          OBVIOUS
        <4> HIDE DEF F
        <4> QED BY <2>2, <4>1, MinOfNats
      <3>2. PICK c : c = Min(F)
        OBVIOUS
      <3>3. c \in 1 .. l /\ ~M(c) /\ \A y \in F : c <= y
        BY <3>1, <3>2
      <3>4. \A j \in 1 .. (c - 1) : j \in 1 .. l /\ j \notin F
        BY <3>3
      <3> QED BY <3>3, <3>4
    <2> QED BY <2>1, <2>2
  <1> HIDE DEF l, M, F
  <1>3. l \in Nat
    BY DEF l
  <1>4. Removed(n) = 1 .. c
    <2>1. ASSUME NEW k \in 1 .. l, \A j \in 1 .. (k - 1) : M(j) PROVE k <= c
      <3>1. c < k => c \in 1 .. (k - 1) \/ c = 0
        BY <1>3
      <3> QED BY <1>2, <1>3, <2>1, <3>1
    <2>2. \A k \in 1 .. c : k \in 1 .. l /\ \A j \in 1 .. (k - 1) : j \in 1 .. (c - 1)
      BY <1>3
    <2> QED BY <1>1, <1>2, <1>3, <2>1, <2>2
  <1>5. Cardinality(1 .. c) = c
    BY FS_Interval
  <1>6. Executed(n) \subseteq 1 .. c
    <2>1. \A k \in 1 .. l : \A j \in 1 .. (k - 1) : j \in 1 .. k
      BY <1>3
    <2> QED BY <1>1, <1>4, <2>1
  <1>7. \A k \in Executed(n) : M(k)
    <2>1. \A k \in 1 .. l : k \in 1 .. k
      BY <1>3
    <2> QED BY <1>1, <2>1
  <1>8. \A k \in 1 .. c : k \in Executed(n) \/ ~M(k)
    <2>1. \A k \in 1 .. c : \A j \in 1 .. k : j \in 1 .. (c - 1) \/ j = k
      BY <1>3
    <2>2. 1 .. c \subseteq 1 .. l
      BY <1>3
    <2> QED BY <1>1, <1>2, <2>1, <2>2
  <1> QED BY <1>4, <1>5, <1>6, <1>7, <1>8 DEF l, M

\* What is left of a sequence.
LEMMA Suffix ==
  ASSUME NEW S, NEW s \in Seq(S), NEW c \in 0 .. Len(s)
  PROVE  /\ SubSeq(s, c + 1, Len(s)) \in Seq(S)
         /\ Len(SubSeq(s, c + 1, Len(s))) = Len(s) - c
         /\ \A k \in 1 .. (Len(s) - c) : SubSeq(s, c + 1, Len(s))[k] = s[c + k]
  OBVIOUS

\* vr_reloc_exec compares with what the source provides.
LEMMA MatchProvides ==
  ASSUME NEW n \in Names, NEW i \in Nat, NEW ty
  PROVE  Match(n, i, ty) <=> Provides(n, i, ty)
  <1>1. Len(Sig[n]) \in Nat /\ DOMAIN Sig[n] = 1 .. Len(Sig[n])
    BY SigAssumption
  <1>2. i < Len(Sig[n]) <=> i + 1 \in DOMAIN Sig[n]
    BY <1>1
  <1> QED BY <1>2 DEF Match, Provides

\* The part of the invariant about variables.
VariablesInv ==
  VrTypeOK /\ IsMap(vr_sources, Sources) /\ RelocsRequested /\ RequestsAnswered
    /\ PointersTyped

\* What a relocation says of the request it was made for.
LEMMA RelocIs ==
  ASSUME VariablesInv, NEW n \in Names, NEW k \in 1 .. Len(reloc[n])
  PROVE  LET r == reloc[n][k]
             q == req[r.dst]
         IN /\ r \in Relocs /\ r.dst \in Targets /\ r.index \in Nat
            /\ q # NULL /\ q \in Requests /\ q.name = n /\ q.type = r.type
            /\ q.index \in Int
            /\ InWidth(q) => r.index = q.index
            /\ Matches(n, r) <=> Provides(n, r.index, q.type)
  <1> DEFINE r == reloc[n][k]
             q == req[r.dst]
  <1>1. reloc[n] \in Seq(Relocs)
    BY DEF VariablesInv, VrTypeOK
  <1>2. r \in Relocs
    BY <1>1
  <1>3. r.dst \in Targets /\ r.index \in Nat
    BY <1>2 DEF Relocs
  <1>4. /\ q # NULL /\ q.name = n /\ q.type = r.type
        /\ r.index = q.index % IndexMod
    BY DEF VariablesInv, RelocsRequested, RelocFor
  <1>5. q \in Requests
    BY <1>3, <1>4 DEF VariablesInv, VrTypeOK
  <1>6. q.index \in Int
    BY <1>5, IndexAssumption DEF Requests
  <1>7. InWidth(q) => q.index % IndexMod = q.index
    <2> HIDE DEF q
    <2> QED BY <1>6, IndexAssumption DEF InWidth
  <1>8. Matches(n, r) <=> Provides(n, r.index, q.type)
    BY <1>3, <1>4, MatchProvides DEF Matches
  <1> QED BY <1>2, <1>3, <1>4, <1>5, <1>6, <1>7, <1>8

\* A registration executes relocations, and loses none but the one that fails.
LEMMA RegisterPreserves ==
  ASSUME VariablesInv, NEW n \in Names, vr_register(n)
  PROVE  VariablesInv' /\ phase' = phase
  <1> DEFINE L == reloc[n]
             X == Executed(n)
  <1>1. CASE n \in registered
    <2>1. UNCHANGED vrVars
      BY <1>1 DEF vr_register
    <2> QED BY <2>1 DEF vrVars, VariablesInv, VrTypeOK, RelocsRequested,
                        RelocFor, RequestsAnswered, PointersTyped
  <1>2. CASE n \notin registered
    <2>1. /\ registered' = registered \cup {n} /\ vr_sources' = WithSource(n)
          /\ ptr' = [t \in Targets |->
                  IF \E k \in X : L[k].dst = t
                  THEN LET k == CHOOSE k \in X : L[k].dst = t
                       IN <<n, L[k].index>>
                  ELSE ptr[t]]
          /\ reloc' = [reloc EXCEPT ![n] =
                         SubSeq(@, Cardinality(Removed(n)) + 1, Len(@))]
          /\ UNCHANGED <<phase, req>>
      BY <1>2, Zenon DEF vr_register
    <2>2. /\ registered \subseteq Names /\ Visited(vr_sources) \subseteq Names
          /\ reloc \in [Names -> Seq(Relocs)] /\ L \in Seq(Relocs)
          /\ ptr \in [Targets -> (Names \X Nat) \cup {NULL, Wild}]
          /\ req \in [Targets -> Requests \cup {NULL}]
          /\ IsMap(vr_sources, Sources)
      BY DEF VariablesInv, VrTypeOK
    <2>3. PICK c \in 0 .. Len(L) :
             /\ Cardinality(Removed(n)) = c /\ X \subseteq 1 .. c
             /\ \A k \in X : Matches(n, L[k])
             /\ \A k \in 1 .. c : k \in X \/ ~Matches(n, L[k])
      <3>1. Len(L) \in Nat
        BY <2>2
      <3> QED BY <3>1, RemovedIs
    <2>4. X \subseteq 1 .. Len(L) /\ 1 .. c \subseteq 1 .. Len(L)
      BY <2>2, <2>3
    <2>5. /\ reloc' \in [Names -> Seq(Relocs)]
          /\ Len(reloc'[n]) = Len(L) - c
          /\ \A k \in 1 .. (Len(L) - c) : reloc'[n][k] = L[c + k]
          /\ \A m \in Names : m # n => reloc'[m] = reloc[m]
      <3>1. reloc' = [reloc EXCEPT ![n] = SubSeq(L, c + 1, Len(L))]
        BY <2>1, <2>3
      <3>2. /\ SubSeq(L, c + 1, Len(L)) \in Seq(Relocs)
            /\ Len(SubSeq(L, c + 1, Len(L))) = Len(L) - c
            /\ \A k \in 1 .. (Len(L) - c) : SubSeq(L, c + 1, Len(L))[k] = L[c + k]
        BY <2>2, Suffix
      <3> HIDE DEF L
      <3> QED BY <2>2, <3>1, <3>2
    <2>6. /\ IsMap(vr_sources', Sources)
          /\ Visited(vr_sources') = Visited(vr_sources) \cup {n}
      BY <2>1, <2>2, SourceVisited
    <2>7. ASSUME NEW k \in 1 .. Len(L)
          PROVE  /\ L[k].dst \in Targets /\ L[k].index \in Nat
                 /\ req[L[k].dst] # NULL /\ req[L[k].dst] \in Requests
                 /\ req[L[k].dst].name = n
                 /\ InWidth(req[L[k].dst]) =>
                      L[k].index = req[L[k].dst].index
                 /\ Matches(n, L[k]) <=>
                      Provides(n, L[k].index, req[L[k].dst].type)
      BY RelocIs
    <2>8. ASSUME NEW t \in Targets
          PROVE  \/ \E k \in X : L[k].dst = t /\ ptr'[t] = <<n, L[k].index>>
                 \/ (\A k \in X : L[k].dst # t) /\ ptr'[t] = ptr[t]
      <3> HIDE DEF L, X
      <3>1. CASE \E k \in X : L[k].dst = t
        <4> DEFINE j == CHOOSE k \in X : L[k].dst = t
        <4>1. j \in X /\ L[j].dst = t
          BY <3>1, Zenon
        <4>2. ptr'[t] = <<n, L[j].index>>
          BY <2>1, <3>1
        <4> QED BY <4>1, <4>2
      <3>2. CASE \A k \in X : L[k].dst # t
        BY <2>1, <3>2
      <3> QED BY <3>1, <3>2
    <2> HIDE DEF L, X
    <2>9. VrTypeOK'
      <3>1. ASSUME NEW t \in Targets PROVE ptr'[t] \in (Names \X Nat) \cup {NULL, Wild}
        <4>1. CASE \E k \in X : L[k].dst = t /\ ptr'[t] = <<n, L[k].index>>
          BY <2>4, <2>7, <4>1
        <4>2. CASE ptr'[t] = ptr[t]
          BY <2>2, <4>2
        <4> QED BY <2>8, <4>1, <4>2
      <3>2. ptr' \in [Targets -> (Names \X Nat) \cup {NULL, Wild}]
        BY <2>1, <3>1
      <3>3. phase \in {"load", "enabled", "halted"}
        BY DEF VariablesInv, VrTypeOK
      <3> QED BY <2>1, <2>2, <2>5, <2>6, <3>2, <3>3 DEF VrTypeOK
    <2>10. PointersTyped'
      <3> SUFFICES ASSUME NEW t \in Targets, ptr'[t] # NULL
                   PROVE  /\ req[t] # NULL
                          /\ req[t].index >= 0 =>
                               /\ Provides(ptr'[t][1], ptr'[t][2], req[t].type)
                               /\ ptr'[t][1] \in registered'
        BY <2>1 DEF PointersTyped, Provides
      <3>1. CASE \E k \in X : L[k].dst = t /\ ptr'[t] = <<n, L[k].index>>
        BY <2>1, <2>3, <2>4, <2>7, <3>1
      <3>2. CASE ptr'[t] = ptr[t]
        BY <2>1, <3>2 DEF VariablesInv, PointersTyped
      <3> QED BY <2>8, <3>1, <3>2
    <2>11. RelocsRequested'
      <3>1. ASSUME NEW m \in Names, reloc'[m] # <<>>
            PROVE  m \in Visited(vr_sources')
        BY <2>5, <2>6, <3>1 DEF VariablesInv, RelocsRequested
      <3>2. ASSUME NEW m \in Names, NEW k \in 1 .. Len(reloc'[m])
            PROVE  \E j \in 1 .. Len(reloc[m]) : reloc'[m][k] = reloc[m][j]
        <4>1. CASE m # n
          BY <2>5, <4>1
        <4>2. CASE m = n
          <5>1. k \in 1 .. (Len(L) - c)
            BY <2>5, <4>2
          <5>2. c + k \in 1 .. Len(L)
            BY <2>2, <5>1
          <5> QED BY <2>5, <4>2, <5>1, <5>2 DEF L
        <4> QED BY <4>1, <4>2
      <3>3. ASSUME NEW m \in Names, NEW k \in 1 .. Len(reloc'[m]),
                   NEW r, r = reloc'[m][k]
            PROVE  RelocFor(m, r)'
        <4>1. RelocFor(m, r)
          BY <3>2, <3>3 DEF VariablesInv, RelocsRequested
        <4> QED BY <2>1, <4>1 DEF RelocFor
      <3> QED BY <3>1, <3>3, Zenon DEF RelocsRequested
    <2>12. RequestsAnswered'
      <3> SUFFICES ASSUME NEW t \in Targets
            PROVE  /\ req[t] = NULL => ptr'[t] = NULL
                   /\ req[t] # NULL /\ InWidth(req[t]) =>
                        \/ ptr'[t] = Resolve(req[t])
                        \/ /\ ptr'[t] = NULL
                           /\ \E k \in 1 .. Len(reloc'[req[t].name]) :
                                reloc'[req[t].name][k].dst = t
        <4>1. req' = req
          BY <2>1
        <4> QED BY <4>1, Zenon DEF RequestsAnswered, Resolve, Provides, InWidth
      <3>1. CASE \E k \in X : L[k].dst = t /\ ptr'[t] = <<n, L[k].index>>
        <4>1. PICK k \in X : L[k].dst = t /\ ptr'[t] = <<n, L[k].index>>
          BY <3>1
        <4>2. /\ req[t] # NULL /\ req[t].name = n
              /\ InWidth(req[t]) => L[k].index = req[t].index
              /\ Provides(n, L[k].index, req[t].type)
          BY <2>3, <2>4, <2>7, <4>1
        <4> QED BY <4>1, <4>2 DEF Resolve
      <3>2. CASE (\A k \in X : L[k].dst # t) /\ ptr'[t] = ptr[t]
        <4>1. req[t] = NULL => ptr[t] = NULL
          BY DEF VariablesInv, RequestsAnswered
        <4>2. ASSUME req[t] # NULL, InWidth(req[t]), ptr[t] # Resolve(req[t])
              PROVE  /\ ptr[t] = NULL
                     /\ \E k \in 1 .. Len(reloc'[req[t].name]) :
                          reloc'[req[t].name][k].dst = t
          <5>1. /\ ptr[t] = NULL /\ req[t].name \in Names
                /\ \E k \in 1 .. Len(reloc[req[t].name]) :
                     reloc[req[t].name][k].dst = t
            <6>1. req[t] \in Requests
              BY <2>2, <4>2
            <6> QED BY <4>2, <6>1 DEF VariablesInv, RequestsAnswered, Requests
          <5>2. CASE req[t].name # n
            BY <2>5, <5>1, <5>2
          <5>3. CASE req[t].name = n
            <6>1. PICK k \in 1 .. Len(L) : L[k].dst = t
              BY <5>1, <5>3 DEF L
            <6>2. k \notin 1 .. c
              <7>1. k \in 1 .. c => ~Matches(n, L[k])
                BY <2>3, <3>2, <6>1
              <7>2. Matches(n, L[k]) <=> Provides(n, req[t].index, req[t].type)
                BY <2>7, <4>2, <6>1
              <7> QED BY <4>2, <5>1, <5>3, <7>1, <7>2 DEF Resolve
            <6>3. k - c \in 1 .. (Len(L) - c) /\ c + (k - c) = k
              BY <2>2, <6>2
            <6>4. reloc'[n][k - c] = L[k]
              BY <2>5, <6>3
            <6> QED BY <2>5, <5>1, <5>3, <6>1, <6>3, <6>4
          <5> QED BY <5>2, <5>3
        <4> QED BY <3>2, <4>1, <4>2
      <3> QED BY <2>8, <3>1, <3>2
    <2> QED BY <2>1, <2>6, <2>9, <2>10, <2>11, <2>12 DEF VariablesInv
  <1> QED BY <1>1, <1>2

\* A sequence with an element before it.
LEMMA Prepended ==
  ASSUME NEW S, NEW s \in Seq(S), NEW e \in S
  PROVE  /\ <<e>> \o s \in Seq(S) /\ Len(<<e>> \o s) = Len(s) + 1
         /\ (<<e>> \o s)[1] = e
         /\ \A k \in 1 .. Len(s) : (<<e>> \o s)[k + 1] = s[k]
         /\ \A k \in 1 .. (Len(s) + 1) : k # 1 => (<<e>> \o s)[k] = s[k - 1]
  OBVIOUS

\* A request is answered at once, or becomes a relocation of its source.
LEMMA RequestPreserves ==
  ASSUME VariablesInv, NEW t \in Targets, req[t] = NULL, NEW n \in Names,
         NEW i \in Indices, NEW ty \in Types, vr_request(t, n, i, ty)
  PROVE  VariablesInv' /\ phase' = phase
  <1> DEFINE q == [name |-> n, index |-> i, type |-> ty]
             r == [dst |-> t, index |-> i % IndexMod, type |-> ty]
  <1>1. /\ req' = [req EXCEPT ![t] = q] /\ vr_sources' = WithSource(n)
        /\ \/ /\ n \notin registered /\ UNCHANGED ptr
              /\ reloc' = [reloc EXCEPT ![n] = <<r>> \o @]
           \/ /\ n \in registered /\ UNCHANGED reloc
              /\ \/ i >= 0 /\ ptr' = [ptr EXCEPT ![t] =
                                        IF Match(n, i, ty) THEN <<n, i>> ELSE @]
                 \/ i < 0 /\ UNCHANGED ptr
                 \/ i < 0 /\ ptr' = [ptr EXCEPT ![t] = Wild]
        /\ UNCHANGED <<registered, phase>>
    BY DEF vr_request
  <1>2. /\ registered \subseteq Names /\ Visited(vr_sources) \subseteq Names
        /\ reloc \in [Names -> Seq(Relocs)]
        /\ ptr \in [Targets -> (Names \X Nat) \cup {NULL, Wild}]
        /\ req \in [Targets -> Requests \cup {NULL}]
        /\ phase \in {"load", "enabled", "halted"}
        /\ IsMap(vr_sources, Sources)
    BY DEF VariablesInv, VrTypeOK
  <1>3. i \in Int /\ q \in Requests /\ q # NULL /\ r \in Relocs
    <2>1. i \in Int /\ i % IndexMod \in 0 .. (IndexMod - 1)
      BY IndexAssumption
    <2>2. q \in Requests /\ q # NULL
      BY NullAssumption DEF Requests
    <2>3. r \in Relocs
      BY <2>1 DEF Relocs
    <2> QED BY <2>1, <2>2, <2>3
  <1>4. /\ IsMap(vr_sources', Sources)
        /\ Visited(vr_sources') = Visited(vr_sources) \cup {n}
    BY <1>1, <1>2, SourceVisited
  <1>5. ptr[t] = NULL
    BY DEF VariablesInv, RequestsAnswered
  <1>6. \A m \in Names : \A k \in 1 .. Len(reloc[m]) : reloc[m][k].dst # t
    BY RelocIs
  <1>7. q.name = n /\ q.index = i /\ q.type = ty
        /\ r.dst = t /\ r.index = i % IndexMod /\ r.type = ty
    OBVIOUS
  <1>8. i >= 0 => (Match(n, i, ty) <=> Provides(n, i, ty))
    BY <1>3, MatchProvides
  <1>9. Resolve(q) = IF Provides(n, i, ty) THEN <<n, i>> ELSE NULL
    BY <1>7 DEF Resolve
  <1> HIDE DEF q, r
  <1>10. /\ req' \in [Targets -> Requests \cup {NULL}] /\ req'[t] = q
         /\ \A u \in Targets : u # t => req'[u] = req[u]
    BY <1>1, <1>2, <1>3
  <1>11. ASSUME NEW m \in Names, NEW k \in 1 .. Len(reloc[m]), NEW x,
                x = reloc[m][k]
         PROVE  RelocFor(m, x)'
    <2>1. RelocFor(m, x) /\ x.dst # t /\ x.dst \in Targets
      BY <1>6, <1>11, RelocIs DEF VariablesInv, RelocsRequested
    <2>2. req'[x.dst] = req[x.dst]
      BY <1>10, <2>1
    <2> QED BY <2>1, <2>2 DEF RelocFor
  <1>12. ASSUME NEW m \in Names, reloc[m] # <<>> PROVE m \in Visited(vr_sources')
    BY <1>4, <1>12 DEF VariablesInv, RelocsRequested
  <1>13. ASSUME NEW u \in Targets, u # t, ptr'[u] = ptr[u]
         PROVE  ptr'[u] # NULL =>
                  /\ req'[u] # NULL
                  /\ req'[u].index >= 0 =>
                       /\ Provides(ptr'[u][1], ptr'[u][2], req'[u].type)
                       /\ ptr'[u][1] \in registered'
    BY <1>1, <1>10, <1>13 DEF VariablesInv, PointersTyped
  <1>14. ASSUME NEW u \in Targets, u # t, ptr'[u] = ptr[u]
         PROVE  /\ req'[u] = NULL => ptr'[u] = NULL
                /\ req'[u] # NULL /\ InWidth(req'[u]) =>
                     \/ ptr'[u] = Resolve(req'[u])
                     \/ /\ ptr'[u] = NULL /\ req'[u].name \in Names
                        /\ \E k \in 1 .. Len(reloc[req'[u].name]) :
                             reloc[req'[u].name][k].dst = u
    <2>1. req'[u] = req[u] /\ (req[u] # NULL => req[u].name \in Names)
      BY <1>2, <1>10, <1>14 DEF Requests
    <2> QED BY <1>14, <2>1, Zenon DEF VariablesInv, RequestsAnswered
  <1>15. CASE n \notin registered
    <2>1. reloc' = [reloc EXCEPT ![n] = <<r>> \o @] /\ UNCHANGED ptr
      BY <1>1, <1>15
    <2>2. /\ reloc' \in [Names -> Seq(Relocs)]
          /\ Len(reloc'[n]) = Len(reloc[n]) + 1 /\ reloc'[n][1] = r
          /\ \A k \in 1 .. Len(reloc[n]) : reloc'[n][k + 1] = reloc[n][k]
          /\ \A k \in 1 .. (Len(reloc[n]) + 1) :
               k # 1 => reloc'[n][k] = reloc[n][k - 1]
          /\ \A m \in Names : m # n => reloc'[m] = reloc[m]
      <3>1. PICK l : l = reloc[n]
        OBVIOUS
      <3>2. l \in Seq(Relocs)
        BY <1>2, <3>1
      <3>3. reloc' = [reloc EXCEPT ![n] = <<r>> \o l]
        BY <2>1, <3>1
      <3>4. PICK p : p = <<r>> \o l
        OBVIOUS
      <3>5. /\ p \in Seq(Relocs) /\ Len(p) = Len(l) + 1 /\ p[1] = r
            /\ \A k \in 1 .. Len(l) : p[k + 1] = l[k]
            /\ \A k \in 1 .. (Len(l) + 1) : k # 1 => p[k] = l[k - 1]
        BY <1>3, <3>2, <3>4, Prepended
      <3> QED BY <1>2, <3>1, <3>3, <3>4, <3>5
    <2>3. Len(reloc[n]) \in Nat
      BY <1>2
    <2>4. RelocFor(n, r)'
      BY <1>3, <1>7, <1>10 DEF RelocFor
    <2>5. ASSUME NEW m \in Names, NEW k \in 1 .. Len(reloc'[m]), NEW x,
                 x = reloc'[m][k]
          PROVE  RelocFor(m, x)'
      <3>1. CASE m # n
        BY <1>11, <2>2, <2>5, <3>1
      <3>2. CASE m = n /\ k = 1
        BY <2>2, <2>4, <2>5, <3>2
      <3>3. CASE m = n /\ k # 1
        <4>1. k - 1 \in 1 .. Len(reloc[n]) /\ k \in 1 .. (Len(reloc[n]) + 1)
          BY <2>2, <2>3, <3>3
        <4>2. x = reloc[n][k - 1]
          BY <2>2, <2>5, <3>3, <4>1
        <4> QED BY <1>11, <3>3, <4>1, <4>2
      <3> QED BY <3>1, <3>2, <3>3
    <2>6. \A m \in Names : reloc'[m] # <<>> => m \in Visited(vr_sources')
      BY <1>4, <1>12, <2>2
    <2>7. RelocsRequested'
      BY <2>5, <2>6, Zenon DEF RelocsRequested
    <2>8. PointersTyped'
      <3>1. ptr'[t] = NULL
        BY <1>5, <2>1
      <3> QED BY <1>13, <2>1, <3>1, Zenon DEF PointersTyped
    <2>9. ASSUME NEW m \in Names, NEW u,
                 \E k \in 1 .. Len(reloc[m]) : reloc[m][k].dst = u
          PROVE  \E k \in 1 .. Len(reloc'[m]) : reloc'[m][k].dst = u
      <3>1. CASE m # n
        BY <2>2, <2>9, <3>1
      <3>2. CASE m = n
        <4>1. PICK k \in 1 .. Len(reloc[n]) : reloc[n][k].dst = u
          BY <2>9, <3>2
        <4>2. k + 1 \in 1 .. (Len(reloc[n]) + 1)
          BY <2>3
        <4> QED BY <2>2, <3>2, <4>1, <4>2
      <3> QED BY <3>1, <3>2
    <2>10. \E k \in 1 .. Len(reloc'[n]) : reloc'[n][k].dst = t
      <3>1. 1 \in 1 .. (Len(reloc[n]) + 1)
        BY <2>3
      <3> QED BY <1>7, <2>2, <3>1
    <2>11. RequestsAnswered'
      <3>1. ptr'[t] = NULL /\ req'[t] # NULL /\ req'[t].name = n
        BY <1>3, <1>5, <1>7, <1>10, <2>1
      <3>2. \A u \in Targets : ptr'[u] = ptr[u]
        BY <2>1
      <3>3. ASSUME NEW u \in Targets
            PROVE  /\ req'[u] = NULL => ptr'[u] = NULL
                   /\ req'[u] # NULL /\ InWidth(req'[u]) =>
                        \/ ptr'[u] = Resolve(req'[u])
                        \/ /\ ptr'[u] = NULL
                           /\ \E k \in 1 .. Len(reloc'[req'[u].name]) :
                                reloc'[req'[u].name][k].dst = u
        <4>1. CASE u = t
          BY <2>10, <3>1, <4>1, Zenon
        <4>2. CASE u # t
          <5>1. ptr'[u] = ptr[u]
            BY <3>2
          <5>2. CASE ptr'[u] = Resolve(req'[u]) \/ ~(InWidth(req'[u]))
            BY <1>14, <4>2, <5>1, <5>2
          <5>3. CASE /\ ptr'[u] = NULL /\ req'[u].name \in Names
                     /\ \E k \in 1 .. Len(reloc[req'[u].name]) :
                          reloc[req'[u].name][k].dst = u
            <6>1. \E k \in 1 .. Len(reloc'[req'[u].name]) :
                    reloc'[req'[u].name][k].dst = u
              BY <2>9, <5>3
            <6> QED BY <5>3, <6>1
          <5>4. CASE req'[u] = NULL
            BY <1>14, <4>2, <5>1, <5>4
          <5> QED BY <1>14, <4>2, <5>1, <5>2, <5>3, <5>4
        <4> QED BY <4>1, <4>2
      <3> QED BY <3>3, Zenon DEF RequestsAnswered
    <2>12. VrTypeOK'
      BY <1>1, <1>2, <1>4, <1>10, <2>1, <2>2 DEF VrTypeOK
    <2> QED BY <1>1, <1>4, <2>7, <2>8, <2>11, <2>12 DEF VariablesInv
  <1>16. CASE n \in registered
    <2>1. UNCHANGED reloc
      BY <1>1, <1>16
    <2>2. /\ i >= 0 => ptr'[t] = Resolve(q)
          /\ ptr' \in [Targets -> (Names \X Nat) \cup {NULL, Wild}]
          /\ \A u \in Targets : u # t => ptr'[u] = ptr[u]
      <3>1. CASE i >= 0
        <4>1. ptr' = [ptr EXCEPT ![t] = IF Match(n, i, ty) THEN <<n, i>> ELSE @]
          BY <1>1, <1>3, <1>16, <3>1
        <4>2. <<n, i>> \in Names \X Nat
          BY <1>3, <3>1
        <4> QED BY <1>2, <1>5, <1>8, <1>9, <3>1, <4>1, <4>2
      <3>2. CASE ~(i >= 0)
        BY <1>1, <1>2, <1>16, <3>2
      <3> QED BY <3>1, <3>2
    <2>3. PointersTyped'
      <3>1. ptr'[t] # NULL =>
              /\ req'[t] # NULL
              /\ req'[t].index >= 0 =>
                   /\ Provides(ptr'[t][1], ptr'[t][2], req'[t].type)
                   /\ ptr'[t][1] \in registered'
        BY <1>1, <1>3, <1>7, <1>9, <1>10, <1>16, <2>2
      <3> QED BY <1>13, <2>2, <3>1, Zenon DEF PointersTyped, Provides
    <2>4. RequestsAnswered'
      <3>1. req'[t] # NULL /\ (InWidth(req'[t]) => ptr'[t] = Resolve(req'[t]))
        BY <1>3, <1>7, <1>10, <2>2, IndexAssumption DEF InWidth
      <3> QED BY <1>14, <2>1, <2>2, <3>1, Zenon
              DEF RequestsAnswered, InWidth, Resolve, Provides
    <2>5. RelocsRequested'
      BY <1>11, <1>12, <2>1, Zenon DEF RelocsRequested
    <2>6. VrTypeOK'
      BY <1>1, <1>2, <1>4, <1>10, <2>1, <2>2 DEF VrTypeOK
    <2> QED BY <1>1, <1>4, <2>3, <2>4, <2>5, <2>6 DEF VariablesInv
  <1> QED BY <1>15, <1>16

-----------------------------------------------------------------------------
(* Resources                                                               *)

\* Pairs with the same first component are as many as their second ones.
LEMMA Tagged ==
  ASSUME NEW S, IsFiniteSet(S), NEW x
  PROVE  LET T == {<<x, j>> : j \in S}
         IN IsFiniteSet(T) /\ Cardinality(T) = Cardinality(S)
  <1> DEFINE T == {<<x, j>> : j \in S}
             f == [j \in S |-> <<x, j>>]
  <1>1. f \in [S -> T]
    OBVIOUS
  <1>2. \A a, b \in S : f[a] = f[b] => a = b
    OBVIOUS
  <1>3. \A y \in T : \E a \in S : f[a] = y
    OBVIOUS
  <1> HIDE DEF T, f
  <1>4. ExistsBijection(S, T)
    BY <1>1, <1>2, <1>3 DEF ExistsBijection, Bijection, Injection, Surjection,
                            IsInjective
  <1>5. IsFiniteSet(T) /\ Cardinality(T) = Cardinality(S)
    BY <1>4, FS_Bijection
  <1> QED BY <1>5 DEF T

\* Where r is among the first m resources of rs.
UpTo(rs, r, m) == {i \in 1 .. m : rs[i] = r}

LEMMA UpToNext ==
  ASSUME NEW rs, NEW r, NEW m \in Nat
  PROVE  /\ IsFiniteSet(UpTo(rs, r, m)) /\ Cardinality(UpTo(rs, r, m)) \in Nat
         /\ m = 0 => Cardinality(UpTo(rs, r, m)) = 0
         /\ rs[m + 1] # r => UpTo(rs, r, m + 1) = UpTo(rs, r, m)
         /\ rs[m + 1] = r => Cardinality(UpTo(rs, r, m + 1))
                               = Cardinality(UpTo(rs, r, m)) + 1
  <1> DEFINE S == UpTo(rs, r, m)
  <1>1. IsFiniteSet(1 .. m)
    BY FS_Interval
  <1>2. S \in SUBSET (1 .. m)
    BY DEF UpTo
  <1>3. IsFiniteSet(S)
    BY <1>1, <1>2, FS_Subset
  <1>4. Cardinality(S) \in Nat
    BY <1>3, FS_CardinalityType
  <1>5. m = 0 => Cardinality(S) = 0
    <2>1. m = 0 => S = {}
      BY DEF UpTo
    <2> QED BY <2>1, FS_EmptySet
  <1>6. m + 1 \notin S /\ 1 .. (m + 1) = (1 .. m) \cup {m + 1}
    BY DEF UpTo
  <1>7. rs[m + 1] # r => UpTo(rs, r, m + 1) = S
    BY <1>6 DEF UpTo
  <1>8. rs[m + 1] = r => UpTo(rs, r, m + 1) = S \cup {m + 1}
    BY <1>6 DEF UpTo
  <1>9. Cardinality(S \cup {m + 1}) = Cardinality(S) + 1
    BY <1>3, <1>6, FS_AddElement
  <1> QED BY <1>3, <1>4, <1>5, <1>7, <1>8, <1>9

\* When every resource of a list is allocated, none is allocated more often
\* than there are of it, and no count wraps around.
LEMMA AllocatedWithin ==
  ASSUME NEW rs, NEW n \in Nat, \A i \in 1 .. n : rs[i] \in Rscs /\ Allocates(rs, i),
         NEW r \in Rscs, CountAvail[r] # Inf,
         rs_states[r] \in Nat, rs_states[r] <= CountAvail[r]
  PROVE  LET c == rs_states[r] + Cardinality(UpTo(rs, r, n))
         IN c <= CountAvail[r] /\ Allocated(rs, n)[r] = c
  <1> DEFINE s == rs_states[r]
             a == CountAvail[r]
             c(m) == Cardinality(UpTo(rs, r, m))
             B == {m \in 0 .. n : ~(s + c(m) <= a)}
  <1>1. s \in Nat /\ a \in Nat /\ s <= a /\ a < CountMod /\ CountMod \in Nat
    BY CountAssumption
  <1>2. \A m \in Nat : c(m) \in Nat
    BY UpToNext
  <1>3. \A m \in Nat : Allocated(rs, m)[r] = (s + c(m)) % CountMod
    BY DEF Allocated, UpTo
  <1>4. \A m \in Nat : s + c(m) <= a => (s + c(m)) % CountMod = s + c(m)
    <2>1. \A x \in Nat : x <= a => x % CountMod = x
      BY <1>1
    <2> HIDE DEF c, s, a
    <2> QED BY <1>1, <1>2, <2>1
  <1>5. B = {}
    <2> SUFFICES ASSUME B # {} PROVE FALSE
      OBVIOUS
    <2>1. PICK m \in B : \A y \in B : m <= y
      <3>1. B \subseteq Nat
        OBVIOUS
      <3> HIDE DEF B
      <3> QED BY <3>1, MinOfNats
    <2>2. m \in 0 .. n /\ ~(s + c(m) <= a)
      BY <2>1
    <2>3. m # 0
      <3>1. m = 0 => c(m) = 0
        BY UpToNext
      <3> HIDE DEF c, s, a
      <3> QED BY <1>1, <2>2, <3>1
    <2>4. PICK k \in Nat : m = k + 1
      <3>1. m - 1 \in Nat /\ m = (m - 1) + 1
        BY <2>2, <2>3
      <3> QED BY <3>1
    <2>5. k \in 0 .. n /\ m \in 1 .. n /\ ~(m <= k)
      BY <2>2, <2>4
    <2>6. s + c(k) <= a
      BY <2>1, <2>5
    <2>7. /\ rs[m] # r => c(m) = c(k)
          /\ rs[m] = r => c(m) = c(k) + 1
      BY <2>4, UpToNext
    <2>8. rs[m] = r => a > s + c(k)
      <3>1. rs[m] = r => a > Allocated(rs, m - 1)[r]
        BY <2>5 DEF Allocates
      <3>2. m - 1 = k
        BY <2>4
      <3>3. Allocated(rs, k)[r] = s + c(k)
        BY <1>3, <1>4, <2>6
      <3> QED BY <3>1, <3>2, <3>3
    <2> HIDE DEF c, s, a
    <2> QED BY <1>1, <1>2, <2>2, <2>4, <2>6, <2>7, <2>8
  <1>6. s + c(n) <= a
    <2>1. n \in 0 .. n
      OBVIOUS
    <2> QED BY <1>5, <2>1
  <1> QED BY <1>3, <1>4, <1>6

\* The places of a resource in the interfaces.
LEMMA UsesAre ==
  ASSUME interfaces \in Seq(Interface), NEW r, NEW x
  PROVE  x \in Uses(r) <=>
           \E i \in 1 .. Len(interfaces) :
             \E k \in 1 .. Len(interfaces[i].rscs) :
               interfaces[i].rscs[k] = r /\ x = <<i, k>>
  <1>1. DOMAIN interfaces = 1 .. Len(interfaces)
    OBVIOUS
  <1>2. \A i \in 1 .. Len(interfaces) :
          DOMAIN interfaces[i].rscs = 1 .. Len(interfaces[i].rscs)
    BY DEF Interface
  <1>3. x \in Uses(r) <=>
          \E i \in DOMAIN interfaces : \E k \in DOMAIN interfaces[i].rscs :
            interfaces[i].rscs[k] = r /\ x = <<i, k>>
    BY DEF Uses
  <1> QED BY <1>1, <1>2, <1>3

\* A new interface uses its own resources.
LEMMA UsesOfNew ==
  ASSUME interfaces \in Seq(Interface), NEW f \in Interface,
         interfaces' = Append(interfaces, f), NEW r
  PROVE  LET T == {<<Len(interfaces) + 1, j>> : j \in UpTo(f.rscs, r, Len(f.rscs))}
         IN Uses(r)' = Uses(r) \cup T /\ Uses(r) \cap T = {}
  <1> DEFINE n == Len(interfaces)
             T == {<<n + 1, j>> : j \in UpTo(f.rscs, r, Len(f.rscs))}
  <1>1. /\ n \in Nat /\ interfaces' \in Seq(Interface) /\ Len(interfaces') = n + 1
        /\ interfaces'[n + 1] = f
        /\ \A i \in 1 .. n : interfaces'[i] = interfaces[i]
    OBVIOUS
  <1>2. ASSUME NEW x
        PROVE  x \in Uses(r)' <=>
           \E i \in 1 .. (n + 1) : \E k \in 1 .. Len(interfaces'[i].rscs) :
             interfaces'[i].rscs[k] = r /\ x = <<i, k>>
    <2>1. DOMAIN interfaces' = 1 .. (n + 1)
      BY <1>1
    <2>2. \A i \in 1 .. (n + 1) :
            DOMAIN interfaces'[i].rscs = 1 .. Len(interfaces'[i].rscs)
      BY <1>1 DEF Interface
    <2>3. x \in Uses(r)' <=>
            \E i \in DOMAIN interfaces' : \E k \in DOMAIN interfaces'[i].rscs :
              interfaces'[i].rscs[k] = r /\ x = <<i, k>>
      BY DEF Uses
    <2> QED BY <2>1, <2>2, <2>3
  <1>3. \A x : x \in Uses(r) <=>
           \E i \in 1 .. n : \E k \in 1 .. Len(interfaces[i].rscs) :
             interfaces[i].rscs[k] = r /\ x = <<i, k>>
    BY UsesAre
  <1>4. \A x : x \in T <=>
           \E k \in 1 .. Len(f.rscs) : f.rscs[k] = r /\ x = <<n + 1, k>>
    BY Zenon DEF UpTo
  <1>5. 1 .. (n + 1) = (1 .. n) \cup {n + 1} /\ n + 1 \notin 1 .. n
    BY <1>1
  <1> HIDE DEF n, T
  <1>6. Uses(r) \cap T = {}
    <2>1. ASSUME NEW x \in Uses(r), x \in T PROVE FALSE
      <3>1. PICK i \in 1 .. n : \E k : x = <<i, k>>
        BY <1>3, <2>1
      <3>2. \E k : x = <<n + 1, k>>
        BY <1>4, <2>1
      <3>3. i = n + 1
        BY <3>1, <3>2
      <3> QED BY <1>5, <3>1, <3>3
    <2> QED BY <2>1
  <1>7. ASSUME NEW x PROVE x \in Uses(r)' <=> x \in Uses(r) \/ x \in T
    BY <1>1, <1>2, <1>3, <1>4, <1>5
  <1>8. Uses(r)' = Uses(r) \cup T
    BY <1>7
  <1> QED BY <1>6, <1>8 DEF T, n

\* Creating an interface keeps the account of every resource.
LEMMA NewAccounted ==
  ASSUME interfaces \in Seq(Interface), UsesFinite, ResourcesAccounted,
         pc # "failed", NEW argv, Created(argv), rs_states' = Kept(argv),
         Len(argv) \in Nat \ {0}, Tail(argv) \in Seq(Rscs),
         Len(Tail(argv)) = Len(argv) - 1,
         NEW f \in Interface, f.rscs = Tail(argv),
         interfaces' = Append(interfaces, f)
  PROVE  UsesFinite' /\ ResourcesAccounted'
  <1> DEFINE rs == Tail(argv)
             n == Len(argv) - 1
             N == Len(interfaces)
             T(r) == {<<N + 1, j>> : j \in UpTo(rs, r, n)}
  <1>1. /\ n \in Nat /\ Len(rs) = n /\ Valid(argv)
        /\ \A i \in 1 .. n : rs[i] \in Rscs /\ Allocates(rs, i)
    BY DEF Created
  <1>2. Kept(argv) = Allocated(rs, n)
    <2>1. {i \in 1 .. n : ~Allocates(rs, i)} = {}
      BY <1>1
    <2> QED BY <1>1, <2>1 DEF Kept
  <1>3. ASSUME NEW r
        PROVE  /\ Uses(r)' = Uses(r) \cup T(r) /\ Uses(r) \cap T(r) = {}
               /\ IsFiniteSet(T(r))
               /\ Cardinality(T(r)) = Cardinality(UpTo(rs, r, n))
               /\ Cardinality(T(r)) \in Nat
    <2>1. Uses(r)' = Uses(r) \cup T(r) /\ Uses(r) \cap T(r) = {}
      BY <1>1, UsesOfNew
    <2>2. IsFiniteSet(UpTo(rs, r, n)) /\ Cardinality(UpTo(rs, r, n)) \in Nat
      BY <1>1, UpToNext
    <2>3. IsFiniteSet(T(r)) /\ Cardinality(T(r)) = Cardinality(UpTo(rs, r, n))
      BY <2>2, Tagged
    <2> QED BY <2>1, <2>2, <2>3
  <1> HIDE DEF T, n, N, rs
  <1>4. ASSUME NEW r \in Rscs
        PROVE  /\ IsFiniteSet(Uses(r)') /\ Cardinality(Uses(r)) \in Nat
               /\ Cardinality(Uses(r)') = Cardinality(Uses(r)) + Cardinality(T(r))
    <2>1. IsFiniteSet(Uses(r)) /\ IsFiniteSet(T(r)) /\ Uses(r) \cap T(r) = {}
      BY <1>3 DEF UsesFinite
    <2>2. Cardinality(Uses(r)) \in Nat /\ Cardinality({}) = 0
      BY <2>1, FS_CardinalityType, FS_EmptySet
    <2>3. /\ IsFiniteSet(Uses(r) \cup T(r))
          /\ Cardinality(Uses(r) \cup T(r)) =
               Cardinality(Uses(r)) + Cardinality(T(r)) - Cardinality(Uses(r) \cap T(r))
      BY <2>1, FS_Union
    <2>4. Cardinality(Uses(r) \cup T(r)) = Cardinality(Uses(r)) + Cardinality(T(r))
      <3>1. Cardinality(Uses(r) \cap T(r)) = 0
        BY <2>1, <2>2
      <3>2. Cardinality(T(r)) \in Nat
        BY <1>3
      <3> QED BY <2>2, <2>3, <3>1, <3>2
    <2> QED BY <1>3, <2>2, <2>3, <2>4
  <1>5. UsesFinite'
    BY <1>4 DEF UsesFinite
  <1>6. ASSUME NEW r \in Rscs, CountAvail[r] # Inf
        PROVE  /\ Cardinality(Uses(r)') <= CountAvail[r]
               /\ rs_states'[r] = Cardinality(Uses(r)')
    <2>1. rs_states[r] = Cardinality(Uses(r)) /\ rs_states[r] <= CountAvail[r]
      BY <1>6 DEF ResourcesAccounted
    <2>2. rs_states[r] \in Nat
      BY <1>4, <2>1
    <2>3. /\ rs_states[r] + Cardinality(UpTo(rs, r, n)) <= CountAvail[r]
          /\ Allocated(rs, n)[r] = rs_states[r] + Cardinality(UpTo(rs, r, n))
      BY <1>1, <1>6, <2>1, <2>2, AllocatedWithin
    <2>4. Cardinality(Uses(r)') = rs_states[r] + Cardinality(UpTo(rs, r, n))
      BY <1>3, <1>4, <2>1
    <2>5. rs_states'[r] = Allocated(rs, n)[r]
      BY <1>2
    <2> QED BY <2>3, <2>4, <2>5
  <1>7. ResourcesAccounted'
    BY <1>6, Zenon DEF ResourcesAccounted
  <1> QED BY <1>5, <1>7

-----------------------------------------------------------------------------
(* The steps                                                               *)

ReaderInv == ReaderTypes /\ QueueHolds
LoaderInv ==
  /\ MapHoldsLatest /\ InterfacesMade /\ LatestTemplate /\ InterfacesFit
  /\ UsesFinite /\ ResourcesAccounted
IInv ==
  ReaderInv /\ LoaderInv /\ VariablesInv /\ PhaseInv /\ CallsLeft /\ ModulesInv

\* A step that reads no template and queues or opens no file.
LEMMA ReaderQuiet ==
  ASSUME ReaderInv, UNCHANGED othersOfCf \/ UNCHANGED <<queueVars, cf_peripherals, pers>>,
         prelude' \in Seq(AllLines),
         pc' \in {"next", "read", "line", "args", "init", "done", "failed"},
         pc' \in {"line", "args", "init"} => line' \in AllLines,
         pc' \in {"args", "init"} => line'[1] = "mod" /\ line'[3] \in DOMAIN Kinds,
         pc' = "done" => cf_queue_head = cf_queue_tail
  PROVE  ReaderInv'
  <1>1. UNCHANGED queueVars /\ UNCHANGED <<cf_peripherals, pers>>
    BY DEF othersOfCf
  <1>2. QueueHolds'
    BY <1>1, QueueQuiet DEF ReaderInv
  <1>3. ReaderTypes'
    BY <1>1 DEF ReaderInv, ReaderTypes, CfTypeOK, queueVars, IsMap
  <1> QED BY <1>2, <1>3 DEF ReaderInv

\* The reader's part of the invariant.
LEMMA ReaderPreserves ==
  ASSUME ReaderInv, MapHoldsLatest, Next
  PROVE  ReaderInv'
  <1>1. /\ pc \in {"next", "read", "line", "args", "init", "done", "failed"}
        /\ pc \in {"line", "args", "init"} => line \in AllLines
        /\ pc \in {"args", "init"} => line[1] = "mod" /\ line[3] \in DOMAIN Kinds
        /\ prelude \in Seq(AllLines) /\ CfTypeOK /\ peak \in Nat
    BY DEF ReaderInv, ReaderTypes
  <1>2. CASE cf_open(Mounted)
    <2>1. QueueHolds'
      BY <1>2, OpenQueue DEF ReaderInv, ReaderTypes
    <2>2. /\ cf_path_queue[cf_queue_head] \in Paths /\ cf_queue_head \in Ring
          /\ cf_queue_head' = Slot(cf_queue_head)
          /\ loaded' = Append(loaded, cf_path_queue[cf_queue_head])
          /\ UNCHANGED <<cf_path_queue, cf_queue_tail, cf_peripherals, prelude,
                         pushed, peak, pers>>
          /\ pc' = "read"
      BY <1>1, <1>2 DEF cf_open, Mounted, CfTypeOK
    <2>3. cf_queue_head' \in Ring
      BY <2>2, NextSlot
    <2>4. loaded' \in Seq(Paths)
      BY <1>1, <2>2 DEF CfTypeOK
    <2> QED BY <2>1, <2>2, <2>3, <2>4 DEF ReaderInv, ReaderTypes, CfTypeOK, IsMap
  <1>3. CASE cf_open_fail
    BY <1>1, <1>3, ReaderQuiet DEF cf_open_fail
  <1>4. CASE cf_gets
    <2>1. line' \in AllLines /\ prelude' \in Seq(AllLines)
      <3>1. CASE prelude # <<>>
        BY <1>1, <1>4, <3>1 DEF cf_gets
      <3>2. CASE prelude = <<>>
        BY <1>1, <1>4, <3>2 DEF cf_gets, AllLines
      <3> QED BY <3>1, <3>2
    <2> QED BY <1>4, <2>1, ReaderQuiet DEF cf_gets
  <1>5. CASE cf_close
    BY <1>1, <1>5, ReaderQuiet DEF cf_close
  <1>6. CASE cf_done
    BY <1>1, <1>6, ReaderQuiet DEF cf_done
  <1>7. CASE cf_process_per
    <2>1. IsMap(cf_peripherals', Templates) /\ pers' \in Seq(Templates)
      BY <1>7, PerPreserves DEF ReaderInv
    <2>2. /\ UNCHANGED queueVars /\ UNCHANGED prelude /\ pc' = "read"
      BY <1>7 DEF cf_process_per, Return0
    <2>3. QueueHolds'
      BY <2>2, QueueQuiet DEF ReaderInv
    <2> QED BY <1>1, <2>1, <2>2, <2>3
            DEF ReaderInv, ReaderTypes, CfTypeOK, queueVars
  <1>8. CASE cf_process_inc
    <2>1. line[2] \in Paths
      BY <1>1, <1>8, LinesAssumption DEF cf_process_inc
    <2>2. QueueHolds' /\ peak' \in Nat
      BY <1>1, <1>8, <2>1, IncludeQueue DEF ReaderInv
    <2>3. /\ cf_path_queue' = [cf_path_queue EXCEPT ![cf_queue_tail] = line[2]]
          /\ cf_queue_tail' = Slot(cf_queue_tail)
          /\ pushed' = Append(pushed, line[2]) /\ pc' = "read"
          /\ UNCHANGED <<cf_queue_head, loaded, cf_peripherals, prelude, pers>>
      BY <1>8 DEF cf_process_inc, Return0
    <2>4. cf_queue_tail' \in Ring
      BY <1>1, <2>3, NextSlot DEF CfTypeOK
    <2>5. CfTypeOK'
      BY <1>1, <2>1, <2>3, <2>4 DEF CfTypeOK
    <2> QED BY <1>1, <2>2, <2>3, <2>5 DEF ReaderInv, ReaderTypes, IsMap
  <1>9. CASE cf_process_other
    BY <1>1, <1>9, ReaderQuiet DEF cf_process_other, Return0, ReturnError
  <1>10. CASE cf_process_sch
    BY <1>1, <1>10, ReaderQuiet DEF cf_process_sch, Return0, ReturnError, othersOfCf
  <1>11. CASE md_init
    BY <1>1, <1>11, ReaderQuiet DEF md_init, ReturnError, othersOfCf
  <1>12. CASE arg_peripheral
    BY <1>1, <1>12, ReaderQuiet DEF arg_peripheral, Parsing, ReturnError, othersOfCf
  <1>13. CASE arg_scheduler
    BY <1>1, <1>13, ReaderQuiet DEF arg_scheduler, Parsing, ReturnError, othersOfCf
  <1>14. CASE arg_other
    BY <1>1, <1>14, ReaderQuiet DEF arg_other, Parsing, ReturnError, othersOfCf
  <1>15. CASE module_init
    BY <1>1, <1>15, ReaderQuiet DEF module_init, ReturnError, othersOfCf
  <1>16. CASE init_call
    BY <1>1, <1>16, ReaderQuiet DEF init_call, othersOfCf, cfVars, queueVars
  <1>17. CASE init_return
    BY <1>1, <1>17, ReaderQuiet DEF init_return, Return0, othersOfCf
  <1>18. CASE main_task
    <2>1. pc' = "done" => cf_queue_head = cf_queue_tail
      BY <1>18 DEF main_task, cfVars, ReaderInv, QueueHolds
    <2> QED BY <1>1, <1>18, <2>1, ReaderQuiet
            DEF main_task, othersOfCf, cfVars, queueVars
  <1> QED BY <1>2, <1>3, <1>4, <1>5, <1>6, <1>7, <1>8, <1>9, <1>10, <1>11, <1>12,
             <1>13, <1>14, <1>15, <1>16, <1>17, <1>18 DEF Next, Reader

\* A step that creates no interface and reads no template.
LEMMA LoaderQuiet ==
  ASSUME LoaderInv, UNCHANGED <<cf_peripherals, pers, interfaces, rs_states>>,
         pc = "failed" => pc' = "failed"
  PROVE  LoaderInv'
  <1>1. MapHoldsLatest'
    <2>1. MapHoldsLatest /\ UNCHANGED cf_peripherals /\ UNCHANGED pers
      BY DEF LoaderInv
    <2>2. \A tag : OfTag(tag)' = OfTag(tag)
      BY ONLY <2>1 DEF OfTag
    <2>3. \A tag : LatestOf(tag)' = LatestOf(tag)
      BY ONLY <2>1, <2>2 DEF LatestOf
    <2> QED BY ONLY <2>1, <2>3 DEF MapHoldsLatest
  <1>2. InterfacesMade' /\ LatestTemplate' /\ InterfacesFit'
    BY DEF LoaderInv, InterfacesMade, LatestTemplate, InterfacesFit
  <1>3. UsesFinite' /\ ResourcesAccounted'
    <2>1. \A r : Uses(r)' = Uses(r)
      BY DEF Uses
    <2> QED BY <2>1 DEF LoaderInv, UsesFinite, ResourcesAccounted
  <1> QED BY <1>1, <1>2, <1>3 DEF LoaderInv

\* LatestTemplate says it of each interface.
LEMMA LatestTemplateIs ==
  ASSUME interfaces \in Seq(Interface)
  PROVE  LatestTemplate <=> \A i \in 1 .. Len(interfaces) : MadeFrom(interfaces[i])
  <1>1. DOMAIN interfaces = 1 .. Len(interfaces)
    OBVIOUS
  <1> QED BY <1>1, Zenon DEF LatestTemplate, MadeFrom

\* Reading a template leaves the interfaces as they are.
LEMMA PerLoader ==
  ASSUME ReaderInv, LoaderInv, cf_process_per, UNCHANGED ldVars
  PROVE  LoaderInv'
  <1>1. /\ Len(pers) \in Nat /\ Len(pers') = Len(pers) + 1
        /\ \A k \in 1 .. Len(pers) : pers'[k] = pers[k]
        /\ MapHoldsLatest'
    BY PerPreserves DEF ReaderInv, LoaderInv, ReaderTypes
  <1>2. /\ interfaces' = interfaces /\ rs_states' = rs_states
        /\ pc' = "read" /\ pc = "line"
    BY DEF cf_process_per, Return0, ldVars
  <1>3. /\ interfaces \in Seq(Interface)
        /\ \A i \in 1 .. Len(interfaces) :
             interfaces[i].at \in Nat /\ interfaces[i].at <= Len(pers)
    <2>1. interfaces \in Seq(Interface)
      BY DEF LoaderInv, InterfacesMade
    <2>2. \A i \in 1 .. Len(interfaces) : interfaces[i] \in Interface
      BY <2>1
    <2> QED BY <2>1, <2>2 DEF LoaderInv, InterfacesMade, Interface
  <1>4. InterfacesMade'
    BY <1>1, <1>2, <1>3 DEF InterfacesMade
  <1>5. LatestTemplate'
    <2>1. \A i \in 1 .. Len(interfaces) : MadeFrom(interfaces[i])
      BY <1>3, LatestTemplateIs DEF LoaderInv
    <2>2. ASSUME NEW i \in 1 .. Len(interfaces), NEW f, f = interfaces[i]
          PROVE  MadeFrom(f)'
      BY <1>1, <1>3, <2>1, <2>2, MadeFromKept
    <2>3. DOMAIN interfaces' = 1 .. Len(interfaces)
      BY <1>2, <1>3
    <2> QED BY <1>2, <2>2, <2>3, Zenon DEF LatestTemplate, MadeFrom
  <1>6. InterfacesFit'
    BY <1>2 DEF LoaderInv, InterfacesFit
  <1>7. UsesFinite' /\ ResourcesAccounted'
    <2>1. \A r : Uses(r)' = Uses(r)
      BY <1>2 DEF Uses
    <2> QED BY <1>2, <2>1 DEF LoaderInv, UsesFinite, ResourcesAccounted
  <1> QED BY <1>1, <1>4, <1>5, <1>6, <1>7 DEF LoaderInv

\* An argument that names an interface.
LEMMA PeripheralLoader ==
  ASSUME ReaderInv, LoaderInv, arg_peripheral
  PROVE  LoaderInv'
  <1> DEFINE argv == map_get(cf_peripherals, Arg)
             f == NewInterface(argv)
             n == Len(interfaces)
  <1>1. /\ pc = "args" /\ Decl[curarg].type \in InterfaceTypes
        /\ UNCHANGED <<cf_peripherals, pers>> /\ rs_states' = Kept(argv)
        /\ \/ /\ Created(argv) /\ interfaces' = Append(interfaces, f)
              /\ Fits(argv[1]) \/ pc' = "failed"
           \/ UNCHANGED interfaces /\ pc' = "failed"
    BY DEF arg_peripheral, Parsing, InterfaceTypes, NewInterface, ReturnError, othersOfCf
  <1>2. MapHoldsLatest'
    <2>1. MapHoldsLatest /\ UNCHANGED cf_peripherals /\ UNCHANGED pers
      BY <1>1 DEF LoaderInv
    <2>2. \A tag : OfTag(tag)' = OfTag(tag)
      BY ONLY <2>1 DEF OfTag
    <2>3. \A tag : LatestOf(tag)' = LatestOf(tag)
      BY ONLY <2>1, <2>2 DEF LatestOf
    <2> QED BY ONLY <2>1, <2>3 DEF MapHoldsLatest
  <1>3. CASE UNCHANGED interfaces /\ pc' = "failed"
    <2>1. InterfacesMade' /\ LatestTemplate' /\ InterfacesFit'
      BY <1>1, <1>3 DEF LoaderInv, InterfacesMade, LatestTemplate, InterfacesFit
    <2>2. UsesFinite' /\ ResourcesAccounted'
      <3>1. \A r : Uses(r)' = Uses(r)
        BY <1>3 DEF Uses
      <3> QED BY <1>3, <3>1 DEF LoaderInv, UsesFinite, ResourcesAccounted
    <2> QED BY <1>2, <2>1, <2>2 DEF LoaderInv
  <1>4. CASE /\ Created(argv) /\ interfaces' = Append(interfaces, f)
             /\ Fits(argv[1]) \/ pc' = "failed"
    <2>1. Valid(argv)
      BY <1>4 DEF Created
    <2>2. /\ f \in Interface /\ MadeFrom(f) /\ argv \in Seq(Words) /\ argv # <<>>
          /\ Len(Tail(argv)) = Len(argv) - 1
      BY <1>1, <2>1, NewInterfaceIs DEF ReaderInv, LoaderInv
    <2>3. /\ f.per = argv[1] /\ f.rscs = Tail(argv) /\ f.at = Len(pers)
          /\ f.for = Decl[curarg].type
      BY DEF NewInterface
    <2>4. Tail(argv) \in Seq(Rscs)
      BY <2>2, <2>3 DEF Interface
    <2>5. Len(argv) \in Nat \ {0} /\ Len(pers) \in Nat
      <3> HIDE DEF argv
      <3> QED BY <2>2 DEF ReaderInv, ReaderTypes
    <2> HIDE DEF f, argv
    <2>6. /\ n \in Nat /\ interfaces \in Seq(Interface)
          /\ interfaces' \in Seq(Interface) /\ Len(interfaces') = n + 1
          /\ interfaces'[n + 1] = f
          /\ \A i \in 1 .. n : interfaces'[i] = interfaces[i]
      BY <1>4, <2>2 DEF LoaderInv, InterfacesMade
    <2>7. \A i \in 1 .. (n + 1) : i \in 1 .. n \/ i = n + 1
      BY <2>6
    <2>8. UsesFinite' /\ ResourcesAccounted'
      BY <1>1, <1>4, <2>2, <2>3, <2>4, <2>5, <2>6, NewAccounted DEF LoaderInv
    <2>9. InterfacesMade'
      BY <1>1, <2>3, <2>5, <2>6, <2>7 DEF LoaderInv, InterfacesMade
    <2>10. LatestTemplate'
      <3>1. \A i \in 1 .. n : MadeFrom(interfaces[i])
        BY <2>6, LatestTemplateIs DEF LoaderInv
      <3>2. \A i \in 1 .. (n + 1) : MadeFrom(interfaces'[i])
        BY <2>2, <2>6, <2>7, <3>1
      <3>3. DOMAIN interfaces' = 1 .. (n + 1)
        BY <2>6
      <3> QED BY <1>1, <3>2, <3>3, Zenon DEF LatestTemplate, MadeFrom
    <2>11. InterfacesFit'
      <3>1. ASSUME pc' # "failed", NEW i \in 1 .. (n + 1)
            PROVE  PpType[interfaces'[i].per] = interfaces'[i].for
        <4>1. PpType[f.per] = f.for
          BY <1>4, <2>3, <3>1 DEF Fits
        <4>2. pc # "failed"
          BY <1>1
        <4> QED BY <2>6, <2>7, <4>1, <4>2 DEF LoaderInv, InterfacesFit
      <3>2. ASSUME PpType[f.per] = "SERIAL", NEW i \in 1 .. n
            PROVE  interfaces[i].per # f.per
        BY <1>4, <2>3, <2>6, <3>2 DEF Created, InitFails
      <3>3. ASSUME NEW i \in 1 .. (n + 1), NEW j \in 1 .. (n + 1),
                   PpType[interfaces'[i].per] = "SERIAL",
                   interfaces'[i].per = interfaces'[j].per
            PROVE  i = j
        <4>1. CASE i \in 1 .. n /\ j \in 1 .. n
          BY <2>6, <3>3, <4>1 DEF LoaderInv, InterfacesFit
        <4>2. CASE i = n + 1 /\ j \in 1 .. n
          BY <2>6, <3>2, <3>3, <4>2
        <4>3. CASE j = n + 1 /\ i \in 1 .. n
          BY <2>6, <3>2, <3>3, <4>3
        <4> QED BY <2>7, <4>1, <4>2, <4>3
      <3> QED BY <2>6, <3>1, <3>3 DEF InterfacesFit
    <2> QED BY <1>2, <2>8, <2>9, <2>10, <2>11 DEF LoaderInv
  <1> QED BY <1>1, <1>3, <1>4

\* The loader's part of the invariant.
LEMMA LoaderPreserves ==
  ASSUME ReaderInv, LoaderInv, Next
  PROVE  LoaderInv'
  <1>1. CASE cf_process_per /\ UNCHANGED ldVars
    BY <1>1, PerLoader
  <1>2. CASE arg_peripheral
    BY <1>2, PeripheralLoader
  <1>3. CASE /\ \/ cf_open(Mounted) \/ cf_open_fail \/ cf_gets \/ cf_close \/ cf_done
                \/ cf_process_inc \/ cf_process_other
             /\ UNCHANGED ldVars
    <2>1. UNCHANGED <<cf_peripherals, pers, interfaces, rs_states>> /\ pc # "failed"
      BY <1>3 DEF cf_open, cf_open_fail, cf_gets, cf_close, cf_done, cf_process_inc,
                  cf_process_other, ldVars
    <2> QED BY <2>1, LoaderQuiet
  <1>4. CASE \/ cf_process_sch \/ md_init \/ arg_scheduler \/ arg_other
             \/ module_init \/ init_return
    <2>1. UNCHANGED <<cf_peripherals, pers, interfaces, rs_states>> /\ pc # "failed"
      BY <1>4 DEF cf_process_sch, md_init, arg_scheduler, arg_other, module_init,
                  init_return, Parsing, othersOfCf, ldVars
    <2> QED BY <2>1, LoaderQuiet
  <1>5. CASE init_call \/ main_task
    <2>1. UNCHANGED <<cf_peripherals, pers, interfaces, rs_states, pc>>
      BY <1>5 DEF init_call, main_task, cfVars, ldVars
    <2> QED BY <2>1, LoaderQuiet
  <1> QED BY <1>1, <1>2, <1>3, <1>4, <1>5 DEF Next, Reader

\* A step that calls neither vr_register nor vr_request.
LEMMA VariablesQuiet ==
  ASSUME VariablesInv, UNCHANGED <<registered, vr_sources, reloc, ptr, req>>,
         phase' \in {"load", "enabled", "halted"}
  PROVE  VariablesInv'
  <1>1. VrTypeOK' /\ IsMap(vr_sources, Sources)' /\ PointersTyped'
    BY DEF VariablesInv, VrTypeOK, PointersTyped
  <1>2. RelocsRequested'
    BY DEF VariablesInv, RelocsRequested, RelocFor
  <1>3. RequestsAnswered'
    BY DEF VariablesInv, RequestsAnswered
  <1> QED BY <1>1, <1>2, <1>3 DEF VariablesInv

\* The calls of a module's init are of the modelled kinds.
LEMMA CallTypes ==
  ASSUME ReaderInv, pc = "args", Len(Args) = Len(Decl)
  PROVE  Calls \in Seq(({"register"} \X Names) \cup ({"request"} \X Links))
  <1> DEFINE C == ({"register"} \X Names) \cup ({"request"} \X Links)
             d == Kinds[line[3]]
             A == IF d.outputs THEN <<<<"register", line[2]>>>> ELSE <<>>
             B == [i \in 1 .. Len(d.links) |-> <<"request", line[4][d.links[i]]>>]
  <1>1. line \in AllLines /\ line[1] = "mod" /\ line[3] \in DOMAIN Kinds
    BY DEF ReaderInv, ReaderTypes
  <1>2. /\ d.outputs => line[2] \in Names
        /\ d.links \in Seq(1 .. Len(d.args))
        /\ \A i \in 1 .. Len(d.links) : line[4][d.links[i]] \in Links
    BY <1>1, KindsAssumption DEF Args, Decl
  <1>3. A \in Seq(C)
    <2>1. CASE d.outputs
      <3>1. PICK e : e = <<"register", line[2]>>
        OBVIOUS
      <3>2. e \in C
        BY <1>2, <2>1, <3>1
      <3>3. A = <<e>>
        BY <2>1, <3>1
      <3> HIDE DEF C
      <3> QED BY <3>2, <3>3
    <2>2. CASE ~d.outputs
      BY <2>2
    <2> QED BY <2>1, <2>2
  <1>4. B \in Seq(C)
    <2>1. PICK k \in Nat : k = Len(d.links)
      BY <1>2
    <2>2. B \in [1 .. k -> C]
      BY <1>2, <2>1
    <2> HIDE DEF B, C
    <2> QED BY <2>2, FunctionIsSequence
  <1>5. Calls = A \o B
    BY DEF Calls, Args
  <1> HIDE DEF A, B
  <1>6. A \o B \in Seq(C)
    <2> HIDE DEF C
    <2> QED BY <1>3, <1>4
  <1> QED BY <1>5, <1>6

\* A call of a module's init.
LEMMA CallVariables ==
  ASSUME VariablesInv, CallsLeft, init_call
  PROVE  VariablesInv' /\ CallsLeft' /\ phase' = phase
  <1> DEFINE C == ({"register"} \X Names) \cup ({"request"} \X Links)
  <1>1. todo \in Seq(C) /\ todo # <<>> /\ todo' = Tail(todo)
    BY DEF CallsLeft, init_call
  <1>2. PICK h \in C : h = Head(todo)
    <2> HIDE DEF C
    <2> QED BY <1>1
  <1>3. todo' \in Seq(C)
    <2> HIDE DEF C
    <2> QED BY <1>1
  <1>4. CallsLeft'
    BY <1>3 DEF CallsLeft
  <1>5. CASE h[1] = "register" /\ vr_register(h[2])
    <2>1. h[2] \in Names
      BY <1>2, <1>5
    <2> QED BY <1>4, <1>5, <2>1, RegisterPreserves
  <1>6. CASE UNCHANGED vrVars
    <2>1. UNCHANGED <<registered, vr_sources, reloc, ptr, req, phase>>
      BY <1>6 DEF vrVars
    <2>2. phase \in {"load", "enabled", "halted"}
      BY DEF VariablesInv, VrTypeOK
    <2> QED BY <1>4, <2>1, <2>2, VariablesQuiet
  <1>7. CASE /\ h[1] = "request" /\ Len(h[2]) # 1 /\ FreeTargets # {}
             /\ vr_request(Min(FreeTargets), h[2][1], h[2][2], "FLOAT")
    <2>1. h[2][1] \in Names /\ h[2][2] \in Indices
      <3>1. h[2] \in Links
        BY <1>2, <1>7
      <3>2. h[2] \in Names \X Indices
        BY <1>7, <3>1 DEF Links
      <3> QED BY <3>2
    <2>2. FreeTargets \subseteq Nat /\ FreeTargets \subseteq Targets
          /\ \A t \in FreeTargets : req[t] = NULL
      BY TargetsAssumption DEF FreeTargets
    <2>3. PICK t \in FreeTargets : t = Min(FreeTargets)
      BY <1>7, <2>2, MinOfNats
    <2>4. t \in Targets /\ req[t] = NULL /\ "FLOAT" \in Types
      BY <2>2, KindsAssumption
    <2> QED BY <1>4, <1>7, <2>1, <2>3, <2>4, RequestPreserves
  <1>8. \/ h[1] = "register" /\ vr_register(h[2])
        \/ UNCHANGED vrVars
        \/ /\ h[1] = "request" /\ Len(h[2]) # 1 /\ FreeTargets # {}
           /\ vr_request(Min(FreeTargets), h[2][1], h[2][2], "FLOAT")
    BY <1>2 DEF init_call
  <1> QED BY <1>5, <1>6, <1>7, <1>8

\* The rest of the invariant.
LEMMA VariablesPreserves ==
  ASSUME ReaderInv, VariablesInv, PhaseInv, CallsLeft, Next
  PROVE  VariablesInv' /\ PhaseInv' /\ CallsLeft'
  <1>1. phase \in {"load", "enabled", "halted"}
    BY DEF VariablesInv, VrTypeOK
  <1>2. CASE main_task
    <2>1. /\ pc \in {"done", "failed"} /\ pc' = pc
          /\ phase' \in {"load", "enabled", "halted"} /\ phase' # "load"
          /\ phase' = "enabled" => pc = "done" /\ Connected
          /\ UNCHANGED <<registered, vr_sources, reloc, ptr, req>>
      BY <1>2 DEF main_task, cfVars
    <2>2. PhaseInv'
      BY <2>1 DEF PhaseInv, Connected
    <2> QED BY <2>1, <2>2, VariablesQuiet DEF CallsLeft
  <1>3. CASE init_call
    <2>1. VariablesInv' /\ CallsLeft' /\ phase' = phase
      BY <1>3, CallVariables
    <2>2. phase = "load"
      BY <1>1, <1>3 DEF init_call, PhaseInv
    <2> QED BY <2>1, <2>2 DEF PhaseInv
  <1>4. CASE Next /\ ~main_task /\ ~init_call
    <2>1. UNCHANGED vrVars /\ pc \notin {"done", "failed"}
      BY <1>4 DEF Next, Reader, cf_open, cf_open_fail, cf_gets, cf_close, cf_done,
         cf_process_per, cf_process_inc, cf_process_other, cf_process_sch, md_init,
         arg_peripheral, arg_scheduler, arg_other, module_init, init_return, Parsing
    <2>2. phase = "load" /\ phase' = phase
          /\ UNCHANGED <<registered, vr_sources, reloc, ptr, req>>
      BY <1>1, <2>1 DEF PhaseInv, vrVars
    <2>3. VariablesInv' /\ PhaseInv'
      BY <2>2, VariablesQuiet DEF PhaseInv
    <2>4. pc' = "init" => module_init /\ todo' = Calls /\ pc = "args"
                          /\ Len(Args) = Len(Decl)
      BY <1>4 DEF Next, Reader, cf_open, cf_open_fail, cf_gets, cf_close, cf_done,
         cf_process_per, cf_process_inc, cf_process_other, cf_process_sch, md_init,
         arg_peripheral, arg_scheduler, arg_other, module_init, init_return, Parsing,
         Return0, ReturnError, cfVars
    <2>5. CallsLeft'
      BY <2>4, CallTypes DEF CallsLeft
    <2> QED BY <2>3, <2>5
  <1> QED BY <1>2, <1>3, <1>4

\* What an attempt to create an interface leaves of the counts.
LEMMA KeptCounts ==
  ASSUME rs_states \in [Rscs -> 0 .. (CountMod - 1)], NEW argv,
         Valid(argv) => Len(argv) \in Nat \ {0}
  PROVE  Kept(argv) \in [Rscs -> 0 .. (CountMod - 1)]
  <1>1. ASSUME NEW rs, NEW n, n \in Nat
        PROVE  Allocated(rs, n) \in [Rscs -> 0 .. (CountMod - 1)]
    <2>1. ASSUME NEW r \in Rscs
          PROVE  (rs_states[r] + Cardinality({i \in 1 .. n : rs[i] = r})) % CountMod
                   \in 0 .. (CountMod - 1)
      <3>1. Cardinality({i \in 1 .. n : rs[i] = r}) \in Nat
        <4>1. UpTo(rs, r, n) = {i \in 1 .. n : rs[i] = r}
          BY DEF UpTo
        <4>2. Cardinality(UpTo(rs, r, n)) \in Nat
          BY <1>1, UpToNext
        <4> QED BY <4>1, <4>2
      <3>2. rs_states[r] \in Nat
        OBVIOUS
      <3>3. rs_states[r] + Cardinality({i \in 1 .. n : rs[i] = r}) \in Nat
        BY <3>1, <3>2
      <3> QED BY <3>3, CountAssumption, Division
    <2> QED BY <2>1 DEF Allocated
  <1> DEFINE bad == {i \in 1 .. Len(argv) - 1 : ~Allocates(Tail(argv), i)}
  <1>2. CASE Valid(argv) /\ bad # {}
    <2>1. bad \subseteq Nat \ {0}
      BY <1>2
    <2>2. Kept(argv) = Allocated(Tail(argv), Min(bad) - 1)
      BY <1>2 DEF Kept
    <2> HIDE DEF bad
    <2>3. Min(bad) \in bad
      <3>1. bad \subseteq Nat
        BY <2>1
      <3> QED BY <1>2, <3>1, MinOfNats
    <2>4. Min(bad) - 1 \in Nat
      <3>1. PICK k \in Nat \ {0} : k = Min(bad)
        BY <2>1, <2>3
      <3>2. k - 1 \in Nat
        OBVIOUS
      <3> QED BY <3>1, <3>2
    <2> QED BY <1>1, <2>2, <2>4
  <1>3. CASE Valid(argv) /\ bad = {}
    <2>1. Kept(argv) = Allocated(Tail(argv), Len(argv) - 1)
      BY <1>3 DEF Kept
    <2> QED BY <1>1, <1>3, <2>1
  <1>4. CASE ~Valid(argv)
    BY <1>4 DEF Kept
  <1> QED BY <1>2, <1>3, <1>4

\* The part of the invariant about the modules' arguments.
LEMMA ModulesPreserves ==
  ASSUME ReaderInv, LoaderInv, ModulesInv, Next
  PROVE  ModulesInv'
  <1> DEFINE Parsed == \A i \in 1 .. (curarg - 1) :
               Decl[i].type = "SCHEDULER" /\ Args[i] # "-" => Args[i] \in sc_schedulers
  <1>1. /\ rs_states \in [Rscs -> 0 .. (CountMod - 1)]
        /\ sourced \subseteq sc_schedulers
        /\ volumes \in Seq({"int"} \cup {l[2] : l \in AllLines})
        /\ Len(volumes) \in 1 .. MaxVolumes
        /\ pc = "args" => curarg \in Nat \ {0} /\ Parsed
    BY DEF ModulesInv
  <1>2. ASSUME UNCHANGED <<rs_states, sourced, volumes>>, pc' # "args",
               sc_schedulers \subseteq sc_schedulers'
        PROVE  ModulesInv'
    BY <1>1, <1>2 DEF ModulesInv
  <1>3. ASSUME UNCHANGED <<rs_states, sourced, volumes, sc_schedulers, line, pc, curarg>>
        PROVE  ModulesInv'
    BY <1>1, <1>3 DEF ModulesInv, Decl, Args
  <1>4. ASSUME pc = "args", curarg' = curarg + 1,
               UNCHANGED <<line, sourced, volumes, sc_schedulers>>,
               rs_states' \in [Rscs -> 0 .. (CountMod - 1)],
               Decl[curarg].type = "SCHEDULER" /\ Args[curarg] # "-" =>
                 Args[curarg] \in sc_schedulers
        PROVE  ModulesInv'
    <2>1. curarg' \in Nat \ {0} /\ curarg' - 1 = curarg /\ curarg \in Nat \ {0}
      BY <1>1, <1>4
    <2>2. \A i \in 1 .. curarg : i \in 1 .. (curarg - 1) \/ i = curarg
      BY <2>1
    <2>3. \A i \in 1 .. curarg :
            Decl[i].type = "SCHEDULER" /\ Args[i] # "-" => Args[i] \in sc_schedulers
      BY <1>1, <1>4, <2>2
    <2> QED BY <1>1, <1>4, <2>1, <2>3 DEF ModulesInv, Decl, Args
  <1>5. CASE Reader
    BY <1>2, <1>5 DEF Reader, cf_open, cf_open_fail, cf_gets, cf_close, cf_done,
       cf_process_per, cf_process_inc, cf_process_other, Return0, ReturnError, ldVars
  <1>6. CASE cf_process_sch
    BY <1>2, <1>6 DEF cf_process_sch, Return0, ReturnError
  <1>7. CASE md_init
    <2>1. CASE pc' # "args"
      BY <1>2, <1>7, <2>1 DEF md_init
    <2>2. CASE pc' = "args"
      <3>1. /\ curarg' = 1 /\ UNCHANGED <<rs_states, sourced, volumes, sc_schedulers>>
        BY <1>7, <2>2 DEF md_init, ReturnError
      <3>2. 1 .. (1 - 1) = {}
        OBVIOUS
      <3> QED BY <1>1, <3>1, <3>2 DEF ModulesInv
    <2> QED BY <2>1, <2>2
  <1>8. CASE arg_peripheral
    <2> DEFINE argv == map_get(cf_peripherals, Arg)
    <2>1. /\ pc = "args" /\ Decl[curarg].type \in InterfaceTypes
          /\ rs_states' = Kept(argv) /\ UNCHANGED <<sourced, volumes, sc_schedulers>>
          /\ \/ curarg' = curarg + 1 /\ UNCHANGED line
             \/ pc' = "failed"
      BY <1>8 DEF arg_peripheral, Parsing, InterfaceTypes, ReturnError
    <2>2. Valid(argv) => Len(argv) \in Nat \ {0}
      <3>1. Valid(argv) => argv \in Seq(Words) /\ argv # <<>>
        BY <2>1, NewInterfaceIs DEF ReaderInv, LoaderInv
      <3> HIDE DEF argv
      <3> QED BY <3>1
    <2>3. rs_states' \in [Rscs -> 0 .. (CountMod - 1)]
      BY <1>1, <2>1, <2>2, KeptCounts
    <2>4. CASE pc' = "failed"
      BY <1>1, <2>1, <2>3, <2>4 DEF ModulesInv
    <2>5. CASE curarg' = curarg + 1 /\ UNCHANGED line
      BY <1>4, <2>1, <2>3, <2>5 DEF InterfaceTypes
    <2> QED BY <2>1, <2>4, <2>5
  <1>9. CASE arg_scheduler
    <2>1. CASE pc' = "failed"
      BY <1>2, <1>9, <2>1 DEF arg_scheduler
    <2>2. CASE curarg' = curarg + 1 /\ UNCHANGED line /\ Arg \in sc_schedulers
      BY <1>1, <1>4, <1>9, <2>2 DEF arg_scheduler, Parsing, Arg
    <2> QED BY <1>9, <2>1, <2>2 DEF arg_scheduler, ReturnError
  <1>10. CASE arg_other
    <2>1. Decl[curarg].type = "SCHEDULER" /\ Args[curarg] # "-" => FALSE
      BY <1>10 DEF arg_other, Skipped, Arg
    <2>2. CASE pc' = "failed"
      BY <1>2, <1>10, <2>2 DEF arg_other
    <2>3. CASE curarg' = curarg + 1 /\ UNCHANGED line
      BY <1>1, <1>4, <1>10, <2>1, <2>3 DEF arg_other, Parsing
    <2> QED BY <1>10, <2>2, <2>3 DEF arg_other, ReturnError
  <1>11. CASE module_init
    <2>1. CASE pc' = "failed"
      BY <1>2, <1>11, <2>1 DEF module_init, ReturnError
    <2>2. CASE pc' # "failed"
      <3>1. /\ Len(Args) = Len(Decl) /\ ~InitError /\ pc = "args" /\ ~Parsing
            /\ sourced' = sourced \cup ({Source} \ {NULL})
            /\ volumes' = IF Kinds[line[3]].disk THEN Append(volumes, line[2])
                                                 ELSE volumes
            /\ pc' = "init" /\ UNCHANGED <<rs_states, sc_schedulers>>
        BY <1>11, <2>2 DEF module_init, ReturnError
      <3>2. line \in AllLines /\ line[1] = "mod" /\ line[3] \in DOMAIN Kinds
        BY <3>1 DEF ReaderInv, ReaderTypes
      <3>3. /\ Len(Decl) \in Nat
            /\ Kinds[line[3]].source # 0 =>
                 /\ Kinds[line[3]].source \in 1 .. Len(Decl)
                 /\ Decl[Kinds[line[3]].source].type = "SCHEDULER"
        BY <3>2, KindsAssumption DEF Decl
      <3>4. curarg \in Nat /\ Len(Decl) <= curarg - 1
        BY <1>1, <3>1, <3>3 DEF Parsing
      <3>5. Source = NULL \/ Source \in sc_schedulers
        <4>1. \A i \in 1 .. Len(Decl) : i \in 1 .. (curarg - 1)
          BY <3>3, <3>4
        <4> QED BY <1>1, <3>1, <3>3, <4>1 DEF Source
      <3>6. sourced' \subseteq sc_schedulers'
        BY <1>1, <3>1, <3>5
      <3>7. /\ volumes' \in Seq({"int"} \cup {l[2] : l \in AllLines})
            /\ Len(volumes') \in 1 .. MaxVolumes
        <4> DEFINE V == {"int"} \cup {l[2] : l \in AllLines}
        <4>1. line[2] \in V
          BY <3>2
        <4> HIDE DEF V
        <4>2. CASE ~Kinds[line[3]].disk
          BY <1>1, <3>1, <4>2 DEF V
        <4>3. CASE Kinds[line[3]].disk
          <5>1. ~(Len(volumes) >= MaxVolumes) /\ volumes' = Append(volumes, line[2])
            BY <3>1, <4>3 DEF InitError
          <5>2. volumes \in Seq(V) /\ Len(volumes) \in 1 .. MaxVolumes
            BY <1>1 DEF V
          <5>3. volumes' \in Seq(V) /\ Len(volumes') = Len(volumes) + 1
            BY <4>1, <5>1, <5>2
          <5>4. Len(volumes) + 1 \in 1 .. MaxVolumes
            BY <5>1, <5>2, VolumesAssumption
          <5> QED BY <5>3, <5>4 DEF V
        <4> QED BY <4>2, <4>3
      <3> QED BY <1>1, <3>1, <3>6, <3>7 DEF ModulesInv
    <2> QED BY <2>1, <2>2
  <1>12. CASE init_call
    BY <1>3, <1>12 DEF init_call, cfVars
  <1>13. CASE init_return
    BY <1>2, <1>13 DEF init_return, Return0, ldVars
  <1>14. CASE main_task
    BY <1>3, <1>14 DEF main_task, cfVars, ldVars
  <1> QED BY <1>5, <1>6, <1>7, <1>8, <1>9, <1>10, <1>11, <1>12, <1>13, <1>14 DEF Next

-----------------------------------------------------------------------------
(* The theorems                                                            *)

LEMMA InitIInv == Init => IInv
  <1> SUFFICES ASSUME Init PROVE IInv
    OBVIOUS
  <1>1. ReaderInv
    <2>1. /\ cf_path_queue = [i \in Ring |-> IF i = 0 THEN BootFile ELSE NULL]
          /\ cf_queue_head = 0 /\ cf_queue_tail = Slot(0)
          /\ cf_peripherals = map_create /\ pc = "next"
          /\ prelude = Prelude /\ pushed = <<BootFile>> /\ loaded = <<>>
          /\ peak = 1 /\ pers = <<>>
      BY DEF Init, CfInit
    <2>2. 0 \in Ring /\ QueueLen \in Nat /\ QueueLen > 1
      BY QueueAssumption DEF Ring
    <2>3. Slot(0) = 1 /\ 1 \in Ring
      BY <2>2, NextSlot DEF Ring
    <2>4. BootFile \in Paths
      BY PathsAssumption
    <2>5. CfTypeOK
      BY <2>1, <2>2, <2>3, <2>4 DEF CfTypeOK
    <2>6. ReaderTypes
      BY <2>1, <2>5, CreateIsMap, LinesAssumption DEF ReaderTypes
    <2>7. QueueHolds
      <3>1. Ahead(cf_queue_tail) = 1
        BY <2>1, <2>3 DEF Ahead
      <3>2. \A i \in Ring : Ahead(i) < 1 => i = 0 /\ Ahead(i) = 0
        BY <2>1, <2>2 DEF Ahead, Ring
      <3>3. Len(pushed) = 1 /\ Len(loaded) = 0 /\ pushed[1] = BootFile
        BY <2>1
      <3> QED BY <2>1, <2>2, <3>1, <3>2, <3>3 DEF QueueHolds
    <2> QED BY <2>6, <2>7 DEF ReaderInv
  <1>2. LoaderInv
    <2>1. /\ cf_peripherals = map_create /\ pers = <<>> /\ interfaces = <<>>
          /\ rs_states = [r \in Rscs |-> 0]
      BY DEF Init, CfInit
    <2>2. MapHoldsLatest
      <3>1. \A tag : OfTag(tag) = {}
        BY <2>1 DEF OfTag
      <3> QED BY <2>1, <3>1, CreateIsMap DEF MapHoldsLatest, LatestOf
    <2>3. InterfacesMade /\ LatestTemplate /\ InterfacesFit
      BY <2>1 DEF InterfacesMade, LatestTemplate, InterfacesFit
    <2>4. \A r : Uses(r) = {}
      BY <2>1 DEF Uses
    <2>5. UsesFinite
      BY <2>4, FS_EmptySet DEF UsesFinite
    <2>6. ResourcesAccounted
      <3>1. ASSUME NEW r \in Rscs, CountAvail[r] # Inf PROVE 0 <= CountAvail[r]
        BY <3>1, CountAssumption
      <3> QED BY <2>1, <2>4, <3>1, FS_EmptySet DEF ResourcesAccounted
    <2> QED BY <2>2, <2>3, <2>5, <2>6 DEF LoaderInv
  <1>3. VariablesInv
    <2>1. /\ registered = {} /\ vr_sources = map_create
          /\ reloc = [n \in Names |-> <<>>] /\ ptr = [t \in Targets |-> NULL]
          /\ phase = "load" /\ req = [t \in Targets |-> NULL]
      BY DEF Init, VrInit
    <2>2. IsMap(vr_sources, Sources)
      BY <2>1, CreateIsMap
    <2>3. Visited(vr_sources) = {}
      <3>1. \A p \in Places(vr_sources) : Elem(vr_sources, p) = NULL
        BY <2>1, CreateIsMap
      <3> QED BY <2>2, <3>1, VisitedIs
    <2>4. VrTypeOK
      BY <2>1, <2>3 DEF VrTypeOK
    <2>5. RelocsRequested /\ RequestsAnswered /\ PointersTyped
      BY <2>1 DEF RelocsRequested, RequestsAnswered, PointersTyped
    <2> QED BY <2>2, <2>4, <2>5 DEF VariablesInv
  <1>4. PhaseInv /\ CallsLeft
    BY DEF Init, CfInit, VrInit, PhaseInv, CallsLeft
  <1>5. ModulesInv
    <2>1. /\ rs_states = [r \in Rscs |-> 0] /\ sourced = {} /\ volumes = <<"int">>
          /\ pc = "next"
      BY DEF Init, CfInit
    <2>2. rs_states \in [Rscs -> 0 .. (CountMod - 1)]
      BY <2>1, CountAssumption
    <2>3. Len(volumes) \in 1 .. MaxVolumes
      BY <2>1, VolumesAssumption
    <2> QED BY <2>1, <2>2, <2>3 DEF ModulesInv
  <1> QED BY <1>1, <1>2, <1>3, <1>4, <1>5 DEF IInv

LEMMA NextIInv == IInv /\ [Next]_vars => IInv'
  <1> SUFFICES ASSUME IInv, [Next]_vars PROVE IInv'
    OBVIOUS
  <1>1. CASE Next
    <2>1. ReaderInv' /\ LoaderInv' /\ ModulesInv'
      BY <1>1, ReaderPreserves, LoaderPreserves, ModulesPreserves DEF IInv, LoaderInv
    <2>2. VariablesInv' /\ PhaseInv' /\ CallsLeft'
      BY <1>1, VariablesPreserves DEF IInv
    <2> QED BY <2>1, <2>2 DEF IInv
  <1>2. CASE UNCHANGED vars
    <2>1. UNCHANGED cfVars /\ UNCHANGED vrVars /\ UNCHANGED ldVars
      BY <1>2 DEF vars
    <2>2. ReaderInv'
      <3>1. pc' = "done" => cf_queue_head = cf_queue_tail
        BY <2>1 DEF cfVars, IInv, ReaderInv, QueueHolds
      <3>2. ReaderTypes
        BY DEF IInv, ReaderInv
      <3> QED BY <2>1, <3>1, <3>2, ReaderQuiet
              DEF IInv, ReaderTypes, cfVars, queueVars
    <2>3. LoaderInv'
      BY <2>1, LoaderQuiet DEF IInv, cfVars, ldVars
    <2>4. VariablesInv' /\ phase' = phase
      <3>1. phase \in {"load", "enabled", "halted"}
        BY DEF IInv, VariablesInv, VrTypeOK
      <3> QED BY <2>1, <3>1, VariablesQuiet DEF IInv, vrVars
    <2>5. PhaseInv' /\ CallsLeft'
      BY <2>1 DEF IInv, PhaseInv, CallsLeft, Connected, cfVars, vrVars, ldVars
    <2>6. ModulesInv'
      BY <2>1 DEF IInv, ModulesInv, Decl, Args, cfVars, ldVars
    <2> QED BY <2>2, <2>3, <2>4, <2>5, <2>6 DEF IInv
  <1> QED BY <1>1, <1>2

LEMMA Invariance == Spec => []IInv
  BY InitIInv, NextIInv, PTL DEF Spec

\* Every variable keeps its type: at no time are more volumes mounted than
\* there are names for, and only schedulers that exist get a period.
THEOREM TypeCorrect == Spec => []TypeOK
  <1>1. IInv => TypeOK
    BY DEF IInv, ReaderInv, ReaderTypes, VariablesInv, ModulesInv, TypeOK
  <1> QED BY <1>1, Invariance, PTL

\* cf_init reads the files in the order in which they were queued, and all of
\* them, while the ring never held QueueLen paths.
THEOREM ReadsAllCorrect == Spec => []ReadsAllWithinCapacity
  <1>1. ASSUME IInv, peak < QueueLen
        PROVE  IsPrefix(loaded, pushed) /\ (pc = "done" => loaded = pushed)
    <2> DEFINE n == Len(loaded)
    <2>1. /\ cf_queue_head \in Ring /\ cf_queue_tail \in Ring
          /\ pushed \in Seq(Paths) /\ loaded \in Seq(Paths) /\ n \in Nat
      BY <1>1 DEF IInv, ReaderInv, ReaderTypes, CfTypeOK
    <2>2. /\ Len(pushed) = n + Ahead(cf_queue_tail)
          /\ \A k \in 1 .. n : loaded[k] = pushed[k]
          /\ pc = "done" => cf_queue_head = cf_queue_tail
      BY <1>1 DEF IInv, ReaderInv, QueueHolds
    <2>3. /\ Ahead(cf_queue_tail) \in Nat
          /\ cf_queue_head = cf_queue_tail => Ahead(cf_queue_tail) = 0
      BY <2>1, AheadRange
    <2>4. n <= Len(pushed)
      BY <2>1, <2>2, <2>3
    <2>5. SubSeq(loaded, 1, n) = SubSeq(pushed, 1, n)
      BY <2>1, <2>2, <2>4
    <2>6. pc = "done" => loaded = pushed
      <3>1. pc = "done" => Len(pushed) = n
        BY <2>1, <2>2, <2>3
      <3> QED BY <2>1, <2>2, <3>1
    <2> QED BY <2>4, <2>5, <2>6 DEF IsPrefix
  <1>2. IInv => ReadsAllWithinCapacity
    BY <1>1 DEF ReadsAllWithinCapacity
  <1> QED BY <1>2, Invariance, PTL

\* No resource is part of more interfaces than there are of it, and rs_allocate
\* counts exactly those: the 8-bit count never wraps.
THEOREM AccountCorrect == Spec => []ResourcesAccounted
  <1>1. IInv => ResourcesAccounted
    BY DEF IInv, LoaderInv
  <1> QED BY <1>1, Invariance, PTL

\* if_create gets the last template of its tag that was read.
THEOREM TemplateCorrect == Spec => []LatestTemplate
  <1>1. IInv => LatestTemplate
    BY DEF IInv, LoaderInv
  <1> QED BY <1>1, Invariance, PTL

\* Enabled schedulers call modules whose interfaces are of the declared types,
\* and a serial port has one interface.
THEOREM InterfacesCorrect == Spec => []EnabledInterfacesFit
  <1>1. ASSUME IInv PROVE EnabledInterfacesFit
    <2>1. interfaces \in Seq(Interface) /\ InterfacesFit
      BY <1>1 DEF IInv, LoaderInv, InterfacesMade
    <2>2. DOMAIN interfaces = 1 .. Len(interfaces)
      BY <2>1
    <2>3. phase = "enabled" => pc = "done"
      BY <1>1 DEF IInv, PhaseInv
    <2> QED BY <2>1, <2>2, <2>3 DEF EnabledInterfacesFit, InterfacesFit
  <1> QED BY <1>1, Invariance, PTL

\* vr_register and vr_request, in whatever order they are called, set no pointer
\* to another variable than its request names, and once vr_connect returned 0
\* every pointer whose variable exists is set.
THEOREM PointersCorrect == Spec => []PointersAreRequested
  <1>1. ASSUME IInv PROVE PointersAreRequested
    <2>1. ASSUME NEW t \in Targets, req[t] # NULL, InWidth(req[t])
          PROVE  /\ ptr[t] = Resolve(req[t]) \/ ptr[t] = NULL
                 /\ phase = "enabled" => ptr[t] = Resolve(req[t])
      <3>1. ptr[t] = Resolve(req[t]) \/ ptr[t] = NULL
        BY <1>1, <2>1 DEF IInv, VariablesInv, RequestsAnswered
      <3>2. ASSUME phase = "enabled", ptr[t] # Resolve(req[t]) PROVE FALSE
        <4>1. req[t].name \in Names
          BY <1>1, <2>1 DEF IInv, VariablesInv, VrTypeOK, Requests
        <4>2. PICK n \in Names : n = req[t].name
          BY <4>1
        <4>3. \E k \in 1 .. Len(reloc[n]) : reloc[n][k].dst = t
          BY <1>1, <2>1, <3>2, <4>2 DEF IInv, VariablesInv, RequestsAnswered
        <4>4. reloc[n] # <<>>
          BY <4>3
        <4>5. n \in Visited(vr_sources)
          BY <1>1, <4>4 DEF IInv, VariablesInv, RelocsRequested
        <4> QED BY <1>1, <3>2, <4>4, <4>5 DEF IInv, PhaseInv, Connected
      <3> QED BY <3>1, <3>2
    <2>2. ASSUME NEW t \in Targets, req[t] # NULL, InWidth(req[t])
          PROVE  /\ ptr[t] # NULL => ptr[t] = <<req[t].name, req[t].index>>
                 /\ phase = "enabled" /\ Provides(req[t].name, req[t].index, req[t].type)
                      => ptr[t] # NULL
      <3>1. <<req[t].name, req[t].index>> # NULL
        <4>1. req[t].name \in Names /\ req[t].index \in Nat
          BY <1>1, <2>2, IndexAssumption DEF IInv, VariablesInv, VrTypeOK, Requests, InWidth
        <4> QED BY <4>1, NullAssumption
      <3> QED BY <2>1, <2>2, <3>1 DEF Resolve
    <2>3. PointersTyped
      BY <1>1 DEF IInv, VariablesInv
    <2> QED BY <2>2, <2>3 DEF PointersAreRequested
  <1> QED BY <1>1, Invariance, PTL
=============================================================================
