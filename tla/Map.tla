--------------------------------- MODULE Map ---------------------------------
(***************************************************************************)
(* lib/map.c: an associative list in a chain of chunks of ChunkLen         *)
(* elements.  A map is the sequence of its chunks; an element is NULL (its *)
(* tag is NULL) or a pair of tag and value.  The end of the list is the    *)
(* first NULL element, or the end of a full last chunk.                    *)
(***************************************************************************)
EXTENDS Integers, Sequences, FiniteSets, FiniteSetsExt

CONSTANTS
  ChunkLen,  \* MAP_ELEMS_PER_CHUNK
  NULL

ASSUME ChunkAssumption == ChunkLen \in Nat \ {0}

Chunk == [i \in 1 .. ChunkLen |-> NULL]

map_create == <<Chunk>>

\* The places of a map in the order of the loops, and what is at one of them.
Places(m) == 1 .. Len(m) * ChunkLen
ChunkOf(p) == 1 + ((p - 1) \div ChunkLen)
IndexOf(p) == 1 + ((p - 1) % ChunkLen)
Elem(m, p) == m[ChunkOf(p)][IndexOf(p)]

\* Where the loops of map_set and map_get return: the end or the tag.
Hits(m, tag) == {p \in Places(m) : Elem(m, p) = NULL \/ Elem(m, p)[1] = tag}

\* A new chunk is added when there is no place.
Put(m, places, elem) ==
  IF places # {}
  THEN [m EXCEPT ![ChunkOf(Min(places))][IndexOf(Min(places))] = elem]
  ELSE Append(m, [Chunk EXCEPT ![1] = elem])

\* Mutant of map_set: an old value stays before the new one.
map_set_append(m, tag, value) ==
  Put(m, {p \in Places(m) : Elem(m, p) = NULL}, <<tag, value>>)

map_set(m, tag, value) == Put(m, Hits(m, tag), <<tag, value>>)

map_get(m, tag) ==
  LET hits == Hits(m, tag) IN
  IF hits = {} \/ Elem(m, Min(hits)) = NULL THEN NULL ELSE Elem(m, Min(hits))[2]

\* The values map_iter_next visits.
Visited(m) ==
  {Elem(m, p)[2] : p \in {q \in Places(m) : \A r \in 1 .. q : Elem(m, r) # NULL}}
=============================================================================
