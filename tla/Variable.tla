------------------------------- MODULE Variable -------------------------------
(***************************************************************************)
(* core/variable.c: modules register the variables they provide            *)
(* (vr_register) and request pointers to variables of others (vr_request)  *)
(* while the configuration is loaded, in whatever order its lines have.  A *)
(* request for a source that is not registered yet becomes a relocation,   *)
(* executed when the source is registered.  vr_connect then decides        *)
(* whether main_task goes on to enable the schedulers.                     *)
(*                                                                         *)
(* All of it runs in main_task, so every call is one step of Boot.  The    *)
(* modules ignore the results of vr_register and vr_request.  A variable   *)
(* is the pair of its source and its index; that relocation structs are    *)
(* reused through a free list cannot be observed and is left out.          *)
(***************************************************************************)
EXTENDS Map

CONSTANTS
  Names,    \* sources
  Types,    \* FLOAT, BOOL, INT
  Sig,      \* the types of the variables of each source
  Targets,  \* pointers in modules, each of them requested at most once
  Indices,  \* indices that configuration lines ask for, "-1" among them
  IndexMod, \* values of vr_reloc_s.index (2^16)
  Wild      \* a pointer read from before an array of variables

ASSUME SigAssumption == Sig \in [Names -> Seq(Types)]
ASSUME IndexAssumption == Indices \subseteq Int /\ IndexMod \in Nat \ {0}
ASSUME NullAssumption ==
  /\ NULL \notin Names /\ NULL \notin Names \X Names
  /\ NULL \notin Names \X Nat
  /\ NULL \notin [name : Names, index : Indices, type : Types]
ASSUME WildAssumption == Wild # NULL /\ Wild \notin Names \X Nat

VARIABLES
  registered,  \* sources with types # NULL
  vr_sources,  \* the map of sources; a value stands for its struct
  reloc,       \* pending relocations of a source, head first
  ptr,         \* the pointers: NULL (not set), a variable, or Wild
  phase,       \* main_task: "load", "enabled" or "halted"
  req          \* history: what was requested for a target

vrVars == <<registered, vr_sources, reloc, ptr, phase, req>>

VrInit ==
  /\ registered = {}
  /\ vr_sources = map_create
  /\ reloc = [n \in Names |-> <<>>]
  /\ ptr = [t \in Targets |-> NULL]
  /\ phase = "load"
  /\ req = [t \in Targets |-> NULL]

\* vr_get_source
WithSource(n) ==
  IF map_get(vr_sources, n) = NULL THEN map_set(vr_sources, n, n) ELSE vr_sources

\* vr_reloc_exec succeeds, for an index of zero or more: it is in bounds and
\* the type is right.
Match(n, i, ty) == i < Len(Sig[n]) /\ Sig[n][i + 1] = ty

Matches(n, r) == Match(n, r.index, r.type)

\* Mutant of Executed: only the first relocation is executed.
executed_first(n) == {k \in 1 .. Len(reloc[n]) : k = 1 /\ Matches(n, reloc[n][k])}

\* The relocations vr_register takes off the list: up to the first that
\* fails, which it takes off as well before it returns -1.
Executed(n) ==
  {k \in 1 .. Len(reloc[n]) : \A j \in 1 .. k : Matches(n, reloc[n][j])}
Removed(n) ==
  {k \in 1 .. Len(reloc[n]) : \A j \in 1 .. (k - 1) : Matches(n, reloc[n][j])}

\* A second registration of a name returns -1 and changes nothing.
vr_register(n) ==
  \/ /\ n \in registered
     /\ UNCHANGED vrVars
  \/ /\ n \notin registered
     /\ registered' = registered \cup {n}
     /\ vr_sources' = WithSource(n)
     /\ ptr' = [t \in Targets |->
                  IF \E k \in Executed(n) : reloc[n][k].dst = t
                  THEN LET k == CHOOSE k \in Executed(n) : reloc[n][k].dst = t
                       IN <<n, reloc[n][k].index>>
                  ELSE ptr[t]]
     /\ reloc' = [reloc EXCEPT ![n] = SubSeq(@, Cardinality(Removed(n)) + 1, Len(@))]
     /\ UNCHANGED <<phase, req>>

\* The index of a relocation is 16 bits wide and has no sign.  That of an
\* immediate request is an int: no loop of vr_reloc_exec stops a negative one,
\* which reads a type and perhaps a pointer from before the source's arrays.
vr_request(t, n, i, ty) ==
  /\ req' = [req EXCEPT ![t] = [name |-> n, index |-> i, type |-> ty]]
  /\ vr_sources' = WithSource(n)
  /\ \/ /\ n \notin registered
        /\ reloc' = [reloc EXCEPT ![n] =
             <<[dst |-> t, index |-> i % IndexMod, type |-> ty]>> \o @]
        /\ UNCHANGED ptr
     \/ /\ n \in registered
        /\ \/ i >= 0 /\ ptr' = [ptr EXCEPT ![t] = IF Match(n, i, ty) THEN <<n, i>> ELSE @]
           \/ i < 0 /\ UNCHANGED ptr
           \/ i < 0 /\ ptr' = [ptr EXCEPT ![t] = Wild]
        /\ UNCHANGED reloc
  /\ UNCHANGED <<registered, phase>>

\* vr_connect returns 0: no source is unregistered and no relocation pending.
Connected == \A n \in Visited(vr_sources) : n \in registered /\ reloc[n] = <<>>

-----------------------------------------------------------------------------
(* Properties                                                              *)

Requests == [name : Names, index : Indices, type : Types]
Relocs == [dst : Targets, index : 0 .. (IndexMod - 1), type : Types]

VrTypeOK ==
  /\ registered \subseteq Names
  /\ Visited(vr_sources) \subseteq Names
  /\ reloc \in [Names -> Seq(Relocs)]
  /\ ptr \in [Targets -> (Names \X Nat) \cup {NULL, Wild}]
  /\ phase \in {"load", "enabled", "halted"}
  /\ req \in [Targets -> Requests \cup {NULL}]

\* Source n has a variable with index i, and its type is ty.
Provides(n, i, ty) == i + 1 \in DOMAIN Sig[n] /\ Sig[n][i + 1] = ty

\* The variable a request names, or NULL if there is none.
Resolve(r) ==
  IF Provides(r.name, r.index, r.type) THEN <<r.name, r.index>> ELSE NULL

\* The index keeps its value in a relocation.
InWidth(r) == r.index \in 0 .. (IndexMod - 1)

\* A pointer that is set has the type its request asked for, at all times.
\* (Nothing is true of a negative index.)
PointersTyped ==
  \A t \in Targets :
    ptr[t] # NULL =>
      /\ req[t] # NULL
      /\ req[t].index >= 0 => /\ Provides(ptr[t][1], ptr[t][2], req[t].type)
                              /\ ptr[t][1] \in registered

\* Relocations are neither lost nor mixed up: a pointer never points to
\* another variable than its request names, and once the schedulers are
\* enabled one whose variable exists points to it, whether its source was
\* registered before or after the request.  Of a request for a variable that
\* does not exist it says only that its pointer is not set: see
\* EnabledPointersResolved.  (Of an index that does not fit 16 bits nothing
\* but the type is true, of a negative one nothing.)
PointersAreRequested ==
  /\ PointersTyped
  /\ \A t \in Targets :
       req[t] # NULL /\ InWidth(req[t]) =>
         /\ ptr[t] # NULL => ptr[t] = <<req[t].name, req[t].index>>
         /\ phase = "enabled" /\ Provides(req[t].name, req[t].index, req[t].type)
              => ptr[t] # NULL

\* scheduler.h:44 of sc_enable: "Making sure all pointers are resolved prior to
\* enabling the schedulers, runtime integrity checks can be skipped".  The
\* code breaks it: the modules ignore that vr_request failed, and a relocation
\* that fails is taken off its list like one that was executed.
EnabledPointersResolved ==
  phase = "enabled" => \A t \in Targets : req[t] # NULL => ptr[t] # NULL
=============================================================================
