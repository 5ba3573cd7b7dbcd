--------------------------------- MODULE Boot ---------------------------------
(***************************************************************************)
(* How main_task (core/main.c) starts the system: the configuration reader *)
(* (Config) hands "sch" lines to the scheduler and "mod" lines to          *)
(* core/module.c, which creates the interfaces their arguments name        *)
(* (core/interface.c) from peripherals and resources (core/peripheral.c,   *)
(* core/resource.c) and calls the module's init; those register and        *)
(* request variables (Variable), give schedulers their source and mount    *)
(* disks (core/disk_access.c).  Then variables are connected, scheduler    *)
(* clients initialised and the schedulers enabled.                         *)
(*                                                                         *)
(* Kinds describes the modules by their declared arguments and by what     *)
(* their init does: source is the argument with the scheduler it gives a   *)
(* period (0: none), strict whether it fails when there is one already,    *)
(* links the arguments it requests variables with.  Memory is not          *)
(* exhausted.                                                              *)
(***************************************************************************)
EXTENDS Config, Variable

CONSTANTS
  PpType, PpRscs,  \* of peripherals: the type, and the resources allowed for
                   \* each argument
  CountAvail,      \* rs_decl_t.count_avail; Inf stands for RS_COUNT_INF
  CountMod,        \* values of rs_state_t.count_allocated (2^8)
  Inf,
  Kinds,
  PathVolume,      \* the volume of a path
  MaxVolumes       \* FF_VOLUMES

Peripherals == DOMAIN PpType
Rscs == DOMAIN CountAvail

ASSUME CountAssumption ==
  /\ CountMod \in Nat \ {0}
  /\ \A r \in Rscs : CountAvail[r] \in 1 .. (CountMod - 1) \/ CountAvail[r] = Inf
ASSUME TargetsAssumption == Targets \subseteq Nat
ASSUME VolumesAssumption == MaxVolumes \in Nat \ {0}

\* Declared arguments: a peripheral of one of four types, or another kind.
ArgDecls ==
  [type : {"SERIAL", "SPI", "PWM", "GPIO", "SCHEDULER", "LINK", "STRING", "CONST",
           "CONST BOOL"},
   optional : BOOLEAN]

\* Links are a source's name, with or without an index.
Links == {<<n>> : n \in Names} \cup (Names \X Indices)

\* A module gives a period only to a scheduler.  A module with outputs is named
\* in its line (vr_register expects a name), and where a link is expected there
\* is one.
ASSUME KindsAssumption ==
  /\ "FLOAT" \in Types
  /\ \A l \in AllLines : l[1] = "mod" /\ l[3] \in DOMAIN Kinds =>
       /\ Kinds[l[3]].args \in Seq(ArgDecls)
       /\ Kinds[l[3]].source # 0 =>
            /\ Kinds[l[3]].source \in 1 .. Len(Kinds[l[3]].args)
            /\ Kinds[l[3]].args[Kinds[l[3]].source].type = "SCHEDULER"
       /\ Kinds[l[3]].outputs \in BOOLEAN
       /\ Kinds[l[3]].outputs => l[2] \in Names
       /\ Kinds[l[3]].links \in Seq(1 .. Len(Kinds[l[3]].args))
       /\ Len(l[4]) = Len(Kinds[l[3]].args) =>
            \A i \in 1 .. Len(Kinds[l[3]].links) : l[4][Kinds[l[3]].links[i]] \in Links

VARIABLES
  rs_states,     \* count_allocated
  interfaces,    \* the interfaces created, with the peripheral, its resources,
                 \* the template's tag, the per lines read before, and the
                 \* type the module's argument has
  sc_schedulers, \* schedulers defined
  sourced,       \* schedulers with a period
  volumes,       \* VolumeStr, up to disks_mounted
  curarg,        \* md_init_mod: the argument to be parsed
  todo           \* calls of vr_register and vr_request the module's init makes

ldVars == <<rs_states, interfaces, sc_schedulers, sourced, volumes, curarg, todo>>
vars == <<cfVars, vrVars, ldVars>>
othersOfCf == <<queueVars, cf_peripherals, prelude, count, pers>>

\* main_task before cf_init: disk_int_init mounts the first volume.
Init ==
  /\ CfInit /\ VrInit
  /\ rs_states = [r \in Rscs |-> 0]
  /\ interfaces = <<>>
  /\ sc_schedulers = {} /\ sourced = {}
  /\ volumes = <<"int">>
  /\ curarg = 0 /\ todo = <<>>

Mounted == {p \in Paths : PathVolume[p] \in ToSet(volumes)}

Reader ==
  /\ \/ cf_open(Mounted) \/ cf_open_fail \/ cf_gets \/ cf_close \/ cf_done
     \/ cf_process_per \/ cf_process_inc \/ cf_process_other
  /\ UNCHANGED <<vrVars, ldVars>>

\* A second definition of a name fails.
cf_process_sch ==
  /\ pc = "line" /\ line[1] = "sch"
  /\ IF line[2] \in sc_schedulers
     THEN ReturnError /\ UNCHANGED sc_schedulers
     ELSE Return0 /\ sc_schedulers' = sc_schedulers \cup {line[2]}
  /\ UNCHANGED <<othersOfCf, vrVars, rs_states, interfaces, sourced, volumes, curarg,
                 todo>>

-----------------------------------------------------------------------------
(* if_create                                                               *)

\* The peripheral exists, it has as many arguments, and they are allowed.
Valid(argv) ==
  /\ argv # NULL /\ argv # <<>>
  /\ argv[1] \in Peripherals
  /\ Len(argv) - 1 = Len(PpRscs[argv[1]])
  /\ \A i \in 1 .. Len(argv) - 1 :
       argv[i + 1] \in Rscs /\ argv[i + 1] \in PpRscs[argv[1]][i]

\* count_allocated after the first n resources of rs were allocated.
Allocated(rs, n) ==
  [r \in Rscs |-> (rs_states[r] + Cardinality({i \in 1 .. n : rs[i] = r})) % CountMod]

\* Mutant of Allocates: all are compared with the counts before the first.
allocates_before(rs, i) ==
  CountAvail[rs[i]] = Inf \/ CountAvail[rs[i]] > rs_states[rs[i]]

\* rs_allocate succeeds for the i-th resource.
Allocates(rs, i) ==
  CountAvail[rs[i]] = Inf \/ CountAvail[rs[i]] > Allocated(rs, i - 1)[rs[i]]

\* The init of the peripheral: only uart_init fails, for a second interface.
InitFails(per) ==
  PpType[per] = "SERIAL" /\ \E i \in DOMAIN interfaces : interfaces[i].per = per

Created(argv) ==
  /\ Valid(argv)
  /\ \A i \in 1 .. Len(argv) - 1 : Allocates(Tail(argv), i)
  /\ ~InitFails(argv[1])

\* What an attempt to create an interface allocates: an error returns without
\* giving anything back.
Kept(argv) ==
  IF ~Valid(argv) THEN rs_states
  ELSE LET bad == {i \in 1 .. Len(argv) - 1 : ~Allocates(Tail(argv), i)}
       IN Allocated(Tail(argv), IF bad = {} THEN Len(argv) - 1 ELSE Min(bad) - 1)

-----------------------------------------------------------------------------
(* md_init                                                                 *)

md_init ==
  /\ pc = "line" /\ line[1] = "mod"
  /\ IF line[3] \in DOMAIN Kinds
     THEN pc' = "args" /\ curarg' = 1 /\ UNCHANGED line
     ELSE ReturnError /\ UNCHANGED curarg
  /\ UNCHANGED <<othersOfCf, vrVars, rs_states, interfaces, sc_schedulers, sourced,
                 volumes, todo>>

Decl == Kinds[line[3]].args
Args == line[4]
Arg == Args[curarg]
Parsing == pc = "args" /\ curarg <= Len(Args) /\ curarg <= Len(Decl)
Skipped == Decl[curarg].optional /\ Arg = "-"

\* Mutant of Fits: the type is not compared.
fits_any(per) == TRUE

Fits(per) == PpType[per] = Decl[curarg].type

\* md_load_interface, and the comparison of its type.
arg_peripheral ==
  LET argv == map_get(cf_peripherals, Arg) IN
  /\ Parsing /\ ~Skipped
  /\ Decl[curarg].type \in {"SERIAL", "SPI", "PWM", "GPIO"}
  /\ rs_states' = Kept(argv)
  /\ IF Created(argv)
     THEN /\ interfaces' = Append(interfaces,
               [per |-> argv[1], rscs |-> Tail(argv), tag |-> Arg, at |-> Len(pers),
                for |-> Decl[curarg].type])
          /\ IF Fits(argv[1])
             THEN curarg' = curarg + 1 /\ UNCHANGED <<pc, line>>
             ELSE ReturnError /\ UNCHANGED curarg
     ELSE ReturnError /\ UNCHANGED <<interfaces, curarg>>
  /\ UNCHANGED <<othersOfCf, vrVars, sc_schedulers, sourced, volumes, todo>>

arg_scheduler ==
  /\ Parsing /\ ~Skipped
  /\ Decl[curarg].type = "SCHEDULER"
  /\ IF Arg \in sc_schedulers
     THEN curarg' = curarg + 1 /\ UNCHANGED <<pc, line>>
     ELSE ReturnError /\ UNCHANGED curarg
  /\ UNCHANGED <<othersOfCf, vrVars, rs_states, interfaces, sc_schedulers, sourced,
                 volumes, todo>>

\* Links, strings, constants and omitted optional arguments.  Only a Boolean
\* constant is checked: numbers are read from any word.
arg_other ==
  /\ Parsing
  /\ Skipped \/ Decl[curarg].type \in {"LINK", "STRING", "CONST", "CONST BOOL"}
  /\ IF ~Skipped /\ Decl[curarg].type = "CONST BOOL" /\ Arg \notin {"true", "false"}
     THEN ReturnError /\ UNCHANGED curarg
     ELSE curarg' = curarg + 1 /\ UNCHANGED <<pc, line>>
  /\ UNCHANGED <<othersOfCf, vrVars, rs_states, interfaces, sc_schedulers, sourced,
                 volumes, todo>>

\* The scheduler a module is to give its period, or NULL.
Source ==
  LET k == Kinds[line[3]].source IN
  IF k = 0 \/ Args[k] = "-" THEN NULL ELSE Args[k]

\* The module's init returns -1: its scheduler has a source, or the disk no
\* name or no place.  (What timer_configure returns is the subject of Timer.)
InitError ==
  \/ Kinds[line[3]].strict /\ Source \in sourced
  \/ Kinds[line[3]].disk /\ (line[2] = NULL \/ Len(volumes) >= MaxVolumes)

\* The calls to Variable: outputs are registered first.
Calls ==
  (IF Kinds[line[3]].outputs THEN <<<<"register", line[2]>>>> ELSE <<>>)
    \o [i \in 1 .. Len(Kinds[line[3]].links) |->
          <<"request", Args[Kinds[line[3]].links[i]]>>]

\* The number of arguments is compared after they were parsed; md->init.
module_init ==
  /\ pc = "args" /\ ~Parsing
  /\ IF Len(Args) # Len(Decl) \/ InitError
     THEN ReturnError /\ UNCHANGED <<sourced, volumes, todo>>
     ELSE /\ sourced' = sourced \cup ({Source} \ {NULL})
          /\ volumes' = IF Kinds[line[3]].disk THEN Append(volumes, line[2]) ELSE volumes
          /\ todo' = Calls
          /\ pc' = "init" /\ UNCHANGED line
  /\ curarg' = 0
  /\ UNCHANGED <<othersOfCf, vrVars, rs_states, interfaces, sc_schedulers>>

\* Pointers nothing was requested for yet: Targets bounds the requests.
FreeTargets == {t \in Targets : req[t] = NULL}

\* A link without an index is ignored.
init_call ==
  /\ pc = "init" /\ todo # <<>>
  /\ \/ Head(todo)[1] = "register" /\ vr_register(Head(todo)[2])
     \/ /\ Head(todo)[1] = "request"
        /\ IF Len(Head(todo)[2]) = 1 THEN UNCHANGED vrVars
           ELSE /\ FreeTargets # {}
                /\ vr_request(Min(FreeTargets), Head(todo)[2][1], Head(todo)[2][2],
                              "FLOAT")
  /\ todo' = Tail(todo)
  /\ UNCHANGED <<cfVars, rs_states, interfaces, sc_schedulers, sourced, volumes, curarg>>

init_return ==
  /\ pc = "init" /\ todo = <<>>
  /\ Return0
  /\ UNCHANGED <<othersOfCf, vrVars, ldVars>>

\* main_task after cf_init: vr_connect, sc_init_clients (which fails when a
\* scheduler has no period) and sc_enable; it suspends itself at any error.
main_task ==
  /\ pc \in {"done", "failed"} /\ phase = "load"
  /\ phase' = IF pc = "done" /\ Connected /\ sc_schedulers \subseteq sourced
              THEN "enabled" ELSE "halted"
  /\ UNCHANGED <<registered, vr_sources, reloc, ptr, req, cfVars, ldVars>>

Next ==
  \/ Reader \/ cf_process_sch
  \/ md_init \/ arg_peripheral \/ arg_scheduler \/ arg_other
  \/ module_init \/ init_call \/ init_return
  \/ main_task

Spec == Init /\ [][Next]_vars

-----------------------------------------------------------------------------
(* Properties                                                              *)

\* Every variable keeps its type.
TypeOK ==
  /\ CfTypeOK /\ VrTypeOK
  /\ rs_states \in [Rscs -> 0 .. (CountMod - 1)]
  /\ sourced \subseteq sc_schedulers
  /\ Len(volumes) \in 1 .. MaxVolumes

Uses(r) ==
  UNION {{<<i, j>> : j \in {k \in DOMAIN interfaces[i].rscs : interfaces[i].rscs[k] = r}} :
           i \in DOMAIN interfaces}

\* configuration.md: per lines do not occupy resources "even though multiple
\* per lines may use the same": a pin or stream is only ever part of as many
\* interfaces as there are of it, not even twice of one, and its count is that
\* of the interfaces created.
ResourcesAccounted ==
  \A r \in Rscs :
    CountAvail[r] # Inf => /\ Cardinality(Uses(r)) <= CountAvail[r]
                           /\ pc # "failed" => rs_states[r] = Cardinality(Uses(r))

\* An interface is made from the last template of its tag that was read before
\* its mod line, in whichever file: "defaults, and can be overridden by
\* application configuration" (configuration.md).
LatestTemplate ==
  \A i \in DOMAIN interfaces :
    LET f == interfaces[i]
        of == {k \in 1 .. f.at : pers[k][1] = f.tag}
    IN of # {} /\ pers[Max(of)][2] = <<f.per>> \o f.rscs

\* Once the schedulers are enabled, every module has interfaces of the types it
\* calls them by, and no serial port is served by two interfaces, whose
\* interrupt handler knows only one.
EnabledInterfacesFit ==
  phase = "enabled" =>
    \A i, j \in DOMAIN interfaces :
      /\ PpType[interfaces[i].per] = interfaces[i].for
      /\ PpType[interfaces[i].per] = "SERIAL" /\ interfaces[i].per = interfaces[j].per
           => i = j
=============================================================================
