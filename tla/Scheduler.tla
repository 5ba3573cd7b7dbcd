------------------------------ MODULE Scheduler ------------------------------
(***************************************************************************)
(* core/scheduler.c: schedulers, the clients registered with them and the  *)
(* task (sc_task) that runs a scheduler's clients each time it is          *)
(* triggered.                                                              *)
(*                                                                         *)
(* Three kinds of process interleave.  The callers use the API of          *)
(* scheduler.h; Main is main_task of core/main.c, which loads the          *)
(* configuration (sc_define, sc_configure_source, sc_register_client),     *)
(* calls sc_init_clients once and, if that returned 0, sc_enable.  Other   *)
(* callers may use the API whenever they like, as the mutex and the        *)
(* comment on races in sc_task intend.  Interrupt handlers and other tasks *)
(* trigger a scheduler at any time after its task exists.  Every scheduler *)
(* has its sc_task, which takes no mutex: it relies on clients_initialized *)
(* alone.                                                                  *)
(*                                                                         *)
(* A pool list is the array of its slots: pools[s] pools of PoolSize slots *)
(* each.  A client is the (init, run, storage) triple of one registration; *)
(* a field of a slot holds the client it was written for, or NULL.         *)
(***************************************************************************)
EXTENDS Integers, Sequences, FiniteSets

CONSTANTS
  Scheds,     \* scheduler structs (sc_t) that sc_define may allocate
  Names,      \* names of schedulers
  Clients,    \* client registrations
  Callers,    \* tasks that call the API
  Main,       \* the caller that is main_task
  PoolSize,   \* SCHEDULER_CLIENTS_PER_POOL
  MaxPools,   \* bound: pools the heap has room for, per scheduler
  Periods,    \* periods sc_configure_source is called with
  NULL

ASSUME PoolAssumption == PoolSize \in Nat \ {0} /\ MaxPools \in Nat
ASSUME PeriodAssumption == Periods \subseteq Int
ASSUME MainAssumption == Main \in Callers
ASSUME NullAssumption ==
  NULL \notin Scheds \cup Clients \cup Callers \cup Names

VARIABLES
  sc_schedulers,       \* the list, head first
  sc_mutex,            \* the caller that holds the mutex, or NULL
  sc_is_enabled,
  name, pools, slots,  \* fields of sc_t: name, number of pools, their slots
  clients_initialized, period_sec,
  pc, sched, client,   \* where each caller is, its scheduler and client,
  idx, place,          \* its slot, and its place on the list
  tpc, left, pos,      \* where each sc_task is, clients_left, next slot
  bit, received, val,  \* notification value and state, and notify_value
  inits, init_period   \* history: calls of a client's init, period passed

callerVars == <<pc, sched, client, idx, place>>
taskVars == <<tpc, left, pos, val>>
notifyVars == <<bit, received>>
listVars == <<sc_schedulers, name, pools, slots>>
historyVars == <<inits, init_period>>
vars == <<sc_schedulers, sc_mutex, sc_is_enabled, name, pools, slots,
          clients_initialized, period_sec, pc, sched, client, idx, place,
          tpc, left, pos, bit, received, val, inits, init_period>>

Slots == 0 .. (PoolSize * MaxPools - 1)
EmptySlot == [init |-> NULL, run |-> NULL, storage |-> NULL]
FullSlot(cl) == [init |-> cl, run |-> cl, storage |-> cl]

\* The schedulers on the list.
Listed == {sc_schedulers[k] : k \in 1 .. Len(sc_schedulers)}

\* Slots of the pools the scheduler has.
Allocated(s) == 0 .. (PoolSize * pools[s] - 1)

Init ==
  /\ sc_schedulers = <<>>
  /\ sc_mutex = NULL
  /\ sc_is_enabled = FALSE
  /\ name = [s \in Scheds |-> NULL]
  /\ pools = [s \in Scheds |-> 0]
  /\ slots = [s \in Scheds |-> [i \in Slots |-> EmptySlot]]
  /\ clients_initialized = [s \in Scheds |-> 0]
  /\ period_sec = [s \in Scheds |-> -1]
  /\ pc = [c \in Callers |-> "idle"]
  /\ sched = [c \in Callers |-> NULL]
  /\ client = [c \in Callers |-> NULL]
  /\ idx = [c \in Callers |-> 0]
  /\ place = [c \in Callers |-> 0]
  /\ tpc = [s \in Scheds |-> "none"]
  /\ left = [s \in Scheds |-> 0]
  /\ pos = [s \in Scheds |-> 0]
  /\ bit = [s \in Scheds |-> FALSE]
  /\ received = [s \in Scheds |-> FALSE]
  /\ val = [s \in Scheds |-> FALSE]
  /\ inits = [cl \in Clients |-> 0]
  /\ init_period = [cl \in Clients |-> -1]

-----------------------------------------------------------------------------
(* The mutex.  A caller that finds it taken blocks at the call.            *)

Take(c) == sc_mutex = NULL /\ sc_mutex' = c
Give(c) == sc_mutex' = NULL

-----------------------------------------------------------------------------
(* sc_define                                                               *)

\* A priority out of range returns NULL before anything else: no state
\* changes, so it is no action.  With the mutex taken the list is searched;
\* a known name returns NULL.
sc_define(c, s, n) ==
  /\ pc[c] = "idle"
  /\ tpc[s] = "none" /\ name[s] = NULL
  /\ \A d \in Callers : sched[d] # s
  /\ Take(c)
  /\ \A t \in Listed : name[t] # n
  /\ pc' = [pc EXCEPT ![c] = "create"]
  /\ sched' = [sched EXCEPT ![c] = s]
  /\ name' = [name EXCEPT ![s] = n]
  /\ UNCHANGED <<sc_schedulers, sc_is_enabled, pools, slots,
                 clients_initialized, period_sec, client, idx, place>>
  /\ UNCHANGED <<taskVars, notifyVars, historyVars>>

\* The task is created, which may preempt the caller at once, and only then
\* is the scheduler linked at the head of the list.
sc_define_create(c) ==
  /\ pc[c] = "create"
  /\ tpc[sched[c]] = "none"
  /\ tpc' = [tpc EXCEPT ![sched[c]] = "wait"]
  /\ pc' = [pc EXCEPT ![c] = "link"]
  /\ UNCHANGED <<sc_mutex, sc_is_enabled, clients_initialized, period_sec,
                 sched, client, idx, place, left, pos, val>>
  /\ UNCHANGED <<listVars, notifyVars, historyVars>>

sc_define_link(c) ==
  /\ pc[c] = "link"
  /\ sc_schedulers' = <<sched[c]>> \o sc_schedulers
  /\ Give(c)
  /\ pc' = [pc EXCEPT ![c] = "idle"]
  /\ sched' = [sched EXCEPT ![c] = NULL]
  /\ UNCHANGED <<sc_is_enabled, name, pools, slots, clients_initialized,
                 period_sec, client, idx, place>>
  /\ UNCHANGED <<taskVars, notifyVars, historyVars>>

\* pvPortMalloc, strops_dup or xTaskCreate fails: NULL is returned and the
\* struct is never used again.
sc_define_fail(c) ==
  /\ pc[c] = "create"
  /\ Give(c)
  /\ pc' = [pc EXCEPT ![c] = "idle"]
  /\ sched' = [sched EXCEPT ![c] = NULL]
  /\ UNCHANGED <<sc_is_enabled, clients_initialized, period_sec, client, idx,
                 place>>
  /\ UNCHANGED <<listVars, taskVars, notifyVars, historyVars>>

-----------------------------------------------------------------------------
(* sc_configure_source: refused once a period is set.  It takes no mutex,  *)
(* so the test and the store are two steps.  The scheduler is one that     *)
(* sc_get has returned.                                                    *)

sc_configure_source(c, s) ==
  /\ pc[c] = "idle"
  /\ s \in Listed
  /\ period_sec[s] < 0
  /\ pc' = [pc EXCEPT ![c] = "set_period"]
  /\ sched' = [sched EXCEPT ![c] = s]
  /\ UNCHANGED <<sc_mutex, sc_is_enabled, clients_initialized, period_sec,
                 client, idx, place>>
  /\ UNCHANGED <<listVars, taskVars, notifyVars, historyVars>>

configure_set_period(c, p) ==
  /\ pc[c] = "set_period"
  /\ period_sec' = [period_sec EXCEPT ![sched[c]] = p]
  /\ pc' = [pc EXCEPT ![c] = "idle"]
  /\ sched' = [sched EXCEPT ![c] = NULL]
  /\ UNCHANGED <<sc_mutex, sc_is_enabled, clients_initialized, client, idx,
                 place>>
  /\ UNCHANGED <<listVars, taskVars, notifyVars, historyVars>>

-----------------------------------------------------------------------------
(* sc_register_client                                                      *)

Free(s) == {i \in Allocated(s) : slots[s][i].init = NULL}
IsFirst(i, S) == \A j \in S : i <= j

\* The first slot without an init, pools in list order.  The three fields
\* are written one after the other while sc_task may be running.
sc_register_client(c, s, cl) ==
  /\ pc[c] = "idle"
  /\ s \in Listed
  /\ \A t \in Scheds : \A i \in Slots : slots[t][i].init # cl
  /\ \A d \in Callers : client[d] # cl
  /\ Take(c)
  /\ sched' = [sched EXCEPT ![c] = s]
  /\ client' = [client EXCEPT ![c] = cl]
  /\ \/ \E i \in Free(s) :
          /\ IsFirst(i, Free(s))
          /\ idx' = [idx EXCEPT ![c] = i]
          /\ slots' = [slots EXCEPT ![s][i] =
               [init |-> cl, run |-> @.run, storage |-> @.storage]]
          /\ pc' = [pc EXCEPT ![c] = "set_run"]
     \/ /\ Free(s) = {}
        /\ pc' = [pc EXCEPT ![c] = "add_pool"]
        /\ UNCHANGED <<idx, slots>>
  /\ UNCHANGED <<sc_schedulers, sc_is_enabled, name, pools,
                 clients_initialized, period_sec, place>>
  /\ UNCHANGED <<taskVars, notifyVars, historyVars>>

register_set_run(c) ==
  /\ pc[c] = "set_run"
  /\ slots' = [slots EXCEPT ![sched[c]][idx[c]] =
       [init |-> @.init, run |-> client[c], storage |-> @.storage]]
  /\ pc' = [pc EXCEPT ![c] = "set_storage"]
  /\ UNCHANGED <<sc_schedulers, sc_mutex, sc_is_enabled, name, pools,
                 clients_initialized, period_sec, sched, client, idx, place>>
  /\ UNCHANGED <<taskVars, notifyVars, historyVars>>

\* What every return of a call made with the mutex held does.
Return(c, at) ==
  /\ Give(c)
  /\ pc' = [pc EXCEPT ![c] = at]
  /\ sched' = [sched EXCEPT ![c] = NULL]
  /\ client' = [client EXCEPT ![c] = NULL]
  /\ idx' = [idx EXCEPT ![c] = 0]
  /\ place' = [place EXCEPT ![c] = 0]

register_set_storage(c) ==
  /\ pc[c] = "set_storage"
  /\ slots' = [slots EXCEPT ![sched[c]][idx[c]] =
       [init |-> @.init, run |-> @.run, storage |-> client[c]]]
  /\ Return(c, "idle")
  /\ UNCHANGED <<sc_schedulers, sc_is_enabled, name, pools,
                 clients_initialized, period_sec>>
  /\ UNCHANGED <<taskVars, notifyVars, historyVars>>

\* Mutant of register_add_pool: the new pool replaces the list instead of
\* being attached at its end.
add_pool_replacing(c) ==
  /\ pc[c] = "add_pool"
  /\ pools' = [pools EXCEPT ![sched[c]] = 1]
  /\ slots' = [slots EXCEPT ![sched[c]] =
       [i \in Slots |-> IF i = 0 THEN FullSlot(client[c]) ELSE EmptySlot]]
  /\ Return(c, "idle")
  /\ UNCHANGED <<sc_schedulers, sc_is_enabled, name, clients_initialized,
                 period_sec>>
  /\ UNCHANGED <<taskVars, notifyVars, historyVars>>

\* A new pool is filled before it is attached at the end of the list, so
\* sc_task sees it complete.
register_add_pool(c) ==
  /\ pc[c] = "add_pool"
  /\ pools[sched[c]] < MaxPools
  /\ pools' = [pools EXCEPT ![sched[c]] = @ + 1]
  /\ slots' = [slots EXCEPT
                 ![sched[c]][PoolSize * pools[sched[c]]] = FullSlot(client[c])]
  /\ Return(c, "idle")
  /\ UNCHANGED <<sc_schedulers, sc_is_enabled, name, clients_initialized,
                 period_sec>>
  /\ UNCHANGED <<taskVars, notifyVars, historyVars>>

\* Mutant of register_fail: the mutex is not given back.
register_fail_locked(c) ==
  /\ pc[c] = "add_pool"
  /\ pc' = [pc EXCEPT ![c] = "idle"]
  /\ sched' = [sched EXCEPT ![c] = NULL]
  /\ client' = [client EXCEPT ![c] = NULL]
  /\ UNCHANGED <<sc_mutex, sc_is_enabled, clients_initialized, period_sec, idx,
                 place>>
  /\ UNCHANGED <<listVars, taskVars, notifyVars, historyVars>>

\* pvPortMalloc fails.
register_fail(c) ==
  /\ pc[c] = "add_pool"
  /\ Return(c, "idle")
  /\ UNCHANGED <<sc_is_enabled, clients_initialized, period_sec>>
  /\ UNCHANGED <<listVars, taskVars, notifyVars, historyVars>>

-----------------------------------------------------------------------------
(* sc_init_clients                                                         *)

\* Mutant of Due: clients that are initialised already are not skipped.
due_again(s) == {i \in Allocated(s) : slots[s][i].init # NULL}

\* Clients the walk over the pools still has to initialise.  The walk only
\* goes forward, and clients_initialized is one past the last it did.
Due(s) == {i \in Allocated(s) :
             i >= clients_initialized[s] /\ slots[s][i].init # NULL}

sc_init_clients(c) ==
  /\ pc[c] = "idle"
  /\ Take(c)
  /\ pc' = [pc EXCEPT ![c] = "walk"]
  /\ place' = [place EXCEPT ![c] = 1]
  /\ UNCHANGED <<sc_is_enabled, clients_initialized, period_sec, sched,
                 client, idx>>
  /\ UNCHANGED <<listVars, taskVars, notifyVars, historyVars>>

\* The scheduler the walk has reached.
AtSched(c, s) ==
  /\ place[c] <= Len(sc_schedulers)
  /\ s = sc_schedulers[place[c]]

\* A scheduler without a period: -1.  main_task then suspends itself.
init_no_period(c) ==
  /\ pc[c] = "walk"
  /\ \E s \in Scheds : AtSched(c, s) /\ period_sec[s] < 0
  /\ Return(c, IF c = Main THEN "halted" ELSE "idle")
  /\ UNCHANGED <<sc_is_enabled, clients_initialized, period_sec>>
  /\ UNCHANGED <<listVars, taskVars, notifyVars, historyVars>>

\* Mutant of init_sched: the period is not checked.
init_sched_unchecked(c) ==
  /\ pc[c] = "walk"
  /\ \E s \in Scheds : AtSched(c, s)
  /\ pc' = [pc EXCEPT ![c] = "clients"]
  /\ UNCHANGED <<sc_mutex, sc_is_enabled, clients_initialized, period_sec,
                 sched, client, idx, place>>
  /\ UNCHANGED <<listVars, taskVars, notifyVars, historyVars>>

init_sched(c) ==
  /\ pc[c] = "walk"
  /\ \E s \in Scheds : AtSched(c, s) /\ period_sec[s] >= 0
  /\ pc' = [pc EXCEPT ![c] = "clients"]
  /\ UNCHANGED <<sc_mutex, sc_is_enabled, clients_initialized, period_sec,
                 sched, client, idx, place>>
  /\ UNCHANGED <<listVars, taskVars, notifyVars, historyVars>>

\* The init callback of the next client that is due.
init_call(c) ==
  \E s \in Scheds :
    /\ pc[c] = "clients"
    /\ AtSched(c, s)
    /\ \E i \in Due(s) :
         LET cl == slots[s][i].init
         IN /\ IsFirst(i, Due(s))
            /\ inits' = [inits EXCEPT ![cl] = @ + 1]
            /\ init_period' = [init_period EXCEPT ![cl] = period_sec[s]]
            /\ client' = [client EXCEPT ![c] = cl]
            /\ idx' = [idx EXCEPT ![c] = i]
    /\ sched' = [sched EXCEPT ![c] = s]
    /\ pc' = [pc EXCEPT ![c] = "count"]
    /\ UNCHANGED <<sc_mutex, sc_is_enabled, clients_initialized, period_sec,
                   place>>
    /\ UNCHANGED <<listVars, taskVars, notifyVars>>

\* Mutant of init_count: cur_client goes on counting from one scheduler to the
\* next.
init_count_running(c) ==
  /\ pc[c] = "count"
  /\ clients_initialized' =
       [clients_initialized EXCEPT ![sched[c]] =
          Cardinality({cl \in Clients : inits[cl] > 0})]
  /\ pc' = [pc EXCEPT ![c] = "clients"]
  /\ sched' = [sched EXCEPT ![c] = NULL]
  /\ client' = [client EXCEPT ![c] = NULL]
  /\ idx' = [idx EXCEPT ![c] = 0]
  /\ UNCHANGED <<sc_mutex, sc_is_enabled, period_sec, place>>
  /\ UNCHANGED <<listVars, taskVars, notifyVars, historyVars>>

\* Only after init returned is the client counted as initialised.
init_count(c) ==
  /\ pc[c] = "count"
  /\ clients_initialized' =
       [clients_initialized EXCEPT ![sched[c]] = idx[c] + 1]
  /\ pc' = [pc EXCEPT ![c] = "clients"]
  /\ sched' = [sched EXCEPT ![c] = NULL]
  /\ client' = [client EXCEPT ![c] = NULL]
  /\ idx' = [idx EXCEPT ![c] = 0]
  /\ UNCHANGED <<sc_mutex, sc_is_enabled, period_sec, place>>
  /\ UNCHANGED <<listVars, taskVars, notifyVars, historyVars>>

init_next_sched(c) ==
  /\ pc[c] = "clients"
  /\ \E s \in Scheds : AtSched(c, s) /\ Due(s) = {}
  /\ place' = [place EXCEPT ![c] = @ + 1]
  /\ pc' = [pc EXCEPT ![c] = "walk"]
  /\ UNCHANGED <<sc_mutex, sc_is_enabled, clients_initialized, period_sec,
                 sched, client, idx>>
  /\ UNCHANGED <<listVars, taskVars, notifyVars, historyVars>>

init_done(c) ==
  /\ pc[c] = "walk"
  /\ place[c] > Len(sc_schedulers)
  /\ Return(c, IF c = Main THEN "ready" ELSE "idle")
  /\ UNCHANGED <<sc_is_enabled, clients_initialized, period_sec>>
  /\ UNCHANGED <<listVars, taskVars, notifyVars, historyVars>>

\* main_task enables the schedulers once sc_init_clients returned 0, and
\* makes no further call.
sc_enable(c) ==
  /\ pc[c] = "ready"
  /\ sc_is_enabled' = TRUE
  /\ pc' = [pc EXCEPT ![c] = "done"]
  /\ UNCHANGED <<sc_mutex, clients_initialized, period_sec, sched, client,
                 idx, place>>
  /\ UNCHANGED <<listVars, taskVars, notifyVars, historyVars>>

-----------------------------------------------------------------------------
(* sc_trigger and sc_trigger_from_isr: eSetBits.                           *)

sc_trigger(s) ==
  /\ s \in Listed
  /\ bit' = [bit EXCEPT ![s] = TRUE]
  /\ received' = [received EXCEPT ![s] = TRUE]
  /\ UNCHANGED <<sc_mutex, sc_is_enabled, clients_initialized, period_sec>>
  /\ UNCHANGED <<listVars, callerVars, taskVars, historyVars>>

-----------------------------------------------------------------------------
(* sc_task                                                                 *)

\* xTaskNotifyWait returns: with a notification, or after
\* SCHEDULER_TIMEOUT.  Either way notify_value is the current value; the
\* bits are cleared only when a notification was received.
task_wait(s) ==
  /\ tpc[s] = "wait"
  /\ val' = [val EXCEPT ![s] = bit[s]]
  /\ bit' = [bit EXCEPT ![s] = @ /\ ~received[s]]
  /\ received' = [received EXCEPT ![s] = FALSE]
  /\ tpc' = [tpc EXCEPT ![s] = "check"]
  /\ UNCHANGED <<sc_mutex, sc_is_enabled, clients_initialized, period_sec,
                 left, pos>>
  /\ UNCHANGED <<listVars, callerVars, historyVars>>

\* Mutant of task_check: the pass covers the clients registered, not those
\* initialised.
task_check_registered(s) ==
  /\ tpc[s] = "check"
  /\ IF val[s] /\ sc_is_enabled
     THEN /\ tpc' = [tpc EXCEPT ![s] = "run"]
          /\ left' = [left EXCEPT ![s] = Cardinality(Allocated(s) \ Free(s))]
          /\ pos' = [pos EXCEPT ![s] = 0]
     ELSE /\ tpc' = [tpc EXCEPT ![s] = "wait"]
          /\ UNCHANGED <<left, pos>>
  /\ val' = [val EXCEPT ![s] = FALSE]
  /\ UNCHANGED <<sc_mutex, sc_is_enabled, clients_initialized, period_sec>>
  /\ UNCHANGED <<listVars, callerVars, notifyVars, historyVars>>

\* The test of sc_is_enabled and the read of clients_initialized.
task_check(s) ==
  /\ tpc[s] = "check"
  /\ IF val[s] /\ sc_is_enabled
     THEN /\ tpc' = [tpc EXCEPT ![s] = "run"]
          /\ left' = [left EXCEPT ![s] = clients_initialized[s]]
          /\ pos' = [pos EXCEPT ![s] = 0]
     ELSE /\ tpc' = [tpc EXCEPT ![s] = "wait"]
          /\ UNCHANGED <<left, pos>>
  /\ val' = [val EXCEPT ![s] = FALSE]
  /\ UNCHANGED <<sc_mutex, sc_is_enabled, clients_initialized, period_sec>>
  /\ UNCHANGED <<listVars, callerVars, notifyVars, historyVars>>

\* One client's run callback, then the next slot.
task_run(s) ==
  /\ tpc[s] = "run"
  /\ left[s] > 0 /\ pos[s] \in Allocated(s)
  /\ left' = [left EXCEPT ![s] = @ - 1]
  /\ pos' = [pos EXCEPT ![s] = @ + 1]
  /\ UNCHANGED <<sc_mutex, sc_is_enabled, clients_initialized, period_sec,
                 tpc, val>>
  /\ UNCHANGED <<listVars, callerVars, notifyVars, historyVars>>

\* Mutant of task_end: notifications of the pass are cleared at its end.
task_end_clears(s) ==
  /\ tpc[s] = "run"
  /\ left[s] = 0 \/ pos[s] \notin Allocated(s)
  /\ tpc' = [tpc EXCEPT ![s] = "wait"]
  /\ left' = [left EXCEPT ![s] = 0]
  /\ pos' = [pos EXCEPT ![s] = 0]
  /\ bit' = [bit EXCEPT ![s] = FALSE]
  /\ received' = [received EXCEPT ![s] = FALSE]
  /\ UNCHANGED <<sc_mutex, sc_is_enabled, clients_initialized, period_sec,
                 val>>
  /\ UNCHANGED <<listVars, callerVars, historyVars>>

task_end(s) ==
  /\ tpc[s] = "run"
  /\ left[s] = 0 \/ pos[s] \notin Allocated(s)
  /\ tpc' = [tpc EXCEPT ![s] = "wait"]
  /\ left' = [left EXCEPT ![s] = 0]
  /\ pos' = [pos EXCEPT ![s] = 0]
  /\ UNCHANGED <<sc_mutex, sc_is_enabled, clients_initialized, period_sec,
                 val>>
  /\ UNCHANGED <<listVars, callerVars, notifyVars, historyVars>>

-----------------------------------------------------------------------------
\* A call a caller starts, and the steps that bring it to its return.
Call(c) ==
  \/ \E s \in Scheds, n \in Names : sc_define(c, s, n)
  \/ \E s \in Scheds : sc_configure_source(c, s)
  \/ \E s \in Scheds, cl \in Clients : sc_register_client(c, s, cl)
  \/ sc_init_clients(c)

Continue(c) ==
  \/ \E p \in Periods : configure_set_period(c, p)
  \/ sc_define_create(c) \/ sc_define_link(c) \/ sc_define_fail(c)
  \/ register_set_run(c) \/ register_set_storage(c)
  \/ register_add_pool(c) \/ register_fail(c)
  \/ init_no_period(c) \/ init_sched(c) \/ init_call(c) \/ init_count(c)
  \/ init_next_sched(c) \/ init_done(c)
  \/ sc_enable(c)

Task(s) == task_wait(s) \/ task_check(s) \/ task_run(s) \/ task_end(s)

Next ==
  \/ \E c \in Callers : Call(c) \/ Continue(c)
  \/ \E s \in Scheds : sc_trigger(s) \/ Task(s)

Spec == Init /\ [][Next]_vars

\* A scheduler's task gets the processor again and again (its priority is
\* above that of main_task, and run callbacks return), and a caller that is
\* inside a call goes on.  Nobody is obliged to call or to trigger.
Fairness ==
  /\ \A s \in Scheds : WF_vars(Task(s))
  /\ \A c \in Callers : WF_vars(Continue(c))

FairSpec == Spec /\ Fairness

-----------------------------------------------------------------------------
(* Properties                                                              *)

PCs == {"idle", "create", "link", "set_period", "set_run", "set_storage",
        "add_pool", "walk", "clients", "count", "ready", "halted", "done"}
SlotType == [init : Clients \cup {NULL}, run : Clients \cup {NULL},
             storage : Clients \cup {NULL}]

\* Every variable keeps its type.
TypeOK ==
  /\ sc_schedulers \in Seq(Scheds)
  /\ sc_mutex \in Callers \cup {NULL}
  /\ sc_is_enabled \in BOOLEAN
  /\ name \in [Scheds -> Names \cup {NULL}]
  /\ pools \in [Scheds -> 0 .. MaxPools]
  /\ slots \in [Scheds -> [Slots -> SlotType]]
  /\ clients_initialized \in [Scheds -> Nat]
  /\ period_sec \in [Scheds -> Int]
  /\ pc \in [Callers -> PCs]
  /\ sched \in [Callers -> Scheds \cup {NULL}]
  /\ client \in [Callers -> Clients \cup {NULL}]
  /\ idx \in [Callers -> Nat]
  /\ place \in [Callers -> Nat]
  /\ tpc \in [Scheds -> {"none", "wait", "check", "run"}]
  /\ left \in [Scheds -> Nat]
  /\ pos \in [Scheds -> Nat]
  /\ bit \in [Scheds -> BOOLEAN]
  /\ received \in [Scheds -> BOOLEAN]
  /\ val \in [Scheds -> BOOLEAN]
  /\ inits \in [Clients -> Nat]
  /\ init_period \in [Clients -> Int]

\* The client in slot i of s is complete and its init callback has been
\* called exactly once.
Initialised(s, i) ==
  \E cl \in Clients :
    /\ slots[s][i] = FullSlot(cl)
    /\ inits[cl] = 1

\* The comment in sc_task: "all clients reached is properly initialized".
\* Whatever the callers are doing, a client about to be run is complete and
\* its init callback has been called exactly once.
RunsInitialisedOnly ==
  \A s \in Scheds :
    tpc[s] = "run" /\ left[s] > 0 /\ pos[s] \in Allocated(s)
      => Initialised(s, pos[s])

\* A pass that has read clients_left never stops early because the pools
\* ran out: clients_initialized counts only slots that exist.
PassReachesAllClients ==
  \A s \in Scheds :
    tpc[s] = "run" => \A i \in pos[s] .. (pos[s] + left[s] - 1) : i \in Allocated(s)

\* No client is initialised twice, however often sc_init_clients runs.
InitAtMostOnce == \A cl \in Clients : inits[cl] <= 1

\* A registration is never overwritten: a slot's client stays its client.
RegistrationsKept ==
  [][\A s \in Scheds : \A i \in Slots :
       slots[s][i].init # NULL => slots'[s][i].init = slots[s][i].init]_vars

\* A trigger of an enabled scheduler is never lost: whatever the task is
\* doing when it arrives, each client initialised by then is run after it.
TriggerRunsClients ==
  \A s \in Scheds : \A i \in Slots :
    (sc_is_enabled /\ bit[s] /\ i < clients_initialized[s])
      ~> (tpc[s] = "run" /\ pos[s] = i /\ left[s] > 0)

\* Every API call returns and gives the mutex back, on all its paths.
CallsReturn ==
  \A c \in Callers : (sc_mutex = c) ~> (sc_mutex = NULL)

-----------------------------------------------------------------------------
(* The inductive invariant behind the first three properties               *)

\* Exactly the caller inside a critical section holds the mutex.
Critical == {"create", "link", "set_run", "set_storage", "add_pool", "walk",
             "clients", "count"}
MutexInv == \A c \in Callers : pc[c] \in Critical <=> sc_mutex = c

Registering(c) == pc[c] \in {"set_run", "set_storage"}

\* A slot is empty, complete, or the one a registration is writing.
SlotInv ==
  \A s \in Scheds : \A i \in Slots :
    \/ slots[s][i] = EmptySlot
    \/ \E cl \in Clients : slots[s][i] = FullSlot(cl)
    \/ \E c \in Callers : Registering(c) /\ sched[c] = s /\ idx[c] = i

\* Slots are filled from the first on, and only in pools that exist.
FilledInOrder ==
  \A s \in Scheds : \A i \in Slots :
    slots[s][i].init # NULL =>
      /\ i \in Allocated(s)
      /\ \A j \in 0 .. i : slots[s][j].init # NULL

\* A client is in one slot.
OneSlot ==
  \A s, t \in Scheds : \A i, j \in Slots :
    slots[s][i].init # NULL /\ slots[s][i].init = slots[t][j].init
      => s = t /\ i = j

\* clients_initialized counts initialised clients; the others, but for the
\* one sc_init_clients is about to count, are not initialised.
CountInv ==
  \A s \in Scheds :
    /\ \A i \in 0 .. (clients_initialized[s] - 1) :
         i \in Allocated(s) /\ Initialised(s, i)
    /\ \A i \in Slots :
         i >= clients_initialized[s] /\ slots[s][i].init # NULL =>
           \/ inits[slots[s][i].init] = 0
           \/ \E c \in Callers : pc[c] = "count" /\ sched[c] = s /\ idx[c] = i

\* A client without a slot was never initialised.
UnregisteredInv ==
  \A cl \in Clients :
    (\A s \in Scheds : \A i \in Slots : slots[s][i].init # cl)
      => inits[cl] = 0

\* What a caller in the middle of a call knows.
InCall(c) ==
  /\ pc[c] \in {"create", "link", "set_period"} => sched[c] \in Scheds
  /\ pc[c] \in {"set_run", "set_storage", "add_pool", "count"} =>
       sched[c] \in Scheds /\ client[c] \in Clients
  /\ pc[c] \in {"set_run", "set_storage", "count"} => idx[c] \in Slots
  /\ pc[c] = "set_run" =>
       slots[sched[c]][idx[c]] =
         [init |-> client[c], run |-> NULL, storage |-> NULL]
  /\ pc[c] = "set_storage" =>
       slots[sched[c]][idx[c]] =
         [init |-> client[c], run |-> client[c], storage |-> NULL]
  /\ pc[c] = "add_pool" =>
       /\ Free(sched[c]) = {}
       /\ \A s \in Scheds : \A i \in Slots : slots[s][i].init # client[c]
  /\ pc[c] = "count" =>
       /\ idx[c] = clients_initialized[sched[c]]
       /\ slots[sched[c]][idx[c]] = FullSlot(client[c])
       /\ inits[client[c]] = 1

CallerInv == \A c \in Callers : InCall(c)

\* A pass never runs past what was initialised when it began.
PassInv ==
  \A s \in Scheds :
    tpc[s] = "run" => pos[s] + left[s] <= clients_initialized[s]

IInv ==
  /\ TypeOK /\ MutexInv /\ SlotInv /\ FilledInOrder /\ OneSlot /\ CountInv
  /\ UnregisteredInv /\ CallerInv /\ PassInv

-----------------------------------------------------------------------------
\* When only main_task uses the API: a client that has been initialised was
\* given a valid period, the one its scheduler has for good.  (With several
\* callers the unlocked test in sc_configure_source does not guarantee it.)
InitialisedWithPeriod ==
  \A s \in Scheds : \A i \in Slots :
    LET cl == slots[s][i].init
    IN cl # NULL /\ i < clients_initialized[s]
         => init_period[cl] >= 0 /\ init_period[cl] = period_sec[s]

\* When only main_task uses the API: once the schedulers are enabled every
\* scheduler has its period and every registered client is initialised, at
\* all times with the period that stays in force.
EnabledMeansReady ==
  /\ sc_is_enabled => \A s \in Listed : period_sec[s] >= 0 /\ Due(s) = {}
  /\ InitialisedWithPeriod
=============================================================================
